------------------------------ MODULE Packets ------------------------------
(***************************************************************************)
(* The packet of packet.h, the pure helpers of handlers.c and the datagram *)
(* sockets, as the client, the emulator and the server share them.         *)
(*                                                                         *)
(* A payload is one of a small set of values: a chunk of the file that is  *)
(* being sent, Blank for the empty string, Junk for text found in memory   *)
(* that was never written.  Sequence and acknowledgement numbers are the   *)
(* numbers the code computes.                                              *)
(***************************************************************************)
EXTENDS Integers, Sequences, FiniteSets

CONSTANTS
    File,      \* what is sent: the sequence of its 500-byte chunks
    Blank,     \* an empty payload
    Junk,      \* text left in memory by an earlier use of it
    WIN,       \* window_size of server.c (15 there)
    Flags,     \* what an int flag that is never assigned can hold
    Armed,     \* whether a timeout with an unassigned tv_usec is accepted
    SockBuf    \* how many datagrams the receive buffer of a socket holds

ASSUME FileAssumption ==
    /\ File \in Seq({File[k] : k \in DOMAIN File})
    /\ Len(File) > 0
    /\ Blank \notin {File[k] : k \in DOMAIN File}
    /\ Junk \notin {File[k] : k \in DOMAIN File}
    /\ Junk # Blank
ASSUME WindowAssumption == WIN \in Nat \ {0}
ASSUME FlagsAssumption == Flags \subseteq {0, 1} /\ Flags # {}
ASSUME ArmedAssumption == Armed \subseteq BOOLEAN /\ Armed # {}
ASSUME SockBufAssumption == SockBuf \in Nat \ {0}

(* The PacketType codes (getPacketType).                                   *)
SYN == 1
SYNACK == 2
ACK == 3
DATA == 4
EOT == 8

(* The bytes of a full chunk.                                              *)
PAYLOAD_LEN == 500

Chunks == {File[k] : k \in DOMAIN File}
Payload == Chunks \cup {Blank, Junk}

Packet == [type : {SYN, SYNACK, ACK, DATA, EOT},
           seq : Nat, ack : Nat, ws : Nat,
           data : Payload, last : {0, 1}, re : {0, 1}]

(* getTotalPacketCount: the number of 500-byte chunks, rounded up.         *)
TotalPacketCount == Len(File)

setMaxWindowSize(a, b) == IF a > b THEN b ELSE a

(* FAULTY: the table is as large as the window.                            *)
setMaxPacketCountSmall(a, b) == IF a > b THEN b ELSE a

setMaxPacketCount(a, b) == IF a > b THEN a ELSE b

(* The window and the table size every SYN of this file leads to.          *)
Window == setMaxWindowSize(TotalPacketCount, WIN)
MaxPackets == setMaxPacketCount(TotalPacketCount, WIN)

(* FAULTY: what is sent later arrives earlier.                             *)
PutInFront(queue, pkts) ==
    LET all == pkts \o queue
    IN  IF Len(all) <= SockBuf THEN all ELSE SubSeq(all, 1, SockBuf)

(* sendPacket for each of pkts in turn: the datagrams join the receive     *)
(* queue of the destination; those that do not fit are discarded.  (That   *)
(* they keep their order is how a hop on one host or cable works; what UDP *)
(* may do beyond that is in Arrive of Server and in module Disorder.)      *)
Put(queue, pkts) ==
    LET all == queue \o pkts
    IN  IF Len(all) <= SockBuf THEN all ELSE SubSeq(all, 1, SockBuf)

=============================================================================
