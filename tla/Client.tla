------------------------------- MODULE Client -------------------------------
(***************************************************************************)
(* The sender, client.c: a handshake, then window after window of packets, *)
(* each sent, acknowledged and repaired before the next one is built.  The *)
(* loop over the slots of a window is taken one packet at a time, so that  *)
(* what the network does in between is seen.                               *)
(***************************************************************************)
EXTENDS Packets

VARIABLES
    pc,        \* where the program is, see TypeOK
    slot,      \* the loop variable i, from 1
    synAck,    \* WindowSize and AckNum of the datagram taken as SYNACK
    tpc,       \* total_packet_count: packets built so far
    copy,      \* copy_packet, the packet built last
    tp,        \* transmit_packets: the window
    acked,     \* the acked fields of transmitted_packets
    rac,       \* received_ack_count
    garbage,   \* flags of syn_packet and data_packet, never initialised
    timer,     \* whether the receive timeout is in force
    c2e, e2c   \* receive queues of the emulator and of the client

clientVars == <<pc, slot, synAck, tpc, copy, tp, acked, rac, garbage, timer>>

W == synAck.ws

NoPacket == [type |-> DATA, seq |-> 0, ack |-> 0, ws |-> 0,
             data |-> Blank, last |-> 0, re |-> 0]

Init ==
    /\ pc = "start"
    /\ slot = 0
    /\ synAck = [ws |-> 0, ack |-> 0]
    /\ tpc = 0
    /\ copy = NoPacket
    /\ tp = <<>> /\ acked = <<>>
    /\ rac = 0
    /\ garbage \in [synLast : Flags, synRe : Flags, dataRe : Flags]
    /\ timer \in Armed

-----------------------------------------------------------------------------
(***************************************************************************)
(* The handshake.                                                          *)
(***************************************************************************)
Syn(re) == [type |-> SYN, seq |-> 100, ack |-> 200, ws |-> TotalPacketCount,
            data |-> Blank, last |-> garbage.synLast, re |-> re]

SendSyn ==
    /\ pc = "start"
    /\ pc' = "handshake"
    /\ c2e' = Put(c2e, <<Syn(garbage.synRe)>>)
    /\ UNCHANGED <<slot, synAck, tpc, copy, tp, acked, rac, garbage, timer, e2c>>

(* FAULTY: after the timeout the client goes on without an answer.         *)
SynTimeoutGivesUp ==
    /\ pc = "handshake"
    /\ timer /\ e2c = <<>>
    /\ synAck' = [ws |-> Window, ack |-> 200]
    /\ tp' = [i \in 1..Window |-> NoPacket]
    /\ acked' = [i \in 1..Window |-> 0]
    /\ pc' = "build" /\ slot' = 1
    /\ UNCHANGED <<tpc, copy, rac, garbage, timer, c2e, e2c>>

SynTimeout ==
    /\ pc = "handshake"
    /\ timer /\ e2c = <<>>
    /\ c2e' = Put(c2e, <<Syn(1)>>)
    /\ UNCHANGED <<clientVars, e2c>>

(* Whatever arrives is taken for the SYNACK.                               *)
TakeSynAck ==
    /\ pc = "handshake"
    /\ e2c # <<>>
    /\ e2c' = Tail(e2c)
    /\ synAck' = [ws |-> Head(e2c).ws, ack |-> Head(e2c).ack]
    /\ tp' = [i \in 1..synAck'.ws |-> NoPacket]
    /\ acked' = [i \in 1..synAck'.ws |-> 0]
    /\ pc' = "build" /\ slot' = 1
    /\ UNCHANGED <<tpc, copy, rac, garbage, c2e>>

(* FAULTY, but what client copy.c does: the timeout for the data is taken  *)
(* from the round trip and rounded down, at times to none.                 *)
ReceiveSynAckRounded == TakeSynAck /\ timer' \in BOOLEAN

ReceiveSynAck == TakeSynAck /\ UNCHANGED timer

-----------------------------------------------------------------------------
(***************************************************************************)
(* Building a window.  Packet number TotalPacketCount, the one between the *)
(* last chunk and EOT, is covered by no branch of the code: the variable   *)
(* keeps the packet before.  A payload equal to that of the packet before  *)
(* is cleared, the chunk of the file lost with it.                         *)
(***************************************************************************)
(* FAULTY: the chunk of the packet before is read again.                   *)
UnstampedOffByOne ==
    CASE copy.seq = 0 /\ tpc <= TotalPacketCount ->
            [NoPacket EXCEPT !.seq = synAck.ack, !.ack = W, !.data = File[1]]
      [] copy.seq # 0 /\ tpc < TotalPacketCount ->
            [copy EXCEPT !.seq = copy.seq + W, !.ack = copy.ack + W,
                         !.data = File[tpc]]
      [] tpc = TotalPacketCount + 1 ->
            [copy EXCEPT !.type = EOT, !.seq = copy.seq + W, !.ack = 0,
                         !.data = Blank, !.last = 1]
      [] OTHER -> copy

(* FAULTY: the numbers count packets instead of going up by the window.    *)
UnstampedByOne ==
    IF tpc < TotalPacketCount /\ copy.seq # 0
    THEN [copy EXCEPT !.seq = copy.seq + 1, !.ack = copy.ack + W,
                      !.data = File[tpc + 1]]
    ELSE UnstampedOffByOne

Unstamped ==
    CASE copy.seq = 0 /\ tpc <= TotalPacketCount ->
            [NoPacket EXCEPT !.seq = synAck.ack, !.ack = W, !.data = File[1]]
      [] copy.seq # 0 /\ tpc < TotalPacketCount ->
            [copy EXCEPT !.seq = copy.seq + W, !.ack = copy.ack + W,
                         !.data = File[tpc + 1]]
      [] tpc = TotalPacketCount + 1 ->
            [copy EXCEPT !.type = EOT, !.seq = copy.seq + W, !.ack = 0,
                         !.data = Blank, !.last = 1]
      [] OTHER -> copy

(* What client copy.c does: EOT, too, names the slot it is in.             *)
NextPacketInSlot ==
    LET p == Unstamped
    IN  [p EXCEPT !.ws = slot,
                  !.data = IF p.data = copy.data THEN Blank ELSE p.data,
                  !.re = garbage.dataRe]

NextPacket ==
    LET p == Unstamped
    IN  [p EXCEPT !.ws = IF p.type = EOT THEN W ELSE slot,
                  !.data = IF p.data = copy.data THEN Blank ELSE p.data,
                  !.re = garbage.dataRe]

BuildWith(p) ==
    /\ pc = "build"
    /\ copy' = p
    /\ tp' = [tp EXCEPT ![slot] = p]
    /\ tpc' = tpc + 1
    /\ IF slot = W \/ p.type = EOT
       THEN pc' = "send" /\ slot' = 1
       ELSE slot' = slot + 1 /\ UNCHANGED pc
    /\ UNCHANGED <<synAck, acked, rac, garbage, timer, c2e, e2c>>

Build == BuildWith(NextPacket)

-----------------------------------------------------------------------------
(***************************************************************************)
(* Sending it.  The final packet, the one in the last slot or EOT, is      *)
(* marked as last and keeps the flag re as it found it.  After a timeout   *)
(* every slot is sent again, whether acknowledged or not.                  *)
(***************************************************************************)
Sending(p) == /\ tp' = [tp EXCEPT ![slot] = p]
              /\ acked' = [acked EXCEPT ![slot] = 0]
              /\ c2e' = Put(c2e, <<p>>)

(* FAULTY: received_ack_count is not reset.                                *)
ThenReceiveOn(finished) ==
    IF finished THEN pc' = "receive" /\ slot' = 0 /\ UNCHANGED rac
    ELSE slot' = slot + 1 /\ UNCHANGED <<pc, rac>>

ThenReceive(finished) ==
    IF finished THEN pc' = "receive" /\ rac' = 0 /\ slot' = 0
    ELSE slot' = slot + 1 /\ UNCHANGED <<pc, rac>>

Send ==
    LET final == slot = W \/ tp[slot].type = EOT
    IN  /\ pc = "send"
        /\ Sending(IF final THEN [tp[slot] EXCEPT !.last = 1]
                   ELSE [tp[slot] EXCEPT !.last = 0, !.re = 0])
        /\ ThenReceive(final)
        /\ UNCHANGED <<synAck, tpc, copy, garbage, timer, e2c>>

Resend ==
    /\ pc = "resend"
    /\ Sending([tp[slot] EXCEPT !.re = 1,
                                !.last = IF slot = W THEN 1 ELSE @])
    /\ ThenReceive(slot = W)
    /\ UNCHANGED <<synAck, tpc, copy, garbage, timer, e2c>>

-----------------------------------------------------------------------------
(***************************************************************************)
(* Receiving acknowledgements, until one is marked as last or none comes.  *)
(* Then the loop over the windows goes on if EOT has not been built.       *)
(***************************************************************************)
(* FAULTY: one packet too many.                                            *)
MoreWindowsStill == tpc <= TotalPacketCount + 2

MoreWindows == tpc <= TotalPacketCount + 1

(* received_ack_count is not compared with the size of the array: past its *)
(* end the comparison reads whatever lies there.                           *)
Expected(p) == IF rac < W THEN {p.seq = tp[rac + 1].ack} ELSE BOOLEAN

(* FAULTY: any acknowledgement is counted for the packet that is next.     *)
NoteAckInTurn(p) ==
    /\ rac' = rac + 1
    /\ acked' = [i \in 1..W |-> IF i = rac + 1 THEN 1 ELSE acked[i]]

NoteAckAs(p, expected) ==
    /\ rac' = IF expected THEN rac + 1 ELSE rac
    /\ acked' = [i \in 1..W |->
                    IF IF expected THEN i = rac + 1 ELSE p.seq = tp[i].ack
                    THEN 1 ELSE acked[i]]

NoteAck(p) == \E expected \in Expected(p) : NoteAckAs(p, expected)

(* The loop over the windows goes on with the window there is.             *)
ResendWindow ==
    IF MoreWindows THEN pc' = "resend" /\ slot' = 1
    ELSE pc' = "done" /\ UNCHANGED slot

(* FAULTY: once a window has been sent again, every datagram counts as a   *)
(* timeout.                                                                *)
ReceiveStill ==
    /\ pc = "receive"
    /\ e2c # <<>>
    /\ e2c' = Tail(e2c)
    /\ LET p == Head(e2c)
       IN  /\ IF p.type = ACK THEN NoteAck(p) ELSE UNCHANGED <<rac, acked>>
           /\ IF tp[1].re = 1 THEN ResendWindow
              ELSE pc' = (IF p.last = 1 THEN "repair" ELSE pc) /\ UNCHANGED slot
    /\ UNCHANGED <<synAck, tpc, copy, tp, garbage, timer, c2e>>

Receive ==
    /\ pc = "receive"
    /\ e2c # <<>>
    /\ e2c' = Tail(e2c)
    /\ LET p == Head(e2c)
       IN  /\ IF p.type = ACK THEN NoteAck(p) ELSE UNCHANGED <<rac, acked>>
           /\ pc' = IF p.last = 1 THEN "repair" ELSE pc
    /\ UNCHANGED <<slot, synAck, tpc, copy, tp, garbage, timer, c2e>>

Timeout ==
    /\ pc = "receive"
    /\ timer /\ e2c = <<>>
    /\ ResendWindow
    /\ UNCHANGED <<synAck, tpc, copy, tp, acked, rac, garbage, timer, c2e, e2c>>

(* The packets that were not acknowledged are sent once more and counted   *)
(* as acknowledged, one after the other; then the next window is built.    *)
Repair ==
    LET missing == {i \in 1..W : acked[i] # 1}
        i == CHOOSE k \in missing : \A j \in missing : k <= j
    IN  /\ pc = "repair"
        /\ IF missing # {}
           THEN /\ acked' = [acked EXCEPT ![i] = 1]
                /\ c2e' = Put(c2e, <<[tp[i] EXCEPT !.re = 1]>>)
                /\ UNCHANGED <<pc, slot>>
           ELSE /\ IF MoreWindows THEN pc' = "build" /\ slot' = 1
                   ELSE pc' = "done" /\ UNCHANGED slot
                /\ UNCHANGED <<acked, c2e>>
        /\ UNCHANGED <<synAck, tpc, copy, tp, rac, garbage, timer, e2c>>

Step == SendSyn \/ ReceiveSynAck \/ Build \/ Send \/ Resend \/ Receive \/ Repair

Timeouts == SynTimeout \/ Timeout

-----------------------------------------------------------------------------
(* The variables hold what the code declares; the loop variable is a slot  *)
(* of the window where it is used; the window is counted out exactly: the  *)
(* packets built never exceed the chunks, the extra packet and EOT.        *)
TypeOK ==
    /\ pc \in {"start", "handshake", "build", "send", "resend",
               "receive", "repair", "done"}
    /\ slot \in 0..W
    /\ pc \in {"build", "send", "resend"} => slot > 0
    /\ synAck \in [ws : 0..WIN, ack : Nat]
    /\ tpc \in 0..TotalPacketCount + 2
    /\ copy \in Packet
    /\ tp \in [1..W -> Packet]
    /\ acked \in [1..W -> {0, 1}]
    /\ rac \in Nat
    /\ garbage \in [synLast : Flags, synRe : Flags, dataRe : Flags]
    /\ timer \in BOOLEAN

=============================================================================
