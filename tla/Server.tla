------------------------------- MODULE Server -------------------------------
(***************************************************************************)
(* The receiver, server.c.  One turn of its loop is one action: a datagram *)
(* is taken from the socket, or the receive times out, and everything the  *)
(* loop body does with it follows - the tables, the acknowledgements, the  *)
(* received file.  Array indices start at 1 where the code starts at 0.    *)
(***************************************************************************)
EXTENDS Packets

CONSTANTS
    Inputs,      \* the datagrams the network may hand to the server
    HeapFaults   \* what writing past the end of a heap block may lead to

VARIABLES
    spc,         \* "listen", "exited" (the exit after EOT) or "aborted"
    prev,        \* previous_ack_sent
    maxW,        \* max_window
    maxP,        \* max_packets
    rec,         \* received_packets: the window being received
    trn,         \* transmit_packets: its acknowledgements
    allp,        \* all_packets[0 .. write_count - 1]
    file,        \* the content of data/received.txt, chunk by chunk
    garbage,     \* last and re of the local variable ack, never initialised
    e2s, s2e     \* the receive queues: the server's, the emulator's sd2

serverVars == <<spc, prev, maxW, maxP, rec, trn, allp, file, garbage>>
vars == <<serverVars, e2s, s2e>>

(***************************************************************************)
(* The datagrams of one client: every SYN announces the same file, a data  *)
(* packet and EOT name a slot of the window (their WindowSize field).      *)
(* Sequence numbers start above 0 and payloads are written.                *)
(***************************************************************************)
ClientPacket ==
    {p \in Packet : /\ p.type \in {SYN, DATA, EOT}
                    /\ p.seq > 0
                    /\ p.data # Junk
                    /\ p.type = SYN => p.ws = TotalPacketCount
                    /\ p.type # SYN => p.ws \in 1..Window
                    /\ p.type = EOT => p.last = 1}

ASSUME InputsAssumption == Inputs \subseteq ClientPacket
ASSUME HeapAssumption ==
    /\ HeapFaults \subseteq {"harmless", "garbled", "truncated", "aborted"}
    /\ "harmless" \in HeapFaults

(* What the server keeps of a data packet, and of an acknowledgement.      *)
Slot == [seq : Nat, ws : Nat, data : Payload]
ZeroSlot == [seq |-> 0, ws |-> 0, data |-> Blank]
ZeroAck == [type |-> 0, seq |-> 0, ack |-> 0, ws |-> 0,
            data |-> Blank, last |-> 0, re |-> 0]

Init ==
    /\ spc = "listen"
    /\ prev = ZeroAck
    /\ maxW = 0 /\ maxP = 0
    /\ rec = <<>> /\ trn = <<>>
    /\ allp = <<>>
    /\ file = <<>>
    /\ garbage \in [last : Flags, re : Flags]
    /\ e2s = <<>> /\ s2e = <<>>

(***************************************************************************)
(* Acknowledgements.                                                       *)
(***************************************************************************)
(* FAULTY: every entry is sent, present or not.                            *)
BurstOfAll(t) == [i \in 1..maxW |-> t[i]]

(* The acknowledgements that are present, in the order of their slots.     *)
Nth(slots, k) ==
    CHOOSE i \in slots : Cardinality({j \in slots : j <= i}) = k

Present(t) == {i \in 1..maxW : t[i].ws = i}

Burst(t) == [k \in 1..Cardinality(Present(t)) |-> t[Nth(Present(t), k)]]

(* FAULTY: the slot before the last one is marked.                         *)
MarkLastButOne(t) ==
    [i \in 1..maxW |-> IF i = maxW - 1 /\ t[i].ws = i
                       THEN [t[i] EXCEPT !.last = 1] ELSE t[i]]

(* The last slot of the window says that the burst ends with it.           *)
MarkLast(t) ==
    [i \in 1..maxW |-> IF i = maxW /\ t[i].ws = i
                       THEN [t[i] EXCEPT !.last = 1] ELSE t[i]]

AnswersNow(p) ==
    \/ p.type = DATA /\ p.ws = maxW
    \/ p.last = 1 /\ p.ws % maxW = 0
    \/ p.type = EOT

(* FAULTY: the number of the SYN is sent back.                             *)
SynAckEchoing(p, w) ==
    [type |-> SYNACK, seq |-> p.seq, ack |-> p.seq + w, ws |-> w,
     data |-> Blank, last |-> garbage.last, re |-> garbage.re]

SynAckFor(p, w) ==
    [type |-> SYNACK, seq |-> p.ack, ack |-> p.seq + w, ws |-> w,
     data |-> Blank, last |-> garbage.last, re |-> garbage.re]

AckFor(p) ==
    [type |-> ACK, seq |-> p.ack, ack |-> p.seq + maxW * maxW, ws |-> p.ws,
     data |-> Blank, last |-> garbage.last, re |-> garbage.re]

(***************************************************************************)
(* SYN: the tables are allocated afresh, except when the sequence number   *)
(* of the SYN happens to be that of the last acknowledgement: then nothing *)
(* is sent and the local ack is marked as a retransmission.  write_count   *)
(* is not reset.  What malloc leaves in the tables of the window names no  *)
(* slot and no packet, which the zeroes stand for; its text may be read.   *)
(***************************************************************************)
ReceiveSyn(p) ==
    /\ p.type = SYN
    /\ maxW' = setMaxWindowSize(p.ws, WIN)
    /\ maxP' = setMaxPacketCount(p.ws, WIN)
    /\ IF p.seq # prev.seq
       THEN /\ prev' = SynAckFor(p, maxW')
            /\ s2e' = Put(s2e, <<prev'>>)
            /\ \E left \in {Blank, Junk} :
                  rec' = [i \in 1..maxW' |-> [ZeroSlot EXCEPT !.data = left]]
            /\ trn' = [i \in 1..maxW' |-> ZeroAck]
            /\ allp' = [k \in 1..Len(allp) |-> ZeroSlot]
            /\ UNCHANGED garbage
       ELSE /\ garbage' = [garbage EXCEPT !.re = 1]
            /\ prev' = [prev EXCEPT !.re = 1]
            /\ trn' = IF AnswersNow(p) THEN MarkLast(trn) ELSE trn
            /\ s2e' = IF AnswersNow(p) THEN Put(s2e, Burst(trn')) ELSE s2e
            /\ UNCHANGED <<rec, allp>>
    /\ UNCHANGED <<spc, file>>

(***************************************************************************)
(* The received file.                                                      *)
(***************************************************************************)
(* FAULTY: the search starts at the second entry.                          *)
WrittenButFirst == {allp[k].seq : k \in {j \in 2..Len(allp) : j <= maxP}}

(* What is already in the first max_packets entries of all_packets.        *)
Written == {allp[k].seq : k \in {j \in 1..Len(allp) : j <= maxP}}

(* A slot that was written before contributes no text.  Of two slots with  *)
(* the same number the search finds the first.                             *)
WrittenBefore(r, i) ==
    r[i].seq \in Written /\ \A j \in 1..i - 1 : r[j].seq # r[i].seq

Fresh(r) ==
    [i \in 1..maxW |-> IF WrittenBefore(r, i)
                       THEN [r[i] EXCEPT !.data = Blank] ELSE r[i]]

(* FAULTY: of the first slot, too, the SeqNum remains.                     *)
EmptiedButNumber(r) ==
    [i \in 1..maxW |-> IF i = 1 THEN [ZeroSlot EXCEPT !.seq = r[i].seq]
                       ELSE [r[i] EXCEPT !.data = Blank]]

(* Every slot is forgotten after it is written: the first one wholly, of   *)
(* the others only the text, so that their WindowSize and SeqNum remain.   *)
Emptied(r) ==
    [i \in 1..maxW |-> IF i = 1 THEN ZeroSlot
                       ELSE [r[i] EXCEPT !.data = Blank]]

(* FAULTY: msg starts anew with every window.                              *)
TextOfWindow(slots) ==
    [k \in 1..maxW |-> slots[Len(slots) - maxW + k].data]

(* msg: the text of all the slots.                                         *)
Text(slots) == [k \in 1..Len(slots) |-> slots[k].data]

(***************************************************************************)
(* What writing slots can run into.  all_packets has max_packets + 1       *)
(* entries and msg max_packets * max_packets bytes (a chunk is taken for a *)
(* full one); past their ends lie msg itself and the bookkeeping of the    *)
(* allocator.  The process may go on unharmed, write what has become of    *)
(* msg, or be killed by the allocator before or after the file is          *)
(* truncated.                                                              *)
(***************************************************************************)
TableOverrun(slots) == Len(slots) > maxP + 1

MsgOverflow(slots) ==
    LET filled == {k \in 1..Len(slots) : slots[k].data # Blank}
    IN  PAYLOAD_LEN * Cardinality(filled) >= maxP * maxP

Faults(slots) ==
    IF TableOverrun(slots) THEN HeapFaults
    ELSE IF MsgOverflow(slots) THEN HeapFaults \ {"garbled"}
    ELSE {"harmless"}

(* How many slots the loop comes to: it ends before a text that is longer  *)
(* than a chunk and its flag last, which only old memory can be.           *)
Reached(r) ==
    {maxW} \cup {i - 1 : i \in {j \in 1..maxW : Fresh(r)[j].data = Junk}}

(* The window after its first n slots have been written.                   *)
Remaining(r, n) ==
    [i \in 1..maxW |-> IF i <= n THEN Emptied(r)[i] ELSE Fresh(r)[i]]

(* Append the window r to msg and all_packets, rewrite the file and empty  *)
(* the window; t are the acknowledgements, next the state if all goes well.*)
Write(r, t, next) ==
    \E n \in Reached(r) :
        LET slots == allp \o SubSeq(Fresh(r), 1, n)
        IN  /\ allp' = slots
            /\ rec' = Remaining(r, n)
            /\ trn' = IF n = 0 THEN t ELSE [t EXCEPT ![1] = ZeroAck]
            /\ \E fault \in Faults(slots) :
                  /\ file' = CASE fault = "harmless"  -> Text(slots)
                               [] fault = "garbled"   -> <<Junk>>
                               [] fault = "truncated" -> <<>>
                               [] fault = "aborted"   -> file
                  /\ spc' = IF fault \in {"truncated", "aborted"}
                            THEN "aborted" ELSE next

(***************************************************************************)
(* DATA, in the order the sender chose or out of it: both branches of the  *)
(* code do the same.  A packet with the sequence number of a slot of the   *)
(* window is a duplicate and changes no slot.  The last slot of the window *)
(* asks whether the window is complete, which is read off the WindowSize   *)
(* fields.                                                                 *)
(***************************************************************************)
IsDuplicate(p) == \E i \in 1..maxW : rec[i].seq = p.seq

Received(p) ==
    IF IsDuplicate(p) THEN rec
    ELSE [rec EXCEPT ![p.ws] = [seq |-> p.seq, ws |-> p.ws, data |-> p.data]]

Acknowledged(p) ==
    IF IsDuplicate(p) THEN trn ELSE [trn EXCEPT ![p.ws] = AckFor(p)]

(* FAULTY: any packet may complete the window, not only its last one.      *)
WholeReceived(p) == \A i \in 1..maxW : Received(p)[i].ws = i

AllDataReceived(p) ==
    p.ws % maxW = 0 /\ \A i \in 1..maxW : Received(p)[i].ws = i

ReceiveData(p) ==
    LET t == IF AnswersNow(p) THEN MarkLast(Acknowledged(p)) ELSE Acknowledged(p)
    IN  /\ p.type = DATA
        /\ maxW > 0
        /\ prev' = AckFor(p)
        /\ s2e' = IF AnswersNow(p) THEN Put(s2e, Burst(t)) ELSE s2e
        /\ IF AllDataReceived(p)
           THEN Write(Received(p), t, "listen")
           ELSE rec' = Received(p) /\ trn' = t /\ UNCHANGED <<spc, allp, file>>
        /\ UNCHANGED <<maxW, maxP, garbage>>

(* EOT: the acknowledgements are sent once more, whatever the window holds *)
(* is written, and the process exits.                                      *)
ReceiveEot(p) ==
    /\ p.type = EOT
    /\ maxW > 0
    /\ s2e' = Put(s2e, Burst(MarkLast(trn)))
    /\ Write(rec, MarkLast(trn), "exited")
    /\ UNCHANGED <<prev, maxW, maxP, garbage>>

(* Before any SYN the window size is 0, by which DATA and EOT divide.      *)
ReceiveTooEarly(p) ==
    /\ p.type \in {DATA, EOT}
    /\ maxW = 0
    /\ spc' = "aborted"
    /\ UNCHANGED <<prev, maxW, maxP, rec, trn, allp, file, garbage, s2e>>

(***************************************************************************)
(* The loop.                                                               *)
(***************************************************************************)
Receive ==
    /\ spc = "listen"
    /\ e2s # <<>>
    /\ e2s' = Tail(e2s)
    /\ LET p == Head(e2s)
       IN  \/ ReceiveSyn(p)
           \/ ReceiveData(p)
           \/ ReceiveEot(p)
           \/ ReceiveTooEarly(p)

(* recvfrom times out: the SYNACK is sent again as long as no data packet  *)
(* has been acknowledged, the acknowledgements of the window afterwards.   *)
(* Before the first SYN there is nothing to repeat.                        *)
Timeout ==
    /\ spc = "listen"
    /\ e2s = <<>>
    /\ prev.seq # 0
    /\ IF prev.type = SYNACK
       THEN /\ prev' = [prev EXCEPT !.re = 1]
            /\ s2e' = Put(s2e, <<prev'>>)
            /\ UNCHANGED trn
       ELSE /\ trn' = [i \in 1..maxW |-> IF trn[i].ws = i
                                        THEN [trn[i] EXCEPT !.re = 1]
                                        ELSE trn[i]]
            /\ s2e' = Put(s2e, Burst(trn'))
            /\ UNCHANGED prev
    /\ UNCHANGED <<spc, maxW, maxP, rec, allp, file, garbage, e2s>>

Step == Receive \/ Timeout

(***************************************************************************)
(* The network around the server: any datagram of the client may arrive,   *)
(* at any time, any number of times or never; the emulator takes what the  *)
(* server sends.                                                           *)
(***************************************************************************)
Arrive ==
    /\ UNCHANGED <<serverVars, s2e>>
    /\ \E p \in Inputs : e2s' = Put(e2s, <<p>>)

Collect ==
    /\ s2e # <<>>
    /\ s2e' = Tail(s2e)
    /\ UNCHANGED <<serverVars, e2s>>

Next == Step \/ Collect \/ Arrive

Spec == Init /\ [][Next]_vars

-----------------------------------------------------------------------------
(***************************************************************************)
(* What the server promises, whatever the network does.                    *)
(***************************************************************************)
AckRecord == [type : {0, SYNACK, ACK}, seq : Nat, ack : Nat, ws : Nat,
              data : Payload, last : {0, 1}, re : {0, 1}]

StateTypeOK ==
    /\ spc \in {"listen", "exited", "aborted"}
    /\ prev \in AckRecord
    /\ maxW \in {0, Window} /\ maxP \in {0, MaxPackets}
    /\ rec \in [1..maxW -> Slot]
    /\ trn \in [1..maxW -> AckRecord]
    /\ allp \in Seq(Slot)
    /\ file \in Seq(Payload)
    /\ garbage \in [last : {0, 1}, re : {0, 1}]
    /\ e2s \in Seq(ClientPacket)

(* The variables hold what the code declares them to hold, and the two     *)
(* receive queues hold datagrams of the right direction.                   *)
TypeOK ==
    /\ StateTypeOK
    /\ Len(e2s) <= SockBuf /\ Len(s2e) <= SockBuf
    /\ \A k \in 1..Len(s2e) : s2e[k] \in Packet /\ s2e[k].type \in {SYNACK, ACK}

(* Every answer the server sends can be relied on: a SYNACK has the size of*)
(* the window, an acknowledgement names a slot of it, and that of the last *)
(* slot is marked as last, whether it is sent for the first time, again    *)
(* after a timeout or before the exit - emulator and client wait for the   *)
(* mark (server.c 76-92, 101-120, 236-244).                                *)
Answer ==
    {p \in Packet : /\ p.type \in {SYNACK, ACK}
                    /\ p.ws \in 1..Window
                    /\ p.ack > 0
                    /\ p.type = SYNACK => p.ws = Window
                    /\ p.type = ACK /\ p.ws = Window => p.last = 1}

AnswersOK == \A k \in 1..Len(s2e) : s2e[k] \in Answer

(* As long as the table all_packets can record every packet (max_packets   *)
(* entries), the text of a packet is appended to the file at most once,    *)
(* however often and in whatever order the packet arrives: the search for  *)
(* duplicates (server.c 258-269) does its work.                            *)
NoChunkTwice ==
    Len(allp) <= maxP =>
        \A j, k \in 1..Len(allp) :
            /\ allp[j].data # Blank /\ allp[k].data # Blank
            /\ allp[j].seq = allp[k].seq /\ allp[j].seq # 0
            => j = k

(* The two tables of the window agree: a slot is filled in one exactly if  *)
(* it is in the other, by the packet whose number its acknowledgement      *)
(* carries (server.c 159-164).  So a burst never acknowledges a packet     *)
(* that the window no longer holds.                                        *)
TablesAgree ==
    \A i \in 1..maxW :
        /\ rec[i].ws = trn[i].ws
        /\ rec[i].ws # 0 => trn[i].ack = rec[i].seq + maxW * maxW

(* Until EOT a slot is written only when a packet has filled it: memory    *)
(* that malloc returned uninitialised (server.c 108) reaches the file only *)
(* through EOT or through an overrun.                                      *)
NoJunkBeforeEot ==
    spc = "listen" /\ "garbled" \notin HeapFaults =>
        \A k \in 1..Len(file) : file[k] # Junk

(* The window never holds one sequence number in two slots, so a duplicate *)
(* in the window is recognised whatever slot it names (server.c 147-153).  *)
WindowDistinct ==
    \A i, j \in 1..maxW : rec[i].seq = rec[j].seq /\ rec[i].seq # 0 => i = j

-----------------------------------------------------------------------------
(***************************************************************************)
(* The inductive invariant behind these promises.                          *)
(***************************************************************************)
(* Nothing before the first SYN, the sizes of the file ever after.         *)
Sized ==
    \/ maxW = 0 /\ maxP = 0 /\ prev.seq = 0 /\ allp = <<>>
    \/ maxW = Window /\ maxP = MaxPackets

(* A slot is empty, with the number 0, or filled by a packet that names it;*)
(* only an empty one has text nobody sent.                                 *)
SlotsFilled ==
    \A i \in 1..maxW :
        /\ rec[i].ws \in {0, i}
        /\ rec[i].ws = 0 <=> rec[i].seq = 0
        /\ rec[i].data = Junk => rec[i].ws = 0

NoJunkWritten ==
    spc = "listen" => \A k \in 1..Len(allp) : allp[k].data # Junk

(* What may be sent again.                                                 *)
AnswersReady ==
    /\ prev.type = SYNACK => prev \in Answer
    /\ \A i \in 1..maxW : trn[i].ws = i => trn[i] \in Answer

(* All of it: the tables of the window agree and name packets, the rows    *)
(* written hold no text twice and none that was not sent, and everything   *)
(* has the size of the file (server.c 95-122, 138-217, 256-301).           *)
Inv ==
    /\ StateTypeOK
    /\ Sized
    /\ SlotsFilled
    /\ TablesAgree
    /\ WindowDistinct
    /\ NoChunkTwice
    /\ NoJunkWritten
    /\ NoJunkBeforeEot

=============================================================================
