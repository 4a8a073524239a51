------------------------------ MODULE AckOrder ------------------------------
(***************************************************************************)
(* Why the client never counts past its window: the inductive invariant    *)
(* behind RacInBounds.                                                     *)
(*                                                                         *)
(* The packets of a transfer are the chunks and one more, which repeats    *)
(* the number of the last chunk (client.c 158-204).  An acknowledgement    *)
(* names the number and the slot of a packet that has been built; the one  *)
(* of the last slot is marked as last and ends the loop.  The count could  *)
(* only pass the last slot by an acknowledgement of another slot under the *)
(* same number, that of the last chunk when the packet after it fills the  *)
(* window.                                                                 *)
(***************************************************************************)
EXTENDS SystemHistory

(* The number that packet n goes by, in the AckNum of the packet and the   *)
(* SeqNum of its acknowledgement.                                          *)
NumberOf(n) == Window * setMaxWindowSize(n, TotalPacketCount)

InSlot(n, s) == s \in 1..Window /\ \E m \in 0..n : n = m * Window + s

(* One of the first k packets has this number and slot.                    *)
Names(k, number, s) ==
    \E n \in 1..k : /\ n <= TotalPacketCount + 1
                    /\ number = NumberOf(n) /\ InSlot(n, s)

PlacedPackets(k) == {p \in ClientPacket : p.type = DATA => Names(k, p.ack, p.ws)}
PlacedAnswers(k) == {a \in Answer : a.type = ACK => Names(k, a.seq, a.ws)}

(* Packets and acknowledgements, wherever they are, go by the number and   *)
(* the slot of a packet that the client has built.                         *)
NamesBuilt ==
    /\ c2e \in Seq(PlacedPackets(tpc)) /\ e2s \in Seq(PlacedPackets(tpc))
    /\ s2e \in Seq(PlacedAnswers(tpc)) /\ e2c \in Seq(PlacedAnswers(tpc))
    /\ \A i \in 1..synAck.ws : tp[i] \in Built => tp[i] \in PlacedPackets(tpc)
    /\ \A i \in 1..maxW : trn[i].ws = i => trn[i] \in PlacedAnswers(tpc)

(* The window is filled slot by slot with packet after packet, up to its   *)
(* end or up to EOT.                                                       *)
WindowFilled ==
    /\ tpc \in 1..TotalPacketCount + 1 => copy.ack = NumberOf(tpc)
    /\ pc = "build" =>
          /\ InSlot(tpc + 1, slot)
          /\ \A i \in 1..slot - 1 : tp[i].ack = NumberOf(tpc + 1 - slot + i)
    /\ pc \in {"send", "resend", "receive", "repair"} =>
          IF tpc <= TotalPacketCount + 1
          THEN /\ InSlot(tpc, Window)
               /\ \A i \in 1..Window : tp[i].ack = NumberOf(tpc - Window + i)
          ELSE \E i \in 1..Window : tp[i].type = EOT

(* So an acknowledgement is never taken for that of a packet the client has*)
(* yet to build, nor for one under another number (client.c 158-204, 255). *)
PlacesInv == NamesBuilt /\ WindowFilled

-----------------------------------------------------------------------------
(***************************************************************************)
(* The number that two packets share.                                      *)
(***************************************************************************)
(* The packet after the last chunk fills a window.                         *)
ExtraIsLast == Window > 1 /\ InSlot(TotalPacketCount + 1, Window)

(* The answers on their way to the client.                                 *)
Stream == e2c \o s2e

Shared(a) == a.type = ACK /\ a.last = 0 /\ a.seq = NumberOf(TotalPacketCount)

(* After the first k answers one marked as last comes before the next one  *)
(* that could be taken for another packet.                                 *)
EndsAfter(q, k) ==
    \E j \in k + 1..Len(q) : /\ q[j].last = 1
                            /\ \A i \in k + 1..j - 1 : ~Shared(q[i])

Closed(q) == \A k \in 1..Len(q) : Shared(q[k]) => EndsAfter(q, k)

(* If the flag last of the server's local variable ack was 1 at the start, *)
(* every acknowledgement ends the loop.                                    *)
AllLast ==
    /\ \A k \in 1..Len(Stream) : Stream[k].type = ACK => Stream[k].last = 1
    /\ \A i \in 1..maxW : trn[i].ws = i => trn[i].last = 1
    /\ pc = "receive" => rac = 0

(* Otherwise only that of the last slot does, which stays in the table once*)
(* a window has been acknowledged.                                         *)
LastSlotTaken == maxW = Window /\ trn[Window].ws = Window

LastMeansTaken ==
    /\ \A k \in 1..Len(Stream) : Stream[k].last = 1 => LastSlotTaken
    /\ \A i \in 1..maxW : trn[i].ws = i /\ trn[i].last = 1 => i = maxW
    /\ prev.type = SYNACK => prev.last = 0
    /\ pc \in {"build", "repair"} /\ tpc >= Window => LastSlotTaken
    /\ tpc > Window => LastSlotTaken

Ordered ==
    /\ Noise = 100 => e2c = <<>> /\ rac = 0
    /\ \A i \in 1..maxW : trn[i].ws = i => trn[i].type = ACK
    /\ IF garbage.last = 1 THEN AllLast ELSE LastMeansTaken
    /\ Closed(Stream)
    /\ pc = "receive" /\ rac = Window - 1 /\ tpc = TotalPacketCount + 1 =>
           EndsAfter(Stream, 0)

OrderInv == ExtraIsLast => Ordered

(* The slots counted so far are of packets that can be acknowledged.       *)
CountedInWindow ==
    pc = "receive" => rac < Window /\ \A i \in 1..rac : tp[i].type = DATA

(* The acknowledgement that would fill the count of a window is marked as  *)
(* last, or preceded by one that is (client.c 244-270).                    *)
CountInv == CountedInWindow /\ OrderInv

(* While the receive buffers have room for the answers to a whole window.  *)
Roomy == Len(e2c) < SockBuf /\ Len(s2e) + Window <= SockBuf

=============================================================================
