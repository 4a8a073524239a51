--------------------------- MODULE HistoryProofs ---------------------------
(***************************************************************************)
(* What the acknowledgements mean, and where losses fall: for every file,  *)
(* window, noise, buffer size and combination of versions.                 *)
(***************************************************************************)
EXTENDS SystemHistory, SystemProofs

(* Marking a packet or an answer leaves its numbers as they are.           *)
LEMMA StaysNumbered ==
    ASSUME NEW p \in Numbered, NEW q \in ClientPacket,
           q.type = p.type, q.seq = p.seq, q.ack = p.ack
    PROVE  q \in Numbered
BY DEF Numbered

LEMMA StaysTruthful ==
    ASSUME NEW a \in Truthful, NEW b \in Answer,
           b.type = a.type, b.seq = a.seq, b.ack = a.ack
    PROVE  b \in Truthful
BY DEF Truthful

(* The history only grows.                                                 *)
LEMMA TakenGrows ==
    ASSUME Note
    PROVE  taken \subseteq taken' /\ Truthful \subseteq Truthful'
<1>1. taken \subseteq taken'
  BY DEF Note
<1> QED
  BY <1>1 DEF Truthful

LEMMA SeqOfMore ==
    ASSUME NEW T, NEW S, T \subseteq S, NEW q \in Seq(T)
    PROVE  q \in Seq(S)
OBVIOUS

-----------------------------------------------------------------------------
(***************************************************************************)
(* The client numbers what it sends.                                       *)
(***************************************************************************)
ClientNumbers ==
    /\ copy \in Built => copy \in Numbered
    /\ \A i \in 1..synAck.ws : tp[i] \in Built => tp[i] \in Numbered
    /\ ~InHandshake => synAck = [ws |-> Window, ack |-> 100 + Window]

SpeaksNumbered ==
    /\ ClientNumbers'
    /\ c2e' = c2e \/ \E p \in Numbered : c2e' = Put(c2e, <<p>>)

LEMMA SynNumbered ==
    ASSUME ClientOK, ClientNumbers, C!SendSyn \/ C!SynTimeout
    PROVE  SpeaksNumbered
<1>1. /\ InHandshake' /\ UNCHANGED <<synAck, copy, tp>>
      /\ \E re \in {0, 1} : c2e' = Put(c2e, <<C!Syn(re)>>)
  BY ClientTypes, SamePut DEF C!SendSyn, C!SynTimeout, C!clientVars, InHandshake
<1>2. ASSUME NEW re \in {0, 1} PROVE C!Syn(re) \in Numbered
  <2>1. C!Syn(re) \in SynPacket
    BY SynSent
  <2>2. C!Syn(re).seq = 100 /\ C!Syn(re).ack = 200
    BY DEF C!Syn
  <2> QED
    BY <2>1, <2>2 DEF SynPacket, Numbered, SYN, DATA, EOT
<1>3. ClientNumbers'
  BY <1>1 DEF ClientNumbers
<1> QED
  BY <1>1, <1>2, <1>3 DEF SpeaksNumbered

LEMMA TakeSynAckNumbered ==
    ASSUME ClientOK, ClientNumbers, OnlySynAcks, e2c \in Seq(Truthful),
           C!TakeSynAck
    PROVE  SpeaksNumbered
<1> DEFINE a == Head(e2c)
<1>1. a \in Truthful /\ a.type = SYNACK
  <2>1. InHandshake /\ e2c # <<>>
    BY DEF C!TakeSynAck, InHandshake
  <2>2. e2c \in Seq(SynAcks)
    BY <2>1 DEF OnlySynAcks
  <2> QED
    BY <2>1, <2>2, HeadTailProperties DEF SynAcks
<1>2. a.ws = Window /\ a.ack = 100 + Window
  BY <1>1 DEF Truthful, Answer
<1>3. /\ synAck' = [ws |-> a.ws, ack |-> a.ack]
      /\ tp' = [i \in 1..a.ws |-> C!NoPacket]
      /\ UNCHANGED <<copy, c2e>>
  BY DEF C!TakeSynAck
<1>4. C!NoPacket \notin Built
  BY DEF C!NoPacket, Built, ClientPacket
<1> HIDE DEF a
<1> QED
  BY <1>2, <1>3, <1>4 DEF ClientNumbers, SpeaksNumbered

LEMMA UnstampedNumbered ==
    ASSUME ClientOK, ClientNumbers, pc = "build", NEW u, u = C!Unstamped
    PROVE  /\ u.type = DATA => u.ack > 0 /\ u.seq = u.ack + 100
           /\ u.type = EOT => u.ack = 0
<1>1. /\ tpc \in Nat /\ tpc <= TotalPacketCount + 1
      /\ synAck.ws = Window /\ synAck.ack = 100 + Window /\ Window \in Nat \ {0}
      /\ TotalPacketCount \in Nat \ {0} /\ C!TotalPacketCount = TotalPacketCount
  BY ClientTypes, WindowBounds, SameSizes
     DEF ClientOK, WindowBuilt, InHandshake, ClientNumbers
<1>2. CASE tpc = 0
  <2>1. copy = C!NoPacket
    BY <1>2 DEF ClientOK, WindowBuilt
  <2>2. u = [C!NoPacket EXCEPT !.seq = synAck.ack, !.ack = synAck.ws, !.data = File[1]]
    BY <1>1, <1>2, <2>1 DEF C!Unstamped, C!NoPacket, C!W
  <2>3. u.type = DATA /\ u.seq = 100 + Window /\ u.ack = Window
    BY <1>1, <2>2 DEF C!NoPacket, C!DATA, DATA
  <2> QED
    BY <1>1, <2>3 DEF DATA, EOT
<1>3. CASE tpc # 0
  <2>1. copy \in Numbered /\ copy.type = DATA
    BY <1>1, <1>3 DEF ClientOK, WindowBuilt, ClientNumbers
  <2>2. /\ copy \in Packet /\ copy.seq \in Nat /\ copy.ack \in Nat
        /\ copy.ack > 0 /\ copy.seq = copy.ack + 100
    BY <2>1 DEF Numbered, ClientPacket, Packet
  <2>3. u \in { [copy EXCEPT !.seq = copy.seq + Window, !.ack = copy.ack + Window,
                             !.data = File[tpc + 1]],
                [copy EXCEPT !.type = EOT, !.seq = copy.seq + Window, !.ack = 0,
                             !.data = Blank, !.last = 1],
                copy }
    BY <1>1, <2>2 DEF C!Unstamped, C!W, C!EOT, EOT
  <2>4. CASE u = [copy EXCEPT !.seq = copy.seq + Window, !.ack = copy.ack + Window,
                              !.data = File[tpc + 1]]
    <3>1. u.seq = copy.seq + Window /\ u.ack = copy.ack + Window /\ u.type = DATA
      BY <2>1, <2>2, <2>4 DEF Packet
    <3> QED
      BY <1>1, <2>2, <3>1 DEF DATA, EOT
  <2>5. CASE u = [copy EXCEPT !.type = EOT, !.seq = copy.seq + Window, !.ack = 0,
                              !.data = Blank, !.last = 1]
    <3>1. u.ack = 0 /\ u.type = EOT
      BY <2>2, <2>5 DEF Packet
    <3> QED
      BY <3>1 DEF DATA, EOT
  <2>6. CASE u = copy
    BY <2>1, <2>2, <2>6 DEF DATA, EOT
  <2> QED
    BY <2>3, <2>4, <2>5, <2>6
<1> QED
  BY <1>2, <1>3

LEMMA BuildNumbered ==
    ASSUME ClientOK, ClientNumbers,
           NEW p \in {C!NextPacket, C!NextPacketInSlot}, C!BuildWith(p)
    PROVE  SpeaksNumbered
<1> DEFINE u == C!Unstamped
<1>1. /\ pc = "build" /\ copy' = p /\ tp' = [tp EXCEPT ![slot] = p]
      /\ UNCHANGED <<synAck, c2e>> /\ ~InHandshake
  BY DEF C!BuildWith, InHandshake
<1>2. /\ u.type = DATA => u.ack > 0 /\ u.seq = u.ack + 100
      /\ u.type = EOT => u.ack = 0
      /\ u \in Packet
  BY <1>1, UnstampedNumbered, UnstampedFacts
<1>3. p \in Built
  BY <1>1, NextBuilt
<1>4. p.type = u.type /\ p.seq = u.seq /\ p.ack = u.ack
  <2>1. PICK w \in {C!W, slot}, d \in {u.data, Blank} :
           p = [u EXCEPT !.ws = w, !.data = d, !.re = cgarbage.dataRe]
    BY DEF C!NextPacket, C!NextPacketInSlot
  <2> HIDE DEF u
  <2> QED
    BY <1>2, <2>1 DEF Packet
<1> HIDE DEF u
<1>5. p \in Numbered
  BY <1>2, <1>3, <1>4 DEF Built, Numbered
<1>6. tp \in [1..synAck.ws -> Packet]
  BY ClientTypes
<1>7. \A i \in 1..synAck.ws : tp'[i] \in {p, tp[i]}
  BY <1>1, <1>6
<1> QED
  BY <1>1, <1>5, <1>7 DEF ClientNumbers, SpeaksNumbered

(* Sending marks a packet of the window and leaves it there.               *)
SameNumbers(p, q) ==
    p.type = q.type /\ p.seq = q.seq /\ p.ack = q.ack /\ p.ws = q.ws

LEMMA SendMarks ==
    ASSUME ClientOK, ClientOK',
           C!Send \/ C!EarlierSend \/ C!Resend \/ C!EarlierResend,
           NEW q, q = tp[slot]
    PROVE  /\ pc \in {"send", "resend"} /\ UNCHANGED <<synAck, tpc, copy>>
           /\ pc' \in {"send", "resend", "receive"} /\ (pc' = "receive" => rac' = 0)
           /\ q \in Built /\ slot \in 1..synAck.ws
           /\ \E p \in Built : /\ SameNumbers(p, q)
                             /\ tp' = [tp EXCEPT ![slot] = p]
                             /\ c2e' = Put(c2e, <<p>>)
<1>0. /\ pc \in {"send", "resend"} /\ UNCHANGED <<synAck, tpc, copy>>
      /\ pc' \in {"send", "resend", "receive"} /\ (pc' = "receive" => rac' = 0)
  BY DEF C!Send, C!EarlierSend, C!Resend, C!EarlierResend, C!ThenReceive
<1>1. /\ tp \in [1..synAck.ws -> Packet] /\ slot \in 1..synAck.ws
      /\ q \in Packet /\ q \in Built
  BY <1>0, ClientTypes DEF ClientOK, WindowBuilt
<1>2. ASSUME NEW p, C!Sending(p)
      PROVE  p \in Built /\ tp' = [tp EXCEPT ![slot] = p] /\ c2e' = Put(c2e, <<p>>)
  <2>1. /\ tp' = [tp EXCEPT ![slot] = p] /\ c2e' = Put(c2e, <<p>>)
    BY <1>2, SamePut DEF C!Sending
  <2>2. tp'[slot] = p
    BY <1>1, <2>1
  <2>3. slot \in 1..synAck'.ws /\ \A i \in 1..synAck'.ws : tp'[i] \in Built
    BY <1>0, <1>1 DEF ClientOK, WindowBuilt
  <2> QED
    BY <2>1, <2>2, <2>3
<1>3. ASSUME NEW last, NEW re
      PROVE  /\ [q EXCEPT !.last = last].type = q.type
             /\ [q EXCEPT !.last = last].seq = q.seq
             /\ [q EXCEPT !.last = last].ack = q.ack
             /\ [q EXCEPT !.last = last].ws = q.ws
             /\ [q EXCEPT !.last = last, !.re = re].type = q.type
             /\ [q EXCEPT !.last = last, !.re = re].seq = q.seq
             /\ [q EXCEPT !.last = last, !.re = re].ack = q.ack
             /\ [q EXCEPT !.last = last, !.re = re].ws = q.ws
             /\ [q EXCEPT !.re = re, !.last = last].type = q.type
             /\ [q EXCEPT !.re = re, !.last = last].seq = q.seq
             /\ [q EXCEPT !.re = re, !.last = last].ack = q.ack
             /\ [q EXCEPT !.re = re, !.last = last].ws = q.ws
  BY <1>1 DEF Packet
<1>4. CASE C!Send
  <2> DEFINE final == slot = C!W \/ q.type = C!EOT
             p == IF final THEN [q EXCEPT !.last = 1] ELSE [q EXCEPT !.last = 0, !.re = 0]
  <2>1. C!Sending(p)
    BY <1>4 DEF C!Send
  <2>2. SameNumbers(p, q)
    BY <1>3 DEF SameNumbers
  <2> HIDE DEF p
  <2> QED
    BY <1>0, <1>1, <1>2, <2>1, <2>2
<1>5. CASE C!EarlierSend
  <2> DEFINE p == [q EXCEPT !.last = IF slot = C!W \/ q.type = C!EOT THEN 1 ELSE 0]
  <2>1. C!Sending(p)
    BY <1>5 DEF C!EarlierSend
  <2>2. SameNumbers(p, q)
    BY <1>3 DEF SameNumbers
  <2> HIDE DEF p
  <2> QED
    BY <1>0, <1>1, <1>2, <2>1, <2>2
<1>6. CASE C!Resend
  <2> DEFINE p == [q EXCEPT !.re = 1, !.last = IF slot = C!W THEN 1 ELSE q.last]
  <2>1. C!Sending(p)
    BY <1>6 DEF C!Resend
  <2>2. SameNumbers(p, q)
    BY <1>3 DEF SameNumbers
  <2> HIDE DEF p
  <2> QED
    BY <1>0, <1>1, <1>2, <2>1, <2>2
<1>7. CASE C!EarlierResend
  <2> DEFINE p == [q EXCEPT !.last = IF slot = C!W THEN 1 ELSE q.last]
  <2>1. C!Sending(p)
    BY <1>7 DEF C!EarlierResend
  <2>2. SameNumbers(p, q)
    BY <1>3 DEF SameNumbers
  <2> HIDE DEF p
  <2> QED
    BY <1>0, <1>1, <1>2, <2>1, <2>2
<1> QED
  BY <1>4, <1>5, <1>6, <1>7

LEMMA SendNumbered ==
    ASSUME ClientOK, ClientNumbers, ClientOK',
           C!Send \/ C!EarlierSend \/ C!Resend \/ C!EarlierResend
    PROVE  SpeaksNumbered
<1>1. /\ tp[slot] \in Built /\ slot \in 1..synAck.ws /\ ~InHandshake
      /\ UNCHANGED <<synAck, copy>>
  BY SendMarks DEF InHandshake
<1>2. PICK p \in Built : /\ SameNumbers(p, tp[slot])
                        /\ tp' = [tp EXCEPT ![slot] = p]
                        /\ c2e' = Put(c2e, <<p>>)
  BY SendMarks
<1>3. p \in Numbered
  <2>1. tp[slot] \in Numbered
    BY <1>1 DEF ClientNumbers
  <2> QED
    BY <1>2, <2>1, StaysNumbered DEF SameNumbers, Built
<1>4. \A i \in 1..synAck.ws : tp'[i] \in {p, tp[i]}
  BY <1>1, <1>2, ClientTypes
<1>5. ClientNumbers'
  BY <1>1, <1>3, <1>4 DEF ClientNumbers
<1> QED
  BY <1>2, <1>3, <1>5 DEF SpeaksNumbered

LEMMA LoopNumbered ==
    ASSUME ClientNumbers, C!Receive \/ C!EarlierReceive \/ C!Timeout
    PROVE  SpeaksNumbered
<1>1. /\ pc = "receive"
      /\ UNCHANGED <<synAck, copy, tp, c2e>>
  BY DEF C!Receive, C!EarlierReceive, C!Timeout
<1>2. ~InHandshake
  BY <1>1 DEF InHandshake
<1> QED
  BY <1>1, <1>2 DEF ClientNumbers, SpeaksNumbered

LEMMA RepairNumbered ==
    ASSUME ClientOK, ClientNumbers, C!Repair
    PROVE  SpeaksNumbered
<1> DEFINE missing == {i \in 1..C!W : acked[i] # 1}
           i == CHOOSE k \in missing : \A j \in missing : k <= j
<1>1. /\ pc = "repair" /\ ~InHandshake
      /\ \A k \in 1..synAck.ws : tp[k] \in Built
      /\ UNCHANGED <<synAck, copy, tp>>
  BY DEF C!Repair, InHandshake, ClientOK, WindowBuilt
<1>2. ClientNumbers'
  BY <1>1 DEF ClientNumbers
<1>3. CASE missing # {}
  <2>1. c2e' = Put(c2e, <<[tp[i] EXCEPT !.re = 1]>>)
    BY <1>3, SamePut DEF C!Repair
  <2>2. missing \in SUBSET Nat
    BY KnownWindow, <1>1 DEF C!W
  <2>3. i \in missing
    BY <1>3, <2>2, LeastElement
  <2>4. i \in 1..synAck.ws
    BY <2>3 DEF C!W
  <2> HIDE DEF i
  <2>5. tp[i] \in Built /\ tp[i] \in Numbered
    BY <1>1, <2>4 DEF ClientNumbers
  <2>6. [tp[i] EXCEPT !.re = 1] \in Numbered
    BY <2>5 DEF Built, ClientPacket, Packet, Numbered
  <2> QED
    BY <1>2, <2>1, <2>6 DEF SpeaksNumbered
<1>4. CASE missing = {}
  <2>1. c2e' = c2e
    BY <1>4 DEF C!Repair
  <2> QED
    BY <1>2, <2>1 DEF SpeaksNumbered
<1> QED
  BY <1>3, <1>4

LEMMA ClientNumbered ==
    ASSUME SystemInv, ClientNumbers, OnlySynAcks, e2c \in Seq(Truthful),
           ClientStep \/ ClientTimeout
    PROVE  SpeaksNumbered
<1>1. ClientOK /\ ClientOK'
  BY SystemFacts, ClientSteps
<1>2. \/ C!SendSyn \/ C!SynTimeout
      \/ C!TakeSynAck
      \/ C!BuildWith(C!NextPacket) \/ C!BuildWith(C!NextPacketInSlot)
      \/ C!Send \/ C!EarlierSend \/ C!Resend \/ C!EarlierResend
      \/ C!Receive \/ C!EarlierReceive
      \/ C!Timeout \/ C!Repair
  BY DEF ClientStep, ClientTimeout, ClientDoes, AsStarted, C!Step, C!EarlierStep,
      C!Timeouts, C!EarlierTimeouts, C!ReceiveSynAck, C!EarlierReceiveSynAck,
      C!Build, C!EarlierBuild, C!EarlierTimeout
<1> QED
  BY <1>1, <1>2, SynNumbered, TakeSynAckNumbered, BuildNumbered, SendNumbered,
     LoopNumbered, RepairNumbered

-----------------------------------------------------------------------------
(***************************************************************************)
(* The server acknowledges what it has taken.                              *)
(***************************************************************************)
TruthfulTable(t) == \A i \in 1..maxW : t[i].ws = i => t[i] \in Truthful'

(* What a step has to leave behind.                                        *)
StaysTruthfulAtServer ==
    /\ s2e' \in Seq(Truthful')
    /\ prev'.type = SYNACK => prev' \in Truthful'
    /\ \A i \in 1..maxW' : trn'[i].ws = i => trn'[i] \in Truthful'

ServerTruthful ==
    /\ s2e \in Seq(Truthful)
    /\ prev.type = SYNACK => prev \in Truthful
    /\ \A i \in 1..maxW : trn[i].ws = i => trn[i] \in Truthful

LEMMA TruthfulNext ==
    ASSUME NEW a \in Truthful', NEW b \in Answer,
           b.type = a.type, b.seq = a.seq, b.ack = a.ack
    PROVE  b \in Truthful'
BY DEF Truthful

LEMMA TruthfulBurst ==
    ASSUME maxW \in Nat, s2e \in Seq(Truthful'), NEW t, TruthfulTable(t)
    PROVE  Put(s2e, Burst(t)) \in Seq(Truthful')
<1>1. \A i \in 1..maxW : t[i].ws = i => t[i] \in Truthful'
  BY DEF TruthfulTable
<1>2. Burst(t) \in Seq(Truthful')
  BY <1>1, BurstFacts
<1> QED
  BY <1>2, PutType

(* Marking the acknowledgements keeps them true.                           *)
LEMMA MarkedTruthful ==
    ASSUME maxW \in Nat, NEW t \in [1..maxW -> AckRecord], TruthfulTable(t)
    PROVE  TruthfulTable(MarkLast(t))
<1> SUFFICES ASSUME NEW i \in 1..maxW, MarkLast(t)[i].ws = i
             PROVE  MarkLast(t)[i] \in Truthful'
  BY DEF TruthfulTable
<1>1. \A j \in 1..maxW : t[j].ws = j => t[j] \in Answer
  BY DEF TruthfulTable, Truthful
<1>2. MarkLast(t)[i] \in Answer
  BY <1>1, MarkLastReady
<1>3. t[i] \in AckRecord /\ t[i].ws = i
  BY MarkLastFacts
<1>4. t[i] \in Truthful'
  BY <1>3 DEF TruthfulTable
<1>5. /\ MarkLast(t)[i].type = t[i].type /\ MarkLast(t)[i].seq = t[i].seq
      /\ MarkLast(t)[i].ack = t[i].ack
  BY <1>3 DEF MarkLast, AckRecord
<1> QED
  BY <1>2, <1>4, <1>5, TruthfulNext

LEMMA DataTruthful ==
    ASSUME SystemInv, ServerTruthful, Truthful \subseteq Truthful',
           NEW p \in Numbered, ReceiveData(p),
           [seq |-> p.seq, data |-> p.data] \in taken'
    PROVE  StaysTruthfulAtServer
<1> DEFINE t == IF AnswersNow(p) THEN MarkLast(Acknowledged(p)) ELSE Acknowledged(p)
<1>1. /\ AnswersInv /\ maxW \in Nat /\ maxW # 0 /\ p.type = DATA
      /\ maxW' = maxW /\ p \in ClientPacket /\ trn \in [1..maxW -> AckRecord]
      /\ s2e \in Seq(Truthful')
  BY SystemFacts, InvSizes, SeqOfMore
     DEF AnswersInv, Inv, StateTypeOK, ReceiveData, Numbered, ServerTruthful
<1>2. t \in [1..maxW -> AckRecord] /\ Ready(t)
  BY <1>1, AcknowledgedReady
<1>3. /\ prev'.type = ACK
      /\ s2e' = IF AnswersNow(p) THEN Put(s2e, Burst(t)) ELSE s2e
      /\ trn' = t \/ trn' = [t EXCEPT ![1] = ZeroAck]
  BY DEF ReceiveData, AckFor, Write
<1>4. /\ p.ack > 0 /\ p.seq = p.ack + 100
  BY <1>1 DEF Numbered
<1>5. ASSUME NEW a, a.type = ACK, a.seq = p.ack, a \in Answer
      PROVE  a \in Truthful'
  <2>1. [seq |-> p.seq, data |-> p.data].seq = a.seq + 100
    BY <1>4, <1>5
  <2> QED
    BY <1>4, <1>5, <2>1 DEF Truthful, ACK, SYNACK
<1>6. TruthfulTable(t)
  <2> SUFFICES ASSUME NEW i \in 1..maxW, t[i].ws = i PROVE t[i] \in Truthful'
    BY DEF TruthfulTable
  <2>1. t[i] \in Answer
    BY <1>2 DEF Ready
  <2>2. Acknowledged(p) \in [1..maxW -> AckRecord]
    <3>1. garbage \in [last : {0, 1}, re : {0, 1}]
      BY <1>1 DEF AnswersInv, Inv, StateTypeOK
    <3>2. AckFor(p) \in AckRecord
      BY <1>1, <3>1, AckForType
    <3> QED
      BY <1>1, <3>2 DEF Acknowledged
  <2>3. /\ Acknowledged(p)[i].ws = i
        /\ t[i].type = Acknowledged(p)[i].type /\ t[i].seq = Acknowledged(p)[i].seq
        /\ t[i].ack = Acknowledged(p)[i].ack
    <3>1. Acknowledged(p)[i] \in AckRecord
      BY <2>2
    <3>2. t[i] = Acknowledged(p)[i] \/ t[i] = [Acknowledged(p)[i] EXCEPT !.last = 1]
      BY DEF MarkLast
    <3> HIDE DEF t
    <3> QED
      BY <3>1, <3>2 DEF AckRecord
  <2> HIDE DEF t
  <2>4. CASE Acknowledged(p)[i] = trn[i]
    <3>1. trn[i] \in Truthful'
      BY <2>3, <2>4 DEF ServerTruthful
    <3> QED
      BY <2>1, <2>3, <2>4, <3>1, TruthfulNext
  <2>5. CASE Acknowledged(p)[i] # trn[i]
    <3>1. Acknowledged(p)[i] = AckFor(p)
      BY <1>1, <2>5 DEF Acknowledged
    <3>2. t[i].type = ACK /\ t[i].seq = p.ack
      BY <2>3, <3>1 DEF AckFor
    <3> QED
      BY <1>5, <2>1, <3>2
  <2> QED
    BY <2>4, <2>5
<1> HIDE DEF t
<1>7. TruthfulTable([t EXCEPT ![1] = ZeroAck])
  BY <1>2, <1>6 DEF TruthfulTable, ZeroAck
<1>8. s2e' \in Seq(Truthful')
  BY <1>1, <1>3, <1>6, TruthfulBurst
<1>9. \A i \in 1..maxW : trn'[i].ws = i => trn'[i] \in Truthful'
  BY <1>3, <1>6, <1>7 DEF TruthfulTable
<1> QED
  BY <1>1, <1>3, <1>8, <1>9 DEF StaysTruthfulAtServer, ACK, SYNACK

LEMMA TableTruthful ==
    ASSUME SystemInv, ServerTruthful, Truthful \subseteq Truthful'
    PROVE  /\ maxW \in Nat /\ trn \in [1..maxW -> AckRecord] /\ prev \in AckRecord
           /\ TruthfulTable(trn) /\ TruthfulTable(MarkLast(trn))
           /\ MarkLast(trn) \in [1..maxW -> AckRecord]
           /\ s2e \in Seq(Truthful')
<1>1. /\ maxW \in Nat /\ trn \in [1..maxW -> AckRecord] /\ prev \in AckRecord
  BY SystemFacts, InvSizes DEF AnswersInv, Inv, StateTypeOK
<1>2. TruthfulTable(trn) /\ s2e \in Seq(Truthful')
  BY SeqOfMore DEF ServerTruthful, TruthfulTable
<1> QED
  BY <1>1, <1>2, MarkedTruthful, MarkLastFacts

LEMMA EotTruthful ==
    ASSUME SystemInv, ServerTruthful, Truthful \subseteq Truthful',
           NEW p, ReceiveEot(p)
    PROVE  StaysTruthfulAtServer
<1>1. /\ UNCHANGED <<prev, maxW>>
      /\ s2e' = Put(s2e, Burst(MarkLast(trn)))
      /\ trn' = MarkLast(trn) \/ trn' = [MarkLast(trn) EXCEPT ![1] = ZeroAck]
  BY DEF ReceiveEot, Write
<1>2. TruthfulTable([MarkLast(trn) EXCEPT ![1] = ZeroAck]) /\ TruthfulTable(MarkLast(trn))
  BY TableTruthful DEF TruthfulTable, ZeroAck
<1>3. s2e' \in Seq(Truthful')
  BY <1>1, TableTruthful, TruthfulBurst
<1> QED
  BY <1>1, <1>2, <1>3 DEF StaysTruthfulAtServer, TruthfulTable, ServerTruthful

LEMMA SynTruthful ==
    ASSUME SystemInv, ServerTruthful, Truthful \subseteq Truthful',
           NEW p \in Numbered, ReceiveSyn(p)
    PROVE  StaysTruthfulAtServer
<1>1. /\ maxW' = Window /\ Window \in Nat \ {0} /\ p.seq = 100 /\ p \in ClientPacket
      /\ AnswersInv
  BY SynSizes, WindowFacts, SystemFacts DEF Numbered, ReceiveSyn
<1>2. Kept
  BY <1>1, SynAnswers
<1>3. CASE p.seq # prev.seq
  <2>1. /\ prev' = SynAckFor(p, Window)
        /\ s2e' = Put(s2e, <<prev'>>)
        /\ trn' = [i \in 1..Window |-> ZeroAck]
    BY <1>1, <1>3 DEF ReceiveSyn
  <2>2. prev'.type = SYNACK /\ prev'.ack = 100 + Window
    BY <1>1, <2>1 DEF SynAckFor
  <2>3. prev' \in Truthful'
    BY <1>2, <2>2 DEF Kept, AnswersReady, Truthful, ACK, SYNACK
  <2>4. <<prev'>> \in Seq(Truthful')
    BY <2>3
  <2>5. s2e' \in Seq(Truthful')
    BY <2>1, <2>4, TableTruthful, PutType
  <2> QED
    BY <1>1, <2>1, <2>3, <2>5 DEF StaysTruthfulAtServer, ZeroAck
<1>4. CASE p.seq = prev.seq
  <2>1. maxW = Window
    BY <1>1, <1>4 DEF AnswersInv, Inv, Sized
  <2>2. /\ prev' = [prev EXCEPT !.re = 1]
        /\ trn' = trn \/ trn' = MarkLast(trn)
        /\ s2e' = s2e \/ s2e' = Put(s2e, Burst(trn'))
    BY <1>4 DEF ReceiveSyn
  <2>3. TruthfulTable(trn')
    BY <2>2, TableTruthful
  <2>4. s2e' \in Seq(Truthful')
    BY <2>2, <2>3, TableTruthful, TruthfulBurst
  <2>5. /\ prev'.type = prev.type /\ prev'.seq = prev.seq /\ prev'.ack = prev.ack
    BY <2>2, TableTruthful DEF AckRecord
  <2>6. prev'.type = SYNACK => prev' \in Truthful'
    BY <1>2, <2>5, TruthfulNext DEF Kept, AnswersReady, ServerTruthful
  <2> QED
    BY <1>1, <2>1, <2>3, <2>4, <2>6 DEF StaysTruthfulAtServer, TruthfulTable
<1> QED
  BY <1>3, <1>4

LEMMA TimeoutTruthful ==
    ASSUME SystemInv, ServerTruthful, Truthful \subseteq Truthful', Timeout
    PROVE  StaysTruthfulAtServer
<1>1. Kept /\ maxW' = maxW
  BY SystemFacts, TimeoutAnswers DEF Timeout
<1>2. CASE prev.type = SYNACK
  <2>1. /\ prev' = [prev EXCEPT !.re = 1] /\ trn' = trn
        /\ s2e' = Put(s2e, <<prev'>>)
    BY <1>2 DEF Timeout
  <2>2. /\ prev'.type = prev.type /\ prev'.seq = prev.seq /\ prev'.ack = prev.ack
    BY <2>1, TableTruthful DEF AckRecord
  <2>3. prev' \in Truthful'
    BY <1>1, <1>2, <2>2, TruthfulNext DEF Kept, AnswersReady, ServerTruthful
  <2>4. <<prev'>> \in Seq(Truthful')
    BY <2>3
  <2>5. s2e' \in Seq(Truthful')
    BY <2>1, <2>4, TableTruthful, PutType
  <2> QED
    BY <1>1, <2>1, <2>3, <2>5, TableTruthful DEF StaysTruthfulAtServer, TruthfulTable
<1>3. CASE prev.type # SYNACK
  <2>1. /\ prev' = prev
        /\ trn' = [i \in 1..maxW |-> IF trn[i].ws = i
                                     THEN [trn[i] EXCEPT !.re = 1] ELSE trn[i]]
        /\ s2e' = Put(s2e, Burst(trn'))
    BY <1>3 DEF Timeout
  <2>2. ASSUME NEW i \in 1..maxW, trn'[i].ws = i PROVE trn'[i] \in Truthful'
    <3>1. /\ trn[i].ws = i /\ trn'[i].type = trn[i].type
          /\ trn'[i].seq = trn[i].seq /\ trn'[i].ack = trn[i].ack
      BY <2>1, <2>2, TableTruthful DEF AckRecord
    <3>2. trn[i] \in Truthful' /\ trn'[i] \in Answer
      BY <1>1, <2>2, <3>1, TableTruthful DEF TruthfulTable, Kept, AnswersReady
    <3> QED
      BY <3>1, <3>2, TruthfulNext
  <2>3. TruthfulTable(trn')
    BY <2>2 DEF TruthfulTable
  <2>4. s2e' \in Seq(Truthful')
    BY <2>1, <2>3, TableTruthful, TruthfulBurst
  <2> QED
    BY <1>1, <1>3, <2>1, <2>3, <2>4 DEF StaysTruthfulAtServer, TruthfulTable
<1> QED
  BY <1>2, <1>3

LEMMA ServerSaysTruth ==
    ASSUME SystemInv, ServerTruthful, e2s \in Seq(Numbered), Receive \/ Timeout, Note
    PROVE  StaysTruthfulAtServer
<1>1. Truthful \subseteq Truthful'
  BY TakenGrows
<1>2. CASE Receive
  <2> DEFINE p == Head(e2s)
  <2>1. e2s # <<>> /\ e2s' = Tail(e2s) /\ p \in Numbered
    BY <1>2, HeadTailProperties DEF Receive
  <2>2. Len(e2s') < Len(e2s)
    BY <2>1, HeadTailProperties
  <2>3. [seq |-> p.seq, data |-> p.data] \in taken'
    BY <2>2 DEF Note
  <2>4. \/ ReceiveSyn(p) \/ ReceiveData(p)
        \/ ReceiveEot(p) \/ ReceiveTooEarly(p)
    BY <1>2 DEF Receive
  <2> HIDE DEF p
  <2>5. CASE ReceiveTooEarly(p)
    BY <1>1, <2>5, TableTruthful
       DEF ReceiveTooEarly, StaysTruthfulAtServer, ServerTruthful, TruthfulTable
  <2> QED
    BY <1>1, <2>1, <2>3, <2>4, <2>5, SynTruthful, DataTruthful, EotTruthful
<1>3. CASE Timeout
  BY <1>1, <1>3, TimeoutTruthful
<1> QED
  BY <1>2, <1>3

(* While the client is in the handshake the server has nothing but SYNs,   *)
(* and nothing to say but SYNACKs.                                         *)
LEMMA ServerSynAcks ==
    ASSUME SystemInv, OnlySynAcks, InHandshake, Receive \/ Timeout
    PROVE  s2e' \in Seq(SynAcks)
<1>1. /\ NothingReceived /\ e2s \in Seq(SynPacket) /\ s2e \in Seq(SynAcks)
      /\ AnswersInv /\ SynAcks \subseteq Answer
  BY SystemFacts DEF SynsFirst, OnlySynAcks, SynAcks
<1>2. /\ maxW \in Nat /\ trn \in [1..maxW -> AckRecord] /\ prev \in AckRecord
      /\ \A i \in 1..maxW : trn[i].ws # i
  <2>1. \A i \in 1..maxW : trn[i].ws = 0
    BY <1>1 DEF AnswersInv, Inv, TablesAgree, NothingReceived
  <2>2. \A i \in 1..maxW : i # 0
    BY <1>1, InvSizes DEF AnswersInv
  <2> QED
    BY <1>1, <2>1, <2>2, InvSizes DEF AnswersInv, Inv, StateTypeOK
<1>3. ASSUME NEW t, \A i \in 1..maxW : t[i].ws # i
      PROVE  Put(s2e, Burst(t)) \in Seq(SynAcks)
  <2>1. Burst(t) \in Seq(SynAcks)
    BY <1>2, <1>3, BurstFacts
  <2> QED
    BY <1>1, <2>1, PutType
<1>4. ASSUME prev'.type = SYNACK, s2e' = Put(s2e, <<prev'>>), Kept
      PROVE  s2e' \in Seq(SynAcks)
  <2>1. <<prev'>> \in Seq(SynAcks)
    BY <1>4 DEF Kept, AnswersReady, SynAcks
  <2> QED
    BY <1>1, <1>4, <2>1, PutType
<1>5. CASE Receive
  <2> DEFINE p == Head(e2s)
  <2>1. p \in ClientPacket /\ p.type = SYN
    BY <1>1, <1>5, HeadTailProperties DEF Receive, SynPacket
  <2>2. ReceiveSyn(p)
    BY <1>5, <2>1 DEF Receive, ReceiveData, ReceiveEot, ReceiveTooEarly, SYN, DATA, EOT
  <2>3. maxW' = Window /\ p.seq > 0 /\ Kept
    BY <1>1, <2>1, <2>2, SynSizes, SynAnswers DEF ClientPacket
  <2> HIDE DEF p
  <2>4. CASE p.seq # prev.seq
    <3>1. prev'.type = SYNACK /\ s2e' = Put(s2e, <<prev'>>)
      BY <2>2, <2>4 DEF ReceiveSyn, SynAckFor
    <3> QED
      BY <1>4, <2>3, <3>1
  <2>5. CASE p.seq = prev.seq
    <3>1. /\ trn' = trn \/ trn' = MarkLast(trn)
          /\ s2e' = s2e \/ s2e' = Put(s2e, Burst(trn'))
      BY <2>2, <2>5 DEF ReceiveSyn
    <3>2. \A i \in 1..maxW : trn'[i].ws # i
      BY <1>2, <3>1, MarkLastFacts
    <3> QED
      BY <1>1, <1>3, <3>1, <3>2
  <2> QED
    BY <2>4, <2>5
<1>6. CASE Timeout
  <2>1. Kept
    BY <1>1, <1>6, TimeoutAnswers
  <2>2. CASE prev.type = SYNACK
    <3>1. prev' = [prev EXCEPT !.re = 1] /\ s2e' = Put(s2e, <<prev'>>)
      BY <1>6, <2>2 DEF Timeout
    <3>2. prev'.type = SYNACK
      BY <1>2, <2>2, <3>1 DEF AckRecord
    <3> QED
      BY <1>4, <2>1, <3>1, <3>2
  <2>3. CASE prev.type # SYNACK
    <3>1. /\ trn' = [i \in 1..maxW |-> IF trn[i].ws = i
                                       THEN [trn[i] EXCEPT !.re = 1] ELSE trn[i]]
          /\ s2e' = Put(s2e, Burst(trn'))
      BY <1>6, <2>3 DEF Timeout
    <3>2. \A i \in 1..maxW : trn'[i].ws # i
      BY <1>2, <3>1
    <3> QED
      BY <1>3, <3>1, <3>2
  <2> QED
    BY <2>2, <2>3
<1> QED
  BY <1>5, <1>6

-----------------------------------------------------------------------------
(***************************************************************************)
(* Chance.                                                                 *)
(***************************************************************************)
(* Whether an original passes, for the version that runs.                  *)
Lucky == Noise < r /\ (version.emulator \in {"emulator", "stable"} => ~E!Saturated)

(* What all versions of the emulator do with a packet of the client: if it *)
(* passes and the turn goes on, r stays.                                   *)
Decides(p, passes) ==
    /\ e2s' = Put(e2s, IF passes THEN <<p>> ELSE <<>>)
    /\ p.type = EOT => passes /\ phase' # "client"
    /\ Lucky => passes
    /\ passes /\ p.type # EOT /\ p.re = 0 => Lucky
    /\ passes /\ phase' = "client" => r' = r

LEMMA EmulatorDecides ==
    ASSUME SystemInv, EmulatorStep, phase = "client"
    PROVE  /\ c2e # <<>> /\ c2e' = Tail(c2e)
           /\ \E passes \in BOOLEAN : Decides(Head(c2e), passes)
<1> DEFINE p == Head(c2e)
<1>1. ~E!FromServer
  BY DEF E!FromServer
<1>2. c2e # <<>> /\ c2e' = Tail(c2e)
  BY <1>1 DEF EmulatorStep, EmulatorDoes, E!Step, E!OriginalStep, E!StableStep,
              E!FromClient, E!EarlierFromClient
<1>3. p \in ClientPacket
  BY <1>2, SystemFacts, HeadTailProperties
<1>4. /\ E!Carries(p) <=> p.type # EOT
      /\ p.type \in {SYN, DATA, EOT} /\ E!EOT = EOT /\ E!DATA = DATA
      /\ EOT # DATA
  <2>1. p.type = SYN => p.ws # 0
    BY <1>3, WindowBounds DEF ClientPacket
  <2>2. p.type # SYN => p.ws # 0
    BY <1>3, WindowBounds DEF ClientPacket
  <2>3. p.type \in {SYN, DATA, EOT}
    BY <1>3 DEF ClientPacket
  <2> HIDE DEF p
  <2> QED
    BY <2>1, <2>2, <2>3, SameTypes DEF E!Carries, SYN, DATA, EOT
<1> HIDE DEF p
<1>5. CASE version.emulator = "emulator"
  <2>1. /\ e2s' = Put(e2s, IF E!PassesUp(p) THEN <<p>> ELSE <<>>)
        /\ phase' = IF E!EndsClientTurn(p) THEN "server" ELSE "client"
        /\ E!Redraws(p) \/ r' = r
    BY <1>1, <1>5, SamePut
       DEF EmulatorStep, EmulatorDoes, E!Step, E!FromClient, E!ForwardedUp, p
  <2>2. E!PassesUp(p) \in BOOLEAN
    BY DEF E!PassesUp
  <2>3. p.type = EOT => E!PassesUp(p) /\ phase' # "client"
    BY <1>4, <2>1 DEF E!PassesUp, E!EndsClientTurn, E!LostUp
  <2>4. Lucky => E!PassesUp(p)
    BY <1>4, <1>5 DEF Lucky, E!PassesUp
  <2>5. E!PassesUp(p) /\ p.type # EOT /\ p.re = 0 => Lucky
    BY <1>4, <1>5 DEF Lucky, E!PassesUp
  <2>6. E!PassesUp(p) /\ phase' = "client" => r' = r
    BY <2>1 DEF E!Redraws, E!LostUp
  <2> QED
    BY <1>2, <2>1, <2>2, <2>3, <2>4, <2>5, <2>6 DEF Decides, p
<1>6. ASSUME NEW passes \in BOOLEAN, E!EarlierFromClient(passes),
             p.type = EOT => passes, Lucky => passes,
             passes /\ p.type # EOT /\ p.re = 0 => Lucky
      PROVE  Decides(p, passes)
  <2> DEFINE lost == E!Carries(p) /\ ~passes
             ends == ~lost /\ ~E!StaysWithClient(p)
  <2>1. /\ e2s' = Put(e2s, IF passes THEN <<p>> ELSE <<>>)
        /\ phase' = IF ends THEN "server" ELSE "client"
        /\ lost \/ ends \/ r' = r
    BY <1>6, SamePut DEF E!EarlierFromClient, E!EarlierRelay, p
  <2>2. p.type = EOT => phase' # "client"
    BY <1>4, <2>1 DEF E!StaysWithClient
  <2>3. passes /\ phase' = "client" => r' = r
    BY <2>1
  <2> QED
    BY <1>6, <2>1, <2>2, <2>3 DEF Decides
<1>7. CASE version.emulator = "original"
  <2> DEFINE passes == E!OriginalPassesUp(p)
  <2>1. E!EarlierFromClient(passes) /\ passes \in BOOLEAN
    BY <1>1, <1>7 DEF EmulatorStep, EmulatorDoes, E!OriginalStep, E!OriginalPassesUp, p
  <2>2. /\ p.type = EOT => passes
        /\ Lucky => passes
        /\ passes /\ p.type # EOT /\ p.re = 0 => Lucky
    BY <1>4, <1>7 DEF Lucky, E!OriginalPassesUp
  <2> HIDE DEF passes
  <2> QED
    BY <1>2, <1>6, <2>1, <2>2 DEF p
<1>8. CASE version.emulator = "stable"
  <2> DEFINE passes == E!StablePassesUp(p)
  <2>1. E!EarlierFromClient(passes) /\ passes \in BOOLEAN
    BY <1>1, <1>8 DEF EmulatorStep, EmulatorDoes, E!StableStep, E!StablePassesUp, p
  <2>2. /\ p.type = EOT => passes
        /\ Lucky => passes
        /\ passes /\ p.type # EOT /\ p.re = 0 => Lucky
    BY <1>4, <1>8 DEF Lucky, E!StablePassesUp
  <2> HIDE DEF passes
  <2> QED
    BY <1>2, <1>6, <2>1, <2>2 DEF p
<1> QED
  BY <1>5, <1>7, <1>8 DEF EmulatorStep, EmulatorDoes

(* Once an original has passed, the rest of the turn passes.               *)
LossesInFront ==
    /\ phase = "client" /\ Len(c2e') < Len(c2e)
    /\ e2s' = e2s /\ Len(e2s) < SockBuf
    => ~lucky

LEMMA LuckyNext ==
    ASSUME SystemInv, LuckyTurn, SystemNext, Note
    PROVE  LuckyTurn' /\ LossesInFront
<1>0. /\ c2e \in Seq(ClientPacket) /\ e2s \in Seq(ClientPacket)
      /\ Len(c2e) \in Nat /\ Len(e2s) \in Nat /\ Len(e2s) <= SockBuf
      /\ Len(c2e) <= SockBuf
  BY SystemFacts
<1>1. CASE ClientStep \/ ClientTimeout
  <2>1. UNCHANGED <<phase, r, version, e2s>>
    BY <1>1 DEF ClientStep, ClientTimeout, ClientDoes, emulatorVars
  <2>2. Len(c2e') >= Len(c2e)
    <3>1. Speaks
      BY <1>1, SystemFacts, ClientSteps
    <3>2. c2e' = c2e \/ \E p \in ClientPacket : c2e' = Put(c2e, <<p>>)
      BY <3>1, SynOrBuilt DEF Speaks
    <3>3. ASSUME NEW p \in ClientPacket
          PROVE  Len(Put(c2e, <<p>>)) >= Len(c2e)
      <4>1. Put(c2e, <<p>>) = IF Len(c2e) < SockBuf THEN Append(c2e, p) ELSE c2e
        BY <1>0, PutOne
      <4>2. Len(Append(c2e, p)) = Len(c2e) + 1
        BY <1>0
      <4> QED
        BY <1>0, <4>1, <4>2
    <3>4. CASE c2e' = c2e
      BY <1>0, <3>4
    <3>5. CASE \E p \in ClientPacket : c2e' = Put(c2e, <<p>>)
      BY <3>3, <3>5
    <3> QED
      BY <3>2, <3>4, <3>5
  <2>3. Len(c2e') \in Nat
    BY <1>0, <1>1, SystemFacts, ClientKeeps DEF SystemInv, OnTheWay
  <2>6. ~(Len(e2s') > Len(e2s))
    BY <1>0, <2>1
  <2>4. lucky' => lucky
    BY <2>6 DEF Note
  <2>5. LuckyTurn'
    BY <2>1, <2>4 DEF LuckyTurn, E!Saturated
  <2> QED
    BY <1>0, <2>2, <2>3, <2>5 DEF LossesInFront
<1>2. CASE ServerStep \/ ServerTimeout
  <2>1. /\ UNCHANGED <<phase, r, version, c2e>>
        /\ e2s' = e2s \/ (e2s # <<>> /\ e2s' = Tail(e2s))
    BY <1>2 DEF ServerStep, ServerTimeout, ServerDoes, emulatorVars, Receive, Timeout
  <2>2. ~(Len(e2s') > Len(e2s))
    BY <1>0, <2>1, HeadTailProperties
  <2>3. lucky' => lucky
    BY <2>2 DEF Note
  <2>4. LuckyTurn'
    BY <2>1, <2>3 DEF LuckyTurn, E!Saturated
  <2> QED
    BY <1>0, <2>1, <2>4 DEF LossesInFront
<1>3. CASE (EmulatorStep \/ EmulatorTimeout) /\ phase # "client"
  <2>1. UNCHANGED e2s /\ ~lucky
    <3>1. E!FromServer \/ E!Timeout
      BY <1>3 DEF EmulatorStep, EmulatorTimeout, EmulatorDoes, E!Step, E!OriginalStep,
                  E!StableStep, E!FromClient, E!EarlierFromClient
    <3> QED
      BY <1>3, <3>1 DEF E!FromServer, E!Timeout, LuckyTurn
  <2>2. ~lucky'
    BY <1>0, <2>1 DEF Note
  <2> QED
    BY <2>1, <2>2 DEF LuckyTurn, LossesInFront
<1>4. CASE EmulatorTimeout /\ phase = "client"
  BY <1>4 DEF EmulatorTimeout, EmulatorDoes, E!Timeout
<1>5. CASE EmulatorStep /\ phase = "client"
  <2> DEFINE p == Head(c2e)
  <2>1. c2e # <<>> /\ version' = version /\ p \in ClientPacket
    BY <1>0, <1>5, EmulatorDecides, HeadTailProperties DEF EmulatorStep, EmulatorDoes
  <2>2. PICK passes \in BOOLEAN : Decides(p, passes)
    BY <1>5, EmulatorDecides
  <2> HIDE DEF p
  <2>3. /\ Put(e2s, <<p>>) = IF Len(e2s) < SockBuf THEN Append(e2s, p) ELSE e2s
        /\ Put(e2s, <<>>) = e2s /\ Len(Append(e2s, p)) = Len(e2s) + 1
    BY <1>0, <2>1, PutOne, PutNone
  <2>4. Len(e2s') > Len(e2s) => passes
    BY <1>0, <2>2, <2>3 DEF Decides
  <2>5. lucky => Lucky
    BY DEF LuckyTurn, Lucky
  <2>6. lucky' => passes /\ phase' = "client" /\ Lucky
    BY <2>2, <2>4, <2>5 DEF Note, Decides, p
  <2>7. LuckyTurn'
    BY <2>1, <2>2, <2>6 DEF Decides, LuckyTurn, Lucky, E!Saturated
  <2>8. passes /\ Len(e2s) < SockBuf => e2s' # e2s
    BY <1>0, <2>2, <2>3 DEF Decides
  <2>9. Lucky => passes
    BY <2>2 DEF Decides
  <2> QED
    BY <2>5, <2>7, <2>8, <2>9 DEF LossesInFront
<1> QED
  BY <1>1, <1>2, <1>3, <1>4, <1>5 DEF SystemNext, SomeStep, SomeTimeout

-----------------------------------------------------------------------------
(***************************************************************************)
(* The invariant.                                                          *)
(***************************************************************************)
LEMMA HistoryInitInv == HistoryInit => HistoryInv
<1> SUFFICES ASSUME HistoryInit PROVE HistoryInv
  OBVIOUS
<1>1. /\ C!Init /\ Init /\ c2e = <<>> /\ e2c = <<>> /\ ~lucky
  BY DEF HistoryInit, SystemInit, C!EarlierInit
<1>2. /\ copy = C!NoPacket /\ InHandshake /\ 1..synAck.ws = {}
      /\ c2e = <<>> /\ e2s = <<>> /\ s2e = <<>> /\ e2c = <<>>
      /\ prev.type # SYNACK /\ prev.seq = 0 /\ 1..maxW = {}
  BY <1>1 DEF C!Init, Init, InHandshake, ZeroAck, ACK, SYNACK
<1>3. C!NoPacket \notin Built
  BY DEF C!NoPacket, Built, ClientPacket
<1>4. PacketsNumbered /\ AnswersTruthful /\ OnlySynAcks
  BY <1>2, <1>3 DEF PacketsNumbered, AnswersTruthful, OnlySynAcks
<1> QED
  BY <1>1, <1>2, <1>4 DEF HistoryInv, HandshakeAgreed, LuckyTurn, SynsAlone

LEMMA HistoryFacts ==
    ASSUME SystemInv, HistoryInv
    PROVE  /\ ClientNumbers /\ ServerTruthful /\ OnlySynAcks /\ LuckyTurn
           /\ c2e \in Seq(Numbered) /\ e2s \in Seq(Numbered)
           /\ e2c \in Seq(Truthful) /\ s2e \in Seq(Truthful)
           /\ Len(c2e) <= SockBuf /\ Len(e2s) <= SockBuf
           /\ Len(s2e) <= SockBuf /\ Len(e2c) <= SockBuf
           /\ SynsAlone
BY SystemFacts DEF HistoryInv, PacketsNumbered, AnswersTruthful, HandshakeAgreed,
                   ClientNumbers, ServerTruthful

(* The parts again, after a step.                                          *)
LEMMA HistoryFromNext ==
    ASSUME SystemInv', ClientNumbers', StaysTruthfulAtServer, OnlySynAcks', LuckyTurn',
           SynsAlone',
           c2e' \in Seq(Numbered), e2s' \in Seq(Numbered), e2c' \in Seq(Truthful')
    PROVE  HistoryInv'
<1>1. PacketsNumbered'
  BY DEF PacketsNumbered, ClientNumbers
<1>2. AnswersTruthful'
  BY DEF AnswersTruthful, StaysTruthfulAtServer
<1>3. HandshakeAgreed'
  <2>1. maxW' # 0 => maxW' = Window
    BY DEF SystemInv, Inv, Sized
  <2>2. ~InHandshake' => maxW' # 0
    BY DEF SystemInv, Quiet
  <2> QED
    BY <2>1, <2>2 DEF HandshakeAgreed, ClientNumbers
<1> QED
  BY <1>1, <1>2, <1>3 DEF HistoryInv

(* No SYN is added but in the handshake.                                   *)
LEMMA ClientSynsAlone ==
    ASSUME SystemInv, HistoryInv, Speaks, UNCHANGED <<serverVars, e2s>>
    PROVE  SynsAlone'
<1>1. /\ SynsFirst /\ SynsAlone /\ c2e \in Seq(ClientPacket) /\ Len(c2e) <= SockBuf
      /\ prev' = prev /\ (HasSyn(e2s') <=> HasSyn(e2s)) /\ (InHandshake' => InHandshake)
  BY SystemFacts, HistoryFacts DEF serverVars, Speaks, HasSyn
<1>2. HasSyn(c2e') => HasSyn(c2e) \/ InHandshake
  <2>1. CASE ~InHandshake /\ \E p \in Built : c2e' = Put(c2e, <<p>>)
    <3>1. PICK p \in Built : c2e' = Put(c2e, <<p>>)
      BY <2>1
    <3>2. p \in ClientPacket /\ p.type # SYN
      BY <3>1 DEF Built
    <3> QED
      BY <1>1, <3>1, <3>2, FrontPut DEF SynsFirst
  <2>2. CASE UNCHANGED c2e
    BY <2>2 DEF HasSyn
  <2> QED
    BY <2>1, <2>2 DEF Speaks
<1> QED
  BY <1>1, <1>2 DEF SynsAlone

LEMMA EmulatorSynsAlone ==
    ASSUME SystemInv, HistoryInv, UNCHANGED serverVars, InHandshake' <=> InHandshake,
           RelaysUp \/ RelaysDown \/ UNCHANGED <<c2e, e2s, s2e, e2c>>
    PROVE  SynsAlone'
<1>1. /\ SynsFirst /\ SynsAlone /\ prev' = prev
      /\ c2e \in Seq(ClientPacket) /\ e2s \in Seq(ClientPacket) /\ Len(e2s) <= SockBuf
  BY SystemFacts, HistoryFacts DEF serverVars
<1>2. HasSyn(c2e') \/ HasSyn(e2s') => HasSyn(c2e) \/ HasSyn(e2s)
  <2>1. CASE RelaysUp
    <3> DEFINE p == Head(c2e)
    <3>1. /\ c2e # <<>> /\ c2e' = Tail(c2e) /\ p \in ClientPacket
          /\ e2s' = Put(e2s, <<p>>) \/ e2s' = e2s
      BY <1>1, <2>1, HeadTailProperties, PutNone DEF RelaysUp, Relays
    <3>2. /\ HasSyn(c2e') => HasSyn(c2e)
          /\ HasSyn(c2e) <=> p.type = SYN
      BY <1>1, <3>1, FrontTail DEF SynsFirst
    <3> HIDE DEF p
    <3>3. CASE p.type # SYN
      BY <1>1, <3>1, <3>2, <3>3, FrontPut DEF SynsFirst
    <3> QED
      BY <3>2, <3>3
  <2>2. CASE UNCHANGED <<c2e, e2s>>
    BY <2>2 DEF HasSyn
  <2> QED
    BY <2>1, <2>2 DEF RelaysDown
<1> QED
  BY <1>1, <1>2 DEF SynsAlone

(* The emulator adds to what is under way to the server, and takes nothing.*)
LEMMA EmulatorNeverTakes ==
    ASSUME SystemInv, EmulatorStep \/ EmulatorTimeout
    PROVE  ~(Len(e2s') < Len(e2s))
<1>1. /\ e2s \in Seq(ClientPacket) /\ c2e \in Seq(ClientPacket) /\ Len(e2s) <= SockBuf
  BY SystemFacts
<1>2. RelaysUp \/ UNCHANGED e2s
  <2>1. CASE EmulatorStep
    BY <2>1, SystemFacts, EmulatorRelays DEF RelaysDown
  <2>2. CASE EmulatorTimeout
    BY <2>2 DEF EmulatorTimeout, EmulatorDoes, E!Timeout
  <2> QED
    BY <2>1, <2>2
<1>3. CASE RelaysUp
  <2>1. c2e # <<>> /\ (e2s' = Put(e2s, <<Head(c2e)>>) \/ e2s' = e2s)
    BY <1>1, <1>3, PutNone DEF RelaysUp, Relays
  <2>2. Put(e2s, <<Head(c2e)>>) \in {Append(e2s, Head(c2e)), e2s}
    BY <1>1, <2>1, HeadTailProperties, PutOne
  <2>3. Len(Append(e2s, Head(c2e))) = Len(e2s) + 1
    BY <1>1, <2>1, HeadTailProperties
  <2> QED
    BY <1>1, <2>1, <2>2, <2>3
<1> QED
  BY <1>1, <1>2, <1>3

(* A SYN is answered, under the number it asks for.                        *)
LEMMA AnswersSyn ==
    ASSUME SystemInv, HistoryInv, e2s # <<>>, Receive, Head(e2s).type = SYN
    PROVE  prev'.type = SYNACK /\ prev'.seq = 200 /\ s2e' = Put(s2e, <<prev'>>)
<1> DEFINE p == Head(e2s)
<1>1. p \in Numbered /\ p \in ClientPacket
  BY HistoryFacts, SystemFacts, HeadTailProperties
<1>2. ReceiveSyn(p)
  BY DEF Receive, ReceiveData, ReceiveEot, ReceiveTooEarly, SYN, DATA, EOT
<1>3. HasSyn(e2s)
  BY SystemFacts, FrontTail DEF SynsFirst
<1> HIDE DEF p
<1>4. p.seq = 100 /\ p.ack = 200 /\ prev.seq \in {0, 200}
  BY <1>1, <1>3, HistoryFacts DEF Numbered, SynsAlone, p
<1>5. p.seq # prev.seq
  BY <1>4
<1>6. prev' = SynAckFor(p, maxW') /\ s2e' = Put(s2e, <<prev'>>)
  BY <1>2, <1>5 DEF ReceiveSyn
<1> QED
  BY <1>4, <1>6 DEF SynAckFor

LEMMA ServerSynsAlone ==
    ASSUME SystemInv, HistoryInv, Receive \/ Timeout, UNCHANGED c2e,
           InHandshake' <=> InHandshake
    PROVE  SynsAlone'
<1>1. SynsFirst /\ SynsAlone /\ e2s \in Seq(ClientPacket) /\ prev \in AckRecord
  BY SystemFacts, HistoryFacts DEF AnswersInv, Inv, StateTypeOK
<1>2. CASE Timeout
  <2>1. e2s' = e2s /\ prev'.seq = prev.seq
    BY <1>1, <1>2 DEF Timeout, AckRecord
  <2> QED
    BY <1>1, <2>1 DEF SynsAlone, HasSyn
<1>3. CASE Receive
  <2>1. e2s # <<>> /\ e2s' = Tail(e2s)
    BY <1>3 DEF Receive
  <2>2. CASE Head(e2s).type = SYN
    BY <1>3, <2>1, <2>2, AnswersSyn DEF SynsAlone
  <2>3. CASE Head(e2s).type # SYN
    <3>1. e2s \notin Seq(SynPacket)
      BY <2>1, <2>3, HeadTailProperties DEF SynPacket
    <3>2. ~InHandshake /\ ~HasSyn(c2e) /\ ~HasSyn(e2s')
      BY <1>1, <2>1, <2>3, <3>1, FrontTail DEF SynsFirst
    <3> QED
      BY <3>2 DEF SynsAlone, HasSyn
  <2> QED
    BY <2>2, <2>3
<1> QED
  BY <1>2, <1>3

LEMMA ClientHistory ==
    ASSUME SystemInv, SystemInv', HistoryInv, LuckyTurn', Note, ClientStep \/ ClientTimeout
    PROVE  HistoryInv'
<1>1. SpeaksNumbered /\ Speaks
  BY HistoryFacts, ClientNumbered, SystemFacts, ClientSteps
<1>2. UNCHANGED <<serverVars, e2s, s2e>>
  BY DEF ClientStep, ClientTimeout, ClientDoes
<1>3. Truthful \subseteq Truthful'
  BY TakenGrows
<1>4. c2e' \in Seq(Numbered)
  BY <1>1, HistoryFacts, PutOne DEF SpeaksNumbered
<1>5. e2c' \in Seq(Truthful')
  <2>1. e2c' \in Seq(Truthful)
    BY <1>1, HistoryFacts, TailLen DEF Speaks
  <2> QED
    BY <1>3, <2>1, SeqOfMore
<1>6. StaysTruthfulAtServer
  <2>1. s2e' \in Seq(Truthful')
    BY <1>2, <1>3, HistoryFacts, SeqOfMore
  <2> QED
    BY <1>2, <1>3, <2>1, HistoryFacts
       DEF serverVars, ServerTruthful, StaysTruthfulAtServer
<1>7. OnlySynAcks'
  <2> SUFFICES ASSUME InHandshake' PROVE s2e' \in Seq(SynAcks) /\ e2c' \in Seq(SynAcks)
    BY DEF OnlySynAcks, SynAcks
  <2>1. InHandshake
    BY <1>1 DEF Speaks
  <2>2. s2e \in Seq(SynAcks) /\ e2c \in Seq(SynAcks)
    BY <2>1, HistoryFacts DEF OnlySynAcks
  <2> QED
    BY <1>1, <1>2, <2>2, HistoryFacts, TailLen DEF Speaks
<1>8. SynsAlone'
  BY <1>1, <1>2, ClientSynsAlone
<1>9. e2s' \in Seq(Numbered)
  BY <1>2, HistoryFacts
<1> QED
  BY <1>1, <1>4, <1>5, <1>6, <1>7, <1>8, <1>9, HistoryFromNext DEF SpeaksNumbered

LEMMA EmulatorHistory ==
    ASSUME SystemInv, SystemInv', HistoryInv, LuckyTurn', Note,
           EmulatorStep \/ EmulatorTimeout
    PROVE  HistoryInv'
<1>1. UNCHANGED clientVars /\ UNCHANGED serverVars /\ (InHandshake' <=> InHandshake)
  BY DEF EmulatorStep, EmulatorTimeout, EmulatorDoes, clientVars, InHandshake
<1>2. RelaysUp \/ RelaysDown \/ UNCHANGED <<c2e, e2s, s2e, e2c>>
  <2>1. CASE EmulatorStep
    BY <2>1, SystemFacts, EmulatorRelays
  <2>2. CASE EmulatorTimeout
    BY <2>2 DEF EmulatorTimeout, EmulatorDoes, E!Timeout
  <2> QED
    BY <2>1, <2>2
<1>3. Truthful \subseteq Truthful'
  BY TakenGrows
<1>4. c2e' \in Seq(Numbered) /\ e2s' \in Seq(Numbered)
  <2>1. CASE RelaysUp
    BY <2>1, HistoryFacts, RelaysTypes DEF RelaysUp
  <2> QED
    BY <1>2, <2>1, HistoryFacts DEF RelaysDown
<1>5. ASSUME NEW T, s2e \in Seq(T), e2c \in Seq(T)
      PROVE  s2e' \in Seq(T) /\ e2c' \in Seq(T)
  <2>1. CASE RelaysDown
    BY <1>5, <2>1, HistoryFacts, RelaysTypes DEF RelaysDown
  <2> QED
    BY <1>2, <1>5, <2>1 DEF RelaysUp
<1>6. s2e' \in Seq(Truthful') /\ e2c' \in Seq(Truthful')
  BY <1>3, <1>5, HistoryFacts, SeqOfMore
<1>7. StaysTruthfulAtServer
  BY <1>1, <1>3, <1>6, HistoryFacts DEF serverVars, ServerTruthful, StaysTruthfulAtServer
<1>8. OnlySynAcks'
  BY <1>1, <1>5, HistoryFacts DEF OnlySynAcks, SynAcks
<1>9. ClientNumbers'
  BY <1>1, HistoryFacts DEF clientVars, ClientNumbers, InHandshake
<1> QED
  BY <1>1, <1>2, <1>4, <1>6, <1>7, <1>8, <1>9, EmulatorSynsAlone, HistoryFromNext

LEMMA ServerHistory ==
    ASSUME SystemInv, SystemInv', HistoryInv, LuckyTurn', Note,
           ServerStep \/ ServerTimeout
    PROVE  HistoryInv'
<1>1. /\ UNCHANGED clientVars /\ UNCHANGED <<c2e, e2c>> /\ (Receive \/ Timeout)
      /\ (InHandshake' <=> InHandshake)
  BY DEF ServerStep, ServerTimeout, ServerDoes, clientVars, InHandshake
<1>2. StaysTruthfulAtServer
  BY <1>1, HistoryFacts, ServerSaysTruth
<1>3. e2s' \in Seq(Numbered)
  BY <1>1, HistoryFacts, TailLen DEF Receive, Timeout
<1>4. e2c' \in Seq(Truthful')
  BY <1>1, TakenGrows, HistoryFacts, SeqOfMore
<1>5. OnlySynAcks'
  BY <1>1, HistoryFacts, ServerSynAcks DEF OnlySynAcks, SynAcks
<1>6. ClientNumbers'
  BY <1>1, HistoryFacts DEF clientVars, ClientNumbers, InHandshake
<1> QED
  BY <1>1, <1>2, <1>3, <1>4, <1>5, <1>6, HistoryFacts, ServerSynsAlone, HistoryFromNext

LEMMA HistoryNextInv ==
    SystemInv /\ SystemInv' /\ HistoryInv /\ [SystemNext /\ Note]_historyVars => HistoryInv'
<1> SUFFICES ASSUME SystemInv, SystemInv', HistoryInv,
                    [SystemNext /\ Note]_historyVars
             PROVE  HistoryInv'
  OBVIOUS
<1>1. CASE SystemNext /\ Note
  <2>1. LuckyTurn'
    BY <1>1, HistoryFacts, LuckyNext
  <2> QED
    BY <1>1, <2>1, ClientHistory, EmulatorHistory, ServerHistory
       DEF SystemNext, SomeStep, SomeTimeout
<1>2. CASE UNCHANGED historyVars
  <2>1. /\ UNCHANGED <<clientVars, emulatorVars, serverVars, taken, lucky, version>>
        /\ UNCHANGED <<c2e, e2s, s2e, e2c>>
    BY <1>2 DEF historyVars, systemVars
  <2>2. InHandshake' <=> InHandshake
    BY <2>1 DEF clientVars, InHandshake
  <2>3. Truthful' = Truthful
    BY <2>1 DEF Truthful
  <2>4. ClientNumbers'
    BY <2>1, <2>2, HistoryFacts DEF clientVars, ClientNumbers
  <2>5. StaysTruthfulAtServer
    BY <2>1, <2>3, HistoryFacts DEF serverVars, ServerTruthful, StaysTruthfulAtServer
  <2>6. OnlySynAcks'
    BY <2>1, <2>2, HistoryFacts DEF OnlySynAcks, SynAcks
  <2>7. LuckyTurn'
    BY <2>1, HistoryFacts DEF emulatorVars, LuckyTurn, E!Saturated
  <2>8. SynsAlone'
    BY <2>1, <2>2, HistoryFacts DEF serverVars, SynsAlone, HasSyn
  <2> QED
    BY <2>1, <2>3, <2>4, <2>5, <2>6, <2>7, <2>8, HistoryFacts, HistoryFromNext
<1> QED
  BY <1>1, <1>2

(* A system with a history is the system.                                  *)
LEMMA SystemWithHistory == HistorySpec => []SystemInv
<1>1. HistoryInit => SystemInv
  BY SystemInitInv DEF HistoryInit
<1>2. SystemInv /\ [SystemNext /\ Note]_historyVars => SystemInv'
  BY SystemNextInv DEF historyVars
<1> QED
  BY <1>1, <1>2, PTL DEF HistorySpec

-----------------------------------------------------------------------------
(* What packets and answers say holds of all of them, on any way, however  *)
(* long they have been under way (client.c 158-204, server.c 147-186).     *)
THEOREM HistoryInvariant == HistorySpec => []HistoryInv
<1> QED
  BY SystemWithHistory, HistoryInitInv, HistoryNextInv, PTL DEF HistorySpec

(* The handshake ends with an answer of the server's to the SYN, and from  *)
(* then on both go by the same window (client.c 127-138, server.c 95-122). *)
THEOREM WindowAgreed == HistorySpec => []HandshakeAgreed
<1>1. HistoryInv => HandshakeAgreed
  BY DEF HistoryInv
<1> QED
  BY <1>1, HistoryInvariant, PTL

(* The server answers every SYN that it takes: none is ever mistaken for a *)
(* repetition by its number (server.c 95-122).                             *)
THEOREM EverySynAnswered == HistorySpec => SynsAnswered
<1>1. ASSUME SystemInv, HistoryInv, SystemNext, e2s # <<>>, Head(e2s).type = SYN,
             e2s' = Tail(e2s)
      PROVE  prev'.type = SYNACK /\ s2e' = Put(s2e, <<prev'>>)
  <2>1. Len(e2s') < Len(e2s)
    BY <1>1, SystemFacts, HeadTailProperties
  <2>2. Receive
    <3>1. CASE ClientStep \/ ClientTimeout
      BY <2>1, <3>1, SystemFacts, <1>1 DEF ClientStep, ClientTimeout, ClientDoes
    <3>2. CASE EmulatorStep \/ EmulatorTimeout
      BY <1>1, <2>1, <3>2, EmulatorNeverTakes
    <3>3. CASE ServerStep \/ ServerTimeout
      BY <1>1, <3>3 DEF ServerStep, ServerTimeout, ServerDoes, Timeout
    <3> QED
      BY <1>1, <3>1, <3>2, <3>3 DEF SystemNext, SomeStep, SomeTimeout
  <2> QED
    BY <1>1, <2>2, AnswersSyn
<1>2. SystemInv /\ HistoryInv /\ [SystemNext /\ Note]_historyVars
      => [spc = "listen" /\ e2s # <<>> /\ Head(e2s).type = SYN /\ e2s' = Tail(e2s)
          => prev'.type = SYNACK /\ s2e' = Put(s2e, <<prev'>>)]_systemVars
  BY <1>1 DEF historyVars
<1> QED
  BY <1>2, SystemWithHistory, HistoryInvariant, PTL DEF HistorySpec, SynsAnswered

(* The client counts no packet as acknowledged that the server has not     *)
(* taken, whatever is lost, repeated or late (client.c 255-268).           *)
THEOREM AcksAreTrue == HistorySpec => NoFalseAck
<1>1. ASSUME SystemInv, HistoryInv, [SystemNext /\ Note]_historyVars,
             NEW i \in NewlyAcked
      PROVE  \E p \in taken : p.seq = tp[i].seq
  <2> DEFINE a == Head(e2c)
  <2>1. /\ i \in 1..synAck.ws /\ pc = "receive" /\ acked[i] # acked'[i] /\ acked[i] = 0
    BY DEF NewlyAcked
  <2>2. (C!Receive \/ C!EarlierReceive) /\ e2c # <<>>
    <3>1. acked' # acked
      BY <2>1
    <3>2. ClientStep \/ ClientTimeout
      BY <1>1, <3>1
         DEF historyVars, systemVars, clientVars, SystemNext, SomeStep, SomeTimeout,
             EmulatorStep, EmulatorTimeout, EmulatorDoes, ServerStep, ServerTimeout, ServerDoes
    <3>3. C!Receive \/ C!EarlierReceive \/ C!Timeout
      BY <2>1, <3>2
         DEF ClientStep, ClientTimeout, ClientDoes, AsStarted, C!Step, C!EarlierStep,
             C!Timeouts, C!EarlierTimeouts, C!ReceiveSynAck, C!EarlierReceiveSynAck,
             C!Build, C!EarlierBuild, C!EarlierTimeout, C!SendSyn, C!SynTimeout,
             C!TakeSynAck, C!BuildWith, C!Send, C!EarlierSend, C!Resend, C!EarlierResend,
             C!Repair
    <3> QED
      BY <3>1, <3>3 DEF C!Receive, C!EarlierReceive, C!Timeout
  <2>3. a \in Truthful
    BY <1>1, <2>2, HistoryFacts, HeadTailProperties
  <2> HIDE DEF a
  <2>4. a.type = ACK /\ \E expected \in C!Expected(a) : C!NoteAckAs(a, expected)
    BY <2>1, <2>2 DEF a, C!Receive, C!EarlierReceive, C!NoteAck, C!EarlierNoteAck,
                      ACK, C!ACK
  <2>5. PICK expected \in C!Expected(a) : C!NoteAckAs(a, expected)
    BY <2>4
  <2>6. rac \in Nat /\ synAck.ws \in Nat /\ tp[i] \in Numbered /\ tp[i].type \in {DATA, EOT}
    <3>1. tp[i] \in Built
      BY <1>1, <2>1, SystemFacts DEF ClientOK, WindowBuilt
    <3>2. tp[i] \in Numbered
      BY <1>1, <2>1, <3>1, HistoryFacts DEF ClientNumbers
    <3> QED
      BY <1>1, <3>1, <3>2, SystemFacts, KnownWindow, ClientTypes
         DEF Built, ClientPacket, ClientOK, C!TypeOK
  <2>7. a.seq = tp[i].ack
    <3>1. IF expected THEN i = rac + 1 ELSE a.seq = tp[i].ack
      BY <2>1, <2>5 DEF C!NoteAckAs, C!W
    <3>2. CASE expected
      <4>1. i = rac + 1 /\ rac < synAck.ws
        BY <2>1, <2>6, <3>1, <3>2
      <4>2. expected = (a.seq = tp[rac + 1].ack)
        BY <2>5, <4>1 DEF C!Expected, C!W
      <4> QED
        BY <3>2, <4>1, <4>2
    <3> QED
      BY <3>1, <3>2
  <2>8. a.seq > 0 /\ \E p \in taken : p.seq = a.seq + 100
    BY <2>3, <2>4 DEF Truthful
  <2>9. tp[i].seq = tp[i].ack + 100
    BY <2>6, <2>7, <2>8 DEF Numbered
  <2> QED
    BY <2>7, <2>8, <2>9
<1>2. SystemInv /\ HistoryInv /\ [SystemNext /\ Note]_historyVars
      => \A i \in NewlyAcked : \E p \in taken : p.seq = tp[i].seq
  BY <1>1
<1> QED
  BY <1>2, SystemWithHistory, HistoryInvariant, PTL DEF HistorySpec, NoFalseAck

(* Losses come first: once a packet of a turn of the client's has passed   *)
(* by chance, the rest of the turn passes, in all three versions of the    *)
(* emulator (emulator.c 115, 137, emulator stable.c, emulator_original.c). *)
THEOREM LossesComeFirst == HistorySpec => LossesFirst
<1>1. SystemInv /\ HistoryInv /\ [SystemNext /\ Note]_historyVars => LossesInFront
  <2>1. CASE SystemNext /\ Note
    BY <2>1, HistoryFacts, LuckyNext
  <2>2. CASE UNCHANGED historyVars
    <3>1. c2e' = c2e
      BY <2>2 DEF historyVars, systemVars
    <3> QED
      BY <3>1 DEF LossesInFront, SystemInv, OnTheWay
  <2> QED
    BY <2>1, <2>2
<1> QED
  BY <1>1, SystemWithHistory, HistoryInvariant, PTL
     DEF HistorySpec, LossesFirst, LossesInFront

=============================================================================
