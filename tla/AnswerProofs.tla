---------------------------- MODULE AnswerProofs ----------------------------
(***************************************************************************)
(* What the server answers, whatever the network does: the invariant of    *)
(* ServerProofs, and with it what is said of the acknowledgements that are *)
(* kept to be sent, now or again.                                          *)
(***************************************************************************)
EXTENDS ServerProofs, FiniteSetTheorems, WellFoundedInduction

(* Every set of numbers has a least one.                                   *)
LEMMA LeastElement ==
    ASSUME NEW T \in SUBSET Nat, T # {}
    PROVE  \E x \in T : \A y \in T : x <= y
<1>1. PICK x \in T : \A y \in T : ~ (<<y, x>> \in OpToRel(<, Nat))
  BY NatLessThanWellFounded, WFMin
<1>2. \A y \in T : ~ (y < x)
  BY <1>1 DEF OpToRel
<1> QED
  BY <1>2

(* A set of slots has as many k-th elements as it has elements.            *)
LEMMA NthFacts ==
    ASSUME NEW n \in Nat, NEW S \in SUBSET (1..n)
    PROVE  /\ Cardinality(S) \in Nat
           /\ \A k \in 1..Cardinality(S) :
                 Nth(S, k) \in S /\ Cardinality({j \in S : j <= Nth(S, k)}) = k
<1> DEFINE Upto(i) == {j \in S : j <= i}
<1>0. \A j \in S : j \in Int /\ 1 <= j /\ j <= n
  OBVIOUS
<1>1. IsFiniteSet(S) /\ Cardinality(S) \in Nat
  <2>1. IsFiniteSet(1..n)
    BY FS_Interval
  <2> QED
    BY <2>1, FS_Subset, FS_CardinalityType
<1>2. \A i \in Int : IsFiniteSet(Upto(i)) /\ Cardinality(Upto(i)) \in Nat
  <2> TAKE i \in Int
  <2>1. Upto(i) \in SUBSET S
    OBVIOUS
  <2> QED
    BY <1>1, <2>1, FS_Subset, FS_CardinalityType
<1> SUFFICES ASSUME NEW k \in 1..Cardinality(S)
             PROVE  \E i \in S : Cardinality(Upto(i)) = k
  BY <1>1 DEF Nth
<1> DEFINE T == {i \in Nat : Cardinality(Upto(i)) >= k}
<1>3. Upto(n) = S /\ Upto(0) = {}
  <2>1. \A j \in S : j <= n /\ ~(j <= 0)
    BY <1>0
  <2> QED
    BY <2>1
<1>4. ASSUME NEW i \in Int PROVE Upto(i) \ {i} = Upto(i - 1)
  <2>1. \A j \in S : j <= i - 1 <=> j <= i /\ j # i
    BY <1>0
  <2> QED
    BY <2>1
<1>5. \A i \in Int : i \in Upto(i) <=> i \in S
  BY <1>0
<1> HIDE DEF Upto
<1>6. n \in T /\ 0 \notin T
  BY <1>1, <1>3, FS_EmptySet
<1>7. PICK i \in T : \A y \in T : i <= y
  BY <1>6, LeastElement
<1>8. i \in Nat \ {0} /\ i - 1 \in Nat /\ i - 1 \notin T
  BY <1>6, <1>7
<1>9. Cardinality(Upto(i)) >= k /\ Cardinality(Upto(i - 1)) < k
  BY <1>1, <1>2, <1>8
<1>10. Cardinality(Upto(i - 1)) =
          IF i \in S THEN Cardinality(Upto(i)) - 1 ELSE Cardinality(Upto(i))
  <2>1. i \in Int /\ IsFiniteSet(Upto(i)) /\ (i \in Upto(i) <=> i \in S)
    BY <1>2, <1>5, <1>8
  <2>2. Upto(i) \ {i} = Upto(i - 1)
    BY <1>4, <2>1
  <2> QED
    BY <2>1, <2>2, FS_RemoveElement
<1> QED
  BY <1>2, <1>8, <1>9, <1>10

-----------------------------------------------------------------------------
(***************************************************************************)
(* Queues and bursts.                                                      *)
(***************************************************************************)
LEMMA PutLen ==
    ASSUME NEW T, NEW q \in Seq(T), NEW a \in Seq(T)
    PROVE  Len(Put(q, a)) <= SockBuf
<1>1. q \o a \in Seq(T) /\ Len(q \o a) \in Nat /\ SockBuf \in Nat
  BY SockBufAssumption
<1>2. CASE Len(q \o a) <= SockBuf
  BY <1>2 DEF Put
<1>3. CASE ~(Len(q \o a) <= SockBuf)
  <2>1. Put(q, a) = SubSeq(q \o a, 1, SockBuf)
    BY <1>3 DEF Put
  <2>2. Len(SubSeq(q \o a, 1, SockBuf)) = SockBuf
    BY <1>1, <1>3
  <2> QED
    BY <1>1, <2>1, <2>2
<1> QED
  BY <1>2, <1>3

(* A burst consists of the acknowledgements that are present.              *)
LEMMA BurstFacts ==
    ASSUME maxW \in Nat, NEW T, NEW t, \A i \in 1..maxW : t[i].ws = i => t[i] \in T
    PROVE  Burst(t) \in Seq(T)
<1> DEFINE n == Cardinality(Present(t))
<1>1. Present(t) \in SUBSET (1..maxW)
  BY DEF Present
<1>2. n \in Nat /\ \A k \in 1..n : Nth(Present(t), k) \in Present(t)
  BY <1>1, NthFacts
<1>3. \A k \in 1..n : t[Nth(Present(t), k)] \in T
  BY <1>2 DEF Present
<1> HIDE DEF n
<1> QED
  BY <1>2, <1>3 DEF Burst, n

(* Marking the last acknowledgement keeps them answers.                    *)
LEMMA MarkLastReady ==
    ASSUME maxW \in Nat, NEW t \in [1..maxW -> AckRecord],
           \A i \in 1..maxW : t[i].ws = i => t[i] \in Answer
    PROVE  \A i \in 1..maxW : MarkLast(t)[i].ws = i => MarkLast(t)[i] \in Answer
<1> SUFFICES ASSUME NEW i \in 1..maxW, MarkLast(t)[i].ws = i
             PROVE  MarkLast(t)[i] \in Answer
  OBVIOUS
<1>1. t[i] \in AckRecord /\ t[i].ws = i
  BY MarkLastFacts
<1>2. t[i] \in Answer
  BY <1>1
<1>3. \/ MarkLast(t)[i] = t[i]
      \/ MarkLast(t)[i] = [t[i] EXCEPT !.last = 1]
  BY DEF MarkLast
<1> QED
  BY <1>2, <1>3 DEF Answer, Packet

-----------------------------------------------------------------------------
(***************************************************************************)
(* The invariant.                                                          *)
(***************************************************************************)
AnswersInv ==
    /\ Inv
    /\ AnswersReady
    /\ s2e \in Seq(Answer)
    /\ Len(s2e) <= SockBuf /\ Len(e2s) <= SockBuf

Ready(t) == \A i \in 1..maxW : t[i].ws = i => t[i] \in Answer

(* An acknowledgement that is written away is no longer there.             *)
LEMMA WrittenReady ==
    ASSUME maxW \in Nat, NEW t \in [1..maxW -> AckRecord], Ready(t)
    PROVE  Ready([t EXCEPT ![1] = ZeroAck])
BY DEF Ready, ZeroAck

(* The acknowledgements after a data packet.                               *)
LEMMA AcknowledgedReady ==
    ASSUME AnswersInv, maxW # 0, NEW p \in ClientPacket, p.type = DATA,
           NEW t, t = IF AnswersNow(p) THEN MarkLast(Acknowledged(p))
                      ELSE Acknowledged(p)
    PROVE  t \in [1..maxW -> AckRecord] /\ Ready(t)
<1>1. maxW \in Nat /\ maxW = Window
  BY InvSizes DEF AnswersInv
<1>2. garbage \in [last : {0, 1}, re : {0, 1}] /\ trn \in [1..maxW -> AckRecord]
  BY DEF AnswersInv, Inv, StateTypeOK
<1>3. p.ws \in 1..maxW /\ p.seq \in Nat /\ p.seq > 0
  BY <1>1 DEF ClientPacket, Packet, DATA, SYN
<1>4. AckFor(p) \in AckRecord
  BY <1>1, <1>2, AckForType
<1>5. Acknowledged(p) \in [1..maxW -> AckRecord]
  BY <1>2, <1>3, <1>4 DEF Acknowledged
<1>6. Ready(trn)
  BY DEF AnswersInv, AnswersReady, Ready
<1>7. /\ AckFor(p).type = ACK /\ AckFor(p).ws = p.ws
      /\ AckFor(p).ack > 0
  <2>1. maxW * maxW \in Nat
    BY <1>1
  <2> HIDE <1>1
  <2> QED
    BY <1>3, <2>1 DEF AckFor
<1>8. AckFor(p) \in Packet
  BY <1>4, <1>7 DEF AckRecord, Packet, ACK, SYN, SYNACK, DATA, EOT
<1>9. p.ws # maxW => AckFor(p) \in Answer
  BY <1>1, <1>3, <1>7, <1>8 DEF Answer, ACK, SYNACK
<1>10. [AckFor(p) EXCEPT !.last = 1] \in Answer
  BY <1>1, <1>3, <1>7, <1>8 DEF Answer, Packet, ACK, SYNACK
<1>11. CASE ~AnswersNow(p)
  <2>1. p.ws # maxW
    BY <1>11 DEF AnswersNow
  <2> QED
    BY <1>2, <1>3, <1>5, <1>6, <1>9, <1>11, <2>1 DEF Acknowledged, Ready
<1>12. CASE AnswersNow(p)
  <2>1. t = MarkLast(Acknowledged(p)) /\ t \in [1..maxW -> AckRecord]
    BY <1>1, <1>5, <1>12, MarkLastFacts
  <2> SUFFICES ASSUME NEW i \in 1..maxW, t[i].ws = i PROVE t[i] \in Answer
    BY <2>1 DEF Ready
  <2>2. Acknowledged(p)[i].ws = i
    BY <1>1, <1>5, <2>1, MarkLastFacts
  <2>3. CASE Acknowledged(p)[i] = trn[i]
    <3>1. trn[i] \in Answer
      BY <1>6, <2>2, <2>3 DEF Ready
    <3> QED
      BY <2>1, <2>3, <3>1 DEF MarkLast, Answer, Packet
  <2>4. CASE Acknowledged(p)[i] # trn[i]
    <3>1. Acknowledged(p)[i] = AckFor(p) /\ i = p.ws
      BY <1>2, <1>3, <2>4 DEF Acknowledged
    <3>2. t[i] = IF i = maxW THEN [AckFor(p) EXCEPT !.last = 1] ELSE AckFor(p)
      BY <1>7, <2>1, <3>1 DEF MarkLast
    <3> QED
      BY <1>9, <1>10, <3>1, <3>2
  <2> QED
    BY <2>3, <2>4
<1> QED
  BY <1>11, <1>12

(* What a step has to leave behind besides Inv.                            *)
Kept ==
    /\ AnswersReady'
    /\ s2e' \in Seq(Answer) /\ Len(s2e') <= SockBuf

LEMMA BurstSent ==
    ASSUME maxW \in Nat, s2e \in Seq(Answer), NEW t, Ready(t),
           s2e' = Put(s2e, Burst(t))
    PROVE  s2e' \in Seq(Answer) /\ Len(s2e') <= SockBuf
<1>1. Burst(t) \in Seq(Answer)
  BY BurstFacts DEF Ready
<1> QED
  BY <1>1, PutType, PutLen

LEMMA DataAnswers ==
    ASSUME AnswersInv, NEW p \in ClientPacket, ReceiveData(p)
    PROVE  Kept
<1> DEFINE t == IF AnswersNow(p) THEN MarkLast(Acknowledged(p)) ELSE Acknowledged(p)
<1>1. maxW \in Nat /\ maxW # 0 /\ p.type = DATA
  BY InvSizes DEF AnswersInv, ReceiveData
<1>2. t \in [1..maxW -> AckRecord] /\ Ready(t)
  BY <1>1, AcknowledgedReady
<1>3. /\ prev'.type = ACK /\ maxW' = maxW
      /\ s2e' = IF AnswersNow(p) THEN Put(s2e, Burst(t)) ELSE s2e
      /\ trn' = t \/ trn' = [t EXCEPT ![1] = ZeroAck]
  BY DEF ReceiveData, AckFor, Write
<1> HIDE DEF t
<1>4. AnswersReady'
  <2>1. Ready([t EXCEPT ![1] = ZeroAck])
    BY <1>1, <1>2, WrittenReady
  <2>2. Ready(trn')
    BY <1>2, <1>3, <2>1
  <2> QED
    BY <1>3, <2>2 DEF AnswersReady, Ready, ACK, SYNACK
<1>5. s2e' \in Seq(Answer) /\ Len(s2e') <= SockBuf
  BY <1>1, <1>2, <1>3, BurstSent DEF AnswersInv
<1> QED
  BY <1>4, <1>5 DEF Kept

LEMMA EotAnswers ==
    ASSUME AnswersInv, NEW p \in ClientPacket, ReceiveEot(p)
    PROVE  Kept
<1>1. maxW \in Nat /\ trn \in [1..maxW -> AckRecord] /\ Ready(trn)
  BY InvSizes DEF AnswersInv, Inv, StateTypeOK, AnswersReady, Ready
<1>2. MarkLast(trn) \in [1..maxW -> AckRecord] /\ Ready(MarkLast(trn))
  BY <1>1, MarkLastFacts, MarkLastReady DEF Ready
<1>3. /\ UNCHANGED <<prev, maxW>>
      /\ s2e' = Put(s2e, Burst(MarkLast(trn)))
      /\ trn' = MarkLast(trn) \/ trn' = [MarkLast(trn) EXCEPT ![1] = ZeroAck]
  BY DEF ReceiveEot, Write
<1>4. AnswersReady'
  <2>1. Ready([MarkLast(trn) EXCEPT ![1] = ZeroAck])
    BY <1>1, <1>2, WrittenReady
  <2>2. Ready(trn')
    BY <1>2, <1>3, <2>1
  <2> QED
    BY <1>3, <2>2 DEF AnswersInv, AnswersReady, Ready
<1>5. s2e' \in Seq(Answer) /\ Len(s2e') <= SockBuf
  BY <1>1, <1>2, <1>3, BurstSent DEF AnswersInv
<1> QED
  BY <1>4, <1>5 DEF Kept

LEMMA TooEarlyAnswers ==
    ASSUME AnswersInv, NEW p \in ClientPacket, ReceiveTooEarly(p)
    PROVE  Kept
BY DEF AnswersInv, ReceiveTooEarly, Kept, AnswersReady

LEMMA SynAnswers ==
    ASSUME AnswersInv, NEW p \in ClientPacket, ReceiveSyn(p)
    PROVE  Kept
<1>1. maxW' = Window /\ Window \in Nat \ {0}
  BY SynSizes, WindowFacts
<1>2. garbage \in [last : {0, 1}, re : {0, 1}]
  BY DEF AnswersInv, Inv, StateTypeOK
<1>3. CASE p.seq # prev.seq
  <2>1. /\ prev' = SynAckFor(p, Window)
        /\ s2e' = Put(s2e, <<prev'>>)
        /\ trn' = [i \in 1..Window |-> ZeroAck]
    BY <1>1, <1>3 DEF ReceiveSyn
  <2>2. prev' \in Answer
    BY <1>1, <1>2, <2>1
       DEF SynAckFor, ClientPacket, Packet, Payload, Answer, SYNACK, ACK, SYN, DATA, EOT
  <2>3. <<prev'>> \in Seq(Answer)
    BY <2>2
  <2>4. s2e' \in Seq(Answer) /\ Len(s2e') <= SockBuf
    BY <2>1, <2>3, PutType, PutLen DEF AnswersInv
  <2>5. AnswersReady'
    BY <1>1, <2>1, <2>2 DEF AnswersReady, ZeroAck
  <2> QED
    BY <2>4, <2>5 DEF Kept
<1>4. CASE p.seq = prev.seq
  <2>1. maxW = Window
    BY <1>4 DEF AnswersInv, Inv, Sized, ClientPacket
  <2>2. trn \in [1..maxW -> AckRecord] /\ Ready(trn)
    BY DEF AnswersInv, Inv, StateTypeOK, AnswersReady, Ready
  <2>3. Ready(MarkLast(trn))
    BY <1>1, <2>1, <2>2, MarkLastReady DEF Ready
  <2>4. /\ prev' = [prev EXCEPT !.re = 1]
        /\ trn' = trn \/ trn' = MarkLast(trn)
        /\ s2e' = s2e \/ s2e' = Put(s2e, Burst(trn'))
    BY <1>4 DEF ReceiveSyn
  <2>5. Ready(trn')
    BY <2>2, <2>3, <2>4
  <2>6. s2e' \in Seq(Answer) /\ Len(s2e') <= SockBuf
    BY <1>1, <2>1, <2>4, <2>5, BurstSent DEF AnswersInv
  <2>7. prev \in AckRecord
    BY DEF AnswersInv, Inv, StateTypeOK
  <2>8. prev'.type = SYNACK => prev' \in Answer
    BY <2>4, <2>7 DEF AnswersInv, AnswersReady, AckRecord, Answer, Packet
  <2> QED
    BY <1>1, <2>1, <2>5, <2>6, <2>8 DEF Kept, AnswersReady, Ready
<1> QED
  BY <1>3, <1>4

LEMMA TimeoutAnswers ==
    ASSUME AnswersInv, Timeout
    PROVE  Kept
<1>1. maxW \in Nat /\ maxW' = maxW
  BY InvSizes DEF AnswersInv, Timeout
<1>2. /\ prev \in AckRecord /\ trn \in [1..maxW -> AckRecord]
      /\ Ready(trn) /\ s2e \in Seq(Answer)
  BY DEF AnswersInv, Inv, StateTypeOK, AnswersReady, Ready
<1>3. CASE prev.type = SYNACK
  <2>1. /\ prev' = [prev EXCEPT !.re = 1] /\ trn' = trn
        /\ s2e' = Put(s2e, <<prev'>>)
    BY <1>3 DEF Timeout
  <2>2. prev' \in Answer
    BY <1>2, <1>3, <2>1 DEF AnswersInv, AnswersReady, AckRecord, Answer, Packet
  <2>3. <<prev'>> \in Seq(Answer)
    BY <2>2
  <2>4. s2e' \in Seq(Answer) /\ Len(s2e') <= SockBuf
    BY <1>2, <2>1, <2>3, PutType, PutLen
  <2> QED
    BY <1>1, <1>2, <2>1, <2>2, <2>4 DEF Kept, AnswersReady, Ready
<1>4. CASE prev.type # SYNACK
  <2>1. /\ prev' = prev
        /\ trn' = [i \in 1..maxW |-> IF trn[i].ws = i
                                     THEN [trn[i] EXCEPT !.re = 1] ELSE trn[i]]
        /\ s2e' = Put(s2e, Burst(trn'))
    BY <1>4 DEF Timeout
  <2>2. ASSUME NEW i \in 1..maxW, trn'[i].ws = i PROVE trn'[i] \in Answer
    <3>1. trn[i] \in AckRecord /\ trn[i].ws = i
      BY <1>2, <2>1, <2>2 DEF AckRecord
    <3>2. trn'[i] = [trn[i] EXCEPT !.re = 1] /\ trn[i] \in Answer
      BY <1>2, <2>1, <3>1 DEF Ready
    <3> QED
      BY <3>2 DEF Answer, Packet
  <2>3. Ready(trn')
    BY <2>2 DEF Ready
  <2>4. s2e' \in Seq(Answer) /\ Len(s2e') <= SockBuf
    BY <1>1, <1>2, <2>1, <2>3, BurstSent
  <2> QED
    BY <1>1, <1>4, <2>1, <2>3, <2>4 DEF Kept, AnswersReady, Ready
<1> QED
  BY <1>3, <1>4

LEMMA AnswersInit == Init => AnswersInv
<1> SUFFICES ASSUME Init PROVE AnswersInv
  OBVIOUS
<1>1. Inv
  BY InitInv
<1>2. AnswersReady
  BY DEF Init, AnswersReady, ZeroAck, SYNACK
<1>3. s2e \in Seq(Answer) /\ Len(s2e) <= SockBuf /\ Len(e2s) <= SockBuf
  BY SockBufAssumption DEF Init
<1> QED
  BY <1>1, <1>2, <1>3 DEF AnswersInv

(* Taking a datagram off a queue shortens it.                              *)
LEMMA TailLen ==
    ASSUME NEW T, NEW q \in Seq(T), q # <<>>, Len(q) <= SockBuf
    PROVE  Head(q) \in T /\ Tail(q) \in Seq(T) /\ Len(Tail(q)) <= SockBuf
<1>1. Len(q) \in Nat /\ SockBuf \in Nat
  BY SockBufAssumption
<1> QED
  BY <1>1, HeadTailProperties

LEMMA ReceiveAnswers ==
    ASSUME AnswersInv, Receive
    PROVE  Kept /\ Len(e2s') <= SockBuf
<1> DEFINE p == Head(e2s)
<1>1. p \in ClientPacket /\ Len(e2s') <= SockBuf
  BY TailLen DEF AnswersInv, Inv, StateTypeOK, Receive
<1>2. \/ ReceiveSyn(p) \/ ReceiveData(p)
      \/ ReceiveEot(p) \/ ReceiveTooEarly(p)
  BY DEF Receive
<1> HIDE DEF p
<1> QED
  BY <1>1, <1>2, SynAnswers, DataAnswers, EotAnswers, TooEarlyAnswers

(* A step of the queues alone.                                             *)
LEMMA QueueAnswers ==
    ASSUME AnswersInv, UNCHANGED serverVars,
           s2e' \in Seq(Answer), Len(s2e') <= SockBuf
    PROVE  Kept
BY DEF AnswersInv, AnswersReady, Kept, serverVars

LEMMA AnswersNext == AnswersInv /\ [Next]_vars => AnswersInv'
<1> SUFFICES ASSUME AnswersInv, [Next]_vars PROVE AnswersInv'
  OBVIOUS
<1>1. Inv'
  BY NextInv DEF AnswersInv
<1>2. /\ e2s \in Seq(ClientPacket) /\ s2e \in Seq(Answer)
      /\ Len(e2s) <= SockBuf /\ Len(s2e) <= SockBuf
  BY DEF AnswersInv, Inv, StateTypeOK
<1>3. CASE Receive
  BY <1>1, <1>3, ReceiveAnswers DEF AnswersInv, Kept
<1>4. CASE Timeout
  <2>1. e2s' = e2s
    BY <1>4 DEF Timeout
  <2> QED
    BY <1>1, <1>2, <1>4, <2>1, TimeoutAnswers DEF AnswersInv, Kept
<1>5. CASE Arrive
  <2>1. PICK q \in Inputs : e2s' = Put(e2s, <<q>>)
    BY <1>5 DEF Arrive
  <2>2. <<q>> \in Seq(ClientPacket)
    BY InputsAssumption
  <2>3. Len(e2s') <= SockBuf
    BY <1>2, <2>1, <2>2, PutLen
  <2> QED
    BY <1>1, <1>2, <1>5, <2>3, QueueAnswers DEF Arrive, AnswersInv, Kept
<1>6. CASE Collect
  <2>1. s2e' \in Seq(Answer) /\ Len(s2e') <= SockBuf /\ e2s' = e2s
    BY <1>2, <1>6, TailLen DEF Collect
  <2> QED
    BY <1>1, <1>2, <1>6, <2>1, QueueAnswers DEF Collect, AnswersInv, Kept
<1>7. CASE UNCHANGED vars
  BY <1>1, <1>2, <1>7, QueueAnswers DEF vars, AnswersInv, Kept
<1> QED
  BY <1>3, <1>4, <1>5, <1>6, <1>7 DEF Next, Step

-----------------------------------------------------------------------------
(* What the server sends can be relied on: a SYNACK has the size of the    *)
(* window, an acknowledgement names a slot of it and is marked as last for *)
(* the last one, whenever it is sent (server.c 76-92, 101-120, 236-244).   *)
THEOREM AnswersReliable == Spec => []AnswersOK
<1>1. AnswersInv => AnswersOK
  BY ElementOfSeq DEF AnswersInv, AnswersOK
<1> QED
  BY <1>1, AnswersInit, AnswersNext, PTL DEF Spec

(* The types of the server's variables and of what waits in its queues     *)
(* (server.c 54-65, 95-245).                                               *)
THEOREM ServerTypes == Spec => []TypeOK
<1>1. AnswersInv => TypeOK
  BY ElementOfSeq DEF AnswersInv, Inv, TypeOK, Answer
<1> QED
  BY <1>1, AnswersInit, AnswersNext, PTL DEF Spec

=============================================================================
