---------------------------- MODULE SystemProofs ----------------------------
(***************************************************************************)
(* The three programs together, for every file, window, noise, buffer size *)
(* and combination of versions, whatever is lost and whenever timers fire. *)
(* The server's part is that of ServerProofs and AnswerProofs; the client  *)
(* has to be shown to send what the server expects of it, the emulator to  *)
(* add nothing.                                                            *)
(***************************************************************************)
EXTENDS SendAndWait, AnswerProofs

(***************************************************************************)
(* The instances speak of the same packets and queues as module Server.    *)
(***************************************************************************)
LEMMA SameTypes ==
    /\ C!SYN = SYN /\ C!ACK = ACK /\ C!DATA = DATA /\ C!EOT = EOT
    /\ E!SYN = SYN /\ E!SYNACK = SYNACK /\ E!ACK = ACK /\ E!DATA = DATA /\ E!EOT = EOT
BY DEF C!SYN, C!ACK, C!DATA, C!EOT, SYN, SYNACK, ACK, DATA, EOT,
       E!SYN, E!SYNACK, E!ACK, E!DATA, E!EOT

LEMMA SameSizes == C!TotalPacketCount = TotalPacketCount
BY DEF C!TotalPacketCount, TotalPacketCount

LEMMA SamePacket == C!Packet = Packet
BY DEF C!Packet, Packet, C!Payload, Payload, C!Chunks, Chunks,
       C!SYN, C!SYNACK, C!ACK, C!DATA, C!EOT, SYN, SYNACK, ACK, DATA, EOT

LEMMA SamePut == \A q, a : C!Put(q, a) = Put(q, a) /\ E!Put(q, a) = Put(q, a)
BY DEF C!Put, E!Put, Put

(* One more packet in a queue, if there is room, or none.                  *)
LEMMA PutOne ==
    ASSUME NEW T, NEW q \in Seq(T), Len(q) <= SockBuf, NEW p \in T
    PROVE  /\ Put(q, <<p>>) = IF Len(q) < SockBuf THEN Append(q, p) ELSE q
           /\ Put(q, <<p>>) \in Seq(T) /\ Len(Put(q, <<p>>)) <= SockBuf
<1>1. <<p>> \in Seq(T) /\ SockBuf \in Nat \ {0}
  BY SockBufAssumption
<1>2. q \o <<p>> = Append(q, p)
  BY AppendIsConcat
<1>3. Len(Append(q, p)) = Len(q) + 1 /\ Append(q, p) \in Seq(T)
  OBVIOUS
<1>4. CASE Len(q) < SockBuf
  BY <1>1, <1>2, <1>3, <1>4 DEF Put
<1>5. CASE Len(q) = SockBuf
  <2>1. Put(q, <<p>>) = SubSeq(Append(q, p), 1, Len(q))
    BY <1>1, <1>2, <1>3, <1>5 DEF Put
  <2>2. SubSeq(Append(q, p), 1, Len(q)) = q
    BY <1>3
  <2> QED
    BY <1>5, <2>1, <2>2
<1> QED
  BY <1>1, <1>4, <1>5

LEMMA PutNone ==
    ASSUME NEW T, NEW q \in Seq(T), Len(q) <= SockBuf
    PROVE  Put(q, <<>>) = q
<1>1. q \o <<>> = q
  BY ConcatEmptySeq
<1> QED
  BY <1>1 DEF Put

LEMMA SynOrBuilt ==
    /\ ClientPacket = SynPacket \cup Built
    /\ SynPacket \subseteq ClientPacket /\ Built \subseteq ClientPacket
BY DEF SynPacket, Built

-----------------------------------------------------------------------------
(***************************************************************************)
(* The emulator, in any of its versions, takes a packet from one side and  *)
(* hands it on or not.                                                     *)
(***************************************************************************)
Relays(from, to, fromNext, toNext) ==
    /\ from # <<>> /\ fromNext = Tail(from)
    /\ toNext = Put(to, <<Head(from)>>) \/ toNext = Put(to, <<>>)

RelaysUp == Relays(c2e, e2s, c2e', e2s') /\ UNCHANGED <<s2e, e2c>>
RelaysDown == Relays(s2e, e2c, s2e', e2c') /\ UNCHANGED <<c2e, e2s>>

LEMMA EmulatorRelays ==
    ASSUME EmulatorStep, E!TypeOK
    PROVE  (RelaysUp \/ RelaysDown) /\ E!TypeOK'
<1>1. CASE E!FromClient
  <2>1. RelaysUp
    BY <1>1, SamePut DEF E!FromClient, E!ForwardedUp, RelaysUp, Relays
  <2> QED
    BY <1>1, <2>1 DEF E!FromClient, E!TypeOK
<1>2. CASE E!FromServer
  <2>1. RelaysDown
    BY <1>2, SamePut DEF E!FromServer, E!ForwardedDown, RelaysDown, Relays
  <2> QED
    BY <1>2, <2>1 DEF E!FromServer, E!TypeOK
<1>3. ASSUME NEW passes \in BOOLEAN, E!EarlierFromClient(passes)
      PROVE  RelaysUp /\ E!TypeOK'
  <2>1. /\ e2s' = E!Put(e2s, <<Head(c2e)>>) \/ e2s' = E!Put(e2s, <<>>)
        /\ phase' \in {"client", "server"}
        /\ r' \in RandValues \/ r' = r
    BY <1>3 DEF E!EarlierFromClient, E!EarlierRelay
  <2>2. RelaysUp
    BY <1>3, <2>1, SamePut DEF E!EarlierFromClient, RelaysUp, Relays
  <2> QED
    BY <1>3, <2>1, <2>2 DEF E!EarlierFromClient, E!TypeOK
<1>4. E!OriginalPassesUp(Head(c2e)) \in BOOLEAN /\ E!StablePassesUp(Head(c2e)) \in BOOLEAN
  BY DEF E!OriginalPassesUp, E!StablePassesUp
<1> QED
  BY <1>1, <1>2, <1>3, <1>4
     DEF EmulatorStep, EmulatorDoes, E!Step, E!OriginalStep, E!StableStep

(* Relaying keeps both queues within what may be on them.                  *)
LEMMA RelaysTypes ==
    ASSUME NEW T, NEW from \in Seq(T), NEW to \in Seq(T),
           Len(from) <= SockBuf, Len(to) <= SockBuf,
           NEW fromNext, NEW toNext, Relays(from, to, fromNext, toNext)
    PROVE  /\ fromNext \in Seq(T) /\ Len(fromNext) <= SockBuf
           /\ toNext \in Seq(T) /\ Len(toNext) <= SockBuf
<1>1. Head(from) \in T /\ fromNext \in Seq(T) /\ Len(fromNext) <= SockBuf
  BY TailLen DEF Relays
<1>2. Put(to, <<>>) = to
  BY PutNone
<1> QED
  BY <1>1, <1>2, PutOne DEF Relays

-----------------------------------------------------------------------------
(***************************************************************************)
(* The client.  A step of it keeps its own invariant, takes at most one    *)
(* answer and sends at most one packet, of a kind the server expects.      *)
(***************************************************************************)
ClientOK == C!TypeOK /\ WindowBuilt

Speaks ==
    /\ \/ UNCHANGED c2e
       \/ InHandshake /\ \E p \in SynPacket : c2e' = Put(c2e, <<p>>)
       \/ ~InHandshake /\ \E p \in Built : c2e' = Put(c2e, <<p>>)
    /\ ~InHandshake => ~InHandshake'
    /\ UNCHANGED e2c \/ (e2c # <<>> /\ e2c' = Tail(e2c))
    /\ InHandshake /\ e2c = <<>> =>
            InHandshake' /\ \E p \in SynPacket : c2e' = Put(c2e, <<p>>)

LEMMA WindowBounds ==
    /\ TotalPacketCount \in Nat \ {0}
    /\ Window \in Nat \ {0} /\ Window <= WIN /\ Window <= TotalPacketCount
BY WindowFacts, WindowAssumption DEF Window, setMaxWindowSize

(* What the types say, in the names of this module.                        *)
LEMMA ClientTypes ==
    ASSUME ClientOK
    PROVE  /\ pc \in {"start", "handshake", "build", "send", "resend",
                      "receive", "repair", "done"}
           /\ synAck.ws \in Nat /\ synAck.ws <= Window /\ synAck.ack \in Nat
           /\ slot \in 0..synAck.ws
           /\ pc \in {"build", "send", "resend"} => slot \in 1..synAck.ws
           /\ tpc \in 0..TotalPacketCount + 2
           /\ copy \in Packet
           /\ tp \in [1..synAck.ws -> Packet]
           /\ acked \in [1..synAck.ws -> {0, 1}]
           /\ rac \in Nat
           /\ cgarbage \in [synLast : {0, 1}, synRe : {0, 1}, dataRe : {0, 1}]
           /\ timer \in BOOLEAN
<1>1. synAck.ws \in Nat /\ synAck.ws <= Window
  BY WindowBounds DEF ClientOK, C!TypeOK, WindowBuilt
<1>2. /\ cgarbage \in [synLast : {0, 1}, synRe : {0, 1}, dataRe : {0, 1}]
      /\ synAck.ack \in Nat
  BY FlagsAssumption DEF ClientOK, C!TypeOK
<1>3. /\ slot \in 0..synAck.ws
      /\ pc \in {"build", "send", "resend"} => slot \in 1..synAck.ws
  BY <1>1 DEF ClientOK, C!TypeOK, C!W
<1>4. copy \in Packet /\ tp \in [1..synAck.ws -> Packet]
      /\ tpc \in 0..TotalPacketCount + 2
  BY SamePacket, SameSizes DEF ClientOK, C!TypeOK, C!W
<1> QED
  BY <1>1, <1>2, <1>3, <1>4 DEF ClientOK, C!TypeOK, C!W

LEMMA SynSent ==
    ASSUME ClientOK, NEW re \in {0, 1} PROVE C!Syn(re) \in SynPacket
BY ClientTypes, SameTypes, SameSizes, WindowBounds, FileAssumption
   DEF C!Syn, SynPacket, ClientPacket, Packet, Payload, SYN, DATA, EOT

(* The handshake: only SYNs, until something is taken for the SYNACK.      *)
LEMMA HandshakeStep ==
    ASSUME ClientOK, C!SendSyn \/ C!SynTimeout
    PROVE  ClientOK' /\ Speaks
<1>1. /\ InHandshake /\ pc' = "handshake"
      /\ UNCHANGED <<slot, synAck, tpc, copy, tp, acked, rac, cgarbage, timer, e2c>>
  BY DEF C!SendSyn, C!SynTimeout, C!clientVars, InHandshake
<1>2. \E p \in SynPacket : c2e' = Put(c2e, <<p>>)
  <2>1. cgarbage.synRe \in {0, 1}
    BY ClientTypes
  <2> QED
    BY <2>1, SynSent, SamePut DEF C!SendSyn, C!SynTimeout
<1>3. C!TypeOK'
  BY <1>1 DEF ClientOK, C!TypeOK, C!W
<1>4. WindowBuilt'
  BY <1>1 DEF ClientOK, WindowBuilt, InHandshake
<1> QED
  <2>1. InHandshake' /\ e2c' = e2c
    BY <1>1 DEF InHandshake
  <2> QED
    BY <1>1, <1>2, <1>3, <1>4, <2>1 DEF ClientOK, Speaks

LEMMA TakeSynAckStep ==
    ASSUME ClientOK, e2c \in Seq(Answer), C!TakeSynAck, timer' \in BOOLEAN
    PROVE  ClientOK' /\ Speaks
<1> DEFINE p == Head(e2c)
<1>1. p \in Answer
  BY HeadTailProperties DEF C!TakeSynAck
<1>2. p.ws \in 1..Window /\ p.ws \in 0..WIN /\ p.ack \in Nat /\ p.ack > 0
  <2>1. p.ws \in 1..Window /\ p.ack \in Nat /\ p.ack > 0
    BY <1>1 DEF Answer, Packet
  <2> HIDE DEF p
  <2> QED
    BY <2>1, WindowBounds, WindowAssumption
<1>3. /\ InHandshake /\ e2c # <<>> /\ e2c' = Tail(e2c) /\ pc' = "build" /\ slot' = 1
      /\ synAck' = [ws |-> p.ws, ack |-> p.ack]
      /\ tp' = [i \in 1..p.ws |-> C!NoPacket]
      /\ acked' = [i \in 1..p.ws |-> 0]
      /\ UNCHANGED <<tpc, copy, rac, cgarbage, c2e>>
  BY DEF C!TakeSynAck, InHandshake
<1> HIDE DEF p
<1>4. C!NoPacket \in C!Packet
  BY DEF C!NoPacket, C!Packet, C!Payload, C!DATA
<1>5. C!TypeOK'
  BY <1>2, <1>3, <1>4 DEF ClientOK, C!TypeOK, C!W
<1>6. tpc = 0 /\ copy.type = DATA
  BY <1>3 DEF ClientOK, WindowBuilt, C!NoPacket, C!DATA, DATA
<1>7. WindowBuilt'
  BY <1>2, <1>3, <1>6, WindowBounds DEF ClientOK, WindowBuilt, InHandshake
<1> QED
  BY <1>3, <1>5, <1>7 DEF ClientOK, Speaks

(* What is built is a data packet or, in its turn, EOT.                    *)
LEMMA UnstampedFacts ==
    ASSUME ClientOK, pc = "build", NEW u, u = C!Unstamped
    PROVE  /\ u \in Packet /\ u.seq > 0
           /\ u.data \in Chunks \cup {Blank}
           /\ u.type = IF tpc = TotalPacketCount + 1 THEN EOT ELSE DATA
           /\ u.type = EOT => u.last = 1
<1>1. /\ tpc \in Nat /\ tpc <= TotalPacketCount + 1
      /\ synAck.ws \in Nat /\ synAck.ack \in Nat /\ synAck.ack > 0
      /\ TotalPacketCount \in Nat \ {0} /\ C!TotalPacketCount = TotalPacketCount
  BY ClientTypes, WindowBounds, SameSizes DEF ClientOK, WindowBuilt, InHandshake
<1>2. \A k \in 1..TotalPacketCount : File[k] \in Chunks
  BY FileAssumption DEF Chunks, TotalPacketCount
<1>3. Chunks \subseteq Payload /\ Blank \in Payload
  BY DEF Payload
<1>4. CASE tpc = 0
  <2>1. copy = C!NoPacket
    BY <1>4 DEF ClientOK, WindowBuilt
  <2>2. u = [C!NoPacket EXCEPT !.seq = synAck.ack, !.ack = synAck.ws, !.data = File[1]]
    BY <1>1, <1>4, <2>1 DEF C!Unstamped, C!NoPacket, C!W
  <2>3. u = [type |-> DATA, seq |-> synAck.ack, ack |-> synAck.ws, ws |-> 0,
             data |-> File[1], last |-> 0, re |-> 0]
    BY <2>2 DEF C!NoPacket, C!DATA, DATA
  <2>4. File[1] \in Chunks
    BY <1>1, <1>2
  <2> HIDE <2>2
  <2> QED
    BY <1>1, <1>3, <1>4, <2>3, <2>4 DEF Packet, DATA, EOT
<1>5. CASE tpc # 0
  <2>1. copy \in Built /\ copy.type = DATA
    BY <1>1, <1>5 DEF ClientOK, WindowBuilt
  <2>2. /\ copy \in Packet /\ copy.seq \in Nat /\ copy.seq > 0 /\ copy.ack \in Nat
        /\ copy.data \in Chunks \cup {Blank}
    BY <2>1 DEF Built, ClientPacket, Packet, Payload
  <2>3. u = CASE tpc < TotalPacketCount ->
                    [copy EXCEPT !.seq = copy.seq + synAck.ws,
                                 !.ack = copy.ack + synAck.ws,
                                 !.data = File[tpc + 1]]
              [] tpc = TotalPacketCount + 1 ->
                    [copy EXCEPT !.type = EOT, !.seq = copy.seq + synAck.ws,
                                 !.ack = 0, !.data = Blank, !.last = 1]
              [] OTHER -> copy
    BY <1>1, <2>2 DEF C!Unstamped, C!W, C!EOT, EOT
  <2>4. CASE tpc < TotalPacketCount
    <3>1. u = [copy EXCEPT !.seq = copy.seq + synAck.ws,
                           !.ack = copy.ack + synAck.ws, !.data = File[tpc + 1]]
      BY <1>1, <2>3, <2>4
    <3>2. File[tpc + 1] \in Chunks
      BY <1>1, <1>2, <2>4
    <3>3. /\ copy.seq + synAck.ws \in Nat /\ copy.seq + synAck.ws > 0
          /\ copy.ack + synAck.ws \in Nat
      BY <1>1, <2>2
    <3>4. u \in Packet
      BY <1>3, <2>2, <3>1, <3>2, <3>3 DEF Packet
    <3>5. /\ u.seq = copy.seq + synAck.ws /\ u.data = File[tpc + 1]
          /\ u.type = copy.type
      BY <2>2, <3>1 DEF Packet
    <3> QED
      BY <1>1, <2>1, <2>4, <3>2, <3>3, <3>4, <3>5 DEF DATA, EOT
  <2>5. CASE tpc = TotalPacketCount
    <3>1. u = copy
      BY <1>1, <2>3, <2>5
    <3> QED
      BY <1>1, <2>1, <2>2, <2>5, <3>1 DEF DATA, EOT
  <2>6. CASE tpc = TotalPacketCount + 1
    <3>1. u = [copy EXCEPT !.type = EOT, !.seq = copy.seq + synAck.ws,
                           !.ack = 0, !.data = Blank, !.last = 1]
      BY <1>1, <2>3, <2>6
    <3>2. copy.seq + synAck.ws \in Nat /\ copy.seq + synAck.ws > 0
      BY <1>1, <2>2
    <3>3. u \in Packet
      <4>1. u = [type |-> EOT, seq |-> copy.seq + synAck.ws, ack |-> 0,
                 ws |-> copy.ws, data |-> Blank, last |-> 1, re |-> copy.re]
        BY <2>2, <3>1 DEF Packet
      <4>2. copy.ws \in Nat /\ copy.re \in {0, 1}
        BY <2>2 DEF Packet
      <4> QED
        BY <1>3, <3>2, <4>1, <4>2 DEF Packet
    <3>4. /\ u.seq = copy.seq + synAck.ws /\ u.data = Blank
          /\ u.type = EOT /\ u.last = 1
      BY <2>2, <3>1 DEF Packet
    <3> QED
      BY <2>6, <3>2, <3>3, <3>4
  <2> QED
    BY <1>1, <2>4, <2>5, <2>6
<1> QED
  BY <1>4, <1>5

LEMMA NextBuilt ==
    ASSUME ClientOK, pc = "build", NEW p \in {C!NextPacket, C!NextPacketInSlot}
    PROVE  /\ p \in Built
           /\ p.type = IF tpc = TotalPacketCount + 1 THEN EOT ELSE DATA
<1> DEFINE u == C!Unstamped
<1>1. /\ u \in Packet /\ u.seq > 0
      /\ u.data \in Chunks \cup {Blank}
      /\ u.type = IF tpc = TotalPacketCount + 1 THEN EOT ELSE DATA
      /\ u.type = EOT => u.last = 1
  BY UnstampedFacts
<1>2. /\ synAck.ws \in 1..Window /\ Window \in Nat
      /\ slot \in 1..Window /\ cgarbage.dataRe \in {0, 1}
  BY ClientTypes, WindowBounds DEF ClientOK, WindowBuilt, InHandshake
<1>3. PICK w \in 1..Window, d \in {u.data, Blank} :
         p = [u EXCEPT !.ws = w, !.data = d, !.re = cgarbage.dataRe]
  BY <1>2 DEF C!NextPacket, C!NextPacketInSlot, C!W
<1>4. Junk \notin Chunks \cup {Blank}
  BY FileAssumption DEF Chunks
<1> HIDE DEF u
<1>5. d \in Payload /\ d # Junk
  BY <1>1, <1>4 DEF Payload
<1>6. p \in Packet /\ p.data = d /\ p.seq = u.seq /\ p.type = u.type
      /\ p.last = u.last /\ p.ws = w
  <2>1. w \in Nat
    BY <1>2
  <2> HIDE <1>2
  <2>2. cgarbage.dataRe \in {0, 1}
    BY ClientTypes
  <2> QED
    BY <1>1, <1>3, <1>5, <2>1, <2>2 DEF Packet
<1> QED
  BY <1>1, <1>5, <1>6 DEF Built, ClientPacket, DATA, EOT, SYN

(* What is known when the window is built.                                 *)
LEMMA KnownWindow ==
    ASSUME ClientOK, ~InHandshake
    PROVE  /\ synAck.ws \in 1..Window /\ synAck.ws \in Nat
           /\ synAck.ws <= TotalPacketCount
BY WindowBounds DEF ClientOK, WindowBuilt

LEMMA BuildStep ==
    ASSUME ClientOK, NEW p \in {C!NextPacket, C!NextPacketInSlot}, C!BuildWith(p)
    PROVE  ClientOK' /\ Speaks
<1>1. /\ pc = "build" /\ copy' = p /\ tp' = [tp EXCEPT ![slot] = p] /\ tpc' = tpc + 1
      /\ IF slot = synAck.ws \/ p.type = EOT
         THEN pc' = "send" /\ slot' = 1 ELSE slot' = slot + 1 /\ pc' = pc
      /\ UNCHANGED <<synAck, acked, rac, cgarbage, timer, c2e, e2c>>
  BY SameTypes DEF C!BuildWith, C!W
<1>2. p \in Built /\ p.type = IF tpc = TotalPacketCount + 1 THEN EOT ELSE DATA
  BY <1>1, NextBuilt
<1>3. p \in Packet
  BY <1>2 DEF Built, ClientPacket
<1>4. /\ tpc \in Nat /\ tpc <= TotalPacketCount + 1 /\ TotalPacketCount \in Nat
      /\ tp \in [1..synAck.ws -> Packet] /\ slot \in 1..synAck.ws
  BY <1>1, ClientTypes, WindowBounds DEF ClientOK, WindowBuilt
<1>5. ~InHandshake /\ ~InHandshake' /\ synAck.ws \in Nat /\ synAck.ws <= TotalPacketCount
  BY <1>1, KnownWindow DEF InHandshake
<1>6. tp' \in [1..synAck.ws -> Packet]
  BY <1>1, <1>3, <1>4
<1>7. slot' \in 1..synAck.ws
  BY <1>1, <1>4, <1>5
<1>8. C!TypeOK'
  <2>1. tpc' \in 0..TotalPacketCount + 2
    BY <1>1, <1>4
  <2>2. slot' \in 0..synAck.ws /\ slot' > 0
    BY <1>5, <1>7
  <2> QED
    BY <1>1, <1>3, <1>6, <2>1, <2>2, SamePacket, SameSizes DEF ClientOK, C!TypeOK, C!W
<1>9. \/ tpc = slot - 1 /\ \A i \in 1..slot - 1 : tp[i] \in Built
      \/ \A i \in 1..synAck.ws : tp[i] \in Built
  BY <1>1 DEF ClientOK, WindowBuilt
<1>10. \A i \in 1..synAck.ws : tp'[i] = IF i = slot THEN p ELSE tp[i]
  BY <1>1, <1>4
<1>11. CASE slot = synAck.ws \/ p.type = EOT
  <2>1. \A i \in 1..synAck.ws : tp'[i] \in Built
    <3>1. CASE \A i \in 1..synAck.ws : tp[i] \in Built
      BY <1>2, <1>10, <3>1
    <3>2. CASE tpc = slot - 1 /\ \A i \in 1..slot - 1 : tp[i] \in Built
      <4>1. slot = synAck.ws
        <5>1. CASE p.type = EOT
          BY <1>2, <1>4, <1>5, <3>2, <5>1 DEF DATA, EOT
        <5> QED
          BY <1>11, <5>1
      <4>2. \A i \in 1..synAck.ws : i = slot \/ i \in 1..slot - 1
        BY <1>5, <4>1
      <4> QED
        BY <1>2, <1>10, <3>2, <4>2
    <3> QED
      BY <1>9, <3>1, <3>2
  <2>2. tpc' <= TotalPacketCount + 1 => p.type = DATA
    BY <1>1, <1>2, <1>4
  <2> QED
    BY <1>1, <1>2, <1>4, <1>5, <1>8, <1>11, <2>1, <2>2
       DEF ClientOK, WindowBuilt, Speaks
<1>12. CASE ~(slot = synAck.ws \/ p.type = EOT)
  <2>1. p.type = DATA /\ tpc' <= TotalPacketCount + 1 /\ tpc' # 0
    BY <1>1, <1>2, <1>4, <1>12
  <2>2. \/ tpc' = slot' - 1 /\ \A i \in 1..slot' - 1 : tp'[i] \in Built
        \/ \A i \in 1..synAck.ws : tp'[i] \in Built
    <3>1. CASE \A i \in 1..synAck.ws : tp[i] \in Built
      BY <1>2, <1>10, <3>1
    <3>2. CASE tpc = slot - 1 /\ \A i \in 1..slot - 1 : tp[i] \in Built
      <4>1. slot' - 1 = slot /\ tpc' = slot' - 1
        BY <1>1, <1>4, <1>5, <1>12, <3>2
      <4>2. \A i \in 1..slot' - 1 : i \in 1..synAck.ws /\ (i = slot \/ i \in 1..slot - 1)
        BY <1>4, <1>5, <4>1
      <4> QED
        BY <1>2, <1>10, <3>2, <4>1, <4>2
    <3> QED
      BY <1>9, <3>1, <3>2
  <2> QED
    BY <1>1, <1>2, <1>5, <1>8, <1>12, <2>1, <2>2 DEF ClientOK, WindowBuilt, Speaks
<1> QED
  BY <1>11, <1>12

(* Sending a packet of the window, for the first time or again.            *)
LEMMA SendingStep ==
    ASSUME ClientOK, pc \in {"send", "resend"},
           NEW p \in Built, C!Sending(p),
           NEW finished \in BOOLEAN, C!ThenReceive(finished),
           slot = synAck.ws => finished,
           UNCHANGED <<synAck, tpc, copy, cgarbage, timer, e2c>>
    PROVE  ClientOK' /\ Speaks
<1>1. /\ tp' = [tp EXCEPT ![slot] = p] /\ acked' = [acked EXCEPT ![slot] = 0]
      /\ c2e' = Put(c2e, <<p>>)
      /\ IF finished THEN pc' = "receive" /\ rac' = 0 /\ slot' = 0
         ELSE slot' = slot + 1 /\ pc' = pc /\ rac' = rac
  BY SamePut DEF C!Sending, C!ThenReceive
<1>2. /\ tp \in [1..synAck.ws -> Packet] /\ acked \in [1..synAck.ws -> {0, 1}]
      /\ slot \in 1..synAck.ws /\ rac \in Nat
  BY ClientTypes
<1>3. ~InHandshake /\ ~InHandshake' /\ synAck.ws \in Nat
  BY <1>1, KnownWindow DEF InHandshake
<1>4. p \in Packet
  BY DEF Built, ClientPacket
<1>5. tp' \in [1..synAck.ws -> Packet] /\ acked' \in [1..synAck.ws -> {0, 1}]
  BY <1>1, <1>2, <1>4
<1>6. /\ slot' \in 0..synAck.ws /\ rac' \in Nat
      /\ pc' \in {"send", "resend", "receive"}
      /\ pc' # "receive" => slot' > 0
  BY <1>1, <1>2, <1>3
<1>7. C!TypeOK'
  BY <1>5, <1>6, SamePacket DEF ClientOK, C!TypeOK, C!W
<1>8. \A i \in 1..synAck.ws : tp'[i] \in Built
  <2>1. \A i \in 1..synAck.ws : tp[i] \in Built
    BY DEF ClientOK, WindowBuilt
  <2> QED
    BY <1>1, <1>2, <2>1
<1> QED
  BY <1>1, <1>3, <1>4, <1>6, <1>7, <1>8 DEF ClientOK, WindowBuilt, Speaks

LEMMA SendStep ==
    ASSUME ClientOK, C!Send \/ C!EarlierSend \/ C!Resend \/ C!EarlierResend
    PROVE  ClientOK' /\ Speaks
<1> DEFINE q == tp[slot]
<1>1. pc \in {"send", "resend"}
  BY DEF C!Send, C!EarlierSend, C!Resend, C!EarlierResend
<1>2. q \in Built /\ C!EOT = EOT
  BY <1>1, ClientTypes, SameTypes DEF ClientOK, WindowBuilt
<1>3. ASSUME NEW last \in {0, 1}, NEW re \in {0, 1}, q.type = EOT => last = 1
      PROVE  /\ [q EXCEPT !.last = last, !.re = re] \in Built
             /\ [q EXCEPT !.last = last] \in Built
             /\ [q EXCEPT !.last = 1] \in Built
  <2> HIDE DEF q
  <2> QED
    BY <1>2, <1>3 DEF Built, ClientPacket, Packet
<1>4. CASE C!Send \/ C!EarlierSend
  <2> DEFINE final == slot = C!W \/ q.type = C!EOT
             p == IF C!Send
                  THEN IF final THEN [q EXCEPT !.last = 1]
                       ELSE [q EXCEPT !.last = 0, !.re = 0]
                  ELSE [q EXCEPT !.last = IF final THEN 1 ELSE 0]
  <2>1. p \in Built
    BY <1>2, <1>3
  <2>2. /\ C!Sending(p) /\ C!ThenReceive(final)
        /\ UNCHANGED <<synAck, tpc, copy, cgarbage, timer, e2c>>
    BY <1>4 DEF C!Send, C!EarlierSend
  <2>3. final \in BOOLEAN /\ (slot = synAck.ws => final)
    BY DEF C!W
  <2> QED
    BY <1>1, <2>1, <2>2, <2>3, SendingStep
<1>5. CASE C!Resend \/ C!EarlierResend
  <2> DEFINE final == slot = C!W
             last == IF final THEN 1 ELSE q.last
             p == IF C!Resend THEN [q EXCEPT !.re = 1, !.last = last]
                  ELSE [q EXCEPT !.last = last]
  <2>1. last \in {0, 1} /\ (q.type = EOT => last = 1)
    BY <1>2 DEF Built, ClientPacket, Packet
  <2>2. p \in Built
    BY <1>3, <2>1
  <2>3. /\ C!Sending(p) /\ C!ThenReceive(final)
        /\ UNCHANGED <<synAck, tpc, copy, cgarbage, timer, e2c>>
    BY <1>5 DEF C!Resend, C!EarlierResend
  <2>4. final \in BOOLEAN /\ (slot = synAck.ws => final)
    BY DEF C!W
  <2> QED
    BY <1>1, <2>2, <2>3, <2>4, SendingStep
<1> QED
  BY <1>4, <1>5

(* The count and the flags of the acknowledgements stay what they are.     *)
LEMMA NoteTypes ==
    ASSUME ClientOK, NEW p, C!NoteAck(p) \/ C!EarlierNoteAck(p)
    PROVE  rac' \in Nat /\ acked' \in [1..synAck.ws -> {0, 1}]
<1>1. rac \in Nat /\ acked \in [1..synAck.ws -> {0, 1}]
  BY ClientTypes
<1>2. UNCHANGED <<rac, acked>> \/ \E expected \in C!Expected(p) : C!NoteAckAs(p, expected)
  BY DEF C!NoteAck, C!EarlierNoteAck
<1>3. ASSUME NEW expected, C!NoteAckAs(p, expected)
      PROVE  rac' \in Nat /\ acked' \in [1..synAck.ws -> {0, 1}]
  BY <1>1, <1>3 DEF C!NoteAckAs, C!W
<1> QED
  BY <1>1, <1>2, <1>3

(* Where the receive loop goes on with the window there is.                *)
LEMMA LoopStep ==
    ASSUME ClientOK, pc = "receive",
           \/ C!ResendWindow
           \/ pc' \in {"receive", "repair"} /\ UNCHANGED slot,
           rac' \in Nat, acked' \in [1..synAck.ws -> {0, 1}],
           UNCHANGED e2c \/ (e2c # <<>> /\ e2c' = Tail(e2c)),
           UNCHANGED <<synAck, tpc, copy, tp, cgarbage, timer, c2e>>
    PROVE  ClientOK' /\ Speaks
<1>1. ~InHandshake /\ synAck.ws \in 1..Window /\ synAck.ws \in Nat
  BY KnownWindow DEF InHandshake
<1>2. pc' \in {"resend", "receive", "repair", "done"}
  BY DEF C!ResendWindow
<1>3. slot' \in 0..synAck.ws /\ (pc' = "resend" => slot' > 0)
  BY <1>1, ClientTypes, WindowBounds DEF C!ResendWindow
<1>4. C!TypeOK'
  BY <1>2, <1>3 DEF ClientOK, C!TypeOK, C!W
<1>5. WindowBuilt'
  BY <1>1, <1>2 DEF ClientOK, WindowBuilt, InHandshake
<1> QED
  BY <1>1, <1>2, <1>4, <1>5 DEF ClientOK, Speaks, InHandshake

LEMMA ReceiveStep ==
    ASSUME ClientOK, C!Receive \/ C!EarlierReceive
    PROVE  ClientOK' /\ Speaks
<1>1. /\ pc = "receive" /\ e2c # <<>> /\ e2c' = Tail(e2c)
      /\ UNCHANGED <<synAck, tpc, copy, tp, cgarbage, timer, c2e>>
      /\ \/ C!NoteAck(Head(e2c)) \/ C!EarlierNoteAck(Head(e2c))
         \/ UNCHANGED <<rac, acked>>
      /\ \/ C!ResendWindow
         \/ pc' \in {"receive", "repair"} /\ UNCHANGED slot
  BY DEF C!Receive, C!EarlierReceive
<1>2. rac' \in Nat /\ acked' \in [1..synAck.ws -> {0, 1}]
  BY <1>1, NoteTypes, ClientTypes
<1> QED
  BY <1>1, <1>2, LoopStep

LEMMA TimeoutStep ==
    ASSUME ClientOK, C!Timeout
    PROVE  ClientOK' /\ Speaks
<1>1. /\ pc = "receive" /\ C!ResendWindow
      /\ UNCHANGED <<synAck, tpc, copy, tp, acked, rac, cgarbage, timer, c2e, e2c>>
  BY DEF C!Timeout
<1>2. rac' \in Nat /\ acked' \in [1..synAck.ws -> {0, 1}]
  BY <1>1, ClientTypes
<1> QED
  BY <1>1, <1>2, LoopStep

LEMMA RepairStep ==
    ASSUME ClientOK, C!Repair
    PROVE  ClientOK' /\ Speaks
<1> DEFINE missing == {i \in 1..C!W : acked[i] # 1}
           i == CHOOSE k \in missing : \A j \in missing : k <= j
<1>1. /\ pc = "repair" /\ ~InHandshake
      /\ synAck.ws \in 1..Window /\ synAck.ws \in Nat
      /\ \A k \in 1..synAck.ws : tp[k] \in Built
      /\ acked \in [1..synAck.ws -> {0, 1}]
  BY ClientTypes, KnownWindow DEF C!Repair, InHandshake, ClientOK, WindowBuilt
<1>2. UNCHANGED <<synAck, tpc, copy, tp, rac, cgarbage, timer, e2c>>
  BY DEF C!Repair
<1>3. CASE missing # {}
  <2>1. /\ acked' = [acked EXCEPT ![i] = 1]
        /\ c2e' = Put(c2e, <<[tp[i] EXCEPT !.re = 1]>>)
        /\ UNCHANGED <<pc, slot>>
    BY <1>3, SamePut DEF C!Repair
  <2>2. missing \in SUBSET Nat
    BY <1>1 DEF C!W
  <2>3. i \in missing
    BY <1>3, <2>2, LeastElement
  <2>4. i \in 1..synAck.ws
    BY <2>3 DEF C!W
  <2> HIDE DEF i
  <2>5. tp[i] \in Built
    BY <1>1, <2>4
  <2>6. [tp[i] EXCEPT !.re = 1] \in Built
    BY <2>5 DEF Built, ClientPacket, Packet
  <2>7. acked' \in [1..synAck.ws -> {0, 1}]
    BY <1>1, <2>1
  <2>8. C!TypeOK'
    BY <1>2, <2>1, <2>7 DEF ClientOK, C!TypeOK, C!W
  <2>9. WindowBuilt'
    BY <1>1, <1>2, <2>1 DEF ClientOK, WindowBuilt, InHandshake
  <2> QED
    BY <1>1, <1>2, <2>1, <2>6, <2>8, <2>9 DEF ClientOK, Speaks, InHandshake
<1>4. CASE missing = {}
  <2>1. /\ IF tpc <= TotalPacketCount + 1 THEN pc' = "build" /\ slot' = 1
           ELSE pc' = "done" /\ UNCHANGED slot
        /\ UNCHANGED <<acked, c2e>>
    BY <1>4, SameSizes DEF C!Repair, C!MoreWindows
  <2>2. slot' \in 0..synAck.ws /\ (pc' = "build" => slot' > 0)
    BY <1>1, <2>1, ClientTypes, WindowBounds
  <2>3. C!TypeOK'
    BY <1>2, <2>1, <2>2 DEF ClientOK, C!TypeOK, C!W
  <2>4. WindowBuilt'
    BY <1>1, <1>2, <2>1 DEF ClientOK, WindowBuilt, InHandshake
  <2> QED
    BY <1>1, <1>2, <2>1, <2>3, <2>4 DEF ClientOK, Speaks, InHandshake
<1> QED
  BY <1>3, <1>4

(* All steps of both clients.                                              *)
LEMMA ClientSteps ==
    ASSUME ClientOK, e2c \in Seq(Answer), ClientStep \/ ClientTimeout
    PROVE  ClientOK' /\ Speaks
<1>1. timer \in BOOLEAN
  BY ClientTypes
<1>2. \/ C!SendSyn \/ C!SynTimeout
      \/ C!TakeSynAck /\ timer' \in BOOLEAN
      \/ C!BuildWith(C!NextPacket) \/ C!BuildWith(C!NextPacketInSlot)
      \/ C!Send \/ C!EarlierSend \/ C!Resend \/ C!EarlierResend
      \/ C!Receive \/ C!EarlierReceive
      \/ C!Timeout \/ C!Repair
  BY <1>1
  DEF ClientStep, ClientTimeout, ClientDoes, AsStarted, C!Step, C!EarlierStep,
      C!Timeouts, C!EarlierTimeouts, C!ReceiveSynAck, C!EarlierReceiveSynAck,
      C!Build, C!EarlierBuild, C!EarlierTimeout
<1> QED
  BY <1>2, HandshakeStep, TakeSynAckStep, BuildStep, SendStep, ReceiveStep,
     TimeoutStep, RepairStep

-----------------------------------------------------------------------------
(***************************************************************************)
(* The invariant of the three programs.                                    *)
(***************************************************************************)
LEMMA SystemFacts ==
    ASSUME SystemInv
    PROVE  /\ ClientOK /\ E!TypeOK /\ AnswersInv /\ Quiet /\ SynsFirst
           /\ c2e \in Seq(ClientPacket) /\ e2s \in Seq(ClientPacket)
           /\ s2e \in Seq(Answer) /\ e2c \in Seq(Answer)
           /\ Len(c2e) <= SockBuf /\ Len(e2s) <= SockBuf
           /\ Len(s2e) <= SockBuf /\ Len(e2c) <= SockBuf
BY DEF SystemInv, SystemTypeOK, TypeOK, ClientOK, AnswersInv, OnTheWay

(* The parts again, before and after a step.                               *)
LEMMA SystemFrom ==
    ASSUME ClientOK, E!TypeOK, AnswersInv, Quiet, SynsFirst,
           c2e \in Seq(ClientPacket), e2c \in Seq(Answer),
           Len(c2e) <= SockBuf, Len(e2c) <= SockBuf
    PROVE  SystemInv
<1>1. TypeOK
  BY ElementOfSeq DEF AnswersInv, Inv, TypeOK, Answer
<1>2. OnTheWay
  BY DEF OnTheWay, AnswersInv, Inv, StateTypeOK
<1> QED
  BY <1>1, <1>2 DEF SystemInv, SystemTypeOK, ClientOK, AnswersInv

LEMMA SystemFromNext ==
    ASSUME ClientOK', E!TypeOK', AnswersInv', Quiet', SynsFirst',
           c2e' \in Seq(ClientPacket), e2c' \in Seq(Answer),
           Len(c2e') <= SockBuf, Len(e2c') <= SockBuf
    PROVE  SystemInv'
<1>1. TypeOK'
  BY ElementOfSeq DEF AnswersInv, Inv, TypeOK, Answer
<1>2. OnTheWay'
  BY DEF OnTheWay, AnswersInv, Inv, StateTypeOK
<1> QED
  BY <1>1, <1>2 DEF SystemInv, SystemTypeOK, ClientOK, AnswersInv

LEMMA SystemInitInv == SystemInit => SystemInv
<1> SUFFICES ASSUME SystemInit PROVE SystemInv
  OBVIOUS
<1>1. C!Init /\ E!Init /\ Init /\ c2e = <<>> /\ e2c = <<>>
  BY DEF SystemInit, C!EarlierInit
<1>2. AnswersInv
  BY <1>1, AnswersInit
<1>3. C!TypeOK
  <2>1. copy \in C!Packet
    BY <1>1 DEF C!Init, C!NoPacket, C!Packet, C!Payload, C!DATA
  <2>2. tp \in [1..C!W -> C!Packet] /\ acked \in [1..C!W -> {0, 1}]
    <3>1. 1..C!W = {} /\ tp = <<>> /\ acked = <<>>
      BY <1>1 DEF C!Init, C!W
    <3> QED
      BY <3>1
  <2>3. synAck \in [ws : 0..WIN, ack : Nat] /\ slot \in 0..C!W
    BY <1>1, WindowAssumption DEF C!Init, C!W
  <2>4. timer \in BOOLEAN
    BY <1>1, ArmedAssumption DEF C!Init
  <2>5. tpc \in 0..TotalPacketCount + 2
    BY <1>1, WindowBounds DEF C!Init
  <2> QED
    BY <1>1, <2>1, <2>2, <2>3, <2>4, <2>5, SameSizes DEF C!TypeOK, C!Init
<1>4. WindowBuilt
  BY <1>1, WindowBounds
     DEF C!Init, WindowBuilt, InHandshake, C!NoPacket, C!DATA, DATA
<1>5. E!TypeOK
  BY <1>1 DEF E!Init, E!TypeOK
<1>6. Quiet
  BY <1>1 DEF Init, C!Init, Quiet, InHandshake
<1>7. SynsFirst
  <2>1. e2s = <<>> /\ allp = <<>> /\ maxW = 0
    BY <1>1 DEF Init
  <2>2. NothingReceived
    BY <2>1 DEF NothingReceived
  <2>3. ~HasSyn(<<>>) /\ SynsInFront(<<>>) /\ <<>> \in Seq(SynPacket)
    BY DEF HasSyn, SynsInFront
  <2> QED
    BY <1>1, <2>1, <2>2, <2>3 DEF SynsFirst
<1> QED
  BY <1>1, <1>2, <1>3, <1>4, <1>5, <1>6, <1>7, SystemFrom, SockBufAssumption DEF ClientOK

(* A step outside the server keeps what is said of it.                     *)
LEMMA OutsideServer ==
    ASSUME AnswersInv, UNCHANGED serverVars,
           e2s' \in Seq(ClientPacket), Len(e2s') <= SockBuf,
           s2e' \in Seq(Answer), Len(s2e') <= SockBuf
    PROVE  AnswersInv'
<1>1. Inv'
  BY QueuesOnly DEF AnswersInv
<1>2. Kept
  BY QueueAnswers
<1> QED
  BY <1>1, <1>2 DEF AnswersInv, Kept

(***************************************************************************)
(* SYNs in front.                                                          *)
(***************************************************************************)
LEMMA SynsOnly ==
    ASSUME NEW q \in Seq(SynPacket)
    PROVE  SynsInFront(q)
<1>1. \A k \in 1..Len(q) : q[k].type = SYN
  BY ElementOfSeq DEF SynPacket
<1> QED
  BY <1>1 DEF SynsInFront

LEMMA FrontTail ==
    ASSUME NEW T, NEW q \in Seq(T), q # <<>>, SynsInFront(q)
    PROVE  /\ SynsInFront(Tail(q))
           /\ HasSyn(Tail(q)) => HasSyn(q)
           /\ HasSyn(q) <=> Head(q).type = SYN
<1>1. /\ Len(q) \in Nat /\ Len(q) > 0 /\ Len(Tail(q)) = Len(q) - 1
      /\ \A k \in 1..Len(Tail(q)) : Tail(q)[k] = q[k + 1] /\ k + 1 \in 1..Len(q)
      /\ Head(q) = q[1]
  OBVIOUS
<1>2. SynsInFront(Tail(q))
  <2> SUFFICES ASSUME NEW k \in 1..Len(Tail(q)), Tail(q)[k].type = SYN,
                      NEW j \in 1..k
               PROVE  Tail(q)[j].type = SYN
    BY DEF SynsInFront
  <2>1. q[k + 1].type = SYN /\ k + 1 \in 1..Len(q)
    BY <1>1
  <2>2. j + 1 \in 1..k + 1 /\ j \in 1..Len(Tail(q))
    BY <1>1
  <2>3. q[j + 1].type = SYN
    BY <2>1, <2>2 DEF SynsInFront
  <2> QED
    BY <1>1, <2>2, <2>3
<1>3. HasSyn(Tail(q)) => HasSyn(q)
  BY <1>1 DEF HasSyn
<1>4. HasSyn(q) => Head(q).type = SYN
  <2>1. \A k \in 1..Len(q) : 1 \in 1..k
    BY <1>1
  <2> QED
    BY <1>1, <2>1 DEF HasSyn, SynsInFront
<1>5. Head(q).type = SYN => HasSyn(q)
  <2>1. 1 \in 1..Len(q)
    BY <1>1
  <2> QED
    BY <1>1, <2>1 DEF HasSyn
<1> QED
  BY <1>2, <1>3, <1>4, <1>5

LEMMA FrontPut ==
    ASSUME NEW T, NEW q \in Seq(T), Len(q) <= SockBuf, SynsInFront(q),
           NEW p \in T, p.type # SYN
    PROVE  /\ SynsInFront(Put(q, <<p>>))
           /\ HasSyn(Put(q, <<p>>)) => HasSyn(q)
<1> DEFINE a == Append(q, p)
<1>1. /\ Len(q) \in Nat /\ Len(a) = Len(q) + 1 /\ a[Len(q) + 1] = p
      /\ \A k \in 1..Len(q) : a[k] = q[k]
  OBVIOUS
<1> HIDE DEF a
<1>2. \A k \in 1..Len(a) : a[k].type = SYN => k \in 1..Len(q)
  BY <1>1
<1>3. SynsInFront(a)
  <2> SUFFICES ASSUME NEW k \in 1..Len(a), a[k].type = SYN, NEW j \in 1..k
               PROVE  a[j].type = SYN
    BY DEF SynsInFront
  <2>1. k \in 1..Len(q) /\ j \in 1..Len(q) /\ a[k] = q[k] /\ a[j] = q[j]
    BY <1>1, <1>2
  <2> QED
    BY <2>1 DEF SynsInFront
<1>4. HasSyn(a) => HasSyn(q)
  BY <1>1, <1>2 DEF HasSyn
<1>5. Put(q, <<p>>) = a \/ Put(q, <<p>>) = q
  BY PutOne DEF a
<1> QED
  BY <1>3, <1>4, <1>5

(* A step of the client or the emulator.                                   *)
LEMMA NothingKept ==
    ASSUME UNCHANGED <<allp, maxW, rec>>
    PROVE  NothingReceived' <=> NothingReceived
BY DEF NothingReceived

LEMMA ClientSynsFirst ==
    ASSUME SystemInv, Speaks, UNCHANGED <<serverVars, e2s>>
    PROVE  SynsFirst'
<1>1. /\ SynsFirst /\ e2s' = e2s /\ c2e \in Seq(ClientPacket)
      /\ Len(c2e) <= SockBuf
  BY SystemFacts
<1>2. NothingReceived' <=> NothingReceived
  BY NothingKept DEF serverVars
<1>3. InHandshake' => InHandshake
  BY DEF Speaks
<1>4. CASE UNCHANGED c2e
  BY <1>1, <1>2, <1>3, <1>4 DEF SynsFirst
<1>5. CASE InHandshake /\ \E p \in SynPacket : c2e' = Put(c2e, <<p>>)
  <2>1. /\ NothingReceived /\ c2e \in Seq(SynPacket) /\ e2s \in Seq(SynPacket)
    BY <1>1, <1>5 DEF SynsFirst
  <2>2. c2e' \in Seq(SynPacket)
    BY <1>1, <1>5, <2>1, PutOne
  <2> QED
    BY <1>1, <1>2, <2>1, <2>2, SynsOnly DEF SynsFirst
<1>6. CASE ~InHandshake /\ \E p \in Built : c2e' = Put(c2e, <<p>>)
  <2>1. PICK p \in Built : c2e' = Put(c2e, <<p>>)
    BY <1>6
  <2>2. p \in ClientPacket /\ p.type # SYN
    BY <2>1 DEF Built
  <2>3. SynsInFront(c2e') /\ (HasSyn(c2e') => HasSyn(c2e))
    BY <1>1, <2>1, <2>2, FrontPut DEF SynsFirst
  <2> QED
    BY <1>1, <1>2, <1>3, <1>6, <2>3 DEF SynsFirst
<1> QED
  BY <1>4, <1>5, <1>6 DEF Speaks

LEMMA RelayedSynsFirst ==
    ASSUME SystemInv, RelaysUp, UNCHANGED serverVars, InHandshake' <=> InHandshake
    PROVE  SynsFirst'
<1> DEFINE p == Head(c2e)
<1>1. /\ SynsFirst /\ c2e \in Seq(ClientPacket) /\ e2s \in Seq(ClientPacket)
      /\ Len(c2e) <= SockBuf /\ Len(e2s) <= SockBuf
  BY SystemFacts
<1>2. /\ c2e # <<>> /\ c2e' = Tail(c2e) /\ p \in ClientPacket
      /\ e2s' = Put(e2s, <<p>>) \/ e2s' = e2s
  BY <1>1, HeadTailProperties, PutNone DEF RelaysUp, Relays
<1>3. NothingReceived' <=> NothingReceived
  BY NothingKept DEF serverVars
<1>4. /\ SynsInFront(c2e') /\ (HasSyn(c2e') => HasSyn(c2e))
      /\ HasSyn(c2e) <=> p.type = SYN
  BY <1>1, <1>2, FrontTail DEF SynsFirst
<1>5. InHandshake => c2e' \in Seq(SynPacket) /\ p \in SynPacket
  BY <1>1, <1>2, HeadTailProperties DEF SynsFirst
<1> HIDE DEF p
<1>6. CASE p.type = SYN
  <2>1. NothingReceived /\ e2s \in Seq(SynPacket) /\ p \in SynPacket
    BY <1>1, <1>2, <1>4, <1>6 DEF SynsFirst, SynPacket
  <2>2. e2s' \in Seq(SynPacket)
    BY <1>1, <1>2, <2>1, PutOne
  <2> QED
    BY <1>3, <1>4, <1>5, <2>1, <2>2, SynsOnly DEF SynsFirst
<1>7. CASE p.type # SYN
  <2>1. ~InHandshake /\ ~HasSyn(c2e')
    BY <1>4, <1>5, <1>7 DEF SynPacket
  <2>2. SynsInFront(e2s') /\ (HasSyn(e2s') => HasSyn(e2s))
    BY <1>1, <1>2, <1>7, FrontPut DEF SynsFirst
  <2> QED
    BY <1>1, <1>3, <1>4, <2>1, <2>2 DEF SynsFirst
<1> QED
  BY <1>6, <1>7

(* A SYN leaves the server as it was, or as it was at the start.           *)
LEMMA SynTaken ==
    ASSUME AnswersInv, NothingReceived,
           NEW p \in ClientPacket, ReceiveSyn(p)
    PROVE  NothingReceived'
<1>1. maxW' = Window /\ p.seq > 0 /\ allp = <<>>
  BY SynSizes DEF ClientPacket, ReceiveSyn, NothingReceived
<1>2. CASE p.seq # prev.seq
  <2>1. allp' = <<>>
    BY <1>1, <1>2 DEF ReceiveSyn
  <2>2. PICK left \in {Blank, Junk} :
           rec' = [i \in 1..maxW' |-> [ZeroSlot EXCEPT !.data = left]]
    BY <1>2 DEF ReceiveSyn
  <2>3. \A i \in 1..maxW' : rec'[i].ws = 0
    BY <2>2 DEF ZeroSlot
  <2> QED
    BY <2>1, <2>3 DEF NothingReceived
<1>3. CASE p.seq = prev.seq
  <2>1. maxW = Window
    BY <1>1, <1>3 DEF AnswersInv, Inv, Sized
  <2>2. rec' = rec /\ allp' = allp /\ maxW' = maxW
    BY <1>1, <1>3, <2>1 DEF ReceiveSyn
  <2> QED
    BY <2>2 DEF NothingReceived
<1> QED
  BY <1>2, <1>3

LEMMA ServerSynsFirst ==
    ASSUME SystemInv, Receive \/ Timeout, UNCHANGED c2e,
           InHandshake' <=> InHandshake
    PROVE  SynsFirst'
<1>1. /\ SynsFirst /\ e2s \in Seq(ClientPacket) /\ AnswersInv
  BY SystemFacts
<1>2. CASE Timeout
  <2>1. e2s' = e2s /\ (NothingReceived' <=> NothingReceived)
    BY <1>2, NothingKept DEF Timeout
  <2> QED
    BY <1>1, <2>1 DEF SynsFirst
<1>3. CASE Receive
  <2> DEFINE p == Head(e2s)
  <2>1. /\ e2s # <<>> /\ e2s' = Tail(e2s) /\ p \in ClientPacket
    BY <1>1, <1>3, HeadTailProperties DEF Receive
  <2>2. /\ SynsInFront(e2s') /\ (HasSyn(e2s') => HasSyn(e2s))
        /\ HasSyn(e2s) <=> p.type = SYN
    BY <1>1, <2>1, FrontTail DEF SynsFirst
  <2>3. e2s \in Seq(SynPacket) => e2s' \in Seq(SynPacket) /\ p \in SynPacket
    BY <2>1, HeadTailProperties
  <2>4. p.type = SYN => ReceiveSyn(p)
    BY <1>3 DEF Receive, ReceiveData, ReceiveEot, ReceiveTooEarly, SYN, DATA, EOT
  <2> HIDE DEF p
  <2>5. CASE p.type = SYN
    <3>1. NothingReceived'
      BY <1>1, <2>1, <2>2, <2>4, <2>5, SynTaken DEF SynsFirst
    <3> QED
      BY <1>1, <2>2, <2>3, <3>1 DEF SynsFirst
  <2>6. CASE p.type # SYN
    <3>1. e2s \notin Seq(SynPacket)
      BY <2>3, <2>6 DEF SynPacket
    <3>2. ~InHandshake /\ ~HasSyn(c2e) /\ ~HasSyn(e2s')
      BY <1>1, <2>2, <2>6, <3>1 DEF SynsFirst
    <3> QED
      BY <1>1, <2>2, <3>2 DEF SynsFirst
  <2> QED
    BY <2>5, <2>6
<1> QED
  BY <1>2, <1>3

LEMMA ClientKeeps ==
    ASSUME SystemInv, ClientStep \/ ClientTimeout
    PROVE  SystemInv'
<1>1. ClientOK' /\ Speaks
  BY SystemFacts, ClientSteps
<1>2. UNCHANGED <<phase, r, etimer, serverVars, e2s, s2e>> /\ maxW' = maxW
  BY DEF ClientStep, ClientTimeout, ClientDoes, emulatorVars, serverVars
<1>3. c2e' \in Seq(ClientPacket) /\ Len(c2e') <= SockBuf
  <2>1. c2e' = c2e \/ \E p \in ClientPacket : c2e' = Put(c2e, <<p>>)
    BY <1>1, SynOrBuilt DEF Speaks
  <2>2. CASE c2e' = c2e
    BY <2>2, SystemFacts
  <2>3. CASE \E p \in ClientPacket : c2e' = Put(c2e, <<p>>)
    BY <2>3, SystemFacts, PutOne
  <2> QED
    BY <2>1, <2>2, <2>3
<1>4. e2c' \in Seq(Answer) /\ Len(e2c') <= SockBuf
  BY <1>1, SystemFacts, TailLen DEF Speaks
<1>5. AnswersInv'
  BY <1>2, SystemFacts, OutsideServer
<1>6. E!TypeOK'
  BY <1>2, SystemFacts DEF E!TypeOK
<1>7. Quiet'
  <2> SUFFICES ASSUME maxW = 0
               PROVE  InHandshake' /\ s2e' = <<>> /\ e2c' = <<>>
    BY <1>2 DEF Quiet
  <2>1. InHandshake /\ s2e = <<>> /\ e2c = <<>>
    BY SystemFacts DEF Quiet
  <2> QED
    BY <1>1, <1>2, <2>1 DEF Speaks
<1>8. SynsFirst'
  BY <1>1, <1>2, ClientSynsFirst
<1> QED
  BY <1>1, <1>3, <1>4, <1>5, <1>6, <1>7, <1>8, SystemFromNext

LEMMA EmulatorKeeps ==
    ASSUME SystemInv, EmulatorStep \/ EmulatorTimeout
    PROVE  SystemInv'
<1>1. /\ UNCHANGED clientVars /\ UNCHANGED serverVars /\ maxW' = maxW
      /\ (InHandshake' <=> InHandshake)
  BY DEF EmulatorStep, EmulatorTimeout, EmulatorDoes, clientVars, serverVars,
         InHandshake
<1>2. ClientOK'
  BY <1>1, SystemFacts
     DEF clientVars, ClientOK, C!TypeOK, C!W, WindowBuilt, InHandshake
<1>3. E!TypeOK' /\ (RelaysUp \/ RelaysDown \/ UNCHANGED <<c2e, e2s, s2e, e2c>>)
  <2>1. CASE EmulatorStep
    BY <2>1, SystemFacts, EmulatorRelays
  <2>2. CASE EmulatorTimeout
    BY <2>2, SystemFacts DEF EmulatorTimeout, EmulatorDoes, E!Timeout, E!TypeOK
  <2> QED
    BY <2>1, <2>2
<1>4. /\ c2e' \in Seq(ClientPacket) /\ Len(c2e') <= SockBuf
      /\ e2s' \in Seq(ClientPacket) /\ Len(e2s') <= SockBuf
      /\ s2e' \in Seq(Answer) /\ Len(s2e') <= SockBuf
      /\ e2c' \in Seq(Answer) /\ Len(e2c') <= SockBuf
  <2>1. CASE RelaysUp
    BY <2>1, SystemFacts, RelaysTypes DEF RelaysUp
  <2>2. CASE RelaysDown
    BY <2>2, SystemFacts, RelaysTypes DEF RelaysDown
  <2> QED
    BY <1>3, <2>1, <2>2, SystemFacts
<1>5. AnswersInv'
  BY <1>1, <1>4, SystemFacts, OutsideServer
<1>6. Quiet'
  <2> SUFFICES ASSUME maxW = 0
               PROVE  InHandshake /\ s2e' = <<>> /\ e2c' = <<>>
    BY <1>1 DEF Quiet
  <2>1. InHandshake /\ s2e = <<>> /\ e2c = <<>>
    BY SystemFacts DEF Quiet
  <2>2. ~RelaysDown
    BY <2>1 DEF RelaysDown, Relays
  <2> QED
    BY <1>3, <2>1, <2>2 DEF RelaysUp
<1>7. SynsFirst'
  <2>1. CASE RelaysUp
    BY <1>1, <2>1, RelayedSynsFirst
  <2>2. CASE UNCHANGED <<c2e, e2s>>
    <3>1. NothingReceived' <=> NothingReceived
      BY <1>1, NothingKept DEF serverVars
    <3> QED
      BY <1>1, <2>2, <3>1, SystemFacts DEF SynsFirst
  <2> QED
    BY <1>3, <2>1, <2>2 DEF RelaysDown
<1> QED
  BY <1>2, <1>3, <1>4, <1>5, <1>6, <1>7, SystemFromNext

LEMMA ServerKeeps ==
    ASSUME SystemInv, ServerStep \/ ServerTimeout
    PROVE  SystemInv'
<1>1. /\ UNCHANGED clientVars /\ UNCHANGED emulatorVars
      /\ UNCHANGED <<c2e, e2c>> /\ (Receive \/ Timeout)
      /\ (InHandshake' <=> InHandshake)
  BY DEF ServerStep, ServerTimeout, ServerDoes, clientVars, InHandshake
<1>2. ClientOK'
  BY <1>1, SystemFacts
     DEF clientVars, ClientOK, C!TypeOK, C!W, WindowBuilt, InHandshake
<1>3. E!TypeOK'
  BY <1>1, SystemFacts DEF emulatorVars, E!TypeOK
<1>4. AnswersInv'
  BY <1>1, SystemFacts, AnswersNext DEF Next, Step
<1>5. maxW' # 0
  <2>1. CASE Timeout
    <3>1. maxW' = maxW /\ prev.seq # 0
      BY <2>1 DEF Timeout
    <3> QED
      BY <3>1, SystemFacts, WindowBounds DEF AnswersInv, Inv, Sized
  <2>2. CASE Receive
    <3> DEFINE p == Head(e2s)
    <3>1. /\ p \in ClientPacket
          /\ maxW = 0 => p \in SynPacket
      BY <2>2, SystemFacts, HeadTailProperties DEF Receive, Quiet, SynsFirst
    <3>2. \/ ReceiveSyn(p) \/ ReceiveData(p)
          \/ ReceiveEot(p) \/ ReceiveTooEarly(p)
      BY <2>2 DEF Receive
    <3> HIDE DEF p
    <3>3. ReceiveSyn(p) => maxW' = Window
      BY <3>1, SynSizes
    <3>4. ~ReceiveSyn(p) => maxW' = maxW /\ p.type \in {DATA, EOT}
      BY <3>2 DEF ReceiveData, ReceiveEot, ReceiveTooEarly
    <3>5. p.type \in {DATA, EOT} => maxW # 0
      BY <3>1 DEF SynPacket, SYN, DATA, EOT
    <3> QED
      BY <3>3, <3>4, <3>5, WindowBounds
  <2> QED
    BY <1>1, <2>1, <2>2
<1>6. Quiet'
  BY <1>5 DEF Quiet
<1>7. SynsFirst'
  BY <1>1, ServerSynsFirst
<1> QED
  BY <1>1, <1>2, <1>3, <1>4, <1>6, <1>7, SystemFacts, SystemFromNext

LEMMA SystemNextInv == SystemInv /\ [SystemNext]_systemVars => SystemInv'
<1> SUFFICES ASSUME SystemInv, [SystemNext]_systemVars PROVE SystemInv'
  OBVIOUS
<1>1. CASE UNCHANGED systemVars
  <2>1. /\ UNCHANGED clientVars /\ UNCHANGED emulatorVars /\ UNCHANGED serverVars
        /\ UNCHANGED <<c2e, e2s, s2e, e2c>>
    BY <1>1 DEF systemVars
  <2>2. ClientOK'
    BY <2>1, SystemFacts
       DEF clientVars, ClientOK, C!TypeOK, C!W, WindowBuilt, InHandshake
  <2>3. E!TypeOK'
    BY <2>1, SystemFacts DEF emulatorVars, E!TypeOK
  <2>4. AnswersInv'
    BY <2>1, SystemFacts, OutsideServer
  <2>5. Quiet'
    BY <2>1, SystemFacts DEF clientVars, serverVars, Quiet, InHandshake
  <2>6. SynsFirst'
    <3>1. InHandshake' <=> InHandshake
      BY <2>1 DEF clientVars, InHandshake
    <3>2. NothingReceived' <=> NothingReceived
      BY <2>1, NothingKept DEF serverVars
    <3> QED
      BY <2>1, <3>1, <3>2, SystemFacts DEF SynsFirst
  <2> QED
    BY <2>1, <2>2, <2>3, <2>4, <2>5, <2>6, SystemFacts, SystemFromNext
<1> QED
  BY <1>1, ClientKeeps, EmulatorKeeps, ServerKeeps
     DEF SystemNext, SomeStep, SomeTimeout

-----------------------------------------------------------------------------
(* The invariant of the three programs (client.c, emulator.c, server.c and *)
(* the earlier clients and emulators).                                     *)
THEOREM SystemInvariant == SystemSpec => []SystemInv
<1> QED
  BY SystemInitInv, SystemNextInv, PTL DEF SystemSpec

(* Every variable of the three programs holds what the code declares, the  *)
(* client's count of packets stays within the chunks, the extra packet and *)
(* EOT (client.c 155-204), and no queue exceeds its buffer.                *)
THEOREM SystemTypes == SystemSpec => []SystemTypeOK
<1>1. SystemInv => SystemTypeOK
  BY DEF SystemInv
<1> QED
  BY <1>1, SystemInvariant, PTL

(* The server never divides by a window size of zero (server.c 208, 235):  *)
(* no data reaches it before a SYN, whatever is lost and repeated.         *)
THEOREM NoDataBeforeSyn == SystemSpec => []NoEarlyData
<1>1. SystemInv => NoEarlyData
  <2> SUFFICES ASSUME SystemInv, e2s # <<>>, Head(e2s).type # SYN PROVE maxW > 0
    BY DEF NoEarlyData
  <2>1. CASE maxW = 0
    <3>1. Head(e2s) \in SynPacket
      BY <2>1, SystemFacts, HeadTailProperties DEF Quiet, SynsFirst
    <3> QED
      BY <3>1 DEF SynPacket
  <2>2. CASE maxW # 0
    <3>1. maxW \in Nat
      BY SystemFacts, InvSizes DEF AnswersInv
    <3> QED
      BY <2>2, <3>1
  <2> QED
    BY <2>1, <2>2
<1> QED
  BY <1>1, SystemInvariant, PTL

(* Nor does it lose what it has received to a SYN (server.c 108-115): the  *)
(* SYNs that the client repeats (client.c 129) stay ahead of the data.     *)
THEOREM NoSynAfterData == SystemSpec => []NoLateSyn
<1>1. SystemInv => NoLateSyn
  <2> SUFFICES ASSUME SystemInv, e2s # <<>>, Head(e2s).type = SYN
               PROVE  NothingReceived
    BY DEF NoLateSyn
  <2> QED
    BY SystemFacts, FrontTail DEF SynsFirst
<1> QED
  BY <1>1, SystemInvariant, PTL

(* The acknowledgement of the last slot is marked as last wherever it is   *)
(* on its way (server.c 236-244): neither emulator nor client waits for    *)
(* more than there is.                                                     *)
THEOREM LastIsMarked == SystemSpec => []LastSlotMarked
<1>1. SystemInv => LastSlotMarked
  <2> SUFFICES ASSUME SystemInv, NEW q \in {s2e, e2c}, NEW k \in 1..Len(q),
                      q[k].type = ACK, q[k].ws = maxW
               PROVE  q[k].last = 1
    BY DEF LastSlotMarked
  <2>1. q[k] \in Answer
    BY SystemFacts, ElementOfSeq
  <2>2. maxW # 0
    BY <2>1, WindowBounds DEF Answer
  <2>3. maxW = Window
    BY <2>2, SystemFacts, InvSizes DEF AnswersInv
  <2> QED
    BY <2>1, <2>3 DEF Answer
<1> QED
  BY <1>1, SystemInvariant, PTL

(* Client and emulator are the network that module Server allows for       *)
(* (Inputs being all packets of a client): the theorems about the server   *)
(* alone (server.c) hold of it in the system.                              *)
LEMMA ServerNetwork ==
    ASSUME Inputs = ClientPacket, SystemInv, [SystemNext]_systemVars
    PROVE  [Next]_vars
<1>1. CASE ClientStep \/ ClientTimeout
  BY <1>1 DEF ClientStep, ClientTimeout, ClientDoes, vars
<1>2. CASE ServerStep \/ ServerTimeout
  BY <1>2 DEF ServerStep, ServerTimeout, ServerDoes, Next, Step
<1>3. CASE EmulatorStep
  <2>1. UNCHANGED serverVars /\ (RelaysUp \/ RelaysDown)
    BY <1>3, SystemFacts, EmulatorRelays DEF EmulatorStep, EmulatorDoes
  <2>2. CASE RelaysUp
    <3>1. Head(c2e) \in ClientPacket /\ UNCHANGED s2e
      BY <2>2, SystemFacts, HeadTailProperties DEF RelaysUp, Relays
    <3>2. e2s' = Put(e2s, <<Head(c2e)>>) \/ e2s' = e2s
      BY <2>2, SystemFacts, PutNone DEF RelaysUp, Relays
    <3> QED
      BY <2>1, <3>1, <3>2 DEF Arrive, Next, vars
  <2>3. CASE RelaysDown
    BY <2>1, <2>3 DEF RelaysDown, Relays, Collect, Next
  <2> QED
    BY <2>1, <2>2, <2>3
<1>4. CASE EmulatorTimeout
  BY <1>4 DEF EmulatorTimeout, EmulatorDoes, E!Timeout, vars
<1>5. CASE UNCHANGED systemVars
  BY <1>5 DEF systemVars, vars
<1> QED
  BY <1>1, <1>2, <1>3, <1>4, <1>5 DEF SystemNext, SomeStep, SomeTimeout

THEOREM ServerAsSpecified ==
    ASSUME Inputs = ClientPacket
    PROVE  SystemSpec => ServerInContext
<1>1. SystemInit => Init
  BY DEF SystemInit
<1>2. SystemInv /\ [SystemNext]_systemVars => [Next]_vars
  BY ServerNetwork
<1> QED
  BY <1>1, <1>2, SystemInvariant, PTL DEF SystemSpec, ServerInContext, Spec

-----------------------------------------------------------------------------
(***************************************************************************)
(* The received file.                                                      *)
(***************************************************************************)
(* data/received.txt is the text of the rows written.                      *)
FileIsText == file = Text(allp)

LEMMA TextGrows ==
    ASSUME NEW s, NEW t, s \in Seq(Slot), t \in Seq(Slot)
    PROVE  /\ Len(Text(s)) <= Len(Text(s \o t))
           /\ Text(s) = SubSeq(Text(s \o t), 1, Len(Text(s)))
<1>1. s \o t \in Seq(Slot) /\ Len(s \o t) = Len(s) + Len(t)
      /\ Len(s) \in Nat /\ Len(t) \in Nat
  OBVIOUS
<1>2. \A k \in 1..Len(s) : (s \o t)[k] = s[k]
  OBVIOUS
<1>3. /\ Text(s) \in Seq(Payload) /\ Len(Text(s)) = Len(s)
      /\ \A k \in 1..Len(s) : Text(s)[k] = s[k].data
      /\ Text(s \o t) \in Seq(Payload) /\ Len(Text(s \o t)) = Len(s) + Len(t)
      /\ \A k \in 1..Len(s) : Text(s \o t)[k] = s[k].data
  <2>1. /\ Text(s) \in Seq(Payload) /\ Len(Text(s)) = Len(s)
        /\ \A k \in 1..Len(s) : Text(s)[k] = s[k].data
    BY TextFacts
  <2> DEFINE st == s \o t
  <2>2. st \in Seq(Slot) /\ Len(st) = Len(s) + Len(t)
        /\ \A k \in 1..Len(s) : k \in 1..Len(st) /\ st[k] = s[k]
    BY <1>1, <1>2
  <2> HIDE DEF st
  <2>3. /\ Text(st) \in Seq(Payload) /\ Len(Text(st)) = Len(st)
        /\ \A k \in 1..Len(st) : Text(st)[k] = st[k].data
    BY <2>2, TextFacts
  <2>4. /\ Text(st) \in Seq(Payload) /\ Len(Text(st)) = Len(s) + Len(t)
        /\ \A k \in 1..Len(s) : Text(st)[k] = s[k].data
    BY <2>2, <2>3
  <2> QED
    BY <2>1, <2>4 DEF st
<1> HIDE DEF Text
<1> QED
  BY <1>1, <1>3

LEMMA TextWritten ==
    ASSUME HeapFaults = {"harmless"}, Inv, FileIsText,
           NEW r1 \in [1..maxW -> Slot], NEW t, NEW next, Write(r1, t, next)
    PROVE  /\ FileIsText'
           /\ Len(file) <= Len(file') /\ file = SubSeq(file', 1, Len(file))
<1>1. allp \in Seq(Slot) /\ maxW \in Nat
  BY InvSizes DEF Inv, StateTypeOK
<1>2. \A slots : Faults(slots) = {"harmless"}
  BY HeapAssumption DEF Faults
<1>3. PICK n \in Reached(r1) :
         /\ allp' = allp \o SubSeq(Fresh(r1), 1, n)
         /\ file' = Text(allp \o SubSeq(Fresh(r1), 1, n))
  BY <1>2 DEF Write
<1>5. SubSeq(Fresh(r1), 1, n) \in Seq(Slot)
  BY <1>1, ReachedFacts
<1>4. FileIsText'
  BY <1>3 DEF FileIsText, Text
<1> QED
  BY <1>1, <1>3, <1>4, <1>5, TextGrows DEF FileIsText

LEMMA SameText ==
    ASSUME Inv, FileIsText, UNCHANGED <<allp, file>>
    PROVE  /\ FileIsText'
           /\ Len(file) <= Len(file') /\ file = SubSeq(file', 1, Len(file))
<1>1. file \in Seq(Payload)
  BY DEF Inv, StateTypeOK
<1>2. Len(file) \in Nat /\ SubSeq(file, 1, Len(file)) = file
  BY <1>1
<1> QED
  BY <1>2 DEF FileIsText, Text

LEMMA FileGrows ==
    ASSUME HeapFaults = {"harmless"}, SystemInv, FileIsText, [SystemNext]_systemVars
    PROVE  /\ FileIsText'
           /\ Len(file) <= Len(file') /\ file = SubSeq(file', 1, Len(file))
<1>1. Inv /\ SynsFirst /\ AnswersInv /\ e2s \in Seq(ClientPacket)
  BY SystemFacts DEF AnswersInv
<1>2. CASE Receive
  <2> DEFINE p == Head(e2s)
  <2>1. e2s # <<>> /\ p \in ClientPacket
    BY <1>1, <1>2, HeadTailProperties DEF Receive
  <2>2. p.type = SYN => NothingReceived
    BY <1>1, <2>1, FrontTail DEF SynsFirst
  <2>3. ReceiveSyn(p) \/ ReceiveData(p) \/ ReceiveEot(p) \/ ReceiveTooEarly(p)
    BY <1>2 DEF Receive
  <2> HIDE DEF p
  <2>4. CASE ReceiveSyn(p)
    <3>1. allp = <<>> /\ file' = file
      BY <2>2, <2>4 DEF ReceiveSyn, NothingReceived
    <3>2. allp' = allp
      BY <2>4, <3>1 DEF ReceiveSyn
    <3> QED
      BY <1>1, <3>1, <3>2, SameText
  <2>5. CASE ReceiveData(p)
    <3>1. CASE AllDataReceived(p)
      <4>1. Received(p) \in [1..maxW -> Slot]
        BY <1>1, <2>1, <2>5, ReceivedWindow DEF ReceiveData, WindowOK
      <4>2. PICK t : Write(Received(p), t, "listen")
        BY <2>5, <3>1 DEF ReceiveData
      <4> QED
        BY <1>1, <4>1, <4>2, TextWritten
    <3>2. CASE ~AllDataReceived(p)
      BY <1>1, <2>5, <3>2, SameText DEF ReceiveData
    <3> QED
      BY <3>1, <3>2
  <2>6. CASE ReceiveEot(p)
    <3>1. Write(rec, MarkLast(trn), "exited") /\ rec \in [1..maxW -> Slot]
      BY <1>1, <2>6 DEF ReceiveEot, Inv, StateTypeOK
    <3> QED
      BY <1>1, <3>1, TextWritten
  <2>7. CASE ReceiveTooEarly(p)
    BY <1>1, <2>7, SameText DEF ReceiveTooEarly
  <2> QED
    BY <2>3, <2>4, <2>5, <2>6, <2>7
<1>3. CASE Timeout
  BY <1>1, <1>3, SameText DEF Timeout
<1>4. CASE UNCHANGED serverVars
  BY <1>1, <1>4, SameText DEF serverVars
<1>5. Receive \/ Timeout \/ UNCHANGED serverVars
  BY DEF SystemNext, SomeStep, SomeTimeout, ClientStep, ClientTimeout, ClientDoes,
         EmulatorStep, EmulatorTimeout, EmulatorDoes, ServerStep, ServerTimeout,
         ServerDoes, systemVars
<1> QED
  BY <1>2, <1>3, <1>4, <1>5

(* While the heap is not overrun, data/received.txt only grows at its end  *)
(* (server.c 277-301): no SYN takes back what has been received, however   *)
(* many are repeated and whatever is lost.                                 *)
THEOREM FileOnlyGrows ==
    ASSUME HeapFaults = {"harmless"}
    PROVE  SystemSpec => NothingWithdrawn
<1>1. SystemInit => FileIsText
  <2> SUFFICES ASSUME SystemInit PROVE FileIsText
    OBVIOUS
  <2>1. file = <<>> /\ allp = <<>>
    BY DEF SystemInit, Init
  <2>2. Text(<<>>) = <<>>
    BY DEF Text
  <2> QED
    BY <2>1, <2>2 DEF FileIsText
<1>2. SystemInv /\ FileIsText /\ [SystemNext]_systemVars =>
         /\ FileIsText'
         /\ [Len(file) <= Len(file') /\ file = SubSeq(file', 1, Len(file))]_systemVars
  BY FileGrows
<1> QED
  BY <1>1, <1>2, SystemInvariant, PTL DEF SystemSpec, NothingWithdrawn

=============================================================================
