--------------------------- MODULE EmulatorProofs ---------------------------
(***************************************************************************)
(* The emulator is a pair of lines that only lose packets, for every noise,*)
(* every random sequence and every size of the socket buffers, between a   *)
(* client and a server that may send anything.                             *)
(***************************************************************************)
EXTENDS Emulator, TLAPS, SequenceTheorems

(* A datagram joins a queue that has room, and is discarded otherwise.     *)
LEMMA PutOne ==
    ASSUME NEW T, NEW q \in Seq(T), Len(q) <= SockBuf, NEW x \in T
    PROVE  /\ Put(q, <<x>>) = IF Len(q) < SockBuf THEN Append(q, x) ELSE q
           /\ Put(q, <<x>>) \in Seq(T)
           /\ Len(Put(q, <<x>>)) <= SockBuf
<1>1. SockBuf \in Nat \ {0}
  BY SockBufAssumption
<1>2. q \o <<x>> = Append(q, x)
  BY AppendIsConcat
<1>3. Len(Append(q, x)) = Len(q) + 1 /\ Append(q, x) \in Seq(T)
  OBVIOUS
<1>4. CASE Len(q) < SockBuf
  BY <1>1, <1>2, <1>3, <1>4 DEF Put
<1>5. CASE Len(q) = SockBuf
  <2>1. Put(q, <<x>>) = SubSeq(Append(q, x), 1, Len(q))
    BY <1>1, <1>2, <1>3, <1>5 DEF Put
  <2>2. SubSeq(Append(q, x), 1, Len(q)) = q
    BY <1>3
  <2> QED
    BY <1>5, <2>1, <2>2
<1> QED
  BY <1>1, <1>4, <1>5

LEMMA PutNone ==
    ASSUME NEW T, NEW q \in Seq(T), Len(q) <= SockBuf
    PROVE  Put(q, <<>>) = q
  BY DEF Put

(* What either side takes off a queue.                                     *)
LEMMA TakeOne ==
    ASSUME NEW T, NEW q \in Seq(T), Len(q) <= SockBuf, q # <<>>
    PROVE  /\ Head(q) \in T
           /\ Tail(q) \in Seq(T) /\ Len(Tail(q)) <= SockBuf
           /\ Len(Tail(q)) = Len(q) - 1
<1>1. Len(q) \in Nat /\ SockBuf \in Nat
  BY SockBufAssumption
<1>2. Len(Tail(q)) = Len(q) - 1 /\ Tail(q) \in Seq(T) /\ Head(q) \in T
  BY HeadTailProperties
<1> QED
  BY <1>1, <1>2

(* Each direction, packet by packet: handed over, or lost.                 *)
LEMMA UpStep ==
    ASSUME QueuesOK, FromClient
    PROVE  /\ e2s' = e2s \/ e2s' = Append(e2s, Head(c2e))
           /\ c2e # <<>> /\ c2e' = Tail(c2e)
           /\ UNCHANGED <<s2e, e2c>>
           /\ e2s' \in Seq(FromBelow) /\ Len(e2s') <= SockBuf
<1> DEFINE p == Head(c2e)
<1>1. c2e # <<>> /\ c2e \in Seq(FromBelow) /\ Len(c2e) <= SockBuf
  BY DEF FromClient, QueuesOK
<1>2. p \in FromBelow
  BY <1>1, TakeOne
<1>3. e2s \in Seq(FromBelow) /\ Len(e2s) <= SockBuf
  BY DEF QueuesOK
<1>4. e2s' = Put(e2s, <<p>>) \/ e2s' = Put(e2s, <<>>)
  BY DEF FromClient, ForwardedUp
<1>5. /\ e2s' = e2s \/ e2s' = Append(e2s, p)
      /\ e2s' \in Seq(FromBelow) /\ Len(e2s') <= SockBuf
  BY <1>2, <1>3, <1>4, PutOne, PutNone
<1> QED
  BY <1>1, <1>5 DEF FromClient

LEMMA DownStep ==
    ASSUME QueuesOK, FromServer
    PROVE  /\ e2c' = e2c \/ e2c' = Append(e2c, Head(s2e))
           /\ s2e # <<>> /\ s2e' = Tail(s2e)
           /\ UNCHANGED <<c2e, e2s>>
           /\ e2c' \in Seq(FromAbove) /\ Len(e2c') <= SockBuf
<1> DEFINE p == Head(s2e)
<1>1. s2e # <<>> /\ s2e \in Seq(FromAbove) /\ Len(s2e) <= SockBuf
  BY DEF FromServer, QueuesOK
<1>2. p \in FromAbove
  BY <1>1, TakeOne
<1>3. e2c \in Seq(FromAbove) /\ Len(e2c) <= SockBuf
  BY DEF QueuesOK
<1>4. e2c' = Put(e2c, <<p>>) \/ e2c' = Put(e2c, <<>>)
  BY DEF FromServer, ForwardedDown
<1>5. /\ e2c' = e2c \/ e2c' = Append(e2c, p)
      /\ e2c' \in Seq(FromAbove) /\ Len(e2c') <= SockBuf
  BY <1>2, <1>3, <1>4, PutOne, PutNone
<1> QED
  BY <1>1, <1>5 DEF FromServer

-----------------------------------------------------------------------------
(***************************************************************************)
(* The queues hold what the other side sent, within their capacity.        *)
(***************************************************************************)
LEMMA QueuesInit == OpenInit => QueuesOK
<1>1. \A T : <<>> \in Seq(T) /\ Len(<<>>) = 0
  OBVIOUS
<1> QED
  BY <1>1, SockBufAssumption DEF OpenInit, QueuesOK

LEMMA QueuesNext == QueuesOK /\ [Next]_vars => QueuesOK'
<1> SUFFICES ASSUME QueuesOK, [Next]_vars PROVE QueuesOK'
  OBVIOUS
<1>0. /\ c2e \in Seq(FromBelow) /\ Len(c2e) <= SockBuf
      /\ e2s \in Seq(FromBelow) /\ Len(e2s) <= SockBuf
      /\ s2e \in Seq(FromAbove) /\ Len(s2e) <= SockBuf
      /\ e2c \in Seq(FromAbove) /\ Len(e2c) <= SockBuf
  BY DEF QueuesOK
<1>1. CASE FromClient
  <2>1. c2e' \in Seq(FromBelow) /\ Len(c2e') <= SockBuf
    BY <1>0, <1>1, UpStep, TakeOne
  <2> QED
    BY <1>0, <1>1, <2>1, UpStep DEF QueuesOK
<1>2. CASE FromServer
  <2>1. s2e' \in Seq(FromAbove) /\ Len(s2e') <= SockBuf
    BY <1>0, <1>2, DownStep, TakeOne
  <2> QED
    BY <1>0, <1>2, <2>1, DownStep DEF QueuesOK
<1>3. CASE Timeout \/ UNCHANGED vars
  BY <1>3 DEF Timeout, vars, QueuesOK
<1>4. CASE ClientSends
  <2>1. c2e' \in Seq(FromBelow) /\ Len(c2e') <= SockBuf
    BY <1>0, <1>4, PutOne DEF ClientSends
  <2> QED
    BY <1>0, <1>4, <2>1 DEF ClientSends, QueuesOK
<1>5. CASE ServerSends
  <2>1. s2e' \in Seq(FromAbove) /\ Len(s2e') <= SockBuf
    BY <1>0, <1>5, PutOne DEF ServerSends
  <2> QED
    BY <1>0, <1>5, <2>1 DEF ServerSends, QueuesOK
<1>6. CASE ServerTakes
  <2>1. e2s' \in Seq(FromBelow) /\ Len(e2s') <= SockBuf
    BY <1>0, <1>6, TakeOne DEF ServerTakes
  <2> QED
    BY <1>0, <1>6, <2>1 DEF ServerTakes, QueuesOK
<1>7. CASE ClientTakes
  <2>1. e2c' \in Seq(FromAbove) /\ Len(e2c') <= SockBuf
    BY <1>0, <1>7, TakeOne DEF ClientTakes
  <2> QED
    BY <1>0, <1>7, <2>1 DEF ClientTakes, QueuesOK
<1> QED
  BY <1>1, <1>2, <1>3, <1>4, <1>5, <1>6, <1>7 DEF Next, Step, Around

(* What waits was sent by the other side and fits (emulator.c 92-213).     *)
THEOREM QueuesInvariant == Spec => []QueuesOK
  BY QueuesInit, QueuesNext, PTL DEF Spec

-----------------------------------------------------------------------------
(***************************************************************************)
(* Each direction implements LossyFifo.                                    *)
(***************************************************************************)
LEMMA UpRefines == QueuesOK /\ [Next]_vars => [Up!Next]_<<c2e, e2s>>
<1> SUFFICES ASSUME QueuesOK, [Next]_vars PROVE [Up!Next]_<<c2e, e2s>>
  OBVIOUS
<1>1. CASE FromClient
  BY <1>1, UpStep DEF Up!Next, Up!Pass, Up!Lose
<1>2. CASE FromServer
  BY <1>2, DownStep
<1>3. CASE Timeout \/ ServerSends \/ ClientTakes \/ UNCHANGED vars
  BY <1>3 DEF Timeout, ServerSends, ClientTakes, vars
<1>4. CASE ClientSends
  <2>1. c2e \in Seq(FromBelow) /\ Len(c2e) <= SockBuf
    BY DEF QueuesOK
  <2>2. PICK p \in FromBelow : c2e' = Put(c2e, <<p>>)
    BY <1>4 DEF ClientSends
  <2>3. c2e' = c2e \/ c2e' = Append(c2e, p)
    BY <2>1, <2>2, PutOne
  <2>4. /\ Len(Append(c2e, p)) > Len(c2e)
        /\ SubSeq(Append(c2e, p), 1, Len(c2e)) = c2e
    BY <2>1
  <2> QED
    BY <1>4, <2>3, <2>4 DEF ClientSends, Up!Next, Up!Send
<1>5. CASE ServerTakes
  BY <1>5 DEF ServerTakes, Up!Next, Up!Take
<1> QED
  BY <1>1, <1>2, <1>3, <1>4, <1>5 DEF Next, Step, Around

LEMMA DownRefines == QueuesOK /\ [Next]_vars => [Down!Next]_<<s2e, e2c>>
<1> SUFFICES ASSUME QueuesOK, [Next]_vars PROVE [Down!Next]_<<s2e, e2c>>
  OBVIOUS
<1>1. CASE FromServer
  BY <1>1, DownStep DEF Down!Next, Down!Pass, Down!Lose
<1>2. CASE FromClient
  BY <1>2, UpStep
<1>3. CASE Timeout \/ ClientSends \/ ServerTakes \/ UNCHANGED vars
  BY <1>3 DEF Timeout, ClientSends, ServerTakes, vars
<1>4. CASE ServerSends
  <2>1. s2e \in Seq(FromAbove) /\ Len(s2e) <= SockBuf
    BY DEF QueuesOK
  <2>2. PICK p \in FromAbove : s2e' = Put(s2e, <<p>>)
    BY <1>4 DEF ServerSends
  <2>3. s2e' = s2e \/ s2e' = Append(s2e, p)
    BY <2>1, <2>2, PutOne
  <2>4. /\ Len(Append(s2e, p)) > Len(s2e)
        /\ SubSeq(Append(s2e, p), 1, Len(s2e)) = s2e
    BY <2>1
  <2> QED
    BY <1>4, <2>3, <2>4 DEF ServerSends, Down!Next, Down!Send
<1>5. CASE ClientTakes
  BY <1>5 DEF ClientTakes, Down!Next, Down!Take
<1> QED
  BY <1>1, <1>2, <1>3, <1>4, <1>5 DEF Next, Step, Around

(* From the client to the server nothing is repeated, reordered or made up.*)
THEOREM UpLosesOnly == Spec => UpIsLossyFifo
<1>1. OpenInit => Up!Init
  BY DEF OpenInit, Up!Init
<1> QED
  BY <1>1, QueuesInvariant, UpRefines, PTL DEF Spec, UpIsLossyFifo, Up!Spec

(* Nor is it from the server to the client.                                *)
THEOREM DownLosesOnly == Spec => DownIsLossyFifo
<1>1. OpenInit => Down!Init
  BY DEF OpenInit, Down!Init
<1> QED
  BY <1>1, QueuesInvariant, DownRefines, PTL DEF Spec, DownIsLossyFifo, Down!Spec

-----------------------------------------------------------------------------
(***************************************************************************)
(* The turn.                                                               *)
(***************************************************************************)
HandsOver ==
    /\ phase = "client" /\ phase' = "server" =>
         \/ ~Carries(Head(c2e)) /\ Head(c2e).type # EOT
         \/ Len(e2s) = SockBuf
         \/ e2s' = Append(e2s, Head(c2e))
    /\ phase = "server" /\ phase' = "client" =>
         \/ Len(e2c) = SockBuf
         \/ e2c' = Append(e2c, Head(s2e))

LEMMA TurnStep == QueuesOK /\ [Next]_vars => [HandsOver]_vars
<1> SUFFICES ASSUME QueuesOK, [Next]_vars PROVE HandsOver
  OBVIOUS
<1>0. /\ e2s \in Seq(FromBelow) /\ Len(e2s) <= SockBuf
      /\ e2c \in Seq(FromAbove) /\ Len(e2c) <= SockBuf
      /\ Len(e2s) \in Nat /\ Len(e2c) \in Nat /\ SockBuf \in Nat
  BY SockBufAssumption DEF QueuesOK
<1>1. CASE FromClient
  <2> DEFINE p == Head(c2e)
  <2>1. SUFFICES ASSUME phase = "client", phase' = "server",
                        Carries(p) \/ p.type = EOT, Len(e2s) # SockBuf
                 PROVE  e2s' = Append(e2s, p)
    BY <1>1 DEF HandsOver, FromClient
  <2>2. EndsClientTurn(p)
    BY <1>1, <2>1 DEF FromClient
  <2>3. PassesUp(p)
    BY <2>1, <2>2 DEF EndsClientTurn, LostUp, PassesUp
  <2>4. e2s' = Put(e2s, <<p>>)
    BY <1>1, <2>3 DEF FromClient, ForwardedUp
  <2>5. p \in FromBelow
    BY <1>1, TakeOne DEF FromClient, QueuesOK
  <2>6. Len(e2s) < SockBuf
    BY <1>0, <2>1
  <2>7. Put(e2s, <<p>>) = Append(e2s, p)
    BY <1>0, <2>5, <2>6, PutOne
  <2> QED
    BY <2>4, <2>7
<1>2. CASE FromServer
  <2> DEFINE p == Head(s2e)
  <2>1. SUFFICES ASSUME phase = "server", phase' = "client", Len(e2c) # SockBuf
                 PROVE  e2c' = Append(e2c, p)
    BY <1>2 DEF HandsOver, FromServer
  <2>2. EndsServerTurn(p)
    BY <1>2, <2>1 DEF FromServer
  <2>3. PassesDown(p)
    BY <2>2 DEF EndsServerTurn, PassesDown
  <2>4. e2c' = Put(e2c, <<p>>)
    BY <1>2, <2>3 DEF FromServer, ForwardedDown
  <2>5. p \in FromAbove
    BY <1>2, TakeOne DEF FromServer, QueuesOK
  <2>6. Len(e2c) < SockBuf
    BY <1>0, <2>1
  <2>7. Put(e2c, <<p>>) = Append(e2c, p)
    BY <1>0, <2>5, <2>6, PutOne
  <2> QED
    BY <2>4, <2>7
<1>3. CASE Timeout
  BY <1>3 DEF Timeout, HandsOver
<1>4. CASE Around \/ UNCHANGED vars
  <2>1. phase' = phase
    BY <1>4 DEF Around, ClientSends, ServerSends, ServerTakes, ClientTakes,
                emulatorVars, vars
  <2> QED
    BY <2>1 DEF HandsOver
<1> QED
  BY <1>1, <1>2, <1>3, <1>4 DEF Next, Step

(* The side that is listened to next has been handed a packet, unless the  *)
(* packet was of no use or the buffer full (emulator.c 108-148, 172-199).  *)
THEOREM TurnPassesWithPacket == Spec => TurnHandsOver
  BY QueuesInvariant, TurnStep, PTL DEF Spec, TurnHandsOver, HandsOver

=============================================================================
