------------------------- MODULE UndisturbedProofs -------------------------
(***************************************************************************)
(* While nothing is lost the three programs carry the file over window by  *)
(* window, each once and in order: for every file, window, noise below the *)
(* chance that is drawn, and combination of versions.                      *)
(***************************************************************************)
EXTENDS Undisturbed, AckOrderProofs

-----------------------------------------------------------------------------
(***************************************************************************)
(* Numbers and slots.                                                      *)
(***************************************************************************)
(* What follows whole windows goes into the slots in turn.                 *)
LEMMA PlaceInWindow ==
    ASSUME NEW m \in Nat, NEW l, l = m * Window, NEW i \in 1..Window, NEW s
    PROVE  l \in Nat /\ (InSlot(l + i, s) <=> s = i)
<1>1. Window \in Nat \ {0} /\ l \in Nat
  BY Sizes
<1>2. m <= l
  <2> DEFINE w == Window - 1
  <2>1. w \in Nat /\ Window = w + 1
    BY <1>1
  <2>2. l = m * w + m /\ m * w \in Nat
    BY <2>1
  <2> QED
    BY <1>1, <2>2
<1>3. InSlot(l + i, i)
  BY <1>1, <1>2 DEF InSlot
<1>4. ASSUME InSlot(l + i, s) PROVE s = i
  BY <1>1, <1>3, <1>4, SlotOnce
<1> QED
  BY <1>1, <1>3, <1>4

(* The numbers of the chunks go up.                                        *)
LEMMA NumbersGrow ==
    ASSUME NEW n \in Nat, NEW k \in Nat, n <= k
    PROVE  /\ NumberOf(n) \in Nat /\ NumberOf(k) \in Nat
           /\ NumberOf(n) <= NumberOf(k)
           /\ n < k /\ k <= TotalPacketCount => NumberOf(n) < NumberOf(k)
<1>1. Window \in Nat \ {0} /\ TotalPacketCount \in Nat \ {0}
  BY Sizes
<1>2. ASSUME NEW a \in Nat, NEW b \in Nat, a < b
      PROVE  Window * a < Window * b /\ Window * a \in Nat /\ Window * b \in Nat
  <2>1. Window * a + Window <= Window * b /\ Window * a \in Nat /\ Window * b \in Nat
    BY <1>1, <1>2, MultipleGrows
  <2> DEFINE x == Window * a
             y == Window * b
  <2>2. x + Window <= y /\ x \in Nat /\ y \in Nat
    BY <2>1
  <2> HIDE DEF x, y
  <2>3. x < y
    BY <1>1, <2>2
  <2> QED
    BY <2>2, <2>3 DEF x, y
<1> DEFINE a == IF n > TotalPacketCount THEN TotalPacketCount ELSE n
           b == IF k > TotalPacketCount THEN TotalPacketCount ELSE k
<1>3. /\ a \in Nat /\ b \in Nat /\ a <= b
      /\ n < k /\ k <= TotalPacketCount => a < b
      /\ NumberOf(n) = Window * a /\ NumberOf(k) = Window * b
  BY <1>1 DEF NumberOf, setMaxWindowSize
<1> HIDE DEF a, b
<1>4. CASE a < b
  BY <1>2, <1>3, <1>4
<1>5. CASE a = b
  <2>1. Window * a \in Nat
    BY <1>1, <1>3
  <2> QED
    BY <1>3, <1>5, <2>1
<1> QED
  BY <1>3, <1>4, <1>5

-----------------------------------------------------------------------------
(***************************************************************************)
(* The text of a packet.                                                   *)
(***************************************************************************)
(* The recursion has a solution up to every chunk, so that Keeps is one.   *)
IsKept(f, k) == k = 1 \/ File[k] # File[k - 1] \/ ~f[k - 1]

Solves(f, n) == \A k \in 1..n : f[k] <=> IsKept(f, k)

LEMMA SolvedUpTo ==
    ASSUME NEW n \in Nat
    PROVE  \E f \in [1..n -> BOOLEAN] : Solves(f, n)
<1> DEFINE Unsolved == {k \in Nat : ~\E f \in [1..k -> BOOLEAN] : Solves(f, k)}
<1>1. SUFFICES ASSUME Unsolved # {} PROVE FALSE
  OBVIOUS
<1>2. PICK x \in Unsolved : \A y \in Unsolved : x <= y
  BY <1>1, LeastElement
<1>3. x # 0
  <2>1. [k \in 1..0 |-> TRUE] \in [1..0 -> BOOLEAN] /\ Solves([k \in 1..0 |-> TRUE], 0)
    BY DEF Solves
  <2> QED
    BY <2>1
<1>4. PICK f \in [1..x - 1 -> BOOLEAN] : Solves(f, x - 1)
  <2>1. x - 1 \in Nat /\ ~(x <= x - 1)
    BY <1>3
  <2> QED
    BY <1>2, <2>1
<1> DEFINE g == [k \in 1..x |-> IF k = x THEN IsKept(f, x) ELSE f[k]]
<1>5. g \in [1..x -> BOOLEAN]
  <2>1. IsKept(f, x) \in BOOLEAN
    BY DEF IsKept
  <2>2. \A k \in 1..x : k # x => k \in 1..x - 1
    OBVIOUS
  <2>3. \A k \in 1..x - 1 : f[k] \in BOOLEAN
    BY <1>4
  <2>4. \A k \in 1..x : (IF k = x THEN IsKept(f, x) ELSE f[k]) \in BOOLEAN
    BY <2>1, <2>2, <2>3, Zenon
  <2> QED
    BY <2>4, Zenon
<1>6. \A k \in 1..x : IsKept(g, k) <=> IsKept(f, k)
  <2> TAKE k \in 1..x
  <2>1. k # 1 => k - 1 \in 1..x /\ k - 1 # x
    OBVIOUS
  <2>2. k # 1 => g[k - 1] = f[k - 1]
    BY <2>1
  <2> QED
    BY <2>2 DEF IsKept
<1>7. Solves(g, x)
  <2> SUFFICES ASSUME NEW k \in 1..x PROVE g[k] <=> IsKept(g, k)
    BY DEF Solves
  <2>1. CASE k = x
    BY <1>6, <2>1
  <2>2. CASE k # x
    <3>1. k \in 1..x - 1 /\ g[k] = f[k]
      BY <2>2
    <3> QED
      BY <1>4, <1>6, <3>1 DEF Solves
  <2> QED
    BY <2>1, <2>2
<1> QED
  BY <1>5, <1>7

LEMMA KeepsSolves == \A k \in 1..Len(File) : Keeps[k] <=> IsKept(Keeps, k)
<1>1. Len(File) \in Nat
  BY Sizes DEF TotalPacketCount
<1>2. PICK f \in [1..Len(File) -> BOOLEAN] : Solves(f, Len(File))
  BY <1>1, SolvedUpTo
<1> DEFINE F(h) == [k \in 1..Len(File) |-> IsKept(h, k)]
<1>3. f = F(f)
  <2>1. \A k \in 1..Len(File) : IsKept(f, k) \in BOOLEAN
    BY DEF IsKept
  <2>2. \A k \in 1..Len(File) : f[k] = IsKept(f, k)
    BY <1>2, <2>1 DEF Solves
  <2> QED
    BY <2>2
<1>4. Keeps = CHOOSE h : h = F(h)
  BY DEF Keeps, IsKept
<1>5. Keeps = F(Keeps)
  BY <1>3, <1>4
<1> HIDE DEF F
<1>6. \A k \in 1..Len(File) : Keeps[k] = IsKept(Keeps, k)
  BY <1>5 DEF F
<1> QED
  BY <1>6

(* A chunk is cleared if it repeats the text before it (client.c 189).     *)
LEMMA NextText ==
    /\ TextOf(0) = Blank
    /\ \A n \in Nat : n > TotalPacketCount => TextOf(n) = Blank
    /\ \A n \in 1..TotalPacketCount :
          TextOf(n) = IF File[n] = TextOf(n - 1) THEN Blank ELSE File[n]
<1>1. Len(File) \in Nat /\ Len(File) > 0 /\ TotalPacketCount = Len(File)
  BY Sizes DEF TotalPacketCount
<1>2. \A n \in 1..Len(File) : File[n] # Blank
  <2>1. DOMAIN File = 1..Len(File)
    BY FileAssumption
  <2> QED
    BY FileAssumption, <2>1
<1>3. TextOf(0) = Blank /\ \A n \in Nat : n > TotalPacketCount => TextOf(n) = Blank
  BY <1>1 DEF TextOf
<1>4. ASSUME NEW n \in 1..TotalPacketCount
      PROVE  TextOf(n) = IF File[n] = TextOf(n - 1) THEN Blank ELSE File[n]
  <2>1. Keeps[n] <=> (n = 1 \/ File[n] # File[n - 1] \/ ~Keeps[n - 1])
    BY <1>1, KeepsSolves DEF IsKept
  <2>2. CASE n = 1
    BY <1>1, <1>2, <1>3, <2>1, <2>2 DEF TextOf
  <2>3. CASE n # 1
    <3>1. n - 1 \in 1..Len(File)
      BY <1>1, <2>3
    <3>2. TextOf(n - 1) = IF Keeps[n - 1] THEN File[n - 1] ELSE Blank
      BY <3>1 DEF TextOf
    <3> QED
      BY <1>1, <1>2, <2>1, <2>3, <3>2 DEF TextOf
  <2> QED
    BY <2>2, <2>3
<1> QED
  BY <1>3, <1>4

-----------------------------------------------------------------------------
(***************************************************************************)
(* What holds of every transfer, and the packets on their way.             *)
(***************************************************************************)
Sound == SystemInv /\ HistoryInv /\ PlacesInv

LEMMA Context ==
    ASSUME Sound, Ample
    PROVE  /\ ClientOK /\ ClientNumbers /\ ClientPlaced
           /\ Window \in Nat \ {0} /\ TotalPacketCount \in Nat \ {0}
           /\ Window <= TotalPacketCount
           /\ SockBuf \in Nat /\ Window < SockBuf
           /\ HeapFaults = {"harmless"} /\ Prompt
           /\ tpc \in 0..TotalPacketCount + 2 /\ rac \in Nat
           /\ slot \in 0..synAck.ws
           /\ pc \in {"build", "send", "resend"} => slot \in 1..synAck.ws
           /\ InHandshake => tpc = 0 /\ synAck.ws = 0
           /\ ~InHandshake => synAck.ws = Window /\ synAck.ack = 100 + Window
           /\ tp \in [1..synAck.ws -> Packet]
           /\ allp \in Seq(Slot) /\ Len(allp) \in Nat
<1>1. /\ ClientOK /\ ClientNumbers /\ ClientPlaced
  BY SystemFacts, HistoryFacts DEF Sound, PlacesInv, NamesBuilt, ClientPlaced
<1>2. allp \in Seq(Slot)
  BY SystemFacts DEF Sound, AnswersInv, Inv, StateTypeOK
<1> QED
  BY <1>1, <1>2, WindowBounds, SockBufAssumption, ClientTypes
     DEF Ample, ClientNumbers, ClientOK, WindowBuilt

LEMMA Joined ==
    ASSUME NEW T, NEW a \in Seq(T), NEW b \in Seq(T), NEW q, q = a \o b
    PROVE  /\ q \in Seq(T) /\ Len(q) = Len(a) + Len(b)
           /\ Len(q) \in Nat /\ Len(a) \in Nat /\ Len(b) \in Nat
           /\ \A k \in 1..Len(a) : q[k] = a[k]
           /\ \A k \in 1..Len(b) : q[Len(a) + k] = b[k]
           /\ \A k \in 1..Len(q) : k > Len(a) => k - Len(a) \in 1..Len(b)
                                              /\ q[k] = b[k - Len(a)]
OBVIOUS

LEMMA Ended ==
    ASSUME NEW T, NEW a \in Seq(T), NEW p \in T, NEW q, q = Append(a, p)
    PROVE  /\ q \in Seq(T) /\ Len(q) = Len(a) + 1 /\ Len(a) \in Nat /\ q # <<>>
           /\ \A k \in 1..Len(a) : q[k] = a[k]
           /\ q[Len(a) + 1] = p
OBVIOUS

LEMMA LastOfOne ==
    ASSUME NEW T, NEW q \in Seq(T), Len(q) = 1
    PROVE  Tail(q) = <<>>
<1>1. q # <<>>
  BY EmptySeq
<1>2. Tail(q) \in Seq(T) /\ Len(Tail(q)) = 0
  BY <1>1, HeadTailProperties
<1> QED
  BY <1>2, EmptySeq

LEMMA UpFacts ==
    ASSUME SystemInv
    PROVE  /\ Up \in Seq(ClientPacket) /\ Len(Up) \in Nat
           /\ Len(Up) = Len(e2s) + Len(c2e) /\ Len(e2s) \in Nat /\ Len(c2e) \in Nat
           /\ \A k \in 1..Len(e2s) : Up[k] = e2s[k]
           /\ c2e # <<>> => Up[Len(e2s) + 1] = Head(c2e) /\ Len(c2e) > 0
           /\ e2s # <<>> => Up[1] = Head(e2s) /\ Len(e2s) > 0
           /\ c2e = <<>> <=> Len(c2e) = 0
           /\ e2s = <<>> <=> Len(e2s) = 0
<1>1. c2e \in Seq(ClientPacket) /\ e2s \in Seq(ClientPacket)
  BY SystemFacts
<1> QED
  BY <1>1 DEF Up

LEMMA StreamFacts ==
    ASSUME SystemInv
    PROVE  /\ Stream \in Seq(Answer) /\ Len(Stream) \in Nat
           /\ Len(Stream) = Len(e2c) + Len(s2e) /\ Len(s2e) \in Nat /\ Len(e2c) \in Nat
           /\ e2c # <<>> => Stream[1] = Head(e2c) /\ Len(e2c) > 0
           /\ s2e # <<>> => Stream[Len(e2c) + 1] = Head(s2e) /\ Len(s2e) > 0
           /\ e2c = <<>> <=> Len(e2c) = 0
           /\ s2e = <<>> <=> Len(s2e) = 0
           /\ Stream = <<>> <=> Len(Stream) = 0
<1>1. e2c \in Seq(Answer) /\ s2e \in Seq(Answer)
  BY SystemFacts
<1> QED
  BY <1>1 DEF Stream

(* The client adds a packet at the end.                                    *)
LEMMA UpSent ==
    ASSUME SystemInv, NEW p \in ClientPacket, c2e' = Put(c2e, <<p>>), e2s' = e2s
    PROVE  /\ Len(Up') \in Nat /\ Len(Up) <= Len(Up')
           /\ \A k \in 1..Len(Up) : Up'[k] = Up[k]
           /\ Len(Up) < SockBuf =>
                  Len(Up') = Len(Up) + 1 /\ Up'[Len(Up) + 1] = p /\ c2e' # <<>>
<1>1. /\ c2e \in Seq(ClientPacket) /\ e2s \in Seq(ClientPacket)
      /\ Len(c2e) <= SockBuf
  BY SystemFacts
<1>2. c2e' = IF Len(c2e) < SockBuf THEN Append(c2e, p) ELSE c2e
  BY <1>1, PutOne
<1>3. SockBuf \in Nat /\ Up = e2s \o c2e /\ Up' = e2s \o c2e'
  BY SockBufAssumption DEF Up
<1>4. /\ Len(Up) = Len(e2s) + Len(c2e)
      /\ Len(Up) \in Nat /\ Len(e2s) \in Nat /\ Len(c2e) \in Nat
      /\ \A k \in 1..Len(e2s) : Up[k] = e2s[k]
      /\ \A k \in 1..Len(Up) : k > Len(e2s) => k - Len(e2s) \in 1..Len(c2e)
                                            /\ Up[k] = c2e[k - Len(e2s)]
  BY <1>1, <1>3, Joined
<1>5. CASE c2e' = Append(c2e, p)
  <2>1. /\ c2e' \in Seq(ClientPacket) /\ Len(c2e') = Len(c2e) + 1 /\ c2e' # <<>>
        /\ \A k \in 1..Len(c2e) : c2e'[k] = c2e[k]
        /\ c2e'[Len(c2e) + 1] = p
    BY <1>1, <1>5, Ended
  <2>2. /\ Len(Up') = Len(e2s) + Len(c2e')
        /\ \A k \in 1..Len(e2s) : Up'[k] = e2s[k]
        /\ \A k \in 1..Len(c2e') : Up'[Len(e2s) + k] = c2e'[k]
        /\ \A k \in 1..Len(Up') : k > Len(e2s) => k - Len(e2s) \in 1..Len(c2e')
                                            /\ Up'[k] = c2e'[k - Len(e2s)]
    BY <1>1, <1>3, <2>1, Joined
  <2>3. Len(Up') = Len(Up) + 1 /\ Up'[Len(Up) + 1] = p
    <3>1. Len(Up) + 1 = Len(e2s) + (Len(c2e) + 1) /\ Len(c2e) + 1 \in 1..Len(c2e')
      BY <1>4, <2>1
    <3>2. Up'[Len(e2s) + (Len(c2e) + 1)] = p
      BY <2>1, <2>2, <3>1
    <3> QED
      BY <1>4, <2>1, <2>2, <3>1, <3>2
  <2>4. ASSUME NEW k \in 1..Len(Up) PROVE Up'[k] = Up[k]
    <3>1. CASE k <= Len(e2s)
      BY <1>4, <2>2, <3>1
    <3>2. CASE k > Len(e2s)
      <4>1. k \in 1..Len(Up') /\ k - Len(e2s) \in 1..Len(c2e)
        BY <1>4, <2>3, <3>2
      <4>2. Up'[k] = c2e'[k - Len(e2s)] /\ Up[k] = c2e[k - Len(e2s)]
        BY <1>4, <2>2, <3>2, <4>1
      <4> QED
        BY <2>1, <4>1, <4>2
    <3> QED
      BY <1>4, <3>1, <3>2
  <2> QED
    BY <1>4, <2>1, <2>3, <2>4
<1>6. CASE c2e' = c2e /\ ~(Len(c2e) < SockBuf)
  <2>1. Up' = Up
    BY <1>3, <1>6
  <2>2. ~(Len(Up) < SockBuf)
    BY <1>3, <1>4, <1>6
  <2> QED
    BY <1>4, <2>1, <2>2
<1> QED
  BY <1>2, <1>5, <1>6

(* The emulator passes one on, which stays where it is in the order.       *)
LEMMA UpPassed ==
    ASSUME SystemInv, c2e # <<>>, c2e' = Tail(c2e), e2s' = Put(e2s, <<Head(c2e)>>)
    PROVE  /\ Len(Up) < SockBuf => Up' = Up
           /\ \A k \in 1..Len(Up) : k < SockBuf => k <= Len(Up') /\ Up'[k] = Up[k]
<1>1. /\ c2e \in Seq(ClientPacket) /\ e2s \in Seq(ClientPacket)
      /\ Len(e2s) <= SockBuf /\ SockBuf \in Nat
      /\ Head(c2e) \in ClientPacket /\ Tail(c2e) \in Seq(ClientPacket)
      /\ Len(c2e) > 0 /\ Len(Tail(c2e)) = Len(c2e) - 1
  BY SystemFacts, SockBufAssumption, HeadTailProperties
<1>2. e2s' = IF Len(e2s) < SockBuf THEN Append(e2s, Head(c2e)) ELSE e2s
  BY <1>1, PutOne
<1>3. Append(e2s, Head(c2e)) \o Tail(c2e) = e2s \o c2e
  BY <1>1, StreamTaken
<1>4. CASE Len(e2s) < SockBuf
  <2>1. Up' = Up
    BY <1>2, <1>3, <1>4 DEF Up
  <2> QED
    BY <2>1, UpFacts
<1>5. CASE ~(Len(e2s) < SockBuf)
  <2>1. Up = e2s \o c2e /\ Up' = e2s \o Tail(c2e)
    BY <1>2, <1>5 DEF Up
  <2>2. Len(e2s) = SockBuf
    BY <1>1, <1>5
  <2>3. ~(Len(Up) < SockBuf)
    BY <1>1, <2>1, <2>2
  <2>4. /\ \A k \in 1..Len(e2s) : Up'[k] = e2s[k] /\ Up[k] = e2s[k]
        /\ Len(Up') = Len(e2s) + Len(Tail(c2e)) /\ Len(Up) \in Nat
    BY <1>1, <2>1, Joined
  <2>5. ASSUME NEW k \in 1..Len(Up), k < SockBuf
        PROVE  k <= Len(Up') /\ Up'[k] = Up[k]
    <3>1. k \in 1..Len(e2s)
      BY <1>1, <2>2, <2>4, <2>5
    <3>2. Len(e2s) <= Len(Up')
      BY <1>1, <2>4
    <3> QED
      BY <1>1, <2>2, <2>4, <3>1, <3>2
  <2> QED
    BY <2>3, <2>5
<1> QED
  BY <1>4, <1>5

(* The server takes the first one.                                         *)
LEMMA UpTaken ==
    ASSUME SystemInv, e2s # <<>>, e2s' = Tail(e2s), c2e' = c2e
    PROVE  /\ Len(Up') = Len(Up) - 1 /\ Len(Up) > 0
           /\ \A k \in 1..Len(Up) - 1 : Up'[k] = Up[k + 1]
<1>1. c2e \in Seq(ClientPacket) /\ e2s \in Seq(ClientPacket)
  BY SystemFacts
<1> QED
  BY <1>1 DEF Up

-----------------------------------------------------------------------------
(***************************************************************************)
(* The client.                                                             *)
(***************************************************************************)
LEMMA ClientCases ==
    ASSUME ClientStep \/ ClientTimeout
    PROVE  /\ UNCHANGED <<phase, r, allp, maxW, rec, trn, prev, spc, e2s, s2e>>
           /\ \/ C!SendSyn /\ needed' = needed
              \/ C!SynTimeout /\ TimerFires
              \/ C!TakeSynAck /\ needed' = needed
              \/ /\ C!BuildWith(C!NextPacket) \/ C!BuildWith(C!NextPacketInSlot)
                 /\ needed' = needed
              \/ (C!Send \/ C!EarlierSend) /\ needed' = needed
              \/ C!Resend \/ C!EarlierResend
              \/ (C!Receive \/ C!EarlierReceive) /\ needed' = needed
              \/ C!Timeout /\ TimerFires
              \/ C!Repair /\ needed' = needed
<1>1. UNCHANGED <<phase, r, allp, maxW, rec, trn, prev, spc, e2s, s2e>>
  BY DEF ClientStep, ClientTimeout, ClientDoes, emulatorVars, serverVars
<1>2. CASE ClientStep
  BY <1>1, <1>2 DEF ClientStep, ClientDoes, AsStarted, C!Step, C!EarlierStep,
      C!ReceiveSynAck, C!EarlierReceiveSynAck, C!Build, C!EarlierBuild,
      C!EarlierSend, C!EarlierReceive
<1>3. CASE ClientTimeout
  BY <1>1, <1>3 DEF ClientTimeout, ClientDoes, AsStarted, C!Timeouts,
      C!EarlierTimeouts, C!EarlierTimeout
<1> QED
  BY <1>2, <1>3

(* Until EOT has been built something is always on its way.                *)
LEMMA NeverIdle ==
    ASSUME Sound, Ample, Greeting \/ Filling \/ Answering, spc = "listen",
           tpc <= TotalPacketCount + 1
    PROVE  ~Idle
<1>1. SUFFICES ASSUME Idle PROVE FALSE
  OBVIOUS
<1> USE DEF Sound
<1>2. CASE Greeting
  <2>1. pc = "handshake" /\ e2c = <<>> /\ e2s = <<>> /\ Len(Up) + Len(Stream) = 1
    BY <1>1, <1>2 DEF Greeting, Idle, InHandshake
  <2>2. s2e # <<>> \/ c2e # <<>>
    BY <2>1, UpFacts, StreamFacts
  <2> QED
    BY <1>1, <1>2, <2>1, <2>2 DEF Greeting, Idle
<1>3. CASE Filling
  <2>1. pc = "receive" /\ tpc = Len(allp) + Window /\ e2s = <<>>
    BY <1>1, <1>3 DEF Filling, AtWindow, Idle, InHandshake
  <2>2. Len(allp) # TotalPacketCount + 1
    BY <2>1, Context
  <2>3. phase = IF c2e # <<>> THEN "client" ELSE "server"
    BY <1>3, <2>1, <2>2 DEF Filling, Turns
  <2>4. c2e = <<>>
    BY <1>1, <2>3 DEF Idle
  <2>5. PICK j \in 0..Window - 1, extra \in 0..1 : Carried(j, extra)
    BY <1>3 DEF Filling
  <2>6. Len(Up) = extra + tpc - (Len(allp) + j)
    BY <2>1, <2>5 DEF Carried, SentOnce
  <2> QED
    BY <2>1, <2>4, <2>6, Context, UpFacts
<1>4. CASE Answering
  BY <1>1, <1>4, StreamFacts DEF Answering, Idle
<1> QED
  BY <1>2, <1>3, <1>4

LEMMA RowsStay ==
    ASSUME RowsWritten, allp' = allp
    PROVE  RowsWritten'
BY DEF RowsWritten

LEMMA HoldsStays ==
    ASSUME NEW j, Holds(j), UNCHANGED <<maxW, rec, trn, allp>>,
           tpc' <= TotalPacketCount + 1 => tpc <= TotalPacketCount + 1
    PROVE  Holds(j)'
BY DEF Holds, Held, Left

LEMMA SynGoesOut ==
    ASSUME Sound, Ample, Greeting, C!SendSyn, needed' = needed,
           UNCHANGED <<phase, allp, maxW, rec, prev, e2s, s2e>>
    PROVE  Greeting'
<1>1. /\ pc = "start" /\ pc' = "handshake" /\ UNCHANGED e2c
      /\ c2e' = Put(c2e, <<C!Syn(cgarbage.synRe)>>)
  BY SamePut DEF C!SendSyn
<1>2. C!Syn(cgarbage.synRe) \in ClientPacket
  <2>1. ClientOK /\ cgarbage.synRe \in {0, 1}
    BY Context, ClientTypes
  <2> QED
    BY <2>1, SynSent, SynOrBuilt
<1>3. /\ Len(Up) = 0 /\ Len(Stream) = 0
      /\ e2s = <<>> /\ s2e = <<>>
  BY <1>1, UpFacts, StreamFacts DEF Sound, Greeting
<1>4. Len(Up') = 1
  BY <1>1, <1>2, <1>3, Context, UpSent DEF Sound
<1>5. Stream' = Stream
  BY <1>1 DEF Stream
<1> QED
  BY <1>1, <1>3, <1>4, <1>5 DEF Greeting, InHandshake

LEMMA SynAckComes ==
    ASSUME Sound, Sound', Ample, Greeting, C!TakeSynAck, needed' = needed,
           UNCHANGED <<phase, allp, maxW, rec, trn, prev, e2s, s2e>>
    PROVE  Filling'
<1> USE DEF Sound
<1>1. /\ pc = "handshake" /\ e2c # <<>> /\ e2c' = Tail(e2c)
      /\ pc' = "build" /\ slot' = 1
      /\ UNCHANGED <<tpc, copy, rac, c2e>>
  BY DEF C!TakeSynAck
<1>2. /\ Len(Stream) = 1 /\ Len(e2c) = 1 /\ s2e = <<>> /\ Len(Up) = 0 /\ e2s = <<>>
      /\ Len(Stream) > 0
  <2>1. Len(Up) + Len(Stream) = 1
    BY <1>1 DEF Greeting
  <2>2. /\ Len(e2c) > 0 /\ Len(Stream) = Len(e2c) + Len(s2e)
        /\ Len(s2e) \in Nat /\ Len(e2c) \in Nat /\ (s2e = <<>> <=> Len(s2e) = 0)
    BY <1>1, StreamFacts
  <2>3. /\ Len(Up) \in Nat /\ Len(Up) = Len(e2s) + Len(c2e)
        /\ Len(e2s) \in Nat /\ Len(c2e) \in Nat /\ (e2s = <<>> <=> Len(e2s) = 0)
    BY UpFacts
  <2>4. Len(Stream) = 1 /\ Len(e2c) = 1 /\ Len(s2e) = 0 /\ Len(Up) = 0 /\ Len(e2s) = 0
    BY <2>1, <2>2, <2>3
  <2>5. s2e = <<>> /\ e2s = <<>>
    BY <2>2, <2>3, <2>4
  <2> QED
    BY <2>4, <2>5
<1>3. Stream' = <<>> /\ Up' = Up
  <2>1. e2c \in Seq(Answer)
    BY SystemFacts
  <2>2. Tail(e2c) = <<>>
    BY <1>2, <2>1, LastOfOne
  <2> QED
    BY <1>1, <1>2, <2>2 DEF Stream, Up
<1>4. /\ tpc = 0 /\ copy = C!NoPacket /\ Len(allp) = 0
  BY <1>1, Context DEF Greeting, InHandshake, ClientOK, WindowBuilt
<1>5. Window \in Nat \ {0} /\ TotalPacketCount \in Nat \ {0}
  BY Context
<1>6. AtWindow'
  <2>1. ~InHandshake'
    BY <1>1 DEF InHandshake
  <2>2. Copied'
    BY <1>1, <1>4, NextText DEF Copied, C!NoPacket, Greeting
  <2>3. Packed(Len(allp), slot - 1)'
    BY <1>1 DEF Packed
  <2> QED
    BY <1>1, <1>4, <1>5, <2>1, <2>2, <2>3 DEF AtWindow
<1>7. Turns'
  BY <1>1, <1>2, <1>3 DEF Turns, Greeting
<1>8. Carried(0, 0)'
  <2>1. maxW = Window /\ \A i \in 1..Window : rec[i].seq = 0 /\ rec[i].ws = 0
    <3>1. maxW = Window /\ \A i \in 1..Window : rec[i].seq = 0
      BY <1>1, <1>2, StreamFacts DEF Greeting
    <3> QED
      BY <3>1, SystemFacts DEF AnswersInv, Inv, SlotsFilled
  <2>2. NumberOf(Len(allp)) \in Nat
    BY <1>4, NumbersGrow
  <2>3. Holds(0)'
    BY <1>4, <2>1, <2>2 DEF Holds, Held, Left
  <2>4. SentOnce' = 0
    BY <1>1, <1>4 DEF SentOnce
  <2>5. Coming(Len(allp) + 0, 0)'
    BY <1>2, <1>3, <1>4, <2>4 DEF Coming
  <2> QED
    BY <1>1, <1>2, <1>3, <1>4, <1>5, <2>3, <2>4, <2>5 DEF Carried
<1> QED
  BY <1>5, <1>6, <1>7, <1>8 DEF Filling

(* The packet built next is packet tpc + 1 (client.c 155-204).             *)
LEMMA NextIs ==
    ASSUME Sound, Ample, Calm, pc = "build", Copied, Len(allp) + slot = tpc + 1,
           RowsWritten, NEW p \in {C!NextPacket, C!NextPacketInSlot}
    PROVE  /\ Is(p, tpc + 1)
           /\ tpc <= TotalPacketCount => p.data = TextOf(tpc + 1) /\ p.last = 0
<1> DEFINE u == C!Unstamped
           d == IF u.data = copy.data THEN Blank ELSE u.data
<1>1. /\ ClientOK /\ ClientNumbers /\ ClientPlaced
      /\ tpc \in Nat /\ tpc <= TotalPacketCount + 1
      /\ synAck.ws = Window /\ slot \in 1..Window
      /\ C!TotalPacketCount = TotalPacketCount
      /\ Window \in Nat \ {0} /\ TotalPacketCount \in Nat \ {0}
  BY Context, Sizes DEF ClientOK, WindowBuilt, InHandshake
<1>2. /\ u \in Packet
      /\ u.type = IF tpc = TotalPacketCount + 1 THEN EOT ELSE DATA
  BY <1>1, UnstampedFacts
<1>3. u.type = DATA => u.ack = NumberOf(tpc + 1)
  BY <1>1, UnstampedPlaced
<1>4. tpc <= TotalPacketCount => d = TextOf(tpc + 1) /\ u.last = 0
  <2> SUFFICES ASSUME tpc <= TotalPacketCount
               PROVE  d = TextOf(tpc + 1) /\ u.last = 0
    OBVIOUS
  <2>1. copy.data = TextOf(tpc) /\ copy.last = 0
    BY DEF Copied
  <2>2. CASE tpc = 0
    <3>1. copy = C!NoPacket
      BY <1>1, <2>2 DEF ClientOK, WindowBuilt
    <3>2. u = [C!NoPacket EXCEPT !.seq = synAck.ack, !.ack = synAck.ws, !.data = File[1]]
      BY <1>1, <2>2, <3>1 DEF C!Unstamped, C!NoPacket, C!W
    <3>3. u.data = File[1] /\ u.last = 0
      BY <3>2 DEF C!NoPacket
    <3> QED
      BY <1>1, <2>1, <2>2, <3>3, NextText
  <2>3. CASE tpc # 0
    <3>1. copy \in Packet /\ copy.seq > 0
      BY <1>1, <2>3 DEF ClientOK, WindowBuilt, Built, ClientPacket
    <3>2. CASE tpc < TotalPacketCount
      <4>1. u = [copy EXCEPT !.seq = copy.seq + Window, !.ack = copy.ack + Window,
                             !.data = File[tpc + 1]]
        BY <1>1, <3>1, <3>2 DEF C!Unstamped, C!W, Packet
      <4>2. u.data = File[tpc + 1] /\ u.last = 0
        BY <2>1, <3>1, <4>1 DEF Packet
      <4>3. TextOf(tpc + 1) = IF File[tpc + 1] = TextOf(tpc) THEN Blank ELSE File[tpc + 1]
        <5>1. tpc + 1 \in 1..TotalPacketCount /\ (tpc + 1) - 1 = tpc
          BY <1>1, <3>2
        <5> QED
          BY <5>1, NextText
      <4> QED
        BY <2>1, <4>2, <4>3
    <3>3. CASE tpc = TotalPacketCount
      <4>1. u = copy
        BY <1>1, <3>1, <3>3 DEF C!Unstamped, Packet
      <4>2. TextOf(tpc + 1) = Blank
        BY <1>1, <3>3, NextText
      <4> QED
        BY <2>1, <4>1, <4>2
    <3> QED
      BY <1>1, <3>2, <3>3
  <2> QED
    BY <2>2, <2>3
<1>5. cgarbage.dataRe = 0
  BY DEF Calm
<1> HIDE DEF u, d
<1>6. /\ p.type = u.type /\ p.ack = u.ack /\ p.last = u.last
      /\ p.data = d /\ p.re = 0
      /\ u.type = DATA => p.ws = slot
  <2>1. CASE p = C!NextPacket
    <3>1. p = [u EXCEPT !.ws = IF u.type = C!EOT THEN C!W ELSE slot, !.data = d, !.re = 0]
      BY <1>5, <2>1 DEF C!NextPacket, u, d
    <3> QED
      BY <1>2, <3>1, SameTypes DEF Packet, DATA, EOT
  <2>2. CASE p = C!NextPacketInSlot
    <3>1. p = [u EXCEPT !.ws = slot, !.data = d, !.re = 0]
      BY <1>5, <2>2 DEF C!NextPacketInSlot, u, d
    <3> QED
      BY <1>2, <3>1 DEF Packet
  <2> QED
    BY <2>1, <2>2
<1>7. InSlot(tpc + 1, slot)
  <2>1. PICK m \in 0..Len(allp) : Len(allp) = m * Window
    BY DEF RowsWritten
  <2>2. m \in Nat
    BY Context
  <2>3. InSlot(Len(allp) + slot, slot)
    BY <1>1, <2>1, <2>2, PlaceInWindow
  <2> QED
    BY <2>3
<1>8. CASE tpc = TotalPacketCount + 1
  <2>1. tpc + 1 = TotalPacketCount + 2 /\ ~(tpc <= TotalPacketCount)
    BY <1>1, <1>8
  <2> QED
    BY <1>2, <1>6, <1>8, <2>1 DEF Is
<1>9. CASE tpc # TotalPacketCount + 1
  <2>1. tpc <= TotalPacketCount /\ tpc + 1 # TotalPacketCount + 2
    BY <1>1, <1>9
  <2> QED
    BY <1>2, <1>3, <1>4, <1>6, <1>7, <1>9, <2>1 DEF Is
<1> QED
  BY <1>8, <1>9

LEMMA Builds ==
    ASSUME Sound, Ample, Calm, RowsWritten, Filling, needed' = needed,
           NEW p \in {C!NextPacket, C!NextPacketInSlot}, C!BuildWith(p),
           UNCHANGED <<phase, allp, maxW, rec, trn, e2s, s2e>>
    PROVE  Filling'
<1> USE DEF Sound
<1>1. /\ pc = "build" /\ copy' = p /\ tp' = [tp EXCEPT ![slot] = p] /\ tpc' = tpc + 1
      /\ IF slot = Window \/ p.type = EOT
         THEN pc' = "send" /\ slot' = 1
         ELSE slot' = slot + 1 /\ pc' = "build"
      /\ UNCHANGED <<synAck, acked, rac, c2e, e2c>>
  BY Context, SameTypes DEF C!BuildWith, C!W, InHandshake
<1>2. /\ ClientOK /\ synAck.ws = Window /\ slot \in 1..Window
      /\ tpc \in Nat /\ tpc <= TotalPacketCount + 1
      /\ Window \in Nat \ {0} /\ TotalPacketCount \in Nat \ {0}
      /\ tp \in [1..Window -> Packet] /\ Len(allp) \in Nat
  BY <1>1, Context DEF ClientOK, WindowBuilt, InHandshake
<1>3. /\ tpc = Len(allp) + slot - 1 /\ Packed(Len(allp), slot - 1) /\ Copied
      /\ Len(allp) <= TotalPacketCount + 1
  BY <1>1, <1>2 DEF Filling, AtWindow
<1>4. /\ Is(p, tpc + 1)
      /\ tpc <= TotalPacketCount => p.data = TextOf(tpc + 1) /\ p.last = 0
  <2>1. Len(allp) + slot = tpc + 1
    BY <1>2, <1>3
  <2> QED
    BY <1>1, <1>3, <2>1, NextIs
<1>5. p.type = IF tpc = TotalPacketCount + 1 THEN EOT ELSE DATA
  BY <1>1, <1>2, NextBuilt
<1>6. \A i \in 1..slot : Is(tp'[i], Len(allp) + i)
  <2> TAKE i \in 1..slot
  <2>1. CASE i = slot
    BY <1>1, <1>2, <1>3, <1>4, <2>1
  <2>2. CASE i # slot
    <3>1. i \in 1..slot - 1 /\ tp'[i] = tp[i]
      BY <1>1, <1>2, <2>2
    <3> QED
      BY <1>3, <3>1 DEF Packed
  <2> QED
    BY <2>1, <2>2
<1>7. Len(allp) + slot = tpc' /\ tpc' <= Len(allp) + Window
  BY <1>1, <1>2, <1>3
<1>8. AtWindow'
  <2>1. pc' = "build" => tpc' = Len(allp) + slot' - 1 /\ slot' - 1 = slot
    BY <1>1, <1>2, <1>7
  <2>2. pc' = "send" => /\ slot' = 1 /\ tpc' - Len(allp) = slot
                        /\ tpc' \in {Len(allp) + Window, TotalPacketCount + 2}
    BY <1>1, <1>2, <1>5, <1>7 DEF EOT, DATA
  <2>3. tpc' <= TotalPacketCount + 1 => Copied'
    BY <1>1, <1>2, <1>3, <1>4 DEF Copied
  <2>4. pc' \in {"build", "send"}
    BY <1>1
  <2>5. pc' = "build" => Packed(Len(allp), slot - 1)'
    BY <1>6, <2>1 DEF Packed
  <2>6. pc' = "send" => Packed(Len(allp), tpc - Len(allp))'
    BY <1>6, <2>2 DEF Packed
  <2>7. Len(allp) + 1 <= tpc'
    BY <1>2, <1>7
  <2> QED
    BY <1>3, <1>7, <2>1, <2>2, <2>3, <2>4, <2>5, <2>6, <2>7 DEF AtWindow, InHandshake
<1>9. Stream' = Stream /\ Up' = Up
  BY <1>1 DEF Stream, Up
<1>10. Turns'
  BY <1>1, <1>2, <1>9 DEF Filling, Turns
<1>11. PICK j \in 0..Window - 1, extra \in 0..1 : Carried(j, extra)
  BY DEF Filling
<1>12. SentOnce = Len(allp) /\ SentOnce' = Len(allp)
  BY <1>1, <1>2 DEF SentOnce
<1>13. Holds(j)'
  BY <1>1, <1>2, <1>11, HoldsStays DEF Carried
<1>14. Coming(Len(allp) + j, extra)'
  BY <1>1, <1>9, <1>11, <1>12 DEF Coming, Carried
<1>15. Carried(j, extra)'
  BY <1>1, <1>2, <1>9, <1>11, <1>12, <1>13, <1>14 DEF Carried
<1> QED
  BY <1>8, <1>10, <1>15 DEF Filling

(* The packet in the slot, marked, goes out for the first time.            *)
LEMMA SlotSent ==
    ASSUME Sound, Ample, RowsWritten, AtWindow, C!Send \/ C!EarlierSend
    PROVE  \E p \in ClientPacket :
              /\ IsSent(p, Len(allp) + slot)
              /\ tp' = [tp EXCEPT ![slot] = p] /\ c2e' = Put(c2e, <<p>>)
              /\ IF Len(allp) + slot = tpc
                 THEN pc' = "receive" /\ rac' = 0 /\ slot' = 0
                 ELSE slot' = slot + 1 /\ pc' = "send" /\ rac' = rac
<1> DEFINE q == tp[slot]
           n == Len(allp) + slot
           final == slot = Window \/ q.type = EOT
<1>1. /\ pc = "send" /\ UNCHANGED <<synAck, tpc, copy, e2c>>
  BY DEF C!Send, C!EarlierSend
<1>2. /\ ClientOK /\ synAck.ws = Window /\ slot \in 1..Window
      /\ tpc \in Nat /\ tpc <= TotalPacketCount + 2
      /\ Window \in Nat \ {0} /\ TotalPacketCount \in Nat \ {0}
      /\ Len(allp) \in Nat
      /\ q \in Built
  BY <1>1, Context DEF ClientOK, WindowBuilt, InHandshake
<1>3. /\ n <= tpc /\ tpc <= Len(allp) + Window /\ Is(q, n)
      /\ tpc \in {Len(allp) + Window, TotalPacketCount + 2}
  BY <1>1, <1>2 DEF AtWindow, Packed
<1>4. final <=> n = tpc
  <2>1. q.type = EOT <=> n = TotalPacketCount + 2
    BY <1>3 DEF Is, EOT, DATA
  <2> QED
    BY <1>2, <1>3, <2>1
<1>5. q.type = DATA => q.ws = slot /\ q.re = 0
  <2>1. PICK m \in 0..Len(allp) : Len(allp) = m * Window
    BY DEF RowsWritten
  <2>2. m \in Nat
    BY <1>2
  <2>3. q.type = DATA => InSlot(n, q.ws) /\ q.re = 0
    BY <1>3 DEF Is, EOT, DATA
  <2>4. \A s : InSlot(Len(allp) + slot, s) <=> s = slot
    BY <1>2, <2>1, <2>2, PlaceInWindow
  <2> QED
    BY <2>3, <2>4
<1>6. /\ q \in Packet /\ q \in ClientPacket
      /\ q.type \in {DATA, EOT}
  BY <1>2 DEF Built, ClientPacket, Packet
<1> HIDE DEF q, n, final
<1>7. ASSUME NEW p, C!Sending(p), C!ThenReceive(final),
             p.type = q.type, p.ack = q.ack, p.ws = q.ws, p.data = q.data,
             p.type = DATA => p.re = 0 /\ p.last = (IF final THEN 1 ELSE 0),
             p \in Packet, p.seq = q.seq, p.type = EOT => p.last = 1
      PROVE  /\ IsSent(p, n) /\ p \in ClientPacket
             /\ tp' = [tp EXCEPT ![slot] = p] /\ c2e' = Put(c2e, <<p>>)
             /\ IF n = tpc THEN pc' = "receive" /\ rac' = 0 /\ slot' = 0
                ELSE slot' = slot + 1 /\ pc' = "send" /\ rac' = rac
  <2>1. Is(p, n)
    BY <1>3, <1>7 DEF Is, q, n
  <2>2. p.type = DATA => (final <=> p.ws = Window)
    <3>1. q.type = DATA => (final <=> slot = Window)
      BY DEF final, EOT, DATA
    <3> QED
      BY <1>5, <1>7, <3>1
  <2>3. IsSent(p, n)
    BY <1>7, <2>1, <2>2 DEF IsSent
  <2>4. p \in ClientPacket
    BY <1>6, <1>7 DEF ClientPacket, SYN, EOT, DATA
  <2> QED
    BY <1>1, <1>4, <1>7, <2>3, <2>4, SamePut DEF C!Sending, C!ThenReceive
<1>8. ASSUME NEW last \in {0, 1}, NEW re \in {0, 1}
      PROVE  /\ [q EXCEPT !.last = last] \in Packet
             /\ [q EXCEPT !.last = last].type = q.type
             /\ [q EXCEPT !.last = last].seq = q.seq
             /\ [q EXCEPT !.last = last].ack = q.ack
             /\ [q EXCEPT !.last = last].ws = q.ws
             /\ [q EXCEPT !.last = last].data = q.data
             /\ [q EXCEPT !.last = last].re = q.re
             /\ [q EXCEPT !.last = last].last = last
             /\ [q EXCEPT !.last = last, !.re = re] \in Packet
             /\ [q EXCEPT !.last = last, !.re = re].type = q.type
             /\ [q EXCEPT !.last = last, !.re = re].seq = q.seq
             /\ [q EXCEPT !.last = last, !.re = re].ack = q.ack
             /\ [q EXCEPT !.last = last, !.re = re].ws = q.ws
             /\ [q EXCEPT !.last = last, !.re = re].data = q.data
             /\ [q EXCEPT !.last = last, !.re = re].re = re
             /\ [q EXCEPT !.last = last, !.re = re].last = last
  BY <1>6 DEF Packet
<1>9. q.type = EOT => final
  BY DEF final
<1>10. CASE C!Send
  <2> DEFINE p == IF final THEN [q EXCEPT !.last = 1] ELSE [q EXCEPT !.last = 0, !.re = 0]
  <2>1. C!Sending(p) /\ C!ThenReceive(final)
    BY <1>2, <1>10, SameTypes DEF C!Send, C!W, final, q
  <2>2. CASE final
    <3>1. p = [q EXCEPT !.last = 1]
      BY <2>2
    <3> HIDE DEF p
    <3>2. IsSent(p, n) /\ p \in ClientPacket
          /\ tp' = [tp EXCEPT ![slot] = p] /\ c2e' = Put(c2e, <<p>>)
          /\ IF n = tpc THEN pc' = "receive" /\ rac' = 0 /\ slot' = 0
             ELSE slot' = slot + 1 /\ pc' = "send" /\ rac' = rac
      BY <1>5, <1>7, <1>8, <2>1, <2>2, <3>1
    <3> QED
      BY <3>2 DEF n
  <2>3. CASE ~final
    <3>1. p = [q EXCEPT !.last = 0, !.re = 0]
      BY <2>3
    <3> HIDE DEF p
    <3>2. IsSent(p, n) /\ p \in ClientPacket
          /\ tp' = [tp EXCEPT ![slot] = p] /\ c2e' = Put(c2e, <<p>>)
          /\ IF n = tpc THEN pc' = "receive" /\ rac' = 0 /\ slot' = 0
             ELSE slot' = slot + 1 /\ pc' = "send" /\ rac' = rac
      BY <1>5, <1>7, <1>8, <1>9, <2>1, <2>3, <3>1
    <3> QED
      BY <3>2 DEF n
  <2> QED
    BY <2>2, <2>3
<1>11. CASE C!EarlierSend
  <2> DEFINE p == [q EXCEPT !.last = IF final THEN 1 ELSE 0]
  <2>1. C!Sending(p) /\ C!ThenReceive(final)
    BY <1>2, <1>11, SameTypes DEF C!EarlierSend, C!W, final, q
  <2>2. (IF final THEN 1 ELSE 0) \in {0, 1}
    OBVIOUS
  <2>3. IsSent(p, n) /\ p \in ClientPacket
        /\ tp' = [tp EXCEPT ![slot] = p] /\ c2e' = Put(c2e, <<p>>)
        /\ IF n = tpc THEN pc' = "receive" /\ rac' = 0 /\ slot' = 0
           ELSE slot' = slot + 1 /\ pc' = "send" /\ rac' = rac
    BY <1>5, <1>7, <1>8, <1>9, <2>1, <2>2
  <2> QED
    BY <2>3 DEF n
<1> QED
  BY <1>10, <1>11

LEMMA Sends ==
    ASSUME Sound, Ample, RowsWritten, Filling, needed' = needed,
           C!Send \/ C!EarlierSend,
           UNCHANGED <<phase, allp, maxW, rec, trn, e2s, s2e>>
    PROVE  Filling'
<1> USE DEF Sound
<1> DEFINE n == Len(allp) + slot
<1>1. /\ pc = "send" /\ UNCHANGED <<synAck, tpc, copy, e2c>>
  BY DEF C!Send, C!EarlierSend
<1>2. PICK p \in ClientPacket :
              /\ IsSent(p, n)
              /\ tp' = [tp EXCEPT ![slot] = p] /\ c2e' = Put(c2e, <<p>>)
              /\ IF n = tpc THEN pc' = "receive" /\ rac' = 0 /\ slot' = 0
                 ELSE slot' = slot + 1 /\ pc' = "send" /\ rac' = rac
  BY SlotSent DEF Filling
<1>3. /\ synAck.ws = Window /\ slot \in 1..Window
      /\ tpc \in Nat /\ tpc <= TotalPacketCount + 2
      /\ Window \in Nat \ {0} /\ TotalPacketCount \in Nat \ {0}
      /\ tp \in [1..Window -> Packet] /\ Len(allp) \in Nat
      /\ SockBuf \in Nat /\ Window < SockBuf
  BY <1>1, Context DEF InHandshake
<1>4. /\ n <= tpc /\ tpc <= Len(allp) + Window /\ Packed(Len(allp), tpc - Len(allp))
      /\ tpc \in {Len(allp) + Window, TotalPacketCount + 2}
      /\ Len(allp) <= TotalPacketCount + 1
      /\ tpc <= TotalPacketCount + 1 => Copied
  BY <1>1 DEF Filling, AtWindow
<1>5. PICK j \in 0..Window - 1, extra \in 0..1 : Carried(j, extra)
  BY DEF Filling
<1>6. /\ SentOnce = n - 1 /\ SentOnce' = n
  <2>1. pc' = "send" => SentOnce' = Len(allp) + slot' - 1
    BY <1>1 DEF SentOnce
  <2>2. pc' = "receive" => SentOnce' = tpc
    BY <1>1 DEF SentOnce
  <2> QED
    BY <1>1, <1>2, <1>3, <2>1, <2>2 DEF SentOnce
<1>7. /\ Len(Up) = extra + slot - 1 - j /\ Len(Up) \in Nat
      /\ extra = 1 => j = 0 /\ Len(allp) = TotalPacketCount + 1
      /\ j <= slot - 1
      /\ \A k \in 1..extra : Repeated(Up[k])
      /\ \A k \in 1..slot - 1 - j : IsSent(Up[extra + k], Len(allp) + j + k)
  <2>1. /\ Len(Up) = extra + SentOnce - (Len(allp) + j)
        /\ Len(allp) + j <= SentOnce
        /\ extra = 1 => j = 0 /\ Len(allp) = TotalPacketCount + 1
        /\ \A k \in 1..extra : Repeated(Up[k])
        /\ \A k \in 1..SentOnce - (Len(allp) + j) : IsSent(Up[extra + k], Len(allp) + j + k)
    BY <1>1, <1>5 DEF Carried, ExtraRepeated, Coming
  <2>2. SentOnce - (Len(allp) + j) = slot - 1 - j
    BY <1>3, <1>6
  <2>3. Len(Up) = extra + slot - 1 - j /\ j <= slot - 1
    BY <1>3, <1>6, <2>1
  <2>4. \A k \in 1..slot - 1 - j : IsSent(Up[extra + k], Len(allp) + j + k)
    BY <2>1, <2>2
  <2>5. Len(Up) \in Nat
    BY UpFacts
  <2> QED
    BY <2>1, <2>3, <2>4, <2>5
<1>8. Len(Up) < SockBuf
  BY <1>3, <1>4, <1>7
<1>9. /\ Len(Up') = Len(Up) + 1 /\ Up'[Len(Up) + 1] = p /\ c2e' # <<>>
      /\ \A k \in 1..Len(Up) : Up'[k] = Up[k]
  BY <1>2, <1>8, UpSent
<1>10. Coming(Len(allp) + j, extra)'
  <2>1. \A k \in 1..extra : Repeated(Up'[k])
    <3> TAKE k \in 1..extra
    <3>1. k \in 1..Len(Up)
      BY <1>3, <1>7
    <3> QED
      BY <1>7, <1>9, <3>1
  <2>2. \A k \in 1..slot - j : IsSent(Up'[extra + k], Len(allp) + j + k)
    <3> TAKE k \in 1..slot - j
    <3>1. CASE k <= slot - 1 - j
      <4>1. extra + k \in 1..Len(Up) /\ k \in 1..slot - 1 - j
        BY <1>3, <1>7, <3>1
      <4> QED
        BY <1>7, <1>9, <4>1
    <3>2. CASE k > slot - 1 - j
      <4>1. extra + k = Len(Up) + 1 /\ Len(allp) + j + k = n
        BY <1>3, <1>7, <3>2
      <4> QED
        BY <1>2, <1>9, <4>1
    <3> QED
      BY <1>3, <3>1, <3>2
  <2>3. SentOnce' - (Len(allp) + j) = slot - j /\ extra + SentOnce' - (Len(allp) + j) <= Len(Up')
    BY <1>3, <1>6, <1>7, <1>9
  <2> QED
    BY <1>3, <2>1, <2>2, <2>3 DEF Coming
<1>11. Carried(j, extra)'
  <2>1. Holds(j)'
    BY <1>1, <1>5, HoldsStays DEF Carried
  <2>2. Len(Up') = extra + SentOnce' - (Len(allp) + j) /\ Len(allp) + j <= SentOnce'
    BY <1>3, <1>6, <1>7, <1>9
  <2>3. pc' # "repair"
    BY <1>2
  <2> QED
    BY <1>3, <1>5, <1>10, <2>1, <2>2, <2>3 DEF Carried
<1>12. AtWindow'
  <2>1. \A k \in 1..tpc - Len(allp) : Is(tp'[k], Len(allp) + k)
    <3> TAKE k \in 1..tpc - Len(allp)
    <3>1. CASE k = slot
      BY <1>2, <1>3, <3>1 DEF IsSent
    <3>2. CASE k # slot
      <4>1. k \in 1..Window /\ tp'[k] = tp[k]
        BY <1>2, <1>3, <1>4, <3>2
      <4> QED
        BY <1>4 , <4>1 DEF Packed
    <3> QED
      BY <3>1, <3>2
  <2>2. Packed(Len(allp), tpc - Len(allp))'
    BY <1>1, <2>1 DEF Packed
  <2>3. pc' = "send" => Len(allp) + slot' <= tpc
    BY <1>2, <1>3, <1>4
  <2>4. pc' = "receive" /\ tpc <= TotalPacketCount + 1 =>
            rac' = 0 /\ tpc = Len(allp) + Window /\ Packed(Len(allp), Window)'
    <3>1. pc' = "receive" => rac' = 0
      BY <1>2
    <3>2. tpc <= TotalPacketCount + 1 => tpc = Len(allp) + Window
      BY <1>3, <1>4
    <3>3. tpc = Len(allp) + Window => tpc - Len(allp) = Window
      BY <1>3
    <3> QED
      BY <2>1, <3>1, <3>2, <3>3 DEF Packed
  <2>5. tpc <= TotalPacketCount + 1 => Copied'
    BY <1>1, <1>4 DEF Copied
  <2>6. pc' \in {"send", "receive"}
    BY <1>2
  <2> QED
    BY <1>1, <1>3, <1>4, <2>2, <2>3, <2>4, <2>5, <2>6 DEF AtWindow, InHandshake
<1>13. Turns'
  <2>1. Stream' = Stream
    BY <1>1 DEF Stream
  <2> QED
    BY <1>1, <1>2, <1>9, <2>1 DEF Filling, Turns
<1> QED
  BY <1>3, <1>11, <1>12, <1>13 DEF Filling

(* While EOT is on its way, whatever waits in front of it stays there.     *)
LEMMA LateStep ==
    ASSUME Sound, Ample, Filling, tpc = TotalPacketCount + 2, tpc' = tpc,
           pc \notin {"build", "send"}, pc' \in {"receive", "repair", "done"},
           UNCHANGED <<allp, maxW, rec>>, Len(Up') \in Nat,
           \A k \in 1..Len(Up) : k < SockBuf => k <= Len(Up') /\ Up'[k] = Up[k]
    PROVE  Filling'
<1>1. /\ Window \in Nat \ {0} /\ TotalPacketCount \in Nat \ {0}
      /\ Len(allp) \in Nat /\ tpc \in Nat
      /\ SockBuf \in Nat /\ Window < SockBuf
  BY Context
<1>2. PICK j \in 0..Window - 1, extra \in 0..1 : Carried(j, extra)
  BY DEF Filling
<1>3. ~(tpc <= TotalPacketCount + 1)
  BY <1>1
<1>4. SentOnce = tpc /\ SentOnce' = tpc
  BY DEF SentOnce
<1>5. tpc <= Len(allp) + Window /\ Len(allp) <= TotalPacketCount + 1
  BY DEF Filling, AtWindow
<1>6. AtWindow'
  BY <1>3, <1>5 DEF AtWindow, InHandshake
<1>7. Turns'
  BY <1>3 DEF Turns
<1>8. Carried(j, extra)'
  <2> DEFINE m == extra + tpc - (Len(allp) + j)
  <2>1. /\ extra = 1 => j = 0 /\ Window > 1 /\ Len(allp) = TotalPacketCount + 1
        /\ Len(allp) + j <= tpc /\ m <= Len(Up)
    BY <1>2, <1>4 DEF Carried, ExtraRepeated, Coming
  <2>2. m < SockBuf
    BY <1>1, <1>5, <2>1
  <2>3. Len(Up) \in Nat
    BY UpFacts DEF Sound
  <2>4. m \in Nat /\ (m = 0 \/ m \in 1..Len(Up))
    BY <1>1, <2>1, <2>3
  <2>5. m <= Len(Up')
    BY <2>2, <2>4
  <2>6. \A k \in 1..m : Up'[k] = Up[k]
    BY <1>1, <2>1, <2>2, <2>3
  <2>7. Coming(Len(allp) + j, extra)
    BY <1>2 DEF Carried
  <2>8. Coming(Len(allp) + j, extra)'
    <3>1. \A k \in 1..extra : k \in 1..m
      BY <1>1, <2>1
    <3>2. \A k \in 1..tpc - (Len(allp) + j) : extra + k \in 1..m
      BY <1>1, <2>1
    <3> HIDE DEF m
    <3>3. \A k \in 1..extra : Repeated(Up'[k])
      BY <2>6, <2>7, <3>1 DEF Coming
    <3>4. \A k \in 1..tpc - (Len(allp) + j) : IsSent(Up'[extra + k], Len(allp) + j + k)
      BY <1>4, <2>6, <2>7, <3>2 DEF Coming
    <3> QED
      BY <1>4, <2>5, <3>3, <3>4 DEF Coming, m
  <2>9. Holds(j)'
    <3>1. Holds(j)
      BY <1>2 DEF Carried
    <3> QED
      BY <1>3, <3>1 DEF Holds, Held, Left
  <2> HIDE DEF m
  <2> QED
    BY <1>2, <1>3, <1>4, <2>8, <2>9 DEF Carried
<1> QED
  BY <1>1, <1>2, <1>6, <1>7, <1>8 DEF Filling

LEMMA Repairs ==
    ASSUME Sound, Ample, RowsWritten, Filling, needed' = needed, C!Repair,
           UNCHANGED <<phase, allp, maxW, rec, trn, e2s, s2e>>
    PROVE  Filling'
<1> USE DEF Sound
<1> DEFINE missing == {i \in 1..C!W : acked[i] # 1}
           i == CHOOSE k \in missing : \A m \in missing : k <= m
<1>1. /\ pc = "repair" /\ UNCHANGED <<synAck, tpc, copy, tp, e2c>>
      /\ C!TotalPacketCount = TotalPacketCount
  BY SameSizes DEF C!Repair
<1>2. /\ ClientOK /\ synAck.ws = Window /\ C!W = Window
      /\ tpc \in Nat /\ tpc <= TotalPacketCount + 2
      /\ Window \in Nat \ {0} /\ TotalPacketCount \in Nat \ {0}
      /\ Len(allp) \in Nat /\ SockBuf \in Nat /\ Window < SockBuf
      /\ \A k \in 1..Window : tp[k] \in Built
  BY <1>1, Context DEF InHandshake, C!W, ClientOK, WindowBuilt
<1>3. missing # {} =>
        /\ i \in 1..Window /\ acked[i] # 1
        /\ acked' = [acked EXCEPT ![i] = 1]
        /\ c2e' = Put(c2e, <<[tp[i] EXCEPT !.re = 1]>>)
        /\ [tp[i] EXCEPT !.re = 1] \in ClientPacket
        /\ UNCHANGED <<pc, slot>>
  <2> SUFFICES ASSUME missing # {}
               PROVE  /\ i \in 1..Window /\ acked[i] # 1
                      /\ acked' = [acked EXCEPT ![i] = 1]
                      /\ c2e' = Put(c2e, <<[tp[i] EXCEPT !.re = 1]>>)
                      /\ [tp[i] EXCEPT !.re = 1] \in ClientPacket
                      /\ UNCHANGED <<pc, slot>>
    OBVIOUS
  <2>1. /\ c2e' = Put(c2e, <<[tp[i] EXCEPT !.re = 1]>>)
        /\ acked' = [acked EXCEPT ![i] = 1]
        /\ UNCHANGED <<pc, slot>>
    BY SamePut DEF C!Repair
  <2>2. missing \in SUBSET Nat
    BY <1>2
  <2>3. i \in missing
    BY <2>2, LeastElement
  <2>4. i \in 1..Window /\ acked[i] # 1
    BY <1>2, <2>3
  <2> HIDE DEF i
  <2>5. tp[i] \in Built
    BY <1>2, <2>4
  <2>6. [tp[i] EXCEPT !.re = 1] \in ClientPacket
    BY <2>5 DEF Built, ClientPacket, Packet
  <2> QED
    BY <2>1, <2>4, <2>6
<1>4. missing = {} =>
        /\ UNCHANGED <<acked, c2e>>
        /\ IF tpc <= TotalPacketCount + 1 THEN pc' = "build" /\ slot' = 1
           ELSE pc' = "done"
  BY <1>1 DEF C!Repair, C!MoreWindows
<1>5. missing = {} \/ \E k \in 1..Window : acked[k] # 1
  BY <1>2
<1> HIDE DEF missing, i
<1>6. Up \in Seq(ClientPacket) /\ Len(Up) \in Nat
  BY UpFacts
<1>7. /\ Len(Up') \in Nat /\ Len(Up) <= Len(Up')
      /\ \A k \in 1..Len(Up) : Up'[k] = Up[k]
  <2>1. CASE missing = {}
    <3>1. Up' = Up
      BY <1>4, <2>1 DEF Up
    <3> QED
      BY <1>6, <3>1
  <2>2. CASE missing # {}
    BY <1>3, <2>2, UpSent
  <2> QED
    BY <2>1, <2>2
<1>8. CASE tpc = TotalPacketCount + 2
  <2>1. pc' \in {"receive", "repair", "done"}
    BY <1>1, <1>2, <1>3, <1>4, <1>8
  <2>2. \A k \in 1..Len(Up) : k < SockBuf => k <= Len(Up') /\ Up'[k] = Up[k]
    BY <1>6, <1>7
  <2> QED
    BY <1>1, <1>7, <1>8, <2>1, <2>2, LateStep
<1>9. CASE tpc <= TotalPacketCount + 1
  <2>1. /\ tpc = Len(allp) /\ Packed(tpc - Window, Window) /\ Copied
    BY <1>1, <1>9 DEF Filling, AtWindow
  <2>2. PICK j \in 0..Window - 1, extra \in 0..1 : Carried(j, extra)
    BY DEF Filling
  <2>3. SentOnce = tpc
    BY <1>1 DEF SentOnce
  <2>4. /\ j = 0 /\ Len(Up) = extra
        /\ \A k \in 1..Window : acked[k] = 1 \/ (k = Window /\ extra = 0 /\ ExtraRepeated(tpc))
        /\ \A k \in 1..extra : Repeated(Up[k])
        /\ extra = 1 => ExtraRepeated(tpc)
        /\ Holds(0)
    <3>1. /\ Len(allp) + j <= tpc /\ Len(Up) = extra + tpc - (Len(allp) + j)
          /\ \A k \in 1..extra : Repeated(Up[k])
          /\ \A k \in 1..Window : acked[k] = 1 \/ (k = Window /\ extra = 0 /\ ExtraRepeated(tpc))
          /\ extra = 1 => ExtraRepeated(Len(allp))
          /\ Holds(j)
      BY <1>1, <1>9, <2>2, <2>3 DEF Carried, Coming
    <3>2. j = 0
      BY <1>2, <2>1, <3>1
    <3>3. Len(Up) = extra
      BY <1>2, <2>1, <3>1, <3>2
    <3> QED
      BY <2>1, <3>1, <3>2, <3>3
  <2>5. Holds(0)'
    BY <1>1, <2>4, HoldsStays
  <2>6. Copied'
    BY <1>1, <2>1 DEF Copied
  <2>7. Stream' = Stream
    BY <1>1 DEF Stream
  <2>8. Turns'
    <3>1. pc' # "receive" /\ pc # "receive"
      BY <1>1, <1>3, <1>4, <1>9
    <3> QED
      BY <1>1, <2>7, <3>1 DEF Filling, Turns
  <2>9. CASE missing = {}
    <3>1. pc' = "build" /\ slot' = 1 /\ c2e' = c2e /\ acked' = acked
      BY <1>4, <1>9, <2>9
    <3>2. Up' = Up /\ SentOnce' = tpc
      BY <2>1, <3>1 DEF Up, SentOnce
    <3>3. AtWindow'
      <4>1. Packed(Len(allp), slot - 1)'
        BY <3>1 DEF Packed
      <4> QED
        BY <1>1, <1>2, <1>9, <2>1, <2>6, <3>1, <4>1 DEF AtWindow, InHandshake
    <3>4. Coming(Len(allp) + 0, extra)'
      BY <1>2, <2>1, <2>4, <3>2 DEF Coming
    <3>5. Carried(0, extra)'
      BY <1>1, <1>2, <1>9, <2>1, <2>4, <2>5, <3>1, <3>2, <3>4 DEF Carried
    <3> QED
      BY <1>2, <2>8, <3>3, <3>5 DEF Filling
  <2>10. CASE missing # {}
    <3> DEFINE p == [tp[Window] EXCEPT !.re = 1]
    <3>1. i = Window /\ extra = 0 /\ ExtraRepeated(tpc)
      BY <1>3, <2>4, <2>10
    <3>2. /\ acked' = [acked EXCEPT ![Window] = 1] /\ c2e' = Put(c2e, <<p>>)
          /\ p \in ClientPacket /\ UNCHANGED <<pc, slot>>
      BY <1>3, <2>10, <3>1
    <3>3. Repeated(p)
      <4>1. tp[Window] \in Packet
        BY <1>2 DEF Built, ClientPacket
      <4>2. Window \in 1..Window /\ tpc - Window + Window = TotalPacketCount + 1
        BY <1>2, <3>1 DEF ExtraRepeated
      <4>3. Is(tp[Window], TotalPacketCount + 1)
        BY <2>1, <4>2 DEF Packed
      <4>4. /\ tp[Window].type = DATA /\ InSlot(TotalPacketCount + 1, tp[Window].ws)
            /\ tp[Window].data = Blank
        BY <1>2, <4>3, NextText DEF Is
      <4>5. tp[Window].ws = Window
        <5>1. PICK m \in 0..Len(allp) : Len(allp) = m * Window
          BY DEF RowsWritten
        <5>2. m # 0 /\ m \in Nat /\ Len(allp) = TotalPacketCount + 1
          <6>1. m \in Nat /\ Len(allp) = TotalPacketCount + 1
            BY <1>2, <2>1, <3>1 DEF ExtraRepeated
          <6>2. m = 0 => Len(allp) = 0
            BY <1>2, <5>1
          <6> QED
            BY <1>2, <6>1, <6>2
        <5>3. (m - 1) * Window + Window = TotalPacketCount + 1 /\ m - 1 \in Nat
          <6>1. (m - 1) * Window + Window = m * Window /\ m - 1 \in Nat
            BY <1>2, <5>2
          <6> QED
            BY <5>1, <5>2, <6>1
        <5> DEFINE l == (m - 1) * Window
        <5>4. \A s : InSlot(l + Window, s) <=> s = Window
          BY <4>2, <5>3, PlaceInWindow
        <5>5. l + Window = TotalPacketCount + 1
          BY <5>3
        <5> QED
          BY <4>4, <5>4, <5>5
      <4> QED
        BY <4>1, <4>4, <4>5 DEF Repeated, Packet
    <3>4. Len(Up') = 1 /\ Up'[1] = p
      <4>1. Len(Up) = 0 /\ Len(Up) < SockBuf
        BY <1>2, <2>4, <3>1
      <4> QED
        BY <3>2, <4>1, UpSent
    <3>5. AtWindow'
      BY <1>1, <1>2, <1>9, <2>1, <2>6, <3>2 DEF AtWindow, InHandshake, Packed
    <3>6. SentOnce' = tpc
      BY <1>1, <3>2 DEF SentOnce
    <3>7. Coming(Len(allp) + 0, 1)'
      BY <1>2, <2>1, <3>3, <3>4, <3>6 DEF Coming
    <3>8. \A k \in 1..Window : acked'[k] = 1
      <4>1. acked \in [1..Window -> {0, 1}]
        BY <1>2, ClientTypes
      <4> QED
        BY <1>2, <2>4, <3>2, <4>1
    <3>9. Carried(0, 1)'
      BY <1>1, <1>2, <1>9, <2>1, <2>5, <3>1, <3>2, <3>4, <3>6, <3>7, <3>8
         DEF Carried, ExtraRepeated
    <3> QED
      BY <1>2, <2>8, <3>5, <3>9 DEF Filling
  <2> QED
    BY <2>9, <2>10
<1> QED
  BY <1>2, <1>8, <1>9

(* Whatever ends a loop of Receive before EOT: the acknowledgement counted. *)
LEMMA Counted ==
    ASSUME ClientOK, synAck.ws = Window, Window \in Nat, rac < Window, needed = 0,
           C!Receive \/ C!EarlierReceive, NEW a, a = Head(e2c)
    PROVE  /\ pc = "receive" /\ UNCHANGED <<slot, synAck, tpc, copy, tp, c2e>>
           /\ e2c # <<>> /\ e2c' = Tail(e2c)
           /\ pc' = IF a.last = 1 THEN "repair" ELSE "receive"
           /\ \A i \in 1..Window : acked[i] = 1 => acked'[i] = 1
           /\ a.type = ACK /\ a.seq = tp[rac + 1].ack =>
                  rac' = rac + 1 /\ acked'[rac + 1] = 1
<1>1. /\ pc = "receive" /\ UNCHANGED <<slot, synAck, tpc, copy, tp, c2e>>
      /\ e2c # <<>> /\ e2c' = Tail(e2c)
      /\ pc' = IF a.last = 1 THEN "repair" ELSE "receive"
  BY DEF C!Receive, C!EarlierReceive
<1>2. /\ rac \in Nat /\ acked \in [1..Window -> {0, 1}]
  BY ClientTypes
<1>3. \/ UNCHANGED <<rac, acked>> /\ (a.type # ACK \/ a.seq # tp[rac + 1].ack)
      \/ a.type = ACK /\ C!NoteAckAs(a, a.seq = tp[rac + 1].ack)
  <2>1. C!Expected(a) = {a.seq = tp[rac + 1].ack}
    BY DEF C!Expected, C!W
  <2> QED
    BY <2>1, SameTypes DEF C!Receive, C!EarlierReceive, C!NoteAck, C!EarlierNoteAck
<1>4. CASE UNCHANGED <<rac, acked>> /\ (a.type # ACK \/ a.seq # tp[rac + 1].ack)
  BY <1>1, <1>4
<1>5. CASE a.type = ACK /\ C!NoteAckAs(a, a.seq = tp[rac + 1].ack)
  <2>1. /\ rac' = IF a.seq = tp[rac + 1].ack THEN rac + 1 ELSE rac
        /\ acked' = [i \in 1..Window |->
                       IF IF a.seq = tp[rac + 1].ack THEN i = rac + 1 ELSE a.seq = tp[i].ack
                       THEN 1 ELSE acked[i]]
    BY <1>5 DEF C!NoteAckAs, C!W
  <2>2. rac + 1 \in 1..Window
    BY <1>2
  <2>3. \A i \in 1..Window : acked[i] = 1 => acked'[i] = 1
    BY <2>1
  <2>4. a.seq = tp[rac + 1].ack => rac' = rac + 1 /\ acked'[rac + 1] = 1
    BY <2>1, <2>2
  <2> QED
    BY <1>1, <2>3, <2>4
<1> QED
  BY <1>3, <1>4, <1>5

LEMMA StreamCounted ==
    ASSUME SystemInv, e2c # <<>>, e2c' = Tail(e2c), s2e' = s2e
    PROVE  /\ Len(Stream') = Len(Stream) - 1 /\ Len(Stream) > 0
           /\ \A k \in 1..Len(Stream) - 1 : Stream'[k] = Stream[k + 1]
           /\ Stream' = <<>> <=> Len(Stream') = 0
<1>1. /\ e2c \in Seq(Answer) /\ s2e \in Seq(Answer)
      /\ Stream = e2c \o s2e /\ Stream' = Tail(e2c) \o s2e
  BY SystemFacts DEF Stream
<1>2. /\ Tail(e2c) \in Seq(Answer) /\ Len(Tail(e2c)) = Len(e2c) - 1 /\ Len(e2c) > 0
      /\ \A k \in 1..Len(e2c) - 1 : Tail(e2c)[k] = e2c[k + 1]
  BY <1>1, HeadTailProperties
<1>3. /\ Len(Stream) = Len(e2c) + Len(s2e) /\ Len(e2c) \in Nat /\ Len(s2e) \in Nat
      /\ \A k \in 1..Len(e2c) : Stream[k] = e2c[k]
      /\ \A k \in 1..Len(s2e) : Stream[Len(e2c) + k] = s2e[k]
  BY <1>1, Joined
<1>4. /\ Stream' \in Seq(Answer) /\ Len(Stream') = Len(Tail(e2c)) + Len(s2e)
      /\ \A k \in 1..Len(Tail(e2c)) : Stream'[k] = Tail(e2c)[k]
      /\ \A k \in 1..Len(s2e) : Stream'[Len(Tail(e2c)) + k] = s2e[k]
  BY <1>1, <1>2, Joined
<1>5. Len(Stream') = Len(Stream) - 1 /\ Len(Stream) > 0
  BY <1>2, <1>3, <1>4
<1>6. ASSUME NEW k \in 1..Len(Stream) - 1 PROVE Stream'[k] = Stream[k + 1]
  <2>1. CASE k <= Len(e2c) - 1
    <3>1. k \in 1..Len(Tail(e2c)) /\ k \in 1..Len(e2c) - 1 /\ k + 1 \in 1..Len(e2c)
      BY <1>2, <1>3, <2>1
    <3> QED
      BY <1>2, <1>3, <1>4, <3>1
  <2>2. CASE k > Len(e2c) - 1
    <3> DEFINE m == k - (Len(e2c) - 1)
    <3>1. /\ m \in 1..Len(s2e) /\ k = Len(Tail(e2c)) + m /\ k + 1 = Len(e2c) + m
      BY <1>2, <1>3, <2>2
    <3> HIDE DEF m
    <3> QED
      BY <1>3, <1>4, <3>1
  <2> QED
    BY <1>3, <2>1, <2>2
<1>7. Stream' = <<>> <=> Len(Stream') = 0
  BY <1>4, EmptySeq
<1> QED
  BY <1>5, <1>6, <1>7

LEMMA Answered ==
    ASSUME Sound, Ample, RowsWritten, Answering, needed' = needed,
           C!Receive \/ C!EarlierReceive,
           UNCHANGED <<phase, allp, maxW, rec, trn, e2s, s2e>>
    PROVE  Answering' \/ Filling'
<1> USE DEF Sound
<1> DEFINE a == Head(e2c)
<1>1. /\ ClientOK /\ synAck.ws = Window /\ rac \in Nat
      /\ tpc \in Nat /\ Len(allp) \in Nat
      /\ Window \in Nat \ {0} /\ TotalPacketCount \in Nat \ {0}
  BY Context DEF Answering, InHandshake
<1>2. /\ pc = "receive" /\ tpc <= TotalPacketCount + 1 /\ tpc = Len(allp)
      /\ Packed(tpc - Window, Window) /\ Copied
      /\ Holds(0) /\ Up = <<>>
      /\ Stream # <<>> /\ rac + Len(Stream) = Window
      /\ \A k \in 1..Len(Stream) : Answers(Stream[k], rac + k)
      /\ \A i \in 1..rac : acked[i] = 1
      /\ phase = IF s2e = <<>> THEN "client" ELSE "server"
  BY DEF Answering
<1>3. /\ Len(Stream) \in Nat /\ Len(Stream) > 0 /\ rac < Window
  BY <1>1, <1>2, StreamFacts
<1>4. /\ UNCHANGED <<slot, synAck, tpc, copy, tp, c2e>>
      /\ e2c # <<>> /\ e2c' = Tail(e2c)
      /\ pc' = IF a.last = 1 THEN "repair" ELSE "receive"
      /\ \A i \in 1..Window : acked[i] = 1 => acked'[i] = 1
      /\ a.type = ACK /\ a.seq = tp[rac + 1].ack =>
             rac' = rac + 1 /\ acked'[rac + 1] = 1
  BY <1>1, <1>2, <1>3, Counted DEF Copied
<1>5. a = Stream[1] /\ Answers(a, rac + 1)
  <2>1. a = Stream[1] /\ 1 \in 1..Len(Stream)
    BY <1>3, <1>4, StreamFacts
  <2> QED
    BY <1>2, <2>1
<1> HIDE DEF a
<1>6. ~ExtraRepeated(tpc - Window + (rac + 1)) =>
          rac' = rac + 1 /\ acked'[rac + 1] = 1
  <2> DEFINE n == tpc - Window + (rac + 1)
  <2>1. Is(tp[rac + 1], n) /\ n <= TotalPacketCount + 1
    <3>1. rac + 1 \in 1..Window /\ n <= TotalPacketCount + 1
      BY <1>1, <1>2, <1>3
    <3> QED
      BY <1>2, <3>1 DEF Packed
  <2>2. tp[rac + 1].ack = NumberOf(n)
    <3>1. n # TotalPacketCount + 2
      BY <1>1, <2>1
    <3> QED
      BY <2>1, <3>1 DEF Is
  <2>3. ~ExtraRepeated(n) => a.type = ACK /\ a.seq = NumberOf(n)
    BY <1>5 DEF Answers
  <2> QED
    BY <1>4, <2>2, <2>3
<1>7. /\ Len(Stream') = Len(Stream) - 1
      /\ \A k \in 1..Len(Stream) - 1 : Stream'[k] = Stream[k + 1]
      /\ Stream' = <<>> <=> Len(Stream') = 0
  BY <1>4, StreamCounted
<1>8. Up' = Up
  BY <1>4 DEF Up
<1>9. Holds(0)' /\ Copied' /\ Packed(tpc - Window, Window)'
  BY <1>2, <1>4, HoldsStays DEF Copied, Packed
<1>10. CASE rac + 1 # Window
  <2>1. a.last # 1 /\ ~ExtraRepeated(tpc - Window + (rac + 1))
    <3>1. a.last # 1
      BY <1>5, <1>10 DEF Answers
    <3>2. tpc - Window + (rac + 1) # TotalPacketCount + 1
      BY <1>1, <1>2, <1>3, <1>10
    <3> QED
      BY <3>1, <3>2 DEF ExtraRepeated
  <2>2. pc' = "receive" /\ rac' = rac + 1 /\ acked'[rac + 1] = 1
    BY <1>4, <1>6, <2>1
  <2>3. rac' + Len(Stream') = Window /\ Stream' # <<>>
    <3>1. rac + Len(Stream) = Window
      BY <1>2
    <3>2. (rac + 1) + (Len(Stream) - 1) = Window /\ Len(Stream) - 1 # 0
      <4>1. ASSUME NEW a1 \in Nat, NEW b1 \in Nat, NEW c1 \in Nat, a1 + b1 = c1, a1 + 1 # c1
            PROVE  (a1 + 1) + (b1 - 1) = c1 /\ b1 - 1 # 0
        BY <4>1
      <4> QED
        BY <1>1, <1>3, <1>10, <3>1, <4>1
    <3> QED
      BY <1>7, <2>2, <3>2
  <2>4. \A k \in 1..Len(Stream') : Answers(Stream'[k], rac + (k + 1))
    <3> TAKE k \in 1..Len(Stream')
    <3>1. k + 1 \in 1..Len(Stream) /\ Stream'[k] = Stream[k + 1]
      BY <1>3, <1>7
    <3> QED
      BY <1>2, <3>1
  <2>5. \A k \in 1..Len(Stream') : Answers(Stream'[k], rac' + k)
    <3> TAKE k \in 1..Len(Stream')
    <3>1. rac + (k + 1) = rac' + k
      BY <1>1, <2>2
    <3> QED
      BY <2>4, <3>1
  <2>6. \A i \in 1..rac' : acked'[i] = 1
    <3> TAKE i \in 1..rac'
    <3>1. i = rac + 1 \/ (i \in 1..rac /\ i \in 1..Window)
      BY <1>1, <1>3, <2>2
    <3> QED
      BY <1>2, <1>4, <2>2, <3>1
  <2>7. \A k \in 1..Len(Stream') : Answers(Stream[k], rac + k)'
    BY <1>4, <2>5 DEF Answers
  <2>8. Answering'
    BY <1>2, <1>4, <1>8, <1>9, <2>2, <2>3, <2>6, <2>7 DEF Answering
  <2> QED
    BY <2>8
<1>11. CASE rac + 1 = Window
  <2>1. a.last = 1
    BY <1>5, <1>11 DEF Answers
  <2>2. pc' = "repair"
    BY <1>4, <2>1
  <2>3. Len(Stream) = 1 /\ Stream' = <<>> /\ s2e = <<>>
    <3>1. Len(Stream) = 1
      <4>1. rac + Len(Stream) = Window
        BY <1>2
      <4> QED
        BY <1>1, <1>3, <1>11, <4>1
    <3>2. /\ Len(Stream) = Len(e2c) + Len(s2e) /\ Len(e2c) > 0 /\ Len(s2e) \in Nat
          /\ s2e = <<>> <=> Len(s2e) = 0
      BY <1>4, StreamFacts
    <3>3. Len(s2e) = 0
      BY <3>1, <3>2
    <3> QED
      BY <1>7, <3>1, <3>2, <3>3
  <2>4. \A i \in 1..Window : acked'[i] = 1 \/ (i = Window /\ 0 = 0 /\ ExtraRepeated(tpc))
    <3> TAKE i \in 1..Window
    <3>1. CASE i # Window
      <4>1. i \in 1..rac
        BY <1>1, <1>11, <3>1
      <4> QED
        BY <1>2, <1>4, <4>1
    <3>2. CASE i = Window
      <4>1. tpc - Window + (rac + 1) = tpc
        BY <1>1, <1>11
      <4> QED
        BY <1>6, <1>11, <3>2, <4>1
    <3> QED
      BY <3>1, <3>2
  <2>5. AtWindow'
    BY <1>1, <1>2, <1>4, <1>9, <2>2 DEF AtWindow, InHandshake
  <2>6. Turns'
    BY <1>2, <2>2, <2>3 DEF Turns
  <2>7. SentOnce' = tpc
    BY <1>4, <2>2 DEF SentOnce
  <2>8. Len(Up') = 0
    BY <1>2, <1>8
  <2>9. Coming(Len(allp) + 0, 0)'
    BY <1>1, <1>2, <2>7, <2>8 DEF Coming
  <2>10. Carried(0, 0)'
    BY <1>1, <1>2, <1>4, <1>9, <2>4, <2>7, <2>8, <2>9 DEF Carried
  <2> QED
    BY <1>1, <2>5, <2>6, <2>10 DEF Filling
<1> QED
  BY <1>10, <1>11

LEMMA ClientCarries ==
    ASSUME Sound, Sound', Ample, Calm, CarryInv, ClientStep \/ ClientTimeout
    PROVE  CarryInv'
<1>1. UNCHANGED <<phase, r, allp, maxW, rec, trn, prev, spc, e2s, s2e>>
  BY ClientCases
<1>2. RowsWritten /\ RowsWritten'
  BY <1>1, RowsStay DEF CarryInv
<1>3. CASE Complete
  BY <1>1, <1>2, <1>3 DEF CarryInv, Complete
<1>4. CASE spc = "listen" /\ Greeting
  <2>1. tpc = 0 /\ pc \in {"start", "handshake"}
    BY <1>4, Context DEF Greeting, InHandshake
  <2>2. ~(C!SynTimeout /\ TimerFires)
    <3>1. ~Idle /\ Prompt
      BY <1>4, <2>1, NeverIdle, Context
    <3> QED
      BY <3>1 DEF TimerFires
  <2>3. \/ C!SendSyn /\ needed' = needed
        \/ C!TakeSynAck /\ needed' = needed
    BY <2>1, <2>2, ClientCases DEF C!BuildWith, C!Send, C!EarlierSend, C!Resend,
       C!EarlierResend, C!Receive, C!EarlierReceive, C!Timeout, C!Repair
  <2>4. Greeting' \/ Filling'
    BY <1>1, <1>4, <2>3, SynGoesOut, SynAckComes
  <2> QED
    BY <1>1, <1>2, <1>4, <2>4 DEF CarryInv
<1>5. CASE spc = "listen" /\ Filling
  <2>1. ~InHandshake /\ pc # "resend"
    BY <1>5 DEF Filling, AtWindow
  <2>2. \/ /\ C!BuildWith(C!NextPacket) \/ C!BuildWith(C!NextPacketInSlot)
           /\ needed' = needed
        \/ (C!Send \/ C!EarlierSend) /\ needed' = needed
        \/ C!Receive \/ C!EarlierReceive
        \/ C!Timeout /\ TimerFires
        \/ C!Repair /\ needed' = needed
    BY <2>1, ClientCases DEF C!SendSyn, C!SynTimeout, C!TakeSynAck, C!Resend,
       C!EarlierResend, InHandshake
  <2>3. CASE /\ C!BuildWith(C!NextPacket) \/ C!BuildWith(C!NextPacketInSlot)
             /\ needed' = needed
    <3>1. PICK p \in {C!NextPacket, C!NextPacketInSlot} : C!BuildWith(p)
      BY <2>3
    <3>2. Filling'
      BY <1>1, <1>2, <1>5, <2>3, <3>1, Builds
    <3> QED
      BY <1>1, <1>2, <1>5, <3>2 DEF CarryInv
  <2>4. CASE (C!Send \/ C!EarlierSend) /\ needed' = needed
    <3>1. Filling'
      BY <1>1, <1>2, <1>5, <2>4, Sends
    <3> QED
      BY <1>1, <1>2, <1>5, <3>1 DEF CarryInv
  <2>5. CASE C!Repair /\ needed' = needed
    <3>1. Filling'
      BY <1>1, <1>2, <1>5, <2>5, Repairs
    <3> QED
      BY <1>1, <1>2, <1>5, <3>1 DEF CarryInv
  <2>6. CASE C!Receive \/ C!EarlierReceive \/ (C!Timeout /\ TimerFires)
    <3>1. pc = "receive" /\ tpc' = tpc /\ c2e' = c2e /\ tpc \in Nat
          /\ TotalPacketCount \in Nat /\ tpc <= TotalPacketCount + 2
      BY <2>6, Context DEF C!Receive, C!EarlierReceive, C!Timeout
    <3>2. tpc = TotalPacketCount + 2
      <4> SUFFICES ASSUME tpc <= TotalPacketCount + 1 PROVE FALSE
        BY <3>1
      <4>1. CASE C!Timeout /\ TimerFires
        <5>1. ~Idle /\ Prompt
          BY <1>5, NeverIdle, Context
        <5> QED
          BY <4>1, <5>1 DEF TimerFires
      <4>2. CASE C!Receive \/ C!EarlierReceive
        <5>1. e2c # <<>>
          BY <4>2 DEF C!Receive, C!EarlierReceive
        <5>2. Stream # <<>>
          BY <5>1, StreamFacts DEF Sound
        <5>3. tpc = Len(allp) + Window
          BY <1>5, <3>1 DEF Filling, AtWindow
        <5>4. Len(allp) # TotalPacketCount + 1
          BY <5>3, Context
        <5> QED
          BY <1>5, <5>2, <5>4 DEF Filling, Turns
      <4> QED
        BY <2>6, <4>1, <4>2
    <3>3. pc' \in {"receive", "repair", "done"}
      BY <2>6, <3>1, <3>2, SameSizes DEF C!Receive, C!EarlierReceive, C!Timeout,
         C!ResendWindow, C!MoreWindows
    <3>4. Up' = Up
      BY <1>1, <3>1 DEF Up
    <3>5. Filling'
      BY <1>1, <1>5, <3>1, <3>2, <3>3, <3>4, UpFacts, LateStep DEF Sound
    <3> QED
      BY <1>1, <1>2, <1>5, <3>5 DEF CarryInv
  <2> QED
    BY <2>2, <2>3, <2>4, <2>5, <2>6
<1>6. CASE spc = "listen" /\ Answering
  <2>1. pc = "receive" /\ tpc <= TotalPacketCount + 1
    BY <1>6 DEF Answering
  <2>2. ~(C!Timeout /\ TimerFires)
    <3>1. ~Idle /\ Prompt
      BY <1>6, <2>1, NeverIdle, Context
    <3> QED
      BY <3>1 DEF TimerFires
  <2>3. (C!Receive \/ C!EarlierReceive) /\ needed' = needed
    BY <2>1, <2>2, ClientCases DEF C!SendSyn, C!SynTimeout, C!TakeSynAck, C!BuildWith,
       C!Send, C!EarlierSend, C!Resend, C!EarlierResend, C!Repair
  <2>4. Answering' \/ Filling'
    BY <1>1, <1>2, <1>6, <2>3, Answered
  <2> QED
    BY <1>1, <1>2, <1>6, <2>4 DEF CarryInv
<1> QED
  BY <1>3, <1>4, <1>5, <1>6 DEF CarryInv

-----------------------------------------------------------------------------
(***************************************************************************)
(* The emulator.                                                           *)
(***************************************************************************)
(* Whose turn it is after packet p of the client's.                        *)
Turn(p) ==
    /\ phase' = "server" \/ (phase' = "client" /\ p.type = DATA)
    /\ p.type = DATA /\ p.re = 0 =>
           phase' = IF p.last = 1 THEN "server" ELSE "client"

HandsUp ==
    /\ phase = "client" /\ c2e # <<>> /\ c2e' = Tail(c2e)
    /\ e2s' = Put(e2s, <<Head(c2e)>>)
    /\ Turn(Head(c2e)) /\ UNCHANGED <<s2e, e2c>>

HandsDown ==
    /\ phase = "server" /\ s2e # <<>> /\ s2e' = Tail(s2e)
    /\ e2c' = Put(e2c, <<Head(s2e)>>)
    /\ LET a == Head(s2e)
       IN  phase' = IF a.re = 1 \/ a.last = 1 \/ a.type = SYNACK
                    THEN "client" ELSE "server"
    /\ UNCHANGED <<c2e, e2s>>

(* With chance on their side all packets pass, in every emulator.          *)
LEMMA PassedOn ==
    ASSUME Sound, Calm, EmulatorStep
    PROVE  HandsUp \/ HandsDown
<1> USE DEF Sound
<1>1. CASE E!FromServer
  <2>1. /\ phase = "server" /\ s2e # <<>> /\ s2e' = Tail(s2e) /\ UNCHANGED <<c2e, e2s>>
        /\ e2c' = Put(e2c, E!ForwardedDown(Head(s2e)))
        /\ phase' = IF E!EndsServerTurn(Head(s2e)) THEN "client" ELSE "server"
    BY <1>1, SamePut DEF E!FromServer
  <2>2. Noise # 100 /\ Noise < r
    BY ChanceAssumption DEF Calm, E!Saturated
  <2> DEFINE a == Head(s2e)
  <2>3. E!ForwardedDown(a) = <<a>>
    BY <2>2 DEF E!ForwardedDown, E!PassesDown
  <2>4. E!EndsServerTurn(a) <=> a.re = 1 \/ a.last = 1 \/ a.type = SYNACK
    BY <2>2, SameTypes DEF E!EndsServerTurn, E!Insistent
  <2> QED
    BY <2>1, <2>3, <2>4 DEF HandsDown
<1>2. CASE ~E!FromServer
  <2> DEFINE p == Head(c2e)
  <2>1. phase = "client" /\ c2e # <<>> /\ c2e' = Tail(c2e) /\ UNCHANGED <<s2e, e2c>>
    BY <1>2 DEF EmulatorStep, EmulatorDoes, E!Step, E!OriginalStep, E!StableStep,
                E!FromClient, E!EarlierFromClient
  <2>2. p \in ClientPacket
    BY <2>1, SystemFacts, HeadTailProperties
  <2>3. /\ E!Carries(p) <=> p.type # EOT
        /\ p.type \in {SYN, DATA, EOT} /\ E!EOT = EOT /\ E!DATA = DATA
        /\ EOT # DATA
    <3>1. p.ws # 0
      BY <2>2, WindowBounds DEF ClientPacket
    <3>2. p.type \in {SYN, DATA, EOT}
      BY <2>2 DEF ClientPacket
    <3> HIDE DEF p
    <3> QED
      BY <3>1, <3>2, SameTypes DEF E!Carries, SYN, DATA, EOT
  <2>4. PICK passes \in BOOLEAN : Decides(p, passes)
    BY <2>1, EmulatorDecides DEF EmulatorStep
  <2>5. passes /\ e2s' = Put(e2s, <<p>>)
    BY <2>4 DEF Decides, Lucky, Calm
  <2> HIDE DEF p
  <2>6. Turn(p)
    <3>1. CASE version.emulator = "emulator"
      <4>1. phase' = IF E!EndsClientTurn(p) THEN "server" ELSE "client"
        BY <1>2, <3>1 DEF EmulatorStep, EmulatorDoes, E!Step, E!FromClient, p
      <4>2. ~E!LostUp(p)
        BY <2>3 DEF E!LostUp, E!PassesUp, Calm
      <4> QED
        BY <2>3, <4>1, <4>2 DEF E!EndsClientTurn, Turn
    <3>2. ASSUME NEW lucky1, E!EarlierFromClient(lucky1), lucky1 PROVE Turn(p)
      <4>1. phase' = IF ~E!StaysWithClient(p) THEN "server" ELSE "client"
        BY <3>2 DEF E!EarlierFromClient, E!EarlierRelay, p
      <4>2. p.last \in {0, 1}
        BY <2>2 DEF ClientPacket, Packet
      <4> QED
        BY <2>3, <4>1, <4>2 DEF E!StaysWithClient, Turn
    <3>3. CASE version.emulator = "original"
      <4>1. E!EarlierFromClient(E!OriginalPassesUp(p))
        BY <1>2, <3>3 DEF EmulatorStep, EmulatorDoes, E!OriginalStep, p
      <4>2. E!OriginalPassesUp(p)
        BY <2>3 DEF E!OriginalPassesUp, Calm
      <4> QED
        BY <3>2, <4>1, <4>2
    <3>4. CASE version.emulator = "stable"
      <4>1. E!EarlierFromClient(E!StablePassesUp(p))
        BY <1>2, <3>4 DEF EmulatorStep, EmulatorDoes, E!StableStep, p
      <4>2. E!StablePassesUp(p)
        BY <2>3 DEF E!StablePassesUp, Calm
      <4> QED
        BY <3>2, <4>1, <4>2
    <3> QED
      BY <3>1, <3>3, <3>4 DEF EmulatorStep, EmulatorDoes
  <2> QED
    BY <2>1, <2>5, <2>6 DEF HandsUp, p
<1> QED
  BY <1>1, <1>2

LEMMA EmulatorCases ==
    ASSUME Sound, Calm, EmulatorStep \/ EmulatorTimeout
    PROVE  /\ UNCHANGED <<pc, slot, tpc, copy, tp, acked, rac, needed>>
           /\ UNCHANGED <<allp, maxW, rec, trn, prev, spc>>
           /\ \/ HandsUp
              \/ HandsDown
              \/ E!Timeout /\ TimerFires
<1>1. CASE EmulatorStep
  BY <1>1, PassedOn DEF EmulatorStep, EmulatorDoes, clientVars, serverVars
<1>2. CASE EmulatorTimeout
  BY <1>2 DEF EmulatorTimeout, EmulatorDoes, clientVars, serverVars
<1> QED
  BY <1>1, <1>2

(* What the server has sent stays in its order, too.                       *)
LEMMA StreamPassed ==
    ASSUME SystemInv, HandsDown, Len(Stream) < SockBuf
    PROVE  Stream' = Stream
<1>1. e2c \in Seq(Answer) /\ s2e \in Seq(Answer) /\ Len(e2c) <= SockBuf
  BY SystemFacts
<1>2. s2e # <<>> /\ s2e' = Tail(s2e) /\ e2c' = Put(e2c, <<Head(s2e)>>)
  BY DEF HandsDown
<1>3. Head(s2e) \in Answer
  BY <1>1, <1>2, HeadTailProperties
<1>4. Len(e2c) < SockBuf
  BY SockBufAssumption, StreamFacts
<1>5. e2c' = Append(e2c, Head(s2e))
  BY <1>1, <1>2, <1>3, <1>4, PutOne
<1>6. Append(e2c, Head(s2e)) \o Tail(s2e) = e2c \o s2e
  BY <1>1, <1>2, StreamTaken
<1> QED
  BY <1>2, <1>5, <1>6 DEF Stream

LEMMA GreetingPassed ==
    ASSUME Sound, Ample, Greeting,
           UNCHANGED <<pc, needed, allp, maxW, rec, prev>>, HandsUp \/ HandsDown
    PROVE  Greeting'
<1> USE DEF Sound
<1>1. /\ SockBuf \in Nat /\ 1 < SockBuf
  <2>1. Window \in Nat \ {0} /\ SockBuf \in Nat /\ Window < SockBuf
    BY Context
  <2> QED
    BY <2>1
<1>2. /\ InHandshake /\ allp = <<>> /\ needed = 0
      /\ Len(Up) + Len(Stream) = (IF pc = "start" THEN 0 ELSE 1)
      /\ phase = IF e2s = <<>> /\ s2e = <<>> THEN "client" ELSE "server"
  BY DEF Greeting
<1>3. InHandshake' /\ allp' = <<>> /\ needed' = 0
  BY <1>2 DEF InHandshake
<1>4. CASE HandsUp
  <2>1. c2e # <<>> /\ c2e' = Tail(c2e) /\ e2s' = Put(e2s, <<Head(c2e)>>)
        /\ UNCHANGED <<s2e, e2c>> /\ Turn(Head(c2e))
    BY <1>4 DEF HandsUp
  <2>2. Len(Up) = 1 /\ Len(Stream) = 0
    <3>1. Len(Up) > 0 /\ Len(Up) \in Nat /\ Len(Stream) \in Nat
      BY <2>1, UpFacts, StreamFacts
    <3> QED
      BY <1>2, <3>1
  <2>3. Up' = Up /\ Stream' = Stream
    BY <1>1, <2>1, <2>2, UpPassed DEF Stream
  <2>4. e2s' # <<>>
    <3>1. e2s \in Seq(ClientPacket) /\ Head(c2e) \in ClientPacket /\ Len(e2s) <= SockBuf
      BY <2>1, SystemFacts, HeadTailProperties
    <3>2. Len(e2s) < SockBuf
      BY <1>1, <2>2, UpFacts
    <3>3. e2s' = Append(e2s, Head(c2e))
      BY <2>1, <3>1, <3>2, PutOne
    <3> QED
      BY <3>1, <3>3, Ended
  <2>5. phase' = "server"
    <3>1. Head(c2e) \in SynPacket
      BY <1>2, <2>1, SystemFacts, HeadTailProperties DEF SynsFirst
    <3> QED
      BY <2>1, <3>1 DEF Turn, SynPacket, SYN, DATA
  <2> QED
    BY <1>2, <1>3, <2>2, <2>3, <2>4, <2>5, StreamFacts DEF Greeting
<1>5. CASE HandsDown
  <2>1. s2e # <<>> /\ s2e' = Tail(s2e) /\ UNCHANGED <<c2e, e2s>>
    BY <1>5 DEF HandsDown
  <2>2. Len(Stream) = 1 /\ Len(Up) = 0 /\ Len(s2e) = 1
    <3>1. /\ Len(Up) \in Nat /\ Len(Stream) \in Nat
          /\ Len(Stream) = Len(e2c) + Len(s2e) /\ Len(e2c) \in Nat /\ Len(s2e) > 0
          /\ Len(s2e) \in Nat
      BY <2>1, UpFacts, StreamFacts
    <3>2. Len(Up) + Len(Stream) <= 1
      BY <1>2
    <3>3. ASSUME NEW u \in Nat, NEW d \in Nat, NEW e \in Nat, d > 0, u + (e + d) <= 1
          PROVE  e + d = 1 /\ u = 0 /\ d = 1
      BY <3>3
    <3> QED
      BY <3>1, <3>2, <3>3
  <2>3. Stream' = Stream /\ Up' = Up
    BY <1>1, <1>5, <2>1, <2>2, StreamPassed DEF Up
  <2>4. s2e' = <<>> /\ e2s' = <<>>
    <3>1. s2e \in Seq(Answer)
      BY SystemFacts
    <3> QED
      BY <2>1, <2>2, <3>1, LastOfOne, UpFacts
  <2>5. phase' = "client"
    <3>1. Head(s2e) \in SynAcks
      <4>1. s2e \in Seq(SynAcks)
        BY <1>2, HistoryFacts DEF OnlySynAcks
      <4> QED
        BY <2>1, <4>1, HeadTailProperties
    <3> QED
      BY <1>5, <3>1 DEF HandsDown, SynAcks
  <2> QED
    BY <1>2, <1>3, <2>2, <2>3, <2>4, <2>5, StreamFacts DEF Greeting
<1> QED
  BY <1>4, <1>5

(* How many packets a window that fills up has on the way.                 *)
LEMMA FewOnTheWay ==
    ASSUME Sound, Ample, AtWindow, NEW j \in 0..Window - 1, NEW extra \in 0..1,
           Carried(j, extra), tpc <= TotalPacketCount + 1 \/ pc = "send"
    PROVE  /\ Len(Up) = extra + SentOnce - (Len(allp) + j)
           /\ SentOnce \in Nat /\ SentOnce <= tpc
           /\ Len(Up) \in Nat /\ Len(Up) <= Window /\ Len(Up) < SockBuf
<1>1. /\ Window \in Nat \ {0} /\ TotalPacketCount \in Nat \ {0}
      /\ Len(allp) \in Nat /\ tpc \in Nat /\ tpc <= TotalPacketCount + 2
      /\ SockBuf \in Nat /\ Window < SockBuf
      /\ pc \in {"build", "send"} => slot \in 1..Window
  BY Context DEF AtWindow
<1>2. /\ tpc <= Len(allp) + Window
      /\ pc = "build" => tpc = Len(allp) + slot - 1
      /\ pc = "send" => Len(allp) + slot <= tpc
  BY DEF AtWindow
<1>3. SentOnce \in Nat /\ SentOnce <= tpc
  <2>1. CASE pc = "build"
    BY <1>1, <1>2, <2>1 DEF SentOnce
  <2>2. CASE pc = "send"
    <3>1. SentOnce = Len(allp) + slot - 1
      BY <2>2 DEF SentOnce
    <3> QED
      BY <1>1, <1>2, <2>2, <3>1
  <2>3. CASE pc \notin {"build", "send"}
    BY <1>1, <2>3 DEF SentOnce
  <2> QED
    BY <2>1, <2>2, <2>3
<1>4. /\ Len(Up) = extra + SentOnce - (Len(allp) + j)
      /\ extra = 1 => j = 0 /\ Window > 1 /\ Len(allp) = TotalPacketCount + 1
      /\ Len(allp) + j <= SentOnce
  BY DEF Carried, ExtraRepeated
<1>5. Len(Up) \in Nat
  BY UpFacts DEF Sound
<1> HIDE DEF Up, SentOnce
<1>6. CASE extra = 0
  <2>1. Len(Up) <= Window
    BY <1>1, <1>2, <1>3, <1>4, <1>6
  <2> QED
    BY <1>1, <1>3, <1>4, <1>5, <2>1
<1>7. CASE extra = 1
  <2>1. Len(Up) <= 2 /\ Window >= 2
    BY <1>1, <1>3, <1>4, <1>7
  <2> QED
    BY <1>1, <1>3, <1>4, <1>5, <2>1
<1> QED
  BY <1>6, <1>7

(* The packet that the emulator takes ends the client's turn if it is the  *)
(* last one of the window.                                                 *)
LEMMA TurnKept ==
    ASSUME Sound, Ample, RowsWritten, AtWindow, Turns,
           NEW j \in 0..Window - 1, NEW extra \in 0..1, Carried(j, extra),
           tpc <= TotalPacketCount + 1, Len(allp) # TotalPacketCount + 1, HandsUp
    PROVE  phase' = IF pc # "receive" \/ c2e' # <<>> THEN "client" ELSE "server"
<1> USE DEF Sound
<1> DEFINE p == Head(c2e)
           l == Len(allp)
           k == Len(e2s) + 1
<1>1. /\ Window \in Nat \ {0} /\ TotalPacketCount \in Nat \ {0}
      /\ l \in Nat /\ tpc \in Nat
      /\ pc \in {"build", "send"} => slot \in 1..Window
  BY Context DEF AtWindow
<1>2. /\ tpc <= l + Window
      /\ pc = "build" => tpc = l + slot - 1
      /\ pc = "send" => l + slot <= tpc
      /\ pc = "receive" => tpc = l + Window
      /\ pc = "repair" => tpc = l
      /\ pc # "done" /\ ~InHandshake /\ pc # "resend"
  BY DEF AtWindow
<1>3. extra = 0 /\ l + j <= SentOnce
      /\ \A i \in 1..SentOnce - (l + j) : IsSent(Up[extra + i], l + j + i)
  BY DEF Carried, ExtraRepeated, Coming
<1>4. Len(Up) = SentOnce - (l + j) /\ SentOnce \in Nat /\ SentOnce <= tpc
  <2>1. Len(Up) = extra + SentOnce - (l + j) /\ SentOnce \in Nat /\ SentOnce <= tpc
    BY FewOnTheWay
  <2> QED
    BY <1>1, <1>3, <2>1
<1>5. /\ c2e # <<>> /\ c2e' = Tail(c2e) /\ Turn(p)
  BY DEF HandsUp
<1>6. /\ p = Up[k] /\ Len(Up) = Len(e2s) + Len(c2e) /\ Len(c2e) > 0
      /\ Len(e2s) \in Nat /\ Len(c2e) \in Nat
  BY <1>5, UpFacts
<1>7. /\ c2e' = <<>> <=> Len(c2e) = 1
  <2>1. c2e \in Seq(ClientPacket)
    BY SystemFacts
  <2>2. Tail(c2e) \in Seq(ClientPacket) /\ Len(Tail(c2e)) = Len(c2e) - 1
    BY <1>5, <2>1, HeadTailProperties
  <2>3. Tail(c2e) = <<>> <=> Len(Tail(c2e)) = 0
    BY <2>2, EmptySeq
  <2> QED
    BY <1>5, <1>6, <2>2, <2>3
<1>8. IsSent(p, l + (j + k)) /\ l + (j + k) <= tpc /\ j + k \in 1..Window
  <2>1. k \in 1..SentOnce - (l + j)
    BY <1>1, <1>3, <1>4, <1>6
  <2>2. extra + k = k /\ l + j + k = l + (j + k)
    BY <1>1, <1>3, <1>6
  <2>3. IsSent(p, l + (j + k))
    BY <1>3, <1>6, <2>1, <2>2
  <2>4. l + (j + k) <= tpc
    BY <1>1, <1>4, <2>1
  <2>5. j + k \in 1..Window
    BY <1>1, <1>2, <1>6, <2>4
  <2> QED
    BY <2>3, <2>4, <2>5
<1>9. p.type = DATA /\ p.re = 0 /\ (p.last = 1 <=> j + k = Window)
  <2>1. l + (j + k) # TotalPacketCount + 2
    BY <1>1, <1>6, <1>8
  <2>2. p.type = DATA /\ p.re = 0 /\ InSlot(l + (j + k), p.ws) /\ (p.last = 1 <=> p.ws = Window)
    BY <1>8, <2>1 DEF IsSent, Is
  <2>3. PICK m \in 0..Len(allp) : Len(allp) = m * Window
    BY DEF RowsWritten
  <2>4. m \in Nat
    BY <1>1
  <2>5. \A s : InSlot(l + (j + k), s) <=> s = j + k
    BY <1>8, <2>3, <2>4, PlaceInWindow
  <2> QED
    BY <2>2, <2>5
<1>10. phase' = IF j + k = Window THEN "server" ELSE "client"
  BY <1>5, <1>9 DEF Turn
<1> HIDE DEF p, k, l
<1>11. CASE j + k = Window
  <2>1. tpc = l + Window /\ SentOnce = tpc
    <3>1. l + Window <= SentOnce
      BY <1>1, <1>3, <1>4, <1>6, <1>8, <1>11 DEF k
    <3> QED
      BY <1>1, <1>2, <1>4, <1>8, <1>11, <3>1
  <2>2. Len(c2e) = 1
    <3>1. ASSUME NEW w \in Nat, NEW n \in Nat, NEW e \in Nat, NEW d \in Nat,
                 e + d = (n + w) - (n + j), j + (e + 1) = w
          PROVE  d = 1
      BY <3>1
    <3>2. Len(e2s) + Len(c2e) = (l + Window) - (l + j)
      BY <1>4, <1>6, <2>1
    <3> QED
      BY <1>1, <1>6, <1>11, <3>1, <3>2 DEF k
  <2>3. pc = "receive"
    <3>1. pc # "build"
      <4>1. pc = "build" => SentOnce = l
        BY DEF SentOnce, l
      <4> QED
        BY <1>1, <2>1, <4>1
    <3>2. pc # "send"
      <4>1. pc = "send" => SentOnce = l + slot - 1
        BY DEF SentOnce, l
      <4> QED
        BY <1>1, <2>1, <4>1
    <3>3. pc # "repair"
      BY <1>1, <1>2, <2>1
    <3>4. pc \in {"start", "handshake", "build", "send", "resend", "receive", "repair", "done"}
      BY Context, ClientTypes
    <3> QED
      BY <1>2, <3>1, <3>2, <3>3, <3>4 DEF InHandshake
  <2> QED
    BY <1>7, <1>10, <1>11, <2>2, <2>3
<1>12. CASE j + k # Window
  <2>1. pc = "receive" => Len(c2e) # 1
    <3> SUFFICES ASSUME pc = "receive" PROVE Len(c2e) # 1
      OBVIOUS
    <3>1. SentOnce = l + Window
      BY <1>2 DEF SentOnce
    <3>2. ASSUME NEW w \in Nat, NEW n \in Nat, NEW e \in Nat, NEW d \in Nat,
                 e + d = (n + w) - (n + j), j + (e + 1) # w
          PROVE  d # 1
      BY <3>2
    <3>3. Len(e2s) + Len(c2e) = (l + Window) - (l + j)
      BY <1>4, <1>6, <3>1
    <3> QED
      BY <1>1, <1>6, <1>12, <3>2, <3>3 DEF k
  <2> QED
    BY <1>7, <1>10, <1>12, <2>1
<1> QED
  BY <1>11, <1>12

LEMMA FillingPassed ==
    ASSUME Sound, Sound', Ample, Calm, RowsWritten, Filling, spc = "listen",
           UNCHANGED <<pc, slot, tpc, copy, tp, acked, rac, needed>>,
           UNCHANGED <<allp, maxW, rec, trn>>,
           HandsUp \/ HandsDown \/ (E!Timeout /\ TimerFires)
    PROVE  Filling'
<1> USE DEF Sound
<1>1. /\ Window \in Nat \ {0} /\ TotalPacketCount \in Nat \ {0}
      /\ SockBuf \in Nat /\ Window < SockBuf
      /\ tpc \in Nat /\ tpc <= TotalPacketCount + 2
  BY Context
<1>2. AtWindow /\ Turns
  BY DEF Filling
<1>3. PICK j \in 0..Window - 1, extra \in 0..1 : Carried(j, extra)
  BY DEF Filling
<1>4. ~HandsUp => Up' = Up
  BY DEF HandsDown, E!Timeout, Up
<1>5. HandsUp =>
          /\ Len(Up) < SockBuf => Up' = Up
          /\ \A k \in 1..Len(Up) : k < SockBuf => k <= Len(Up') /\ Up'[k] = Up[k]
  <2> SUFFICES ASSUME HandsUp
               PROVE  /\ Len(Up) < SockBuf => Up' = Up
                      /\ \A k \in 1..Len(Up) : k < SockBuf => k <= Len(Up') /\ Up'[k] = Up[k]
    OBVIOUS
  <2>1. c2e # <<>> /\ c2e' = Tail(c2e) /\ e2s' = Put(e2s, <<Head(c2e)>>)
    BY DEF HandsUp
  <2> QED
    BY <2>1, UpPassed
<1>6. Len(Up) \in Nat /\ Len(Up') \in Nat
  BY UpFacts
<1>7. CASE tpc = TotalPacketCount + 2 /\ pc # "send"
  <2>1. pc \in {"receive", "repair", "done"}
    <3>1. pc # "build" /\ pc \in {"start", "handshake", "build", "send", "resend",
                                  "receive", "repair", "done"}
      BY <1>1, <1>7, Context, ClientTypes DEF ClientOK, WindowBuilt
    <3> QED
      BY <1>2, <1>7, <3>1 DEF AtWindow, InHandshake
  <2>2. \A k \in 1..Len(Up) : k < SockBuf => k <= Len(Up') /\ Up'[k] = Up[k]
    BY <1>4, <1>5, <1>6
  <2> QED
    BY <1>6, <1>7, <2>1, <2>2, LateStep
<1>8. CASE ~(tpc = TotalPacketCount + 2 /\ pc # "send")
  <2>1. tpc <= TotalPacketCount + 1 \/ pc = "send"
    BY <1>1, <1>8
  <2>2. Len(Up) < SockBuf
    BY <1>2, <1>3, <2>1, FewOnTheWay
  <2>3. Up' = Up
    BY <1>4, <1>5, <2>2
  <2>4. AtWindow'
    BY <1>2 DEF AtWindow, InHandshake, Packed, Copied
  <2>5. Carried(j, extra)'
    BY <1>3, <2>3 DEF Carried, Holds, Held, Left, Coming, SentOnce
  <2>6. Turns'
    <3> SUFFICES ASSUME tpc <= TotalPacketCount + 1, Len(allp) # TotalPacketCount + 1
                 PROVE  /\ Stream' = <<>>
                        /\ phase' = IF pc # "receive" \/ c2e' # <<>> THEN "client" ELSE "server"
      BY DEF Turns
    <3>1. Stream = <<>>
      BY <1>2 DEF Turns
    <3>2. ~HandsDown
      BY <3>1, StreamFacts DEF HandsDown
    <3>3. ~(E!Timeout /\ TimerFires)
      <4>1. ~Idle /\ Prompt
        BY NeverIdle, Context
      <4> QED
        BY <4>1 DEF TimerFires
    <3>4. Stream' = Stream
      BY <3>2, <3>3 DEF HandsUp, Stream
    <3>5. phase' = IF pc # "receive" \/ c2e' # <<>> THEN "client" ELSE "server"
      BY <1>2, <1>3, <3>2, <3>3, TurnKept
    <3> QED
      BY <3>1, <3>4, <3>5
  <2> QED
    BY <1>3, <2>4, <2>5, <2>6 DEF Filling
<1> QED
  BY <1>7, <1>8

LEMMA AnsweringPassed ==
    ASSUME Sound, Ample, Answering, spc = "listen",
           UNCHANGED <<pc, slot, tpc, copy, tp, acked, rac, needed>>,
           UNCHANGED <<allp, maxW, rec, trn>>,
           HandsUp \/ HandsDown \/ (E!Timeout /\ TimerFires)
    PROVE  Answering'
<1> USE DEF Sound
<1> DEFINE a == Head(s2e)
           k == rac + (Len(e2c) + 1)
<1>1. /\ Window \in Nat \ {0} /\ TotalPacketCount \in Nat \ {0}
      /\ SockBuf \in Nat /\ Window < SockBuf
      /\ tpc \in Nat /\ rac \in Nat
  BY Context
<1>2. /\ pc = "receive" /\ tpc <= TotalPacketCount + 1 /\ tpc = Len(allp)
      /\ Packed(tpc - Window, Window) /\ Copied
      /\ Holds(0) /\ Up = <<>>
      /\ Stream # <<>> /\ rac + Len(Stream) = Window
      /\ \A i \in 1..Len(Stream) : Answers(Stream[i], rac + i)
      /\ \A i \in 1..rac : acked[i] = 1
      /\ phase = IF s2e = <<>> THEN "client" ELSE "server"
  BY DEF Answering
<1>3. HandsDown
  <2>1. c2e = <<>>
    BY <1>2, UpFacts
  <2>2. ~(E!Timeout /\ TimerFires)
    <3>1. ~Idle /\ Prompt
      BY <1>2, NeverIdle, Context
    <3> QED
      BY <3>1 DEF TimerFires
  <2> QED
    BY <2>1, <2>2 DEF HandsUp
<1>4. /\ s2e # <<>> /\ s2e' = Tail(s2e) /\ UNCHANGED <<c2e, e2s>>
      /\ phase' = IF a.re = 1 \/ a.last = 1 \/ a.type = SYNACK
                  THEN "client" ELSE "server"
  BY <1>3 DEF HandsDown
<1>5. /\ Len(Stream) \in Nat /\ Len(Stream) = Len(e2c) + Len(s2e)
      /\ Len(s2e) \in Nat /\ Len(e2c) \in Nat /\ Len(s2e) > 0
      /\ a = Stream[Len(e2c) + 1]
  BY <1>4, StreamFacts
<1>6. Stream' = Stream /\ Up' = Up
  <2>1. rac + Len(Stream) = Window
    BY <1>2
  <2>2. Len(Stream) < SockBuf
    BY <1>1, <1>5, <2>1
  <2> QED
    BY <1>3, <1>4, <2>2, StreamPassed DEF Up
<1>7. s2e' = <<>> <=> Len(s2e) = 1
  <2>1. s2e \in Seq(Answer)
    BY SystemFacts
  <2>2. Tail(s2e) \in Seq(Answer) /\ Len(Tail(s2e)) = Len(s2e) - 1
    BY <1>4, <2>1, HeadTailProperties
  <2>3. Tail(s2e) = <<>> <=> Len(Tail(s2e)) = 0
    BY <2>2, EmptySeq
  <2> QED
    BY <1>4, <1>5, <2>2, <2>3
<1>8. Answers(a, k) /\ k <= Window /\ k \in Nat /\ (k = Window <=> Len(s2e) = 1)
  <2>1. Len(e2c) + 1 \in 1..Len(Stream)
    BY <1>5
  <2>2. Answers(a, k)
    BY <1>2, <1>5, <2>1
  <2>3. rac + Len(Stream) = Window
    BY <1>2
  <2>4. k <= Window /\ k \in Nat /\ (k = Window <=> Len(s2e) = 1)
    <3> DEFINE e == Len(e2c)
               d == Len(s2e)
               w == Window
    <3>1. rac \in Nat /\ w \in Nat
      BY <1>1
    <3>2. e \in Nat /\ d \in Nat /\ d > 0
      BY <1>5
    <3>3. rac + (e + d) = w
      <4>1. Len(Stream) = e + d
        BY <1>5
      <4> QED
        BY <2>3, <4>1
    <3> HIDE DEF a, e, d, w
    <3>4. k = rac + (e + 1)
      BY DEF e
    <3>5. k <= w /\ k \in Nat /\ (k = w <=> d = 1)
      <4> HIDE DEF k
      <4> QED
        BY <3>1, <3>2, <3>3, <3>4, SMT
    <3> QED
      BY <3>5 DEF w, d
  <2> QED
    BY <2>2, <2>4
<1> HIDE DEF a, k
<1>9. phase' = IF s2e' = <<>> THEN "client" ELSE "server"
  <2>1. CASE k = Window
    BY <1>4, <1>7, <1>8, <2>1 DEF Answers
  <2>2. CASE k # Window
    <3>1. tpc - Window + k # TotalPacketCount + 1 /\ k < Window
      BY <1>1, <1>2, <1>8, <2>2
    <3>2. a.last # 1 /\ a.re = 0 /\ a.type = ACK
      BY <1>8, <2>2, <3>1 DEF Answers, ExtraRepeated
    <3> QED
      BY <1>4, <1>7, <1>8, <2>2, <3>2 DEF ACK, SYNACK
  <2> QED
    BY <2>1, <2>2
<1> QED
  BY <1>2, <1>6, <1>9 DEF Answering, Packed, Copied, Holds, Held, Left, Answers

LEMMA EmulatorCarries ==
    ASSUME Sound, Sound', Ample, Calm, CarryInv, EmulatorStep \/ EmulatorTimeout
    PROVE  CarryInv'
<1>1. /\ UNCHANGED <<pc, slot, tpc, copy, tp, acked, rac, needed>>
      /\ UNCHANGED <<allp, maxW, rec, trn, prev, spc>>
      /\ HandsUp \/ HandsDown \/ (E!Timeout /\ TimerFires)
  BY EmulatorCases
<1>2. RowsWritten /\ RowsWritten'
  BY <1>1, RowsStay DEF CarryInv
<1>3. CASE Complete
  BY <1>1, <1>2, <1>3 DEF CarryInv, Complete
<1>4. CASE spc = "listen" /\ Greeting
  <2>1. ~(E!Timeout /\ TimerFires)
    <3>1. tpc <= TotalPacketCount + 1
      BY <1>4, Context DEF Greeting
    <3>2. ~Idle /\ Prompt
      BY <1>4, <3>1, NeverIdle, Context
    <3> QED
      BY <3>2 DEF TimerFires
  <2>2. Greeting'
    BY <1>1, <1>4, <2>1, GreetingPassed
  <2> QED
    BY <1>1, <1>2, <1>4, <2>2 DEF CarryInv
<1>5. CASE spc = "listen" /\ Filling
  <2>1. Filling'
    BY <1>1, <1>2, <1>5, FillingPassed
  <2> QED
    BY <1>1, <1>2, <1>5, <2>1 DEF CarryInv
<1>6. CASE spc = "listen" /\ Answering
  <2>1. Answering'
    BY <1>1, <1>6, AnsweringPassed
  <2> QED
    BY <1>1, <1>2, <1>6, <2>1 DEF CarryInv
<1> QED
  BY <1>3, <1>4, <1>5, <1>6 DEF CarryInv

-----------------------------------------------------------------------------
(***************************************************************************)
(* The server.                                                             *)
(***************************************************************************)
LEMMA ServerCases ==
    ASSUME ServerStep \/ ServerTimeout
    PROVE  /\ UNCHANGED <<pc, slot, tpc, copy, tp, acked, rac, needed, phase, c2e, e2c>>
           /\ spc = "listen"
           /\ \/ /\ e2s # <<>> /\ e2s' = Tail(e2s)
                 /\ \/ ReceiveSyn(Head(e2s)) \/ ReceiveData(Head(e2s))
                    \/ ReceiveEot(Head(e2s)) \/ ReceiveTooEarly(Head(e2s))
              \/ Timeout /\ TimerFires
<1>1. CASE ServerStep
  <2>1. UNCHANGED <<pc, slot, tpc, copy, tp, acked, rac, needed, phase, c2e, e2c>>
    BY <1>1 DEF ServerStep, ServerDoes, clientVars, emulatorVars
  <2>2. Receive
    BY <1>1 DEF ServerStep, ServerDoes
  <2> QED
    BY <2>1, <2>2 DEF Receive
<1>2. CASE ServerTimeout
  BY <1>2 DEF ServerTimeout, ServerDoes, Timeout, clientVars, emulatorVars
<1> QED
  BY <1>1, <1>2

(* The answer to the SYN goes out, and the tables are new.                 *)
LEMMA SynAnswered ==
    ASSUME Sound, Sound', Ample, Greeting, e2s # <<>>, e2s' = Tail(e2s),
           UNCHANGED <<pc, needed, phase, c2e, e2c>>,
           \/ ReceiveSyn(Head(e2s)) \/ ReceiveData(Head(e2s))
           \/ ReceiveEot(Head(e2s)) \/ ReceiveTooEarly(Head(e2s))
    PROVE  Greeting' /\ RowsWritten' /\ spc' = spc
<1> USE DEF Sound
<1> DEFINE p == Head(e2s)
<1>1. /\ InHandshake /\ needed = 0 /\ phase = "server"
      /\ Len(Up) + Len(Stream) = (IF pc = "start" THEN 0 ELSE 1)
      /\ Stream = <<>> => prev.seq = 0
  BY DEF Greeting
<1>2. p \in SynPacket /\ p \in Numbered
  <2>1. e2s \in Seq(SynPacket)
    BY <1>1, SystemFacts DEF SynsFirst
  <2>2. e2s \in Seq(Numbered)
    BY HistoryFacts
  <2> QED
    BY <2>1, <2>2, HeadTailProperties
<1>3. p.type = SYN /\ p.seq = 100
  BY <1>2 DEF SynPacket, Numbered
<1>4. ReceiveSyn(p)
  BY <1>3 DEF ReceiveData, ReceiveEot, ReceiveTooEarly, SYN, DATA, EOT
<1>5. Len(Up) = 1 /\ Len(Stream) = 0 /\ Stream = <<>> /\ pc # "start"
  <2>1. Len(Up) > 0 /\ Len(Up) \in Nat /\ Len(Stream) \in Nat
        /\ Len(Up) = Len(e2s) + Len(c2e)
    BY UpFacts, StreamFacts, UpTaken
  <2>2. ASSUME NEW u \in Nat, NEW s \in Nat, u > 0, u + s = (IF pc = "start" THEN 0 ELSE 1)
        PROVE  u = 1 /\ s = 0 /\ pc # "start"
    BY <2>2
  <2>3. Len(Up) = 1 /\ Len(Stream) = 0 /\ pc # "start"
    BY <1>1, <2>1, <2>2
  <2> QED
    BY <2>3, StreamFacts
<1> HIDE DEF p
<1>6. /\ maxW' = Window /\ prev' = SynAckFor(p, maxW') /\ s2e' = Put(s2e, <<prev'>>)
      /\ \A i \in 1..Window : rec'[i].seq = 0
      /\ spc' = spc
  <2>1. maxW' = Window
    BY <1>2, <1>4, SynSizes DEF SynPacket
  <2>2. p.seq # prev.seq
    BY <1>1, <1>3, <1>5
  <2>3. /\ prev' = SynAckFor(p, maxW') /\ s2e' = Put(s2e, <<prev'>>)
        /\ \E left \in {Blank, Junk} :
                  rec' = [i \in 1..maxW' |-> [ZeroSlot EXCEPT !.data = left]]
        /\ spc' = spc
    BY <1>4, <2>2 DEF ReceiveSyn
  <2> QED
    BY <2>1, <2>3 DEF ZeroSlot
<1>7. InHandshake' /\ allp' = <<>>
  <2>1. InHandshake'
    BY <1>1 DEF InHandshake
  <2>2. SynsFirst'
    BY DEF SystemInv
  <2> QED
    BY <2>1, <2>2 DEF SynsFirst, NothingReceived
<1>8. Len(Up') = 0
  BY <1>5, UpTaken
<1>9. Len(Stream') = 1 /\ s2e' # <<>>
  <2>1. s2e \in Seq(Answer) /\ Len(s2e) <= SockBuf /\ e2c \in Seq(Answer)
    BY SystemFacts
  <2>2. Len(s2e) = 0 /\ Len(e2c) = 0
    BY <1>5, StreamFacts
  <2>3. prev' \in Answer
    <3>1. prev'.type = SYNACK
      BY <1>6 DEF SynAckFor
    <3> QED
      BY <3>1 DEF SystemInv, AnswersReady
  <2>4. s2e' = Append(s2e, prev')
    <3>1. Len(s2e) < SockBuf
      BY <2>2, SockBufAssumption
    <3> DEFINE a == prev'
    <3>2. s2e' = Put(s2e, <<a>>) /\ a \in Answer
      BY <1>6, <2>3
    <3> HIDE DEF a
    <3>3. s2e' = Append(s2e, a)
      BY <2>1, <3>1, <3>2, PutOne
    <3> QED
      BY <3>3 DEF a
  <2>5. s2e' \in Seq(Answer) /\ Len(s2e') = 1 /\ s2e' # <<>>
    BY <2>1, <2>2, <2>3, <2>4, Ended
  <2>6. Stream' = e2c \o s2e'
    BY DEF Stream
  <2> QED
    BY <2>1, <2>2, <2>5, <2>6, Joined
<1>10. Greeting'
  <2>1. Stream' # <<>>
    BY <1>9
  <2>2. pc' # "start" /\ phase' = "server" /\ needed' = 0
    BY <1>1, <1>5
  <2> QED
    BY <1>6, <1>7, <1>8, <1>9, <2>1, <2>2 DEF Greeting
<1>11. RowsWritten'
  <2>1. Len(allp') = 0
    BY <1>7
  <2>2. 0 \in 0..0 /\ 0 = 0 * Window
    BY Context
  <2> QED
    BY <2>1, <2>2 DEF RowsWritten
<1> QED
  BY <1>6, <1>10, <1>11

(* What the server takes from a window that fills up: the packet that is   *)
(* next, or before it the one that the client has repeated.                *)
LEMMA TakenNext ==
    ASSUME Sound, Ample, AtWindow, NEW j \in 0..Window - 1, NEW extra \in 0..1,
           Carried(j, extra), e2s # <<>>
    PROVE  /\ Head(e2s) \in ClientPacket /\ Head(e2s) \in Numbered
           /\ Head(e2s) \in PlacedPackets(tpc)
           /\ maxW = Window /\ SentOnce \in Nat /\ SentOnce <= tpc
           /\ extra = 1 => Repeated(Head(e2s))
           /\ extra = 0 => /\ IsSent(Head(e2s), Len(allp) + (j + 1))
                           /\ Len(allp) + j < SentOnce
<1> USE DEF Sound
<1> DEFINE n == Len(allp) + j
<1>1. /\ Head(e2s) \in ClientPacket /\ Head(e2s) \in Numbered
      /\ Head(e2s) \in PlacedPackets(tpc)
  <2>1. e2s \in Seq(ClientPacket) /\ e2s \in Seq(Numbered) /\ e2s \in Seq(PlacedPackets(tpc))
    BY SystemFacts, HistoryFacts DEF PlacesInv, NamesBuilt
  <2> QED
    BY <2>1, HeadTailProperties
<1>2. /\ Window \in Nat \ {0} /\ TotalPacketCount \in Nat \ {0}
      /\ Len(allp) \in Nat /\ tpc \in Nat /\ tpc <= TotalPacketCount + 2
  BY Context
<1>3. /\ maxW = Window /\ n <= TotalPacketCount + 1 /\ Coming(n, extra)
      /\ tpc <= TotalPacketCount + 1 \/ pc = "send" => Len(Up) = extra + SentOnce - n
  BY DEF Carried, Holds
<1>4. Head(e2s) = Up[1] /\ Len(Up) > 0 /\ Len(Up) \in Nat
  <2>1. Head(e2s) = Up[1] /\ Len(e2s) > 0
    BY UpFacts
  <2> QED
    BY <2>1, UpFacts
<1>5. /\ SentOnce \in Nat /\ SentOnce <= tpc
      /\ extra = 0 => n < SentOnce
  <2>1. CASE tpc <= TotalPacketCount + 1 \/ pc = "send"
    <3>1. Len(Up) = extra + SentOnce - n /\ SentOnce \in Nat /\ SentOnce <= tpc
      BY <2>1, FewOnTheWay
    <3> QED
      BY <1>2, <1>4, <3>1
  <2>2. CASE ~(tpc <= TotalPacketCount + 1 \/ pc = "send")
    <3>1. pc # "build"
      BY <2>2, SystemFacts DEF ClientOK, WindowBuilt
    <3>2. SentOnce = tpc
      BY <2>2, <3>1 DEF SentOnce
    <3> QED
      BY <1>2, <1>3, <2>2, <3>2
  <2> QED
    BY <2>1, <2>2
<1>6. extra = 1 => Repeated(Head(e2s))
  BY <1>3, <1>4 DEF Coming
<1>7. extra = 0 => IsSent(Head(e2s), Len(allp) + (j + 1))
  <2> SUFFICES ASSUME extra = 0 PROVE IsSent(Head(e2s), Len(allp) + (j + 1))
    OBVIOUS
  <2>1. 1 \in 1..SentOnce - n /\ n + 1 = Len(allp) + (j + 1) /\ extra + 1 = 1
    BY <1>2, <1>5
  <2>2. IsSent(Up[extra + 1], n + 1)
    BY <1>3, <2>1 DEF Coming
  <2> QED
    BY <1>4, <2>1, <2>2
<1> QED
  BY <1>1, <1>3, <1>5, <1>6, <1>7

(* The rest of them stays in its order.                                    *)
LEMMA RestComes ==
    ASSUME SystemInv, e2s # <<>>, e2s' = Tail(e2s), c2e' = c2e,
           NEW n \in Nat, NEW extra \in 0..1, Coming(n, extra),
           UNCHANGED <<pc, slot, tpc>>, Len(allp') = Len(allp),
           SentOnce \in Nat, Len(allp) \in Nat
    PROVE  /\ SentOnce' = SentOnce /\ Len(Up') = Len(Up) - 1
           /\ extra = 1 => Coming(n, 0)'
           /\ extra = 0 /\ n < SentOnce => Coming(n + 1, 0)'
<1>1. SentOnce' = SentOnce
  BY DEF SentOnce
<1>2. /\ Len(Up') = Len(Up) - 1 /\ Len(Up) > 0 /\ Len(Up) \in Nat
      /\ \A k \in 1..Len(Up) - 1 : Up'[k] = Up[k + 1]
  BY UpTaken, UpFacts
<1>3. /\ extra + SentOnce - n <= Len(Up)
      /\ \A k \in 1..SentOnce - n : IsSent(Up[extra + k], n + k)
  BY DEF Coming
<1>4. ASSUME extra = 1 PROVE Coming(n, 0)'
  <2>1. \A k \in 1..SentOnce - n : IsSent(Up'[0 + k], n + k)
    <3> TAKE k \in 1..SentOnce - n
    <3>1. k \in 1..Len(Up) - 1 /\ k + 1 = extra + k /\ 0 + k = k
      BY <1>2, <1>3, <1>4
    <3> QED
      BY <1>2, <1>3, <3>1
  <2>2. 0 + SentOnce - n <= Len(Up')
    BY <1>2, <1>3, <1>4
  <2> QED
    BY <1>1, <2>1, <2>2 DEF Coming, IsSent, Is
<1>5. ASSUME extra = 0, n < SentOnce PROVE Coming(n + 1, 0)'
  <2>1. \A k \in 1..SentOnce - (n + 1) : IsSent(Up'[0 + k], n + 1 + k)
    <3> TAKE k \in 1..SentOnce - (n + 1)
    <3>1. /\ k \in 1..Len(Up) - 1 /\ k + 1 = extra + (k + 1) /\ 0 + k = k
          /\ k + 1 \in 1..SentOnce - n /\ n + (k + 1) = n + 1 + k
      BY <1>2, <1>3, <1>5
    <3> QED
      BY <1>2, <1>3, <3>1
  <2>2. 0 + SentOnce - (n + 1) <= Len(Up')
    BY <1>2, <1>3, <1>5
  <2> QED
    BY <1>1, <2>1, <2>2 DEF Coming, IsSent, Is
<1> QED
  BY <1>1, <1>2, <1>4, <1>5

(* All slots are filled: the burst is the whole table.                     *)
LEMMA FullBurst ==
    ASSUME maxW \in Nat, NEW t, \A i \in 1..maxW : t[i].ws = i
    PROVE  Len(Burst(t)) = maxW /\ \A k \in 1..maxW : Burst(t)[k] = t[k]
<1>1. Present(t) = 1..maxW
  BY DEF Present
<1>2. Cardinality(1..maxW) = maxW
  BY FS_Interval
<1>3. Len(Burst(t)) = maxW
  BY <1>1, <1>2, BurstElement
<1>4. ASSUME NEW k \in 1..maxW PROVE Burst(t)[k] = t[k]
  <2> DEFINE x == Nth(Present(t), k)
  <2>1. x \in 1..maxW /\ Cardinality({i \in 1..maxW : i <= x}) = k
    BY <1>1, <1>2, NthFacts
  <2>2. Burst(t)[k] = t[x]
    BY <1>3, BurstElement
  <2> HIDE DEF x
  <2>3. {i \in 1..maxW : i <= x} = 1..x
    BY <2>1
  <2>4. Cardinality(1..x) = x
    BY <2>1, FS_Interval
  <2> QED
    BY <2>1, <2>2, <2>3, <2>4
<1> QED
  BY <1>3, <1>4

(* A window that is written adds the rows that come next.                  *)
LEMMA RowsAdded ==
    ASSUME Sound, Ample, RowsWritten, maxW = Window,
           NEW r1 \in [1..maxW -> Slot], NEW t, NEW next, Write(r1, t, next),
           \A i \in 1..Window :
               /\ r1[i].data = TextOf(Len(allp) + i)
               /\ r1[i].seq <= 100 + NumberOf(Len(allp) + Window)
               /\ TextOf(Len(allp) + i) # Blank => r1[i].seq > 100 + NumberOf(Len(allp))
    PROVE  /\ RowsWritten' /\ Len(allp') = Len(allp) + Window /\ spc' = next
           /\ rec' = Emptied(r1) /\ trn' = [t EXCEPT ![1] = ZeroAck]
<1> USE DEF Sound
<1> DEFINE l == Len(allp)
<1>1. /\ Window \in Nat \ {0} /\ l \in Nat /\ HeapFaults = {"harmless"}
      /\ NumberOf(l) \in Nat /\ NumberOf(l + Window) \in Nat
      /\ NumberOf(l) <= NumberOf(l + Window)
  <2>1. Window \in Nat \ {0} /\ l \in Nat /\ HeapFaults = {"harmless"}
    BY Context
  <2>2. l + Window \in Nat /\ l <= l + Window
    BY <2>1
  <2> QED
    BY <2>1, <2>2, NumbersGrow
<1>2. Inv
  BY SystemFacts DEF AnswersInv
<1>3. /\ allp' = allp \o Fresh(r1) /\ rec' = Emptied(r1)
      /\ trn' = [t EXCEPT ![1] = ZeroAck] /\ spc' = next
  <2>1. \A slots : Faults(slots) \subseteq {"harmless"}
    BY <1>1 DEF Faults
  <2>2. ASSUME NEW i \in 1..maxW
        PROVE  r1[i].data # Junk
    <3>1. r1[i].data = TextOf(l + i) /\ l + i \in Nat
      BY <1>1, <2>2
    <3> QED
      BY <3>1, FileAssumption DEF TextOf
  <2>3. PICK n \in Reached(r1) :
           /\ allp' = allp \o SubSeq(Fresh(r1), 1, n)
           /\ rec' = Remaining(r1, n)
           /\ trn' = IF n = 0 THEN t ELSE [t EXCEPT ![1] = ZeroAck]
           /\ spc' = next
    BY <2>1 DEF Write
  <2>4. /\ n = maxW /\ maxW # 0
        /\ SubSeq(Fresh(r1), 1, n) = Fresh(r1) /\ Remaining(r1, n) = Emptied(r1)
    BY <1>1, <2>2, ReachedFacts
  <2> QED
    BY <2>3, <2>4
<1>4. /\ allp' \in Seq(Slot) /\ Len(allp') = l + Window
      /\ \A k \in 1..l : allp'[k] = allp[k]
      /\ \A k \in l + 1..l + Window : k - l \in 1..Window /\ allp'[k] = Fresh(r1)[k - l]
  <2>1. Fresh(r1) \in Seq(Slot) /\ Len(Fresh(r1)) = Window
    BY <1>1, FreshFacts
  <2>2. allp \in Seq(Slot)
    BY <1>2 DEF Inv, StateTypeOK
  <2> DEFINE F == Fresh(r1)
  <2>3. F \in Seq(Slot) /\ Len(F) = Window /\ allp' = allp \o F
    BY <1>3, <2>1
  <2> HIDE DEF F
  <2>4. /\ allp \o F \in Seq(Slot)
        /\ Len(allp \o F) = l + Window
        /\ \A k \in 1..l + Window : (allp \o F)[k] =
              IF k <= l THEN allp[k] ELSE F[k - l]
    BY <2>2, <2>3, ConcatProperties
  <2>5. \A k \in 1..l : allp'[k] = allp[k]
    BY <1>1, <2>3, <2>4
  <2>6. ASSUME NEW k \in l + 1..l + Window
        PROVE  k - l \in 1..Window /\ allp'[k] = F[k - l]
    BY <1>1, <2>3, <2>4
  <2> QED
    BY <2>3, <2>4, <2>5, <2>6 DEF F
<1>5. /\ \A k \in 1..l : allp[k].data = TextOf(k) /\ allp[k].seq <= 100 + NumberOf(l)
      /\ \E m \in 0..l : l = m * Window
      /\ allp \in Seq(Slot)
  BY Context DEF RowsWritten
<1>6. ASSUME NEW i \in 1..Window
      PROVE  Fresh(r1)[i].data = TextOf(l + i) /\ Fresh(r1)[i].seq = r1[i].seq
  <2>1. Fresh(r1)[i].seq = r1[i].seq /\ Fresh(r1)[i].data \in {Blank, r1[i].data}
    BY <1>1, FreshFacts
  <2>2. CASE TextOf(l + i) = Blank
    BY <2>1, <2>2
  <2>3. CASE TextOf(l + i) # Blank
    <3>1. ~WrittenBefore(r1, i)
      <4>1. SUFFICES ASSUME WrittenBefore(r1, i) PROVE FALSE
        OBVIOUS
      <4>2. PICK k \in 1..l : r1[i].seq = allp[k].seq
        BY <4>1 DEF WrittenBefore, Written
      <4>3. r1[i].seq > 100 + NumberOf(l) /\ allp[k].seq <= 100 + NumberOf(l)
            /\ r1[i].seq \in Nat
        BY <1>5, <2>3 DEF Slot
      <4> QED
        BY <1>1, <4>2, <4>3
    <3>2. Fresh(r1)[i] = r1[i]
      BY <3>1 DEF Fresh
    <3> QED
      BY <2>1, <3>2
  <2> QED
    BY <2>2, <2>3
<1>7. RowsWritten'
  <2>1. \E m \in 0..l + Window : l + Window = m * Window
    <3>1. PICK m \in 0..l : l = m * Window
      BY <1>5
    <3>2. (m + 1) * Window = m * Window + Window
      BY <1>1
    <3>3. m + 1 \in 0..l + Window
      BY <1>1
    <3> QED
      BY <3>1, <3>2, <3>3
  <2>2. ASSUME NEW k \in 1..l + Window
        PROVE  allp'[k].data = TextOf(k) /\ allp'[k].seq <= 100 + NumberOf(l + Window)
    <3>1. CASE k \in 1..l
      <4>1. allp[k].seq \in Nat
        <5>1. allp[k] \in Slot
          BY <1>5, <3>1
        <5> QED
          BY <5>1 DEF Slot
      <4> QED
        BY <1>1, <1>4, <1>5, <3>1, <4>1
    <3>2. CASE k \notin 1..l
      <4> DEFINE i == k - l
      <4>1. k \in l + 1..l + Window /\ l + i = k
        BY <1>1, <3>2
      <4>2. i \in 1..Window /\ allp'[k] = Fresh(r1)[i]
        BY <1>4, <4>1
      <4> HIDE DEF i
      <4>3. r1[i].seq <= 100 + NumberOf(l + Window)
        BY <4>2
      <4> QED
        BY <1>6, <4>1, <4>2, <4>3
    <3> QED
      BY <3>1, <3>2
  <2> QED
    BY <1>4, <2>1, <2>2 DEF RowsWritten, TextOf, Keeps, NumberOf
<1> QED
  BY <1>3, <1>4, <1>7

(* The packet that is next goes into the slot that is next, unless it is   *)
(* the one after the last chunk, which passes for that one.                *)
LEMMA SlotTaken ==
    ASSUME Sound, Ample, RowsWritten, NEW j \in 0..Window - 1, Holds(j),
           NEW p \in ClientPacket, p \in Numbered,
           NEW n, n = Len(allp) + (j + 1), n <= TotalPacketCount + 1, IsSent(p, n)
    PROVE  /\ p.type = DATA /\ p.ws = j + 1 /\ p.ack = NumberOf(n)
           /\ p.last = 1 <=> j + 1 = Window
           /\ Received(p) \in [1..Window -> Slot]
           /\ Acknowledged(p) \in [1..Window -> AckRecord]
           /\ \A i \in 1..Window : i # j + 1 =>
                  Received(p)[i] = rec[i] /\ Acknowledged(p)[i] = trn[i]
           /\ Received(p)[j + 1].data = TextOf(n)
           /\ Received(p)[j + 1].seq <= 100 + NumberOf(n)
           /\ n <= TotalPacketCount \/ Window = 1 =>
                  /\ Received(p)[j + 1].ws = j + 1
                  /\ Received(p)[j + 1].seq = 100 + NumberOf(n)
                  /\ Acknowledged(p)[j + 1] = AckFor(p)
           /\ Len(allp) > 0 /\ j + 1 >= 2 => Received(p)[j + 1].ws = j + 1
           /\ Len(allp) = 0 => n <= TotalPacketCount
<1> USE DEF Sound
<1> DEFINE l == Len(allp)
           g == j + 1
<1>1. /\ Window \in Nat \ {0} /\ l \in Nat
      /\ TotalPacketCount \in Nat \ {0} /\ Window <= TotalPacketCount
  BY Context
<1>2. g \in 1..Window /\ n \in Nat \ {0}
  BY <1>1
<1>3. /\ p.type = DATA /\ p.ws = g /\ p.ack = NumberOf(n)
      /\ p.last = 1 <=> g = Window
      /\ p.data = TextOf(n)
  <2>1. n # TotalPacketCount + 2
    BY <1>1, <1>2
  <2>2. p.type = DATA /\ InSlot(n, p.ws) /\ (p.last = 1 <=> p.ws = Window)
        /\ p.ack = NumberOf(n) /\ p.data = TextOf(n)
    BY <2>1 DEF IsSent, Is
  <2>3. PICK m \in 0..Len(allp) : Len(allp) = m * Window
    BY DEF RowsWritten
  <2>4. m \in Nat
    BY <1>1
  <2>5. \A s : InSlot(Len(allp) + g, s) <=> s = g
    BY <1>2, <2>3, <2>4, PlaceInWindow
  <2> QED
    BY <2>2, <2>5
<1>4. p.seq = 100 + NumberOf(n) /\ p.seq > 0 /\ p \in Packet
  <2>1. p.seq = p.ack + 100 /\ p.seq > 0 /\ p \in Packet
    BY <1>3 DEF Numbered, ClientPacket
  <2>2. NumberOf(n) \in Nat
    BY <1>2, NumberFacts
  <2> QED
    BY <1>3, <2>1, <2>2
<1>5. Inv /\ maxW = Window
  BY SystemFacts DEF Holds, AnswersInv
<1>6. rec \in [1..Window -> Slot] /\ trn \in [1..Window -> AckRecord]
      /\ garbage \in [last : {0, 1}, re : {0, 1}]
  BY <1>5 DEF Inv, StateTypeOK
<1>7. /\ Received(p) \in [1..Window -> Slot]
      /\ Acknowledged(p) \in [1..Window -> AckRecord]
  <2>1. WindowOK(maxW, Received(p), Acknowledged(p))
    BY <1>1, <1>3, <1>5, ReceivedWindow
  <2> QED
    BY <1>5, <2>1 DEF WindowOK
<1> HIDE DEF g
<1>8. /\ IsDuplicate(p) => Received(p) = rec /\ Acknowledged(p) = trn
      /\ ~IsDuplicate(p) =>
            /\ Received(p) = [rec EXCEPT ![g] = [seq |-> p.seq, ws |-> p.ws, data |-> p.data]]
            /\ Acknowledged(p) = [trn EXCEPT ![g] = AckFor(p)]
  BY <1>3 DEF Received, Acknowledged
<1>9. \A i \in 1..Window : i # g =>
          Received(p)[i] = rec[i] /\ Acknowledged(p)[i] = trn[i]
  BY <1>2, <1>6, <1>8
<1>10. /\ \A i \in 1..j : rec[i].seq <= 100 + NumberOf(l + i)
       /\ \A i \in g..Window : /\ rec[i].seq <= 100 + NumberOf(l)
                               /\ i = 1 => rec[i].ws = 0
                               /\ l > 0 => rec[i].data = Blank
       /\ l > 0 => \A i \in 2..Window : rec[i].ws = i
  BY <1>1, <1>2 DEF Holds, Held, Left, g
<1>11. n <= TotalPacketCount \/ Window = 1 => ~IsDuplicate(p)
  <2>1. CASE n <= TotalPacketCount
    <3> SUFFICES ASSUME NEW i \in 1..Window PROVE rec[i].seq # p.seq
      BY <1>5 DEF IsDuplicate
    <3>1. rec[i].seq \in Nat
      BY <1>6 DEF Slot
    <3>2. CASE i <= j
      <4>1. l + i \in Nat /\ l + i < n /\ i \in 1..j
        BY <1>1, <1>2, <3>2 DEF g
      <4>2. NumberOf(l + i) < NumberOf(n) /\ NumberOf(l + i) \in Nat /\ NumberOf(n) \in Nat
        BY <1>2, <2>1, <4>1, NumbersGrow
      <4> QED
        BY <1>4, <1>10, <3>1, <4>1, <4>2
    <3>3. CASE i > j
      <4>1. l < n /\ i \in g..Window
        BY <1>1, <1>2, <3>3 DEF g
      <4>2. NumberOf(l) < NumberOf(n) /\ NumberOf(l) \in Nat /\ NumberOf(n) \in Nat
        BY <1>1, <1>2, <2>1, <4>1, NumbersGrow
      <4> QED
        BY <1>4, <1>10, <3>1, <4>1, <4>2
    <3> QED
      BY <3>2, <3>3
  <2>2. CASE Window = 1
    <3>1. g = 1
      BY <1>2, <2>2
    <3>2. rec[1].ws = 0
      BY <1>1, <1>10, <2>2, <3>1
    <3>3. rec[1].seq = 0
      BY <1>5, <2>2, <3>2 DEF Inv, SlotsFilled
    <3> QED
      BY <1>4, <1>5, <2>2, <3>3 DEF IsDuplicate
  <2> QED
    BY <2>1, <2>2
<1>12. l = 0 => n <= TotalPacketCount
  BY <1>1, <1>2 DEF g
<1>13. CASE ~IsDuplicate(p)
  <2>1. /\ Received(p)[g] = [seq |-> p.seq, ws |-> p.ws, data |-> p.data]
        /\ Acknowledged(p)[g] = AckFor(p)
    BY <1>2, <1>6, <1>8, <1>13
  <2>2. NumberOf(n) \in Nat
    BY <1>2, NumberFacts
  <2> QED
    BY <1>3, <1>4, <1>7, <1>9, <1>12, <2>1, <2>2 DEF g
<1>14. CASE IsDuplicate(p)
  <2>1. n = TotalPacketCount + 1 /\ Window # 1 /\ l > 0
    BY <1>1, <1>2, <1>11, <1>12, <1>14
  <2>2. g \in g..Window /\ Received(p)[g] = rec[g]
    BY <1>2, <1>8, <1>14
  <2>3. Received(p)[g].data = TextOf(n)
    BY <1>1, <1>10, <2>1, <2>2, NextText
  <2>4. rec[g].seq <= 100 + NumberOf(n)
    <3>1. l <= n
      BY <1>1
    <3>2. NumberOf(l) <= NumberOf(n) /\ NumberOf(l) \in Nat /\ NumberOf(n) \in Nat
      BY <1>1, <1>2, <3>1, NumbersGrow
    <3>3. rec[g].seq <= 100 + NumberOf(l) /\ rec[g].seq \in Nat
      BY <1>2, <1>6, <1>10, <2>2 DEF Slot
    <3> QED
      BY <3>2, <3>3
  <2>5. g >= 2 => Received(p)[g].ws = g
    BY <1>2, <1>10, <2>1, <2>2
  <2>6. ~(n <= TotalPacketCount \/ Window = 1)
    BY <1>1, <2>1
  <2> QED
    BY <1>3, <1>7, <1>9, <1>12, <2>2, <2>3, <2>4, <2>5, <2>6 DEF g
<1> QED
  BY <1>13, <1>14

(* The packet that was repeated is in the window before, or passes for one *)
(* that is: the server is where it was.                                    *)
LEMMA RepeatedTaken ==
    ASSUME Sound, Ample, AtWindow, Turns, Carried(0, 1), RowsWritten,
           e2s # <<>>, e2s' = Tail(e2s),
           UNCHANGED <<pc, slot, tpc, copy, tp, acked, rac, needed, phase, c2e, e2c>>,
           \/ ReceiveSyn(Head(e2s)) \/ ReceiveData(Head(e2s))
           \/ ReceiveEot(Head(e2s)) \/ ReceiveTooEarly(Head(e2s))
    PROVE  Filling' /\ RowsWritten' /\ spc' = spc
<1> USE DEF Sound
<1> DEFINE p == Head(e2s)
           l == Len(allp)
<1>1. /\ Window \in Nat \ {0} /\ TotalPacketCount \in Nat \ {0}
      /\ l \in Nat /\ tpc \in Nat
      /\ 0 \in 0..Window - 1 /\ 1 \in 0..1
  BY Context
<1>2. /\ p \in ClientPacket /\ p \in Numbered /\ p \in PlacedPackets(tpc)
      /\ maxW = Window /\ SentOnce \in Nat /\ Repeated(p)
  BY <1>1, TakenNext
<1>3. Window > 1 /\ l = TotalPacketCount + 1 /\ Holds(0) /\ Coming(l + 0, 1)
  BY DEF Carried, ExtraRepeated
<1>4. p.type = DATA /\ p.ws = Window /\ p.data = Blank
  BY <1>2 DEF Repeated
<1>5. ReceiveData(p)
  BY <1>2, <1>3, <1>4 DEF ReceiveSyn, ReceiveEot, ReceiveTooEarly, SYN, DATA, EOT
<1>6. Inv /\ rec \in [1..Window -> Slot]
  BY <1>2, SystemFacts DEF AnswersInv, Inv, StateTypeOK
<1> HIDE DEF p
<1>7. /\ \A i \in 1..Window : /\ rec[i].seq <= 100 + NumberOf(l)
                              /\ i = 1 => rec[i].ws = 0
                              /\ l > 0 => rec[i].data = Blank
      /\ l > 0 => \A i \in 2..Window : rec[i].ws = i
  BY <1>1, <1>3 DEF Holds, Left
<1>8. /\ \A i \in 1..Window : i # Window => Received(p)[i] = rec[i]
      /\ \/ Received(p)[Window] = rec[Window]
         \/ Received(p)[Window] = [seq |-> p.seq, ws |-> Window, data |-> Blank]
  BY <1>1, <1>4, <1>6 DEF Received
<1>9. ~AllDataReceived(p)
  <2>1. 1 \in 1..maxW /\ Received(p)[1] = rec[1]
    BY <1>1, <1>2, <1>3, <1>8
  <2>2. rec[1].ws = 0
    BY <1>1, <1>7
  <2> QED
    BY <2>1, <2>2 DEF AllDataReceived
<1>10. rec' = Received(p) /\ UNCHANGED <<spc, allp, maxW>>
  BY <1>5, <1>9 DEF ReceiveData
<1>11. p.seq <= 100 + NumberOf(l)
  <2>1. PICK k \in 1..tpc : k <= TotalPacketCount + 1 /\ p.ack = NumberOf(k)
    BY <1>2, <1>4 DEF PlacedPackets, Names
  <2>2. NumberOf(k) <= NumberOf(l) /\ NumberOf(k) \in Nat /\ NumberOf(l) \in Nat
    <3>1. k \in Nat /\ k <= l
      BY <1>1, <1>3, <2>1
    <3> QED
      BY <1>1, <3>1, NumbersGrow
  <2>3. p.seq = p.ack + 100
    BY <1>2, <1>4 DEF Numbered
  <2> QED
    BY <2>1, <2>2, <2>3
<1>12. Holds(0)'
  <2>1. ASSUME NEW i \in 1..Window
        PROVE  /\ rec'[i].seq <= 100 + NumberOf(l)
               /\ i = 1 => rec'[i].ws = 0
               /\ rec'[i].data = Blank
               /\ i >= 2 => rec'[i].ws = i
    BY <1>1, <1>3, <1>7, <1>8, <1>10, <1>11
  <2> QED
    BY <1>2, <1>10, <2>1 DEF Holds, Left
<1>13. /\ SentOnce' = SentOnce /\ Len(Up') = Len(Up) - 1
       /\ Coming(l + 0, 0)'
  <2>1. l + 0 \in Nat /\ Len(allp') = Len(allp) /\ allp' = allp
    BY <1>1, <1>10
  <2>2. SentOnce' = SentOnce /\ Len(Up') = Len(Up) - 1 /\ Coming(l + 0, 0)'
    BY <1>1, <1>2, <1>3, <2>1, RestComes
  <2> QED
    BY <2>1, <2>2
<1>14. Carried(0, 0)'
  <2>1. /\ l + 0 <= SentOnce /\ l + 0 <= TotalPacketCount + 1
        /\ tpc <= TotalPacketCount + 1 \/ pc = "send" =>
              Len(Up) = 1 + SentOnce - (l + 0)
        /\ pc = "repair" /\ tpc <= TotalPacketCount + 1 =>
              \A i \in 1..Window : acked[i] = 1 \/ (i = Window /\ 1 = 0 /\ ExtraRepeated(tpc))
    BY DEF Carried
  <2>2. Len(Up) \in Nat /\ Len(allp') = l
    BY <1>10, UpFacts
  <2>3. Len(Up') = Len(Up) - 1
    BY <1>13
  <2>4. ASSUME NEW u \in Nat, NEW s \in Nat, NEW n \in Nat, u = 1 + s - (n + 0)
        PROVE  u - 1 = 0 + s - (n + 0)
    BY <2>4
  <2>5. tpc <= TotalPacketCount + 1 \/ pc = "send" =>
              Len(Up') = 0 + SentOnce - (l + 0)
    BY <1>1, <1>2, <2>1, <2>2, <2>3, <2>4
  <2>6. 0 # 1 /\ Len(allp)' = l /\ tpc' = tpc
    BY <2>2
  <2> QED
    BY <1>12, <1>13, <2>1, <2>5, <2>6 DEF Carried
<1>15. AtWindow'
  BY <1>10 DEF AtWindow, InHandshake, Packed, Copied
<1>16. Turns'
  BY <1>3, <1>10 DEF Turns
<1> QED
  BY <1>1, <1>10, <1>14, <1>15, <1>16, RowsStay DEF Filling

(* EOT: what the window holds is all there is left.                        *)
LEMMA EotTaken ==
    ASSUME Sound, Ample, AtWindow, RowsWritten, NEW j \in 0..Window - 1,
           Carried(j, 0), Len(allp) + j = TotalPacketCount + 1,
           e2s # <<>>, UNCHANGED tpc,
           \/ ReceiveSyn(Head(e2s)) \/ ReceiveData(Head(e2s))
           \/ ReceiveEot(Head(e2s)) \/ ReceiveTooEarly(Head(e2s))
    PROVE  RowsWritten' /\ Complete'
<1> USE DEF Sound
<1> DEFINE p == Head(e2s)
           l == Len(allp)
<1>1. /\ Window \in Nat \ {0} /\ TotalPacketCount \in Nat \ {0} /\ l \in Nat
      /\ Window <= TotalPacketCount
  BY Context
<1>2. maxW = Window /\ IsSent(p, l + (j + 1)) /\ p \in ClientPacket
  BY TakenNext
<1>3. p.type = EOT
  <2>1. l + (j + 1) = TotalPacketCount + 2
    BY <1>1
  <2> QED
    BY <1>2, <2>1 DEF IsSent, Is
<1>4. ReceiveEot(p)
  BY <1>1, <1>2, <1>3 DEF ReceiveSyn, ReceiveData, ReceiveTooEarly, SYN, DATA, EOT
<1> HIDE DEF p
<1>5. Write(rec, MarkLast(trn), "exited")
  BY <1>4 DEF ReceiveEot
<1>6. rec \in [1..maxW -> Slot]
  BY SystemFacts DEF AnswersInv, Inv, StateTypeOK
<1>7. l > 0
  BY <1>1
<1>8. /\ \A i \in 1..j : Held(i, l + i)
      /\ \A i \in j + 1..Window : rec[i].seq <= 100 + NumberOf(l) /\ rec[i].data = Blank
  BY <1>7 DEF Carried, Holds, Left
<1>9. /\ NumberOf(l) \in Nat /\ NumberOf(l + Window) \in Nat
      /\ NumberOf(l) <= NumberOf(l + Window)
  <2>1. l <= l + Window /\ l + Window \in Nat
    BY <1>1
  <2> QED
    BY <1>1, <2>1, NumbersGrow
<1>10. ASSUME NEW i \in 1..Window
       PROVE  /\ rec[i].data = TextOf(l + i)
              /\ rec[i].seq <= 100 + NumberOf(l + Window)
              /\ TextOf(l + i) # Blank => rec[i].seq > 100 + NumberOf(l)
  <2>1. rec[i].seq \in Nat
    BY <1>2, <1>6 DEF Slot
  <2>2. CASE i <= j
    <3>1. i \in 1..j /\ l + i \in Nat /\ l + i <= l + Window /\ l < l + i /\ l + Window \in Nat
      BY <1>1, <2>2
    <3>2. rec[i].data = TextOf(l + i) /\ rec[i].seq <= 100 + NumberOf(l + i)
          /\ (l + i <= TotalPacketCount => rec[i].seq = 100 + NumberOf(l + i))
      BY <1>8, <3>1 DEF Held
    <3>3. NumberOf(l + i) <= NumberOf(l + Window) /\ NumberOf(l + i) \in Nat
      BY <3>1, NumbersGrow
    <3>4. l + i <= TotalPacketCount => NumberOf(l) < NumberOf(l + i)
      BY <1>1, <3>1, NumbersGrow
    <3>5. TextOf(l + i) # Blank => l + i <= TotalPacketCount
      BY <1>1, <3>1, NextText
    <3> QED
      BY <1>9, <2>1, <3>2, <3>3, <3>4, <3>5
  <2>3. CASE i > j
    <3>1. i \in j + 1..Window /\ l + i \in Nat /\ l + i > TotalPacketCount
      BY <1>1, <2>3
    <3>2. TextOf(l + i) = Blank
      BY <3>1, NextText
    <3> QED
      BY <1>8, <1>9, <2>1, <3>1, <3>2
  <2> QED
    BY <2>2, <2>3
<1>11. RowsWritten' /\ Len(allp') = l + Window /\ spc' = "exited"
  BY <1>2, <1>5, <1>6, <1>10, RowsAdded
<1>12. l + Window = Windows * Window
  <2>1. PICK m \in 0..l : l = m * Window
    BY DEF RowsWritten
  <2>2. TotalPacketCount + 1 + Window = (m + 1) * Window + j
    <3>1. (m + 1) * Window = m * Window + Window
      BY <1>1
    <3> QED
      BY <1>1, <2>1, <3>1
  <2>3. Windows = m + 1
    <3> DEFINE a == TotalPacketCount + 1 + Window
    <3>1. ASSUME NEW x \in Nat, NEW q \in Nat, NEW w \in Nat \ {0}, NEW y \in 0..w - 1,
                 x = q * w + y
          PROVE  x \div w = q
      BY <3>1
    <3>2. a \in Nat /\ m + 1 \in Nat /\ a = (m + 1) * Window + j
      BY <1>1, <2>2
    <3> HIDE DEF a
    <3>3. a \div Window = m + 1
      BY <1>1, <3>1, <3>2
    <3> QED
      BY <3>3 DEF a, Windows
  <2>4. (m + 1) * Window = m * Window + Window
    BY <1>1
  <2> QED
    BY <2>1, <2>3, <2>4
<1> QED
  BY <1>11, <1>12 DEF Complete

(* A packet in the middle of the window.                                   *)
LEMMA InnerTaken ==
    ASSUME Sound, Ample, Calm, AtWindow, Turns, RowsWritten,
           NEW j \in 0..Window - 1, Carried(j, 0), j + 1 # Window,
           Len(allp) + (j + 1) <= TotalPacketCount + 1,
           e2s # <<>>, e2s' = Tail(e2s),
           UNCHANGED <<pc, slot, tpc, copy, tp, acked, rac, needed, phase, c2e, e2c>>,
           ReceiveData(Head(e2s))
    PROVE  Filling' /\ RowsWritten' /\ spc' = spc
<1> USE DEF Sound
<1> DEFINE p == Head(e2s)
           l == Len(allp)
           n == l + (j + 1)
<1>1. /\ Window \in Nat \ {0} /\ TotalPacketCount \in Nat \ {0}
      /\ l \in Nat /\ tpc \in Nat
  BY Context
<1>2. /\ p \in ClientPacket /\ p \in Numbered /\ maxW = Window
      /\ SentOnce \in Nat /\ IsSent(p, n) /\ l + j < SentOnce
  BY TakenNext
<1>3. Holds(j) /\ Coming(l + j, 0)
  BY DEF Carried
<1>4. /\ p.type = DATA /\ p.ws = j + 1 /\ p.last # 1 /\ p.ack = NumberOf(n)
      /\ \A i \in 1..Window : i # j + 1 =>
             Received(p)[i] = rec[i] /\ Acknowledged(p)[i] = trn[i]
      /\ Received(p)[j + 1].data = TextOf(n)
      /\ Received(p)[j + 1].seq <= 100 + NumberOf(n)
      /\ n <= TotalPacketCount \/ Window = 1 =>
             /\ Received(p)[j + 1].ws = j + 1
             /\ Received(p)[j + 1].seq = 100 + NumberOf(n)
             /\ Acknowledged(p)[j + 1] = AckFor(p)
      /\ l > 0 /\ j + 1 >= 2 => Received(p)[j + 1].ws = j + 1
  BY <1>2, <1>3, SlotTaken
<1> HIDE DEF p
<1>5. /\ ~AnswersNow(p) /\ ~AllDataReceived(p)
  <2>1. j + 1 \in 1..Window - 1 /\ (j + 1) % Window = j + 1
    BY <1>1
  <2> QED
    BY <1>1, <1>2, <1>4, <2>1 DEF AnswersNow, AllDataReceived, DATA, EOT
<1>6. /\ rec' = Received(p) /\ trn' = Acknowledged(p)
      /\ UNCHANGED <<spc, allp, maxW, s2e>>
  BY <1>5 DEF ReceiveData, p
<1>7. Holds(j + 1)'
  <2>1. ASSUME NEW i \in 1..j + 1 PROVE Held(i, l + i)'
    <3>1. CASE i = j + 1
      <4>1. AckFor(p).type = ACK /\ AckFor(p).seq = NumberOf(n)
            /\ AckFor(p).last = 0 /\ AckFor(p).re = 0
        BY <1>4 DEF AckFor, Calm
      <4>2. (l + i)' = n
        BY <1>6, <3>1
      <4>3. /\ rec'[i].data = TextOf(n) /\ rec'[i].seq <= 100 + NumberOf(n)
            /\ n <= TotalPacketCount =>
                  /\ rec'[i].ws = i /\ rec'[i].seq = 100 + NumberOf(n)
                  /\ trn'[i] = AckFor(p)
        BY <1>4, <1>6, <3>1
      <4> HIDE DEF n
      <4> HIDE DEF l
      <4> QED
        BY <4>1, <4>2, <4>3 DEF Held
    <3>2. CASE i # j + 1
      <4>1. i \in 1..Window /\ i \in 1..j
        BY <1>1, <3>2
      <4>2. Held(i, l + i)
        BY <1>3, <4>1 DEF Holds
      <4>3. rec'[i] = rec[i] /\ trn'[i] = trn[i]
        BY <1>4, <1>6, <3>2, <4>1
      <4> QED
        BY <1>6, <4>2, <4>3 DEF Held
    <3> QED
      BY <3>1, <3>2
  <2>2. ASSUME NEW i \in (j + 1) + 1..Window PROVE Left(i)'
    <3>1. i \in 1..Window /\ i # j + 1 /\ i \in j + 1..Window
      BY <1>1
    <3>2. Left(i)
      BY <1>3, <3>1 DEF Holds
    <3>3. rec'[i] = rec[i]
      BY <1>4, <1>6, <3>1
    <3> QED
      BY <1>6, <3>2, <3>3 DEF Left
  <2>3. l > 0 => \A i \in 2..Window : rec'[i].ws = i
    <3> SUFFICES ASSUME l > 0, NEW i \in 2..Window PROVE rec'[i].ws = i
      OBVIOUS
    <3>1. rec[i].ws = i /\ i \in 1..Window
      BY <1>3 DEF Holds
    <3>2. i # j + 1 => rec'[i] = rec[i]
      BY <1>4, <1>6, <3>1
    <3>3. i = j + 1 => rec'[i].ws = i
      BY <1>4, <1>6
    <3> QED
      BY <3>1, <3>2, <3>3
  <2> QED
    BY <1>2, <1>6, <2>1, <2>2, <2>3 DEF Holds
<1>8. /\ SentOnce' = SentOnce /\ Len(Up') = Len(Up) - 1
      /\ Coming(l + (j + 1), 0)'
  <2>1. l + j \in Nat /\ Len(allp') = Len(allp) /\ 0 \in 0..1 /\ l + j + 1 = l + (j + 1)
    BY <1>1, <1>6
  <2>2. SentOnce' = SentOnce /\ Len(Up') = Len(Up) - 1 /\ Coming(l + j + 1, 0)'
    BY <1>1, <1>2, <1>3, <2>1, RestComes
  <2>3. allp' = allp
    BY <1>6
  <2> QED
    BY <2>1, <2>2, <2>3
<1>9. Carried(j + 1, 0)'
  <2>1. /\ tpc <= TotalPacketCount + 1 \/ pc = "send" =>
              Len(Up) = 0 + SentOnce - (l + j)
        /\ pc = "repair" /\ tpc <= TotalPacketCount + 1 =>
              \A i \in 1..Window : acked[i] = 1 \/ (i = Window /\ 0 = 0 /\ ExtraRepeated(tpc))
    BY DEF Carried
  <2>2. Len(Up) \in Nat /\ Len(allp)' = l
    BY <1>6, UpFacts
  <2>3. ASSUME NEW u \in Nat, NEW s \in Nat, NEW m \in Nat, u = 0 + s - (m + j)
        PROVE  u - 1 = 0 + s - (m + (j + 1))
    BY <2>3
  <2>4. tpc <= TotalPacketCount + 1 \/ pc = "send" =>
              Len(Up') = 0 + SentOnce - (l + (j + 1))
    BY <1>1, <1>2, <1>8, <2>1, <2>2, <2>3
  <2>5. l + (j + 1) <= SentOnce /\ 0 # 1
    BY <1>1, <1>2
  <2> QED
    BY <1>7, <1>8, <2>1, <2>2, <2>4, <2>5 DEF Carried, ExtraRepeated
<1>10. AtWindow'
  BY <1>6 DEF AtWindow, InHandshake, Packed, Copied
<1>11. Turns'
  BY <1>6 DEF Turns, Stream
<1>12. j + 1 \in 0..Window - 1
  BY <1>1
<1> QED
  BY <1>6, <1>9, <1>10, <1>11, <1>12, RowsStay DEF Filling

(* The packet that completes the window: it is written, and the answers to *)
(* all of it go out at once.                                               *)
LEMMA LastTaken ==
    ASSUME Sound, Ample, Calm, AtWindow, Turns, RowsWritten,
           Carried(Window - 1, 0), Len(allp) + Window <= TotalPacketCount + 1,
           e2s # <<>>, e2s' = Tail(e2s),
           UNCHANGED <<pc, slot, tpc, copy, tp, acked, rac, needed, phase, c2e, e2c>>,
           ReceiveData(Head(e2s))
    PROVE  Answering' /\ RowsWritten' /\ spc' = "listen"
<1> USE DEF Sound
<1> DEFINE p == Head(e2s)
           l == Len(allp)
           j == Window - 1
           n == l + (j + 1)
           t == MarkLast(Acknowledged(p))
<1>1. /\ Window \in Nat \ {0} /\ TotalPacketCount \in Nat \ {0}
      /\ l \in Nat /\ tpc \in Nat /\ tpc <= TotalPacketCount + 2
      /\ SockBuf \in Nat /\ Window < SockBuf
      /\ pc \in {"build", "send"} => slot \in 1..Window
      /\ j \in 0..Window - 1 /\ j + 1 = Window /\ n = l + Window
  <2>1. /\ Window \in Nat \ {0} /\ TotalPacketCount \in Nat \ {0}
        /\ l \in Nat /\ tpc \in Nat /\ tpc <= TotalPacketCount + 2
        /\ SockBuf \in Nat /\ Window < SockBuf
        /\ pc \in {"build", "send"} => slot \in 1..Window
    BY Context DEF AtWindow
  <2>2. j + 1 = Window
    BY <2>1
  <2> QED
    BY <2>1, <2>2
<1>2. /\ p \in ClientPacket /\ p \in Numbered /\ maxW = Window
      /\ SentOnce \in Nat /\ SentOnce <= tpc /\ IsSent(p, n) /\ l + j < SentOnce
  BY <1>1, TakenNext
<1>3. Holds(j)
  BY DEF Carried
<1>4. /\ p.type = DATA /\ p.ws = Window /\ p.ack = NumberOf(n)
      /\ Received(p) \in [1..Window -> Slot]
      /\ Acknowledged(p) \in [1..Window -> AckRecord]
      /\ \A i \in 1..Window : i # Window =>
             Received(p)[i] = rec[i] /\ Acknowledged(p)[i] = trn[i]
      /\ Received(p)[Window].data = TextOf(n)
      /\ Received(p)[Window].seq <= 100 + NumberOf(n)
      /\ n <= TotalPacketCount \/ Window = 1 =>
             /\ Received(p)[Window].ws = Window
             /\ Received(p)[Window].seq = 100 + NumberOf(n)
             /\ Acknowledged(p)[Window] = AckFor(p)
      /\ l > 0 /\ Window >= 2 => Received(p)[Window].ws = Window
      /\ l = 0 => n <= TotalPacketCount
  BY <1>1, <1>2, <1>3, SlotTaken
<1> HIDE DEF p, j
<1>5. /\ tpc = l + Window /\ SentOnce = tpc /\ tpc <= TotalPacketCount + 1
      /\ pc = "receive"
  <2>1. /\ tpc <= l + Window
        /\ pc = "repair" /\ tpc <= TotalPacketCount + 1 => tpc = l
        /\ tpc <= TotalPacketCount + 1 => pc # "done"
        /\ ~InHandshake /\ pc # "resend"
    BY DEF AtWindow
  <2>2. tpc = l + Window /\ SentOnce = tpc /\ tpc <= TotalPacketCount + 1
    BY <1>1, <1>2, <2>1
  <2>3. pc # "build"
    <3>1. pc = "build" => SentOnce = l
      BY DEF SentOnce
    <3> QED
      BY <1>1, <2>2, <3>1
  <2>4. pc # "send"
    <3>1. pc = "send" => SentOnce = l + slot - 1
      BY DEF SentOnce
    <3> QED
      BY <1>1, <2>2, <3>1
  <2>5. pc # "repair" /\ pc # "done"
    BY <1>1, <2>1, <2>2
  <2>6. pc \in {"start", "handshake", "build", "send", "resend", "receive", "repair", "done"}
    BY Context, ClientTypes
  <2> QED
    BY <2>1, <2>2, <2>3, <2>4, <2>5, <2>6 DEF InHandshake
<1>6. /\ rac = 0 /\ Packed(l, Window) /\ Copied
  BY <1>5 DEF AtWindow
<1>7. Len(Up') = 0 /\ Up' = <<>> /\ c2e = <<>> /\ Stream = <<>> /\ phase = "server"
  <2>1. Len(Up) = 0 + SentOnce - (l + (Window - 1))
    BY <1>5 DEF Carried
  <2>2. Len(Up) = 1
    BY <1>1, <1>5, <2>1
  <2>3. Len(Up') = 0 /\ Len(c2e) = 0
    <3>1. Len(Up') = Len(Up) - 1
      BY UpTaken
    <3>2. Len(Up) = Len(e2s) + Len(c2e) /\ Len(e2s) > 0 /\ Len(e2s) \in Nat /\ Len(c2e) \in Nat
      BY UpFacts
    <3>3. ASSUME NEW u, NEW a \in Nat, NEW c \in Nat, u = a + c, a > 0, u = 1
          PROVE  u - 1 = 0 /\ c = 0
      BY <3>3
    <3> HIDE DEF Up
    <3> QED
      BY <2>2, <3>1, <3>2, <3>3
  <2>4. c2e = <<>>
    BY <2>3, UpFacts
  <2>5. Up' = <<>>
    <3>1. e2s \in Seq(ClientPacket) /\ Len(e2s) = 1
      <4>1. Len(Up) = Len(e2s) + Len(c2e) /\ Len(e2s) \in Nat
        BY UpFacts
      <4> HIDE DEF Up
      <4> QED
        BY <2>2, <2>3, <4>1, SystemFacts
    <3>2. e2s' = <<>> /\ c2e' = <<>>
      BY <2>4, <3>1, LastOfOne
    <3> QED
      BY <3>2 DEF Up
  <2>6. l # TotalPacketCount + 1
    BY <1>1, <1>5
  <2>7. Stream = <<>> /\ phase = "server"
    BY <1>5, <2>4, <2>6 DEF Turns
  <2> QED
    BY <2>3, <2>4, <2>5, <2>7
<1>8. \A i \in 1..Window - 1 :
          /\ rec[i].data = TextOf(l + i) /\ rec[i].ws = i /\ rec[i].seq = 100 + NumberOf(l + i)
          /\ trn[i].type = ACK /\ trn[i].seq = NumberOf(l + i)
          /\ trn[i].last = 0 /\ trn[i].re = 0
  <2> TAKE i \in 1..Window - 1
  <2>1. Held(i, l + i)
    BY <1>3 DEF Holds, j
  <2>2. l + i <= TotalPacketCount
    BY <1>1, <1>5
  <2> QED
    BY <1>5, <2>1, <2>2 DEF Held
<1>9. \A i \in 1..Window : Received(p)[i].ws = i
  <2> TAKE i \in 1..Window
  <2>1. CASE i # Window
    <3>1. i \in 1..Window - 1
      BY <1>1, <2>1
    <3> QED
      BY <1>4, <1>8, <2>1, <3>1
  <2>2. CASE i = Window
    <3>1. Window = 1 \/ n <= TotalPacketCount \/ (l > 0 /\ Window >= 2)
      BY <1>1, <1>4
    <3> QED
      BY <1>4, <2>2, <3>1
  <2> QED
    BY <2>1, <2>2
<1>10. AnswersNow(p) /\ AllDataReceived(p)
  <2>1. Window % Window = 0
    BY <1>1
  <2> QED
    BY <1>2, <1>4, <1>9, <2>1 DEF AnswersNow, AllDataReceived
<1>11. s2e' = Put(s2e, Burst(t)) /\ Write(Received(p), t, "listen") /\ maxW' = maxW
  BY <1>10 DEF ReceiveData, p
<1>12. /\ NumberOf(l) \in Nat /\ NumberOf(n) \in Nat /\ NumberOf(l) <= NumberOf(n)
  BY <1>1, NumbersGrow
<1>13. ASSUME NEW i \in 1..Window
       PROVE  /\ Received(p)[i].data = TextOf(l + i)
              /\ Received(p)[i].seq <= 100 + NumberOf(n)
              /\ TextOf(l + i) # Blank => Received(p)[i].seq > 100 + NumberOf(l)
  <2>1. CASE i # Window
    <3>1. i \in 1..Window - 1 /\ Received(p)[i] = rec[i]
      BY <1>1, <1>4, <2>1
    <3>2. l + i \in Nat /\ l < l + i /\ l + i <= n /\ l + i <= TotalPacketCount
      BY <1>1, <1>5, <3>1
    <3>3. NumberOf(l) < NumberOf(l + i) /\ NumberOf(l + i) <= NumberOf(n)
          /\ NumberOf(l + i) \in Nat
      BY <1>1, <3>2, NumbersGrow
    <3> QED
      BY <1>8, <1>12, <3>1, <3>3
  <2>2. CASE i = Window
    <3>1. l + i = n /\ l < n /\ n \in Nat
      BY <1>1, <2>2
    <3>2. TextOf(n) # Blank => n <= TotalPacketCount
      BY <1>1, <3>1, NextText
    <3>3. n <= TotalPacketCount => NumberOf(l) < NumberOf(n)
      BY <1>1, <3>1, NumbersGrow
    <3> HIDE DEF n
    <3> QED
      BY <1>4, <1>12, <2>2, <3>1, <3>2, <3>3
  <2> QED
    BY <2>1, <2>2
<1>14. /\ RowsWritten' /\ Len(allp') = l + Window /\ spc' = "listen"
       /\ rec' = Emptied(Received(p))
  <2>1. NumberOf(l + Window) = NumberOf(n)
    BY <1>1
  <2> HIDE DEF n
  <2> QED
    BY <1>2, <1>4, <1>11, <1>13, <2>1, RowsAdded
<1>15. /\ \A i \in 1..Window : t[i].ws = i
       /\ t \in [1..Window -> AckRecord] /\ \A i \in 1..Window : t[i] \in Answer
       /\ \A i \in 1..Window : /\ t[i].last = 1 <=> i = Window
                               /\ i # Window => t[i].re = 0
                               /\ ~ExtraRepeated(l + i) =>
                                     t[i].type = ACK /\ t[i].seq = NumberOf(l + i)
  <2>1. AnswersInv /\ maxW # 0 /\ maxW = Window /\ maxW \in Nat
    BY <1>1, <1>2, SystemFacts
  <2>2. t \in [1..Window -> AckRecord] /\ Ready(t)
    BY <1>2, <1>4, <1>10, <2>1, AcknowledgedReady
  <2>3. WindowOK(maxW, Received(p), Acknowledged(p))
    BY <1>2, <1>4, <2>1, ReceivedWindow DEF AnswersInv
  <2>4. \A i \in 1..Window : Acknowledged(p)[i].ws = i
    BY <1>9, <2>1, <2>3 DEF WindowOK
  <2>5. ASSUME NEW i \in 1..Window
        PROVE  /\ i # Window => t[i] = Acknowledged(p)[i]
               /\ i = Window => t[i] = [Acknowledged(p)[i] EXCEPT !.last = 1]
    BY <2>1, <2>4 DEF MarkLast
  <2>6. ASSUME NEW i \in 1..Window
        PROVE  /\ t[i].ws = i
               /\ t[i].last = 1 <=> i = Window
               /\ i # Window => t[i].re = 0
               /\ ~ExtraRepeated(l + i) => t[i].type = ACK /\ t[i].seq = NumberOf(l + i)
    <3>1. CASE i # Window
      <4>1. t[i] = trn[i]
        BY <1>4, <2>5, <3>1
      <4>2. t[i].ws = i
        BY <2>4, <2>5, <3>1
      <4>3. i \in 1..Window - 1
        BY <1>1, <3>1
      <4> HIDE DEF t
      <4> QED
        BY <1>8, <3>1, <4>1, <4>2, <4>3
    <3>2. CASE i = Window
      <4> DEFINE a == Acknowledged(p)[Window]
      <4>1. a \in AckRecord /\ a.ws = Window /\ t[i] = [a EXCEPT !.last = 1]
        BY <1>1, <1>4, <2>4, <2>5, <3>2
      <4>2. ASSUME ~ExtraRepeated(l + i) PROVE a.type = ACK /\ a.seq = NumberOf(l + i)
        <5>1. l + i = n
          BY <1>1, <3>2
        <5>2. n <= TotalPacketCount \/ Window = 1
          BY <1>1, <1>5, <4>2, <5>1 DEF ExtraRepeated
        <5>3. a = AckFor(p)
          BY <1>4, <5>2
        <5> QED
          BY <1>4, <5>1, <5>3 DEF AckFor
      <4> HIDE DEF a, t
      <4>3. t[i].last = 1 /\ t[i].ws = a.ws /\ t[i].type = a.type /\ t[i].seq = a.seq
        BY <4>1 DEF AckRecord
      <4> QED
        BY <3>2, <4>1, <4>2, <4>3
    <3> QED
      BY <3>1, <3>2
  <2>7. \A i \in 1..Window : t[i] \in Answer
    BY <2>1, <2>2, <2>6 DEF Ready
  <2> HIDE DEF t
  <2> QED
    BY <2>2, <2>6, <2>7
<1>16. /\ s2e' = Burst(t) /\ Stream' = Burst(t) /\ Len(Stream') = Window
       /\ \A k \in 1..Window : Stream'[k] = t[k]
  <2> HIDE DEF t
  <2>1. /\ Len(Burst(t)) = Window /\ \A k \in 1..Window : Burst(t)[k] = t[k]
    BY <1>1, <1>2, <1>15, FullBurst
  <2>2. Burst(t) \in Seq(Answer)
    BY <1>1, <1>2, <1>15, BurstFacts
  <2>3. s2e = <<>> /\ e2c = <<>> /\ e2c' = <<>>
    <3>1. Len(s2e) = 0 /\ Len(e2c) = 0
      BY <1>7, StreamFacts
    <3> QED
      BY <3>1, StreamFacts
  <2>4. s2e' = Burst(t)
    BY <1>1, <1>11, <2>1, <2>2, <2>3 DEF Put
  <2>5. Stream' = Burst(t)
    BY <2>2, <2>3, <2>4 DEF Stream
  <2> QED
    BY <2>1, <2>4, <2>5
<1>17. \A k \in 1..Len(Stream') : Answers(Stream[k], rac + k)'
  <2> TAKE k \in 1..Len(Stream')
  <2>1. k \in 1..Window /\ (rac + k)' = k /\ Stream'[k] = t[k]
    BY <1>1, <1>6, <1>16
  <2>2. tpc - Window + k = l + k
    BY <1>1, <1>5, <2>1
  <2>3. (tpc - Window + (rac + k))' = l + k
    BY <2>1, <2>2
  <2> HIDE DEF t
  <2>4. k < Window => k # Window
    BY <1>1, <2>1
  <2> QED
    BY <1>15, <2>1, <2>3, <2>4 DEF Answers, ExtraRepeated
<1>18. Holds(0)'
  <2>1. maxW' = Window /\ Len(allp') = n
    BY <1>1, <1>2, <1>11, <1>14
  <2>2. ASSUME NEW i \in 1..Window
        PROVE  /\ rec'[i].seq <= 100 + NumberOf(n) /\ rec'[i].data = Blank
               /\ i = 1 => rec'[i].ws = 0
               /\ i # 1 => rec'[i].ws = i
    <3>1. CASE i = 1
      <4>1. rec'[i] = ZeroSlot
        BY <1>2, <1>14, <3>1 DEF Emptied
      <4> HIDE DEF n
      <4> QED
        BY <1>12, <3>1, <4>1 DEF ZeroSlot
    <3>2. CASE i # 1
      <4>1. rec'[i] = [Received(p)[i] EXCEPT !.data = Blank] /\ Received(p)[i] \in Slot
        BY <1>2, <1>4, <1>14, <3>2 DEF Emptied
      <4>2. rec'[i].seq = Received(p)[i].seq /\ rec'[i].ws = Received(p)[i].ws
            /\ rec'[i].data = Blank
        BY <4>1 DEF Slot
      <4> HIDE DEF n
      <4> QED
        BY <1>9, <1>13, <3>2, <4>2
    <3> QED
      BY <3>1, <3>2
  <2>3. n > 0
    BY <1>1
  <2> HIDE DEF n
  <2>4. \A i \in 0 + 1..Window : Left(i)'
    BY <2>1, <2>2 DEF Left
  <2>5. \A i \in 1..0 : Held(i, Len(allp) + i)'
    OBVIOUS
  <2>6. \A i \in 2..Window : rec'[i].ws = i
    <3> TAKE i \in 2..Window
    <3>1. i \in 1..Window /\ i # 1
      BY <1>1
    <3> QED
      BY <2>2, <3>1
  <2> QED
    BY <2>1, <2>4, <2>5, <2>6 DEF Holds
<1>19. Packed(tpc - Window, Window)'
  <2>1. tpc - Window = l
    BY <1>1, <1>5
  <2> QED
    BY <1>6, <2>1 DEF Packed
<1>20. Stream' # <<>> /\ s2e' # <<>> /\ (rac + Len(Stream))' = Window
  <2>1. Stream' # <<>>
    BY <1>1, <1>16
  <2> QED
    BY <1>1, <1>6, <1>16, <2>1
<1>21. \A i \in 1..rac' : acked'[i] = 1
  BY <1>6
<1>22. tpc' = Len(allp') /\ tpc' <= TotalPacketCount + 1 /\ pc' = "receive"
  BY <1>5, <1>14
<1>23. Copied'
  BY <1>6 DEF Copied
<1>24. phase' = "server" /\ Up' = <<>>
  BY <1>7
<1> HIDE DEF t, n, l
<1> QED
  BY <1>14, <1>17, <1>18, <1>19, <1>20, <1>21, <1>22, <1>23, <1>24 DEF Answering

(* The datagram that the server takes while a window is on its way.        *)
LEMMA FillingTaken ==
    ASSUME Sound, Ample, Calm, RowsWritten, Filling, spc = "listen",
           e2s # <<>>, e2s' = Tail(e2s),
           UNCHANGED <<pc, slot, tpc, copy, tp, acked, rac, needed, phase, c2e, e2c>>,
           \/ ReceiveSyn(Head(e2s)) \/ ReceiveData(Head(e2s))
           \/ ReceiveEot(Head(e2s)) \/ ReceiveTooEarly(Head(e2s))
    PROVE  CarryInv'
<1>1. AtWindow /\ Turns
  BY DEF Filling
<1>2. PICK j \in 0..Window - 1, extra \in 0..1 : Carried(j, extra)
  BY DEF Filling
<1>3. /\ Window \in Nat \ {0} /\ TotalPacketCount \in Nat \ {0} /\ Len(allp) \in Nat
      /\ Len(allp) + j <= TotalPacketCount + 1
  BY <1>2, Context DEF Carried
<1>4. CASE extra = 1
  <2>1. j = 0
    BY <1>2, <1>4 DEF Carried
  <2>2. Carried(0, 1)
    BY <1>2, <1>4, <2>1
  <2>3. Filling' /\ RowsWritten' /\ spc' = spc
    BY <1>1, <2>2, RepeatedTaken
  <2> QED
    BY <2>3 DEF CarryInv
<1>5. CASE extra = 0 /\ Len(allp) + j = TotalPacketCount + 1
  <2>1. Carried(j, 0)
    BY <1>2, <1>5
  <2>2. RowsWritten' /\ Complete'
    BY <1>1, <1>5, <2>1, EotTaken
  <2> QED
    BY <2>2 DEF CarryInv
<1>6. CASE extra = 0 /\ Len(allp) + j # TotalPacketCount + 1
  <2>1. Carried(j, 0) /\ Len(allp) + (j + 1) <= TotalPacketCount + 1
    BY <1>2, <1>3, <1>6
  <2>2. ReceiveData(Head(e2s))
    <3>1. maxW = Window /\ IsSent(Head(e2s), Len(allp) + (j + 1))
      BY <1>1, <1>2, <1>6, TakenNext
    <3>2. Len(allp) + (j + 1) # TotalPacketCount + 2
      BY <1>3, <2>1
    <3>3. Head(e2s).type = DATA
      BY <3>1, <3>2 DEF IsSent, Is
    <3> QED
      BY <1>3, <3>1, <3>3 DEF ReceiveSyn, ReceiveEot, ReceiveTooEarly, SYN, DATA, EOT
  <2>3. CASE j + 1 = Window
    <3>1. j = Window - 1
      BY <1>3, <2>3
    <3>2. Carried(Window - 1, 0) /\ Len(allp) + Window <= TotalPacketCount + 1
      BY <2>1, <2>3, <3>1
    <3>3. Answering' /\ RowsWritten' /\ spc' = "listen"
      BY <1>1, <2>2, <3>2, LastTaken
    <3> QED
      BY <3>3 DEF CarryInv
  <2>4. CASE j + 1 # Window
    <3>1. Filling' /\ RowsWritten' /\ spc' = spc
      BY <1>1, <2>1, <2>2, <2>4, InnerTaken
    <3> QED
      BY <3>1 DEF CarryInv
  <2> QED
    BY <2>3, <2>4
<1> QED
  BY <1>4, <1>5, <1>6

(* A timeout of the server repeats answers, and there is none before EOT   *)
(* has been sent.                                                          *)
LEMMA LateTimeout ==
    ASSUME Sound, Ample, RowsWritten, Filling, spc = "listen",
           UNCHANGED <<pc, slot, tpc, copy, tp, acked, rac, needed, phase, c2e, e2c>>,
           Timeout, TimerFires
    PROVE  CarryInv'
<1>1. /\ TotalPacketCount \in Nat /\ tpc \in 0..TotalPacketCount + 2 /\ Prompt /\ ClientOK
  BY Context DEF Sound
<1>2. Idle
  BY <1>1 DEF TimerFires
<1>3. tpc = TotalPacketCount + 2
  BY <1>1, <1>2, NeverIdle
<1>4. UNCHANGED <<spc, allp, maxW, rec, e2s>>
  BY DEF Timeout
<1>5. Up' = Up /\ Len(Up) \in Nat
  BY <1>4, UpFacts DEF Up, Sound
<1>6. pc \notin {"build", "send"} /\ pc' \in {"receive", "repair", "done"}
  BY <1>2 DEF Idle, Filling, AtWindow, InHandshake
<1>7. Filling'
  BY <1>3, <1>4, <1>5, <1>6, LateStep
<1>8. RowsWritten'
  BY <1>4, RowsStay
<1> QED
  BY <1>4, <1>7, <1>8 DEF CarryInv

LEMMA ServerCarries ==
    ASSUME Sound, Sound', Ample, Calm, CarryInv, ServerStep \/ ServerTimeout
    PROVE  CarryInv'
<1>1. /\ UNCHANGED <<pc, slot, tpc, copy, tp, acked, rac, needed, phase, c2e, e2c>>
      /\ spc = "listen"
  BY ServerCases
<1>2. /\ RowsWritten
      /\ Greeting \/ Filling \/ Answering
  BY <1>1 DEF CarryInv, Complete
<1>3. CASE /\ e2s # <<>> /\ e2s' = Tail(e2s)
           /\ \/ ReceiveSyn(Head(e2s)) \/ ReceiveData(Head(e2s))
              \/ ReceiveEot(Head(e2s)) \/ ReceiveTooEarly(Head(e2s))
  <2>1. CASE Greeting
    <3>1. Greeting' /\ RowsWritten' /\ spc' = spc
      BY <1>1, <1>3, <2>1, SynAnswered
    <3> QED
      BY <1>1, <3>1 DEF CarryInv
  <2>2. CASE Filling
    BY <1>1, <1>2, <1>3, <2>2, FillingTaken
  <2>3. CASE Answering
    <3>1. Up = <<>>
      BY <2>3 DEF Answering
    <3>2. e2s = <<>>
      BY <3>1, UpFacts DEF Sound
    <3> QED
      BY <1>3, <3>2
  <2> QED
    BY <1>2, <2>1, <2>2, <2>3
<1>4. CASE Timeout /\ TimerFires
  <2>1. CASE Filling
    BY <1>1, <1>2, <1>4, <2>1, LateTimeout
  <2>2. CASE ~Filling
    <3>1. tpc <= TotalPacketCount + 1
      BY <1>2, <2>2, Context DEF Greeting, Answering
    <3>2. ~Idle /\ Prompt
      BY <1>1, <1>2, <3>1, NeverIdle, Context
    <3> QED
      BY <1>4, <3>2 DEF TimerFires
  <2> QED
    BY <2>1, <2>2
<1> QED
  BY <1>3, <1>4, ServerCases

-----------------------------------------------------------------------------
(***************************************************************************)
(* The invariant.                                                          *)
(***************************************************************************)
LEMMA CarryInit == HistoryInit => CarryInv
<1> SUFFICES ASSUME HistoryInit PROVE CarryInv
  OBVIOUS
<1>1. /\ pc = "start" /\ needed = 0 /\ allp = <<>> /\ spc = "listen"
      /\ phase = "client" /\ prev.seq = 0
      /\ c2e = <<>> /\ e2s = <<>> /\ s2e = <<>> /\ e2c = <<>>
  BY DEF HistoryInit, SystemInit, C!Init, C!EarlierInit, E!Init, Init, ZeroAck
<1>2. Up = <<>> /\ Stream = <<>>
  BY <1>1 DEF Up, Stream
<1>3. Greeting
  BY <1>1, <1>2 DEF Greeting, InHandshake
<1>4. Len(allp) = 0 /\ 0 = 0 * Window
  BY <1>1, Sizes
<1>5. RowsWritten
  BY <1>4 DEF RowsWritten
<1> QED
  BY <1>1, <1>3, <1>5 DEF CarryInv

LEMMA CarryStutters ==
    ASSUME CarryInv, UNCHANGED systemVars
    PROVE  CarryInv'
<1>1. /\ UNCHANGED <<pc, slot, tpc, copy, tp, acked, rac, needed>>
      /\ UNCHANGED <<phase, allp, maxW, rec, trn, prev, spc, c2e, e2c, e2s, s2e>>
  BY DEF systemVars, clientVars, emulatorVars, serverVars
<1>2. RowsWritten'
  BY <1>1, RowsStay DEF CarryInv
<1>3. Up' = Up /\ Stream' = Stream
  BY <1>1 DEF Up, Stream
<1>4. Greeting => Greeting'
  BY <1>1, <1>3 DEF Greeting, InHandshake
<1>5. Filling => Filling'
  <2> SUFFICES ASSUME Filling PROVE Filling'
    OBVIOUS
  <2>1. PICK j \in 0..Window - 1, extra \in 0..1 : Carried(j, extra)
    BY DEF Filling
  <2>2. Carried(j, extra)'
    BY <1>1, <1>3, <2>1 DEF Carried, Holds, Held, Left, Coming, SentOnce
  <2>3. AtWindow'
    BY <1>1 DEF Filling, AtWindow, InHandshake, Packed, Copied
  <2>4. Turns'
    BY <1>1, <1>3 DEF Filling, Turns
  <2> QED
    BY <2>2, <2>3, <2>4 DEF Filling
<1>6. Answering => Answering'
  BY <1>1, <1>3 DEF Answering, Packed, Copied, Holds, Held, Left, Answers
<1> QED
  BY <1>1, <1>2, <1>4, <1>5, <1>6 DEF CarryInv, Complete

LEMMA CarryNext ==
    ASSUME Sound, Sound', Ample, Calm, CarryInv, [SystemNext]_systemVars
    PROVE  CarryInv'
<1>1. CASE ClientStep \/ ClientTimeout
  BY <1>1, ClientCarries
<1>2. CASE EmulatorStep \/ EmulatorTimeout
  BY <1>2, EmulatorCarries
<1>3. CASE ServerStep \/ ServerTimeout
  BY <1>3, ServerCarries
<1>4. CASE UNCHANGED systemVars
  BY <1>4, CarryStutters
<1> QED
  BY <1>1, <1>2, <1>3, <1>4 DEF SystemNext, SomeStep, SomeTimeout

LEMMA AlwaysSound == HistorySpec => []Sound
<1>1. SystemInv /\ HistoryInv /\ PlacesInv => Sound
  BY DEF Sound
<1> QED
  BY <1>1, SystemWithHistory, HistoryInvariant, AcksNameBuilt, PTL

(* While nothing is lost the three programs work hand in hand: until all   *)
(* is written there is a packet or an answer on its way, the server holds  *)
(* the packets of the window that it has taken, and the windows before it  *)
(* have been written, each once and in order (client.c 150-309, server.c   *)
(* 138-301, emulator.c 92-213).                                            *)
THEOREM CarriesWindows ==
    ASSUME Ample
    PROVE  HistorySpec /\ []Calm => []CarryInv
<1>1. /\ Sound /\ Sound' /\ Calm /\ CarryInv /\ [SystemNext /\ Note]_historyVars
      => CarryInv'
  <2> SUFFICES ASSUME Sound, Sound', Calm, CarryInv, [SystemNext /\ Note]_historyVars
               PROVE  CarryInv'
    OBVIOUS
  <2>1. [SystemNext]_systemVars
    BY DEF historyVars
  <2> QED
    BY <2>1, CarryNext
<1> QED
  BY <1>1, CarryInit, AlwaysSound, PTL DEF HistorySpec

-----------------------------------------------------------------------------
(***************************************************************************)
(* What is written.                                                        *)
(***************************************************************************)
LEMMA WindowsFill ==
    Windows * Window \in Nat /\ Windows * Window > TotalPacketCount + 1
<1>1. Window \in Nat \ {0} /\ TotalPacketCount \in Nat
  BY WindowBounds
<1>2. ASSUME NEW w \in Nat \ {0}, NEW a \in Nat, NEW d, d = a \div w
      PROVE  d * w \in Nat /\ d * w > a - w
  BY <1>2
<1> DEFINE a == TotalPacketCount + 1 + Window
<1>3. a \in Nat /\ a - Window = TotalPacketCount + 1
  BY <1>1
<1> HIDE DEF a
<1>4. Windows = a \div Window
  BY DEF a, Windows
<1>5. Windows * Window \in Nat /\ Windows * Window > a - Window
  BY <1>1, <1>2, <1>3, <1>4
<1> QED
  BY <1>3, <1>5

LEMMA WindowsCounted ==
    ASSUME Sound, Ample, CarryInv
    PROVE  WindowsWrittenOnce
<1> DEFINE q == (TotalPacketCount + 1 + Window) \div Window
<1>1. /\ Window \in Nat \ {0} /\ TotalPacketCount \in Nat /\ Len(allp) \in Nat
      /\ tpc \in Nat
  BY Context
<1>2. q * Window \in Nat /\ q * Window > TotalPacketCount + 1
  BY WindowsFill DEF Windows
<1> HIDE DEF q
<1>3. CASE Complete
  BY <1>1, <1>2, <1>3 DEF Complete, Windows, WindowsWrittenOnce, q
<1>4. CASE spc = "listen" /\ (Greeting \/ Filling \/ Answering)
  <2>1. Len(allp) <= TotalPacketCount + 1
    BY <1>1, <1>4 DEF Greeting, Filling, AtWindow, Answering
  <2>2. Len(allp) <= q * Window
    BY <1>1, <1>2, <2>1
  <2> QED
    BY <1>4, <2>2 DEF WindowsWrittenOnce, q
<1> QED
  BY <1>3, <1>4 DEF CarryInv

(* While nothing is lost no window is written twice and none is left out:  *)
(* write_count ends as the number of windows times their size, which for   *)
(* nine chunks or more is past the end of all_packets (server.c 256-301).  *)
THEOREM EveryWindowOnce ==
    ASSUME Ample
    PROVE  HistorySpec /\ []Calm => []WindowsWrittenOnce
<1>1. Sound /\ CarryInv => WindowsWrittenOnce
  BY WindowsCounted
<1> QED
  BY <1>1, AlwaysSound, CarriesWindows, PTL

(* While nothing is lost whatever runs past the end of all_packets is      *)
(* empty: behind the chunks come only the extra packet and what the slots  *)
(* behind EOT still hold (server.c 110, 256-301, client.c 167).            *)
THEOREM PaddingOverruns ==
    ASSUME Ample
    PROVE  HistorySpec /\ []Calm => []OverrunIsPadding
<1>1. ASSUME Sound, CarryInv, NEW k \in 1..Len(allp), k > maxP + 1
      PROVE  allp[k].data = Blank
  <2>1. /\ Len(allp) \in Nat /\ allp # <<>> /\ TotalPacketCount \in Nat
        /\ maxP = MaxPackets
    BY <1>1, Context, Sizes DEF Sound, SystemInv, Inv, Sized, StateTypeOK
  <2>2. k > TotalPacketCount /\ k \in Nat
    BY <1>1, <2>1, WindowAssumption DEF MaxPackets, setMaxPacketCount
  <2>3. allp[k].data = TextOf(k)
    BY <1>1 DEF CarryInv, RowsWritten
  <2> QED
    BY <2>1, <2>2, <2>3, NextText
<1>2. Sound /\ CarryInv => OverrunIsPadding
  BY <1>1 DEF OverrunIsPadding
<1> QED
  BY <1>2, AlwaysSound, CarriesWindows, PTL

(* The chunks among the first l packets, and how many they are.            *)
Filled(l) == {k \in 1..l : TextOf(k) # Blank}
SentOf(l) == Cardinality(Filled(l))

LEMMA FilledGrows ==
    ASSUME NEW l \in Nat, NEW k \in Nat, l <= k
    PROVE  /\ SentOf(l) \in Nat /\ SentOf(k) \in Nat /\ SentOf(l) <= SentOf(k)
           /\ IsFiniteSet(Filled(k)) /\ Filled(l) \subseteq Filled(k)
<1>1. IsFiniteSet(1..k) /\ Filled(k) \in SUBSET (1..k) /\ Filled(l) \in SUBSET Filled(k)
  <2>1. \A i \in 1..l : i \in 1..k
    OBVIOUS
  <2> QED
    BY <2>1, FS_Interval DEF Filled
<1>2. IsFiniteSet(Filled(k))
  BY <1>1, FS_Subset
<1> QED
  BY <1>1, <1>2, FS_Subset, FS_CardinalityType DEF SentOf

(* No two elements of a set of numbers have as many before them.           *)
LEMMA NthOnce ==
    ASSUME NEW S \in SUBSET Nat, IsFiniteSet(S), NEW i \in S, NEW j \in S,
           Cardinality({x \in S : x <= i}) = Cardinality({x \in S : x <= j})
    PROVE  i = j
<1>1. ASSUME NEW a \in S, NEW b \in S, a < b
      PROVE  Cardinality({x \in S : x <= a}) # Cardinality({x \in S : x <= b})
  <2> DEFINE A == {x \in S : x <= a}
             B == {x \in S : x <= b}
  <2>0. \A x \in S : x \in Nat
    OBVIOUS
  <2>1. A \in SUBSET B /\ B \in SUBSET S /\ b \in B /\ b \notin A
    <3>1. a \in Nat /\ b \in Nat /\ ~(b <= a) /\ b <= b
      BY <1>1, <2>0
    <3>2. \A x \in S : x <= a => x <= b
      BY <1>1, <2>0
    <3> QED
      BY <3>1, <3>2, Zenon
  <2>2. IsFiniteSet(B)
    BY <2>1, FS_Subset
  <2> HIDE DEF A, B
  <2>3. A # B
    BY <2>1
  <2>4. Cardinality(A) # Cardinality(B)
    BY <2>1, <2>2, <2>3, FS_Subset
  <2> QED
    BY <2>4 DEF A, B
<1>2. i < j \/ j < i \/ i = j
  OBVIOUS
<1> QED
  BY <1>1, <1>2

(* The n-th chunk is the n-th chunk, however many packets follow.          *)
LEMMA NthFilled ==
    ASSUME NEW l \in Nat, NEW n \in 1..SentOf(l)
    PROVE  /\ n \in 1..SentOf(TotalPacketCount)
           /\ Nth(Filled(l), n) = Nth(Filled(TotalPacketCount), n)
           /\ Nth(Filled(l), n) \in 1..l /\ Nth(Filled(l), n) \in 1..TotalPacketCount
<1>1. TotalPacketCount \in Nat /\ SentOf(l) \in Nat /\ SentOf(TotalPacketCount) \in Nat
  BY Sizes, FilledGrows
<1>2. \A k \in Filled(l) : k \in 1..l /\ k \in 1..TotalPacketCount
  BY <1>1, NextText DEF Filled
<1>3. Filled(l) \subseteq Filled(TotalPacketCount) /\ IsFiniteSet(Filled(TotalPacketCount))
  BY <1>1, <1>2, FilledGrows DEF Filled
<1>4. SentOf(l) <= SentOf(TotalPacketCount)
  BY <1>3, FS_Subset DEF SentOf
<1>5. n \in 1..SentOf(TotalPacketCount)
  BY <1>1, <1>4
<1> DEFINE i == Nth(Filled(l), n)
           j == Nth(Filled(TotalPacketCount), n)
<1>6. i \in Filled(l) /\ Cardinality({x \in Filled(l) : x <= i}) = n
  <2>1. Filled(l) \in SUBSET (1..l)
    BY DEF Filled
  <2> QED
    BY <2>1, NthFacts DEF SentOf
<1>7. /\ j \in Filled(TotalPacketCount)
      /\ Cardinality({x \in Filled(TotalPacketCount) : x <= j}) = n
  <2>1. Filled(TotalPacketCount) \in SUBSET (1..TotalPacketCount)
    BY DEF Filled
  <2> QED
    BY <1>1, <1>5, <2>1, NthFacts DEF SentOf
<1> HIDE DEF i, j
<1>8. {x \in Filled(l) : x <= i} = {x \in Filled(TotalPacketCount) : x <= i}
  <2>1. \A x \in Filled(TotalPacketCount) : x <= i => x \in Filled(l)
    <3> SUFFICES ASSUME NEW x \in Filled(TotalPacketCount), x <= i
                 PROVE  x \in Filled(l)
      OBVIOUS
    <3>1. i \in 1..l /\ x \in 1..TotalPacketCount /\ TextOf(x) # Blank
      BY <1>2, <1>6 DEF Filled
    <3>2. x \in 1..l
      BY <1>1, <3>1
    <3> QED
      BY <3>1, <3>2 DEF Filled
  <2> QED
    BY <1>3, <2>1
<1>9. i = j
  <2>1. Filled(TotalPacketCount) \in SUBSET Nat
    BY <1>1 DEF Filled
  <2>2. i \in Filled(TotalPacketCount)
    BY <1>3, <1>6
  <2> QED
    BY <1>3, <1>6, <1>7, <1>8, <2>1, <2>2, NthOnce
<1> QED
  BY <1>2, <1>5, <1>6, <1>9 DEF i, j

(* What l packets have brought is the beginning of what is to be sent.     *)
LEMMA SentPrefix ==
    ASSUME NEW l \in Nat, NEW f, f = [k \in 1..l |-> TextOf(k)]
    PROVE  /\ SentOf(l) \in 0..Len(Sendable) /\ Len(Sendable) \in Nat
           /\ Len(Texts(f)) = SentOf(l)
           /\ Texts(f) = SubSeq(Sendable, 1, SentOf(l))
<1>1. TotalPacketCount \in Nat /\ SentOf(l) \in Nat /\ SentOf(TotalPacketCount) \in Nat
  BY Sizes, FilledGrows
<1>2. ASSUME NEW m \in Nat, NEW g, g = [k \in 1..m |-> TextOf(k)]
      PROVE  Texts(g) = [n \in 1..SentOf(m) |-> g[Nth(Filled(m), n)]]
  <2>1. Len(g) = m /\ \A k \in 1..m : g[k] = TextOf(k)
    BY <1>2
  <2>2. {k \in 1..Len(g) : g[k] # Blank} = Filled(m)
    BY <2>1 DEF Filled
  <2> QED
    BY <2>2 DEF Texts, SentOf
<1> DEFINE h == [k \in 1..TotalPacketCount |-> TextOf(k)]
<1>3. Sendable = [n \in 1..SentOf(TotalPacketCount) |-> h[Nth(Filled(TotalPacketCount), n)]]
  BY <1>1, <1>2 DEF Sendable, TotalPacketCount
<1>4. Texts(f) = [n \in 1..SentOf(l) |-> f[Nth(Filled(l), n)]]
  BY <1>2
<1>5. \A n \in 1..SentOf(l) : /\ n \in 1..SentOf(TotalPacketCount)
                             /\ Texts(f)[n] = Sendable[n]
  <2> TAKE n \in 1..SentOf(l)
  <2>1. /\ n \in 1..SentOf(TotalPacketCount)
        /\ Nth(Filled(l), n) = Nth(Filled(TotalPacketCount), n)
        /\ Nth(Filled(l), n) \in 1..l /\ Nth(Filled(l), n) \in 1..TotalPacketCount
    BY NthFilled
  <2>2. Texts(f)[n] = TextOf(Nth(Filled(l), n))
    BY <1>4, <2>1
  <2>3. Sendable[n] = TextOf(Nth(Filled(TotalPacketCount), n))
    BY <1>3, <2>1
  <2> QED
    BY <2>1, <2>2, <2>3
<1>6. Len(Sendable) = SentOf(TotalPacketCount) /\ Len(Texts(f)) = SentOf(l)
  BY <1>1, <1>3, <1>4
<1>7. SentOf(l) <= SentOf(TotalPacketCount)
  <2>1. CASE SentOf(l) = 0
    BY <1>1, <2>1
  <2>2. CASE SentOf(l) # 0
    BY <1>1, <1>5, <2>2
  <2> QED
    BY <2>1, <2>2
<1>8. SubSeq(Sendable, 1, SentOf(l)) = [n \in 1..SentOf(l) |-> Sendable[n]]
  <2>1. \A s, m : m \in Nat => SubSeq(s, 1, m) = [n \in 1..m |-> s[n]]
    OBVIOUS
  <2> QED
    BY <1>1, <2>1
<1>9. Texts(f) = [n \in 1..SentOf(l) |-> Sendable[n]]
  BY <1>4, <1>5
<1> QED
  BY <1>1, <1>6, <1>7, <1>8, <1>9

-----------------------------------------------------------------------------
(***************************************************************************)
(* The received text.                                                      *)
(***************************************************************************)
(* The rows written are the packets from the first on.                     *)
LEMMA FileOfRows ==
    ASSUME NEW a \in Seq(Slot), NEW f, f = Text(a),
           \A k \in 1..Len(a) : a[k].data = TextOf(k)
    PROVE  f = [k \in 1..Len(a) |-> TextOf(k)] /\ Len(f) = Len(a)
BY DEF Text

(* The received text is the beginning of the text to be sent, and stays it.*)
LEMMA TextInOrder ==
    ASSUME SystemInv, SystemInv', FileIsText, FileIsText', RowsWritten, RowsWritten',
           Len(file) <= Len(file'), Delivered' # Delivered
    PROVE  \E n \in Len(Delivered) + 1..Len(Sendable) :
              Delivered' = SubSeq(Sendable, 1, n)
<1> DEFINE l == Len(allp)
           m == Len(allp')
<1>1. /\ allp \in Seq(Slot) /\ allp' \in Seq(Slot) /\ l \in Nat /\ m \in Nat
  BY DEF SystemInv, Inv, StateTypeOK
<1>2. file = [k \in 1..l |-> TextOf(k)] /\ Len(file) = l
  BY <1>1, FileOfRows DEF FileIsText, RowsWritten
<1>3. file' = [k \in 1..m |-> TextOf(k)] /\ Len(file') = m
  <2>1. file' = Text(allp')
    BY DEF FileIsText, Text
  <2>2. \A k \in 1..Len(allp') : allp'[k].data = TextOf(k)
    BY DEF RowsWritten
  <2> QED
    BY <1>1, <2>1, <2>2, FileOfRows
<1>4. Delivered = Texts(file) /\ Delivered' = Texts(file')
  BY DEF Delivered, Texts
<1> HIDE DEF l, m
<1>5. /\ Len(Delivered) = SentOf(l) /\ Delivered = SubSeq(Sendable, 1, SentOf(l))
      /\ Delivered' = SubSeq(Sendable, 1, SentOf(m))
      /\ SentOf(m) \in 0..Len(Sendable) /\ Len(Sendable) \in Nat
  BY <1>1, <1>2, <1>3, <1>4, SentPrefix
<1>6. SentOf(l) <= SentOf(m) /\ SentOf(l) \in Nat /\ SentOf(m) \in Nat
  BY <1>1, <1>2, <1>3, FilledGrows
<1>7. SentOf(l) # SentOf(m)
  BY <1>5
<1>8. SentOf(m) \in Len(Delivered) + 1..Len(Sendable)
  <2>1. ASSUME NEW a \in Nat, NEW b \in Nat, NEW c \in Nat, b \in 0..c, a <= b, a # b
        PROVE  b \in a + 1..c
    BY <2>1
  <2> QED
    BY <1>5, <1>6, <1>7, <2>1
<1> QED
  BY <1>5, <1>8

LEMMA FileGoesOn ==
    ASSUME Ample, SystemInv, FileIsText, [SystemNext /\ Note]_historyVars
    PROVE  FileIsText' /\ Len(file) <= Len(file')
<1>1. HeapFaults = {"harmless"} /\ [SystemNext]_systemVars
  BY DEF Ample, historyVars
<1> QED
  BY <1>1, FileGrows

LEMMA FileStaysText ==
    ASSUME Ample
    PROVE  HistorySpec => []FileIsText
<1>1. HistoryInit => FileIsText
  <2>1. Text(<<>>) = <<>>
    BY DEF Text
  <2> QED
    BY <2>1 DEF HistoryInit, SystemInit, Init, FileIsText
<1>2. SystemInv /\ FileIsText /\ [SystemNext /\ Note]_historyVars => FileIsText'
  BY FileGoesOn
<1> QED
  BY <1>1, <1>2, SystemWithHistory, PTL DEF HistorySpec

(* While nothing is lost the received file is at all times the beginning   *)
(* of what the client sends, whole chunks in their order (client.c 155-204,*)
(* server.c 256-301).                                                      *)
THEOREM TextArrivesInOrder ==
    ASSUME Ample
    PROVE  HistorySpec /\ []Calm => TransfersInOrder
<1>1. HistoryInit => Delivered = <<>>
  <2> SUFFICES ASSUME HistoryInit PROVE Delivered = <<>>
    OBVIOUS
  <2>1. file = [k \in 1..0 |-> TextOf(k)]
    <3>1. file = <<>>
      BY DEF HistoryInit, SystemInit, Init
    <3> QED
      BY <3>1
  <2>2. SentOf(0) = 0
    <3>1. Filled(0) = {}
      BY DEF Filled
    <3> QED
      BY <3>1, FS_EmptySet DEF SentOf
  <2>3. Len(Delivered) = 0 /\ Delivered = SubSeq(Sendable, 1, 0)
    BY <2>1, <2>2, SentPrefix DEF Delivered
  <2>4. SubSeq(Sendable, 1, 0) = <<>>
    OBVIOUS
  <2> QED
    BY <2>3, <2>4
<1>2. /\ SystemInv /\ FileIsText /\ [SystemNext /\ Note]_historyVars
      => Len(file) <= Len(file')
  BY FileGoesOn
<1>3. CarryInv => RowsWritten
  BY DEF CarryInv
<1>4. /\ SystemInv /\ SystemInv' /\ FileIsText /\ FileIsText'
      /\ RowsWritten /\ RowsWritten' /\ Len(file) <= Len(file')
      => [Transfer!Deliver]_Delivered
  BY TextInOrder DEF Transfer!Deliver
<1> QED
  BY <1>1, <1>2, <1>3, <1>4, FileStaysText, SystemWithHistory, CarriesWindows, PTL
     DEF HistorySpec, TransfersInOrder, Transfer!Spec, Transfer!Init

(* What is written when the server exits is the whole of it.               *)
LEMMA AllWritten ==
    ASSUME Sound, Ample, CarryInv, FileIsText, spc = "exited"
    PROVE  Delivered = Sendable
<1> DEFINE l == Len(allp)
<1>1. allp \in Seq(Slot) /\ l \in Nat /\ TotalPacketCount \in Nat
  BY Sizes DEF Sound, SystemInv, Inv, StateTypeOK
<1>2. file = [k \in 1..l |-> TextOf(k)]
  BY <1>1, FileOfRows DEF FileIsText, CarryInv, RowsWritten
<1>3. l > TotalPacketCount
  BY WindowsFill, Context DEF CarryInv, Complete, Windows
<1> HIDE DEF l
<1>4. Filled(l) = Filled(TotalPacketCount)
  <2>1. \A k \in Filled(l) : k \in 1..TotalPacketCount
    BY <1>1, NextText DEF Filled
  <2> QED
    BY <1>1, <1>3, <2>1, FilledGrows DEF Filled
<1>5. Sendable = SubSeq(Sendable, 1, SentOf(TotalPacketCount))
  BY <1>1, SentPrefix DEF Sendable, TotalPacketCount
<1>6. Delivered = SubSeq(Sendable, 1, SentOf(l))
  BY <1>1, <1>2, SentPrefix DEF Delivered
<1> QED
  BY <1>4, <1>5, <1>6 DEF SentOf

(* While nothing is lost all that the client sends has arrived when the    *)
(* server exits, although it does not look whether the last window is      *)
(* complete when EOT comes (server.c 205-214, client.c 165-176).           *)
THEOREM AllArrives ==
    ASSUME Ample
    PROVE  HistorySpec /\ []Calm => []LossRepaired
<1>1. Sound /\ CarryInv /\ FileIsText => LossRepaired
  BY AllWritten DEF LossRepaired
<1> QED
  BY <1>1, FileStaysText, AlwaysSound, CarriesWindows, PTL

=============================================================================
