--------------------------- MODULE AckOrderProofs ---------------------------
(***************************************************************************)
(* The client never counts past its window: for every file, window, noise  *)
(* and combination of versions, and whatever is lost, as long as the       *)
(* receive buffers for the answers do not overflow - and without that      *)
(* condition, if the packet after the last chunk does not fill a window.   *)
(***************************************************************************)
EXTENDS AckOrder, HistoryProofs

-----------------------------------------------------------------------------
(***************************************************************************)
(* Numbers and slots.                                                      *)
(***************************************************************************)
LEMMA Sizes ==
    /\ Window \in Nat \ {0} /\ TotalPacketCount \in Nat \ {0}
    /\ C!TotalPacketCount = TotalPacketCount
BY WindowBounds, SameSizes

LEMMA MultipleGrows ==
    ASSUME NEW w \in Nat \ {0}, NEW a \in Nat, NEW b \in Nat, a < b
    PROVE  w * a + w <= w * b /\ w * a \in Nat /\ w * b \in Nat
<1>1. PICK d \in Nat : b = a + 1 + d
  <2>1. b - a - 1 \in Nat /\ b = a + 1 + (b - a - 1)
    OBVIOUS
  <2> QED
    BY <2>1
<1>2. w * b = w * a + w + w * d
  BY <1>1
<1>3. w * d \in Nat /\ w * a \in Nat /\ w * b \in Nat
  OBVIOUS
<1> QED
  BY <1>2, <1>3

LEMMA NumberFacts ==
    /\ NumberOf(1) = Window
    /\ NumberOf(TotalPacketCount + 1) = NumberOf(TotalPacketCount)
    /\ \A n \in Nat \ {0} : NumberOf(n) \in Nat /\ NumberOf(n) > 0
    /\ \A n \in Nat \ {0} : n < TotalPacketCount =>
          NumberOf(n + 1) = NumberOf(n) + Window
<1>1. Window \in Nat \ {0} /\ TotalPacketCount \in Nat \ {0}
  BY Sizes
<1>2. ASSUME NEW n \in Nat \ {0}
      PROVE  NumberOf(n) \in Nat /\ NumberOf(n) > 0
  <2>1. PICK k \in Nat \ {0} : NumberOf(n) = Window * k
    BY <1>1 DEF NumberOf, setMaxWindowSize
  <2>2. Window * 0 + Window <= Window * k /\ Window * k \in Nat /\ Window * 0 = 0
    BY <1>1, MultipleGrows
  <2> QED
    BY <1>1, <2>1, <2>2
<1>3. ASSUME NEW n \in Nat \ {0}, n < TotalPacketCount
      PROVE  NumberOf(n + 1) = NumberOf(n) + Window
  <2>1. NumberOf(n + 1) = Window * (n + 1) /\ NumberOf(n) = Window * n
    BY <1>1, <1>3 DEF NumberOf, setMaxWindowSize
  <2> QED
    BY <1>1, <2>1
<1> QED
  BY <1>1, <1>2, <1>3 DEF NumberOf, setMaxWindowSize

(* Only the last chunk and the packet after it share a number.             *)
LEMMA NumberOnce ==
    ASSUME NEW n \in Nat \ {0}, NEW k \in Nat \ {0}, n < k, k <= TotalPacketCount + 1,
           NumberOf(n) = NumberOf(k)
    PROVE  n = TotalPacketCount /\ k = TotalPacketCount + 1
<1>1. Window \in Nat \ {0} /\ TotalPacketCount \in Nat \ {0}
  BY Sizes
<1> DEFINE m == IF k > TotalPacketCount THEN TotalPacketCount ELSE k
<1>2. NumberOf(n) = Window * n /\ NumberOf(k) = Window * m /\ m \in Nat
  BY <1>1 DEF NumberOf, setMaxWindowSize
<1>3. ~(n < m)
  <2> HIDE DEF m
  <2> SUFFICES ASSUME n < m PROVE FALSE
    OBVIOUS
  <2> DEFINE x == Window * n
  <2>1. x + Window <= Window * m /\ x \in Nat
    BY <1>1, <1>2, MultipleGrows
  <2>2. x = Window * m
    BY <1>2
  <2> HIDE DEF x
  <2>3. x + Window <= x
    BY <2>1, <2>2
  <2> QED
    BY <1>1, <2>1, <2>3
<1> QED
  BY <1>1, <1>3

LEMMA SlotOnce ==
    ASSUME NEW n \in Nat, NEW s, NEW t, InSlot(n, s), InSlot(n, t)
    PROVE  s = t
<1>1. PICK a \in 0..n, b \in 0..n : n = a * Window + s /\ n = b * Window + t
  BY DEF InSlot
<1>2. Window \in Nat \ {0} /\ s \in 1..Window /\ t \in 1..Window
  BY Sizes DEF InSlot
<1>3. a * Window = Window * a /\ b * Window = Window * b
  BY <1>2
<1>4. ~(a < b)
  <2> SUFFICES ASSUME a < b PROVE FALSE
    OBVIOUS
  <2>1. Window * a + Window <= Window * b /\ Window * a \in Nat /\ Window * b \in Nat
    BY <1>2, MultipleGrows
  <2> QED
    BY <1>1, <1>2, <1>3, <2>1
<1>5. ~(b < a)
  <2> SUFFICES ASSUME b < a PROVE FALSE
    OBVIOUS
  <2>1. Window * b + Window <= Window * a /\ Window * a \in Nat /\ Window * b \in Nat
    BY <1>2, MultipleGrows
  <2> QED
    BY <1>1, <1>2, <1>3, <2>1
<1>6. a = b /\ Window * a \in Nat
  BY <1>2, <1>4, <1>5
<1> QED
  BY <1>1, <1>2, <1>3, <1>6

LEMMA NextSlot ==
    ASSUME NEW n \in Nat, NEW s, InSlot(n, s)
    PROVE  InSlot(n + 1, IF s = Window THEN 1 ELSE s + 1)
<1>1. Window \in Nat \ {0} /\ s \in 1..Window
  BY Sizes DEF InSlot
<1>2. PICK m \in 0..n : n = m * Window + s
  BY DEF InSlot
<1>3. CASE s = Window
  <2>1. n + 1 = (m + 1) * Window + 1 /\ m + 1 \in 0..n + 1
    BY <1>1, <1>2, <1>3
  <2> QED
    BY <1>1, <1>3, <2>1 DEF InSlot
<1>4. CASE s # Window
  <2>1. n + 1 = m * Window + (s + 1) /\ m \in 0..n + 1 /\ s + 1 \in 1..Window
    BY <1>1, <1>2, <1>4
  <2> QED
    BY <1>4, <2>1 DEF InSlot
<1> QED
  BY <1>3, <1>4

LEMMA FirstSlot == InSlot(1, 1)
<1>1. Window \in Nat \ {0} /\ 1 = 0 * Window + 1 /\ 0 \in 0..1
  BY Sizes
<1> QED
  BY <1>1 DEF InSlot

(* What has been built stays built.                                        *)
LEMMA StillPlaced ==
    ASSUME NEW k \in Nat, NEW l \in Nat, k <= l
    PROVE  /\ PlacedPackets(k) \subseteq PlacedPackets(l)
           /\ PlacedAnswers(k) \subseteq PlacedAnswers(l)
<1>1. \A number, s : Names(k, number, s) => Names(l, number, s)
  BY DEF Names
<1> QED
  BY <1>1 DEF PlacedPackets, PlacedAnswers

-----------------------------------------------------------------------------
(***************************************************************************)
(* The client builds packet after packet, slot by slot.                    *)
(***************************************************************************)
ClientPlaced ==
    /\ \A i \in 1..synAck.ws : tp[i] \in Built => tp[i] \in PlacedPackets(tpc)
    /\ WindowFilled

SpeaksPlaced ==
    /\ ClientPlaced'
    /\ tpc <= tpc'
    /\ c2e' = c2e \/ \E p \in PlacedPackets(tpc') : c2e' = Put(c2e, <<p>>)

LEMMA SynPlaced ==
    ASSUME ClientOK, ClientPlaced, C!SendSyn \/ C!SynTimeout
    PROVE  SpeaksPlaced
<1>1. /\ pc' = "handshake" /\ UNCHANGED <<synAck, tpc, copy, tp>> /\ tpc = 0
      /\ \E re \in {0, 1} : c2e' = Put(c2e, <<C!Syn(re)>>)
  BY ClientTypes, SamePut
     DEF C!SendSyn, C!SynTimeout, C!clientVars, ClientOK, WindowBuilt, InHandshake
<1>2. ASSUME NEW re \in {0, 1} PROVE C!Syn(re) \in PlacedPackets(0)
  BY SynSent DEF SynPacket, PlacedPackets, SYN, DATA
<1>3. ClientPlaced'
  BY <1>1 DEF ClientPlaced, WindowFilled
<1> QED
  BY <1>1, <1>2, <1>3 DEF SpeaksPlaced

LEMMA TakeSynAckPlaced ==
    ASSUME ClientOK, C!TakeSynAck
    PROVE  SpeaksPlaced
<1>1. /\ pc' = "build" /\ slot' = 1 /\ UNCHANGED <<tpc, c2e>> /\ tpc = 0
      /\ tp' = [i \in 1..synAck'.ws |-> C!NoPacket]
  BY DEF C!TakeSynAck, ClientOK, WindowBuilt, InHandshake
<1>2. C!NoPacket \notin Built
  BY DEF C!NoPacket, Built, ClientPacket
<1>3. InSlot(tpc' + 1, slot') /\ 1..slot' - 1 = {}
  BY <1>1, FirstSlot
<1>4. ~(tpc' \in 1..TotalPacketCount + 1)
  BY <1>1
<1>5. ClientPlaced'
  BY <1>1, <1>2, <1>3, <1>4 DEF ClientPlaced, WindowFilled
<1> QED
  BY <1>1, <1>5 DEF SpeaksPlaced

(* The number of the packet being built.                                   *)
LEMMA UnstampedPlaced ==
    ASSUME ClientOK, ClientNumbers, ClientPlaced, pc = "build", NEW u, u = C!Unstamped
    PROVE  u.type = DATA =>
               tpc + 1 <= TotalPacketCount + 1 /\ u.ack = NumberOf(tpc + 1)
<1>1. /\ tpc \in Nat /\ tpc <= TotalPacketCount + 1
      /\ synAck.ws = Window /\ synAck.ack = 100 + Window
      /\ C!TotalPacketCount = TotalPacketCount
      /\ Window \in Nat \ {0} /\ TotalPacketCount \in Nat \ {0}
  BY ClientTypes, Sizes DEF ClientOK, WindowBuilt, InHandshake, ClientNumbers
<1>2. u.type = IF tpc = TotalPacketCount + 1 THEN EOT ELSE DATA
  BY UnstampedFacts
<1> SUFFICES ASSUME tpc <= TotalPacketCount PROVE u.ack = NumberOf(tpc + 1)
  BY <1>1, <1>2 DEF EOT, DATA
<1>3. CASE tpc = 0
  <2>1. copy = C!NoPacket
    BY <1>3 DEF ClientOK, WindowBuilt
  <2>2. u = [C!NoPacket EXCEPT !.seq = synAck.ack, !.ack = synAck.ws, !.data = File[1]]
    BY <1>1, <1>3, <2>1 DEF C!Unstamped, C!NoPacket, C!W
  <2>3. u.ack = Window
    BY <1>1, <2>2 DEF C!NoPacket
  <2> QED
    BY <1>3, <2>3, NumberFacts
<1>4. CASE tpc # 0
  <2>1. copy \in Built /\ copy.ack = NumberOf(tpc)
    BY <1>1, <1>4 DEF ClientOK, WindowBuilt, ClientPlaced, WindowFilled
  <2>2. copy \in Packet /\ copy.seq > 0 /\ copy.ack \in Nat
    BY <2>1 DEF Built, ClientPacket, Packet
  <2>3. CASE tpc < TotalPacketCount
    <3>1. u = [copy EXCEPT !.seq = copy.seq + Window, !.ack = copy.ack + Window,
                           !.data = File[tpc + 1]]
      BY <1>1, <2>2, <2>3 DEF C!Unstamped, C!W, Packet
    <3>2. u.ack = copy.ack + Window
      BY <2>2, <3>1 DEF Packet
    <3> QED
      BY <1>1, <1>4, <2>1, <2>3, <3>2, NumberFacts
  <2>4. CASE tpc = TotalPacketCount
    <3>1. u = copy
      BY <1>1, <2>2, <2>4 DEF C!Unstamped, Packet
    <3> QED
      BY <2>1, <2>4, <3>1, NumberFacts
  <2> QED
    BY <1>1, <2>3, <2>4
<1> QED
  BY <1>3, <1>4

LEMMA BuildPlaced ==
    ASSUME ClientOK, ClientNumbers, ClientPlaced,
           NEW p \in {C!NextPacket, C!NextPacketInSlot}, C!BuildWith(p)
    PROVE  SpeaksPlaced
<1> DEFINE u == C!Unstamped
<1>1. /\ pc = "build" /\ copy' = p /\ tp' = [tp EXCEPT ![slot] = p] /\ tpc' = tpc + 1
      /\ IF slot = Window \/ p.type = EOT
         THEN pc' = "send" /\ slot' = 1
         ELSE slot' = slot + 1 /\ pc' = "build"
      /\ UNCHANGED <<synAck, c2e>> /\ synAck.ws = Window
  BY DEF C!BuildWith, C!W, C!EOT, EOT, InHandshake, ClientNumbers
<1>2. /\ tpc \in Nat /\ tpc <= TotalPacketCount + 1 /\ slot \in 1..Window
      /\ tp \in [1..Window -> Packet] /\ InSlot(tpc + 1, slot)
      /\ Window \in Nat \ {0} /\ TotalPacketCount \in Nat \ {0}
  BY <1>1, ClientTypes, Sizes DEF ClientOK, WindowBuilt, ClientPlaced, WindowFilled
<1>3. p \in Built /\ p.type = IF tpc = TotalPacketCount + 1 THEN EOT ELSE DATA
  BY <1>1, NextBuilt
<1>4. p.type = DATA => p.ack = NumberOf(tpc + 1) /\ p.ws = slot
  <2>1. u \in Packet /\ (u.type = DATA => u.ack = NumberOf(tpc + 1))
    BY <1>1, UnstampedPlaced, UnstampedFacts
  <2> DEFINE d == IF u.data = copy.data THEN Blank ELSE u.data
             w == IF u.type = C!EOT THEN C!W ELSE slot
  <2>2. p \in { [u EXCEPT !.ws = w, !.data = d, !.re = cgarbage.dataRe],
                [u EXCEPT !.ws = slot, !.data = d, !.re = cgarbage.dataRe] }
    BY DEF C!NextPacket, C!NextPacketInSlot
  <2>3. u.type = DATA => w = slot
    BY DEF C!EOT, DATA
  <2> HIDE DEF u, d, w
  <2>4. p.type = u.type /\ p.ack = u.ack /\ p.ws \in {w, slot}
    BY <2>1, <2>2 DEF Packet
  <2> QED
    BY <2>1, <2>3, <2>4, <2>2 DEF Packet
<1>5. p \in PlacedPackets(tpc')
  <2>1. p.type = DATA => Names(tpc', p.ack, p.ws)
    <3> SUFFICES ASSUME p.type = DATA PROVE Names(tpc', p.ack, p.ws)
      OBVIOUS
    <3>1. tpc + 1 \in 1..tpc' /\ tpc + 1 <= TotalPacketCount + 1
      BY <1>1, <1>2, <1>3 DEF EOT, DATA
    <3> QED
      BY <1>2, <1>4, <3>1 DEF Names
  <2> QED
    BY <1>3, <2>1 DEF Built, PlacedPackets
<1> HIDE DEF u
<1>6. \A i \in 1..synAck'.ws : tp'[i] \in Built => tp'[i] \in PlacedPackets(tpc')
  <2>1. \A i \in 1..synAck.ws : tp'[i] \in {p, tp[i]}
    BY <1>1, <1>2
  <2>2. PlacedPackets(tpc) \subseteq PlacedPackets(tpc')
    BY <1>1, <1>2, StillPlaced
  <2> QED
    BY <1>1, <1>5, <2>1, <2>2 DEF ClientPlaced
<1>7. tpc' \in 1..TotalPacketCount + 1 => p.type = DATA
  BY <1>1, <1>2, <1>3
<1>8. tp'[slot] = p
  BY <1>1, <1>2
<1>9. tpc' \in 1..TotalPacketCount + 1 => copy'.ack = NumberOf(tpc')
  BY <1>1, <1>2, <1>4, <1>7
<1>10. ASSUME p.type = DATA, NEW i \in 1..slot
       PROVE  tp'[i].ack = NumberOf(tpc + 1 - slot + i)
  <2>1. CASE i = slot
    <3>1. tpc + 1 - slot + i = tpc + 1
      BY <1>2, <2>1
    <3> QED
      BY <1>4, <1>8, <1>10, <2>1, <3>1
  <2>2. CASE i # slot
    <3>1. i \in 1..slot - 1 /\ tp'[i] = tp[i]
      BY <1>1, <1>2, <2>2
    <3> QED
      BY <1>1, <3>1 DEF ClientPlaced, WindowFilled
  <2> QED
    BY <2>1, <2>2
<1>11. WindowFilled'
  <2>1. CASE slot = Window \/ p.type = EOT
    <3>1. CASE tpc' <= TotalPacketCount + 1
      <4>1. p.type = DATA /\ slot = Window
        BY <1>1, <1>2, <1>7, <2>1, <3>1 DEF EOT, DATA
      <4>2. ASSUME NEW i \in 1..Window
            PROVE  tp'[i].ack = NumberOf(tpc' - Window + i)
        <5>1. tpc' - Window + i = tpc + 1 - slot + i
          BY <1>1, <1>2, <4>1
        <5> QED
          BY <1>10, <4>1, <5>1
      <4>3. InSlot(tpc', Window)
        BY <1>1, <1>2, <4>1
      <4> QED
        BY <1>1, <1>9, <2>1, <3>1, <4>2, <4>3 DEF WindowFilled
    <3>2. CASE ~(tpc' <= TotalPacketCount + 1)
      <4>1. p.type = EOT
        BY <1>1, <1>2, <1>3, <3>2
      <4>2. \E i \in 1..Window : tp'[i].type = EOT
        BY <1>2, <1>8, <4>1
      <4> QED
        BY <1>1, <1>9, <2>1, <3>2, <4>2 DEF WindowFilled
    <3> QED
      BY <3>1, <3>2
  <2>2. CASE ~(slot = Window \/ p.type = EOT)
    <3>1. InSlot(tpc' + 1, slot') /\ p.type = DATA
      BY <1>1, <1>2, <1>3, <2>2, NextSlot
    <3>2. slot' = slot + 1 /\ pc' = "build"
      BY <1>1, <2>2
    <3>3. ASSUME NEW i \in 1..slot' - 1
          PROVE  tp'[i].ack = NumberOf(tpc' + 1 - slot' + i)
      <4>1. i \in 1..slot /\ tpc' + 1 - slot' + i = tpc + 1 - slot + i
        BY <1>1, <1>2, <3>2
      <4> QED
        BY <1>10, <3>1, <4>1
    <3> QED
      BY <1>9, <3>1, <3>2, <3>3 DEF WindowFilled
  <2> QED
    BY <2>1, <2>2
<1> QED
  BY <1>1, <1>2, <1>6, <1>11 DEF ClientPlaced, SpeaksPlaced

LEMMA SendPlaced ==
    ASSUME ClientOK, ClientNumbers, ClientPlaced, ClientOK',
           C!Send \/ C!EarlierSend \/ C!Resend \/ C!EarlierResend
    PROVE  SpeaksPlaced
<1>1. /\ tp[slot] \in Built /\ slot \in 1..synAck.ws /\ ~InHandshake
      /\ UNCHANGED <<synAck, tpc, copy>>
      /\ pc \in {"send", "resend"} /\ pc' \in {"send", "resend", "receive"}
  BY SendMarks DEF InHandshake
<1>2. PICK p \in Built : /\ SameNumbers(p, tp[slot])
                        /\ tp' = [tp EXCEPT ![slot] = p]
                        /\ c2e' = Put(c2e, <<p>>)
  BY SendMarks
<1>3. p \in PlacedPackets(tpc)
  <2>1. tp[slot] \in PlacedPackets(tpc)
    BY <1>1 DEF ClientPlaced
  <2> QED
    BY <1>2, <2>1 DEF SameNumbers, Built, PlacedPackets
<1>4. /\ \A i \in 1..synAck.ws : tp'[i] \in {p, tp[i]} /\ SameNumbers(tp'[i], tp[i])
      /\ synAck.ws = Window /\ Window \in Nat \ {0} /\ tpc \in Nat
  BY <1>1, <1>2, ClientTypes, Sizes DEF SameNumbers, ClientNumbers
<1>5. WindowFilled'
  <2>1. CASE tpc <= TotalPacketCount + 1
    <3>1. /\ InSlot(tpc, Window)
          /\ \A i \in 1..Window : tp'[i].ack = NumberOf(tpc - Window + i)
      BY <1>1, <1>4, <2>1 DEF ClientPlaced, WindowFilled, SameNumbers
    <3> QED
      BY <1>1, <2>1, <3>1 DEF ClientPlaced, WindowFilled
  <2>2. CASE ~(tpc <= TotalPacketCount + 1)
    <3>1. \E i \in 1..Window : tp'[i].type = EOT
      BY <1>1, <1>4, <2>2 DEF ClientPlaced, WindowFilled, SameNumbers
    <3> QED
      BY <1>1, <2>2, <3>1 DEF ClientPlaced, WindowFilled
  <2> QED
    BY <2>1, <2>2
<1>6. ClientPlaced'
  BY <1>1, <1>3, <1>4, <1>5 DEF ClientPlaced
<1> QED
  BY <1>1, <1>2, <1>3, <1>4, <1>6 DEF SpeaksPlaced

LEMMA LoopPlaced ==
    ASSUME ClientOK, ClientPlaced, C!Receive \/ C!EarlierReceive \/ C!Timeout
    PROVE  SpeaksPlaced
<1>1. /\ pc = "receive" /\ pc' \in {"receive", "repair", "resend", "done"}
      /\ UNCHANGED <<synAck, tpc, copy, tp, c2e>> /\ tpc \in Nat
  BY ClientTypes DEF C!Receive, C!EarlierReceive, C!Timeout, C!ResendWindow
<1> QED
  BY <1>1 DEF ClientPlaced, WindowFilled, SpeaksPlaced

LEMMA RepairPlaced ==
    ASSUME ClientOK, ClientNumbers, ClientPlaced, C!Repair
    PROVE  SpeaksPlaced
<1> DEFINE missing == {i \in 1..C!W : acked[i] # 1}
           i == CHOOSE k \in missing : \A j \in missing : k <= j
<1>1. /\ pc = "repair" /\ ~InHandshake /\ tpc \in Nat
      /\ \A k \in 1..synAck.ws : tp[k] \in Built
      /\ UNCHANGED <<synAck, tpc, copy, tp>>
      /\ C!TotalPacketCount = TotalPacketCount
  BY ClientTypes, SameSizes DEF C!Repair, InHandshake, ClientOK, WindowBuilt
<1>2. CASE missing # {}
  <2>1. c2e' = Put(c2e, <<[tp[i] EXCEPT !.re = 1]>>) /\ pc' = pc /\ slot' = slot
    BY <1>2, SamePut DEF C!Repair
  <2>2. missing \in SUBSET Nat
    BY KnownWindow, <1>1 DEF C!W
  <2>3. i \in missing
    BY <1>2, <2>2, LeastElement
  <2>4. i \in 1..synAck.ws
    BY <2>3 DEF C!W
  <2> HIDE DEF i
  <2>5. tp[i] \in Built /\ tp[i] \in PlacedPackets(tpc)
    BY <1>1, <2>4 DEF ClientPlaced
  <2>6. [tp[i] EXCEPT !.re = 1] \in PlacedPackets(tpc)
    BY <2>5 DEF Built, ClientPacket, Packet, PlacedPackets
  <2>7. ClientPlaced'
    BY <1>1, <2>1 DEF ClientPlaced, WindowFilled
  <2> QED
    BY <1>1, <2>1, <2>6, <2>7 DEF SpeaksPlaced
<1>3. CASE missing = {}
  <2>1. /\ c2e' = c2e
        /\ IF tpc <= TotalPacketCount + 1 THEN pc' = "build" /\ slot' = 1
           ELSE pc' = "done"
    BY <1>1, <1>3 DEF C!Repair, C!MoreWindows
  <2>2. (tpc <= TotalPacketCount + 1 => InSlot(tpc + 1, 1)) /\ 1..1 - 1 = {}
    BY <1>1, NextSlot DEF ClientPlaced, WindowFilled
  <2>3. ClientPlaced'
    BY <1>1, <2>1, <2>2 DEF ClientPlaced, WindowFilled
  <2> QED
    BY <1>1, <2>1, <2>3 DEF SpeaksPlaced
<1> QED
  BY <1>2, <1>3

LEMMA ClientPlaces ==
    ASSUME SystemInv, ClientNumbers, ClientPlaced, ClientStep \/ ClientTimeout
    PROVE  SpeaksPlaced
<1>1. ClientOK /\ ClientOK'
  BY SystemFacts, ClientSteps
<1>2. \/ C!SendSyn \/ C!SynTimeout
      \/ C!TakeSynAck
      \/ C!BuildWith(C!NextPacket) \/ C!BuildWith(C!NextPacketInSlot)
      \/ C!Send \/ C!EarlierSend \/ C!Resend \/ C!EarlierResend
      \/ C!Receive \/ C!EarlierReceive
      \/ C!Timeout \/ C!Repair
  BY DEF ClientStep, ClientTimeout, ClientDoes, AsStarted, C!Step, C!EarlierStep,
      C!Timeouts, C!EarlierTimeouts, C!ReceiveSynAck, C!EarlierReceiveSynAck,
      C!Build, C!EarlierBuild, C!EarlierTimeout
<1> QED
  BY <1>1, <1>2, SynPlaced, TakeSynAckPlaced, BuildPlaced, SendPlaced,
     LoopPlaced, RepairPlaced

-----------------------------------------------------------------------------
(***************************************************************************)
(* The server keeps a table of acknowledgements, from which it answers.    *)
(***************************************************************************)
(* An acknowledgement of the table, before the window is written: one that *)
(* was there, or that of the packet taken.                                 *)
Derived(b, i) ==
    \/ /\ i \in 1..maxW /\ trn[i].ws = i
       /\ b.type = trn[i].type /\ b.seq = trn[i].seq
       /\ b.last = trn[i].last \/ i = Window
    \/ /\ e2s # <<>> /\ Head(e2s).type = DATA /\ Head(e2s).ws = i
       /\ b.type = ACK /\ b.seq = Head(e2s).ack
       /\ b.last = garbage.last \/ i = Window

Table(t) ==
    /\ t \in [1..Window -> AckRecord]
    /\ \A i \in 1..Window : t[i].ws = i => t[i] \in Answer /\ Derived(t[i], i)
    /\ (e2s = <<>> \/ Head(e2s).type # SYN) =>
           maxW = Window /\ \A i \in 1..Window : trn[i].ws = i => t[i].ws = i

AnswersFrom(t) ==
    /\ maxW' = Window /\ garbage'.last = garbage.last
    /\ trn' = t \/ trn' = [t EXCEPT ![1] = ZeroAck]
    /\ \/ s2e' = s2e
       \/ maxW = Window /\ s2e' = Put(s2e, Burst(t))
       \/ prev'.type = SYNACK /\ prev' \in Answer /\ s2e' = Put(s2e, <<prev'>>)
    /\ prev'.type = SYNACK =>
           prev'.last = garbage.last \/ (prev.type = SYNACK /\ prev'.last = prev.last)

LEMMA MarkedSame ==
    ASSUME maxW \in Nat, NEW t \in [1..maxW -> AckRecord], NEW i \in 1..maxW
    PROVE  /\ MarkLast(t)[i].ws = t[i].ws /\ MarkLast(t)[i].type = t[i].type
           /\ MarkLast(t)[i].seq = t[i].seq
           /\ MarkLast(t)[i].last = t[i].last \/ i = maxW
<1>1. t[i] \in AckRecord
  OBVIOUS
<1>2. MarkLast(t)[i] = IF i = maxW /\ t[i].ws = i THEN [t[i] EXCEPT !.last = 1] ELSE t[i]
  BY DEF MarkLast
<1> QED
  BY <1>1, <1>2 DEF AckRecord

(* The table as it is, marked or not, is one to answer from.               *)
LEMMA OldTable ==
    ASSUME SystemInv, maxW = Window, NEW t \in {trn, MarkLast(trn)}
    PROVE  Table(t) /\ t \in [1..maxW -> AckRecord] /\ Ready(t)
<1>1. /\ maxW \in Nat /\ trn \in [1..maxW -> AckRecord] /\ Ready(trn)
  BY SystemFacts, InvSizes DEF AnswersInv, Inv, StateTypeOK, AnswersReady, Ready
<1>2. t \in [1..maxW -> AckRecord] /\ Ready(t)
  BY <1>1, MarkLastFacts, MarkLastReady DEF Ready
<1>3. ASSUME NEW i \in 1..maxW
      PROVE  /\ t[i].ws = trn[i].ws /\ t[i].type = trn[i].type /\ t[i].seq = trn[i].seq
             /\ t[i].last = trn[i].last \/ i = maxW
  BY <1>1, MarkedSame
<1> QED
  BY <1>2, <1>3 DEF Table, Derived, Ready

LEMMA DataTable ==
    ASSUME SystemInv, e2s # <<>>, NEW p, p = Head(e2s), ReceiveData(p)
    PROVE  \E t : Table(t) /\ AnswersFrom(t)
<1> DEFINE a == Acknowledged(p)
           t == IF AnswersNow(p) THEN MarkLast(a) ELSE a
<1>1. /\ AnswersInv /\ maxW \in Nat /\ maxW # 0 /\ p.type = DATA /\ maxW = Window
      /\ maxW' = maxW /\ p \in ClientPacket /\ trn \in [1..maxW -> AckRecord]
      /\ garbage \in [last : {0, 1}, re : {0, 1}] /\ garbage' = garbage
  BY SystemFacts, InvSizes, HeadTailProperties
     DEF AnswersInv, Inv, StateTypeOK, ReceiveData
<1>2. t \in [1..maxW -> AckRecord] /\ Ready(t)
  BY <1>1, AcknowledgedReady
<1>3. AnswersFrom(t)
  <2>1. prev'.type = ACK
    BY DEF ReceiveData, AckFor
  <2> QED
    BY <1>1, <2>1 DEF ReceiveData, Write, AnswersFrom, ACK, SYNACK
<1>4. AckFor(p) \in AckRecord /\ p.ws \in 1..maxW
  BY <1>1, AckForType DEF ClientPacket, SYN, DATA
<1>5. a \in [1..maxW -> AckRecord]
  BY <1>1, <1>4 DEF Acknowledged
<1>6. \A i \in 1..maxW : a[i] = trn[i] \/ (i = p.ws /\ a[i] = AckFor(p))
  BY <1>1, <1>4 DEF Acknowledged
<1> HIDE DEF a
<1>7. ASSUME NEW i \in 1..maxW
      PROVE  /\ t[i].ws = a[i].ws /\ t[i].type = a[i].type /\ t[i].seq = a[i].seq
             /\ t[i].last = a[i].last \/ i = maxW
  BY <1>1, <1>5, MarkedSame
<1> HIDE DEF t
<1>8. /\ AckFor(p).type = ACK /\ AckFor(p).seq = p.ack /\ AckFor(p).ws = p.ws
      /\ AckFor(p).last = garbage.last
  BY DEF AckFor
<1>9. ASSUME NEW i \in 1..Window, t[i].ws = i
      PROVE  Derived(t[i], i)
  <2>1. CASE a[i] = trn[i]
    BY <1>1, <1>7, <1>9, <2>1 DEF Derived
  <2>2. CASE i = p.ws /\ a[i] = AckFor(p)
    BY <1>1, <1>7, <1>8, <2>2 DEF Derived
  <2> QED
    BY <1>1, <1>6, <2>1, <2>2
<1>10. ASSUME NEW i \in 1..Window, trn[i].ws = i
       PROVE  t[i].ws = i
  BY <1>1, <1>6, <1>7, <1>8, <1>10
<1>11. Table(t)
  BY <1>1, <1>2, <1>9, <1>10 DEF Table, Ready
<1> QED
  BY <1>3, <1>11

LEMMA SynTable ==
    ASSUME SystemInv, e2s # <<>>, NEW p, p = Head(e2s), ReceiveSyn(p)
    PROVE  \E t : Table(t) /\ AnswersFrom(t)
<1>1. /\ p \in ClientPacket /\ AnswersInv /\ maxW' = Window /\ Kept
      /\ Window \in Nat \ {0} /\ p.type = SYN /\ p.seq > 0
      /\ prev \in AckRecord /\ garbage \in [last : {0, 1}, re : {0, 1}]
  <2>1. p \in ClientPacket /\ AnswersInv
    BY SystemFacts, HeadTailProperties
  <2> QED
    BY <2>1, SynSizes, SynAnswers, Sizes
       DEF ReceiveSyn, ClientPacket, AnswersInv, Inv, StateTypeOK
<1>2. CASE p.seq # prev.seq
  <2> DEFINE t == [i \in 1..Window |-> ZeroAck]
  <2>1. /\ trn' = t /\ prev' = SynAckFor(p, Window) /\ s2e' = Put(s2e, <<prev'>>)
        /\ garbage' = garbage
    BY <1>1, <1>2 DEF ReceiveSyn
  <2>2. prev'.type = SYNACK /\ prev'.last = garbage.last /\ prev' \in Answer
    BY <1>1, <2>1 DEF SynAckFor, Kept, AnswersReady
  <2>3. Table(t)
    BY <1>1, FileAssumption DEF Table, ZeroAck, AckRecord, Payload, ACK, SYN
  <2>4. AnswersFrom(t)
    BY <1>1, <2>1, <2>2 DEF AnswersFrom
  <2> QED
    BY <2>3, <2>4
<1>3. CASE p.seq = prev.seq
  <2>1. maxW = Window
    BY <1>1, <1>3 DEF AnswersInv, Inv, Sized
  <2>2. /\ trn' \in {trn, MarkLast(trn)} /\ prev' = [prev EXCEPT !.re = 1]
        /\ s2e' = s2e \/ s2e' = Put(s2e, Burst(trn'))
        /\ garbage' = [garbage EXCEPT !.re = 1]
    BY <1>3 DEF ReceiveSyn
  <2>3. Table(trn')
    BY <2>1, <2>2, OldTable
  <2>4. prev'.type = prev.type /\ prev'.last = prev.last /\ garbage'.last = garbage.last
    BY <1>1, <2>2 DEF AckRecord
  <2>5. AnswersFrom(trn')
    BY <1>1, <2>1, <2>2, <2>4 DEF AnswersFrom
  <2> QED
    BY <2>3, <2>5
<1> QED
  BY <1>2, <1>3

LEMMA TimeoutTable ==
    ASSUME SystemInv, Timeout
    PROVE  \E t : Table(t) /\ AnswersFrom(t)
<1>1. /\ AnswersInv /\ Kept /\ prev \in AckRecord /\ maxW = Window /\ maxW' = Window
      /\ garbage' = garbage /\ Window \in Nat
  BY SystemFacts, TimeoutAnswers, Sizes DEF Timeout, AnswersInv, Inv, Sized, StateTypeOK
<1>2. Table(trn) /\ trn \in [1..maxW -> AckRecord]
  BY <1>1, OldTable
<1>3. CASE prev.type = SYNACK
  <2>1. /\ prev' = [prev EXCEPT !.re = 1] /\ trn' = trn
        /\ s2e' = Put(s2e, <<prev'>>)
    BY <1>3 DEF Timeout
  <2>2. prev'.type = SYNACK /\ prev'.last = prev.last /\ prev' \in Answer
    BY <1>1, <1>3, <2>1 DEF AckRecord, Kept, AnswersReady
  <2>3. AnswersFrom(trn)
    BY <1>1, <1>3, <2>1, <2>2 DEF AnswersFrom
  <2> QED
    BY <1>2, <2>3
<1>4. CASE prev.type # SYNACK
  <2>1. /\ prev' = prev
        /\ trn' = [i \in 1..maxW |-> IF trn[i].ws = i
                                     THEN [trn[i] EXCEPT !.re = 1] ELSE trn[i]]
        /\ s2e' = Put(s2e, Burst(trn'))
    BY <1>4 DEF Timeout
  <2>2. ASSUME NEW i \in 1..maxW
        PROVE  /\ trn'[i] \in AckRecord
               /\ trn'[i].ws = trn[i].ws /\ trn'[i].type = trn[i].type
               /\ trn'[i].seq = trn[i].seq /\ trn'[i].last = trn[i].last
    <3>1. trn[i] \in AckRecord
      BY <1>2
    <3>2. trn'[i] = IF trn[i].ws = i THEN [trn[i] EXCEPT !.re = 1] ELSE trn[i]
      BY <2>1
    <3> QED
      BY <3>1, <3>2 DEF AckRecord
  <2>3. Table(trn')
    <3>1. trn' \in [1..Window -> AckRecord]
      BY <1>1, <2>1, <2>2
    <3>2. \A i \in 1..Window : trn'[i].ws = i => trn'[i] \in Answer
      BY <1>1 DEF Kept, AnswersReady
    <3> QED
      BY <1>1, <2>2, <3>1, <3>2 DEF Table, Derived
  <2>4. AnswersFrom(trn')
    BY <1>1, <1>4, <2>1 DEF AnswersFrom
  <2> QED
    BY <2>3, <2>4
<1> QED
  BY <1>3, <1>4

(* Whatever the server does, it answers from such a table.                 *)
LEMMA ServerTable ==
    ASSUME SystemInv, Receive \/ Timeout
    PROVE  \E t : Table(t) /\ AnswersFrom(t)
<1>1. CASE Receive
  <2> DEFINE p == Head(e2s)
  <2>1. e2s # <<>> /\ p \in ClientPacket
    BY <1>1, SystemFacts, HeadTailProperties DEF Receive
  <2>2. \/ ReceiveSyn(p) \/ ReceiveData(p)
        \/ ReceiveEot(p) \/ ReceiveTooEarly(p)
    BY <1>1 DEF Receive
  <2>3. p.type # SYN => maxW # 0
    BY <2>1, SystemFacts, HeadTailProperties DEF Quiet, SynsFirst, SynPacket
  <2> HIDE DEF p
  <2>4. CASE ReceiveTooEarly(p)
    BY <2>3, <2>4 DEF ReceiveTooEarly, SYN, DATA, EOT
  <2>5. CASE ReceiveEot(p)
    <3>1. /\ UNCHANGED <<prev, maxW, garbage>> /\ maxW # 0
          /\ s2e' = Put(s2e, Burst(MarkLast(trn)))
          /\ trn' = MarkLast(trn) \/ trn' = [MarkLast(trn) EXCEPT ![1] = ZeroAck]
      BY <2>3, <2>5 DEF ReceiveEot, Write, SYN, EOT
    <3>2. maxW = Window
      BY <3>1, SystemFacts, InvSizes DEF AnswersInv
    <3>3. Table(MarkLast(trn))
      BY <3>2, OldTable
    <3>4. AnswersFrom(MarkLast(trn))
      BY <3>1, <3>2 DEF AnswersFrom
    <3> QED
      BY <3>3, <3>4
  <2> QED
    BY <2>1, <2>2, <2>4, <2>5, SynTable, DataTable DEF p
<1> QED
  BY <1>1, TimeoutTable

-----------------------------------------------------------------------------
(***************************************************************************)
(* Packets and acknowledgements go by what has been built.                 *)
(***************************************************************************)
LEMMA PlacedTable ==
    ASSUME SystemInv, NamesBuilt, NEW t, Table(t), NEW i \in 1..Window, t[i].ws = i
    PROVE  t[i] \in PlacedAnswers(tpc)
<1>1. t[i] \in Answer /\ Derived(t[i], i)
  BY DEF Table
<1>2. CASE i \in 1..maxW /\ trn[i].ws = i /\ t[i].type = trn[i].type /\ t[i].seq = trn[i].seq
  BY <1>1, <1>2 DEF NamesBuilt, PlacedAnswers
<1>3. CASE e2s # <<>> /\ Head(e2s).type = DATA /\ Head(e2s).ws = i /\ t[i].seq = Head(e2s).ack
  <2>1. Head(e2s) \in PlacedPackets(tpc)
    BY <1>3, HeadTailProperties DEF NamesBuilt
  <2> QED
    BY <1>1, <1>3, <2>1 DEF PlacedPackets, PlacedAnswers
<1> QED
  BY <1>1, <1>2, <1>3 DEF Derived

LEMMA ServerPlaces ==
    ASSUME SystemInv, NamesBuilt, Receive \/ Timeout
    PROVE  /\ s2e' \in Seq(PlacedAnswers(tpc))
           /\ \A i \in 1..maxW' : trn'[i].ws = i => trn'[i] \in PlacedAnswers(tpc)
<1>1. PICK t : Table(t) /\ AnswersFrom(t)
  BY ServerTable
<1>2. \A i \in 1..Window : t[i].ws = i => t[i] \in PlacedAnswers(tpc)
  BY <1>1, PlacedTable
<1>3. s2e \in Seq(PlacedAnswers(tpc)) /\ Window \in Nat
  BY Sizes DEF NamesBuilt
<1>4. \A i \in 1..maxW' : trn'[i].ws = i => trn'[i] \in PlacedAnswers(tpc)
  <2> SUFFICES ASSUME NEW i \in 1..Window, trn'[i].ws = i
               PROVE  trn'[i] \in PlacedAnswers(tpc)
    BY <1>1 DEF AnswersFrom
  <2>1. trn'[i] = t[i] \/ trn'[i] = ZeroAck
    BY <1>1 DEF AnswersFrom, Table
  <2>2. trn'[i] # ZeroAck
    BY <1>3 DEF ZeroAck
  <2> QED
    BY <1>2, <2>1, <2>2
<1>5. CASE maxW = Window /\ s2e' = Put(s2e, Burst(t))
  <2>1. Burst(t) \in Seq(PlacedAnswers(tpc))
    BY <1>2, <1>3, <1>5, BurstFacts
  <2> QED
    BY <1>3, <1>4, <1>5, <2>1, PutType
<1>6. CASE prev'.type = SYNACK /\ prev' \in Answer /\ s2e' = Put(s2e, <<prev'>>)
  <2>1. <<prev'>> \in Seq(PlacedAnswers(tpc))
    BY <1>6 DEF PlacedAnswers, SYNACK, ACK
  <2> QED
    BY <1>3, <1>4, <1>6, <2>1, PutType
<1> QED
  BY <1>1, <1>3, <1>4, <1>5, <1>6 DEF AnswersFrom

LEMMA PlacesInit == HistoryInit => PlacesInv
<1> SUFFICES ASSUME HistoryInit PROVE PlacesInv
  OBVIOUS
<1>1. /\ C!Init /\ Init /\ c2e = <<>> /\ e2c = <<>>
  BY DEF HistoryInit, SystemInit, C!EarlierInit
<1>2. /\ 1..synAck.ws = {} /\ 1..maxW = {} /\ pc = "start" /\ tpc = 0
      /\ c2e = <<>> /\ e2s = <<>> /\ s2e = <<>> /\ e2c = <<>>
  BY <1>1 DEF C!Init, Init
<1>3. ~(tpc \in 1..TotalPacketCount + 1)
  BY <1>2
<1> QED
  BY <1>2, <1>3 DEF PlacesInv, NamesBuilt, WindowFilled

LEMMA PlacesNext ==
    ASSUME SystemInv, SystemInv', HistoryInv, PlacesInv, [SystemNext]_systemVars
    PROVE  PlacesInv'
<1>0. tpc \in Nat /\ tpc' \in Nat
  <2>1. tpc \in Nat
    BY SystemFacts, ClientTypes
  <2>2. tpc' \in Nat
    BY Sizes DEF SystemInv, SystemTypeOK, C!TypeOK
  <2> QED
    BY <2>1, <2>2
<1>1. CASE ClientStep \/ ClientTimeout
  <2>1. SpeaksPlaced /\ Speaks
    BY <1>1, HistoryFacts, ClientPlaces, SystemFacts, ClientSteps
       DEF PlacesInv, NamesBuilt, ClientPlaced
  <2>2. UNCHANGED <<serverVars, e2s, s2e>> /\ maxW' = maxW /\ trn' = trn
    BY <1>1 DEF ClientStep, ClientTimeout, ClientDoes, serverVars
  <2>3. /\ PlacedPackets(tpc) \subseteq PlacedPackets(tpc')
        /\ PlacedAnswers(tpc) \subseteq PlacedAnswers(tpc')
    BY <1>0, <2>1, StillPlaced DEF SpeaksPlaced
  <2>4. c2e' \in Seq(PlacedPackets(tpc'))
    <3>1. c2e \in Seq(PlacedPackets(tpc'))
      BY <2>3, SeqOfMore DEF PlacesInv, NamesBuilt
    <3> QED
      BY <2>1, <3>1, SystemFacts, PutOne DEF SpeaksPlaced
  <2>5. e2s' \in Seq(PlacedPackets(tpc')) /\ s2e' \in Seq(PlacedAnswers(tpc'))
    BY <2>2, <2>3, SeqOfMore DEF PlacesInv, NamesBuilt
  <2>6. e2c' \in Seq(PlacedAnswers(tpc'))
    <3>1. e2c \in Seq(PlacedAnswers(tpc'))
      BY <2>3, SeqOfMore DEF PlacesInv, NamesBuilt
    <3> QED
      BY <2>1, <3>1, SystemFacts, TailLen DEF Speaks
  <2>7. \A i \in 1..maxW' : trn'[i].ws = i => trn'[i] \in PlacedAnswers(tpc')
    BY <2>2, <2>3 DEF PlacesInv, NamesBuilt
  <2> QED
    BY <2>1, <2>4, <2>5, <2>6, <2>7 DEF SpeaksPlaced, ClientPlaced, PlacesInv, NamesBuilt
<1>2. CASE EmulatorStep \/ EmulatorTimeout
  <2>1. UNCHANGED clientVars /\ UNCHANGED serverVars
    BY <1>2 DEF EmulatorStep, EmulatorTimeout, EmulatorDoes
  <2>2. RelaysUp \/ RelaysDown \/ UNCHANGED <<c2e, e2s, s2e, e2c>>
    <3>1. CASE EmulatorStep
      BY <3>1, SystemFacts, EmulatorRelays
    <3>2. CASE EmulatorTimeout
      BY <3>2 DEF EmulatorTimeout, EmulatorDoes, E!Timeout
    <3> QED
      BY <1>2, <3>1, <3>2
  <2>3. c2e' \in Seq(PlacedPackets(tpc)) /\ e2s' \in Seq(PlacedPackets(tpc))
    <3>1. CASE RelaysUp
      BY <3>1, SystemFacts, RelaysTypes DEF RelaysUp, PlacesInv, NamesBuilt
    <3> QED
      BY <2>2, <3>1 DEF RelaysDown, PlacesInv, NamesBuilt
  <2>4. s2e' \in Seq(PlacedAnswers(tpc)) /\ e2c' \in Seq(PlacedAnswers(tpc))
    <3>1. CASE RelaysDown
      BY <3>1, SystemFacts, RelaysTypes DEF RelaysDown, PlacesInv, NamesBuilt
    <3> QED
      BY <2>2, <3>1 DEF RelaysUp, PlacesInv, NamesBuilt
  <2> QED
    BY <2>1, <2>3, <2>4
       DEF clientVars, serverVars, PlacesInv, NamesBuilt, WindowFilled
<1>3. CASE ServerStep \/ ServerTimeout
  <2>1. UNCHANGED clientVars /\ UNCHANGED <<c2e, e2c>> /\ (Receive \/ Timeout)
    BY <1>3 DEF ServerStep, ServerTimeout, ServerDoes
  <2>2. e2s' \in Seq(PlacedPackets(tpc))
    BY <2>1, SystemFacts, TailLen DEF Receive, Timeout, PlacesInv, NamesBuilt
  <2> QED
    BY <2>1, <2>2, ServerPlaces DEF clientVars, PlacesInv, NamesBuilt, WindowFilled
<1>4. CASE UNCHANGED systemVars
  BY <1>4 DEF systemVars, clientVars, serverVars, PlacesInv, NamesBuilt, WindowFilled
<1> QED
  BY <1>1, <1>2, <1>3, <1>4 DEF SystemNext, SomeStep, SomeTimeout

-----------------------------------------------------------------------------
(***************************************************************************)
(* The order of the answers on their way.                                  *)
(***************************************************************************)
(* One answer is taken out of the queue.                                   *)
Without(q, d, q2) ==
    /\ d \in 1..Len(q) /\ Len(q2) = Len(q) - 1
    /\ \A i \in 1..Len(q2) : q2[i] = IF i < d THEN q[i] ELSE q[i + 1]

LEMMA EndsWithout ==
    ASSUME NEW q, NEW q2, NEW d, Len(q) \in Nat, Without(q, d, q2),
           NEW k \in Nat, EndsAfter(q, k), q[d].last # 1 \/ d <= k
    PROVE  EndsAfter(q2, IF k < d THEN k ELSE k - 1)
<1>1. PICK j \in k + 1..Len(q) : q[j].last = 1 /\ \A i \in k + 1..j - 1 : ~Shared(q[i])
  BY DEF EndsAfter
<1>2. d \in 1..Len(q) /\ Len(q2) = Len(q) - 1
  BY DEF Without
<1> DEFINE l == IF k < d THEN k ELSE k - 1
           m == IF j < d THEN j ELSE j - 1
<1>3. j # d /\ l \in Nat /\ m \in l + 1..Len(q2)
  BY <1>1, <1>2
<1>4. q2[m].last = 1
  <2>1. m \in 1..Len(q2) /\ j = IF m < d THEN m ELSE m + 1
    BY <1>2, <1>3
  <2> HIDE DEF m
  <2> QED
    BY <1>1, <2>1 DEF Without
<1>5. ASSUME NEW i \in l + 1..m - 1
      PROVE  ~Shared(q2[i])
  <2>1. i \in 1..Len(q2) /\ (IF i < d THEN i ELSE i + 1) \in k + 1..j - 1
    BY <1>2, <1>3
  <2>2. q2[i] = q[IF i < d THEN i ELSE i + 1]
    BY <2>1 DEF Without
  <2> QED
    BY <1>1, <2>1, <2>2
<1> HIDE DEF m
<1> QED
  BY <1>3, <1>4, <1>5 DEF EndsAfter

LEMMA ClosedWithout ==
    ASSUME NEW q, NEW q2, NEW d, Len(q) \in Nat, Without(q, d, q2),
           Closed(q), q[d].last # 1 \/ d = 1
    PROVE  Closed(q2)
<1> SUFFICES ASSUME NEW k \in 1..Len(q2), Shared(q2[k])
             PROVE  EndsAfter(q2, k)
  BY DEF Closed
<1> DEFINE m == IF k < d THEN k ELSE k + 1
<1>1. d \in 1..Len(q) /\ Len(q2) = Len(q) - 1 /\ q2[k] = q[m]
  BY DEF Without
<1>2. m \in 1..Len(q) /\ m \in Nat /\ (d = 1 => d <= m) /\ k = IF m < d THEN m ELSE m - 1
  BY <1>1
<1> HIDE DEF m
<1>3. EndsAfter(q, m)
  BY <1>1, <1>2 DEF Closed
<1> QED
  BY <1>2, <1>3, EndsWithout

LEMMA EndsConcat ==
    ASSUME NEW T, NEW q \in Seq(T), NEW b \in Seq(T), NEW k \in Nat
    PROVE  /\ EndsAfter(q, k) => EndsAfter(q \o b, k)
           /\ EndsAfter(b, k) => EndsAfter(q \o b, Len(q) + k)
<1> DEFINE c == q \o b
           n == Len(q)
<1>1. /\ n \in Nat /\ Len(b) \in Nat /\ Len(c) = n + Len(b)
      /\ \A i \in 1..n : c[i] = q[i]
      /\ \A i \in 1..Len(b) : c[n + i] = b[i]
  OBVIOUS
<1>2. ASSUME EndsAfter(q, k) PROVE EndsAfter(c, k)
  <2>1. PICK j \in k + 1..n : q[j].last = 1 /\ \A i \in k + 1..j - 1 : ~Shared(q[i])
    BY <1>2 DEF EndsAfter
  <2> HIDE DEF c, n
  <2>2. j \in k + 1..Len(c) /\ c[j].last = 1
    BY <1>1, <2>1
  <2>3. \A i \in k + 1..j - 1 : ~Shared(c[i])
    BY <1>1, <2>1
  <2> QED
    BY <2>2, <2>3 DEF EndsAfter
<1>3. ASSUME EndsAfter(b, k) PROVE EndsAfter(c, n + k)
  <2>1. PICK j \in k + 1..Len(b) : b[j].last = 1 /\ \A i \in k + 1..j - 1 : ~Shared(b[i])
    BY <1>3 DEF EndsAfter
  <2> HIDE DEF c, n
  <2> DEFINE m == n + j
             l == n + k
  <2>2. m \in l + 1..Len(c) /\ c[m].last = 1
    BY <1>1, <2>1
  <2>3. ASSUME NEW i \in l + 1..m - 1 PROVE ~Shared(c[i])
    <3>1. i - n \in k + 1..j - 1 /\ i - n \in 1..Len(b) /\ i = n + (i - n)
      BY <1>1, <2>1
    <3>2. c[i] = b[i - n]
      BY <1>1, <3>1
    <3> QED
      BY <2>1, <3>1, <3>2
  <2> HIDE DEF m, l
  <2>4. EndsAfter(c, l)
    BY <2>2, <2>3 DEF EndsAfter
  <2> QED
    BY <2>4 DEF l
<1> QED
  BY <1>2, <1>3

LEMMA ClosedConcat ==
    ASSUME NEW T, NEW q \in Seq(T), NEW b \in Seq(T), Closed(q), Closed(b)
    PROVE  Closed(q \o b)
<1> DEFINE c == q \o b
           n == Len(q)
<1>1. /\ n \in Nat /\ Len(b) \in Nat /\ Len(c) = n + Len(b)
      /\ \A i \in 1..n : c[i] = q[i]
      /\ \A i \in 1..Len(b) : c[n + i] = b[i]
  OBVIOUS
<1> SUFFICES ASSUME NEW k \in 1..Len(c), Shared(c[k])
             PROVE  EndsAfter(c, k)
  BY DEF Closed
<1>2. CASE k <= n
  <2>1. k \in 1..n /\ k \in Nat /\ c[k] = q[k]
    BY <1>1, <1>2
  <2>2. EndsAfter(q, k)
    BY <2>1 DEF Closed
  <2> QED
    BY <2>1, <2>2, EndsConcat
<1>3. CASE k > n
  <2>1. k - n \in 1..Len(b) /\ k - n \in Nat /\ k = n + (k - n)
    BY <1>1, <1>3
  <2>2. c[k] = b[k - n]
    BY <1>1, <2>1
  <2>3. EndsAfter(b, k - n)
    BY <2>1, <2>2 DEF Closed
  <2>4. EndsAfter(c, n + (k - n))
    BY <2>1, <2>3, EndsConcat
  <2> QED
    BY <2>1, <2>4
<1> QED
  BY <1>1, <1>2, <1>3

(* What the client and the emulator do to the answers.                     *)
LEMMA StreamTaken ==
    ASSUME NEW T, NEW a \in Seq(T), NEW b \in Seq(T)
    PROVE  /\ a # <<>> => Without(a \o b, 1, Tail(a) \o b) /\ (a \o b)[1] = Head(a)
           /\ b # <<>> => /\ Without(a \o b, Len(a) + 1, a \o Tail(b))
                          /\ (a \o b)[Len(a) + 1] = Head(b)
                          /\ Append(a, Head(b)) \o Tail(b) = a \o b
<1>1. Len(a) \in Nat /\ Len(b) \in Nat /\ Len(a \o b) = Len(a) + Len(b)
  OBVIOUS
<1>2. ASSUME a # <<>>
      PROVE  Without(a \o b, 1, Tail(a) \o b) /\ (a \o b)[1] = Head(a)
  BY <1>1, <1>2 DEF Without
<1>3. ASSUME b # <<>>
      PROVE  /\ Without(a \o b, Len(a) + 1, a \o Tail(b))
             /\ (a \o b)[Len(a) + 1] = Head(b)
  BY <1>1, <1>3 DEF Without
<1>4. ASSUME b # <<>> PROVE Append(a, Head(b)) \o Tail(b) = a \o b
  <2>1. <<Head(b)>> \o Tail(b) = b /\ Append(a, Head(b)) = a \o <<Head(b)>>
    BY <1>4
  <2> QED
    BY <1>4, <2>1
<1> QED
  BY <1>2, <1>3, <1>4

(* A burst has the acknowledgements in the order of their slots.           *)
LEMMA BurstElement ==
    ASSUME maxW \in Nat, NEW t
    PROVE  /\ Cardinality(Present(t)) \in Nat /\ Len(Burst(t)) = Cardinality(Present(t))
           /\ \A k \in 1..Len(Burst(t)) :
                 /\ Nth(Present(t), k) \in 1..maxW
                 /\ t[Nth(Present(t), k)].ws = Nth(Present(t), k)
                 /\ Burst(t)[k] = t[Nth(Present(t), k)]
<1> DEFINE n == Cardinality(Present(t))
<1>1. Present(t) \in SUBSET (1..maxW)
  BY DEF Present
<1>2. n \in Nat /\ \A k \in 1..n : Nth(Present(t), k) \in Present(t)
  BY <1>1, NthFacts
<1> HIDE DEF n
<1>3. /\ Len(Burst(t)) = n
      /\ \A k \in 1..n : Burst(t)[k] = t[Nth(Present(t), k)]
  BY <1>2 DEF Burst, n
<1>4. \A i \in Present(t) : i \in 1..maxW /\ t[i].ws = i
  BY DEF Present
<1> QED
  BY <1>2, <1>3, <1>4 DEF n

LEMMA BurstLength ==
    ASSUME maxW \in Nat, NEW t
    PROVE  Len(Burst(t)) <= maxW
<1>1. Present(t) \in SUBSET (1..maxW)
  BY DEF Present
<1>2. IsFiniteSet(1..maxW) /\ Cardinality(1..maxW) = maxW
  BY FS_Interval
<1>3. Cardinality(Present(t)) <= maxW
  BY <1>1, <1>2, FS_Subset
<1> QED
  BY <1>3, BurstElement

LEMMA BurstEnd ==
    ASSUME maxW \in Nat \ {0}, NEW t, t[maxW].ws = maxW,
           NEW k \in 1..Len(Burst(t)), Nth(Present(t), k) = maxW - 1
    PROVE  k + 1 \in 1..Len(Burst(t)) /\ Burst(t)[k + 1] = t[maxW]
<1> DEFINE S == Present(t)
           Upto(i) == {j \in S : j <= i}
<1>1. S \in SUBSET (1..maxW) /\ maxW \in S /\ \A j \in S : j \in Int /\ j <= maxW
  BY DEF Present
<1>2. Upto(maxW - 1) = S \ {maxW}
  BY <1>1
<1>3. /\ Cardinality(S) \in Nat /\ Len(Burst(t)) = Cardinality(S)
      /\ \A l \in 1..Cardinality(S) : Nth(S, l) \in S /\ Cardinality(Upto(Nth(S, l))) = l
  BY <1>1, BurstElement, NthFacts
<1>4. IsFiniteSet(S)
  BY <1>1, FS_Interval, FS_Subset
<1>5. \A i \in S : i # maxW => Upto(i) \in SUBSET (S \ {maxW})
  BY <1>1
<1> HIDE DEF S, Upto
<1>6. Cardinality(S \ {maxW}) = k /\ Cardinality(S) = k + 1 /\ IsFiniteSet(S \ {maxW})
  <2>1. Cardinality(S \ {maxW}) = k
    BY <1>2, <1>3 DEF S
  <2>2. IsFiniteSet(S \ {maxW}) /\ Cardinality(S \ {maxW}) = Cardinality(S) - 1
    BY <1>1, <1>4, FS_RemoveElement
  <2> QED
    BY <1>3, <2>1, <2>2
<1>7. k + 1 \in 1..Len(Burst(t)) /\ k \in Nat
  BY <1>3, <1>6
<1>8. Nth(S, k + 1) = maxW
  <2>1. Nth(S, k + 1) \in S /\ Cardinality(Upto(Nth(S, k + 1))) = k + 1
    BY <1>3, <1>7
  <2> SUFFICES ASSUME Nth(S, k + 1) # maxW PROVE FALSE
    OBVIOUS
  <2>2. Upto(Nth(S, k + 1)) \in SUBSET (S \ {maxW})
    BY <1>5, <2>1
  <2>3. Cardinality(Upto(Nth(S, k + 1))) <= k
    BY <1>6, <2>2, FS_Subset
  <2> QED
    BY <1>7, <2>1, <2>3
<1> QED
  BY <1>7, <1>8, BurstElement DEF S

(***************************************************************************)
(* The packet after the last chunk fills a window.                         *)
(***************************************************************************)
LEMMA Aligned ==
    ASSUME ExtraIsLast
    PROVE  /\ Window \in Nat /\ TotalPacketCount \in Nat /\ Window > 1
           /\ TotalPacketCount > Window
           /\ InSlot(TotalPacketCount, Window - 1)
<1>1. /\ Window \in Nat \ {0} /\ Window > 1 /\ Window <= TotalPacketCount
      /\ TotalPacketCount \in Nat \ {0}
  BY WindowBounds DEF ExtraIsLast
<1>2. PICK m \in 0..TotalPacketCount + 1 : TotalPacketCount + 1 = m * Window + Window
  BY DEF ExtraIsLast, InSlot
<1>3. m # 0
  BY <1>1, <1>2
<1>4. 0 < m /\ m \in Nat
  BY <1>1, <1>3
<1>5. Window * 0 + Window <= Window * m /\ Window * m = m * Window /\ Window * 0 = 0
      /\ m * Window \in Nat
  BY <1>1, <1>4, MultipleGrows
<1>6. m <= m * Window
  <2> DEFINE x == m * Window
  <2>1. m * 1 + m <= x /\ x \in Nat /\ m * 1 = m
    BY <1>1, <1>4, MultipleGrows
  <2> HIDE DEF x
  <2>2. m <= x
    BY <1>4, <2>1
  <2> QED
    BY <2>2 DEF x
<1>7. TotalPacketCount = m * Window + (Window - 1) /\ m <= TotalPacketCount
  BY <1>1, <1>2, <1>4, <1>5, <1>6
<1>8. TotalPacketCount > Window
  BY <1>1, <1>5, <1>7
<1> QED
  BY <1>1, <1>4, <1>7, <1>8 DEF InSlot

(* The acknowledgement that could be taken for another packet is that of   *)
(* the last chunk, which is in the slot before the last.                   *)
LEMMA SharedSlot ==
    ASSUME ExtraIsLast, NEW k \in Nat, NEW a \in PlacedAnswers(k), Shared(a)
    PROVE  a.ws = Window - 1 /\ k > Window
<1>1. /\ a \in Answer /\ a.type = ACK /\ a.last = 0 /\ a.seq = NumberOf(TotalPacketCount)
      /\ Names(k, a.seq, a.ws)
  BY DEF Shared, PlacedAnswers
<1>2. PICK n \in 1..k : /\ n <= TotalPacketCount + 1
                        /\ a.seq = NumberOf(n) /\ InSlot(n, a.ws)
  BY <1>1 DEF Names
<1>3. /\ Window \in Nat /\ TotalPacketCount \in Nat /\ Window > 1
      /\ TotalPacketCount > Window /\ InSlot(TotalPacketCount, Window - 1)
  BY Aligned
<1>4. a.ws # Window
  BY <1>1 DEF Answer
<1>5. n # TotalPacketCount + 1
  <2> SUFFICES ASSUME n = TotalPacketCount + 1 PROVE FALSE
    OBVIOUS
  <2>1. InSlot(TotalPacketCount + 1, Window) /\ InSlot(TotalPacketCount + 1, a.ws)
    BY <1>2 DEF ExtraIsLast
  <2>2. a.ws = Window
    BY <1>3, <2>1, SlotOnce
  <2> QED
    BY <1>4, <2>2
<1>6. n = TotalPacketCount
  <2>1. ~(n < TotalPacketCount)
    <3> SUFFICES ASSUME n < TotalPacketCount PROVE FALSE
      OBVIOUS
    <3>1. /\ n \in Nat \ {0} /\ TotalPacketCount \in Nat \ {0}
          /\ NumberOf(n) = NumberOf(TotalPacketCount)
          /\ TotalPacketCount <= TotalPacketCount + 1
      BY <1>1, <1>2, <1>3
    <3>2. TotalPacketCount = TotalPacketCount + 1
      BY <3>1, NumberOnce
    <3> QED
      BY <1>3, <3>2
  <2> QED
    BY <1>2, <1>3, <1>5, <2>1
<1> QED
  BY <1>2, <1>3, <1>6, SlotOnce

(***************************************************************************)
(* What the client does, as far as the order of the answers is concerned:  *)
(* it takes an acknowledgement in its loop, or it does something else.     *)
(***************************************************************************)
Listens ==
    /\ pc = "receive" /\ UNCHANGED <<tpc, tp, synAck>>
    /\ e2c # <<>> /\ e2c' = Tail(e2c)
    /\ pc' = "repair" => Head(e2c).last = 1
    /\ pc' = "receive" => Head(e2c).last # 1
    /\ pc' # "build"
    /\ \/ rac' = rac
       \/ /\ Head(e2c).type = ACK /\ rac' = rac + 1
          /\ rac < Window => Head(e2c).seq = tp[rac + 1].ack

Elsewhere ==
    /\ e2c' = e2c \/ (e2c # <<>> /\ e2c' = Tail(e2c))
    /\ rac' \in {0, rac}
    /\ pc' = "receive" => rac' = 0
    /\ pc' \in {"build", "repair"} /\ tpc' >= Window =>
           pc \in {"build", "repair"} /\ tpc >= Window
    /\ tpc' > Window => tpc > Window \/ (pc = "build" /\ tpc >= Window)

LEMMA ListensInLoop ==
    ASSUME ClientOK, ClientNumbers, C!Receive \/ C!EarlierReceive
    PROVE  Listens
<1> DEFINE a == Head(e2c)
<1>1. /\ pc = "receive" /\ UNCHANGED <<tpc, tp, synAck>>
      /\ e2c # <<>> /\ e2c' = Tail(e2c)
  BY DEF C!Receive, C!EarlierReceive
<1>2. /\ pc' = "repair" => a.last = 1
      /\ pc' = "receive" => a.last # 1
      /\ pc' # "build"
  BY <1>1 DEF C!Receive, C!EarlierReceive, C!ResendWindow
<1>3. synAck.ws = Window
  BY <1>1 DEF ClientNumbers, InHandshake
<1>4. \/ rac' = rac
      \/ a.type = ACK /\ \E expected \in C!Expected(a) : C!NoteAckAs(a, expected)
  BY SameTypes DEF C!Receive, C!EarlierReceive, C!NoteAck, C!EarlierNoteAck
<1> HIDE DEF a
<1>5. ASSUME a.type = ACK, NEW expected \in C!Expected(a), C!NoteAckAs(a, expected)
      PROVE  rac' = rac \/ (rac' = rac + 1 /\ (rac < Window => a.seq = tp[rac + 1].ack))
  <2>1. rac' = IF expected THEN rac + 1 ELSE rac
    BY <1>5 DEF C!NoteAckAs
  <2>2. rac < Window => expected = (a.seq = tp[rac + 1].ack)
    BY <1>3, <1>5 DEF C!Expected, C!W
  <2> QED
    BY <2>1, <2>2
<1> QED
  BY <1>1, <1>2, <1>4, <1>5 DEF Listens, a

LEMMA BuildsElsewhere ==
    ASSUME ClientOK, ClientNumbers, ClientPlaced, NEW p, C!BuildWith(p)
    PROVE  Elsewhere
<1>1. /\ pc = "build" /\ tpc' = tpc + 1 /\ UNCHANGED <<e2c, rac>>
      /\ pc' \in {"build", "send"} /\ (pc' = "build" => slot # Window)
  BY DEF C!BuildWith, C!W, InHandshake, ClientNumbers
<1>2. InSlot(tpc + 1, slot) /\ tpc \in Nat /\ Window \in Nat \ {0}
  BY <1>1, ClientTypes, Sizes DEF ClientPlaced, WindowFilled
<1>3. pc' = "build" => tpc + 1 # Window
  <2> SUFFICES ASSUME tpc + 1 = Window, slot # Window PROVE FALSE
    BY <1>1
  <2>1. tpc + 1 = 0 * Window + Window /\ 0 \in 0..tpc + 1 /\ Window \in 1..Window
    BY <1>2
  <2>2. InSlot(tpc + 1, Window)
    BY <2>1 DEF InSlot
  <2>3. tpc + 1 \in Nat
    BY <1>2
  <2>4. slot = Window
    BY <1>2, <2>2, <2>3, SlotOnce
  <2> QED
    BY <2>4
<1> QED
  BY <1>1, <1>2, <1>3 DEF Elsewhere

LEMMA SendsElsewhere ==
    ASSUME ClientOK, C!Send \/ C!EarlierSend \/ C!Resend \/ C!EarlierResend
    PROVE  Elsewhere
<1>1. /\ UNCHANGED <<e2c, tpc>>
      /\ pc \in {"send", "resend"} /\ \E finished \in BOOLEAN : C!ThenReceive(finished)
  BY DEF C!Send, C!EarlierSend, C!Resend, C!EarlierResend
<1>2. /\ rac' \in {0, rac} /\ (pc' = "receive" => rac' = 0)
      /\ pc' \notin {"build", "repair"}
  BY <1>1 DEF C!ThenReceive
<1> QED
  BY <1>1, <1>2 DEF Elsewhere

LEMMA ClientListens ==
    ASSUME SystemInv, ClientNumbers, ClientPlaced, ClientStep \/ ClientTimeout
    PROVE  Listens \/ Elsewhere
<1>1. ClientOK /\ tpc \in Nat /\ Window \in Nat \ {0}
  BY SystemFacts, ClientTypes, Sizes
<1>2. \/ C!SendSyn \/ C!SynTimeout
      \/ C!TakeSynAck
      \/ C!BuildWith(C!NextPacket) \/ C!BuildWith(C!NextPacketInSlot)
      \/ C!Send \/ C!EarlierSend \/ C!Resend \/ C!EarlierResend
      \/ C!Receive \/ C!EarlierReceive
      \/ C!Timeout \/ C!Repair
  BY DEF ClientStep, ClientTimeout, ClientDoes, AsStarted, C!Step, C!EarlierStep,
      C!Timeouts, C!EarlierTimeouts, C!ReceiveSynAck, C!EarlierReceiveSynAck,
      C!Build, C!EarlierBuild, C!EarlierTimeout
<1>3. CASE C!SendSyn \/ C!SynTimeout
  <2>1. pc' = "handshake" /\ tpc' = 0 /\ UNCHANGED <<rac, e2c>>
    BY <1>1, <1>3 DEF C!SendSyn, C!SynTimeout, C!clientVars, ClientOK, WindowBuilt,
                      InHandshake
  <2> QED
    BY <1>1, <2>1 DEF Elsewhere
<1>4. CASE C!TakeSynAck
  <2>1. pc' = "build" /\ tpc' = 0 /\ rac' = rac /\ e2c # <<>> /\ e2c' = Tail(e2c)
    BY <1>1, <1>4 DEF C!TakeSynAck, ClientOK, WindowBuilt, InHandshake
  <2> QED
    BY <1>1, <2>1 DEF Elsewhere
<1>5. CASE C!Timeout
  <2>1. pc' \in {"resend", "done"} /\ UNCHANGED <<tpc, rac, e2c>>
    BY <1>5 DEF C!Timeout, C!ResendWindow
  <2> QED
    BY <2>1 DEF Elsewhere
<1>6. CASE C!Repair
  <2>1. pc = "repair" /\ pc' # "receive" /\ UNCHANGED <<tpc, rac, e2c>>
    BY <1>6 DEF C!Repair
  <2> QED
    BY <2>1 DEF Elsewhere
<1> QED
  BY <1>1, <1>2, <1>3, <1>4, <1>5, <1>6, ListensInLoop, BuildsElsewhere, SendsElsewhere

(* The answers that are left were there before.                            *)
LEMMA LeftBefore ==
    ASSUME NEW q, NEW q2, NEW d, Len(q) \in Nat, Without(q, d, q2), NEW i \in 1..Len(q2)
    PROVE  \E j \in 1..Len(q) : q2[i] = q[j]
<1>1. /\ d \in 1..Len(q) /\ Len(q2) = Len(q) - 1
      /\ q2[i] = IF i < d THEN q[i] ELSE q[i + 1]
  BY DEF Without
<1>2. i \in 1..Len(q) /\ i + 1 \in 1..Len(q)
  BY <1>1
<1> QED
  BY <1>1, <1>2

LEMMA StreamType ==
    ASSUME SystemInv, NamesBuilt
    PROVE  /\ Stream \in Seq(Answer) /\ Stream \in Seq(PlacedAnswers(tpc))
           /\ Len(Stream) \in Nat
BY SystemFacts DEF NamesBuilt, Stream

LEMMA ClientOrder ==
    ASSUME SystemInv, ClientNumbers, PlacesInv, ExtraIsLast, Ordered,
           ClientStep \/ ClientTimeout
    PROVE  Ordered'
<1>1. Listens \/ Elsewhere
  BY ClientListens DEF PlacesInv, NamesBuilt, ClientPlaced
<1>2. /\ UNCHANGED <<serverVars, s2e>> /\ maxW' = maxW /\ trn' = trn /\ prev' = prev
      /\ garbage' = garbage
  BY DEF ClientStep, ClientTimeout, ClientDoes, serverVars
<1>3. /\ Window > 1 /\ Window \in Nat /\ TotalPacketCount > Window
      /\ TotalPacketCount \in Nat /\ tpc \in Nat /\ rac \in Nat
      /\ Stream \in Seq(Answer) /\ Len(Stream) \in Nat
      /\ e2c \in Seq(Answer) /\ s2e \in Seq(Answer)
      /\ garbage.last \in {0, 1}
  <2>1. garbage.last \in {0, 1}
    BY DEF SystemInv, Inv, StateTypeOK
  <2> QED
    BY <2>1, Aligned, StreamType, SystemFacts, ClientTypes DEF PlacesInv
<1>4. e2c # <<>> => Stream[1] = Head(e2c) /\ 1 \in 1..Len(Stream)
  BY <1>3, StreamTaken DEF Stream
<1>5. \/ Stream' = Stream
      \/ e2c # <<>> /\ Without(Stream, 1, Stream')
  <2>1. CASE e2c' = e2c
    BY <1>2, <2>1 DEF Stream
  <2>2. CASE e2c # <<>> /\ e2c' = Tail(e2c)
    <3>1. Without(e2c \o s2e, 1, Tail(e2c) \o s2e)
      BY <1>3, <2>2, StreamTaken
    <3>2. Stream' = Tail(e2c) \o s2e
      BY <1>2, <2>2 DEF Stream
    <3> QED
      BY <2>2, <3>1, <3>2 DEF Stream
  <2> QED
    BY <1>1, <2>1, <2>2 DEF Listens, Elsewhere
<1>6. \A i \in 1..Len(Stream') : \E j \in 1..Len(Stream) : Stream'[i] = Stream[j]
  BY <1>3, <1>5, LeftBefore
<1>7. Noise = 100 => e2c' = <<>> /\ rac' = 0
  BY <1>1 DEF Ordered, Listens, Elsewhere
<1>8. ASSUME garbage.last = 1 PROVE AllLast'
  <2>1. AllLast
    BY <1>8 DEF Ordered
  <2>2. pc' = "receive" => rac' = 0
    <3>1. CASE Listens
      <4>1. pc' = "receive" => Head(e2c).type # ACK
        BY <1>4, <2>1, <3>1 DEF Listens, AllLast
      <4> QED
        BY <2>1, <3>1, <4>1 DEF Listens, AllLast
    <3> QED
      BY <1>1, <3>1 DEF Elsewhere
  <2>3. \A k \in 1..Len(Stream') : Stream'[k].type = ACK => Stream'[k].last = 1
    BY <1>6, <2>1 DEF AllLast
  <2> QED
    BY <1>2, <2>1, <2>2, <2>3 DEF AllLast
<1>9. ASSUME garbage.last # 1 PROVE LastMeansTaken'
  <2>1. LastMeansTaken /\ (LastSlotTaken <=> LastSlotTaken')
    BY <1>2, <1>9 DEF Ordered, LastSlotTaken
  <2>2. \A k \in 1..Len(Stream') : Stream'[k].last = 1 => LastSlotTaken'
    BY <1>6, <2>1 DEF LastMeansTaken
  <2>3. pc' \in {"build", "repair"} /\ tpc' >= Window => LastSlotTaken'
    <3>1. CASE Listens
      BY <1>4, <2>1, <3>1 DEF Listens, LastMeansTaken
    <3>2. CASE Elsewhere
      BY <2>1, <3>2 DEF Elsewhere, LastMeansTaken
    <3> QED
      BY <1>1, <3>1, <3>2
  <2>4. tpc' > Window => LastSlotTaken'
    BY <1>1, <2>1 DEF Listens, Elsewhere, LastMeansTaken
  <2> QED
    BY <1>2, <2>1, <2>2, <2>3, <2>4 DEF LastMeansTaken
<1>10. Closed(Stream')
  BY <1>3, <1>5, ClosedWithout DEF Ordered
<1>11. ASSUME pc' = "receive", rac' = Window - 1, tpc' = TotalPacketCount + 1
       PROVE  EndsAfter(Stream', 0)
  <2>1. Listens /\ Without(Stream, 1, Stream') /\ tpc = TotalPacketCount + 1
    <3>1. Listens
      BY <1>1, <1>3, <1>11 DEF Elsewhere
    <3>2. Stream' = Tail(e2c) \o s2e
      BY <1>2, <3>1 DEF Stream, Listens
    <3> QED
      BY <1>3, <1>11, <3>1, <3>2, StreamTaken DEF Stream, Listens
  <2>2. pc = "receive" /\ Stream[1].last # 1 /\ 1 \in 1..Len(Stream)
    BY <1>4, <1>11, <2>1 DEF Listens
  <2>3. CASE rac' = rac
    <3>1. EndsAfter(Stream, 0)
      BY <1>11, <2>1, <2>2, <2>3 DEF Ordered
    <3> QED
      BY <1>3, <2>1, <2>2, <3>1, EndsWithout
  <2>4. CASE rac' # rac
    <3>1. rac + 1 = Window - 1 /\ rac < Window
      BY <1>3, <1>11, <2>1, <2>4 DEF Listens
    <3>2. Stream[1].type = ACK /\ Stream[1].seq = tp[Window - 1].ack
      BY <1>4, <2>1, <2>4, <3>1 DEF Listens
    <3>3. tp[Window - 1].ack = NumberOf(tpc - Window + (Window - 1))
      <4>1. tpc <= TotalPacketCount + 1 /\ Window - 1 \in 1..Window
        BY <1>3, <2>1
      <4> QED
        BY <2>2, <4>1 DEF PlacesInv, WindowFilled
    <3>4. tpc - Window + (Window - 1) = TotalPacketCount
      BY <1>3, <2>1
    <3>5. Stream[1].last = 0
      BY <1>3, <2>2, ElementOfSeq DEF Answer, Packet
    <3>6. Shared(Stream[1])
      BY <3>2, <3>3, <3>4, <3>5 DEF Shared
    <3>7. EndsAfter(Stream, 1)
      BY <2>2, <3>6 DEF Ordered, Closed
    <3>8. EndsAfter(Stream', IF 1 < 1 THEN 1 ELSE 1 - 1)
      BY <1>3, <2>1, <3>7, EndsWithout
    <3> QED
      BY <3>8
  <2> QED
    BY <2>3, <2>4
<1> QED
  BY <1>2, <1>7, <1>8, <1>9, <1>10, <1>11 DEF Ordered, Closed, EndsAfter

(* The count stays in the window: the acknowledgement that would fill it   *)
(* is marked as last.                                                      *)
LEMMA ClientCounts ==
    ASSUME SystemInv, HistoryInv, PlacesInv, CountedInWindow, OrderInv,
           ClientStep \/ ClientTimeout
    PROVE  CountedInWindow'
<1> DEFINE a == Head(e2c)
<1>1. /\ ClientNumbers /\ e2c \in Seq(Truthful) /\ ClientOK
      /\ Window \in Nat \ {0} /\ TotalPacketCount \in Nat \ {0}
      /\ rac \in Nat /\ tpc \in Nat /\ s2e \in Seq(Answer) /\ e2c \in Seq(Answer)
      /\ tpc <= TotalPacketCount + 2
  BY HistoryFacts, SystemFacts, ClientTypes, Sizes
<1>2. Listens \/ Elsewhere
  BY <1>1, ClientListens DEF PlacesInv, NamesBuilt, ClientPlaced
<1>3. CASE Elsewhere
  BY <1>1, <1>3 DEF Elsewhere, CountedInWindow
<1> SUFFICES ASSUME Listens, pc' = "receive"
             PROVE  rac' < Window /\ \A i \in 1..rac' : tp'[i].type = DATA
  BY <1>2, <1>3 DEF CountedInWindow
<1>4. /\ pc = "receive" /\ tp' = tp /\ e2c # <<>> /\ a.last # 1
      /\ rac < Window /\ \A i \in 1..rac : tp[i].type = DATA
  BY DEF Listens, CountedInWindow
<1>5. CASE rac' = rac
  BY <1>4, <1>5
<1>6. CASE rac' # rac
  <2>1. a.type = ACK /\ rac' = rac + 1 /\ a.seq = tp[rac + 1].ack
    BY <1>4, <1>6 DEF Listens
  <2>2. a \in Truthful /\ a \in PlacedAnswers(tpc)
    <3>1. e2c \in Seq(PlacedAnswers(tpc))
      BY DEF PlacesInv, NamesBuilt
    <3> QED
      BY <1>1, <1>4, <3>1, HeadTailProperties
  <2> HIDE DEF a
  <2>3. a.seq > 0 /\ a \in Answer /\ a.last \in {0, 1} /\ a.ws \in 1..Window
    BY <2>1, <2>2 DEF Truthful, Answer, Packet
  <2>4. tp[rac + 1].type = DATA
    <3>1. rac + 1 \in 1..Window /\ synAck.ws = Window
      BY <1>1, <1>4 DEF ClientNumbers, InHandshake
    <3>2. tp[rac + 1] \in Built
      BY <1>1, <1>4, <3>1 DEF ClientOK, WindowBuilt
    <3>3. tp[rac + 1] \in Numbered
      BY <1>1, <3>1, <3>2 DEF ClientNumbers
    <3>4. tp[rac + 1].type # EOT
      BY <2>1, <2>3, <3>3 DEF Numbered
    <3> QED
      BY <3>2, <3>4 DEF Built, ClientPacket
  <2>5. \A i \in 1..rac + 1 : tp[i].type = DATA
    BY <1>1, <1>4, <2>4
  <2>6. rac + 1 # Window
    <3> SUFFICES ASSUME rac + 1 = Window PROVE FALSE
      OBVIOUS
    <3>1. tpc <= TotalPacketCount + 1
      BY <1>4, <2>5 DEF PlacesInv, WindowFilled, DATA, EOT
    <3>2. InSlot(tpc, Window) /\ tp[Window].ack = NumberOf(tpc)
      <4>1. /\ InSlot(tpc, Window)
            /\ \A i \in 1..Window : tp[i].ack = NumberOf(tpc - Window + i)
        BY <1>4, <3>1 DEF PlacesInv, WindowFilled
      <4>2. Window \in 1..Window /\ tpc - Window + Window = tpc
        BY <1>1
      <4> QED
        BY <4>1, <4>2
    <3>3. PICK n \in 1..tpc : a.seq = NumberOf(n) /\ InSlot(n, a.ws)
      BY <2>1, <2>2 DEF PlacedAnswers, Names
    <3>4. a.ws # Window
      BY <1>4, <2>1, <2>3 DEF Answer
    <3>5. n # tpc
      BY <1>1, <3>2, <3>3, <3>4, SlotOnce
    <3>6. n \in Nat \ {0} /\ tpc \in Nat \ {0} /\ n < tpc
      BY <1>1, <3>3, <3>5
    <3>7. NumberOf(n) = NumberOf(tpc)
      BY <2>1, <3>2, <3>3
    <3>8. n = TotalPacketCount /\ tpc = TotalPacketCount + 1
      BY <3>1, <3>6, <3>7, NumberOnce
    <3>9. ExtraIsLast
      BY <1>1, <2>3, <3>2, <3>4, <3>8 DEF ExtraIsLast
    <3>10. Shared(a)
      BY <1>4, <2>1, <2>3, <3>3, <3>8 DEF Shared
    <3>11. EndsAfter(Stream, 0)
      BY <1>1, <1>4, <3>8, <3>9 DEF OrderInv, Ordered
    <3>12. Stream[1] = a
      BY <1>1, <1>4, StreamTaken DEF Stream, a
    <3>13. PICK j \in 1..Len(Stream) : Stream[j].last = 1
                                       /\ \A i \in 1..j - 1 : ~Shared(Stream[i])
      BY <3>11 DEF EndsAfter
    <3>14. j = 1
      <4>1. Len(Stream) \in Nat
        BY StreamType DEF PlacesInv
      <4>2. ~(1 \in 1..j - 1)
        BY <3>10, <3>12, <3>13
      <4> QED
        BY <4>1, <4>2
    <3> QED
      BY <1>4, <3>12, <3>13, <3>14
  <2> QED
    BY <1>1, <1>4, <2>1, <2>5, <2>6
<1> QED
  BY <1>5, <1>6

(***************************************************************************)
(* What the emulator takes from the server it hands on, unless it is not   *)
(* marked as last or nothing is handed on at all.                          *)
(***************************************************************************)
LEMMA HandsOn ==
    ASSUME SystemInv, E!FromServer, Len(e2c) < SockBuf
    PROVE  /\ s2e # <<>> /\ s2e' = Tail(s2e)
           /\ \/ e2c' = Append(e2c, Head(s2e)) /\ Noise # 100
              \/ e2c' = e2c /\ (Head(s2e).last # 1 \/ Noise = 100)
<1>1. /\ s2e # <<>> /\ s2e' = Tail(s2e)
      /\ e2c' = Put(e2c, E!ForwardedDown(Head(s2e)))
  BY SamePut DEF E!FromServer
<1>2. /\ r \in RandValues /\ e2c \in Seq(Answer) /\ s2e \in Seq(Answer)
      /\ Len(e2c) <= SockBuf
  BY SystemFacts DEF E!TypeOK
<1>3. r \in Int /\ r <= 100
  BY <1>2, ChanceAssumption
<1>4. Head(s2e) \in Answer
  BY <1>1, <1>2, HeadTailProperties
<1>5. CASE E!PassesDown(Head(s2e))
  <2>1. Noise # 100
    BY <1>3, <1>5 DEF E!PassesDown, E!Insistent
  <2>2. e2c' = Put(e2c, <<Head(s2e)>>)
    BY <1>1, <1>5 DEF E!ForwardedDown
  <2>3. e2c' = Append(e2c, Head(s2e))
    BY <1>2, <1>4, <2>2, PutOne
  <2> QED
    BY <1>1, <2>1, <2>3
<1>6. CASE ~E!PassesDown(Head(s2e))
  <2>1. e2c' = Put(e2c, <<>>)
    BY <1>1, <1>6 DEF E!ForwardedDown
  <2>2. e2c' = e2c
    BY <1>2, <2>1, PutNone
  <2>3. Head(s2e).last # 1 \/ Noise = 100
    BY <1>6 DEF E!PassesDown, E!Insistent
  <2> QED
    BY <1>1, <2>2, <2>3
<1> QED
  BY <1>5, <1>6

LEMMA EmulatorOrder ==
    ASSUME SystemInv, NamesBuilt, ExtraIsLast, Roomy, Ordered,
           EmulatorStep \/ EmulatorTimeout
    PROVE  Ordered'
<1>1. UNCHANGED clientVars /\ UNCHANGED serverVars
  BY DEF EmulatorStep, EmulatorTimeout, EmulatorDoes
<1>2. UNCHANGED <<pc, rac, tpc, maxW, trn, prev, garbage>>
  BY <1>1 DEF clientVars, serverVars
<1>3. /\ Window > 1 /\ Window \in Nat /\ Len(Stream) \in Nat /\ Stream \in Seq(Answer)
      /\ e2c \in Seq(Answer) /\ s2e \in Seq(Answer) /\ Len(e2c) \in Nat
  BY Aligned, StreamType, SystemFacts
<1>4. \/ UNCHANGED <<s2e, e2c>>
      \/ E!FromServer
  BY DEF EmulatorStep, EmulatorTimeout, EmulatorDoes, E!Step, E!OriginalStep,
         E!StableStep, E!FromClient, E!EarlierFromClient, E!Timeout
<1>5. CASE UNCHANGED <<s2e, e2c>>
  <2>1. Stream' = Stream
    BY <1>5 DEF Stream
  <2> QED
    BY <1>2, <1>5, <2>1
       DEF Ordered, AllLast, LastMeansTaken, LastSlotTaken, Closed, EndsAfter
<1>6. CASE E!FromServer
  <2>1. /\ s2e # <<>> /\ s2e' = Tail(s2e)
        /\ \/ e2c' = Append(e2c, Head(s2e)) /\ Noise # 100
           \/ e2c' = e2c /\ (Head(s2e).last # 1 \/ Noise = 100)
    BY <1>6, HandsOn DEF Roomy
  <2>2. Noise = 100 => e2c' = <<>> /\ rac' = 0
    BY <1>2, <2>1 DEF Ordered
  <2>3. CASE Stream' = Stream
    BY <1>2, <2>2, <2>3
       DEF Ordered, AllLast, LastMeansTaken, LastSlotTaken, Closed, EndsAfter
  <2>4. ASSUME NEW d \in Nat, Without(Stream, d, Stream'),
               Stream[d].last # 1 \/ (d = 1 /\ Noise = 100)
        PROVE  Ordered'
    <3>1. \A i \in 1..Len(Stream') : \E j \in 1..Len(Stream) : Stream'[i] = Stream[j]
      BY <1>3, <2>4, LeftBefore
    <3>2. Closed(Stream')
      BY <1>3, <2>4, ClosedWithout DEF Ordered
    <3>3. ASSUME pc = "receive", rac = Window - 1, tpc = TotalPacketCount + 1
          PROVE  EndsAfter(Stream', 0)
      <4>1. EndsAfter(Stream, 0) /\ Stream[d].last # 1
        BY <1>3, <2>4, <3>3 DEF Ordered
      <4>2. d > 0
        BY <2>4 DEF Without
      <4> QED
        BY <1>3, <2>4, <4>1, <4>2, EndsWithout
    <3>4. garbage.last = 1 => AllLast'
      BY <1>2, <3>1 DEF Ordered, AllLast
    <3>5. garbage.last # 1 => LastMeansTaken'
      BY <1>2, <3>1 DEF Ordered, LastMeansTaken, LastSlotTaken
    <3> QED
      BY <1>2, <2>2, <3>2, <3>3, <3>4, <3>5 DEF Ordered, Closed, EndsAfter
  <2>5. CASE e2c' = Append(e2c, Head(s2e))
    <3>1. Stream' = Stream
      BY <1>3, <2>1, <2>5, StreamTaken DEF Stream
    <3> QED
      BY <2>3, <3>1
  <2>6. CASE e2c' = e2c /\ (Head(s2e).last # 1 \/ Noise = 100)
    <3> DEFINE d == Len(e2c) + 1
    <3>1. /\ Without(Stream, d, Stream') /\ Stream[d] = Head(s2e) /\ d \in Nat
      <4>1. Stream' = e2c \o Tail(s2e) /\ Stream = e2c \o s2e
        BY <2>1, <2>6 DEF Stream
      <4>2. /\ Without(e2c \o s2e, Len(e2c) + 1, e2c \o Tail(s2e))
            /\ (e2c \o s2e)[Len(e2c) + 1] = Head(s2e)
        <5>1. e2c \in Seq(Answer) /\ s2e \in Seq(Answer) /\ s2e # <<>>
          BY <1>3, <2>1
        <5> QED
          BY ONLY <5>1, StreamTaken
      <4> QED
        BY <1>3, <4>1, <4>2
    <3>2. Noise = 100 => d = 1
      BY DEF Ordered
    <3> HIDE DEF d
    <3> QED
      BY <2>4, <2>6, <3>1, <3>2
  <2> QED
    BY <2>1, <2>5, <2>6
<1> QED
  BY <1>4, <1>5, <1>6

(***************************************************************************)
(* The server adds a burst that ends with its last slot, once that has     *)
(* been filled, or one answer to a SYN.                                    *)
(***************************************************************************)
LEMMA LastStays ==
    ASSUME SystemInv, Window > 1, LastSlotTaken, Receive \/ Timeout,
           NEW t, Table(t), AnswersFrom(t)
    PROVE  t[Window].ws = Window /\ LastSlotTaken'
<1>1. /\ Window \in Nat /\ maxW = Window /\ trn[Window].ws = Window
      /\ t \in [1..Window -> AckRecord] /\ Window \in 1..maxW
  BY Sizes DEF LastSlotTaken, Table
<1>2. e2s = <<>> \/ Head(e2s).type # SYN
  <2> SUFFICES ASSUME e2s # <<>>, Head(e2s).type = SYN PROVE FALSE
    OBVIOUS
  <2>1. NothingReceived
    BY SystemFacts, FrontTail DEF SynsFirst
  <2>2. rec[Window].ws = 0 /\ rec[Window].ws = trn[Window].ws
    BY <1>1, <2>1 DEF NothingReceived, SystemInv, Inv, TablesAgree
  <2> QED
    BY <1>1, <2>2
<1>3. t[Window].ws = Window
  BY <1>1, <1>2 DEF Table
<1>4. trn'[Window] = t[Window] /\ maxW' = Window
  BY <1>1 DEF AnswersFrom
<1> QED
  BY <1>3, <1>4 DEF LastSlotTaken

LEMMA TableOrder ==
    ASSUME SystemInv, Ordered, NEW t, Table(t), NEW i \in 1..Window, t[i].ws = i
    PROVE  /\ t[i] \in Answer /\ t[i].type = ACK
           /\ garbage.last = 1 => t[i].last = 1
           /\ garbage.last # 1 /\ t[i].last = 1 => i = Window
<1>1. t[i] \in Answer /\ Derived(t[i], i) /\ maxW \in {0, Window} /\ Window \in Nat \ {0}
  BY Sizes DEF Table, SystemInv, Inv, StateTypeOK
<1>2. t[i].type = ACK
  BY <1>1 DEF Derived, Ordered
<1>3. i = Window => t[i].last = 1
  BY <1>1, <1>2 DEF Answer
<1>4. garbage.last = 1 => t[i].last = 1
  BY <1>1, <1>3 DEF Derived, Ordered, AllLast
<1>5. garbage.last # 1 /\ t[i].last = 1 => i = Window
  BY <1>1 DEF Derived, Ordered, LastMeansTaken
<1> QED
  BY <1>1, <1>2, <1>4, <1>5

(* What is added to the answers.                                           *)
Adds(b) ==
    /\ b \in Seq(Answer) /\ s2e' = s2e \o b /\ Closed(b)
    /\ \A k \in 1..Len(b) :
          /\ garbage.last = 1 /\ b[k].type = ACK => b[k].last = 1
          /\ garbage.last # 1 /\ b[k].last = 1 => LastSlotTaken'

LEMMA BurstAdds ==
    ASSUME SystemInv, NamesBuilt, ExtraIsLast, Roomy, Ordered, Receive \/ Timeout,
           NEW t, Table(t), AnswersFrom(t), maxW = Window, s2e' = Put(s2e, Burst(t))
    PROVE  Adds(Burst(t))
<1> DEFINE b == Burst(t)
<1>1. /\ Window \in Nat \ {0} /\ Window > 1 /\ maxW \in Nat \ {0} /\ tpc \in Nat
      /\ s2e \in Seq(Answer) /\ t \in [1..Window -> AckRecord]
  BY Aligned, Sizes, SystemFacts, ClientTypes DEF Table
<1>2. b \in Seq(Answer)
  BY <1>1, TableOrder, BurstFacts
<1>3. s2e' = s2e \o b
  <2>1. Len(b) <= Window /\ Len(b) \in Nat
    BY <1>1, <1>2, BurstLength
  <2> HIDE DEF b
  <2>2. Len(s2e \o b) <= SockBuf
    BY <1>1, <1>2, <2>1, SockBufAssumption DEF Roomy
  <2> QED
    BY <2>2 DEF Put, b
<1>4. ASSUME NEW k \in 1..Len(b)
      PROVE  \E i \in 1..Window : i = Nth(Present(t), k) /\ t[i].ws = i /\ b[k] = t[i]
  BY <1>1, <1>4, BurstElement
<1>5. t[Window].ws = Window => LastSlotTaken'
  <2>1. t[Window].ws = Window => trn'[Window] = t[Window]
    BY <1>1 DEF AnswersFrom
  <2> QED
    BY <2>1 DEF AnswersFrom, LastSlotTaken
<1>6. ASSUME NEW k \in 1..Len(b)
      PROVE  /\ garbage.last = 1 /\ b[k].type = ACK => b[k].last = 1
             /\ garbage.last # 1 /\ b[k].last = 1 => LastSlotTaken'
  <2>1. PICK i \in 1..Window : t[i].ws = i /\ b[k] = t[i]
    BY <1>4
  <2> HIDE DEF b
  <2> QED
    BY <1>5, <2>1, TableOrder
<1>7. ASSUME NEW k \in 1..Len(b), Shared(b[k])
      PROVE  EndsAfter(b, k)
  <2>1. PICK i \in 1..Window : i = Nth(Present(t), k) /\ t[i].ws = i /\ b[k] = t[i]
    BY <1>4
  <2>2. b[k] \in PlacedAnswers(tpc)
    BY <2>1, PlacedTable
  <2>3. i = Window - 1 /\ tpc > Window
    <3> HIDE DEF b
    <3> QED
      BY <1>1, <1>7, <2>1, <2>2, SharedSlot
  <2>4. garbage.last # 1
    BY <1>7, <2>1, TableOrder DEF Shared
  <2>5. t[Window].ws = Window
    <3>1. LastSlotTaken
      BY <2>3, <2>4 DEF Ordered, LastMeansTaken
    <3> QED
      BY <1>1, <3>1, LastStays
  <2>6. k + 1 \in 1..Len(b) /\ b[k + 1] = t[Window]
    BY <1>1, <2>1, <2>3, <2>5, BurstEnd
  <2>7. t[Window].last = 1
    BY <1>1, <2>5, TableOrder DEF Answer
  <2> HIDE DEF b
  <2>8. k + 1 \in k + 1..Len(b) /\ k + 1..(k + 1) - 1 = {}
    BY <2>6
  <2> QED
    BY <2>6, <2>7, <2>8 DEF EndsAfter
<1> HIDE DEF b
<1>8. Closed(b)
  BY <1>7 DEF Closed
<1> QED
  BY <1>2, <1>3, <1>6, <1>8 DEF Adds, b

LEMMA ServerAdds ==
    ASSUME SystemInv, NamesBuilt, ExtraIsLast, Roomy, Ordered, Receive \/ Timeout,
           NEW t, Table(t), AnswersFrom(t)
    PROVE  \E b : Adds(b)
<1>1. s2e \in Seq(Answer) /\ Len(s2e) <= SockBuf /\ garbage.last \in {0, 1}
  BY SystemFacts DEF SystemInv, Inv, StateTypeOK
<1>2. CASE s2e' = s2e
  <2>1. <<>> \in Seq(Answer) /\ s2e' = s2e \o <<>> /\ 1..Len(<<>>) = {}
    BY <1>1, <1>2
  <2>2. Adds(<<>>)
    BY <2>1 DEF Adds, Closed
  <2> QED
    BY <2>2
<1>3. CASE prev'.type = SYNACK /\ prev' \in Answer /\ s2e' = Put(s2e, <<prev'>>)
  <2> DEFINE b == <<prev'>>
  <2>1. b \in Seq(Answer) /\ Len(b) = 1 /\ b[1].type = SYNACK /\ b[1] = prev'
    BY <1>3
  <2>2. s2e' = s2e \o b \/ s2e' = s2e
    BY <1>1, <1>3, PutOne, AppendIsConcat
  <2>3. garbage.last # 1 => prev'.last = 0
    BY <1>1, <1>3 DEF AnswersFrom, Ordered, LastMeansTaken
  <2> HIDE DEF b
  <2>4. \A k \in 1..Len(b) : k = 1
    BY <2>1
  <2>5. CASE s2e' = s2e \o b
    <3>1. Closed(b)
      BY <2>1, <2>4 DEF Closed, Shared, ACK, SYNACK
    <3>2. Adds(b)
      BY <2>1, <2>3, <2>4, <2>5, <3>1 DEF Adds, ACK, SYNACK
    <3> QED
      BY <3>2
  <2> QED
    BY <1>2, <2>2, <2>5
<1> QED
  BY <1>2, <1>3, BurstAdds DEF AnswersFrom

LEMMA ServerOrder ==
    ASSUME SystemInv, NamesBuilt, ExtraIsLast, Roomy, Ordered, Receive \/ Timeout,
           UNCHANGED clientVars, UNCHANGED e2c
    PROVE  Ordered'
<1>1. UNCHANGED <<pc, rac, tpc, e2c>>
  BY DEF clientVars
<1>2. /\ Window > 1 /\ Window \in Nat /\ Len(Stream) \in Nat /\ Stream \in Seq(Answer)
      /\ e2c \in Seq(Answer) /\ s2e \in Seq(Answer)
  BY Aligned, StreamType, SystemFacts
<1>3. PICK t : Table(t) /\ AnswersFrom(t)
  BY ServerTable
<1>4. PICK b : Adds(b)
  BY <1>3, ServerAdds
<1>5. b \in Seq(Answer) /\ Len(b) \in Nat /\ Stream' = Stream \o b
  <2>1. b \in Seq(Answer) /\ Stream' = e2c \o (s2e \o b)
    BY <1>1, <1>4 DEF Adds, Stream
  <2>2. e2c \o (s2e \o b) = (e2c \o s2e) \o b
    BY <1>2, <2>1, ConcatAssociative
  <2> QED
    BY <2>1, <2>2 DEF Stream
<1>6. ASSUME NEW i \in 1..Len(Stream')
      PROVE  \/ \E j \in 1..Len(Stream) : Stream'[i] = Stream[j]
             \/ \E j \in 1..Len(b) : Stream'[i] = b[j]
  <2>1. CASE i <= Len(Stream)
    <3>1. i \in 1..Len(Stream) /\ Stream'[i] = Stream[i]
      BY <1>2, <1>5, <2>1
    <3> QED
      BY <3>1
  <2>2. CASE i > Len(Stream)
    <3>1. i - Len(Stream) \in 1..Len(b) /\ Stream'[i] = b[i - Len(Stream)]
      BY <1>2, <1>5, <2>2
    <3> QED
      BY <3>1
  <2> QED
    BY <1>2, <2>1, <2>2
<1>7. /\ maxW' = Window /\ garbage'.last = garbage.last
      /\ t \in [1..Window -> AckRecord]
      /\ \A i \in 1..Window : trn'[i] \in {t[i], ZeroAck}
  BY <1>3 DEF AnswersFrom, Table
<1>8. ASSUME NEW i \in 1..maxW', trn'[i].ws = i
      PROVE  /\ i \in 1..Window /\ trn'[i].type = ACK
             /\ garbage.last = 1 => trn'[i].last = 1
             /\ garbage.last # 1 /\ trn'[i].last = 1 => i = Window
  <2>1. i \in 1..Window /\ i # 0
    BY <1>2, <1>7
  <2>2. trn'[i] = t[i]
    BY <1>7, <1>8, <2>1 DEF ZeroAck
  <2> QED
    BY <1>3, <1>8, <2>1, <2>2, TableOrder
<1>9. LastSlotTaken => LastSlotTaken'
  BY <1>2, <1>3, LastStays
<1>10. ASSUME garbage.last = 1 PROVE AllLast'
  <2>1. AllLast
    BY <1>10 DEF Ordered
  <2>2. ASSUME NEW k \in 1..Len(Stream'), Stream'[k].type = ACK
        PROVE  Stream'[k].last = 1
    BY <1>4, <1>6, <1>10, <2>1, <2>2 DEF Adds, AllLast
  <2> QED
    BY <1>1, <1>8, <1>10, <2>1, <2>2 DEF AllLast
<1>11. ASSUME garbage.last # 1 PROVE LastMeansTaken'
  <2>1. LastMeansTaken
    BY <1>11 DEF Ordered
  <2>2. ASSUME NEW k \in 1..Len(Stream'), Stream'[k].last = 1
        PROVE  LastSlotTaken'
    BY <1>4, <1>6, <1>9, <1>11, <2>1, <2>2 DEF Adds, LastMeansTaken
  <2>3. prev'.type = SYNACK => prev'.last = 0
    <3>1. garbage.last = 0
      BY <1>11 DEF SystemInv, Inv, StateTypeOK
    <3> QED
      BY <1>3, <2>1, <3>1 DEF AnswersFrom, LastMeansTaken
  <2> QED
    BY <1>1, <1>7, <1>8, <1>9, <1>11, <2>1, <2>2, <2>3 DEF LastMeansTaken
<1>12. Closed(Stream')
  BY <1>2, <1>4, <1>5, ClosedConcat DEF Adds, Ordered
<1>13. ASSUME EndsAfter(Stream, 0) PROVE EndsAfter(Stream', 0)
  BY <1>2, <1>5, <1>13, EndsConcat
<1> QED
  BY <1>1, <1>7, <1>8, <1>10, <1>11, <1>12, <1>13 DEF Ordered, Closed, EndsAfter

-----------------------------------------------------------------------------
(***************************************************************************)
(* The invariants.                                                         *)
(***************************************************************************)
LEMMA CountInit == HistoryInit => CountInv
<1> SUFFICES ASSUME HistoryInit PROVE CountInv
  OBVIOUS
<1>1. /\ C!Init /\ Init /\ e2c = <<>>
  BY DEF HistoryInit, SystemInit, C!EarlierInit
<1>2. /\ 1..maxW = {} /\ pc = "start" /\ tpc = 0 /\ rac = 0 /\ prev.type = 0
      /\ s2e = <<>> /\ e2c = <<>>
  BY <1>1 DEF C!Init, Init, ZeroAck
<1>3. 1..Len(Stream) = {}
  BY <1>2 DEF Stream
<1>4. ExtraIsLast => Ordered
  BY <1>2, <1>3, Aligned DEF Ordered, AllLast, LastMeansTaken, Closed, SYNACK
<1> QED
  BY <1>2, <1>4 DEF CountInv, CountedInWindow, OrderInv

LEMMA CountNext ==
    ASSUME SystemInv, HistoryInv, PlacesInv, CountInv, ExtraIsLast => Roomy,
           [SystemNext]_systemVars
    PROVE  CountInv'
<1>1. NamesBuilt /\ CountedInWindow /\ OrderInv /\ (ExtraIsLast => Ordered)
  BY DEF PlacesInv, CountInv, OrderInv
<1>2. CASE ClientStep \/ ClientTimeout
  <2>1. CountedInWindow'
    BY <1>1, <1>2, ClientCounts
  <2>2. ExtraIsLast => Ordered'
    BY <1>1, <1>2, HistoryFacts, ClientOrder
  <2> QED
    BY <2>1, <2>2 DEF CountInv, OrderInv, ExtraIsLast
<1>3. CASE EmulatorStep \/ EmulatorTimeout
  <2>1. UNCHANGED clientVars
    BY <1>3 DEF EmulatorStep, EmulatorTimeout, EmulatorDoes
  <2>2. CountedInWindow'
    BY <1>1, <2>1 DEF clientVars, CountedInWindow
  <2>3. ExtraIsLast => Ordered'
    BY <1>1, <1>3, EmulatorOrder
  <2> QED
    BY <2>2, <2>3 DEF CountInv, OrderInv, ExtraIsLast
<1>4. CASE ServerStep \/ ServerTimeout
  <2>1. UNCHANGED clientVars /\ UNCHANGED e2c /\ (Receive \/ Timeout)
    BY <1>4 DEF ServerStep, ServerTimeout, ServerDoes
  <2>2. CountedInWindow'
    BY <1>1, <2>1 DEF clientVars, CountedInWindow
  <2>3. ExtraIsLast => Ordered'
    BY <1>1, <2>1, ServerOrder
  <2> QED
    BY <2>2, <2>3 DEF CountInv, OrderInv, ExtraIsLast
<1>5. CASE UNCHANGED systemVars
  <2>1. UNCHANGED <<pc, rac, tp, tpc, e2c, s2e, maxW, trn, prev, garbage>>
    BY <1>5 DEF systemVars, clientVars, serverVars
  <2>2. CountedInWindow'
    BY <1>1, <2>1 DEF CountedInWindow
  <2>3. ExtraIsLast => Ordered'
    BY <1>1, <2>1
       DEF Ordered, AllLast, LastMeansTaken, LastSlotTaken, Closed, EndsAfter, Stream
  <2> QED
    BY <2>2, <2>3 DEF CountInv, OrderInv, ExtraIsLast
<1> QED
  BY <1>2, <1>3, <1>4, <1>5 DEF SystemNext, SomeStep, SomeTimeout

(* Whatever is lost, late or repeated, an acknowledgement goes by number   *)
(* and slot of a packet that has been built, and the client waits for the  *)
(* numbers of the packets it built last (client.c 158-204, server.c 159).  *)
THEOREM AcksNameBuilt == HistorySpec => []PlacesInv
<1>1. SystemInv /\ SystemInv' /\ HistoryInv /\ PlacesInv /\ [SystemNext /\ Note]_historyVars
      => PlacesInv'
  BY PlacesNext DEF historyVars
<1> QED
  BY <1>1, PlacesInit, SystemWithHistory, HistoryInvariant, PTL DEF HistorySpec

(* As long as the buffers have room for the answers to a window, the count *)
(* of the client stays in its window and the answers come in an order in   *)
(* which it does; if the packet after the last chunk does not fill a       *)
(* window, room or not (client.c 244-270).                                 *)
THEOREM CountsInWindow == HistorySpec /\ [](ExtraIsLast => Roomy) => []CountInv
<1>1. /\ SystemInv /\ HistoryInv /\ PlacesInv /\ CountInv /\ (ExtraIsLast => Roomy)
      /\ [SystemNext /\ Note]_historyVars
      => CountInv'
  BY CountNext DEF historyVars
<1> QED
  BY <1>1, CountInit, SystemWithHistory, HistoryInvariant, AcksNameBuilt, PTL
     DEF HistorySpec

LEMMA CountBounds ==
    ASSUME SystemInv, HistoryInv, CountInv
    PROVE  RacInBounds
<1>1. pc = "receive" => synAck.ws = Window
  BY HistoryFacts DEF ClientNumbers, InHandshake
<1> QED
  BY <1>1 DEF CountInv, CountedInWindow, RacInBounds

(* So received_ack_count is an index of the array of the window whenever   *)
(* the client looks at an acknowledgement (client.c 255): as long as the   *)
(* buffers have room for the answers to a window, ...                      *)
THEOREM CountInBounds == HistorySpec /\ [](ExtraIsLast => Roomy) => []RacInBounds
<1>1. SystemInv /\ HistoryInv /\ CountInv => RacInBounds
  BY CountBounds
<1> QED
  BY <1>1, SystemWithHistory, HistoryInvariant, CountsInWindow, PTL

(* ... and however full they are, unless the packet after the last chunk   *)
(* fills a window of several packets.                                      *)
THEOREM CountAlwaysInBounds ==
    ASSUME ~ExtraIsLast
    PROVE  HistorySpec => []RacInBounds
<1>1. ExtraIsLast => Roomy
  OBVIOUS
<1> QED
  BY <1>1, CountInBounds, PTL

=============================================================================
