---------------------------- MODULE ServerProofs ----------------------------
(***************************************************************************)
(* Proofs about the server, for every file, window size, network and       *)
(* choice of what uninitialised memory holds.                              *)
(***************************************************************************)
EXTENDS Server, SequenceTheorems, TLAPS

-----------------------------------------------------------------------------
(***************************************************************************)
(* Facts about the operators of Packets and Server.                        *)
(***************************************************************************)
(* A file has a first chunk, so that window and table are not empty.       *)
LEMMA WindowFacts ==
    /\ TotalPacketCount \in Nat \ {0}
    /\ Window \in Nat \ {0}
    /\ MaxPackets \in Nat \ {0}
<1>1. TotalPacketCount \in Nat \ {0}
  BY FileAssumption DEF TotalPacketCount
<1> QED
  BY <1>1, WindowAssumption
  DEF Window, MaxPackets, setMaxWindowSize, setMaxPacketCount

(* A queue stays a queue of what was put in it.                            *)
LEMMA PutType ==
    ASSUME NEW T, NEW q \in Seq(T), NEW a \in Seq(T)
    PROVE  Put(q, a) \in Seq(T)
<1>1. q \o a \in Seq(T)
  BY ConcatProperties
<1>2. Len(q \o a) \in Nat
  BY <1>1, LenProperties
<1>3. CASE Len(q \o a) <= SockBuf
  BY <1>1, <1>3 DEF Put
<1>4. CASE ~(Len(q \o a) <= SockBuf)
  <2>1. SubSeq(q \o a, 1, SockBuf) \in Seq(T)
    BY <1>1, <1>2, <1>4, SockBufAssumption, SubSeqProperties
  <2> QED
    BY <1>4, <2>1 DEF Put
<1> QED
  BY <1>3, <1>4

(* Marking the last acknowledgement changes nothing but that mark.         *)
LEMMA MarkLastFacts ==
    ASSUME maxW \in Nat, NEW t \in [1..maxW -> AckRecord]
    PROVE  /\ MarkLast(t) \in [1..maxW -> AckRecord]
           /\ \A i \in 1..maxW : /\ MarkLast(t)[i].ws = t[i].ws
                                 /\ MarkLast(t)[i].ack = t[i].ack
<1> SUFFICES ASSUME NEW i \in 1..maxW
             PROVE  /\ MarkLast(t)[i] \in AckRecord
                    /\ MarkLast(t)[i].ws = t[i].ws
                    /\ MarkLast(t)[i].ack = t[i].ack
  BY DEF MarkLast
<1>1. t[i] \in AckRecord
  OBVIOUS
<1> QED
  BY <1>1 DEF MarkLast, AckRecord

(* The acknowledgement of a client's packet is an acknowledgement.         *)
LEMMA AckForType ==
    ASSUME maxW \in Nat, garbage \in [last : {0, 1}, re : {0, 1}],
           NEW p \in ClientPacket
    PROVE  AckFor(p) \in AckRecord
<1>1. maxW * maxW \in Nat
  OBVIOUS
<1>2. p.ack \in Nat /\ p.seq \in Nat /\ p.ws \in Nat
  BY DEF ClientPacket, Packet
<1>3. garbage.last \in {0, 1} /\ garbage.re \in {0, 1}
  OBVIOUS
<1> QED
  BY <1>1, <1>2, <1>3 DEF AckFor, AckRecord, ACK, Payload

(***************************************************************************)
(* The window.  What it means for a table of slots and a table of          *)
(* acknowledgements to be a window, apart from the variables.              *)
(***************************************************************************)
WindowOK(w, a, b) ==
    /\ a \in [1..w -> Slot]
    /\ b \in [1..w -> AckRecord]
    /\ \A i \in 1..w :
          /\ a[i].ws \in {0, i}
          /\ a[i].ws = 0 <=> a[i].seq = 0
          /\ a[i].data = Junk => a[i].ws = 0
          /\ a[i].ws = b[i].ws
          /\ a[i].ws # 0 => b[i].ack = a[i].seq + w * w
    /\ \A i, j \in 1..w : a[i].seq = a[j].seq /\ a[i].seq # 0 => i = j

(* The invariant speaks of the window in these terms.                      *)
LEMMA InvWindow ==
    ASSUME Inv PROVE WindowOK(maxW, rec, trn)
BY DEF Inv, StateTypeOK, SlotsFilled, TablesAgree, WindowDistinct, WindowOK

(* Sizes are numbers.                                                      *)
LEMMA InvSizes ==
    ASSUME Inv
    PROVE  /\ maxW \in Nat /\ maxP \in Nat
           /\ maxW # 0 => maxW = Window /\ maxP = MaxPackets
BY WindowFacts DEF Inv, StateTypeOK, Sized

-----------------------------------------------------------------------------
(***************************************************************************)
(* Receiving a data packet keeps the window a window.                      *)
(***************************************************************************)
LEMMA ReceivedWindow ==
    ASSUME Inv, maxW # 0, NEW p \in ClientPacket, p.type = DATA
    PROVE  WindowOK(maxW, Received(p), Acknowledged(p))
<1>1. maxW \in Nat /\ maxW = Window
  BY InvSizes
<1>2. p.ws \in 1..maxW /\ p.seq \in Nat \ {0} /\ p.data \in Payload
      /\ p.data # Junk /\ p.ws \in Nat
  BY <1>1 DEF ClientPacket, Packet, SYN, DATA
<1>3. WindowOK(maxW, rec, trn)
  BY InvWindow
<1>4. AckFor(p) \in AckRecord
  BY <1>1, AckForType DEF Inv, StateTypeOK
<1>5. CASE IsDuplicate(p)
  BY <1>3, <1>5 DEF Received, Acknowledged
<1>6. CASE ~IsDuplicate(p)
  <2> DEFINE new == [seq |-> p.seq, ws |-> p.ws, data |-> p.data]
  <2>1. new \in Slot
    BY <1>2 DEF Slot
  <2>2. Received(p) = [rec EXCEPT ![p.ws] = new]
        /\ Acknowledged(p) = [trn EXCEPT ![p.ws] = AckFor(p)]
    BY <1>6 DEF Received, Acknowledged
  <2>3. rec \in [1..maxW -> Slot] /\ trn \in [1..maxW -> AckRecord]
    BY <1>3 DEF WindowOK
  <2>4. /\ Received(p) \in [1..maxW -> Slot]
        /\ Acknowledged(p) \in [1..maxW -> AckRecord]
    BY <2>1, <2>2, <2>3, <1>4
  <2>5. \A i \in 1..maxW : /\ Received(p)[i] = IF i = p.ws THEN new ELSE rec[i]
                           /\ Acknowledged(p)[i] = IF i = p.ws THEN AckFor(p)
                                                   ELSE trn[i]
    BY <2>2, <2>3
  <2>6. new.seq = p.seq /\ new.ws = p.ws /\ new.data = p.data
    OBVIOUS
  <2>7. AckFor(p).ws = p.ws /\ AckFor(p).ack = p.seq + maxW * maxW
    BY DEF AckFor
  <2>8. \A i \in 1..maxW : rec[i].seq # p.seq
    BY <1>6 DEF IsDuplicate
  <2> HIDE DEF new
  <2>9. ASSUME NEW i \in 1..maxW
        PROVE  /\ Received(p)[i].ws \in {0, i}
               /\ Received(p)[i].ws = 0 <=> Received(p)[i].seq = 0
               /\ Received(p)[i].data = Junk => Received(p)[i].ws = 0
               /\ Received(p)[i].ws = Acknowledged(p)[i].ws
               /\ Received(p)[i].ws # 0
                    => Acknowledged(p)[i].ack = Received(p)[i].seq + maxW * maxW
    <3>1. CASE i = p.ws
      BY <1>2, <2>5, <2>6, <2>7, <3>1
    <3>2. CASE i # p.ws
      BY <1>3, <2>5, <3>2 DEF WindowOK
    <3> QED
      BY <3>1, <3>2
  <2>10. ASSUME NEW i \in 1..maxW, NEW j \in 1..maxW,
                Received(p)[i].seq = Received(p)[j].seq, Received(p)[i].seq # 0
         PROVE  i = j
    BY <1>3, <2>5, <2>6, <2>8, <2>10 DEF WindowOK
  <2> QED
    BY <2>4, <2>9, <2>10 DEF WindowOK
<1> QED
  BY <1>5, <1>6

(* So does marking the last acknowledgement.                               *)
LEMMA MarkedWindow ==
    ASSUME maxW \in Nat, NEW a, NEW b, WindowOK(maxW, a, b)
    PROVE  WindowOK(maxW, a, MarkLast(b))
<1>1. b \in [1..maxW -> AckRecord]
  BY DEF WindowOK
<1> QED
  BY <1>1, MarkLastFacts DEF WindowOK

-----------------------------------------------------------------------------
(***************************************************************************)
(* Writing a window keeps the invariant.                                   *)
(***************************************************************************)
(* What is written of a window: its slots, some without their text.        *)
LEMMA FreshFacts ==
    ASSUME maxW \in Nat, NEW r \in [1..maxW -> Slot]
    PROVE  /\ Fresh(r) \in Seq(Slot)
           /\ Len(Fresh(r)) = maxW
           /\ \A i \in 1..maxW :
                 /\ Fresh(r)[i].seq = r[i].seq
                 /\ Fresh(r)[i].data \in {Blank, r[i].data}
                 /\ WrittenBefore(r, i) => Fresh(r)[i].data = Blank
<1>1. ASSUME NEW i \in 1..maxW
      PROVE  /\ Fresh(r)[i] \in Slot
             /\ Fresh(r)[i].seq = r[i].seq
             /\ Fresh(r)[i].data \in {Blank, r[i].data}
             /\ WrittenBefore(r, i) => Fresh(r)[i].data = Blank
  <2>1. r[i] \in Slot /\ Blank \in Payload
    BY DEF Payload
  <2>2. CASE WrittenBefore(r, i)
    BY <2>1, <2>2 DEF Fresh, Slot
  <2>3. CASE ~WrittenBefore(r, i)
    BY <2>1, <2>3 DEF Fresh, Slot
  <2> QED
    BY <2>2, <2>3
<1>2. Fresh(r) \in [1..maxW -> Slot]
  BY <1>1 DEF Fresh
<1> QED
  BY <1>1, <1>2

(* What is left of a window when its first slots have been written is a     *)
(* window, too.                                                            *)
LEMMA RemainingWindow ==
    ASSUME maxW \in Nat, NEW a, NEW b, WindowOK(maxW, a, b), NEW n \in 0..maxW
    PROVE  WindowOK(maxW, Remaining(a, n),
                    IF n = 0 THEN b ELSE [b EXCEPT ![1] = ZeroAck])
<1> DEFINE c == Remaining(a, n)
           d == IF n = 0 THEN b ELSE [b EXCEPT ![1] = ZeroAck]
<1>1. a \in [1..maxW -> Slot] /\ b \in [1..maxW -> AckRecord]
  BY DEF WindowOK
<1>2. ZeroSlot \in Slot /\ ZeroAck \in AckRecord
  BY DEF ZeroSlot, ZeroAck, Slot, AckRecord, Payload
<1>3. ASSUME NEW i \in 1..maxW
      PROVE  /\ c[i] \in Slot
             /\ i = 1 /\ n # 0 => c[i] = ZeroSlot
             /\ ~(i = 1 /\ n # 0) => c[i].seq = a[i].seq /\ c[i].ws = a[i].ws
             /\ c[i].data \in {Blank, a[i].data}
  <2>1. a[i] \in Slot /\ Blank \in Payload
    BY <1>1 DEF Payload
  <2>2. CASE i <= n
    BY <1>2, <2>1, <2>2 DEF Remaining, Emptied, Slot, ZeroSlot
  <2>3. CASE ~(i <= n)
    <3>1. c[i] = Fresh(a)[i] /\ ~(i = 1 /\ n # 0)
      BY <2>3 DEF Remaining
    <3>2. c[i] = IF WrittenBefore(a, i) THEN [a[i] EXCEPT !.data = Blank] ELSE a[i]
      BY <3>1 DEF Fresh
    <3> HIDE DEF c
    <3>3. CASE WrittenBefore(a, i)
      BY <2>1, <3>1, <3>2, <3>3 DEF Slot
    <3>4. CASE ~WrittenBefore(a, i)
      BY <2>1, <3>1, <3>2, <3>4
    <3> QED
      BY <3>3, <3>4
  <2> QED
    BY <2>2, <2>3
<1>4. c \in [1..maxW -> Slot]
  BY <1>3 DEF Remaining
<1>5. /\ d \in [1..maxW -> AckRecord]
      /\ \A i \in 1..maxW : d[i] = IF i = 1 /\ n # 0 THEN ZeroAck ELSE b[i]
  <2>1. CASE n = 0
    BY <1>1, <2>1
  <2>2. CASE n # 0
    BY <1>1, <1>2, <2>2
  <2> QED
    BY <2>1, <2>2
<1>6. ZeroSlot.ws = 0 /\ ZeroSlot.seq = 0 /\ ZeroSlot.data = Blank /\ ZeroAck.ws = 0
  BY DEF ZeroSlot, ZeroAck
<1>7. Blank # Junk
  BY FileAssumption
<1> HIDE DEF c, d
<1>8. ASSUME NEW i \in 1..maxW
      PROVE  /\ c[i].ws \in {0, i}
             /\ c[i].ws = 0 <=> c[i].seq = 0
             /\ c[i].data = Junk => c[i].ws = 0
             /\ c[i].ws = d[i].ws
             /\ c[i].ws # 0 => d[i].ack = c[i].seq + maxW * maxW
  <2>1. CASE i = 1 /\ n # 0
    BY <1>3, <1>5, <1>6, <1>7, <2>1
  <2>2. CASE ~(i = 1 /\ n # 0)
    BY <1>3, <1>5, <1>7, <2>2 DEF WindowOK
  <2> QED
    BY <2>1, <2>2
<1>9. ASSUME NEW i \in 1..maxW, NEW j \in 1..maxW, c[i].seq = c[j].seq, c[i].seq # 0
      PROVE  i = j
  <2>1. c[i].seq = a[i].seq /\ c[j].seq = a[j].seq
    BY <1>3, <1>6, <1>9
  <2> QED
    BY <1>9, <2>1 DEF WindowOK
<1>10. WindowOK(maxW, c, d)
  BY <1>4, <1>5, <1>8, <1>9 DEF WindowOK
<1> QED
  BY <1>10 DEF c, d

(* The slots that are written are the first ones of the window.            *)
LEMMA ReachedFacts ==
    ASSUME maxW \in Nat, NEW r \in [1..maxW -> Slot], NEW n \in Reached(r)
    PROVE  /\ n \in 0..maxW
           /\ SubSeq(Fresh(r), 1, n) \in Seq(Slot)
           /\ Len(SubSeq(Fresh(r), 1, n)) = n
           /\ \A i \in 1..n : SubSeq(Fresh(r), 1, n)[i] = Fresh(r)[i]
           /\ (\A i \in 1..maxW : r[i].data # Junk) =>
                 /\ n = maxW
                 /\ SubSeq(Fresh(r), 1, n) = Fresh(r)
                 /\ maxW # 0 => Remaining(r, n) = Emptied(r)
<1>1. n \in 0..maxW
  BY DEF Reached
<1>2. /\ Fresh(r) \in Seq(Slot) /\ Len(Fresh(r)) = maxW
      /\ \A i \in 1..maxW : Fresh(r)[i].data \in {Blank, r[i].data}
  BY FreshFacts
<1> DEFINE F == Fresh(r)
<1>3. F \in Seq(Slot) /\ Len(F) = maxW /\ \A i \in 1..maxW : F[i] \in Slot
  BY <1>2, ElementOfSeq
<1>4. Blank # Junk
  BY FileAssumption
<1>5. ASSUME \A i \in 1..maxW : r[i].data # Junk
      PROVE  n = maxW /\ Remaining(r, n) = Emptied(r)
  <2>1. n = maxW
    BY <1>2, <1>4, <1>5 DEF Reached
  <2> QED
    BY <2>1 DEF Remaining, Emptied
<1> HIDE DEF F
<1>6. \A i \in 1..n : F[i] \in Slot
  BY <1>1, <1>3
<1>7. /\ SubSeq(F, 1, n) \in Seq(Slot)
      /\ Len(SubSeq(F, 1, n)) = n
      /\ \A i \in 1..n : SubSeq(F, 1, n)[i] = F[i]
  BY <1>1, <1>6, SubSeqProperties
<1>8. n = maxW => SubSeq(F, 1, n) = F
  BY <1>3
<1> QED
  BY <1>1, <1>5, <1>7, <1>8 DEF F

(* The text of a table is a sequence of payloads, row by row.              *)
LEMMA TextFacts ==
    ASSUME NEW s \in Seq(Slot)
    PROVE  /\ Text(s) \in Seq(Payload)
           /\ Len(Text(s)) = Len(s)
           /\ \A k \in 1..Len(s) : Text(s)[k] = s[k].data
<1>1. Len(s) \in Nat /\ \A k \in 1..Len(s) : s[k] \in Slot
  BY ElementOfSeq, LenProperties
<1>2. \A k \in 1..Len(s) : s[k].data \in Payload
  BY <1>1 DEF Slot
<1> QED
  BY <1>1, <1>2 DEF Text

(* The table after the window r: what was in it, then r without the text   *)
(* of what it already held.                                                *)
LEMMA Appended ==
    ASSUME Inv, NEW r \in [1..maxW -> Slot], NEW n \in Reached(r),
           NEW slots, slots = allp \o SubSeq(Fresh(r), 1, n)
    PROVE  /\ slots \in Seq(Slot)
           /\ Len(slots) = Len(allp) + n
           /\ Len(allp) \in Nat
           /\ \A k \in 1..Len(allp) : slots[k] = allp[k]
           /\ \A k \in Len(allp) + 1..Len(allp) + n :
                 /\ k - Len(allp) \in 1..n
                 /\ slots[k] = Fresh(r)[k - Len(allp)]
<1>1. allp \in Seq(Slot) /\ maxW \in Nat
  BY InvSizes DEF Inv, StateTypeOK
<1>2. /\ n \in Nat
      /\ SubSeq(Fresh(r), 1, n) \in Seq(Slot) /\ Len(SubSeq(Fresh(r), 1, n)) = n
      /\ \A i \in 1..n : SubSeq(Fresh(r), 1, n)[i] = Fresh(r)[i]
  BY <1>1, ReachedFacts
<1>3. Len(allp) \in Nat
  BY <1>1, LenProperties
<1> DEFINE F == SubSeq(Fresh(r), 1, n)
<1>4. F \in Seq(Slot) /\ Len(F) = n
  BY <1>2
<1> HIDE DEF F
<1>5. /\ allp \o F \in Seq(Slot)
      /\ Len(allp \o F) = Len(allp) + Len(F)
      /\ \A i \in 1..Len(allp) + Len(F) : (allp \o F)[i] =
            IF i <= Len(allp) THEN allp[i] ELSE F[i - Len(allp)]
  BY <1>1, <1>4, ConcatProperties
<1>6. \A k \in 1..Len(allp) : (allp \o F)[k] = allp[k]
  BY <1>1, <1>3, <1>4, <1>5
<1>7. ASSUME NEW k \in Len(allp) + 1..Len(allp) + n
      PROVE  k - Len(allp) \in 1..n /\ (allp \o F)[k] = F[k - Len(allp)]
  BY <1>2, <1>3, <1>4, <1>5
<1> QED
  BY <1>2, <1>3, <1>4, <1>5, <1>6, <1>7 DEF F

(* While the table has room, no text is appended a second time.            *)
LEMMA AppendedOnce ==
    ASSUME Inv, NEW r, NEW t, WindowOK(maxW, r, t),
           NEW n \in Reached(r)
    PROVE  LET slots == allp \o SubSeq(Fresh(r), 1, n) IN
           Len(slots) <= maxP => \A k \in 1..Len(slots), j \in 1..Len(slots) :
              /\ slots[j].data # Blank /\ slots[k].data # Blank
              /\ slots[j].seq = slots[k].seq /\ slots[j].seq # 0
              /\ j <= k
              => j = k
<1> DEFINE slots == allp \o SubSeq(Fresh(r), 1, n)
<1> SUFFICES ASSUME Len(slots) <= maxP,
                    NEW k \in 1..Len(slots), NEW j \in 1..Len(slots),
                    slots[j].data # Blank, slots[k].data # Blank,
                    slots[j].seq = slots[k].seq, slots[j].seq # 0,
                    j <= k
             PROVE  j = k
  OBVIOUS
<1>1. r \in [1..maxW -> Slot] /\ maxW \in Nat /\ maxP \in Nat
  BY InvSizes DEF WindowOK
<1>2. /\ Len(slots) = Len(allp) + n /\ n \in 0..maxW
      /\ Len(allp) \in Nat
      /\ \A i \in 1..Len(allp) : slots[i] = allp[i]
      /\ \A i \in Len(allp) + 1..Len(allp) + n :
            /\ i - Len(allp) \in 1..maxW
            /\ slots[i] = Fresh(r)[i - Len(allp)]
  <2>1. n \in 0..maxW
    BY <1>1, ReachedFacts
  <2>2. \A i \in 1..n : i \in 1..maxW
    BY <1>1, <2>1
  <2> QED
    BY <1>1, <2>1, <2>2, Appended
<1>3. \A i \in 1..maxW :
         /\ Fresh(r)[i].seq = r[i].seq
         /\ WrittenBefore(r, i) => Fresh(r)[i].data = Blank
  BY <1>1, FreshFacts
<1>4. CASE k <= Len(allp)
  <2>1. j \in 1..Len(allp) /\ k \in 1..Len(allp) /\ Len(allp) <= maxP
    BY <1>1, <1>2, <1>4
  <2>2. NoChunkTwice
    BY DEF Inv
  <2> QED
    BY <1>2, <2>1, <2>2 DEF NoChunkTwice
<1>5. CASE j <= Len(allp) /\ k > Len(allp)
  <2>1. j \in 1..Len(allp) /\ j <= maxP /\ k \in Len(allp) + 1..Len(allp) + n
    BY <1>1, <1>2, <1>5
  <2>2. allp[j].seq \in Written
    BY <2>1 DEF Written
  <2> DEFINE i == k - Len(allp)
  <2>3. i \in 1..maxW /\ r[i].seq = allp[j].seq /\ r[i].seq # 0
    BY <1>2, <1>3, <2>1
  <2> HIDE DEF i
  <2>4. \A m \in 1..i - 1 : m \in 1..maxW /\ m # i
    BY <1>1, <2>3
  <2>5. WrittenBefore(r, i)
    BY <2>2, <2>3, <2>4 DEF WrittenBefore, WindowOK
  <2>6. slots[k].data = Fresh(r)[i].data
    BY <1>2, <2>1 DEF i
  <2> QED
    BY <1>3, <2>3, <2>5, <2>6
<1>6. CASE j > Len(allp)
  <2>1. /\ j \in Len(allp) + 1..Len(allp) + n
        /\ k \in Len(allp) + 1..Len(allp) + n
    BY <1>1, <1>2, <1>6
  <2>2. r[j - Len(allp)].seq = r[k - Len(allp)].seq
        /\ r[j - Len(allp)].seq # 0
    BY <1>2, <1>3, <2>1
  <2>3. j - Len(allp) = k - Len(allp)
    BY <1>2, <2>1, <2>2 DEF WindowOK
  <2> QED
    BY <1>2, <2>1, <2>3
<1> QED
  BY <1>2, <1>4, <1>5, <1>6

(* The write leaves a state of the invariant, whether it goes well or not. *)
LEMMA WriteKeeps ==
    ASSUME Inv, spc = "listen", maxW # 0,
           NEW r, NEW t, WindowOK(maxW, r, t),
           NEW next \in {"listen", "exited"},
           next = "listen" => \A i \in 1..maxW : r[i].ws = i,
           Write(r, t, next),
           UNCHANGED <<maxW, maxP, garbage>>,
           prev' \in AckRecord,
           e2s' \in Seq(ClientPacket)
    PROVE  Inv'
<1> PICK n \in Reached(r) :
         LET slots == allp \o SubSeq(Fresh(r), 1, n)
         IN  /\ allp' = slots
             /\ rec' = Remaining(r, n)
             /\ trn' = IF n = 0 THEN t ELSE [t EXCEPT ![1] = ZeroAck]
             /\ \E fault \in Faults(slots) :
                   /\ file' = CASE fault = "harmless"  -> Text(slots)
                                [] fault = "garbled"   -> <<Junk>>
                                [] fault = "truncated" -> <<>>
                                [] fault = "aborted"   -> file
                   /\ spc' = IF fault \in {"truncated", "aborted"}
                             THEN "aborted" ELSE next
  BY DEF Write
<1> DEFINE slots == allp \o SubSeq(Fresh(r), 1, n)
<1>0. slots = allp \o SubSeq(Fresh(r), 1, n)
  OBVIOUS
<1>1. maxW \in Nat \ {0} /\ maxP \in Nat /\ maxW = Window /\ maxP = MaxPackets
  BY InvSizes
<1>2. r \in [1..maxW -> Slot] /\ t \in [1..maxW -> AckRecord]
  BY DEF WindowOK
<1>3. allp' = slots /\ slots \in Seq(Slot)
  BY <1>2, Appended
<1>4. PICK fault \in Faults(slots) :
         /\ file' = CASE fault = "harmless"  -> Text(slots)
                      [] fault = "garbled"   -> <<Junk>>
                      [] fault = "truncated" -> <<>>
                      [] fault = "aborted"   -> file
         /\ spc' = IF fault \in {"truncated", "aborted"} THEN "aborted" ELSE next
  OBVIOUS
<1>5. fault \in HeapFaults
      /\ fault \in {"harmless", "garbled", "truncated", "aborted"}
  BY HeapAssumption DEF Faults
<1>6. Text(slots) \in Seq(Payload) /\ Len(Text(slots)) = Len(slots)
      /\ \A k \in 1..Len(slots) : Text(slots)[k] = slots[k].data
  BY <1>3, TextFacts
<1>7. WindowOK(maxW, rec', trn')
  <2>1. n \in 0..maxW
    BY <1>1, <1>2, ReachedFacts
  <2> QED
    BY <1>1, <2>1, RemainingWindow
<1>8. StateTypeOK'
  <2>1. rec' \in [1..maxW' -> Slot] /\ trn' \in [1..maxW' -> AckRecord]
    BY <1>7 DEF WindowOK
  <2>2. file' \in Seq(Payload)
    <3>1. file \in Seq(Payload) /\ <<>> \in Seq(Payload) /\ <<Junk>> \in Seq(Payload)
      BY DEF Inv, StateTypeOK, Payload
    <3> QED
      BY <1>4, <1>5, <1>6, <3>1
  <2>3. spc' \in {"listen", "exited", "aborted"}
    BY <1>4
  <2> QED
    BY <1>3, <2>1, <2>2, <2>3 DEF Inv, StateTypeOK
<1>9. Sized'
  BY <1>1 DEF Sized, Window, MaxPackets
<1>10. (SlotsFilled /\ TablesAgree /\ WindowDistinct)'
  BY <1>7 DEF WindowOK, SlotsFilled, TablesAgree, WindowDistinct
<1>11. NoChunkTwice'
  <2>1. Len(slots) \in Nat
    BY <1>3, LenProperties
  <2>0. Len(slots) <= maxP =>
           \A k \in 1..Len(slots), j \in 1..Len(slots) :
              /\ slots[j].data # Blank /\ slots[k].data # Blank
              /\ slots[j].seq = slots[k].seq /\ slots[j].seq # 0
              /\ j <= k
              => j = k
    BY AppendedOnce
  <2> HIDE DEF slots
  <2>2. ASSUME Len(slots) <= maxP,
               NEW j \in 1..Len(slots), NEW k \in 1..Len(slots),
               slots[j].data # Blank, slots[k].data # Blank,
               slots[j].seq = slots[k].seq, slots[j].seq # 0
        PROVE  j = k
    <3>1. CASE j <= k
      BY <2>0, <2>2, <3>1
    <3>2. CASE k <= j
      <4>1. slots[k].seq = slots[j].seq /\ slots[k].seq # 0
        BY <2>2
      <4>2. k = j
        BY <2>0, <2>2, <3>2, <4>1
      <4> QED
        BY <4>2
    <3> QED
      BY <2>1, <3>1, <3>2
  <2> QED
    BY <1>3, <2>2 DEF NoChunkTwice
<1>12. ASSUME spc' = "listen"
       PROVE  \A k \in 1..Len(slots) : slots[k].data # Junk
  <2>1. next = "listen"
    BY <1>4, <1>12
  <2>2. \A i \in 1..maxW : r[i].data # Junk
    BY <1>1, <2>1 DEF WindowOK
  <2>3. \A i \in 1..maxW : Fresh(r)[i].data # Junk
    BY <1>1, <1>2, <2>2, FreshFacts, FileAssumption
  <2>4. \A k \in 1..Len(allp) : allp[k].data # Junk
    BY DEF Inv, NoJunkWritten
  <2>0. n = maxW /\ n \in Nat
    BY <1>1, <1>2, <2>2, ReachedFacts
  <2>5. /\ Len(slots) = Len(allp) + maxW
        /\ Len(allp) \in Nat
        /\ \A k \in 1..Len(allp) : slots[k] = allp[k]
        /\ \A k \in Len(allp) + 1..Len(allp) + maxW :
              /\ k - Len(allp) \in 1..maxW
              /\ slots[k] = Fresh(r)[k - Len(allp)]
    BY <1>1, <1>2, <2>0, Appended
  <2> HIDE DEF slots
  <2> SUFFICES ASSUME NEW k \in 1..Len(slots) PROVE slots[k].data # Junk
    OBVIOUS
  <2>6. k \in 1..Len(allp) \/ k \in Len(allp) + 1..Len(allp) + maxW
    BY <1>1, <2>5
  <2> QED
    BY <2>3, <2>4, <2>5, <2>6
<1>13. NoJunkWritten'
  BY <1>3, <1>12 DEF NoJunkWritten
<1>14. NoJunkBeforeEot'
  <2> SUFFICES ASSUME spc' = "listen", "garbled" \notin HeapFaults
               PROVE  \A k \in 1..Len(file') : file'[k] # Junk
    BY DEF NoJunkBeforeEot
  <2>1. fault = "harmless"
    BY <1>4, <1>5
  <2>2. file' = Text(slots)
    BY <1>4, <2>1
  <2> QED
    BY <1>6, <1>12, <2>2
<1> QED
  BY <1>8, <1>9, <1>10, <1>11, <1>13, <1>14 DEF Inv

-----------------------------------------------------------------------------
(***************************************************************************)
(* Every step keeps the invariant.                                         *)
(***************************************************************************)
(* At first the tables are empty.                                          *)
LEMMA InitInv == Init => Inv
<1> SUFFICES ASSUME Init PROVE Inv
  OBVIOUS
<1>1. ZeroAck \in AckRecord
  BY DEF ZeroAck, AckRecord, Payload
<1>2. StateTypeOK
  <2>1. rec \in [1..maxW -> Slot] /\ trn \in [1..maxW -> AckRecord]
    <3>1. 1..maxW = {} /\ rec = <<>> /\ trn = <<>>
      BY DEF Init
    <3>2. DOMAIN rec = {} /\ DOMAIN trn = {}
      BY <3>1
    <3>3. rec = [i \in 1..maxW |-> rec[i]] /\ trn = [i \in 1..maxW |-> trn[i]]
      BY <3>1, <3>2
    <3> QED
      BY <3>1, <3>3
  <2>2. garbage \in [last : {0, 1}, re : {0, 1}]
    BY FlagsAssumption DEF Init
  <2>3. allp \in Seq(Slot) /\ file \in Seq(Payload) /\ e2s \in Seq(ClientPacket)
    BY DEF Init
  <2> QED
    BY <1>1, <2>1, <2>2, <2>3 DEF Init, StateTypeOK
<1>3. Sized
  BY DEF Init, Sized, ZeroAck
<1>4. SlotsFilled /\ TablesAgree /\ WindowDistinct
  BY DEF Init, SlotsFilled, TablesAgree, WindowDistinct
<1>5. NoChunkTwice /\ NoJunkWritten /\ NoJunkBeforeEot
  BY DEF Init, NoChunkTwice, NoJunkWritten, NoJunkBeforeEot
<1> QED
  BY <1>2, <1>3, <1>4, <1>5 DEF Inv

(* What taking a datagram off the socket gives.                            *)
LEMMA TakenDatagram ==
    ASSUME Inv, e2s # <<>>
    PROVE  Head(e2s) \in ClientPacket /\ Tail(e2s) \in Seq(ClientPacket)
BY HeadTailProperties DEF Inv, StateTypeOK

(* A step that leaves the tables and the file alone keeps what is said of  *)
(* them.                                                                   *)
LEMMA FileKept ==
    ASSUME Inv, UNCHANGED <<allp, file, maxP>>, spc' = "listen" => spc = "listen"
    PROVE  (NoChunkTwice /\ NoJunkWritten /\ NoJunkBeforeEot)'
BY DEF Inv, NoChunkTwice, NoJunkWritten, NoJunkBeforeEot

(* A data packet, whether it completes the window or not.                  *)
LEMMA ReceiveDataInv ==
    ASSUME Inv, spc = "listen", NEW p \in ClientPacket, ReceiveData(p),
           e2s' \in Seq(ClientPacket)
    PROVE  Inv'
<1> DEFINE t == IF AnswersNow(p) THEN MarkLast(Acknowledged(p)) ELSE Acknowledged(p)
<1>1. maxW \in Nat /\ maxW # 0 /\ p.type = DATA
  BY InvSizes DEF ReceiveData
<1>2. WindowOK(maxW, Received(p), Acknowledged(p))
  BY <1>1, ReceivedWindow
<1>3. WindowOK(maxW, Received(p), t)
  BY <1>1, <1>2, MarkedWindow
<1>4. prev' \in AckRecord
  BY <1>1, AckForType DEF ReceiveData, Inv, StateTypeOK
<1>5. CASE AllDataReceived(p)
  <2>1. Write(Received(p), t, "listen")
    BY <1>5 DEF ReceiveData
  <2>2. \A i \in 1..maxW : Received(p)[i].ws = i
    BY <1>5 DEF AllDataReceived
  <2>3. UNCHANGED <<maxW, maxP, garbage>>
    BY DEF ReceiveData
  <2> HIDE DEF t
  <2> QED
    BY <1>1, <1>3, <1>4, <2>1, <2>2, <2>3, WriteKeeps
<1>6. CASE ~AllDataReceived(p)
  <2>1. /\ rec' = Received(p) /\ trn' = t
        /\ UNCHANGED <<spc, allp, file, maxW, maxP, garbage>>
    BY <1>6 DEF ReceiveData
  <2> HIDE DEF t
  <2>2. WindowOK(maxW, rec', trn')
    BY <1>3, <2>1
  <2>3. StateTypeOK'
    BY <1>4, <2>1, <2>2 DEF WindowOK, Inv, StateTypeOK
  <2>4. Sized'
    BY <1>1, <2>1 DEF Inv, Sized, Window, MaxPackets
  <2>5. (SlotsFilled /\ TablesAgree /\ WindowDistinct)'
    BY <2>1, <2>2 DEF WindowOK, SlotsFilled, TablesAgree, WindowDistinct
  <2> QED
    BY <2>1, <2>3, <2>4, <2>5, FileKept DEF Inv
<1> QED
  BY <1>5, <1>6

(* EOT writes the window it finds.                                         *)
LEMMA ReceiveEotInv ==
    ASSUME Inv, spc = "listen", NEW p \in ClientPacket, ReceiveEot(p),
           e2s' \in Seq(ClientPacket)
    PROVE  Inv'
<1>1. maxW \in Nat /\ maxW # 0
  BY InvSizes DEF ReceiveEot
<1>2. WindowOK(maxW, rec, MarkLast(trn))
  BY <1>1, InvWindow, MarkedWindow
<1>3. Write(rec, MarkLast(trn), "exited") /\ UNCHANGED <<prev, maxW, maxP, garbage>>
  BY DEF ReceiveEot
<1>4. prev' \in AckRecord
  BY <1>3 DEF Inv, StateTypeOK
<1> QED
  BY <1>1, <1>2, <1>3, <1>4, WriteKeeps

(* A packet before the first SYN ends the process and changes nothing.     *)
LEMMA ReceiveTooEarlyInv ==
    ASSUME Inv, NEW p \in ClientPacket, ReceiveTooEarly(p),
           e2s' \in Seq(ClientPacket)
    PROVE  Inv'
<1>1. /\ spc' = "aborted"
      /\ UNCHANGED <<prev, maxW, maxP, rec, trn, allp, file, garbage>>
  BY DEF ReceiveTooEarly
<1>2. StateTypeOK'
  BY <1>1 DEF Inv, StateTypeOK
<1>3. Sized'
  BY <1>1 DEF Inv, Sized, Window, MaxPackets
<1>4. (SlotsFilled /\ TablesAgree /\ WindowDistinct)'
  BY <1>1 DEF Inv, SlotsFilled, TablesAgree, WindowDistinct
<1> QED
  BY <1>1, <1>2, <1>3, <1>4, FileKept DEF Inv

(* Every SYN of the client leads to the same window and table size.        *)
LEMMA SynSizes ==
    ASSUME NEW p \in ClientPacket, ReceiveSyn(p)
    PROVE  maxW' = Window /\ maxP' = MaxPackets
BY DEF ClientPacket, ReceiveSyn, Window, MaxPackets

(* A SYN with a new sequence number empties the window and the table.      *)
LEMMA NewSynInv ==
    ASSUME Inv, spc = "listen", NEW p \in ClientPacket, ReceiveSyn(p),
           p.seq # prev.seq, e2s' \in Seq(ClientPacket)
    PROVE  Inv'
<1>1. maxW' = Window /\ maxP' = MaxPackets /\ maxW' \in Nat
  BY SynSizes, WindowFacts
<1>2. PICK left \in {Blank, Junk} :
         rec' = [i \in 1..maxW' |-> [ZeroSlot EXCEPT !.data = left]]
  BY DEF ReceiveSyn
<1>3. /\ prev' = SynAckFor(p, maxW')
      /\ trn' = [i \in 1..maxW' |-> ZeroAck]
      /\ allp' = [k \in 1..Len(allp) |-> ZeroSlot]
      /\ UNCHANGED <<spc, file, garbage>>
  BY DEF ReceiveSyn
<1>4. ZeroSlot \in Slot /\ ZeroAck \in AckRecord
      /\ ZeroSlot.data = Blank /\ ZeroAck.ws = 0
      /\ Blank # Junk
  BY FileAssumption DEF ZeroSlot, ZeroAck, Slot, AckRecord, Payload
<1>5. allp' \in Seq(Slot) /\ \A k \in 1..Len(allp') : allp'[k].data = Blank
  <2>1. Len(allp) \in Nat
    BY LenProperties DEF Inv, StateTypeOK
  <2> QED
    BY <1>3, <1>4, <2>1
<1>6. WindowOK(maxW', rec', trn')
  <2> DEFINE empty == [ZeroSlot EXCEPT !.data = left]
  <2>1. empty \in Slot /\ empty.seq = 0 /\ empty.ws = 0
    BY DEF ZeroSlot, Slot, Payload
  <2>2. rec' = [i \in 1..maxW' |-> empty]
    BY <1>2
  <2> HIDE DEF empty
  <2>3. rec' \in [1..maxW' -> Slot] /\ trn' \in [1..maxW' -> AckRecord]
    BY <1>3, <1>4, <2>1, <2>2
  <2>4. \A i \in 1..maxW' : rec'[i].seq = 0 /\ rec'[i].ws = 0 /\ trn'[i].ws = 0
    BY <1>3, <1>4, <2>1, <2>2
  <2> QED
    BY <2>3, <2>4 DEF WindowOK
<1>7. prev' \in AckRecord
  <2>1. p.ack \in Nat /\ p.seq + Window \in Nat /\ Window \in Nat
    BY WindowFacts DEF ClientPacket, Packet
  <2>2. garbage.last \in {0, 1} /\ garbage.re \in {0, 1}
    BY DEF Inv, StateTypeOK
  <2> QED
    BY <1>1, <1>3, <2>1, <2>2 DEF SynAckFor, AckRecord, SYNACK, Payload
<1>8. StateTypeOK'
  BY <1>1, <1>3, <1>5, <1>6, <1>7 DEF WindowOK, Inv, StateTypeOK
<1>9. Sized'
  BY <1>1 DEF Sized, Window, MaxPackets
<1>10. (SlotsFilled /\ TablesAgree /\ WindowDistinct)'
  BY <1>6 DEF WindowOK, SlotsFilled, TablesAgree, WindowDistinct
<1>11. NoChunkTwice'
  BY <1>5 DEF NoChunkTwice
<1>12. NoJunkWritten'
  BY <1>4, <1>5 DEF NoJunkWritten
<1>13. NoJunkBeforeEot'
  BY <1>3 DEF Inv, NoJunkBeforeEot
<1> QED
  BY <1>8, <1>9, <1>10, <1>11, <1>12, <1>13 DEF Inv

(* One whose number is that of the last acknowledgement leaves them as     *)
(* they are.  There was a SYN before it, so that the sizes stay as well.   *)
LEMMA OldSynInv ==
    ASSUME Inv, spc = "listen", NEW p \in ClientPacket, ReceiveSyn(p),
           p.seq = prev.seq, e2s' \in Seq(ClientPacket)
    PROVE  Inv'
<1>1. prev.seq # 0
  BY DEF ClientPacket
<1>2. maxW = Window /\ maxP = MaxPackets /\ maxW \in Nat
  BY <1>1, WindowFacts DEF Inv, Sized
<1>3. maxW' = maxW /\ maxP' = maxP
  BY <1>2, SynSizes
<1>4. /\ garbage' = [garbage EXCEPT !.re = 1]
      /\ prev' = [prev EXCEPT !.re = 1]
      /\ trn' = IF AnswersNow(p) THEN MarkLast(trn) ELSE trn
      /\ UNCHANGED <<rec, allp, spc, file>>
  BY DEF ReceiveSyn
<1>5. WindowOK(maxW', rec', trn')
  <2>1. WindowOK(maxW, rec, trn) /\ WindowOK(maxW, rec, MarkLast(trn))
    BY <1>2, InvWindow, MarkedWindow
  <2>2. trn' \in {trn, MarkLast(trn)}
    BY <1>4
  <2> QED
    BY <1>3, <1>4, <2>1, <2>2
<1>6. prev' \in AckRecord /\ garbage' \in [last : {0, 1}, re : {0, 1}]
  BY <1>4 DEF Inv, StateTypeOK, AckRecord
<1>7. StateTypeOK'
  BY <1>3, <1>4, <1>5, <1>6 DEF WindowOK, Inv, StateTypeOK
<1>8. Sized'
  BY <1>2, <1>3 DEF Sized, Window, MaxPackets
<1>9. (SlotsFilled /\ TablesAgree /\ WindowDistinct)'
  BY <1>5 DEF WindowOK, SlotsFilled, TablesAgree, WindowDistinct
<1> QED
  BY <1>3, <1>4, <1>7, <1>8, <1>9, FileKept DEF Inv

(* A timeout marks acknowledgements and repeats them.                      *)
LEMMA TimeoutInv ==
    ASSUME Inv, Timeout PROVE Inv'
<1>1. /\ prev' = prev \/ prev' = [prev EXCEPT !.re = 1]
      /\ UNCHANGED <<spc, maxW, maxP, rec, allp, file, garbage, e2s>>
  BY DEF Timeout
<1>2. \/ trn' = trn
      \/ trn' = [i \in 1..maxW |-> IF trn[i].ws = i
                                   THEN [trn[i] EXCEPT !.re = 1] ELSE trn[i]]
  BY DEF Timeout
<1>3. trn \in [1..maxW -> AckRecord] /\ maxW \in Nat
  BY InvSizes DEF Inv, StateTypeOK
<1>4. /\ trn' \in [1..maxW -> AckRecord]
      /\ \A i \in 1..maxW : trn'[i].ws = trn[i].ws /\ trn'[i].ack = trn[i].ack
  <2>1. CASE trn' = trn
    BY <1>3, <2>1
  <2>2. CASE trn' # trn
    <3>1. ASSUME NEW i \in 1..maxW
          PROVE  /\ trn'[i] \in AckRecord
                 /\ trn'[i].ws = trn[i].ws
                 /\ trn'[i].ack = trn[i].ack
      <4>1. trn[i] \in AckRecord
        BY <1>3
      <4>2. trn'[i] = IF trn[i].ws = i THEN [trn[i] EXCEPT !.re = 1] ELSE trn[i]
        BY <1>2, <2>2
      <4> QED
        BY <4>1, <4>2 DEF AckRecord
    <3>2. trn' = [i \in 1..maxW |-> trn'[i]]
      BY <1>2, <2>2
    <3> QED
      BY <3>1, <3>2
  <2> QED
    BY <2>1, <2>2
<1>5. prev' \in AckRecord /\ prev'.seq = prev.seq
  <2>1. prev \in AckRecord
    BY DEF Inv, StateTypeOK
  <2> QED
    BY <1>1, <2>1 DEF AckRecord
<1>6. StateTypeOK'
  BY <1>1, <1>4, <1>5 DEF Inv, StateTypeOK
<1>7. Sized'
  BY <1>1, <1>5 DEF Inv, Sized, Window, MaxPackets
<1>8. (SlotsFilled /\ TablesAgree /\ WindowDistinct)'
  BY <1>1, <1>4 DEF Inv, SlotsFilled, TablesAgree, WindowDistinct
<1> QED
  BY <1>1, <1>6, <1>7, <1>8, FileKept DEF Inv

(* A step that touches the sockets only.                                   *)
LEMMA QueuesOnly ==
    ASSUME Inv, UNCHANGED serverVars, e2s' \in Seq(ClientPacket) PROVE Inv'
<1>1. UNCHANGED <<spc, prev, maxW, maxP, rec, trn, allp, file, garbage>>
  BY DEF serverVars
<1>2. StateTypeOK'
  BY <1>1 DEF Inv, StateTypeOK
<1>3. Sized'
  BY <1>1 DEF Inv, Sized, Window, MaxPackets
<1>4. (SlotsFilled /\ TablesAgree /\ WindowDistinct)'
  BY <1>1 DEF Inv, SlotsFilled, TablesAgree, WindowDistinct
<1> QED
  BY <1>1, <1>2, <1>3, <1>4, FileKept DEF Inv

(* The invariant is inductive.                                             *)
LEMMA NextInv == Inv /\ [Next]_vars => Inv'
<1> SUFFICES ASSUME Inv, [Next]_vars PROVE Inv'
  OBVIOUS
<1>1. e2s \in Seq(ClientPacket)
  BY DEF Inv, StateTypeOK
<1>2. CASE Receive
  <2> DEFINE p == Head(e2s)
  <2>1. p \in ClientPacket /\ e2s' \in Seq(ClientPacket) /\ spc = "listen"
    BY <1>2, TakenDatagram DEF Receive
  <2>2. \/ ReceiveSyn(p) \/ ReceiveData(p)
        \/ ReceiveEot(p) \/ ReceiveTooEarly(p)
    BY <1>2 DEF Receive
  <2> HIDE DEF p
  <2>3. CASE ReceiveSyn(p)
    BY <2>1, <2>3, NewSynInv, OldSynInv
  <2>4. CASE ReceiveData(p)
    BY <2>1, <2>4, ReceiveDataInv
  <2>5. CASE ReceiveEot(p)
    BY <2>1, <2>5, ReceiveEotInv
  <2>6. CASE ReceiveTooEarly(p)
    BY <2>1, <2>6, ReceiveTooEarlyInv
  <2> QED
    BY <2>2, <2>3, <2>4, <2>5, <2>6
<1>3. CASE Timeout
  BY <1>3, TimeoutInv
<1>4. CASE Arrive
  <2>1. PICK q \in Inputs : e2s' = Put(e2s, <<q>>)
    BY <1>4 DEF Arrive
  <2>2. <<q>> \in Seq(ClientPacket)
    BY InputsAssumption
  <2>3. e2s' \in Seq(ClientPacket)
    BY <1>1, <2>1, <2>2, PutType
  <2> QED
    BY <1>4, <2>3, QueuesOnly DEF Arrive
<1>5. CASE Collect
  BY <1>1, <1>5, QueuesOnly DEF Collect
<1>6. CASE UNCHANGED vars
  BY <1>1, <1>6, QueuesOnly DEF vars
<1> QED
  BY <1>2, <1>3, <1>4, <1>5, <1>6 DEF Next, Step

-----------------------------------------------------------------------------
(***************************************************************************)
(* The theorems.                                                           *)
(***************************************************************************)
(* Whatever the network does to the packets of a client - loss, repetition,*)
(* reordering, a new SYN at any time - the tables, the file and the queue  *)
(* of the server satisfy the inductive invariant (server.c 68-311).        *)
THEOREM Invariant == Spec => []Inv
<1> QED
  BY InitInv, NextInv, PTL DEF Spec

(* Type correctness of the server's own state: every field holds what the  *)
(* code declares, both tables have max_window entries and the sizes are    *)
(* those of the file that is being received (server.c 96-97).              *)
THEOREM TypeCorrect == Spec => []StateTypeOK
<1>1. Inv => StateTypeOK
  BY DEF Inv
<1> QED
  BY <1>1, Invariant, PTL

(* The search for duplicates when a window is written (server.c 258-269)   *)
(* appends the text of a packet once, as long as the table has room.       *)
THEOREM NoChunkWrittenTwice == Spec => []NoChunkTwice
<1>1. Inv => NoChunkTwice
  BY DEF Inv
<1> QED
  BY <1>1, Invariant, PTL

(* A slot is acknowledged exactly when it is held, under the number it is  *)
(* held under (server.c 159-164).                                          *)
THEOREM AcknowledgedIsHeld == Spec => []TablesAgree
<1>1. Inv => TablesAgree
  BY DEF Inv
<1> QED
  BY <1>1, Invariant, PTL

(* No sequence number fills two slots of a window (server.c 147-153).      *)
THEOREM SlotsDiffer == Spec => []WindowDistinct
<1>1. Inv => WindowDistinct
  BY DEF Inv
<1> QED
  BY <1>1, Invariant, PTL

(* As long as the server runs, nothing is written that was not received    *)
(* (server.c 208-217): uninitialised memory needs EOT or an overrun.       *)
THEOREM NothingUninitialised == Spec => []NoJunkBeforeEot
<1>1. Inv => NoJunkBeforeEot
  BY DEF Inv
<1> QED
  BY <1>1, Invariant, PTL

=============================================================================
