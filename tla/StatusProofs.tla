---------------------------- MODULE StatusProofs ----------------------------
(***************************************************************************)
(* The status service keeps every report it has confirmed, once, whatever  *)
(* the requests, the pages and the crashes of the service, and no page is  *)
(* older than what its user knows.                                         *)
(***************************************************************************)
EXTENDS MCStatus, TLAPS

Entry == [id : Reports, name : Names]

THEOREM InitInv == Init => Inv
<1> SUFFICES ASSUME Init PROVE Inv
  OBVIOUS
<1>1. TypeOK
  BY DEF Init, TypeOK
<1>2. Len(entries) = 0
  BY DEF Init
<1> QED
  BY <1>1, <1>2 DEF Init, Inv, ReportsKept

(* A document is inserted: its entry is the only one with its identity.    *)
LEMMA InsertKeeps ==
    ASSUME Inv, NEW q \in Reports, Insert(q)
    PROVE  Inv'
<1> DEFINE e == [id |-> q, name |-> doc[q]]
<1>1. /\ entries \in Seq(Entry) /\ doc[q] \in Names /\ e \in Entry
      /\ entries' = Append(entries, e)
      /\ doc' = [doc EXCEPT ![q] = "saved"]
      /\ UNCHANGED <<up, answer, page, found>>
  BY DEF Inv, TypeOK, Insert, Entry
<1>2. /\ Len(entries) \in Nat
      /\ Len(entries') = Len(entries) + 1
      /\ entries'[Len(entries')] = e
      /\ \A k \in 1..Len(entries) : entries'[k] = entries[k]
      /\ entries' \in Seq(Entry)
  BY <1>1
<1>3. doc[q] # "saved"
  BY <1>1 DEF Names
<1>4. \A k \in 1..Len(entries) : entries[k].id # q
  BY <1>3 DEF Inv
<1>5. TypeOK'
  BY <1>1, <1>2 DEF Inv, TypeOK, Entry
<1>6. \A j, k \in 1..Len(entries') : entries'[j].id = entries'[k].id => j = k
  BY <1>1, <1>2, <1>4 DEF Inv, ReportsKept
<1>7. ASSUME NEW p \in Reports
      PROVE  /\ (doc[p] = "saved" <=> \E k \in 1..Len(entries) : entries[k].id = p)'
             /\ (answer[p] = "ok" => doc[p] = "saved")'
  <2>1. doc'[p] = IF p = q THEN "saved" ELSE doc[p]
    BY <1>1 DEF Inv, TypeOK
  <2>2. (\E k \in 1..Len(entries') : entries'[k].id = p)
           <=> p = q \/ \E k \in 1..Len(entries) : entries[k].id = p
    <3>1. e.id = q
      OBVIOUS
    <3> QED
      BY <1>2, <3>1
  <2> QED
    BY <1>1, <2>1, <2>2 DEF Inv
<1>8. ReportsKept'
  BY <1>6, <1>7 DEF ReportsKept
<1> QED
  BY <1>5, <1>7, <1>8 DEF Inv

(* Nothing else touches the collection.                                    *)
LEMMA OthersKeep ==
    ASSUME Inv, UNCHANGED entries, TypeOK',
           \A q \in Reports : doc'[q] = "saved" <=> doc[q] = "saved",
           \A q \in Reports : answer'[q] = "ok" => doc[q] = "saved"
    PROVE  Inv'
<1>1. ReportsKept'
  BY DEF Inv, ReportsKept
<1> QED
  BY <1>1 DEF Inv

THEOREM NextInv == Inv /\ [Next]_statusVars => Inv'
<1> SUFFICES ASSUME Inv, [Next]_statusVars PROVE Inv'
  OBVIOUS
<1> USE DEF Inv
<1>1. ASSUME NEW q \in Reports, Post(q) PROVE Inv'
  <2>1. TypeOK'
    BY <1>1 DEF TypeOK, Post
  <2> QED
    BY <1>1, <2>1, OthersKeep DEF Post, TypeOK, Names
<1>2. ASSUME NEW q \in Reports, Insert(q) PROVE Inv'
  BY <1>2, InsertKeeps
<1>3. ASSUME NEW q \in Reports, Refuse(q) PROVE Inv'
  <2>1. TypeOK'
    BY <1>3 DEF TypeOK, Refuse
  <2> QED
    BY <1>3, <2>1, OthersKeep DEF Refuse, TypeOK, Names
<1>4. ASSUME NEW q \in Reports, AnswerPost(q) PROVE Inv'
  <2>1. TypeOK'
    BY <1>4 DEF TypeOK, AnswerPost
  <2> QED
    BY <1>4, <2>1, OthersKeep DEF AnswerPost, TypeOK
<1>5. ASSUME NEW v \in Pages, Open(v) PROVE Inv'
  <2>1. TypeOK'
    BY <1>5 DEF TypeOK, Open
  <2> QED
    BY <1>5, <2>1, OthersKeep DEF Open
<1>10. ASSUME NEW v \in Pages, Find(v) PROVE Inv'
  <2>1. Len(entries) \in Nat
    BY DEF TypeOK
  <2>2. PICK n \in {0, Len(entries)} : found' = [found EXCEPT ![v] = n]
    BY <1>10 DEF Find
  <2>3. found' \in [Pages -> 0..Len(entries)]
    BY <2>1, <2>2 DEF TypeOK
  <2>4. TypeOK'
    BY <1>10, <2>3 DEF TypeOK, Find
  <2> QED
    BY <1>10, <2>4, OthersKeep DEF Find
<1>6. ASSUME NEW v \in Pages, AnswerWithEntries(v) PROVE Inv'
  <2>1. \A list : ShowsLast(list) \in {"DataLoss", "AckLoss", "Default"}
    BY DEF ShowsLast, Shows
  <2>2. TypeOK'
    BY <1>6, <2>1 DEF TypeOK, AnswerWithEntries
  <2> QED
    BY <1>6, <2>2, OthersKeep DEF AnswerWithEntries
<1>7. ASSUME NEW v \in Pages, AnswerEmpty(v) PROVE Inv'
  <2> DEFINE States == {"closed", "asking", "waiting", "empty",
                        "DataLoss", "AckLoss", "Default"}
             Answers == {"none", "ok", "bad", "lost"}
  <2>0. page \in [Pages -> States] /\ answer \in [Reports -> Answers]
    BY DEF TypeOK
  <2>1. /\ UNCHANGED <<entries, doc, found>>
        /\ page' \in [Pages -> States]
        /\ answer' \in [Reports -> Answers]
        /\ \A q \in Reports : answer'[q] = "ok" => answer[q] = "ok"
    <3>1. CASE page' = [page EXCEPT ![v] = "empty"] /\ UNCHANGED <<up, answer>>
      BY <1>7, <2>0, <3>1 DEF AnswerEmpty
    <3>2. CASE ~(page' = [page EXCEPT ![v] = "empty"] /\ UNCHANGED <<up, answer>>)
      <4>1. /\ page' = [w \in Pages |->
                  IF page[w] \in {"asking", "waiting"} THEN "empty" ELSE page[w]]
            /\ answer' = [q \in Reports |->
                  IF doc[q] # "none" /\ answer[q] = "none" THEN "lost" ELSE answer[q]]
            /\ UNCHANGED <<entries, doc, found>>
        BY <1>7, <3>2 DEF AnswerEmpty
      <4> QED
        BY <2>0, <4>1
    <3> QED
      BY <3>1, <3>2
  <2>2. up' \in BOOLEAN
    BY <1>7 DEF TypeOK, AnswerEmpty
  <2>3. TypeOK'
    BY <2>1, <2>2 DEF TypeOK
  <2> QED
    BY <2>1, <2>3, OthersKeep
<1>8. CASE Restart
  <2>1. TypeOK'
    BY <1>8 DEF TypeOK, Restart
  <2> QED
    BY <1>8, <2>1, OthersKeep DEF Restart
<1>9. CASE UNCHANGED statusVars
  BY <1>9 DEF statusVars, TypeOK, ReportsKept
<1> QED
  BY <1>1, <1>2, <1>3, <1>4, <1>5, <1>6, <1>7, <1>8, <1>9, <1>10
     DEF Next

(* The invariant of the status service (network_handler.js 55-93).         *)
THEOREM StatusInvariant == Spec => []Inv
  BY InitInv, NextInv, PTL DEF Spec

(* A report that was confirmed is in the collection, once.                 *)
THEOREM ConfirmedIsKept == Spec => []ReportsKept
<1>1. Inv => ReportsKept
  BY DEF Inv
<1> QED
  BY <1>1, StatusInvariant, PTL

(* The states of requests and pages, whatever the database does with them  *)
(* (network_handler.js 38-93).                                             *)
THEOREM StatusTypes == Spec => []TypeOK
<1>1. Inv => TypeOK
  BY DEF Inv
<1> QED
  BY <1>1, StatusInvariant, PTL

-----------------------------------------------------------------------------
(***************************************************************************)
(* The freshness of the page.                                              *)
(***************************************************************************)
(* The collection only grows, and at its end.                              *)
LEMMA CollectionGrows ==
    ASSUME Inv, [Next]_statusVars
    PROVE  /\ Len(entries) \in Nat /\ Len(entries') \in Nat
           /\ Len(entries) <= Len(entries')
           /\ \A k \in 1..Len(entries) : entries'[k] = entries[k]
<1>1. entries \in Seq(Entry)
  BY DEF Inv, TypeOK, Entry
<1>2. \/ UNCHANGED entries
      \/ \E q \in Reports : Insert(q)
  BY DEF Next, statusVars, Post, Refuse, AnswerPost, Open, Find,
         AnswerWithEntries, AnswerEmpty, Restart
<1>3. CASE UNCHANGED entries
  BY <1>1, <1>3
<1>4. ASSUME NEW q \in Reports, Insert(q)
      PROVE  /\ Len(entries) \in Nat /\ Len(entries') \in Nat
             /\ Len(entries) <= Len(entries')
             /\ \A k \in 1..Len(entries) : entries'[k] = entries[k]
  <2>1. /\ [id |-> q, name |-> doc[q]] \in Entry
        /\ entries' = Append(entries, [id |-> q, name |-> doc[q]])
    BY <1>4 DEF Insert, Entry
  <2> QED
    BY <1>1, <2>1
<1> QED
  BY <1>2, <1>3, <1>4

(* An answer of 200 is the last word.                                      *)
LEMMA ConfirmedStays ==
    ASSUME Inv, [Next]_statusVars, NEW q \in Reports, answer[q] = "ok"
    PROVE  answer'[q] = "ok"
<1>1. answer \in [Reports -> {"none", "ok", "bad", "lost"}]
  BY DEF Inv, TypeOK
<1>2. ASSUME NEW p \in Reports, Post(p) PROVE answer'[q] = "ok"
  BY <1>1, <1>2 DEF Post
<1>3. ASSUME NEW p \in Reports, AnswerPost(p) PROVE answer'[q] = "ok"
  BY <1>1, <1>3 DEF AnswerPost
<1>4. ASSUME NEW v \in Pages, AnswerEmpty(v) PROVE answer'[q] = "ok"
  BY <1>1, <1>4 DEF AnswerEmpty
<1>5. ASSUME UNCHANGED answer PROVE answer'[q] = "ok"
  BY <1>5
<1> QED
  BY <1>2, <1>3, <1>4, <1>5
     DEF Next, statusVars, Insert, Refuse, Open, Find, AnswerWithEntries, Restart

(* What a page shows after a step it showed before, unless this step       *)
(* answered its query; and what it waits with it either waited with, or it *)
(* has just been found.                                                    *)
LEMMA PageSteps ==
    ASSUME Inv, [Next]_statusVars, NEW v \in Pages
    PROVE  /\ page'[v] \in {"DataLoss", "AckLoss", "Default"} =>
                \/ page'[v] = page[v]
                \/ /\ page[v] = "waiting" /\ found[v] > 0
                   /\ page'[v] = ShowsLast(SubSeq(entries, 1, found[v]))
           /\ page'[v] = "waiting" =>
                \/ page[v] = "waiting" /\ found'[v] = found[v]
                \/ /\ page[v] = "asking" /\ UNCHANGED entries
                   /\ found'[v] \in {0, Len(entries)}
<1> DEFINE Shown == page'[v] \in {"DataLoss", "AckLoss", "Default"} =>
                \/ page'[v] = page[v]
                \/ /\ page[v] = "waiting" /\ found[v] > 0
                   /\ page'[v] = ShowsLast(SubSeq(entries, 1, found[v]))
           Waits == page'[v] = "waiting" =>
                \/ page[v] = "waiting" /\ found'[v] = found[v]
                \/ /\ page[v] = "asking" /\ UNCHANGED entries
                   /\ found'[v] \in {0, Len(entries)}
<1>1. /\ page \in [Pages -> {"closed", "asking", "waiting", "empty",
                             "DataLoss", "AckLoss", "Default"}]
      /\ found \in [Pages -> 0..Len(entries)]
  BY DEF Inv, TypeOK
<1>2. ASSUME NEW w \in Pages, Open(w) PROVE Shown /\ Waits
  BY <1>1, <1>2 DEF Open
<1>3. ASSUME NEW w \in Pages, Find(w) PROVE Shown /\ Waits
  <2>1. PICK n \in {0, Len(entries)} : found' = [found EXCEPT ![w] = n]
    BY <1>3 DEF Find
  <2>2. /\ page[w] = "asking" /\ UNCHANGED entries
        /\ page' = [page EXCEPT ![w] = "waiting"]
    BY <1>3 DEF Find
  <2> QED
    BY <1>1, <2>1, <2>2
<1>4. ASSUME NEW w \in Pages, AnswerWithEntries(w) PROVE Shown /\ Waits
  <2>1. ShowsLast(SubSeq(entries, 1, found[w])) \in {"DataLoss", "AckLoss", "Default"}
    BY DEF ShowsLast, Shows
  <2>2. /\ page[w] = "waiting" /\ found[w] > 0 /\ UNCHANGED found
        /\ page' = [page EXCEPT ![w] = ShowsLast(SubSeq(entries, 1, found[w]))]
    BY <1>4 DEF AnswerWithEntries
  <2> HIDE DEF Shown, Waits
  <2>3. CASE v = w
    BY <1>1, <2>1, <2>2, <2>3 DEF Shown, Waits
  <2>4. CASE v # w
    BY <1>1, <2>2, <2>4 DEF Shown, Waits
  <2> QED
    BY <2>3, <2>4
<1>5. ASSUME NEW w \in Pages, AnswerEmpty(w) PROVE Shown /\ Waits
  BY <1>1, <1>5 DEF AnswerEmpty
<1>6. ASSUME UNCHANGED <<page, found>> PROVE Shown /\ Waits
  BY <1>1, <1>6
<1> QED
  BY <1>2, <1>3, <1>4, <1>5, <1>6
     DEF Next, statusVars, Post, Insert, Refuse, AnswerPost, Restart

(* The collection a page has found holds all that its user knew of.        *)
LEMMA NextKnownFound ==
    ASSUME Inv, Inv', KnownFound, [Next /\ Note]_MCvars
    PROVE  KnownFound'
<1>1. CASE UNCHANGED MCvars
  BY <1>1 DEF MCvars, statusVars, KnownFound
<1>2. CASE Next /\ Note
  <2>1. /\ known' \in [Pages -> SUBSET Reports]
        /\ \A v \in Pages :
              known'[v] = IF page[v] = "closed" /\ page'[v] # "closed"
                          THEN {q \in Reports : answer[q] = "ok"} ELSE known[v]
    BY <1>2 DEF Note, KnownFound
  <2>2. \A v \in Pages : \A q \in known'[v] : q \in Reports /\ answer[q] = "ok"
    BY <2>1 DEF KnownFound
  <2>3. \A v \in Pages : \A q \in known'[v] : answer'[q] = "ok"
    BY <1>2, <2>2, ConfirmedStays
  <2>4. ASSUME NEW v \in Pages, page'[v] = "waiting", found'[v] > 0,
               NEW q \in known'[v]
        PROVE  \E j \in 1..found'[v] : entries'[j].id = q
    <3>1. CASE page[v] = "waiting" /\ found'[v] = found[v]
      <4>1. q \in known[v] /\ found[v] \in 0..Len(entries)
        BY <2>1, <2>4, <3>1 DEF Inv, TypeOK
      <4>2. PICK j \in 1..found[v] : entries[j].id = q
        BY <2>4, <3>1, <4>1 DEF KnownFound
      <4>3. j \in 1..Len(entries) /\ entries'[j] = entries[j]
        BY <1>2, <4>1, <4>2, CollectionGrows
      <4> QED
        BY <3>1, <4>2, <4>3
    <3>2. CASE /\ page[v] = "asking" /\ UNCHANGED entries
               /\ found'[v] \in {0, Len(entries)}
      <4>1. found'[v] = Len(entries)
        BY <2>4, <3>2
      <4>2. \E j \in 1..Len(entries) : entries[j].id = q
        BY <2>2, <2>4 DEF Inv, ReportsKept
      <4> QED
        BY <3>2, <4>1, <4>2
    <3> QED
      BY <1>2, <2>4, <3>1, <3>2, PageSteps
  <2> QED
    BY <2>1, <2>3, <2>4 DEF KnownFound
<1> QED
  BY <1>1, <1>2

(* What is shown is the last of what was found, or was shown before.       *)
LEMMA NextFresh ==
    ASSUME Inv, Inv', KnownFound, FreshPage, [Next /\ Note]_MCvars
    PROVE  FreshPage'
<1>1. CASE UNCHANGED MCvars
  BY <1>1 DEF MCvars, statusVars, FreshPage
<1>2. CASE Next /\ Note
  <2> SUFFICES ASSUME NEW v \in Pages, page'[v] \in {"DataLoss", "AckLoss", "Default"}
               PROVE  \E k \in 1..Len(entries') :
                          /\ page'[v] = Shows(entries'[k].name)
                          /\ \A q \in known'[v] : \E j \in 1..k : entries'[j].id = q
    BY DEF FreshPage
  <2>1. /\ Len(entries) \in Nat /\ Len(entries') \in Nat
        /\ Len(entries) <= Len(entries')
        /\ \A k \in 1..Len(entries) : entries'[k] = entries[k]
    BY <1>2, CollectionGrows
  <2>2. SUFFICES \E k \in 1..Len(entries) :
                    /\ page'[v] = Shows(entries[k].name)
                    /\ \A q \in known[v] : \E j \in 1..k : entries[j].id = q
    <3>1. page[v] # "closed"
      BY <1>2, PageSteps
    <3>2. known'[v] = known[v]
      BY <1>2, <3>1 DEF Note
    <3>3. PICK k \in 1..Len(entries) :
                    /\ page'[v] = Shows(entries[k].name)
                    /\ \A q \in known[v] : \E j \in 1..k : entries[j].id = q
      BY <2>2
    <3>4. k \in 1..Len(entries') /\ page'[v] = Shows(entries'[k].name)
      BY <2>1, <3>3
    <3>5. \A q \in known'[v] : \E j \in 1..k : entries'[j].id = q
      BY <2>1, <3>2, <3>3
    <3> QED
      BY <3>4, <3>5
  <2>3. CASE page'[v] = page[v]
    BY <2>3 DEF FreshPage
  <2>4. CASE /\ page[v] = "waiting" /\ found[v] > 0
             /\ page'[v] = ShowsLast(SubSeq(entries, 1, found[v]))
    <3>1. found[v] \in 1..Len(entries) /\ entries \in Seq(Entry)
      BY <2>4 DEF Inv, TypeOK, Entry
    <3> DEFINE list == SubSeq(entries, 1, found[v])
    <3>2. Len(list) = found[v] /\ list[found[v]] = entries[found[v]]
      BY <3>1
    <3>3. page'[v] = Shows(entries[found[v]].name)
      BY <2>4, <3>2 DEF ShowsLast
    <3>4. \A q \in known[v] : \E j \in 1..found[v] : entries[j].id = q
      BY <2>4 DEF KnownFound
    <3> QED
      BY <3>1, <3>3, <3>4
  <2> QED
    BY <1>2, <2>3, <2>4, PageSteps
<1> QED
  BY <1>1, <1>2

LEMMA AlwaysSound == MCSpec => []Inv
<1>1. MCInit => Inv
  BY InitInv DEF MCInit
<1>2. Inv /\ [Next /\ Note]_MCvars => Inv'
  <2>1. [Next /\ Note]_MCvars => [Next]_statusVars
    BY DEF MCvars
  <2> QED
    BY <2>1, NextInv
<1> QED
  BY <1>1, <1>2, PTL DEF MCSpec

(* A report that was answered before a page was opened is among those that *)
(* its query has found, however the saves of other reports and the ends of *)
(* the service fall between (network_handler.js 38-46, 63).                *)
THEOREM KnownIsFound == MCSpec => []KnownFound
<1>1. MCInit => KnownFound
  BY DEF MCInit, Init, KnownFound
<1>2. Inv /\ Inv' /\ KnownFound /\ [Next /\ Note]_MCvars => KnownFound'
  BY NextKnownFound
<1> QED
  BY <1>1, <1>2, AlwaysSound, PTL DEF MCSpec

(* A page, once it shows the network, shows it no older than its user may  *)
(* know it to be, however requests, saves and queries overlap and however  *)
(* often the service ends (App.js 38, network_handler.js 38-66).           *)
THEOREM PageIsFresh == MCSpec => []FreshPage
<1>1. MCInit => FreshPage
  BY DEF MCInit, Init, FreshPage
<1>2. /\ Inv /\ Inv' /\ KnownFound /\ FreshPage /\ [Next /\ Note]_MCvars
      => FreshPage'
  BY NextFresh
<1> QED
  BY <1>1, <1>2, AlwaysSound, KnownIsFound, PTL DEF MCSpec

=============================================================================
