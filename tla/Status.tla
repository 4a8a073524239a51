------------------------------- MODULE Status -------------------------------
(***************************************************************************)
(* The status service of network-status-db and the page of network-emulator*)
(* that asks it.  A request to tell of a loss becomes an entry of a        *)
(* collection in a database; the page, once loaded, asks for the collection*)
(* and draws the network as its last entry says.  Requests and answers of  *)
(* the database overlap.                                                   *)
(***************************************************************************)
EXTENDS Integers, Sequences

CONSTANTS
    Reports,    \* the POST requests
    Pages       \* the loadings of the page

VARIABLES
    up,         \* whether the service runs
    entries,    \* the collection, in the order of insertion
    doc,        \* what has become of the Entry a request is to save
    answer,     \* the answer to a POST request
    page,       \* where a page is, and what it shows in the end
    found       \* how many entries the page's query found; 0 if it failed

statusVars == <<up, entries, doc, answer, page, found>>

(* /packet_loss, /ack_loss, /no_loss                                       *)
Names == {"data", "ack", "stable"}

Init ==
    /\ up = TRUE
    /\ entries = <<>>
    /\ doc = [q \in Reports |-> "none"]
    /\ answer = [q \in Reports |-> "none"]
    /\ page = [v \in Pages |-> "closed"]
    /\ found = [v \in Pages |-> 0]

-----------------------------------------------------------------------------
(***************************************************************************)
(* Reports.  The three routes differ in the name they save.                *)
(***************************************************************************)
(* FAULTY: the route is saved instead of the name.                         *)
PostRoute(q) ==
    /\ up /\ doc[q] = "none" /\ answer[q] = "none"
    /\ \E route \in {"packet_loss", "ack_loss", "no_loss"} :
          doc' = [doc EXCEPT ![q] = route]
    /\ UNCHANGED <<up, entries, answer, page, found>>

Post(q) ==
    /\ doc[q] = "none" /\ answer[q] = "none"
    /\ IF up THEN /\ \E name \in Names : doc' = [doc EXCEPT ![q] = name]
                  /\ UNCHANGED answer
       ELSE answer' = [answer EXCEPT ![q] = "lost"] /\ UNCHANGED doc
    /\ UNCHANGED <<up, entries, page, found>>

(* The database inserts the document, or refuses it.                       *)
Insert(q) ==
    /\ doc[q] \in Names
    /\ entries' = Append(entries, [id |-> q, name |-> doc[q]])
    /\ doc' = [doc EXCEPT ![q] = "saved"]
    /\ UNCHANGED <<up, answer, page, found>>

Refuse(q) ==
    /\ doc[q] \in Names
    /\ doc' = [doc EXCEPT ![q] = "refused"]
    /\ UNCHANGED <<up, entries, answer, page, found>>

(* FAULTY: the answer does not wait for the save.                          *)
AnswerAtOnce(q) ==
    /\ up /\ answer[q] = "none"
    /\ doc[q] # "none"
    /\ answer' = [answer EXCEPT ![q] = IF doc[q] = "refused" THEN "bad" ELSE "ok"]
    /\ UNCHANGED <<up, entries, doc, page, found>>

AnswerPost(q) ==
    /\ up /\ answer[q] = "none"
    /\ doc[q] \in {"saved", "refused"}
    /\ answer' = [answer EXCEPT ![q] = IF doc[q] = "saved" THEN "ok" ELSE "bad"]
    /\ UNCHANGED <<up, entries, doc, page, found>>

-----------------------------------------------------------------------------
(***************************************************************************)
(* The page.                                                               *)
(***************************************************************************)
(* Without an answer of 200 the page stays empty: nothing catches it.      *)
Open(v) ==
    /\ page[v] = "closed"
    /\ page' = [page EXCEPT ![v] = IF up THEN "asking" ELSE "empty"]
    /\ UNCHANGED <<up, entries, doc, answer, found>>

Find(v) ==
    /\ up /\ page[v] = "asking"
    /\ found' \in {[found EXCEPT ![v] = n] : n \in {0, Len(entries)}}
    /\ page' = [page EXCEPT ![v] = "waiting"]
    /\ UNCHANGED <<up, entries, doc, answer>>

Shows(name) ==
    CASE name = "data" -> "DataLoss"
      [] name = "ack"  -> "AckLoss"
      [] OTHER         -> "Default"

(* FAULTY: the first entry instead of the last.                            *)
ShowsFirst(list) == Shows(list[1].name)

ShowsLast(list) == Shows(list[Len(list)].name)

AnswerWithEntries(v) ==
    /\ up /\ page[v] = "waiting" /\ found[v] > 0
    /\ page' = [page EXCEPT ![v] = ShowsLast(SubSeq(entries, 1, found[v]))]
    /\ UNCHANGED <<up, entries, doc, answer, found>>

(* FAULTY: nothing is answered.                                            *)
AnswerNothing(v) == FALSE

(* Nothing found: 404, and then, the handler going on, a second answer,    *)
(* which throws.  That is outside the handler's promise: the process may   *)
(* end by it, and with it every request it has not answered.               *)
AnswerEmpty(v) ==
    /\ up /\ page[v] = "waiting" /\ found[v] = 0
    /\ \/ /\ page' = [page EXCEPT ![v] = "empty"]
          /\ UNCHANGED <<up, answer>>
       \/ /\ up' = FALSE
          /\ page' = [w \in Pages |->
                IF page[w] \in {"asking", "waiting"} THEN "empty" ELSE page[w]]
          /\ answer' = [q \in Reports |->
                IF doc[q] # "none" /\ answer[q] = "none" THEN "lost" ELSE answer[q]]
    /\ UNCHANGED <<entries, doc, found>>

(* Somebody starts it again.                                               *)
Restart ==
    /\ ~up
    /\ up' = TRUE
    /\ UNCHANGED <<entries, doc, answer, page, found>>

Next ==
    \/ \E q \in Reports : Post(q) \/ Insert(q) \/ Refuse(q) \/ AnswerPost(q)
    \/ \E v \in Pages : Open(v) \/ Find(v) \/ AnswerWithEntries(v) \/ AnswerEmpty(v)
    \/ Restart

(* The service and the database get on with what they have begun.          *)
Fairness ==
    /\ \A q \in Reports : WF_statusVars(Insert(q) \/ Refuse(q))
    /\ \A q \in Reports : WF_statusVars(AnswerPost(q))
    /\ \A v \in Pages :
          WF_statusVars(Find(v) \/ AnswerWithEntries(v) \/ AnswerEmpty(v))

Spec == Init /\ [][Next]_statusVars /\ Fairness

-----------------------------------------------------------------------------
(* Every request and every page is in one of the states named above, and   *)
(* no query found more entries than there are.                             *)
TypeOK ==
    /\ up \in BOOLEAN
    /\ entries \in Seq([id : Reports, name : Names])
    /\ doc \in [Reports -> Names \cup {"none", "saved", "refused"}]
    /\ answer \in [Reports -> {"none", "ok", "bad", "lost"}]
    /\ page \in [Pages -> {"closed", "asking", "waiting", "empty",
                           "DataLoss", "AckLoss", "Default"}]
    /\ found \in [Pages -> 0..Len(entries)]

(* What was answered with 200 is in the collection, and a report is there  *)
(* once at most, whatever becomes of the service (network_handler.js 63).  *)
ReportsKept ==
    /\ \A q \in Reports :
          answer[q] = "ok" => \E k \in 1..Len(entries) : entries[k].id = q
    /\ \A j, k \in 1..Len(entries) : entries[j].id = entries[k].id => j = k

(* An entry is there exactly for the documents that were saved, and no     *)
(* answer of 200 precedes its document (network_handler.js 62-64).         *)
Inv ==
    /\ TypeOK
    /\ ReportsKept
    /\ \A q \in Reports :
          /\ doc[q] = "saved" <=> \E k \in 1..Len(entries) : entries[k].id = q
          /\ answer[q] = "ok" => doc[q] = "saved"

(* Every request is answered or lost with the service, and every page that *)
(* is opened comes to show something or stays empty for good: the answer   *)
(* of 404 is the answer (network_handler.js 48).                           *)
AllAnswered ==
    /\ \A v \in Pages : page[v] = "asking" ~> page[v] \notin {"asking", "waiting"}
    /\ \A q \in Reports : doc[q] # "none" ~> answer[q] # "none"

=============================================================================
