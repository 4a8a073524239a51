------------------------------ MODULE MCStatus ------------------------------
(* The status service with a few requests.  A history notes, for each page,*)
(* which reports had been answered when it was opened.                     *)
EXTENDS Status

VARIABLE known

MCvars == <<statusVars, known>>

MCInit == Init /\ known = [v \in Pages |-> {}]

Note ==
    known' = [v \in Pages |->
                 IF page[v] = "closed" /\ page'[v] # "closed"
                 THEN {q \in Reports : answer[q] = "ok"} ELSE known[v]]

MCSpec == MCInit /\ [][Next /\ Note]_MCvars /\ Fairness

(* A page is as fresh as what its user may know: it shows no state of the  *)
(* network older than a report that was answered before the page was       *)
(* opened (App.js 38, network_handler.js 46, 63).                          *)
FreshPage ==
    \A v \in Pages : page[v] \in {"DataLoss", "AckLoss", "Default"} =>
        \E k \in 1..Len(entries) :
            /\ page[v] = Shows(entries[k].name)
            /\ \A q \in known[v] : \E j \in 1..k : entries[j].id = q

(* Why: what a user knows of was answered with 200, hence inserted, before *)
(* his page asked, and his page found it (network_handler.js 38-46, 63).   *)
KnownFound ==
    /\ known \in [Pages -> SUBSET Reports]
    /\ \A v \in Pages : \A q \in known[v] : answer[q] = "ok"
    /\ \A v \in Pages : page[v] = "waiting" /\ found[v] > 0 =>
          \A q \in known[v] : \E j \in 1..found[v] : entries[j].id = q

=============================================================================
