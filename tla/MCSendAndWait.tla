--------------------------- MODULE MCSendAndWait ---------------------------
(* The three programs on small files, with their history and a count of the*)
(* timeouts.                                                               *)
EXTENDS Undisturbed

CONSTANTS c1, c2, c3,
          MaxTimeouts,  \* bound on the timeouts of a run
          MaxRows       \* bound on write_count, as in MCServer

VARIABLE timeouts

MCvars == <<historyVars, timeouts>>

MCFile2 == <<c1, c2>>
MCFile3 == <<c1, c2, c3>>
MCFileRepeating == <<c1, c2, c2, c2, c3, c1, c3>>

Today == {[client |-> "client", emulator |-> "emulator"]}
ClientBefore == {[client |-> "client copy", emulator |-> "emulator"]}
EmulatorBefore == {[client |-> "client", emulator |-> "stable"]}
AllVersions == [client : {"client", "client copy"},
                emulator : {"emulator", "original", "stable"}]

MCInit == HistoryInit /\ timeouts = 0

(* The earlier client, which from its first timeout on resends a window    *)
(* for every datagram, is given one timeout less.                          *)
Patience == IF version.client = "client" THEN MaxTimeouts ELSE MaxTimeouts - 1

BoundedNext ==
    /\ \/ SomeStep /\ UNCHANGED timeouts
       \/ SomeTimeout /\ timeouts < Patience /\ timeouts' = timeouts + 1
    /\ Len(allp') <= MaxRows
    /\ Note

BoundedSpec == MCInit /\ [][BoundedNext]_MCvars

(* Without the bound, and with fairness.                                   *)
LiveSpec ==
    MCInit /\ [][SystemNext /\ UNCHANGED <<timeouts, taken, lucky>>]_MCvars /\ Fairness

-----------------------------------------------------------------------------
(* Every datagram the client sends for this file: what module Server calls *)
(* Inputs.                                                                 *)
ClientSends ==
    LET number(k) == 100 + (k + 1) * Window
        flags == {0, 1}
        numbered(k) ==
            {[type |-> DATA, seq |-> number(k), ack |-> (k + 1) * Window,
              ws |-> w, data |-> d, last |-> f, re |-> g] :
                 w \in 1..Window, d \in {File[k + 1], Blank}, f \in flags, g \in flags}
    IN  {[type |-> SYN, seq |-> 100, ack |-> 200, ws |-> TotalPacketCount,
          data |-> Blank, last |-> f, re |-> g] : f \in flags, g \in flags}
        \cup UNION {numbered(k) : k \in 0..TotalPacketCount - 1}
        \cup {[type |-> EOT, seq |-> number(TotalPacketCount), ack |-> 0,
               ws |-> w, data |-> Blank, last |-> 1, re |-> g] :
                 w \in 1..Window, g \in flags}

=============================================================================
