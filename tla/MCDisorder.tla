----------------------------- MODULE MCDisorder -----------------------------
(* The three programs on small files over a network that reorders and      *)
(* repeats.                                                                *)
EXTENDS Disorder

CONSTANTS c1, c2, c3,
          MaxTimeouts,  \* bound on the timeouts of a run
          MaxStrays,    \* bound on the datagrams that go astray in a run
          MaxRows       \* bound on write_count

VARIABLES timeouts, strays

MCvars == <<disorderVars, timeouts, strays>>

MCFile3 == <<c1, c2, c3>>

Today == {[client |-> "client", emulator |-> "emulator"]}

MCInit == HistoryInit /\ stray = {} /\ timeouts = 0 /\ strays = 0

BoundedNext ==
    /\ \/ SomeStep /\ Note /\ UNCHANGED <<stray, timeouts, strays>>
       \/ /\ SomeTimeout /\ Note /\ timeouts < MaxTimeouts
          /\ timeouts' = timeouts + 1
          /\ UNCHANGED <<stray, strays>>
       \/ /\ Stray /\ strays < MaxStrays
          /\ strays' = strays + 1
          /\ UNCHANGED timeouts
       \/ Arrival /\ UNCHANGED <<timeouts, strays>>
    /\ Len(allp') <= MaxRows

BoundedSpec == MCInit /\ [][BoundedNext]_MCvars

=============================================================================
