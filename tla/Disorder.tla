------------------------------ MODULE Disorder ------------------------------
(***************************************************************************)
(* The three programs between hosts.  Module SendAndWait takes every hop   *)
(* for a FIFO, as it is on one host or one cable.  UDP promises less: here *)
(* a datagram may go astray on any hop and arrive there later, behind what *)
(* was sent after it, and it may arrive twice.  What NoEarlyData,          *)
(* HandshakeAgreed and NoFalseAck say holds all the same; NoLateSyn,       *)
(* RacInBounds and NothingWithdrawn need the FIFOs.                        *)
(***************************************************************************)
EXTENDS SystemHistory

VARIABLE stray    \* the datagrams astray: [at |-> the hop, packet |-> the datagram]

disorderVars == <<historyVars, stray>>

Seqs == INSTANCE SequencesExt

(* Datagram k of the hop queue, whose next value is next, goes astray; or  *)
(* a second one like it does.                                              *)
Strays(at, queue, next) ==
    \E k \in 1..Len(queue) :
        /\ next \in {queue, Seqs!RemoveAt(queue, k)}
        /\ stray' = stray \cup {[at |-> at, packet |-> queue[k]]}

(* ... and one that is astray on that hop arrives.                         *)
Arrives(at, queue, next) ==
    \E s \in stray : /\ s.at = at
                     /\ next = Put(queue, <<s.packet>>)
                     /\ stray' = stray \ {s}

Disturbs(A(_, _, _)) ==
    /\ \/ A("c2e", c2e, c2e') /\ UNCHANGED <<e2s, s2e, e2c>>
       \/ A("e2s", e2s, e2s') /\ UNCHANGED <<c2e, s2e, e2c>>
       \/ A("s2e", s2e, s2e') /\ UNCHANGED <<c2e, e2s, e2c>>
       \/ A("e2c", e2c, e2c') /\ UNCHANGED <<c2e, e2s, s2e>>
    /\ UNCHANGED <<clientVars, emulatorVars, serverVars, version, taken, lucky>>

Stray == Disturbs(Strays)
Arrival == Disturbs(Arrives)

=============================================================================
