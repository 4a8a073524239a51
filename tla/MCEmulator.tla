----------------------------- MODULE MCEmulator -----------------------------
(* The emulator alone, between a client and a server that send and collect *)
(* whatever packets they like, whenever they like.                         *)
EXTENDS Emulator

CONSTANTS c1,
          MaxWaiting   \* bound on the packets that wait for the emulator

MCFile == <<c1>>

Kind(type, ws, last, re) ==
    [type |-> type, seq |-> 1, ack |-> 1, ws |-> ws, data |-> Blank,
     last |-> last, re |-> re]

(* The SYN of an empty file has a WindowSize of 0.                         *)
MCFromBelow ==
    {Kind(SYN, ws, 0, re) : ws \in {0, 1}, re \in {0, 1}}
    \cup {Kind(DATA, 1, last, re) : last \in {0, 1}, re \in {0, 1}}
    \cup {Kind(EOT, 1, 1, 0)}

MCFromAbove ==
    {Kind(SYNACK, 1, 0, re) : re \in {0, 1}}
    \cup {Kind(ACK, 1, last, re) : last \in {0, 1}, re \in {0, 1}}

MCSpec ==
    /\ OpenInit
    /\ [][Next /\ Len(c2e') <= MaxWaiting /\ Len(s2e') <= MaxWaiting]_vars

=============================================================================
