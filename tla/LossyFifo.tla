----------------------------- MODULE LossyFifo -----------------------------
(***************************************************************************)
(* A line that may lose what is sent over it and does nothing worse: what  *)
(* arrives was sent, arrives once, in the order in which it was sent.      *)
(***************************************************************************)
EXTENDS Integers, Sequences

VARIABLES entering, leaving   \* what waits at the two ends of the line

Init == entering = <<>> /\ leaving = <<>>

(* Some messages are handed over at once.                                  *)
Send ==
    /\ Len(entering') > Len(entering)
    /\ SubSeq(entering', 1, Len(entering)) = entering
    /\ UNCHANGED leaving

Pass ==
    /\ entering # <<>>
    /\ entering' = Tail(entering)
    /\ leaving' = Append(leaving, Head(entering))

Lose ==
    /\ entering # <<>>
    /\ entering' = Tail(entering)
    /\ UNCHANGED leaving

Take ==
    /\ leaving # <<>>
    /\ leaving' = Tail(leaving)
    /\ UNCHANGED entering

Next == Send \/ Pass \/ Lose \/ Take

Spec == Init /\ [][Next]_<<entering, leaving>>

=============================================================================
