---------------------------- MODULE FileTransfer ----------------------------
(***************************************************************************)
(* What the three programs are for: the text of the file appears at the    *)
(* receiver, from its beginning, a piece at a time, and in the end all of  *)
(* it is there.                                                            *)
(***************************************************************************)
EXTENDS Integers, Sequences

CONSTANT Sent       \* the pieces to deliver, in order

VARIABLE delivered  \* those that are in the received file

Init == delivered = <<>>

Deliver ==
    \E n \in Len(delivered) + 1..Len(Sent) :
        delivered' = SubSeq(Sent, 1, n)

Spec == Init /\ [][Deliver]_delivered

(* With the promise that the transfer is completed.                        *)
LiveSpec == Spec /\ WF_delivered(Deliver)

=============================================================================
