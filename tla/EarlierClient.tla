---------------------------- MODULE EarlierClient ----------------------------
(***************************************************************************)
(* client copy.c, the sender before it was revised.  What it does as       *)
(* client.c does is taken from module Client.  It differs in this:         *)
(*   - a round trip below half a millisecond gives a timeout of 0 for the  *)
(*     data, which is none;                                                *)
(*   - EOT names the slot it happens to be in;                             *)
(*   - packets are sent, and sent again after a timeout, with the flag re  *)
(*     they were built with;                                               *)
(*   - an acknowledgement with the number of the one before is skipped;    *)
(*   - retransmission_needed is not reset when the window has been sent    *)
(*     again: from then on every datagram that arrives counts as a timeout.*)
(***************************************************************************)
EXTENDS Client

VARIABLES
    needed,    \* retransmission_needed
    test       \* SeqNum of the acknowledgement before

(* test is never initialised: it may hold the number of the acknowledgement*)
(* of the second packet by chance.                                         *)
EarlierInit == Init /\ timer /\ needed = 0 /\ test \in {0, 2 * Window}

EarlierReceiveSynAck ==
    TakeSynAck /\ timer' \in BOOLEAN /\ UNCHANGED <<needed, test>>

EarlierBuild == BuildWith(NextPacketInSlot) /\ UNCHANGED <<needed, test>>

EarlierSend ==
    LET final == slot = W \/ tp[slot].type = EOT
    IN  /\ pc = "send"
        /\ Sending([tp[slot] EXCEPT !.last = IF final THEN 1 ELSE 0])
        /\ ThenReceive(final)
        /\ UNCHANGED <<synAck, tpc, copy, garbage, timer, e2c, needed, test>>

EarlierResend ==
    /\ pc = "resend"
    /\ Sending([tp[slot] EXCEPT !.last = IF slot = W THEN 1 ELSE @])
    /\ ThenReceive(slot = W)
    /\ UNCHANGED <<synAck, tpc, copy, garbage, timer, e2c, needed, test>>

EarlierNoteAck(p) ==
    /\ test' = p.seq
    /\ \E expected \in Expected(p) :
          IF ~expected /\ p.seq = test THEN UNCHANGED <<rac, acked>>
          ELSE NoteAckAs(p, expected)

EarlierReceive ==
    /\ pc = "receive"
    /\ e2c # <<>>
    /\ e2c' = Tail(e2c)
    /\ LET p == Head(e2c)
       IN  /\ IF p.type = ACK THEN EarlierNoteAck(p)
              ELSE UNCHANGED <<rac, acked, test>>
           /\ IF needed = 1 THEN ResendWindow
              ELSE pc' = (IF p.last = 1 THEN "repair" ELSE pc) /\ UNCHANGED slot
    /\ UNCHANGED <<synAck, tpc, copy, tp, garbage, timer, c2e, needed>>

EarlierTimeout ==
    Timeout /\ needed' = 1 /\ UNCHANGED test

(* Handshake and repair are those of client.c.                             *)
EarlierStep ==
    \/ EarlierReceiveSynAck \/ EarlierBuild \/ EarlierSend \/ EarlierResend
    \/ EarlierReceive
    \/ (SendSyn \/ Repair) /\ UNCHANGED <<needed, test>>

EarlierTimeouts ==
    \/ EarlierTimeout
    \/ SynTimeout /\ UNCHANGED <<needed, test>>

=============================================================================
