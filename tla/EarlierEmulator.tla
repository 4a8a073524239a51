--------------------------- MODULE EarlierEmulator ---------------------------
(***************************************************************************)
(* The emulators before emulator.c: emulator_original.c, emulator_no_warns *)
(* (which decides as it does) and emulator stable.c.  In all of them a     *)
(* data packet that is marked as a retransmission is passed on without     *)
(* ending the client's turn, even if it is the last one of its window.     *)
(* The first two know no noise that silences the client.  The server's     *)
(* turn is that of module Emulator.                                        *)
(***************************************************************************)
EXTENDS Emulator

OriginalPassesUp(p) ==
    \/ p.type = EOT
    \/ Carries(p) /\ ((p.re = 1 /\ Noise # 100) \/ Noise < r)

StablePassesUp(p) ==
    \/ p.type = EOT
    \/ Carries(p) /\ ~Saturated /\ (p.re = 1 \/ Noise < r)

StaysWithClient(p) == Carries(p) /\ p.type = DATA /\ (p.re = 1 \/ p.last = 0)

(* p is taken from the client; passes says whether the server gets it.     *)
EarlierRelay(p, passes) ==
    LET lost == Carries(p) /\ ~passes
        ends == ~lost /\ ~StaysWithClient(p)
    IN  /\ e2s' = Put(e2s, IF passes THEN <<p>> ELSE <<>>)
        /\ phase' = IF ends THEN "server" ELSE "client"
        /\ IF lost \/ ends THEN r' \in RandValues ELSE UNCHANGED r

EarlierFromClient(passes) ==
    /\ phase = "client"
    /\ c2e # <<>>
    /\ c2e' = Tail(c2e)
    /\ EarlierRelay(Head(c2e), passes)
    /\ UNCHANGED <<timer, s2e, e2c>>

OriginalStep == EarlierFromClient(OriginalPassesUp(Head(c2e))) \/ FromServer
StableStep == EarlierFromClient(StablePassesUp(Head(c2e))) \/ FromServer

=============================================================================
