------------------------------ MODULE Emulator ------------------------------
(***************************************************************************)
(* The network emulator, emulator.c: a half-duplex relay that listens to   *)
(* the client until it has passed on something that ends the client's      *)
(* turn, then to the server until something ends the server's turn, and    *)
(* discards packets at random.  An action is the handling of one datagram. *)
(***************************************************************************)
EXTENDS Packets

CONSTANTS
    Noise,        \* the argument of -n
    RandValues,   \* what rand100() is taken to return (rand() % 101)
    FromBelow,    \* the packets a client may send
    FromAbove     \* the packets a server may send

ASSUME NoiseAssumption == Noise \in Int
ASSUME RandAssumption == RandValues \subseteq 0..100 /\ RandValues # {}
ASSUME TrafficAssumption ==
    /\ FromBelow \subseteq Packet
    /\ FromAbove \subseteq {p \in Packet : p.type \in {SYNACK, ACK}}

VARIABLES
    phase,       \* "client" or "server": who is listened to; "dead"
    r,           \* the random number that decides over the next packets
    timer,       \* whether the receive timeout of sd2 is in force
    c2e, s2e,    \* receive queues of the emulator: sd1, sd2
    e2s, e2c     \* receive queues of the server and of the client

emulatorVars == <<phase, r, timer>>
vars == <<emulatorVars, c2e, s2e, e2s, e2c>>

Init ==
    /\ phase = "client"
    /\ r \in RandValues
    /\ timer \in Armed

-----------------------------------------------------------------------------
(***************************************************************************)
(* The client's turn.  A packet that is marked as a retransmission passes  *)
(* whatever r is, unless the noise is 90 or more; so does every EOT.  An   *)
(* original passes if r exceeds the noise.  r is drawn again after a loss, *)
(* and only then: once r is above the noise nothing is lost for the rest   *)
(* of the turn.                                                            *)
(***************************************************************************)
Carries(p) == p.type \in {SYN, DATA} /\ p.ws # 0

Saturated == 90 <= Noise /\ Noise <= 100

(* FAULTY: a retransmission is as likely to be lost as an original.        *)
PassesUpByChance(p) ==
    \/ p.type = EOT
    \/ Carries(p) /\ ~Saturated /\ Noise < r

PassesUp(p) ==
    \/ p.type = EOT
    \/ Carries(p) /\ ~Saturated /\ (p.re = 1 \/ Noise < r)

LostUp(p) == Carries(p) /\ ~PassesUp(p)

(* What ends the client's turn once it is dealt with.  A packet of a type  *)
(* that is not expected here ends it too.                                  *)
(* FAULTY: a lost packet ends the turn, too.                               *)
EndsClientTurnLost(p) == p.type = DATA /\ Carries(p) => p.last = 1

(* FAULTY: only what is marked as last ends the turn, and a SYN is not.    *)
EndsClientTurnMarked(p) ==
    ~LostUp(p) /\ (p.type \in {SYN, DATA} /\ Carries(p) => p.last = 1)

EndsClientTurn(p) ==
    ~LostUp(p) /\ (p.type = DATA /\ Carries(p) => p.last = 1)

(* FAULTY: the branches for a retransmission and for chance both forward.  *)
ForwardedUpTwice(p) ==
    IF PassesUp(p) THEN IF p.re = 1 /\ Noise < r THEN <<p, p>> ELSE <<p>>
    ELSE <<>>

(* FAULTY, but what emulator fail.c does: EOT is handed on as a TIMEO.      *)
ForwardedUpAsTimeo(p) ==
    IF PassesUp(p) THEN IF p.type = EOT THEN <<[p EXCEPT !.type = 6]>> ELSE <<p>>
    ELSE <<>>

ForwardedUp(p) == IF PassesUp(p) THEN <<p>> ELSE <<>>

(* FAULTY: r is drawn again after every packet.                            *)
RedrawsAlways(p) == TRUE

Redraws(p) == LostUp(p) \/ EndsClientTurn(p)

FromClient ==
    /\ phase = "client"
    /\ c2e # <<>>
    /\ c2e' = Tail(c2e)
    /\ LET p == Head(c2e)
       IN  /\ e2s' = Put(e2s, ForwardedUp(p))
           /\ phase' = IF EndsClientTurn(p) THEN "server" ELSE "client"
           /\ IF Redraws(p) THEN r' \in RandValues ELSE UNCHANGED r
    /\ UNCHANGED <<timer, s2e, e2c>>

-----------------------------------------------------------------------------
(***************************************************************************)
(* The server's turn, likewise: a retransmission and the acknowledgement   *)
(* marked last always pass and end the turn, a SYNACK ends it if it passes.*)
(* The noise of 90 to 99 that silences the client does not silence these.  *)
(* r keeps its value when the turn ends.  (The server sends nothing but    *)
(* SYNACK and ACK.)                                                        *)
(***************************************************************************)
Insistent(p) == (p.re = 1 \/ p.last = 1) /\ Noise # 100

PassesDown(p) == Insistent(p) \/ Noise < r

EndsServerTurn(p) == Insistent(p) \/ (Noise < r /\ p.type = SYNACK)

(* FAULTY: the branches for a retransmission and for chance both forward.  *)
ForwardedDownTwice(p) ==
    IF PassesDown(p) THEN IF Insistent(p) /\ Noise < r THEN <<p, p>> ELSE <<p>>
    ELSE <<>>

ForwardedDown(p) == IF PassesDown(p) THEN <<p>> ELSE <<>>

FromServer ==
    /\ phase = "server"
    /\ s2e # <<>>
    /\ s2e' = Tail(s2e)
    /\ LET p == Head(s2e)
       IN  /\ e2c' = Put(e2c, ForwardedDown(p))
           /\ phase' = IF EndsServerTurn(p) THEN "client" ELSE "server"
           /\ IF PassesDown(p) THEN UNCHANGED r ELSE r' \in RandValues
    /\ UNCHANGED <<timer, c2e, e2s>>

(* Nothing from the server for five seconds: the process exits.  The       *)
(* microseconds of the timeout are never set, so that setsockopt may have  *)
(* refused it and the receive waits for ever.                              *)
Timeout ==
    /\ phase = "server"
    /\ timer
    /\ s2e = <<>>
    /\ phase' = "dead"
    /\ UNCHANGED <<r, timer, c2e, s2e, e2s, e2c>>

Step == FromClient \/ FromServer

-----------------------------------------------------------------------------
(***************************************************************************)
(* The network around the emulator: client and server send and collect     *)
(* what they like, whenever they like.                                     *)
(***************************************************************************)
ClientSends ==
    /\ \E p \in FromBelow : c2e' = Put(c2e, <<p>>)
    /\ UNCHANGED <<emulatorVars, s2e, e2s, e2c>>

ServerSends ==
    /\ \E p \in FromAbove : s2e' = Put(s2e, <<p>>)
    /\ UNCHANGED <<emulatorVars, c2e, e2s, e2c>>

ServerTakes ==
    /\ e2s # <<>>
    /\ e2s' = Tail(e2s)
    /\ UNCHANGED <<emulatorVars, c2e, s2e, e2c>>

ClientTakes ==
    /\ e2c # <<>>
    /\ e2c' = Tail(e2c)
    /\ UNCHANGED <<emulatorVars, c2e, s2e, e2s>>

Around == ClientSends \/ ServerSends \/ ServerTakes \/ ClientTakes

OpenInit == Init /\ c2e = <<>> /\ s2e = <<>> /\ e2s = <<>> /\ e2c = <<>>

Next == Step \/ Timeout \/ Around

Spec == OpenInit /\ [][Next]_vars

-----------------------------------------------------------------------------
(* The variables hold what the code declares.                              *)
TypeOK ==
    /\ phase \in {"client", "server", "dead"}
    /\ r \in RandValues
    /\ timer \in Armed

(* What waits on either side was sent by the other side, and fits the      *)
(* receive buffers (emulator.c 92-213).                                    *)
QueuesOK ==
    /\ c2e \in Seq(FromBelow) /\ e2s \in Seq(FromBelow)
    /\ s2e \in Seq(FromAbove) /\ e2c \in Seq(FromAbove)
    /\ \A q \in {c2e, e2s, s2e, e2c} : Len(q) <= SockBuf

(* Noise or not, the emulator only ever loses packets: in each direction   *)
(* what it hands over is what it got, once, in the same order              *)
(* (emulator.c 92-213).                                                    *)
Up == INSTANCE LossyFifo WITH entering <- c2e, leaving <- e2s
Down == INSTANCE LossyFifo WITH entering <- s2e, leaving <- e2c
UpIsLossyFifo == Up!Spec
DownIsLossyFifo == Down!Spec

(* The turn passes to a side only together with a packet for it, so that   *)
(* the side listened to next has something to answer; but for a packet of  *)
(* a type that is not expected or the SYN of an empty file, and for a full *)
(* buffer (emulator.c 108-148, 172-199).                                   *)
TurnHandsOver ==
    [][/\ phase = "client" /\ phase' = "server" =>
            \/ ~Carries(Head(c2e)) /\ Head(c2e).type # EOT
            \/ Len(e2s) = SockBuf
            \/ e2s' = Append(e2s, Head(c2e))
       /\ phase = "server" /\ phase' = "client" =>
            \/ Len(e2c) = SockBuf
            \/ e2c' = Append(e2c, Head(s2e))]_vars

=============================================================================
