---------------------------- MODULE SendAndWait -----------------------------
(***************************************************************************)
(* The client, the emulator and the server on one network: four receive    *)
(* queues, one per direction and hop, join them, each of them a FIFO.      *)
(*                                                                         *)
(*      client --c2e--> emulator --e2s--> server                           *)
(*      client <--e2c-- emulator <--s2e-- server                           *)
(*                                                                         *)
(* The server is module Server, with its variables; client and emulator    *)
(* are instances (the client's own garbage is cgarbage here).              *)
(*                                                                         *)
(* All three wait five seconds (the client ten in the handshake) and the   *)
(* emulator delays packets by any time it is told to, so a timeout may     *)
(* come at any moment its receiver is idle.  If Prompt is TRUE the network *)
(* is fast: a timeout only comes when no program has anything left to do.  *)
(***************************************************************************)
EXTENDS Server

CONSTANTS
    Noise, RandValues,     \* of the emulator
    Prompt,                \* whether timeouts wait for the network
    Versions               \* which clients and emulators are tried

ASSUME ChanceAssumption ==
    Noise \in Int /\ RandValues \subseteq 0..100 /\ RandValues # {}
ASSUME VersionsAssumption ==
    Versions \subseteq [client : {"client", "client copy"},
                        emulator : {"emulator", "original", "stable"}]

VARIABLES
    pc, slot, synAck, tpc, copy, tp, acked, rac, cgarbage, timer,  \* client
    needed, test,                                                  \* its earlier version
    phase, r, etimer,                                              \* emulator
    c2e, e2c,                                                      \* network
    version    \* the programs that were started; it never changes

clientVars ==
    <<pc, slot, synAck, tpc, copy, tp, acked, rac, cgarbage, timer, needed, test>>
emulatorVars == <<phase, r, etimer>>
systemVars == <<clientVars, emulatorVars, serverVars, c2e, e2s, s2e, e2c, version>>

C == INSTANCE EarlierClient WITH garbage <- cgarbage
E == INSTANCE EarlierEmulator
         WITH timer <- etimer, FromBelow <- {}, FromAbove <- {}

SystemInit ==
    /\ version \in Versions
    /\ \/ version.client = "client" /\ C!Init /\ needed = 0 /\ test = 0
       \/ version.client = "client copy" /\ C!EarlierInit
    /\ E!Init
    /\ Init
    /\ c2e = <<>> /\ e2c = <<>>

ClientDoes(A) == A /\ UNCHANGED <<emulatorVars, serverVars, e2s, s2e, version>>
EmulatorDoes(A) == A /\ UNCHANGED <<clientVars, serverVars, version>>
ServerDoes(A) == A /\ UNCHANGED <<clientVars, emulatorVars, c2e, e2c, version>>

(* The client of today, and the one before it.                             *)
AsStarted(A, B) ==
    \/ version.client = "client" /\ A /\ UNCHANGED <<needed, test>>
    \/ version.client = "client copy" /\ B

ClientStep == ClientDoes(AsStarted(C!Step, C!EarlierStep))

EmulatorStep ==
    EmulatorDoes(\/ version.emulator = "emulator" /\ E!Step
                 \/ version.emulator = "original" /\ E!OriginalStep
                 \/ version.emulator = "stable" /\ E!StableStep)

ServerStep == ServerDoes(Receive)

(***************************************************************************)
(* Timeouts.                                                               *)
(***************************************************************************)
Idle ==
    /\ pc \in {"handshake", "receive", "done"} /\ (pc = "done" \/ e2c = <<>>)
    /\ phase = "client" => c2e = <<>>
    /\ phase = "server" => s2e = <<>>
    /\ spc = "listen" => e2s = <<>>

TimerFires == Prompt => Idle

ClientTimeout == ClientDoes(AsStarted(C!Timeouts, C!EarlierTimeouts)) /\ TimerFires
EmulatorTimeout == EmulatorDoes(E!Timeout) /\ TimerFires
ServerTimeout == ServerDoes(Timeout) /\ TimerFires

SomeStep == ClientStep \/ EmulatorStep \/ ServerStep
SomeTimeout == ClientTimeout \/ EmulatorTimeout \/ ServerTimeout

SystemNext ==
    \/ SomeStep
    \/ SomeTimeout

SystemSpec == SystemInit /\ [][SystemNext]_systemVars

(***************************************************************************)
(* Each program keeps running.  A timer that is set when the network falls *)
(* silent counts on: a program that waits again and again is not passed    *)
(* over by the timers of the others for ever.                              *)
(***************************************************************************)
Fairness ==
    /\ WF_systemVars(ClientStep) /\ WF_systemVars(EmulatorStep) /\ WF_systemVars(ServerStep)
    /\ SF_systemVars(ClientTimeout) /\ SF_systemVars(EmulatorTimeout) /\ SF_systemVars(ServerTimeout)

FairSpec == SystemSpec /\ Fairness

-----------------------------------------------------------------------------
(***************************************************************************)
(* The file.                                                               *)
(***************************************************************************)
(* The texts of a row of slots, without the empty ones.                    *)
Texts(s) ==
    LET filled == {k \in 1..Len(s) : s[k] # Blank}
    IN  [n \in 1..Cardinality(filled) |-> s[Nth(filled, n)]]

(* The text that has reached data/received.txt.                            *)
Delivered == Texts(file)

(* The client clears a chunk that repeats the one before it, unless that   *)
(* one was itself cleared.                                                 *)
Keeps[k \in 1..Len(File)] == k = 1 \/ File[k] # File[k - 1] \/ ~Keeps[k - 1]

(* The text of packet n.                                                   *)
TextOf(n) == IF n \in 1..Len(File) /\ Keeps[n] THEN File[n] ELSE Blank

Sendable == Texts([n \in 1..Len(File) |-> TextOf(n)])

Transfer == INSTANCE FileTransfer WITH Sent <- Sendable, delivered <- Delivered

(* While nothing is lost and the network is fast, the three programs carry *)
(* the file over, in order, chunk by chunk, and all of it - the chunks     *)
(* that repeat their predecessor (client.c 189) excepted.                  *)
TransfersFile == Transfer!LiveSpec

(* The part of it that says what may not happen: the received file is at   *)
(* all times the beginning of what the client sends.                       *)
TransfersInOrder == Transfer!Spec

(* While nothing is lost every window is written exactly once, so that     *)
(* write_count ends as the number of windows times their size.  For a file *)
(* of nine chunks or more (windows of 15) that is always more than the     *)
(* max_packets + 1 entries of all_packets (server.c 281).                  *)
WindowsWrittenOnce ==
    LET windows == (TotalPacketCount + 1 + Window) \div Window
    IN  /\ Len(allp) <= windows * Window
        /\ spc = "exited" => Len(allp) = windows * Window

(* As TransfersFile, for what is there when the server exits: a packet     *)
(* that was lost has been repaired by then.                                *)
LossRepaired == spc = "exited" => Delivered = Sendable

(* What runs past the end of all_packets carries no text: the table has an *)
(* entry for every chunk, and behind them come the extra packet, EOT and   *)
(* the empty slots of the last window (server.c 98-99, 110, 281).          *)
OverrunIsPadding ==
    \A k \in 1..Len(allp) : k > maxP + 1 => allp[k].data = Blank

(* Everything that is sent arrives, with EOT as the sign that it has.  Not *)
(* even without losses: see Keeps (client.c 189).                          *)
WholeFileArrives == spc = "exited" => Delivered = File

(* The received file only ever grows at its end: a SYN that is repeated    *)
(* makes the server forget what it has received (server.c 108-115), but no *)
(* SYN overtakes or follows data.  (As long as the heap is not overrun.)   *)
NothingWithdrawn ==
    [][Len(file) <= Len(file') /\ file = SubSeq(file', 1, Len(file))]_systemVars

(* No chunk is in the received file twice (the file having none twice).    *)
NoChunkDeliveredTwice ==
    \A j, k \in 1..Len(Delivered) : Delivered[j] = Delivered[k] => j = k

-----------------------------------------------------------------------------
(***************************************************************************)
(* The programs against each other.                                        *)
(***************************************************************************)
(* The state of the three programs, and the queues within their capacity.  *)
SystemTypeOK ==
    /\ C!TypeOK
    /\ E!TypeOK
    /\ TypeOK
    /\ Len(c2e) <= SockBuf /\ Len(e2c) <= SockBuf

(* To the server, the rest of the system is the network of module Server:  *)
(* what reaches it is one of Inputs at a time, and its answers are only    *)
(* taken away (client.c 121-309, emulator.c 92-213).                       *)
ServerInContext == Spec

(* The server is not sent data before it knows the window: it never gets   *)
(* to divide by a window size of zero (server.c 208, 235).                 *)
NoEarlyData ==
    spc = "listen" /\ e2s # <<>> /\ Head(e2s).type # SYN => maxW > 0

(* No SYN comes after data, by which the server would forget what it has   *)
(* received (server.c 108-115), however often the client repeats it and    *)
(* however late the first answer is.                                       *)
NothingReceived == allp = <<>> /\ \A i \in 1..maxW : rec[i].ws = 0

NoLateSyn ==
    spc = "listen" /\ e2s # <<>> /\ Head(e2s).type = SYN => NothingReceived

(* Every SYN that the server takes is answered with the SYNACK.  It is not *)
(* if its number is that of the last acknowledgement sent (server.c 100),  *)
(* as that of the tenth packet is in windows of ten; but by then no SYN is *)
(* under way any more.                                                     *)
SynsAnswered ==
    [][/\ spc = "listen" /\ e2s # <<>> /\ Head(e2s).type = SYN
       /\ e2s' = Tail(e2s)
       => prev'.type = SYNACK /\ s2e' = Put(s2e, <<prev'>>)]_systemVars

(* Whenever the client looks at an acknowledgement, received_ack_count is  *)
(* an index of its array (client.c 255): the acknowledgement that fills    *)
(* the window is marked as last and ends the loop.                         *)
RacInBounds ==
    pc = "receive" /\ e2c # <<>> /\ Head(e2c).type = ACK => rac < synAck.ws

(* The acknowledgement of the last slot says so wherever it travels, so    *)
(* that neither the emulator nor the client waits for more (server.c 238). *)
LastSlotMarked ==
    \A q \in {s2e, e2c} : \A k \in 1..Len(q) :
        q[k].type = ACK /\ q[k].ws = maxW => q[k].last = 1

(* A client whose timeout setsockopt has accepted, and that gets no answer *)
(* to its window, does not wait for ever: it retransmits (client.c 241-247,*)
(* client copy.c 170, 295-303).                                            *)
RetransmitsUnanswered == timer => (pc = "receive" ~> pc # "receive")

(* The acknowledgement that ends a burst, once it has reached the client,  *)
(* takes it on to the next window (client.c 296, client copy.c 304).       *)
LeavesWindow ==
    pc = "receive" /\ e2c # <<>> /\ Head(e2c).last = 1 ~> pc \in {"build", "done"}

(* Answers that wait at the emulator get their turn, as long as a client   *)
(* whose timeout works has not finished (emulator.c 148, emulator stable.c *)
(* 153-166).                                                               *)
AnswersGetTurn ==
    timer /\ ~etimer /\ s2e # <<>> ~> phase = "server" \/ pc = "done"

(* A client whose receive timeout is in force finishes, however much is    *)
(* lost, provided the emulator does not give up on the server.             *)
ClientFinishes == timer /\ ~etimer ~> pc = "done"

(* The same, whatever becomes of the timeouts (client.c 115, emulator.c    *)
(* 164).                                                                   *)
ClientFinishesAnyway == <>(pc = "done")

-----------------------------------------------------------------------------
(***************************************************************************)
(* The inductive invariant behind the types, NoEarlyData, NoLateSyn and    *)
(* LastSlotMarked.                                                         *)
(***************************************************************************)
(* SYNs on the one hand, what the client builds on the other.              *)
SynPacket == {p \in ClientPacket : p.type = SYN}
Built == {p \in ClientPacket : p.type # SYN}

InHandshake == pc \in {"start", "handshake"}

(* From the SYNACK on the client knows a window of the right size, and what*)
(* it can send of the window has been built: the first window fills up     *)
(* before EOT, and the slots behind EOT keep the packets of the window     *)
(* before.                                                                 *)
WindowBuilt ==
    /\ IF InHandshake THEN tpc = 0 /\ synAck.ws = 0
       ELSE synAck.ws \in 1..Window /\ synAck.ack > 0
    /\ IF tpc = 0 THEN copy = C!NoPacket ELSE copy \in Built
    /\ tpc <= TotalPacketCount + 1 => copy.type = DATA
    /\ pc = "build" =>
            /\ tpc <= TotalPacketCount + 1
            /\ \/ tpc = slot - 1 /\ \A i \in 1..slot - 1 : tp[i] \in Built
               \/ \A i \in 1..synAck.ws : tp[i] \in Built
    /\ pc \in {"send", "resend", "receive", "repair", "done"} =>
            \A i \in 1..synAck.ws : tp[i] \in Built

(* Until the server has seen a SYN nobody has anything to answer.          *)
Quiet ==
    maxW = 0 =>
        /\ InHandshake
        /\ s2e = <<>> /\ e2c = <<>>

(* In either queue SYNs are in front of everything else, and while one is  *)
(* on its way the server has received nothing but SYNs.                    *)
HasSyn(q) == \E k \in 1..Len(q) : q[k].type = SYN

SynsInFront(q) ==
    \A k \in 1..Len(q) : q[k].type = SYN => \A j \in 1..k : q[j].type = SYN

SynsFirst ==
    /\ InHandshake => /\ NothingReceived
                      /\ c2e \in Seq(SynPacket) /\ e2s \in Seq(SynPacket)
    /\ SynsInFront(c2e) /\ SynsInFront(e2s)
    /\ HasSyn(c2e) \/ HasSyn(e2s) => NothingReceived
    /\ HasSyn(c2e) => e2s \in Seq(SynPacket)

(* What is on the way is from the one side or from the other.              *)
OnTheWay ==
    /\ c2e \in Seq(ClientPacket) /\ e2s \in Seq(ClientPacket)
    /\ s2e \in Seq(Answer) /\ e2c \in Seq(Answer)

SystemInv ==
    /\ SystemTypeOK
    /\ Inv /\ AnswersReady
    /\ WindowBuilt
    /\ Quiet /\ SynsFirst
    /\ OnTheWay

=============================================================================
