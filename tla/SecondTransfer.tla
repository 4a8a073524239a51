--------------------------- MODULE SecondTransfer ---------------------------
(***************************************************************************)
(* One transfer after the other.  Client and server exit when they are     *)
(* done and are started again for the next file, here the same; the        *)
(* emulator, an endless loop, runs on as it is, with what waits in its two *)
(* sockets.  The user is patient: the network has fallen silent by then.   *)
(***************************************************************************)
EXTENDS MCSendAndWait

VARIABLE transfer    \* which transfer this is, 1 or 2

transferVars == <<MCvars, transfer>>

(* New processes on the same ports, with new sockets.  The received file   *)
(* stays until it is written again.                                        *)
StartAgain ==
    /\ pc' = "start" /\ slot' = 0 /\ synAck' = [ws |-> 0, ack |-> 0]
    /\ tpc' = 0 /\ copy' = C!NoPacket /\ tp' = <<>> /\ acked' = <<>> /\ rac' = 0
    /\ cgarbage' \in [synLast : Flags, synRe : Flags, dataRe : Flags]
    /\ timer' \in Armed
    /\ UNCHANGED <<needed, test>>
    /\ spc' = "listen" /\ prev' = ZeroAck /\ maxW' = 0 /\ maxP' = 0
    /\ rec' = <<>> /\ trn' = <<>> /\ allp' = <<>>
    /\ garbage' \in [last : Flags, re : Flags]
    /\ e2s' = <<>> /\ e2c' = <<>>
    /\ UNCHANGED <<emulatorVars, file, c2e, s2e, version>>

NextTransfer ==
    /\ transfer = 1
    /\ pc = "done" /\ spc # "listen" /\ phase # "dead" /\ Idle
    /\ StartAgain
    /\ transfer' = 2
    /\ UNCHANGED <<timeouts, taken, lucky>>

TwoTransfers ==
    /\ MCInit /\ transfer = 1
    /\ [][NextTransfer \/ (BoundedNext /\ UNCHANGED transfer)]_transferVars

-----------------------------------------------------------------------------
(* The answer that ends the handshake is a SYNACK, the server's answer to  *)
(* this SYN (client.c 126-127).                                            *)
HandshakeTakesSynAck ==
    [][pc = "handshake" /\ pc' = "build" => Head(e2c).type = SYNACK]_transferVars

=============================================================================
