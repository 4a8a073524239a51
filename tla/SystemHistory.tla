--------------------------- MODULE SystemHistory ---------------------------
(***************************************************************************)
(* The three programs with a history: what data the server has taken, and  *)
(* whether a packet was passed by chance in this turn of the client's.     *)
(***************************************************************************)
EXTENDS SendAndWait

VARIABLES taken, lucky

historyVars == <<systemVars, taken, lucky>>

HistoryInit == SystemInit /\ taken = {} /\ lucky = FALSE

Note ==
    /\ taken' = IF Len(e2s') < Len(e2s)
              THEN taken \cup {[seq |-> Head(e2s).seq, data |-> Head(e2s).data]}
              ELSE taken
    /\ lucky' = /\ phase' = "client"
                /\ \/ lucky
                   \/ Len(e2s') > Len(e2s) /\ Head(c2e).re = 0

HistorySpec == HistoryInit /\ [][SystemNext /\ Note]_historyVars

-----------------------------------------------------------------------------
(* The slots of the window that a step of the client's receive loop counts *)
(* as acknowledged.                                                        *)
NewlyAcked ==
    {i \in 1..synAck.ws : pc = "receive" /\ acked[i] = 0 /\ acked'[i] = 1}

(* A packet is counted as acknowledged only after it, or another one under *)
(* its sequence number, has reached the server (client.c 255-268).         *)
NoFalseAck ==
    [][\A i \in NewlyAcked : \E p \in taken : p.seq = tp[i].seq]_historyVars

(* A sequence number stands for one data packet: a chunk that is counted   *)
(* as acknowledged has reached the server.                                 *)
AckedTextTaken ==
    [][\A i \in NewlyAcked :
          tp[i].data # Blank =>
              [seq |-> tp[i].seq, data |-> tp[i].data] \in taken]_historyVars

(* Losses come in one run at the beginning of a turn of the client's: once *)
(* an original has been passed, r is above the noise until the turn ends   *)
(* and nothing more is lost, but for a full buffer (emulator.c 115, 137).  *)
LossesFirst ==
    [][/\ phase = "client" /\ Len(c2e') < Len(c2e)
       /\ e2s' = e2s /\ Len(e2s) < SockBuf
       => ~lucky]_historyVars

(* What ends the handshake of a transfer is an answer to its SYN: from then*)
(* on client and server go by the same window, and the data is numbered    *)
(* after the SYN, which the client does not check (client.c 127-138).      *)
HandshakeAgreed ==
    ~InHandshake => /\ synAck = [ws |-> Window, ack |-> 100 + Window]
                    /\ maxW = Window

-----------------------------------------------------------------------------
(***************************************************************************)
(* The inductive invariant behind NoFalseAck, LossesFirst and              *)
(* HandshakeAgreed: what the numbers of a packet say, on either way.       *)
(***************************************************************************)
(* A data packet is numbered 100 above the number it is acknowledged by.   *)
Numbered ==
    {p \in ClientPacket : /\ p.type = SYN => p.seq = 100 /\ p.ack = 200
                          /\ p.type = DATA => p.ack > 0 /\ p.seq = p.ack + 100
                          /\ p.type = EOT => p.ack = 0}

PacketsNumbered ==
    /\ c2e \in Seq(Numbered) /\ e2s \in Seq(Numbered)
    /\ copy \in Built => copy \in Numbered
    /\ \A i \in 1..synAck.ws : tp[i] \in Built => tp[i] \in Numbered

(* An acknowledgement stands for a packet the server has taken.            *)
Truthful ==
    {a \in Answer : /\ a.type = SYNACK => a.ack = 100 + Window
                    /\ a.type = ACK =>
                          a.seq > 0 /\ \E p \in taken : p.seq = a.seq + 100}

AnswersTruthful ==
    /\ s2e \in Seq(Truthful) /\ e2c \in Seq(Truthful)
    /\ prev.type = SYNACK => prev \in Truthful
    /\ \A i \in 1..maxW : trn[i].ws = i => trn[i] \in Truthful

(* Before the handshake has ended there is nothing but SYNACKs on the way. *)
SynAcks == {a \in Answer : a.type = SYNACK}

OnlySynAcks == InHandshake => s2e \in Seq(SynAcks) /\ e2c \in Seq(SynAcks)

(* Once an original was passed by chance, chance is with the client.       *)
LuckyTurn ==
    lucky => /\ phase = "client" /\ Noise < r
             /\ version.emulator \in {"emulator", "stable"} => ~E!Saturated

(* As long as a SYN may come, the last acknowledgement does not have the   *)
(* number of one (server.c 100-120).                                       *)
SynsAlone ==
    InHandshake \/ HasSyn(c2e) \/ HasSyn(e2s) => prev.seq \in {0, 200}

HistoryInv ==
    /\ PacketsNumbered
    /\ AnswersTruthful /\ OnlySynAcks /\ SynsAlone
    /\ HandshakeAgreed
    /\ LuckyTurn

=============================================================================
