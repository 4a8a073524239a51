----------------------------- MODULE Undisturbed -----------------------------
(***************************************************************************)
(* A transfer over a network that loses nothing: the invariant behind      *)
(* WindowsWrittenOnce and the order of the received text.                  *)
(*                                                                         *)
(* Packet after packet goes to the server.  When the last one of a window  *)
(* has come the window is written and acknowledged in one burst, and when  *)
(* the client has counted the burst it builds the next window.  Until EOT  *)
(* is sent there is always a packet or an answer on its way, so that no    *)
(* timeout fires.                                                          *)
(***************************************************************************)
EXTENDS AckOrder

(* The network is fast, the heap holds and the buffers take a window and   *)
(* one packet more.                                                        *)
Ample == Prompt /\ HeapFaults = {"harmless"} /\ Window < SockBuf

(* Chance loses nothing, and the flags that are never initialised are 0.   *)
Calm ==
    /\ Noise < r /\ ~E!Saturated
    /\ garbage.last = 0 /\ garbage.re = 0 /\ cgarbage.dataRe = 0

-----------------------------------------------------------------------------
(* The packets on their way to the server.                                 *)
Up == e2s \o c2e

(* p is packet n of the transfer; packet TotalPacketCount + 2 is EOT.      *)
Is(p, n) ==
    IF n = TotalPacketCount + 2 THEN p.type = EOT
    ELSE /\ p.type = DATA /\ p.ack = NumberOf(n) /\ InSlot(n, p.ws)
         /\ p.data = TextOf(n) /\ p.re = 0

(* ... as it is sent for the first time.                                   *)
IsSent(p, n) == Is(p, n) /\ (p.type = DATA => (p.last = 1 <=> p.ws = Window))

(* The client's window holds k packets, those after packet n.              *)
Packed(n, k) == \A i \in 1..k : Is(tp[i], n + i)

(* The packet after the last chunk ended a window: its acknowledgement is  *)
(* that of an earlier packet and the client repeats it (client.c 296).     *)
ExtraRepeated(n) == Window > 1 /\ n = TotalPacketCount + 1

Repeated(p) == p.type = DATA /\ p.ws = Window /\ p.data = Blank

(* How many packets have been sent once.                                   *)
SentOnce ==
    CASE pc = "build" -> Len(allp)
      [] pc = "send"  -> Len(allp) + slot - 1
      [] OTHER        -> tpc

(* From packet n + 1 on they are on their way, after extra others.         *)
Coming(n, extra) ==
    /\ extra + SentOnce - n <= Len(Up)
    /\ \A k \in 1..extra : Repeated(Up[k])
    /\ \A k \in 1..SentOnce - n : IsSent(Up[extra + k], n + k)

(* What the server has written: the text of each packet in its row.        *)
RowsWritten ==
    /\ \E m \in 0..Len(allp) : Len(allp) = m * Window
    /\ \A k \in 1..Len(allp) : /\ allp[k].data = TextOf(k)
                               /\ allp[k].seq <= 100 + NumberOf(Len(allp))

(* The server holds packet n in slot i, and its acknowledgement as it is   *)
(* sent unless EOT is on its way, ...                                      *)
Held(i, n) ==
    /\ rec[i].data = TextOf(n)
    /\ rec[i].seq <= 100 + NumberOf(n)
    /\ n <= TotalPacketCount => rec[i].ws = i /\ rec[i].seq = 100 + NumberOf(n)
    /\ n <= TotalPacketCount /\ tpc <= TotalPacketCount + 1 =>
          /\ trn[i].type = ACK /\ trn[i].seq = NumberOf(n)
          /\ trn[i].last = 0 /\ trn[i].re = 0

(* ... or the slot is as the window before has left it, ...                *)
Left(i) ==
    /\ rec[i].seq <= 100 + NumberOf(Len(allp))
    /\ i = 1 => rec[i].ws = 0
    /\ Len(allp) > 0 => rec[i].data = Blank

(* ... and so it holds the first j packets of the next window.             *)
Holds(j) ==
    /\ maxW = Window
    /\ \A i \in 1..j : Held(i, Len(allp) + i)
    /\ \A i \in j + 1..Window : Left(i)
    /\ Len(allp) > 0 => \A i \in 2..Window : rec[i].ws = i

-----------------------------------------------------------------------------
(* The SYN, or its answer, is on its way.                                  *)
Greeting ==
    /\ InHandshake /\ allp = <<>> /\ needed = 0
    /\ Len(Up) + Len(Stream) = (IF pc = "start" THEN 0 ELSE 1)
    /\ phase = IF e2s = <<>> /\ s2e = <<>> THEN "client" ELSE "server"
    /\ IF Stream = <<>> THEN prev.seq = 0
       ELSE maxW = Window /\ \A i \in 1..Window : rec[i].seq = 0

(* The packet built last; the earlier client counts no timeout.            *)
Copied == copy.data = TextOf(tpc) /\ copy.last = 0 /\ needed = 0

(* The client builds a window, sends it and waits, or goes back to build.  *)
AtWindow ==
    /\ ~InHandshake /\ pc # "resend"
    /\ Len(allp) <= TotalPacketCount + 1 /\ tpc <= Len(allp) + Window
    /\ pc = "build" => tpc = Len(allp) + slot - 1 /\ Packed(Len(allp), slot - 1)
    /\ pc = "send" => /\ Len(allp) + slot <= tpc /\ Packed(Len(allp), tpc - Len(allp))
                      /\ tpc \in {Len(allp) + Window, TotalPacketCount + 2}
    /\ tpc <= TotalPacketCount + 1 =>
          /\ pc = "receive" =>
                rac = 0 /\ tpc = Len(allp) + Window /\ Packed(Len(allp), Window)
          /\ pc = "repair" => tpc = Len(allp) /\ Packed(tpc - Window, Window)
          /\ pc # "done" /\ Copied

(* It speaks until its window is sent, and then it is heard out.           *)
Turns ==
    tpc <= TotalPacketCount + 1 /\ Len(allp) # TotalPacketCount + 1 =>
        /\ Stream = <<>>
        /\ phase = IF pc # "receive" \/ c2e # <<>> THEN "client" ELSE "server"

(* The server has taken j packets of the window.                           *)
Carried(j, extra) ==
    /\ extra = 1 => j = 0 /\ ExtraRepeated(Len(allp))
    /\ Holds(j)
    /\ Len(allp) + j <= SentOnce /\ Len(allp) + j <= TotalPacketCount + 1
    /\ Coming(Len(allp) + j, extra)
    /\ tpc <= TotalPacketCount + 1 \/ pc = "send" =>
          Len(Up) = extra + SentOnce - (Len(allp) + j)
    /\ pc = "repair" /\ tpc <= TotalPacketCount + 1 =>
          \A i \in 1..Window :
              acked[i] = 1 \/ (i = Window /\ extra = 0 /\ ExtraRepeated(tpc))

Filling ==
    AtWindow /\ Turns /\ \E j \in 0..Window - 1, extra \in 0..1 : Carried(j, extra)

(* The window has been written and its burst is on its way: the client has *)
(* counted the answers to the first rac packets.                           *)
Answers(p, k) ==
    LET n == tpc - Window + k
    IN  /\ p.last = 1 <=> k = Window
        /\ ~ExtraRepeated(n) => p.type = ACK /\ p.seq = NumberOf(n)
        /\ k < Window => p.re = 0

Answering ==
    /\ pc = "receive" /\ tpc <= TotalPacketCount + 1 /\ tpc = Len(allp)
    /\ Packed(tpc - Window, Window) /\ Copied
    /\ Holds(0)
    /\ Up = <<>>
    /\ Stream # <<>> /\ rac + Len(Stream) = Window
    /\ \A k \in 1..Len(Stream) : Answers(Stream[k], rac + k)
    /\ \A i \in 1..rac : acked[i] = 1
    /\ phase = IF s2e = <<>> THEN "client" ELSE "server"

(* EOT has come: all windows are written.                                  *)
Windows == (TotalPacketCount + 1 + Window) \div Window

Complete == spc = "exited" /\ Len(allp) = Windows * Window

(* Either a packet or an answer is on its way and the windows before it    *)
(* have been written, each once and in order, or all is done.              *)
CarryInv ==
    /\ RowsWritten
    /\ Complete \/ (spc = "listen" /\ (Greeting \/ Filling \/ Answering))

=============================================================================
