------------------------------ MODULE MCServer ------------------------------
(* The server alone, fed by a network that may do anything to the packets  *)
(* of one client.                                                          *)
EXTENDS Server

CONSTANTS c1, c2, c3, c4,
          MaxRows    \* bound on write_count, which repeated windows drive up

MCFile == <<c1, c2, c3, c4>>

(* What client.c sends for a file of n chunks in windows of w: n data      *)
(* packets, the last one again without its text, and EOT.                  *)
DataPacket(k) ==
    [type |-> DATA, seq |-> 100 + (k + 1) * Window, ack |-> (k + 1) * Window,
     ws |-> (k % Window) + 1, data |-> File[k + 1],
     last |-> IF (k + 1) % Window = 0 THEN 1 ELSE 0, re |-> 0]

(* The SYN has the number 100.  A data packet of a window of ten can have  *)
(* an AckNum of 100, too: then the server takes the next SYN for a         *)
(* repeated packet.  The second SYN stands for that coincidence here.  The *)
(* client does not assign last of a SYN; with a 1 the server answers even  *)
(* then.  In the server's own ack it is 0 here (Flags).                    *)
MCInputs ==
    {[type |-> SYN, seq |-> number, ack |-> 200, ws |-> TotalPacketCount,
      data |-> Blank, last |-> 1, re |-> 0] : number \in {100, 2 * Window}}
    \cup {DataPacket(k) : k \in 0..TotalPacketCount - 1}
    \cup {[DataPacket(TotalPacketCount - 1) EXCEPT
             !.ws = (TotalPacketCount % Window) + 1, !.data = Blank,
             !.last = IF (TotalPacketCount + 1) % Window = 0 THEN 1 ELSE 0]}
    \cup {[type |-> EOT, seq |-> 100 + (TotalPacketCount + 1) * Window, ack |-> 0,
           ws |-> Window, data |-> Blank, last |-> 1, re |-> 0]}

BoundedSpec == Init /\ [][Next /\ Len(allp') <= MaxRows]_vars

=============================================================================
