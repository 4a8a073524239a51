# Send-And-Wait: a verification of the client, the emulator and the server

Three C programs carry a file over UDP: `client.c` sends it in windows of
500-byte packets, `server.c` writes it to `data/received.txt`, and `emulator.c`
stands between them as a half-duplex line that discards packets at random. A web
service records when packets are lost, and a page shows it. This directory holds
TLA+ models of all of these and of the composition of the three programs, the TLC
runs that check them on small instances, and proofs about the server, the
emulator, the three programs together and the service, for every file, window,
noise and network.

## 1. Inventory

### The protocol

```
    client --c2e--> emulator --e2s--> server        SYN, DATA, EOT
    client <--e2c-- emulator <--s2e-- server        SYNACK, ACK
```

SYN announces the number of chunks, SYNACK answers with the window size
(at most 15). The client then sends a window, waits for the burst of
acknowledgements the server sends when the last slot of the window arrives,
sends again what is missing, and builds the next window. After the last chunk
comes one more packet that repeats the number of the last chunk without its
text, then EOT, at which the server exits. Every program handles one datagram at
a time; they share nothing but the four socket queues. The project's own
requirements put them on two hosts of one LAN (`data/send.txt` 1).

### Components

| component | source | state | operations | what makes it correct |
|---|---|---|---|---|
| client | `client.c` | window (`transmit_packets`), the `acked` flags, `received_ack_count`, `total_packet_count`, the packet built last, flags that are never initialised | send SYN, repeat it, take the SYNACK, build, send, resend, receive an acknowledgement, time out, repair | all chunks go out, in order; an acknowledgement counts for a packet that arrived; the array of acknowledgements is indexed in bounds; it finishes |
| emulator | `emulator.c` | whose turn it is, the random number `r` | relay or lose a packet of either side, exit on silence | it only loses; order is kept; the turn passes together with a packet; retransmissions get through |
| server | `server.c` | `received_packets`, `transmit_packets`, `all_packets` with `write_count`, `msg`/the file, `previous_ack_sent`, the local `ack`, which is never initialised | SYN, DATA, EOT, timeout | the two window tables agree; no text twice; no text that was not sent; every answer is well formed and the last of a burst is marked; it does not divide by 0; what is received is not taken back |
| packet and helpers | `packet.h`, `handlers.c` | none | packet types, sizes, `sendPacket`, `rand100` | - |
| earlier versions | `client copy.c`, `emulator_original.c`, `emulator_no_warns.c`, `emulator stable.c`, `emulator fail.c` | as today's, and `retransmission_needed`, `test` | as today's | they still work with the programs of today |
| status service | `network-status-db/` | entries in MongoDB, requests under way | save a report, list the entries | a confirmed report is kept, once; everybody is answered |
| status page | `network-emulator/` | what it shows | load, ask, draw | it is not older than what its user knows |
| configuration, printing, logs | `handlers.c`, `config.txt`, `logs/` | none the protocol reads | - | not modelled |

### What is hard

* *Interleaving and order.* The half-duplex line holds back what the other side
  sends; it arrives in a later turn, among the answers to something else. In the
  service, saves and queries overlap.
* *Timeouts.* All three programs wait five seconds (the client ten in the
  handshake), the emulator delays packets by any time it is told to, and each
  retransmits, or exits, while the answer may be on its way.
* *Stale state.* The server's window keeps the slot numbers of the window
  before; `r` is drawn after a loss and not for each packet; `malloc` returns
  old memory; the flags `last` and `re` of several packets are never assigned;
  the emulator's sockets keep what one transfer has left for the next.
* *Boundaries.* The window size need not divide the number of packets, one
  packet falls between the branches, the tables of the server are sized by
  formulas that do not cover what is written to them.
* *Liveness.* Everybody may wait for everybody, and the programs exit.

`PROJECT.json` lists the hazards one by one, at their lines, with the properties
that would catch them.

## 2. The modules

| module | models | remarks |
|---|---|---|
| `Packets` | `packet.h`, the pure helpers, the socket queue | a payload is a chunk of the file, `Blank` or `Junk` (old memory); numbers are those the code computes |
| `Server` | `server.c` | one action per turn of the receive loop: the tables, the acknowledgements and the write that follow are part of it. The environment (`Arrive`, `Collect`) may do anything to the packets of a client |
| `Client` | `client.c` | the loops over a window are taken one packet at a time, so that the network moves in between |
| `EarlierClient` | `client copy.c` | extends `Client` by what it does differently |
| `Emulator` | `emulator.c` | one action per datagram |
| `EarlierEmulator` | `emulator_original.c`, `emulator_no_warns.c`, `emulator stable.c` | extends `Emulator` by their turn of the client |
| `SendAndWait` | the three together | extends `Server`; client and emulator are instances over the same four queues; which versions run is chosen at the start (`version`); timeouts; fairness; the invariant of the system |
| `SystemHistory` | - | `SendAndWait` with a history: what the server has taken (`taken`), whether a packet was passed by chance in this turn (`lucky`); the properties that speak of it, and `HistoryInv` |
| `AckOrder` | - | numbers, slots and the order of the answers on their way: the invariants `PlacesInv` and `CountInv` |
| `Undisturbed` | - | a transfer over a network that loses nothing, packet after packet: the invariant `CarryInv` |
| `SecondTransfer` | two transfers, one after the other | client and server are started again, the emulator runs on |
| `Disorder` | the network between hosts | `SystemHistory` with datagrams that are delayed or doubled on any hop |
| `Status` | the service and the page | requests, the database's inserts and finds, the answers, the end of the process and its restart |
| `LossyFifo` | abstract | a line that loses and does nothing worse |
| `FileTransfer` | abstract | the file appears at the receiver, piece by piece, and in the end all of it |
| `MCServer`, `MCEmulator`, `MCSendAndWait`, `MCDisorder`, `MCStatus` | - | files, inputs and bounds for TLC |
| `ServerProofs`, `AnswerProofs` | - | theorems about `Server` |
| `EmulatorProofs`, `StatusProofs` | - | theorems about `Emulator`, and about `Status` with the pages of `MCStatus` |
| `SystemProofs`, `HistoryProofs`, `AckOrderProofs` | - | theorems about `SendAndWait`, with its history and the order of its answers |
| `UndisturbedProofs` | - | theorems about `SendAndWait` while nothing is lost |

`SendAndWait` extends `Server` instead of instantiating it because the prover
cannot cite the theorems of an instance: this way what is proved of the server's
actions is used for the system as it stands. The client's variable `garbage` is
`cgarbage` there, the emulator's `timer` is `etimer`.

Correspondence of names: variables and operators keep the names of the code
where TLA+ allows it (`max_window` is `maxW`, `received_packets` `rec`,
`transmit_packets` `trn` in the server and `tp` in the client, `all_packets[0 ..
write_count - 1]` `allp`, `received_ack_count` `rac`, `total_packet_count`
`tpc`). Arrays start at 1 in the models. Operators marked `FAULTY` are not part of
a model: each is a definition with a plausible bug, and substituting it makes TLC
refute the property `PROJECT.json` pairs it with, which shows that the property
depends on that code.

Where the C code leaves a value undefined the models choose:

* `last` and `re` of `syn_packet`, `data_packet` and `ack` are any of `Flags`;
  `test` of the earlier client is 0 or, by chance, the number of an
  acknowledgement;
* a timeout whose `tv_usec` was never assigned is accepted or not (`Armed`);
* the text of a freshly allocated slot is `Blank` or `Junk`; its numbers are 0,
  standing for numbers that name no packet;
* `data_packet`, a local of the loop body, keeps the bytes of the iteration
  before, as it does in the build `compile.sh` makes (no optimisation);
* a text longer than a packet's buffer ends the loop that writes a window
  (`server.c` 278); only old memory can be that long, so at each slot that holds
  `Junk` the loop may end (`Reached`) and leave the rest as it is (`Remaining`);
* past the end of `all_packets` or `msg` the outcome is any of `HeapFaults`:
  harmless, a garbled file, or an abort before or after the file was truncated.

### What is assumed of the network

Every hop of `SendAndWait` is a FIFO with a bounded buffer (`Put`): what is sent is
received in the order it was sent or, if the buffer is full, not at all. That is
UDP on one host or one cable. Between hosts UDP promises neither order nor single
delivery. Two models go further: `Server` alone is fed any packet of a client at
any time, any number of times and in any order (`Arrive`), and its theorems hold
for that network; `Disorder` lets a datagram go astray on any of the four hops,
arrive any time later and, if the network doubles it, twice. `NoEarlyData`,
`HandshakeAgreed` and `NoFalseAck` are checked there too. The other properties of
the composed system and all its theorems rest on the FIFOs, `NoLateSyn`,
`RacInBounds`, `LossesFirst`, `SynsAnswered` and `NothingWithdrawn` so much that one
delayed datagram refutes each. They speak of one run of the client; what the next
finds in the emulator's sockets is in `SecondTransfer`.

## 3. The runs

Runs that pass:

| run | instance | shows |
|---|---|---|
| `server` | 4 chunks, windows of 2, up to 6 table rows (three windows; the table has room for 5), every packet of the client any number of times, in any order | `TypeOK`, `NoChunkTwice`, `AnswersOK`, and `Inv`, the invariant of the proofs, with its parts `TablesAgree`, `WindowDistinct` and `NoJunkBeforeEot` |
| `emulator` | any packets of both sides, one waiting on each, two on the way on | `QueuesOK`; `UpIsLossyFifo`, `DownIsLossyFifo`: each direction implements `LossyFifo`; `TurnHandsOver`: the turn passes only together with a packet |
| `lossless` | 7 chunks, some repeated, windows of 3; all six combinations of versions; no loss; timeouts only when the network is silent | `TransfersFile`: the composition implements `FileTransfer`, including that the transfer is completed; `TransfersInOrder`, the safety part of it, and `WindowsWrittenOnce`; `LossRepaired`: all is there when the server exits; `OverrunIsPadding`: behind the end of `all_packets` only empty slots are written; `CarryInv`, the invariant of their proofs |
| `lossy` | 3 chunks, windows of 2; all six combinations of versions; packets lost either way; three timeouts at any moment | `SystemTypeOK`, `NoEarlyData`, `NoLateSyn`, `RacInBounds`, `LastSlotMarked`, `NoFalseAck`, `LossesFirst`, `NothingWithdrawn`, `SynsAnswered`, and the invariants of the proofs: `SystemInv`, `HistoryInv` (of which `HandshakeAgreed` is a part), `PlacesInv`, `CountInv` |
| `disorder` | 3 chunks, windows of 2; one datagram delayed or doubled on any hop, two timeouts at any moment | `NoEarlyData`, `HandshakeAgreed`, `NoFalseAck` between hosts |
| `live` | 2 chunks, windows of 2, socket buffers of 4 | `ClientFinishes`: whatever is lost, the client comes to its end; `ServerInContext`: the composition implements `Server`, fed with the packets this client sends; `RetransmitsUnanswered`, `LeavesWindow`, `AnswersGetTurn`: no answer is waited for without retransmitting, no window is kept once its burst is received, no answer is held back |
| `status` | two reports, two pages | `TypeOK`, `ReportsKept`, `Inv`; `FreshPage`: no page shows a state older than a report confirmed before it was opened; `AllAnswered` |

Runs in which TLC refutes what the project's documents say of the program; the
quotations are in `PROJECT.json`:

| run | property | what happens |
|---|---|---|
| `loss_repaired` | `WholeFileArrives` | the repair of a lost packet is sent once, unacknowledged (`client.c` 296-307); the server completes the window without it, or exits at EOT |
| `same_number` | `AckedTextTaken` | two packets have one sequence number; one's acknowledgement counts for the other |
| `twice` | `NoChunkDeliveredTwice` | repeated windows use up the table of written packets, after which a chunk is written again |
| `live_armed` | `ClientFinishesAnyway` | the emulator exits when the server is silent for five seconds |
| `second_transfer` | `HandshakeTakesSynAck` | an acknowledgement left over from the first transfer is taken for the SYNACK of the second |

What else the runs and the model showed, the first of it by changing the
constants of a run:

* `WholeFileArrives` needs no loss to fail: with the repeating file and the other
  constants of `lossless` TLC shows that the second of two equal chunks in a row is
  sent without its text (`client.c` 189). `LossRepaired`, in `lossless`, is the same
  property with these chunks excepted (`Keeps`): it holds there, and fails with
  losses.
* `ClientFinishesAnyway` fails also with `Armed` = {FALSE} in `LiveArmed.cfg`: the
  system has refused the timeout with its microseconds that nobody assigned
  (`client.c` 115), and a lost packet leaves the client waiting for ever.
* `live` with `ClientBefore` for its `Versions` refutes `RetransmitsUnanswered`: the
  earlier client rounds its timeout down to none (`client copy.c` 170); and
  `LeavesWindow`: after one timeout it sends its window again for every answer,
  also the one that ends the burst (297). With `EmulatorBefore` it refutes
  `AnswersGetTurn`: the earlier emulator passes on a resent window, its last packet
  too, and listens to the client still (`emulator stable.c` 153). There
  `write_count` grows without end; for a finite cycle the server has to be ended by
  the heap once the file is too long for `msg` (`HeapFaults` with `aborted`), long
  after the answers have begun to wait. Each is a cycle in which the system goes on
  fairly. The mutants of these properties are the same mistakes made in today's
  programs, where the structure of the code allows it.
* The acknowledgement marked as last moves the window on whatever is still
  unacknowledged (`client.c` 296): what is missing is sent once more, not waited
  for. That is the first half of `loss_repaired`.
* The client does not bound `received_ack_count` (`client.c` 255); what keeps it in
  its window is that the burst of answers has a marked last one. If the packet
  after the last chunk fills a window (the number of chunks plus one is a multiple
  of the window) and a receive buffer overflows, a burst can lose its marked end;
  after timeouts the acknowledgement of the last chunk, whose number the extra
  packet shares, is then counted for both. TLC shows it with three chunks in
  windows of two, buffers of two and four timeouts. The theorem
  `CountAlwaysInBounds` says that it cannot happen with other files.
* `SynsAnswered` holds also for windows of ten and more, in which an
  acknowledgement has the number of a SYN (`server.c` 100): by then no SYN is on
  its way. In `disorder` it may be.
* `WindowsWrittenOnce` counts the rows a file needs in `all_packets`: the number
  of windows times their size. With the code's windows of 15 this exceeds the
  `max_packets + 1` rows there are (`server.c` 281) for every file of nine chunks
  or more, also when nothing is lost; `OverrunIsPadding` says that these rows are
  empty. `msg` (`server.c` 277) is too short for
  every file of 1 to 500 chunks.
* Even without loss the client resends the extra packet and EOT after the last
  burst, which leaves the emulator in the server's turn: it exits after five
  seconds or waits for the server of the next transfer. If the user does not
  wait for the network to fall silent, such a leftover reaches the new server
  before any SYN, which divides by zero; `NoEarlyData` and its theorem are about
  one transfer.

### Bounds

* `File`: 2 to 7 chunks. Three chunks in windows of two, or seven in windows of
  three, give a full window, a window with the extra packet, and one cut short
  by EOT; two chunks give the file of one window.
* `WIN` (15 in the code) is 2 or 3, the smallest windows with a first, a last
  and, for 3, a middle slot.
* `MaxTimeouts` bounds the timeouts of a run to 2, 3 or 4. Each leads to one
  retransmission of a window or burst; three allow a late burst to answer a
  second transmission that itself is repeated. The earlier client, which resends
  for every datagram after its first timeout, is given one less (`Patience`).
  `live` and `lossless` have no such bound.
* `MaxStrays` bounds the datagrams that are delayed or doubled in `disorder` to 1,
  with two timeouts; `RandValues` has one value there, so that chance loses
  nothing: a datagram that never arrives is lost by the network.
* `MaxRows` bounds `write_count`, which repeated windows drive up without end:
  6 rows in `server`, one more than `all_packets` holds there, 8 elsewhere.
* `SockBuf`, the socket buffer, is 1 in `server` (the network may lose, repeat and
  reorder there anyway), ample in most runs, and 4 in `live`, so that packets
  are also lost by overflow.
* `MaxWaiting` bounds the packets that wait for the emulator to one on each side;
  in `lossy` they queue without it.
* `RandValues` has one value on either side of the noise: the code only compares.
* `Versions` is every combination in `lossless` and `lossy`, today's elsewhere.
* `Inputs` in the runs of the composition is `ClientSends`, the datagrams a client
  sends for that file; `ServerInContext` is checked against it, a narrower set
  than the one its theorem uses.
* `Flags` is {0} in all runs (`emulator` is sent packets with either value of both
  flags); the SYN of `server` is marked as last, so that it is answered even when
  its number coincides with an acknowledgement's. `HeapFaults` is {harmless}
  in the composition, whose properties speak of the file as if the heap had
  held, and contains an abort before and after the truncation in `server`. The
  proofs assume nothing about either, where not stated.
* Two reports and two pages give every overlap of two saves, a save and a query,
  and a request that dies with the service because of another.

### Fairness

A program that can take a step takes it (weak fairness of each program): they
are processes that run. Timers need strong fairness: a receive timeout counts on
while its queue is empty, but other steps interrupt that state again and again,
and a scheduler that always passed one program's timer over would let five
seconds never end. No fairness is assumed of the network or of `r`; retransmitted
packets pass the emulator whatever `r` is, which is what `ClientFinishes` rests
on. The timeouts of `ClientFinishes` are those that were accepted: it assumes the
client's timer is in force and the emulator's is not, and `live_armed`, whose
property assumes neither, shows that the second assumption is needed.
`RetransmitsUnanswered` assumes only that the client's timeout was accepted at the
start, so that a later call that takes it back is caught.

In `Status` the database gets on with the documents and queries it has been given
and the service with the answers it owes (weak fairness per request); nobody is
assumed to send a report, to open a page or to start the service again.

Deadlock is not checked: the programs exit, and a run ends when they have.

## 4. The proofs

Every theorem holds for every value of the constants; what is assumed of them
are the named assumptions of `Packets`, `Server`, `Emulator` and `SendAndWait`:
the file has a chunk, `Blank` and `Junk` are no chunks of it; a window, a socket
buffer hold at least one; the random numbers are those of `rand100`, 0 to 100
(`emulator.c` 23), and the noise is an integer; `Inputs` are packets a client may
send.

### The server (`ServerProofs`, `AnswerProofs`)

    THEOREM Invariant == Spec => []Inv

and from it `TypeCorrect`, `NoChunkWrittenTwice`, `AcknowledgedIsHeld`,
`SlotsDiffer` and `NothingUninitialised`, which state `StateTypeOK`,
`NoChunkTwice`, `TablesAgree`, `WindowDistinct` and `NoJunkBeforeEot`.

None of these properties is inductive alone. `NoChunkTwice` needs that a window
holds no number twice (`WindowDistinct`), that the sizes are those of the file
once anything is written (`Sized`, with which the search covers all rows as long
as they fit), and that a slot filled by a packet has a number above 0
(`SlotsFilled`). `NoJunkBeforeEot` needs that an unsent text is in empty slots
only and that the rows written so far are clean (`NoJunkWritten`). `TablesAgree`
carries `SlotsFilled` through duplicates, whose slot stays as it is. `Inv` is
their conjunction.

The argument: `WindowOK` says what a table of slots and a table of
acknowledgements are together, apart from the variables. `ReceivedWindow`,
`MarkedWindow` and `EmptiedWindow` show that receiving a packet, marking the last
acknowledgement and emptying the window preserve it; `AppendedOnce` that the rows
of a new window do not repeat text; `WriteKeeps` puts these together for the
write, which DATA and EOT share; then there is one lemma per action, and `NextInv`
collects them.

`AnswersReliable` adds that every answer sent is an `Answer`: a SYNACK carries the
size of the window, an acknowledgement names a slot, that of the last slot is
marked as last. The marking is not kept in the table but made when a burst is
sent, so the strengthening (`AnswersReady`) speaks of what the table may hold
between bursts: an acknowledgement of the last slot is already marked, because
its packet is answered at once. That a burst consists of entries of the table is
`BurstFacts`; `Burst` names the k-th present slot (`Nth`), which is shown to exist
by looking at a least element instead of by induction. `ServerTypes` is the type
invariant with the queues.

### The emulator (`EmulatorProofs`)

`UpLosesOnly` and `DownLosesOnly`: each direction implements `LossyFifo`, for every
noise and random sequence, also when a full buffer discards; `QueuesInvariant`
bounds the queues and is the invariant the step lemmas (`UpStep`, `DownStep`) use.
`TurnPassesWithPacket` states `TurnHandsOver`.

### The three programs (`SystemProofs`)

    THEOREM SystemInvariant == SystemSpec => []SystemInv

for every combination of versions, with timeouts at any moment. `SystemInv` has
the server's invariants and

* `WindowBuilt`: past the handshake the client knows a window size of 1 to
  `Window`, and all it can send of its window has been built. The first window
  fills before EOT can cut one short (a file is at least a window long), so
  slots behind EOT hold packets of the window before: nothing unwritten is sent;
* `Quiet`: before the first SYN nobody has anything to answer;
* `SynsFirst`: in both queues on the way to the server SYNs are in front of all
  else, and while one is on its way the server has received nothing but SYNs;
* `OnTheWay`: the queues hold packets of a client, and `Answer`s.

The client's part: `ClientSteps` shows that every step of both clients keeps its
types and `WindowBuilt` and `Speaks`: it sends nothing, or a SYN in the handshake,
or afterwards something built, which `UnstampedFacts` and `NextBuilt` take through
the cases of the code (`client.c` 160-204). The emulator's part: `EmulatorRelays`
reduces all versions to `Relays`, taking a packet and handing it on or not. The
server's part is that of `Server`. They are put together in `ClientKeeps`,
`EmulatorKeeps` and `ServerKeeps`.

From it: `SystemTypes` (`SystemTypeOK`), `NoDataBeforeSyn` (`NoEarlyData`),
`NoSynAfterData` (`NoLateSyn`), `LastIsMarked` (`LastSlotMarked`). `FileOnlyGrows`
states `NothingWithdrawn` under the assumption that the heap is not overrun
(`HeapFaults` is {harmless}, as in the runs): the file is the text of the rows
written, and no SYN empties them. `ServerAsSpecified` states `ServerInContext`,
with `Inputs` all packets of a client: the composition implements the server's
specification, so that all theorems of `ServerProofs` and `AnswerProofs` hold in
the system.

### What the acknowledgements mean (`HistoryProofs`)

    THEOREM HistoryInvariant == HistorySpec => []HistoryInv

`NoFalseAck` relates a slot the client counts to data the server took, possibly
long before and in another transmission, so an invariant has to carry the relation
through everything in between. `HistoryInv` says it of each place a number can be:

* `PacketsNumbered`: a data packet in a queue, in the client's window or in the
  bytes of the packet before (`copy`) is numbered 100 above its `AckNum`;
* `AnswersTruthful`: an acknowledgement in a queue or in the server's table names a
  number of a packet in `taken`, a SYNACK has the `AckNum` the window size gives;
* `OnlySynAcks`: before the client has left the handshake nothing but SYNACKs is
  on its way to it, so that what it takes for a SYNACK is one;
* `SynsAlone`: as long as a SYN may come, the last acknowledgement is none or a
  SYNACK and does not have the number of a SYN;
* `HandshakeAgreed`, which `disorder` checks too: the window of the client is the
  server's;
* `LuckyTurn`: once an original was passed by chance in a turn of the client's, `r`
  is above the noise until the turn ends.

From it `AcksAreTrue` (`NoFalseAck`), `WindowAgreed` (`HandshakeAgreed`),
`LossesComeFirst` (`LossesFirst`) and `EverySynAnswered` (`SynsAnswered`). `NoFalseAck` compares `AckNum`s, which the client
does; that two packets share one is why it does not say that the text has arrived
(`same_number`). The steps of the client are `ClientNumbered`, those of the server
`ServerSaysTruth`, the emulator's versions are reduced to `EmulatorDecides`.

### The client's count (`AckOrderProofs`)

    THEOREM AcksNameBuilt  == HistorySpec => []PlacesInv
    THEOREM CountsInWindow == HistorySpec /\ [](ExtraIsLast => Roomy) => []CountInv

`RacInBounds` says that the array of the window is indexed within it. The code has
no test for this: the loop ends when an answer marked as last arrives. The count
could pass the last slot only if an answer that is not marked were counted for it.

`PlacesInv` shows when that could be. `NamesBuilt`: number and slot of every packet
and every acknowledgement, wherever it is, are those of a packet that was built;
`WindowFilled`: the window holds consecutive packets up to its end, or ends with
EOT, which is never acknowledged. With `NumberOnce` (only the last chunk and the
packet after it share a number) and `SlotOnce`, an answer that is counted for the
last slot of a window is that of the last slot, and so marked
(`LastSlotMarked`), unless the extra packet is in it (`ExtraIsLast`): then the
acknowledgement of the last chunk, in the slot before, fits as well. Without
`ExtraIsLast` the count is in bounds whatever is lost: `CountAlwaysInBounds`.

With it the order of the answers decides. `Closed`: after an acknowledgement of the
last chunk that is not marked (`Shared`), a marked answer comes before another such
one; and when the client has counted all but the last slot, a marked answer is
before any shared one (the last conjunct of `Ordered`). A burst has this form
because the last slot, once filled, stays in the server's table (`LastMeansTaken`);
if the server's uninitialised `ack.last` was 1 at the start, every acknowledgement
is marked (`AllLast`). The emulator loses only answers that are not marked
(`HandsOn`), and losing those keeps the form (`ClosedWithout`); appending a burst
keeps it too (`ClosedConcat`). A full buffer may take away the marked end, hence
`Roomy`: while the buffers have room for a burst. This is an assumption on the
behaviour and not on the constants, true of the runs with ample buffers (12 in
`lossy`, in which `ExtraIsLast` holds); without it the property is false, see
section 3. `CountInBounds` is `RacInBounds` under it.

### A network that loses nothing (`UndisturbedProofs`)

    THEOREM CarriesWindows ==
        ASSUME Ample
        PROVE  HistorySpec /\ []Calm => []CarryInv

`WindowsWrittenOnce` and `TransfersInOrder` are false of a network with losses
(`loss_repaired`, `twice`), and true of one without. What "without" means is said
by `Ample`, of the constants, and `Calm`, of the behaviour:

* `Prompt`: a timeout comes only when no program has anything left to do;
* `HeapFaults` is {harmless}: writing past `all_packets`, which happens for every
  file of nine chunks or more, has no consequence;
* `Window < SockBuf`: a buffer takes a window and one packet more. The one more is
  there: a window whose last acknowledgement the client could not match is followed
  by the repeated extra packet (`client.c` 296) in front of EOT;
* `Noise < r` at all times, and the noise below the values that silence a side
  (`~E!Saturated`): chance loses nothing. Nothing is assumed of the draw itself;
* the flags that are never initialised are 0. This is needed: the original
  emulator passes on a data packet marked as resent without ending the client's
  turn, and with `dataRe` 1 and `Flags` {0, 1} TLC finds a run with it in which
  a window is written twice.

Every combination of versions is covered, and every file, window, noise and buffer
within these bounds. The run `lossless` is an instance of them, so its initial
states satisfy the hypotheses and stay within `Calm` for ever.

`CarryInv` says where every packet is. A transfer that has not come to its end is
in one of three situations:

* `Greeting`: the SYN or its answer is on its way, and nothing else;
* `Filling`: the client builds or sends a window of which the server has taken
  the first `j` packets (`Holds`: each in its slot, with its text, its number and
  its acknowledgement; the other slots as the window before left them, with
  numbers that are not taken for new ones) and the others are on their way, in
  order, preceded by at most one repeated packet (`Coming`);
* `Answering`: the window has been written, the client waits, and the rest of the
  burst is on its way, the answers to packets `rac + 1` to `Window` (`Answers`).

`RowsWritten` carries the result: row `k` of `all_packets` is packet `k`, with
its text, or none if the client has cleared it (`TextOf`), and no number among
the rows is above that of the last packet, so that the search for duplicates
finds nothing of a new window. `Turns` says whose turn it is at the emulator; with
it `NeverIdle` shows that no timeout fires before EOT has been sent. After EOT
the client and the emulator may do as they like, as long as they do not disturb
what is on its way to the server (`LateStep`).

The lemmas follow the three programs, one per action and situation:
`ClientCarries` (`Builds`, `Sends`, `Repairs`, `Answered`), `EmulatorCarries`
(`FillingPassed`, `AnsweringPassed`), `ServerCarries` (`SynAnswered`, `InnerTaken`,
`LastTaken`, `RepeatedTaken`, `EotTaken`). That the number of windows comes out
right is in `EotTaken`; that the clearing of repeated chunks (`client.c` 189) is the
recursion `Keeps` describes is `KeepsSolves`, which shows that the recursive
function has a solution by extending one from `n` to `n + 1`.

From it `EveryWindowOnce` (`WindowsWrittenOnce`) and `TextArrivesInOrder`
(`TransfersInOrder`): the received file is the text of packets 1 to
`Len(allp)` (`FileOfRows`), its non-empty chunks are the beginning of those of the
whole file (`SentPrefix`), so the system implements `FileTransfer!Spec`, the
abstract transfer without its promise of completion. `PaddingOverruns`
(`OverrunIsPadding`): row `k` is packet `k`, and `all_packets` has a row for every
chunk. `AllArrives` (`LossRepaired`): when the server exits the windows written
cover all chunks (`WindowsFill`), so what is delivered is all of `Sendable`.

### The status service (`StatusProofs`)

`StatusInvariant` and from it `ConfirmedIsKept` (`ReportsKept`) and `StatusTypes`
(`TypeOK`), for any number of reports and pages and any restarts. The invariant
ties the state of each document to its entry in the collection. `PageIsFresh`
states `FreshPage`: the reports a page must know were confirmed, hence in the
collection when it asked, and what it found has them: `KnownIsFound` (`KnownFound`).

### Only model-checked

Liveness, which the prover does not handle: `ClientFinishes`,
`RetransmitsUnanswered`, `LeavesWindow`, `AnswersGetTurn`, `AllAnswered`, and the
completion in `TransfersFile`, whose safety part is `TextArrivesInOrder`; and the
run `disorder`, since the theorems about its properties are for FIFO hops.

The other properties of the passing runs are stated by theorems, `RacInBounds`
under the condition above, `NothingWithdrawn` for a heap that holds, and those of
`lossless` for `Ample` and `Calm`.

## 5. What is not modelled

Addresses, arguments, the configuration file, printing, logs and the length of
delays; the server's NAK and the branches for packet types nobody sends (NAK,
TIMEO, SYNACK and ACK at the server); `Text` counts every chunk as a full one when
it measures `msg`; files of 2 GB, whose offset overflows; the empty file, whose
SYN the emulator does not relay; what lies past the end of the client's array
(the comparison is a choice there; `RacInBounds` and its theorems say when it is not
reached). `emulator fail.c` sends losses and EOT on as packets of type 6,
for which the printing it then does has no name, and is not composed with the
others. Of the web project, the drawings, the page that `index.js` serves and the
wording of errors.

## 6. Plan

Done: `Packets`, `Server`, `Client`, `Emulator`, `SendAndWait` with the two abstract
specifications and `ServerProofs`; then `EmulatorProofs`, the earlier versions, the
second transfer, the status service with `StatusProofs`, `AnswerProofs`, and
`SystemProofs`; then `HistoryProofs` and `AckOrderProofs`; then `Undisturbed` and
`UndisturbedProofs`; then `Disorder`.

What could follow:

1. A server that is restarted while the client still sends.
2. The invariants of the composed system without the FIFOs, as theorems: those of
   `disorder` hold there but are proved for FIFO hops only.
