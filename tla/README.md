# A TLA+ model of the networks-p2 peer

networks-p2 is a BitTorrent-like file exchange in C. A *peer* owns some 512 KiB
chunks of a file, each named by its SHA-1 hash. On a user's `GET` it floods
WHOHAS packets to the peers of its peer list, learns from IHAVE packets who owns
what, sends a GET for one chunk to one peer, and receives that chunk as 354 DATA
packets that it acknowledges cumulatively. The sending side paces DATA with a
window, slow start and congestion avoidance. Everything is UDP, sent through a
simulated network (`hupsim.pl`) that drops packets.

A peer is one thread: a `select` loop (`peer_run`, peer.c:285-354). Each
iteration runs, in this order, `timeout_check`, `get_all_the_thingz`, `peer_cc`,
one `peer_packet_ops` if the socket is writable, one `process_inbound_udp` if it
is readable, and the user's input. There are no locks and no threads; what is hard
is the order in which packets, deadlines and retransmissions reach a loop that
keeps its state in several linked lists pointing at each other.

## Inventory

| Component | State | Operations | Module | What makes it correct |
|---|---|---|---|---|
| Uploading half (peer_sender.c, sender lists of bt_parse.c) | a `bt_sender_list` record per receiver: last_acked, last_sent, window, threshold, counters, timer | process_whohas, process_get / send_data, process_ack, add/del_sender_list | `Upload` | progress is never lost, an upload ends, and only for a reason |
| Congestion control (peer.c: peer_cc, packet_sender) | the same records, the output queue | one pass over the senders per iteration: finish, give up, back off, send, keep | `Upload` | flow control, a timer always running, each loss counted once |
| List of uploads (bt_parse.c) | `bt_sender_list` cells linked both ways | add_sender_list, del_sender_list, the walk of peer_cc that deletes | `SenderList` | links undo each other, a walk misses nobody and follows no freed cell |
| Downloading half (peer_receiver.c, chunk lists of bt_parse.c) | `bt_chunk_list`, `bt_peer_t`, counters, has-chunk-file | timeout_check, get_all_the_thingz / send_get, send_whohas, process_ihave, process_data, finish_chunk, finish_get, process_user_get | `Download`, abstractly `Fetch` | chunk and peer point at each other, ACKs say what is held, GOT means all is there |
| Chunk files (chunk and data files, output file) | has-chunk-file, master chunk file, data file, output file | has_chunk, master_chunk, finish_chunk, finish_get, a restart | `ChunkFiles` | what a peer says it has it can send, the output is what was asked for |
| Two peers and their links | both halves, two FIFO links | the loops interleaved, transmissions, losses, programs stopped and started again | `Transfer` | what the sender believes finished was received; a GET completes |
| Output queue (queue.c, peer_packet_ops) | linked list of packets between head and tail | packet_push, packet_new, packet_pop, partial and failed sends | `OutputQueue`, abstractly `PacketFifo`; a sequence elsewhere | FIFO, whatever sends fail or fall short; a datagram is in fact never sent in part |
| Discovery and wire format | one flood and its answer | send_whohas, process_inbound_udp's length check, process_whohas, send_ihave, process_ihave | `Discovery` | a flood is never answered in part, and a readable one is answered when the first hash is owned |
| User input (input_buffer.c) | buffer, cursor | read, strchr, handing on a line, memmove | `InputBuffer` | every line once, whole and in order |
| Simulated network (hupsim.pl) | topology, routing tables, drop-tail queue per link and direction, agenda, sleep | createTable, enQ, recv, run, main loop | `Network`, abstractly `Links`; a drop-tail link in `Transfer` | shortest routes that agree, no lost wakeup, FIFO per pair of peers |
| SHA-1, conversions, make_chunks, command line, debugging, spiffy header, test programs, superseded peer_whohas.c / peer_ihave.c | | | not modelled | see the end |

The halves of one peer meet in three places: both append to the output queue;
`finish_chunk` adds to the has-chunk-file that `process_whohas` and `process_get`
read (`LearnChunk` of `Upload`); and both run in the same loop. Halves of
different peers meet only in packets.

What is hard to test, and what the properties are for, is listed with its lines under
`hazards` in PROJECT.json: late, lost and resent packets; ACKs and DATA that do not
say which chunk they belong to; deadlines that race answers; counters changed by
several functions; lists freed by one path and walked by another; a buffer that
is never cleared; counts that are signed chars; a program stopped while it downloads;
a sleep computed by one router and overwritten by another.

## Modules

Protocol:

* `Upload`: the uploading half. `pc` follows the loop: `Select`, then one `Cc...`
  step per turn of `peer_cc`'s while loop, `PeerPacketOps`, then at most one
  packet handler. `upload[p]` is the sender record of receiver p, with the field
  names of the code (`sent_time` only says whether the timer is armed). `expired`
  is the set of uploads whose five seconds are over in this iteration. `CcBackoff`
  leaves p in `todo` because the code `continue`s with the same sender.
* `UploadHistory`: `Upload` with a history variable that counts the losses
  peer_cc is shown.
* `Download`: the downloading half. `download` is the list of wanted chunks, a
  pointer to a chunk is a position in it; `packets` is the packet list of a chunk
  with `Hole` for the empty nodes that packets out of order leave behind; `heap` says whether that
  list is still allocated. A DATA payload is the hash of the chunk it was cut
  from. `Verdicts` gives what the hash of a reassembled chunk can come to,
  which is undefined when the list has holes.
* `Fetch`: what a download promises, without packets, timers, counters or
  pointers. `Download!ImplementsFetch` maps the chunk list to it: a chunk is
  held when `downloaded = 1`, and comes from `peer`.
* `Transfer`: peer A's downloading half and peer B's uploading half (both by
  `INSTANCE`) with a drop-tail FIFO link each way. `ARestart` and `BRestart` stop and
  start one of the programs: its lists and its queue are gone, its has-chunk-file is
  not, and any of the first packets on their way to it are lost meanwhile.

Parts of one peer, nearer to the machine:

* `OutputQueue`: queue.c with head, tail, the `next` links, malloc and free, and
  every outcome of sendto; refines `PacketFifo`, which is the queue the protocol modules
  take for a sequence (and without partial sends there, UDP sending whole
  packets).
* `LinkedList`: what is reached by following links in a heap, for the next two.
* `SenderList`: the list of uploads with its pointers, and a walk like that of
  peer_cc, which may delete every cell it comes to.
* `InputBuffer`: the cells of the buffer of standard input, which is never cleared,
  so that what earlier lines leave behind might be taken for text.
* `ChunkFiles`: the files of a peer, by ids and hashes. In the code, by the time
  `finish_get` runs every chunk of the list is in the has-chunk-file, so that the
  output is copied from the data file and never from the packets just received: the
  id that finish_chunk writes has to be the right one. A GET whose output file could not be
  written leaves its list behind, and the same GET typed again appends to it (`Again`).
* `Discovery`: one flood and its answer with the widths of the wire: lengths of 16
  bits, counts that are signed chars, 1500 bytes read at most, IHAVE split but WHOHAS not.

Network:

* `Network`: hupsim.pl. Links, `createTable` of every router (Dijkstra), `enQ`,
  `recv`, `run` and the main loop with its agenda. Time is counted in ticks, one being
  what a packet takes to transmit; a queue entry holds the ticks left until
  it is due, so that the clock itself need not be in the state.
* `Links`: per pair of peers a FIFO channel that loses packets, as the set of the numbers of
  those on their way, of which the least is delivered; `ImplementsLinks` maps the packets of
  a flow in all queues to it. It is what justifies the channels of `Transfer`.

`UploadProofs`, `DownloadProofs`, `ChunkFilesProofs`, `NetworkProofs` and `TransferProofs` hold
theorems about the module of their name (`DownloadProofs` the refinement of `Fetch` as well,
`NetworkProofs` that of `Links`), `PartsProofs` those about `SenderList` and `OutputQueue`,
`InputProofs` those about `InputBuffer` and `Discovery` and about the composition of the parts, and
`LeastNumber` lemmas that most of them use.

`MCUpload`, `MCUploadHistory`, `MCDownload`, `MCTransfer`, `MCNetwork` and
`MCParts` are the finite instances. `MCParts` holds five of the modules above, which share no
state: its variable `part` says which of them a behaviour belongs to, the others
stand still, so that a run checks each of them as it is on its own.

Definitions marked *Mutant* are not part of any specification: each is a slip
a programmer could make in the definition it precedes, and PROJECT.json pairs
it with the property that catches it.

## Runs

| Run | Instance | Shows |
|---|---|---|
| `upload` | 2 receivers, 3 packets, 2 losses allowed, window up to 3 | all invariants and action properties of `Upload`, and `UploadsEnd` |
| `download` | 2 sources; 2 chunks, or one hash twice; 2 packets each, 2 timeouts, failing files, 2 GETs | all invariants and action properties of `Download`, `ImplementsFetch`, `SilentPeersReleased` |
| `transfer` | 4 packets, links of one packet, 2 losses, either program restarted once | `DoneMeansReceived`, `GetCompletes` |
| `two_chunks` | 2 chunks of 6 packets, links of 8, 1 loss | one chunk is handed over to the next: `GetsAreServed`, `DoneMeansReceived`, `GetCompletes` |
| `network` | 4 routers, all 38 connected topologies, 2 flows of 2 packets to one peer, queues of 2, latency 1, oversleeping by up to 1 tick | `RoutesShortest`, `NeverOversleeps`, `ImplementsLinks`, `Drains` |
| `parts` | queue: 3 addresses, 4 packets of 3 bytes; uploads: 3 peers, 3 cells; input: a buffer of 9, 4 lines; files: 4 places with two chunks alike, 19 GETs, has-chunk-files of up to 2 lines; GETs of up to 6 chunks; flood: 14 numbers of chunks around every limit of the widths | `BytesAccounted`, `ImplementsFifo`, `PassMissesNone`, `LinesWhole`, `OwnedIsServed`, `GotIsRight`, `AnsweredWhole`, and the pointers in `PartsTypeOK` |
| six violations | see below | what the documentation says and the code does not do |

The bounds are the smallest at which the interesting cases happen. Three
packets with a window of three give bursts, a partial acknowledgement of a burst
and repeated ACKs; a limit of two losses lets one back-off succeed and the next
give up. Two receivers make the pass of peer_cc interleave. In a
download two packets are enough for a hole, for a repeated packet and for a
chunk whose second attempt starts with a full byte count. Four packets let
a burst of two follow another in a transfer, and links of one drop the second
packet of every burst. With six packets in each of two chunks, the first window outgrows
slow start and a loss early in a chunk leaves packets enough behind it for repeated ACKs to reach their
limit; links of eight hold more than the largest burst. Four routers are the fewest with two routes of the same length between
two of them, and with a route of three links, whose middle the other flow can join. Three addresses let an
address be given out again while two packets are queued. The buffer of nine
has room for two lines and a partial one. 74 chunks are the most that one WHOHAS may
list, 127 and 255 the limits of the signed and unsigned count, 3275 that of the length.

`MaxQueue`, `MaxWindow`, `ConnBound`, `MaxGets`, `MaxLosses` and `MaxRestarts` bound what the
code leaves unbounded: no packet is taken from the socket while more than `MaxQueue`
are queued (the loop does take it in the code, but this only makes the queue
longer), no ACK while a window is at `MaxWindow`, and counters stop at
`ConnBound`. `MaxSent` and `MaxLate` of `Network`, `MaxNew` of `OutputQueue` and `MaxLines`
of `InputBuffer` bound what the environment does; `MaxChunks` of `ChunkFiles` bounds the chunk
list, which grows each time a GET is repeated. `CHECK_DEADLOCK FALSE` is used with
`Download` and `Transfer` because a peer that dereferences a hole has crashed and
really stops, with `Network` and the parts because they stop when their environment
is done.

Six runs end in a violation; each quotes what the repository says:

* `strikes_are_losses`: the third repeated ACK leaves `retransmit` at its limit
  (the reset is commented out, peer.c:245), so one loss is counted until the
  upload is deleted (readme.txt:26-28 promises five losses).
* `done_means_received`: with two chunks, a resent packet of the first is counted
  in the second, which is acknowledged in full, fails its hash and is thrown
  away (readme.txt:29). It takes two losses, or one and a restart. With one chunk the property holds
  (`transfer`): the order of the link keeps attempts at the same chunk apart well enough, since
  their packets are the same. With two chunks and one loss it holds as well (`two_chunks`;
  also with 8, 10 and 12 packets in a chunk).
* `never_too_much`: a chunk whose hash fails keeps its `total_data`, which send_get does
  not reset either, so the first packet of the next attempt takes it above the size of a chunk
  ("Shouldn't get here!!!", peer_receiver.c:212) and finishes it, full of holes.
* `something_outstanding`: peer_cc sends only when `last_acked = last_sent`, and
  a back-off lets ACKs step over that (peer.c:276).
* `flood_finds_owners`: process_whohas hooks its list of owned chunks up at the first
  hash of the WHOHAS only (peer_sender.c:32), and a flood always lists the whole chunk
  file: a peer that owns the second chunk but not the first never answers
  (readme.txt:21-22).
* `floods_answered`: send_whohas puts all hashes of the chunk file into one packet, and
  process_inbound_udp reads 1500 bytes and throws out a packet of another length: a chunk file of more
  than 74 chunks is never answered, whatever its receiver owns (readme.txt:21-22).

Two disagreements show in single assignments, need no run, and are modelled as they are: `send_get` raises
`max_conn` instead of `cur_download` (peer_receiver.c:173), so `-m` limits nothing (bt_parse.c:58); and
process_ihave stops at the first chunk with a hash (peer_receiver.c:155), so that of two chunks with one hash
only the first learns about peers (readme.txt:9-11).

## Fairness

`Upload!Runs` and `Download!LiveSpec` assume that the loop runs: select has a
limit of 100 ms, so it never blocks. Of the clock it is assumed that an armed
timer which is not re-armed is found to have run out sooner or later; that is
strong fairness, because between two looks at the clock the loop runs other
steps. `Transfer!Live` adds the same for A's three deadlines (silence, bad,
flood). `GetCompletes` and `GetsAreServed` are checked with `Timely` (no deadline passes while a packet is on
its way, as round trips are milliseconds and deadlines seconds, and A's fifteen
seconds not while B, which resends every five, still uploads) and with `Prompt`
(the socket is writable and a packet that has arrived is read). No
fairness is assumed of the network: it may lose `MaxLosses` packets whenever it
likes, and the links drop what does not fit. Nor is any assumed of restarts: a GET that
a restart cuts short ends with the program, and one typed afterwards completes.

`Network!LiveSpec` assumes that can_read returns when its timeout is over and that routers
on the agenda are run (`Wake`, `Forward`, `RunDone`, weakly): the program is one loop that
blocks nowhere else. Nothing is assumed of the peers' packets.

## Proofs

`UploadProofs` proves, for any sets of peers and hashes, any number of packets per chunk and
any limits (the assumptions of `Upload`: at least one packet per chunk, a positive threshold
and limit of repeats), that `TypeOK`, `TimerCovers`, `NeverSentIsFresh`,
`RepeatsHandled`, `InFlightWithinWindow` and `SlowStartBelowThreshold` are invariants, and
that every step satisfies `QuitsForAReason` and `ProgressIsKept`.

The inductive invariant `IInv` is the conjunction of the six. None would do
alone: `retransmit` stays in its type only because `process_ack` runs when peer_cc has
dealt with repeats (`RepeatsHandled`), and that in turn is where
`CcBackoff`'s repeated turns have to end in `CcDead`; a sender that peer_cc passes over has
an armed timer only because a sender that was never armed has nothing
outstanding (`NeverSentIsFresh`). Lemmas about the operators (`SentOK`, `BurstOK`, `SlowedOK`,
`AckOK`) are stated once; then there is one lemma per action, and `StepInv`
puts them together. The action properties use the same invariant: `Removing`
says that only two actions shrink the list, `BackoffKeeps` and `SendKeeps` what
a pass leaves alone.

`DownloadProofs` proves, for any peers, any chunk files and any number of packets per chunk,
that `TypeOK`, `LinksConsistent`, `FetchesWhatIsMissing`, `CountsAgree` and
`AcksCountThePrefix` are invariants. Its inductive invariant adds two facts that the code
counts on and nowhere tests: a packet list is no longer than a chunk and next_expected at most
one past its end (`PacketsFit`), and the bound on GETs counts the one going on
(`GetsLeft`). The parts need each other. Peers and chunks point at each other after a list was
freed only because finish_get runs with the last chunk (`CountsAgree`), when
nothing is being fetched any more (`FetchesWhatIsMissing`); that `finish_chunk` counts a chunk once
follows from its still being missing; `timeout_check` and `finish_chunk` follow the pointers
of chunk and peer without a test, so that they keep the counts only as long as the
pointers agree; and next_expected has its type because of `PacketsFit`. That says of the byte count as well what
`AcksCountThePrefix` needs of it while nobody fetches the chunk: it is none, or that of a whole chunk left by an
attempt whose hash failed. That it is at a hole
again after add_packet_list has moved it, for packets in any order, is where the first gap of a list is
reasoned about (`FirstGapOK`, `PlacedOK`, `AddOK`); `AddOK` also shows that the byte count
is raised by the packets that were not held (`Filling` is what it keeps). A chunk written to changes one record
of the list and one of the peers: `Chunkwise` and `Frame` say once what such a step leaves
alone, and there is a lemma per action.

The second part of `DownloadProofs` uses that invariant for what a step may do. Steps fall into six kinds
(`Steps`): quiet ones, a timeout, a GET sent, a GET typed, DATA that leaves a chunk short and
DATA that completes one. `GotIsAll` proves `GotMeansAll`: the last chunk is announced when the counter
says so, the counter is right (`CountsAgree`), and what is marked is in the has-chunk-file.
`FetchesKeepGround` proves `FetchKeepsGround`. `FetchImplemented` proves `ImplementsFetch`
step by step: a timeout is `GiveUp` of the chunks whose peers are late (`TimeoutIsGiveUp`), `send_get`
is `Begin`, `process_user_get` is `Ask`, the last packet is `Hold` or `GiveUp` by what
its hash comes to (`LastIsHold`), and all else is invisible.

`PartsProofs` proves, for any finite heap, that the list of uploads is sound and
`PassMissesNone` (`UploadsSound`, `NoUploadMissed`), that the output queue is sound and implements
`PacketFifo` (`QueueSound`, `QueueIsFifo`), and that every byte of a packet is sent once
or still in the heap, `BytesAccounted` (`NoByteTwice`). A heap is hard to reason about
directly, so the invariants say that there is a sequence of distinct addresses whose links
are the pointers (`LinkedFrom`). That following the pointers comes to just that sequence
(`FollowedIs`, `ChainIs`) is shown once; what push, pop, insertion at the head and deletion in the middle
make of it are lemmas on sequences and link functions alone (`PushLinked`, `PopLinked`,
`AddKeeps`, `DeleteKeeps`), and the walk of peer_cc is a place in that sequence, with what is still due
after it. The sum over the sends of a packet is carried along as a function that has the
partial sums (`Totals`), extended by each send.

`InputProofs` proves, for a buffer of any size and any number of lines, that the input buffer
is sound and that `LinesWhole` holds (`InputSound`, `LinesHandledWhole`). How the text lies in the
buffer is said with counts only (`Lay`): a character belongs to the line that the number of newlines before
it tells, and there are as many characters of each line as have been typed; so reading and
moving are facts about how many places there are (`ReadLays`, `MovedLays`). What makes strchr safe on a
buffer that nobody terminates is `Behind`: no newline is ever left behind the text. A move
leaves the last cells of the buffer as they were, and with them a copy of text it has moved if that
reached so far. That is harmless because either the newline just overwritten was the only
one, or the text filled no more than half of the buffer (`MovedBehind`); this is where the bound on
`Read` is needed, and only reads that end two lines or more need it.

`ChunkFilesProofs` proves `OwnedIsServed` and `GotIsRight`, for any chunk files, has-chunk files
and numbers of chunks, under the assumptions of `ChunkFiles` (the ids of a chunk file are
0 to one less than the number of its lines, each of its hashes is in the master chunk file, and
has-chunk files list chunks under their ids of that file).
For the first, `FilesInv` says
that every line of the has-chunk file gives a hash the id it has in the master chunk
file. For the second, `GotInv` adds what the code counts on without checking: a chunk marked as downloaded is
recorded in the has-chunk file (`Recorded`), the list covers the chunk file asked for, and the
chunks not yet downloaded are as many as `num_downloaded` still has to go (`ListOK`). So
when the counter says that all is there no chunk is left, all are recorded,
and each place of the output is copied from the right place of the data file. That the
ids are distinct is not assumed but follows, since they are onto as many numbers as
there are lines.

The types of `ChunkFiles` (`FilesCounted`) rest on the same: `num_downloaded` stays within the
number of chunks asked for because each time it is raised a chunk of the list was still missing.

`InputProofs` also proves `AnsweredWhole` for every number of chunks whose WHOHAS has a
length of 16 bits (`FloodAnsweredWhole`), and that no packet read claims more hashes than it
holds (`FloodSound`). `FloodInv` follows the flood: the WHOHAS is on its
way; or it was thrown out, having more than the 74 hashes that fit the 1500 bytes read; or all
that is owned, if the first chunk asked for is, is in one IHAVE on its way or learned of. Lengths modulo
2^16 and counts as signed chars have to be reasoned about to see that a WHOHAS of any other size is
never taken for one that fits (`WhohasIs`). `PartsSound` and `PartsRight` then state for all
constants what the run `parts` checks: a behaviour of the composed parts is one of each part.

`NetworkProofs` proves `NeverOversleeps`, `RoutesShortest`, the types and `ImplementsLinks`, for any
number of routers, flows, delays and limits, and any set of connected topologies.
That they are connected is an assumption (`TopologiesConnected`) the code needs: createTable
follows predecessors back to itself and never ends where one was never set.

* Waking. While routers run, the sleep gathered so far is right for every router that is not on the
  agenda (`NetInv`): a router's queues change only when it is run or when it is put on the agenda,
  and it leaves the agenda when its wait has been taken into account.
* Routes. `VisitInv` is the invariant of Dijkstra's loop: the routers done have their
  distance, every link from them has been followed, none left is nearer than one done, and
  predecessors are one link nearer. After N visits all are done (`VisitsCounted`), so that the distance is the
  fewest links (`DistanceLeast`, `DistanceIsLinksTo`), and following predecessors
  back ends at a neighbour one link nearer to the destination (`RoutesBegin`). Each router makes its
  table for itself; that a packet which goes by one table after another gets there
  (`HopNearer`, `RoutesRight`) is that each hop takes it one link nearer, by whichever table.
* Order. Along a route, packets that are ahead, in the same queue or in that of a router
  nearer to the destination, have smaller numbers, and all are newer than the one delivered last
  (`InOrder`). Taking a packet from a queue leaves it between those ahead and those behind
  (`TakenOrder`), so that it may join the next queue or be dropped there (`QueuedOrder`). Hence what is
  delivered is the least number on its way, and each step of the routers is one of `Links` or
  none (`StepLinks`).

`TransferProofs` puts the two halves together. `TransferInv` is the inductive invariant of each
half and that a channel holds packets of the half at its other end only. Each step of the system is
a step of a half that `Download` or `Upload` allows with the packets that can arrive
(`AKeeps`, `BKeeps`), and a restart starts a half over without the other noticing
(`ARestartKeeps`, `BRestartKeeps`). So whatever is proved of a half alone holds in the composition
(`HalvesSound`), with its types (`TransferTypes`), for any files, capacity, losses and restarts.

`LeastNumber` proves that the least of a nonempty set of numbers is in it, by
the well-foundedness of finite sets under inclusion. It is what stands in for
induction: a set that has 0 and with each number the next has them all (`AllNumbers`), since it
lacks no least number; a function that goes on step by step from a first value exists and is the
only one (`StepwiseExists`, `StepwiseAgree`). With it, recursive functions such as Dijkstra's visits or the hashes
that a WHOHAS is answered with can be reasoned about for every length.

Left to TLC: liveness (`UploadsEnd`, `SilentPeersReleased`, `GetCompletes`, `Drains`), because ENABLED
and fairness are out of reach of the provers; `GetsAreServed`, which rests on `Prompt` and on what is in both
links at once; and `DoneMeansReceived`, which
does not hold for all constants (with two chunks it fails, see
`done_means_received`), so there is no theorem about it. Every other property of a passing
run is a theorem, or part of one. No module uses a RECURSIVE operator.

## Not modelled

* Content: a chunk is its hash, its packets are equal in size, the data of a
  hole is undefined. Failures to open or read a file are modelled (`IoResults`, `FinishGet`
  of `ChunkFiles`), a data file that is not in whole chunks is not (the last chunk is
  then hashed over a partly unset buffer, peer_sender.c:180).
* A GET typed while one is going on. It appends its chunks to the same list and
  resets the peers under the chunks being fetched; vulnerabilities.txt:7 says that it
  breaks the peer, and so it does: there is no promise left to check. The same holds for a GET of another file after one whose
  output could not be written: the old list is still there, and the ids of the new file
  are looked up in it first, so that the old file's chunks are written.
* Malformed packets and packets from unknown addresses are thrown out (`Idle`);
  an IHAVE from an unknown address dereferences NULL in the code and is left
  out. ACK and DATA numbers above the number of packets are not enumerated: no peer sends them,
  though the code takes DATA up to MAX_SEQNUM (peer_receiver.h:20, peer_receiver.c:475).
* An iteration may take a packet and a line of the user; the model takes them
  in two iterations. Nothing happens in between when no GET is going on.
* More than two whole peers at once. `Download` has several sources and `Upload` several
  receivers; the halves of one peer meet in a file and in the queue only.
* Two or more lines ended by one read that fill more than half of the input buffer, which
  takes a script on standard input: behind the text, a newline left by a move may then be found and
  the cursor falls below zero. A terminal ends one line at a time, and then no
  line is lost or invented (`InputProofs`).
* In the simulator: links of different speeds and packets of different sizes (all take one
  tick), time that passes while routers run (oversleeping stands for it), and topologies that are
  not connected, in which createTable never ends. That the array of predecessors is
  not reset from one table to the next matters only there.
* Byte order, the spiffy header (which names the end points that `Flows` stands for); SHA-1 and
  the conversions of hashes; parsing of command line and files; debugging; make_chunks; test
  programs; peer_whohas.c and peer_ihave.c, which the Makefile does not build.

## Plan

Done: everything above. Left, in this order:

1. `Swarm`: several whole peers, each with both halves in one loop, a chunk passed on by
   the peer that has just fetched it.
2. add_packet_list with its nodes in the heap against `Placed` and `FirstGap`.
