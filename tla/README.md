# REPS in htsim: a TLA+ verification project

The repository evaluates **REPS** (recycled entropies packet spraying), a per-packet
load balancer, inside **htsim**, a discrete-event network simulator written in C++
(`src/htsim/sim`). The Python around it (`src/experiments`, `src/artifact_scripts`,
`src/traffic_gen`) writes workloads, starts simulations, reads their traces and plots the
results. This project models the part that is the repository's own contribution: the UEC
transport as extended for REPS (`uec.cpp`, `uec.h`), the entropy buffer (`buffer_reps.*`) and
what they rest on, and of the Python the parts that keep state: the analysers of the event
trace, the drivers of the experiments, and the collective workloads.

## 1. Inventory

A simulation is one thread running an event list: an *event* is one call of
`doNextEvent()`, `receivePacket()` or `activate()`, and runs to its end. One event is
therefore one action of a model; concurrency is the freedom of the *order* in which
timers, packets and NIC completions fire, and the network's freedom to delay, reorder,
trim and drop.

| component | state | operations | hard part | what makes it correct |
|---|---|---|---|---|
| REPS buffer (`CircularBufferREPS`) | value and valid bit per slot, head, count, frozen head, fresh counter, frozen flag, explore counter | add, remove_earliest_fresh, peek, remove_frozen, reset | the counter is the only link between pops and valid slots; frozen pops punch holes in the middle | counter = valid slots; pops return learnt EVs; a reset leaves nothing behind |
| FREEZING balancer (`nextEntropy_freezing`, `processEv_freezing`, RTO part) | the buffer, soft replay cursor and ECN map | draw, feedback, freeze, thaw | feedback about packets sent before a freeze or thaw; deadline races | known EVs are all cycled, a freeze ends, prediction agrees with the draw |
| UEC sender (`UecSrc`) | tx map, rtx queue, send times, backlogs, in-flight counters, window tags, RTO timer, loss recovery state | start, ack, nack, pull, RTO, NIC grant | lost, trimmed, late and duplicate answers; an RTO racing an ACK; nested calls of `sendIfPermitted` | in-flight bytes match the records, each sequence number is in one place only, no early finish, all data gets through |
| KLB, SKLB, HKLB balancers (`nextEntropy_KLB`, `processEv_KLB`, ...) | slots or active set and list, send index, ECN streaks, cooldowns | draw, feedback by ACK and NACK | late feedback about abandoned paths; lotteries; two copies of the active set | no path held twice; nothing evicted comes back by old news; the fabric settles |
| stateful ECN queue (`StatefulECNQueue`) | incumbent table of a port: (flow, EV) to last time seen | arrival: refresh, evict expired, admit or reject, mark | lazy expiry; several ports write one ECN bit; packets that no table tracks | incumbents never marked, no ghost keeps a newcomer out |
| dual windows (SAFE / RANDOM) of the sender | two windows with cwnd and in_flight, tag per record | gate, CAP, idle reset, sync | a tag carried through retransmission; windows that depend on each other | the windows' in-flight bytes add up to the sender's |
| UEC sink (`UecSink`) | expected epsn, out-of-order bitmap, high-water mark, accepted bytes, pull state | data, trimmed, RTS, pull pacing | 64-entry SACK bitmap over a larger receive window; duplicates | never acknowledges what it has not got |
| NIC (`UecNIC`) | ports, data and control queues, round-robin counter | requestSending, startSending, cantSend, control send | a source may decline its turn; flags on both sides must agree | a source that wants to send is served |
| pull pacer (`UecPullPacer`) | active, idle and RTS lists | requestPull, doNextEvent | a sink may be in several lists | every demanding sink is served; speculative credit bounded |
| switch queue (`CompositeQueue`) | two deques and their byte counters, ECN thresholds | receive, begin and complete service | eviction of a queued packet while the head is in service | byte counters exact, headers survive |
| Ofan port order (`ofan_order.h`, `ofan_choose`) | pointer per (destination, type) | step, pick, weighted step | failed ports, non power of two | each live port once per round |
| event trace and analysers (`logRepsEvent`, `reps_event_viewer.py --verify`, C1, C1.1, C2 scripts) | the row before, draw counts, open freeze epoch, reconstructed fresh level | write a row; read a row | readers infer a draw from the snapshot before it and a head that has moved; rows of one step; a trace that starts late | what they report is what the sender did |
| experiment drivers (`run_sym.py`, `run_fig7.py`, `run_one()`, `run_c2.py`) | matrices of the tree and their backup, output and trace files | swap matrices, run a cell, skip a cell, restore | several programs in one tree; interrupts; a crash between any two steps | no result is lost, none of a wrong matrix goes unreported, no torn trace |
| collective workloads, triggers, connection map | trigger counters, flows under way, the ring each pair hands on | start, activate, finish | parallel flows finish in any order and share what they hand on | no chain stalls, no trigger fires too often, the collective computes its result, no deleted ring is used |
| event list | ordered map of events | schedule, cancel | | no event in the past |
| congestion control (NSCC, DCTCP/MPRDMA, receiver credit) | cwnd, averages | update on ack and nack | floating point feedback loops | bounds of cwnd |
| failure generator, fat tree, plain traffic matrices | maps of failures, routes | drop decisions, routing, parsing | random draws, strings | out of scope, see below |
| `main_uec.cpp`, legacy transports, other topologies, loggers, plots | | | | not modelled |

## 2. Plan

Modules in the order they are written; a later one may compose earlier ones.

1. `RepsRing`, `RepsBuffer`: the buffer and the FREEZING balancer. Abstract
   specification `EvRecycler`. Proofs in `RepsBufferProofs`. **Done.**
2. `UecSender`, `UecSink`, composed in `UecFlow`. Abstract specification
   `ReliableTransfer`. Proofs in `UecSenderProofs`, `UecFlowProofs` and
   `UecTransferProofs`. **Done.**
3. `KlbSender`, `StatefulEcn`, composed in `KlbFabric` (instances for TLC in `KlbMC`).
   Proofs in `KlbFabricProofs`. **Done.**
4. `RepsTrace` over `RepsBuffer`: the trace and its readers. Proofs in `RepsTraceProofs`.
   **Done.**
5. `SweepRunner`: drivers, files, crashes. Proofs in `SweepRunnerProofs`. **Done.**
6. `Collective`: workloads, triggers, `CONNECTION_INFO_MAP`. Proofs in `CollectiveProofs`.
   **Done.**

What would come next, in this order:

* `DualCwnd`: window arithmetic of the two dual algorithms: floors, CAP coupling, idle
  reset, sync of `_cwnd`. It would replace the free windows of `UecSender`. Proof: bounds.
* `UecNic`: one NIC, several sources and ports: a source queued twice, turns declined,
  control packets, work conservation. Abstract specification: a fair server.
* `PullPacer`: the credit pacer with several sinks, active and idle lists. Proof: a sink
  is in the lists its flags say.
* `EvBalancers`: the other balancers with feedback: plain and state-aware REPS, the excluded
  set of FREEZING_PXR, bitmap and mixed with their skip count.
* `OfanOrder`, `CompositeQueue`, `SwitchRing` (`circular_buffer.h`).

## 3. The REPS buffer and the FREEZING balancer

`RepsRing` translates `CircularBufferREPS`: a ring is a record and each method an
operator. `RepsBuffer` is the load balancer of one source around it. Actions:

| action | code |
|---|---|
| `DrawExplore`, `DrawFrozen`, `DrawFresh`, `DrawReplay`, `DrawRandom` | the branches of `nextEntropy_freezing()`, in its order |
| `Feedback` | `processEv_freezing()`: thaw when the deadline is past, record the ECN bit for the soft replay, add the EV on PATH_GOOD |
| `Timeout` | the FREEZING part of `rtxTimerExpired()` |
| `DeadlinePasses` | simulated time passes `can_exit_frozen_mode` |

`sent` and `learnt` are history variables. Feedback may name any EV ever sent: ACKs may
be arbitrarily late. Simulated time is reduced to whether the deadline is past; `rand()`
is a free choice.

Run `reps_trace` (section 6) checks the safety properties and the refinement with a ring of 3
slots, 2 EVs and a burst of 2, the smallest that has wraps, overwrites of valid and of used slots
and frozen pops that leave holes on both sides of `head`. All EVs and all feedback kinds are
allowed in every state, so no bound on the number of steps is needed. `reps_live` assumes that the
source keeps drawing (`SendingSpec`): `FrozenRotation` says that a source no feedback ever thaws
still cycles over all it knows. `EventuallyThaws` carries the rest of its assumption in the
formula: time passes and feedback of some kind keeps arriving. In the code a frozen source leaves
frozen mode only inside `processEv_freezing()`, so without feedback there is nothing to show.

`EvRecycler` says what the balancer promises without any ring: known EVs form a bounded
queue, fresh ones a sub-queue, each recycled EV is the oldest fresh one or, when frozen,
any known one. `ImplementsRecycler` maps the ring to it.

`RepsBufferProofs` proves, for every ring size, number of paths and burst, the type invariant and
the safety invariants of `RepsBuffer` that `reps_trace` checks, and that the prediction agrees
with the draw. The invariant `FreshBehindHead` is not inductive by itself: it needs that the
counter equals the number of valid slots, that only written slots are valid, and that until the
ring is full `head` is the first slot never written. `RingOK`, `Contiguous` and `Holds` are these
parts, `IInv` their conjunction, and `RingSound` collects what follows from it; each ring
operation has a lemma that preserves them.

It also proves the refinement. `Behind(r, n)` are the EVs of the last n additions, oldest first;
under `IInv` the known EVs of the abstract queue are `Behind(ring, count)` and the fresh ones
`Behind(ring, fresh)`, or none while the source is frozen. An addition then appends to the queue
and drops its front when it is full, a pop takes its front, a frozen pop reads the queue and takes
nothing, and each action maps to its abstract action or to a stutter. The two liveness properties
are model-checked only.

## 4. One UEC flow

`UecSender` translates the bookkeeping of `UecSrc` under sender-based congestion control:
the state is a record, every method an operator from a state to the state it returns with,
so that the nested calls of the code (an ACK that retransmits, sends and requests the port)
stay one step. `UecSink` does the same for `UecSink`. `UecFlow` holds the variables and has
one action per event of the event list:

| action | code |
|---|---|
| `Start` | `startFlow()` |
| `NicDone`, `NicOther` | `UecNIC::doNextEvent()` when a packet has left the port; another source takes the free port |
| `Expire` | `rtxTimerExpired()` with `sendRTS()` |
| `ReceiveAck`, `ReceiveNack` | `processAck()` with cumulative ACK, SACK bits, fast loss recovery, `checkFinished()`; `processNack()` |
| `ReceiveData`, `ReceiveRts`, `ReceiveTrimmed` | `processData()`, `processRts()`, `processTrimmed()` of the sink |
| `Drop`, `Trim`, `DropAck` | the network |

Abstractions. The congestion windows and the window the next draw will use are free inputs
of every event (`EventChoices`), with the one promise all updates in the code keep: no
window is below one MTU. That the draw follows the prediction is `PredictorMatchesDraw` of
section 3. `_send_times` is an order (`before`), not times. Sizes are in units of a small
`Mtu` and `Hdr`. The loss counter wraps at `LossWrap` as the `uint32_t` does. The wires are a
bag and sets: anything may overtake anything. Receiver credit, speculation and restarting
a finished source are left out.

`ReliableTransfer` is what the transport promises: items are sent in order, delivered once,
known to the sender only after delivery, and the end is reported once with everything there.
`ImplementsTransfer` maps `_highest_sent`, the sink's bitmap, the packets with no record left
and `_done_sending` to it.

| run | instance | shows |
|---|---|---|
| `uec_single` | 3 packets, one RTS, window of 1 or 2 packets (free at each event), one loss or trim, one premature timeout | a packet has one home, the timer covers the oldest record, `_in_flight` balances against the bytes the receiver reported, no phantom bytes, the end reported exactly when everything has arrived, the port is never idle with work, the refinement |
| `uec_dual` | the same under the dual windows with fast loss recovery | the asserted sum, and more: each window counts exactly its own outstanding packets; a flow with nothing ahead of it has one of two known causes |
| `uec_live` | `FairSpec`, 4 packets, a constant window of 2, ACKs delayed by 2 packets, two losses | the flow finishes in spite of its losses; a flow that is not finished always has an event ahead; as long as nothing is lost nothing the receiver has waits for a timeout |
| `uec_desync` | 2 packets, one loss, one premature timeout | finding 1 |

`UecTransferProofs` proves that the flow is a reliable transfer, for every size of flow, window,
packet and SACK bitmap and every number of losses, trims and early timeouts. The argument has two
halves. The *sender* half follows the nested calls of `UecSrc`: whatever a method sends, a sequence
number stays in `_tx_bitmap` or `_rtx_queue` until an ACK covers it (`Moves`), and an ACK settles
exactly what it covers (`Settles`). The *flow* half is `TransferInv`: what the sender takes for
delivered, and what any ACK still on its way will tell it, the sink has (`Truthful`); and for any
number of bytes r, the packets that reports of at most r bytes tell of fit into r bytes
(`Reported`). The last part is what the count of bytes in flight rests on: `processAck()` lowers
`_in_flight` by the growth of the reported bytes and erases records by sequence number, two
measures that ACKs overtaking each other could pull apart. With it, `_in_flight` plus the reported
bytes is what was sent, less what waits for retransmission, and `_in_flight` never exceeds the
bytes of the records (`InFlightExact`): no window stays closed for a packet nobody waits for.

`FinishedMeansDelivered` says that the end is reported exactly when everything sent, RTS packets
included, has arrived and the sender has nothing outstanding. *Not early* follows from
`TransferInv`. *Not late* needs `EndAhead`: as long as the flow is not finished there is a packet
whose delivery the sender has not heard of, and any ACK that will tell it of this one is
cumulative up to the last packet; so the ACK that settles the last record is one on which
`checkFinished()`, which looks at cumulative ACKs alone, succeeds.

`NoNeedlessTimeout` is proved for one window of constant size and no fast recovery. The claim
ends with the first loss or early timer; until then `CalmInv` says that every packet is at the
sink or under way, and that one of two things holds. Either the source is in its port's queue and
will be able to send (`Eager`), or the last packet sent has asked for an ACK: it still carries the
request, or the sink remembers it with the packet out of order (`_ack_request`), or the sink has
everything and the ACK that says so travels or was heard (`Asked`). Every way of sending is one of
three (`Sends`): nothing, a packet from the rtx queue, or a new packet that asks unless the source
goes on sending, which is what `sendNewPacket()` tests before it asks. A timer can expire with the
network empty while the source waits for its port; what it repeats the sink then has, so every
later ACK is cumulative up to the last packet and settles the repeated one too.

What can stop a flow for good is settled by `StuckHasCause`: a started flow that is not finished,
with an empty network, a free port and no timer, either has `_send_blocked_on_nic` set (it takes
itself for queued at a port that has no entry of it, finding 1) or is in loss recovery with an
empty rtx queue (section 10). TLC reaches both in the instance of `uec_dual`, so the list is not
longer than it must be; that it is complete is proved for all constants, both kinds of window
and any number of losses and early timers. The argument is an invariant of the sender,
`Restless`: if nothing is outstanding and there is work that recovery does not hold back, the
source is in its port's queue or believes it is. Every method ends so, as each ends in
`sendIfPermitted()` or in a turn at the port, and what these two may decline for is a closed window
or lack of work. With nothing outstanding no window is closed (`OpenGate`), and this is where
`InFlightExact` comes in: a count that had drifted above the bytes of the records would keep the
window shut with no packet left whose answer could open it (`Light`). A flow without work and
without records is finished (`FinishedMeansDelivered`). `NeverStuckHolds` follows without fast
loss recovery, in every state in which the first cause is absent.

Three packets are the least with a first, a middle and a last one, so that a hole, a
cumulative ACK past it and a tail exist; one loss and one premature timeout are enough for
an RTO to race a late ACK, a NACK to meet an acknowledged packet, and a SACK to meet a
packet in the rtx queue. `SackWidth=2` is smaller than the flow, as 64 entries are smaller
than the receive window.

Fairness of `uec_live` and why the code justifies it: `Start`, `NicDone` and `Expire` are
events on the event list, which runs every event; `ToSink` and `ToSrc` say that what is not
lost arrives. `NicOther` is not fair and nothing is assumed of the order. Premature timeouts
are off in this run, since the number of timeouts after an early one depends on delays.

Observed and not findings, since no text says otherwise: a delayed ACK with an old
out-of-order count can start loss recovery after everything outstanding was acknowledged;
then only the (empty) rtx queue may send, no timer runs and the flow stops, so `NeverStuck`
is checked without fast loss recovery and without premature timeouts. A window that shrinks
after the last packet left without asking for an ACK leaves the tail to the timer, so
`uec_live` has a constant one. More of them are in section 10.

## 5. The KLB family and the stateful ECN queue

`KlbSender` has the three balancers as operators on a record; `StatefulEcn` the table of
one port; `KlbFabric` composes any number of flows and ports along any `Route`:

| action | code |
|---|---|
| `Send` | `nextEntropy()` and the packet (`sendNewPacket()`, `sendRtxPacket()`) |
| `CrossStateful`, `DropStateful` | `StatefulECNQueue::receivePacket()`, with room in the queue or without |
| `CrossUntracked`, `DropUntracked`, `TrimComposite` | an RTS at a stateful port; any packet at a CompositeQueue |
| `Deliver`, `Absorb` | the sink acknowledges, or leaves an unmarked packet to a later ACK |
| `Hear`, `LoseAnswer` | `processEv()` for an ACK or NACK; the answer gets lost or comes too late |
| `Expire` | the timeout of a lost packet: nothing for these balancers, perhaps an RTS on a path they draw |
| `Tick` | time: entries age, cooldowns run down |

Abstractions. `rand()` is a choice among what it can lead to: a cooldown makes a path less
likely and never impossible, and 4N unlucky draws are possible. The send index is kept
modulo K. Ages stop one tick past the timeout, the only thing they are compared with.
ToR downlinks are left out of the routes: they neither track nor mark. `MaxFly` bounds what
a flow has under way. When all ports are CompositeQueues, any data packet may be marked,
trimmed or dropped. Streaks wrap at `StreakWrap` (256 in the code).

| run | instance | shows |
|---|---|---|
| `sklb_settle` | 2 SKLB flows of 2 slots, 3 core links of one slot each, marking by depth, one packet or answer of a flow under way | a settled fabric stays settled; fresh incumbents keep their slots; no ghost keeps a newcomer out; slots of a flow share a path only through the fallback 0 of `klb_pick_fresh_path()` |
| `hklb_confirm` | HKLB, 2 of 3 paths, cooldown of 2 ticks, two packets under way, CompositeQueues | late clean ACKs never bring back a path that cools down; set and list agree |
| `hklb_timeout` | the same with a cooldown of 1 | finding 2 |
| `sklb_rts` | 2 SKLB flows of one slot, 2 core links | finding 3 |

Two flows that want four places on three links are the least where each flow can be incumbent
on one path and newcomer on another, some state is settled and some is not. The symmetry of
flows is used in `sklb_settle` only (no definition names a flow). Streaks that wrap at 3
instead of 256 make the wrap reachable. Deadlock is checked: time never stops. The runs have
routes of one stateful port; the proofs cover routes of any length, where several ports write
one ECN bit after each other.

`SettledIsStable` is the property the queue was written for. *Settled* means: each balancer is
full, each of its active sub-flows is an incumbent at all ports of its path, and nothing else
is under way that could disturb it. The property says that no step leaves this state,
however deep the queues, however long a sub-flow is silent, in whatever order
packets and answers arrive. It holds although entries expire, because expiry is lazy: only a
newcomer evicts, and a settled fabric sends none. RTS packets do not count: they change no
table, and a marked one never becomes feedback, because the sink's assertion stops the
program (finding 3); compiled with NDEBUG it would, and the property would fail.

`RejectionDeserved` is proved for stateful ports (a CompositeQueue marks by depth, of which the
property says nothing). It needs `TablesFit`, that no table ever holds more incumbents than
slots, and two lemmas: `ArrivalFits`, that an arrival evicts every expired entry before it
judges the newcomer, so that those left are all fresh; and `RejectionStep`, that of all actions
only an arrival that is not admitted makes an unmarked packet travel on with a mark.

## 6. The event trace and its readers

`RepsTrace` adds two variables to `RepsBuffer`: `window`, whether `-log_reps_events` is on from the
start, comes on in mid-run or never does, and `log`, all that the readers remember after the
rows written so far. A step of the source and the reading of its rows are one action, as no reader
ever sees a row the source did not write; a feedback that thaws writes two rows, and the readers
take them one after the other. `Read` composes the readers:

| operator | program |
|---|---|
| `Row`, `ThawRow`, `SourceStr`, `FrozenEv`, `Write` | `logRepsEvent()`, `evSourceStr()`, `getFrozenEv()` |
| `Violated` (`Moved`, `Invalidated`, `PoppedFrozen`) | `verify_events()` of `reps_event_viewer.py` |
| `Class`, `Mismatched` | `classify()` and the reconstruction check of C2's `send_occupancy.py` |
| `Epoch` | `drain.py`: freeze epochs and their outcome |
| `Acked` | the end of the warm-up, the same in `send_occupancy.py`, `freezing_mode.py` and `acks_per_window.py` |
| `Mispredicted` | `recursion_check()` of C1.1, the ACK check of C1's `acks_per_window.py` |
| `Level` | `event_level_k()` of C1.1 |

`reps_trace` explores all behaviours of the ring of section 3 with all three kinds of window (565
thousand states). `OnlyKnownAlarms` says that no check of a reader ever fails on a row of this
source, but for two false alarms the model makes precise (section 10). `DrawClassMatches` compares
the readers' classification of each draw with the counters the simulator prints at the finish
line; `OutcomeMatchesDraws`, `EpochTracksFreeze`, `ReadingsExact` (`WarmupOnlyGuesses` and
`LevelIsFresh`) say that epochs, warm-up and fresh level are those of the sender. C1 and C1.1 are
checked on what they are run on, traces without a freeze. One source is enough: the readers keep
their state per source.

`RepsTraceProofs` proves all of them for every ring size, path count and burst. `TInv` joins
the invariant of `RepsBufferProofs` with what the readers hold: until the first ACK row nothing was
learnt, and while no FREEZE row was written the source never froze and the level is exact.
`EpochTracksFreeze` needs that freezing is on, because the tracing is not told of it. For the
alarms and the classification `LInv` adds what the readers remember: the snapshot of the last
row is the ring as it is, an epoch with stale draws lasts no longer than the freeze and its ring
keeps its slots, and the prediction of `recursion_check()` is the fresh EVs of the next draw.
Each kind of row then has a lemma that names the alarms it can raise.

## 7. The experiment drivers

`SweepRunner` has any number of programs in one tree: `run_sym.py` with `--prep-cms` (`Prep`) and
`run_fig7.py` (`Plain`), both with `run_one()`, and the cells of `run_c2.py` (`Cells`), which a
pool of threads runs side by side. Files are the variables: each collective matrix and its backup,
each program's scratch file and outfile, and for each cell of C2 its output, temporary trace and
trace.

| action | code |
|---|---|
| `Backup`, `Generate`, `Restore` | one file of `gen_collective_cms()` (copies, then `gen_files.py`, which ignores failures) and of `restore_collective_cms()` |
| `Start`, `Skip`, `Launch`, `SimEnds`, `MoveBegins`, `MoveEnds`, `Report` | the loop over cells and `run_one()` with `emit()` |
| `C2Runs`, `C2Writes`, `C2Zips`, `C2Renames` | `run_cell()` of `run_c2.py`; a cell that is skipped (`C2Skips`) stays as it is |
| `Interrupt` | Ctrl-C or a failing `gen_files.py`: the `finally` clause runs if its `try` was entered; a second Ctrl-C ends the restore where it is |
| `Crash` | the machine goes down; the scratch files, which are local, are lost |

`text` of an output is all the code looks at: nothing finished, some flows finished, all did.
`COLLECTIVE_CMS` has seven matrices, in the order in which `gen_files.py` writes them; the loops
take one file per step (`NextFile`), so that an interrupt, a crash or another program comes
between any two of them. A restore that is cut in two leaves the remaining files at 128 ranks and
only their copies on disk. No later restore goes on from there: the next `--prep-cms` makes its
backup first, over those copies, and the 32-rank form of just these files is gone.
`OldLostByBackup` says of each file that nothing but such a backup loses it, `TreeRestored` that
it takes a crash, an end before the `try` block or an end within the `finally` clause. A copy that
is cut in mid-file is not a value of its own: a run that restores has made all its copies anew.

`sweep` has one program of each kind, one cell of C2, two matrices (one put back, one to come), one
crash and any number of interrupts and restarts (1.7 million states). One crash and the interrupts
are enough to reach a tree left with the wrong matrices, a backup made of it that is cut again, and
a trace left half written; every property speaks of one program's cell, and two programs are the
least that interfere. (Without C2, whose files are its own, three matrices and two crashes, and
without the others, two cells of C2 and two crashes, give the same answers.)
`C2Completes` assumes `ResumedSpec`: whoever runs the batch starts it again until nothing is left
to do (`WF` on the steps of each cell), and a simulation that is repeated often enough succeeds
(`SF` on `C2Writes(c, TRUE)`). It says that no state of the files makes `run_c2.py` skip a cell
that has no trace. Nothing is assumed of the other programs.

`SweepRunnerProofs` proves all its safety properties, for any set of programs and cells, any number
of matrices and of crashes; the two about the tree for one `run_sym.py` at a time beside any number
of others, as two that run at once share one backup. `ResultInv` adds to `WrongMatrixReported` that
nothing was printed before the report and that the outfile of a running cell is never complete;
`TraceInv` says how far the files of each cell of C2 are at each step. `MatrixInv` says of every
file where its 32-rank form is: in the copy from the time it is made until it is put back, if the
tree has it; and, if nothing went wrong, in the tree before and after and in the copy in between.
It is not enough to say so of all files at once, because each phase is part way through them when
it is cut; `at` tells which are done.

## 8. Collectives, triggers and the connection map

`Collective` chooses one of the workloads of the generators (`gen_allreduce.py`,
`gen_allreduce_butterfly.py`, `gen_serialn_alltoall.py`, the bursts of `gen_c3_cm.py`), each
written as the set of flows with source, destination, the trigger it waits for and the one it
fires, by the generators' own arithmetic. Groups run independently and the shuffle of nodes is a
renaming, so a workload has one group.

| action | code |
|---|---|
| `Activate` | `EventList::doNextEvent()` takes a pending trigger target first, then `startFlow()` |
| `StartBurst` | a flow with a start time, `UecSrc::doNextEvent()` |
| `Deliver` | the last byte reaches the sink |
| `SendDone` | `checkFinished()`: hand the ring to `CONNECTION_INFO_MAP`, activate the trigger (`Targets`: `SingleShotTrigger`, `MultiShotTrigger`) |

The simulator moves bytes without contents. `has` and `sent` are history variables that record
whose data a collective would have combined where, so that `ResultComplete` can say what no test
of the repository looks at: the flows and triggers do compute an all-reduce or an all-to-all.
`ring`, `shared` and `freed` follow the ring that sources of one pair share under
`-connections_mapping`, and which source deletes one. No workload starts a source twice, so
`startFlow()` never comes to its `delete` (`uec.cpp:3376`): `RingAlive` says that the triggers keep
it so, not that a second start would be safe.

`collective` has a ring of 3, a butterfly of 2 rounds, an all-to-all of 6 nodes with 2 parallel
flows (two full rounds and one left over) of which 2 nodes are looked at, and 4 bursts; every
order of deliveries and ACKs is explored. The all-to-all has no data dependence between senders, so
two show all interleavings of a shared receiver. Deadlock is not checked: a workload
ends. `FairSpec` assumes that a flow under way finishes, which is `EventuallyDone` of `uec_live`.

`CollectiveProofs` proves that a oneshot trigger is activated at most once and that no source
uses a deleted ring, for all sizes. `CInv` says that a flow that is woken was waiting (a trigger
that started its target has been activated more often than the target's rank), that a
waiting flow has no ring, so `startFlow()` never has one to delete, and that a oneshot trigger was
activated by its one flow, which is done.

`WindowKept` (`WInv`) counts the flows of a node that are pending or started: the one that is done
leaves before the shot wakes the next. `SharedAcrossGaps` (`SInv`) says of a pair that has never
had two flows at a time that at most one is started, and that the ring handed on is the one all
have used. `ResultComplete` is proved as the run checks it (`ResultHolds`), for rings and
all-to-alls of any size and butterflies of one or two rounds: by `RInv` a started flow carries
what it is due (`Due`, the chunks of the ring it has to pass on, its own data, or in a butterfly
what its source heard in the round before), a delivered one has brought it, and a flow that was
woken follows one that is done. The ring's hop that brings chunk m to node n is computed from
their distance (`RingReaches`), as is the flow of an all-to-all (`AllToAllReaches`); the peers of
the butterfly are four cases (`Peers`). Where the argument ends for three rounds, so does the
property (section 10): what triggers a flow of round 2 does not bring what was due in round 0.

## 9. What is proved

All theorems hold for every value of the constants that satisfies the named assumptions
(`RingAssumption` and the like: sizes are positive, windows hold a packet, routes are
sequences of ports).

* `UecFlowProofs`: types, `OneHome`, `TimerCoversOldest`, `WindowsExact` and, when the
  flow is no elephant, `DualWindowInvariant`. None is inductive alone. `Books(t, S)`
  (`UecSenderProofs`) is their strengthening for the state *inside* an event: records, queue
  and tags agree, each window is the sum of its own records, and the timer covers the
  oldest, except that it may still point at a record in S, those the event has erased and not
  yet recomputed the timer for. Each sender operator has a lemma that says how it changes S;
  an event starts and ends with `Books(s, {})`. Fast loss recovery folds over the records,
  so its lemma is about one move and the set moved.
* `KlbFabricProofs`: types, `DuplicatesArePathZero`, `ListMatchesSet`, `ConfirmedNotQuiet`,
  `SettledIsStable`, `IncumbentsKept` and `RejectionDeserved` (section 5). `FabricInv` says
  every sender is *tidy* (slots are spread but for path 0, list and set agree, confirmed paths do
  not cool down, HKLB never holds more than K) and everything has its type. Settling is one
  lemma, `StaysSettled`: if no balancer moves, no incumbent goes and what travels stays harmless,
  a settled fabric stays so; every action then has a lemma for its share.
* `UecTransferProofs`: `ImplementsTransfer`, `FinishedMeansDelivered`, `PortNeverIdle`,
  `InFlightExact`, `NoNeedlessTimeout`, `StuckHasCause` and `NeverStuck`, see section 4.
* `RepsBufferProofs`, `RepsTraceProofs`, `SweepRunnerProofs`, `CollectiveProofs`: see sections
  3, 6, 7 and 8.

These theorems have a hypothesis of their own, because the code does not promise more:

| theorem | assumes | without it |
|---|---|---|
| `DualWindowHolds`, `InFlightHolds` | the flow is no elephant of the dual windows | the elephant trips the code's own assertion (section 10) |
| `NoNeedlessTimeoutHolds` | one window of one constant size (`~Dual`, all of `Cwnds` equal), no fast recovery | a window that shrinks after the packet left, or dual windows tested before the packet is counted (section 10), leave the tail to the timer |
| `EpochsAreFreezes` | `UseFreezing` | `rtxTimerExpired()` logs a FREEZE although the source does not freeze |
| `TreeIsRestored`, `OnlyBackupLoses` | one program in `Prep` | two share one backup |
| `RejectionDeservedHolds` | `Stateful` | a CompositeQueue rejects nobody; it marks by depth |
| `NeverStuckHolds` | no fast loss recovery; of each state, `BlockedMeansQueued` | the two causes of `StuckHasCause`, which TLC reaches |

Only model-checked, and why:

* `FrozenRotation`, `EventuallyThaws`, `EventuallyDone`, `C2Completes`, `Completes`: liveness under
  fairness, which needs ENABLED.
* `NeverStuck` without the hypothesis `BlockedMeansQueued` of its theorem: a property of the
  instance. It holds without premature timeouts and with the losses of `uec_live`; finding 1 is
  the way it breaks with them.

The type invariants of `UecFlow`, `KlbFabric`, `SweepRunner` and `Collective` are proved and no run
repeats them.

## 10. Findings and observations

Each finding is a run that TLC finishes with a counterexample; `PROJECT.json` quotes the text
it disagrees with.

1. `uec_desync`: `timeToSend()` can give its turn back and keep `_send_blocked_on_nic`; the
   source then never asks the port again.
2. `hklb_timeout`: HKLB is not told of timeouts, though its document says they always evict.
3. `sklb_rts`: stateful ports mark RTS packets by depth, which the sink asserts never happens.

Read in the code while modelling it, present in the models, and without a run of their own:

* `containsEntropy()` compares slots never written, which hold 0, so a soft replay may return
  EV 0 although the ring has never held it (`uec.h:331` says a recently-seen EV from the ring).
* After 4N clashing draws `klb_pick_fresh_path()` returns path 0, which another slot may hold
  (`KLB_ALGORITHMS.md:54` says it never clashes).
* The replacement SKLB draws may be the path that was just marked (`KLB_ALGORITHMS.md:18` says a
  different path).
* A port that admits a packet clears the mark an earlier port rejected it with
  (`KLB_ALGORITHMS.md:122` says rejected newcomers always get ECN). It needs two stateful ports on
  a route.

Seen by TLC on an instance that is not kept as a run, or read off a model:

* An elephant flow draws by ECMP, leaves the EV source unset, and trips the dual-window
  assertion at its first packet (`DualWindowInvariant` with the constants of `UecDual.cfg` and
  `Elephant = TRUE`).
* Under the dual windows `sendNewPacket()` asks whether the window is full before
  `createSendRecord()` counts the packet (`uec.cpp:4731` and `4737`), so the packet that fills a
  window does not ask for an ACK. A window at its floor of one MTU then relies on the sink's byte
  count (16384 bytes, `uec.cpp:152`) or the timer, where `MODIFICATIONS.md:649` expects about one
  packet per RTT. The single window counts first.
* A butterfly of three rounds or more is not an all-reduce in every order: a node's flow of round
  d is triggered by what arrived in round d - 1, and its data of round d - 2 may still be under
  way. `ResultComplete`, without its first line, fails for `Levels = 3` (TLC finds it at once with
  `-simulate`; breadth-first the case is too deep); `gen_files.py:31` makes seven. As the
  simulator moves no contents, only the timing of the workload is affected.
* A chunk goes 2N - 1 hops round the ring (`gen_allreduce.py:68`); the README of exp31 says
  2(N - 1) steps.
* A multishot trigger with nobody left prints a line; `trigger.h:56` says it will abort.
* `--verify` has two false alarms: a source that freezes with an empty ring logs `frozen_ev` -1
  while slot 0 holds 0, and a trace that starts in mid-run may start at a fresh pop.
* A crash of `run_sym.py`, a `gen_files.py` that fails or is interrupted before the `try`
  (`run_sym.py:248`), or a second Ctrl-C in the `finally` clause (`run_sym.py:262`), leaves
  128-rank matrices in the tree; the next run backs those up over the 32-rank ones. `emit()` then
  reports every cell that reads them.
* `run_one()` skips an output with one "finished at" line for ever, although its
  text may end there. Its `timeout_s` never acts: `_filter_stream()` has read the output to its
  end before `wait()` is called. `run_sol_cell()` skips a cell that failed, as it looks at
  stdout alone; `run_cell()` looks at both files, which is what `C2Completes` needs.

## 11. What is not modelled

Receiver credit (pull pacer, speculation), window arithmetic and congestion control, several
sources on one NIC, the inner state of CompositeQueue, the Ofan order, the other balancers, and
a source restarted in the middle of its transport state are open or planned above. Congestion
control other than the dual windows is floating point and stays out; so do failure draws,
topologies, option parsing, logging, and the transports inherited from htsim that no
experiment of the repository uses.

Of the trace, the `fifo` column of plain REPS, PXR and dual-window rows and the row cap are left
out. Of the experiments, the drivers of the other directories have the form of `run_one()` or
`run_cell()` and differ in flags. Most of the repository's Python draws plots or writes
interactive pages from finished results (`build_*.py`, `fig_*.py`, `manual_plot_*.py`): it has
no state of its own, and a model of it would say nothing.
