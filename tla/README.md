# TLA+ models of skewer

This directory holds TLA+ models of the concurrent core of skewer, a syslog daemon.
The source files are under `../src`. The models cover the RELP acknowledgement
pipeline with an abstract specification it refines, the RELP service
lifecycle and the RELP frame splitter, the privileged binder, the plugin
controller with the Store plugin's message queue, and the TCP and UDP syslog
services with their framing.

## Inventory

| Component | Source | State | Operations | Interacts with |
|---|---|---|---|---|
| Ack forwarder | relp.go 49-173 | per connID: `succ` and `fail` FIFO queues, `comm` map txnr→bool; counter `next` | AddConn, RemoveConn, RemoveAll, Received, Committed, NextToCommit, ForwardSucc/Fail, GetSucc/Fail, Wait | shared memory: handler, cooker, parsers, Kafka goroutines |
| RELP handler | relp.go 847-993 | per connection: `relpIsOpen`, `previous` txnr, the socket | read loop: txnr check, open, close, syslog, unknown, missing data; defer RemoveConn/RemoveConnection | puts raw messages on the raw ring; calls Received; writes open/close answers |
| Response cooker | relp.go 663-713 | local `successes` and `failures` sets | Wait, take one txnr, Cooking loop (NextToCommit, write, Committed) | same socket as the handler |
| Parser pool | relp.go 540-620 | NumCPU goroutines | take raw message; parse error / empty → drop; ok → parsed queue, or Stash → Forward | raw ring, parsed queue, Store |
| Kafka fan-out | relp.go 622-661, 715-841 | env cache per ConfID; producer | push2kafka: refuse → ForwardFail; pass → producer (or ack in test mode). handleKafkaResponses: success/error → Forward; fatal → StopAndWait | parsed queue, Kafka producer, forwarder |
| RELP service lifecycle | relp.go 258-538 | `status` ∈ Stopped/Started/Waiting/FinalStopped, StatusChan, wait groups `wg`, `parsewg` | Start, Stop, FinalStop, StopAndWait, EndWait, doStop; wrapper loop restarts after Waiting with a 30 s timer | all goroutines above |
| Binder | binderserver.go | listeners map; connections, packet connections and files maps | listen, closeconn, stoplisten, reset, byebye; accept loop per listener | child over a UNIX socket (SCM_RIGHTS), two goroutines over schan/pchan |
| Plugin controller, Store plugin | kafkadest.go 400-1113 | created, started, StopChan, ShutdownChan, ExitCode, stdin | Create, Start (3 s handshake), listen, Stop, Shutdown (kill timeout), Gather (2 s), kill; StorePlugin push/Shutdown | child process over framed stdio; reaper goroutine |
| TCP/UDP services | tcp.go, kafkadest.go 100-399 | status, statusChan, wg, connection set; per connection the scanner buffer | Start, Stop, WaitClosed, ListenPacket, HandleConnection (reader + parser goroutine), TcpSplit/LFTcpSplit | Stasher; StreamingService (accept loops, connection set) |
| Factory, secret ring, encoders, platform stubs | factory.go, kring.go, protobuf.go, not_linux.go | none | dispatch | — |

Hard behaviours: goroutines sharing the forwarder and the client socket;
completions out of txnr order; connections that end with txnrs pending; a
bounded raw ring; stop sequences that join wait groups from inside the
goroutines they wait for; the plugin's start handshake racing a timeout and the
child's exit; kill after timeout.

Correctness, per component:
- forwarder and cooker: answers on a connection in increasing txnr order; every received txnr answered exactly once while the connection lives; an answer reports the outcome of that connection's own message;
- lifecycle: Stop returns and reaches Stopped, Waiting or FinalStopped; no goroutine waits for itself; after FinalStopped nothing restarts;
- binder: every accepted connection is handed to the child once and closed once; closeconn/reset dispose exactly what they name;
- plugin controller: Start returns exactly once with the first of started/error/timeout; a misbehaving child is killed; ShutdownChan is closed exactly once after exit.

## Modules and runs

### RelpPipeline (written)

`RelpPipeline.tla` models the RELP pipeline while the service is Started.
Connections are indexed 1..MaxConns in accept order. The forwarder's maps are
keyed by the connID that AddConn returns. A message is a record `{conn, txnr, src}`.
Its payload is abstracted away; `src` is a ghost field naming the handler it came from.

| Code | Model |
|---|---|
| `ackForwarder` fields | `fwdNext`, `fwdLive`, `comm`, `succQ`, `failQ` |
| Received / NextToCommit / Forward* / RemoveConn / AddConn | operators of the same names |
| HandleConnection | StartConnection, Open, Syslog, Close + CloseSocket, ProtocolError, ScanEnd, EndConnection |
| handleResponses | CookResponses (one Wait wake-up and the whole Cooking loop, `Cooking` is RECURSIVE), CookerExit |
| Parse | ParseGet, ParseMsg (NParsers goroutines, so parsed messages can be reordered) |
| push2kafka | Push2KafkaRefuse (all refusal branches), Push2KafkaPass |
| handleKafkaResponses | HandleKafkaResponse (any in-flight message, success or non-fatal error) |

Close is split into two steps, the serverclose write and `conn.Close()`. This is
because the cooker writes on the same socket between them. After the close, the
reader goes on scanning the frames it has already buffered. `wire[k]` is what the
client of connection k actually receives; writes after the socket is closed are lost.

Fairness: weak fairness on the cooker, parsers, push2kafka, the Kafka response
handler and the second half of close. These are goroutines that run whenever
they can. Sarama reports every produced message on Successes or Errors. The
client and the network (frames, EOF, deadlines) get no fairness. `AllServed` is
the idle service once the bounded connections are served; it is not a deadlock.
It does not wait for the cookers: a cooker that never returns is a leaked
goroutine of an idle service, which CookerEnds reports, not a deadlock.

Runs (`MC_RelpPipeline.tla` defines the outcome sets):

| Run | cfg | Expect | Shows |
|---|---|---|---|
| pipeline | MC_RelpPipeline.cfg | pass | Kafka mode, 1 connection, txnrs 0..3, 2 parsers, ring of 2. Checks AcksOrdered, NoOrphanTxnr, EveryReceivedAnswered (liveness) and AckSpec (refinement of RelpAck, fairness included), with every message parsing. |
| two_conns | MC_RelpPipeline_conns.cfg | pass | Store mode, 2 connections, parse errors and empty messages: AcksOrdered, ResponseMatchesOutcome, and CookerEnds (each connection's handleResponses goroutine returns once its connection has ended: RemoveConn's Dispose wakes its WaitOne). |
| parse_error_orphan | MC_RelpPipeline_parseerr.cfg | violation | NoOrphanTxnr: a parse error drops the message but leaves its txnr in comm. After that, NextToCommit blocks every later answer. |

In test mode with a direct destination, Start does not run push2kafka
(`!s.test && s.direct`), but Parse still queues the messages, so no txnr is
ever answered; the spec says test-mode messages are acked at once.
EveryReceivedAnswered shows it with MC_RelpPipeline.cfg's constants, `Test = TRUE`
and `CHECK_DEADLOCK FALSE` (a hazard in PROJECT.json; the run it used to be gave
its place to the TCP and UDP services).

`WireOrdered` (answers on the wire in increasing txnr order, serverclose
included) is stated but is not a run: the serverclose answer races the cooker's
answers to earlier txnrs, and TLC shows `2 rsp 0 serverclose` then
`1 rsp 6 200 OK` with MaxConns = 1, MaxTxnr = 2, NParsers = 1, QueueSize = 1,
Direct = TRUE, Test = FALSE, ParseOutcomes <- MCParseOk. The spec does not say
how a close with txnrs pending should be answered, so this is a hazard, not a
finding.

The bounds are enough for the cases that matter. Three txnrs let two acks arrive
in reverse order behind an open. Two parsers reorder messages. A ring of 2 makes
the reader block. Two connections share every queue. Every mutant listed in
PROJECT.json is found within a few hundred states.

### RelpAck: the abstract connection, and the refinement

`RelpAck.tla` states what the server promises each RELP connection (spec
section 8), without the pipeline. A connection is `new`, `live` or `gone`, with
a socket that is open or closed. It has the following state:
- `pend`: the txnrs received and not answered yet;
- `ok` and `ko`: the outcomes given so far;
- `ans`: the 200/500 answers its client received.

Its steps are:
- Receive: a txnr larger than any seen; an empty message is delivered at once.
- Decide: the one outcome of a txnr.
- Answer(k, n): the n smallest pending txnrs, all decided, answered in order and lost if the socket is closed.
- Hangup, End.

Fairness says that every pending txnr is decided and that whatever can be
answered is answered.

`RelpPipeline.tla` instantiates it as `Ack == INSTANCE RelpAck WITH ...`:

| RelpAck | RelpPipeline |
|---|---|
| `phase[k]` | `hPhase[k]`: idle → new, ended → gone, else live |
| `open[k]` | `sockOpen[k]` |
| `pend[k]` | `comm[connId[k]]` |
| `ok[k]`, `ko[k]` | the ghost sets `accepted`, `rejected` for handler k |
| `ans[k]` | the 200/500 lines of `wire[k]` |

`AckSpec == Ack!Spec` is a PROPERTY of the pipeline run. It is not checked in
two_conns: parse errors there leave txnrs that are never decided (the
parse_error_orphan bug), which breaks RelpAck's fairness. One
cooker iteration, which writes a whole run of answers, is one Answer step.
The other steps map as follows:
- each Forward with its ghost update is a Decide;
- the open echo, the serverclose write and the queue moves are stutters.

The serverclose race (WireOrdered, above) is outside RelpAck's answers, so the
refinement holds where WireOrdered does not.

### Binder (written)

`Binder.tla` models `binderOne` and `BinderListen` of `src/sys/binder/binderserver.go`.
Addresses are model values (`SAddrs` stream, `PAddrs` packet). Connections are
uids `1..MaxUids` in accept order. The child's commands on the UNIX socket are
abstracted to their verb and argument; `inbox` is the sequence of replies the
child receives (`confirmlisten`, `error`, `newconn`, `stopped`).

| Code | Model |
|---|---|
| the reader loop of binderOne (`scanner.Scan` switch) | Scan, ListenStream, ListenPacket, CloseConn, StopListen, Reset, Bye |
| the dispatcher goroutine's select over ctx.Done / pchan / schan | Register, DispatchAccepted, DispatchPacket, DispatchCloseS, DispatchCloseP, DispatchResetS, DispatchResetP, DispatchDone |
| BinderListen's accept goroutine and listener-closing goroutine | Accept, AcceptError, CloseListener |
| maps `connections`, `packetconnections`, `connfiles`, `listeners` | `sconns`, `pconns`, `files`, `listeners` |

`FileFails`, `WriteFails` and `AcceptFails` let `conn.File()`, the write to the
child and `Accept` fail, as the code's error branches handle. Fairness is weak
fairness on the dispatcher's cases and on the accept goroutine's exit paths.
These are goroutines that run whenever their channel is ready. The child's
commands get no fairness.

| Run | cfg | Expect | Shows |
|---|---|---|---|
| binder | MC_Binder.cfg | pass | FileOnlyWithConn, ListenerDisposable, and the liveness property ClosedOnRequest (closeconn eventually closes the uid). |
| binder_shutdown_leak | MC_Binder_shutdown.cfg | violation | ShutdownReleasesAll: on byebye the dispatcher closes only the packet connections. |

`Disposable` is stated but is no longer a run: when `File()` fails the
connection is kept in no map and never closed, and TLC finds it violated with
MC_Binder.cfg's constants (`FileFails = TRUE`).

`NoNewconnAfterStopped` is stated but is not a run. It says no `newconn` for an
address reaches the child after its `stopped`. TLC finds it violated with
MC_Binder.cfg's constants: a connection accepted just before stoplisten reaches
the child afterwards. The spec does not say the child may not see it.

The bounds are one address of each kind, 2 listens, 3 uids and 4 commands.
That is enough for two connections on one listener, a stoplisten or reset
racing an accept, and a closeconn on each kind.

### PluginController (written)

`PluginController.tla` models the `PluginController` of `src/store/dests/kafkadest.go`
(lines 424-1050). The actors are:
- the supervisor, calling Create, Start, Stop and Shutdown one at a time;
- a scraper calling Gather;
- the listen goroutine;
- the reaper goroutine around `cmd.Wait`;
- the child process.

The child answers the commands on its stdin (`cin`) on its stdout (`cout`). It
can also write unsolicited messages, ignore `shutdown` (`ChildHangs`) or exit
(`ChildCrashes`). Channels are modelled by their state: `stopCh` ∈ nil/open/closed,
`shutClosed` and `metricsClosed`. An unbuffered send is a `send...` pc of the
listener that a receiver takes in one joint step (StartReceive, GatherReceive).
Every `time.After` is an action that may fire while its select waits.

| Code | Model |
|---|---|
| Create (+ the wait goroutine) | Create, Reap |
| Start | Start, StartReceive, StartTimeout |
| Stop | Stop, StopDone |
| Shutdown | CallShutdown, ShutdownBegin, ShutdownExited, ShutdownTimeout, ShutdownWaitShut, ShutdownWaitStop |
| Gather | GatherCall, GatherLock, GatherReceive, GatherEnd |
| listen: the switch cases | ReadSyslog, ReadStarted, ReadStartError, ReadMetrics, ReadBadMetrics, ReadStopped, ReadShutdown, ReadUnknown, ReadEOF, EOFReturn |
| listen: the deferred function | DeferOnce, DeferLockC, DeferLockS, DeferWait, DeferCloseStop |
| W, kill, once.Do | W / CanWrite, Kill, OnceSend |

Fairness is weak fairness on every goroutine of the supervisor process, every
timer, the reaper, and the child's reading of its stdin. The supervisor's
calls, the scraper's calls and the child's unsolicited acts get none. The model
follows the lifecycle of spec 4.G: Stop and Shutdown are enabled only once a
Start has made a StopChan. Deadlock checking is off in the pass run, for two
reasons:
- the bounded supervisor stops calling, and that final state is not a deadlock;
- the hangs the code really has are shown by CallReturns.

| Run | cfg | Expect | Shows |
|---|---|---|---|
| plugin | MC_StorePlugin.cfg | pass | On the Store plugin composition below: CreatedTracksProcess (no live child is forgotten, so Create never spawns a second one), StartedHasListener, and the liveness property ShutdownReapsChild (a Shutdown with a kill timeout leaves the child dead and reaped, even when it ignores `shutdown`), together with the store's properties. |
| plugin_start_timeout_hang | MC_PluginController_start_timeout.cfg | violation | CallReturns: Start's 3 s timer fires; the late `started` blocks the listener in `once.Do`, and Start's Shutdown waits forever on StopChan. |

`NoPanic` is stated but is no longer a run: bad metrics close metricsChan for
good, and after Create/Start again the next metrics are sent on the closed
channel. TLC finds it violated on MC_PluginController with the controller
constants of MC_StorePlugin.cfg and `MaxGathers = 2`.

CallReturns fails in two more ways, which PROJECT.json lists as hazards. To
see each trace, change the constants of MC_PluginController_start_timeout.cfg
as follows:
- `StartTimeouts = FALSE, ChildCrashes = TRUE`: Start on a child that already exited fails its write. Its Shutdown then waits on a fresh StopChan that no listener will close.
- `StartTimeouts = FALSE, MaxGathers = 1`: metrics that arrive after Gather's 2 s timeout block the listener on metricsChan, and a later Stop never returns.

The pass run's bounds are 4 supervisor calls, 1 Gather and 1 unsolicited act
or crash, with every reply the protocol allows. Four calls cover Create, Start,
Stop or Shutdown, and a second Create/Start.

The defer unlocks both mutexes (`Release`) and only then runs
`close(s.StopChan)` (`DeferCloseStop`, counted by `lclosing`). That close
reads the field anew. If a Create and a Start run in that window, it closes the
new run's StopChan. A Stop of the new run then returns at once, and the new
listener's own close panics the supervisor. The plugin run reaches this state:
a syslog before `started` kills the child, then Create and Start run before the
close. Its properties tolerate a panic, so this is a hazard in PROJECT.json and
no run.

### RelpService: the service lifecycle

`RelpService.tla` models the status machine of `relp.go` 282-538. This is
RelpService.Start's status goroutine (the "wrapper") and RelpService.Stop (the
supervisor). It also covers RelpServiceImpl Start, FinalStop, StopAndWait,
EndWait and doStop, and the end of every worker goroutine. The messages
themselves are RelpPipeline's business. Here a worker only runs, fails fatally,
or ends when its queue is disposed.

| Code | Model |
|---|---|
| `status`, `StatusChan` (buffer 10), closed | `status`, `chan` (a sequence, `Send` blocks when full), `closed` |
| the status mutex held across doStop's waits | `mu` (its owner), `dpc` (which wait), `dfinal`, `dwait` |
| doStop | DoStopEnter (the early returns, then resetTCPListeners and the raw ring's Dispose), DoStopParsers (`parsewg.Wait`, parsed queue disposed), DoStopWg (`wg.Wait`, new status sent) |
| the status goroutine's switch | WrapperFinal, WrapperStopAndWait, WrapperWaiting (spawns a 30 s timer), WrapperStarted, WrapperStart (the whole RelpServiceImpl.Start) |
| the 30 s goroutines | `timers`, EndWait |
| RelpService.Stop | SupCall, SupFinalStop (FinalStop), SupJoin (`wg.Wait` for the status goroutine) |
| Parse, push2kafka, handleKafkaResponses | ParserExit / ParserFatal / ParserStop, PusherEnd, HkrEnd / HkrFatal / HkrStop; `parsewg` is the set of running parsers, `wg` the service's counter |

`NoListener`, `ProducerFails`, `StashFatal` and `KafkaFatal` turn on the error
branches the code handles. `Modes` gives the mode: Kafka (direct), test, or
Store. `MaxStarts` bounds the restarts; once it is reached, a Start behaves as
one with no listener. Fairness is weak fairness on every goroutine step and on
the timers. The supervisor's call and the fatal errors get none.
RelpServiceImpl.Stop is called nowhere in the sources.

| Run | cfg | Expect | Shows |
|---|---|---|---|
| relp_lifecycle | MC_RelpService.cfg | pass | Every mode, 2 parsers, 3 starts, every failure. WorkersStopped: no worker outlives the stop that announces a new status. FinalIsFinal: nothing changes after FinalStopped and nothing is sent on the closed channel. WaitingRetries: Waiting is always left. StopReturnsTestMode: in test mode the supervisor's Stop returns. |
| relp_stop_kafka_hang | MC_RelpService_kafka.cfg | violation | StopReturns: in Kafka mode, doStop waits on `wg` for handleKafkaResponses. That goroutine is added to `wg` but never calls `wg.Done`, so the final stop never returns. |

The same property also fails in Store mode with a fatal Stash: set
`Modes = {"store"}` and `StashFatal = TRUE` in MC_RelpService_kafka.cfg. The
parser calls StopAndWait, and its doStop waits on parsewg, which counts the
parser itself. If FinalStop already holds the mutex, the parser blocks on the
mutex instead. A fatal Kafka error makes handleKafkaResponses wait on itself
in the same way. The pass run therefore stops checking deadlock:
these hangs are what the violation run is about.

### TcpSplit and NetService: the TCP and UDP services

`TcpSplit.tla` holds the framing of syslog over TCP as pure operators.
- `TcpSplit` (tcp.go 275-312) handles octet counting (`LEN SP MSG`) or a frame that starts with `<` and ends at LF.
- `LFTcpSplit` (258-273) handles LF framing.
- `Split` is HandleConnection's choice between the two.
- `ScanStep` is what bufio.Scanner does with a split result: token, skip, need more, error, or panic.

Byte slices are sequences of one-character strings. Go's 0-based half-open
slices are `Slice`, and a slice whose bounds Go rejects is `Panic`.
`strconv.Atoi` and `bytes.Trim` are modelled by what they do. Go's int has
`IntBits` bits and its sums wrap. The reference is RFC 6587 framing: `Framings`
lists every way of framing a list of messages. `FramingCorrect` says that
`Tokens` of the framed stream gives exactly those messages, and that every
prefix of the stream gives a prefix of them. This covers partial reads.

`NetService.tla` models tcpServerImpl and udpServiceImpl:
- Start and Stop hold the status mutex. Stop is split at its `wg.Wait` into `TcpStopBegin`/`UdpStopBegin` and `StopEnd`, with `stopping` marking the mutex held.
- The status channel has capacity 1, and WaitClosed reads it.
- `ListenPacket` opens the UDP listeners.
- Per connection there is the HandleConnection reader, with `hpc` for its position: `HandlerStart` (AddConnection), `TcpScan` or `UdpRead`, the deferred RemoveConnection and wg.Done (`HandlerReturn`), and the read deadline (`Deadline`).
- Each reader has a parser goroutine (`ppc`), joined to it by the unbuffered channel (`ParserRecv`, `ParserExit`).
- StreamingService is not in the sources. Its accept loop (`Accept`), resetTCPListeners (`lst`) and the close of the connection set when the accept loops end (`ListenEnd`, `CloseSet`) come from spec 4.E.
- The peers send bytes or packets (`Arrive`) and hang up (`Hangup`).

Every goroutine gets weak fairness, the read deadline included: Stop's, the
accept loop's, the readers', the parsers' and a WaitClosed caller's. The
controller and the peers get none.

| Run | cfg | Expect | Shows |
|---|---|---|---|
| net | MC_NetService.cfg | pass | TCP and UDP, 2 connections, 2 Starts, LF-framed clients sending up to 2 bytes, failing listeners and reads, hang-ups and deadlines. StoppedClean: after Stop no reader or parser is left and the connection set is empty. SplitMatchesFraming: both split functions against the RFC 6587 reference, messages of up to 3 bytes, 2 per stream. TcpStopReturns: a TCP Stop returns. |
| tcp_negative_length_panic | MC_NetService_panic.cfg | violation | NoPanic: a client sends `-1 `; TcpSplit's length check passes (3 < 2 is false) and `trimmed_data[2:1]` panics, which ends the process. |
| udp_stop_hang | MC_NetService_udp.cfg | violation | StopReturns: Stop runs between ListenPacket's `go handleConnection` and the handler's AddConnection, closes nothing of it, and waits on wg for a reader blocked in ReadFrom. |

TcpStopReturns holds only because of the read deadline. A TCP handler that
joins the connection set after the accept loops closed it is missed. With
`Timeout = FALSE` TLC finds a Stop that waits for a silent client, which the
spec allows: connections drain until idle timeout or client close.

The pass run uses the LF format, for speed. TLC's check of the fairness
conditions evaluates the split function again for every reference to it, and
TcpSplit's nested definitions make this slow. TcpSplit is still checked by
SplitMatchesFraming and by the panic run, which uses the `auto` format, bytes
`-`, `1` and blank, and 3 bytes. SplitMatchesFraming depends on the split
functions alone, so it is checked in the initial states. Two bytes per
connection are enough for a token (`a` LF), an EOF with bytes left over, and
two connections racing Stop.

### StorePlugin: the Store child's message queue

`StorePlugin.tla` EXTENDS PluginController and models `StorePlugin`
(kafkadest.go 1051-1113): the Store child's controller plus a MessageQueue
that the services fill with `Stash` and a `push` goroutine drains into the
child's message pipe. The Store case of Create makes that pipe (lines
949-983). `StorePlugin.Shutdown` overrides the controller's Shutdown (Go
embedding, so Start's own `s.Shutdown(3s)` still calls the controller's):
close stopChan, wait for push, drain the queue once more, close the pipe, and
only then the controller's Shutdown.

| Code | Model |
|---|---|
| NewStorePlugin | StoreInit (push starts in Wait) |
| Create, case Store | StoreCreate: Create, and s.pipe open, closed after a failed spawn, or unchanged |
| Stash | Stash: append the next message number |
| push: `for Wait(stopChan)` | PushWake (queue not empty), PushStop (stopChan closed; pushwg.Done) |
| pushqueue (for push, and for Shutdown) | PqGet (GetMany), PqWrite (MarshalMsg + pipe.Write), PqEmpty (return); as PushGet/PushWrite/PushBack and FlushGet/FlushWrite/FlushEnd |
| Shutdown | StoreShutdown (close stopChan; a second call panics), StoreWaitPush, the flush, FlushEnd (pipe.Close, then the controller's ShutdownBegin...) |

The composed Next is StoreCreate, the controller's `CtrlSteps` (every
controller action but Create and CallShutdown) leaving the store's variables
alone, and the store's actions. `utils.MessageQueue`
is not in the repository, so its semantics come from how this file uses it:
Put appends, GetMany(n) takes up to n from the front, and Wait returns true
once the queue is non-empty and false once stopChan is closed (either when
both hold, as a select would). A write reaches the child when the pipe is open
and the child runs; on a nil, closed or orphaned pipe it fails and the message
is dropped (line 1073). MarshalMsg is taken never to fail, and the pipe never
to be full (see the deadlock hazard in PROJECT.json).

Properties, all in the plugin run:
- PipeInStashOrder: the child gets messages in Stash order, the claim of the comment on Stash. Push and Shutdown's final pushqueue both drain the queue; pushwg.Wait keeps them apart.
- ShutdownFlushes: once Shutdown has closed the pipe, every message stashed before it closed stopChan was written or dropped. Wait may return false with messages queued; only the final pushqueue saves them.
- StashDelivered (liveness): a message stashed before stopChan closed is eventually written or dropped, whether or not Shutdown is ever called.

Bounds: two messages and `Batch = 1` (GetMany's 1000, scaled so that its loop
turns), on top of the controller bounds above. Two messages are the least for
an order, and with one per GetMany push and the final flush can each hold one.
The push goroutine and the supervisor inside Shutdown are weakly fair; Stash
is not. Mutants: Shutdown without pushwg.Wait breaks PipeInStashOrder, without
its final pushqueue ShutdownFlushes, and a Wait that also returns false on an
empty queue StashDelivered. The run takes about 100 s (730 000 states).

### RelpSplit: the RELP frame splitter

`RelpSplit.tla` EXTENDS TcpSplit and translates `RelpSplit` and
`splitSpaceOrLF` (relp.go 995-1041) over byte sequences: `FieldStarts` and
`Field` are `bytes.FieldsFunc`, the header's length is recomputed from the first three
fields as the code does, and `advance += datalen + 1` wraps at Go's int width.
`RelpScan`, a recursive function so that TLC evaluates each remainder once,
is the handler's `bufio.Scanner` over it (lines 907-914): the
tokens returned and why scanning stops (more, error, panic), with TcpSplit's
`ScanStep`.

RelpSplitMatchesFraming, in the pipeline run, checks it against RELP framing
("TXNR SP CMD SP DATALEN [SP DATA] LF"): every stream of up to two frames with
txnrs 1 and 12, command `s` and data empty, `a` or `a LF a` yields exactly the
frames without their trailer, and every prefix of such a stream yields a
prefix of them and waits. It is checked in the initial state only (the guard
`Init =>`), since it depends on no variable. Dropping the `l == 3` wait breaks
it: a partial `1 s 0` would be taken for a whole frame whose advance is past
the end of the buffer, which the scanner reports as an error.

RelpSplit trusts DATALEN: `1 a -9 ` evaluates to Panic (advance becomes -1
and `data[:advance]` panics) and the handler has no recover, so a single RELP
client ends the process, as TcpSplit does for `-1 ` (tcp_negative_length_panic).
PROJECT.json lists it as a hazard. Bytes of data that are blanks at the end of
the last frame's data are trimmed away with the trailer; the reference data
has none.

## Not modelled
- StreamingService: it is not in the sources. For RELP its listeners appear only as "no listener" at Start and as sockets closed by resetTCPListeners; for TCP its accept loop and connection set are modelled from spec 4.E in NetService. Its pooled raw buffers are not modelled.
- The TCP/UDP parser goroutine's parsing, ULID generation and stashing: none of them blocks or fails the connection, so the parser is a receive on the channel. Metrics and logging are left out.
- ackForwarder.RemoveAll (doStop): RelpPipeline follows one run of the service, and RelpService does not model the forwarder.
- The Kafka client, the parsers and the JavaScript filters: only their outcomes are modelled.
- The secret ring (kring.go: an interface and key generation), the encoders (protobuf.go: a type switch over marshallers), the service factory (factory.go and kafkadest.go's Factory: a dispatch on the service type) and the platform stubs (not_linux.go): they have no concurrency or protocol state of their own, so there is nothing for TLC to check.
- KafkaDestination (kafkadest.go 1-83): its ACK/NACK goroutines forward to baseDestination, which is not in the sources.
- StorePlugin's full pipe: a child that stops reading its message pipe blocks `pipe.Write` once 64 KiB are buffered, and StorePlugin.Shutdown would then wait for push for ever before the controller's kill. How many messages fit depends on their encoded size, which the model abstracts away.
- The binder's and the plugin's wire framing. The binder writes `confirmlisten` and `error` without the newline that its other replies carry; whether the child's reader needs it is outside the sources.
- The registry updates on `infos`, and the stashing of plugin syslog lines.
