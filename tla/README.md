# Verification of the VTV Network Sequencer

TLA+ models of the program in `src/`, the TLC runs that check them and the
TLAPS proofs about them. The program is a FastAPI server with a browser page.
It runs sequences of cards against a VTV vision device over TCP, over PLCLINK
(the program plays a PLC whose memory the device polls) or over EtherNet/IP
(Field Network), and it streams the watched memory to the page.

Contents: 1 the system, 2 the plan, 3 the modules, 4 the runs, 5 bounds,
6 fairness, 7 the proofs, 8 disagreements found, 9 what is not modelled.

## 1. The system

### Components

| Component (`src/...`) | State it keeps | Operations | What makes it correct |
|---|---|---|---|
| PLCLINK handshake, `backend/plc_link/client.py` | `_ignore_task`; the command, response and BUSY areas of the PLC memory | `send_command`, `_complete_ignored_command`, `_await_ignore_task`, the polling waits | a verdict returned is the device's verdict on that command; the trigger is held until BUSY and never left on; every call returns |
| TCP client, `backend/protocol.py` | reader, writer, unread lines | `connect`, `send_command`, `_discard_pending_input`, `_read_line`, `close` | lines returned belong to the command; damaged lines are errors |
| Sequence engine, `backend/engine.py` | `loop_depth`, `step_number`, `last_result`, `last_response`, `card_results`, `variables`, `stop_event` | `run` and one coroutine per card kind | it does what the tree of cards means; a stop is obeyed; every sequence ends |
| Bit edge log, `backend/bit_edges.py` | watched bits, bounded ring of edges, `_seq`, `_last_mono` | `arm`, `disarm`, `record`, `take` | edges of a bit in order and at least an RPI apart; a cursor gets each edge once |
| Watch stream, `backend/watch_stream.py` and `/ws/watch` in `backend/main.py` | loop task, `armed_edges`, cursor, `previous`; the page's `watchValues` | start, stop, sample | no change lost between two samples; the page follows the memory; its clock does not go back |
| Soft PLC server, `backend/plc_link/server.py` | listener, accept thread, connections and their threads, tasks, `_connected`, `_communicated`, the shared thread switch interval | `start`, `stop`, `wait_for_client`, `_accept_loop`, `_handle_socket`, `_consume_frames` | stop ends everything and gives the interval back; frames are answered in order |
| Device memory, `backend/plc_link/memory.py` | D words and M bits, growing | word, bit and dword reads and writes | a refused request changes nothing; reads return what was written |
| MC 3E frames, `backend/plc_link/mc3e.py` | none | framing, `handle_request` | every byte stream is cut into requests the same way however it is split |
| PLCLINK commands, `backend/plc_link/commands.py` | none | tables, packing of arguments | |
| Monitors, `backend/plc_link/monitor.py`, `backend/field_network/monitor.py` | none | tables of watch items, decoding | |
| Field Network client, `backend/field_network/client.py`, `buffers.py` | `_ignore_task`; copies of the two assemblies | as PLCLINK, and the reconnection checks | as PLCLINK, with cyclic and lossy I/O in between |
| EtherNet/IP scanner, `backend/field_network/eip_scanner.py` | session, connection, I/O buffers, receive thread, I/O task, sequence numbers | `connect`, `close`, `_io_loop`, `_udp_recv_loop`, Forward Open and Close | fresh input wins; a lost connection is noticed; close ends the thread and frees the port |
| Layout and EDS, `backend/field_network/layout.py`, `eds.py` | none | offsets of the areas in the assemblies; text parser | areas tile the assemblies |
| Local I/O, `backend/local_io.py` | none (writes PLI/ESI bits) | `apply_local_io` | all ports are checked before any is written |
| Client registry, `backend/main.py` 48-190 and the HTTP endpoints | `_plclink_client`, `_field_network_client` | ensure, get, close, status | one client per transport; none is left running unreferenced |
| Run session, `/ws` in `backend/main.py`, `runSequence` and `handleEvent` in `frontend/app.js` | `stop_event`, the run's task; the page's socket and `running` | execute, stop, events | one run at a time; the page learns how its run ended |
| Settings and sequence models, `backend/models.py` | none | validation | areas of the device memory do not overlap |
| Catalogue, `backend/catalog.py` + JSON | none | lookup, formatting | |
| Application start, `run_app.py` | instance lock, server thread, browser process | start, attach, supervise | one instance; the server ends with its window |
| Page, `frontend/app.js` | sequence being edited, settings, watch view | editing, drawing | |
| Probe scripts, packaging | | run by hand | |

### How they interact

One asyncio loop runs everything in the server. Code between two `await`s is
atomic with respect to all other tasks; the threads (one receiver per device
connection, the accept thread, the UDP receiver) only stamp what arrives with
the monotonic clock and queue it to the loop. The page talks to the server over
three kinds of connection: HTTP requests, `/ws` for a run and `/ws/watch` for
the watch. `_execute_sequence` makes a `SequenceEngine` for each run and gives
it a client: a new one for TCP, the shared one of the registry for PLCLINK and
Field Network. The PLCLINK client and the device share nothing but the PLC's
memory, which the device reads and writes by MC 3E requests that the server
carries out. The writes of both sides call `BitEdgeLog.record`, and the watch
loop takes from that log.

### What is hard

- *Interleaving at awaits*: two runs on one client, the background completion
  of an ignored command, a client closed under a run or a watch, two watch
  streams on one log, the old socket of a page that has already opened a new one.
- *Time*: polls every 10 or 20 ms, deadlines that race an answer, the 50 ms of a
  discard, edges put off to the next RPI, stamps older than their handling.
- *Stale data*: the response area, a BUSY bit of an earlier exchange, unread
  lines, a cursor into a log that was replaced.
- *Failure*: the device disconnects, restarts or does not answer, lines arrive
  damaged, a client cannot be started and the old one is brought back.
- *Bounds*: the ring of edges, the areas of the memory.

`PROJECT.json` lists each such hazard at its line with the properties that would
catch it, or with the reason why none does yet.

## 2. The plan

| | Module | Composes | Abstract specification | State |
|---|---|---|---|---|
| A | `PlcLinkHandshake` | | `CommandExchange` | checked, safety and step refinement proved |
| B | `BitEdgeLog`, `WatchStream` | the watch extends the log | | checked, all its properties proved |
| C | `RunSession` | an abstract engine, one socket per run | | checked, safety proved |
| D | `ClientRegistry` | requests, the soft PLC's start and stop, the scanner's opening | | checked, safety proved |
| E | `SequenceEngine` | | `SequenceMeaning`, what a tree of cards means | checked, all its safety properties proved |
| F | `TcpExchange` | | `CommandExchange` | checked, safety and step refinement proved |
| G | `FieldNetworkHandshake` | client, cyclic I/O, device | `CommandExchange` | checked, safety and refinement proved |
| H | the server's lifecycle | in `ClientRegistry` and `Mc3eServer` | | checked |
| I | `Mc3eServer` | connections, frames, memory | `PlcMemory` | checked, safety and refinement proved |
| J | `AssemblyLayout`, `LocalIo` | layout, settings, PLI and ESI commands | | checked, all its properties proved |
| K | `AppStart` | | | not to be modelled, section 9 |

A theorem states every safety property of a passing run. What is left is K, and
type invariants for the engine and the layout. `EdgesReachStream` for two streams
is not to be had (section 8).

## 3. The modules

### `CommandExchange`

The promise of `DeviceClient.send_command` (`engine.py`), whatever carries it:
`Send`, `Execute` (the device's verdict), `Return`. A command gets one outcome
which is never revised. One that is *clean* (nothing disturbed its exchange) is
returned with an error or with a verdict the device gave on that command. An
ignored one is returned at once. Every command sent is returned.

### `PlcLinkHandshake`

A command is a process: `stage` says where its exchange stands.

| Model | Code |
|---|---|
| `SendCommand(s, c)` | `send_command` up to its first suspension: it refuses without a connection, then either waits for the previous ignored command (`awaited`) or writes and triggers |
| `ResumeSend(s)` | the rest of it, once that wait is over |
| `WriteCommand` | clear the response area, write the words, BUSY 0, trigger 1 |
| `HandOver` | the caller keeps waiting, or `_ignore_task` takes the exchange and the caller has its "AK" |
| `PollBusyOn`, `PollResponse`, `PollBusyOff` | the successful end of each wait |
| `TimeOut`, `LoseDevice` | a wait that raises: `Abandon` with the trigger off |
| `Disconnect`, `Connect`, `Restart` | device connections and a device that forgets |
| `VtvPoll`, `VtvBusyOn`, `VtvRespond`, `VtvSample`, `VtvBusyOff` | the device after the timing chart of the manual (`docs/plc_link/_extract.txt` 1195-1285), one request each. External to the code. With `HoldsBusy` it keeps BUSY on until it has read the trigger off, otherwise it may drop it early, as the device of `tests/test_plclink.py:564` does |

`taken`, `executed` and `clean` are history. A command's words are its name, the
response area is the device's verdict with the command it belongs to.

### `FieldNetworkHandshake`

The same call over EtherNet/IP. Nothing is shared: `out` and `in` are the
client's two assemblies, `devOut` and `devIn` the device's, and copies travel on
`wireOut` and `wireIn`.

| Model | Code |
|---|---|
| `SendCommand(c)`, `ResumeSend(c)`, `Issue` | `send_command`: unlike PLCLINK it clears neither the response area nor BUSY, which are the device's |
| `PollBusyOn`, `PollResponse`, `PollBusyOff`, `Abandon` | the waits, their ends and their failures; an ignored command's background task skips the wait for a response |
| `SendOutput` | `_send_output` of one cycle |
| `HandleInput` | `_drain_input_queue` to `write_input`: any copy under way, as the sequence number is compared with nothing |
| `Disconnect` | a send or a receive fails and `_connected` turns false; the I/O loop goes on sending and taking copies (another exception ends it, which is a loop that takes no more steps) |
| `VtvReceive`, `VtvSend`, `VtvRespond`, `VtvBusyOff` | the device, external |

A copy that is lost is one that is not sent. `inOrder` is fixed at the start:
a network that keeps the order of the copies, or one that does not.

### `BitEdgeLog` and `WatchStream`

`BitEdgeLog` has one operator per method: `arm`, `record`, `take`. `Push` is the
bounded deque, `Stamp` the putting off of an edge that comes within
`min_interval_s`, `Kept` the comprehension of `take` that keeps the edges beyond a
cursor, `Renew` the new log of a new client. `WatchStream` extends it; `OfItems`
are the changes of the bits a stream asked for.

| Model | Code |
|---|---|
| `ProgramWrite`, `DeviceWrite` | `set_bit`, `set_output_bit` now; `_consume_frames` and `write_input` with the time of arrival |
| `CloseClient`, `OpenClient` | `_close_...` and `_ensure_...`: the client, its memory and its log are replaced |
| `Start` | the start message once `stop_loop` is done: arm the log in use |
| `Sample(s, full)` | one pass of `run_watch_loop` from `take_edges` to the send, which has no await inside, and `handleWatchSocketMessage` of the page |
| `FailSample` | `read_once` raises: the error is sent and the loop ends |
| `BeginStop`, `FinishStop` | `stop_loop` with the await in its middle, then `disarm_edges` |

`owed` is history: the changes of the watched bits since the stream last took.
The number of the log stands for the log object, so a stream may hold an old one.

### `SequenceEngine`

The nested coroutines `_run_steps`, `_run_if` and `_run_loop` are a stack of
frames; an action runs from one await to the next, and `Stop` may come between
any two. Exceptions unwind the stack: `Unwind` ends the run and gives
`loop_depth` what the `finally` clauses would, `Break` leaves up to the nearest
loop. A result is the status and the lines of the response: over TCP these need
not hold the status, and there are none when the input response is off and no
result is expected. `last_result` and the card's entry in `card_results` are
always replaced, `last_response` only by lines (`Remember`): after a result
without lines `last_response` is still the text of an earlier card, which a
variable card takes (`Remembered`) while an if card asks the new, empty response
(`Matched`, which is the test of `_run_if`). `Part` and `Strip` say which texts are
within a line and what `strip` leaves of it; lines are joined by line ends and a
card's value is one line. A variable not set is "none", which no card sets in
the runs. Every client returns an ignored command with AK and a line of its own
making (`Unheard`). Which results a device may return depends on its settings
and comes with the program (`device`).
A PLI or ESI card (`local`) is switched by `apply_local_io` on its own transport
and fails on the others. Variable cards take a literal, the last response or
that of a named card, an output port or two words of result data: `Readable`
says where the program can read those, `Remembered` what the engine keeps. A
variable card with a blank name fails (`MissingSource`). Every card has an id, as
those of the page do.

`SequenceMeaning` says what a list of cards means, with no stack, frames or
exceptions: a function from an environment (answers not yet used, results,
variables, events so far, a signal) to an environment. A list of cards is a list
of lists of cards, so `Meant` is a function by recursion on how deep cards are
nested, up to any bound `Depth`: with a RECURSIVE operator nothing could be proved
about it. An environment keeps the last line there was (`heard`) apart from the
last result, as the engine does. `FollowsTheSequence` compares the engine's events
and end with that meaning in every state: a run that fails must fail at the card
that fails by its meaning, or at one whose answer has not come. The sequences to check are in `MCSequenceEngine`.

### `TcpExchange`

One connection and the commands `1..N` of a run in turn. `Send`, `Discard` and
`Quiet` are the start of `send_command`, `ReadStatus`, `ReadResult` and `NoMore`
its reads, `TimeOut` and `Lose` the ends without a line. NK stands for NK and
ER. The device takes a command at a time and sends what it owes for it whenever
it likes; when `prompt` (fixed at the start, either way) it is never slower than
the client's two short reads (50 ms and 200 ms). A line carries the command it
belongs to for the properties only. A read is possible as soon as there is a
line; a line that comes just as the deadline passes is a `TimeOut` before the
device's step.

### `PlcMemory` and `Mc3eServer`

`PlcMemory` is what a client of MC 3E may rely on: a memory of `Size` cells per
device, zero at first, served one request at a time; `Serve` answers a request
whole or refuses it. `Mc3eServer` is how the program does it.

| Model | Code |
|---|---|
| `Accept`, `HangUp` | `_handle_socket` from its start to its end |
| `TakeChunk` | the next chunk of the receiving thread goes into the buffer (`received` bytes so far, `used` of them consumed) |
| `DropByte`, `HandleFrame`, `EndOfBuffer` | the loop of `_consume_frames`: resynchronise by a byte, handle a frame, wait for more. It has no await, so `consumer` keeps everyone else out |
| `Execute`, `Access` | `_execute`, `_execute_random` and the reads and writes of `DeviceMemory`, one run of cells after the other until one fails |
| `Extended` | `_ensure_d_range`, `_ensure_m_range`: lists that grow on use, also on a read |
| `Drained` | `_communicated` is set once the answers are out |

`Parameters` says what the connections and requests may be: any sizes, any
requests, and before each of them any bytes (`Sendable`) that hold no subheader,
as the program resynchronises on the first one it sees. An access to no cell
still has an address, which must not be past the end (`Exists`).

Subheader, route and length are bytes, a body is a token per byte that names its
request, so that a body cut short or shifted is recognised as none.

### `AssemblyLayout` and `LocalIo`

`AssemblyLayout` has the offsets of the areas in the two assemblies
(`Layout`, `Buildable`, `FitsSizes`), the bits of ports and status signals, and
the choice of `suggest_layout_from_sizes` (`Suggested`: the least score tuple)
with the fallback of `import_eds` (`Rough`). `LocalIo` extends it with the
settings (`Migrated`, `WithBusyPort`, `PlcValid`, `FnValid`, with the limits of
the fields an import sets: `MinAssembly`, `MaxAssembly`, `MaxCommand`,
`MaxStatusBit`), with
`ApplyLocalIo`, and with what goes on beside it on the same bits: the device
switching BUSY, the client raising and dropping the trigger, new settings saved
under a running PLC.

### `RunSession`

Each run opens a WebSocket of its own; run and socket have the same number.

| Model | Code |
|---|---|
| `StartRun`, `PressStop` | `runSequence`, `stopSequence` |
| `OnOpen`, `OnVerdict`, `OnDisconnected`, `OnClose` | the listeners: whichever socket they belong to, they act on the run shown and on the newest socket |
| `Receive`, `HandlerReturns`, `Disconnected` | the `/ws` endpoint: execute, stop, what arrives during a run, the lost page |
| `ClientReady`, `NoClient`, `Complete`, `StepFails`, `Stopped`, `SendFails`, `ReportClosed` | `_execute_sequence`: one action per way it goes on; a stop that comes during the last card may still end in completed, or in failed if that card fails |
| `CloseFirst`, `ReportFailure` | a failed run over TCP closes its client, half a second, before the failure is sent |
| `Lose` | a connection breaks by itself, once in a behaviour |

`patient`, fixed at the start, is a user who waits for the last socket to close
before the next run; the other kind starts as soon as the button allows.

### `ClientRegistry`

A behaviour follows one kind of client (`kind`), as the two share nothing.

| Model | Code |
|---|---|
| `EnsurePlc`, `ResumePlc` | `_ensure_plclink_started`: reuse, replace (close, then start, then the old port again), start |
| `EnsureFn`, `ResumeFn` | `_ensure_field_network_connected` |
| `CloseClient`, `Closed` | the close functions |
| `Start`, `Acquire`, `Release` | `SoftPlcServer.start` and the thread switch interval it shares |
| `StopListener`, `StopReturned`, `WriterClosed` | `stop()` at its awaits: connections, listener, tasks |
| `DeviceConnects`, `DeviceLeaves` | the accept thread, until the listener is closed: also during the stop (`late`) |
| `Connected`, `WrongSize`, `NoDevice`, `OpenFailed`, `ScannerClosed`, `ConnectionLost` | `connect` with the size candidates of `_forward_open`, `close`, a connection that is lost (a failed send or receive, or the end of the I/O loop) |
| `OthersListen` | another program takes a port |

### Slips

Some modules define operators marked as slips: a guard dropped, an order
swapped, a reset forgotten. No specification uses them. `PROJECT.json`
(`mutants`) pairs each property with a slip that must break it.

## 4. The runs

| Run | Question | States | Properties |
|---|---|---|---|
| `plc_shared` | two sequences on one client, a plain and an ignored command, a device that may be slow, drop BUSY early, vanish, restart; deadlines alone end every call; refinement | 23 k | `AnswerIsOwn`, `TakenBeforeTriggerOff`, `TriggerIsAwaited`, `SendReturns`, `ImplementsExchange` |
| `plc_answers` | one sequence of four commands, a willing device and no deadline: words are held, everything is answered | 2.6 k | `CommandHeldUntilBusy`, `AnswersArrive` |
| `plc_overwrite` | *violation*, section 8 | | `CommandHeldUntilBusy` |
| `fn` | two callers over cyclic copies, lost, late, in order or not; refinement | 207 k | `AnswerIsOwn`, `TriggerIsAwaited`, `SendReturns`, `ImplementsExchange` |
| `watch` | one stream, edges an RPI apart, clients replaced under it | 2.8 M | `EdgesReachStream`, `LevelsAgree`, `EdgesSpaced`, `ViewFollows`, `SampleClockMonotone` |
| `engine` | small programs of every card on every transport, every pattern of answers, results with several lines, one or none, a stop anywhere | 145 k | `DepthCountsLoops`, `StopIsObeyed`, `FollowsTheSequence`, `SequenceEnds` |
| `engine_ports` | *violation*, section 8 | | `PortsAreReadable` |
| `tcp` | devices prompt and of any pace, damaged lines; refinement | 1.3 k | `PromptAnswersAreOwn`, `AnswersOwnSoFar`, `ImplementsExchange` |
| `mc3e` | two connections, every split into chunks, stray bytes, requests at and past the limits; refinement | 118 k | `HandledAsSent`, `ArrivedIsHandled`, `ImplementsMemory` |
| `local_io` | every candidate setting, port lists in and out of range, EDS sizes within and beyond the limits | 46 k | `PliKeepsOutputs`, `AreasApart`, `TriggerIsSent`, `RefusedChangesNothing`, `SuggestionFits` |
| `session` | two runs, TCP and shared clients, stop at any time, a lost connection | 180 k | `VerdictIsOwn`, `OneRunAtATime`, `StopEndsTheRun`, `OrphanStops` |
| `registry` | two requests, two settings, starts and openings that fail | 543 k | `NoneLeftRunning`, `IntervalRestored`, `SizesAreFound`, `FailedStartKeepsOld`, `RequestsReturn` |

Each module has one type invariant, `TypeOK` (`ServerTypeOK` in `Mc3eServer`). It
was model-checked with every
version of its module but takes no place in the runs: it is proved for all
constants for PLCLINK, Field Network, TCP, the watch, the MC 3E server, the
registry and the run session (section 7).

What they show, in short:

- *PLCLINK*: `send_command` never compares the echoed command, clears BUSY
  itself and shares one slot among all callers. Still, a command written while
  the device is at rest and no exchange is open gets its own verdict or an
  error, through timeouts, lost connections and restarts; the trigger is never
  left on; and with one sequence the command words are held as the manual asks.
- *Field Network*: the answer of the last command is still in the response area
  when the next is sent, and satisfies the wait for a response at once. What
  keeps answers apart is the wait for BUSY to go off on a network that keeps the
  order: until an exchange fails or two overlap, every command gets its own
  verdict. After that, or with copies out of order, nothing does.
- *Watch*: taking edges before the snapshot, with no await between, keeps edges
  and levels in agreement even when the ring overflows; a difference sample
  never leaves the page behind.
- *Engine*: loops, if cards and breaks nest as the tree says, a stop ends the
  run before the next card, and `BREAK` is refused exactly outside of loops. What
  a card takes of earlier answers is what it says it takes, also when the newest
  result has no lines.
- *TCP*: answers are the command's own up to the first command that does not
  read its answer to the end, and beyond it if the device is quick.
- *MC 3E*: however a stream is cut, requests are handled whole, once, in order;
  growing lists look like a fixed memory, also to requests that fail half way.
- *Local I/O and settings*: accepted settings keep the areas apart; no PLI or ESI
  command touches BUSY or the trigger once there is an ESI port; what an import
  proposes from the sizes can be saved exactly up to an input assembly of 1444
  bytes and a command area of 512 words.
- *Run session*: to a patient user the page shows each run's own verdict and
  only one sequence runs at a time while no connection breaks; a run whose page
  is gone is stopped.
- *Registry*: requests that do not overlap leave no server behind; the switch
  interval is given back in every order of starts and stops; every request
  returns unless a device keeps a connection taken during a stop.

Deadlock is checked in `watch`, where a stream can always be started or stopped.
In the other runs commands, cards, requests, runs, clients or bytes are used up,
or (`local_io`) the properties are about single steps, so the system may rightly
stop; those configurations say `CHECK_DEADLOCK FALSE`. That they do not stop
before the work is done is said by `SendReturns`, `AnswersArrive`,
`SequenceEnds`, `ArrivedIsHandled`, `StopEndsTheRun`, `OrphanStops`,
`RequestsReturn` and the liveness of `ImplementsExchange`.

## 5. Bounds

- *PLCLINK*: two commands in two sequences, four in one (a plain and an ignored
  one before and after each other). An exchange can be disturbed only by its
  predecessor, the one waiting and the one of the other sequence; commands are
  interchangeable but for being ignored. The theorems need no bound.
- *Field Network*: a plain and an ignored command of two callers, so that each
  follows, overlaps or waits for the other; `MaxFlight` of 2 input copies, the
  fewest that can be reordered; one output copy under way, as a lost one and one
  never sent are the same. Verdicts tell the two commands apart.
- *Watch*: one bit written by each side, a ring of 2 (`MaxLen`) so that it
  overflows, 4 edges per log (`MaxSeq`), 3 changes owed (`MaxOwed`, more than the
  ring), clock to 2 (`MaxTime`) with an RPI of 2, stamps up to 1 old (`MaxLag`),
  two clients in turn (`MaxGeneration`). `MaxTime` against `MinInterval` lets an
  edge be put off beyond the end of the clock, twice over. On the soft PLC the
  RPI is 0 and nothing is put off; that is the case of edges far enough apart.
- *Engine*: all loop bodies of up to two cards out of a command, a break and one
  if card over those, nested in another loop or followed by a break, on
  TCP, and the programs for the other cards and for ports and result words on
  every transport. Two rounds per loop: the first and the one after it. `Depth`
  of 4 is that of a command in an if card in a loop in a loop. Three
  device answers (two texts of AK, one NK), two where the loops are many, ports 1
  to 3 of 2, offsets 0 to 4 of 4 words. The cards that look at a response come
  after one or two commands, ignored or not, with answers of no line, of a blank
  one, of the status alone and of a text with a blank before it: two commands are
  what it takes for an older line to be left.
- *TCP*: five commands: plain, expecting one line, until idle (up to 2 lines),
  ignored, and one more that would be given what the last two left; with the
  input response on and off.
- *MC 3E*: areas of 4 cells that start with 2, words of 2 bits, bodies of 1
  byte, two connections with one of six scripts: in range, growing, past the end,
  bits and words, batch and random, too few values, no cell past the end,
  stray bytes that look like half a subheader.
- *Local I/O*: memory addresses to 5 (`LastAddress`), areas of up to 4 words
  moved through every overlap; a notification area of 2 words (`NotifyWords`);
  lists of ports out of 1, 2, the last and the one beyond. The limits of Field
  Network (512 words of command, 0 to 128 ports, assemblies of 4 to 1444 bytes,
  status bits to 2047) are the code's own, with sizes and bits on both sides of
  them.
- *Run session*: two runs (`MaxRuns`), the shown one and the one before it, whose
  socket may still speak; two messages waiting (`MaxQueue`): execute and stop.
- *Registry*: two requests, two settings, three clients (`MaxClients`): an old
  one, the one that replaces it and the old setting once more. Assemblies of 2
  words with a header of 4 make all five size candidates different.

## 6. Fairness

- `PlcLinkHandshake!Spec`: weak fairness of every wait's progress and of the
  resumption of a waiting call. Every wait is a loop with a sleep and a deadline,
  so it is bound to end, and asyncio resumes a task whose awaited task is done.
  `LiveDeviceSpec` adds a device that keeps polling and connecting; only
  `AnswersArrive` and the run `plc_answers` use it, together with
  `MayFail = FALSE`.
- `FieldNetworkHandshake!Spec`: the same two for its waits; nothing of the
  network or the device.
- `WatchStream!Spec` states none: its properties are safety.
- `SequenceEngine!FairSpec`: weak fairness of the run as a whole: sends, sleeps
  and sequence events all come back, if only by a timeout.
- `TcpExchange!Spec`: weak fairness of the client: every read ends with a line or
  at its deadline. A `prompt` device does answer; of any other nothing is
  assumed.
- `ServerSpec` of `Mc3eServer`: a connection's task and its receiving thread go on
  (`Loop`): bytes that were sent arrive, as TCP promises. Nobody has to connect
  or to stay.
- `RunSession!Spec`: the page's and the service's event loops run, a client is
  opened or fails, a stopped sequence ends. A sequence need not end by itself.
- `ClientRegistry!Spec`: requests that can go on do, closing sockets close, each
  Forward Open is answered. Neither users nor devices have to do anything, which
  is why `RequestsReturn` excepts a device that keeps a late connection.

## 7. The proofs

TLAPS checks these for every value of the constants, from the named assumptions
of the modules only (`HandshakeAssumption`, `FieldNetworkAssumption`,
`TcpAssumption`, `LogAssumption`, `WatchAssumption`, `EngineAssumption`,
`MeaningAssumption`, `LocalIoAssumption`, `RegistryAssumption`,
`SessionAssumption`, `Mc3eAssumption`),
which TLC evaluates in the runs. A theorem that needs more has it among its
hypotheses, named below.

Several are about what a definition by recursion computes: the edges `Kept` of a
ring, the frames joined to a stream, the accesses of a request one after the
other, the largest command area that fits. The library's induction rules take an
operator and cannot be instantiated here, so the proofs go through the set of
numbers with the property (`Least`, `Induction`, from the well-foundedness of <
on Nat), show that the recursion has a solution (`Iterated`, `JoinsExist`) and
then follow it step by step.

- `PlcLink_proofs`, the client. `TypeCorrect`, `AnswersBelong`, `TriggerHeld`,
  `TriggerReleased`, `ExecutedWereSent` prove the safety invariants;
  `CommandHeld` the action property for one sequence (the assumption is part of
  the theorem); `StepsImplementExchange` that every step is a step of
  `CommandExchange` or a stutter. The invariants are not inductive alone. That a
  clean command's verdict is its own needs that nothing else touches the areas
  while it is open: `CleanIsAlone` (no other exchange is open beside a clean one,
  and device and response area are at rest or on that command), `CallersApart`
  (no two calls or tasks run the same command), `SentOnly` (the memory and the
  device hold sent commands only) and `NoEarlyOutcome` (a command has no outcome
  before its exchange ends, an ignored one apart). Each action is shown to keep
  each part.
- `PlcLink_proofs`, the simulated PLC (`Mc3eServer`).
  `RequestsHandledAsSent` proves `HandledAsSent` for any connections, requests,
  strays without a subheader and cuts between the chunks. The invariant
  (`FrameInv`) says where in its stream the head of a buffer is: among the strays
  before the request that is next, or at its first byte, so that a subheader seen
  there is that request's own, its length leads to the end of its body and the
  drop of a byte without one cannot skip a frame. A stray byte before a frame can
  be half a subheader, but not with the frame's first byte, which is why the
  proof looks at pairs of bytes across that border.
  `ListsImplementMemory` proves `ImplementsMemory`, for any requests and any
  sizes. What one access does to a list that may have to grow is what it does to
  the fixed memory (`AccessDoes`, from `GrowthHidden`); after n accesses of a
  request the memory is that of `Written` with the cells of the first n, or fewer
  once one has failed, and a read has gathered what those cells hold (`Did`, by
  induction over n); hence every `HandleFrame` is a `Serve` or a `Reject`, and
  everything else a stutter. `ServerTypeCorrect` proves `ServerTypeOK` from both
  invariants.
- `FieldNetworkHandshake_proofs`. `TypeCorrect`, `TriggerReleased`,
  `AnswersBelong` and `HandshakeImplementsExchange`, for any number of commands,
  callers and copies under way. Nothing in a copy says which command it answers,
  so the proof follows the copies. From the one the client read last to the one
  the device sends next they show the current command before, during and after
  its execution, in that order (`RanksAscend`). The output copies show its
  trigger rise and fall once, so that the device starts it once (`TriggerOnce`).
  Where client and device stand says how far the ends of that chain have come
  (`ClientOnCurrent`, `DeviceOnCurrent`): a client that has seen BUSY on and off
  reads the copy that carries the current command's answer. All this holds as
  long as nothing was reordered or disturbed (`Calm`), and commands become clean
  only then (`CleanIsCalm`).
- `WatchStream_proofs`. `PulsesKeepTheirWidth` and `EdgesAreNumbered` prove
  `EdgesSpaced` and `SeqAscends`, for any ring length, RPI, bits and streams. The
  first rests on `LastMonoIsNewest`: `_last_mono` is no older than any edge of
  its bit, which holds because a stamp is put off from it and an edge that drops
  out of the ring leaves it alone. It needs a positive RPI: without one a frame's
  stamp may precede a later write's.
  `BrowserFollows` proves `ViewFollows`: while the loop runs, `previous` is what
  the browser shows of the bits the stream asked for (`ViewInv`), so that a row
  left out is one the browser has already.
  `TypeCorrect` proves `TypeOK`. `ChartEndsAtLevel` proves `LevelsAgree`, if each
  bit is written by one side only or an RPI spaces the stamps (soft PLC and
  scanner respectively): the newest edge of a bit in the log is its level
  (`NewestIsLevel`), and the newest edge is also the one with the latest stamp
  (`StampsAscend`), by which the page sorts.
  `NoPulseIsLost` proves `EdgesReachStream` with one stream as the hypothesis: as
  long as the log it armed is the one in use, the edges beyond its cursor are the
  last of those it is owed, numbered without a gap (`InStep`), and what `take`
  keeps of the ring is that end of it.
  `TimeAxisAdvances` proves `SampleClockMonotone` from `SampleIsPast`.
- `TcpExchange_proofs`. `TypeCorrect`; `PromptAnswersBelong` and
  `AnswersBelongSoFar` prove `PromptAnswersAreOwn` and `AnswersOwnSoFar` for any
  number of commands; `StepsImplementExchange` that every step is a step of
  `CommandExchange` or a stutter. Lines name no command, so the proof is about
  what could still come: with a prompt device nothing of an earlier command is
  left once the discard has ended (`AloneWhenPrompt`); with any other, nothing is
  left as long as every answer was read to its end. What waits in the device is
  in the order of the commands and behind the lines of the current one
  (`InLine`), and the commands before it have no line to give (`OldAreSilent`).
- `SequenceEngine_proofs`. `StopHolds` proves `StopIsObeyed` for any set of
  programs: from the stop on the count of cards stands still, and no command
  carries a number beyond it (`StopInv`).
  `DepthIsTheNesting` proves `DepthCountsLoops` from the shape of the stack
  (`DepthInv`): one root frame at the bottom and nowhere else, a loop on top when
  a round begins. Its lemmas say what a push, a card done, a round and a break
  do to the number of loop frames.
  `SequenceIsFollowed` proves `FollowsTheSequence` for any programs, any depth of
  nesting, any device and any stop. What has happened says nothing of what is to
  come, so the invariant looks ahead (`MeaningInv`): start from the environment
  the engine stands for (`Now`), do the cards left in the innermost frame, then
  what closes it and the cards left in the frame around it, and so on to the root
  (`Ends`); whatever answers may still come, the result is the meaning of the
  whole sequence. So the log is a prefix of what is meant, and the end is the
  right one: a failure is that of the card under way or the lack of its answer. First it is shown that the two recursions of `SequenceMeaning` have
  solutions (`InTurn`, `Meant`), and that meanings only ever add to the log; then
  what a card done, a frame pushed, ended or replaced, a break and a failure do to
  the frames (`EndsNext`, `EndsBranch`, `EndsEntered`, `EndsRound`, `EndsLeft`,
  `EndsBroken`, `EndsFailed`); then one lemma per action.
- `ClientRegistry_proofs`, for any number of requests, clients and settings.
  `IntervalGivenBack` proves `IntervalRestored`: which release is the last is read
  off `users`, so the count must be the number of holders, and a server that
  starts cannot hold the interval already (`IntervalInv`). `TypeCorrect` needs
  that a request that will make a client has set its room aside. `SizesFound`
  proves `SizesAreFound` from what an opening was refused so far
  (`RefusedBefore`). `NoneLeft` proves `NoneLeftRunning`: as long as requests do
  not overlap, a client that is not over is the registered one or the one the
  request in progress closes or opens, and that request found no working client
  or took it off the registry (`Accounted`). `OldPortKept` proves
  `FailedStartKeepsOld`.
- `RunSession_proofs`, for any number of runs. `TypeCorrect`; `VerdictBelongs`
  proves `VerdictIsOwn`, `OneAtATime` proves `OneRunAtATime`. The listeners of an
  earlier socket act on the run shown, so the proof is that none of them has
  anything to act on: an earlier run's socket is closed, or stays open after its
  one verdict was shown (`EarlierRest`). This rests on what a run has sent and
  been sent (`Own`): one execute and before anything else, one verdict and
  nothing before it, "disconnected" over TCP only, and, while no connection
  broke, no closed socket without a verdict shown.
- `LocalIo_proofs`. `LayoutTiles`: the areas of both assemblies follow each other
  without a gap or an overlap, for any ports and words. `AreasKeptApart` proves
  `AreasApart`, `OutputsKept` proves `PliKeepsOutputs` and `TriggerBelongs`
  proves `TriggerIsSent`, for any candidate settings and sizes. The invariant is
  that the settings in force were validated (`InForce`), which the start, an
  import and a save each keep, and that a port's bit lies inside its area.
  `RefusedIsWhole` proves `RefusedChangesNothing`. `ProposalsCanBeSaved` proves
  `SuggestionFits` for any sizes, not only the few a run tries: the candidate with
  the least score exists, it passes the checks of the settings if and only if
  the input assembly is no larger than they take and the command area no larger
  than its limit (which keeps the output assembly below its own), and the
  fallback `Rough` never does.

Only model-checked: all liveness, which is out of this prover's reach
(`SendReturns`, `AnswersArrive`, `SequenceEnds`, `ArrivedIsHandled`,
`StopEndsTheRun`, `OrphanStops`, `RequestsReturn`, and the fair part of
`ImplementsExchange`).

## 8. Disagreements found

Two are runs of their own:

1. *Two runs on PLCLINK* (`plc_overwrite`). `send_command` looks at no exchange
   but an ignored one's. A second run overwrites command words whose trigger is
   on and whose BUSY has not come, and the first command is lost. The manual says
   trigger and command data are to be held until BUSY ON
   (`docs/plc_link/_extract.txt:1264`).
2. *Output ports over Field Network* (`engine_ports`). `_read_eso`
   (`engine.py:445`) calls `get_in_bit`, which the scanner's buffers do not have;
   the AttributeError is not among those caught, so a variable card that reads an
   ESO port ends every sequence. Engine and page exclude TCP only
   (`engine.py:408`, `app.js:3378`).

The others are stated where the properties make room for them:

3. *The sample clock goes back.* On Field Network an edge may be put off into the
   future; the sample that carries it is stamped with it, the next one with the
   time of sending. `SampleClockMonotone` excepts exactly that.
4. *Two watch streams.* One log, one set of watched bits: the second start, or
   the end of an earlier stream, takes the first one's edges. A page that
   reconnects after an error makes two streams on its own for a while.
   `EdgesReachStream` holds for one stream.
5. *A late answer of an ignored TCP command.* The discard before the next command
   waits 50 ms; an answer later than that is read as the next command's.
   `AnswersOwnSoFar` and `PromptAnswersAreOwn` say up to where, and with which
   devices, answers are a command's own.
6. *Old copies on Field Network.* After a failed exchange, or with copies out of
   order, an old BUSY or an old answer can be taken for the new one's. Of two
   commands that overlap the device may start one when its caller is gone, and
   its answer is taken by a later command that overlaps none (`clean`).
7. *An ESI command without ESI ports* passes with port 1, which is the trigger
   (`local_io.py`, `MaxPort`): `TriggerIsSent` asks for a port.
8. *BUSY may be configured anywhere* in the input assembly, the response area
   included (no check relates the two); and an EDS import leaves status signals alone
   that may lie outside the new assembly (`SuggestionFits`).
9. *An impatient user.* A run started before the last one's socket has closed is
   ended on the page by that close, as if the connection broke, and its sequence
   goes on unseen (`VerdictIsOwn`, `OneRunAtATime`).
10. *Overlapping requests* leave a server running that the registry no longer
    names, and a Field Network connection that broke is not closed when the next
    one is opened (`NoneLeftRunning`).
11. *A connection accepted during `stop()`* is not closed by it, and `stop()` waits
    for as long as the device keeps it (`RequestsReturn`).
12. *Sizes beyond the settings.* `parse_eds_text` and `suggest_layout_from_sizes` take
    any even sizes with room for a command; the settings take assemblies of at most 1444 bytes and command
    areas of at most 512 words. An EDS file of 1448 and 136 bytes is imported with
    a proposal that cannot be saved (`SuggestionFits`).

## 9. Not modelled, and why

- Conversions and tables: `commands.py` (packing of arguments), `catalog.py`, the
  decoding in the monitors, the parser of `eds.py`, the encoding of CIP messages
  in `eip_scanner.py`. They keep no state and have no order; their errors are
  wrong constants, which a model would only repeat.
- The limits of single fields in `models.py`, but for those of the sizes and bits an
  import reaches; their relations are in `LocalIo`.
- Lookups in the operating system (`network.py`, `paths.py`) and the start of the
  application (`run_app.py`): a lock of Windows, a browser process and health
  checks over HTTP, whose states are not the program's.
- The page's editing, settings, undo and drawing; probe scripts; packaging.
- A bit that both sides write (BUSY, which `send_command` clears and the device
  sets) with a frame stamped before and handled after the program's write: the
  watch keeps the bits of the two sides apart (`server.py:373`).
- A TCP device that never stops sending, which holds the discard for ever
  (`protocol.py:182`).

Abstractions within the modelled parts: contents of commands, responses and
results (atoms); wording and logging; the 20 ms grid of the polls (a wait may end
at any moment its condition holds, or miss it and time out); encoding and
checksum (a line is good or damaged); error codes of MC 3E (one refusal); signs
and double words; the period of full samples (any sample may be full, the first
must be); the progress events of a run.
