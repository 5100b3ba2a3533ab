# TLA+ models of uWebZockets

uWebZockets is a Zig web server: HTTP/1.1, HTTP/2, WebSocket and HTTP/3 on
single-threaded event loops (libxev), grouped into a cluster of worker threads.
This directory models the parts of it whose correctness depends on order:
interleavings of threads, callbacks that re-enter the code that called them,
tables at their limits, and timers that race with time. The repository also
carries a lint plugin in TypeScript, `anti-slop`, whose rules resolve types and
values; its algorithms are modelled too and compared with what they compute.

Source paths below are relative to `src/src/`, those of the plugin (`*.ts`) to
`src/.agents/skills/install-anti-slop/assets/anti-slop/`.

## 1. The system

### Parts, state and operations

| Part | State | Operations | What is hard |
|---|---|---|---|
| Cluster inbox (`router/cluster.zig`, wakeup in `router/app.zig`) | ring of 64 slots with an ownership word each, two positions, one async wakeup per worker | `publish` -> `push_validated` from any thread, `pop_copy` and the drain loop on the owner | lock-free interleavings, stale positions, full ring, lost wakeup |
| Cluster lifecycle (`router/worker_group.zig`, `Cluster` in `router/app.zig`) | lifecycle word, call counter, thread handles, first failure | `enter`/`leave`, `begin_run`, `start`, `join`, `finish_run`, `begin_release`, `finish_release` | calls racing with release, spawn that fails half way, failure cascades |
| Topic registry (`ws/pubsub.zig`) | subscription rows (struct of arrays), a list per topic, two open-addressed indexes, free topic ids, publish depth | `subscribe`, `unsubscribe`, `unsubscribe_all`, `publish` | callbacks inside the fan-out, rows that move, tombstones, capacity |
| Timers (`core/timer_wheel.zig`, `core/timer.zig`) | four wheel levels, overflow list, processing list, one driving completion | `insert`, `remove`, `advance`, `schedule_after`, `cancel`, `on_tick`, `stop` | boundaries of every level, callbacks in mid-dispatch, one-shot driver |
| TCP connection (`core/tcp.zig`, `core/pool.zig`) | a pooled slot with read, write, timer and cancel completions, protocol state | accept, read, write, close, release | a slot reused while the kernel still holds a completion, close inside a callback |
| Write path (`core/tcp_file.zig`, `ws/backpressure.zig`) | bounded write ring, batch flag, file body, drain callback | queue, direct send, flush, file pump | partial writes, order across ring and file, drain exactly once |
| Application (`router/app.zig`, `core/loop.zig`) | listeners, connection pool, scheduler, shutdown phase | `listen`, `run`, `request_shutdown`, `drive_shutdown`, `deinit` | shutdown that must drain everything before the deadline |
| WebSocket (`ws/socket.zig`, `ws/stream.zig`, `ws/handshake.zig`) | frame parser, fragmentation, close flags, heartbeat | upgrade, send, receive, close handshake | crossing closes, control frames between fragments |
| HTTP/2 (`http2/connection.zig`, `http2/server.zig`, `http2/hpack.zig`) | stream slab, two windows per stream and two per connection, settings, dynamic table, pending responses | `receive_frame` and a handler per event, `send_response`, `begin_response`, `write_response_data`, `finish_response`, `reset_stream`, `flush_pending` | windows that go negative, refunds, header blocks of streams that are gone, slots freed inside a callback |
| HTTP/1 (`http/parser.zig`, `http/request.zig`, `http/response.zig`, `http/streams.zig`) | incremental parser, response state, producers | parse, respond, stream, abort | asynchronous completion, pipelining |
| Lint plugin, types (`shared/type-alias-resolution.ts`, `shared/dictionary-types.ts`, `rules/no-unsafe-dictionary-type.ts`, `rules/no-unknown-*.ts`, `rules/no-object-parameters.ts`) | the environment of the file being linted, kept in closures that live for a whole run | `Program`, and one handler per kind of node | scopes and shadowing, generic aliases, recursion that does not end, state left by the file before |
| Lint plugin, values (`rules/no-known-value-widening.ts`, `rules/no-widen-then-assert.ts`, `rules/no-chained-type-assertions.ts`) | the same | handlers of declarations, assignments, calls, returns, assertions | three rules that each leave cases to the others |
| Lint plugin, syntax rules | none | one pattern match each | see section 7 |
| Routing (`router/radix.zig`), middleware (`http/*.zig`), client (`client/*.zig`), QUIC (`quic/*.zig`), TLS (`crypto/tls.zig`), AF_XDP (`xdp/*.zig`), RPC (`rpc/*.zig`), observability, FFI | various | various | see section 7 |

### How the parts interact

Each worker is an `App` with its own loop, pool, scheduler and topic registry;
nothing of it is locked. Threads meet in two places only: a publisher writes
another worker's *inbox* and notifies its loop, and the *worker group* decides
when calls may touch the worker array. On the loop everything is a callback: a
completion calls the connection, which calls the parser, the application and
`send`, and `send` may tear the connection down, which calls the application's
close callback, which may call any of these again. The topic registry is the
shared state that such a nested call can damage. Timers of all connections are
nodes of one wheel, driven by one libxev timer.

The lint plugin shares nothing with the server: a host (oxlint) parses each file,
calls `createOnce` of every rule once per run, and then the handlers of all rules
on the nodes of one file after another.

### What correctness means, part by part

- *Inbox*: accepted messages are delivered once, unaltered, in claim order; a
  slot's plain arrays have one user; "full" means full; no accepted message and
  no stop request sleeps in the ring.
- *Lifecycle*: the worker array is freed once and never under a user; the first
  failure is what is reported; failure and shutdown bring `run` back.
- *Registry*: lists, rows and indexes describe the same subscriptions; no row
  outlives its socket; a fan-out serves every live subscriber once, whatever its
  callbacks do; capacity comes back.
- *Timers*: a timer fires at its deadline or as soon as the clock has been seen
  to pass it, never before and never after a cancel; the driver stays armed.
- *Connections*: a slot is not reused while the loop holds a completion of its
  old life; no completion is armed twice; an open connection always has something
  to wake it; shutdown leaves nothing behind.
- *Write path*: the peer sees the bytes the application handed over, in order; the
  slice an armed write was given is left alone until its completion; what was
  accepted is sent; a producer that was refused is told when to go on.
- *HTTP/2*: both sides count the same credit, in both directions, and neither is
  overrun; an identifier has one slot and is remembered as opened; a slot goes to the
  next stream with nothing of the last; connection and session agree on the header
  block they are in; a response that has begun can be ended.
- *Lint plugin*: a report depends on the file alone; resolving an alias answers what
  its expansion would; an unsafe dictionary is reported once, at its outermost node or
  where its alias is declared; what one rule leaves to another is reported by that one.

## 2. Modules

| Module | Models | Composition |
|---|---|---|
| `BoundedFifo` | what an inbox promises: a bounded queue with drop | abstract |
| `ClusterInbox` | one ring, its producers, its worker's drain loop, `request_shutdown` | refines `BoundedFifo` |
| `ClusterInboxProofs` | theorems about `ClusterInbox` | extends it |
| `ClusterLifecycle` | `WorkerGroup` and the `Cluster` calls around it | |
| `ClusterLifecycleProofs` | theorems about `ClusterLifecycle` | extends it |
| `PubSub` | `PubSubEngine`, and the socket calls that reach it | |
| `PubSubProofs` | theorems about `PubSub`, after lemmas on its two open-addressed indexes | extends it |
| `TimerWheel` | the wheel, as operators from one wheel to the next | used by `Scheduler` |
| `Scheduler` | `Scheduler` of `core/timer.zig` and the loop of `advance` | extends `TimerWheel` |
| `SchedulerProofs` | theorems about `TimerWheel` and `Scheduler` | extends them |
| `ConnectionLifecycle` | the pooled connections, their listener and `begin_shutdown` on one event loop | |
| `ConnectionLifecycleProofs` | theorems about `ConnectionLifecycle` | extends it |
| `WriteRing` | the write ring, direct sends, batches, file bodies and completions of one plaintext connection | |
| `WriteRingProofs` | theorems about `WriteRing` | extends it |
| `Http2Connection` | `http2/connection.zig`: one frame received, as an action that leaves an event | |
| `Http2Session` | `http2/server.zig`: what the session does with the event, and the calls of the application | extends `Http2Connection` |
| `Http2SessionProofs` | theorems about `Http2Session` | extends it |
| `TypeAliases` | scopes, the alias environment and the evaluation of a type | |
| `DictionaryTypes` | `shared/dictionary-types.ts`: which types are dictionaries, escape hatches, widening targets | extends `TypeAliases` |
| `ValueEvidence` | what is known of a value, and the three rules about it | extends `DictionaryTypes` |
| `LintRun` | one run over a batch of files, with the traversal and what the rules make of a node as parameters | |
| `LintRunProofs` | a theorem about `LintRun` | extends it |
| `Lint` | the handlers of every rule and the traversal, given to `LintRun` | extends `ValueEvidence` and `LintRun` |
| `LintProperties` | reference definitions (expansion, escape hatches, known values) and the properties | extends `Lint` |
| `MC*` | instances for TLC: symmetry sets, hash functions, level sizes, families of files | extend the above |

Definitions keep the names of the source. A definition whose name ends in
`_Something` and whose comment starts with "Mutant" is a deliberately broken
variant of the one after it; it is part of no specification and shows that the
property it is listed with can fail.

### ClusterInbox

Each atomic access is one action. A producer is `PushBegin` (load
`enqueue_pos`), `PushSlotFree`/`PushFull`/`PushStale` (load the slot's sequence
word and compare), `PushClaim`/`PushClaimFails` (weak compare-exchange, spurious
failure included), `PushCopy` (the plain byte writes), `PushStore` (release
store) and `PushNotify`. The consumer mirrors this with `Pop...`; `Wakeup` is
the async completion and `PopEmpty` its re-arm. `RequestShutdown` and
`ShutdownNotify` are the two halves of `App.request_shutdown`. Reading or
writing a slot's bytes is a step of its own, so a data race on them is visible
as two threads in that step on one slot (`SlotsHaveOneUser`).

Messages are pairs of a producer and its count, so that any loss, duplicate or
mixture is visible. Positions are naturals: the code's `usize` wraps at 2^64, a
multiple of 64, so `pos % 64` and the wrapping differences agree as long as
fewer than 2^63 positions are outstanding.

### ClusterLifecycle

`Enter`, `EnterLoad`, `CallCheck`, `CallTouch` and `CallLeave` are the counted
external calls (`publish`, `configure`, `listen`, `request_shutdown`): the
increment, the lifecycle load, the state the call requires, the visits to the workers
and the decrement. `Run...`, `Spawn...`, `JoinAll`, `ClearRunning`,
`CleanupWorker`, `RunResult` and `finish_run` are `Cluster.run`. A worker thread
is `WorkerStops` or `WorkerFails` followed by its own call of
`request_shutdown`. `Release...`, `WaitIdle`, `ReleaseFree`, `finish_release`
and `WaitReleased` are `deinit_checked`. The freed arrays are the variable
`storage`; touching them is an action of its own, so that a use after free is a
state.

### PubSub

`engine` is the record of `PubSubEngine`, and every function of the file is an
operator from one engine to the next, including the moves of
`remove_subscription`, the two index tables with tombstones, and compaction.
`stack` is the call stack. A `publish` frame keeps the row it visits and the tail
it captured; the local `next` of the code is read and used within one step, since a
send that runs a callback fails and starts the round again. A `callback` frame is an
application close callback running inside. Loops are recursive functions of the
round, with the body of a round as an operator (`place_row`, `sweep_topic`,
`scan_row`). The application (`Subscribe`, `Unsubscribe`, `Publish`, `SendClose`,
`CloseConnection`) runs when the stack is empty or a callback is on top.
`SendSucceeds`, `SendRefused` and `SendTerminates` are the three outcomes of
`WebSocket.send`: queued, error, and a tunnel that is torn down inside the call.
`link` is all that is kept of the transport: what it would answer.

### TimerWheel and Scheduler

The wheel is a record; its intrusive lists are sequences, and a node's `level`
and `index` are where it is found. The loop of `advance` is a state machine:
`TickBegins` reads the clock, `AdvanceEvent` moves to the next event,
`Refile`/`Fire` take one node off the list being dispatched, `CallbackReturns`
ends a callback in which `schedule_after` and `cancel` may have happened any
number of times. The clock may advance by any amount while the loop runs
callbacks or sleeps.

### ConnectionLifecycle

`conn[s]` is a record of the flags of the `TcpConnection` in slot `s` and, beside
them, what the loop really holds of its five completions; the code sees the
flags only, and the properties compare the two. The functions of `core/tcp.zig`
(`arm_read`, `arm_write`, `close_connection`, `close_after_flush`,
`release_closed_connection`) are operators from one record to the next, and each
completion callback is an action, or two where application code runs in the
middle: `ReadCompletes` ... `ReadReturns`, `WriteCompletes` ... `WriteReturns`.
While a callback runs (`callback`, `self`), the application may send to, close,
suspend or resume any connection and shut the server down, any number of times;
`OtherCallback` stands for timers (`on_idle_timeout`, sleep slots), signals and
the cluster wakeup, which only do the same.

The three backends differ where the code says they do (`core/xev.zig`): epoll
drops the callback of a cancelled target, kqueue holds an armed completion back
until submit and loses it if it is cancelled before, io_uring does neither.
`SubmitMayFail` makes the submit in `close_connection` and `close_server` fail on
kqueue; then a connection may keep its slot for ever, which the code accepts, and
never give it back too early, which the properties demand. That `xev.submit` also
submits the other connections' completions is left to the next `LoopSubmits`; until
then every close submits its own.

### WriteRing

Bytes are numbered in the order the application hands them over, so the stream is
intact when the wire, the cells of the ring and the rest of the file body continue
each other. `conn` is the record of the `TcpConnection` fields this path uses, and
the functions of `core/tcp_file.zig` (`append_to_ring`, `flush_batched`,
`enqueue_plain_parts`, `begin_file_response`, `pump_file_body`) and of `core/tcp.zig`
(`start_write`, `close_connection`, `close_after_flush`, `advance_write_head`) are
operators from one record to the next. A direct send takes any number of bytes,
none included, which also covers systems without it. `pc` says which callback runs:
a read, its write batch, the drain callback of a batch or of a completion, the rest
of a completion, or the dispatch of requests that waited for a file body. In each
but the rest of a completion the application may send, answer with a file or close.
`Release` reuses the slot with the cells of the old connection still in the ring.

### Http2Connection and Http2Session

A received frame is one action of `Http2Connection`, from its validation to the event
it returns: the function `receive_<type>` of the source, or `receive_invalid` for what
every check of sizes, places and flags rejects. Errors are events too, by what
`handle_frame_error` makes of them: a stream error ends in RST_STREAM, a connection
error in GOAWAY. The slab is four functions of the slot; a new stream takes any idle
one. `opened_peer_bitmap` is the set of its bits, and `discarding` holds the three
fields that say whose header block is read only to keep HPACK in step.

`Http2Session` handles the event in steps between which no frame is received: the
first or next fragment of a block (`FirstFragment`, `FirstDiscarded`,
`NextFragment`), then what its end brings (`RequestHeaders`, `RequestTrailers`,
`ConnectRefused`, `HeadersRejected`, `complete_discarded_headers`); DATA gives its
credit back before its bytes are looked at (`DataTaken`, then `BytesTaken` or
`BytesRejected`). Whether a block decodes, is a valid request or fits is a choice.
`call` is the callback a handler is inside of. While it is set, and between frames,
the application may answer, stream, end or reset any stream it has been given;
`CallReturns` and `CallFails` finish the handler, with the rest of `dispatch` and
`finish_remote`. `flush` is the list of slots that a flush has still to visit, and
each frame that it writes is a step; any of them may be refused by the transport.
The guards of `WriteData` and `FinishResponse` on a response that is open are those of
the session together with `http/response.zig`, which ends a response once. A tunnel
that does not take its bytes (`ws_data_fn` returns false) is `BytesRejected`. A
handler's error reaches `dispatch` only before its response is complete, so `CallFails`
asks for that. `TransportFails` is a control frame that cannot be written, upon which
the listener closes; of a closed connection nothing is modelled.

`allowance` and `allowances` are history: the credit the peer counts, from what was
written and from the frames it sent. `opened` is the set of all identifiers ever
recorded as opened.

### The lint plugin

A type is a record of its syntax kind and its parts, and every reference carries
its ancestors, which is all the plugin reads of a node's place; an expression
likewise, with the variable the host's scope analysis resolves it to. The two
algorithms that look through aliases are kept apart, as in the source:
`TypeAliases!evaluate` closes every argument over the substitutions it is written
under, `DictionaryTypes` keeps one flat map from names to types. That map can become
cyclic and the code then recurses until the stack overflows; `pending` recognises a
call that repeats one that is still open, and its outcome is "overflow".

`LintRun` is the machine, whatever the rules are: `EnterProgram` is what the `Program`
handlers assign (`FileEnvironment`: the declarations of types and, for
`no-widen-then-assert`, the scopes),
`VisitNode` calls every handler of the next node, and either all return
(`HandlersReturn`) or one overflows and the host gives the file up
(`HandlerOverflows`). `Lint` gives it the handlers and the traversal (`FileVisits`),
which is the host's and marked external. Handlers return "report", "none" or "overflow"; message texts are left out.

`LintProperties` states what the rules are for without their algorithms: `Expand`
replaces every alias by its body with the arguments put in, `IsUnsafeDictionary` and
`IsEscapeHatch` look at the expanded type, `AliasesBehind` are the aliases an expansion
enters, and `InformativeAbove` is the least fixpoint of what the file says of its
constants.

## 3. Runs

State counts are distinct states.

| Run | Asks | Bounds |
|---|---|---|
| `ClusterInboxRing` | full means full, refinement of `BoundedFifo`, no stranded message, no lost stop | 2 producers, 2 slots, 2 messages each: 30,990 states |
| `ClusterLifecycleRun` | use after free; failure and shutdown end `run`; a claimed release finishes, the loser returns | 2 workers, 1 caller, 2 releasers, one call: 250,938 |
| `PubSubSafety` | lists, indexes, dead subscribers, rows that stay under a frame, nested fan-out, capacity | 2 sockets (one tunnel), 2 topics, 3 rows, depth 3: 1.65 million |
| `PubSubSlowSubscriber` | *violation*: one publish does bounded work | 2 sockets, 1 topic |
| `SchedulerRun` | on time, once, on one list; a tick leaves nothing due; every timer fires, ticks that fail and zero delays included | 2 nodes, levels of 2 and 2 slots, delays 0, 2 and 4, time to 4: 34,022 |
| `SchedulerHiddenOverflow` | *violation*: a tick leaves nothing due | 2 nodes beyond the exact range |
| `ConnectionRun` | release gate, nothing stranded, closing slots return, shutdown ends and is complete | 1 slot, 3 backends, submit succeeds: 5,926 |
| `WriteRingStream` | one stream, the kernel's slice, everything is sent, a refused send is resumed | ring of 4, frames of 1 and 3, files of 1 and 5, 7 bytes: about 240,000 |
| `WriteRingRefused` | *violation*: a refused send is followed by a drain callback | ring of 4, a frame of more than half and one byte |
| `Http2SessionRun` | windows in range and agreed with the peer, no overrun, identifiers known, slots come back clean, no check of the session fails | 1 slot, identifiers 1 and 3, windows to 3, frames of 2, increments 0 and 1, initial sizes 0, 2 and 3, bodies of 0 and 3: 2,494,929 |
| `LintRules` | independence of files, transparency of aliases, dictionaries reported, once, in the use or in the declaration, unknown inputs and the aliases behind them, known subjects, the seams between the assertion rules | 8,600 batches of one or two files of one to nine statements: 103,417 |
| `LintOverflow` | *violation*: every unsafe dictionary is reported | one file: two generic aliases whose parameters share a name |

Why these bounds are enough. Four messages on two slots take the inbox through two
laps, with each producer overtaken and every case of the sequence comparison; more
producers and slots are covered by the theorems. Two releasers are the least with a
lost race; the second worker makes a partial spawn failure and a failure cascade
possible. In the registry all names and all subscriptions hash to the *last* cell,
so every probe collides and wraps, three rows make the moved row a neighbour of the
removed one and also not, and depth 3 holds publish, callback and nested publish.
Four wheel levels are modelled by two, a first and a last one, of two slots each: time
wraps both within four milliseconds, a deadline 3 ahead is filed twice and one 4 ahead waits on
the overflow list. Two nodes are the least with a sibling on the list being dispatched,
which callbacks cancel and re-arm. Later times only multiply the states, and with two
far timers they reach the second finding below; the theorems have no such bounds. The
connection run has one slot because liveness is checked without symmetry;
connections meet only through callbacks that act on another connection, and the
theorems of section 5 hold for any number of slots and a submit that fails. A ring
of four bytes wraps in the middle of a frame of three, holds one frame and refuses
the next, and is filled by a part of the longer file. One HTTP/2
slot is enough for credit, since windows of two streams meet only in the connection's,
and it makes the second stream reuse the slot of the first or be refused beside it; a
body of three in windows of two and frames of two is written in pieces, waits for credit
and is refunded, and initial sizes of 0 and 3 take an open stream's window below zero
and past the maximum. The theorems hold for any number of slots. The lint
files are built from small grammars: every combination of two generic aliases (eight
bodies each) and eleven uses, with distinct parameters and a default that refers to an
earlier one, and with one parameter name for both; aliases that pass their parameters on
under swapped names, or in part, with defaults built on them; a name declared twice in
nine ways and used from three scopes; recursive aliases; bare uses of unsafe aliases;
chains of two variables with an assertion in four arrangements of functions; a type
predicate with nine kinds of argument; and a parameter annotated through two generic
aliases in eight ways. Every pair of five files is linted as a batch: one that
overflows, three in which `A` is a different thing, and one with an assertion on a
widened constant. Of the files with one parameter name for both aliases, 37 of 584 are
left out because they overflow as in finding 4 (`LintsToTheEnd`).

Only `PubSubSafety`, which asks for no liveness, uses symmetry. `PubSub` and
`Scheduler` are checked for deadlock. The others are not, because a cluster that has
been released, an inbox whose loop has stopped, a loop that has drained, a connection
that has sent its bytes, one whose HTTP/2 session has closed and a lint run really
end.

### Fairness

- *Inbox*: threads inside a push, a drain or `request_shutdown` continue (weak
  fairness: the operating system schedules runnable threads), and a weak
  compare-exchange that can succeed does not fail spuriously for ever (strong
  fairness on the two claims). Nothing obliges a caller to publish.
- *Lifecycle*: weak fairness on every thread inside a call, a worker loop, `run`
  or `deinit_checked`. Failing, calling and releasing are choices.
- *Scheduler*: weak fairness on the steps of a running tick; strong fairness on
  the clock, since calls of the application, which are unbounded, may interrupt
  but not stop time. The application has no fairness.
- *Connections*: strong fairness on the callbacks that finish a connection or the
  listener (close, cancel and the targets of cancels), on the loop's submit and on
  the return of callbacks; weak fairness on the flush of a batch and the return of
  `run`. It is strong because other callbacks run in between; the loop dispatches
  what the kernel reports in each tick. No fairness is assumed of reads, writes and
  accepts that nobody cancelled, nor of the application.
- *Write path*: callbacks return (weak fairness), and an armed write completes with
  at least one byte or fails (strong fairness: other callbacks run in between, and
  the kernel reports a socket the peer reads from or an error). Nobody is obliged to
  send, to close or to release.
- *HTTP/2*: only safety is asked. That a pending response is ever written depends on
  the peer's credit, which nobody owes.
- *Lint plugin*: only safety is asked; every file of a run ends, because each step
  visits another node.

## 4. Findings

1. `ws/pubsub.zig:209`: `send(...) catch continue` leaves the loop body before
   `row = next`, so a refused send visits the same row again, with nothing
   changed, for ever. The comment above it promises that a slow subscriber does
   not block delivery. (`PubSubSlowSubscriber`, `PublishWorkIsBounded`.)
   In `PubSub`, `SendRefused` leaves the frame where it is, as the code does, and
   the other properties are checked over exactly those frames.
2. `core/timer_wheel.zig:254`: `next_event` looks at the head of the unsorted
   overflow list only, so a tick can pass the deadline of a far timer behind a
   farther one and not fire it, contrary to the comment on `advance`. It needs
   two timers beyond the exact range, about 18.6 hours. (`SchedulerHiddenOverflow`,
   `NothingDueIsLeft`.)
3. `core/tcp_file.zig:29`: a frame that does not fit is refused with `WouldBlock`
   without setting `was_backpressured`, which is set only where bytes are queued. When
   the queue is less than half full at that moment, no drain callback ever follows,
   although `docs/getting_started.md:103` tells producers to wait for it. Frames of at
   most half of the queue and one byte are safe. (`WriteRingRefused`,
   `RefusedSendIsResumed`.)
4. `shared/dictionary-types.ts:171`: the flat substitution map binds `T` to a type
   that contains `T` for `type B<T> = A<T | null>` when `A`'s parameter is called `T`
   too, and the classification recurses until the stack overflows: the file is not
   linted. (`LintOverflow`, `UnsafeDictionariesAreReported`.)

Five observations on HTTP/2 are not runs of their own.
- `http2/connection.zig:554`: `reset_local` releases a stream and leaves
  `continuation_stream_id` alone. When the application resets a stream in the middle of
  its trailers, the next CONTINUATION finds no stream and no discarded block; it is
  answered with RST_STREAM, the block never ends, and no other frame is accepted on the
  connection. The field for a "locally reset stream whose block still needs
  CONTINUATION" (line 383) is set only for blocks that begin after the reset. In the
  model this is `ResetStream` between `BlockGoesOn` and `receive_continuation`.
- `http2/connection.zig:583`: a late HEADERS frame for a closed stream that is older than
  the bitmap of opened identifiers ends the connection, although the comment at lines
  375-377 says that such a stream "degrades to the closed-stream treatment instead of
  rejecting the connection". `OpenedIsExact` is what does hold.
- The tombstone of a stream that was refused after GOAWAY is not honoured, because its
  identifier is above `highest_peer_stream_id`, which `classify_missing_stream` looks at
  first (line 902).
- The connection's credit of DATA on a stream that is closed (`consume_closed_data`) or
  not ready (`server.zig:1246`) is never given back; only that of reset streams is.
- The error path of `dispatch` (`server.zig:1314`) does not clear a slot whose stream is
  gone; it can only find one that its own reset has cleared.

Seven observations on the plugin are not runs of their own.
- An alias that is applied inside its own argument, `A<A<X>>`, is entered once only,
  since the resolving set of `dictionary-types.ts` holds names (line 224). The files of
  `LintRules` keep arguments apart (`ArgumentsApart`).
- Explicit arguments are resolved in the map that already holds the parameters before
  them (line 171), so `type B<T, S> = A<S, T>` with `A<S, T>` gives both of `A`'s
  parameters one argument. The evaluator of `type-alias-resolution.ts` does not, which
  `AliasesAreTransparent` checks on such files; they contain no dictionaries.
- A substitution is consulted by name before scopes are, so a parameter in effect can
  stand for a name declared elsewhere (`type-alias-resolution.ts:197`).
- The resolving set does not tell two aliases of one name in different scopes apart.
- A bare use of an alias is left to its declaration (`no-unsafe-dictionary-type.ts:61`),
  and a declaration is judged with its parameters open. For
  `type A<T = unknown> = Record<string, T>` a field of type `A` is reported at neither.
  `UnsafeDictionariesAreReported` asks for a report in the declaration where the body is
  unsafe by itself.
- Parentheses are looked through when a type is classified, but they have no handler and
  count as a type around the one inside (line 97): `(Record<string, unknown>)` is taken
  for reported at the parentheses, and is not. No file has them around a dictionary.
- An unknown that is handed over as a type argument is seen by nobody. For
  `type Maybe<T> = T | null` the parameter `x: Maybe<unknown>` passes
  `no-unknown-parameters`, which does not look into references
  (`function-parameters.ts:6`), and the body of `Maybe` passes
  `no-unknown-type-aliases`; so does a default `T = unknown`.
  `UnknownInputsAreReported` names this case (`UnknownIsPassedIn`) and the files contain
  it; what it asks everywhere is that each alias behind a parameter whose own body comes
  to unknown is reported at its declaration.

## 5. Proofs

The proof modules are checked by TLAPS to the last leaf.

**The ring** (`ClusterInboxProofs`), for every `Capacity >= 2`, every set of
producers and every bound on messages. `DeliveredInOrder` is not inductive: it
says nothing about what waits in the ring. `RingInv` adds, per slot, who owns
it: positions from `Len(delivered)` to `enqueue_pos - 1` are claimed and their
word is `q` (with its one producer) or `q + 1` (holding `accepted[q + 1]`), and
the positions from there up to one lap ahead are free, with word `q`. `Counters`
bounds the two positions by each other, `Pushers` and `Popper` say what a thread
may assume at each place. The step that needs arithmetic is that positions less
than one lap apart have different slots (a lemma about `%`), which is why a
claimed and a free position never share a word. From `TypeOK /\ RingInv` follow
`FifoDelivery`, `SlotExclusion`, `FullIsFull` and the refinement
`RingImplementsFifo`, in which a claim is the abstract send and the final
sequence store the abstract receive.
`Capacity = 1` is excluded because the algorithm is wrong there: `pos + 1`, the
published mark, is also the free mark of the next position. The code has 64.

**The group** (`ClusterLifecycleProofs`), for every number of workers >= 1 and
any finite sets of callers and releasers, all threads distinct. The heart is the
store-then-load pattern between `enter` (increment, then load lifecycle) and
`begin_release`/`wait_idle` (claim, then load the counter). `GroupInv` turns it
into state: `calls` is the number of threads in flight, nobody in flight is past
its check once the owner has seen zero, lifecycle `running` holds exactly while
`run` is inside, `started` covers every live worker except the one being
counted, and owners are unique. Proved from it: `SafeRelease`, `SingleRelease`,
`NoAssertionFails`, `HonestResult`, `FirstFailureWins`.

**The connections** (`ConnectionLifecycleProofs`), for every set of slots, each
backend, and a submit that may fail. `NoStaleCompletion` alone is not inductive:
the gate reads flags, and the flags must be known to say what the loop holds.
`FlagsMatch` states that for a target and its cancel: a target in the loop has its
flag up, except on epoll between the close callback and the cancel, when the
cancel's own flag is up; an open connection has no cancel, and its flags are exact.
`ConnOK` adds the close completion, `Awake` what keeps an open connection going at
each point of its callbacks, `ServerOK` the same for the listener, `ShutdownOK` that
nothing opens after `begin_shutdown`, and `~MayRelease` that no slot waits which the
gate would let through. The lemmas go function by function (`ArmRead`, `ArmWrite`,
`CloseConnection`, `CloseAfterFlush1`, `Release`: a good connection stays good), one
lemma lifts a step of one connection to the whole state (`StepKeepsInv`), and each
action is then a few lines. From `TypeOK /\ ConnInv` (`Invariance`) follow
`ReleaseGate`, `ArmedOnce`, `AlwaysAwake` and `QuietAndListening`; with `~SubmitMayFail`
also `Drained`: when the loop returns, every slot still held would be closing, with
all its completions reported, and the gate would have released it.

**The write ring** (`WriteRingProofs`), for every capacity of at least two, every
set of frame sizes and file lengths and any number of bytes. `StreamIntact` alone is
not inductive: a completion takes bytes from the front of the queue, so the slice it
was given must be known to lie there in one piece (`FlightOK`); bytes queued while a
file body is under way would land before its rest, so a file body must hold back
every later response (`FileHolds`); and a completion must not meet an open batch
(`BatchOK`). `RingInv` is `StreamIntact` with these. The lemmas follow one connection
through the functions of the code: `Good(c, w)` says that `c` is in order behind `w`
bytes on the wire, `TakenGood`, `AppendGood`, `FlushGood`, `EnqueueGood` and
`PumpGood` that each function leaves it in order behind as many bytes as it sent. The
step that needs arithmetic is that a cell and its distance from the tail determine
each other (`Wrap`, `Distance`). One lemma (`Kept`) lifts this to the specification.
Proved: `RingKept`, `OneStream` and `SliceIsStable`.

**The timers** (`SchedulerProofs`), for every finite set of nodes, any number and
sizes of levels, any delays and any time. Two inductive invariants. `ListInv` is about
the lists: a node's state names the list that holds it, lists hold a node once, `count`
is the number of owned nodes, those are the armed ones, and nothing is dispatched
outside `expire_slot`. Each operation of the wheel has a lemma that says which node it
moves and that it touches no other (`RemoveOK`, `InsertOK`, `DetachOK`, `TakeHeadOK`);
`migrate_overflow` is a loop, so `MigrationRounds` is an induction over its rounds.
`NodesOnOneList` follows. `TimeInv` is about time: the wheel's time is behind the clock
and the target, a queued node is filed in a slot whose window starts between now and one
span later and not after the node is to fire (`FiledAt`), a node being dispatched is not
late, and a far one is in the future. The arithmetic is in three lemmas: the level that
`insert` chooses (`LevelForDelta`), that filing there satisfies `FiledAt` (`SlotForOK`),
and that `slot_due` is then exactly the start of the window (`SlotDueIsStart`), although
it knows only the slot and the present time.
`TimeInv` is not an invariant of the code as it is: finding 2 breaks it. The theorems
say how far the finding reaches. Under `NoHiddenOverflow` (the head of the overflow list
is due at most one exact range after any other node of it) the invariant holds
(`NodesAreTimely`), timers fire exactly on time (`TimersFireOnTime`) and a tick leaves
nothing due (`TicksLeaveNothingDue`). And `NoHiddenOverflow` holds by itself as long as
no request asks for a deadline more than two exact ranges past the wheel's time
(`NearRequestsHideNone`: what is appended is past one range, what is on the list is not
past two); in the code two ranges are 37 hours, and the wheel's time stands still while
no timer is scheduled. `NearRequestsAreExact` and, with a bound on the clock instead,
`ExactFromTheStart` combine the two; the bounds of `SchedulerRun` satisfy the latter.

**The registry** (`PubSubProofs`), for any sockets and names, any
hash functions into the naturals, any table sizes and any depth of nested calls. None
of the seven invariants of `PubSubSafety` is inductive by itself; `Inv` is, and
implies them all. It has three layers.
`Sound` relates the fields of the engine: an id is active, free or past the high-water
mark, and the free list repeats none; a subscription has one live row; counts are
cardinalities; and each index is `Indexed`: every used cell holds an entry of the
tables, no two the same, and every entry is on its probe path before the first unused
cell. The lemmas on probing show that inserting into the first
tombstone or the unused cell that ends the path, replacing an entry by a tombstone,
updating its row and rebuilding keep this for arbitrary collisions; a table of twice the
capacity always has a cell left.
`Ordered` describes the lists without walking them: the rows are numbered, and the
next row of a row is the one of its topic with the next greater number. A swap removal
gives the moved row's number to its new place, a compaction numbers rows by their place.
That such a numbering makes a list from head to tail (`ListsMatchRows`) is an
induction over the number of rows.
`FrameOK` says what a publish frame may count on: its topic keeps its name; the rows it
owes are used rows of the topic not after the tail it captured, every other such row is
a tombstone; the owed rows before the one it visits are served or tombstones; and no
row it owes belongs to a socket it has served through another.
The argument is that of the code's own comments. Inside a publish frame each call is
`Shrunk` (rows keep place, topic and number and may only become tombstones) or `Grown`
(one row is added, with a greater number), and a frame notices neither
(`FrameTolerates`). Outside, each call is `Settled`: it may move rows, and it leaves no
tombstone and no empty topic (`Clean`). `Remembered` links the two: a topic emptied
inside is pending for the sweep. Each function of the engine has one lemma of this
form (`SubscribeSound`, `RetireSound`, `RemoveSound`, `RemoveTopicSound`, `SweepSound`,
`CompactSound`, `EndPublishSound`, `UnsubscribeAllOutside`), each action one that lifts
it. Proved: `RegistryInvariant`, `ListsFollowRows`, `LookupsAreExact`,
`GoneSocketsHaveNoRows`, `FramesAreStable`, `SentAtMostOnce`, `ReturnsWhenServed`,
`CapacityComesBack`. `ReturnsWhenServed` says nothing of whether a publish returns:
finding 1 is that it may not.

**HTTP/2** (`Http2SessionProofs`), for any number of slots, any set of odd
identifiers, any window sizes with the default not above the maximum, any bitmap width
and any bodies. The parts of the four invariants of `Http2SessionRun` are conjuncts or
consequences of one inductive invariant, `Inv`, which needs in addition:
- *Identifiers.* `OpenedIsExact` is about `was_opened`, which divides; what a shift
  preserves is the equation `BitmapExact` (bit `b` is set exactly when `highest - 2b`
  was opened), and it needs that nothing above the highest was.
- *Credit.* `PeerAgrees` is inductive with the ranges: a refused write refunds both
  windows within one step, and SETTINGS moves window and account together. `ReceiveOK`
  says how much a DATA frame that is not handled yet holds of its stream's window
  (`Held`) and that giving it back stays in range, so that neither the credit leaks nor
  `add_window` fails.
- *Slots.* `SlotOK` says that a local side that is closed has a response that ended,
  which is what `ResponsesCanEnd` rests on, and `CallOK` what a running callback may
  count on: its stream is in its slot, or the slot is free and no frame can fill it
  before the callback returns, and what is left there is what `CallReturns` clears.
- *Header blocks.* Five variables of the connection and four of the session describe
  one block. `DiscardOK`, `FragmentOK` and `HeaderOK` say that at most one discarded
  block is open, that it is the one `continuation_stream_id` waits for, and how the
  event being handled, the session's fields and the connection's relate at each point
  of a handler. `ContinuationsMatch` follows. `HeaderOK` speaks of streams that `find`
  knows; the first HTTP/2 observation above is the block it does not cover.
- *Release.* `ClosedOK` names, for each stream closed on both sides, who will release
  it: the event being handled, the callback that runs, or the block that is not
  complete. `ClosedIsReleased` is what is left of it between frames.

The four last groups hold until the connection is closed, the others always. The
proof has one lemma per action or function; three of them carry the shared work:
`FreedInv` (a step that only frees slots), `RespondInv` (a step that only moves one
response) and `QuietFrameInv` (a frame that only moves windows). Proved: `Invariance`,
`TypeSafety`; a theorem for each part (`PeerAlwaysAgrees`, `CreditAlwaysReturned`,
`StreamsAlwaysDistinct`, `OpenedAlwaysExact`, `SlotsAlwaysClean`, `ClosedAlwaysReleased`,
`ContinuationsAlwaysMatch`, `ResponsesCanAlwaysEnd`) and, put together as the run checks
them, `CreditAlwaysAgrees`, `IdentifiersAlwaysKnown`, `SlotsAlwaysComeBack` and
`ChecksNeverFailAlways`; and the action property
`NeverOverruns`, which follows from the invariant and the reservation in each of the
two steps that write DATA.

**The lint run** (`LintRunProofs`), for any batches of files, any traversal, any
environments and any rules: `FilesAreIndependentAlways`. What a run reports of a file,
and whether it gives the file up, is what linting it alone does. The property speaks of
files that are done with; `IInv` adds that within a file the closures hold its own
environment, that its reports are those of the nodes before the next one, and that no
node before it overflowed. It is the reset in the `Program` handlers that makes this
true after a file that crashed half way.

**Induction.** The library's induction theorems take a predicate as a parameter, which
the provers cannot instantiate. `SchedulerProofs` and `PubSubProofs` derive what they
need from
`WFMin` with sets in the place of predicates: a set of naturals has a least element,
hence a set that contains 0 and the successor of each of its members contains every
number up to a bound, and a loop given by a function per round has a trace.

**Theorems without a run.** The type invariants (`TypeCorrect`, `GroupTypes`,
`ConnTypes`, `TypeSafety`) and the inductive ones (`RingCorrect`, `GroupCorrect`,
`Invariance` of `ConnectionLifecycleProofs` and of `Http2SessionProofs`, `RingKept`,
`ListsInOrder`, `NodesAreTimely`, `RegistryInvariant`), and `FifoDelivery`,
`SlotExclusion`, `SingleRelease`, `NoAssertionFails`, `HonestResult`, `ArmedOnce`,
`QuietAndListening` and `NearRequestsHideNone` hold for every instance;
the runs check what is built on them.

**Only model-checked.** Every liveness property (fairness and ENABLED are outside
the prover), `TimersFire` among them; and the six properties of the lint rules
themselves: resolution and expansion recurse over syntax and are declared RECURSIVE,
which this prover cannot reason about.

## 6. Left out of the modelled parts

- Inbox: a `notify` that fails, wrap-around of the counters at 2^64, and payload
  lengths (both buffers have the maximum size).
- Lifecycle: CPU pinning, the signal watcher, TLS installation and the borrowed
  pointer that `Cluster.worker()` returns, whose lifetime is the caller's duty.
- Registry: name bytes and the hash functions, which are parameters; the
  message, which is opaque.
- Timers: the saturating addition of `schedule_after`, unreachable in the bounds;
  the older `TimerContext` of `core/timer.zig`, which the application does not use.
- Connections: Windows, where sockets close synchronously; protocol bytes and the
  contents of the write ring (only "not empty" is kept); the order in which the pool
  hands out slots (any free one); a second listener; a retry timer that fails with an
  error other than Canceled, after which the listener would stay unarmed
  (`core/tcp.zig:2586`); timers of a connection, which only reach it through `Close`
  and `Resume`.
- Write path: TLS, whose records are queued by the library; HTTP/2's pending
  responses and stream producers, which use the same ring through their own buffers;
  the policy functions of `ws/backpressure.zig` that the application may install.
- HTTP/2: the client preface and the cutting of the input into frames; HPACK, whose
  verdict on a block is a choice; PING and the acknowledgements; settings other than the
  initial window size; the slab's freelist and count; the listener's stream producers,
  which only call `write_response_data` and `finish_response`; and what the application
  does inside the notification that a stream closed.
- Lint plugin: imported and qualified names, tuple, conditional and function types,
  class members other than annotated properties, suggestions and message texts.

## 7. Not modelled, and the plan

In this order, most important first:

1. `AppShutdown`: the rest of `begin_shutdown` and `verify_shutdown` (scheduler,
   watchers, QUIC) composed with the connections and with the cluster.
2. `WebSocketSession`: fragmentation, crossing close frames, heartbeat.
3. Response state (`http/response.zig`): one response per request, however late.
4. Pure algorithms: HPACK's dynamic table, the backpressure transition function,
   radix matching against its definition by segments, the rate limiter.
5. `quic/datagram_ring.zig`, `observability/file_watch.zig`, `client/connection.zig`.

Not planned: TLS, zlib, QUIC's engine and AF_XDP are other people's code or kernel
rings; middleware, cookies, queries, negotiation, JSON-RPC and configuration
are stateless string processing; the C API and FFI are wrappers. The lint plugin's
other rules are one pattern match on a node and its parents each, with no state and
no resolution: a model would repeat the pattern and a property would repeat the
model. The agent tooling is a file copy and a prompt hook.
