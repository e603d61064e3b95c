# TLA+ models of wschat

This directory holds TLA+ specifications of the Go programs under `src/`. It also holds the TLC configurations that check them. Every definition is translated from the source. `PROJECT.json` maps each definition to the source lines it models. It also lists the runs, the mutants that show each property can fail, the findings, and the hazards of the code.

## The system

- **Hub** (`src/wschat-go/main.go`). It runs one `handler` goroutine per websocket connection.
  - **Accept.** The handler names the connection with a uuid. It broadcasts a `connect` message to the registered connections, then writes the same message to the new client.
  - **Register.** Only then does it create a `Channel` (capacity 50), store it in the `clients` `sync.Map`, and start a writer goroutine. The writer ranges over the channel and writes to the socket.
  - **Read loop.** Every decoded frame is re-broadcast as a chat by a new `go broadcastMsg` goroutine.
  - **Teardown.** On a read error the deferred teardown spawns the disconnect broadcast, closes the Channel, deletes the uuid and closes the socket.
  - **Broadcast.** `broadcastMsgBytes` calls `Channel.Send` for each entry of `clients.Range`.
- **Channel[T]** (same file, lines 21-45). A buffered Go channel guarded by an `atomic.Bool` and a `sync.RWMutex`. `Send` holds the read lock across a possibly blocking channel send. `Close` swaps the flag and closes the Go channel under the write lock.
- **Message codec** (`src/wschat-go/common/message.go`). The message struct, its constructors, and the `Action` enumeration with its JSON (un)marshalling.
- **Load-test client** (`src/client/main.go`).
  - `main` spawns `numConns` workers: `runClient`, or `runClientTest` with `-test`.
  - With `-same-start`, `main` waits for one `startedChan` signal per worker, then closes `startChan`.
  - A test worker dials and reads its own connect (the uuid). It then sends `msgsPerConn` chats, while `runRecvTest` counts the echoes of its own chats.
  - The worker publishes its `TestResults` on `testChan`.
  - `runTest` folds the results into statistics, prints a report, and offers an interactive error menu.
- **Directory server** (`src/server/main.go`). A separate program serving a name → URL map.
  - `GET /servers` encodes the map under a read lock.
  - `/admin/servers` opens and stats the servers file, then takes the write lock. It compares the file's whole-second modification time with `serversLastUpdate` and records the new time. Then it decodes and validates the file and replaces the map.
- **Script runner** (`src/runner/main.go`). A separate program, not modelled (see below).

## Modules

| Module | Models | State ↔ code |
|---|---|---|
| `Message` | message.go | `Actions`, the constructors as records `[kind, from, n]`, and `Decode(f)`: what `webs.JSON.Receive` into `Message` returns for a frame. A frame is abstracted to JSON well-formedness, the kind of its `action` and the type of its `contents`. The result is ok, an `UnmarshalTypeError`, a plain "invalid action" error, or a syntax error. |
| `Channel` | `Channel[T]` | `buf` (the Go channel), `chClosed` (`close` ran), `closed` (the atomic flag), `readers` and `wlock` (the RWMutex, with Go's writer preference), and per-caller program counters. `SendLoad`/`SendPush` are the two halves of `Send`; `CallClose`/`CloseChan` are the two halves of `Close`. A send or close on a closed Go channel moves the caller to `"panic"`. |
| `SafeQueue` | spec §4.2 | The atomic promise of a Channel: a bounded FIFO that accepts values only while open and delivers every accepted value in order. |
| `ChannelClients` | Channel used alone | Senders and closers each make one call; one consumer ranges per channel, as the writer goroutine does. Defines `SQ == INSTANCE SafeQueue WITH queue <- buf, isClosed <- chClosed, delivered <- out`. |
| `Hub` | `handler`, `broadcastMsg(Bytes)` | Instantiates `Channel` with one channel per connection and one sender per broadcast message. `registry` is the key set of `clients`. `hpc`, `wpc` and `bpc` are the handler, writer and broadcast goroutines. `bsnap`/`visited` model `sync.Map.Range` as no snapshot: it visits every key present throughout, and perhaps others. `inbox[c][a]` is what client `c` received about connection `a`. `ClientClose` is the client hanging up. |
| `Aggregator` | `runTest`, `TestResults` | The loop of lines 279-365 as `Consume(r)`, including line 342 as written. `Report` covers lines 367-373 with the override of line 372, the `goto ErrorsMenu` and the early return. `Prompt`, `MenuShow(k)` and `MenuLeave` are the error menu. Printed text, averages and float duration sums are left out. |
| `Directory` | `serversHandler`, `adminServersHandler` | `file`/`mtime` are the servers file and its modification second, and `clock` is the current second, up to `MaxTime`. `servers` and `lastUpdate` are the package variables. `Open(r)` is everything before `serversMtx.Lock()`: the file may not exist (404) or the stat may fail (500). `Reload(r)` is the whole locked section as one step, since readers and other reloads wait on the mutex. `Verdict(d)` is what decoding and validation make of a document. `loadedAt` is a history variable: the mtime of the document `servers` came from. The operator's `WriteFile`/`RemoveFile`/`Tick` are not fair. Writes replace the file atomically, so an opened file keeps its document. |
| `Harness` | `main`, `runClient`, `runClientTest`, `runRecvTest` | Extends `Aggregator`. `started`/`collected`/`gateOpen` are the barrier. `testChan` is a sequence of worker ids. `pc` and `rpc` are each worker's program counter and its receiver goroutine's. `tres` is each worker's `TestResults`. The hub is abstracted to what a worker sees: its own connect first, echoes of chats it sent, read/write failures and deadlines, and its own disconnect. The flags `-test` and `-same-start`, and whether `webs.NewConfig` accepts `-addr`, are chosen in `Init`. |
| `WorkerProtocol` | spec §4.4-4.6 | The abstract per-worker state machine: Connecting → [Ready] → AwaitingHandshake → Active → Draining → Closed → Finished. Connect and handshake failures go straight to Closed. A load worker goes from Active to Finished and publishes nothing. `Go` leaves Ready only once no worker is still Connecting. `receiving` is the receiving activity, and `Close` requires it to have stopped: this is the ownership hand-off. `Publish` appends to `results`, `Take` removes the head, and `Report` happens after the N-th take. `Harness` defines the mapping `WP == INSTANCE WorkerProtocol WITH ...`: `AbsState(w)` maps `pc[w]`, `receiving` maps `rpc[w] = "recv"`, `results` maps `testChan`, and `taken` maps `nres`. |

Each `MC*.tla` fixes the constants for TLC. `Symmetry` over the two connections is used in the hub's safety runs only; it is never used with liveness.

## Runs

| Run | Cfg | Checks | Result |
|---|---|---|---|
| channel_clients | MCChannelClients.cfg | `TypeOK`, `NoPanic`, `AllCallsReturn`, `ImplementsSafeQueue` | pass |
| hub_safety | MCHub.cfg | `TypeOK`, `NoPanic`, `OwnConnectOnce`, `IntroducedBeforeTraffic`, `OwnDisconnectOnlyAfterRejection` | pass (≈1.2M states) |
| hub_chat | MCHubChat.cfg | `NoPanic`, `IntroducedBeforeTraffic` with one chat in flight | pass (≈2.4M states) |
| hub_live | MCHubLive.cfg | `TeardownCompletes`, `DisconnectReachesPeers` | pass |
| harness | MCHarness.cfg | `TypeOK`, `StartTogether`, `StatsMatchResults`, `NilSendErrsAreHandshakeFailures`, `RunReports`, `ImplementsWorkerProtocol` | pass |
| directory | MCDirectory.cfg | `TypeOK`, `NeverOlder` | pass (≈700K states) |
| hub_peers_introduced | MCHubPeersIntroduced.cfg | `PeersIntroduced` | violation |
| hub_chat_after_disconnect | MCHubNoChatAfterDisconnect.cfg | `NoChatAfterDisconnect` | violation |
| hub_malformed_answered | MCHubMalformedAnswered.cfg | `MalformedAnswered` | violation |
| harness_started_full | MCHarnessStartedFull.cfg | `RunReports` with 6 workers | violation |
| harness_reported_phase_stats | MCHarnessReportedPhaseStats.cfg | `ReportedPhaseStats` | violation |
| directory_ok_means_current | MCDirectoryOkMeansCurrent.cfg | `OkMeansCurrent` | violation |

What the passing runs show:

- **Channel.** The RWMutex discipline keeps every in-flight `Send` ahead of `close(c.c)`, so no interleaving of senders and closers panics. A `Close` waiting behind a sender blocked on a full buffer gets the lock once the consumer drains. The step-by-step Channel refines `SafeQueue`.
- **Hub.** Across any interleaving of two connections, these hold:
  - no `Send`/`Close` race panics;
  - a client's first message is its own connect, and it gets that connect exactly once;
  - a client never receives a peer's chat or disconnect before that peer's connect;
  - a client can receive its own disconnect. The deferred `go broadcastMsg(disconnect)` starts before `channel.Close()` and `clients.Delete`, so the Range may still find the client's own Channel. But this happens only after the hub has rejected one of the client's frames (`OwnDisconnectOnlyAfterRejection`). When the read loop ends on `io.EOF`, the client is already gone. So the load-test client, which sends only well-formed frames, never takes `runRecvTest`'s own-disconnect branch. `Harness` still lets its hub report the worker's own disconnect, and that over-approximation only adds behaviours;
  - every teardown finishes: the writer drains and the disconnect broadcast ends;
  - a disconnect reaches every peer that is still connected when the teardown starts and that stays connected.
- **Client.**
  - With `-same-start`, no worker starts before every worker has signalled.
  - `runTest`'s running pass count, error-list lengths, and the sums, minima and maxima of the messages the failed phases transferred equal those of the results consumed so far, whatever their arrival order. The duration maxima are not among them: line 342 makes `maxFailedSendDur` depend on which failed receive arrives last, and the violation run `harness_reported_phase_stats` checks them.
  - Under two workers in every flag combination, the run reaches its report, or `wg.Wait` returns.
  - The client implements the abstract worker protocol of §4.5 (`ImplementsWorkerProtocol`):
    - every step of `main`, of the workers and of their receivers is a step of `WorkerProtocol` or leaves its state unchanged;
    - in particular, a worker stores its send results into `tres` and publishes only after `runRecvTest` has closed `doneChan`;
    - each worker publishes exactly once, and `runTest` reports only after the N-th result.
    - A send loop that does not wait on `doneChan` breaks it.
  - The send-error list holds a nil entry exactly for each worker that failed its UUID handshake and so never ran its send loop (line 318 appends `tres.sendErr` whatever the cause). The menu shows these entries as `<nil>`.
- **Directory.** Two reloads overlap with rewrites, removals and the clock.
  - The served map never goes back to an older document (`NeverOlder`, an action property). A reload holding an older file finds `serversLastUpdate` ahead of it.

What the violation runs show (the findings in `PROJECT.json`):

1. The hub broadcasts a connect before registering the new client (line 86 before line 90). Two concurrent joiners never learn of each other.
2. Chats are re-broadcast by independent goroutines. A peer may see a client's chat after its disconnect.
3. Only an `UnmarshalTypeError` is answered with "bad message". An unknown action or bad JSON closes the socket silently, against spec §4.1/§7.
4. `runClientTest` sends on `startedChan` after a `NewConfig` failure even without `-same-start` (line 136). With more than 5 workers the sixth blocks and `runTest` never reports. The model shows this as a hang. The real program has no other goroutine left to run, so the Go runtime aborts it with its "all goroutines are asleep - deadlock!" error. Either way there is no report. This happens, for example, with a relative `-addr`, which `url.Parse` accepts in `main` and `url.ParseRequestURI` rejects in `NewConfig`.
5. The report's send and receive figures disagree with the results. One property, `ReportedPhaseStats`, covers three bugs:
   - line 342 stores the maximum failed receive duration into `maxFailedSendDur`;
   - line 372 overwrites the failed maxima with `msgsPerConn` once any worker passed;
   - lines 410 and 439 compute the passed counts as `numConns` minus the failures, which counts unconnected workers as passed.
6. The directory compares whole-second mtimes and records the time before validating (server lines 84-88). A valid file written in the same second as the last reload attempt is answered 200 and never loaded. The attempt may have been a load or a rejection. A file not newer than a rejected one is ignored the same way.

Each property of a passing run has a mutant in `PROJECT.json`: a variant of the mapped action, defined beside it, that TLC shows violates the property. Examples are a close that does not wait for readers, a range loop that stops at close, registering before broadcasting, a writer that quits on a failed write, a Range that stops after one key, a barrier that opens one signal early, and a receiver without a read deadline.

## Bounds

- **Channel runs.** Three senders, two closers, `Cap = 1`. Capacity 1 makes the full-buffer block reachable with a single value.
- **Hub runs.**
  - Two connections and `Cap = 1`. Two is the least number where a broadcast visits a peer that is joining or leaving. With `Cap = 1`, a second message in flight blocks a `Send` under the read lock.
  - `MaxChats` bounds the chats of all clients together: 0 in the safety and liveness runs, 1 in `hub_chat`.
  - `Inbound` is the set of frames a client may send: all four kinds in `hub_safety`, a valid chat in `hub_chat`, none in `hub_live`.
  - The liveness run uses no inbound frames, because a client's frames only end its own loop earlier, as `ReadEOF` does.
- **Directory runs.** Two requests, so that one can hold an older file while the other loads a newer one. Three seconds: a rewrite within a second, and a later one. Two valid documents, and one of each rejected kind.
- **Client runs.** Two workers and two messages per connection (one short send and one full send), and two duration values (a maximum and a smaller one). `StartedCap = 5` and `TestCap = 100` as in the code. The hang needs six workers, and its run uses six with only the failing configuration. Three workers over every flag combination does not finish within five minutes.

## Fairness

- **Hub and Channel.** Every goroutine that can take a step eventually does (weak fairness). This covers the handler, writer and broadcast goroutines in the hub, and the senders, closers and consumer in `ChannelClients`. Go's scheduler is preemptive, which justifies it. The client's own actions are not fair: a client may stay connected and silent for ever.
- **Directory.** No fairness. Every request and every file change is the operator's choice, and the properties checked are safety properties.
- **Harness.** Workers, receivers and `main` up to the report are weakly fair. Blocking reads and writes end by their deadlines (`testTimeout`), so every worker step is eventually enabled or taken. The prompt and the menu wait for the operator and are not fair.

## Not modelled

- **Directory server**: `homeHandler` and the `/static/` file server only serve files from disk. `main` parses flags and starts HTTP.
- **Script runner.** Process I/O only: one sequential `cmd.Run()` with nothing concurrent to check. By reading the code: a failure to start `bash` (not an `*exec.ExitError`) is only logged (line 31), so the runner exits 0.
- **Left out of the models.** JSON bytes, uuids, timestamps, log output and the printed report text. They are abstracted to what the properties tell apart.
- **Contents reuse.** The hub decodes every frame into the same `msg`. That variable starts as the connection's own connect message. Because of `omitempty`, a frame without `contents` re-broadcasts the previous frame's text, or, for the first frame, the sender's uuid. Spec §4.1 says a chat carries its original text. The hub model abstracts contents away, so no property checks this hazard. Chats are the most expensive part of the hub model: one chat already makes `hub_chat` the largest hub run. Frames with and without contents would double it, and with a malformed frame added it no longer finishes in minutes. The load-test client always sets `Contents`, so it does not meet this hazard.

## Possible extensions

- Composing the Harness worker with the Hub, replacing the abstract hub answers with the real handler.
- Message contents in the Hub, for the hazard of a frame without `contents` re-broadcasting the previous frame's text.
