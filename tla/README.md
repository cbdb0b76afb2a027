# A TLA+ model of cpa-plugin-oai-basispoints

The plugin lives inside the CLIProxyAPI host (CPA) as a C shared library. It answers executor
calls by one round trip to the Basis Points upstream and delivers the result to the client through
the host. All network and stream operations are *host calls*, which may block for as long as the
client or the upstream likes. What is hard about this code is therefore not a computation but who
waits for whom, who may interrupt whom, and which of several racing reasons a round trip ends with:
CPA cools a credential down when a stream is closed with an error.

These modules model that part of the code, TLC checks them on small instances, and TLAPS proves the
most important safety properties for every instance. All paths below are relative to `src/`, and `.go` files without a
directory are in `internal/basispoints/`.

## 1. Inventory

| component | code | state | operations | hard about it |
|---|---|---|---|---|
| stream session | `stream_session.go` | `ss.mu` and the fields under it, `closeOnce`, `forced`, `forceReason`, heartbeat channels | `start`, `startIdle`, `open`, `deliver`, `finish*`, `fail`, `forceClose`, two watchdogs | an emit blocks with `ss.mu` held; three goroutines race for the close |
| stream delivery | `stream_events.go` | pending batch, announced items and parts, what was sent of each part | `consume`, `replayPending`, `validateFinal`, `keepFinal` | text goes out before the response is known; the replay must add exactly the rest |
| upstream guard | `upstream_guard.go` | operation id, stream id, sticky reason, `closeOnce`, `done`/`exited` | watcher, `attach`, `aborted`, `release`, `guardedDo` | stop, disconnect, deadline, answer and release in any order |
| upstream round trip | `upstream.go` | buffer of one response | `upstreamStream`, `readErrorBody`, `readGuardedInto` | a read cut by a close looks like an end of stream |
| stream execution | `service.go` (`execute`, `executeOnce`, `executeStream`, `awaitConnect`) | the attempt, the deadline shared by attempts | connect within the heartbeat grace, loop over at most two attempts | answering synchronously or not; regenerating once and never after a delivery |
| service lifecycle | `service.go` | `stopped`, current generation with its context and `WaitGroup`, `lifeMu` | `beginStream`, `shutdown`, `configure` | requests, shutdowns and reconfigures interleave |
| C ABI | `cmd/basispoints/main.go` | `mu`, `callback`, the host's function table | plugin call, host call, exported shutdown | two write locks are taken while guards still need the read side |
| attachment cache | `attachments.go` | LRU, pending uploads | `getOrUpload`, `uploadInputImages`, `uploadImage` | single flight across requests and across generations |
| relay summary | `relay_summary.go` | one record, written once | `bind`, `finishAfter`, `finish`, counters | written before the close, by whoever ends the request |
| configuration | `service.go`, `types.go` | effective configuration, mirror `settings.json` in the data directory | `configure`, `fillFromMirror`, `normalize`, `writeFileAtomic` | disk before lock; failing writes, crashes, damaged mirrors |
| ws transport | `transport_ws.go` | per turn a connection, the resume token, the listener's channels | dial, `response.create`, read loop, cancel frame | reader, listener, dialler and context end each other; no deadline watchdog |
| relay conversion | `protocol.go`, `relay_instructions.go` | none | catalog, `tool_choice`, native calls to client calls and back | a batch is accepted whole; the next request's history must undo it |
| credentials | `auth.go` | none | parse, refresh | pure |
| routing, catalog, parsing | `alpha_search_route.go`, `model_catalog.go`, `response.go`, `upstream_failure.go` | none | look-ups, classification | pure |

How they interact. `executeStream` creates a guard and connects through it; the guard's watcher is
woken by the generation's context (`Lifecycle`), by the session's `onDisconnect` and by the deadline.
Chunks the guard's reader returns go through the delivery, whose `forward` is the session's
`deliver`; the end of the read goes to `finish` or `fail` of the session. The session's watchdogs are
woken by the generation's context and by the request's deadline. The session writes the relay summary
through its `onEnd` hook. Attachments are uploaded before the connection, each under a guard of its
own. A ws turn has a connection where http has a guard. The complete response is converted
(`transformResponseBodyStats`); a rejected batch of tool calls is regenerated once by a second attempt. Shutdown
waits for the generation's `WaitGroup`, which a request leaves when nothing but a record is left to do.

What makes each part correct:

- *session*: closed exactly once, for the reason of whoever forced it; ends quiescent; one
  `response.created`, consecutive sequence numbers, one id; the record says what happened; always closed
  in the end, however the client behaves;
- *delivery*: what was sent early plus what is replayed is the response; nothing leaves before it may;
- *guard and round trip*: nothing is left open in the host, nobody calls the host after `release`,
  truncated data never counts as a response, a stop is reported as a stop;
- *lifecycle and ABI*: a generation that was seen to be empty stays empty; no call is in the host when
  its table is forgotten; unloading terminates;
- *cache*: at most one upload per key, no waiter without a leader, list and map agree;
- *configuration*: the mirror says what is in effect, registering again changes nothing, dedicated marks
  are never forgotten;
- *ws turn*: the cancel frame precedes the close, no connection is leaked, a stop ends every wait;
- *conversion*: a batch of calls is handed over whole or not at all, and comes back unchanged;
- *execution and summary*: one record, which tells how it really ended, and nothing held afterwards.

## 2. Modules

| module | models | uses |
|---|---|---|
| `StreamSession` | `stream_session.go`, the writing of the relay summary | |
| `DownstreamStream` | abstract: what host and client are promised of one stream | implemented by `StreamSession` (`ContractHolds`) |
| `StreamDelivery` | `stream_events.go`, the event generators of `protocol.go`, the attempt loop of `executeStream` | |
| `UpstreamGuard` | `upstream_guard.go`, `upstream.go`, `awaitConnect` and its caller, `guardedDo` | |
| `WsTurn` | `transport_ws.go` | |
| `RelayConversion` | the pure part of `protocol.go` and what `relay_summary.go` makes of its results | |
| `RelayRound` | one execution: `execute`, `executeOnce`, `executeStream`, `executeStreamWS`, `relay_summary.go` | extends `RelayConversion` |
| `Lifecycle` | generations and shutdown in `service.go`, locks in `main.go` | |
| `ConfigMirror` | `configure` and its mirror file, `service.go` and `types.go` | |
| `AttachmentCache` | `attachments.go` across generations | |
| `StreamSession_proofs`, `StreamDelivery_proofs`, `UpstreamGuard_proofs`, `WsTurn_proofs`, `ConfigMirror_proofs`, `Lifecycle_proofs`, `AttachmentCache_proofs`, `RelayRound_proofs` | theorems about the module they are named after | `TLAPS` |
| `MC_*` | small instances of the above | |

`RelayRound` composes the others: a round trip there is one step to connect and one to read, and each
is what `UpstreamGuard` or `WsTurn` shows it to be (released when it returns, a stop reported as a stop); its
session is `StreamSession`'s seen from the round trip.

### StreamSession

Goroutines are entries of `pc`: `"rt"` (the round trip), `"hb"` (the heartbeat), `"life"` and `"dl"`
(`bindLifecycle`, `bindDeadline`). `mu` is the holder of `ss.mu`. An emit is split into its steps:
`CallEmit` renders the payload from the current sequence number, `EmitCheck` reads the three flags
(`forced` is not protected by `ss.mu`, so it may change right after), `HostAccepts` or `HostRefuses` is
the host's answer, and the caller's own action returns and unlocks. `HostAccepts` needs room in the
host's queue, so a full queue blocks the emit together with everyone who wants `ss.mu`.
`CloseStream`, `OnEnd`, `CloseOnce`, `HostClose` are the steps of `closeWith` for an ordinary ending,
`Abort`, `PublishForced`, `HostClose` the same function with `force`. Losers of `closeOnce.Do` wait until the
winner has returned, as `sync.Once` does. `Summarize` is `finishAfter`.

Which calls the round trip makes, and when, is free: every sequence of `open`, `deliver` and one `finish`
or `fail` is explored, a superset of what `executeStream` does. A failure is any of `Failures`; a refused
delivery always fails as `client_disconnected`. `DeadlineModes` says whether there is a deadline watchdog (http) or
not (ws). A preset exit (`setExit`) and the `incomplete` refinement of `completed` are in `RelayRound`.

### StreamDelivery

The upstream plans one of `Responses` and streams its events in order. Up to `MaxAnomalies` times it
loses an event, sends a stray one (any event of any planned response), or ends with another response.
It may end early at any moment. `d` is the `streamDelivery`; an entry of `d.items` stands for
`d.messages[i]` or `d.reasonings[i]` (the code keeps them apart and refuses an index in both). `Accepts` and
`Recorded` are the guards and the effects of `applyMessageEvent` and `applyReasoningEvent` on one item, `Record` puts the
item back; an item without an id is not accepted. `ReplayPending` is the last of the states that `Probed` goes through over the
pending batch, from a fresh one. `Replay` is `syntheticEventsFor` filtered by `keepFinal`: `Kept` is what is `Unseen` of each event.
`EndFinish`, `EndToolInvalid` and `EndRegenerate` choose freely whether the tool calls convert.

Abstracted: texts are short sequences of letters; logprobs, refusal payloads, encrypted reasoning,
identity fields other than the item id, and tool payloads are dropped; indexes always parse; `[DONE]`
is the terminal event. The relay conversion keeps the indexes of output items (`protocol.go`,
`transformResponseBodyStats`), so the replay works on the response itself.

### UpstreamGuard

Threads: `main` (the executor call, then the goroutine that reads), `conn` (`upstreamStream`), `body` (the
reader of an error body) and `watch`. Mode `"stream"` is `executeStream`, mode `"do"` is `guardedDo`, where the
connecting thread answers without a stream. `g.mu` is never held across a host call, so each of its
critical sections is one step. `Resolved` is `resolveLocked`: every look at the abort reason also records it.
The operation id may be missing (`operation_open` failed).

### Lifecycle

`muReaders`, `muWriter`, `cbReaders`, `cbWriter` are `main.go`'s two `RWMutex`es; a waiting writer keeps new readers
out, as Go's does. Generations are numbers, `working` and `gen` are the `WaitGroup`s. A request moves between
`running` and `inHost`, `Detach` is the moment a streaming call returns to the host while its goroutine goes
on. `StopGivesUp` is the end of `shutdownWait`; **assumed** is that five seconds suffice for every guard of the
generation to have issued its cancel. The mutant of `UnloadReturns` drops that assumption, and then the pending
write lock on `callback` keeps the guards from cancelling and the unload never ends.

### AttachmentCache

Each request has a plan of images and works through it. `Hit`, `Follow`, `Lead` are the three ways through the
first critical section of `getOrUpload`, `Publish` is its second one. Uploads succeed, fail or are aborted
by the guard. `FrontOf` is `MoveToFront` of `container/list`: it takes the element out where it is and puts
it back in front; `operation` says whether the host gave this upload an operation to cancel. `Shutdown` and `Rebuild` are the generation
steps; a shutdown may give up on requests that are `Stuck`.

### ConfigMirror

`Configure` starts a call, `ReadMirror` or `RejectMirror` is everything `configure` decides in memory after reading
the file, `WriteTemporary`, `Rename`, `Install` are its steps outside, and `StorageFails` may replace either of the
first two. A configuration is a record of its keys; the ones that are only trimmed, defaulted and
range-checked by themselves are the one key `limits`, lists are sets, `model_mappings` is the set of its aliases. A
mirror file also says which of its keys are null or of another type, which `fillFromMirror` treats
differently. `Crash` forgets calls and memory and keeps the files. `stored` is history: the last request whose
mirror was written.

### WsTurn

Two goroutines at work: `dialer` opens the first turn, `main` is `executeStreamWS` and everything after the
hand-over, and opens the second turn itself; each turn has a `listener`. `Opening`/`Goes` let one set of actions
serve both. `ctx` is the request's context with its first cause. `token` is the newest resume token the read
loop saw, `known` (history) the one it had seen when the context ended. Any open connection may break; the
upstream may stay silent for ever. `blocked` is an emit that the host does not take, with `ss.mu` held.

### RelayConversion and RelayRound

`RelayConversion` has operators only, one per function. A tool's name is the sequence of its dotted parts,
because the code's key is the joined string: a tool `n.c` and the tool `c` of the namespace `n` are the same key. A
payload is what parsing tells of it (an object that fits the schema or does not, quoted JSON, a legacy
envelope, other text, or not a string). Calls and history items are records of those. The loop of
`transformResponseBodyStats` returns at its first fault, so `transformCalls` names the least faulty index instead
of running a loop. The loop of `translateInputItems` carries what it has seen of the history, so it is a recursive
function, `Translated`, with one step per item, `Translates`. `ToolSpec`, `ToolChoice`, `Item` and `Native` in `RelayRound` say what
a request and an answer are made of after parsing (a tool without a name is not a tool, `protocol.go:45`; the types
of items that no function treats on their own are `"message"`).

`RelayRound` is a state machine over `pc`, the same for the three forms: `"once"` (without a stream), `"http"` and
`"ws"`. `Prepares`, `Issues` and `Retries` differ by form exactly where the code does: http creates the guard before
the attempt is counted, the others count it first, and http asks for the deadline before it starts
the second attempt. `Validates` computes the batch's verdict from the request and the answer. `Ends` and `Writes`
are apart because a watchdog may act between the last event and the record. The summary's counters
are the code's; `rounds` is history: each attempt's own verdict, which the record's derived fields are
compared with. "unset" stands for the empty exit.

## 3. What the runs show

Passing runs, with the bounds that make their cases happen:

| run | instance | shows |
|---|---|---|
| `session` | heartbeat, with and without a deadline, one upstream id, four kinds of failure, queue of 1, heartbeats and deliveries stop at 3 payloads | the close, the record and their order (`ClosedExactlyOnce`, `ForcedOwnsClose`, `EndedQuiescent`, `RecordTellsTruth`, `SummaryBeforeClose`, `StopIsFinal`), the refinement `ContractHolds`, and that a stop or a deadline closes the stream and ends the session (`StreamEventuallyClosed`, `SessionEnds`) |
| `delivery` | four responses: thought, answer and tool call; a contradiction; a longer one; one cut short with a refusal; one anomaly | what was sent and replayed is the response; the client can follow; clean streams are shown at once; regeneration is unseen |
| `guard` | both modes, with and without an operation, two chunks | leaks, quiescence, truncation, reasons, the heartbeat window, abort |
| `lifecycle` | a streaming and a non-streaming request, one shutdown, two reconfigures, the export | generations and the host table; unloading ends, a stopped generation ends |
| `attachments` | two requests, two images in both orders, cache of 1, three uploads, two generations | cache, single flight, no foreign files, waiters are answered |
| `config` | two callers one at a time, twelve requests, five initial mirrors in each of two directories, failing disks, one crash | `MirrorIsEffective`, `RegisterAgain`, `MarksKept` |
| `ws` | heartbeat, two turns, two tokens per turn | `CancelReachesUpstream`, `OneConnection`, `TurnEnds` |
| `relay` | three forms, eight requests (duplicates, namespaces, every `tool_choice`, histories), answers of up to two of 22 native calls | `BatchAllOrNothing`, `HistoryKeepsCalls`, `RecordIsTrue`, `NothingHeld` |

The bounds suffice because the mechanisms do not count: a queue of 1 is full after one payload, and two
payloads after the prologue exercise every continuation of the sequence numbers; a cache of one entry
evicts on every second upload; two configurers already overlap in every order; one thought, one answer
and one tool call put an early, a replayed and an untouched item side by side; a batch is judged call
by call and by pairs (a repeated id, two calls where one is allowed); a second token tells a stale one from
the newest. `MaxBatches`, `MaxAnomalies`, `MaxChunks` (this one is the configured response limit), `MaxUploads`,
`MaxLives`, `MaxCrashes` and `MaxTokens` are the only bounds. Symmetry is used in `config` only (the two callers),
whose properties are invariants and step properties.

Every property has a mutant in `PROJECT.json`: a helper named after the definition it replaces, which
changes the code the way a plausible bug would. Under it TLC finds the property violated.

Runs that end in a violation record where code and documentation disagree:

- `lifecycle_export` / `ShutdownInterrupts`. `CHANGELOG.md:177` says non-streaming requests and uploads are
  cancelled by shutdown. The exported `cliproxyPluginShutdown` first waits for `mu` (`main.go:210`), which such a
  request holds for reading (`main.go:154`), so through the export the cancellation cannot begin before the
  request is over. The `plugin.shutdown` *method* does cancel it (`lifecycle`).
- `attachments_isolation` / `GenerationIsolated`. `service.go:28` and `CHANGELOG.md:177` call a rebuilt generation
  completely isolated from the old one. The cache is shared: when a shutdown gave up on an upload that the
  host could not cancel, a request of the new generation with the same image waits for it and takes over
  its `plugin_stopped`.
- `config_concurrent` / `MirrorIsEffective`. `service.go:142` calls `settings.json` a mirror of the effective
  configuration. `configure` renames the file before it takes `lifeMu`, and `mu` is only held for reading: of two
  overlapping calls one may own the file and the other the memory. The run `config` shows the property
  for a host that makes one such call at a time.
- `ws_stop` / `InterruptedEndsAsStopped`. `CHANGELOG.md:177` says that interrupted requests end normally, with
  `plugin_stopped`. The ws read loop looks at its context only when a read fails, so a failure frame that
  arrives after the stop, before the listener has let the read go, is answered with its own error, which
  may cool the credential down.

Differences met while modelling that no run states:

- `README.md:69,80` (of the repository) counts an attempt as started when its trip is issued. `executeOnce` and the ws branch count it
  before they learn that the deadline has passed, so `attempts_started` may include a trip that was never made,
  and the last verdict is reset to `not_run` by it. `RelayRound` models the code (`Prepares`, `Retries`).
- `service.go:69` wants `done()` after the last host callback. The synchronous error paths of `execute` and
  `executeStream` call it before the summary's `host.log` (`LeavesFirst`, then `Logs`).
- Several settings are read more than once per request, so a reconfigure may change them in between.
- `service.go:168-173` says that a mirror with damaged marks is a configuration error, so that the
  write that follows does not make everybody forget them. The mirror that is read is the one in the directory the *request* names, or in
  the default one; the one that is written is in the directory that comes out. If `settings.json` in `d1` names
  `d2` as `data_dir`, as a copied file may, a request without `data_dir` reads `d1` and then replaces the file in `d2`, whose marks
  (or whose damage, which would otherwise reject the call) it never looked at. `configure` itself never writes
  such a file, no initial mirror of the run `config` is one, and the theorem `MarksAreKept` says so (`AtHome`).
- `README.md:50` (of the repository) wants the final response to agree with what was delivered, and lists ids, texts and the parts' lifecycle.
  A message's `item.done` is compared with its streamed parts in number and in the texts of `output_text` parts only
  (`stream_events.go:447-452`), goes out as it came, and is not compared with the final item again. If the upstream closes an item with
  another type for a part than it streamed (`output_text` where a refusal was), the client keeps that `item.done` though the
  stream completes with the other. The responses of the run `delivery` never give one item two such shapes; with two that
  do, TLC violates `ExactlyTheResponse` by one stray event. The theorem `ResponseIsExact` assumes that they do not (`SameShapes`).

### Fairness

- `StreamSession`: goroutines run and time passes (the deadline, the grace). Nothing is assumed of the client,
  who may never read nor leave, and nothing of `host.log`; `SessionEnds` states its dependence on the latter.
- `UpstreamGuard`: goroutines run; a host call that does not wait for the upstream returns, as does a cancelled
  `do_stream` and a read of a closed stream. The upstream owes nothing.
- `Lifecycle`: calls that were made run; an aborted request ends between two host calls (strong fairness, since
  it may enter the host again and again); the host answers a cancelled operation. Deadlines are not fair: a
  stopped generation ends without any.
- `AttachmentCache`: requests run and their deadlines pass; the host owes an upload no answer.
- `WsTurn`: goroutines run, and whoever waits for `ss.mu` gets it in its turn (strong fairness of `Starts` and
  `Finishes`: Go's mutex is fair to waiters, and another emit may come in between). Upstream, client and
  clock owe nothing; `TurnEnds` therefore promises the end for a stop, and for the other ends of the context
  only if no emit stays blocked for ever, because a ws request has no deadline watchdog.
- `StreamDelivery`, `ConfigMirror` and `RelayRound` have no liveness properties and no fairness. That an execution
  ends is a matter of its parts, and stated there.

`CHECK_DEADLOCK FALSE` is set for `Lifecycle` and `AttachmentCache`, whose calls are finite in number and which may
really stop; the other modules name their final states (`Rest`, `Released`, `"done"`) or never stop.

## 4. What is proved

All theorems hold for every value of the constants that satisfies the module's named assumption. Each
rests on an inductive invariant; all of them were also checked by TLC on the instances above. Only what
is needed beyond the types is described here.

### Stream session

`StreamSession_proofs` (`SessionAssumption`: any capacities, bounds, ids and failures, with and without heartbeat
and deadline):

- `TypeCorrect`: `Spec => []TypeOK`. The type is not inductive by itself: the payload in progress keeps its sequence
  numbers only while an emit is under way, and the error to close with must stay one of the errors. `TypeInv`
  adds that. One lemma per group of actions, one step per action.
- `ClosesOnce` (`ClosedExactlyOnce`) and `ForcedKeepsReason` (`ForcedOwnsClose`). Both rest on
  `Inv == TypeInv /\ CloseInv /\ ReasonInv`. `CloseInv` says that `closeOnce` belongs to exactly the goroutine that is
  between winning it and returning from the host's close, that `host.stream.close` has been called once if it is
  done and never before, and that the round trip gets past its close only then. `ReasonInv` ties the published
  reason to the winner: while a watchdog owns the close, the reason is its own; while nobody or the round trip
  does, nothing is forced. Without the second part a step of the round trip could close a forced stream.

Its second part, the contract with the host and the client, extends `Inv` to `Full`, by five parts:

- `MutexInv`: `ss.mu` is held exactly in the critical sections, one goroutine emits at a time, and the
  heartbeat is gone when the stream ends. `BatchInv`: the payload under way continues the stream where it
  stands (number, id, opening), which an emit that was rendered before another goroutine's emit would not.
  `StreamInv`: `sequence`, `responseID` and `started` describe what the host accepted. `FailInv`: which errors a stream may fail
  and be closed with. `RecordInv`: when the record is written, and that it says what was accepted.
- From these: `EndedIsQuiet` (`EndedQuiescent`), `SummaryFirst` (`SummaryBeforeClose`), `RecordIsTrue` (`RecordTellsTruth`),
  the action property `StopIsKept` (`StopIsFinal`), and the refinement `ContractIsKept` (`ContractHolds`): each step appends
  to `DownstreamStream`'s frames, closes, or stutters. The mapping is the identity on what the host accepted;
  what has to be shown is that an accepted payload is one the abstract stream takes next (`BatchInv`, `StreamInv`) and
  that an error is closed with only after a failure that is not the request's own (`FailInv`).

### Stream delivery

`StreamDelivery_proofs` (`DeliveryAssumption`: any responses, any number of lost, stray or contradicted events). Four
theorems, all four properties of the run `delivery`:

- `ClientFollows` (`ClientCanFollow`) and `ResponseIsExact` (`ExactlyTheResponse`). The invariant, `DeliveredInv`, ties what is recorded of an
  item to what the client received of it: `View` rebuilds the client's events from a record, and `Tracks` says that the
  events that went out, joined, are that view, for every item. Three lemmas carry it. `Step`: an event that `Accepts` lets pass
  moves record and client alike, for each type of event; this is where the guards are needed (parts in
  order, nothing after a done, the done text equal to the spelt one). `ReplayGood`: by induction over the
  batch the same holds of `ReplayPending` on its fresh state, so committing a batch puts `Tracks` in place. `ResumedReplay`: if
  the response passes `validateFinal`, then the replay, filtered and trimmed by the records, adds exactly the rest of
  each item; it goes over the parts of the item (those done, the one cut short, those not yet begun).
- `CleanStreamIsShown` (`CleanStreamShown`). `ScriptPath` builds the path of a delivery along the events of a response, item by item,
  part by part and letter by letter: each event is accepted, each delta has been announced, and each record on the
  way passes `validateFinal` (`Sound`). `CleanInv` says that while nothing was lost, stray or contradicted the delivery is on
  that path at `cursor`, directly once it is committed or buffered, in its pending batch before; a batch with a
  delta is therefore never merely pending, and no event and no ending is refused.
- `RegenerationIsUnseen` (the action property `RegenerationUnseen`) follows from `DeliveredInv`: an attempt that has not committed its batch
  has let nothing out.

Two of them state an assumption about the responses, and the model needs both, as does the code.
`SameShapes` (for `ResponseIsExact`): two responses that share a message of as many parts agree on the kinds of the parts. Without
it the property is false, see "Differences" above. `AllNamed` (for `CleanStreamIsShown`): responses and streamed items have ids. Without a response
id nothing is delivered early (`stream_events.go:153,223`), and an item without one is refused (`stream_events.go:321,429`). The
responses of the run satisfy both. `ClientFollows` needs neither.

### Upstream guard

`UpstreamGuard_proofs` (`GuardAssumption`: both modes, any response limit, with and without a grace): `LeaksNothing`
(`NothingLeaks`), `ReleaseIsQuiet` (`QuietOnceReleased`), `TruncatedIsNotComplete` (`TruncatedNeverComplete`), `HeadersInTime`
(`HeadersInTimeAnswered`) and the action property `StopReported` (`StopIsReported`). `ConnInv`, `BodyInv` and `MainInv` say what
each thread has by the time it is where it is; `CloseInv` gives `closeOnce` to a thread that is at its close;
`StreamInv` says that a stream is known to the guard from the moment `attach` is over, before anybody closes it, and
that none is open after release. `CutInv` is what makes truncation visible: a stream closed under its
reader was aborted with the reason on record *before* the close, so the check after the read sees it.

### ws turn

`WsTurn_proofs` (`WsAssumption`: any number of resume tokens): `CancelIsSent` (`CancelReachesUpstream`) and
`HoldsOneConnection` (`OneConnection`). `TurnInv` places the threads at turns, `ConnInv` says that a turn holds no connection before its
dial nor after it failed or returned, `CancelInv` that the frame's token is read after the context has ended and
that only the listener marks the frame as out.

### Configuration and its mirror

`ConfigMirror_proofs` (`MirrorAssumption`: any requests, directories, initial mirrors, crashes; and
`HostSerializes`, without which the first of them is false, see `config_concurrent`):

- `MirrorSaysEffective` (`MirrorIsEffective`) and `RegisterAgainGives` (`RegisterAgain`). `AloneInv` is what serialization gives; `PlanInv`
  says that what is about to be written is what the mirrors still give, `EffectInv` that what is about to
  take effect is what the mirror says. The lemma `GivesAgain` is the idempotence: after the result is written, the
  same request, filled from the new mirror and normalized, gives the same result.
- `MarksAreKept`: `Spec /\ AtHome => MarksKept`. `AtHome` says that no mirror names another directory at first. The
  attempt without it failed for a reason, see "Differences" above.

### Attachment cache

`AttachmentCache_proofs` (`CacheAssumption`: any requests, plans, generations and capacity):

- `SingleFlight` (`PendingIsLed`) and `FilesBelong` (`FilesMatch`). The step that needs thought is
  `Publish`: a follower takes over the leader's file, which is a file of its own image because the pending
  entry of its key names that leader and a leader's key is the key of its entry (`LeadInv`).
- `CacheKept` (`CacheConsistent`), from lemmas about the list: an element moved to the front (`MovedToFront`), put there
  (`PushedFront`), or dropped at the back (`LastDropped`) leaves a list without repetition of the keys one expects.

### Relay round and conversion

`RelayRound_proofs` (`RelayAssumption`: any requests and answers of the stated types, each form):

- `NothingStaysHeld` (`NothingHeld`) and `RecordTellsTheTruth` (`RecordIsTrue`). The invariant has five
  parts beside the types. `PlaceInv` says what an execution has at each place (the session of a stream
  that got its answer, resources only during an attempt, the record exactly after it was written).
  `RoundInv` and `Sums` tie the summary's counters to the attempts, at each place and in sum; the regeneration
  verdict, derived by the code from `checks` and `final`, is shown equal to the second attempt's own. `ReasonInv`
  says that a given reason has happened and that a preset exit belongs to an execution without an
  answer; `EndInv` what the client was told when the record is still to be written. `RecordInv` adds to the
  theorem that a watchdog that comes after the record can take from the client only an error that is not
  a failure: without it the last step, the close, could falsify the record. One lemma per action, one step
  per part.
- `BatchesAreWhole` (`BatchAllOrNothing`) is about the conversion itself, for every request and answer. `Judgement` says of
  one native call what makes it acceptable and what it becomes, `Transformation` that a batch has a least fault
  or none (`Smallest`, from the well-foundedness of `<`), and `Listing` with `OneOfAKey` that the catalog names each callable tool
  once though keys may be declared twice. What `schemaMatches` decides is a field of the payload here.
- `HistoryComesBack` (`HistoryKeepsCalls`), for every earlier history as well. `RoundTrip` is the inverse: the native call that
  `fallbackTransportCall` makes of a handed call (`CallOf`) is extracted as that call again, because no two callable tools
  have one key and no tool has a transport name. `EchoComesBack` follows the loop over the echo with the
  invariant that each pair so far stands where it should behind the earlier history (`Prefix`), `AllClean` over the
  whole history with the invariant that nothing of the client's own is left, `TriggerStays` looks at its last step.
  The library's induction theorems cannot be used (their parameter is an operator), so `TranslatedRecurs` and `UpTo` do
  the induction over a set of numbers instead, from the smallest number that is not in it.

### Lifecycle

`Lifecycle_proofs` (`LifecycleAssumption`: any number of requests, stoppers and configurers with distinct names):

- `LifecycleTypes`, `StopsForGood` (`AdmittingIsLive` and `StopHolds`), `QuietForGood` (`CleanStopIsQuiet`) and
  `HostTableSafe` (`HostTableUnused`). The invariant ties a shutdown to `lifeMu` and its target to the current generation
  (`StopInv`: without it a configure might replace the generation between the mark and the cancel, and the new
  one would be cancelled), keeps `clean` among the cancelled generations (`GenerationInv`: nobody is admitted to
  those, so what was seen empty stays empty), and makes callers hold `callback` (`HostInv`).

### Only model-checked

- Liveness, since fairness and `ENABLED` are outside the prover's reach: `StreamEventuallyClosed`, `SessionEnds`,
  `AbortReleases`, `UnloadReturns`, `StopEndsRequests`, `WaitersAnswered`, `TurnEnds`.

Every invariant and every action property of a passing run is a theorem.

Proof work also changed the model. Three definitions had `CASE` guards that overlapped, where TLA+ makes
the choice arbitrary and TLC takes the first (`Judged`, `relayResult` and the reading of items in `translateInputItems`;
`Keep` in `StreamDelivery`): they are `IF`s in the order of the code now. `FrontOf`, `transformCalls` and `Echo` say what the
code or the client does without walking a list, and `translateInputItems` and the batch of `StreamDelivery` (`Probed`, and `Joined` in its
properties) are recursive functions where they were folds. What is kept of one item has a definition of its own
(`Recorded`), and `Accepts` has the code's guard on the empty id, which no instance meets. The
runs' state spaces are the same as before.

## 5. Plan

Done: all modules of section 2 and the theorems above.

Open: liveness, which stays with TLC; of the delivery the parts of an event that are left out (section 6), logprobs
first, because `validateFinal` and `keepFinal` compare and trim them along with the text.

## 6. What is not modelled, and why

- *Credentials* (`auth.go`), *routing and catalog*, *response and failure parsing*: sequential functions of one
  call without state; nothing interleaves with them and unit tests reach their cases. Their outcomes are
  the failures and responses the modules choose from.
- *Of the conversion*: the recursion of `schemaMatches` (a payload fits its schema or does not), the wording of the
  instructions, `relayReasonCategory`, metadata, generated ids and effort of `prepareResponsesBody`. Ids that the
  plugin generates are one value: that a generated id never equals another is not a claim of the model.
- *Of the delivery*: logprobs, refusal payloads, identity fields, the parsing of indexes.
- *SSE decoding*: a change of framing; the delivery starts at decoded events.
- *An abstract plugin above `Lifecycle`*: its promises are the module's properties; a second statement of them
  would show nothing more.
- *Second initialisation after an unload, panics, JSON envelopes*: one-line guards of the C ABI.
- *Wording, logging other than the summary, redaction*: no property is about them.
