# Verification of the letta-code admin shim

The shim (`src/admin-shim/`) is a Node server that puts an HTTP and WebSocket
interface in front of letta-code sessions: it keeps a pool of SDK sessions, runs
the turns clients send through them, records every run on disk, asks for
approvals, replays what a disconnected client missed, and fires scheduled
prompts. This directory holds TLA+ models of its stateful components, the TLC
runs that check them and the TLAPS proofs about eighteen of them.

Node runs one piece of JavaScript at a time, so the unit of interleaving is the
stretch of code between two `await`s (or one timer or socket callback). **One
action of a model is one such stretch**; what a stretch does to several maps it
does at once, and what it read before an `await` it may use stale after it.

## 1. Inventory

| Component | Source (`src/admin-shim/lib/` unless noted) | State | Operations | What must hold |
|---|---|---|---|---|
| Session pool | `agent-pool.ts` | `workers`, `spawning`, `approvalGates`, each worker's `dead`, `busy`, `lastUsedAt`, `chain` | `get`, `evict`, `forceEvict`, `runTurnWithHeal`, `touch`, `housekeep`, `stopAll`, gate open/close | no session leaked; one per conversation; streaming sessions are not reclaimed; a parked turn has a session |
| Session adapter / turn engine | `letta-sdk-adapter.ts`, `llm-retry.ts`, `cancel-heal.ts` | chain of turns, per-turn `cancelled`, `settled`, timers, attempt count, repair chain | `runTurn`, stream loop, watchdog, `cancelSession`, retry loop, repair barrier | Stop is seen by every phase from the stream on, and there nothing is sent after it; a run stopped earlier makes one attempt more at most; a successor waits for the repair; every turn ends |
| Run records | `runs.ts` | `_activeRuns`, `_cancelHandlers`, the grace window for late frames, `run.json`, `frames.jsonl`, listeners | `createRun`, `finalizeRun`, `cancelRun`, `appendRunFrame`, `subscribeLiveFrames`, boot sweep, compaction | index and records agree; frame numbers are dense; a subscriber misses nothing |
| Mobile channel host | `mobile-channel-host.ts` | per turn: seen tool calls, pending stop and usage | `bridgeSendMessage`, `subscribeToRun`, user actions, cron and goal hooks | order of the last frames; cancel has a target from the start |
| Restart finalizer | `restart-finalizer.ts` | none | marks running runs failed on shutdown, closes their logs | no run stays "running" across a restart, and its followers are told |
| Approvals | `pending-approval.ts`, the gates of `agent-pool.ts` | gate, timer and record per run, audit trail, policies | open, decide, time out, evict, sweep on boot | first decision wins; the trail says what the tool was told; the list shows what waits |
| Transcript repair | `turn-settlement.ts`, `cancel-heal.ts`, `conversation-healer.ts` | `messages.jsonl` | settle, heal, prune (read, compute, rename) | every tool call gets a result in its place |
| Conversation cursors | `mobile-conversation-cursors.ts` | sequence and replay log per conversation, LRU cache of both | stamp, resume, acknowledge, compact | numbers are unique and grow; a gap is never hidden |
| WebSocket handler | `src/home/.letta/channels/mobile/lib/ws-handler.mjs` | in-flight flag, subscriptions, back-pressure per connection | message, action, subscribe, resume, ack | a subscription has no hole; turns of a session do not interleave; loss is reported |
| Cron scheduler and store | `cron-scheduler.ts`, `crons.ts` | task cache, rows on disk, lock directory, lease | tick, catch-up, fire, lock, lease, parse a schedule | a task due once fires once; one lease holder; the expression means the words |
| Goal continuation | `goal-continuation.ts`, `native-goal-mode.ts`, `goal-control-tool.ts` | settings file, running set, stop set, current runs | kick, command, stop, re-kick on boot | single flight; a stop reaches the turn; no more than one turn too many |
| Subagent registry | `subagent-registry.ts` | entries made from frames, logs, process ids; watchers and timers | ingest, watch, sweep, override, rehydrate | nothing stays "running" for ever, no living worker is written off |
| SSE and JSON answers | `chat.ts` | pending text, stop and usage of a turn | frame, finish, throw | both forms tell the same |
| Tool permissions | `permissions.ts` | two rule files, cache by mtime, override budgets | read, write, decide | the file as it stands decides; budgets hold |
| Stream shaping | `stream-coalescer.ts`, `a2ui-stream-splitter.ts` | bucket and timer; held-back text | handle, flush | no chunk lost or doubled; cuts do not show |
| Store and search | `store.ts`, `search.ts` | message cache, time sidecar, list snapshots, index and manifest | read, append, stamp, list, build | a read is no older than its request |
| REST routes, catalogues, event buses, salvage, Matrix, scripts | `server.ts` and the rest | none of their own worth a model | translate JSON, call the above | – |

Interactions: the WebSocket handler calls `bridgeSendMessage`, which creates the
run and calls `AgentPool.runTurnWithHeal`; that waits for pending repairs, gets
an adapter, and lets the retry loop enqueue the turn on it. The adapter's stream
loop calls back into the host (`onFrame`), which appends to the run's log and
sends. Stop comes from another connection or REST: `cancelRunAndHeal` flips the
record, drops the run from the indexes, calls the cancel hook and appends a
repair to the conversation's chain. Timers (grace, watchdog, housekeeping, cron)
act on the same maps between any two awaits.

## 2. Modules

| Group | Modules |
|---|---|
| Turns | `AgentPool`, `TurnEngine`, `ApprovalGate` (implements `ToolConsent`), `GoalContinuation`, `SubagentRegistry` |
| What clients see | `RunFrames`, `ConversationFeed` (implements `OrderedFeed`), `ChatResponse`, `StreamCoalescer`, `TextSplitter` |
| Files and caches | `TranscriptRepair`, `RunLedger`, `MessageCache`, `MessageTimes`, `ConversationList`, `SearchIndex`, `ToolPermissions` |
| Time | `CronScheduler`, `CronLock`, `CronExpression` |
| Instances for TLC | `MCAgentPool`, `MCTurnEngine`, `MCCronScheduler`, `MCConversationFeed`, `MCApprovalGate`, `MCServices`, `MCServicesLive` |
| Proofs | `AgentPoolProofs`, `TurnEngineProofs` (and `SubagentRegistry`), `CronSchedulerProofs` (and `CronExpression`), `ApprovalGateProofs`, `ConversationFeedProofs`, `RunFramesProofs`, `ServicesProofs` (`CronLock`, `GoalContinuation`, `ConversationList`, `SearchIndex`, `RunLedger`, `ToolPermissions`), `TranscriptProofs` (`MessageTimes`, `StreamCoalescer`, `ChatResponse`, `TextSplitter`) |

Where two components touch the same file or the same turn, each module has the
other side as its environment: the turn in `ApprovalGate` may end, be evicted or
time out at any moment `AgentPool` and `TurnEngine` allow, the CLI appends and
rewrites under every cache. Definitions marked `Mutant` in a module are plausible
bugs of one definition; they belong to no specification and show, one by one,
that the properties can tell the difference.

### `AgentPool` (and `MCAgentPool`, `AgentPoolProofs`)

A worker is one adapter object, a caller one activation of `runTurnWithHeal`.

| Model | Code |
|---|---|
| `workers`, `spawning` | the two maps of class `AgentPool`; a spawn promise is the worker it will deliver |
| `status` | `dead` / between construction and `start()` / ready |
| `busy` | the adapter's `currentRunHandle` |
| `chain` | the adapter's promise chain |
| `staler`, `expired` | the order of `lastUsedAt`, and whether it is older than `IDLE_EVICT_MS`: the only two things the code reads it for |
| `gates` | `approvalGates`, with the attempt that opened the gate |
| `cancel` | the cancel grace timer of the turn |
| `Spawn` | the cap loop, the closing of its victims and the call of the factory, which run without an await |
| `SpawnOk`, `SpawnFails` | continuation after `start()`, waking every coalesced caller |
| `BeginTurn`, `TurnRuns`, `StreamEnds`, `TurnDone` | the phases of `_runTurnInner` between its awaits: `busy` is true only in the third |
| `PreflightHeal`, `TurnNeedsHeal`, `HealEvict` | the evictions before a repair |
| `GraceExpires` | `forceEvict` of the key's worker and `close()` of the turn's own |
| `Housekeep`, `WorkerExpires`, `TouchKey`, `StopAll` | the idle sweep, the clock, `touch`, shutdown |

### `TurnEngine` (and `MCTurnEngine`)

The runs of one conversation from `bridgeSendMessage` to the returned result.

| Model | Code |
|---|---|
| `rec`, `stopped` | `record.status` and `metadata.user_stopped` |
| `active`, `hook` | `_activeRuns`, `_cancelHandlers` (`noop` is the hook of `createRun`, `turn` the adapter's `cancelSession`) |
| `heals`, `healed`, `waits` | the promise chain `healingByConversation`, how much of it is done, and the tail a barrier captured |
| `cancelled`, `snapshot` | the local of `_runTurnInner`, and its value as passed to `finalizeTurnLifecycle` at the end of the stream |
| `inbox` | a message that `iterator.next()` has delivered and the loop has not yet looked at |
| `failure` | what `shouldRetryLlmTurn` can tell from the result |
| `Attempt`, `AttemptAborts` | the head of the retry loop |
| `ReachHead`, `OpenTurn`, `BeginStream` | barrier, closure and hook, `send()` |
| `Receive`, `StreamEnds`, `Sever`, `Watchdog` | the stream loop and its exits |
| `FinalizeRetries`, `FinalizeReturns` | finalizer, result, decision to retry |
| `Cancel`, `HealDone`, `GraceExpires`, `Evict`, `Restart` | what happens around the turn |
| `atStop` | history, read by no guard: where a Stop found the turn, and how many frames it had sent |

A restart loses all memory and marks running records failed, as the boot sweep
does before the server listens.

### `CronScheduler` (and `MCCronScheduler`)

One shim process after another over one `crons.json`. Time is a count of
minutes; everything happens inside a minute, so "at or after the window's start"
becomes "in a later minute".

| Model | Code |
|---|---|
| `row`, `lastTick`, `owner` | the file: status and `last_fired_at` of each task, `last_tick_at`, `scheduler_owner` |
| `phase` | `state` (`running`), `state = null` with the process still alive (`stopped`), no process (`down`) |
| `cache`, `fresh` | `cachedTasks`; whether `lastMtime` still is the file's mtime |
| `fired`, `minute` | `firedThisMinute`, `lastMinuteKey` |
| `jittered` | tasks whose `jitter_offset_ms`, a hash of their random id, is not 0 |
| `armed`, `flying` | `pendingTimers`; turns that such a timer began |
| `tick`, `loop` | the activations of `tick()` (one of them first runs `runCatchUp`), what each has still to look at, and the one inside a stretch without `await` |
| `begun`, `twice`, `done` | history, read by no guard |
| `Start`, `CatchUpFires`, `CatchUpDone` | claim, catch-up from one reading of the file, first regular tick |
| `OpenTick`, `PassOver`, `MarkMissed`, `ArmTimer`, `FireNow`, `EndTick` | `tick()` |
| `TurnDone`, `TimerTurnDone` | the turn has ended, well or badly, and its row is written |
| `Add`, `Delete`, `Disable`, `Enable`, `FileLost` | what users, the CLI and the file system do to the file |

A tick looks at its tasks in any order; the code follows the file's. Edits of
the file and the clock wait for a stretch to end, although the CLI is another
process: what it writes within a stretch is seen as written before or after it.
A change of schedule by `PUT`/`PATCH` and the age at which the collector removes
a row are not modelled (it may remove any row that is not active).

### `ConversationFeed`, `OrderedFeed` (and `MCConversationFeed`, `ConversationFeedProofs`)

How frames of a conversation reach the devices, from the stamp to the client's
cursor, with the connection in between.

| Model | Code |
|---|---|
| `sidecar`, `log` | the files of a conversation: highest number assigned and acknowledged; the replay log, a set of entries since each has a number of its own |
| `states`, `lru` | the cache of `CursorState`s and the order in which it evicts; a state that is read back in comes from the files |
| `expired` | which entries are past their TTL |
| `ready`, `subs`, `inFlight`, `action` | a session of `ws-handler.mjs`: hello is over, the subscribed conversations, its single flight, an accepted action not yet dispatched |
| `turn` | the locals of a turn's closure: conversation, owner, what it dropped |
| `wire`, `cursor`, `fed` | what is on the connection and unread; the client's `last_conv_seq`, kept by the rules of `MOBILE_WS_PROTOCOL.md` 12.3 |
| `Resume`, `Subscribe`, `Ack`, `Unsubscribe` | the requests about a feed, each with its replay or its `cursor_expired` |
| `SendMessage`, `UserAction`, `DispatchAction`, `CronFires` | the ways a turn begins |
| `RunCreated`, `Chunk`, `TurnOver`, `FireFails` | what a turn publishes: stamped, logged, fanned out and sent in one stretch, or dropped before the stamp under back-pressure |
| `Restart` | memory and connections are gone; one may fall inside a stamp |

`OrderedFeed` is the promise: every frame has a number of its own above those
before it; a device that follows the conversation gets the frames in order
without a hole, and may pass over one only by asking for all of it. The
refinement mapping: `published` and `frames` are the numbers and the count of
what was handed to a sender, `at` the client's cursor, `follows` the
conversations whose `conversation_subscribed` it has read.

### `RunFrames` (and `RunFramesProofs`)

The log of one run and those who follow it by run id.

| Model | Code |
|---|---|
| `log`, `status`, `stopped` | `frames.jsonl` by lines, `run.json` (possibly torn), `metadata.user_stopped` |
| `mem`, `count`, `ring` | whether the handle is in `_activeRuns` or in the window for late appends; its counter and ring |
| `bridge`, `attempt`, `missing` | `bridgeSendMessage`: streaming, settled, what it still has to synthesize |
| `sub`, `unread`, `client` | the locals of `subscribeToRun`; what was sent on the connection; what the client read |
| `Emit`, `AttemptEnds`, `Retry`, `Throws`, `TurnSettles`, `TurnPosts` | the turn: frames, finalization by the first attempt that ends, synthesized tool returns numbered from 900001, then stop and usage |
| `Subscribe`, `DrainExpires`, `Told`, `Disconnect` | replay, live tail and the terminal drain; the client's side |
| `RestartCloses`, `RunDies` | the restart finalizer; a crash, which may tear the last line or the record, with the boot sweep |

### `ApprovalGate`, `ToolConsent` (and `MCApprovalGate`, `ApprovalGateProofs`)

Tool calls that ask. `calls` are the parked handlers with what they were told;
`gates` and `armed` are `approvalGates` and the timers; `file`, `audit`,
`policies` the three files; `wire` the decisions on their way. `Ask` writes the
record, opens the gate and arms the timer; `Deliver` is `resolveApproval` over
WebSocket or REST; `Resume` what the settled promise wakes up; `Timeout`,
`Evict`, `EndTurn`, `Crash`, `Shutdown` and `Boot` the other ends of a gate.
`server` is `SHIM_SERVER_PERMISSIONS`: without it no record is written.

`ToolConsent` is the promise, without gates, timers, records, policies or caches:
a call is a question that is answered once and whose answer is not taken back; a
run has one question open at a time; before a tool hears what a user said, it is
in the trail; a call goes through unasked on a grant of the trail only; when the
process ends, what is open is denied, refused or lost. The refinement mapping: a
parked handler is an open question, one that is resuming a decided one; what the
handler returned is the answer, a timeout and an eviction both being a refusal;
the trail is the audit file without the ids of the decisions.

### `GoalContinuation`

`settings` is the settings file of Letta Code, `commands` those that have read it
and are waiting for a lookup before they write all of it back, `kicks` the calls
that wait for an import, `loops` the activations of the continuation loop,
`active`, `stops` and `current` the maps `activeLoops`, `stopRequested` and
`currentRuns`. `late` is history: runs created for a goal since it was last to be
driven.

### `SubagentRegistry`

`reg` is the registry with the watchers and timers of each entry; `frames`, `log`
and `owner` what the run logs, the log in /tmp and the sidecar of a background
worker say; `worker` the process. The entries come from calls and returns in the
parent's frames (`IngestCall`, `IngestReturn`), from file events (`LogChanged`,
`TodosChanged`), timers (`Age`, `TimeoutDue`, `DebounceDue`, `Sweep`), worker
events (`ChildExit`, `ChildExited`), REST (`Override`, `Ingest`) and, after
`ShimDies`, from `ShimBoots`.

### `TranscriptRepair`

`transcript` is `messages.jsonl`; a caller of `runTurnWithHeal` prunes before its turn,
settles after it, and has the transcript repaired when the provider refuses it;
its turn runs on the pooled adapter, one at a time, or on one of its `own` beside
that: because it has client tools, or because an eviction (before a prune or a
repair, or behind a Stop that is not obeyed) took its adapter out of the pool
and another turn got a new one. `Evicted` leaves the turn on that adapter to its
settlement and may make those throw that wait for it. `heal` is the repair a Stop
registers (one at a time is a bound: those of two adapters would queue). Each of the four reads, computes over one
or more awaits and renames a new file into place; nothing locks it. The CLI
appends in between. What the provider accepts and how it words a refusal is
external; `Overlapping` says whether the refusal of a result without a call reads
as the other one too, which it does (`conversation-healer.test.ts:124`).

### `RunLedger`, `MessageCache`, `MessageTimes`, `ConversationList`, `SearchIndex`

Five stores over files that others write.

| Module | Models | State |
|---|---|---|
| `RunLedger` | which turn wrote which message, what `GET messages` shows while turns run, the archive (`runs.ts`, the adapter's listing before and after a turn) | transcript by author, handles with their snapshots, records and where they lie |
| `MessageCache` | the incremental parse of `messages.jsonl` (`store.ts`): stat, open, probe, suffix | the file by lines and bytes, the entry, where each reader is |
| `MessageTimes` | the sidecar of real times, its older form and its compaction | lines on disk, whole or torn, the older map, the map in memory, `last_message_at`, what a turn's end and a request are doing |
| `ConversationList` | `makeDirMtimeCache`: a snapshot by the mtime of the directory, one load for all who wait | directories and files, snapshot, load in flight, requests |
| `SearchIndex` | `planBuild`, full and incremental builds, the manifest | sources by the stamp of their last write, rows, manifest, build in flight |

In `RunLedger`, `lane` is the adapter of a turn (the pooled one, its own, or one
that was replaced), on which it follows others and beside which it overlaps them;
`stage` is where the turn is, `heed` whether it heard a cancel, `written` the
transcript by author, `held` and `snap` the handles of `_activeRuns` with their
snapshots, `record` and `place` the records and their directories. `AskTurn` and
`BeginRest` are the two ways in, `TakeSnapshot` the listing before the turn,
`EndStream` and `Settle` its end and the sweep of new ids behind it, `SendAgain`
the retry with the same run, `Sever` and `Throw` the ends without a sweep, after
which the CLI may write on; `CancelRun`, `DeleteRun`, `Compact` and `Restart` are
what happens beside it. `beside` is history: which turn wrote while the sweep of
another was open. In
`SearchIndex`, `Search` and `Rebuild` are `planBuild` with the two kinds of build,
`LookAhead` and `StatSources` their looks at the files, `ReadSource` a read,
`Commit` and `Record` the transaction and the manifest after it; `WriteSource`,
`RestoreSource`, `DeleteSource`, `RemoveIndex` and `BuildDies` happen in between.

Each of the last four keeps as history (`owed`, `strayed`, `missed`, `gaps`) the
changes that fell into a gap the code has; the properties hold outside of these
gaps, and section 5 names them.

### `ChatResponse`, `StreamCoalescer`, `TextSplitter`, `ToolPermissions`, `CronExpression`

Small machines whose difficulty is in the sequences they may be given:
`ChatResponse` runs the event stream and the JSON body of `chat.ts` over the same
frames; `StreamCoalescer` gathers chunks by key until a timer or another frame
pushes them out; `TextSplitter` takes the blocks between two tags (the constants
`OpenTag` and `CloseTag`) out of a text that is cut anywhere; `ToolPermissions`
decides calls by two files, a cache, defaults and budgets; `CronExpression` turns
"every 90s" and "at 3:15pm" into expressions and matches them against the minutes
of three days (`Clock` and `Past` are the times of day at which one-shots are
asked for and the minutes they name).

### `CronLock`

The `mkdir` lock of `crons.json` and the lease in it. Every action is a system
call of one process: make the directory, write the owner, look who owns it, take
its age, remove and try again, read, write, compare, remove. Processes die
anywhere. `blind` is history: a steal has removed another directory than the one
found stale.

### `MCServices`, `MCServicesLive`

These two check sixteen modules in two runs: fifteen in `MCServices`, and
`SubagentRegistry` beside the approvals in `MCServicesLive`, which also has the
frames and the repair. Services that share no variable need no product: a
behaviour is one of a single service, named by `service` and chosen at the start,
and the state space is the sum of theirs. `MCServices` extends twelve modules,
which keep their own variables, so that the theorems are about the very formulas
the run checks: `RunFrames`, `ApprovalGate`, `CronLock`, `GoalContinuation`,
`ConversationList`, `SearchIndex`, `RunLedger`, `ToolPermissions`,
`CronExpression`, `MessageTimes`, `StreamCoalescer` and `TextSplitter`;
`MCServicesLive` extends `ApprovalGate`, `SubagentRegistry` and
`TranscriptRepair`. The others (in `MCServices` `TranscriptRepair`,
`MessageCache` and `ChatResponse`) are instantiated over the slots `v1`, `v2` and
so on, and their properties are guarded by the service (the
message cache has two instances, `cache` and `readers`; `Sync` says in which of
them a request reads the file without waiting). What belongs to another service
stands still, and `VIEW OwnState` tells states apart without it: the next state
of a service depends on `OwnState` alone, and so do the invariants of its module;
those of the others see an initial state of theirs, which is checked when that
service starts in it. The view also forgets which of two askers of the list, and
which of two readers of a file, is which: nothing names them.
The bounds are in the `INSTANCE`s and, for the extended modules, in the `.cfg`
files:

| Service | Instance | What it makes happen |
|---|---|---|
| `frames` | 1 follower, 3 frames, 2 synthesized returns, 2 attempts, 2 breaks; ring of 2 (live: 2, 1, 2, 1) | replay from ring and from file, reconnect during the tail, crash and shutdown of one run |
| `approvals` | 2 conversations, a run each, 2 calls, 2 decisions (live: 1) | a second decision, a second call of the same run, a session policy |
| `goals` | 2 conversations, 2 loops, 3 iterations, 3 commands, budget 2 | a kick during a loop, a command over another's write, the caps |
| `repair` | 2 callers, 1 call, 1 hit, no new message from 4 records on (live: from 2 on) | two rewriters at once, two adapters at once, an eviction under a turn or a settlement |
| `cache`, `readers` | 1 reader, 3 lines, 1 rewrite; 2 readers, 2 lines, 1 rewrite | an append or a rewrite at every await; a slow reader that stores after a later one |
| `chat`, `coalescer`, `splitter` | 4 frames; 5 frames of 2 kinds of text and a tool call; 4 symbols, tags n1n2 and n1n3n2 that begin alike, 7 symbols in pieces of up to 3 | every order and every cut, inside a tag too |
| `permissions` | 2 tools, 4 rule lists, 2 writes of the files, 3 turns, budgets 1 and 2 | both files, wildcard behind a rule |
| `search` | 2 sources, 3 writes, 1 restore, 1 fault | a write at every await of a build |
| `ledger` | 2 runs, one announced and one of REST, 2 adapters, 3 messages, 2 faults, retention 1 | turns behind and beside each other, a retry, a cancel at every stage and a CLI that writes on after it |
| `list` | 2 conversations, 2 requests at a time, 2 writes of each file; an answer leaves before anything else happens, since who has it reads nothing more | a request that joins a load begun before a conversation was made or written |
| `schedules` | values to 61, 3 days; one-shots asked for at midnight, a minute to noon, noon and a minute to midnight, for minutes 0 and 59 | remainders of the hour and of the day, noon and midnight, tomorrow |
| `times` | 2 messages, 3 stamps, 2 losses | overlapping stamp and read, torn line, compaction |
| `lock` | 2 processes, 2 operations each | a death at every step and the steal after it |
| `subagents` | 1 call and 1 external entry, 2 instances | restart between dispatch and return |

## 3. Runs

| Run | Asks | Bounds, and why they are enough |
|---|---|---|
| `pool` | the pool's safety properties | 3 keys over a cap of 1 give contention for the one slot and overflow; 2 callers give coalescing, queueing on one worker, and one working against the other; 3 workers are a pooled, a starting and a private one at once; 2 attempts give a retry on an adapter closed meanwhile. Keys, callers and workers are interchangeable: symmetry. |
| `pool_grace` | does a grace timer hit only its own turn? **No** | 2 keys |
| `turns` | what Stop finds in index and hook, what it leaves of a run, the barrier | 2 turns meet in the queue, in the barrier and in the indexes; 3 adapters are the pooled one, one closed under a turn and a private one; 2 attempts; 1 text frame tells "something was sent" from "nothing"; 1 restart. Turns are interchangeable: symmetry. |
| `turns_live` | does every accepted message end? | as `turns`, without frames and restarts (a restart ends the turns it meets), no symmetry |
| `turns_cancelled` | does a stopped run stay stopped? **No** | as `turns` |
| `cron` | what is never fired again, and what is only while its first turn is in flight | 1 recurring task that matches 2 minutes in a row, so that catch-up has to choose; 1 one-shot brought forward by jitter; 2 ticks at once; 4 minutes, a threshold of 1 and a cap of 3 hold "due", "missed" and "caught up"; 2 starts; 2 edits, from any file of active, cancelled and not yet added tasks |
| `cron_live` | does a due one-shot settle? | 2 one-shots, each of which can hold up the tick that should come to the other; 1 edit |
| `feed` | no hole behind a subscription, loss is reported, turns are bracketed, refinement of `OrderedFeed` | 2 devices and 2 turns, so that one follows what the other does; 2 conversations over a cache of 1; a replay log of 2 under 3 numbers, so that it is cut; 5 requests or faults; an unread wire of 1. Devices and turns are interchangeable: symmetry. About two minutes. |
| `services` | the safety of fifteen services | above; 1.4 million states, between two and three minutes |
| `services_live` | what four services owe in the end, and whether the approvals implement `ToolConsent` | above; the smaller instances keep the liveness check under three minutes. One decision is enough for the mapping to meet each action of `ToolConsent`; the theorem has any number. |
| `approvals_stale` | is the second decision on a card without effect? **No** | 2 calls of a run, 2 decisions |
| `repair_stuck` | does a refused transcript become acceptable again? **No** | 2 callers, 1 call, 1 hit |

Deadlock is checked in every run of the pool and the turns; the end of all turns
and the exit of the process are explicit steps (`Terminating`, `Exited`). The
other runs do not check it: once the bounded requests, faults or frames are used
up, nothing is left to happen.

**What each property says** stands above it in its module; for the services the
statement a reader should start from is the one in `MCServices`. The violated
ones are disagreements between the code and its own comments, listed with both
places under `findings` in `PROJECT.json`:

* `CancelHitsOnlyItsTurn`: `settled = !cancelled` keeps the grace timer of a
  cancelled turn alive after the turn has ended; it then closes the session the
  next turn is using.
* `CancelledStaysCancelled`: `finalizeRun` overwrites "cancelled" when Stop came
  while the turn was queued or being finalized. The queued one is not even held
  back: its attempt opens, sends and streams after the Stop, although "the turn
  will short-circuit when the cancel state is observed at run start"
  (`mobile-channel-host.ts:292-297`). `StopLeavesOneAttempt` says what a Stop
  does leave, wherever it finds the turn.
* `SecondDecisionIsNoOp`: a decision names a run, not a call. The second decision
  on a card that arrives when the next call of the run is parked answers that
  one.
* `Recovers`: once a tool result without its call is on disk, the refusal is taken
  for that of a call without a result, the wrong repair runs, and every later
  turn is refused too. With `Overlapping = FALSE` the property holds at the
  same bounds.

**Fairness.** For the turns: weak fairness of each turn's own continuation (the
event loop runs every promise that can settle) and of the repair chain. Of the
SDK it is assumed that a stream which is not cancelled ends: by its result, by
its transport closing, or after the watchdog's abort. The code has no stronger
backstop for it. Of a cancelled stream nothing is assumed: the race with the
cancellation is what gets the turn out. Clients, Stop, evictions, throws and
restarts are never required to happen. For the scheduler: weak fairness of the
restart (systemd) and of a stretch that holds the loop, strong fairness of the
interval and of turns coming back, since each waits for the loop to be free and
the event loop gets round to every callback. The clock, jitter timers, watcher
and users are not required to act. For the services: `RunFrames` assumes that an
attempt ends (what `turns_live` shows) and that the drain timer fires;
`ApprovalGate` that what was woken runs, that the gate's timer fires and that the
process is started again; `SubagentRegistry` that time passes and that the
interval of the sweep fires; `TranscriptRepair` that each caller and the repair
chain go on. Each is a promise or a timer of the event loop, or systemd.

## 4. Proofs

For every value of the constants, under the assumption each module names for
them. No property is inductive as it stands; the invariant of each module is the
conjunction `IInv` of named parts, its `Proofs` module has one lemma per action
(or per part, with one step per action), and the theorems combine them with PTL.

| Module | Theorems | Invariant and why it is needed |
|---|---|---|
| `AgentPoolProofs` | `TypeCorrect`, `NoLeak`, `SingleSession`, `Serialization`, `ParkedTurnsAreReleased`, `StreamingIsSafe`, `OverflowIsBounded` | `Refs` (ids refer to what the phase needs), `Serial` (a caller is on a chain, once, exactly in the phases of a turn; those past "queued" at its head), `Maps` (pooled sessions are live, spawning ones start, both maps injective and disjoint: what makes a key's session unreachable from another), `Holders`, `Waiters`, `Handles` (who has a session and why), `GateAges` (no gate is younger than its caller's attempt), `NoLeakedSession`. `SingleSession` follows by "a set whose members are all equal has at most one". `OverflowIsBounded` counts: a session beyond the cap is `Awaited` by a caller of its own or was busy when the cap was looked at, so an injection into the callers bounds their number. |
| `TurnEngineProofs` | `TypesHold`, `IndexIsExact`, `StopFindsTheFirstAttempt`, `RepairsComeFirst`, `StopLeavesTheQueuedAttempt` | `Placed` and `Serial` (where a turn is and what it has by then; one per chain past "queued"), `Counted` (attempts and repairs), `Marks` (what `cancelled`, the snapshot and a grace timer say of the record), `IndexAgrees` (the index holds the first attempts and the runs that threw, and nothing of a retry), `Hooked` (an attempt that is open has its own hook), `Left` (where a Stop found the turn, and what can therefore still come of it), `Repairs` (a stopped turn's repair has a number, and whoever comes after it on the chain waits for at least that number: the barrier's argument). |
| | `RegistryTypes`, `LiveWorkersAreSpared`, `EndedIsReleased` | an entry's watchers and timers by its status, and what the registry knows of a worker whose pid it has. |
| `CronSchedulerProofs` | `SchedulerTypes`, `CatchUpAndTicksAreApart`, `RecordedIsNotCaughtUp`, `OverlappingTicksFireOnce`, `OneShotsAreFiredOverOnlyInFlight` | `Placed` (what an activation of `tick` holds in each phase), `Started` (there is a minute of the start: catch-up is about earlier ones, ticks about later ones), `Remembered` (what was begun in this minute is in `firedThisMinute`, or in a timer or a turn), `Flown` (a one-shot that a tick of this process fired is in flight or no longer active), `Kept` (the cache has no task the file has not, unless the file changed since). |
| | `WordsAreKept` | nothing changes after a request is parsed, so the work is in the arithmetic, for any bound of the values: a divisor of the hour or of the day keeps the multiples of the period at every change of hour and day (`MinutesAreKept`, `HoursAreKept`), the divisor the parser takes is the nearest one (`NearestIsOne`, by the least-element fact for sets of numbers), the jitter is shorter than the period, and a one-shot matches one minute of the year, the next one. |
| `ConversationFeedProofs` | `FeedTyping`, `ReplayMeetsTheLiveTail`, `DroppedFramesAreReported`, `TurnsOfADeviceDoNotMix`, `FeedRefinement` | `CursorInv` (sidecar, log and cache of a conversation agree, whether its state is in memory or on disk), `WireInv` (where a device's cursor, what is unread on its connection and the newest number stand to each other: what a subscription still owes), `TurnInv` (a turn, its owner's single flight and the frames it dropped). The refinement: each step publishes one number above all others, delivers one entry or stutters; a replay in order exists because a least counterexample does, which the library's facts about well-founded orders give without an induction. |
| `RunFramesProofs` | `FramesTyping`, `FramesComeOnce`, `ToldIsServed` (`ToldHaveAll` and `SweptAreTold`) | `RunIsHeld` (record, handle, turn and phases of subscriptions belong together), `NumbersRunOn` and `FramesAreOnce` (until the tail the numbers are those of the lines; each kind of frame in its time), `ReadersFollow`, the heart of it: for each client, what it has lies below its cursor, what is on its way between that and the subscription's `last`, in order, and no *peak* of the log, a line with a higher number than all before it, is left out of either; `ListenersHear`, `DuesArePeaks` and `DuesAreMet` (what is owed at the end are peaks; one more reading of the file has them all). A reader skips what does not rise, so peaks are all it can be promised. |
| `ApprovalGateProofs` | `TheTrailIsWhatWasTold`, `TheListIsWhatWaits`, `ConsentIsKept` | `Gated` (gate, timer, parked handler and turn belong together), `Recorded` (the record is of the run's last call and pending exactly while it is parked), `Audited` (an audit line is about a call that was told the same and is parked no more); for what is let through without asking, `Grants`: every policy and every tool in a turn's cache goes back to a line of the trail that said "forever", or "session" in this conversation. Each step may only add to the trail, so it answers for what it grants alone. For the refinement, `Named` (there is a name for every call, and a handler about to go on was told what a user said): each step is one of `ToolConsent` or moves neither calls nor trail; that a question is never asked beside another is `Gated` once more, that what is told is noted is `Grants`. `ApprovalAssumption` says that a run has one conversation. |
| `ServicesProofs` | `LeaseIsUnique` | until a steal hits another lock: `Owned` (who is inside owns the directory), `Aged` (only a dead maker's lock is old), `Copied` (what was read inside is what the file says), `Leased` (who runs a scheduler has the lease), edits counted once. |
| | `StopFindsTheLoop` | `OffOrOn` (a loop is in `activeLoops` under its conversation as long as it is on), `OneEach` (one loop per conversation, whose run is the current one), `Timely` (a loop that has looked at the goal creates one run before it looks again: at most one late turn). |
| | `RequestsSeeWhatWasThere` | `Looked` (a request remembers no more than there is), `Loaded` (what the load has passed by is as it stands, unless written since or new; what is new was not there under the stamp of the load), `Good` (the snapshot serves those who saw the directory it is kept under, and the next one as long as that is the directory). |
| | `SearchTyping`, `IndexIsCurrent` | `ManifestHolds` (outside the gaps, a source that is as the manifest has it is so in the rows, and one whose time is the newest on record is as the manifest has it: why the test by the newest stamp suffices), and the same carried through a build: `CutoffHolds` (what an update does not read lies before its cutoff), `CollectedHolds` (what was read is what the file says or else not what the signature says), `SignatureHolds` and `RowsHold` (between transaction and manifest). The newest stamp is the maximum of a set of any size; that it exists is shown by the library's least-element facts. |
| | `LedgerTyping`, `OwnersAreRight` | `TurnsAreAlone` (one turn at most is at work on an adapter), `SnapshotsAreTurns` (what lies behind the snapshot of a turn whose sweep is open is its own, or was noted in `beside`), `ClaimsAreTrue` (so is what a record claims). |
| | `PermissionsTyping`, `CallsAreJudged` | `ParsesAreOfFiles` (a cached parse under the file's present time is of the file's present text), `WindowsCount` (the counters are what was let through); the verdict itself is a lemma: the order in which `Evaluate` asks its four sources finds the first line that speaks of the tool. |
| `TranscriptProofs` | `TimesTyped`, `TimesAreKept` | `TimesShape` (a line of a message has a time, a turn that is telling has stamped) and, until a load strays, `TimesKept`: what first reached the disk is what the disk says now, through append, torn line, compaction and migration; the map in memory has every time the disk has, and so has the map of a turn's end, whose new stamps are of messages the disk has no time of. |
| | `CoalescerTypes`, `ChunksComeOnce` | `Bucket` (one entry at most waits for each key, none once disposed) and `Told` (every chunk is in a frame of its key; of texts, those that left and those that wait are those that came; of a tool call, their numbers rise; only a snapshot that was replaced is missing). Chunks are collected over a sequence, which is taken apart at the place that changes. |
| | `ChatTyped`, `StoriesAgree` | while the turn is open, the body's messages are those on the wire followed by the text held back (`SameMessages`), and the stop and usage that wait for the end are those the body will name (`SameEnds`); a join changes the last message only. Needs `Expected`: a session does not resume a text of an earlier step. |
| | `SplitterTyped`, `CutsAreHidden` | `Fits`: the text falls into p, up to the end of the last block handed over, and r behind it; what was let through of r and what is pending make up r; `Known`: p splits alike whatever follows, so splitting piece by piece is splitting at once; `Clear`: no tag can begin in what was let through, whatever comes. What `Split` computes is a function defined recursively over the rest of the text; that it exists, and its equation, are proved from the least number at which it would fail. |

The theorems assume what the modules assume of their constants: sizes are
natural numbers, a run has one conversation, the run's own numbers stay below
900000, a schedule's minutes are minutes of a day and there are two days at
least, there is a message to stamp, keys of texts and of tool calls are told
apart, tags are non-empty sequences of symbols, and, for `OverflowIsBounded`,
that finitely many callers are in flight.

Of the safety properties the passing runs check, those of `pool`, `turns`, `cron`
and `feed`, with the refinement, are all theorems; of `services`,
`EachFrameOnce`, `FollowersHaveAll`, `VerdictsHold`, `ListedIffParked`,
`OneScheduler`, `StopReachesTheTurn`, `RequestsSeeWrites`, `FreshIsCurrent`,
`AttributionHolds`, `RulesDecide`, `SchedulesAreAsNoted` and `TimesStay`; of
`services_live`, `LiveWorkerIsNotWrittenOff` and the refinement
`ImplementsConsent`. Of `ClientsSeeTheStory`, three of the four modules it speaks
for are theorems: `SameStory` (`StoriesAgree`), `EachChunkOnce`
(`ChunksComeOnce`) and `CutsDoNotShow` (`CutsAreHidden`). The other theorems are
types, and what an ended subagent holds.

A proof that failed changed a model once: the invariant of `SearchIndex` is not
preserved when two states come in with older times, and indeed `FreshIsCurrent`
was false then, beyond the bound of the run. The second state may have the very
time and size that a manifest or a build in flight has down already; the code
compares nothing else. It is a gap of the code, `ComesBack`, and is now among
`gaps`.

Only model-checked:

* all liveness: TLAPS handles neither fairness nor `ENABLED`;
* the part of `ClientsSeeTheStory` about `MessageCache`: that no two files of
  different lines have their lines end at the same bytes, on which it rests, is a
  fact about sums over sequences, and is proved by induction over data;
* `TranscriptRepair`, whose repairs compute one sequence from another in passes.
  `CallsAreSettled` makes one exception, `Stale`: with turns on two adapters,
  a prune and a repair can for ever rename files into place that were computed
  before the other's, and undo each other.

No module declares a `RECURSIVE` operator: recursion is by functions on the
naturals or the folds of the community modules. `TypesOK` of `MCServices` is the
conjunction of the services' type invariants; those of the twelve extended
modules are theorems or parts of the invariants above, and so is that of
`ChatResponse`.

## 5. What the models show besides, and what is not modelled

Behaviour a reader of the code may not expect, which no property excludes:

* **Turns.** The first attempt's `finalizeRun` takes the run from the index,
  so during backoff and later attempts Stop finds nothing: `IndexAgrees` and
  `StopReachesAttempt` say so of every retry. A run stopped while it is queued,
  or waits for the barrier, opens, sends and streams an attempt all the same. A
  turn that throws is never finalized: it stays in the index, its followers stay
  live and later messages of the conversation are hidden until the next start.
* **Attribution.** A turn claims every id that is new on disk at its end. What
  another turn of the conversation wrote meanwhile on another adapter (client
  tools, or an eviction under a turn), or a CLI that was cut off and writes on,
  is grouped under it as well; `OwnersAreAuthors` excepts exactly these pairs.
* **Approvals.** A stopped turn leaves its handler parked until the timer; a call
  of a session without an active turn is let through without rules; a record that
  cannot be written is passed over in silence (not modelled).
* **Frames.** Followers are told "done" before the tail is logged; a reader that
  meets the synthesized return first (900001) skips stop reason and usage; a
  graceful shutdown and a turn that is still running number one log twice; a torn
  `run.json` leaves a follower watching. `turn_done` is not always the feed's
  last word.
* **Cron.** A one-shot whose turn spans a minute boundary is fired again by the
  next tick (`OneShotRefiresInFlight` confines it to that), and five minutes
  later marked as missed while its turn runs (`MOBILE_WS_PROTOCOL.md:1794`:
  "Never fired"); catch-up does not look at what is in flight at all; a tick overtaken by one of a
  later minute can repeat a recurring task (`OncePerMinute` therefore ends with
  the minute); a restart within the minute of a firing repeats it; catch-up goes
  on after a stop and fires rows deleted meanwhile. Its comparison with
  `last_fired_at` is a second line: `last_tick_at` moves with every recorded
  firing, unless an old tick that marks a task as missed moves it back.
* **Lock.** A slow stealer removes the lock another has just taken; a lock whose
  owner cannot be read and whose stat fails counts as stale; a dead process's
  lock is stale after 30 s while the claim gives up after 5 s, and
  `startCronScheduler` then has no scheduler and does not try again.
* **Schedules.** The parser's note is never shown; 90m becomes 2h, 300m every
  fifth hour (unevenly), 2d starts over each month, 32d never fires.
* **Transcript.** A turn with client tools, or one whose adapter was evicted, and
  its settlement run beside the turns and repairs of another adapter. Two
  rewriters at once lose each other's updates; two dangling
  ids under one message swap on the second repair; settlement does not drop the
  message cache; refusals without ids in them are not repaired.
* **Caches.** A rename between stat and open can cost one overlapping reader its
  last line; a rewrite that keeps the probed window and grows is taken for an
  append; a list invalidated during a load is put back by it; a directory seen
  between `mkdir` and its file is listed without the conversation until the next
  one is made; overlapping cold loads leave old times in memory; a torn line
  swallows the next; compaction loses an overlapping append (a write cut off
  exactly between a line and its newline is not modelled); a full rebuild reads
  rows before it looks at the files, an incremental one never drops those of a
  deleted conversation.
* **Permissions.** Patching an agent without a file makes one whose default hides
  the global default; the budget per turn starts anew with each attempt; a budget
  of 0 blocks every call, where the comment (`permissions.ts:676`) has it disable
  the limit (so does the model, but the run has budgets of 1 and 2).
* **Shaping.** The coalescer does not keep the order across types that its doc
  promises (nothing in production uses it); when a turn throws, buffered text of
  the answer and of the splitter is dropped; the event stream ignores a dead
  turn's exit code.
* **Subagents, goals.** Silence is terminal after 90 s, against the header
  comment; an exit event that overtakes the footer makes a finished worker fail;
  a command that reads the settings, waits and writes them back undoes a pause;
  a stop between sending and the run's creation cancels no run.

Not modelled, by component in `PROJECT.json`. In short: catalogues and settings
files, the event buses (a broadcast is part of the handler that makes it), the
one-off scan of worker salvage, the Matrix channel, the migrator and the patch
loader; of the modelled ones, wording, logging, the shape of JSON, the start of
the SDK session, authentication, `POST /conversations/{id}/cancel` (which cancels
without the repair and then evicts), token totals, the matching of a tool's input
by a rule, the collector's ages, the stop and usage that the JSON body makes up
when a turn gave none (`chat.ts:829-839`), and a second, half-open connection of
one device. The index has one process that writes it, and its titles and
summaries, read through the cached listing, are taken as up to date. The SDK and the CLI are environments: they
deliver messages, end streams, throw, may ignore an abort, and write the files.

## 6. Plan

What is left, in this order:

1. The REST cancel route as a second way to stop in `TurnEngine`, and the
   eviction after it in `AgentPool`.
2. An abstract specification of the frame log ("a follower sees a prefix, then
   the end") for `RunFrames`, as `OrderedFeed` is for the cursors, and the
   refinement as a theorem.
3. Of `MessageCache`, the part that needs no induction over data: an entry is a
   prefix of some content of the file, as a theorem.
4. Three processes in `CronLock` for TLC, as machines allow.
