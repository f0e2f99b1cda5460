------------------------------ MODULE AgentPool ------------------------------
(***************************************************************************)
(* admin-shim/lib/agent-pool.ts, class AgentPool: the pool of warm SDK     *)
(* sessions, one per (agent, conversation) key, and the turns that use     *)
(* them through runTurnWithHeal.  One action is one stretch of JavaScript  *)
(* between two awaits (or one timer callback), which Node runs without     *)
(* interruption.                                                           *)
(*                                                                         *)
(* A worker is one LettaSessionAdapter object; a caller is one             *)
(* runTurnWithHeal activation.  The spawn promise of a key is identified   *)
(* with the worker it will deliver.  What a turn streams is left out: see  *)
(* TurnEngine for the life of a run.                                       *)
(***************************************************************************)
EXTENDS Naturals, FiniteSets, Sequences

CONSTANTS
  Keys,         \* pool keys, agent::conversation
  Callers,      \* concurrent runTurnWithHeal activations
  Workers,      \* adapter objects, reused once nothing refers to them
  MaxWorkers,   \* SHIM_POOL_MAX
  MaxAttempts,  \* SHIM_LLM_RETRY_MAX
  None          \* null

ASSUME PoolAssumption ==
  /\ MaxWorkers \in Nat \ {0}
  /\ MaxAttempts \in Nat \ {0}
  /\ None \notin Keys \cup Callers \cup Workers

\* At any time finitely many turns have been asked for and are not over
ASSUME FiniteCallers == IsFiniteSet(Callers)

VARIABLES
  workers,   \* this.workers: key -> warm worker
  spawning,  \* this.spawning: key -> worker being started
  status,    \* worker -> where its session is in its life
  busy,      \* worker -> caller whose run handle is current, or None
  chain,     \* worker -> its promise chain of turns, oldest first
  staler,    \* worker -> the workers used less recently (lastUsedAt order)
  expired,   \* workers whose lastUsedAt is older than IDLE_EVICT_MS
  pc,        \* caller -> where its turn is
  key,       \* caller -> the key it asked for
  adapter,   \* caller -> the worker it was given or waits for
  tools,     \* caller -> TRUE when the turn brings tools (private adapter)
  attempt,   \* caller -> LLM attempts made
  cancel,    \* caller -> its cancel grace timer: none, armed or fired
  gates,     \* caller -> the attempt that opened its run's approval gate, or 0
  stopped    \* stopAll() has run

poolVars == <<workers, spawning, status, busy, chain, staler, expired, stopped>>
callVars == <<pc, key, adapter, tools, attempt, cancel>>
vars == <<workers, spawning, status, busy, chain, staler, expired, stopped,
          pc, key, adapter, tools, attempt, cancel, gates>>

(* "dead": not started yet, its start() threw, or closed.                   *)
Statuses == {"dead", "starting", "live"}

PCs == {"idle", "preflight", "get", "waiting", "handed", "queued", "opening",
        "running", "finalizing", "backoff", "healing"}

TypeOK ==
  /\ workers  \in [Keys -> Workers \cup {None}]
  /\ spawning \in [Keys -> Workers \cup {None}]
  /\ status   \in [Workers -> Statuses]
  /\ busy     \in [Workers -> Callers \cup {None}]
  /\ chain    \in [Workers -> Seq(Callers)]
  /\ staler   \in [Workers -> SUBSET Workers]
  /\ expired  \in SUBSET Workers
  /\ pc       \in [Callers -> PCs]
  /\ key      \in [Callers -> Keys \cup {None}]
  /\ adapter  \in [Callers -> Workers \cup {None}]
  /\ tools    \in [Callers -> BOOLEAN]
  /\ attempt  \in [Callers -> Nat]
  /\ cancel   \in [Callers -> {"none", "armed", "fired"}]
  /\ gates    \in [Callers -> Nat]
  /\ stopped  \in BOOLEAN

Init ==
  /\ workers  = [k \in Keys |-> None]
  /\ spawning = [k \in Keys |-> None]
  /\ status   = [w \in Workers |-> "dead"]
  /\ busy     = [w \in Workers |-> None]
  /\ chain    = [w \in Workers |-> <<>>]
  /\ staler   = [w \in Workers |-> {}]
  /\ expired  = {}
  /\ pc       = [c \in Callers |-> "idle"]
  /\ key      = [c \in Callers |-> None]
  /\ adapter  = [c \in Callers |-> None]
  /\ tools    = [c \in Callers |-> FALSE]
  /\ attempt  = [c \in Callers |-> 0]
  /\ cancel   = [c \in Callers |-> "none"]
  /\ gates    = [c \in Callers |-> 0]
  /\ stopped  = FALSE

-----------------------------------------------------------------------------
(* Reading the pool *)

Pooled == {workers[k] : k \in Keys} \ {None}

At(k) == {workers[k]} \ {None}

Dead(w) == status[w] = "dead"

(* get() returns the warm worker of the key unless close() marked it dead.  *)
Warm(k) == workers[k] # None /\ ~ Dead(workers[k])

(* The getter `busy`: a run handle is current.  It turns true only when the *)
(* turn has opened its run and read the transcript.                         *)
IsBusy(w) == busy[w] # None

(* An adapter object no map, chain or turn refers to any more.              *)
Unreferenced(w) ==
  /\ Dead(w)
  /\ chain[w] = <<>>
  /\ \A k \in Keys : workers[k] # w /\ spawning[k] # w
  /\ \A c \in Callers : adapter[c] # w

-----------------------------------------------------------------------------
(* Closing workers, in each of the ways the pool does it *)

Removed(E) == [k \in Keys |-> IF workers[k] \in E THEN None ELSE workers[k]]

(* Mutants: a drop that does not close; one that leaves the gates.          *)
ClosedNever(E) == status
UngatedNever(E) == gates

Closed(E) == [w \in Workers |-> IF w \in E THEN "dead" ELSE status[w]]

(* rejectApprovalGate(worker.activeRunId, "worker_evicted") for each.       *)
Ungated(E) ==
  [c \in Callers |-> IF \E w \in E : busy[w] = c THEN 0 ELSE gates[c]]

(* Mutants: the cap loop gives up at once; the sweep forgets the busy check.*)
CapVictimsNone(k) == {{}}
IdleVictimsBusyToo == {w \in Pooled : w \in expired}

(* `while (size >= MAX)`: the sets of workers the cap loop of one spawn may *)
(* close.  It goes on, stalest first, until a slot is free or only busy     *)
(* workers are left.                                                        *)
CapVictims(k) ==
  LET size   == Cardinality(Pooled \ At(k))
      idle   == {w \in Pooled \ At(k) : ~ IsBusy(w)}
      excess == IF size >= MaxWorkers THEN size + 1 - MaxWorkers ELSE 0
      n      == IF excess <= Cardinality(idle) THEN excess ELSE Cardinality(idle)
  IN  {E \in SUBSET idle : /\ Cardinality(E) = n
                           /\ \A v \in E : staler[v] \cap idle \subseteq E}

(* housekeep(): the workers one sweep closes.                               *)
IdleVictims == {w \in Pooled : w \in expired /\ ~ IsBusy(w)}

(* w becomes the most recently used: lastUsedAt = Date.now().  The order is *)
(* kept among the workers the maps hold, the only ones it is read for.      *)
Ranked == Pooled \cup ({spawning[k] : k \in Keys} \ {None})

Bumped(w) ==
  [v \in Workers |-> IF v = w THEN Ranked \ {w} ELSE staler[v] \ {w}]

Unranked(E) ==
  [v \in Workers |-> IF v \in E THEN {} ELSE staler[v] \ E]

-----------------------------------------------------------------------------
(* The caller's activation record *)

Forget(C) ==
  /\ key'     = [c \in Callers |-> IF c \in C THEN None ELSE key[c]]
  /\ adapter' = [c \in Callers |-> IF c \in C THEN None ELSE adapter[c]]
  /\ tools'   = [c \in Callers |-> IF c \in C THEN FALSE ELSE tools[c]]
  /\ attempt' = [c \in Callers |-> IF c \in C THEN 0 ELSE attempt[c]]
  /\ cancel'  = [c \in Callers |-> IF c \in C THEN "none" ELSE cancel[c]]

(* runTurnWithHeal returns or throws in the callers C.  A grace timer that  *)
(* is still armed keeps its closure.                                        *)
Return(C) ==
  /\ pc' = [c \in Callers |-> IF c \in C THEN "idle" ELSE pc[c]]
  /\ Forget({c \in C : cancel[c] # "armed"})

-----------------------------------------------------------------------------
(* runTurnWithHeal, up to the turn *)

(* A caller identifier is taken again once its last run left neither a      *)
(* grace timer nor a gate behind.                                           *)
Forgotten(c) == cancel[c] # "armed" /\ gates[c] = 0

(* A send arrives (shutdown closes the server together with the pool).  t   *)
(* is TRUE for a turn that brings goal-control tools and therefore runs on  *)
(* an adapter of its own.                                                   *)
RequestTurn(c, k, t) ==
  /\ pc[c] = "idle"
  /\ Forgotten(c)
  /\ ~ stopped
  /\ pc' = [pc EXCEPT ![c] = "preflight"]
  /\ key' = [key EXCEPT ![c] = k]
  /\ tools' = [tools EXCEPT ![c] = t]
  /\ attempt' = [attempt EXCEPT ![c] = 1]
  /\ UNCHANGED <<poolVars, adapter, cancel, gates>>

(* Take the workers E out of the pool, reject their gates, close them.      *)
Drop(E) ==
  /\ workers' = Removed(E)
  /\ status' = Closed(E)
  /\ gates' = Ungated(E)
  /\ expired' = expired \ E
  /\ staler' = Unranked(E)

(* evict(): drop and close whatever is warm under the key, busy or not.     *)
(* A spawn in flight for the key is left alone.                             *)
Evict(k) == Drop(At(k))

(* The transcript shows consecutive user messages: evict, then repair it.   *)
PreflightHeal(c) ==
  /\ pc[c] = "preflight"
  /\ Evict(key[c])
  /\ pc' = [pc EXCEPT ![c] = "get"]
  /\ UNCHANGED <<spawning, busy, chain, stopped,
                 key, adapter, tools, attempt, cancel>>

(* get(): the worker is warm.                                               *)
GetWarm(c) ==
  /\ pc[c] \in {"preflight", "get"}
  /\ ~ tools[c]
  /\ Warm(key[c])
  /\ adapter' = [adapter EXCEPT ![c] = workers[key[c]]]
  /\ pc' = [pc EXCEPT ![c] = "handed"]
  /\ UNCHANGED <<poolVars, key, tools, attempt, cancel, gates>>

(* get(): somebody is already starting a worker for the key.                *)
Coalesce(c) ==
  /\ pc[c] \in {"preflight", "get"}
  /\ ~ tools[c]
  /\ ~ Warm(key[c])
  /\ spawning[key[c]] # None
  /\ adapter' = [adapter EXCEPT ![c] = spawning[key[c]]]
  /\ pc' = [pc EXCEPT ![c] = "waiting"]
  /\ workers' = Removed(At(key[c]))
  /\ UNCHANGED <<spawning, status, busy, chain, staler, expired, stopped,
                 key, tools, attempt, cancel, gates>>

(* get(): nothing warm and nothing in flight.  The cap loop and the call of *)
(* the factory run in one go; start() is then awaited.                      *)
MaySpawnTwice(k) == ~ Warm(k)  \* mutant: spawns in flight are not looked up

MaySpawn(k) == ~ Warm(k) /\ spawning[k] = None

Spawn(c, w) ==
  /\ pc[c] \in {"preflight", "get"}
  /\ ~ tools[c]
  /\ MaySpawn(key[c])
  /\ Unreferenced(w)
  /\ \E E \in CapVictims(key[c]) :
       /\ workers' = Removed(E \cup At(key[c]))
       /\ status' = [Closed(E) EXCEPT ![w] = "starting"]
       /\ gates' = Ungated(E)
       /\ expired' = expired \ (E \cup {w})
       /\ staler' = [Unranked(E) EXCEPT ![w] = Ranked \ E]
  /\ spawning' = [spawning EXCEPT ![key[c]] = w]
  /\ adapter' = [adapter EXCEPT ![c] = w]
  /\ pc' = [pc EXCEPT ![c] = "waiting"]
  /\ UNCHANGED <<busy, chain, stopped, key, tools, attempt, cancel>>

(* A turn with tools starts an adapter the pool never sees.                 *)
SpawnPrivate(c, w) ==
  /\ pc[c] \in {"preflight", "get"}
  /\ tools[c]
  /\ Unreferenced(w)
  /\ status' = [status EXCEPT ![w] = "starting"]
  /\ adapter' = [adapter EXCEPT ![c] = w]
  /\ pc' = [pc EXCEPT ![c] = "waiting"]
  /\ UNCHANGED <<workers, spawning, busy, chain, staler, expired, stopped, key,
                 tools, attempt, cancel, gates>>

WaitingFor(w) == {c \in Callers : pc[c] = "waiting" /\ adapter[c] = w}

(* start() resolved: publish the worker and wake every coalesced caller.    *)
SpawnOk(w) ==
  /\ status[w] = "starting"
  /\ status' = [status EXCEPT ![w] = "live"]
  /\ workers' = [k \in Keys |-> IF spawning[k] = w THEN w ELSE workers[k]]
  /\ spawning' = [k \in Keys |-> IF spawning[k] = w THEN None ELSE spawning[k]]
  /\ pc' = [c \in Callers |-> IF c \in WaitingFor(w) THEN "handed" ELSE pc[c]]
  /\ UNCHANGED <<busy, chain, staler, expired, stopped, key, adapter, tools,
                 attempt, cancel, gates>>

(* start() threw: every caller that awaits the promise fails with it.       *)
Rejected(w) == WaitingFor(w)

SpawnFails(w) ==
  /\ status[w] = "starting"
  /\ status' = [status EXCEPT ![w] = "dead"]
  /\ spawning' = [k \in Keys |-> IF spawning[k] = w THEN None ELSE spawning[k]]
  /\ Return(Rejected(w))
  /\ staler' = Unranked({w})
  /\ UNCHANGED <<workers, busy, chain, expired, stopped, gates>>

-----------------------------------------------------------------------------
(* The turn on its worker: runTurn and _runTurnInner *)

(* runTurn() appends the turn to the worker's promise chain.                *)
Enqueue(c) ==
  /\ pc[c] = "handed"
  /\ chain' = [chain EXCEPT ![adapter[c]] = Append(@, c)]
  /\ pc' = [pc EXCEPT ![c] = "queued"]
  /\ UNCHANGED <<workers, spawning, status, busy, staler, expired, stopped,
                 key, adapter, tools, attempt, cancel, gates>>

AtHeadAlways(c) == TRUE  \* mutant: turns are not chained

AtHead(c) == chain[adapter[c]] # <<>> /\ Head(chain[adapter[c]]) = c

(* The chain recovers from a failed turn, so the next one can start.        *)
Dequeued(w) == [chain EXCEPT ![w] = Tail(@)]

(* The caller is done with its worker; a private adapter is closed.         *)
Release(c) ==
  /\ Return({c})
  /\ status' = IF tools[c] THEN Closed({adapter[c]}) ELSE status

(* Its turn has come on a session closed meanwhile ("runTurn on dead        *)
(* adapter"), or its run cannot be opened (createRun writes to the disk):   *)
(* the caller gets an error.                                                *)
TurnThrows(c) ==
  /\ pc[c] = "opening" \/ (pc[c] = "queued" /\ Dead(adapter[c]))
  /\ AtHead(c)
  /\ chain' = Dequeued(adapter[c])
  /\ Release(c)
  /\ UNCHANGED <<workers, spawning, busy, staler, expired, stopped, gates>>

(* The session is alive: the run is opened, the transcript read.            *)
BeginTurn(c) ==
  /\ pc[c] = "queued"
  /\ AtHead(c)
  /\ ~ Dead(adapter[c])
  /\ pc' = [pc EXCEPT ![c] = "opening"]
  /\ UNCHANGED <<poolVars, key, adapter, tools, attempt, cancel, gates>>

(* currentRunHandle is set; the input is sent and the stream is read.       *)
TurnRuns(c) ==
  /\ pc[c] = "opening"
  /\ busy' = [busy EXCEPT ![adapter[c]] = c]
  /\ pc' = [pc EXCEPT ![c] = "running"]
  /\ UNCHANGED <<workers, spawning, status, chain, staler, expired, stopped,
                 key, adapter, tools, attempt, cancel, gates>>

(* lastUsedAt of the worker of c is stamped; for one that is in no map it   *)
(* does not matter.                                                         *)
Stamp(c) ==
  IF adapter[c] \in Ranked
  THEN staler' = Bumped(adapter[c]) /\ expired' = expired \ {adapter[c]}
  ELSE UNCHANGED <<staler, expired>>

(* A frame, or the keepalive of a parked approval, stamps lastUsedAt.       *)
Heartbeat(c) ==
  /\ pc[c] = "running"
  /\ Stamp(c)
  /\ UNCHANGED <<workers, spawning, status, busy, chain, stopped, callVars, gates>>

(* canUseTool parks the run on an approval gate; a decision takes it off.   *)
OpenGate(c) ==
  /\ pc[c] = "running"
  /\ status[adapter[c]] = "live"
  /\ gates' = [gates EXCEPT ![c] = attempt[c]]
  /\ UNCHANGED <<poolVars, callVars>>

CloseGate(c) ==
  /\ gates[c] # 0
  /\ gates' = [gates EXCEPT ![c] = 0]
  /\ UNCHANGED <<poolVars, callVars>>

(* The stream loop ends (result, end of stream, timeout or cancellation)    *)
(* and its finally block clears the run handle; the lifecycle bookkeeping   *)
(* that follows still holds the chain.                                      *)
StreamEnds(c) ==
  /\ pc[c] = "running"
  /\ busy' = [busy EXCEPT ![adapter[c]] = None]
  /\ Stamp(c)
  /\ pc' = [pc EXCEPT ![c] = "finalizing"]
  /\ UNCHANGED <<workers, spawning, status, chain, stopped,
                 key, adapter, tools, attempt, cancel, gates>>

(* The result is returned to the caller, who has nothing more to do ...     *)
TurnDone(c) ==
  /\ pc[c] = "finalizing"
  /\ chain' = Dequeued(adapter[c])
  /\ Release(c)
  /\ UNCHANGED <<workers, spawning, busy, staler, expired, stopped, gates>>

(* ... or sleeps before another attempt on the same adapter ...             *)
MayRetry(c) == cancel[c] = "none" /\ attempt[c] < MaxAttempts

TurnBacksOff(c) ==
  /\ pc[c] = "finalizing"
  /\ MayRetry(c)
  /\ chain' = Dequeued(adapter[c])
  /\ attempt' = [attempt EXCEPT ![c] = @ + 1]
  /\ pc' = [pc EXCEPT ![c] = "backoff"]
  /\ UNCHANGED <<workers, spawning, status, busy, staler, expired, stopped,
                 key, adapter, tools, cancel, gates>>

RetryTurn(c) ==
  /\ pc[c] = "backoff"
  /\ chain' = [chain EXCEPT ![adapter[c]] = Append(@, c)]
  /\ pc' = [pc EXCEPT ![c] = "queued"]
  /\ UNCHANGED <<workers, spawning, status, busy, staler, expired, stopped,
                 key, adapter, tools, attempt, cancel, gates>>

(* ... or finds that the transcript is corrupt and must be repaired.        *)
TurnNeedsHeal(c) ==
  /\ pc[c] = "finalizing"
  /\ chain' = Dequeued(adapter[c])
  /\ status' = IF tools[c] THEN Closed({adapter[c]}) ELSE status
  /\ pc' = [pc EXCEPT ![c] = "healing"]
  /\ UNCHANGED <<workers, spawning, busy, staler, expired, stopped,
                 key, adapter, tools, attempt, cancel, gates>>

HealEvict(c) ==
  /\ pc[c] = "healing"
  /\ Evict(key[c])
  /\ Return({c})
  /\ UNCHANGED <<spawning, busy, chain, stopped>>

(* cancelSession(): the stream loop is woken and the grace timer armed.     *)
Cancel(c) ==
  /\ pc[c] \in {"opening", "running"}
  /\ cancel[c] = "none"
  /\ cancel' = [cancel EXCEPT ![c] = "armed"]
  /\ UNCHANGED <<poolVars, pc, key, adapter, tools, attempt, gates>>

(* The grace timer: forceEvict(key), then close() of the turn's own         *)
(* adapter.  The cancelled turn may be over by now.                         *)
GraceTargets(c) == At(key[c]) \cup {adapter[c]}

GraceExpires(c) ==
  /\ cancel[c] = "armed"
  /\ IF pc[c] = "idle"
     THEN Forget({c})
     ELSE /\ cancel' = [cancel EXCEPT ![c] = "fired"]
          /\ UNCHANGED <<key, adapter, tools, attempt>>
  /\ workers' = Removed(At(key[c]))
  /\ status' = Closed(GraceTargets(c))
  /\ gates' = Ungated(At(key[c]))
  /\ expired' = expired \ GraceTargets(c)
  /\ staler' = Unranked(GraceTargets(c))
  /\ UNCHANGED <<spawning, busy, chain, stopped, pc>>

-----------------------------------------------------------------------------
(* The pool's own timers and the shutdown *)

(* IDLE_EVICT_MS passes for a worker; the stalest reach it first.           *)
WorkerExpires(w) ==
  /\ w \in Pooled \ expired
  /\ staler[w] \cap Pooled \subseteq expired
  /\ expired' = expired \cup {w}
  /\ UNCHANGED <<workers, spawning, status, busy, chain, staler, stopped,
                 callVars, gates>>

(* touch(): an inbound WebSocket frame for the conversation.                *)
TouchKey(k) ==
  /\ Warm(k)
  /\ staler' = Bumped(workers[k])
  /\ expired' = expired \ {workers[k]}
  /\ UNCHANGED <<workers, spawning, status, busy, chain, stopped, callVars, gates>>

(* Dead entries are only forgotten; idle workers are dropped.               *)
SweptOut == IdleVictims \cup {w \in Pooled : Dead(w)}

Housekeep ==
  /\ ~ stopped
  /\ workers' = Removed(SweptOut)
  /\ status' = Closed(IdleVictims)
  /\ gates' = Ungated(IdleVictims)
  /\ expired' = expired \ SweptOut
  /\ staler' = Unranked(SweptOut)
  /\ UNCHANGED <<spawning, busy, chain, stopped, callVars>>

(* gracefulShutdown(): close what the pool holds; spawns in flight land.    *)
StopAll ==
  /\ ~ stopped
  /\ stopped' = TRUE
  /\ Drop(Pooled)
  /\ UNCHANGED <<spawning, busy, chain, callVars>>

(* server.close() exits the process.                                        *)
Exited ==
  /\ stopped
  /\ \A c \in Callers : pc[c] = "idle"
  /\ UNCHANGED vars

-----------------------------------------------------------------------------
(* What a caller's turn does next, whatever it is                           *)
TurnStep(c) ==
  \/ GetWarm(c) \/ Coalesce(c) \/ Enqueue(c)
  \/ \E w \in Workers : Spawn(c, w) \/ SpawnPrivate(c, w)
  \/ TurnThrows(c) \/ BeginTurn(c) \/ TurnRuns(c) \/ StreamEnds(c)
  \/ TurnDone(c) \/ TurnBacksOff(c) \/ RetryTurn(c)
  \/ TurnNeedsHeal(c) \/ HealEvict(c)

Next ==
  \/ \E c \in Callers :
       \/ \E k \in Keys, t \in BOOLEAN : RequestTurn(c, k, t)
       \/ TurnStep(c)
       \/ PreflightHeal(c) \/ Heartbeat(c) \/ OpenGate(c) \/ CloseGate(c)
       \/ Cancel(c) \/ GraceExpires(c)
  \/ \E w \in Workers : SpawnOk(w) \/ SpawnFails(w) \/ WorkerExpires(w)
  \/ \E k \in Keys : TouchKey(k)
  \/ Housekeep
  \/ StopAll
  \/ Exited

Spec == Init /\ [][Next]_vars

-----------------------------------------------------------------------------
(* Properties *)

(* Every session the pool started is still reachable: by the spawn map      *)
(* while it starts, then by the pool itself or by the private turn that     *)
(* owns it.  A session nothing reaches is a letta subprocess nobody will    *)
(* ever close.                                                              *)
PrivateOwner(c, w) == tools[c] /\ adapter[c] = w /\ pc[c] \notin {"idle", "healing"}

NoLeakedSession ==
  \A w \in Workers :
    /\ status[w] = "starting" =>
         \/ \E k \in Keys : spawning[k] = w
         \/ \E c \in Callers : PrivateOwner(c, w)
    /\ status[w] = "live" =>
         \/ w \in Pooled
         \/ \E c \in Callers : PrivateOwner(c, w)

(* One conversation has one session at a time outside the private ones,     *)
(* counting the one being started and those its callers still use: two      *)
(* would both append to its transcript.  (get(), agent-pool.ts:627-715.)    *)
SessionsOf(k) ==
  {w \in Workers :
     /\ ~ Dead(w)
     /\ \/ w \in {workers[k], spawning[k]}
        \/ \E c \in Callers : adapter[c] = w /\ key[c] = k /\ ~ tools[c]}

OneSessionPerKey ==
  /\ \A k \in Keys : Cardinality(SessionsOf(k)) <= 1
  /\ \A k, l \in Keys : k # l => SessionsOf(k) \cap SessionsOf(l) = {}

(* The steps that close workers to save room: the cap loop and the sweep.   *)
Reclaim == Housekeep \/ \E c \in Callers, w \in Workers : Spawn(c, w)

(* The cap and the idle sweep never take the session from under a turn that *)
(* is streaming (agent-pool.ts:647-663).                                    *)
StreamingNotReclaimed ==
  [][Reclaim =>
       \A c \in Callers :
         pc[c] = "running" => status'[adapter[c]] = status[adapter[c]]]_vars

(* A turn parked on an approval whose pooled session was closed is not left *)
(* to wait: whoever closed the session rejected the gate.  (A gate an       *)
(* earlier attempt of the turn left open is not one it is parked on.)       *)
ParkedTurnHasSession ==
  \A c \in Callers :
    pc[c] = "running" /\ gates[c] = attempt[c] /\ ~ tools[c]
    => status[adapter[c]] = "live"

(* Turns that share a worker run one at a time, and the busy flag of the    *)
(* worker names the one that is streaming.                                  *)
TurnsSerialized ==
  /\ \A c, d \in Callers :
       /\ c # d
       /\ pc[c] \in {"opening", "running", "finalizing"}
       /\ pc[d] \in {"opening", "running", "finalizing"}
       => adapter[c] # adapter[d]
  /\ \A w \in Workers : busy[w] # None => pc[busy[w]] = "running" /\ adapter[busy[w]] = w

(* However many cold keys arrive at once, sessions never exceed the cap by  *)
(* more than the callers that were concurrently in the pool.                *)
OverflowBounded ==
  Cardinality(Ranked) <= MaxWorkers - 1 + Cardinality(Callers)

(* A grace timer closes the session of the turn it was armed for, never one *)
(* that another, uncancelled turn is streaming on.                          *)
CancelHitsOnlyItsTurn ==
  [][\A c, d \in Callers :
       /\ c # d /\ pc[c] = "running" /\ cancel[c] = "none"
       /\ cancel[d] = "armed" /\ cancel'[d] # "armed"
       => status'[adapter[c]] = status[adapter[c]]]_vars
=============================================================================
