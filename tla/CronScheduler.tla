--------------------------- MODULE CronScheduler ---------------------------
(***************************************************************************)
(* The cron scheduler of the shim (cron-scheduler.ts) over the task file   *)
(* crons.json (crons.ts): interval ticks that do not wait for each other,  *)
(* the catch-up after a start, the jitter timers, the cache of active      *)
(* tasks, and whoever else edits the file, through stops, crashes and      *)
(* restarts.                                                               *)
(*                                                                         *)
(* JavaScript runs one continuation at a time: `loop` names the tick in    *)
(* the middle of a stretch without await, and everything of the process    *)
(* waits for it.  So do, in the model, the clock and the edits of the file  *)
(* by others (users of the shim, the bundled CLI).                         *)
(*                                                                         *)
(* Time is counted in minutes, and everything the program does falls       *)
(* inside a minute, never on its first instant.                            *)
(***************************************************************************)
EXTENDS Naturals, FiniteSets

CONSTANTS
  Recurring,    \* tasks with recurring = true
  OneShots,     \* tasks with scheduled_for
  Matches,      \* recurring task -> minutes its cron expression matches
  DueAt,        \* one-shot -> the minute that scheduled_for begins
  Early,        \* one-shot -> minutes its negative jitter brings it forward
  Ticks,        \* ticks that may be under way at once
  Boot,         \* the one of them that also runs the catch-up after a start
  MissedAfter,  \* SHIM_CRON_MISSED_THRESHOLD_MS
  CatchUpCap,   \* SHIM_CRON_CATCHUP_WINDOW_MS
  MaxActive,    \* SHIM_CRON_MAX_ACTIVE_PER_AGENT (the tasks are one agent's)
  Horizon,      \* bound: the last minute
  MaxBoots,     \* bound: starts of the shim
  MaxEdits,     \* bound: edits of the file by others
  None          \* null

Tasks == Recurring \cup OneShots
Minutes == 1 .. Horizon

\* One firing of a task: for a recurring task the minute it is fired for.
Firings == [task : Tasks, for : Nat]

ASSUME CronAssumption ==
  /\ Recurring \cap OneShots = {}
  /\ Matches \in [Recurring -> SUBSET Nat]
  /\ DueAt \in [OneShots -> Nat \ {0}]
  /\ Early \in [OneShots -> Nat]
  /\ \A t \in OneShots : Early[t] < DueAt[t]
  /\ Boot \in Ticks
  /\ MissedAfter \in Nat \ {0}
  /\ CatchUpCap \in Nat
  /\ MaxActive \in Nat
  /\ Horizon \in Nat \ {0}
  /\ MaxBoots \in Nat
  /\ MaxEdits \in Nat
  /\ None \notin Firings

VARIABLES
  jittered,  \* recurring tasks with jitter_offset_ms > 0: a hash of the id
  now,       \* the wall clock
  row,       \* task -> its row in crons.json: status and last_fired_at
  lastTick,  \* last_tick_at in crons.json; 0 is null
  owner,     \* scheduler_owner: the start that wrote it; 0 is null
  boot,      \* starts of the shim so far
  edits,     \* edits of the file by others so far
  phase,     \* the process and its scheduler state
  cache,     \* cachedTasks
  fresh,     \* lastMtime is the mtime of crons.json
  fired,     \* firedThisMinute
  minute,    \* lastMinuteKey
  armed,     \* pendingTimers: firings that wait for their jitter
  flying,    \* firings of jitter timers whose turn runs
  tick,      \* tick -> where it is, what it has still to look at
  loop,      \* the tick that holds the event loop, or None
  begun,     \* history: firings begun since the last start, and by whom
  twice,     \* history: those of them that ticks have begun a second time
  done       \* history: firings whose end is recorded in the file

fileVars == <<row, lastTick, owner>>
inputVars == <<jittered, edits>>
cacheVars == <<cache, fresh>>
history == <<begun, twice, done>>
vars == <<jittered, now, edits, row, lastTick, owner, boot, phase, cache,
          fresh, fired, minute, armed, flying, tick, loop, begun, twice, done>>

Statuses == {"new", "active", "fired", "missed", "cancelled", "gone"}

IdleTick == [pc |-> "idle", at |-> 0, todo |-> {}, firing |-> None]

TypeOK ==
  /\ jittered \subseteq Recurring
  /\ now \in Minutes /\ edits \in 0 .. MaxEdits
  /\ row \in [Tasks -> [status : Statuses, last : 0 .. Horizon]]
  /\ lastTick \in 0 .. Horizon
  /\ owner \in 0 .. MaxBoots /\ boot \in 0 .. MaxBoots
  /\ phase \in {"down", "running", "stopped"}
  /\ cache \subseteq Tasks /\ fresh \in BOOLEAN
  /\ fired \subseteq Tasks /\ minute \in 0 .. Horizon
  /\ armed \subseteq Firings /\ flying \subseteq Firings
  /\ \A w \in Ticks :
       /\ tick[w].pc \in {"idle", "catchup", "catchfire", "loop", "firing"}
       /\ tick[w].at \in 0 .. Horizon
       /\ tick[w].todo \subseteq Firings
       /\ tick[w].firing \in Firings \cup {None}
  /\ loop \in Ticks \cup {None}
  /\ begun \subseteq Firings \X {"catchup", "tick"}
  /\ twice \subseteq Firings /\ done \subseteq Firings

-----------------------------------------------------------------------------
(* The file.                                                               *)

Exists(t) == row[t].status \notin {"new", "gone"}
ActiveTasks == {t \in Tasks : row[t].status = "active"}

\* Mutant: one-shots get the time of their firing, not the status.
FiredStaysActive(t) == [row[t] EXCEPT !.last = now]

\* What the row of a task becomes when its turn is over.
Fired(t) == IF t \in Recurring THEN [row[t] EXCEPT !.last = now]
                               ELSE [status |-> "fired", last |-> now]

\* updateTaskAndTickTime at minute m; a row that is gone is not written.
UpdateRow(t, value, m) ==
  IF Exists(t)
  THEN row' = [row EXCEPT ![t] = value] /\ lastTick' = m
  ELSE UNCHANGED <<row, lastTick>>

\* An edit of the file that the scheduler did not make itself.
Edited ==
  /\ loop = None /\ edits < MaxEdits
  /\ edits' = edits + 1 /\ UNCHANGED jittered
  /\ fresh' = FALSE

Edit(t, value) ==
  /\ Edited
  /\ row' = [row EXCEPT ![t] = value]
  /\ UNCHANGED <<now, lastTick, owner, boot, phase, cache, fired, minute,
                 armed, flying, tick, loop>>

Add(t) ==
  /\ row[t].status = "new"
  /\ Cardinality(ActiveTasks) < MaxActive
  /\ t \in OneShots => DueAt[t] > now + Early[t]
  /\ Edit(t, [status |-> "active", last |-> 0])
  /\ UNCHANGED history

Delete(t) ==
  /\ Exists(t)
  /\ Edit(t, [status |-> "gone", last |-> 0])
  /\ UNCHANGED history

\* PUT or PATCH with "enabled"; enabling is the user's wish to fire it anew.
Disable(t) ==
  /\ Exists(t)
  /\ Edit(t, [row[t] EXCEPT !.status = "cancelled"])
  /\ UNCHANGED history

Enable(t) ==
  /\ Exists(t) /\ row[t].status # "active"
  /\ Edit(t, [row[t] EXCEPT !.status = "active"])
  /\ done' = {f \in done : f.task # t}
  /\ begun' = {b \in begun : b[1].task # t}
  /\ UNCHANGED twice

\* A missing or unreadable file reads as an empty one, without an owner.
FileLost ==
  /\ owner # 0
  /\ Edited
  /\ row' = [t \in Tasks |-> [status |-> IF row[t].status = "new" THEN "new"
                                         ELSE "gone", last |-> 0]]
  /\ lastTick' = 0 /\ owner' = 0
  /\ UNCHANGED <<now, boot, phase, cache, fired, minute, armed, flying, tick,
                 loop, history>>

-----------------------------------------------------------------------------
(* Start, stop and the end of the process.                                 *)

\* Mutant: the window takes in the minute that has begun.
InWindowClosed(m) ==
  lastTick # 0 /\ m > lastTick /\ m + CatchUpCap > now /\ m <= now

\* runCatchUp: minutes after the last tick and within the cap, before this one.
InWindow(m) == lastTick # 0 /\ m > lastTick /\ m + CatchUpCap > now /\ m < now

\* The latest minute of the window a recurring task matches, as a set.
LatestMissed(t) == {m \in Matches[t] :
                      /\ InWindow(m)
                      /\ \A n \in Matches[t] : InWindow(n) => n <= m}

\* last_fired_at is null or before the minute that was missed.
NotYetRun(t, m) == row[t].last < m

\* What catch-up finds when it reads the file, once, right after the claim.
Missed ==
  {[task |-> t, for |-> DueAt[t]] : t \in {o \in OneShots \cap ActiveTasks :
                                             InWindow(DueAt[o])}}
    \cup UNION {{[task |-> t, for |-> m] : m \in {n \in LatestMissed(t) :
                                                    NotYetRun(t, n)}} :
                t \in Recurring \cap ActiveTasks}

\* startCronScheduler up to the first await of runCatchUp.  The owner of the
\* lease, an earlier start, is dead: claimSchedulerLease succeeds.
Start ==
  /\ phase = "down" /\ boot < MaxBoots
  /\ phase' = "running" /\ boot' = boot + 1
  /\ owner' = boot' /\ lastTick' = now
  /\ cache' = {} /\ fresh' = FALSE
  /\ fired' = {} /\ minute' = now
  /\ tick' = [tick EXCEPT ![Boot] = [pc |-> "catchup", at |-> now,
                                     todo |-> Missed, firing |-> None]]
  /\ loop' = Boot
  /\ begun' = {} /\ twice' = {}
  /\ UNCHANGED <<now, inputVars, row, armed, flying, done>>

\* stopCronScheduler: no further tick, no pending timer, the lease is
\* released; what has begun goes on.
StopScheduler ==
  /\ phase' = "stopped"
  /\ armed' = {}
  /\ owner' = IF owner = boot THEN 0 ELSE owner
  /\ fresh' = (fresh /\ owner' = owner)

\* gracefulShutdown
Stop ==
  /\ phase = "running" /\ loop = None
  /\ StopScheduler
  /\ UNCHANGED <<now, inputVars, row, lastTick, boot, cache, fired, minute,
                 flying, tick, loop, history>>

\* A crash at any point, or the end of a shutdown.
Exit ==
  /\ phase # "down" /\ boot < MaxBoots
  /\ phase' = "down"
  /\ armed' = {} /\ flying' = {}
  /\ tick' = [w \in Ticks |-> IdleTick]
  /\ loop' = None
  /\ UNCHANGED <<now, inputVars, fileVars, boot, cacheVars, fired, minute,
                 history>>

-----------------------------------------------------------------------------
(* Firing a task.                                                          *)

\* Mutant: the cached row is trusted.
MayFireCached(t) == phase = "running"

\* doFire: the scheduler runs and the row, read again, is active.
MayFire(t) == phase = "running" /\ t \in ActiveTasks

\* Firing f begins, for a tick (directly or by its timer) or for catch-up.
Begins(f, by) ==
  /\ begun' = begun \cup {<<f, by>>}
  /\ twice' = IF by = "tick" /\ <<f, by>> \in begun THEN twice \cup {f}
                                                    ELSE twice
  /\ UNCHANGED done

\* Its turn is over, well or badly, and its row is written.
Recorded(f) ==
  /\ UpdateRow(f.task, Fired(f.task), now)
  /\ fresh' = FALSE
  /\ done' = IF Exists(f.task) THEN done \cup {f} ELSE done
  /\ UNCHANGED <<begun, twice>>

\* The await on a tick's, or on catch-up's, turn returns.
TurnDone(w) ==
  /\ loop = None
  /\ tick[w].pc \in {"firing", "catchfire"}
  /\ Recorded(tick[w].firing)
  /\ tick' = [tick EXCEPT
       ![w].pc = IF tick[w].pc = "firing" THEN "loop" ELSE "catchup",
       ![w].firing = None]
  /\ loop' = w
  /\ UNCHANGED <<now, inputVars, owner, boot, phase, cache, fired, minute,
                 armed, flying>>

\* The jitter timer's callback: doFire up to the turn.
TimerFires(f) ==
  /\ loop = None /\ f \in armed
  /\ armed' = armed \ {f}
  /\ \/ /\ MayFire(f.task)
        /\ flying' = flying \cup {f}
        /\ Begins(f, "tick")
     \/ /\ ~MayFire(f.task)
        /\ UNCHANGED <<flying, history>>
  /\ UNCHANGED <<now, inputVars, fileVars, boot, phase, cacheVars, fired,
                 minute, tick, loop>>

TimerTurnDone(f) ==
  /\ loop = None /\ f \in flying
  /\ flying' = flying \ {f}
  /\ Recorded(f)
  /\ UNCHANGED <<now, inputVars, owner, boot, phase, cache, fired, minute,
                 armed, tick, loop>>

CatchUpFires(f) ==
  /\ loop = Boot /\ tick[Boot].pc = "catchup" /\ f \in tick[Boot].todo
  /\ tick' = [tick EXCEPT ![Boot].pc = "catchfire", ![Boot].firing = f,
                          ![Boot].todo = @ \ {f}]
  /\ loop' = None
  /\ Begins(f, "catchup")
  /\ UNCHANGED <<now, inputVars, fileVars, boot, phase, cacheVars, fired,
                 minute, armed, flying>>

-----------------------------------------------------------------------------
(* A tick.                                                                 *)

\* Mutant: the tick leaves the refresh to the watcher.
RefreshedByWatcher == cache

\* refreshTaskCache: nothing is read while the mtime is the one remembered.
Refreshed == IF fresh THEN cache ELSE ActiveTasks

\* Mutant: every tick starts with an empty set.
FiredNowForgets == {}

\* firedThisMinute, emptied when a tick opens another minute.
FiredNow == IF minute = now THEN fired ELSE {}

\* The head of tick(): the lease, the minute, the cache.
OpenTick(w) ==
  \/ /\ owner # boot
     /\ StopScheduler
     /\ tick' = [tick EXCEPT ![w] = IdleTick]
     /\ loop' = None
     /\ UNCHANGED <<cache, fired, minute>>
  \/ /\ owner = boot
     /\ fired' = FiredNow /\ minute' = now
     /\ cache' = Refreshed /\ fresh' = TRUE
     /\ tick' = [tick EXCEPT ![w] =
          [pc |-> "loop", at |-> now, firing |-> None,
           todo |-> {[task |-> t, for |-> IF t \in OneShots THEN DueAt[t]
                                                            ELSE now] :
                     t \in cache'}]]
     /\ loop' = w
     /\ UNCHANGED <<owner, phase, armed>>

\* setInterval's callback; the previous tick may still be awaiting a turn.
IntervalTick(w) ==
  /\ phase = "running" /\ loop = None /\ tick[w].pc = "idle"
  /\ OpenTick(w)
  /\ UNCHANGED <<now, inputVars, row, lastTick, boot, flying, history>>

\* Catch-up is over: the first regular tick, unless stopped meanwhile.
CatchUpDone ==
  /\ loop = Boot /\ tick[Boot].pc = "catchup" /\ tick[Boot].todo = {}
  /\ \/ phase = "running" /\ OpenTick(Boot)
     \/ /\ phase = "stopped"
        /\ tick' = [tick EXCEPT ![Boot] = IdleTick]
        /\ loop' = None
        /\ UNCHANGED <<owner, phase, cacheVars, fired, minute, armed>>
  /\ UNCHANGED <<now, inputVars, row, lastTick, boot, flying, history>>

\* handleMissedOneShot: measured at the time the tick began.
TooLate(f, m) == f.task \in OneShots /\ m >= f.for + MissedAfter

\* shouldFireTask
Due(f, m) == IF f.task \in OneShots THEN f.for <= m + Early[f.task]
                                    ELSE m \in Matches[f.task]

\* The tick comes to f: it is due and not dealt with in this minute.
Picks(w, f) ==
  /\ ~TooLate(f, tick[w].at)
  /\ Due(f, tick[w].at)
  /\ f.task \notin fired

Looks(w, f) == loop = w /\ tick[w].pc = "loop" /\ f \in tick[w].todo

PassOver(w, f) ==
  /\ Looks(w, f)
  /\ ~TooLate(f, tick[w].at) /\ ~Picks(w, f)
  /\ tick' = [tick EXCEPT ![w].todo = @ \ {f}]
  /\ UNCHANGED <<now, inputVars, fileVars, boot, phase, cacheVars, fired,
                 minute, armed, flying, loop, history>>

MarkMissed(w, f) ==
  /\ Looks(w, f) /\ TooLate(f, tick[w].at)
  /\ UpdateRow(f.task, [row[f.task] EXCEPT !.status = "missed"], tick[w].at)
  /\ fresh' = (fresh /\ ~Exists(f.task))
  /\ tick' = [tick EXCEPT ![w].todo = @ \ {f}]
  /\ UNCHANGED <<now, inputVars, owner, boot, phase, cache, fired, minute,
                 armed, flying, loop, history>>

ArmTimer(w, f) ==
  /\ Looks(w, f) /\ Picks(w, f) /\ f.task \in jittered
  /\ fired' = fired \cup {f.task}
  /\ armed' = armed \cup {f}
  /\ tick' = [tick EXCEPT ![w].todo = @ \ {f}]
  /\ UNCHANGED <<now, inputVars, fileVars, boot, phase, cacheVars, minute,
                 flying, loop, history>>

FireNow(w, f) ==
  /\ Looks(w, f) /\ Picks(w, f) /\ f.task \notin jittered
  /\ fired' = fired \cup {f.task}
  /\ \/ /\ MayFire(f.task)
        /\ tick' = [tick EXCEPT ![w].pc = "firing", ![w].firing = f,
                                ![w].todo = @ \ {f}]
        /\ loop' = None
        /\ Begins(f, "tick")
     \/ /\ ~MayFire(f.task)
        /\ tick' = [tick EXCEPT ![w].todo = @ \ {f}]
        /\ UNCHANGED <<loop, history>>
  /\ UNCHANGED <<now, inputVars, fileVars, boot, phase, cacheVars, minute,
                 armed, flying>>

EndTick(w) ==
  /\ loop = w /\ tick[w].pc = "loop" /\ tick[w].todo = {}
  /\ tick' = [tick EXCEPT ![w] = IdleTick]
  /\ loop' = None
  /\ UNCHANGED <<now, inputVars, fileVars, boot, phase, cacheVars, fired,
                 minute, armed, flying, history>>

-----------------------------------------------------------------------------
(* The clock, the watcher and the collector.                               *)

Advance ==
  /\ loop = None /\ now < Horizon
  /\ now' = now + 1
  /\ UNCHANGED <<inputVars, fileVars, boot, phase, cacheVars, fired, minute,
                 armed, flying, tick, loop, history>>

\* fs.watch after its debounce.
WatcherRefreshes ==
  /\ phase = "running" /\ loop = None /\ ~fresh
  /\ cache' = ActiveTasks /\ fresh' = TRUE
  /\ UNCHANGED <<now, inputVars, fileVars, boot, phase, fired, minute, armed,
                 flying, tick, loop, history>>

\* garbageCollect: some of the rows that are not active; their age is not
\* modelled.
GarbageCollect ==
  /\ phase = "running" /\ loop = None
  /\ \E S \in SUBSET {t \in Tasks : Exists(t) /\ row[t].status # "active"} :
       /\ S # {}
       /\ row' = [t \in Tasks |-> IF t \in S
                                  THEN [status |-> "gone", last |-> 0]
                                  ELSE row[t]]
  /\ fresh' = FALSE
  /\ UNCHANGED <<now, inputVars, lastTick, owner, boot, phase, cache, fired,
                 minute, armed, flying, tick, loop, history>>

-----------------------------------------------------------------------------

Init ==
  /\ jittered \in SUBSET Recurring
  /\ now = 1 /\ edits = 0
  /\ row \in [Tasks -> [status : {"new", "active", "cancelled"}, last : {0}]]
  /\ lastTick = 0 /\ owner = 0 /\ boot = 0
  /\ phase = "down"
  /\ cache = {} /\ fresh = FALSE
  /\ fired = {} /\ minute = 0
  /\ armed = {} /\ flying = {}
  /\ tick = [w \in Ticks |-> IdleTick]
  /\ loop = None
  /\ begun = {} /\ twice = {} /\ done = {}

UserStep(t) == Add(t) \/ Delete(t) \/ Disable(t) \/ Enable(t)

TickStep(w) ==
  \/ EndTick(w)
  \/ \E f \in tick[w].todo :
       PassOver(w, f) \/ MarkMissed(w, f) \/ ArmTimer(w, f) \/ FireNow(w, f)

CatchUpStep == CatchUpDone \/ \E f \in tick[Boot].todo : CatchUpFires(f)

Next ==
  \/ \E t \in Tasks : UserStep(t)
  \/ FileLost \/ Start \/ Stop \/ Exit
  \/ CatchUpStep
  \/ \E w \in Ticks : IntervalTick(w) \/ TickStep(w) \/ TurnDone(w)
  \/ \E f \in armed : TimerFires(f)
  \/ \E f \in flying : TimerTurnDone(f)
  \/ Advance \/ WatcherRefreshes \/ GarbageCollect

Spec == Init /\ [][Next]_vars

-----------------------------------------------------------------------------
(* What the scheduler promises.                                            *)

\* A firing whose end the file records is not fired again by the catch-up of
\* a later start: the same write moves last_tick_at on, where the window of
\* recurring tasks opens, or takes the one-shot out of the active tasks.
CatchUpSkipsRecorded ==
  [][\A f \in done : phase = "down" => f \notin tick'[Boot].todo]_vars

\* Catch-up and the ticks of the same start never fire a recurring task for
\* the same minute: the window ends where the first tick begins.
CatchUpNeverCollides ==
  \A b \in begun :
    b[1].task \in Recurring /\ b[2] = "catchup"
      => <<b[1], "tick">> \notin begun

\* A recurring task is not fired a second time for a minute that no tick has
\* left behind, however the ticks in it overlap.
OncePerMinute ==
  [][\A f \in twice' \ twice : f.task \in Recurring => minute # f.for]_vars

\* A one-shot that a tick has fired is fired again by a tick, of those that
\* go on over the rows they cached or that open a new minute, only while its
\* first turn is still in flight: not after the end of a turn is recorded,
\* and not after the row was disabled, marked missed or deleted.  (Enabling
\* it is a wish to fire it anew; catch-up does not look and is left out.)
OneShotRefiresInFlight ==
  [][\A w \in Ticks :
       LET f == tick'[w].firing IN
       tick[w].pc = "loop" /\ tick'[w].pc = "firing" /\ f.task \in OneShots
         => /\ f \notin done
            /\ <<f, "tick">> \in begun =>
                 \E v \in Ticks : tick[v].pc = "firing" /\ tick[v].firing = f
    ]_vars

\* A one-shot whose time has come, and that no tick of this minute has picked
\* before it was enabled again, does not stay active for ever, unless the
\* scheduler is stopped.
OneShotSettles ==
  \A t \in OneShots :
    (row[t].status = "active" /\ DueAt[t] <= now /\ t \notin fired)
      ~> (row[t].status # "active" \/ phase = "stopped")

-----------------------------------------------------------------------------
(* The process is restarted, continuations run, turns end (TurnEngine) and *)
(* the event loop gets round to every callback that stays ready between    *)
(* its other work.                                                         *)
Fairness ==
  /\ WF_vars(Start)
  /\ WF_vars(CatchUpStep)
  /\ \A w \in Ticks : WF_vars(TickStep(w)) /\ SF_vars(TurnDone(w))
  /\ SF_vars(\E w \in Ticks : IntervalTick(w))

LiveSpec == Spec /\ Fairness
=============================================================================
