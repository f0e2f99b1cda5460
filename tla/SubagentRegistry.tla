-------------------------- MODULE SubagentRegistry --------------------------
(***************************************************************************)
(* The registry of running subagents (subagent-registry.ts): what it makes *)
(* of the Agent calls and returns it sees in a parent's frames, of the log *)
(* a background worker leaves in /tmp, of its process id, of the worker    *)
(* events and the work-activity endpoints of server.ts, of its own timers, *)
(* and how it is rebuilt from the run logs when the process starts again.  *)
(*                                                                         *)
(* TodoWrite progress is left out but for the watcher and the debounce     *)
(* timer that belong to it.                                                *)
(***************************************************************************)
EXTENDS Naturals

CONSTANTS
  Task,        \* tool_call_ids
  External,    \* those of /v1/work-activity ("ext-<source>-<id>")
  MaxInstance  \* bound: times the process runs

ASSUME SubagentAssumption ==
  External \subseteq Task /\ MaxInstance \in Nat \ {0}

VARIABLES
  inst,    \* which run of the process this is
  alive,   \* the process is running
  reg,     \* _subagents, and the watchers and timers of each
  frames,  \* what the run logs hold: a call, and the body of its return
  log,     \* task -> its background log: what is in it, does it name a pid
  owner,   \* task -> the .shim-owner.json sidecar: an instance, 0 if none
  worker,  \* task -> its background worker
  exits    \* child_exit events whose handler waits for its import

seenVars == <<frames, log, owner>>
subagentVars == <<inst, alive, reg, frames, log, owner, worker, exits>>

Seen(kind, hasLog, hasPid, error) ==
  [kind |-> kind, log |-> hasLog, pid |-> hasPid, error |-> error]
NoFrame == Seen("none", FALSE, FALSE, FALSE)
CallFrame == Seen("call", FALSE, FALSE, FALSE)
(* A call whose turn was cut off by the end of the process.                 *)
CutFrame == Seen("cut", FALSE, FALSE, FALSE)
(* parseAgentReturnBody: the header of a background task, or a report.      *)
Bodies ==
  [kind : {"background"}, log : BOOLEAN, pid : BOOLEAN, error : {FALSE}]
    \cup [kind : {"report"}, log : {FALSE}, pid : {FALSE}, error : BOOLEAN]

Absent ==
  [status |-> "none", why |-> "none", log |-> FALSE, pid |-> FALSE,
   owner |-> 0, old |-> FALSE, logWatch |-> FALSE, todoWatch |-> FALSE,
   debounce |-> FALSE, timer |-> FALSE]

Entry ==
  [status : {"none", "running", "completed", "failed"},
   why : {"none", "said", "footer", "timeout", "dead", "orphaned", "exit"},
   log : BOOLEAN, pid : BOOLEAN, owner : 0 .. MaxInstance, old : BOOLEAN,
   logWatch : BOOLEAN, todoWatch : BOOLEAN, debounce : BOOLEAN,
   timer : BOOLEAN]

RegistryTypeOK ==
  /\ inst \in 1 .. MaxInstance /\ alive \in BOOLEAN
  /\ reg \in [Task -> Entry]
  /\ frames \in [Task -> {NoFrame, CallFrame, CutFrame} \cup Bodies]
  /\ log \in [Task -> [says : {"nothing", "started", "completed", "failed"},
                       pid : BOOLEAN]]
  /\ owner \in [Task -> 0 .. MaxInstance]
  /\ worker \in [Task -> {"none", "alive", "gone"}]
  /\ exits \in SUBSET Task

RegistryInit ==
  /\ inst = 1 /\ alive = TRUE
  /\ reg = [t \in Task |-> Absent]
  /\ frames = [t \in Task |-> NoFrame]
  /\ log = [t \in Task |-> [says |-> "nothing", pid |-> FALSE]]
  /\ owner = [t \in Task |-> 0]
  /\ worker = [t \in Task |-> "none"]
  /\ exits = {}

(***************************************************************************)
(* What the functions of the registry make of an entry e whose log is l.   *)
(***************************************************************************)
Running(e) == e.status = "running"

(* finalize and clearWatchers.                                              *)
Ended(e, status, why) ==
  IF Running(e)
  THEN [e EXCEPT !.status = status, !.why = why, !.logWatch = FALSE,
                 !.todoWatch = FALSE, !.debounce = FALSE, !.timer = FALSE]
  ELSE e

(* recordSubagentDispatch: an entry that is there is kept as it is.         *)
Dispatched(e) ==
  IF e = Absent
  THEN [Absent EXCEPT !.status = "running", !.owner = inst, !.timer = TRUE]
  ELSE e

Closed(l) == l.says \in {"completed", "failed"}

(* The footer of the log decides.                                           *)
Scanned(e, l) == IF Closed(l) THEN Ended(e, l.says, "footer") ELSE e

(* watchBackgroundLog: a log that is not there cannot be watched.           *)
LogWatched(e, l) ==
  LET s == Scanned(e, l) IN
  IF e.logWatch \/ ~Running(s) \/ l.says = "nothing"
  THEN s ELSE [s EXCEPT !.logWatch = TRUE]

(* readLogWorkerPid, where no pid is known yet.                             *)
Probed(e, l) ==
  [e EXCEPT !.pid = @ \/ (e.log /\ l.says # "nothing" /\ l.pid)]

(* Mutant: the watchdog of the dispatch goes on after the return.           *)
ResolvedOnTheClock(e, b, l, o) ==
  LET r == Probed([e EXCEPT !.log = @ \/ b.log, !.pid = @ \/ b.pid,
                            !.todoWatch = TRUE], l)
      s == IF r.log /\ o # 0 THEN [r EXCEPT !.owner = o] ELSE r
  IN IF s.log THEN LogWatched(s, l) ELSE s

(* The return of a background dispatch names the worker.                    *)
Resolved(e, b, l, o) ==
  LET r == Probed([e EXCEPT !.log = @ \/ b.log, !.pid = @ \/ b.pid,
                            !.timer = FALSE, !.todoWatch = TRUE], l)
      s == IF r.log /\ o # 0 THEN [r EXCEPT !.owner = o] ELSE r
  IN IF s.log THEN LogWatched(s, l) ELSE s

(* recordSubagentReturn.                                                    *)
Returned(e, b, l, o) ==
  CASE ~Running(e) -> e
    [] Running(e) /\ b.kind = "background" -> Resolved(e, b, l, o)
    [] Running(e) /\ b.kind = "report" ->
         Ended(e, IF b.error THEN "failed" ELSE "completed", "said")

(* rehydrateRunningSubagentWatchdogs: no log, no life; nor a worker of an   *)
(* earlier instance that nothing shows to be alive.                         *)
Rehydrated(e, l, w) ==
  LET p == Probed(e, l) IN
  CASE ~Running(e) -> e
    [] Running(e) /\ (~e.log \/ l.says = "nothing") ->
         Ended(e, "failed", "orphaned")
    [] Running(e) /\ e.log /\ Closed(l) -> Scanned(e, l)
    [] OTHER -> IF (IF p.pid THEN w = "gone" ELSE e.owner # inst)
                THEN Ended(p, "failed", "dead")
                ELSE LogWatched([p EXCEPT !.todoWatch = TRUE], l)

(* Mutant: silence of a worker without a pid is life.                       *)
SweptIfDead(e, l, w) ==
  LET p == Probed(e, l) IN
  CASE ~Running(e) -> e
    [] Running(e) /\ ~e.log ->
         IF e.old THEN Ended(e, "failed", "orphaned") ELSE e
    [] Running(e) /\ e.log /\ Closed(l) -> Scanned(e, l)
    [] OTHER -> IF p.pid /\ w = "gone" THEN Ended(p, "failed", "dead") ELSE p

(* sweepOrphanedSubagents: without a pid, 90 s are enough.                  *)
Swept(e, l, w) ==
  LET p == Probed(e, l) IN
  CASE ~Running(e) -> e
    [] Running(e) /\ ~e.log ->
         IF e.old THEN Ended(e, "failed", "orphaned") ELSE e
    [] Running(e) /\ e.log /\ Closed(l) -> Scanned(e, l)
    [] OTHER -> CASE p.pid /\ w = "gone" -> Ended(p, "failed", "dead")
                  [] p.pid /\ w # "gone" -> p
                  [] ~p.pid -> IF e.old THEN Ended(e, "failed", "orphaned")
                                        ELSE e

(***************************************************************************)
(* The registry's operations                                               *)
(***************************************************************************)
Set(t, e) == reg' = [reg EXCEPT ![t] = e]

(* The sidecar is written once: an owner that is there stays.               *)
Stamp(t, b) ==
  owner' = IF Running(reg[t]) /\ b.kind = "background" /\ b.log
              /\ owner[t] = 0
           THEN [owner EXCEPT ![t] = reg[t].owner] ELSE owner

(* ingestParentFrame, for every frame a turn emits and logs.                *)
IngestCall(t) ==
  /\ alive /\ t \notin External /\ frames[t] = NoFrame
  /\ Set(t, Dispatched(reg[t]))
  /\ frames' = [frames EXCEPT ![t] = CallFrame]
  /\ UNCHANGED <<inst, alive, log, owner, worker, exits>>

(* With the return of a background call its worker is under way.            *)
IngestReturn(t, b) ==
  LET begun == [says |-> "started", pid |-> FALSE]
      l == IF b.kind = "background" THEN begun ELSE log[t]
  IN
  /\ alive /\ frames[t] = CallFrame
  /\ frames' = [frames EXCEPT ![t] = b]
  /\ log' = [log EXCEPT ![t] = l]
  /\ worker' = IF b.kind = "background" THEN [worker EXCEPT ![t] = "alive"]
                                        ELSE worker
  /\ Set(t, Returned(reg[t], b, l, owner[t])) /\ Stamp(t, b)
  /\ UNCHANGED <<inst, alive, exits>>

(* The log watcher, and the two steps of the TodoWrite watcher.             *)
LogChanged(t) ==
  /\ alive /\ reg[t].logWatch /\ Set(t, Scanned(reg[t], log[t]))
  /\ UNCHANGED <<inst, alive, seenVars, worker, exits>>

TodosChanged(t) ==
  /\ alive /\ reg[t].todoWatch /\ Set(t, [reg[t] EXCEPT !.debounce = TRUE])
  /\ UNCHANGED <<inst, alive, seenVars, worker, exits>>

DebounceDue(t) ==
  /\ alive /\ reg[t].debounce /\ Set(t, [reg[t] EXCEPT !.debounce = FALSE])
  /\ UNCHANGED <<inst, alive, seenVars, worker, exits>>

(* 90 s have passed since the dispatch was seen.                            *)
Age(t) ==
  /\ alive /\ Running(reg[t]) /\ ~reg[t].old
  /\ Set(t, [reg[t] EXCEPT !.old = TRUE])
  /\ UNCHANGED <<inst, alive, seenVars, worker, exits>>

(* The stream-timeout watchdog, after 600 s.                                *)
TimeoutDue(t) ==
  /\ alive /\ reg[t].timer /\ reg[t].old
  /\ Set(t, Ended([reg[t] EXCEPT !.timer = FALSE], "failed", "timeout"))
  /\ UNCHANGED <<inst, alive, seenVars, worker, exits>>

(* The interval of the liveness sweep, and every list request.              *)
Sweep ==
  /\ alive /\ \E t \in Task : Running(reg[t])
  /\ reg' = [t \in Task |-> Swept(reg[t], log[t], worker[t])]
  /\ UNCHANGED <<inst, alive, seenVars, worker, exits>>

(* POST /v1/worker-events from the wrapper of a worker that is gone: the    *)
(* handler finds the running entry, then waits for an import.               *)
ChildExit(t) ==
  /\ alive /\ worker[t] = "gone" /\ Running(reg[t]) /\ t \notin exits
  /\ exits' = exits \cup {t}
  /\ UNCHANGED <<inst, alive, reg, seenVars, worker>>

ChildExited(t) ==
  /\ alive /\ t \in exits /\ exits' = exits \ {t}
  /\ Set(t, Ended(reg[t], "failed", "exit"))
  /\ UNCHANGED <<inst, alive, seenVars, worker>>

(* PATCH /v1/work-activity/:id.                                             *)
Override(t, status) ==
  /\ alive /\ Running(reg[t]) /\ Set(t, Ended(reg[t], status, "said"))
  /\ UNCHANGED <<inst, alive, seenVars, worker, exits>>

(* POST /v1/work-activity: an entry is made if there is none, and ended     *)
(* if the producer says so.                                                 *)
Ingest(t, status) ==
  LET e == Dispatched(reg[t]) IN
  /\ alive /\ t \in External
  /\ Set(t, IF status = "running" THEN e ELSE Ended(e, status, "said"))
  /\ UNCHANGED <<inst, alive, seenVars, worker, exits>>

(* The next run of the process is another instance.                         *)
ShimDies ==
  /\ alive /\ inst < MaxInstance
  /\ alive' = FALSE /\ inst' = inst + 1 /\ exits' = {}
  /\ reg' = [t \in Task |-> Absent]
  /\ frames' = [t \in Task |-> IF frames[t] = CallFrame THEN CutFrame
                               ELSE frames[t]]
  /\ UNCHANGED <<log, owner, worker>>

(* rehydrateSubagentsFromRunFrames: the frames of all run logs go through   *)
(* the registry once more, then the rehydration and a sweep.                *)
Replayed(t) ==
  CASE frames[t] = NoFrame -> Absent
    [] frames[t] \in {CallFrame, CutFrame} -> Dispatched(Absent)
    [] OTHER -> Returned(Dispatched(Absent), frames[t], log[t], owner[t])

ShimBoots ==
  /\ ~alive /\ alive' = TRUE
  /\ reg' = [t \in Task |->
               Swept(Rehydrated(Replayed(t), log[t], worker[t]),
                     log[t], worker[t])]
  /\ UNCHANGED <<inst, seenVars, worker, exits>>

(***************************************************************************)
(* The background worker, its log and /tmp                                 *)
(***************************************************************************)
WorkerWrites(t, l) ==
  /\ worker[t] = "alive" /\ log[t].says = "started" /\ l # log[t]
  /\ log[t].pid => l.pid
  /\ log' = [log EXCEPT ![t] = l]
  /\ UNCHANGED <<inst, alive, reg, frames, owner, worker, exits>>

WorkerEnds(t) ==
  /\ worker[t] = "alive" /\ worker' = [worker EXCEPT ![t] = "gone"]
  /\ UNCHANGED <<inst, alive, reg, seenVars, exits>>

(* Somebody clears /tmp, but not the log of a worker that writes to it.     *)
TmpCleared(t) ==
  /\ worker[t] = "gone" /\ log[t].says # "nothing"
  /\ log' = [log EXCEPT ![t] = [says |-> "nothing", pid |-> FALSE]]
  /\ UNCHANGED <<inst, alive, reg, frames, owner, worker, exits>>

RegistryNext ==
  \/ \E t \in Task :
       \/ IngestCall(t) \/ \E b \in Bodies : IngestReturn(t, b)
       \/ LogChanged(t) \/ TodosChanged(t) \/ DebounceDue(t)
       \/ Age(t) \/ TimeoutDue(t) \/ ChildExit(t) \/ ChildExited(t)
       \/ \E s \in {"completed", "failed"} : Override(t, s)
       \/ \E s \in {"running", "completed", "failed"} : Ingest(t, s)
       \/ \E l \in [says : {"started", "completed", "failed"},
                    pid : BOOLEAN] : WorkerWrites(t, l)
       \/ WorkerEnds(t) \/ TmpCleared(t)
  \/ Sweep \/ ShimDies \/ ShimBoots

RegistrySpec == RegistryInit /\ [][RegistryNext]_subagentVars

(* Time passes and the interval of the sweep goes off.                      *)
RegistryFairness ==
  /\ \A t \in Task : WF_subagentVars(Age(t))
  /\ WF_subagentVars(Sweep)

RegistryLiveSpec == RegistrySpec /\ RegistryFairness

(***************************************************************************)
(* Properties                                                              *)
(***************************************************************************)
(* A worker the registry can see to be alive is not written off: neither    *)
(* the dispatch watchdog, nor the 90 s of the sweep, nor the rehydration    *)
(* after a restart reports it failed; only its log or somebody's word does. *)
LiveWorkerIsNotWrittenOff ==
  \A t \in Task :
    /\ reg[t].status = "failed" /\ reg[t].log /\ reg[t].pid
    /\ worker[t] = "alive"
    => reg[t].why \in {"footer", "said"}

(* No phantom in the clients' list: an entry whose worker is gone, or whose *)
(* producer or parent fell silent, does not stay running.                   *)
NoPhantom ==
  \A t \in Task :
    (Running(reg[t]) /\ worker[t] # "alive")
      ~> (~Running(reg[t]) \/ worker[t] = "alive")

(* What is over is not watched: a terminal entry holds no file watcher and  *)
(* no timer, whichever of them ended it.                                    *)
EndedIsUnwatched ==
  \A t \in Task : ~Running(reg[t]) =>
    /\ ~reg[t].logWatch /\ ~reg[t].todoWatch
    /\ ~reg[t].debounce /\ ~reg[t].timer
=============================================================================
