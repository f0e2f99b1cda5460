----------------------------- MODULE TurnEngine -----------------------------
(***************************************************************************)
(* The life of the runs of one conversation, from the moment a client's    *)
(* message is accepted (mobile-channel-host.ts) through the session        *)
(* adapter's turn queue, its stream loop, the retry loop around it         *)
(* (llm-retry.ts) and the finalizer (agent-pool.ts), with Stop             *)
(* (cancel-heal.ts, runs.ts) arriving at any point.  One action is one     *)
(* stretch of JavaScript between two awaits, or one callback.              *)
(*                                                                         *)
(* Several adapters of the one conversation can be alive at once: the      *)
(* pooled one, one closed a moment ago with a turn still on it, and the    *)
(* private ones of turns that bring tools.                                 *)
(***************************************************************************)
EXTENDS Naturals, FiniteSets, Sequences

CONSTANTS
  Turns,        \* accepted messages, each with the run created for it
  Adapters,     \* LettaSessionAdapter objects of the conversation
  MaxAttempts,  \* SHIM_LLM_RETRY_MAX
  MaxFrames,    \* bound: text frames one run sends to its client
  MaxRestarts,  \* bound: restarts of the shim
  None          \* null

ASSUME TurnAssumption ==
  /\ MaxAttempts \in Nat \ {0}
  /\ MaxFrames \in Nat
  /\ MaxRestarts \in Nat
  /\ None \notin Adapters

VARIABLES
  rec,        \* run -> status in its record, on the handle and in run.json
  stopped,    \* runs with metadata.user_stopped
  active,     \* keys of _activeRuns
  hook,       \* _cancelHandlers: run -> none, noop or the turn's cancelSession
  heals,      \* cancelled runs in the order their repairs were registered
  healed,     \* how many of those repairs have finished
  pooled,     \* the adapter pool.get() returns, or None
  dead,       \* adapters not started yet, or closed
  queue,      \* adapter -> turns on its promise chain, oldest first
  pc,         \* turn -> where it is
  adapter,    \* turn -> the adapter it was given
  private,    \* turn -> TRUE when it brings tools and so its own adapter
  waits,      \* turn -> repairs its last barrier waits for
  attempt,    \* turn -> LLM attempts made
  cancelled,  \* turn -> the `cancelled` local of its current attempt
  snapshot,   \* turn -> the value of it passed to finalizeTurnLifecycle
  timedOut,   \* turn -> the watchdog of its current attempt has fired
  failure,    \* turn -> the error its result carries without usable output
  inbox,      \* turn -> a message is resolved but not yet processed
  sent,       \* turn -> assistant text frames handed to its client, in all
  grace,      \* turns whose cancel grace timer is armed
  restarts    \* restarts so far

(* History: where Stop found a turn and how much its client had by then.    *)
(* No action reads it.                                                      *)
VARIABLE atStop

runVars == <<rec, stopped, active, hook>>
healVars == <<heals, healed>>
poolVars == <<pooled, dead, queue>>
loopVars == <<cancelled, snapshot, timedOut, failure, inbox>>
vars == <<rec, stopped, active, hook, heals, healed, pooled, dead, queue, pc,
          adapter, private, waits, attempt, cancelled, snapshot, timedOut,
          failure, inbox, sent, grace, restarts, atStop>>

PCs == {"idle", "accepted", "entering", "handed", "queued", "barrier",
        "opening", "streaming", "finalizing", "backoff",
        "returned", "threw", "lost"}

(* No error payload, or usable output; not retriable; worth another attempt. *)
Failures == {"none", "final", "transient"}

(* The promise bridgeSendMessage awaits has settled, or died with the shim. *)
Over == {"returned", "threw", "lost"}

(* What the history keeps of where Stop found a turn.                       *)
Stages == {"never", "before", "queued", "begun"}
Stage(t) == CASE pc[t] \in {"accepted", "entering", "handed"} -> "before"
              [] pc[t] \in {"queued", "barrier"} -> "queued"
              [] OTHER -> "begun"

TypeOK ==
  /\ rec       \in [Turns -> {"none", "running", "completed", "failed", "cancelled"}]
  /\ stopped   \in SUBSET Turns
  /\ active    \in SUBSET Turns
  /\ hook      \in [Turns -> {"none", "noop", "turn"}]
  /\ heals     \in Seq(Turns)
  /\ healed    \in 0 .. Len(heals)
  /\ pooled    \in Adapters \cup {None}
  /\ dead      \in SUBSET Adapters
  /\ queue     \in [Adapters -> Seq(Turns)]
  /\ pc        \in [Turns -> PCs]
  /\ adapter   \in [Turns -> Adapters \cup {None}]
  /\ private   \in [Turns -> BOOLEAN]
  /\ waits     \in [Turns -> Nat]
  /\ attempt   \in [Turns -> 0 .. MaxAttempts]
  /\ cancelled \in [Turns -> BOOLEAN]
  /\ snapshot  \in [Turns -> BOOLEAN]
  /\ timedOut  \in [Turns -> BOOLEAN]
  /\ failure   \in [Turns -> Failures]
  /\ inbox     \in [Turns -> BOOLEAN]
  /\ sent      \in [Turns -> 0 .. MaxFrames]
  /\ grace     \in SUBSET Turns
  /\ restarts  \in 0 .. MaxRestarts
  /\ atStop    \in [Turns -> [at : Stages, sent : 0 .. MaxFrames]]

Init ==
  /\ rec       = [t \in Turns |-> "none"]
  /\ stopped   = {}
  /\ active    = {}
  /\ hook      = [t \in Turns |-> "none"]
  /\ heals     = <<>>
  /\ healed    = 0
  /\ pooled    = None
  /\ dead      = Adapters
  /\ queue     = [a \in Adapters |-> <<>>]
  /\ pc        = [t \in Turns |-> "idle"]
  /\ adapter   = [t \in Turns |-> None]
  /\ private   \in [Turns -> BOOLEAN]
  /\ waits     = [t \in Turns |-> 0]
  /\ attempt   = [t \in Turns |-> 0]
  /\ cancelled = [t \in Turns |-> FALSE]
  /\ snapshot  = [t \in Turns |-> FALSE]
  /\ timedOut  = [t \in Turns |-> FALSE]
  /\ failure   = [t \in Turns |-> "none"]
  /\ inbox     = [t \in Turns |-> FALSE]
  /\ sent      = [t \in Turns |-> 0]
  /\ grace     = {}
  /\ restarts  = 0
  /\ atStop    = [t \in Turns |-> [at |-> "never", sent |-> 0]]

-----------------------------------------------------------------------------
(* Pieces the handlers share *)

At(t, s) == pc[t] = s
Goes(t, s) == pc' = [pc EXCEPT ![t] = s]

(* The turn has read the transcript and has not left its stream.            *)
Reading(t) == At(t, "opening") \/ At(t, "streaming")

(* Mutant: the retry loop looks only at the record, not at user_stopped.    *)
StopSeenByRecord(t) == rec[t] = "cancelled"

(* isCancelled() of the retry loop: the shared record or its user_stopped.  *)
StopSeen(t) == rec[t] = "cancelled" \/ t \in stopped

(* Mutant: a successor does not look for repairs.                           *)
BarrierNone(t) == waits' = [waits EXCEPT ![t] = 0]

(* await awaitCancelHeal(): the tail of the repair chain as it is now.      *)
Barrier(t) == waits' = [waits EXCEPT ![t] = Len(heals)]
PastBarrier(t) == healed >= waits[t]

(* A repair registered by a Stop and not finished yet.                      *)
Pending(t) == \E i \in healed + 1 .. Len(heals) : heals[i] = t

(* Mutant: the run keeps its place among the active runs.                   *)
RetireKeepsIndex(t) == active' = active /\ hook' = [hook EXCEPT ![t] = "none"]

(* _activeRuns.delete and _cancelHandlers.delete.                           *)
Retire(t) == active' = active \ {t} /\ hook' = [hook EXCEPT ![t] = "none"]

(* Mutant: the hook given at createRun is never replaced.                   *)
PatchHookNever(t) == hook' = hook

(* setRunCancelHandler(runHandle.id, cancelSession).                        *)
PatchHook(t) == hook' = [hook EXCEPT ![t] = "turn"]

(* The locals of _runTurnInner: fresh for an attempt, gone with the turn.   *)
Forget(t) ==
  /\ cancelled' = [cancelled EXCEPT ![t] = FALSE]
  /\ snapshot' = [snapshot EXCEPT ![t] = FALSE]
  /\ timedOut' = [timedOut EXCEPT ![t] = FALSE]
  /\ failure' = [failure EXCEPT ![t] = "none"]
  /\ inbox' = [inbox EXCEPT ![t] = FALSE]

(* An adapter object nothing has referred to yet; which one does not matter. *)
Fresh(a) == a \in dead /\ a # pooled /\ \A t \in Turns : adapter[t] # a
New(a) == Fresh(a) /\ a = CHOOSE b \in Adapters : Fresh(b)

(* The queue of the adapter once the turn's promise settles.                *)
Dequeue(t) == queue' = [queue EXCEPT ![adapter[t]] = Tail(@)]

(* closeAfterTurn: the finally block around the retry loop.                 *)
CloseOwn(t) == dead' = IF private[t] THEN dead \cup {adapter[t]} ELSE dead

Emits(t, n) == sent[t] + n <= MaxFrames /\ sent' = [sent EXCEPT ![t] = @ + n]

-----------------------------------------------------------------------------
(* From the client's message to the adapter *)

(* bridgeSendMessage: createRun with a cancel hook that does nothing.       *)
Accept(t) ==
  /\ At(t, "idle")
  /\ rec' = [rec EXCEPT ![t] = "running"]
  /\ active' = active \cup {t}
  /\ hook' = [hook EXCEPT ![t] = "noop"]
  /\ Goes(t, "accepted")
  /\ UNCHANGED <<stopped, healVars, poolVars, adapter, private, waits, attempt,
                 loopVars, sent, grace, restarts, atStop>>

(* runTurnWithHeal is called and waits for the repairs registered so far.   *)
EnterPool(t) ==
  /\ At(t, "accepted")
  /\ Barrier(t)
  /\ Goes(t, "entering")
  /\ UNCHANGED <<runVars, healVars, poolVars, adapter, private, attempt,
                 loopVars, sent, grace, restarts, atStop>>

(* The factory for a private adapter, or pool.get(): warm or spawned.       *)
Route(t) ==
  /\ At(t, "entering") /\ PastBarrier(t)
  /\ \E a \in Adapters :
       /\ adapter' = [adapter EXCEPT ![t] = a]
       /\ \/ private[t] /\ New(a) /\ dead' = dead \ {a} /\ pooled' = pooled
          \/ ~ private[t] /\ a = pooled /\ a \notin dead /\ UNCHANGED <<pooled, dead>>
          \/ /\ ~ private[t] /\ (pooled = None \/ pooled \in dead)
             /\ New(a) /\ pooled' = a /\ dead' = dead \ {a}
  /\ waits' = [waits EXCEPT ![t] = 0]
  /\ Goes(t, "handed")
  /\ UNCHANGED <<runVars, healVars, queue, private, attempt, loopVars, sent,
                 grace, restarts, atStop>>

(* start() throws: nobody on the way up catches it.                         *)
SpawnThrows(t) ==
  /\ At(t, "entering") /\ PastBarrier(t)
  /\ waits' = [waits EXCEPT ![t] = 0]
  /\ Goes(t, "threw")
  /\ UNCHANGED <<runVars, healVars, poolVars, adapter, private, attempt,
                 loopVars, sent, grace, restarts, atStop>>

(* The head of the retry loop: give up if stopped, else join the queue.     *)
Attempt(t) ==
  /\ At(t, "handed") \/ At(t, "backoff")
  /\ ~ StopSeen(t)
  /\ attempt' = [attempt EXCEPT ![t] = @ + 1]
  /\ queue' = [queue EXCEPT ![adapter[t]] = Append(@, t)]
  /\ Goes(t, "queued")
  /\ UNCHANGED <<runVars, healVars, pooled, dead, adapter, private, waits,
                 loopVars, sent, grace, restarts, atStop>>

AttemptAborts(t) ==
  /\ At(t, "handed") \/ At(t, "backoff")
  /\ StopSeen(t)
  /\ CloseOwn(t)
  /\ Forget(t)
  /\ Goes(t, "returned")
  /\ UNCHANGED <<runVars, healVars, pooled, queue, adapter, private, waits,
                 attempt, sent, grace, restarts, atStop>>

-----------------------------------------------------------------------------
(* _runTurnInner: one attempt *)

(* Every turn before it on its adapter's promise chain has settled.         *)
AtHead(t) == queue[adapter[t]] # <<>> /\ Head(queue[adapter[t]]) = t

(* The turn reaches the head of the chain and waits for repairs again.      *)
ReachHead(t) ==
  /\ At(t, "queued") /\ AtHead(t)
  /\ Barrier(t)
  /\ Goes(t, "barrier")
  /\ UNCHANGED <<runVars, healVars, poolVars, adapter, private, attempt,
                 loopVars, sent, grace, restarts, atStop>>

(* The attempt's closure is made and its cancelSession becomes the hook.    *)
OpenTurn(t) ==
  /\ At(t, "barrier") /\ PastBarrier(t) /\ adapter[t] \notin dead
  /\ PatchHook(t)
  /\ Forget(t)
  /\ waits' = [waits EXCEPT ![t] = 0]
  /\ Goes(t, "opening")
  /\ UNCHANGED <<rec, stopped, active, healVars, poolVars, adapter, private,
                 attempt, sent, grace, restarts, atStop>>

(* listMessages has returned; send() is called.                             *)
BeginStream(t) ==
  /\ At(t, "opening")
  /\ Goes(t, "streaming")
  /\ UNCHANGED <<runVars, healVars, poolVars, adapter, private, waits, attempt,
                 loopVars, sent, grace, restarts, atStop>>

(* The adapter is dead, or send() or the iterator throws: the promise       *)
(* rejects through every caller and the run is left as it is.               *)
TurnThrows(t) ==
  /\ \/ At(t, "barrier") /\ PastBarrier(t) /\ adapter[t] \in dead
     \/ At(t, "streaming")
  /\ Dequeue(t)
  /\ CloseOwn(t)
  /\ Forget(t)
  /\ waits' = [waits EXCEPT ![t] = 0]
  /\ Goes(t, "threw")
  /\ UNCHANGED <<runVars, healVars, pooled, adapter, private, attempt, sent,
                 grace, restarts, atStop>>

(* iterator.next() resolves; the loop has not run yet.                      *)
SdkYields(t) ==
  /\ At(t, "streaming") /\ ~ inbox[t]
  /\ inbox' = [inbox EXCEPT ![t] = TRUE]
  /\ UNCHANGED <<runVars, healVars, poolVars, pc, adapter, private, waits,
                 attempt, cancelled, snapshot, timedOut, failure, sent, grace,
                 restarts, atStop>>

(* The message may be converted and handed to onFrame.                      *)
MayForward(t) == inbox[t] /\ ~ cancelled[t]

Receive(t) ==
  /\ At(t, "streaming") /\ MayForward(t) /\ ~ timedOut[t]
  /\ inbox' = [inbox EXCEPT ![t] = FALSE]
  /\ Emits(t, 1)
  /\ UNCHANGED <<runVars, healVars, poolVars, pc, adapter, private, waits,
                 attempt, cancelled, snapshot, timedOut, failure, grace,
                 restarts, atStop>>

(* A watchdog fires: it only asks the session to abort.                     *)
Watchdog(t) ==
  /\ At(t, "streaming") /\ ~ timedOut[t]
  /\ timedOut' = [timedOut EXCEPT ![t] = TRUE]
  /\ UNCHANGED <<runVars, healVars, poolVars, pc, adapter, private, waits,
                 attempt, cancelled, snapshot, failure, inbox, sent, grace,
                 restarts, atStop>>

(* The loop ends and the finally block runs; finalizeTurnLifecycle gets     *)
(* `cancelled` by value.                                                    *)
LeaveLoop(t) ==
  /\ snapshot' = [snapshot EXCEPT ![t] = cancelled[t]]
  /\ inbox' = [inbox EXCEPT ![t] = FALSE]
  /\ Goes(t, "finalizing")

(* A result message, the end of the stream, or the first message after the  *)
(* watchdog fired, which is still forwarded.  The deltas are not retained,  *)
(* so an error met after some were sent counts as one without usable output.*)
StreamEnds(t) ==
  /\ At(t, "streaming") /\ ~ cancelled[t]
  /\ LeaveLoop(t)
  /\ \E e \in Failures : failure' = [failure EXCEPT ![t] = e]
  /\ \/ timedOut[t] /\ MayForward(t) /\ Emits(t, 1)
     \/ sent' = sent
  /\ UNCHANGED <<runVars, healVars, poolVars, adapter, private, waits, attempt,
                 cancelled, timedOut, grace, restarts, atStop>>

(* Mutant: no race: the loop looks at `cancelled` when a message arrives.    *)
SeversOnMessage(t) == cancelled[t] /\ inbox[t]

(* The cancellation deferred wins the race, or the loop sees `cancelled`.   *)
Severs(t) == cancelled[t]

Sever(t) ==
  /\ At(t, "streaming") /\ Severs(t)
  /\ LeaveLoop(t)
  /\ UNCHANGED <<runVars, healVars, poolVars, adapter, private, waits, attempt,
                 cancelled, timedOut, failure, sent, grace, restarts, atStop>>

-----------------------------------------------------------------------------
(* After the stream *)

(* finalizeTurnLifecycle ends: finalizeRun, unless it was told the turn was *)
(* cancelled, overwrites whatever the record says.                          *)
FinalizeRun(t) ==
  IF snapshot[t]
  THEN UNCHANGED <<rec, active, hook>>
  ELSE /\ rec' = [rec EXCEPT ![t] = IF timedOut[t] THEN "failed" ELSE "completed"]
       /\ Retire(t)

(* shouldRetryLlmTurn and the attempts left.  result.cancelled is read now. *)
Retries(t) ==
  ~ cancelled[t] /\ failure[t] = "transient" /\ attempt[t] < MaxAttempts

FinalizeRetries(t) ==
  /\ At(t, "finalizing") /\ Retries(t)
  /\ FinalizeRun(t)
  /\ Dequeue(t)
  /\ Forget(t)
  /\ Goes(t, "backoff")
  /\ UNCHANGED <<stopped, healVars, pooled, dead, adapter, private, waits,
                 attempt, sent, grace, restarts, atStop>>

(* The result goes up; an error that is not retried is made visible.        *)
FinalizeReturns(t) ==
  /\ At(t, "finalizing") /\ ~ Retries(t)
  /\ FinalizeRun(t)
  /\ Dequeue(t)
  /\ CloseOwn(t)
  /\ IF failure[t] # "none" /\ ~ cancelled[t] /\ sent[t] < MaxFrames
     THEN Emits(t, 1) ELSE sent' = sent
  /\ Forget(t)
  /\ Goes(t, "returned")
  /\ UNCHANGED <<stopped, healVars, pooled, adapter, private, waits, attempt,
                 grace, restarts, atStop>>

-----------------------------------------------------------------------------
(* Stop, the repairs and the pool around the turns *)

(* cancelRunAndHeal: only a run in _activeRuns can be cancelled.  The hook  *)
(* of a turn sets its `cancelled` and arms the grace timer, which does      *)
(* nothing once the loop has ended without a cancel.                        *)
Cancel(t) ==
  /\ t \in active
  /\ rec' = [rec EXCEPT ![t] = "cancelled"]
  /\ stopped' = stopped \cup {t}
  /\ Retire(t)
  /\ heals' = Append(heals, t)
  /\ IF hook[t] = "turn"
     THEN /\ cancelled' = [cancelled EXCEPT ![t] = TRUE]
          /\ grace' = grace \cup ({t} \cap {u \in Turns : Reading(u)})
     ELSE UNCHANGED <<cancelled, grace>>
  /\ atStop' = [atStop EXCEPT ![t] = [at |-> Stage(t), sent |-> sent[t]]]
  /\ UNCHANGED <<healed, poolVars, pc, adapter, private, waits, attempt,
                 snapshot, timedOut, failure, inbox, sent, restarts>>

(* The grace timer: forceEvict of the conversation's session, and close().  *)
GraceExpires(t) ==
  /\ t \in grace
  /\ grace' = grace \ {t}
  /\ dead' = dead \cup {adapter[t]} \cup ({pooled} \ {None})
  /\ pooled' = None
  /\ UNCHANGED <<runVars, healVars, queue, pc, adapter, private, waits,
                 attempt, loopVars, sent, restarts, atStop>>

(* The oldest repair finishes; the chain runs them one after the other.     *)
HealDone ==
  /\ healed < Len(heals)
  /\ healed' = healed + 1
  /\ UNCHANGED <<runVars, heals, poolVars, pc, adapter, private, waits,
                 attempt, loopVars, sent, grace, restarts, atStop>>

(* The pool closes the session for a reason of its own (AgentPool).         *)
Evict ==
  /\ pooled # None
  /\ dead' = dead \cup {pooled}
  /\ pooled' = None
  /\ UNCHANGED <<runVars, healVars, queue, pc, adapter, private, waits,
                 attempt, loopVars, sent, grace, restarts, atStop>>

(* The process ends and boots again: memory is gone, and the sweep marks    *)
(* every run the disk still calls running as failed.                        *)
Restart ==
  /\ restarts < MaxRestarts
  /\ restarts' = restarts + 1
  /\ rec' = [t \in Turns |-> IF rec[t] = "running" THEN "failed" ELSE rec[t]]
  /\ active' = {}
  /\ hook' = [t \in Turns |-> "none"]
  /\ heals' = <<>> /\ healed' = 0
  /\ pooled' = None /\ dead' = Adapters
  /\ queue' = [a \in Adapters |-> <<>>]
  /\ pc' = [t \in Turns |-> IF pc[t] \in Over \cup {"idle"} THEN pc[t] ELSE "lost"]
  /\ adapter' = [t \in Turns |-> None]
  /\ waits' = [t \in Turns |-> 0]
  /\ grace' = {}
  /\ cancelled' = [t \in Turns |-> FALSE]
  /\ snapshot' = [t \in Turns |-> FALSE]
  /\ timedOut' = [t \in Turns |-> FALSE]
  /\ failure' = [t \in Turns |-> "none"]
  /\ inbox' = [t \in Turns |-> FALSE]
  /\ UNCHANGED <<stopped, private, attempt, sent, atStop>>

TurnStep(t) ==
  \/ EnterPool(t) \/ Route(t) \/ SpawnThrows(t)
  \/ Attempt(t) \/ AttemptAborts(t)
  \/ ReachHead(t) \/ OpenTurn(t) \/ BeginStream(t) \/ TurnThrows(t)
  \/ SdkYields(t) \/ Receive(t) \/ Watchdog(t)
  \/ StreamEnds(t) \/ Sever(t)
  \/ FinalizeRetries(t) \/ FinalizeReturns(t)

(* Every message has been answered: nothing is left to do.                  *)
Terminating == (\A t \in Turns : pc[t] \in Over) /\ UNCHANGED vars

Next ==
  \/ \E t \in Turns : Accept(t) \/ TurnStep(t) \/ Cancel(t) \/ GraceExpires(t)
  \/ HealDone \/ Evict \/ Restart \/ Terminating

Spec == Init /\ [][Next]_vars

(* Promises that can settle do; the SDK is assumed to end every stream that *)
(* is not cancelled (its result, its transport closing, or the abort of the *)
(* watchdog); of a cancelled one nothing is assumed.  No client has to send *)
(* or to stop anything.                                                     *)
Progress(t) ==
  \/ EnterPool(t) \/ Route(t) \/ Attempt(t) \/ AttemptAborts(t)
  \/ ReachHead(t) \/ OpenTurn(t) \/ BeginStream(t)
  \/ TurnThrows(t) /\ At(t, "barrier")
  \/ StreamEnds(t) \/ Sever(t)
  \/ FinalizeRetries(t) \/ FinalizeReturns(t)

LiveSpec ==
  Spec /\ WF_vars(HealDone) /\ \A t \in Turns : WF_vars(Progress(t))

-----------------------------------------------------------------------------
(* Properties *)

(* A turn whose run has not been stopped, up to the end of its first        *)
(* attempt.                                                                 *)
Findable(t) ==
  /\ t \notin stopped
  /\ \/ pc[t] \in {"accepted", "entering", "handed"}
     \/ attempt[t] = 1 /\ pc[t] \in {"queued", "barrier", "opening",
                                    "streaming", "finalizing"}

(* What Stop, subscribe and the appenders can find.  The index of active    *)
(* runs agrees with the records; every turn is in it from its acceptance to *)
(* the end of its first attempt, unless it is stopped; and besides those    *)
(* only runs whose turn has thrown, which stay behind as running.  So no    *)
(* backoff and no later attempt of a run can be found.                      *)
IndexAgrees ==
  /\ active = {t \in Turns : rec[t] = "running"}
  /\ \A t \in Turns : Findable(t) => t \in active
  /\ \A t \in active :
       Findable(t) \/ (pc[t] = "threw" /\ t \notin stopped /\ attempt[t] <= 1)

(* The hook and the index together: while a turn that has not been stopped  *)
(* reads its stream, the hook is that of this attempt, not the empty one    *)
(* given at createRun, and Stop gets to it if this is the first attempt and *)
(* only then.                                                               *)
StopReachesAttempt ==
  \A t \in Turns :
    Reading(t) /\ t \notin stopped =>
      hook[t] = "turn" /\ (t \in active <=> attempt[t] = 1)

(* A queued turn never reads the transcript while the repair of a stopped   *)
(* turn that ran before it on the same adapter is still to be made.         *)
RepairBeforeSuccessor ==
  \A s, t \in Turns :
    (/\ s # t /\ adapter[s] = adapter[t] /\ adapter[t] # None
     /\ pc[s] = "returned" /\ attempt[s] > 0 /\ Pending(s))
    => ~ Reading(t)

(* What a Stop leaves of a run, by where it found it.  Before the turn was  *)
(* in a queue: no attempt and no frame.  In the queue or at its barrier:    *)
(* the attempt already made goes on to open, send and stream as if nothing  *)
(* had happened, but it is the last, also when its end has put "completed"  *)
(* over "cancelled".  In the stream or after it: not one more frame, not    *)
(* the message already resolved, not the failure made visible at the end,   *)
(* and no other attempt.                                                    *)
StopLeavesOneAttempt ==
  \A t \in stopped :
    /\ attempt[t] <= 1
    /\ atStop[t].at = "before" => attempt[t] = 0
    /\ atStop[t].at # "queued" => sent[t] = atStop[t].sent

(* Every accepted message comes to an end: barriers, queues behind stopped, *)
(* failed or closed turns, retries and backoffs all let it through; a       *)
(* stopped one does so whatever the SDK goes on to do.                      *)
EveryTurnEnds == \A t \in Turns : At(t, "accepted") ~> pc[t] \in Over

(* runs.ts:1487-1490 and mobile-channel-host.ts:292-297 say that the        *)
(* finalizer is a no-op on a cancelled run and that a run stopped before it *)
(* has a worker short-circuits: a cancelled record would stay cancelled.    *)
CancelledStaysCancelled ==
  [][\A t \in Turns : rec[t] = "cancelled" => rec'[t] = "cancelled"]_vars

=============================================================================
