--------------------------- MODULE TurnEngineProofs ---------------------------
(***************************************************************************)
(* Theorems about TurnEngine, for every set of turns and adapters, any     *)
(* number of attempts and restarts, and about SubagentRegistry, which      *)
(* keeps what the turns have dispatched, for every set of tasks and any    *)
(* number of restarts.                                                     *)
(***************************************************************************)
EXTENDS TurnEngine, SubagentRegistry, TLAPS

(* Phases in which a turn has an adapter to work on.                        *)
Working == {"handed", "queued", "barrier", "opening", "streaming",
            "finalizing", "backoff"}

(* Phases in which the turn's adapter waits for it.                         *)
InTurn == {"barrier", "opening", "streaming", "finalizing"}

(* Whoever works, or can still be evicted for, has an adapter.              *)
Placed ==
  \A t \in Turns : pc[t] \in Working \/ t \in grace => adapter[t] \in Adapters

(* Attempts are counted at the queue, and one is left in a backoff.         *)
Counted ==
  \A t \in Turns :
    /\ pc[t] \in {"idle", "accepted", "entering", "handed"} => attempt[t] = 0
    /\ pc[t] \in {"queued", "barrier", "opening", "streaming", "finalizing",
                 "backoff"} => attempt[t] >= 1
    /\ pc[t] = "backoff" => attempt[t] < MaxAttempts

(* An attempt that is open has its own hook, until the run is stopped.      *)
Hooked ==
  \A t \in Turns :
    pc[t] \in {"opening", "streaming", "finalizing"} /\ t \notin stopped
    => hook[t] = "turn"

(* What Stop has left of t, and why it stays so: a run found before its     *)
(* queue can only give up, one found in its queue only goes on with the     *)
(* attempt it has, and one found later has heard the Stop or is over.       *)
Remains(t) ==
  \/ /\ atStop[t].at = "before" /\ attempt[t] = 0
     /\ pc[t] \in {"accepted", "entering", "handed"} \cup Over
     /\ sent[t] = atStop[t].sent
  \/ atStop[t].at = "queued" /\ attempt[t] = 1
  \/ /\ atStop[t].at = "begun" /\ attempt[t] <= 1
     /\ sent[t] = atStop[t].sent
     /\ pc[t] \in {"opening", "streaming", "finalizing"} \cup Over
     /\ pc[t] \notin Over => cancelled[t]
Left == \A t \in stopped : Remains(t)

(* A turn in progress is at the head of its adapter's chain: there is one   *)
(* of them per adapter.                                                     *)
Serial == \A t \in Turns : pc[t] \in InTurn => AtHead(t)

(* What Stop leaves on a run, and what it can no longer find.               *)
Marks ==
  /\ \A t \in Turns :
       /\ pc[t] = "idle" =>
            rec[t] = "none" /\ t \notin stopped /\ ~ cancelled[t]
       /\ snapshot[t] => cancelled[t]
       /\ cancelled[t] \/ t \in stopped => t \notin active
       /\ pc[t] \in {"backoff", "returned", "lost"} => t \notin active
  /\ \A i \in 1 .. Len(heals) : heals[i] \in stopped

(* The i-th repair is still to be made, for s, which has been on t's        *)
(* adapter.                                                                 *)
Owed(s, t, i) ==
  /\ s # t /\ adapter[s] = adapter[t] /\ adapter[t] # None /\ attempt[s] > 0
  /\ heals[i] = s

(* The turn does not read, and its barrier, if it stands there, includes    *)
(* the i-th repair.                                                         *)
Waits(t, i) == ~ Reading(t) /\ (At(t, "barrier") => i <= waits[t])

(* A repair that is owed holds up the turns on its adapter, unless it is    *)
(* that of a run which is behind them in the queue or was given up on.      *)
Repairs ==
  \A s, t \in Turns : \A i \in 1 .. Len(heals) :
    healed < i /\ Owed(s, t, i) => pc[s] \in {"queued", "threw"} \/ Waits(t, i)

IInv ==
  /\ TypeOK /\ Placed /\ Counted /\ Serial /\ Marks
  /\ IndexAgrees /\ Hooked /\ Left /\ Repairs

-----------------------------------------------------------------------------
(* The actions, by the turn they are about *)

LEMMA NextCases ==
  ASSUME [Next]_vars
  PROVE  \/ \E t \in Turns : Accept(t)
         \/ \E t \in Turns : EnterPool(t)
         \/ \E t \in Turns : Route(t)
         \/ \E t \in Turns : SpawnThrows(t)
         \/ \E t \in Turns : Attempt(t)
         \/ \E t \in Turns : AttemptAborts(t)
         \/ \E t \in Turns : ReachHead(t)
         \/ \E t \in Turns : OpenTurn(t)
         \/ \E t \in Turns : BeginStream(t)
         \/ \E t \in Turns : TurnThrows(t)
         \/ \E t \in Turns : SdkYields(t)
         \/ \E t \in Turns : Receive(t)
         \/ \E t \in Turns : Watchdog(t)
         \/ \E t \in Turns : StreamEnds(t)
         \/ \E t \in Turns : Sever(t)
         \/ \E t \in Turns : FinalizeRetries(t)
         \/ \E t \in Turns : FinalizeReturns(t)
         \/ \E t \in Turns : Cancel(t)
         \/ \E t \in Turns : GraceExpires(t)
         \/ HealDone
         \/ Evict
         \/ Restart
         \/ UNCHANGED vars
  BY DEF Next, TurnStep, Terminating

(* Only the first hand-over gives an adapter, only a restart takes it.      *)
LEMMA PlacedStep ==
  ASSUME TypeOK, Placed, [Next]_vars
  PROVE  Placed'
<1> USE DEF At, Goes, runVars, healVars, poolVars, loopVars,
           TypeOK, Placed, Working, PCs, Reading
<1>1. ASSUME NEW t \in Turns, Accept(t) PROVE Placed'
  BY <1>1 DEF Accept
<1>2. ASSUME NEW t \in Turns, EnterPool(t) PROVE Placed'
  BY <1>2 DEF EnterPool, Barrier
<1>3. ASSUME NEW t \in Turns, Route(t) PROVE Placed'
  BY <1>3 DEF Route, New, Fresh
<1>4. ASSUME NEW t \in Turns, SpawnThrows(t) PROVE Placed'
  BY <1>4 DEF SpawnThrows, PastBarrier
<1>5. ASSUME NEW t \in Turns, Attempt(t) PROVE Placed'
  BY <1>5 DEF Attempt, StopSeen
<1>6. ASSUME NEW t \in Turns, AttemptAborts(t) PROVE Placed'
  BY <1>6 DEF AttemptAborts, StopSeen, CloseOwn, Forget
<1>7. ASSUME NEW t \in Turns, ReachHead(t) PROVE Placed'
  BY <1>7 DEF ReachHead, Barrier
<1>8. ASSUME NEW t \in Turns, OpenTurn(t) PROVE Placed'
  BY <1>8 DEF OpenTurn, PatchHook, Forget, PastBarrier
<1>9. ASSUME NEW t \in Turns, BeginStream(t) PROVE Placed'
  BY <1>9 DEF BeginStream
<1>10. ASSUME NEW t \in Turns, TurnThrows(t) PROVE Placed'
  BY <1>10 DEF TurnThrows, Dequeue, CloseOwn, Forget, PastBarrier
<1>11. ASSUME NEW t \in Turns, SdkYields(t) PROVE Placed'
  BY <1>11 DEF SdkYields
<1>12. ASSUME NEW t \in Turns, Receive(t) PROVE Placed'
  BY <1>12 DEF Receive, Emits, MayForward
<1>13. ASSUME NEW t \in Turns, Watchdog(t) PROVE Placed'
  BY <1>13 DEF Watchdog
<1>14. ASSUME NEW t \in Turns, StreamEnds(t) PROVE Placed'
  BY <1>14 DEF StreamEnds, LeaveLoop, Emits, MayForward
<1>15. ASSUME NEW t \in Turns, Sever(t) PROVE Placed'
  BY <1>15 DEF Sever, LeaveLoop, Severs
<1>16. ASSUME NEW t \in Turns, FinalizeRetries(t) PROVE Placed'
  BY <1>16 DEF FinalizeRetries, Retries, FinalizeRun, Retire, Dequeue, Forget
<1>17. ASSUME NEW t \in Turns, FinalizeReturns(t) PROVE Placed'
  BY <1>17 DEF FinalizeReturns, Retries, FinalizeRun, Retire, Dequeue,
     Forget, CloseOwn, Emits
<1>18. ASSUME NEW t \in Turns, Cancel(t) PROVE Placed'
  BY <1>18 DEF Cancel, Retire
<1>19. ASSUME NEW t \in Turns, GraceExpires(t) PROVE Placed'
  BY <1>19 DEF GraceExpires
<1>20. ASSUME HealDone PROVE Placed'
  BY <1>20 DEF HealDone
<1>21. ASSUME Evict PROVE Placed'
  BY <1>21 DEF Evict
<1>22. ASSUME Restart PROVE Placed'
  BY <1>22 DEF Restart, Over
<1>23. ASSUME UNCHANGED vars PROVE Placed'
  BY <1>23 DEF vars
<1> QED
  BY <1>1, <1>2, <1>3, <1>4, <1>5, <1>6, <1>7, <1>8, <1>9, <1>10, <1>11,
     <1>12, <1>13, <1>14, <1>15, <1>16, <1>17, <1>18, <1>19, <1>20, <1>21,
     <1>22, <1>23, NextCases

(* Attempts are counted once and checked before the backoff.                *)
LEMMA CountedStep ==
  ASSUME TypeOK, Counted, [Next]_vars
  PROVE  Counted'
<1> USE DEF At, Goes, runVars, healVars, poolVars, loopVars,
           TypeOK, Counted, PCs
<1>1. ASSUME NEW t \in Turns, Accept(t) PROVE Counted'
  BY <1>1 DEF Accept
<1>2. ASSUME NEW t \in Turns, EnterPool(t) PROVE Counted'
  BY <1>2 DEF EnterPool, Barrier
<1>3. ASSUME NEW t \in Turns, Route(t) PROVE Counted'
  BY <1>3 DEF Route, New, Fresh
<1>4. ASSUME NEW t \in Turns, SpawnThrows(t) PROVE Counted'
  BY <1>4 DEF SpawnThrows, PastBarrier
<1>5. ASSUME NEW t \in Turns, Attempt(t) PROVE Counted'
  BY <1>5 DEF Attempt, StopSeen
<1>6. ASSUME NEW t \in Turns, AttemptAborts(t) PROVE Counted'
  BY <1>6 DEF AttemptAborts, StopSeen, CloseOwn, Forget
<1>7. ASSUME NEW t \in Turns, ReachHead(t) PROVE Counted'
  BY <1>7 DEF ReachHead, Barrier
<1>8. ASSUME NEW t \in Turns, OpenTurn(t) PROVE Counted'
  BY <1>8 DEF OpenTurn, PatchHook, Forget, PastBarrier
<1>9. ASSUME NEW t \in Turns, BeginStream(t) PROVE Counted'
  BY <1>9 DEF BeginStream
<1>10. ASSUME NEW t \in Turns, TurnThrows(t) PROVE Counted'
  BY <1>10 DEF TurnThrows, Dequeue, CloseOwn, Forget, PastBarrier
<1>11. ASSUME NEW t \in Turns, SdkYields(t) PROVE Counted'
  BY <1>11 DEF SdkYields
<1>12. ASSUME NEW t \in Turns, Receive(t) PROVE Counted'
  BY <1>12 DEF Receive, Emits, MayForward
<1>13. ASSUME NEW t \in Turns, Watchdog(t) PROVE Counted'
  BY <1>13 DEF Watchdog
<1>14. ASSUME NEW t \in Turns, StreamEnds(t) PROVE Counted'
  BY <1>14 DEF StreamEnds, LeaveLoop, Emits, MayForward
<1>15. ASSUME NEW t \in Turns, Sever(t) PROVE Counted'
  BY <1>15 DEF Sever, LeaveLoop, Severs
<1>16. ASSUME NEW t \in Turns, FinalizeRetries(t) PROVE Counted'
  BY <1>16 DEF FinalizeRetries, Retries, FinalizeRun, Retire, Dequeue, Forget
<1>17. ASSUME NEW t \in Turns, FinalizeReturns(t) PROVE Counted'
  BY <1>17 DEF FinalizeReturns, Retries, FinalizeRun, Retire, Dequeue,
     Forget, CloseOwn, Emits
<1>18. ASSUME NEW t \in Turns, Cancel(t) PROVE Counted'
  BY <1>18 DEF Cancel, Retire
<1>19. ASSUME NEW t \in Turns, GraceExpires(t) PROVE Counted'
  BY <1>19 DEF GraceExpires
<1>20. ASSUME HealDone PROVE Counted'
  BY <1>20 DEF HealDone
<1>21. ASSUME Evict PROVE Counted'
  BY <1>21 DEF Evict
<1>22. ASSUME Restart PROVE Counted'
  BY <1>22 DEF Restart, Over
<1>23. ASSUME UNCHANGED vars PROVE Counted'
  BY <1>23 DEF vars
<1> QED
  BY <1>1, <1>2, <1>3, <1>4, <1>5, <1>6, <1>7, <1>8, <1>9, <1>10, <1>11,
     <1>12, <1>13, <1>14, <1>15, <1>16, <1>17, <1>18, <1>19, <1>20, <1>21,
     <1>22, <1>23, NextCases

LEMMA AppendAddsOne ==
  ASSUME NEW S, NEW q \in Seq(S), NEW x \in S
  PROVE  /\ Len(Append(q, x)) = Len(q) + 1
         /\ \A i \in 1 .. Len(q) + 1 :
              \/ i = Len(q) + 1 /\ Append(q, x)[i] = x
              \/ i \in 1 .. Len(q) /\ Append(q, x)[i] = q[i]
OBVIOUS

(* A repair goes to the end of the chain.                                   *)
LEMMA CancelAppends ==
  ASSUME TypeOK, NEW t \in Turns, Cancel(t)
  PROVE  /\ Len(heals') = Len(heals) + 1
         /\ \A i \in 1 .. Len(heals') :
              \/ i = Len(heals) + 1 /\ heals'[i] = t
              \/ i \in 1 .. Len(heals) /\ heals'[i] = heals[i]
<1>1. heals \in Seq(Turns) /\ heals' = Append(heals, t)
  BY DEF TypeOK, Cancel
<1> QED
  BY ONLY <1>1, AppendAddsOne

LEMMA CancelMarks ==
  ASSUME TypeOK, Marks, NEW t \in Turns, Cancel(t)
  PROVE  \A i \in 1 .. Len(heals') : heals'[i] \in stopped'
<1> SUFFICES ASSUME NEW i \in 1 .. Len(heals') PROVE heals'[i] \in stopped'
  OBVIOUS
<1>1. \/ heals'[i] = t
      \/ i \in 1 .. Len(heals) /\ heals'[i] = heals[i]
  BY CancelAppends
<1> QED
  BY <1>1 DEF Marks, Cancel

(* A run that Stop has met leaves the index and does not come back.         *)
LEMMA MarksStep ==
  ASSUME TypeOK, Marks, IndexAgrees, [Next]_vars
  PROVE  Marks'
<1> USE DEF At, Goes, runVars, healVars, poolVars, loopVars,
           TypeOK, Marks, IndexAgrees, PCs
<1>1. ASSUME NEW t \in Turns, Accept(t) PROVE Marks'
  BY <1>1 DEF Accept
<1>2. ASSUME NEW t \in Turns, EnterPool(t) PROVE Marks'
  BY <1>2 DEF EnterPool, Barrier
<1>3. ASSUME NEW t \in Turns, Route(t) PROVE Marks'
  BY <1>3 DEF Route, New, Fresh
<1>4. ASSUME NEW t \in Turns, SpawnThrows(t) PROVE Marks'
  BY <1>4 DEF SpawnThrows, PastBarrier
<1>5. ASSUME NEW t \in Turns, Attempt(t) PROVE Marks'
  BY <1>5 DEF Attempt, StopSeen
<1>6. ASSUME NEW t \in Turns, AttemptAborts(t) PROVE Marks'
  BY <1>6 DEF AttemptAborts, StopSeen, CloseOwn, Forget
<1>7. ASSUME NEW t \in Turns, ReachHead(t) PROVE Marks'
  BY <1>7 DEF ReachHead, Barrier
<1>8. ASSUME NEW t \in Turns, OpenTurn(t) PROVE Marks'
  BY <1>8 DEF OpenTurn, PatchHook, Forget, PastBarrier
<1>9. ASSUME NEW t \in Turns, BeginStream(t) PROVE Marks'
  BY <1>9 DEF BeginStream
<1>10. ASSUME NEW t \in Turns, TurnThrows(t) PROVE Marks'
  BY <1>10 DEF TurnThrows, Dequeue, CloseOwn, Forget, PastBarrier
<1>11. ASSUME NEW t \in Turns, SdkYields(t) PROVE Marks'
  BY <1>11 DEF SdkYields
<1>12. ASSUME NEW t \in Turns, Receive(t) PROVE Marks'
  BY <1>12 DEF Receive, Emits, MayForward
<1>13. ASSUME NEW t \in Turns, Watchdog(t) PROVE Marks'
  BY <1>13 DEF Watchdog
<1>14. ASSUME NEW t \in Turns, StreamEnds(t) PROVE Marks'
  BY <1>14 DEF StreamEnds, LeaveLoop, Emits, MayForward
<1>15. ASSUME NEW t \in Turns, Sever(t) PROVE Marks'
  BY <1>15 DEF Sever, LeaveLoop, Severs
<1>16. ASSUME NEW t \in Turns, FinalizeRetries(t) PROVE Marks'
  BY <1>16 DEF FinalizeRetries, Retries, FinalizeRun, Retire, Dequeue, Forget
<1>17. ASSUME NEW t \in Turns, FinalizeReturns(t) PROVE Marks'
  BY <1>17 DEF FinalizeReturns, Retries, FinalizeRun, Retire, Dequeue,
     Forget, CloseOwn, Emits
<1>18. ASSUME NEW t \in Turns, Cancel(t) PROVE Marks'
  <2>1. \A i \in 1 .. Len(heals') : heals'[i] \in stopped'
    BY <1>18, CancelMarks
  <2> QED
    BY <1>18, <2>1 DEF Cancel, Retire
<1>19. ASSUME NEW t \in Turns, GraceExpires(t) PROVE Marks'
  BY <1>19 DEF GraceExpires
<1>20. ASSUME HealDone PROVE Marks'
  BY <1>20 DEF HealDone
<1>21. ASSUME Evict PROVE Marks'
  BY <1>21 DEF Evict
<1>22. ASSUME Restart PROVE Marks'
  BY <1>22 DEF Restart, Over
<1>23. ASSUME UNCHANGED vars PROVE Marks'
  BY <1>23 DEF vars
<1> QED
  BY <1>1, <1>2, <1>3, <1>4, <1>5, <1>6, <1>7, <1>8, <1>9, <1>10, <1>11,
     <1>12, <1>13, <1>14, <1>15, <1>16, <1>17, <1>18, <1>19, <1>20, <1>21,
     <1>22, <1>23, NextCases

(* Record and index are written together, and after its first attempt a run *)
(* is in neither.                                                           *)
LEMMA IndexStep ==
  ASSUME TypeOK, Counted, Marks, IndexAgrees, [Next]_vars
  PROVE  IndexAgrees'
<1> USE DEF At, Goes, runVars, healVars, poolVars, loopVars,
           TypeOK, Counted, Marks, IndexAgrees, Findable, PCs
<1>1. ASSUME NEW t \in Turns, Accept(t) PROVE IndexAgrees'
  BY <1>1 DEF Accept
<1>2. ASSUME NEW t \in Turns, EnterPool(t) PROVE IndexAgrees'
  BY <1>2 DEF EnterPool, Barrier
<1>3. ASSUME NEW t \in Turns, Route(t) PROVE IndexAgrees'
  <2>1. /\ pc[t] = "entering" /\ pc' = [pc EXCEPT ![t] = "handed"]
        /\ UNCHANGED <<rec, active, stopped, attempt>>
    BY <1>3 DEF Route
  <2> QED
    BY <2>1
<1>4. ASSUME NEW t \in Turns, SpawnThrows(t) PROVE IndexAgrees'
  BY <1>4 DEF SpawnThrows, PastBarrier
<1>5. ASSUME NEW t \in Turns, Attempt(t) PROVE IndexAgrees'
  BY <1>5 DEF Attempt, StopSeen
<1>6. ASSUME NEW t \in Turns, AttemptAborts(t) PROVE IndexAgrees'
  BY <1>6 DEF AttemptAborts, StopSeen, CloseOwn, Forget
<1>7. ASSUME NEW t \in Turns, ReachHead(t) PROVE IndexAgrees'
  BY <1>7 DEF ReachHead, Barrier
<1>8. ASSUME NEW t \in Turns, OpenTurn(t) PROVE IndexAgrees'
  BY <1>8 DEF OpenTurn, PatchHook, Forget, PastBarrier
<1>9. ASSUME NEW t \in Turns, BeginStream(t) PROVE IndexAgrees'
  BY <1>9 DEF BeginStream
<1>10. ASSUME NEW t \in Turns, TurnThrows(t) PROVE IndexAgrees'
  BY <1>10 DEF TurnThrows, Dequeue, CloseOwn, Forget, PastBarrier
<1>11. ASSUME NEW t \in Turns, SdkYields(t) PROVE IndexAgrees'
  BY <1>11 DEF SdkYields
<1>12. ASSUME NEW t \in Turns, Receive(t) PROVE IndexAgrees'
  BY <1>12 DEF Receive, Emits, MayForward
<1>13. ASSUME NEW t \in Turns, Watchdog(t) PROVE IndexAgrees'
  BY <1>13 DEF Watchdog
<1>14. ASSUME NEW t \in Turns, StreamEnds(t) PROVE IndexAgrees'
  BY <1>14 DEF StreamEnds, LeaveLoop, Emits, MayForward
<1>15. ASSUME NEW t \in Turns, Sever(t) PROVE IndexAgrees'
  BY <1>15 DEF Sever, LeaveLoop, Severs
<1>16. ASSUME NEW t \in Turns, FinalizeRetries(t) PROVE IndexAgrees'
  <2>1. ~ cancelled[t] /\ ~ snapshot[t]
    BY <1>16 DEF FinalizeRetries, Retries
  <2>2. /\ active' = active \ {t}
        /\ \E r \in {"failed", "completed"} : rec' = [rec EXCEPT ![t] = r]
        /\ pc' = [pc EXCEPT ![t] = "backoff"]
        /\ stopped' = stopped /\ attempt' = attempt
    BY <1>16, <2>1 DEF FinalizeRetries, FinalizeRun, Retire
  <2> QED
    BY <2>2
<1>17. ASSUME NEW t \in Turns, FinalizeReturns(t) PROVE IndexAgrees'
  <2>1. /\ pc' = [pc EXCEPT ![t] = "returned"]
        /\ stopped' = stopped /\ attempt' = attempt
    BY <1>17 DEF FinalizeReturns
  <2>2. CASE snapshot[t]
    <3>1. active' = active /\ rec' = rec /\ t \notin active
      BY <1>17, <2>2 DEF FinalizeReturns, FinalizeRun
    <3> QED
      BY <2>1, <3>1
  <2>3. CASE ~ snapshot[t]
    <3>1. /\ active' = active \ {t}
          /\ \E r \in {"failed", "completed"} : rec' = [rec EXCEPT ![t] = r]
      BY <1>17, <2>3 DEF FinalizeReturns, FinalizeRun, Retire
    <3> QED
      BY <2>1, <3>1
  <2> QED
    BY <2>2, <2>3
<1>18. ASSUME NEW t \in Turns, Cancel(t) PROVE IndexAgrees'
  BY <1>18 DEF Cancel, Retire
<1>19. ASSUME NEW t \in Turns, GraceExpires(t) PROVE IndexAgrees'
  BY <1>19 DEF GraceExpires
<1>20. ASSUME HealDone PROVE IndexAgrees'
  BY <1>20 DEF HealDone
<1>21. ASSUME Evict PROVE IndexAgrees'
  BY <1>21 DEF Evict
<1>22. ASSUME Restart PROVE IndexAgrees'
  BY <1>22 DEF Restart, Over
<1>23. ASSUME UNCHANGED vars PROVE IndexAgrees'
  BY <1>23 DEF vars
<1> QED
  BY <1>1, <1>2, <1>3, <1>4, <1>5, <1>6, <1>7, <1>8, <1>9, <1>10, <1>11,
     <1>12, <1>13, <1>14, <1>15, <1>16, <1>17, <1>18, <1>19, <1>20, <1>21,
     <1>22, <1>23, NextCases

(* The hook of an attempt is set before its first await.                    *)
LEMMA HookStep ==
  ASSUME TypeOK, Hooked, [Next]_vars
  PROVE  Hooked'
<1> USE DEF At, Goes, runVars, healVars, poolVars, loopVars,
           TypeOK, Hooked, PCs
<1>1. ASSUME NEW t \in Turns, Accept(t) PROVE Hooked'
  BY <1>1 DEF Accept
<1>2. ASSUME NEW t \in Turns, EnterPool(t) PROVE Hooked'
  BY <1>2 DEF EnterPool, Barrier
<1>3. ASSUME NEW t \in Turns, Route(t) PROVE Hooked'
  BY <1>3 DEF Route, New, Fresh
<1>4. ASSUME NEW t \in Turns, SpawnThrows(t) PROVE Hooked'
  BY <1>4 DEF SpawnThrows, PastBarrier
<1>5. ASSUME NEW t \in Turns, Attempt(t) PROVE Hooked'
  BY <1>5 DEF Attempt, StopSeen
<1>6. ASSUME NEW t \in Turns, AttemptAborts(t) PROVE Hooked'
  BY <1>6 DEF AttemptAborts, StopSeen, CloseOwn, Forget
<1>7. ASSUME NEW t \in Turns, ReachHead(t) PROVE Hooked'
  BY <1>7 DEF ReachHead, Barrier
<1>8. ASSUME NEW t \in Turns, OpenTurn(t) PROVE Hooked'
  BY <1>8 DEF OpenTurn, PatchHook, Forget, PastBarrier
<1>9. ASSUME NEW t \in Turns, BeginStream(t) PROVE Hooked'
  BY <1>9 DEF BeginStream
<1>10. ASSUME NEW t \in Turns, TurnThrows(t) PROVE Hooked'
  BY <1>10 DEF TurnThrows, Dequeue, CloseOwn, Forget, PastBarrier
<1>11. ASSUME NEW t \in Turns, SdkYields(t) PROVE Hooked'
  BY <1>11 DEF SdkYields
<1>12. ASSUME NEW t \in Turns, Receive(t) PROVE Hooked'
  BY <1>12 DEF Receive, Emits, MayForward
<1>13. ASSUME NEW t \in Turns, Watchdog(t) PROVE Hooked'
  BY <1>13 DEF Watchdog
<1>14. ASSUME NEW t \in Turns, StreamEnds(t) PROVE Hooked'
  BY <1>14 DEF StreamEnds, LeaveLoop, Emits, MayForward
<1>15. ASSUME NEW t \in Turns, Sever(t) PROVE Hooked'
  BY <1>15 DEF Sever, LeaveLoop, Severs
<1>16. ASSUME NEW t \in Turns, FinalizeRetries(t) PROVE Hooked'
  BY <1>16 DEF FinalizeRetries, Retries, FinalizeRun, Retire, Dequeue, Forget
<1>17. ASSUME NEW t \in Turns, FinalizeReturns(t) PROVE Hooked'
  BY <1>17 DEF FinalizeReturns, Retries, FinalizeRun, Retire, Dequeue,
     Forget, CloseOwn, Emits
<1>18. ASSUME NEW t \in Turns, Cancel(t) PROVE Hooked'
  BY <1>18 DEF Cancel, Retire
<1>19. ASSUME NEW t \in Turns, GraceExpires(t) PROVE Hooked'
  BY <1>19 DEF GraceExpires
<1>20. ASSUME HealDone PROVE Hooked'
  BY <1>20 DEF HealDone
<1>21. ASSUME Evict PROVE Hooked'
  BY <1>21 DEF Evict
<1>22. ASSUME Restart PROVE Hooked'
  BY <1>22 DEF Restart, Over
<1>23. ASSUME UNCHANGED vars PROVE Hooked'
  BY <1>23 DEF vars
<1> QED
  BY <1>1, <1>2, <1>3, <1>4, <1>5, <1>6, <1>7, <1>8, <1>9, <1>10, <1>11,
     <1>12, <1>13, <1>14, <1>15, <1>16, <1>17, <1>18, <1>19, <1>20, <1>21,
     <1>22, <1>23, NextCases

(* What a Stop has left of a run stays as it is.                            *)
LEMMA LeftStep ==
  ASSUME TypeOK, Counted, Marks, IndexAgrees, Hooked, Left, [Next]_vars
  PROVE  Left'
<1> USE DEF At, Goes, runVars, healVars, poolVars, loopVars,
           TypeOK, Marks, Left, Remains, Over, PCs
<1>1. ASSUME NEW t \in Turns, Accept(t) PROVE Left'
  BY <1>1 DEF Accept
<1>2. ASSUME NEW t \in Turns, EnterPool(t) PROVE Left'
  BY <1>2 DEF EnterPool, Barrier
<1>3. ASSUME NEW t \in Turns, Route(t) PROVE Left'
  BY <1>3 DEF Route, New, Fresh
<1>4. ASSUME NEW t \in Turns, SpawnThrows(t) PROVE Left'
  BY <1>4 DEF SpawnThrows, PastBarrier
<1>5. ASSUME NEW t \in Turns, Attempt(t) PROVE Left'
  BY <1>5 DEF Attempt, StopSeen
<1>6. ASSUME NEW t \in Turns, AttemptAborts(t) PROVE Left'
  BY <1>6 DEF AttemptAborts, StopSeen, CloseOwn, Forget
<1>7. ASSUME NEW t \in Turns, ReachHead(t) PROVE Left'
  BY <1>7 DEF ReachHead, Barrier
<1>8. ASSUME NEW t \in Turns, OpenTurn(t) PROVE Left'
  BY <1>8 DEF OpenTurn, PatchHook, Forget, PastBarrier
<1>9. ASSUME NEW t \in Turns, BeginStream(t) PROVE Left'
  BY <1>9 DEF BeginStream
<1>10. ASSUME NEW t \in Turns, TurnThrows(t) PROVE Left'
  BY <1>10 DEF TurnThrows, Dequeue, CloseOwn, Forget, PastBarrier
<1>11. ASSUME NEW t \in Turns, SdkYields(t) PROVE Left'
  BY <1>11 DEF SdkYields
<1>12. ASSUME NEW t \in Turns, Receive(t) PROVE Left'
  BY <1>12 DEF Receive, Emits, MayForward
<1>13. ASSUME NEW t \in Turns, Watchdog(t) PROVE Left'
  BY <1>13 DEF Watchdog
<1>14. ASSUME NEW t \in Turns, StreamEnds(t) PROVE Left'
  <2>1. ~ cancelled[t] /\ pc[t] = "streaming"
    BY <1>14 DEF StreamEnds
  <2>2. /\ stopped' = stopped /\ attempt' = attempt /\ atStop' = atStop
        /\ cancelled' = cancelled /\ pc' = [pc EXCEPT ![t] = "finalizing"]
        /\ \A u \in Turns : u # t => sent'[u] = sent[u]
    BY <1>14 DEF StreamEnds, LeaveLoop, Emits
  <2>3. t \in stopped => atStop[t].at = "queued" /\ attempt[t] = 1
    BY <2>1
  <2>4. \A u \in stopped : u # t => Remains(u)'
    BY <2>2
  <2> QED
    BY <2>2, <2>3, <2>4
<1>15. ASSUME NEW t \in Turns, Sever(t) PROVE Left'
  BY <1>15 DEF Sever, LeaveLoop, Severs
<1>16. ASSUME NEW t \in Turns, FinalizeRetries(t) PROVE Left'
  BY <1>16 DEF FinalizeRetries, Retries, FinalizeRun, Retire, Dequeue, Forget
<1>17. ASSUME NEW t \in Turns, FinalizeReturns(t) PROVE Left'
  BY <1>17 DEF FinalizeReturns, Retries, FinalizeRun, Retire, Dequeue,
     Forget, CloseOwn, Emits
<1>18. ASSUME NEW t \in Turns, Cancel(t) PROVE Left'
  <2>1. t \in active /\ t \notin stopped
    BY <1>18 DEF Cancel
  <2>2. \/ pc[t] = "threw" /\ attempt[t] <= 1
        \/ pc[t] \in {"accepted", "entering", "handed"} /\ attempt[t] = 0
        \/ /\ attempt[t] = 1
           /\ pc[t] \in {"queued", "barrier", "opening", "streaming",
                        "finalizing"}
    BY <2>1 DEF IndexAgrees, Findable, Counted
  <2>3. pc[t] \in {"opening", "streaming", "finalizing"} => cancelled'[t]
    BY <1>18, <2>1 DEF Cancel, Hooked
  <2>4. atStop'[t] = [at |-> Stage(t), sent |-> sent[t]]
    BY <1>18 DEF Cancel
  <2>5. Remains(t)'
    BY <1>18, <2>2, <2>3, <2>4 DEF Cancel, Stage
  <2>6. \A u \in stopped : u # t => Remains(u)'
    BY <1>18 DEF Cancel
  <2> QED
    BY <1>18, <2>5, <2>6 DEF Cancel
<1>19. ASSUME NEW t \in Turns, GraceExpires(t) PROVE Left'
  BY <1>19 DEF GraceExpires
<1>20. ASSUME HealDone PROVE Left'
  BY <1>20 DEF HealDone
<1>21. ASSUME Evict PROVE Left'
  BY <1>21 DEF Evict
<1>22. ASSUME Restart PROVE Left'
  BY <1>22 DEF Restart
<1>23. ASSUME UNCHANGED vars PROVE Left'
  BY <1>23 DEF vars
<1> QED
  BY <1>1, <1>2, <1>3, <1>4, <1>5, <1>6, <1>7, <1>8, <1>9, <1>10, <1>11,
     <1>12, <1>13, <1>14, <1>15, <1>16, <1>17, <1>18, <1>19, <1>20, <1>21,
     <1>22, <1>23, NextCases

LEMMA AppendKeepsHead ==
  ASSUME NEW S, NEW q \in Seq(S), q # <<>>, NEW x \in S
  PROVE  Append(q, x) # <<>> /\ Head(Append(q, x)) = Head(q)
OBVIOUS

(* No other turn on the adapter is in progress when its head settles.       *)
LEMMA LeavesQueue ==
  ASSUME TypeOK, Placed, Serial, NEW t \in Turns, pc[t] \in InTurn,
         adapter' = adapter, Dequeue(t),
         NEW g \in {"backoff", "returned", "threw"},
         pc' = [pc EXCEPT ![t] = g]
  PROVE  Serial'
<1> SUFFICES ASSUME NEW u \in Turns, pc'[u] \in InTurn
             PROVE  AtHead(u)'
  BY DEF Serial
<1>1. u # t /\ pc[u] \in InTurn
  BY DEF TypeOK, InTurn
<1>2. AtHead(u) /\ AtHead(t)
  BY <1>1 DEF Serial
<1>3. adapter[u] # adapter[t]
  BY <1>1, <1>2 DEF AtHead
<1>4. queue'[adapter[u]] = queue[adapter[u]]
  BY <1>1, <1>3 DEF Dequeue, TypeOK, Placed, Working, InTurn
<1> QED
  BY <1>2, <1>4 DEF AtHead

(* One turn per adapter is past its queue.                                  *)
LEMMA SerialStep ==
  ASSUME TypeOK, Placed, Serial, [Next]_vars
  PROVE  Serial'
<1> USE DEF At, Goes, runVars, healVars, poolVars, loopVars,
           TypeOK, Placed, Serial, AtHead, InTurn, Working, PCs
<1>1. ASSUME NEW t \in Turns, Accept(t) PROVE Serial'
  BY <1>1 DEF Accept
<1>2. ASSUME NEW t \in Turns, EnterPool(t) PROVE Serial'
  BY <1>2 DEF EnterPool, Barrier
<1>3. ASSUME NEW t \in Turns, Route(t) PROVE Serial'
  BY <1>3 DEF Route, New, Fresh
<1>4. ASSUME NEW t \in Turns, SpawnThrows(t) PROVE Serial'
  BY <1>4 DEF SpawnThrows, PastBarrier
<1>5. ASSUME NEW t \in Turns, Attempt(t) PROVE Serial'
  <2> SUFFICES ASSUME NEW u \in Turns, pc'[u] \in InTurn
               PROVE  AtHead(u)'
    BY DEF Serial
  <2>1. u # t /\ pc[u] \in InTurn
    BY <1>5 DEF Attempt
  <2>2. queue[adapter[u]] # <<>> /\ Head(queue[adapter[u]]) = u
    BY <2>1
  <2>3. adapter[u] \in Adapters /\ queue[adapter[u]] \in Seq(Turns)
    BY <2>1
  <2>4. \/ queue'[adapter[u]] = queue[adapter[u]]
        \/ queue'[adapter[u]] = Append(queue[adapter[u]], t)
    BY <1>5, <2>3 DEF Attempt
  <2>5. queue'[adapter[u]] # <<>> /\ Head(queue'[adapter[u]]) = u
    <3> HIDE DEF TypeOK, Placed, Serial
    <3> QED
      BY <2>2, <2>3, <2>4, AppendKeepsHead
  <2> QED
    BY <1>5, <2>5 DEF Attempt
<1>6. ASSUME NEW t \in Turns, AttemptAborts(t) PROVE Serial'
  BY <1>6 DEF AttemptAborts, StopSeen, CloseOwn, Forget
<1>7. ASSUME NEW t \in Turns, ReachHead(t) PROVE Serial'
  BY <1>7 DEF ReachHead, Barrier
<1>8. ASSUME NEW t \in Turns, OpenTurn(t) PROVE Serial'
  BY <1>8 DEF OpenTurn, PatchHook, Forget, PastBarrier
<1>9. ASSUME NEW t \in Turns, BeginStream(t) PROVE Serial'
  BY <1>9 DEF BeginStream
<1>10. ASSUME NEW t \in Turns, TurnThrows(t) PROVE Serial'
  BY <1>10 DEF TurnThrows, Dequeue, CloseOwn, Forget, PastBarrier
<1>11. ASSUME NEW t \in Turns, SdkYields(t) PROVE Serial'
  BY <1>11 DEF SdkYields
<1>12. ASSUME NEW t \in Turns, Receive(t) PROVE Serial'
  BY <1>12 DEF Receive, Emits, MayForward
<1>13. ASSUME NEW t \in Turns, Watchdog(t) PROVE Serial'
  BY <1>13 DEF Watchdog
<1>14. ASSUME NEW t \in Turns, StreamEnds(t) PROVE Serial'
  BY <1>14 DEF StreamEnds, LeaveLoop, Emits, MayForward
<1>15. ASSUME NEW t \in Turns, Sever(t) PROVE Serial'
  BY <1>15 DEF Sever, LeaveLoop, Severs
<1>16. ASSUME NEW t \in Turns, FinalizeRetries(t) PROVE Serial'
  <2>1. pc[t] = "finalizing" /\ adapter' = adapter /\ Dequeue(t)
        /\ \E g \in {"backoff", "returned"} : pc' = [pc EXCEPT ![t] = g]
    BY <1>16 DEF FinalizeRetries
  <2> QED
    BY <2>1, LeavesQueue
<1>17. ASSUME NEW t \in Turns, FinalizeReturns(t) PROVE Serial'
  <2>1. pc[t] = "finalizing" /\ adapter' = adapter /\ Dequeue(t)
        /\ \E g \in {"backoff", "returned"} : pc' = [pc EXCEPT ![t] = g]
    BY <1>17 DEF FinalizeReturns
  <2> QED
    BY <2>1, LeavesQueue
<1>18. ASSUME NEW t \in Turns, Cancel(t) PROVE Serial'
  BY <1>18 DEF Cancel, Retire
<1>19. ASSUME NEW t \in Turns, GraceExpires(t) PROVE Serial'
  BY <1>19 DEF GraceExpires
<1>20. ASSUME HealDone PROVE Serial'
  BY <1>20 DEF HealDone
<1>21. ASSUME Evict PROVE Serial'
  BY <1>21 DEF Evict
<1>22. ASSUME Restart PROVE Serial'
  BY <1>22 DEF Restart, Over
<1>23. ASSUME UNCHANGED vars PROVE Serial'
  BY <1>23 DEF vars
<1> QED
  BY <1>1, <1>2, <1>3, <1>4, <1>5, <1>6, <1>7, <1>8, <1>9, <1>10, <1>11,
     <1>12, <1>13, <1>14, <1>15, <1>16, <1>17, <1>18, <1>19, <1>20, <1>21,
     <1>22, <1>23, NextCases

LEMMA ForgetTypes ==
  ASSUME TypeOK, NEW t \in Turns, Forget(t)
  PROVE  /\ cancelled' \in [Turns -> BOOLEAN]
         /\ snapshot' \in [Turns -> BOOLEAN]
         /\ timedOut' \in [Turns -> BOOLEAN]
         /\ failure' \in [Turns -> Failures]
         /\ inbox' \in [Turns -> BOOLEAN]
BY DEF TypeOK, Forget, Failures

LEMMA JoinTypes ==
  ASSUME TypeOK, NEW t \in Turns, adapter[t] \in Adapters
  PROVE  [queue EXCEPT ![adapter[t]] = Append(@, t)]
           \in [Adapters -> Seq(Turns)]
BY DEF TypeOK

LEMMA DequeueTypes ==
  ASSUME TypeOK, Placed, Serial, NEW t \in Turns, pc[t] \in InTurn,
         Dequeue(t)
  PROVE  queue' \in [Adapters -> Seq(Turns)]
<1>1. adapter[t] \in Adapters /\ queue[adapter[t]] # <<>>
  BY DEF Placed, Serial, AtHead, InTurn, Working
<1>2. Tail(queue[adapter[t]]) \in Seq(Turns)
  BY <1>1 DEF TypeOK
<1> QED
  BY <1>1, <1>2 DEF TypeOK, Dequeue

LEMMA CloseTypes ==
  ASSUME TypeOK, NEW t \in Turns, adapter[t] \in Adapters, CloseOwn(t)
  PROVE  dead' \in SUBSET Adapters
BY DEF TypeOK, CloseOwn

LEMMA FinalTypes ==
  ASSUME TypeOK, NEW t \in Turns, FinalizeRun(t)
  PROVE  /\ rec' \in [Turns -> {"none", "running", "completed", "failed",
                                "cancelled"}]
         /\ active' \in SUBSET Turns
         /\ hook' \in [Turns -> {"none", "noop", "turn"}]
BY DEF TypeOK, FinalizeRun, Retire

LEMMA EmitTypes ==
  ASSUME TypeOK, NEW t \in Turns, NEW n \in {0, 1}, Emits(t, n)
  PROVE  sent' \in [Turns -> 0 .. MaxFrames]
BY TurnAssumption DEF TypeOK, Emits

LEMMA CountHeals == ASSUME TypeOK PROVE Len(heals) \in Nat /\ healed \in Nat
BY DEF TypeOK

(* Types.                                                                   *)
LEMMA TypeStep ==
  ASSUME TypeOK, Placed, Counted, Serial, [Next]_vars
  PROVE  TypeOK'
<1> USE DEF At, Goes, runVars, healVars, poolVars, loopVars,
           TypeOK, PCs
<1>1. ASSUME NEW t \in Turns, Accept(t) PROVE TypeOK'
  BY <1>1 DEF Accept
<1>2. ASSUME NEW t \in Turns, EnterPool(t) PROVE TypeOK'
  BY <1>2 DEF EnterPool, Barrier
<1>3. ASSUME NEW t \in Turns, Route(t) PROVE TypeOK'
  BY <1>3 DEF Route, New, Fresh
<1>4. ASSUME NEW t \in Turns, SpawnThrows(t) PROVE TypeOK'
  BY <1>4 DEF SpawnThrows, PastBarrier
<1>5. ASSUME NEW t \in Turns, Attempt(t) PROVE TypeOK'
  <2>1. adapter[t] \in Adapters
    BY <1>5 DEF Attempt, Placed, Working
  <2>2. attempt[t] + 1 \in 0 .. MaxAttempts
    BY <1>5, TurnAssumption DEF Attempt, Counted
  <2>3. queue' \in [Adapters -> Seq(Turns)]
    BY <1>5, <2>1, JoinTypes DEF Attempt
  <2> QED
    BY <1>5, <2>2, <2>3 DEF Attempt
<1>6. ASSUME NEW t \in Turns, AttemptAborts(t) PROVE TypeOK'
  <2>1. dead' \in SUBSET Adapters
    BY <1>6, CloseTypes DEF AttemptAborts, Placed, Working
  <2> QED
    BY <1>6, <2>1, ForgetTypes DEF AttemptAborts
<1>7. ASSUME NEW t \in Turns, ReachHead(t) PROVE TypeOK'
  BY <1>7, CountHeals DEF ReachHead, Barrier
<1>8. ASSUME NEW t \in Turns, OpenTurn(t) PROVE TypeOK'
  BY <1>8, ForgetTypes DEF OpenTurn, PatchHook
<1>9. ASSUME NEW t \in Turns, BeginStream(t) PROVE TypeOK'
  BY <1>9 DEF BeginStream
<1>10. ASSUME NEW t \in Turns, TurnThrows(t) PROVE TypeOK'
  <2>1. pc[t] \in InTurn /\ adapter[t] \in Adapters
    BY <1>10 DEF TurnThrows, Placed, Working, InTurn
  <2>2. dead' \in SUBSET Adapters /\ queue' \in [Adapters -> Seq(Turns)]
    BY <1>10, <2>1, CloseTypes, DequeueTypes DEF TurnThrows
  <2> QED
    BY <1>10, <2>2, ForgetTypes DEF TurnThrows
<1>11. ASSUME NEW t \in Turns, SdkYields(t) PROVE TypeOK'
  BY <1>11 DEF SdkYields
<1>12. ASSUME NEW t \in Turns, Receive(t) PROVE TypeOK'
  BY <1>12 DEF Receive, Emits, MayForward
<1>13. ASSUME NEW t \in Turns, Watchdog(t) PROVE TypeOK'
  BY <1>13 DEF Watchdog
<1>14. ASSUME NEW t \in Turns, StreamEnds(t) PROVE TypeOK'
  <2>1. sent' \in [Turns -> 0 .. MaxFrames]
    BY <1>14, EmitTypes DEF StreamEnds
  <2>2. failure' \in [Turns -> Failures]
    BY <1>14 DEF StreamEnds, Failures
  <2> QED
    BY <1>14, <2>1, <2>2 DEF StreamEnds, LeaveLoop
<1>15. ASSUME NEW t \in Turns, Sever(t) PROVE TypeOK'
  BY <1>15 DEF Sever, LeaveLoop, Severs
<1>16. ASSUME NEW t \in Turns, FinalizeRetries(t) PROVE TypeOK'
  <2>1. queue' \in [Adapters -> Seq(Turns)]
    BY <1>16, DequeueTypes DEF FinalizeRetries, InTurn
  <2> QED
    BY <1>16, <2>1, FinalTypes, ForgetTypes DEF FinalizeRetries
<1>17. ASSUME NEW t \in Turns, FinalizeReturns(t) PROVE TypeOK'
  <2>1. queue' \in [Adapters -> Seq(Turns)]
    BY <1>17, DequeueTypes DEF FinalizeReturns, InTurn
  <2>2. dead' \in SUBSET Adapters
    BY <1>17, CloseTypes DEF FinalizeReturns, Placed, Working
  <2>3. sent' \in [Turns -> 0 .. MaxFrames]
    BY <1>17, EmitTypes DEF FinalizeReturns
  <2> QED
    BY <1>17, <2>1, <2>2, <2>3, FinalTypes, ForgetTypes DEF FinalizeReturns
<1>18. ASSUME NEW t \in Turns, Cancel(t) PROVE TypeOK'
  <2>1. heals' \in Seq(Turns) /\ healed' \in 0 .. Len(heals')
    BY <1>18, CountHeals, CancelAppends DEF Cancel
  <2>2. cancelled' \in [Turns -> BOOLEAN] /\ grace' \in SUBSET Turns
    BY <1>18 DEF Cancel
  <2>3. /\ rec' \in [Turns -> {"none", "running", "completed", "failed",
                               "cancelled"}]
        /\ stopped' \in SUBSET Turns /\ active' \in SUBSET Turns
        /\ hook' \in [Turns -> {"none", "noop", "turn"}]
    BY <1>18 DEF Cancel, Retire
  <2>4. atStop' \in [Turns -> [at : Stages, sent : 0 .. MaxFrames]]
    <3>1. [at |-> Stage(t), sent |-> sent[t]]
            \in [at : Stages, sent : 0 .. MaxFrames]
      BY DEF Stage, Stages
    <3> QED
      BY <1>18, <3>1 DEF Cancel
  <2> QED
    BY <1>18, <2>1, <2>2, <2>3, <2>4 DEF Cancel
<1>19. ASSUME NEW t \in Turns, GraceExpires(t) PROVE TypeOK'
  BY <1>19 DEF GraceExpires, Placed
<1>20. ASSUME HealDone PROVE TypeOK'
  BY <1>20, CountHeals DEF HealDone
<1>21. ASSUME Evict PROVE TypeOK'
  BY <1>21 DEF Evict
<1>22. ASSUME Restart PROVE TypeOK'
  <2>1. heals' \in Seq(Turns) /\ healed' \in 0 .. Len(heals')
    BY <1>22 DEF Restart
  <2>2. queue' \in [Adapters -> Seq(Turns)]
    BY <1>22 DEF Restart
  <2>3. pc' \in [Turns -> PCs] /\ failure' \in [Turns -> Failures]
    BY <1>22 DEF Restart, Over, Failures
  <2>4. /\ rec' \in [Turns -> {"none", "running", "completed", "failed",
                               "cancelled"}]
        /\ restarts' \in 0 .. MaxRestarts
    BY <1>22, TurnAssumption DEF Restart
  <2> QED
    BY <1>22, <2>1, <2>2, <2>3, <2>4 DEF Restart
<1>23. ASSUME UNCHANGED vars PROVE TypeOK'
  BY <1>23 DEF vars
<1> QED
  BY <1>1, <1>2, <1>3, <1>4, <1>5, <1>6, <1>7, <1>8, <1>9, <1>10, <1>11,
     <1>12, <1>13, <1>14, <1>15, <1>16, <1>17, <1>18, <1>19, <1>20, <1>21,
     <1>22, <1>23, NextCases

(* Whoever comes to the head of a queue after a Stop waits for its repair.  *)
LEMMA RepairsStep ==
  ASSUME TypeOK, Placed, Counted, Serial, Marks, Repairs, [Next]_vars
  PROVE  Repairs'
<1> SUFFICES ASSUME NEW s \in Turns, NEW t \in Turns,
                    NEW i \in 1 .. Len(heals'), healed' < i, Owed(s, t, i)'
             PROVE  pc'[s] \in {"queued", "threw"} \/ Waits(t, i)'
  BY DEF Repairs
<1>1. /\ pc \in [Turns -> PCs] /\ adapter \in [Turns -> Adapters \cup {None}]
      /\ attempt \in [Turns -> 0 .. MaxAttempts] /\ waits \in [Turns -> Nat]
      /\ Len(heals) \in Nat /\ healed \in Nat
      /\ Len(heals') \in Nat /\ i \in Nat /\ 1 <= i /\ i <= Len(heals')
  <2>1. TypeOK'
    BY TypeStep
  <2>2. Len(heals') \in Nat
    BY <2>1 DEF TypeOK
  <2>3. i \in Nat /\ 1 <= i /\ i <= Len(heals')
    BY <2>2
  <2>4. Len(heals) \in Nat /\ healed \in Nat
    BY CountHeals
  <2>5. /\ pc \in [Turns -> PCs] /\ adapter \in [Turns -> Adapters \cup {None}]
        /\ attempt \in [Turns -> 0 .. MaxAttempts] /\ waits \in [Turns -> Nat]
    BY DEF TypeOK
  <2> QED
    BY <2>2, <2>3, <2>4, <2>5
<1>2. ASSUME i <= Len(heals), healed < i, Owed(s, t, i)
      PROVE  pc[s] \in {"queued", "threw"} \/ Waits(t, i)
  BY <1>1, <1>2 DEF Repairs
<1>3. i <= Len(heals) /\ healed < i /\ heals[i] = s => s \in stopped
  BY <1>1 DEF Marks
<1>4. /\ pc[s] \in InTurn => AtHead(s)
      /\ s # t /\ adapter[s] = adapter[t] /\ AtHead(s) => pc[t] \notin InTurn
  BY DEF Serial, AtHead
<1> USE <1>1 DEF Owed, Waits, Reading, At, Goes, runVars, healVars, poolVars,
        loopVars, PCs, InTurn
<1>5. ASSUME NEW u \in Turns, Accept(u)
      PROVE  pc'[s] \in {"queued", "threw"} \/ Waits(t, i)'
  BY <1>2, <1>3, <1>4, <1>5 DEF Accept, Counted
<1>6. ASSUME NEW u \in Turns, EnterPool(u)
      PROVE  pc'[s] \in {"queued", "threw"} \/ Waits(t, i)'
  BY <1>2, <1>3, <1>4, <1>6 DEF EnterPool, Barrier, Counted
<1>7. ASSUME NEW u \in Turns, Route(u)
      PROVE  pc'[s] \in {"queued", "threw"} \/ Waits(t, i)'
  BY <1>2, <1>3, <1>4, <1>7 DEF Route, Counted
<1>8. ASSUME NEW u \in Turns, SpawnThrows(u)
      PROVE  pc'[s] \in {"queued", "threw"} \/ Waits(t, i)'
  BY <1>2, <1>3, <1>4, <1>8 DEF SpawnThrows, PastBarrier, Counted
<1>9. ASSUME NEW u \in Turns, Attempt(u)
      PROVE  pc'[s] \in {"queued", "threw"} \/ Waits(t, i)'
  BY <1>2, <1>3, <1>4, <1>9 DEF Attempt, StopSeen
<1>10. ASSUME NEW u \in Turns, AttemptAborts(u)
      PROVE  pc'[s] \in {"queued", "threw"} \/ Waits(t, i)'
  BY <1>2, <1>3, <1>4, <1>10 DEF AttemptAborts, Counted
<1>11. ASSUME NEW u \in Turns, ReachHead(u)
      PROVE  pc'[s] \in {"queued", "threw"} \/ Waits(t, i)'
  BY <1>2, <1>3, <1>4, <1>11 DEF ReachHead, Barrier
<1>12. ASSUME NEW u \in Turns, OpenTurn(u)
      PROVE  pc'[s] \in {"queued", "threw"} \/ Waits(t, i)'
  BY <1>2, <1>3, <1>4, <1>12 DEF OpenTurn, PastBarrier
<1>13. ASSUME NEW u \in Turns, BeginStream(u)
      PROVE  pc'[s] \in {"queued", "threw"} \/ Waits(t, i)'
  BY <1>2, <1>3, <1>4, <1>13 DEF BeginStream
<1>14. ASSUME NEW u \in Turns, TurnThrows(u)
      PROVE  pc'[s] \in {"queued", "threw"} \/ Waits(t, i)'
  BY <1>2, <1>3, <1>4, <1>14 DEF TurnThrows
<1>15. ASSUME NEW u \in Turns, SdkYields(u)
      PROVE  pc'[s] \in {"queued", "threw"} \/ Waits(t, i)'
  BY <1>2, <1>3, <1>4, <1>15 DEF SdkYields
<1>16. ASSUME NEW u \in Turns, Receive(u)
      PROVE  pc'[s] \in {"queued", "threw"} \/ Waits(t, i)'
  BY <1>2, <1>3, <1>4, <1>16 DEF Receive
<1>17. ASSUME NEW u \in Turns, Watchdog(u)
      PROVE  pc'[s] \in {"queued", "threw"} \/ Waits(t, i)'
  BY <1>2, <1>3, <1>4, <1>17 DEF Watchdog
<1>18. ASSUME NEW u \in Turns, StreamEnds(u)
      PROVE  pc'[s] \in {"queued", "threw"} \/ Waits(t, i)'
  BY <1>2, <1>3, <1>4, <1>18 DEF StreamEnds, LeaveLoop
<1>19. ASSUME NEW u \in Turns, Sever(u)
      PROVE  pc'[s] \in {"queued", "threw"} \/ Waits(t, i)'
  BY <1>2, <1>3, <1>4, <1>19 DEF Sever, LeaveLoop
<1>20. ASSUME NEW u \in Turns, FinalizeRetries(u)
      PROVE  pc'[s] \in {"queued", "threw"} \/ Waits(t, i)'
  BY <1>2, <1>3, <1>4, <1>20 DEF FinalizeRetries
<1>21. ASSUME NEW u \in Turns, FinalizeReturns(u)
      PROVE  pc'[s] \in {"queued", "threw"} \/ Waits(t, i)'
  BY <1>2, <1>3, <1>4, <1>21 DEF FinalizeReturns
<1>22. ASSUME NEW u \in Turns, Cancel(u)
      PROVE  pc'[s] \in {"queued", "threw"} \/ Waits(t, i)'
  <2>1. /\ pc' = pc /\ adapter' = adapter /\ attempt' = attempt
        /\ waits' = waits /\ healed' = healed /\ u \in active
    BY <1>22 DEF Cancel
  <2>2. \/ i = Len(heals) + 1 /\ heals'[i] = u
        \/ i <= Len(heals) /\ heals'[i] = heals[i]
    <3>1. \/ i = Len(heals) + 1 /\ heals'[i] = u
          \/ i \in 1 .. Len(heals) /\ heals'[i] = heals[i]
      BY <1>22, CancelAppends
    <3> QED
      BY <3>1
  <2>3. CASE i <= Len(heals) /\ heals'[i] = heals[i]
    BY <1>2, <2>1, <2>3
  <2>4. CASE u = s
    <3>1. pc[s] \notin {"backoff", "returned", "lost"}
      BY <2>1, <2>4 DEF Marks
    <3>2. attempt[s] > 0
      BY <2>1
    <3>3. pc[s] \notin {"idle", "accepted", "entering", "handed"}
      BY <3>2 DEF Counted
    <3>4. pc[s] \in {"queued", "threw"} \cup InTurn
      BY <3>1, <3>3
    <3> QED
      BY <1>4, <2>1, <3>4
  <2> QED
    BY <2>2, <2>3, <2>4
<1>23. ASSUME NEW u \in Turns, GraceExpires(u)
      PROVE  pc'[s] \in {"queued", "threw"} \/ Waits(t, i)'
  BY <1>2, <1>3, <1>4, <1>23 DEF GraceExpires
<1>24. ASSUME HealDone
      PROVE  pc'[s] \in {"queued", "threw"} \/ Waits(t, i)'
  BY <1>2, <1>24 DEF HealDone
<1>25. ASSUME Evict
      PROVE  pc'[s] \in {"queued", "threw"} \/ Waits(t, i)'
  BY <1>2, <1>25 DEF Evict
<1>26. ASSUME Restart
      PROVE  pc'[s] \in {"queued", "threw"} \/ Waits(t, i)'
  BY <1>2, <1>26 DEF Restart
<1>27. ASSUME UNCHANGED vars
      PROVE  pc'[s] \in {"queued", "threw"} \/ Waits(t, i)'
  BY <1>2, <1>27 DEF vars
<1> QED
  BY <1>5, <1>6, <1>7, <1>8, <1>9, <1>10, <1>11, <1>12, <1>13, <1>14, <1>15,
     <1>16, <1>17, <1>18, <1>19, <1>20, <1>21, <1>22, <1>23, <1>24, <1>25,
     <1>26, <1>27, NextCases

-----------------------------------------------------------------------------
(* The inductive invariant *)

LEMMA IInvInit == Init => IInv
<1> SUFFICES ASSUME Init PROVE IInv
  OBVIOUS
<1>1. heals = <<>> /\ Len(heals) = 0
  BY DEF Init
<1>2. TypeOK
  <2>1. heals \in Seq(Turns) /\ queue \in [Adapters -> Seq(Turns)]
    BY DEF Init
  <2> QED
    BY <1>1, <2>1, TurnAssumption DEF Init, TypeOK, PCs, Failures, Stages
<1>3. Placed /\ Counted /\ Serial /\ IndexAgrees /\ Hooked /\ Left
  BY DEF Init, Placed, Counted, Serial, Working, InTurn, IndexAgrees,
         Findable, Hooked, Left
<1>4. Marks /\ Repairs
  BY <1>1 DEF Init, Marks, Repairs
<1> QED
  BY <1>2, <1>3, <1>4 DEF IInv

LEMMA IInvStep == IInv /\ [Next]_vars => IInv'
BY PlacedStep, CountedStep, SerialStep, MarksStep, IndexStep, HookStep,
   LeftStep, TypeStep, RepairsStep DEF IInv

-----------------------------------------------------------------------------
(* The theorems *)

(* Every variable keeps its type, for any number of turns and restarts.     *)
THEOREM TypesHold == Spec => []TypeOK
<1>1. IInv => TypeOK
  BY DEF IInv
<1> QED
  BY IInvInit, IInvStep, <1>1, PTL DEF Spec

(* createRun, finalizeRun, cancelRun and the boot sweep write the record    *)
(* and the index together.  A run that is not stopped can be found from its *)
(* acceptance to the end of its first attempt; after that only if its turn  *)
(* threw, and never in a backoff or a later attempt.                        *)
THEOREM IndexIsExact == Spec => []IndexAgrees
<1>1. IInv => IndexAgrees
  BY DEF IInv
<1> QED
  BY IInvInit, IInvStep, <1>1, PTL DEF Spec

(* The hook is patched before the first await of every attempt, and the run *)
(* is still in the index for the first of them and for no other: Stop gets  *)
(* to a first attempt that reads, and cannot get to a retry.                *)
THEOREM StopFindsTheFirstAttempt == Spec => []StopReachesAttempt
<1>1. IInv => StopReachesAttempt
  <2> SUFFICES ASSUME IInv, NEW t \in Turns, Reading(t), t \notin stopped
               PROVE  hook[t] = "turn" /\ (t \in active <=> attempt[t] = 1)
    BY DEF StopReachesAttempt
  <2>1. pc[t] \in {"opening", "streaming"}
    BY DEF Reading, At
  <2>2. hook[t] = "turn"
    BY <2>1 DEF IInv, Hooked
  <2>3. t \in active <=> Findable(t)
    BY <2>1 DEF IInv, IndexAgrees
  <2> QED
    BY <2>1, <2>2, <2>3 DEF Findable
<1> QED
  BY IInvInit, IInvStep, <1>1, PTL DEF Spec

(* The barrier in _runTurnInner is enough: every repair of a stopped turn   *)
(* is registered before its successor comes to the head of the chain.       *)
THEOREM RepairsComeFirst == Spec => []RepairBeforeSuccessor
<1>1. IInv => RepairBeforeSuccessor
  <2> SUFFICES ASSUME IInv, NEW s \in Turns, NEW t \in Turns,
                      s # t, adapter[s] = adapter[t], adapter[t] # None,
                      pc[s] = "returned", attempt[s] > 0,
                      NEW i \in healed + 1 .. Len(heals), heals[i] = s
               PROVE  ~ Reading(t)
    BY DEF RepairBeforeSuccessor, Pending
  <2>1. i \in 1 .. Len(heals) /\ healed < i
    BY CountHeals DEF IInv
  <2>2. Owed(s, t, i) => pc[s] \in {"queued", "threw"} \/ Waits(t, i)
    BY <2>1 DEF IInv, Repairs
  <2> QED
    BY <2>2 DEF Owed, Waits
<1> QED
  BY IInvInit, IInvStep, <1>1, PTL DEF Spec

(* A run stopped before its queue makes no attempt, one stopped in its      *)
(* queue makes the attempt it waited for and no other, and one stopped      *)
(* later sends no frame more: the retry loop looks for user_stopped, which  *)
(* the finalizer does not take away with the status it overwrites.          *)
THEOREM StopLeavesTheQueuedAttempt == Spec => []StopLeavesOneAttempt
<1>1. IInv => StopLeavesOneAttempt
  BY DEF IInv, TypeOK, Left, Remains, StopLeavesOneAttempt
<1> QED
  BY IInvInit, IInvStep, <1>1, PTL DEF Spec

-----------------------------------------------------------------------------
(* The registry of subagents.  The argument goes by entries: what each      *)
(* function of the registry makes of one entry is settled in a lemma, and a *)
(* step changes the entry of a task by one of these functions, or all of    *)
(* them by one.                                                             *)

(* A terminal entry is not watched.                                         *)
Unwatched(e) ==
  ~Running(e) => /\ ~e.logWatch /\ ~e.todoWatch
                 /\ ~e.debounce /\ ~e.timer

(* The watchdog of the dispatch is gone once a log is known.                *)
Timed(e) == e.timer => ~e.log

(* A worker that runs is failed by its log or by somebody's word only.      *)
Spared(e, w) ==
  /\ e.status = "failed" /\ e.log /\ e.pid
  /\ w = "alive"
  => e.why \in {"footer", "said"}

(* Only the return of a background dispatch tells the log.                  *)
Told(e, f) == e.log => f.kind = "background"

Good(e, f, w) ==
  e \in Entry /\ Unwatched(e) /\ Timed(e) /\ Spared(e, w) /\ Told(e, f)

(* The worker of a task: it comes with the return of its dispatch, has its  *)
(* log while it runs, and does not come back once it has exited.            *)
World(t) ==
  /\ worker[t] # "none" => frames[t].kind = "background"
  /\ worker[t] = "alive" => log[t].says # "nothing"
  /\ t \in exits => worker[t] = "gone"

RegistryInv ==
  /\ RegistryTypeOK
  /\ \A t \in Task : Good(reg[t], frames[t], worker[t]) /\ World(t)

Frames == {NoFrame, CallFrame, CutFrame} \cup Bodies
Logs == [says : {"nothing", "started", "completed", "failed"}, pid : BOOLEAN]
Workers == {"none", "alive", "gone"}
Whys == {"none", "said", "footer", "timeout", "dead", "orphaned", "exit"}

-----------------------------------------------------------------------------
(* The functions of one entry *)

LEMMA AbsentGood ==
  ASSUME NEW f, NEW w PROVE Good(Absent, f, w)
BY SubagentAssumption
   DEF Good, Absent, Entry, Unwatched, Timed, Spared, Told, Running

LEMMA EndedGood ==
  ASSUME NEW e, NEW f, NEW w, Good(e, f, w),
         NEW s \in {"completed", "failed"}, NEW why \in Whys,
         s = "failed" /\ e.log /\ e.pid /\ w = "alive"
           => why \in {"footer", "said"}
  PROVE  Good(Ended(e, s, why), f, w)
BY DEF Good, Ended, Running, Entry, Whys, Unwatched, Timed, Spared, Told

LEMMA DispatchedGood ==
  ASSUME NEW e, NEW f, NEW w, Good(e, f, w), inst \in 1 .. MaxInstance
  PROVE  Good(Dispatched(e), f, w)
<1> DEFINE new == [Absent EXCEPT !.status = "running", !.owner = inst,
                                 !.timer = TRUE]
<1>1. Absent \in Entry /\ ~Absent.log /\ inst \in 0 .. MaxInstance
  BY AbsentGood, SubagentAssumption DEF Good, Absent
<1>2. Good(new, f, w)
  BY <1>1 DEF Good, Running, Entry, Unwatched, Timed, Spared, Told
<1> QED
  BY <1>2 DEF Dispatched

(* A pid found in the log of a running entry changes nothing else.          *)
LEMMA ProbedGood ==
  ASSUME NEW e, NEW f, NEW w, NEW l \in Logs, Good(e, f, w), Running(e)
  PROVE  /\ Good(Probed(e, l), f, w)
         /\ Running(Probed(e, l))
         /\ Probed(e, l).log = e.log
         /\ Probed(e, l).todoWatch = e.todoWatch
BY DEF Good, Probed, Running, Entry, Logs, Unwatched, Timed, Spared, Told

LEMMA ScannedGood ==
  ASSUME NEW e, NEW f, NEW w, NEW l \in Logs, Good(e, f, w)
  PROVE  Good(Scanned(e, l), f, w)
BY EndedGood DEF Scanned, Closed, Whys

LEMMA LogWatchedGood ==
  ASSUME NEW e, NEW f, NEW w, NEW l \in Logs, Good(e, f, w)
  PROVE  Good(LogWatched(e, l), f, w)
<1> DEFINE s == Scanned(e, l)
<1>1. Good(s, f, w)
  BY ScannedGood
<1>2. Running(s) => Good([s EXCEPT !.logWatch = TRUE], f, w)
  <2> HIDE DEF s
  <2> QED
    BY <1>1 DEF Good, Running, Entry, Unwatched, Timed, Spared, Told
<1> QED
  BY <1>1, <1>2 DEF LogWatched

LEMMA BodyFields ==
  ASSUME NEW f \in Bodies
  PROVE  /\ f.kind \in {"background", "report"}
         /\ f.log \in BOOLEAN /\ f.pid \in BOOLEAN
         /\ f.kind = "report" => ~f.log
BY DEF Bodies

LEMMA ReturnedGood ==
  ASSUME NEW e, NEW g, NEW f \in Bodies, NEW w, NEW l \in Logs,
         NEW o \in 0 .. MaxInstance,
         Good(e, g, w), e.log => f.kind = "background"
  PROVE  Good(Returned(e, f, l, o), f, w)
<1>1. Good(e, f, w)
  BY DEF Good, Told
<1>2. CASE ~Running(e)
  BY <1>1, <1>2 DEF Returned
<1>3. CASE Running(e) /\ f.kind = "background"
  <2> DEFINE q == [e EXCEPT !.log = @ \/ f.log, !.pid = @ \/ f.pid,
                            !.timer = FALSE, !.todoWatch = TRUE]
             r == Probed(q, l)
             s == IF r.log /\ o # 0 THEN [r EXCEPT !.owner = o] ELSE r
  <2>1. f.log \in BOOLEAN /\ f.pid \in BOOLEAN
    BY BodyFields
  <2>2. Good(q, f, w) /\ Running(q)
    BY <1>1, <1>3, <2>1
       DEF Good, Running, Entry, Unwatched, Timed, Spared, Told
  <2> HIDE DEF q
  <2>3. Good(r, f, w) /\ Running(r)
    BY <2>2, ProbedGood
  <2> HIDE DEF r
  <2>4. Good(s, f, w)
    BY <2>3 DEF Good, Running, Entry, Unwatched, Timed, Spared, Told
  <2> HIDE DEF s
  <2>5. Good(IF s.log THEN LogWatched(s, l) ELSE s, f, w)
    BY <2>4, LogWatchedGood
  <2>6. Returned(e, f, l, o) = IF s.log THEN LogWatched(s, l) ELSE s
    BY <1>3 DEF Returned, Resolved, s, r, q
  <2> QED
    BY <2>5, <2>6
<1>4. CASE Running(e) /\ f.kind # "background"
  <2>1. f.kind = "report" /\ ~e.log
    BY <1>4, BodyFields
  <2>2. Returned(e, f, l, o)
          = Ended(e, IF f.error THEN "failed" ELSE "completed", "said")
    BY <1>4, <2>1 DEF Returned
  <2> QED
    BY <1>1, <2>2, EndedGood DEF Whys
<1> QED
  BY <1>2, <1>3, <1>4

LEMMA RehydratedGood ==
  ASSUME NEW e, NEW f, NEW w, NEW l \in Logs, Good(e, f, w),
         w = "alive" => l.says # "nothing"
  PROVE  Good(Rehydrated(e, l, w), f, w)
<1> DEFINE p == Probed(e, l)
<1>1. CASE ~Running(e)
  BY <1>1 DEF Rehydrated
<1>2. CASE Running(e) /\ (~e.log \/ l.says = "nothing")
  <2>1. Rehydrated(e, l, w) = Ended(e, "failed", "orphaned")
    BY <1>2 DEF Rehydrated, Closed
  <2> QED
    BY <1>2, <2>1, EndedGood DEF Whys
<1>3. CASE Running(e) /\ e.log /\ Closed(l)
  <2>1. Rehydrated(e, l, w) = Scanned(e, l)
    BY <1>3 DEF Rehydrated, Closed
  <2> QED
    BY <2>1, ScannedGood
<1>4. CASE Running(e) /\ e.log /\ l.says # "nothing" /\ ~Closed(l)
  <2>1. Good(p, f, w) /\ Running(p)
    BY <1>4, ProbedGood
  <2>2. Rehydrated(e, l, w) =
          IF (IF p.pid THEN w = "gone" ELSE e.owner # inst)
          THEN Ended(p, "failed", "dead")
          ELSE LogWatched([p EXCEPT !.todoWatch = TRUE], l)
    BY <1>4 DEF Rehydrated
  <2> HIDE DEF p
  <2>3. Good([p EXCEPT !.todoWatch = TRUE], f, w)
    BY <2>1 DEF Good, Running, Entry, Unwatched, Timed, Spared, Told
  <2>4. (IF p.pid THEN w = "gone" ELSE e.owner # inst)
          => Good(Ended(p, "failed", "dead"), f, w)
    BY <2>1, EndedGood DEF Whys
  <2> QED
    BY <2>2, <2>3, <2>4, LogWatchedGood
<1> QED
  BY <1>1, <1>2, <1>3, <1>4

LEMMA SweptGood ==
  ASSUME NEW e, NEW f, NEW w, NEW l \in Logs, Good(e, f, w)
  PROVE  Good(Swept(e, l, w), f, w)
<1> DEFINE p == Probed(e, l)
<1>1. CASE ~Running(e)
  BY <1>1 DEF Swept
<1>2. CASE Running(e) /\ ~e.log
  <2>1. Swept(e, l, w) = IF e.old THEN Ended(e, "failed", "orphaned") ELSE e
    BY <1>2 DEF Swept
  <2> QED
    BY <1>2, <2>1, EndedGood DEF Whys
<1>3. CASE Running(e) /\ e.log /\ Closed(l)
  <2>1. Swept(e, l, w) = Scanned(e, l)
    BY <1>3 DEF Swept
  <2> QED
    BY <2>1, ScannedGood
<1>4. CASE Running(e) /\ e.log /\ ~Closed(l)
  <2>1. Good(p, f, w) /\ Running(p) /\ (e.pid => p.pid)
    BY <1>4, ProbedGood DEF Probed, Good, Entry
  <2>2. p.pid \in BOOLEAN
    BY <2>1 DEF Good, Entry
  <2>3. Swept(e, l, w) =
          CASE p.pid /\ w = "gone" -> Ended(p, "failed", "dead")
            [] p.pid /\ w # "gone" -> p
            [] ~p.pid -> IF e.old THEN Ended(e, "failed", "orphaned") ELSE e
    BY <1>4 DEF Swept
  <2> HIDE DEF p
  <2>4. CASE p.pid /\ w = "gone"
    BY <2>1, <2>3, <2>4, EndedGood DEF Whys
  <2>5. CASE p.pid /\ w # "gone"
    BY <2>1, <2>3, <2>5
  <2>6. CASE ~p.pid
    <3>1. Good(Ended(e, "failed", "orphaned"), f, w)
      BY <2>1, <2>6, EndedGood DEF Whys
    <3> QED
      BY <2>3, <2>6, <3>1
  <2> QED
    BY <2>4, <2>5, <2>6
<1> QED
  BY <1>1, <1>2, <1>3, <1>4

(* What the frames of a task's turns make of nothing, after a restart.      *)
LEMMA ReplayedGood ==
  ASSUME RegistryInv, NEW t \in Task
  PROVE  Good(Replayed(t), frames[t], worker[t])
<1> DEFINE d == Dispatched(Absent)
<1>1. /\ frames[t] \in Frames /\ log[t] \in Logs
      /\ owner[t] \in 0 .. MaxInstance /\ inst \in 1 .. MaxInstance
  BY DEF RegistryInv, RegistryTypeOK, Frames, Logs
<1>2. \A f : Good(d, f, worker[t])
  BY <1>1, AbsentGood, DispatchedGood
<1>3. CASE frames[t] \in {NoFrame, CallFrame, CutFrame}
  <2>1. Replayed(t) \in {Absent, d}
    BY <1>3 DEF Replayed, NoFrame, CallFrame, CutFrame, Seen
  <2> QED
    BY <1>2, <2>1, AbsentGood
<1>4. CASE frames[t] \in Bodies
  <2>1. Replayed(t) = Returned(d, frames[t], log[t], owner[t])
    BY <1>4, BodyFields
       DEF Replayed, NoFrame, CallFrame, CutFrame, Seen
  <2>2. ~d.log
    BY DEF Dispatched, Absent
  <2> QED
    BY <1>1, <1>2, <1>4, <2>1, <2>2, ReturnedGood
<1> QED
  BY <1>1, <1>3, <1>4 DEF Frames

-----------------------------------------------------------------------------
(* The invariant *)

LEMMA RegistryInvInit == RegistryInit => RegistryInv
<1> SUFFICES ASSUME RegistryInit PROVE RegistryInv
  OBVIOUS
<1>1. RegistryTypeOK
  BY SubagentAssumption, AbsentGood
     DEF RegistryInit, RegistryTypeOK, Good, Frames
<1>2. \A t \in Task : Good(reg[t], frames[t], worker[t]) /\ World(t)
  BY AbsentGood DEF RegistryInit, World
<1> QED
  BY <1>1, <1>2 DEF RegistryInv

(* A step that turns the entry of t into e, and touches nothing the         *)
(* invariant looks at but the pending exits, keeps the invariant.           *)
LEMMA SetKeeps ==
  ASSUME RegistryInv, NEW t \in Task, NEW e, Set(t, e),
         Good(e, frames[t], worker[t]),
         UNCHANGED <<inst, alive, seenVars, worker>>,
         exits' \subseteq exits
  PROVE  RegistryInv'
<1>1. reg' = [reg EXCEPT ![t] = e] /\ e \in Entry
  BY DEF Set, Good
<1>2. RegistryTypeOK'
  BY <1>1 DEF RegistryInv, RegistryTypeOK, seenVars
<1>3. ASSUME NEW u \in Task
      PROVE  Good(reg[u], frames[u], worker[u])' /\ World(u)'
  <2>1. reg'[u] = IF u = t THEN e ELSE reg[u]
    BY <1>1 DEF RegistryInv, RegistryTypeOK
  <2> QED
    BY <2>1 DEF RegistryInv, World, seenVars, Good, Unwatched, Timed, Spared,
                Told, Running
<1> QED
  BY <1>2, <1>3 DEF RegistryInv

LEMMA RegistryInvFacts ==
  ASSUME RegistryInv, NEW t \in Task
  PROVE  /\ Good(reg[t], frames[t], worker[t]) /\ World(t)
         /\ reg[t] \in Entry /\ frames[t] \in Frames /\ log[t] \in Logs
         /\ owner[t] \in 0 .. MaxInstance /\ inst \in 1 .. MaxInstance
         /\ worker[t] \in Workers
BY DEF RegistryInv, RegistryTypeOK, Frames, Logs, Workers

(* The frames of a call arrive: the entry, and the return with the worker.  *)
LEMMA IngestKeeps ==
  ASSUME RegistryInv, NEW t \in Task,
         IngestCall(t) \/ \E b \in Bodies : IngestReturn(t, b)
  PROVE  RegistryInv'
<1> DEFINE G(u) == Good(reg[u], frames[u], worker[u])
<1>1. CASE IngestCall(t)
  <2>1. Good(Dispatched(reg[t]), frames[t], worker[t])
    BY RegistryInvFacts, DispatchedGood
  <2>2. /\ reg' = [reg EXCEPT ![t] = Dispatched(reg[t])]
        /\ frames' = [frames EXCEPT ![t] = CallFrame]
        /\ UNCHANGED <<inst, alive, log, owner, worker, exits>>
        /\ frames[t] = NoFrame
    BY <1>1 DEF IngestCall, Set
  <2>3. worker[t] = "none" /\ ~reg[t].log /\ ~Dispatched(reg[t]).log
    BY <2>1, <2>2, RegistryInvFacts
       DEF World, Good, Told, NoFrame, Seen, RegistryInv, RegistryTypeOK
  <2>4. Good(Dispatched(reg[t]), CallFrame, worker[t])
    BY <2>1, <2>3 DEF Good, Told
  <2>5. RegistryTypeOK'
    BY <2>2, <2>4 DEF RegistryInv, RegistryTypeOK, Good
  <2>6. ASSUME NEW u \in Task PROVE G(u)' /\ World(u)'
    <3>1. CASE u = t
      <4>1. reg'[u] = Dispatched(reg[t]) /\ frames'[u] = CallFrame
        BY <2>2, <3>1 DEF RegistryInv, RegistryTypeOK
      <4>2. G(u)'
        BY <2>2, <2>4, <3>1, <4>1
           DEF Good, Unwatched, Timed, Spared, Told, Running
      <4> QED
        BY <2>2, <2>3, <3>1, <4>2, RegistryInvFacts DEF World
    <3>2. CASE u # t
      <4>1. reg'[u] = reg[u] /\ frames'[u] = frames[u]
        BY <2>2, <3>2 DEF RegistryInv, RegistryTypeOK
      <4> QED
        BY <2>2, <4>1, RegistryInvFacts
           DEF World, Good, Unwatched, Timed, Spared, Told, Running
    <3> QED
      BY <3>1, <3>2
  <2> QED
    BY <2>5, <2>6 DEF RegistryInv
<1>2. ASSUME NEW b \in Bodies, IngestReturn(t, b) PROVE RegistryInv'
  <2> DEFINE l == IF b.kind = "background"
                  THEN [says |-> "started", pid |-> FALSE] ELSE log[t]
             w == IF b.kind = "background" THEN "alive" ELSE worker[t]
             e == Returned(reg[t], b, l, owner[t])
  <2>1. /\ reg' = [reg EXCEPT ![t] = e]
        /\ frames' = [frames EXCEPT ![t] = b]
        /\ log' = [log EXCEPT ![t] = l]
        /\ worker' = [worker EXCEPT ![t] = w]
        /\ owner' \in [Task -> 0 .. MaxInstance]
        /\ UNCHANGED <<inst, alive, exits>>
        /\ frames[t] = CallFrame
    BY <1>2, RegistryInvFacts
       DEF IngestReturn, Set, Stamp, RegistryInv, RegistryTypeOK, Entry
  <2>2. l \in Logs /\ w \in Workers
    BY RegistryInvFacts DEF Logs, Workers
  <2>3. worker[t] = "none" /\ ~reg[t].log /\ t \notin exits
    BY <2>1, RegistryInvFacts DEF World, Good, Told, CallFrame, Seen
  <2>4. Good(reg[t], CallFrame, w)
    BY <2>1, <2>3, RegistryInvFacts DEF Good, Spared
  <2>5. Good(e, b, w)
    <3> HIDE DEF l, w
    <3> QED
      BY <2>2, <2>3, <2>4, RegistryInvFacts, ReturnedGood
  <2>6. RegistryTypeOK'
    <3> HIDE DEF l, w, e
    <3>1. e \in Entry
      BY <2>5 DEF Good
    <3> QED
      BY <2>1, <2>2, <3>1 DEF RegistryInv, RegistryTypeOK, Logs, Workers
  <2>7. /\ w # "none" => b.kind = "background"
        /\ w = "alive" => l.says # "nothing"
    BY <2>3
  <2>8. ASSUME NEW u \in Task PROVE G(u)' /\ World(u)'
    <3> HIDE DEF l, w, e
    <3>1. CASE u = t
      <4>1. /\ reg'[u] = e /\ frames'[u] = b /\ log'[u] = l
            /\ worker'[u] = w /\ u \notin exits'
        BY <2>1, <2>3, <3>1 DEF RegistryInv, RegistryTypeOK
      <4> QED
        BY <2>5, <2>7, <4>1
           DEF World, Good, Unwatched, Timed, Spared, Told, Running
    <3>2. CASE u # t
      <4>1. /\ reg'[u] = reg[u] /\ frames'[u] = frames[u]
            /\ log'[u] = log[u] /\ worker'[u] = worker[u] /\ exits' = exits
        BY <2>1, <3>2 DEF RegistryInv, RegistryTypeOK
      <4> QED
        BY <4>1, RegistryInvFacts
           DEF World, Good, Unwatched, Timed, Spared, Told, Running
    <3> QED
      BY <3>1, <3>2
  <2> QED
    BY <2>6, <2>8 DEF RegistryInv
<1> QED
  BY <1>1, <1>2

(* A step of the registry that replaces every entry.                        *)
LEMMA ReplaceKeeps ==
  ASSUME RegistryInv, reg' \in [Task -> Entry],
         \A t \in Task : Good(reg'[t], frames[t], worker[t]),
         UNCHANGED <<inst, seenVars, worker, exits>>, alive' \in BOOLEAN
  PROVE  RegistryInv'
BY DEF RegistryInv, RegistryTypeOK, World, seenVars, Good, Unwatched, Timed,
       Spared, Told, Running

LEMMA SweepKeeps ==
  ASSUME RegistryInv, Sweep PROVE RegistryInv'
<1>1. ASSUME NEW t \in Task
      PROVE  Good(Swept(reg[t], log[t], worker[t]), frames[t], worker[t])
  BY RegistryInvFacts, SweptGood
<1>2. reg' \in [Task -> Entry]
  BY <1>1 DEF Sweep, Good
<1>3. \A t \in Task : Good(reg'[t], frames[t], worker[t])
  BY <1>1 DEF Sweep
<1> QED
  BY <1>2, <1>3, ReplaceKeeps DEF Sweep, RegistryInv, RegistryTypeOK

LEMMA BootKeeps ==
  ASSUME RegistryInv, ShimBoots PROVE RegistryInv'
<1> DEFINE R(t) == Rehydrated(Replayed(t), log[t], worker[t])
<1>1. ASSUME NEW t \in Task PROVE Good(R(t), frames[t], worker[t])
  BY RegistryInvFacts, ReplayedGood, RehydratedGood DEF World
<1>2. ASSUME NEW t \in Task
      PROVE  Good(Swept(R(t), log[t], worker[t]), frames[t], worker[t])
  <2> HIDE DEF R
  <2> QED
    BY <1>1, RegistryInvFacts, SweptGood
<1>3. reg' = [t \in Task |-> Swept(R(t), log[t], worker[t])]
  BY DEF ShimBoots
<1> HIDE DEF R
<1>4. reg' \in [Task -> Entry]
  BY <1>2, <1>3 DEF Good
<1>5. \A t \in Task : Good(reg'[t], frames[t], worker[t])
  BY <1>2, <1>3
<1> QED
  BY <1>4, <1>5, ReplaceKeeps DEF ShimBoots

LEMMA CrashKeeps ==
  ASSUME RegistryInv, ShimDies PROVE RegistryInv'
<1>1. inst' \in 1 .. MaxInstance
  BY SubagentAssumption DEF ShimDies, RegistryInv, RegistryTypeOK
<1>2. frames' \in [Task -> Frames]
  BY DEF ShimDies, RegistryInv, RegistryTypeOK, Frames
<1>3. reg' \in [Task -> Entry] /\ \A t \in Task : reg'[t] = Absent
  BY AbsentGood DEF ShimDies, Good
<1>4. RegistryTypeOK'
  BY <1>1, <1>2, <1>3 DEF ShimDies, RegistryInv, RegistryTypeOK, Frames
<1>5. ASSUME NEW t \in Task
      PROVE  Good(reg[t], frames[t], worker[t])' /\ World(t)'
  <2>1. frames[t].kind = "background" => frames'[t].kind = "background"
    BY DEF ShimDies, CallFrame, CutFrame, Seen
  <2>2. World(t)'
    BY <2>1, RegistryInvFacts DEF ShimDies, World
  <2> QED
    BY <1>3, <2>2, AbsentGood
       DEF Good, Unwatched, Timed, Spared, Told, Running
<1> QED
  BY <1>4, <1>5 DEF RegistryInv

(* The worker, its log and /tmp.                                            *)
LEMMA WorkerKeeps ==
  ASSUME RegistryInv, NEW t \in Task,
         \/ \E l \in [says : {"started", "completed", "failed"},
                     pid : BOOLEAN] : WorkerWrites(t, l)
         \/ WorkerEnds(t)
         \/ TmpCleared(t)
  PROVE  RegistryInv'
<1>1. ASSUME NEW l \in [says : {"started", "completed", "failed"},
                        pid : BOOLEAN],
             WorkerWrites(t, l)
      PROVE  RegistryInv'
  BY <1>1 DEF WorkerWrites, RegistryInv, RegistryTypeOK, World, Good,
              Unwatched, Timed, Spared, Told, Running
<1>2. CASE WorkerEnds(t)
  BY <1>2 DEF WorkerEnds, seenVars, RegistryInv, RegistryTypeOK, World, Good,
              Unwatched, Timed, Spared, Told, Running
<1>3. CASE TmpCleared(t)
  BY <1>3 DEF TmpCleared, RegistryInv, RegistryTypeOK, World, Good, Unwatched,
              Timed, Spared, Told, Running
<1> QED
  BY <1>1, <1>2, <1>3

LEMMA RegistryInvStep ==
  RegistryInv /\ [RegistryNext]_subagentVars => RegistryInv'
<1> SUFFICES ASSUME RegistryInv, [RegistryNext]_subagentVars PROVE RegistryInv'
  OBVIOUS
<1>1. ASSUME NEW t \in Task, LogChanged(t) PROVE RegistryInv'
  <2>1. Good(Scanned(reg[t], log[t]), frames[t], worker[t])
    BY RegistryInvFacts, ScannedGood
  <2> QED
    BY <1>1, <2>1, SetKeeps DEF LogChanged
<1>2. ASSUME NEW t \in Task,
             TodosChanged(t) \/ DebounceDue(t) \/ Age(t)
      PROVE  RegistryInv'
  <2>1. PICK e \in {[reg[t] EXCEPT !.debounce = TRUE],
                    [reg[t] EXCEPT !.debounce = FALSE],
                    [reg[t] EXCEPT !.old = TRUE]} :
          /\ Set(t, e)
          /\ e.debounce => reg[t].todoWatch \/ reg[t].debounce
    BY <1>2, RegistryInvFacts DEF TodosChanged, DebounceDue, Age, Entry
  <2>2. Good(e, frames[t], worker[t])
    BY <2>1, RegistryInvFacts
       DEF Good, Entry, Unwatched, Timed, Spared, Told, Running
  <2> QED
    BY <1>2, <2>1, <2>2, SetKeeps DEF TodosChanged, DebounceDue, Age
<1>3. ASSUME NEW t \in Task, TimeoutDue(t) PROVE RegistryInv'
  <2> DEFINE e == [reg[t] EXCEPT !.timer = FALSE]
  <2>1. Good(e, frames[t], worker[t]) /\ ~e.log
    BY <1>3, RegistryInvFacts
       DEF TimeoutDue, Good, Entry, Unwatched, Timed, Spared, Told, Running
  <2> HIDE DEF e
  <2>2. Good(Ended(e, "failed", "timeout"), frames[t], worker[t])
    BY <2>1, EndedGood DEF Whys
  <2> QED
    BY <1>3, <2>2, SetKeeps DEF TimeoutDue, e
<1>4. ASSUME NEW t \in Task, ChildExit(t) PROVE RegistryInv'
  BY <1>4 DEF ChildExit, seenVars, RegistryInv, RegistryTypeOK, World, Good,
              Unwatched, Timed, Spared, Told, Running
<1>5. ASSUME NEW t \in Task, ChildExited(t) PROVE RegistryInv'
  <2>1. worker[t] = "gone"
    BY <1>5, RegistryInvFacts DEF ChildExited, World
  <2>2. Good(Ended(reg[t], "failed", "exit"), frames[t], worker[t])
    BY <2>1, RegistryInvFacts, EndedGood DEF Whys
  <2> QED
    BY <1>5, <2>2, SetKeeps DEF ChildExited
<1>6. ASSUME NEW t \in Task, NEW s \in {"completed", "failed"},
             Override(t, s)
      PROVE  RegistryInv'
  <2>1. Good(Ended(reg[t], s, "said"), frames[t], worker[t])
    BY RegistryInvFacts, EndedGood DEF Whys
  <2> QED
    BY <1>6, <2>1, SetKeeps DEF Override
<1>7. ASSUME NEW t \in Task, NEW s \in {"running", "completed", "failed"},
             Ingest(t, s)
      PROVE  RegistryInv'
  <2> DEFINE d == Dispatched(reg[t])
             e == IF s = "running" THEN d ELSE Ended(d, s, "said")
  <2>1. Good(d, frames[t], worker[t])
    BY RegistryInvFacts, DispatchedGood
  <2> HIDE DEF d
  <2>2. Good(e, frames[t], worker[t])
    BY <2>1, EndedGood DEF Whys
  <2>3. Set(t, e)
    BY <1>7 DEF Ingest, d
  <2> HIDE DEF e
  <2> QED
    BY <1>7, <2>2, <2>3, SetKeeps DEF Ingest
<1>8. CASE UNCHANGED subagentVars
  BY <1>8 DEF subagentVars, seenVars, RegistryInv, RegistryTypeOK, World, Good,
              Unwatched, Timed, Spared, Told, Running
<1>9. \/ \E t \in Task :
           \/ IngestCall(t) \/ \E b \in Bodies : IngestReturn(t, b)
           \/ LogChanged(t) \/ TodosChanged(t) \/ DebounceDue(t)
           \/ Age(t) \/ TimeoutDue(t) \/ ChildExit(t) \/ ChildExited(t)
           \/ \E s \in {"completed", "failed"} : Override(t, s)
           \/ \E s \in {"running", "completed", "failed"} : Ingest(t, s)
           \/ \E l \in [says : {"started", "completed", "failed"},
                        pid : BOOLEAN] : WorkerWrites(t, l)
           \/ WorkerEnds(t) \/ TmpCleared(t)
      \/ Sweep \/ ShimDies \/ ShimBoots \/ UNCHANGED subagentVars
  BY DEF RegistryNext
<1> QED
  BY <1>1, <1>2, <1>3, <1>4, <1>5, <1>6, <1>7, <1>8, <1>9, IngestKeeps,
     SweepKeeps, BootKeeps, CrashKeeps, WorkerKeeps

-----------------------------------------------------------------------------
(* The theorems *)

(* The registry's entries keep their shape through every frame, timer,      *)
(* report and restart.                                                      *)
THEOREM RegistryTypes == RegistrySpec => []RegistryTypeOK
<1>1. RegistryInv => RegistryTypeOK
  BY DEF RegistryInv
<1> QED
  BY RegistryInvInit, RegistryInvStep, <1>1, PTL DEF RegistrySpec

(* recordSubagentReturn stops the watchdog of the dispatch as soon as the   *)
(* log of the worker is known, and the sweeps look at the pid before the    *)
(* clock: no worker they can see to be alive is reported failed.            *)
THEOREM LiveWorkersAreSpared == RegistrySpec => []LiveWorkerIsNotWrittenOff
<1>1. RegistryInv => LiveWorkerIsNotWrittenOff
  BY DEF RegistryInv, Good, Spared, LiveWorkerIsNotWrittenOff
<1> QED
  BY RegistryInvInit, RegistryInvStep, <1>1, PTL DEF RegistrySpec

(* Whatever ends an entry (a report, the footer of its log, the watchdog,   *)
(* a sweep, an exit event, a restart) leaves no watcher and no timer of it  *)
(* behind.                                                                  *)
THEOREM EndedIsReleased == RegistrySpec => []EndedIsUnwatched
<1>1. RegistryInv => EndedIsUnwatched
  BY DEF RegistryInv, Good, Unwatched, EndedIsUnwatched
<1> QED
  BY RegistryInvInit, RegistryInvStep, <1>1, PTL DEF RegistrySpec

=============================================================================
