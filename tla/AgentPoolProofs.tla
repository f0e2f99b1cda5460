--------------------------- MODULE AgentPoolProofs ---------------------------
(***************************************************************************)
(* Theorems about AgentPool, for every set of keys, callers and workers    *)
(* and every cap.                                                          *)
(***************************************************************************)
EXTENDS AgentPool, FiniteSetTheorems, TLAPS

(* The actions, grouped as the proofs treat them: by the caller c, the      *)
(* worker w and the key k they are about.                                   *)
LEMMA NextCases ==
  ASSUME [Next]_vars
  PROVE  \/ \E c \in Callers, k \in Keys, t \in BOOLEAN : RequestTurn(c, k, t)
         \/ \E c \in Callers, w \in Workers : Spawn(c, w)
         \/ \E c \in Callers, w \in Workers : SpawnPrivate(c, w)
         \/ \E c \in Callers : PreflightHeal(c)
         \/ \E c \in Callers : GetWarm(c)
         \/ \E c \in Callers : Coalesce(c)
         \/ \E c \in Callers : Enqueue(c)
         \/ \E c \in Callers : TurnThrows(c)
         \/ \E c \in Callers : BeginTurn(c)
         \/ \E c \in Callers : TurnRuns(c)
         \/ \E c \in Callers : Heartbeat(c)
         \/ \E c \in Callers : OpenGate(c)
         \/ \E c \in Callers : CloseGate(c)
         \/ \E c \in Callers : StreamEnds(c)
         \/ \E c \in Callers : TurnDone(c)
         \/ \E c \in Callers : TurnBacksOff(c)
         \/ \E c \in Callers : RetryTurn(c)
         \/ \E c \in Callers : TurnNeedsHeal(c)
         \/ \E c \in Callers : HealEvict(c)
         \/ \E c \in Callers : Cancel(c)
         \/ \E c \in Callers : GraceExpires(c)
         \/ \E w \in Workers : SpawnOk(w)
         \/ \E w \in Workers : SpawnFails(w)
         \/ \E w \in Workers : WorkerExpires(w)
         \/ \E k \in Keys : TouchKey(k)
         \/ Housekeep
         \/ StopAll
         \/ UNCHANGED vars
  BY DEF Next, TurnStep, Exited

-----------------------------------------------------------------------------
(* What types alone do not say of a caller: when it has a key and a worker, *)
(* and that a turn in progress is at the head of its worker's chain.        *)

Refs ==
  \A c \in Callers :
    /\ pc[c] \in {"preflight", "get"} => key[c] \in Keys /\ adapter[c] = None
    /\ pc[c] \notin {"idle", "preflight", "get"} \/ cancel[c] = "armed"
         => key[c] \in Keys /\ adapter[c] \in Workers
    /\ pc[c] = "idle" /\ cancel[c] # "armed" => adapter[c] = None
    /\ pc[c] \in {"preflight", "get", "waiting"} => cancel[c] # "armed"

InTurn == {"opening", "running", "finalizing"}

Serial == \A c \in Callers : pc[c] \in InTurn => AtHead(c)

(* What the two maps hold: live workers in one, starting ones in the other, *)
(* never both for a key, and no worker twice.                               *)
Maps ==
  /\ \A k \in Keys : workers[k] # None => status[workers[k]] = "live" /\ spawning[k] = None
  /\ \A k \in Keys : spawning[k] # None => status[spawning[k]] = "starting"
  /\ \A k, l \in Keys : workers[k] # None /\ workers[k] = workers[l] => k = l
  /\ \A k, l \in Keys : spawning[k] # None /\ spawning[k] = spawning[l] => k = l

(* Who holds a worker: a caller whose worker is in a map asked for that key *)
(* and brought no tools; a private worker has one holder.                   *)
Holders ==
  /\ \A c \in Callers, k \in Keys :
       adapter[c] # None /\ adapter[c] \in {workers[k], spawning[k]}
       => key[c] = k /\ ~ tools[c]
  /\ \A c, d \in Callers :
       c # d /\ adapter[c] # None /\ adapter[c] = adapter[d] => ~ tools[c]

(* A caller that awaits a spawn promise awaits one that can still settle,   *)
(* and nobody uses a worker that is still starting.                         *)
Waiters ==
  \A c \in Callers :
    /\ pc[c] = "waiting" => status[adapter[c]] = "starting"
    /\ pc[c] \notin {"idle", "preflight", "get", "waiting"} \/ cancel[c] = "armed"
         => status[adapter[c]] # "starting"

(* The run handle of a worker belongs to the turn that streams on it.       *)
Handles ==
  /\ \A w \in Workers : busy[w] # None => pc[busy[w]] = "running" /\ adapter[busy[w]] = w
  /\ \A c \in Callers : pc[c] = "running" => busy[adapter[c]] = c

-----------------------------------------------------------------------------
(* Types *)

LEMMA TypeInit == Init => TypeOK
<1> SUFFICES ASSUME Init PROVE TypeOK
  OBVIOUS
<1>1. chain \in [Workers -> Seq(Callers)]
  BY DEF Init
<1>2. /\ staler \in [Workers -> SUBSET Workers]
      /\ expired \in SUBSET Workers
      /\ stopped \in BOOLEAN
  BY DEF Init
<1>3. /\ attempt \in [Callers -> Nat]
      /\ gates \in [Callers -> Nat]
      /\ tools \in [Callers -> BOOLEAN]
  BY DEF Init
<1> QED
  BY <1>1, <1>2, <1>3 DEF Init, TypeOK, Statuses, PCs

LEMMA HelperTypes ==
  ASSUME TypeOK
  PROVE  /\ \A E : Removed(E) \in [Keys -> Workers \cup {None}]
         /\ \A E : Closed(E) \in [Workers -> Statuses]
         /\ \A E : Ungated(E) \in [Callers -> Nat]
         /\ \A E : Unranked(E) \in [Workers -> SUBSET Workers]
         /\ \A w \in Workers : Bumped(w) \in [Workers -> SUBSET Workers]
         /\ Ranked \subseteq Workers
  BY DEF TypeOK, Removed, Closed, Ungated, Unranked, Bumped, Ranked, Pooled, Statuses

LEMMA ForgetTypes ==
  ASSUME TypeOK, NEW C, Forget(C)
  PROVE  /\ key' \in [Callers -> Keys \cup {None}]
         /\ adapter' \in [Callers -> Workers \cup {None}]
         /\ tools' \in [Callers -> BOOLEAN]
         /\ attempt' \in [Callers -> Nat]
         /\ cancel' \in [Callers -> {"none", "armed", "fired"}]
  BY DEF TypeOK, Forget

LEMMA ChainTypes ==
  ASSUME TypeOK, NEW w \in Workers, NEW c \in Callers
  PROVE  /\ [chain EXCEPT ![w] = Append(@, c)] \in [Workers -> Seq(Callers)]
         /\ chain[w] # <<>> => Dequeued(w) \in [Workers -> Seq(Callers)]
  BY DEF TypeOK, Dequeued

LEMMA TypeStep ==
  ASSUME TypeOK, Refs, Serial, [Next]_vars
  PROVE  TypeOK'
<1> USE HelperTypes DEF poolVars, callVars
<1>1. ASSUME NEW c \in Callers, NEW k \in Keys, NEW t \in BOOLEAN, RequestTurn(c, k, t) PROVE TypeOK'
  BY <1>1 DEF TypeOK, PCs, RequestTurn
<1>2. ASSUME NEW c \in Callers, NEW w \in Workers, Spawn(c, w) PROVE TypeOK'
  BY <1>2 DEF TypeOK, PCs, Spawn, Refs, Statuses
<1>3. ASSUME NEW c \in Callers, NEW w \in Workers, SpawnPrivate(c, w) PROVE TypeOK'
  BY <1>3 DEF TypeOK, PCs, SpawnPrivate, Statuses
<1>4. ASSUME NEW c \in Callers, PreflightHeal(c) PROVE TypeOK'
  BY <1>4 DEF TypeOK, PCs, PreflightHeal, Evict, Drop
<1>5. ASSUME NEW c \in Callers, GetWarm(c) PROVE TypeOK'
  BY <1>5 DEF TypeOK, PCs, GetWarm, Warm, Refs
<1>6. ASSUME NEW c \in Callers, Coalesce(c) PROVE TypeOK'
  BY <1>6 DEF TypeOK, PCs, Coalesce, Warm, Refs
<1>7. ASSUME NEW c \in Callers, Enqueue(c) PROVE TypeOK'
  BY <1>7, ChainTypes DEF TypeOK, PCs, Enqueue, Refs
<1>8. ASSUME NEW c \in Callers, TurnThrows(c) PROVE TypeOK'
  BY <1>8, ForgetTypes, ChainTypes DEF TypeOK, PCs, TurnThrows, Release, Return, AtHead, Refs
<1>9. ASSUME NEW c \in Callers, BeginTurn(c) PROVE TypeOK'
  BY <1>9 DEF TypeOK, PCs, BeginTurn
<1>10. ASSUME NEW c \in Callers, TurnRuns(c) PROVE TypeOK'
  BY <1>10 DEF TypeOK, PCs, TurnRuns, Refs
<1>11. ASSUME NEW c \in Callers, Heartbeat(c) PROVE TypeOK'
  BY <1>11 DEF TypeOK, PCs, Heartbeat, Stamp
<1>12. ASSUME NEW c \in Callers, OpenGate(c) PROVE TypeOK'
  BY <1>12 DEF TypeOK, PCs, OpenGate
<1>13. ASSUME NEW c \in Callers, CloseGate(c) PROVE TypeOK'
  BY <1>13 DEF TypeOK, PCs, CloseGate
<1>14. ASSUME NEW c \in Callers, StreamEnds(c) PROVE TypeOK'
  <2>1. staler' \in [Workers -> SUBSET Workers] /\ expired' \in SUBSET Workers
    BY <1>14 DEF TypeOK, StreamEnds, Stamp, Refs
  <2>2. busy' \in [Workers -> Callers \cup {None}]
    BY <1>14 DEF TypeOK, StreamEnds
  <2> QED
    BY <1>14, <2>1, <2>2 DEF TypeOK, PCs, StreamEnds
<1>15. ASSUME NEW c \in Callers, TurnDone(c) PROVE TypeOK'
  BY <1>15, ForgetTypes, ChainTypes DEF TypeOK, PCs, TurnDone, Release, Return, AtHead, Serial, InTurn, Refs
<1>16. ASSUME NEW c \in Callers, TurnBacksOff(c) PROVE TypeOK'
  <2>1. chain' \in [Workers -> Seq(Callers)]
    BY <1>16, ChainTypes DEF TypeOK, TurnBacksOff, AtHead, Serial, InTurn, Refs
  <2>2. attempt' \in [Callers -> Nat]
    BY <1>16 DEF TypeOK, TurnBacksOff
  <2> QED
    BY <1>16, <2>1, <2>2 DEF TypeOK, PCs, TurnBacksOff
<1>17. ASSUME NEW c \in Callers, RetryTurn(c) PROVE TypeOK'
  BY <1>17, ChainTypes DEF TypeOK, PCs, RetryTurn, Refs
<1>18. ASSUME NEW c \in Callers, TurnNeedsHeal(c) PROVE TypeOK'
  BY <1>18, ChainTypes DEF TypeOK, PCs, TurnNeedsHeal, AtHead, Serial, InTurn, Refs, Statuses
<1>19. ASSUME NEW c \in Callers, HealEvict(c) PROVE TypeOK'
  BY <1>19, ForgetTypes DEF TypeOK, PCs, HealEvict, Evict, Drop, Return
<1>20. ASSUME NEW c \in Callers, Cancel(c) PROVE TypeOK'
  BY <1>20 DEF TypeOK, PCs, Cancel
<1>21. ASSUME NEW c \in Callers, GraceExpires(c) PROVE TypeOK'
  BY <1>21, ForgetTypes DEF TypeOK, PCs, GraceExpires
<1>22. ASSUME NEW w \in Workers, SpawnOk(w) PROVE TypeOK'
  BY <1>22 DEF TypeOK, PCs, SpawnOk, Statuses
<1>23. ASSUME NEW w \in Workers, SpawnFails(w) PROVE TypeOK'
  BY <1>23, ForgetTypes DEF TypeOK, PCs, SpawnFails, Return, Rejected, Statuses
<1>24. ASSUME NEW w \in Workers, WorkerExpires(w) PROVE TypeOK'
  BY <1>24 DEF TypeOK, PCs, WorkerExpires
<1>25. ASSUME NEW k \in Keys, TouchKey(k) PROVE TypeOK'
  BY <1>25 DEF TypeOK, PCs, TouchKey, Warm
<1>26. ASSUME Housekeep PROVE TypeOK'
  BY <1>26 DEF TypeOK, PCs, Housekeep
<1>27. ASSUME StopAll PROVE TypeOK'
  BY <1>27 DEF TypeOK, PCs, StopAll, Drop
<1>28. ASSUME UNCHANGED vars PROVE TypeOK'
  BY <1>28 DEF TypeOK, PCs, vars
<1> QED
  BY NextCases, <1>1, <1>2, <1>3, <1>4, <1>5, <1>6, <1>7, <1>8, <1>9, <1>10, <1>11, <1>12, <1>13, <1>14, <1>15, <1>16, <1>17, <1>18, <1>19, <1>20, <1>21, <1>22, <1>23, <1>24, <1>25, <1>26, <1>27, <1>28

-----------------------------------------------------------------------------
(* Callers and chains *)

LEMMA RefsStep ==
  ASSUME TypeOK, Refs, [Next]_vars
  PROVE  Refs'
<1>1. CASE UNCHANGED <<pc, key, adapter, cancel>>
  BY <1>1 DEF TypeOK, Refs
<1>2. ASSUME NEW c \in Callers, NEW k \in Keys, NEW t \in BOOLEAN, RequestTurn(c, k, t) PROVE Refs'
  BY <1>2 DEF TypeOK, Refs, RequestTurn, poolVars, Forgotten
<1>3. ASSUME NEW c \in Callers, NEW w \in Workers, Spawn(c, w) PROVE Refs'
  BY <1>3 DEF TypeOK, Refs, Spawn, Unreferenced, MaySpawn
<1>4. ASSUME NEW c \in Callers, NEW w \in Workers, SpawnPrivate(c, w) PROVE Refs'
  BY <1>4 DEF TypeOK, Refs, SpawnPrivate, Unreferenced
<1>5. ASSUME NEW c \in Callers, PreflightHeal(c) PROVE Refs'
  BY <1>5 DEF TypeOK, Refs, PreflightHeal, Evict, Drop
<1>6. ASSUME NEW c \in Callers, GetWarm(c) PROVE Refs'
  BY <1>6 DEF TypeOK, Refs, GetWarm, Warm, poolVars
<1>7. ASSUME NEW c \in Callers, Coalesce(c) PROVE Refs'
  BY <1>7 DEF TypeOK, Refs, Coalesce, Warm
<1>8. ASSUME NEW c \in Callers, Enqueue(c) PROVE Refs'
  BY <1>8 DEF TypeOK, Refs, Enqueue
<1>9. ASSUME NEW c \in Callers, TurnThrows(c) PROVE Refs'
  BY <1>9 DEF TypeOK, Refs, TurnThrows, Release, Return, Forget, Dequeued,
     AtHead
<1>10. ASSUME NEW c \in Callers, BeginTurn(c) PROVE Refs'
  BY <1>10 DEF TypeOK, Refs, BeginTurn, AtHead, poolVars
<1>11. ASSUME NEW c \in Callers, TurnRuns(c) PROVE Refs'
  BY <1>11 DEF TypeOK, Refs, TurnRuns
<1>12. ASSUME NEW c \in Callers, StreamEnds(c) PROVE Refs'
  BY <1>12 DEF TypeOK, Refs, StreamEnds, Stamp
<1>13. ASSUME NEW c \in Callers, TurnDone(c) PROVE Refs'
  BY <1>13 DEF TypeOK, Refs, TurnDone, Release, Return, Forget, Dequeued
<1>14. ASSUME NEW c \in Callers, TurnBacksOff(c) PROVE Refs'
  BY <1>14 DEF TypeOK, Refs, TurnBacksOff, Dequeued, MayRetry
<1>15. ASSUME NEW c \in Callers, RetryTurn(c) PROVE Refs'
  BY <1>15 DEF TypeOK, Refs, RetryTurn
<1>16. ASSUME NEW c \in Callers, TurnNeedsHeal(c) PROVE Refs'
  BY <1>16 DEF TypeOK, Refs, TurnNeedsHeal, Dequeued
<1>17. ASSUME NEW c \in Callers, HealEvict(c) PROVE Refs'
  BY <1>17 DEF TypeOK, Refs, HealEvict, Evict, Drop, Return, Forget
<1>18. ASSUME NEW c \in Callers, Cancel(c) PROVE Refs'
  BY <1>18 DEF TypeOK, Refs, Cancel, poolVars
<1>19. ASSUME NEW c \in Callers, GraceExpires(c) PROVE Refs'
  <2>1. CASE pc[c] = "idle"
    BY <1>19, <2>1 DEF TypeOK, Refs, GraceExpires, Forget
  <2>2. CASE pc[c] # "idle"
    BY <1>19, <2>2 DEF TypeOK, Refs, GraceExpires, Forget
  <2> QED
    BY <2>1, <2>2
<1>20. ASSUME NEW w \in Workers, SpawnOk(w) PROVE Refs'
  BY <1>20 DEF TypeOK, Refs, SpawnOk, WaitingFor
<1>21. ASSUME NEW w \in Workers, SpawnFails(w) PROVE Refs'
  BY <1>21 DEF TypeOK, Refs, SpawnFails, Return, Rejected, Forget,
     WaitingFor
<1>22. ASSUME NEW c \in Callers,
             Heartbeat(c) \/ OpenGate(c) \/ CloseGate(c)
      PROVE  UNCHANGED <<pc, key, adapter, cancel>>
  BY <1>22 DEF Heartbeat, OpenGate, CloseGate, Stamp, poolVars, callVars
<1>23. ASSUME NEW w \in Workers,
             WorkerExpires(w)
      PROVE  UNCHANGED <<pc, key, adapter, cancel>>
  BY <1>23 DEF WorkerExpires, poolVars, callVars
<1>24. ASSUME NEW k \in Keys,
             TouchKey(k)
      PROVE  UNCHANGED <<pc, key, adapter, cancel>>
  BY <1>24 DEF TouchKey, poolVars, callVars
<1>25. ASSUME 
             Housekeep \/ StopAll
      PROVE  UNCHANGED <<pc, key, adapter, cancel>>
  BY <1>25 DEF Housekeep, StopAll, Drop, poolVars, callVars
<1> QED
  BY NextCases, <1>1, <1>2, <1>3, <1>4, <1>5, <1>6, <1>7, <1>8, <1>9, <1>10,
     <1>11, <1>12, <1>13, <1>14, <1>15, <1>16, <1>17, <1>18, <1>19, <1>20,
     <1>21, <1>22, <1>23, <1>24, <1>25 DEF vars

LEMMA AppendKeepsHead ==
  ASSUME NEW S, NEW s \in Seq(S), NEW e \in S, s # <<>>
  PROVE  Append(s, e) # <<>> /\ Head(Append(s, e)) = Head(s)
  OBVIOUS

LEMMA SerialStep ==
  ASSUME TypeOK, Refs, Serial, [Next]_vars
  PROVE  Serial'
<1>1. CASE UNCHANGED <<pc, adapter, chain>>
  BY <1>1 DEF TypeOK, Refs, Serial, AtHead, InTurn
<1>2. ASSUME NEW c \in Callers, NEW k \in Keys, NEW t \in BOOLEAN, RequestTurn(c, k, t) PROVE Serial'
  BY <1>2 DEF TypeOK, Refs, Serial, AtHead, InTurn, RequestTurn, poolVars
<1>3. ASSUME NEW c \in Callers, NEW w \in Workers, Spawn(c, w) PROVE Serial'
  BY <1>3 DEF TypeOK, Refs, Serial, AtHead, InTurn, Spawn, Unreferenced,
     MaySpawn
<1>4. ASSUME NEW c \in Callers, NEW w \in Workers, SpawnPrivate(c, w) PROVE Serial'
  BY <1>4 DEF TypeOK, Refs, Serial, AtHead, InTurn, SpawnPrivate,
     Unreferenced
<1>5. ASSUME NEW c \in Callers, PreflightHeal(c) PROVE Serial'
  BY <1>5 DEF TypeOK, Refs, Serial, AtHead, InTurn, PreflightHeal, Evict,
     Drop
<1>6. ASSUME NEW c \in Callers, GetWarm(c) PROVE Serial'
  BY <1>6 DEF TypeOK, Refs, Serial, AtHead, InTurn, GetWarm, Warm, poolVars
<1>7. ASSUME NEW c \in Callers, Coalesce(c) PROVE Serial'
  BY <1>7 DEF TypeOK, Refs, Serial, AtHead, InTurn, Coalesce, Warm
<1>8. ASSUME NEW c \in Callers, Enqueue(c) PROVE Serial'
  <2>1. ASSUME NEW d \in Callers, pc[d] \in InTurn
        PROVE  AtHead(d)'
    <3>1. adapter[d] \in Workers /\ chain[adapter[d]] # <<>> /\ Head(chain[adapter[d]]) = d
      BY <2>1 DEF Refs, Serial, AtHead, InTurn
    <3>2. \/ chain'[adapter[d]] = chain[adapter[d]]
          \/ chain'[adapter[d]] = Append(chain[adapter[d]], c)
      BY <1>8, <3>1 DEF Enqueue, TypeOK
    <3>3. chain[adapter[d]] \in Seq(Callers) /\ adapter'[d] = adapter[d]
      BY <1>8, <3>1 DEF Enqueue, TypeOK
    <3> QED
      BY <3>1, <3>2, <3>3, AppendKeepsHead DEF AtHead
  <2> QED
    BY <1>8, <2>1 DEF TypeOK, Serial, InTurn, Enqueue
<1>9. ASSUME NEW c \in Callers, TurnThrows(c) PROVE Serial'
  BY <1>9 DEF TypeOK, Refs, Serial, AtHead, InTurn, TurnThrows, Release,
     Return, Forget, Dequeued, AtHead
<1>10. ASSUME NEW c \in Callers, BeginTurn(c) PROVE Serial'
  BY <1>10 DEF TypeOK, Refs, Serial, AtHead, InTurn, BeginTurn, AtHead,
     poolVars
<1>11. ASSUME NEW c \in Callers, TurnRuns(c) PROVE Serial'
  BY <1>11 DEF TypeOK, Refs, Serial, AtHead, InTurn, TurnRuns
<1>12. ASSUME NEW c \in Callers, StreamEnds(c) PROVE Serial'
  BY <1>12 DEF TypeOK, Refs, Serial, AtHead, InTurn, StreamEnds, Stamp
<1>13. ASSUME NEW c \in Callers, TurnDone(c) PROVE Serial'
  BY <1>13 DEF TypeOK, Refs, Serial, AtHead, InTurn, TurnDone, Release,
     Return, Forget, Dequeued
<1>14. ASSUME NEW c \in Callers, TurnBacksOff(c) PROVE Serial'
  BY <1>14 DEF TypeOK, Refs, Serial, AtHead, InTurn, TurnBacksOff, Dequeued,
     MayRetry
<1>15. ASSUME NEW c \in Callers, RetryTurn(c) PROVE Serial'
  <2>1. ASSUME NEW d \in Callers, pc[d] \in InTurn
        PROVE  AtHead(d)'
    <3>1. adapter[d] \in Workers /\ chain[adapter[d]] # <<>> /\ Head(chain[adapter[d]]) = d
      BY <2>1 DEF Refs, Serial, AtHead, InTurn
    <3>2. \/ chain'[adapter[d]] = chain[adapter[d]]
          \/ chain'[adapter[d]] = Append(chain[adapter[d]], c)
      BY <1>15, <3>1 DEF RetryTurn, TypeOK
    <3>3. chain[adapter[d]] \in Seq(Callers) /\ adapter'[d] = adapter[d]
      BY <1>15, <3>1 DEF RetryTurn, TypeOK
    <3> QED
      BY <3>1, <3>2, <3>3, AppendKeepsHead DEF AtHead
  <2> QED
    BY <1>15, <2>1 DEF TypeOK, Serial, InTurn, RetryTurn
<1>16. ASSUME NEW c \in Callers, TurnNeedsHeal(c) PROVE Serial'
  BY <1>16 DEF TypeOK, Refs, Serial, AtHead, InTurn, TurnNeedsHeal, Dequeued
<1>17. ASSUME NEW c \in Callers, HealEvict(c) PROVE Serial'
  BY <1>17 DEF TypeOK, Refs, Serial, AtHead, InTurn, HealEvict, Evict, Drop,
     Return, Forget
<1>18. ASSUME NEW c \in Callers, GraceExpires(c) PROVE Serial'
  <2>1. CASE pc[c] = "idle"
    BY <1>18, <2>1 DEF TypeOK, Refs, Serial, AtHead, InTurn, GraceExpires, Forget
  <2>2. CASE pc[c] # "idle"
    BY <1>18, <2>2 DEF TypeOK, Refs, Serial, AtHead, InTurn, GraceExpires, Forget
  <2> QED
    BY <2>1, <2>2
<1>19. ASSUME NEW w \in Workers, SpawnOk(w) PROVE Serial'
  BY <1>19 DEF TypeOK, Refs, Serial, AtHead, InTurn, SpawnOk, WaitingFor
<1>20. ASSUME NEW w \in Workers, SpawnFails(w) PROVE Serial'
  BY <1>20 DEF TypeOK, Refs, Serial, AtHead, InTurn, SpawnFails, Return,
     Rejected, Forget, WaitingFor
<1>21. ASSUME NEW c \in Callers,
             Heartbeat(c) \/ OpenGate(c) \/ CloseGate(c) \/ Cancel(c)
      PROVE  UNCHANGED <<pc, adapter, chain>>
  BY <1>21 DEF Heartbeat, OpenGate, CloseGate, Cancel, Stamp, poolVars,
     callVars
<1>22. ASSUME NEW w \in Workers,
             WorkerExpires(w)
      PROVE  UNCHANGED <<pc, adapter, chain>>
  BY <1>22 DEF WorkerExpires, poolVars, callVars
<1>23. ASSUME NEW k \in Keys,
             TouchKey(k)
      PROVE  UNCHANGED <<pc, adapter, chain>>
  BY <1>23 DEF TouchKey, poolVars, callVars
<1>24. ASSUME 
             Housekeep \/ StopAll
      PROVE  UNCHANGED <<pc, adapter, chain>>
  BY <1>24 DEF Housekeep, StopAll, Drop, poolVars, callVars
<1> QED
  BY NextCases, <1>1, <1>2, <1>3, <1>4, <1>5, <1>6, <1>7, <1>8, <1>9, <1>10,
     <1>11, <1>12, <1>13, <1>14, <1>15, <1>16, <1>17, <1>18, <1>19, <1>20,
     <1>21, <1>22, <1>23, <1>24 DEF vars

-----------------------------------------------------------------------------
(* Maps, holders, handles *)

(* What an expired grace timer does to the activation records.              *)
LEMMA GraceEffect ==
  ASSUME TypeOK, NEW c \in Callers, GraceExpires(c)
  PROVE  /\ pc' = pc
         /\ \A d \in Callers : d # c \/ pc[c] # "idle" =>
              /\ key'[d] = key[d]
              /\ adapter'[d] = adapter[d]
              /\ tools'[d] = tools[d]
              /\ attempt'[d] = attempt[d]
         /\ \A d \in Callers : d # c => cancel'[d] = cancel[d]
         /\ pc[c] = "idle" => adapter'[c] = None
         /\ cancel'[c] # "armed"
<1>1. CASE pc[c] = "idle"
  <2>1. Forget({c}) /\ pc' = pc
    BY <1>1 DEF GraceExpires
  <2> QED
    BY <1>1, <2>1 DEF Forget, TypeOK
<1>2. CASE pc[c] # "idle"
  BY <1>2 DEF GraceExpires, TypeOK
<1> QED
  BY <1>1, <1>2

LEMMA MapsStep ==
  ASSUME TypeOK, Refs, Maps, Holders, Waiters, [Next]_vars
  PROVE  Maps'
<1> USE PoolAssumption DEF poolVars, callVars
<1>1. CASE UNCHANGED <<workers, spawning, status>>
  BY <1>1 DEF TypeOK, Refs, Maps, Holders, Dead, Closed, Removed, At
<1>2. ASSUME NEW c \in Callers, NEW w \in Workers, Spawn(c, w) PROVE Maps'
  BY <1>2 DEF TypeOK, Refs, Maps, Holders, Dead, Closed, Removed, At, Spawn,
     Unreferenced, MaySpawn, Warm, CapVictims, Pooled
<1>3. ASSUME NEW c \in Callers, NEW w \in Workers, SpawnPrivate(c, w) PROVE Maps'
  BY <1>3 DEF TypeOK, Refs, Maps, Holders, Dead, Closed, Removed, At,
     SpawnPrivate, Unreferenced
<1>4. ASSUME NEW c \in Callers, PreflightHeal(c) PROVE Maps'
  BY <1>4 DEF TypeOK, Refs, Maps, Holders, Dead, Closed, Removed, At,
     PreflightHeal, Evict, Drop, Refs
<1>5. ASSUME NEW c \in Callers, Coalesce(c) PROVE Maps'
  BY <1>5 DEF TypeOK, Refs, Maps, Holders, Dead, Closed, Removed, At,
     Coalesce, Warm
<1>6. ASSUME NEW c \in Callers, TurnThrows(c) PROVE Maps'
  BY <1>6 DEF TypeOK, Refs, Maps, Holders, Dead, Closed, Removed, At,
     TurnThrows, Release, Return, Forget, Dequeued, AtHead
<1>7. ASSUME NEW c \in Callers, TurnDone(c) PROVE Maps'
  BY <1>7 DEF TypeOK, Refs, Maps, Holders, Dead, Closed, Removed, At,
     TurnDone, Release, Return, Forget, Dequeued
<1>8. ASSUME NEW c \in Callers, TurnNeedsHeal(c) PROVE Maps'
  BY <1>8 DEF TypeOK, Refs, Maps, Holders, Dead, Closed, Removed, At,
     TurnNeedsHeal, Dequeued
<1>9. ASSUME NEW c \in Callers, HealEvict(c) PROVE Maps'
  BY <1>9 DEF TypeOK, Refs, Maps, Holders, Dead, Closed, Removed, At,
     HealEvict, Evict, Drop, Return, Forget
<1>10. ASSUME NEW c \in Callers, GraceExpires(c) PROVE Maps'
  <2>1. workers' = Removed(At(key[c])) /\ status' = Closed(GraceTargets(c)) /\ spawning' = spawning
    BY <1>10 DEF GraceExpires
  <2>2. key[c] \in Keys /\ adapter[c] \in Workers
    BY <1>10 DEF GraceExpires, Refs
  <2>3. \A k \in Keys : spawning[k] # None => spawning[k] \notin GraceTargets(c)
    BY <1>10, <2>2 DEF GraceTargets, At, Maps, Holders, Waiters, GraceExpires
  <2>4. \A k \in Keys : workers[k] \in GraceTargets(c) => workers[k] \in At(key[c])
    BY <2>2, PoolAssumption DEF GraceTargets, At, Holders
  <2> QED
    BY <2>1, <2>2, <2>3, <2>4 DEF Maps, Removed, Closed, TypeOK
<1>11. ASSUME NEW w \in Workers, SpawnOk(w) PROVE Maps'
  BY <1>11 DEF TypeOK, Refs, Maps, Holders, Dead, Closed, Removed, At,
     SpawnOk, WaitingFor
<1>12. ASSUME NEW w \in Workers, SpawnFails(w) PROVE Maps'
  BY <1>12 DEF TypeOK, Refs, Maps, Holders, Dead, Closed, Removed, At,
     SpawnFails, Return, Rejected, Forget, WaitingFor
<1>13. ASSUME Housekeep PROVE Maps'
  BY <1>13 DEF TypeOK, Refs, Maps, Holders, Dead, Closed, Removed, At,
     Housekeep, SweptOut, Pooled, IdleVictims
<1>14. ASSUME StopAll PROVE Maps'
  BY <1>14 DEF TypeOK, Refs, Maps, Holders, Dead, Closed, Removed, At,
     StopAll, Drop, Pooled
<1>15. ASSUME NEW c \in Callers, NEW k \in Keys, NEW t \in BOOLEAN,
             RequestTurn(c, k, t)
      PROVE  UNCHANGED <<workers, spawning, status>>
  BY <1>15 DEF RequestTurn, poolVars, callVars
<1>16. ASSUME NEW c \in Callers,
             GetWarm(c) \/ Enqueue(c) \/ BeginTurn(c) \/ TurnRuns(c) \/
               Heartbeat(c) \/ OpenGate(c) \/ CloseGate(c) \/ StreamEnds(c)
               \/ TurnBacksOff(c) \/ RetryTurn(c) \/ Cancel(c)
      PROVE  UNCHANGED <<workers, spawning, status>>
  BY <1>16 DEF GetWarm, Enqueue, BeginTurn, TurnRuns, Heartbeat, OpenGate,
     CloseGate, StreamEnds, TurnBacksOff, RetryTurn, Cancel, Stamp,
     Dequeued, poolVars, callVars
<1>17. ASSUME NEW w \in Workers,
             WorkerExpires(w)
      PROVE  UNCHANGED <<workers, spawning, status>>
  BY <1>17 DEF WorkerExpires, poolVars, callVars
<1>18. ASSUME NEW k \in Keys,
             TouchKey(k)
      PROVE  UNCHANGED <<workers, spawning, status>>
  BY <1>18 DEF TouchKey, poolVars, callVars
<1> QED
  BY NextCases, <1>1, <1>2, <1>3, <1>4, <1>5, <1>6, <1>7, <1>8, <1>9, <1>10,
     <1>11, <1>12, <1>13, <1>14, <1>15, <1>16, <1>17, <1>18 DEF vars

LEMMA HoldersStep ==
  ASSUME TypeOK, Refs, Maps, Holders, [Next]_vars
  PROVE  Holders'
<1> USE PoolAssumption DEF poolVars, callVars
<1>1. CASE UNCHANGED <<workers, spawning, key, adapter, tools>>
  BY <1>1 DEF TypeOK, Refs, Holders, Removed
<1>2. ASSUME NEW c \in Callers, NEW k \in Keys, NEW t \in BOOLEAN, RequestTurn(c, k, t) PROVE Holders'
  BY <1>2 DEF TypeOK, Refs, Holders, Removed, RequestTurn, poolVars,
     Forgotten
<1>3. ASSUME NEW c \in Callers, NEW w \in Workers, Spawn(c, w) PROVE Holders'
  BY <1>3 DEF TypeOK, Refs, Holders, Removed, Spawn, Unreferenced, MaySpawn,
     CapVictims
<1>4. ASSUME NEW c \in Callers, NEW w \in Workers, SpawnPrivate(c, w) PROVE Holders'
  BY <1>4 DEF TypeOK, Refs, Holders, Removed, SpawnPrivate, Unreferenced
<1>5. ASSUME NEW c \in Callers, PreflightHeal(c) PROVE Holders'
  BY <1>5 DEF TypeOK, Refs, Holders, Removed, PreflightHeal, Evict, Drop
<1>6. ASSUME NEW c \in Callers, GetWarm(c) PROVE Holders'
  BY <1>6 DEF TypeOK, Refs, Holders, Removed, GetWarm, Warm, Maps
<1>7. ASSUME NEW c \in Callers, Coalesce(c) PROVE Holders'
  BY <1>7 DEF TypeOK, Refs, Holders, Removed, Coalesce, Warm, Maps, At
<1>8. ASSUME NEW c \in Callers, TurnThrows(c) PROVE Holders'
  BY <1>8 DEF TypeOK, Refs, Holders, Removed, TurnThrows, Release, Return,
     Forget, Dequeued, AtHead
<1>9. ASSUME NEW c \in Callers, TurnDone(c) PROVE Holders'
  BY <1>9 DEF TypeOK, Refs, Holders, Removed, TurnDone, Release, Return,
     Forget, Dequeued
<1>10. ASSUME NEW c \in Callers, TurnNeedsHeal(c) PROVE Holders'
  BY <1>10 DEF TypeOK, Refs, Holders, Removed, TurnNeedsHeal, Dequeued
<1>11. ASSUME NEW c \in Callers, HealEvict(c) PROVE Holders'
  BY <1>11 DEF TypeOK, Refs, Holders, Removed, HealEvict, Evict, Drop,
     Return, Forget
<1>12. ASSUME NEW c \in Callers, GraceExpires(c) PROVE Holders'
  <2>1. workers' = Removed(At(key[c])) /\ spawning' = spawning
    BY <1>12 DEF GraceExpires
  <2>2. \A d \in Callers : adapter'[d] # None =>
           adapter'[d] = adapter[d] /\ key'[d] = key[d] /\ tools'[d] = tools[d]
    BY <1>12, GraceEffect
  <2> QED
    BY <2>1, <2>2 DEF TypeOK, Holders, Removed
<1>13. ASSUME NEW w \in Workers, SpawnOk(w) PROVE Holders'
  BY <1>13 DEF TypeOK, Refs, Holders, Removed, SpawnOk, WaitingFor
<1>14. ASSUME NEW w \in Workers, SpawnFails(w) PROVE Holders'
  BY <1>14 DEF TypeOK, Refs, Holders, Removed, SpawnFails, Return, Rejected,
     Forget, WaitingFor
<1>15. ASSUME Housekeep PROVE Holders'
  BY <1>15 DEF TypeOK, Refs, Holders, Removed, Housekeep, SweptOut
<1>16. ASSUME StopAll PROVE Holders'
  BY <1>16 DEF TypeOK, Refs, Holders, Removed, StopAll, Drop
<1>17. ASSUME NEW c \in Callers,
             Enqueue(c) \/ BeginTurn(c) \/ TurnRuns(c) \/ Heartbeat(c) \/
               OpenGate(c) \/ CloseGate(c) \/ StreamEnds(c) \/
               TurnBacksOff(c) \/ RetryTurn(c) \/ Cancel(c)
      PROVE  UNCHANGED <<workers, spawning, key, adapter, tools>>
  BY <1>17 DEF Enqueue, BeginTurn, TurnRuns, Heartbeat, OpenGate, CloseGate,
     StreamEnds, TurnBacksOff, RetryTurn, Cancel, Stamp, Dequeued, poolVars,
     callVars
<1>18. ASSUME NEW w \in Workers,
             WorkerExpires(w)
      PROVE  UNCHANGED <<workers, spawning, key, adapter, tools>>
  BY <1>18 DEF WorkerExpires, poolVars, callVars
<1>19. ASSUME NEW k \in Keys,
             TouchKey(k)
      PROVE  UNCHANGED <<workers, spawning, key, adapter, tools>>
  BY <1>19 DEF TouchKey, poolVars, callVars
<1> QED
  BY NextCases, <1>1, <1>2, <1>3, <1>4, <1>5, <1>6, <1>7, <1>8, <1>9, <1>10,
     <1>11, <1>12, <1>13, <1>14, <1>15, <1>16, <1>17, <1>18, <1>19 DEF vars

LEMMA WaitersStep ==
  ASSUME TypeOK, Refs, Maps, Holders, Waiters, [Next]_vars
  PROVE  Waiters'
<1> USE PoolAssumption DEF poolVars, callVars
<1>1. CASE UNCHANGED <<status, pc, adapter, cancel>>
  BY <1>1 DEF TypeOK, Refs, Maps, Holders, Waiters, Dead, Closed, At
<1>2. ASSUME NEW c \in Callers, NEW k \in Keys, NEW t \in BOOLEAN, RequestTurn(c, k, t) PROVE Waiters'
  BY <1>2 DEF TypeOK, Refs, Maps, Holders, Waiters, Dead, Closed, At,
     RequestTurn, poolVars
<1>3. ASSUME NEW c \in Callers, NEW w \in Workers, Spawn(c, w) PROVE Waiters'
  BY <1>3 DEF TypeOK, Refs, Maps, Holders, Waiters, Dead, Closed, At, Spawn,
     Unreferenced, MaySpawn, CapVictims, Pooled, Warm, IsBusy
<1>4. ASSUME NEW c \in Callers, NEW w \in Workers, SpawnPrivate(c, w) PROVE Waiters'
  BY <1>4 DEF TypeOK, Refs, Maps, Holders, Waiters, Dead, Closed, At,
     SpawnPrivate, Unreferenced
<1>5. ASSUME NEW c \in Callers, PreflightHeal(c) PROVE Waiters'
  BY <1>5 DEF TypeOK, Refs, Maps, Holders, Waiters, Dead, Closed, At,
     PreflightHeal, Evict, Drop
<1>6. ASSUME NEW c \in Callers, GetWarm(c) PROVE Waiters'
  BY <1>6 DEF TypeOK, Refs, Maps, Holders, Waiters, Dead, Closed, At,
     GetWarm, Warm, poolVars
<1>7. ASSUME NEW c \in Callers, Coalesce(c) PROVE Waiters'
  BY <1>7 DEF TypeOK, Refs, Maps, Holders, Waiters, Dead, Closed, At,
     Coalesce, Warm
<1>8. ASSUME NEW c \in Callers, Enqueue(c) PROVE Waiters'
  BY <1>8 DEF TypeOK, Refs, Maps, Holders, Waiters, Dead, Closed, At,
     Enqueue
<1>9. ASSUME NEW c \in Callers, TurnThrows(c) PROVE Waiters'
  BY <1>9 DEF TypeOK, Refs, Maps, Holders, Waiters, Dead, Closed, At,
     TurnThrows, Release, Return, Forget, Dequeued, AtHead
<1>10. ASSUME NEW c \in Callers, BeginTurn(c) PROVE Waiters'
  BY <1>10 DEF TypeOK, Refs, Maps, Holders, Waiters, Dead, Closed, At,
     BeginTurn, AtHead, poolVars
<1>11. ASSUME NEW c \in Callers, TurnRuns(c) PROVE Waiters'
  BY <1>11 DEF TypeOK, Refs, Maps, Holders, Waiters, Dead, Closed, At,
     TurnRuns
<1>12. ASSUME NEW c \in Callers, StreamEnds(c) PROVE Waiters'
  BY <1>12 DEF TypeOK, Refs, Maps, Holders, Waiters, Dead, Closed, At,
     StreamEnds, Stamp
<1>13. ASSUME NEW c \in Callers, TurnDone(c) PROVE Waiters'
  BY <1>13 DEF TypeOK, Refs, Maps, Holders, Waiters, Dead, Closed, At,
     TurnDone, Release, Return, Forget, Dequeued
<1>14. ASSUME NEW c \in Callers, TurnBacksOff(c) PROVE Waiters'
  BY <1>14 DEF TypeOK, Refs, Maps, Holders, Waiters, Dead, Closed, At,
     TurnBacksOff, Dequeued, MayRetry
<1>15. ASSUME NEW c \in Callers, RetryTurn(c) PROVE Waiters'
  BY <1>15 DEF TypeOK, Refs, Maps, Holders, Waiters, Dead, Closed, At,
     RetryTurn
<1>16. ASSUME NEW c \in Callers, TurnNeedsHeal(c) PROVE Waiters'
  BY <1>16 DEF TypeOK, Refs, Maps, Holders, Waiters, Dead, Closed, At,
     TurnNeedsHeal, Dequeued
<1>17. ASSUME NEW c \in Callers, HealEvict(c) PROVE Waiters'
  BY <1>17 DEF TypeOK, Refs, Maps, Holders, Waiters, Dead, Closed, At,
     HealEvict, Evict, Drop, Return, Forget
<1>18. ASSUME NEW c \in Callers, Cancel(c) PROVE Waiters'
  BY <1>18 DEF TypeOK, Refs, Maps, Holders, Waiters, Dead, Closed, At,
     Cancel, poolVars
<1>19. ASSUME NEW c \in Callers, GraceExpires(c) PROVE Waiters'
  <2>1. status' = Closed(GraceTargets(c)) /\ pc' = pc
    BY <1>19 DEF GraceExpires
  <2>3. key[c] \in Keys /\ adapter[c] \in Workers /\ pc[c] # "waiting"
    BY <1>19 DEF GraceExpires, Refs
  <2>4. \A w \in GraceTargets(c) : status[w] # "starting"
    BY <1>19, <2>3 DEF GraceTargets, At, Maps, Waiters, GraceExpires
  <2>2. \A d \in Callers :
           /\ adapter'[d] = adapter[d] \/ (pc[d] = "idle" /\ cancel'[d] # "armed")
           /\ cancel'[d] = cancel[d] \/ cancel'[d] # "armed"
    BY <1>19, GraceEffect
  <2> QED
    BY <2>1, <2>2, <2>4 DEF Waiters, Closed, TypeOK, Refs
<1>20. ASSUME NEW w \in Workers, SpawnOk(w) PROVE Waiters'
  BY <1>20 DEF TypeOK, Refs, Maps, Holders, Waiters, Dead, Closed, At,
     SpawnOk, WaitingFor
<1>21. ASSUME NEW w \in Workers, SpawnFails(w) PROVE Waiters'
  BY <1>21 DEF TypeOK, Refs, Maps, Holders, Waiters, Dead, Closed, At,
     SpawnFails, Return, Rejected, Forget, WaitingFor
<1>22. ASSUME Housekeep PROVE Waiters'
  BY <1>22 DEF TypeOK, Refs, Maps, Holders, Waiters, Dead, Closed, At,
     Housekeep, SweptOut, Pooled, IdleVictims
<1>23. ASSUME StopAll PROVE Waiters'
  BY <1>23 DEF TypeOK, Refs, Maps, Holders, Waiters, Dead, Closed, At,
     StopAll, Drop, Pooled
<1>24. ASSUME NEW c \in Callers,
             Heartbeat(c) \/ OpenGate(c) \/ CloseGate(c)
      PROVE  UNCHANGED <<status, pc, adapter, cancel>>
  BY <1>24 DEF Heartbeat, OpenGate, CloseGate, Stamp, poolVars, callVars
<1>25. ASSUME NEW w \in Workers,
             WorkerExpires(w)
      PROVE  UNCHANGED <<status, pc, adapter, cancel>>
  BY <1>25 DEF WorkerExpires, poolVars, callVars
<1>26. ASSUME NEW k \in Keys,
             TouchKey(k)
      PROVE  UNCHANGED <<status, pc, adapter, cancel>>
  BY <1>26 DEF TouchKey, poolVars, callVars
<1> QED
  BY NextCases, <1>1, <1>2, <1>3, <1>4, <1>5, <1>6, <1>7, <1>8, <1>9, <1>10,
     <1>11, <1>12, <1>13, <1>14, <1>15, <1>16, <1>17, <1>18, <1>19, <1>20,
     <1>21, <1>22, <1>23, <1>24, <1>25, <1>26 DEF vars

LEMMA HandlesStep ==
  ASSUME TypeOK, Refs, Serial, Handles, [Next]_vars
  PROVE  Handles'
<1> USE PoolAssumption DEF poolVars, callVars
<1>1. CASE UNCHANGED <<busy, pc, adapter>>
  BY <1>1 DEF TypeOK, Refs, Handles
<1>2. ASSUME NEW c \in Callers, NEW k \in Keys, NEW t \in BOOLEAN, RequestTurn(c, k, t) PROVE Handles'
  BY <1>2 DEF TypeOK, Refs, Handles, RequestTurn, poolVars
<1>3. ASSUME NEW c \in Callers, NEW w \in Workers, Spawn(c, w) PROVE Handles'
  BY <1>3 DEF TypeOK, Refs, Handles, Spawn, Unreferenced, MaySpawn
<1>4. ASSUME NEW c \in Callers, NEW w \in Workers, SpawnPrivate(c, w) PROVE Handles'
  BY <1>4 DEF TypeOK, Refs, Handles, SpawnPrivate, Unreferenced
<1>5. ASSUME NEW c \in Callers, PreflightHeal(c) PROVE Handles'
  BY <1>5 DEF TypeOK, Refs, Handles, PreflightHeal, Evict, Drop
<1>6. ASSUME NEW c \in Callers, GetWarm(c) PROVE Handles'
  BY <1>6 DEF TypeOK, Refs, Handles, GetWarm, Warm, poolVars
<1>7. ASSUME NEW c \in Callers, Coalesce(c) PROVE Handles'
  BY <1>7 DEF TypeOK, Refs, Handles, Coalesce, Warm
<1>8. ASSUME NEW c \in Callers, Enqueue(c) PROVE Handles'
  BY <1>8 DEF TypeOK, Refs, Handles, Enqueue
<1>9. ASSUME NEW c \in Callers, TurnThrows(c) PROVE Handles'
  BY <1>9 DEF TypeOK, Refs, Handles, TurnThrows, Release, Return, Forget,
     Dequeued, AtHead
<1>10. ASSUME NEW c \in Callers, BeginTurn(c) PROVE Handles'
  BY <1>10 DEF TypeOK, Refs, Handles, BeginTurn, AtHead, poolVars
<1>11. ASSUME NEW c \in Callers, TurnRuns(c) PROVE Handles'
  <2>1. \A d \in Callers : pc[d] = "running" => adapter[d] # adapter[c]
    BY <1>11 DEF TurnRuns, Serial, InTurn, AtHead
  <2>2. \A w \in Workers : busy[w] # None => busy[w] \in Callers /\ w # adapter[c]
    BY <1>11, <2>1 DEF Handles, TypeOK
  <2> QED
    BY <1>11, <2>1, <2>2 DEF TypeOK, Refs, Handles, TurnRuns
<1>12. ASSUME NEW c \in Callers, StreamEnds(c) PROVE Handles'
  BY <1>12 DEF TypeOK, Refs, Handles, StreamEnds, Stamp
<1>13. ASSUME NEW c \in Callers, TurnDone(c) PROVE Handles'
  BY <1>13 DEF TypeOK, Refs, Handles, TurnDone, Release, Return, Forget,
     Dequeued
<1>14. ASSUME NEW c \in Callers, TurnBacksOff(c) PROVE Handles'
  BY <1>14 DEF TypeOK, Refs, Handles, TurnBacksOff, Dequeued, MayRetry
<1>15. ASSUME NEW c \in Callers, RetryTurn(c) PROVE Handles'
  BY <1>15 DEF TypeOK, Refs, Handles, RetryTurn
<1>16. ASSUME NEW c \in Callers, TurnNeedsHeal(c) PROVE Handles'
  BY <1>16 DEF TypeOK, Refs, Handles, TurnNeedsHeal, Dequeued
<1>17. ASSUME NEW c \in Callers, HealEvict(c) PROVE Handles'
  BY <1>17 DEF TypeOK, Refs, Handles, HealEvict, Evict, Drop, Return, Forget
<1>18. ASSUME NEW c \in Callers, GraceExpires(c) PROVE Handles'
  <2>1. busy' = busy
    BY <1>18 DEF GraceExpires
  <2> QED
    BY <1>18, <2>1, GraceEffect DEF TypeOK, Handles
<1>19. ASSUME NEW w \in Workers, SpawnOk(w) PROVE Handles'
  BY <1>19 DEF TypeOK, Refs, Handles, SpawnOk, WaitingFor
<1>20. ASSUME NEW w \in Workers, SpawnFails(w) PROVE Handles'
  BY <1>20 DEF TypeOK, Refs, Handles, SpawnFails, Return, Rejected, Forget,
     WaitingFor
<1>21. ASSUME NEW c \in Callers,
             Heartbeat(c) \/ OpenGate(c) \/ CloseGate(c) \/ Cancel(c)
      PROVE  UNCHANGED <<busy, pc, adapter>>
  BY <1>21 DEF Heartbeat, OpenGate, CloseGate, Cancel, Stamp, poolVars,
     callVars
<1>22. ASSUME NEW w \in Workers,
             WorkerExpires(w)
      PROVE  UNCHANGED <<busy, pc, adapter>>
  BY <1>22 DEF WorkerExpires, poolVars, callVars
<1>23. ASSUME NEW k \in Keys,
             TouchKey(k)
      PROVE  UNCHANGED <<busy, pc, adapter>>
  BY <1>23 DEF TouchKey, poolVars, callVars
<1>24. ASSUME 
             Housekeep \/ StopAll
      PROVE  UNCHANGED <<busy, pc, adapter>>
  BY <1>24 DEF Housekeep, StopAll, Drop, poolVars, callVars
<1> QED
  BY NextCases, <1>1, <1>2, <1>3, <1>4, <1>5, <1>6, <1>7, <1>8, <1>9, <1>10,
     <1>11, <1>12, <1>13, <1>14, <1>15, <1>16, <1>17, <1>18, <1>19, <1>20,
     <1>21, <1>22, <1>23, <1>24 DEF vars

-----------------------------------------------------------------------------
(* No session is lost: a step that starts none leaves every session that it *)
(* does not close where it was.                                             *)

KeepsSessions ==
  /\ \A w \in Workers : status'[w] \in {status[w], "dead"}
  /\ \A c \in Callers, w \in Workers :
       PrivateOwner(c, w) /\ status'[w] # "dead" => PrivateOwner(c, w)'
  /\ \A k \in Keys : workers[k] # None /\ status'[workers[k]] # "dead"
                       => workers'[k] = workers[k]
  /\ \A k \in Keys : spawning[k] # None /\ status'[spawning[k]] # "dead"
                       => spawning'[k] = spawning[k]

LEMMA KeptSessions ==
  ASSUME PoolAssumption, TypeOK, NoLeakedSession, KeepsSessions
  PROVE  NoLeakedSession'
<1> USE PoolAssumption
<1> SUFFICES ASSUME NEW w \in Workers, status'[w] = status[w]
             PROVE  /\ status[w] = "starting" =>
                         \/ \E k \in Keys : spawning'[k] = w
                         \/ \E c \in Callers : PrivateOwner(c, w)'
                    /\ status[w] = "live" =>
                         \/ w \in Pooled'
                         \/ \E c \in Callers : PrivateOwner(c, w)'
  BY DEF NoLeakedSession, PrivateOwner, KeepsSessions
<1>1. ASSUME NEW c \in Callers, PrivateOwner(c, w), status[w] # "dead"
      PROVE  PrivateOwner(c, w)'
  BY <1>1 DEF KeepsSessions
<1>2. ASSUME NEW k \in Keys, spawning[k] = w, status[w] # "dead"
      PROVE  spawning'[k] = w
  BY <1>2 DEF KeepsSessions
<1>3. ASSUME w \in Pooled, status[w] # "dead"
      PROVE  w \in Pooled'
  <2> PICK k \in Keys : workers[k] = w
    BY <1>3 DEF Pooled
  <2>1. workers'[k] = w
    BY <1>3 DEF KeepsSessions
  <2> QED
    BY <2>1 DEF Pooled
<1> QED
  BY <1>1, <1>2, <1>3 DEF NoLeakedSession

LEMMA LeakStep ==
  ASSUME TypeOK, Refs, Maps, Holders, Waiters, NoLeakedSession, [Next]_vars
  PROVE  NoLeakedSession'
<1> USE PoolAssumption DEF poolVars, callVars
<1>1. ASSUME NEW c \in Callers, NEW w \in Workers, Spawn(c, w) PROVE NoLeakedSession'
  BY <1>1 DEF TypeOK, Refs, Maps, Holders, NoLeakedSession, PrivateOwner,
     Pooled, Removed, Closed, At, Spawn, Unreferenced, MaySpawn, CapVictims,
     Warm, Dead
<1>2. ASSUME NEW c \in Callers, NEW w \in Workers, SpawnPrivate(c, w) PROVE NoLeakedSession'
  BY <1>2 DEF TypeOK, Refs, Maps, Holders, NoLeakedSession, PrivateOwner,
     Pooled, Removed, Closed, At, SpawnPrivate, Unreferenced
<1>3. ASSUME NEW w \in Workers, SpawnOk(w) PROVE NoLeakedSession'
  BY <1>3 DEF TypeOK, Refs, Maps, Holders, NoLeakedSession, PrivateOwner,
     Pooled, Removed, Closed, At, SpawnOk, WaitingFor
<1>4. ASSUME UNCHANGED vars PROVE NoLeakedSession'
  BY <1>4 DEF NoLeakedSession, PrivateOwner, Pooled, vars
<1>5. ASSUME NEW c \in Callers, NEW k \in Keys, NEW t \in BOOLEAN, RequestTurn(c, k, t) PROVE KeepsSessions
  BY <1>5 DEF TypeOK, Refs, Maps, Holders, KeepsSessions, PrivateOwner,
     Removed, Closed, At, RequestTurn, Forgotten
<1>6. ASSUME NEW c \in Callers, PreflightHeal(c) PROVE KeepsSessions
  BY <1>6 DEF TypeOK, Refs, Maps, Holders, KeepsSessions, PrivateOwner,
     Removed, Closed, At, PreflightHeal, Evict, Drop
<1>7. ASSUME NEW c \in Callers, GetWarm(c) PROVE KeepsSessions
  BY <1>7 DEF TypeOK, Refs, Maps, Holders, KeepsSessions, PrivateOwner,
     Removed, Closed, At, GetWarm, Warm
<1>8. ASSUME NEW c \in Callers, Coalesce(c) PROVE KeepsSessions
  BY <1>8 DEF TypeOK, Refs, Maps, Holders, KeepsSessions, PrivateOwner,
     Removed, Closed, At, Coalesce, Warm
<1>9. ASSUME NEW c \in Callers, Enqueue(c) PROVE KeepsSessions
  BY <1>9 DEF TypeOK, Refs, Maps, Holders, KeepsSessions, PrivateOwner,
     Removed, Closed, At, Enqueue
<1>10. ASSUME NEW c \in Callers, TurnThrows(c) PROVE KeepsSessions
  BY <1>10 DEF TypeOK, Refs, Maps, Holders, KeepsSessions, PrivateOwner,
     Removed, Closed, At, TurnThrows, Release, Return, Forget, Dequeued,
     AtHead
<1>11. ASSUME NEW c \in Callers, BeginTurn(c) PROVE KeepsSessions
  BY <1>11 DEF TypeOK, Refs, Maps, Holders, KeepsSessions, PrivateOwner,
     Removed, Closed, At, BeginTurn, AtHead
<1>12. ASSUME NEW c \in Callers, TurnRuns(c) PROVE KeepsSessions
  BY <1>12 DEF TypeOK, Refs, Maps, Holders, KeepsSessions, PrivateOwner,
     Removed, Closed, At, TurnRuns
<1>13. ASSUME NEW c \in Callers, Heartbeat(c) PROVE KeepsSessions
  BY <1>13 DEF TypeOK, Refs, Maps, Holders, KeepsSessions, PrivateOwner,
     Removed, Closed, At, Heartbeat, Stamp
<1>14. ASSUME NEW c \in Callers, OpenGate(c) PROVE KeepsSessions
  BY <1>14 DEF TypeOK, Refs, Maps, Holders, KeepsSessions, PrivateOwner,
     Removed, Closed, At, OpenGate
<1>15. ASSUME NEW c \in Callers, CloseGate(c) PROVE KeepsSessions
  BY <1>15 DEF TypeOK, Refs, Maps, Holders, KeepsSessions, PrivateOwner,
     Removed, Closed, At, CloseGate
<1>16. ASSUME NEW c \in Callers, StreamEnds(c) PROVE KeepsSessions
  BY <1>16 DEF TypeOK, Refs, Maps, Holders, KeepsSessions, PrivateOwner,
     Removed, Closed, At, StreamEnds, Stamp
<1>17. ASSUME NEW c \in Callers, TurnDone(c) PROVE KeepsSessions
  BY <1>17 DEF TypeOK, Refs, Maps, Holders, KeepsSessions, PrivateOwner,
     Removed, Closed, At, TurnDone, Release, Return, Forget, Dequeued
<1>18. ASSUME NEW c \in Callers, TurnBacksOff(c) PROVE KeepsSessions
  BY <1>18 DEF TypeOK, Refs, Maps, Holders, KeepsSessions, PrivateOwner,
     Removed, Closed, At, TurnBacksOff, Dequeued, MayRetry
<1>19. ASSUME NEW c \in Callers, RetryTurn(c) PROVE KeepsSessions
  BY <1>19 DEF TypeOK, Refs, Maps, Holders, KeepsSessions, PrivateOwner,
     Removed, Closed, At, RetryTurn
<1>20. ASSUME NEW c \in Callers, TurnNeedsHeal(c) PROVE KeepsSessions
  BY <1>20 DEF TypeOK, Refs, Maps, Holders, KeepsSessions, PrivateOwner,
     Removed, Closed, At, TurnNeedsHeal, Dequeued
<1>21. ASSUME NEW c \in Callers, HealEvict(c) PROVE KeepsSessions
  BY <1>21 DEF TypeOK, Refs, Maps, Holders, KeepsSessions, PrivateOwner,
     Removed, Closed, At, HealEvict, Evict, Drop, Return, Forget
<1>22. ASSUME NEW c \in Callers, Cancel(c) PROVE KeepsSessions
  BY <1>22 DEF TypeOK, Refs, Maps, Holders, KeepsSessions, PrivateOwner,
     Removed, Closed, At, Cancel
<1>23. ASSUME NEW c \in Callers, GraceExpires(c) PROVE KeepsSessions
  <2>1. workers' = Removed(At(key[c])) /\ status' = Closed(GraceTargets(c)) /\ spawning' = spawning
    BY <1>23 DEF GraceExpires
  <2>2. \A d \in Callers : pc[d] # "idle" =>
           /\ pc'[d] = pc[d]
           /\ adapter'[d] = adapter[d]
           /\ tools'[d] = tools[d]
    BY <1>23, GraceEffect
  <2> QED
    BY <2>1, <2>2 DEF KeepsSessions, PrivateOwner, Removed, Closed, GraceTargets, At, TypeOK
<1>24. ASSUME NEW w \in Workers, SpawnFails(w) PROVE KeepsSessions
  BY <1>24 DEF TypeOK, Refs, Maps, Holders, KeepsSessions, PrivateOwner,
     Removed, Closed, At, SpawnFails, Return, Rejected, Forget, WaitingFor
<1>25. ASSUME NEW w \in Workers, WorkerExpires(w) PROVE KeepsSessions
  BY <1>25 DEF TypeOK, Refs, Maps, Holders, KeepsSessions, PrivateOwner,
     Removed, Closed, At, WorkerExpires
<1>26. ASSUME NEW k \in Keys, TouchKey(k) PROVE KeepsSessions
  BY <1>26 DEF TypeOK, Refs, Maps, Holders, KeepsSessions, PrivateOwner,
     Removed, Closed, At, TouchKey, Warm
<1>27. ASSUME Housekeep PROVE KeepsSessions
  BY <1>27 DEF TypeOK, Refs, Maps, Holders, KeepsSessions, PrivateOwner,
     Removed, Closed, At, Housekeep, SweptOut, IdleVictims, Dead, Pooled
<1>28. ASSUME StopAll PROVE KeepsSessions
  BY <1>28 DEF TypeOK, Refs, Maps, Holders, KeepsSessions, PrivateOwner,
     Removed, Closed, At, StopAll, Drop, Pooled
<1> QED
  BY NextCases, KeptSessions, <1>1, <1>2, <1>3, <1>4, <1>5, <1>6, <1>7,
     <1>8, <1>9, <1>10, <1>11, <1>12, <1>13, <1>14, <1>15, <1>16, <1>17,
     <1>18, <1>19, <1>20, <1>21, <1>22, <1>23, <1>24, <1>25, <1>26, <1>27,
     <1>28

-----------------------------------------------------------------------------
(* Gates *)

(* A gate is of an attempt the turn has made; an attempt that does not yet  *)
(* stream has none.                                                         *)
GateAges ==
  \A c \in Callers :
    /\ pc[c] # "idle" => gates[c] <= attempt[c] /\ attempt[c] # 0
    /\ pc[c] \notin {"idle", "running", "finalizing", "healing"} => gates[c] < attempt[c]

LEMMA UngatedFewer ==
  ASSUME TypeOK, NEW E, gates' = Ungated(E)
  PROVE  \A c \in Callers : gates'[c] \in Nat /\ gates'[c] <= gates[c]
  BY DEF Ungated, TypeOK

LEMMA GateAgesStep ==
  ASSUME TypeOK, Refs, GateAges, [Next]_vars
  PROVE  GateAges'
<1> USE DEF poolVars, callVars
<1>1. ASSUME NEW c \in Callers, NEW k \in Keys, NEW t \in BOOLEAN, RequestTurn(c, k, t) PROVE GateAges'
  BY <1>1 DEF GateAges, TypeOK, RequestTurn, Forgotten
<1>2. ASSUME NEW c \in Callers, NEW w \in Workers, Spawn(c, w) PROVE GateAges'
  <2>1. \A d \in Callers : gates'[d] \in Nat /\ gates'[d] <= gates[d]
    BY <1>2, UngatedFewer DEF Spawn
  <2> QED
    BY <1>2, <2>1 DEF GateAges, TypeOK, Spawn
<1>3. ASSUME NEW c \in Callers, NEW w \in Workers, SpawnPrivate(c, w) PROVE GateAges'
  BY <1>3 DEF GateAges, TypeOK, SpawnPrivate
<1>4. ASSUME NEW c \in Callers, PreflightHeal(c) PROVE GateAges'
  <2>1. \A d \in Callers : gates'[d] \in Nat /\ gates'[d] <= gates[d]
    BY <1>4, UngatedFewer DEF PreflightHeal, Evict, Drop
  <2> QED
    BY <1>4, <2>1 DEF GateAges, TypeOK, PreflightHeal, Evict, Drop
<1>5. ASSUME NEW c \in Callers, GetWarm(c) PROVE GateAges'
  BY <1>5 DEF GateAges, TypeOK, GetWarm
<1>6. ASSUME NEW c \in Callers, Coalesce(c) PROVE GateAges'
  BY <1>6 DEF GateAges, TypeOK, Coalesce
<1>7. ASSUME NEW c \in Callers, Enqueue(c) PROVE GateAges'
  BY <1>7 DEF GateAges, TypeOK, Enqueue
<1>8. ASSUME NEW c \in Callers, TurnThrows(c) PROVE GateAges'
  BY <1>8 DEF GateAges, TypeOK, TurnThrows, Release, Return, Forget
<1>9. ASSUME NEW c \in Callers, BeginTurn(c) PROVE GateAges'
  BY <1>9 DEF GateAges, TypeOK, BeginTurn
<1>10. ASSUME NEW c \in Callers, TurnRuns(c) PROVE GateAges'
  BY <1>10 DEF GateAges, TypeOK, TurnRuns
<1>11. ASSUME NEW c \in Callers, Heartbeat(c) PROVE GateAges'
  BY <1>11 DEF GateAges, TypeOK, Heartbeat
<1>12. ASSUME NEW c \in Callers, OpenGate(c) PROVE GateAges'
  BY <1>12 DEF GateAges, TypeOK, OpenGate
<1>13. ASSUME NEW c \in Callers, CloseGate(c) PROVE GateAges'
  BY <1>13 DEF GateAges, TypeOK, CloseGate
<1>14. ASSUME NEW c \in Callers, StreamEnds(c) PROVE GateAges'
  BY <1>14 DEF GateAges, TypeOK, StreamEnds
<1>15. ASSUME NEW c \in Callers, TurnDone(c) PROVE GateAges'
  BY <1>15 DEF GateAges, TypeOK, TurnDone, Release, Return, Forget
<1>16. ASSUME NEW c \in Callers, TurnBacksOff(c) PROVE GateAges'
  BY <1>16 DEF GateAges, TypeOK, TurnBacksOff
<1>17. ASSUME NEW c \in Callers, RetryTurn(c) PROVE GateAges'
  BY <1>17 DEF GateAges, TypeOK, RetryTurn
<1>18. ASSUME NEW c \in Callers, TurnNeedsHeal(c) PROVE GateAges'
  BY <1>18 DEF GateAges, TypeOK, TurnNeedsHeal
<1>19. ASSUME NEW c \in Callers, HealEvict(c) PROVE GateAges'
  <2>1. \A d \in Callers : gates'[d] \in Nat /\ gates'[d] <= gates[d]
    BY <1>19, UngatedFewer DEF HealEvict, Evict, Drop, Return, Forget
  <2> QED
    BY <1>19, <2>1 DEF GateAges, TypeOK, HealEvict, Evict, Drop, Return,
       Forget
<1>20. ASSUME NEW c \in Callers, Cancel(c) PROVE GateAges'
  BY <1>20 DEF GateAges, TypeOK, Cancel
<1>21. ASSUME NEW c \in Callers, GraceExpires(c) PROVE GateAges'
  <2>1. \A d \in Callers : gates'[d] \in Nat /\ gates'[d] <= gates[d]
    BY <1>21, UngatedFewer DEF GraceExpires, Forget
  <2>2. pc' = pc /\ \A d \in Callers : pc[d] # "idle" => attempt'[d] = attempt[d]
    BY <1>21 DEF GraceExpires, Forget, TypeOK
  <2> QED
    BY <2>1, <2>2 DEF GateAges, TypeOK
<1>22. ASSUME NEW w \in Workers, SpawnOk(w) PROVE GateAges'
  BY <1>22 DEF GateAges, TypeOK, SpawnOk, WaitingFor
<1>23. ASSUME NEW w \in Workers, SpawnFails(w) PROVE GateAges'
  BY <1>23 DEF GateAges, TypeOK, SpawnFails, Return, Rejected, Forget,
     WaitingFor
<1>24. ASSUME NEW w \in Workers, WorkerExpires(w) PROVE GateAges'
  BY <1>24 DEF GateAges, TypeOK, WorkerExpires
<1>25. ASSUME NEW k \in Keys, TouchKey(k) PROVE GateAges'
  BY <1>25 DEF GateAges, TypeOK, TouchKey
<1>26. ASSUME Housekeep PROVE GateAges'
  <2>1. \A d \in Callers : gates'[d] \in Nat /\ gates'[d] <= gates[d]
    BY <1>26, UngatedFewer DEF Housekeep
  <2>2. UNCHANGED <<pc, attempt>>
    BY <1>26 DEF Housekeep
  <2> QED
    BY <2>1, <2>2 DEF GateAges, TypeOK
<1>27. ASSUME StopAll PROVE GateAges'
  <2>1. \A d \in Callers : gates'[d] \in Nat /\ gates'[d] <= gates[d]
    BY <1>27, UngatedFewer DEF StopAll, Drop
  <2>2. UNCHANGED <<pc, attempt>>
    BY <1>27 DEF StopAll
  <2> QED
    BY <2>1, <2>2 DEF GateAges, TypeOK
<1>28. ASSUME UNCHANGED vars PROVE GateAges'
  BY <1>28 DEF GateAges, TypeOK, vars
<1> QED
  BY NextCases, <1>1, <1>2, <1>3, <1>4, <1>5, <1>6, <1>7, <1>8, <1>9, <1>10,
     <1>11, <1>12, <1>13, <1>14, <1>15, <1>16, <1>17, <1>18, <1>19, <1>20,
     <1>21, <1>22, <1>23, <1>24, <1>25, <1>26, <1>27, <1>28

-----------------------------------------------------------------------------
(* The inductive invariant *)

IInv ==
  /\ TypeOK
  /\ Refs
  /\ Serial
  /\ Maps
  /\ Holders
  /\ Waiters
  /\ Handles
  /\ NoLeakedSession
  /\ GateAges

LEMMA IInvInit == Init => IInv
<1> SUFFICES ASSUME Init PROVE IInv
  OBVIOUS
<1>1. TypeOK
  BY TypeInit
<1>2. Refs /\ Serial /\ Waiters /\ GateAges
  BY DEF Init, Refs, Serial, Waiters, GateAges, InTurn
<1>3. Maps /\ Holders /\ Handles /\ NoLeakedSession
  BY DEF Init, Maps, Holders, Handles, NoLeakedSession
<1> QED
  BY <1>1, <1>2, <1>3 DEF IInv

LEMMA IInvStep == IInv /\ [Next]_vars => IInv'
  BY TypeStep, RefsStep, SerialStep, MapsStep, HoldersStep, WaitersStep,
     HandlesStep, LeakStep, GateAgesStep DEF IInv

(* A worker a turn without tools uses is, while it is alive, the one the    *)
(* pool holds under the key of the turn.                                    *)
LEMMA UsedIsPooled ==
  ASSUME IInv, NEW c \in Callers,
         pc[c] \notin {"idle", "preflight", "get", "waiting"} \/ cancel[c] = "armed",
         ~ tools[c], status[adapter[c]] # "dead"
  PROVE  workers[key[c]] = adapter[c]
<1>1. adapter[c] \in Workers /\ key[c] \in Keys
  BY DEF IInv, Refs
<1>2. status[adapter[c]] = "live"
  BY <1>1 DEF IInv, Waiters, TypeOK, Statuses
<1>3. ~ \E d \in Callers : PrivateOwner(d, adapter[c])
  BY <1>1, PoolAssumption DEF IInv, Holders, PrivateOwner, TypeOK
<1>4. PICK k \in Keys : workers[k] = adapter[c]
  BY <1>1, <1>2, <1>3 DEF IInv, NoLeakedSession, Pooled
<1>5. key[c] = k
  BY <1>1, <1>4, PoolAssumption DEF IInv, Holders
<1> QED
  BY <1>4, <1>5

-----------------------------------------------------------------------------
(* Parked turns *)

Parked(c) == pc[c] = "running" /\ gates[c] = attempt[c] /\ ~ tools[c]

(* A turn that is parked after the step was parked before it, and its       *)
(* session was not closed.                                                  *)
KeepsParked ==
  \A c \in Callers :
    Parked(c)' => /\ Parked(c)
                  /\ adapter'[c] = adapter[c]
                  /\ status'[adapter[c]] = status[adapter[c]]

LEMMA KeptParked ==
  ASSUME ParkedTurnHasSession, KeepsParked
  PROVE  ParkedTurnHasSession'
  BY DEF ParkedTurnHasSession, KeepsParked, Parked

(* The gate of a turn whose worker is among E is rejected with E.           *)
LEMMA UngatedNotParked ==
  ASSUME IInv, NEW E, gates' = Ungated(E), NEW c \in Callers,
         pc[c] = "running", gates'[c] = attempt[c]
  PROVE  adapter[c] \notin E /\ gates[c] = attempt[c]
<1>1. gates'[c] # 0 /\ busy[adapter[c]] = c
  BY DEF IInv, GateAges, Handles, TypeOK
<1> QED
  BY <1>1 DEF Ungated, IInv, TypeOK

LEMMA ParkedStep ==
  ASSUME IInv, ParkedTurnHasSession, [Next]_vars
  PROVE  ParkedTurnHasSession'
<1> USE DEF poolVars, callVars
<1>T. TypeOK /\ Refs /\ GateAges
  BY DEF IInv
<1>1. ASSUME NEW c \in Callers, NEW k \in Keys, NEW t \in BOOLEAN, RequestTurn(c, k, t) PROVE KeepsParked
  BY <1>1, <1>T DEF KeepsParked, Parked, TypeOK, Refs, GateAges, RequestTurn
<1>2. ASSUME NEW c \in Callers, NEW w \in Workers, Spawn(c, w) PROVE KeepsParked
  <2> SUFFICES ASSUME NEW d \in Callers, Parked(d)'
               PROVE  /\ Parked(d)
                      /\ adapter'[d] = adapter[d]
                      /\ status'[adapter[d]] = status[adapter[d]]
    BY DEF KeepsParked
  <2>1. PICK E \in CapVictims(key[c]) :
          gates' = Ungated(E) /\ status' = [Closed(E) EXCEPT ![w] = "starting"]
    BY <1>2 DEF Spawn
  <2>2. /\ pc[d] = "running" /\ gates'[d] = attempt[d] /\ ~ tools[d]
        /\ adapter'[d] = adapter[d] /\ adapter[d] # w
    BY <1>2, <1>T DEF Parked, Spawn, Unreferenced, TypeOK
  <2> QED
    BY <1>T, <2>1, <2>2, UngatedNotParked DEF Parked, Closed, TypeOK, Refs
<1>3. ASSUME NEW c \in Callers, NEW w \in Workers, SpawnPrivate(c, w) PROVE KeepsParked
  BY <1>3, <1>T DEF KeepsParked, Parked, TypeOK, Refs, GateAges,
     SpawnPrivate, Unreferenced
<1>4. ASSUME NEW c \in Callers, PreflightHeal(c) PROVE KeepsParked
  <2> SUFFICES ASSUME NEW d \in Callers, Parked(d)'
               PROVE  /\ Parked(d)
                      /\ adapter'[d] = adapter[d]
                      /\ status'[adapter[d]] = status[adapter[d]]
    BY DEF KeepsParked
  <2> DEFINE E == At(key[c])
  <2>1. /\ pc[d] = "running" /\ gates'[d] = attempt[d] /\ ~ tools[d]
        /\ adapter'[d] = adapter[d]
        /\ gates' = Ungated(E) /\ status' = Closed(E)
    BY <1>4, <1>T DEF Parked, TypeOK, PreflightHeal, Evict, Drop
  <2> HIDE DEF E
  <2> QED
    BY <1>T, <2>1, UngatedNotParked DEF Parked, Closed, TypeOK, Refs
<1>5. ASSUME NEW c \in Callers, GetWarm(c) PROVE KeepsParked
  BY <1>5, <1>T DEF KeepsParked, Parked, TypeOK, Refs, GateAges, GetWarm
<1>6. ASSUME NEW c \in Callers, Coalesce(c) PROVE KeepsParked
  BY <1>6, <1>T DEF KeepsParked, Parked, TypeOK, Refs, GateAges, Coalesce
<1>7. ASSUME NEW c \in Callers, Enqueue(c) PROVE KeepsParked
  BY <1>7, <1>T DEF KeepsParked, Parked, TypeOK, Refs, GateAges, Enqueue
<1>8. ASSUME NEW c \in Callers, TurnThrows(c) PROVE KeepsParked
  <2>1. \A d \in Callers :
           Parked(d)' => d # c /\ Parked(d) /\ adapter'[d] = adapter[d]
    BY <1>8, <1>T DEF Parked, TurnThrows, Release, Return, Forget, TypeOK
  <2>2. status' = status \/ (tools[c] /\ status' = Closed({adapter[c]}))
    BY <1>8 DEF TurnThrows, Release, Return, Forget
  <2>3. \A d \in Callers :
           d # c /\ tools[c] /\ pc[d] = "running" => adapter[d] # adapter[c]
    BY <1>8, <1>T, PoolAssumption DEF IInv, Holders, Refs, TurnThrows, Release, Return, Forget
  <2>4. ASSUME NEW d \in Callers, d # c, pc[d] = "running"
        PROVE  status'[adapter[d]] = status[adapter[d]]
    <3>1. adapter[d] \in Workers
      BY <1>T, <2>4 DEF Refs
    <3>2. CASE tools[c]
      BY <2>2, <2>3, <2>4, <3>1, <3>2 DEF Closed
    <3>3. CASE ~ tools[c]
      BY <2>2, <3>3
    <3> QED
      BY <3>2, <3>3
  <2> QED
    BY <2>1, <2>4 DEF KeepsParked, Parked
<1>9. ASSUME NEW c \in Callers, BeginTurn(c) PROVE KeepsParked
  BY <1>9, <1>T DEF KeepsParked, Parked, TypeOK, Refs, GateAges, BeginTurn
<1>10. ASSUME NEW c \in Callers, TurnRuns(c) PROVE KeepsParked
  <2>1. gates[c] # attempt[c]
    <3>1. gates[c] \in Nat /\ attempt[c] \in Nat
      BY <1>T DEF TypeOK
    <3>2. gates[c] < attempt[c]
      BY <1>10, <1>T DEF TurnRuns, GateAges
    <3> QED
      BY <3>1, <3>2
  <2>2. \A d \in Callers : d # c => pc'[d] = pc[d]
    BY <1>10 DEF TurnRuns, TypeOK
  <2> QED
    BY <1>10, <2>1, <2>2 DEF KeepsParked, Parked, TurnRuns
<1>11. ASSUME NEW c \in Callers, Heartbeat(c) PROVE KeepsParked
  BY <1>11, <1>T DEF KeepsParked, Parked, TypeOK, Refs, GateAges, Heartbeat
<1>12. ASSUME NEW c \in Callers, CloseGate(c) PROVE KeepsParked
  BY <1>12, <1>T DEF KeepsParked, Parked, TypeOK, Refs, GateAges, CloseGate
<1>13. ASSUME NEW c \in Callers, StreamEnds(c) PROVE KeepsParked
  BY <1>13, <1>T DEF KeepsParked, Parked, TypeOK, Refs, GateAges, StreamEnds
<1>14. ASSUME NEW c \in Callers, TurnDone(c) PROVE KeepsParked
  <2>1. \A d \in Callers :
           Parked(d)' => d # c /\ Parked(d) /\ adapter'[d] = adapter[d]
    BY <1>14, <1>T DEF Parked, TurnDone, Release, Return, Forget, TypeOK
  <2>2. status' = status \/ (tools[c] /\ status' = Closed({adapter[c]}))
    BY <1>14 DEF TurnDone, Release, Return, Forget
  <2>3. \A d \in Callers :
           d # c /\ tools[c] /\ pc[d] = "running" => adapter[d] # adapter[c]
    BY <1>14, <1>T, PoolAssumption DEF IInv, Holders, Refs, TurnDone, Release, Return, Forget
  <2>4. ASSUME NEW d \in Callers, d # c, pc[d] = "running"
        PROVE  status'[adapter[d]] = status[adapter[d]]
    <3>1. adapter[d] \in Workers
      BY <1>T, <2>4 DEF Refs
    <3>2. CASE tools[c]
      BY <2>2, <2>3, <2>4, <3>1, <3>2 DEF Closed
    <3>3. CASE ~ tools[c]
      BY <2>2, <3>3
    <3> QED
      BY <3>2, <3>3
  <2> QED
    BY <2>1, <2>4 DEF KeepsParked, Parked
<1>15. ASSUME NEW c \in Callers, TurnBacksOff(c) PROVE KeepsParked
  BY <1>15, <1>T DEF KeepsParked, Parked, TypeOK, Refs, GateAges,
     TurnBacksOff
<1>16. ASSUME NEW c \in Callers, RetryTurn(c) PROVE KeepsParked
  BY <1>16, <1>T DEF KeepsParked, Parked, TypeOK, Refs, GateAges, RetryTurn
<1>17. ASSUME NEW c \in Callers, TurnNeedsHeal(c) PROVE KeepsParked
  <2>1. \A d \in Callers :
           Parked(d)' => d # c /\ Parked(d) /\ adapter'[d] = adapter[d]
    BY <1>17, <1>T DEF Parked, TurnNeedsHeal, TypeOK
  <2>2. status' = status \/ (tools[c] /\ status' = Closed({adapter[c]}))
    BY <1>17 DEF TurnNeedsHeal
  <2>3. \A d \in Callers :
           d # c /\ tools[c] /\ pc[d] = "running" => adapter[d] # adapter[c]
    BY <1>17, <1>T, PoolAssumption DEF IInv, Holders, Refs, TurnNeedsHeal
  <2>4. ASSUME NEW d \in Callers, d # c, pc[d] = "running"
        PROVE  status'[adapter[d]] = status[adapter[d]]
    <3>1. adapter[d] \in Workers
      BY <1>T, <2>4 DEF Refs
    <3>2. CASE tools[c]
      BY <2>2, <2>3, <2>4, <3>1, <3>2 DEF Closed
    <3>3. CASE ~ tools[c]
      BY <2>2, <3>3
    <3> QED
      BY <3>2, <3>3
  <2> QED
    BY <2>1, <2>4 DEF KeepsParked, Parked
<1>18. ASSUME NEW c \in Callers, HealEvict(c) PROVE KeepsParked
  <2> SUFFICES ASSUME NEW d \in Callers, Parked(d)'
               PROVE  /\ Parked(d)
                      /\ adapter'[d] = adapter[d]
                      /\ status'[adapter[d]] = status[adapter[d]]
    BY DEF KeepsParked
  <2> DEFINE E == At(key[c])
  <2>1. /\ pc[d] = "running" /\ gates'[d] = attempt[d] /\ ~ tools[d]
        /\ adapter'[d] = adapter[d]
        /\ gates' = Ungated(E) /\ status' = Closed(E)
    BY <1>18, <1>T DEF Parked, TypeOK, HealEvict, Evict, Drop, Return,
       Forget
  <2> HIDE DEF E
  <2> QED
    BY <1>T, <2>1, UngatedNotParked DEF Parked, Closed, TypeOK, Refs
<1>19. ASSUME NEW c \in Callers, Cancel(c) PROVE KeepsParked
  BY <1>19, <1>T DEF KeepsParked, Parked, TypeOK, Refs, GateAges, Cancel
<1>20. ASSUME NEW c \in Callers, GraceExpires(c) PROVE KeepsParked
  <2> SUFFICES ASSUME NEW d \in Callers, Parked(d)'
               PROVE  /\ Parked(d)
                      /\ adapter'[d] = adapter[d]
                      /\ status'[adapter[d]] = status[adapter[d]]
    BY DEF KeepsParked
  <2>1. /\ pc[d] = "running" /\ gates'[d] = attempt[d] /\ ~ tools[d]
        /\ adapter'[d] = adapter[d]
        /\ gates' = Ungated(At(key[c]))
        /\ status' = Closed(GraceTargets(c))
    BY <1>20, <1>T, GraceEffect DEF Parked, GraceExpires
  <2>2. gates[d] = attempt[d] /\ adapter[d] \notin At(key[c])
    BY <2>1, UngatedNotParked
  <2>3. ASSUME adapter[d] = adapter[c], status[adapter[d]] # "dead"
        PROVE  FALSE
    <3>1. key[c] \in Keys /\ ~ tools[c]
      BY <1>20, <1>T, <2>1, <2>3, PoolAssumption DEF GraceExpires, Refs,
         IInv, Holders, TypeOK
    <3>2. workers[key[c]] = adapter[c]
      BY <1>20, <2>3, <3>1, UsedIsPooled DEF GraceExpires
    <3> QED
      BY <1>T, <2>1, <2>2, <2>3, <3>2, PoolAssumption DEF At, Refs
  <2> QED
    BY <1>T, <2>1, <2>2, <2>3 DEF Parked, Closed, GraceTargets, TypeOK, Refs
<1>21. ASSUME NEW w \in Workers, SpawnOk(w) PROVE KeepsParked
  BY <1>21, <1>T DEF IInv, Waiters, KeepsParked, Parked, TypeOK, Refs,
     GateAges, SpawnOk, WaitingFor
<1>22. ASSUME NEW w \in Workers, SpawnFails(w) PROVE KeepsParked
  BY <1>22, <1>T DEF IInv, Waiters, KeepsParked, Parked, TypeOK, Refs,
     GateAges, SpawnFails, Return, Rejected, Forget, WaitingFor
<1>23. ASSUME NEW w \in Workers, WorkerExpires(w) PROVE KeepsParked
  BY <1>23, <1>T DEF KeepsParked, Parked, TypeOK, Refs, GateAges,
     WorkerExpires
<1>24. ASSUME NEW k \in Keys, TouchKey(k) PROVE KeepsParked
  BY <1>24, <1>T DEF KeepsParked, Parked, TypeOK, Refs, GateAges, TouchKey
<1>25. ASSUME Housekeep PROVE KeepsParked
  <2> SUFFICES ASSUME NEW d \in Callers, Parked(d)'
               PROVE  /\ Parked(d)
                      /\ adapter'[d] = adapter[d]
                      /\ status'[adapter[d]] = status[adapter[d]]
    BY DEF KeepsParked
  <2> DEFINE E == IdleVictims
  <2>1. /\ pc[d] = "running" /\ gates'[d] = attempt[d] /\ ~ tools[d]
        /\ adapter'[d] = adapter[d]
        /\ gates' = Ungated(E) /\ status' = Closed(E)
    BY <1>25, <1>T DEF Parked, TypeOK, Housekeep
  <2> HIDE DEF E
  <2> QED
    BY <1>T, <2>1, UngatedNotParked DEF Parked, Closed, TypeOK, Refs
<1>26. ASSUME StopAll PROVE KeepsParked
  <2> SUFFICES ASSUME NEW d \in Callers, Parked(d)'
               PROVE  /\ Parked(d)
                      /\ adapter'[d] = adapter[d]
                      /\ status'[adapter[d]] = status[adapter[d]]
    BY DEF KeepsParked
  <2> DEFINE E == Pooled
  <2>1. /\ pc[d] = "running" /\ gates'[d] = attempt[d] /\ ~ tools[d]
        /\ adapter'[d] = adapter[d]
        /\ gates' = Ungated(E) /\ status' = Closed(E)
    BY <1>26, <1>T DEF Parked, TypeOK, StopAll, Drop
  <2> HIDE DEF E
  <2> QED
    BY <1>T, <2>1, UngatedNotParked DEF Parked, Closed, TypeOK, Refs
<1>27. ASSUME UNCHANGED vars PROVE KeepsParked
  BY <1>27, <1>T DEF KeepsParked, Parked, TypeOK, Refs, GateAges, vars
<1>28. ASSUME NEW c \in Callers, OpenGate(c) PROVE ParkedTurnHasSession'
  BY <1>28, <1>T DEF ParkedTurnHasSession, OpenGate, TypeOK, Refs
<1> QED
  BY NextCases, KeptParked, <1>1, <1>2, <1>3, <1>4, <1>5, <1>6, <1>7, <1>8,
     <1>9, <1>10, <1>11, <1>12, <1>13, <1>14, <1>15, <1>16, <1>17, <1>18,
     <1>19, <1>20, <1>21, <1>22, <1>23, <1>24, <1>25, <1>26, <1>27, <1>28

-----------------------------------------------------------------------------
(* What the invariant gives *)

(* A finite set with at most one element has at most one element.           *)
LEMMA AtMostOne ==
  ASSUME NEW S, NEW x, S \subseteq {x}
  PROVE  Cardinality(S) <= 1
<1>1. CASE S = {}
  BY <1>1, FS_EmptySet
<1>2. CASE S = {x}
  BY <1>2, FS_Singleton
<1> QED
  BY <1>1, <1>2

LEMMA OneSessionIInv == IInv => OneSessionPerKey
<1> SUFFICES ASSUME IInv PROVE OneSessionPerKey
  OBVIOUS
<1>1. ASSUME NEW k \in Keys, NEW w \in SessionsOf(k)
      PROVE  w \in Workers /\ w # None /\ w \in {workers[k], spawning[k]}
  <2>1. w \in Workers /\ w # None /\ status[w] # "dead"
    BY <1>1, PoolAssumption DEF SessionsOf, Dead
  <2>2. ASSUME NEW c \in Callers, adapter[c] = w, key[c] = k, ~ tools[c]
        PROVE  w \in {workers[k], spawning[k]}
    <3>1. CASE pc[c] = "waiting"
      <4>1. status[w] = "starting"
        BY <2>2, <3>1 DEF IInv, Waiters
      <4>2. ~ \E d \in Callers : PrivateOwner(d, w)
        BY <2>1, <2>2 DEF IInv, Holders, PrivateOwner
      <4>3. PICK l \in Keys : spawning[l] = w
        BY <2>1, <4>1, <4>2 DEF IInv, NoLeakedSession
      <4> QED
        BY <2>1, <2>2, <4>3 DEF IInv, Holders
    <3>2. CASE pc[c] # "waiting"
      <4>1. pc[c] \notin {"idle", "preflight", "get", "waiting"} \/ cancel[c] = "armed"
        BY <2>1, <2>2, <3>2 DEF IInv, Refs
      <4> QED
        BY <2>1, <2>2, <4>1, UsedIsPooled
    <3> QED
      BY <3>1, <3>2
  <2> QED
    BY <2>1, <2>2, <1>1 DEF SessionsOf
<1>2. ASSUME NEW k \in Keys PROVE Cardinality(SessionsOf(k)) <= 1
  <2>1. \/ SessionsOf(k) \subseteq {workers[k]}
        \/ SessionsOf(k) \subseteq {spawning[k]}
    BY <1>1, <1>2 DEF IInv, Maps
  <2> QED
    BY <2>1, AtMostOne
<1>3. ASSUME NEW k \in Keys, NEW l \in Keys, k # l
      PROVE  SessionsOf(k) \cap SessionsOf(l) = {}
  BY <1>1, <1>3 DEF IInv, Maps
<1> QED
  BY <1>2, <1>3 DEF OneSessionPerKey

LEMMA SerializedIInv == IInv => TurnsSerialized
  BY DEF IInv, Serial, Handles, AtHead, InTurn, TurnsSerialized

LEMMA ReclaimKeepsRunning ==
  ASSUME IInv, Reclaim, NEW c \in Callers, pc[c] = "running"
  PROVE  status'[adapter[c]] = status[adapter[c]]
<1>1. adapter[c] \in Workers /\ IsBusy(adapter[c])
  BY PoolAssumption DEF IInv, Refs, Handles, IsBusy
<1>2. CASE Housekeep
  <2>1. status' = Closed(IdleVictims)
    BY <1>2 DEF Housekeep
  <2> QED
    BY <1>1, <2>1 DEF Closed, IdleVictims, Dead
<1>3. ASSUME NEW d \in Callers, NEW w \in Workers, Spawn(d, w)
      PROVE  status'[adapter[c]] = status[adapter[c]]
  <2>1. PICK E \in CapVictims(key[d]) :
          status' = [Closed(E) EXCEPT ![w] = "starting"]
    BY <1>3 DEF Spawn
  <2>2. adapter[c] # w /\ adapter[c] \notin E
    BY <1>1, <1>3, <2>1 DEF Spawn, Unreferenced, CapVictims
  <2> QED
    BY <1>1, <2>1, <2>2 DEF Closed
<1> QED
  BY <1>2, <1>3 DEF Reclaim

-----------------------------------------------------------------------------
(* Overflow: how many sessions the pool holds or starts *)

(* A session that is being started has a caller that waits for it.          *)
Awaited ==
  \A k \in Keys : spawning[k] # None =>
    \E c \in Callers : pc[c] = "waiting" /\ adapter[c] = spawning[k]

(* A step that publishes and fails no session leaves those who wait be.     *)
KeepsWaiting ==
  /\ UNCHANGED spawning
  /\ \A c \in Callers : pc[c] = "waiting" =>
       pc'[c] = "waiting" /\ adapter'[c] = adapter[c]

LEMMA KeptAwaited ==
  ASSUME Awaited, KeepsWaiting
  PROVE  Awaited'
<1> SUFFICES ASSUME NEW k \in Keys, spawning'[k] # None
             PROVE  \E c \in Callers :
                      pc'[c] = "waiting" /\ adapter'[c] = spawning'[k]
  BY DEF Awaited
<1>1. spawning' = spawning
  BY DEF KeepsWaiting
<1>2. PICK c \in Callers : pc[c] = "waiting" /\ adapter[c] = spawning[k]
  BY <1>1 DEF Awaited
<1> QED
  BY <1>1, <1>2 DEF KeepsWaiting

LEMMA AwaitedStep ==
  ASSUME TypeOK, Refs, Awaited, [Next]_vars
  PROVE  Awaited'
<1> USE DEF poolVars, callVars
<1>1. ASSUME NEW c \in Callers, NEW k \in Keys, NEW t \in BOOLEAN,
             RequestTurn(c, k, t)
      PROVE  KeepsWaiting
  BY <1>1 DEF RequestTurn, KeepsWaiting, TypeOK
<1>2. ASSUME NEW c \in Callers, NEW w \in Workers, Spawn(c, w)
      PROVE  Awaited'
  <2> SUFFICES ASSUME NEW k \in Keys, spawning'[k] # None
               PROVE  \E d \in Callers :
                        pc'[d] = "waiting" /\ adapter'[d] = spawning'[k]
    BY DEF Awaited
  <2>1. /\ pc'[c] = "waiting" /\ adapter'[c] = w
        /\ spawning' = [spawning EXCEPT ![key[c]] = w]
        /\ \A d \in Callers : pc[d] = "waiting" =>
             pc'[d] = "waiting" /\ adapter'[d] = adapter[d]
    BY <1>2 DEF Spawn, TypeOK
  <2>2. CASE spawning'[k] = w
    BY <2>1, <2>2
  <2>3. CASE spawning'[k] = spawning[k]
    <3>1. PICK d \in Callers : pc[d] = "waiting" /\ adapter[d] = spawning[k]
      BY <2>3 DEF Awaited
    <3> QED
      BY <2>1, <2>3, <3>1
  <2> QED
    BY <2>1, <2>2, <2>3 DEF TypeOK
<1>3. ASSUME NEW c \in Callers, NEW w \in Workers, SpawnPrivate(c, w)
      PROVE  KeepsWaiting
  BY <1>3 DEF SpawnPrivate, KeepsWaiting, TypeOK
<1>4. ASSUME NEW c \in Callers,
             \/ PreflightHeal(c) \/ GetWarm(c) \/ Coalesce(c) \/ Enqueue(c)
             \/ BeginTurn(c) \/ TurnRuns(c) \/ Heartbeat(c) \/ OpenGate(c)
             \/ CloseGate(c) \/ StreamEnds(c) \/ TurnBacksOff(c)
             \/ RetryTurn(c) \/ TurnNeedsHeal(c) \/ Cancel(c)
      PROVE  KeepsWaiting
  BY <1>4 DEF PreflightHeal, GetWarm, Coalesce, Enqueue, BeginTurn, TurnRuns,
     Heartbeat, OpenGate, CloseGate, StreamEnds, TurnBacksOff, RetryTurn,
     TurnNeedsHeal, Cancel, KeepsWaiting, TypeOK
<1>5. ASSUME NEW c \in Callers, TurnThrows(c) \/ TurnDone(c) \/ HealEvict(c)
      PROVE  KeepsWaiting
  <2>1. UNCHANGED spawning /\ Return({c}) /\ pc[c] # "waiting"
    BY <1>5 DEF TurnThrows, TurnDone, HealEvict, Release
  <2>2. ASSUME NEW d \in Callers, pc[d] = "waiting"
        PROVE  pc'[d] = "waiting" /\ adapter'[d] = adapter[d]
    BY <2>1, <2>2 DEF Return, Forget
  <2> QED
    BY <2>1, <2>2 DEF KeepsWaiting
<1>6. ASSUME NEW c \in Callers, GraceExpires(c)
      PROVE  KeepsWaiting
  BY <1>6 DEF GraceExpires, Forget, Refs, KeepsWaiting, TypeOK
<1>7. ASSUME NEW w \in Workers, SpawnOk(w) \/ SpawnFails(w)
      PROVE  Awaited'
  <2> SUFFICES ASSUME NEW k \in Keys, spawning'[k] # None
               PROVE  \E d \in Callers :
                        pc'[d] = "waiting" /\ adapter'[d] = spawning'[k]
    BY DEF Awaited
  <2>1. spawning'[k] = spawning[k] /\ spawning[k] # w /\ spawning[k] # None
    BY <1>7 DEF SpawnOk, SpawnFails
  <2>2. PICK d \in Callers : pc[d] = "waiting" /\ adapter[d] = spawning[k]
    BY <2>1 DEF Awaited
  <2>3. d \notin WaitingFor(w)
    BY <2>1, <2>2 DEF WaitingFor
  <2>4. pc'[d] = pc[d] /\ adapter'[d] = adapter[d]
    BY <1>7, <2>3 DEF SpawnOk, SpawnFails, Rejected, Return, Forget
  <2> QED
    BY <2>1, <2>2, <2>4
<1>8. ASSUME NEW w \in Workers, WorkerExpires(w)
      PROVE  KeepsWaiting
  BY <1>8 DEF WorkerExpires, KeepsWaiting
<1>9. ASSUME NEW k \in Keys, TouchKey(k)
      PROVE  KeepsWaiting
  BY <1>9 DEF TouchKey, KeepsWaiting
<1>10. ASSUME Housekeep \/ StopAll \/ UNCHANGED vars
       PROVE  KeepsWaiting
  BY <1>10 DEF Housekeep, StopAll, KeepsWaiting, vars
<1> QED
  BY NextCases, KeptAwaited, <1>1, <1>2, <1>3, <1>4, <1>5, <1>6, <1>7, <1>8,
     <1>9, <1>10

(* Only Spawn adds a session to those the pool holds or starts.             *)
LEMMA OnlySpawnAdds ==
  ASSUME IInv, [Next]_vars,
         ~ \E c \in Callers, w \in Workers : Spawn(c, w)
  PROVE  Ranked' \subseteq Ranked
<1> USE DEF poolVars, callVars
<1> DEFINE Shrinks == /\ spawning' = spawning
                      /\ \A k \in Keys : workers'[k] \in {workers[k], None}
<1>1. ASSUME Shrinks PROVE Ranked' \subseteq Ranked
  BY <1>1 DEF Ranked, Pooled
<1>2. ASSUME NEW c \in Callers, NEW k \in Keys, NEW t \in BOOLEAN,
             RequestTurn(c, k, t)
      PROVE  Shrinks
  BY <1>2 DEF RequestTurn
<1>3. ASSUME NEW c \in Callers, NEW w \in Workers, SpawnPrivate(c, w)
      PROVE  Shrinks
  BY <1>3 DEF SpawnPrivate
<1>4. ASSUME NEW c \in Callers,
             \/ GetWarm(c) \/ Enqueue(c) \/ TurnThrows(c) \/ BeginTurn(c)
             \/ TurnRuns(c) \/ Heartbeat(c) \/ OpenGate(c) \/ CloseGate(c)
             \/ StreamEnds(c) \/ TurnDone(c) \/ TurnBacksOff(c)
             \/ RetryTurn(c) \/ TurnNeedsHeal(c) \/ Cancel(c)
      PROVE  Shrinks
  BY <1>4 DEF GetWarm, Enqueue, TurnThrows, BeginTurn, TurnRuns, Heartbeat,
     OpenGate, CloseGate, StreamEnds, TurnDone, TurnBacksOff, RetryTurn,
     TurnNeedsHeal, Cancel
<1>5. ASSUME NEW c \in Callers,
             \/ PreflightHeal(c) \/ Coalesce(c) \/ HealEvict(c)
             \/ GraceExpires(c)
      PROVE  Shrinks
  BY <1>5 DEF PreflightHeal, Coalesce, HealEvict, GraceExpires, Evict, Drop,
     Removed
<1>6. ASSUME NEW w \in Workers, SpawnOk(w)
      PROVE  Ranked' \subseteq Ranked
  BY <1>6 DEF SpawnOk, Ranked, Pooled
<1>7. ASSUME NEW w \in Workers, SpawnFails(w)
      PROVE  Ranked' \subseteq Ranked
  BY <1>7 DEF SpawnFails, Ranked, Pooled
<1>8. ASSUME NEW w \in Workers, WorkerExpires(w)
      PROVE  Shrinks
  BY <1>8 DEF WorkerExpires
<1>9. ASSUME NEW k \in Keys, TouchKey(k)
      PROVE  Shrinks
  BY <1>9 DEF TouchKey
<1>10. ASSUME Housekeep \/ StopAll \/ UNCHANGED vars
       PROVE  Shrinks
  BY <1>10 DEF Housekeep, StopAll, Drop, Removed, vars
<1> HIDE DEF Shrinks
<1> QED
  BY NextCases, <1>1, <1>2, <1>3, <1>4, <1>5, <1>6, <1>7, <1>8, <1>9, <1>10

(* Sessions that have a caller each are no more than the callers.           *)
LEMMA OneCallerEach ==
  ASSUME NEW f \in [Callers -> Workers \cup {None}], NEW S,
         \A w \in S : \E c \in Callers : f[c] = w
  PROVE  IsFiniteSet(S) /\ Cardinality(S) <= Cardinality(Callers)
<1> DEFINE C == {c \in Callers : f[c] \in S}
           g == [c \in C |-> f[c]]
<1>1. IsFiniteSet(C) /\ Cardinality(C) <= Cardinality(Callers)
  BY FiniteCallers, FS_Subset
<1>2. g \in Surjection(C, S)
  BY DEF Surjection
<1>3. IsFiniteSet(S) /\ Cardinality(S) <= Cardinality(C)
  BY <1>1, <1>2, FS_Surjection
<1>4. /\ Cardinality(S) \in Nat
      /\ Cardinality(C) \in Nat
      /\ Cardinality(Callers) \in Nat
  BY <1>1, <1>3, FiniteCallers, FS_CardinalityType
<1> HIDE DEF C
<1> QED
  BY <1>1, <1>3, <1>4

(* The cap loop makes room, or finds none but busy workers.                 *)
LEMMA RoomOrBusy ==
  ASSUME IInv, IsFiniteSet(Pooled), NEW k \in Keys, NEW E \in CapVictims(k)
  PROVE  \/ Cardinality(Pooled \ (E \cup At(k))) <= MaxWorkers - 1
         \/ \A v \in Pooled \ (E \cup At(k)) : IsBusy(v)
<1> DEFINE others == Pooled \ At(k)
           idle == {w \in others : ~ IsBusy(w)}
           size == Cardinality(others)
           excess == IF size >= MaxWorkers THEN size + 1 - MaxWorkers ELSE 0
<1>1. IsFiniteSet(others) /\ IsFiniteSet(idle)
  BY FS_Subset
<1>2. E \in SUBSET idle /\ IsFiniteSet(E)
  BY <1>1, FS_Subset DEF CapVictims
<1>3. Cardinality(E) = IF excess <= Cardinality(idle) THEN excess
                                                      ELSE Cardinality(idle)
  BY DEF CapVictims
<1>4. size \in Nat /\ Cardinality(E) \in Nat /\ MaxWorkers \in Nat \ {0}
  BY <1>1, <1>2, FS_CardinalityType, PoolAssumption
<1>5. CASE excess <= Cardinality(idle)
  <2>1. others \cap E = E
    BY <1>2
  <2>2. Cardinality(others \ E) = size - Cardinality(E)
    BY <1>1, <2>1, FS_Difference
  <2>3. Pooled \ (E \cup At(k)) = others \ E
    OBVIOUS
  <2>4. Cardinality(E) = excess
    BY <1>3, <1>5
  <2> HIDE DEF others
  <2>5. size - excess <= MaxWorkers - 1
    BY <1>4
  <2> QED
    BY <2>2, <2>3, <2>4, <2>5
<1>6. CASE ~ (excess <= Cardinality(idle))
  <2>1. E = idle
    BY <1>1, <1>2, <1>3, <1>6, FS_Subset
  <2> QED
    BY <2>1
<1> QED
  BY <1>5, <1>6

Room == IsFiniteSet(Ranked) /\ OverflowBounded

LEMMA SpawnKeepsRoom ==
  ASSUME IInv, Awaited, Room, NEW c \in Callers, NEW w \in Workers,
         Spawn(c, w)
  PROVE  Room'
<1>1. key[c] \in Keys /\ IsFiniteSet(Pooled)
  BY FS_Subset DEF Spawn, IInv, Refs, Room, Ranked
<1>2. PICK E \in CapVictims(key[c]) :
        workers' = Removed(E \cup At(key[c]))
  BY DEF Spawn
<1> DEFINE kept == Pooled \ (E \cup At(key[c]))
           begun == {spawning'[k] : k \in Keys} \ {None}
<1>3. Ranked' = Pooled' \cup begun
  BY DEF Ranked
<1>4. Pooled' \subseteq kept
  BY <1>2 DEF Pooled, Removed
<1>5. /\ adapter' \in [Callers -> Workers \cup {None}]
      /\ \A d \in Callers : adapter[d] # None => adapter'[d] = adapter[d]
      /\ adapter'[c] = w
      /\ spawning' = [spawning EXCEPT ![key[c]] = w]
  BY DEF Spawn, IInv, TypeOK, Refs
<1>6. \A v \in begun : \E d \in Callers : adapter'[d] = v
  <2> SUFFICES ASSUME NEW k \in Keys, spawning'[k] # None
               PROVE  \E d \in Callers : adapter'[d] = spawning'[k]
    OBVIOUS
  <2>1. CASE k = key[c]
    BY <1>5, <2>1 DEF IInv, TypeOK
  <2>2. CASE k # key[c]
    <3>1. spawning'[k] = spawning[k]
      BY <1>5, <2>2 DEF IInv, TypeOK
    <3>2. PICK d \in Callers : adapter[d] = spawning[k]
      BY <3>1 DEF Awaited
    <3> QED
      BY <1>5, <3>1, <3>2
  <2> QED
    BY <2>1, <2>2
<1>7. /\ IsFiniteSet(begun) /\ Cardinality(begun) <= Cardinality(Callers)
      /\ Cardinality(begun) \in Nat
  BY <1>5, <1>6, OneCallerEach, FS_CardinalityType
<1>8. Cardinality(Callers) \in Nat /\ MaxWorkers \in Nat \ {0}
  BY FiniteCallers, FS_CardinalityType, PoolAssumption
<1>9. IsFiniteSet(kept) /\ Cardinality(kept) \in Nat
  BY <1>1, FS_Subset, FS_CardinalityType
<1>10. /\ IsFiniteSet(Pooled') /\ Cardinality(Pooled') \in Nat
       /\ Cardinality(Pooled') <= Cardinality(kept)
  BY <1>4, <1>9, FS_Subset, FS_CardinalityType
<1>11. CASE Cardinality(kept) <= MaxWorkers - 1
  <2>1. /\ IsFiniteSet(Ranked')
        /\ Cardinality(Ranked') = Cardinality(Pooled') + Cardinality(begun)
                                    - Cardinality(Pooled' \cap begun)
    BY <1>3, <1>7, <1>10, FS_Union
  <2>2. Cardinality(Pooled' \cap begun) \in Nat
    BY <1>7, FS_Subset, FS_CardinalityType
  <2> HIDE DEF kept, begun
  <2>3. Cardinality(Ranked') <= MaxWorkers - 1 + Cardinality(Callers)
    BY <1>7, <1>8, <1>9, <1>10, <1>11, <2>1, <2>2
  <2> QED
    BY <2>1, <2>3 DEF Room, OverflowBounded
<1>12. CASE \A v \in kept : IsBusy(v)
  <2>1. \A v \in Ranked' : \E d \in Callers : adapter'[d] = v
    <3>1. ASSUME NEW v \in Pooled' PROVE \E d \in Callers : adapter'[d] = v
      <4>1. v \in Pooled /\ IsBusy(v)
        BY <1>4, <1>12
      <4>2. v \in Workers /\ busy[v] # None
        BY <4>1 DEF IsBusy, Pooled, IInv, TypeOK
      <4>3. busy[v] \in Callers /\ adapter[busy[v]] = v /\ v # None
        BY <4>2, PoolAssumption DEF IInv, Handles, TypeOK
      <4> QED
        BY <1>5, <4>3
    <3> QED
      BY <1>3, <1>6, <3>1
  <2>2. IsFiniteSet(Ranked') /\ Cardinality(Ranked') <= Cardinality(Callers)
    BY <1>5, <2>1, OneCallerEach
  <2>3. Cardinality(Ranked') \in Nat
    BY <2>2, FS_CardinalityType
  <2>4. Cardinality(Ranked') <= MaxWorkers - 1 + Cardinality(Callers)
    BY <1>8, <2>2, <2>3
  <2> QED
    BY <2>2, <2>4 DEF Room, OverflowBounded
<1> HIDE DEF kept
<1>13. \/ Cardinality(kept) <= MaxWorkers - 1
       \/ \A v \in kept : IsBusy(v)
  BY <1>1, <1>2, RoomOrBusy DEF kept
<1> QED
  BY <1>11, <1>12, <1>13

LEMMA RoomInit == Init => Awaited /\ Room
<1> SUFFICES ASSUME Init PROVE Awaited /\ Room
  OBVIOUS
<1>1. Ranked = {}
  BY DEF Init, Ranked, Pooled
<1>2. Cardinality(Callers) \in Nat /\ MaxWorkers \in Nat \ {0}
  BY FiniteCallers, FS_CardinalityType, PoolAssumption
<1>3. IsFiniteSet(Ranked) /\ Cardinality(Ranked) = 0
  BY <1>1, FS_EmptySet
<1> QED
  BY <1>2, <1>3 DEF Init, Awaited, Room, OverflowBounded

LEMMA RoomStep ==
  ASSUME IInv, Awaited, Room, [Next]_vars
  PROVE  Room'
<1>1. CASE \E c \in Callers, w \in Workers : Spawn(c, w)
  BY <1>1, SpawnKeepsRoom
<1>2. CASE ~ \E c \in Callers, w \in Workers : Spawn(c, w)
  <2>1. Ranked' \subseteq Ranked
    BY <1>2, OnlySpawnAdds
  <2>2. IsFiniteSet(Ranked') /\ Cardinality(Ranked') <= Cardinality(Ranked)
    BY <2>1, FS_Subset DEF Room
  <2>3. /\ Cardinality(Ranked') \in Nat /\ Cardinality(Ranked) \in Nat
        /\ Cardinality(Callers) \in Nat /\ MaxWorkers \in Nat
    BY <2>2, FiniteCallers, FS_CardinalityType, PoolAssumption DEF Room
  <2> QED
    BY <2>2, <2>3 DEF Room, OverflowBounded
<1> QED
  BY <1>1, <1>2

-----------------------------------------------------------------------------
(* The theorems *)

(* The variables keep their types, whatever the interleaving.               *)
THEOREM TypeCorrect == Spec => []TypeOK
<1>1. IInv => TypeOK
  BY DEF IInv
<1> QED
  BY IInvInit, IInvStep, <1>1, PTL DEF Spec

(* No session is ever lost: AgentPool.get, evict, the cap loop, the sweep,  *)
(* the cancel timer and the shutdown together keep every started session    *)
(* either in a map or with the private turn that will close it.             *)
THEOREM NoLeak == Spec => []NoLeakedSession
<1>1. IInv => NoLeakedSession
  BY DEF IInv
<1> QED
  BY IInvInit, IInvStep, <1>1, PTL DEF Spec

(* However calls of get, evict and the timers interleave, a conversation    *)
(* has at most one pooled session, started or starting.                     *)
THEOREM SingleSession == Spec => []OneSessionPerKey
  BY IInvInit, IInvStep, OneSessionIInv, PTL DEF Spec

(* The promise chain of a worker serializes its turns, retries included,    *)
(* and the busy flag is the truth about who streams.                        *)
THEOREM Serialization == Spec => []TurnsSerialized
  BY IInvInit, IInvStep, SerializedIInv, PTL DEF Spec

(* A turn parked on an approval never waits for a session that was closed   *)
(* under it: every path that closes a pooled session rejects its gate.      *)
THEOREM ParkedTurnsAreReleased == Spec => []ParkedTurnHasSession
<1>1. Init => ParkedTurnHasSession
  BY DEF Init, ParkedTurnHasSession
<1> QED
  BY IInvInit, IInvStep, <1>1, ParkedStep, PTL DEF Spec

(* Neither the cap nor the idle sweep ever closes the session of a turn     *)
(* that is streaming.                                                       *)
THEOREM StreamingIsSafe == Spec => StreamingNotReclaimed
<1>1. IInv /\ [Next]_vars
      => [Reclaim => \A c \in Callers :
            pc[c] = "running" => status'[adapter[c]] = status[adapter[c]]]_vars
  BY ReclaimKeepsRunning
<1> QED
  BY IInvInit, IInvStep, <1>1, PTL DEF Spec, StreamingNotReclaimed

(* However many cold keys arrive at once, and however many of the workers   *)
(* are busy when they do, the pool holds and starts no more sessions than   *)
(* its cap and the callers in flight allow.                                 *)
THEOREM OverflowIsBounded == Spec => []OverflowBounded
<1>1. Init => IInv /\ Awaited /\ Room
  BY IInvInit, RoomInit
<1>2. IInv /\ Awaited /\ Room /\ [Next]_vars => (IInv /\ Awaited /\ Room)'
  BY IInvStep, AwaitedStep, RoomStep DEF IInv
<1>3. Room => OverflowBounded
  BY DEF Room
<1> QED
  BY <1>1, <1>2, <1>3, PTL DEF Spec
=============================================================================
