------------------------ MODULE CronSchedulerProofs ------------------------
(***************************************************************************)
(* Theorems about CronScheduler, for any tasks with any schedules, any     *)
(* number of overlapping ticks, any window and cap, and any number of      *)
(* minutes, restarts and edits; and about CronExpression, for any request  *)
(* made at any time of the day.                                            *)
(***************************************************************************)
EXTENDS CronScheduler, CronExpression, WellFoundedInduction, TLAPS

Row == [status : Statuses, last : 0 .. Horizon]
Activation == [pc : {"idle", "catchup", "catchfire", "loop", "firing"},
               at : 0 .. Horizon,
               todo : SUBSET Firings,
               firing : Firings \cup {None}]

CaughtUp == {"catchup", "catchfire"}
Awaiting == {"firing", "catchfire"}

Shapes ==
  /\ jittered \subseteq Recurring
  /\ now \in Minutes /\ edits \in 0 .. MaxEdits
  /\ row \in [Tasks -> Row]
  /\ lastTick \in 0 .. Horizon
  /\ owner \in 0 .. MaxBoots /\ boot \in 0 .. MaxBoots
  /\ phase \in {"down", "running", "stopped"}
  /\ cache \subseteq Tasks /\ fresh \in BOOLEAN
  /\ fired \subseteq Tasks /\ minute \in 0 .. Horizon /\ minute <= now
  /\ armed \subseteq Firings /\ flying \subseteq Firings
  /\ tick \in [Ticks -> Activation]
  /\ loop \in Ticks \cup {None}
  /\ begun \subseteq Firings \X {"catchup", "tick"}
  /\ twice \subseteq Firings /\ done \subseteq Firings

(* A tick that awaits a turn knows which; a process that is down has        *)
(* neither ticks nor timers.                                                *)
Placed ==
  /\ \A w \in Ticks : tick[w].pc \in Awaiting => tick[w].firing # None
  /\ phase = "down" => /\ armed = {} /\ flying = {}
                       /\ \A w \in Ticks : tick[w] = IdleTick

(* The firings of recurring tasks that a tick still has in hand.            *)
InHand(w) ==
  {f \in tick[w].todo \cup {tick[w].firing} :
     f # None /\ f.task \in Recurring}

OnTime(f, s) == s <= f.for /\ f.for <= minute

(* The scheduler was started in minute s: catch-up has to do with minutes   *)
(* before it, ticks and timers with this one and later ones.                *)
Since(s) ==
  /\ s <= minute
  /\ \A w \in Ticks : \A f \in InHand(w) :
       IF tick[w].pc \in CaughtUp THEN f.for < s ELSE OnTime(f, s)
  /\ \A f \in armed \cup flying : f.task \in Recurring => OnTime(f, s)
  /\ \A b \in begun : b[1].task \in Recurring =>
       IF b[2] = "catchup" THEN b[1].for < s ELSE OnTime(b[1], s)

Started == \E s \in Nat : Since(s)

(* What was begun, or is armed, for the minute of the last tick is in       *)
(* firedThisMinute.                                                         *)
Remembered ==
  \A f \in Firings : f.task \in Recurring /\ f.for = minute =>
    /\ <<f, "tick">> \in begun => f.task \in fired
    /\ f \in armed => f.task \in fired /\ <<f, "tick">> \notin begun

(* What is recorded shows in the row: a one-shot is not active any more,    *)
(* the last firing of a recurring task is not before it.  It was not        *)
(* recorded ahead of its time.                                              *)
Kept ==
  \A f \in done :
    /\ row[f.task].status # "new"
    /\ f.task \in OneShots => row[f.task].status # "active"
    /\ f.task \in Recurring =>
         /\ f.for <= now
         /\ row[f.task].status = "gone" \/ f.for <= row[f.task].last

IInv == Shapes /\ Placed /\ Started /\ Remembered /\ Kept

-----------------------------------------------------------------------------
(* What steps have in common *)

(* Nothing happens to the activations, and at most history is forgotten.    *)
LEMMA ActivationsAlone ==
  ASSUME IInv, begun' \subseteq begun,
         UNCHANGED <<phase, minute, fired, armed, flying, tick>>
  PROVE  Placed' /\ Started' /\ Remembered'
<1>1. Placed'
  BY DEF IInv, Placed
<1>2. Started'
  BY DEF IInv, Started, Since, InHand, OnTime
<1>3. Remembered'
  BY DEF IInv, Remembered
<1> QED
  BY <1>1, <1>2, <1>3

LEMMA RowsAlone ==
  ASSUME IInv, row' = row, now' = now, done' \subseteq done PROVE Kept'
BY DEF IInv, Kept

LEMMA TaskOf ==
  ASSUME NEW f \in Firings PROVE f.task \in Tasks /\ f.for \in Nat
BY DEF Firings

LEMMA RowOf ==
  ASSUME Shapes, NEW t \in Tasks
  PROVE  /\ row[t] \in Row /\ row[t].status \in Statuses
         /\ row[t].last \in 0 .. Horizon
<1>1. row[t] \in Row
  BY DEF Shapes
<1> QED
  BY <1>1 DEF Row

LEMMA TickOf ==
  ASSUME Shapes, NEW w \in Ticks
  PROVE  /\ tick[w] \in Activation
         /\ tick[w].todo \subseteq Firings
         /\ tick[w].firing \in Firings \cup {None}
         /\ tick[w].at \in 0 .. Horizon
<1>1. tick[w] \in Activation
  BY DEF Shapes
<1> QED
  BY <1>1 DEF Activation

LEMMA IdleIs ==
  /\ IdleTick \in Activation
  /\ IdleTick.pc = "idle" /\ IdleTick.todo = {} /\ IdleTick.firing = None
BY CronAssumption DEF IdleTick, Activation

(* One row is given another value.                                          *)
LEMMA RowChanges ==
  ASSUME Shapes, NEW t \in Tasks, NEW v \in Row,
         row' = [row EXCEPT ![t] = v]
  PROVE  /\ row' \in [Tasks -> Row] /\ row'[t] = v
         /\ \A u \in Tasks : u # t => row'[u] = row[u]
BY DEF Shapes

-----------------------------------------------------------------------------
(* Others edit the file *)

(* An edit of a row that keeps what Kept says of it.                        *)
LEMMA EditKeeps ==
  ASSUME IInv, NEW t \in Tasks, NEW v \in Row, Edit(t, v),
         begun' \subseteq begun, twice' = twice, done' \subseteq done,
         \A f \in done' : f.task = t =>
           /\ v.status # "new"
           /\ t \in OneShots => v.status # "active"
           /\ t \in Recurring => v.status = "gone" \/ f.for <= v.last
  PROVE  IInv'
<1>1. /\ row' = [row EXCEPT ![t] = v] /\ edits < MaxEdits
      /\ edits' = edits + 1 /\ fresh' = FALSE
      /\ UNCHANGED <<jittered, now, lastTick, owner, boot, phase, cache,
                     fired, minute, armed, flying, tick, loop>>
  BY DEF Edit, Edited
<1>2. /\ row' \in [Tasks -> Row] /\ row'[t] = v
      /\ \A u \in Tasks : u # t => row'[u] = row[u]
  BY <1>1, RowChanges DEF IInv
<1>3. Shapes'
  <2>1. edits' \in 0 .. MaxEdits
    BY <1>1, CronAssumption DEF IInv, Shapes
  <2>2. now' \in Minutes /\ owner' \in 0 .. MaxBoots
        /\ lastTick' \in 0 .. Horizon
    BY <1>1, CronAssumption DEF IInv, Shapes, Minutes
  <2> QED
    BY <1>1, <1>2, <2>1, <2>2 DEF IInv, Shapes
<1>4. Placed' /\ Started' /\ Remembered'
  BY <1>1, ActivationsAlone
<1>5. Kept'
  <2>1. SUFFICES ASSUME NEW f \in done'
        PROVE  /\ row'[f.task].status # "new"
               /\ f.task \in OneShots => row'[f.task].status # "active"
               /\ f.task \in Recurring =>
                    /\ f.for <= now'
                    /\ \/ row'[f.task].status = "gone"
                       \/ f.for <= row'[f.task].last
    BY DEF Kept
  <2>2. f \in done /\ f.task \in Tasks
    BY <2>1, TaskOf DEF IInv, Shapes
  <2>3. CASE f.task = t
    BY <1>1, <1>2, <2>1, <2>2, <2>3 DEF IInv, Kept
  <2>4. CASE f.task # t
    BY <1>1, <1>2, <2>2, <2>4 DEF IInv, Kept
  <2> QED
    BY <2>3, <2>4
<1> QED
  BY <1>3, <1>4, <1>5 DEF IInv

LEMMA UserKeeps ==
  ASSUME IInv, NEW t \in Tasks, UserStep(t) PROVE IInv'
<1>1. row[t] \in Row /\ 0 \in 0 .. Horizon
  BY RowOf, CronAssumption DEF IInv
<1>2. CASE Add(t)
  <2> DEFINE v == [status |-> "active", last |-> 0]
  <2>1. v \in Row
    BY <1>1 DEF Row, Statuses
  <2>2. /\ row[t].status = "new" /\ Edit(t, v)
        /\ UNCHANGED <<begun, twice, done>>
    BY <1>2 DEF Add, history
  <2>3. \A f \in done : f.task # t
    BY <2>2 DEF IInv, Kept
  <2> HIDE DEF v
  <2> QED
    BY <2>1, <2>2, <2>3, EditKeeps
<1>3. CASE Delete(t)
  <2> DEFINE v == [status |-> "gone", last |-> 0]
  <2>1. v \in Row /\ v.status = "gone"
    BY <1>1 DEF Row, Statuses
  <2>2. Edit(t, v) /\ UNCHANGED <<begun, twice, done>>
    BY <1>3 DEF Delete, history
  <2> HIDE DEF v
  <2> QED
    BY <2>1, <2>2, EditKeeps
<1>4. CASE Disable(t)
  <2> DEFINE v == [row[t] EXCEPT !.status = "cancelled"]
  <2>1. v \in Row /\ v.status = "cancelled" /\ v.last = row[t].last
    BY <1>1 DEF Row, Statuses
  <2>2. /\ row[t].status # "gone" /\ Edit(t, v)
        /\ UNCHANGED <<begun, twice, done>>
    BY <1>4 DEF Disable, Exists, history
  <2> HIDE DEF v
  <2>3. \A f \in done : f.task = t =>
          (f.task \in Recurring => f.for <= row[t].last)
    BY <2>2 DEF IInv, Kept
  <2> QED
    BY <2>1, <2>2, <2>3, EditKeeps
<1>5. CASE Enable(t)
  <2> DEFINE v == [row[t] EXCEPT !.status = "active"]
  <2>1. v \in Row
    BY <1>1 DEF Row, Statuses
  <2>2. /\ Edit(t, v) /\ twice' = twice
        /\ done' = {f \in done : f.task # t}
        /\ begun' = {b \in begun : b[1].task # t}
    BY <1>5 DEF Enable
  <2> HIDE DEF v
  <2>3. done' \subseteq done /\ begun' \subseteq begun
        /\ \A f \in done' : f.task # t
    BY <2>2
  <2> QED
    BY <2>1, <2>2, <2>3, EditKeeps
<1> QED
  BY <1>2, <1>3, <1>4, <1>5 DEF UserStep

(* Rows go, whichever; the others stay.                                     *)
LEMMA RowsGo ==
  ASSUME IInv, UNCHANGED <<done, now>>,
         row' \in [Tasks -> Row],
         \A t \in Tasks : row'[t] = row[t] \/ row'[t].status = "gone"
  PROVE  Kept'
<1>1. \A f \in done : f.task \in Tasks
  BY TaskOf DEF IInv, Shapes
<1> QED
  BY <1>1 DEF IInv, Kept

LEMMA FileLostKeeps == ASSUME IInv, FileLost PROVE IInv'
<1>1. /\ edits < MaxEdits /\ edits' = edits + 1 /\ fresh' = FALSE
      /\ row' = [t \in Tasks |->
                   [status |-> IF row[t].status = "new" THEN "new"
                               ELSE "gone", last |-> 0]]
      /\ lastTick' = 0 /\ owner' = 0
      /\ UNCHANGED <<jittered, now, boot, phase, cache, fired, minute, armed,
                     flying, tick, loop, begun, twice, done>>
  BY DEF FileLost, Edited, history
<1>2. row' \in [Tasks -> Row]
      /\ \A t \in Tasks : row'[t].status =
           IF row[t].status = "new" THEN "new" ELSE "gone"
  BY <1>1, CronAssumption DEF Row, Statuses
<1>3. Shapes'
  <2>1. edits' \in 0 .. MaxEdits
    BY <1>1, CronAssumption DEF IInv, Shapes
  <2>2. now' \in Minutes /\ owner' \in 0 .. MaxBoots
        /\ lastTick' \in 0 .. Horizon
    BY <1>1, CronAssumption DEF IInv, Shapes, Minutes
  <2> QED
    BY <1>1, <1>2, <2>1, <2>2 DEF IInv, Shapes
<1>4. Placed' /\ Started' /\ Remembered'
  BY <1>1, ActivationsAlone
<1>5. Kept'
  <2>1. \A f \in done : f.task \in Tasks
    BY TaskOf DEF IInv, Shapes
  <2> QED
    BY <1>1, <1>2, <2>1 DEF IInv, Kept
<1> QED
  BY <1>3, <1>4, <1>5 DEF IInv

LEMMA GarbageCollectKeeps == ASSUME IInv, GarbageCollect PROVE IInv'
<1>1. PICK S \in SUBSET Tasks :
        row' = [t \in Tasks |-> IF t \in S
                                THEN [status |-> "gone", last |-> 0]
                                ELSE row[t]]
  BY DEF GarbageCollect
<1>2. fresh' = FALSE
      /\ UNCHANGED <<jittered, edits, now, lastTick, owner, boot, phase, cache,
                     fired, minute, armed, flying, tick, loop, begun, twice,
                     done>>
  BY DEF GarbageCollect, inputVars, history
<1>3. [status |-> "gone", last |-> 0] \in Row
  BY CronAssumption DEF Row, Statuses
<1>4. /\ row' \in [Tasks -> Row]
      /\ \A t \in Tasks : row'[t] = row[t] \/ row'[t].status = "gone"
  BY <1>1, <1>3, RowOf DEF IInv
<1>5. Shapes'
  BY <1>2, <1>4 DEF IInv, Shapes
<1>6. Placed' /\ Started' /\ Remembered'
  BY <1>2, ActivationsAlone
<1> QED
  BY <1>2, <1>4, <1>5, <1>6, RowsGo DEF IInv

LEMMA ClockAndWatcherKeep ==
  ASSUME IInv, Advance \/ WatcherRefreshes PROVE IInv'
<1>1. UNCHANGED <<jittered, edits, row, lastTick, owner, boot, phase, fired,
                  minute, armed, flying, tick, loop, begun, twice, done>>
  BY DEF Advance, WatcherRefreshes, inputVars, fileVars, history, cacheVars
<1>2. /\ now' \in Minutes /\ now <= now'
      /\ cache' \subseteq Tasks /\ fresh' \in BOOLEAN
  <2>1. CASE Advance
    BY <2>1, CronAssumption
       DEF Advance, IInv, Shapes, Minutes, cacheVars
  <2>2. CASE WatcherRefreshes
    BY <2>2, CronAssumption
       DEF WatcherRefreshes, IInv, Shapes, Minutes, ActiveTasks
  <2> QED
    BY <2>1, <2>2
<1>3. Shapes'
  BY <1>1, <1>2 DEF IInv, Shapes, Minutes
<1>4. Placed' /\ Started' /\ Remembered'
  BY <1>1, ActivationsAlone
<1>5. Kept'
  <2>1. \A f \in done : f.for \in Nat
    BY TaskOf DEF IInv, Shapes
  <2> QED
    BY <1>1, <1>2, <2>1, CronAssumption DEF IInv, Kept, Shapes, Minutes
<1> QED
  BY <1>3, <1>4, <1>5 DEF IInv

-----------------------------------------------------------------------------
(* What steps of ticks have in common *)

LEMMA TickChanges ==
  ASSUME Shapes, NEW w \in Ticks, NEW v \in Activation,
         tick' = [tick EXCEPT ![w] = v]
  PROVE  /\ tick' \in [Ticks -> Activation] /\ tick'[w] = v
         /\ \A u \in Ticks : u # w => tick'[u] = tick[u]
BY DEF Shapes

LEMMA AtWork ==
  ASSUME IInv, NEW w \in Ticks, tick[w].pc # "idle" PROVE phase # "down"
BY IdleIs DEF IInv, Placed

(* What is in hand, armed, running or begun after a step in the minute of   *)
(* the last tick was in hand, armed, running or begun on the same side of   *)
(* the start.                                                               *)
LEMMA StartedKept ==
  ASSUME Started, minute' = minute,
         \A w \in Ticks : \A f \in InHand(w)' :
           /\ f \in InHand(w)
           /\ tick'[w].pc \in CaughtUp <=> tick[w].pc \in CaughtUp,
         \A f \in armed' \cup flying' :
           \/ f.task \notin Recurring
           \/ f \in armed \cup flying
           \/ \E w \in Ticks : f \in InHand(w) /\ tick[w].pc \notin CaughtUp,
         \A b \in begun' :
           \/ b[1].task \notin Recurring
           \/ b \in begun
           \/ /\ b[2] = "catchup"
              /\ \E w \in Ticks : b[1] \in InHand(w) /\ tick[w].pc \in CaughtUp
           \/ /\ b[2] = "tick"
              /\ \/ b[1] \in armed \cup flying
                 \/ \E w \in Ticks :
                      b[1] \in InHand(w) /\ tick[w].pc \notin CaughtUp
  PROVE  Started'
<1>1. PICK s \in Nat : Since(s)
  BY DEF Started
<1>2. s <= minute'
  BY <1>1 DEF Since
<1>3. ASSUME NEW w \in Ticks, NEW f \in InHand(w)'
      PROVE  IF tick'[w].pc \in CaughtUp THEN f.for < s ELSE OnTime(f, s)'
  BY <1>1, <1>3 DEF Since, OnTime
<1>4. ASSUME NEW f \in armed' \cup flying', f.task \in Recurring
      PROVE  OnTime(f, s)'
  BY <1>1, <1>4 DEF Since, OnTime
<1>5. ASSUME NEW b \in begun', b[1].task \in Recurring
      PROVE  IF b[2] = "catchup" THEN b[1].for < s ELSE OnTime(b[1], s)'
  BY <1>1, <1>5 DEF Since, OnTime
<1>6. Since(s)'
  BY <1>2, <1>3, <1>4, <1>5 DEF Since
<1> QED
  BY <1>6 DEF Started

(* The activation of one tick changes, its hands keep what they had or      *)
(* less.                                                                    *)
LEMMA HandsKeep ==
  ASSUME IInv, NEW w \in Ticks, NEW v \in Activation,
         tick' = [tick EXCEPT ![w] = v],
         v.pc \in CaughtUp <=> tick[w].pc \in CaughtUp,
         v.todo \cup {v.firing} \subseteq
           tick[w].todo \cup {tick[w].firing, None}
  PROVE  \A u \in Ticks : \A f \in InHand(u)' :
           /\ f \in InHand(u)
           /\ tick'[u].pc \in CaughtUp <=> tick[u].pc \in CaughtUp
<1>1. /\ tick'[w] = v
      /\ \A u \in Ticks : u # w => tick'[u] = tick[u]
  BY TickChanges DEF IInv
<1>2. SUFFICES ASSUME NEW u \in Ticks, NEW f \in InHand(u)'
      PROVE  /\ f \in InHand(u)
             /\ tick'[u].pc \in CaughtUp <=> tick[u].pc \in CaughtUp
  OBVIOUS
<1>3. /\ f \in tick'[u].todo \cup {tick'[u].firing}
      /\ f # None /\ f.task \in Recurring
  BY <1>2 DEF InHand
<1>4. CASE u = w
  BY <1>1, <1>3, <1>4 DEF InHand
<1>5. CASE u # w
  BY <1>1, <1>3, <1>5 DEF InHand
<1> QED
  BY <1>4, <1>5

LEMMA PlacedKept ==
  ASSUME IInv, NEW w \in Ticks, NEW v \in Activation,
         tick' = [tick EXCEPT ![w] = v],
         v.pc \in Awaiting => v.firing # None,
         phase' # "down"
  PROVE  Placed'
<1>1. /\ tick'[w] = v
      /\ \A u \in Ticks : u # w => tick'[u] = tick[u]
  BY TickChanges DEF IInv
<1> QED
  BY <1>1 DEF IInv, Placed

-----------------------------------------------------------------------------
(* Ticks look at their tasks *)

LEMMA PassOverKeeps ==
  ASSUME IInv, NEW w \in Ticks, NEW f \in tick[w].todo, PassOver(w, f)
  PROVE  IInv'
<1> DEFINE v == [tick[w] EXCEPT !.todo = @ \ {f}]
<1>1. tick[w] \in Activation
  BY TickOf DEF IInv
<1>2. /\ v \in Activation /\ v.pc = tick[w].pc /\ v.firing = tick[w].firing
      /\ v.todo = tick[w].todo \ {f}
  BY <1>1 DEF Activation
<1>3. /\ tick' = [tick EXCEPT ![w] = v] /\ tick[w].pc = "loop"
      /\ UNCHANGED <<jittered, edits, now, row, lastTick, owner, boot, phase,
                     cache, fresh, fired, minute, armed, flying, loop, begun,
                     twice, done>>
  BY DEF PassOver, Looks, inputVars, fileVars, cacheVars, history
<1> HIDE DEF v
<1>4. Shapes'
  BY <1>2, <1>3, TickChanges DEF IInv, Shapes
<1>5. Placed'
  BY <1>2, <1>3, AtWork, PlacedKept DEF Awaiting
<1>6. Started'
  <2>1. \A u \in Ticks : \A g \in InHand(u)' :
          /\ g \in InHand(u)
          /\ tick'[u].pc \in CaughtUp <=> tick[u].pc \in CaughtUp
    BY <1>2, <1>3, HandsKeep
  <2> QED
    BY <1>3, <2>1, StartedKept DEF IInv
<1>7. Remembered' /\ Kept'
  BY <1>3 DEF IInv, Remembered, Kept
<1> QED
  BY <1>4, <1>5, <1>6, <1>7 DEF IInv

LEMMA EndTickKeeps ==
  ASSUME IInv, NEW w \in Ticks, EndTick(w) PROVE IInv'
<1>1. /\ tick' = [tick EXCEPT ![w] = IdleTick] /\ tick[w].pc = "loop"
      /\ loop' = None
      /\ UNCHANGED <<jittered, edits, now, row, lastTick, owner, boot, phase,
                     cache, fresh, fired, minute, armed, flying, begun,
                     twice, done>>
  BY DEF EndTick, inputVars, fileVars, cacheVars, history
<1>2. Shapes'
  BY <1>1, IdleIs, TickChanges DEF IInv, Shapes
<1>3. Placed'
  BY <1>1, IdleIs, AtWork, PlacedKept DEF Awaiting
<1>4. Started'
  <2>1. \A u \in Ticks : \A g \in InHand(u)' :
          /\ g \in InHand(u)
          /\ tick'[u].pc \in CaughtUp <=> tick[u].pc \in CaughtUp
    BY <1>1, IdleIs, HandsKeep DEF CaughtUp
  <2> QED
    BY <1>1, <2>1, StartedKept DEF IInv
<1>5. Remembered' /\ Kept'
  BY <1>1 DEF IInv, Remembered, Kept
<1> QED
  BY <1>2, <1>3, <1>4, <1>5 DEF IInv

LEMMA MarkMissedKeeps ==
  ASSUME IInv, NEW w \in Ticks, NEW f \in tick[w].todo, MarkMissed(w, f)
  PROVE  IInv'
<1> DEFINE v == [tick[w] EXCEPT !.todo = @ \ {f}]
           t == f.task
           r == [row[t] EXCEPT !.status = "missed"]
<1>1. tick[w] \in Activation /\ t \in Tasks
  BY TickOf, TaskOf DEF IInv
<1>2. /\ v \in Activation /\ v.pc = tick[w].pc /\ v.firing = tick[w].firing
      /\ v.todo = tick[w].todo \ {f}
  BY <1>1 DEF Activation
<1>3. row[t] \in Row /\ r \in Row /\ r.status = "missed"
  BY <1>1, RowOf DEF IInv, Row, Statuses
<1>4. /\ tick' = [tick EXCEPT ![w] = v] /\ tick[w].pc = "loop"
      /\ t \in OneShots
      /\ fresh' = (fresh /\ ~Exists(t))
      /\ UNCHANGED <<jittered, edits, now, owner, boot, phase, cache, fired,
                     minute, armed, flying, loop, begun, twice, done>>
      /\ \/ /\ row' = [row EXCEPT ![t] = r] /\ lastTick' = tick[w].at
            /\ Exists(t)
         \/ UNCHANGED <<row, lastTick>>
  BY DEF MarkMissed, Looks, TooLate, UpdateRow, inputVars, history
<1> HIDE DEF v, r
<1>5. /\ row' \in [Tasks -> Row] /\ lastTick' \in 0 .. Horizon
      /\ \A u \in Tasks : u # t => row'[u] = row[u]
      /\ row'[t] = row[t] \/ row'[t].status = "missed"
  <2>1. CASE UNCHANGED <<row, lastTick>>
    BY <2>1 DEF IInv, Shapes
  <2>2. CASE row' = [row EXCEPT ![t] = r] /\ lastTick' = tick[w].at
    BY <1>1, <1>3, <2>2, TickOf, RowChanges DEF IInv
  <2> QED
    BY <1>4, <2>1, <2>2
<1>6. Shapes'
  BY <1>2, <1>4, <1>5, TickChanges DEF IInv, Shapes, Exists
<1>7. Placed'
  BY <1>2, <1>4, AtWork, PlacedKept DEF Awaiting
<1>8. Started'
  <2>1. \A u \in Ticks : \A g \in InHand(u)' :
          /\ g \in InHand(u)
          /\ tick'[u].pc \in CaughtUp <=> tick[u].pc \in CaughtUp
    BY <1>2, <1>4, HandsKeep
  <2> QED
    BY <1>4, <2>1, StartedKept DEF IInv
<1>9. Remembered'
  BY <1>4 DEF IInv, Remembered
<1>10. Kept'
  <2>1. \A g \in done : g.task \in Tasks
    BY TaskOf DEF IInv, Shapes
  <2>2. t \notin Recurring
    BY <1>4, CronAssumption
  <2> QED
    BY <1>4, <1>5, <2>1, <2>2 DEF IInv, Kept
<1> QED
  BY <1>6, <1>7, <1>8, <1>9, <1>10 DEF IInv

(* A recurring firing that a tick has in hand is for a minute up to that of *)
(* the last tick; so is one that a timer has.                               *)
LEMMA NotAhead ==
  ASSUME IInv
  PROVE  /\ \A w \in Ticks : \A f \in InHand(w) : f.for <= minute
         /\ \A f \in armed \cup flying :
              f.task \in Recurring => f.for <= minute
<1>1. PICK s \in Nat : Since(s)
  BY DEF IInv, Started
<1>2. ASSUME NEW w \in Ticks, NEW f \in InHand(w) PROVE f.for <= minute
  <2>1. f \in Firings
    BY <1>2, TickOf DEF IInv, InHand
  <2>2. IF tick[w].pc \in CaughtUp THEN f.for < s ELSE OnTime(f, s)
    BY <1>1, <1>2 DEF Since
  <2> QED
    BY <1>1, <2>1, <2>2, TaskOf DEF Since, OnTime, IInv, Shapes
<1> QED
  BY <1>1, <1>2 DEF Since, OnTime

LEMMA ArmTimerKeeps ==
  ASSUME IInv, NEW w \in Ticks, NEW f \in tick[w].todo, ArmTimer(w, f)
  PROVE  IInv'
<1> DEFINE v == [tick[w] EXCEPT !.todo = @ \ {f}]
<1>1. tick[w] \in Activation /\ f \in Firings /\ f.task \in Tasks
  BY TickOf, TaskOf DEF IInv
<1>2. /\ v \in Activation /\ v.pc = tick[w].pc /\ v.firing = tick[w].firing
      /\ v.todo = tick[w].todo \ {f}
  BY <1>1 DEF Activation
<1>3. /\ tick' = [tick EXCEPT ![w] = v] /\ tick[w].pc = "loop"
      /\ f.task \notin fired /\ f.task \in jittered
      /\ fired' = fired \cup {f.task} /\ armed' = armed \cup {f}
      /\ UNCHANGED <<jittered, edits, now, row, lastTick, owner, boot, phase,
                     cache, fresh, minute, flying, loop, begun, twice, done>>
  BY DEF ArmTimer, Looks, Picks, inputVars, fileVars, cacheVars, history
<1> HIDE DEF v
<1>4. Shapes'
  BY <1>1, <1>2, <1>3, TickChanges DEF IInv, Shapes
<1>5. Placed'
  BY <1>2, <1>3, AtWork, PlacedKept DEF Awaiting
<1>6. Started'
  <2>1. \A u \in Ticks : \A g \in InHand(u)' :
          /\ g \in InHand(u)
          /\ tick'[u].pc \in CaughtUp <=> tick[u].pc \in CaughtUp
    BY <1>2, <1>3, HandsKeep
  <2>2. f.task \in Recurring => f \in InHand(w)
    BY <1>1, CronAssumption DEF InHand
  <2>3. tick[w].pc \notin CaughtUp
    BY <1>3 DEF CaughtUp
  <2> QED
    BY <1>3, <2>1, <2>2, <2>3, StartedKept DEF IInv
<1>7. Remembered'
  BY <1>1, <1>3 DEF IInv, Remembered
<1>8. Kept'
  BY <1>3, RowsAlone
<1> QED
  BY <1>4, <1>5, <1>6, <1>7, <1>8 DEF IInv

(* Firing f of tick w begins, or its task is not to be fired any more.      *)
LEMMA FireNowKeeps ==
  ASSUME IInv, NEW w \in Ticks, NEW f \in tick[w].todo, FireNow(w, f)
  PROVE  IInv'
<1>1. tick[w] \in Activation /\ f \in Firings /\ f.task \in Tasks
      /\ f # None
  BY TickOf, TaskOf, CronAssumption DEF IInv
<1>2. /\ tick[w].pc = "loop" /\ f.task \notin fired
      /\ fired' = fired \cup {f.task}
      /\ UNCHANGED <<jittered, edits, now, row, lastTick, owner, boot, phase,
                     cache, fresh, minute, armed, flying, done>>
  BY DEF FireNow, Looks, Picks, Begins, inputVars, fileVars, cacheVars,
         history
<1>3. /\ f.task \in Recurring => f \in InHand(w)
      /\ tick[w].pc \notin CaughtUp
  BY <1>1, <1>2 DEF InHand, CaughtUp
<1>4. CASE MayFire(f.task) /\ loop' = None /\ Begins(f, "tick")
           /\ tick' = [tick EXCEPT ![w].pc = "firing", ![w].firing = f,
                                   ![w].todo = @ \ {f}]
  <2> DEFINE v == [tick[w] EXCEPT !.pc = "firing", !.firing = f,
                                  !.todo = @ \ {f}]
  <2>1. /\ v \in Activation /\ v.pc = "firing" /\ v.firing = f
        /\ v.todo = tick[w].todo \ {f}
    BY <1>1 DEF Activation
  <2>2. tick' = [tick EXCEPT ![w] = v]
    BY <1>4 DEF IInv, Shapes
  <2> HIDE DEF v
  <2>3. /\ begun' = begun \cup {<<f, "tick">>}
        /\ twice' \subseteq twice \cup {f}
    BY <1>4 DEF Begins
  <2>4. Shapes'
    BY <1>1, <1>2, <1>4, <2>1, <2>2, <2>3, TickChanges DEF IInv, Shapes
  <2>5. Placed'
    BY <1>1, <1>2, <2>1, <2>2, AtWork, PlacedKept
  <2>6. Started'
    <3>1. \A u \in Ticks : \A g \in InHand(u)' :
            /\ g \in InHand(u)
            /\ tick'[u].pc \in CaughtUp <=> tick[u].pc \in CaughtUp
      BY <1>3, <2>1, <2>2, HandsKeep DEF CaughtUp
    <3> QED
      BY <1>2, <1>3, <2>3, <3>1, StartedKept DEF IInv
  <2>7. Remembered'
    BY <1>1, <1>2, <2>3 DEF IInv, Remembered
  <2>8. Kept'
    BY <1>2, RowsAlone
  <2> QED
    BY <2>4, <2>5, <2>6, <2>7, <2>8 DEF IInv
<1>5. CASE UNCHANGED <<loop, begun, twice>>
           /\ tick' = [tick EXCEPT ![w].todo = @ \ {f}]
  <2> DEFINE v == [tick[w] EXCEPT !.todo = @ \ {f}]
  <2>1. /\ v \in Activation /\ v.pc = "loop" /\ v.firing = tick[w].firing
        /\ v.todo = tick[w].todo \ {f}
    BY <1>1, <1>2 DEF Activation
  <2>2. tick' = [tick EXCEPT ![w] = v]
    BY <1>5 DEF IInv, Shapes
  <2> HIDE DEF v
  <2>3. Shapes'
    BY <1>1, <1>2, <1>5, <2>1, <2>2, TickChanges DEF IInv, Shapes
  <2>4. Placed'
    BY <1>2, <2>1, <2>2, AtWork, PlacedKept DEF Awaiting
  <2>5. Started'
    <3>1. \A u \in Ticks : \A g \in InHand(u)' :
            /\ g \in InHand(u)
            /\ tick'[u].pc \in CaughtUp <=> tick[u].pc \in CaughtUp
      BY <1>2, <2>1, <2>2, HandsKeep
    <3> QED
      BY <1>2, <1>5, <3>1, StartedKept DEF IInv
  <2>6. Remembered' /\ Kept'
    BY <1>2, <1>5 DEF IInv, Remembered, Kept
  <2> QED
    BY <2>3, <2>4, <2>5, <2>6 DEF IInv
<1> QED
  BY <1>4, <1>5 DEF FireNow, history

LEMMA CatchUpFiresKeeps ==
  ASSUME IInv, NEW f \in tick[Boot].todo, CatchUpFires(f) PROVE IInv'
<1>0. Boot \in Ticks
  BY CronAssumption
<1>1. tick[Boot] \in Activation /\ f \in Firings /\ f.task \in Tasks
      /\ f # None
  BY <1>0, TickOf, TaskOf, CronAssumption DEF IInv
<1> DEFINE v == [tick[Boot] EXCEPT !.pc = "catchfire", !.firing = f,
                                   !.todo = @ \ {f}]
<1>2. /\ v \in Activation /\ v.pc = "catchfire" /\ v.firing = f
      /\ v.todo = tick[Boot].todo \ {f}
  BY <1>1 DEF Activation
<1>3. /\ tick[Boot].pc = "catchup" /\ loop' = None
      /\ begun' = begun \cup {<<f, "catchup">>}
      /\ UNCHANGED <<jittered, edits, now, row, lastTick, owner, boot, phase,
                     cache, fresh, fired, minute, armed, flying, twice, done>>
  BY DEF CatchUpFires, Begins, inputVars, fileVars, cacheVars
<1>4. tick' = [tick EXCEPT ![Boot] = v]
  BY <1>0 DEF CatchUpFires, IInv, Shapes
<1> HIDE DEF v
<1>5. Shapes'
  BY <1>0, <1>1, <1>2, <1>3, <1>4, TickChanges DEF IInv, Shapes
<1>6. Placed'
  BY <1>0, <1>1, <1>2, <1>3, <1>4, AtWork, PlacedKept
<1>7. Started'
  <2>1. \A u \in Ticks : \A g \in InHand(u)' :
          /\ g \in InHand(u)
          /\ tick'[u].pc \in CaughtUp <=> tick[u].pc \in CaughtUp
    BY <1>0, <1>2, <1>3, <1>4, HandsKeep DEF CaughtUp
  <2>2. f.task \in Recurring => f \in InHand(Boot)
    BY <1>1 DEF InHand
  <2>3. tick[Boot].pc \in CaughtUp
    BY <1>3 DEF CaughtUp
  <2> QED
    BY <1>0, <1>3, <2>1, <2>2, <2>3, StartedKept DEF IInv
<1>8. Remembered' /\ Kept'
  BY <1>3 DEF IInv, Remembered, Kept
<1> QED
  BY <1>5, <1>6, <1>7, <1>8 DEF IInv

-----------------------------------------------------------------------------
(* Turns end and timers fire *)

(* The end of a turn is recorded in the row of its task, unless it is gone. *)
LEMMA RecordedKeeps ==
  ASSUME IInv, NEW f \in Firings, Recorded(f), now' = now,
         f.task \in Recurring => f.for <= minute
  PROVE  /\ row' \in [Tasks -> Row] /\ lastTick' \in 0 .. Horizon
         /\ fresh' = FALSE /\ begun' = begun /\ twice' = twice
         /\ done' \subseteq Firings /\ Kept'
<1> DEFINE t == f.task
<1>1. /\ t \in Tasks /\ row[t] \in Row /\ f.for \in Nat
      /\ now \in 0 .. Horizon /\ minute <= now /\ minute \in Nat
  BY TaskOf, RowOf, CronAssumption DEF IInv, Shapes, Minutes
<1>2. /\ fresh' = FALSE /\ begun' = begun /\ twice' = twice
      /\ done' = IF Exists(t) THEN done \cup {f} ELSE done
      /\ IF Exists(t)
         THEN row' = [row EXCEPT ![t] = Fired(t)] /\ lastTick' = now
         ELSE UNCHANGED <<row, lastTick>>
  BY DEF Recorded, UpdateRow
<1>3. /\ Fired(t) \in Row
      /\ t \in Recurring => /\ Fired(t).last = now
                            /\ Fired(t).status = row[t].status
      /\ t \notin Recurring => Fired(t).status = "fired"
  BY <1>1 DEF Fired, Row, Statuses
<1>4. CASE Exists(t)
  <2>1. /\ row' \in [Tasks -> Row] /\ row'[t] = Fired(t)
        /\ \A u \in Tasks : u # t => row'[u] = row[u]
    BY <1>1, <1>2, <1>3, <1>4, RowChanges DEF IInv
  <2>2. row[t].status \notin {"new", "gone"}
    BY <1>4 DEF Exists
  <2>3. ASSUME NEW g \in done'
        PROVE  /\ row'[g.task].status # "new"
               /\ g.task \in OneShots => row'[g.task].status # "active"
               /\ g.task \in Recurring =>
                    /\ g.for <= now'
                    /\ \/ row'[g.task].status = "gone"
                       \/ g.for <= row'[g.task].last
    <3>1. g \in Firings /\ g.task \in Tasks /\ g.for \in Nat
      BY <1>2, <1>4, <2>3, TaskOf DEF IInv, Shapes
    <3>2. CASE g.task # t
      BY <1>2, <1>4, <2>1, <2>3, <3>1, <3>2 DEF IInv, Kept
    <3>3. CASE g.task = t /\ t \notin Recurring
      BY <1>3, <2>1, <3>3
    <3>4. CASE g.task = t /\ t \in Recurring
      <4>1. t \notin OneShots
        BY <3>4, CronAssumption
      <4>2. g.for <= now
        <5>1. CASE g = f
          BY <1>1, <3>4, <5>1
        <5>2. CASE g \in done
          BY <3>4, <5>2 DEF IInv, Kept
        <5> QED
          BY <1>2, <1>4, <2>3, <5>1, <5>2
      <4> QED
        BY <1>3, <2>1, <2>2, <3>4, <4>1, <4>2
    <3> QED
      BY <3>2, <3>3, <3>4
  <2> QED
    BY <1>1, <1>2, <1>4, <2>1, <2>3 DEF IInv, Shapes, Kept
<1>5. CASE ~Exists(t)
  BY <1>2, <1>5, RowsAlone DEF IInv, Shapes
<1> QED
  BY <1>4, <1>5

LEMMA TurnDoneKeeps ==
  ASSUME IInv, NEW w \in Ticks, TurnDone(w) PROVE IInv'
<1> DEFINE f == tick[w].firing
           pc == IF tick[w].pc = "firing" THEN "loop" ELSE "catchup"
           v == [tick[w] EXCEPT !.pc = pc, !.firing = None]
<1>1. /\ tick[w].pc \in Awaiting /\ Recorded(f) /\ loop' = w
      /\ UNCHANGED <<jittered, edits, now, owner, boot, phase, cache, fired,
                     minute, armed, flying>>
  BY DEF TurnDone, inputVars, Awaiting
<1>2. tick[w] \in Activation /\ f \in Firings /\ f # None
  BY <1>1, TickOf DEF IInv, Placed
<1>3. /\ v \in Activation /\ v.pc = pc /\ v.firing = None
      /\ v.todo = tick[w].todo
  BY <1>2 DEF Activation
<1>4. tick' = [tick EXCEPT ![w] = v]
  BY DEF TurnDone, IInv, Shapes
<1>5. f.task \in Recurring => f.for <= minute
  BY <1>2, NotAhead DEF InHand
<1>6. /\ pc \in CaughtUp <=> tick[w].pc \in CaughtUp
      /\ pc \notin Awaiting
  BY <1>1 DEF CaughtUp, Awaiting
<1> HIDE DEF v, pc
<1>7. /\ row' \in [Tasks -> Row] /\ lastTick' \in 0 .. Horizon
      /\ fresh' = FALSE /\ begun' = begun /\ twice' = twice
      /\ done' \subseteq Firings /\ Kept'
  BY <1>1, <1>2, <1>5, RecordedKeeps
<1>8. Shapes'
  BY <1>1, <1>3, <1>4, <1>7, TickChanges DEF IInv, Shapes
<1>9. Placed'
  <2>1. phase # "down"
    BY <1>1, AtWork DEF Awaiting
  <2> QED
    BY <1>1, <1>3, <1>4, <1>6, <2>1, PlacedKept
<1>10. Started'
  <2>1. \A u \in Ticks : \A g \in InHand(u)' :
          /\ g \in InHand(u)
          /\ tick'[u].pc \in CaughtUp <=> tick[u].pc \in CaughtUp
    BY <1>3, <1>4, <1>6, HandsKeep
  <2> QED
    BY <1>1, <1>7, <2>1, StartedKept DEF IInv
<1>11. Remembered'
  BY <1>1, <1>7 DEF IInv, Remembered
<1> QED
  BY <1>7, <1>8, <1>9, <1>10, <1>11 DEF IInv

(* No tick is touched.                                                      *)
LEMMA HandsAlone ==
  ASSUME tick' = tick
  PROVE  \A w \in Ticks : \A f \in InHand(w)' :
           /\ f \in InHand(w)
           /\ tick'[w].pc \in CaughtUp <=> tick[w].pc \in CaughtUp
BY DEF InHand

LEMMA TimerFiresKeeps ==
  ASSUME IInv, NEW f \in armed, TimerFires(f) PROVE IInv'
<1>1. /\ armed' = armed \ {f}
      /\ UNCHANGED <<jittered, edits, now, row, lastTick, owner, boot, phase,
                     cache, fresh, fired, minute, tick, loop, done>>
      /\ \/ flying' = flying \cup {f} /\ Begins(f, "tick")
         \/ UNCHANGED <<flying, begun, twice>>
  BY DEF TimerFires, Begins, inputVars, fileVars, cacheVars, history
<1>2. f \in Firings
  BY DEF IInv, Shapes
<1>3. /\ flying' \subseteq flying \cup {f}
      /\ begun' \subseteq begun \cup {<<f, "tick">>}
      /\ twice' \subseteq twice \cup {f}
  BY <1>1 DEF Begins
<1>4. Shapes'
  BY <1>1, <1>2, <1>3 DEF IInv, Shapes
<1>5. Placed'
  BY <1>1 DEF IInv, Placed
<1>6. Started'
  BY <1>1, <1>3, HandsAlone, StartedKept DEF IInv
<1>7. Remembered'
  <2>1. f.task \in Recurring /\ f.for = minute => f.task \in fired
    BY <1>2 DEF IInv, Remembered
  <2> QED
    BY <1>1, <1>2, <1>3, <2>1 DEF IInv, Remembered
<1>8. Kept'
  BY <1>1, RowsAlone
<1> QED
  BY <1>4, <1>5, <1>6, <1>7, <1>8 DEF IInv

LEMMA TimerTurnDoneKeeps ==
  ASSUME IInv, NEW f \in flying, TimerTurnDone(f) PROVE IInv'
<1>1. /\ flying' = flying \ {f} /\ Recorded(f)
      /\ UNCHANGED <<jittered, edits, now, owner, boot, phase, cache, fired,
                     minute, armed, tick, loop>>
  BY DEF TimerTurnDone, inputVars
<1>2. f \in Firings /\ (f.task \in Recurring => f.for <= minute)
  BY NotAhead DEF IInv, Shapes
<1>3. /\ row' \in [Tasks -> Row] /\ lastTick' \in 0 .. Horizon
      /\ fresh' = FALSE /\ begun' = begun /\ twice' = twice
      /\ done' \subseteq Firings /\ Kept'
  BY <1>1, <1>2, RecordedKeeps
<1>4. Shapes'
  BY <1>1, <1>3 DEF IInv, Shapes
<1>5. Placed'
  BY <1>1 DEF IInv, Placed
<1>6. Started'
  BY <1>1, <1>3, HandsAlone, StartedKept DEF IInv
<1>7. Remembered'
  BY <1>1, <1>3 DEF IInv, Remembered
<1> QED
  BY <1>3, <1>4, <1>5, <1>6, <1>7 DEF IInv

-----------------------------------------------------------------------------
(* Ticks open *)

(* The head of a tick, which leaves the rest as it is.                      *)
LEMMA OpenTickKeeps ==
  ASSUME IInv, NEW w \in Ticks, OpenTick(w), phase = "running",
         UNCHANGED <<now, jittered, edits, row, lastTick, boot, flying, begun,
                     twice, done>>
  PROVE  IInv'
<1>1. Kept'
  BY RowsAlone
<1>2. CASE StopScheduler /\ tick' = [tick EXCEPT ![w] = IdleTick]
           /\ loop' = None /\ UNCHANGED <<cache, fired, minute>>
  <2>1. /\ phase' = "stopped" /\ armed' = {} /\ owner' \in 0 .. MaxBoots
        /\ fresh' \in BOOLEAN
    BY <1>2, CronAssumption DEF StopScheduler, IInv, Shapes
  <2>2. Shapes'
    BY <1>2, <2>1, IdleIs, TickChanges DEF IInv, Shapes
  <2>3. Placed'
    BY <1>2, <2>1, IdleIs, PlacedKept DEF Awaiting
  <2>4. Started'
    <3>1. /\ tick'[w] = IdleTick
          /\ \A u \in Ticks : u # w => tick'[u] = tick[u]
      BY <1>2, IdleIs, TickChanges DEF IInv
    <3>2. \A u \in Ticks : \A g \in InHand(u)' :
            /\ g \in InHand(u)
            /\ tick'[u].pc \in CaughtUp <=> tick[u].pc \in CaughtUp
      BY <3>1, IdleIs DEF InHand
    <3> QED
      BY <1>2, <2>1, <3>2, StartedKept DEF IInv
  <2>5. Remembered'
    BY <1>2, <2>1 DEF IInv, Remembered
  <2> QED
    BY <1>1, <2>2, <2>3, <2>4, <2>5 DEF IInv
<1>3. CASE /\ fired' = FiredNow /\ minute' = now
           /\ cache' = Refreshed /\ fresh' = TRUE
           /\ tick' = [tick EXCEPT ![w] =
                [pc |-> "loop", at |-> now, firing |-> None,
                 todo |-> {[task |-> t,
                            for |-> IF t \in OneShots THEN DueAt[t]
                                    ELSE now] : t \in cache'}]]
           /\ loop' = w /\ UNCHANGED <<owner, phase, armed>>
  <2> DEFINE due == {[task |-> t, for |-> IF t \in OneShots THEN DueAt[t]
                                          ELSE now] : t \in cache'}
             v == [pc |-> "loop", at |-> now, firing |-> None, todo |-> due]
  <2>1. /\ cache' \subseteq Tasks /\ fired' \subseteq Tasks
        /\ now \in 0 .. Horizon /\ now \in Nat /\ minute <= now
        /\ minute \in Nat
    BY <1>3, CronAssumption
       DEF IInv, Shapes, Minutes, Refreshed, FiredNow, ActiveTasks
  <2>2. /\ due \subseteq Firings
        /\ \A g \in due : g.task \in Recurring => g.for = now
    BY <2>1, CronAssumption DEF Firings, Tasks
  <2>3. tick' = [tick EXCEPT ![w] = v]
    BY <1>3
  <2> HIDE DEF due
  <2>4. v \in Activation /\ v.pc = "loop" /\ v.firing = None /\ v.todo = due
    BY <2>1, <2>2 DEF Activation
  <2> HIDE DEF v
  <2>5. /\ tick' \in [Ticks -> Activation] /\ tick'[w] = v
        /\ \A u \in Ticks : u # w => tick'[u] = tick[u]
    BY <2>3, <2>4, TickChanges DEF IInv
  <2>6. Shapes'
    BY <1>3, <2>1, <2>5 DEF IInv, Shapes
  <2>7. Placed'
    BY <1>3, <2>3, <2>4, PlacedKept DEF Awaiting
  <2>8. Started'
    <3>1. PICK s \in Nat : Since(s)
      BY DEF IInv, Started
    <3>2. s <= minute'
      BY <1>3, <2>1, <3>1 DEF Since
    <3>3. ASSUME NEW f \in Firings, OnTime(f, s) PROVE OnTime(f, s)'
      BY <1>3, <2>1, <3>3, TaskOf DEF OnTime
    <3>4. ASSUME NEW u \in Ticks, NEW f \in InHand(u)'
          PROVE  IF tick'[u].pc \in CaughtUp THEN f.for < s ELSE OnTime(f, s)'
      <4>1. CASE u = w
        <5>1. f.for = now /\ tick'[u].pc \notin CaughtUp
          BY <2>2, <2>4, <2>5, <3>4, <4>1 DEF InHand, CaughtUp
        <5> QED
          BY <1>3, <2>1, <3>1, <5>1 DEF Since, OnTime
      <4>2. CASE u # w
        <5>1. f \in InHand(u) /\ tick'[u] = tick[u] /\ f \in Firings
          BY <2>5, <3>4, <4>2, TickOf DEF InHand, IInv
        <5> QED
          BY <3>1, <3>3, <5>1 DEF Since
      <4> QED
        BY <4>1, <4>2
    <3>5. ASSUME NEW f \in armed' \cup flying', f.task \in Recurring
          PROVE  OnTime(f, s)'
      <4>1. f \in armed \cup flying /\ f \in Firings
        BY <1>3, <3>5 DEF IInv, Shapes
      <4> QED
        BY <3>1, <3>3, <3>5, <4>1 DEF Since
    <3>6. ASSUME NEW b \in begun', b[1].task \in Recurring
          PROVE  IF b[2] = "catchup" THEN b[1].for < s ELSE OnTime(b[1], s)'
      <4>1. b \in begun /\ b[1] \in Firings
        BY <3>6 DEF IInv, Shapes
      <4> QED
        BY <3>1, <3>3, <3>6, <4>1 DEF Since
    <3>7. Since(s)'
      BY <3>2, <3>4, <3>5, <3>6 DEF Since
    <3> QED
      BY <3>7 DEF Started
  <2>9. Remembered'
    <3>1. CASE minute = now
      BY <1>3, <3>1 DEF IInv, Remembered, FiredNow
    <3>2. CASE minute # now
      <4>1. PICK s \in Nat : Since(s)
        BY DEF IInv, Started
      <4>2. ASSUME NEW f \in Firings, f.task \in Recurring, f.for = now
            PROVE  <<f, "tick">> \notin begun /\ f \notin armed
        <5>1. ~OnTime(f, s)
          BY <2>1, <3>2, <4>2 DEF OnTime
        <5>2. f \notin armed
          BY <4>1, <4>2, <5>1 DEF Since
        <5>3. ASSUME <<f, "tick">> \in begun PROVE FALSE
          <6> DEFINE b == <<f, "tick">>
          <6>1. b \in begun /\ b[1] = f /\ b[2] = "tick"
            BY <5>3
          <6> HIDE DEF b
          <6> QED
            BY <4>1, <4>2, <5>1, <6>1 DEF Since
        <5> QED
          BY <5>2, <5>3
      <4> QED
        BY <1>3, <4>2 DEF Remembered
    <3> QED
      BY <3>1, <3>2
  <2> QED
    BY <1>1, <2>6, <2>7, <2>8, <2>9 DEF IInv
<1> QED
  BY <1>2, <1>3 DEF OpenTick

LEMMA IntervalTickKeeps ==
  ASSUME IInv, NEW w \in Ticks, IntervalTick(w) PROVE IInv'
BY OpenTickKeeps DEF IntervalTick, inputVars, history

LEMMA CatchUpDoneKeeps == ASSUME IInv, CatchUpDone PROVE IInv'
<1>1. Boot \in Ticks
  BY CronAssumption
<1>2. CASE phase = "running" /\ OpenTick(Boot)
  BY <1>1, <1>2, OpenTickKeeps DEF CatchUpDone, inputVars, history
<1>3. CASE /\ phase = "stopped" /\ tick' = [tick EXCEPT ![Boot] = IdleTick]
           /\ loop' = None
           /\ UNCHANGED <<owner, phase, cacheVars, fired, minute, armed>>
  <2>1. UNCHANGED <<now, jittered, edits, row, lastTick, boot, flying, begun,
                    twice, done, owner, phase, cache, fresh, fired, minute,
                    armed>>
    BY <1>3 DEF CatchUpDone, inputVars, history, cacheVars
  <2>2. Shapes'
    BY <1>1, <1>3, <2>1, IdleIs, TickChanges DEF IInv, Shapes
  <2>3. Placed'
    BY <1>1, <1>3, <2>1, IdleIs, PlacedKept DEF Awaiting
  <2>4. Started'
    <3>1. /\ tick'[Boot] = IdleTick
          /\ \A u \in Ticks : u # Boot => tick'[u] = tick[u]
      BY <1>1, <1>3, IdleIs, TickChanges DEF IInv
    <3>2. \A u \in Ticks : \A g \in InHand(u)' :
            /\ g \in InHand(u)
            /\ tick'[u].pc \in CaughtUp <=> tick[u].pc \in CaughtUp
      BY <3>1, IdleIs DEF InHand
    <3> QED
      BY <2>1, <3>2, StartedKept DEF IInv
  <2>5. Remembered' /\ Kept'
    BY <2>1 DEF IInv, Remembered, Kept
  <2> QED
    BY <2>2, <2>3, <2>4, <2>5 DEF IInv
<1> QED
  BY <1>2, <1>3 DEF CatchUpDone

-----------------------------------------------------------------------------
(* Start, stop and the end of the process *)

(* What catch-up finds: active tasks, one-shots or recurring ones that have *)
(* not run since a minute before this one.                                  *)
LEMMA MissedAre ==
  ASSUME Shapes
  PROVE  /\ Missed \subseteq Firings
         /\ \A f \in Missed :
              /\ row[f.task].status = "active"
              /\ f.task \in Recurring =>
                   f.for < now /\ row[f.task].last < f.for
<1>1. ASSUME NEW t \in OneShots \cap ActiveTasks
      PROVE  LET f == [task |-> t, for |-> DueAt[t]]
             IN  /\ f \in Firings /\ f.task = t /\ t \notin Recurring
                 /\ row[t].status = "active"
  BY CronAssumption DEF Firings, Tasks, ActiveTasks
<1>2. ASSUME NEW t \in Recurring \cap ActiveTasks,
             NEW m \in {n \in LatestMissed(t) : NotYetRun(t, n)}
      PROVE  LET f == [task |-> t, for |-> m]
             IN  /\ f \in Firings /\ f.task = t /\ f.for = m
                 /\ row[t].status = "active" /\ m < now /\ row[t].last < m
  BY CronAssumption
     DEF Firings, Tasks, ActiveTasks, LatestMissed, NotYetRun, InWindow
<1>3. ASSUME NEW f \in Missed
      PROVE  /\ f \in Firings /\ row[f.task].status = "active"
             /\ f.task \in Recurring =>
                  f.for < now /\ row[f.task].last < f.for
  <2>1. CASE \E t \in OneShots \cap ActiveTasks :
               f = [task |-> t, for |-> DueAt[t]]
    BY <1>1, <2>1
  <2>2. CASE \E t \in Recurring \cap ActiveTasks :
               \E m \in {n \in LatestMissed(t) : NotYetRun(t, n)} :
                 f = [task |-> t, for |-> m]
    BY <1>2, <2>2
  <2> QED
    BY <1>3, <2>1, <2>2 DEF Missed
<1> QED
  BY <1>3

LEMMA StartKeeps == ASSUME IInv, Start PROVE IInv'
<1> DEFINE v == [pc |-> "catchup", at |-> now, todo |-> Missed,
                 firing |-> None]
<1>1. /\ phase = "down" /\ boot < MaxBoots /\ phase' = "running"
      /\ boot' = boot + 1 /\ owner' = boot' /\ lastTick' = now
      /\ cache' = {} /\ fresh' = FALSE /\ fired' = {} /\ minute' = now
      /\ tick' = [tick EXCEPT ![Boot] = v] /\ loop' = Boot
      /\ begun' = {} /\ twice' = {}
      /\ UNCHANGED <<now, jittered, edits, row, armed, flying, done>>
  BY DEF Start, inputVars
<1>2. /\ Boot \in Ticks /\ now \in 0 .. Horizon /\ now \in Nat
      /\ boot' \in 0 .. MaxBoots
  BY <1>1, CronAssumption DEF IInv, Shapes, Minutes
<1>3. v \in Activation /\ v.pc = "catchup" /\ v.firing = None
      /\ v.todo = Missed
  BY <1>2, MissedAre DEF IInv, Activation
<1> HIDE DEF v
<1>4. /\ tick' \in [Ticks -> Activation] /\ tick'[Boot] = v
      /\ \A u \in Ticks : u # Boot => tick'[u] = tick[u]
  BY <1>1, <1>2, <1>3, TickChanges DEF IInv
<1>5. armed = {} /\ flying = {} /\ \A u \in Ticks : tick[u] = IdleTick
  BY <1>1 DEF IInv, Placed
<1>6. Shapes'
  <2>1. /\ owner' \in 0 .. MaxBoots /\ lastTick' \in 0 .. Horizon
        /\ minute' \in 0 .. Horizon /\ minute' <= now'
        /\ loop' \in Ticks \cup {None} /\ phase' \in {"down", "running"}
    BY <1>1, <1>2
  <2>2. /\ cache' \subseteq Tasks /\ fresh' \in BOOLEAN
        /\ fired' \subseteq Tasks /\ twice' \subseteq Firings
        /\ begun' \subseteq Firings \X {"catchup", "tick"}
    BY <1>1
  <2>3. UNCHANGED <<now, jittered, edits, row, armed, flying, done>>
    BY <1>1
  <2> HIDE <1>1
  <2> QED
    BY <1>2, <1>4, <2>1, <2>2, <2>3 DEF IInv, Shapes
<1>7. Placed'
  BY <1>1, <1>2, <1>3, PlacedKept DEF Awaiting
<1>8. Started'
  <2>1. ASSUME NEW u \in Ticks, NEW f \in InHand(u)'
        PROVE  tick'[u].pc \in CaughtUp /\ f.for < now
    <3>1. /\ f \in tick'[u].todo \cup {tick'[u].firing}
          /\ f # None /\ f.task \in Recurring
      BY <2>1 DEF InHand
    <3>2. u = Boot
      BY <1>4, <1>5, <3>1, IdleIs
    <3> QED
      BY <1>3, <1>4, <3>1, <3>2, MissedAre DEF CaughtUp, IInv
  <2>2. Since(now)'
    BY <1>1, <1>2, <1>5, <2>1 DEF Since
  <2> QED
    BY <1>1, <1>2, <2>2 DEF Started
<1>9. Remembered'
  BY <1>1, <1>5 DEF Remembered
<1>10. Kept'
  BY <1>1, RowsAlone
<1> QED
  BY <1>6, <1>7, <1>8, <1>9, <1>10 DEF IInv

LEMMA StopKeeps == ASSUME IInv, Stop PROVE IInv'
<1>1. /\ phase = "running" /\ phase' = "stopped" /\ armed' = {}
      /\ owner' = IF owner = boot THEN 0 ELSE owner
      /\ fresh' = (fresh /\ owner' = owner)
      /\ UNCHANGED <<now, jittered, edits, row, lastTick, boot, cache, fired,
                     minute, flying, tick, loop, begun, twice, done>>
  BY DEF Stop, StopScheduler, inputVars, history
<1>2. owner' \in 0 .. MaxBoots
  BY <1>1, CronAssumption DEF IInv, Shapes
<1>3. Shapes'
  BY <1>1, <1>2 DEF IInv, Shapes
<1>4. Placed'
  BY <1>1 DEF IInv, Placed
<1>5. Started'
  BY <1>1, HandsAlone, StartedKept DEF IInv
<1>6. Remembered' /\ Kept'
  BY <1>1 DEF IInv, Remembered, Kept
<1> QED
  BY <1>3, <1>4, <1>5, <1>6 DEF IInv

LEMMA ExitKeeps == ASSUME IInv, Exit PROVE IInv'
<1>1. /\ phase' = "down" /\ armed' = {} /\ flying' = {}
      /\ tick' = [w \in Ticks |-> IdleTick] /\ loop' = None
      /\ UNCHANGED <<now, jittered, edits, row, lastTick, owner, boot, cache,
                     fresh, fired, minute, begun, twice, done>>
  BY DEF Exit, inputVars, fileVars, cacheVars, history
<1>2. Shapes'
  BY <1>1, IdleIs DEF IInv, Shapes
<1>3. Placed'
  BY <1>1, IdleIs DEF Placed, Awaiting
<1>4. Started'
  <2>1. \A u \in Ticks : \A g \in InHand(u)' : FALSE
    BY <1>1, IdleIs DEF InHand
  <2> QED
    BY <1>1, <2>1, StartedKept DEF IInv
<1>5. Remembered' /\ Kept'
  BY <1>1 DEF IInv, Remembered, Kept
<1> QED
  BY <1>2, <1>3, <1>4, <1>5 DEF IInv

-----------------------------------------------------------------------------
(* The invariant *)

LEMMA IInvInit == Init => IInv
<1> SUFFICES ASSUME Init PROVE IInv
  OBVIOUS
<1>1. row \in [Tasks -> Row]
  <2>1. [status : {"new", "active", "cancelled"}, last : {0}] \subseteq Row
    BY CronAssumption DEF Row, Statuses
  <2> QED
    BY <2>1 DEF Init
<1>2. Shapes
  <2>1. /\ now \in Minutes /\ edits \in 0 .. MaxEdits
        /\ lastTick \in 0 .. Horizon
        /\ owner \in 0 .. MaxBoots /\ boot \in 0 .. MaxBoots
        /\ minute \in 0 .. Horizon /\ minute <= now
    BY CronAssumption DEF Init, Minutes
  <2>2. tick \in [Ticks -> Activation]
    BY IdleIs DEF Init
  <2> QED
    BY <1>1, <2>1, <2>2 DEF Init, Shapes
<1>3. Placed
  BY IdleIs DEF Init, Placed, Awaiting
<1>4. Started
  <2>1. \A u \in Ticks : InHand(u) = {}
    BY IdleIs DEF Init, InHand
  <2>2. Since(0)
    BY <2>1 DEF Init, Since
  <2> QED
    BY <2>2 DEF Started
<1>5. Remembered /\ Kept
  BY DEF Init, Remembered, Kept
<1> QED
  BY <1>2, <1>3, <1>4, <1>5 DEF IInv

LEMMA IInvStep == IInv /\ [Next]_vars => IInv'
<1> SUFFICES ASSUME IInv, [Next]_vars PROVE IInv'
  OBVIOUS
<1>1. ASSUME NEW t \in Tasks, UserStep(t) PROVE IInv'
  BY <1>1, UserKeeps
<1>2. CASE FileLost
  BY <1>2, FileLostKeeps
<1>3. CASE Start
  BY <1>3, StartKeeps
<1>4. CASE Stop
  BY <1>4, StopKeeps
<1>5. CASE Exit
  BY <1>5, ExitKeeps
<1>6. CASE CatchUpStep
  BY <1>6, CatchUpDoneKeeps, CatchUpFiresKeeps DEF CatchUpStep
<1>7. ASSUME NEW w \in Ticks, IntervalTick(w) PROVE IInv'
  BY <1>7, IntervalTickKeeps
<1>8. ASSUME NEW w \in Ticks, TickStep(w) PROVE IInv'
  BY <1>8, EndTickKeeps, PassOverKeeps, MarkMissedKeeps, ArmTimerKeeps,
     FireNowKeeps DEF TickStep
<1>9. ASSUME NEW w \in Ticks, TurnDone(w) PROVE IInv'
  BY <1>9, TurnDoneKeeps
<1>10. ASSUME NEW f \in armed, TimerFires(f) PROVE IInv'
  BY <1>10, TimerFiresKeeps
<1>11. ASSUME NEW f \in flying, TimerTurnDone(f) PROVE IInv'
  BY <1>11, TimerTurnDoneKeeps
<1>12. CASE Advance \/ WatcherRefreshes
  BY <1>12, ClockAndWatcherKeep
<1>13. CASE GarbageCollect
  BY <1>13, GarbageCollectKeeps
<1>14. CASE UNCHANGED vars
  <2>1. UNCHANGED <<jittered, now, edits, row, lastTick, owner, boot, phase,
                    cache, fresh, fired, minute, armed, flying, tick, loop,
                    begun, twice, done>>
    BY <1>14 DEF vars
  <2>2. Shapes'
    BY <2>1 DEF IInv, Shapes
  <2> QED
    BY <2>1, <2>2, ActivationsAlone, RowsAlone DEF IInv
<1> QED
  BY <1>1, <1>2, <1>3, <1>4, <1>5, <1>6, <1>7, <1>8, <1>9, <1>10, <1>11,
     <1>12, <1>13, <1>14 DEF Next

LEMMA Invariant == Spec => []IInv
BY IInvInit, IInvStep, PTL DEF Spec

-----------------------------------------------------------------------------
(* The theorems *)

(* The file, the caches, the timers and the ticks keep their types.         *)
THEOREM SchedulerTypes == Spec => []TypeOK
<1>1. IInv => TypeOK
  <2> SUFFICES ASSUME IInv PROVE TypeOK
    OBVIOUS
  <2>1. row \in [Tasks -> [status : Statuses, last : 0 .. Horizon]]
    BY DEF IInv, Shapes, Row
  <2>2. ASSUME NEW w \in Ticks
        PROVE  /\ tick[w].pc \in {"idle", "catchup", "catchfire", "loop",
                                  "firing"}
               /\ tick[w].at \in 0 .. Horizon
               /\ tick[w].todo \subseteq Firings
               /\ tick[w].firing \in Firings \cup {None}
    BY TickOf DEF IInv, Activation
  <2> QED
    BY <2>1, <2>2 DEF IInv, Shapes, TypeOK
<1> QED
  BY <1>1, Invariant, PTL

(* Catch-up and the ticks of one start never fire a recurring task for the  *)
(* same minute, whatever the schedules, the window and the length of turns. *)
THEOREM CatchUpAndTicksAreApart == Spec => []CatchUpNeverCollides
<1>1. IInv => CatchUpNeverCollides
  <2> SUFFICES ASSUME IInv, NEW b \in begun, b[1].task \in Recurring,
                      b[2] = "catchup", <<b[1], "tick">> \in begun
               PROVE  FALSE
    BY DEF CatchUpNeverCollides
  <2> DEFINE c == <<b[1], "tick">>
  <2>1. c \in begun /\ c[1] = b[1] /\ c[2] = "tick"
    OBVIOUS
  <2> HIDE DEF c
  <2>2. PICK s \in Nat : Since(s)
    BY DEF IInv, Started
  <2>3. b[1].for < s /\ s <= b[1].for
    BY <2>1, <2>2 DEF Since, OnTime
  <2>4. b[1].for \in Nat
    BY TaskOf DEF IInv, Shapes
  <2> QED
    BY <2>2, <2>3, <2>4
<1> QED
  BY <1>1, Invariant, PTL

(* What the file has recorded is not fired again by the catch-up of a later *)
(* start, even when an old tick has moved last_tick_at back.                *)
THEOREM RecordedIsNotCaughtUp == Spec => CatchUpSkipsRecorded
<1>1. IInv /\ [Next]_vars =>
        [\A f \in done : phase = "down" => f \notin tick'[Boot].todo]_vars
  <2> SUFFICES ASSUME IInv, Next, NEW f \in done, phase = "down",
                      f \in tick'[Boot].todo
               PROVE  FALSE
    OBVIOUS
  <2>1. /\ Boot \in Ticks /\ f \in Firings /\ f.task \in Tasks
        /\ f.for \in Nat
    BY TaskOf, CronAssumption DEF IInv, Shapes
  <2>2. /\ armed = {} /\ flying = {}
        /\ \A w \in Ticks : tick[w] = IdleTick
    BY DEF IInv, Placed
  <2>3. tick' # tick
    BY <2>1, <2>2, IdleIs
  <2>4. Start
    BY <2>1, <2>2, <2>3, IdleIs
       DEF Next, UserStep, Add, Delete, Disable, Enable, Edit, FileLost, Stop,
           Exit, CatchUpStep, CatchUpDone, CatchUpFires, IntervalTick,
           TickStep, EndTick, TurnDone, Advance, WatcherRefreshes,
           GarbageCollect
  <2>5. f \in Missed
    BY <2>1, <2>4 DEF Start, IInv, Shapes
  <2>6. /\ row[f.task].status = "active"
        /\ f.task \in Recurring => row[f.task].last < f.for
    BY <2>5, MissedAre DEF IInv
  <2>7. /\ f.task \in OneShots => row[f.task].status # "active"
        /\ f.task \in Recurring =>
             row[f.task].status = "gone" \/ f.for <= row[f.task].last
    BY DEF IInv, Kept
  <2>8. row[f.task].last \in Nat
    BY <2>1, RowOf, CronAssumption DEF IInv
  <2> QED
    BY <2>1, <2>6, <2>7, <2>8 DEF Tasks
<1> QED
  BY <1>1, Invariant, PTL DEF Spec, CatchUpSkipsRecorded

(* A recurring task is not fired twice for the minute of the last tick,     *)
(* however many ticks overlap and however late its jitter timer is.         *)
THEOREM OverlappingTicksFireOnce == Spec => OncePerMinute
<1>1. IInv /\ [Next]_vars =>
        [\A f \in twice' \ twice :
           f.task \in Recurring => minute # f.for]_vars
  <2> SUFFICES ASSUME IInv, Next, NEW f \in twice' \ twice,
                      f.task \in Recurring, minute = f.for
               PROVE  FALSE
    OBVIOUS
  <2>1. ASSUME NEW g \in Firings, Begins(g, "tick"), f \in twice' \ twice
        PROVE  f = g /\ <<f, "tick">> \in begun
    BY <2>1 DEF Begins
  <2>2. ASSUME NEW w \in Ticks, NEW g \in tick[w].todo, FireNow(w, g)
        PROVE  FALSE
    <3>1. g \in Firings /\ g.task \notin fired
      BY <2>2, TickOf DEF IInv, FireNow, Picks
    <3>2. Begins(g, "tick")
      BY <2>2 DEF FireNow, history
    <3>3. f = g /\ <<f, "tick">> \in begun
      BY <2>1, <3>1, <3>2
    <3> QED
      BY <3>1, <3>3 DEF IInv, Remembered
  <2>3. ASSUME NEW g \in armed, TimerFires(g) PROVE FALSE
    <3>1. g \in Firings
      BY <2>3 DEF IInv, Shapes
    <3>2. Begins(g, "tick")
      BY <2>3 DEF TimerFires, history
    <3>3. f = g /\ <<f, "tick">> \in begun
      BY <2>1, <3>1, <3>2
    <3> QED
      BY <2>3, <3>1, <3>3 DEF IInv, Remembered
  <2>4. twice' \subseteq twice \/ (\E g \in armed : TimerFires(g))
        \/ \E w \in Ticks : \E g \in tick[w].todo : FireNow(w, g)
    BY DEF Next, UserStep, Add, Delete, Disable, Enable, Edit, FileLost,
           Start, Stop, Exit, CatchUpStep, CatchUpDone, CatchUpFires, Begins,
           IntervalTick, TickStep, EndTick, PassOver, MarkMissed, ArmTimer,
           TurnDone, TimerTurnDone, Recorded, Advance, WatcherRefreshes,
           GarbageCollect, history
  <2> QED
    BY <2>2, <2>3, <2>4
<1> QED
  BY <1>1, Invariant, PTL DEF Spec, OncePerMinute

(* Only recurring tasks wait for a timer, and a one-shot fired by a tick of *)
(* the process that runs is in flight or not active any more.               *)
Flown ==
  /\ \A f \in armed : f.task \in Recurring
  /\ phase # "down" =>
       \A f \in Firings : f.task \in OneShots /\ <<f, "tick">> \in begun =>
         /\ row[f.task].status # "new"
         /\ \/ row[f.task].status # "active"
            \/ \E v \in Ticks : tick[v].pc = "firing" /\ tick[v].firing = f

(* Rows only leave the active ones, and no turn ends.                       *)
LEMMA FlownKept ==
  ASSUME IInv, Flown, armed' \subseteq armed, begun' \subseteq begun,
         phase' # "down" => phase # "down",
         \A t \in Tasks : /\ row'[t].status = "new" => row[t].status = "new"
                          /\ row'[t].status = "active"
                               => row[t].status = "active",
         \A v \in Ticks :
           tick[v].pc = "firing" => /\ tick'[v].pc = "firing"
                                    /\ tick'[v].firing = tick[v].firing
  PROVE  Flown'
BY TaskOf DEF Flown

LEMMA FlownUser ==
  ASSUME IInv, Flown, NEW t \in Tasks, UserStep(t) PROVE Flown'
<1>1. UNCHANGED <<armed, tick, phase>> /\ begun' \subseteq begun
  BY DEF UserStep, Add, Delete, Disable, Enable, Edit, history
<1>2. \A u \in Tasks : u # t => row'[u] = row[u]
  BY DEF UserStep, Add, Delete, Disable, Enable, Edit, IInv, Shapes
<1>3. \E v \in Row : row' = [row EXCEPT ![t] = v]
  BY CronAssumption, RowOf
     DEF UserStep, Add, Delete, Disable, Enable, Edit, IInv, Row, Statuses
<1>4. CASE Delete(t) \/ Disable(t)
  <2>1. row'[t].status \in {"gone", "cancelled"}
    BY <1>4 DEF Delete, Disable, Edit, IInv, Shapes, Row
  <2> QED
    BY <1>1, <1>2, <2>1, FlownKept
<1>5. CASE Add(t)
  <2>1. row[t].status = "new"
    BY <1>5 DEF Add
  <2>2. \A f \in Firings : phase # "down" /\ f.task \in OneShots
                           /\ <<f, "tick">> \in begun => f.task # t
    BY <2>1 DEF Flown
  <2> QED
    BY <1>1, <1>2, <2>2, TaskOf DEF Flown
<1>6. CASE Enable(t)
  <2>1. \A f \in Firings : <<f, "tick">> \in begun' =>
                             f.task # t /\ <<f, "tick">> \in begun
    BY <1>6 DEF Enable
  <2> QED
    BY <1>1, <1>2, <2>1, TaskOf DEF Flown
<1> QED
  BY <1>4, <1>5, <1>6 DEF UserStep

(* The end of a turn takes its row out of the active ones.                  *)
LEMMA FlownRecorded ==
  ASSUME IInv, Flown, NEW f \in Firings, Recorded(f),
         UNCHANGED <<armed, phase>>,
         \A v \in Ticks :
           tick[v].pc = "firing" /\ tick[v].firing # f =>
             tick'[v].pc = "firing" /\ tick'[v].firing = tick[v].firing
  PROVE  Flown'
<1>1. f.task \in Tasks /\ begun' = begun
  BY TaskOf DEF Recorded
<1>2. \A u \in Tasks : u # f.task => row'[u] = row[u]
  BY <1>1 DEF Recorded, UpdateRow, IInv, Shapes
<1>3. /\ row[f.task].status # "new" => row'[f.task].status # "new"
      /\ f.task \in OneShots => row'[f.task].status # "active"
  BY <1>1, RowOf, CronAssumption
     DEF Recorded, UpdateRow, Fired, Exists, IInv, Shapes, Row, Tasks
<1> QED
  BY <1>1, <1>2, <1>3, TaskOf DEF Flown

LEMMA FlownStep == ASSUME IInv, Flown, [Next]_vars PROVE Flown'
<1>1. ASSUME NEW t \in Tasks, UserStep(t) PROVE Flown'
  BY <1>1, FlownUser
<1>2. CASE Start
  BY <1>2 DEF Start, Flown
<1>3. CASE Exit
  BY <1>3 DEF Exit, Flown
<1>4. CASE FileLost \/ GarbageCollect
  BY <1>4, FlownKept DEF FileLost, GarbageCollect, Edited, Exists, history
<1>5. CASE Stop \/ Advance \/ WatcherRefreshes \/ UNCHANGED vars
  <2>1. /\ UNCHANGED <<row, tick, begun>> /\ armed' \subseteq armed
        /\ phase' # "down" => phase # "down"
    BY <1>5 DEF Stop, StopScheduler, Advance, WatcherRefreshes, vars,
                fileVars, history
  <2> QED
    BY <2>1, FlownKept
<1>6. ASSUME NEW w \in Ticks, TurnDone(w) PROVE Flown'
  <2>1. tick[w].firing \in Firings
    BY <1>6, TickOf DEF TurnDone, IInv, Placed, Awaiting
  <2>2. \A v \in Ticks :
          tick[v].pc = "firing" /\ tick[v].firing # tick[w].firing
          => tick'[v].pc = "firing" /\ tick'[v].firing = tick[v].firing
    BY <1>6 DEF TurnDone, IInv, Shapes
  <2> QED
    BY <1>6, <2>1, <2>2, FlownRecorded DEF TurnDone
<1>7. ASSUME NEW f \in flying, TimerTurnDone(f) PROVE Flown'
  <2>1. f \in Firings
    BY DEF IInv, Shapes
  <2> QED
    BY <1>7, <2>1, FlownRecorded DEF TimerTurnDone
<1>8. ASSUME NEW f \in armed, TimerFires(f) PROVE Flown'
  <2>1. f.task \in Recurring /\ f.task \notin OneShots
    BY CronAssumption DEF Flown
  <2>2. \A g \in Firings : g.task \in OneShots /\ <<g, "tick">> \in begun'
          => <<g, "tick">> \in begun
    BY <1>8, <2>1 DEF TimerFires, Begins, history
  <2> QED
    BY <1>8, <2>2 DEF TimerFires, Flown, fileVars
<1>9. CASE CatchUpStep
  <2>1. CASE CatchUpDone
    <3>1. /\ UNCHANGED <<row, begun>> /\ armed' \subseteq armed
          /\ phase' # "down" => phase # "down"
      BY <2>1 DEF CatchUpDone, OpenTick, StopScheduler, history
    <3>2. \A v \in Ticks : tick[v].pc = "firing" => tick'[v] = tick[v]
      BY <2>1, CronAssumption DEF CatchUpDone, OpenTick, IInv, Shapes
    <3> QED
      BY <3>1, <3>2, FlownKept
  <2>2. ASSUME NEW f \in tick[Boot].todo, CatchUpFires(f) PROVE Flown'
    <3>1. UNCHANGED <<row, armed, phase>>
      BY <2>2 DEF CatchUpFires, fileVars
    <3>2. \A v \in Ticks : tick[v].pc = "firing" => tick'[v] = tick[v]
      BY <2>2, CronAssumption DEF CatchUpFires, IInv, Shapes
    <3>3. \A g \in Firings :
            <<g, "tick">> \in begun' => <<g, "tick">> \in begun
      BY <2>2 DEF CatchUpFires, Begins
    <3> QED
      BY <3>1, <3>2, <3>3 DEF Flown
  <2> QED
    BY <1>9, <2>1, <2>2 DEF CatchUpStep
<1>10. ASSUME NEW w \in Ticks, IntervalTick(w) PROVE Flown'
  <2>1. /\ UNCHANGED <<row, begun>> /\ armed' \subseteq armed
        /\ phase' # "down" => phase # "down"
    BY <1>10 DEF IntervalTick, OpenTick, StopScheduler, history
  <2>2. \A v \in Ticks : tick[v].pc = "firing" => tick'[v] = tick[v]
    BY <1>10 DEF IntervalTick, OpenTick, IInv, Shapes
  <2> QED
    BY <2>1, <2>2, FlownKept
<1>11. ASSUME NEW w \in Ticks, TickStep(w) PROVE Flown'
  <2>1. CASE EndTick(w)
    <3>1. UNCHANGED <<row, begun, armed, phase>>
      BY <2>1 DEF EndTick, fileVars, history
    <3>2. \A v \in Ticks : tick[v].pc = "firing" => tick'[v] = tick[v]
      BY <2>1 DEF EndTick, IInv, Shapes
    <3> QED
      BY <3>1, <3>2, FlownKept
  <2>2. ASSUME NEW f \in tick[w].todo, PassOver(w, f) PROVE Flown'
    <3>1. UNCHANGED <<row, begun, armed, phase>>
      BY <2>2 DEF PassOver, fileVars, history
    <3>2. \A v \in Ticks : tick[v].pc = "firing" => tick'[v] = tick[v]
      BY <2>2 DEF PassOver, Looks, IInv, Shapes
    <3> QED
      BY <3>1, <3>2, FlownKept
  <2>3. ASSUME NEW f \in tick[w].todo, MarkMissed(w, f) PROVE Flown'
    <3>1. /\ UNCHANGED <<begun, armed, phase>> /\ f.task \in Tasks
      BY <2>3, TickOf, TaskOf DEF MarkMissed, history, IInv
    <3>2. \A v \in Ticks : tick[v].pc = "firing" => tick'[v] = tick[v]
      BY <2>3 DEF MarkMissed, Looks, IInv, Shapes
    <3>3. \/ row' = row
          \/ row' = [row EXCEPT
                       ![f.task] = [row[f.task] EXCEPT !.status = "missed"]]
      BY <2>3 DEF MarkMissed, UpdateRow
    <3>4. \A t \in Tasks : row'[t] = row[t] \/ row'[t].status = "missed"
      BY <3>1, <3>3 DEF IInv, Shapes, Row
    <3> QED
      BY <3>1, <3>2, <3>4, FlownKept
  <2>4. ASSUME NEW f \in tick[w].todo, ArmTimer(w, f) PROVE Flown'
    <3>1. /\ UNCHANGED <<row, begun, phase>> /\ armed' = armed \cup {f}
          /\ f.task \in Recurring
      BY <2>4 DEF ArmTimer, fileVars, history, IInv, Shapes
    <3>2. \A v \in Ticks : tick[v].pc = "firing" => tick'[v] = tick[v]
      BY <2>4 DEF ArmTimer, Looks, IInv, Shapes
    <3> QED
      BY <3>1, <3>2 DEF Flown
  <2>5. ASSUME NEW f \in tick[w].todo, FireNow(w, f) PROVE Flown'
    <3>1. UNCHANGED <<row, phase, armed>> /\ f \in Firings
      BY <2>5, TickOf DEF FireNow, fileVars, IInv
    <3>2. \A v \in Ticks : tick[v].pc = "firing" => tick'[v] = tick[v]
      BY <2>5 DEF FireNow, Looks, IInv, Shapes
    <3>3. CASE begun' = begun
      BY <3>1, <3>2, <3>3, FlownKept
    <3>4. CASE MayFire(f.task) /\ begun' = begun \cup {<<f, "tick">>}
               /\ tick'[w].pc = "firing" /\ tick'[w].firing = f
      <4>1. row[f.task].status = "active"
        BY <3>4 DEF MayFire, ActiveTasks
      <4> QED
        BY <3>1, <3>2, <3>4, <4>1 DEF Flown
    <3>5. \/ begun' = begun
          \/ /\ MayFire(f.task) /\ begun' = begun \cup {<<f, "tick">>}
             /\ tick'[w].pc = "firing" /\ tick'[w].firing = f
      BY <2>5 DEF FireNow, Begins, history, IInv, Shapes, Activation
    <3> QED
      BY <3>3, <3>4, <3>5
  <2> QED
    BY <1>11, <2>1, <2>2, <2>3, <2>4, <2>5 DEF TickStep
<1> QED
  BY <1>1, <1>2, <1>3, <1>4, <1>5, <1>6, <1>7, <1>8, <1>9, <1>10, <1>11
     DEF Next

(* A tick fires a one-shot anew only while a turn of it is in flight: at    *)
(* the end of that turn the row leaves the active ones in the same stretch  *)
(* of the event loop, and each firing reads the row again.                  *)
THEOREM OneShotsAreFiredOverOnlyInFlight == Spec => OneShotRefiresInFlight
<1>1. Init => Flown
  BY DEF Init, Flown
<1>2. IInv /\ Flown /\ [Next]_vars => Flown'
  BY FlownStep
<1>3. IInv /\ Flown /\ [Next]_vars =>
        [\A w \in Ticks :
           LET f == tick'[w].firing IN
           tick[w].pc = "loop" /\ tick'[w].pc = "firing" /\ f.task \in OneShots
             => /\ f \notin done
                /\ <<f, "tick">> \in begun
                     => \E v \in Ticks : tick[v].pc = "firing"
                                        /\ tick[v].firing = f]_vars
  <2> SUFFICES ASSUME IInv, Flown, Next, NEW w \in Ticks, NEW f,
                      f = tick'[w].firing, tick[w].pc = "loop",
                      tick'[w].pc = "firing", f.task \in OneShots
               PROVE  /\ f \notin done
                      /\ <<f, "tick">> \in begun
                           => \E v \in Ticks : tick[v].pc = "firing"
                                              /\ tick[v].firing = f
    OBVIOUS
  <2>1. \E g \in tick[w].todo : FireNow(w, g)
    <3>1. tick'[w] # tick[w] /\ tick \in [Ticks -> Activation]
      BY DEF IInv, Shapes
    <3>2. ~ (\E t \in Tasks : UserStep(t)) /\ ~ FileLost /\ ~ Start /\ ~ Stop
          /\ ~ Exit /\ ~ Advance /\ ~ WatcherRefreshes /\ ~ GarbageCollect
      BY <3>1, IdleIs, CronAssumption
         DEF UserStep, Add, Delete, Disable, Enable, Edit, FileLost, Start,
             Stop, Exit, Advance, WatcherRefreshes, GarbageCollect
    <3>3. /\ ~ \E g \in armed : TimerFires(g)
          /\ ~ \E g \in flying : TimerTurnDone(g)
      BY <3>1 DEF TimerFires, TimerTurnDone
    <3>4. ~ CatchUpStep
      BY <3>1, IdleIs, CronAssumption
         DEF CatchUpStep, CatchUpDone, CatchUpFires, OpenTick
    <3>5. PICK v \in Ticks : IntervalTick(v) \/ TickStep(v) \/ TurnDone(v)
      BY <3>2, <3>3, <3>4 DEF Next
    <3>6. ~ IntervalTick(v) /\ ~ TurnDone(v)
      BY <3>1, IdleIs DEF IntervalTick, OpenTick, TurnDone
    <3>7. ~ EndTick(v)
      BY <3>1, IdleIs DEF EndTick
    <3>8. PICK g \in tick[v].todo : \/ PassOver(v, g) \/ MarkMissed(v, g)
                                   \/ ArmTimer(v, g) \/ FireNow(v, g)
      BY <3>5, <3>6, <3>7 DEF TickStep
    <3>9. ~ PassOver(v, g) /\ ~ MarkMissed(v, g) /\ ~ ArmTimer(v, g)
      <4>1. tick' = [tick EXCEPT ![v].todo = @ \ {g}] => tick'[w].pc = "loop"
        BY <3>1
      <4> QED
        BY <4>1 DEF PassOver, MarkMissed, ArmTimer
    <3>10. FireNow(v, g)
      BY <3>8, <3>9
    <3>11. v = w
      BY <3>1, <3>10 DEF FireNow
    <3> QED
      BY <3>10, <3>11
  <2>2. PICK g \in tick[w].todo : FireNow(w, g)
    BY <2>1
  <2>3. f = g /\ MayFire(g.task) /\ g \in Firings
    BY <2>2, TickOf DEF FireNow, IInv, Shapes, Activation
  <2>4. row[f.task].status = "active" /\ phase # "down"
    BY <2>3 DEF MayFire, ActiveTasks
  <2> QED
    BY <2>3, <2>4 DEF IInv, Kept, Flown
<1> QED
  BY IInvInit, IInvStep, <1>1, <1>2, <1>3, PTL DEF Spec, OneShotRefiresInFlight

-----------------------------------------------------------------------------
(* Schedules in words *)

(* A set of naturals that is not empty has a least element.                 *)
LEMMA LeastNumber ==
  ASSUME NEW Q \in SUBSET Nat, Q # {}
  PROVE  \E m \in Q : \A q \in Q : m <= q
<1>1. PICK m \in Q : \A q \in Q : ~(<<q, m>> \in OpToRel(<, Nat))
  BY NatLessThanWellFounded, WFMin
<1>2. \A q \in Q : ~(q < m)
  BY <1>1 DEF OpToRel
<1> QED
  BY <1>2

(* It is what Min chooses.                                                  *)
LEMMA LeastIsMin ==
  ASSUME NEW Q \in SUBSET Nat, Q # {}
  PROVE  Min(Q) \in Q /\ \A q \in Q : Min(Q) <= q
<1>1. \E m \in Q : \A q \in Q : m <= q
  BY LeastNumber
<1> QED
  BY <1>1 DEF Min

(* The greatest element is what Max chooses.                                *)
LEMMA GreatestIsMax ==
  ASSUME NEW Q \in SUBSET Nat, NEW n \in Q, \A q \in Q : q <= n
  PROVE  Max(Q) = n
<1>1. Max(Q) \in Q /\ \A q \in Q : Max(Q) >= q
  BY DEF Max
<1>2. Max(Q) \in Nat /\ n \in Nat /\ Max(Q) >= n /\ Max(Q) <= n
  BY <1>1
<1> QED
  BY <1>2

(* The numbers of minutes that divide the hour, and of hours the day.       *)
HourParts == {1, 2, 3, 4, 5, 6, 10, 12, 15, 20, 30, 60}
DayParts == {1, 2, 3, 4, 6, 8, 12, 24}

(* What a schedule keeps when it stands for an interval of n minutes.       *)
Keeps(cron, n) ==
  /\ {t \in Minute : CronMatchesTime(cron, t)} = Multiples(n)
  /\ EstimatePeriod(cron) = n
  /\ MaxJitter(cron) < n * 60000

(* The jitter stays below the period, and below a minute.                   *)
LEMMA JitterIsShort ==
  ASSUME NEW cron, NEW n \in Nat \ {0}, EstimatePeriod(cron) = n
  PROVE  MaxJitter(cron) < n * 60000
<1> DEFINE low == Min({n * 6000, 59999})
<1>1. low \in Nat /\ low >= 1 /\ low <= 59999
  <2>1. {n * 6000, 59999} \in SUBSET Nat /\ {n * 6000, 59999} # {}
    OBVIOUS
  <2>2. low \in {n * 6000, 59999} /\ low <= 59999
    BY <2>1, LeastIsMin
  <2>3. n * 6000 \in Nat /\ n * 6000 >= 1
    OBVIOUS
  <2> HIDE DEF low
  <2>4. low \in Nat /\ low >= 1
    BY <2>2, <2>3
  <2> QED
    BY <2>2, <2>4
<1>2. Max({1, low}) = low
  <2> HIDE DEF low
  <2>1. {1, low} \in SUBSET Nat /\ \A q \in {1, low} : q <= low
    BY <1>1
  <2> QED
    BY <2>1, GreatestIsMax
<1>3. MaxJitter(cron) = low - 1
  BY <1>2 DEF MaxJitter
<1> HIDE DEF low
<1> QED
  BY <1>1, <1>3

(* So an expression that matches the multiples of its period keeps it.      *)
LEMMA PeriodIsKept ==
  ASSUME NEW cron, NEW n \in Nat \ {0}, EstimatePeriod(cron) = n,
         \A t \in Nat : CronMatchesTime(cron, t) <=> t % n = 0
  PROVE  Keeps(cron, n)
<1>1. Minute \subseteq Nat
  BY ScheduleAssumption DEF Minute
<1>2. {t \in Minute : CronMatchesTime(cron, t)} = Multiples(n)
  BY <1>1 DEF Multiples
<1> QED
  BY <1>2, JitterIsShort DEF Keeps

(* Every so many minutes, hours, or every day at midnight.                  *)
LEMMA MinutesAreKept ==
  ASSUME NEW n \in HourParts
  PROVE  Keeps(Cron(Step(n), Star, Star), n)
<1>1. ASSUME NEW t \in Nat
      PROVE  CronMatchesTime(Cron(Step(n), Star, Star), t) <=> t % n = 0
  <2>1. CronMatchesTime(Cron(Step(n), Star, Star), t)
          <=> n > 0 /\ (t % 60) % n = 0
    BY DEF CronMatchesTime, FieldMatches, Cron, Step, Star
  <2>2. n > 0 /\ ((t % 60) % n = 0 <=> t % n = 0)
    BY DEF HourParts
  <2> QED
    BY <2>1, <2>2
<1>2. EstimatePeriod(Cron(Step(n), Star, Star)) = n
  BY DEF EstimatePeriod, Cron, Step, Star
<1>3. n \in Nat \ {0}
  BY DEF HourParts
<1> QED
  BY <1>1, <1>2, <1>3, PeriodIsKept

LEMMA HoursAreKept ==
  ASSUME NEW n \in DayParts
  PROVE  Keeps(Cron(Exact(0), Step(n), Star), n * 60)
<1>1. ASSUME NEW t \in Nat
      PROVE  CronMatchesTime(Cron(Exact(0), Step(n), Star), t)
               <=> t % (n * 60) = 0
  <2>1. CronMatchesTime(Cron(Exact(0), Step(n), Star), t)
          <=> t % 60 = 0 /\ n > 0 /\ ((t \div 60) % 24) % n = 0
    BY DEF CronMatchesTime, FieldMatches, Cron, Step, Exact, Star
  <2>2. n > 0 /\ (t % 60 = 0 /\ ((t \div 60) % 24) % n = 0
                    <=> t % (n * 60) = 0)
    BY DEF DayParts
  <2> QED
    BY <2>1, <2>2
<1>2. EstimatePeriod(Cron(Exact(0), Step(n), Star)) = n * 60
  BY DEF EstimatePeriod, Cron, Step, Exact, Star
<1>3. n * 60 \in Nat \ {0}
  BY DEF DayParts
<1> QED
  BY <1>1, <1>2, <1>3, PeriodIsKept

LEMMA DaysAreKept == Keeps(Cron(Exact(0), Exact(0), Star), 1440)
<1>1. ASSUME NEW t \in Nat
      PROVE  CronMatchesTime(Cron(Exact(0), Exact(0), Star), t)
               <=> t % 1440 = 0
  <2>1. CronMatchesTime(Cron(Exact(0), Exact(0), Star), t)
          <=> t % 60 = 0 /\ (t \div 60) % 24 = 0
    BY DEF CronMatchesTime, FieldMatches, Cron, Exact, Star
  <2> QED
    BY <2>1
<1>2. EstimatePeriod(Cron(Exact(0), Exact(0), Star)) = 1440
  BY DEF EstimatePeriod, Cron, Exact, Star
<1> QED
  BY <1>1, <1>2, PeriodIsKept

(* The nearest of some numbers is one of them.                              *)
LEMMA NearestIsOne ==
  ASSUME NEW D \in SUBSET Nat, D # {}, NEW v \in Nat
  PROVE  Nearest(D, v) \in D
<1> DEFINE Dist == {Abs(d - v) : d \in D}
           Near == {d \in D : \A e \in D : Abs(d - v) <= Abs(e - v)}
<1>1. \A d \in D : Abs(d - v) \in Nat
  BY DEF Abs
<1>2. Dist \in SUBSET Nat /\ Dist # {}
  BY <1>1
<1>3. PICK m \in Dist : \A q \in Dist : m <= q
  <2> HIDE DEF Dist
  <2> QED
    BY <1>2, LeastNumber
<1>4. PICK d \in D : m = Abs(d - v)
  OBVIOUS
<1>5. d \in Near
  BY <1>3, <1>4
<1>6. Near # {} /\ Near \in SUBSET Nat
  BY <1>5
<1>7. Min(Near) \in Near
  <2> HIDE DEF Near
  <2> QED
    BY <1>6, LeastIsMin
<1> QED
  BY <1>7 DEF Nearest

(* The interval a result stands for: the one it notes, or the one asked for.*)
NotedOr(result, n) == IF result.noted > 0 THEN result.noted ELSE n

LEMMA MinuteCronKeeps ==
  ASSUME NEW mins \in 1..60
  PROVE  Keeps(MinuteCron(mins).cron, NotedOr(MinuteCron(mins), mins))
<1>1. CASE mins = 60
  <2>1. Round(mins, 60) = 1
    BY <1>1 DEF Round
  <2>2. Max({1, 1}) = 1
    BY GreatestIsMax
  <2>3. MinuteCron(mins) = Result(Cron(Exact(0), Step(1), Star), 0)
    BY <1>1, <2>1, <2>2 DEF MinuteCron
  <2> QED
    BY <1>1, <2>3, HoursAreKept DEF DayParts, Result, NotedOr
<1>2. CASE mins < 60 /\ 60 % mins = 0
  <2>1. MinuteCron(mins) = Result(Cron(Step(mins), Star, Star), 0)
    BY <1>2 DEF MinuteCron
  <2>2. mins \in HourParts
    BY <1>2 DEF HourParts
  <2> QED
    BY <2>1, <2>2, MinutesAreKept DEF Result, NotedOr
<1>3. CASE mins < 60 /\ 60 % mins # 0
  <2> DEFINE near == Nearest(HourParts, mins)
  <2>1. near \in HourParts
    <3>1. HourParts \in SUBSET Nat /\ HourParts # {}
      BY DEF HourParts
    <3> QED
      BY <3>1, NearestIsOne
  <2>2. MinuteCron(mins) = Result(Cron(Step(near), Star, Star), near)
    BY <1>3 DEF MinuteCron, HourParts
  <2> HIDE DEF near
  <2>3. near > 0
    BY <2>1 DEF HourParts
  <2> QED
    BY <2>1, <2>2, <2>3, MinutesAreKept DEF Result, NotedOr
<1> QED
  BY <1>1, <1>2, <1>3

LEMMA HourCronKeeps ==
  ASSUME NEW hours \in Nat \ {0}
  PROVE  Keeps(HourCron(hours).cron, NotedOr(HourCron(hours), hours * 60))
<1>1. CASE hours >= 24
  <2>1. HourCron(hours) = Result(Cron(Exact(0), Exact(0), Star), 1440)
    BY <1>1 DEF HourCron
  <2> QED
    BY <2>1, DaysAreKept DEF Result, NotedOr
<1>2. CASE hours < 24 /\ 24 % hours = 0
  <2>1. HourCron(hours) = Result(Cron(Exact(0), Step(hours), Star), 0)
    BY <1>2 DEF HourCron
  <2>2. hours \in DayParts
    BY <1>2 DEF DayParts
  <2> QED
    BY <2>1, <2>2, HoursAreKept DEF Result, NotedOr
<1>3. CASE hours < 24 /\ 24 % hours # 0
  <2> DEFINE near == Nearest(DayParts, hours)
  <2>1. near \in DayParts
    <3>1. DayParts \in SUBSET Nat /\ DayParts # {}
      BY DEF DayParts
    <3> QED
      BY <3>1, NearestIsOne
  <2>2. HourCron(hours) = Result(Cron(Exact(0), Step(near), Star), near * 60)
    BY <1>3 DEF HourCron, DayParts
  <2> HIDE DEF near
  <2>3. near * 60 > 0
    BY <2>1 DEF DayParts
  <2> QED
    BY <2>1, <2>2, <2>3, HoursAreKept DEF Result, NotedOr
<1> QED
  BY <1>1, <1>2, <1>3

LEMMA EveryHolds == ASSUME ScheduleTypeOK PROVE EveryIsAsNoted
<1> SUFFICES ASSUME Regular
             PROVE  Keeps(ParseEvery(request.value, request.unit).cron,
                          Interval(request.value, request.unit))
  BY DEF EveryIsAsNoted, Keeps
<1> DEFINE value == request.value
           unit == request.unit
<1>1. value \in Nat \ {0} /\ unit \in {"s", "m", "h", "d"}
  BY ScheduleAssumption DEF Regular, ScheduleTypeOK, Requests, NoRequest
<1>2. CASE unit = "s" /\ value < 60
  <2>1. ParseEvery(value, unit) = Result(Cron(Step(1), Star, Star), 1)
    BY <1>2 DEF ParseEvery
  <2> QED
    BY <2>1, MinutesAreKept DEF HourParts, Result, Interval
<1>3. CASE unit = "s" /\ value >= 60
  <2>1. value < 3600
    BY <1>3 DEF Regular
  <2>2. Round(value, 60) \in 1..60
    BY <1>1, <1>3, <2>1 DEF Round
  <2>3. ParseEvery(value, unit) = MinuteCron(Round(value, 60))
    BY <1>1, <1>3 DEF ParseEvery
  <2>4. Interval(value, unit)
          = NotedOr(MinuteCron(Round(value, 60)), Round(value, 60))
    BY <1>3, <2>3 DEF Interval, NotedOr
  <2> QED
    BY <2>2, <2>3, <2>4, MinuteCronKeeps
<1>4. CASE unit = "m"
  <2>1. value \in 1..60
    BY <1>1, <1>4 DEF Regular
  <2>2. ParseEvery(value, unit) = MinuteCron(value)
    BY <1>4 DEF ParseEvery
  <2>3. Interval(value, unit) = NotedOr(MinuteCron(value), value)
    BY <1>1, <1>4, <2>2 DEF Interval, NotedOr, UnitMinutes
  <2> QED
    BY <2>1, <2>2, <2>3, MinuteCronKeeps
<1>5. CASE unit = "h"
  <2>1. ParseEvery(value, unit) = HourCron(value)
    BY <1>5 DEF ParseEvery
  <2>2. Interval(value, unit) = NotedOr(HourCron(value), value * 60)
    BY <1>1, <1>5, <2>1 DEF Interval, NotedOr, UnitMinutes
  <2> QED
    BY <1>1, <2>1, <2>2, HourCronKeeps
<1>6. CASE unit = "d"
  <2>1. value = 1
    BY <1>1, <1>6 DEF Regular
  <2>2. ParseEvery(value, unit) = Result(Cron(Exact(0), Exact(0), Star), 0)
    BY <1>6, <2>1 DEF ParseEvery, DayCron
  <2>3. Interval(value, unit) = 1440
    BY <1>6, <2>1, <2>2 DEF Interval, Result, UnitMinutes
  <2> QED
    BY <2>2, <2>3, DaysAreKept DEF Result
<1> QED
  BY <1>1, <1>2, <1>3, <1>4, <1>5, <1>6

(* The expression of a date matches that minute and no other.               *)
LEMMA DateMatchesOnce ==
  ASSUME NEW t \in Minute
  PROVE  {u \in Minute : CronMatchesTime(DateToCron(t), u)} = {t}
<1>1. Minute \subseteq Nat
  BY ScheduleAssumption DEF Minute
<1>2. ASSUME NEW u \in Minute
      PROVE  CronMatchesTime(DateToCron(t), u)
               <=> /\ u % 60 = t % 60
                   /\ (u \div 60) % 24 = (t \div 60) % 24
                   /\ u \div 1440 = t \div 1440
  <2>1. CronMatchesTime(DateToCron(t), u)
          <=> /\ u % 60 = t % 60
              /\ (u \div 60) % 24 = (t \div 60) % 24
              /\ 1 + u \div 1440 = 1 + t \div 1440
    BY DEF CronMatchesTime, FieldMatches, DateToCron, Cron, Exact
  <2> QED
    BY <1>1, <2>1
<1>3. ASSUME NEW u \in Minute, u % 60 = t % 60,
             (u \div 60) % 24 = (t \div 60) % 24, u \div 1440 = t \div 1440
      PROVE  u = t
  BY <1>1, <1>3
<1> QED
  BY <1>2, <1>3

(* Times of day and minutes past the hour.                                  *)
LEMMA ClockBounds ==
  /\ \A c \in Clock : c \in Nat /\ c < 1440
  /\ \A m \in Past : m \in Nat
  /\ \A n \in 0..MaxValue : n \in Nat
BY ScheduleAssumption

(* Today or tomorrow, the clock shows what was asked for next at that time. *)
Shows(t, hour, past, half, asked) ==
  /\ t \in Minute /\ t \in (asked + 1)..(asked + 1440)
  /\ t % 60 = past
  /\ (t \div 60) % 12 = hour % 12
  /\ ((t \div 60) % 24 >= 12) <=> half = "pm"

LEMMA AtIsNext ==
  ASSUME NEW hour \in 1..12, NEW past \in Nat, past < 60,
         NEW half \in {"am", "pm"}, NEW asked \in Nat, asked < 1440,
         NEW t \in ParseAt(hour, past, half, asked)
  PROVE  Shows(t, hour, past, half, asked)
<1> DEFINE h24 == Hour24(hour, half)
<1>1. h24 \in 0..23 /\ h24 % 12 = hour % 12
  BY DEF Hour24
<1>2. h24 >= 12 <=> half = "pm"
  BY DEF Hour24
<1>3. t = h24 * 60 + past \/ t = h24 * 60 + past + 1440
  BY DEF ParseAt
<1>4. IF h24 * 60 + past <= asked THEN t = h24 * 60 + past + 1440
      ELSE t = h24 * 60 + past
  BY DEF ParseAt
<1> HIDE DEF h24
<1>5. t \in Minute
  BY <1>1, <1>3, ScheduleAssumption DEF Minute
<1>6. t \in Nat /\ t % 60 = past /\ t \div 60 \in {h24, h24 + 24}
  BY <1>1, <1>3
<1>7. (t \div 60) % 12 = h24 % 12 /\ (t \div 60) % 24 = h24
  BY <1>1, <1>6
<1>8. t > asked /\ t <= asked + 1440
  BY <1>1, <1>4
<1> QED
  BY <1>1, <1>2, <1>5, <1>6, <1>7, <1>8 DEF Shows

LEMMA OneShotHolds == ASSUME ScheduleTypeOK PROVE OneShotIsNext
<1>1. ASSUME request.kind = "at",
             NEW t \in ParseAt(request.hour, request.minute,
                              request.half, request.now)
      PROVE  /\ t \in (request.now + 1)..(request.now + 1440)
             /\ t % 60 = request.minute
             /\ ((t \div 60) % 12) = request.hour % 12
             /\ ((t \div 60) % 24 >= 12) <=> request.half = "pm"
             /\ {u \in Minute : CronMatchesTime(DateToCron(t), u)} = {t}
  <2>1. request \in [kind : {"at"}, hour : 0..13, minute : Past,
                     half : {"am", "pm"}, now : Clock]
    BY <1>1 DEF ScheduleTypeOK, Requests, NoRequest
  <2>2. PICK hour \in 0..13, past \in Past, half \in {"am", "pm"},
             asked \in Clock :
          /\ request.hour = hour /\ request.minute = past
          /\ request.half = half /\ request.now = asked
    BY <2>1
  <2>3. t \in ParseAt(hour, past, half, asked)
    BY <2>2
  <2>4. past \in Nat /\ asked \in Nat /\ asked < 1440
    BY ClockBounds
  <2>5. hour \in 1..12 /\ past < 60
    BY <2>3, <2>4 DEF ParseAt
  <2>6. Shows(t, hour, past, half, asked)
    BY <2>3, <2>4, <2>5, AtIsNext
  <2>7. {u \in Minute : CronMatchesTime(DateToCron(t), u)} = {t}
    BY <2>6, DateMatchesOnce DEF Shows
  <2> QED
    BY <2>2, <2>6, <2>7 DEF Shows
<1>2. ASSUME request.kind = "in", request.value < 24 * Days - 24
      PROVE  LET t == ParseIn(request.value, request.unit, request.now)
             IN {u \in Minute : CronMatchesTime(DateToCron(t), u)} = {t}
  <2>1. request \in [kind : {"in"}, value : 0..MaxValue, unit : {"m", "h"},
                     now : Clock]
    BY <1>2 DEF ScheduleTypeOK, Requests, NoRequest
  <2>2. PICK value \in 0..MaxValue, unit \in {"m", "h"}, asked \in Clock :
          /\ request.value = value /\ request.unit = unit
          /\ request.now = asked
    BY <2>1
  <2>3. value \in Nat /\ asked \in Nat /\ asked < 1440
    BY ClockBounds
  <2>4. value < 24 * Days - 24
    BY <1>2, <2>2
  <2>5. ParseIn(value, unit, asked) \in Minute
    BY <2>3, <2>4, ScheduleAssumption DEF ParseIn, Minute
  <2> QED
    BY <2>2, <2>5, DateMatchesOnce
<1> QED
  BY <1>1, <1>2 DEF OneShotIsNext

(* A request is one of those that clients can make.                         *)
LEMMA ScheduleTyping == ScheduleSpec => []ScheduleTypeOK
<1>1. ScheduleInit => ScheduleTypeOK
  BY DEF ScheduleInit, ScheduleTypeOK
<1>2. ScheduleTypeOK /\ [ScheduleNext]_request => ScheduleTypeOK'
  BY DEF ScheduleTypeOK, ScheduleNext, AskSchedule, Answered
<1> QED
  BY <1>1, <1>2, PTL DEF ScheduleSpec

(* For every request, whatever the time of day and the numbers in it: a     *)
(* regular interval matches the multiples of itself, or of the one the note *)
(* says it was rounded to, and its jitter never reaches the next match; a   *)
(* one-shot matches the one minute it names.                              *)
THEOREM WordsAreKept == ScheduleSpec => []SchedulesAreAsNoted
<1>1. ScheduleTypeOK => SchedulesAreAsNoted
  BY EveryHolds, OneShotHolds DEF SchedulesAreAsNoted
<1> QED
  BY <1>1, ScheduleTyping, PTL

=============================================================================
