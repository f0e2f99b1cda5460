--------------------------- MODULE ServicesProofs ---------------------------
(***************************************************************************)
(* Theorems about six components beside the turns, which share no state:   *)
(* the lock and the lease of CronLock, for any number of processes, calls  *)
(* and deaths; the loops of GoalContinuation, for any conversations,       *)
(* budgets and caps, with commands that overlap and write the settings     *)
(* back stale; what a request for the list of ConversationList is shown,   *)
(* for any number of requests that overlap and of writes; the derived      *)
(* index of SearchIndex, for any sources, writes and failures; who wrote   *)
(* what in RunLedger, for any turns and any retention; and the verdicts of *)
(* ToolPermissions, for any tools, rules and edits.                        *)
(***************************************************************************)
EXTENDS CronLock, GoalContinuation, ConversationList, SearchIndex, RunLedger,
        ToolPermissions, FiniteSetTheorems, WellFoundedInduction, TLAPS

-----------------------------------------------------------------------------
(* The lock of crons.json *)

Dirs == [by : Proc \cup {NoProc}, n : Nat, owner : BOOLEAN, old : BOOLEAN]
Files == [lease : Proc \cup {NoProc}, edits : Nat]

LockShapes ==
  /\ dead \subseteq Proc /\ running \subseteq Proc
  /\ dir \in Dirs /\ crons \in Files
  /\ pc \in [Proc -> Steps]
  /\ op \in [Proc -> {"none", "claim", "edit", "release"}]
  /\ ops \in [Proc -> Nat]
  /\ judged \in [Proc -> Dirs] /\ copy \in [Proc -> Files]
  /\ done \in Nat /\ blind \in BOOLEAN
  /\ \A p \in Proc : pc[p] # "out" => op[p] # "none"

(* Between making the directory and removing it.                            *)
Inside == {"own", "read", "write", "compare", "remove"}

(* Who is inside made the directory there is, and has named itself before   *)
(* it looks at the file.                                                    *)
Owned ==
  \A p \in Live : pc[p] \in Inside =>
    /\ dir.by = p /\ dir.n = ops[p]
    /\ pc[p] \in {"read", "write", "compare"} => dir.owner

(* Only the lock of a dead process is found stale.                          *)
Aged ==
  /\ dir.old => dir.by \in dead
  /\ \A p \in Live : pc[p] = "steal" =>
       judged[p] = NoDir \/ judged[p].by \in dead

(* What was read under the lock still is what the file says.                *)
Copied ==
  \A p \in Live :
    /\ pc[p] = "write" =>
         /\ copy[p] = crons
         /\ op[p] = "claim" => Claimable(crons.lease)
         /\ op[p] = "release" => crons.lease = p
    /\ op[p] = "release" => p \notin running

(* A scheduler runs under the lease its process has in the file.            *)
Leased == \A p \in running : p \in Live /\ crons.lease = p

Sound == Owned /\ Aged /\ Copied /\ Leased /\ crons.edits = done

LockInv == LockShapes /\ (~blind => Sound)

-----------------------------------------------------------------------------

LEMMA ShapesStep == ASSUME LockShapes, [LockNext]_lockVars PROVE LockShapes'
<1> USE DEF LockShapes, At, Proceeds, Alive
<1>1. NoDir \in Dirs /\ NoCrons \in Files
  BY DEF NoDir, NoCrons, Dirs, Files
<1>2. ASSUME NEW p \in Proc, Leaves(p)
      PROVE  /\ pc' \in [Proc -> Steps]
             /\ op' \in [Proc -> {"none", "claim", "edit", "release"}]
             /\ judged' \in [Proc -> Dirs] /\ copy' \in [Proc -> Files]
             /\ \A q \in Proc : pc'[q] # "out" => op'[q] # "none"
  BY <1>1, <1>2 DEF Leaves, Steps
<1>3. ASSUME NEW p \in Proc, NEW what \in {"claim", "edit", "release"},
             Want(p, what)
      PROVE  LockShapes'
  BY <1>3 DEF Want, Steps
<1>4. ASSUME NEW p \in Proc, Mkdir(p) PROVE LockShapes'
  <2>1. [NoDir EXCEPT !.by = p, !.n = ops[p]] \in Dirs
    BY DEF NoDir, Dirs
  <2> QED
    BY <1>4, <2>1 DEF Mkdir, Steps
<1>5. ASSUME NEW p \in Proc, WriteOwner(p) PROVE LockShapes'
  BY <1>2, <1>5 DEF WriteOwner, Steps, Dirs
<1>6. ASSUME NEW p \in Proc, Check(p) \/ Stat(p) PROVE LockShapes'
  BY <1>6 DEF Check, Stat, Steps
<1>7. ASSUME NEW p \in Proc, Steal(p) PROVE LockShapes'
  BY <1>1, <1>7 DEF Steal, Steps
<1>8. ASSUME NEW p \in Proc, StopWaiting(p) PROVE LockShapes'
  BY <1>2, <1>8 DEF StopWaiting
<1>9. ASSUME NEW p \in Proc, Read(p) PROVE LockShapes'
  BY <1>9 DEF Read, Steps
<1>10. ASSUME NEW p \in Proc, Write(p) PROVE LockShapes'
  <2>1. copy[p] \in Files /\ op[p] \in {"claim", "edit", "release"}
    BY <1>10 DEF Write
  <2>2. crons' \in Files
    BY <1>10, <2>1 DEF Write, Files
  <2> QED
    BY <1>10, <2>1, <2>2 DEF Write, Steps
<1>11. ASSUME NEW p \in Proc, Compare(p) PROVE LockShapes'
  BY <1>2, <1>11 DEF Compare, Steps
<1>12. ASSUME NEW p \in Proc, RemoveDir(p) PROVE LockShapes'
  BY <1>1, <1>2, <1>12 DEF RemoveDir, Dirs
<1>13. ASSUME NEW p \in Proc, Die(p) PROVE LockShapes'
  BY <1>2, <1>13 DEF Die
<1>14. ASSUME Age PROVE LockShapes'
  BY <1>14 DEF Age, Dirs
<1>15. ASSUME UNCHANGED lockVars PROVE LockShapes'
  BY <1>15 DEF lockVars
<1> QED
  BY <1>3, <1>4, <1>5, <1>6, <1>7, <1>8, <1>9, <1>10, <1>11, <1>12, <1>13,
     <1>14, <1>15 DEF LockNext

LEMMA SoundStep ==
  ASSUME LockShapes, Sound, [LockNext]_lockVars, ~blind'
  PROVE  Sound'
<1>a. /\ NoDir.by = NoProc /\ ~NoDir.owner /\ ~NoDir.old
      /\ \A p \in Proc : /\ [NoDir EXCEPT !.by = p, !.n = ops[p]].by = p
                         /\ [NoDir EXCEPT !.by = p, !.n = ops[p]].n = ops[p]
                         /\ ~[NoDir EXCEPT !.by = p, !.n = ops[p]].owner
                         /\ ~[NoDir EXCEPT !.by = p, !.n = ops[p]].old
  BY DEF NoDir
<1>b. /\ pc \in [Proc -> Steps] /\ ops \in [Proc -> Nat]
      /\ op \in [Proc -> {"none", "claim", "edit", "release"}]
      /\ judged \in [Proc -> Dirs] /\ copy \in [Proc -> Files]
      /\ dead \subseteq Proc /\ running \subseteq Proc
  BY DEF LockShapes
<1> USE <1>a, <1>b DEF Sound, Owned, Aged, Copied, Leased, Live, At, Proceeds,
        Alive, Inside, Claimable
<1>1. ASSUME NEW p \in Proc, NEW what \in {"claim", "edit", "release"},
             Want(p, what) PROVE Sound'
  BY <1>1 DEF Want, Leaves
<1>2. ASSUME NEW p \in Proc, Mkdir(p) PROVE Sound'
  <2>1. CASE dir = NoDir
    <3>1. \A q \in Live : pc[q] \notin Inside
      BY <2>1, LockAssumption
    <3> DEFINE new == [NoDir EXCEPT !.by = p, !.n = ops[p]]
    <3>2. new.by = p /\ new.n = ops[p] /\ ~new.old
      OBVIOUS
    <3> HIDE DEF new
    <3>3. dir' = new /\ pc' = [pc EXCEPT ![p] = "own"]
      BY <1>2, <2>1 DEF Mkdir, new
    <3> QED
      BY <1>2, <3>1, <3>2, <3>3 DEF Mkdir
  <2>2. CASE dir # NoDir
    BY <1>2, <2>2 DEF Mkdir
  <2> QED
    BY <2>1, <2>2
<1>3. ASSUME NEW p \in Proc, WriteOwner(p) PROVE Sound'
  <2> DEFINE new == [dir EXCEPT !.by = p, !.n = ops[p], !.owner = TRUE]
  <2>1. dir.by = p /\ dir # NoDir
    BY <1>3, LockAssumption DEF WriteOwner
  <2>2. new.by = p /\ new.n = ops[p] /\ new.owner /\ new.old = dir.old
    BY DEF LockShapes, Dirs
  <2> HIDE DEF new
  <2>3. dir' = new /\ pc' = [pc EXCEPT ![p] = "read"]
    BY <1>3, <2>1 DEF WriteOwner, new
  <2>4. \A q \in Live : q # p => pc[q] \notin Inside
    BY <2>1
  <2>5. op' = op /\ judged' = judged /\ copy' = copy
    BY <1>3, <2>1 DEF WriteOwner
  <2> QED
    BY <1>3, <2>1, <2>2, <2>3, <2>4, <2>5 DEF WriteOwner
<1>4. ASSUME NEW p \in Proc, Check(p) PROVE Sound'
  BY <1>4 DEF Check, Stale
<1>5. ASSUME NEW p \in Proc, Stat(p) PROVE Sound'
  BY <1>5 DEF Stat, Abandoned
<1>6. ASSUME NEW p \in Proc, Steal(p) PROVE Sound'
  <2>1. dir = NoDir \/ dir = judged[p]
    BY <1>6 DEF Steal
  <2>2. \A q \in Live : pc[q] \notin Inside
    BY <1>6, <2>1, LockAssumption DEF Steal
  <2> QED
    BY <1>6, <2>2 DEF Steal
<1>7. ASSUME NEW p \in Proc, StopWaiting(p) PROVE Sound'
  BY <1>7 DEF StopWaiting, Leaves
<1>8. ASSUME NEW p \in Proc, Read(p) PROVE Sound'
  BY <1>8 DEF Read
<1>9. ASSUME NEW p \in Proc, Write(p) PROVE Sound'
  <2>1. /\ op[p] \in {"claim", "edit", "release"}
        /\ copy[p] = crons /\ crons \in Files /\ done = crons.edits
    BY <1>9 DEF Write, LockShapes
  <2>2. \A q \in Live : q # p => pc[q] \notin Inside
    BY <1>9 DEF Write
  <2>3. Owned' /\ Aged'
    BY <1>9 DEF Write
  <2>4. \/ /\ op[p] = "claim" /\ crons'.lease = p /\ crons'.edits = crons.edits
           /\ running' = running \cup {p} /\ done' = done
        \/ /\ op[p] = "edit" /\ crons'.lease = crons.lease
           /\ running' = running
           /\ crons'.edits = crons.edits + 1 /\ done' = done + 1
        \/ /\ op[p] = "release" /\ crons'.lease = NoProc /\ running' = running
           /\ crons'.edits = crons.edits /\ done' = done
    BY <1>9, <2>1 DEF Write, Files
  <2>5. crons'.edits = done'
    BY <2>1, <2>4
  <2>6. Leased'
    <3>1. p \in Live' /\ dead' = dead
      BY <1>9 DEF Write
    <3>2. op[p] = "claim" => crons.lease = NoProc \/ crons.lease \in dead
      BY <1>9, <2>1 DEF Write
    <3>3. op[p] = "claim" => running = {}
      BY <3>2, LockAssumption
    <3>4. op[p] = "release" => crons.lease = p /\ p \notin running
      BY <1>9 DEF Write
    <3> QED
      BY <2>4, <3>1, <3>3, <3>4
  <2>7. Copied'
    BY <1>9, <2>1, <2>2, <2>4 DEF Write
  <2> QED
    BY <2>3, <2>5, <2>6, <2>7
<1>10. ASSUME NEW p \in Proc, Compare(p) PROVE Sound'
  BY <1>10 DEF Compare, Leaves
<1>11. ASSUME NEW p \in Proc, RemoveDir(p) PROVE Sound'
  <2>1. dir.by = p /\ \A q \in Live : q # p => pc[q] \notin Inside
    BY <1>11 DEF RemoveDir
  <2>2. CASE dir.owner
    <3> DEFINE new == [dir EXCEPT !.owner = FALSE]
    <3>1. new.by = dir.by /\ new.n = dir.n /\ new.old = dir.old
      BY DEF LockShapes, Dirs
    <3> HIDE DEF new
    <3>2. dir' = new /\ UNCHANGED <<pc, op, judged, copy>>
      BY <1>11, <2>2 DEF RemoveDir, new
    <3> QED
      BY <1>11, <2>1, <3>1, <3>2 DEF RemoveDir
  <2>3. CASE ~dir.owner
    BY <1>11, <2>1, <2>3 DEF RemoveDir, Leaves
  <2> QED
    BY <2>2, <2>3
<1>12. ASSUME NEW p \in Proc, Die(p) PROVE Sound'
  BY <1>12 DEF Die, Leaves
<1>13. ASSUME Age PROVE Sound'
  BY <1>13 DEF Age
<1>14. ASSUME UNCHANGED lockVars PROVE Sound'
  BY <1>14 DEF lockVars
<1> QED
  BY <1>1, <1>2, <1>3, <1>4, <1>5, <1>6, <1>7, <1>8, <1>9, <1>10, <1>11,
     <1>12, <1>13, <1>14 DEF LockNext

LEMMA LockInvInit == LockInit => LockInv
<1> SUFFICES ASSUME LockInit PROVE LockInv
  OBVIOUS
<1>1. NoDir \in Dirs /\ ~NoDir.old /\ NoCrons \in Files /\ NoCrons.edits = 0
  BY DEF NoDir, NoCrons, Dirs, Files
<1>2. LockShapes
  BY <1>1 DEF LockInit, LockShapes, Steps
<1>3. Sound
  BY <1>1 DEF LockInit, Sound, Owned, Aged, Copied, Leased,
         Inside, Live
<1> QED
  BY <1>2, <1>3 DEF LockInv

LEMMA BlindStays ==
  ASSUME LockShapes, [LockNext]_lockVars, ~blind' PROVE ~blind
BY DEF LockShapes, LockNext, Want, Mkdir, WriteOwner, Check, Stat, Steal,
       StopWaiting, Read, Write, Compare, RemoveDir, Die, Age, lockVars

LEMMA LockInvStep == LockInv /\ [LockNext]_lockVars => LockInv'
BY LockAssumption, ShapesStep, SoundStep, BlindStays DEF LockInv

(* A set has at most one element if any two of it are the same.             *)
LEMMA AtMostOne ==
  ASSUME NEW S, \A x, y \in S : x = y
  PROVE  Cardinality(S) <= 1
<1>1. CASE S = {}
  BY <1>1, FS_EmptySet
<1>2. CASE S # {}
  <2>1. PICK x \in S : S = {x}
    BY <1>2
  <2> QED
    BY <2>1, FS_Singleton
<1> QED
  BY <1>1, <1>2

(* The mkdir lock and the lease of crons.ts: the owner's name in the        *)
(* directory, the second look at it before it is removed and the test that  *)
(* its owner has died keep the others out, through deaths at any point; all *)
(* that can go wrong is a steal that removes another lock than the one it   *)
(* found stale.                                                             *)
THEOREM LeaseIsUnique == LockSpec => []OneScheduler
<1>1. LockInv => OneScheduler
  <2> SUFFICES ASSUME LockInv, ~blind
               PROVE  /\ Cardinality(Holders) <= 1
                      /\ Cardinality(running) <= 1
                      /\ crons.edits = done
    BY DEF OneScheduler
  <2>1. \A p, q \in Holders : p = q
    BY DEF LockInv, Sound, Owned, Holders, Inside
  <2>2. \A p, q \in running : p = q
    BY DEF LockInv, Sound, Leased
  <2> QED
    BY <2>1, <2>2, AtMostOne DEF LockInv, Sound
<1>2. LockInv /\ [LockNext]_lockVars => LockInv'
  BY LockInvStep
<1> QED
  BY LockInvInit, <1>1, <1>2, PTL DEF LockSpec

-----------------------------------------------------------------------------
(* The goal loops *)

GoalShapes ==
  /\ settings \in [GoalConv -> Goals]
  /\ \A c \in commands : /\ c.conv \in GoalConv /\ c.act \in Acts
                         /\ c.read \in [GoalConv -> Goals]
  /\ kicks \subseteq GoalConv /\ active \subseteq GoalConv
  /\ loops \in [Loop -> [conv : GoalConv \cup {NoLoop}, iter : Nat,
                         pc : {"off", "sending", "running"}]]
  /\ current \in [GoalConv -> Loop \cup {NoLoop}]
  /\ late \in [GoalConv -> Nat]

(* A loop that is on has its conversation to itself, and a run that a stop  *)
(* can find while it is in a turn.                                          *)
OneEach ==
  \A l \in Loop : loops[l].pc # "off" =>
    /\ loops[l].conv \in active
    /\ loops[l].pc = "running" => current[loops[l].conv] = l
    /\ \A m \in Loop : loops[m].pc # "off" /\ loops[m].conv = loops[l].conv
                         => m = l

(* Only the idle record is off.                                             *)
OffOrOn == \A l \in Loop : loops[l].pc = "off" <=> loops[l] = Off

(* As long as a goal is to be driven no run is late, and a turn is sent     *)
(* only if none has been late before it.                                    *)
Timely ==
  /\ \A k \in GoalConv : late[k] <= 1 /\ (Driven(settings[k]) => late[k] = 0)
  /\ \A l \in Loop : loops[l].pc = "sending" => late[loops[l].conv] = 0

GoalInv == GoalShapes /\ OffOrOn /\ OneEach /\ Timely

-----------------------------------------------------------------------------

LEMMA OffShape ==
  /\ Off.conv = NoLoop /\ Off.pc = "off"
  /\ Off \in [conv : GoalConv \cup {NoLoop}, iter : Nat,
              pc : {"off", "sending", "running"}]
BY DEF Off

LEMMA SetFields ==
  ASSUME NEW C, NEW P, NEW j \in Nat, NEW r \in [conv : C, iter : Nat, pc : P]
  PROVE  [r EXCEPT !.iter = j, !.pc = "sending"]
           \in [conv : C, iter : Nat, pc : P \cup {"sending"}]
OBVIOUS

(* The record of a loop that sends its next turn.                           *)
LEMMA NextTurn ==
  ASSUME NEW r \in [conv : GoalConv \cup {NoLoop}, iter : Nat,
                    pc : {"off", "sending", "running"}],
         NEW x, x = [r EXCEPT !.iter = @ + 1, !.pc = "sending"]
  PROVE  /\ x \in [conv : GoalConv \cup {NoLoop}, iter : Nat,
                   pc : {"off", "sending", "running"}]
         /\ x.conv = r.conv /\ x.pc = "sending"
<1>1. PICK j \in Nat : j = r.iter + 1
  OBVIOUS
<1>2. x = [r EXCEPT !.iter = j, !.pc = "sending"]
  BY <1>1
<1>3. {"off", "sending", "running"} \cup {"sending"}
        = {"off", "sending", "running"}
  OBVIOUS
<1>4. x \in [conv : GoalConv \cup {NoLoop}, iter : Nat,
             pc : {"off", "sending", "running"} \cup {"sending"}]
  BY ONLY <1>2, SetFields
<1>5. x.conv = r.conv /\ x.pc = "sending"
  OBVIOUS
<1> QED
  BY <1>3, <1>4, <1>5

LEMMA ChangedShape ==
  ASSUME NEW g \in Goals, NEW act \in Acts PROVE Changed(g, act) \in Goals
BY DEF Goals, Acts, Changed, GoalStatuses, NoGoal

(* Whoever rewrites the settings forgives the goals that are to be driven.  *)
LEMMA SettledIsTimely ==
  ASSUME GoalInv, settings' \in [GoalConv -> Goals], Settled(settings'),
         loops' = loops
  PROVE  late' \in [GoalConv -> Nat] /\ Timely'
BY DEF GoalInv, GoalShapes, OneEach, Settled, Timely

(* A loop goes off, and with it its place and its run.                      *)
LEMMA LoopGoesOff ==
  ASSUME GoalInv, NEW l \in Loop, loops[l].pc # "off",
         LoopOver(l),
         current' = [current EXCEPT ![loops[l].conv] = NoLoop]
  PROVE  /\ loops' \in [Loop -> [conv : GoalConv \cup {NoLoop}, iter : Nat,
                                 pc : {"off", "sending", "running"}]]
         /\ current' \in [GoalConv -> Loop \cup {NoLoop}]
         /\ active' \subseteq GoalConv
         /\ OffOrOn' /\ OneEach'
         /\ \A m \in Loop : loops'[m].pc = "sending" => loops'[m] = loops[m]
<1>1. /\ loops' = [loops EXCEPT ![l] = Off]
      /\ active' = active \ {loops[l].conv}
      /\ loops[l].conv \in GoalConv
  BY DEF LoopOver, GoalInv, OneEach, GoalShapes
<1>2. \A m \in Loop : loops'[m] = IF m = l THEN Off ELSE loops[m]
  BY <1>1 DEF GoalInv, GoalShapes
<1>3. \A m \in Loop : m # l /\ loops[m].pc # "off"
                        => loops[m].conv # loops[l].conv
  BY DEF GoalInv, OneEach
<1>4. OneEach'
  <2> SUFFICES ASSUME NEW m \in Loop, loops'[m].pc # "off"
               PROVE  /\ loops'[m].conv \in active'
                      /\ loops'[m].pc = "running"
                           => current'[loops'[m].conv] = m
                      /\ \A n \in Loop :
                           loops'[n].pc # "off"
                             /\ loops'[n].conv = loops'[m].conv => n = m
    BY DEF OneEach
  <2>1. m # l /\ loops'[m] = loops[m] /\ loops[m].pc # "off"
    BY <1>2, OffShape
  <2>2. /\ loops[m].conv \in active
        /\ loops[m].pc = "running" => current[loops[m].conv] = m
        /\ \A n \in Loop : loops[n].pc # "off"
             /\ loops[n].conv = loops[m].conv => n = m
    BY <2>1 DEF GoalInv, OneEach
  <2>3. loops[m].conv \in GoalConv /\ loops[m].conv # loops[l].conv
    BY <1>3, <2>1, <2>2 DEF GoalInv, GoalShapes
  <2>4. current'[loops[m].conv] = current[loops[m].conv]
    BY <1>1, <2>3 DEF GoalInv, GoalShapes
  <2> QED
    BY <1>1, <1>2, <2>1, <2>2, <2>3, <2>4, OffShape
<1> QED
  BY <1>1, <1>2, <1>4, OffShape DEF GoalInv, GoalShapes, OffOrOn

-----------------------------------------------------------------------------

LEMMA GoalInvInit == GoalInit => GoalInv
<1> SUFFICES ASSUME GoalInit PROVE GoalInv
  OBVIOUS
<1>1. NoGoal \in Goals /\ ~Driven(NoGoal)
  BY DEF NoGoal, Goals, GoalStatuses, Driven
<1> QED
  BY <1>1, OffShape DEF GoalInit, GoalInv, GoalShapes, OffOrOn, OneEach, Timely

(* What is done to the settings leaves the loops alone.                     *)
LEMMA SettingsKeep ==
  ASSUME GoalInv, settings' \in [GoalConv -> Goals],
         Settled(settings') \/ UNCHANGED <<settings, late>>,
         UNCHANGED <<loops, active, current>>,
         kicks' \subseteq GoalConv,
         \A c \in commands' : /\ c.conv \in GoalConv /\ c.act \in Acts
                              /\ c.read \in [GoalConv -> Goals]
  PROVE  GoalInv'
<1>1. OffOrOn' /\ OneEach'
  BY DEF GoalInv, OffOrOn, OneEach
<1>2. late' \in [GoalConv -> Nat] /\ Timely'
  BY SettledIsTimely DEF GoalInv, GoalShapes, Timely
<1> QED
  BY <1>1, <1>2 DEF GoalInv, GoalShapes

LEMMA KickKeeps ==
  ASSUME GoalInv, NEW k \in GoalConv, Kick(k)
  PROVE  GoalInv'
<1>1. CASE ~(Free(k) /\ Driven(settings[k]))
  BY <1>1 DEF Kick, GoalInv, GoalShapes, OffOrOn, OneEach, Timely
<1>2. CASE Free(k) /\ Driven(settings[k])
  <2> DEFINE new == [conv |-> k, iter |-> 1, pc |-> "sending"]
  <2>1. PICK l \in Loop : /\ loops[l] = Off
                          /\ loops' = [loops EXCEPT ![l] = new]
    BY <1>2 DEF Kick
  <2>2. /\ new.conv = k /\ new.pc = "sending" /\ new # Off
        /\ new \in [conv : GoalConv \cup {NoLoop}, iter : Nat,
                    pc : {"off", "sending", "running"}]
    BY DEF Off
  <2> HIDE DEF new
  <2>3. \A m \in Loop : loops'[m] = IF m = l THEN new ELSE loops[m]
    BY <2>1 DEF GoalInv, GoalShapes
  <2>4. /\ active' = active \cup {k} /\ current' = current /\ late' = late
        /\ settings' = settings /\ commands' = commands
        /\ kicks' \subseteq GoalConv
    BY <1>2 DEF Kick, GoalInv, GoalShapes
  <2>5. late[k] = 0
    BY <1>2 DEF GoalInv, Timely
  <2>6. \A m \in Loop : loops[m].pc # "off" => loops[m].conv # k
    BY <1>2 DEF GoalInv, OneEach, Free
  <2>7. GoalShapes'
    BY <2>1, <2>2, <2>4 DEF GoalInv, GoalShapes
  <2>8. OffOrOn'
    BY <2>2, <2>3 DEF GoalInv, OffOrOn
  <2>9. OneEach'
    BY <2>2, <2>3, <2>4, <2>6 DEF GoalInv, OneEach
  <2>10. Timely'
    BY <2>2, <2>3, <2>4, <2>5 DEF GoalInv, Timely
  <2> QED
    BY <2>7, <2>8, <2>9, <2>10 DEF GoalInv
<1> QED
  BY <1>1, <1>2

LEMMA RunCreatedKeeps ==
  ASSUME GoalInv, NEW l \in Loop, RunCreated(l)
  PROVE  GoalInv'
<1> DEFINE k == loops[l].conv
           new == [loops[l] EXCEPT !.pc = "running"]
<1>1. loops[l].pc = "sending" /\ k \in GoalConv /\ late[k] = 0
  BY DEF RunCreated, GoalInv, GoalShapes, OneEach, Timely
<1>2. /\ new.conv = k /\ new.pc = "running" /\ new # Off
      /\ new \in [conv : GoalConv \cup {NoLoop}, iter : Nat,
                  pc : {"off", "sending", "running"}]
  BY OffShape DEF GoalInv, GoalShapes
<1>3. /\ loops' = [loops EXCEPT ![l] = new]
      /\ current' = [current EXCEPT ![k] = l]
      /\ late' = [late EXCEPT ![k] = IF Driven(settings[k]) THEN 0 ELSE @ + 1]
      /\ UNCHANGED <<settings, commands, kicks, active>>
  BY DEF RunCreated
<1> HIDE DEF new, k
<1>4. \A m \in Loop : loops'[m] = IF m = l THEN new ELSE loops[m]
  BY <1>3 DEF GoalInv, GoalShapes
<1>5. \A m \in Loop : m # l /\ loops[m].pc # "off" => loops[m].conv # k
  BY <1>1 DEF GoalInv, OneEach, k
<1>6. GoalShapes'
  BY <1>1, <1>2, <1>3 DEF GoalInv, GoalShapes
<1>7. OffOrOn'
  BY <1>2, <1>4 DEF GoalInv, OffOrOn
<1>8. OneEach'
  <2> SUFFICES ASSUME NEW m \in Loop, loops'[m].pc # "off"
               PROVE  /\ loops'[m].conv \in active'
                      /\ loops'[m].pc = "running"
                           => current'[loops'[m].conv] = m
                      /\ \A n \in Loop :
                           loops'[n].pc # "off"
                             /\ loops'[n].conv = loops'[m].conv => n = m
    BY DEF OneEach
  <2>1. CASE m = l
    BY <1>1, <1>2, <1>3, <1>4, <1>5, <2>1 DEF GoalInv, OneEach, GoalShapes, k
  <2>2. CASE m # l
    <3>1. loops[m].conv \in GoalConv /\ loops[m].conv # k
      BY <1>4, <1>5, <2>2 DEF GoalInv, OneEach, GoalShapes
    <3>2. current'[loops[m].conv] = current[loops[m].conv]
      BY <1>1, <1>3, <3>1 DEF GoalInv, GoalShapes
    <3> QED
      BY <1>2, <1>3, <1>4, <2>2, <3>1, <3>2 DEF GoalInv, OneEach
  <2> QED
    BY <2>1, <2>2
<1>9. Timely'
  <2>1. \A j \in GoalConv :
          late'[j] <= 1 /\ (Driven(settings[j]) => late'[j] = 0)
    BY <1>1, <1>3 DEF GoalInv, GoalShapes, Timely
  <2>2. \A m \in Loop : loops'[m].pc = "sending" => late'[loops'[m].conv] = 0
    <3> SUFFICES ASSUME NEW m \in Loop, loops'[m].pc = "sending"
                 PROVE  late'[loops'[m].conv] = 0
      OBVIOUS
    <3>1. m # l /\ loops'[m] = loops[m] /\ loops[m].conv # k
      BY <1>2, <1>4, <1>5
    <3>2. loops[m].conv \in GoalConv /\ late[loops[m].conv] = 0
      BY <3>1 DEF GoalInv, GoalShapes, OneEach, Timely
    <3> QED
      BY <1>1, <1>3, <3>1, <3>2 DEF GoalInv, GoalShapes
  <2> QED
    BY <1>3, <2>1, <2>2 DEF Timely
<1> QED
  BY <1>6, <1>7, <1>8, <1>9 DEF GoalInv

(* A turn's usage makes no goal one to be driven that was not.              *)
LEMMA TurnEndsKeeps ==
  ASSUME GoalInv, NEW l \in Loop, NEW n \in TurnTokens,
         TurnEnds(l, n)
  PROVE  GoalInv'
<1> DEFINE k == loops[l].conv
           goal == IF settings[k].status = "active"
                   THEN [settings[k] EXCEPT !.used = @ + n] ELSE settings[k]
<1>1. loops[l].pc = "running" /\ k \in GoalConv
  BY DEF TurnEnds, GoalInv, GoalShapes, OneEach
<1>2. goal \in Goals /\ (Driven(goal) => Driven(settings[k]))
  <2>1. settings[k] \in Goals /\ n \in Nat
    BY <1>1, GoalAssumption DEF GoalInv, GoalShapes
  <2> QED
    BY <2>1, GoalAssumption DEF Goals, Driven
<1>3. /\ settings' = [settings EXCEPT ![k] = goal]
      /\ current' = [current EXCEPT ![k] = NoLoop]
      /\ UNCHANGED <<commands, kicks, late>>
      /\ \/ /\ Goes(l, goal) /\ active' = active
            /\ loops' = [loops EXCEPT ![l].iter = @ + 1, ![l].pc = "sending"]
         \/ LoopOver(l)
  BY DEF TurnEnds
<1> HIDE DEF goal, k
<1>4. /\ settings' \in [GoalConv -> Goals]
      /\ \A j \in GoalConv : Driven(settings'[j]) => Driven(settings[j])
  BY <1>1, <1>2, <1>3 DEF GoalInv, GoalShapes
<1>5. \A j \in GoalConv :
        late'[j] <= 1 /\ (Driven(settings'[j]) => late'[j] = 0)
  BY <1>3, <1>4 DEF GoalInv, Timely
<1>6. CASE LoopOver(l)
  <2>1. /\ loops' \in [Loop -> [conv : GoalConv \cup {NoLoop}, iter : Nat,
                                pc : {"off", "sending", "running"}]]
        /\ current' \in [GoalConv -> Loop \cup {NoLoop}]
        /\ active' \subseteq GoalConv
        /\ OffOrOn' /\ OneEach'
        /\ \A m \in Loop : loops'[m].pc = "sending" => loops'[m] = loops[m]
    BY <1>1, <1>3, <1>6, LoopGoesOff DEF k
  <2>2. Timely'
    BY <1>3, <1>5, <2>1 DEF GoalInv, Timely
  <2> QED
    BY <1>3, <1>4, <2>1, <2>2 DEF GoalInv, GoalShapes
<1>7. CASE /\ Goes(l, goal) /\ active' = active
           /\ loops' = [loops EXCEPT ![l].iter = @ + 1, ![l].pc = "sending"]
  <2> DEFINE new == [loops[l] EXCEPT !.iter = @ + 1, !.pc = "sending"]
  <2>1. /\ new.conv = k /\ new.pc = "sending" /\ new # Off
        /\ new \in [conv : GoalConv \cup {NoLoop}, iter : Nat,
                    pc : {"off", "sending", "running"}]
    <3>1. loops[l] \in [conv : GoalConv \cup {NoLoop}, iter : Nat,
                       pc : {"off", "sending", "running"}]
      BY DEF GoalInv, GoalShapes
    <3>2. /\ new \in [conv : GoalConv \cup {NoLoop}, iter : Nat,
                     pc : {"off", "sending", "running"}]
          /\ new.conv = loops[l].conv /\ new.pc = "sending"
      BY <3>1, NextTurn
    <3> HIDE DEF new
    <3> QED
      BY <3>2, OffShape DEF k
  <2>2. loops' = [loops EXCEPT ![l] = new]
    BY <1>7 DEF GoalInv, GoalShapes
  <2> HIDE DEF new
  <2>3. \A m \in Loop : loops'[m] = IF m = l THEN new ELSE loops[m]
    BY <2>2 DEF GoalInv, GoalShapes
  <2>4. \A m \in Loop : m # l /\ loops[m].pc # "off" => loops[m].conv # k
    BY <1>1 DEF GoalInv, OneEach, k
  <2>5. late[k] = 0
    BY <1>1, <1>2, <1>7 DEF GoalInv, Timely, Goes
  <2>a. active' = active /\ k \in active
    BY <1>1, <1>7 DEF GoalInv, OneEach, k
  <2>6. OneEach'
    <3> SUFFICES ASSUME NEW m \in Loop, loops'[m].pc # "off"
                 PROVE  /\ loops'[m].conv \in active'
                        /\ loops'[m].pc = "running"
                             => current'[loops'[m].conv] = m
                        /\ \A j \in Loop :
                             loops'[j].pc # "off"
                               /\ loops'[j].conv = loops'[m].conv => j = m
      BY DEF OneEach
    <3>1. CASE m = l
      BY <2>1, <2>3, <2>4, <2>a, <3>1
    <3>2. CASE m # l
      <4>1. loops[m].conv \in GoalConv /\ loops[m].conv # k
        BY <2>3, <2>4, <3>2 DEF GoalInv, OneEach, GoalShapes
      <4>2. current'[loops[m].conv] = current[loops[m].conv]
        BY <1>1, <1>3, <4>1 DEF GoalInv, GoalShapes
      <4> QED
        BY <2>1, <2>3, <2>a, <3>2, <4>1, <4>2 DEF GoalInv, OneEach
    <3> QED
      BY <3>1, <3>2
  <2>7. Timely'
    BY <1>3, <1>5, <2>1, <2>3, <2>5 DEF GoalInv, Timely
  <2>8. OffOrOn'
    BY <2>1, <2>3 DEF GoalInv, OffOrOn
  <2>9. GoalShapes'
    BY <1>1, <1>3, <1>4, <1>7, <2>1, <2>2 DEF GoalInv, GoalShapes
  <2> QED
    BY <2>6, <2>7, <2>8, <2>9 DEF GoalInv
<1> QED
  BY <1>3, <1>6, <1>7

LEMMA GoalInvStep ==
  ASSUME GoalInv, [GoalNext]_goalVars PROVE GoalInv'
<1>1. ASSUME NEW k \in GoalConv, NEW act \in Acts, Command(k, act)
      PROVE  GoalInv'
  BY <1>1, SettingsKeep DEF Command, GoalInv, GoalShapes, loopVars
<1>2. ASSUME NEW k \in GoalConv, NEW s \in {"active", "paused", "complete"},
             ExternalWrite(k, s)
      PROVE  GoalInv'
  <2>1. settings' \in [GoalConv -> Goals]
    BY <1>2 DEF ExternalWrite, GoalInv, GoalShapes, Goals, GoalStatuses
  <2> QED
    BY <1>2, <2>1, SettingsKeep DEF ExternalWrite, GoalInv, GoalShapes
<1>3. ASSUME NEW k \in GoalConv, UserTurnEnds(k) PROVE GoalInv'
  BY <1>3, SettingsKeep DEF UserTurnEnds, GoalInv, GoalShapes, loopVars
<1>4. ASSUME NEW c \in commands, CommandDone(c) PROVE GoalInv'
  <2>1. settings' \in [GoalConv -> Goals]
    BY <1>4, ChangedShape DEF CommandDone, GoalInv, GoalShapes
  <2> QED
    BY <1>4, <2>1, SettingsKeep DEF CommandDone, GoalInv, GoalShapes
<1>5. ASSUME NEW l \in Loop, TurnFails(l) PROVE GoalInv'
  <2>1. loops[l].pc # "off"
    BY <1>5 DEF TurnFails, GoalInv, OffOrOn
  <2>2. /\ loops' \in [Loop -> [conv : GoalConv \cup {NoLoop}, iter : Nat,
                                pc : {"off", "sending", "running"}]]
        /\ current' \in [GoalConv -> Loop \cup {NoLoop}]
        /\ active' \subseteq GoalConv
        /\ OffOrOn' /\ OneEach'
        /\ \A m \in Loop : loops'[m].pc = "sending" => loops'[m] = loops[m]
    BY <1>5, <2>1, LoopGoesOff DEF TurnFails
  <2> QED
    BY <1>5, <2>2 DEF TurnFails, GoalInv, GoalShapes, Timely
<1>6. ASSUME LoopsDie PROVE GoalInv'
  BY <1>6, OffShape DEF LoopsDie, GoalInv, GoalShapes, OffOrOn, OneEach, Timely
<1>7. ASSUME BootKicks PROVE GoalInv'
  BY <1>7, SettingsKeep DEF BootKicks, GoalInv, GoalShapes, loopVars
<1>8. ASSUME UNCHANGED goalVars PROVE GoalInv'
  BY <1>8, SettingsKeep DEF goalVars, GoalInv, GoalShapes, loopVars
<1> QED
  BY <1>1, <1>2, <1>3, <1>4, <1>5, <1>6, <1>7, <1>8, KickKeeps,
     RunCreatedKeeps, TurnEndsKeeps DEF GoalNext

-----------------------------------------------------------------------------
(* The theorems *)

(* activeLoops admits one loop per conversation and currentRuns names the   *)
(* run of its turn: a stop reaches the loop and the turn it is in.  The     *)
(* loop reads the settings between two turns: when its goal is ended by     *)
(* whomever, stale writes of others included, one more run is created at    *)
(* most before the goal is to be driven again.                              *)
THEOREM StopFindsTheLoop == GoalSpec => []StopReachesTheTurn
<1>1. GoalInv => StoppableLoops
  <2> SUFFICES ASSUME GoalInv, NEW l \in Loop, loops[l] # Off
               PROVE  /\ loops[l].conv \in active
                      /\ loops[l].pc = "running"
                           => current[loops[l].conv] = l
                      /\ \A m \in Loop :
                           loops[m].conv = loops[l].conv => m = l
    BY DEF StoppableLoops
  <2>1. loops[l].pc # "off" /\ loops[l].conv \in active
    BY DEF GoalInv, OffOrOn, OneEach
  <2>2. \A m \in Loop : loops[m].pc = "off" => loops[m].conv = NoLoop
    BY OffShape DEF GoalInv, OffOrOn
  <2>3. loops[l].conv # NoLoop
    BY <2>1, GoalAssumption DEF GoalInv, GoalShapes
  <2> QED
    BY <2>1, <2>2, <2>3 DEF GoalInv, OneEach
<1>2. GoalInv => AtMostOneLateTurn
  BY DEF GoalInv, Timely, AtMostOneLateTurn
<1>3. GoalInit => GoalInv
  BY GoalInvInit
<1>4. GoalInv /\ [GoalNext]_goalVars => GoalInv'
  BY GoalInvStep
<1> QED
  BY <1>1, <1>2, <1>3, <1>4, PTL DEF GoalSpec, StopReachesTheTurn

-----------------------------------------------------------------------------
(* The list of conversations *)

Kepts == [at : Nat, value : [Listed -> Nat]]
Loads == [at : Nat, todo : SUBSET Listed, got : [Listed -> Nat],
          slipped : SUBSET Listed, late : SUBSET Listed]
Requests == [step : {"idle", "saw", "waits", "has"}, saw : Nat,
             since : [Listed -> Nat], got : [Listed -> Nat],
             excused : SUBSET Listed]

ListShapes ==
  /\ dirs \subseteq Listed
  /\ conv \in [Listed -> Nat]
  /\ \A c \in Listed \ dirs : conv[c] = 0
  /\ stamp \in Nat \ {0}
  /\ cached \in Kepts /\ cached.at <= stamp
  /\ load \in Loads /\ load.at <= stamp
  /\ asker \in [Asker -> Requests]
  /\ \A p \in Asker : asker[p].saw <= stamp
  /\ missed \subseteq Listed
  /\ Loading => load.at # 0
  /\ cached # Nothing => cached.at # 0

(* A request remembers no more than there is, and names a directory.        *)
Looked ==
  \A p \in Asker :
    /\ \A c \in Listed : asker[p].since[c] <= conv[c]
    /\ asker[p].step = "saw" => asker[p].saw # 0

(* What the load in flight has passed by is as it stands, unless it was     *)
(* written since or is new; what is new was not there under the stamp of    *)
(* the load.                                                                *)
Loaded ==
  Loading =>
    /\ \A c \in Listed \ (load.todo \cup load.slipped \cup load.late) :
         conv[c] <= load.got[c]
    /\ load.late # {} => load.at < stamp
    /\ \A p \in Asker : asker[p].step = "saw" /\ asker[p].saw = load.at =>
         \A c \in load.late : asker[p].since[c] = 0

(* The snapshot is good for a request that saw the directory it is kept     *)
(* under, and for the next one as long as that is the directory.            *)
Good ==
  cached # Nothing =>
    /\ cached.at = stamp =>
         \A c \in Listed \ missed : conv[c] <= cached.value[c]
    /\ \A p \in Asker : asker[p].step = "saw" /\ asker[p].saw = cached.at =>
         \A c \in Listed \ missed : asker[p].since[c] <= cached.value[c]

ListInv == ListShapes /\ Looked /\ Loaded /\ Good /\ RequestsSeeWrites

-----------------------------------------------------------------------------
LEMMA Constants ==
  /\ Nothing \in Kepts /\ Nothing.at = 0
  /\ NoLoad \in Loads /\ NoLoad.at = 0 /\ NoLoad.todo = {}
  /\ NoLoad.got = Empty /\ NoLoad.slipped = {} /\ NoLoad.late = {}
  /\ Idle \in Requests /\ Idle.step = "idle" /\ Idle.saw = 0
  /\ Idle.since = Empty
  /\ Empty \in [Listed -> Nat] /\ \A c \in Listed : Empty[c] = 0
<1>1. Empty \in [Listed -> Nat] /\ \A c \in Listed : Empty[c] = 0
  BY DEF Empty
<1> HIDE DEF Empty
<1> QED
  BY <1>1 DEF Nothing, NoLoad, Idle, Kepts, Loads, Requests

LEMMA Fields ==
  ASSUME ListShapes
  PROVE  /\ cached.at \in Nat /\ cached.value \in [Listed -> Nat]
         /\ load.at \in Nat /\ load.todo \subseteq Listed
         /\ load.got \in [Listed -> Nat]
         /\ load.slipped \subseteq Listed /\ load.late \subseteq Listed
         /\ \A p \in Asker :
              /\ asker[p] \in Requests
              /\ asker[p].saw \in Nat /\ asker[p].since \in [Listed -> Nat]
              /\ asker[p].got \in [Listed -> Nat]
              /\ asker[p].excused \subseteq Listed
BY DEF ListShapes, Kepts, Loads, Requests

(* A file is written that was there before, or not; the requests stay.      *)
LEMMA ConvGrows ==
  ASSUME ListShapes, NEW c \in Listed, NEW n \in Nat, conv[c] <= n,
         conv' = [conv EXCEPT ![c] = n]
  PROVE  /\ conv' \in [Listed -> Nat] /\ conv'[c] = n
         /\ \A e \in Listed : conv[e] <= conv'[e]
         /\ \A e \in Listed : e # c => conv'[e] = conv[e]
BY DEF ListShapes

(* What the load in flight knows of a write.                                *)
LEMMA LoadTold ==
  ASSUME ListShapes, NEW c \in Listed,
         load' = [load EXCEPT !.slipped = @ \cup {c}]
                 \/ load' = [load EXCEPT !.late = @ \cup {c}] \/ load' = load,
         Loading \/ load' = load
  PROVE  /\ load' \in Loads /\ load'.at = load.at
         /\ load'.todo = load.todo /\ load'.got = load.got
         /\ Loading' => Loading /\ load.at # 0
<1>1. load \in Loads
  BY DEF ListShapes
<1>2. /\ load' \in Loads /\ load'.at = load.at
      /\ load'.todo = load.todo /\ load'.got = load.got
  BY <1>1 DEF Loads
<1> QED
  BY <1>2 DEF ListShapes, Loading

LEMMA InitHolds == ListInit => ListInv
<1> SUFFICES ASSUME ListInit PROVE ListInv
  OBVIOUS
<1>1. ListShapes
  BY Constants DEF ListInit, ListShapes, Loading
<1>2. Looked /\ Loaded /\ Good /\ RequestsSeeWrites
  BY Constants DEF ListInit, Looked, Loaded, Good, RequestsSeeWrites, Loading
<1> QED
  BY <1>1, <1>2 DEF ListInv

LEMMA CreateKeeps ==
  ASSUME ListInv, NEW c \in Listed, Create(c) PROVE ListInv'
<1>1. /\ c \notin dirs /\ dirs' = dirs \cup {c}
      /\ conv' = [conv EXCEPT ![c] = 1] /\ stamp' = stamp + 1
      /\ load' = IF Loading THEN [load EXCEPT !.late = @ \cup {c}] ELSE load
      /\ UNCHANGED <<cached, asker, missed>>
  BY DEF Create
<1>2. conv[c] = 0
  BY <1>1 DEF ListInv, ListShapes
<1>3. /\ conv' \in [Listed -> Nat] /\ conv'[c] = 1
      /\ \A e \in Listed : conv[e] <= conv'[e]
      /\ \A e \in Listed : e # c => conv'[e] = conv[e]
  <2>1. ListShapes /\ conv[c] <= 1 /\ 1 \in Nat
    BY <1>2 DEF ListInv
  <2> QED
    BY <1>1, <2>1, ConvGrows
<1>4. /\ load' \in Loads /\ load'.at = load.at
      /\ load'.todo = load.todo /\ load'.got = load.got
      /\ Loading' => Loading /\ load.at # 0
  BY <1>1, LoadTold DEF ListInv
<1>5. Loading => load'.slipped = load.slipped
                 /\ load'.late = load.late \cup {c}
  BY <1>1 DEF ListInv, ListShapes, Loads
<1>6. ListShapes'
  BY <1>1, <1>3, <1>4, Fields DEF ListInv, ListShapes
<1>7. Looked'
  BY <1>1, <1>3, Fields DEF ListInv, Looked, ListShapes
<1>8. Loaded'
  <2> SUFFICES ASSUME Loading' PROVE
        /\ \A e \in Listed \ (load'.todo \cup load'.slipped \cup load'.late) :
             conv'[e] <= load'.got[e]
        /\ load'.late # {} => load'.at < stamp'
        /\ \A p \in Asker :
             asker'[p].step = "saw" /\ asker'[p].saw = load'.at =>
               \A e \in load'.late : asker'[p].since[e] = 0
    BY DEF Loaded
  <2>1. Loading
    BY <1>4
  <2>2. \A e \in Listed \ (load'.todo \cup load'.slipped \cup load'.late) :
          conv'[e] <= load'.got[e]
    BY <1>3, <1>4, <1>5, <2>1 DEF ListInv, Loaded
  <2>3. load'.at < stamp'
    BY <1>1, <1>4, Fields DEF ListInv, ListShapes
  <2>4. ASSUME NEW p \in Asker, asker[p].step = "saw",
               asker[p].saw = load.at, NEW e \in load'.late
        PROVE  asker[p].since[e] = 0
    BY <1>2, <1>5, <2>1, <2>4, Fields DEF ListInv, Loaded, Looked
  <2> QED
    BY <1>1, <1>4, <2>2, <2>3, <2>4
<1>9. Good'
  BY <1>1, Fields DEF ListInv, Good, ListShapes
<1>10. RequestsSeeWrites'
  BY <1>1 DEF ListInv, RequestsSeeWrites
<1> QED
  BY <1>6, <1>7, <1>8, <1>9, <1>10 DEF ListInv

LEMMA MakeDirectoryKeeps ==
  ASSUME ListInv, NEW c \in Listed, MakeDirectory(c) PROVE ListInv'
<1>1. /\ dirs' = dirs \cup {c} /\ stamp' = stamp + 1
      /\ UNCHANGED <<conv, cached, load, asker, missed>>
  BY DEF MakeDirectory
<1>2. ListShapes'
  BY <1>1, Fields DEF ListInv, ListShapes, Loading
<1>3. Looked' /\ RequestsSeeWrites'
  BY <1>1 DEF ListInv, Looked, RequestsSeeWrites
<1>4. Loaded'
  BY <1>1, Fields DEF ListInv, Loaded, Loading, ListShapes
<1>5. Good'
  BY <1>1, Fields DEF ListInv, Good, ListShapes
<1> QED
  BY <1>2, <1>3, <1>4, <1>5 DEF ListInv

(* A file that is there is written, with what the load and the snapshot     *)
(* hear of it.                                                              *)
LEMMA WriteKeeps ==
  ASSUME ListInv, NEW c \in Listed, WriteInPlace(c) \/ Patch(c) PROVE ListInv'
<1>1. /\ conv' = [conv EXCEPT ![c] = conv[c] + 1]
      /\ load' = IF Passed(c) THEN [load EXCEPT !.slipped = @ \cup {c}]
                              ELSE load
      /\ UNCHANGED <<dirs, stamp, asker>>
  BY DEF WriteInPlace, Patch
<1>2. c \in dirs
  <2>1. CASE WriteInPlace(c)
    BY <2>1 DEF WriteInPlace
  <2>2. CASE Patch(c)
    <3>1. conv[c] # 0
      BY <2>2 DEF Patch
    <3> QED
      BY <3>1 DEF ListInv, ListShapes
  <2> QED
    BY <2>1, <2>2
<1>3. conv[c] \in Nat
  BY DEF ListInv, ListShapes
<1>4. /\ conv' \in [Listed -> Nat]
      /\ \A e \in Listed : conv[e] <= conv'[e]
      /\ \A e \in Listed : e # c => conv'[e] = conv[e]
  <2>1. ListShapes /\ conv[c] <= conv[c] + 1 /\ conv[c] + 1 \in Nat
    BY <1>3 DEF ListInv
  <2> HIDE DEF ListInv
  <2> QED
    BY <1>1, <2>1, ConvGrows
<1>5. /\ load' \in Loads /\ load'.at = load.at
      /\ load'.todo = load.todo /\ load'.got = load.got
      /\ Loading' => Loading /\ load.at # 0
  BY <1>1, LoadTold DEF ListInv, Passed
<1>6. /\ load'.late = load.late
      /\ load.slipped \subseteq load'.slipped
      /\ Loading => c \in load.todo \cup load'.slipped
  BY <1>1 DEF ListInv, ListShapes, Loads, Passed
<1>7. \/ cached' = Nothing /\ missed' = {}
      \/ cached' = cached /\ cached = Nothing /\ missed' = missed
      \/ cached' = cached /\ missed' = missed \cup {c}
  BY DEF WriteInPlace, Patch
<1>8. ListShapes'
  BY <1>1, <1>2, <1>4, <1>5, <1>7, Constants, Fields DEF ListInv, ListShapes
<1>9. Looked' /\ RequestsSeeWrites'
  <2>1. \A p \in Asker : \A e \in Listed : asker[p].since[e] \in Nat
    BY Fields DEF ListInv
  <2>2. \A e \in Listed : conv[e] \in Nat /\ conv'[e] \in Nat
    BY <1>4 DEF ListInv, ListShapes
  <2> QED
    BY <1>1, <1>4, <2>1, <2>2 DEF ListInv, Looked, RequestsSeeWrites
<1>10. Loaded'
  BY <1>1, <1>4, <1>5, <1>6 DEF ListInv, Loaded
<1>11. Good'
  BY <1>1, <1>4, <1>7 DEF ListInv, Good
<1> QED
  BY <1>8, <1>9, <1>10, <1>11 DEF ListInv

-----------------------------------------------------------------------------
(* Readers *)

LEMMA AskerChanges ==
  ASSUME ListShapes, NEW p \in Asker, NEW v \in Requests,
         asker' = [asker EXCEPT ![p] = v]
  PROVE  /\ asker' \in [Asker -> Requests] /\ asker'[p] = v
         /\ \A q \in Asker : q # p => asker'[q] = asker[q]
BY DEF ListShapes

LEMMA LookKeeps ==
  ASSUME ListInv, NEW p \in Asker, Look(p) PROVE ListInv'
<1> DEFINE v == [Idle EXCEPT !.step = "saw", !.saw = stamp, !.since = conv]
<1>1. /\ asker' = [asker EXCEPT ![p] = v]
      /\ UNCHANGED <<dirs, conv, stamp, cached, load, missed>>
  BY DEF Look
<1>2. /\ v \in Requests /\ v.step = "saw" /\ v.saw = stamp
      /\ v.since = conv
  BY Constants DEF ListInv, ListShapes, Requests
<1> HIDE DEF v
<1>3. /\ asker' \in [Asker -> Requests] /\ asker'[p] = v
      /\ \A q \in Asker : q # p => asker'[q] = asker[q]
  BY <1>1, <1>2, AskerChanges DEF ListInv
<1>4. ListShapes'
  BY <1>1, <1>2, <1>3 DEF ListInv, ListShapes, Loading
<1>5. Looked'
  BY <1>1, <1>2, <1>3 DEF ListInv, Looked, ListShapes
<1>6. Loaded'
  BY <1>1, <1>2, <1>3, Fields DEF ListInv, Loaded, Loading, ListShapes
<1>7. Good'
  BY <1>1, <1>2, <1>3 DEF ListInv, Good
<1>8. RequestsSeeWrites'
  BY <1>1, <1>2, <1>3 DEF ListInv, RequestsSeeWrites
<1> QED
  BY <1>4, <1>5, <1>6, <1>7, <1>8 DEF ListInv

LEMMA HitKeeps ==
  ASSUME ListInv, NEW p \in Asker, Hit(p) PROVE ListInv'
<1> DEFINE v == [asker[p] EXCEPT !.step = "has", !.got = cached.value,
                                 !.excused = missed]
<1>1. /\ asker[p].step = "saw" /\ cached # Nothing
      /\ cached.at = asker[p].saw
      /\ asker' = [asker EXCEPT ![p] = v]
      /\ UNCHANGED <<dirs, conv, stamp, cached, load, missed>>
  BY DEF Hit, Given
<1>2. /\ v \in Requests /\ v.step = "has" /\ v.saw = asker[p].saw
      /\ v.since = asker[p].since /\ v.got = cached.value
      /\ v.excused = missed
  BY Fields DEF ListInv, ListShapes, Requests
<1> HIDE DEF v
<1>3. /\ asker' \in [Asker -> Requests] /\ asker'[p] = v
      /\ \A q \in Asker : q # p => asker'[q] = asker[q]
  BY <1>1, <1>2, AskerChanges DEF ListInv
<1>4. ListShapes'
  BY <1>1, <1>2, <1>3 DEF ListInv, ListShapes, Loading
<1>5. Looked'
  BY <1>1, <1>2, <1>3 DEF ListInv, Looked
<1>6. Loaded'
  BY <1>1, <1>2, <1>3 DEF ListInv, Loaded, Loading
<1>7. Good'
  BY <1>1, <1>2, <1>3 DEF ListInv, Good
<1>8. RequestsSeeWrites'
  <2>1. \A c \in Listed \ missed : v.since[c] <= v.got[c]
    BY <1>1, <1>2 DEF ListInv, Good
  <2>2. \A c \in Listed : v.since[c] \in Nat /\ v.got[c] \in Nat
    BY <1>2, Fields DEF ListInv
  <2> QED
    BY <1>2, <1>3, <2>1, <2>2 DEF ListInv, RequestsSeeWrites
<1> QED
  BY <1>4, <1>5, <1>6, <1>7, <1>8 DEF ListInv

LEMMA MissKeeps ==
  ASSUME ListInv, NEW p \in Asker, Miss(p) PROVE ListInv'
<1> DEFINE v == [asker[p] EXCEPT !.step = "waits"]
           n == [NoLoad EXCEPT !.at = asker[p].saw, !.todo = dirs]
<1>1. /\ asker[p].step = "saw" /\ asker' = [asker EXCEPT ![p] = v]
      /\ load' = IF Loading THEN load ELSE n
      /\ UNCHANGED <<dirs, conv, stamp, cached, missed>>
  BY DEF Miss, ListInv, ListShapes
<1>2. /\ v \in Requests /\ v.step = "waits" /\ v.saw = asker[p].saw
      /\ v.since = asker[p].since
  BY Fields DEF ListInv, Requests
<1>3. /\ n \in Loads /\ n.at = asker[p].saw /\ n.todo = dirs
      /\ n.got = Empty /\ n.slipped = {} /\ n.late = {}
  BY Constants, Fields DEF ListInv, ListShapes, Loads
<1> HIDE DEF v, n
<1>4. /\ asker' \in [Asker -> Requests] /\ asker'[p] = v
      /\ \A q \in Asker : q # p => asker'[q] = asker[q]
  BY <1>1, <1>2, AskerChanges DEF ListInv
<1>5. asker[p].saw # 0
  BY <1>1 DEF ListInv, Looked
<1>6. ListShapes'
  BY <1>1, <1>2, <1>3, <1>4, <1>5 DEF ListInv, ListShapes, Loading
<1>7. Looked'
  BY <1>1, <1>2, <1>4 DEF ListInv, Looked
<1>8. Loaded'
  <2>1. CASE Loading
    BY <1>1, <1>2, <1>4, <2>1 DEF ListInv, Loaded, Loading
  <2>2. CASE ~Loading
    <3>1. load' = n
      BY <1>1, <2>2
    <3>2. \A c \in Listed \ dirs : conv[c] <= Empty[c]
      BY Constants DEF ListInv, ListShapes
    <3> QED
      BY <1>1, <1>3, <3>1, <3>2 DEF Loaded
  <2> QED
    BY <2>1, <2>2
<1>9. Good'
  BY <1>1, <1>2, <1>4 DEF ListInv, Good
<1>10. RequestsSeeWrites'
  BY <1>1, <1>2, <1>4 DEF ListInv, RequestsSeeWrites
<1> QED
  BY <1>6, <1>7, <1>8, <1>9, <1>10 DEF ListInv

LEMMA ReadFileKeeps ==
  ASSUME ListInv, NEW c \in Listed, ReadFile(c) PROVE ListInv'
<1> DEFINE v == [load EXCEPT !.todo = @ \ {c}, !.got[c] = conv[c]]
<1>1. /\ c \in load.todo /\ load' = v
      /\ UNCHANGED <<dirs, conv, stamp, cached, asker, missed>>
  BY DEF ReadFile
<1>2. /\ v \in Loads /\ v.at = load.at /\ v.todo = load.todo \ {c}
      /\ v.slipped = load.slipped /\ v.late = load.late
      /\ v.got = [load.got EXCEPT ![c] = conv[c]]
  BY Fields DEF ListInv, ListShapes, Loads
<1> HIDE DEF v
<1>3. Loading
  BY <1>1, Constants DEF Loading
<1>4. /\ v.got[c] = conv[c]
      /\ \A e \in Listed : e # c => v.got[e] = load.got[e]
      /\ conv[c] \in Nat
  BY <1>2, Fields DEF ListInv, ListShapes
<1>5. ListShapes'
  BY <1>1, <1>2, <1>3 DEF ListInv, ListShapes
<1>6. Looked' /\ Good' /\ RequestsSeeWrites'
  BY <1>1 DEF ListInv, Looked, Good, RequestsSeeWrites
<1>7. Loaded'
  BY <1>1, <1>2, <1>3, <1>4 DEF ListInv, Loaded
<1> QED
  BY <1>5, <1>6, <1>7 DEF ListInv

LEMMA FinishKeeps == ASSUME ListInv, Finish PROVE ListInv'
<1>1. /\ Loading /\ load.todo = {} /\ cached' = Kept
      /\ missed' = load.slipped /\ load' = NoLoad
      /\ UNCHANGED <<dirs, conv, stamp>>
      /\ asker' = [p \in Asker |->
           IF asker[p].step = "waits"
           THEN [asker[p] EXCEPT !.step = "has", !.got = load.got,
                                 !.excused = load.slipped \cup load.late]
           ELSE asker[p]]
  BY DEF Finish
<1>2. ASSUME NEW p \in Asker
      PROVE  /\ asker'[p] \in Requests /\ asker'[p].saw = asker[p].saw
             /\ asker'[p].since = asker[p].since
             /\ \/ asker'[p] = asker[p] /\ asker[p].step # "waits"
                \/ /\ asker'[p].step = "has" /\ asker'[p].got = load.got
                   /\ asker'[p].excused = load.slipped \cup load.late
  <2> DEFINE v == [asker[p] EXCEPT !.step = "has", !.got = load.got,
                                   !.excused = load.slipped \cup load.late]
  <2>1. /\ v \in Requests /\ v.step = "has" /\ v.saw = asker[p].saw
        /\ v.since = asker[p].since /\ v.got = load.got
        /\ v.excused = load.slipped \cup load.late
    BY Fields DEF ListInv, Requests
  <2>2. asker'[p] = IF asker[p].step = "waits" THEN v ELSE asker[p]
    BY <1>1
  <2> HIDE DEF v
  <2> QED
    BY <2>1, <2>2, Fields DEF ListInv
<1>3. /\ Kept \in Kepts /\ Kept.at = load.at /\ Kept.value = load.got
  BY Fields DEF ListInv, Kept, Kepts
<1>4. /\ \A c \in Listed \ (load.slipped \cup load.late) :
           conv[c] <= load.got[c]
      /\ load.late # {} => load.at < stamp
      /\ \A p \in Asker : asker[p].step = "saw" /\ asker[p].saw = load.at =>
           \A c \in load.late : asker[p].since[c] = 0
      /\ load.at # 0
  BY <1>1 DEF ListInv, Loaded, ListShapes
<1>5. ASSUME NEW p \in Asker, NEW c \in Listed \ (load.slipped \cup load.late)
      PROVE  asker[p].since[c] <= load.got[c]
  <2>1. asker[p].since[c] <= conv[c] /\ conv[c] <= load.got[c]
    BY <1>4 DEF ListInv, Looked
  <2>2. /\ asker[p].since[c] \in Nat /\ conv[c] \in Nat
        /\ load.got[c] \in Nat
    BY Fields DEF ListInv, ListShapes
  <2> QED
    BY <2>1, <2>2
<1>6. ListShapes'
  <2>1. asker' \in [Asker -> Requests]
    BY <1>1, <1>2
  <2>2. \A p \in Asker : asker'[p].saw <= stamp'
    BY <1>1, <1>2 DEF ListInv, ListShapes
  <2>3. missed' \subseteq Listed /\ ~Loading'
    BY <1>1, Fields DEF ListInv, Loading
  <2>4. cached' \in Kepts /\ cached'.at <= stamp' /\ cached'.at # 0
    BY <1>1, <1>3, <1>4 DEF ListInv, ListShapes
  <2>5. load' \in Loads /\ load'.at <= stamp'
    <3>1. 0 <= stamp
      BY DEF ListInv, ListShapes
    <3> QED
      BY <1>1, <3>1, Constants
  <2>6. /\ dirs' \subseteq Listed /\ conv' \in [Listed -> Nat]
        /\ \A c \in Listed \ dirs' : conv'[c] = 0
        /\ stamp' \in Nat \ {0}
    BY <1>1 DEF ListInv, ListShapes
  <2> QED
    BY <2>1, <2>2, <2>3, <2>4, <2>5, <2>6 DEF ListShapes
<1>7. Looked'
  BY <1>1, <1>2 DEF ListInv, Looked
<1>8. Loaded'
  BY <1>1 DEF Loaded, Loading
<1>9. Good'
  <2>1. ASSUME cached'.at = stamp', NEW c \in Listed \ missed'
        PROVE  conv'[c] <= cached'.value[c]
    <3>1. load.at = stamp /\ stamp \in Nat
      BY <1>1, <1>3, <2>1 DEF ListInv, ListShapes
    <3>2. ~(load.at < stamp)
      BY <3>1
    <3>3. load.late = {} /\ missed' = load.slipped
      BY <1>1, <1>4, <3>2
    <3>4. conv[c] <= load.got[c]
      BY <1>4, <3>3
    <3> QED
      BY <1>1, <1>3, <3>4
  <2>2. ASSUME NEW p \in Asker, asker'[p].step = "saw",
               asker'[p].saw = cached'.at, NEW c \in Listed \ missed'
        PROVE  asker'[p].since[c] <= cached'.value[c]
    <3>1. asker[p].step = "saw" /\ asker[p].saw = load.at
          /\ asker'[p].since = asker[p].since
      BY <1>1, <1>2, <1>3, <2>2
    <3>2. CASE c \in load.late
      <4>1. asker[p].since[c] = 0 /\ load.got[c] \in Nat
        BY <1>4, <3>1, <3>2, Fields DEF ListInv
      <4>2. asker'[p].since[c] = 0 /\ cached'.value = load.got
        BY <1>1, <1>3, <3>1, <4>1
      <4>3. 0 <= load.got[c]
        BY <4>1
      <4> QED
        BY <4>2, <4>3
    <3>3. CASE c \notin load.late
      BY <1>1, <1>3, <1>5, <2>2, <3>1, <3>3
    <3> QED
      BY <3>2, <3>3
  <2> QED
    BY <2>1, <2>2 DEF Good
<1>10. RequestsSeeWrites'
  <2>1. ASSUME NEW p \in Asker, asker'[p].step = "has",
               NEW c \in Listed \ asker'[p].excused
        PROVE  asker'[p].got[c] >= asker'[p].since[c]
    <3>1. CASE asker'[p] = asker[p]
      BY <2>1, <3>1 DEF ListInv, RequestsSeeWrites
    <3>2. CASE asker'[p] # asker[p]
      <4>1. asker'[p].got = load.got
            /\ asker'[p].excused = load.slipped \cup load.late
            /\ asker'[p].since = asker[p].since
        BY <1>2, <3>2
      <4>2. asker[p].since[c] <= load.got[c]
        BY <1>5, <2>1, <4>1
      <4>3. asker[p].since[c] \in Nat /\ load.got[c] \in Nat
        BY Fields DEF ListInv
      <4> QED
        BY <4>1, <4>2, <4>3
    <3> QED
      BY <3>1, <3>2
  <2> QED
    BY <2>1 DEF RequestsSeeWrites
<1> QED
  BY <1>6, <1>7, <1>8, <1>9, <1>10 DEF ListInv

LEMMA AnswerKeeps ==
  ASSUME ListInv, NEW p \in Asker, Answer(p) PROVE ListInv'
<1>1. /\ asker' = [asker EXCEPT ![p] = Idle]
      /\ UNCHANGED <<dirs, conv, stamp, cached, load, missed>>
  BY DEF Answer
<1>2. /\ asker' \in [Asker -> Requests] /\ asker'[p] = Idle
      /\ \A q \in Asker : q # p => asker'[q] = asker[q]
  BY <1>1, Constants, AskerChanges DEF ListInv
<1>3. \A c \in Listed : Idle.since[c] = 0 /\ conv[c] \in Nat
  BY Constants DEF ListInv, ListShapes
<1>4. ListShapes'
  BY <1>1, <1>2, Constants DEF ListInv, ListShapes, Loading
<1>5. Looked'
  BY <1>1, <1>2, <1>3, Constants DEF ListInv, Looked
<1>6. Loaded' /\ Good' /\ RequestsSeeWrites'
  BY <1>1, <1>2, Constants
     DEF ListInv, Loaded, Good, RequestsSeeWrites, Loading
<1> QED
  BY <1>4, <1>5, <1>6 DEF ListInv

-----------------------------------------------------------------------------
(* A request for the list shows every conversation at least as it stood     *)
(* when the request came in, however many loads and requests overlap,       *)
(* except where the cache is told nothing of a write.                       *)
THEOREM RequestsSeeWhatWasThere == ListSpec => []RequestsSeeWrites
<1>1. ListInv /\ [ListNext]_listVars => ListInv'
  <2> SUFFICES ASSUME ListInv, [ListNext]_listVars PROVE ListInv'
    OBVIOUS
  <2>1. ASSUME NEW c \in Listed,
               \/ Create(c) \/ MakeDirectory(c) \/ WriteInPlace(c)
               \/ Patch(c) \/ ReadFile(c)
        PROVE  ListInv'
    BY <2>1, CreateKeeps, MakeDirectoryKeeps, WriteKeeps, ReadFileKeeps
  <2>2. ASSUME NEW p \in Asker, Look(p) \/ Hit(p) \/ Miss(p) \/ Answer(p)
        PROVE  ListInv'
    BY <2>2, LookKeeps, HitKeeps, MissKeeps, AnswerKeeps
  <2>3. CASE Finish
    BY <2>3, FinishKeeps
  <2>4. CASE UNCHANGED listVars
    BY <2>4
       DEF listVars, ListInv, ListShapes, Looked, Loaded, Good,
           RequestsSeeWrites, Loading
  <2> QED
    BY <2>1, <2>2, <2>3, <2>4 DEF ListNext
<1>2. ListInv => RequestsSeeWrites
  BY DEF ListInv
<1> QED
  BY <1>1, <1>2, InitHolds, PTL DEF ListSpec

-----------------------------------------------------------------------------
(* Least elements *)

(* A set of naturals that is not empty has a least element.                 *)
LEMMA LeastNumber ==
  ASSUME NEW Q \in SUBSET Nat, Q # {}
  PROVE  \E m \in Q : \A q \in Q : m <= q
<1>1. PICK m \in Q : \A q \in Q : ~(<<q, m>> \in OpToRel(<, Nat))
  BY NatLessThanWellFounded, WFMin
<1>2. \A q \in Q : ~(q < m)
  BY <1>1 DEF OpToRel
<1> QED
  BY <1>2

(* It is what Min chooses.                                                  *)
LEMMA LeastIsMin ==
  ASSUME NEW Q \in SUBSET Nat, Q # {}
  PROVE  Min(Q) \in Q /\ \A q \in Q : Min(Q) <= q
<1>1. \E m \in Q : \A q \in Q : m <= q
  BY LeastNumber
<1> QED
  BY <1>1 DEF Min

-----------------------------------------------------------------------------
(* The derived index *)

(* A signature has a newest stamp, that of one of its sources if any exist. *)
LEMMA NewestExists ==
  ASSUME NEW f \in [Source -> Stamp]
  PROVE  /\ NewestOf(f) \in Stamp
         /\ \A s \in Source : f[s] <= NewestOf(f)
         /\ NewestOf(f) # 0 => \E s \in Source : NewestOf(f) = f[s]
<1> DEFINE Q == {f[s] : s \in Source} \cup {0}
           Left == {MaxStamp - q : q \in Q}
<1>1. Q \in SUBSET Stamp /\ Left \in SUBSET Nat /\ Left # {}
  BY SearchBounds DEF Stamp
<1>2. PICK m \in Q : \A q \in Q : MaxStamp - m <= MaxStamp - q
  <2>1. PICK n \in Left : \A x \in Left : n <= x
    BY <1>1, LeastNumber
  <2> QED
    BY <2>1
<1>3. \A q \in Q : m >= q
  BY <1>1, <1>2, SearchBounds DEF Stamp
<1>4. Max(Q) \in Q /\ \A q \in Q : Max(Q) >= q
  BY <1>2, <1>3 DEF Max
<1>5. NewestOf(f) \in Q /\ \A q \in Q : NewestOf(f) >= q
  BY <1>4 DEF NewestOf
<1> QED
  BY <1>1, <1>5, SearchBounds DEF Stamp

(* The build in flight has taken the signature it will record.              *)
Signed == \/ build.step \in {"commit", "record"}
          \/ build.step = "read" /\ build.plan = "incremental"

(* What the steps of a build have to do with its plan.                      *)
Phases ==
  /\ Building <=> build.step # "idle"
  /\ build.step \in {"read", "commit", "record"} => build.plan # "none"
  /\ build.step = "begin" => build.plan = "incremental"
  /\ build.step = "stat" => build.plan = "full" /\ build.todo = {}
  /\ build.step = "commit" => build.todo = {}

(* No stamp is ahead of the clock.                                          *)
Clocked ==
  \A s \in Source : /\ sources[s] <= clock /\ manifest.signature[s] <= clock
                    /\ build.signature[s] <= clock

(* The sources the manifest does not vouch for.                             *)
Unsure == IF build.step = "record" THEN gaps \cup Replaced ELSE gaps

(* A source that is as the manifest has it is so in the rows, and one whose *)
(* time is the newest on record is as the manifest has it.                  *)
ManifestHolds ==
  manifest # NoManifest =>
    /\ manifest.at = NewestOf(manifest.signature)
    /\ \A s \in Source \ Unsure : sources[s] # 0 =>
         /\ sources[s] = manifest.signature[s] => rows[s] = sources[s]
         /\ sources[s] = manifest.at => sources[s] = manifest.signature[s]

(* An update goes on from the manifest, and nothing it does not see through *)
(* is behind its cutoff.                                                    *)
CutoffHolds ==
  build.plan = "incremental" =>
    /\ \/ build.slipped = Source
       \/ manifest # NoManifest /\ build.cutoff = manifest.at
    /\ \A s \in Source \ build.slipped :
         /\ build.step = "begin" /\ sources[s] # 0 =>
              sources[s] >= build.cutoff
         /\ Signed /\ build.signature[s] # 0 =>
              build.signature[s] >= build.cutoff

(* The same of the signature a build is to record, but for what slipped by. *)
SignatureHolds ==
  Signed =>
    \A s \in Source :
      s \notin (IF build.step = "record" THEN gaps ELSE build.slipped) =>
        (sources[s] # 0 /\ sources[s] = NewestOf(build.signature)
           => sources[s] = build.signature[s])

(* What was read is what the files say, or else what the signature says no  *)
(* longer is.                                                               *)
CollectedHolds ==
  \A s \in Source \ (build.slipped \cup build.todo) :
    /\ build.plan = "full" /\ build.step \in {"read", "stat"} =>
         build.got[s] = sources[s]
    /\ Signed /\ build.step # "record" /\ s \in Replaced /\ sources[s] # 0
         /\ sources[s] = build.signature[s] => build.got[s] = sources[s]

(* Between rows and manifest, the rows are what is about to be recorded.    *)
RowsHold ==
  build.step = "record" =>
    \A s \in Source \ gaps :
      sources[s] # 0 /\ sources[s] = build.signature[s] =>
        rows[s] = sources[s]

SearchInv ==
  /\ SearchTypeOK /\ Phases /\ Clocked /\ ManifestHolds /\ CutoffHolds
  /\ SignatureHolds /\ CollectedHolds /\ RowsHold

(* No manifest and no build are a manifest and a build.                     *)
LEMMA NoneTyped ==
  /\ NoManifest \in [signature : [Source -> Stamp], at : 0..(MaxStamp + 1)]
  /\ NoBuild \in Builds
  /\ NoManifest.at = MaxStamp + 1
  /\ \A s \in Source : NoManifest.signature[s] = 0 /\ NoBuild.signature[s] = 0
  /\ NoBuild.step = "idle" /\ NoBuild.plan = "none"
BY SearchBounds DEF NoManifest, NoBuild, Builds, Stamp

(* What a change of a source makes of the files and of the build.           *)
LEMMA ChangeTyped ==
  ASSUME SearchTypeOK, NEW s \in Source, NEW to \in Stamp,
         SourceChanged(s, to)
  PROVE  /\ sources' = [sources EXCEPT ![s] = to]
         /\ sources' \in [Source -> Stamp]
         /\ build' \in Builds
         /\ build'.plan = build.plan /\ build'.step = build.step
         /\ build'.got = build.got /\ build'.todo = build.todo
         /\ build'.signature = build.signature
         /\ build'.cutoff = build.cutoff
         /\ build'.slipped = IF Slips(s, to) THEN build.slipped \cup {s}
                             ELSE build.slipped
BY DEF SearchTypeOK, SourceChanged, Builds

(* Every step of the index keeps the types.                                 *)
LEMMA SearchTypes ==
  ASSUME SearchTypeOK, [SearchNext]_searchVars PROVE SearchTypeOK'
<1> USE SearchBounds DEF SearchTypeOK
<1>1. ASSUME Search PROVE SearchTypeOK'
  <2>1. \A plan \in {"full", "incremental"}, step \in {"begin", "read"},
           todo \in SUBSET Source :
          [NoBuild EXCEPT !.plan = plan, !.cutoff = manifest.at,
                          !.step = step, !.todo = todo] \in Builds
    BY NoneTyped DEF Builds
  <2>2. Planned \in {"full", "incremental"}
    BY <1>1 DEF Search, Planned
  <2>3. build' \in Builds
    BY <1>1, <2>1, <2>2 DEF Search
  <2> QED
    BY <1>1, <2>3 DEF Search
<1>2. ASSUME Rebuild PROVE SearchTypeOK'
  <2>1. build' \in Builds
    BY <1>2, NoneTyped DEF Rebuild, Builds
  <2> QED
    BY <1>2, <2>1 DEF Rebuild
<1>3. ASSUME LookAhead PROVE SearchTypeOK'
  BY <1>3 DEF LookAhead, Builds, Existing
<1>4. ASSUME NEW s \in Source, ReadSource(s) PROVE SearchTypeOK'
  BY <1>4 DEF ReadSource, AfterReading, Builds
<1>5. ASSUME StatSources PROVE SearchTypeOK'
  BY <1>5 DEF StatSources, Builds
<1>6. ASSUME Commit PROVE SearchTypeOK'
  <2>1. rows' \in [Source -> Stamp]
    BY <1>6 DEF Commit, Rewritten, Builds
  <2>2. build' \in Builds /\ gaps' \subseteq Source
    BY <1>6 DEF Commit, Builds
  <2> QED
    BY <1>6, <2>1, <2>2 DEF Commit
<1>7. ASSUME Record PROVE SearchTypeOK'
  <2>1. build.signature \in [Source -> Stamp]
    BY DEF Builds
  <2>2. NewestOf(build.signature) \in 0..(MaxStamp + 1)
    BY <2>1, NewestExists DEF Stamp
  <2>3. manifest' \in [signature : [Source -> Stamp], at : 0..(MaxStamp + 1)]
    BY <1>7, <2>1, <2>2 DEF Record
  <2> QED
    BY <1>7, <2>3, NoneTyped DEF Record
<1>8. ASSUME NEW s \in Source, WriteSource(s) PROVE SearchTypeOK'
  <2>1. clock + 2 \in Stamp
    BY <1>8 DEF WriteSource, Stamp
  <2> QED
    BY <1>8, <2>1, ChangeTyped DEF WriteSource
<1>9. ASSUME NEW s \in Source, NEW to \in Stamp, RestoreSource(s, to)
      PROVE  SearchTypeOK'
  <2>1. SourceChanged(s, to)
    BY <1>9 DEF RestoreSource
  <2>2. sources' \in [Source -> Stamp] /\ build' \in Builds
    BY <2>1, ChangeTyped
  <2> QED
    BY <1>9, <2>2 DEF RestoreSource
<1>10. ASSUME NEW s \in Source, DeleteSource(s) PROVE SearchTypeOK'
  <2>1. 0 \in Stamp
    BY DEF Stamp
  <2> QED
    <3>1. sources' \in [Source -> Stamp] /\ build' \in Builds
      BY <1>10, <2>1, ChangeTyped DEF DeleteSource
    <3> QED
      BY <1>10, <3>1 DEF DeleteSource
<1>11. ASSUME RemoveIndex PROVE SearchTypeOK'
  BY <1>11, NoneTyped DEF RemoveIndex, Builds, Stamp
<1>12. ASSUME BuildDies PROVE SearchTypeOK'
  BY <1>12, NoneTyped DEF BuildDies, Replaced
<1>13. ASSUME UNCHANGED searchVars PROVE SearchTypeOK'
  BY <1>13 DEF searchVars
<1> QED
  BY <1>1, <1>2, <1>3, <1>4, <1>5, <1>6, <1>7, <1>8, <1>9, <1>10, <1>11,
     <1>12, <1>13 DEF SearchNext

(* A change to a file: what it brings is new to the index, or it is known   *)
(* to be missed.                                                            *)
LEMMA ChangeHolds ==
  ASSUME SearchInv, SearchTypeOK', NEW s \in Source, NEW to \in Stamp,
         SourceChanged(s, to), UNCHANGED <<rows, manifest>>,
         clock' \in Stamp, clock <= clock', to <= clock',
         gaps \subseteq gaps', gaps' \subseteq gaps \cup {s},
         ComesBack(to) => s \in gaps'
  PROVE  SearchInv'
<1>1. /\ sources' = [sources EXCEPT ![s] = to]
      /\ build'.plan = build.plan /\ build'.step = build.step
      /\ build'.got = build.got /\ build'.todo = build.todo
      /\ build'.signature = build.signature /\ build'.cutoff = build.cutoff
      /\ build'.slipped = IF Slips(s, to) THEN build.slipped \cup {s}
                          ELSE build.slipped
  BY ChangeTyped DEF SearchInv
<1>2. /\ sources \in [Source -> Stamp] /\ rows \in [Source -> Stamp]
      /\ manifest.signature \in [Source -> Stamp]
      /\ build.signature \in [Source -> Stamp]
      /\ build.cutoff \in Nat /\ clock \in Nat /\ to \in Nat
      /\ clock' \in Nat /\ Stamp \subseteq Nat
      /\ build.slipped \subseteq Source
  BY SearchBounds DEF SearchInv, SearchTypeOK, Builds, Stamp
<1>3. sources'[s] = to /\ \A q \in Source \ {s} : sources'[q] = sources[q]
  BY <1>1, <1>2
<1>4. manifest' = manifest /\ rows' = rows
  OBVIOUS
<1>5. ~ComesBack(to) /\ to # 0 =>
        /\ \A q \in Source : /\ to # manifest.signature[q]
                             /\ to # build.signature[q]
        /\ to # NewestOf(manifest.signature)
        /\ to # NewestOf(build.signature)
  BY <1>2, NewestExists DEF ComesBack
<1>6. Phases'
  <2>1. Building' <=> Building
    <3>1. CASE build = NoBuild
      <4>1. ~Slips(s, to)
        BY <3>1, NoneTyped DEF Slips, Building
      <4>2. build' = build
        BY <4>1, ChangeTyped DEF SourceChanged, SearchInv, SearchTypeOK, Builds
      <4> QED
        BY <3>1, <4>2 DEF Building
    <3>2. CASE build # NoBuild
      BY <1>1, <3>2, NoneTyped DEF SearchInv, Phases, Building
    <3> QED
      BY <3>1, <3>2
  <2> QED
    BY <1>1, <2>1 DEF SearchInv, Phases
<1>7. Clocked'
  <2> SUFFICES ASSUME NEW q \in Source
               PROVE  /\ sources'[q] <= clock'
                      /\ manifest'.signature[q] <= clock'
                      /\ build'.signature[q] <= clock'
    BY DEF Clocked
  <2>1. sources[q] <= clock /\ manifest.signature[q] <= clock
          /\ build.signature[q] <= clock
    BY DEF SearchInv, Clocked
  <2>2. sources[q] \in Nat /\ manifest.signature[q] \in Nat
          /\ build.signature[q] \in Nat
    BY <1>2
  <2>3. sources'[q] = to \/ sources'[q] = sources[q]
    BY <1>3
  <2> QED
    BY <1>1, <1>2, <1>4, <2>1, <2>2, <2>3
<1>8. Replaced' = Replaced /\ (Signed' <=> Signed)
  BY <1>1 DEF Replaced, Signed
<1>9. \A q \in Source : q \notin build'.slipped => q \notin build.slipped
  BY <1>1
<1>10. Building /\ ComesBack(to) => s \in build'.slipped
  BY <1>1 DEF Slips
<1>11. ManifestHolds'
  BY <1>1, <1>3, <1>4, <1>5, <1>8 DEF SearchInv, ManifestHolds, Unsure
<1>12. CutoffHolds'
  <2>1. build.slipped = Source => build'.slipped = Source
    BY <1>1
  <2>2. build.step = "begin" /\ s \notin build'.slipped => to > build.cutoff
    BY <1>1, <1>2 DEF Slips
  <2> QED
    BY <1>1, <1>2, <1>3, <1>4, <1>8, <1>9, <2>1, <2>2
       DEF SearchInv, CutoffHolds
<1>13. SignatureHolds'
  <2>1. Signed => Building
    BY DEF SearchInv, Phases, Signed
  <2> QED
    BY <1>1, <1>3, <1>5, <1>8, <1>9, <1>10, <2>1
       DEF SearchInv, SignatureHolds
<1>14. CollectedHolds'
  <2>1. Signed => Building
    BY DEF SearchInv, Phases, Signed
  <2> QED
    BY <1>1, <1>3, <1>5, <1>8, <1>9, <1>10, <2>1
       DEF SearchInv, CollectedHolds, Slips
<1>15. RowsHold'
  BY <1>1, <1>3, <1>4, <1>5 DEF SearchInv, RowsHold
<1> QED
  BY <1>6, <1>7, <1>11, <1>12, <1>13, <1>14, <1>15 DEF SearchInv

(* A build that starts has collected nothing; an update starts from the     *)
(* manifest, whose newest stamp no existing source lies behind.             *)
LEMMA PlanHolds ==
  ASSUME SearchInv, SearchTypeOK', Search \/ Rebuild PROVE SearchInv'
<1>a. /\ sources \in [Source -> Stamp] /\ Stamp \subseteq Nat
      /\ manifest.signature \in [Source -> Stamp] /\ manifest.at \in Nat
  BY SearchBounds DEF SearchInv, SearchTypeOK, Stamp
<1>1. UNCHANGED <<sources, clock, rows, manifest, gaps>>
  BY DEF Search, Rebuild
<1>2. build.step = "idle"
  BY DEF Search, Rebuild, SearchInv, Phases
<1>3. build'.signature = [s \in Source |-> 0]
  BY DEF Search, Rebuild, NoBuild
<1>4. \/ /\ build'.plan = "full" /\ build'.step = "read"
         /\ build'.todo = Source
      \/ /\ build'.plan = "incremental" /\ build'.step = "begin"
         /\ build'.cutoff = manifest.at
         /\ manifest # NoManifest
         /\ \A s \in Existing : ~(sources[s] < manifest.at)
  BY DEF Search, Rebuild, NoBuild, Planned
<1>5. build' # NoBuild
  BY <1>4, NoneTyped
<1>6. Phases'
  BY <1>4, <1>5 DEF Phases, Building
<1>7. Clocked'
  <2>1. \A s \in Source : build'.signature[s] = 0
    BY <1>3
  <2>2. clock \in Nat
    BY SearchBounds DEF SearchInv, SearchTypeOK, Stamp
  <2> QED
    BY <1>1, <2>1, <2>2 DEF SearchInv, Clocked
<1>8. ManifestHolds'
  BY <1>1, <1>2, <1>4 DEF SearchInv, ManifestHolds, Unsure
<1>9. CutoffHolds'
  <2>1. \A s \in Source : sources[s] \in Nat
    BY <1>a
  <2>2. CASE build'.plan = "full"
    BY <2>2 DEF CutoffHolds
  <2>3. CASE /\ build'.plan = "incremental" /\ build'.step = "begin"
             /\ build'.cutoff = manifest.at
             /\ manifest # NoManifest
             /\ \A s \in Existing : ~(sources[s] < manifest.at)
    <3>1. ~Signed'
      BY <2>3 DEF Signed
    <3>2. \A s \in Source : sources[s] # 0 => sources[s] >= manifest.at
      BY <1>a, <2>1, <2>3 DEF Existing
    <3> QED
      BY <1>1, <2>3, <3>1, <3>2 DEF CutoffHolds
  <2> QED
    BY <1>4, <2>2, <2>3
<1>10. SignatureHolds' /\ CollectedHolds' /\ RowsHold'
  BY <1>4 DEF SignatureHolds, CollectedHolds, RowsHold, Signed
<1> QED
  BY <1>6, <1>7, <1>8, <1>9, <1>10 DEF SearchInv

(* What a build looks at is what the files say now.                         *)
LEMMA LookHolds ==
  ASSUME SearchInv, SearchTypeOK', LookAhead \/ StatSources
  PROVE  SearchInv'
<1>a. /\ sources \in [Source -> Stamp] /\ Stamp \subseteq Nat
      /\ build \in Builds /\ build.cutoff \in Nat
  BY SearchBounds DEF SearchInv, SearchTypeOK, Builds, Stamp
<1>1. UNCHANGED <<sources, clock, rows, manifest, gaps>>
  BY DEF LookAhead, StatSources
<1>2. /\ build'.signature = sources /\ build'.plan = build.plan
      /\ build'.cutoff = build.cutoff /\ build'.slipped = build.slipped
      /\ build'.got = build.got
  BY <1>a DEF LookAhead, StatSources, Builds
<1>3. \/ /\ build.step = "begin" /\ build.plan = "incremental"
         /\ build'.todo = {s \in Existing : sources[s] > build.cutoff}
         /\ build'.step = IF build'.todo = {} THEN "commit" ELSE "read"
      \/ /\ build.step = "stat" /\ build.plan = "full"
         /\ build'.todo = {} /\ build.todo = {} /\ build'.step = "commit"
  BY <1>a DEF LookAhead, StatSources, SearchInv, Phases, Builds
<1>4. Phases'
  BY <1>2, <1>3, NoneTyped DEF Phases, Building
<1>5. Clocked'
  BY <1>1, <1>2 DEF SearchInv, Clocked
<1>6. ManifestHolds'
  BY <1>1, <1>3 DEF SearchInv, ManifestHolds, Unsure
<1>7. CutoffHolds'
  BY <1>1, <1>2, <1>3 DEF SearchInv, CutoffHolds
<1>8. SignatureHolds' /\ RowsHold'
  BY <1>1, <1>2, <1>3 DEF SignatureHolds, RowsHold
<1>9. CollectedHolds'
  BY <1>a, <1>1, <1>2, <1>3
     DEF SearchInv, CollectedHolds, Replaced, Existing
<1> QED
  BY <1>4, <1>5, <1>6, <1>7, <1>8, <1>9 DEF SearchInv

(* What it reads too.                                                       *)
LEMMA ReadHolds ==
  ASSUME SearchInv, SearchTypeOK', NEW s \in Source, ReadSource(s)
  PROVE  SearchInv'
<1>1. UNCHANGED <<sources, clock, rows, manifest, gaps>>
  BY DEF ReadSource
<1>2. /\ build'.signature = build.signature /\ build'.plan = build.plan
      /\ build'.cutoff = build.cutoff /\ build'.slipped = build.slipped
      /\ build'.todo = build.todo \ {s} /\ build.step = "read"
      /\ build'.step = IF build.todo = {s} THEN AfterReading ELSE "read"
      /\ build'.got = [build.got EXCEPT ![s] = sources[s]]
  BY DEF ReadSource, SearchInv, SearchTypeOK, Builds
<1>3. build.got \in [Source -> Stamp] /\ build.todo \subseteq Source
  BY DEF SearchInv, SearchTypeOK, Builds
<1>4. /\ build.plan \in {"full", "incremental"}
      /\ build'.step \in {"read", "stat", "commit"}
      /\ build'.step = "stat" => build.plan = "full" /\ build'.todo = {}
      /\ build'.step = "commit" =>
           build.plan = "incremental" /\ build'.todo = {}
  BY <1>2, <1>3 DEF AfterReading, SearchInv, SearchTypeOK, Builds, Phases
<1>5. Signed' <=> Signed
  BY <1>2, <1>4 DEF Signed, AfterReading
<1>6. Replaced' = Replaced
  BY <1>2 DEF Replaced
<1>7. Phases'
  BY <1>2, <1>4, NoneTyped DEF Phases, Building
<1>8. Clocked'
  BY <1>1, <1>2 DEF SearchInv, Clocked
<1>9. ManifestHolds'
  BY <1>1, <1>2, <1>4 DEF SearchInv, ManifestHolds, Unsure
<1>10. CutoffHolds'
  BY <1>1, <1>2, <1>4, <1>5 DEF SearchInv, CutoffHolds
<1>11. SignatureHolds' /\ RowsHold'
  BY <1>1, <1>2, <1>4, <1>5 DEF SearchInv, SignatureHolds, RowsHold
<1>12. CollectedHolds'
  <2>1. /\ build'.got[s] = sources[s]
        /\ \A q \in Source \ {s} : build'.got[q] = build.got[q]
    BY <1>2, <1>3
  <2> QED
    BY <1>1, <1>2, <1>4, <1>5, <1>6, <2>1 DEF SearchInv, CollectedHolds
<1> QED
  BY <1>7, <1>8, <1>9, <1>10, <1>11, <1>12 DEF SearchInv

(* The transaction: where the build has not read, the manifest has told     *)
(* that the rows are right.                                                 *)
LEMMA CommitHolds ==
  ASSUME SearchInv, SearchTypeOK', Commit PROVE SearchInv'
<1>a. /\ sources \in [Source -> Stamp] /\ Stamp \subseteq Nat
      /\ build.signature \in [Source -> Stamp] /\ build.cutoff \in Nat
      /\ build.plan \in {"none", "full", "incremental"}
  BY SearchBounds DEF SearchInv, SearchTypeOK, Builds, Stamp
<1>1. UNCHANGED <<sources, clock, manifest>>
  BY DEF Commit
<1>2. /\ build'.signature = build.signature /\ build'.plan = build.plan
      /\ build'.cutoff = build.cutoff /\ build'.slipped = build.slipped
      /\ build'.todo = build.todo /\ build.todo = {}
      /\ build.step = "commit" /\ build'.step = "record"
      /\ build.plan # "none"
  BY DEF Commit, SearchInv, SearchTypeOK, Builds, Phases
<1>3. Replaced' = Replaced /\ Signed /\ Signed'
  BY <1>2 DEF Replaced, Signed
<1>4. gaps' = (gaps \ Replaced) \cup build.slipped
  BY DEF Commit
<1>5. \A s \in Source : rows'[s] = IF s \in Replaced THEN build.got[s]
                                   ELSE rows[s]
  BY DEF Commit, Rewritten
<1>6. Phases' /\ Clocked'
  BY <1>1, <1>2, NoneTyped DEF SearchInv, Phases, Building, Clocked
<1>7. ManifestHolds'
  BY <1>1, <1>2, <1>3, <1>4, <1>5 DEF SearchInv, ManifestHolds, Unsure
<1>8. CutoffHolds'
  BY <1>1, <1>2, <1>3 DEF SearchInv, CutoffHolds
<1>9. SignatureHolds' /\ CollectedHolds'
  BY <1>1, <1>2, <1>3, <1>4 DEF SearchInv, SignatureHolds, CollectedHolds
<1>10. RowsHold'
  <2> SUFFICES ASSUME NEW s \in Source, s \notin gaps', sources[s] # 0,
                      sources[s] = build.signature[s]
               PROVE  rows'[s] = sources[s]
    BY <1>1, <1>2 DEF RowsHold
  <2>1. s \notin build.slipped
    BY <1>4
  <2>2. CASE s \in Replaced
    BY <1>2, <1>3, <1>5, <2>1, <2>2 DEF SearchInv, CollectedHolds
  <2>3. CASE s \notin Replaced
    <3>1. build.plan = "incremental" /\ ~(build.signature[s] > build.cutoff)
      BY <1>a, <1>2, <2>3 DEF Replaced
    <3>2. /\ manifest # NoManifest /\ build.cutoff = manifest.at
          /\ build.signature[s] >= build.cutoff
      BY <1>3, <2>1, <3>1 DEF SearchInv, CutoffHolds
    <3>3. sources[s] = manifest.at
      <4>1. build.signature[s] \in Nat /\ build.cutoff \in Nat
        BY <1>a
      <4> QED
        BY <3>1, <3>2, <4>1
    <3>4. s \notin Unsure
      BY <1>2, <1>4, <2>3 DEF Unsure
    <3>5. rows[s] = sources[s]
      BY <3>2, <3>3, <3>4 DEF SearchInv, ManifestHolds
    <3> QED
      BY <1>5, <2>3, <3>5
  <2> QED
    BY <2>2, <2>3
<1> QED
  BY <1>6, <1>7, <1>8, <1>9, <1>10 DEF SearchInv

(* The manifest takes over what held of the signature of the build.         *)
LEMMA RecordHolds ==
  ASSUME SearchInv, SearchTypeOK', Record PROVE SearchInv'
<1>1. UNCHANGED <<sources, clock, rows, gaps>> /\ build' = NoBuild
  BY DEF Record
<1>2. /\ manifest'.signature = build.signature
      /\ manifest'.at = NewestOf(build.signature)
      /\ build.step = "record" /\ Signed
  BY DEF Record, Signed
<1>3. Phases'
  BY <1>1, NoneTyped DEF Phases, Building
<1>4. Clocked'
  <2>1. clock \in Nat
    BY SearchBounds DEF SearchInv, SearchTypeOK, Stamp
  <2> QED
    BY <1>1, <1>2, <2>1, NoneTyped DEF SearchInv, Clocked
<1>5. ManifestHolds'
  BY <1>1, <1>2, NoneTyped
     DEF SearchInv, ManifestHolds, Unsure, RowsHold, SignatureHolds
<1>6. CutoffHolds' /\ SignatureHolds' /\ CollectedHolds' /\ RowsHold'
  BY <1>1, NoneTyped
     DEF CutoffHolds, SignatureHolds, CollectedHolds, RowsHold, Signed
<1> QED
  BY <1>3, <1>4, <1>5, <1>6 DEF SearchInv

(* Without a manifest nothing is promised, and an update in flight has      *)
(* slipped.                                                                 *)
LEMMA RemoveHolds ==
  ASSUME SearchInv, SearchTypeOK', RemoveIndex PROVE SearchInv'
<1>1. UNCHANGED <<sources, clock>> /\ manifest' = NoManifest
  BY DEF RemoveIndex
<1>2. /\ build'.signature = build.signature /\ build'.plan = build.plan
      /\ build'.cutoff = build.cutoff /\ build'.todo = build.todo
      /\ build'.got = build.got
      /\ build'.step = build.step /\ build.step # "record"
      /\ IF build.plan = "incremental" THEN build'.slipped = Source
         ELSE build' = build
  BY DEF RemoveIndex, SearchInv, SearchTypeOK, Builds
<1>3. Phases'
  BY <1>2, NoneTyped DEF SearchInv, Phases, Building
<1>4. Clocked'
  <2>1. clock \in Nat
    BY SearchBounds DEF SearchInv, SearchTypeOK, Stamp
  <2> QED
    BY <1>1, <1>2, <2>1, NoneTyped DEF SearchInv, Clocked
<1>5. ManifestHolds' /\ RowsHold'
  BY <1>1, <1>2 DEF ManifestHolds, RowsHold
<1>6. CutoffHolds'
  BY <1>2 DEF CutoffHolds
<1>7. (Signed' <=> Signed) /\ Replaced' = Replaced
  BY <1>2 DEF Signed, Replaced
<1>8. SignatureHolds'
  BY <1>1, <1>2, <1>7 DEF SearchInv, SignatureHolds
<1>9. CollectedHolds'
  BY <1>1, <1>2, <1>7 DEF SearchInv, CollectedHolds
<1> QED
  BY <1>3, <1>4, <1>5, <1>6, <1>8, <1>9 DEF SearchInv

(* A build that dies between rows and manifest leaves what it replaced in   *)
(* doubt.                                                                   *)
LEMMA DeathHolds ==
  ASSUME SearchInv, SearchTypeOK', BuildDies PROVE SearchInv'
<1>1. UNCHANGED <<sources, clock, rows, manifest>> /\ build' = NoBuild
  BY DEF BuildDies
<1>2. gaps' = Unsure
  BY DEF BuildDies, Unsure
<1>3. Phases'
  BY <1>1, NoneTyped DEF Phases, Building
<1>4. Clocked'
  <2>1. clock \in Nat
    BY SearchBounds DEF SearchInv, SearchTypeOK, Stamp
  <2> QED
    BY <1>1, <2>1, NoneTyped DEF SearchInv, Clocked
<1>5. ManifestHolds'
  <2>1. Unsure' = gaps'
    BY <1>1, NoneTyped DEF Unsure
  <2> QED
    BY <1>1, <1>2, <2>1 DEF SearchInv, ManifestHolds
<1>6. CutoffHolds' /\ SignatureHolds' /\ CollectedHolds' /\ RowsHold'
  BY <1>1, NoneTyped
     DEF CutoffHolds, SignatureHolds, CollectedHolds, RowsHold, Signed
<1> QED
  BY <1>3, <1>4, <1>5, <1>6 DEF SearchInv

(* Every step of the index keeps the invariant.                             *)
LEMMA SearchStep ==
  ASSUME SearchInv, [SearchNext]_searchVars PROVE SearchInv'
<1>1. SearchTypeOK'
  BY SearchTypes DEF SearchInv
<1>2. ASSUME NEW s \in Source, WriteSource(s) PROVE SearchInv'
  <2>1. clock + 2 \in Stamp /\ clock \in Stamp /\ Stamp \subseteq Nat
    BY <1>2, SearchBounds DEF WriteSource, SearchInv, SearchTypeOK, Stamp
  <2>2. ~ComesBack(clock + 2)
    <3>1. \A q \in Source : /\ manifest.signature[q] \in Nat
                            /\ build.signature[q] \in Nat
      BY <2>1 DEF SearchInv, SearchTypeOK, Builds
    <3> QED
      BY <2>1, <3>1 DEF ComesBack, SearchInv, Clocked
  <2> QED
    BY <1>1, <1>2, <2>1, <2>2, ChangeHolds DEF WriteSource
<1>3. ASSUME NEW s \in Source, NEW to \in Stamp, RestoreSource(s, to)
      PROVE  SearchInv'
  <2>1. /\ clock \in Stamp /\ Stamp \subseteq Nat
        /\ sources[s] \in Nat /\ sources[s] <= clock
    BY SearchBounds DEF SearchInv, SearchTypeOK, Stamp, Clocked
  <2>2. to <= clock /\ clock <= clock /\ clock' = clock
    <3>1. to < sources[s] /\ clock' = clock
      BY <1>3 DEF RestoreSource
    <3>2. to \in Nat /\ clock \in Nat
      BY <2>1
    <3> QED
      BY <2>1, <3>1, <3>2
  <2> QED
    BY <1>1, <1>3, <2>1, <2>2, ChangeHolds DEF RestoreSource
<1>4. ASSUME NEW s \in Source, DeleteSource(s) PROVE SearchInv'
  <2>1. clock \in Stamp /\ 0 \in Stamp /\ Stamp \subseteq Nat
    BY SearchBounds DEF SearchInv, SearchTypeOK, Stamp
  <2>2. ~ComesBack(0) /\ 0 <= clock /\ clock <= clock /\ clock' = clock
    BY <1>4, <2>1 DEF ComesBack, DeleteSource
  <2> QED
    BY <1>1, <1>4, <2>1, <2>2, ChangeHolds DEF DeleteSource
<1>5. ASSUME UNCHANGED searchVars PROVE SearchInv'
  BY <1>5
     DEF searchVars, SearchInv, SearchTypeOK, Phases, Building, Clocked,
         ManifestHolds, Unsure, Replaced, CutoffHolds, SignatureHolds, Signed,
         CollectedHolds, RowsHold
<1> QED
  BY <1>1, <1>2, <1>3, <1>4, <1>5, PlanHolds, LookHolds, ReadHolds,
     CommitHolds, RecordHolds, RemoveHolds, DeathHolds DEF SearchNext

(* For any number of sources, writes, states brought in with older times,   *)
(* deletions and deaths of the process, full builds and updates by stamp,   *)
(* and whatever they interleave with: an index the next search serves as it *)
(* is has the rows of every existing source as it stands, unless its last   *)
(* change fell into a gap of the code.                                      *)
THEOREM IndexIsCurrent == SearchSpec => []FreshIsCurrent
<1>1. SearchInit => SearchInv
  <2> SUFFICES ASSUME SearchInit PROVE SearchInv
    OBVIOUS
  <2>1. SearchTypeOK
    BY SearchBounds, NoneTyped DEF SearchInit, SearchTypeOK, Stamp
  <2>2. Phases /\ Clocked
    BY NoneTyped DEF SearchInit, Phases, Building, Clocked
  <2>3. ManifestHolds /\ CutoffHolds /\ SignatureHolds /\ CollectedHolds
          /\ RowsHold
    BY NoneTyped
       DEF SearchInit, ManifestHolds, CutoffHolds, SignatureHolds,
           CollectedHolds, RowsHold, Signed
  <2> QED
    BY <2>1, <2>2, <2>3 DEF SearchInv
<1>2. SearchInv => FreshIsCurrent
  <2> SUFFICES ASSUME SearchInv, manifest # NoManifest, Planned = "fresh",
                      build.step # "record", NEW s \in Existing \ gaps
               PROVE  rows[s] = sources[s]
    BY DEF FreshIsCurrent
  <2>1. manifest.signature = sources
    BY DEF Planned
  <2>2. s \in Source /\ sources[s] # 0
    BY DEF Existing
  <2> QED
    BY <2>1, <2>2 DEF SearchInv, ManifestHolds, Unsure
<1> QED
  BY <1>1, <1>2, SearchStep, PTL DEF SearchSpec

(* Stamps stay stamps, a manifest is a signature with its newest stamp, and *)
(* a build is in one of its steps with a plan.                              *)
THEOREM SearchTyping == SearchSpec => []SearchTypeOK
<1>1. SearchInit => SearchTypeOK
  BY SearchBounds, NoneTyped DEF SearchInit, SearchTypeOK, Stamp
<1> QED
  BY <1>1, SearchTypes, PTL DEF SearchSpec

-----------------------------------------------------------------------------
(* The run records of a conversation *)

(* An adapter has one turn at most.                                         *)
TurnsAreAlone ==
  \A r, q \in Turn :
    lane[r] = lane[q] /\ OnAdapter(r) /\ OnAdapter(q) => r = q

(* r wrote m, or its author wrote beside the turn of r.                     *)
OwnOrBeside(r, m) == written[m] = r \/ <<r, written[m]>> \in beside

(* A turn that streams has the snapshot its handle carries, and behind it   *)
(* only this turn has written, or one that was noted to write beside it.    *)
SnapshotsAreTurns ==
  \A r \in Turn :
    /\ stage[r] = "streams" => snap[r] = before[r]
    /\ stage[r] \in {"streams", "ended"} =>
         \A m \in DOMAIN written : m > before[r] => OwnOrBeside(r, m)

(* A record claims messages of its turn, or of one that wrote beside it.    *)
ClaimsAreTrue ==
  \A r \in Turn : \A m \in record[r].messages :
    m \in DOMAIN written /\ OwnOrBeside(r, m)

LedgerInv ==
  /\ LedgerTypeOK /\ TurnsAreAlone /\ SnapshotsAreTurns /\ ClaimsAreTrue
  /\ HandlesAreNotArchived

(* Every step of the store keeps the types.                                 *)
LEMMA LedgerTypes ==
  ASSUME LedgerTypeOK, [LedgerNext]_ledgerVars PROVE LedgerTypeOK'
<1> USE LedgerBounds DEF LedgerTypeOK, LedgerStages
<1>1. ASSUME NEW r \in Turn, AskTurn(r) PROVE LedgerTypeOK'
  BY <1>1 DEF AskTurn
<1>a. ASSUME NEW r \in Turn,
             NEW to \in {"running", "completed", "cancelled", "failed"},
             NEW more \in SUBSET (1..MaxMessages)
      PROVE  /\ [record[r] EXCEPT !.status = to] \in Records
             /\ [record EXCEPT ![r].status = to] \in [Turn -> Records]
             /\ [status |-> to, messages |-> record[r].messages \cup more]
                  \in Records
  BY DEF Records
<1>2. ASSUME NEW r \in Turn, NEW n \in 0..MaxMessages, CreateRun(r, n)
      PROVE  /\ record' \in [Turn -> Records]
             /\ place' \in [Turn -> SUBSET {"live", "archive"}]
             /\ held' \subseteq Turn /\ created' \in Seq(Turn)
             /\ snap' \in [Turn -> 0..MaxMessages]
  <2>1. record' \in [Turn -> Records]
    BY <1>2, <1>a DEF CreateRun
  <2>2. place' \in [Turn -> SUBSET {"live", "archive"}]
    BY <1>2 DEF CreateRun
  <2> QED
    BY <1>2, <2>1, <2>2 DEF CreateRun
<1>3. ASSUME NEW r \in Turn, Announce(r) PROVE LedgerTypeOK'
  BY <1>2, <1>3 DEF Announce
<1>4. ASSUME NEW r \in Turn, Begin(r) \/ EndStream(r) \/ Sever(r)
      PROVE LedgerTypeOK'
  BY <1>4 DEF Begin, EndStream, Sever
<1>5. ASSUME NEW r \in Turn, BeginRest(r) PROVE LedgerTypeOK'
  BY <1>2, <1>5 DEF BeginRest
<1>6. ASSUME NEW r \in Turn, TakeSnapshot(r) PROVE LedgerTypeOK'
  BY <1>6 DEF TakeSnapshot
<1>7. ASSUME NEW r \in Turn, Message(r) PROVE LedgerTypeOK'
  <2>1. beside' \subseteq Turn \X Turn
    BY <1>7 DEF Message, Unaware
  <2> QED
    BY <1>7, <2>1 DEF Message
<1>8. ASSUME NEW r \in Turn, Settle(r) PROVE LedgerTypeOK'
  <2>1. (before[r] + 1)..Len(written) \subseteq 1..MaxMessages
    OBVIOUS
  <2>2. [status |-> "completed",
         messages |-> record[r].messages
                        \cup ((before[r] + 1)..Len(written))] \in Records
    BY <2>1, <1>a
  <2>3. record' \in [Turn -> Records]
    BY <1>8, <2>2 DEF Settle
  <2>4. /\ UNCHANGED <<written, lane, heed, before, snap, created, beside,
                       mishaps>>
        /\ held' = held \ {r} /\ stage' = [stage EXCEPT ![r] = "settled"]
        /\ place' = [place EXCEPT ![r] = @ \cup {"live"}]
    BY <1>8 DEF Settle
  <2> QED
    BY <2>3, <2>4
<1>9. ASSUME NEW r \in Turn, SendAgain(r) PROVE LedgerTypeOK'
  BY <1>9 DEF SendAgain
<1>10. ASSUME NEW r \in Turn, Throw(r) PROVE LedgerTypeOK'
  BY <1>10 DEF Throw
<1>11. ASSUME NEW r \in Turn, CancelRun(r) PROVE LedgerTypeOK'
  <2>1. record' \in [Turn -> Records]
    BY <1>11, <1>a DEF CancelRun
  <2> QED
    BY <1>11, <2>1 DEF CancelRun
<1>12. ASSUME NEW r \in Turn, DeleteRun(r) PROVE LedgerTypeOK'
  BY <1>12 DEF DeleteRun
<1>13. ASSUME Restart PROVE LedgerTypeOK'
  <2>1. ASSUME NEW r \in Turn
        PROVE  [record[r] EXCEPT !.status = "failed"] \in Records
    BY <1>a
  <2>2. record' \in [Turn -> Records]
    BY <1>13, <2>1 DEF Restart
  <2>3. stage' \in [Turn -> LedgerStages]
    BY <1>13 DEF Restart
  <2> QED
    BY <1>13, <2>2, <2>3 DEF Restart
<1>14. ASSUME Compact PROVE LedgerTypeOK'
  BY <1>14 DEF Compact
<1>15. ASSUME UNCHANGED ledgerVars PROVE LedgerTypeOK'
  BY <1>15 DEF ledgerVars
<1> QED
  BY <1>1, <1>3, <1>4, <1>5, <1>6, <1>7, <1>8, <1>9, <1>10, <1>11, <1>12,
     <1>13, <1>14, <1>15 DEF LedgerNext

(* An adapter begins a turn when it has none.                               *)
LEMMA LedgerAlone ==
  ASSUME LedgerTypeOK, TurnsAreAlone, [LedgerNext]_ledgerVars
  PROVE  TurnsAreAlone'
<1>b. stage \in [Turn -> LedgerStages]
  BY DEF LedgerTypeOK
<1>1. CASE \E r \in Turn : Begin(r) \/ BeginRest(r)
  <2>1. PICK r \in Turn : Begin(r) \/ BeginRest(r)
    BY <1>1
  <2>2. AdapterFree(r) /\ stage' = [stage EXCEPT ![r] = "begun"]
        /\ lane' = lane
    BY <2>1 DEF Begin, BeginRest
  <2> QED
    BY <1>b, <2>2 DEF TurnsAreAlone, AdapterFree, OnAdapter
<1>2. ASSUME lane' = lane, \A q \in Turn : OnAdapter(q)' => OnAdapter(q)
      PROVE  TurnsAreAlone'
  BY <1>2 DEF TurnsAreAlone
<1>3. CASE \E r \in Turn :
             \/ AskTurn(r) \/ Announce(r) \/ Message(r) \/ EndStream(r)
             \/ Settle(r) \/ SendAgain(r) \/ Sever(r) \/ Throw(r)
             \/ CancelRun(r) \/ DeleteRun(r) \/ TakeSnapshot(r)
  BY <1>b, <1>2, <1>3
     DEF AskTurn, Announce, Message, EndStream, Settle, SendAgain, Sever,
         Throw, CancelRun, DeleteRun, TakeSnapshot, OnAdapter
<1>4. CASE Restart \/ Compact \/ UNCHANGED ledgerVars
  BY <1>b, <1>2, <1>4 DEF Restart, Compact, ledgerVars, OnAdapter
<1> QED
  BY <1>1, <1>3, <1>4 DEF LedgerNext

(* Who writes behind the snapshot of another turn is noted, as only one     *)
(* turn has its adapter.                                                    *)
LEMMA LedgerSnapshots ==
  ASSUME LedgerTypeOK, TurnsAreAlone, SnapshotsAreTurns,
         [LedgerNext]_ledgerVars
  PROVE  SnapshotsAreTurns'
<1>b. /\ stage \in [Turn -> LedgerStages]
      /\ before \in [Turn -> Nat] /\ snap \in [Turn -> Nat]
      /\ written \in Seq(Turn)
  BY LedgerBounds DEF LedgerTypeOK
<1> USE DEF SnapshotsAreTurns, OwnOrBeside
<1>1. ASSUME NEW r \in Turn, AskTurn(r) PROVE SnapshotsAreTurns'
  BY <1>1, <1>b DEF AskTurn
<1>2. ASSUME NEW r \in Turn, Announce(r) \/ BeginRest(r)
      PROVE  SnapshotsAreTurns'
  BY <1>2, <1>b DEF Announce, BeginRest, CreateRun
<1>3. ASSUME NEW r \in Turn, TakeSnapshot(r) PROVE SnapshotsAreTurns'
  BY <1>3, <1>b DEF TakeSnapshot
<1>4. ASSUME NEW r \in Turn, Message(r) PROVE SnapshotsAreTurns'
  <2>1. ASSUME NEW q \in Turn, stage[q] \in {"streams", "ended"}, q # r
        PROVE  <<q, r>> \in beside'
    BY <1>4, <2>1 DEF Message, Unaware, TurnsAreAlone, OnAdapter
  <2>2. /\ written' = Append(written, r) /\ beside \subseteq beside'
        /\ UNCHANGED <<stage, snap, before>>
    BY <1>4 DEF Message
  <2>3. ASSUME NEW q \in Turn, stage[q] \in {"streams", "ended"},
               NEW m \in DOMAIN written', m > before[q]
        PROVE  OwnOrBeside(q, m)'
    <3>1. CASE m \in DOMAIN written
      BY <1>b, <2>2, <2>3, <3>1
    <3>2. CASE m \notin DOMAIN written
      <4>1. written'[m] = r
        BY <1>b, <2>2, <2>3, <3>2
      <4> QED
        BY <2>1, <2>3, <4>1
    <3> QED
      BY <3>1, <3>2
  <2> QED
    BY <2>2, <2>3
<1>5. ASSUME NEW r \in Turn,
             \/ Begin(r) \/ EndStream(r) \/ Settle(r) \/ SendAgain(r)
             \/ Sever(r) \/ Throw(r) \/ CancelRun(r) \/ DeleteRun(r)
      PROVE  SnapshotsAreTurns'
  <2>1. /\ UNCHANGED <<written, before, snap, beside>>
        /\ \A q \in Turn :
             /\ stage'[q] = "streams" => stage[q] = "streams"
             /\ stage'[q] = "ended" => stage[q] \in {"streams", "ended"}
    BY <1>5, <1>b DEF Begin, EndStream, Settle, SendAgain, Sever, Throw,
                      CancelRun, DeleteRun
  <2> QED
    BY <2>1
<1>6. CASE Restart \/ Compact \/ UNCHANGED ledgerVars
  <2>1. /\ UNCHANGED <<written, before, snap, beside>>
        /\ \A q \in Turn : stage'[q] \in {"streams", "ended"} =>
                             stage'[q] = stage[q]
    BY <1>6, <1>b DEF Restart, Compact, ledgerVars
  <2> QED
    BY <2>1
<1> QED
  BY <1>1, <1>2, <1>3, <1>4, <1>5, <1>6 DEF LedgerNext

(* Messages are claimed by the turn that settles, and what is behind its    *)
(* snapshot is its own, or noted.                                           *)
LEMMA LedgerClaims ==
  ASSUME LedgerTypeOK, SnapshotsAreTurns, ClaimsAreTrue,
         [LedgerNext]_ledgerVars
  PROVE  ClaimsAreTrue'
<1>b. /\ record \in [Turn -> Records] /\ before \in [Turn -> Nat]
      /\ written \in Seq(Turn)
  BY LedgerBounds DEF LedgerTypeOK
<1>1. ASSUME NEW r \in Turn, Message(r) PROVE ClaimsAreTrue'
  <2>1. /\ written' = Append(written, r) /\ record' = record
        /\ beside \subseteq beside'
    BY <1>1 DEF Message
  <2>2. \A m \in DOMAIN written :
          m \in DOMAIN written' /\ written'[m] = written[m]
    BY <1>b, <2>1
  <2> QED
    BY <2>1, <2>2 DEF ClaimsAreTrue, OwnOrBeside
<1>2. ASSUME NEW r \in Turn, Settle(r) PROVE ClaimsAreTrue'
  <2>1. /\ written' = written /\ beside' = beside
        /\ record' = [record EXCEPT ![r] =
             [status |-> "completed",
              messages |-> record[r].messages
                             \cup ((before[r] + 1)..Len(written))]]
    BY <1>2 DEF Settle
  <2>2. \A m \in (before[r] + 1)..Len(written) :
          m \in DOMAIN written /\ OwnOrBeside(r, m)
    BY <1>2, <1>b DEF Settle, SnapshotsAreTurns
  <2>3. \A q \in Turn : record'[q].messages =
          IF q = r
          THEN record[r].messages \cup ((before[r] + 1)..Len(written))
          ELSE record[q].messages
    BY <1>b, <2>1
  <2> HIDE <2>1
  <2>4. written' = written /\ beside' = beside
    BY <2>1
  <2> QED
    BY <2>2, <2>3, <2>4 DEF ClaimsAreTrue, OwnOrBeside
<1>3. ASSUME written' = written, beside' = beside,
             \A q \in Turn : record'[q].messages = record[q].messages
      PROVE  ClaimsAreTrue'
  BY <1>3 DEF ClaimsAreTrue, OwnOrBeside
<1>4. ASSUME NEW r \in Turn, NEW to, record' = [record EXCEPT ![r].status = to]
      PROVE  \A q \in Turn : record'[q].messages = record[q].messages
  BY <1>4, <1>b DEF Records
<1>5. ASSUME NEW r \in Turn, Announce(r) \/ BeginRest(r) \/ CancelRun(r)
      PROVE  ClaimsAreTrue'
  <2>1. written' = written /\ beside' = beside
        /\ \E to \in {"running", "cancelled"} :
              record' = [record EXCEPT ![r].status = to]
    BY <1>5 DEF Announce, BeginRest, CreateRun, CancelRun
  <2> QED
    BY <1>3, <1>4, <2>1
<1>6. CASE Restart
  <2>1. \A q \in Turn : record'[q].messages = record[q].messages
    BY <1>6, <1>b DEF Restart, Records
  <2> QED
    BY <1>3, <1>6, <2>1 DEF Restart
<1>7. ASSUME NEW r \in Turn,
             \/ AskTurn(r) \/ Begin(r) \/ TakeSnapshot(r) \/ EndStream(r)
             \/ SendAgain(r) \/ Sever(r) \/ Throw(r) \/ DeleteRun(r)
      PROVE  ClaimsAreTrue'
  <2>1. UNCHANGED <<written, beside, record>>
    BY <1>7 DEF AskTurn, Begin, TakeSnapshot, EndStream, SendAgain, Sever,
                Throw, DeleteRun
  <2> QED
    BY <1>3, <2>1
<1>8. CASE Compact \/ UNCHANGED ledgerVars
  BY <1>3, <1>8 DEF Compact, ledgerVars
<1> QED
  BY <1>1, <1>2, <1>5, <1>6, <1>7, <1>8 DEF LedgerNext

(* Records with a handle are neither archived nor left in the archive.      *)
LEMMA LedgerHandles ==
  ASSUME LedgerTypeOK, HandlesAreNotArchived, [LedgerNext]_ledgerVars
  PROVE  HandlesAreNotArchived'
<1>b. held \subseteq Turn /\ place \in [Turn -> SUBSET {"live", "archive"}]
  BY DEF LedgerTypeOK
<1> USE DEF HandlesAreNotArchived
<1>1. ASSUME NEW r \in Turn, Announce(r) \/ BeginRest(r)
      PROVE  HandlesAreNotArchived'
  BY <1>1, <1>b DEF Announce, BeginRest, CreateRun
<1>2. ASSUME NEW r \in Turn, Settle(r) \/ CancelRun(r)
      PROVE  HandlesAreNotArchived'
  BY <1>2, <1>b DEF Settle, CancelRun
<1>3. ASSUME NEW r \in Turn, DeleteRun(r) PROVE HandlesAreNotArchived'
  BY <1>3, <1>b DEF DeleteRun
<1>4. CASE Restart
  BY <1>4 DEF Restart
<1>5. CASE Compact
  BY <1>5, <1>b DEF Compact, Archivable
<1>6. ASSUME NEW r \in Turn,
             \/ AskTurn(r) \/ Begin(r) \/ TakeSnapshot(r) \/ Message(r)
             \/ EndStream(r) \/ SendAgain(r) \/ Sever(r) \/ Throw(r)
      PROVE  HandlesAreNotArchived'
  BY <1>6 DEF AskTurn, Begin, TakeSnapshot, Message, EndStream, SendAgain,
              Sever, Throw
<1>7. CASE UNCHANGED ledgerVars
  BY <1>7 DEF ledgerVars
<1> QED
  BY <1>1, <1>2, <1>3, <1>4, <1>5, <1>6, <1>7 DEF LedgerNext

(* The greatest element is what Max chooses.                                *)
LEMMA GreatestIsMax ==
  ASSUME NEW Q \in SUBSET Nat, NEW n \in Q, \A q \in Q : q <= n
  PROVE  Max(Q) = n
<1>1. Max(Q) \in Q /\ \A q \in Q : Max(Q) >= q
  BY DEF Max
<1>2. Max(Q) \in Nat /\ n \in Nat /\ Max(Q) >= n /\ Max(Q) <= n
  BY <1>1
<1> QED
  BY <1>2

(* What the records say of the messages follows, and what a reader sees.    *)
LEMMA LedgerHolds == ASSUME LedgerInv PROVE AttributionHolds
<1>1. OwnersAreAuthors
  <2> SUFFICES ASSUME NEW m \in DOMAIN written, NEW r \in OwnerOf(m)
               PROVE  OwnOrBeside(r, m)
    BY DEF OwnersAreAuthors, OwnOrBeside
  <2> DEFINE claims == {i \in DOMAIN created :
                          /\ "live" \in place[created[i]]
                          /\ m \in record[created[i]].messages}
  <2>1. claims # {} /\ r = created[Min(claims)]
    BY DEF OwnerOf
  <2>2. created \in Seq(Turn) /\ claims \in SUBSET Nat
    BY DEF LedgerInv, LedgerTypeOK
  <2>3. Min(claims) \in claims
    BY <2>1, <2>2, LeastIsMin
  <2>4. r \in Turn /\ m \in record[r].messages
    BY <2>1, <2>2, <2>3
  <2> QED
    BY <2>4 DEF LedgerInv, ClaimsAreTrue
<1>2. ReadersStopAtTheTurn
  <2> SUFFICES ASSUME NEW r \in Turn, stage[r] = "streams", r \in Active,
                      \A q \in Active \ {r} : snap[q] <= before[r]
               PROVE  Shown = before[r]
    BY DEF ReadersStopAtTheTurn
  <2> DEFINE Snaps == {snap[q] : q \in Active}
  <2>1. snap[r] = before[r]
    BY DEF LedgerInv, SnapshotsAreTurns
  <2>2. Active \subseteq Turn /\ snap \in [Turn -> Nat]
    BY LedgerBounds DEF LedgerInv, LedgerTypeOK, Active
  <2>3. Snaps \in SUBSET Nat /\ before[r] \in Snaps
    BY <2>1, <2>2
  <2>4. \A n \in Snaps : n <= before[r]
    BY <2>1, <2>2, <2>3
  <2>5. Max(Snaps) = before[r]
    BY <2>3, <2>4, GreatestIsMax
  <2> QED
    BY <2>5 DEF Shown
<1> QED
  BY <1>1, <1>2 DEF AttributionHolds, LedgerInv

(* The owners of messages are turns, snapshots lie within the transcript,   *)
(* and records and their directories are what the store makes them.         *)
THEOREM LedgerTyping == LedgerSpec => []LedgerTypeOK
<1>1. LedgerInit => LedgerTypeOK
  BY LedgerBounds
     DEF LedgerInit, LedgerTypeOK, LedgerStages, Records, NoRecord
<1> QED
  BY <1>1, LedgerTypes, PTL DEF LedgerSpec

(* For any number of turns on any number of adapters, any messages,         *)
(* cancels, retries, deletions and deaths of the process, and any           *)
(* retention: a message grouped under a run was written by its turn, or     *)
(* while that turn was at work by one on another adapter or cut off; a      *)
(* reader sees the history up to the turn whose snapshot is the last; and   *)
(* no run with a handle is in the archive.                                  *)
THEOREM OwnersAreRight == LedgerSpec => []AttributionHolds
<1>1. LedgerInit => LedgerInv
  BY LedgerBounds
     DEF LedgerInit, LedgerInv, LedgerTypeOK, LedgerStages, Records,
         NoRecord, TurnsAreAlone, OnAdapter, SnapshotsAreTurns,
         ClaimsAreTrue, HandlesAreNotArchived
<1>2. LedgerInv /\ [LedgerNext]_ledgerVars => LedgerInv'
  BY LedgerTypes, LedgerAlone, LedgerSnapshots, LedgerClaims, LedgerHandles
     DEF LedgerInv
<1> QED
  BY <1>1, <1>2, LedgerHolds, PTL DEF LedgerSpec

-----------------------------------------------------------------------------
(* Tool permissions *)

(* A least element is what Min chooses.                                     *)
LEMMA MinIs ==
  ASSUME NEW Q \in SUBSET Nat, NEW n \in Q, \A q \in Q : n <= q
  PROVE  Min(Q) = n
<1>1. Min(Q) \in Nat /\ n \in Nat /\ Min(Q) <= n /\ n <= Min(Q)
  BY LeastIsMin
<1> QED
  BY <1>1

(* The first line about a tool is one about the tool.                       *)
LEMMA FirstMatchIs ==
  ASSUME NEW lines \in Seq(Lines), NEW tool
  PROVE  FirstMatch(lines, tool) = <<>>
           \/ /\ FirstMatch(lines, tool) # <<>>
              /\ FirstMatch(lines, tool)[1] \in Lines
<1> DEFINE hits == {i \in DOMAIN lines : Matches(lines[i], tool)}
<1>1. CASE hits = {}
  BY <1>1 DEF FirstMatch
<1>2. CASE hits # {}
  <2>1. hits \in SUBSET Nat
    OBVIOUS
  <2>2. Min(hits) \in hits
    BY <1>2, <2>1, LeastIsMin
  <2>3. FirstMatch(lines, tool) = <<lines[Min(hits)]>>
    BY <1>2 DEF FirstMatch
  <2>4. lines[Min(hits)] \in Lines
    BY <2>2
  <2> QED
    BY <2>3, <2>4
<1> QED
  BY <1>1, <1>2

(* Of two lists behind each other, the first that has a line about the tool *)
(* decides.                                                                 *)
LEMMA FirstMatchOfBoth ==
  ASSUME NEW a \in Seq(Lines), NEW b \in Seq(Lines), NEW tool
  PROVE  FirstMatch(a \o b, tool) =
           IF FirstMatch(a, tool) # <<>> THEN FirstMatch(a, tool)
           ELSE FirstMatch(b, tool)
<1> DEFINE Hits(s) == {i \in DOMAIN s : Matches(s[i], tool)}
<1>1. \A s : FirstMatch(s, tool) = IF Hits(s) = {} THEN <<>>
                                   ELSE <<s[Min(Hits(s))]>>
  BY DEF FirstMatch
<1>2. \A s : FirstMatch(s, tool) = <<>> <=> Hits(s) = {}
  <2>1. \A x : <<x>> # <<>>
    OBVIOUS
  <2> HIDE DEF Hits
  <2> QED
    BY <1>1, <2>1
<1>3. /\ a \o b \in Seq(Lines)
      /\ DOMAIN (a \o b) = 1 .. Len(a) + Len(b)
      /\ DOMAIN a = 1 .. Len(a) /\ DOMAIN b = 1 .. Len(b)
      /\ Len(a) \in Nat /\ Len(b) \in Nat
      /\ \A i \in 1 .. Len(a) : (a \o b)[i] = a[i]
      /\ \A i \in 1 .. Len(b) : (a \o b)[i + Len(a)] = b[i]
  OBVIOUS
<1> DEFINE ab == a \o b
<1> HIDE DEF ab
<1>4. /\ Hits(a) \in SUBSET Nat /\ Hits(b) \in SUBSET Nat
      /\ Hits(ab) \in SUBSET Nat
  BY <1>3 DEF ab
<1>5. \A i \in 1 .. Len(a) : i \in Hits(ab) <=> i \in Hits(a)
  BY <1>3 DEF ab
<1>6. \A i \in 1 .. Len(b) : i + Len(a) \in Hits(ab) <=> i \in Hits(b)
  BY <1>3 DEF ab
<1>7. \A i \in Hits(ab) : \/ i \in 1 .. Len(a)
                          \/ \E j \in 1 .. Len(b) : i = j + Len(a)
  <2> SUFFICES ASSUME NEW i \in 1 .. Len(a) + Len(b), i \notin 1 .. Len(a)
               PROVE  \E j \in 1 .. Len(b) : i = j + Len(a)
    BY <1>3 DEF ab
  <2>1. i - Len(a) \in 1 .. Len(b) /\ i = (i - Len(a)) + Len(a)
    BY <1>3
  <2> QED
    BY <2>1
<1>8. Hits(a) \subseteq 1 .. Len(a) /\ Hits(b) \subseteq 1 .. Len(b)
  BY <1>3
<1>9. CASE Hits(a) # {}
  <2> DEFINE m == Min(Hits(a))
  <2>1. m \in Hits(a) /\ \A q \in Hits(a) : m <= q
    BY <1>4, <1>9, LeastIsMin
  <2>2. m \in Hits(ab) /\ m \in 1 .. Len(a)
    BY <1>5, <1>8, <2>1
  <2>3. \A q \in Hits(ab) : m <= q
    BY <1>3, <1>5, <1>7, <2>1, <2>2
  <2>4. Min(Hits(ab)) = m
    BY <1>4, <2>2, <2>3, MinIs
  <2>5. FirstMatch(ab, tool) = <<a[m]>>
    <3>1. FirstMatch(ab, tool) = <<ab[Min(Hits(ab))]>>
      BY <1>1, <2>2
    <3>2. ab[m] = a[m]
      BY <1>3, <2>2 DEF ab
    <3> QED
      BY <2>4, <3>1, <3>2
  <2> QED
    BY <1>1, <1>2, <1>9, <2>5 DEF ab
<1>10. CASE Hits(a) = {} /\ Hits(b) # {}
  <2> DEFINE m == Min(Hits(b))
  <2>1. m \in Hits(b) /\ \A q \in Hits(b) : m <= q
    BY <1>4, <1>10, LeastIsMin
  <2>2. m + Len(a) \in Hits(ab) /\ m \in 1 .. Len(b)
    BY <1>6, <1>8, <2>1
  <2>3. \A q \in Hits(ab) : m + Len(a) <= q
    <3> SUFFICES ASSUME NEW q \in Hits(ab) PROVE m + Len(a) <= q
      OBVIOUS
    <3>1. PICK j \in 1 .. Len(b) : q = j + Len(a)
      BY <1>5, <1>7, <1>10
    <3>2. m <= j
      BY <1>6, <2>1, <3>1
    <3> QED
      BY <1>3, <2>2, <3>1, <3>2
  <2>4. Min(Hits(ab)) = m + Len(a)
    BY <1>4, <2>2, <2>3, MinIs
  <2>5. FirstMatch(ab, tool) = <<b[m]>>
    <3>1. ab[m + Len(a)] = b[m]
      BY <1>3, <2>2 DEF ab
    <3>2. FirstMatch(ab, tool) = <<ab[Min(Hits(ab))]>>
      BY <1>1, <2>2
    <3> QED
      BY <2>4, <3>1, <3>2
  <2> QED
    BY <1>1, <1>2, <1>10, <2>5 DEF ab
<1>11. CASE Hits(a) = {} /\ Hits(b) = {}
  <2>1. Hits(ab) = {}
    BY <1>5, <1>6, <1>7, <1>11
  <2> QED
    BY <1>1, <1>11, <2>1 DEF ab
<1> QED
  BY <1>9, <1>10, <1>11

(* No parse is newer than the last write, and one that has the time of its  *)
(* file is of what the file holds.                                          *)
ParsesAreOfFiles ==
  \A p \in Path :
    /\ disk[p].mtime <= edits
    /\ parses[p] # <<>> =>
         /\ parses[p][1].mtime <= edits
         /\ parses[p][1].mtime = disk[p].mtime =>
              parses[p][1].config = Parsed(p)

(* The windows of the limit count what was overridden in them.              *)
WindowsCount ==
  letThrough = [turn |-> rate.turn, hour |-> rate.hour]

PermissionsInv == PermissionsTypeOK /\ ParsesAreOfFiles /\ WindowsCount

(* Whoever reads a file gets what it holds.                                 *)
LEMMA ReadsAreCurrent ==
  ASSUME ParsesAreOfFiles, NEW p \in Path PROVE ReadConfig(p) = Parsed(p)
BY DEF ParsesAreOfFiles, ReadConfig, Fresh, Parsed

(* The configuration in a file is one.                                      *)
LEMMA ParsedTyped ==
  ASSUME PermissionsTypeOK, NEW p \in Path
  PROVE  /\ Parsed(p) \in Seq(Configs)
         /\ Parsed(p) = <<>> \/ (Parsed(p) # <<>> /\ Parsed(p)[1] \in Configs)
BY DEF PermissionsTypeOK, Parsed

(* The steps of evaluatePermission find the first line that speaks.         *)
LEMMA VerdictsHold ==
  ASSUME PermissionsInv PROVE RulesDecide
<1>1. ASSUME NEW tool \in KnownTool
      PROVE  Evaluate(tool) = FirstMatch(Sayings, tool)[1].action
  <2> DEFINE A == RulesOf("agent")
             G == RulesOf("global")
             DA == DefaultOf("agent")
             DG == DefaultOf("global")
             Z == <<AnyTool("allow")>>
  <2>1. \A p \in Path : Parsed(p) = <<>> \/ Parsed(p)[1] \in Configs
    BY ParsedTyped DEF PermissionsInv
  <2>2. \A action \in Actions : AnyTool(action) \in Lines
    BY DEF AnyTool, Lines
  <2>3. A \in Seq(Lines) /\ G \in Seq(Lines)
    BY <2>1 DEF RulesOf, Configs, Path
  <2>4. \A action \in Actions : <<AnyTool(action)>> \in Seq(Lines)
    BY <2>2
  <2>5. DA \in Seq(Lines) /\ DG \in Seq(Lines) /\ Z \in Seq(Lines)
    BY <2>1, <2>4 DEF DefaultOf, Configs, Path, Actions
  <2>6. \A action \in Actions :
          FirstMatch(<<AnyTool(action)>>, tool) = <<AnyTool(action)>>
    <3> SUFFICES ASSUME NEW action \in Actions
                 PROVE  FirstMatch(<<AnyTool(action)>>, tool)
                          = <<AnyTool(action)>>
      OBVIOUS
    <3> DEFINE hits == {i \in DOMAIN <<AnyTool(action)>> :
                          Matches(<<AnyTool(action)>>[i], tool)}
    <3>1. hits = {1}
      BY DEF Matches, AnyTool
    <3>2. Min(hits) = 1
      <4>1. hits \in SUBSET Nat /\ 1 \in hits /\ \A q \in hits : 1 <= q
        BY <3>1
      <4> QED
        BY <4>1, MinIs
    <3> QED
      BY <3>1, <3>2 DEF FirstMatch
  <2>7. FirstMatch(<<>>, tool) = <<>>
    BY DEF FirstMatch
  <2>8. FirstMatch(Z, tool) = Z
    BY <2>6 DEF Actions
  <2>9. \A p \in Path : FirstMatch(DefaultOf(p), tool) = DefaultOf(p)
    BY <2>1, <2>6, <2>7 DEF DefaultOf, Configs
  <2>9a. FirstMatch(DA, tool) = DA /\ FirstMatch(DG, tool) = DG
    BY <2>9 DEF Path
  <2> DEFINE DGZ == DG \o Z
             DADGZ == DA \o DGZ
             GR == G \o DADGZ
  <2>10. DGZ \in Seq(Lines) /\ DADGZ \in Seq(Lines) /\ GR \in Seq(Lines)
    BY <2>3, <2>5
  <2>11. FirstMatch(DGZ, tool) = IF DG # <<>> THEN DG ELSE Z
    BY <2>5, <2>8, <2>9a, FirstMatchOfBoth
  <2> HIDE DEF Z, DGZ
  <2>12. FirstMatch(DADGZ, tool) = IF DA # <<>> THEN DA
                                   ELSE IF DG # <<>> THEN DG ELSE Z
    BY <2>5, <2>9a, <2>10, <2>11, FirstMatchOfBoth
  <2>13. FirstMatch(GR, tool) =
           IF FirstMatch(G, tool) # <<>> THEN FirstMatch(G, tool)
           ELSE IF DA # <<>> THEN DA ELSE IF DG # <<>> THEN DG ELSE Z
    BY <2>3, <2>10, <2>12, FirstMatchOfBoth
  <2>14. FirstMatch(Sayings, tool) =
           IF FirstMatch(A, tool) # <<>> THEN FirstMatch(A, tool)
           ELSE IF FirstMatch(G, tool) # <<>> THEN FirstMatch(G, tool)
           ELSE IF DA # <<>> THEN DA ELSE IF DG # <<>> THEN DG ELSE Z
    <3>1. Sayings = A \o GR
      BY DEF Sayings, Z, DGZ
    <3> HIDE DEF A, G, DA, DG, Z, DGZ, DADGZ, GR
    <3> QED
      BY <2>3, <2>10, <2>13, <3>1, FirstMatchOfBoth
  <2>15. /\ ReadConfig("agent") = Parsed("agent")
         /\ ReadConfig("global") = Parsed("global")
    BY ReadsAreCurrent DEF PermissionsInv, Path
  <2>16. /\ A = IF Parsed("agent") = <<>> THEN <<>>
                ELSE Parsed("agent")[1].rules
         /\ G = ForAll.rules
    BY <2>15 DEF RulesOf, ForAll, EmptyConfig, Config
  <2>17. /\ Parsed("agent") # <<>> =>
              DA # <<>> /\ DA[1].action = Parsed("agent")[1].default
         /\ Parsed("agent") = <<>> => DA = <<>>
         /\ (IF DG # <<>> THEN DG ELSE Z)[1].action = ForAll.default
    <3>1. CASE Parsed("global") = <<>>
      <4>1. DG = <<>> /\ ForAll.default = "allow" /\ Z[1].action = "allow"
        BY <2>15, <3>1 DEF DefaultOf, AnyTool, ForAll, EmptyConfig, Config, Z
      <4> QED
        BY <4>1 DEF DefaultOf, AnyTool
    <3>2. CASE Parsed("global") # <<>>
      <4>1. /\ DG # <<>> /\ DG[1].action = Parsed("global")[1].default
            /\ ForAll.default = Parsed("global")[1].default
        BY <2>15, <3>2 DEF DefaultOf, AnyTool, ForAll
      <4> QED
        BY <4>1 DEF DefaultOf, AnyTool
    <3> QED
      BY <3>1, <3>2
  <2> HIDE DEF A, G, DA, DG, Z
  <2>18. Evaluate(tool) =
           IF FirstMatch(A, tool) # <<>> THEN FirstMatch(A, tool)[1].action
           ELSE IF FirstMatch(G, tool) # <<>>
           THEN FirstMatch(G, tool)[1].action
           ELSE IF Parsed("agent") # <<>> THEN Parsed("agent")[1].default
           ELSE ForAll.default
    BY <2>7, <2>15, <2>16 DEF Evaluate
  <2> QED
    BY <2>14, <2>17, <2>18
<1>2. letThrough.turn <= PerTurn /\ letThrough.hour <= PerHour
  BY PermissionBounds DEF PermissionsInv, PermissionsTypeOK, WindowsCount
<1> QED
  BY <1>1, <1>2 DEF RulesDecide, Verdict

(* A write leaves the types as they are.                                    *)
LEMMA WriteTyped ==
  ASSUME PermissionsTypeOK, NEW p \in Path,
         NEW content \in {"none", "broken", "config"}, NEW config \in Configs,
         Writes(p, content, config)
  PROVE  /\ disk' = [disk EXCEPT ![p] =
                       [content |-> content, config |-> config,
                        mtime |-> edits + 1]]
         /\ disk' \in [Path -> [content : {"none", "broken", "config"},
                                config : Configs, mtime : 0 .. MaxEdits]]
         /\ edits' \in 0 .. MaxEdits /\ edits' = edits + 1
         /\ UNCHANGED <<rate, role, turns, letThrough>>
<1>1. edits + 1 \in 0 .. MaxEdits
  BY PermissionBounds DEF Writes, PermissionsTypeOK
<1>2. [content |-> content, config |-> config, mtime |-> edits + 1] \in
        [content : {"none", "broken", "config"}, config : Configs,
         mtime : 0 .. MaxEdits]
  BY <1>1
<1> QED
  BY <1>1, <1>2 DEF Writes, PermissionsTypeOK

(* A write leaves the cache sound, with or without the parse of the file.   *)
LEMMA EditHolds ==
  ASSUME PermissionsInv, NEW p \in Path,
         NEW content \in {"none", "broken", "config"}, NEW config \in Configs,
         Writes(p, content, config),
         parses' = parses \/ parses' = DropsCache(p)
  PROVE  PermissionsInv'
<1>1. /\ disk' = [disk EXCEPT ![p] =
                    [content |-> content, config |-> config,
                     mtime |-> edits + 1]]
      /\ edits' = edits + 1 /\ UNCHANGED <<rate, role, turns, letThrough>>
  BY WriteTyped DEF PermissionsInv
<1> DEFINE Parse == [mtime : 0 .. MaxEdits, config : Seq(Configs)]
<1>a. parses \in [Path -> Seq(Parse)] /\ \A q \in Path : Len(parses[q]) <= 1
  BY DEF PermissionsInv, PermissionsTypeOK
<1> HIDE DEF Parse
<1>2. /\ parses' \in [Path -> Seq(Parse)]
      /\ \A q \in Path : parses'[q] = parses[q] \/ parses'[q] = <<>>
  <2>1. <<>> \in Seq(Parse)
    OBVIOUS
  <2>2. CASE parses' = parses
    BY <1>a, <2>2
  <2>3. CASE parses' = [parses EXCEPT ![p] = <<>>]
    BY <1>a, <2>1, <2>3
  <2> QED
    BY <2>2, <2>3 DEF DropsCache
<1>3. PermissionsTypeOK'
  <2>1. \A q \in Path : Len(parses'[q]) <= 1
    BY <1>a, <1>2
  <2>2. parses' \in
          [Path -> Seq([mtime : 0 .. MaxEdits, config : Seq(Configs)])]
    BY <1>2 DEF Parse
  <2>3. role' \in {"main", "fork", "subagent"}
          /\ rate' \in [turn : 0 .. PerTurn, hour : 0 .. PerHour]
    BY <1>1 DEF PermissionsInv, PermissionsTypeOK
  <2> QED
    BY <2>1, <2>2, <2>3, WriteTyped DEF PermissionsInv, PermissionsTypeOK
<1>4. disk'[p].mtime = edits + 1 /\ \A q \in Path \ {p} : disk'[q] = disk[q]
  BY <1>1 DEF PermissionsInv, PermissionsTypeOK
<1>5. edits \in Nat
  BY PermissionBounds DEF PermissionsInv, PermissionsTypeOK
<1>6. ParsesAreOfFiles'
  <2> SUFFICES ASSUME NEW q \in Path
               PROVE  /\ disk'[q].mtime <= edits'
                      /\ parses'[q] # <<>> =>
                           /\ parses'[q][1].mtime <= edits'
                           /\ parses'[q][1].mtime = disk'[q].mtime =>
                                parses'[q][1].config = Parsed(q)'
    BY DEF ParsesAreOfFiles
  <2>1. disk[q].mtime \in Nat /\ disk[q].mtime <= edits
    BY PermissionBounds
       DEF PermissionsInv, PermissionsTypeOK, ParsesAreOfFiles
  <2>2. CASE parses'[q] = <<>>
    BY <1>1, <1>4, <1>5, <2>1, <2>2
  <2>3. CASE parses'[q] # <<>>
    <3>1. /\ parses'[q] = parses[q] /\ parses[q][1].mtime <= edits
          /\ parses[q][1].mtime \in Nat
          /\ parses[q][1].mtime = disk[q].mtime =>
               parses[q][1].config = Parsed(q)
      <4>1. parses'[q] = parses[q] /\ parses[q] # <<>>
        BY <1>2, <2>3
      <4>2. parses[q][1] \in Parse
        BY <1>a, <4>1
      <4> QED
        BY <4>1, <4>2 DEF PermissionsInv, ParsesAreOfFiles, Parse
    <3>2. CASE q = p
      BY <1>1, <1>4, <1>5, <3>1, <3>2
    <3>3. CASE q # p
      <4>1. disk'[q] = disk[q] /\ Parsed(q)' = Parsed(q)
        BY <1>4, <3>3 DEF Parsed
      <4> QED
        BY <1>1, <1>5, <2>1, <3>1, <4>1
    <3> QED
      BY <3>2, <3>3
  <2> QED
    BY <2>2, <2>3
<1>7. WindowsCount'
  BY <1>1 DEF PermissionsInv, WindowsCount
<1> QED
  BY <1>3, <1>6, <1>7 DEF PermissionsInv

(* So does a read.                                                          *)
LEMMA ReadingHolds ==
  ASSUME PermissionsInv, NEW ps \in SUBSET Path, parses' = CacheAfter(ps),
         UNCHANGED <<disk, edits, role>>
  PROVE  /\ parses' \in
              [Path -> Seq([mtime : 0 .. MaxEdits, config : Seq(Configs)])]
         /\ \A p \in Path : Len(parses'[p]) <= 1
         /\ ParsesAreOfFiles'
<1>1. \A p \in Path : ReadConfig(p) = Parsed(p) /\ Parsed(p) \in Seq(Configs)
  BY ReadsAreCurrent, ParsedTyped DEF PermissionsInv
<1>2. \A p \in Path : disk[p].mtime \in 0 .. MaxEdits
  BY DEF PermissionsInv, PermissionsTypeOK
<1>3. \A p \in Path :
        \/ parses'[p] = parses[p] \/ parses'[p] = <<>>
        \/ parses'[p] = <<[mtime |-> disk[p].mtime, config |-> Parsed(p)]>>
  BY <1>1 DEF CacheAfter
<1>4. \A p \in Path :
        [mtime |-> disk[p].mtime, config |-> Parsed(p)]
          \in [mtime : 0 .. MaxEdits, config : Seq(Configs)]
  BY <1>1, <1>2
<1>5. ASSUME NEW p \in Path
      PROVE  /\ parses'[p] \in Seq([mtime : 0 .. MaxEdits,
                                    config : Seq(Configs)])
             /\ Len(parses'[p]) <= 1
  <2> DEFINE Parse == [mtime : 0 .. MaxEdits, config : Seq(Configs)]
             new == [mtime |-> disk[p].mtime, config |-> Parsed(p)]
  <2>1. parses[p] \in Seq(Parse) /\ Len(parses[p]) <= 1 /\ new \in Parse
    BY <1>4 DEF PermissionsInv, PermissionsTypeOK
  <2>2. parses'[p] = parses[p] \/ parses'[p] = <<>> \/ parses'[p] = <<new>>
    BY <1>3
  <2> HIDE DEF Parse, new
  <2>3. /\ <<>> \in Seq(Parse) /\ Len(<<>>) <= 1
        /\ <<new>> \in Seq(Parse) /\ Len(<<new>>) <= 1
    BY <2>1
  <2>4. parses'[p] \in Seq(Parse) /\ Len(parses'[p]) <= 1
    <3>1. CASE parses'[p] = parses[p]
      BY <2>1, <3>1
    <3>2. CASE parses'[p] = <<>>
      BY <2>3, <3>2
    <3>3. CASE parses'[p] = <<new>>
      BY <2>3, <3>3
    <3> QED
      BY <2>2, <3>1, <3>2, <3>3
  <2> QED
    BY <2>4 DEF Parse
<1>6. parses' \in [Path -> Seq([mtime : 0 .. MaxEdits, config : Seq(Configs)])]
  BY <1>5 DEF CacheAfter
<1>7. \A p \in Path : Parsed(p)' = Parsed(p)
  BY DEF Parsed
<1>8. ParsesAreOfFiles'
  <2> SUFFICES ASSUME NEW p \in Path
               PROVE  /\ disk'[p].mtime <= edits'
                      /\ parses'[p] # <<>> =>
                           /\ parses'[p][1].mtime <= edits'
                           /\ parses'[p][1].mtime = disk'[p].mtime =>
                                parses'[p][1].config = Parsed(p)'
    BY DEF ParsesAreOfFiles
  <2>1. CASE parses'[p] = parses[p] \/ parses'[p] = <<>>
    BY <1>7, <2>1 DEF PermissionsInv, ParsesAreOfFiles
  <2>2. CASE parses'[p] = <<[mtime |-> disk[p].mtime, config |-> Parsed(p)]>>
    <3>1. parses'[p][1] = [mtime |-> disk[p].mtime, config |-> Parsed(p)]
      BY <2>2
    <3> QED
      BY <1>7, <3>1 DEF PermissionsInv, ParsesAreOfFiles
  <2> QED
    BY <1>3, <2>1, <2>2
<1> QED
  BY <1>5, <1>6, <1>8

(* Every step keeps the invariant.                                          *)
LEMMA PermissionsStep ==
  ASSUME PermissionsInv, [PermissionsNext]_permissionVars
  PROVE  PermissionsInv'
<1>1. EmptyConfig \in Configs
  BY DEF EmptyConfig, Config, Configs, Actions
<1>2. \A d \in Actions, rs \in Rules : Config(d, rs) \in Configs
  BY PermissionBounds DEF Config, Configs
<1>3. CASE Put
  <2>1. PICK p \in Path, d \in Written, rs \in Rules :
          Writes(p, "config", Config(d, rs)) /\ parses' = DropsCache(p)
    BY <1>3 DEF Put
  <2>2. Config(d, rs) \in Configs
    BY <1>2 DEF Written
  <2> QED
    BY <2>1, <2>2, EditHolds
<1>4. CASE PatchConfig
  <2> DEFINE old == IF ReadConfig("agent") = <<>> THEN EmptyConfig
                    ELSE ReadConfig("agent")[1]
  <2>1. old \in Configs
    BY <1>1, ReadsAreCurrent, ParsedTyped DEF PermissionsInv, Path
  <2>2. PICK new \in Configs :
          Writes("agent", "config", new) /\ parses' = DropsCache("agent")
    <3>1. \A d \in Written : [old EXCEPT !.default = d] \in Configs
      BY <2>1 DEF Configs, Written
    <3>2. \A rs \in Rules : [old EXCEPT !.rules = rs] \in Configs
      BY <2>1, PermissionBounds DEF Configs
    <3> QED
      BY <1>4, <3>1, <3>2 DEF PatchConfig
  <2>3. "agent" \in Path
    BY DEF Path
  <2> QED
    BY <2>2, <2>3, EditHolds
<1>5. CASE EditedByHand
  <2>1. PICK p \in Path, content \in {"none", "broken", "config"},
             config \in Configs :
          Writes(p, content, config) /\ parses' = parses
    BY <1>1, <1>2, <1>5 DEF EditedByHand
  <2> QED
    BY <2>1, EditHolds
<1>6. CASE Get
  <2>1. PICK p \in Path : parses' = CacheAfter({p})
    BY <1>6 DEF Get
  <2>2. {p} \in SUBSET Path
    OBVIOUS
  <2>3. UNCHANGED <<disk, edits, rate, role, turns, letThrough>>
    BY <1>6 DEF Get
  <2> QED
    BY <2>1, <2>2, <2>3, ReadingHolds
       DEF PermissionsInv, PermissionsTypeOK, WindowsCount
<1>7. CASE TurnStarts \/ HourPasses
  <2>1. /\ UNCHANGED <<disk, parses, edits, role>>
        /\ rate' \in [turn : 0 .. PerTurn, hour : 0 .. PerHour]
    BY <1>7, PermissionBounds
       DEF TurnStarts, HourPasses, PermissionsInv, PermissionsTypeOK
  <2>2. WindowsCount'
    BY <1>7
       DEF TurnStarts, HourPasses, PermissionsInv, PermissionsTypeOK,
           WindowsCount
  <2>3. ParsesAreOfFiles'
    BY <2>1 DEF PermissionsInv, ParsesAreOfFiles, Parsed
  <2> QED
    BY <2>1, <2>2, <2>3 DEF PermissionsInv, PermissionsTypeOK
<1>8. CASE CanUseTool
  <2>1. PICK tool \in KnownTool, override \in BOOLEAN :
          /\ parses' = CacheAfter(PathsRead(tool))
          /\ IF Verdict(tool) = "fork" /\ override /\ WithinLimits
             THEN /\ rate' = [turn |-> rate.turn + 1, hour |-> rate.hour + 1]
                  /\ letThrough' = [turn |-> letThrough.turn + 1,
                                    hour |-> letThrough.hour + 1]
             ELSE UNCHANGED <<rate, letThrough>>
          /\ UNCHANGED <<disk, edits, role, turns>>
    BY <1>8 DEF CanUseTool
  <2>2. PathsRead(tool) \in SUBSET Path
    BY DEF PathsRead, Path
  <2>3. /\ rate' \in [turn : 0 .. PerTurn, hour : 0 .. PerHour]
        /\ WindowsCount'
    BY <2>1, PermissionBounds
       DEF WithinLimits, PermissionsInv, PermissionsTypeOK, WindowsCount
  <2> QED
    BY <2>1, <2>2, <2>3, ReadingHolds DEF PermissionsInv, PermissionsTypeOK
<1>9. CASE UNCHANGED permissionVars
  BY <1>9
     DEF permissionVars, PermissionsInv, PermissionsTypeOK, ParsesAreOfFiles,
         Parsed, WindowsCount
<1> QED
  BY <1>3, <1>4, <1>5, <1>6, <1>7, <1>8, <1>9 DEF PermissionsNext

(* The files and the caches begin empty.                                    *)
LEMMA PermissionsStart == PermissionsInit => PermissionsInv
<1> SUFFICES ASSUME PermissionsInit PROVE PermissionsInv
  OBVIOUS
<1>1. EmptyConfig \in Configs
  BY DEF EmptyConfig, Config, Configs, Actions
<1>2. disk \in [Path -> [content : {"none", "broken", "config"},
                         config : Configs, mtime : 0 .. MaxEdits]]
  BY <1>1, PermissionBounds DEF PermissionsInit
<1>3. PermissionsTypeOK
  BY <1>2, PermissionBounds DEF PermissionsInit, PermissionsTypeOK
<1>4. ParsesAreOfFiles /\ WindowsCount
  BY DEF PermissionsInit, ParsesAreOfFiles, WindowsCount
<1> QED
  BY <1>3, <1>4 DEF PermissionsInv

(* The files stay configurations with a default and lines that speak of a   *)
(* tool or of all, a cache holds one parse at most, and no window of the    *)
(* limit is overdrawn.                                                      *)
THEOREM PermissionsTyping == PermissionsSpec => []PermissionsTypeOK
<1>1. PermissionsInv => PermissionsTypeOK
  BY DEF PermissionsInv
<1> QED
  BY <1>1, PermissionsStart, PermissionsStep, PTL DEF PermissionsSpec

(* However PUTs, PATCHes, edits by hand and reads through the two caches    *)
(* mix, for any tools, rule lists and numbers of writes, turns and hours:   *)
(* a call is judged by the first line about its tool that the files hold at *)
(* that moment, and no budget of overrides is exceeded.                     *)
THEOREM CallsAreJudged == PermissionsSpec => []RulesDecide
BY PermissionsStart, PermissionsStep, VerdictsHold, PTL DEF PermissionsSpec
=============================================================================
