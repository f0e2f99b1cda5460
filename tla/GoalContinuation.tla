-------------------------- MODULE GoalContinuation --------------------------
(***************************************************************************)
(* The driver that keeps an agent at its goal (goal-continuation.ts): the  *)
(* goals in the settings file of Letta Code, the commands that read, wait  *)
(* and rewrite that file (native-goal-mode.ts, goal-control-tool.ts), the  *)
(* loop that issues one continuation turn after another, its kicks after a *)
(* user's turn and at boot (mobile-channel-host.ts), and the stop that     *)
(* cancels the turn a loop is in.                                          *)
(***************************************************************************)
EXTENDS Naturals, FiniteSets

CONSTANTS
  GoalConv,    \* conversations that may have a goal
  Loop,        \* bound: identities for the loops that run at a time
  NoLoop,
  Budget,      \* token budget of a goal
  TurnTokens,  \* what a turn may use: a set of numbers
  MaxIter,     \* SHIM_GOAL_MAX_ITERATIONS
  MaxCommands  \* bound: commands, external writes and user turns

ASSUME GoalAssumption ==
  /\ Budget \in Nat /\ TurnTokens \subseteq Nat /\ MaxIter \in Nat
  /\ NoLoop \notin Loop /\ NoLoop \notin GoalConv

VARIABLES
  settings,  \* .letta/settings.local.json: conversation -> its goal
  commands,  \* /goal commands and goal_control calls that wait for a lookup
  kicks,     \* kickGoalContinuation calls that wait for their import
  loops,     \* every loop: its conversation, its iteration, where it is
  active,    \* activeLoops
  stops,     \* stopRequested
  current,   \* currentRuns: conversation -> the loop whose run it is
  late,      \* runs created for a goal since it was last to be driven
  issued,    \* commands, external writes and user turns so far
  serving    \* the process is running

loopVars == <<loops, active, stops, current, late>>
goalVars == <<settings, commands, kicks, loopVars, issued, serving>>

NoGoal == [status |-> "none", used |-> 0]
GoalStatuses == {"none", "active", "paused", "complete", "blocked"}
Goals == [status : GoalStatuses, used : Nat]
Acts == {"set", "pause", "resume", "complete", "blocked", "clear"}
Off == [conv |-> NoLoop, iter |-> 0, pc |-> "off"]

GoalTypeOK ==
  /\ settings \in [GoalConv -> Goals]
  /\ \A c \in commands : /\ c.conv \in GoalConv /\ c.act \in Acts
                         /\ c.read \in [GoalConv -> Goals]
  /\ kicks \subseteq GoalConv
  /\ active \subseteq GoalConv /\ stops \subseteq active
  /\ loops \in [Loop -> [conv : GoalConv \cup {NoLoop}, iter : 0 .. MaxIter,
                         pc : {"off", "sending", "running"}]]
  /\ current \in [GoalConv -> Loop \cup {NoLoop}]
  /\ late \in [GoalConv -> Nat] /\ issued \in 0 .. MaxCommands
  /\ serving \in BOOLEAN

GoalInit ==
  /\ settings = [k \in GoalConv |-> NoGoal]
  /\ commands = {} /\ kicks = {} /\ issued = 0 /\ serving = TRUE
  /\ loops = [l \in Loop |-> Off] /\ active = {} /\ stops = {}
  /\ current = [k \in GoalConv |-> NoLoop] /\ late = [k \in GoalConv |-> 0]

Driven(g) == g.status = "active" /\ g.used < Budget

Issue == serving /\ issued < MaxCommands /\ issued' = issued + 1

(***************************************************************************)
(* The commands                                                            *)
(***************************************************************************)
(* applyNativeGoalCommandForAgent and updateNativeGoalStatusForAgent read   *)
(* the settings, then wait for the conversation to be looked up.  A goal's  *)
(* own agent can end it while it is in a turn, the user can do anything.    *)
Command(k, act) ==
  /\ Issue
  /\ act = "blocked" => \E l \in Loop : /\ loops[l].conv = k
                                         /\ loops[l].pc = "running"
  /\ commands' = commands \cup {[conv |-> k, act |-> act, read |-> settings]}
  /\ UNCHANGED <<settings, kicks, loopVars, serving>>

(* Only a goal that is there can be paused, resumed or ended.               *)
Allowed(c) == c.act \in {"set", "clear"} \/ c.read[c.conv] # NoGoal

Changed(g, act) ==
  CASE act = "set" -> [status |-> "active", used |-> 0]
    [] act = "clear" -> NoGoal
    [] act = "pause" -> [g EXCEPT !.status = "paused"]
    [] act = "resume" -> [g EXCEPT !.status = "active"]
    [] OTHER -> [g EXCEPT !.status = act]

Settled(s) ==
  late' = [k \in GoalConv |-> IF Driven(s[k]) THEN 0 ELSE late[k]]

(* The whole file is written as it was read.  A goal that ends has its loop *)
(* stopped: by a flag if there is a loop, and by the cancellation of the    *)
(* run it is in, which ends like any other.                                 *)
CommandDone(c) ==
  /\ serving /\ c \in commands /\ commands' = commands \ {c}
  /\ IF Allowed(c)
     THEN /\ settings' = [c.read EXCEPT ![c.conv] = Changed(@, c.act)]
          /\ stops' = IF c.act \notin {"set", "resume"} /\ c.conv \in active
                      THEN stops \cup {c.conv} ELSE stops
          /\ Settled(settings')
     ELSE UNCHANGED <<settings, stops, late>>
  /\ UNCHANGED <<kicks, loops, active, current, issued, serving>>

(* The CLI works on the same file: /goal in a terminal.                     *)
ExternalWrite(k, status) ==
  /\ Issue /\ settings[k] # NoGoal
  /\ settings' = [settings EXCEPT ![k].status = status]
  /\ Settled(settings')
  /\ UNCHANGED <<commands, kicks, loops, active, stops, current, serving>>

(***************************************************************************)
(* The loop                                                                *)
(***************************************************************************)
(* The end of a user's turn.                                                *)
UserTurnEnds(k) ==
  /\ Issue /\ kicks' = kicks \cup {k}
  /\ UNCHANGED <<settings, commands, loopVars, serving>>

(* Mutant: a kick starts a loop whether one is running or not.              *)
FreeForAll(k) == TRUE

Free(k) == k \notin active

(* maybeContinue.  The first turn is sent before anything else happens.     *)
Kick(k) ==
  /\ serving /\ k \in kicks /\ kicks' = kicks \ {k}
  /\ IF Free(k) /\ Driven(settings[k])
     THEN \E l \in Loop :
            /\ loops[l] = Off
            /\ loops' = [loops EXCEPT ![l] = [conv |-> k, iter |-> 1,
                                              pc |-> "sending"]]
            /\ active' = active \cup {k} /\ stops' = stops \ {k}
     ELSE UNCHANGED <<loops, active, stops>>
  /\ UNCHANGED <<settings, commands, current, late, issued, serving>>

(* onRunCreated: from here on a stop finds the run.                         *)
RunCreated(l) ==
  LET k == loops[l].conv IN
  /\ serving /\ loops[l].pc = "sending"
  /\ loops' = [loops EXCEPT ![l].pc = "running"]
  /\ current' = [current EXCEPT ![k] = l]
  /\ late' = [late EXCEPT ![k] = IF Driven(settings[k]) THEN 0 ELSE @ + 1]
  /\ UNCHANGED <<settings, commands, kicks, active, stops, issued, serving>>

Goes(l, g) ==
  /\ loops[l].conv \notin stops /\ loops[l].iter < MaxIter /\ Driven(g)

LoopOver(l) ==
  /\ loops' = [loops EXCEPT ![l] = Off]
  /\ active' = active \ {loops[l].conv} /\ stops' = stops \ {loops[l].conv}

(* The turn is over: its usage goes to the goal if that is still active,    *)
(* then the loop sends the next turn or ends.                               *)
TurnEnds(l, tokens) ==
  LET k == loops[l].conv
      goal == IF settings[k].status = "active"
              THEN [settings[k] EXCEPT !.used = @ + tokens] ELSE settings[k]
  IN
  /\ serving /\ loops[l].pc = "running"
  /\ settings' = [settings EXCEPT ![k] = goal]
  /\ current' = [current EXCEPT ![k] = NoLoop]
  /\ IF Goes(l, goal)
     THEN /\ loops' = [loops EXCEPT ![l].iter = @ + 1, ![l].pc = "sending"]
          /\ UNCHANGED <<active, stops>>
     ELSE LoopOver(l)
  /\ UNCHANGED <<commands, kicks, late, issued, serving>>

(* An error ends the loop, before or after the run was created.             *)
TurnFails(l) ==
  /\ serving /\ loops[l] # Off /\ LoopOver(l)
  /\ current' = [current EXCEPT ![loops[l].conv] = NoLoop]
  /\ UNCHANGED <<settings, commands, kicks, late, issued, serving>>

LoopsDie ==
  /\ serving /\ serving' = FALSE
  /\ commands' = {} /\ kicks' = {} /\ active' = {} /\ stops' = {}
  /\ loops' = [l \in Loop |-> Off] /\ current' = [k \in GoalConv |-> NoLoop]
  /\ UNCHANGED <<settings, late, issued>>

(* rekickActiveGoalContinuationsOnBoot.                                     *)
BootKicks ==
  /\ ~serving /\ serving' = TRUE
  /\ kicks' = {k \in GoalConv : Driven(settings[k])}
  /\ UNCHANGED <<settings, commands, loopVars, issued>>

GoalNext ==
  \/ \E k \in GoalConv :
       \/ \E act \in Acts : Command(k, act)
       \/ \E s \in {"active", "paused", "complete"} : ExternalWrite(k, s)
       \/ UserTurnEnds(k) \/ Kick(k)
  \/ \E c \in commands : CommandDone(c)
  \/ \E l \in Loop :
       RunCreated(l) \/ (\E n \in TurnTokens : TurnEnds(l, n)) \/ TurnFails(l)
  \/ LoopsDie \/ BootKicks

GoalSpec == GoalInit /\ [][GoalNext]_goalVars

(***************************************************************************)
(* Properties                                                              *)
(***************************************************************************)
(* A loop has its conversation to itself and looks at the flag a stop sets,  *)
(* and the run a stop cancels is the one its turn is in.                    *)
StoppableLoops ==
  \A l \in Loop : loops[l] # Off =>
    /\ loops[l].conv \in active
    /\ loops[l].pc = "running" => current[loops[l].conv] = l
    /\ \A m \in Loop : loops[m].conv = loops[l].conv => m = l

(* ... at most one more run is created for a goal that was ended.           *)
AtMostOneLateTurn == \A k \in GoalConv : late[k] <= 1

(* A conversation has one goal loop, whoever kicked it, and a stop reaches  *)
(* it and its turn.  Pausing, completing or clearing a goal, or using up    *)
(* its budget, ends the work on it: at most one more run is created, that   *)
(* of a turn which was already on its way, whether the stop was heard or    *)
(* only written to the settings by another process.                         *)
StopReachesTheTurn == StoppableLoops /\ AtMostOneLateTurn
=============================================================================
