--------------------------- MODULE ToolPermissions ---------------------------
(***************************************************************************)
(* Server-side tool permissions (permissions.ts, and what the adapter's    *)
(* permission callback makes of the verdict): a file of rules for the      *)
(* agent and one for all agents, each read through a cache that is keyed   *)
(* by the file's time and size, written by the REST routes under a lock    *)
(* and by whoever edits them by hand, and the budget of overrides an agent *)
(* has for a rule that wants its work forked off.                          *)
(*                                                                         *)
(* A rule's pattern is a tool or "*" (any tool); that two versions of a    *)
(* file differ in time or size is assumed.                                 *)
(***************************************************************************)
EXTENDS Naturals, Sequences, FiniteSets, SequencesExt, FiniteSetsExt

CONSTANTS
  KnownTool,
  Rules,     \* the rule lists that get written
  ForkOn,    \* SHIM_FORK_VERDICT
  PerTurn,   \* SHIM_FORK_OVERRIDE_PER_TURN
  PerHour,   \* SHIM_FORK_OVERRIDE_PER_HOUR
  MaxEdits,  \* bound: writes to the two files
  MaxTurns   \* bound: turns, and hours

VARIABLES
  disk,   \* the agent's file and the global one
  parses,  \* configCache: file -> none or one [mtime, config]
  edits,  \* writes so far
  rate,   \* OverrideRateState of the conversation
  role,   \* getSessionRole of the conversation
  turns,  \* turns and hours so far
  letThrough   \* history: overrides of this turn and of this hour

permissionVars == <<disk, parses, edits, rate, role, turns, letThrough>>

Path == {"agent", "global"}
Actions == {"allow", "ask", "deny", "fork"}
Written == Actions \ {"fork"}   \* what the REST routes accept as default
Config(default, rules) == [default |-> default, rules |-> rules]
EmptyConfig == Config("allow", <<>>)
Lines == [tool : KnownTool \cup {"*"}, action : Actions]
Configs == [default : Actions, rules : Seq(Lines)]

ASSUME PermissionBounds ==
  /\ Rules \subseteq Seq(Lines)
  /\ PerTurn \in Nat /\ PerHour \in Nat /\ MaxEdits \in Nat

PermissionsTypeOK ==
  /\ disk \in [Path -> [content : {"none", "broken", "config"},
                        config : Configs, mtime : 0 .. MaxEdits]]
  /\ parses \in [Path -> Seq([mtime : 0 .. MaxEdits, config : Seq(Configs)])]
  /\ \A p \in Path : Len(parses[p]) <= 1
  /\ edits \in 0 .. MaxEdits /\ role \in {"main", "fork", "subagent"}
  /\ rate \in [turn : 0 .. PerTurn, hour : 0 .. PerHour]

PermissionsInit ==
  /\ disk = [p \in Path |->
               [content |-> "none", config |-> EmptyConfig, mtime |-> 0]]
  /\ parses = [p \in Path |-> <<>>] /\ edits = 0
  /\ rate = [turn |-> 0, hour |-> 0] /\ role \in {"main", "fork", "subagent"}
  /\ turns = 0 /\ letThrough = [turn |-> 0, hour |-> 0]

(***************************************************************************)
(* Reading                                                                 *)
(***************************************************************************)
Fresh(p) == parses[p] # <<>> /\ parses[p][1].mtime = disk[p].mtime

(* A file that cannot be parsed counts as none.                             *)
Parsed(p) ==
  IF disk[p].content = "config" THEN <<disk[p].config>> ELSE <<>>

(* readConfigAt: none or one configuration.                                 *)
ReadConfig(p) ==
  IF disk[p].content = "none" THEN <<>>
  ELSE IF Fresh(p) THEN parses[p][1].config ELSE Parsed(p)

(* What the cache holds once the paths in ps have been read.                *)
CacheAfter(ps) ==
  [p \in Path |->
     IF p \notin ps THEN parses[p]
     ELSE IF disk[p].content = "none" THEN <<>>
     ELSE <<[mtime |-> disk[p].mtime, config |-> ReadConfig(p)]>>]

Matches(rule, tool) == rule.tool = "*" \/ rule.tool = tool

(* The first of the lines that speaks about the tool: none or one.          *)
FirstMatch(lines, tool) ==
  LET hits == {i \in DOMAIN lines : Matches(lines[i], tool)}
  IN IF hits = {} THEN <<>> ELSE <<lines[Min(hits)]>>

(* The global configuration in force.                                       *)
ForAll ==
  IF ReadConfig("global") = <<>> THEN EmptyConfig ELSE ReadConfig("global")[1]

(* Mutant: the rules of all agents are asked first.                         *)
GlobalFirst(tool) ==
  LET agent == ReadConfig("agent")
      all == FirstMatch(ForAll.rules, tool)
      own == IF agent = <<>> THEN <<>> ELSE FirstMatch(agent[1].rules, tool)
  IN IF all # <<>> THEN all[1].action
     ELSE IF own # <<>> THEN own[1].action
     ELSE IF agent # <<>> THEN agent[1].default ELSE ForAll.default

(* evaluatePermission: the agent's rules, the rules of all, a default.      *)
Evaluate(tool) ==
  LET agent == ReadConfig("agent")
      own == IF agent = <<>> THEN <<>> ELSE FirstMatch(agent[1].rules, tool)
      all == FirstMatch(ForAll.rules, tool)
  IN IF own # <<>> THEN own[1].action
     ELSE IF all # <<>> THEN all[1].action
     ELSE IF agent # <<>> THEN agent[1].default ELSE ForAll.default

(* The global file is not read when a rule of the agent decides.            *)
PathsRead(tool) ==
  IF ReadConfig("agent") # <<>>
       /\ FirstMatch(ReadConfig("agent")[1].rules, tool) # <<>>
  THEN {"agent"} ELSE Path

(* evaluatePermissionWithFork: only the main thread is sent to fork.        *)
Verdict(tool) ==
  IF Evaluate(tool) = "fork" /\ ~(ForkOn /\ role = "main") THEN "allow"
  ELSE Evaluate(tool)

(***************************************************************************)
(* Writing                                                                 *)
(***************************************************************************)
Writes(p, content, config) ==
  /\ edits < MaxEdits /\ edits' = edits + 1
  /\ disk' = [disk EXCEPT ![p] = [content |-> content, config |-> config,
                                  mtime |-> edits + 1]]
  /\ UNCHANGED <<rate, role, turns, letThrough>>

(* writeConfigAtomic drops the parse of the file it has replaced.           *)
DropsCache(p) == [parses EXCEPT ![p] = <<>>]

(* PUT: writeAgentConfig, writeGlobalConfig.                                *)
Put ==
  \E p \in Path, d \in Written, rs \in Rules :
    /\ \A i \in DOMAIN rs : rs[i].action # "fork"
    /\ Writes(p, "config", Config(d, rs))
    /\ parses' = DropsCache(p)

(* PATCH: patchAgentConfig starts from the agent's own file, or from an     *)
(* empty one whose default is "allow", whatever the global default says.    *)
PatchConfig ==
  LET old == IF ReadConfig("agent") = <<>> THEN EmptyConfig
             ELSE ReadConfig("agent")[1]
  IN \/ \E d \in Written :
          /\ Writes("agent", "config", [old EXCEPT !.default = d])
          /\ parses' = DropsCache("agent")
     \/ \E rs \in Rules :
          /\ \A i \in DOMAIN rs : rs[i].action # "fork"
          /\ Writes("agent", "config", [old EXCEPT !.rules = rs])
          /\ parses' = DropsCache("agent")

(* An operator edits, breaks or removes a file.                             *)
EditedByHand ==
  \E p \in Path :
    /\ \/ \E d \in Actions, rs \in Rules : Writes(p, "config", Config(d, rs))
       \/ disk[p].content # "none" /\ Writes(p, "broken", EmptyConfig)
       \/ disk[p].content # "none" /\ Writes(p, "none", EmptyConfig)
    /\ UNCHANGED parses

(* GET of a configuration.                                                  *)
Get ==
  /\ \E p \in Path : parses' = CacheAfter({p})
  /\ UNCHANGED <<disk, edits, rate, role, turns, letThrough>>

(***************************************************************************)
(* The permission callback                                                 *)
(***************************************************************************)
(* resetOverrideTurnCounter, at the start of every attempt of a turn.       *)
TurnStarts ==
  /\ turns < MaxTurns /\ turns' = turns + 1
  /\ rate' = [rate EXCEPT !.turn = 0]
  /\ letThrough' = [letThrough EXCEPT !.turn = 0]
  /\ UNCHANGED <<disk, parses, edits, role>>

(* An hour has gone by since the window began.                              *)
HourPasses ==
  /\ turns < MaxTurns /\ turns' = turns + 1
  /\ rate' = [rate EXCEPT !.hour = 0]
  /\ letThrough' = [letThrough EXCEPT !.hour = 0]
  /\ UNCHANGED <<disk, parses, edits, role>>

(* checkOverrideRateLimit: nothing left of a budget means "ask" instead.    *)
WithinLimits == rate.turn < PerTurn /\ rate.hour < PerHour

(* A fork verdict is overridden by the agent; every other call changes      *)
(* nothing but the cache.                                                   *)
CanUseTool ==
  \E tool \in KnownTool, override \in BOOLEAN :
    /\ parses' = CacheAfter(PathsRead(tool))
    /\ IF Verdict(tool) = "fork" /\ override /\ WithinLimits
       THEN /\ rate' = [turn |-> rate.turn + 1, hour |-> rate.hour + 1]
            /\ letThrough' = [turn |-> letThrough.turn + 1,
                              hour |-> letThrough.hour + 1]
       ELSE UNCHANGED <<rate, letThrough>>
    /\ UNCHANGED <<disk, edits, role, turns>>

PermissionsNext ==
  \/ Put \/ PatchConfig \/ EditedByHand \/ Get
  \/ TurnStarts \/ HourPasses \/ CanUseTool

PermissionsSpec == PermissionsInit /\ [][PermissionsNext]_permissionVars

(***************************************************************************)
(* Properties                                                              *)
(***************************************************************************)
(* What the files say now: the rules of the agent's readable file, those of *)
(* all agents, and the two defaults as lines about any tool.                *)
RulesOf(p) == IF Parsed(p) = <<>> THEN <<>> ELSE Parsed(p)[1].rules
AnyTool(action) == [tool |-> "*", action |-> action]
DefaultOf(p) ==
  IF Parsed(p) = <<>> THEN <<>> ELSE <<AnyTool(Parsed(p)[1].default)>>
Sayings ==
  RulesOf("agent") \o (RulesOf("global") \o (DefaultOf("agent")
    \o (DefaultOf("global") \o <<AnyTool("allow")>>)))

(* A call is judged by what the two files say at that moment, whoever wrote *)
(* them last and however: by the first line about the tool, the agent's     *)
(* before everybody's, rules before defaults; a worker is never told to     *)
(* fork.  And an agent cannot override a fork more often than its budgets   *)
(* for a turn and for an hour allow.                                        *)
RulesDecide ==
  /\ \A tool \in KnownTool :
       LET said == FirstMatch(Sayings, tool)[1].action
       IN Verdict(tool) =
            IF said = "fork" /\ (role # "main" \/ ~ForkOn) THEN "allow"
            ELSE said
  /\ letThrough.turn <= PerTurn /\ letThrough.hour <= PerHour

=============================================================================
