----------------------------- MODULE MCServices -----------------------------
(***************************************************************************)
(* Fifteen components that serve the turns or stand beside them, each on a *)
(* small instance, in one run.  They share no variable (where two touch    *)
(* one file, each module has the other side as its environment), so a      *)
(* behaviour is one of a single service: `service` names it and is chosen  *)
(* at the start.  Three are instantiated over the slots v1 to v7, of which *)
(* each uses as many as it has variables; the other twelve, most of which  *)
(* have theorems, are extended and have variables of their own.            *)
(***************************************************************************)
EXTENDS RunFrames, ApprovalGate, CronLock, GoalContinuation,
        ConversationList, SearchIndex, RunLedger, ToolPermissions,
        CronExpression, MessageTimes, StreamCoalescer, TextSplitter,
        TLC

CONSTANTS n1, n2, n3, n4, n5, none   \* model values

VARIABLES
  service,
  v1, v2, v3, v4, v5, v6, v7

Rule(tool, action) == [tool |-> tool, action |-> action]

(* Rule lists: none, one for one tool, and a wildcard behind it.            *)
MCRules ==
  {<<>>, <<Rule(n1, "fork")>>, <<Rule("*", "deny")>>,
   <<Rule(n1, "allow"), Rule("*", "ask")>>}

(* Tags that begin alike, as "<a2ui-json>" and "</a2ui-json>" do.          *)
MCOpen == <<n1, n2>>
MCClose == <<n1, n3, n2>>

MCConvOf == (n3 :> n1) @@ (n4 :> n2)

Repair == INSTANCE TranscriptRepair WITH
  Caller <- {n1, n2}, ToolCall <- {n3}, Overlapping <- TRUE, MaxRecords <- 4,
  MaxHits <- 1, transcript <- v1, fresh <- v2, callers <- v3, heal <- v4,
  hits <- v5

Cache == INSTANCE MessageCache WITH
  Reader <- {n1}, Probe <- 1, MaxLines <- 3, MaxRewrites <- 1, Sync <- TRUE,
  file <- v1, next <- v2, memory <- v3, rewrites <- v4, owed <- v5, cache <- v6,
  readers <- v7

(* Two readers that wait, of a file of two lines.                           *)
Readers == INSTANCE MessageCache WITH
  Reader <- {n1, n2}, Probe <- 1, MaxLines <- 2, MaxRewrites <- 1,
  Sync <- FALSE,
  file <- v1, next <- v2, memory <- v3, rewrites <- v4, owed <- v5,
  cache <- v6, readers <- v7

Chat == INSTANCE ChatResponse WITH
  Otid <- {n1, n2}, NoOtid <- none, MaxFrames <- 4, raw <- v1, frames <- v2,
  wire <- v3, text <- v4, stop <- v5, usage <- v6, turn <- v7

Slots == <<v1, v2, v3, v4, v5, v6, v7>>
Extended == <<framesVars, vars, lockVars, goalVars, listVars, searchVars,
              ledgerVars, permissionVars, request, timesVars,
              coalescerVars, splitterVars>>
servicesVars == <<service, Slots, Extended>>

(* What a service leaves alone: the slots after its last one, and the       *)
(* modules that are extended, or all of these but its own.                  *)
After7 == <<service, Extended>>
After5 == <<v6, v7, After7>>
AllSlots == <<service, Slots>>

Empty7 ==
  /\ Init /\ (server \/ service = "approvals")
  /\ PermissionsInit /\ (role = "main" \/ service = "permissions")
  /\ FramesInit /\ LockInit /\ GoalInit /\ ListInit
  /\ SearchInit /\ LedgerInit /\ ScheduleInit
  /\ TimesInit /\ (legacy = NoMap \/ service = "times")
  /\ CoalescerInit /\ SplitterInit
Empty5 == v6 = 0 /\ v7 = 0 /\ Empty7
Empty0 == v1 = 0 /\ v2 = 0 /\ v3 = 0 /\ v4 = 0 /\ v5 = 0 /\ Empty5

(* What tells two states apart: all of it but the variables that wait for   *)
(* other services, which never change, and but which of the two askers of   *)
(* the list and of the two readers of a file is which, as nothing names     *)
(* them: for two, the set of what they hold says all there is.  Nor are the *)
(* adapters of a conversation named: it matters which turns share one.      *)
Unnamed(f) == {f[p] : p \in DOMAIN f}
SameLane == {{q \in Turn : lane[q] = lane[r]} : r \in Turn}

OwnState ==
  CASE service = "frames" -> <<service, framesVars>>
    [] service = "approvals" -> <<service, vars>>
    [] service = "goals" -> <<service, goalVars>>
    [] service = "list" -> <<service, dirs, conv, stamp, cached, load,
                             Unnamed(asker), missed>>
    [] service = "lock" -> <<service, lockVars>>
    [] service = "search" -> <<service, searchVars>>
    [] service = "ledger" -> <<service, written, SameLane, stage, heed, before,
                               held, snap, record, place, created, beside,
                               mishaps>>
    [] service = "permissions" -> <<service, permissionVars>>
    [] service = "schedules" -> <<service, request>>
    [] service = "times" -> <<service, timesVars>>
    [] service = "coalescer" -> <<service, coalescerVars>>
    [] service = "splitter" -> <<service, splitterVars>>
    [] service = "readers" -> <<service, v1, v2, v3, v4, v5, v6, Unnamed(v7)>>
    [] OTHER -> AllSlots

ServicesInit ==
  \/ /\ service \in {"frames", "approvals", "goals", "list", "lock", "search",
                     "ledger", "permissions", "schedules", "times",
                     "coalescer", "splitter"}
     /\ Empty0
  \/ service = "repair" /\ Repair!TranscriptInit /\ Empty5
  \/ service = "cache" /\ Cache!Init /\ Empty7
  \/ service = "readers" /\ Readers!Init /\ Empty7
  \/ service = "chat" /\ Chat!ChatInit /\ Empty7

FramesStep ==
  /\ service = "frames" /\ FramesNext
  /\ UNCHANGED <<AllSlots, vars, lockVars, goalVars, listVars, searchVars,
                 ledgerVars, permissionVars, request, timesVars,
                 coalescerVars, splitterVars>>
ApprovalsStep ==
  /\ service = "approvals" /\ Next
  /\ UNCHANGED <<AllSlots, framesVars, lockVars, goalVars, listVars,
                 searchVars, ledgerVars, permissionVars, request, timesVars,
                 coalescerVars, splitterVars>>
GoalsStep ==
  /\ service = "goals" /\ GoalNext
  /\ UNCHANGED <<AllSlots, framesVars, vars, lockVars, listVars, searchVars,
                 ledgerVars, permissionVars, request, timesVars,
                 coalescerVars, splitterVars>>
ListStep ==
  /\ service = "list" /\ ListNext
  /\ UNCHANGED <<AllSlots, framesVars, vars, lockVars, goalVars, searchVars,
                 ledgerVars, permissionVars, request, timesVars,
                 coalescerVars, splitterVars>>
LockStep ==
  /\ service = "lock" /\ LockNext
  /\ UNCHANGED <<AllSlots, framesVars, vars, goalVars, listVars, searchVars,
                 ledgerVars, permissionVars, request, timesVars,
                 coalescerVars, splitterVars>>
SearchStep ==
  /\ service = "search" /\ SearchNext
  /\ UNCHANGED <<AllSlots, framesVars, vars, lockVars, goalVars, listVars,
                 ledgerVars, permissionVars, request, timesVars,
                 coalescerVars, splitterVars>>
LedgerStep ==
  /\ service = "ledger" /\ LedgerNext
  /\ UNCHANGED <<AllSlots, framesVars, vars, lockVars, goalVars, listVars,
                 searchVars, permissionVars, request, timesVars,
                 coalescerVars, splitterVars>>
PermissionsStep ==
  /\ service = "permissions" /\ PermissionsNext
  /\ UNCHANGED <<AllSlots, framesVars, vars, lockVars, goalVars, listVars,
                 searchVars, ledgerVars, request, timesVars, coalescerVars,
                 splitterVars>>
SchedulesStep ==
  /\ service = "schedules" /\ ScheduleNext
  /\ UNCHANGED <<AllSlots, framesVars, vars, lockVars, goalVars, listVars,
                 searchVars, ledgerVars, permissionVars, timesVars,
                 coalescerVars, splitterVars>>
TimesStep ==
  /\ service = "times" /\ TimesNext
  /\ UNCHANGED <<AllSlots, framesVars, vars, lockVars, goalVars, listVars,
                 searchVars, ledgerVars, permissionVars, request,
                 coalescerVars, splitterVars>>
CoalescerStep ==
  /\ service = "coalescer" /\ CoalescerNext
  /\ UNCHANGED <<AllSlots, framesVars, vars, lockVars, goalVars, listVars,
                 searchVars, ledgerVars, permissionVars, request, timesVars,
                 splitterVars>>
SplitterStep ==
  /\ service = "splitter" /\ SplitterNext
  /\ UNCHANGED <<AllSlots, framesVars, vars, lockVars, goalVars, listVars,
                 searchVars, ledgerVars, permissionVars, request, timesVars,
                 coalescerVars>>
RepairStep == service = "repair" /\ Repair!TranscriptNext /\ UNCHANGED After5
CacheStep == service = "cache" /\ Cache!Next /\ UNCHANGED After7
ReadersStep == service = "readers" /\ Readers!Next /\ UNCHANGED After7
ChatStep == service = "chat" /\ Chat!ChatNext /\ UNCHANGED After7

ServicesNext ==
  \/ FramesStep \/ ApprovalsStep \/ GoalsStep \/ RepairStep
  \/ CacheStep \/ ReadersStep \/ ChatStep \/ PermissionsStep \/ CoalescerStep
  \/ SplitterStep \/ SearchStep \/ LedgerStep \/ ListStep
  \/ SchedulesStep \/ TimesStep \/ LockStep

ServicesSpec == ServicesInit /\ [][ServicesNext]_servicesVars

-----------------------------------------------------------------------------
(* Properties: those of the modules, each where its service runs.          *)
(* EachFrameOnce and FollowersHaveAll are those of RunFrames, VerdictsHold *)
(* and ListedIffParked those of ApprovalGate, StopReachesTheTurn that of   *)
(* GoalContinuation, RequestsSeeWrites that of ConversationList,           *)
(* OneScheduler that of CronLock, FreshIsCurrent that of SearchIndex,      *)
(* AttributionHolds that of RunLedger, RulesDecide that of                 *)
(* ToolPermissions, SchedulesAreAsNoted that of CronExpression and         *)
(* TimesStay that of MessageTimes.                                         *)

(* Every service keeps the types of its module.                             *)
TypesOK ==
  CASE service = "frames" -> FramesTypeOK
    [] service = "approvals" -> TypeOK
    [] service = "goals" -> GoalTypeOK
    [] service = "repair" -> Repair!TranscriptTypeOK
    [] service = "cache" -> Cache!TypeOK
    [] service = "readers" -> Readers!TypeOK
    [] service = "chat" -> Chat!ChatTypeOK
    [] service = "permissions" -> PermissionsTypeOK
    [] service = "coalescer" -> CoalescerTypeOK
    [] service = "splitter" -> SplitterTypeOK
    [] service = "search" -> SearchTypeOK
    [] service = "ledger" -> LedgerTypeOK
    [] service = "list" -> ListTypeOK
    [] service = "schedules" -> ScheduleTypeOK
    [] service = "times" -> TimesTypeOK
    [] service = "lock" -> LockTypeOK

(* What clients are shown is what was said.  A reader of the messages gets  *)
(* what the file began with all through its read and nothing else, nothing  *)
(* twice, and at any moment a read nothing overlaps shows exactly the       *)
(* messages of the file, in their order.  However frames are joined,        *)
(* delayed and cut up on their way, the event stream and the JSON body of a *)
(* turn tell one story, the coalescer loses and doubles no chunk, and where *)
(* a message is cut does not show in its text and its A2UI blocks.          *)
ClientsSeeTheStory ==
  CASE service = "cache" -> Cache!ReadIsFaithful /\ Cache!CacheNeverMisleads
    [] service = "readers" ->
         Readers!ReadIsFaithful /\ Readers!CacheNeverMisleads
    [] service = "chat" -> Chat!SameStory
    [] service = "coalescer" -> EachChunkOnce
    [] service = "splitter" -> CutsDoNotShow
    [] OTHER -> TRUE
=============================================================================
