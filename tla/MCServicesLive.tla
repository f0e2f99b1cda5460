--------------------------- MODULE MCServicesLive ---------------------------
(***************************************************************************)
(* The services of MCServices that owe their clients an end, under their   *)
(* fairness and on smaller instances: the run's frames and their           *)
(* followers, the approvals a turn waits for, the subagents it starts, and *)
(* the repair of its transcript.  As there, a behaviour is one of a single *)
(* service and `service` names it.  All but RunFrames are extended and     *)
(* have variables of their own.                                            *)
(***************************************************************************)
EXTENDS ApprovalGate, SubagentRegistry, TranscriptRepair, TLC

CONSTANTS n1, n2, n3, n4, n5, none   \* model values

VARIABLES
  service,
  v1, v2, v3, v4, v5, v6, v7, v8, v9, v10, v11, v12, v13, v14, v15, v16

Frames == INSTANCE RunFrames WITH
  Sub <- {n1}, RingMax <- 2, SynthBase <- 90, MaxFrames <- 2, MaxTools <- 1,
  MaxAttempts <- 2, MaxBreaks <- 1, log <- v1, status <- v2, stopped <- v3,
  mem <- v4, count <- v5, ring <- v6, bridge <- v7, attempt <- v8,
  produced <- v9, missing <- v10, sub <- v11, unread <- v12, client <- v13,
  shut <- v14, owed <- v15, breaks <- v16

MCConvOf == (n3 :> n1) @@ (n4 :> n2)

Slots ==
  <<v1, v2, v3, v4, v5, v6, v7, v8, v9, v10, v11, v12, v13, v14, v15, v16>>
servicesVars == <<service, Slots, vars, subagentVars, transcriptVars>>

(* The variables a service leaves alone.                                    *)
ButFrames == <<service, vars, subagentVars, transcriptVars>>
ButApprovals == <<service, Slots, subagentVars, transcriptVars>>
ButSubagents == <<service, Slots, vars, transcriptVars>>
ButRepair == <<service, Slots, vars, subagentVars>>

NoFrames ==
  /\ v1 = 0 /\ v2 = 0 /\ v3 = 0 /\ v4 = 0 /\ v5 = 0 /\ v6 = 0
  /\ v7 = 0 /\ v8 = 0 /\ v9 = 0 /\ v10 = 0 /\ v11 = 0 /\ v12 = 0
  /\ v13 = 0 /\ v14 = 0 /\ v15 = 0 /\ v16 = 0

ServicesInit ==
  /\ \/ service = "frames" /\ Frames!FramesInit
     \/ service \in {"approvals", "subagents", "repair"} /\ NoFrames
  /\ RegistryInit /\ TranscriptInit
  /\ Init /\ (server \/ service = "approvals")

FramesStep == service = "frames" /\ Frames!FramesNext /\ UNCHANGED ButFrames
ApprovalsStep == service = "approvals" /\ Next /\ UNCHANGED ButApprovals
RepairStep == service = "repair" /\ TranscriptNext /\ UNCHANGED ButRepair
SubagentsStep ==
  service = "subagents" /\ RegistryNext /\ UNCHANGED ButSubagents

ServicesNext == FramesStep \/ ApprovalsStep \/ SubagentsStep \/ RepairStep

ServicesSpec == ServicesInit /\ [][ServicesNext]_servicesVars

(* The Fairness of each module, over the slots.                             *)
FramesFairness ==
  /\ WF_servicesVars(service = "frames" /\ Frames!AttemptEnds
                       /\ UNCHANGED ButFrames)
  /\ WF_servicesVars(service = "frames" /\ Frames!DrainExpires(n1)
                       /\ UNCHANGED ButFrames)

ApprovalsFairness ==
  /\ \A c \in 1 .. MaxCalls :
       /\ WF_servicesVars(service = "approvals" /\ c \in DOMAIN calls
                            /\ Resume(c) /\ UNCHANGED ButApprovals)
       /\ WF_servicesVars(service = "approvals" /\ c \in DOMAIN calls
                            /\ Timeout(c) /\ UNCHANGED ButApprovals)
  /\ WF_servicesVars(service = "approvals" /\ Boot
                       /\ UNCHANGED ButApprovals)

SubagentsFairness ==
  /\ \A t \in Task :
       WF_servicesVars(service = "subagents" /\ Age(t)
                        /\ UNCHANGED ButSubagents)
  /\ WF_servicesVars(service = "subagents" /\ Sweep
                       /\ UNCHANGED ButSubagents)

RepairFairness ==
  /\ \A u \in {n1, n2} :
       WF_servicesVars(service = "repair" /\ GoesOn(u)
                        /\ UNCHANGED ButRepair)
  /\ WF_servicesVars(service = "repair"
                       /\ (HealRead \/ HealWrite)
                       /\ UNCHANGED ButRepair)

ServicesFairness ==
  /\ FramesFairness /\ ApprovalsFairness
  /\ SubagentsFairness /\ RepairFairness

ServicesLiveSpec == ServicesSpec /\ ServicesFairness

-----------------------------------------------------------------------------
(* Properties: those of the modules, each where its service runs           *)

(* Who follows a run is told when it ends, however it ends: finalized,      *)
(* cancelled, shut down.  A turn that throws is not finalized, and its      *)
(* followers wait until somebody cancels the run.                           *)
SubscriptionsEnd ==
  (service = "frames" /\ Frames!Listening(n1))
    ~> (service = "frames" => ~Frames!Listening(n1) \/ v7 = "threw")
=============================================================================
