---------------------------- MODULE ApprovalGate ----------------------------
(***************************************************************************)
(* Tool approvals: the gates of agent-pool.ts, the durable record of       *)
(* pending-approval.ts, the two canUseTool handlers of                     *)
(* letta-sdk-adapter.ts, the ways a decision comes in (user_action in      *)
(* mobile-channel-host.ts, the REST endpoints of server.ts) and what       *)
(* happens to all of it when a turn is stopped, its worker is evicted or   *)
(* the process goes down.                                                  *)
(*                                                                         *)
(* Only calls that ask are modelled: a call that a rule, a mode or the     *)
(* lack of an approver answers at once leaves nothing but an audit line.   *)
(* An action is one macrotask; what a settled promise wakes up (Resume)    *)
(* runs before the next one, except that two frames of one WebSocket       *)
(* chunk are handled back to back.                                         *)
(***************************************************************************)
EXTENDS Naturals, Sequences, FiniteSets

CONSTANTS
  Conv, Run, Tool,
  ConvOf,        \* run -> its conversation
  MaxCalls,      \* bound: tool calls that get as far as the scope cache
  MaxDecisions,  \* bound: decisions the clients send
  None           \* no conversation: a policy for all of them

(* A run belongs to one conversation; the markers are neither.              *)
Setting ==
  /\ ConvOf \in [Run -> Conv] /\ None \notin Run /\ None \notin Conv
  /\ MaxCalls \in Nat
ASSUME ApprovalAssumption == Setting

VARIABLES
  server,    \* SHIM_SERVER_PERMISSIONS
  up,        \* the process is running
  run,       \* run -> "new", "running" or "ended" (run.json)
  turn,      \* conversation -> the run of its turn and that turn's cache
  calls,     \* every call: its run, its tool, where its handler is
  gates,     \* approvalGates: run -> the call parked on it, or 0
  armed,     \* calls whose gate timer is set
  file,      \* run -> pending-approval.json
  audit,     \* approval-decisions.jsonl: decisions of users only
  policies,  \* approvals.json
  wire,      \* decisions on their way to the server
  sent       \* how many decisions were sent

diskVars == <<file, audit, policies>>
gateVars == <<calls, gates, armed>>
vars == <<server, up, run, turn, calls, gates, armed, file, audit, policies,
          wire, sent>>

Approvals == {"once", "session", "forever"}
UserChoices == Approvals \cup {"deny"}
Statuses == {"none", "pending", "approved", "denied", "expired"}
NoFile == [call |-> 0, status |-> "none"]
NoTurn == [run |-> None, cache |-> {}]

Decision == [id : Nat, card : Nat, choice : UserChoices, via : {"ws", "rest"}]
Call == [run : Run, tool : Tool,
         wait : {"parked", "resuming", "done", "lost"},
         choice : UserChoices \cup {"none", "cached", "timeout", "evicted"},
         card : Nat]

TypeOK ==
  /\ server \in BOOLEAN /\ up \in BOOLEAN
  /\ run \in [Run -> {"new", "running", "ended"}]
  /\ turn \in [Conv -> [run : Run \cup {None}, cache : SUBSET Tool]]
  /\ calls \in Seq(Call) /\ Len(calls) <= MaxCalls
  /\ gates \in [Run -> 0 .. MaxCalls]
  /\ armed \in SUBSET (1 .. MaxCalls)
  /\ file \in [Run -> [call : 0 .. MaxCalls, status : Statuses]]
  /\ \A a \in audit : a.call \in 1 .. MaxCalls /\ a.choice \in UserChoices
  /\ policies \in SUBSET [tool : Tool, conv : Conv \cup {None}]
  /\ wire \in SUBSET Decision /\ sent \in 0 .. MaxDecisions

Init ==
  /\ server \in BOOLEAN /\ up = TRUE
  /\ run = [r \in Run |-> "new"]
  /\ turn = [k \in Conv |-> NoTurn]
  /\ calls = <<>> /\ gates = [r \in Run |-> 0] /\ armed = {}
  /\ file = [r \in Run |-> NoFile] /\ audit = {} /\ policies = {}
  /\ wire = {} /\ sent = 0

Waiting(c) == calls[c].wait = "parked"
(* No promise has been settled whose handler is still to run.               *)
AtRest == \A c \in DOMAIN calls : calls[c].wait # "resuming"

(* loadApprovalScopeCache: what was granted for good, or in this            *)
(* conversation.                                                            *)
CachedFor(k) == {p.tool : p \in {q \in policies : q.conv \in {None, k}}}

StartTurn(r) ==
  LET k == ConvOf[r] IN
  /\ up /\ AtRest /\ run[r] = "new" /\ turn[k] = NoTurn
  /\ run' = [run EXCEPT ![r] = "running"]
  /\ turn' = [turn EXCEPT ![k] = [run |-> r, cache |-> CachedFor(k)]]
  /\ UNCHANGED <<server, up, gateVars, diskVars, wire, sent>>

(* The CLI asks for one tool at a time.                                     *)
CanAsk(k) ==
  /\ up /\ AtRest /\ turn[k] # NoTurn /\ Len(calls) < MaxCalls
  /\ gates[turn[k].run] = 0

NewCall(k, t, wait, choice) ==
  calls' = Append(calls, [run |-> turn[k].run, tool |-> t, wait |-> wait,
                          choice |-> choice, card |-> 0])

CachedCall(k, t) ==
  /\ CanAsk(k) /\ t \in turn[k].cache
  /\ NewCall(k, t, "done", "cached")
  /\ UNCHANGED <<server, up, run, turn, gates, armed, diskVars, wire, sent>>

(* The record is written first, then the card goes out as a frame, then the *)
(* handler parks: all before the next macrotask.                            *)
Ask(k, t) ==
  LET c == Len(calls) + 1
      r == turn[k].run
  IN
  /\ CanAsk(k) /\ t \notin turn[k].cache
  /\ NewCall(k, t, "parked", "none")
  /\ gates' = [gates EXCEPT ![r] = c] /\ armed' = armed \cup {c}
  /\ file' = IF server
             THEN [file EXCEPT ![r] = [call |-> c, status |-> "pending"]]
             ELSE file
  /\ UNCHANGED <<server, up, run, turn, audit, policies, wire, sent>>

(* Mutant: the timer of the gate stays set.                                 *)
TimerStaysSet(r, d) ==
  IF gates[r] = 0
  THEN UNCHANGED gateVars
  ELSE /\ calls' = [calls EXCEPT ![gates[r]] =
                     [@ EXCEPT !.wait = "resuming", !.choice = d.choice,
                               !.card = d.card]]
       /\ gates' = [gates EXCEPT ![r] = 0]
       /\ armed' = armed

(* resolveApprovalGate.  The decision names the run, not the call.          *)
ResolveGate(r, d) ==
  IF gates[r] = 0
  THEN UNCHANGED gateVars
  ELSE /\ calls' = [calls EXCEPT ![gates[r]] =
                     [@ EXCEPT !.wait = "resuming", !.choice = d.choice,
                               !.card = d.card]]
       /\ gates' = [gates EXCEPT ![r] = 0]
       /\ armed' = armed \ {gates[r]}

(* recordApprovalPolicy: a deny or an approval for once grants nothing.     *)
Granted(r, t, choice) ==
  IF choice \in {"session", "forever"}
  THEN {[tool |-> t, conv |-> IF choice = "session" THEN ConvOf[r] ELSE None]}
  ELSE {}

(* Mutant: a record that was decided already is decided again.              *)
AnyRecord(r) == file[r].status # "none"

Undecided(r) == file[r].status = "pending"

(* resolveApproval: the record, the audit line, the policy, the gate.       *)
ResolveApproval(r, d) ==
  IF Undecided(r)
  THEN /\ file' = [file EXCEPT ![r].status =
                    IF d.choice = "deny" THEN "denied" ELSE "approved"]
       /\ audit' = audit \cup {[call |-> file[r].call, id |-> d.id,
                                choice |-> d.choice]}
       /\ policies' = policies
            \cup Granted(r, calls[file[r].call].tool, d.choice)
       /\ ResolveGate(r, d)
  ELSE UNCHANGED <<gateVars, diskVars>>

(* A client decides on a card it has on its screen.  Clients show the card  *)
(* of a call that was lost with its process as soon as they replay the run. *)
Decide(c, choice, via) ==
  /\ up /\ sent < MaxDecisions /\ c \in DOMAIN calls
  /\ calls[c].wait \in {"parked", "lost"}
  /\ sent' = sent + 1
  /\ wire' = wire \cup {[id |-> sent + 1, card |-> c, choice |-> choice,
                         via |-> via]}
  /\ UNCHANGED <<server, up, run, turn, gateVars, diskVars>>

(* user_action goes to the gate itself if the run has no record; the REST   *)
(* endpoints answer 404.                                                    *)
Deliver(d) ==
  LET r == calls[d.card].run IN
  /\ up /\ d \in wire /\ wire' = wire \ {d}
  /\ AtRest \/ d.via = "ws"
  /\ IF d.via = "ws" /\ file[r] = NoFile
     THEN ResolveGate(r, d) /\ UNCHANGED diskVars
     ELSE ResolveApproval(r, d)
  /\ UNCHANGED <<server, up, run, turn, sent>>

(* The handler goes on with the decision.  The funnel has written the audit *)
(* line and the policy of a recorded call; the other handler does so now.   *)
Resume(c) ==
  LET call == calls[c]
      k == ConvOf[call.run]
  IN
  /\ up /\ call.wait = "resuming"
  /\ calls' = [calls EXCEPT ![c].wait = "done"]
  /\ turn' = IF call.choice \in {"session", "forever"}
                /\ turn[k].run = call.run
             THEN [turn EXCEPT ![k].cache = @ \cup {call.tool}]
             ELSE turn
  /\ IF server
     THEN /\ file' = [file EXCEPT ![call.run] = NoFile]
          /\ UNCHANGED <<audit, policies>>
     ELSE /\ audit' = audit \cup {[call |-> c, id |-> call.card,
                                   choice |-> call.choice]}
          /\ policies' = policies
               \cup Granted(call.run, call.tool, call.choice)
          /\ UNCHANGED file
  /\ UNCHANGED <<server, up, run, gates, armed, wire, sent>>

(* Mutant: the rejection takes the gate and its timer and wakes nobody.     *)
GiveUpSilently(r, c, why) ==
  /\ gates' = [gates EXCEPT ![r] = 0] /\ armed' = armed \ {c}
  /\ file' = [file EXCEPT ![r] = NoFile] /\ UNCHANGED calls

(* A gate is rejected; its handler denies the call and removes the record.  *)
GiveUp(r, c, why) ==
  /\ gates' = [gates EXCEPT ![r] = 0] /\ armed' = armed \ {c}
  /\ file' = [file EXCEPT ![r] = NoFile]
  /\ calls' = [calls EXCEPT ![c] = [@ EXCEPT !.wait = "done",
                                             !.choice = why]]

Timeout(c) ==
  /\ up /\ AtRest /\ c \in armed
  /\ GiveUp(calls[c].run, c, "timeout")
  /\ UNCHANGED <<server, up, run, turn, audit, policies, wire, sent>>

(* rejectApprovalGate(activeRunId) of an evicted worker whose turn is on.   *)
Evict(k) ==
  LET r == turn[k].run IN
  /\ up /\ AtRest /\ turn[k] # NoTurn /\ gates[r] # 0
  /\ GiveUp(r, gates[r], "evicted")
  /\ UNCHANGED <<server, up, run, turn, audit, policies, wire, sent>>

(* The turn is over: its stream ended, it was stopped, or its watchdog      *)
(* fired.  A handler that is parked stays parked.                           *)
EndTurn(k) ==
  /\ up /\ AtRest /\ turn[k] # NoTurn
  /\ run' = [run EXCEPT ![turn[k].run] = "ended"]
  /\ turn' = [turn EXCEPT ![k] = NoTurn]
  /\ UNCHANGED <<server, up, gateVars, diskVars, wire, sent>>

(* What the end of the process takes with it.                               *)
Down ==
  /\ up' = FALSE /\ wire' = {}
  /\ gates' = [r \in Run |-> 0] /\ armed' = {}
  /\ turn' = [k \in Conv |-> NoTurn]
  /\ UNCHANGED <<server, sent>>

Crash ==
  /\ up /\ Down
  /\ calls' = [c \in DOMAIN calls |->
                IF calls[c].wait \in {"parked", "resuming"}
                THEN [calls[c] EXCEPT !.wait = "lost"] ELSE calls[c]]
  /\ UNCHANGED <<run, diskVars>>

(* finalizeRestartingRunsOnShutdown denies what the running runs ask for    *)
(* and stopAll rejects the gates of the turns that are on: their handlers   *)
(* run once more.  A call whose turn is over is lost with the process.      *)
Shutdown ==
  LET denied == {c \in DOMAIN calls :
                   Waiting(c) /\ run[calls[c].run] = "running"}
      heard == IF server THEN denied ELSE {}
  IN
  /\ up /\ AtRest /\ Down
  /\ calls' = [c \in DOMAIN calls |->
                CASE c \in heard ->
                       [calls[c] EXCEPT !.wait = "done", !.choice = "deny",
                                        !.card = c]
                  [] c \in denied \ heard ->
                       [calls[c] EXCEPT !.wait = "done",
                                        !.choice = "evicted"]
                  [] Waiting(c) /\ c \notin denied ->
                       [calls[c] EXCEPT !.wait = "lost"]
                  [] OTHER -> calls[c]]
  /\ file' = [r \in Run |-> IF \E c \in heard : calls[c].run = r
                            THEN NoFile ELSE file[r]]
  /\ audit' = audit \cup {[call |-> c, id |-> 0, choice |-> "deny"] :
                            c \in heard}
  /\ run' = [r \in Run |-> IF run[r] = "running" THEN "ended" ELSE run[r]]
  /\ UNCHANGED policies

(* Mutant: only a run that is still running has its approval expired, but   *)
(* the other sweep has ended them all.                                      *)
ExpiredIfRunning(r) == file[r].status = "pending" /\ run'[r] = "running"

Expired(r) == file[r].status = "pending"

(* The listen callback: sweepOrphanedRunningRunsOnBoot, then                *)
(* sweepPendingApprovalsOnBoot.                                             *)
Boot ==
  /\ ~up /\ up' = TRUE
  /\ run' = [r \in Run |-> IF run[r] = "running" THEN "ended" ELSE run[r]]
  /\ file' = [r \in Run |-> IF Expired(r)
                            THEN [file[r] EXCEPT !.status = "expired"]
                            ELSE file[r]]
  /\ UNCHANGED <<server, turn, gateVars, audit, policies, wire, sent>>

Next ==
  \/ \E r \in Run : StartTurn(r)
  \/ \E k \in Conv, t \in Tool : CachedCall(k, t) \/ Ask(k, t)
  \/ \E c \in 1 .. MaxCalls, choice \in UserChoices, via \in {"ws", "rest"} :
       Decide(c, choice, via)
  \/ \E d \in wire : Deliver(d)
  \/ \E c \in DOMAIN calls : Resume(c) \/ Timeout(c)
  \/ \E k \in Conv : Evict(k) \/ EndTurn(k)
  \/ Crash \/ Shutdown \/ Boot

Spec == Init /\ [][Next]_vars

(* A timer that is set fires, a settled promise runs its handler, and a     *)
(* process that went down is started again (systemd).                       *)
Fairness ==
  /\ \A c \in 1 .. MaxCalls :
       /\ WF_vars(c \in DOMAIN calls /\ Resume(c))
       /\ WF_vars(c \in DOMAIN calls /\ Timeout(c))
  /\ WF_vars(Boot)

LiveSpec == Spec /\ Fairness

(***************************************************************************)
(* Properties                                                              *)
(***************************************************************************)
(* Whatever two clients, the REST mirror and a shutdown send, a call gets   *)
(* one verdict of a user, the one its handler returned: what the audit      *)
(* trail says is what the tool was told.                                    *)
OneVerdict ==
  \A a \in audit :
    /\ \A b \in audit : a.call = b.call => a = b
    /\ calls[a.call].wait = "done" => calls[a.call].choice = a.choice

(* GET /approvals/pending lists a call exactly as long as its handler is    *)
(* parked on a gate with a timer: no card that nobody waits for, not even   *)
(* after a crash, and no turn that waits unseen.                            *)
ListedIffParked ==
  up => \A r \in Run :
    /\ file[r].status = "pending" =>
         Waiting(file[r].call) /\ gates[r] = file[r].call
    /\ server => \A c \in DOMAIN calls :
         Waiting(c) /\ calls[c].run = r =>
           file[r] = [call |-> c, status |-> "pending"] /\ c \in armed

(* A call that was let through without asking was granted: somebody         *)
(* approved this tool for good, or for the session in this conversation.    *)
UnaskedWasGranted ==
  \A c \in DOMAIN calls : calls[c].choice = "cached" =>
    \E a \in audit :
      /\ calls[a.call].tool = calls[c].tool
      /\ \/ a.choice = "forever"
         \/ /\ a.choice = "session"
            /\ ConvOf[calls[a.call].run] = ConvOf[calls[c].run]

(* What a tool was told is what a user said, of this call or before.        *)
VerdictsHold == OneVerdict /\ UnaskedWasGranted

(* No approval parks its turn for ever: a decision, the timer or an         *)
(* eviction ends the wait, or the process goes down.                        *)
ParkedIsAnswered ==
  \A c \in 1 .. MaxCalls :
    (c \in DOMAIN calls /\ Waiting(c))
      ~> (c \in DOMAIN calls /\ calls[c].wait \in {"done", "lost"})

(* "Resolution is idempotent: first decision wins; a second (other client   *)
(* or REST) is a no-op `already_resolved`.  Exactly one tool execution."    *)
(* (pending-approval.ts): no two calls are answered by decisions on one     *)
(* and the same card.                                                       *)
SecondDecisionIsNoOp ==
  server => \A c, e \in DOMAIN calls :
    calls[c].card # 0 /\ calls[c].card = calls[e].card => c = e

(* How a call looks to those who asked for it.                              *)
Phase == [parked |-> "open", resuming |-> "decided", done |-> "told",
          lost |-> "lost"]
AnswerTo(choice) ==
  CASE choice \in {"timeout", "evicted"} -> "refused"
    [] choice = "cached" -> "granted"
    [] OTHER -> choice

Consent == INSTANCE ToolConsent WITH
  Id <- 1 .. MaxCalls,
  about <- [c \in 1 .. MaxCalls |->
              IF c \in DOMAIN calls
              THEN [run |-> calls[c].run, tool |-> calls[c].tool]
              ELSE [run |-> None, tool |-> None]],
  state <- [c \in 1 .. MaxCalls |->
              IF c \in DOMAIN calls THEN Phase[calls[c].wait]
              ELSE "unasked"],
  answer <- [c \in 1 .. MaxCalls |->
              IF c \in DOMAIN calls THEN AnswerTo(calls[c].choice)
              ELSE "none"],
  trail <- {[call |-> a.call, choice |-> a.choice] : a \in audit}

(* Gates, timers, records, policies and handlers, with their crashes and    *)
(* shutdowns, keep what ToolConsent promises: every call is answered once   *)
(* and nothing is taken back, what a tool is told of a user is noted        *)
(* before, and what goes through unasked was granted.                       *)
ImplementsConsent == Consent!Spec
=============================================================================
