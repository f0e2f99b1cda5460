---------------------------- MODULE ToolConsent ----------------------------
(***************************************************************************)
(* What the approvals promise: a tool call is a question that is answered  *)
(* once, by a user, by nobody in time, or not at all because the process   *)
(* is gone, and no answer is taken back.  A run has one question open at a *)
(* time.  Before a tool hears what a user said, it is in the trail, and a  *)
(* call goes through unasked on a grant of the trail only.  The header of  *)
(* pending-approval.ts is the promise in prose.                            *)
(***************************************************************************)
CONSTANTS
  Id,       \* what names a call
  Run, Tool,
  ConvOf,   \* run -> its conversation
  None      \* neither a run nor a tool

VARIABLES
  about,    \* id -> the run and the tool of the call
  state,    \* id -> "unasked", "open", "decided", "told" or "lost"
  answer,   \* id -> what was decided, or why it went through, or did not
  trail     \* what users said of which call

vars == <<about, state, answer, trail>>

UserChoices == {"once", "session", "forever", "deny"}

Init ==
  /\ about = [c \in Id |-> [run |-> None, tool |-> None]]
  /\ state = [c \in Id |-> "unasked"]
  /\ answer = [c \in Id |-> "none"]
  /\ trail = {}

Open(c) == state[c] = "open"
Unfinished == {c \in Id : state[c] \in {"open", "decided"}}

Becomes(c, to, why) ==
  state' = [state EXCEPT ![c] = to] /\ answer' = [answer EXCEPT ![c] = why]

New(c, r, t, to, why) ==
  /\ state[c] = "unasked"
  /\ about' = [about EXCEPT ![c] = [run |-> r, tool |-> t]]
  /\ Becomes(c, to, why)
  /\ UNCHANGED trail

Ask(c, r, t) ==
  /\ \A e \in Unfinished : about[e].run # r
  /\ New(c, r, t, "open", "none")

(* Somebody approved the tool for good, or for the session in the           *)
(* conversation of the run.                                                 *)
Granted(r, t) ==
  \E n \in trail :
    /\ about[n.call].tool = t
    /\ \/ n.choice = "forever"
       \/ n.choice = "session" /\ ConvOf[about[n.call].run] = ConvOf[r]

LetThrough(c, r, t) == Granted(r, t) /\ New(c, r, t, "told", "granted")

Note(c, choice) == [call |-> c, choice |-> choice]

(* The first decision counts; it may be noted with it.                      *)
Decide(c, choice) ==
  /\ Open(c)
  /\ Becomes(c, "decided", choice)
  /\ trail' \in {trail, trail \cup {Note(c, choice)}}
  /\ UNCHANGED about

(* The tool hears what was decided, which is in the trail by then.          *)
Tell(c) ==
  /\ state[c] = "decided"
  /\ Becomes(c, "told", answer[c])
  /\ trail' = trail \cup {Note(c, answer[c])}
  /\ UNCHANGED about

(* Nobody decided in time, or nobody can any more.                          *)
Refuse(c) ==
  Open(c) /\ Becomes(c, "told", "refused") /\ UNCHANGED <<about, trail>>

(* The process ends.  What is open may still be denied, as if by a user, or *)
(* refused; the rest is lost, also what was decided and not yet told.       *)
End ==
  /\ \E denied \in SUBSET {c \in Id : Open(c)} :
       \E refused \in SUBSET {c \in Id \ denied : Open(c)} :
         /\ state' = [c \in Id |->
              IF c \in denied \cup refused THEN "told"
              ELSE IF c \in Unfinished THEN "lost" ELSE state[c]]
         /\ answer' = [c \in Id |->
              IF c \in denied THEN "deny"
              ELSE IF c \in refused THEN "refused" ELSE answer[c]]
         /\ trail' = trail \cup {Note(c, "deny") : c \in denied}
  /\ UNCHANGED about

Next ==
  \/ \E c \in Id, r \in Run, t \in Tool : Ask(c, r, t) \/ LetThrough(c, r, t)
  \/ \E c \in Id, choice \in UserChoices : Decide(c, choice)
  \/ \E c \in Id : Tell(c) \/ Refuse(c)
  \/ End

Spec == Init /\ [][Next]_vars
============================================================================
