------------------------- MODULE ApprovalGateProofs -------------------------
(***************************************************************************)
(* Theorems about ApprovalGate, for any conversations, runs and tools, any *)
(* number of calls and decisions, in both modes of the server.             *)
(***************************************************************************)
EXTENDS ApprovalGate, TLAPS

Cards == DOMAIN calls

Shapes ==
  /\ server \in BOOLEAN /\ up \in BOOLEAN
  /\ calls \in Seq(Call)
  /\ gates \in [Run -> Nat]
  /\ file \in [Run -> [call : Nat, status : Statuses]]
  /\ turn \in [Conv -> [run : Run \cup {None}, cache : SUBSET Tool]]
  /\ \A k \in Conv : turn[k] # NoTurn => turn[k].run \in Run
  /\ policies \subseteq [tool : Tool, conv : Conv \cup {None}]
  /\ wire \subseteq Decision
  /\ \A d \in wire : d.card \in Cards
  /\ sent \in Nat

(* A gate is of the call that waits at it, and every call that waits has    *)
(* its gate and its timer.                                                  *)
Gated ==
  /\ \A r \in Run : gates[r] # 0 =>
       /\ up /\ gates[r] \in Cards
       /\ calls[gates[r]].run = r /\ Waiting(gates[r])
  /\ \A c \in Cards :
       /\ Waiting(c) => gates[calls[c].run] = c /\ c \in armed
       /\ calls[c].wait = "resuming" => up /\ gates[calls[c].run] = 0
  /\ \A c \in armed : c \in Cards /\ Waiting(c)

(* The record of a run is that of the call at its gate.                     *)
Recorded ==
  /\ server => \A c \in Cards : Waiting(c) =>
       file[calls[c].run] = [call |-> c, status |-> "pending"]
  /\ server /\ up => \A r \in Run : file[r].status = "pending" =>
       gates[r] # 0 /\ file[r].call = gates[r]
  /\ ~server => \A r \in Run : file[r] = NoFile

(* A call is in the audit trail once, with what its handler was told, and   *)
(* not before it was decided.                                               *)
Audited ==
  /\ \A a \in audit :
       /\ a.call \in Cards /\ ~Waiting(a.call)
       /\ calls[a.call].wait \in {"resuming", "done"} =>
            calls[a.call].choice = a.choice
       /\ ~server => calls[a.call].wait = "done"
  /\ \A a, b \in audit : a.call = b.call => a = b

IInv == Shapes /\ Gated /\ Recorded /\ Audited

-----------------------------------------------------------------------------
(* What a step makes of the calls *)

LEMMA CardsAre ==
  ASSUME Shapes PROVE Cards = 1 .. Len(calls) /\ Len(calls) \in Nat
BY DEF Shapes, Cards

LEMMA RunOf ==
  ASSUME Shapes, NEW c \in Cards
  PROVE  calls[c] \in Call /\ calls[c].run \in Run
<1>1. calls[c] \in Call
  BY DEF Shapes, Cards
<1> QED
  BY <1>1 DEF Call

(* The call is added at the end.                                            *)
LEMMA NewCallAdds ==
  ASSUME Shapes, NEW k \in Conv, turn[k] # NoTurn, NEW t \in Tool,
         NEW wait \in {"parked", "done"}, NEW choice \in {"none", "cached"},
         NewCall(k, t, wait, choice)
  PROVE  /\ calls' \in Seq(Call)
         /\ Cards' = Cards \cup {Len(calls) + 1}
         /\ Len(calls) + 1 \notin Cards /\ Len(calls) + 1 \in Nat \ {0}
         /\ \A c \in Cards : calls'[c] = calls[c]
         /\ calls'[Len(calls) + 1].run = turn[k].run
         /\ calls'[Len(calls) + 1].wait = wait
         /\ calls'[Len(calls) + 1].tool = t
         /\ calls'[Len(calls) + 1].choice = choice
<1> DEFINE new == [run |-> turn[k].run, tool |-> t, wait |-> wait,
                   choice |-> choice, card |-> 0]
<1>1. new \in Call
  BY DEF Shapes, Call, UserChoices, Approvals
<1>2. calls' = Append(calls, new) /\ calls \in Seq(Call)
  BY DEF NewCall, Shapes
<1>0. /\ new.run = turn[k].run /\ new.wait = wait
      /\ new.tool = t /\ new.choice = choice
  OBVIOUS
<1> HIDE DEF new
<1>3. /\ calls' \in Seq(Call) /\ Len(calls') = Len(calls) + 1
      /\ Len(calls) \in Nat
      /\ \A c \in 1 .. Len(calls) : calls'[c] = calls[c]
      /\ calls'[Len(calls) + 1] = new
  BY <1>1, <1>2
<1>4. Cards = 1 .. Len(calls) /\ Cards' = 1 .. Len(calls')
  BY <1>2, <1>3 DEF Cards
<1> QED
  BY <1>0, <1>3, <1>4

(* One call is given another state and, maybe, another choice.              *)
LEMMA CallChanges ==
  ASSUME Shapes, NEW x \in Cards, NEW v \in Call,
         calls' = [calls EXCEPT ![x] = v]
  PROVE  /\ calls' \in Seq(Call) /\ Cards' = Cards
         /\ \A c \in Cards : calls'[c] = IF c = x THEN v ELSE calls[c]
<1>1. calls \in Seq(Call) /\ Cards = 1 .. Len(calls) /\ Len(calls) \in Nat
  BY DEF Shapes, Cards
<1>2. calls \in [1 .. Len(calls) -> Call]
  BY <1>1
<1>3. calls' \in [1 .. Len(calls) -> Call]
  BY <1>1, <1>2
<1>4. calls' \in Seq(Call)
  BY <1>1, <1>3
<1>5. Cards' = Cards
  BY <1>1, <1>3 DEF Cards
<1> QED
  BY <1>1, <1>2, <1>4, <1>5

(* A gate is resolved by a decision: its call goes on with the choice.      *)
LEMMA ResolveGateKeeps ==
  ASSUME IInv, NEW r \in Run, NEW d \in Decision, ResolveGate(r, d)
  PROVE  /\ calls' \in Seq(Call) /\ Cards' = Cards
         /\ gates' \in [Run -> Nat]
         /\ gates[r] = 0 =>
              UNCHANGED <<calls, gates, armed>>
         /\ gates[r] # 0 =>
              /\ gates[r] \in Cards
              /\ gates' = [gates EXCEPT ![r] = 0]
              /\ armed' = armed \ {gates[r]}
              /\ \A c \in Cards :
                   IF c = gates[r]
                   THEN /\ calls'[c].wait = "resuming"
                        /\ calls'[c].choice = d.choice
                        /\ calls'[c].run = r
                        /\ calls'[c].tool = calls[c].tool
                   ELSE calls'[c] = calls[c]
<1>1. CASE gates[r] = 0
  BY <1>1 DEF ResolveGate, gateVars, IInv, Shapes, Cards
<1>2. CASE gates[r] # 0
  <2> DEFINE old == calls[gates[r]]
             v == [old EXCEPT !.wait = "resuming", !.choice = d.choice,
                              !.card = d.card]
  <2>1. gates[r] \in Cards /\ old.run = r /\ old \in Call
    BY <1>2 DEF IInv, Gated, Shapes, Cards
  <2>2. /\ v \in Call /\ v.wait = "resuming" /\ v.choice = d.choice
        /\ v.run = old.run /\ v.tool = old.tool
    BY <2>1 DEF Call, Decision
  <2>3. /\ calls' = [calls EXCEPT ![gates[r]] = v]
        /\ gates' = [gates EXCEPT ![r] = 0]
        /\ armed' = armed \ {gates[r]}
    BY <1>2 DEF ResolveGate
  <2> HIDE DEF v
  <2>4. /\ calls' \in Seq(Call) /\ Cards' = Cards
        /\ \A c \in Cards : calls'[c] = IF c = gates[r] THEN v ELSE calls[c]
    BY <2>1, <2>2, <2>3, CallChanges DEF IInv
  <2> QED
    BY <1>2, <2>1, <2>2, <2>3, <2>4 DEF IInv, Shapes
<1> QED
  BY <1>1, <1>2

LEMMA CallsMapped ==
  ASSUME Shapes, calls' \in [Cards -> Call]
  PROVE  calls' \in Seq(Call) /\ Cards' = Cards
BY DEF Shapes, Cards

-----------------------------------------------------------------------------
(* The steps *)

LEMMA IInvInit == Init => IInv
<1> SUFFICES ASSUME Init PROVE IInv
  OBVIOUS
<1>1. calls \in Seq(Call) /\ Cards = {}
  BY DEF Init, Cards
<1>2. NoFile \in [call : Nat, status : Statuses]
      /\ NoFile.status = "none"
  BY DEF NoFile, Statuses
<1>3. NoTurn \in [run : Run \cup {None}, cache : SUBSET Tool]
  BY DEF NoTurn
<1>4. Shapes
  BY <1>1, <1>2, <1>3 DEF Init, Shapes
<1> QED
  BY <1>1, <1>2, <1>4 DEF Init, IInv, Gated, Recorded, Audited

(* Nothing happens to the calls, the gates, the records or the trail.       *)
LEMMA QuietKeeps ==
  ASSUME IInv, Shapes', UNCHANGED <<server, up, calls, gates, armed, file,
                                    audit>>
  PROVE  IInv'
BY DEF IInv, Gated, Recorded, Audited, Waiting, Cards

LEMMA StartTurnKeeps ==
  ASSUME IInv, Setting, NEW r \in Run, StartTurn(r) PROVE IInv'
<1> DEFINE new == [run |-> r, cache |-> CachedFor(ConvOf[r])]
<1>1. /\ turn' = [turn EXCEPT ![ConvOf[r]] = new]
      /\ UNCHANGED <<server, up, calls, gates, armed, file, audit, policies,
                     wire, sent>>
  BY DEF StartTurn, gateVars, diskVars
<1>2. CachedFor(ConvOf[r]) \in SUBSET Tool
  BY DEF CachedFor, IInv, Shapes
<1>3. new \in [run : Run \cup {None}, cache : SUBSET Tool] /\ new.run = r
  BY <1>2
<1> HIDE DEF new
<1>4. Shapes'
  BY <1>1, <1>3 DEF IInv, Shapes, Setting, Cards
<1> QED
  BY <1>1, <1>4, QuietKeeps

LEMMA CachedCallKeeps ==
  ASSUME IInv, NEW k \in Conv, NEW t \in Tool, CachedCall(k, t) PROVE IInv'
<1>1. /\ turn[k] # NoTurn
      /\ NewCall(k, t, "done", "cached")
      /\ UNCHANGED <<server, up, turn, gates, armed, file, audit, policies,
                     wire, sent>>
  BY DEF CachedCall, CanAsk, diskVars
<1> DEFINE n == Len(calls) + 1
<1>2. /\ calls' \in Seq(Call) /\ Cards' = Cards \cup {n}
      /\ n \notin Cards /\ n \in Nat \ {0}
      /\ \A c \in Cards : calls'[c] = calls[c]
      /\ calls'[n].wait = "done"
  BY <1>1, NewCallAdds DEF IInv
<1> HIDE DEF n
<1>3. Shapes'
  BY <1>1, <1>2 DEF IInv, Shapes
<1>4. Gated'
  BY <1>1, <1>2 DEF IInv, Gated, Waiting
<1>5. Recorded'
  BY <1>1, <1>2 DEF IInv, Recorded, Waiting
<1>6. Audited'
  BY <1>1, <1>2 DEF IInv, Audited, Waiting
<1> QED
  BY <1>3, <1>4, <1>5, <1>6 DEF IInv

LEMMA AskKeeps ==
  ASSUME IInv, NEW k \in Conv, NEW t \in Tool, Ask(k, t) PROVE IInv'
<1> DEFINE n == Len(calls) + 1
           r == turn[k].run
<1>1. /\ turn[k] # NoTurn /\ up /\ AtRest /\ gates[r] = 0
      /\ NewCall(k, t, "parked", "none")
      /\ gates' = [gates EXCEPT ![r] = n] /\ armed' = armed \cup {n}
      /\ file' = IF server
                 THEN [file EXCEPT ![r] = [call |-> n, status |-> "pending"]]
                 ELSE file
      /\ UNCHANGED <<server, up, turn, audit, policies, wire, sent>>
  BY DEF Ask, CanAsk
<1>2. /\ calls' \in Seq(Call) /\ Cards' = Cards \cup {n}
      /\ n \notin Cards /\ n \in Nat \ {0}
      /\ \A c \in Cards : calls'[c] = calls[c]
      /\ calls'[n].wait = "parked" /\ calls'[n].run = r
  BY <1>1, NewCallAdds DEF IInv
<1>3. r \in Run
  BY <1>1 DEF IInv, Shapes
<1> DEFINE pending == [call |-> n, status |-> "pending"]
<1>4. /\ pending \in [call : Nat, status : Statuses]
      /\ pending.call = n /\ pending.status = "pending"
  BY <1>2 DEF Statuses
<1>5. file' = IF server THEN [file EXCEPT ![r] = pending] ELSE file
  BY <1>1
<1> HIDE DEF n, r
<1>6. Shapes'
  BY <1>1, <1>2, <1>3, <1>4, <1>5 DEF IInv, Shapes
<1>7. \A c \in Cards : ~(Waiting(c) /\ calls[c].run = r)
                       /\ calls[c].wait # "resuming"
  <2>1. \A c \in Cards : calls[c].wait # "resuming"
    BY <1>1 DEF AtRest, Cards
  <2>2. 0 \notin Cards
    BY CardsAre DEF IInv
  <2> QED
    BY <1>1, <2>1, <2>2 DEF IInv, Gated
<1>8. Gated'
  <2>0. gates' \in [Run -> Nat] /\ gates'[r] = n
        /\ \A q \in Run : q # r => gates'[q] = gates[q]
    BY <1>1, <1>2, <1>3 DEF IInv, Shapes
  <2>1. ASSUME NEW q \in Run, gates'[q] # 0
        PROVE  /\ up' /\ gates'[q] \in Cards'
               /\ calls'[gates'[q]].run = q
               /\ calls'[gates'[q]].wait = "parked"
    BY <1>1, <1>2, <1>3, <2>0, <2>1 DEF IInv, Gated, Waiting
  <2>2. ASSUME NEW c \in Cards'
        PROVE  /\ calls'[c].wait = "parked" =>
                    gates'[calls'[c].run] = c /\ c \in armed'
               /\ calls'[c].wait # "resuming"
    <3>1. CASE c = n
      BY <1>1, <1>2, <2>0, <3>1
    <3>2. CASE c \in Cards
      BY <1>1, <1>2, <1>3, <1>7, <2>0, <3>2, RunOf DEF IInv, Gated, Waiting
    <3> QED
      BY <1>2, <3>1, <3>2
  <2>3. \A c \in armed' : c \in Cards' /\ calls'[c].wait = "parked"
    BY <1>1, <1>2 DEF IInv, Gated, Waiting
  <2> QED
    BY <2>1, <2>2, <2>3 DEF Gated, Waiting
<1>9. Recorded'
  <2>1. ASSUME server, NEW c \in Cards', Waiting(c)'
        PROVE  file'[calls'[c].run] = [call |-> c, status |-> "pending"]
    BY <1>2, <1>3, <1>4, <1>5, <1>7, <2>1
       DEF IInv, Recorded, Waiting, Shapes
  <2>2. ASSUME server, up, NEW q \in Run, file'[q].status = "pending"
        PROVE  gates'[q] # 0 /\ file'[q].call = gates'[q]
    BY <1>1, <1>2, <1>3, <1>4, <1>5, <2>2 DEF IInv, Recorded, Shapes
  <2>3. ~server => \A q \in Run : file'[q] = NoFile
    BY <1>5 DEF IInv, Recorded
  <2> QED
    BY <1>1, <2>1, <2>2, <2>3 DEF Recorded
<1>10. Audited'
  BY <1>1, <1>2 DEF IInv, Audited, Waiting
<1> QED
  BY <1>6, <1>8, <1>9, <1>10 DEF IInv

LEMMA DecideKeeps ==
  ASSUME IInv, NEW c, NEW choice \in UserChoices, NEW via \in {"ws", "rest"},
         Decide(c, choice, via)
  PROVE  IInv'
<1> DEFINE d == [id |-> sent + 1, card |-> c, choice |-> choice, via |-> via]
<1>1. /\ c \in Cards /\ sent' = sent + 1 /\ wire' = wire \cup {d}
      /\ UNCHANGED <<server, up, turn, calls, gates, armed, file, audit,
                     policies>>
  BY DEF Decide, gateVars, diskVars, Cards
<1>2. c \in Nat
  BY <1>1, CardsAre DEF IInv
<1>3. d \in Decision /\ d.card = c
  BY <1>2 DEF Decision, IInv, Shapes
<1> HIDE DEF d
<1>4. Shapes'
  BY <1>1, <1>3 DEF IInv, Shapes, Cards
<1> QED
  BY <1>1, <1>4, QuietKeeps

LEMMA GrantedAre ==
  ASSUME Setting, NEW r \in Run, NEW t \in Tool, NEW choice
  PROVE  Granted(r, t, choice) \subseteq [tool : Tool, conv : Conv \cup {None}]
BY DEF Granted, Setting

(* The gates when the one of run r is opened and its call x does not wait   *)
(* any more.                                                                *)
LEMMA OpenedGate ==
  ASSUME IInv, NEW r \in Run, NEW x \in Cards, x = gates[r], up, up' = up,
         Cards' = Cards, gates' \in [Run -> Nat], gates'[r] = 0,
         \A q \in Run : q # r => gates'[q] = gates[q],
         armed' = armed \ {x},
         calls'[x].wait # "parked", calls'[x].run = r,
         \A c \in Cards : c # x => calls'[c] = calls[c]
  PROVE  Gated'
<1>1. ASSUME NEW q \in Run, gates'[q] # 0
      PROVE  /\ gates'[q] \in Cards' /\ calls'[gates'[q]].run = q
             /\ calls'[gates'[q]].wait = "parked"
  <2>1. q # r /\ gates'[q] = gates[q] /\ gates[q] \in Cards
        /\ calls[gates[q]].run = q /\ calls[gates[q]].wait = "parked"
    BY <1>1 DEF IInv, Gated, Waiting
  <2>2. gates[q] # x
    <3>1. calls[x].run = r
      BY <1>1, <2>1, CardsAre DEF IInv, Gated
    <3> QED
      BY <2>1, <3>1
  <2> QED
    BY <2>1, <2>2
<1>2. ASSUME NEW c \in Cards'
      PROVE  /\ calls'[c].wait = "parked" =>
                  gates'[calls'[c].run] = c /\ c \in armed'
             /\ calls'[c].wait = "resuming" => gates'[calls'[c].run] = 0
  <2>1. CASE c = x
    BY <2>1
  <2>2. CASE c # x
    <3>1. c \in Cards /\ calls'[c] = calls[c] /\ calls[c].run \in Run
      BY <1>2, <2>2, RunOf DEF IInv
    <3>2. /\ calls[c].wait = "parked" =>
               gates[calls[c].run] = c /\ c \in armed
          /\ calls[c].wait = "resuming" => gates[calls[c].run] = 0
      BY <3>1 DEF IInv, Gated, Waiting
    <3> QED
      BY <2>2, <3>1, <3>2
  <2> QED
    BY <2>1, <2>2
<1>3. \A c \in armed' : c \in Cards' /\ calls'[c].wait = "parked"
  BY DEF IInv, Gated, Waiting
<1> QED
  BY <1>1, <1>2, <1>3 DEF Gated, Waiting

(* Without a server record only the gate hears of the decision.             *)
LEMMA GateOpens ==
  ASSUME IInv, NEW r \in Run, gates[r] # 0, NEW d \in Decision,
         ResolveGate(r, d), ~server, up, wire' \subseteq wire,
         UNCHANGED <<server, up, turn, file, audit, policies, sent>>
  PROVE  IInv'
<1> DEFINE x == gates[r]
<1>1. /\ calls' \in Seq(Call) /\ Cards' = Cards /\ gates' \in [Run -> Nat]
      /\ x \in Cards /\ gates' = [gates EXCEPT ![r] = 0]
      /\ armed' = armed \ {x}
      /\ \A c \in Cards :
           IF c = x
           THEN /\ calls'[c].wait = "resuming" /\ calls'[c].choice = d.choice
                /\ calls'[c].run = r
           ELSE calls'[c] = calls[c]
  BY ResolveGateKeeps
<1>2. calls[x].run = r /\ Waiting(x)
  BY DEF IInv, Gated
<1>3. /\ gates'[r] = 0 /\ \A q \in Run : q # r => gates'[q] = gates[q]
  BY <1>1 DEF IInv, Shapes
<1> HIDE DEF x
<1>4. Shapes'
  BY <1>1 DEF IInv, Shapes
<1>5. Gated'
  <2>1. x \in Cards /\ x = gates[r]
    BY <1>1 DEF x
  <2>2. calls'[x].wait # "parked" /\ calls'[x].run = r
        /\ \A c \in Cards : c # x => calls'[c] = calls[c]
    BY <1>1, <2>1
  <2> QED
    BY <1>1, <1>3, <2>1, <2>2, OpenedGate
<1>6. Recorded'
  BY <1>1 DEF IInv, Recorded
<1>7. Audited'
  BY <1>1, <1>2 DEF IInv, Audited, Waiting
<1> QED
  BY <1>4, <1>5, <1>6, <1>7 DEF IInv

(* With a record the decision, the trail and the gate go together.          *)
LEMMA RecordedGateOpens ==
  ASSUME IInv, NEW r \in Run, gates[r] # 0, NEW d \in Decision,
         ResolveGate(r, d), server, up, wire' \subseteq wire,
         file[r].call = gates[r],
         file' = [file EXCEPT ![r].status =
                    IF d.choice = "deny" THEN "denied" ELSE "approved"],
         audit' = audit \cup {[call |-> file[r].call, id |-> d.id,
                               choice |-> d.choice]},
         policies' \subseteq [tool : Tool, conv : Conv \cup {None}],
         UNCHANGED <<server, up, turn, sent>>
  PROVE  IInv'
<1> DEFINE x == gates[r]
           line == [call |-> x, id |-> d.id, choice |-> d.choice]
<1>1. /\ calls' \in Seq(Call) /\ Cards' = Cards /\ gates' \in [Run -> Nat]
      /\ x \in Cards /\ gates' = [gates EXCEPT ![r] = 0]
      /\ armed' = armed \ {x}
      /\ \A c \in Cards :
           IF c = x
           THEN /\ calls'[c].wait = "resuming" /\ calls'[c].choice = d.choice
                /\ calls'[c].run = r
           ELSE calls'[c] = calls[c]
  BY ResolveGateKeeps
<1>2. calls[x].run = r /\ Waiting(x)
  BY DEF IInv, Gated
<1>3. /\ gates'[r] = 0 /\ \A q \in Run : q # r => gates'[q] = gates[q]
  BY <1>1 DEF IInv, Shapes
<1>4. audit' = audit \cup {line} /\ line.call = x /\ line.choice = d.choice
  OBVIOUS
<1>5. /\ file' \in [Run -> [call : Nat, status : Statuses]]
      /\ file'[r].status # "pending"
      /\ \A q \in Run : q # r => file'[q] = file[q]
  BY DEF IInv, Shapes, Statuses
<1> HIDE DEF x, line
<1>6. Shapes'
  BY <1>1, <1>5 DEF IInv, Shapes
<1>7. Gated'
  <2>1. x \in Cards /\ x = gates[r]
    BY <1>1 DEF x
  <2>2. calls'[x].wait # "parked" /\ calls'[x].run = r
        /\ \A c \in Cards : c # x => calls'[c] = calls[c]
    BY <1>1, <2>1
  <2> QED
    BY <1>1, <1>3, <2>1, <2>2, OpenedGate
<1>8. Recorded'
  <2>1. ASSUME NEW c \in Cards', Waiting(c)'
        PROVE  file'[calls'[c].run] = [call |-> c, status |-> "pending"]
    <3>1. c \in Cards /\ c # x /\ calls'[c] = calls[c] /\ Waiting(c)
      BY <1>1, <2>1 DEF Waiting
    <3>2. calls[c].run \in Run /\ gates[calls[c].run] = c
      BY <3>1, RunOf DEF IInv, Gated
    <3>3. calls[c].run # r
      BY <3>1, <3>2 DEF x
    <3> QED
      BY <1>5, <3>1, <3>2, <3>3 DEF IInv, Recorded
  <2>2. ASSUME NEW q \in Run, file'[q].status = "pending"
        PROVE  gates'[q] # 0 /\ file'[q].call = gates'[q]
    BY <1>3, <1>5, <2>2 DEF IInv, Recorded
  <2> QED
    BY <2>1, <2>2 DEF Recorded
<1>9. Audited'
  <2>1. ASSUME NEW a \in audit'
        PROVE  /\ a.call \in Cards' /\ ~Waiting(a.call)'
               /\ calls'[a.call].wait \in {"resuming", "done"} =>
                    calls'[a.call].choice = a.choice
    BY <1>1, <1>2, <1>4 DEF IInv, Audited, Waiting
  <2>2. \A a \in audit : a.call # x
    BY <1>2 DEF IInv, Audited
  <2>3. ASSUME NEW a \in audit', NEW b \in audit', a.call = b.call
        PROVE  a = b
    BY <1>4, <2>2, <2>3 DEF IInv, Audited
  <2> QED
    BY <2>1, <2>3 DEF Audited
<1> QED
  BY <1>6, <1>7, <1>8, <1>9 DEF IInv

(* A decision arrives.                                                      *)
LEMMA DeliverKeeps ==
  ASSUME IInv, Setting, NEW d \in wire, Deliver(d) PROVE IInv'
<1> DEFINE r == calls[d.card].run
           x == gates[r]
<1>1. d \in Decision /\ r \in Run
  BY RunOf DEF IInv, Shapes
<1>2. /\ up /\ wire' = wire \ {d} /\ UNCHANGED <<server, up, turn, sent>>
      /\ IF d.via = "ws" /\ file[r] = NoFile
         THEN ResolveGate(r, d) /\ UNCHANGED diskVars
         ELSE ResolveApproval(r, d)
  BY DEF Deliver
<1> HIDE DEF r
<1>3. CASE ~(d.via = "ws" /\ file[r] = NoFile) /\ ~Undecided(r)
  <2>1. UNCHANGED <<calls, gates, armed, file, audit, policies>>
    BY <1>2, <1>3 DEF ResolveApproval, gateVars, diskVars
  <2>2. Shapes'
    BY <1>2, <2>1 DEF IInv, Shapes, Cards
  <2> QED
    BY <1>2, <2>1, <2>2, QuietKeeps
<1>4. CASE d.via = "ws" /\ file[r] = NoFile
  <2>1. ResolveGate(r, d) /\ UNCHANGED <<file, audit, policies>>
    BY <1>2, <1>4 DEF diskVars
  <2>2. CASE x = 0
    <3>1. UNCHANGED <<calls, gates, armed>>
      BY <1>1, <2>1, <2>2, ResolveGateKeeps
    <3>2. Shapes'
      BY <1>2, <2>1, <3>1 DEF IInv, Shapes, Cards
    <3> QED
      BY <1>2, <2>1, <3>1, <3>2, QuietKeeps
  <2>3. CASE x # 0
    <3>1. /\ x \in Cards /\ calls[x].run = r /\ Waiting(x)
      BY <1>1, <2>3 DEF IInv, Gated
    <3>2. ~server
      <4>1. file[r].status = "none"
        BY <1>4 DEF NoFile
      <4>2. server => file[r] = [call |-> x, status |-> "pending"]
        BY <3>1 DEF IInv, Recorded
      <4> QED
        BY <4>1, <4>2
    <3> QED
      BY <1>1, <1>2, <2>1, <2>3, <3>2, GateOpens
  <2> QED
    BY <2>2, <2>3
<1>5. CASE ~(d.via = "ws" /\ file[r] = NoFile) /\ Undecided(r)
  <2>1. /\ ResolveGate(r, d)
        /\ file' = [file EXCEPT ![r].status =
                      IF d.choice = "deny" THEN "denied" ELSE "approved"]
        /\ audit' = audit \cup {[call |-> file[r].call, id |-> d.id,
                                 choice |-> d.choice]}
        /\ policies' = policies
             \cup Granted(r, calls[file[r].call].tool, d.choice)
    BY <1>2, <1>5 DEF ResolveApproval
  <2>2. server /\ x # 0 /\ file[r].call = x
    BY <1>1, <1>2, <1>5 DEF IInv, Recorded, Undecided, NoFile
  <2>3. x \in Cards /\ calls[x] \in Call /\ calls[x].tool \in Tool
    BY <1>1, <2>2, RunOf DEF IInv, Gated, Call
  <2>4. policies' \subseteq [tool : Tool, conv : Conv \cup {None}]
    BY <1>1, <2>1, <2>2, <2>3, GrantedAre DEF IInv, Shapes
  <2> QED
    BY <1>1, <1>2, <2>1, <2>2, <2>4, RecordedGateOpens
<1> QED
  BY <1>3, <1>4, <1>5

(* The gate of a run is taken from its call, which is denied; the record of *)
(* the run goes.                                                            *)
LEMMA GiveUpKeeps ==
  ASSUME IInv, NEW r \in Run, gates[r] # 0, up,
         NEW why \in {"timeout", "evicted"}, GiveUp(r, gates[r], why),
         UNCHANGED <<server, up, turn, audit, policies, wire, sent>>
  PROVE  IInv'
<1> DEFINE x == gates[r]
           v == [calls[x] EXCEPT !.wait = "done", !.choice = why]
<1>1. /\ x \in Cards /\ calls[x] \in Call /\ calls[x].run = r /\ Waiting(x)
  BY RunOf DEF IInv, Gated
<1>2. v \in Call /\ v.wait = "done" /\ v.run = r
  BY <1>1 DEF Call
<1>3. /\ calls' = [calls EXCEPT ![x] = v] /\ armed' = armed \ {x}
      /\ gates' = [gates EXCEPT ![r] = 0]
      /\ file' = [file EXCEPT ![r] = NoFile]
  BY DEF GiveUp
<1> HIDE DEF v
<1>4. /\ calls' \in Seq(Call) /\ Cards' = Cards
      /\ \A c \in Cards : calls'[c] = IF c = x THEN v ELSE calls[c]
  BY <1>1, <1>2, <1>3, CallChanges DEF IInv
<1>5. /\ gates' \in [Run -> Nat] /\ gates'[r] = 0
      /\ \A q \in Run : q # r => gates'[q] = gates[q]
  BY <1>3 DEF IInv, Shapes
<1>6. /\ NoFile.status = "none" /\ NoFile \in [call : Nat, status : Statuses]
  BY DEF NoFile, Statuses
<1>7. /\ file' \in [Run -> [call : Nat, status : Statuses]]
      /\ file'[r] = NoFile /\ \A q \in Run : q # r => file'[q] = file[q]
  BY <1>3, <1>6 DEF IInv, Shapes
<1>8. Shapes'
  BY <1>4, <1>5, <1>7 DEF IInv, Shapes
<1>9. Gated'
  <2>1. calls'[x].wait # "parked" /\ calls'[x].run = r
        /\ \A c \in Cards : c # x => calls'[c] = calls[c]
    BY <1>1, <1>2, <1>4
  <2> QED
    BY <1>1, <1>3, <1>4, <1>5, <2>1, OpenedGate
<1>10. Recorded'
  <2>1. ASSUME server, NEW c \in Cards', Waiting(c)'
        PROVE  file'[calls'[c].run] = [call |-> c, status |-> "pending"]
    <3>1. c \in Cards /\ c # x /\ calls'[c] = calls[c] /\ Waiting(c)
      BY <1>2, <1>4, <2>1 DEF Waiting
    <3>2. calls[c].run \in Run /\ gates[calls[c].run] = c
      BY <3>1, RunOf DEF IInv, Gated
    <3>3. calls[c].run # r
      BY <3>1, <3>2
    <3> QED
      BY <1>7, <2>1, <3>1, <3>2, <3>3 DEF IInv, Recorded
  <2>2. ASSUME server, NEW q \in Run, file'[q].status = "pending"
        PROVE  gates'[q] # 0 /\ file'[q].call = gates'[q]
    BY <1>5, <1>6, <1>7, <2>2 DEF IInv, Recorded
  <2>3. ~server => \A q \in Run : file'[q] = NoFile
    BY <1>7 DEF IInv, Recorded
  <2> QED
    BY <2>1, <2>2, <2>3 DEF Recorded
<1>11. Audited'
  BY <1>1, <1>2, <1>4 DEF IInv, Audited, Waiting
<1> QED
  BY <1>8, <1>9, <1>10, <1>11 DEF IInv

LEMMA TimeoutKeeps ==
  ASSUME IInv, NEW c, Timeout(c) PROVE IInv'
<1>1. /\ up /\ c \in armed /\ GiveUp(calls[c].run, c, "timeout")
      /\ UNCHANGED <<server, up, turn, audit, policies, wire, sent>>
  BY DEF Timeout
<1>2. c \in Cards /\ calls[c].run \in Run /\ gates[calls[c].run] = c
  BY <1>1, RunOf DEF IInv, Gated
<1>3. c # 0
  BY <1>2, CardsAre DEF IInv
<1> QED
  BY <1>1, <1>2, <1>3, GiveUpKeeps

LEMMA EvictKeeps ==
  ASSUME IInv, NEW k \in Conv, Evict(k) PROVE IInv'
<1>1. /\ up /\ turn[k] # NoTurn /\ gates[turn[k].run] # 0
      /\ GiveUp(turn[k].run, gates[turn[k].run], "evicted")
      /\ UNCHANGED <<server, up, turn, audit, policies, wire, sent>>
  BY DEF Evict
<1>2. turn[k].run \in Run
  BY <1>1 DEF IInv, Shapes
<1> QED
  BY <1>1, <1>2, GiveUpKeeps

LEMMA EndTurnKeeps ==
  ASSUME IInv, NEW k \in Conv, EndTurn(k) PROVE IInv'
<1>1. /\ turn' = [turn EXCEPT ![k] = NoTurn]
      /\ UNCHANGED <<server, up, calls, gates, armed, file, audit, policies,
                     wire, sent>>
  BY DEF EndTurn, gateVars, diskVars
<1>2. NoTurn \in [run : Run \cup {None}, cache : SUBSET Tool]
  BY DEF NoTurn
<1>3. Shapes'
  BY <1>1, <1>2 DEF IInv, Shapes, Cards
<1> QED
  BY <1>1, <1>3, QuietKeeps

(* The handler of a call goes on.                                           *)
LEMMA ResumeKeeps ==
  ASSUME IInv, Setting, NEW c \in Cards, Resume(c) PROVE IInv'
<1> DEFINE call == calls[c]
           k == ConvOf[call.run]
           v == [call EXCEPT !.wait = "done"]
           line == [call |-> c, id |-> call.card, choice |-> call.choice]
<1>1. /\ call \in Call /\ call.run \in Run /\ call.tool \in Tool
      /\ call.choice = call.choice
  BY RunOf DEF IInv, Call
<1>2. v \in Call /\ v.wait = "done" /\ v.run = call.run
      /\ v.choice = call.choice
  BY <1>1 DEF Call
<1>3. /\ up /\ call.wait = "resuming" /\ calls' = [calls EXCEPT ![c] = v]
      /\ UNCHANGED <<server, up, gates, armed, wire, sent>>
      /\ server => /\ file' = [file EXCEPT ![call.run] = NoFile]
                   /\ UNCHANGED <<audit, policies>>
      /\ ~server => /\ audit' = audit \cup {line}
                    /\ policies' = policies
                         \cup Granted(call.run, call.tool, call.choice)
                    /\ UNCHANGED file
      /\ \/ /\ turn' = [turn EXCEPT ![k].cache = @ \cup {call.tool}]
            /\ turn[k].run = call.run
         \/ turn' = turn
  BY DEF Resume
<1>4. line.call = c /\ line.choice = call.choice
  OBVIOUS
<1>5. gates[call.run] = 0
  BY <1>3 DEF IInv, Gated
<1> HIDE DEF v, line
<1>6. /\ calls' \in Seq(Call) /\ Cards' = Cards
      /\ \A e \in Cards : calls'[e] = IF e = c THEN v ELSE calls[e]
  BY <1>2, <1>3, CallChanges DEF IInv
<1>7. Shapes'
  <2>1. NoFile \in [call : Nat, status : Statuses]
    BY DEF NoFile, Statuses
  <2>2. file' \in [Run -> [call : Nat, status : Statuses]]
    BY <1>3, <2>1 DEF IInv, Shapes
  <2>3. policies' \subseteq [tool : Tool, conv : Conv \cup {None}]
    BY <1>1, <1>3, GrantedAre DEF IInv, Shapes
  <2>4. /\ turn' \in [Conv -> [run : Run \cup {None}, cache : SUBSET Tool]]
        /\ \A q \in Conv : turn'[q] # NoTurn => turn'[q].run \in Run
    <3>1. CASE turn' = turn
      BY <3>1 DEF IInv, Shapes
    <3>2. CASE turn' = [turn EXCEPT ![k].cache = @ \cup {call.tool}]
               /\ turn[k].run = call.run
      <4> DEFINE old == turn[k]
                 w == [old EXCEPT !.cache = @ \cup {call.tool}]
      <4>1. k \in Conv /\ old \in [run : Run \cup {None}, cache : SUBSET Tool]
        BY <1>1 DEF IInv, Shapes, Setting
      <4>2. w \in [run : Run \cup {None}, cache : SUBSET Tool]
            /\ w.run = call.run
        BY <1>1, <3>2, <4>1
      <4>3. turn' = [turn EXCEPT ![k] = w]
        BY <3>2
      <4> HIDE DEF w
      <4> QED
        BY <1>1, <4>1, <4>2, <4>3 DEF IInv, Shapes
    <3> QED
      BY <1>3, <3>1, <3>2
  <2> QED
    BY <1>3, <1>6, <2>2, <2>3, <2>4 DEF IInv, Shapes
<1>8. Gated'
  <2>1. ASSUME NEW q \in Run, gates'[q] # 0
        PROVE  /\ gates'[q] \in Cards' /\ calls'[gates'[q]].run = q
               /\ calls'[gates'[q]].wait = "parked"
    BY <1>3, <1>6, <2>1 DEF IInv, Gated, Waiting
  <2>2. ASSUME NEW e \in Cards'
        PROVE  /\ calls'[e].wait = "parked" =>
                    gates'[calls'[e].run] = e /\ e \in armed'
               /\ calls'[e].wait = "resuming" => gates'[calls'[e].run] = 0
    BY <1>2, <1>3, <1>6, <2>2 DEF IInv, Gated, Waiting
  <2>3. \A e \in armed' : e \in Cards' /\ calls'[e].wait = "parked"
    BY <1>3, <1>6 DEF IInv, Gated, Waiting
  <2> QED
    BY <1>3, <2>1, <2>2, <2>3 DEF Gated, Waiting
<1>9. Recorded'
  <2>0. server => /\ file'[call.run] = NoFile
                  /\ \A q \in Run : q # call.run => file'[q] = file[q]
    BY <1>1, <1>3 DEF IInv, Shapes
  <2>1. ASSUME server, NEW e \in Cards', Waiting(e)'
        PROVE  file'[calls'[e].run] = [call |-> e, status |-> "pending"]
    <3>1. e \in Cards /\ e # c /\ calls'[e] = calls[e] /\ Waiting(e)
      BY <1>2, <1>6, <2>1 DEF Waiting
    <3>2. calls[e].run \in Run /\ gates[calls[e].run] = e /\ e # 0
      BY <3>1, RunOf, CardsAre DEF IInv, Gated
    <3>3. calls[e].run # call.run
      BY <1>5, <3>2
    <3> QED
      BY <2>0, <2>1, <3>1, <3>2, <3>3 DEF IInv, Recorded
  <2>2. ASSUME server, NEW q \in Run, file'[q].status = "pending"
        PROVE  gates'[q] # 0 /\ file'[q].call = gates'[q]
    <3>1. NoFile.status = "none"
      BY DEF NoFile
    <3> QED
      BY <1>3, <2>0, <2>2, <3>1 DEF IInv, Recorded
  <2>3. ~server => \A q \in Run : file'[q] = NoFile
    BY <1>3 DEF IInv, Recorded
  <2> QED
    BY <1>3, <2>1, <2>2, <2>3 DEF Recorded
<1>10. Audited'
  <2>1. ASSUME server PROVE Audited'
    BY <1>2, <1>3, <1>6, <2>1 DEF IInv, Audited, Waiting
  <2>2. ASSUME ~server PROVE Audited'
    <3>1. \A a \in audit : a.call # c
      BY <1>3, <2>2 DEF IInv, Audited
    <3>2. \A a \in audit' :
            /\ a.call \in Cards' /\ calls'[a.call].wait = "done"
            /\ calls'[a.call].choice = a.choice
      BY <1>2, <1>3, <1>4, <1>6, <2>2 DEF IInv, Audited
    <3>3. \A a, b \in audit' : a.call = b.call => a = b
      BY <1>3, <1>4, <2>2, <3>1 DEF IInv, Audited
    <3> QED
      BY <1>3, <2>2, <3>2, <3>3 DEF Audited, Waiting
  <2> QED
    BY <2>1, <2>2
<1> QED
  BY <1>7, <1>8, <1>9, <1>10 DEF IInv

(* With the process everything in memory goes; what it leaves of the calls  *)
(* neither waits nor is about to go on.                                     *)
LEMMA DownKeeps ==
  ASSUME IInv, Setting, Down, calls' \in [Cards -> Call],
         \A c \in Cards : calls'[c].wait \notin {"parked", "resuming"},
         file' \in [Run -> [call : Nat, status : Statuses]],
         policies' = policies, Audited',
         ~server => \A r \in Run : file'[r] = NoFile
  PROVE  IInv'
<1>1. /\ up' = FALSE /\ wire' = {} /\ gates' = [r \in Run |-> 0]
      /\ armed' = {} /\ turn' = [k \in Conv |-> NoTurn]
      /\ UNCHANGED <<server, sent>>
  BY DEF Down
<1>2. calls' \in Seq(Call) /\ Cards' = Cards
  BY CallsMapped DEF IInv
<1>3. NoTurn \in [run : Run \cup {None}, cache : SUBSET Tool]
  BY DEF NoTurn
<1>4. Shapes'
  BY <1>1, <1>2, <1>3 DEF IInv, Shapes
<1>5. Gated'
  BY <1>1, <1>2 DEF Gated, Waiting
<1>6. Recorded'
  BY <1>1, <1>2 DEF Recorded, Waiting
<1> QED
  BY <1>4, <1>5, <1>6 DEF IInv

LEMMA CrashKeeps ==
  ASSUME IInv, Setting, Crash PROVE IInv'
<1>1. /\ Down /\ UNCHANGED <<file, audit, policies>>
      /\ calls' = [c \in Cards |->
                    IF calls[c].wait \in {"parked", "resuming"}
                    THEN [calls[c] EXCEPT !.wait = "lost"] ELSE calls[c]]
  BY DEF Crash, Cards, diskVars
<1>2. ASSUME NEW c \in Cards
      PROVE  /\ calls'[c] \in Call
             /\ calls'[c].wait \notin {"parked", "resuming"}
             /\ calls[c].wait \in {"done", "lost"} => calls'[c] = calls[c]
             /\ calls[c].wait = "resuming" => calls'[c].wait = "lost"
  <2>1. calls[c] \in Call
    BY RunOf DEF IInv
  <2>2. CASE calls[c].wait \in {"parked", "resuming"}
    <3> DEFINE v == [calls[c] EXCEPT !.wait = "lost"]
    <3>1. v \in Call /\ v.wait = "lost"
      BY <2>1 DEF Call
    <3>2. calls'[c] = v
      BY <1>1, <2>2
    <3> HIDE DEF v
    <3> QED
      BY <2>2, <3>1, <3>2
  <2>3. CASE calls[c].wait \notin {"parked", "resuming"}
    <3>1. calls'[c] = calls[c]
      BY <1>1, <2>3
    <3> QED
      BY <2>1, <2>3, <3>1
  <2> QED
    BY <2>2, <2>3
<1>3. calls' \in [Cards -> Call]
  BY <1>1, <1>2
<1>4. Cards' = Cards
  BY <1>3, CallsMapped DEF IInv
<1>5. Audited'
  <2>1. ASSUME NEW a \in audit
        PROVE  /\ a.call \in Cards
               /\ calls'[a.call].wait \notin {"parked", "resuming"}
               /\ calls'[a.call].wait = "done" =>
                    calls'[a.call].choice = a.choice
               /\ ~server => calls'[a.call].wait = "done"
    <3>1. /\ a.call \in Cards /\ ~Waiting(a.call)
          /\ calls[a.call].wait \in {"resuming", "done"} =>
               calls[a.call].choice = a.choice
          /\ ~server => calls[a.call].wait = "done"
      BY DEF IInv, Audited
    <3>2. calls[a.call].wait \in {"resuming", "done", "lost"}
      BY <3>1, RunOf DEF IInv, Waiting, Call
    <3> QED
      BY <1>2, <3>1, <3>2
  <2>2. audit' = audit /\ server' = server
    BY <1>1 DEF Down
  <2> QED
    BY <1>4, <2>1, <2>2 DEF IInv, Audited, Waiting
<1> QED
  BY <1>1, <1>2, <1>3, <1>5, DownKeeps DEF IInv, Shapes, Recorded

LEMMA ShutdownKeeps ==
  ASSUME IInv, Setting, Shutdown PROVE IInv'
<1> DEFINE denied == {c \in Cards :
                        Waiting(c) /\ run[calls[c].run] = "running"}
           heard == IF server THEN denied ELSE {}
           lines == {[call |-> c, id |-> 0, choice |-> "deny"] : c \in heard}
<1>1. /\ AtRest /\ Down /\ UNCHANGED policies
      /\ calls' = [c \in Cards |->
           CASE c \in heard -> [calls[c] EXCEPT !.wait = "done",
                                  !.choice = "deny", !.card = c]
             [] c \in denied \ heard -> [calls[c] EXCEPT !.wait = "done",
                                           !.choice = "evicted"]
             [] Waiting(c) /\ c \notin denied ->
                  [calls[c] EXCEPT !.wait = "lost"]
             [] OTHER -> calls[c]]
      /\ file' = [r \in Run |-> IF \E c \in heard : calls[c].run = r
                                THEN NoFile ELSE file[r]]
      /\ audit' = audit \cup lines
  BY DEF Shutdown, Cards
<1>2. /\ heard \subseteq denied /\ (~server => heard = {})
      /\ \A c \in denied : c \in Cards /\ Waiting(c)
  OBVIOUS
<1>3. /\ \A l \in lines : l.call \in heard /\ l.choice = "deny"
      /\ \A l, m \in lines : l.call = m.call => l = m
  OBVIOUS
<1> HIDE DEF denied, heard, lines
<1>4. ASSUME NEW c \in Cards
      PROVE  /\ calls'[c] \in Call
             /\ calls'[c].wait \notin {"parked", "resuming"}
             /\ ~Waiting(c) => calls'[c] = calls[c]
             /\ c \in heard => calls'[c].choice = "deny"
  <2>1. calls[c] \in Call /\ c \in Nat
    BY RunOf, CardsAre DEF IInv
  <2>2. calls[c].wait # "resuming"
    BY <1>1 DEF AtRest, Cards
  <2>3. CASE c \in heard
    <3> DEFINE v == [calls[c] EXCEPT !.wait = "done", !.choice = "deny",
                                     !.card = c]
    <3>1. v \in Call /\ v.wait = "done" /\ v.choice = "deny"
      BY <2>1 DEF Call, UserChoices, Approvals
    <3>2. calls'[c] = v
      BY <1>1, <1>2, <2>3
    <3>3. Waiting(c)
      BY <1>2, <2>3
    <3> HIDE DEF v
    <3> QED
      BY <3>1, <3>2, <3>3
  <2>4. CASE c \in denied \ heard
    <3> DEFINE v == [calls[c] EXCEPT !.wait = "done", !.choice = "evicted"]
    <3>1. v \in Call /\ v.wait = "done"
      BY <2>1 DEF Call
    <3>2. calls'[c] = v
      BY <1>1, <2>4
    <3>3. Waiting(c)
      BY <1>2, <2>4
    <3> HIDE DEF v
    <3> QED
      BY <2>4, <3>1, <3>2, <3>3
  <2>5. CASE Waiting(c) /\ c \notin denied
    <3> DEFINE v == [calls[c] EXCEPT !.wait = "lost"]
    <3>1. v \in Call /\ v.wait = "lost"
      BY <2>1 DEF Call
    <3>2. calls'[c] = v
      BY <1>1, <1>2, <2>5
    <3> HIDE DEF v
    <3> QED
      BY <1>2, <2>5, <3>1, <3>2
  <2>6. CASE ~Waiting(c)
    <3>1. calls'[c] = calls[c]
      BY <1>1, <1>2, <2>6
    <3>2. c \notin heard
      BY <1>2, <2>6
    <3> QED
      BY <2>1, <2>2, <2>6, <3>1, <3>2 DEF Waiting
  <2> QED
    BY <2>3, <2>4, <2>5, <2>6
<1>5. calls' \in [Cards -> Call]
  BY <1>1, <1>4
<1>6. Cards' = Cards
  BY <1>5, CallsMapped DEF IInv
<1>7. Audited'
  <2>1. ASSUME NEW a \in audit'
        PROVE  /\ a.call \in Cards /\ ~Waiting(a.call)'
               /\ calls'[a.call].wait = "done" =>
                    calls'[a.call].choice = a.choice
               /\ ~server => calls'[a.call].wait = "done"
    <3>1. CASE a \in audit
      <4>1. /\ a.call \in Cards /\ ~Waiting(a.call)
            /\ calls[a.call].wait \in {"resuming", "done"} =>
                 calls[a.call].choice = a.choice
            /\ ~server => calls[a.call].wait = "done"
        BY <3>1 DEF IInv, Audited
      <4> QED
        BY <1>4, <4>1 DEF Waiting
    <3>2. CASE a \in lines
      BY <1>2, <1>3, <1>4, <3>2 DEF Waiting
    <3> QED
      BY <1>1, <2>1, <3>1, <3>2
  <2>2. ASSUME NEW a \in audit', NEW b \in audit', a.call = b.call
        PROVE  a = b
    <3>1. \A e \in audit : e.call \notin heard
      BY <1>2 DEF IInv, Audited
    <3> QED
      BY <1>1, <1>3, <2>2, <3>1 DEF IInv, Audited
  <2>3. \A c \in Cards : calls'[c].wait # "resuming"
    BY <1>4
  <2>4. server' = server
    BY <1>1 DEF Down
  <2> QED
    BY <1>6, <2>1, <2>2, <2>3, <2>4 DEF Audited
<1>8. file' \in [Run -> [call : Nat, status : Statuses]]
  <2>1. NoFile \in [call : Nat, status : Statuses]
    BY DEF NoFile, Statuses
  <2> QED
    BY <1>1, <2>1 DEF IInv, Shapes
<1>9. ~server => \A r \in Run : file'[r] = NoFile
  BY <1>1 DEF IInv, Recorded
<1> QED
  BY <1>1, <1>4, <1>5, <1>7, <1>8, <1>9, DownKeeps

LEMMA BootKeeps ==
  ASSUME IInv, Boot PROVE IInv'
<1>1. /\ ~up /\ up' = TRUE
      /\ file' = [r \in Run |-> IF file[r].status = "pending"
                                THEN [file[r] EXCEPT !.status = "expired"]
                                ELSE file[r]]
      /\ UNCHANGED <<server, turn, calls, gates, armed, audit, policies,
                     wire, sent>>
  BY DEF Boot, gateVars, Expired
<1>2. ASSUME NEW r \in Run
      PROVE  /\ file'[r] \in [call : Nat, status : Statuses]
             /\ file'[r].status # "pending"
             /\ file[r] = NoFile => file'[r] = NoFile
  <2>1. file[r] \in [call : Nat, status : Statuses]
    BY DEF IInv, Shapes
  <2>2. [file[r] EXCEPT !.status = "expired"]
          \in [call : Nat, status : Statuses]
    BY <2>1 DEF Statuses
  <2>3. NoFile.status = "none"
    BY DEF NoFile
  <2> QED
    BY <1>1, <2>1, <2>2, <2>3
<1>3. file' \in [Run -> [call : Nat, status : Statuses]]
  BY <1>1, <1>2
<1>4. \A c \in Cards : calls[c].wait \notin {"parked", "resuming"}
  <2>1. ASSUME NEW c \in Cards, Waiting(c) PROVE FALSE
    <3>1. gates[calls[c].run] = c /\ calls[c].run \in Run /\ c # 0
      BY <2>1, RunOf, CardsAre DEF IInv, Gated
    <3> QED
      BY <1>1, <3>1 DEF IInv, Gated
  <2>2. \A c \in Cards : calls[c].wait # "resuming"
    BY <1>1 DEF IInv, Gated
  <2> QED
    BY <2>1, <2>2 DEF Waiting
<1>5. Cards' = Cards
  BY <1>1 DEF Cards
<1>6. Shapes'
  BY <1>1, <1>3, <1>5 DEF IInv, Shapes
<1>7. Gated'
  BY <1>1, <1>4, <1>5 DEF IInv, Gated, Waiting
<1>8. Recorded'
  BY <1>1, <1>2, <1>4, <1>5 DEF IInv, Recorded, Waiting
<1>9. Audited'
  BY <1>1, <1>5 DEF IInv, Audited, Waiting
<1> QED
  BY <1>6, <1>7, <1>8, <1>9 DEF IInv

LEMMA IInvStep == IInv /\ Setting /\ [Next]_vars => IInv'
<1> SUFFICES ASSUME IInv, Setting, [Next]_vars PROVE IInv'
  OBVIOUS
<1>1. ASSUME NEW r \in Run, StartTurn(r) PROVE IInv'
  BY <1>1, StartTurnKeeps
<1>2. ASSUME NEW k \in Conv, NEW t \in Tool, CachedCall(k, t) PROVE IInv'
  BY <1>2, CachedCallKeeps
<1>3. ASSUME NEW k \in Conv, NEW t \in Tool, Ask(k, t) PROVE IInv'
  BY <1>3, AskKeeps
<1>4. ASSUME NEW c \in 1 .. MaxCalls, NEW choice \in UserChoices,
             NEW via \in {"ws", "rest"}, Decide(c, choice, via)
      PROVE  IInv'
  BY <1>4, DecideKeeps
<1>5. ASSUME NEW d \in wire, Deliver(d) PROVE IInv'
  BY <1>5, DeliverKeeps
<1>6. ASSUME NEW c \in DOMAIN calls, Resume(c) PROVE IInv'
  BY <1>6, ResumeKeeps DEF Cards
<1>7. ASSUME NEW c \in DOMAIN calls, Timeout(c) PROVE IInv'
  BY <1>7, TimeoutKeeps
<1>8. ASSUME NEW k \in Conv, Evict(k) PROVE IInv'
  BY <1>8, EvictKeeps
<1>9. ASSUME NEW k \in Conv, EndTurn(k) PROVE IInv'
  BY <1>9, EndTurnKeeps
<1>10. CASE Crash
  BY <1>10, CrashKeeps
<1>11. CASE Shutdown
  BY <1>11, ShutdownKeeps
<1>12. CASE Boot
  BY <1>12, BootKeeps
<1>13. CASE UNCHANGED vars
  <2>1. UNCHANGED <<server, up, turn, calls, gates, armed, file, audit,
                    policies, wire, sent>>
    BY <1>13 DEF vars
  <2>2. Shapes'
    BY <2>1 DEF IInv, Shapes, Cards
  <2> QED
    BY <2>1, <2>2, QuietKeeps
<1> QED
  BY <1>1, <1>2, <1>3, <1>4, <1>5, <1>6, <1>7, <1>8, <1>9, <1>10, <1>11,
     <1>12, <1>13 DEF Next

-----------------------------------------------------------------------------
(* What was granted *)

(* Somebody approved the tool for good, or for the session in conversation  *)
(* k.                                                                       *)
Backed(t, k) ==
  \E a \in audit :
    /\ a.call \in Cards /\ calls[a.call].tool = t
    /\ \/ a.choice = "forever"
       \/ a.choice = "session" /\ ConvOf[calls[a.call].run] = k

(* What the policies, the caches of the turns and the calls let through     *)
(* without asking go back to is in the audit trail; so is, when the server  *)
(* decides on permissions, every decision a handler is about to go on with. *)
Grants ==
  /\ \A p \in policies : \A k \in Conv :
       p.conv \in {None, k} => Backed(p.tool, k)
  /\ \A k \in Conv :
       /\ turn[k] # NoTurn => ConvOf[turn[k].run] = k
       /\ \A t \in turn[k].cache : Backed(t, k)
  /\ \A c \in Cards : calls[c].choice = "cached" =>
       Backed(calls[c].tool, ConvOf[calls[c].run])
  /\ server => \A c \in Cards : calls[c].wait = "resuming" =>
       \E a \in audit : a.call = c /\ a.choice = calls[c].choice

(* No call changes its tool or its run, none gets to be one that was let    *)
(* through, and nothing leaves the trail.                                   *)
OnlyAdds ==
  /\ server' = server /\ audit \subseteq audit' /\ Cards \subseteq Cards'
  /\ \A c \in Cards :
       /\ calls'[c].tool = calls[c].tool /\ calls'[c].run = calls[c].run
       /\ calls'[c].choice = "cached" => calls[c].choice = "cached"

(* Then what was granted stays so.                                          *)
LEMMA BackingStays ==
  ASSUME OnlyAdds, NEW t, NEW k, Backed(t, k) PROVE Backed(t, k)'
BY DEF OnlyAdds, Backed

(* And the step has to answer only for what it adds.                        *)
LEMMA GrantsStay ==
  ASSUME Grants, OnlyAdds,
         \A p \in policies' : p \in policies \/
           \A k \in Conv : p.conv \in {None, k} => Backed(p.tool, k)',
         \A k \in Conv :
           /\ turn'[k] # NoTurn => ConvOf[turn'[k].run] = k
           /\ \A t \in turn'[k].cache : t \in turn[k].cache \/ Backed(t, k)',
         \A c \in Cards' : c \notin Cards => calls'[c].wait # "resuming" /\
           (calls'[c].choice = "cached" =>
              \A t, k : t = calls'[c].tool /\ k = ConvOf[calls'[c].run] =>
                Backed(t, k)'),
         server => \A c \in Cards : calls'[c].wait = "resuming" =>
           \/ calls[c].wait = "resuming" /\ calls'[c].choice = calls[c].choice
           \/ \E a \in audit' : a.call = c /\ a.choice = calls'[c].choice
  PROVE  Grants'
<1>1. \A t, k : Backed(t, k) => Backed(t, k)'
  BY BackingStays
<1>2. ASSUME NEW p \in policies', NEW k \in Conv, p.conv \in {None, k}
      PROVE  Backed(p.tool, k)'
  BY <1>1, <1>2 DEF Grants
<1>3. ASSUME NEW k \in Conv, NEW t \in turn'[k].cache PROVE Backed(t, k)'
  BY <1>1, <1>3 DEF Grants
<1>4. ASSUME NEW c \in Cards', calls'[c].choice = "cached"
      PROVE  (Backed(calls[c].tool, ConvOf[calls[c].run]))'
  <2>1. CASE c \in Cards
    <3>1. /\ calls'[c].tool = calls[c].tool /\ calls'[c].run = calls[c].run
          /\ calls[c].choice = "cached"
      BY <1>4, <2>1 DEF OnlyAdds
    <3>2. Backed(calls[c].tool, ConvOf[calls[c].run])
      BY <2>1, <3>1 DEF Grants
    <3> DEFINE t == calls[c].tool
               k == ConvOf[calls[c].run]
    <3>3. PICK a \in audit :
            /\ a.call \in Cards /\ calls[a.call].tool = t
            /\ \/ a.choice = "forever"
               \/ a.choice = "session" /\ ConvOf[calls[a.call].run] = k
      BY <3>2 DEF Backed
    <3> QED
      BY <3>1, <3>3 DEF OnlyAdds, Backed
  <2>2. CASE c \notin Cards
    BY <1>4, <2>2 DEF Backed
  <2> QED
    BY <2>1, <2>2
<1>5. ASSUME server', NEW c \in Cards', calls'[c].wait = "resuming"
      PROVE  \E a \in audit' : a.call = c /\ a.choice = calls'[c].choice
  BY <1>5 DEF Grants, OnlyAdds
<1> QED
  BY <1>2, <1>3, <1>4, <1>5 DEF Grants

(* A step that adds no policy, no turn and no call and settles none.        *)
LEMMA QuietGrants ==
  ASSUME Grants, OnlyAdds, Cards' = Cards, policies' = policies,
         \A k \in Conv : turn'[k] = turn[k] \/ turn'[k] = NoTurn,
         \A c \in Cards : calls'[c].wait = "resuming" =>
           calls[c].wait = "resuming" /\ calls'[c].choice = calls[c].choice
  PROVE  Grants'
<1>1. NoTurn.cache = {}
  BY DEF NoTurn
<1>2. \A k \in Conv :
        /\ turn'[k] # NoTurn => ConvOf[turn'[k].run] = k
        /\ \A t \in turn'[k].cache : t \in turn[k].cache
  BY <1>1 DEF Grants
<1> QED
  BY <1>2, GrantsStay

LEMMA StartTurnGrants ==
  ASSUME IInv, Setting, Grants, NEW r \in Run, StartTurn(r) PROVE Grants'
<1> DEFINE q == ConvOf[r]
           new == [run |-> r, cache |-> CachedFor(q)]
<1>1. /\ turn' = [turn EXCEPT ![q] = new]
      /\ UNCHANGED <<server, calls, audit, policies>>
  BY DEF StartTurn, gateVars, diskVars
<1>2. new.run = r /\ new.cache = CachedFor(q) /\ q \in Conv
  BY DEF Setting
<1>3. \A t \in CachedFor(q) : Backed(t, q)
  BY <1>2 DEF CachedFor, Grants
<1> HIDE DEF new, q
<1>4. /\ turn'[q] = new /\ \A k \in Conv : k # q => turn'[k] = turn[k]
  BY <1>1, <1>2 DEF IInv, Shapes
<1>5. Cards' = Cards /\ \A t, k : Backed(t, k) => Backed(t, k)'
  BY <1>1 DEF Cards, Backed
<1>6. \A k \in Conv : /\ turn'[k] # NoTurn => ConvOf[turn'[k].run] = k
                      /\ \A t \in turn'[k].cache : Backed(t, k)'
  BY <1>2, <1>3, <1>4, <1>5 DEF Grants, q
<1>7. OnlyAdds
  BY <1>1, <1>5 DEF OnlyAdds
<1> QED
  BY <1>1, <1>5, <1>6, <1>7, GrantsStay

LEMMA CachedCallGrants ==
  ASSUME IInv, Setting, Grants, NEW k \in Conv, NEW t \in Tool,
         CachedCall(k, t)
  PROVE  Grants'
<1> DEFINE n == Len(calls) + 1
<1>1. /\ turn[k] # NoTurn /\ t \in turn[k].cache
      /\ NewCall(k, t, "done", "cached")
      /\ UNCHANGED <<server, turn, audit, policies>>
  BY DEF CachedCall, CanAsk, diskVars
<1>2. /\ Cards' = Cards \cup {n} /\ n \notin Cards
      /\ \A c \in Cards : calls'[c] = calls[c]
      /\ calls'[n].run = turn[k].run /\ calls'[n].wait = "done"
      /\ calls'[n].tool = t
  BY <1>1, NewCallAdds DEF IInv
<1> HIDE DEF n
<1>3. OnlyAdds
  BY <1>1, <1>2 DEF OnlyAdds
<1>4. Backed(t, k)' /\ ConvOf[calls'[n].run] = k
  BY <1>1, <1>2, <1>3, BackingStays DEF Grants
<1>5. \A u, q : u = calls'[n].tool /\ q = ConvOf[calls'[n].run] =>
        Backed(u, q)'
  BY <1>2, <1>4
<1> QED
  BY <1>1, <1>2, <1>3, <1>5, GrantsStay DEF Grants

LEMMA AskGrants ==
  ASSUME IInv, Setting, Grants, NEW k \in Conv, NEW t \in Tool, Ask(k, t)
  PROVE  Grants'
<1> DEFINE n == Len(calls) + 1
<1>1. /\ turn[k] # NoTurn /\ NewCall(k, t, "parked", "none")
      /\ UNCHANGED <<server, turn, audit, policies>>
  BY DEF Ask, CanAsk
<1>2. /\ Cards' = Cards \cup {n} /\ n \notin Cards
      /\ \A c \in Cards : calls'[c] = calls[c]
      /\ calls'[n].wait = "parked" /\ calls'[n].choice = "none"
  BY <1>1, NewCallAdds DEF IInv
<1> HIDE DEF n
<1>3. OnlyAdds
  BY <1>1, <1>2 DEF OnlyAdds
<1> QED
  BY <1>1, <1>2, <1>3, GrantsStay DEF Grants

(* The funnel notes the decision and what it grants before the handler goes *)
(* on; without a record the handler does so itself.                         *)
LEMMA DeliverGrants ==
  ASSUME IInv, Setting, Grants, NEW d \in wire, Deliver(d) PROVE Grants'
<1> DEFINE r == calls[d.card].run
           x == gates[r]
           line == [call |-> file[r].call, id |-> d.id, choice |-> d.choice]
<1>1. d \in Decision /\ r \in Run /\ d.choice # "cached"
  BY RunOf DEF IInv, Shapes, Decision, UserChoices, Approvals
<1>2. /\ up /\ UNCHANGED <<server, turn>>
      /\ IF d.via = "ws" /\ file[r] = NoFile
         THEN ResolveGate(r, d) /\ UNCHANGED diskVars
         ELSE ResolveApproval(r, d)
  BY DEF Deliver
<1>3. line.call = file[r].call /\ line.choice = d.choice
  OBVIOUS
<1> HIDE DEF r, line
<1>4. ASSUME ResolveGate(r, d), x = 0 \/ ~server, UNCHANGED diskVars
      PROVE  Grants'
  <2>1. /\ Cards' = Cards
        /\ \A c \in Cards : /\ calls'[c].tool = calls[c].tool
                            /\ calls'[c].run = calls[c].run
                            /\ calls'[c].choice \in {calls[c].choice, d.choice}
                            /\ server => calls'[c] = calls[c]
    BY <1>1, <1>4, ResolveGateKeeps DEF IInv, Gated
  <2>2. OnlyAdds
    BY <1>1, <1>2, <1>4, <2>1 DEF OnlyAdds, diskVars
  <2> QED
    BY <1>2, <1>4, <2>1, <2>2, GrantsStay DEF diskVars, Grants
<1>5. CASE d.via = "ws" /\ file[r] = NoFile
  <2>1. x # 0 => ~server
    <3>1. x # 0 => x \in Cards /\ calls[x].run = r /\ Waiting(x)
      BY <1>1 DEF IInv, Gated
    <3>2. file[r].status = "none"
      BY <1>5 DEF NoFile
    <3>3. server /\ x # 0 => file[r].status = "pending"
      <4> DEFINE record == [call |-> x, status |-> "pending"]
      <4>1. record.status = "pending"
        OBVIOUS
      <4> HIDE DEF record
      <4>2. server /\ x # 0 => file[r] = record
        BY <3>1 DEF IInv, Recorded, record
      <4> QED
        BY <4>1, <4>2
    <3> QED
      BY <3>2, <3>3
  <2> QED
    BY <1>2, <1>4, <1>5, <2>1
<1>6. CASE ~(d.via = "ws" /\ file[r] = NoFile) /\ ~Undecided(r)
  <2>1. UNCHANGED <<server, turn, calls, audit, policies>> /\ Cards' = Cards
    BY <1>2, <1>6 DEF ResolveApproval, gateVars, diskVars, Cards
  <2>2. OnlyAdds
    BY <2>1 DEF OnlyAdds
  <2> QED
    BY <2>1, <2>2, QuietGrants
<1>7. CASE ~(d.via = "ws" /\ file[r] = NoFile) /\ Undecided(r)
  <2>1. /\ ResolveGate(r, d) /\ audit' = audit \cup {line}
        /\ policies' = policies
             \cup Granted(r, calls[file[r].call].tool, d.choice)
    BY <1>2, <1>7 DEF ResolveApproval, line
  <2>2. server /\ x # 0 /\ file[r].call = x
    BY <1>1, <1>2, <1>7 DEF IInv, Recorded, Undecided, NoFile
  <2>3. /\ Cards' = Cards /\ x \in Cards
        /\ \A c \in Cards : /\ calls'[c].tool = calls[c].tool
                            /\ calls'[c].run = calls[c].run
                            /\ c # x => calls'[c] = calls[c]
        /\ calls'[x].choice = d.choice /\ calls'[x].run = r
    BY <1>1, <2>1, <2>2, ResolveGateKeeps DEF IInv, Gated
  <2>4. OnlyAdds
    BY <1>1, <1>2, <2>1, <2>3 DEF OnlyAdds
  <2>5. ASSUME NEW p \in Granted(r, calls[x].tool, d.choice), NEW k \in Conv,
               p.conv \in {None, k}
        PROVE  Backed(p.tool, k)'
    <3>1. /\ p.tool = calls[x].tool
          /\ \/ d.choice = "forever"
             \/ d.choice = "session" /\ ConvOf[r] = k
      BY <1>1, <2>5 DEF Granted, Setting
    <3>2. line \in audit' /\ line.call = x /\ line.choice = d.choice
      BY <1>3, <2>1, <2>2
    <3> QED
      BY <2>3, <3>1, <3>2 DEF Backed
  <2>6. \A c \in Cards : calls'[c].wait = "resuming" =>
          \/ calls[c].wait = "resuming" /\ calls'[c].choice = calls[c].choice
          \/ \E a \in audit' : a.call = c /\ a.choice = calls'[c].choice
    BY <1>3, <2>1, <2>2, <2>3
  <2> QED
    BY <1>2, <2>1, <2>2, <2>3, <2>4, <2>5, <2>6, GrantsStay DEF Grants
<1> QED
  BY <1>5, <1>6, <1>7

LEMMA ResumeGrants ==
  ASSUME IInv, Setting, Grants, NEW c \in Cards, Resume(c) PROVE Grants'
<1> DEFINE call == calls[c]
           q == ConvOf[call.run]
           v == [call EXCEPT !.wait = "done"]
           line == [call |-> c, id |-> call.card, choice |-> call.choice]
<1>1. /\ call \in Call /\ call.run \in Run /\ q \in Conv
  BY RunOf DEF IInv, Setting
<1>2. /\ v \in Call /\ v.wait = "done" /\ v.run = call.run
      /\ v.tool = call.tool /\ v.choice = call.choice
  BY <1>1 DEF Call
<1>3. /\ call.wait = "resuming" /\ calls' = [calls EXCEPT ![c] = v]
      /\ server' = server
      /\ server => UNCHANGED <<audit, policies>>
      /\ ~server => /\ audit' = audit \cup {line}
                    /\ policies' = policies
                         \cup Granted(call.run, call.tool, call.choice)
      /\ \/ /\ turn' = [turn EXCEPT ![q].cache = @ \cup {call.tool}]
            /\ call.choice \in {"session", "forever"}
            /\ turn[q].run = call.run
         \/ turn' = turn
  BY DEF Resume
<1>4. line.call = c /\ line.choice = call.choice
  OBVIOUS
<1> HIDE DEF v, line
<1>5. /\ Cards' = Cards
      /\ \A e \in Cards : calls'[e] = IF e = c THEN v ELSE calls[e]
  BY <1>2, <1>3, CallChanges DEF IInv
<1>6. OnlyAdds
  BY <1>2, <1>3, <1>5 DEF OnlyAdds
<1>7. \E a \in audit' : a.call = c /\ a.choice = call.choice
  BY <1>3, <1>4, <1>6 DEF Grants, OnlyAdds
<1>8. ASSUME NEW t, t = call.tool, NEW k \in Conv,
             \/ call.choice = "forever"
             \/ call.choice = "session" /\ q = k
      PROVE  Backed(t, k)'
  <2>1. c \in Cards' /\ calls'[c].tool = call.tool /\ calls'[c].run = call.run
    BY <1>2, <1>5
  <2> QED
    BY <1>7, <1>8, <2>1 DEF Backed
<1>9. ASSUME NEW p \in policies', p \notin policies, NEW k \in Conv,
             p.conv \in {None, k}
      PROVE  Backed(p.tool, k)'
  <2>1. /\ p.tool = call.tool
        /\ \/ call.choice = "forever"
           \/ call.choice = "session" /\ q = k
    BY <1>1, <1>3, <1>9 DEF Granted, Setting
  <2> QED
    BY <1>8, <2>1
<1>10. ASSUME NEW k \in Conv
       PROVE  /\ turn'[k] # NoTurn => ConvOf[turn'[k].run] = k
              /\ \A t \in turn'[k].cache : t \in turn[k].cache
                                            \/ Backed(t, k)'
  <2>1. CASE turn' = turn
    BY <2>1 DEF Grants
  <2>2. CASE /\ turn' = [turn EXCEPT ![q].cache = @ \cup {call.tool}]
             /\ call.choice \in {"session", "forever"}
             /\ turn[q].run = call.run
    <3>1. turn[q] \in [run : Run \cup {None}, cache : SUBSET Tool]
      BY <1>1 DEF IInv, Shapes
    <3>2. /\ k # q => turn'[k] = turn[k]
          /\ turn'[q].run = call.run
          /\ turn'[q].cache = turn[q].cache \cup {call.tool}
      BY <1>1, <2>2, <3>1 DEF IInv, Shapes
    <3>3. \A t : t = call.tool /\ k = q => Backed(t, k)'
      BY <1>1, <1>8, <2>2
    <3> QED
      BY <3>2, <3>3 DEF Grants
  <2> QED
    BY <1>3, <2>1, <2>2
<1> QED
  BY <1>2, <1>5, <1>6, <1>9, <1>10, GrantsStay

LEMMA GiveUpGrants ==
  ASSUME IInv, Setting, Grants, NEW r \in Run, gates[r] # 0,
         NEW why \in {"timeout", "evicted"}, GiveUp(r, gates[r], why),
         UNCHANGED <<server, turn, audit, policies>>
  PROVE  Grants'
<1> DEFINE x == gates[r]
           v == [calls[x] EXCEPT !.wait = "done", !.choice = why]
<1>1. x \in Cards /\ calls[x] \in Call
  BY RunOf DEF IInv, Gated
<1>2. /\ v \in Call /\ v.wait = "done" /\ v.run = calls[x].run
      /\ v.tool = calls[x].tool /\ v.choice # "cached"
  BY <1>1 DEF Call
<1>3. calls' = [calls EXCEPT ![x] = v]
  BY DEF GiveUp
<1> HIDE DEF v
<1>4. /\ Cards' = Cards
      /\ \A c \in Cards : calls'[c] = IF c = x THEN v ELSE calls[c]
  BY <1>1, <1>2, <1>3, CallChanges DEF IInv
<1>5. OnlyAdds
  BY <1>2, <1>4 DEF OnlyAdds
<1> QED
  BY <1>2, <1>4, <1>5, QuietGrants

LEMMA DownGrants ==
  ASSUME IInv, Grants, Crash \/ Shutdown PROVE Grants'
<1>1. /\ server' = server /\ policies' = policies /\ audit \subseteq audit'
      /\ turn' = [k \in Conv |-> NoTurn]
  BY DEF Crash, Shutdown, Down, diskVars
<1>2. Cards' = Cards
  BY DEF Crash, Shutdown, Cards
<1>3. ASSUME NEW c \in Cards
      PROVE  /\ calls'[c].tool = calls[c].tool
             /\ calls'[c].run = calls[c].run
             /\ calls'[c].choice = "cached" => calls[c].choice = "cached"
             /\ calls'[c].wait # "resuming"
  <2>1. calls[c] \in Call
    BY RunOf DEF IInv
  <2>2. /\ [calls[c] EXCEPT !.wait = "lost"].wait = "lost"
        /\ [calls[c] EXCEPT !.wait = "lost"].choice = calls[c].choice
        /\ [calls[c] EXCEPT !.wait = "lost"].tool = calls[c].tool
        /\ [calls[c] EXCEPT !.wait = "lost"].run = calls[c].run
    BY <2>1 DEF Call
  <2>3. CASE Crash
    <3>1. calls'[c] = IF calls[c].wait \in {"parked", "resuming"}
                      THEN [calls[c] EXCEPT !.wait = "lost"] ELSE calls[c]
      BY <2>3 DEF Crash, Cards
    <3> QED
      BY <2>2, <3>1
  <2>4. CASE Shutdown
    <3> DEFINE v == [calls[c] EXCEPT !.wait = "done", !.choice = "deny",
                                     !.card = c]
               w == [calls[c] EXCEPT !.wait = "done", !.choice = "evicted"]
    <3>1. /\ v.wait = "done" /\ v.choice = "deny"
          /\ v.tool = calls[c].tool /\ v.run = calls[c].run
          /\ w.wait = "done" /\ w.choice = "evicted"
          /\ w.tool = calls[c].tool /\ w.run = calls[c].run
      BY <2>1 DEF Call
    <3>2. calls'[c] \in {v, w, [calls[c] EXCEPT !.wait = "lost"], calls[c]}
      BY <2>4 DEF Shutdown, Cards
    <3>3. calls[c].wait # "resuming"
      BY <2>4 DEF Shutdown, AtRest, Cards
    <3> HIDE DEF v, w
    <3> QED
      BY <2>2, <3>1, <3>2, <3>3
  <2> QED
    BY <2>3, <2>4
<1>4. OnlyAdds
  BY <1>1, <1>2, <1>3 DEF OnlyAdds
<1>5. \A k \in Conv : turn'[k] = NoTurn
  BY <1>1
<1> QED
  BY <1>1, <1>2, <1>3, <1>4, <1>5, QuietGrants

LEMMA GrantsInit == Init => Grants
<1> SUFFICES ASSUME Init PROVE Grants
  OBVIOUS
<1>1. Cards = {} /\ policies = {} /\ \A k \in Conv : turn[k] = NoTurn
  BY DEF Init, Cards
<1>2. NoTurn.cache = {}
  BY DEF NoTurn
<1> QED
  BY <1>1, <1>2 DEF Grants

LEMMA GrantsStep == IInv /\ Setting /\ Grants /\ [Next]_vars => Grants'
<1> SUFFICES ASSUME IInv, Setting, Grants, [Next]_vars PROVE Grants'
  OBVIOUS
<1>1. ASSUME NEW r \in Run, StartTurn(r) PROVE Grants'
  BY <1>1, StartTurnGrants
<1>2. ASSUME NEW k \in Conv, NEW t \in Tool, CachedCall(k, t) \/ Ask(k, t)
      PROVE  Grants'
  BY <1>2, CachedCallGrants, AskGrants
<1>3. ASSUME NEW d \in wire, Deliver(d) PROVE Grants'
  BY <1>3, DeliverGrants
<1>4. ASSUME NEW c \in DOMAIN calls, Resume(c) PROVE Grants'
  BY <1>4, ResumeGrants DEF Cards
<1>5. ASSUME NEW c \in DOMAIN calls, Timeout(c) PROVE Grants'
  <2>1. /\ c \in Cards /\ calls[c].run \in Run
        /\ c = gates[calls[c].run] /\ c # 0
    BY <1>5, RunOf, CardsAre DEF Timeout, IInv, Gated
  <2> QED
    BY <1>5, <2>1, GiveUpGrants DEF Timeout
<1>6. ASSUME NEW k \in Conv, Evict(k) PROVE Grants'
  <2>1. turn[k].run \in Run
    BY <1>6 DEF Evict, IInv, Shapes
  <2> QED
    BY <1>6, <2>1, GiveUpGrants DEF Evict
<1>7. CASE Crash \/ Shutdown
  BY <1>7, DownGrants
<1>8. CASE \/ \E k \in Conv : EndTurn(k)
           \/ \E c \in 1 .. MaxCalls, choice \in UserChoices,
                 via \in {"ws", "rest"} : Decide(c, choice, via)
           \/ Boot \/ UNCHANGED vars
  <2>1. /\ UNCHANGED <<server, calls, audit, policies>> /\ Cards' = Cards
        /\ \/ turn' = turn
           \/ \E k \in Conv : turn' = [turn EXCEPT ![k] = NoTurn]
    BY <1>8 DEF EndTurn, Decide, Boot, vars, gateVars, diskVars, Cards
  <2>2. OnlyAdds
    BY <2>1 DEF OnlyAdds
  <2>3. \A k \in Conv : turn'[k] = turn[k] \/ turn'[k] = NoTurn
    BY <2>1 DEF IInv, Shapes
  <2> QED
    BY <2>1, <2>2, <2>3, QuietGrants
<1> QED
  BY <1>1, <1>2, <1>3, <1>4, <1>5, <1>6, <1>7, <1>8 DEF Next

-----------------------------------------------------------------------------
(* The promise of ToolConsent *)

(* What the calls and the trail look like from there.                       *)
Id == 1 .. MaxCalls
AboutOf ==
  [c \in 1 .. MaxCalls |->
     IF c \in DOMAIN calls THEN [run |-> calls[c].run, tool |-> calls[c].tool]
     ELSE [run |-> None, tool |-> None]]
StateOf ==
  [c \in 1 .. MaxCalls |->
     IF c \in DOMAIN calls THEN Phase[calls[c].wait] ELSE "unasked"]
AnswerOf ==
  [c \in 1 .. MaxCalls |->
     IF c \in DOMAIN calls THEN AnswerTo(calls[c].choice) ELSE "none"]
TrailOf == {[call |-> a.call, choice |-> a.choice] : a \in audit}

(* There is a name for every call, and a handler that is about to go on was *)
(* told what a user said.                                                   *)
Named ==
  /\ Cards \subseteq Id
  /\ \A c \in Cards : calls[c].wait = "resuming" =>
       calls[c].choice \in UserChoices

LEMMA NothingMoves ==
  ASSUME Named, UNCHANGED <<calls, audit>>
  PROVE  Named' /\ UNCHANGED Consent!vars
BY DEF Named, Cards, Id, Consent!vars

(* A call that is there, and one that is not.                               *)
LEMMA Views ==
  ASSUME Named
  PROVE  /\ \A c \in Cards :
              /\ c \in Id /\ StateOf[c] = Phase[calls[c].wait]
              /\ AnswerOf[c] = AnswerTo(calls[c].choice)
              /\ AboutOf[c].run = calls[c].run
              /\ AboutOf[c].tool = calls[c].tool
         /\ \A c \in Id \ Cards : StateOf[c] = "unasked"
BY DEF Named, Cards, Id, StateOf, AnswerOf, AboutOf

(* A call is added.                                                         *)
LEMMA ViewGrows ==
  ASSUME Named, NEW n \in Id \ Cards, Cards' = Cards \cup {n},
         \A c \in Cards : calls'[c] = calls[c]
  PROVE  /\ StateOf' = [StateOf EXCEPT ![n] = Phase[calls'[n].wait]]
         /\ AnswerOf' = [AnswerOf EXCEPT ![n] = AnswerTo(calls'[n].choice)]
         /\ AboutOf' = [AboutOf EXCEPT ![n] =
                          [run |-> calls'[n].run, tool |-> calls'[n].tool]]
BY DEF Cards, Id, StateOf, AnswerOf, AboutOf

(* A call moves on.                                                         *)
LEMMA ViewMoves ==
  ASSUME Named, NEW x \in Cards, Cards' = Cards,
         calls'[x].run = calls[x].run, calls'[x].tool = calls[x].tool,
         \A c \in Cards : c # x => calls'[c] = calls[c]
  PROVE  /\ StateOf' = [StateOf EXCEPT ![x] = Phase[calls'[x].wait]]
         /\ AnswerOf' = [AnswerOf EXCEPT ![x] = AnswerTo(calls'[x].choice)]
         /\ AboutOf' = AboutOf
BY DEF Cards, Id, StateOf, AnswerOf, AboutOf

(* A line is added to the trail.                                            *)
LEMMA TrailGrows ==
  ASSUME NEW line, audit' = audit \cup {line}
  PROVE  TrailOf' = TrailOf \cup {[call |-> line.call, choice |-> line.choice]}
BY DEF TrailOf

LEMMA CachedCallIsLetThrough ==
  ASSUME IInv, Setting, Grants, Named, NEW k \in Conv, NEW t \in Tool,
         CachedCall(k, t)
  PROVE  Named' /\ Consent!Next
<1> SUFFICES ASSUME NEW n, n = Len(calls) + 1, NEW r, r = turn[k].run
             PROVE  Named' /\ Consent!Next
  OBVIOUS
<1>1. /\ turn[k] # NoTurn /\ t \in turn[k].cache /\ Len(calls) < MaxCalls
      /\ NewCall(k, t, "done", "cached")
      /\ UNCHANGED audit
  BY DEF CachedCall, CanAsk, diskVars
<1>2. /\ Cards' = Cards \cup {n} /\ n \notin Cards /\ n \in Nat \ {0}
      /\ \A c \in Cards : calls'[c] = calls[c]
      /\ calls'[n].run = r /\ calls'[n].wait = "done"
      /\ calls'[n].tool = t /\ calls'[n].choice = "cached"
  BY <1>1, NewCallAdds DEF IInv
<1>3. n \in Id /\ r \in Run
  BY <1>1, CardsAre DEF IInv, Shapes, Id, Setting
<1>4. Named'
  BY <1>2, <1>3 DEF Named, Id
<1>5. Phase["done"] = "told" /\ AnswerTo("cached") = "granted"
  BY DEF Phase, AnswerTo
<1>6. /\ StateOf' = [StateOf EXCEPT ![n] = "told"]
      /\ AnswerOf' = [AnswerOf EXCEPT ![n] = "granted"]
      /\ AboutOf' = [AboutOf EXCEPT ![n] = [run |-> r, tool |-> t]]
      /\ StateOf[n] = "unasked" /\ TrailOf' = TrailOf
  BY <1>1, <1>2, <1>3, <1>5, ViewGrows, Views DEF TrailOf
<1>7. \E m \in TrailOf :
        /\ AboutOf[m.call].tool = t
        /\ \/ m.choice = "forever"
           \/ m.choice = "session" /\ ConvOf[AboutOf[m.call].run] = ConvOf[r]
  <2>1. Backed(t, k) /\ ConvOf[r] = k
    BY <1>1 DEF Grants
  <2>2. PICK a \in audit :
          /\ a.call \in Cards /\ calls[a.call].tool = t
          /\ \/ a.choice = "forever"
             \/ a.choice = "session" /\ ConvOf[calls[a.call].run] = k
    BY <2>1 DEF Backed
  <2> DEFINE m == [call |-> a.call, choice |-> a.choice]
  <2>3. m \in TrailOf /\ m.call = a.call /\ m.choice = a.choice
    BY DEF TrailOf
  <2> HIDE DEF m
  <2> QED
    BY <2>1, <2>2, <2>3, Views
<1>8. Consent!LetThrough(n, r, t)
  BY <1>6, <1>7
     DEF Consent!LetThrough, Consent!Granted, Consent!New, Consent!Becomes,
         StateOf, AnswerOf, AboutOf, TrailOf
<1> QED
  BY <1>3, <1>4, <1>8 DEF Consent!Next, Id

(* Which calls are open there, and which decided.                           *)
LEMMA PhasesAre ==
  /\ Phase["parked"] = "open" /\ Phase["resuming"] = "decided"
  /\ Phase["done"] = "told" /\ Phase["lost"] = "lost"
BY DEF Phase

LEMMA AnswersAre ==
  /\ AnswerTo("none") = "none" /\ AnswerTo("cached") = "granted"
  /\ AnswerTo("timeout") = "refused" /\ AnswerTo("evicted") = "refused"
  /\ \A choice \in UserChoices : AnswerTo(choice) = choice
BY DEF AnswerTo, UserChoices, Approvals

LEMMA StatesAre ==
  ASSUME Shapes, Named, NEW c \in Id
  PROVE  /\ StateOf[c] = "open" <=> c \in Cards /\ Waiting(c)
         /\ StateOf[c] = "decided" <=>
              c \in Cards /\ calls[c].wait = "resuming"
<1>1. CASE c \in Cards
  <2>1. calls[c].wait \in {"parked", "resuming", "done", "lost"}
    BY <1>1, RunOf DEF Call
  <2> QED
    BY <1>1, <2>1, Views, PhasesAre DEF Waiting
<1>2. CASE c \notin Cards
  BY <1>2, Views
<1> QED
  BY <1>1, <1>2

LEMMA AskIsAsk ==
  ASSUME IInv, Setting, Named, NEW k \in Conv, NEW t \in Tool, Ask(k, t)
  PROVE  Named' /\ Consent!Next
<1> SUFFICES ASSUME NEW n, n = Len(calls) + 1, NEW r, r = turn[k].run
             PROVE  Named' /\ Consent!Next
  OBVIOUS
<1>1. /\ turn[k] # NoTurn /\ Len(calls) < MaxCalls /\ gates[r] = 0 /\ AtRest
      /\ NewCall(k, t, "parked", "none")
      /\ UNCHANGED audit
  BY DEF Ask, CanAsk
<1>2. /\ Cards' = Cards \cup {n} /\ n \notin Cards /\ n \in Nat \ {0}
      /\ \A c \in Cards : calls'[c] = calls[c]
      /\ calls'[n].run = r /\ calls'[n].wait = "parked"
      /\ calls'[n].tool = t /\ calls'[n].choice = "none"
  BY <1>1, NewCallAdds DEF IInv
<1>3. n \in Id /\ r \in Run
  BY <1>1, CardsAre DEF IInv, Shapes, Id, Setting
<1>4. Named'
  BY <1>2, <1>3 DEF Named, Id
<1>5. /\ StateOf' = [StateOf EXCEPT ![n] = "open"]
      /\ AnswerOf' = [AnswerOf EXCEPT ![n] = "none"]
      /\ AboutOf' = [AboutOf EXCEPT ![n] = [run |-> r, tool |-> t]]
      /\ StateOf[n] = "unasked" /\ TrailOf' = TrailOf
  BY <1>1, <1>2, <1>3, PhasesAre, AnswersAre, ViewGrows, Views DEF TrailOf
<1>6. ASSUME NEW e \in Id, StateOf[e] \in {"open", "decided"}
      PROVE  AboutOf[e].run # r
  <2>1. e \in Cards /\ (Waiting(e) \/ calls[e].wait = "resuming")
    BY <1>6, StatesAre DEF IInv
  <2>2. Waiting(e)
    BY <1>1, <2>1 DEF AtRest, Cards
  <2>3. gates[calls[e].run] = e /\ e # 0
    BY <2>1, <2>2, CardsAre DEF IInv, Gated
  <2> QED
    BY <1>1, <2>1, <2>3, Views
<1>7. Consent!Ask(n, r, t)
  BY <1>5, <1>6
     DEF Consent!Ask, Consent!Unfinished, Consent!New, Consent!Becomes,
         StateOf, AnswerOf, AboutOf, TrailOf, Id
<1> QED
  BY <1>3, <1>4, <1>7 DEF Consent!Next, Id

(* The gate opens with the decision, noted or not.                          *)
LEMMA GateOpensOnDecision ==
  ASSUME IInv, Named, NEW r \in Run, NEW d \in Decision, gates[r] # 0,
         ResolveGate(r, d),
         TrailOf' \in {TrailOf, TrailOf \cup
                         {[call |-> gates[r], choice |-> d.choice]}}
  PROVE  Named' /\ Consent!Next
<1> SUFFICES ASSUME NEW x, x = gates[r], NEW choice, choice = d.choice
             PROVE  Named' /\ Consent!Next
  OBVIOUS
<1>1. x \in Cards /\ Waiting(x) /\ calls[x].run = r /\ choice \in UserChoices
  BY DEF IInv, Gated, Decision
<1>2. /\ Cards' = Cards
      /\ calls'[x].wait = "resuming" /\ calls'[x].choice = choice
      /\ calls'[x].run = calls[x].run /\ calls'[x].tool = calls[x].tool
      /\ \A c \in Cards : c # x => calls'[c] = calls[c]
  BY <1>1, ResolveGateKeeps
<1>3. Named'
  BY <1>1, <1>2 DEF Named
<1>4. /\ StateOf' = [StateOf EXCEPT ![x] = "decided"]
      /\ AnswerOf' = [AnswerOf EXCEPT ![x] = choice]
      /\ AboutOf' = AboutOf /\ x \in Id /\ StateOf[x] = "open"
  BY <1>1, <1>2, PhasesAre, AnswersAre, ViewMoves, StatesAre DEF IInv, Named
<1>5. TrailOf' \in {TrailOf, TrailOf \cup {[call |-> x, choice |-> choice]}}
  OBVIOUS
<1>6. Consent!Decide(x, choice)
  BY <1>4, <1>5
     DEF Consent!Decide, Consent!Open, Consent!Note, Consent!Becomes,
         StateOf, AnswerOf, AboutOf, TrailOf
<1> QED
  BY <1>1, <1>3, <1>4, <1>6
     DEF Consent!Next, Id, UserChoices, Approvals, Consent!UserChoices

LEMMA DeliverIsDecide ==
  ASSUME IInv, Setting, Named, NEW d \in wire, Deliver(d)
  PROVE  Named' /\ (Consent!Next \/ UNCHANGED Consent!vars)
<1> SUFFICES ASSUME NEW r, r = calls[d.card].run
             PROVE  Named' /\ (Consent!Next \/ UNCHANGED Consent!vars)
  OBVIOUS
<1>1. d \in Decision /\ r \in Run
  BY RunOf DEF IInv, Shapes
<1>2. /\ up
      /\ IF d.via = "ws" /\ file[r] = NoFile
         THEN ResolveGate(r, d) /\ UNCHANGED diskVars
         ELSE ResolveApproval(r, d)
  BY DEF Deliver
<1>3. ASSUME ResolveGate(r, d), UNCHANGED audit
      PROVE  Named' /\ (Consent!Next \/ UNCHANGED Consent!vars)
  <2>1. CASE gates[r] = 0
    BY <1>3, <2>1, NothingMoves DEF ResolveGate, gateVars
  <2>2. CASE gates[r] # 0
    <3>1. TrailOf' = TrailOf
      BY <1>3 DEF TrailOf
    <3> QED
      BY <1>1, <1>3, <2>2, <3>1, GateOpensOnDecision
  <2> QED
    BY <2>1, <2>2
<1>4. CASE d.via = "ws" /\ file[r] = NoFile
  BY <1>2, <1>3, <1>4 DEF diskVars
<1>5. CASE ~(d.via = "ws" /\ file[r] = NoFile) /\ ~Undecided(r)
  BY <1>2, <1>5, NothingMoves DEF ResolveApproval, gateVars, diskVars
<1>6. CASE ~(d.via = "ws" /\ file[r] = NoFile) /\ Undecided(r)
  <2> DEFINE line == [call |-> file[r].call, id |-> d.id, choice |-> d.choice]
  <2>1. ResolveGate(r, d) /\ audit' = audit \cup {line}
    BY <1>2, <1>6 DEF ResolveApproval
  <2>2. gates[r] # 0 /\ file[r].call = gates[r]
    BY <1>1, <1>2, <1>6 DEF IInv, Recorded, Undecided, NoFile
  <2>3. line.call = gates[r] /\ line.choice = d.choice
    BY <2>2
  <2> HIDE DEF line
  <2>4. TrailOf' = TrailOf \cup {[call |-> gates[r], choice |-> d.choice]}
    BY <2>1, <2>3, TrailGrows
  <2> QED
    BY <1>1, <2>1, <2>2, <2>4, GateOpensOnDecision
<1> QED
  BY <1>4, <1>5, <1>6

(* What the handler returns is noted by then, or with it.                   *)
LEMMA ResumeIsTell ==
  ASSUME IInv, Setting, Grants, Named, NEW c \in Cards, Resume(c)
  PROVE  Named' /\ Consent!Next
<1> DEFINE v == [calls[c] EXCEPT !.wait = "done"]
           line == [call |-> c, id |-> calls[c].card,
                    choice |-> calls[c].choice]
<1> SUFFICES ASSUME NEW choice, choice = calls[c].choice
             PROVE  Named' /\ Consent!Next
  OBVIOUS
<1>1. calls[c] \in Call
  BY RunOf DEF IInv
<1>2. /\ v \in Call /\ v.wait = "done" /\ v.run = calls[c].run
      /\ v.tool = calls[c].tool /\ v.choice = choice
  BY <1>1 DEF Call
<1>3. /\ calls[c].wait = "resuming" /\ calls' = [calls EXCEPT ![c] = v]
      /\ server => audit' = audit
      /\ ~server => audit' = audit \cup {line}
  BY DEF Resume
<1>4. line.call = c /\ line.choice = choice
  OBVIOUS
<1> HIDE DEF v, line
<1>5. /\ Cards' = Cards
      /\ calls'[c] = v
      /\ \A e \in Cards : c # e => calls'[e] = calls[e]
  BY <1>2, <1>3, CallChanges DEF IInv
<1>6. Named' /\ choice \in UserChoices
  BY <1>2, <1>3, <1>5 DEF Named
<1>7. /\ StateOf' = [StateOf EXCEPT ![c] = "told"]
      /\ AnswerOf' = [AnswerOf EXCEPT ![c] = choice]
      /\ AboutOf' = AboutOf /\ c \in Id
      /\ StateOf[c] = "decided" /\ AnswerOf[c] = choice
  BY <1>2, <1>3, <1>5, <1>6, PhasesAre, AnswersAre, ViewMoves, Views
     DEF Named
<1>8. TrailOf' = TrailOf \cup {[call |-> c, choice |-> choice]}
  <2>1. CASE server
    <3>1. PICK a \in audit : a.call = c /\ a.choice = choice
      BY <1>3, <2>1 DEF Grants
    <3> QED
      BY <1>3, <2>1, <3>1 DEF TrailOf
  <2>2. CASE ~server
    BY <1>3, <1>4, <2>2, TrailGrows
  <2> QED
    BY <2>1, <2>2
<1>9. Consent!Tell(c)
  BY <1>7, <1>8
     DEF Consent!Tell, Consent!Note, Consent!Becomes,
         StateOf, AnswerOf, AboutOf, TrailOf
<1> QED
  BY <1>6, <1>7, <1>9 DEF Consent!Next, Id

LEMMA GiveUpIsRefuse ==
  ASSUME IInv, Setting, Named, NEW r \in Run, gates[r] # 0,
         NEW why \in {"timeout", "evicted"}, GiveUp(r, gates[r], why),
         UNCHANGED audit
  PROVE  Named' /\ Consent!Next
<1> SUFFICES ASSUME NEW x, x = gates[r] PROVE Named' /\ Consent!Next
  OBVIOUS
<1> DEFINE v == [calls[x] EXCEPT !.wait = "done", !.choice = why]
<1>1. x \in Cards /\ calls[x] \in Call /\ Waiting(x)
  BY RunOf DEF IInv, Gated
<1>2. /\ v \in Call /\ v.wait = "done" /\ v.run = calls[x].run
      /\ v.tool = calls[x].tool /\ v.choice = why
  BY <1>1 DEF Call
<1>3. calls' = [calls EXCEPT ![x] = v]
  BY DEF GiveUp
<1> HIDE DEF v
<1>4. /\ Cards' = Cards
      /\ calls'[x] = v
      /\ \A c \in Cards : c # x => calls'[c] = calls[c]
  <2>1. Shapes /\ x \in Cards /\ v \in Call
    BY <1>1, <1>2 DEF IInv
  <2>2. /\ Cards' = Cards
        /\ \A c \in Cards : calls'[c] = IF c = x THEN v ELSE calls[c]
    BY <1>3, <2>1, CallChanges
  <2> QED
    BY <2>1, <2>2
<1>5. Named'
  BY <1>2, <1>4 DEF Named
<1>6. /\ StateOf' = [StateOf EXCEPT ![x] = "told"]
      /\ AnswerOf' = [AnswerOf EXCEPT ![x] = "refused"]
      /\ AboutOf' = AboutOf /\ x \in Id /\ StateOf[x] = "open"
      /\ TrailOf' = TrailOf
  BY <1>1, <1>2, <1>4, PhasesAre, AnswersAre, ViewMoves, StatesAre
     DEF IInv, Named, TrailOf
<1>7. Consent!Refuse(x)
  BY <1>6
     DEF Consent!Refuse, Consent!Open, Consent!Becomes,
         StateOf, AnswerOf, AboutOf, TrailOf
<1> QED
  BY <1>5, <1>6, <1>7 DEF Consent!Next, Id

(* The process ends: some of what is open is denied, some refused, the rest *)
(* is lost.                                                                 *)
LEMMA CallsEnd ==
  ASSUME Shapes, Named, Cards' = Cards,
         NEW denied \in SUBSET {c \in Cards : Waiting(c)},
         NEW refused \in SUBSET {c \in Cards \ denied : Waiting(c)},
         \A c \in Cards :
           /\ calls'[c].run = calls[c].run /\ calls'[c].tool = calls[c].tool
           /\ calls'[c].wait = IF c \in denied \cup refused THEN "done"
                               ELSE IF calls[c].wait \in {"parked", "resuming"}
                               THEN "lost" ELSE calls[c].wait
           /\ calls'[c].choice = IF c \in denied THEN "deny"
                                 ELSE IF c \in refused THEN "evicted"
                                 ELSE calls[c].choice,
         TrailOf' = TrailOf \cup {[call |-> c, choice |-> "deny"] :
                                    c \in denied}
  PROVE  Named' /\ Consent!Next
<1>1. Named'
  BY DEF Named
<1>2. AboutOf' = AboutOf
  BY DEF AboutOf, Cards
<1>3. StateOf' = [c \in Id |->
        IF c \in denied \cup refused THEN "told"
        ELSE IF c \in {e \in Id : StateOf[e] \in {"open", "decided"}}
        THEN "lost" ELSE StateOf[c]]
  <2>1. StateOf' = [c \in Id |-> IF c \in Cards THEN Phase[calls'[c].wait]
                                 ELSE "unasked"]
    BY DEF StateOf, Id, Cards
  <2>2. ASSUME NEW c \in Id
        PROVE  (IF c \in Cards THEN Phase[calls'[c].wait] ELSE "unasked") =
                 IF c \in denied \cup refused THEN "told"
                 ELSE IF c \in {e \in Id : StateOf[e] \in {"open", "decided"}}
                 THEN "lost" ELSE StateOf[c]
    BY StatesAre, PhasesAre, Views DEF Waiting
  <2> QED
    BY <2>1, <2>2
<1>4. AnswerOf' = [c \in Id |->
        IF c \in denied THEN "deny"
        ELSE IF c \in refused THEN "refused" ELSE AnswerOf[c]]
  <2>1. AnswerOf' = [c \in Id |->
          IF c \in Cards THEN AnswerTo(calls'[c].choice) ELSE "none"]
    BY DEF AnswerOf, Id, Cards
  <2>2. ASSUME NEW c \in Id
        PROVE  (IF c \in Cards THEN AnswerTo(calls'[c].choice) ELSE "none") =
                 IF c \in denied THEN "deny"
                 ELSE IF c \in refused THEN "refused" ELSE AnswerOf[c]
    <3>1. AnswerTo("deny") = "deny"
      BY AnswersAre DEF UserChoices
    <3>2. c \notin Cards => AnswerOf[c] = "none" /\ c \notin denied
                            /\ c \notin refused
      BY DEF AnswerOf, Id, Cards
    <3> QED
      BY <3>1, <3>2, AnswersAre, Views
  <2> QED
    BY <2>1, <2>2
<1>5. /\ denied \in SUBSET {c \in Id : StateOf[c] = "open"}
      /\ refused \in SUBSET {c \in Id \ denied : StateOf[c] = "open"}
  BY StatesAre DEF Named
<1>6. Consent!End
  BY <1>2, <1>3, <1>4, <1>5
     DEF Consent!End, Consent!Open, Consent!Unfinished, Consent!Note,
         StateOf, AnswerOf, AboutOf, TrailOf, Id
<1> QED
  BY <1>1, <1>6 DEF Consent!Next

LEMMA CrashIsEnd ==
  ASSUME IInv, Named, Crash PROVE Named' /\ Consent!Next
<1>1. /\ audit' = audit
      /\ calls' = [c \in Cards |->
                    IF calls[c].wait \in {"parked", "resuming"}
                    THEN [calls[c] EXCEPT !.wait = "lost"] ELSE calls[c]]
  BY DEF Crash, Cards, diskVars
<1>2. Cards' = Cards
  BY <1>1 DEF Cards
<1>3. ASSUME NEW c \in Cards
      PROVE  /\ calls'[c].run = calls[c].run /\ calls'[c].tool = calls[c].tool
             /\ calls'[c].choice = calls[c].choice
             /\ calls'[c].wait =
                  IF calls[c].wait \in {"parked", "resuming"}
                  THEN "lost" ELSE calls[c].wait
  <2> DEFINE v == [calls[c] EXCEPT !.wait = "lost"]
  <2>1. calls[c] \in Call
    BY RunOf DEF IInv
  <2>2. /\ v.wait = "lost" /\ v.choice = calls[c].choice
        /\ v.tool = calls[c].tool /\ v.run = calls[c].run
    BY <2>1 DEF Call
  <2>3. calls'[c] = IF calls[c].wait \in {"parked", "resuming"}
                    THEN v ELSE calls[c]
    BY <1>1
  <2> HIDE DEF v
  <2> QED
    BY <2>2, <2>3
<1> SUFFICES ASSUME NEW nobody, nobody = {} PROVE Named' /\ Consent!Next
  OBVIOUS
<1>4. TrailOf' = TrailOf
                   \cup {[call |-> c, choice |-> "deny"] : c \in nobody}
  BY <1>1 DEF TrailOf
<1>5. /\ nobody \in SUBSET {c \in Cards : Waiting(c)}
      /\ nobody \in SUBSET {c \in Cards \ nobody : Waiting(c)}
      /\ \A c : c \notin nobody /\ c \notin nobody \cup nobody
  OBVIOUS
<1> QED
  BY <1>2, <1>3, <1>4, <1>5, CallsEnd DEF IInv

LEMMA ShutdownIsEnd ==
  ASSUME IInv, Named, Shutdown PROVE Named' /\ Consent!Next
<1> DEFINE asked == {c \in Cards :
                       Waiting(c) /\ run[calls[c].run] = "running"}
           heard == IF server THEN asked ELSE {}
           lines == {[call |-> c, id |-> 0, choice |-> "deny"] : c \in heard}
<1>1. /\ AtRest /\ audit' = audit \cup lines
      /\ calls' = [c \in Cards |->
           CASE c \in heard -> [calls[c] EXCEPT !.wait = "done",
                                  !.choice = "deny", !.card = c]
             [] c \in asked \ heard -> [calls[c] EXCEPT !.wait = "done",
                                          !.choice = "evicted"]
             [] Waiting(c) /\ c \notin asked ->
                  [calls[c] EXCEPT !.wait = "lost"]
             [] OTHER -> calls[c]]
  BY DEF Shutdown, Cards
<1>2. Cards' = Cards
  BY <1>1 DEF Cards
<1>3. /\ heard \in SUBSET {c \in Cards : Waiting(c)} /\ heard \subseteq asked
      /\ asked \ heard \in SUBSET {c \in Cards \ heard : Waiting(c)}
      /\ \A c \in asked : Waiting(c)
  OBVIOUS
<1>4. TrailOf' = TrailOf \cup {[call |-> c, choice |-> "deny"] : c \in heard}
  <2>1. {[call |-> a.call, choice |-> a.choice] : a \in lines} =
          {[call |-> c, choice |-> "deny"] : c \in heard}
    <3> DEFINE Line(c) == [call |-> c, id |-> 0, choice |-> "deny"]
    <3>1. \A c : Line(c).call = c /\ Line(c).choice = "deny"
      OBVIOUS
    <3>2. lines = {Line(c) : c \in heard}
      OBVIOUS
    <3> HIDE DEF lines, heard, Line
    <3> QED
      BY <3>1, <3>2
  <2> HIDE DEF lines
  <2> QED
    BY <1>1, <2>1 DEF TrailOf
<1> HIDE DEF asked, heard, lines
<1>5. ASSUME NEW c \in Cards
      PROVE  /\ calls'[c].run = calls[c].run /\ calls'[c].tool = calls[c].tool
             /\ calls'[c].wait =
                  IF c \in heard \cup (asked \ heard) THEN "done"
                  ELSE IF calls[c].wait \in {"parked", "resuming"}
                  THEN "lost" ELSE calls[c].wait
             /\ calls'[c].choice = IF c \in heard THEN "deny"
                                   ELSE IF c \in asked \ heard THEN "evicted"
                                   ELSE calls[c].choice
  <2> DEFINE u == [calls[c] EXCEPT !.wait = "done", !.choice = "deny",
                                   !.card = c]
             v == [calls[c] EXCEPT !.wait = "done", !.choice = "evicted"]
             w == [calls[c] EXCEPT !.wait = "lost"]
  <2>1. calls[c] \in Call /\ calls[c].wait # "resuming"
    BY <1>1, RunOf DEF IInv, AtRest, Cards
  <2>2. /\ u.wait = "done" /\ u.choice = "deny"
        /\ u.tool = calls[c].tool /\ u.run = calls[c].run
        /\ v.wait = "done" /\ v.choice = "evicted"
        /\ v.tool = calls[c].tool /\ v.run = calls[c].run
        /\ w.wait = "lost" /\ w.choice = calls[c].choice
        /\ w.tool = calls[c].tool /\ w.run = calls[c].run
    BY <2>1 DEF Call
  <2>3. calls'[c] = CASE c \in heard -> u
                      [] c \in asked \ heard -> v
                      [] Waiting(c) /\ c \notin asked -> w
                      [] OTHER -> calls[c]
    BY <1>1
  <2> HIDE DEF u, v, w
  <2>4. CASE c \in heard
    <3>1. calls'[c] = u
      BY <1>3, <2>3, <2>4
    <3> QED
      BY <2>2, <2>4, <3>1
  <2>5. CASE c \in asked \ heard
    <3>1. calls'[c] = v
      BY <1>3, <2>3, <2>5
    <3> QED
      BY <2>2, <2>5, <3>1
  <2>6. CASE Waiting(c) /\ c \notin asked
    <3>1. calls'[c] = w /\ c \notin heard
      BY <1>3, <2>3, <2>6
    <3> QED
      BY <2>2, <2>6, <3>1 DEF Waiting
  <2>7. CASE ~Waiting(c)
    <3>1. calls'[c] = calls[c] /\ c \notin heard /\ c \notin asked
      BY <1>3, <2>3, <2>7
    <3> QED
      BY <2>1, <2>7, <3>1 DEF Waiting
  <2> QED
    BY <2>4, <2>5, <2>6, <2>7
<1> QED
  BY <1>2, <1>3, <1>4, <1>5, CallsEnd DEF IInv

LEMMA ConsentStep ==
  IInv /\ Setting /\ Grants /\ Named /\ [Next]_vars =>
    Named' /\ [Consent!Next]_(Consent!vars)
<1> DEFINE Kept == Named' /\ (Consent!Next \/ UNCHANGED Consent!vars)
<1> SUFFICES ASSUME IInv, Setting, Grants, Named, [Next]_vars PROVE Kept
  OBVIOUS
<1>1. ASSUME NEW k \in Conv, NEW t \in Tool, CachedCall(k, t) \/ Ask(k, t)
      PROVE  Kept
  BY <1>1, CachedCallIsLetThrough, AskIsAsk
<1>2. ASSUME NEW d \in wire, Deliver(d) PROVE Kept
  BY <1>2, DeliverIsDecide
<1>3. ASSUME NEW c \in DOMAIN calls, Resume(c) PROVE Kept
  BY <1>3, ResumeIsTell DEF Cards
<1>4. ASSUME NEW c \in DOMAIN calls, Timeout(c) PROVE Kept
  <2>1. /\ c \in Cards /\ calls[c].run \in Run
        /\ c = gates[calls[c].run] /\ c # 0
    BY <1>4, RunOf, CardsAre DEF Timeout, IInv, Gated
  <2> QED
    BY <1>4, <2>1, GiveUpIsRefuse DEF Timeout
<1>5. ASSUME NEW k \in Conv, Evict(k) PROVE Kept
  <2>1. turn[k].run \in Run
    BY <1>5 DEF Evict, IInv, Shapes
  <2> QED
    BY <1>5, <2>1, GiveUpIsRefuse DEF Evict
<1>6. CASE Crash \/ Shutdown
  BY <1>6, CrashIsEnd, ShutdownIsEnd
<1>7. CASE \/ \E r \in Run : StartTurn(r)
           \/ \E k \in Conv : EndTurn(k)
           \/ \E c \in 1 .. MaxCalls, choice \in UserChoices,
                 via \in {"ws", "rest"} : Decide(c, choice, via)
           \/ Boot \/ UNCHANGED vars
  <2>1. UNCHANGED <<calls, audit>>
    BY <1>7
       DEF StartTurn, EndTurn, Decide, Boot, vars, gateVars, diskVars
  <2> QED
    BY <2>1, NothingMoves
<1> HIDE DEF Kept
<1> QED
  BY <1>1, <1>2, <1>3, <1>4, <1>5, <1>6, <1>7 DEF Next

LEMMA ConsentInit == Init => Named /\ Consent!Init
<1> SUFFICES ASSUME Init PROVE Named /\ Consent!Init
  OBVIOUS
<1>1. calls = <<>> /\ DOMAIN calls = {} /\ audit = {}
  BY DEF Init
<1> QED
  BY <1>1 DEF Named, Cards, Consent!Init

-----------------------------------------------------------------------------
(* The theorems *)

(* However many clients decide, over the socket, over REST or by shutting   *)
(* down, the audit trail has one verdict of a call, and it is the one its   *)
(* handler returned; and a call nobody was asked about was granted before,  *)
(* for good or for the session in its conversation, across turns, crashes   *)
(* and restarts.                                                            *)
THEOREM TheTrailIsWhatWasTold == Spec => []VerdictsHold
<1>1. IInv => OneVerdict
  BY DEF IInv, Audited, OneVerdict
<1>2. Grants => UnaskedWasGranted
  BY DEF Grants, Backed, UnaskedWasGranted, Cards
<1>3. IInv /\ Grants => VerdictsHold
  BY <1>1, <1>2 DEF VerdictsHold
<1> QED
  BY <1>3, GrantsInit, IInvInit, IInvStep, GrantsStep, ApprovalAssumption, PTL
     DEF Spec

(* What the list of pending approvals shows is what waits: every record has *)
(* its handler at the gate and, when the server decides on permissions,     *)
(* every handler its record and its timer, across crashes and restarts.     *)
THEOREM TheListIsWhatWaits == Spec => []ListedIffParked
<1>1. IInv => ListedIffParked
  <2> SUFFICES ASSUME IInv, up, NEW r \in Run
               PROVE  /\ file[r].status = "pending" =>
                           Waiting(file[r].call) /\ gates[r] = file[r].call
                      /\ server => \A c \in Cards :
                           Waiting(c) /\ calls[c].run = r =>
                             file[r] = [call |-> c, status |-> "pending"]
                             /\ c \in armed
    BY DEF ListedIffParked, Cards
  <2>1. file[r].status = "pending" => server
    BY DEF IInv, Recorded, NoFile
  <2>2. file[r].status = "pending" =>
          Waiting(file[r].call) /\ gates[r] = file[r].call
    <3>1. ASSUME file[r].status = "pending"
          PROVE  gates[r] # 0 /\ file[r].call = gates[r]
      BY <2>1, <3>1 DEF IInv, Recorded
    <3>2. gates[r] # 0 => Waiting(gates[r])
      BY DEF IInv, Gated
    <3> QED
      BY <3>1, <3>2
  <2>3. ASSUME server, NEW c \in Cards, Waiting(c), calls[c].run = r
        PROVE  file[r] = [call |-> c, status |-> "pending"] /\ c \in armed
    BY <2>3 DEF IInv, Recorded, Gated
  <2> QED
    BY <2>2, <2>3
<1> QED
  BY <1>1, IInvInit, IInvStep, ApprovalAssumption, PTL DEF Spec

(* Gates, timers, records, policies, audit trail and handlers together keep *)
(* the promise of ToolConsent, across clients, REST, timeouts, evictions,   *)
(* crashes, shutdowns and boots: a call is answered once and no answer is   *)
(* taken back, a run has one question open at a time, what a tool hears of  *)
(* a user is in the trail by then, and what goes through unasked was        *)
(* granted.                                                                 *)
THEOREM ConsentIsKept == Spec => ImplementsConsent
<1>1. IInv /\ Grants /\ Named /\ [Next]_vars =>
        Named' /\ [Consent!Next]_(Consent!vars)
  BY ConsentStep, ApprovalAssumption
<1>2. IInv /\ [Next]_vars => IInv'
  BY IInvStep, ApprovalAssumption
<1>3. IInv /\ Grants /\ [Next]_vars => Grants'
  BY GrantsStep, ApprovalAssumption
<1>4. Init => IInv /\ Grants /\ Named /\ Consent!Init
  BY IInvInit, GrantsInit, ConsentInit, ApprovalAssumption
<1> QED
  BY <1>1, <1>2, <1>3, <1>4, PTL DEF Spec, ImplementsConsent, Consent!Spec
=============================================================================
