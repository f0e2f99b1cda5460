-------------------------- MODULE TranscriptRepair --------------------------
(***************************************************************************)
(* messages.jsonl of one conversation and everybody who rewrites it: the   *)
(* CLI appends, the settlement of an interrupted turn (turn-settlement.ts) *)
(* and the repair after a Stop (cancel-heal.ts) put in the results that    *)
(* tool calls never got, the pre-flight of a turn prunes repeated user     *)
(* messages, and a turn the provider refused has the transcript repaired   *)
(* (agent-pool.ts runTurnWithHeal, conversation-healer.ts).  Each of them  *)
(* reads the file, computes and renames a new one over it, with no lock.   *)
(* Turns follow each other on one adapter only; a turn with client tools   *)
(* has one of its own, and one whose adapter was evicted goes on beside    *)
(* the turns of the adapter that replaces it.                              *)
(*                                                                         *)
(* What the provider accepts, and how it words a refusal, is external; it  *)
(* is taken to accept two user messages in a row.                          *)
(***************************************************************************)
EXTENDS Naturals, Sequences, FiniteSets, SequencesExt, FiniteSetsExt

CONSTANTS
  Caller,      \* calls of runTurnWithHeal
  ToolCall,    \* tool_call ids
  Overlapping, \* the refusal of a result also reads like that of a call
  MaxRecords,  \* bound: no new message once a sound transcript is as long
  MaxHits      \* bound: stops, timeouts and crashes

VARIABLES
  transcript, \* messages.jsonl
  fresh,      \* tool_call ids not yet used
  callers,    \* where each caller is, and what it holds
  heal,       \* healingByConversation: the repair after a Stop
  hits        \* stops, timeouts and crashes so far

transcriptVars == <<transcript, fresh, callers, heal, hits>>

Record(role, calls, id, synth) ==
  [role |-> role, calls |-> calls, id |-> id, synth |-> synth]
Nil == "none"
User == Record("user", {}, Nil, FALSE)
Assistant(calls) == Record("assistant", calls, Nil, FALSE)
Result(c, synth) == Record("result", {}, c, synth)

Off == [pc |-> "off", ids |-> {}, snap |-> <<>>]
Idle ==
  [pc |-> "idle", own |-> FALSE, cancelled |-> FALSE, owed |-> {},
   called |-> {}, returned |-> {}, kind |-> Nil, ids |-> {}, snap |-> <<>>]

Records ==
  [role : {"user", "assistant", "result"}, calls : SUBSET ToolCall,
   id : ToolCall \cup {Nil}, synth : BOOLEAN]
Pcs == {"idle", "pruning", "pruned", "queued", "turn", "settling", "listed",
        "spliced", "refused", "healing"}

TranscriptTypeOK ==
  /\ transcript \in Seq(Records) /\ fresh \subseteq ToolCall
  /\ \A u \in Caller :
       /\ callers[u].pc \in Pcs /\ callers[u].own \in BOOLEAN
       /\ callers[u].snap \in Seq(Records)
       /\ callers[u].kind \in {Nil, "call", "result"}
  /\ heal.pc \in {"off", "registered", "read"} /\ heal.ids \subseteq ToolCall
  /\ hits \in 0 .. MaxHits

TranscriptInit ==
  /\ transcript = <<>> /\ fresh = ToolCall /\ hits = 0
  /\ callers = [u \in Caller |-> Idle] /\ heal = Off

(***************************************************************************)
(* The transcript as a sequence                                            *)
(***************************************************************************)
Sites(f, c) == {i \in DOMAIN f : c \in f[i].calls}
Results(f, c, synth) ==
  {i \in DOMAIN f : f[i].role = "result" /\ f[i].id = c /\ f[i].synth = synth}

(* Drop some records of f, and put others behind those that stay.           *)
Rebuilt(f, drop, Behind(_)) ==
  LET upTo[i \in 0 .. Len(f)] ==
        IF i = 0 THEN <<>>
        ELSE upTo[i - 1] \o
               IF i \in drop THEN <<>> ELSE <<f[i]>> \o Behind(i)
  IN upTo[Len(f)]
Nothing(i) == <<>>
Synthetic(calls) == SetToSeq({Result(c, TRUE) : c \in calls})
Stripped(f, calls) ==
  [i \in DOMAIN f |-> [f[i] EXCEPT !.calls = @ \ calls]]

(* healConversation: a call whose result is somewhere in the file is taken  *)
(* out with it, another gets a result right behind the assistant's message. *)
Removable(f, ids) ==
  {c \in ids : Sites(f, c) # {} /\ Results(f, c, FALSE) # {}}

Settleable(f, ids) ==
  {c \in ids : /\ Sites(f, c) # {} /\ Results(f, c, FALSE) = {}
               /\ Results(f, c, TRUE) # {Max(Sites(f, c)) + 1}}

Healed(f, ids) ==
  LET gone == Removable(f, ids)
      made == Settleable(f, ids)
      drop == UNION ({Results(f, c, FALSE) : c \in gone}
                       \cup {Results(f, c, TRUE) : c \in made})
      Behind(i) == Synthetic({c \in made : Max(Sites(f, c)) = i})
  IN Rebuilt(Stripped(f, gone), drop, Behind)

(* healUnexpectedToolResults: calls and results of the ids go.              *)
Cleared(f, ids) ==
  Rebuilt(Stripped(f, ids),
          UNION {Results(f, c, s) : c \in ids, s \in BOOLEAN}, Nothing)

(* detectConsecutiveUserMessageIndices: the last of a run of user messages  *)
(* stays, at the end of the file too.                                       *)
Repeated(f) ==
  IF \A i \in DOMAIN f : f[i] = User THEN {}
  ELSE {i \in DOMAIN f : f[i] = User /\ i < Len(f) /\ f[i + 1] = User}

Pruned(f) == Rebuilt(f, Repeated(f), Nothing)

(* settleDanglingToolCallsFromFrames, its last part.                        *)
Spliced(f, ids) ==
  LET Behind(i) == Synthetic({c \in ids \cap f[i].calls :
                                Min(Sites(f, c)) = i})
  IN Rebuilt(f, {}, Behind)

(***************************************************************************)
(* The provider                                                            *)
(***************************************************************************)
InBlock(f, i, j) ==
  i < j /\ \A k \in i + 1 .. j : f[k].role = "result"
Unanswered(f, i) ==
  {c \in f[i].calls : ~\E j \in DOMAIN f : f[j].id = c /\ InBlock(f, i, j)}
Orphan(f, j) ==
  /\ f[j].role = "result"
  /\ ~\E i \in 1 .. j - 1 : f[j].id \in f[i].calls /\ InBlock(f, i, j)
Offends(f, i) == Unanswered(f, i) # {} \/ Orphan(f, i)

Refused(f) == \E i \in DOMAIN f : Offends(f, i)

(* The first offence is the one it names.                                   *)
Refusal(f) ==
  LET i == Min({k \in DOMAIN f : Offends(f, k)}) IN
  IF f[i].role = "assistant"
  THEN [kind |-> "call", ids |-> Unanswered(f, i)]
  ELSE [kind |-> "result", ids |-> {f[i].id}]

(* detectDanglingToolUses matches "... tool_use ... tool_result ...", which *)
(* is also in the refusal of an unexpected result; the other detector       *)
(* matches that refusal only.                                               *)
Dangling(kind, ids) ==
  IF kind = "call" \/ (kind = "result" /\ Overlapping) THEN ids ELSE {}
Unexpected(kind, ids) == IF kind = "result" THEN ids ELSE {}

(* The branches of runTurnWithHeal behind a turn that failed: dangling ids  *)
(* go first.                                                                *)
AfterRefusal(f, kind, ids) ==
  IF Dangling(kind, ids) = {} THEN Cleared(f, Unexpected(kind, ids))
                              ELSE Healed(f, Dangling(kind, ids))

(***************************************************************************)
(* A call of runTurnWithHeal                                               *)
(***************************************************************************)
Go(u, pc) == [callers EXCEPT ![u].pc = pc]

InTurn(u) == callers[u].pc \in {"turn", "settling", "listed", "spliced"}
Pooled(u) == InTurn(u) /\ ~callers[u].own
Queued == {u \in Caller : callers[u].pc = "queued"}

(* evict takes the pooled adapter away and closes its session: a turn on it *)
(* is cut off and settles there, those that wait for it throw.              *)
Evicted(waiting) ==
  [v \in Caller |->
     IF v \in waiting THEN Idle
     ELSE IF ~Pooled(v) THEN callers[v]
     ELSE [callers[v] EXCEPT !.own = TRUE,
                             !.pc = IF @ = "turn" THEN "settling" ELSE @]]

(* The repair of a cancelled turn is waited for, then the file is read.     *)
Send(u) ==
  /\ callers[u].pc = "idle" /\ heal = Off
  /\ Len(transcript) < MaxRecords \/ Refused(transcript)
  /\ callers' =
       Go(u, IF Repeated(transcript) # {} THEN "pruning" ELSE "queued")
  /\ UNCHANGED <<transcript, fresh, heal, hits>>

PruneRead(u) ==
  /\ callers[u].pc = "pruning"
  /\ \E waiting \in SUBSET Queued : callers' =
       [Evicted(waiting) EXCEPT ![u].pc = "pruned", ![u].snap = transcript]
  /\ UNCHANGED <<transcript, fresh, heal, hits>>

PruneWrite(u) ==
  /\ callers[u].pc = "pruned"
  /\ callers' = [callers EXCEPT ![u] = [Idle EXCEPT !.pc = "queued"]]
  /\ transcript' =
       IF Repeated(callers[u].snap) # {} THEN Pruned(callers[u].snap)
                                         ELSE transcript
  /\ UNCHANGED <<fresh, heal, hits>>

(* On the pooled adapter one turn at a time, on one of its own at once, but *)
(* behind the barrier.  The CLI appends the message, the provider takes the *)
(* transcript or not.                                                       *)
TurnStarts(u, own) ==
  LET f == Append(transcript, User) IN
  /\ callers[u].pc = "queued" /\ heal = Off
  /\ own \/ ~\E v \in Caller : Pooled(v)
  /\ transcript' = f
  /\ callers' =
       IF Refused(f)
       THEN [callers EXCEPT ![u].pc = "refused",
                            ![u].kind = Refusal(f).kind,
                            ![u].ids = Refusal(f).ids]
       ELSE [callers EXCEPT ![u].pc = "turn", ![u].own = own]
  /\ UNCHANGED <<fresh, heal, hits>>

(* The CLI goes on after a Stop until it hears of it, unseen by the shim.   *)
CliCalls(u, calls) ==
  /\ callers[u].pc = "turn" /\ callers[u].owed = {}
  /\ calls # {} /\ fresh' = fresh \ calls
  /\ transcript' = Append(transcript, Assistant(calls))
  /\ callers' = [callers EXCEPT
       ![u].owed = calls,
       ![u].called = IF callers[u].cancelled THEN @ ELSE @ \cup calls]
  /\ UNCHANGED <<heal, hits>>

CliReturns(u, c) ==
  /\ callers[u].pc = "turn" /\ c \in callers[u].owed
  /\ transcript' = Append(transcript, Result(c, FALSE))
  /\ callers' = [callers EXCEPT
       ![u].owed = @ \ {c},
       ![u].returned = IF callers[u].cancelled THEN @ ELSE @ \cup {c}]
  /\ UNCHANGED <<fresh, heal, hits>>

CliFinishes(u) ==
  /\ callers[u].pc = "turn" /\ callers[u].owed = {} /\ ~callers[u].cancelled
  /\ transcript' = Append(transcript, Assistant({}))
  /\ callers' = [callers EXCEPT ![u] = Idle]
  /\ UNCHANGED <<fresh, heal, hits>>

Hit == hits < MaxHits /\ hits' = hits + 1

(* cancelRunAndHeal, for the calls the frame log shows to have no return.   *)
(* (Bound: one repair at a time; those of two turns that are stopped on two *)
(* adapters would follow each other.)                                       *)
Stop(u) ==
  LET ids == callers[u].called \ callers[u].returned IN
  /\ Hit /\ callers[u].pc = "turn" /\ ~callers[u].cancelled
  /\ ids = {} \/ heal = Off
  /\ callers' = [callers EXCEPT ![u].cancelled = TRUE]
  /\ heal' = IF ids = {} THEN heal
             ELSE [pc |-> "registered", ids |-> ids, snap |-> <<>>]
  /\ UNCHANGED <<transcript, fresh>>

HealRead ==
  /\ heal.pc = "registered"
  /\ heal' = [heal EXCEPT !.pc = "read", !.snap = transcript]
  /\ UNCHANGED <<transcript, fresh, callers, hits>>

HealWrite ==
  LET f == heal.snap IN
  /\ heal.pc = "read" /\ heal' = Off
  /\ transcript' =
       IF Removable(f, heal.ids) \cup Settleable(f, heal.ids) # {}
       THEN Healed(f, heal.ids) ELSE transcript
  /\ UNCHANGED <<fresh, callers, hits>>

(* The stream of a cancelled turn ends, or a watchdog cuts it; one that     *)
(* does not end in its grace has the pooled adapter evicted, its own or not.*)
TurnCut(u) ==
  /\ callers[u].pc = "turn"
  /\ IF callers[u].cancelled THEN UNCHANGED hits ELSE Hit
  /\ \/ callers' = Go(u, "settling")
     \/ /\ callers[u].cancelled
        /\ \E waiting \in SUBSET Queued :
             callers' = [Evicted(waiting) EXCEPT ![u].pc = "settling"]
  /\ UNCHANGED <<transcript, fresh, heal>>

(* The settlement looks for results, reads the file and writes it.          *)
SettleList(u) ==
  LET ids == {c \in callers[u].called :
                \A s \in BOOLEAN : Results(transcript, c, s) = {}}
  IN
  /\ callers[u].pc = "settling"
  /\ callers' = [callers EXCEPT
       ![u] = IF ids = {} THEN Idle
              ELSE [Idle EXCEPT !.pc = "listed", !.own = callers[u].own,
                               !.ids = ids]]
  /\ UNCHANGED <<transcript, fresh, heal, hits>>

SettleRead(u) ==
  /\ callers[u].pc = "listed"
  /\ callers' = [callers EXCEPT ![u].pc = "spliced", ![u].snap = transcript]
  /\ UNCHANGED <<transcript, fresh, heal, hits>>

SettleWrite(u) ==
  LET f == callers[u].snap IN
  /\ callers[u].pc = "spliced" /\ callers' = [callers EXCEPT ![u] = Idle]
  /\ transcript' = IF \E c \in callers[u].ids : Sites(f, c) # {}
                   THEN Spliced(f, callers[u].ids) ELSE transcript
  /\ UNCHANGED <<fresh, heal, hits>>

(* Mutant: the eviction lets the adapter's chain drain first, which the     *)
(* refused turn is still on.                                                *)
RefusedReadDrained(u) ==
  /\ callers[u].pc = "refused"
  /\ \A v \in Caller : callers[v].pc \notin {"queued", "refused"}
  /\ callers' =
       [Evicted({}) EXCEPT ![u].pc = "healing", ![u].snap = transcript]
  /\ UNCHANGED <<transcript, fresh, heal, hits>>

(* A turn was refused: the session is evicted, the transcript repaired.     *)
RefusedRead(u) ==
  /\ callers[u].pc = "refused"
  /\ \E waiting \in SUBSET Queued : callers' =
       [Evicted(waiting) EXCEPT ![u].pc = "healing", ![u].snap = transcript]
  /\ UNCHANGED <<transcript, fresh, heal, hits>>

RefusedWrite(u) ==
  LET c == callers[u] IN
  /\ c.pc = "healing" /\ callers' = [callers EXCEPT ![u] = Idle]
  /\ \E f \in {AfterRefusal(c.snap, c.kind, c.ids)} :
       transcript' = IF f # c.snap THEN f ELSE transcript
  /\ UNCHANGED <<fresh, heal, hits>>

(* The repairs live in memory, the file is replaced at once.                *)
ShimCrash ==
  /\ Hit /\ callers' = [u \in Caller |-> Idle] /\ heal' = Off
  /\ UNCHANGED <<transcript, fresh>>

CallerSteps(u) ==
  \/ PruneRead(u) \/ PruneWrite(u) \/ CliFinishes(u)
  \/ \E own \in BOOLEAN : TurnStarts(u, own)
  \/ SettleList(u) \/ SettleRead(u) \/ SettleWrite(u)
  \/ RefusedRead(u) \/ RefusedWrite(u)

TranscriptNext ==
  \/ \E u \in Caller :
       \/ CallerSteps(u) \/ Send(u) \/ Stop(u) \/ TurnCut(u)
       \/ \E calls \in SUBSET fresh : CliCalls(u, calls)
       \/ \E c \in ToolCall : CliReturns(u, c)
  \/ HealRead \/ HealWrite \/ ShimCrash

TranscriptSpec == TranscriptInit /\ [][TranscriptNext]_transcriptVars

(* What a caller does by itself, or the CLI for it: a turn that is stopped  *)
(* ends, tools that were called return, and the user of a conversation      *)
(* tries again.                                                             *)
GoesOn(u) ==
  \/ CallerSteps(u) \/ Send(u) \/ \E c \in ToolCall : CliReturns(u, c)
  \/ callers[u].cancelled /\ TurnCut(u)

TranscriptFairness ==
  /\ \A u \in Caller : WF_transcriptVars(GoesOn(u))
  /\ WF_transcriptVars(HealRead \/ HealWrite)

TranscriptLiveSpec == TranscriptSpec /\ TranscriptFairness

(***************************************************************************)
(* Properties                                                              *)
(***************************************************************************)
(* A transcript that is refused for a missing result does not stay so:      *)
(* whatever a Stop, a timeout, a crash or rewrites at a time have made of   *)
(* it, the repair behind the failing turn gives the call its result.  Only  *)
(* one thing can keep it so: rewrites that go on replacing what another     *)
(* has written since they read the file, as nothing locks it.               *)
MissesResult(f) == Refused(f) /\ Refusal(f).kind = "call"

Stale ==
  \/ heal.pc = "read" /\ heal.snap # transcript
  \/ \E u \in Caller : /\ callers[u].pc \in {"pruned", "spliced", "healing"}
                       /\ callers[u].snap # transcript

CallsAreSettled ==
  MissesResult(transcript) ~> ~MissesResult(transcript) \/ Stale

(* A conversation the provider refuses does not stay refused ("Once such a  *)
(* stale result is on disk, every later turn fails before the model can     *)
(* respond", conversation-healer.ts, of what the repair is there to end).   *)
Recovers == Refused(transcript) ~> ~Refused(transcript)
=============================================================================
