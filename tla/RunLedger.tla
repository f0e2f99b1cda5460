----------------------------- MODULE RunLedger -----------------------------
(***************************************************************************)
(* The run records of one conversation as a store (runs.ts): which turn    *)
(* wrote which message, what a transcript read (GET messages) returns      *)
(* while turns run, and the archive old records are moved to.              *)
(*                                                                         *)
(* A turn runs on an adapter, and an adapter runs its turns one after the  *)
(* other; but the conversation may have several: the pooled one, one of    *)
(* its own for a turn with client tools, and one that was evicted and      *)
(* replaced while its turns went on.                                       *)
(*                                                                         *)
(* The transcript is a sequence of messages, each known by its author, the *)
(* turn that wrote it.  A snapshot of the ids on disk is then a length.    *)
(* A record in the live directory, one in the archive and the handle in    *)
(* memory are three things that change at different steps.                 *)
(***************************************************************************)
EXTENDS Naturals, Sequences, FiniteSets, FiniteSetsExt, SequencesExt

CONSTANTS Turn,         \* turns of the conversation, one run each
          RestTurn,     \* those of REST, whose run the adapter makes
          Adapter,      \* adapters of the conversation
          Retain,       \* SHIM_RUNS_RETENTION
          MaxMessages,  \* bound: messages
          MaxMishaps    \* bound: turns that throw, cancels, crashes, deletions

ASSUME LedgerBounds ==
  /\ RestTurn \subseteq Turn
  /\ Retain \in Nat /\ MaxMessages \in Nat /\ MaxMishaps \in Nat

VARIABLES written,  \* messages.jsonl: the author of each message
          lane,     \* lane[r]: the adapter of the turn of r, to the end
          stage,    \* stage[r]: how far the turn of r has come
          heed,     \* heed[r]: whether r was cancelled and its turn heard it
          before,   \* before[r]: the ids its adapter found at its start
          held,     \* _activeRuns: the runs with a handle in memory
          snap,     \* snap[r]: messageIdsAtTurnStart of the handle
          record,   \* record[r]: run.json; NoRecord until it is created
          place,    \* place[r]: the directories that hold a record of r
          created,  \* the runs in the order of created_at
          beside,   \* history: <<q, r>> if r wrote beside the turn of q
          mishaps

ledgerVars ==
  <<written, lane, stage, heed, before, held, snap, record, place, created,
    beside, mishaps>>

NoRecord == [status |-> "none", messages |-> {}]

Records == [status : {"none", "running", "completed", "cancelled", "failed"},
            messages : SUBSET (1..MaxMessages)]

\* A turn has ended when its stream has, is settled when its record is written
\* and cut when the shim waits no more for a CLI that may still write
LedgerStages == {"none", "asked", "queued", "begun", "streams", "ended",
                 "settled", "cut", "over"}

LedgerTypeOK ==
  /\ written \in Seq(Turn) /\ Len(written) <= MaxMessages
  /\ lane \in [Turn -> Adapter] /\ stage \in [Turn -> LedgerStages]
  /\ heed \in [Turn -> {"no", "unheard", "heard"}]
  /\ before \in [Turn -> 0..MaxMessages]
  /\ snap \in [Turn -> 0..MaxMessages]
  /\ held \subseteq Turn
  /\ record \in [Turn -> Records]
  /\ place \in [Turn -> SUBSET {"live", "archive"}]
  /\ created \in Seq(Turn)
  /\ beside \subseteq Turn \X Turn
  /\ mishaps \in 0..MaxMishaps

LedgerInit ==
  /\ written = <<>>
  /\ lane \in [Turn -> Adapter]
  /\ stage = [r \in Turn |-> "none"]
  /\ heed = [r \in Turn |-> "no"]
  /\ before = [r \in Turn |-> 0]
  /\ held = {}
  /\ snap = [r \in Turn |-> 0]
  /\ record = [r \in Turn |-> NoRecord]
  /\ place = [r \in Turn |-> {}]
  /\ created = <<>>
  /\ beside = {}
  /\ mishaps = 0

\* An adapter runs one turn at a time; others wait in its chain
OnAdapter(r) == stage[r] \in {"begun", "streams", "ended"}
AdapterFree(r) == ~\E q \in Turn : lane[q] = lane[r] /\ OnAdapter(q)

\* listActiveRunsForConversation
Active == {r \in held : record[r].status = "running"}

----------------------------------------------------------------------------
(* A turn                                                                  *)

CreateRun(r, n) ==
  /\ record' = [record EXCEPT ![r].status = "running"]
  /\ place' = [place EXCEPT ![r] = {"live"}]
  /\ held' = held \cup {r}
  /\ snap' = [snap EXCEPT ![r] = n]
  /\ created' = Append(created, r)

\* bridgeSendMessage reads the ids on disk
AskTurn(r) ==
  /\ stage[r] = "none" /\ r \notin RestTurn
  /\ stage' = [stage EXCEPT ![r] = "asked"]
  /\ before' = [before EXCEPT ![r] = Len(written)]
  /\ UNCHANGED <<written, lane, heed, held, snap, record, place, created,
                 beside, mishaps>>

\* and announces the run with them; the turn waits for its adapter
Announce(r) ==
  /\ stage[r] = "asked"
  /\ CreateRun(r, before[r])
  /\ stage' = [stage EXCEPT ![r] = "queued"]
  /\ UNCHANGED <<written, lane, heed, before, beside, mishaps>>

\* The chain of the adapter comes to the turn of a run made beforehand
Begin(r) ==
  /\ stage[r] = "queued" /\ AdapterFree(r)
  /\ stage' = [stage EXCEPT ![r] = "begun"]
  /\ UNCHANGED <<written, lane, heed, before, held, snap, record, place,
                 created, beside, mishaps>>

\* or of a REST turn, whose run is made here, with no snapshot
BeginRest(r) ==
  /\ stage[r] = "none" /\ r \in RestTurn /\ AdapterFree(r)
  /\ CreateRun(r, 0)
  /\ stage' = [stage EXCEPT ![r] = "begun"]
  /\ UNCHANGED <<written, lane, heed, before, beside, mishaps>>

\* Mutant: the ids a host read before the run was queued are good enough
SnapshotOnce(r) ==
  /\ stage[r] = "begun"
  /\ before' = [before EXCEPT
       ![r] = IF snap[r] > 0 THEN snap[r] ELSE Len(written)]
  /\ snap' = [snap EXCEPT ![r] = before'[r]]
  /\ stage' = [stage EXCEPT ![r] = "streams"]
  /\ UNCHANGED <<written, lane, heed, held, record, place, created, beside,
                 mishaps>>

\* _runTurnInner reads the ids again, for itself and for the handle
TakeSnapshot(r) ==
  /\ stage[r] = "begun"
  /\ before' = [before EXCEPT ![r] = Len(written)]
  /\ snap' = [snap EXCEPT ![r] = Len(written)]
  /\ stage' = [stage EXCEPT ![r] = "streams"]
  /\ UNCHANGED <<written, lane, heed, held, record, place, created, beside,
                 mishaps>>

\* The turns that will take for theirs what r writes: they sweep by what is new
\* on disk, and r is on another adapter or was cut off
Unaware(r) ==
  {q \in Turn : /\ stage[q] \in {"streams", "ended"}
                /\ (lane[q] # lane[r] \/ stage[r] = "cut")}

\* The CLI writes a message of the turn that streams, or of one cut off
Message(r) ==
  /\ stage[r] \in {"streams", "cut"} /\ Len(written) < MaxMessages
  /\ written' = Append(written, r)
  /\ beside' = beside \cup {<<q, r>> : q \in Unaware(r)}
  /\ UNCHANGED <<lane, stage, heed, before, held, snap, record, place,
                 created, mishaps>>

\* The stream ends, no cancel was heard: so finalizeTurnLifecycle is told
EndStream(r) ==
  /\ stage[r] = "streams" /\ heed[r] # "heard"
  /\ stage' = [stage EXCEPT ![r] = "ended"]
  /\ UNCHANGED <<written, lane, heed, before, held, snap, record, place,
                 created, beside, mishaps>>

\* What is new on disk is this run's, and its record is final, also over one
\* that a cancel wrote in the meantime.  (The ids are read some awaits before
\* they are written: read as late as here, they are the most.)
Settle(r) ==
  /\ stage[r] = "ended"
  /\ stage' = [stage EXCEPT ![r] = "settled"]
  /\ record' = [record EXCEPT ![r] =
       [status |-> "completed",
        messages |-> @.messages \cup ((before[r] + 1)..Len(written))]]
  /\ place' = [place EXCEPT ![r] = @ \cup {"live"}]
  /\ held' = held \ {r}
  /\ UNCHANGED <<written, lane, heed, before, snap, created, beside,
                 mishaps>>

\* The provider failed: the same run is sent again on the same adapter, its
\* record final and its handle gone, unless it was stopped
SendAgain(r) ==
  /\ mishaps < MaxMishaps
  /\ stage[r] = "settled" /\ r \notin RestTurn /\ heed[r] = "no"
  /\ mishaps' = mishaps + 1
  /\ stage' = [stage EXCEPT ![r] = "queued"]
  /\ UNCHANGED <<written, lane, heed, before, held, snap, record, place,
                 created, beside>>

----------------------------------------------------------------------------
(* What else happens to a run                                              *)

\* A turn that heard its cancel ends: it sweeps into a record in memory that
\* nobody writes any more
Sever(r) ==
  /\ stage[r] = "streams" /\ heed[r] = "heard"
  /\ stage' = [stage EXCEPT ![r] = "cut"]
  /\ UNCHANGED <<written, lane, heed, before, held, snap, record, place,
                 created, beside, mishaps>>

\* The session is dead or fails under the turn, or the run was stopped before
\* its turn was asked for: nothing finalizes it
Throw(r) ==
  /\ mishaps < MaxMishaps
  /\ stage[r] \in {"queued", "begun", "streams"}
  /\ mishaps' = mishaps + 1
  /\ stage' = [stage EXCEPT ![r] = IF @ = "streams" THEN "cut" ELSE "over"]
  /\ UNCHANGED <<written, lane, heed, before, held, snap, record, place,
                 created, beside>>

\* cancelRun, of any run with a handle: the record is final at once.  The turn
\* hears of it only once the adapter has begun it and while it streams; one
\* cancelled before or behind that ends like any other
CancelRun(r) ==
  /\ mishaps < MaxMishaps
  /\ r \in held
  /\ mishaps' = mishaps + 1
  /\ heed' = [heed EXCEPT
       ![r] = IF stage[r] \in {"begun", "streams"} THEN "heard" ELSE "unheard"]
  /\ record' = [record EXCEPT ![r].status = "cancelled"]
  /\ place' = [place EXCEPT ![r] = @ \cup {"live"}]
  /\ held' = held \ {r}
  /\ UNCHANGED <<written, lane, stage, before, snap, created, beside>>

\* Handles and turns die with the process; at boot the live records that
\* still say running are closed (finalizeOrphanedRunsOnDisk)
Restart ==
  /\ mishaps < MaxMishaps
  /\ \E r \in Turn : stage[r] \notin {"none", "over"}
  /\ mishaps' = mishaps + 1
  /\ stage' = [r \in Turn |-> IF stage[r] = "none" THEN "none" ELSE "over"]
  /\ held' = {}
  /\ record' = [r \in Turn |->
       IF "live" \in place[r] /\ record[r].status = "running"
       THEN [record[r] EXCEPT !.status = "failed"] ELSE record[r]]
  /\ UNCHANGED <<written, lane, heed, before, snap, place, created, beside>>

\* DELETE run: the directory that answers for it goes
DeleteRun(r) ==
  /\ mishaps < MaxMishaps
  /\ place[r] # {}
  /\ mishaps' = mishaps + 1
  /\ place' = [place EXCEPT ![r] =
       IF "live" \in @ THEN @ \ {"live"} ELSE {}]
  /\ UNCHANGED <<written, lane, stage, heed, before, held, snap, record,
                 created, beside>>

----------------------------------------------------------------------------
(* The archive                                                             *)

LiveRecords == SelectSeq(created, LAMBDA r : "live" \in place[r])

\* The live records older than the newest Retain
Old == ToSet(SubSeq(LiveRecords, 1, Len(LiveRecords) - Retain))

\* Only the record of a run that is over on disk and has no handle goes, and
\* not onto one that is there already
Archivable ==
  {r \in Old : /\ record[r].status # "running" /\ r \notin held
               /\ "archive" \notin place[r]}

\* compactRuns, deferred by setImmediate after a run was finalized
Compact ==
  /\ Len(LiveRecords) > Retain
  /\ Archivable # {}
  /\ place' =
       [r \in Turn |-> IF r \in Archivable THEN {"archive"} ELSE place[r]]
  /\ UNCHANGED <<written, lane, stage, heed, before, held, snap, record,
                 created, beside, mishaps>>

LedgerNext ==
  \/ \E r \in Turn :
       \/ AskTurn(r) \/ Announce(r) \/ Begin(r) \/ BeginRest(r)
       \/ TakeSnapshot(r) \/ Message(r) \/ EndStream(r) \/ Settle(r)
       \/ SendAgain(r) \/ Sever(r) \/ Throw(r) \/ CancelRun(r)
       \/ DeleteRun(r)
  \/ Restart \/ Compact

LedgerSpec == LedgerInit /\ [][LedgerNext]_ledgerVars

----------------------------------------------------------------------------
(* Reads                                                                   *)

\* GET messages: while turns run, the ids of their largest snapshot
\* (activeRunMessageIdsAtTurnStart, inFlightMessageIds)
Shown == IF Active = {} THEN Len(written) ELSE Max({snap[r] : r \in Active})

\* buildMessageRunMap: over the live records, the oldest that claims it
OwnerOf(m) ==
  LET claims == {i \in DOMAIN created : /\ "live" \in place[created[i]]
                                        /\ m \in record[created[i]].messages}
  IN IF claims = {} THEN {} ELSE {created[Min(claims)]}

----------------------------------------------------------------------------
(* Properties                                                              *)

\* A message grouped under a run was written by that run's turn, whatever
\* turns were queued, retried, cancelled or lost around it (the ids a host
\* read before its turn was queued would not do: see SnapshotOnce).  The sweep
\* is by what is new on disk, so one exception is the code's: what a turn on
\* another adapter, or a CLI that was cut off, wrote while it was at work.
OwnersAreAuthors ==
  \A m \in DOMAIN written : \A r \in OwnerOf(m) :
    written[m] = r \/ <<r, written[m]>> \in beside

\* While a run streams and no run with a later snapshot is active, a reader
\* sees what was there before its turn and none of what is written since: rows
\* the websocket still delivers are not served twice, and no history is held
\* back.  Runs that are queued, that threw or that stream on other adapters do
\* not disturb it unless more was on disk when they took their snapshot.
ReadersStopAtTheTurn ==
  \A r \in Turn :
    (stage[r] = "streams" /\ r \in Active
       /\ \A q \in Active \ {r} : snap[q] <= before[r])
      => Shown = before[r]

\* A run somebody can still stop or append to by its handle keeps its live
\* directory: no compaction takes it ("Never archive an in-flight run"), and a
\* cancel or a finalize never finds it in the archive.
HandlesAreNotArchived ==
  \A r \in held : "archive" \notin place[r]

AttributionHolds ==
  OwnersAreAuthors /\ ReadersStopAtTheTurn /\ HandlesAreNotArchived
============================================================================
