------------------------------ MODULE CronLock ------------------------------
(***************************************************************************)
(* The lock of crons.json and the scheduler's lease in it (crons.ts); the  *)
(* locks of permissions.ts and search.ts are the same code.  A directory   *)
(* is the lock, a file in it names its owner; who finds a stale one removes *)
(* it and tries again.  The shim, a second shim and the CLI are processes  *)
(* that run at the same time: each of the steps below is a system call.    *)
(*                                                                         *)
(* A process that died does not come back: its successor is another one,   *)
(* which is what the start time beside the pid is for.  A lock grows old   *)
(* only after its maker has died, since a live one keeps it milliseconds.  *)
(*                                                                         *)
(* History: `done' counts the edits written; `blind' is set once a steal   *)
(* has removed a directory other than the one found stale.                 *)
(***************************************************************************)
EXTENDS Naturals, FiniteSets

CONSTANTS Proc,    \* processes
          MaxOps,  \* bound: how often a process wants the lock
          NoProc   \* no process

ASSUME LockAssumption == NoProc \notin Proc

VARIABLES dead,    \* processes that have died
          dir,     \* the lock directory, or NoDir
          crons,   \* crons.json: the lease and how many edits it holds
          pc, op,  \* what a process is at, and for what
          ops,     \* how often it has tried to make the directory or edit
          judged,  \* the directory a process has last looked into
          copy,    \* the file as it was read
          running, \* processes that run a scheduler
          done, blind

lockVars ==
  <<dead, dir, crons, pc, op, ops, judged, copy, running, done, blind>>

NoDir == [by |-> NoProc, n |-> 0, owner |-> FALSE, old |-> FALSE]
NoCrons == [lease |-> NoProc, edits |-> 0]
Steps == {"out", "mkdir", "own", "check", "stat", "steal", "read", "write",
          "compare", "remove"}
Alive(p) == p \notin dead
Live == Proc \ dead
Holders == {p \in Live : pc[p] \in {"read", "write"}}

LockTypeOK ==
  /\ dead \subseteq Proc /\ running \subseteq Proc
  /\ dir \in [by : Proc \cup {NoProc}, n : 0..MaxOps,
              owner : BOOLEAN, old : BOOLEAN]
  /\ crons.lease \in Proc \cup {NoProc}
  /\ done \in 0..(MaxOps * Cardinality(Proc))
  /\ pc \in [Proc -> Steps]
  /\ op \in [Proc -> {"none", "claim", "edit", "release"}]
  /\ ops \in [Proc -> 0..MaxOps] /\ blind \in BOOLEAN

LockInit ==
  /\ dead = {} /\ dir = NoDir /\ crons = NoCrons
  /\ pc = [p \in Proc |-> "out"] /\ op = [p \in Proc |-> "none"]
  /\ ops = [p \in Proc |-> 0]
  /\ judged = [p \in Proc |-> NoDir]
  /\ copy = [p \in Proc |-> NoCrons]
  /\ running = {} /\ done = 0 /\ blind = FALSE

At(p, step) == Alive(p) /\ pc[p] = step
Proceeds(p, step) == pc' = [pc EXCEPT ![p] = step]

\* The call is over, and nothing of it is kept
Leaves(p) ==
  /\ Proceeds(p, "out")
  /\ op' = [op EXCEPT ![p] = "none"]
  /\ judged' = [judged EXCEPT ![p] = NoDir]
  /\ copy' = [copy EXCEPT ![p] = NoCrons]

\* A process claims the lease, edits the file or, having stopped its
\* scheduler, gives the lease back
Want(p, what) ==
  /\ At(p, "out") /\ ops[p] < MaxOps
  /\ what = "release" <=> p \in running
  /\ running' = running \ {p}
  /\ op' = [op EXCEPT ![p] = what]
  /\ ops' = [ops EXCEPT ![p] = @ + 1]
  /\ Proceeds(p, "mkdir")
  /\ UNCHANGED <<dead, dir, crons, judged, copy, done, blind>>

Mkdir(p) ==
  /\ At(p, "mkdir")
  /\ IF dir = NoDir
     THEN /\ dir' = [NoDir EXCEPT !.by = p, !.n = ops[p]]
          /\ Proceeds(p, "own")
     ELSE /\ Proceeds(p, "check")
          /\ UNCHANGED dir
  /\ UNCHANGED <<dead, crons, op, ops, judged, copy, running, done, blind>>

\* The owner is written; in a directory that was stolen meanwhile there is
\* nowhere to write it to, and the attempt fails
WriteOwner(p) ==
  /\ At(p, "own")
  /\ IF dir = NoDir
     THEN Leaves(p) /\ UNCHANGED dir
     ELSE /\ dir' = [dir EXCEPT !.by = p, !.n = ops[p], !.owner = TRUE]
          /\ Proceeds(p, "read")
          /\ UNCHANGED <<op, judged, copy>>
  /\ UNCHANGED <<dead, crons, ops, running, done, blind>>

\* A lock with an owner is stale when that has died long enough ago
Stale(d) == d.by \in dead /\ d.old

\* The directory exists: who owns it?
Check(p) ==
  /\ At(p, "check")
  /\ judged' = [judged EXCEPT ![p] = dir]
  /\ Proceeds(p, IF ~dir.owner THEN "stat"
             ELSE IF Stale(dir) THEN "steal" ELSE "mkdir")
  /\ UNCHANGED <<dead, dir, crons, op, ops, copy, running, done, blind>>

\* Mutant: a lock without an owner is nobody's
OwnerlessIsStale(d) == TRUE

\* A lock without an owner is stale when old, or when it cannot be found
Abandoned(d) == d = NoDir \/ d.old

\* No owner to be read: how old is the directory?
Stat(p) ==
  /\ At(p, "stat")
  /\ Proceeds(p, IF Abandoned(dir) THEN "steal" ELSE "mkdir")
  /\ judged' = [judged EXCEPT ![p] = dir]
  /\ UNCHANGED <<dead, dir, crons, op, ops, copy, running, done, blind>>

Steal(p) ==
  /\ At(p, "steal")
  /\ blind' = (blind \/ (dir # NoDir /\ dir # judged[p]))
  /\ dir' = NoDir
  /\ Proceeds(p, "mkdir")
  /\ UNCHANGED <<dead, crons, op, ops, judged, copy, running, done>>

\* Five seconds have passed
StopWaiting(p) ==
  /\ At(p, "mkdir")
  /\ Leaves(p)
  /\ UNCHANGED <<dead, dir, crons, ops, running, done, blind>>

----------------------------------------------------------------------------
(* Under the lock                                                          *)

\* A lease is free when nobody has it or its holder has died
Claimable(lease) == lease = NoProc \/ lease \in dead

\* The file is read; a claim that finds a live holder gives up
Read(p) ==
  /\ At(p, "read")
  /\ copy' = [copy EXCEPT ![p] = crons]
  /\ Proceeds(p, IF \/ op[p] = "claim" /\ ~Claimable(crons.lease)
                    \/ op[p] = "release" /\ crons.lease # p
                 THEN "compare" ELSE "write")
  /\ UNCHANGED <<dead, dir, crons, op, ops, judged, running, done, blind>>

\* The copy is changed and put in the file's place
Write(p) ==
  /\ At(p, "write")
  /\ crons' = CASE op[p] = "claim" -> [copy[p] EXCEPT !.lease = p]
               [] op[p] = "edit" -> [copy[p] EXCEPT !.edits = @ + 1]
               [] op[p] = "release" -> [copy[p] EXCEPT !.lease = NoProc]
  /\ running' = IF op[p] = "claim" THEN running \cup {p} ELSE running
  /\ done' = IF op[p] = "edit" THEN done + 1 ELSE done
  /\ Proceeds(p, "compare")
  /\ UNCHANGED <<dead, dir, op, ops, judged, copy, blind>>

\* Release: the directory is removed if it names this very acquisition
Compare(p) ==
  /\ At(p, "compare")
  /\ IF dir.owner /\ dir.by = p /\ dir.n = ops[p]
     THEN Proceeds(p, "remove") /\ UNCHANGED <<op, judged, copy>>
     ELSE Leaves(p)
  /\ UNCHANGED <<dead, dir, crons, ops, running, done, blind>>

\* The owner's file goes first, then the directory
RemoveDir(p) ==
  /\ At(p, "remove")
  /\ IF dir.owner
     THEN /\ dir' = [dir EXCEPT !.owner = FALSE]
          /\ UNCHANGED <<pc, op, judged, copy>>
     ELSE dir' = NoDir /\ Leaves(p)
  /\ UNCHANGED <<dead, crons, ops, running, done, blind>>

----------------------------------------------------------------------------

Die(p) ==
  /\ Alive(p) /\ Cardinality(Live) > 1
  /\ dead' = dead \cup {p}
  /\ running' = running \ {p}
  /\ Leaves(p)
  /\ UNCHANGED <<dir, crons, ops, done, blind>>

Age ==
  /\ dir # NoDir /\ dir.by \in dead /\ ~dir.old
  /\ dir' = [dir EXCEPT !.old = TRUE]
  /\ UNCHANGED <<dead, crons, pc, op, ops, judged, copy, running, done, blind>>

LockNext ==
  \/ \E p \in Proc :
       \/ \E what \in {"claim", "edit", "release"} : Want(p, what)
       \/ Mkdir(p) \/ WriteOwner(p) \/ Check(p) \/ Stat(p) \/ Steal(p)
       \/ StopWaiting(p) \/ Read(p) \/ Write(p) \/ Compare(p) \/ RemoveDir(p)
       \/ Die(p)
  \/ Age

LockSpec == LockInit /\ [][LockNext]_lockVars

----------------------------------------------------------------------------
(* Properties                                                              *)

\* As long as no steal has hit another lock than the one found stale, one
\* process at a time is inside, no edit is lost, and at most one live process
\* runs the scheduler, deaths at any point included.  ("Exactly one process
\* holds the cron scheduler lease at any time", MOBILE_WS_PROTOCOL.md.)
OneScheduler ==
  ~blind => /\ Cardinality(Holders) <= 1
            /\ Cardinality(running) <= 1
            /\ crons.edits = done
=============================================================================
