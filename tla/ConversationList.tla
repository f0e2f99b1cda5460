-------------------------- MODULE ConversationList --------------------------
(***************************************************************************)
(* The lists of conversations the store keeps in memory (makeDirMtimeCache *)
(* in store.ts, used for listAllConversations, listAgents and convIdMap):  *)
(* a snapshot keyed by the mtime of the parent directory, which moves when *)
(* an entry is added and not when the file inside one is written.          *)
(*                                                                         *)
(* A conversation's content is the number of times its file was written.   *)
(* A load reads the files one by one over many awaits; readers that find   *)
(* one under way wait for its result, whenever it began.                   *)
(*                                                                         *)
(* `missed' and the sets `slipped' and `late' of a load are history: the   *)
(* conversations written where the code has no way to notice.              *)
(***************************************************************************)
EXTENDS Naturals, FiniteSets

CONSTANTS Listed,       \* conversations
          Asker,      \* requests that read the list
          MaxWrites   \* bound: writes of one conversation.json

VARIABLES dirs,     \* the conversation directories
          conv,     \* conv[c]: the content of its conversation.json; 0: none
          stamp,    \* the mtime of the parent directory
          cached,   \* the snapshot and the stamp it is kept under
          load,     \* the load in flight, or NoLoad
          asker,    \* asker[p]: the request, what it saw of the directory
          missed    \* history: see above

listVars == <<dirs, conv, stamp, cached, load, asker, missed>>

Snapshot == [Listed -> 0..MaxWrites]
Empty == [c \in Listed |-> 0]
Nothing == [at |-> 0, value |-> Empty]           \* stamps begin at 1
NoLoad == [at |-> 0, todo |-> {}, got |-> Empty, slipped |-> {}, late |-> {}]
Idle == [step |-> "idle", saw |-> 0, since |-> Empty, got |-> Empty,
         excused |-> {}]

ListTypeOK ==
  /\ dirs \subseteq Listed
  /\ conv \in Snapshot
  /\ stamp \in 1..(Cardinality(Listed) + 1)
  /\ cached.at \in 0..stamp /\ cached.value \in Snapshot
  /\ load.at \in 0..stamp /\ load.todo \subseteq Listed
  /\ load.got \in Snapshot
  /\ \A p \in Asker : /\ asker[p].step \in {"idle", "saw", "waits", "has"}
                      /\ asker[p].saw \in 0..stamp
  /\ missed \subseteq Listed

ListInit ==
  /\ dirs = {}
  /\ conv = Empty
  /\ stamp = 1
  /\ cached = Nothing
  /\ load = NoLoad
  /\ asker = [p \in Asker |-> Idle]
  /\ missed = {}

Loading == load # NoLoad

----------------------------------------------------------------------------
(* Writers                                                                 *)

\* The load in flight has passed c by
Passed(c) == Loading /\ c \notin load.todo

\* The server creates a conversation, directory and file at once
Create(c) ==
  /\ c \notin dirs
  /\ dirs' = dirs \cup {c}
  /\ conv' = [conv EXCEPT ![c] = 1]
  /\ stamp' = stamp + 1
  /\ load' = IF Loading THEN [load EXCEPT !.late = @ \cup {c}] ELSE load
  /\ UNCHANGED <<cached, asker, missed>>

\* The CLI creates the directory first
MakeDirectory(c) ==
  /\ c \notin dirs
  /\ dirs' = dirs \cup {c}
  /\ stamp' = stamp + 1
  /\ UNCHANGED <<conv, cached, load, asker, missed>>

\* The CLI writes the file: the first time, and again at the end of each turn.
\* The cache is not told, nor does the directory show it
WriteInPlace(c) ==
  /\ c \in dirs /\ conv[c] < MaxWrites
  /\ conv' = [conv EXCEPT ![c] = @ + 1]
  /\ missed' = IF cached # Nothing THEN missed \cup {c} ELSE missed
  /\ load' = IF Passed(c) THEN [load EXCEPT !.slipped = @ \cup {c}] ELSE load
  /\ UNCHANGED <<dirs, stamp, cached, asker>>

\* The server writes the file (archive, rename, a stamped turn) and drops the
\* snapshot; the result of a load in flight is put in its place all the same
Patch(c) ==
  /\ conv[c] \in 1..(MaxWrites - 1)
  /\ conv' = [conv EXCEPT ![c] = @ + 1]
  /\ cached' = Nothing
  /\ missed' = {}
  /\ load' = IF Passed(c) THEN [load EXCEPT !.slipped = @ \cup {c}] ELSE load
  /\ UNCHANGED <<dirs, stamp, asker>>

----------------------------------------------------------------------------
(* Readers                                                                 *)

\* A request comes in and looks at the directory
Look(p) ==
  /\ asker[p] = Idle
  /\ asker' = [asker EXCEPT ![p] =
       [Idle EXCEPT !.step = "saw", !.saw = stamp, !.since = conv]]
  /\ UNCHANGED <<dirs, conv, stamp, cached, load, missed>>

Given(p, value, excuse) ==
  asker' = [asker EXCEPT ![p] =
              [@ EXCEPT !.step = "has", !.got = value, !.excused = excuse]]

\* The snapshot is of this directory
Hit(p) ==
  /\ asker[p].step = "saw"
  /\ cached # Nothing /\ cached.at = asker[p].saw
  /\ Given(p, cached.value, missed)
  /\ UNCHANGED <<dirs, conv, stamp, cached, load, missed>>

\* It is not: wait for the load in flight, or start one under the stamp seen
Miss(p) ==
  /\ asker[p].step = "saw"
  /\ cached = Nothing \/ cached.at # asker[p].saw
  /\ asker' = [asker EXCEPT ![p].step = "waits"]
  /\ load' = IF Loading THEN load
             ELSE [NoLoad EXCEPT !.at = asker[p].saw, !.todo = dirs]
  /\ UNCHANGED <<dirs, conv, stamp, cached, missed>>

\* The load reads one file
ReadFile(c) ==
  /\ c \in load.todo
  /\ load' = [load EXCEPT !.todo = @ \ {c}, !.got[c] = conv[c]]
  /\ UNCHANGED <<dirs, conv, stamp, cached, asker, missed>>

\* Mutant: the snapshot is kept under the stamp the directory has by now
KeptUnderNow == [at |-> stamp, value |-> load.got]

\* The snapshot is kept under the stamp seen before the load began
Kept == [at |-> load.at, value |-> load.got]

\* The load is over, and all who wait have its result
Finish ==
  /\ Loading /\ load.todo = {}
  /\ cached' = Kept
  /\ missed' = load.slipped
  /\ load' = NoLoad
  /\ asker' = [p \in Asker |->
       IF asker[p].step = "waits"
       THEN [asker[p] EXCEPT !.step = "has", !.got = load.got,
                             !.excused = load.slipped \cup load.late]
       ELSE asker[p]]
  /\ UNCHANGED <<dirs, conv, stamp>>

\* The response leaves.  Nothing else looks at it, so it leaves before anything
\* else happens
Answer(p) ==
  /\ asker[p].step = "has"
  /\ asker' = [asker EXCEPT ![p] = Idle]
  /\ UNCHANGED <<dirs, conv, stamp, cached, load, missed>>

ListNext ==
  \/ /\ \A p \in Asker : asker[p].step # "has"
     /\ \/ \E c \in Listed : \/ Create(c) \/ MakeDirectory(c)
                             \/ WriteInPlace(c) \/ Patch(c) \/ ReadFile(c)
        \/ \E p \in Asker : Look(p) \/ Hit(p) \/ Miss(p)
        \/ Finish
  \/ \E p \in Asker : Answer(p)

ListSpec == ListInit /\ [][ListNext]_listVars

----------------------------------------------------------------------------
(* Properties                                                              *)

\* A list request shows every conversation at least as it stood when the
\* request came in, whatever loads it joins or starts, except where nobody
\* tells the cache: a write by the CLI under a snapshot, or a write after the
\* load it gets has passed the file by.  ("drop the cached list snapshot or
\* the next GET will keep serving the pre-archive status", server.ts.)
RequestsSeeWrites ==
  \A p \in Asker : asker[p].step = "has" =>
    \A c \in Listed \ asker[p].excused : asker[p].got[c] >= asker[p].since[c]
============================================================================
