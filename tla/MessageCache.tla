----------------------------- MODULE MessageCache -----------------------------
(***************************************************************************)
(* The cached parse of one conversation's messages.jsonl (store.ts): a     *)
(* reader takes the file's size and time, and reads nothing, the appended  *)
(* bytes only, or the whole file.  Meanwhile the CLI appends (the body of  *)
(* a line and its newline may be two writes) or replaces the file by its   *)
(* own snapshot, the healer and the settlement rename a rewritten file     *)
(* over it, and only the healer's caller drops the cached parse after.     *)
(*                                                                         *)
(* A message is a number; its line is 2^(m+1) bytes long, so that files of *)
(* different lines never have their lines end at the same offsets by       *)
(* chance.  The CLI's snapshot is taken to be renamed into place.          *)
(***************************************************************************)
EXTENDS Naturals, Sequences, FiniteSets, SequencesExt, FiniteSetsExt

CONSTANTS
  Reader,     \* calls of listMessages
  Probe,      \* PROBE_LEN, in lines
  MaxLines,   \* bound: messages ever written
  MaxRewrites, \* bound: rewrites and removals of the file
  Sync         \* whether somebody calls loadFilteredMessagesSync

VARIABLES
  file,     \* [there, lines, open, mtime]; open: no newline at the end
  next,     \* the next message
  memory,   \* what the CLI's snapshot would write
  rewrites, \* rewrites so far
  owed,     \* the healer renamed its file; invalidate is yet to come
  cache,    \* messagesCache's entry: a sequence of none or one
  readers   \* where each reader is, and what it holds

cacheVars == <<file, next, memory, rewrites, owed, cache, readers>>

Line == 0 .. MaxLines - 1
NoStat == [there |-> FALSE, size |-> 0, mtime |-> 0]
NoEntry == [size |-> 0, mtime |-> 0, lines |-> <<>>, tail |-> <<>>, end |-> 0]
NoRead == [pc |-> "idle", st |-> NoStat, fd |-> <<>>, entry |-> NoEntry,
           seen |-> {}, got |-> <<>>]

TypeOK ==
  /\ file.lines \in Seq(Line) /\ IsInjective(file.lines)
  /\ Len(cache) \in 0 .. 1
  /\ \A r \in Reader :
       readers[r].pc \in {"idle", "stat", "open", "probe", "suffix", "read",
                          "gone", "store"}

Init ==
  /\ file = [there |-> FALSE, lines |-> <<>>, open |-> FALSE, mtime |-> 0]
  /\ next = 0 /\ memory = <<>> /\ rewrites = 0 /\ owed = FALSE
  /\ cache = <<>> /\ readers = [r \in Reader |-> NoRead]

(***************************************************************************)
(* Bytes                                                                   *)
(***************************************************************************)
Bytes(lines) ==
  LET upTo[k \in 0 .. Len(lines)] ==
        IF k = 0 THEN 0 ELSE upTo[k - 1] + 2 ^ (lines[k] + 1)
  IN upTo[Len(lines)]
Size(f) == Bytes(f.lines) - (IF f.open THEN 1 ELSE 0)
Visible(f) == IF f.there THEN f.lines ELSE <<>>
Stat(f) ==
  IF f.there THEN [there |-> TRUE, size |-> Size(f), mtime |-> f.mtime]
  ELSE NoStat

(* How many lines end, with their newline, in the first n bytes of f.       *)
Whole(f, n) ==
  Cardinality({k \in DOMAIN f.lines :
                 /\ Bytes(SubSeq(f.lines, 1, k)) <= n
                 /\ f.open => k < Len(f.lines)})

(* The line behind them, when nothing but its newline is missing.           *)
Rest(f, n) ==
  LET k == Whole(f, n) + 1
  IN IF k <= Len(f.lines) /\ Bytes(SubSeq(f.lines, 1, k)) - 1 <= n
     THEN <<f.lines[k]>> ELSE <<>>

Entry(st, lines, tail) ==
  [size |-> st.size, mtime |-> st.mtime, lines |-> lines, tail |-> tail,
   end |-> Bytes(lines)]

Built(f, st) ==
  Entry(st, SubSeq(f.lines, 1, Whole(f, Size(f))), Rest(f, Size(f)))

LastOf(lines) == SubSeq(lines, Max({1, Len(lines) - Probe + 1}), Len(lines))

(* The bytes before the checkpoint are where they were.                     *)
ProbeHolds(e, f) ==
  LET k == Whole(f, e.end)
  IN e.lines # <<>> =>
       /\ Bytes(SubSeq(f.lines, 1, k)) = e.end
       /\ LastOf(SubSeq(f.lines, 1, k)) = LastOf(e.lines)

(* Mutant: the line that had no newline yet is kept, and read once more.    *)
ExtendedFromShown(e, f, st) ==
  Entry(st,
        e.lines \o e.tail
          \o SubSeq(f.lines, Whole(f, e.end) + 1, Whole(f, st.size)),
        Rest(f, st.size))

Extended(e, f, st) ==
  Entry(st,
        e.lines \o SubSeq(f.lines, Whole(f, e.end) + 1, Whole(f, st.size)),
        Rest(f, st.size))

Hit(st) ==
  cache # <<>> /\ cache[1].size = st.size /\ cache[1].mtime = st.mtime

Grown(st) ==
  cache # <<>> /\ st.size > cache[1].size /\ st.size > cache[1].end

(***************************************************************************)
(* Writers                                                                 *)
(***************************************************************************)
(* Whatever is written, a read under way may show it.                       *)
Watching(f) ==
  [r \in Reader |->
     IF readers[r].pc = "idle" THEN readers[r]
     ELSE [readers[r] EXCEPT !.seen = @ \cup {Visible(f)}]]

Append1(f, m) ==
  [f EXCEPT !.there = TRUE, !.lines = Append(@, m), !.open = TRUE,
            !.mtime = @ + 1]

(* The CLI appends a line, then its newline, in place.                      *)
WriteLine ==
  /\ next < MaxLines /\ ~file.open
  /\ file' = Append1(file, next) /\ next' = next + 1
  /\ memory' = Append(memory, next)
  /\ readers' = Watching(file')
  /\ UNCHANGED <<rewrites, owed, cache>>

WriteNewline ==
  /\ file.open
  /\ file' = [file EXCEPT !.open = FALSE, !.mtime = @ + 1]
  /\ UNCHANGED <<next, memory, rewrites, owed, cache, readers>>

(* A rename: who has the old file open goes on reading that.                *)
Rename(lines, there) ==
  /\ rewrites < MaxRewrites /\ rewrites' = rewrites + 1
  /\ file' = [there |-> there, lines |-> lines, open |-> FALSE,
              mtime |-> file.mtime + 1]
  /\ readers' = [r \in Reader |->
                   IF readers[r].pc \in {"probe", "suffix"}
                        /\ readers[r].fd = <<>>
                   THEN [Watching(file')[r] EXCEPT !.fd = <<file>>]
                   ELSE Watching(file')[r]]

(* healConversation takes records out, its caller then invalidates.         *)
Heals ==
  /\ file.there /\ ~owed
  /\ \E i \in DOMAIN file.lines : Rename(RemoveAt(file.lines, i), TRUE)
  /\ owed' = TRUE
  /\ UNCHANGED <<next, memory, cache>>

Invalidates ==
  /\ owed /\ owed' = FALSE
  /\ cache' = <<>>
  /\ UNCHANGED <<file, next, memory, rewrites, readers>>

(* The settlement puts a record in, anywhere, and does not invalidate.      *)
Settles ==
  /\ file.there /\ next < MaxLines /\ next' = next + 1
  /\ \E i \in 1 .. Len(file.lines) + 1 :
       Rename(InsertAt(file.lines, i, next), TRUE)
  /\ UNCHANGED <<memory, owed, cache>>

(* The CLI writes what it remembers and the end of the turn.                *)
Snapshot ==
  /\ file.there /\ next < MaxLines /\ next' = next + 1
  /\ memory' = Append(memory, next)
  /\ Rename(memory', TRUE)
  /\ UNCHANGED <<owed, cache>>

Delete ==
  /\ file.there /\ Rename(<<>>, FALSE) /\ memory' = <<>>
  /\ UNCHANGED <<next, owed, cache>>

(* touchMessagesCache drops the entry for the sake of other conversations.  *)
Evicted ==
  /\ cache # <<>> /\ cache' = <<>>
  /\ UNCHANGED <<file, next, memory, rewrites, owed, readers>>

(***************************************************************************)
(* loadFilteredMessages, one action from await to await                    *)
(***************************************************************************)
Goes(r, upd) ==
  /\ readers' = [readers EXCEPT ![r] = upd]
  /\ UNCHANGED <<file, next, memory, rewrites, owed>>

Reads(r) == readers[r]
Shown(e) == e.lines \o e.tail
Done(r, got) == [Reads(r) EXCEPT !.pc = "idle", !.got = got, !.fd = <<>>,
                                 !.entry = NoEntry, !.st = NoStat]

StatFile(r) ==
  /\ Reads(r).pc = "idle" /\ Reads(r).seen = {}
  /\ Goes(r, [NoRead EXCEPT !.pc = "stat", !.st = Stat(file),
                            !.seen = {Visible(file)}])
  /\ UNCHANGED cache

(* The entry is looked up when the answer of stat is back.                  *)
LookUp(r) ==
  LET st == Reads(r).st
  IN /\ Reads(r).pc = "stat"
     /\ \/ ~st.there /\ cache' = <<>> /\ Goes(r, Done(r, <<>>))
        \/ /\ st.there /\ Hit(st) /\ UNCHANGED cache
           /\ Goes(r, Done(r, Shown(cache[1])))
        \/ /\ st.there /\ ~Hit(st) /\ Grown(st) /\ UNCHANGED cache
           /\ Goes(r, [Reads(r) EXCEPT !.pc = "open", !.entry = cache[1]])
        \/ /\ st.there /\ ~Hit(st) /\ ~Grown(st) /\ UNCHANGED cache
           /\ Goes(r, [Reads(r) EXCEPT !.pc = "read"])

Open(r) ==
  /\ Reads(r).pc = "open" /\ UNCHANGED cache
  /\ Goes(r, [Reads(r) EXCEPT !.pc = IF file.there THEN "probe" ELSE "read"])

Held(r) == IF Reads(r).fd = <<>> THEN file ELSE Reads(r).fd[1]

ProbeBytes(r) ==
  /\ Reads(r).pc = "probe" /\ UNCHANGED cache
  /\ Goes(r, IF ProbeHolds(Reads(r).entry, Held(r))
             THEN [Reads(r) EXCEPT !.pc = "suffix"]
             ELSE [Reads(r) EXCEPT !.pc = "read", !.fd = <<>>])

ReadSuffix(r) ==
  /\ Reads(r).pc = "suffix" /\ UNCHANGED cache
  /\ Goes(r, [Reads(r) EXCEPT
       !.pc = "store", !.fd = <<>>,
       !.entry = Extended(Reads(r).entry, Held(r), Reads(r).st)])

ReadAll(r) ==
  /\ Reads(r).pc = "read" /\ UNCHANGED cache
  /\ Goes(r, IF file.there
             THEN [Reads(r) EXCEPT !.pc = "store",
                                   !.entry = Built(file, Reads(r).st)]
             ELSE [Reads(r) EXCEPT !.pc = "gone"])

Store(r) ==
  /\ \/ /\ Reads(r).pc = "store" /\ cache' = <<Reads(r).entry>>
        /\ Goes(r, Done(r, Shown(Reads(r).entry)))
     \/ /\ Reads(r).pc = "gone" /\ cache' = <<>>
        /\ Goes(r, Done(r, <<>>))

(* loadFilteredMessagesSync: the same without an await.                     *)
SyncEntry ==
  LET st == Stat(file)
  IN IF ~st.there THEN <<>>
     ELSE IF Hit(st) THEN cache
     ELSE IF Grown(st) /\ ProbeHolds(cache[1], file)
       THEN <<Extended(cache[1], file, st)>>
     ELSE <<Built(file, st)>>

ReadSync ==
  /\ Sync
  /\ cache' = SyncEntry
  /\ UNCHANGED <<file, next, memory, rewrites, owed, readers>>

(* The caller has what it asked for.  Nothing else looks at an answer, so   *)
(* it is taken before anything else happens.                                *)
HasAnswer(r) == Reads(r).pc = "idle" /\ Reads(r).seen # {}
Answered(r) == HasAnswer(r) /\ Goes(r, NoRead) /\ UNCHANGED cache

Reading(r) ==
  \/ StatFile(r) \/ LookUp(r) \/ Open(r) \/ ProbeBytes(r) \/ ReadSuffix(r)
  \/ ReadAll(r) \/ Store(r)

Next ==
  \/ /\ \A r \in Reader : ~HasAnswer(r)
     /\ \/ WriteLine \/ WriteNewline \/ Heals \/ Invalidates \/ Settles
        \/ Snapshot \/ Delete \/ Evicted \/ ReadSync
        \/ \E r \in Reader : Reading(r)
  \/ \E r \in Reader : Answered(r)

Spec == Init /\ [][Next]_cacheVars

(***************************************************************************)
(* Properties                                                              *)
(***************************************************************************)
(* What a reader gets begins with whatever the file began with all through *)
(* its read, and holds nothing that never was in it and nothing twice.  (A  *)
(* rename between stat and open may cost the reader the last lines, for     *)
(* that one read.)                                                          *)
ReadIsFaithful ==
  \A r \in Reader :
    LET seen == Reads(r).seen
        got == Reads(r).got
    IN Reads(r).pc = "idle" /\ seen # {} =>
         /\ IsInjective(got)
         /\ IsPrefix(LongestCommonPrefix(seen), got)
         /\ \A m \in ToSet(got) : \E v \in seen : Contains(v, m)

(* At any moment, whatever overtaken readers, unannounced rewrites and      *)
(* late invalidations have left in the cache, a read that nothing overlaps  *)
(* shows exactly the messages of the file, in their order.                  *)
CacheNeverMisleads ==
  LET e == SyncEntry
  IN (IF e = <<>> THEN <<>> ELSE Shown(e[1])) = Visible(file)

=============================================================================
