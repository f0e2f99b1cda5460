---------------------------- MODULE MessageTimes ----------------------------
(***************************************************************************)
(* The real times of messages, which store.ts keeps beside the transcript  *)
(* because the CLI dates everything 2026-01-01: a map from message to time *)
(* in _real-times.jsonl (append-only, the last line of a message wins) over *)
(* an older _real-times.json, folded into the first at the next stamp, and *)
(* in memory.  The list of conversations takes its last_message_at from it, *)
(* since the CLI puts its own date back into conversation.json.            *)
(*                                                                         *)
(* Turns of a conversation stamp one after the other ("turn"); a request   *)
(* ("get") reads at any time.  Messages are numbered in file order, times  *)
(* are numbers, 0 for none or for a date of the CLI's.                     *)
(*                                                                         *)
(* History: `first', the first time that reached the disk; `strayed', true *)
(* once a load has put a map in memory that was no longer that of the disk.*)
(***************************************************************************)
EXTENDS Naturals, Sequences, SequencesExt, FiniteSetsExt

CONSTANTS LastMessage, \* bound: messages the CLI writes
          MaxStamps,   \* bound: turns that end
          MaxLosses    \* bound: failed writes and crashes

ASSUME TimesAssumption ==
  LastMessage \in Nat \ {0} /\ MaxStamps \in Nat /\ MaxLosses \in Nat

VARIABLES msgs,     \* the messages of the transcript are 1..msgs
          stamps,   \* how many turns have ended
          legacy,   \* _real-times.json, or NoMap
          lines,    \* _real-times.jsonl
          cache,    \* realTimesCache for the conversation, or NoMap
          work,     \* work[a]: what the turn's end and the request are doing
          lastAt,   \* last_message_at in conversation.json
          losses, first, strayed

timesVars ==
  <<msgs, stamps, legacy, lines, cache, work, lastAt, losses, first, strayed>>

Msg == 1..LastMessage
LastTime == (MaxStamps + 1) * LastMessage
Map == [Msg -> 0..LastTime]
Unstamped == [m \in Msg |-> 0]
NoMap == <<>>
Line(m, t) == [id |-> m, at |-> t]
Torn == Line(0, 0)        \* a line cut short, with nothing to end it
Garbled == Line(0, 1)     \* a line that does not parse
NoWork ==
  [step |-> "idle", map |-> Unstamped, new |-> <<>>, base |-> 0, seen |-> 0]

TimeLine == [id : 0..LastMessage, at : 0..LastTime]
WorkStep == {"idle", "look", "legacy", "lines", "compact", "keep",
         "write", "unlink", "bump", "bumped"}
Work == [step : WorkStep, map : Map, new : Seq(TimeLine), base : 0..MaxStamps,
         seen : 0..LastMessage]

TimesTypeOK ==
  /\ msgs \in 1..LastMessage /\ stamps \in 0..MaxStamps
  /\ legacy \in Map \cup {NoMap} /\ lines \in Seq(TimeLine)
  /\ cache \in Map \cup {NoMap} /\ work \in [{"turn", "get"} -> Work]
  /\ lastAt \in 0..LastTime /\ losses \in 0..MaxLosses
  /\ first \in Map /\ strayed \in BOOLEAN

TimesInit ==
  /\ msgs = 1 /\ stamps = 0
  /\ legacy \in {NoMap, [Unstamped EXCEPT ![1] = 1]}
  /\ lines = <<>> /\ cache = NoMap
  /\ work = [a \in {"turn", "get"} |-> NoWork]
  /\ lastAt = 0 /\ losses = 0
  /\ first = IF legacy = NoMap THEN Unstamped ELSE legacy
  /\ strayed = FALSE

----------------------------------------------------------------------------
(* The files                                                               *)

\* The lines over a map: the last one of a message wins
Overlay(map, ls) ==
  [m \in Msg |->
     LET of == {i \in DOMAIN ls : ls[i].id = m}
     IN IF of = {} THEN map[m] ELSE ls[Max(of)].at]

OldMap(file) == IF file = NoMap THEN Unstamped ELSE file
DiskTimes == Overlay(OldMap(legacy), lines)
Stamped(map) == {m \in Msg : map[m] # 0}

\* A map as lines, one of each message
LinesOf(map) == SetToSeq({Line(m, map[m]) : m \in Stamped(map)})

\* Lines after those of the file: a torn one swallows the first of them, and
\* stays torn where that is cut short as well
AppendedTo(ls, new) ==
  IF ls # <<>> /\ ls[Len(ls)] = Torn
  THEN SubSeq(ls, 1, Len(ls) - 1)
         \o <<IF new[1] = Torn THEN Torn ELSE Garbled>> \o Tail(new)
  ELSE ls \o new

\* What an append that fails can leave behind.  (A cut between a line and the
\* end of it, where the line counts until the next append runs into it, is
\* left out.)
Partly(ls, new) ==
  {ls} \cup {AppendedTo(ls, SubSeq(new, 1, n) \o <<Torn>>) :
               n \in 0..(Len(new) - 1)}

PutLines(ls, old) ==
  /\ lines' = ls
  /\ first' = [m \in Msg |->
                 IF first[m] # 0 THEN first[m] ELSE Overlay(old, ls)[m]]

----------------------------------------------------------------------------
(* Reading the map                                                         *)

\* The CLI writes a message
CliWrites ==
  /\ msgs < LastMessage
  /\ msgs' = msgs + 1
  /\ UNCHANGED <<stamps, legacy, lines, cache, work, lastAt, losses, first,
                 strayed>>

\* A turn ends and lists the messages it may have to stamp
StampTurn ==
  /\ work["turn"] = NoWork /\ stamps < MaxStamps
  /\ stamps' = stamps + 1
  /\ work' = [work EXCEPT !["turn"] =
       [NoWork EXCEPT !.step = "look", !.base = stamps + 1,
                    !.seen = msgs]]
  /\ UNCHANGED <<msgs, legacy, lines, cache, lastAt, losses, first, strayed>>

\* A request wants the times
AskTimes ==
  /\ work["get"] = NoWork
  /\ work' = [work EXCEPT !["get"].step = "look"]
  /\ UNCHANGED <<msgs, stamps, legacy, lines, cache, lastAt, losses, first,
                 strayed>>

\* Mutant: every message the turn lists is stamped, with a time or without
StampAny(map, w, m, new) ==
  Append(new, Line(m, w.base * LastMessage + Len(new)))

\* A message without a time gets the turn's start, and one more for each
\* message before it that got one
StampOne(map, w, m, new) ==
  IF map[m] # 0 THEN new
  ELSE Append(new, Line(m, w.base * LastMessage + Len(new)))

\* The new stamps, of the messages the turn has listed, in their order
New(map, w) ==
  LET upTo[m \in 0..w.seen] ==
        IF m = 0 THEN <<>> ELSE StampOne(map, w, m, upTo[m - 1])
  IN upTo[w.seen]

\* The map is at hand: a turn stamps it where it is, a request has its answer
Have(a, map) ==
  LET new == New(map, work[a])
      stamped == Overlay(map, new)
  IN /\ cache' = stamped
     /\ work' = [work EXCEPT ![a] =
          IF a = "get" \/ new = <<>> THEN NoWork
          ELSE [@ EXCEPT !.step = "write", !.map = stamped, !.new = new]]

LookUp(a) ==
  /\ work[a].step = "look"
  /\ IF cache # NoMap THEN Have(a, cache)
     ELSE /\ work' = [work EXCEPT ![a].step = "legacy"]
          /\ UNCHANGED cache
  /\ UNCHANGED <<msgs, stamps, legacy, lines, lastAt, losses, first, strayed>>

ReadLegacy(a) ==
  /\ work[a].step = "legacy"
  /\ work' = [work EXCEPT ![a].step = "lines", ![a].map = OldMap(legacy)]
  /\ UNCHANGED <<msgs, stamps, legacy, lines, cache, lastAt, losses, first,
                 strayed>>

ReadLines(a) ==
  /\ work[a].step = "lines"
  /\ LET map == Overlay(work[a].map, lines)
         live == Cardinality(Stamped(map))
     IN work' = [work EXCEPT ![a].map = map,
          ![a].step = IF live > 0 /\ Len(lines) > 2 * live
                      THEN "compact" ELSE "keep"]
  /\ UNCHANGED <<msgs, stamps, legacy, lines, cache, lastAt, losses, first,
                 strayed>>

\* Too many lines for the messages they name: one line each; that it fails
\* is ignored
CompactLines(a) ==
  /\ work[a].step = "compact"
  /\ \/ /\ PutLines(LinesOf(work[a].map), OldMap(legacy))
        /\ strayed' = (strayed \/ DiskTimes # work[a].map)
        /\ UNCHANGED losses
     \/ /\ losses < MaxLosses /\ losses' = losses + 1
        /\ UNCHANGED <<lines, first, strayed>>
  /\ work' = [work EXCEPT ![a].step = "keep"]
  /\ UNCHANGED <<msgs, stamps, legacy, cache, lastAt>>

\* The map read is the one in memory from now on, whatever came in between
Keep(a) ==
  /\ work[a].step = "keep"
  /\ strayed' = (\/ strayed
                 \/ work[a].map # DiskTimes
                 \/ cache \notin {NoMap, work[a].map})
  /\ Have(a, work[a].map)
  /\ UNCHANGED <<msgs, stamps, legacy, lines, lastAt, losses, first>>

----------------------------------------------------------------------------
(* Writing it                                                              *)

\* The old map is folded into the lines
Persist ==
  /\ work["turn"].step = "write"
  /\ PutLines(IF legacy = NoMap THEN AppendedTo(lines, work["turn"].new)
              ELSE LinesOf(work["turn"].map), OldMap(legacy))
  /\ work' = [work EXCEPT !["turn"].step =
                IF legacy = NoMap THEN "bump" ELSE "unlink"]
  /\ UNCHANGED <<msgs, stamps, legacy, cache, lastAt, losses, strayed>>

\* The write fails, an append perhaps half done: memory is not to be trusted
PersistFails ==
  /\ work["turn"].step = "write" /\ losses < MaxLosses
  /\ \E ls \in IF legacy = NoMap THEN Partly(lines, work["turn"].new)
               ELSE {lines} : PutLines(ls, OldMap(legacy))
  /\ cache' = NoMap
  /\ work' = [work EXCEPT !["turn"].step = "bump"]
  /\ losses' = losses + 1
  /\ UNCHANGED <<msgs, stamps, legacy, lastAt, strayed>>

\* The old file goes once the lines hold it; that it may not go is ignored
Unlink ==
  /\ work["turn"].step = "unlink"
  /\ \/ legacy' = NoMap /\ UNCHANGED losses
     \/ losses < MaxLosses /\ losses' = losses + 1 /\ UNCHANGED legacy
  /\ work' = [work EXCEPT !["turn"].step = "bump"]
  /\ UNCHANGED <<msgs, stamps, lines, cache, lastAt, first, strayed>>

LastNew == LET new == work["turn"].new IN new[Len(new)].at

\* conversation.json is read, and written back with the later time
BumpRead ==
  /\ work["turn"].step = "bump"
  /\ work' = [work EXCEPT !["turn"] =
       IF lastAt >= LastNew THEN NoWork ELSE [@ EXCEPT !.step = "bumped"]]
  /\ UNCHANGED <<msgs, stamps, legacy, lines, cache, lastAt, losses, first,
                 strayed>>

BumpWrite ==
  /\ work["turn"].step = "bumped"
  /\ lastAt' = LastNew
  /\ work' = [work EXCEPT !["turn"] = NoWork]
  /\ UNCHANGED <<msgs, stamps, legacy, lines, cache, losses, first, strayed>>

\* The CLI writes conversation.json with a date of its own
CliRewrites ==
  /\ lastAt # 0
  /\ lastAt' = 0
  /\ UNCHANGED <<msgs, stamps, legacy, lines, cache, work, losses, first,
                 strayed>>

\* The process ends, perhaps inside an append
LoseProcess ==
  /\ losses < MaxLosses
  /\ losses' = losses + 1
  /\ \E ls \in IF work["turn"].step = "write" /\ legacy = NoMap
               THEN Partly(lines, work["turn"].new) ELSE {lines} :
       PutLines(ls, OldMap(legacy))
  /\ cache' = NoMap
  /\ work' = [a \in {"turn", "get"} |-> NoWork]
  /\ UNCHANGED <<msgs, stamps, legacy, lastAt, strayed>>

TimesNext ==
  \/ CliWrites \/ StampTurn \/ AskTimes
  \/ \E a \in {"turn", "get"} :
       LookUp(a) \/ ReadLegacy(a) \/ ReadLines(a) \/ CompactLines(a) \/ Keep(a)
  \/ Persist \/ PersistFails \/ Unlink \/ BumpRead \/ BumpWrite
  \/ CliRewrites \/ LoseProcess

TimesSpec == TimesInit /\ [][TimesNext]_timesVars

----------------------------------------------------------------------------
(* Properties                                                              *)

Latest(map) == Max({map[m] : m \in Msg})

\* What the list of conversations shows as last_message_at
ListTime(map) == IF Latest(map) > lastAt THEN Latest(map) ELSE lastAt

\* A time that has reached the disk is that of its message for good, through
\* migration, failed writes, torn lines and restarts, and the list of
\* conversations is never older than it, unless a cold load has overlapped a
\* stamp.  ("already-stamped messages keep their original real timestamp" and
\* "Never go backwards", store.ts.)
TimesStay ==
  ~strayed =>
    /\ \A m \in Stamped(first) : DiskTimes[m] = first[m]
    /\ ListTime(IF cache = NoMap THEN DiskTimes ELSE cache) >= Latest(first)
    /\ cache # NoMap => \A m \in Stamped(first) : cache[m] = first[m]
=============================================================================
