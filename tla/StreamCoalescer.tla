---------------------------- MODULE StreamCoalescer ----------------------------
(***************************************************************************)
(* StreamCoalescer (stream-coalescer.ts): text chunks and snapshots of     *)
(* tool calls wait for a window of time, chunks of one text are joined,    *)
(* snapshots of one call replace each other, and any other frame pushes    *)
(* out what waits.  The n-th frame that came in is n.                      *)
(***************************************************************************)
EXTENDS Naturals, Sequences, FiniteSets, SequencesExt, FiniteSetsExt

CONSTANTS
  Text,     \* <<message type, otid>> of texts
  ToolCall, \* tool_call ids
  MaxIn     \* bound: frames handled

VARIABLES
  in,       \* history: the frames handled
  entries,  \* the bucket: what waits, in the order it will leave
  timer,    \* a flush is scheduled
  out,      \* what onFlush was given
  disposed

coalescerVars == <<in, entries, timer, out, disposed>>

Plain == "plain"

ASSUME CoalescerAssumption ==
  /\ MaxIn \in Nat
  /\ Text \cap ToolCall = {} /\ Plain \notin Text \cup ToolCall

Received(key, done, n) == [key |-> key, done |-> done, ids |-> <<n>>]
Frames == [key : Text \cup ToolCall \cup {Plain}, done : BOOLEAN,
           ids : Seq(1 .. MaxIn)]

CoalescerTypeOK ==
  /\ in \in Seq(Frames) /\ entries \in Seq(Frames) /\ out \in Seq(Frames)
  /\ timer \in BOOLEAN /\ disposed \in BOOLEAN
  /\ entries # <<>> => timer

CoalescerInit ==
  /\ in = <<>> /\ entries = <<>> /\ out = <<>>
  /\ timer = FALSE /\ disposed = FALSE

InBucket(f) == {i \in DOMAIN entries : entries[i].key = f.key}

(* Mutant: chunks of a text replace each other, as snapshots of a call do.  *)
MergedAsSnapshot(f) ==
  [entries EXCEPT ![CHOOSE i \in InBucket(f) : TRUE] = f]

(* textIndex: a chunk is put to the text that waits, whatever came between. *)
Merged(f) ==
  LET i == CHOOSE i \in InBucket(f) : TRUE
  IN IF f.key \in Text THEN [entries EXCEPT ![i].ids = @ \o f.ids]
     ELSE [entries EXCEPT ![i] = f]

Buffered(f) == IF InBucket(f) = {} THEN Append(entries, f) ELSE Merged(f)

(* A frame that waits, unless it is the end of a tool call.                 *)
Buffers(f) ==
  /\ entries' = Buffered(f) /\ timer' = TRUE /\ UNCHANGED out

Flushed(es) == /\ entries' = <<>> /\ timer' = FALSE /\ out' = out \o es

(* handle *)
Handle ==
  /\ Len(in) < MaxIn
  /\ \E key \in Text \cup ToolCall \cup {Plain}, done \in BOOLEAN :
       LET f == Received(key, done, Len(in) + 1)
       IN /\ done => key \in ToolCall
          /\ in' = Append(in, f)
          /\ \/ /\ disposed /\ out' = Append(out, f)
                /\ UNCHANGED <<entries, timer>>
             \/ /\ ~disposed /\ key # Plain /\ ~done
                /\ Buffers(f)
             \/ /\ ~disposed /\ done /\ Flushed(Buffered(f))
             \/ /\ ~disposed /\ key = Plain /\ Flushed(Append(entries, f))
  /\ UNCHANGED disposed

(* The window is over, or flushAll at the end of the turn.                  *)
Flush ==
  /\ timer /\ Flushed(entries)
  /\ UNCHANGED <<in, disposed>>

Dispose ==
  /\ ~disposed /\ disposed' = TRUE
  /\ Flushed(entries)
  /\ UNCHANGED in

CoalescerNext == Handle \/ Flush \/ Dispose
CoalescerSpec == CoalescerInit /\ [][CoalescerNext]_coalescerVars

(***************************************************************************)
(* Properties                                                              *)
(***************************************************************************)
PartOf(f, key) == IF f.key = key THEN f.ids ELSE <<>>

(* What frames tell of a text or a call, one after the other.               *)
Chunks(fs, key) ==
  LET upTo[i \in 0 .. Len(fs)] ==
        IF i = 0 THEN <<>> ELSE upTo[i - 1] \o PartOf(fs[i], key)
  IN upTo[Len(fs)]

IdsOf(fs) == UNION {ToSet(fs[i].ids) : i \in DOMAIN fs}

(* A snapshot may leave the place of one it replaced.                       *)
Superseded ==
  {n \in DOMAIN in : in[n].key \in ToolCall
     /\ \E m \in DOMAIN in : m > n /\ in[m].key = in[n].key}

(* Nothing is lost and nothing doubled: what left and what waits are, text  *)
(* by text, the chunks that came, in their order; every other frame leaves  *)
(* once, and a snapshot of a tool call is left out only for a later one.    *)
EachChunkOnce ==
  LET all == out \o entries
  IN /\ \A key \in Text \cup {Plain} : Chunks(all, key) = Chunks(in, key)
     /\ \A c \in ToolCall : IsInjective(Chunks(all, c))
     /\ DOMAIN in \ Superseded \subseteq IdsOf(all)

=============================================================================
