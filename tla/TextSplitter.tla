----------------------------- MODULE TextSplitter -----------------------------
(***************************************************************************)
(* A2uiStreamSplitter (a2ui-stream-splitter.ts) and its use by             *)
(* bridgeSendMessage: the text of an assistant message comes in pieces cut *)
(* anywhere, the blocks between an opening and a closing tag are taken out *)
(* of it, and what might be the beginning of a tag is held back.           *)
(*                                                                         *)
(* OpenTag and CloseTag stand for "<a2ui-json>" and "</a2ui-json>".        *)
(* Whether a block parses is left out.                                     *)
(***************************************************************************)
EXTENDS Naturals, Sequences, FiniteSets, SequencesExt, FiniteSetsExt

CONSTANTS
  Symbol,
  OpenTag,   \* OPEN_TAG
  CloseTag,  \* CLOSE_TAG
  MaxPiece,  \* bound: symbols of one piece
  MaxText    \* bound: symbols of the message

VARIABLES
  said,     \* history: what the model wrote so far
  splitter, \* mode, pending and jsonBuf
  shown,    \* text deltas sent to the client
  blocks,   \* A2UI frames sent to the client
  over      \* the turn has ended and the splitter was flushed

splitterVars == <<said, splitter, shown, blocks, over>>

ASSUME SplitterAssumption ==
  /\ {OpenTag, CloseTag} \subseteq Seq(Symbol) \ {<<>>}
  /\ {MaxPiece, MaxText} \subseteq Nat

SplitterTypeOK ==
  /\ said \in Seq(Symbol) /\ shown \in Seq(Symbol)
  /\ blocks \in Seq(Seq(Symbol)) /\ over \in BOOLEAN
  /\ splitter.mode \in {"text", "tag"}
  /\ splitter.pending \in Seq(Symbol) /\ splitter.json \in Seq(Symbol)
  /\ splitter.mode = "text" => splitter.json = <<>>

SplitterInit ==
  /\ said = <<>> /\ shown = <<>> /\ blocks = <<>> /\ over = FALSE
  /\ splitter = [mode |-> "text", pending |-> <<>>, json |-> <<>>]

(***************************************************************************)
(* Sequences of symbols                                                    *)
(***************************************************************************)
Take(s, n) == SubSeq(s, 1, n)
Drop(s, n) == SubSeq(s, n + 1, Len(s))
EndsWith(s, t) == Len(t) <= Len(s) /\ Drop(s, Len(s) - Len(t)) = t

(* How much of s lies before the first occurrence of tag; Len(s) if none.   *)
Before(s, tag) ==
  Min({i \in 0 .. Len(s) :
         i = Len(s) \/ IsPrefix(tag, Drop(s, i))})

Occurs(s, tag) == Before(s, tag) < Len(s)

(* Mutant: a tag but for its last symbol is not held back.                  *)
HoldShort(s, tag) ==
  Max({0} \cup {k \in 0 .. Len(tag) - 2 : EndsWith(s, Take(tag, k))})

(* longestSuffixPrefix: the tail that may be the beginning of the tag.      *)
Hold(s, tag) ==
  Max({k \in 0 .. Len(tag) - 1 : EndsWith(s, Take(tag, k))})

(***************************************************************************)
(* feed                                                                    *)
(***************************************************************************)
Tag(st) == IF st.mode = "text" THEN OpenTag ELSE CloseTag
Finds(st) == Occurs(st.pending, Tag(st))

(* A round of the loop: up to the tag, and past it.                         *)
Cut(st) ==
  LET at == Before(st.pending, Tag(st))
      head == Take(st.pending, at)
      rest == Drop(st.pending, at + Len(Tag(st)))
  IN IF st.mode = "text"
     THEN [st EXCEPT !.text = @ \o head, !.pending = rest, !.mode = "tag",
                     !.json = <<>>]
     ELSE [st EXCEPT !.frames = Append(@, st.json \o head),
                     !.pending = rest, !.mode = "text", !.json = <<>>]

(* The last round, of what holds no tag.                                    *)
HeldBack(st) ==
  LET keep == Len(st.pending) - Hold(st.pending, Tag(st))
      head == Take(st.pending, keep)
      rest == Drop(st.pending, keep)
  IN IF st.mode = "text"
     THEN [st EXCEPT !.text = @ \o head, !.pending = rest]
     ELSE [st EXCEPT !.json = @ \o head, !.pending = rest]

(* There are no more tags than symbols.                                     *)
Drained(st) ==
  LET after[n \in 0 .. Len(st.pending)] ==
        IF n = 0 THEN st
        ELSE IF Finds(after[n - 1]) THEN Cut(after[n - 1]) ELSE after[n - 1]
  IN HeldBack(after[Len(st.pending)])

Fed(sp, piece) ==
  Drained([mode |-> sp.mode, pending |-> sp.pending \o piece,
           json |-> sp.json, text |-> <<>>, frames |-> <<>>])

State(st) == [mode |-> st.mode, pending |-> st.pending, json |-> st.json]

(* onFrame of an assistant_message: the text first, then its blocks.        *)
Piece ==
  /\ ~over /\ Len(said) < MaxText
  /\ \E n \in 1 .. Min({MaxPiece, MaxText - Len(said)}) :
     \E piece \in [1 .. n -> Symbol] :
       LET st == Fed(splitter, piece)
       IN /\ said' = said \o piece
          /\ splitter' = State(st)
          /\ shown' = shown \o st.text
          /\ blocks' = blocks \o st.frames
  /\ UNCHANGED over

(* flush at the end of the turn: an unclosed block is dropped.              *)
FlushAtEnd ==
  /\ ~over /\ over' = TRUE
  /\ shown' = IF splitter.mode = "text" THEN shown \o splitter.pending
              ELSE shown
  /\ splitter' = [mode |-> "text", pending |-> <<>>, json |-> <<>>]
  /\ UNCHANGED <<said, blocks>>

SplitterNext == Piece \/ FlushAtEnd
SplitterSpec == SplitterInit /\ [][SplitterNext]_splitterVars

(***************************************************************************)
(* Properties                                                              *)
(***************************************************************************)
(* What a message that is known as a whole consists of: text up to the      *)
(* first opening tag, the block up to the next closing tag, and so on.      *)
HeadOf(s) == Take(s, Before(s, OpenTag))
BodyOf(s) == Drop(s, Len(HeadOf(s)) + Len(OpenTag))
BlockOf(s) == Take(BodyOf(s), Before(BodyOf(s), CloseTag))
HasBlock(s) == Occurs(s, OpenTag) /\ Occurs(BodyOf(s), CloseTag)
BlockEnd(s) == Len(HeadOf(s)) + Len(OpenTag) + Len(BlockOf(s)) + Len(CloseTag)

Split(s) ==
  LET from[i \in 0 .. Len(s)] ==
        LET rest == Drop(s, i)
            tail == from[i + BlockEnd(rest)]
        IN IF HasBlock(rest)
           THEN [text |-> HeadOf(rest) \o tail.text,
                 blocks |-> <<BlockOf(rest)>> \o tail.blocks]
           ELSE [text |-> HeadOf(rest), blocks |-> <<>>]
  IN from[0]

(* However the message is cut, the client is shown its text and is given    *)
(* its blocks as if it had come in one piece, and before it is over nothing *)
(* that may turn out to be a tag: what was shown is never taken back.       *)
CutsDoNotShow ==
  LET whole == Split(said)
  IN /\ blocks = whole.blocks
     /\ IsPrefix(shown, whole.text)
     /\ over => shown = whole.text
     /\ ~over => Len(whole.text) - Len(shown) < Len(OpenTag)

=============================================================================
