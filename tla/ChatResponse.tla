----------------------------- MODULE ChatResponse -----------------------------
(***************************************************************************)
(* One turn answered over HTTP (chat.ts): the frames of the session are    *)
(* reshaped and either written to an event stream as they come, with the   *)
(* chunks of a text gathered and the end of the turn held back, or         *)
(* collected and turned into one JSON body at the end.  The module runs    *)
(* both over the same frames.                                              *)
(*                                                                         *)
(* A frame is known by its place in the turn: content, stop reason, token  *)
(* counts and id of the n-th frame are n.  That a session does not resume  *)
(* a text (an otid) behind a step's stop reason or usage is external.      *)
(***************************************************************************)
EXTENDS Naturals, Sequences, FiniteSets, SequencesExt, FiniteSetsExt

CONSTANTS
  Otid,     \* texts: assistant chunks of one bubble share an otid
  NoOtid,
  MaxFrames \* bound: frames of the turn

VARIABLES
  raw,    \* frames the session sent
  frames, \* frames[]: the reshaped ones, for the JSON body
  wire,   \* what was written to the stream, behind the opening ping
  text,   \* pendingAssistant: none or one
  stop,   \* pendingStop
  usage,  \* pendingUsage
  turn    \* "open", "closed" or "threw"

chatVars == <<raw, frames, wire, text, stop, usage, turn>>

Kinds ==
  {"assistant", "tool", "ping", "stop", "usage", "system", "error", "done"}
ChatFrames ==
  [kind : Kinds, otid : Otid \cup {NoOtid}, id : Nat, body : Seq(Nat)]
Frame(kind, otid, n) ==
  [kind |-> kind, otid |-> otid, id |-> n, body |-> <<n>>]
Mark(kind) == [kind |-> kind, otid |-> NoOtid, id |-> 0, body |-> <<>>]

ChatTypeOK ==
  /\ raw \in Seq(ChatFrames) /\ frames \in Seq(ChatFrames)
  /\ wire \in Seq(ChatFrames)
  /\ \A p \in {text, stop, usage} : p \in Seq(ChatFrames) /\ Len(p) <= 1
  /\ turn \in {"open", "closed", "threw"}

ChatInit ==
  /\ raw = <<>> /\ frames = <<>> /\ wire = <<>>
  /\ text = <<>> /\ stop = <<>> /\ usage = <<>> /\ turn = "open"

(* Two chunks of one bubble.                                                *)
Continues(prev, f) ==
  /\ prev.kind = "assistant" /\ f.kind = "assistant"
  /\ prev.otid # NoOtid /\ prev.otid = f.otid

Continued(prev, f) == [prev EXCEPT !.body = @ \o f.body, !.id = f.id]

(* reshapeFrame drops what the session says about itself.                   *)
Reshaped(f) == IF f.kind = "system" THEN <<>> ELSE <<f>>

(***************************************************************************)
(* The stream: handleRawFrame and flushTail                                *)
(***************************************************************************)
(* Mutant: a tool call leaves the text before it where it is.               *)
FlushesUnlessTool(f) == f.kind = "ping" \/ f.kind = "assistant"

(* Any other frame ends the bubble, except the held back ends of a step.    *)
Flushes(f) == f.kind \notin {"stop", "usage"}

Streamed(f) ==
  IF text # <<>> /\ Continues(text[1], f)
  THEN text' = <<Continued(text[1], f)>> /\ UNCHANGED <<wire, stop, usage>>
  ELSE
    /\ stop' = IF f.kind = "stop" THEN <<f>> ELSE stop
    /\ usage' = IF f.kind = "usage" /\ usage = <<>> THEN <<f>> ELSE usage
    /\ text' = IF f.kind = "assistant" THEN <<f>>
               ELSE IF Flushes(f) THEN <<>> ELSE text
    /\ wire' = IF ~Flushes(f) THEN wire
               ELSE wire \o text \o
                      (IF f.kind = "assistant" THEN <<>> ELSE <<f>>)

(* External: the session does not go back to a text of an earlier step.     *)
Expected(f) ==
  f.kind = "assistant" /\ f.otid # NoOtid =>
    \A i, j \in DOMAIN raw :
      ~(i < j /\ raw[i].otid = f.otid /\ raw[j].kind \in {"stop", "usage"})

(* handleRawFrame: the frame is kept for the body and goes to the stream.   *)
OnFrame ==
  /\ turn = "open" /\ Len(raw) < MaxFrames
  /\ \E k \in Kinds \ {"error", "done"}, o \in Otid \cup {NoOtid} :
       LET f == Frame(k, o, Len(raw) + 1)
       IN /\ k # "assistant" => o = NoOtid
          /\ Expected(f)
          /\ raw' = Append(raw, f)
          /\ frames' = frames \o Reshaped(f)
          /\ IF Reshaped(f) = <<>> THEN UNCHANGED <<wire, text, stop, usage>>
             ELSE Streamed(f)
  /\ UNCHANGED turn

(* finalizeResponse of a stream: flushTail, then [DONE].                    *)
Finishes ==
  /\ turn = "open" /\ turn' = "closed"
  /\ wire' = wire \o text \o stop \o usage \o <<Mark("done")>>
  /\ text' = <<>> /\ stop' = <<>> /\ usage' = <<>>
  /\ UNCHANGED <<raw, frames>>

(* The turn throws: what was held back is not written.                      *)
Throws ==
  /\ turn = "open" /\ turn' = "threw"
  /\ wire' = wire \o <<Mark("error"), Mark("done")>>
  /\ UNCHANGED <<raw, frames, text, stop, usage>>

ChatNext == OnFrame \/ Finishes \/ Throws
ChatSpec == ChatInit /\ [][ChatNext]_chatVars

(***************************************************************************)
(* The body: finalizeResponse over the collected frames                    *)
(***************************************************************************)
Put(out, f) ==
  IF out # <<>> /\ Continues(Last(out), f)
  THEN Front(out) \o <<Continued(Last(out), f)>> ELSE Append(out, f)

Coalesced(fs) ==
  LET upTo[i \in 0 .. Len(fs)] ==
        IF i = 0 THEN <<>> ELSE Put(upTo[i - 1], fs[i])
  IN upTo[Len(fs)]

Pick(out, f, kinds) == IF f.kind \in kinds THEN Append(out, f) ELSE out

Picked(fs, kinds) ==
  LET upTo[i \in 0 .. Len(fs)] ==
        IF i = 0 THEN <<>> ELSE Pick(upTo[i - 1], fs[i], kinds)
  IN upTo[Len(fs)]

Messages(fs) == Picked(fs, {"assistant", "tool"})
OfKind(fs, kind) == Picked(fs, {kind})
FirstIn(fs) == IF fs = <<>> THEN <<>> ELSE <<Head(fs)>>
LastIn(fs) == IF fs = <<>> THEN <<>> ELSE <<Last(fs)>>

(* The messages, the last stop reason and the first usage of a turn.        *)
Body(fs) ==
  LET all == Coalesced(fs)
  IN [messages |-> Messages(all),
      stop |-> LastIn(OfKind(all, "stop")),
      usage |-> FirstIn(OfKind(all, "usage"))]

(***************************************************************************)
(* Properties                                                              *)
(***************************************************************************)
(* A turn tells the same story both ways: whatever the stream wrote so far, *)
(* also when it breaks off, is the beginning of the body's messages, joined *)
(* alike and in the same order, and when the turn ends, all of them, with   *)
(* the same stop reason and the same usage.                                 *)
SameStory ==
  /\ IsPrefix(Messages(wire), Messages(Coalesced(frames)))
  /\ turn = "closed" =>
       Body(frames) = [messages |-> Messages(wire),
                       stop |-> OfKind(wire, "stop"),
                       usage |-> OfKind(wire, "usage")]

=============================================================================
