----------------------------- MODULE OrderedFeed ----------------------------
(***************************************************************************)
(* What a conversation promises the devices that follow it: every frame    *)
(* has a number of its own, higher than those before it, and a device that *)
(* follows the conversation gets the frames one by one in that order.  A   *)
(* device that does not follow may jump ahead, by fetching the transcript  *)
(* over REST.  MOBILE_WS_PROTOCOL.md 12.3 is the promise in prose.         *)
(***************************************************************************)
EXTENDS Naturals

CONSTANTS
  Device,
  Conv,
  MaxSeq      \* bound: numbers one conversation uses

VARIABLES
  published,  \* conversation -> numbers of the frames published so far
  frames,     \* conversation -> how many frames these are
  at,         \* device -> conversation -> number of the last frame it has
  follows     \* device -> conversations it follows

vars == <<published, frames, at, follows>>

TypeOK ==
  /\ published \in [Conv -> SUBSET (1 .. MaxSeq)]
  /\ frames \in [Conv -> 0 .. MaxSeq]
  /\ at \in [Device -> [Conv -> 0 .. MaxSeq]]
  /\ follows \in [Device -> SUBSET Conv]

Init ==
  /\ published = [c \in Conv |-> {}]
  /\ frames = [c \in Conv |-> 0]
  /\ at = [d \in Device |-> [c \in Conv |-> 0]]
  /\ follows = [d \in Device |-> {}]

(* A number may be skipped (the process died before it used it), but never  *)
(* used again, and none below one that is out.                              *)
Publish(c) ==
  /\ frames' = [frames EXCEPT ![c] = @ + 1]
  /\ \E q \in 1 .. MaxSeq :
       /\ \A p \in published[c] : p < q
       /\ published' = [published EXCEPT ![c] = @ \cup {q}]
  /\ UNCHANGED <<at, follows>>

Moves(d, c, q) ==
  /\ at[d][c] < q
  /\ at' = [at EXCEPT ![d][c] = q]
  /\ UNCHANGED <<published, frames, follows>>

(* The device moves on without passing over a frame that is out.            *)
Receive(d, c) ==
  \E q \in 1 .. MaxSeq :
    /\ \A p \in published[c] : p <= at[d][c] \/ q <= p
    /\ Moves(d, c, q)

(* Without following, a device can only catch up by asking for everything.  *)
Refetch(d, c) ==
  /\ c \notin follows[d]
  /\ \E q \in 1 .. MaxSeq : Moves(d, c, q)

Follow(d, c) ==
  /\ follows' = [follows EXCEPT ![d] = @ \cup {c}]
  /\ UNCHANGED <<published, frames, at>>

Unfollow(d, c) ==
  /\ follows' = [follows EXCEPT ![d] = @ \ {c}]
  /\ UNCHANGED <<published, frames, at>>

(* Connections break, one or all of them.                                   *)
Disconnect ==
  /\ \E D \in SUBSET Device :
       follows' = [d \in Device |-> IF d \in D THEN {} ELSE follows[d]]
  /\ UNCHANGED <<published, frames, at>>

Next ==
  \/ \E c \in Conv : Publish(c)
  \/ \E d \in Device, c \in Conv :
       Receive(d, c) \/ Refetch(d, c) \/ Follow(d, c) \/ Unfollow(d, c)
  \/ Disconnect

Spec == Init /\ [][Next]_vars
=============================================================================
