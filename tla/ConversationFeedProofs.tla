----------------------- MODULE ConversationFeedProofs -----------------------
(***************************************************************************)
(* Proofs about ConversationFeed for every number of devices,              *)
(* conversations and turns and for every value of the limits: its typing,  *)
(* what stands between a replay and the live tail, what turn_done says of  *)
(* dropped frames, how turns follow one another in a feed, and that the    *)
(* whole implements OrderedFeed.                                           *)
(***************************************************************************)
EXTENDS ConversationFeed, TLAPS, FiniteSetTheorems, SequenceTheorems,
        WellFoundedInduction

-----------------------------------------------------------------------------
(* The inductive invariant *)

(* A cached state says what the sidecar on disk says.                       *)
CacheAgrees ==
  \A c \in Conv : c \in ToSet(lru) =>
    states[c].assigned = sidecar[c].assigned /\ states[c].ack = sidecar[c].ack

(* Numbers were assigned before they are used, each to one entry.           *)
NumbersAreAssigned ==
  \A c \in Conv : \A x \in stamped[c] :
    /\ x.seq <= sidecar[c].assigned
    /\ \A y \in stamped[c] : x.seq = y.seq => x = y

(* The log holds a tail of what was stamped: what compaction and the limit  *)
(* take away lies before everything that is left.                           *)
LogIsATail ==
  \A c \in Conv :
    /\ log[c] \subseteq stamped[c]
    /\ \A x \in log[c] : \A y \in stamped[c] : x.seq <= y.seq => y \in log[c]

(* Only a session follows, and who has been told so is followed.            *)
FollowersSubscribed ==
  \A d \in Device :
    /\ d \in ready \/ subs[d] = {}
    /\ fed[d] \subseteq subs[d]
    /\ \A i \in 1 .. Len(wire[d]) :
         wire[d][i].type = "subscribed" => wire[d][i].conv \in subs[d]

WireIsAssigned ==
  \A d \in Device : \A i \in 1 .. Len(wire[d]) :
    wire[d][i].seq <= sidecar[wire[d][i].conv].assigned

(* Message i of a connection moves the cursor of c to number q or beyond.   *)
Moving(d, i, c, q) ==
  wire[d][i].conv = c /\ wire[d][i].type # "subscribed" /\ q <= wire[d][i].seq

(* The device has read that it follows c, or will before message i.         *)
FollowsAt(d, i, c) ==
  \/ c \in fed[d]
  \/ \E k \in 1 .. i - 1 :
       wire[d][k].type = "subscribed" /\ wire[d][k].conv = c

(* Nothing that a follower reads jumps over a frame: those before it are    *)
(* read already or come first.                                              *)
NothingIsJumped ==
  \A d \in Device : \A i \in 1 .. Len(wire[d]) :
    LET m == wire[d][i] IN
      m.type # "subscribed" /\ FollowsAt(d, i, m.conv) =>
        \A x \in stamped[m.conv] :
          x.seq < m.seq => \/ x.seq <= cursor[d][m.conv]
                           \/ \E j \in 1 .. i - 1 : Moving(d, j, m.conv, x.seq)

(* The closure of a turn, through its phases.                               *)
TurnsAreShaped ==
  \A t \in Turn :
    /\ turn[t].phase = "idle" => turn[t] = Fresh
    /\ turn[t].phase # "idle" => turn[t].conv \in Conv
    /\ turn[t].open => Live(t)
    /\ turn[t].by = None /\ Live(t) => turn[t].open
    /\ turn[t].phase = "failing" => turn[t].by = None
    /\ turn[t].by = None => turn[t].dropped = 0
    /\ turn[t].dropped <= turn[t].chunks

(* A session that is not in flight has no open turn, and one has one.       *)
OneTurnPerSession ==
  /\ \A t \in Turn : turn[t].open /\ turn[t].by # None => inFlight[turn[t].by]
  /\ \A t, u \in Turn :
       turn[t].open /\ turn[u].open /\ turn[t].by = turn[u].by
         /\ turn[t].by # None => t = u

(* A frame is one of a turn that is under way or done, in its conversation. *)
FramesAreOfTurns ==
  \A c \in Conv : \A x \in stamped[c] :
    LET t == turn[x.frame.turn] IN
      /\ t.conv = c /\ t.phase \notin {"idle", "preparing"}
      /\ x.frame.kind = "turn_done" => t.phase = "over"

(* While a turn is open, a chunk of it is in the feed or counted as lost.   *)
ChunksOf(c, t) ==
  {y \in stamped[c] : y.frame.kind = "chunk" /\ y.frame.turn = t}
ChunksAreCounted ==
  \A t \in Turn : turn[t].open =>
    Cardinality(ChunksOf(turn[t].conv, t)) + turn[t].dropped = turn[t].chunks

(* The open turn of a session comes last among the turns of its device.     *)
OpenTurnIsLast ==
  \A t \in Turn : turn[t].open /\ turn[t].by # None =>
    \A c \in Conv : \A x, y \in stamped[c] :
      x.frame.turn = t /\ y.frame.turn # t
        /\ turn[y.frame.turn].by = turn[t].by => y.seq < x.seq

CursorInv ==
  /\ TypeOK /\ CacheAgrees /\ NumbersAreAssigned /\ LogIsATail
WireInv ==
  /\ FollowersSubscribed /\ WireIsAssigned
  /\ NothingFallsBetween /\ NothingIsJumped
TurnInv ==
  /\ TurnsAreShaped /\ OneTurnPerSession /\ FramesAreOfTurns
  /\ ChunksAreCounted /\ LossIsReported /\ OpenTurnIsLast /\ TurnsAreBracketed

IInv == CursorInv /\ WireInv /\ TurnInv

-----------------------------------------------------------------------------
(* Numbers in order: what InOrder chooses from exists *)

(* A set of naturals that is not empty has a least element.                 *)
LEMMA LeastNumber ==
  ASSUME NEW Q \in SUBSET Nat, Q # {}
  PROVE  \E m \in Q : \A q \in Q : m <= q
<1>1. PICK m \in Q : \A q \in Q : ~(<<q, m>> \in OpToRel(<, Nat))
  BY NatLessThanWellFounded, WFMin
<1>2. \A q \in Q : ~(q < m)
  BY <1>1 DEF OpToRel
<1> QED BY <1>2

(* The sequences InOrder(Q) may be, for a set of n numbers.                 *)
Ascending(n, Q) ==
  {s \in [1 .. n -> Q] : \A i, j \in 1 .. n : i < j => s[i] < s[j]}

(* One more number, below the others, goes first.                           *)
LEMMA AscendingStep ==
  ASSUME NEW n \in Nat, NEW Q \in SUBSET Nat, IsFiniteSet(Q),
         Cardinality(Q) = n + 1,
         \A R \in SUBSET Nat :
           IsFiniteSet(R) /\ Cardinality(R) = n => Ascending(n, R) # {}
  PROVE  Ascending(n + 1, Q) # {}
<1>1. Q # {}
  BY FS_EmptySet
<1>2. PICK m \in Q : \A q \in Q : m <= q
  BY <1>1, LeastNumber
<1> DEFINE R == Q \ {m}
<1>3. IsFiniteSet(R) /\ Cardinality(R) = n
  BY <1>2, FS_RemoveElement
<1>4. PICK s \in Ascending(n, R) : TRUE
  BY <1>3
<1>5. s \in [1 .. n -> R] /\ \A i, j \in 1 .. n : i < j => s[i] < s[j]
  BY <1>4 DEF Ascending
<1> DEFINE r == [i \in 1 .. n + 1 |-> IF i = 1 THEN m ELSE s[i - 1]]
<1>6. \A i \in 1 .. n + 1 : i # 1 => i - 1 \in 1 .. n
  OBVIOUS
<1>7. \A i \in 1 .. n + 1 : i # 1 => s[i - 1] \in R
  BY <1>5, <1>6
<1>8. \A x \in R : m < x
  BY <1>2
<1>9. r \in [1 .. n + 1 -> Q]
  BY <1>2, <1>7
<1>10. ASSUME NEW i \in 1 .. n + 1, NEW j \in 1 .. n + 1, i < j
       PROVE  r[i] < r[j]
  <2>1. j # 1 /\ r[j] = s[j - 1]
    BY <1>10
  <2>2. CASE i = 1
    BY <2>1, <2>2, <1>7, <1>8
  <2>3. CASE i # 1
    <3>1. r[i] = s[i - 1] /\ i - 1 \in 1 .. n /\ j - 1 \in 1 .. n
      BY <2>3, <2>1, <1>6
    <3>2. i - 1 < j - 1
      BY <1>10
    <3> QED BY <3>1, <3>2, <2>1, <1>5
  <2> QED BY <2>2, <2>3
<1> QED BY <1>9, <1>10 DEF Ascending

(* Every finite set of numbers can be put in order: there is no least size  *)
(* for which it cannot.                                                     *)
LEMMA AscendingExists ==
  \A n \in Nat : \A Q \in SUBSET Nat :
    IsFiniteSet(Q) /\ Cardinality(Q) = n => Ascending(n, Q) # {}
<1> DEFINE Fits(n) == \A Q \in SUBSET Nat :
             IsFiniteSet(Q) /\ Cardinality(Q) = n => Ascending(n, Q) # {}
           Bad == {n \in Nat : ~Fits(n)}
<1>1. SUFFICES ASSUME Bad # {} PROVE FALSE
  OBVIOUS
<1>2. PICK n \in Bad : \A k \in Bad : n <= k
  BY <1>1, LeastNumber
<1>3. n # 0
  <2>1. SUFFICES ASSUME n = 0 PROVE Fits(0)
    BY <1>2
  <2>2. ASSUME NEW Q \in SUBSET Nat, IsFiniteSet(Q), Cardinality(Q) = 0
        PROVE  Ascending(0, Q) # {}
    <3>1. 1 .. 0 = {}
      OBVIOUS
    <3>2. [i \in 1 .. 0 |-> 0] \in Ascending(0, Q)
      BY <3>1 DEF Ascending
    <3> QED BY <3>2
  <2> QED BY <2>2
<1>4. n - 1 \in Nat /\ n - 1 < n
  BY <1>2, <1>3
<1>5. Fits(n - 1)
  BY <1>2, <1>4
<1>6. ASSUME NEW Q \in SUBSET Nat, IsFiniteSet(Q), Cardinality(Q) = n
      PROVE  Ascending(n, Q) # {}
  <2>1. (n - 1) + 1 = n
    BY <1>2
  <2> HIDE DEF Bad
  <2>2. Ascending((n - 1) + 1, Q) # {}
    BY <1>4, <1>5, <1>6, <2>1, AscendingStep
  <2> QED BY <2>1, <2>2
<1> QED BY <1>2, <1>6

(* InOrder lists the members of a finite set of numbers.                    *)
LEMMA InOrderLists ==
  ASSUME NEW Q \in SUBSET Nat, IsFiniteSet(Q)
  PROVE  /\ Cardinality(Q) \in Nat
         /\ InOrder(Q) \in [1 .. Cardinality(Q) -> Q]
         /\ \A q \in Q : \E i \in 1 .. Cardinality(Q) : InOrder(Q)[i] = q
<1> DEFINE n == Cardinality(Q)
           s == InOrder(Q)
<1>1. n \in Nat
  BY FS_CardinalityType
<1>2. Ascending(n, Q) # {}
  BY <1>1, AscendingExists
<1>3. s \in [1 .. n -> Q] /\ \A i, j \in 1 .. n : i < j => s[i] < s[j]
  BY <1>2 DEF InOrder, Ascending
<1> HIDE DEF s
<1>4. ASSUME NEW i \in 1 .. n, NEW j \in 1 .. n, s[i] = s[j]
      PROVE  i = j
  <2>1. s[i] \in Nat /\ s[j] \in Nat
    BY <1>3
  <2>2. ~(i < j) /\ ~(j < i)
    BY <1>3, <1>4, <2>1
  <2> QED BY <1>1, <2>2
<1>5. s \in Injection(1 .. n, Q)
  BY <1>3, <1>4 DEF Injection, IsInjective
<1>6. Cardinality(1 .. n) = n
  BY <1>1, FS_Interval
<1>7. s \in Surjection(1 .. n, Q)
  BY <1>5, <1>6, FS_Injection
<1> QED BY <1>1, <1>3, <1>7 DEF Surjection, s

-----------------------------------------------------------------------------
(* The cursor cache and the replay log *)

(* The cache's keys after a use of c: no other key is new.                  *)
LEMMA TouchedKeys ==
  ASSUME FeedAssumption, NEW c \in Conv, lru \in Seq(Conv)
  PROVE  /\ Touched(c) \in Seq(Conv) /\ Len(Touched(c)) <= CacheMax
         /\ ToSet(Touched(c)) \subseteq ToSet(lru) \cup {c}
<1> DEFINE K == ToSet(lru)
           at == CHOOSE i \in DOMAIN lru : lru[i] = c
           others == IF c \in K THEN RemoveAt(lru, at) ELSE lru
           keys == Append(others, c)
           over == IF Len(keys) > CacheMax THEN Len(keys) - CacheMax ELSE 0
<1>1. lru \in Seq(K) /\ K \subseteq Conv
  <2>1. K = Range(lru)
    BY DEF ToSet, Range
  <2> HIDE DEF K
  <2> QED BY <2>1, SeqOfRange, RangeOfSeq
<1>2. others \in Seq(K)
  <2>1. CASE c \in K
    <3>1. at \in 1 .. Len(lru)
      BY <2>1, LenProperties DEF ToSet
    <3>2. Len(lru) \in Nat
      BY <1>1
    <3> HIDE DEF at, K
    <3>3. SubSeq(lru, 1, at - 1) \in Seq(K)
      BY <1>1, <3>1, <3>2
    <3>4. SubSeq(lru, at + 1, Len(lru)) \in Seq(K)
      BY <1>1, <3>1, <3>2
    <3>5. RemoveAt(lru, at) \in Seq(K)
      BY <3>3, <3>4, ConcatProperties DEF RemoveAt
    <3> QED BY <2>1, <3>5
  <2>2. CASE c \notin K
    BY <2>2, <1>1
  <2> QED BY <2>1, <2>2
<1> HIDE DEF others
<1>3. keys \in Seq(K \cup {c}) /\ Len(keys) \in Nat
  <2>1. others \in Seq(K \cup {c})
    BY <1>2, SeqMonotonic
  <2> QED BY <2>1, AppendProperties
<1>4. Touched(c) = SubSeq(keys, over + 1, Len(keys))
  BY DEF Touched, others
<1> HIDE DEF keys
<1>5. CacheMax \in Nat \ {0}
  BY DEF FeedAssumption
<1>6. over \in 0 .. Len(keys) /\ Len(keys) - over <= CacheMax
  BY <1>3, <1>5
<1> HIDE DEF over
<1>7. \A i \in over + 1 .. Len(keys) : keys[i] \in K \cup {c}
  BY <1>3, <1>6, ElementOfSeq
<1>8. /\ SubSeq(keys, over + 1, Len(keys)) \in Seq(K \cup {c})
      /\ Len(SubSeq(keys, over + 1, Len(keys))) <= CacheMax
  BY <1>3, <1>6, <1>7, <1>5, SubSeqProperties
<1>9. \A s \in Seq(K \cup {c}) : ToSet(s) \subseteq K \cup {c}
  BY LenProperties DEF ToSet
<1>10. K \cup {c} \subseteq Conv
  BY <1>1
<1> QED BY <1>4, <1>8, <1>9, <1>10, SeqMonotonic

(* The entries of a conversation are finitely many: their numbers differ.   *)
LEMMA EntriesAreFinite ==
  ASSUME FeedAssumption, NEW E \in SUBSET Entry,
         \A x, y \in E : x.seq = y.seq => x = y
  PROVE  IsFiniteSet(E) /\ Cardinality(E) <= MaxSeq
<1> DEFINE f == [x \in E |-> x.seq]
<1>1. \A x \in E : x.seq \in 1 .. MaxSeq
  BY DEF Entry
<1>2. f \in Injection(E, 1 .. MaxSeq)
  BY <1>1 DEF Injection, IsInjective
<1>3. MaxSeq \in Nat
  BY DEF FeedAssumption
<1>4. IsFiniteSet(1 .. MaxSeq) /\ Cardinality(1 .. MaxSeq) = MaxSeq
  BY <1>3, FS_Interval
<1> HIDE DEF f
<1> QED BY <1>2, <1>4, FS_Injection

(* What is replayed is a tail of the log.                                   *)
LEMMA ReplayIsATail ==
  ASSUME FeedAssumption, TypeOK, NEW c \in Conv, NEW E \in SUBSET Entry,
         IsFiniteSet(E), NEW ack \in 0 .. MaxSeq
  PROVE  /\ Replayable(E, c, ack) \subseteq E
         /\ \A x \in Replayable(E, c, ack) : \A y \in E :
              x.seq <= y.seq => y \in Replayable(E, c, ack)
<1> DEFINE ok == {x \in E : x.seq > ack /\ x.seq > expired[c]}
           later(x) == {y \in ok : y.seq > x.seq}
<1>1. Replayable(E, c, ack) = {x \in ok : Cardinality(later(x)) < MaxFrames}
  BY DEF Replayable
<1>2. expired[c] \in 0 .. MaxSeq /\ MaxFrames \in Nat /\ MaxSeq \in Nat
  BY DEF TypeOK, FeedAssumption
<1>3. \A x \in E : x.seq \in Nat
  BY DEF Entry
<1>4. IsFiniteSet(ok)
  BY FS_Subset
<1>5. ASSUME NEW x \in ok, NEW y \in E, x.seq <= y.seq,
             Cardinality(later(x)) < MaxFrames
      PROVE  y \in ok /\ Cardinality(later(y)) < MaxFrames
  <2>1. y \in ok
    BY <1>2, <1>3, <1>5
  <2>2. later(y) \subseteq later(x)
    BY <1>3, <1>5
  <2>3. IsFiniteSet(later(x)) /\ IsFiniteSet(later(y))
    BY <1>4, FS_Subset
  <2>4. Cardinality(later(y)) <= Cardinality(later(x))
    BY <2>2, <2>3, FS_Subset
  <2>5. Cardinality(later(x)) \in Nat /\ Cardinality(later(y)) \in Nat
    BY <2>3, FS_CardinalityType
  <2> QED BY <2>1, <2>4, <2>5, <1>2, <1>5
<1> QED BY <1>1, <1>5

(* The cached state a use of c works on: its numbers are those on disk.     *)
State == [assigned : 0 .. MaxSeq, ack : 0 .. MaxSeq, appends : 0 .. CompactEvery]

LEMMA LoadedState ==
  ASSUME FeedAssumption, TypeOK, CacheAgrees, NEW c \in Conv
  PROVE  /\ Loaded(c) \in State
         /\ Loaded(c).assigned = sidecar[c].assigned
         /\ Loaded(c).ack = sidecar[c].ack
         /\ sidecar[c].assigned \in 0 .. MaxSeq /\ sidecar[c].ack \in 0 .. MaxSeq
<1>1. states[c] \in State /\ CompactEvery \in Nat \ {0}
  BY DEF TypeOK, State, FeedAssumption
<1>2. sidecar[c] \in [assigned : 0 .. MaxSeq, ack : 0 .. MaxSeq]
  BY DEF TypeOK
<1>3. CASE c \in ToSet(lru)
  <2>1. Loaded(c) = states[c]
    BY <1>3 DEF Loaded
  <2> QED BY <2>1, <1>1, <1>2, <1>3 DEF CacheAgrees
<1>4. CASE c \notin ToSet(lru)
  <2>1. Loaded(c) = [assigned |-> sidecar[c].assigned, ack |-> sidecar[c].ack,
                     appends |-> 0]
    BY <1>4 DEF Loaded
  <2>2. 0 \in 0 .. CompactEvery
    BY <1>1
  <2> QED BY <2>1, <2>2, <1>2 DEF State
<1> QED BY <1>3, <1>4

(* Keep() leaves a typed cache that agrees with a sidecar which has the     *)
(* numbers kept for c and is otherwise as it was.                           *)
LEMMA KeepAgrees ==
  ASSUME FeedAssumption, TypeOK, CacheAgrees, NEW c \in Conv, NEW st \in State,
         Keep(c, st),
         sidecar'[c].assigned = st.assigned, sidecar'[c].ack = st.ack,
         \A k \in Conv : k # c => sidecar'[k] = sidecar[k]
  PROVE  /\ lru' \in Seq(Conv) /\ Len(lru') <= CacheMax
         /\ states' \in [Conv -> State]
         /\ CacheAgrees'
<1>1. lru' = Touched(c) /\ lru \in Seq(Conv) /\ states \in [Conv -> State]
  BY DEF Keep, TypeOK, State
<1>2. states' = [k \in Conv |-> IF k = c THEN st
                       ELSE IF k \in ToSet(Touched(c)) THEN states[k] ELSE NoState]
  BY DEF Keep
<1>3. /\ lru' \in Seq(Conv) /\ Len(lru') <= CacheMax
      /\ ToSet(lru') \subseteq ToSet(lru) \cup {c}
  BY <1>1, TouchedKeys
<1>4. NoState \in State
  BY DEF NoState, State, FeedAssumption
<1>5. states' \in [Conv -> State]
  BY <1>1, <1>2, <1>4
<1>6. ASSUME NEW k \in Conv, k \in ToSet(lru')
      PROVE  states'[k].assigned = sidecar'[k].assigned
             /\ states'[k].ack = sidecar'[k].ack
  <2>1. CASE k = c
    BY <2>1, <1>2
  <2>2. CASE k # c
    <3>1. k \in ToSet(lru) /\ states'[k] = states[k]
      BY <2>2, <1>1, <1>2, <1>3, <1>6
    <3> QED BY <3>1, <2>2 DEF CacheAgrees
  <2> QED BY <2>1, <2>2
<1> QED BY <1>3, <1>5, <1>6 DEF CacheAgrees

(* Reading the state of c changes no number.                                *)
LEMMA LookUpAgrees ==
  ASSUME FeedAssumption, TypeOK, CacheAgrees, NEW c \in Conv,
         Keep(c, Loaded(c)), UNCHANGED sidecar
  PROVE  /\ lru' \in Seq(Conv) /\ Len(lru') <= CacheMax
         /\ states' \in [Conv -> State]
         /\ CacheAgrees'
<1>1. Loaded(c) \in State /\ Loaded(c).assigned = sidecar[c].assigned
      /\ Loaded(c).ack = sidecar[c].ack
  BY LoadedState
<1> DEFINE st == Loaded(c)
<1>2. st \in State /\ Keep(c, st) /\ sidecar'[c].assigned = st.assigned
      /\ sidecar'[c].ack = st.ack
  BY <1>1
<1>3. \A k \in Conv : k # c => sidecar'[k] = sidecar[k]
  OBVIOUS
<1> HIDE DEF st
<1> QED BY <1>2, <1>3, KeepAgrees

-----------------------------------------------------------------------------
(* What a stamp does *)

(* The entry a stamp of frame f adds to the feed of c.                      *)
EntryOf(c, f) == [seq |-> sidecar[c].assigned + 1, frame |-> f]

(* Its effect in terms of the disk: the counter moves to a new number, one  *)
(* entry is logged, or the log is compacted with it, and handed out.        *)
StampEffect(c, f, D) ==
  LET e == EntryOf(c, f) IN
    /\ e.seq \in 1 .. MaxSeq
    /\ sidecar' = [sidecar EXCEPT ![c] =
                     [assigned |-> e.seq, ack |-> sidecar[c].ack]]
    /\ stamped' = [stamped EXCEPT ![c] = @ \cup {e}]
    /\ \/ log' = [log EXCEPT ![c] = log[c] \cup {e}]
       \/ log' = [log EXCEPT ![c] =
                    Replayable(log[c] \cup {e}, c, sidecar[c].ack)]
    /\ wire' = FannedOut(c, FrameMsg(c, e.seq), D)
    /\ lru' \in Seq(Conv) /\ Len(lru') <= CacheMax
    /\ states' \in [Conv -> State]
    /\ CacheAgrees'

LEMMA StampDoes ==
  ASSUME FeedAssumption, TypeOK, CacheAgrees, NEW c \in Conv, NEW f \in Frame,
         NEW D \in SUBSET Device, Stamp(c, f, D)
  PROVE  StampEffect(c, f, D)
<1> DEFINE st == Loaded(c)
           q == st.assigned + 1
           e == [seq |-> q, frame |-> f]
           compact == st.appends + 1 >= CompactEvery
           new == [st EXCEPT !.assigned = q,
                             !.appends = IF compact THEN 0 ELSE @ + 1]
           grown == log[c] \cup {e}
<1>1. /\ q <= MaxSeq
      /\ WriteSidecar(c, new)
      /\ log' = [log EXCEPT ![c] =
                   IF compact THEN Replayable(grown, c, st.ack) ELSE grown]
      /\ Keep(c, new)
      /\ stamped' = [stamped EXCEPT ![c] = @ \cup {e}]
      /\ wire' = FannedOut(c, FrameMsg(c, q), D)
  BY DEF Stamp
<1>2. /\ st \in State /\ st.assigned = sidecar[c].assigned
      /\ st.ack = sidecar[c].ack /\ st.assigned \in 0 .. MaxSeq
  BY LoadedState
<1> HIDE DEF st
<1>3. MaxSeq \in Nat /\ CompactEvery \in Nat \ {0}
  BY DEF FeedAssumption
<1>4. /\ new.assigned = q /\ new.ack = st.ack /\ q \in 1 .. MaxSeq
      /\ new \in State
  <2>1. q \in 1 .. MaxSeq
    BY <1>1, <1>2, <1>3
  <2>2. q \in 0 .. MaxSeq
    BY <2>1
  <2> DEFINE m == IF compact THEN 0 ELSE st.appends + 1
  <2>3. m \in 0 .. CompactEvery
    BY <1>2, <1>3 DEF State
  <2>4. new = [assigned |-> q, ack |-> st.ack, appends |-> m]
    <3>1. new = [st EXCEPT !.assigned = q, !.appends = m]
      BY Zenon
    <3> HIDE DEF new, m, q
    <3> QED BY <3>1, <1>2 DEF State
  <2> HIDE DEF m, q
  <2> QED BY <2>1, <2>2, <2>3, <2>4, <1>2 DEF State
<1>5. e = EntryOf(c, f)
  BY <1>2 DEF EntryOf
<1>6. sidecar' = [sidecar EXCEPT ![c] =
                    [assigned |-> q, ack |-> sidecar[c].ack]]
  BY <1>1, <1>2, <1>4 DEF WriteSidecar
<1> HIDE DEF new, q
<1>7. /\ sidecar'[c].assigned = new.assigned /\ sidecar'[c].ack = new.ack
      /\ \A k \in Conv : k # c => sidecar'[k] = sidecar[k]
  BY <1>6, <1>4, <1>2 DEF TypeOK
<1>8. /\ lru' \in Seq(Conv) /\ Len(lru') <= CacheMax
      /\ states' \in [Conv -> State] /\ CacheAgrees'
  BY <1>1, <1>4, <1>7, KeepAgrees
<1>9. e.seq = q
  OBVIOUS
<1>10. \/ log' = [log EXCEPT ![c] = grown]
       \/ log' = [log EXCEPT ![c] = Replayable(grown, c, sidecar[c].ack)]
  BY <1>1, <1>2
<1> HIDE DEF e
<1> QED BY <1>1, <1>4, <1>5, <1>6, <1>8, <1>9, <1>10 DEF StampEffect

-----------------------------------------------------------------------------
(* The numbers and the log, step by step *)

(* A stamp appends to the feed of c and leaves the rest.                    *)
LEMMA StampKeepsCursors ==
  ASSUME FeedAssumption, CursorInv, NEW c \in Conv, NEW f \in Frame,
         NEW D \in SUBSET Device, StampEffect(c, f, D)
  PROVE  /\ sidecar' \in [Conv -> [assigned : 0 .. MaxSeq, ack : 0 .. MaxSeq]]
         /\ log' \in [Conv -> SUBSET Entry]
         /\ stamped' \in [Conv -> SUBSET Entry]
         /\ EntryOf(c, f) \in Entry
         /\ \A k \in Conv : sidecar[k].assigned <= sidecar'[k].assigned
         /\ NumbersAreAssigned' /\ LogIsATail'
<1> DEFINE e == EntryOf(c, f)
           grown == log[c] \cup {e}
           ack == sidecar[c].ack
<1>1. /\ TypeOK /\ NumbersAreAssigned /\ LogIsATail
      /\ sidecar[c].assigned \in 0 .. MaxSeq /\ ack \in 0 .. MaxSeq
  BY DEF CursorInv, TypeOK
<1>2. MaxSeq \in Nat
  BY DEF FeedAssumption
<1>3. e \in Entry /\ e.seq = sidecar[c].assigned + 1
  BY DEF StampEffect, EntryOf, Entry
<1>4. /\ sidecar' = [sidecar EXCEPT ![c] = [assigned |-> e.seq, ack |-> ack]]
      /\ stamped' = [stamped EXCEPT ![c] = stamped[c] \cup {e}]
      /\ \/ log' = [log EXCEPT ![c] = grown]
         \/ log' = [log EXCEPT ![c] = Replayable(grown, c, ack)]
      /\ e.seq \in 1 .. MaxSeq
  BY DEF StampEffect
<1> HIDE DEF e
<1>5. /\ sidecar \in [Conv -> [assigned : 0 .. MaxSeq, ack : 0 .. MaxSeq]]
      /\ log \in [Conv -> SUBSET Entry] /\ stamped \in [Conv -> SUBSET Entry]
  BY <1>1 DEF TypeOK
<1>6. sidecar' \in [Conv -> [assigned : 0 .. MaxSeq, ack : 0 .. MaxSeq]]
  <2>1. [assigned |-> e.seq, ack |-> ack]
          \in [assigned : 0 .. MaxSeq, ack : 0 .. MaxSeq]
    BY <1>1, <1>4
  <2> QED BY <2>1, <1>4, <1>5
<1>7. stamped' \in [Conv -> SUBSET Entry]
  BY <1>3, <1>4, <1>5
<1>8. /\ sidecar'[c].assigned = e.seq
      /\ \A k \in Conv \ {c} : sidecar'[k] = sidecar[k]
      /\ stamped'[c] = stamped[c] \cup {e}
      /\ \A k \in Conv \ {c} : stamped'[k] = stamped[k] /\ log'[k] = log[k]
      /\ log'[c] = grown \/ log'[c] = Replayable(grown, c, ack)
  BY <1>4, <1>5
<1>9. \A x \in stamped[c] : x.seq \in Nat /\ x.seq < e.seq
  <2>1. \A x \in stamped[c] : x.seq \in Nat /\ x.seq <= sidecar[c].assigned
    BY <1>1, <1>5 DEF NumbersAreAssigned, Entry
  <2> QED BY <2>1, <1>1, <1>3
<1>10. \A k \in Conv : sidecar[k].assigned <= sidecar'[k].assigned
  <2>1. \A k \in Conv : sidecar[k].assigned \in Nat
    BY <1>5
  <2> QED BY <2>1, <1>1, <1>3, <1>8
<1>11. NumbersAreAssigned'
  <2>1. ASSUME NEW k \in Conv, NEW x \in stamped'[k]
        PROVE  /\ x.seq <= sidecar'[k].assigned
               /\ \A y \in stamped'[k] : x.seq = y.seq => x = y
    <3>1. CASE k # c
      BY <3>1, <2>1, <1>1, <1>8 DEF NumbersAreAssigned
    <3>2. CASE k = c
      <4>1. x.seq <= e.seq
        BY <3>2, <2>1, <1>8, <1>9, <1>4
      <4>2. ASSUME NEW y \in stamped'[c], x.seq = y.seq PROVE x = y
        <5>1. CASE x = e
          BY <5>1, <4>2, <1>8, <1>9, <1>4
        <5>2. CASE x \in stamped[c]
          BY <5>2, <4>2, <1>1, <1>8, <1>9, <1>4 DEF NumbersAreAssigned
        <5> QED BY <5>1, <5>2, <3>2, <2>1, <1>8
      <4> QED BY <4>1, <4>2, <3>2, <1>8
    <3> QED BY <3>1, <3>2
  <2> QED BY <2>1 DEF NumbersAreAssigned
<1>12. grown \subseteq stamped'[c] /\ grown \in SUBSET Entry
  BY <1>1, <1>3, <1>5, <1>8 DEF LogIsATail
<1>13. \A x \in grown : \A y \in stamped'[c] : x.seq <= y.seq => y \in grown
  <2>1. ASSUME NEW x \in grown, NEW y \in stamped'[c], x.seq <= y.seq, y # e
        PROVE  y \in grown
    <3>1. y \in stamped[c] /\ y.seq < e.seq /\ y.seq \in Nat
      BY <2>1, <1>8, <1>9
    <3>2. x # e
      BY <3>1, <2>1, <1>4
    <3> QED BY <3>1, <3>2, <2>1, <1>1 DEF LogIsATail
  <2> QED BY <2>1
<1>14. /\ Replayable(grown, c, ack) \subseteq grown
       /\ \A x \in Replayable(grown, c, ack) : \A y \in grown :
            x.seq <= y.seq => y \in Replayable(grown, c, ack)
  <2>1. \A x, y \in grown : x.seq = y.seq => x = y
    BY <1>11, <1>12 DEF NumbersAreAssigned
  <2>2. IsFiniteSet(grown)
    BY <2>1, <1>12, EntriesAreFinite
  <2> HIDE DEF grown
  <2> QED BY <2>2, <1>1, <1>12, ReplayIsATail
<1> HIDE DEF grown
<1>15. /\ log'[c] \subseteq grown
       /\ \A x \in log'[c] : \A y \in grown : x.seq <= y.seq => y \in log'[c]
  BY <1>8, <1>14
<1>16. LogIsATail'
  <2>1. ASSUME NEW k \in Conv
        PROVE  /\ log'[k] \subseteq stamped'[k]
               /\ \A x \in log'[k] : \A y \in stamped'[k] :
                    x.seq <= y.seq => y \in log'[k]
    <3>1. CASE k # c
      BY <3>1, <1>1, <1>8 DEF LogIsATail
    <3>2. CASE k = c
      BY <3>2, <1>12, <1>13, <1>15
    <3> QED BY <3>1, <3>2
  <2> QED BY <2>1 DEF LogIsATail
<1>17. log' \in [Conv -> SUBSET Entry]
  BY <1>4, <1>5, <1>12, <1>14
<1> QED BY <1>3, <1>6, <1>7, <1>10, <1>11, <1>16, <1>17 DEF e

-----------------------------------------------------------------------------
(* What a resume answers *)

(* Message m takes a reader of c to number q.                               *)
Brings(m, c, q) ==
  /\ m.conv = c
  /\ m = FrameMsg(c, q) \/ (m.type = "cursor_expired" /\ m.seq >= q)

(* The answer holds frames of c only, and every frame after the client's    *)
(* number, or word that it is too old.                                      *)
LEMMA ReplyIsComplete ==
  ASSUME FeedAssumption, CursorInv, NEW c \in Conv, NEW after \in 0 .. MaxSeq
  PROVE  /\ ResumeReply(c, after) \in Seq(Message)
         /\ \A i \in 1 .. Len(ResumeReply(c, after)) :
              LET m == ResumeReply(c, after)[i]
              IN m.conv = c /\ m.type # "subscribed"
                 /\ m.seq <= sidecar[c].assigned
         /\ \A x \in stamped[c] :
              x.seq <= after \/
              \E i \in 1 .. Len(ResumeReply(c, after)) :
                Brings(ResumeReply(c, after)[i], c, x.seq)
<1> DEFINE A == sidecar[c].assigned
           replay == Replayable(log[c], c, Loaded(c).ack)
           missed == {q \in {x.seq : x \in replay} : q > after}
<1>1. /\ Loaded(c).assigned = A /\ Loaded(c).ack \in 0 .. MaxSeq
      /\ A \in 0 .. MaxSeq
  BY LoadedState DEF CursorInv
<1>2. /\ stamped[c] \in SUBSET Entry /\ log[c] \in SUBSET Entry
      /\ log[c] \subseteq stamped[c] /\ MaxSeq \in Nat /\ TypeOK
  BY DEF CursorInv, TypeOK, LogIsATail, FeedAssumption
<1>3. \A x, y \in stamped[c] : x.seq = y.seq => x = y
  BY DEF CursorInv, NumbersAreAssigned
<1>4. \A x \in stamped[c] : x.seq \in 1 .. MaxSeq /\ x.seq <= A
  BY <1>2 DEF CursorInv, NumbersAreAssigned, Entry
<1>5. IsFiniteSet(log[c])
  BY <1>2, <1>3, EntriesAreFinite
<1>6. /\ replay \subseteq log[c]
      /\ \A x \in replay : \A y \in log[c] : x.seq <= y.seq => y \in replay
  BY <1>1, <1>2, <1>5, ReplayIsATail
<1>7. CASE CursorExpired(c, after)
  <2> DEFINE m == [type |-> "cursor_expired", conv |-> c, seq |-> A]
  <2>1. ResumeReply(c, after) = <<m>>
    BY <1>1, <1>7 DEF ResumeReply
  <2>2. m \in Message
    BY <1>1 DEF Message
  <2>3. m.conv = c /\ m.type = "cursor_expired" /\ m.seq = A
    OBVIOUS
  <2> HIDE DEF m
  <2>4. <<m>> \in Seq(Message) /\ Len(<<m>>) = 1 /\ <<m>>[1] = m
    BY <2>2
  <2>5. \A x \in stamped[c] : Brings(m, c, x.seq)
    BY <2>3, <1>1, <1>4 DEF Brings
  <2> HIDE DEF A
  <2>6. \A i \in 1 .. Len(<<m>>) : i = 1 /\ <<m>>[i] = m
    BY <2>4
  <2>7. A <= A
    BY <1>1 DEF A
  <2>8. 1 \in 1 .. Len(<<m>>)
    BY <2>4
  <2> QED BY <2>1, <2>3, <2>4, <2>5, <2>6, <2>7, <2>8 DEF A
<1>8. CASE ~CursorExpired(c, after)
  <2> DEFINE n == Cardinality(missed)
             r == [i \in 1 .. n |-> FrameMsg(c, InOrder(missed)[i])]
  <2>1. ResumeReply(c, after) = r
    BY <1>8 DEF ResumeReply
  <2>2. missed \in SUBSET Nat /\ IsFiniteSet(missed)
        /\ \A q \in missed : q \in 1 .. MaxSeq /\ q <= A
    <3>1. \A q \in missed : q \in 1 .. MaxSeq /\ q <= A
      BY <1>2, <1>4, <1>6
    <3>2. missed \subseteq 1 .. MaxSeq
      BY <3>1
    <3>3. 1 \in Int /\ MaxSeq \in Int
      BY <1>2
    <3>4. IsFiniteSet(1 .. MaxSeq)
      BY <3>3, FS_Interval
    <3> HIDE DEF missed
    <3>5. missed \in SUBSET (1 .. MaxSeq)
      BY <3>2
    <3>6. IsFiniteSet(missed)
      BY <3>4, <3>5, FS_Subset
    <3> QED BY <3>1, <3>2, <3>6
  <2>3. /\ n \in Nat /\ InOrder(missed) \in [1 .. n -> missed]
        /\ \A q \in missed : \E i \in 1 .. n : InOrder(missed)[i] = q
    <3> HIDE DEF missed
    <3> QED BY <2>2, InOrderLists
  <2>4. \A x \in stamped[c] : x.seq > after => x.seq \in missed
    <3>1. SUFFICES ASSUME NEW x \in stamped[c], x.seq > after
                   PROVE  x \in replay
      BY DEF missed
    <3>2. after < A
      BY <3>1, <1>1, <1>4
    <3>3. PICK y \in replay : ~(after + 1 < y.seq)
      BY <3>2, <1>1, <1>8 DEF CursorExpired
    <3>4. y \in log[c] /\ y \in stamped[c]
      BY <3>3, <1>2, <1>6
    <3>5. y.seq <= x.seq
      BY <3>1, <3>3, <3>4, <1>4
    <3>6. x \in log[c]
      BY <3>4, <3>5, <3>1 DEF CursorInv, LogIsATail
    <3> QED BY <3>3, <3>5, <3>6, <1>6
  <2> HIDE DEF missed, n
  <2>5. \A i \in 1 .. n : r[i] = FrameMsg(c, InOrder(missed)[i])
                          /\ InOrder(missed)[i] \in missed
    BY <2>3
  <2>6. \A i \in 1 .. n : r[i] \in Message /\ r[i].conv = c
                          /\ r[i].type # "subscribed" /\ r[i].seq <= A
    BY <2>2, <2>5 DEF FrameMsg, Message
  <2>7. r \in Seq(Message) /\ Len(r) = n
    BY <2>3, <2>6
  <2>8. \A x \in stamped[c] : x.seq > after =>
          \E i \in 1 .. n : Brings(r[i], c, x.seq)
    <3>1. SUFFICES ASSUME NEW x \in stamped[c], x.seq > after
                   PROVE  \E i \in 1 .. n : Brings(r[i], c, x.seq)
      OBVIOUS
    <3>2. PICK i \in 1 .. n : InOrder(missed)[i] = x.seq
      BY <3>1, <2>3, <2>4
    <3>3. r[i] = FrameMsg(c, x.seq)
      BY <3>2, <2>5
    <3>4. FrameMsg(c, x.seq).conv = c
      BY DEF FrameMsg
    <3>5. Brings(r[i], c, x.seq)
      BY <3>3, <3>4 DEF Brings
    <3> QED BY <3>5
  <2>9. \A x \in stamped[c] : x.seq <= after \/ x.seq > after
    BY <1>2, <1>4
  <2> HIDE DEF r, A
  <2> QED BY <2>1, <2>6, <2>7, <2>8, <2>9 DEF A
<1> QED BY <1>7, <1>8

-----------------------------------------------------------------------------
(* The connections, one device at a time *)

SubsOK(d) ==
  /\ d \in ready \/ subs[d] = {}
  /\ fed[d] \subseteq subs[d]
  /\ \A i \in 1 .. Len(wire[d]) :
       wire[d][i].type = "subscribed" => wire[d][i].conv \in subs[d]
AssignedOK(d) ==
  \A i \in 1 .. Len(wire[d]) :
    wire[d][i].seq <= sidecar[wire[d][i].conv].assigned
BroughtOK(d) ==
  \A c \in subs[d] : \A x \in stamped[c] :
    x.seq <= cursor[d][c] \/
    \E i \in 1 .. Len(wire[d]) : Brings(wire[d][i], c, x.seq)
Unjumped(d, i) ==
  LET m == wire[d][i] IN
    m.type # "subscribed" /\ FollowsAt(d, i, m.conv) =>
      \A x \in stamped[m.conv] :
        x.seq < m.seq => \/ x.seq <= cursor[d][m.conv]
                         \/ \E j \in 1 .. i - 1 : Moving(d, j, m.conv, x.seq)
OrderOK(d) == \A i \in 1 .. Len(wire[d]) : Unjumped(d, i)
DeviceOK(d) == SubsOK(d) /\ AssignedOK(d) /\ BroughtOK(d) /\ OrderOK(d)

LEMMA WireInvByDevice ==
  ready \in SUBSET Device => (WireInv <=> \A d \in Device : DeviceOK(d))
<1> SUFFICES ASSUME ready \in SUBSET Device
             PROVE  WireInv <=> \A d \in Device : DeviceOK(d)
  OBVIOUS
<1>1. FollowersSubscribed <=> \A d \in Device : SubsOK(d)
  BY DEF FollowersSubscribed, SubsOK
<1>2. WireIsAssigned <=> \A d \in Device : AssignedOK(d)
  BY DEF WireIsAssigned, AssignedOK
<1>3. NothingIsJumped <=> \A d \in Device : OrderOK(d)
  BY DEF NothingIsJumped, OrderOK, Unjumped
<1>4. ASSUME \A d \in Device : SubsOK(d)
      PROVE  NothingFallsBetween <=> \A d \in Device : BroughtOK(d)
  <2>1. \A d \in Device : d \in ready \/ subs[d] = {}
    BY <1>4 DEF SubsOK
  <2>2. ASSUME NothingFallsBetween, NEW d \in Device PROVE BroughtOK(d)
    <3>1. CASE d \in ready
      BY <3>1, <2>2 DEF NothingFallsBetween, BroughtOK, Brings
    <3>2. CASE subs[d] = {}
      BY <3>2 DEF BroughtOK
    <3> QED BY <3>1, <3>2, <2>1
  <2>3. ASSUME \A d \in Device : BroughtOK(d)
        PROVE  NothingFallsBetween
    BY <2>3 DEF NothingFallsBetween, BroughtOK, Brings
  <2> QED BY <2>2, <2>3
<1> QED BY <1>1, <1>2, <1>3, <1>4 DEF WireInv, DeviceOK

LEMMA WireInvByDeviceNext ==
  (ready \in SUBSET Device => (WireInv <=> \A d \in Device : DeviceOK(d)))'
BY WireInvByDevice, PTL

(* Messages s are put on the connection of d: conversation_subscribed last  *)
(* if at all, no number that is not assigned, nothing above a frame that is *)
(* new, and all that d lacks of what it follows now.                        *)
LEMMA AppendKeeps ==
  ASSUME FeedAssumption, TypeOK, NEW d \in Device, DeviceOK(d),
         NEW s \in Seq(Message), wire'[d] = wire[d] \o s,
         UNCHANGED <<fed, cursor>>,
         d \in ready' \/ subs'[d] = {}, subs[d] \subseteq subs'[d],
         \A i \in 1 .. Len(s) : s[i].type = "subscribed" =>
           i = Len(s) /\ s[i].conv \in subs'[d],
         \A i \in 1 .. Len(s) : s[i].seq <= sidecar'[s[i].conv].assigned,
         sidecar' \in [Conv -> [assigned : 0 .. MaxSeq, ack : 0 .. MaxSeq]],
         \A c \in Conv : sidecar[c].assigned <= sidecar'[c].assigned,
         stamped' \in [Conv -> SUBSET Entry],
         \A c \in Conv : \A x \in stamped'[c] : x \in stamped[c] \/
           /\ x.seq > sidecar[c].assigned
           /\ \A i \in 1 .. Len(s) : s[i].conv = c => s[i].seq <= x.seq,
         \A c \in subs'[d] : \A x \in stamped'[c] :
           \/ c \in subs[d] /\ x \in stamped[c]
           \/ x.seq <= cursor[d][c]
           \/ \E i \in 1 .. Len(s) : Brings(s[i], c, x.seq)
  PROVE  DeviceOK(d)'
<1> DEFINE w == wire[d]
           v == wire'[d]
<1>1. w \in Seq(Message) /\ Len(w) \in Nat /\ Len(s) \in Nat
  BY LenProperties DEF TypeOK
<1>2. /\ Len(v) = Len(w) + Len(s)
      /\ \A i \in 1 .. Len(w) : v[i] = w[i]
      /\ \A i \in 1 .. Len(s) : v[Len(w) + i] = s[i]
  BY <1>1, ConcatProperties
<1>3. \A i \in 1 .. Len(v) :
        i \in 1 .. Len(w) \/ \E k \in 1 .. Len(s) : i = Len(w) + k
  <2>1. SUFFICES ASSUME NEW i \in 1 .. Len(v), i \notin 1 .. Len(w)
                 PROVE  \E k \in 1 .. Len(s) : i = Len(w) + k
    OBVIOUS
  <2> HIDE DEF v, w
  <2>2. i - Len(w) \in 1 .. Len(s) /\ i = Len(w) + (i - Len(w))
    BY <2>1, <1>1, <1>2
  <2> QED BY <2>2
<1>4. \A i \in 1 .. Len(w) : w[i] \in Message /\ w[i].conv \in Conv
                             /\ w[i].seq \in 0 .. MaxSeq
  <2>1. \A m \in Message : m.conv \in Conv /\ m.seq \in 0 .. MaxSeq
    BY DEF Message
  <2> QED BY <2>1, <1>1, ElementOfSeq
<1>5. \A i \in 1 .. Len(s) : s[i].conv \in Conv /\ s[i].seq \in 0 .. MaxSeq
  <2>1. \A m \in Message : m.conv \in Conv /\ m.seq \in 0 .. MaxSeq
    BY DEF Message
  <2> QED BY <2>1, ElementOfSeq
<1>6. \A c \in Conv : /\ sidecar[c].assigned \in Nat
                      /\ sidecar'[c].assigned \in Nat
                      /\ cursor[d][c] \in Nat
                      /\ \A x \in stamped'[c] : x.seq \in Nat
  BY DEF TypeOK, Entry
<1>7. SubsOK(d) /\ AssignedOK(d) /\ BroughtOK(d) /\ OrderOK(d)
  BY DEF DeviceOK
<1>8. subs[d] \subseteq Conv /\ fed' = fed /\ cursor' = cursor
  BY DEF TypeOK
<1> HIDE DEF w, v
<1>9. SubsOK(d)'
  <2>1. fed'[d] \subseteq subs'[d]
    BY <1>7, <1>8 DEF SubsOK
  <2>2. \A i \in 1 .. Len(v) : v[i].type = "subscribed" => v[i].conv \in subs'[d]
    <3>1. \A i \in 1 .. Len(w) :
            w[i].type = "subscribed" => w[i].conv \in subs[d]
      BY <1>7 DEF SubsOK, w
    <3>2. SUFFICES ASSUME NEW i \in 1 .. Len(v), v[i].type = "subscribed"
                   PROVE  v[i].conv \in subs'[d]
      OBVIOUS
    <3>3. CASE i \in 1 .. Len(w)
      BY <3>1, <3>2, <3>3, <1>2
    <3>4. CASE \E k \in 1 .. Len(s) : i = Len(w) + k
      BY <3>2, <3>4, <1>2
    <3> QED BY <3>3, <3>4, <1>3
  <2> QED BY <2>1, <2>2 DEF SubsOK, v
<1>10. AssignedOK(d)'
  <2>1. \A i \in 1 .. Len(w) : w[i].seq <= sidecar[w[i].conv].assigned
    BY <1>7 DEF AssignedOK, w
  <2>2. SUFFICES ASSUME NEW i \in 1 .. Len(v)
                 PROVE  v[i].seq <= sidecar'[v[i].conv].assigned
    BY DEF AssignedOK, v
  <2>3. CASE i \in 1 .. Len(w)
    <3>1. v[i] = w[i] /\ w[i].conv \in Conv /\ w[i].seq \in 0 .. MaxSeq
      BY <2>3, <1>2, <1>4
    <3>2. sidecar[w[i].conv].assigned <= sidecar'[w[i].conv].assigned
      BY <3>1
    <3> QED BY <3>1, <3>2, <2>1, <2>3, <1>6
  <2>4. CASE \E k \in 1 .. Len(s) : i = Len(w) + k
    BY <2>4, <1>2
  <2> QED BY <2>3, <2>4, <1>3
<1>11. ASSUME NEW c \in subs[d], NEW x \in stamped[c],
              ~(x.seq <= cursor[d][c])
       PROVE  \E i \in 1 .. Len(w) : Brings(w[i], c, x.seq)
  BY <1>7, <1>11 DEF BroughtOK, w
<1>12. BroughtOK(d)'
  <2>1. SUFFICES ASSUME NEW c \in subs'[d], NEW x \in stamped'[c],
                        ~(x.seq <= cursor[d][c])
                 PROVE  \E i \in 1 .. Len(v) : Brings(v[i], c, x.seq)
    BY <1>8 DEF BroughtOK, v
  <2>2. CASE c \in subs[d] /\ x \in stamped[c]
    <3>1. PICK i \in 1 .. Len(w) : Brings(w[i], c, x.seq)
      BY <2>1, <2>2, <1>11
    <3>2. i \in 1 .. Len(v) /\ v[i] = w[i]
      BY <1>1, <1>2
    <3> QED BY <3>1, <3>2
  <2>3. CASE \E i \in 1 .. Len(s) : Brings(s[i], c, x.seq)
    <3>1. PICK i \in 1 .. Len(s) : Brings(s[i], c, x.seq)
      BY <2>3
    <3>2. Len(w) + i \in 1 .. Len(v) /\ v[Len(w) + i] = s[i]
      BY <1>1, <1>2
    <3> QED BY <3>1, <3>2
  <2> QED BY <2>1, <2>2, <2>3
<1>13. OrderOK(d)'
  <2> SUFFICES ASSUME NEW i \in 1 .. Len(v), v[i].type # "subscribed",
                      \/ v[i].conv \in fed[d]
                      \/ \E k \in 1 .. i - 1 : /\ v[k].type = "subscribed"
                                                /\ v[k].conv = v[i].conv,
                      NEW x \in stamped'[v[i].conv], x.seq < v[i].seq,
                      ~(x.seq <= cursor[d][v[i].conv])
               PROVE  \E j \in 1 .. i - 1 :
                        /\ v[j].conv = v[i].conv /\ v[j].type # "subscribed"
                        /\ x.seq <= v[j].seq
    BY <1>8 DEF OrderOK, Unjumped, Moving, FollowsAt, v
  <2> DEFINE c == v[i].conv
  <2>1. CASE i \in 1 .. Len(w)
    <3>1. v[i] = w[i] /\ c \in Conv /\ w[i].seq <= sidecar[c].assigned
          /\ \A k \in 1 .. i - 1 : k \in 1 .. Len(w) /\ v[k] = w[k]
      BY <2>1, <1>1, <1>2, <1>4, <1>7 DEF AssignedOK, w
    <3>2. FollowsAt(d, i, w[i].conv)
      BY <3>1 DEF FollowsAt, w
    <3>3. x.seq <= sidecar[c].assigned
      BY <3>1, <1>4, <1>6, <2>1
    <3>4. x \in stamped[c]
      BY <3>1, <3>3, <1>6
    <3>5. \E j \in 1 .. i - 1 : Moving(d, j, w[i].conv, x.seq)
      BY <3>1, <3>2, <3>4, <2>1, <1>7 DEF OrderOK, Unjumped, w
    <3> QED BY <3>1, <3>5 DEF Moving, w
  <2>2. CASE \E k \in 1 .. Len(s) : i = Len(w) + k
    <3>1. PICK k \in 1 .. Len(s) : i = Len(w) + k
      BY <2>2
    <3>2. v[i] = s[k] /\ c \in Conv /\ s[k].seq \in 0 .. MaxSeq
      BY <3>1, <1>2, <1>5
    <3>3. \A j \in 1 .. k - 1 : v[Len(w) + j].type # "subscribed"
      <4>1. SUFFICES ASSUME NEW j \in 1 .. k - 1,
                            v[Len(w) + j].type = "subscribed"
                     PROVE  FALSE
        OBVIOUS
      <4>2. j \in 1 .. Len(s) /\ j # Len(s)
        BY <1>1
      <4> QED BY <4>1, <4>2, <1>2
    <3>4. c \in subs[d]
      <4>1. CASE c \in fed[d]
        BY <4>1, <1>7 DEF SubsOK
      <4>2. CASE c \notin fed[d]
        <5>1. PICK j \in 1 .. i - 1 :
                     v[j].type = "subscribed" /\ v[j].conv = c
          BY <4>2
        <5>2. j \in 1 .. Len(w)
          <6>1. CASE j > Len(w)
            <7>1. j - Len(w) \in 1 .. k - 1 /\ j = Len(w) + (j - Len(w))
              BY <6>1, <3>1, <1>1
            <7> QED BY <7>1, <3>3, <5>1
          <6>2. CASE ~(j > Len(w))
            BY <6>2, <1>1
          <6> QED BY <6>1, <6>2
        <5>3. w[j].type = "subscribed" /\ w[j].conv = c
          BY <5>1, <5>2, <1>2
        <5> QED BY <5>2, <5>3, <1>7 DEF SubsOK, w
      <4> QED BY <4>1, <4>2
    <3>5. x \in stamped[c]
      <4>1. ASSUME x \notin stamped[c] PROVE s[k].seq <= x.seq
        BY <4>1, <3>2
      <4>2. x.seq \in Nat
        BY <3>2, <1>6
      <4> QED BY <4>1, <4>2, <3>2
    <3>6. PICK j \in 1 .. Len(w) : Brings(w[j], c, x.seq)
      BY <3>4, <3>5, <1>11
    <3>7. w[j].conv = c /\ w[j].type # "subscribed" /\ x.seq <= w[j].seq
      <4>1. x.seq <= x.seq
        BY <3>2, <1>6
      <4> QED BY <3>6, <4>1, <1>4, <3>2, <1>6 DEF Brings, FrameMsg
    <3>8. j \in 1 .. i - 1 /\ v[j] = w[j]
      BY <3>1, <1>1, <1>2
    <3> QED BY <3>7, <3>8
  <2> QED BY <2>1, <2>2, <1>3
<1> QED BY <1>9, <1>10, <1>12, <1>13 DEF DeviceOK

(* Nothing happens on the connection of d, or to its session.               *)
LEMMA IdleKeeps ==
  ASSUME FeedAssumption, TypeOK, NEW d \in Device, DeviceOK(d),
         wire'[d] = wire[d], subs'[d] = subs[d], UNCHANGED <<fed, cursor>>,
         d \in ready' \/ subs'[d] = {},
         sidecar' \in [Conv -> [assigned : 0 .. MaxSeq, ack : 0 .. MaxSeq]],
         \A c \in Conv : sidecar[c].assigned <= sidecar'[c].assigned,
         UNCHANGED stamped
  PROVE  DeviceOK(d)'
<1> DEFINE s == <<>>
<1>1. wire[d] \in Seq(Message) /\ s \in Seq(Message) /\ Len(s) = 0
  BY DEF TypeOK
<1>2. wire'[d] = wire[d] \o s
  BY <1>1, ConcatEmptySeq
<1>3. 1 .. Len(s) = {}
  BY <1>1
<1>4. subs[d] \subseteq subs'[d]
  OBVIOUS
<1>5. /\ \A i \in 1 .. Len(s) : s[i].type = "subscribed" =>
           i = Len(s) /\ s[i].conv \in subs'[d]
      /\ \A i \in 1 .. Len(s) : s[i].seq <= sidecar'[s[i].conv].assigned
  BY <1>3
<1>6. /\ stamped' \in [Conv -> SUBSET Entry]
      /\ \A c \in Conv : \A x \in stamped'[c] : x \in stamped[c]
      /\ \A c \in subs'[d] : \A x \in stamped'[c] :
           c \in subs[d] /\ x \in stamped[c]
  BY DEF TypeOK
<1> HIDE DEF s
<1> QED BY <1>1, <1>2, <1>4, <1>5, <1>6, AppendKeeps

(* A device without a session or a connection expects nothing.              *)
LEMMA CutOffKeeps ==
  ASSUME NEW d \in Device, subs'[d] = {}, fed'[d] = {}, wire'[d] = <<>>
  PROVE  DeviceOK(d)'
<1>1. Len(wire'[d]) = 0
  OBVIOUS
<1>2. 1 .. Len(wire'[d]) = {}
  BY <1>1
<1> QED BY <1>2 DEF DeviceOK, SubsOK, AssignedOK, BroughtOK, OrderOK

(* An unsubscribe with no confirmation under way.                           *)
LEMMA UnsubscribeKeeps ==
  ASSUME TypeOK, NEW d \in Device, NEW c \in Conv, DeviceOK(d), Settled(d, c),
         subs'[d] = subs[d] \ {c}, fed'[d] = fed[d] \ {c},
         UNCHANGED <<ready, sidecar, wire, cursor, stamped>>
  PROVE  DeviceOK(d)'
<1>1. SubsOK(d) /\ AssignedOK(d) /\ BroughtOK(d) /\ OrderOK(d)
  BY DEF DeviceOK
<1>2. SubsOK(d)'
  BY <1>1 DEF SubsOK, Settled
<1>3. AssignedOK(d)'
  BY <1>1 DEF AssignedOK
<1>4. BroughtOK(d)'
  BY <1>1 DEF BroughtOK
<1>5. OrderOK(d)'
  <2>1. SUFFICES ASSUME NEW i \in 1 .. Len(wire[d]) PROVE Unjumped(d, i)'
    BY DEF OrderOK
  <2>2. Unjumped(d, i)
    BY <1>1 DEF OrderOK
  <2>3. FollowsAt(d, i, wire[d][i].conv)' => FollowsAt(d, i, wire[d][i].conv)
    BY DEF FollowsAt
  <2>4. \A j, q : Moving(d, j, wire[d][i].conv, q)'
                    <=> Moving(d, j, wire[d][i].conv, q)
    BY DEF Moving
  <2> QED BY <2>2, <2>3, <2>4 DEF Unjumped
<1> QED BY <1>2, <1>3, <1>4, <1>5 DEF DeviceOK

(* The client reads the head of its connection.                             *)
LEMMA ReadKeeps ==
  ASSUME FeedAssumption, TypeOK, NEW d \in Device, DeviceOK(d), Read(d)
  PROVE  DeviceOK(d)'
<1> DEFINE w == wire[d]
           v == wire'[d]
           m == Head(w)
<1>1. w \in Seq(Message) /\ w # <<>> /\ v = Tail(w) /\ m = w[1]
  BY DEF Read, TypeOK
<1>2. Len(w) \in Nat \ {0} /\ Len(v) = Len(w) - 1 /\ m \in Message
      /\ \A i \in 1 .. Len(v) : v[i] = w[i + 1] /\ i + 1 \in 1 .. Len(w)
  BY <1>1, HeadTailProperties, EmptySeq
<1>3. \A i \in 1 .. Len(w) : w[i].conv \in Conv /\ w[i].seq \in Nat
  <2>1. \A n \in Message : n.conv \in Conv /\ n.seq \in Nat
    BY DEF Message
  <2> QED BY <2>1, <1>1, ElementOfSeq
<1>4. /\ UNCHANGED <<ready, subs, sidecar, stamped>>
      /\ IF m.type = "subscribed"
         THEN /\ fed' = [fed EXCEPT ![d] = @ \cup {m.conv}]
              /\ UNCHANGED cursor
         ELSE /\ cursor' = [cursor EXCEPT ![d][m.conv] =
                              IF m.seq > @ THEN m.seq ELSE @]
              /\ UNCHANGED fed
  BY DEF Read, disk, sessionVars
<1>5. /\ cursor \in [Device -> [Conv -> 0 .. MaxSeq]]
      /\ fed \in [Device -> SUBSET Conv] /\ subs[d] \subseteq Conv
      /\ \A c \in Conv : \A x \in stamped[c] : x.seq \in Nat
      /\ \A c \in Conv : cursor[d][c] \in Nat
  BY DEF TypeOK, Entry
<1>6. SubsOK(d) /\ AssignedOK(d) /\ BroughtOK(d) /\ OrderOK(d)
  BY DEF DeviceOK
<1>7. 1 \in 1 .. Len(w) /\ m.conv \in Conv /\ m.seq \in Nat
  BY <1>1, <1>2, <1>3
<1> HIDE DEF w, v, m
<1>8. /\ \A c \in Conv : cursor'[d][c] \in Nat /\ cursor[d][c] <= cursor'[d][c]
      /\ m.type # "subscribed" => m.seq <= cursor'[d][m.conv]
  BY <1>4, <1>5, <1>7
<1>9. fed'[d] = IF m.type = "subscribed" THEN fed[d] \cup {m.conv} ELSE fed[d]
  BY <1>4, <1>5
<1>10. SubsOK(d)'
  <2>1. fed'[d] \subseteq subs[d]
    BY <1>1, <1>6, <1>7, <1>9 DEF SubsOK, w
  <2>2. \A i \in 1 .. Len(v) : v[i].type = "subscribed" => v[i].conv \in subs[d]
    BY <1>2, <1>6 DEF SubsOK, w
  <2> QED BY <2>1, <2>2, <1>4, <1>6 DEF SubsOK, v
<1>11. AssignedOK(d)'
  BY <1>2, <1>4, <1>6 DEF AssignedOK, w, v
<1>12. BroughtOK(d)'
  <2>1. SUFFICES ASSUME NEW c \in subs[d], NEW x \in stamped[c],
                        ~(x.seq <= cursor'[d][c])
                 PROVE  \E i \in 1 .. Len(v) : Brings(v[i], c, x.seq)
    BY <1>4 DEF BroughtOK, v
  <2>2. c \in Conv /\ x.seq \in Nat
    BY <1>5
  <2>3. ~(x.seq <= cursor[d][c])
    BY <2>1, <2>2, <1>5, <1>8
  <2>4. PICK i \in 1 .. Len(w) : Brings(w[i], c, x.seq)
    BY <2>3, <1>6 DEF BroughtOK, w
  <2>5. i # 1
    <3>1. SUFFICES ASSUME Brings(m, c, x.seq) PROVE FALSE
      BY <2>4, <1>1
    <3>2. m.conv = c /\ m.type # "subscribed" /\ x.seq <= m.seq
      BY <3>1, <2>2, <1>7 DEF Brings, FrameMsg
    <3> QED BY <3>2, <2>1, <2>2, <1>7, <1>8
  <2>6. i - 1 \in 1 .. Len(v) /\ v[i - 1] = w[i]
    BY <2>5, <1>2
  <2> QED BY <2>4, <2>6
<1>13. OrderOK(d)'
  <2> SUFFICES ASSUME NEW i \in 1 .. Len(v), v[i].type # "subscribed",
                      \/ v[i].conv \in fed'[d]
                      \/ \E k \in 1 .. i - 1 : /\ v[k].type = "subscribed"
                                                /\ v[k].conv = v[i].conv,
                      NEW x \in stamped[v[i].conv], x.seq < v[i].seq,
                      ~(x.seq <= cursor'[d][v[i].conv])
               PROVE  \E j \in 1 .. i - 1 :
                        /\ v[j].conv = v[i].conv /\ v[j].type # "subscribed"
                        /\ x.seq <= v[j].seq
    BY <1>4 DEF OrderOK, Unjumped, Moving, FollowsAt, v
  <2> DEFINE c == v[i].conv
  <2>1. /\ v[i] = w[i + 1] /\ i + 1 \in 1 .. Len(w) /\ c \in Conv
        /\ x.seq \in Nat
    BY <1>2, <1>3, <1>5
  <2>2. FollowsAt(d, i + 1, c)
    <3>1. CASE c \in fed[d]
      BY <3>1 DEF FollowsAt
    <3>2. CASE m.type = "subscribed" /\ m.conv = c
      <4>1. 1 \in 1 .. (i + 1) - 1
        BY <1>2
      <4> QED BY <3>2, <4>1, <1>1 DEF FollowsAt, w
    <3>3. ASSUME NEW k \in 1 .. i - 1, v[k].type = "subscribed", v[k].conv = c
          PROVE  FollowsAt(d, i + 1, c)
      <4>1. k + 1 \in 1 .. (i + 1) - 1 /\ v[k] = w[k + 1]
        BY <1>2
      <4> QED BY <3>3, <4>1 DEF FollowsAt, w
    <3> QED BY <3>1, <3>2, <3>3, <1>9
  <2>3. ~(x.seq <= cursor[d][c])
    BY <2>1, <1>5, <1>8
  <2>4. PICK j \in 1 .. (i + 1) - 1 : Moving(d, j, c, x.seq)
    <3>1. Unjumped(d, i + 1)
      BY <2>1, <1>6 DEF OrderOK, w
    <3> QED BY <3>1, <2>1, <2>2, <2>3 DEF Unjumped, w
  <2>5. w[j].conv = c /\ w[j].type # "subscribed" /\ x.seq <= w[j].seq
    BY <2>4 DEF Moving, w
  <2>6. j # 1
    <3>1. SUFFICES ASSUME m.conv = c, m.type # "subscribed", x.seq <= m.seq
                   PROVE  FALSE
      BY <2>5, <1>1
    <3> QED BY <3>1, <2>1, <1>7, <1>8
  <2>7. j - 1 \in 1 .. i - 1 /\ v[j - 1] = w[j]
    BY <2>6, <1>2
  <2> QED BY <2>5, <2>7
<1> QED BY <1>10, <1>11, <1>12, <1>13 DEF DeviceOK

-----------------------------------------------------------------------------
(* The feed's half of the invariant *)

TypeFeed ==
  /\ sidecar \in [Conv -> [assigned : 0 .. MaxSeq, ack : 0 .. MaxSeq]]
  /\ log \in [Conv -> SUBSET Entry]
  /\ expired \in [Conv -> 0 .. MaxSeq]
  /\ states \in [Conv -> State]
  /\ lru \in Seq(Conv) /\ Len(lru) <= CacheMax
  /\ ready \in SUBSET Device
  /\ subs \in [Device -> SUBSET Conv]
  /\ wire \in [Device -> Seq(Message)]
  /\ cursor \in [Device -> [Conv -> 0 .. MaxSeq]]
  /\ fed \in [Device -> SUBSET Conv]
  /\ stamped \in [Conv -> SUBSET Entry]

TypeTurns ==
  /\ inFlight \in [Device -> BOOLEAN]
  /\ action \in [Device -> Conv \cup {None}]
  /\ turn \in [Turn -> [phase : Phases, by : Device \cup {None},
                        conv : Conv \cup {None}, open : BOOLEAN,
                        chunks : 0 .. MaxChunks, dropped : 0 .. MaxChunks]]
  /\ events \in 0 .. MaxEvents

FeedInv ==
  /\ TypeFeed /\ CacheAgrees /\ NumbersAreAssigned /\ LogIsATail
  /\ \A d \in Device : DeviceOK(d)

LEMMA TypeHalves == TypeOK <=> TypeFeed /\ TypeTurns
BY DEF TypeOK, TypeFeed, TypeTurns, State

LEMMA TypeHalvesNext == (TypeOK <=> TypeFeed /\ TypeTurns)'
BY TypeHalves, PTL

LEMMA FeedInvIs == TypeOK => (CursorInv /\ WireInv <=> FeedInv)
<1>1. TypeOK => ready \in SUBSET Device
  BY DEF TypeOK
<1> QED BY <1>1, TypeHalves, WireInvByDevice DEF CursorInv, FeedInv

LEMMA FeedInvIsNext == (TypeOK => (CursorInv /\ WireInv <=> FeedInv))'
BY FeedInvIs, PTL

(* What emitConversationFrame() and the direct send put on one connection.  *)
LEMMA FanOutOne ==
  ASSUME TypeOK, NEW d \in Device, NEW c \in Conv, NEW m \in Message,
         NEW D \in SUBSET Device, wire' = FannedOut(c, m, D)
  PROVE  /\ wire'[d] \in Seq(Message)
         /\ \E s \in Seq(Message) :
              /\ wire'[d] = wire[d] \o s
              /\ \A i \in 1 .. Len(s) : s[i] = m
              /\ c \in subs[d] => Len(s) # 0
<1> DEFINE a == IF c \in subs[d] THEN <<m>> ELSE <<>>
           b == IF d \in D THEN <<m>> ELSE <<>>
<1>1. wire'[d] = (wire[d] \o a) \o b
  BY DEF FannedOut
<1>2. wire[d] \in Seq(Message)
  BY DEF TypeOK
<1>3. /\ a \in Seq(Message) /\ Len(a) \in {0, 1} /\ (c \in subs[d] => Len(a) = 1)
      /\ (Len(a) = 1 => a[1] = m)
  OBVIOUS
<1>4. b \in Seq(Message) /\ Len(b) \in {0, 1} /\ (Len(b) = 1 => b[1] = m)
  OBVIOUS
<1> HIDE DEF a, b
<1>5. (wire[d] \o a) \o b = wire[d] \o (a \o b)
  <2>1. a \in Seq(Message) /\ b \in Seq(Message)
    BY <1>3, <1>4
  <2> DEFINE w == wire[d]
  <2>2. w \in Seq(Message)
    BY <1>2
  <2> HIDE DEF w
  <2>3. (w \o a) \o b = w \o (a \o b)
    BY <2>1, <2>2, ConcatAssociative
  <2> QED BY <2>3 DEF w
<1>6. /\ a \o b \in Seq(Message) /\ Len(a \o b) = Len(a) + Len(b)
      /\ \A i \in 1 .. Len(a) + Len(b) : (a \o b)[i] =
           IF i <= Len(a) THEN a[i] ELSE b[i - Len(a)]
  BY <1>3, <1>4, ConcatProperties
<1>7. \A i \in 1 .. Len(a \o b) : (a \o b)[i] = m
  <2>1. SUFFICES ASSUME NEW i \in 1 .. Len(a) + Len(b)
                 PROVE  (a \o b)[i] = m
    BY <1>6
  <2>2. ASSUME NEW p \in {0, 1}, NEW q \in {0, 1}, NEW k \in 1 .. p + q
        PROVE  /\ k <= p => p = 1 /\ k = 1
               /\ ~(k <= p) => q = 1 /\ k - p = 1
    OBVIOUS
  <2>3. /\ i <= Len(a) => Len(a) = 1 /\ i = 1
        /\ ~(i <= Len(a)) => Len(b) = 1 /\ i - Len(a) = 1
    BY <2>2, <1>3, <1>4
  <2> QED BY <2>3, <1>3, <1>4, <1>6
<1>8. c \in subs[d] => Len(a \o b) # 0
  BY <1>3, <1>4, <1>6
<1>9. wire'[d] = wire[d] \o (a \o b)
  BY <1>1, <1>5
<1>10. wire[d] \o (a \o b) \in Seq(Message)
  BY <1>2, <1>6, ConcatProperties
<1> QED BY <1>6, <1>7, <1>8, <1>9, <1>10

(* A frame is published.                                                    *)
LEMMA PublishKeepsFeed ==
  ASSUME FeedAssumption, TypeOK, FeedInv, NEW c \in Conv, NEW f \in Frame,
         NEW D \in SUBSET Device, StampEffect(c, f, D),
         UNCHANGED <<expired, ready, subs, cursor, fed>>
  PROVE  FeedInv'
<1> DEFINE e == EntryOf(c, f)
           m == FrameMsg(c, e.seq)
<1>1. CursorInv
  BY FeedInvIs
<1>2. /\ sidecar' \in [Conv -> [assigned : 0 .. MaxSeq, ack : 0 .. MaxSeq]]
      /\ log' \in [Conv -> SUBSET Entry]
      /\ stamped' \in [Conv -> SUBSET Entry]
      /\ \A k \in Conv : sidecar[k].assigned <= sidecar'[k].assigned
      /\ NumbersAreAssigned' /\ LogIsATail'
  BY <1>1, StampKeepsCursors
<1>3. /\ e.seq \in 1 .. MaxSeq /\ wire' = FannedOut(c, m, D)
      /\ sidecar'[c].assigned = e.seq /\ stamped'[c] = stamped[c] \cup {e}
      /\ \A k \in Conv : k # c => stamped'[k] = stamped[k]
      /\ lru' \in Seq(Conv) /\ Len(lru') <= CacheMax
      /\ states' \in [Conv -> State] /\ CacheAgrees'
      /\ e.seq > sidecar[c].assigned
  <2>1. /\ e.seq \in 1 .. MaxSeq /\ wire' = FannedOut(c, m, D)
        /\ sidecar' = [sidecar EXCEPT ![c] =
                         [assigned |-> e.seq, ack |-> sidecar[c].ack]]
        /\ stamped' = [stamped EXCEPT ![c] = @ \cup {e}]
    BY DEF StampEffect
  <2>2. /\ sidecar \in [Conv -> [assigned : 0 .. MaxSeq, ack : 0 .. MaxSeq]]
        /\ stamped \in [Conv -> SUBSET Entry]
    BY DEF TypeOK
  <2>3. e.seq = sidecar[c].assigned + 1 /\ sidecar[c].assigned \in Nat
    BY <2>2 DEF EntryOf
  <2>4. /\ lru' \in Seq(Conv) /\ Len(lru') <= CacheMax
        /\ states' \in [Conv -> State] /\ CacheAgrees'
    BY DEF StampEffect
  <2> HIDE DEF e
  <2> QED BY <2>1, <2>2, <2>3, <2>4
<1> HIDE DEF e
<1>4. m \in Message /\ m.conv = c /\ m.type = "frame" /\ m.seq = e.seq
  BY <1>3 DEF FrameMsg, Message
<1>5. \A d \in Device : wire'[d] \in Seq(Message)
  BY <1>3, <1>4, FanOutOne
<1>6. wire' = [d \in Device |-> wire'[d]]
  BY <1>3 DEF FannedOut
<1>7. wire' \in [Device -> Seq(Message)]
  BY <1>5, <1>6
<1>8. TypeFeed'
  BY <1>2, <1>3, <1>7 DEF TypeFeed, TypeOK
<1>9. ASSUME NEW d \in Device PROVE DeviceOK(d)'
  <2>1. PICK s \in Seq(Message) :
          /\ wire'[d] = wire[d] \o s
          /\ \A i \in 1 .. Len(s) : s[i] = m
          /\ c \in subs[d] => Len(s) # 0
    <3> HIDE DEF m
    <3>1. m \in Message /\ wire' = FannedOut(c, m, D)
      BY <1>3, <1>4 DEF m
    <3> QED BY <3>1, FanOutOne
  <2>2. DeviceOK(d)
    BY DEF FeedInv
  <2>3. d \in ready' \/ subs'[d] = {}
    BY <2>2 DEF DeviceOK, SubsOK
  <2> HIDE DEF m
  <2>4. /\ \A i \in 1 .. Len(s) : s[i].type = "subscribed" =>
             i = Len(s) /\ s[i].conv \in subs'[d]
        /\ \A i \in 1 .. Len(s) : s[i].seq <= sidecar'[s[i].conv].assigned
    BY <2>1, <1>3, <1>4
  <2>5. \A k \in Conv : \A x \in stamped'[k] : x \in stamped[k] \/
           /\ x.seq > sidecar[k].assigned
           /\ \A i \in 1 .. Len(s) : s[i].conv = k => s[i].seq <= x.seq
    <3>1. SUFFICES ASSUME NEW k \in Conv, NEW x \in stamped'[k],
                          x \notin stamped[k]
                   PROVE  /\ x.seq > sidecar[k].assigned
                          /\ \A i \in 1 .. Len(s) : s[i].seq <= x.seq
      OBVIOUS
    <3>2. k = c /\ x = e
      BY <3>1, <1>3
    <3> QED BY <3>2, <2>1, <1>3, <1>4
  <2>6. \A k \in subs'[d] : \A x \in stamped'[k] :
           \/ k \in subs[d] /\ x \in stamped[k]
           \/ x.seq <= cursor[d][k]
           \/ \E i \in 1 .. Len(s) : Brings(s[i], k, x.seq)
    <3>1. SUFFICES ASSUME NEW k \in subs[d], NEW x \in stamped'[k],
                          x \notin stamped[k]
                   PROVE  \E i \in 1 .. Len(s) : Brings(s[i], k, x.seq)
      OBVIOUS
    <3>2. k \in Conv
      BY DEF TypeOK
    <3>3. k = c /\ x = e
      BY <3>1, <3>2, <1>3
    <3>4. Len(s) # 0 /\ Len(s) \in Nat
      BY <2>1, <3>1, <3>3, LenProperties
    <3>5. 1 \in 1 .. Len(s)
      BY <3>4
    <3>6. s[1] = m
      BY <3>5, <2>1
    <3>7. Brings(m, c, e.seq)
      BY <1>4 DEF Brings, m
    <3> QED BY <3>3, <3>5, <3>6, <3>7
  <2>7. subs[d] \subseteq subs'[d] /\ UNCHANGED <<fed, cursor>>
    OBVIOUS
  <2> QED BY <2>1, <2>2, <2>3, <2>4, <2>5, <2>6, <2>7, <1>2, AppendKeeps
<1> QED BY <1>2, <1>3, <1>8, <1>9 DEF FeedInv

(* A session is answered with s about c.                                    *)
LEMMA SayKeepsFeed ==
  ASSUME FeedAssumption, TypeOK, FeedInv, NEW d \in Device, NEW c \in Conv,
         NEW s \in Seq(Message), Say(d, s), Keep(c, Loaded(c)),
         UNCHANGED <<sidecar, log, expired, cursor, fed, stamped>>,
         ready \subseteq ready', ready' \in SUBSET Device, d \in ready',
         subs' \in [Device -> SUBSET Conv],
         \A k \in Device : k # d => subs'[k] = subs[k],
         subs[d] \subseteq subs'[d],
         \A i \in 1 .. Len(s) : s[i].type = "subscribed" =>
           i = Len(s) /\ s[i].conv \in subs'[d],
         \A i \in 1 .. Len(s) : s[i].seq <= sidecar[s[i].conv].assigned,
         \A k \in subs'[d] \ subs[d] : \A x \in stamped[k] :
           \/ x.seq <= cursor[d][k]
           \/ \E i \in 1 .. Len(s) : Brings(s[i], k, x.seq)
  PROVE  FeedInv'
<1>1. CacheAgrees /\ TypeFeed
  BY DEF FeedInv
<1>2. /\ lru' \in Seq(Conv) /\ Len(lru') <= CacheMax
      /\ states' \in [Conv -> State] /\ CacheAgrees'
  BY <1>1, LookUpAgrees
<1>3. wire' = [wire EXCEPT ![d] = wire[d] \o s]
      /\ wire \in [Device -> Seq(Message)]
  BY <1>1 DEF Say, TypeFeed
<1>4. wire[d] \o s \in Seq(Message)
  BY <1>3, ConcatProperties
<1>5. wire' \in [Device -> Seq(Message)] /\ wire'[d] = wire[d] \o s
      /\ \A k \in Device : k # d => wire'[k] = wire[k]
  BY <1>3, <1>4
<1>6. TypeFeed'
  BY <1>1, <1>2, <1>5 DEF TypeFeed
<1>7. NumbersAreAssigned' /\ LogIsATail'
  BY DEF FeedInv, NumbersAreAssigned, LogIsATail
<1>8. /\ sidecar' \in [Conv -> [assigned : 0 .. MaxSeq, ack : 0 .. MaxSeq]]
      /\ \A k \in Conv : sidecar[k].assigned <= sidecar'[k].assigned
      /\ stamped' \in [Conv -> SUBSET Entry]
  <2>1. \A k \in Conv : sidecar[k].assigned \in Nat
    BY <1>1 DEF TypeFeed
  <2> QED BY <2>1, <1>1 DEF TypeFeed
<1>9. ASSUME NEW k \in Device PROVE DeviceOK(k)'
  <2>1. DeviceOK(k)
    BY DEF FeedInv
  <2>2. CASE k # d
    <3>1. k \in ready' \/ subs'[k] = {}
      BY <2>1, <2>2 DEF DeviceOK, SubsOK
    <3> QED BY <2>1, <2>2, <3>1, <1>5, <1>8, IdleKeeps
  <2>3. CASE k = d
    <3>1. DeviceOK(d) /\ d \in ready'
      BY <2>1, <2>3
    <3>2. /\ \A n \in Conv : \A x \in stamped'[n] : x \in stamped[n] \/
               /\ x.seq > sidecar[n].assigned
               /\ \A i \in 1 .. Len(s) : s[i].conv = n => s[i].seq <= x.seq
          /\ \A n \in subs'[d] : \A x \in stamped'[n] :
               \/ n \in subs[d] /\ x \in stamped[n]
               \/ x.seq <= cursor[d][n]
               \/ \E i \in 1 .. Len(s) : Brings(s[i], n, x.seq)
      OBVIOUS
    <3>3. \A i \in 1 .. Len(s) : s[i].seq <= sidecar'[s[i].conv].assigned
      OBVIOUS
    <3>4. UNCHANGED <<fed, cursor>>
      OBVIOUS
    <3>5. DeviceOK(d)'
      BY <3>1, <3>2, <3>3, <3>4, <1>5, <1>8, AppendKeeps
    <3> QED BY <3>5, <2>3
  <2> QED BY <2>2, <2>3
<1> QED BY <1>2, <1>6, <1>7, <1>9 DEF FeedInv

(* hello, resume_conversation and subscribe_conversation.                   *)
LEMMA AnswersKeepFeed ==
  ASSUME FeedAssumption, TypeOK, FeedInv, NEW d \in Device, NEW c \in Opened,
         \/ /\ Say(d, ResumeReply(c, cursor[d][c])) /\ UNCHANGED subs
         \/ /\ Say(d, Append(ResumeReply(c, cursor[d][c]),
                             [type |-> "subscribed", conv |-> c, seq |-> 0]))
            /\ subs' = [subs EXCEPT ![d] = @ \cup {c}],
         Keep(c, Loaded(c)),
         UNCHANGED <<sidecar, log, expired, cursor, fed, stamped>>,
         ready \subseteq ready', ready' \in SUBSET Device, d \in ready'
  PROVE  FeedInv'
<1> DEFINE r == ResumeReply(c, cursor[d][c])
           m == [type |-> "subscribed", conv |-> c, seq |-> 0]
<1>1. c \in Conv
  BY DEF FeedAssumption
<1>2. cursor[d][c] \in 0 .. MaxSeq /\ subs \in [Device -> SUBSET Conv]
      /\ MaxSeq \in Nat /\ sidecar[c].assigned \in Nat
  BY <1>1 DEF TypeOK, FeedAssumption
<1>3. CursorInv
  BY FeedInvIs
<1>4. /\ r \in Seq(Message)
      /\ \A i \in 1 .. Len(r) : r[i].conv = c /\ r[i].type # "subscribed"
                                /\ r[i].seq <= sidecar[c].assigned
      /\ \A x \in stamped[c] : x.seq <= cursor[d][c] \/
           \E i \in 1 .. Len(r) : Brings(r[i], c, x.seq)
  BY <1>1, <1>2, <1>3, ReplyIsComplete
<1>5. CASE Say(d, r) /\ UNCHANGED subs
  <2> HIDE DEF r
  <2>1. /\ subs' \in [Device -> SUBSET Conv]
        /\ \A k \in Device : k # d => subs'[k] = subs[k]
        /\ subs[d] \subseteq subs'[d]
        /\ \A k \in subs'[d] \ subs[d] : FALSE
    BY <1>2, <1>5
  <2>2. /\ \A i \in 1 .. Len(r) : r[i].type = "subscribed" =>
             i = Len(r) /\ r[i].conv \in subs'[d]
        /\ \A i \in 1 .. Len(r) : r[i].seq <= sidecar[r[i].conv].assigned
    BY <1>4
  <2> QED BY <1>1, <1>4, <1>5, <2>1, <2>2, SayKeepsFeed
<1>6. CASE Say(d, Append(r, m)) /\ subs' = [subs EXCEPT ![d] = @ \cup {c}]
  <2> DEFINE s == Append(r, m)
  <2>1. m \in Message /\ m.conv = c /\ m.seq = 0
    BY <1>1, <1>2 DEF Message
  <2> HIDE DEF r, m
  <2>2. /\ s \in Seq(Message) /\ Len(s) = Len(r) + 1 /\ Len(r) \in Nat
        /\ \A i \in 1 .. Len(r) : s[i] = r[i]
        /\ s[Len(r) + 1] = m
    BY <2>1, <1>4, AppendProperties, LenProperties
  <2>3. \A i \in 1 .. Len(s) : i \in 1 .. Len(r) \/ i = Len(r) + 1
    BY <2>2
  <2> HIDE DEF s
  <2>4. /\ subs' \in [Device -> SUBSET Conv]
        /\ \A k \in Device : k # d => subs'[k] = subs[k]
        /\ subs'[d] = subs[d] \cup {c}
    BY <1>1, <1>2, <1>6
  <2>5. /\ \A i \in 1 .. Len(s) : s[i].type = "subscribed" =>
             i = Len(s) /\ s[i].conv \in subs'[d]
        /\ \A i \in 1 .. Len(s) : s[i].seq <= sidecar[s[i].conv].assigned
    BY <2>1, <2>2, <2>3, <2>4, <1>4, <1>2
  <2>6. ASSUME NEW k \in subs'[d] \ subs[d], NEW x \in stamped[k],
               ~(x.seq <= cursor[d][k])
        PROVE  \E i \in 1 .. Len(s) : Brings(s[i], k, x.seq)
    <3>1. k = c
      BY <2>4
    <3>2. PICK i \in 1 .. Len(r) : Brings(r[i], c, x.seq)
      BY <2>6, <3>1, <1>4
    <3>3. i \in 1 .. Len(s) /\ s[i] = r[i]
      BY <2>2
    <3> QED BY <3>1, <3>2, <3>3
  <2>7. Say(d, s)
    BY <1>6 DEF s
  <2>8. subs[d] \subseteq subs'[d]
    BY <2>4
  <2> QED BY <1>1, <2>2, <2>4, <2>5, <2>6, <2>7, <2>8, SayKeepsFeed
<1> QED BY <1>5, <1>6

(* Nothing of the feed's half changes.                                      *)
LEMMA QuietKeepsFeed ==
  ASSUME FeedInv,
         UNCHANGED <<sidecar, log, expired, states, lru, ready, subs, wire,
                     cursor, fed, stamped>>
  PROVE  FeedInv'
<1>1. TypeFeed' /\ CacheAgrees' /\ NumbersAreAssigned' /\ LogIsATail'
  BY DEF FeedInv, TypeFeed, CacheAgrees, NumbersAreAssigned, LogIsATail
<1>2. ASSUME NEW d \in Device PROVE DeviceOK(d)'
  <2>1. DeviceOK(d)
    BY DEF FeedInv
  <2> QED BY <2>1 DEF DeviceOK, SubsOK, AssignedOK, BroughtOK, OrderOK,
                      Unjumped, FollowsAt, Moving
<1> QED BY <1>1, <1>2 DEF FeedInv

LEMMA HelloKeepsFeed ==
  ASSUME FeedAssumption, TypeOK, FeedInv, NEW d \in Device, Hello(d)
  PROVE  FeedInv'
<1>1. /\ ready' = ready \cup {d}
      /\ UNCHANGED <<sidecar, log, expired, subs, cursor, fed, stamped>>
      /\ ready' \in SUBSET Device
  BY DEF Hello, clientVars, TypeOK
<1>2. CASE UNCHANGED <<wire, states, lru>>
  <2>1. TypeFeed'
    BY <1>1, <1>2 DEF FeedInv, TypeFeed
  <2>2. CacheAgrees' /\ NumbersAreAssigned' /\ LogIsATail'
    BY <1>1, <1>2 DEF FeedInv, CacheAgrees, NumbersAreAssigned, LogIsATail
  <2>3. ASSUME NEW k \in Device PROVE DeviceOK(k)'
    <3>1. DeviceOK(k)
      BY DEF FeedInv
    <3> QED BY <3>1, <1>1, <1>2 DEF DeviceOK, SubsOK, AssignedOK, BroughtOK,
                                    OrderOK, Unjumped, FollowsAt, Moving
  <2> QED BY <2>1, <2>2, <2>3 DEF FeedInv
<1>3. CASE \E c \in Opened : /\ Say(d, ResumeReply(c, cursor[d][c]))
                             /\ Keep(c, Loaded(c))
  <2>1. PICK c \in Opened : /\ Say(d, ResumeReply(c, cursor[d][c]))
                            /\ Keep(c, Loaded(c))
    BY <1>3
  <2>2. ready \subseteq ready' /\ d \in ready'
    BY <1>1
  <2> QED BY <1>1, <2>1, <2>2, AnswersKeepFeed
<1> QED BY <1>2, <1>3 DEF Hello

LEMMA ResumeKeepsFeed ==
  ASSUME FeedAssumption, TypeOK, FeedInv, NEW d \in Device, NEW c \in Opened,
         Resume(d, c) \/ Subscribe(d, c)
  PROVE  FeedInv'
<1>1. /\ UNCHANGED <<sidecar, log, expired, cursor, fed, stamped, ready>>
      /\ d \in ready /\ ready \in SUBSET Device
      /\ Keep(c, Loaded(c))
  BY DEF Resume, Subscribe, disk, sessionVars, clientVars, TypeOK
<1>2. \/ /\ Say(d, ResumeReply(c, cursor[d][c])) /\ UNCHANGED subs
      \/ /\ Say(d, Append(ResumeReply(c, cursor[d][c]),
                          [type |-> "subscribed", conv |-> c, seq |-> 0]))
         /\ subs' = [subs EXCEPT ![d] = @ \cup {c}]
  BY DEF Resume, Subscribe, sessionVars
<1>3. ready \subseteq ready' /\ ready' \in SUBSET Device /\ d \in ready'
  BY <1>1
<1> QED BY <1>1, <1>2, <1>3, AnswersKeepFeed

LEMMA UnsubscribeKeepsFeed ==
  ASSUME FeedAssumption, TypeOK, FeedInv, NEW d \in Device, NEW c \in Opened,
         Unsubscribe(d, c)
  PROVE  FeedInv'
<1>1. c \in Conv
  BY DEF FeedAssumption
<1>2. /\ UNCHANGED <<sidecar, log, expired, states, lru, ready, wire, cursor,
                     stamped>>
      /\ subs' = [subs EXCEPT ![d] = @ \ {c}]
      /\ fed' = [fed EXCEPT ![d] = @ \ {c}]
      /\ Settled(d, c)
  BY DEF Unsubscribe, disk, cacheVars
<1>3. TypeFeed'
  BY <1>2 DEF FeedInv, TypeFeed
<1>4. CacheAgrees' /\ NumbersAreAssigned' /\ LogIsATail'
  BY <1>2 DEF FeedInv, CacheAgrees, NumbersAreAssigned, LogIsATail
<1>5. ASSUME NEW k \in Device PROVE DeviceOK(k)'
  <2>1. DeviceOK(k) /\ subs \in [Device -> SUBSET Conv]
        /\ fed \in [Device -> SUBSET Conv]
    BY DEF FeedInv, TypeFeed
  <2>2. CASE k = d
    <3>1. subs'[d] = subs[d] \ {c} /\ fed'[d] = fed[d] \ {c} /\ DeviceOK(d)
      BY <2>1, <2>2, <1>2
    <3>2. DeviceOK(d)'
      BY <3>1, <1>1, <1>2, UnsubscribeKeeps
    <3> QED BY <3>2, <2>2
  <2>3. CASE k # d
    <3>1. subs'[k] = subs[k] /\ fed'[k] = fed[k]
      BY <2>1, <2>3, <1>2
    <3> QED BY <3>1, <2>1, <1>2 DEF DeviceOK, SubsOK, AssignedOK, BroughtOK,
                                    OrderOK, Unjumped, FollowsAt, Moving
  <2> QED BY <2>2, <2>3
<1> QED BY <1>3, <1>4, <1>5 DEF FeedInv

LEMMA AckKeepsFeed ==
  ASSUME FeedAssumption, TypeOK, FeedInv, NEW d \in Device, NEW c \in Opened,
         Ack(d, c)
  PROVE  FeedInv'
<1> DEFINE st == Loaded(c)
           ack == IF cursor[d][c] > st.ack THEN cursor[d][c] ELSE st.ack
           new == [st EXCEPT !.ack = IF cursor[d][c] > @ THEN cursor[d][c] ELSE @]
<1>1. c \in Conv
  BY DEF FeedAssumption
<1>2. /\ WriteSidecar(c, new) /\ Keep(c, new)
      /\ UNCHANGED <<log, expired, ready, subs, wire, cursor, fed, stamped>>
  BY DEF Ack, sessionVars, clientVars
<1>3. CacheAgrees /\ TypeFeed /\ NumbersAreAssigned /\ LogIsATail
  BY DEF FeedInv
<1>4. /\ st \in State /\ st.assigned = sidecar[c].assigned
      /\ st.assigned \in 0 .. MaxSeq
  BY <1>1, <1>3, LoadedState
<1> HIDE DEF st
<1>5. cursor[d][c] \in 0 .. MaxSeq
  BY <1>1, <1>3 DEF TypeFeed
<1>6. ack \in 0 .. MaxSeq
  BY <1>4, <1>5 DEF State
<1>7. new = [st EXCEPT !.ack = ack]
  BY Zenon
<1>8. new \in State /\ new.assigned = sidecar[c].assigned /\ new.ack = ack
  <2> HIDE DEF new, ack
  <2> QED BY <1>4, <1>6, <1>7 DEF State
<1> HIDE DEF new, ack
<1>9. sidecar' = [sidecar EXCEPT ![c] =
                    [assigned |-> sidecar[c].assigned, ack |-> ack]]
  BY <1>2, <1>8 DEF WriteSidecar
<1>10. /\ sidecar' \in [Conv -> [assigned : 0 .. MaxSeq, ack : 0 .. MaxSeq]]
       /\ \A k \in Conv : sidecar'[k].assigned = sidecar[k].assigned
       /\ \A k \in Conv : k # c => sidecar'[k] = sidecar[k]
       /\ sidecar'[c].assigned = new.assigned /\ sidecar'[c].ack = new.ack
  <2>1. [assigned |-> sidecar[c].assigned, ack |-> ack]
          \in [assigned : 0 .. MaxSeq, ack : 0 .. MaxSeq]
    BY <1>4, <1>6
  <2>2. sidecar \in [Conv -> [assigned : 0 .. MaxSeq, ack : 0 .. MaxSeq]]
    BY <1>3 DEF TypeFeed
  <2> QED BY <2>1, <2>2, <1>1, <1>8, <1>9
<1>11. /\ lru' \in Seq(Conv) /\ Len(lru') <= CacheMax
       /\ states' \in [Conv -> State] /\ CacheAgrees'
  BY <1>1, <1>2, <1>3, <1>8, <1>10, KeepAgrees
<1>12. TypeFeed'
  BY <1>2, <1>3, <1>10, <1>11 DEF TypeFeed
<1>13. NumbersAreAssigned' /\ LogIsATail'
  BY <1>2, <1>3, <1>10 DEF NumbersAreAssigned, LogIsATail
<1>14. ASSUME NEW k \in Device PROVE DeviceOK(k)'
  <2>1. DeviceOK(k)
    BY DEF FeedInv
  <2>2. \A n \in Conv : sidecar[n].assigned <= sidecar'[n].assigned
    BY <1>3, <1>10 DEF TypeFeed
  <2>3. k \in ready' \/ subs'[k] = {}
    BY <2>1, <1>2 DEF DeviceOK, SubsOK
  <2> QED BY <2>1, <2>2, <2>3, <1>2, <1>10, IdleKeeps
<1> QED BY <1>11, <1>12, <1>13, <1>14 DEF FeedInv

LEMMA ExpireKeepsFeed ==
  ASSUME FeedAssumption, TypeOK, FeedInv, NEW c \in Conv, Expire(c)
  PROVE  FeedInv'
<1>1. PICK q \in expired[c] + 1 .. sidecar[c].assigned :
        expired' = [expired EXCEPT ![c] = q]
  BY DEF Expire
<1>2. UNCHANGED <<sidecar, log, states, lru, ready, subs, wire, cursor, fed,
                  stamped>>
  BY DEF Expire, disk, cacheVars, sessionVars, clientVars
<1>3. q \in 0 .. MaxSeq /\ expired \in [Conv -> 0 .. MaxSeq]
  <2>1. /\ expired[c] \in 0 .. MaxSeq /\ sidecar[c].assigned \in 0 .. MaxSeq
        /\ MaxSeq \in Nat
    BY DEF FeedInv, TypeFeed, FeedAssumption
  <2> QED BY <2>1 DEF FeedInv, TypeFeed
<1>4. TypeFeed'
  BY <1>1, <1>2, <1>3 DEF FeedInv, TypeFeed
<1>5. CacheAgrees' /\ NumbersAreAssigned' /\ LogIsATail'
  BY <1>2 DEF FeedInv, CacheAgrees, NumbersAreAssigned, LogIsATail
<1>6. ASSUME NEW d \in Device PROVE DeviceOK(d)'
  <2>1. DeviceOK(d)
    BY DEF FeedInv
  <2> QED BY <2>1, <1>2 DEF DeviceOK, SubsOK, AssignedOK, BroughtOK, OrderOK,
                            Unjumped, FollowsAt, Moving
<1> QED BY <1>4, <1>5, <1>6 DEF FeedInv

LEMMA ReadKeepsFeed ==
  ASSUME FeedAssumption, TypeOK, FeedInv, NEW d \in Device, Read(d)
  PROVE  FeedInv'
<1> DEFINE m == Head(wire[d])
<1>1. /\ UNCHANGED <<sidecar, log, expired, states, lru, ready, subs, stamped>>
      /\ wire[d] # <<>> /\ wire' = [wire EXCEPT ![d] = Tail(@)]
      /\ IF m.type = "subscribed"
         THEN /\ fed' = [fed EXCEPT ![d] = @ \cup {m.conv}]
              /\ UNCHANGED cursor
         ELSE /\ cursor' = [cursor EXCEPT ![d][m.conv] =
                              IF m.seq > @ THEN m.seq ELSE @]
              /\ UNCHANGED fed
  BY DEF Read, disk, cacheVars, sessionVars
<1>2. TypeFeed
  BY DEF FeedInv
<1>3. wire[d] \in Seq(Message)
  BY <1>2 DEF TypeFeed
<1>4. m \in Message /\ Tail(wire[d]) \in Seq(Message)
  BY <1>1, <1>3, HeadTailProperties
<1>5. m.conv \in Conv /\ m.seq \in 0 .. MaxSeq
  BY <1>4 DEF Message
<1> HIDE DEF m
<1>6. wire' \in [Device -> Seq(Message)]
      /\ \A k \in Device : k # d => wire'[k] = wire[k]
  BY <1>1, <1>2, <1>4 DEF TypeFeed
<1>7. /\ fed' \in [Device -> SUBSET Conv]
      /\ cursor' \in [Device -> [Conv -> 0 .. MaxSeq]]
      /\ \A k \in Device : k # d => fed'[k] = fed[k] /\ cursor'[k] = cursor[k]
  <2>1. /\ fed \in [Device -> SUBSET Conv]
        /\ cursor \in [Device -> [Conv -> 0 .. MaxSeq]]
    BY <1>2 DEF TypeFeed
  <2>2. CASE m.type = "subscribed"
    BY <2>1, <2>2, <1>1, <1>5
  <2>3. CASE m.type # "subscribed"
    <3> DEFINE q == IF m.seq > cursor[d][m.conv] THEN m.seq
                    ELSE cursor[d][m.conv]
    <3>1. q \in 0 .. MaxSeq
      BY <2>1, <1>5
    <3>2. cursor' = [cursor EXCEPT ![d] = [cursor[d] EXCEPT ![m.conv] = q]]
      BY <2>3, <1>1
    <3> HIDE DEF q
    <3>3. [cursor[d] EXCEPT ![m.conv] = q] \in [Conv -> 0 .. MaxSeq]
      BY <2>1, <3>1
    <3> QED BY <2>1, <2>3, <3>2, <3>3, <1>1
  <2> QED BY <2>2, <2>3
<1>8. TypeFeed'
  BY <1>1, <1>2, <1>6, <1>7 DEF TypeFeed
<1>9. CacheAgrees' /\ NumbersAreAssigned' /\ LogIsATail'
  BY <1>1 DEF FeedInv, CacheAgrees, NumbersAreAssigned, LogIsATail
<1>10. ASSUME NEW k \in Device PROVE DeviceOK(k)'
  <2>1. DeviceOK(k)
    BY DEF FeedInv
  <2>2. CASE k = d
    BY <2>1, <2>2, ReadKeeps
  <2>3. CASE k # d
    <3>1. wire'[k] = wire[k] /\ fed'[k] = fed[k] /\ cursor'[k] = cursor[k]
      BY <2>3, <1>6, <1>7
    <3> QED BY <3>1, <2>1, <1>1 DEF DeviceOK, SubsOK, AssignedOK, BroughtOK,
                                    OrderOK, Unjumped, FollowsAt, Moving
  <2> QED BY <2>2, <2>3
<1> QED BY <1>8, <1>9, <1>10 DEF FeedInv

LEMMA CloseKeepsFeed ==
  ASSUME FeedAssumption, TypeOK, FeedInv, NEW d \in Device, Close(d)
  PROVE  FeedInv'
<1>1. /\ UNCHANGED <<sidecar, log, expired, states, lru, cursor, stamped>>
      /\ ready' = ready \ {d}
      /\ subs' = [subs EXCEPT ![d] = {}]
      /\ wire' = [wire EXCEPT ![d] = <<>>]
      /\ fed' = [fed EXCEPT ![d] = {}]
  BY DEF Close, disk, cacheVars
<1>2. TypeFeed
  BY DEF FeedInv
<1>3. <<>> \in Seq(Message)
  OBVIOUS
<1>4. TypeFeed'
  BY <1>1, <1>2, <1>3 DEF TypeFeed
<1>5. CacheAgrees' /\ NumbersAreAssigned' /\ LogIsATail'
  BY <1>1 DEF FeedInv, CacheAgrees, NumbersAreAssigned, LogIsATail
<1>6. ASSUME NEW k \in Device PROVE DeviceOK(k)'
  <2>1. DeviceOK(k)
    BY DEF FeedInv
  <2>2. CASE k = d
    <3>1. subs'[d] = {} /\ fed'[d] = {} /\ wire'[d] = <<>>
      BY <1>1, <1>2 DEF TypeFeed
    <3> QED BY <3>1, <2>2, CutOffKeeps
  <2>3. CASE k # d
    <3>1. /\ wire'[k] = wire[k] /\ fed'[k] = fed[k] /\ subs'[k] = subs[k]
          /\ k \in ready => k \in ready'
      BY <2>3, <1>1, <1>2 DEF TypeFeed
    <3> QED BY <3>1, <2>1, <1>1 DEF DeviceOK, SubsOK, AssignedOK, BroughtOK,
                                    OrderOK, Unjumped, FollowsAt, Moving
  <2> QED BY <2>2, <2>3
<1> QED BY <1>4, <1>5, <1>6 DEF FeedInv

LEMMA RestartKeepsFeed ==
  ASSUME FeedAssumption, TypeOK, FeedInv, Restart
  PROVE  FeedInv'
<1>1. /\ lru' = <<>> /\ states' = [c \in Conv |-> NoState]
      /\ ready' = {} /\ subs' = [d \in Device |-> {}]
      /\ wire' = [d \in Device |-> <<>>] /\ fed' = [d \in Device |-> {}]
      /\ UNCHANGED <<expired, cursor, stamped>>
  BY DEF Restart
<1>2. TypeFeed /\ NumbersAreAssigned /\ LogIsATail /\ MaxSeq \in Nat
  BY DEF FeedInv, FeedAssumption
<1>3. /\ log' = log
      /\ sidecar' \in [Conv -> [assigned : 0 .. MaxSeq, ack : 0 .. MaxSeq]]
      /\ \A k \in Conv : sidecar[k].assigned <= sidecar'[k].assigned
  <2>1. \A k \in Conv : sidecar[k].assigned \in 0 .. MaxSeq
                        /\ sidecar[k].ack \in 0 .. MaxSeq
    BY <1>2 DEF TypeFeed
  <2>2. CASE UNCHANGED disk
    BY <2>1, <2>2, <1>2 DEF disk, TypeFeed
  <2>3. ASSUME NEW c \in Conv, sidecar[c].assigned < MaxSeq, TornStamp(c)
        PROVE  /\ log' = log
               /\ sidecar' \in [Conv -> [assigned : 0 .. MaxSeq,
                                          ack : 0 .. MaxSeq]]
               /\ \A k \in Conv : sidecar[k].assigned <= sidecar'[k].assigned
    <3> DEFINE r == [sidecar[c] EXCEPT !.assigned = sidecar[c].assigned + 1]
    <3>1. log' = log /\ sidecar' = [sidecar EXCEPT ![c] = r]
      BY <2>3 DEF TornStamp
    <3>2. sidecar[c].assigned + 1 \in 0 .. MaxSeq
      BY <2>1, <2>3, <1>2
    <3>3. sidecar[c] \in [assigned : 0 .. MaxSeq, ack : 0 .. MaxSeq]
      BY <1>2 DEF TypeFeed
    <3>4. r \in [assigned : 0 .. MaxSeq, ack : 0 .. MaxSeq]
          /\ r.assigned = sidecar[c].assigned + 1
      BY <3>2, <3>3
    <3> HIDE DEF r
    <3> QED BY <3>1, <3>4, <2>1, <1>2 DEF TypeFeed
  <2> QED BY <2>2, <2>3 DEF Restart
<1>4. <<>> \in Seq(Message) /\ <<>> \in Seq(Conv) /\ Len(<<>>) = 0
      /\ NoState \in State /\ CacheMax \in Nat
  BY DEF NoState, State, FeedAssumption
<1>5. TypeFeed'
  BY <1>1, <1>2, <1>3, <1>4 DEF TypeFeed
<1>6. CacheAgrees'
  <2>1. ToSet(<<>>) = {}
    BY DEF ToSet
  <2> QED BY <2>1, <1>1 DEF CacheAgrees
<1>7. NumbersAreAssigned'
  <2>1. ASSUME NEW c \in Conv, NEW x \in stamped[c]
        PROVE  x.seq <= sidecar'[c].assigned
    <3>1. x.seq \in Nat /\ sidecar[c].assigned \in Nat
          /\ sidecar'[c].assigned \in Nat
      BY <1>2, <1>3 DEF TypeFeed, Entry
    <3> QED BY <3>1, <1>2, <1>3 DEF NumbersAreAssigned
  <2> QED BY <2>1, <1>1, <1>2 DEF NumbersAreAssigned
<1>8. LogIsATail'
  BY <1>1, <1>2, <1>3 DEF LogIsATail
<1>9. ASSUME NEW d \in Device PROVE DeviceOK(d)'
  BY <1>1, CutOffKeeps
<1> QED BY <1>5, <1>6, <1>7, <1>8, <1>9 DEF FeedInv

-----------------------------------------------------------------------------
(* What each step is, for either half *)

(* Frames a step may publish, and who is sent them by name.                 *)
FrameOf(t, kind, n, lossy) ==
  [turn |-> t, kind |-> kind, n |-> n, lossy |-> lossy]

LEMMA PublishStamps ==
  ASSUME FeedAssumption, TypeOK, CacheAgrees, TurnsAreShaped,
         NEW t \in Turn, turn[t].phase # "idle",
         NEW kind \in {"turn_started", "chunk", "error", "turn_done"},
         NEW n \in 0 .. MaxChunks, NEW lossy \in BOOLEAN,
         Publish(t, kind, n, lossy)
  PROVE  /\ turn[t].conv \in Conv
         /\ FrameOf(t, kind, n, lossy) \in Frame
         /\ Direct(t) \in SUBSET Device
         /\ StampEffect(turn[t].conv, FrameOf(t, kind, n, lossy), Direct(t))
<1>1. turn[t].conv \in Conv
  BY DEF TurnsAreShaped
<1>2. FrameOf(t, kind, n, lossy) \in Frame
  BY DEF Frame, FrameOf
<1>3. Direct(t) \in SUBSET Device
  BY DEF Direct, TypeOK
<1>4. Stamp(turn[t].conv, FrameOf(t, kind, n, lossy), Direct(t))
  BY DEF Publish, FrameOf
<1> QED BY <1>1, <1>2, <1>3, <1>4, StampDoes

-----------------------------------------------------------------------------
(* The turns' half of the invariant *)

Closure == [phase : Phases, by : Device \cup {None}, conv : Conv \cup {None},
            open : BOOLEAN, chunks : 0 .. MaxChunks, dropped : 0 .. MaxChunks]

(* What a step leaves alone of a turn, and what it may do to its phase.     *)
SameTurn(t) ==
  /\ turn'[t].by = turn[t].by /\ turn'[t].conv = turn[t].conv
  /\ turn'[t].chunks = turn[t].chunks /\ turn'[t].dropped = turn[t].dropped

LEMMA EntriesTyped ==
  ASSUME TypeOK, NEW c \in Conv, NEW x \in stamped[c]
  PROVE  /\ x \in Entry /\ x.seq \in 1 .. MaxSeq /\ x.seq \in Nat
         /\ x.frame \in Frame /\ x.frame.turn \in Turn
<1>1. x \in Entry
  BY DEF TypeOK
<1> QED BY <1>1 DEF Entry, Frame

(* Turns are closed, by a close of the socket or of the process.            *)
LEMMA ClosingKeepsTurns ==
  ASSUME TypeOK, TurnInv, turn' \in [Turn -> Closure], UNCHANGED stamped,
         \A t \in Turn :
           /\ SameTurn(t)
           /\ turn'[t].open => turn[t].open
           /\ \/ turn'[t].phase = turn[t].phase
              \/ Live(t) /\ turn'[t].phase = "lost" /\ ~turn'[t].open
           /\ turn[t].phase = "idle" => turn'[t] = turn[t]
           /\ turn[t].by = None /\ turn'[t].phase = turn[t].phase =>
                turn'[t].open = turn[t].open
           /\ turn'[t].open => turn'[t].phase = turn[t].phase
           /\ turn'[t].open /\ turn[t].by # None => inFlight'[turn[t].by]
  PROVE  TurnInv'
<1>1. /\ TurnsAreShaped /\ OneTurnPerSession /\ FramesAreOfTurns
      /\ ChunksAreCounted /\ LossIsReported /\ OpenTurnIsLast
      /\ TurnsAreBracketed
  BY DEF TurnInv
<1>2. \A c \in Conv : \A x \in stamped[c] : x.frame.turn \in Turn
  BY EntriesTyped
<1>3. TurnsAreShaped'
  BY <1>1 DEF TurnsAreShaped, SameTurn, Live
<1>4. OneTurnPerSession'
  BY <1>1 DEF OneTurnPerSession, SameTurn
<1>5. FramesAreOfTurns'
  BY <1>1, <1>2 DEF FramesAreOfTurns, SameTurn, Live
<1>6. ChunksAreCounted'
  <2>1. SUFFICES ASSUME NEW t \in Turn, turn'[t].open
                 PROVE  Cardinality(ChunksOf(turn[t].conv, t)) + turn[t].dropped
                          = turn[t].chunks
    BY DEF ChunksAreCounted, ChunksOf, SameTurn
  <2>2. turn[t].open
    BY <2>1
  <2> QED BY <2>2, <1>1 DEF ChunksAreCounted
<1>7. LossIsReported'
  <2>1. SUFFICES ASSUME NEW c \in Conv, NEW x \in stamped[c],
                        x.frame.kind = "turn_done", ~x.frame.lossy
                 PROVE  Cardinality({y \in stamped[c] : y.frame.kind = "chunk"
                                       /\ y.frame.turn = x.frame.turn})
                          = turn'[x.frame.turn].chunks
    BY DEF LossIsReported
  <2>2. turn'[x.frame.turn].chunks = turn[x.frame.turn].chunks
    BY <1>2 DEF SameTurn
  <2> QED BY <2>1, <2>2, <1>1 DEF LossIsReported
<1>8. OpenTurnIsLast'
  <2>1. SUFFICES ASSUME NEW t \in Turn, turn'[t].open, turn'[t].by # None,
                        NEW c \in Conv, NEW x \in stamped[c],
                        NEW y \in stamped[c], x.frame.turn = t,
                        y.frame.turn # t,
                        turn'[y.frame.turn].by = turn'[t].by
                 PROVE  y.seq < x.seq
    BY DEF OpenTurnIsLast
  <2>2. turn[t].open /\ turn[t].by # None /\ turn[y.frame.turn].by = turn[t].by
    BY <2>1, <1>2 DEF SameTurn
  <2> QED BY <2>1, <2>2, <1>1 DEF OpenTurnIsLast
<1>9. TurnsAreBracketed'
  BY <1>1, <1>2 DEF TurnsAreBracketed, SameTurn
<1> QED BY <1>3, <1>4, <1>5, <1>6, <1>7, <1>8, <1>9 DEF TurnInv

(* A turn begins: it has no frame yet, and its session had no turn open.    *)
LEMMA BegunKeepsTurns ==
  ASSUME TypeOK, TurnInv, FeedAssumption, NEW t \in Turn,
         NEW d \in Device \cup {None}, NEW c \in Conv, turn[t].phase = "idle",
         Begun(t, d, c), UNCHANGED stamped,
         \/ d = None /\ UNCHANGED inFlight
         \/ d # None /\ ~inFlight[d]
            /\ inFlight' = [inFlight EXCEPT ![d] = TRUE]
  PROVE  TurnInv' /\ turn' \in [Turn -> Closure]
<1> DEFINE n == [Fresh EXCEPT !.phase = "preparing", !.by = d, !.conv = c,
                              !.open = TRUE]
<1>1. /\ TurnsAreShaped /\ OneTurnPerSession /\ FramesAreOfTurns
      /\ ChunksAreCounted /\ LossIsReported /\ OpenTurnIsLast
      /\ TurnsAreBracketed
  BY DEF TurnInv
<1>2. turn' = [turn EXCEPT ![t] = n] /\ turn \in [Turn -> Closure]
  BY DEF Begun, TypeOK, Closure
<1>3. n \in Closure /\ Fresh \in Closure
  <2>1. /\ "idle" \in Phases /\ "preparing" \in Phases /\ MaxChunks \in Nat
        /\ 0 \in 0 .. MaxChunks
    BY DEF Phases, FeedAssumption
  <2>2. Fresh \in Closure
    BY <2>1 DEF Fresh, Closure
  <2> QED BY <2>1, <2>2 DEF Closure
<1>4. turn' \in [Turn -> Closure]
  BY <1>2, <1>3
<1>5. turn'[t] = n /\ \A u \in Turn : u # t => turn'[u] = turn[u]
  BY <1>2
<1>6. \A k \in Conv : \A x \in stamped[k] :
        x.frame.turn \in Turn /\ x.frame.turn # t
  <2>1. ASSUME NEW k \in Conv, NEW x \in stamped[k]
        PROVE  x.frame.turn \in Turn /\ x.frame.turn # t
    <3>1. x.frame.turn \in Turn
      BY EntriesTyped
    <3>2. turn[x.frame.turn].phase # "idle"
      BY <1>1 DEF FramesAreOfTurns
    <3> QED BY <3>1, <3>2
  <2> QED BY <2>1
<1>7. /\ n.phase = "preparing" /\ n.by = d /\ n.conv = c /\ n.open
      /\ n.chunks = 0 /\ n.dropped = 0
  BY DEF Fresh
<1> HIDE DEF n
<1>8. TurnsAreShaped'
  <2>1. ASSUME NEW u \in Turn, u # t
        PROVE  /\ turn'[u].phase = "idle" => turn'[u] = Fresh
               /\ turn'[u].phase # "idle" => turn'[u].conv \in Conv
               /\ turn'[u].open => Live(u)'
               /\ turn'[u].by = None /\ Live(u)' => turn'[u].open
               /\ turn'[u].phase = "failing" => turn'[u].by = None
               /\ turn'[u].by = None => turn'[u].dropped = 0
               /\ turn'[u].dropped <= turn'[u].chunks
    BY <2>1, <1>1, <1>5 DEF TurnsAreShaped, Live
  <2>2. /\ turn'[t].phase # "idle" /\ turn'[t].conv \in Conv
        /\ turn'[t].open /\ Live(t)' /\ turn'[t].phase # "failing"
        /\ turn'[t].dropped = 0 /\ turn'[t].chunks = 0
    BY <1>5, <1>7 DEF Live
  <2>3. 0 <= 0
    OBVIOUS
  <2> QED BY <2>1, <2>2, <2>3 DEF TurnsAreShaped, Fresh
<1>9. OneTurnPerSession'
  <2>1. \A u \in Turn : u # t /\ turn[u].open /\ turn[u].by # None =>
          inFlight[turn[u].by] /\ turn[u].by # d /\ inFlight'[turn[u].by]
    <3>1. \A u \in Turn : turn[u].by \in Device \cup {None}
      BY <1>2 DEF Closure
    <3>2. inFlight \in [Device -> BOOLEAN]
      BY DEF TypeOK
    <3> QED BY <3>1, <3>2, <1>1 DEF OneTurnPerSession
  <2>2. d # None => inFlight'[d]
    BY DEF TypeOK
  <2>3. \A u \in Turn : turn'[u].open /\ turn'[u].by # None =>
                           inFlight'[turn'[u].by]
    BY <2>1, <2>2, <1>5, <1>7
  <2>4. ASSUME NEW u \in Turn, NEW v \in Turn, turn'[u].open, turn'[v].open,
               turn'[u].by = turn'[v].by, turn'[u].by # None
        PROVE  u = v
    <3>1. CASE u = t
      BY <3>1, <2>1, <2>4, <1>5, <1>7
    <3>2. CASE v = t
      BY <3>2, <2>1, <2>4, <1>5, <1>7
    <3>3. CASE u # t /\ v # t
      BY <3>3, <2>4, <1>1, <1>5 DEF OneTurnPerSession
    <3> QED BY <3>1, <3>2, <3>3
  <2> QED BY <2>3, <2>4 DEF OneTurnPerSession
<1>10. FramesAreOfTurns'
  BY <1>1, <1>5, <1>6 DEF FramesAreOfTurns
<1>11. ChunksAreCounted'
  <2>1. SUFFICES ASSUME NEW u \in Turn, turn'[u].open
                 PROVE  Cardinality(ChunksOf(turn'[u].conv, u))
                          + turn'[u].dropped = turn'[u].chunks
    BY DEF ChunksAreCounted, ChunksOf
  <2>2. CASE u # t
    BY <2>1, <2>2, <1>1, <1>5 DEF ChunksAreCounted
  <2>3. CASE u = t
    <3>1. ChunksOf(c, t) = {}
      BY <1>6 DEF ChunksOf
    <3>2. Cardinality(ChunksOf(c, t)) = 0
      BY <3>1, FS_EmptySet
    <3> QED BY <2>3, <3>2, <1>5, <1>7
  <2> QED BY <2>2, <2>3
<1>12. LossIsReported'
  BY <1>1, <1>5, <1>6 DEF LossIsReported
<1>13. OpenTurnIsLast'
  BY <1>1, <1>5, <1>6 DEF OpenTurnIsLast
<1>14. TurnsAreBracketed'
  BY <1>1, <1>5, <1>6 DEF TurnsAreBracketed
<1> QED BY <1>4, <1>8, <1>9, <1>10, <1>11, <1>12, <1>13, <1>14 DEF TurnInv

(* A turn under way takes a step: its closure becomes n, and it publishes e *)
(* while it is open, or nothing.                                            *)
Published(t, n, e) ==
  LET c == turn[t].conv IN
    /\ turn[t].open /\ e \in Entry /\ e.frame.turn = t
    /\ e.seq = sidecar[c].assigned + 1
    /\ stamped' = [stamped EXCEPT ![c] = @ \cup {e}]
    /\ n.dropped = turn[t].dropped
    /\ n.chunks = IF e.frame.kind = "chunk" THEN turn[t].chunks + 1
                                            ELSE turn[t].chunks
    /\ e.frame.kind = "turn_started" => turn[t].phase = "preparing"
    /\ e.frame.kind = "turn_done" => n.phase = "over" /\ ~n.open
    /\ e.frame.kind = "turn_done" /\ ~e.frame.lossy => turn[t].dropped = 0

NotPublished(t, n) ==
  /\ UNCHANGED stamped
  /\ n.open => n.chunks + turn[t].dropped = turn[t].chunks + n.dropped

Moved(t, n) ==
  /\ turn' = [turn EXCEPT ![t] = n] /\ Live(t)
  /\ n.by = turn[t].by /\ n.conv = turn[t].conv
  /\ n.phase \in {"running", "failing", "over"}
  /\ n.open => turn[t].open /\ n.phase # "over"
  /\ n.by = None /\ n.phase # "over" => n.open
  /\ n.phase = "failing" => n.by = None
  /\ n.by = None => n.dropped = 0
  /\ n.dropped <= n.chunks
  /\ \/ UNCHANGED inFlight
     \/ /\ ~n.open /\ turn[t].open /\ turn[t].by # None
        /\ inFlight' = [inFlight EXCEPT ![turn[t].by] = FALSE]

(* Its shape, its session, and where frames come from.                      *)
LEMMA MoveKeepsShape ==
  ASSUME FeedAssumption, TypeOK, TurnInv, NEW t \in Turn, NEW n \in Closure,
         Moved(t, n), NotPublished(t, n) \/ \E e : Published(t, n, e)
  PROVE  TurnsAreShaped' /\ OneTurnPerSession' /\ FramesAreOfTurns'
         /\ turn' \in [Turn -> Closure]
<1>1. TurnsAreShaped /\ OneTurnPerSession /\ FramesAreOfTurns
  BY DEF TurnInv
<1>2. turn \in [Turn -> Closure] /\ inFlight \in [Device -> BOOLEAN]
  BY DEF TypeOK, Closure
<1>3. /\ turn'[t] = n /\ \A u \in Turn : u # t => turn'[u] = turn[u]
      /\ turn' \in [Turn -> Closure]
  BY <1>2 DEF Moved
<1>4. turn[t].conv \in Conv /\ turn[t].phase \notin {"idle", "over"}
  BY <1>1 DEF Moved, Live, TurnsAreShaped
<1>5. TurnsAreShaped'
  <2>1. ASSUME NEW u \in Turn, u # t
        PROVE  /\ turn'[u].phase = "idle" => turn'[u] = Fresh
               /\ turn'[u].phase # "idle" => turn'[u].conv \in Conv
               /\ turn'[u].open => Live(u)'
               /\ turn'[u].by = None /\ Live(u)' => turn'[u].open
               /\ turn'[u].phase = "failing" => turn'[u].by = None
               /\ turn'[u].by = None => turn'[u].dropped = 0
               /\ turn'[u].dropped <= turn'[u].chunks
    BY <2>1, <1>1, <1>3 DEF TurnsAreShaped, Live
  <2>2. /\ turn'[t].phase # "idle" /\ turn'[t].conv \in Conv
        /\ turn'[t].open => Live(t)'
        /\ turn'[t].by = None /\ Live(t)' => turn'[t].open
        /\ turn'[t].phase = "failing" => turn'[t].by = None
        /\ turn'[t].by = None => turn'[t].dropped = 0
        /\ turn'[t].dropped <= turn'[t].chunks
    BY <1>3, <1>4 DEF Moved, Live
  <2> QED BY <2>1, <2>2 DEF TurnsAreShaped, Fresh
<1>6. \A u \in Turn : /\ turn'[u].by = turn[u].by
                      /\ turn'[u].open => turn[u].open
  BY <1>3 DEF Moved
<1>7. OneTurnPerSession'
  <2>1. ASSUME NEW u \in Turn, turn'[u].open, turn'[u].by # None
        PROVE  inFlight'[turn'[u].by]
    <3>1. turn[u].open /\ turn[u].by # None /\ inFlight[turn[u].by]
          /\ turn[u].by \in Device
      BY <2>1, <1>1, <1>2, <1>6 DEF OneTurnPerSession, Closure
    <3>2. ASSUME ~n.open, turn[t].open, turn[t].by # None
          PROVE  turn[u].by # turn[t].by
      <4>1. u # t
        BY <3>2, <2>1, <1>3
      <4> QED BY <4>1, <3>1, <3>2, <1>1 DEF OneTurnPerSession
    <3> QED BY <3>1, <3>2, <1>2, <1>6 DEF Moved
  <2>2. \A u, v \in Turn :
          turn'[u].open /\ turn'[v].open /\ turn'[u].by = turn'[v].by
            /\ turn'[u].by # None => u = v
    BY <1>1, <1>6 DEF OneTurnPerSession
  <2> QED BY <2>1, <2>2 DEF OneTurnPerSession
<1>8. ASSUME NEW c \in Conv, NEW x \in stamped[c]
      PROVE  /\ turn'[x.frame.turn].conv = c
             /\ turn'[x.frame.turn].phase \notin {"idle", "preparing"}
             /\ x.frame.kind = "turn_done" =>
                  turn'[x.frame.turn].phase = "over"
  <2>1. x.frame.turn \in Turn
    BY EntriesTyped
  <2>2. /\ turn[x.frame.turn].conv = c
        /\ turn[x.frame.turn].phase \notin {"idle", "preparing"}
        /\ x.frame.kind = "turn_done" => turn[x.frame.turn].phase = "over"
    BY <1>1 DEF FramesAreOfTurns
  <2>3. CASE x.frame.turn = t
    BY <2>2, <2>3, <1>3, <1>4 DEF Moved
  <2>4. CASE x.frame.turn # t
    BY <2>1, <2>2, <2>4, <1>3
  <2> QED BY <2>3, <2>4
<1>9. FramesAreOfTurns'
  <2>1. CASE NotPublished(t, n)
    BY <2>1, <1>8 DEF FramesAreOfTurns, NotPublished
  <2>2. ASSUME NEW e, Published(t, n, e) PROVE FramesAreOfTurns'
    <3>1. /\ e.frame.turn = t
          /\ e.frame.kind = "turn_done" => turn'[t].phase = "over"
          /\ turn'[t].conv = turn[t].conv
          /\ turn'[t].phase \notin {"idle", "preparing"}
      BY <2>2, <1>3 DEF Published, Moved
    <3>2. \A c \in Conv : \A x \in stamped'[c] :
            x \in stamped[c] \/ (c = turn[t].conv /\ x = e)
      BY <2>2, <1>4 DEF Published, TypeOK
    <3>3. ASSUME NEW c \in Conv, NEW x \in stamped'[c]
          PROVE  /\ turn'[x.frame.turn].conv = c
                 /\ turn'[x.frame.turn].phase \notin {"idle", "preparing"}
                 /\ x.frame.kind = "turn_done" =>
                      turn'[x.frame.turn].phase = "over"
      BY <3>1, <3>2, <1>8
    <3> QED BY <3>3 DEF FramesAreOfTurns
  <2> QED BY <2>1, <2>2
<1> QED BY <1>3, <1>5, <1>7, <1>9

(* Its chunks, and what turn_done says of them.                             *)
LEMMA MoveKeepsCount ==
  ASSUME FeedAssumption, TypeOK, NumbersAreAssigned, TurnInv, NEW t \in Turn,
         NEW n \in Closure, Moved(t, n),
         NotPublished(t, n) \/ \E e : Published(t, n, e)
  PROVE  ChunksAreCounted' /\ LossIsReported'
<1>1. /\ FramesAreOfTurns /\ ChunksAreCounted /\ LossIsReported
      /\ TurnsAreShaped
  BY DEF TurnInv
<1>2. /\ turn \in [Turn -> Closure] /\ stamped \in [Conv -> SUBSET Entry]
      /\ MaxChunks \in Nat
  BY DEF TypeOK, Closure, FeedAssumption
<1>3. turn'[t] = n /\ \A u \in Turn : u # t => turn'[u] = turn[u]
  BY <1>2 DEF Moved
<1>4. /\ turn[t].chunks \in Nat /\ turn[t].dropped \in Nat
      /\ n.chunks \in Nat /\ n.dropped \in Nat
  BY <1>2 DEF Closure
<1> DEFINE k == turn[t].conv
           Done(c, u) == {y \in stamped'[c] : y.frame.kind = "chunk"
                                              /\ y.frame.turn = u}
<1>5. k \in Conv
  BY <1>1 DEF Moved, Live, TurnsAreShaped
<1>6. \A c \in Conv : IsFiniteSet(ChunksOf(c, t))
  <2>1. SUFFICES ASSUME NEW c \in Conv PROVE IsFiniteSet(ChunksOf(c, t))
    OBVIOUS
  <2>2. \A x, y \in stamped[c] : x.seq = y.seq => x = y
    BY DEF NumbersAreAssigned
  <2>3. IsFiniteSet(stamped[c])
    BY <2>2, <1>2, EntriesAreFinite
  <2>4. ChunksOf(c, t) \in SUBSET stamped[c]
    BY DEF ChunksOf
  <2> QED BY <2>3, <2>4, FS_Subset
<1>7. \A c \in Conv : Cardinality(ChunksOf(c, t)) \in Nat
  BY <1>6, FS_CardinalityType
<1>8. ASSUME NEW u \in Turn, u # t, NEW c \in Conv
      PROVE  Done(c, u) = ChunksOf(c, u)
  <2>1. CASE NotPublished(t, n)
    BY <2>1 DEF NotPublished, ChunksOf
  <2>2. ASSUME NEW e, Published(t, n, e) PROVE Done(c, u) = ChunksOf(c, u)
    <3>1. e.frame.turn = t
          /\ stamped' = [stamped EXCEPT ![k] = stamped[k] \cup {e}]
      BY <2>2 DEF Published
    <3> HIDE DEF k
    <3>2. stamped'[c] = stamped[c] \/ stamped'[c] = stamped[c] \cup {e}
      BY <3>1, <1>2
    <3> QED BY <3>1, <3>2, <1>8 DEF ChunksOf
  <2> QED BY <2>1, <2>2
<1>9. /\ n.open => Cardinality(Done(k, t)) + n.dropped = n.chunks
      /\ \A x \in stamped'[k] :
           x.frame.turn = t /\ x.frame.kind = "turn_done" /\ ~x.frame.lossy =>
             Cardinality(Done(k, t)) = n.chunks
  <2>1. CASE NotPublished(t, n)
    <3>1. Done(k, t) = ChunksOf(k, t) /\ stamped' = stamped
      BY <2>1 DEF NotPublished, ChunksOf
    <3>2. ASSUME n.open
          PROVE  Cardinality(ChunksOf(k, t)) + n.dropped = n.chunks
      <4>1. /\ Cardinality(ChunksOf(k, t)) + turn[t].dropped = turn[t].chunks
            /\ n.chunks + turn[t].dropped = turn[t].chunks + n.dropped
        BY <3>2, <2>1, <1>1 DEF NotPublished, Moved, ChunksAreCounted
      <4> QED BY <4>1, <1>4, <1>5, <1>7
    <3>3. \A x \in stamped[k] : ~(x.frame.turn = t
                                  /\ x.frame.kind = "turn_done")
      BY <1>1, <1>5 DEF FramesAreOfTurns, Moved, Live
    <3> HIDE DEF Done, k
    <3> QED BY <3>1, <3>2, <3>3
  <2>2. ASSUME NEW e, Published(t, n, e)
        PROVE  /\ n.open => Cardinality(Done(k, t)) + n.dropped = n.chunks
               /\ \A x \in stamped'[k] :
                    x.frame.turn = t /\ x.frame.kind = "turn_done"
                      /\ ~x.frame.lossy => Cardinality(Done(k, t)) = n.chunks
    <3>1. /\ turn[t].open /\ e.frame.turn = t
          /\ n.dropped = turn[t].dropped
          /\ n.chunks = IF e.frame.kind = "chunk" THEN turn[t].chunks + 1
                                                  ELSE turn[t].chunks
          /\ e.frame.kind = "turn_done" /\ ~e.frame.lossy =>
               turn[t].dropped = 0
      BY <2>2 DEF Published
    <3>2. stamped'[k] = stamped[k] \cup {e}
      BY <2>2, <1>2, <1>5 DEF Published
    <3>3. Cardinality(ChunksOf(k, t)) + turn[t].dropped = turn[t].chunks
      BY <3>1, <1>1 DEF ChunksAreCounted
    <3>4. e \notin stamped[k]
      <4>1. SUFFICES ASSUME e \in stamped[k] PROVE FALSE
        OBVIOUS
      <4>2. e.seq = sidecar[k].assigned + 1 /\ e.seq <= sidecar[k].assigned
        BY <2>2, <4>1, <1>5 DEF Published, NumbersAreAssigned
      <4>3. sidecar[k].assigned \in Nat
        BY <1>5 DEF TypeOK
      <4> QED BY <4>2, <4>3
    <3>5. CASE e.frame.kind = "chunk"
      <4>1. Done(k, t) = ChunksOf(k, t) \cup {e} /\ e \notin ChunksOf(k, t)
        BY <3>1, <3>2, <3>4, <3>5 DEF ChunksOf
      <4>2. Cardinality(Done(k, t)) = Cardinality(ChunksOf(k, t)) + 1
        BY <4>1, <1>5, <1>6, FS_AddElement
      <4>3. Cardinality(Done(k, t)) + n.dropped = n.chunks
        BY <4>2, <3>1, <3>3, <3>5, <1>4, <1>5, <1>7
      <4>4. \A x \in stamped'[k] : ~(x.frame.turn = t
                                     /\ x.frame.kind = "turn_done")
        BY <3>2, <3>5, <1>1, <1>5 DEF FramesAreOfTurns, Moved, Live
      <4> HIDE DEF Done, k
      <4> QED BY <4>3, <4>4
    <3>6. CASE e.frame.kind # "chunk"
      <4>1. Done(k, t) = ChunksOf(k, t)
        BY <3>1, <3>2, <3>6 DEF ChunksOf
      <4>2. Cardinality(Done(k, t)) + n.dropped = n.chunks
        BY <4>1, <3>1, <3>3, <3>6
      <4>3. \A x \in stamped'[k] :
              x.frame.turn = t /\ x.frame.kind = "turn_done" => x = e
        BY <3>2, <1>1, <1>5 DEF FramesAreOfTurns, Moved, Live
      <4>4. Cardinality(ChunksOf(k, t)) \in Nat
        BY <1>5, <1>7
      <4>5. turn[t].dropped = 0 => Cardinality(ChunksOf(k, t)) = n.chunks
        BY <4>4, <3>1, <3>3, <3>6, <1>4
      <4> HIDE DEF Done, k
      <4>6. turn[t].dropped = 0 => Cardinality(Done(k, t)) = n.chunks
        BY <4>1, <4>5
      <4> QED BY <4>2, <4>3, <4>6, <3>1
    <3> QED BY <3>5, <3>6
  <2> QED BY <2>1, <2>2
<1>10. \A c \in Conv : \A x \in stamped'[c] :
         x.frame.turn \in Turn /\ (x.frame.turn = t => c = k)
  <2>1. \A c \in Conv : \A x \in stamped[c] :
          x.frame.turn \in Turn /\ turn[x.frame.turn].conv = c
    BY <1>1, EntriesTyped DEF FramesAreOfTurns
  <2>2. CASE NotPublished(t, n)
    BY <2>1, <2>2 DEF NotPublished
  <2>3. ASSUME NEW e, Published(t, n, e)
        PROVE  \A c \in Conv : \A x \in stamped'[c] :
                 x.frame.turn \in Turn /\ (x.frame.turn = t => c = k)
    <3>1. \A c \in Conv : \A x \in stamped'[c] :
            x \in stamped[c] \/ (c = k /\ x = e)
      BY <2>3, <1>2, <1>5 DEF Published
    <3>2. e.frame.turn = t
      BY <2>3 DEF Published
    <3> QED BY <2>1, <3>1, <3>2
  <2> QED BY <2>2, <2>3
<1>11. ChunksAreCounted'
  <2>1. SUFFICES ASSUME NEW u \in Turn, turn'[u].open
                 PROVE  Cardinality(Done(turn'[u].conv, u)) + turn'[u].dropped
                          = turn'[u].chunks
    BY DEF ChunksAreCounted, ChunksOf
  <2> HIDE DEF Done
  <2>2. CASE u = t
    <3>1. n.conv = k
      BY DEF Moved
    <3> QED BY <2>1, <2>2, <3>1, <1>3, <1>9
  <2>3. CASE u # t
    <3>1. turn'[u] = turn[u] /\ turn[u].open
      BY <2>1, <2>3, <1>3
    <3>2. turn[u].conv \in Conv
      BY <3>1, <1>1 DEF TurnsAreShaped, Live
    <3>3. Done(turn[u].conv, u) = ChunksOf(turn[u].conv, u)
      BY <2>3, <3>2, <1>8
    <3> QED BY <3>1, <3>3, <1>1 DEF ChunksAreCounted
  <2> QED BY <2>2, <2>3
<1>12. LossIsReported'
  <2>1. SUFFICES ASSUME NEW c \in Conv, NEW x \in stamped'[c],
                        x.frame.kind = "turn_done", ~x.frame.lossy
                 PROVE  Cardinality(Done(c, x.frame.turn))
                          = turn'[x.frame.turn].chunks
    BY DEF LossIsReported
  <2> HIDE DEF Done
  <2>2. CASE x.frame.turn = t
    BY <2>1, <2>2, <1>3, <1>9, <1>10
  <2>3. CASE x.frame.turn # t
    <3>1. x \in stamped[c]
      <4>1. CASE NotPublished(t, n)
        BY <4>1, <2>1 DEF NotPublished
      <4>2. ASSUME NEW e, Published(t, n, e) PROVE x \in stamped[c]
        <5>1. e.frame.turn = t /\ (x \in stamped[c] \/ x = e)
          BY <4>2, <2>1, <1>2, <1>5 DEF Published
        <5> QED BY <5>1, <2>3
      <4> QED BY <4>1, <4>2
    <3>2. x.frame.turn \in Turn
      BY <2>1, <1>10
    <3>3. Cardinality(ChunksOf(c, x.frame.turn)) = turn[x.frame.turn].chunks
      BY <3>1, <2>1, <1>1 DEF LossIsReported, ChunksOf
    <3> QED BY <3>2, <3>3, <2>3, <1>3, <1>8
  <2> QED BY <2>2, <2>3
<1> QED BY <1>11, <1>12

(* Its place among the turns of its device, and its own brackets.           *)
LEMMA MoveKeepsBrackets ==
  ASSUME FeedAssumption, TypeOK, NumbersAreAssigned, TurnInv, NEW t \in Turn,
         NEW n \in Closure, Moved(t, n),
         NotPublished(t, n) \/ \E e : Published(t, n, e)
  PROVE  OpenTurnIsLast' /\ TurnsAreBracketed'
<1>1. /\ FramesAreOfTurns /\ OneTurnPerSession /\ OpenTurnIsLast
      /\ TurnsAreBracketed /\ TurnsAreShaped
  BY DEF TurnInv
<1>2. turn \in [Turn -> Closure] /\ stamped \in [Conv -> SUBSET Entry]
  BY DEF TypeOK, Closure
<1>3. \A u \in Turn : /\ turn'[u].by = turn[u].by
                      /\ turn'[u].open => turn[u].open
  BY <1>2 DEF Moved
<1>4. \A c \in Conv : \A x \in stamped[c] : x.frame.turn \in Turn
  BY EntriesTyped
<1>5. CASE NotPublished(t, n)
  <2>1. stamped' = stamped
    BY <1>5 DEF NotPublished
  <2>2. OpenTurnIsLast'
    BY <2>1, <1>1, <1>3, <1>4 DEF OpenTurnIsLast
  <2>3. TurnsAreBracketed'
    BY <2>1, <1>1, <1>3, <1>4 DEF TurnsAreBracketed
  <2> QED BY <2>2, <2>3
<1>6. ASSUME NEW e, Published(t, n, e)
      PROVE  OpenTurnIsLast' /\ TurnsAreBracketed'
  <2> DEFINE k == turn[t].conv
  <2>1. k \in Conv /\ turn[t].phase # "over"
    BY <1>1 DEF Moved, Live, TurnsAreShaped
  <2>2. /\ turn[t].open /\ e.frame.turn = t
        /\ e.frame.kind = "turn_started" => turn[t].phase = "preparing"
        /\ stamped'[k] = stamped[k] \cup {e}
        /\ \A c \in Conv : c # k => stamped'[c] = stamped[c]
    BY <1>6, <1>2, <2>1 DEF Published
  <2>3. \A x \in stamped[k] : x.seq \in Nat /\ x.seq < e.seq /\ e.seq \in Nat
    <3>1. e.seq = sidecar[k].assigned + 1 /\ sidecar[k].assigned \in Nat
      BY <1>6, <2>1 DEF Published, TypeOK
    <3>2. \A x \in stamped[k] : x.seq \in Nat /\ x.seq <= sidecar[k].assigned
      BY <2>1, EntriesTyped DEF NumbersAreAssigned
    <3> QED BY <3>1, <3>2
  <2>4. e.seq <= e.seq
    BY <1>6 DEF Published, Entry
  <2>5. /\ \A x \in stamped[k] : x.frame.turn = t => x.frame.kind # "turn_done"
        /\ turn[t].phase = "preparing" =>
             \A x \in stamped[k] : x.frame.turn # t
    BY <1>1, <2>1 DEF FramesAreOfTurns
  <2> HIDE DEF k
  <2>6. ASSUME NEW u \in Turn, turn'[u].open, turn'[u].by # None,
               NEW c \in Conv, NEW x \in stamped'[c], NEW y \in stamped'[c],
               x.frame.turn = u, y.frame.turn # u,
               turn'[y.frame.turn].by = turn'[u].by
        PROVE  y.seq < x.seq
    <3>1. y.frame.turn \in Turn
      BY <2>2, <2>6, <1>4
    <3>2. turn[u].open /\ turn[u].by # None
          /\ turn[y.frame.turn].by = turn[u].by
      BY <3>1, <2>6, <1>3
    <3>3. CASE x \in stamped[c] /\ y \in stamped[c]
      BY <3>2, <3>3, <2>6, <1>1 DEF OpenTurnIsLast
    <3>4. CASE c = k /\ x = e /\ y \in stamped[c]
      BY <3>4, <2>3
    <3>5. CASE c = k /\ y = e
      <4>1. u = t
        BY <3>2, <3>5, <2>2, <1>1 DEF OneTurnPerSession
      <4> QED BY <4>1, <3>5, <2>2, <2>6
    <3> QED BY <3>3, <3>4, <3>5, <2>2
  <2>7. OpenTurnIsLast'
    BY <2>6 DEF OpenTurnIsLast
  <2>8. ASSUME NEW c \in Conv, NEW x \in stamped'[c], NEW y \in stamped'[c],
               x.frame.turn = y.frame.turn, y.frame.kind = "turn_started"
        PROVE  y.seq <= x.seq
    <3>1. CASE x \in stamped[c] /\ y \in stamped[c]
      BY <3>1, <2>8, <1>1 DEF TurnsAreBracketed
    <3>2. CASE c = k /\ x = e
      <4>1. y = e \/ y \in stamped[k]
        BY <3>2, <2>2
      <4> QED BY <4>1, <3>2, <2>3, <2>4
    <3>3. CASE c = k /\ y = e /\ x \in stamped[c]
      BY <3>3, <2>2, <2>5, <2>8
    <3> QED BY <3>1, <3>2, <3>3, <2>2
  <2>9. ASSUME NEW c \in Conv, NEW x \in stamped'[c], NEW y \in stamped'[c],
               x.frame.turn = y.frame.turn, y.frame.kind = "turn_done"
        PROVE  x.seq <= y.seq
    <3>1. CASE x \in stamped[c] /\ y \in stamped[c]
      BY <3>1, <2>9, <1>1 DEF TurnsAreBracketed
    <3>2. CASE c = k /\ y = e
      <4>1. x = e \/ x \in stamped[k]
        BY <3>2, <2>2
      <4> QED BY <4>1, <3>2, <2>3, <2>4
    <3>3. CASE c = k /\ x = e /\ y \in stamped[c]
      BY <3>3, <2>2, <2>5, <2>9
    <3> QED BY <3>1, <3>2, <3>3, <2>2
  <2>10. ASSUME NEW c \in Conv, NEW x \in stamped'[c], NEW y \in stamped'[c],
                x.frame.turn # y.frame.turn,
                turn'[x.frame.turn].by = turn'[y.frame.turn].by,
                turn'[x.frame.turn].by # None,
                NEW z \in stamped'[c], z.frame.turn = x.frame.turn,
                x.seq < y.seq, y.seq < z.seq
         PROVE  FALSE
    <3> DEFINE v == x.frame.turn
               u == y.frame.turn
    <3>1. v \in Turn /\ u \in Turn
      BY <2>2, <2>10, <1>4
    <3>2. turn[v].by = turn[u].by /\ turn[v].by # None
      BY <3>1, <2>10, <1>3
    <3>3. x \in stamped[c] /\ y \in stamped[c]
      <4>1. CASE c # k
        BY <4>1, <2>2
      <4>2. CASE c = k
        <5>1. \A a \in stamped'[k] : a.seq \in Nat /\ a.seq <= e.seq
                                     /\ (a \in stamped[k] \/ a = e)
          <6>1. e.seq \in Nat
            BY <1>6 DEF Published, Entry
          <6> QED BY <6>1, <2>2, <2>3, <2>4
        <5>2. x # e /\ y # e
          BY <5>1, <4>2, <2>10
        <5> QED BY <5>1, <5>2, <4>2
      <4> QED BY <4>1, <4>2
    <3>4. CASE z \in stamped[c]
      BY <3>2, <3>3, <3>4, <2>10, <1>1 DEF TurnsAreBracketed
    <3>5. CASE c = k /\ z = e
      <4>1. v = t
        BY <3>5, <2>2, <2>10
      <4>2. y.seq < x.seq
        BY <4>1, <3>1, <3>2, <3>3, <2>2, <2>10, <1>1 DEF OpenTurnIsLast
      <4>3. x.seq \in Nat /\ y.seq \in Nat
        BY <3>3, EntriesTyped
      <4> QED BY <4>2, <4>3, <2>10
    <3> QED BY <3>4, <3>5, <2>2
  <2>11. TurnsAreBracketed'
    BY <2>8, <2>9, <2>10 DEF TurnsAreBracketed
  <2> QED BY <2>7, <2>11
<1> QED BY <1>5, <1>6

LEMMA MoveKeepsTurns ==
  ASSUME FeedAssumption, TypeOK, NumbersAreAssigned, TurnInv, NEW t \in Turn,
         NEW n \in Closure, Moved(t, n),
         NotPublished(t, n) \/ \E e : Published(t, n, e)
  PROVE  TurnInv' /\ turn' \in [Turn -> Closure]
BY MoveKeepsShape, MoveKeepsCount, MoveKeepsBrackets DEF TurnInv

-----------------------------------------------------------------------------
(* The invariant is inductive *)

LEMMA HalvesOfIInv == IInv <=> FeedInv /\ TypeTurns /\ TurnInv
<1>1. FeedInv => TypeFeed
  BY DEF FeedInv
<1>2. IInv => TypeOK
  BY DEF IInv, CursorInv
<1> QED BY <1>1, <1>2, TypeHalves, FeedInvIs DEF IInv

LEMMA HalvesOfIInvNext == (IInv <=> FeedInv /\ TypeTurns /\ TurnInv)'
BY HalvesOfIInv, PTL

(* A turn takes a step that publishes a frame.                              *)
LEMMA PublishingMoves ==
  ASSUME FeedAssumption, IInv, NEW t \in Turn, NEW n \in Closure, Moved(t, n),
         turn[t].open,
         NEW kind \in {"turn_started", "chunk", "error", "turn_done"},
         NEW i \in 0 .. MaxChunks, NEW lossy \in BOOLEAN,
         Publish(t, kind, i, lossy), n.dropped = turn[t].dropped,
         n.chunks = IF kind = "chunk" THEN turn[t].chunks + 1
                                      ELSE turn[t].chunks,
         kind = "turn_started" => turn[t].phase = "preparing",
         kind = "turn_done" => n.phase = "over" /\ ~n.open,
         kind = "turn_done" /\ ~lossy => turn[t].dropped = 0,
         UNCHANGED <<expired, ready, subs, action, cursor, fed, events>>
  PROVE  IInv'
<1> DEFINE c == turn[t].conv
           f == FrameOf(t, kind, i, lossy)
           e == EntryOf(c, f)
<1>1. /\ FeedInv /\ TypeTurns /\ TurnInv /\ TypeOK /\ TurnsAreShaped
      /\ CacheAgrees /\ NumbersAreAssigned
  BY HalvesOfIInv DEF IInv, CursorInv, TurnInv
<1>2. turn[t].phase # "idle"
  BY DEF Moved, Live
<1>3. c \in Conv /\ f \in Frame /\ Direct(t) \in SUBSET Device
      /\ StampEffect(c, f, Direct(t))
  BY <1>1, <1>2, PublishStamps
<1>4. /\ f.turn = t /\ f.kind = kind /\ f.lossy = lossy
      /\ e.seq = sidecar[c].assigned + 1 /\ e.frame = f
  BY DEF FrameOf, EntryOf
<1> HIDE DEF c, f
<1>5. FeedInv'
  BY <1>1, <1>3, PublishKeepsFeed
<1>6. /\ e.seq \in 1 .. MaxSeq
      /\ stamped' = [stamped EXCEPT ![c] = @ \cup {e}]
  BY <1>3 DEF StampEffect
<1>7. e \in Entry
  BY <1>3, <1>6 DEF Entry, EntryOf
<1> HIDE DEF e
<1>8. Published(t, n, e)
  BY <1>4, <1>6, <1>7 DEF Published, c
<1>9. TurnInv' /\ turn' \in [Turn -> Closure]
  BY <1>1, <1>8, MoveKeepsTurns
<1>10. TypeTurns'
  BY <1>1, <1>9 DEF TypeTurns, Moved, Closure
<1> QED BY <1>5, <1>9, <1>10, HalvesOfIInvNext

(* ... or one that publishes nothing.                                       *)
LEMMA QuietMoves ==
  ASSUME FeedAssumption, IInv, NEW t \in Turn, NEW n \in Closure, Moved(t, n),
         Unpublished, n.open => n.chunks + turn[t].dropped
                                  = turn[t].chunks + n.dropped,
         UNCHANGED <<expired, ready, subs, action, cursor, fed, events>>
  PROVE  IInv'
<1>1. /\ FeedInv /\ TypeTurns /\ TurnInv /\ TypeOK /\ NumbersAreAssigned
  BY HalvesOfIInv DEF IInv, CursorInv
<1>2. UNCHANGED <<sidecar, log, states, lru, wire, stamped>>
  BY DEF Unpublished, cacheVars
<1>3. FeedInv'
  BY <1>1, <1>2, QuietKeepsFeed
<1>4. NotPublished(t, n)
  BY <1>2 DEF NotPublished
<1>5. TurnInv' /\ turn' \in [Turn -> Closure]
  BY <1>1, <1>4, MoveKeepsTurns
<1>6. TypeTurns'
  BY <1>1, <1>5 DEF TypeTurns, Moved, Closure
<1> QED BY <1>3, <1>5, <1>6, HalvesOfIInvNext

(* What is known of a turn that is under way.                               *)
LEMMA UnderWay ==
  ASSUME FeedAssumption, IInv, NEW t \in Turn, Live(t)
  PROVE  /\ turn[t] \in Closure /\ turn \in [Turn -> Closure]
         /\ inFlight \in [Device -> BOOLEAN]
         /\ turn[t].by \in Device \cup {None}
         /\ turn[t].chunks \in Nat /\ turn[t].dropped \in Nat
         /\ turn[t].by = None => turn[t].open /\ turn[t].dropped = 0
         /\ turn[t].phase = "failing" => turn[t].by = None
         /\ turn[t].dropped <= turn[t].chunks
         /\ 0 \in 0 .. MaxChunks /\ MaxChunks \in Nat
<1>1. turn \in [Turn -> Closure] /\ inFlight \in [Device -> BOOLEAN]
  BY DEF IInv, CursorInv, TypeOK, Closure
<1>2. TurnsAreShaped
  BY DEF IInv, TurnInv
<1>3. MaxChunks \in Nat
  BY DEF FeedAssumption
<1> QED BY <1>1, <1>2, <1>3 DEF TurnsAreShaped, Closure

LEMMA RunCreatedKeeps ==
  ASSUME FeedAssumption, IInv, NEW t \in Turn, RunCreated(t)
  PROVE  IInv'
<1> DEFINE n == [turn[t] EXCEPT !.phase = "running"]
<1>1. /\ turn[t].phase = "preparing"
      /\ turn' = [turn EXCEPT ![t] = n]
      /\ IF turn[t].open THEN Publish(t, "turn_started", 0, FALSE)
                         ELSE Unpublished
      /\ UNCHANGED <<expired, ready, subs, inFlight, action, cursor, fed,
                     events>>
  BY Zenon DEF RunCreated, sessionVars, clientVars
<1>2. Live(t)
  BY <1>1 DEF Live
<1>3. /\ n \in Closure /\ n.by = turn[t].by /\ n.conv = turn[t].conv
      /\ n.phase = "running" /\ n.open = turn[t].open
      /\ n.chunks = turn[t].chunks /\ n.dropped = turn[t].dropped
  BY <1>2, UnderWay DEF Closure, Phases
<1> HIDE DEF n
<1>4. Moved(t, n)
  BY <1>1, <1>2, <1>3, UnderWay DEF Moved
<1>5. CASE turn[t].open
  <2>1. Publish(t, "turn_started", 0, FALSE) /\ 0 \in 0 .. MaxChunks
    BY <1>1, <1>2, <1>5, UnderWay
  <2>2. "turn_started" \in {"turn_started", "chunk", "error", "turn_done"}
        /\ FALSE \in BOOLEAN
    OBVIOUS
  <2> QED BY <2>1, <2>2, <1>1, <1>3, <1>4, <1>5, PublishingMoves
<1>6. CASE ~turn[t].open
  BY <1>1, <1>3, <1>4, <1>6, QuietMoves
<1> QED BY <1>5, <1>6

LEMMA ChunkKeeps ==
  ASSUME FeedAssumption, IInv, NEW t \in Turn, Chunk(t)
  PROVE  IInv'
<1>1. /\ turn[t].phase = "running" /\ turn[t].chunks < MaxChunks
      /\ UNCHANGED <<expired, ready, subs, inFlight, action, cursor, fed,
                     events>>
  BY DEF Chunk, sessionVars, clientVars
<1>2. Live(t)
  BY <1>1 DEF Live
<1> DEFINE k == turn[t].chunks + 1
           l == turn[t].dropped + 1
<1>3. k \in 0 .. MaxChunks /\ turn[t].dropped <= k
  BY <1>1, <1>2, UnderWay
<1>4. l \in 0 .. MaxChunks /\ l <= k
  BY <1>1, <1>2, UnderWay
<1>5. k + turn[t].dropped = turn[t].chunks + l
  BY <1>2, UnderWay
<1>6. CASE /\ turn' = [turn EXCEPT ![t].chunks = @ + 1]
           /\ IF turn[t].open THEN Publish(t, "chunk", turn[t].chunks, FALSE)
                              ELSE Unpublished
  <2> DEFINE n == [turn[t] EXCEPT !.chunks = k]
  <2>1. turn' = [turn EXCEPT ![t] = n]
    BY <1>6, Zenon
  <2> HIDE DEF k, l
  <2>2. /\ n \in Closure /\ n.by = turn[t].by /\ n.conv = turn[t].conv
        /\ n.phase = turn[t].phase /\ n.open = turn[t].open
        /\ n.chunks = k /\ n.dropped = turn[t].dropped
    BY <1>2, <1>3, UnderWay DEF Closure
  <2> HIDE DEF n
  <2>3. Moved(t, n)
    BY <2>1, <2>2, <1>1, <1>2, <1>3, UnderWay DEF Moved
  <2>4. CASE turn[t].open
    <3>1. "chunk" \in {"turn_started", "chunk", "error", "turn_done"}
          /\ FALSE \in BOOLEAN /\ turn[t].chunks \in 0 .. MaxChunks
      BY <1>2, UnderWay DEF Closure
    <3>2. Publish(t, "chunk", turn[t].chunks, FALSE)
      BY <1>6, <2>4
    <3>3. n.chunks = turn[t].chunks + 1
      BY <2>2 DEF k
    <3> QED BY <3>1, <3>2, <3>3, <2>2, <2>3, <2>4, <1>1, PublishingMoves
  <2>5. CASE ~turn[t].open
    BY <2>2, <2>3, <2>5, <1>1, <1>6, QuietMoves
  <2> QED BY <2>4, <2>5
<1>7. CASE /\ turn[t].by # None /\ turn[t].open /\ wire[turn[t].by] # <<>>
           /\ Drop(t) /\ Unpublished
  <2> DEFINE n == [turn[t] EXCEPT !.chunks = k, !.dropped = l]
  <2>1. turn' = [turn EXCEPT ![t] = n]
    BY <1>7, Zenon DEF Drop
  <2> HIDE DEF k, l
  <2>2. /\ n \in Closure /\ n.by = turn[t].by /\ n.conv = turn[t].conv
        /\ n.phase = turn[t].phase /\ n.open = turn[t].open
        /\ n.chunks = k /\ n.dropped = l
    BY <1>2, <1>3, <1>4, UnderWay DEF Closure
  <2> HIDE DEF n
  <2>3. Moved(t, n)
    BY <2>1, <2>2, <1>1, <1>2, <1>4, <1>7, UnderWay DEF Moved
  <2> QED BY <2>2, <2>3, <1>1, <1>5, <1>7, QuietMoves
<1> QED BY <1>6, <1>7 DEF Chunk

LEMMA TurnOverKeeps ==
  ASSUME FeedAssumption, IInv, NEW t \in Turn, TurnOver(t)
  PROVE  IInv'
<1> DEFINE n == [turn[t] EXCEPT !.phase = "over", !.open = FALSE]
<1>1. /\ turn[t].phase \in {"preparing", "running"}
      /\ Frees(t)
      /\ IF turn[t].open
         THEN Publish(t, "turn_done", 0, turn[t].dropped > 0) ELSE Unpublished
      /\ UNCHANGED <<expired, ready, subs, action, cursor, fed, events>>
  BY DEF TurnOver, clientVars
<1>2. turn' = [turn EXCEPT ![t] = n]
  BY Zenon DEF TurnOver
<1>3. Live(t)
  BY <1>1 DEF Live
<1>4. /\ n \in Closure /\ n.by = turn[t].by /\ n.conv = turn[t].conv
      /\ n.phase = "over" /\ n.open = FALSE
      /\ n.chunks = turn[t].chunks /\ n.dropped = turn[t].dropped
  BY <1>3, UnderWay DEF Closure, Phases
<1> HIDE DEF n
<1>5. Moved(t, n)
  BY <1>1, <1>2, <1>3, <1>4, UnderWay DEF Moved, Frees
<1>6. CASE turn[t].open
  <2> DEFINE lossy == turn[t].dropped > 0
  <2>1. /\ "turn_done" \in {"turn_started", "chunk", "error", "turn_done"}
        /\ lossy \in BOOLEAN /\ 0 \in 0 .. MaxChunks
        /\ (~lossy => turn[t].dropped = 0)
    BY <1>3, UnderWay
  <2>2. Publish(t, "turn_done", 0, lossy)
    BY <1>1, <1>6
  <2> HIDE DEF lossy
  <2> QED BY <2>1, <2>2, <1>1, <1>4, <1>5, <1>6, PublishingMoves
<1>7. CASE ~turn[t].open
  BY <1>1, <1>4, <1>5, <1>7, QuietMoves
<1> QED BY <1>6, <1>7

LEMMA FireFailsKeeps ==
  ASSUME FeedAssumption, IInv, NEW t \in Turn, FireFails(t)
  PROVE  IInv'
<1> DEFINE n == [turn[t] EXCEPT !.phase = "failing"]
<1>1. /\ turn[t].by = None /\ turn[t].phase \in {"preparing", "running"}
      /\ Publish(t, "error", 0, FALSE)
      /\ UNCHANGED <<expired, ready, subs, inFlight, action, cursor, fed,
                     events>>
  BY DEF FireFails, sessionVars, clientVars
<1>2. turn' = [turn EXCEPT ![t] = n]
  BY Zenon DEF FireFails
<1>3. Live(t)
  BY <1>1 DEF Live
<1>4. turn[t].open /\ turn[t].dropped = 0
  BY <1>1, <1>3, UnderWay
<1>5. /\ n \in Closure /\ n.by = turn[t].by /\ n.conv = turn[t].conv
      /\ n.phase = "failing" /\ n.open = turn[t].open
      /\ n.chunks = turn[t].chunks /\ n.dropped = turn[t].dropped
  BY <1>3, UnderWay DEF Closure, Phases
<1> HIDE DEF n
<1>6. Moved(t, n)
  BY <1>1, <1>2, <1>3, <1>4, <1>5, UnderWay DEF Moved
<1>7. "error" \in {"turn_started", "chunk", "error", "turn_done"}
      /\ FALSE \in BOOLEAN /\ 0 \in 0 .. MaxChunks
  BY <1>3, UnderWay
<1> QED BY <1>1, <1>4, <1>5, <1>6, <1>7, PublishingMoves

LEMMA FireFailedKeeps ==
  ASSUME FeedAssumption, IInv, NEW t \in Turn, FireFailed(t)
  PROVE  IInv'
<1> DEFINE n == [turn[t] EXCEPT !.phase = "over", !.open = FALSE]
<1>1. /\ turn[t].phase = "failing" /\ Publish(t, "turn_done", 0, FALSE)
      /\ UNCHANGED <<expired, ready, subs, inFlight, action, cursor, fed,
                     events>>
  BY DEF FireFailed, sessionVars, clientVars
<1>2. turn' = [turn EXCEPT ![t] = n]
  BY Zenon DEF FireFailed
<1>3. Live(t)
  BY <1>1 DEF Live
<1>4. turn[t].by = None /\ turn[t].open /\ turn[t].dropped = 0
  BY <1>1, <1>3, UnderWay
<1>5. /\ n \in Closure /\ n.by = turn[t].by /\ n.conv = turn[t].conv
      /\ n.phase = "over" /\ n.open = FALSE
      /\ n.chunks = turn[t].chunks /\ n.dropped = turn[t].dropped
  BY <1>3, UnderWay DEF Closure, Phases
<1> HIDE DEF n
<1>6. Moved(t, n)
  BY <1>1, <1>2, <1>3, <1>4, <1>5, UnderWay DEF Moved
<1>7. "turn_done" \in {"turn_started", "chunk", "error", "turn_done"}
      /\ FALSE \in BOOLEAN /\ 0 \in 0 .. MaxChunks
  BY <1>3, UnderWay
<1> QED BY <1>1, <1>4, <1>5, <1>6, <1>7, PublishingMoves

(* The turns' half does not look at what these steps change.                *)
LEMMA TurnsUntouched ==
  ASSUME TypeTurns, TurnInv, UNCHANGED <<turn, stamped, inFlight>>,
         action' \in [Device -> Conv \cup {None}], events' \in 0 .. MaxEvents
  PROVE  TypeTurns' /\ TurnInv'
<1>1. TypeTurns'
  BY DEF TypeTurns
<1>2. TurnsAreShaped' /\ OneTurnPerSession' /\ FramesAreOfTurns'
  BY DEF TurnInv, TurnsAreShaped, OneTurnPerSession, FramesAreOfTurns, Live
<1>3. ChunksAreCounted' /\ LossIsReported'
  BY DEF TurnInv, ChunksAreCounted, ChunksOf, LossIsReported
<1>4. OpenTurnIsLast' /\ TurnsAreBracketed'
  BY DEF TurnInv, OpenTurnIsLast, TurnsAreBracketed
<1> QED BY <1>1, <1>2, <1>3, <1>4 DEF TurnInv

LEMMA OccursTyped ==
  ASSUME FeedAssumption, TypeTurns, Occurs
  PROVE  events' \in 0 .. MaxEvents
BY DEF FeedAssumption, TypeTurns, Occurs

LEMMA SessionStepsKeep ==
  ASSUME FeedAssumption, IInv, NEW d \in Device, NEW c \in Opened,
         Resume(d, c) \/ Subscribe(d, c) \/ Unsubscribe(d, c) \/ Ack(d, c)
  PROVE  IInv'
<1>1. FeedInv /\ TypeTurns /\ TurnInv /\ TypeOK
  BY HalvesOfIInv DEF IInv, CursorInv
<1>2. UNCHANGED <<turn, stamped, inFlight, action>> /\ Occurs
  BY DEF Resume, Subscribe, Unsubscribe, Ack, sessionVars
<1>3. action' \in [Device -> Conv \cup {None}] /\ events' \in 0 .. MaxEvents
  BY <1>1, <1>2, OccursTyped DEF TypeTurns
<1>4. TypeTurns' /\ TurnInv'
  BY <1>1, <1>2, <1>3, TurnsUntouched
<1>5. FeedInv'
  BY <1>1, ResumeKeepsFeed, UnsubscribeKeepsFeed, AckKeepsFeed
<1> QED BY <1>4, <1>5, HalvesOfIInvNext

LEMMA HelloKeeps ==
  ASSUME FeedAssumption, IInv, NEW d \in Device, Hello(d)
  PROVE  IInv'
<1>1. FeedInv /\ TypeTurns /\ TurnInv /\ TypeOK
  BY HalvesOfIInv DEF IInv, CursorInv
<1>2. UNCHANGED <<turn, stamped, inFlight, action>> /\ Occurs
  BY DEF Hello
<1>3. action' \in [Device -> Conv \cup {None}] /\ events' \in 0 .. MaxEvents
  BY <1>1, <1>2, OccursTyped DEF TypeTurns
<1>4. TypeTurns' /\ TurnInv'
  BY <1>1, <1>2, <1>3, TurnsUntouched
<1> QED BY <1>1, <1>4, HelloKeepsFeed, HalvesOfIInvNext

LEMMA UserActionKeeps ==
  ASSUME FeedAssumption, IInv, NEW d \in Device, NEW c \in Opened,
         UserAction(d, c)
  PROVE  IInv'
<1>1. FeedInv /\ TypeTurns /\ TurnInv /\ c \in Conv
  BY HalvesOfIInv DEF FeedAssumption
<1>2. /\ UNCHANGED <<sidecar, log, expired, states, lru, ready, subs, wire,
                     cursor, fed, stamped>>
      /\ UNCHANGED <<turn, stamped, inFlight>>
      /\ action' = [action EXCEPT ![d] = c] /\ Occurs
  BY DEF UserAction, disk, cacheVars, clientVars
<1>3. action' \in [Device -> Conv \cup {None}] /\ events' \in 0 .. MaxEvents
  BY <1>1, <1>2, OccursTyped DEF TypeTurns
<1>4. TypeTurns' /\ TurnInv'
  BY <1>1, <1>2, <1>3, TurnsUntouched
<1> QED BY <1>1, <1>2, <1>4, QuietKeepsFeed, HalvesOfIInvNext

LEMMA ExpireKeeps ==
  ASSUME FeedAssumption, IInv, NEW c \in Conv, Expire(c)
  PROVE  IInv'
<1>1. FeedInv /\ TypeTurns /\ TurnInv /\ TypeOK
  BY HalvesOfIInv DEF IInv, CursorInv
<1>2. UNCHANGED <<turn, stamped, inFlight, action>> /\ Occurs
  BY DEF Expire, sessionVars
<1>3. action' \in [Device -> Conv \cup {None}] /\ events' \in 0 .. MaxEvents
  BY <1>1, <1>2, OccursTyped DEF TypeTurns
<1>4. TypeTurns' /\ TurnInv'
  BY <1>1, <1>2, <1>3, TurnsUntouched
<1> QED BY <1>1, <1>4, ExpireKeepsFeed, HalvesOfIInvNext

LEMMA ReadKeepsAll ==
  ASSUME FeedAssumption, IInv, NEW d \in Device, Read(d)
  PROVE  IInv'
<1>1. FeedInv /\ TypeTurns /\ TurnInv /\ TypeOK
  BY HalvesOfIInv DEF IInv, CursorInv
<1>2. UNCHANGED <<turn, stamped, inFlight, action, events>>
  BY DEF Read, sessionVars
<1>3. action' \in [Device -> Conv \cup {None}] /\ events' \in 0 .. MaxEvents
  BY <1>1, <1>2 DEF TypeTurns
<1>4. TypeTurns' /\ TurnInv'
  BY <1>1, <1>2, <1>3, TurnsUntouched
<1> QED BY <1>1, <1>4, ReadKeepsFeed, HalvesOfIInvNext

LEMMA SendMessageKeeps ==
  ASSUME FeedAssumption, IInv, NEW d \in Device, NEW c \in Opened,
         NEW t \in Turn, SendMessage(d, c, t)
  PROVE  IInv'
<1>1. FeedInv /\ TypeTurns /\ TurnInv /\ TypeOK /\ c \in Conv /\ d # None
  BY HalvesOfIInv DEF IInv, CursorInv, FeedAssumption
<1>2. /\ UNCHANGED <<sidecar, log, expired, states, lru, ready, subs, wire,
                     cursor, fed, stamped>>
      /\ UNCHANGED <<stamped, action>> /\ Occurs
      /\ turn[t].phase = "idle" /\ Begun(t, d, c) /\ ~inFlight[d]
      /\ inFlight' = [inFlight EXCEPT ![d] = TRUE]
  BY DEF SendMessage, disk, cacheVars, clientVars
<1>3. TurnInv' /\ turn' \in [Turn -> Closure]
  BY <1>1, <1>2, BegunKeepsTurns
<1>4. events' \in 0 .. MaxEvents
  BY <1>1, <1>2, OccursTyped
<1>5. TypeTurns'
  BY <1>1, <1>2, <1>3, <1>4 DEF TypeTurns, Closure
<1> QED BY <1>1, <1>2, <1>3, <1>5, QuietKeepsFeed, HalvesOfIInvNext

LEMMA DispatchActionKeeps ==
  ASSUME FeedAssumption, IInv, NEW d \in Device, NEW t \in Turn,
         DispatchAction(d, t)
  PROVE  IInv'
<1>1. FeedInv /\ TypeTurns /\ TurnInv /\ TypeOK /\ d # None
  BY HalvesOfIInv DEF IInv, CursorInv, FeedAssumption
<1>2. /\ UNCHANGED <<sidecar, log, expired, states, lru, ready, subs, wire,
                     cursor, fed, stamped>>
      /\ UNCHANGED <<stamped, events>>
      /\ action[d] # None /\ action' = [action EXCEPT ![d] = None]
  BY DEF DispatchAction, disk, cacheVars, clientVars
<1>3. action' \in [Device -> Conv \cup {None}] /\ events' \in 0 .. MaxEvents
      /\ action[d] \in Conv
  BY <1>1, <1>2 DEF TypeTurns
<1>4. FeedInv'
  BY <1>1, <1>2, QuietKeepsFeed
<1>5. CASE SessionIdle(d)
  <2>1. /\ turn[t].phase = "idle" /\ Begun(t, d, action[d]) /\ ~inFlight[d]
        /\ inFlight' = [inFlight EXCEPT ![d] = TRUE]
    BY <1>5 DEF DispatchAction, SessionIdle
  <2>2. TurnInv' /\ turn' \in [Turn -> Closure]
    BY <2>1, <1>1, <1>2, <1>3, BegunKeepsTurns
  <2>3. TypeTurns'
    BY <2>1, <2>2, <1>1, <1>3 DEF TypeTurns, Closure
  <2> QED BY <2>2, <2>3, <1>4, HalvesOfIInvNext
<1>6. CASE ~SessionIdle(d)
  <2>1. UNCHANGED <<turn, stamped, inFlight>>
    BY <1>2, <1>6 DEF DispatchAction
  <2> QED BY <2>1, <1>1, <1>3, <1>4, TurnsUntouched, HalvesOfIInvNext
<1> QED BY <1>5, <1>6

LEMMA CronFiresKeeps ==
  ASSUME FeedAssumption, IInv, NEW c \in Conv, NEW t \in Turn, CronFires(c, t)
  PROVE  IInv'
<1>1. FeedInv /\ TypeTurns /\ TurnInv /\ TypeOK
  BY HalvesOfIInv DEF IInv, CursorInv
<1>2. /\ UNCHANGED <<sidecar, log, expired, states, lru, ready, subs, wire,
                     cursor, fed, stamped>>
      /\ UNCHANGED stamped /\ UNCHANGED inFlight /\ UNCHANGED action
      /\ Occurs /\ turn[t].phase = "idle" /\ Begun(t, None, c)
  BY DEF CronFires, disk, cacheVars, sessionVars, clientVars
<1>3. TurnInv' /\ turn' \in [Turn -> Closure]
  BY <1>1, <1>2, BegunKeepsTurns
<1>4. events' \in 0 .. MaxEvents
  BY <1>1, <1>2, OccursTyped
<1>5. TypeTurns'
  BY <1>1, <1>2, <1>3, <1>4 DEF TypeTurns, Closure
<1> QED BY <1>1, <1>2, <1>3, <1>5, QuietKeepsFeed, HalvesOfIInvNext

LEMMA CloseKeeps ==
  ASSUME FeedAssumption, IInv, NEW d \in Device, Close(d)
  PROVE  IInv'
<1>1. FeedInv /\ TypeTurns /\ TurnInv /\ TypeOK /\ d # None
      /\ OneTurnPerSession
  BY HalvesOfIInv DEF IInv, CursorInv, TurnInv, FeedAssumption
<1>2. /\ Occurs /\ UNCHANGED stamped
      /\ inFlight' = [inFlight EXCEPT ![d] = FALSE]
      /\ action' = [action EXCEPT ![d] = None]
      /\ turn' = [t \in Turn |-> IF turn[t].by = d
                                 THEN [turn[t] EXCEPT !.open = FALSE]
                                 ELSE turn[t]]
  BY DEF Close
<1>3. events' \in 0 .. MaxEvents
  BY <1>1, <1>2, OccursTyped
<1>4. turn \in [Turn -> Closure] /\ inFlight \in [Device -> BOOLEAN]
      /\ Fresh.by = None
  BY <1>1 DEF TypeTurns, Closure, Fresh
<1>5. ASSUME NEW t \in Turn, turn[t].by = d
      PROVE  /\ turn'[t] \in Closure /\ SameTurn(t) /\ ~turn'[t].open
             /\ turn'[t].phase = turn[t].phase
  BY <1>2, <1>4, <1>5 DEF Closure, SameTurn
<1>6. \A t \in Turn : turn[t].by # d => turn'[t] = turn[t]
  BY <1>2
<1>7. turn' \in [Turn -> Closure]
  <2>1. \A t \in Turn : turn'[t] \in Closure
    BY <1>4, <1>5, <1>6
  <2>2. turn' = [t \in Turn |-> turn'[t]]
    BY <1>2
  <2> QED BY <2>1, <2>2
<1>8. ASSUME NEW t \in Turn
      PROVE  /\ SameTurn(t)
             /\ turn'[t].open => turn[t].open
             /\ turn'[t].phase = turn[t].phase
             /\ turn[t].phase = "idle" => turn'[t] = turn[t]
             /\ turn[t].by = None => turn'[t].open = turn[t].open
             /\ turn'[t].open /\ turn[t].by # None => inFlight'[turn[t].by]
  <2>1. turn[t].phase = "idle" => turn[t].by # d
    BY <1>1, <1>4 DEF TurnInv, TurnsAreShaped
  <2>2. turn[t].by \in Device \cup {None}
    BY <1>4 DEF Closure
  <2>3. CASE turn[t].by = d
    BY <2>1, <2>3, <1>1, <1>5
  <2>4. CASE turn[t].by # d
    BY <2>2, <2>4, <1>1, <1>2, <1>4, <1>6 DEF SameTurn, OneTurnPerSession
  <2> QED BY <2>3, <2>4
<1>9. TurnInv'
  BY <1>1, <1>2, <1>7, <1>8, ClosingKeepsTurns
<1>10. TypeTurns'
  BY <1>1, <1>2, <1>3, <1>7 DEF TypeTurns, Closure
<1> QED BY <1>1, <1>9, <1>10, CloseKeepsFeed, HalvesOfIInvNext

LEMMA RestartKeeps ==
  ASSUME FeedAssumption, IInv, Restart
  PROVE  IInv'
<1>1. FeedInv /\ TypeTurns /\ TurnInv /\ TypeOK /\ TurnsAreShaped
  BY HalvesOfIInv DEF IInv, CursorInv, TurnInv
<1>2. /\ Occurs /\ UNCHANGED stamped
      /\ inFlight' = [d \in Device |-> FALSE]
      /\ action' = [d \in Device |-> None]
      /\ turn' = [t \in Turn |-> IF Live(t)
                    THEN [turn[t] EXCEPT !.phase = "lost", !.open = FALSE]
                    ELSE turn[t]]
  BY DEF Restart
<1>3. events' \in 0 .. MaxEvents
  BY <1>1, <1>2, OccursTyped
<1>4. turn \in [Turn -> Closure]
  BY <1>1 DEF TypeTurns, Closure
<1>5. ASSUME NEW t \in Turn, Live(t)
      PROVE  /\ turn'[t] \in Closure /\ SameTurn(t) /\ ~turn'[t].open
             /\ turn'[t].phase = "lost" /\ turn[t].phase # "idle"
             /\ turn[t].phase # "lost"
  BY <1>2, <1>4, <1>5 DEF Closure, SameTurn, Phases, Live
<1>6. \A t \in Turn : ~Live(t) => turn'[t] = turn[t] /\ ~turn[t].open
  BY <1>1, <1>2 DEF TurnsAreShaped
<1>7. turn' \in [Turn -> Closure]
  <2>1. \A t \in Turn : turn'[t] \in Closure
    BY <1>4, <1>5, <1>6
  <2>2. turn' = [t \in Turn |-> turn'[t]]
    BY <1>2
  <2> QED BY <2>1, <2>2
<1>8. ASSUME NEW t \in Turn
      PROVE  /\ SameTurn(t)
             /\ ~turn'[t].open
             /\ \/ turn'[t].phase = turn[t].phase /\ turn'[t].open = turn[t].open
                \/ Live(t) /\ turn'[t].phase = "lost"
                   /\ turn'[t].phase # turn[t].phase
             /\ turn[t].phase = "idle" => turn'[t] = turn[t]
  <2>1. CASE Live(t)
    BY <2>1, <1>5
  <2>2. CASE ~Live(t)
    BY <2>2, <1>6 DEF SameTurn
  <2> QED BY <2>1, <2>2
<1>9. TurnInv'
  BY <1>1, <1>2, <1>7, <1>8, ClosingKeepsTurns
<1>10. TypeTurns'
  BY <1>1, <1>2, <1>3, <1>7 DEF TypeTurns, Closure
<1> QED BY <1>1, <1>9, <1>10, RestartKeepsFeed, HalvesOfIInvNext

LEMMA InitIInv ==
  ASSUME FeedAssumption, Init
  PROVE  IInv
<1>1. /\ MaxSeq \in Nat /\ CacheMax \in Nat /\ CompactEvery \in Nat
      /\ MaxChunks \in Nat /\ MaxEvents \in Nat
  BY DEF FeedAssumption
<1>2. 0 \in 0 .. MaxSeq /\ 0 \in 0 .. CompactEvery /\ 0 \in 0 .. MaxChunks
      /\ 0 \in 0 .. MaxEvents /\ 0 <= CacheMax
  BY <1>1
<1>3. <<>> \in Seq(Conv) /\ Len(<<>>) = 0 /\ <<>> \in Seq(Message)
  OBVIOUS
<1>4. NoState \in State /\ Fresh \in Closure
  BY <1>2 DEF NoState, State, Fresh, Closure, Phases
<1>5. TypeFeed
  BY <1>2, <1>3, <1>4 DEF Init, TypeFeed
<1>6. TypeTurns
  BY <1>2, <1>4 DEF Init, TypeTurns, Closure
<1>7. CacheAgrees
  <2>1. ToSet(<<>>) = {}
    BY DEF ToSet
  <2> QED BY <2>1 DEF Init, CacheAgrees
<1>8. \A c \in Conv : stamped[c] = {} /\ log[c] = {}
  BY DEF Init
<1>9. NumbersAreAssigned /\ LogIsATail
  BY <1>8 DEF NumbersAreAssigned, LogIsATail
<1>10. \A d \in Device : wire[d] = <<>> /\ subs[d] = {} /\ fed[d] = {}
  BY DEF Init
<1>11. WireInv
  <2>1. \A d \in Device : 1 .. Len(wire[d]) = {}
    BY <1>3, <1>10
  <2>2. ready = {}
    BY DEF Init
  <2> QED BY <2>1, <2>2, <1>10 DEF WireInv, FollowersSubscribed,
                WireIsAssigned, NothingFallsBetween, NothingIsJumped
<1>12. \A t \in Turn : turn[t] = Fresh
  BY DEF Init
<1>13. TurnInv
  <2>1. TurnsAreShaped /\ OneTurnPerSession
    <3>1. /\ Fresh.phase = "idle" /\ ~Fresh.open /\ Fresh.dropped = 0
          /\ Fresh.dropped <= Fresh.chunks
      BY DEF Fresh
    <3>2. \A t \in Turn : ~Live(t)
      BY <3>1, <1>12 DEF Live
    <3> QED BY <3>1, <3>2, <1>12 DEF TurnsAreShaped, OneTurnPerSession
  <2>2. FramesAreOfTurns /\ LossIsReported /\ OpenTurnIsLast
        /\ TurnsAreBracketed
    BY <1>8 DEF FramesAreOfTurns, LossIsReported, OpenTurnIsLast,
                TurnsAreBracketed
  <2>3. ChunksAreCounted
    BY <1>12 DEF ChunksAreCounted, Fresh
  <2> QED BY <2>1, <2>2, <2>3 DEF TurnInv
<1> QED BY <1>5, <1>6, <1>7, <1>9, <1>11, <1>13, TypeHalves
    DEF IInv, CursorInv

LEMMA NextKeepsIInv ==
  ASSUME FeedAssumption, IInv, [Next]_vars
  PROVE  IInv'
<1>1. ASSUME NEW d \in Device, Hello(d) PROVE IInv'
  BY <1>1, HelloKeeps
<1>2. ASSUME NEW d \in Device, Close(d) PROVE IInv'
  BY <1>2, CloseKeeps
<1>3. ASSUME NEW d \in Device, Read(d) PROVE IInv'
  BY <1>3, ReadKeepsAll
<1>4. ASSUME NEW d \in Device, NEW c \in Opened,
             Resume(d, c) \/ Subscribe(d, c) \/ Unsubscribe(d, c) \/ Ack(d, c)
      PROVE  IInv'
  BY <1>4, SessionStepsKeep
<1>5. ASSUME NEW d \in Device, NEW c \in Opened, UserAction(d, c) PROVE IInv'
  BY <1>5, UserActionKeeps
<1>6. ASSUME NEW d \in Device, NEW c \in Opened, NEW t \in Turn,
             SendMessage(d, c, t)
      PROVE  IInv'
  BY <1>6, SendMessageKeeps
<1>7. ASSUME NEW d \in Device, NEW t \in Turn, DispatchAction(d, t) PROVE IInv'
  BY <1>7, DispatchActionKeeps
<1>8. ASSUME NEW c \in Conv, NEW t \in Turn, CronFires(c, t) PROVE IInv'
  BY <1>8, CronFiresKeeps
<1>9. ASSUME NEW t \in Turn, RunCreated(t) PROVE IInv'
  BY <1>9, RunCreatedKeeps
<1>10. ASSUME NEW t \in Turn, Chunk(t) PROVE IInv'
  BY <1>10, ChunkKeeps
<1>11. ASSUME NEW t \in Turn, TurnOver(t) PROVE IInv'
  BY <1>11, TurnOverKeeps
<1>12. ASSUME NEW t \in Turn, FireFails(t) PROVE IInv'
  BY <1>12, FireFailsKeeps
<1>13. ASSUME NEW t \in Turn, FireFailed(t) PROVE IInv'
  BY <1>13, FireFailedKeeps
<1>14. ASSUME NEW c \in Conv, Expire(c) PROVE IInv'
  BY <1>14, ExpireKeeps
<1>15. CASE Restart
  BY <1>15, RestartKeeps
<1>16. CASE UNCHANGED vars
  <2>1. FeedInv /\ TypeTurns /\ TurnInv
    BY HalvesOfIInv
  <2>2. /\ UNCHANGED <<sidecar, log, expired, states, lru, ready, subs, wire,
                       cursor, fed, stamped>>
        /\ UNCHANGED <<turn, stamped, inFlight>> /\ UNCHANGED action
        /\ UNCHANGED events
    BY <1>16 DEF vars
  <2>3. action' \in [Device -> Conv \cup {None}] /\ events' \in 0 .. MaxEvents
    BY <2>1, <2>2 DEF TypeTurns
  <2> QED BY <2>1, <2>2, <2>3, QuietKeepsFeed, TurnsUntouched, HalvesOfIInvNext
<1> QED BY <1>1, <1>2, <1>3, <1>4, <1>5, <1>6, <1>7, <1>8, <1>9, <1>10, <1>11,
           <1>12, <1>13, <1>14, <1>15, <1>16 DEF Next

-----------------------------------------------------------------------------
(* Theorems *)

(* The invariant holds throughout: what a session, a turn, the cache, the   *)
(* disk and a connection know of a conversation fits together, whatever     *)
(* order the callbacks come in and whatever breaks or restarts.             *)
THEOREM FeedInvariant == Spec => []IInv
<1> USE FeedAssumption
<1>1. Init => IInv
  BY InitIInv
<1>2. IInv /\ [Next]_vars => IInv'
  BY NextKeepsIInv
<1> QED BY <1>1, <1>2, PTL DEF Spec

(* Every variable keeps its type and its bound; above all, the cursor cache *)
(* never holds more conversations than its cap.                             *)
THEOREM FeedTyping == Spec => []TypeOK
BY FeedInvariant, PTL DEF IInv, CursorInv

(* subscribe_conversation loses nothing between its replay and its live     *)
(* listener: every frame beyond the client's cursor is on its connection,   *)
(* or word that the cursor expired is.                                      *)
THEOREM ReplayMeetsTheLiveTail == Spec => []NothingFallsBetween
BY FeedInvariant, PTL DEF IInv, WireInv

(* A turn_done that does not report dropped frames closes a turn of which   *)
(* every frame was stamped (droppedFrameCount in the turn's closure).       *)
THEOREM DroppedFramesAreReported == Spec => []LossIsReported
BY FeedInvariant, PTL DEF IInv, TurnInv

(* turn_started comes first and turn_done last among the frames of a turn,  *)
(* and two turns of one device do not interleave in a conversation.         *)
THEOREM TurnsOfADeviceDoNotMix == Spec => []TurnsAreBracketed
BY FeedInvariant, PTL DEF IInv, TurnInv

-----------------------------------------------------------------------------
(* The feed implements OrderedFeed *)

(* The published numbers of a conversation and how many frames they name.   *)
Numbers == [c \in Conv |-> {x.seq : x \in stamped[c]}]
Frames == [c \in Conv |-> Cardinality(stamped[c])]

LEMMA StampPublishes ==
  ASSUME FeedAssumption, IInv, NEW c \in Conv, NEW f \in Frame,
         NEW D \in SUBSET Device, StampEffect(c, f, D),
         UNCHANGED <<cursor, fed>>
  PROVE  Feed!Publish(c)
<1> DEFINE e == EntryOf(c, f)
<1>1. TypeOK /\ NumbersAreAssigned
  BY DEF IInv, CursorInv
<1>2. stamped \in [Conv -> SUBSET Entry] /\ sidecar[c].assigned \in Nat
  BY <1>1 DEF TypeOK
<1>3. /\ e.seq = sidecar[c].assigned + 1 /\ e.seq \in 1 .. MaxSeq
      /\ stamped' = [stamped EXCEPT ![c] = @ \cup {e}]
  BY DEF StampEffect, EntryOf
<1> HIDE DEF e
<1>4. /\ stamped'[c] = stamped[c] \cup {e}
      /\ \A k \in Conv : k # c => stamped'[k] = stamped[k]
  BY <1>2, <1>3
<1>5. \A x \in stamped[c] : x.seq \in Nat /\ x.seq <= sidecar[c].assigned
  BY <1>1, EntriesTyped DEF NumbersAreAssigned
<1>6. \A x \in stamped[c] : x.seq < e.seq
  BY <1>2, <1>3, <1>5
<1>7. IsFiniteSet(stamped[c])
  <2>1. /\ stamped[c] \in SUBSET Entry
        /\ \A x, y \in stamped[c] : x.seq = y.seq => x = y
    BY <1>1, <1>2 DEF NumbersAreAssigned
  <2> QED BY <2>1, EntriesAreFinite
<1>8. Cardinality(stamped'[c]) = Cardinality(stamped[c]) + 1
  <2>1. e \notin stamped[c]
    BY <1>2, <1>3, <1>5, <1>6
  <2> QED BY <2>1, <1>4, <1>7, FS_AddElement
<1>9. Frames' = [Frames EXCEPT ![c] = @ + 1]
  BY <1>4, <1>8 DEF Frames
<1>10. {x.seq : x \in stamped'[c]} = {x.seq : x \in stamped[c]} \cup {e.seq}
  BY <1>4
<1>11. Numbers' = [Numbers EXCEPT ![c] = @ \cup {e.seq}]
  BY <1>4, <1>10 DEF Numbers
<1>12. \A p \in Numbers[c] : p < e.seq
  BY <1>6 DEF Numbers
<1> QED BY <1>3, <1>9, <1>11, <1>12 DEF Feed!Publish, Numbers, Frames

(* A client reads: it follows, gets the next frame it lacks, or, while it   *)
(* does not follow, jumps to what it fetches.                               *)
LEMMA ReadImplements ==
  ASSUME FeedAssumption, IInv, NEW d \in Device, Read(d)
  PROVE  [Feed!Next]_Feed!vars
<1> DEFINE m == Head(wire[d])
<1>1. /\ UNCHANGED stamped /\ wire[d] # <<>>
      /\ IF m.type = "subscribed"
         THEN /\ fed' = [fed EXCEPT ![d] = @ \cup {m.conv}]
              /\ UNCHANGED cursor
         ELSE /\ cursor' = [cursor EXCEPT ![d][m.conv] =
                              IF m.seq > @ THEN m.seq ELSE @]
              /\ UNCHANGED fed
  BY DEF Read
<1>2. TypeOK /\ DeviceOK(d)
  BY HalvesOfIInv DEF FeedInv, IInv, CursorInv
<1>3. /\ wire[d] \in Seq(Message) /\ cursor \in [Device -> [Conv -> 0 .. MaxSeq]]
      /\ MaxSeq \in Nat
  BY <1>2 DEF TypeOK, FeedAssumption
<1>4. m \in Message /\ m = wire[d][1] /\ 1 \in 1 .. Len(wire[d])
  BY <1>1, <1>3, HeadTailProperties, EmptySeq
<1>5. m.conv \in Conv /\ m.seq \in 0 .. MaxSeq
  BY <1>4 DEF Message
<1> HIDE DEF m
<1>6. UNCHANGED <<Numbers, Frames>>
  BY <1>1 DEF Numbers, Frames
<1>7. CASE m.type = "subscribed"
  <2>1. Feed!Follow(d, m.conv)
    BY <1>1, <1>6, <1>7 DEF Feed!Follow, Numbers, Frames
  <2> QED BY <2>1, <1>5 DEF Feed!Next
<1>8. CASE m.type # "subscribed" /\ cursor[d][m.conv] < m.seq
  <2>1. cursor' = [cursor EXCEPT ![d][m.conv] = m.seq] /\ UNCHANGED fed
    <3>1. m.seq > cursor[d][m.conv]
      BY <1>8
    <3> QED BY <3>1, <1>1, <1>8
  <2>2. m.seq \in 1 .. MaxSeq
    <3>1. cursor[d][m.conv] \in 0 .. MaxSeq
      BY <1>3, <1>5
    <3> QED BY <3>1, <1>3, <1>5, <1>8
  <2>3. Feed!Moves(d, m.conv, m.seq)
    BY <2>1, <1>6, <1>8 DEF Feed!Moves, Numbers, Frames
  <2>4. CASE m.conv \in fed[d]
    <3>1. \A x \in stamped[m.conv] :
            x.seq < m.seq => x.seq <= cursor[d][m.conv]
      <4>1. Unjumped(d, 1)
        BY <1>2, <1>4 DEF DeviceOK, OrderOK
      <4>2. 1 .. 1 - 1 = {}
        OBVIOUS
      <4> QED BY <4>1, <4>2, <1>4, <1>8, <2>4 DEF Unjumped, FollowsAt
    <3>2. \A x \in stamped[m.conv] : x.seq \in Nat
      BY <1>2, <1>5, EntriesTyped
    <3>3. \A p \in Numbers[m.conv] : p <= cursor[d][m.conv] \/ m.seq <= p
      BY <3>1, <3>2, <1>5 DEF Numbers
    <3>4. Feed!Receive(d, m.conv)
      BY <3>3, <2>2, <2>3 DEF Feed!Receive, Numbers
    <3> QED BY <3>4, <1>5 DEF Feed!Next
  <2>5. CASE m.conv \notin fed[d]
    <3>1. Feed!Refetch(d, m.conv)
      BY <2>2, <2>3, <2>5 DEF Feed!Refetch
    <3> QED BY <3>1, <1>5 DEF Feed!Next
  <2> QED BY <2>4, <2>5
<1>9. CASE m.type # "subscribed" /\ ~(cursor[d][m.conv] < m.seq)
  <2>1. cursor' = [cursor EXCEPT ![d][m.conv] = @] /\ UNCHANGED fed
    BY <1>1, <1>3, <1>5, <1>9
  <2>2. UNCHANGED cursor
    BY <2>1, <1>3, <1>5
  <2> QED BY <2>1, <2>2, <1>6 DEF Feed!vars, Numbers, Frames
<1> QED BY <1>7, <1>8, <1>9

(* A step of a turn publishes a frame or leaves the feed alone.             *)
LEMMA TurnStepImplements ==
  ASSUME FeedAssumption, IInv, NEW t \in Turn,
         \/ RunCreated(t) \/ Chunk(t) \/ TurnOver(t) \/ FireFails(t)
         \/ FireFailed(t)
  PROVE  [Feed!Next]_Feed!vars
<1>1. /\ Live(t) /\ UNCHANGED <<cursor, fed>>
      /\ \/ Unpublished
         \/ \E kind \in {"turn_started", "chunk", "error", "turn_done"},
               n \in {0, turn[t].chunks}, lossy \in BOOLEAN :
              Publish(t, kind, n, lossy)
  <2> DEFINE Kinds == {"turn_started", "chunk", "error", "turn_done"}
             Says == \E kind \in Kinds, n \in {0, turn[t].chunks},
                        lossy \in BOOLEAN : Publish(t, kind, n, lossy)
  <2>1. \A kind \in Kinds : \A n \in {0, turn[t].chunks} :
          \A lossy \in BOOLEAN : Publish(t, kind, n, lossy) => Says
    BY Zenon
  <2>2. /\ "turn_started" \in Kinds /\ "chunk" \in Kinds /\ "error" \in Kinds
        /\ "turn_done" \in Kinds /\ 0 \in {0, turn[t].chunks}
        /\ turn[t].chunks \in {0, turn[t].chunks} /\ FALSE \in BOOLEAN
        /\ (turn[t].dropped > 0) \in BOOLEAN
    OBVIOUS
  <2>3. Live(t) /\ UNCHANGED <<cursor, fed>>
    BY DEF RunCreated, Chunk, TurnOver, FireFails, FireFailed, Live, clientVars
  <2>4. CASE RunCreated(t)
    <3>1. Unpublished \/ Publish(t, "turn_started", 0, FALSE)
      BY <2>4 DEF RunCreated
    <3> QED BY <2>1, <2>2, <2>3, <3>1
  <2>5. CASE Chunk(t)
    <3>1. Unpublished \/ Publish(t, "chunk", turn[t].chunks, FALSE)
      BY <2>5 DEF Chunk
    <3> QED BY <2>1, <2>2, <2>3, <3>1
  <2>6. CASE TurnOver(t)
    <3>1. Unpublished \/ Publish(t, "turn_done", 0, turn[t].dropped > 0)
      BY <2>6 DEF TurnOver
    <3> QED BY <2>1, <2>2, <2>3, <3>1
  <2>7. CASE FireFails(t)
    <3>1. Publish(t, "error", 0, FALSE)
      BY <2>7 DEF FireFails
    <3> QED BY <2>1, <2>2, <2>3, <3>1
  <2>8. CASE FireFailed(t)
    <3>1. Publish(t, "turn_done", 0, FALSE)
      BY <2>8 DEF FireFailed
    <3> QED BY <2>1, <2>2, <2>3, <3>1
  <2> QED BY <2>4, <2>5, <2>6, <2>7, <2>8
<1>2. CASE Unpublished
  BY <1>1, <1>2 DEF Unpublished, Feed!vars
<1>3. ASSUME NEW kind \in {"turn_started", "chunk", "error", "turn_done"},
             NEW n \in {0, turn[t].chunks}, NEW lossy \in BOOLEAN,
             Publish(t, kind, n, lossy)
      PROVE  Feed!Next
  <2>1. TypeOK /\ CacheAgrees /\ TurnsAreShaped /\ turn[t].phase # "idle"
    BY <1>1 DEF IInv, CursorInv, TurnInv, Live
  <2>2. n \in 0 .. MaxChunks
    BY <1>1, UnderWay DEF Closure
  <2>3. /\ turn[t].conv \in Conv
        /\ FrameOf(t, kind, n, lossy) \in Frame
        /\ Direct(t) \in SUBSET Device
        /\ StampEffect(turn[t].conv, FrameOf(t, kind, n, lossy), Direct(t))
    BY <1>3, <2>1, <2>2, PublishStamps
  <2>4. PICK c \in Conv : c = turn[t].conv
    BY <2>3
  <2>5. PICK D \in SUBSET Device : D = Direct(t)
    BY <2>3
  <2> DEFINE f == FrameOf(t, kind, n, lossy)
  <2>6. f \in Frame /\ StampEffect(c, f, D)
    BY <2>3, <2>4, <2>5
  <2> HIDE DEF f
  <2>7. Feed!Publish(c)
    BY <1>1, <2>6, StampPublishes
  <2> QED BY <2>4, <2>7 DEF Feed!Next
<1> QED BY <1>1, <1>2, <1>3

LEMMA StepImplements ==
  ASSUME FeedAssumption, IInv, [Next]_vars
  PROVE  [Feed!Next]_Feed!vars
<1>1. CASE UNCHANGED <<stamped, cursor, fed>>
  BY <1>1 DEF Feed!vars
<1>2. ASSUME NEW d \in Device, NEW c \in Opened, Unsubscribe(d, c)
      PROVE  Feed!Next
  <2>1. Feed!Unfollow(d, c)
    BY <1>2 DEF Unsubscribe, Feed!Unfollow
  <2>2. c \in Conv
    BY DEF FeedAssumption
  <2> QED BY <2>1, <2>2 DEF Feed!Next
<1>3. fed \in [Device -> SUBSET Conv]
  BY DEF IInv, CursorInv, TypeOK
<1>4. ASSUME NEW d \in Device, Close(d)
      PROVE  Feed!Next
  <2>1. /\ UNCHANGED <<stamped, cursor>> /\ fed' = [fed EXCEPT ![d] = {}]
    BY <1>4 DEF Close
  <2>2. fed' = [k \in Device |-> IF k \in {d} THEN {} ELSE fed[k]]
    BY <2>1, <1>3
  <2>3. Feed!Disconnect
    BY <2>1, <2>2 DEF Feed!Disconnect
  <2> QED BY <2>3 DEF Feed!Next
<1>5. CASE Restart
  <2>1. /\ UNCHANGED <<stamped, cursor>> /\ fed' = [k \in Device |-> {}]
    BY <1>5 DEF Restart
  <2>2. fed' = [k \in Device |-> IF k \in Device THEN {} ELSE fed[k]]
    BY <2>1
  <2>3. Feed!Disconnect
    BY <2>1, <2>2 DEF Feed!Disconnect
  <2> QED BY <2>3 DEF Feed!Next
<1>6. \/ UNCHANGED <<stamped, cursor, fed>>
      \/ \E d \in Device, c \in Opened : Unsubscribe(d, c)
      \/ \E d \in Device : Close(d) \/ Read(d)
      \/ \E t \in Turn : \/ RunCreated(t) \/ Chunk(t) \/ TurnOver(t)
                         \/ FireFails(t) \/ FireFailed(t)
      \/ Restart
  <2>1. ASSUME NEW d \in Device, NEW c \in Opened,
               \/ Resume(d, c) \/ Subscribe(d, c) \/ Ack(d, c)
               \/ UserAction(d, c) \/ \E t \in Turn : SendMessage(d, c, t)
        PROVE  UNCHANGED <<stamped, cursor, fed>>
    BY <2>1 DEF Resume, Subscribe, Ack, UserAction, SendMessage, clientVars
  <2>2. ASSUME NEW d \in Device, Hello(d) PROVE UNCHANGED <<stamped, cursor, fed>>
    BY <2>2 DEF Hello, clientVars
  <2>3. ASSUME NEW d \in Device, NEW t \in Turn, DispatchAction(d, t)
        PROVE  UNCHANGED <<stamped, cursor, fed>>
    BY <2>3 DEF DispatchAction, clientVars
  <2>4. ASSUME NEW c \in Conv, NEW t \in Turn, CronFires(c, t)
        PROVE  UNCHANGED <<stamped, cursor, fed>>
    BY <2>4 DEF CronFires, clientVars
  <2>5. ASSUME NEW c \in Conv, Expire(c) PROVE UNCHANGED <<stamped, cursor, fed>>
    BY <2>5 DEF Expire, clientVars
  <2>6. UNCHANGED vars => UNCHANGED <<stamped, cursor, fed>>
    BY DEF vars
  <2> QED BY <2>1, <2>2, <2>3, <2>4, <2>5, <2>6 DEF Next
<1> QED BY <1>1, <1>2, <1>4, <1>5, <1>6, ReadImplements, TurnStepImplements

(* The sessions, the cache, the log and the connections together implement  *)
(* the feed of OrderedFeed: numbers are never used twice nor out of order,  *)
(* and who follows a conversation gets its frames without a gap.            *)
THEOREM FeedRefinement == Spec => ImplementsFeed
<1> USE FeedAssumption
<1>1. Init => Feed!Init
  <2>1. Init => \A c \in Conv : {x.seq : x \in stamped[c]} = {}
                               /\ Cardinality(stamped[c]) = 0
    BY FS_EmptySet DEF Init
  <2> QED BY <2>1 DEF Init, Feed!Init
<1>2. IInv /\ [Next]_vars => [Feed!Next]_Feed!vars
  BY StepImplements
<1> QED BY <1>1, <1>2, FeedInvariant, PTL DEF Spec, ImplementsFeed, Feed!Spec

=============================================================================
