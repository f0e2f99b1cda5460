--------------------------- MODULE RunFramesProofs ---------------------------
(***************************************************************************)
(* Proofs about RunFrames for every set of clients and every size of the   *)
(* ring and of the turn: its typing, that numbers name frames and no frame *)
(* reaches a client twice, and that a client told that the run is over has *)
(* what it is owed.                                                        *)
(***************************************************************************)
EXTENDS RunFrames, TLAPS, FiniteSetTheorems, SequenceTheorems,
        WellFoundedInduction

-----------------------------------------------------------------------------
(* The inductive invariant *)

Lines(L) == {L[i] : i \in 1 .. Len(L)}
FramesOf(L) == {L[i].frame : i \in 1 .. Len(L)}
Members(h) == {h[i] : i \in 1 .. Len(h)}

(* The lines of a log that a reader from its start is sent.  Once a         *)
(* shutdown has numbered frames beside the turn (open is FALSE), those of   *)
(* the stream alone are followed.                                           *)
Peaks(L, open) ==
  {p \in Rises(L, 0) : open \/ L[p].frame.kind = "stream"}

(* Number q is not beyond the numbers of a log.                             *)
Within(L, q) == q = 0 \/ \E i \in 1 .. Len(L) : q <= L[i].seq

(* A log with frames that differ.                                           *)
FramesDiffer(L) ==
  \A i, j \in 1 .. Len(L) : i # j => L[i].frame # L[j].frame

(* How a client c, the entries u on its way and its subscription b stand to *)
(* the log L: what is on its way lies between the client's cursor and what  *)
(* the subscription has passed on, in order; what it has lies before its    *)
(* cursor, once each; and no peak is left out of either.                    *)
Follows(L, open, c, u, b) ==
  /\ b.phase \in {"off", "told"} => u = <<>>
  /\ \A i \in 1 .. Len(u) :
       /\ c.cursor < u[i].seq /\ u[i].seq <= b.last /\ u[i] \in Lines(L)
       /\ \A k \in 1 .. i - 1 : u[k].seq < u[i].seq
  /\ Within(L, c.cursor)
  /\ b.phase # "off" => c.cursor <= b.last /\ Within(L, b.last)
  /\ \A i, j \in 1 .. Len(c.has) : i # j => c.has[i] # c.has[j]
  /\ \A i \in 1 .. Len(c.has) : \E j \in 1 .. Len(L) :
       L[j].frame = c.has[i] /\ L[j].seq <= c.cursor
  /\ \A p \in Peaks(L, open) :
       /\ L[p].seq <= c.cursor => L[p].frame \in Members(c.has)
       /\ b.phase # "off" /\ L[p].seq <= b.last =>
            L[p].frame \in Members(c.has) \cup FramesOf(u)

(* A run whose record says it is running has its handle, its turn and no    *)
(* end yet; live followers have a running run.                              *)
RunIsHeld ==
  /\ mem = "active" <=> status = "running"
  /\ status = "running" => bridge \in {"streaming", "threw"} /\ ~shut
  /\ status = "torn" => bridge = "lost"
  /\ bridge = "lost" => mem = "gone"
  /\ bridge = "posting" => missing # 0
  /\ bridge = "backoff" => attempt < MaxAttempts
  /\ \A s \in Sub : /\ sub[s].phase = "live" => status = "running"
                    /\ sub[s].phase \in {"draining", "done", "told"} =>
                         status # "running"
                    /\ Listening(s) => mem # "gone"

(* The log is under the turn's hand: no synthesized return, no sweep.       *)
Streaming == bridge \notin {"over", "lost"}

(* Until then its numbers are those of its lines.                           *)
NumbersRunOn ==
  /\ count <= produced + 2
  /\ Streaming => count <= produced
  /\ Streaming /\ ~shut => /\ Len(log) = count
                           /\ \A i \in 1 .. Len(log) : log[i].seq = i

(* No frame is logged twice, and each kind in its time.                     *)
FramesAreOnce ==
  /\ FramesDiffer(log)
  /\ \A i \in 1 .. Len(log) :
       LET f == log[i].frame
       IN /\ f.kind = "stream" => f.n <= produced
          /\ f.kind \in {"synth", "tail"} => ~Streaming
          /\ f.kind = "final" => shut \/ bridge = "lost"

ReadersFollow ==
  \A s \in Sub : Follows(log, ~shut, client[s], unread[s], sub[s])

(* Who listens has been sent every frame of the stream.                     *)
ListenersHear ==
  \A s \in Sub : Streaming /\ Listening(s) =>
    \A i \in 1 .. Len(log) :
      log[i].frame.kind = "stream" => log[i].seq <= sub[s].last

(* What a client is owed when it is told of the end: peaks, all of them.    *)
HasFinal(L) == \E i \in 1 .. Len(L) : L[i].frame.kind = "final"
Due == owed \cup (IF ~shut /\ HasFinal(log) THEN {TurnDoneFrame} ELSE {})

DuesArePeaks ==
  /\ owed \subseteq [kind : {"stream"}, n : Nat]
  /\ \A x \in Due : \E p \in Peaks(log, ~shut) : log[p].frame = x

Reached(s) == Members(client[s].has) \cup FramesOf(unread[s])

DuesAreMet ==
  \A s \in Sub :
    /\ sub[s].phase = "done" /\ ~sub[s].mark => Due \subseteq Reached(s)
    /\ sub[s].phase = "told" /\ ~client[s].mark =>
         Due \subseteq Members(client[s].has)

IInv ==
  /\ FramesTypeOK /\ RunIsHeld /\ NumbersRunOn /\ FramesAreOnce
  /\ SeqNamesOneFrame /\ ReadersFollow /\ ListenersHear /\ DuesArePeaks
  /\ DuesAreMet

-----------------------------------------------------------------------------
(* Numbers in order *)

(* A set of naturals that is not empty has a least element.                 *)
LEMMA LeastNumber ==
  ASSUME NEW Q \in SUBSET Nat, Q # {}
  PROVE  \E m \in Q : \A q \in Q : m <= q
<1>1. PICK m \in Q : \A q \in Q : ~(<<q, m>> \in OpToRel(<, Nat))
  BY NatLessThanWellFounded, WFMin
<1>2. \A q \in Q : ~(q < m)
  BY <1>1 DEF OpToRel
<1> QED BY <1>2

(* The place of a number among those of Q.                                  *)
UpTo(Q, i) == {j \in Q : j <= i}
Rank(Q, i) == Cardinality(UpTo(Q, i))

(* A higher number has a higher place.                                      *)
LEMMA RankRises ==
  ASSUME NEW Q \in SUBSET Nat, IsFiniteSet(Q)
  PROVE  /\ \A i \in Q : Rank(Q, i) \in 1 .. Cardinality(Q)
         /\ \A i, j \in Q : i < j => Rank(Q, i) < Rank(Q, j)
<1>1. ASSUME NEW i \in Q
      PROVE  IsFiniteSet(UpTo(Q, i)) /\ Rank(Q, i) \in 1 .. Cardinality(Q)
  <2>1. UpTo(Q, i) \in SUBSET Q /\ i \in UpTo(Q, i)
    BY DEF UpTo
  <2>2. IsFiniteSet(UpTo(Q, i)) /\ Rank(Q, i) <= Cardinality(Q)
    BY <2>1, FS_Subset DEF Rank
  <2>3. Rank(Q, i) \in Nat /\ Rank(Q, i) # 0 /\ Cardinality(Q) \in Nat
    BY <2>1, <2>2, FS_CardinalityType, FS_EmptySet DEF Rank
  <2> QED BY <2>2, <2>3
<1>2. ASSUME NEW i \in Q, NEW j \in Q, i < j
      PROVE  Rank(Q, i) < Rank(Q, j)
  <2>1. /\ UpTo(Q, i) \in SUBSET UpTo(Q, j)
        /\ j \in UpTo(Q, j) /\ j \notin UpTo(Q, i)
    <3>1. i \in Nat /\ j \in Nat /\ \A k \in Q : k \in Nat
      OBVIOUS
    <3>2. \A k \in Q : k <= i => k <= j
      BY <3>1, <1>2
    <3>3. j <= j /\ ~(j <= i)
      BY <3>1, <1>2
    <3> QED BY <3>2, <3>3 DEF UpTo
  <2>2. /\ Rank(Q, i) <= Rank(Q, j)
        /\ Rank(Q, i) = Rank(Q, j) => UpTo(Q, i) = UpTo(Q, j)
    BY <2>1, <1>1, FS_Subset DEF Rank
  <2>3. Rank(Q, i) \in Nat /\ Rank(Q, j) \in Nat
    BY <1>1
  <2> QED BY <2>1, <2>2, <2>3
<1> QED BY <1>1, <1>2

(* InOrder lists the members of a finite set of numbers, each once, the     *)
(* lower before the higher.                                                 *)
LEMMA InOrderLists ==
  ASSUME NEW Q \in SUBSET Nat, IsFiniteSet(Q)
  PROVE  /\ Cardinality(Q) \in Nat
         /\ InOrder(Q) \in [1 .. Cardinality(Q) -> Q]
         /\ Len(InOrder(Q)) = Cardinality(Q)
         /\ \A k, l \in 1 .. Cardinality(Q) :
              k < l => InOrder(Q)[k] < InOrder(Q)[l]
         /\ \A q \in Q : \E k \in 1 .. Cardinality(Q) : InOrder(Q)[k] = q
<1> DEFINE n == Cardinality(Q)
           rank == [i \in Q |-> Rank(Q, i)]
           s == InOrder(Q)
<1>1. n \in Nat
  BY FS_CardinalityType
<1>2. /\ \A i \in Q : Rank(Q, i) \in 1 .. n
      /\ \A i, j \in Q : i < j => Rank(Q, i) < Rank(Q, j)
  BY RankRises
<1>3. ASSUME NEW i \in Q, NEW j \in Q, Rank(Q, i) = Rank(Q, j)
      PROVE  i = j
  <2>1. ~(i < j) /\ ~(j < i)
    BY <1>2, <1>3
  <2> QED BY <2>1
<1>4. rank \in Injection(Q, 1 .. n)
  BY <1>2, <1>3 DEF Injection, IsInjective
<1>5. IsFiniteSet(1 .. n) /\ Cardinality(1 .. n) = n
  BY <1>1, FS_Interval
<1>6. rank \in Surjection(Q, 1 .. n)
  BY <1>4, <1>5, FS_Injection
<1>7. \A k \in 1 .. n : \E i \in Q : Rank(Q, i) = k
  BY <1>6 DEF Surjection
<1>8. s = [k \in 1 .. n |-> CHOOSE i \in Q : Rank(Q, i) = k]
  BY DEF InOrder, Rank, UpTo
<1> HIDE DEF s
<1>9. \A k \in 1 .. n : s[k] \in Q /\ Rank(Q, s[k]) = k
  BY <1>7, <1>8
<1>10. s \in [1 .. n -> Q] /\ Len(s) = n
  BY <1>1, <1>8, <1>9
<1>11. ASSUME NEW k \in 1 .. n, NEW l \in 1 .. n, k < l
       PROVE  s[k] < s[l]
  <2>1. /\ s[k] \in Q /\ s[k] \in Nat /\ Rank(Q, s[k]) = k
        /\ s[l] \in Q /\ s[l] \in Nat /\ Rank(Q, s[l]) = l
    BY <1>9
  <2>2. s[k] # s[l] /\ ~(s[l] < s[k])
    BY <1>1, <1>2, <1>11, <2>1
  <2> QED BY <2>1, <2>2
<1>12. ASSUME NEW q \in Q
       PROVE  \E k \in 1 .. n : s[k] = q
  <2>1. Rank(Q, q) \in 1 .. n
    BY <1>2
  <2>2. s[Rank(Q, q)] = q
    BY <2>1, <1>9, <1>3
  <2> QED BY <2>1, <2>2
<1> QED BY <1>1, <1>10, <1>11, <1>12 DEF s

-----------------------------------------------------------------------------
(* What a reader is sent *)

(* r is what a reader that stands at q is sent of entries N, and where it   *)
(* stands then: entries of N beyond q, each with a higher number than the   *)
(* one before, every one that rises among them; none lies beyond r.last.    *)
IsSent(N, q, r) ==
  /\ r.last \in Nat /\ r.sent \in Seq(Entry) /\ q <= r.last
  /\ r.last = q \/ \E i \in 1 .. Len(N) : N[i].seq = r.last
  /\ \A k \in 1 .. Len(r.sent) :
       /\ q < r.sent[k].seq /\ r.sent[k].seq <= r.last
       /\ r.sent[k] \in Lines(N)
       /\ \A l \in 1 .. k - 1 : r.sent[l].seq < r.sent[k].seq
  /\ \A i \in Rises(N, q) : N[i] \in Lines(r.sent)
  /\ \A i \in 1 .. Len(N) : N[i].seq <= r.last

(* What rises is found from left to right: each has a higher number.        *)
LEMMA RisesAscend ==
  ASSUME NEW N \in Seq(Entry), NEW q \in Nat
  PROVE  /\ Rises(N, q) \in SUBSET Nat /\ IsFiniteSet(Rises(N, q))
         /\ \A i \in Rises(N, q) :
              i \in 1 .. Len(N) /\ N[i] \in Entry /\ q < N[i].seq
         /\ \A i, j \in Rises(N, q) : i < j => N[i].seq < N[j].seq
<1>1. Rises(N, q) \in SUBSET (1 .. Len(N))
  BY DEF Rises
<1>2. Len(N) \in Nat /\ IsFiniteSet(1 .. Len(N))
  BY FS_Interval
<1>3. IsFiniteSet(Rises(N, q))
  BY <1>1, <1>2, FS_Subset
<1>4. \A i \in 1 .. Len(N) : N[i] \in Entry
  OBVIOUS
<1>5. ASSUME NEW i \in Rises(N, q), NEW j \in Rises(N, q), i < j
      PROVE  N[i].seq < N[j].seq
  <2>1. i \in 1 .. Len(N) /\ j \in 1 .. Len(N) /\ i \in 1 .. (j - 1)
    BY <1>1, <1>2, <1>5
  <2> QED BY <2>1 DEF Rises
<1> QED BY <1>1, <1>2, <1>3, <1>4, <1>5 DEF Rises

LEMMA RisingSends ==
  ASSUME NEW N \in Seq(Entry), NEW q \in Nat
  PROVE  IsSent(N, q, Rising(N, q))
<1> DEFINE Q == Rises(N, q)
           n == Cardinality(Q)
           at == InOrder(Q)
           r == Rising(N, q)
<1>1. /\ Q \in SUBSET Nat /\ IsFiniteSet(Q)
      /\ \A i \in Q : i \in 1 .. Len(N) /\ N[i] \in Entry /\ q < N[i].seq
      /\ \A i, j \in Q : i < j => N[i].seq < N[j].seq
  BY RisesAscend
<1>2. /\ n \in Nat /\ at \in [1 .. n -> Q] /\ Len(at) = n
      /\ \A k, l \in 1 .. n : k < l => at[k] < at[l]
      /\ \A i \in Q : \E k \in 1 .. n : at[k] = i
  BY <1>1, InOrderLists
<1>3. /\ r.last = IF at = <<>> THEN q ELSE N[at[Len(at)]].seq
      /\ r.sent = [k \in 1 .. Len(at) |-> N[at[k]]]
  BY DEF Rising
<1>4. at \in Seq(Q)
  BY <1>2
<1>5. at = <<>> <=> n = 0
  BY <1>2, <1>4
<1> HIDE DEF Q, n, at, r
<1>6. \A k \in 1 .. n : r.sent[k] = N[at[k]] /\ at[k] \in Q
  BY <1>2, <1>3
<1>7. r.sent \in Seq(Entry) /\ Len(r.sent) = n
  <2>1. r.sent \in [1 .. n -> Entry]
    BY <1>1, <1>2, <1>3
  <2> QED BY <2>1, <1>2
<1>8. r.last = IF n = 0 THEN q ELSE r.sent[n].seq
  BY <1>2, <1>3, <1>5, <1>6
<1>9. \A k \in 1 .. n : /\ r.sent[k] \in Entry /\ r.sent[k] \in Lines(N)
                        /\ q < r.sent[k].seq
  BY <1>1, <1>6 DEF Lines
<1>10. ASSUME NEW k \in 1 .. n, NEW l \in 1 .. n, k < l
       PROVE  r.sent[k].seq < r.sent[l].seq
  <2>1. at[k] < at[l]
    BY <1>2, <1>10
  <2>2. N[at[k]].seq < N[at[l]].seq
    BY <2>1, <1>1, <1>6
  <2> QED BY <2>2, <1>6
<1>11. \A k \in 1 .. n : r.sent[k].seq \in Nat
  BY <1>9 DEF Entry
<1>12. \A k \in 1 .. n : r.sent[k].seq <= r.last
  <2> SUFFICES ASSUME NEW k \in 1 .. n PROVE r.sent[k].seq <= r.last
    OBVIOUS
  <2>1. n # 0 /\ n \in 1 .. n /\ r.last = r.sent[n].seq
    BY <1>2, <1>8
  <2>2. k = n \/ k < n
    BY <1>2
  <2> QED BY <2>1, <2>2, <1>10, <1>11
<1>13. /\ r.last \in Nat /\ q <= r.last
       /\ r.last = q \/ \E i \in 1 .. Len(N) : N[i].seq = r.last
  <2>1. CASE n = 0
    BY <2>1, <1>8
  <2>2. CASE n # 0
    <3>1. n \in 1 .. n /\ r.last = r.sent[n].seq
      BY <2>2, <1>2, <1>8
    <3>2. at[n] \in 1 .. Len(N) /\ r.sent[n] = N[at[n]]
      BY <3>1, <1>1, <1>6
    <3> QED BY <3>1, <3>2, <1>9, <1>11
  <2> QED BY <2>1, <2>2
<1>14. ASSUME NEW i \in Q PROVE N[i] \in Lines(r.sent)
  <2>1. PICK k \in 1 .. n : at[k] = i
    BY <1>2
  <2>2. k \in 1 .. Len(r.sent) /\ r.sent[k] = N[i]
    BY <2>1, <1>6, <1>7
  <2> QED BY <2>2 DEF Lines
<1>15. \A i \in 1 .. Len(N) : N[i].seq <= r.last
  <2> DEFINE Beyond == {i \in 1 .. Len(N) : ~(N[i].seq <= r.last)}
  <2>1. SUFFICES ASSUME Beyond # {} PROVE FALSE
    OBVIOUS
  <2>2. Beyond \in SUBSET Nat
    OBVIOUS
  <2>3. PICK i \in Beyond : \A j \in Beyond : i <= j
    BY <2>1, <2>2, LeastNumber
  <2>4. /\ i \in 1 .. Len(N) /\ N[i].seq \in Nat /\ ~(N[i].seq <= r.last)
        /\ \A j \in 1 .. Len(N) : N[j].seq \in Nat
    <3>1. \A j \in 1 .. Len(N) : N[j] \in Entry
      OBVIOUS
    <3>2. \A j \in 1 .. Len(N) : N[j].seq \in Nat
      BY <3>1 DEF Entry
    <3> QED BY <3>2
  <2>5. ASSUME NEW j \in 1 .. (i - 1) PROVE N[j].seq < N[i].seq
    <3>1. j \in 1 .. Len(N) /\ ~(i <= j)
      BY <2>4
    <3>2. N[j].seq <= r.last
      BY <3>1, <2>3
    <3> QED BY <3>1, <3>2, <2>4, <1>13
  <2>6. i \in Q
    BY <2>4, <2>5, <1>13 DEF Rises, Q
  <2>7. PICK k \in 1 .. n : r.sent[k] = N[i]
    BY <2>6, <1>2, <1>6
  <2> QED BY <2>7, <2>4, <1>12
<1>16. ASSUME NEW k \in 1 .. n, NEW l \in 1 .. k - 1
       PROVE  r.sent[l].seq < r.sent[k].seq
  <2>1. l \in 1 .. n /\ l < k
    BY <1>2
  <2> QED BY <2>1, <1>10
<1> QED
  BY <1>7, <1>9, <1>12, <1>13, <1>14, <1>15, <1>16 DEF IsSent, Q, r

-----------------------------------------------------------------------------
(* A log that grows *)

Clients == [cursor : Nat, has : Seq(Frame), mark : BOOLEAN]
Subs == [phase : Phases, last : Nat, mark : BOOLEAN]

(* The lines of a log, or of any sequence, that grew by M.                  *)
LEMMA Grown ==
  ASSUME NEW S, NEW L \in Seq(S), NEW M \in Seq(S)
  PROVE  /\ L \o M \in Seq(S) /\ Len(L \o M) = Len(L) + Len(M)
         /\ \A i \in 1 .. Len(L) :
              i \in 1 .. Len(L \o M) /\ (L \o M)[i] = L[i]
         /\ \A k \in 1 .. Len(M) :
              /\ Len(L) + k \in 1 .. Len(L \o M)
              /\ (L \o M)[Len(L) + k] = M[k]
         /\ \A i \in 1 .. Len(L \o M) :
              i \in 1 .. Len(L) \/ \E k \in 1 .. Len(M) : i = Len(L) + k
<1>1. /\ L \o M \in Seq(S) /\ Len(L \o M) = Len(L) + Len(M)
      /\ \A i \in 1 .. Len(L) + Len(M) :
           (L \o M)[i] = IF i <= Len(L) THEN L[i] ELSE M[i - Len(L)]
  BY ConcatProperties
<1>2. Len(L) \in Nat /\ Len(M) \in Nat
  OBVIOUS
<1>3. ASSUME NEW k \in 1 .. Len(M)
      PROVE  /\ Len(L) + k \in 1 .. Len(L) + Len(M)
             /\ ~(Len(L) + k <= Len(L)) /\ (Len(L) + k) - Len(L) = k
  BY <1>2
<1>4. ASSUME NEW i \in 1 .. Len(L) + Len(M), i \notin 1 .. Len(L)
      PROVE  i - Len(L) \in 1 .. Len(M) /\ i = Len(L) + (i - Len(L))
  BY <1>2, <1>4
<1>5. \A i \in 1 .. Len(L) : i \in 1 .. Len(L) + Len(M) /\ i <= Len(L)
  BY <1>2
<1> QED BY <1>1, <1>3, <1>4, <1>5

LEMMA LinesAreEntries ==
  ASSUME NEW L \in Seq(Entry), NEW i \in 1 .. Len(L)
  PROVE  /\ L[i] \in Entry /\ L[i].seq \in Nat /\ L[i].frame \in Frame
         /\ L[i] \in Lines(L) /\ L[i].frame \in FramesOf(L)
<1>1. L[i] \in Entry
  OBVIOUS
<1> QED BY <1>1 DEF Entry, Lines, FramesOf

LEMMA LinesGrow ==
  ASSUME NEW L \in Seq(Entry), NEW M \in Seq(Entry)
  PROVE  /\ Lines(L \o M) = Lines(L) \cup Lines(M)
         /\ FramesOf(L \o M) = FramesOf(L) \cup FramesOf(M)
<1> DEFINE LM == L \o M
<1>1. /\ \A i \in 1 .. Len(L) : i \in 1 .. Len(LM) /\ LM[i] = L[i]
      /\ \A k \in 1 .. Len(M) :
           Len(L) + k \in 1 .. Len(LM) /\ LM[Len(L) + k] = M[k]
      /\ \A i \in 1 .. Len(LM) :
           i \in 1 .. Len(L) \/ \E k \in 1 .. Len(M) : i = Len(L) + k
  BY Grown
<1> HIDE DEF LM
<1>2. ASSUME NEW x \in Lines(LM) PROVE x \in Lines(L) \cup Lines(M)
  <2>1. PICK i \in 1 .. Len(LM) : x = LM[i]
    BY DEF Lines
  <2>2. CASE i \in 1 .. Len(L)
    BY <2>1, <2>2, <1>1 DEF Lines
  <2>3. CASE i \notin 1 .. Len(L)
    <3>1. PICK k \in 1 .. Len(M) : i = Len(L) + k
      BY <2>3, <1>1
    <3> QED BY <3>1, <2>1, <1>1 DEF Lines
  <2> QED BY <2>2, <2>3
<1>3. ASSUME NEW x \in FramesOf(LM) PROVE x \in FramesOf(L) \cup FramesOf(M)
  <2>1. PICK i \in 1 .. Len(LM) : x = LM[i].frame
    BY DEF FramesOf
  <2>2. CASE i \in 1 .. Len(L)
    BY <2>1, <2>2, <1>1 DEF FramesOf
  <2>3. CASE i \notin 1 .. Len(L)
    <3>1. PICK k \in 1 .. Len(M) : i = Len(L) + k
      BY <2>3, <1>1
    <3> QED BY <3>1, <2>1, <1>1 DEF FramesOf
  <2> QED BY <2>2, <2>3
<1>4. Lines(L) \cup Lines(M) \subseteq Lines(LM)
  BY <1>1, ZenonT(60) DEF Lines
<1>5. FramesOf(L) \cup FramesOf(M) \subseteq FramesOf(LM)
  BY <1>1 DEF FramesOf
<1> QED BY <1>2, <1>3, <1>4, <1>5 DEF LM

(* The peaks of a log stay while it is open or of the stream; a new one     *)
(* stands above all that was there.                                         *)
LEMMA PeaksGrow ==
  ASSUME NEW L \in Seq(Entry), NEW M \in Seq(Entry), NEW open, NEW open2
  PROVE  /\ \A p \in Peaks(L, open) :
              p \in 1 .. Len(L) /\ 0 < L[p].seq
                /\ (open \/ L[p].frame.kind = "stream")
         /\ \A p \in Peaks(L, open) : open2 \/ L[p].frame.kind = "stream" =>
              p \in Peaks(L \o M, open2)
         /\ \A p \in Peaks(L \o M, open2) :
              p \in 1 .. Len(L) /\ (open2 => open) => p \in Peaks(L, open)
         /\ \A p \in Peaks(L \o M, open2) :
              p \notin 1 .. Len(L) =>
                \A i \in 1 .. Len(L) : L[i].seq < (L \o M)[p].seq
<1> DEFINE LM == L \o M
<1>1. /\ \A i \in 1 .. Len(L) : i \in 1 .. Len(LM) /\ LM[i] = L[i]
      /\ \A i \in 1 .. Len(LM) :
           i \in 1 .. Len(L) \/ \E k \in 1 .. Len(M) : i = Len(L) + k
  BY Grown
<1>2. Len(L) \in Nat
  OBVIOUS
<1> HIDE DEF LM
<1>3. \A i \in 1 .. Len(L) : \A j \in 1 .. (i - 1) : LM[j] = L[j]
  <2> SUFFICES ASSUME NEW i \in 1 .. Len(L), NEW j \in 1 .. (i - 1)
               PROVE  j \in 1 .. Len(L)
    BY <1>1
  <2> QED BY <1>2
<1>4. \A i \in 1 .. Len(L) : i \in Rises(LM, 0) <=> i \in Rises(L, 0)
  BY <1>1, <1>3 DEF Rises
<1>5. \A p \in Rises(L, 0) : p \in 1 .. Len(L) /\ 0 < L[p].seq
  BY DEF Rises
<1>6. ASSUME NEW p \in Rises(LM, 0), p \notin 1 .. Len(L),
             NEW i \in 1 .. Len(L)
      PROVE  L[i].seq < LM[p].seq
  <2>1. PICK k \in 1 .. Len(M) : p = Len(L) + k
    BY <1>1, <1>6 DEF Rises
  <2>2. i \in 1 .. (p - 1)
    BY <2>1, <1>2
  <2>3. LM[i].seq < LM[p].seq
    BY <2>2 DEF Rises
  <2> QED BY <2>3, <1>1
<1> QED BY <1>1, <1>4, <1>5, <1>6 DEF Peaks, LM

-----------------------------------------------------------------------------
(* How a client follows a log, step by step *)

LEMMA WithinGrows ==
  ASSUME NEW L \in Seq(Entry), NEW M \in Seq(Entry), NEW q, Within(L, q)
  PROVE  Within(L \o M, q)
<1>1. \A i \in 1 .. Len(L) :
        i \in 1 .. Len(L \o M) /\ (L \o M)[i] = L[i]
  BY Grown
<1> QED BY <1>1 DEF Within

(* What stands above every line of a log stands above what is within it.    *)
LEMMA AboveWithin ==
  ASSUME NEW L \in Seq(Entry), NEW q \in Nat, Within(L, q),
         NEW n \in Nat, 0 < n, \A i \in 1 .. Len(L) : L[i].seq < n
  PROVE  ~(n <= q)
<1>1. \A i \in 1 .. Len(L) : L[i].seq \in Nat
  BY LinesAreEntries
<1> QED BY <1>1 DEF Within

(* The log grows and the subscription is not told.                          *)
LEMMA QuietFollows ==
  ASSUME NEW L \in Seq(Entry), NEW M \in Seq(Entry),
         NEW open \in BOOLEAN, NEW open2 \in BOOLEAN, open2 => open,
         NEW c \in Clients, NEW u \in Seq(Entry), NEW b \in Subs,
         Follows(L, open, c, u, b)
  PROVE  Follows(L \o M, open2, c, u, b)
<1> DEFINE LM == L \o M
<1>1. /\ LM \in Seq(Entry)
      /\ \A i \in 1 .. Len(L) : i \in 1 .. Len(LM) /\ LM[i] = L[i]
  BY Grown
<1>2. Lines(L) \subseteq Lines(LM)
  BY LinesGrow
<1>3. /\ Within(LM, c.cursor)
      /\ b.phase # "off" => c.cursor <= b.last /\ Within(LM, b.last)
  BY WithinGrows DEF Follows
<1>4. /\ \A p \in Peaks(LM, open2) :
           /\ p \in 1 .. Len(LM) /\ 0 < LM[p].seq
           /\ p \in 1 .. Len(L) => p \in Peaks(L, open)
           /\ p \notin 1 .. Len(L) =>
                \A i \in 1 .. Len(L) : L[i].seq < LM[p].seq
  <2>1. \A p \in Peaks(LM, open2) : p \in 1 .. Len(LM) /\ 0 < LM[p].seq
    BY DEF Peaks, Rises
  <2> QED BY <2>1, PeaksGrow
<1> HIDE DEF LM
<1>5. ASSUME NEW p \in Peaks(LM, open2)
      PROVE  /\ LM[p].seq <= c.cursor => LM[p].frame \in Members(c.has)
             /\ b.phase # "off" /\ LM[p].seq <= b.last =>
                  LM[p].frame \in Members(c.has) \cup FramesOf(u)
  <2>1. CASE p \in 1 .. Len(L)
    BY <2>1, <1>1, <1>4 DEF Follows
  <2>2. CASE p \notin 1 .. Len(L)
    <3>1. LM[p].seq \in Nat
      BY <1>1, <1>4, LinesAreEntries
    <3>2. ~(LM[p].seq <= c.cursor)
      <4>1. c.cursor \in Nat /\ Within(L, c.cursor)
        BY DEF Clients, Follows
      <4> QED BY <4>1, <2>2, <3>1, <1>4, AboveWithin
    <3>3. b.phase # "off" => ~(LM[p].seq <= b.last)
      <4>1. SUFFICES ASSUME b.phase # "off" PROVE ~(LM[p].seq <= b.last)
        OBVIOUS
      <4>2. b.last \in Nat /\ Within(L, b.last)
        BY <4>1 DEF Subs, Follows
      <4> QED BY <4>2, <2>2, <3>1, <1>4, AboveWithin
    <3> QED BY <3>2, <3>3
  <2> QED BY <2>1, <2>2
<1>6. /\ b.phase \in {"off", "told"} => u = <<>>
      /\ \A i \in 1 .. Len(u) :
           /\ c.cursor < u[i].seq /\ u[i].seq <= b.last /\ u[i] \in Lines(LM)
           /\ \A k \in 1 .. i - 1 : u[k].seq < u[i].seq
  BY <1>2 DEF Follows
<1>7. /\ \A i, j \in 1 .. Len(c.has) : i # j => c.has[i] # c.has[j]
      /\ \A i \in 1 .. Len(c.has) : \E j \in 1 .. Len(LM) :
           LM[j].frame = c.has[i] /\ LM[j].seq <= c.cursor
  BY <1>1, ZenonT(60) DEF Follows
<1>8. Follows(LM, open2, c, u, b)
  BY <1>3, <1>5, <1>6, <1>7 DEF Follows
<1> QED BY <1>8 DEF LM

(* The subscription passes on what r sends of some lines of the log: each   *)
(* peak is one it has passed, one it still has before it, or among these.   *)
LEMMA PassedFollows ==
  ASSUME NEW L \in Seq(Entry), NEW open \in BOOLEAN,
         NEW c \in Clients, NEW u \in Seq(Entry),
         NEW b \in Subs, NEW b2 \in Subs, NEW N \in Seq(Entry), NEW r,
         Follows(L, open, c, u, b), b.phase \notin {"off", "told"},
         IsSent(N, b.last, r), Lines(N) \subseteq Lines(L),
         b2.phase \notin {"off", "told"}, b2.last = r.last,
         \A p \in Peaks(L, open) :
           L[p].seq <= b.last \/ r.last < L[p].seq \/ L[p] \in Lines(r.sent)
  PROVE  Follows(L, open, c, u \o r.sent, b2)
<1> DEFINE v == r.sent
<1>1. /\ r.last \in Nat /\ v \in Seq(Entry) /\ b.last <= r.last
      /\ r.last = b.last \/ \E i \in 1 .. Len(N) : N[i].seq = r.last
      /\ \A k \in 1 .. Len(v) :
           /\ b.last < v[k].seq /\ v[k].seq <= r.last /\ v[k] \in Lines(L)
           /\ \A l \in 1 .. k - 1 : v[l].seq < v[k].seq
  BY DEF IsSent
<1> HIDE DEF v
<1>2. /\ b.last \in Nat /\ c.cursor \in Nat /\ c.cursor <= b.last
      /\ Within(L, c.cursor) /\ Within(L, b.last)
  BY DEF Subs, Clients, Follows
<1>3. /\ \A i \in 1 .. Len(u) : u[i].seq \in Nat
      /\ \A k \in 1 .. Len(v) : v[k].seq \in Nat
      /\ \A p \in Peaks(L, open) :
           /\ p \in 1 .. Len(L) /\ L[p].seq \in Nat
           /\ L[p].frame \in FramesOf(L)
  <2>1. \A p \in Peaks(L, open) : p \in 1 .. Len(L)
    BY DEF Peaks, Rises
  <2> QED BY <2>1, <1>1, LinesAreEntries
<1>4. /\ u \o v \in Seq(Entry)
      /\ \A i \in 1 .. Len(u) :
           i \in 1 .. Len(u \o v) /\ (u \o v)[i] = u[i]
      /\ \A k \in 1 .. Len(v) : (u \o v)[Len(u) + k] = v[k]
      /\ \A i \in 1 .. Len(u \o v) :
           i \in 1 .. Len(u) \/ \E k \in 1 .. Len(v) : i = Len(u) + k
  BY <1>1, Grown
<1>5. \A i \in 1 .. Len(u) :
        /\ c.cursor < u[i].seq /\ u[i].seq <= b.last /\ u[i] \in Lines(L)
        /\ \A k \in 1 .. i - 1 : u[k].seq < u[i].seq
  BY DEF Follows
<1>6. ASSUME NEW i \in 1 .. Len(u \o v)
      PROVE  LET w == u \o v
             IN /\ c.cursor < w[i].seq /\ w[i].seq <= b2.last
                /\ w[i] \in Lines(L)
                /\ \A k \in 1 .. i - 1 : w[k].seq < w[i].seq
  <2> DEFINE w == u \o v
  <2>1. CASE i \in 1 .. Len(u)
    <3>1. w[i] = u[i] /\ \A k \in 1 .. i - 1 : w[k] = u[k]
      <4>1. \A k \in 1 .. i - 1 : k \in 1 .. Len(u)
        BY <2>1
      <4> QED BY <4>1, <2>1, <1>4
    <3>2. u[i].seq <= r.last
      BY <2>1, <1>1, <1>2, <1>3, <1>5
    <3> QED BY <2>1, <3>1, <3>2, <1>5
  <2>2. CASE i \notin 1 .. Len(u)
    <3>1. PICK k \in 1 .. Len(v) : i = Len(u) + k /\ w[i] = v[k]
      BY <2>2, <1>4
    <3>2. c.cursor < v[k].seq
      BY <1>1, <1>2, <1>3, SMTT(30)
    <3>3. ASSUME NEW j \in 1 .. i - 1 PROVE w[j].seq < v[k].seq
      <4>0. Len(u) \in Nat /\ Len(v) \in Nat
        BY <1>1
      <4>1. CASE j <= Len(u)
        <5>1. j \in 1 .. Len(u)
          BY <4>0, <4>1
        <5>2. w[j] = u[j]
          BY <5>1, <1>4
        <5>3. u[j].seq <= b.last /\ u[j].seq \in Nat
          BY <5>1, <1>3, <1>5
        <5>4. b.last < v[k].seq /\ v[k].seq \in Nat
          BY <1>1, <1>3
        <5>5. u[j].seq < v[k].seq
          BY <5>3, <5>4, <1>2, SMTT(30)
        <5> QED BY <5>2, <5>5
      <4>2. CASE ~(j <= Len(u))
        <5>1. j - Len(u) \in 1 .. k - 1 /\ j - Len(u) \in 1 .. Len(v)
          BY <4>0, <4>2, <3>1
        <5>2. w[Len(u) + (j - Len(u))] = v[j - Len(u)]
          BY <5>1, <1>4
        <5>3. Len(u) + (j - Len(u)) = j
          BY <4>0
        <5> QED BY <5>1, <5>2, <5>3, <1>1
      <4> QED BY <4>1, <4>2
    <3> QED BY <3>1, <3>2, <3>3, <1>1
  <2> QED BY <2>1, <2>2
<1>7. Within(L, b2.last)
  <2>1. CASE r.last = b.last
    BY <2>1, <1>2
  <2>2. CASE r.last # b.last
    <3>1. PICK i \in 1 .. Len(N) : N[i].seq = r.last
      BY <2>2, <1>1
    <3>2. N[i] \in Lines(L)
      BY LinesAreEntries
    <3>3. PICK j \in 1 .. Len(L) : L[j] = N[i]
      BY <3>2 DEF Lines
    <3> QED BY <3>1, <3>3, <1>1 DEF Within
  <2> QED BY <2>1, <2>2
<1>8. FramesOf(u \o v) = FramesOf(u) \cup FramesOf(v)
  BY <1>1, LinesGrow
<1>9. ASSUME NEW p \in Peaks(L, open), L[p].seq <= b2.last
      PROVE  L[p].frame \in Members(c.has) \cup FramesOf(u \o v)
  <2>1. CASE L[p].seq <= b.last
    BY <2>1, <1>8 DEF Follows
  <2>2. CASE L[p] \in Lines(v)
    BY <2>2, <1>8 DEF Lines, FramesOf
  <2>3. ~(r.last < L[p].seq)
    BY <1>1, <1>3, <1>9
  <2> QED BY <2>1, <2>2, <2>3 DEF v
<1>10. c.cursor <= b2.last
  BY <1>1, <1>2
<1>11. /\ \A i, j \in 1 .. Len(c.has) : i # j => c.has[i] # c.has[j]
       /\ \A i \in 1 .. Len(c.has) : \E j \in 1 .. Len(L) :
            L[j].frame = c.has[i] /\ L[j].seq <= c.cursor
       /\ \A p \in Peaks(L, open) :
            L[p].seq <= c.cursor => L[p].frame \in Members(c.has)
  BY DEF Follows
<1> QED
  BY <1>2, <1>6, <1>7, <1>9, <1>10, <1>11 DEF Follows, v

(* It reads the log itself: every peak has reached the client then.         *)
LEMMA CaughtUpFollows ==
  ASSUME NEW L \in Seq(Entry), NEW open \in BOOLEAN,
         NEW c \in Clients, NEW u \in Seq(Entry),
         NEW b \in Subs, NEW b2 \in Subs, NEW r,
         Follows(L, open, c, u, b), b.phase \notin {"off", "told"},
         r = Rising(L, b.last),
         b2.phase \notin {"off", "told"}, b2.last = r.last
  PROVE  /\ Follows(L, open, c, u \o r.sent, b2)
         /\ r.sent \in Seq(Entry)
         /\ \A p \in Peaks(L, open) :
              L[p].frame \in Members(c.has) \cup FramesOf(u \o r.sent)
         /\ \A i \in 1 .. Len(L) : L[i].seq <= b2.last
<1>1. b.last \in Nat /\ IsSent(L, b.last, r)
  BY RisingSends DEF Subs
<1>2. \A p \in Peaks(L, open) :
        /\ p \in 1 .. Len(L) /\ L[p].seq \in Nat
        /\ \A j \in 1 .. (p - 1) : L[j].seq < L[p].seq
  <2>1. \A p \in Peaks(L, open) :
          /\ p \in 1 .. Len(L)
          /\ \A j \in 1 .. (p - 1) : L[j].seq < L[p].seq
    BY DEF Peaks, Rises
  <2> QED BY <2>1, LinesAreEntries
<1>3. ASSUME NEW p \in Peaks(L, open)
      PROVE  L[p].seq <= b.last \/ L[p] \in Lines(r.sent)
  <2>1. SUFFICES ASSUME ~(L[p].seq <= b.last) PROVE L[p] \in Lines(r.sent)
    OBVIOUS
  <2>2. b.last < L[p].seq
    BY <2>1, <1>1, <1>2
  <2>3. p \in Rises(L, b.last)
    BY <2>2, <1>2 DEF Rises
  <2> QED BY <2>3, <1>1 DEF IsSent
<1>4. Follows(L, open, c, u \o r.sent, b2)
  BY <1>1, <1>3, PassedFollows
<1>5. r.sent \in Seq(Entry) /\ \A i \in 1 .. Len(L) : L[i].seq <= b2.last
  BY <1>1 DEF IsSent
<1>6. \A p \in Peaks(L, open) :
        L[p].frame \in Members(c.has) \cup FramesOf(u \o r.sent)
  BY <1>2, <1>4, <1>5 DEF Follows
<1> QED BY <1>4, <1>5, <1>6

(* What a client has after it read the first k entries on their way: each   *)
(* frame once, as they are frames of different lines.                       *)
HasAfter(c, u, k) == c.has \o [i \in 1 .. k |-> u[i].frame]

LEMMA ReadOnce ==
  ASSUME NEW L \in Seq(Entry), FramesDiffer(L), NEW open \in BOOLEAN,
         NEW c \in Clients, NEW u \in Seq(Entry), NEW b \in Subs,
         Follows(L, open, c, u, b), NEW k \in 0 .. Len(u)
  PROVE  LET h == HasAfter(c, u, k)
         IN /\ h \in Seq(Frame)
            /\ \A i, j \in 1 .. Len(h) : i # j => h[i] # h[j]
            /\ \A i \in 1 .. Len(h) :
                 \/ \E j \in 1 .. Len(c.has) : h[i] = c.has[j]
                 \/ \E j \in 1 .. k : h[i] = u[j].frame
            /\ Members(c.has) \subseteq Members(h)
            /\ \A j \in 1 .. k : u[j].frame \in Members(h)
<1> DEFINE g == [i \in 1 .. k |-> u[i].frame]
           a == c.has
           h == HasAfter(c, u, k)
<1>0. h = a \o g
  BY DEF HasAfter
<1>1. a \in Seq(Frame) /\ k \in Nat
  BY DEF Clients
<1>2. \A i \in 1 .. k : i \in 1 .. Len(u)
  OBVIOUS
<1>3. /\ g \in Seq(Frame) /\ Len(g) = k /\ \A i \in 1 .. k : g[i] = u[i].frame
  <2>1. \A i \in 1 .. k : u[i].frame \in Frame
    BY <1>2, LinesAreEntries
  <2> QED BY <2>1, <1>1
<1> HIDE DEF g, a, h
<1>4. /\ h \in Seq(Frame)
      /\ \A i \in 1 .. Len(a) : i \in 1 .. Len(h) /\ h[i] = a[i]
      /\ \A i \in 1 .. k :
           Len(a) + i \in 1 .. Len(h) /\ h[Len(a) + i] = u[i].frame
      /\ \A i \in 1 .. Len(h) :
           i \in 1 .. Len(a) \/ \E j \in 1 .. k : i = Len(a) + j
  <2>1. /\ h \in Seq(Frame)
        /\ \A i \in 1 .. Len(a) : i \in 1 .. Len(h) /\ h[i] = a[i]
        /\ \A i \in 1 .. Len(g) :
             Len(a) + i \in 1 .. Len(h) /\ h[Len(a) + i] = g[i]
        /\ \A i \in 1 .. Len(h) :
             i \in 1 .. Len(a) \/ \E j \in 1 .. Len(g) : i = Len(a) + j
    <3>1. h = a \o g /\ a \in Seq(Frame) /\ g \in Seq(Frame)
      BY <1>0, <1>1, <1>3
    <3> QED BY <3>1, Grown
  <2> QED BY <2>1, <1>3
<1>5. /\ \A i, j \in 1 .. Len(L) : L[i].frame = L[j].frame => i = j
      /\ \A i \in 1 .. Len(L) : L[i].seq \in Nat
  BY LinesAreEntries DEF FramesDiffer
<1>6. ASSUME NEW j \in 1 .. k
      PROVE  \E m \in 1 .. Len(L) : u[j] = L[m] /\ c.cursor < L[m].seq
  <2>1. u[j] \in Lines(L) /\ c.cursor < u[j].seq
    BY <1>2 DEF Follows
  <2> QED BY <2>1 DEF Lines
<1>7. ASSUME NEW i \in 1 .. Len(a), NEW j \in 1 .. k
      PROVE  a[i] # u[j].frame
  <2>1. PICK m \in 1 .. Len(L) : u[j] = L[m] /\ c.cursor < L[m].seq
    BY <1>6
  <2>2. PICK l \in 1 .. Len(L) : L[l].frame = a[i] /\ L[l].seq <= c.cursor
    BY DEF Follows, a
  <2>3. c.cursor \in Nat /\ l # m
    BY <1>5, <2>1, <2>2 DEF Clients
  <2> QED BY <2>1, <2>2, <2>3, <1>5
<1>8. ASSUME NEW i \in 1 .. k, NEW j \in 1 .. k, i < j
      PROVE  u[i].frame # u[j].frame
  <2>1. i \in 1 .. j - 1 /\ j \in 1 .. Len(u)
    BY <1>8, <1>2
  <2>2. u[i].seq < u[j].seq
    BY <2>1 DEF Follows
  <2>3. PICK m \in 1 .. Len(L) : u[i] = L[m]
    BY <1>6
  <2>4. PICK l \in 1 .. Len(L) : u[j] = L[l]
    BY <1>6
  <2>5. m # l
    BY <2>2, <2>3, <2>4, <1>5
  <2> QED BY <2>3, <2>4, <2>5, <1>5
<1>9. ASSUME NEW i \in 1 .. Len(h), NEW j \in 1 .. Len(h), i # j
      PROVE  h[i] # h[j]
  <2>1. CASE i \in 1 .. Len(a) /\ j \in 1 .. Len(a)
    BY <2>1, <1>4, <1>9 DEF Follows, a
  <2>2. CASE i \in 1 .. Len(a) /\ j \notin 1 .. Len(a)
    <3>1. PICK m \in 1 .. k : h[j] = u[m].frame
      BY <2>2, <1>4
    <3> QED BY <3>1, <2>2, <1>4, <1>7, ZenonT(60)
  <2>3. CASE i \notin 1 .. Len(a) /\ j \in 1 .. Len(a)
    <3>1. PICK m \in 1 .. k : h[i] = u[m].frame
      BY <2>3, <1>4
    <3> QED BY <3>1, <2>3, <1>4, <1>7
  <2>4. CASE i \notin 1 .. Len(a) /\ j \notin 1 .. Len(a)
    <3>1. PICK m \in 1 .. k : i = Len(a) + m /\ h[i] = u[m].frame
      BY <2>4, <1>4
    <3>2. PICK l \in 1 .. k : j = Len(a) + l /\ h[j] = u[l].frame
      BY <2>4, <1>4
    <3>3. m < l \/ l < m
      BY <3>1, <3>2, <1>9
    <3> QED BY <3>1, <3>2, <3>3, <1>8
  <2> QED BY <2>1, <2>2, <2>3, <2>4
<1>10. ASSUME NEW i \in 1 .. Len(h)
       PROVE  \/ \E j \in 1 .. Len(a) : h[i] = a[j]
              \/ \E j \in 1 .. k : h[i] = u[j].frame
  BY <1>4
<1>11. Members(c.has) \subseteq Members(h)
  BY <1>4 DEF Members, a
<1>12. \A j \in 1 .. k : u[j].frame \in Members(h)
  BY <1>4 DEF Members
<1> QED BY <1>4, <1>9, <1>10, <1>11, <1>12 DEF a, h

(* It follows the log from the last of these on; a subscription of which it *)
(* reads all is told.                                                       *)
LEMMA ReadFollows ==
  ASSUME NEW L \in Seq(Entry), FramesDiffer(L), NEW open \in BOOLEAN,
         NEW c \in Clients, NEW u \in Seq(Entry), NEW b \in Subs,
         Follows(L, open, c, u, b), NEW k \in 0 .. Len(u), NEW d,
         d.cursor = IF k = 0 THEN c.cursor ELSE u[k].seq,
         d.has = HasAfter(c, u, k)
  PROVE  /\ Follows(L, open, d, <<>>, Unsubscribed)
         /\ k = Len(u) /\ b.phase # "off" =>
              \A b2 : b2.phase = "told" /\ b2.last = b.last =>
                        Follows(L, open, d, <<>>, b2)
         /\ k = Len(u) =>
              Members(c.has) \cup FramesOf(u) \subseteq Members(d.has)
<1> DEFINE h == d.has
<1>1. /\ \A i, j \in 1 .. Len(h) : i # j => h[i] # h[j]
      /\ \A i \in 1 .. Len(h) :
           \/ \E j \in 1 .. Len(c.has) : h[i] = c.has[j]
           \/ \E j \in 1 .. k : h[i] = u[j].frame
      /\ Members(c.has) \subseteq Members(h)
      /\ \A j \in 1 .. k : u[j].frame \in Members(h)
  BY ReadOnce
<1>3. /\ \A i \in 1 .. k : i \in 1 .. Len(u)
      /\ c.cursor \in Nat /\ b.last \in Nat
      /\ \A i \in 1 .. Len(u) : u[i].seq \in Nat
      /\ \A i \in 1 .. Len(L) : L[i].seq \in Nat
  <2>1. c.cursor \in Nat /\ b.last \in Nat
    BY DEF Clients, Subs
  <2>2. \A i \in 1 .. k : i \in 1 .. Len(u)
    OBVIOUS
  <2> QED BY <2>1, <2>2, LinesAreEntries
<1>4. /\ \A i \in 1 .. Len(u) :
           /\ c.cursor < u[i].seq /\ u[i].seq <= b.last /\ u[i] \in Lines(L)
           /\ \A j \in 1 .. i - 1 : u[j].seq < u[i].seq
      /\ k # 0 => b.phase # "off"
  BY DEF Follows
<1>5. /\ d.cursor \in Nat /\ c.cursor <= d.cursor
      /\ b.phase # "off" => d.cursor <= b.last
      /\ \A j \in 1 .. k : u[j].seq <= d.cursor
  <2>1. CASE k = 0
    BY <2>1, <1>3 DEF Follows
  <2>2. CASE k # 0
    <3>1. k \in 1 .. Len(u) /\ d.cursor = u[k].seq
      BY <2>2
    <3>2. ASSUME NEW j \in 1 .. k PROVE u[j].seq <= u[k].seq
      <4>1. j = k \/ j \in 1 .. k - 1
        BY <3>1
      <4> QED BY <4>1, <3>1, <1>3, <1>4
    <3> QED BY <3>1, <3>2, <1>3, <1>4
  <2> QED BY <2>1, <2>2
<1>6. Within(L, d.cursor)
  <2>1. CASE k = 0
    BY <2>1 DEF Follows
  <2>2. CASE k # 0
    <3>1. k \in 1 .. Len(u) /\ d.cursor = u[k].seq
      BY <2>2
    <3>2. PICK m \in 1 .. Len(L) : u[k] = L[m]
      BY <3>1, <1>4 DEF Lines
    <3> QED BY <3>1, <3>2, <1>3 DEF Within
  <2> QED BY <2>1, <2>2
<1>7. ASSUME NEW i \in 1 .. Len(h)
      PROVE  \E j \in 1 .. Len(L) : L[j].frame = h[i] /\ L[j].seq <= d.cursor
  <2>1. CASE \E j \in 1 .. Len(c.has) : h[i] = c.has[j]
    <3>1. PICK j \in 1 .. Len(c.has) : h[i] = c.has[j]
      BY <2>1
    <3>2. PICK m \in 1 .. Len(L) :
            L[m].frame = c.has[j] /\ L[m].seq <= c.cursor
      BY DEF Follows
    <3>3. L[m].seq <= d.cursor
      BY <3>2, <1>3, <1>5, SMTT(30)
    <3> QED BY <3>1, <3>2, <3>3
  <2>2. CASE \E j \in 1 .. k : h[i] = u[j].frame
    <3>1. PICK j \in 1 .. k : h[i] = u[j].frame
      BY <2>2
    <3>2. PICK m \in 1 .. Len(L) : u[j] = L[m]
      BY <1>3, <1>4 DEF Lines
    <3> QED BY <3>1, <3>2, <1>5
  <2> QED BY <2>1, <2>2, <1>1
<1>8. ASSUME NEW p \in Peaks(L, open), L[p].seq <= d.cursor
      PROVE  L[p].frame \in Members(h)
  <2>1. p \in 1 .. Len(L) /\ L[p].seq \in Nat
    BY <1>3 DEF Peaks, Rises
  <2>2. CASE L[p].seq <= c.cursor
    BY <2>2, <1>1 DEF Follows
  <2>3. CASE ~(L[p].seq <= c.cursor)
    <3>1. k # 0
      BY <2>3, <1>8
    <3>2. b.phase # "off" /\ L[p].seq <= b.last
      BY <3>1, <2>1, <1>3, <1>4, <1>5, <1>8
    <3>3. L[p].frame \in Members(c.has) \cup FramesOf(u)
      BY <3>2 DEF Follows
    <3>4. CASE L[p].frame \in FramesOf(u)
      <4>1. PICK i \in 1 .. Len(u) : L[p].frame = u[i].frame
        BY <3>4 DEF FramesOf
      <4>2. PICK m \in 1 .. Len(L) : u[i] = L[m]
        BY <1>4 DEF Lines
      <4>3. m = p
        BY <4>1, <4>2, <2>1 DEF FramesDiffer
      <4>4. k \in 1 .. Len(u) /\ u[i].seq <= u[k].seq
        BY <4>2, <4>3, <3>1, <1>8
      <4>5. ~(k \in 1 .. i - 1)
        BY <4>4, <1>3, <1>4
      <4>6. i \in 1 .. k
        BY <4>4, <4>5
      <4> QED BY <4>1, <4>6, <1>1
    <3> QED BY <3>3, <3>4, <1>1
  <2> QED BY <2>2, <2>3
<1>9. k = Len(u) => Members(c.has) \cup FramesOf(u) \subseteq Members(h)
  BY <1>1 DEF FramesOf
<1>10. Len(<<>>) = 0 /\ 1 .. 0 = {}
  OBVIOUS
<1>11. Follows(L, open, d, <<>>, Unsubscribed)
  <2>1. Unsubscribed.phase = "off"
    BY DEF Unsubscribed
  <2> QED BY <1>1, <1>6, <1>7, <1>8, <1>10, <2>1 DEF Follows
<1>12. ASSUME k = Len(u), b.phase # "off", NEW b2, b2.phase = "told",
              b2.last = b.last
       PROVE  Follows(L, open, d, <<>>, b2)
  <2>1. \A p \in Peaks(L, open) :
          L[p].seq <= b.last => L[p].frame \in Members(h)
    BY <1>9, <1>12 DEF Follows
  <2>2. Within(L, b.last)
    BY <1>12 DEF Follows
  <2> QED
    BY <1>1, <1>5, <1>6, <1>7, <1>8, <1>10, <1>12, <2>1, <2>2
    DEF Follows
<1> QED BY <1>9, <1>11, <1>12

(* A connection that is gone leaves the client with its cursor.             *)
LEMMA CutOffFollows ==
  ASSUME NEW L, NEW open, NEW c, NEW u, NEW b, Follows(L, open, c, u, b)
  PROVE  Follows(L, open, c, <<>>, Unsubscribed)
<1>1. Len(<<>>) = 0 /\ 1 .. 0 = {}
  OBVIOUS
<1> QED BY <1>1 DEF Follows, Unsubscribed

-----------------------------------------------------------------------------
(* Typing *)

LEMMA CountedLines ==
  ASSUME FramesTypeOK, NEW frames \in Seq(Frame)
  PROVE  /\ Counted(frames) \in Seq(Entry)
         /\ Len(Counted(frames)) = Len(frames)
         /\ \A i \in 1 .. Len(frames) :
              /\ Counted(frames)[i].seq = count + i
              /\ Counted(frames)[i].frame = frames[i]
<1>1. count \in Nat /\ Len(frames) \in Nat
  BY DEF FramesTypeOK
<1>2. ASSUME NEW i \in 1 .. Len(frames)
      PROVE  [seq |-> count + i, frame |-> frames[i]] \in Entry
  BY <1>1 DEF Entry
<1>3. Counted(frames) \in [1 .. Len(frames) -> Entry]
  BY <1>2 DEF Counted
<1>4. \A i \in 1 .. Len(frames) :
        Counted(frames)[i] = [seq |-> count + i, frame |-> frames[i]]
  BY DEF Counted
<1> QED BY <1>1, <1>3, <1>4

LEMMA NewestTypes ==
  ASSUME NEW entries \in Seq(Entry)
  PROVE  Newest(entries) \in Seq(Entry) /\ Len(Newest(entries)) <= RingMax
<1>1. RingMax \in Nat /\ Len(entries) \in Nat
  BY FramesAssumption
<1>2. CASE Len(entries) > RingMax
  <2> DEFINE m == Len(entries) - RingMax + 1
             n == Len(entries)
  <2>1. m \in Int /\ n \in Int /\ m \in 1 .. n + 1
    BY <1>1, <1>2
  <2>2. \A i \in m .. n : entries[i] \in Entry
    BY <2>1, <1>1
  <2>3. /\ SubSeq(entries, m, n) \in Seq(Entry)
        /\ Len(SubSeq(entries, m, n)) = IF m <= n THEN n - m + 1 ELSE 0
    BY <2>1, <2>2, SubSeqProperties
  <2> QED BY <2>3, <1>1, <1>2 DEF Newest
<1>3. CASE ~(Len(entries) > RingMax)
  BY <1>1, <1>3 DEF Newest
<1> QED BY <1>2, <1>3

LEMMA FannedTypes ==
  ASSUME FramesTypeOK, NEW frames \in Seq(Frame), FannedOut(frames)
  PROVE  /\ count' \in Nat
         /\ ring' \in Seq(Entry) /\ Len(ring') <= RingMax
         /\ sub' \in [Sub -> Subs]
         /\ unread' \in [Sub -> Seq(Entry)]
<1> DEFINE new == Counted(frames)
<1>1. new \in Seq(Entry)
  BY CountedLines
<1> HIDE DEF new
<1>2. /\ count \in Nat /\ ring \in Seq(Entry)
      /\ sub \in [Sub -> Subs] /\ unread \in [Sub -> Seq(Entry)]
  BY DEF FramesTypeOK, Subs
<1>3. ASSUME NEW s \in Sub
      PROVE  /\ Sent(s, new).last \in Nat /\ Sent(s, new).sent \in Seq(Entry)
             /\ [sub[s] EXCEPT !.last = Sent(s, new).last] \in Subs
             /\ unread[s] \o Sent(s, new).sent \in Seq(Entry)
  <2>1. sub[s].last \in Nat
    BY <1>2 DEF Subs
  <2>2. IsSent(new, sub[s].last, Sent(s, new))
    BY <2>1, <1>1, RisingSends DEF Sent
  <2>3. Sent(s, new).last \in Nat /\ Sent(s, new).sent \in Seq(Entry)
    BY <2>2 DEF IsSent
  <2> DEFINE l == Sent(s, new).last
             v == Sent(s, new).sent
  <2> HIDE DEF l, v
  <2>4. [sub[s] EXCEPT !.last = l] \in Subs
    BY <2>3, <1>2 DEF Subs, l
  <2>5. unread[s] \o v \in Seq(Entry)
    BY <2>3, <1>2 DEF v
  <2> QED BY <2>3, <2>4, <2>5 DEF l, v
<1>4. /\ count' = count + Len(frames) /\ ring' = Newest(ring \o new)
      /\ sub' = [s \in Sub |->
                   IF Listening(s)
                   THEN [sub[s] EXCEPT !.last = Sent(s, new).last]
                   ELSE sub[s]]
      /\ unread' = [s \in Sub |->
                      IF Listening(s) THEN unread[s] \o Sent(s, new).sent
                      ELSE unread[s]]
  BY DEF FannedOut, new
<1>5. ring \o new \in Seq(Entry)
  BY <1>1, <1>2
<1>6. ring' \in Seq(Entry) /\ Len(ring') <= RingMax
  BY <1>4, <1>5, NewestTypes
<1>7. Len(frames) \in Nat
  OBVIOUS
<1> QED BY <1>2, <1>3, <1>4, <1>6, <1>7

(* The frames of an end on disk: two lines, or the rest of a broken one and *)
(* the second.                                                              *)
LEMMA FinalLines ==
  ASSUME log \in Seq(Entry), NEW partial \in BOOLEAN, OnDisk(Finals, partial)
  PROVE  \E M \in Seq(Entry) :
           /\ log' = log \o M /\ Len(M) = 2
           /\ M[2] = [seq |-> Len(log) + 2, frame |-> TurnDoneFrame]
           /\ M[1] = IF partial THEN Junk
                     ELSE [seq |-> Len(log) + 1,
                           frame |-> [kind |-> "final", n |-> 1]]
<1> DEFINE line1 == [seq |-> Len(log) + 1,
                     frame |-> [kind |-> "final", n |-> 1]]
           line2 == [seq |-> Len(log) + 2, frame |-> TurnDoneFrame]
           lines == [i \in 1 .. Len(Finals) |->
                       [seq |-> Len(log) + i, frame |-> Finals[i]]]
           M == IF partial THEN <<Junk>> \o <<line2>> ELSE <<line1, line2>>
<1>1. Len(log) \in Nat
  OBVIOUS
<1>2. line1 \in Entry /\ line2 \in Entry /\ Junk \in Entry
  BY <1>1 DEF Entry, Frame, TurnDoneFrame, Junk
<1>3. /\ Len(Finals) = 2 /\ Finals[1] = [kind |-> "final", n |-> 1]
      /\ Finals[2] = TurnDoneFrame
  BY DEF Finals
<1>4. lines = <<line1, line2>>
  BY <1>3
<1> HIDE DEF line1, line2, lines
<1>5. Tail(<<line1, line2>>) = <<line2>>
  OBVIOUS
<1>6. /\ <<Junk>> \o <<line2>> \in Seq(Entry)
      /\ Len(<<Junk>> \o <<line2>>) = 2
      /\ (<<Junk>> \o <<line2>>)[1] = Junk
      /\ (<<Junk>> \o <<line2>>)[2] = line2
  <2>1. <<Junk>> \in Seq(Entry) /\ <<line2>> \in Seq(Entry)
    BY <1>2
  <2> QED BY <2>1, ConcatProperties
<1>7. log' = log \o (IF partial THEN <<Junk>> \o Tail(lines) ELSE lines)
  BY DEF OnDisk, lines
<1>8. log' = log \o M
  BY <1>4, <1>5, <1>7
<1>9. /\ M \in Seq(Entry) /\ Len(M) = 2 /\ M[2] = line2
      /\ M[1] = IF partial THEN Junk ELSE line1
  BY <1>2, <1>6
<1> QED BY <1>8, <1>9 DEF line1, line2

LEMMA TailFrames ==
  ASSUME NEW tail \in Tails
  PROVE  /\ tail \in Seq(Frame) /\ Len(tail) <= 2
         /\ \A i \in 1 .. Len(tail) : tail[i] = [kind |-> "tail", n |-> i]
<1>1. /\ [kind |-> "tail", n |-> 1] \in Frame
      /\ [kind |-> "tail", n |-> 2] \in Frame
  BY DEF Frame
<1>2. CASE tail = <<>>
  BY <1>2
<1>3. CASE tail = <<[kind |-> "tail", n |-> 1]>>
  BY <1>1, <1>3
<1>4. CASE tail = <<[kind |-> "tail", n |-> 1], [kind |-> "tail", n |-> 2]>>
  BY <1>1, <1>4
<1> QED BY <1>2, <1>3, <1>4 DEF Tails

Synthesized ==
  [i \in 1 .. missing |->
     [seq |-> SynthBase + i, frame |-> [kind |-> "synth", n |-> i]]]

LEMMA SynthesizedLines ==
  ASSUME FramesTypeOK
  PROVE  /\ Synthesized \in Seq(Entry) /\ Len(Synthesized) = missing
         /\ \A i \in 1 .. missing :
              /\ Synthesized[i].seq = SynthBase + i
              /\ Synthesized[i].frame = [kind |-> "synth", n |-> i]
<1>1. missing \in Nat /\ SynthBase \in Nat
  BY FramesAssumption DEF FramesTypeOK
<1>2. ASSUME NEW i \in 1 .. missing
      PROVE  [seq |-> SynthBase + i, frame |-> [kind |-> "synth", n |-> i]]
               \in Entry
  BY <1>1 DEF Entry, Frame
<1>3. Synthesized \in [1 .. missing -> Entry]
  BY <1>2 DEF Synthesized
<1>4. \A i \in 1 .. missing :
        Synthesized[i] =
          [seq |-> SynthBase + i, frame |-> [kind |-> "synth", n |-> i]]
  BY DEF Synthesized
<1> QED BY <1>1, <1>3, <1>4

(* What an append does to the log: nothing, or it grows by the frames with  *)
(* their numbers, which are fanned out.                                     *)
LEMMA AppendedTypes ==
  ASSUME FramesTypeOK, NEW frames \in Seq(Frame), Appended(frames)
  PROVE  /\ log' \in Seq(Entry) /\ count' \in Nat
         /\ ring' \in Seq(Entry) /\ Len(ring') <= RingMax
         /\ sub' \in [Sub -> Subs]
         /\ unread' \in [Sub -> Seq(Entry)]
<1>1. CASE mem = "gone"
  BY <1>1 DEF Appended, FramesTypeOK, Subs
<1>2. CASE mem # "gone"
  <2>1. log' = log \o Counted(frames) /\ FannedOut(frames)
    BY <1>2 DEF Appended
  <2>2. log' \in Seq(Entry)
    BY <2>1, CountedLines DEF FramesTypeOK
  <2> QED BY <2>1, <2>2, FannedTypes
<1> QED BY <1>1, <1>2

LEMMA NotifiedTypes ==
  ASSUME NEW b \in Subs
  PROVE  [b EXCEPT !.phase = "draining"] \in Subs
BY DEF Subs, Phases

LEMMA EndedTypes ==
  ASSUME FramesTypeOK, NEW st \in Terminal, Ended(st)
  PROVE  /\ status' \in RunStatuses /\ mem' \in {"active", "grace", "gone"}
         /\ sub' \in [Sub -> Subs] /\ owed' \subseteq Frame
<1>1. /\ sub \in [Sub -> Subs] /\ log \in Seq(Entry) /\ owed \subseteq Frame
  BY DEF FramesTypeOK, Subs
<1>2. \A s \in Sub : [sub[s] EXCEPT !.phase = "draining"] \in Subs
  BY <1>1, NotifiedTypes
<1>3. sub' \in [Sub -> Subs]
  BY <1>1, <1>2 DEF Ended, Notified
<1>4. Streamed \subseteq Frame
  BY <1>1, LinesAreEntries DEF Streamed
<1> QED BY <1>1, <1>3, <1>4 DEF Ended, Terminal, RunStatuses

LEMMA ReadTypes ==
  ASSUME FramesTypeOK, NEW s \in Sub, NEW k \in 0 .. Len(unread[s])
  PROVE  /\ HasRead(s, k) \in Clients
         /\ HasRead(s, k).cursor =
              IF k = 0 THEN client[s].cursor ELSE unread[s][k].seq
         /\ HasRead(s, k).has = HasAfter(client[s], unread[s], k)
         /\ HasRead(s, k).mark = client[s].mark
<1> DEFINE c == client[s]
           u == unread[s]
           got == SubSeq(u, 1, k)
           g == [i \in 1 .. k |-> got[i].frame]
<1>1. c \in Clients /\ u \in Seq(Entry)
  BY DEF FramesTypeOK, Clients
<1>2. HasRead(s, k) = [c EXCEPT !.cursor = IF k = 0 THEN @ ELSE got[k].seq,
                                !.has = @ \o g]
  BY DEF HasRead
<1>3. HasAfter(c, u, k) = c.has \o [i \in 1 .. k |-> u[i].frame]
  BY DEF HasAfter
<1> HIDE DEF c, u
<1>4. k \in Nat /\ k <= Len(u) /\ \A i \in 1 .. k : i \in 1 .. Len(u)
  BY <1>1 DEF u
<1>5. \A i \in 1 .. k : got[i] = u[i]
  <2>1. \A i \in 1 .. k : u[i] \in Entry
    BY <1>1, <1>4
  <2>2. \A i \in 1 .. k - 1 + 1 : got[i] = u[1 + i - 1]
    BY <2>1, <1>4, SubSeqProperties
  <2>3. k - 1 + 1 = k /\ \A i \in 1 .. k : 1 + i - 1 = i
    BY <1>4
  <2> QED BY <2>2, <2>3
<1> HIDE DEF got
<1>6. g = [i \in 1 .. k |-> u[i].frame]
  BY <1>5
<1>7. g \in Seq(Frame)
  <2>1. \A i \in 1 .. k : u[i].frame \in Frame
    BY <1>1, <1>4, LinesAreEntries
  <2> QED BY <1>4, <1>6, <2>1
<1> HIDE DEF g
<1>8. /\ c \in [cursor : Nat, has : Seq(Frame), mark : BOOLEAN]
      /\ c.has \o g \in Seq(Frame)
  BY <1>1, <1>7 DEF Clients
<1>9. k # 0 => got[k].seq = u[k].seq /\ u[k].seq \in Nat
  BY <1>1, <1>4, <1>5, LinesAreEntries
<1> DEFINE h == c.has \o g
           q == IF k = 0 THEN c.cursor ELSE got[k].seq
<1>10. HasRead(s, k) = [c EXCEPT !.cursor = q, !.has = h]
  BY <1>2
<1>11. h \in Seq(Frame) /\ q \in Nat
  BY <1>8, <1>9
<1>12. h = HasAfter(c, u, k)
  BY <1>3, <1>6
<1>13. q = IF k = 0 THEN c.cursor ELSE u[k].seq
  BY <1>9
<1> HIDE DEF h, q
<1> QED BY <1>8, <1>10, <1>11, <1>12, <1>13 DEF Clients, c, u

LEMMA Typing ==
  ASSUME FramesTypeOK, RunIsHeld, [FramesNext]_framesVars
  PROVE  FramesTypeOK'
<1> USE DEF FramesTypeOK
<1>0. /\ sub \in [Sub -> Subs] /\ client \in [Sub -> Clients]
      /\ unread \in [Sub -> Seq(Entry)] /\ Unsubscribed \in Subs
      /\ RingMax \in Nat /\ MaxAttempts \in Nat /\ MaxFrames \in Nat
      /\ MaxTools \in Nat /\ MaxBreaks \in Nat
  BY FramesAssumption DEF Subs, Clients, Unsubscribed, Phases
<1>1. CASE Emit
  <2> DEFINE f == [kind |-> "stream", n |-> produced + 1]
  <2>1. <<f>> \in Seq(Frame) /\ produced' \in 0 .. MaxFrames
    BY <1>1, <1>0 DEF Emit, Frame
  <2>2. Appended(<<f>>)
    BY <1>1 DEF Emit
  <2> HIDE DEF f
  <2>3. /\ log' \in Seq(Entry) /\ count' \in Nat
        /\ ring' \in Seq(Entry) /\ Len(ring') <= RingMax
        /\ sub' \in [Sub -> Subs] /\ unread' \in [Sub -> Seq(Entry)]
    BY <2>1, <2>2, AppendedTypes
  <2> QED BY <1>1, <2>1, <2>3 DEF Emit, Subs
<1>2. CASE AttemptEnds
  <2>1. /\ status' \in RunStatuses /\ mem' \in {"active", "grace", "gone"}
        /\ sub' \in [Sub -> Subs] /\ owed' \subseteq Frame
    <3>1. CASE \E st \in {"completed", "failed"} : Ended(st)
      BY <3>1, EndedTypes DEF Terminal
    <3>2. CASE UNCHANGED <<status, mem, sub, owed>>
      BY <3>2, <1>0
    <3> QED BY <1>2, <3>1, <3>2 DEF AttemptEnds
  <2> QED BY <1>2, <2>1 DEF AttemptEnds, Subs
<1>3. CASE Retry
  <2>1. attempt' \in 1 .. MaxAttempts
    BY <1>3, <1>0 DEF Retry, RunIsHeld
  <2> QED BY <1>3, <2>1 DEF Retry, recordVars, handleVars, subVars
<1>4. CASE Throws
  BY <1>4 DEF Throws, recordVars, handleVars, subVars
<1>5. CASE Cancel
  <2>1. /\ status' \in RunStatuses /\ mem' \in {"active", "grace", "gone"}
        /\ sub' \in [Sub -> Subs] /\ owed' \subseteq Frame
    BY <1>5, EndedTypes DEF Cancel, Terminal
  <2> QED BY <1>5, <2>1 DEF Cancel, bridgeVars, Subs
<1>6. CASE TurnSettles
  <2>1. /\ log' \in Seq(Entry) /\ count' \in Nat
        /\ ring' \in Seq(Entry) /\ Len(ring') <= RingMax
        /\ sub' \in [Sub -> Subs] /\ unread' \in [Sub -> Seq(Entry)]
    <3>1. CASE UNCHANGED <<log, count, ring, sub, unread>>
      BY <3>1, <1>0
    <3>2. CASE \E tail \in Tails : Appended(tail)
      <4>1. PICK tail \in Tails : Appended(tail)
        BY <3>2
      <4>2. tail \in Seq(Frame)
        BY TailFrames
      <4> QED BY <4>1, <4>2, AppendedTypes
    <3> QED BY <1>6, <3>1, <3>2 DEF TurnSettles
  <2>2. /\ missing' \in 0 .. MaxTools
        /\ bridge' \in {"posting", "over"}
    BY <1>6 DEF TurnSettles
  <2> QED BY <1>6, <2>1, <2>2 DEF TurnSettles, Subs
<1>7. CASE TurnPosts
  <2>1. /\ log' \in Seq(Entry) /\ count' \in Nat
        /\ ring' \in Seq(Entry) /\ Len(ring') <= RingMax
        /\ sub' \in [Sub -> Subs] /\ unread' \in [Sub -> Seq(Entry)]
    <3>0. Synthesized \in Seq(Entry)
      BY SynthesizedLines
    <3>1. CASE mem = "gone"
      <4>1. /\ log' = log \o Synthesized
            /\ UNCHANGED <<count, ring, sub, unread>>
        BY <1>7, <3>1 DEF TurnPosts, Synthesized
      <4> QED BY <4>1, <3>0, <1>0
    <3>2. CASE mem # "gone"
      <4>1. PICK tail \in Tails : /\ log' = log \o Synthesized \o Counted(tail)
                                  /\ FannedOut(tail)
        BY <1>7, <3>2 DEF TurnPosts, Synthesized
      <4>2. tail \in Seq(Frame)
        BY TailFrames
      <4>3. Counted(tail) \in Seq(Entry)
        BY <4>2, CountedLines
      <4>4. log' \in Seq(Entry)
        BY <4>1, <4>3, <3>0
      <4> QED BY <4>1, <4>2, <4>4, FannedTypes
    <3> QED BY <3>1, <3>2
  <2> QED BY <1>7, <2>1 DEF TurnPosts, Subs
<1>8. CASE GraceExpires
  BY <1>8, <1>0 DEF GraceExpires, recordVars, bridgeVars, subVars
<1>9. ASSUME NEW s \in Sub, Subscribe(s) PROVE FramesTypeOK'
  <2> DEFINE r == CatchUp(client[s].cursor)
  <2>1. client[s].cursor \in Nat
    BY <1>0 DEF Clients
  <2>2. IsSent(log, client[s].cursor, r)
    BY <2>1, RisingSends DEF CatchUp
  <2>3. r.last \in Nat /\ r.sent \in Seq(Entry)
    BY <2>2 DEF IsSent
  <2> HIDE DEF r
  <2>4. \E ph \in Phases, l \in Nat, m \in BOOLEAN :
          sub' = [sub EXCEPT ![s] = [phase |-> ph, last |-> l, mark |-> m]]
    BY <1>9, <2>1, <2>3 DEF Subscribe, Phases, r
  <2>5. sub' \in [Sub -> Subs]
    BY <2>4, <1>0 DEF Subs
  <2>6. unread' = unread \/ unread' = [unread EXCEPT ![s] = r.sent]
    BY <1>9 DEF Subscribe, r
  <2>7. unread' \in [Sub -> Seq(Entry)]
    BY <2>3, <2>6, <1>0
  <2> QED BY <1>9, <2>5, <2>7
          DEF Subscribe, recordVars, handleVars, bridgeVars, Subs
<1>10. ASSUME NEW s \in Sub, DrainExpires(s) PROVE FramesTypeOK'
  <2> DEFINE r == CatchUp(sub[s].last)
             v == unread[s] \o r.sent
             b == [sub[s] EXCEPT !.phase = "done", !.last = r.last]
  <2>1. sub[s].last \in Nat
    BY <1>0 DEF Subs
  <2>2. IsSent(log, sub[s].last, r)
    BY <2>1, RisingSends DEF CatchUp
  <2>3. r.last \in Nat /\ r.sent \in Seq(Entry)
    BY <2>2 DEF IsSent
  <2>4. /\ sub' = [sub EXCEPT ![s] = b]
        /\ unread' = [unread EXCEPT ![s] = v]
    BY <1>10, <1>0 DEF DrainExpires
  <2> HIDE DEF r
  <2>5. b \in Subs
    BY <2>3, <1>0 DEF Subs, Phases
  <2>6. v \in Seq(Entry)
    BY <2>3, <1>0
  <2> HIDE DEF b, v
  <2>7. sub' \in [Sub -> Subs] /\ unread' \in [Sub -> Seq(Entry)]
    BY <2>4, <2>5, <2>6, <1>0
  <2> QED BY <1>10, <2>7
          DEF DrainExpires, recordVars, handleVars, bridgeVars, Subs
<1>11. ASSUME NEW s \in Sub, Told(s) PROVE FramesTypeOK'
  <2> DEFINE c == [HasRead(s, Len(unread[s])) EXCEPT !.mark = sub[s].mark]
             b == [sub[s] EXCEPT !.phase = "told"]
  <2>1. Len(unread[s]) \in 0 .. Len(unread[s]) /\ sub[s].mark \in BOOLEAN
    BY <1>0 DEF Subs
  <2>2. HasRead(s, Len(unread[s])) \in Clients
    BY <2>1, ReadTypes
  <2>3. c \in Clients /\ b \in Subs
    BY <2>1, <2>2, <1>0 DEF Clients, Subs, Phases
  <2>4. /\ sub' = [sub EXCEPT ![s] = b] /\ client' = [client EXCEPT ![s] = c]
        /\ unread' = [unread EXCEPT ![s] = <<>>]
    BY <1>11, <1>0 DEF Told
  <2> HIDE DEF b, c
  <2>5. /\ sub' \in [Sub -> Subs] /\ client' \in [Sub -> Clients]
        /\ unread' \in [Sub -> Seq(Entry)]
    BY <2>3, <2>4, <1>0
  <2> QED BY <1>11, <2>5
          DEF Told, recordVars, handleVars, bridgeVars, Subs, Clients
<1>12. ASSUME NEW s \in Sub, Disconnect(s) PROVE FramesTypeOK'
  <2>1. PICK k \in 0 .. Len(unread[s]) :
          client' = [client EXCEPT ![s] = HasRead(s, k)]
    BY <1>12 DEF Disconnect
  <2>2. HasRead(s, k) \in Clients
    BY ReadTypes
  <2>3. /\ client' \in [Sub -> Clients]
        /\ unread' \in [Sub -> Seq(Entry)] /\ sub' \in [Sub -> Subs]
    BY <1>12, <2>1, <2>2, <1>0 DEF Disconnect
  <2>4. breaks' \in 0 .. MaxBreaks
    BY <1>12, <1>0 DEF Disconnect
  <2> QED BY <1>12, <2>3, <2>4
          DEF Disconnect, recordVars, handleVars, bridgeVars, Subs, Clients
<1>13. CASE RestartCloses
  <2>1. /\ status' \in RunStatuses /\ mem' \in {"active", "grace", "gone"}
        /\ sub' \in [Sub -> Subs] /\ owed' \subseteq Frame
    BY <1>13, EndedTypes DEF RestartCloses, Terminal
  <2>2. log' \in Seq(Entry)
    <3>1. \E M \in Seq(Entry) : log' = log \o M
      BY <1>13, FinalLines DEF RestartCloses
    <3> QED BY <3>1
  <2> QED BY <1>13, <2>1, <2>2 DEF RestartCloses, bridgeVars, Subs
<1>14. CASE RunDies
  <2>1. log' \in Seq(Entry) /\ owed' \subseteq Frame /\ status' \in RunStatuses
    <3>1. CASE UNCHANGED <<log, owed>>
      BY <1>14, <3>1 DEF RunDies, RunStatuses
    <3>2. CASE ~UNCHANGED <<log, owed>>
      <4>1. PICK partial \in BOOLEAN : OnDisk(Finals, partial)
        BY <1>14, <3>2 DEF RunDies
      <4>2. \E M \in Seq(Entry) : log' = log \o M
        BY <4>1, FinalLines
      <4>3. Streamed \subseteq Frame
        BY LinesAreEntries DEF Streamed
      <4>4. owed' = Streamed /\ status' = "failed"
        BY <1>14, <3>2 DEF RunDies
      <4> QED BY <4>2, <4>3, <4>4 DEF RunStatuses
    <3> QED BY <3>1, <3>2
  <2>2. sub' \in [Sub -> Subs] /\ unread' \in [Sub -> Seq(Entry)]
    BY <1>14, <1>0 DEF RunDies
  <2>3. breaks' \in 0 .. MaxBreaks
    BY <1>14, <1>0 DEF RunDies
  <2>4. mem' = "gone" /\ ring' = <<>> /\ bridge' = "lost"
    BY <1>14 DEF RunDies
  <2> QED BY <1>0, <1>14, <2>1, <2>2, <2>3, <2>4 DEF RunDies, Subs
<1>15. CASE UNCHANGED framesVars
  BY <1>15 DEF framesVars
<1> QED
  BY <1>1, <1>2, <1>3, <1>4, <1>5, <1>6, <1>7, <1>8, <1>9, <1>10, <1>11,
     <1>12, <1>13, <1>14, <1>15
  DEF FramesNext

-----------------------------------------------------------------------------
(* The record, the handle and the followers *)

(* What a fan-out, an append and an end do to one subscription.             *)
LEMMA FannedOne ==
  ASSUME FramesTypeOK, NEW frames, FannedOut(frames), NEW s \in Sub
  PROVE  LET r == Sent(s, Counted(frames))
         IN /\ sub'[s].phase = sub[s].phase /\ sub'[s].mark = sub[s].mark
            /\ Listening(s) => /\ sub'[s].last = r.last
                               /\ unread'[s] = unread[s] \o r.sent
            /\ ~Listening(s) => /\ sub'[s] = sub[s]
                                /\ unread'[s] = unread[s]
<1> DEFINE r == Sent(s, Counted(frames))
<1>1. sub[s] \in [phase : Phases, last : Nat, mark : BOOLEAN]
  BY DEF FramesTypeOK
<1>2. /\ sub'[s] = IF Listening(s) THEN [sub[s] EXCEPT !.last = r.last]
                   ELSE sub[s]
      /\ unread'[s] = IF Listening(s) THEN unread[s] \o r.sent
                      ELSE unread[s]
  BY DEF FannedOut
<1> HIDE DEF r
<1> QED BY <1>1, <1>2 DEF r

LEMMA AppendedOne ==
  ASSUME FramesTypeOK, NEW frames, Appended(frames), NEW s \in Sub
  PROVE  sub'[s].phase = sub[s].phase /\ sub'[s].mark = sub[s].mark
BY FannedOne DEF Appended

LEMMA EndedOne ==
  ASSUME FramesTypeOK, sub' = Notified(sub), NEW s \in Sub
  PROVE  /\ sub[s].phase = "live" => sub'[s].phase = "draining"
         /\ sub[s].phase # "live" => sub'[s].phase = sub[s].phase
         /\ sub'[s].last = sub[s].last /\ sub'[s].mark = sub[s].mark
<1>1. sub[s] \in [phase : Phases, last : Nat, mark : BOOLEAN]
  BY DEF FramesTypeOK
<1>2. sub'[s] = IF sub[s].phase = "live"
                THEN [sub[s] EXCEPT !.phase = "draining"] ELSE sub[s]
  BY DEF Notified
<1> QED BY <1>1, <1>2

LEMMA Holds ==
  ASSUME FramesTypeOK, RunIsHeld, [FramesNext]_framesVars
  PROVE  RunIsHeld'
<1> USE DEF RunIsHeld, Listening
<1>0. \A s \in Sub : sub[s] \in [phase : Phases, last : Nat, mark : BOOLEAN]
  BY DEF FramesTypeOK
<1>1. CASE Emit
  <2>1. \A s \in Sub : sub'[s].phase = sub[s].phase
    BY <1>1, AppendedOne DEF Emit
  <2> QED BY <1>1, <2>1 DEF Emit
<1>2. CASE AttemptEnds
  <2>1. CASE \E st \in {"completed", "failed"} : Ended(st)
    <3>1. /\ status' \in {"completed", "failed"} /\ mem' = "grace"
          /\ sub' = Notified(sub)
      BY <2>1 DEF Ended
    <3>2. \A s \in Sub :
            /\ sub'[s].phase # "live"
            /\ sub'[s].phase = sub[s].phase \/ sub'[s].phase = "draining"
      BY <3>1, EndedOne
    <3> QED BY <1>2, <3>1, <3>2 DEF AttemptEnds
  <2>2. CASE status = "cancelled" /\ UNCHANGED <<status, mem, sub, owed>>
    BY <1>2, <2>2 DEF AttemptEnds
  <2> QED BY <1>2, <2>1, <2>2 DEF AttemptEnds
<1>3. CASE Retry
  BY <1>3 DEF Retry, recordVars, handleVars, subVars
<1>4. CASE Throws
  BY <1>4 DEF Throws, recordVars, handleVars, subVars
<1>5. CASE Cancel
  <2>1. /\ status' = "cancelled" /\ mem' = "grace" /\ sub' = Notified(sub)
    BY <1>5 DEF Cancel, Ended
  <2>2. \A s \in Sub :
          /\ sub'[s].phase # "live"
          /\ sub'[s].phase = sub[s].phase \/ sub'[s].phase = "draining"
    BY <2>1, EndedOne
  <2> QED BY <1>5, <2>1, <2>2 DEF Cancel, bridgeVars
<1>6. CASE TurnSettles
  <2>1. \A s \in Sub : sub'[s].phase = sub[s].phase
    BY <1>6, AppendedOne DEF TurnSettles
  <2>2. /\ bridge' \in {"posting", "over"}
        /\ bridge' = "posting" => missing' # 0
    BY <1>6 DEF TurnSettles
  <2> QED BY <1>6, <2>1, <2>2 DEF TurnSettles
<1>7. CASE TurnPosts
  <2>1. \A s \in Sub : sub'[s].phase = sub[s].phase
    BY <1>7, FannedOne DEF TurnPosts
  <2> QED BY <1>7, <2>1 DEF TurnPosts
<1>8. CASE GraceExpires
  BY <1>8 DEF GraceExpires, recordVars, bridgeVars, subVars
<1>9. ASSUME NEW s \in Sub, Subscribe(s) PROVE RunIsHeld'
  <2>1. /\ sub'[s].phase = "live" => status = "running"
        /\ sub'[s].phase \in {"done", "told"} => status # "running"
        /\ sub'[s].phase # "draining"
    <3>1. CASE status \in Terminal /\ stopped
      BY <1>9, <1>0, <3>1 DEF Subscribe, Terminal, FramesTypeOK
    <3>2. CASE ~(status \in Terminal /\ stopped)
      <4>1. sub'[s].phase = IF status \in Terminal THEN "done"
                            ELSE IF mem # "gone" THEN "live" ELSE "watching"
        BY <1>9, <1>0, <3>2 DEF Subscribe, FramesTypeOK
      <4> QED BY <4>1 DEF Terminal, FramesTypeOK, RunStatuses
    <3> QED BY <3>1, <3>2
  <2>2. \A t \in Sub : t # s => sub'[t] = sub[t]
    BY <1>9, <1>0 DEF Subscribe, FramesTypeOK
  <2>3. \A t \in Sub :
          /\ sub'[t].phase = "live" => status = "running"
          /\ sub'[t].phase \in {"draining", "done", "told"} =>
               status # "running"
          /\ sub'[t].phase \in {"live", "draining"} => mem # "gone"
    BY <2>1, <2>2
  <2> QED BY <1>9, <2>3 DEF Subscribe, recordVars, handleVars, bridgeVars
<1>10. ASSUME NEW s \in Sub, DrainExpires(s) PROVE RunIsHeld'
  <2>1. sub'[s].phase = "done"
    BY <1>10, <1>0 DEF DrainExpires, FramesTypeOK
  <2>2. \A t \in Sub : t # s => sub'[t] = sub[t]
    BY <1>10, <1>0 DEF DrainExpires, FramesTypeOK
  <2>3. status # "running"
    BY <1>10 DEF DrainExpires
  <2> QED
    BY <1>10, <2>1, <2>2, <2>3 DEF DrainExpires, recordVars, handleVars,
       bridgeVars
<1>11. ASSUME NEW s \in Sub, Told(s) PROVE RunIsHeld'
  <2>1. sub'[s].phase = "told" /\ status # "running"
    BY <1>11, <1>0 DEF Told, FramesTypeOK
  <2>2. \A t \in Sub : t # s => sub'[t] = sub[t]
    BY <1>11, <1>0 DEF Told, FramesTypeOK
  <2> QED
    BY <1>11, <2>1, <2>2 DEF Told, recordVars, handleVars, bridgeVars
<1>12. ASSUME NEW s \in Sub, Disconnect(s) PROVE RunIsHeld'
  <2>1. sub'[s].phase = "off"
    BY <1>12, <1>0 DEF Disconnect, FramesTypeOK, Unsubscribed
  <2>2. \A t \in Sub : t # s => sub'[t] = sub[t]
    BY <1>12, <1>0 DEF Disconnect, FramesTypeOK
  <2> QED
    BY <1>12, <2>1, <2>2 DEF Disconnect, recordVars, handleVars, bridgeVars
<1>13. CASE RestartCloses
  <2>1. status' = "failed" /\ mem' = "grace" /\ sub' = Notified(sub)
    BY <1>13 DEF RestartCloses, Ended
  <2>2. \A s \in Sub :
          /\ sub'[s].phase # "live"
          /\ sub'[s].phase = sub[s].phase \/ sub'[s].phase = "draining"
    BY <2>1, EndedOne
  <2>3. status = "running"
    BY <1>13 DEF RestartCloses
  <2> QED BY <1>13, <2>1, <2>2, <2>3 DEF RestartCloses, bridgeVars
<1>14. CASE RunDies
  <2>1. /\ mem' = "gone" /\ bridge' = "lost" /\ status' # "running"
        /\ UNCHANGED <<missing, attempt, shut>>
    BY <1>14 DEF RunDies
  <2>2. \A s \in Sub : sub'[s].phase \in {"told", "off"}
    BY <1>14 DEF RunDies, Unsubscribed
  <2>3. \A s \in Sub : sub'[s].phase = "told" => sub[s].phase = "told"
    BY <1>14 DEF RunDies, Unsubscribed
  <2> QED BY <2>1, <2>2, <2>3
<1>15. CASE UNCHANGED framesVars
  BY <1>15 DEF framesVars
<1> QED
  BY <1>1, <1>2, <1>3, <1>4, <1>5, <1>6, <1>7, <1>8, <1>9, <1>10, <1>11,
     <1>12, <1>13, <1>14, <1>15
  DEF FramesNext

-----------------------------------------------------------------------------
(* What a step does to the log *)

(* Nothing: the turn goes on, or not.                                       *)
LogRests ==
  /\ UNCHANGED <<log, count, shut>>
  /\ produced' \in {produced, produced + 1}
  /\ Streaming' => Streaming
  /\ bridge = "lost" => bridge' = "lost"

(* It grows by a frame of the stream, ...                                   *)
NextFrame == [kind |-> "stream", n |-> produced + 1]

LogStreams ==
  /\ bridge = "streaming" /\ mem # "gone" /\ bridge' = bridge
  /\ produced' = produced + 1 /\ count' = count + 1 /\ shut' = shut
  /\ log' = log \o Counted(<<NextFrame>>) /\ FannedOut(<<NextFrame>>)

(* ... by the tail, ...                                                     *)
LogEnds ==
  \E tail \in Tails :
    /\ bridge = "settled" /\ mem # "gone" /\ bridge' = "over"
    /\ produced' = produced /\ count' = count + Len(tail) /\ shut' = shut
    /\ log' = log \o Counted(tail) /\ FannedOut(tail)

(* ... by synthesized returns with a tail, if the handle is still there, ... *)
LogPosts ==
  \E tail \in Tails :
    /\ bridge = "posting" /\ bridge' = "over"
    /\ produced' = produced /\ count' = count + Len(tail) /\ shut' = shut
    /\ log' = log \o (Synthesized \o Counted(tail))
    /\ \/ FannedOut(tail)
       \/ mem = "gone" /\ tail = <<>> /\ UNCHANGED <<sub, unread>>

(* ... or by the frames of an end, M.                                       *)
AreFinals(M, partial) ==
  /\ Len(M) = 2
  /\ M[2] = [seq |-> Len(log) + 2, frame |-> TurnDoneFrame]
  /\ M[1] = IF partial THEN Junk
            ELSE [seq |-> Len(log) + 1,
                  frame |-> [kind |-> "final", n |-> 1]]

LogCloses ==
  /\ status = "running" /\ produced' = produced /\ count' = count
  /\ owed' = Streamed
  /\ \E M \in Seq(Entry), partial \in BOOLEAN :
       /\ log' = log \o M /\ AreFinals(M, partial)
       /\ \/ shut' = TRUE /\ bridge' = bridge /\ ~partial
          \/ shut' = shut /\ bridge' = "lost"

LEMMA LogSteps ==
  ASSUME FramesTypeOK, RunIsHeld, [FramesNext]_framesVars
  PROVE  \/ LogRests \/ LogStreams \/ LogEnds \/ LogPosts \/ LogCloses
<1> USE DEF Streaming
<1>1. CASE Emit
  <2>1. /\ bridge = "streaming" /\ bridge' = bridge /\ shut' = shut
        /\ produced' = produced + 1 /\ Appended(<<NextFrame>>)
    BY <1>1 DEF Emit, NextFrame
  <2>2. CASE mem = "gone"
    BY <2>1, <2>2 DEF Appended, LogRests
  <2>3. CASE mem # "gone"
    <3>1. log' = log \o Counted(<<NextFrame>>) /\ FannedOut(<<NextFrame>>)
      BY <2>1, <2>3 DEF Appended
    <3>2. count' = count + 1
      BY <3>1 DEF FannedOut
    <3> QED BY <2>1, <2>3, <3>1, <3>2 DEF LogStreams
  <2> QED BY <2>2, <2>3
<1>2. CASE AttemptEnds
  BY <1>2 DEF AttemptEnds, LogRests
<1>3. CASE Retry
  BY <1>3 DEF Retry, LogRests, recordVars, handleVars
<1>4. CASE Throws
  BY <1>4 DEF Throws, LogRests, recordVars, handleVars
<1>5. CASE Cancel
  BY <1>5 DEF Cancel, LogRests, bridgeVars
<1>6. CASE TurnSettles
  <2>1. /\ bridge = "settled" /\ produced' = produced /\ shut' = shut
        /\ bridge' \in {"posting", "over"}
    BY <1>6 DEF TurnSettles
  <2>2. CASE UNCHANGED <<log, count, ring, sub, unread>>
    BY <2>1, <2>2 DEF LogRests
  <2>3. CASE bridge' = "over" /\ \E tail \in Tails : Appended(tail)
    <3>1. PICK tail \in Tails : Appended(tail)
      BY <2>3
    <3>2. CASE mem = "gone"
      BY <2>1, <3>1, <3>2 DEF Appended, LogRests
    <3>3. CASE mem # "gone"
      <4>1. log' = log \o Counted(tail) /\ FannedOut(tail)
        BY <3>1, <3>3 DEF Appended
      <4>2. count' = count + Len(tail)
        BY <4>1 DEF FannedOut
      <4> QED BY <2>1, <2>3, <3>3, <4>1, <4>2 DEF LogEnds
    <3> QED BY <3>2, <3>3
  <2> QED BY <1>6, <2>2, <2>3 DEF TurnSettles
<1>7. CASE TurnPosts
  <2>1. /\ bridge = "posting" /\ bridge' = "over" /\ produced' = produced
        /\ shut' = shut
    BY <1>7 DEF TurnPosts
  <2>2. Synthesized \in Seq(Entry) /\ log \in Seq(Entry) /\ count \in Nat
    BY SynthesizedLines DEF FramesTypeOK
  <2>3. CASE mem = "gone"
    <3>1. log' = log \o Synthesized /\ UNCHANGED <<count, sub, unread>>
      BY <1>7, <2>3 DEF TurnPosts, Synthesized
    <3>2. Counted(<<>>) = <<>>
      BY DEF Counted
    <3>3. Synthesized \o Counted(<<>>) = Synthesized
      BY <2>2, <3>2, ConcatEmptySeq
    <3>4. <<>> \in Tails /\ count' = count + Len(<<>>)
      BY <2>2, <3>1 DEF Tails
    <3> QED BY <2>1, <2>3, <3>1, <3>3, <3>4 DEF LogPosts
  <2>4. CASE mem # "gone"
    <3>1. PICK tail \in Tails : /\ log' = log \o Synthesized \o Counted(tail)
                                /\ FannedOut(tail)
      BY <1>7, <2>4 DEF TurnPosts, Synthesized
    <3>2. Counted(tail) \in Seq(Entry)
      BY TailFrames, CountedLines
    <3>3. log' = log \o (Synthesized \o Counted(tail))
      BY <2>2, <3>1, <3>2, ConcatAssociative
    <3>4. count' = count + Len(tail)
      BY <3>1 DEF FannedOut
    <3> QED BY <2>1, <3>1, <3>3, <3>4 DEF LogPosts
  <2> QED BY <2>3, <2>4
<1>8. CASE GraceExpires
  BY <1>8 DEF GraceExpires, LogRests, recordVars, bridgeVars
<1>9. ASSUME NEW s \in Sub, Subscribe(s) PROVE LogRests
  BY <1>9 DEF Subscribe, LogRests, recordVars, handleVars, bridgeVars
<1>10. ASSUME NEW s \in Sub, DrainExpires(s) PROVE LogRests
  BY <1>10 DEF DrainExpires, LogRests, recordVars, handleVars, bridgeVars
<1>11. ASSUME NEW s \in Sub, Told(s) PROVE LogRests
  BY <1>11 DEF Told, LogRests, recordVars, handleVars, bridgeVars
<1>12. ASSUME NEW s \in Sub, Disconnect(s) PROVE LogRests
  BY <1>12 DEF Disconnect, LogRests, recordVars, handleVars, bridgeVars
<1>13. CASE RestartCloses
  <2>1. PICK M \in Seq(Entry) : log' = log \o M /\ AreFinals(M, FALSE)
    BY <1>13, FinalLines DEF RestartCloses, AreFinals, FramesTypeOK
  <2>2. /\ status = "running" /\ shut' = TRUE /\ owed' = Streamed
        /\ UNCHANGED <<count, produced, bridge>>
    BY <1>13 DEF RestartCloses, Ended, bridgeVars
  <2> QED BY <2>1, <2>2 DEF LogCloses
<1>14. CASE RunDies
  <2>1. /\ bridge' = "lost" /\ UNCHANGED <<count, produced, shut>>
    BY <1>14 DEF RunDies
  <2>2. CASE UNCHANGED log
    BY <2>1, <2>2 DEF LogRests
  <2>3. CASE ~UNCHANGED log
    <3>1. PICK partial \in BOOLEAN : OnDisk(Finals, partial)
      BY <1>14, <2>3 DEF RunDies
    <3>2. PICK M \in Seq(Entry) : log' = log \o M /\ AreFinals(M, partial)
      BY <3>1, FinalLines DEF AreFinals, FramesTypeOK
    <3>3. status = "running" /\ owed' = Streamed
      BY <1>14, <2>3 DEF RunDies
    <3> QED BY <2>1, <3>2, <3>3 DEF LogCloses
  <2> QED BY <2>2, <2>3
<1>15. CASE UNCHANGED framesVars
  BY <1>15 DEF framesVars, LogRests
<1> QED
  BY <1>1, <1>2, <1>3, <1>4, <1>5, <1>6, <1>7, <1>8, <1>9, <1>10, <1>11,
     <1>12, <1>13, <1>14, <1>15
  DEF FramesNext

-----------------------------------------------------------------------------
(* Numbers and frames of the log *)

LEMMA DifferGrows ==
  ASSUME NEW L \in Seq(Entry), NEW M \in Seq(Entry),
         FramesDiffer(L), FramesDiffer(M),
         \A i \in 1 .. Len(L) : \A k \in 1 .. Len(M) : L[i].frame # M[k].frame
  PROVE  FramesDiffer(L \o M)
<1> DEFINE LM == L \o M
<1>1. /\ \A i \in 1 .. Len(L) : LM[i] = L[i]
      /\ \A k \in 1 .. Len(M) : LM[Len(L) + k] = M[k]
      /\ \A i \in 1 .. Len(LM) :
           i \in 1 .. Len(L) \/ \E k \in 1 .. Len(M) : i = Len(L) + k
  BY Grown
<1> HIDE DEF LM
<1>2. ASSUME NEW i \in 1 .. Len(LM), NEW j \in 1 .. Len(LM), i # j
      PROVE  LM[i].frame # LM[j].frame
  <2>1. CASE i \in 1 .. Len(L) /\ j \in 1 .. Len(L)
    BY <2>1, <1>1, <1>2 DEF FramesDiffer
  <2>2. CASE i \in 1 .. Len(L) /\ j \notin 1 .. Len(L)
    <3>1. PICK k \in 1 .. Len(M) : j = Len(L) + k
      BY <2>2, <1>1
    <3> QED BY <3>1, <2>2, <1>1
  <2>3. CASE i \notin 1 .. Len(L) /\ j \in 1 .. Len(L)
    <3>1. PICK k \in 1 .. Len(M) : i = Len(L) + k
      BY <2>3, <1>1
    <3> QED BY <3>1, <2>3, <1>1
  <2>4. CASE i \notin 1 .. Len(L) /\ j \notin 1 .. Len(L)
    <3>1. PICK k \in 1 .. Len(M) : i = Len(L) + k
      BY <2>4, <1>1
    <3>2. PICK l \in 1 .. Len(M) : j = Len(L) + l
      BY <2>4, <1>1
    <3>3. k # l
      BY <3>1, <3>2, <1>2
    <3>4. LM[i] = M[k] /\ LM[j] = M[l]
      BY <3>1, <3>2, <1>1
    <3> QED BY <3>3, <3>4 DEF FramesDiffer
  <2> QED BY <2>1, <2>2, <2>3, <2>4
<1> QED BY <1>2 DEF FramesDiffer, LM

NumbersDiffer(L) ==
  \A i, j \in 1 .. Len(L) : i # j => L[i].seq # L[j].seq

LEMMA NumbersGrow ==
  ASSUME NEW L \in Seq(Entry), NEW M \in Seq(Entry),
         NumbersDiffer(L), NumbersDiffer(M),
         \A i \in 1 .. Len(L) : \A k \in 1 .. Len(M) : L[i].seq # M[k].seq
  PROVE  NumbersDiffer(L \o M)
<1> DEFINE LM == L \o M
<1>1. /\ \A i \in 1 .. Len(L) : LM[i] = L[i]
      /\ \A k \in 1 .. Len(M) : LM[Len(L) + k] = M[k]
      /\ \A i \in 1 .. Len(LM) :
           i \in 1 .. Len(L) \/ \E k \in 1 .. Len(M) : i = Len(L) + k
  BY Grown
<1> HIDE DEF LM
<1>2. ASSUME NEW i \in 1 .. Len(LM), NEW j \in 1 .. Len(LM), i # j
      PROVE  LM[i].seq # LM[j].seq
  <2>1. CASE i \in 1 .. Len(L) /\ j \in 1 .. Len(L)
    BY <2>1, <1>1, <1>2 DEF NumbersDiffer
  <2>2. CASE i \in 1 .. Len(L) /\ j \notin 1 .. Len(L)
    <3>1. PICK k \in 1 .. Len(M) : j = Len(L) + k
      BY <2>2, <1>1
    <3> QED BY <3>1, <2>2, <1>1
  <2>3. CASE i \notin 1 .. Len(L) /\ j \in 1 .. Len(L)
    <3>1. PICK k \in 1 .. Len(M) : i = Len(L) + k
      BY <2>3, <1>1
    <3> QED BY <3>1, <2>3, <1>1
  <2>4. CASE i \notin 1 .. Len(L) /\ j \notin 1 .. Len(L)
    <3>1. PICK k \in 1 .. Len(M) : i = Len(L) + k
      BY <2>4, <1>1
    <3>2. PICK l \in 1 .. Len(M) : j = Len(L) + l
      BY <2>4, <1>1
    <3>3. k # l
      BY <3>1, <3>2, <1>2
    <3>4. LM[i] = M[k] /\ LM[j] = M[l]
      BY <3>1, <3>2, <1>1
    <3> QED BY <3>3, <3>4 DEF NumbersDiffer
  <2> QED BY <2>1, <2>2, <2>3, <2>4
<1> QED BY <1>2 DEF NumbersDiffer, LM

(* What stands in a log while the turn streams and nothing has closed it.   *)
LEMMA StreamedLog ==
  ASSUME FramesTypeOK, RunIsHeld, NumbersRunOn, FramesAreOnce,
         Streaming, ~shut
  PROVE  /\ NumbersDiffer(log)
         /\ \A i \in 1 .. Len(log) :
              /\ log[i].seq = i /\ log[i].seq <= count
              /\ log[i].frame.kind = "stream"
<1>1. \A i \in 1 .. Len(log) : log[i].seq = i /\ i <= count
  BY DEF NumbersRunOn, FramesTypeOK
<1>2. bridge # "lost"
  BY DEF Streaming
<1>3. \A i \in 1 .. Len(log) :
        /\ log[i].frame.kind \in {"stream", "synth", "tail", "final"}
        /\ log[i].frame.kind \notin {"synth", "tail", "final"}
  BY <1>2, LinesAreEntries DEF FramesTypeOK, FramesAreOnce, Frame
<1> QED BY <1>1, <1>3 DEF NumbersDiffer

(* The synthesized returns and the tail behind them.                        *)
LEMMA PostedLines ==
  ASSUME FramesTypeOK, NEW tail \in Tails
  PROVE  LET M == Synthesized \o Counted(tail)
         IN /\ M \in Seq(Entry) /\ Len(tail) \in 0 .. 2
            /\ Counted(tail) \in Seq(Entry)
            /\ \A k \in 1 .. Len(M) :
                 \/ /\ k \in 1 .. missing /\ M[k].seq = SynthBase + k
                    /\ M[k].frame = [kind |-> "synth", n |-> k]
                 \/ \E l \in 1 .. Len(tail) :
                      /\ k = missing + l /\ M[k].seq = count + l
                      /\ M[k].frame = [kind |-> "tail", n |-> l]
            /\ missing # 0 => 1 \in 1 .. Len(M) /\ M[1].seq = SynthBase + 1
<1> DEFINE M == Synthesized \o Counted(tail)
<1>1. /\ Synthesized \in Seq(Entry) /\ Len(Synthesized) = missing
      /\ \A i \in 1 .. missing :
           /\ Synthesized[i].seq = SynthBase + i
           /\ Synthesized[i].frame = [kind |-> "synth", n |-> i]
  BY SynthesizedLines
<1>2. /\ tail \in Seq(Frame) /\ Len(tail) <= 2
      /\ \A i \in 1 .. Len(tail) : tail[i] = [kind |-> "tail", n |-> i]
  BY TailFrames
<1>3. /\ Counted(tail) \in Seq(Entry) /\ Len(Counted(tail)) = Len(tail)
      /\ \A i \in 1 .. Len(tail) :
           /\ Counted(tail)[i].seq = count + i
           /\ Counted(tail)[i].frame = tail[i]
  BY <1>2, CountedLines
<1>4. /\ M \in Seq(Entry)
      /\ \A i \in 1 .. missing :
           i \in 1 .. Len(M) /\ M[i] = Synthesized[i]
      /\ \A l \in 1 .. Len(tail) : M[missing + l] = Counted(tail)[l]
      /\ \A i \in 1 .. Len(M) :
           i \in 1 .. missing \/ \E l \in 1 .. Len(tail) : i = missing + l
  <2> DEFINE N == Counted(tail)
             T == Synthesized
  <2>1. N \in Seq(Entry) /\ T \in Seq(Entry)
    BY <1>1, <1>3
  <2>2. Len(N) = Len(tail) /\ Len(T) = missing /\ M = T \o N
    BY <1>1, <1>3
  <2> HIDE DEF M, N, T
  <2>3. /\ T \o N \in Seq(Entry)
        /\ \A i \in 1 .. Len(T) :
             i \in 1 .. Len(T \o N) /\ (T \o N)[i] = T[i]
        /\ \A l \in 1 .. Len(N) : (T \o N)[Len(T) + l] = N[l]
        /\ \A i \in 1 .. Len(T \o N) :
             i \in 1 .. Len(T) \/ \E l \in 1 .. Len(N) : i = Len(T) + l
    BY <2>1, Grown
  <2> QED BY <2>2, <2>3 DEF N, T
<1> HIDE DEF M
<1>5. ASSUME NEW k \in 1 .. Len(M)
      PROVE  \/ /\ k \in 1 .. missing /\ M[k].seq = SynthBase + k
                /\ M[k].frame = [kind |-> "synth", n |-> k]
             \/ \E l \in 1 .. Len(tail) :
                  /\ k = missing + l /\ M[k].seq = count + l
                  /\ M[k].frame = [kind |-> "tail", n |-> l]
  <2>1. CASE k \in 1 .. missing
    BY <2>1, <1>1, <1>4
  <2>2. CASE k \notin 1 .. missing
    <3>1. PICK l \in 1 .. Len(tail) : k = missing + l
      BY <2>2, <1>4
    <3> QED BY <3>1, <1>2, <1>3, <1>4
  <2> QED BY <2>1, <2>2
<1>6. Len(tail) \in 0 .. 2
  <2> DEFINE n == Len(tail)
  <2>1. n \in Nat /\ n <= 2
    BY <1>2
  <2> HIDE DEF n
  <2>2. n \in 0 .. 2
    BY <2>1
  <2> QED BY <2>2 DEF n
<1>7. ASSUME missing # 0 PROVE 1 \in 1 .. Len(M) /\ M[1].seq = SynthBase + 1
  <2>1. 1 \in 1 .. missing
    BY <1>7 DEF FramesTypeOK
  <2> QED BY <2>1, <1>1, <1>4
<1> QED BY <1>3, <1>4, <1>5, <1>6, <1>7 DEF M

LogInv == NumbersRunOn /\ FramesAreOnce /\ SeqNamesOneFrame

LEMMA TailKinds ==
  ASSUME FramesTypeOK, NEW tail \in Tails
  PROVE  LET M == Counted(tail)
         IN /\ M \in Seq(Entry) /\ Len(tail) \in 0 .. 2 /\ Len(M) = Len(tail)
            /\ \A k \in 1 .. Len(M) :
                 /\ M[k].seq = count + k
                 /\ M[k].frame = [kind |-> "tail", n |-> k]
<1>1. /\ tail \in Seq(Frame)
      /\ \A i \in 1 .. Len(tail) : tail[i] = [kind |-> "tail", n |-> i]
  BY TailFrames
<1>2. Len(tail) \in 0 .. 2
  BY PostedLines
<1>3. /\ Counted(tail) \in Seq(Entry) /\ Len(Counted(tail)) = Len(tail)
      /\ \A i \in 1 .. Len(tail) :
           /\ Counted(tail)[i].seq = count + i
           /\ Counted(tail)[i].frame = tail[i]
  BY <1>1, CountedLines
<1> QED BY <1>1, <1>2, <1>3

(* The frame the turn streams next is the one line of its append.           *)
LEMMA NextLine ==
  ASSUME FramesTypeOK
  PROVE  LET M == Counted(<<NextFrame>>)
         IN /\ M \in Seq(Entry) /\ Len(M) = 1
            /\ M[1].seq = count + 1 /\ M[1].frame = NextFrame
<1>1. NextFrame \in Frame /\ <<NextFrame>> \in Seq(Frame)
  BY DEF NextFrame, Frame, FramesTypeOK
<1> DEFINE one == <<NextFrame>>
<1>2. one \in Seq(Frame) /\ Len(one) = 1 /\ one[1] = NextFrame
  BY <1>1
<1> HIDE DEF one
<1>3. /\ Counted(one) \in Seq(Entry) /\ Len(Counted(one)) = Len(one)
      /\ \A i \in 1 .. Len(one) : /\ Counted(one)[i].seq = count + i
                                  /\ Counted(one)[i].frame = one[i]
  BY <1>2, CountedLines
<1>4. 1 \in 1 .. Len(one)
  BY <1>2
<1> QED BY <1>2, <1>3, <1>4 DEF one

LEMMA StreamKeepsLog ==
  ASSUME FramesTypeOK, RunIsHeld, LogInv, LogStreams
  PROVE  LogInv'
<1> DEFINE M == Counted(<<NextFrame>>)
<1>1. /\ M \in Seq(Entry) /\ Len(M) = 1
      /\ M[1].seq = count + 1 /\ M[1].frame = NextFrame
  BY NextLine
<1> HIDE DEF M
<1>2. /\ log' = log \o M /\ shut' = shut /\ bridge = "streaming"
      /\ bridge' = bridge /\ produced' = produced + 1 /\ count' = count + 1
  BY DEF LogStreams, M
<1>3. /\ log \in Seq(Entry) /\ count \in Nat /\ produced \in Nat
  BY DEF FramesTypeOK
<1>4. /\ Streaming /\ Streaming'
  BY <1>2 DEF Streaming
<1>5. /\ Len(log') = Len(log) + 1
      /\ \A i \in 1 .. Len(log) : log'[i] = log[i]
      /\ log'[Len(log) + 1] = M[1]
      /\ \A i \in 1 .. Len(log') : i \in 1 .. Len(log) \/ i = Len(log) + 1
  <2>1. 1 \in 1 .. Len(M) /\ 1 .. Len(M) = {1}
    BY <1>1
  <2>2. /\ Len(log \o M) = Len(log) + Len(M)
        /\ \A i \in 1 .. Len(log) : (log \o M)[i] = log[i]
        /\ \A k \in 1 .. Len(M) : (log \o M)[Len(log) + k] = M[k]
        /\ \A i \in 1 .. Len(log \o M) :
             i \in 1 .. Len(log) \/ \E k \in 1 .. Len(M) : i = Len(log) + k
    <3>1. log \in Seq(Entry) /\ M \in Seq(Entry)
      BY <1>1, <1>3
    <3> QED BY <3>1, Grown
  <2> QED BY <1>1, <1>2, <2>1, <2>2
<1>6. NumbersRunOn'
  <2>1. count' <= produced'
    BY <1>2, <1>3, <1>4 DEF LogInv, NumbersRunOn
  <2>2. ASSUME ~shut
        PROVE  /\ Len(log') = count'
               /\ \A i \in 1 .. Len(log') : log'[i].seq = i
    <3>1. Len(log) = count /\ \A i \in 1 .. Len(log) : log[i].seq = i
      BY <1>4, <2>2 DEF LogInv, NumbersRunOn
    <3> QED BY <3>1, <1>1, <1>2, <1>5
  <2> QED BY <1>2, <1>3, <2>1, <2>2 DEF NumbersRunOn
<1>7. FramesAreOnce'
  <2>1. \A i \in 1 .. Len(log) :
          LET f == log[i].frame
          IN /\ f.kind = "stream" => f.n <= produced
             /\ f.kind \in {"synth", "tail"} => ~Streaming
             /\ f.kind = "final" => shut \/ bridge = "lost"
    BY DEF LogInv, FramesAreOnce
  <2>2. NextFrame.kind = "stream" /\ NextFrame.n = produced + 1
    BY DEF NextFrame
  <2>3. \A i \in 1 .. Len(log) : log[i].frame # NextFrame
    BY <1>3, <2>1, <2>2
  <2>4. FramesDiffer(M)
    BY <1>1 DEF FramesDiffer
  <2>5. \A k \in 1 .. Len(M) : M[k].frame = NextFrame
    BY <1>1
  <2>6. FramesDiffer(log')
    BY <1>1, <1>2, <1>3, <2>3, <2>4, <2>5, DifferGrows
    DEF LogInv, FramesAreOnce
  <2>7. \A i \in 1 .. Len(log) : log[i].frame.n \in Nat
    BY LinesAreEntries, <1>3 DEF Frame
  <2>8. ASSUME NEW i \in 1 .. Len(log')
        PROVE  LET f == log'[i].frame
               IN /\ f.kind = "stream" => f.n <= produced + 1
                  /\ f.kind \notin {"synth", "tail"}
                  /\ f.kind = "final" => shut \/ bridge = "lost"
    <3>1. CASE i \in 1 .. Len(log)
      <4>1. log'[i] = log[i]
        BY <3>1, <1>5
      <4>2. log[i].frame.kind = "stream" => log[i].frame.n <= produced + 1
        BY <3>1, <2>1, <2>7, <1>3
      <4> QED BY <3>1, <4>1, <4>2, <2>1, <1>4
    <3>2. CASE i = Len(log) + 1
      BY <3>2, <2>2, <1>1, <1>3, <1>5
    <3> QED BY <3>1, <3>2, <1>5
  <2> QED BY <1>2, <2>6, <2>8 DEF FramesAreOnce
<1>8. SeqNamesOneFrame'
  BY <1>4, <1>6 DEF NumbersRunOn, SeqNamesOneFrame
<1> QED BY <1>6, <1>7, <1>8 DEF LogInv

(* The tail, and synthesized returns before it, are new to the log.         *)
LEMMA LastLinesKeepLog ==
  ASSUME FramesTypeOK, RunIsHeld, LogInv, Streaming, ~Streaming',
         NEW M \in Seq(Entry), log' = log \o M, shut' = shut,
         produced' = produced, count' <= produced + 2,
         FramesDiffer(M), NumbersDiffer(M),
         \A k \in 1 .. Len(M) :
           M[k].frame.kind \in {"synth", "tail"} /\ count < M[k].seq
  PROVE  LogInv'
<1>1. /\ \A i \in 1 .. Len(log) : log'[i] = log[i]
      /\ \A k \in 1 .. Len(M) : log'[Len(log) + k] = M[k]
      /\ \A i \in 1 .. Len(log') :
           i \in 1 .. Len(log) \/ \E k \in 1 .. Len(M) : i = Len(log) + k
  BY Grown DEF FramesTypeOK
<1>2. \A i \in 1 .. Len(log) :
        LET f == log[i].frame
        IN /\ f.kind = "stream" => f.n <= produced
           /\ f.kind \notin {"synth", "tail"}
           /\ f.kind = "final" => shut \/ bridge = "lost"
  BY DEF LogInv, FramesAreOnce
<1>3. FramesDiffer(log')
  <2>1. \A i \in 1 .. Len(log) : \A k \in 1 .. Len(M) :
          log[i].frame # M[k].frame
    BY <1>2
  <2> QED BY <2>1, DifferGrows DEF LogInv, FramesAreOnce, FramesTypeOK
<1>4. FramesAreOnce'
  <2>1. bridge # "lost"
    BY DEF Streaming
  <2>2. ASSUME NEW i \in 1 .. Len(log')
        PROVE  LET f == log'[i].frame
               IN /\ f.kind = "stream" => f.n <= produced
                  /\ f.kind = "final" => shut
    <3>1. CASE i \in 1 .. Len(log)
      BY <3>1, <2>1, <1>1, <1>2
    <3>2. CASE i \notin 1 .. Len(log)
      <4>1. PICK k \in 1 .. Len(M) : i = Len(log) + k
        BY <3>2, <1>1
      <4>2. log'[i].frame.kind \in {"synth", "tail"}
        BY <4>1, <1>1
      <4> QED BY <4>2
    <3> QED BY <3>1, <3>2
  <2> QED BY <1>3, <2>2 DEF FramesAreOnce
<1>5. SeqNamesOneFrame'
  <2>1. SUFFICES ASSUME ~shut PROVE NumbersDiffer(log')
    BY DEF SeqNamesOneFrame, NumbersDiffer
  <2>2. /\ NumbersDiffer(log) /\ log \in Seq(Entry) /\ count \in Nat
        /\ \A i \in 1 .. Len(log) : log[i].seq <= count
    BY <2>1, StreamedLog DEF LogInv, FramesTypeOK
  <2>3. \A i \in 1 .. Len(log) : log[i].seq \in Nat
    BY <2>2, LinesAreEntries
  <2>4. \A k \in 1 .. Len(M) : M[k].seq \in Nat
    BY LinesAreEntries
  <2>5. \A i \in 1 .. Len(log) : \A k \in 1 .. Len(M) :
          log[i].seq # M[k].seq
    BY <2>2, <2>3, <2>4
  <2> QED BY <2>2, <2>5, NumbersGrow
<1>6. NumbersRunOn'
  BY DEF NumbersRunOn
<1> QED BY <1>4, <1>5, <1>6 DEF LogInv

LEMMA EndKeepsLog ==
  ASSUME FramesTypeOK, RunIsHeld, LogInv, LogEnds
  PROVE  LogInv'
<1>1. PICK tail \in Tails :
        /\ bridge = "settled" /\ bridge' = "over"
        /\ produced' = produced /\ count' = count + Len(tail) /\ shut' = shut
        /\ log' = log \o Counted(tail)
  BY DEF LogEnds
<1> DEFINE M == Counted(tail)
           n == Len(tail)
<1>2. /\ M \in Seq(Entry) /\ n \in 0 .. 2 /\ Len(M) = n
      /\ \A k \in 1 .. Len(M) : /\ M[k].seq = count + k
                                /\ M[k].frame = [kind |-> "tail", n |-> k]
  BY TailKinds
<1>3. log' = log \o M /\ count' = count + n
  BY <1>1
<1> HIDE DEF M, n
<1>4. count \in Nat /\ produced \in Nat
  BY DEF FramesTypeOK
<1>5. Streaming /\ ~Streaming'
  BY <1>1 DEF Streaming
<1>6. count' <= produced + 2
  BY <1>2, <1>3, <1>4, <1>5 DEF LogInv, NumbersRunOn
<1>7. ASSUME NEW k \in 1 .. Len(M)
      PROVE  /\ k \in Nat /\ M[k].seq = count + k
             /\ M[k].frame.kind = "tail" /\ M[k].frame.n = k
  <2>1. M[k].seq = count + k /\ M[k].frame = [kind |-> "tail", n |-> k]
    BY <1>2
  <2>2. k \in Nat
    OBVIOUS
  <2> QED BY <2>1, <2>2
<1>8. FramesDiffer(M)
  BY <1>7 DEF FramesDiffer
<1>9. NumbersDiffer(M)
  <2>1. \A k, l \in Nat : count + k = count + l => k = l
    BY <1>4
  <2> QED BY <1>7, <2>1 DEF NumbersDiffer
<1>10. \A k \in 1 .. Len(M) :
        M[k].frame.kind \in {"synth", "tail"} /\ count < M[k].seq
  <2>1. \A k \in 1 .. Len(M) : count < count + k
    BY <1>2, <1>4
  <2> QED BY <1>7, <2>1
<1>11. M \in Seq(Entry) /\ shut' = shut /\ produced' = produced
  BY <1>1, <1>2
<1> QED BY <1>3, <1>5, <1>6, <1>8, <1>9, <1>10, <1>11, LastLinesKeepLog

(* The numbers of the tail end below those of the synthesized returns.      *)
LEMMA PostKeepsLog ==
  ASSUME FramesTypeOK, RunIsHeld, LogInv, LogPosts
  PROVE  LogInv'
<1>1. PICK tail \in Tails :
        /\ bridge = "posting" /\ bridge' = "over"
        /\ produced' = produced /\ count' = count + Len(tail) /\ shut' = shut
        /\ log' = log \o (Synthesized \o Counted(tail))
  BY DEF LogPosts
<1> DEFINE M == Synthesized \o Counted(tail)
           n == Len(tail)
<1>2. /\ M \in Seq(Entry) /\ n \in 0 .. 2
      /\ \A k \in 1 .. Len(M) :
           \/ /\ k \in 1 .. missing /\ M[k].seq = SynthBase + k
              /\ M[k].frame = [kind |-> "synth", n |-> k]
           \/ \E l \in 1 .. n :
                /\ k = missing + l /\ M[k].seq = count + l
                /\ M[k].frame = [kind |-> "tail", n |-> l]
  BY PostedLines
<1>3. log' = log \o M /\ count' = count + n
  BY <1>1
<1> HIDE DEF M, n
<1>4. /\ count \in Nat /\ produced \in Nat /\ produced <= MaxFrames
      /\ missing \in Nat /\ SynthBase \in Nat /\ MaxFrames \in Nat
      /\ MaxFrames + 2 <= SynthBase
  BY FramesAssumption DEF FramesTypeOK
<1>5. Streaming /\ ~Streaming'
  BY <1>1 DEF Streaming
<1>6. count <= produced
  BY <1>5 DEF LogInv, NumbersRunOn
<1>7. count' <= produced + 2
  BY <1>2, <1>3, <1>4, <1>6
<1>8. \A l \in 1 .. n : l \in 1 .. 2 /\ count + l <= SynthBase
  BY <1>2, <1>4, <1>6
<1>9. ASSUME NEW i \in 1 .. Len(M), NEW j \in 1 .. Len(M), i # j
      PROVE  M[i].frame # M[j].frame /\ M[i].seq # M[j].seq
  <2>1. CASE i \in 1 .. missing /\ M[i].seq = SynthBase + i
             /\ M[i].frame = [kind |-> "synth", n |-> i]
    <3>1. CASE j \in 1 .. missing /\ M[j].seq = SynthBase + j
               /\ M[j].frame = [kind |-> "synth", n |-> j]
      BY <2>1, <3>1, <1>4, <1>9
    <3>2. CASE \E l \in 1 .. n :
                 /\ j = missing + l /\ M[j].seq = count + l
                 /\ M[j].frame = [kind |-> "tail", n |-> l]
      BY <2>1, <3>2, <1>4, <1>8
    <3> QED BY <3>1, <3>2, <1>2
  <2>2. CASE \E l \in 1 .. n :
               /\ i = missing + l /\ M[i].seq = count + l
               /\ M[i].frame = [kind |-> "tail", n |-> l]
    <3>0. PICK l \in 1 .. n :
            /\ i = missing + l /\ M[i].seq = count + l
            /\ M[i].frame = [kind |-> "tail", n |-> l]
      BY <2>2
    <3>1. CASE j \in 1 .. missing /\ M[j].seq = SynthBase + j
               /\ M[j].frame = [kind |-> "synth", n |-> j]
      BY <3>0, <3>1, <1>4, <1>8
    <3>2. CASE \E m \in 1 .. n :
                 /\ j = missing + m /\ M[j].seq = count + m
                 /\ M[j].frame = [kind |-> "tail", n |-> m]
      <4>1. PICK m \in 1 .. n :
              /\ j = missing + m /\ M[j].seq = count + m
              /\ M[j].frame = [kind |-> "tail", n |-> m]
        BY <3>2
      <4>2. l # m /\ l \in Nat /\ m \in Nat
        BY <3>0, <4>1, <1>8, <1>9
      <4> QED BY <3>0, <4>1, <4>2, <1>4
    <3> QED BY <3>1, <3>2, <1>2
  <2> QED BY <2>1, <2>2, <1>2
<1>10. FramesDiffer(M) /\ NumbersDiffer(M)
  BY <1>9 DEF FramesDiffer, NumbersDiffer
<1>11. ASSUME NEW k \in 1 .. Len(M)
       PROVE  M[k].frame.kind \in {"synth", "tail"} /\ count < M[k].seq
  <2>1. CASE k \in 1 .. missing /\ M[k].seq = SynthBase + k
             /\ M[k].frame = [kind |-> "synth", n |-> k]
    BY <2>1, <1>4, <1>6
  <2>2. CASE \E l \in 1 .. n :
               /\ k = missing + l /\ M[k].seq = count + l
               /\ M[k].frame = [kind |-> "tail", n |-> l]
    BY <2>2, <1>4, <1>8
  <2> QED BY <2>1, <2>2, <1>2
<1>12. M \in Seq(Entry) /\ shut' = shut /\ produced' = produced
  BY <1>1, <1>2
<1> QED BY <1>3, <1>5, <1>7, <1>10, <1>11, <1>12, LastLinesKeepLog

(* An end numbers its frames by the lines before them, all of them frames   *)
(* of the stream.                                                           *)
LEMMA CloseKeepsLog ==
  ASSUME FramesTypeOK, RunIsHeld, LogInv, LogCloses
  PROVE  LogInv'
<1>1. PICK M \in Seq(Entry), partial \in BOOLEAN :
        /\ log' = log \o M /\ AreFinals(M, partial)
        /\ \/ shut' = TRUE /\ bridge' = bridge /\ ~partial
           \/ shut' = shut /\ bridge' = "lost"
  BY DEF LogCloses
<1>2. /\ log \in Seq(Entry) /\ Len(log) \in Nat
      /\ count \in Nat /\ produced \in Nat
  BY DEF FramesTypeOK
<1>3. Streaming /\ ~shut /\ count' = count /\ produced' = produced
  BY DEF LogCloses, RunIsHeld, Streaming
<1>4. /\ NumbersDiffer(log) /\ Len(log) = count
      /\ \A i \in 1 .. Len(log) :
           log[i].seq = i /\ log[i].frame.kind = "stream"
  BY <1>3, StreamedLog DEF LogInv, NumbersRunOn
<1>5. /\ 1 .. Len(M) = {1, 2}
      /\ M[2].seq = Len(log) + 2 /\ M[2].frame = TurnDoneFrame
      /\ \/ M[1].seq = 0 /\ M[1].frame = [kind |-> "final", n |-> 0]
         \/ /\ M[1].seq = Len(log) + 1
            /\ M[1].frame = [kind |-> "final", n |-> 1]
  BY <1>1 DEF AreFinals, Junk
<1>6. FramesDiffer(M) /\ \A k \in 1 .. Len(M) : M[k].frame.kind = "final"
  BY <1>5 DEF FramesDiffer, TurnDoneFrame
<1>7. NumbersDiffer(M)
  BY <1>2, <1>5, SMTT(30) DEF NumbersDiffer
<1>8. /\ \A i \in 1 .. Len(log) : log'[i] = log[i]
      /\ \A k \in 1 .. Len(M) : log'[Len(log) + k] = M[k]
      /\ \A i \in 1 .. Len(log') :
           i \in 1 .. Len(log) \/ \E k \in 1 .. Len(M) : i = Len(log) + k
  BY <1>1, <1>2, Grown
<1>9. FramesDiffer(log')
  <2>1. \A i \in 1 .. Len(log) : \A k \in 1 .. Len(M) :
          log[i].frame # M[k].frame
    BY <1>4, <1>6
  <2>2. FramesDiffer(log)
    BY DEF LogInv, FramesAreOnce
  <2> QED BY <2>1, <2>2, <1>1, <1>2, <1>6, DifferGrows
<1>10. NumbersDiffer(log')
  <2>1. \A i \in 1 .. Len(log) : \A k \in 1 .. Len(M) :
          log[i].seq # M[k].seq
    BY <1>2, <1>4, <1>5
  <2> QED BY <2>1, <1>1, <1>2, <1>4, <1>7, NumbersGrow
<1>11. FramesAreOnce'
  <2>1. ASSUME NEW i \in 1 .. Len(log')
        PROVE  LET f == log'[i].frame
               IN /\ f.kind = "stream" => f.n <= produced
                  /\ f.kind \notin {"synth", "tail"}
                  /\ f.kind = "final" => shut' \/ bridge' = "lost"
    <3>1. CASE i \in 1 .. Len(log)
      <4>1. log'[i] = log[i] /\ log[i].frame.kind = "stream"
        BY <3>1, <1>4, <1>8
      <4>2. log[i].frame.n <= produced
        BY <3>1, <4>1 DEF LogInv, FramesAreOnce
      <4> QED BY <4>1, <4>2
    <3>2. CASE i \notin 1 .. Len(log)
      <4>1. PICK k \in 1 .. Len(M) : i = Len(log) + k
        BY <3>2, <1>8
      <4>2. log'[i].frame.kind = "final"
        BY <4>1, <1>6, <1>8
      <4> QED BY <4>2, <1>1
    <3> QED BY <3>1, <3>2
  <2> QED BY <2>1, <1>3, <1>9 DEF FramesAreOnce
<1>12. NumbersRunOn'
  <2>1. ~Streaming' \/ shut'
    BY <1>1 DEF Streaming
  <2>2. count <= produced
    BY <1>3 DEF LogInv, NumbersRunOn
  <2> QED BY <1>2, <1>3, <2>1, <2>2 DEF NumbersRunOn
<1>13. SeqNamesOneFrame'
  BY <1>10 DEF SeqNamesOneFrame, NumbersDiffer
<1> QED BY <1>11, <1>12, <1>13 DEF LogInv

LEMMA LogHolds ==
  ASSUME FramesTypeOK, RunIsHeld, LogInv, [FramesNext]_framesVars
  PROVE  LogInv'
<1>1. CASE LogRests
  <2>1. /\ produced \in Nat /\ count \in Nat /\ produced <= produced'
        /\ \A i \in 1 .. Len(log) : log[i].frame.n \in Nat
    BY <1>1, LinesAreEntries DEF LogRests, FramesTypeOK, Frame
  <2>2. NumbersRunOn' /\ SeqNamesOneFrame'
    BY <1>1, <2>1
    DEF LogInv, LogRests, NumbersRunOn, SeqNamesOneFrame, FramesTypeOK
  <2>3. FramesAreOnce'
    <3>1. ASSUME NEW i \in 1 .. Len(log)
          PROVE  LET f == log[i].frame
                 IN /\ f.kind = "stream" => f.n <= produced'
                    /\ f.kind \in {"synth", "tail"} => ~Streaming'
                    /\ f.kind = "final" => shut' \/ bridge' = "lost"
      <4>1. LET f == log[i].frame
            IN /\ f.kind = "stream" => f.n <= produced
               /\ f.kind \in {"synth", "tail"} => ~Streaming
               /\ f.kind = "final" => shut \/ bridge = "lost"
        BY DEF LogInv, FramesAreOnce
      <4>2. log[i].frame.n <= produced => log[i].frame.n <= produced'
        BY <1>1, <2>1 DEF LogRests, FramesTypeOK
      <4> QED BY <1>1, <4>1, <4>2 DEF LogRests
    <3> QED BY <1>1, <3>1 DEF LogInv, LogRests, FramesAreOnce
  <2> QED BY <2>2, <2>3 DEF LogInv
<1> QED
  BY <1>1, LogSteps, StreamKeepsLog, EndKeepsLog, PostKeepsLog,
     CloseKeepsLog

-----------------------------------------------------------------------------
(* The followers, step by step *)

(* A new peak rises among the new lines, and is sent to who listens.        *)
LEMMA NewPeakIsSent ==
  ASSUME NEW L \in Seq(Entry), NEW N \in Seq(Entry), NEW open,
         NEW q \in Nat, Within(L, q), NEW r, IsSent(N, q, r),
         NEW p \in Peaks(L \o N, open), p \notin 1 .. Len(L)
  PROVE  (L \o N)[p] \in Lines(r.sent)
<1> DEFINE LN == L \o N
<1>1. /\ \A k \in 1 .. Len(N) : LN[Len(L) + k] = N[k]
      /\ \A i \in 1 .. Len(LN) :
           i \in 1 .. Len(L) \/ \E k \in 1 .. Len(N) : i = Len(L) + k
  <2>1. L \in Seq(Entry) /\ N \in Seq(Entry)
    OBVIOUS
  <2>2. \A k \in 1 .. Len(N) : LN[Len(L) + k] = N[k]
    BY <2>1, Grown
  <2>3. \A i \in 1 .. Len(LN) :
          i \in 1 .. Len(L) \/ \E k \in 1 .. Len(N) : i = Len(L) + k
    BY <2>1, Grown
  <2> QED BY <2>2, <2>3
<1>2. /\ p \in 1 .. Len(LN) /\ 0 < LN[p].seq
      /\ \A j \in 1 .. (p - 1) : LN[j].seq < LN[p].seq
  BY DEF Peaks, Rises
<1>3. \A i \in 1 .. Len(L) : L[i].seq < LN[p].seq
  BY PeaksGrow
<1> HIDE DEF LN
<1>4. PICK k \in 1 .. Len(N) : p = Len(L) + k
  BY <1>1, <1>2
<1>5. LN[p] = N[k] /\ N[k].seq \in Nat
  BY <1>1, <1>4, LinesAreEntries
<1>6. ~(N[k].seq <= q)
  BY <1>2, <1>3, <1>5, AboveWithin
<1>7. q < N[k].seq
  BY <1>5, <1>6
<1>8. ASSUME NEW j \in 1 .. (k - 1) PROVE N[j].seq < N[k].seq
  <2>1. Len(L) \in Nat /\ Len(N) \in Nat
    OBVIOUS
  <2>2. j \in 1 .. Len(N) /\ Len(L) + j \in 1 .. (p - 1)
    BY <2>1, <1>4
  <2>3. LN[Len(L) + j] = N[j]
    BY <2>2, <1>1
  <2>4. LN[Len(L) + j].seq < LN[p].seq
    BY <2>2, <1>2
  <2> QED BY <2>3, <2>4, <1>5
<1>9. k \in Rises(N, q)
  BY <1>7, <1>8 DEF Rises
<1> QED BY <1>5, <1>9 DEF IsSent, LN

LEMMA FanFollows ==
  ASSUME FramesTypeOK, RunIsHeld, LogInv, ReadersFollow, ListenersHear,
         Streaming, NEW frames \in Seq(Frame), FannedOut(frames),
         NEW M \in Seq(Entry), log' = log \o M,
         Lines(Counted(frames)) \subseteq Lines(M),
         shut' = shut, client' = client, NEW s \in Sub,
         Listening(s) =>
           \A p \in Peaks(log \o M, ~shut) : p \notin 1 .. Len(log) =>
             \/ Sent(s, Counted(frames)).last < (log \o M)[p].seq
             \/ (log \o M)[p] \in Lines(Sent(s, Counted(frames)).sent)
  PROVE  Follows(log', ~shut', client'[s], unread'[s], sub'[s])
<1> DEFINE N == Counted(frames)
           r == Sent(s, N)
           LM == log \o M
<1>1. /\ log \in Seq(Entry) /\ N \in Seq(Entry) /\ LM \in Seq(Entry)
      /\ sub[s] \in Subs /\ unread[s] \in Seq(Entry) /\ client[s] \in Clients
      /\ (~shut) \in BOOLEAN
  BY CountedLines, SMTT(30) DEF FramesTypeOK, Subs, Clients
<1>2. sub' \in [Sub -> Subs] /\ sub'[s] \in Subs
  BY FannedTypes
<1>3. /\ sub'[s].phase = sub[s].phase
      /\ Listening(s) => /\ sub'[s].last = r.last
                         /\ unread'[s] = unread[s] \o r.sent
      /\ ~Listening(s) => sub'[s] = sub[s] /\ unread'[s] = unread[s]
  BY FannedOne
<1>4. Follows(log, ~shut, client[s], unread[s], sub[s])
  BY DEF ReadersFollow
<1>5. Follows(LM, ~shut, client[s], unread[s], sub[s])
  BY <1>1, <1>4, QuietFollows
<1>6. CASE ~Listening(s)
  BY <1>3, <1>5, <1>6
<1>7. CASE Listening(s)
  <2>1. sub[s].phase \notin {"off", "told"}
    BY <1>7 DEF Listening
  <2>2. sub[s].last \in Nat
    BY <1>1 DEF Subs
  <2>3. IsSent(N, sub[s].last, r)
    BY <2>2, <1>1, RisingSends DEF Sent
  <2>4. Lines(N) \subseteq Lines(LM)
    BY <1>1, LinesGrow
  <2>5. ASSUME NEW p \in Peaks(LM, ~shut), p \in 1 .. Len(log)
        PROVE  LM[p].seq <= sub[s].last
    <3>1. p \in Peaks(log, ~shut) /\ LM[p] = log[p]
      <4>1. p \in Peaks(log, ~shut)
        BY <2>5, <1>1, PeaksGrow
      <4>2. LM[p] = log[p]
        BY <2>5, <1>1, Grown
      <4> QED BY <4>1, <4>2
    <3>2. log[p].frame.kind = "stream"
      BY <2>5, <3>1, StreamedLog DEF Peaks, LogInv
    <3> QED BY <2>5, <3>1, <3>2, <1>7 DEF ListenersHear
  <2>6. \A p \in Peaks(LM, ~shut) :
          \/ LM[p].seq <= sub[s].last \/ r.last < LM[p].seq
          \/ LM[p] \in Lines(r.sent)
    BY <2>5, <1>7
  <2> HIDE DEF N, r, LM
  <2>7. Follows(LM, ~shut, client[s], unread[s] \o r.sent, sub'[s])
    BY <1>1, <1>2, <1>3, <1>5, <1>7, <2>1, <2>3, <2>4, <2>6, PassedFollows
  <2> QED BY <2>7, <1>3, <1>7 DEF LM
<1> QED BY <1>6, <1>7

ReadersInv ==
  /\ FramesTypeOK /\ RunIsHeld /\ LogInv /\ ReadersFollow /\ ListenersHear

(* What is known of subscriber s.                                           *)
LEMMA OneReader ==
  ASSUME ReadersInv, NEW s \in Sub
  PROVE  /\ log \in Seq(Entry) /\ (~shut) \in BOOLEAN
         /\ sub \in [Sub -> Subs] /\ sub[s] \in Subs
         /\ unread \in [Sub -> Seq(Entry)] /\ unread[s] \in Seq(Entry)
         /\ client \in [Sub -> Clients] /\ client[s] \in Clients
         /\ FramesDiffer(log)
         /\ Follows(log, ~shut, client[s], unread[s], sub[s])
BY DEF ReadersInv, FramesTypeOK, Subs, Clients, ReadersFollow, LogInv,
       FramesAreOnce

LEMMA AppendFollows ==
  ASSUME ReadersInv, Streaming, NEW frames \in Seq(Frame), Appended(frames),
         shut' = shut, client' = client
  PROVE  ReadersFollow'
<1> SUFFICES ASSUME NEW s \in Sub
             PROVE  Follows(log', ~shut', client'[s], unread'[s], sub'[s])
  BY DEF ReadersFollow
<1>1. /\ log \in Seq(Entry) /\ sub[s] \in Subs
      /\ Follows(log, ~shut, client[s], unread[s], sub[s])
  BY OneReader
<1>2. CASE mem = "gone"
  <2>1. UNCHANGED <<log, sub, unread>>
    BY <1>2 DEF Appended
  <2> QED BY <1>1, <2>1
<1>3. CASE mem # "gone"
  <2> DEFINE N == Counted(frames)
  <2>1. log' = log \o N /\ FannedOut(frames)
    BY <1>3 DEF Appended
  <2>2. N \in Seq(Entry) /\ Lines(N) \subseteq Lines(N)
    BY CountedLines DEF ReadersInv
  <2>3. ASSUME Listening(s), NEW p \in Peaks(log \o N, ~shut),
               p \notin 1 .. Len(log)
        PROVE  (log \o N)[p] \in Lines(Sent(s, N).sent)
    <3>1. sub[s].last \in Nat /\ Within(log, sub[s].last)
      BY <2>3, <1>1 DEF Subs, Listening, Follows
    <3>2. IsSent(N, sub[s].last, Sent(s, N))
      BY <3>1, <2>2, RisingSends DEF Sent
    <3> HIDE DEF N
    <3> QED BY <3>1, <3>2, <2>2, <2>3, <1>1, NewPeakIsSent
  <2> QED BY <2>1, <2>2, <2>3, FanFollows DEF ReadersInv
<1> QED BY <1>2, <1>3

(* Synthesized returns are not sent to who listens, and end up beyond what  *)
(* its subscription has passed on.                                          *)
LEMMA PostFollows ==
  ASSUME ReadersInv, bridge = "posting", NEW tail \in Tails,
         log' = log \o (Synthesized \o Counted(tail)), FannedOut(tail),
         shut' = shut, client' = client
  PROVE  ReadersFollow'
<1> SUFFICES ASSUME NEW s \in Sub
             PROVE  Follows(log', ~shut', client'[s], unread'[s], sub'[s])
  BY DEF ReadersFollow
<1> DEFINE N == Counted(tail)
           M == Synthesized \o N
           LM == log \o M
           n == Len(tail)
           r == Sent(s, N)
<1>1. /\ log \in Seq(Entry) /\ sub[s] \in Subs
      /\ Follows(log, ~shut, client[s], unread[s], sub[s])
  BY OneReader
<1>2. FramesTypeOK /\ RunIsHeld /\ LogInv /\ Streaming
  BY DEF ReadersInv, Streaming
<1>3. /\ M \in Seq(Entry) /\ N \in Seq(Entry) /\ n \in 0 .. 2
      /\ \A k \in 1 .. Len(M) :
           \/ /\ k \in 1 .. missing /\ M[k].seq = SynthBase + k
              /\ M[k].frame = [kind |-> "synth", n |-> k]
           \/ \E l \in 1 .. n :
                /\ k = missing + l /\ M[k].seq = count + l
                /\ M[k].frame = [kind |-> "tail", n |-> l]
      /\ missing # 0 => 1 \in 1 .. Len(M) /\ M[1].seq = SynthBase + 1
  BY <1>2, PostedLines
<1>4. tail \in Seq(Frame)
  BY TailFrames
<1>5. Len(N) = n /\ \A k \in 1 .. n : N[k].seq = count + k
  BY <1>2, TailKinds
<1>6. Lines(N) \subseteq Lines(M)
  <2>1. Synthesized \in Seq(Entry)
    BY <1>2, SynthesizedLines
  <2> HIDE DEF N
  <2> QED BY <2>1, <1>3, LinesGrow
<1>7. /\ count \in Nat /\ missing \in Nat /\ missing # 0 /\ SynthBase \in Nat
      /\ count <= MaxFrames /\ MaxFrames \in Nat /\ MaxFrames + 2 <= SynthBase
  <2>1. count <= produced /\ missing # 0
    BY <1>2 DEF LogInv, NumbersRunOn, RunIsHeld
  <2> QED BY <1>2, <2>1, FramesAssumption DEF FramesTypeOK
<1>8. log' = LM /\ FannedOut(tail)
  OBVIOUS
<1> HIDE DEF N, n
<1>9. \A k \in 1 .. n : N[k].seq <= SynthBase
  BY <1>3, <1>5, <1>7
<1>10. ASSUME Listening(s), NEW p \in Peaks(LM, ~shut), p \notin 1 .. Len(log)
       PROVE  r.last < LM[p].seq
  <2>1. /\ p \in 1 .. Len(LM)
        /\ \A j \in 1 .. (p - 1) : LM[j].seq < LM[p].seq
        /\ ~shut \/ LM[p].frame.kind = "stream"
    BY <1>10 DEF Peaks, Rises
  <2> HIDE DEF M
  <2>2. PICK k \in 1 .. Len(M) : p = Len(log) + k
    <3>1. \A i \in 1 .. Len(LM) :
            i \in 1 .. Len(log) \/ \E k \in 1 .. Len(M) : i = Len(log) + k
      BY <1>1, <1>3, Grown
    <3> QED BY <3>1, <2>1, <1>10
  <2>3. \A i \in 1 .. Len(M) : LM[Len(log) + i] = M[i]
    <3>1. log \in Seq(Entry) /\ M \in Seq(Entry)
      BY <1>1, <1>3
    <3> QED BY <3>1, Grown
  <2>4. LM[p] = M[k] /\ Len(log) \in Nat
    BY <2>2, <2>3, <1>1
  <2>5. ASSUME NEW l \in 1 .. n, k = missing + l, M[k].seq = count + l
        PROVE  FALSE
    <3>1. Len(log) + 1 \in 1 .. (p - 1)
      BY <2>2, <2>4, <2>5, <1>3, <1>7
    <3>2. LM[Len(log) + 1] = M[1]
      BY <2>3, <1>3, <1>7
    <3>3. SynthBase + 1 < count + l
      BY <3>1, <3>2, <2>1, <2>4, <2>5, <1>3, <1>7
    <3> QED BY <3>3, <1>3, <1>7
  <2>6. /\ k \in 1 .. missing /\ M[k].seq = SynthBase + k
        /\ M[k].frame.kind = "synth"
    <3>1. \/ /\ k \in 1 .. missing /\ M[k].seq = SynthBase + k
             /\ M[k].frame = [kind |-> "synth", n |-> k]
          \/ \E l \in 1 .. n : k = missing + l /\ M[k].seq = count + l
      BY <1>3
    <3>2. CASE \E l \in 1 .. n : k = missing + l /\ M[k].seq = count + l
      BY <3>2, <2>5
    <3> QED BY <3>1, <3>2
  <2>7. ~shut
    BY <2>1, <2>4, <2>6
  <2>8. sub[s].last \in Nat /\ Within(log, sub[s].last)
    BY <1>10, <1>1 DEF Subs, Listening, Follows
  <2>9. sub[s].last <= count
    <3>1. \A i \in 1 .. Len(log) : log[i].seq \in Nat /\ log[i].seq <= count
      BY <2>7, <1>1, <1>2, StreamedLog, LinesAreEntries DEF LogInv
    <3> QED BY <3>1, <2>8, <1>7 DEF Within
  <2>10. IsSent(N, sub[s].last, r)
    BY <2>8, <1>3, RisingSends DEF Sent
  <2>11. r.last \in Nat /\ r.last <= SynthBase
    <3>1. /\ r.last \in Nat
          /\ r.last = sub[s].last \/ \E i \in 1 .. Len(N) : N[i].seq = r.last
      BY <2>10 DEF IsSent
    <3>2. CASE r.last = sub[s].last
      BY <3>1, <3>2, <2>9, <1>7
    <3>3. CASE \E i \in 1 .. Len(N) : N[i].seq = r.last
      BY <3>1, <3>3, <1>5, <1>9
    <3> QED BY <3>1, <3>2, <3>3
  <2> QED BY <2>4, <2>6, <2>11, <1>7
<1> QED BY <1>2, <1>3, <1>4, <1>6, <1>8, <1>10, FanFollows DEF ReadersInv, N

(* A subscription changes its phase, neither starting nor told.             *)
LEMMA SamePlace ==
  ASSUME NEW L, NEW open, NEW c, NEW u, NEW b, NEW b2,
         Follows(L, open, c, u, b), b2.last = b.last,
         b2.phase = b.phase \/ {b.phase, b2.phase} \cap {"off", "told"} = {}
  PROVE  Follows(L, open, c, u, b2)
<1>1. /\ b2.phase \in {"off", "told"} <=> b.phase \in {"off", "told"}
      /\ b2.phase # "off" <=> b.phase # "off"
  OBVIOUS
<1> QED BY <1>1 DEF Follows

(* One starts from the client's cursor.                                     *)
LEMMA StartFollows ==
  ASSUME NEW L \in Seq(Entry), NEW open, NEW c \in Clients, NEW u,
         NEW b, NEW b2, b.phase = "off", Follows(L, open, c, u, b),
         b2.last = c.cursor
  PROVE  u = <<>> /\ Follows(L, open, c, u, b2)
<1>1. c.cursor \in Nat
  BY DEF Clients
<1>2. u = <<>> /\ Len(u) = 0
  BY DEF Follows
<1>3. Within(L, c.cursor)
  BY DEF Follows
<1>4. \A i \in 1 .. Len(u) : FALSE
  BY <1>2
<1>5. /\ \A i, j \in 1 .. Len(c.has) : i # j => c.has[i] # c.has[j]
      /\ \A i \in 1 .. Len(c.has) : \E j \in 1 .. Len(L) :
           L[j].frame = c.has[i] /\ L[j].seq <= c.cursor
      /\ \A p \in Peaks(L, open) :
           L[p].seq <= c.cursor => L[p].frame \in Members(c.has)
  BY DEF Follows
<1> HIDE DEF Follows
<1>6. Follows(L, open, c, u, b2)
  BY <1>1, <1>2, <1>3, <1>4, <1>5 DEF Follows
<1> QED BY <1>2, <1>6

(* Nobody reads or is sent anything, whatever the log grows by.             *)
LEMMA QuietStep ==
  ASSUME ReadersInv, UNCHANGED <<unread, client>>,
         sub' = sub \/ sub' = Notified(sub),
         NEW M \in Seq(Entry), log' = log \/ log' = log \o M, shut => shut',
         shut' \in BOOLEAN
  PROVE  ReadersFollow'
<1> SUFFICES ASSUME NEW s \in Sub
             PROVE  Follows(log', ~shut', client'[s], unread'[s], sub'[s])
  BY DEF ReadersFollow
<1>1. /\ log \in Seq(Entry) /\ (~shut) \in BOOLEAN /\ sub[s] \in Subs
      /\ unread[s] \in Seq(Entry) /\ client[s] \in Clients
      /\ Follows(log, ~shut, client[s], unread[s], sub[s])
  BY OneReader
<1>2. PICK N \in Seq(Entry) : log' = log \o N
  <2>1. <<>> \in Seq(Entry) /\ log \o <<>> = log
    BY <1>1, ConcatEmptySeq
  <2> QED BY <2>1
<1>3. Follows(log', ~shut', client[s], unread[s], sub[s])
  <2>1. (~shut') \in BOOLEAN /\ (~shut' => ~shut)
    OBVIOUS
  <2> QED BY <1>1, <1>2, <2>1, QuietFollows
<1>4. FramesTypeOK
  BY DEF ReadersInv
<1>5. /\ sub'[s].last = sub[s].last
      /\ \/ sub'[s].phase = sub[s].phase
         \/ {sub[s].phase, sub'[s].phase} \cap {"off", "told"} = {}
  <2>1. CASE sub' = sub
    BY <2>1
  <2>2. CASE sub' = Notified(sub)
    BY <2>2, <1>4, EndedOne
  <2> QED BY <2>1, <2>2
<1> QED BY <1>3, <1>5, SamePlace

(* A reading of the file: the replay of a new subscription or the last one. *)
LEMMA CatchUpFollows ==
  ASSUME ReadersInv, UNCHANGED <<log, shut, client>>, NEW s \in Sub,
         NEW b \in Subs, Follows(log, ~shut, client[s], unread[s], b),
         b.phase \notin {"off", "told"}, NEW b2 \in Subs,
         b2.phase \notin {"off", "told"}, b2.last = CatchUp(b.last).last,
         sub' = [sub EXCEPT ![s] = b2],
         unread' = [unread EXCEPT ![s] = unread[s] \o CatchUp(b.last).sent]
  PROVE  /\ ReadersFollow'
         /\ \A p \in Peaks(log, ~shut) :
              log[p].frame \in Members(client[s].has) \cup FramesOf(unread'[s])
         /\ \A i \in 1 .. Len(log) : log[i].seq <= sub'[s].last
<1> DEFINE r == CatchUp(b.last)
<1>1. /\ log \in Seq(Entry) /\ (~shut) \in BOOLEAN
      /\ unread[s] \in Seq(Entry) /\ client[s] \in Clients
      /\ sub \in [Sub -> Subs] /\ unread \in [Sub -> Seq(Entry)]
  BY OneReader
<1>2. r = Rising(log, b.last)
  BY DEF CatchUp
<1> HIDE DEF r
<1>3. /\ Follows(log, ~shut, client[s], unread[s] \o r.sent, b2)
      /\ r.sent \in Seq(Entry)
      /\ \A p \in Peaks(log, ~shut) :
           log[p].frame \in
             Members(client[s].has) \cup FramesOf(unread[s] \o r.sent)
      /\ \A i \in 1 .. Len(log) : log[i].seq <= b2.last
  BY <1>1, <1>2, CaughtUpFollows DEF r
<1>4. sub'[s] = b2 /\ unread'[s] = unread[s] \o r.sent
  BY <1>1 DEF r
<1>5. ASSUME NEW t \in Sub
      PROVE  Follows(log', ~shut', client'[t], unread'[t], sub'[t])
  <2>1. CASE t = s
    BY <2>1, <1>3, <1>4
  <2>2. CASE t # s
    <3>1. sub'[t] = sub[t] /\ unread'[t] = unread[t]
      BY <2>2, <1>1
    <3> QED BY <3>1, OneReader
  <2> QED BY <2>1, <2>2
<1> QED BY <1>3, <1>4, <1>5 DEF ReadersFollow

(* Every peak of the log is with client s or on its way, and none of the    *)
(* log's numbers is beyond its subscription, after the step.                *)
IsCurrent(s) ==
  /\ \A p \in Peaks(log, ~shut) :
       log[p].frame \in Members(client[s].has) \cup FramesOf(unread'[s])
  /\ \A i \in 1 .. Len(log) : log[i].seq <= sub'[s].last

LEMMA SubscribeFollows ==
  ASSUME ReadersInv, NEW s \in Sub, Subscribe(s)
  PROVE  /\ ReadersFollow' /\ UNCHANGED <<log, shut, client>>
         /\ sub' = [sub EXCEPT ![s] = sub'[s]]
         /\ unread' = [unread EXCEPT ![s] = unread'[s]]
         /\ sub[s].phase = "off"
         /\ \/ sub'[s].phase = "done" /\ sub'[s].mark
            \/ /\ sub'[s].phase \in {"done", "live", "watching"}
               /\ ~sub'[s].mark /\ IsCurrent(s)
<1> DEFINE q == client[s].cursor
           phase == IF status \in Terminal THEN "done"
                    ELSE IF mem # "gone" THEN "live" ELSE "watching"
           b == [phase |-> "live", last |-> q, mark |-> FALSE]
           b1 == [phase |-> "done", last |-> q, mark |-> TRUE]
           b2 == [phase |-> phase, last |-> CatchUp(q).last, mark |-> FALSE]
<1>1. /\ log \in Seq(Entry) /\ (~shut) \in BOOLEAN
      /\ unread[s] \in Seq(Entry) /\ client[s] \in Clients /\ q \in Nat
      /\ sub \in [Sub -> Subs] /\ unread \in [Sub -> Seq(Entry)]
      /\ Follows(log, ~shut, client[s], unread[s], sub[s])
  BY OneReader DEF Clients
<1>2. sub[s].phase = "off" /\ UNCHANGED <<log, shut, client>>
  BY DEF Subscribe, recordVars
<1>3. /\ b.phase = "live" /\ b.last = q /\ b \in Subs
      /\ b1.phase = "done" /\ b1.last = q /\ b1.mark /\ b1 \in Subs
  BY <1>1 DEF Subs, Phases
<1>4. /\ b2.phase \in {"done", "live", "watching"} /\ ~b2.mark
      /\ b2.last = CatchUp(q).last /\ b2 \in Subs
  <2>1. IsSent(log, q, CatchUp(q))
    BY <1>1, RisingSends DEF CatchUp
  <2>2. CatchUp(q).last \in Nat
    BY <2>1 DEF IsSent
  <2>3. phase \in {"done", "live", "watching"}
    OBVIOUS
  <2> HIDE DEF phase
  <2> QED BY <2>2, <2>3 DEF Subs, Phases
<1>5. CASE status \in Terminal /\ stopped
  <2>1. sub' = [sub EXCEPT ![s] = b1] /\ unread' = unread
    BY <1>5 DEF Subscribe
  <2> HIDE DEF b1
  <2>2. sub'[s] = b1 /\ \A t \in Sub : t # s => sub'[t] = sub[t]
    BY <2>1, <1>1
  <2>3. Follows(log, ~shut, client[s], unread[s], b1)
    BY <1>1, <1>2, <1>3, StartFollows
  <2>4. \A t \in Sub : Follows(log, ~shut, client[t], unread[t], sub[t])
    BY DEF ReadersInv, ReadersFollow
  <2>5. ASSUME NEW t \in Sub
        PROVE  Follows(log', ~shut', client'[t], unread'[t], sub'[t])
    <3>1. CASE t = s
      BY <3>1, <1>2, <2>1, <2>2, <2>3
    <3>2. CASE t # s
      BY <3>2, <1>2, <2>1, <2>2, <2>4
    <3> QED BY <3>1, <3>2
  <2>6. /\ sub' = [sub EXCEPT ![s] = sub'[s]]
        /\ unread' = [unread EXCEPT ![s] = unread'[s]]
    BY <2>1, <2>2, <1>1
  <2> QED BY <1>2, <1>3, <2>2, <2>5, <2>6 DEF ReadersFollow
<1>6. CASE ~(status \in Terminal /\ stopped)
  <2>1. /\ sub' = [sub EXCEPT ![s] = b2]
        /\ unread' = [unread EXCEPT ![s] = CatchUp(q).sent]
    BY <1>6 DEF Subscribe
  <2> HIDE DEF b2
  <2>2. sub'[s] = b2
    BY <2>1, <1>1
  <2>3. unread[s] = <<>> /\ Follows(log, ~shut, client[s], unread[s], b)
    <3> HIDE DEF b
    <3> QED BY <1>1, <1>2, <1>3, StartFollows
  <2>4. unread[s] \o CatchUp(q).sent = CatchUp(q).sent
    <3>1. IsSent(log, q, CatchUp(q))
      BY <1>1, RisingSends DEF CatchUp
    <3> QED BY <3>1, <2>3, ConcatEmptySeq DEF IsSent
  <2> HIDE DEF b, q
  <2>5. ReadersFollow' /\ IsCurrent(s)
    BY <1>2, <1>3, <1>4, <2>1, <2>3, <2>4, CatchUpFollows DEF IsCurrent
  <2>6. /\ sub' = [sub EXCEPT ![s] = sub'[s]]
        /\ unread' = [unread EXCEPT ![s] = unread'[s]]
    BY <2>1, <1>1
  <2> QED BY <1>2, <1>4, <2>2, <2>5, <2>6
<1> QED BY <1>5, <1>6

LEMMA DrainFollows ==
  ASSUME ReadersInv, NEW s \in Sub, DrainExpires(s)
  PROVE  /\ ReadersFollow' /\ IsCurrent(s) /\ UNCHANGED <<log, shut, client>>
         /\ sub' = [sub EXCEPT ![s] = sub'[s]]
         /\ unread' = [unread EXCEPT ![s] = unread'[s]]
         /\ sub'[s].phase = "done" /\ sub'[s].mark = sub[s].mark
<1> DEFINE b == sub[s]
           b2 == [b EXCEPT !.phase = "done", !.last = CatchUp(b.last).last]
<1>1. /\ log \in Seq(Entry) /\ b \in Subs
      /\ unread \in [Sub -> Seq(Entry)] /\ sub \in [Sub -> Subs]
      /\ Follows(log, ~shut, client[s], unread[s], b)
  BY OneReader
<1>2. /\ b.phase = "draining" /\ UNCHANGED <<log, shut, client>>
      /\ sub' = [sub EXCEPT ![s].phase = "done",
                            ![s].last = CatchUp(b.last).last]
      /\ unread' = [unread EXCEPT ![s] = unread[s] \o CatchUp(b.last).sent]
  BY <1>1 DEF DrainExpires, recordVars
<1>3. CatchUp(b.last).last \in Nat
  <2>1. IsSent(log, b.last, CatchUp(b.last))
    BY <1>1, RisingSends DEF CatchUp, Subs
  <2> QED BY <2>1 DEF IsSent
<1>4. sub' = [sub EXCEPT ![s] = b2]
  BY <1>2, <1>1
<1>5. /\ b2.phase = "done" /\ b2.mark = b.mark
      /\ b2.last = CatchUp(b.last).last /\ b2 \in Subs
  BY <1>1, <1>3 DEF Subs, Phases
<1> HIDE DEF b2
<1>6. ReadersFollow' /\ IsCurrent(s)
  BY <1>1, <1>2, <1>4, <1>5, CatchUpFollows DEF IsCurrent
<1>7. /\ sub'[s] = b2
      /\ sub' = [sub EXCEPT ![s] = sub'[s]]
      /\ unread' = [unread EXCEPT ![s] = unread'[s]]
  BY <1>1, <1>2, <1>4
<1> QED BY <1>2, <1>5, <1>6, <1>7

(* The client reads k entries and follows the log from there.               *)
LEMMA ReadStep ==
  ASSUME ReadersInv, UNCHANGED <<log, shut>>, NEW s \in Sub,
         NEW k \in 0 .. Len(unread[s]), NEW d \in Clients,
         d.cursor = HasRead(s, k).cursor, d.has = HasRead(s, k).has,
         client' = [client EXCEPT ![s] = d],
         unread' = [unread EXCEPT ![s] = <<>>], NEW b2,
         sub' = [sub EXCEPT ![s] = b2],
         \/ b2 = Unsubscribed
         \/ /\ k = Len(unread[s]) /\ sub[s].phase # "off"
            /\ b2.phase = "told" /\ b2.last = sub[s].last
  PROVE  /\ ReadersFollow'
         /\ k = Len(unread[s]) => Reached(s) \subseteq Members(client'[s].has)
<1>1. /\ log \in Seq(Entry) /\ (~shut) \in BOOLEAN
      /\ sub \in [Sub -> Subs] /\ sub[s] \in Subs
      /\ unread \in [Sub -> Seq(Entry)] /\ unread[s] \in Seq(Entry)
      /\ client \in [Sub -> Clients] /\ client[s] \in Clients
      /\ FramesDiffer(log)
      /\ Follows(log, ~shut, client[s], unread[s], sub[s])
  BY OneReader
<1>2. /\ d.cursor = IF k = 0 THEN client[s].cursor ELSE unread[s][k].seq
      /\ d.has = HasAfter(client[s], unread[s], k)
  BY ReadTypes DEF ReadersInv
<1>3. /\ Follows(log, ~shut, d, <<>>, Unsubscribed)
      /\ k = Len(unread[s]) /\ sub[s].phase # "off" =>
           \A b : b.phase = "told" /\ b.last = sub[s].last =>
                    Follows(log, ~shut, d, <<>>, b)
      /\ k = Len(unread[s]) =>
           Members(client[s].has) \cup FramesOf(unread[s])
             \subseteq Members(d.has)
  <2>1. /\ log \in Seq(Entry) /\ FramesDiffer(log) /\ (~shut) \in BOOLEAN
        /\ client[s] \in Clients /\ unread[s] \in Seq(Entry)
        /\ sub[s] \in Subs /\ k \in 0 .. Len(unread[s])
        /\ Follows(log, ~shut, client[s], unread[s], sub[s])
    BY <1>1
  <2> QED BY ONLY <2>1, <1>2, ReadFollows
<1>4. Follows(log, ~shut, d, <<>>, b2)
  BY <1>3
<1>5. client'[s] = d /\ unread'[s] = <<>> /\ sub'[s] = b2
  BY <1>1
<1>6. ASSUME NEW t \in Sub
      PROVE  Follows(log', ~shut', client'[t], unread'[t], sub'[t])
  <2>1. CASE t = s
    BY <2>1, <1>4, <1>5
  <2>2. CASE t # s
    <3>1. sub'[t] = sub[t] /\ unread'[t] = unread[t] /\ client'[t] = client[t]
      BY <2>2, <1>1
    <3> QED BY <3>1, OneReader
  <2> QED BY <2>1, <2>2
<1> QED BY <1>3, <1>5, <1>6 DEF ReadersFollow, Reached

LEMMA ToldFollows ==
  ASSUME ReadersInv, NEW s \in Sub, Told(s)
  PROVE  /\ ReadersFollow' /\ UNCHANGED <<log, shut>>
         /\ Reached(s) \subseteq Members(client'[s].has)
         /\ sub[s].phase = "done" /\ sub'[s].phase = "told"
         /\ client'[s].mark = sub[s].mark
         /\ \A t \in Sub : t # s =>
              UNCHANGED <<sub[t], unread[t], client[t]>>
<1> DEFINE k == Len(unread[s])
           d == [HasRead(s, k) EXCEPT !.mark = sub[s].mark]
           b2 == [sub[s] EXCEPT !.phase = "told"]
<1>1. /\ unread[s] \in Seq(Entry) /\ sub[s] \in Subs /\ sub \in [Sub -> Subs]
      /\ client \in [Sub -> Clients] /\ unread \in [Sub -> Seq(Entry)]
  BY OneReader
<1>2. k \in 0 .. k
  BY <1>1
<1>3. HasRead(s, k) \in Clients
  BY <1>2, ReadTypes DEF ReadersInv
<1>4. /\ d.cursor = HasRead(s, k).cursor /\ d.has = HasRead(s, k).has
      /\ d.mark = sub[s].mark /\ d \in Clients
  <2> DEFINE e == HasRead(s, k)
  <2>1. e \in [cursor : Nat, has : Seq(Frame), mark : BOOLEAN]
    BY <1>3 DEF Clients
  <2>2. sub[s].mark \in BOOLEAN
    BY <1>1 DEF Subs
  <2> HIDE DEF e
  <2>3. [e EXCEPT !.mark = sub[s].mark] \in Clients
    BY <2>1, <2>2 DEF Clients
  <2>4. /\ [e EXCEPT !.mark = sub[s].mark].cursor = e.cursor
        /\ [e EXCEPT !.mark = sub[s].mark].has = e.has
        /\ [e EXCEPT !.mark = sub[s].mark].mark = sub[s].mark
    BY <2>1
  <2> QED BY <2>3, <2>4 DEF e
<1>5. b2.phase = "told" /\ b2.last = sub[s].last
  BY <1>1 DEF Subs
<1>6. /\ sub[s].phase = "done" /\ UNCHANGED <<log, shut>>
      /\ client' = [client EXCEPT ![s] = d]
      /\ unread' = [unread EXCEPT ![s] = <<>>]
      /\ sub' = [sub EXCEPT ![s] = b2]
  BY DEF Told, recordVars
<1> HIDE DEF d, b2, k
<1>7. client'[s] = d /\ sub'[s] = b2
  BY <1>1, <1>6
<1>8. /\ ReadersFollow'
      /\ k = Len(unread[s]) => Reached(s) \subseteq Members(client'[s].has)
  <2>1. k \in 0 .. Len(unread[s]) /\ sub[s].phase # "off"
    BY <1>2, <1>6 DEF k
  <2>2. k = Len(unread[s])
    BY DEF k
  <2> QED BY <1>4, <1>5, <1>6, <2>1, <2>2, ReadStep
<1> QED BY <1>1, <1>4, <1>5, <1>6, <1>7, <1>8 DEF k

LEMMA DisconnectFollows ==
  ASSUME ReadersInv, NEW s \in Sub, Disconnect(s)
  PROVE  /\ ReadersFollow' /\ UNCHANGED <<log, shut>>
         /\ sub'[s].phase = "off"
         /\ \A t \in Sub : t # s =>
              UNCHANGED <<sub[t], unread[t], client[t]>>
<1>1. PICK k \in 0 .. Len(unread[s]) :
        client' = [client EXCEPT ![s] = HasRead(s, k)]
  BY DEF Disconnect
<1>2. /\ UNCHANGED <<log, shut>>
      /\ unread' = [unread EXCEPT ![s] = <<>>]
      /\ sub' = [sub EXCEPT ![s] = Unsubscribed]
  BY DEF Disconnect, recordVars
<1>3. /\ sub \in [Sub -> Subs] /\ client \in [Sub -> Clients]
      /\ unread \in [Sub -> Seq(Entry)]
  BY OneReader
<1>4. HasRead(s, k) \in Clients
  BY <1>1, ReadTypes DEF ReadersInv
<1> DEFINE d == HasRead(s, k)
<1>5. d.cursor = HasRead(s, k).cursor /\ d.has = HasRead(s, k).has
  OBVIOUS
<1> HIDE DEF d
<1>6. ReadersFollow'
  BY <1>1, <1>2, <1>4, <1>5, ReadStep DEF d
<1> QED BY <1>1, <1>2, <1>3, <1>6 DEF Unsubscribed

(* The process ends and with it every connection.                           *)
LEMMA DeathFollows ==
  ASSUME ReadersInv, RunDies
  PROVE  /\ ReadersFollow' /\ UNCHANGED <<client, shut>>
         /\ log' = log \/ \E M \in Seq(Entry) : log' = log \o M
         /\ \A s \in Sub :
              /\ sub[s].phase = "told" => UNCHANGED <<sub[s], unread[s]>>
              /\ sub[s].phase # "told" => sub'[s].phase = "off"
<1>1. UNCHANGED <<client, shut>>
  BY DEF RunDies
<1>2. log \in Seq(Entry)
  BY DEF ReadersInv, FramesTypeOK
<1>3. log' = log \/ \E M \in Seq(Entry) : log' = log \o M
  <2>1. CASE UNCHANGED log
    BY <2>1
  <2>2. CASE \E partial \in BOOLEAN : OnDisk(Finals, partial)
    BY <2>2, <1>2, FinalLines
  <2> QED BY <2>1, <2>2 DEF RunDies
<1>4. PICK M \in Seq(Entry) : log' = log \o M
  <2>1. <<>> \in Seq(Entry) /\ log \o <<>> = log
    BY <1>2, ConcatEmptySeq
  <2> QED BY <2>1, <1>3
<1>5. ASSUME NEW s \in Sub
      PROVE  /\ sub[s].phase = "told" => UNCHANGED <<sub[s], unread[s]>>
             /\ sub[s].phase # "told" => sub'[s] = Unsubscribed
             /\ unread'[s] = <<>>
  <2>1. /\ sub'[s] = IF sub[s].phase = "told" THEN sub[s] ELSE Unsubscribed
        /\ unread'[s] = <<>>
    BY DEF RunDies
  <2>2. sub[s].phase = "told" => unread[s] = <<>>
    BY OneReader DEF Follows
  <2> QED BY <2>1, <2>2
<1>6. ASSUME NEW s \in Sub
      PROVE  Follows(log', ~shut', client'[s], unread'[s], sub'[s])
  <2>1. /\ (~shut) \in BOOLEAN /\ sub[s] \in Subs
        /\ unread[s] \in Seq(Entry) /\ client[s] \in Clients
        /\ Follows(log, ~shut, client[s], unread[s], sub[s])
    BY OneReader
  <2>2. Follows(log', ~shut', client'[s], unread[s], sub[s])
    BY <1>1, <1>2, <1>4, <2>1, QuietFollows
  <2>3. Follows(log', ~shut', client'[s], <<>>, Unsubscribed)
    BY <2>2, CutOffFollows
  <2>4. CASE sub[s].phase = "told"
    BY <2>2, <2>4, <1>5
  <2>5. CASE sub[s].phase # "told"
    BY <2>3, <2>5, <1>5
  <2> QED BY <2>4, <2>5
<1>7. \A s \in Sub :
        /\ sub[s].phase = "told" => UNCHANGED <<sub[s], unread[s]>>
        /\ sub[s].phase # "told" => sub'[s].phase = "off"
  BY <1>5 DEF Unsubscribed
<1> QED BY <1>1, <1>3, <1>6, <1>7 DEF ReadersFollow

(* Nobody reads or is sent anything; followers may hear of an end.          *)
Quiet ==
  /\ UNCHANGED <<unread, client>>
  /\ sub' = sub \/ sub' = Notified(sub)
  /\ log' = log \/ \E M \in Seq(Entry) : log' = log \o M
  /\ shut => shut'
  /\ shut' \in BOOLEAN

(* What the turn appends, it appends while it streams.                      *)
Appends(frames) ==
  Streaming /\ frames \in Seq(Frame) /\ Appended(frames)

LEMMA TurnKinds ==
  ASSUME FramesTypeOK, RunIsHeld
  PROVE  /\ Emit => Appends(<<NextFrame>>) /\ UNCHANGED <<shut, client>>
         /\ TurnSettles => /\ UNCHANGED <<shut, client>>
                           /\ Quiet \/ \E tail \in Tails : Appends(tail)
         /\ TurnPosts =>
              /\ UNCHANGED <<shut, client>> /\ bridge = "posting"
              /\ \/ Quiet
                 \/ \E tail \in Tails :
                      /\ log' = log \o (Synthesized \o Counted(tail))
                      /\ FannedOut(tail)
<1>1. log \in Seq(Entry) /\ shut \in BOOLEAN /\ produced \in Nat
  BY FramesAssumption DEF FramesTypeOK
<1>2. ASSUME Emit
      PROVE  Appends(<<NextFrame>>) /\ UNCHANGED <<shut, client>>
  <2>1. /\ bridge = "streaming" /\ UNCHANGED <<shut, client>>
        /\ Appended(<<NextFrame>>)
    BY <1>2 DEF Emit, NextFrame
  <2>2. NextFrame \in Frame
    BY <1>1 DEF NextFrame, Frame
  <2> QED BY <2>1, <2>2 DEF Appends, Streaming
<1>3. ASSUME TurnSettles
      PROVE  /\ UNCHANGED <<shut, client>>
             /\ Quiet \/ \E tail \in Tails : Appends(tail)
  <2>1. UNCHANGED <<shut, client>> /\ bridge = "settled"
    BY <1>3 DEF TurnSettles
  <2>2. CASE UNCHANGED <<log, count, ring, sub, unread>>
    BY <1>1, <2>1, <2>2 DEF Quiet
  <2>3. CASE \E tail \in Tails : Appended(tail)
    <3>1. PICK tail \in Tails : Appended(tail)
      BY <2>3
    <3> QED BY <2>1, <3>1, TailFrames DEF Appends, Streaming
  <2> QED BY <1>3, <2>1, <2>2, <2>3 DEF TurnSettles
<1>4. ASSUME TurnPosts
      PROVE  /\ UNCHANGED <<shut, client>> /\ bridge = "posting"
             /\ \/ Quiet
                \/ \E tail \in Tails :
                     /\ log' = log \o (Synthesized \o Counted(tail))
                     /\ FannedOut(tail)
  <2>1. bridge = "posting" /\ UNCHANGED <<shut, client>>
    BY <1>4 DEF TurnPosts
  <2>2. Synthesized \in Seq(Entry)
    BY SynthesizedLines
  <2>3. CASE mem = "gone"
    <3>1. log' = log \o Synthesized /\ UNCHANGED <<sub, unread>>
      BY <1>4, <2>3 DEF TurnPosts, Synthesized
    <3> QED BY <1>1, <2>1, <2>2, <3>1 DEF Quiet
  <2>4. CASE mem # "gone"
    <3>1. PICK tail \in Tails : /\ log' = log \o Synthesized \o Counted(tail)
                                /\ FannedOut(tail)
      BY <1>4, <2>4 DEF TurnPosts, Synthesized
    <3>2. Counted(tail) \in Seq(Entry)
      BY TailFrames, CountedLines
    <3>3. log' = log \o (Synthesized \o Counted(tail))
      BY <1>1, <2>2, <3>1, <3>2, ConcatAssociative, SMTT(30)
    <3> QED BY <2>1, <3>1, <3>3
  <2> QED BY <2>3, <2>4
<1> QED BY <1>2, <1>3, <1>4

LEMMA QuietKinds ==
  ASSUME FramesTypeOK,
         \/ AttemptEnds \/ Retry \/ Throws \/ Cancel \/ GraceExpires
         \/ RestartCloses \/ UNCHANGED framesVars
  PROVE  Quiet
<1> USE DEF Quiet, recordVars, handleVars, bridgeVars, subVars
<1>1. log \in Seq(Entry) /\ shut \in BOOLEAN
  BY DEF FramesTypeOK
<1>2. CASE AttemptEnds
  BY <1>1, <1>2 DEF AttemptEnds, Ended
<1>3. CASE Retry
  BY <1>1, <1>3 DEF Retry
<1>4. CASE Throws
  BY <1>1, <1>4 DEF Throws
<1>5. CASE Cancel
  BY <1>1, <1>5 DEF Cancel, Ended
<1>6. CASE GraceExpires
  BY <1>1, <1>6 DEF GraceExpires
<1>7. CASE RestartCloses
  <2>1. \E M \in Seq(Entry) : log' = log \o M
    BY <1>1, <1>7, FinalLines DEF RestartCloses
  <2>2. shut' = TRUE /\ UNCHANGED <<unread, client>> /\ sub' = Notified(sub)
    BY <1>7 DEF RestartCloses, Ended
  <2> QED BY <2>1, <2>2
<1>8. CASE UNCHANGED framesVars
  BY <1>1, <1>8 DEF framesVars
<1> QED BY <1>2, <1>3, <1>4, <1>5, <1>6, <1>7, <1>8

LEMMA ReadersHold ==
  ASSUME ReadersInv, [FramesNext]_framesVars
  PROVE  ReadersFollow'
<1>1. FramesTypeOK /\ RunIsHeld
  BY DEF ReadersInv
<1>2. ASSUME Quiet PROVE ReadersFollow'
  <2>1. <<>> \in Seq(Entry)
    OBVIOUS
  <2>2. PICK M \in Seq(Entry) : log' = log \/ log' = log \o M
    BY <1>2, <2>1 DEF Quiet
  <2> QED BY <1>2, <2>2, QuietStep DEF Quiet
<1>3. ASSUME NEW frames, Appends(frames), UNCHANGED <<shut, client>>
      PROVE  ReadersFollow'
  BY <1>3, AppendFollows DEF Appends
<1>4. CASE Emit
  BY <1>1, <1>3, <1>4, TurnKinds
<1>5. CASE TurnSettles
  <2>1. /\ UNCHANGED <<shut, client>>
        /\ Quiet \/ \E tail \in Tails : Appends(tail)
    BY <1>1, <1>5, TurnKinds
  <2> QED BY <2>1, <1>2, <1>3
<1>6. CASE TurnPosts
  <2>1. /\ UNCHANGED <<shut, client>> /\ bridge = "posting"
        /\ \/ Quiet
           \/ \E tail \in Tails :
                /\ log' = log \o (Synthesized \o Counted(tail))
                /\ FannedOut(tail)
    BY <1>1, <1>6, TurnKinds
  <2>2. CASE Quiet
    BY <2>2, <1>2
  <2>3. ASSUME NEW tail \in Tails, FannedOut(tail),
               log' = log \o (Synthesized \o Counted(tail))
        PROVE  ReadersFollow'
    BY <2>1, <2>3, PostFollows
  <2> QED BY <2>1, <2>2, <2>3
<1>7. CASE \/ AttemptEnds \/ Retry \/ Throws \/ Cancel \/ GraceExpires
           \/ RestartCloses \/ UNCHANGED framesVars
  BY <1>1, <1>2, <1>7, QuietKinds
<1>8. ASSUME NEW s \in Sub,
             Subscribe(s) \/ DrainExpires(s) \/ Told(s) \/ Disconnect(s)
      PROVE  ReadersFollow'
  BY <1>8, SubscribeFollows, DrainFollows, ToldFollows, DisconnectFollows
<1>9. CASE RunDies
  BY <1>9, DeathFollows
<1> QED BY <1>4, <1>5, <1>6, <1>7, <1>8, <1>9 DEF FramesNext

-----------------------------------------------------------------------------
(* Who listens hears the stream *)

Hears(s) ==
  \A i \in 1 .. Len(log) :
    log[i].frame.kind = "stream" => log[i].seq <= sub[s].last

LEMMA HearsMore ==
  ASSUME log \in Seq(Entry), NEW M \in Seq(Entry), log' = log \o M,
         NEW s \in Sub, sub[s] \in Subs, sub'[s] \in Subs, Hears(s),
         sub[s].last <= sub'[s].last,
         \A k \in 1 .. Len(M) :
           M[k].frame.kind = "stream" => M[k].seq <= sub'[s].last
  PROVE  Hears(s)'
<1> SUFFICES ASSUME NEW i \in 1 .. Len(log'), log'[i].frame.kind = "stream"
             PROVE  log'[i].seq <= sub'[s].last
  BY DEF Hears
<1>1. sub[s].last \in Nat /\ sub'[s].last \in Nat
  BY DEF Subs
<1>2. CASE i \in 1 .. Len(log)
  <2>1. log'[i] = log[i]
    BY <1>2, Grown
  <2>2. log[i].seq \in Nat /\ log[i].seq <= sub[s].last
    BY <1>2, <2>1, LinesAreEntries DEF Hears
  <2> QED BY <1>1, <2>1, <2>2
<1>3. CASE i \notin 1 .. Len(log)
  <2>1. PICK k \in 1 .. Len(M) : i = Len(log) + k
    BY <1>3, Grown
  <2>2. (log \o M)[Len(log) + k] = M[k]
    BY Grown
  <2> QED BY <2>1, <2>2
<1> QED BY <1>2, <1>3

LEMMA EmitIsHeard ==
  ASSUME ReadersInv, NEW s \in Sub, Hears(s), Listening(s), Emit
  PROVE  Hears(s)'
<1>1. FramesTypeOK /\ RunIsHeld /\ log \in Seq(Entry) /\ sub[s] \in Subs
  BY OneReader DEF ReadersInv
<1> DEFINE F == <<NextFrame>>
           N == Counted(F)
           r == Sent(s, N)
<1>2. F \in Seq(Frame) /\ Appended(F)
  BY <1>1, TurnKinds DEF Appends
<1>3. log' = log \o N /\ FannedOut(F)
  <2>1. mem # "gone"
    BY <1>1 DEF RunIsHeld
  <2> QED BY <1>2, <2>1 DEF Appended
<1>4. N \in Seq(Entry)
  BY <1>1, <1>2, CountedLines
<1>5. sub'[s] \in Subs
  BY <1>1, <1>2, <1>3, FannedTypes
<1>6. sub'[s].last = r.last
  BY <1>1, <1>3, FannedOne
<1>7. IsSent(N, sub[s].last, r)
  BY <1>1, <1>4, RisingSends DEF Sent, Subs
<1> HIDE DEF N, r
<1>8. sub[s].last <= r.last /\ \A k \in 1 .. Len(N) : N[k].seq <= r.last
  BY <1>7 DEF IsSent
<1> QED BY <1>1, <1>3, <1>4, <1>5, <1>6, <1>8, HearsMore

(* The frames of an end are not of the stream.                              *)
LEMMA FinalKinds ==
  ASSUME NEW M, NEW partial \in BOOLEAN, AreFinals(M, partial)
  PROVE  \A k \in 1 .. Len(M) : M[k].frame.kind = "final"
<1>1. Len(M) = 2 /\ M[1].frame.kind = "final" /\ M[2].frame.kind = "final"
  BY DEF AreFinals, Junk, TurnDoneFrame
<1>2. \A k \in 1 .. 2 : k = 1 \/ k = 2
  OBVIOUS
<1> QED BY <1>1, <1>2

LEMMA CloseIsHeard ==
  ASSUME FramesTypeOK, NEW s \in Sub, Hears(s), RestartCloses
  PROVE  Hears(s)'
<1>1. PICK M \in Seq(Entry) : log' = log \o M /\ AreFinals(M, FALSE)
  BY FinalLines DEF RestartCloses, AreFinals, FramesTypeOK
<1>2. \A k \in 1 .. Len(M) : M[k].frame.kind # "stream"
  BY <1>1, FinalKinds
<1>3. sub'[s].last = sub[s].last
  BY EndedOne DEF RestartCloses, Ended
<1>4. /\ log \in Seq(Entry) /\ sub[s] \in Subs /\ sub' \in [Sub -> Subs]
      /\ sub[s].last \in Nat
  <2>1. Ended("failed") /\ "failed" \in Terminal
    BY DEF RestartCloses, Terminal
  <2>2. sub' \in [Sub -> Subs]
    BY <2>1, EndedTypes
  <2>3. log \in Seq(Entry) /\ sub \in [Sub -> Subs]
    BY DEF FramesTypeOK, Subs
  <2>4. sub[s] \in Subs
    BY <2>3
  <2>5. sub[s].last \in Nat
    BY <2>4 DEF Subs
  <2> QED BY <2>2, <2>3, <2>4, <2>5
<1>5. sub'[s] \in Subs
  BY <1>4
<1>6. sub[s].last <= sub'[s].last
  BY <1>3, <1>4
<1>7. \A k \in 1 .. Len(M) :
        M[k].frame.kind = "stream" => M[k].seq <= sub'[s].last
  BY <1>2
<1> HIDE DEF Hears
<1> QED BY <1>1, <1>4, <1>5, <1>6, <1>7, HearsMore

(* Where the log rests and a subscription keeps its place.                  *)
LEMMA StillHears ==
  ASSUME NEW s, Hears(s), log' = log, sub'[s].last = sub[s].last
  PROVE  Hears(s)'
BY DEF Hears

LEMMA ListenersHold ==
  ASSUME ReadersInv, [FramesNext]_framesVars
  PROVE  ListenersHear'
<1> SUFFICES ASSUME NEW s \in Sub, Streaming', Listening(s)'
             PROVE  Hears(s)'
  BY DEF ListenersHear, Hears
<1>1. FramesTypeOK /\ RunIsHeld /\ sub \in [Sub -> Subs]
  BY OneReader DEF ReadersInv
<1>2. Streaming /\ Listening(s) => Hears(s)
  BY DEF ReadersInv, ListenersHear, Hears
<1> USE DEF recordVars, handleVars, bridgeVars, subVars
<1>3. CASE Emit
  <2>1. Appends(<<NextFrame>>)
    BY <1>1, <1>3, TurnKinds
  <2>2. Listening(s) /\ Streaming
    BY <1>1, <2>1, AppendedOne DEF Appends, Listening
  <2> QED BY <1>2, <1>3, <2>2, EmitIsHeard
<1>4. CASE AttemptEnds \/ Cancel
  <2>1. log' = log /\ Streaming
    BY <1>4 DEF AttemptEnds, Cancel, Streaming
  <2>2. sub' = sub \/ sub' = Notified(sub)
    BY <1>4 DEF AttemptEnds, Cancel, Ended
  <2>3. sub'[s].last = sub[s].last /\ Listening(s)
    BY <1>1, <2>2, EndedOne DEF Listening
  <2> QED BY <1>2, <2>1, <2>3, StillHears
<1>5. CASE Retry \/ Throws \/ GraceExpires \/ UNCHANGED framesVars
  <2>1. UNCHANGED <<log, sub>> /\ Streaming
    BY <1>5
    DEF Retry, Throws, GraceExpires, framesVars, Streaming
  <2> QED BY <2>1, <1>2, StillHears DEF Listening
<1>6. CASE TurnSettles
  <2>1. UNCHANGED <<log, sub>> /\ Streaming
    BY <1>6 DEF TurnSettles, Streaming
  <2> QED BY <2>1, <1>2, StillHears DEF Listening
<1>7. CASE TurnPosts \/ RunDies
  BY <1>7 DEF TurnPosts, RunDies, Streaming
<1>8. CASE RestartCloses
  <2>1. Streaming /\ sub' = Notified(sub)
    BY <1>8 DEF RestartCloses, Ended, Streaming
  <2>2. Listening(s)
    BY <1>1, <2>1, EndedOne DEF Listening
  <2> QED BY <1>1, <1>2, <1>8, <2>1, <2>2, CloseIsHeard
<1>9. ASSUME NEW t \in Sub, Subscribe(t) PROVE Hears(s)'
  <2>1. Streaming
    BY <1>9 DEF Subscribe, Streaming
  <2>2. /\ UNCHANGED <<log, shut, client>>
        /\ sub' = [sub EXCEPT ![t] = sub'[t]]
        /\ \/ sub'[t].phase = "done"
           \/ sub'[t].phase \in {"done", "live", "watching"} /\ IsCurrent(t)
    BY <1>9, SubscribeFollows
  <2>3. CASE t # s
    <3>1. sub'[s] = sub[s]
      BY <1>1, <2>2, <2>3
    <3> QED BY <3>1, <2>1, <2>2, <1>2, StillHears DEF Listening
  <2>4. CASE t = s
    <3>1. IsCurrent(s)
      BY <2>2, <2>4 DEF Listening
    <3> QED BY <3>1, <2>2 DEF IsCurrent, Hears
  <2> QED BY <2>3, <2>4
<1>10. ASSUME NEW t \in Sub, DrainExpires(t) \/ Told(t) \/ Disconnect(t)
       PROVE  Hears(s)'
  <2>1. Streaming /\ log' = log
    BY <1>10 DEF DrainExpires, Told, Disconnect, Streaming
  <2>2. sub'[t].phase \in {"off", "done", "told"}
    BY <1>10, DrainFollows, ToldFollows, DisconnectFollows
  <2>3. t # s
    BY <2>2 DEF Listening
  <2>4. sub'[s] = sub[s]
    BY <1>1, <1>10, <2>3 DEF DrainExpires, Told, Disconnect
  <2> QED BY <2>1, <2>4, <1>2, StillHears DEF Listening
<1> QED BY <1>3, <1>4, <1>5, <1>6, <1>7, <1>8, <1>9, <1>10 DEF FramesNext

-----------------------------------------------------------------------------
(* What is due *)

LEMMA OwedSteps ==
  ASSUME [FramesNext]_framesVars
  PROVE  owed' = owed \/ (status = "running" /\ owed' = Streamed)
BY DEF FramesNext, Emit, AttemptEnds, Ended, Retry, Throws, Cancel,
       TurnSettles, TurnPosts, GraceExpires, Subscribe, DrainExpires, Told,
       Disconnect, RestartCloses, RunDies, framesVars

(* While the record says running, every line is a peak.                     *)
LEMMA StreamedArePeaks ==
  ASSUME FramesTypeOK, RunIsHeld, LogInv, status = "running"
  PROVE  /\ Streamed \subseteq [kind : {"stream"}, n : Nat]
         /\ \A x \in Streamed : \E p \in Peaks(log, ~shut) : log[p].frame = x
<1>1. Streaming /\ ~shut /\ log \in Seq(Entry)
  BY DEF RunIsHeld, Streaming, FramesTypeOK
<1>2. \A i \in 1 .. Len(log) : log[i].seq = i
  BY <1>1, StreamedLog DEF LogInv
<1>3. \A i \in 1 .. Len(log) : i \in Peaks(log, ~shut)
  <2>1. \A i \in 1 .. Len(log) : \A j \in 1 .. (i - 1) :
          j \in 1 .. Len(log) /\ j < i /\ 0 < i
    BY <1>1
  <2>2. \A i \in 1 .. Len(log) : 0 < i
    OBVIOUS
  <2> QED BY <1>1, <1>2, <2>1, <2>2 DEF Peaks, Rises
<1>4. ASSUME NEW x \in Streamed
      PROVE  /\ x \in [kind : {"stream"}, n : Nat]
             /\ \E p \in Peaks(log, ~shut) : log[p].frame = x
  <2>1. PICK i \in 1 .. Len(log) : log[i].frame = x /\ x.kind = "stream"
    BY DEF Streamed
  <2>2. x \in Frame
    BY <1>1, <2>1, LinesAreEntries
  <2> QED BY <1>3, <2>1, <2>2 DEF Frame
<1> QED BY <1>4

LEMMA LogGrows ==
  ASSUME FramesTypeOK, RunIsHeld, [FramesNext]_framesVars
  PROVE  /\ \E M \in Seq(Entry) : log' = log \o M
         /\ shut => shut'
         /\ shut' \in BOOLEAN
         /\ HasFinal(log') => HasFinal(log) \/ LogCloses
<1>1. log \in Seq(Entry) /\ shut \in BOOLEAN
  BY DEF FramesTypeOK
<1>2. ASSUME NEW M \in Seq(Entry), log' = log \o M,
             \A k \in 1 .. Len(M) : M[k].frame.kind # "final"
      PROVE  HasFinal(log') => HasFinal(log)
  <2> SUFFICES ASSUME NEW i \in 1 .. Len(log'), log'[i].frame.kind = "final"
               PROVE  HasFinal(log)
    BY DEF HasFinal
  <2>1. CASE i \in 1 .. Len(log)
    <3>1. log'[i] = log[i]
      BY <1>1, <1>2, <2>1, Grown
    <3> QED BY <2>1, <3>1 DEF HasFinal
  <2>2. CASE i \notin 1 .. Len(log)
    <3>1. PICK k \in 1 .. Len(M) : i = Len(log) + k
      BY <1>1, <1>2, <2>2, Grown
    <3>2. (log \o M)[Len(log) + k] = M[k]
      BY <1>1, <1>2, Grown
    <3> QED BY <1>2, <3>1, <3>2
  <2> QED BY <2>1, <2>2
<1>3. CASE LogRests
  <2>1. <<>> \in Seq(Entry) /\ log \o <<>> = log
    BY <1>1, ConcatEmptySeq
  <2> QED BY <1>1, <1>3, <2>1 DEF LogRests
<1>4. CASE LogStreams
  <2> DEFINE M == Counted(<<NextFrame>>)
  <2>1. log' = log \o M /\ shut' = shut
    BY <1>4 DEF LogStreams
  <2>2. M \in Seq(Entry) /\ Len(M) = 1 /\ M[1].frame = NextFrame
    BY NextLine
  <2> HIDE DEF M
  <2>3. \A k \in 1 .. Len(M) : M[k].frame.kind # "final"
    BY <2>2 DEF NextFrame
  <2> QED BY <1>1, <1>2, <2>1, <2>2, <2>3
<1>5. CASE LogEnds
  <2>1. PICK tail \in Tails : log' = log \o Counted(tail) /\ shut' = shut
    BY <1>5 DEF LogEnds
  <2> DEFINE M == Counted(tail)
  <2>2. M \in Seq(Entry) /\ \A k \in 1 .. Len(M) :
          M[k].frame = [kind |-> "tail", n |-> k]
    BY TailKinds
  <2>3. log' = log \o M
    BY <2>1
  <2> HIDE DEF M
  <2>4. ASSUME NEW k \in 1 .. Len(M) PROVE M[k].frame.kind # "final"
    <3>1. M[k].frame = [kind |-> "tail", n |-> k]
      BY <2>2
    <3> QED BY <3>1
  <2> QED BY <1>1, <1>2, <2>1, <2>2, <2>3, <2>4
<1>6. CASE LogPosts
  <2>1. PICK tail \in Tails :
          log' = log \o (Synthesized \o Counted(tail)) /\ shut' = shut
    BY <1>6 DEF LogPosts
  <2> DEFINE M == Synthesized \o Counted(tail)
             n == Len(tail)
  <2>2. /\ M \in Seq(Entry)
        /\ \A k \in 1 .. Len(M) :
             \/ M[k].frame = [kind |-> "synth", n |-> k]
             \/ \E l \in 1 .. n : M[k].frame = [kind |-> "tail", n |-> l]
    BY PostedLines
  <2>3. log' = log \o M
    BY <2>1
  <2> HIDE DEF M, n
  <2>4. ASSUME NEW k \in 1 .. Len(M) PROVE M[k].frame.kind # "final"
    <3>1. \/ M[k].frame = [kind |-> "synth", n |-> k]
          \/ \E l \in 1 .. n : M[k].frame = [kind |-> "tail", n |-> l]
      BY <2>2
    <3>2. CASE M[k].frame = [kind |-> "synth", n |-> k]
      BY <3>2
    <3>3. ASSUME NEW l \in 1 .. n, M[k].frame = [kind |-> "tail", n |-> l]
          PROVE  M[k].frame.kind # "final"
      BY <3>3
    <3> QED BY <3>1, <3>2, <3>3
  <2> QED BY <1>1, <1>2, <2>1, <2>2, <2>3, <2>4
<1>7. CASE LogCloses
  <2>1. \E M \in Seq(Entry) : log' = log \o M
    BY <1>7 DEF LogCloses
  <2>2. shut' = TRUE \/ shut' = shut
    BY <1>7 DEF LogCloses
  <2> QED BY <1>1, <1>7, <2>1, <2>2
<1> QED BY <1>3, <1>4, <1>5, <1>6, <1>7, LogSteps

(* The turn_done of a sweep stands above all that was logged.               *)
LEMMA SweepPeaks ==
  ASSUME FramesTypeOK, RunIsHeld, LogInv, LogCloses, ~shut'
  PROVE  \E p \in Peaks(log', ~shut') : log'[p].frame = TurnDoneFrame
<1>1. PICK M \in Seq(Entry), partial \in BOOLEAN :
        log' = log \o M /\ AreFinals(M, partial)
  BY DEF LogCloses
<1>2. Streaming /\ ~shut /\ log \in Seq(Entry)
  BY DEF RunIsHeld, Streaming, FramesTypeOK, LogCloses
<1>3. \A i \in 1 .. Len(log) : log[i].seq = i
  BY <1>2, StreamedLog DEF LogInv
<1> DEFINE n == Len(log)
           LM == log \o M
<1>4. /\ n \in Nat /\ LM \in Seq(Entry) /\ Len(LM) = n + 2
      /\ \A i \in 1 .. n : LM[i] = log[i]
      /\ LM[n + 1] = M[1] /\ LM[n + 2] = M[2]
  <2>1. Len(M) = 2 /\ 1 \in 1 .. 2 /\ 2 \in 1 .. 2
    BY <1>1 DEF AreFinals
  <2>2. LM \in Seq(Entry) /\ Len(LM) = n + Len(M)
    BY <1>2, Grown
  <2>3. \A i \in 1 .. n : LM[i] = log[i]
    BY <1>2, Grown
  <2>4. \A k \in 1 .. Len(M) : LM[n + k] = M[k]
    <3>1. log \in Seq(Entry) /\ M \in Seq(Entry)
      BY <1>2
    <3> QED BY ONLY <3>1, Grown
  <2> HIDE DEF LM
  <2> QED BY <1>2, <2>1, <2>2, <2>3, <2>4
<1>5. /\ M[2].seq = n + 2 /\ M[2].frame = TurnDoneFrame
      /\ M[1].seq = 0 \/ M[1].seq = n + 1
  BY <1>1 DEF AreFinals, Junk
<1> HIDE DEF LM
<1>6. \A j \in 1 .. (n + 2 - 1) : LM[j].seq < n + 2
  <2> SUFFICES ASSUME NEW j \in 1 .. (n + 2 - 1) PROVE LM[j].seq < n + 2
    OBVIOUS
  <2> HIDE DEF n
  <2>1. j \in 1 .. n \/ j = n + 1
    BY <1>4
  <2>2. CASE j \in 1 .. n
    BY <2>2, <1>3, <1>4 DEF n
  <2>3. CASE j = n + 1
    BY <2>3, <1>4, <1>5
  <2> QED BY <2>1, <2>2, <2>3
<1>7. n + 2 \in Peaks(LM, ~shut') /\ LM[n + 2].frame = TurnDoneFrame
  <2> HIDE DEF n
  <2>1. n + 2 \in 1 .. Len(LM) /\ 0 < LM[n + 2].seq
    BY <1>4, <1>5
  <2>2. LM[n + 2].seq = n + 2
    BY <1>4, <1>5
  <2> QED BY <1>4, <1>5, <1>6, <2>1, <2>2 DEF Peaks, Rises
<1> QED BY <1>1, <1>7 DEF LM

LEMMA DuesStayPeaks ==
  ASSUME FramesTypeOK, RunIsHeld, LogInv, DuesArePeaks,
         [FramesNext]_framesVars
  PROVE  DuesArePeaks'
<1>1. /\ log \in Seq(Entry) /\ shut \in BOOLEAN
      /\ owed \subseteq [kind : {"stream"}, n : Nat]
      /\ \A x \in Due : \E p \in Peaks(log, ~shut) : log[p].frame = x
  BY DEF FramesTypeOK, DuesArePeaks
<1>2. PICK M \in Seq(Entry) : log' = log \o M
  BY LogGrows
<1>3. /\ shut => shut'
      /\ shut' \in BOOLEAN
      /\ HasFinal(log') => HasFinal(log) \/ LogCloses
  BY LogGrows
<1>4. ASSUME NEW p \in Peaks(log, ~shut),
             ~shut' \/ log[p].frame.kind = "stream"
      PROVE  \E q \in Peaks(log', ~shut') : log'[q].frame = log[p].frame
  <2>1. p \in 1 .. Len(log) /\ p \in Peaks(log \o M, ~shut')
    BY <1>1, <1>4, PeaksGrow
  <2>2. (log \o M)[p] = log[p]
    BY <2>1, <1>1, Grown
  <2> QED BY <1>2, <2>1, <2>2
<1>5. owed' = owed \/ (status = "running" /\ owed' = Streamed)
  BY OwedSteps
<1>6. /\ owed' \subseteq [kind : {"stream"}, n : Nat]
      /\ \A x \in owed' : \E p \in Peaks(log, ~shut) : log[p].frame = x
  BY <1>1, <1>5, StreamedArePeaks DEF Due
<1>7. ASSUME NEW x \in owed'
      PROVE  \E p \in Peaks(log', ~shut') : log'[p].frame = x
  <2>1. x.kind = "stream"
    BY <1>6
  <2>2. PICK p \in Peaks(log, ~shut) : log[p].frame = x
    BY <1>6
  <2> QED BY <2>1, <2>2, <1>4
<1>8. ASSUME ~shut', HasFinal(log')
      PROVE  \E p \in Peaks(log', ~shut') : log'[p].frame = TurnDoneFrame
  <2>1. CASE HasFinal(log)
    <3>1. TurnDoneFrame \in Due
      BY <2>1, <1>3, <1>8 DEF Due
    <3>2. PICK p \in Peaks(log, ~shut) : log[p].frame = TurnDoneFrame
      BY <3>1, <1>1
    <3> QED BY <3>2, <1>4, <1>8
  <2>2. CASE LogCloses
    BY <2>2, <1>8, SweepPeaks
  <2> QED BY <1>3, <1>8, <2>1, <2>2
<1>9. Due' = owed' \cup (IF ~shut' /\ HasFinal(log')
                         THEN {TurnDoneFrame} ELSE {})
  BY DEF Due, HasFinal, TurnDoneFrame
<1>10. \A x \in Due' : \E p \in Peaks(log', ~shut') : log'[p].frame = x
  BY <1>7, <1>8, <1>9
<1> QED BY <1>6, <1>10 DEF DuesArePeaks, Peaks, Rises

(* Nothing becomes due once the record is no longer running.                *)
LEMMA DuesStay ==
  ASSUME FramesTypeOK, RunIsHeld, [FramesNext]_framesVars,
         status # "running"
  PROVE  Due' \subseteq Due
<1>1. owed' = owed /\ ~LogCloses
  BY OwedSteps DEF LogCloses
<1>2. HasFinal(log') => HasFinal(log)
  BY <1>1, LogGrows
<1>3. ~shut' => ~shut
  BY LogGrows
<1>4. Due' = owed' \cup (IF ~shut' /\ HasFinal(log')
                         THEN {TurnDoneFrame} ELSE {})
  BY DEF Due, HasFinal, TurnDoneFrame
<1> QED BY <1>1, <1>2, <1>3, <1>4 DEF Due

(* A subscription is done or told because it was, or by one of its steps.   *)
Rests(s) == UNCHANGED <<sub[s], unread[s], client[s]>>

LEMMA QuietRests ==
  ASSUME FramesTypeOK, Quiet, NEW s \in Sub,
         sub'[s].phase \in {"done", "told"}
  PROVE  Rests(s)
<1>1. UNCHANGED <<unread, client>> /\ (sub' = sub \/ sub' = Notified(sub))
  BY DEF Quiet
<1>2. CASE sub' = sub
  BY <1>1, <1>2 DEF Rests
<1>3. CASE sub' = Notified(sub)
  <2>1. sub[s].phase # "live"
    BY <1>3, EndedOne
  <2>2. sub'[s] = sub[s]
    BY <1>3, <2>1 DEF Notified
  <2> QED BY <1>1, <2>2 DEF Rests
<1> QED BY <1>1, <1>2, <1>3

LEMMA FannedRests ==
  ASSUME FramesTypeOK, NEW frames, FannedOut(frames), client' = client,
         NEW s \in Sub, sub'[s].phase \in {"done", "told"}
  PROVE  Rests(s)
<1>1. sub'[s].phase = sub[s].phase
  BY FannedOne
<1>2. ~Listening(s)
  BY <1>1 DEF Listening
<1> QED BY <1>2, FannedOne DEF Rests

LEMMA WhoIsDone ==
  ASSUME ReadersInv, [FramesNext]_framesVars, NEW s \in Sub,
         sub'[s].phase \in {"done", "told"}
  PROVE  Rests(s) \/ Subscribe(s) \/ DrainExpires(s) \/ Told(s)
<1>1. FramesTypeOK /\ RunIsHeld
  BY DEF ReadersInv
<1>2. sub \in [Sub -> Subs] /\ unread \in [Sub -> Seq(Entry)]
      /\ client \in [Sub -> Clients]
  BY OneReader
<1>3. ASSUME NEW frames, Appends(frames), client' = client
      PROVE  Rests(s)
  <2>1. CASE mem = "gone"
    BY <1>3, <2>1 DEF Appends, Appended, Rests
  <2>2. CASE mem # "gone"
    <3>1. FannedOut(frames)
      BY <1>3, <2>2 DEF Appends, Appended
    <3> QED BY <1>1, <1>3, <3>1, FannedRests
  <2> QED BY <2>1, <2>2
<1>4. CASE Emit
  BY <1>1, <1>3, <1>4, TurnKinds
<1>5. CASE TurnSettles
  <2>1. client' = client /\ (Quiet \/ \E tail \in Tails : Appends(tail))
    BY <1>1, <1>5, TurnKinds
  <2> QED BY <2>1, <1>1, <1>3, QuietRests
<1>6. CASE TurnPosts
  <2>1. client' = client /\ (Quiet \/ \E tail \in Tails : FannedOut(tail))
    BY <1>1, <1>6, TurnKinds
  <2> QED BY <2>1, <1>1, QuietRests, FannedRests
<1>7. CASE \/ AttemptEnds \/ Retry \/ Throws \/ Cancel \/ GraceExpires
           \/ RestartCloses \/ UNCHANGED framesVars
  BY <1>1, <1>7, QuietKinds, QuietRests
<1>8. ASSUME NEW t \in Sub, Subscribe(t) \/ DrainExpires(t)
      PROVE  t = s \/ Rests(s)
  <2>1. /\ sub' = [sub EXCEPT ![t] = sub'[t]]
        /\ unread' = [unread EXCEPT ![t] = unread'[t]]
        /\ client' = client
    BY <1>8, SubscribeFollows, DrainFollows
  <2>2. t # s => sub'[s] = sub[s] /\ unread'[s] = unread[s]
    BY <2>1, <1>2
  <2> QED BY <2>1, <2>2 DEF Rests
<1>9. ASSUME NEW t \in Sub, Told(t) \/ Disconnect(t)
      PROVE  (t = s /\ Told(s)) \/ Rests(s)
  <2>1. t # s => Rests(s)
    BY <1>9, ToldFollows, DisconnectFollows DEF Rests
  <2>2. Disconnect(t) => t # s
    BY DisconnectFollows
  <2> QED BY <1>9, <2>1, <2>2
<1>10. CASE RunDies
  BY <1>10, DeathFollows DEF Rests
<1> QED BY <1>4, <1>5, <1>6, <1>7, <1>8, <1>9, <1>10 DEF FramesNext

LEMMA DuesStayMet ==
  ASSUME ReadersInv, DuesArePeaks, DuesAreMet, [FramesNext]_framesVars
  PROVE  DuesAreMet'
<1>1. FramesTypeOK /\ RunIsHeld
  BY DEF ReadersInv
<1> SUFFICES
      ASSUME NEW s \in Sub
      PROVE  /\ sub'[s].phase = "done" /\ ~sub'[s].mark =>
                  Due' \subseteq Reached(s)'
             /\ sub'[s].phase = "told" /\ ~client'[s].mark =>
                  Due' \subseteq Members(client'[s].has)
  BY DEF DuesAreMet, Members
<1>2. ASSUME sub'[s].phase \in {"done", "told"}
      PROVE  Rests(s) \/ Subscribe(s) \/ DrainExpires(s) \/ Told(s)
  BY <1>2, WhoIsDone
<1>3. Reached(s)' = Members(client'[s].has) \cup FramesOf(unread'[s])
  BY DEF Reached, Members, FramesOf
<1>4. ASSUME Rests(s), sub'[s].phase \in {"done", "told"}
      PROVE  /\ sub'[s].phase = "done" /\ ~sub'[s].mark =>
                  Due' \subseteq Reached(s)'
             /\ sub'[s].phase = "told" /\ ~client'[s].mark =>
                  Due' \subseteq Members(client'[s].has)
  <2>1. /\ sub'[s] = sub[s] /\ unread'[s] = unread[s]
        /\ client'[s] = client[s] /\ sub[s].phase \in {"done", "told"}
    BY <1>4 DEF Rests
  <2>2. status # "running"
    BY <1>1, <2>1 DEF RunIsHeld
  <2>3. Due' \subseteq Due
    BY <1>1, <2>2, DuesStay
  <2> QED BY <2>1, <2>3, <1>3 DEF DuesAreMet, Reached
<1>5. ASSUME IsCurrent(s), UNCHANGED <<log, shut, client>>, Due' \subseteq Due
      PROVE  Due' \subseteq Reached(s)'
  <2>1. ASSUME NEW x \in Due PROVE x \in Reached(s)'
    <3>1. PICK p \in Peaks(log, ~shut) : log[p].frame = x
      BY DEF DuesArePeaks
    <3> QED BY <3>1, <1>3, <1>5 DEF IsCurrent
  <2> QED BY <2>1, <1>5
<1>6. CASE Subscribe(s)
  <2>1. /\ UNCHANGED <<log, shut, client>>
        /\ sub'[s].phase # "told"
        /\ sub'[s].mark \/ IsCurrent(s)
    BY <1>6, SubscribeFollows
  <2>2. Due' \subseteq Due
    BY <1>6, <2>1 DEF Due, Subscribe, HasFinal
  <2> QED BY <2>1, <2>2, <1>5
<1>7. CASE DrainExpires(s)
  <2>1. /\ UNCHANGED <<log, shut, client>> /\ sub'[s].phase # "told"
        /\ IsCurrent(s)
    BY <1>7, DrainFollows
  <2>2. Due' \subseteq Due
    BY <1>7, <2>1 DEF Due, DrainExpires, HasFinal
  <2> QED BY <2>1, <2>2, <1>5
<1>8. CASE Told(s)
  <2>1. /\ Reached(s) \subseteq Members(client'[s].has)
        /\ sub[s].phase = "done" /\ sub'[s].phase = "told"
        /\ client'[s].mark = sub[s].mark /\ UNCHANGED <<log, shut>>
    BY <1>8, ToldFollows
  <2>2. Due' \subseteq Due
    BY <1>8, <2>1 DEF Due, Told, HasFinal
  <2>3. ~sub[s].mark => Due \subseteq Reached(s)
    BY <2>1 DEF DuesAreMet
  <2> QED BY <2>1, <2>2, <2>3
<1> QED BY <1>2, <1>4, <1>6, <1>7, <1>8

-----------------------------------------------------------------------------
(* The invariant, and what follows *)

LEMMA Starts ==
  ASSUME FramesInit
  PROVE  IInv
<1> USE FramesAssumption DEF FramesInit, Unsubscribed
<1>1. FramesTypeOK
  <2>1. log \in Seq(Entry) /\ ring \in Seq(Entry) /\ Len(ring) <= RingMax
    OBVIOUS
  <2>2. sub \in [Sub -> [phase : Phases, last : Nat, mark : BOOLEAN]]
    BY DEF Phases
  <2>3. unread \in [Sub -> Seq(Entry)]
    OBVIOUS
  <2>4. client \in [Sub -> [cursor : Nat, has : Seq(Frame), mark : BOOLEAN]]
    OBVIOUS
  <2>5. attempt \in 1 .. MaxAttempts /\ produced \in 0 .. MaxFrames
        /\ missing \in 0 .. MaxTools /\ breaks \in 0 .. MaxBreaks
    OBVIOUS
  <2> QED BY <2>1, <2>2, <2>3, <2>4, <2>5 DEF FramesTypeOK, RunStatuses
<1>2. RunIsHeld
  BY DEF RunIsHeld, Listening
<1>3. Len(log) = 0 /\ \A i \in 1 .. Len(log) : FALSE
  OBVIOUS
<1>4. NumbersRunOn /\ FramesAreOnce /\ SeqNamesOneFrame
  BY <1>3 DEF NumbersRunOn, FramesAreOnce, SeqNamesOneFrame, FramesDiffer
<1>5. Peaks(log, ~shut) = {}
  BY <1>3 DEF Peaks, Rises
<1>6. ASSUME NEW s \in Sub
      PROVE  Follows(log, ~shut, client[s], unread[s], sub[s])
  <2>1. /\ client[s].cursor = 0 /\ Len(client[s].has) = 0
        /\ unread[s] = <<>> /\ Len(unread[s]) = 0
        /\ sub[s].phase = "off" /\ sub[s].last = 0
    OBVIOUS
  <2>2. /\ \A i \in 1 .. Len(client[s].has) : FALSE
        /\ \A i \in 1 .. Len(unread[s]) : FALSE
    BY <2>1
  <2> QED BY <1>5, <2>1, <2>2 DEF Follows, Within
<1>7. ReadersFollow
  BY <1>6 DEF ReadersFollow
<1>8. ListenersHear
  BY <1>3 DEF ListenersHear
<1>9. Due = {}
  BY <1>3 DEF Due, HasFinal
<1>10. DuesArePeaks /\ DuesAreMet
  BY <1>9 DEF DuesArePeaks, DuesAreMet
<1> QED BY <1>1, <1>2, <1>4, <1>7, <1>8, <1>10 DEF IInv

LEMMA Keeps ==
  ASSUME IInv, [FramesNext]_framesVars
  PROVE  IInv'
<1>1. FramesTypeOK /\ RunIsHeld /\ LogInv /\ ReadersInv
  BY DEF IInv, LogInv, ReadersInv
<1>2. FramesTypeOK'
  BY <1>1, Typing
<1>3. RunIsHeld'
  BY <1>1, Holds
<1>4. LogInv'
  BY <1>1, LogHolds
<1>5. ReadersFollow'
  BY <1>1, ReadersHold
<1>6. ListenersHear'
  BY <1>1, ListenersHold
<1>7. DuesArePeaks'
  BY <1>1, DuesStayPeaks DEF IInv
<1>8. DuesAreMet'
  BY <1>1, DuesStayMet DEF IInv
<1> QED BY <1>2, <1>3, <1>4, <1>5, <1>6, <1>7, <1>8 DEF IInv, LogInv

LEMMA Inductive == FramesSpec => []IInv
<1>1. FramesInit => IInv
  BY Starts
<1>2. IInv /\ [FramesNext]_framesVars => IInv'
  BY Keeps
<1> QED BY <1>1, <1>2, PTL DEF FramesSpec

(* What has been delivered to a client differs, frame for frame.            *)
LEMMA DeliveredOnce ==
  ASSUME IInv
  PROVE  NoFrameTwice
<1> SUFFICES ASSUME NEW s \in Sub
             PROVE  \A i, j \in 1 .. Len(Delivered(s)) :
                      i # j => Delivered(s)[i] # Delivered(s)[j]
  BY DEF NoFrameTwice
<1> DEFINE c == client[s]
           u == unread[s]
           k == Len(u)
<1>1. ReadersInv
  BY DEF IInv, LogInv, ReadersInv
<1>2. /\ log \in Seq(Entry) /\ FramesDiffer(log) /\ (~shut) \in BOOLEAN
      /\ c \in Clients /\ u \in Seq(Entry) /\ sub[s] \in Subs
      /\ Follows(log, ~shut, c, u, sub[s]) /\ k \in 0 .. Len(u)
  BY <1>1, OneReader
<1>3. Delivered(s) = HasAfter(c, u, k)
  BY DEF Delivered, HasAfter
<1> HIDE DEF c, u, k
<1>4. \A i, j \in 1 .. Len(HasAfter(c, u, k)) :
        i # j => HasAfter(c, u, k)[i] # HasAfter(c, u, k)[j]
  BY ONLY <1>2, ReadOnce, ZenonT(60)
<1> QED BY <1>3, <1>4

(* The record, the log, the handle, the subscriptions and the clients keep  *)
(* their types through retries, lost connections, a shutdown and a crash    *)
(* (runs.ts, subscribeToRun, the boot sweep).                               *)
THEOREM FramesTyping == FramesSpec => []FramesTypeOK
<1>1. IInv => FramesTypeOK
  BY DEF IInv
<1> QED BY <1>1, Inductive, PTL

(* While no shutdown has numbered frames beside the turn, no number names   *)
(* two frames of the log; and never does a frame reach a client twice,      *)
(* however its connections break and resume from its cursor.                *)
THEOREM FramesComeOnce == FramesSpec => []EachFrameOnce
<1>1. IInv => EachFrameOnce
  BY DeliveredOnce DEF IInv, EachFrameOnce
<1> QED BY <1>1, Inductive, PTL

(* A client told that the run is over has read every frame of the stream    *)
(* that was in the log when the record turned terminal, over all its        *)
(* connections: replay, live tail and the last read of the drain leave no   *)
(* gap between them.                                                        *)
THEOREM ToldHaveAll == FramesSpec => []DoneIsComplete
<1>1. IInv => DoneIsComplete
  <2>1. \A s \in Sub : Members(client[s].has) = Has(s)
    BY DEF Members, Has
  <2>2. owed \subseteq Due
    BY DEF Due
  <2> QED BY <2>1, <2>2 DEF IInv, DuesAreMet, DoneIsComplete
<1> QED BY <1>1, Inductive, PTL

(* A client told of the end of a run that was swept after a crash has read  *)
(* the turn_done frame of the sweep, also behind a torn line.               *)
THEOREM SweptAreTold == FramesSpec => []SweptRunsAreClosed
<1>1. IInv => SweptRunsAreClosed
  <2>1. \A s \in Sub : Members(client[s].has) = Has(s)
    BY DEF Members, Has
  <2>2. ~shut /\ (\E i \in 1 .. Len(log) : log[i].frame.kind = "final") =>
          TurnDoneFrame \in Due
    BY DEF Due, HasFinal
  <2> QED BY <2>1, <2>2 DEF IInv, DuesAreMet, SweptRunsAreClosed
<1> QED BY <1>1, Inductive, PTL

(* Both: no follower is told of an end without what it should have seen.    *)
THEOREM ToldIsServed == FramesSpec => []FollowersHaveAll
<1>1. DoneIsComplete /\ SweptRunsAreClosed => FollowersHaveAll
  BY DEF FollowersHaveAll
<1> QED BY <1>1, ToldHaveAll, SweptAreTold, PTL

=============================================================================
