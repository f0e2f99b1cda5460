-------------------------- MODULE TranscriptProofs --------------------------
(***************************************************************************)
(* Theorems about what becomes of messages, for any number of them.        *)
(* MessageTimes: for any number of turns and failures a message keeps its  *)
(* time.  What a file says of a message is what its last line says, and    *)
(* each way the file is written keeps that line, or puts one more in its   *)
(* place.                                                                  *)
(* StreamCoalescer: for any frames and flushes nothing is lost or doubled. *)
(* Each step appends a frame to what waits, or changes the one frame of    *)
(* its key, and what the frames tell of a text is read off the parts.      *)
(* ChatResponse: for any frames of a turn the stream and the body agree.   *)
(* While the turn is open the body's messages are those written and the    *)
(* text that is held back.                                                 *)
(* TextSplitter: for any tags and any cuts the client has what it would    *)
(* have of the whole message.  What was written behind the last block      *)
(* given is what the splitter went through and what it holds, no tag can   *)
(* begin in what it let through, and a message is split block by block.    *)
(***************************************************************************)
EXTENDS MessageTimes, StreamCoalescer, ChatResponse, TextSplitter,
        FiniteSetTheorems, SequenceTheorems, WellFoundedInduction, TLAPS

-----------------------------------------------------------------------------
(* Numbers and sequences *)

(* A set of naturals that is not empty has a least element.                 *)
LEMMA LeastNumber ==
  ASSUME NEW Q \in SUBSET Nat, Q # {}
  PROVE  \E m \in Q : \A q \in Q : m <= q
<1>1. PICK m \in Q : \A q \in Q : ~(<<q, m>> \in OpToRel(<, Nat))
  BY NatLessThanWellFounded, WFMin
<1>2. \A q \in Q : ~(q < m)
  BY <1>1 DEF OpToRel
<1> QED
  BY <1>2

(* A bounded one has a greatest, and Max chooses it.                        *)
LEMMA BoundedHasMax ==
  ASSUME NEW Q \in SUBSET Nat, Q # {}, NEW n \in Nat, \A q \in Q : q <= n
  PROVE  Max(Q) \in Q /\ \A q \in Q : Max(Q) >= q
<1> DEFINE Above == {k \in Nat : \A q \in Q : q <= k}
<1>1. PICK k \in Above : \A l \in Above : k <= l
  <2>1. n \in Above /\ Above \in SUBSET Nat
    OBVIOUS
  <2> HIDE DEF Above
  <2> QED
    BY <2>1, LeastNumber
<1>2. k \in Q
  <2> SUFFICES ASSUME k \notin Q PROVE FALSE
    OBVIOUS
  <2>1. \A q \in Q : q < k
    BY <1>1
  <2>2. k # 0
    <3>1. PICK q \in Q : q < k
      BY <2>1
    <3> QED
      BY <3>1
  <2>3. k - 1 \in Above
    BY <1>1, <2>1, <2>2
  <2> QED
    BY <1>1, <2>3
<1> QED
  BY <1>1, <1>2 DEF Max

(* A function may be given by its first value and by a rule that makes each *)
(* value of the one before.                                                 *)
Follows(f, n, e, rule) ==
  f[0] = e /\ \A i \in 1..n : f[i] = rule[<<i, f[i - 1]>>]

LEMMA Recursion ==
  ASSUME NEW n \in Nat, NEW T, NEW e \in T, NEW rule \in [(1..n) \X T -> T]
  PROVE  \E f \in [0..n -> T] : Follows(f, n, e, rule)
<1> USE DEF Follows
<1> DEFINE Upto(f, k) == Follows(f, k, e, rule)
    Bad == {k \in 0..n : ~\E f \in [0..k -> T] : Upto(f, k)}
<1>1. ASSUME Bad # {} PROVE FALSE
  <2>1. PICK k \in Bad : \A l \in Bad : k <= l
    <3>1. Bad \in SUBSET Nat
      OBVIOUS
    <3> HIDE DEF Bad
    <3> QED
      BY <1>1, <3>1, LeastNumber
  <2>2. k # 0
    <3> DEFINE f == [i \in 0..0 |-> e]
    <3>1. f \in [0..0 -> T] /\ Upto(f, 0)
      OBVIOUS
    <3> QED
      BY <3>1, <2>1
  <2>3. k - 1 \in 0..n /\ k - 1 \notin Bad
    BY <2>1, <2>2
  <2>4. PICK g \in [0..(k - 1) -> T] : Upto(g, k - 1)
    BY <2>3
  <2> DEFINE h == [i \in 0..k |->
                     IF i = k THEN rule[<<k, g[k - 1]>>] ELSE g[i]]
  <2>5. h \in [0..k -> T]
    <3>1. g[k - 1] \in T /\ <<k, g[k - 1]>> \in (1..n) \X T
      BY <2>2, <2>3, <2>4
    <3>2. rule[<<k, g[k - 1]>>] \in T
      BY <3>1
    <3> QED
      BY <3>2, <2>4
  <2>6. h[0] = e
    BY <2>2, <2>3, <2>4
  <2>7. \A i \in 1..k : h[i] = rule[<<i, h[i - 1]>>]
    <3> TAKE i \in 1..k
    <3>1. CASE i = k
      <4>1. k \in 0..k /\ k - 1 \in 0..k /\ k - 1 # k
        BY <3>1, <2>2, <2>3
      <4>2. h[k] = rule[<<k, g[k - 1]>>] /\ h[k - 1] = g[k - 1]
        BY <4>1
      <4> QED
        BY <4>2, <3>1
    <3>2. CASE i # k
      <4>1. i \in 1..(k - 1) /\ i - 1 # k /\ i \in 0..k /\ i - 1 \in 0..k
        BY <3>2, <2>3
      <4>2. g[i] = rule[<<i, g[i - 1]>>]
        BY <4>1, <2>4
      <4> QED
        BY <4>1, <4>2, <3>2
    <3> QED
      BY <3>1, <3>2
  <2>8. Upto(h, k)
    BY <2>6, <2>7
  <2> QED
    BY <2>1, <2>5, <2>8
<1>2. Bad = {}
  <2> HIDE DEF Bad
  <2> QED
    BY <1>1
<1>3. n \in 0..n
  OBVIOUS
<1> QED
  BY <1>2, <1>3

-----------------------------------------------------------------------------
(* Stamps *)

(* Lines that name messages of no time in map, and give them one.           *)
Stamps(map, s) ==
  /\ s \in Seq(TimeLine)
  /\ \A i \in DOMAIN s : s[i].id # 0 /\ s[i].at # 0 /\ map[s[i].id] = 0

LEMMA Times == LastTime \in Nat
BY TimesAssumption DEF LastTime

(* A stamp of a turn is a time.                                             *)
LEMMA StampIsTime ==
  ASSUME NEW b \in 0..MaxStamps, b # 0, NEW k \in Nat, k < LastMessage
  PROVE  b * LastMessage + k \in 1..LastTime
<1>1. b \in Nat /\ LastMessage \in Nat /\ MaxStamps \in Nat /\ b <= MaxStamps
      /\ LastMessage >= 1 /\ b >= 1
  BY TimesAssumption
<1>2. b * LastMessage <= MaxStamps * LastMessage
  BY <1>1
<1>3. (MaxStamps + 1) * LastMessage = MaxStamps * LastMessage + LastMessage
  BY <1>1
<1>4. b * LastMessage >= 1 /\ b * LastMessage \in Nat
      /\ MaxStamps * LastMessage \in Nat
  BY <1>1
<1> DEFINE x == b * LastMessage  y == MaxStamps * LastMessage
<1>5. x + k \in 1..(y + LastMessage)
  <2>1. x \in Nat /\ y \in Nat /\ x <= y /\ x >= 1
    BY <1>2, <1>4
  <2> HIDE DEF x, y
  <2> QED
    BY <1>1, <2>1
<1> QED
  BY <1>3, <1>5 DEF LastTime

(* One message more.                                                        *)
LEMMA StampsGrow ==
  ASSUME NEW map \in Map, NEW w \in Work, NEW m \in 1..w.seen, w.base # 0,
         NEW s, Stamps(map, s), Len(s) < m
  PROVE  /\ Stamps(map, StampOne(map, w, m, s))
         /\ Len(StampOne(map, w, m, s)) <= m
<1>1. s \in Seq(TimeLine) /\ Len(s) \in Nat /\ m \in Nat /\ m <= LastMessage
      /\ LastMessage \in Nat
  BY TimesAssumption DEF Stamps, Work
<1>2. CASE map[m] # 0
  BY <1>1, <1>2 DEF StampOne
<1>3. CASE map[m] = 0
  <2> DEFINE l == Line(m, w.base * LastMessage + Len(s))
  <2>1. w.base * LastMessage + Len(s) \in 1..LastTime
    <3>1. w.base \in 0..MaxStamps /\ Len(s) < LastMessage
      BY <1>1 DEF Work
    <3> QED
      BY <1>1, <3>1, StampIsTime
  <2>2. l \in TimeLine /\ l.id = m /\ l.at # 0
    BY <2>1, <1>1, Times DEF Line, TimeLine
  <2>3. StampOne(map, w, m, s) = Append(s, l)
    BY <1>3 DEF StampOne
  <2> HIDE DEF l
  <2> QED
    BY <1>1, <1>3, <2>2, <2>3 DEF Stamps
<1> QED
  BY <1>2, <1>3

(* Lines of any message and time, so that one more is always one of them.   *)
AnyLine == [id : Nat, at : Nat]

LEMMA StampOneTyped ==
  ASSUME NEW map, NEW w \in Work, NEW m \in Nat, NEW s \in Seq(AnyLine)
  PROVE  StampOne(map, w, m, s) \in Seq(AnyLine)
<1>1. w.base \in Nat /\ LastMessage \in Nat /\ Len(s) \in Nat
  BY TimesAssumption DEF Work
<1>2. w.base * LastMessage + Len(s) \in Nat
  BY <1>1
<1>3. Line(m, w.base * LastMessage + Len(s)) \in AnyLine
  BY <1>2 DEF Line, AnyLine
<1> QED
  BY <1>3 DEF StampOne

(* A turn stamps the messages it has listed that have no time.              *)
LEMMA NewIsStamps ==
  ASSUME NEW map \in Map, NEW w \in Work, w.seen # 0 => w.base # 0
  PROVE  /\ Stamps(map, New(map, w))
         /\ w.seen = 0 => New(map, w) = <<>>
<1> DEFINE n == w.seen
    rule == [p \in (1..n) \X Seq(AnyLine) |-> StampOne(map, w, p[1], p[2])]
    Def(f) == f = [m \in 0..n |-> IF m = 0 THEN <<>>
                                  ELSE StampOne(map, w, m, f[m - 1])]
    U == CHOOSE f : Def(f)
    Fine(m) == Stamps(map, U[m]) /\ Len(U[m]) <= m
    Bad == {m \in 0..n : ~Fine(m)}
<1>1. n \in Nat
  BY DEF Work
<1>2. rule \in [(1..n) \X Seq(AnyLine) -> Seq(AnyLine)]
  <2> SUFFICES ASSUME NEW i \in 1..n, NEW s \in Seq(AnyLine)
               PROVE  StampOne(map, w, i, s) \in Seq(AnyLine)
    OBVIOUS
  <2>1. i \in Nat
    BY <1>1
  <2> QED
    BY <2>1, StampOneTyped
<1>3. PICK f \in [0..n -> Seq(AnyLine)] : Follows(f, n, <<>>, rule)
  <2>1. <<>> \in Seq(AnyLine)
    OBVIOUS
  <2> HIDE DEF n, rule
  <2> QED
    BY <1>1, <1>2, <2>1, Recursion
<1>4. Def(f)
  <2>1. \A i \in 1..n : f[i] = StampOne(map, w, i, f[i - 1])
    <3> TAKE i \in 1..n
    <3>1. i - 1 \in 0..n
      BY <1>1
    <3>2. <<i, f[i - 1]>> \in (1..n) \X Seq(AnyLine)
      BY <3>1
    <3>3. f[i] = rule[<<i, f[i - 1]>>]
      BY <1>3 DEF Follows
    <3> QED
      BY <3>2, <3>3
  <2>2. f[0] = <<>>
    BY <1>3 DEF Follows
  <2>3. \A m \in 0..n : m = 0 \/ m \in 1..n
    BY <1>1
  <2> QED
    BY <2>1, <2>2, <2>3
<1>5. Def(U)
  BY <1>4
<1>6. New(map, w) = U[n]
  BY DEF New
<1>7. U[0] = <<>> /\ \A m \in 1..n : U[m] = StampOne(map, w, m, U[m - 1])
  <2> HIDE DEF U
  <2>1. 0 \in 0..n /\ \A m \in 1..n : m \in 0..n /\ m # 0
    BY <1>1
  <2> QED
    BY <1>5, <2>1
<1> HIDE DEF U
<1>8. Fine(0)
  BY <1>7 DEF Stamps
<1>9. ASSUME NEW m \in 1..n, Fine(m - 1) PROVE Fine(m)
  <2>1. w.base # 0 /\ Len(U[m - 1]) < m
    <3>1. Len(U[m - 1]) \in Nat
      BY <1>9 DEF Stamps
    <3> QED
      BY <1>1, <1>9, <3>1
  <2> QED
    BY <2>1, <1>7, <1>9, StampsGrow
<1>10. Bad = {}
  <2> SUFFICES ASSUME Bad # {} PROVE FALSE
    OBVIOUS
  <2>1. PICK k \in Bad : \A l \in Bad : k <= l
    <3>1. Bad \in SUBSET Nat
      BY <1>1
    <3> HIDE DEF Bad
    <3> QED
      BY <3>1, LeastNumber
  <2> HIDE DEF Fine
  <2>2. k # 0
    BY <1>8, <2>1
  <2>3. k \in 1..n /\ k - 1 \in 0..n
    BY <1>1, <2>1, <2>2
  <2>4. k - 1 \notin Bad
    BY <1>1, <2>1, <2>3
  <2>5. Fine(k - 1)
    BY <2>3, <2>4
  <2>6. Fine(k)
    BY <2>3, <2>5, <1>9
  <2> QED
    BY <2>1, <2>6
<1>11. n \in 0..n
  BY <1>1
<1>12. Fine(n)
  BY <1>10, <1>11
<1> QED
  BY <1>6, <1>7, <1>12

-----------------------------------------------------------------------------
(* What a file says of a message *)

(* The i-th line is the last one of the message.                            *)
LastOf(ls, m, i) ==
  /\ i \in DOMAIN ls /\ ls[i].id = m
  /\ \A j \in DOMAIN ls : j > i => ls[j].id # m

Says(ls, m, t) == \E i \in DOMAIN ls : LastOf(ls, m, i) /\ ls[i].at = t

Silent(ls, m) == \A i \in DOMAIN ls : ls[i].id # m

(* A line of a message has a time.                                          *)
Dated(ls) == \A i \in DOMAIN ls : ls[i].id # 0 => ls[i].at # 0

LEMMA SaysOrSilent ==
  ASSUME NEW ls \in Seq(TimeLine), NEW m
  PROVE  Silent(ls, m) \/ \E t \in 0..LastTime : Says(ls, m, t)
<1> SUFFICES ASSUME ~Silent(ls, m)
             PROVE  \E t \in 0..LastTime : Says(ls, m, t)
  OBVIOUS
<1> DEFINE of == {i \in DOMAIN ls : ls[i].id = m}
<1>1. of \in SUBSET Nat /\ of # {} /\ Len(ls) \in Nat
      /\ \A i \in of : i <= Len(ls)
  BY DEF Silent
<1>2. Max(of) \in of /\ \A i \in of : Max(of) >= i
  <2> HIDE DEF of
  <2> QED
    BY <1>1, BoundedHasMax
<1>3. PICK k \in of : \A i \in of : k >= i
  BY <1>2
<1>4. LastOf(ls, m, k)
  BY <1>3 DEF LastOf
<1>5. ls[k] \in TimeLine
  BY <1>3
<1> QED
  BY <1>4, <1>5 DEF Says, LastOf, TimeLine

LEMMA OverlaySays ==
  ASSUME NEW map \in Map, NEW ls \in Seq(TimeLine), NEW m \in Msg, NEW t,
         Says(ls, m, t)
  PROVE  Overlay(map, ls)[m] = t
<1> DEFINE of == {i \in DOMAIN ls : ls[i].id = m}
<1>1. PICK k \in DOMAIN ls : LastOf(ls, m, k) /\ ls[k].at = t
  BY DEF Says
<1>2. of \in SUBSET Nat /\ k \in of /\ k \in Nat /\ \A i \in of : i <= k
  BY <1>1 DEF LastOf
<1>3. Max(of) \in of /\ \A i \in of : Max(of) >= i
  <2> HIDE DEF of
  <2> QED
    BY <1>2, BoundedHasMax
<1>4. Max(of) = k
  <2> HIDE DEF of
  <2>1. Max(of) \in Nat
    BY <1>2, <1>3
  <2>2. Max(of) >= k /\ Max(of) <= k
    BY <1>2, <1>3
  <2> QED
    BY <1>2, <2>1, <2>2
<1>5. Overlay(map, ls)[m] = ls[Max(of)].at
  BY <1>2 DEF Overlay
<1> QED
  BY <1>1, <1>4, <1>5

LEMMA OverlaySilent ==
  ASSUME NEW map \in Map, NEW ls \in Seq(TimeLine), NEW m \in Msg,
         Silent(ls, m)
  PROVE  Overlay(map, ls)[m] = map[m]
BY DEF Overlay, Silent

LEMMA OverlayTyped ==
  ASSUME NEW map \in Map, NEW ls \in Seq(TimeLine)
  PROVE  Overlay(map, ls) \in Map
<1>1. \A m \in Msg : Overlay(map, ls)[m] \in 0..LastTime
  <2> TAKE m \in Msg
  <2>1. CASE Silent(ls, m)
    BY <2>1, OverlaySilent DEF Map
  <2>2. CASE ~Silent(ls, m)
    <3>1. PICK t \in 0..LastTime : Says(ls, m, t)
      BY <2>2, SaysOrSilent
    <3> QED
      BY <3>1, OverlaySays
  <2> QED
    BY <2>1, <2>2
<1>2. Overlay(map, ls) = [m \in Msg |-> Overlay(map, ls)[m]]
  BY DEF Overlay
<1> QED
  BY <1>1, <1>2 DEF Map

(* What a file says is a time.                                              *)
LEMMA SaysIsDated ==
  ASSUME NEW ls \in Seq(TimeLine), Dated(ls), NEW m \in Msg, NEW t,
         Says(ls, m, t)
  PROVE  t # 0
<1>1. m # 0
  BY DEF Msg
<1> QED
  BY <1>1 DEF Says, LastOf, Dated

-----------------------------------------------------------------------------
(* The lines of a map *)

LEMMA OrderExists ==
  ASSUME NEW S, IsFiniteSet(S)
  PROVE  /\ SetToSeq(S) \in [1..Cardinality(S) -> S]
         /\ \A a, b \in 1..Cardinality(S) :
              SetToSeq(S)[a] = SetToSeq(S)[b] => a = b
         /\ \A e \in S : \E i \in 1..Cardinality(S) : SetToSeq(S)[i] = e
         /\ Cardinality(S) \in Nat
<1> DEFINE n == Cardinality(S)  q == SetToSeq(S)
<1>1. n \in Nat /\ ExistsBijection(1..n, S)
  BY FS_CardinalityType
<1>2. \E f \in [1..n -> S] : IsInjective(f)
  BY <1>1 DEF ExistsBijection, Bijection, Injection, IsInjective
<1>3. q \in [1..n -> S] /\ IsInjective(q)
  BY <1>2 DEF SetToSeq
<1>4. q \in Injection(1..n, S) /\ IsFiniteSet(S)
  BY <1>3 DEF Injection
<1>5. Cardinality(1..n) = n
  BY <1>1, FS_Interval
<1>6. q \in Surjection(1..n, S)
  <2> HIDE DEF q
  <2> QED
    BY <1>4, <1>5, FS_Injection
<1> QED
  BY <1>1, <1>3, <1>6 DEF IsInjective, Surjection

(* A map has one line of each of its messages, and of no other.             *)
LEMMA LinesOfSay ==
  ASSUME NEW map \in Map
  PROVE  /\ LinesOf(map) \in Seq(TimeLine) /\ Dated(LinesOf(map))
         /\ \A m \in Msg : IF map[m] # 0 THEN Says(LinesOf(map), m, map[m])
                                         ELSE Silent(LinesOf(map), m)
<1> DEFINE S == {Line(m, map[m]) : m \in Stamped(map)}
    f == [m \in Stamped(map) |-> Line(m, map[m])]
    ls == LinesOf(map)
    n == Cardinality(S)
<1>1. IsFiniteSet(Stamped(map))
  <2>1. IsFiniteSet(Msg) /\ Stamped(map) \in SUBSET Msg
    BY TimesAssumption, FS_Interval DEF Msg, Stamped
  <2> QED
    BY <2>1, FS_Subset
<1>2. IsFiniteSet(S)
  <2>1. f \in Surjection(Stamped(map), S)
    BY DEF Surjection
  <2> QED
    BY <1>1, <2>1, FS_Surjection
<1>3. ls = SetToSeq(S)
  BY DEF LinesOf
<1>4. /\ ls \in [1..n -> S] /\ n \in Nat
      /\ \A a, b \in 1..n : ls[a] = ls[b] => a = b
      /\ \A e \in S : \E i \in 1..n : ls[i] = e
  <2> HIDE DEF S, ls
  <2> QED
    BY <1>2, <1>3, OrderExists
<1>5. \A e \in S : /\ e \in TimeLine /\ e.id # 0 /\ e.at # 0
                   /\ e.id \in Msg /\ map[e.id] # 0
                   /\ e = Line(e.id, map[e.id])
  BY TimesAssumption, Times DEF Stamped, Line, TimeLine, Map, Msg
<1> HIDE DEF S, n, ls
<1>6. ls \in [1..n -> TimeLine]
  BY <1>4, <1>5
<1>7. ls \in Seq(TimeLine) /\ DOMAIN ls = 1..n
  BY <1>4, <1>6
<1>8. \A i \in DOMAIN ls : ls[i] \in S
  BY <1>4, <1>7
<1>9. Dated(ls)
  BY <1>5, <1>8 DEF Dated
<1>10. ASSUME NEW m \in Msg, map[m] # 0 PROVE Says(ls, m, map[m])
  <2>1. Line(m, map[m]) \in S
    BY <1>10 DEF S, Stamped
  <2>2. PICK i \in 1..n : ls[i] = Line(m, map[m])
    BY <1>4, <2>1
  <2>3. \A j \in DOMAIN ls : ls[j].id = m => j = i
    <3> TAKE j \in DOMAIN ls
    <3> HAVE ls[j].id = m
    <3>1. ls[j] = Line(m, map[m])
      BY <1>5, <1>8
    <3> QED
      BY <1>4, <1>7, <2>2, <3>1
  <2>4. i \in DOMAIN ls /\ ls[i].id = m /\ ls[i].at = map[m] /\ i \in Nat
    BY <1>7, <2>2 DEF Line
  <2>5. \A j \in DOMAIN ls : j > i => ls[j].id # m
    BY <2>3, <2>4
  <2> QED
    BY <2>4, <2>5 DEF Says, LastOf
<1>11. ASSUME NEW m \in Msg, map[m] = 0 PROVE Silent(ls, m)
  BY <1>5, <1>8, <1>11 DEF Silent
<1> QED
  BY <1>7, <1>9, <1>10, <1>11 DEF ls

-----------------------------------------------------------------------------
(* Appended lines *)

(* Where the lines come to stand: k of the old ones and as many of the new  *)
(* are run together.                                                        *)
Joined(ls, new, file, k) ==
  /\ k = 1 => Len(ls) >= 1 /\ ls[Len(ls)].id = 0 /\ file[Len(ls)].id = 0
  /\ Len(file) = Len(ls) + Len(new) - k
  /\ \A i \in 1..(Len(ls) - k) : file[i] = ls[i]
  /\ \A j \in (1 + k)..Len(new) : file[Len(ls) + j - k] = new[j]

LEMMA Concatenated ==
  ASSUME NEW T, NEW a \in Seq(T), NEW b \in Seq(T)
  PROVE  /\ a \o b \in Seq(T) /\ Len(a \o b) = Len(a) + Len(b)
         /\ \A i \in 1..Len(a) : (a \o b)[i] = a[i]
         /\ \A i \in 1..Len(b) : (a \o b)[Len(a) + i] = b[i]
OBVIOUS

LEMMA FrontKept ==
  ASSUME NEW T, NEW a \in Seq(T), NEW n \in Nat, n <= Len(a)
  PROVE  /\ SubSeq(a, 1, n) \in Seq(T) /\ Len(SubSeq(a, 1, n)) = n
         /\ \A i \in 1..n : SubSeq(a, 1, n)[i] = a[i]
OBVIOUS

LEMMA AppendedShape ==
  ASSUME NEW ls \in Seq(TimeLine), NEW new \in Seq(TimeLine), new # <<>>
  PROVE  /\ AppendedTo(ls, new) \in Seq(TimeLine)
         /\ \E k \in {0, 1} : Joined(ls, new, AppendedTo(ls, new), k)
<1> DEFINE file == AppendedTo(ls, new)
<1>1. Len(ls) \in Nat /\ Len(new) \in Nat /\ Len(new) >= 1
  OBVIOUS
<1>2. CASE ls # <<>> /\ ls[Len(ls)] = Torn
  <2> DEFINE n == Len(ls) - 1
      head == SubSeq(ls, 1, n)
      glued == IF new[1] = Torn THEN Torn ELSE Garbled
      front == head \o <<glued>>
      back == Tail(new)
  <2>1. file = front \o back
    BY <1>2 DEF AppendedTo
  <2>2. n \in Nat /\ n <= Len(ls) /\ Len(ls) = n + 1
    BY <1>1, <1>2
  <2>3. head \in Seq(TimeLine) /\ Len(head) = n
        /\ \A i \in 1..n : head[i] = ls[i]
    <3> HIDE DEF n
    <3> QED
      BY <2>2, FrontKept
  <2>4. glued \in TimeLine /\ glued.id = 0
    BY Times, TimesAssumption, StampIsTime, <1>1
       DEF Torn, Garbled, Line, TimeLine, LastTime
  <2>5. ls[n + 1].id = 0
    BY <1>2, <2>2 DEF Torn, Line
  <2>6. back \in Seq(TimeLine) /\ Len(back) = Len(new) - 1
        /\ \A i \in 1..(Len(new) - 1) : back[i] = new[i + 1]
    BY <1>1
  <2> HIDE DEF n, head, glued, back, file
  <2>7. front \in Seq(TimeLine) /\ Len(front) = n + 1 /\ front[n + 1] = glued
        /\ \A i \in 1..n : front[i] = head[i]
    BY <2>2, <2>3, <2>4
  <2> HIDE DEF front
  <2>8. /\ file \in Seq(TimeLine) /\ Len(file) = Len(front) + Len(back)
        /\ \A i \in 1..Len(front) : file[i] = front[i]
        /\ \A i \in 1..Len(back) : file[Len(front) + i] = back[i]
    <3>1. front \in Seq(TimeLine) /\ back \in Seq(TimeLine)
      BY <2>6, <2>7
    <3> QED
      BY <2>1, <3>1, Concatenated
  <2>9. \A j \in 2..Len(new) : file[n + 1 + j - 1] = new[j]
    <3> TAKE j \in 2..Len(new)
    <3>1. j - 1 \in 1..(Len(new) - 1) /\ (j - 1) + 1 = j
          /\ (n + 1) + (j - 1) = n + 1 + j - 1
      BY <1>1, <2>2
    <3>2. file[(n + 1) + (j - 1)] = back[j - 1] /\ back[j - 1] = new[j]
      BY <2>6, <2>7, <2>8, <3>1
    <3> QED
      BY <3>1, <3>2
  <2>10. file[n + 1].id = 0 /\ \A i \in 1..n : file[i] = ls[i]
    <3>1. \A i \in 1..(n + 1) : file[i] = front[i]
      BY <2>7, <2>8
    <3>2. \A i \in 1..n : i \in 1..(n + 1)
      BY <2>2
    <3>3. n + 1 \in 1..(n + 1)
      BY <2>2
    <3> QED
      BY <2>3, <2>4, <2>7, <3>1, <3>2, <3>3
  <2>11. Len(file) = Len(ls) + Len(new) - 1
    BY <1>1, <2>2, <2>6, <2>7, <2>8
  <2>12. Joined(ls, new, file, 1)
    <3>1. Len(ls) >= 1 /\ Len(ls) - 1 = n /\ 1 + 1 = 2 /\ Len(ls) = n + 1
      BY <2>2
    <3> QED
      BY <3>1, <2>5, <2>9, <2>10, <2>11 DEF Joined
  <2> QED
    BY <2>8, <2>12 DEF file
<1>3. CASE ~(ls # <<>> /\ ls[Len(ls)] = Torn)
  <2>1. file = ls \o new
    BY <1>3 DEF AppendedTo
  <2> HIDE DEF file
  <2>2. /\ file \in Seq(TimeLine) /\ Len(file) = Len(ls) + Len(new)
        /\ \A i \in 1..Len(ls) : file[i] = ls[i]
        /\ \A j \in 1..Len(new) : file[Len(ls) + j] = new[j]
    BY <2>1, Concatenated
  <2>3. Len(ls) - 0 = Len(ls) /\ 1 + 0 = 1
        /\ Len(ls) + Len(new) - 0 = Len(ls) + Len(new)
        /\ \A j \in 1..Len(new) : Len(ls) + j - 0 = Len(ls) + j
    BY <1>1
  <2>4. Joined(ls, new, file, 0)
    <3>1. \A i \in 1..(Len(ls) - 0) : file[i] = ls[i]
      BY <2>2, <2>3
    <3>2. \A j \in (1 + 0)..Len(new) : file[Len(ls) + j - 0] = new[j]
      <4> TAKE j \in (1 + 0)..Len(new)
      <4>1. j \in 1..Len(new)
        BY <2>3
      <4>2. file[Len(ls) + j] = new[j] /\ Len(ls) + j - 0 = Len(ls) + j
        BY <2>2, <2>3, <4>1
      <4> QED
        BY <4>2
    <3> QED
      BY <2>2, <2>3, <3>1, <3>2 DEF Joined
  <2> QED
    BY <2>2, <2>4 DEF file
<1> QED
  BY <1>2, <1>3

(* An append keeps what the file says of a message it does not name.        *)
LEMMA AppendKeeps ==
  ASSUME NEW ls \in Seq(TimeLine), NEW new \in Seq(TimeLine), new # <<>>,
         NEW m \in Msg, Silent(new, m)
  PROVE  /\ Silent(ls, m) => Silent(AppendedTo(ls, new), m)
         /\ \A t : Says(ls, m, t) => Says(AppendedTo(ls, new), m, t)
<1> DEFINE file == AppendedTo(ls, new)
<1>1. file \in Seq(TimeLine)
  BY AppendedShape
<1>2. PICK k \in {0, 1} : Joined(ls, new, file, k)
  BY AppendedShape
<1> HIDE DEF file
<1>3. Len(ls) \in Nat /\ Len(new) \in Nat /\ Len(file) \in Nat /\ m # 0
      /\ DOMAIN ls = 1..Len(ls) /\ DOMAIN new = 1..Len(new)
      /\ DOMAIN file = 1..Len(file)
  BY <1>1 DEF Msg
<1>4. ASSUME NEW i \in DOMAIN file, file[i].id = m
      PROVE  i \in DOMAIN ls /\ file[i] = ls[i] /\ i <= Len(ls) - k
  <2>1. CASE i \in 1..(Len(ls) - k)
    BY <1>2, <1>3, <2>1 DEF Joined
  <2>2. CASE k = 1 /\ i = Len(ls)
    BY <1>2, <1>3, <1>4, <2>2 DEF Joined
  <2>3. CASE i > Len(ls)
    <3> DEFINE j == i - Len(ls) + k
    <3>1. j \in (1 + k)..Len(new) /\ Len(ls) + j - k = i
      BY <1>2, <1>3, <2>3 DEF Joined
    <3>2. file[i] = new[j] /\ j \in DOMAIN new
      BY <1>2, <1>3, <3>1 DEF Joined
    <3> QED
      BY <1>4, <3>2 DEF Silent
  <2> QED
    BY <1>2, <1>3, <2>1, <2>2, <2>3
<1>5. Silent(ls, m) => Silent(file, m)
  BY <1>4 DEF Silent
<1>6. ASSUME NEW t, Says(ls, m, t) PROVE Says(file, m, t)
  <2>1. PICK i \in DOMAIN ls : LastOf(ls, m, i) /\ ls[i].at = t
    BY <1>6 DEF Says
  <2>2. ls[i].id = m /\ i \in 1..Len(ls)
    BY <1>3, <2>1 DEF LastOf
  <2>3. i \in 1..(Len(ls) - k)
    BY <1>2, <1>3, <2>2 DEF Joined
  <2>4. i \in DOMAIN file /\ file[i] = ls[i]
    BY <1>2, <1>3, <2>3 DEF Joined
  <2>5. \A j \in DOMAIN file : j > i => file[j].id # m
    BY <1>4, <2>1 DEF LastOf
  <2> QED
    BY <2>2, <2>1, <2>4, <2>5 DEF Says, LastOf
<1> QED
  BY <1>5, <1>6 DEF file

(* It puts the last of its own lines of a message over them, unless that is *)
(* the one line a torn line swallows.                                       *)
LEMMA AppendAdds ==
  ASSUME NEW ls \in Seq(TimeLine), NEW new \in Seq(TimeLine), new # <<>>,
         NEW m \in Msg, NEW t, Says(new, m, t), Silent(ls, m)
  PROVE  Says(AppendedTo(ls, new), m, t) \/ Silent(AppendedTo(ls, new), m)
<1> DEFINE file == AppendedTo(ls, new)
<1>1. file \in Seq(TimeLine)
  BY AppendedShape
<1>2. PICK k \in {0, 1} : Joined(ls, new, file, k)
  BY AppendedShape
<1> HIDE DEF file
<1>3. Len(ls) \in Nat /\ Len(new) \in Nat /\ Len(file) \in Nat /\ m # 0
      /\ DOMAIN ls = 1..Len(ls) /\ DOMAIN new = 1..Len(new)
      /\ DOMAIN file = 1..Len(file)
  BY <1>1 DEF Msg
<1>4. PICK n \in DOMAIN new : LastOf(new, m, n) /\ new[n].at = t
  BY DEF Says
<1>5. ASSUME NEW i \in DOMAIN file, file[i].id = m
      PROVE  \E j \in (1 + k)..Len(new) :
               /\ i = Len(ls) + j - k /\ file[i] = new[j] /\ j <= n
  <2>1. i \notin 1..(Len(ls) - k)
    BY <1>2, <1>3, <1>5 DEF Joined, Silent
  <2>2. ~(k = 1 /\ i = Len(ls))
    BY <1>2, <1>3, <1>5 DEF Joined
  <2>3. PICK j \in (1 + k)..Len(new) : Len(ls) + j - k = i
    <3>1. i - Len(ls) + k \in (1 + k)..Len(new)
          /\ Len(ls) + (i - Len(ls) + k) - k = i
      BY <1>2, <1>3, <2>1, <2>2 DEF Joined
    <3> QED
      BY <3>1
  <2>4. file[i] = new[j] /\ j \in DOMAIN new /\ new[j].id = m
    BY <1>2, <1>3, <1>5, <2>3 DEF Joined
  <2>5. j <= n
    BY <1>3, <1>4, <2>4 DEF LastOf
  <2> QED
    BY <2>3, <2>4, <2>5
<1>6. CASE n > k
  <2> DEFINE i == Len(ls) + n - k
  <2>1. n \in (1 + k)..Len(new) /\ i \in DOMAIN file /\ file[i] = new[n]
    <3>1. n \in (1 + k)..Len(new)
      BY <1>3, <1>6
    <3>2. i \in 1..(Len(ls) + Len(new) - k)
      BY <1>3, <3>1
    <3> QED
      BY <1>2, <1>3, <3>1, <3>2 DEF Joined
  <2>2. file[i].id = m /\ file[i].at = t
    BY <1>4, <2>1 DEF LastOf
  <2>3. \A j \in DOMAIN file : j > i => file[j].id # m
    BY <1>3, <1>5
  <2>4. LastOf(file, m, i)
    BY <2>1, <2>2, <2>3 DEF LastOf
  <2>5. Says(file, m, t)
    BY <2>1, <2>2, <2>4 DEF Says
  <2> QED
    BY <2>5 DEF file
<1>7. CASE n <= k
  <2>1. \A i \in DOMAIN file : file[i].id # m
    BY <1>3, <1>5, <1>7
  <2> QED
    BY <2>1 DEF file, Silent
<1> QED
  BY <1>3, <1>6, <1>7

(* Appended lines are dated if they were.                                   *)
LEMMA AppendDated ==
  ASSUME NEW ls \in Seq(TimeLine), NEW new \in Seq(TimeLine), new # <<>>,
         Dated(ls), Dated(new)
  PROVE  Dated(AppendedTo(ls, new))
<1> DEFINE file == AppendedTo(ls, new)
<1>1. file \in Seq(TimeLine)
  BY AppendedShape
<1>2. PICK k \in {0, 1} : Joined(ls, new, file, k)
  BY AppendedShape
<1> HIDE DEF file
<1>3. Len(ls) \in Nat /\ Len(new) \in Nat /\ Len(file) \in Nat
      /\ DOMAIN ls = 1..Len(ls) /\ DOMAIN new = 1..Len(new)
      /\ DOMAIN file = 1..Len(file)
  BY <1>1
<1>4. ASSUME NEW i \in DOMAIN file, file[i].id # 0 PROVE file[i].at # 0
  <2>1. CASE i \in 1..(Len(ls) - k)
    BY <1>2, <1>3, <1>4, <2>1 DEF Joined, Dated
  <2>2. CASE k = 1 /\ i = Len(ls)
    BY <1>2, <1>3, <1>4, <2>2 DEF Joined
  <2>3. CASE i > Len(ls)
    <3> DEFINE j == i - Len(ls) + k
    <3>1. j \in (1 + k)..Len(new) /\ Len(ls) + j - k = i
      BY <1>2, <1>3, <2>3 DEF Joined
    <3>2. file[i] = new[j] /\ j \in DOMAIN new
      BY <1>2, <1>3, <3>1 DEF Joined
    <3> QED
      BY <1>4, <3>2 DEF Dated
  <2> QED
    BY <1>2, <1>3, <2>1, <2>2, <2>3
<1> QED
  BY <1>4 DEF file, Dated

-----------------------------------------------------------------------------
(* Files that say as much as before *)

(* The file says of m what it said.                                         *)
SaysAgain(ls, file, m) ==
  /\ Silent(ls, m) => Silent(file, m)
  /\ \A t : Says(ls, m, t) => Says(file, m, t)

LEMMA SameOverlay ==
  ASSUME NEW map \in Map, NEW ls \in Seq(TimeLine), NEW file \in Seq(TimeLine),
         NEW m \in Msg, SaysAgain(ls, file, m)
  PROVE  Overlay(map, file)[m] = Overlay(map, ls)[m]
<1>1. CASE Silent(ls, m)
  BY <1>1, OverlaySilent DEF SaysAgain
<1>2. CASE ~Silent(ls, m)
  <2>1. PICK t \in 0..LastTime : Says(ls, m, t)
    BY <1>2, SaysOrSilent
  <2>2. Says(file, m, t)
    BY <2>1 DEF SaysAgain
  <2>3. Overlay(map, ls)[m] = t
    BY <2>1, OverlaySays
  <2>4. Overlay(map, file)[m] = t
    BY <2>2, OverlaySays
  <2> QED
    BY <2>3, <2>4
<1> QED
  BY <1>1, <1>2

(* So does a file after an append that failed, of a message it was not      *)
(* about.                                                                   *)
LEMMA PartlyKeeps ==
  ASSUME NEW ls \in Seq(TimeLine), NEW new \in Seq(TimeLine),
         Dated(ls), Dated(new), NEW file \in Partly(ls, new)
  PROVE  /\ file \in Seq(TimeLine) /\ Dated(file)
         /\ \A m \in Msg : Silent(new, m) => SaysAgain(ls, file, m)
<1>1. CASE file = ls
  BY <1>1 DEF SaysAgain
<1>2. CASE file # ls
  <2>1. PICK n \in 0..(Len(new) - 1) :
          file = AppendedTo(ls, SubSeq(new, 1, n) \o <<Torn>>)
    BY <1>2 DEF Partly
  <2> DEFINE head == SubSeq(new, 1, n)  cut == head \o <<Torn>>
  <2>2. n \in Nat /\ n <= Len(new) /\ Len(new) \in Nat
        /\ DOMAIN new = 1..Len(new)
    OBVIOUS
  <2>3. /\ head \in Seq(TimeLine) /\ Len(head) = n
        /\ \A i \in 1..n : head[i] = new[i]
    BY <2>2, FrontKept
  <2>4. Torn \in TimeLine /\ Torn.id = 0
    BY Times, TimesAssumption DEF Torn, Line, TimeLine
  <2> HIDE DEF head
  <2>5. /\ cut \in Seq(TimeLine) /\ Len(cut) = n + 1 /\ cut[n + 1] = Torn
        /\ \A i \in 1..n : cut[i] = head[i]
    <3> DEFINE end == <<Torn>>
    <3>1. end \in Seq(TimeLine) /\ Len(end) = 1 /\ end[1] = Torn
      BY <2>4
    <3> HIDE DEF end
    <3>2. /\ head \o end \in Seq(TimeLine)
          /\ Len(head \o end) = Len(head) + Len(end)
          /\ \A i \in 1..Len(head) : (head \o end)[i] = head[i]
          /\ \A i \in 1..Len(end) : (head \o end)[Len(head) + i] = end[i]
      <4>1. head \in Seq(TimeLine) /\ end \in Seq(TimeLine)
        BY <2>3, <3>1
      <4> QED
        BY <4>1, Concatenated
    <3>3. cut = head \o end /\ 1 \in 1..Len(end)
      BY <3>1 DEF end
    <3> QED
      BY <2>2, <2>3, <3>1, <3>2, <3>3
  <2> HIDE DEF cut
  <2>6. \A i \in DOMAIN cut :
          cut[i] = Torn \/ (i \in DOMAIN new /\ cut[i] = new[i])
    <3> TAKE i \in DOMAIN cut
    <3>1. i \in 1..n \/ i = n + 1
      BY <2>2, <2>5
    <3>2. i \in 1..n => i \in DOMAIN new
      BY <2>2
    <3>3. CASE i \in 1..n
      BY <2>3, <2>5, <3>2, <3>3
    <3>4. CASE i = n + 1
      BY <2>5, <3>4
    <3> QED
      BY <3>1, <3>3, <3>4
  <2>7. Dated(cut) /\ cut # <<>>
    BY <2>2, <2>4, <2>5, <2>6 DEF Dated
  <2>8. file = AppendedTo(ls, cut)
    BY <2>1 DEF cut, head
  <2>9. \A m \in Msg : Silent(new, m) => Silent(cut, m)
    BY <2>4, <2>6 DEF Silent, Msg
  <2>10. file \in Seq(TimeLine)
    BY <2>5, <2>7, <2>8, AppendedShape
  <2>11. Dated(file)
    BY <2>5, <2>7, <2>8, AppendDated
  <2>12. \A m \in Msg : Silent(new, m) => SaysAgain(ls, file, m)
    <3> TAKE m \in Msg
    <3> HAVE Silent(new, m)
    <3>1. Silent(cut, m)
      BY <2>9
    <3> QED
      BY <2>5, <2>7, <2>8, <3>1, AppendKeeps DEF SaysAgain
  <2> QED
    BY <2>10, <2>11, <2>12
<1> QED
  BY <1>1, <1>2

-----------------------------------------------------------------------------
(* The invariant *)

(* The second map has the times of the first.                               *)
Keeps(old, map) == \A m \in Msg : old[m] # 0 => map[m] = old[m]

(* Stamps that are on their way to the disk are of messages it has no time  *)
(* of, and in the map in memory.                                            *)
Ready(disk, w) ==
  /\ Stamps(disk, w.new) /\ Keeps(disk, w.map)
  /\ \A m \in Msg : \A t : Says(w.new, m, t) => w.map[m] = t

(* The lines name the messages of the old map.                              *)
Replaced(old, ls) == \A m \in Msg : old[m] # 0 => ~Silent(ls, m)

(* The steps of a turn that has stamped a message.                          *)
Telling == {"write", "unlink", "bump", "bumped"}

WorkShape(jobs) ==
  /\ jobs \in [{"turn", "get"} -> Work]
  /\ \A a \in {"turn", "get"} : Dated(jobs[a].new)
  /\ jobs["get"].step \notin Telling /\ jobs["get"].seen = 0
  /\ jobs["turn"].seen # 0 => jobs["turn"].base # 0
  /\ jobs["turn"].step \in Telling => jobs["turn"].new # <<>>

TimesShape == TimesTypeOK /\ Dated(lines) /\ WorkShape(work)

TimesKept ==
  /\ first = DiskTimes
  /\ cache # NoMap => Keeps(DiskTimes, cache)
  /\ work["turn"].step = "write" =>
       Ready(DiskTimes, work["turn"]) /\ cache = work["turn"].map
  /\ work["turn"].step = "unlink" => Replaced(OldMap(legacy), lines)

TimesInv == TimesShape /\ (~strayed => TimesKept)

LEMMA UnstampedIsMap == Unstamped \in Map
BY Times DEF Unstamped, Map

LEMMA NoMapIsNone == \A map \in Map : map # NoMap
<1> SUFFICES ASSUME NEW map \in Map, map = NoMap PROVE FALSE
  OBVIOUS
<1>1. DOMAIN map = Msg /\ DOMAIN map = {}
  BY DEF Map, NoMap
<1>2. 1 \in Msg
  BY TimesAssumption DEF Msg
<1> QED
  BY <1>1, <1>2

LEMMA OldMapTyped ==
  ASSUME NEW file \in Map \cup {NoMap} PROVE OldMap(file) \in Map
BY UnstampedIsMap DEF OldMap

LEMMA DiskTyped ==
  ASSUME TimesTypeOK PROVE DiskTimes \in Map /\ OldMap(legacy) \in Map
BY OldMapTyped, OverlayTyped DEF TimesTypeOK, DiskTimes

LEMMA NoWorkFits ==
  /\ NoWork \in Work /\ NoWork.new = <<>> /\ NoWork.seen = 0
  /\ NoWork.step = "idle" /\ NoWork.base = 0
BY TimesAssumption, UnstampedIsMap DEF NoWork, Work, WorkStep

-----------------------------------------------------------------------------
(* Steps keep the shape *)

Party == {"turn", "get"}

(* A job another takes the place of.                                        *)
LEMMA JobChanges ==
  ASSUME WorkShape(work), NEW a \in Party, NEW job \in Work, Dated(job.new),
         a = "get" => job.step \notin Telling /\ job.seen = 0,
         a = "turn" => /\ job.seen # 0 => job.base # 0
                       /\ job.step \in Telling => job.new # <<>>
  PROVE  WorkShape([work EXCEPT ![a] = job])
<1> DEFINE jobs == [work EXCEPT ![a] = job]
<1>1. work \in [Party -> Work]
  BY DEF WorkShape, Party
<1>2. jobs \in [Party -> Work] /\ jobs[a] = job
      /\ \A b \in Party : b # a => jobs[b] = work[b]
  BY <1>1
<1> HIDE DEF jobs
<1>3. \A b \in Party : Dated(jobs[b].new)
  BY <1>2 DEF WorkShape, Party
<1>4. "get" \in Party /\ "turn" \in Party
  BY DEF Party
<1>5. jobs["get"].step \notin Telling /\ jobs["get"].seen = 0
  BY <1>2, <1>4 DEF WorkShape
<1>6. /\ jobs["turn"].seen # 0 => jobs["turn"].base # 0
      /\ jobs["turn"].step \in Telling => jobs["turn"].new # <<>>
  BY <1>2, <1>4 DEF WorkShape
<1>7. WorkShape(jobs)
  BY <1>2, <1>3, <1>5, <1>6 DEF WorkShape, Party
<1> QED
  BY <1>7 DEF jobs

LEMMA JobGoesOn ==
  ASSUME WorkShape(work), NEW a \in Party, NEW s \in WorkStep,
         s \in Telling => a = "turn" /\ work["turn"].step \in Telling
  PROVE  WorkShape([work EXCEPT ![a].step = s])
<1> DEFINE job == [work[a] EXCEPT !.step = s]
<1>1. work[a] \in Work /\ Dated(work[a].new)
  BY DEF WorkShape, Party
<1>2. job \in Work /\ job.new = work[a].new /\ job.seen = work[a].seen
      /\ job.base = work[a].base /\ job.step = s
  BY <1>1 DEF Work
<1>3. [work EXCEPT ![a].step = s] = [work EXCEPT ![a] = job]
  OBVIOUS
<1> HIDE DEF job
<1>4. /\ a = "get" => job.step \notin Telling /\ job.seen = 0
      /\ a = "turn" => /\ job.seen # 0 => job.base # 0
                       /\ job.step \in Telling => job.new # <<>>
  BY <1>2 DEF WorkShape, Party
<1> QED
  BY <1>1, <1>2, <1>3, <1>4, JobChanges

LEMMA JobEnds ==
  ASSUME WorkShape(work), NEW a \in Party
  PROVE  WorkShape([work EXCEPT ![a] = NoWork])
<1>1. Dated(NoWork.new) /\ "idle" \notin Telling
  BY NoWorkFits DEF Dated, Telling
<1> QED
  BY <1>1, NoWorkFits, JobChanges

(* With the map at hand, a job is over or has its stamps to write.          *)
LEMMA HaveShape ==
  ASSUME WorkShape(work), NEW a \in Party, NEW map \in Map, Have(a, map)
  PROVE  /\ cache' \in Map /\ WorkShape(work')
         /\ cache' = Overlay(map, New(map, work[a]))
         /\ Stamps(map, New(map, work[a]))
         /\ a = "get" => New(map, work[a]) = <<>>
<1> DEFINE new == New(map, work[a])  stamped == Overlay(map, new)
<1>1. work[a] \in Work /\ (work[a].seen # 0 => work[a].base # 0)
      /\ (a = "get" => work[a].seen = 0)
  BY DEF WorkShape, Party
<1>2. Stamps(map, new) /\ (a = "get" => new = <<>>)
  BY <1>1, NewIsStamps
<1>3. new \in Seq(TimeLine) /\ stamped \in Map
  BY <1>2, OverlayTyped DEF Stamps
<1>4. Dated(new)
  BY <1>2 DEF Dated, Stamps
<1>5. cache' = stamped /\ work' = [work EXCEPT ![a] =
        IF a = "get" \/ new = <<>> THEN NoWork
        ELSE [work[a] EXCEPT !.step = "write", !.map = stamped, !.new = new]]
  BY DEF Have
<1> HIDE DEF new, stamped
<1>6. CASE a = "get" \/ new = <<>>
  <2>1. work' = [work EXCEPT ![a] = NoWork]
    BY <1>5, <1>6
  <2>2. WorkShape(work')
    BY <2>1, JobEnds
  <2> QED
    BY <2>2, <1>2, <1>3, <1>5 DEF new, stamped
<1>7. CASE ~(a = "get" \/ new = <<>>)
  <2> DEFINE job == [work[a] EXCEPT !.step = "write", !.map = stamped,
                                    !.new = new]
  <2>1. work' = [work EXCEPT ![a] = job]
    BY <1>5, <1>7
  <2>2. job \in Work /\ job.new = new /\ job.seen = work[a].seen
        /\ job.base = work[a].base
    BY <1>1, <1>3 DEF Work, WorkStep
  <2> HIDE DEF job
  <2>3. WorkShape(work')
    BY <1>1, <1>4, <1>7, <2>1, <2>2, JobChanges
  <2> QED
    BY <2>3, <1>2, <1>3, <1>5 DEF new, stamped
<1> QED
  BY <1>6, <1>7

LEMMA PutTyped ==
  ASSUME NEW old \in Map, NEW ls \in Seq(TimeLine), first \in Map,
         PutLines(ls, old)
  PROVE  lines' = ls /\ first' \in Map
<1>1. Overlay(old, ls) \in Map
  BY OverlayTyped
<1> QED
  BY <1>1 DEF PutLines, Map

LEMMA ShapeInit == TimesInit => TimesShape
<1> SUFFICES ASSUME TimesInit PROVE TimesShape
  OBVIOUS
<1>1. [Unstamped EXCEPT ![1] = 1] \in Map
  <2>1. 1 \in 0..LastTime
    <3>1. LastMessage \in Nat /\ LastMessage >= 1 /\ MaxStamps \in Nat
      BY TimesAssumption
    <3>2. (MaxStamps + 1) * LastMessage = MaxStamps * LastMessage + LastMessage
          /\ MaxStamps * LastMessage \in Nat
      BY <3>1
    <3> QED
      BY <3>1, <3>2 DEF LastTime
  <2> QED
    BY <2>1, UnstampedIsMap DEF Map
<1>2. work \in [Party -> Work] /\ \A a \in Party : work[a] = NoWork
  BY NoWorkFits DEF TimesInit, Party
<1>3. "get" \in Party /\ "turn" \in Party /\ "idle" \notin Telling
  BY DEF Party, Telling
<1>4. WorkShape(work)
  BY <1>2, <1>3, NoWorkFits DEF WorkShape, Party, Dated
<1>5. lines = <<>> /\ Dated(lines) /\ lines \in Seq(TimeLine)
  BY DEF TimesInit, Dated
<1>6. TimesTypeOK
  <2>1. legacy \in Map \cup {NoMap} /\ first \in Map
    BY <1>1, UnstampedIsMap DEF TimesInit
  <2>2. msgs \in 1..LastMessage /\ stamps \in 0..MaxStamps
        /\ lastAt \in 0..LastTime /\ losses \in 0..MaxLosses
        /\ strayed \in BOOLEAN /\ cache = NoMap
    <3>1. LastMessage \in Nat /\ LastMessage >= 1 /\ MaxStamps \in Nat
          /\ MaxLosses \in Nat
      BY TimesAssumption
    <3>2. msgs = 1 /\ stamps = 0 /\ lastAt = 0 /\ losses = 0
          /\ strayed = FALSE /\ cache = NoMap
      BY DEF TimesInit
    <3>3. /\ 1 \in 1..LastMessage /\ 0 \in 0..MaxStamps
          /\ 0 \in 0..MaxLosses /\ 0 \in 0..LastTime
      BY <3>1, Times
    <3> QED
      BY <3>2, <3>3
  <2> QED
    BY <1>2, <1>5, <2>1, <2>2 DEF TimesTypeOK, Party
<1> QED
  BY <1>4, <1>5, <1>6 DEF TimesShape

LEMMA ShapeStep ==
  TimesShape /\ [TimesNext]_timesVars => TimesShape'
<1> SUFFICES ASSUME TimesShape, [TimesNext]_timesVars PROVE TimesShape'
  OBVIOUS
<1>0. /\ TimesTypeOK /\ Dated(lines) /\ WorkShape(work)
      /\ lines \in Seq(TimeLine) /\ first \in Map /\ OldMap(legacy) \in Map
  BY DiskTyped DEF TimesShape, TimesTypeOK
<1>1. \A a \in Party : work[a] \in Work /\ work[a].map \in Map
                       /\ work[a].new \in Seq(TimeLine) /\ Dated(work[a].new)
  BY <1>0 DEF WorkShape, Party, Work
<1>2. "turn" \in Party /\ "get" \in Party
      /\ {"write", "unlink", "bump", "bumped"} = Telling
      /\ {"idle", "look", "legacy", "lines", "compact", "keep"}
           \cap Telling = {}
      /\ WorkStep = Telling
           \cup {"idle", "look", "legacy", "lines", "compact", "keep"}
  BY DEF Party, Telling, WorkStep
<1>3. CASE CliWrites
  BY <1>0, <1>3, TimesAssumption
     DEF CliWrites, TimesShape, TimesTypeOK, WorkShape
<1>4. CASE StampTurn
  <2> DEFINE job == [NoWork EXCEPT !.step = "look", !.base = stamps + 1,
                                   !.seen = msgs]
  <2>1. work' = [work EXCEPT !["turn"] = job]
    BY <1>4 DEF StampTurn
  <2>2. stamps \in 0..MaxStamps /\ stamps < MaxStamps
        /\ msgs \in 1..LastMessage /\ stamps' = stamps + 1
    BY <1>0, <1>4 DEF StampTurn, TimesTypeOK
  <2>3. stamps + 1 \in 0..MaxStamps /\ stamps + 1 # 0
        /\ msgs \in 0..LastMessage
    BY <2>2, TimesAssumption
  <2>4. job \in Work /\ job.new = <<>> /\ job.step = "look"
        /\ job.base = stamps + 1
    BY <2>3, <1>2, NoWorkFits DEF Work
  <2> HIDE DEF job
  <2>5. WorkShape(work')
    <3>1. Dated(job.new) /\ job.step \notin Telling /\ job.base # 0
      BY <1>2, <2>3, <2>4 DEF Dated
    <3> QED
      BY <1>0, <1>2, <2>1, <2>4, <3>1, JobChanges
  <2> QED
    BY <1>0, <1>4, <2>2, <2>3, <2>5
       DEF StampTurn, TimesShape, TimesTypeOK, WorkShape
<1>5. CASE AskTimes
  <2>1. WorkShape(work')
    BY <1>0, <1>2, <1>5, JobGoesOn DEF AskTimes
  <2> QED
    BY <1>0, <1>5, <2>1 DEF AskTimes, TimesShape, TimesTypeOK, WorkShape
<1>6. ASSUME NEW a \in Party, LookUp(a) PROVE TimesShape'
  <2>1. cache' \in Map \cup {NoMap} /\ WorkShape(work')
    <3>1. CASE cache # NoMap
      <4>1. cache \in Map /\ Have(a, cache)
        BY <1>0, <1>6, <3>1 DEF LookUp, TimesTypeOK
      <4> QED
        BY <1>0, <4>1, HaveShape
    <3>2. CASE cache = NoMap
      <4>1. work' = [work EXCEPT ![a].step = "legacy"] /\ cache' = cache
        BY <1>6, <3>2 DEF LookUp
      <4>2. WorkShape(work')
        BY <1>0, <1>2, <4>1, JobGoesOn
      <4> QED
        BY <4>1, <4>2, <3>2
    <3> QED
      BY <3>1, <3>2
  <2> QED
    BY <1>0, <1>6, <2>1 DEF LookUp, TimesShape, TimesTypeOK, WorkShape
<1>7. ASSUME NEW a \in Party, ReadLegacy(a) PROVE TimesShape'
  <2> DEFINE job == [work[a] EXCEPT !.step = "lines", !.map = OldMap(legacy)]
  <2>1. work' = [work EXCEPT ![a] = job]
    BY <1>7 DEF ReadLegacy
  <2>2. job \in Work /\ job.new = work[a].new /\ job.seen = work[a].seen
        /\ job.base = work[a].base /\ job.step = "lines"
    BY <1>0, <1>1, <1>2 DEF Work
  <2> HIDE DEF job
  <2>3. WorkShape(work')
    BY <1>0, <1>1, <1>2, <2>1, <2>2, JobChanges DEF WorkShape
  <2> QED
    BY <1>0, <1>7, <2>3 DEF ReadLegacy, TimesShape, TimesTypeOK, WorkShape
<1>8. ASSUME NEW a \in Party, ReadLines(a) PROVE TimesShape'
  <2> DEFINE map == Overlay(work[a].map, lines)
  <2>1. PICK s \in {"compact", "keep"} :
          work' = [work EXCEPT ![a].map = map, ![a].step = s]
    BY <1>8 DEF ReadLines
  <2>2. map \in Map
    BY <1>0, <1>1, OverlayTyped
  <2> HIDE DEF map
  <2> DEFINE job == [work[a] EXCEPT !.map = map, !.step = s]
  <2>3. work' = [work EXCEPT ![a] = job]
    BY <2>1
  <2>4. job \in Work /\ job.new = work[a].new /\ job.seen = work[a].seen
        /\ job.base = work[a].base /\ job.step = s
    BY <1>1, <1>2, <2>2 DEF Work
  <2> HIDE DEF job
  <2>5. WorkShape(work')
    BY <1>0, <1>1, <1>2, <2>3, <2>4, JobChanges DEF WorkShape
  <2> QED
    BY <1>0, <1>8, <2>5 DEF ReadLines, TimesShape, TimesTypeOK, WorkShape
<1>9. ASSUME NEW a \in Party, CompactLines(a) PROVE TimesShape'
  <2>1. lines' \in Seq(TimeLine) /\ Dated(lines') /\ first' \in Map
        /\ losses' \in 0..MaxLosses /\ strayed' \in BOOLEAN
    <3>1. CASE PutLines(LinesOf(work[a].map), OldMap(legacy))
               /\ strayed' = (strayed \/ DiskTimes # work[a].map)
               /\ losses' = losses
      BY <1>0, <1>1, <3>1, LinesOfSay, PutTyped DEF TimesTypeOK
    <3>2. CASE losses < MaxLosses /\ losses' = losses + 1
               /\ lines' = lines /\ first' = first /\ strayed' = strayed
      BY <1>0, <3>2, TimesAssumption DEF TimesTypeOK
    <3> QED
      BY <1>9, <3>1, <3>2 DEF CompactLines
  <2>2. WorkShape(work')
    BY <1>0, <1>2, <1>9, JobGoesOn DEF CompactLines
  <2> QED
    BY <1>0, <1>9, <2>1, <2>2
       DEF CompactLines, TimesShape, TimesTypeOK, WorkShape
<1>10. ASSUME NEW a \in Party, Keep(a) PROVE TimesShape'
  <2>1. cache' \in Map /\ WorkShape(work')
    BY <1>0, <1>1, <1>10, HaveShape DEF Keep
  <2>2. strayed' \in BOOLEAN
    BY <1>0, <1>10 DEF Keep, TimesTypeOK
  <2> QED
    BY <1>0, <1>10, <2>1, <2>2 DEF Keep, TimesShape, TimesTypeOK, WorkShape
<1>11. CASE Persist
  <2>1. work["turn"].step \in Telling /\ work["turn"].new # <<>>
    BY <1>0, <1>2, <1>11 DEF Persist, WorkShape
  <2>2. lines' \in Seq(TimeLine) /\ Dated(lines') /\ first' \in Map
    <3>1. CASE legacy = NoMap
      <4> DEFINE file == AppendedTo(lines, work["turn"].new)
      <4>1. PutLines(file, OldMap(legacy))
        BY <1>11, <3>1 DEF Persist
      <4>2. file \in Seq(TimeLine) /\ Dated(file)
        BY <1>0, <1>1, <1>2, <2>1, AppendedShape, AppendDated
      <4> HIDE DEF file
      <4> QED
        BY <1>0, <4>1, <4>2, PutTyped
    <3>2. CASE legacy # NoMap
      <4>1. PutLines(LinesOf(work["turn"].map), OldMap(legacy))
        BY <1>11, <3>2 DEF Persist
      <4> QED
        BY <1>0, <1>1, <1>2, <4>1, LinesOfSay, PutTyped
    <3> QED
      BY <3>1, <3>2
  <2>3. WorkShape(work')
    <3>1. PICK s \in {"bump", "unlink"} :
            work' = [work EXCEPT !["turn"].step = s]
      BY <1>11 DEF Persist
    <3> QED
      BY <1>0, <1>2, <2>1, <3>1, JobGoesOn
  <2> QED
    BY <1>0, <1>11, <2>2, <2>3
       DEF Persist, TimesShape, TimesTypeOK, WorkShape
<1>12. CASE PersistFails
  <2>1. work["turn"].step \in Telling
    BY <1>2, <1>12 DEF PersistFails
  <2>2. PICK ls \in Partly(lines, work["turn"].new) \cup {lines} :
          PutLines(ls, OldMap(legacy))
    BY <1>12 DEF PersistFails
  <2>3. ls \in Seq(TimeLine) /\ Dated(ls)
    BY <1>0, <1>1, <1>2, PartlyKeeps
  <2>4. lines' \in Seq(TimeLine) /\ Dated(lines') /\ first' \in Map
    BY <1>0, <2>2, <2>3, PutTyped
  <2>5. WorkShape(work')
    BY <1>0, <1>2, <1>12, <2>1, JobGoesOn DEF PersistFails
  <2>6. losses' \in 0..MaxLosses
    BY <1>0, <1>12, TimesAssumption DEF PersistFails, TimesTypeOK
  <2> QED
    BY <1>0, <1>12, <2>4, <2>5, <2>6
       DEF PersistFails, TimesShape, TimesTypeOK, WorkShape
<1>13. CASE Unlink
  <2>1. work["turn"].step \in Telling
    BY <1>2, <1>13 DEF Unlink
  <2>2. WorkShape(work')
    BY <1>0, <1>2, <1>13, <2>1, JobGoesOn DEF Unlink
  <2>3. legacy' \in Map \cup {NoMap} /\ losses' \in 0..MaxLosses
    BY <1>0, <1>13, TimesAssumption DEF Unlink, TimesTypeOK
  <2> QED
    BY <1>0, <1>13, <2>2, <2>3 DEF Unlink, TimesShape, TimesTypeOK, WorkShape
<1>14. CASE BumpRead
  <2>1. work["turn"].step \in Telling
    BY <1>2, <1>14 DEF BumpRead
  <2>2. WorkShape(work')
    <3>1. CASE work' = [work EXCEPT !["turn"] = NoWork]
      BY <1>0, <1>2, <3>1, JobEnds
    <3>2. CASE work' = [work EXCEPT !["turn"].step = "bumped"]
      BY <1>0, <1>2, <2>1, <3>2, JobGoesOn
    <3> QED
      BY <1>14, <3>1, <3>2 DEF BumpRead
  <2> QED
    BY <1>0, <1>14, <2>2 DEF BumpRead, TimesShape, TimesTypeOK, WorkShape
<1>15. CASE BumpWrite
  <2>1. WorkShape(work')
    BY <1>0, <1>2, <1>15, JobEnds DEF BumpWrite
  <2>2. lastAt' \in 0..LastTime
    <3> DEFINE new == work["turn"].new
    <3>1. new \in Seq(TimeLine) /\ new # <<>>
      BY <1>0, <1>1, <1>2, <1>15 DEF BumpWrite, WorkShape
    <3>2. new[Len(new)] \in TimeLine
      BY <3>1
    <3> QED
      BY <1>15, <3>2 DEF BumpWrite, LastNew, TimeLine
  <2> QED
    BY <1>0, <1>15, <2>1, <2>2
       DEF BumpWrite, TimesShape, TimesTypeOK, WorkShape
<1>16. CASE CliRewrites
  BY <1>0, <1>16, Times
     DEF CliRewrites, TimesShape, TimesTypeOK, WorkShape
<1>17. CASE LoseProcess
  <2>1. PICK ls \in Partly(lines, work["turn"].new) \cup {lines} :
          PutLines(ls, OldMap(legacy))
    BY <1>17 DEF LoseProcess
  <2>2. ls \in Seq(TimeLine) /\ Dated(ls)
    BY <1>0, <1>1, <1>2, <2>1, PartlyKeeps
  <2>3. lines' \in Seq(TimeLine) /\ Dated(lines') /\ first' \in Map
    BY <1>0, <2>1, <2>2, PutTyped
  <2>4. WorkShape(work')
    <3>1. work' \in [Party -> Work] /\ \A a \in Party : work'[a] = NoWork
      BY <1>17, NoWorkFits DEF LoseProcess, Party
    <3>2. "idle" \notin Telling
      BY DEF Telling
    <3> QED
      BY <3>1, <3>2, <1>2, NoWorkFits DEF WorkShape, Party, Dated
  <2>5. losses' \in 0..MaxLosses
    BY <1>0, <1>17, TimesAssumption DEF LoseProcess, TimesTypeOK
  <2> QED
    BY <1>0, <1>17, <2>3, <2>4, <2>5
       DEF LoseProcess, TimesShape, TimesTypeOK, WorkShape
<1>18. CASE UNCHANGED timesVars
  BY <1>0, <1>18 DEF timesVars, TimesShape, TimesTypeOK, WorkShape
<1> QED
  BY <1>3, <1>4, <1>5, <1>6, <1>7, <1>8, <1>9, <1>10, <1>11, <1>12, <1>13,
     <1>14, <1>15, <1>16, <1>17, <1>18 DEF TimesNext, Party

-----------------------------------------------------------------------------
(* Steps keep the times *)

(* Two maps are equal when they have the same times.                        *)
LEMMA SameMaps ==
  ASSUME NEW f \in Map, NEW g \in Map, \A m \in Msg : f[m] = g[m]
  PROVE  f = g
BY DEF Map

(* A message the old map has a time of has one on the disk, and a message   *)
(* the disk has no time of is not named by the lines.                       *)
LEMMA OldShows ==
  ASSUME NEW old \in Map, NEW ls \in Seq(TimeLine), Dated(ls), NEW m \in Msg,
         Overlay(old, ls)[m] = 0
  PROVE  old[m] = 0 /\ Silent(ls, m)
<1>1. Silent(ls, m)
  <2> SUFFICES ASSUME ~Silent(ls, m) PROVE FALSE
    OBVIOUS
  <2>1. PICK t \in 0..LastTime : Says(ls, m, t)
    BY SaysOrSilent
  <2>2. t # 0
    BY <2>1, SaysIsDated
  <2>3. Overlay(old, ls)[m] = t
    BY <2>1, OverlaySays
  <2> QED
    BY <2>2, <2>3
<1> QED
  BY <1>1, OverlaySilent

(* A map put in lines is what the disk says then, if it has all the disk    *)
(* has said.                                                                *)
LEMMA MapOnDisk ==
  ASSUME NEW old \in Map, NEW ls \in Seq(TimeLine), Dated(ls), NEW map \in Map,
         Keeps(Overlay(old, ls), map)
  PROVE  Overlay(old, LinesOf(map)) = map /\ Replaced(old, LinesOf(map))
<1>1. LinesOf(map) \in Seq(TimeLine)
  BY LinesOfSay
<1>2. \A m \in Msg : map[m] = 0 => old[m] = 0
  BY OldShows DEF Keeps
<1>3. \A m \in Msg : Overlay(old, LinesOf(map))[m] = map[m]
  <2> TAKE m \in Msg
  <2>1. CASE map[m] # 0
    <3>1. Says(LinesOf(map), m, map[m])
      BY <2>1, LinesOfSay
    <3> QED
      BY <1>1, <3>1, OverlaySays
  <2>2. CASE map[m] = 0
    <3>1. Silent(LinesOf(map), m)
      BY <2>2, LinesOfSay
    <3> QED
      BY <1>1, <1>2, <2>2, <3>1, OverlaySilent
  <2> QED
    BY <2>1, <2>2
<1>4. Overlay(old, LinesOf(map)) \in Map
  BY <1>1, OverlayTyped
<1>5. Replaced(old, LinesOf(map))
  <2> SUFFICES ASSUME NEW m \in Msg, old[m] # 0
               PROVE  ~Silent(LinesOf(map), m)
    BY DEF Replaced
  <2>1. Says(LinesOf(map), m, map[m])
    BY <1>2, LinesOfSay
  <2> QED
    BY <2>1 DEF Says, LastOf, Silent
<1> QED
  BY <1>3, <1>4, <1>5, SameMaps

(* New lines, whole or in part, leave what the disk has said.               *)
LEMMA NewLinesKeep ==
  ASSUME NEW old \in Map, NEW ls \in Seq(TimeLine), NEW file \in Seq(TimeLine),
         NEW new, Stamps(Overlay(old, ls), new),
         \A m \in Msg : Silent(new, m) => SaysAgain(ls, file, m)
  PROVE  Keeps(Overlay(old, ls), Overlay(old, file))
<1> SUFFICES ASSUME NEW m \in Msg, Overlay(old, ls)[m] # 0
             PROVE  Overlay(old, file)[m] = Overlay(old, ls)[m]
  BY DEF Keeps
<1>1. Silent(new, m)
  BY DEF Stamps, Silent
<1> QED
  BY <1>1, SameOverlay

(* What is first written of a message stays the first.                      *)
LEMMA PutIsFirst ==
  ASSUME NEW old \in Map, NEW ls \in Seq(TimeLine), NEW d \in Map, first = d,
         PutLines(ls, old), Keeps(d, Overlay(old, ls))
  PROVE  lines' = ls /\ first' = Overlay(old, ls)
<1>1. Overlay(old, ls) \in Map
  BY OverlayTyped
<1>2. first' = [m \in Msg |-> IF d[m] # 0 THEN d[m] ELSE Overlay(old, ls)[m]]
  BY DEF PutLines
<1>3. \A m \in Msg : first'[m] = Overlay(old, ls)[m]
  BY <1>2 DEF Keeps
<1>4. first' \in Map
  BY <1>1, <1>2, <1>3 DEF Map
<1> QED
  BY <1>1, <1>3, <1>4, SameMaps DEF PutLines

(* Steps that leave the disk alone.                                         *)
LEMMA KeptQuietly ==
  ASSUME TimesKept, legacy' = legacy, lines' = lines, first' = first,
         cache' = cache,
         \/ work'["turn"] = work["turn"]
         \/ work'["turn"].step \notin {"write", "unlink"}
  PROVE  TimesKept'
<1>1. DiskTimes' = DiskTimes
  BY DEF DiskTimes
<1> QED
  BY <1>1 DEF TimesKept

(* A map that has what the disk has becomes the one in memory.              *)
LEMMA KeptHaving ==
  ASSUME TimesShape, TimesKept, NEW a \in Party, NEW map \in Map,
         Keeps(DiskTimes, map), cache \in {NoMap, map} \/ a = "turn",
         work["turn"].step # "write" \/ a = "get",
         Have(a, map),
         legacy' = legacy, lines' = lines, first' = first
  PROVE  TimesKept'
<1> DEFINE new == New(map, work[a])
<1>0. DiskTimes' = DiskTimes /\ WorkShape(work) /\ "turn" \in Party
      /\ DiskTimes \in Map /\ work \in [Party -> Work]
  BY DiskTyped DEF DiskTimes, TimesShape, Party, WorkShape
<1>1. /\ cache' \in Map
      /\ cache' = Overlay(map, new) /\ Stamps(map, new)
      /\ a = "get" => new = <<>>
  BY <1>0, HaveShape
<1>2. new \in Seq(TimeLine)
  BY <1>1 DEF Stamps
<1>3. work' = [work EXCEPT ![a] =
        IF a = "get" \/ new = <<>> THEN NoWork
        ELSE [work[a] EXCEPT !.step = "write", !.map = cache', !.new = new]]
  BY <1>1 DEF Have
<1> HIDE DEF new
<1>4. \A m \in Msg : map[m] # 0 => cache'[m] = map[m]
  <2> SUFFICES ASSUME NEW m \in Msg, map[m] # 0 PROVE cache'[m] = map[m]
    OBVIOUS
  <2>1. Silent(new, m)
    BY <1>1 DEF Stamps, Silent
  <2> QED
    BY <1>1, <1>2, <2>1, OverlaySilent
<1>5. Keeps(DiskTimes, cache')
  BY <1>4 DEF Keeps
<1>6. CASE a = "get"
  <2>1. cache' = map
    <3>1. \A m \in Msg : cache'[m] = map[m]
      <4> TAKE m \in Msg
      <4>1. Silent(new, m)
        BY <1>1, <1>6 DEF Silent
      <4> QED
        BY <1>1, <1>2, <4>1, OverlaySilent
    <3> QED
      BY <1>1, <3>1, SameMaps
  <2>2. work'["turn"] = work["turn"]
    BY <1>0, <1>3, <1>6
  <2>3. work["turn"].step = "write" => cache' = work["turn"].map
    <3> SUFFICES ASSUME work["turn"].step = "write"
                 PROVE  cache' = work["turn"].map
      OBVIOUS
    <3>1. cache = work["turn"].map /\ work["turn"].map \in Map
      BY <1>0 DEF TimesKept, Work
    <3>2. cache # NoMap
      BY <3>1, NoMapIsNone
    <3> QED
      BY <1>6, <2>1, <3>1, <3>2
  <2> QED
    BY <1>0, <1>5, <2>2, <2>3 DEF TimesKept
<1>7. CASE a = "turn" /\ new = <<>>
  <2>1. work'["turn"] = NoWork
    BY <1>0, <1>3, <1>7
  <2>2. work'["turn"].step = "idle"
    BY <2>1, NoWorkFits
  <2> QED
    BY <1>0, <1>5, <2>2 DEF TimesKept
<1>8. CASE a = "turn" /\ new # <<>>
  <2>1. work'["turn"] = [work["turn"] EXCEPT !.step = "write",
                           !.map = cache', !.new = new]
    BY <1>0, <1>3, <1>8
  <2>2. /\ work'["turn"].step = "write" /\ work'["turn"].map = cache'
        /\ work'["turn"].new = new
    BY <1>0, <2>1 DEF Work
  <2>3. Stamps(DiskTimes, new)
    <3>1. \A i \in DOMAIN new : new[i].id \in Msg
      <4> TAKE i \in DOMAIN new
      <4>1. new[i] \in TimeLine /\ new[i].id # 0
        BY <1>1, <1>2 DEF Stamps
      <4> QED
        BY <4>1, TimesAssumption DEF TimeLine, Msg
    <3>2. \A m \in Msg : map[m] = 0 => DiskTimes[m] = 0
      BY DEF Keeps
    <3> QED
      BY <1>1, <3>1, <3>2 DEF Stamps
  <2>4. \A m \in Msg : \A t : Says(new, m, t) => cache'[m] = t
    BY <1>1, <1>2, OverlaySays
  <2>5. Ready(DiskTimes, work'["turn"])
    BY <1>5, <2>2, <2>3, <2>4 DEF Ready
  <2> QED
    BY <1>0, <1>5, <2>2, <2>5 DEF TimesKept
<1> QED
  BY <1>6, <1>7, <1>8 DEF Party

(* The disk has changed, and what memory and the turn rely on still holds.  *)
LEMMA KeptPutting ==
  ASSUME TimesShape, TimesKept, NEW ls \in Seq(TimeLine),
         PutLines(ls, OldMap(legacy)), legacy' = legacy,
         Keeps(DiskTimes, Overlay(OldMap(legacy), ls)),
         cache' # NoMap => Keeps(Overlay(OldMap(legacy), ls), cache'),
         work'["turn"].step = "write" =>
           /\ Ready(Overlay(OldMap(legacy), ls), work'["turn"])
           /\ cache' = work'["turn"].map,
         work'["turn"].step = "unlink" => Replaced(OldMap(legacy), ls)
  PROVE  TimesKept'
<1>1. DiskTimes \in Map /\ OldMap(legacy) \in Map /\ first = DiskTimes
  BY DiskTyped DEF TimesShape, TimesKept
<1>2. lines' = ls /\ first' = Overlay(OldMap(legacy), ls)
  BY <1>1, PutIsFirst
<1>3. DiskTimes' = Overlay(OldMap(legacy), ls)
  BY <1>2 DEF DiskTimes
<1> QED
  BY <1>2, <1>3 DEF TimesKept

LEMMA KeptInit == TimesInit => TimesKept
<1> SUFFICES ASSUME TimesInit PROVE TimesKept
  OBVIOUS
<1>1. TimesShape
  BY ShapeInit
<1>2. OldMap(legacy) \in Map /\ lines = <<>> /\ first = OldMap(legacy)
      /\ first \in Map /\ DiskTimes \in Map
  BY <1>1, DiskTyped DEF TimesInit, OldMap, TimesShape, TimesTypeOK
<1>3. DiskTimes = first
  <2>1. \A m \in Msg : DiskTimes[m] = OldMap(legacy)[m]
    <3>1. \A m \in Msg : Silent(lines, m)
      BY <1>2 DEF Silent
    <3>2. lines \in Seq(TimeLine)
      BY <1>2
    <3> QED
      BY <1>2, <3>1, <3>2, OverlaySilent DEF DiskTimes
  <2> QED
    BY <1>2, <2>1, SameMaps
<1>4. work["turn"] = NoWork /\ cache = NoMap
  BY DEF TimesInit
<1> QED
  BY <1>3, <1>4, NoWorkFits DEF TimesKept

LEMMA KeptStep ==
  TimesShape /\ ~strayed' /\ (~strayed => TimesKept) /\ [TimesNext]_timesVars
    => TimesKept'
<1> SUFFICES ASSUME TimesShape, ~strayed', ~strayed => TimesKept,
                    [TimesNext]_timesVars
             PROVE  TimesKept'
  OBVIOUS
<1> DEFINE old == OldMap(legacy)  ending == work["turn"]
<1>0. /\ TimesTypeOK /\ Dated(lines) /\ WorkShape(work)
      /\ lines \in Seq(TimeLine) /\ old \in Map /\ DiskTimes \in Map
      /\ DiskTimes = Overlay(old, lines) /\ work \in [Party -> Work]
      /\ "turn" \in Party /\ "get" \in Party
  BY DiskTyped
     DEF TimesShape, TimesTypeOK, WorkShape, Party, DiskTimes
<1>1. TimesKept
  BY DEF TimesNext, timesVars, CliWrites, StampTurn, AskTimes, LookUp,
         ReadLegacy, ReadLines, CompactLines, Keep, Persist, PersistFails,
         Unlink, BumpRead, BumpWrite, CliRewrites, LoseProcess
<1>2. \A a \in Party : work[a] \in Work /\ work[a].map \in Map
                       /\ work[a].new \in Seq(TimeLine) /\ Dated(work[a].new)
  BY <1>0 DEF WorkShape, Party, Work
<1>3. CASE CliWrites
  BY <1>1, <1>3, KeptQuietly DEF CliWrites
<1>4. CASE StampTurn
  <2>1. work'["turn"].step = "look"
    BY <1>0, <1>4, NoWorkFits DEF StampTurn, Work
  <2> QED
    BY <1>1, <1>4, <2>1, KeptQuietly DEF StampTurn
<1>5. CASE AskTimes
  <2>1. work'["turn"] = work["turn"]
    BY <1>0, <1>5 DEF AskTimes
  <2> QED
    BY <1>1, <1>5, <2>1, KeptQuietly DEF AskTimes
<1>6. ASSUME NEW a \in Party, LookUp(a) PROVE TimesKept'
  <2>1. CASE cache # NoMap
    <3>1. cache \in Map /\ Have(a, cache) /\ Keeps(DiskTimes, cache)
      BY <1>0, <1>1, <1>6, <2>1 DEF LookUp, TimesTypeOK, TimesKept
    <3>2. ending.step # "write" \/ a = "get"
      BY <1>6 DEF LookUp, Party
    <3> QED
      BY <1>1, <1>6, <3>1, <3>2, KeptHaving DEF LookUp
  <2>2. CASE cache = NoMap
    <3>1. work' = [work EXCEPT ![a].step = "legacy"] /\ cache' = cache
      BY <1>6, <2>2 DEF LookUp
    <3>2. \/ work'["turn"] = work["turn"]
          \/ work'["turn"].step \notin {"write", "unlink"}
      BY <1>0, <3>1 DEF Work
    <3> QED
      BY <1>1, <1>6, <3>1, <3>2, KeptQuietly DEF LookUp
  <2> QED
    BY <2>1, <2>2
<1>7. ASSUME NEW a \in Party, ReadLegacy(a) PROVE TimesKept'
  <2>1. \/ work'["turn"] = work["turn"]
        \/ work'["turn"].step \notin {"write", "unlink"}
    BY <1>0, <1>7 DEF ReadLegacy, Work
  <2> QED
    BY <1>1, <1>7, <2>1, KeptQuietly DEF ReadLegacy
<1>8. ASSUME NEW a \in Party, ReadLines(a) PROVE TimesKept'
  <2>1. PICK s \in {"compact", "keep"} : \E map :
          work' = [work EXCEPT ![a].map = map, ![a].step = s]
    BY <1>8 DEF ReadLines
  <2>2. \/ work'["turn"] = work["turn"]
        \/ work'["turn"].step \notin {"write", "unlink"}
    BY <1>0, <2>1 DEF Work
  <2> QED
    BY <1>1, <1>8, <2>2, KeptQuietly DEF ReadLines
<1>9. ASSUME NEW a \in Party, CompactLines(a) PROVE TimesKept'
  <2> DEFINE map == work[a].map
  <2>1. work'["turn"] = work["turn"] \/ work'["turn"].step = "keep"
    BY <1>0, <1>9 DEF CompactLines, Work
  <2>2. CASE lines' = lines /\ first' = first
    BY <1>1, <1>9, <2>1, <2>2, KeptQuietly DEF CompactLines
  <2>3. CASE PutLines(LinesOf(map), old) /\ DiskTimes = map
    <3>1. Overlay(old, LinesOf(map)) = DiskTimes /\ Replaced(old, LinesOf(map))
          /\ LinesOf(map) \in Seq(TimeLine)
      <4>1. Keeps(Overlay(old, lines), map)
        BY <1>0, <2>3 DEF Keeps
      <4> QED
        BY <1>0, <1>2, <2>3, <4>1, MapOnDisk, LinesOfSay
    <3>2. Keeps(DiskTimes, Overlay(old, LinesOf(map)))
      BY <3>1 DEF Keeps
    <3>3. cache' = cache /\ legacy' = legacy
      BY <1>9 DEF CompactLines
    <3>4. cache' # NoMap => Keeps(Overlay(old, LinesOf(map)), cache')
      BY <1>1, <3>1, <3>3 DEF TimesKept
    <3>5. work'["turn"].step = "write" =>
            /\ Ready(Overlay(old, LinesOf(map)), work'["turn"])
            /\ cache' = work'["turn"].map
      BY <1>1, <2>1, <3>1, <3>3 DEF TimesKept
    <3> HIDE DEF old, map
    <3> QED
      BY <1>1, <2>3, <3>1, <3>2, <3>3, <3>4, <3>5, KeptPutting DEF old
  <2> QED
    BY <1>9, <2>2, <2>3 DEF CompactLines
<1>10. ASSUME NEW a \in Party, Keep(a) PROVE TimesKept'
  <2>1. work[a].map = DiskTimes /\ cache \in {NoMap, work[a].map}
    BY <1>10 DEF Keep
  <2>2. Keeps(DiskTimes, work[a].map)
    BY <2>1 DEF Keeps
  <2>3. ending.step # "write" \/ a = "get"
    BY <1>10 DEF Keep, Party
  <2> QED
    BY <1>1, <1>2, <1>10, <2>1, <2>2, <2>3, KeptHaving DEF Keep
<1>11. CASE Persist
  <2> DEFINE new == ending.new  map == ending.map
  <2>1. Ready(DiskTimes, ending) /\ cache = map /\ ending.step = "write"
        /\ new # <<>> /\ new \in Seq(TimeLine) /\ Dated(new) /\ map \in Map
        /\ cache' = cache /\ legacy' = legacy
    <3>1. ending.step = "write" /\ "write" \in Telling
      BY <1>11 DEF Persist, Telling
    <3> QED
      BY <1>0, <1>1, <1>2, <1>11, <3>1 DEF Persist, TimesKept, WorkShape
  <2>2. Stamps(DiskTimes, new) /\ Keeps(DiskTimes, map)
        /\ \A m \in Msg : \A t : Says(new, m, t) => map[m] = t
    BY <2>1 DEF Ready
  <2>3. CASE legacy = NoMap
    <3> DEFINE file == AppendedTo(lines, new)
    <3>1. PutLines(file, old) /\ work'["turn"].step = "bump"
      BY <1>0, <1>11, <2>3 DEF Persist, Work
    <3>2. file \in Seq(TimeLine)
      BY <1>0, <2>1, AppendedShape
    <3>3. \A m \in Msg : Silent(new, m) => SaysAgain(lines, file, m)
      BY <1>0, <2>1, AppendKeeps DEF SaysAgain
    <3>4. Keeps(DiskTimes, Overlay(old, file))
      <4> HIDE DEF old, new, file
      <4> QED
        BY <1>0, <2>2, <3>2, <3>3, NewLinesKeep
    <3>5. Keeps(Overlay(old, file), map)
      <4> SUFFICES ASSUME NEW m \in Msg, Overlay(old, file)[m] # 0
                   PROVE  map[m] = Overlay(old, file)[m]
        BY DEF Keeps
      <4>1. CASE DiskTimes[m] # 0
        BY <2>2, <3>4, <4>1 DEF Keeps
      <4>2. CASE DiskTimes[m] = 0
        <5>1. old[m] = 0 /\ Silent(lines, m)
          BY <1>0, <4>2, OldShows
        <5>2. CASE Silent(new, m)
          <6>1. Silent(file, m)
            BY <3>3, <5>1, <5>2 DEF SaysAgain
          <6> QED
            BY <1>0, <3>2, <5>1, <6>1, OverlaySilent
        <5>3. CASE ~Silent(new, m)
          <6>1. PICK t \in 0..LastTime : Says(new, m, t)
            BY <2>1, <5>3, SaysOrSilent
          <6>2. CASE Silent(file, m)
            BY <1>0, <3>2, <5>1, <6>2, OverlaySilent
          <6>3. CASE Says(file, m, t)
            <7>1. Overlay(old, file)[m] = t
              BY <1>0, <3>2, <6>3, OverlaySays
            <7> QED
              BY <2>2, <6>1, <7>1
          <6>4. Says(file, m, t) \/ Silent(file, m)
            BY <1>0, <2>1, <5>1, <6>1, AppendAdds
          <6> QED
            BY <6>2, <6>3, <6>4
        <5> QED
          BY <5>2, <5>3
      <4> QED
        BY <4>1, <4>2
    <3>6. cache' # NoMap => Keeps(Overlay(old, file), cache')
      BY <2>1, <3>5
    <3> HIDE DEF old, new, file, map
    <3> QED
      BY <1>1, <2>1, <3>1, <3>2, <3>4, <3>6, KeptPutting DEF old
  <2>4. CASE legacy # NoMap
    <3>1. PutLines(LinesOf(map), old) /\ work'["turn"].step = "unlink"
      BY <1>0, <1>11, <2>4 DEF Persist, Work
    <3>2. Overlay(old, LinesOf(map)) = map /\ Replaced(old, LinesOf(map))
          /\ LinesOf(map) \in Seq(TimeLine)
      BY <1>0, <2>1, <2>2, MapOnDisk, LinesOfSay
    <3>3. Keeps(DiskTimes, Overlay(old, LinesOf(map)))
      BY <2>2, <3>2
    <3>4. cache' # NoMap => Keeps(Overlay(old, LinesOf(map)), cache')
      BY <2>1, <3>2 DEF Keeps
    <3> HIDE DEF old, new, map
    <3> QED
      BY <1>1, <2>1, <3>1, <3>2, <3>3, <3>4, KeptPutting DEF old
  <2> QED
    BY <2>3, <2>4
<1>12. ASSUME NEW ls \in Partly(lines, ending.new) \cup {lines},
              ls = lines \/ ending.step = "write",
              PutLines(ls, old), cache' = NoMap, legacy' = legacy,
              work'["turn"].step \notin {"write", "unlink"}
       PROVE  TimesKept'
  <2>1. ls \in Seq(TimeLine)
    BY <1>0, <1>2, <1>12, PartlyKeeps
  <2>2. Keeps(DiskTimes, Overlay(old, ls))
    <3>1. CASE ls = lines
      BY <1>0, <3>1 DEF Keeps
    <3>2. CASE ls # lines
      <4>1. Stamps(DiskTimes, ending.new)
        BY <1>1, <1>12, <3>2 DEF TimesKept, Ready
      <4>2. \A m \in Msg : Silent(ending.new, m) => SaysAgain(lines, ls, m)
        BY <1>0, <1>2, <1>12, <3>2, PartlyKeeps
      <4> QED
        BY <1>0, <2>1, <4>1, <4>2, NewLinesKeep
    <3> QED
      BY <3>1, <3>2
  <2> HIDE DEF old
  <2> QED
    BY <1>1, <1>12, <2>1, <2>2, KeptPutting DEF old
<1>13. CASE PersistFails
  <2>1. PICK ls \in Partly(lines, ending.new) \cup {lines} : PutLines(ls, old)
    BY <1>13 DEF PersistFails
  <2>2. cache' = NoMap /\ legacy' = legacy /\ ending.step = "write"
        /\ work'["turn"].step = "bump"
    BY <1>0, <1>13 DEF PersistFails, Work
  <2> QED
    BY <1>12, <2>1, <2>2
<1>14. CASE Unlink
  <2>1. work'["turn"].step = "bump"
    BY <1>0, <1>14 DEF Unlink, Work
  <2>2. CASE legacy' = legacy
    BY <1>1, <1>14, <2>1, <2>2, KeptQuietly DEF Unlink
  <2>3. CASE legacy' = NoMap
    <3>1. lines' = lines /\ first' = first /\ cache' = cache
      BY <1>14 DEF Unlink
    <3>2. Replaced(old, lines)
      BY <1>1, <1>14 DEF Unlink, TimesKept
    <3>3. DiskTimes' = Overlay(Unstamped, lines)
      BY <2>3, <3>1 DEF DiskTimes, OldMap
    <3>4. \A m \in Msg : Overlay(Unstamped, lines)[m] = DiskTimes[m]
      <4> TAKE m \in Msg
      <4>1. CASE Silent(lines, m)
        <5>1. old[m] = 0 /\ Unstamped[m] = 0
          BY <3>2, <4>1 DEF Replaced, Unstamped
        <5> QED
          BY <1>0, <4>1, <5>1, UnstampedIsMap, OverlaySilent
      <4>2. CASE ~Silent(lines, m)
        <5>1. PICK t \in 0..LastTime : Says(lines, m, t)
          BY <1>0, <4>2, SaysOrSilent
        <5>2. Overlay(old, lines)[m] = t
          BY <1>0, <5>1, OverlaySays
        <5>3. Overlay(Unstamped, lines)[m] = t
          BY <1>0, <5>1, UnstampedIsMap, OverlaySays
        <5> QED
          BY <1>0, <5>2, <5>3
      <4> QED
        BY <4>1, <4>2
    <3>5. DiskTimes' = DiskTimes
      <4>1. Overlay(Unstamped, lines) \in Map
        BY <1>0, UnstampedIsMap, OverlayTyped
      <4> QED
        BY <1>0, <3>3, <3>4, <4>1, SameMaps
    <3> QED
      BY <1>1, <2>1, <3>1, <3>5 DEF TimesKept
  <2> QED
    BY <1>14, <2>2, <2>3 DEF Unlink
<1>15. CASE BumpRead
  <2>1. work'["turn"].step \notin {"write", "unlink"}
    BY <1>0, <1>15, NoWorkFits DEF BumpRead, Work
  <2> QED
    BY <1>1, <1>15, <2>1, KeptQuietly DEF BumpRead
<1>16. CASE BumpWrite
  <2>1. work'["turn"].step \notin {"write", "unlink"}
    BY <1>0, <1>16, NoWorkFits DEF BumpWrite
  <2> QED
    BY <1>1, <1>16, <2>1, KeptQuietly DEF BumpWrite
<1>17. CASE CliRewrites
  BY <1>1, <1>17, KeptQuietly DEF CliRewrites
<1>18. CASE LoseProcess
  <2>1. PICK ls \in Partly(lines, ending.new) \cup {lines} :
          PutLines(ls, old) /\ (ls = lines \/ ending.step = "write")
    BY <1>18 DEF LoseProcess
  <2>2. cache' = NoMap /\ legacy' = legacy /\ work'["turn"].step = "idle"
    BY <1>18, NoWorkFits DEF LoseProcess
  <2> QED
    BY <1>12, <2>1, <2>2
<1>19. CASE UNCHANGED timesVars
  BY <1>1, <1>19, KeptQuietly DEF timesVars
<1> QED
  BY <1>3, <1>4, <1>5, <1>6, <1>7, <1>8, <1>9, <1>10, <1>11, <1>13, <1>14,
     <1>15, <1>16, <1>17, <1>18, <1>19 DEF TimesNext, Party

LEMMA TimesInvariant == TimesSpec => []TimesInv
<1>1. TimesInit => TimesInv
  BY ShapeInit, KeptInit DEF TimesInv
<1>2. TimesInv /\ [TimesNext]_timesVars => TimesInv'
  BY ShapeStep, KeptStep DEF TimesInv
<1> QED
  BY <1>1, <1>2, PTL DEF TimesSpec

-----------------------------------------------------------------------------
(* Theorems *)

LEMMA LatestIsGreatest ==
  ASSUME NEW map \in Map
  PROVE  /\ Latest(map) \in Nat /\ \A m \in Msg : Latest(map) >= map[m]
         /\ \E m \in Msg : Latest(map) = map[m]
<1> DEFINE Q == {map[m] : m \in Msg}
<1>1. 1 \in Msg
  BY TimesAssumption DEF Msg
<1>2. \A m \in Msg : map[m] \in Nat /\ map[m] <= LastTime
  BY Times DEF Map
<1>3. Q \in SUBSET Nat /\ Q # {} /\ \A q \in Q : q <= LastTime
  BY <1>1, <1>2
<1>4. Max(Q) \in Q /\ \A q \in Q : Max(Q) >= q
  <2> HIDE DEF Q
  <2> QED
    BY <1>3, Times, BoundedHasMax
<1>5. Latest(map) = Max(Q)
  BY DEF Latest
<1> QED
  BY <1>2, <1>4, <1>5

(* A map with the times of another is not behind it in the list.            *)
LEMMA ListIsNotBehind ==
  ASSUME NEW old \in Map, NEW map \in Map, Keeps(old, map), lastAt \in Nat
  PROVE  ListTime(map) >= Latest(old)
<1>1. PICK m \in Msg : Latest(old) = old[m]
  BY LatestIsGreatest
<1>2. Latest(map) \in Nat /\ Latest(old) \in Nat /\ Latest(map) >= map[m]
  BY LatestIsGreatest
<1>3. Latest(map) >= Latest(old)
  BY <1>1, <1>2 DEF Keeps
<1> QED
  BY <1>2, <1>3 DEF ListTime

(* The files, memory, conversation.json and the jobs of store.ts keep their *)
(* shapes: lines of a message and a time, maps with a time for each message.*)
THEOREM TimesTyped == TimesSpec => []TimesTypeOK
<1>1. TimesInv => TimesTypeOK
  BY DEF TimesInv, TimesShape
<1> QED
  BY <1>1, TimesInvariant, PTL

(* A time that has reached the disk is that of its message for good, on the *)
(* disk, in memory and in the list of conversations, through the folding of *)
(* the old file, compactions, failed and torn writes and restarts, unless a *)
(* cold load has overlapped a stamp (stampNewMessages, readMessageTimestamps*)
(* of store.ts).                                                            *)
THEOREM TimesAreKept == TimesSpec => []TimesStay
<1>1. TimesInv => TimesStay
  <2> SUFFICES ASSUME TimesInv, ~strayed
               PROVE  /\ \A m \in Stamped(first) : DiskTimes[m] = first[m]
                      /\ ListTime(IF cache = NoMap THEN DiskTimes ELSE cache)
                           >= Latest(first)
                      /\ cache # NoMap =>
                           \A m \in Stamped(first) : cache[m] = first[m]
    BY DEF TimesStay
  <2>1. first = DiskTimes /\ DiskTimes \in Map /\ lastAt \in Nat
        /\ cache \in Map \cup {NoMap}
        /\ (cache # NoMap => Keeps(DiskTimes, cache))
    BY DiskTyped DEF TimesInv, TimesShape, TimesKept, TimesTypeOK
  <2>2. Keeps(DiskTimes, DiskTimes)
    BY DEF Keeps
  <2>3. ListTime(IF cache = NoMap THEN DiskTimes ELSE cache)
          >= Latest(DiskTimes)
    BY <2>1, <2>2, ListIsNotBehind
  <2> QED
    BY <2>1, <2>3 DEF Stamped, Keeps
<1> QED
  BY <1>1, TimesInvariant, PTL

-----------------------------------------------------------------------------
(* The chunks of a sequence of frames *)

Ids == Seq(1..MaxIn)

(* What each beginning of the frames tells of a text or a call.             *)
Tells(g, fs, key) ==
  /\ g \in [0..Len(fs) -> Ids]
  /\ g[0] = <<>>
  /\ \A i \in 1..Len(fs) : g[i] = g[i - 1] \o PartOf(fs[i], key)

LEMMA PartIsIds ==
  ASSUME NEW f \in Frames, NEW key
  PROVE  PartOf(f, key) \in Ids
<1>1. f.ids \in Ids /\ <<>> \in Ids
  BY DEF Frames, Ids
<1> QED
  BY <1>1 DEF PartOf

LEMMA JoinedIds ==
  ASSUME NEW s \in Ids, NEW t \in Ids
  PROVE  /\ s \o t \in Ids
         /\ s \o <<>> = s
BY ConcatEmptySeq, ConcatProperties DEF Ids

LEMMA IdsAssociate ==
  ASSUME NEW s \in Ids, NEW t \in Ids, NEW u \in Ids
  PROVE  (s \o t) \o u = s \o (t \o u)
BY ConcatAssociative DEF Ids

(* There is one telling, ...                                                *)
LEMMA TellingExists ==
  ASSUME NEW fs \in Seq(Frames), NEW key
  PROVE  \E g : Tells(g, fs, key)
<1> DEFINE n == Len(fs)
    rule == [p \in (1..n) \X Ids |-> p[2] \o PartOf(fs[p[1]], key)]
<1>1. n \in Nat /\ \A i \in 1..n : fs[i] \in Frames
  OBVIOUS
<1>2. rule \in [(1..n) \X Ids -> Ids]
  <2> SUFFICES ASSUME NEW i \in 1..n, NEW s \in Ids
               PROVE  s \o PartOf(fs[i], key) \in Ids
    OBVIOUS
  <2>1. PartOf(fs[i], key) \in Ids
    BY <1>1, PartIsIds
  <2> QED
    BY <2>1, JoinedIds
<1>3. <<>> \in Ids
  BY DEF Ids
<1>4. PICK g \in [0..n -> Ids] : Follows(g, n, <<>>, rule)
  <2> HIDE DEF n, rule
  <2> QED
    BY <1>1, <1>2, <1>3, Recursion
<1>5. \A i \in 1..n : g[i] = g[i - 1] \o PartOf(fs[i], key)
  <2> TAKE i \in 1..n
  <2>1. g[i - 1] \in Ids
    BY <1>1
  <2>2. <<i, g[i - 1]>> \in (1..n) \X Ids
    BY <2>1
  <2>3. g[i] = rule[<<i, g[i - 1]>>]
    BY <1>4 DEF Follows
  <2> QED
    BY <2>2, <2>3
<1> QED
  BY <1>4, <1>5 DEF Tells, Follows

(* ... and its last value is what Chunks is defined to be.                  *)
LEMMA ChunksAreTold ==
  ASSUME NEW fs \in Seq(Frames), NEW key, NEW g, Tells(g, fs, key)
  PROVE  Chunks(fs, key) = g[Len(fs)]
<1> DEFINE n == Len(fs)
    Def(f) == f = [i \in 0..n |-> IF i = 0 THEN <<>>
                                  ELSE f[i - 1] \o PartOf(fs[i], key)]
    U == CHOOSE f : Def(f)
    Bad == {i \in 0..n : U[i] # g[i]}
<1>1. n \in Nat
  OBVIOUS
<1>2. Def(g)
  <2>1. \A i \in 0..n : i = 0 \/ i \in 1..n
    BY <1>1
  <2> QED
    BY <2>1 DEF Tells
<1>3. Def(U)
  BY <1>2
<1>4. Chunks(fs, key) = U[n]
  BY DEF Chunks
<1>5. U[0] = <<>> /\ \A i \in 1..n : U[i] = U[i - 1] \o PartOf(fs[i], key)
  <2> HIDE DEF U
  <2>1. 0 \in 0..n /\ \A i \in 1..n : i \in 0..n /\ i # 0
    BY <1>1
  <2> QED
    BY <1>3, <2>1
<1> HIDE DEF U
<1>6. Bad = {}
  <2> SUFFICES ASSUME Bad # {} PROVE FALSE
    OBVIOUS
  <2>1. PICK k \in Bad : \A l \in Bad : k <= l
    <3>1. Bad \in SUBSET Nat
      BY <1>1
    <3> HIDE DEF Bad
    <3> QED
      BY <3>1, LeastNumber
  <2>2. k # 0
    BY <1>5, <2>1 DEF Tells
  <2>3. k \in 1..n /\ k - 1 \in 0..n /\ k - 1 < k
    BY <1>1, <2>1, <2>2
  <2>4. U[k - 1] = g[k - 1]
    BY <1>1, <2>1, <2>3
  <2> QED
    BY <1>5, <2>1, <2>3, <2>4 DEF Tells
<1> QED
  BY <1>1, <1>4, <1>6

LEMMA ChunksTyped ==
  ASSUME NEW fs \in Seq(Frames), NEW key
  PROVE  Chunks(fs, key) \in Ids
<1>1. PICK g : Tells(g, fs, key)
  BY TellingExists
<1>2. g[Len(fs)] \in Ids
  BY <1>1 DEF Tells
<1> QED
  BY <1>1, <1>2, ChunksAreTold

LEMMA NoChunks ==
  ASSUME NEW key
  PROVE  Chunks(<<>>, key) = <<>>
<1> DEFINE g == [i \in 0..0 |-> <<>>]
<1>1. Tells(g, <<>>, key)
  BY DEF Tells, Ids
<1> QED
  BY <1>1, ChunksAreTold

(* One more frame tells its part behind the others.                         *)
LEMMA ChunksOfMore ==
  ASSUME NEW fs \in Seq(Frames), NEW f \in Frames, NEW key
  PROVE  Chunks(Append(fs, f), key) = Chunks(fs, key) \o PartOf(f, key)
<1> DEFINE n == Len(fs)
           more == Append(fs, f)
<1>1. PICK g : Tells(g, fs, key)
  BY TellingExists
<1> DEFINE last == g[n] \o PartOf(f, key)
           h == [i \in 0..(n + 1) |-> IF i = n + 1 THEN last ELSE g[i]]
<1>2. /\ n \in Nat /\ more \in Seq(Frames) /\ Len(more) = n + 1
      /\ more[n + 1] = f /\ \A i \in 1..n : more[i] = fs[i]
  OBVIOUS
<1>3. g[n] \in Ids /\ last \in Ids
  BY <1>1, <1>2, PartIsIds, JoinedIds DEF Tells
<1>4. h \in [0..(n + 1) -> Ids] /\ h[0] = <<>>
  BY <1>1, <1>2, <1>3 DEF Tells
<1>5. ASSUME NEW i \in 1..(n + 1)
      PROVE  h[i] = h[i - 1] \o PartOf(more[i], key)
  <2>1. CASE i = n + 1
    <3>1. h[i] = last /\ h[i - 1] = g[n]
      BY <1>2, <2>1
    <3> QED
      BY <3>1, <2>1, <1>2
  <2>2. CASE i # n + 1
    <3>1. i \in 1..n /\ h[i] = g[i] /\ h[i - 1] = g[i - 1]
      BY <1>2, <2>2
    <3>2. g[i] = g[i - 1] \o PartOf(fs[i], key)
      BY <3>1, <1>1 DEF Tells
    <3> QED
      BY <3>1, <3>2, <1>2
  <2> QED
    BY <2>1, <2>2
<1>6. h[n + 1] = last
  BY <1>2
<1> HIDE DEF h, last
<1>7. Tells(h, more, key)
  BY <1>2, <1>4, <1>5 DEF Tells
<1>8. Chunks(more, key) = h[n + 1] /\ Chunks(fs, key) = g[n]
  <2> HIDE DEF more
  <2> QED
    BY <1>1, <1>2, <1>7, ChunksAreTold
<1> QED
  BY <1>6, <1>8 DEF last

(* A frame in the place of one that tells the same changes nothing.         *)
LEMMA ChunksOfOthers ==
  ASSUME NEW fs \in Seq(Frames), NEW k \in 1..Len(fs), NEW f \in Frames,
         NEW key, PartOf(fs[k], key) = PartOf(f, key)
  PROVE  Chunks([fs EXCEPT ![k] = f], key) = Chunks(fs, key)
<1> DEFINE new == [fs EXCEPT ![k] = f]
<1>1. PICK g : Tells(g, fs, key)
  BY TellingExists
<1>2. /\ new \in Seq(Frames) /\ Len(new) = Len(fs)
      /\ \A i \in 1..Len(fs) : new[i] = IF i = k THEN f ELSE fs[i]
  BY ExceptSeq
<1>3. \A i \in 1..Len(fs) : PartOf(new[i], key) = PartOf(fs[i], key)
  BY <1>2
<1> HIDE DEF new
<1>4. Tells(g, new, key)
  BY <1>1, <1>2, <1>3 DEF Tells
<1>5. Chunks(new, key) = g[Len(fs)]
  BY <1>2, <1>4, ChunksAreTold
<1> QED
  BY <1>1, <1>5, ChunksAreTold DEF new

(* Behind the last frame about a text or a call nothing is told of it.      *)
LEMMA ToldByLast ==
  ASSUME NEW fs \in Seq(Frames), NEW k \in 1..Len(fs), NEW key,
         NEW g, Tells(g, fs, key),
         \A j \in 1..Len(fs) : j > k => fs[j].key # key
  PROVE  Chunks(fs, key) = g[k - 1] \o PartOf(fs[k], key)
<1> DEFINE n == Len(fs)
<1>1. n \in Nat /\ k \in Nat /\ k <= n /\ \A i \in 1..n : fs[i] \in Frames
  OBVIOUS
<1>2. PICK last \in Ids : last = g[k - 1] \o PartOf(fs[k], key)
  <2>1. k - 1 \in 0..n /\ k \in 1..n
    BY <1>1
  <2>2. PartOf(fs[k], key) \in Ids
    BY <1>1, PartIsIds
  <2> QED
    BY <2>1, <2>2, JoinedIds DEF Tells
<1> DEFINE h == [i \in 0..n |-> IF i < k THEN g[i] ELSE last]
<1>3. h \in [0..n -> Ids] /\ h[0] = <<>>
  BY <1>1, <1>2 DEF Tells
<1>4. ASSUME NEW i \in 1..n PROVE h[i] = h[i - 1] \o PartOf(fs[i], key)
  <2>1. CASE i < k
    <3>1. h[i] = g[i] /\ h[i - 1] = g[i - 1]
      BY <1>1, <2>1
    <3> QED
      BY <3>1 DEF Tells
  <2>2. CASE i = k
    <3>1. h[i] = last /\ h[i - 1] = g[k - 1]
      BY <1>1, <2>2
    <3> QED
      BY <3>1, <2>2, <1>2
  <2>3. CASE i > k
    <3>1. i - 1 \in 0..n /\ ~(i - 1 < k) /\ i \in 0..n /\ ~(i < k)
      BY <1>1, <2>3
    <3>4. h[i] = last /\ h[i - 1] = last
      BY <3>1
    <3>2. PartOf(fs[i], key) = <<>>
      BY <2>3 DEF PartOf
    <3>3. last \o <<>> = last
      BY <1>2, JoinedIds
    <3> QED
      BY <3>2, <3>3, <3>4
  <2>4. i < k \/ i = k \/ i > k
    BY <1>1
  <2> QED
    BY <2>1, <2>2, <2>3, <2>4
<1>5. h[n] = last
  <2>1. (n \in 0..n /\ ~(n < k)) \/ n = k
    BY <1>1
  <2> QED
    BY <1>1, <2>1
<1> HIDE DEF h
<1>6. Tells(h, fs, key)
  BY <1>3, <1>4 DEF Tells
<1>7. Chunks(fs, key) = h[n]
  BY <1>6, ChunksAreTold
<1> QED
  BY <1>2, <1>5, <1>7

(* Another frame in the place of the last one about a text or a call.       *)
LEMMA ChunksOfChanged ==
  ASSUME NEW fs \in Seq(Frames), NEW k \in 1..Len(fs), NEW f \in Frames,
         NEW key, \A j \in 1..Len(fs) : j > k => fs[j].key # key
  PROVE  \E p \in Ids :
           /\ Chunks(fs, key) = p \o PartOf(fs[k], key)
           /\ Chunks([fs EXCEPT ![k] = f], key) = p \o PartOf(f, key)
<1> DEFINE n == Len(fs)
           new == [fs EXCEPT ![k] = f]
<1>1. PICK g : Tells(g, fs, key)
  BY TellingExists
<1>2. PICK h : Tells(h, new, key)
  <2>1. new \in Seq(Frames)
    BY ExceptSeq
  <2> HIDE DEF new
  <2> QED
    BY <2>1, TellingExists
<1>3. /\ new \in Seq(Frames) /\ Len(new) = n
      /\ new[k] = f /\ \A i \in 1..n : i # k => new[i] = fs[i]
  BY ExceptSeq
<1>4. n \in Nat
  OBVIOUS
<1> DEFINE Bad == {i \in 0..(k - 1) : g[i] # h[i]}
<1>5. Bad = {}
  <2> SUFFICES ASSUME Bad # {} PROVE FALSE
    OBVIOUS
  <2>1. PICK i \in Bad : \A l \in Bad : i <= l
    <3>1. Bad \in SUBSET Nat
      BY <1>4
    <3> HIDE DEF Bad
    <3> QED
      BY <3>1, LeastNumber
  <2>2. i # 0
    BY <1>1, <1>2, <2>1 DEF Tells
  <2>3. i \in 1..n /\ i - 1 \in 0..(k - 1) /\ i - 1 < i /\ i # k
    BY <1>4, <2>1, <2>2
  <2>4. g[i - 1] = h[i - 1]
    BY <2>1, <2>3
  <2>5. new[i] = fs[i]
    BY <1>3, <2>3
  <2>6. g[i] = g[i - 1] \o PartOf(fs[i], key)
    BY <1>1, <2>3 DEF Tells
  <2>7. h[i] = h[i - 1] \o PartOf(new[i], key)
    <3> HIDE DEF new
    <3> QED
      BY <1>2, <1>3, <2>3 DEF Tells
  <2> QED
    BY <2>1, <2>4, <2>5, <2>6, <2>7
<1>6. k - 1 \in 0..(k - 1) /\ k - 1 \in 0..n
  BY <1>4
<1>7. g[k - 1] = h[k - 1] /\ g[k - 1] \in Ids
  BY <1>1, <1>5, <1>6 DEF Tells
<1>8. Chunks(fs, key) = g[k - 1] \o PartOf(fs[k], key)
  BY <1>1, ToldByLast
<1>9. Chunks(new, key) = h[k - 1] \o PartOf(f, key)
  <2>1. k \in 1..Len(new) /\ \A j \in 1..Len(new) : j > k => new[j].key # key
    BY <1>3, <1>4
  <2> HIDE DEF new
  <2> QED
    BY <1>2, <1>3, <2>1, ToldByLast
<1> QED
  BY <1>7, <1>8, <1>9

-----------------------------------------------------------------------------
(* What came and what left or waits *)

(* Of a call a later snapshot tells more.                                   *)
Rising(s) == \A a, b \in DOMAIN s : a < b => s[a] < s[b]

(* The chunks of frames are those that came, each in a frame of its key.    *)
Owned(came, fs) ==
  \A i \in DOMAIN fs : \A a \in DOMAIN fs[i].ids :
    /\ fs[i].ids[a] \in DOMAIN came
    /\ came[fs[i].ids[a]].key = fs[i].key

Stale(came) ==
  {n \in DOMAIN came : came[n].key \in ToolCall
     /\ \E m \in DOMAIN came : m > n /\ came[m].key = came[n].key}

Told(came, fs) ==
  /\ Owned(came, fs)
  /\ \A key \in Text \cup {Plain} : Chunks(fs, key) = Chunks(came, key)
  /\ \A c \in ToolCall :
       /\ Rising(Chunks(fs, c))
       /\ \A a \in DOMAIN Chunks(fs, c) : Chunks(fs, c)[a] \in DOMAIN came
  /\ DOMAIN came \ Stale(came) \subseteq IdsOf(fs)

LEMMA RisingMore ==
  ASSUME NEW s \in Ids, NEW n \in Nat, n < MaxIn, Rising(s),
         \A a \in DOMAIN s : s[a] \in 1..n
  PROVE  /\ Rising(s \o <<n + 1>>)
         /\ \A a \in DOMAIN (s \o <<n + 1>>) :
               (s \o <<n + 1>>)[a] \in 1..(n + 1)
<1> DEFINE t == s \o <<n + 1>>
<1>1. /\ Len(s) \in Nat /\ Len(t) = Len(s) + 1 /\ t[Len(s) + 1] = n + 1
      /\ DOMAIN t = 1..(Len(s) + 1) /\ DOMAIN s = 1..Len(s)
      /\ \A a \in 1..Len(s) : t[a] = s[a]
  BY CoalescerAssumption DEF Ids
<1> HIDE DEF t
<1>2. \A a \in DOMAIN t :
         t[a] \in 1..(n + 1) /\ (a # Len(s) + 1 => t[a] \in 1..n)
  BY <1>1
<1>3. Rising(t)
  <2> SUFFICES ASSUME NEW a \in DOMAIN t, NEW b \in DOMAIN t, a < b
               PROVE  t[a] < t[b]
    BY DEF Rising
  <2>1. CASE b = Len(s) + 1
    BY <1>1, <1>2, <2>1
  <2>2. CASE b # Len(s) + 1
    <3>1. a \in DOMAIN s /\ b \in DOMAIN s
      BY <1>1, <2>2
    <3> QED
      BY <3>1, <1>1 DEF Rising
  <2> QED
    BY <2>1, <2>2
<1> QED
  BY <1>2, <1>3 DEF t

(* The beginning of what rises rises.                                       *)
LEMMA RisingLess ==
  ASSUME NEW s \in Ids, NEW t \in Ids, Rising(s \o t)
  PROVE  /\ Rising(s)
         /\ \A a \in DOMAIN s : a \in DOMAIN (s \o t) /\ s[a] = (s \o t)[a]
<1>1. /\ Len(s) \in Nat /\ Len(t) \in Nat /\ DOMAIN s = 1..Len(s)
      /\ DOMAIN (s \o t) = 1..(Len(s) + Len(t))
      /\ \A a \in 1..Len(s) : (s \o t)[a] = s[a]
  BY DEF Ids
<1>2. \A a \in DOMAIN s : a \in DOMAIN (s \o t) /\ s[a] = (s \o t)[a]
  BY <1>1
<1> QED
  BY <1>2 DEF Rising

LEMMA IdsAre ==
  ASSUME NEW fs, NEW n
  PROVE  n \in IdsOf(fs)
           <=> \E i \in DOMAIN fs :
                 \E a \in DOMAIN fs[i].ids : n = fs[i].ids[a]
BY DEF IdsOf, ToSet

(* A frame comes, whose chunk is its number.                                *)
Comes(came, f) ==
  /\ came \in Seq(Frames) /\ f \in Frames
  /\ Len(came) < MaxIn /\ f.ids = <<Len(came) + 1>>

LEMMA Arrival ==
  ASSUME NEW came, NEW f, Comes(came, f), NEW n, n = Len(came)
  PROVE  /\ n \in Nat /\ n < MaxIn /\ DOMAIN came = 1..n
         /\ Append(came, f) \in Seq(Frames)
         /\ DOMAIN Append(came, f) = 1..(n + 1)
         /\ Append(came, f)[n + 1] = f
         /\ \A m \in 1..n : Append(came, f)[m] = came[m]
         /\ DOMAIN f.ids = {1} /\ f.ids[1] = n + 1 /\ f.ids = <<n + 1>>
         /\ f.ids \in Ids
BY CoalescerAssumption DEF Comes, Frames, Ids

LEMMA StaleStays ==
  ASSUME NEW came, NEW f, Comes(came, f), NEW m \in DOMAIN came
  PROVE  /\ m \in Stale(came) => m \in Stale(Append(came, f))
         /\ came[m].key = f.key /\ f.key \in ToolCall
              => m \in Stale(Append(came, f))
<1> DEFINE n == Len(came)
           more == Append(came, f)
<1>1. /\ n \in Nat /\ DOMAIN came = 1..n /\ DOMAIN more = 1..(n + 1)
      /\ more[n + 1] = f /\ \A k \in 1..n : more[k] = came[k]
  BY Arrival
<1> HIDE DEF more, n
<1>2. m \in DOMAIN more /\ more[m] = came[m] /\ n + 1 \in DOMAIN more
      /\ n + 1 > m
  BY <1>1
<1>3. ASSUME m \in Stale(came) PROVE m \in Stale(more)
  <2>1. PICK k \in DOMAIN came : k > m /\ came[k].key = came[m].key
    BY <1>3 DEF Stale
  <2>2. k \in DOMAIN more /\ more[k] = came[k]
    BY <1>1
  <2>3. came[m].key \in ToolCall
    BY <1>3 DEF Stale
  <2> QED
    BY <1>2, <2>1, <2>2, <2>3 DEF Stale
<1>4. ASSUME came[m].key = f.key, f.key \in ToolCall
      PROVE  m \in Stale(more)
  BY <1>1, <1>2, <1>4 DEF Stale
<1> QED
  BY <1>3, <1>4 DEF more

LEMMA OwnedStays ==
  ASSUME NEW came, NEW f, Comes(came, f), NEW fs, Owned(came, fs)
  PROVE  Owned(Append(came, f), fs)
<1>1. \A m \in DOMAIN came : /\ m \in DOMAIN Append(came, f)
                             /\ Append(came, f)[m] = came[m]
  <2>1. PICK n : n = Len(came)
    OBVIOUS
  <2>2. /\ n \in Nat /\ DOMAIN came = 1..n
        /\ DOMAIN Append(came, f) = 1..(n + 1)
        /\ \A m \in 1..n : Append(came, f)[m] = came[m]
    BY <2>1, Arrival
  <2> QED
    BY <2>2
<1> QED
  BY <1>1 DEF Owned

(* What fs tells beside the text or the call of the frame that comes, the   *)
(* new frames tell as well.                                                 *)
LEMMA ToldBeside ==
  ASSUME NEW came, NEW f, Comes(came, f), NEW fs, NEW new,
         Told(came, fs), Owned(Append(came, f), new),
         \A key : key # f.key => Chunks(new, key) = Chunks(fs, key),
         f.key \in Text \cup {Plain}
           => Chunks(new, f.key) = Chunks(fs, f.key) \o f.ids,
         f.key \in ToolCall
           => \E p \in Ids, q \in Ids : /\ Chunks(fs, f.key) = p \o q
                                        /\ Chunks(new, f.key) = p \o f.ids,
         Len(came) + 1 \in IdsOf(new),
         \A m \in DOMAIN came :
           m \in IdsOf(fs) => m \in IdsOf(new) \/ m \in Stale(Append(came, f))
  PROVE  Told(Append(came, f), new)
<1> DEFINE more == Append(came, f)
<1>1. PICK n : n = Len(came)
  OBVIOUS
<1>2. /\ n \in Nat /\ n < MaxIn /\ DOMAIN came = 1..n
      /\ more \in Seq(Frames) /\ DOMAIN more = 1..(n + 1)
      /\ f.ids = <<n + 1>> /\ f.ids \in Ids
  BY <1>1, Arrival
<1>3. \A key : Chunks(more, key) = Chunks(came, key) \o PartOf(f, key)
  BY ChunksOfMore DEF Comes
<1>4. \A key : Chunks(came, key) \in Ids
  BY ChunksTyped DEF Comes
<1>5. ASSUME NEW key \in Text \cup {Plain}
      PROVE  Chunks(new, key) = Chunks(more, key)
  <2>1. CASE key = f.key
    BY <2>1, <1>3 DEF Told, PartOf
  <2>2. CASE key # f.key
    <3>1. PartOf(f, key) = <<>>
      BY <2>2 DEF PartOf
    <3>2. Chunks(came, key) \o <<>> = Chunks(came, key)
      BY <1>4, JoinedIds
    <3> QED
      BY <1>3, <2>2, <3>1, <3>2 DEF Told
  <2> QED
    BY <2>1, <2>2
<1>6. ASSUME NEW c \in ToolCall
      PROVE  /\ Rising(Chunks(new, c))
             /\ \A a \in DOMAIN Chunks(new, c) :
                  Chunks(new, c)[a] \in DOMAIN more
  <2>1. CASE c # f.key
    <3>1. \A m \in DOMAIN came : m \in DOMAIN more
      BY <1>2
    <3> QED
      BY <2>1, <3>1 DEF Told
  <2>2. CASE c = f.key
    <3>1. PICK p \in Ids, q \in Ids : /\ Chunks(fs, c) = p \o q
                                      /\ Chunks(new, c) = p \o f.ids
      BY <2>2
    <3>2. Rising(p \o q) /\ \A a \in DOMAIN (p \o q) : (p \o q)[a] \in 1..n
      BY <3>1, <1>2 DEF Told
    <3>3. Rising(p) /\ \A a \in DOMAIN p : p[a] \in 1..n
      BY <3>2, RisingLess
    <3>4. /\ Rising(p \o <<n + 1>>)
          /\ \A a \in DOMAIN (p \o <<n + 1>>) :
               (p \o <<n + 1>>)[a] \in 1..(n + 1)
      BY <1>2, <3>3, RisingMore
    <3> QED
      BY <3>1, <3>4, <1>2
  <2> QED
    BY <2>1, <2>2
<1>7. ASSUME NEW m \in DOMAIN more \ Stale(more) PROVE m \in IdsOf(new)
  <2>1. CASE m = n + 1
    BY <1>1, <2>1
  <2>2. CASE m # n + 1
    <3>1. m \in DOMAIN came
      BY <1>2, <2>2
    <3>2. m \notin Stale(came)
      BY <1>7, <3>1, StaleStays
    <3>3. m \in IdsOf(fs)
      BY <3>1, <3>2 DEF Told
    <3> QED
      BY <1>7, <3>1, <3>3
  <2> QED
    BY <2>1, <2>2
<1> QED
  BY <1>5, <1>6, <1>7 DEF Told

(* The frame goes behind all others.                                        *)
LEMMA ToldMore ==
  ASSUME NEW came, NEW f, Comes(came, f), NEW fs \in Seq(Frames),
         Told(came, fs)
  PROVE  Told(Append(came, f), Append(fs, f))
<1> DEFINE more == Append(came, f)
           new == Append(fs, f)
<1>1. /\ DOMAIN fs = 1..Len(fs) /\ DOMAIN new = 1..(Len(fs) + 1)
      /\ Len(fs) \in Nat /\ new[Len(fs) + 1] = f
      /\ \A i \in DOMAIN fs : new[i] = fs[i]
  BY DEF Comes
<1>2. PICK n : n = Len(came)
  OBVIOUS
<1>3. /\ n \in Nat /\ DOMAIN f.ids = {1} /\ f.ids[1] = n + 1
      /\ DOMAIN more = 1..(n + 1) /\ more[n + 1] = f /\ f.ids \in Ids
  BY <1>2, Arrival
<1>4. Owned(more, fs)
  BY OwnedStays DEF Told
<1>5. Owned(more, new)
  <2> HIDE DEF more, new
  <2> SUFFICES ASSUME NEW i \in DOMAIN new, NEW a \in DOMAIN new[i].ids
               PROVE  /\ new[i].ids[a] \in DOMAIN more
                      /\ more[new[i].ids[a]].key = new[i].key
    BY DEF Owned
  <2>1. CASE i \in DOMAIN fs
    BY <2>1, <1>1, <1>4 DEF Owned
  <2>2. CASE i = Len(fs) + 1
    BY <2>2, <1>1, <1>3
  <2> QED
    BY <1>1, <2>1, <2>2
<1>6. \A key : Chunks(new, key) = Chunks(fs, key) \o PartOf(f, key)
  BY ChunksOfMore DEF Comes
<1>7. \A key : Chunks(fs, key) \in Ids
  BY ChunksTyped
<1>8. \A key : key # f.key => Chunks(new, key) = Chunks(fs, key)
  BY <1>6, <1>7, JoinedIds DEF PartOf
<1>9. Chunks(new, f.key) = Chunks(fs, f.key) \o f.ids
  BY <1>6 DEF PartOf
<1>10. <<>> \in Ids /\ Chunks(fs, f.key) = Chunks(fs, f.key) \o <<>>
  BY <1>7, JoinedIds DEF Ids
<1>11. \A m : m \in IdsOf(fs) => m \in IdsOf(new)
  <2> HIDE DEF new
  <2> QED
    BY <1>1, IdsAre
<1>12. Len(came) + 1 \in IdsOf(new)
  <2>1. Len(fs) + 1 \in DOMAIN new
    BY <1>1
  <2> HIDE DEF new
  <2> QED
    BY <1>1, <1>2, <1>3, <2>1, IdsAre
<1> HIDE DEF more, new
<1>13. Told(more, new)
  BY <1>5, <1>7, <1>8, <1>9, <1>10, <1>11, <1>12, ToldBeside DEF more
<1> QED
  BY <1>13 DEF more, new

(* The frame is put to the last one of its text.                            *)
LEMMA ToldMerged ==
  ASSUME NEW came, NEW f, Comes(came, f), f.key \in Text,
         NEW fs \in Seq(Frames), Told(came, fs),
         NEW k \in 1..Len(fs), fs[k].key = f.key,
         \A j \in 1..Len(fs) : j > k => fs[j].key # f.key
  PROVE  /\ [fs[k] EXCEPT !.ids = @ \o f.ids] \in Frames
         /\ Told(Append(came, f),
                 [fs EXCEPT ![k] = [fs[k] EXCEPT !.ids = @ \o f.ids]])
<1> DEFINE more == Append(came, f)
<1>1. PICK n : n = Len(came)
  OBVIOUS
<1>2. /\ n \in Nat /\ DOMAIN f.ids = {1} /\ f.ids[1] = n + 1
      /\ DOMAIN more = 1..(n + 1) /\ more[n + 1] = f /\ f.ids \in Ids
      /\ f.ids = <<n + 1>>
  BY <1>1, Arrival
<1>3. PICK e : e = [fs[k] EXCEPT !.ids = @ \o f.ids]
  OBVIOUS
<1>4. fs[k] \in Frames /\ fs[k].ids \in Ids
  <2>1. fs[k] \in Frames
    OBVIOUS
  <2> QED
    BY <2>1 DEF Frames, Ids
<1>5. e.key = f.key /\ e.ids = fs[k].ids \o f.ids
  BY <1>3, <1>4 DEF Frames
<1>6. e.ids \in Ids
  BY <1>2, <1>4, <1>5, JoinedIds
<1>7. e \in Frames
  BY <1>3, <1>4, <1>5, <1>6 DEF Frames, Ids
<1> DEFINE new == [fs EXCEPT ![k] = e]
<1>8. /\ DOMAIN fs = 1..Len(fs) /\ DOMAIN new = 1..Len(fs)
      /\ new[k] = e /\ \A i \in 1..Len(fs) : i # k => new[i] = fs[i]
  BY <1>7
<1>9. /\ Len(fs[k].ids) \in Nat /\ DOMAIN fs[k].ids = 1..Len(fs[k].ids)
      /\ DOMAIN e.ids = 1..(Len(fs[k].ids) + 1)
      /\ e.ids[Len(fs[k].ids) + 1] = n + 1
      /\ \A a \in 1..Len(fs[k].ids) : e.ids[a] = fs[k].ids[a]
  BY <1>2, <1>4, <1>5 DEF Ids
<1>10. Owned(more, new)
  <2>1. Owned(more, fs)
    BY OwnedStays DEF Told
  <2> HIDE DEF more, new
  <2> SUFFICES ASSUME NEW i \in DOMAIN new, NEW a \in DOMAIN new[i].ids
               PROVE  /\ new[i].ids[a] \in DOMAIN more
                      /\ more[new[i].ids[a]].key = new[i].key
    BY DEF Owned
  <2>2. CASE i # k
    BY <2>1, <2>2, <1>8 DEF Owned
  <2>3. CASE i = k /\ a \in DOMAIN fs[k].ids
    BY <2>1, <2>3, <1>5, <1>8, <1>9 DEF Owned
  <2>4. CASE i = k /\ a = Len(fs[k].ids) + 1
    BY <2>4, <1>2, <1>5, <1>8, <1>9
  <2> QED
    BY <1>8, <1>9, <2>2, <2>3, <2>4
<1>11. \A key : key # f.key => Chunks(new, key) = Chunks(fs, key)
  <2> TAKE key
  <2> HAVE key # f.key
  <2>1. PartOf(fs[k], key) = PartOf(e, key)
    BY <1>5 DEF PartOf
  <2> QED
    BY <1>7, <2>1, ChunksOfOthers
<1>12. Chunks(new, f.key) = Chunks(fs, f.key) \o f.ids
  <2>1. PICK p \in Ids : /\ Chunks(fs, f.key) = p \o PartOf(fs[k], f.key)
                         /\ Chunks(new, f.key) = p \o PartOf(e, f.key)
    BY <1>7, ChunksOfChanged
  <2>2. /\ PartOf(fs[k], f.key) = fs[k].ids
        /\ PartOf(e, f.key) = fs[k].ids \o f.ids
    BY <1>5 DEF PartOf
  <2>3. (p \o fs[k].ids) \o f.ids = p \o (fs[k].ids \o f.ids)
    BY <1>2, <1>4, IdsAssociate
  <2> QED
    BY <2>1, <2>2, <2>3
<1>13. \A m : m \in IdsOf(fs) => m \in IdsOf(new)
  <2> TAKE m
  <2> HAVE m \in IdsOf(fs)
  <2>1. PICK i \in DOMAIN fs : \E a \in DOMAIN fs[i].ids : m = fs[i].ids[a]
    BY IdsAre
  <2>2. PICK a \in DOMAIN fs[i].ids : m = fs[i].ids[a]
    BY <2>1
  <2>3. i \in DOMAIN new /\ a \in DOMAIN new[i].ids /\ m = new[i].ids[a]
    <3> HIDE DEF new
    <3>1. CASE i = k
      BY <3>1, <2>2, <1>8, <1>9
    <3>2. CASE i # k
      BY <3>2, <2>2, <1>8
    <3> QED
      BY <3>1, <3>2
  <2> HIDE DEF new
  <2> QED
    BY <2>3, IdsAre
<1>14. Len(came) + 1 \in IdsOf(new)
  <2>1. k \in DOMAIN new /\ Len(fs[k].ids) + 1 \in DOMAIN new[k].ids
    <3> HIDE DEF new
    <3> QED
      BY <1>8, <1>9
  <2> HIDE DEF new
  <2> QED
    BY <1>1, <1>8, <1>9, <2>1, IdsAre
<1>15. f.key \notin ToolCall
  BY CoalescerAssumption
<1>16. Told(more, new)
  <2> HIDE DEF more, new
  <2> QED
    BY <1>10, <1>11, <1>12, <1>13, <1>14, <1>15, ToldBeside DEF more
<1> QED
  BY <1>3, <1>7, <1>16

(* The frame takes the place of the last one of its call.                   *)
LEMMA ToldReplaced ==
  ASSUME NEW came, NEW f, Comes(came, f), f.key \in ToolCall,
         NEW fs \in Seq(Frames), Told(came, fs),
         NEW k \in 1..Len(fs), fs[k].key = f.key,
         \A j \in 1..Len(fs) : j > k => fs[j].key # f.key
  PROVE  Told(Append(came, f), [fs EXCEPT ![k] = f])
<1> DEFINE more == Append(came, f)
           new == [fs EXCEPT ![k] = f]
<1>1. PICK n : n = Len(came)
  OBVIOUS
<1>2. /\ n \in Nat /\ DOMAIN f.ids = {1} /\ f.ids[1] = n + 1
      /\ DOMAIN more = 1..(n + 1) /\ more[n + 1] = f /\ f.ids \in Ids
      /\ DOMAIN came = 1..n
  BY <1>1, Arrival
<1>12. f \in Frames
  BY DEF Comes
<1>3. fs[k] \in Frames /\ fs[k].ids \in Ids
  <2>1. fs[k] \in Frames
    OBVIOUS
  <2> QED
    BY <2>1 DEF Frames, Ids
<1>4. /\ DOMAIN fs = 1..Len(fs) /\ DOMAIN new = 1..Len(fs)
      /\ new[k] = f /\ \A i \in 1..Len(fs) : i # k => new[i] = fs[i]
  BY <1>12
<1>5. Owned(more, new)
  <2>1. Owned(more, fs)
    BY OwnedStays DEF Told
  <2> HIDE DEF more, new
  <2>2. n + 1 \in DOMAIN more
    BY <1>2
  <2> QED
    BY <1>2, <1>4, <2>1, <2>2 DEF Owned
<1>6. \A key : key # f.key => Chunks(new, key) = Chunks(fs, key)
  <2> TAKE key
  <2> HAVE key # f.key
  <2>1. PartOf(fs[k], key) = PartOf(f, key)
    BY DEF PartOf
  <2> QED
    BY <1>12, <2>1, ChunksOfOthers
<1>7. \E p \in Ids, q \in Ids : /\ Chunks(fs, f.key) = p \o q
                                /\ Chunks(new, f.key) = p \o f.ids
  <2>1. PICK p \in Ids : /\ Chunks(fs, f.key) = p \o PartOf(fs[k], f.key)
                         /\ Chunks(new, f.key) = p \o PartOf(f, f.key)
    BY <1>12, ChunksOfChanged
  <2>2. PartOf(fs[k], f.key) = fs[k].ids /\ PartOf(f, f.key) = f.ids
    BY DEF PartOf
  <2> QED
    BY <1>3, <2>1, <2>2
<1>8. ASSUME NEW m \in DOMAIN came, m \in IdsOf(fs)
      PROVE  m \in IdsOf(new) \/ m \in Stale(more)
  <2>1. PICK i \in DOMAIN fs : \E a \in DOMAIN fs[i].ids : m = fs[i].ids[a]
    BY <1>8, IdsAre
  <2>2. PICK a \in DOMAIN fs[i].ids : m = fs[i].ids[a]
    BY <2>1
  <2>3. CASE i = k
    <3>1. came[m].key = f.key
      BY <2>2, <2>3 DEF Told, Owned
    <3> QED
      BY <3>1, StaleStays
  <2>4. CASE i # k
    <3>1. i \in DOMAIN new /\ a \in DOMAIN new[i].ids /\ m = new[i].ids[a]
      BY <1>4, <2>2, <2>4
    <3> HIDE DEF new
    <3> QED
      BY <3>1, IdsAre
  <2> QED
    BY <2>3, <2>4
<1>9. Len(came) + 1 \in IdsOf(new)
  <2>1. k \in DOMAIN new /\ 1 \in DOMAIN new[k].ids /\ n + 1 = new[k].ids[1]
    BY <1>2, <1>4
  <2> HIDE DEF new
  <2> QED
    BY <1>1, <2>1, IdsAre
<1>10. f.key \notin Text \cup {Plain}
  BY CoalescerAssumption
<1> HIDE DEF more, new
<1>11. Told(more, new)
  BY <1>5, <1>6, <1>7, <1>8, <1>9, <1>10, ToldBeside DEF more
<1> QED
  BY <1>11 DEF more, new

(* Frames wait one for each text or call, and none once disposed.           *)
OneEach(es) == \A i, j \in DOMAIN es : es[i].key = es[j].key => i = j

Bucket ==
  /\ OneEach(entries)
  /\ disposed => entries = <<>>

CoalescerInv == CoalescerTypeOK /\ Bucket /\ Told(in, out \o entries)

LEMMA EmptyHasNone == DOMAIN <<>> = {} /\ <<>> \in Seq(Frames)
OBVIOUS

LEMMA CoalescerInvInit == CoalescerInit => CoalescerInv
<1> SUFFICES ASSUME CoalescerInit PROVE CoalescerInv
  OBVIOUS
<1>1. in = <<>> /\ entries = <<>> /\ out = <<>> /\ out \o entries = <<>>
  BY DEF CoalescerInit
<1>2. CoalescerTypeOK
  BY <1>1, EmptyHasNone DEF CoalescerInit, CoalescerTypeOK
<1>4. Bucket
  BY <1>1, EmptyHasNone DEF Bucket, OneEach
<1>3. Told(<<>>, <<>>)
  <2>1. \A key : Chunks(<<>>, key) = <<>>
    BY NoChunks
  <2> QED
    BY <2>1 DEF Told, Owned, Rising
<1> QED
  BY <1>1, <1>2, <1>3, <1>4 DEF CoalescerInv

(* A place among the second of two sequences.                               *)
LEMMA PlaceBehind ==
  ASSUME NEW n \in Nat, NEW m \in Nat, NEW i \in 1..m, NEW k, k = n + i,
         NEW p \in 1..(n + m), ~(p <= n)
  PROVE  p - n \in 1..m /\ p = n + (p - n) /\ (p - n = i <=> p = k)
OBVIOUS

(* A frame is put into the bucket.                                          *)
LEMMA BufferedTells ==
  ASSUME CoalescerInv, NEW f, Comes(in, f), f.key # Plain
  PROVE  /\ Buffered(f) \in Seq(Frames)
         /\ OneEach(Buffered(f))
         /\ Buffered(f) # <<>>
         /\ Told(Append(in, f), out \o Buffered(f))
<1>1. /\ entries \in Seq(Frames) /\ out \in Seq(Frames) /\ f \in Frames
      /\ OneEach(entries) /\ Told(in, out \o entries)
  BY DEF CoalescerInv, CoalescerTypeOK, Bucket, Comes
<1> DEFINE all == out \o entries
<1>2. /\ all \in Seq(Frames) /\ Len(out) \in Nat /\ Len(entries) \in Nat
      /\ Len(all) = Len(out) + Len(entries)
      /\ \A i \in 1..Len(out) : all[i] = out[i]
      /\ \A i \in 1..Len(entries) : all[Len(out) + i] = entries[i]
      /\ DOMAIN entries = 1..Len(entries)
  BY <1>1, ConcatProperties
<1>3. CASE InBucket(f) = {}
  <2>1. Buffered(f) = Append(entries, f)
    BY <1>3 DEF Buffered
  <2>2. out \o Append(entries, f) = Append(all, f)
    BY <1>1
  <2>3. Told(Append(in, f), Append(all, f))
    BY <1>1, <1>2, ToldMore
  <2>4. \A i \in DOMAIN entries : entries[i].key # f.key
    BY <1>3 DEF InBucket
  <2>5. /\ Append(entries, f) \in Seq(Frames) /\ Append(entries, f) # <<>>
        /\ OneEach(Append(entries, f))
    BY <1>1, <1>2, <2>4 DEF OneEach
  <2> QED
    BY <2>1, <2>2, <2>3, <2>5
<1>4. CASE InBucket(f) # {}
  <2>1. PICK i : i = CHOOSE j \in InBucket(f) : TRUE
    OBVIOUS
  <2>2. i \in 1..Len(entries) /\ entries[i].key = f.key
    BY <1>2, <1>4, <2>1 DEF InBucket
  <2>3. PICK k : k = Len(out) + i
    OBVIOUS
  <2>4. k \in 1..Len(all) /\ all[k].key = f.key /\ all[k] = entries[i]
    BY <1>2, <2>2, <2>3
  <2>5. \A j \in 1..Len(all) : j > k => all[j].key # f.key
    <3> TAKE j \in 1..Len(all)
    <3> HAVE j > k
    <3>1. j - Len(out) \in 1..Len(entries) /\ j = Len(out) + (j - Len(out))
          /\ j - Len(out) # i
      BY <1>2, <2>2, <2>3
    <3>2. all[j] = entries[j - Len(out)]
      BY <1>2, <3>1
    <3> QED
      BY <1>1, <1>2, <2>2, <3>1, <3>2 DEF OneEach
  <2>6. ASSUME NEW e \in Frames, e.key = f.key
        PROVE  /\ out \o [entries EXCEPT ![i] = e] = [all EXCEPT ![k] = e]
               /\ [entries EXCEPT ![i] = e] \in Seq(Frames)
               /\ [entries EXCEPT ![i] = e] # <<>>
               /\ OneEach([entries EXCEPT ![i] = e])
    <3> DEFINE new == [entries EXCEPT ![i] = e]
    <3>1. /\ new \in Seq(Frames) /\ Len(new) = Len(entries)
          /\ \A p \in 1..Len(entries) :
               new[p] = IF p = i THEN e ELSE entries[p]
      BY <1>1, <2>2, ExceptSeq
    <3>2. /\ out \o new \in Seq(Frames) /\ Len(out \o new) = Len(all)
          /\ \A p \in 1..Len(all) : (out \o new)[p] =
               IF p <= Len(out) THEN out[p] ELSE new[p - Len(out)]
      <4> HIDE DEF new
      <4>0. out \in Seq(Frames) /\ new \in Seq(Frames)
        BY <1>1, <3>1
      <4>1. /\ out \o new \in Seq(Frames)
            /\ Len(out \o new) = Len(out) + Len(new)
            /\ \A p \in 1..(Len(out) + Len(new)) : (out \o new)[p] =
                 IF p <= Len(out) THEN out[p] ELSE new[p - Len(out)]
        BY <4>0, ConcatProperties
      <4>2. Len(out) + Len(new) = Len(all)
        BY <1>2, <3>1
      <4> HIDE DEF all
      <4> QED
        BY <4>1, <4>2
    <3>3. /\ [all EXCEPT ![k] = e] \in Seq(Frames)
          /\ Len([all EXCEPT ![k] = e]) = Len(all)
          /\ \A p \in 1..Len(all) : [all EXCEPT ![k] = e][p] =
                                      IF p = k THEN e ELSE all[p]
      <4> HIDE DEF all
      <4> QED
        BY <1>2, <2>4, ExceptSeq
    <3>4. \A p \in 1..Len(all) : (out \o new)[p] = [all EXCEPT ![k] = e][p]
      <4> HIDE DEF new, all
      <4> TAKE p \in 1..Len(all)
      <4>1. CASE p <= Len(out)
        <5>1. p \in 1..Len(out) /\ p # k
          BY <1>2, <2>2, <2>3, <4>1
        <5> QED
          BY <5>1, <4>1, <1>2, <3>2, <3>3
      <4>2. CASE ~(p <= Len(out))
        <5>1. /\ p - Len(out) \in 1..Len(entries)
              /\ p = Len(out) + (p - Len(out))
              /\ p - Len(out) = i <=> p = k
          <6>1. PICK n \in Nat, m \in Nat :
                  n = Len(out) /\ m = Len(entries) /\ Len(all) = n + m
            BY <1>2
          <6>2. i \in 1..m /\ k = n + i /\ p \in 1..(n + m) /\ ~(p <= n)
            BY <2>2, <2>3, <4>2, <6>1
          <6>3. p - n \in 1..m /\ p = n + (p - n) /\ (p - n = i <=> p = k)
            BY <6>2, PlaceBehind
          <6> QED
            BY <6>1, <6>3
        <5>2. all[p] = entries[p - Len(out)]
          BY <5>1, <1>2
        <5> QED
          BY <5>1, <5>2, <4>2, <3>1, <3>2, <3>3
      <4> QED
        BY <4>1, <4>2
    <3>5. out \o new = [all EXCEPT ![k] = e]
      <4> HIDE DEF new, all
      <4> QED
        BY <3>2, <3>3, <3>4, SeqEqual
    <3>6. new # <<>> /\ DOMAIN new = DOMAIN entries
      <4> HIDE DEF new
      <4> QED
        BY <1>2, <2>2, <3>1
    <3>7. \A p \in DOMAIN new : new[p].key = entries[p].key
      <4> HIDE DEF new
      <4> QED
        BY <1>2, <2>2, <2>6, <3>1, <3>6
    <3> QED
      BY <1>1, <3>1, <3>5, <3>6, <3>7 DEF OneEach
  <2>7. CASE f.key \in Text
    <3>1. PICK e : e = [entries[i] EXCEPT !.ids = @ \o f.ids]
      OBVIOUS
    <3>2. e \in Frames /\ Told(Append(in, f), [all EXCEPT ![k] = e])
      <4>1. Told(in, all)
        BY <1>1
      <4> HIDE DEF all
      <4>2. /\ [all[k] EXCEPT !.ids = @ \o f.ids] \in Frames
            /\ Told(Append(in, f),
                    [all EXCEPT ![k] = [all[k] EXCEPT !.ids = @ \o f.ids]])
        BY <1>2, <2>4, <2>5, <2>7, <4>1, ToldMerged
      <4>3. e = [all[k] EXCEPT !.ids = @ \o f.ids]
        BY <2>4, <3>1
      <4> QED
        BY <4>2, <4>3
    <3>3. e.key = f.key
      BY <1>1, <2>2, <3>1 DEF Frames
    <3>4. Buffered(f) = [entries EXCEPT ![i] = e]
      BY <1>4, <2>1, <2>7, <3>1 DEF Buffered, Merged
    <3>5. /\ out \o [entries EXCEPT ![i] = e] = [all EXCEPT ![k] = e]
          /\ [entries EXCEPT ![i] = e] \in Seq(Frames)
          /\ [entries EXCEPT ![i] = e] # <<>>
          /\ OneEach([entries EXCEPT ![i] = e])
      <4> HIDE DEF all
      <4> QED
        BY <2>6, <3>2, <3>3
    <3>6. out \o Buffered(f) = [all EXCEPT ![k] = e]
      BY <3>4, <3>5
    <3> HIDE DEF all
    <3> QED
      BY <3>2, <3>4, <3>5, <3>6
  <2>8. CASE f.key \notin Text
    <3>1. f.key \in ToolCall
      BY <1>1, <2>8 DEF Frames
    <3>2. Told(Append(in, f), [all EXCEPT ![k] = f])
      <4> HIDE DEF all
      <4> QED
        BY <1>1, <1>2, <2>4, <2>5, <3>1, ToldReplaced DEF all
    <3>3. Buffered(f) = [entries EXCEPT ![i] = f]
      BY <1>4, <2>1, <2>8 DEF Buffered, Merged
    <3>4. /\ out \o [entries EXCEPT ![i] = f] = [all EXCEPT ![k] = f]
          /\ [entries EXCEPT ![i] = f] \in Seq(Frames)
          /\ [entries EXCEPT ![i] = f] # <<>>
          /\ OneEach([entries EXCEPT ![i] = f])
      <4> HIDE DEF all
      <4> QED
        BY <1>1, <2>6
    <3>5. out \o Buffered(f) = [all EXCEPT ![k] = f]
      BY <3>3, <3>4
    <3> HIDE DEF all
    <3> QED
      BY <3>2, <3>3, <3>4, <3>5
  <2> QED
    BY <2>7, <2>8
<1> QED
  BY <1>3, <1>4

LEMMA CoalescerInvStep ==
  CoalescerInv /\ [CoalescerNext]_coalescerVars => CoalescerInv'
<1> SUFFICES ASSUME CoalescerInv, [CoalescerNext]_coalescerVars
             PROVE  CoalescerInv'
  OBVIOUS
<1>1. /\ CoalescerTypeOK /\ Bucket /\ Told(in, out \o entries)
      /\ in \in Seq(Frames) /\ entries \in Seq(Frames) /\ out \in Seq(Frames)
      /\ out \o entries \in Seq(Frames)
      /\ (out \o entries) \o <<>> = out \o entries
  BY ConcatProperties, ConcatEmptySeq DEF CoalescerInv, CoalescerTypeOK
<1>2. CASE Handle
  <2>1. PICK key \in Text \cup ToolCall \cup {Plain}, done \in BOOLEAN :
          LET f == Received(key, done, Len(in) + 1)
          IN /\ in' = Append(in, f)
             /\ \/ /\ disposed /\ out' = Append(out, f)
                   /\ UNCHANGED <<entries, timer>>
                \/ ~disposed /\ key # Plain /\ ~done /\ Buffers(f)
                \/ ~disposed /\ done /\ key # Plain /\ Flushed(Buffered(f))
                \/ ~disposed /\ key = Plain /\ Flushed(Append(entries, f))
    BY <1>2, CoalescerAssumption DEF Handle
  <2>2. PICK f : f = Received(key, done, Len(in) + 1)
    OBVIOUS
  <2>3. /\ f \in Frames /\ f.key = key /\ Comes(in, f)
        /\ UNCHANGED disposed
    <3>1. Len(in) < MaxIn /\ UNCHANGED disposed
      BY <1>2 DEF Handle
    <3>2. Len(in) + 1 \in 1..MaxIn
      BY <1>1, <3>1, CoalescerAssumption
    <3>3. <<Len(in) + 1>> \in Seq(1..MaxIn)
      BY <3>2
    <3>4. f \in Frames /\ f.key = key /\ f.ids = <<Len(in) + 1>>
      BY <2>2, <3>3 DEF Received, Frames
    <3> QED
      BY <1>1, <3>1, <3>4 DEF Comes
  <2>4. in' = Append(in, f) /\ in' \in Seq(Frames)
    BY <1>1, <2>1, <2>2, <2>3
  <2>5. CASE disposed /\ out' = Append(out, f) /\ UNCHANGED <<entries, timer>>
    <3>1. entries = <<>> /\ out \o entries = out
      BY <1>1, <2>5, ConcatEmptySeq DEF Bucket
    <3>2. out' \o entries' = Append(out, f) /\ out' \in Seq(Frames)
      BY <1>1, <2>3, <2>5, <3>1, ConcatEmptySeq
    <3>3. Told(in', out' \o entries')
      BY <1>1, <2>3, <2>4, <3>1, <3>2, ToldMore
    <3>4. CoalescerTypeOK' /\ Bucket'
      BY <1>1, <2>3, <2>4, <2>5, <3>1, <3>2, EmptyHasNone
         DEF CoalescerTypeOK, Bucket
    <3> QED
      BY <3>3, <3>4 DEF CoalescerInv
  <2>6. CASE ~disposed /\ key # Plain
    <3>1. /\ Buffered(f) \in Seq(Frames) /\ Buffered(f) # <<>>
          /\ OneEach(Buffered(f))
          /\ Told(Append(in, f), out \o Buffered(f))
      BY <2>3, <2>6, BufferedTells
    <3>2. CASE Buffers(f)
      <4>1. entries' = Buffered(f) /\ timer' = TRUE /\ out' = out
        BY <3>2 DEF Buffers
      <4>2. CoalescerTypeOK' /\ Bucket'
        BY <1>1, <2>3, <2>4, <2>6, <3>1, <4>1 DEF CoalescerTypeOK, Bucket
      <4> QED
        BY <2>4, <3>1, <4>1, <4>2 DEF CoalescerInv
    <3>3. CASE Flushed(Buffered(f))
      <4>1. entries' = <<>> /\ timer' = FALSE /\ out' = out \o Buffered(f)
        BY <3>3 DEF Flushed
      <4>2. out' \in Seq(Frames) /\ out' \o entries' = out \o Buffered(f)
        BY <1>1, <3>1, <4>1, ConcatProperties, ConcatEmptySeq
      <4>3. CoalescerTypeOK'
        BY <1>1, <2>3, <2>4, <4>1, <4>2, EmptyHasNone
           DEF CoalescerTypeOK
      <4>4. Bucket'
        BY <4>1, EmptyHasNone DEF Bucket, OneEach
      <4> QED
        BY <2>4, <3>1, <4>2, <4>3, <4>4 DEF CoalescerInv
    <3> QED
      BY <2>1, <2>2, <2>6, <3>2, <3>3
  <2>7. CASE ~disposed /\ Flushed(Append(entries, f))
    <3>1. /\ entries' = <<>> /\ timer' = FALSE
          /\ out' = out \o Append(entries, f)
      BY <2>7 DEF Flushed
    <3>2. /\ out' = Append(out \o entries, f) /\ out' \in Seq(Frames)
          /\ out' \o entries' = out'
      <4>1. out \o Append(entries, f) = Append(out \o entries, f)
        BY <1>1
      <4> QED
        BY <1>1, <2>3, <3>1, <4>1, ConcatEmptySeq
    <3>3. Told(in', out' \o entries')
      BY <1>1, <2>3, <2>4, <3>2, ToldMore
    <3>4. CoalescerTypeOK'
      BY <1>1, <2>3, <2>4, <3>1, <3>2, EmptyHasNone
         DEF CoalescerTypeOK
    <3>5. Bucket'
      BY <3>1, EmptyHasNone DEF Bucket, OneEach
    <3> QED
      BY <3>3, <3>4, <3>5 DEF CoalescerInv
  <2> QED
    BY <2>1, <2>2, <2>5, <2>6, <2>7
<1>3. CASE Flush \/ Dispose
  <2>1. /\ entries' = <<>> /\ timer' = FALSE /\ out' = out \o entries
        /\ in' = in /\ disposed' \in BOOLEAN
    BY <1>1, <1>3 DEF Flush, Dispose, Flushed, CoalescerTypeOK
  <2>2. CoalescerTypeOK'
    BY <1>1, <2>1, EmptyHasNone DEF CoalescerTypeOK
  <2>3. Bucket'
    BY <2>1, EmptyHasNone DEF Bucket, OneEach
  <2> QED
    BY <1>1, <2>1, <2>2, <2>3 DEF CoalescerInv
<1>4. CASE UNCHANGED coalescerVars
  BY <1>1, <1>4 DEF coalescerVars, CoalescerInv, CoalescerTypeOK, Bucket
<1> QED
  BY <1>2, <1>3, <1>4 DEF CoalescerNext

(* The coalescer's state has its types, and a bucket that holds anything    *)
(* has a timer that will empty it (scheduleFlush).                          *)
THEOREM CoalescerTypes == CoalescerSpec => []CoalescerTypeOK
<1>1. CoalescerInv => CoalescerTypeOK
  BY DEF CoalescerInv
<1> QED
  BY <1>1, CoalescerInvInit, CoalescerInvStep, PTL DEF CoalescerSpec

(* However frames come, wait and are flushed, what left and what waits is   *)
(* what came: every chunk of a text once and in order, every other frame    *)
(* once, and no snapshot missing but one that a later snapshot replaced.    *)
THEOREM ChunksComeOnce == CoalescerSpec => []EachChunkOnce
<1>1. CoalescerInv => EachChunkOnce
  <2> SUFFICES ASSUME CoalescerInv PROVE EachChunkOnce
    OBVIOUS
  <2>1. Told(in, out \o entries) /\ Superseded = Stale(in)
    BY DEF CoalescerInv, Superseded, Stale
  <2>2. ASSUME NEW c \in ToolCall
        PROVE  IsInjective(Chunks(out \o entries, c))
    <3>1. PICK s : s = Chunks(out \o entries, c)
      OBVIOUS
    <3>2. s \in Ids
      <4>1. out \o entries \in Seq(Frames)
        BY ConcatProperties DEF CoalescerInv, CoalescerTypeOK
      <4> QED
        BY <3>1, <4>1, ChunksTyped
    <3>3. Rising(s)
      BY <2>1, <2>2, <3>1 DEF Told
    <3>4. \A a \in DOMAIN s : a \in Nat /\ s[a] \in Nat
      <4>1. DOMAIN s = 1..Len(s) /\ \A a \in 1..Len(s) : s[a] \in 1..MaxIn
        BY <3>2, LenProperties, ElementOfSeq DEF Ids
      <4> QED
        BY <4>1, CoalescerAssumption
    <3>5. IsInjective(s)
      <4> SUFFICES ASSUME NEW a \in DOMAIN s, NEW b \in DOMAIN s, s[a] = s[b]
                   PROVE  a = b
        BY DEF IsInjective
      <4>1. ~(a < b) /\ ~(b < a)
        BY <3>3, <3>4 DEF Rising
      <4> QED
        BY <3>4, <4>1
    <3> QED
      BY <3>1, <3>5
  <2> QED
    BY <2>1, <2>2 DEF Told, EachChunkOnce
<1> QED
  BY <1>1, CoalescerInvInit, CoalescerInvStep, PTL DEF CoalescerSpec

-----------------------------------------------------------------------------
(* A turn as a stream and as a body: what a rule makes of the frames        *)

FrameSeqs == Seq(ChatFrames)

LEMMA PickIsFrames ==
  ASSUME NEW so \in FrameSeqs, NEW f \in ChatFrames, NEW kinds
  PROVE  Pick(so, f, kinds) \in FrameSeqs
BY AppendProperties DEF Pick, FrameSeqs

LEMMA PutIsFrames ==
  ASSUME NEW so \in FrameSeqs, NEW f \in ChatFrames
  PROVE  Put(so, f) \in FrameSeqs
<1>1. CASE so # <<>> /\ Continues(Last(so), f)
  <2>1. Len(so) \in Nat /\ Len(so) # 0 /\ Last(so) \in ChatFrames
    BY <1>1, EmptySeq, LenProperties, ElementOfSeq DEF FrameSeqs, Last
  <2>2. Continued(Last(so), f) \in ChatFrames
    <3>1. /\ Last(so).body \in Seq(Nat) /\ f.body \in Seq(Nat)
          /\ f.id \in Nat
      BY <2>1 DEF ChatFrames
    <3>2. Last(so).body \o f.body \in Seq(Nat)
      BY <3>1, ConcatProperties
    <3> QED
      BY <2>1, <3>1, <3>2 DEF Continued, ChatFrames
  <2>3. Front(so) \in FrameSeqs
    BY <2>1, SubSeqProperties DEF FrameSeqs, Front
  <2>4. <<Continued(Last(so), f)>> \in FrameSeqs
    BY <2>2 DEF FrameSeqs
  <2> QED
    BY <1>1, <2>3, <2>4, ConcatProperties DEF Put, FrameSeqs
<1>2. CASE ~(so # <<>> /\ Continues(Last(so), f))
  BY <1>2, AppendProperties DEF Put, FrameSeqs
<1> QED
  BY <1>1, <1>2

(* What each beginning of the frames leaves of some kinds.                  *)
Picks(g, fs, kinds) ==
  /\ g \in [0..Len(fs) -> FrameSeqs]
  /\ g[0] = <<>>
  /\ \A i \in 1..Len(fs) : g[i] = Pick(g[i - 1], fs[i], kinds)

(* There is one such sequence for each beginning, ...                       *)
LEMMA PicksExist ==
  ASSUME NEW fs \in FrameSeqs, NEW kinds
  PROVE  \E g : Picks(g, fs, kinds)
<1> DEFINE n == Len(fs)
    rule == [q \in (1..n) \X FrameSeqs |-> Pick(q[2], fs[q[1]], kinds)]
<1>1. n \in Nat /\ \A i \in 1..n : fs[i] \in ChatFrames
  BY DEF FrameSeqs
<1>2. rule \in [(1..n) \X FrameSeqs -> FrameSeqs]
  BY <1>1, PickIsFrames
<1>3. <<>> \in FrameSeqs
  BY DEF FrameSeqs
<1>4. PICK g \in [0..n -> FrameSeqs] : Follows(g, n, <<>>, rule)
  <2> HIDE DEF n, rule
  <2> QED
    BY <1>1, <1>2, <1>3, Recursion
<1>5. \A i \in 1..n : g[i] = Pick(g[i - 1], fs[i], kinds)
  <2> TAKE i \in 1..n
  <2>1. g[i - 1] \in FrameSeqs
    BY <1>1
  <2>2. <<i, g[i - 1]>> \in (1..n) \X FrameSeqs
    BY <2>1
  <2>3. g[i] = rule[<<i, g[i - 1]>>]
    BY <1>4 DEF Follows
  <2> QED
    BY <2>2, <2>3
<1> QED
  BY <1>4, <1>5 DEF Picks, Follows

(* ... and its last value is what Picked is defined to be.                  *)
LEMMA PicksAreLast ==
  ASSUME NEW fs \in FrameSeqs, NEW kinds, NEW g, Picks(g, fs, kinds)
  PROVE  Picked(fs, kinds) = g[Len(fs)]
<1> DEFINE n == Len(fs)
    Def(f) == f = [i \in 0..n |-> IF i = 0 THEN <<>>
                                  ELSE Pick(f[i - 1], fs[i], kinds)]
    U == CHOOSE f : Def(f)
    Bad == {i \in 0..n : U[i] # g[i]}
<1>1. n \in Nat
  BY DEF FrameSeqs
<1>2. Def(g)
  <2>1. \A i \in 0..n : i = 0 \/ i \in 1..n
    BY <1>1
  <2> QED
    BY <2>1 DEF Picks
<1>3. Def(U)
  BY <1>2
<1>4. Picked(fs, kinds) = U[n]
  BY DEF Picked
<1>5. U[0] = <<>> /\ \A i \in 1..n : U[i] = Pick(U[i - 1], fs[i], kinds)
  <2> HIDE DEF U
  <2>1. 0 \in 0..n /\ \A i \in 1..n : i \in 0..n /\ i # 0
    BY <1>1
  <2> QED
    BY <1>3, <2>1
<1> HIDE DEF U
<1>6. Bad = {}
  <2> SUFFICES ASSUME Bad # {} PROVE FALSE
    OBVIOUS
  <2>1. PICK k \in Bad : \A l \in Bad : k <= l
    <3>1. Bad \in SUBSET Nat
      BY <1>1
    <3> HIDE DEF Bad
    <3> QED
      BY <3>1, LeastNumber
  <2>2. k # 0
    BY <1>5, <2>1 DEF Picks
  <2>3. k \in 1..n /\ k - 1 \in 0..n /\ k - 1 < k
    BY <1>1, <2>1, <2>2
  <2>4. U[k - 1] = g[k - 1]
    BY <1>1, <2>1, <2>3
  <2> QED
    BY <1>5, <2>1, <2>3, <2>4 DEF Picks
<1> QED
  BY <1>1, <1>4, <1>6

LEMMA PicksTyped ==
  ASSUME NEW fs \in FrameSeqs, NEW kinds
  PROVE  Picked(fs, kinds) \in FrameSeqs
<1>1. PICK g : Picks(g, fs, kinds)
  BY PicksExist
<1>2. g[Len(fs)] \in FrameSeqs
  BY <1>1 DEF Picks, FrameSeqs
<1> QED
  BY <1>1, <1>2, PicksAreLast

LEMMA PicksOfNone ==
  ASSUME NEW kinds
  PROVE  Picked(<<>>, kinds) = <<>>
<1> DEFINE g == [i \in 0..0 |-> <<>>]
<1>1. Picks(g, <<>>, kinds) /\ <<>> \in FrameSeqs
  BY DEF Picks, FrameSeqs
<1> QED
  BY <1>1, PicksAreLast

(* One more frame is picked, or left, behind the others.                    *)
LEMMA PicksOfMore ==
  ASSUME NEW fs \in FrameSeqs, NEW f \in ChatFrames, NEW kinds
  PROVE  Picked(Append(fs, f), kinds) = Pick(Picked(fs, kinds), f, kinds)
<1> DEFINE n == Len(fs)
           more == Append(fs, f)
<1>1. PICK g : Picks(g, fs, kinds)
  BY PicksExist
<1> DEFINE last == Pick(g[n], f, kinds)
           h == [i \in 0..(n + 1) |-> IF i = n + 1 THEN last ELSE g[i]]
<1>2. /\ n \in Nat /\ more \in FrameSeqs /\ Len(more) = n + 1
      /\ more[n + 1] = f /\ \A i \in 1..n : more[i] = fs[i]
  BY DEF FrameSeqs
<1>3. g[n] \in FrameSeqs /\ last \in FrameSeqs
  BY <1>1, <1>2, PickIsFrames DEF Picks
<1>4. h \in [0..(n + 1) -> FrameSeqs] /\ h[0] = <<>>
  BY <1>1, <1>2, <1>3 DEF Picks
<1>5. ASSUME NEW i \in 1..(n + 1)
      PROVE  h[i] = Pick(h[i - 1], more[i], kinds)
  <2>1. CASE i = n + 1
    <3>1. h[i] = last /\ h[i - 1] = g[n]
      BY <1>2, <2>1
    <3> QED
      BY <3>1, <2>1, <1>2
  <2>2. CASE i # n + 1
    <3>1. i \in 1..n /\ h[i] = g[i] /\ h[i - 1] = g[i - 1]
      BY <1>2, <2>2
    <3>2. g[i] = Pick(g[i - 1], fs[i], kinds)
      BY <3>1, <1>1 DEF Picks
    <3> QED
      BY <3>1, <3>2, <1>2
  <2> QED
    BY <2>1, <2>2
<1>6. h[n + 1] = last
  BY <1>2
<1> HIDE DEF h, last
<1>7. Picks(h, more, kinds)
  BY <1>2, <1>4, <1>5 DEF Picks
<1>8. Picked(more, kinds) = h[n + 1] /\ Picked(fs, kinds) = g[n]
  <2> HIDE DEF more
  <2> QED
    BY <1>1, <1>2, <1>7, PicksAreLast
<1> QED
  BY <1>6, <1>8 DEF last

(* What each beginning of the frames leaves when texts are joined.          *)
Puts(g, fs) ==
  /\ g \in [0..Len(fs) -> FrameSeqs]
  /\ g[0] = <<>>
  /\ \A i \in 1..Len(fs) : g[i] = Put(g[i - 1], fs[i])

(* Of this, too, there is one, ...                                          *)
LEMMA PutsExist ==
  ASSUME NEW fs \in FrameSeqs
  PROVE  \E g : Puts(g, fs)
<1> DEFINE n == Len(fs)
    rule == [q \in (1..n) \X FrameSeqs |-> Put(q[2], fs[q[1]])]
<1>1. n \in Nat /\ \A i \in 1..n : fs[i] \in ChatFrames
  BY DEF FrameSeqs
<1>2. rule \in [(1..n) \X FrameSeqs -> FrameSeqs]
  BY <1>1, PutIsFrames
<1>3. <<>> \in FrameSeqs
  BY DEF FrameSeqs
<1>4. PICK g \in [0..n -> FrameSeqs] : Follows(g, n, <<>>, rule)
  <2> HIDE DEF n, rule
  <2> QED
    BY <1>1, <1>2, <1>3, Recursion
<1>5. \A i \in 1..n : g[i] = Put(g[i - 1], fs[i])
  <2> TAKE i \in 1..n
  <2>1. g[i - 1] \in FrameSeqs
    BY <1>1
  <2>2. <<i, g[i - 1]>> \in (1..n) \X FrameSeqs
    BY <2>1
  <2>3. g[i] = rule[<<i, g[i - 1]>>]
    BY <1>4 DEF Follows
  <2> QED
    BY <2>2, <2>3
<1> QED
  BY <1>4, <1>5 DEF Puts, Follows

(* ... and its last value is Coalesced.                                     *)
LEMMA PutsAreLast ==
  ASSUME NEW fs \in FrameSeqs, NEW g, Puts(g, fs)
  PROVE  Coalesced(fs) = g[Len(fs)]
<1> DEFINE n == Len(fs)
    Def(f) == f = [i \in 0..n |-> IF i = 0 THEN <<>>
                                  ELSE Put(f[i - 1], fs[i])]
    U == CHOOSE f : Def(f)
    Bad == {i \in 0..n : U[i] # g[i]}
<1>1. n \in Nat
  BY DEF FrameSeqs
<1>2. Def(g)
  <2>1. \A i \in 0..n : i = 0 \/ i \in 1..n
    BY <1>1
  <2> QED
    BY <2>1 DEF Puts
<1>3. Def(U)
  BY <1>2
<1>4. Coalesced(fs) = U[n]
  BY DEF Coalesced
<1>5. U[0] = <<>> /\ \A i \in 1..n : U[i] = Put(U[i - 1], fs[i])
  <2> HIDE DEF U
  <2>1. 0 \in 0..n /\ \A i \in 1..n : i \in 0..n /\ i # 0
    BY <1>1
  <2> QED
    BY <1>3, <2>1
<1> HIDE DEF U
<1>6. Bad = {}
  <2> SUFFICES ASSUME Bad # {} PROVE FALSE
    OBVIOUS
  <2>1. PICK k \in Bad : \A l \in Bad : k <= l
    <3>1. Bad \in SUBSET Nat
      BY <1>1
    <3> HIDE DEF Bad
    <3> QED
      BY <3>1, LeastNumber
  <2>2. k # 0
    BY <1>5, <2>1 DEF Puts
  <2>3. k \in 1..n /\ k - 1 \in 0..n /\ k - 1 < k
    BY <1>1, <2>1, <2>2
  <2>4. U[k - 1] = g[k - 1]
    BY <1>1, <2>1, <2>3
  <2> QED
    BY <1>5, <2>1, <2>3, <2>4 DEF Puts
<1> QED
  BY <1>1, <1>4, <1>6

LEMMA PutsTyped ==
  ASSUME NEW fs \in FrameSeqs
  PROVE  Coalesced(fs) \in FrameSeqs
<1>1. PICK g : Puts(g, fs)
  BY PutsExist
<1>2. g[Len(fs)] \in FrameSeqs
  BY <1>1 DEF Puts, FrameSeqs
<1> QED
  BY <1>1, <1>2, PutsAreLast

LEMMA PutsOfNone ==
  Coalesced(<<>>) = <<>>
<1> DEFINE g == [i \in 0..0 |-> <<>>]
<1>1. Puts(g, <<>>) /\ <<>> \in FrameSeqs
  BY DEF Puts, FrameSeqs
<1> QED
  BY <1>1, PutsAreLast

(* One more frame is put to the others.                                     *)
LEMMA PutsOfMore ==
  ASSUME NEW fs \in FrameSeqs, NEW f \in ChatFrames
  PROVE  Coalesced(Append(fs, f)) = Put(Coalesced(fs), f)
<1> DEFINE n == Len(fs)
           more == Append(fs, f)
<1>1. PICK g : Puts(g, fs)
  BY PutsExist
<1> DEFINE last == Put(g[n], f)
           h == [i \in 0..(n + 1) |-> IF i = n + 1 THEN last ELSE g[i]]
<1>2. /\ n \in Nat /\ more \in FrameSeqs /\ Len(more) = n + 1
      /\ more[n + 1] = f /\ \A i \in 1..n : more[i] = fs[i]
  BY DEF FrameSeqs
<1>3. g[n] \in FrameSeqs /\ last \in FrameSeqs
  BY <1>1, <1>2, PutIsFrames DEF Puts
<1>4. h \in [0..(n + 1) -> FrameSeqs] /\ h[0] = <<>>
  BY <1>1, <1>2, <1>3 DEF Puts
<1>5. ASSUME NEW i \in 1..(n + 1)
      PROVE  h[i] = Put(h[i - 1], more[i])
  <2>1. CASE i = n + 1
    <3>1. h[i] = last /\ h[i - 1] = g[n]
      BY <1>2, <2>1
    <3> QED
      BY <3>1, <2>1, <1>2
  <2>2. CASE i # n + 1
    <3>1. i \in 1..n /\ h[i] = g[i] /\ h[i - 1] = g[i - 1]
      BY <1>2, <2>2
    <3>2. g[i] = Put(g[i - 1], fs[i])
      BY <3>1, <1>1 DEF Puts
    <3> QED
      BY <3>1, <3>2, <1>2
  <2> QED
    BY <2>1, <2>2
<1>6. h[n + 1] = last
  BY <1>2
<1> HIDE DEF h, last
<1>7. Puts(h, more)
  BY <1>2, <1>4, <1>5 DEF Puts
<1>8. Coalesced(more) = h[n + 1] /\ Coalesced(fs) = g[n]
  <2> HIDE DEF more
  <2> QED
    BY <1>1, <1>2, <1>7, PutsAreLast
<1> QED
  BY <1>6, <1>8 DEF last

-----------------------------------------------------------------------------
(* One frame more, or one that is changed                                   *)

LEMMA FrameAppended ==
  ASSUME NEW s \in FrameSeqs, NEW f \in ChatFrames
  PROVE  /\ Append(s, f) \in FrameSeqs /\ Append(s, f) # <<>>
         /\ Last(Append(s, f)) = f /\ Front(Append(s, f)) = s
         /\ s \o <<f>> = Append(s, f)
<1>1. /\ Len(Append(s, f)) = Len(s) + 1 /\ Append(s, f)[Len(s) + 1] = f
      /\ Append(s, f) \in FrameSeqs /\ Append(s, f) # <<>>
      /\ Len(s) \in Nat
  BY AppendProperties, LenProperties DEF FrameSeqs
<1>2. Last(Append(s, f)) = f
  BY <1>1 DEF Last
<1>3. Front(Append(s, f)) = s
  BY <1>1 DEF Front, FrameSeqs
<1>4. s \o <<f>> = Append(s, f)
  BY AppendIsConcat DEF FrameSeqs
<1> QED
  BY <1>1, <1>2, <1>3, <1>4

LEMMA FramesEnd ==
  ASSUME NEW s \in FrameSeqs, s # <<>>
  PROVE  /\ Front(s) \in FrameSeqs /\ Last(s) \in ChatFrames
         /\ s = Append(Front(s), Last(s))
<1>1. Len(s) \in Nat /\ Len(s) # 0 /\ Last(s) \in ChatFrames
  BY EmptySeq, LenProperties, ElementOfSeq DEF FrameSeqs, Last
<1>2. Front(s) \in FrameSeqs
  BY <1>1, SubSeqProperties DEF FrameSeqs, Front
<1>3. s = Append(Front(s), Last(s))
  BY <1>1, <1>2 DEF Front, Last, FrameSeqs
<1> QED
  BY <1>1, <1>2, <1>3

(* None or one.                                                             *)
LEMMA NoneOrOne ==
  ASSUME NEW p \in FrameSeqs, Len(p) <= 1
  PROVE  \/ p = <<>>
         \/ p[1] \in ChatFrames /\ p = <<p[1]>>
<1>1. Len(p) = 0 \/ Len(p) = 1
  <2>1. Len(p) \in Nat
    BY LenProperties DEF FrameSeqs
  <2> QED
    BY <2>1
<1>2. Len(p) = 0 => p = <<>>
  BY EmptySeq DEF FrameSeqs
<1>3. ASSUME Len(p) = 1 PROVE p[1] \in ChatFrames /\ p = <<p[1]>>
  <2>1. p[1] \in ChatFrames
    BY <1>3, ElementOfSeq DEF FrameSeqs
  <2>2. Len(<<p[1]>>) = 1 /\ <<p[1]>>[1] = p[1] /\ <<p[1]>> \in FrameSeqs
    BY <2>1 DEF FrameSeqs
  <2>3. p = <<p[1]>>
    <3>1. \A i \in 1..Len(p) : p[i] = <<p[1]>>[i]
      BY <1>3, <2>2
    <3> QED
      BY <1>3, <2>2, <3>1, SeqEqual DEF FrameSeqs
  <2> QED
    BY <2>1, <2>3
<1> QED
  BY <1>1, <1>2, <1>3

LEMMA PicksOfPart ==
  ASSUME NEW s \in FrameSeqs, NEW p \in FrameSeqs, Len(p) <= 1, NEW kinds
  PROVE  Picked(s \o p, kinds) =
           IF p # <<>> /\ p[1].kind \in kinds THEN Picked(s, kinds) \o p
           ELSE Picked(s, kinds)
<1>1. CASE p = <<>>
  <2>1. s \o p = s
    BY <1>1, ConcatEmptySeq DEF FrameSeqs
  <2> QED
    BY <1>1, <2>1
<1>2. CASE p # <<>>
  <2>1. p[1] \in ChatFrames /\ p = <<p[1]>>
    BY <1>2, NoneOrOne
  <2>2. s \o p = Append(s, p[1])
    BY <2>1, FrameAppended
  <2>3. Picked(s, kinds) \in FrameSeqs
    BY PicksTyped
  <2>4. Picked(s, kinds) \o p = Append(Picked(s, kinds), p[1])
    BY <2>1, <2>3, FrameAppended
  <2>5. Picked(s \o p, kinds) = Pick(Picked(s, kinds), p[1], kinds)
    BY <2>1, <2>2, PicksOfMore
  <2> QED
    BY <1>2, <2>4, <2>5 DEF Pick
<1> QED
  BY <1>1, <1>2

(* A text that is continued changes nothing in front of it.                 *)
LEMMA PicksOfContinued ==
  ASSUME NEW s \in FrameSeqs, s # <<>>, NEW f \in ChatFrames, NEW kinds,
         NEW g \in ChatFrames, g.kind = Last(s).kind
  PROVE  /\ Picked(s, kinds) = Pick(Picked(Front(s), kinds), Last(s), kinds)
         /\ Picked(Front(s) \o <<g>>, kinds) =
              Pick(Picked(Front(s), kinds), g, kinds)
<1>1. /\ Front(s) \in FrameSeqs /\ Last(s) \in ChatFrames
      /\ s = Append(Front(s), Last(s))
  BY FramesEnd
<1>2. Front(s) \o <<g>> = Append(Front(s), g)
  BY <1>1, FrameAppended
<1>3. Picked(Append(Front(s), Last(s)), kinds)
        = Pick(Picked(Front(s), kinds), Last(s), kinds)
  BY <1>1, PicksOfMore
<1>4. Picked(Append(Front(s), g), kinds)
        = Pick(Picked(Front(s), kinds), g, kinds)
  BY <1>1, PicksOfMore
<1> QED
  BY <1>1, <1>2, <1>3, <1>4

LEMMA StoryBegins ==
  ASSUME NEW s \in FrameSeqs, NEW t \in FrameSeqs
  PROVE  IsPrefix(s, s \o t)
BY DEF IsPrefix, FrameSeqs

-----------------------------------------------------------------------------
(* The stream and the body while the turn is open                           *)

Said == {"assistant", "tool"}
Ends == {"stop", "usage"}
Story == Coalesced(frames)

(* Nothing that comes will be joined to a text of this otid.                *)
Over(otid) ==
  \/ otid = NoOtid
  \/ \E i, j \in DOMAIN raw :
       i < j /\ raw[i].otid = otid /\ raw[j].kind \in Ends

Begun(otid) == otid = NoOtid \/ \E i \in DOMAIN raw : raw[i].otid = otid

(* The messages of the body are those of the stream and the text that is    *)
(* held back, and that text is the one the body would go on with.           *)
SameMessages ==
  /\ Picked(Story, Said) = Picked(wire, Said) \o text
  /\ text # <<>> => text[1].kind = "assistant" /\ Begun(text[1].otid)
  /\ text = <<>> /\ Story # <<>> => Last(Story).kind # "assistant"
  /\ text # <<>> =>
       /\ Story # <<>>
       /\ \/ Last(Story) = text[1]
          \/ Last(Story).kind \in Ends /\ Over(text[1].otid)

(* The ends of steps that are held back are those the body will name.       *)
SameEnds ==
  /\ stop = LastIn(Picked(Story, {"stop"}))
  /\ usage = FirstIn(Picked(Story, {"usage"}))
  /\ stop # <<>> => stop[1].kind = "stop"
  /\ usage # <<>> => usage[1].kind = "usage"
  /\ Picked(wire, {"stop"}) = <<>> /\ Picked(wire, {"usage"}) = <<>>

ChatInv ==
  /\ ChatTypeOK
  /\ turn = "open" => SameMessages /\ SameEnds
  /\ SameStory

LEMMA NoFrames == <<>> \in FrameSeqs /\ Len(<<>>) = 0 /\ DOMAIN <<>> = {}
BY DEF FrameSeqs

LEMMA ChatInvInit == ChatInit => ChatInv
<1> SUFFICES ASSUME ChatInit PROVE ChatInv
  OBVIOUS
<1>1. /\ Coalesced(<<>>) = <<>> /\ \A kinds : Picked(<<>>, kinds) = <<>>
      /\ <<>> \o <<>> = <<>>
  BY PutsOfNone, PicksOfNone
<1>2. ChatTypeOK
  BY NoFrames DEF ChatInit, ChatTypeOK, FrameSeqs
<1>3. SameMessages
  BY <1>1 DEF ChatInit, SameMessages, Story
<1>4. SameEnds
  BY <1>1 DEF ChatInit, SameEnds, Story, LastIn, FirstIn
<1>5. SameStory
  BY <1>1, NoFrames
     DEF ChatInit, SameStory, Messages, IsPrefix
<1> QED
  BY <1>2, <1>3, <1>4, <1>5 DEF ChatInv

-----------------------------------------------------------------------------
(* Steps                                                                    *)

(* What is over stays over, what has begun has begun.                       *)
LEMMA RawGrows ==
  ASSUME raw \in FrameSeqs, NEW f \in ChatFrames, raw' = Append(raw, f)
  PROVE  /\ \A o : Over(o) => Over(o)'
         /\ \A o : Begun(o) => Begun(o)'
         /\ Begun(f.otid)'
         /\ \A o : Begun(o) /\ f.kind \in Ends => Over(o)'
<1>1. /\ Len(raw) \in Nat
      /\ DOMAIN raw = 1..Len(raw) /\ DOMAIN raw' = 1..(Len(raw) + 1)
      /\ raw'[Len(raw) + 1] = f /\ \A i \in 1..Len(raw) : raw'[i] = raw[i]
  BY AppendProperties, LenProperties DEF FrameSeqs
<1>2. Len(raw) + 1 \in DOMAIN raw' /\ \A i \in DOMAIN raw : i < Len(raw) + 1
  BY <1>1
<1>3. \A i \in DOMAIN raw : i \in DOMAIN raw' /\ raw'[i] = raw[i]
  BY <1>1
<1>4. ASSUME NEW o, Over(o) PROVE Over(o)'
  BY <1>3, <1>4 DEF Over
<1>5. ASSUME NEW o, Begun(o) PROVE Begun(o)'
  BY <1>3, <1>5 DEF Begun
<1>6. Begun(f.otid)'
  BY <1>1, <1>2 DEF Begun
<1>7. ASSUME NEW o, Begun(o), f.kind \in Ends PROVE Over(o)'
  BY <1>1, <1>2, <1>3, <1>7 DEF Begun, Over
<1> QED
  BY <1>4, <1>5, <1>6, <1>7

(* A text goes on: it is the last of the body, too.                         *)
LEMMA TextGoesOn ==
  ASSUME ChatTypeOK, SameMessages, SameEnds, NEW f \in ChatFrames,
         Expected(f), text # <<>>, Continues(text[1], f),
         raw' = Append(raw, f), frames' = Append(frames, f),
         text' = <<Continued(text[1], f)>>, UNCHANGED <<wire, stop, usage>>,
         UNCHANGED turn
  PROVE  ChatTypeOK' /\ SameMessages' /\ SameEnds'
<1>1. /\ raw \in FrameSeqs /\ frames \in FrameSeqs /\ wire \in FrameSeqs
      /\ text \in FrameSeqs /\ Len(text) <= 1 /\ Story \in FrameSeqs
  BY PutsTyped DEF ChatTypeOK, FrameSeqs, Story
<1>2. PICK t \in ChatFrames : t = text[1] /\ text = <<t>>
  BY <1>1, NoneOrOne
<1>3. PICK g : g = Continued(t, f)
  OBVIOUS
<1>4. /\ g \in ChatFrames /\ g.kind = "assistant" /\ t.kind = "assistant"
      /\ g.otid = t.otid /\ t.otid = f.otid /\ t.otid # NoOtid
      /\ f.kind = "assistant"
  <2>1. t.kind = "assistant" /\ f.kind = "assistant" /\ t.otid = f.otid
        /\ t.otid # NoOtid
    BY <1>2 DEF Continues
  <2>2. t.body \o f.body \in Seq(Nat)
    <3>1. t.body \in Seq(Nat) /\ f.body \in Seq(Nat)
      BY <1>2 DEF ChatFrames
    <3> QED
      BY <3>1, ConcatProperties
  <2>3. g \in ChatFrames /\ g.kind = t.kind /\ g.otid = t.otid
    BY <1>2, <1>3, <2>2 DEF Continued, ChatFrames
  <2> QED
    BY <2>1, <2>3
<1>5. Story # <<>> /\ Last(Story) = t
  <2>1. ~Over(t.otid)
    BY <1>4 DEF Over, Expected, Ends
  <2> QED
    BY <1>2, <2>1 DEF SameMessages
<1>6. /\ Front(Story) \in FrameSeqs
      /\ Story' = Front(Story) \o <<g>> /\ Story' = Append(Front(Story), g)
  <2>1. Story' = Put(Story, f)
    BY <1>1, PutsOfMore DEF Story
  <2>2. Put(Story, f) = Front(Story) \o <<g>>
    BY <1>2, <1>3, <1>5 DEF Put
  <2>3. Front(Story) \in FrameSeqs
    BY <1>1, <1>5, FramesEnd
  <2> QED
    BY <1>4, <2>1, <2>2, <2>3, FrameAppended
<1>7. Story' # <<>> /\ Last(Story') = g
  BY <1>4, <1>6, FrameAppended
<1>8. ASSUME NEW kinds
      PROVE  /\ Picked(Story, kinds) =
                  Pick(Picked(Front(Story), kinds), t, kinds)
             /\ Picked(Story', kinds) =
                  Pick(Picked(Front(Story), kinds), g, kinds)
  BY <1>1, <1>4, <1>5, <1>6, PicksOfContinued
<1>9. Picked(Story', Said) = Picked(wire, Said) \o <<g>>
  <2>1. PICK p \in FrameSeqs : p = Picked(Front(Story), Said)
    BY <1>6, PicksTyped
  <2>2. PICK q \in FrameSeqs : q = Picked(wire, Said)
    BY <1>1, PicksTyped
  <2>3. Append(p, t) = q \o <<t>>
    BY <1>2, <1>4, <1>8, <2>1, <2>2 DEF SameMessages, Pick, Said
  <2>4. Append(p, t) = Append(q, t)
    BY <1>2, <2>2, <2>3, FrameAppended
  <2>5. p = q
    <3>1. Front(Append(p, t)) = p
      BY <1>2, <2>1, FrameAppended
    <3>2. Front(Append(q, t)) = q
      BY <1>2, <2>2, FrameAppended
    <3> QED
      BY <2>4, <3>1, <3>2
  <2>6. Picked(Story', Said) = Append(q, g)
    BY <1>4, <1>8, <2>1, <2>5 DEF Pick, Said
  <2> QED
    BY <1>4, <2>2, <2>6, FrameAppended
<1>10. /\ Picked(Story', {"stop"}) = Picked(Story, {"stop"})
       /\ Picked(Story', {"usage"}) = Picked(Story, {"usage"})
  BY <1>4, <1>8 DEF Pick
<1>11. text' = <<g>> /\ text'[1] = g /\ text' # <<>>
  BY <1>2, <1>3
<1>12. ChatTypeOK'
  <2>1. raw' \in FrameSeqs /\ frames' \in FrameSeqs
    BY <1>1, FrameAppended
  <2>2. text' \in FrameSeqs /\ Len(text') = 1
    BY <1>4, <1>11 DEF FrameSeqs
  <2> QED
    BY <2>1, <2>2 DEF ChatTypeOK, FrameSeqs
<1>13. Begun(g.otid)'
  BY <1>1, <1>4, RawGrows
<1>14. SameMessages'
  BY <1>4, <1>7, <1>9, <1>11, <1>13 DEF SameMessages
<1>15. SameEnds'
  BY <1>10 DEF SameEnds
<1> QED
  BY <1>12, <1>14, <1>15

(* It does not go on, nor does the text at the end of the body.             *)
LEMMA TextEnds ==
  ASSUME ChatTypeOK, SameMessages, NEW f \in ChatFrames,
         ~(text # <<>> /\ Continues(text[1], f))
  PROVE  Put(Story, f) = Append(Story, f)
<1>1. ~(Story # <<>> /\ Continues(Last(Story), f))
  BY DEF SameMessages, Continues, Ends
<1> QED
  BY <1>1 DEF Put

(* A frame that is not joined to a text, before it is known what becomes of *)
(* the stream.                                                              *)
LEMMA StoryOfMore ==
  ASSUME ChatTypeOK, SameMessages, NEW f \in ChatFrames,
         ~(text # <<>> /\ Continues(text[1], f)), frames' = Append(frames, f)
  PROVE  /\ Story' # <<>> /\ Last(Story') = f
         /\ \A kinds :
              Picked(Story', kinds) = Pick(Picked(Story, kinds), f, kinds)
<1>1. frames \in FrameSeqs /\ Story \in FrameSeqs
  BY PutsTyped DEF ChatTypeOK, FrameSeqs, Story
<1>2. Story' = Append(Story, f)
  <2>1. Story' = Put(Story, f)
    BY <1>1, PutsOfMore DEF Story
  <2> QED
    BY <2>1, TextEnds
<1>3. Story' # <<>> /\ Last(Story') = f
  BY <1>1, <1>2, FrameAppended
<1>4. \A kinds : Picked(Story', kinds) = Pick(Picked(Story, kinds), f, kinds)
  BY <1>1, <1>2, PicksOfMore
<1> QED
  BY <1>3, <1>4

(* The stop reasons and the counts that the body will name.                 *)
LEMMA EndsOfMore ==
  ASSUME ChatTypeOK, SameMessages, SameEnds, NEW f \in ChatFrames,
         ~(text # <<>> /\ Continues(text[1], f)), frames' = Append(frames, f),
         stop' = (IF f.kind = "stop" THEN <<f>> ELSE stop),
         usage' = (IF f.kind = "usage" /\ usage = <<>> THEN <<f>> ELSE usage),
         Picked(wire', {"stop"}) = <<>>, Picked(wire', {"usage"}) = <<>>
  PROVE  SameEnds'
<1>1. Story \in FrameSeqs
  BY PutsTyped DEF ChatTypeOK, FrameSeqs, Story
<1>2. PICK s \in FrameSeqs : s = Picked(Story, {"stop"})
  BY <1>1, PicksTyped
<1>3. PICK u \in FrameSeqs : u = Picked(Story, {"usage"})
  BY <1>1, PicksTyped
<1>4. /\ Picked(Story', {"stop"}) = IF f.kind = "stop" THEN Append(s, f) ELSE s
      /\ Picked(Story', {"usage"}) =
           IF f.kind = "usage" THEN Append(u, f) ELSE u
  BY <1>2, <1>3, StoryOfMore DEF Pick
<1>5. stop = LastIn(s) /\ usage = FirstIn(u)
  BY <1>2, <1>3 DEF SameEnds
<1>6. stop' = LastIn(Picked(Story', {"stop"}))
  <2>1. LastIn(Append(s, f)) = <<f>>
    BY FrameAppended DEF LastIn
  <2> QED
    BY <1>4, <1>5, <2>1
<1>7. usage' = FirstIn(Picked(Story', {"usage"}))
  <2>1. u = <<>> => FirstIn(Append(u, f)) = <<f>>
    BY DEF FirstIn
  <2>2. u # <<>> => FirstIn(Append(u, f)) = FirstIn(u) /\ FirstIn(u) # <<>>
    <3>1. u # <<>> => Head(Append(u, f)) = Head(u) /\ Append(u, f) # <<>>
      BY DEF FrameSeqs
    <3> QED
      BY <3>1 DEF FirstIn
  <2>3. u = <<>> <=> usage = <<>>
    BY <1>5, <2>2 DEF FirstIn
  <2> QED
    BY <1>4, <1>5, <2>1, <2>2, <2>3
<1>8. /\ stop' # <<>> => stop'[1].kind = "stop"
      /\ usage' # <<>> => usage'[1].kind = "usage"
  BY DEF SameEnds
<1> QED
  BY <1>6, <1>7, <1>8 DEF SameEnds

(* What is written when the text that was held back is.                     *)
LEMMA WireOfText ==
  ASSUME ChatTypeOK, SameMessages, SameEnds
  PROVE  /\ wire \o text \in FrameSeqs
         /\ Picked(wire \o text, Said) = Picked(Story, Said)
         /\ Picked(wire \o text, {"stop"}) = <<>>
         /\ Picked(wire \o text, {"usage"}) = <<>>
<1>1. wire \in FrameSeqs /\ text \in FrameSeqs /\ Len(text) <= 1
  BY DEF ChatTypeOK, FrameSeqs
<1>2. PICK w \in FrameSeqs : w = Picked(wire, Said)
  BY <1>1, PicksTyped
<1>3. w \o <<>> = w
  BY ConcatEmptySeq DEF FrameSeqs
<1>4. \A kinds : Picked(wire \o text, kinds) =
                   IF text # <<>> /\ text[1].kind \in kinds
                   THEN Picked(wire, kinds) \o text ELSE Picked(wire, kinds)
  BY <1>1, PicksOfPart
<1>5. text # <<>> => text[1].kind = "assistant"
  BY DEF SameMessages
<1>6. Picked(wire \o text, Said) = Picked(Story, Said)
  <2>1. Picked(Story, Said) = w \o text
    BY <1>2 DEF SameMessages
  <2>2. CASE text = <<>>
    BY <1>2, <1>3, <1>4, <2>1, <2>2
  <2>3. CASE text # <<>>
    BY <1>2, <1>4, <1>5, <2>1, <2>3 DEF Said
  <2> QED
    BY <2>2, <2>3
<1>7. /\ Picked(wire \o text, {"stop"}) = <<>>
      /\ Picked(wire \o text, {"usage"}) = <<>>
  BY <1>4, <1>5 DEF SameEnds
<1>8. wire \o text \in FrameSeqs
  BY <1>1, ConcatProperties DEF FrameSeqs
<1> QED
  BY <1>6, <1>7, <1>8

(* Another text begins.                                                     *)
LEMMA TextStarts ==
  ASSUME ChatTypeOK, SameMessages, SameEnds, NEW f \in ChatFrames,
         f.kind = "assistant", ~(text # <<>> /\ Continues(text[1], f)),
         raw' = Append(raw, f), frames' = Append(frames, f),
         text' = <<f>>, wire' = wire \o text, UNCHANGED <<stop, usage, turn>>
  PROVE  ChatTypeOK' /\ SameMessages' /\ SameEnds'
<1>1. /\ raw \in FrameSeqs /\ frames \in FrameSeqs /\ Story \in FrameSeqs
  BY PutsTyped DEF ChatTypeOK, FrameSeqs, Story
<1>2. /\ wire' \in FrameSeqs
      /\ Picked(wire', Said) = Picked(Story, Said)
      /\ Picked(wire', {"stop"}) = <<>>
      /\ Picked(wire', {"usage"}) = <<>>
  BY WireOfText
<1>3. /\ Story' # <<>> /\ Last(Story') = f
      /\ Picked(Story', Said) = Pick(Picked(Story, Said), f, Said)
  BY StoryOfMore
<1>4. Picked(Story', Said) = Picked(wire', Said) \o <<f>>
  <2>1. PICK w \in FrameSeqs : w = Picked(Story, Said)
    BY <1>1, PicksTyped
  <2>2. w \o <<f>> = Append(w, f)
    BY <2>1, FrameAppended
  <2> QED
    BY <1>2, <1>3, <2>1, <2>2 DEF Pick, Said
<1>5. text' # <<>> /\ text'[1] = f
  OBVIOUS
<1>6. Begun(f.otid)'
  BY <1>1, RawGrows
<1>7. SameMessages'
  BY <1>3, <1>4, <1>5, <1>6 DEF SameMessages
<1>8. SameEnds'
  <2>1. /\ stop' = (IF f.kind = "stop" THEN <<f>> ELSE stop)
        /\ usage' = (IF f.kind = "usage" /\ usage = <<>> THEN <<f>> ELSE usage)
    OBVIOUS
  <2> QED
    BY <1>2, <2>1, EndsOfMore
<1>9. ChatTypeOK'
  <2>1. raw' \in FrameSeqs /\ frames' \in FrameSeqs
    BY <1>1, FrameAppended
  <2>2. text' \in FrameSeqs /\ Len(text') = 1
    BY DEF FrameSeqs
  <2> QED
    BY <1>2, <2>1, <2>2 DEF ChatTypeOK, FrameSeqs
<1> QED
  BY <1>7, <1>8, <1>9

(* The end of a step is held back, and so is the text before it.            *)
LEMMA EndHeldBack ==
  ASSUME ChatTypeOK, SameMessages, SameEnds, NEW f \in ChatFrames,
         f.kind \in Ends,
         raw' = Append(raw, f), frames' = Append(frames, f),
         stop' = (IF f.kind = "stop" THEN <<f>> ELSE stop),
         usage' = (IF f.kind = "usage" /\ usage = <<>> THEN <<f>> ELSE usage),
         UNCHANGED <<text, wire, turn>>
  PROVE  ChatTypeOK' /\ SameMessages' /\ SameEnds'
<1>1. raw \in FrameSeqs /\ frames \in FrameSeqs
  BY DEF ChatTypeOK, FrameSeqs
<1>2. ~(text # <<>> /\ Continues(text[1], f))
  BY DEF Continues, Ends
<1>3. /\ Story' # <<>> /\ Last(Story') = f
      /\ Picked(Story', Said) = Pick(Picked(Story, Said), f, Said)
  BY <1>2, StoryOfMore
<1>4. Picked(Story', Said) = Picked(wire', Said) \o text'
  BY <1>3 DEF Pick, Said, Ends, SameMessages
<1>5. f.kind # "assistant"
  BY DEF Ends
<1>6. text # <<>> => Begun(text[1].otid)' /\ Over(text[1].otid)'
  BY <1>1, RawGrows DEF SameMessages
<1>7. SameMessages'
  BY <1>3, <1>4, <1>5, <1>6 DEF SameMessages
<1>8. SameEnds'
  <2>1. Picked(wire', {"stop"}) = <<>> /\ Picked(wire', {"usage"}) = <<>>
    BY DEF SameEnds
  <2> QED
    BY <1>2, <2>1, EndsOfMore
<1>9. ChatTypeOK'
  <2>1. raw' \in FrameSeqs /\ frames' \in FrameSeqs
    BY <1>1, FrameAppended
  <2>2. <<f>> \in FrameSeqs /\ Len(<<f>>) = 1
    BY DEF FrameSeqs
  <2> QED
    BY <2>1, <2>2 DEF ChatTypeOK, FrameSeqs
<1> QED
  BY <1>7, <1>8, <1>9

(* Anything else is written, behind the text that was held back.            *)
LEMMA FramePasses ==
  ASSUME ChatTypeOK, SameMessages, SameEnds, NEW f \in ChatFrames,
         f.kind \notin Ends, f.kind # "assistant",
         raw' = Append(raw, f), frames' = Append(frames, f),
         text' = <<>>, wire' = (wire \o text) \o <<f>>,
         UNCHANGED <<stop, usage, turn>>
  PROVE  ChatTypeOK' /\ SameMessages' /\ SameEnds'
<1>1. /\ raw \in FrameSeqs /\ frames \in FrameSeqs /\ Story \in FrameSeqs
  BY PutsTyped DEF ChatTypeOK, FrameSeqs, Story
<1>2. PICK w \in FrameSeqs :
        /\ w = wire \o text
        /\ Picked(w, Said) = Picked(Story, Said)
        /\ Picked(w, {"stop"}) = <<>>
        /\ Picked(w, {"usage"}) = <<>>
  BY WireOfText
<1>3. wire' = Append(w, f) /\ wire' \in FrameSeqs
  BY <1>2, FrameAppended
<1>4. \A kinds : Picked(wire', kinds) = Pick(Picked(w, kinds), f, kinds)
  BY <1>2, <1>3, PicksOfMore
<1>5. ~(text # <<>> /\ Continues(text[1], f))
  BY DEF Continues
<1>6. /\ Story' # <<>> /\ Last(Story') = f
      /\ Picked(Story', Said) = Pick(Picked(Story, Said), f, Said)
  BY <1>5, StoryOfMore
<1>7. Picked(Story', Said) = Picked(wire', Said) \o text'
  <2>1. Picked(wire', Said) = Picked(Story', Said)
    BY <1>2, <1>4, <1>6
  <2>2. Picked(wire', Said) \in FrameSeqs
    BY <1>3, PicksTyped
  <2> QED
    BY <2>1, <2>2, ConcatEmptySeq DEF FrameSeqs
<1>8. SameMessages'
  BY <1>6, <1>7 DEF SameMessages
<1>9. SameEnds'
  <2>1. f.kind # "stop" /\ f.kind # "usage"
    BY DEF Ends
  <2>2. Picked(wire', {"stop"}) = <<>> /\ Picked(wire', {"usage"}) = <<>>
    BY <1>2, <1>4, <2>1 DEF Pick
  <2>3. /\ stop' = (IF f.kind = "stop" THEN <<f>> ELSE stop)
        /\ usage' = (IF f.kind = "usage" /\ usage = <<>> THEN <<f>> ELSE usage)
    BY <2>1
  <2> QED
    BY <1>5, <2>2, <2>3, EndsOfMore
<1>10. ChatTypeOK'
  <2>1. raw' \in FrameSeqs /\ frames' \in FrameSeqs
    BY <1>1, FrameAppended
  <2>2. text' \in FrameSeqs /\ Len(text') = 0
    BY DEF FrameSeqs
  <2> QED
    BY <1>3, <2>1, <2>2 DEF ChatTypeOK, FrameSeqs
<1> QED
  BY <1>8, <1>9, <1>10

LEMMA OpenTells ==
  ASSUME ChatTypeOK, SameMessages
  PROVE  IsPrefix(Messages(wire), Messages(Coalesced(frames)))
<1>1. wire \in FrameSeqs /\ text \in FrameSeqs
  BY DEF ChatTypeOK, FrameSeqs
<1>2. Picked(wire, Said) \in FrameSeqs
  BY <1>1, PicksTyped
<1>3. IsPrefix(Picked(wire, Said), Picked(wire, Said) \o text)
  BY <1>1, <1>2, StoryBegins
<1> QED
  BY <1>3 DEF SameMessages, Story, Said, Messages

LEMMA OnFrameKeeps ==
  ASSUME ChatInv, OnFrame
  PROVE  ChatInv'
<1>1. ChatTypeOK /\ SameMessages /\ SameEnds /\ turn = "open"
  BY DEF ChatInv, OnFrame
<1>2. PICK k \in Kinds \ {"error", "done"}, o \in Otid \cup {NoOtid} :
        LET f == Frame(k, o, Len(raw) + 1)
        IN /\ Expected(f)
           /\ raw' = Append(raw, f)
           /\ frames' = frames \o Reshaped(f)
           /\ IF Reshaped(f) = <<>> THEN UNCHANGED <<wire, text, stop, usage>>
              ELSE Streamed(f)
  BY DEF OnFrame
<1>3. PICK f : f = Frame(k, o, Len(raw) + 1)
  OBVIOUS
<1>4. turn' = "open"
  BY <1>1 DEF OnFrame
<1>5. /\ Expected(f) /\ raw' = Append(raw, f)
      /\ frames' = frames \o Reshaped(f)
      /\ IF Reshaped(f) = <<>> THEN UNCHANGED <<wire, text, stop, usage>>
         ELSE Streamed(f)
  BY <1>2, <1>3
<1>6. /\ raw \in FrameSeqs /\ frames \in FrameSeqs /\ wire \in FrameSeqs
      /\ text \in FrameSeqs
  BY <1>1 DEF ChatTypeOK, FrameSeqs
<1>7. f \in ChatFrames
  <2>1. Len(raw) + 1 \in Nat
    BY <1>6, LenProperties DEF FrameSeqs
  <2>2. <<Len(raw) + 1>> \in Seq(Nat)
    BY <2>1
  <2> QED
    BY <1>2, <1>3, <2>1, <2>2 DEF Frame, ChatFrames
<1>8. ChatTypeOK' /\ SameMessages' /\ SameEnds'
  <2>1. CASE f.kind = "system"
    <3>1. frames' = frames /\ UNCHANGED <<wire, text, stop, usage>>
      <4>1. Reshaped(f) = <<>>
        BY <2>1 DEF Reshaped
      <4>2. frames \o <<>> = frames
        BY <1>6, ConcatEmptySeq DEF FrameSeqs
      <4> QED
        BY <1>5, <4>1, <4>2
    <3>2. raw' \in FrameSeqs
      BY <1>5, <1>6, <1>7, FrameAppended
    <3>3. ChatTypeOK'
      BY <1>1, <1>4, <3>1, <3>2 DEF ChatTypeOK, FrameSeqs
    <3>4. Story' = Story
      BY <3>1 DEF Story
    <3>5. /\ \A b : Over(b) => Over(b)'
          /\ \A b : Begun(b) => Begun(b)'
      BY <1>5, <1>6, <1>7, RawGrows
    <3>6. SameMessages'
      BY <1>1, <3>1, <3>4, <3>5 DEF SameMessages
    <3>7. SameEnds'
      BY <1>1, <3>1, <3>4 DEF SameEnds
    <3> QED
      BY <3>3, <3>6, <3>7
  <2>2. CASE f.kind # "system"
    <3>1. frames' = Append(frames, f) /\ Streamed(f)
      <4>1. Reshaped(f) = <<f>> /\ <<f>> # <<>>
        BY <2>2 DEF Reshaped
      <4>2. frames \o <<f>> = Append(frames, f)
        BY <1>6, <1>7, FrameAppended
      <4> QED
        BY <1>5, <4>1, <4>2
    <3>2. UNCHANGED turn
      BY <1>1, <1>4
    <3>3. CASE text # <<>> /\ Continues(text[1], f)
      <4>1. /\ text' = <<Continued(text[1], f)>>
            /\ UNCHANGED <<wire, stop, usage>>
        BY <3>1, <3>3 DEF Streamed
      <4> QED
        BY <1>1, <1>5, <1>7, <3>1, <3>2, <3>3, <4>1, TextGoesOn
    <3>4. CASE ~(text # <<>> /\ Continues(text[1], f))
      <4>1. /\ stop' = IF f.kind = "stop" THEN <<f>> ELSE stop
            /\ usage' = IF f.kind = "usage" /\ usage = <<>> THEN <<f>>
                        ELSE usage
            /\ text' = IF f.kind = "assistant" THEN <<f>>
                       ELSE IF Flushes(f) THEN <<>> ELSE text
            /\ wire' = IF ~Flushes(f) THEN wire
                       ELSE wire \o text \o
                              (IF f.kind = "assistant" THEN <<>> ELSE <<f>>)
        BY <3>1, <3>4 DEF Streamed
      <4>2. CASE f.kind = "assistant"
        <5>1. (wire \o text) \o <<>> = wire \o text
          BY <1>6, ConcatProperties, ConcatEmptySeq DEF FrameSeqs
        <5>2. /\ text' = <<f>> /\ wire' = wire \o text
              /\ UNCHANGED <<stop, usage>>
          BY <4>1, <4>2, <5>1 DEF Flushes
        <5> QED
          BY <1>1, <1>5, <1>7, <3>1, <3>2, <3>4, <4>2, <5>2, TextStarts
      <4>3. CASE f.kind \in Ends
        <5>1. UNCHANGED <<text, wire>>
          BY <4>1, <4>3 DEF Flushes, Ends
        <5>2. /\ stop' = (IF f.kind = "stop" THEN <<f>> ELSE stop)
              /\ usage' = (IF f.kind = "usage" /\ usage = <<>> THEN <<f>>
                           ELSE usage)
          BY <4>1
        <5> QED
          BY <1>1, <1>5, <1>7, <3>1, <3>2, <4>3, <5>1, <5>2, EndHeldBack
      <4>4. CASE f.kind # "assistant" /\ f.kind \notin Ends
        <5>1. /\ text' = <<>> /\ wire' = (wire \o text) \o <<f>>
              /\ UNCHANGED <<stop, usage>>
          BY <4>1, <4>4 DEF Flushes, Ends
        <5> QED
          BY <1>1, <1>5, <1>7, <3>1, <3>2, <4>4, <5>1, FramePasses
      <4> QED
        BY <4>2, <4>3, <4>4
    <3> QED
      BY <3>3, <3>4
  <2> QED
    BY <2>1, <2>2
<1>9. SameStory'
  <2>1. (ChatTypeOK /\ SameMessages
           => IsPrefix(Messages(wire), Messages(Coalesced(frames))))'
    BY OpenTells, PTL
  <2> QED
    BY <1>4, <1>8, <2>1 DEF SameStory
<1> QED
  BY <1>8, <1>9 DEF ChatInv

LEMMA MarksAreFrames ==
  ASSUME NEW kind \in Kinds
  PROVE  Mark(kind) \in ChatFrames /\ Mark(kind).kind = kind
<1>1. <<>> \in Seq(Nat) /\ 0 \in Nat
  OBVIOUS
<1> QED
  BY <1>1 DEF Mark, ChatFrames

LEMMA FinishesKeeps ==
  ASSUME ChatInv, Finishes
  PROVE  ChatInv'
<1>1. ChatTypeOK /\ SameMessages /\ SameEnds
  BY DEF ChatInv, Finishes
<1>2. /\ stop \in FrameSeqs /\ Len(stop) <= 1
      /\ usage \in FrameSeqs /\ Len(usage) <= 1
      /\ stop # <<>> => stop[1].kind = "stop"
      /\ usage # <<>> => usage[1].kind = "usage"
      /\ frames \in FrameSeqs
  BY <1>1 DEF ChatTypeOK, FrameSeqs, SameEnds
<1>3. PICK w1 \in FrameSeqs :
        /\ w1 = wire \o text
        /\ Picked(w1, Said) = Picked(Story, Said)
        /\ Picked(w1, {"stop"}) = <<>>
        /\ Picked(w1, {"usage"}) = <<>>
  BY <1>1, WireOfText
<1>4. PICK w2 \in FrameSeqs : w2 = w1 \o stop
  BY <1>2, ConcatProperties DEF FrameSeqs
<1>5. PICK w3 \in FrameSeqs : w3 = w2 \o usage
  BY <1>2, ConcatProperties DEF FrameSeqs
<1>6. \A kinds : Picked(w2, kinds) =
                   IF stop # <<>> /\ stop[1].kind \in kinds
                   THEN Picked(w1, kinds) \o stop ELSE Picked(w1, kinds)
  BY <1>2, <1>4, PicksOfPart
<1>7. \A kinds : Picked(w3, kinds) =
                   IF usage # <<>> /\ usage[1].kind \in kinds
                   THEN Picked(w2, kinds) \o usage ELSE Picked(w2, kinds)
  BY <1>2, <1>5, PicksOfPart
<1>8. Mark("done") \in ChatFrames /\ Mark("done").kind = "done"
  BY MarksAreFrames DEF Kinds
<1>9. wire' = Append(w3, Mark("done")) /\ wire' \in FrameSeqs
  <2>1. wire' = w3 \o <<Mark("done")>>
    BY <1>3, <1>4, <1>5 DEF Finishes
  <2> QED
    BY <1>8, <2>1, FrameAppended
<1>10. \A kinds :
         "done" \notin kinds => Picked(wire', kinds) = Picked(w3, kinds)
  BY <1>8, <1>9, PicksOfMore DEF Pick
<1>11. Picked(wire', Said) = Picked(Story, Said)
  BY <1>2, <1>3, <1>6, <1>7, <1>10 DEF Said
<1>12. <<>> \o stop = stop /\ <<>> \o usage = usage
  BY <1>2, ConcatEmptySeq DEF FrameSeqs
<1>13. Picked(wire', {"stop"}) = stop
  <2>1. Picked(wire', {"stop"}) = Picked(w2, {"stop"})
    BY <1>2, <1>7, <1>10
  <2> QED
    BY <1>2, <1>3, <1>6, <1>12, <2>1
<1>14. Picked(wire', {"usage"}) = usage
  <2>1. Picked(w2, {"usage"}) = <<>>
    BY <1>2, <1>3, <1>6
  <2> QED
    BY <1>2, <1>7, <1>10, <1>12, <2>1
<1>15. Story' = Story /\ turn' = "closed" /\ frames' = frames
  BY DEF Finishes, Story
<1>16. SameStory'
  <2>1. Picked(Story, Said) \in FrameSeqs
    BY <1>2, PutsTyped, PicksTyped DEF Story
  <2>2. IsPrefix(Picked(Story, Said), Picked(Story, Said))
    <3>1. Picked(Story, Said) \o <<>> = Picked(Story, Said)
      BY <2>1, ConcatEmptySeq DEF FrameSeqs
    <3> QED
      BY <2>1, <3>1, NoFrames, StoryBegins
  <2>3. /\ Messages(wire') = Picked(Story, Said)
        /\ Messages(Coalesced(frames')) = Picked(Story, Said)
    BY <1>11, <1>15 DEF Messages, Said, Story
  <2>4. Body(frames') = [messages |-> Picked(Story, Said), stop |-> stop,
                         usage |-> usage]
    BY <1>1, <1>15 DEF Body, OfKind, Messages, Said, Story, SameEnds
  <2> QED
    BY <1>13, <1>14, <2>2, <2>3, <2>4 DEF SameStory, OfKind
<1>17. ChatTypeOK'
  <2>1. <<>> \in FrameSeqs /\ Len(<<>>) = 0
    BY NoFrames
  <2> QED
    BY <1>1, <1>9, <1>15, <2>1 DEF ChatTypeOK, FrameSeqs, Finishes
<1> QED
  BY <1>15, <1>16, <1>17 DEF ChatInv

LEMMA ThrowsKeeps ==
  ASSUME ChatInv, Throws
  PROVE  ChatInv'
<1>1. ChatTypeOK /\ SameMessages
  BY DEF ChatInv, Throws
<1>2. wire \in FrameSeqs
  BY <1>1 DEF ChatTypeOK, FrameSeqs
<1>3. PICK a \in ChatFrames : a = Mark("error") /\ a.kind = "error"
  BY MarksAreFrames DEF Kinds
<1>4. PICK b \in ChatFrames : b = Mark("done") /\ b.kind = "done"
  BY MarksAreFrames DEF Kinds
<1>5. PICK w \in FrameSeqs : w = Append(wire, a)
  BY <1>2, FrameAppended
<1>6. wire' = Append(w, b)
  <2>1. wire' = wire \o <<a, b>>
    BY <1>3, <1>4 DEF Throws
  <2> QED
    BY <1>2, <1>5, <2>1 DEF FrameSeqs
<1>7. Picked(wire', Said) = Picked(wire, Said)
  <2>1. Picked(w, Said) = Pick(Picked(wire, Said), a, Said)
    BY <1>2, <1>5, PicksOfMore
  <2>2. Picked(wire', Said) = Pick(Picked(w, Said), b, Said)
    BY <1>6, PicksOfMore
  <2> QED
    BY <1>3, <1>4, <2>1, <2>2 DEF Pick, Said
<1>8. wire' \in FrameSeqs
  BY <1>6, FrameAppended
<1>9. turn' = "threw" /\ UNCHANGED <<raw, frames, text, stop, usage>>
  BY DEF Throws
<1>10. ChatTypeOK'
  BY <1>1, <1>8, <1>9 DEF ChatTypeOK, FrameSeqs
<1>11. SameStory'
  <2>1. IsPrefix(Messages(wire), Messages(Coalesced(frames)))
    BY <1>1, OpenTells
  <2>2. Messages(wire') = Messages(wire)
    BY <1>7 DEF Messages, Said
  <2> QED
    BY <1>9, <2>1, <2>2 DEF SameStory
<1> QED
  BY <1>9, <1>10, <1>11 DEF ChatInv

LEMMA ChatInvStep == ChatInv /\ [ChatNext]_chatVars => ChatInv'
<1> SUFFICES ASSUME ChatInv, [ChatNext]_chatVars PROVE ChatInv'
  OBVIOUS
<1>1. CASE OnFrame
  BY <1>1, OnFrameKeeps
<1>2. CASE Finishes
  BY <1>2, FinishesKeeps
<1>3. CASE Throws
  BY <1>3, ThrowsKeeps
<1>4. CASE UNCHANGED chatVars
  BY <1>4 DEF chatVars, ChatInv, ChatTypeOK, SameMessages, SameEnds, Story,
              SameStory, Begun, Over
<1> QED
  BY <1>1, <1>2, <1>3, <1>4 DEF ChatNext

(* The frames of a turn, what is held back of it and what is written keep   *)
(* their types, for any texts and any number of frames.                     *)
THEOREM ChatTyped == ChatSpec => []ChatTypeOK
<1>1. ChatInv => ChatTypeOK
  BY DEF ChatInv
<1> QED
  BY <1>1, ChatInvInit, ChatInvStep, PTL DEF ChatSpec

(* The event stream and the JSON body of a turn tell one story: what was    *)
(* written when the turn broke off is the beginning of the body, and at its *)
(* end they have the same messages, the same stop reason and the same       *)
(* usage (handleSendMessage's two ways to answer).                          *)
THEOREM StoriesAgree == ChatSpec => []SameStory
<1>1. ChatInv => SameStory
  BY DEF ChatInv
<1> QED
  BY <1>1, ChatInvInit, ChatInvStep, PTL DEF ChatSpec

-----------------------------------------------------------------------------
(* Where a tag occurs                                                       *)

Texts == Seq(Symbol)
Tags == Texts \ {<<>>}

LEMMA TextIs ==
  ASSUME NEW s \in Texts
  PROVE  /\ Len(s) \in Nat /\ DOMAIN s = 1..Len(s)
         /\ \A j \in 1..Len(s) : s[j] \in Symbol
BY LenProperties, ElementOfSeq DEF Texts

LEMMA TagIs ==
  ASSUME NEW tag \in Tags
  PROVE  tag \in Texts /\ Len(tag) \in Nat /\ Len(tag) >= 1
<1>1. tag \in Texts /\ tag # <<>>
  BY DEF Tags
<1>2. Len(tag) \in Nat /\ Len(tag) # 0
  BY <1>1, TextIs, EmptySeq DEF Texts
<1> QED
  BY <1>1, <1>2

LEMMA TakeIs ==
  ASSUME NEW s \in Texts, NEW n \in 0..Len(s)
  PROVE  /\ Take(s, n) \in Texts /\ Len(Take(s, n)) = n
         /\ \A j \in 1..n : Take(s, n)[j] = s[j]
BY TextIs, SubSeqProperties DEF Take, Texts

LEMMA DropIs ==
  ASSUME NEW s \in Texts, NEW n \in 0..Len(s)
  PROVE  /\ Drop(s, n) \in Texts /\ Len(Drop(s, n)) = Len(s) - n
         /\ \A j \in 1..(Len(s) - n) : Drop(s, n)[j] = s[n + j]
BY TextIs, SubSeqProperties DEF Drop, Texts

LEMMA JoinIs ==
  ASSUME NEW s \in Texts, NEW t \in Texts
  PROVE  /\ s \o t \in Texts /\ Len(s \o t) = Len(s) + Len(t)
         /\ \A j \in 1..Len(s) : (s \o t)[j] = s[j]
         /\ \A j \in 1..Len(t) : (s \o t)[Len(s) + j] = t[j]
<1>1. s \o t \in Texts /\ Len(s \o t) = Len(s) + Len(t)
  BY ConcatProperties DEF Texts
<1>2. Len(s) \in Nat /\ Len(t) \in Nat
  BY TextIs
<1>3. \A j \in 1..(Len(s) + Len(t)) :
        (s \o t)[j] = IF j <= Len(s) THEN s[j] ELSE t[j - Len(s)]
  BY <1>1, ConcatProperties DEF Texts
<1>4. \A j \in 1..Len(s) : (s \o t)[j] = s[j]
  BY <1>2, <1>3
<1>5. \A j \in 1..Len(t) : (s \o t)[Len(s) + j] = t[j]
  <2> TAKE j \in 1..Len(t)
  <2>1. Len(s) + j \in 1..(Len(s) + Len(t)) /\ ~(Len(s) + j <= Len(s))
        /\ (Len(s) + j) - Len(s) = j
    BY <1>2
  <2> QED
    BY <1>3, <2>1
<1> QED
  BY <1>1, <1>4, <1>5

(* Texts with the same symbols are the same.                                *)
LEMMA SameText ==
  ASSUME NEW s \in Texts, NEW t \in Texts, Len(s) = Len(t),
         \A j \in 1..Len(s) : s[j] = t[j]
  PROVE  s = t
BY SeqEqual DEF Texts

(* The tag stands behind the first i symbols.                               *)
Here(tag, s, i) ==
  /\ i + Len(tag) <= Len(s)
  /\ \A j \in 1..Len(tag) : s[i + j] = tag[j]

LEMMA PrefixIsHere ==
  ASSUME NEW s \in Texts, NEW tag \in Texts, NEW i \in 0..Len(s)
  PROVE  IsPrefix(tag, Drop(s, i)) <=> Here(tag, s, i)
<1>1. /\ Len(s) \in Nat /\ Len(tag) \in Nat /\ i \in Nat /\ i <= Len(s)
      /\ \A j \in 1..Len(tag) : tag[j] \in Symbol
  BY TextIs
<1>2. PICK d \in Texts : /\ d = Drop(s, i) /\ Len(d) = Len(s) - i
                         /\ \A j \in 1..(Len(s) - i) : d[j] = s[i + j]
  BY DropIs
<1>3. Len(tag) <= Len(d) <=> i + Len(tag) <= Len(s)
  BY <1>1, <1>2
<1>4. ASSUME Len(tag) <= Len(d)
      PROVE  SubSeq(tag, 1, Len(tag)) = SubSeq(d, 1, Len(tag))
               <=> \A j \in 1..Len(tag) : s[i + j] = tag[j]
  <2>1. /\ Take(tag, Len(tag)) \in Texts /\ Len(Take(tag, Len(tag))) = Len(tag)
        /\ \A j \in 1..Len(tag) : Take(tag, Len(tag))[j] = tag[j]
    <3>1. Len(tag) \in 0..Len(tag)
      BY <1>1
    <3> QED
      BY <3>1, TakeIs
  <2>2. /\ Take(d, Len(tag)) \in Texts /\ Len(Take(d, Len(tag))) = Len(tag)
        /\ \A j \in 1..Len(tag) : Take(d, Len(tag))[j] = d[j]
    <3>1. Len(tag) \in 0..Len(d)
      BY <1>1, <1>4, <1>2
    <3> QED
      BY <1>2, <3>1, TakeIs
  <2>3. Take(tag, Len(tag)) = Take(d, Len(tag))
          <=> \A j \in 1..Len(tag) : d[j] = tag[j]
    BY <2>1, <2>2, SameText
  <2>4. \A j \in 1..Len(tag) : d[j] = s[i + j]
    <3>1. \A j \in 1..Len(tag) : j \in 1..(Len(s) - i)
      BY <1>1, <1>2, <1>4
    <3> QED
      BY <1>2, <3>1
  <2> QED
    BY <2>3, <2>4 DEF Take
<1> QED
  BY <1>2, <1>3, <1>4 DEF IsPrefix, Here

(* The least of numbers that there are.                                     *)
LEMMA LeastIsMin ==
  ASSUME NEW Q \in SUBSET Nat, Q # {}
  PROVE  Min(Q) \in Q /\ \A q \in Q : Min(Q) <= q
<1>1. \E m \in Q : \A q \in Q : m <= q
  BY LeastNumber
<1> QED
  BY <1>1 DEF Min

LEMMA BeforeIs ==
  ASSUME NEW s \in Texts, NEW tag \in Tags
  PROVE  /\ Before(s, tag) \in 0..Len(s)
         /\ \A i \in 0..Len(s) : i < Before(s, tag) => ~Here(tag, s, i)
         /\ Before(s, tag) < Len(s) => Here(tag, s, Before(s, tag))
<1> DEFINE Q == {i \in 0..Len(s) : i = Len(s) \/ IsPrefix(tag, Drop(s, i))}
<1>1. Len(s) \in Nat /\ tag \in Texts
  BY TextIs, TagIs
<1>2. Q \in SUBSET Nat /\ Q # {}
  <2>1. Len(s) \in Q
    BY <1>1
  <2> QED
    BY <2>1
<1>3. Q = {i \in 0..Len(s) : i = Len(s) \/ Here(tag, s, i)}
  BY <1>1, PrefixIsHere
<1>4. Before(s, tag) = Min(Q)
  BY DEF Before
<1> HIDE DEF Q
<1>5. Min(Q) \in Q /\ \A q \in Q : Min(Q) <= q
  BY <1>2, LeastIsMin
<1>6. PICK b \in 0..Len(s) :
        /\ b = Before(s, tag) /\ (b = Len(s) \/ Here(tag, s, b))
        /\ \A q \in Q : b <= q
  BY <1>3, <1>4, <1>5
<1>7. \A i \in 0..Len(s) : i < b => ~Here(tag, s, i)
  <2> SUFFICES ASSUME NEW i \in 0..Len(s), i < b, Here(tag, s, i) PROVE FALSE
    OBVIOUS
  <2>1. i \in Q
    BY <1>3
  <2> QED
    BY <1>1, <1>6, <2>1
<1>8. b < Len(s) => Here(tag, s, b)
  BY <1>1, <1>6
<1> QED
  BY <1>6, <1>7, <1>8

(* Where a tag stands and none before it.                                   *)
LEMMA FirstIsBefore ==
  ASSUME NEW s \in Texts, NEW tag \in Tags, NEW i \in Nat, Here(tag, s, i),
         \A k \in Nat : k < i => ~Here(tag, s, k)
  PROVE  Before(s, tag) = i /\ Occurs(s, tag)
<1>1. /\ Len(s) \in Nat /\ Len(tag) \in Nat /\ Len(tag) >= 1
  BY TextIs, TagIs
<1>2. i \in 0..Len(s) /\ i < Len(s)
  BY <1>1 DEF Here
<1>3. PICK b \in 0..Len(s) :
        /\ b = Before(s, tag)
        /\ \A k \in 0..Len(s) : k < b => ~Here(tag, s, k)
        /\ b < Len(s) => Here(tag, s, b)
  BY BeforeIs
<1>4. ~(i < b) /\ ~(b < i)
  BY <1>1, <1>2, <1>3
<1> QED
  BY <1>1, <1>2, <1>3, <1>4 DEF Occurs

LEMMA NoneIsBefore ==
  ASSUME NEW s \in Texts, NEW tag \in Tags,
         \A k \in Nat : ~Here(tag, s, k)
  PROVE  Before(s, tag) = Len(s) /\ ~Occurs(s, tag)
<1>1. Len(s) \in Nat
  BY TextIs
<1>2. PICK b \in 0..Len(s) : b = Before(s, tag)
                             /\ (b < Len(s) => Here(tag, s, b))
  BY BeforeIs
<1> QED
  BY <1>1, <1>2 DEF Occurs

LEMMA OccursIs ==
  ASSUME NEW s \in Texts, NEW tag \in Tags, Occurs(s, tag)
  PROVE  /\ Before(s, tag) \in Nat
         /\ Here(tag, s, Before(s, tag))
         /\ \A k \in Nat : k < Before(s, tag) => ~Here(tag, s, k)
<1>1. Len(s) \in Nat
  BY TextIs
<1>2. PICK b \in 0..Len(s) :
        /\ b = Before(s, tag)
        /\ \A k \in 0..Len(s) : k < b => ~Here(tag, s, k)
        /\ b < Len(s) => Here(tag, s, b)
  BY BeforeIs
<1>3. \A k \in Nat : k < b => k \in 0..Len(s)
  BY <1>1, <1>2
<1> QED
  BY <1>1, <1>2, <1>3 DEF Occurs

LEMMA NotOccursIs ==
  ASSUME NEW s \in Texts, NEW tag \in Tags, ~Occurs(s, tag)
  PROVE  /\ Before(s, tag) = Len(s)
         /\ \A k \in Nat : ~Here(tag, s, k)
<1>1. Len(s) \in Nat /\ Len(tag) \in Nat /\ Len(tag) >= 1
  BY TextIs, TagIs
<1>2. PICK b \in 0..Len(s) :
        /\ b = Before(s, tag)
        /\ \A k \in 0..Len(s) : k < b => ~Here(tag, s, k)
  BY BeforeIs
<1>3. b = Len(s)
  BY <1>1, <1>2 DEF Occurs
<1>4. ASSUME NEW k \in Nat, Here(tag, s, k) PROVE FALSE
  <2>1. k < Len(s) /\ k \in 0..Len(s)
    BY <1>1, <1>4 DEF Here
  <2> QED
    BY <1>2, <1>3, <1>4, <2>1
<1> QED
  BY <1>2, <1>3, <1>4

(* What comes behind does not show at the beginning.                        *)
LEMMA HereInLonger ==
  ASSUME NEW s \in Texts, NEW t \in Texts, NEW tag \in Texts, NEW i \in Nat,
         i + Len(tag) <= Len(s)
  PROVE  Here(tag, s \o t, i) <=> Here(tag, s, i)
<1>1. Len(s) \in Nat /\ Len(tag) \in Nat /\ Len(t) \in Nat
  BY TextIs
<1>2. Len(s \o t) = Len(s) + Len(t)
      /\ \A j \in 1..Len(s) : (s \o t)[j] = s[j]
  BY JoinIs
<1>3. \A j \in 1..Len(tag) : i + j \in 1..Len(s)
  BY <1>1
<1>4. \A j \in 1..Len(tag) : (s \o t)[i + j] = s[i + j]
  BY <1>2, <1>3
<1>5. i + Len(tag) <= Len(s \o t)
  BY <1>1, <1>2
<1> QED
  BY <1>4, <1>5 DEF Here

(* Nor what stands in front at the end.                                     *)
LEMMA HereBehind ==
  ASSUME NEW s \in Texts, NEW t \in Texts, NEW tag \in Texts, NEW i \in Nat
  PROVE  Here(tag, s \o t, Len(s) + i) <=> Here(tag, t, i)
<1>1. Len(s) \in Nat /\ Len(tag) \in Nat /\ Len(t) \in Nat
  BY TextIs
<1>2. Len(s \o t) = Len(s) + Len(t)
      /\ \A j \in 1..Len(t) : (s \o t)[Len(s) + j] = t[j]
  BY JoinIs
<1>3. Len(s) + i + Len(tag) <= Len(s \o t) <=> i + Len(tag) <= Len(t)
  BY <1>1, <1>2
<1>4. ASSUME i + Len(tag) <= Len(t), NEW j \in 1..Len(tag)
      PROVE  (s \o t)[Len(s) + i + j] = t[i + j]
  <2>1. i + j \in 1..Len(t) /\ Len(s) + i + j = Len(s) + (i + j)
    BY <1>1, <1>4
  <2> QED
    BY <1>2, <2>1
<1> QED
  BY <1>3, <1>4 DEF Here

(* The tail that is held back, ...                                          *)
LEMMA EndsWithIs ==
  ASSUME NEW s \in Texts, NEW tag \in Tags, NEW k \in 0..(Len(tag) - 1)
  PROVE  EndsWith(s, Take(tag, k))
           <=> /\ k <= Len(s)
               /\ \A j \in 1..k : s[Len(s) - k + j] = tag[j]
<1>1. /\ Len(s) \in Nat /\ Len(tag) \in Nat /\ tag \in Texts
      /\ k \in Nat /\ k \in 0..Len(tag)
  BY TextIs, TagIs
<1>2. PICK t \in Texts : /\ t = Take(tag, k) /\ Len(t) = k
                         /\ \A j \in 1..k : t[j] = tag[j]
  BY <1>1, TakeIs
<1>3. ASSUME k <= Len(s)
      PROVE  Drop(s, Len(s) - k) = t
               <=> \A j \in 1..k : s[Len(s) - k + j] = tag[j]
  <2>1. Len(s) - k \in 0..Len(s) /\ Len(s) - (Len(s) - k) = k
    BY <1>1, <1>3
  <2>2. PICK d \in Texts :
          /\ d = Drop(s, Len(s) - k) /\ Len(d) = k
          /\ \A j \in 1..k : d[j] = s[Len(s) - k + j]
    BY <2>1, DropIs
  <2>3. d = t <=> \A j \in 1..k : d[j] = t[j]
    BY <1>2, <2>2, SameText
  <2> QED
    BY <1>2, <2>2, <2>3
<1> QED
  BY <1>2, <1>3 DEF EndsWith

LEMMA HoldIs ==
  ASSUME NEW s \in Texts, NEW tag \in Tags
  PROVE  /\ Hold(s, tag) \in 0..(Len(tag) - 1) /\ Hold(s, tag) <= Len(s)
         /\ \A k \in 0..(Len(tag) - 1) :
              /\ k <= Len(s)
              /\ \A j \in 1..k : s[Len(s) - k + j] = tag[j]
              => k <= Hold(s, tag)
<1> DEFINE Q == {k \in 0..(Len(tag) - 1) : EndsWith(s, Take(tag, k))}
<1>1. /\ Len(s) \in Nat /\ Len(tag) \in Nat /\ Len(tag) >= 1
  BY TextIs, TagIs
<1>2. \A k \in 0..(Len(tag) - 1) :
        k \in Q <=> /\ k <= Len(s)
                    /\ \A j \in 1..k : s[Len(s) - k + j] = tag[j]
  BY EndsWithIs
<1>3. Hold(s, tag) = Max(Q)
  BY DEF Hold
<1>4. Q \in SUBSET Nat /\ \A q \in Q : q \in 0..(Len(tag) - 1) /\ q <= Len(tag)
  BY <1>1
<1> HIDE DEF Q
<1>5. 0 \in Q
  <2>1. 0 \in 0..(Len(tag) - 1) /\ 0 <= Len(s) /\ 1..0 = {}
    BY <1>1
  <2> QED
    BY <1>2, <2>1
<1>6. Max(Q) \in Q /\ \A q \in Q : Max(Q) >= q
  <2>1. Q # {}
    BY <1>5
  <2> QED
    BY <1>1, <1>4, <2>1, BoundedHasMax
<1>7. PICK h \in 0..(Len(tag) - 1) : h = Hold(s, tag) /\ h \in Q
                                     /\ \A q \in Q : h >= q
  BY <1>3, <1>4, <1>6
<1>8. h <= Len(s)
  BY <1>2, <1>7
<1>9. \A k \in Q : k <= h
  BY <1>1, <1>4, <1>7
<1> QED
  BY <1>2, <1>7, <1>8, <1>9

(* ... and no tag begins in front of it, whatever comes behind it.          *)
LEMMA NotBeforeHeld ==
  ASSUME NEW p \in Texts, NEW tag \in Tags, ~Occurs(p, tag),
         NEW y \in Texts, NEW i \in Nat, i < Len(p) - Hold(p, tag)
  PROVE  ~Here(tag, p \o y, i)
<1> SUFFICES ASSUME Here(tag, p \o y, i) PROVE FALSE
  OBVIOUS
<1>1. /\ Len(p) \in Nat /\ Len(tag) \in Nat /\ Len(tag) >= 1
      /\ tag \in Texts
  BY TextIs, TagIs
<1>2. PICK h \in 0..(Len(tag) - 1) :
        /\ h = Hold(p, tag)
        /\ \A k \in 0..(Len(tag) - 1) :
             /\ k <= Len(p)
             /\ \A j \in 1..k : p[Len(p) - k + j] = tag[j]
             => k <= h
  BY HoldIs
<1>3. CASE i + Len(tag) <= Len(p)
  <2>1. Here(tag, p, i)
    BY <1>1, <1>3, HereInLonger
  <2> QED
    BY <2>1, NotOccursIs
<1>4. CASE ~(i + Len(tag) <= Len(p))
  <2>0. PICK hh \in Nat : hh = Hold(p, tag) /\ hh = h
    BY <1>1, <1>2
  <2>7. i < Len(p) - hh
    BY <2>0
  <2>8. /\ Len(p) - i \in Nat /\ Len(p) - i < Len(tag) /\ Len(p) - i <= Len(p)
        /\ Len(p) - i > hh
    BY <1>1, <1>4, <2>0, <2>7
  <2>1. PICK k \in 0..(Len(tag) - 1) : k = Len(p) - i /\ k <= Len(p) /\ k > h
    BY <1>1, <2>0, <2>8
  <2>2. ASSUME NEW j \in 1..k PROVE p[Len(p) - k + j] = tag[j]
    <3>1. /\ j \in 1..Len(tag) /\ i + j \in 1..Len(p)
          /\ Len(p) - k + j = i + j
      BY <1>1, <2>1
    <3>2. (p \o y)[i + j] = tag[j]
      BY <3>1 DEF Here
    <3>3. (p \o y)[i + j] = p[i + j]
      BY <3>1, JoinIs
    <3> QED
      BY <3>1, <3>2, <3>3
  <2>3. k <= h
    BY <1>2, <2>1, <2>2
  <2> QED
    BY <1>1, <1>2, <2>1, <2>3
<1> QED
  BY <1>3, <1>4

-----------------------------------------------------------------------------
(* Parts of texts                                                           *)

LEMMA EmptyText == <<>> \in Texts /\ Len(<<>>) = 0
BY DEF Texts

LEMMA JoinNone ==
  ASSUME NEW s \in Texts
  PROVE  s \o <<>> = s /\ <<>> \o s = s
BY ConcatEmptySeq DEF Texts

Regroups(s, t, u) == (s \o t) \o u = s \o (t \o u)

LEMMA JoinThree ==
  ASSUME NEW s \in Texts, NEW t \in Texts, NEW u \in Texts
  PROVE  Regroups(s, t, u)
BY ConcatAssociative DEF Texts, Regroups

LEMMA BlocksRegroup ==
  ASSUME NEW s \in Seq(Texts), NEW t \in Seq(Texts), NEW u \in Seq(Texts)
  PROVE  Regroups(s, t, u)
BY ConcatAssociative DEF Regroups

Measures(s, n) == s \in Texts /\ Len(s) = n

LEMMA JoinMeasures ==
  ASSUME NEW s \in Texts, NEW t \in Texts
  PROVE  Measures(s \o t, Len(s) + Len(t))
BY JoinIs DEF Measures

LEMMA TakeAll ==
  ASSUME NEW s \in Texts
  PROVE  Take(s, Len(s)) = s
<1>1. Len(s) \in 0..Len(s)
  BY TextIs
<1>2. /\ Take(s, Len(s)) \in Texts /\ Len(Take(s, Len(s))) = Len(s)
      /\ \A j \in 1..Len(s) : Take(s, Len(s))[j] = s[j]
  BY <1>1, TakeIs
<1> QED
  BY <1>2, SameText

LEMMA TakeThenDrop ==
  ASSUME NEW s \in Texts, NEW n \in 0..Len(s)
  PROVE  s = Take(s, n) \o Drop(s, n)
<1>1. Len(s) \in Nat /\ n \in Nat /\ n <= Len(s)
  BY TextIs
<1>2. PICK t \in Texts : /\ t = Take(s, n) /\ Len(t) = n
                         /\ \A j \in 1..n : t[j] = s[j]
  BY TakeIs
<1>3. PICK d \in Texts : /\ d = Drop(s, n) /\ Len(d) = Len(s) - n
                         /\ \A j \in 1..(Len(s) - n) : d[j] = s[n + j]
  BY DropIs
<1>4. /\ t \o d \in Texts /\ Len(t \o d) = Len(s)
      /\ \A j \in 1..n : (t \o d)[j] = t[j]
      /\ \A j \in 1..(Len(s) - n) : (t \o d)[n + j] = d[j]
  <2>1. /\ t \o d \in Texts /\ Len(t \o d) = Len(t) + Len(d)
        /\ \A j \in 1..Len(t) : (t \o d)[j] = t[j]
        /\ \A j \in 1..Len(d) : (t \o d)[Len(t) + j] = d[j]
    BY JoinIs
  <2> QED
    BY <1>1, <1>2, <1>3, <2>1
<1>5. ASSUME NEW j \in 1..Len(s) PROVE s[j] = (t \o d)[j]
  <2>1. CASE j <= n
    <3>1. j \in 1..n
      BY <1>1, <2>1
    <3> QED
      BY <1>2, <1>4, <3>1
  <2>2. CASE j > n
    <3>1. PICK k \in 1..(Len(s) - n) : n + k = j
      <4>1. j - n \in 1..(Len(s) - n) /\ n + (j - n) = j
        BY <1>1, <2>2
      <4> QED
        BY <4>1
    <3>2. d[k] = s[n + k] /\ (t \o d)[n + k] = d[k]
      BY <1>3, <1>4
    <3> QED
      BY <3>1, <3>2
  <2>3. j <= n \/ j > n
    BY <1>1
  <2> QED
    BY <2>1, <2>2, <2>3
<1> QED
  BY <1>2, <1>3, <1>4, <1>5, SameText

LEMMA TakeOfJoin ==
  ASSUME NEW s \in Texts, NEW t \in Texts, NEW n \in 0..Len(s)
  PROVE  Take(s \o t, n) = Take(s, n)
<1>1. Len(s) \in Nat /\ n \in Nat /\ n <= Len(s) /\ Len(t) \in Nat
  BY TextIs
<1>2. PICK x \in Texts : /\ x = s \o t /\ Len(x) = Len(s) + Len(t)
                         /\ \A j \in 1..Len(s) : x[j] = s[j]
  BY JoinIs
<1>3. n \in 0..Len(x)
  BY <1>1, <1>2
<1>4. /\ Take(x, n) \in Texts /\ Len(Take(x, n)) = n
      /\ \A j \in 1..n : Take(x, n)[j] = x[j]
  BY <1>3, TakeIs
<1>5. /\ Take(s, n) \in Texts /\ Len(Take(s, n)) = n
      /\ \A j \in 1..n : Take(s, n)[j] = s[j]
  BY TakeIs
<1>6. \A j \in 1..n : Take(x, n)[j] = Take(s, n)[j]
  BY <1>1, <1>2, <1>4, <1>5
<1> QED
  BY <1>2, <1>4, <1>5, <1>6, SameText

(* A sequence is dropped in front, and what is left is the rest.            *)
LEMMA JoinCancels ==
  ASSUME NEW s \in Texts, NEW t \in Texts, NEW u \in Texts, s \o t = s \o u
  PROVE  t = u
<1>1. /\ Len(s) \in Nat /\ Len(t) \in Nat /\ Len(u) \in Nat
  BY TextIs
<1>2. /\ Len(s \o t) = Len(s) + Len(t)
      /\ \A j \in 1..Len(t) : (s \o t)[Len(s) + j] = t[j]
  BY JoinIs
<1>3. /\ Len(s \o u) = Len(s) + Len(u)
      /\ \A j \in 1..Len(u) : (s \o u)[Len(s) + j] = u[j]
  BY JoinIs
<1>4. Len(t) = Len(u)
  BY <1>1, <1>2, <1>3
<1>5. \A j \in 1..Len(t) : t[j] = u[j]
  BY <1>2, <1>3, <1>4
<1> QED
  BY <1>4, <1>5, SameText

LEMMA DropOfJoin ==
  ASSUME NEW s \in Texts, NEW t \in Texts, NEW n \in 0..Len(s)
  PROVE  Drop(s \o t, n) = Drop(s, n) \o t
<1>1. Len(s) \in Nat /\ n \in Nat /\ n <= Len(s) /\ Len(t) \in Nat
  BY TextIs
<1>2. PICK x \in Texts : x = s \o t /\ Len(x) = Len(s) + Len(t)
  BY JoinIs
<1>3. n \in 0..Len(x)
  BY <1>1, <1>2
<1>4. PICK a \in Texts : a = Take(s, n)
  BY TakeIs
<1>5. PICK b \in Texts : b = Drop(s, n)
  BY DropIs
<1>6. PICK c \in Texts : c = Drop(x, n)
  BY <1>3, DropIs
<1>7. s = a \o b
  BY <1>4, <1>5, TakeThenDrop
<1>8. x = Take(x, n) \o c
  BY <1>3, <1>6, TakeThenDrop
<1>9. Take(x, n) = a
  BY <1>2, <1>4, TakeOfJoin
<1>10. a \o c = a \o (b \o t)
  <2>1. Regroups(a, b, t)
    BY JoinThree
  <2> QED
    BY <1>2, <1>7, <1>8, <1>9, <2>1 DEF Regroups
<1>11. b \o t \in Texts
  BY JoinIs
<1>12. c = b \o t
  BY <1>10, <1>11, JoinCancels
<1> QED
  BY <1>2, <1>5, <1>6, <1>12

LEMMA DropFront ==
  ASSUME NEW s \in Texts, NEW t \in Texts
  PROVE  Drop(s \o t, Len(s)) = t /\ Take(s \o t, Len(s)) = s
<1>1. Len(s) \in 0..Len(s)
  BY TextIs
<1>2. Take(s \o t, Len(s)) = s
  BY <1>1, TakeOfJoin, TakeAll
<1>3. s \o t \in Texts /\ Len(s) \in 0..Len(s \o t)
  <2>1. Len(s \o t) = Len(s) + Len(t) /\ Len(s) \in Nat /\ Len(t) \in Nat
    BY TextIs, JoinIs
  <2> QED
    BY <2>1, JoinIs
<1>4. s \o t = s \o Drop(s \o t, Len(s))
  BY <1>2, <1>3, TakeThenDrop
<1>5. Drop(s \o t, Len(s)) \in Texts
  BY <1>3, DropIs
<1> QED
  BY <1>2, <1>4, <1>5, JoinCancels

LEMMA DropTwice ==
  ASSUME NEW s \in Texts, NEW m \in Nat, NEW n \in Nat, m + n <= Len(s)
  PROVE  Drop(Drop(s, m), n) = Drop(s, m + n)
<1>1. Len(s) \in Nat /\ m \in 0..Len(s) /\ m + n \in 0..Len(s)
      /\ n \in 0..(Len(s) - m)
  <2>1. Len(s) \in Nat
    BY TextIs
  <2> QED
    BY <2>1
<1>2. PICK d \in Texts : /\ d = Drop(s, m) /\ Len(d) = Len(s) - m
                         /\ \A j \in 1..(Len(s) - m) : d[j] = s[m + j]
  BY <1>1, DropIs
<1>3. PICK e \in Texts :
        /\ e = Drop(d, n) /\ Len(e) = Len(d) - n
        /\ \A j \in 1..(Len(d) - n) : e[j] = d[n + j]
  <2>1. n \in 0..Len(d)
    BY <1>1, <1>2
  <2> QED
    BY <2>1, DropIs
<1>4. PICK f \in Texts :
        /\ f = Drop(s, m + n) /\ Len(f) = Len(s) - (m + n)
        /\ \A j \in 1..(Len(s) - (m + n)) : f[j] = s[(m + n) + j]
  BY <1>1, DropIs
<1>5. Len(e) = Len(f)
  <2>1. Len(e) = (Len(s) - m) - n
    BY <1>2, <1>3
  <2>2. Len(f) = Len(s) - (m + n)
    BY <1>4
  <2>3. (Len(s) - m) - n = Len(s) - (m + n)
    BY <1>1
  <2> QED
    BY <2>1, <2>2, <2>3
<1>6. ASSUME NEW j \in 1..Len(e) PROVE e[j] = f[j]
  <2>1. /\ j \in 1..(Len(d) - n) /\ n + j \in 1..(Len(s) - m)
        /\ m + (n + j) = (m + n) + j /\ j \in 1..(Len(s) - (m + n))
    BY <1>1, <1>2, <1>3, <1>6
  <2> QED
    BY <1>2, <1>3, <1>4, <2>1
<1>7. e = f
  BY <1>5, <1>6, SameText
<1> QED
  BY <1>2, <1>3, <1>4, <1>7

-----------------------------------------------------------------------------
(* No tag begins among the first n symbols, whatever comes behind.          *)
Clear(tag, x, n) ==
  \A y \in Texts : \A i \in Nat : i < n => ~Here(tag, x \o y, i)

LEMMA ClearAtFirst ==
  ASSUME NEW tag \in Tags, NEW x \in Texts
  PROVE  Clear(tag, x, 0)
BY DEF Clear

LEMMA ClearNow ==
  ASSUME NEW tag \in Tags, NEW x \in Texts, NEW n \in Nat, Clear(tag, x, n),
         NEW i \in Nat, i < n
  PROVE  ~Here(tag, x, i)
<1>1. x \o <<>> = x /\ <<>> \in Texts
  BY JoinNone, EmptyText
<1> QED
  BY <1>1 DEF Clear

LEMMA ClearMore ==
  ASSUME NEW tag \in Tags, NEW x \in Texts, NEW z \in Texts, NEW n \in Nat,
         Clear(tag, x, n)
  PROVE  Clear(tag, x \o z, n)
<1> SUFFICES ASSUME NEW y \in Texts, NEW i \in Nat, i < n
             PROVE  ~Here(tag, (x \o z) \o y, i)
  BY DEF Clear
<1>1. Regroups(x, z, y)
  BY JoinThree
<1>2. z \o y \in Texts
  BY JoinIs
<1> QED
  BY <1>1, <1>2 DEF Clear, Regroups

(* What is not held back can be shown.                                      *)
LEMMA ClearHeld ==
  ASSUME NEW tag \in Tags, NEW t \in Texts, NEW p \in Texts,
         Clear(tag, t \o p, Len(t)), ~Occurs(p, tag)
  PROVE  Clear(tag, t \o p, Len(t) + (Len(p) - Hold(p, tag)))
<1> SUFFICES ASSUME NEW y \in Texts, NEW i \in Nat,
                    i < Len(t) + (Len(p) - Hold(p, tag))
             PROVE  ~Here(tag, (t \o p) \o y, i)
  BY DEF Clear
<1>1. /\ Len(t) \in Nat /\ Len(p) \in Nat /\ tag \in Texts /\ Len(tag) \in Nat
  BY TextIs, TagIs
<1>2. PICK h \in Nat : h = Hold(p, tag) /\ h <= Len(p)
  BY <1>1, HoldIs
<1>3. CASE i < Len(t)
  BY <1>3 DEF Clear
<1>4. CASE ~(i < Len(t))
  <2>1. PICK k \in Nat : i = Len(t) + k /\ k < Len(p) - h
    <3>1. i - Len(t) \in Nat /\ i = Len(t) + (i - Len(t))
      BY <1>1, <1>4
    <3>2. i < Len(t) + (Len(p) - h)
      BY <1>2
    <3>3. i - Len(t) < Len(p) - h
      BY <1>1, <1>2, <3>2
    <3> QED
      BY <3>1, <3>3
  <2>2. k < Len(p) - Hold(p, tag)
    BY <1>2, <2>1
  <2>3. ~Here(tag, p \o y, k)
    BY <2>2, NotBeforeHeld
  <2>4. p \o y \in Texts
    BY JoinIs
  <2>5. ~Here(tag, t \o (p \o y), Len(t) + k)
    BY <1>1, <2>3, <2>4, HereBehind
  <2>6. Regroups(t, p, y)
    BY JoinThree
  <2> QED
    BY <2>1, <2>5, <2>6 DEF Regroups
<1> QED
  BY <1>3, <1>4

(* The first tag behind what holds none.                                    *)
LEMMA FoundBehind ==
  ASSUME NEW tag \in Tags, NEW t \in Texts, NEW p \in Texts,
         Clear(tag, t \o p, Len(t)), Occurs(p, tag)
  PROVE  /\ Before(t \o p, tag) = Len(t) + Before(p, tag)
         /\ Occurs(t \o p, tag)
<1>1. /\ Len(t) \in Nat /\ Len(p) \in Nat /\ tag \in Texts /\ t \o p \in Texts
  BY TextIs, TagIs, JoinIs
<1>2. PICK b \in Nat : /\ b = Before(p, tag) /\ Here(tag, p, b)
                       /\ \A k \in Nat : k < b => ~Here(tag, p, k)
  BY OccursIs
<1>3. Here(tag, t \o p, Len(t) + b)
  BY <1>1, <1>2, HereBehind
<1>4. ASSUME NEW k \in Nat, k < Len(t) + b PROVE ~Here(tag, t \o p, k)
  <2>1. CASE k < Len(t)
    BY <1>1, <2>1, ClearNow
  <2>2. CASE ~(k < Len(t))
    <3>1. PICK l \in Nat : k = Len(t) + l /\ l < b
      <4>1. k - Len(t) \in Nat /\ k = Len(t) + (k - Len(t)) /\ k - Len(t) < b
        BY <1>1, <1>4, <2>2
      <4> QED
        BY <4>1
    <3> QED
      BY <1>1, <1>2, <3>1, HereBehind
  <2> QED
    BY <2>1, <2>2
<1>5. Len(t) + b \in Nat
  BY <1>1
<1> QED
  BY <1>1, <1>2, <1>3, <1>4, <1>5, FirstIsBefore

LEMMA NotFoundBehind ==
  ASSUME NEW tag \in Tags, NEW t \in Texts, NEW p \in Texts,
         Clear(tag, t \o p, Len(t)), Len(p) < Len(tag)
  PROVE  ~Occurs(t \o p, tag) /\ Before(t \o p, tag) = Len(t \o p)
<1>1. /\ Len(t) \in Nat /\ Len(p) \in Nat /\ tag \in Texts /\ t \o p \in Texts
      /\ Len(t \o p) = Len(t) + Len(p) /\ Len(tag) \in Nat
  BY TextIs, TagIs, JoinIs
<1>2. ASSUME NEW k \in Nat, Here(tag, t \o p, k) PROVE FALSE
  <2>1. k + Len(tag) <= Len(t) + Len(p)
    BY <1>1, <1>2 DEF Here
  <2>2. k < Len(t)
    BY <1>1, <2>1
  <2> QED
    BY <1>1, <1>2, <2>2, ClearNow
<1> QED
  BY <1>1, <1>2, NoneIsBefore

(* The first tag stays where it is when more comes.                         *)
LEMMA FoundInLonger ==
  ASSUME NEW tag \in Tags, NEW s \in Texts, NEW y \in Texts, Occurs(s, tag)
  PROVE  Occurs(s \o y, tag) /\ Before(s \o y, tag) = Before(s, tag)
<1>1. /\ Len(s) \in Nat /\ Len(tag) \in Nat /\ tag \in Texts
      /\ s \o y \in Texts
  BY TextIs, TagIs, JoinIs
<1>2. PICK b \in Nat : /\ b = Before(s, tag) /\ Here(tag, s, b)
                       /\ \A k \in Nat : k < b => ~Here(tag, s, k)
  BY OccursIs
<1>3. b + Len(tag) <= Len(s)
  BY <1>2 DEF Here
<1>4. Here(tag, s \o y, b)
  BY <1>1, <1>2, <1>3, HereInLonger
<1>5. \A k \in Nat : k < b => ~Here(tag, s \o y, k)
  <2> TAKE k \in Nat
  <2>1. k < b => k + Len(tag) <= Len(s)
    BY <1>1, <1>3
  <2> QED
    BY <1>1, <1>2, <2>1, HereInLonger
<1> QED
  BY <1>1, <1>2, <1>4, <1>5, FirstIsBefore

(* What there is of a text with a tag in it.                                *)
LEMMA FoundFits ==
  ASSUME NEW tag \in Tags, NEW s \in Texts, Occurs(s, tag)
  PROVE  /\ Before(s, tag) \in 0..Len(s)
         /\ Before(s, tag) + Len(tag) \in 0..Len(s)
<1>1. /\ Len(s) \in Nat /\ Len(tag) \in Nat
  BY TextIs, TagIs
<1>2. Before(s, tag) \in Nat /\ Here(tag, s, Before(s, tag))
  BY OccursIs
<1> QED
  BY <1>1, <1>2 DEF Here

LEMMA NotInNothing ==
  ASSUME NEW tag \in Tags
  PROVE  ~Occurs(<<>>, tag)
<1>1. Before(<<>>, tag) \in 0..0
  BY EmptyText, BeforeIs
<1> QED
  BY <1>1, EmptyText DEF Occurs

-----------------------------------------------------------------------------
(* Text, block and what is left of a message                                *)

LEMMA TheTags == OpenTag \in Tags /\ CloseTag \in Tags
BY SplitterAssumption DEF Tags, Texts

LEMMA HeadIs ==
  ASSUME NEW r \in Texts
  PROVE  HeadOf(r) \in Texts /\ Len(HeadOf(r)) = Before(r, OpenTag)
<1>1. Before(r, OpenTag) \in 0..Len(r)
  BY TheTags, BeforeIs
<1> QED
  BY <1>1, TakeIs DEF HeadOf

LEMMA BodyIs ==
  ASSUME NEW r \in Texts, Occurs(r, OpenTag)
  PROVE  /\ BodyOf(r) \in Texts
         /\ BodyOf(r) = Drop(r, Before(r, OpenTag) + Len(OpenTag))
         /\ Len(BodyOf(r)) = Len(r) - (Before(r, OpenTag) + Len(OpenTag))
         /\ Before(r, OpenTag) + Len(OpenTag) \in 0..Len(r)
<1>1. Before(r, OpenTag) + Len(OpenTag) \in 0..Len(r)
  BY TheTags, FoundFits
<1>2. BodyOf(r) = Drop(r, Before(r, OpenTag) + Len(OpenTag))
  BY HeadIs DEF BodyOf
<1> QED
  BY <1>1, <1>2, DropIs

LEMMA HeadInLonger ==
  ASSUME NEW r \in Texts, NEW y \in Texts, Occurs(r, OpenTag)
  PROVE  /\ Occurs(r \o y, OpenTag)
         /\ HeadOf(r \o y) = HeadOf(r)
         /\ BodyOf(r \o y) = BodyOf(r) \o y
<1>1. Occurs(r \o y, OpenTag) /\ Before(r \o y, OpenTag) = Before(r, OpenTag)
  BY TheTags, FoundInLonger
<1>2. /\ Before(r, OpenTag) \in 0..Len(r)
      /\ Before(r, OpenTag) + Len(OpenTag) \in 0..Len(r)
  BY TheTags, FoundFits
<1>3. HeadOf(r \o y) = HeadOf(r)
  BY <1>1, <1>2, TakeOfJoin DEF HeadOf
<1>4. r \o y \in Texts
  BY JoinIs
<1>5. BodyOf(r \o y) = Drop(r \o y, Before(r, OpenTag) + Len(OpenTag))
  BY <1>1, <1>4, BodyIs
<1>6. BodyOf(r) = Drop(r, Before(r, OpenTag) + Len(OpenTag))
  BY BodyIs
<1>7. BodyOf(r \o y) = BodyOf(r) \o y
  BY <1>2, <1>5, <1>6, DropOfJoin
<1> QED
  BY <1>1, <1>3, <1>7

LEMMA FoundInShorter ==
  ASSUME NEW tag \in Tags, NEW s \in Texts, NEW y \in Texts,
         Occurs(s \o y, tag), Before(s \o y, tag) + Len(tag) <= Len(s)
  PROVE  Occurs(s, tag)
<1>1. /\ Len(s) \in Nat /\ Len(tag) \in Nat /\ tag \in Texts
      /\ s \o y \in Texts
  BY TextIs, TagIs, JoinIs
<1>2. PICK b \in Nat : b = Before(s \o y, tag) /\ Here(tag, s \o y, b)
  BY <1>1, OccursIs
<1>3. b + Len(tag) <= Len(s)
  BY <1>2
<1>4. Here(tag, s, b)
  BY <1>1, <1>2, <1>3, HereInLonger
<1> QED
  BY <1>4, NotOccursIs

LEMMA FourAdded ==
  ASSUME NEW a \in Nat, NEW o \in Nat, NEW c \in Nat, NEW z \in Nat, o >= 1
  PROVE  /\ a + o \in Nat /\ c + z \in Nat /\ a + o >= 1
         /\ a + o + c + z = (a + o) + (c + z)
OBVIOUS

LEMMA BlockIs ==
  ASSUME NEW r \in Texts, HasBlock(r)
  PROVE  /\ BlockOf(r) \in Texts
         /\ Len(BlockOf(r)) = Before(BodyOf(r), CloseTag)
         /\ BlockEnd(r) = Before(r, OpenTag) + Len(OpenTag)
                            + (Before(BodyOf(r), CloseTag) + Len(CloseTag))
         /\ BlockEnd(r) \in 1..Len(r)
         /\ Drop(r, BlockEnd(r)) \in Texts
         /\ Drop(r, BlockEnd(r))
              = Drop(BodyOf(r), Before(BodyOf(r), CloseTag) + Len(CloseTag))
<1>1. Occurs(r, OpenTag) /\ Occurs(BodyOf(r), CloseTag)
  BY DEF HasBlock
<1>2. PICK a \in Nat, o \in Nat :
        a = Before(r, OpenTag) /\ o = Len(OpenTag) /\ o >= 1 /\ a + o <= Len(r)
  <2>1. /\ Before(r, OpenTag) \in 0..Len(r)
        /\ Before(r, OpenTag) + Len(OpenTag) \in 0..Len(r)
        /\ Len(OpenTag) \in Nat /\ Len(OpenTag) >= 1
    BY <1>1, TheTags, FoundFits, TagIs
  <2> QED
    BY <2>1
<1>3. PICK b \in Texts : /\ b = BodyOf(r) /\ b = Drop(r, a + o)
                         /\ Len(b) = Len(r) - (a + o)
  BY <1>1, <1>2, BodyIs
<1>4. PICK c \in Nat, z \in Nat :
        /\ c = Before(b, CloseTag) /\ z = Len(CloseTag) /\ z >= 1
        /\ c + z <= Len(b)
        /\ c \in 0..Len(b) /\ c + z \in 0..Len(b)
  <2>1. /\ Before(b, CloseTag) \in 0..Len(b)
        /\ Before(b, CloseTag) + Len(CloseTag) \in 0..Len(b)
        /\ Len(CloseTag) \in Nat /\ Len(CloseTag) >= 1
    BY <1>1, <1>3, TheTags, FoundFits, TagIs
  <2> QED
    BY <2>1
<1>5. BlockOf(r) \in Texts /\ Len(BlockOf(r)) = c
  <2>1. BlockOf(r) = Take(b, c)
    BY <1>3, <1>4 DEF BlockOf
  <2> QED
    BY <1>4, <2>1, TakeIs
<1>6. Len(HeadOf(r)) = a
  BY <1>2, HeadIs
<1>7. BlockEnd(r) = a + o + c + z
  BY <1>2, <1>4, <1>5, <1>6 DEF BlockEnd
<1>8. Len(r) \in Nat
  BY TextIs
<1>9. /\ a + o + c + z = a + o + (c + z) /\ a + o + (c + z) \in 1..Len(r)
      /\ a + o \in Nat /\ c + z \in Nat /\ a + o + (c + z) \in 0..Len(r)
      /\ (a + o) + (c + z) <= Len(r)
  <2>1. PICK lb \in Nat, lr \in Nat :
          /\ lb = Len(b) /\ lr = Len(r) /\ lb = lr - (a + o)
          /\ c + z <= lb
    <3>1. Len(b) \in Nat
      BY TextIs
    <3> QED
      BY <1>3, <1>4, <1>8, <3>1
  <2>2. /\ a + o + c + z = a + o + (c + z) /\ a + o + (c + z) \in 1..lr
        /\ a + o \in Nat /\ c + z \in Nat /\ a + o + (c + z) \in 0..lr
        /\ (a + o) + (c + z) <= lr
    <3>1. PICK m \in Nat, n \in Nat : /\ m = a + o /\ n = c + z /\ m >= 1
                                     /\ a + o + c + z = m + n
      <4>1. /\ a + o \in Nat /\ c + z \in Nat /\ a + o >= 1
            /\ a + o + c + z = (a + o) + (c + z)
        BY <1>2, FourAdded
      <4> QED
        BY <4>1
    <3>2. lb = lr - m /\ n <= lb
      BY <2>1, <3>1
    <3>3. m + n \in 1..lr /\ m + n \in 0..lr /\ m + n <= lr
      BY <3>1, <3>2
    <3> QED
      BY <3>1, <3>3
  <2> QED
    BY <2>1, <2>2
<1>10. Drop(b, c + z) = Drop(r, a + o + (c + z))
  BY <1>3, <1>9, DropTwice
<1>11. Drop(r, a + o + (c + z)) \in Texts
  BY <1>9, DropIs
<1> QED
  BY <1>2, <1>3, <1>4, <1>5, <1>7, <1>9, <1>10, <1>11

LEMMA BlockInLonger ==
  ASSUME NEW r \in Texts, NEW y \in Texts, HasBlock(r)
  PROVE  /\ HasBlock(r \o y)
         /\ HeadOf(r \o y) = HeadOf(r)
         /\ BlockOf(r \o y) = BlockOf(r)
         /\ BlockEnd(r \o y) = BlockEnd(r)
<1>1. Occurs(r, OpenTag) /\ Occurs(BodyOf(r), CloseTag)
  BY DEF HasBlock
<1>2. /\ Occurs(r \o y, OpenTag)
      /\ HeadOf(r \o y) = HeadOf(r)
      /\ BodyOf(r \o y) = BodyOf(r) \o y
  BY <1>1, HeadInLonger
<1>3. PICK b \in Texts : b = BodyOf(r)
  BY <1>1, BodyIs
<1>4. /\ Occurs(b \o y, CloseTag)
      /\ Before(b \o y, CloseTag) = Before(b, CloseTag)
  BY <1>1, <1>3, TheTags, FoundInLonger
<1>5. Before(b, CloseTag) \in 0..Len(b)
  BY TheTags, <1>3, BeforeIs
<1>6. Take(b \o y, Before(b, CloseTag)) = Take(b, Before(b, CloseTag))
  BY <1>5, TakeOfJoin
<1>7. BlockOf(r \o y) = BlockOf(r)
  BY <1>2, <1>3, <1>4, <1>6 DEF BlockOf
<1>8. HasBlock(r \o y)
  BY <1>2, <1>3, <1>4 DEF HasBlock
<1>9. BlockEnd(r \o y) = BlockEnd(r)
  BY <1>2, <1>7 DEF BlockEnd
<1> QED
  BY <1>2, <1>7, <1>8, <1>9

(* A block is told by the text up to its end.                               *)
LEMMA BlockInShorter ==
  ASSUME NEW r \in Texts, HasBlock(r), NEW q \in Texts,
         q = Take(r, BlockEnd(r))
  PROVE  /\ HasBlock(q)
         /\ HeadOf(q) = HeadOf(r)
         /\ BlockOf(q) = BlockOf(r)
         /\ BlockEnd(q) = BlockEnd(r)
         /\ Len(q) = BlockEnd(r)
         /\ r = q \o Drop(r, BlockEnd(r))
<1>1. Occurs(r, OpenTag) /\ Occurs(BodyOf(r), CloseTag)
  BY DEF HasBlock
<1>2. /\ BlockEnd(r) \in 1..Len(r) /\ Len(r) \in Nat
      /\ Drop(r, BlockEnd(r)) \in Texts
      /\ BlockEnd(r) = Before(r, OpenTag) + Len(OpenTag)
                            + (Before(BodyOf(r), CloseTag) + Len(CloseTag))
  BY BlockIs, TextIs
<1>3. BlockEnd(r) \in 0..Len(r)
  BY <1>2
<1>4. PICK y \in Texts : y = Drop(r, BlockEnd(r)) /\ r = q \o y
  BY <1>2, <1>3, TakeThenDrop
<1>5. Len(q) = BlockEnd(r)
  BY <1>3, TakeIs
<1>6. /\ Before(r, OpenTag) \in Nat
      /\ Len(OpenTag) \in Nat /\ Len(CloseTag) \in Nat
      /\ Before(BodyOf(r), CloseTag) \in Nat
  <2>1. BodyOf(r) \in Texts
    BY <1>1, BodyIs
  <2> QED
    BY <1>1, <2>1, TheTags, OccursIs, TagIs
<1>7. Before(r, OpenTag) + Len(OpenTag) <= Len(q)
  BY <1>2, <1>5, <1>6
<1>8. Occurs(q, OpenTag)
  BY <1>1, <1>4, <1>7, TheTags, FoundInShorter
<1>9. /\ Before(r, OpenTag) = Before(q, OpenTag)
      /\ BodyOf(r) = BodyOf(q) \o y
  BY <1>4, <1>8, TheTags, FoundInLonger, HeadInLonger
<1>10. PICK b \in Texts :
         b = BodyOf(q) /\ Len(b) = Len(q) - (Before(q, OpenTag) + Len(OpenTag))
  BY <1>8, BodyIs
<1>11. Before(b \o y, CloseTag) + Len(CloseTag) <= Len(b)
  <2>1. PICK a \in Nat, o \in Nat, c \in Nat, z \in Nat :
          /\ a = Before(r, OpenTag) /\ o = Len(OpenTag)
          /\ c = Before(BodyOf(r), CloseTag) /\ z = Len(CloseTag)
    BY <1>6
  <2>2. Len(q) = a + o + (c + z)
    BY <1>2, <1>5, <2>1
  <2>3. Len(b) = Len(q) - (a + o)
    BY <1>9, <1>10, <2>1
  <2>4. c + z <= Len(b)
    BY <2>1, <2>2, <2>3
  <2> QED
    BY <1>9, <1>10, <2>1, <2>4
<1>12. Occurs(b, CloseTag)
  BY <1>1, <1>9, <1>10, <1>11, TheTags, FoundInShorter
<1>13. HasBlock(q)
  BY <1>8, <1>10, <1>12 DEF HasBlock
<1>14. /\ HeadOf(q \o y) = HeadOf(q) /\ BlockOf(q \o y) = BlockOf(q)
       /\ BlockEnd(q \o y) = BlockEnd(q)
  BY <1>13, BlockInLonger
<1> QED
  BY <1>4, <1>5, <1>13, <1>14

-----------------------------------------------------------------------------
(* What a message consists of, block by block                               *)

(* r is what is left of the message, tail what is split of it behind its    *)
(* first block.                                                             *)
PartsOf(r, tail) ==
  IF HasBlock(r)
  THEN [text |-> HeadOf(r) \o tail.text,
        blocks |-> <<BlockOf(r)>> \o tail.blocks]
  ELSE [text |-> HeadOf(r), blocks |-> <<>>]

At(s, g, i) == PartsOf(Drop(s, i), g[i + BlockEnd(Drop(s, i))])
Parses(g, s) == g = [i \in 0..Len(s) |-> At(s, g, i)]
ParseOf(s) == CHOOSE g : Parses(g, s)

LEMMA SplitIsParse == ASSUME NEW s PROVE Split(s) = ParseOf(s)[0]
BY Zenon DEF Split, ParseOf, Parses, At, PartsOf

(* A block ends behind where it is looked for, and inside the message.      *)
LEMMA BlockGoesOn ==
  ASSUME NEW s \in Texts, NEW i \in 0..Len(s), HasBlock(Drop(s, i))
  PROVE  /\ i + BlockEnd(Drop(s, i)) \in 0..Len(s)
         /\ i + BlockEnd(Drop(s, i)) > i
<1>1. Drop(s, i) \in Texts /\ Len(Drop(s, i)) = Len(s) - i
      /\ Len(s) \in Nat
  BY DropIs, TextIs
<1>2. BlockEnd(Drop(s, i)) \in 1..Len(Drop(s, i))
  BY <1>1, BlockIs
<1> QED
  BY <1>1, <1>2

(* So a value depends only on those behind it.                              *)
LEMMA AtDepends ==
  ASSUME NEW s \in Texts, NEW i \in 0..Len(s), NEW g, NEW h,
         \A k \in 0..Len(s) : k > i => g[k] = h[k]
  PROVE  At(s, g, i) = At(s, h, i)
<1>1. CASE HasBlock(Drop(s, i))
  <2>1. g[i + BlockEnd(Drop(s, i))] = h[i + BlockEnd(Drop(s, i))]
    BY <1>1, BlockGoesOn
  <2> QED
    BY <2>1 DEF At
<1>2. CASE ~HasBlock(Drop(s, i))
  BY <1>2 DEF At, PartsOf
<1> QED
  BY <1>1, <1>2

LEMMA ParseExists ==
  ASSUME NEW s \in Texts
  PROVE  Parses(ParseOf(s), s)
<1> DEFINE Behind(g, n) ==
             \A i \in 0..Len(s) : i + n > Len(s) => g[i] = At(s, g, i)
           Some(n) == \E g : g = [i \in 0..Len(s) |-> g[i]] /\ Behind(g, n)
           Bad == {n \in Nat : n <= Len(s) + 1 /\ ~Some(n)}
<1>1. Len(s) \in Nat
  BY TextIs
<1>2. Some(0)
  <2> DEFINE e == [i \in 0..Len(s) |-> 0]
  <2>1. e = [i \in 0..Len(s) |-> e[i]]
    OBVIOUS
  <2>2. Behind(e, 0)
    <3>1. \A i \in 0..Len(s) : ~(i + 0 > Len(s))
      BY <1>1
    <3> QED
      BY <3>1
  <2> QED
    BY <2>1, <2>2
<1>3. ASSUME NEW n \in Nat, n <= Len(s), Some(n)
      PROVE  Some(n + 1)
  <2>1. PICK g : g = [i \in 0..Len(s) |-> g[i]] /\ Behind(g, n)
    BY <1>3
  <2>2. PICK m \in 0..Len(s) : m = Len(s) - n /\ m + n = Len(s)
    BY <1>1, <1>3
  <2> DEFINE h == [i \in 0..Len(s) |-> IF i = m THEN At(s, g, m) ELSE g[i]]
  <2>3. h = [i \in 0..Len(s) |-> h[i]]
    OBVIOUS
  <2>4. \A k \in 0..Len(s) : k > m => h[k] = g[k]
    BY <2>2
  <2>5. h[m] = At(s, g, m)
    BY <2>2
  <2> HIDE DEF h
  <2>6. ASSUME NEW i \in 0..Len(s), i >= m
        PROVE  At(s, h, i) = At(s, g, i)
    <3>1. \A k \in 0..Len(s) : k > i => k > m
      BY <1>1, <2>2, <2>6
    <3>2. \A k \in 0..Len(s) : k > i => h[k] = g[k]
      BY <2>4, <3>1
    <3> QED
      BY <3>2, AtDepends
  <2>7. Behind(h, n + 1)
    <3> TAKE i \in 0..Len(s)
    <3> HAVE i + (n + 1) > Len(s)
    <3>1. i >= m
      BY <1>1, <2>2
    <3>2. CASE i = m
      BY <2>5, <2>6, <3>1, <3>2
    <3>3. CASE i # m
      <4>1. i > m /\ i + n > Len(s)
        BY <1>1, <2>2, <3>1, <3>3
      <4>2. g[i] = At(s, g, i)
        BY <2>1, <4>1
      <4> QED
        BY <2>4, <2>6, <3>1, <4>1, <4>2
    <3> QED
      BY <3>2, <3>3
  <2> QED
    BY <2>3, <2>7
<1>4. Bad = {}
  <2> SUFFICES ASSUME Bad # {} PROVE FALSE
    OBVIOUS
  <2>1. PICK n \in Bad : \A l \in Bad : n <= l
    <3>1. Bad \in SUBSET Nat
      OBVIOUS
    <3> HIDE DEF Bad
    <3> QED
      BY <3>1, LeastNumber
  <2>2. n \in Nat /\ n <= Len(s) + 1 /\ ~Some(n)
    OBVIOUS
  <2> HIDE DEF Some
  <2>3. n # 0
    BY <1>2, <2>2
  <2>4. n - 1 \in Nat /\ n - 1 <= Len(s) /\ n - 1 <= Len(s) + 1
        /\ ~(n <= n - 1) /\ (n - 1) + 1 = n
    BY <1>1, <2>2, <2>3
  <2>5. Some(n - 1)
    BY <2>1, <2>4
  <2>6. Some((n - 1) + 1)
    BY <1>3, <2>4, <2>5
  <2> QED
    BY <2>2, <2>4, <2>6
<1>5. Some(Len(s) + 1)
  <2>1. Len(s) + 1 \in Nat /\ Len(s) + 1 <= Len(s) + 1
    BY <1>1
  <2> HIDE DEF Some
  <2> QED
    BY <1>4, <2>1
<1>6. PICK g : g = [i \in 0..Len(s) |-> g[i]] /\ Behind(g, Len(s) + 1)
  BY <1>5
<1>7. \A i \in 0..Len(s) : g[i] = At(s, g, i)
  <2>1. \A i \in 0..Len(s) : i + (Len(s) + 1) > Len(s)
    BY <1>1
  <2> QED
    BY <1>6, <2>1
<1>8. Parses(g, s)
  BY <1>6, <1>7 DEF Parses
<1> QED
  BY <1>8 DEF ParseOf

(* The message from a place on is split as it is in the whole.              *)
LEMMA ParseBehind ==
  ASSUME NEW s \in Texts, NEW m \in 0..Len(s), NEW g, Parses(g, s),
         NEW h, Parses(h, Drop(s, m))
  PROVE  \A i \in 0..(Len(s) - m) : h[i] = g[m + i]
<1>1. Len(s) \in Nat /\ m \in Nat /\ m <= Len(s)
  BY TextIs
<1>2. PICK d \in Texts : d = Drop(s, m) /\ Len(d) = Len(s) - m
  BY DropIs
<1>3. PICK c \in Nat : c = Len(d) /\ m + c = Len(s)
  BY <1>1, <1>2
<1>4. \A i \in 0..c : h[i] = At(d, h, i)
  BY <1>2, <1>3 DEF Parses
<1>5. \A i \in 0..Len(s) : g[i] = At(s, g, i)
  BY DEF Parses
<1> DEFINE Bad == {n \in Nat : n <= c /\ h[c - n] # g[m + (c - n)]}
<1>6. Bad = {}
  <2> SUFFICES ASSUME Bad # {} PROVE FALSE
    OBVIOUS
  <2>1. PICK n \in Bad : \A l \in Bad : n <= l
    <3>1. Bad \in SUBSET Nat
      OBVIOUS
    <3> HIDE DEF Bad
    <3> QED
      BY <3>1, LeastNumber
  <2>2. PICK i \in 0..c : i = c - n /\ h[i] # g[m + i]
    BY <1>3
  <2>3. \A k \in 0..c : k > i => h[k] = g[m + k]
    <3> TAKE k \in 0..c
    <3> HAVE k > i
    <3>3. n \in Nat
      OBVIOUS
    <3>4. c - k \in Nat /\ c - k <= c /\ c - (c - k) = k /\ c - k < n
      BY <1>3, <2>2, <3>3
    <3>1. PICK l \in Nat : l = c - k /\ l <= c /\ c - l = k /\ l < n
      BY <3>4
    <3>2. l \notin Bad
      <4> HIDE DEF Bad
      <4>1. n \in Nat
        BY <2>1 DEF Bad
      <4> QED
        BY <2>1, <3>1, <4>1
    <3> QED
      BY <3>1, <3>2
  <2> HIDE DEF Bad
  <2>4. m + i \in 0..Len(s) /\ i \in 0..Len(d)
    BY <1>1, <1>3
  <2>5. Drop(d, i) = Drop(s, m + i)
    <3>1. m \in Nat /\ i \in Nat /\ m + i <= Len(s)
      BY <1>1, <1>3
    <3> QED
      BY <1>2, <3>1, DropTwice
  <2>6. h[i] = PartsOf(Drop(d, i), h[i + BlockEnd(Drop(d, i))])
    BY <1>4, <2>2 DEF At
  <2>7. g[m + i] = PartsOf(Drop(d, i), g[(m + i) + BlockEnd(Drop(d, i))])
    BY <1>5, <2>4, <2>5 DEF At
  <2>8. CASE HasBlock(Drop(d, i))
    <3>1. PICK b \in Int : b = BlockEnd(Drop(d, i)) /\ i + b \in 0..c
                           /\ i + b > i
      <4>1. Drop(d, i) \in Texts
        BY <2>4, DropIs
      <4>2. BlockEnd(Drop(d, i)) \in Int
        BY <2>8, <4>1, BlockIs
      <4> QED
        BY <1>3, <2>4, <2>8, <4>2, BlockGoesOn
    <3>2. h[i + b] = g[m + (i + b)]
      BY <2>3, <3>1
    <3>3. m + (i + b) = (m + i) + b
      BY <1>1, <3>1
    <3> QED
      BY <2>2, <2>6, <2>7, <3>1, <3>2, <3>3
  <2>9. CASE ~HasBlock(Drop(d, i))
    BY <2>2, <2>6, <2>7, <2>9 DEF PartsOf
  <2> QED
    BY <2>8, <2>9
<1>7. ASSUME NEW i \in 0..c PROVE h[i] = g[m + i]
  <2>2. c - i \in Nat /\ c - i <= c /\ c - (c - i) = i
    BY <1>3
  <2>1. PICK n \in Nat : n = c - i /\ n <= c /\ c - n = i
    BY <2>2
  <2> QED
    BY <1>6, <2>1
<1> QED
  BY <1>2, <1>3, <1>7

LEMMA SplitUnfold ==
  ASSUME NEW s \in Texts
  PROVE  Split(s) = PartsOf(s, Split(Drop(s, BlockEnd(s))))
<1>1. PICK g : g = ParseOf(s) /\ Parses(g, s)
  BY ParseExists
<1>2. Len(s) \in Nat /\ 0 \in 0..Len(s)
  BY TextIs
<1>3. Drop(s, 0) = s
  <2>1. /\ Drop(s, 0) \in Texts /\ Len(Drop(s, 0)) = Len(s) - 0
        /\ \A j \in 1..(Len(s) - 0) : Drop(s, 0)[j] = s[0 + j]
    BY <1>2, DropIs
  <2>2. Len(Drop(s, 0)) = Len(s) /\ \A j \in 1..Len(s) : Drop(s, 0)[j] = s[j]
    BY <1>2, <2>1
  <2> QED
    BY <2>1, <2>2, SameText
<1>4. Split(s) = PartsOf(s, g[0 + BlockEnd(s)])
  BY <1>1, <1>2, <1>3, SplitIsParse DEF Parses, At
<1>5. CASE HasBlock(s)
  <2>1. PICK b \in 0..Len(s) : b = BlockEnd(s)
    BY <1>5, BlockIs
  <2>2. PICK d \in Texts : d = Drop(s, b)
    BY DropIs
  <2>3. PICK h : h = ParseOf(d) /\ Parses(h, d)
    BY ParseExists
  <2>4. \A i \in 0..(Len(s) - b) : h[i] = g[b + i]
    BY <1>1, <2>2, <2>3, ParseBehind
  <2>5. 0 \in 0..(Len(s) - b) /\ b + 0 = 0 + b
    BY <1>2
  <2>6. h[0] = g[0 + b]
    BY <2>4, <2>5
  <2>7. Split(d) = g[0 + b]
    BY <2>3, <2>6, SplitIsParse
  <2> QED
    BY <1>4, <2>1, <2>2, <2>7
<1>6. CASE ~HasBlock(s)
  BY <1>4, <1>6 DEF PartsOf
<1> QED
  BY <1>5, <1>6

LEMMA SplitOfBlock ==
  ASSUME NEW s \in Texts, HasBlock(s)
  PROVE  /\ Split(s).text = HeadOf(s) \o Split(Drop(s, BlockEnd(s))).text
         /\ Split(s).blocks
              = <<BlockOf(s)>> \o Split(Drop(s, BlockEnd(s))).blocks
BY SplitUnfold DEF PartsOf

LEMMA SplitOfRest ==
  ASSUME NEW s \in Texts, ~HasBlock(s)
  PROVE  Split(s).text = HeadOf(s) /\ Split(s).blocks = <<>>
<1>1. Split(s) = [text |-> HeadOf(s), blocks |-> <<>>]
  BY SplitUnfold DEF PartsOf
<1> QED
  BY <1>1

LEMMA SplitIs ==
  ASSUME NEW s \in Texts
  PROVE  Split(s).text \in Texts /\ Split(s).blocks \in Seq(Texts)
<1> DEFINE Fine(t) == Split(t).text \in Texts /\ Split(t).blocks \in Seq(Texts)
           Bad == {n \in Nat : \E t \in Texts : Len(t) = n /\ ~Fine(t)}
<1>1. Bad = {}
  <2> SUFFICES ASSUME Bad # {} PROVE FALSE
    OBVIOUS
  <2>1. PICK n \in Bad : \A l \in Bad : n <= l
    <3>1. Bad \in SUBSET Nat
      OBVIOUS
    <3> HIDE DEF Bad
    <3> QED
      BY <3>1, LeastNumber
  <2>2. PICK t \in Texts : Len(t) = n /\ ~Fine(t) /\ n \in Nat
    OBVIOUS
  <2>3. CASE HasBlock(t)
    <3>1. /\ BlockEnd(t) \in 1..Len(t) /\ Drop(t, BlockEnd(t)) \in Texts
          /\ BlockOf(t) \in Texts /\ HeadOf(t) \in Texts
      BY <2>3, BlockIs, HeadIs
    <3>2. PICK d \in Texts :
            d = Drop(t, BlockEnd(t)) /\ Len(d) \in Nat /\ Len(d) < n
      <4>1. BlockEnd(t) \in 0..Len(t)
        BY <2>2, <3>1
      <4>2. Len(Drop(t, BlockEnd(t))) = Len(t) - BlockEnd(t)
        BY <4>1, DropIs
      <4>3. Len(t) - BlockEnd(t) \in Nat /\ Len(t) - BlockEnd(t) < n
        BY <2>2, <3>1
      <4> QED
        BY <3>1, <4>2, <4>3
    <3>3. Fine(d)
      <4>1. Len(d) \notin Bad
        <5> HIDE DEF Bad
        <5> QED
          BY <2>1, <2>2, <3>2
      <4> QED
        BY <3>2, <4>1
    <3>4. Split(t).text = HeadOf(t) \o Split(d).text
          /\ Split(t).blocks = <<BlockOf(t)>> \o Split(d).blocks
      BY <2>3, <3>2, SplitOfBlock
    <3>5. Split(t).text \in Texts
      BY <3>1, <3>3, <3>4, JoinIs
    <3>6. <<BlockOf(t)>> \in Seq(Texts)
      BY <3>1
    <3>7. Split(t).blocks \in Seq(Texts)
      BY <3>3, <3>4, <3>6, ConcatProperties
    <3> QED
      BY <2>2, <3>5, <3>7
  <2>4. CASE ~HasBlock(t)
    <3>1. Split(t).text = HeadOf(t) /\ Split(t).blocks = <<>>
      BY <2>4, SplitOfRest
    <3>2. HeadOf(t) \in Texts /\ <<>> \in Seq(Texts)
      BY HeadIs
    <3> QED
      BY <2>2, <3>1, <3>2
  <2> QED
    BY <2>3, <2>4
<1> QED
  <2>1. Len(s) \in Nat
    BY TextIs
  <2> QED
    BY <1>1, <2>1

-----------------------------------------------------------------------------
(* The splitter                                                             *)

(* Behind p, which is split into t and b, the message is split as if it     *)
(* began there.                                                             *)
Known(p, t, b) ==
  \A x \in Texts : /\ Split(p \o x).text = t \o Split(x).text
                   /\ Split(p \o x).blocks = b \o Split(x).blocks

LEMMA KnownAtFirst == Known(<<>>, <<>>, <<>>)
<1> SUFFICES ASSUME NEW x \in Texts
             PROVE  /\ Split(<<>> \o x).text = <<>> \o Split(x).text
                    /\ Split(<<>> \o x).blocks = <<>> \o Split(x).blocks
  BY DEF Known
<1>1. <<>> \o x = x
  BY JoinNone
<1>2. Split(x).text \in Texts /\ Split(x).blocks \in Seq(Texts)
  BY SplitIs
<1>3. <<>> \o Split(x).text = Split(x).text
  BY <1>2, JoinNone
<1>4. <<>> \o Split(x).blocks = Split(x).blocks
  BY <1>2, ConcatEmptySeq
<1> QED
  BY <1>1, <1>3, <1>4

LEMMA KnownOn ==
  ASSUME NEW p \in Texts, NEW t \in Texts, NEW b \in Seq(Texts),
         Known(p, t, b), NEW r \in Texts, HasBlock(r)
  PROVE  \E q \in Texts :
           /\ r = q \o Drop(r, BlockEnd(r))
           /\ Known(p \o q, t \o HeadOf(r), Append(b, BlockOf(r)))
<1>1. /\ BlockEnd(r) \in 1..Len(r) /\ BlockOf(r) \in Texts
      /\ HeadOf(r) \in Texts /\ Len(r) \in Nat
  BY BlockIs, HeadIs, TextIs
<1>2. BlockEnd(r) \in 0..Len(r)
  BY <1>1
<1>3. PICK q \in Texts : q = Take(r, BlockEnd(r))
  BY <1>2, TakeIs
<1>4. /\ HasBlock(q) /\ HeadOf(q) = HeadOf(r) /\ BlockOf(q) = BlockOf(r)
      /\ BlockEnd(q) = BlockEnd(r) /\ Len(q) = BlockEnd(r)
      /\ r = q \o Drop(r, BlockEnd(r))
  BY <1>3, BlockInShorter
<1>5. ASSUME NEW x \in Texts
      PROVE  /\ Split((p \o q) \o x).text = (t \o HeadOf(r)) \o Split(x).text
             /\ Split((p \o q) \o x).blocks
                  = Append(b, BlockOf(r)) \o Split(x).blocks
  <2>0. q \o x \in Texts
    BY JoinIs
  <2>11. Regroups(p, q, x)
    BY JoinThree
  <2>1. (p \o q) \o x = p \o (q \o x) /\ q \o x \in Texts
    BY <2>0, <2>11 DEF Regroups
  <2>2. /\ HasBlock(q \o x) /\ HeadOf(q \o x) = HeadOf(r)
        /\ BlockOf(q \o x) = BlockOf(r) /\ BlockEnd(q \o x) = Len(q)
    BY <1>4, BlockInLonger
  <2>3. Drop(q \o x, Len(q)) = x
    BY DropFront
  <2>4. /\ Split(q \o x).text = HeadOf(r) \o Split(x).text
        /\ Split(q \o x).blocks = <<BlockOf(r)>> \o Split(x).blocks
    BY <2>1, <2>2, <2>3, SplitOfBlock
  <2>5. /\ Split(p \o (q \o x)).text = t \o Split(q \o x).text
        /\ Split(p \o (q \o x)).blocks = b \o Split(q \o x).blocks
    BY <2>1 DEF Known
  <2>6. Split(x).text \in Texts /\ Split(x).blocks \in Seq(Texts)
    BY SplitIs
  <2>7. (t \o HeadOf(r)) \o Split(x).text = t \o (HeadOf(r) \o Split(x).text)
    <3>1. PICK h \in Texts, xs \in Texts : h = HeadOf(r) /\ xs = Split(x).text
      BY <1>1, <2>6
    <3>2. Regroups(t, h, xs)
      BY JoinThree
    <3> QED
      BY <3>1, <3>2 DEF Regroups
  <2>8. Append(b, BlockOf(r)) = b \o <<BlockOf(r)>>
        /\ <<BlockOf(r)>> \in Seq(Texts)
    BY <1>1, AppendIsConcat
  <2>9. (b \o <<BlockOf(r)>>) \o Split(x).blocks
          = b \o (<<BlockOf(r)>> \o Split(x).blocks)
    <3>1. PICK h \in Seq(Texts), xs \in Seq(Texts) :
            h = <<BlockOf(r)>> /\ xs = Split(x).blocks
      BY <2>6, <2>8
    <3>2. Regroups(b, h, xs)
      BY BlocksRegroup
    <3> QED
      BY <3>1, <3>2 DEF Regroups
  <2> QED
    BY <2>1, <2>4, <2>5, <2>7, <2>8, <2>9
<1> QED
  BY <1>4, <1>5 DEF Known

(* A round of feed: with the text and the frames it gives.                  *)
Rounds ==
  {st \in [mode: {"text", "tag"}, pending: Texts, json: Texts,
           text: Texts, frames: Seq(Texts)] :
     st.mode = "text" => st.json = <<>>}

(* How the splitter stands to what was written: r is what is left of it     *)
(* behind the last block that was given.                                    *)
Fits(st, whole, sent, given) ==
  \E p \in Texts, t \in Texts, r \in Texts :
    /\ whole = p \o r
    /\ Known(p, t, given)
    /\ st.mode = "text" =>
         \E u \in Texts : /\ r = u \o st.pending
                          /\ sent = t \o u
                          /\ Clear(OpenTag, r, Len(u))
    /\ st.mode = "tag" =>
         /\ Occurs(r, OpenTag)
         /\ sent = t \o HeadOf(r)
         /\ BodyOf(r) = st.json \o st.pending
         /\ Clear(CloseTag, BodyOf(r), Len(st.json))

LEMMA FitsAtFirst ==
  ASSUME NEW st, st.mode = "text", st.pending = <<>>
  PROVE  Fits(st, <<>>, <<>>, <<>>)
<1>1. <<>> \in Texts /\ <<>> \o <<>> = <<>> /\ Len(<<>>) = 0
  BY EmptyText, JoinNone
<1>2. Clear(OpenTag, <<>>, Len(<<>>))
  BY <1>1, TheTags, ClearAtFirst
<1> QED
  BY <1>1, <1>2, KnownAtFirst DEF Fits

(* A piece comes.                                                           *)
LEMMA FitsMore ==
  ASSUME NEW st, st.pending \in Texts, st.json \in Texts,
         NEW whole, NEW sent, NEW given,
         Fits(st, whole, sent, given),
         NEW y \in Texts, NEW on, on.mode = st.mode, on.json = st.json,
         on.pending = st.pending \o y
  PROVE  Fits(on, whole \o y, sent, given)
<1>1. PICK p \in Texts, t \in Texts, r \in Texts :
        /\ whole = p \o r
        /\ Known(p, t, given)
        /\ st.mode = "text" =>
             \E u \in Texts : /\ r = u \o st.pending
                              /\ sent = t \o u
                              /\ Clear(OpenTag, r, Len(u))
        /\ st.mode = "tag" =>
             /\ Occurs(r, OpenTag)
             /\ sent = t \o HeadOf(r)
             /\ BodyOf(r) = st.json \o st.pending
             /\ Clear(CloseTag, BodyOf(r), Len(st.json))
  BY DEF Fits
<1>2. PICK l \in Texts : l = r \o y
  BY JoinIs
<1>3. whole \o y = p \o l
  <2>1. Regroups(p, r, y)
    BY JoinThree
  <2> QED
    BY <1>1, <1>2, <2>1 DEF Regroups
<1>4. ASSUME st.mode = "text"
      PROVE  \E u \in Texts : /\ l = u \o on.pending
                              /\ sent = t \o u
                              /\ Clear(OpenTag, l, Len(u))
  <2>1. PICK u \in Texts : /\ r = u \o st.pending /\ sent = t \o u
                           /\ Clear(OpenTag, r, Len(u))
    BY <1>1, <1>4
  <2>2. Regroups(u, st.pending, y)
    BY JoinThree
  <2>3. Len(u) \in Nat
    BY TextIs
  <2>4. Clear(OpenTag, l, Len(u))
    BY <1>2, <2>1, <2>3, TheTags, ClearMore
  <2> QED
    BY <1>2, <2>1, <2>2, <2>4 DEF Regroups
<1>5. ASSUME st.mode = "tag"
      PROVE  /\ Occurs(l, OpenTag)
             /\ sent = t \o HeadOf(l)
             /\ BodyOf(l) = on.json \o on.pending
             /\ Clear(CloseTag, BodyOf(l), Len(on.json))
  <2>1. /\ Occurs(r, OpenTag) /\ sent = t \o HeadOf(r)
        /\ BodyOf(r) = st.json \o st.pending
        /\ Clear(CloseTag, BodyOf(r), Len(st.json))
    BY <1>1, <1>5
  <2>2. /\ Occurs(l, OpenTag) /\ HeadOf(l) = HeadOf(r)
        /\ BodyOf(l) = BodyOf(r) \o y
    BY <1>2, <2>1, HeadInLonger
  <2>3. BodyOf(r) \in Texts /\ Len(st.json) \in Nat
    BY <2>1, BodyIs, TextIs
  <2>4. Clear(CloseTag, BodyOf(l), Len(st.json))
    BY <2>1, <2>2, <2>3, TheTags, ClearMore
  <2>5. (st.json \o st.pending) \o y = st.json \o (st.pending \o y)
    <3>1. PICK h \in Texts, xs \in Texts : h = st.json /\ xs = st.pending
      OBVIOUS
    <3>2. Regroups(h, xs, y)
      BY JoinThree
    <3> QED
      BY <3>1, <3>2 DEF Regroups
  <2> QED
    BY <2>1, <2>2, <2>4, <2>5
<1> QED
  BY <1>1, <1>3, <1>4, <1>5 DEF Fits

LEMMA TagOf ==
  ASSUME NEW st \in Rounds
  PROVE  /\ Tag(st) \in Tags /\ st.pending \in Texts /\ st.json \in Texts
         /\ st.text \in Texts /\ st.frames \in Seq(Texts)
         /\ st.mode = "text" => Tag(st) = OpenTag /\ st.json = <<>>
         /\ st.mode = "tag" => Tag(st) = CloseTag
         /\ st.mode \in {"text", "tag"}
BY TheTags DEF Rounds, Tag

(* The tag that ends a mode.                                                *)
LEMMA CutIs ==
  ASSUME NEW st \in Rounds, Finds(st)
  PROVE  /\ Cut(st) \in Rounds
         /\ Len(Cut(st).pending) < Len(st.pending)
<1>1. /\ Tag(st) \in Tags /\ st.pending \in Texts /\ st.json \in Texts
      /\ Occurs(st.pending, Tag(st)) /\ Len(st.pending) \in Nat
      /\ Len(Tag(st)) \in Nat /\ Len(Tag(st)) >= 1
  BY TagOf, TextIs, TagIs DEF Finds
<1>2. PICK a \in 0..Len(st.pending), e \in 0..Len(st.pending) :
        /\ a = Before(st.pending, Tag(st))
        /\ e = Before(st.pending, Tag(st)) + Len(Tag(st))
        /\ e = a + Len(Tag(st))
  BY <1>1, FoundFits
<1>3. PICK head \in Texts : head = Take(st.pending, a)
  BY <1>1, TakeIs
<1>4. PICK rest \in Texts :
        rest = Drop(st.pending, e) /\ Len(rest) = Len(st.pending) - e
  BY <1>1, DropIs
<1>5. Len(rest) < Len(st.pending)
  BY <1>1, <1>2, <1>4
<1>6. CASE st.mode = "text"
  <2>1. Cut(st) = [st EXCEPT !.text = @ \o head, !.pending = rest,
                             !.mode = "tag", !.json = <<>>]
    BY <1>2, <1>3, <1>4, <1>6 DEF Cut
  <2>2. st.text \o head \in Texts /\ <<>> \in Texts
    BY TagOf, JoinIs, EmptyText
  <2> QED
    BY <1>5, <2>1, <2>2 DEF Rounds
<1>7. CASE st.mode # "text"
  <2>1. Cut(st) = [st EXCEPT !.frames = Append(@, st.json \o head),
                             !.pending = rest, !.mode = "text", !.json = <<>>]
    BY <1>2, <1>3, <1>4, <1>7 DEF Cut
  <2>2. st.json \o head \in Texts /\ <<>> \in Texts
    BY <1>1, JoinIs, EmptyText
  <2>3. Append(st.frames, st.json \o head) \in Seq(Texts)
    BY <2>2, TagOf, AppendProperties
  <2> QED
    BY <1>5, <2>1, <2>2, <2>3 DEF Rounds
<1> QED
  BY <1>6, <1>7

LEMMA CutFits ==
  ASSUME NEW st \in Rounds, Finds(st), NEW whole, NEW sent \in Texts,
         NEW given \in Seq(Texts),
         Fits(st, whole, sent \o st.text, given \o st.frames)
  PROVE  Fits(Cut(st), whole, sent \o Cut(st).text, given \o Cut(st).frames)
<1>1. PICK p \in Texts, t \in Texts, r \in Texts :
        /\ whole = p \o r
        /\ Known(p, t, given \o st.frames)
        /\ st.mode = "text" =>
             \E u \in Texts : /\ r = u \o st.pending
                              /\ sent \o st.text = t \o u
                              /\ Clear(OpenTag, r, Len(u))
        /\ st.mode = "tag" =>
             /\ Occurs(r, OpenTag)
             /\ sent \o st.text = t \o HeadOf(r)
             /\ BodyOf(r) = st.json \o st.pending
             /\ Clear(CloseTag, BodyOf(r), Len(st.json))
  BY DEF Fits
<1>2. PICK w \in Texts, json \in Texts : w = st.pending /\ json = st.json
  BY TagOf
<1>3. PICK deltas \in Texts, framed \in Seq(Texts) :
        deltas = st.text /\ framed = st.frames
  BY TagOf
<1>4. PICK tag \in Tags : tag = Tag(st) /\ Occurs(w, tag)
  BY <1>2, TagOf DEF Finds
<1>5. PICK a \in 0..Len(w), e \in 0..Len(w) :
        a = Before(w, tag) /\ e = a + Len(tag)
  BY <1>4, FoundFits
<1>6. PICK head \in Texts : head = Take(w, a) /\ Len(head) = a
  BY TakeIs
<1>7. PICK rest \in Texts : rest = Drop(w, e)
  BY DropIs
<1>8. w = head \o Drop(w, a)
  BY <1>6, TakeThenDrop
<1>9. /\ Len(w) \in Nat /\ a \in Nat /\ e \in Nat /\ Len(tag) \in Nat
  BY <1>4, TextIs, TagIs
<1>10. CASE st.mode = "text"
  <2>1. Cut(st) = [st EXCEPT !.text = @ \o head, !.pending = rest,
                             !.mode = "tag", !.json = <<>>]
    BY <1>2, <1>4, <1>5, <1>6, <1>7, <1>10 DEF Cut
  <2>2. /\ Cut(st).mode = "tag" /\ Cut(st).json = <<>>
        /\ Cut(st).pending = rest /\ Cut(st).text = deltas \o head
        /\ Cut(st).frames = framed
    BY <1>3, <2>1 DEF Rounds
  <2>3. tag = OpenTag
    BY <1>4, <1>10, TagOf
  <2>4. PICK u \in Texts : /\ r = u \o w /\ sent \o deltas = t \o u
                           /\ Clear(OpenTag, r, Len(u))
    BY <1>1, <1>2, <1>3, <1>10
  <2>5. Before(r, OpenTag) = Len(u) + a /\ Occurs(r, OpenTag)
    BY <1>4, <1>5, <2>3, <2>4, TheTags, FoundBehind
  <2>6. PICK k \in Texts : k = Drop(w, a)
    BY DropIs
  <2>7. PICK v \in Texts : v = u \o head /\ Len(v) = Len(u) + a
    <3>1. Measures(u \o head, Len(u) + Len(head))
      BY JoinMeasures
    <3> QED
      BY <1>6, <3>1 DEF Measures
  <2>8. r = v \o k
    <3>1. Regroups(u, head, k)
      BY JoinThree
    <3> QED
      BY <1>8, <2>4, <2>6, <2>7, <3>1 DEF Regroups
  <2>9. HeadOf(r) = v
    BY <2>5, <2>7, <2>8, DropFront DEF HeadOf
  <2>10. BodyOf(r) = rest
    <3>1. BodyOf(r) = Drop(r, (Len(u) + a) + Len(tag))
      BY <2>3, <2>5, BodyIs
    <3>2. Len(u) \in Nat /\ Len(r) = Len(u) + Len(w)
      BY <2>4, TextIs, JoinIs
    <3>3. (Len(u) + a) + Len(tag) = Len(u) + e /\ Len(u) + e <= Len(r)
      BY <1>5, <1>9, <3>2
    <3>4. Drop(Drop(r, Len(u)), e) = Drop(r, Len(u) + e)
      BY <1>9, <3>2, <3>3, DropTwice
    <3>5. Drop(r, Len(u)) = w
      BY <2>4, DropFront
    <3> QED
      BY <1>7, <3>1, <3>3, <3>4, <3>5
  <2>11. sent \o (deltas \o head) = t \o v
    <3>1. Regroups(sent, deltas, head)
      BY JoinThree
    <3>2. Regroups(t, u, head)
      BY JoinThree
    <3> QED
      BY <2>4, <2>7, <3>1, <3>2 DEF Regroups
  <2>12. <<>> \o rest = rest /\ <<>> \in Texts /\ Len(<<>>) = 0
    BY JoinNone, EmptyText
  <2>13. Clear(CloseTag, BodyOf(r), Len(<<>>))
    BY <2>10, <2>12, TheTags, ClearAtFirst
  <2>14. /\ Occurs(r, OpenTag)
         /\ sent \o Cut(st).text = t \o HeadOf(r)
         /\ BodyOf(r) = Cut(st).json \o Cut(st).pending
         /\ Clear(CloseTag, BodyOf(r), Len(Cut(st).json))
    BY <2>2, <2>5, <2>9, <2>10, <2>11, <2>12, <2>13
  <2>15. Known(p, t, given \o Cut(st).frames)
    BY <1>1, <1>3, <2>2
  <2>16. ~(Cut(st).mode = "text")
    BY <2>2
  <2> QED
    BY <1>1, <2>14, <2>15, <2>16 DEF Fits
<1>11. CASE st.mode = "tag"
  <2>1. Cut(st) = [st EXCEPT !.frames = Append(@, st.json \o head),
                             !.pending = rest, !.mode = "text", !.json = <<>>]
    BY <1>2, <1>4, <1>5, <1>6, <1>7, <1>11 DEF Cut
  <2>2. /\ Cut(st).mode = "text" /\ Cut(st).pending = rest
        /\ Cut(st).text = deltas
        /\ Cut(st).frames = Append(framed, json \o head)
    BY <1>2, <1>3, <2>1 DEF Rounds
  <2>3. tag = CloseTag
    BY <1>4, <1>11, TagOf
  <2>4. /\ Occurs(r, OpenTag) /\ sent \o deltas = t \o HeadOf(r)
        /\ BodyOf(r) = json \o w /\ Clear(CloseTag, BodyOf(r), Len(json))
    BY <1>1, <1>2, <1>3, <1>11
  <2>5. PICK b \in Texts : b = BodyOf(r) /\ b = json \o w
    BY <2>4, BodyIs
  <2>6. Before(b, CloseTag) = Len(json) + a /\ Occurs(b, CloseTag)
    BY <1>4, <1>5, <2>3, <2>4, <2>5, TheTags, FoundBehind
  <2>7. HasBlock(r)
    BY <2>4, <2>5, <2>6 DEF HasBlock
  <2>8. PICK k \in Texts : k = Drop(w, a)
    BY DropIs
  <2>9. PICK v \in Texts : v = json \o head /\ Len(v) = Len(json) + a
    <3>1. Measures(json \o head, Len(json) + Len(head))
      BY JoinMeasures
    <3> QED
      BY <1>6, <3>1 DEF Measures
  <2>10. b = v \o k
    <3>1. Regroups(json, head, k)
      BY JoinThree
    <3> QED
      BY <1>8, <2>5, <2>8, <2>9, <3>1 DEF Regroups
  <2>11. BlockOf(r) = v
    <3>1. Take(v \o k, Len(v)) = v
      BY DropFront
    <3>2. BlockOf(r) = Take(b, Len(json) + a)
      BY <2>5, <2>6 DEF BlockOf
    <3> QED
      BY <2>9, <2>10, <3>1, <3>2
  <2>12. Drop(r, BlockEnd(r)) = rest
    <3>0. Drop(r, BlockEnd(r))
            = Drop(BodyOf(r), Before(BodyOf(r), CloseTag) + Len(CloseTag))
      BY <2>7, BlockIs
    <3>1. Drop(r, BlockEnd(r)) = Drop(b, (Len(json) + a) + Len(tag))
      BY <2>3, <2>5, <2>6, <3>0
    <3>2. Len(json) \in Nat /\ Len(b) = Len(json) + Len(w)
      BY <2>5, TextIs, JoinIs
    <3>3. (Len(json) + a) + Len(tag) = Len(json) + e
          /\ Len(json) + e <= Len(b)
      BY <1>5, <1>9, <3>2
    <3>4. Drop(Drop(b, Len(json)), e) = Drop(b, Len(json) + e)
      BY <1>9, <3>2, <3>3, DropTwice
    <3>5. Drop(b, Len(json)) = w
      BY <2>5, DropFront
    <3> QED
      BY <1>7, <3>1, <3>3, <3>4, <3>5
  <2>13. PICK known \in Seq(Texts) : known = given \o framed
    BY ConcatProperties
  <2>14. Known(p, t, known)
    BY <1>1, <1>3, <2>13
  <2>15. PICK q \in Texts :
           /\ r = q \o rest
           /\ Known(p \o q, t \o HeadOf(r), Append(known, v))
    BY <2>7, <2>11, <2>12, <2>14, KnownOn
  <2>16. Append(known, v) = given \o Append(framed, v)
    <3>1. Append(known, v) = known \o <<v>> /\ <<v>> \in Seq(Texts)
      BY AppendIsConcat
    <3>2. Append(framed, v) = framed \o <<v>>
      BY AppendIsConcat
    <3>3. PICK one \in Seq(Texts) : one = <<v>>
      BY <3>1
    <3>4. Regroups(given, framed, one)
      BY BlocksRegroup
    <3> QED
      BY <2>13, <3>1, <3>2, <3>3, <3>4 DEF Regroups
  <2>17. p \o q \in Texts /\ HeadOf(r) \in Texts /\ t \o HeadOf(r) \in Texts
    BY HeadIs, JoinIs
  <2>18. whole = (p \o q) \o rest
    <3>1. Regroups(p, q, rest)
      BY JoinThree
    <3> QED
      BY <1>1, <2>15, <3>1 DEF Regroups
  <2>19. /\ rest = <<>> \o Cut(st).pending
         /\ sent \o Cut(st).text = (t \o HeadOf(r)) \o <<>>
         /\ Clear(OpenTag, rest, Len(<<>>)) /\ <<>> \in Texts
    <3>1. <<>> \o rest = rest /\ (t \o HeadOf(r)) \o <<>> = t \o HeadOf(r)
      BY <2>17, JoinNone
    <3>2. Clear(OpenTag, rest, Len(<<>>)) /\ <<>> \in Texts
      BY TheTags, ClearAtFirst, EmptyText
    <3> QED
      BY <2>2, <2>4, <3>1, <3>2
  <2>20. Known(p \o q, t \o HeadOf(r), given \o Cut(st).frames)
    BY <2>2, <2>9, <2>15, <2>16
  <2>21. ~(Cut(st).mode = "tag")
    BY <2>2
  <2> QED
    BY <2>17, <2>18, <2>19, <2>20, <2>21 DEF Fits
<1> QED
  BY <1>10, <1>11, TagOf

(* What is kept at the end of a feed.                                       *)
LEMMA HeldFits ==
  ASSUME NEW st \in Rounds, ~Finds(st), NEW whole, NEW sent \in Texts,
         NEW given \in Seq(Texts),
         Fits(st, whole, sent \o st.text, given \o st.frames)
  PROVE  /\ HeldBack(st) \in Rounds
         /\ Fits(HeldBack(st), whole, sent \o HeldBack(st).text,
                 given \o HeldBack(st).frames)
         /\ Len(HeldBack(st).pending) < Len(Tag(HeldBack(st)))
<1>1. PICK p \in Texts, t \in Texts, r \in Texts :
        /\ whole = p \o r
        /\ Known(p, t, given \o st.frames)
        /\ st.mode = "text" =>
             \E u \in Texts : /\ r = u \o st.pending
                              /\ sent \o st.text = t \o u
                              /\ Clear(OpenTag, r, Len(u))
        /\ st.mode = "tag" =>
             /\ Occurs(r, OpenTag)
             /\ sent \o st.text = t \o HeadOf(r)
             /\ BodyOf(r) = st.json \o st.pending
             /\ Clear(CloseTag, BodyOf(r), Len(st.json))
  BY DEF Fits
<1>2. PICK w \in Texts, json \in Texts : w = st.pending /\ json = st.json
  BY TagOf
<1>3. PICK deltas \in Texts, framed \in Seq(Texts) :
        deltas = st.text /\ framed = st.frames
  BY TagOf
<1>4. PICK tag \in Tags : tag = Tag(st) /\ ~Occurs(w, tag)
  BY <1>2, TagOf DEF Finds
<1>5. PICK h \in Nat : h = Hold(w, tag) /\ h <= Len(w) /\ h < Len(tag)
  <2>1. Hold(w, tag) \in 0..(Len(tag) - 1) /\ Hold(w, tag) <= Len(w)
        /\ Len(tag) \in Nat
    BY HoldIs, TagIs
  <2> QED
    BY <2>1
<1>6. PICK keep \in 0..Len(w) : keep = Len(w) - h /\ Len(w) - keep = h
                                /\ keep = Len(w) - Hold(w, tag)
  <2>1. Len(w) \in Nat
    BY TextIs
  <2>2. Len(w) - h \in 0..Len(w) /\ Len(w) - (Len(w) - h) = h
    BY <1>5, <2>1
  <2> QED
    BY <1>5, <2>2
<1>7. PICK head \in Texts : head = Take(w, keep) /\ Len(head) = keep
  BY TakeIs
<1>8. PICK rest \in Texts : rest = Drop(w, keep) /\ Len(rest) = h
  BY <1>6, DropIs
<1>9. w = head \o rest
  BY <1>7, <1>8, TakeThenDrop
<1>10. Len(rest) < Len(tag)
  BY <1>5, <1>8
<1>11. CASE st.mode = "text"
  <2>1. HeldBack(st) = [st EXCEPT !.text = @ \o head, !.pending = rest]
    BY <1>2, <1>4, <1>6, <1>7, <1>8, <1>11 DEF HeldBack
  <2>2. deltas \o head \in Texts
    BY JoinIs
  <2>3. HeldBack(st) \in Rounds
    BY <1>3, <2>1, <2>2 DEF Rounds
  <2>4. /\ HeldBack(st).mode = "text" /\ HeldBack(st).pending = rest
        /\ HeldBack(st).text = deltas \o head /\ HeldBack(st).frames = framed
    BY <1>3, <1>11, <2>1 DEF Rounds
  <2>5. tag = OpenTag /\ Tag(HeldBack(st)) = OpenTag
    BY <1>4, <1>11, <2>3, <2>4, TagOf
  <2>6. PICK u \in Texts : /\ r = u \o w /\ sent \o deltas = t \o u
                           /\ Clear(OpenTag, r, Len(u))
    BY <1>1, <1>2, <1>3, <1>11
  <2>7. Clear(OpenTag, r, Len(u) + keep)
    BY <1>4, <1>6, <2>5, <2>6, TheTags, ClearHeld
  <2>8. PICK v \in Texts : v = u \o head /\ Len(v) = Len(u) + keep
    <3>1. Measures(u \o head, Len(u) + Len(head))
      BY JoinMeasures
    <3> QED
      BY <1>7, <3>1 DEF Measures
  <2>9. r = v \o rest
    <3>1. Regroups(u, head, rest)
      BY JoinThree
    <3> QED
      BY <1>9, <2>6, <2>8, <3>1 DEF Regroups
  <2>10. sent \o (deltas \o head) = t \o v
    <3>1. Regroups(sent, deltas, head)
      BY JoinThree
    <3>2. Regroups(t, u, head)
      BY JoinThree
    <3> QED
      BY <2>6, <2>8, <3>1, <3>2 DEF Regroups
  <2>11. \E n \in Texts : /\ r = n \o HeldBack(st).pending
                          /\ sent \o HeldBack(st).text = t \o n
                          /\ Clear(OpenTag, r, Len(n))
    BY <2>4, <2>7, <2>8, <2>9, <2>10
  <2>12. Known(p, t, given \o HeldBack(st).frames)
    BY <1>1, <1>3, <2>4
  <2>13. ~(HeldBack(st).mode = "tag")
    BY <2>4
  <2>14. Fits(HeldBack(st), whole, sent \o HeldBack(st).text,
              given \o HeldBack(st).frames)
    BY <1>1, <2>11, <2>12, <2>13 DEF Fits
  <2> QED
    BY <1>10, <2>3, <2>4, <2>5, <2>14
<1>12. CASE st.mode = "tag"
  <2>1. HeldBack(st) = [st EXCEPT !.json = @ \o head, !.pending = rest]
    BY <1>2, <1>4, <1>6, <1>7, <1>8, <1>12 DEF HeldBack
  <2>2. json \o head \in Texts
    BY JoinIs
  <2>3. HeldBack(st) \in Rounds
    BY <1>2, <1>12, <2>1, <2>2 DEF Rounds
  <2>4. /\ HeldBack(st).mode = "tag" /\ HeldBack(st).pending = rest
        /\ HeldBack(st).text = deltas /\ HeldBack(st).frames = framed
        /\ HeldBack(st).json = json \o head
    BY <1>2, <1>3, <1>12, <2>1 DEF Rounds
  <2>5. tag = CloseTag /\ Tag(HeldBack(st)) = CloseTag
    BY <1>4, <1>12, <2>3, <2>4, TagOf
  <2>6. /\ Occurs(r, OpenTag) /\ sent \o deltas = t \o HeadOf(r)
        /\ BodyOf(r) = json \o w /\ Clear(CloseTag, BodyOf(r), Len(json))
    BY <1>1, <1>2, <1>3, <1>12
  <2>7. Clear(CloseTag, BodyOf(r), Len(json) + keep)
    BY <1>4, <1>6, <2>5, <2>6, TheTags, ClearHeld
  <2>8. PICK v \in Texts : v = json \o head /\ Len(v) = Len(json) + keep
    <3>1. Measures(json \o head, Len(json) + Len(head))
      BY JoinMeasures
    <3> QED
      BY <1>7, <3>1 DEF Measures
  <2>9. BodyOf(r) = v \o rest
    <3>1. Regroups(json, head, rest)
      BY JoinThree
    <3> QED
      BY <1>9, <2>6, <2>8, <3>1 DEF Regroups
  <2>10. /\ Occurs(r, OpenTag)
         /\ sent \o HeldBack(st).text = t \o HeadOf(r)
         /\ BodyOf(r) = HeldBack(st).json \o HeldBack(st).pending
         /\ Clear(CloseTag, BodyOf(r), Len(HeldBack(st).json))
    BY <2>4, <2>6, <2>7, <2>8, <2>9
  <2>11. Known(p, t, given \o HeldBack(st).frames)
    BY <1>1, <1>3, <2>4
  <2>12. ~(HeldBack(st).mode = "text")
    BY <2>4
  <2>13. Fits(HeldBack(st), whole, sent \o HeldBack(st).text,
              given \o HeldBack(st).frames)
    BY <1>1, <2>10, <2>11, <2>12 DEF Fits
  <2> QED
    BY <1>10, <2>3, <2>4, <2>5, <2>13
<1> QED
  BY <1>11, <1>12, TagOf

(* The loop of feed: one round after the other.                             *)
Rounded(st) == IF Finds(st) THEN Cut(st) ELSE st

Drains(f, st) ==
  f = [n \in 0..Len(st.pending) |->
         IF n = 0 THEN st
         ELSE IF Finds(f[n - 1]) THEN Cut(f[n - 1]) ELSE f[n - 1]]
DrainOf(st) == CHOOSE f : Drains(f, st)

LEMMA DrainedIs ==
  ASSUME NEW st
  PROVE  Drained(st) = HeldBack(DrainOf(st)[Len(st.pending)])
BY Zenon DEF Drained, DrainOf, Drains

LEMMA RoundedIs ==
  ASSUME NEW st \in Rounds
  PROVE  Rounded(st) \in Rounds
BY CutIs DEF Rounded

LEMMA DrainExists ==
  ASSUME NEW st \in Rounds
  PROVE  /\ DrainOf(st)[0] = st
         /\ \A n \in 1..Len(st.pending) :
              DrainOf(st)[n] = Rounded(DrainOf(st)[n - 1])
<1>1. PICK c \in Nat : c = Len(st.pending)
  BY TagOf, TextIs
<1> DEFINE rule == [z \in (1..c) \X Rounds |-> Rounded(z[2])]
<1>2. rule \in [(1..c) \X Rounds -> Rounds]
  BY RoundedIs
<1>3. \A i \in 1..c : \A v \in Rounds : rule[<<i, v>>] = Rounded(v)
  OBVIOUS
<1> HIDE DEF rule
<1>4. PICK f \in [0..c -> Rounds] : Follows(f, c, st, rule)
  BY <1>2, Recursion
<1>5. f[0] = st /\ \A i \in 1..c : f[i] = rule[<<i, f[i - 1]>>]
  BY <1>4 DEF Follows
<1>6. \A i \in 1..c : f[i] = Rounded(f[i - 1])
  <2> TAKE i \in 1..c
  <2>1. i - 1 \in 0..c
    BY <1>1
  <2>2. f[i - 1] \in Rounds
    BY <1>4, <2>1
  <2> QED
    BY <1>3, <1>5, <2>2
<1>7. \A n \in 0..c :
        f[n] = IF n = 0 THEN st
               ELSE IF Finds(f[n - 1]) THEN Cut(f[n - 1]) ELSE f[n - 1]
  <2> TAKE n \in 0..c
  <2>1. CASE n = 0
    BY <1>5, <2>1
  <2>2. CASE n # 0
    <3>1. n \in 1..c
      BY <2>2
    <3> QED
      BY <1>6, <2>2, <3>1 DEF Rounded
  <2> QED
    BY <2>1, <2>2
<1>8. Drains(f, st)
  <2>1. f = [n \in 0..c |-> f[n]]
    BY <1>4
  <2> QED
    BY <1>1, <1>7, <2>1 DEF Drains
<1>9. Drains(DrainOf(st), st)
  BY <1>8 DEF DrainOf
<1> DEFINE g == DrainOf(st)
<1> HIDE DEF g
<1>10. \A n \in 0..c :
         g[n] = IF n = 0 THEN st
                ELSE IF Finds(g[n - 1]) THEN Cut(g[n - 1]) ELSE g[n - 1]
  BY <1>1, <1>9 DEF Drains, g
<1>11. g[0] = st
  <2>1. 0 \in 0..c
    BY <1>1
  <2> QED
    BY <1>10, <2>1
<1>12. \A n \in 1..c : g[n] = Rounded(g[n - 1])
  <2> TAKE n \in 1..c
  <2>1. n \in 0..c /\ n # 0
    BY <1>1
  <2> QED
    BY <1>10, <2>1 DEF Rounded
<1> QED
  BY <1>1, <1>11, <1>12 DEF g

LEMMA OneMore ==
  ASSUME NEW k \in Nat, NEW l \in Nat, NEW n \in Nat, NEW c \in Nat,
         k < l, l + n <= c
  PROVE  k + (n + 1) <= c
OBVIOUS

LEMMA DrainedFits ==
  ASSUME NEW st \in Rounds, NEW whole, NEW sent \in Texts,
         NEW given \in Seq(Texts),
         Fits(st, whole, sent \o st.text, given \o st.frames)
  PROVE  /\ Drained(st) \in Rounds
         /\ Fits(Drained(st), whole, sent \o Drained(st).text,
                 given \o Drained(st).frames)
         /\ Len(Drained(st).pending) < Len(Tag(Drained(st)))
<1>1. PICK c \in Nat : c = Len(st.pending)
  BY TagOf, TextIs
<1> DEFINE g == DrainOf(st)
           Good(n) == /\ g[n] \in Rounds
                      /\ Fits(g[n], whole, sent \o g[n].text,
                              given \o g[n].frames)
                      /\ ~Finds(g[n]) \/ Len(g[n].pending) + n <= c
           Bad == {n \in Nat : n <= c /\ ~Good(n)}
<1>2. g[0] = st /\ \A n \in 1..c : g[n] = Rounded(g[n - 1])
  BY <1>1, DrainExists
<1> HIDE DEF g
<1>3. Good(0)
  BY <1>1, <1>2
<1>4. ASSUME NEW n \in Nat, n < c, Good(n) PROVE Good(n + 1)
  <2>1. n + 1 \in 1..c /\ (n + 1) - 1 = n
    BY <1>1, <1>4
  <2>2. g[n + 1] = Rounded(g[n])
    BY <1>2, <2>1
  <2>3. PICK v \in Rounds :
          /\ v = g[n] /\ Fits(v, whole, sent \o v.text, given \o v.frames)
          /\ ~Finds(v) \/ Len(v.pending) + n <= c
    BY <1>4
  <2>4. CASE Finds(v)
    <3>1. PICK w \in Rounds : w = Cut(v) /\ Len(w.pending) < Len(v.pending)
      BY <2>4, CutIs
    <3>2. Fits(w, whole, sent \o w.text, given \o w.frames)
      BY <2>3, <2>4, <3>1, CutFits
    <3>3. g[n + 1] = w
      BY <2>2, <2>3, <2>4, <3>1 DEF Rounded
    <3>4. Len(w.pending) \in Nat /\ Len(v.pending) \in Nat
      BY TagOf, TextIs
    <3>5. Len(w.pending) + (n + 1) <= c
      <4>1. PICK k \in Nat, l \in Nat :
              k = Len(w.pending) /\ l = Len(v.pending) /\ k < l
        BY <3>1, <3>4
      <4>2. l + n <= c
        BY <2>3, <2>4, <4>1
      <4>3. k + (n + 1) <= c
        BY <4>1, <4>2, OneMore
      <4> QED
        BY <4>1, <4>3
    <3> QED
      BY <3>2, <3>3, <3>5
  <2>5. CASE ~Finds(v)
    <3>1. g[n + 1] = v
      BY <2>2, <2>3, <2>5 DEF Rounded
    <3> QED
      BY <2>3, <2>5, <3>1
  <2> QED
    BY <2>4, <2>5
<1> HIDE DEF Good
<1>5. Bad = {}
  <2> SUFFICES ASSUME Bad # {} PROVE FALSE
    OBVIOUS
  <2>1. PICK n \in Bad : \A l \in Bad : n <= l
    <3>1. Bad \in SUBSET Nat
      OBVIOUS
    <3> HIDE DEF Bad
    <3> QED
      BY <3>1, LeastNumber
  <2>2. n \in Nat /\ n <= c /\ ~Good(n)
    OBVIOUS
  <2>3. n # 0
    BY <1>3, <2>2
  <2>4. n - 1 \in Nat /\ n - 1 < c /\ n - 1 <= c
        /\ ~(n <= n - 1) /\ (n - 1) + 1 = n
    BY <1>1, <2>2, <2>3
  <2>5. Good(n - 1)
    BY <2>1, <2>4
  <2>6. Good((n - 1) + 1)
    BY <1>4, <2>4, <2>5
  <2> QED
    BY <2>2, <2>4, <2>6
<1>6. Good(c)
  <2>1. c \in Nat /\ c <= c
    BY <1>1
  <2> QED
    BY <1>5, <2>1
<1>7. PICK v \in Rounds :
        /\ v = g[c] /\ Fits(v, whole, sent \o v.text, given \o v.frames)
        /\ ~Finds(v) \/ Len(v.pending) + c <= c
  BY <1>6 DEF Good
<1>8. ~Finds(v)
  <2> SUFFICES ASSUME Finds(v) PROVE FALSE
    OBVIOUS
  <2>1. Len(v.pending) \in Nat /\ v.pending \in Texts /\ Tag(v) \in Tags
    BY TagOf, TextIs
  <2>2. Len(v.pending) = 0
    <3>1. PICK k \in Nat : k = Len(v.pending) /\ k + c <= c
      BY <1>7, <2>1
    <3>2. k = 0
      BY <3>1
    <3> QED
      BY <3>1, <3>2
  <2>3. v.pending = <<>>
    BY <2>1, <2>2, EmptySeq DEF Texts
  <2> QED
    BY <2>1, <2>3, NotInNothing DEF Finds
<1>9. Drained(st) = HeldBack(v)
  BY <1>1, <1>7, DrainedIs DEF g
<1> QED
  BY <1>7, <1>8, <1>9, HeldFits

LEMMA PrefixOfJoin ==
  ASSUME NEW s \in Texts, NEW t \in Texts
  PROVE  IsPrefix(s, s \o t)
<1>1. PICK v \in Texts : v = s \o t /\ Len(v) = Len(s) + Len(t)
  <2>1. Measures(s \o t, Len(s) + Len(t))
    BY JoinMeasures
  <2> QED
    BY <2>1 DEF Measures
<1>2. Len(s) \in Nat /\ Len(t) \in Nat
  BY TextIs
<1>3. Len(s) <= Len(v)
  BY <1>1, <1>2
<1>4. Take(v, Len(s)) = s /\ Take(s, Len(s)) = s
  BY <1>1, DropFront, TakeAll
<1> QED
  BY <1>1, <1>3, <1>4 DEF IsPrefix, Take

(* What was written, what was shown of it and what is held back.            *)
LEMMA FitsShows ==
  ASSUME NEW st, st.mode \in {"text", "tag"}, st.pending \in Texts,
         st.json \in Texts, Len(st.pending) < Len(Tag(st)),
         NEW whole, NEW sent \in Texts, NEW given \in Seq(Texts),
         Fits(st, whole, sent, given)
  PROVE  /\ given = Split(whole).blocks
         /\ Split(whole).text
              = IF st.mode = "text" THEN sent \o st.pending ELSE sent
<1>1. PICK p \in Texts, t \in Texts, r \in Texts :
        /\ whole = p \o r
        /\ Known(p, t, given)
        /\ st.mode = "text" =>
             \E u \in Texts : /\ r = u \o st.pending
                              /\ sent = t \o u
                              /\ Clear(OpenTag, r, Len(u))
        /\ st.mode = "tag" =>
             /\ Occurs(r, OpenTag)
             /\ sent = t \o HeadOf(r)
             /\ BodyOf(r) = st.json \o st.pending
             /\ Clear(CloseTag, BodyOf(r), Len(st.json))
  BY DEF Fits
<1>2. PICK w \in Texts, json \in Texts : w = st.pending /\ json = st.json
  OBVIOUS
<1>3. /\ Split(whole).text = t \o Split(r).text
      /\ Split(whole).blocks = given \o Split(r).blocks
  BY <1>1 DEF Known
<1>4. given \o <<>> = given
  BY ConcatEmptySeq
<1>5. CASE st.mode = "text"
  <2>1. PICK u \in Texts : /\ r = u \o w /\ sent = t \o u
                           /\ Clear(OpenTag, r, Len(u))
    BY <1>1, <1>2, <1>5
  <2>2. Len(w) < Len(OpenTag)
    BY <1>2, <1>5 DEF Tag
  <2>3. ~Occurs(r, OpenTag) /\ Before(r, OpenTag) = Len(r)
    BY <2>1, <2>2, TheTags, NotFoundBehind
  <2>4. HeadOf(r) = r
    BY <2>3, TakeAll DEF HeadOf
  <2>5. Split(r).text = r /\ Split(r).blocks = <<>>
    BY <2>3, <2>4, SplitOfRest DEF HasBlock
  <2>6. Regroups(t, u, w)
    BY JoinThree
  <2> QED
    BY <1>2, <1>3, <1>4, <1>5, <2>1, <2>5, <2>6 DEF Regroups
<1>6. CASE st.mode = "tag"
  <2>1. /\ Occurs(r, OpenTag) /\ sent = t \o HeadOf(r)
        /\ BodyOf(r) = json \o w /\ Clear(CloseTag, BodyOf(r), Len(json))
    BY <1>1, <1>2, <1>6
  <2>2. Len(w) < Len(CloseTag)
    BY <1>2, <1>6 DEF Tag
  <2>3. ~Occurs(BodyOf(r), CloseTag)
    BY <2>1, <2>2, TheTags, NotFoundBehind
  <2>4. Split(r).text = HeadOf(r) /\ Split(r).blocks = <<>>
    BY <2>3, SplitOfRest DEF HasBlock
  <2> QED
    BY <1>3, <1>4, <1>6, <2>1, <2>4
<1> QED
  BY <1>5, <1>6

SplitterInv ==
  /\ SplitterTypeOK
  /\ ~over => /\ Fits(splitter, said, shown, blocks)
              /\ Len(splitter.pending) < Len(Tag(splitter))
  /\ CutsDoNotShow

(* What is held back is the client's only difference to the whole.          *)
Hides(whole, sent, given) ==
  /\ given = Split(whole).blocks
  /\ IsPrefix(sent, Split(whole).text)
  /\ Len(Split(whole).text) - Len(sent) < Len(OpenTag)

LEMMA FitsHide ==
  ASSUME NEW st, st.mode \in {"text", "tag"}, st.pending \in Texts,
         st.json \in Texts, Len(st.pending) < Len(Tag(st)),
         NEW whole, NEW sent \in Texts, NEW given \in Seq(Texts),
         Fits(st, whole, sent, given)
  PROVE  Hides(whole, sent, given)
<1>1. /\ given = Split(whole).blocks
      /\ Split(whole).text
           = IF st.mode = "text" THEN sent \o st.pending ELSE sent
  BY FitsShows
<1>2. PICK w \in Texts : Split(whole).text = sent \o w /\ Len(w) < Len(OpenTag)
  <2>1. CASE st.mode = "text"
    <3>1. Len(st.pending) < Len(OpenTag)
      BY <2>1 DEF Tag
    <3> QED
      BY <1>1, <2>1, <3>1
  <2>2. CASE st.mode = "tag"
    <3>1. sent \o <<>> = sent /\ <<>> \in Texts /\ Len(<<>>) = 0
      BY JoinNone, EmptyText
    <3>2. Len(OpenTag) \in Nat /\ Len(OpenTag) >= 1
      BY TheTags, TagIs
    <3>3. Len(<<>>) < Len(OpenTag)
      BY <3>1, <3>2
    <3> QED
      BY <1>1, <2>2, <3>1, <3>3
  <2> QED
    BY <2>1, <2>2
<1>3. IsPrefix(sent, Split(whole).text)
  BY <1>2, PrefixOfJoin
<1>4. Len(Split(whole).text) - Len(sent) < Len(OpenTag)
  <2>1. Measures(sent \o w, Len(sent) + Len(w))
    BY JoinMeasures
  <2>2. Len(sent) \in Nat /\ Len(w) \in Nat /\ Len(OpenTag) \in Nat
    BY TheTags, TextIs, TagIs
  <2>3. Len(Split(whole).text) = Len(sent) + Len(w)
    BY <1>2, <2>1 DEF Measures
  <2> QED
    BY <1>2, <2>2, <2>3
<1> QED
  BY <1>1, <1>3, <1>4 DEF Hides

LEMMA SplitterInitInv == SplitterInit => SplitterInv
<1> SUFFICES ASSUME SplitterInit PROVE SplitterInv
  OBVIOUS
<1>1. /\ said = <<>> /\ shown = <<>> /\ blocks = <<>> /\ over = FALSE
      /\ splitter.mode = "text" /\ splitter.pending = <<>>
      /\ splitter.json = <<>>
  BY DEF SplitterInit
<1>2. SplitterTypeOK
  <2>1. <<>> \in Seq(Symbol) /\ <<>> \in Seq(Seq(Symbol))
    OBVIOUS
  <2> QED
    BY <1>1, <2>1 DEF SplitterTypeOK
<1>3. Fits(splitter, said, shown, blocks)
  <2>1. Fits(splitter, <<>>, <<>>, <<>>)
    BY <1>1, FitsAtFirst
  <2> QED
    BY <1>1, <2>1
<1>4. Len(splitter.pending) < Len(Tag(splitter))
  <2>1. Len(OpenTag) \in Nat /\ Len(OpenTag) >= 1
    BY TheTags, TagIs
  <2> QED
    BY <1>1, <2>1, EmptyText DEF Tag
<1>5. CutsDoNotShow
  <2>1. /\ splitter.mode \in {"text", "tag"} /\ splitter.pending \in Texts
        /\ splitter.json \in Texts /\ shown \in Texts
        /\ blocks \in Seq(Texts)
    BY <1>1, EmptyText
  <2>2. Hides(said, shown, blocks)
    BY <1>3, <1>4, <2>1, FitsHide
  <2> QED
    BY <1>1, <2>2 DEF CutsDoNotShow, Hides
<1> QED
  BY <1>2, <1>3, <1>4, <1>5 DEF SplitterInv

LEMMA PieceInv ==
  ASSUME SplitterInv, Piece
  PROVE  SplitterInv'
<1>1. /\ said \in Texts /\ shown \in Texts /\ blocks \in Seq(Texts)
      /\ splitter.mode \in {"text", "tag"} /\ over = FALSE
      /\ splitter.pending \in Texts /\ splitter.json \in Texts
      /\ splitter.mode = "text" => splitter.json = <<>>
      /\ Fits(splitter, said, shown, blocks)
  BY DEF SplitterInv, SplitterTypeOK, Texts, Piece
<1>2. PICK n \in 1..Min({MaxPiece, MaxText - Len(said)}) :
      \E y \in [1..n -> Symbol] :
        LET st == Fed(splitter, y)
        IN /\ said' = said \o y
           /\ splitter' = State(st)
           /\ shown' = shown \o st.text
           /\ blocks' = blocks \o st.frames
  BY DEF Piece
<1>3. PICK y \in [1..n -> Symbol] :
        /\ said' = said \o y
        /\ splitter' = State(Fed(splitter, y))
        /\ shown' = shown \o Fed(splitter, y).text
        /\ blocks' = blocks \o Fed(splitter, y).frames
  BY <1>2
<1>4. n \in Nat
  <2>1. /\ Len(said) \in Nat /\ Len(said) < MaxText
        /\ {MaxPiece, MaxText} \subseteq Nat
    BY <1>1, TextIs, SplitterAssumption DEF Piece
  <2>2. {MaxPiece, MaxText - Len(said)} \in SUBSET Nat
    BY <2>1
  <2>3. Min({MaxPiece, MaxText - Len(said)}) \in Nat
    BY <2>2, LeastIsMin
  <2> QED
    BY <2>3
<1>5. y \in Texts
  BY <1>4 DEF Texts
<1>6. PICK w \in Texts : w = splitter.pending \o y
  BY <1>1, <1>5, JoinIs
<1> DEFINE st == [mode |-> splitter.mode, pending |-> w,
                  json |-> splitter.json, text |-> <<>>, frames |-> <<>>]
<1>7. st \in Rounds
  BY <1>1, EmptyText DEF Rounds
<1>8. Fits(st, said \o y, shown, blocks)
  <2>1. st.mode = splitter.mode /\ st.json = splitter.json
        /\ st.pending = splitter.pending \o y
    BY <1>6
  <2> HIDE DEF st
  <2> QED
    BY <1>1, <1>5, <2>1, FitsMore
<1>9. Fed(splitter, y) = Drained(st)
  BY <1>6 DEF Fed
<1>10. shown \o st.text = shown /\ blocks \o st.frames = blocks
  BY <1>1, JoinNone, ConcatEmptySeq
<1> HIDE DEF st
<1>11. Fits(st, said \o y, shown \o st.text, blocks \o st.frames)
  BY <1>8, <1>10
<1>12. PICK v \in Rounds :
         /\ v = Drained(st)
         /\ Fits(v, said \o y, shown \o v.text, blocks \o v.frames)
         /\ Len(v.pending) < Len(Tag(v))
  BY <1>1, <1>7, <1>11, DrainedFits
<1>13. /\ said' = said \o y /\ shown' = shown \o v.text
       /\ blocks' = blocks \o v.frames /\ splitter' = State(v)
       /\ over' = FALSE
  BY <1>1, <1>3, <1>9, <1>12 DEF Piece
<1>14. /\ splitter'.mode = v.mode /\ splitter'.pending = v.pending
       /\ splitter'.json = v.json
  BY <1>13 DEF State
<1>15. SplitterTypeOK'
  <2>1. /\ v.mode \in {"text", "tag"} /\ v.pending \in Texts
        /\ v.json \in Texts /\ v.text \in Texts /\ v.frames \in Seq(Texts)
        /\ v.mode = "text" => v.json = <<>>
    BY TagOf
  <2>2. said' \in Texts /\ shown' \in Texts
    BY <1>1, <1>5, <1>13, <2>1, JoinIs
  <2>3. blocks' \in Seq(Texts)
    BY <1>1, <1>13, <2>1, ConcatProperties
  <2> QED
    BY <1>13, <1>14, <2>1, <2>2, <2>3 DEF SplitterTypeOK, Texts
<1>16. Fits(splitter, said, shown, blocks)'
  <2>1. Fits(splitter', said \o y, shown \o v.text, blocks \o v.frames)
    BY <1>12, <1>14 DEF Fits
  <2> QED
    BY <1>13, <2>1
<1>17. (Len(splitter.pending) < Len(Tag(splitter)))'
  BY <1>12, <1>14 DEF Tag
<1>18. CutsDoNotShow'
  <2>1. /\ v.mode \in {"text", "tag"} /\ v.pending \in Texts
        /\ v.json \in Texts /\ v.text \in Texts /\ v.frames \in Seq(Texts)
    BY TagOf
  <2>2. PICK whole \in Texts, sent \in Texts, given \in Seq(Texts) :
          /\ whole = said' /\ sent = shown' /\ given = blocks'
    BY <1>15 DEF SplitterTypeOK, Texts
  <2>3. Fits(v, whole, sent, given)
    BY <1>12, <1>13, <2>2
  <2>4. Hides(whole, sent, given)
    BY <1>12, <2>1, <2>3, FitsHide
  <2> QED
    BY <1>13, <2>2, <2>4 DEF CutsDoNotShow, Hides
<1> QED
  BY <1>13, <1>15, <1>16, <1>17, <1>18 DEF SplitterInv

LEMMA FlushAtEndInv ==
  ASSUME SplitterInv, FlushAtEnd
  PROVE  SplitterInv'
<1>1. /\ said \in Texts /\ shown \in Texts /\ blocks \in Seq(Texts)
      /\ splitter.mode \in {"text", "tag"}
      /\ splitter.pending \in Texts /\ splitter.json \in Texts
      /\ Fits(splitter, said, shown, blocks)
      /\ Len(splitter.pending) < Len(Tag(splitter))
  BY DEF SplitterInv, SplitterTypeOK, Texts, FlushAtEnd
<1>2. /\ said' = said /\ blocks' = blocks /\ over' = TRUE
      /\ shown' = IF splitter.mode = "text" THEN shown \o splitter.pending
                  ELSE shown
      /\ splitter' = [mode |-> "text", pending |-> <<>>, json |-> <<>>]
  BY DEF FlushAtEnd
<1>3. blocks = Split(said).blocks /\ Split(said).text = shown'
  BY <1>1, <1>2, FitsShows
<1>4. Split(said).text \in Texts
  BY <1>1, SplitIs
<1>5. SplitterTypeOK'
  <2>1. shown' \in Seq(Symbol)
    BY <1>3, <1>4 DEF Texts
  <2>2. <<>> \in Seq(Symbol)
    BY EmptyText DEF Texts
  <2> QED
    BY <1>1, <1>2, <2>1, <2>2 DEF SplitterTypeOK, Texts
<1>6. IsPrefix(shown', Split(said).text)
  <2>1. PICK t \in Texts : t = Split(said).text /\ t = shown'
    BY <1>3, <1>4
  <2>2. t \o <<>> = t
    BY JoinNone
  <2>3. IsPrefix(t, t \o <<>>)
    BY EmptyText, PrefixOfJoin
  <2> QED
    BY <2>1, <2>2, <2>3
<1>7. CutsDoNotShow'
  BY <1>2, <1>3, <1>6 DEF CutsDoNotShow
<1> QED
  BY <1>2, <1>5, <1>7 DEF SplitterInv

LEMMA SplitterStepInv ==
  ASSUME SplitterInv, [SplitterNext]_splitterVars
  PROVE  SplitterInv'
<1>1. CASE Piece
  BY <1>1, PieceInv
<1>2. CASE FlushAtEnd
  BY <1>2, FlushAtEndInv
<1>3. CASE UNCHANGED splitterVars
  <2>1. /\ said' = said /\ splitter' = splitter /\ shown' = shown
        /\ blocks' = blocks /\ over' = over
    BY <1>3 DEF splitterVars
  <2>2. SplitterTypeOK'
    BY <2>1 DEF SplitterInv, SplitterTypeOK
  <2>3. CutsDoNotShow'
    BY <2>1 DEF SplitterInv, CutsDoNotShow
  <2> QED
    BY <2>1, <2>2, <2>3 DEF SplitterInv, Tag
<1> QED
  BY <1>1, <1>2, <1>3 DEF SplitterNext

(* The splitter is in one of its two modes, with no block begun outside     *)
(* one, and what it holds and gave are sequences of symbols.                *)
THEOREM SplitterTyped == SplitterSpec => []SplitterTypeOK
<1>1. SplitterInv => SplitterTypeOK
  BY DEF SplitterInv
<1> QED
  BY <1>1, SplitterInitInv, SplitterStepInv, PTL DEF SplitterSpec

(* However the text of a message is cut into pieces, the client is shown    *)
(* its text and is given its blocks as if it had come in one piece, and     *)
(* never the beginning of a tag: A2uiStreamSplitter with any two tags.      *)
THEOREM CutsAreHidden == SplitterSpec => []CutsDoNotShow
<1>1. SplitterInv => CutsDoNotShow
  BY DEF SplitterInv
<1> QED
  BY <1>1, SplitterInitInv, SplitterStepInv, PTL DEF SplitterSpec

=============================================================================
