--------------------------- MODULE Answers_proofs ---------------------------
(***************************************************************************)
(* Proofs about the answers of the functions: what the topology, the wall, *)
(* the imports, the sweeps, the sheet of the racks and the alarms of a log *)
(* are told is right, for lists of any length (MaxLen) and any number of   *)
(* nodes (TopoNodes).  Most of the functions are folds over a list; each   *)
(* is unfolded once, and an invariant of its steps is shown to hold after  *)
(* any number of them.                                                     *)
(***************************************************************************)
EXTENDS Topology, Attachment, WallFacility, Imports, BandSweep, RackRoom, ConfigBackups,
        WellFoundedInduction, FiniteSetTheorems, SequenceTheorems, TLAPS

-----------------------------------------------------------------------------
(* What the proofs below need of numbers, sets and lists.  A property of all *)
(* numbers is proved by the least number without it, which there is because *)
(* the order of the naturals is well-founded: LeastNatural.  By this, a fold *)
(* of the community modules is known to unfold step by step: FoldUnfolds and *)
(* those after it.                                                         *)

\* A set of naturals that is not empty has a least one.
LEMMA LeastNatural ==
    ASSUME NEW S, S \subseteq Nat, S # {}
    PROVE  \E n \in S : \A m \in S : n <= m
<1>1. IsWellFoundedOn(OpToRel(<, Nat), Nat)
  BY NatLessThanWellFounded
<1>2. PICK n \in S : \A m \in S : ~(<<m, n>> \in OpToRel(<, Nat))
  BY <1>1, WFMin
<1>3. \A m \in S : ~(<<m, n>> \in {pair \in Nat \X Nat : pair[1] < pair[2]})
  BY <1>2 DEF OpToRel
<1>4. ASSUME NEW m \in S PROVE ~(m < n)
  <2>1. <<m, n>> \in Nat \X Nat
    OBVIOUS
  <2>2. ~(<<m, n>>[1] < <<m, n>>[2])
    BY <1>3, <2>1
  <2> QED BY <2>2
<1> QED BY <1>4

\* Induction over the naturals, told of a set.
LEMMA NaturalsInSet ==
    ASSUME NEW S, 0 \in S, \A n \in Nat : n \in S => n + 1 \in S
    PROVE  Nat \subseteq S
<1> DEFINE Out == Nat \ S
<1>1. SUFFICES ASSUME Out # {} PROVE FALSE
  OBVIOUS
<1>2. PICK n \in Out : \A m \in Out : n <= m
  BY <1>1, LeastNatural
<1>3. n # 0 /\ n - 1 \in Nat /\ n - 1 \in S
  BY <1>2
<1> QED BY <1>2, <1>3

\* Induction up to a bound.
LEMMA UpToInSet ==
    ASSUME NEW N \in Nat, NEW S, 0 \in S, \A n \in 0..(N - 1) : n \in S => n + 1 \in S
    PROVE  0..N \subseteq S
<1> DEFINE T == {n \in Nat : n <= N => n \in S}
<1>1. 0 \in T
  OBVIOUS
<1>2. ASSUME NEW n \in Nat, n \in T PROVE n + 1 \in T
  BY <1>2
<1>3. Nat \subseteq T
  <2> HIDE DEF T
  <2> QED BY <1>1, <1>2, NaturalsInSet
<1> QED BY <1>3

\* A finite set of integers that is not empty has a largest element; the
\* operator of the library names it.
LEMMA MaxOfBounded ==
    ASSUME NEW n \in Nat, NEW S, S \subseteq 1..n, S # {}
    PROVE  Max(S) \in S /\ \A m \in S : m <= Max(S)
<1> DEFINE Rest == {n - m : m \in S}
<1>1. Rest \subseteq Nat /\ Rest # {}
  <2>1. PICK m \in S : TRUE
    OBVIOUS
  <2>2. n - m \in Rest
    OBVIOUS
  <2> QED BY <2>2
<1>2. PICK k \in Rest : \A m \in Rest : k <= m
  BY <1>1, LeastNatural
<1>3. PICK x \in S : k = n - x
  OBVIOUS
<1>4. \A m \in S : x >= m
  <2> TAKE m \in S
  <2>1. n - m \in Rest
    OBVIOUS
  <2>2. k <= n - m
    BY <2>1, <1>2
  <2> QED BY <2>2, <1>3
<1>5. Max(S) \in S /\ \A m \in S : Max(S) >= m
  <2> HIDE DEF Rest
  <2> QED BY <1>4 DEF Max
<1> QED BY <1>5

\* The community operators Min and Max choose what their names say.
LEMMA MinOfBounded ==
    ASSUME NEW S, S \subseteq Nat, S # {}
    PROVE  Min(S) \in S /\ \A m \in S : Min(S) <= m
<1>1. PICK x \in S : \A m \in S : x <= m
  BY LeastNatural
<1> QED BY <1>1 DEF Min

\* The largest number up to k is k, and the rest are those up to k - 1.
LEMMA MaxOfUpTo ==
    ASSUME NEW k \in Nat, k # 0
    PROVE  Max(1..k) = k /\ (1..k) \ {k} = 1..(k - 1) /\ 1..k # {}
<1>1. 1..k \subseteq 1..k /\ 1..k # {}
  OBVIOUS
<1>2. Max(1..k) \in 1..k /\ \A m \in 1..k : m <= Max(1..k)
  BY <1>1, MaxOfBounded
<1> QED BY <1>1, <1>2

\* g solves the recursion of the fold of F over seq on the sets of positions.
FoldSolution(g, T, F, base, n, seq) ==
    /\ g \in [SUBSET (1..n) -> T]
    /\ \A s \in SUBSET (1..n) :
           g[s] = IF s = {} THEN base ELSE F[<<g[s \ {Max(s)}], seq[Max(s)]>>]

\* Over the first positions such a g unfolds element by element, while in T.
FoldRun(g, T, F, base, n, seq) ==
    /\ g[1..0] = base
    /\ \A k \in 1..n : g[1..(k - 1)] \in T => g[1..k] = F[<<g[1..(k - 1)], seq[k]>>]

\* The first n steps stay in T.
RunStays(g, T, n) == \A k \in 0..n : g[1..k] \in T

\* The recursion of a fold over the positions of a list has a solution.
LEMMA FoldHasSolution ==
    ASSUME NEW T, NEW E, NEW F \in [T \X E -> T], NEW base \in T,
           NEW n \in Nat, NEW seq \in [1..n -> E]
    PROVE  \E g : FoldSolution(g, T, F, base, n, seq)
<1> DEFINE Solves(g, k) == \A s \in SUBSET (1..k) :
               g[s] = IF s = {} THEN base ELSE F[<<g[s \ {Max(s)}], seq[Max(s)]>>]
           Good == {k \in 0..n : \E g \in [SUBSET (1..k) -> T] : Solves(g, k)}
<1>1. 0 \in Good
  <2> DEFINE g == [s \in SUBSET (1..0) |-> base]
  <2>1. g \in [SUBSET (1..0) -> T]
    OBVIOUS
  <2>2. Solves(g, 0)
    OBVIOUS
  <2>3. \E f \in [SUBSET (1..0) -> T] : Solves(f, 0)
    <3> HIDE DEF g, Solves
    <3> QED BY <2>1, <2>2
  <2>4. 0 \in 0..n
    OBVIOUS
  <2> HIDE DEF Solves
  <2> QED BY <2>3, <2>4, Zenon
<1>2. ASSUME NEW k \in 0..(n - 1), k \in Good PROVE k + 1 \in Good
  <2>1. PICK g \in [SUBSET (1..k) -> T] : Solves(g, k)
    BY <1>2
  <2> DEFINE h == [s \in SUBSET (1..(k + 1)) |->
                     IF k + 1 \in s THEN F[<<g[s \ {k + 1}], seq[k + 1]>>] ELSE g[s]]
  <2>2. ASSUME NEW s \in SUBSET (1..(k + 1)) PROVE s \ {k + 1} \in SUBSET (1..k)
    OBVIOUS
  <2>3. seq[k + 1] \in E
    OBVIOUS
  <2>4. h \in [SUBSET (1..(k + 1)) -> T]
    <3> SUFFICES ASSUME NEW s \in SUBSET (1..(k + 1)) PROVE h[s] \in T
      OBVIOUS
    <3>1. CASE k + 1 \in s
      <4>1. g[s \ {k + 1}] \in T
        BY <2>2
      <4>2. <<g[s \ {k + 1}], seq[k + 1]>> \in T \X E
        BY <4>1, <2>3
      <4> QED BY <4>2, <3>1
    <3>2. CASE k + 1 \notin s
      BY <2>2, <3>2
    <3> QED BY <3>1, <3>2
  <2>5. Solves(h, k + 1)
    <3> SUFFICES ASSUME NEW s \in SUBSET (1..(k + 1))
                 PROVE  h[s] = IF s = {} THEN base ELSE F[<<h[s \ {Max(s)}], seq[Max(s)]>>]
      OBVIOUS
    <3>1. CASE k + 1 \in s
      <4>0. s \subseteq 1..(k + 1) /\ s # {} /\ k + 1 \in Nat
        BY <3>1
      <4>1. Max(s) \in s /\ \A m \in s : m <= Max(s)
        BY <4>0, MaxOfBounded
      <4>2. Max(s) = k + 1
        <5> HIDE DEF h, Solves
        <5>1. Max(s) \in 1..(k + 1) /\ k + 1 <= Max(s)
          BY <4>1, <4>0, <3>1
        <5> QED BY <5>1
      <4>3. s \ {k + 1} \in SUBSET (1..(k + 1)) /\ k + 1 \notin s \ {k + 1}
        OBVIOUS
      <4>4. h[s \ {k + 1}] = g[s \ {k + 1}]
        BY <4>3
      <4>5. h[s] = F[<<g[s \ {k + 1}], seq[k + 1]>>]
        BY <3>1
      <4>6. s # {}
        BY <3>1
      <4> HIDE DEF h
      <4> QED BY <4>2, <4>4, <4>5, <4>6
    <3>2. CASE k + 1 \notin s
      <4>1. s \in SUBSET (1..k)
        BY <3>2, <2>2
      <4>2. h[s] = g[s]
        BY <3>2
      <4>3. g[s] = IF s = {} THEN base ELSE F[<<g[s \ {Max(s)}], seq[Max(s)]>>]
        BY <4>1, <2>1
      <4>4. s \ {Max(s)} \in SUBSET (1..(k + 1)) /\ k + 1 \notin s \ {Max(s)}
        BY <3>2
      <4>5. h[s \ {Max(s)}] = g[s \ {Max(s)}]
        BY <4>4
      <4> HIDE DEF h
      <4> QED BY <4>2, <4>3, <4>5
    <3> QED BY <3>1, <3>2
  <2> HIDE DEF h, Solves
  <2> QED BY <2>4, <2>5
<1> HIDE DEF Good
<1>3. 0..n \subseteq Good
  BY <1>1, <1>2, UpToInSet
<1>4. n \in Good
  BY <1>3
<1> QED BY <1>4 DEF Good, FoldSolution

\* What the recursion gives for the first k elements is a run of the folded
\* function.
LEMMA FoldIsRun ==
    ASSUME NEW T, NEW E, NEW F \in [T \X E -> T], NEW base \in T,
           NEW n \in Nat, NEW seq \in [1..n -> E], NEW g, FoldRun(g, T, F, base, n, seq)
    PROVE  RunStays(g, T, n)
<1> DEFINE Good == {k \in 0..n : g[1..k] \in T}
<1>1. 0 \in Good
  BY DEF FoldRun
<1>2. ASSUME NEW k \in 0..(n - 1), k \in Good PROVE k + 1 \in Good
  <2>1. (k + 1) - 1 = k /\ k + 1 \in 1..n
    OBVIOUS
  <2>2. g[1..(k + 1)] = F[<<g[1..k], seq[k + 1]>>]
    BY <1>2, <2>1 DEF FoldRun
  <2>3. <<g[1..k], seq[k + 1]>> \in T \X E
    BY <1>2, <2>1
  <2> QED BY <2>1, <2>2, <2>3
<1> HIDE DEF Good
<1>3. 0..n \subseteq Good
  BY <1>1, <1>2, UpToInSet
<1> QED BY <1>3 DEF Good, RunStays

\* it unfolds as a fold of F over seq does, as long as it stays in T.
FoldLike(it, T, F, base, n, seq) ==
    /\ it[1..0] = base
    /\ \A s \in SUBSET (1..n) : s # {} /\ it[s \ {Max(s)}] \in T
          => it[s] = F[<<it[s \ {Max(s)}], seq[Max(s)]>>]

\* r holds what F made of the first k elements, for each k.
FoldSteps(r, T, F, base, n, seq) ==
    /\ r \in [0..n -> T] /\ r[0] = base
    /\ \A k \in 1..n : r[k] = F[<<r[k - 1], seq[k]>>]

\* x is what some run of the fold of F over seq ends in.
FoldGives(x, T, F, base, n, seq) ==
    \E r : FoldSteps(r, T, F, base, n, seq) /\ r[n] = x

\* A fold takes the elements one after another.
LEMMA FoldHasSteps ==
    ASSUME NEW T, NEW E, NEW F \in [T \X E -> T], NEW base \in T,
           NEW n \in Nat, NEW seq \in [1..n -> E], NEW it, FoldLike(it, T, F, base, n, seq)
    PROVE  FoldGives(it[1..n], T, F, base, n, seq)
<1>1. ASSUME NEW k \in 1..n, it[1..(k - 1)] \in T
      PROVE  it[1..k] = F[<<it[1..(k - 1)], seq[k]>>]
  <2>1. Max(1..k) = k /\ (1..k) \ {k} = 1..(k - 1) /\ 1..k # {}
    <3>1. k \in Nat /\ k # 0
      OBVIOUS
    <3> QED BY <3>1, MaxOfUpTo
  <2>2. 1..k \in SUBSET (1..n)
    OBVIOUS
  <2> QED BY <1>1, <2>1, <2>2 DEF FoldLike
<1>2. FoldRun(it, T, F, base, n, seq)
  BY <1>1 DEF FoldRun, FoldLike
<1>3. RunStays(it, T, n)
  BY <1>2, FoldIsRun
<1> DEFINE r == [k \in 0..n |-> it[1..k]]
<1>4. r \in [0..n -> T] /\ r[0] = base /\ r[n] = it[1..n]
  BY <1>3 DEF RunStays, FoldLike
<1>5. ASSUME NEW k \in 1..n PROVE r[k] = F[<<r[k - 1], seq[k]>>]
  <2>1. k \in 0..n /\ k - 1 \in 0..n
    OBVIOUS
  <2>2. it[1..(k - 1)] \in T
    BY <2>1, <1>3 DEF RunStays
  <2> QED BY <2>1, <2>2, <1>1
<1> HIDE DEF r
<1> QED BY <1>4, <1>5 DEF FoldGives, FoldSteps

\* g stays in T and follows F.
FoldStays(g, T, E, F, base, n, seq) ==
    \A s \in SUBSET (1..n) :
        /\ s = {} => g[s] = base
        /\ s # {} => /\ g[s \ {Max(s)}] \in T /\ seq[Max(s)] \in E
                     /\ g[s] = F[<<g[s \ {Max(s)}], seq[Max(s)]>>]

\* A function that solves the equation of a fold stays in the set it folds in.
LEMMA SolutionStays ==
    ASSUME NEW T, NEW E, NEW F, NEW base, NEW n \in Nat, NEW seq \in [1..n -> E], NEW g,
           FoldSolution(g, T, F, base, n, seq)
    PROVE  FoldStays(g, T, E, F, base, n, seq) /\ g \in [SUBSET (1..n) -> T]
<1> SUFFICES ASSUME NEW s \in SUBSET (1..n)
             PROVE  /\ s = {} => g[s] = base
                    /\ s # {} => /\ g[s \ {Max(s)}] \in T /\ seq[Max(s)] \in E
                                 /\ g[s] = F[<<g[s \ {Max(s)}], seq[Max(s)]>>]
  BY DEF FoldSolution, FoldStays
<1>1. ASSUME s # {} PROVE Max(s) \in 1..n
  <2>1. Max(s) \in s
    BY <1>1, MaxOfBounded
  <2> QED BY <2>1
<1>2. s \ {Max(s)} \in SUBSET (1..n)
  OBVIOUS
<1>3. g[s] = IF s = {} THEN base ELSE F[<<g[s \ {Max(s)}], seq[Max(s)]>>]
  BY DEF FoldSolution
<1>4. g[s \ {Max(s)}] \in T
  BY <1>2 DEF FoldSolution
<1> QED BY <1>1, <1>3, <1>4

\* t is s and x after it.
Appended(s, x, t) ==
    /\ Len(s) \in Nat /\ DOMAIN s = 1..Len(s)
    /\ Len(t) = Len(s) + 1 /\ DOMAIN t = 1..(Len(s) + 1)
    /\ \A i \in 1..Len(s) : t[i] = s[i] /\ i \in DOMAIN t /\ i < Len(s) + 1
    /\ \A i \in DOMAIN t : i # Len(s) + 1 => i \in DOMAIN s
    /\ t[Len(s) + 1] = x /\ Len(s) + 1 \in DOMAIN t
    /\ ToSet(t) = ToSet(s) \cup {x}

\* What a list becomes when an element is appended.
LEMMA AppendIs ==
    ASSUME NEW S, NEW s \in Seq(S), NEW x \in S
    PROVE  Append(s, x) \in Seq(S) /\ Appended(s, x, Append(s, x))
<1> DEFINE t == Append(s, x)
<1>1. /\ t \in Seq(S) /\ Len(t) = Len(s) + 1 /\ Len(s) \in Nat /\ DOMAIN s = 1..Len(s)
      /\ DOMAIN t = 1..(Len(s) + 1)
      /\ \A i \in 1..Len(s) : t[i] = s[i]
      /\ t[Len(s) + 1] = x
  BY AppendProperties
<1> HIDE DEF t
<1>2. ToSet(t) = ToSet(s) \cup {x}
  BY <1>1 DEF ToSet
<1>3. \A i \in 1..Len(s) : i \in DOMAIN t /\ i < Len(s) + 1
  BY <1>1
<1>4. \A i \in DOMAIN t : i # Len(s) + 1 => i \in DOMAIN s
  BY <1>1
<1>5. Len(s) + 1 \in DOMAIN t
  BY <1>1
<1> QED BY <1>1, <1>2, <1>3, <1>4, <1>5 DEF Appended, t

\* u is s and t after it.
Joined(s, t, u) ==
    /\ Len(s) \in Nat /\ DOMAIN s = 1..Len(s) /\ Len(t) \in Nat /\ DOMAIN t = 1..Len(t)
    /\ Len(u) = Len(s) + Len(t) /\ DOMAIN u = 1..(Len(s) + Len(t))
    /\ \A i \in DOMAIN s : i \in DOMAIN u /\ u[i] = s[i]
    /\ \A i \in DOMAIN t : Len(s) + i \in DOMAIN u /\ u[Len(s) + i] = t[i]
    /\ \A i \in DOMAIN u : i \in DOMAIN s \/ (i - Len(s) \in DOMAIN t /\ u[i] = t[i - Len(s)])
    /\ ToSet(u) = ToSet(s) \cup ToSet(t)

\* What two lists become when they are joined.
LEMMA JoinIs ==
    ASSUME NEW S, NEW s \in Seq(S), NEW t \in Seq(S)
    PROVE  s \o t \in Seq(S) /\ Joined(s, t, s \o t)
<1> DEFINE u == s \o t
           a == Len(s)
           b == Len(t)
<1>1. /\ u \in Seq(S) /\ a \in Nat /\ b \in Nat /\ DOMAIN s = 1..a /\ DOMAIN t = 1..b
      /\ Len(u) = a + b /\ DOMAIN u = 1..(a + b)
      /\ \A i \in 1..(a + b) : u[i] = IF i <= a THEN s[i] ELSE t[i - a]
  BY ConcatProperties
<1> HIDE DEF u, a, b
<1>2. \A i \in 1..a : i \in 1..(a + b) /\ u[i] = s[i]
  BY <1>1
<1>3. ASSUME NEW i \in 1..b PROVE a + i \in 1..(a + b) /\ u[a + i] = t[i]
  <2>1. a + i \in 1..(a + b) /\ ~(a + i <= a) /\ (a + i) - a = i
    BY <1>1
  <2> QED BY <2>1, <1>1
<1>4. \A i \in 1..(a + b) : i \in 1..a \/ (i - a \in 1..b /\ u[i] = t[i - a])
  BY <1>1
<1>5. ToSet(u) = ToSet(s) \cup ToSet(t)
  <2>1. \A i \in 1..(a + b) : u[i] \in ToSet(s) \cup ToSet(t)
    BY <1>1, <1>2, <1>4 DEF ToSet
  <2>2. \A x \in ToSet(s) \cup ToSet(t) : \E i \in 1..(a + b) : u[i] = x
    <3> TAKE x \in ToSet(s) \cup ToSet(t)
    <3>1. CASE x \in ToSet(s)
      BY <3>1, <1>1, <1>2 DEF ToSet
    <3>2. CASE x \in ToSet(t)
      <4>1. PICK i \in 1..b : t[i] = x
        BY <3>2, <1>1 DEF ToSet
      <4> QED BY <4>1, <1>3
    <3> QED BY <3>1, <3>2
  <2> QED BY <2>1, <2>2, <1>1 DEF ToSet
<1> QED BY <1>1, <1>2, <1>3, <1>4, <1>5 DEF Joined, u, a, b

\* The lists that the questions are about, by their number of elements.
LEMMA ListOfUpTo ==
    ASSUME NEW S, NEW m \in Nat, NEW list \in SeqOf(S, m)
    PROVE  /\ list \in Seq(S) /\ Len(list) \in 0..m /\ Len(list) \in Nat
           /\ list \in [1..Len(list) -> S] /\ DOMAIN list = 1..Len(list)
<1>1. PICK n \in 0..m : list \in [1..n -> S]
  BY DEF SeqOf
<1>2. list \in Seq(S) /\ Len(list) = n
  BY <1>1, SeqDef
<1> QED BY <1>1, <1>2

\* r gives what is kept of the first k elements.
FilterRun(r, E, list, set) ==
    /\ r \in [0..Len(list) -> Seq(E)]
    /\ r[0] = <<>> /\ r[Len(list)] = Filtered(list, set)
    /\ \A k \in 1..Len(list) : r[k] = IF list[k] \in set THEN Append(r[k - 1], list[k]) ELSE r[k - 1]

\* Filtered, step by step.
LEMMA FilterSteps ==
    ASSUME NEW E, NEW list \in Seq(E), NEW set
    PROVE  \E r : FilterRun(r, E, list, set)
<1> DEFINE n == Len(list)
           T == Seq(E)
           op(t, e) == IF e \in set THEN Append(t, e) ELSE t
           F == [p \in T \X E |-> op(p[1], p[2])]
           Fix(i) == i = [s \in SUBSET (DOMAIN list) |->
                            IF s = {} THEN <<>> ELSE op(i[s \ {Max(s)}], list[Max(s)])]
           it == CHOOSE i : Fix(i)
<1>1. n \in Nat /\ list \in [1..n -> E] /\ DOMAIN list = 1..n /\ <<>> \in T
  <2>1. list \in Seq(E)
    OBVIOUS
  <2>2. <<>> \in T
    OBVIOUS
  <2> HIDE DEF T
  <2> QED BY <2>1, <2>2
<1>2. \A t \in T, e \in E : op(t, e) \in T /\ F[<<t, e>>] = op(t, e)
  OBVIOUS
<1>3. F \in [T \X E -> T]
  <2> HIDE DEF op, T
  <2> QED BY <1>2
<1>4. Filtered(list, set) = it[1..n]
  BY <1>1 DEF Filtered, FoldLeft, MapThenFoldSet
<1> HIDE DEF n, T, F, op
<1>5. PICK g : FoldSolution(g, T, F, <<>>, n, list)
  BY <1>1, <1>3, FoldHasSolution
<1>6. FoldStays(g, T, E, F, <<>>, n, list) /\ g \in [SUBSET (1..n) -> T]
  BY <1>1, <1>5, SolutionStays
<1>7. Fix(g)
  BY <1>1, <1>2, <1>6 DEF FoldStays
<1> HIDE DEF Fix
<1>8. Fix(it)
  BY <1>7
<1> HIDE DEF it
<1>9. FoldLike(it, T, F, <<>>, n, list)
  <2>1. \A s \in SUBSET (1..n) :
            it[s] = IF s = {} THEN <<>> ELSE op(it[s \ {Max(s)}], list[Max(s)])
    BY <1>1, <1>8 DEF Fix
  <2>2. 1..0 = {} /\ {} \in SUBSET (1..n)
    OBVIOUS
  <2>3. it[1..0] = <<>>
    BY <2>1, <2>2
  <2>4. \A s \in SUBSET (1..n) : s # {} => list[Max(s)] \in E
    BY <1>6 DEF FoldStays
  <2> QED BY <1>2, <2>1, <2>3, <2>4 DEF FoldLike
<1>10. FoldGives(it[1..n], T, F, <<>>, n, list)
  BY <1>1, <1>3, <1>9, FoldHasSteps
<1>11. PICK r : FoldSteps(r, T, F, <<>>, n, list) /\ r[n] = Filtered(list, set)
  BY <1>10, <1>4 DEF FoldGives
<1>12. r \in [0..n -> T] /\ r[0] = <<>> /\ \A k \in 1..n : r[k] = F[<<r[k - 1], list[k]>>]
  BY <1>11 DEF FoldSteps
<1>13. \A k \in 1..n : r[k] = op(r[k - 1], list[k])
  <2> TAKE k \in 1..n
  <2>1. r[k - 1] \in T /\ list[k] \in E
    BY <1>1, <1>12
  <2> QED BY <2>1, <1>12, <1>2
<1> QED BY <1>11, <1>12, <1>13 DEF FilterRun, n, T, op

\* at tells where the elements of kept stand among the first n of list.
Selection(at, list, n, kept, set) ==
    /\ at \in [1..Len(kept) -> 1..n]
    /\ \A i, j \in 1..Len(kept) : i < j => at[i] < at[j]
    /\ \A i \in 1..Len(kept) : kept[i] = list[at[i]] /\ kept[i] \in set
    /\ \A m \in 1..n : list[m] \in set => \E i \in 1..Len(kept) : at[i] = m

\* Filtered leaves out what is not in the set, and keeps the order.
LEMMA FilterSelects ==
    ASSUME NEW E, NEW list \in Seq(E), NEW set
    PROVE  /\ Filtered(list, set) \in Seq(E)
           /\ \E at : Selection(at, list, Len(list), Filtered(list, set), set)
<1>0. PICK r : FilterRun(r, E, list, set)
  BY FilterSteps
<1>1. /\ r \in [0..Len(list) -> Seq(E)]
      /\ r[0] = <<>> /\ r[Len(list)] = Filtered(list, set)
      /\ \A k \in 1..Len(list) :
           r[k] = IF list[k] \in set THEN Append(r[k - 1], list[k]) ELSE r[k - 1]
  BY <1>0 DEF FilterRun
<1> DEFINE Good == {k \in 0..Len(list) : \E at : Selection(at, list, k, r[k], set)}
<1>2. 0 \in Good
  <2>1. Selection(<<>>, list, 0, r[0], set)
    BY <1>1 DEF Selection
  <2> QED BY <2>1
<1>3. ASSUME NEW k \in 0..(Len(list) - 1), k \in Good PROVE k + 1 \in Good
  <2>1. PICK at : Selection(at, list, k, r[k], set)
    BY <1>3
  <2>2. k + 1 \in 1..Len(list) /\ (k + 1) - 1 = k /\ k \in Nat /\ r[k] \in Seq(E)
        /\ list[k + 1] \in E
    BY <1>1
  <2>3. CASE list[k + 1] \in set
    <3> DEFINE m == Len(r[k]) + 1
               new == [i \in 1..m |-> IF i = m THEN k + 1 ELSE at[i]]
    <3>1. r[k + 1] = Append(r[k], list[k + 1])
      BY <2>3, <2>2, <1>1
    <3>2. Len(r[k + 1]) = m /\ (\A i \in 1..(m - 1) : r[k + 1][i] = r[k][i])
          /\ r[k + 1][m] = list[k + 1] /\ m \in Nat \ {0}
      BY <3>1, <2>2, AppendProperties
    <3>3. Selection(new, list, k + 1, r[k + 1], set)
      <4>1. new \in [1..m -> 1..(k + 1)]
        BY <2>1, <2>2 DEF Selection
      <4>7. \A i \in 1..m : i # m => i \in 1..Len(r[k]) /\ i \in 1..(m - 1)
        BY <3>2
      <4>8. \A i \in 1..Len(r[k]) : at[i] \in 1..k
        BY <2>1 DEF Selection
      <4>5. \A i \in 1..m : i # m => /\ i \in 1..Len(r[k]) /\ i \in 1..(m - 1)
                                     /\ at[i] \in 1..k /\ new[i] = at[i]
        BY <4>7, <4>8
      <4>6. m \in 1..m /\ new[m] = k + 1
        BY <3>2
      <4>2. \A i, j \in 1..m : i < j => new[i] < new[j]
        <5> SUFFICES ASSUME NEW i \in 1..m, NEW j \in 1..m, i < j PROVE new[i] < new[j]
          OBVIOUS
        <5>1. i # m
          BY <3>2
        <5>2. CASE j = m
          <6> HIDE DEF new, m
          <6> QED BY <4>5, <4>6, <5>1, <5>2, <2>2
        <5>3. CASE j # m
          <6> HIDE DEF new, m
          <6> QED BY <4>5, <5>1, <5>3, <2>1 DEF Selection
        <5> QED BY <5>2, <5>3
      <4>3. \A i \in 1..m : r[k + 1][i] = list[new[i]] /\ r[k + 1][i] \in set
        <5> TAKE i \in 1..m
        <5> HIDE DEF new, m
        <5>1. CASE i = m
          BY <4>6, <5>1, <3>2, <2>3
        <5>2. CASE i # m
          BY <4>5, <5>2, <3>2, <2>1 DEF Selection
        <5> QED BY <5>1, <5>2
      <4>4. \A l \in 1..(k + 1) : list[l] \in set => \E i \in 1..m : new[i] = l
        <5> TAKE l \in 1..(k + 1)
        <5> HAVE list[l] \in set
        <5>1. CASE l = k + 1
          <6>1. m \in 1..m /\ new[m] = k + 1
            BY <3>2
          <6> QED BY <6>1, <5>1
        <5>2. CASE l # k + 1
          <6>1. l \in 1..k
            BY <5>2, <2>2
          <6>2. PICK i \in 1..(m - 1) : at[i] = l
            BY <6>1, <2>1 DEF Selection
          <6>3. i \in 1..m /\ new[i] = at[i]
            BY <3>2
          <6> QED BY <6>2, <6>3
        <5> QED BY <5>1, <5>2
      <4> HIDE DEF new, m
      <4> QED BY <4>1, <4>2, <4>3, <4>4, <3>2 DEF Selection
    <3> HIDE DEF new
    <3> QED BY <3>3, <2>2
  <2>4. CASE list[k + 1] \notin set
    <3>1. r[k + 1] = r[k]
      BY <2>4, <2>2, <1>1
    <3>2. Selection(at, list, k + 1, r[k + 1], set)
      BY <3>1, <2>1, <2>2, <2>4 DEF Selection
    <3> QED BY <3>2, <2>2
  <2> QED BY <2>3, <2>4
<1>4. Len(list) \in Nat
  OBVIOUS
<1> HIDE DEF Good
<1>5. 0..Len(list) \subseteq Good
  BY <1>2, <1>3, <1>4, UpToInSet
<1>6. Len(list) \in Good
  BY <1>5, <1>4
<1> QED BY <1>6, <1>1, <1>4 DEF Good

\* The positions that Filtered keeps are as many as its elements.
LEMMA FilterCounts ==
    ASSUME NEW E, NEW list \in Seq(E), NEW set
    PROVE  /\ Len(Filtered(list, set)) = Cardinality({n \in DOMAIN list : list[n] \in set})
           /\ ToSet(Filtered(list, set)) = {list[n] : n \in {m \in DOMAIN list : list[m] \in set}}
<1> DEFINE K == Filtered(list, set)
           S == {n \in DOMAIN list : list[n] \in set}
<1>1. K \in Seq(E) /\ Len(K) \in Nat /\ DOMAIN K = 1..Len(K) /\ DOMAIN list = 1..Len(list)
  BY FilterSelects
<1>2. PICK at : Selection(at, list, Len(list), K, set)
  BY FilterSelects
<1> HIDE DEF K
<1>3. at \in Bijection(1..Len(K), S)
  <2>1. at \in [1..Len(K) -> S]
    BY <1>1, <1>2 DEF Selection
  <2>2. IsInjective(at)
    <3> SUFFICES ASSUME NEW i \in 1..Len(K), NEW j \in 1..Len(K), at[i] = at[j] PROVE i = j
      BY <2>1 DEF IsInjective
    <3>1. at[i] \in 1..Len(list) /\ at[j] \in 1..Len(list)
      BY <1>2 DEF Selection
    <3>2. ~(i < j) /\ ~(j < i)
      BY <3>1, <1>2 DEF Selection
    <3> QED BY <3>2, <1>1
  <2>3. \A n \in S : \E i \in 1..Len(K) : at[i] = n
    BY <1>1, <1>2 DEF Selection
  <2> HIDE DEF S
  <2> QED BY <2>1, <2>2, <2>3 DEF Bijection, Injection, Surjection
<1>4. Cardinality(S) = Len(K)
  <2>1. ExistsBijection(1..Len(K), S)
    BY <1>3 DEF ExistsBijection
  <2> HIDE DEF S
  <2> QED BY <2>1, <1>1, FS_CountingElements
<1>5. ToSet(K) = {list[n] : n \in S}
  <2>1. ASSUME NEW i \in 1..Len(K) PROVE K[i] \in {list[n] : n \in S}
    BY <1>1, <1>2 DEF Selection
  <2>2. ASSUME NEW n \in S PROVE \E i \in 1..Len(K) : K[i] = list[n]
    BY <1>1, <1>2 DEF Selection
  <2> HIDE DEF S
  <2> QED BY <2>1, <2>2, <1>1 DEF ToSet
<1> QED BY <1>4, <1>5 DEF K

\* What Filtered leaves is what the list and the set share.
LEMMA FilterSet ==
    ASSUME NEW E, NEW list \in Seq(E), NEW set
    PROVE  ToSet(Filtered(list, set)) = ToSet(list) \cap set
<1>1. ToSet(Filtered(list, set)) = {list[n] : n \in {m \in DOMAIN list : list[m] \in set}}
  BY FilterCounts
<1> QED BY <1>1 DEF ToSet

\* SetToSeq lists a finite set, each element once.
LEMMA ListOfSet ==
    ASSUME NEW S, IsFiniteSet(S)
    PROVE  /\ SetToSeq(S) \in [1..Cardinality(S) -> S] /\ SetToSeq(S) \in Seq(S)
           /\ Len(SetToSeq(S)) = Cardinality(S) /\ Cardinality(S) \in Nat
           /\ \A i, j \in 1..Cardinality(S) : SetToSeq(S)[i] = SetToSeq(S)[j] => i = j
           /\ \A x \in S : \E i \in 1..Cardinality(S) : SetToSeq(S)[i] = x
           /\ ToSet(SetToSeq(S)) = S
<1> DEFINE n == Cardinality(S)
           f == SetToSeq(S)
<1>1. n \in Nat /\ ExistsBijection(1..n, S)
  BY FS_CardinalityType
<1>2. \E b \in [1..n -> S] : IsInjective(b)
  BY <1>1 DEF ExistsBijection, Bijection, Injection
<1>3. f \in [1..n -> S] /\ IsInjective(f)
  <2> HIDE DEF n
  <2> QED BY <1>2 DEF SetToSeq, n
<1> HIDE DEF f, n
<1>4. f \in Injection(1..n, S)
  BY <1>3 DEF Injection
<1>5. Cardinality(1..n) = n /\ IsFiniteSet(1..n)
  <2>1. 1 \in Int /\ n \in Int
    BY <1>1
  <2>2. Cardinality(1..n) = IF 1 > n THEN 0 ELSE n - 1 + 1
    BY <2>1, FS_Interval
  <2> QED BY <2>1, <2>2, <1>1, FS_Interval
<1>6. f \in Surjection(1..n, S)
  BY <1>4, <1>5, FS_Injection DEF n
<1>7. f \in Seq(S) /\ Len(f) = n /\ DOMAIN f = 1..n
  BY <1>1, <1>3, SeqDef
<1>8. \A x \in S : \E i \in 1..n : f[i] = x
  BY <1>6 DEF Surjection
<1>9. \A i, j \in 1..n : f[i] = f[j] => i = j
  BY <1>3 DEF IsInjective
<1>10. ToSet(f) = S
  BY <1>3, <1>7, <1>8 DEF ToSet
<1> QED BY <1>1, <1>3, <1>7, <1>8, <1>9, <1>10 DEF f, n

-----------------------------------------------------------------------------
(* Functions that scan no list.                                            *)

\* The editor and the tree of the room agree whether a switch routes, for every
\* configuration (AskKind enumerates them all).
LEMMA KindAnswer == AskKind => KindsAgree'
<1> SUFFICES ASSUME AskKind PROVE KindsAgree'
  OBVIOUS
<1>1. PICK c \in Configs, t \in Types : question' = [of |-> "kind", cfg |-> c, type |-> t]
  BY DEF AskKind
<1> DEFINE routes == c.routing \/ c.bands = 2 \/ c.routes = "other"
<1>2. c.bands >= 2 <=> c.bands = 2
  BY DEF Configs
<1>3. c.stored => ClassifyL3(c) = IF routes THEN "L3" ELSE "L2"
  BY <1>2, Zenon DEF ClassifyL3
<1>4. c.stored /\ routes => SwitchKind(c, t) # "l2" /\ TreeRole(c, t) # "hidden"
  BY <1>3 DEF SwitchKind, TreeRole
<1>5. c.stored /\ ~routes /\ t = "" => SwitchKind(c, t) = "l2" /\ TreeRole(c, t) = "hidden"
  BY <1>3 DEF SwitchKind, TreeRole
<1>6. question'.of = "kind" /\ question'.cfg = c /\ question'.type = t
  BY <1>1
<1> QED
  BY <1>4, <1>5, <1>6, Zenon DEF KindsAgree

\* The port of a line is a physical one if any saw the device, with the fewest
\* MACs, whichever ports saw it.
LEMMA PortAnswer == AskPort => LinePortIsPhysical'
<1> SUFFICES ASSUME AskPort PROVE LinePortIsPhysical'
  OBVIOUS
<1>1. PICK s \in SUBSET SightPorts, m \in SUBSET {"e3", "e4"} :
         question' = [of |-> "port", sights |-> s, members |-> m]
  BY DEF AskPort
<1> DEFINE of == IF Physical(s) # {} THEN Physical(s) ELSE s
           Least(p) == p \in of /\ \A q \in of : Busy[p] <= Busy[q]
<1>2. s # {} => \E p : Least(p)
  BY DEF SightPorts, Busy, Physical
<1>3. BestSight(s) = CHOOSE p \in of : \A q \in of : Busy[p] <= Busy[q]
  BY DEF BestSight
<1>4. s # {} => Least(BestSight(s))
  <2> HIDE DEF of
  <2> QED BY <1>2, <1>3
<1> HIDE DEF Least, of
<1> QED BY <1>1, <1>4 DEF LinePortIsPhysical, PortOn, SightPorts, Physical, Busy, Least, of

\* No specification that was known is lost to an import, whatever the cells say.
LEMMA SpecsAnswer == AskSpecs => KnownSpecsSurvive'
<1> SUFFICES ASSUME AskSpecs PROVE KnownSpecsSurvive'
  OBVIOUS
<1>1. PICK cells \in [mb : NumCells, gb : NumCells, disk : NumCells, used : NumCells],
           known \in {NotGiven, 7} :
          question' = [of |-> "specs", cells |-> cells,
                       server |-> [mem |-> known, disk |-> known, used |-> known]]
  BY DEF AskSpecs
<1> QED
  BY <1>1 DEF KnownSpecsSurvive, SpecsStored, SpecsGiven, MemoryOf, PositiveOf, Positive,
     ToNum, NumCells, Numbers, NotGiven, Blank, NoNumber

\* A band is pinged in the table that has all its addresses, for any VRFs.
LEMMA VrfAnswer == AskVrf => BandIsPingedWhereItIs'
<1> SUFFICES ASSUME AskVrf PROVE BandIsPingedWhereItIs'
  OBVIOUS
<1>1. PICK vrfs \in SeqOf(RouteSets, MaxLen["vrf"]), b \in {Narrow, <<8, 11>>} :
          question' = [of |-> "vrf", vrfs |-> vrfs, band |-> b]
  BY DEF AskVrf
<1> DEFINE with == {n \in DOMAIN vrfs : HasBand(vrfs[n], b)}
<1>2. PICK m \in Nat : vrfs \in [1..m -> RouteSets]
  <2>1. MaxLen["vrf"] \in Nat
    BY QuestionsAssumption DEF ListQuestions
  <2> QED BY <1>1, <2>1, ListOfUpTo
<1>3. with # {} => FindVrf(vrfs, b) \in with
  <2>1. with \subseteq Nat
    BY <1>2
  <2> HIDE DEF with
  <2>2. with # {} => Min(with) \in with
    BY <2>1, MinOfBounded
  <2> QED BY <2>2 DEF FindVrf, with
<1>4. with = {} => FindVrf(vrfs, b) = 0
  BY DEF FindVrf
<1> DEFINE Connected(k, a) == \E r \in vrfs[k] : a \in r[1]..r[2]
<1>5. ASSUME NEW k \in DOMAIN vrfs
      PROVE  /\ HasBand(vrfs[k], b) => \A a \in b[1]..b[2] : Connected(k, a)
             /\ ~HasBand(vrfs[k], b) => \E a \in b[1]..b[2] : ~Connected(k, a)
  <2>1. vrfs[k] \in RouteSets
    BY <1>2
  <2>2. CASE b = Narrow
    BY <2>1, <2>2 DEF RouteSets, HasBand, Within, Narrow, Wide
  <2>3. CASE b = <<8, 11>>
    BY <2>1, <2>3 DEF RouteSets, HasBand, Within, Narrow, Wide
  <2> QED BY <2>2, <2>3
<1> HIDE DEF with, Connected
<1> QED BY <1>1, <1>2, <1>3, <1>4, <1>5 DEF BandIsPingedWhereItIs, with, Connected

\* The line of a host off line and the filter of its card agree.
LEMMA HostsAnswer == AskHosts => LineAndFilterAgree'
<1> SUFFICES ASSUME AskHosts PROVE LineAndFilterAgree'
  OBVIOUS
<1>1. PICK g \in HostFacts, h \in HostFacts :
          question' = [of |-> "wallHosts", hosts |-> <<g, h>>]
  BY DEF AskHosts
<1>2. ASSUME NEW f \in HostFacts, ~f.online
      PROVE  /\ Detail(f) \in {None, FilterSwitch(f)}
             /\ Detail(f) = "B" /\ f.passing => f.live = None /\ Labelled(f.labels) = None
             /\ f.live # None =>
                  {ChipSwitch(f), FilterSwitch(f), AttachOf(f), RecheckSwitch(f)} = {f.live}
  <2>1. Labelled(f.labels) \in {None, "C"}
    <3>1. CASE f.labels = {}
      <4>1. {l[1] : l \in f.labels} = {}
        BY <3>1
      <4> QED BY <4>1, FS_EmptySet DEF Labelled
    <3>2. CASE f.labels # {} /\ \A l \in f.labels : l[1] = "C"
      <4>1. {l[1] : l \in f.labels} = {"C"}
        BY <3>2
      <4> QED BY <4>1, FS_Singleton DEF Labelled
    <3>3. CASE f.labels = {<<"C", 1>>, <<"D", 1>>}
      <4>1. {l[1] : l \in f.labels} = {"C", "D"}
        BY <3>3
      <4>2. Cardinality({"C", "D"}) # 1
        <5>1. IsFiniteSet({"C"}) /\ {"C", "D"} = {"C"} \cup {"D"}
          BY FS_Singleton
        <5>2. IsFiniteSet({"C", "D"})
          BY <5>1, FS_AddElement
        <5>3. ~ \E x : {"C", "D"} = {x}
          OBVIOUS
        <5> QED BY <5>2, <5>3, FS_Singleton
      <4> QED BY <4>1, <4>2 DEF Labelled
    <3>4. f.labels \in {{}, {<<"C", 1>>}, {<<"C", 1>>, <<"C", 2>>}, {<<"C", 1>>, <<"D", 1>>}}
      BY DEF HostFacts
    <3> QED BY <3>1, <3>2, <3>3, <3>4
  <2>2. f.live \in {None, "A"} /\ f.seen \in {None, "B"}
    BY DEF HostFacts
  <2> QED BY <1>2, <2>1, <2>2 DEF Detail, FilterSwitch, AttachOf, ChipSwitch, RecheckSwitch, None
<1>3. DOMAIN question'.hosts = 1..2 /\ question'.hosts[1] = g /\ question'.hosts[2] = h
      /\ question'.of = "wallHosts"
  BY <1>1
<1>4. \A n \in DOMAIN question'.hosts : question'.hosts[n] \in HostFacts
  BY <1>3
<1> QED BY <1>2, <1>4 DEF LineAndFilterAgree

-----------------------------------------------------------------------------
(* The port that a host hangs at.                                          *)

\* What has the fewest is one of the places.
LEMMA FewestIsIn ==
    ASSUME NEW places, places # {}, NEW count, \A p \in places : count[p] \in Nat
    PROVE  Fewest(places, count) \in places
<1> DEFINE S == {count[p] : p \in places}
<1>1. S \subseteq Nat /\ S # {}
  OBVIOUS
<1>2. PICK n \in S : \A m \in S : n <= m
  BY <1>1, LeastNatural
<1>3. PICK p \in places : count[p] = n
  OBVIOUS
<1>4. \A q \in places : count[p] <= count[q]
  BY <1>2, <1>3
<1> HIDE DEF S
<1> QED BY <1>4 DEF Fewest

\* No host is told to hang at a port that leads to a known switch.
LEMMA AttachmentAnswer == AskAttachment => UplinkIsNeverDirect'
<1> SUFFICES ASSUME AskAttachment PROVE UplinkIsNeverDirect'
  OBVIOUS
<1> USE DEF Places
<1>1. PICK sights \in SUBSET Places, told \in SUBSET {Trunk, TrunkChannel}, stored \in BOOLEAN,
           a \in Counts, b \in Counts, c \in Counts :
          question' = [of |-> "attachment", sights |-> sights, told |-> told, stored |-> stored,
                       count |-> [p \in Places |-> IF p[1] = "A" THEN a
                            ELSE IF p = Trunk THEN b
                            ELSE IF p = TrunkChannel THEN c ELSE Unknown]]
  BY DEF AskAttachment
<1> DEFINE count == [p \in Places |-> IF p[1] = "A" THEN a
                            ELSE IF p = Trunk THEN b
                            ELSE IF p = TrunkChannel THEN c ELSE Unknown]
<1>2. \A p \in Places : count[p] \in Nat
  <2>1. a \in Nat /\ b \in Nat /\ c \in Nat /\ Unknown \in Nat
    BY DEF Counts, Unknown
  <2> QED BY <2>1
<1> DEFINE members == IF stored THEN {AccessChannel, TrunkChannel} ELSE {}
           uplinks == Uplinks(told, stored)
           scan == Searched(sights, uplinks)
           physical == {p \in scan : IsPhysical(p)}
           channels == scan \cap members
           chosen == IF physical # {} THEN Fewest(physical, count)
                     ELSE IF channels # {} THEN Fewest(channels, count)
                     ELSE CHOOSE p \in scan : TRUE
           found == ChooseAttachment(sights, uplinks, members, count)
<1>3. uplinks \subseteq {Trunk, TrunkChannel} /\ told \subseteq uplinks
      /\ (stored /\ told # {} => uplinks = {Trunk, TrunkChannel})
  BY DEF Uplinks, Trunk, TrunkChannel
<1>4. sights # {} => scan # {} /\ scan \subseteq sights
  BY DEF Searched
<1>5. ASSUME sights # {}
      PROVE  /\ chosen \in scan
             /\ physical # {} => chosen \in physical
             /\ physical = {} /\ channels # {} => chosen \in channels
  <2>1. physical \subseteq Places /\ channels \subseteq Places /\ scan # {}
        /\ physical \subseteq scan /\ channels \subseteq scan
    BY <1>4, <1>5
  <2> HIDE DEF physical, channels, scan, count
  <2>2. physical # {} => Fewest(physical, count) \in physical
    BY <2>1, <1>2, FewestIsIn
  <2>3. channels # {} => Fewest(channels, count) \in channels
    BY <2>1, <1>2, FewestIsIn
  <2> QED BY <2>1, <2>2, <2>3
<1>6. sights # {} => /\ found.place = chosen
                     /\ found.direct => chosen \notin uplinks /\ (physical # {} \/ channels # {})
  BY DEF ChooseAttachment
<1>7. sights = {} => found.place = Nowhere /\ found.direct = FALSE
  BY DEF ChooseAttachment
<1> DEFINE access == sights \cap {AccessPort, AccessChannel}
<1>8. ASSUME sights # {}, told # {}, stored, access # {}, Vlan \notin sights
      PROVE  chosen \in access
  <2>1. scan = access
    <3> HIDE DEF uplinks
    <3> QED BY <1>8, <1>3 DEF Searched, AccessPort, AccessChannel, Trunk, TrunkChannel, Vlan
  <2> QED BY <2>1, <1>5, <1>8
<1>9. ASSUME found.direct
      PROVE  /\ found.place \notin told
             /\ stored => ~(told # {} /\ found.place[1] = "B")
  <2>1. sights # {} /\ found.place = chosen /\ chosen \notin uplinks
        /\ (physical # {} \/ channels # {})
    <3> HIDE DEF found, chosen, uplinks, physical, channels
    <3> QED BY <1>6, <1>7, <1>9
  <2>2. chosen \in physical \cup channels
    <3> HIDE DEF chosen, physical, channels, scan
    <3> QED BY <2>1, <1>5
  <2>3. chosen \in {AccessPort, Trunk, AccessChannel, TrunkChannel}
    <3> HIDE DEF chosen, scan
    <3> QED BY <2>2 DEF IsPhysical
  <2> HIDE DEF chosen, found, uplinks
  <2> QED BY <2>1, <2>3, <1>3 DEF AccessPort, AccessChannel, Trunk, TrunkChannel
<1>10. found.place = Nowhere <=> sights = {}
  <2>1. sights # {} => chosen \in Places
    <3> HIDE DEF chosen, scan, Places
    <3> QED BY <1>4, <1>5
  <2>2. Nowhere \notin Places
    BY DEF Nowhere, AccessPort, AccessChannel, Trunk, TrunkChannel, Vlan
  <2> HIDE DEF chosen, found, Places
  <2> QED BY <2>1, <2>2, <1>6, <1>7
<1>11. question'.sights = sights /\ question'.told = told /\ question'.stored = stored
       /\ question'.count = count
  BY <1>1
<1>12. access # {} => sights # {}
  OBVIOUS
<1>13. told # {} /\ stored /\ access # {} /\ Vlan \notin sights => found.place \in access
  <2> HIDE DEF found, chosen, access, Places
  <2> QED BY <1>12, <1>8, <1>6
<1>14. found = ChooseAttachment(question'.sights, Uplinks(question'.told, question'.stored),
                 IF question'.stored THEN {AccessChannel, TrunkChannel} ELSE {}, question'.count)
  <2> HIDE DEF count
  <2> QED BY <1>11
<1>15. access = question'.sights \cap {AccessPort, AccessChannel}
  BY <1>11
<1> HIDE DEF found, access, count, Places
<1> QED BY <1>9, <1>10, <1>13, <1>11, <1>14, <1>15 DEF UplinkIsNeverDirect

-----------------------------------------------------------------------------
(* The history of a host that does not answer.                             *)

\* The largest of positions, as the code's loops choose it.
LatestOf(S) == CHOOSE k \in S : \A m \in S : m <= k

\* There is a largest position, and it is in the set.
LEMMA LastPosition ==
    ASSUME NEW n \in Nat, NEW S, S \subseteq 1..n, S # {}
    PROVE  LatestOf(S) \in S /\ \A m \in S : m <= LatestOf(S)
<1>1. Max(S) \in S /\ \A m \in S : m <= Max(S)
  BY MaxOfBounded
<1> QED BY <1>1 DEF LatestOf

\* The last access port of a host is told, however long its history is.
LEMMA HistoryAnswer == AskHistory => HistoriesPreferAccess'
<1> SUFFICES ASSUME AskHistory PROVE HistoriesPreferAccess'
  OBVIOUS
<1>1. PICK rows \in SeqOf({AccessPort, AccessChannel, Trunk, TrunkChannel}, MaxLen["history"]),
           told \in SUBSET {Trunk, TrunkChannel}, stored \in BOOLEAN :
          /\ rows # <<>>
          /\ question' = [of |-> "history", rows |-> rows, told |-> told, stored |-> stored]
  BY DEF AskHistory
<1> DEFINE Sights == {AccessPort, AccessChannel, Trunk, TrunkChannel}
<1>2. PICK m \in Nat : rows \in [1..m -> Sights]
  <2>1. MaxLen["history"] \in Nat
    BY QuestionsAssumption DEF ListQuestions
  <2> QED BY <2>1, ListOfUpTo
<1>3. rows \in Seq(Sights) /\ DOMAIN rows = 1..Len(rows) /\ Len(rows) = m /\ m # 0
  <2>1. rows \in Seq(Sights)
    BY <1>2, SeqDef
  <2> QED BY <1>1, <1>2, <2>1
<1> DEFINE uplinks == Uplinks(told, stored)
           best == {n \in DOMAIN rows : rows[n] \notin uplinks}
           of == IF best = {} THEN DOMAIN rows ELSE best
           nl == CHOOSE n \in of : \A k \in of : k <= n
           top == {n \in DOMAIN rows :
                     \A k \in DOMAIN rows : Rank(rows[k], uplinks) <= Rank(rows[n], uplinks)}
           nt == CHOOSE n \in top : \A k \in top : k <= n
<1>4. LastSeen(rows, uplinks) = rows[nl]
  BY DEF LastSeen, Newest
<1>5. LocationByMac(rows, uplinks) = rows[nt]
  BY DEF LocationByMac
<1>6. uplinks \subseteq {Trunk, TrunkChannel}
  BY DEF Uplinks, Trunk, TrunkChannel
<1>7. nl \in of /\ \A k \in of : k <= nl
  <2>1. of \subseteq 1..m /\ of # {}
    BY <1>3
  <2>2. nl = LatestOf(of) /\ m \in Nat
    BY DEF LatestOf
  <2> HIDE DEF of, nl
  <2> QED BY <2>1, <2>2, LastPosition
<1> DEFINE rank(n) == Rank(rows[n], uplinks)
<1>8. \A n \in DOMAIN rows : rank(n) \in 0..3 /\ (rank(n) >= 2 <=> rows[n] \notin uplinks)
                             /\ (rank(n) \in {1, 3} <=> IsPhysical(rows[n]))
  <2> HIDE DEF uplinks
  <2> QED BY DEF Rank
<1>9. top # {}
  <2> DEFINE S == {3 - rank(n) : n \in DOMAIN rows}
  <2>1. S \subseteq Nat /\ S # {}
    <3>1. 3 - rank(1) \in S
      BY <1>3
    <3> HIDE DEF rank
    <3> QED BY <3>1, <1>8
  <2>2. PICK s \in S : \A t \in S : s <= t
    BY <2>1, LeastNatural
  <2>3. PICK n \in DOMAIN rows : s = 3 - rank(n)
    OBVIOUS
  <2>4. \A k \in DOMAIN rows : rank(k) <= rank(n)
    <3> TAKE k \in DOMAIN rows
    <3>1. 3 - rank(k) \in S
      OBVIOUS
    <3>2. s <= 3 - rank(k)
      BY <3>1, <2>2
    <3> HIDE DEF rank, S
    <3> QED BY <3>2, <2>3, <1>8
  <2> HIDE DEF S
  <2> QED BY <2>4
<1>10. nt \in top /\ \A k \in top : k <= nt
  <2>1. top \subseteq 1..m
    BY <1>3
  <2>2. nt = LatestOf(top) /\ m \in Nat
    BY DEF LatestOf
  <2> HIDE DEF top, nt
  <2> QED BY <2>1, <2>2, <1>9, LastPosition
<1>11. nl \in DOMAIN rows /\ nt \in DOMAIN rows /\ \A k \in DOMAIN rows : rank(k) <= rank(nt)
  <2> HIDE DEF nl, nt
  <2> QED BY <1>7, <1>10
<1>12. \A k \in DOMAIN rows : (\A l \in DOMAIN rows : rank(l) <= rank(k)) => k <= nt
  <2> HIDE DEF nl, nt
  <2> QED BY <1>10
<1> HIDE DEF nl, nt, top, uplinks
<1>13. best # {} => rows[nl] \notin uplinks /\ rows[nt] \notin uplinks
  <2> SUFFICES ASSUME best # {} PROVE rows[nl] \notin uplinks /\ rows[nt] \notin uplinks
    OBVIOUS
  <2>1. nl \in best
    BY <1>7
  <2>2. PICK k \in DOMAIN rows : rows[k] \notin uplinks
    OBVIOUS
  <2>3. rank(k) >= 2 /\ rank(k) <= rank(nt) /\ rank(k) \in 0..3 /\ rank(nt) \in 0..3
    BY <2>2, <1>8, <1>11
  <2>4. rank(nt) >= 2
    <3> HIDE DEF rank
    <3> QED BY <2>3
  <2> HIDE DEF rank
  <2> QED BY <2>1, <2>4, <1>8, <1>11
<1>14. rows[nl][1] # rows[nt][1] => ~IsPhysical(rows[nl]) /\ IsPhysical(rows[nt])
  <2>1. CASE best = {}
    <3>1. rows[nl] \in uplinks /\ rows[nt] \in uplinks
      BY <2>1, <1>11
    <3> QED BY <3>1, <1>6 DEF Trunk, TrunkChannel
  <2>2. CASE best # {}
    <3>1. rank(nl) >= 2 /\ rank(nt) >= 2 /\ rank(nl) \in 0..3 /\ rank(nt) \in 0..3 /\ rank(nl) <= rank(nt)
      <4> HIDE DEF rank, best
      <4> QED BY <2>2, <1>13, <1>8, <1>11
    <3>2. nt \in best /\ nl \in best /\ nt <= nl
      BY <2>2, <1>13, <1>11, <1>7
    <3>3. CASE rank(nl) = rank(nt)
      <4>1. nl <= nt
        <5> HIDE DEF rank
        <5> QED BY <3>3, <1>11, <1>12
      <4>2. nl = nt
        BY <4>1, <3>2, <1>11, <1>3
      <4> QED BY <4>2
    <3>4. CASE rank(nl) # rank(nt)
      <4>1. rank(nl) = 2 /\ rank(nt) = 3
        <5> HIDE DEF rank
        <5> QED BY <3>4, <3>1
      <4> HIDE DEF rank
      <4> QED BY <4>1, <1>8, <1>11
    <3> QED BY <3>3, <3>4
  <2> QED BY <2>1, <2>2
<1>15. \A n \in DOMAIN rows : rows[n] \notin uplinks => \E k \in n..Len(rows) : rows[k] = rows[nl]
  <2> SUFFICES ASSUME NEW n \in DOMAIN rows, rows[n] \notin uplinks
               PROVE  \E k \in n..Len(rows) : rows[k] = rows[nl]
    OBVIOUS
  <2>1. n \in best
    OBVIOUS
  <2>2. nl \in n..Len(rows)
    BY <2>1, <1>7, <1>3, <1>11
  <2> QED BY <2>2
<1>16. question'.rows = rows /\ question'.told = told /\ question'.stored = stored
  BY <1>1
<1>17. ~(ToSet(rows) \subseteq uplinks) => best # {}
  BY DEF ToSet
<1> HIDE DEF best, of, rank
<1> QED BY <1>4, <1>5, <1>13, <1>14, <1>15, <1>16, <1>17 DEF HistoriesPreferAccess, uplinks

-----------------------------------------------------------------------------
(* The firewalls of a pair.                                                *)

\* The positions of a list that hold an element of a kind.
OfKind(list, kind) == {n \in DOMAIN list : list[n] \in kind}

\* Filtered has as many elements of a kind as there are among those it keeps.
LEMMA FilterCountsIn ==
    ASSUME NEW E, NEW list \in Seq(E), NEW set, NEW kind
    PROVE  Cardinality(OfKind(Filtered(list, set), kind)) = Cardinality(OfKind(list, set \cap kind))
<1> DEFINE K == Filtered(list, set)
           R == {i \in DOMAIN K : K[i] \in kind}
           S == {n \in DOMAIN list : list[n] \in set /\ list[n] \in kind}
<1>1. K \in Seq(E) /\ Len(K) \in Nat /\ DOMAIN K = 1..Len(K) /\ DOMAIN list = 1..Len(list)
  BY FilterSelects
<1>2. PICK at : Selection(at, list, Len(list), K, set)
  BY FilterSelects
<1> HIDE DEF K
<1> DEFINE to == [i \in R |-> at[i]]
<1>3. to \in Bijection(R, S)
  <2>1. to \in [R -> S]
    BY <1>1, <1>2 DEF Selection
  <2>2. IsInjective(to)
    <3> SUFFICES ASSUME NEW i \in R, NEW j \in R, to[i] = to[j] PROVE i = j
      BY <2>1 DEF IsInjective
    <3>1. i \in 1..Len(K) /\ j \in 1..Len(K) /\ at[i] = at[j]
      BY <1>1
    <3>2. at[i] \in 1..Len(list) /\ at[j] \in 1..Len(list)
      BY <1>2, <3>1 DEF Selection
    <3>3. ~(i < j) /\ ~(j < i)
      BY <3>1, <3>2, <1>2 DEF Selection
    <3> QED BY <3>1, <3>3, <1>1
  <2>3. \A n \in S : \E i \in R : to[i] = n
    <3> TAKE n \in S
    <3>1. PICK i \in 1..Len(K) : at[i] = n
      BY <1>1, <1>2 DEF Selection
    <3>2. i \in R
      BY <3>1, <1>1, <1>2 DEF Selection
    <3> QED BY <3>1, <3>2
  <2> HIDE DEF S, R, to
  <2> QED BY <2>1, <2>2, <2>3 DEF Bijection, Injection, Surjection
<1>4. IsFiniteSet(R)
  <2>1. IsFiniteSet(1..Len(K))
    BY <1>1, FS_Interval
  <2> QED BY <2>1, <1>1, FS_Subset
<1>5. Cardinality(S) = Cardinality(R)
  <2>1. ExistsBijection(R, S)
    BY <1>3 DEF ExistsBijection
  <2> HIDE DEF S, R
  <2> QED BY <2>1, <1>4, FS_Bijection
<1>6. S = OfKind(list, set \cap kind) /\ R = OfKind(K, kind)
  BY DEF OfKind
<1> HIDE DEF S, R
<1> QED BY <1>5, <1>6 DEF K

\* Two finite sets without a common element have as many together.
LEMMA DisjointCount ==
    ASSUME NEW S, IsFiniteSet(S), NEW T, IsFiniteSet(T), S \cap T = {}
    PROVE  /\ IsFiniteSet(S \cup T) /\ Cardinality(S) \in Nat /\ Cardinality(T) \in Nat
           /\ Cardinality(S \cup T) = Cardinality(S) + Cardinality(T)
<1>1. /\ IsFiniteSet(S \cup T)
      /\ Cardinality(S \cup T) = Cardinality(S) + Cardinality(T) - Cardinality(S \cap T)
  BY FS_Union
<1>2. Cardinality(S) \in Nat /\ Cardinality(T) \in Nat /\ Cardinality(S \cap T) = 0
  BY FS_CardinalityType, FS_EmptySet
<1> QED BY <1>1, <1>2

\* The firewalls of a pair are told to fail together only, whatever state they
\* and the others are in.
LEMMA FirewallsAnswer == AskFirewalls => PairsFailTogether'
<1> SUFFICES ASSUME AskFirewalls PROVE PairsFailTogether'
  OBVIOUS
<1> DEFINE Rows == [host : {None, "v", "w"}, status : Statuses, reach : {"yes", "no", "unknown"}]
<1>1. PICK a \in Rows, b \in Rows, c \in Rows :
          question' = [of |-> "wallFirewalls", rows |-> <<a, b, c>>]
  BY DEF AskFirewalls
<1> DEFINE rows == question'.rows
<1>2. DOMAIN rows = 1..3 /\ \A n \in 1..3 : rows[n] \in Rows
  BY <1>1
<1> DEFINE U == Unreached(rows)
           W == FailedRows(rows) \ Unreached(rows)
           lines == FirewallLines(rows)
<1>3. IsFiniteSet(1..3) /\ U \subseteq 1..3 /\ FailedRows(rows) \subseteq 1..3
  <2>1. 1 \in Int /\ 3 \in Int
    OBVIOUS
  <2>2. IsFiniteSet(1..3)
    BY <2>1, FS_Interval
  <2>3. U \subseteq 1..3 /\ FailedRows(rows) \subseteq 1..3
    <3> HIDE DEF rows
    <3> QED BY <1>2 DEF Unreached, FailedRows
  <2> QED BY <2>2, <2>3
<1>4. IsFiniteSet(U) /\ IsFiniteSet(W) /\ U \cup FailedRows(rows) = U \cup W /\ U \cap W = {}
  BY <1>3, FS_Subset
<1>5. lines = SetToSeq(U) \o SetToSeq(W)
  BY DEF FirewallLines
<1>6. /\ SetToSeq(U) \in Seq(U) /\ Len(SetToSeq(U)) = Cardinality(U) /\ ToSet(SetToSeq(U)) = U
      /\ SetToSeq(W) \in Seq(W) /\ Len(SetToSeq(W)) = Cardinality(W) /\ ToSet(SetToSeq(W)) = W
  <2> HIDE DEF U, W
  <2> QED BY <1>4, ListOfSet
<1> HIDE DEF U, W, lines, rows
<1>7. SetToSeq(U) \in Seq(U \cup W) /\ SetToSeq(W) \in Seq(U \cup W)
  BY <1>6, SeqMonotonic
<1>8. Len(lines) = Cardinality(U \cup W)
  <2>1. Cardinality(U \cup W) = Cardinality(U) + Cardinality(W) - Cardinality({})
    BY <1>4, FS_Union
  <2>2. Cardinality({}) = 0 /\ Cardinality(U) \in Nat /\ Cardinality(W) \in Nat
    BY <1>4, FS_EmptySet, FS_CardinalityType
  <2>3. Len(lines) = Len(SetToSeq(U)) + Len(SetToSeq(W))
    BY <1>5, <1>7
  <2> QED BY <2>1, <2>2, <2>3, <1>6
<1>9. ToSet(lines) = U \cup W
  <2> DEFINE s == SetToSeq(U)
             t == SetToSeq(W)
  <2>1. /\ DOMAIN s = 1..Len(s) /\ DOMAIN t = 1..Len(t) /\ DOMAIN lines = 1..(Len(s) + Len(t))
        /\ Len(s) \in Nat /\ Len(t) \in Nat
        /\ \A i \in 1..Len(s) : lines[i] = s[i]
        /\ \A i \in 1..Len(t) : lines[Len(s) + i] = t[i]
        /\ \A i \in DOMAIN lines : i \in 1..Len(s) \/ (i - Len(s)) \in 1..Len(t)
    BY <1>5, <1>7
  <2>2. ToSet(s) = U /\ ToSet(t) = W
    BY <1>6
  <2> HIDE DEF s, t
  <2>3. \A i \in DOMAIN lines : lines[i] \in U \cup W
    <3> TAKE i \in DOMAIN lines
    <3>1. CASE i \in 1..Len(s)
      BY <3>1, <2>1, <2>2 DEF ToSet
    <3>2. CASE (i - Len(s)) \in 1..Len(t)
      <4>1. lines[i] = t[i - Len(s)]
        <5>1. Len(s) + (i - Len(s)) = i
          BY <2>1
        <5> QED BY <5>1, <3>2, <2>1
      <4> QED BY <4>1, <3>2, <2>1, <2>2 DEF ToSet
    <3> QED BY <3>1, <3>2, <2>1
  <2>4. \A x \in U \cup W : \E i \in DOMAIN lines : lines[i] = x
    <3> TAKE x \in U \cup W
    <3>1. CASE x \in U
      <4>1. PICK i \in 1..Len(s) : s[i] = x
        BY <3>1, <2>1, <2>2 DEF ToSet
      <4> QED BY <4>1, <2>1
    <3>2. CASE x \in W
      <4>1. PICK i \in 1..Len(t) : t[i] = x
        BY <3>2, <2>1, <2>2 DEF ToSet
      <4>2. Len(s) + i \in DOMAIN lines
        BY <4>1, <2>1
      <4> QED BY <4>1, <4>2, <2>1
    <3> QED BY <3>1, <3>2
  <2> QED BY <2>3, <2>4 DEF ToSet
<1> DEFINE Partners(n) == {k \in DOMAIN rows : rows[k].host = rows[n].host /\ rows[n].host # None}
<1>10. \A n \in DOMAIN rows : rows[n].status = "failed" =>
                 (n \in FailedRows(rows) <=> \A k \in Partners(n) : rows[k].status # "done")
  BY DEF FailedRows, Shown
<1> HIDE DEF Partners
<1> QED BY <1>4, <1>8, <1>9, <1>10 DEF PairsFailTogether, U, lines, rows, Partners

-----------------------------------------------------------------------------
(* The cards of the zones and the lists behind them.                       *)

\* The cards of the zones and the lists behind them tell the same hosts.
LEMMA CardsAnswer == AskHosts => CardsMatchTheirLists'
<1> SUFFICES ASSUME AskHosts PROVE CardsMatchTheirLists'
  OBVIOUS
<1>1. PICK g \in HostFacts, h \in HostFacts :
          question' = [of |-> "wallHosts", hosts |-> <<g, h>>]
  BY DEF AskHosts
<1> DEFINE hosts == question'.hosts
           Here(z) == {n \in DOMAIN hosts : ZoneOfSwitch(AttachOf(hosts[n])) = z}
           Gone(z) == {n \in Here(z) : ~hosts[n].online}
           gone == {n \in DOMAIN hosts : ~hosts[n].online}
<1>2. hosts \in Seq(HostFacts) /\ DOMAIN hosts = 1..2
  <2>1. <<g, h>> \in Seq(HostFacts) /\ DOMAIN <<g, h>> = 1..2
    OBVIOUS
  <2> QED BY <2>1, <1>1
<1> HIDE DEF hosts
<1>3. IsFiniteSet(1..2)
  <2>1. 1 \in Int /\ 2 \in Int
    OBVIOUS
  <2> QED BY <2>1, FS_Interval
<1>4. ASSUME NEW z \in Zones
      PROVE  /\ ZoneCard(hosts, z).offline = Cardinality(Gone(z))
             /\ ZoneCard(hosts, z).total = Len(ZonePopup(hosts, z))
             /\ Cardinality({n \in DOMAIN ZonePopup(hosts, z) : ~ZonePopup(hosts, z)[n].online})
                  = Cardinality(Gone(z))
  <2> DEFINE set == {f \in ToSet(hosts) : ZoneOfSwitch(AttachOf(f)) = z}
             kind == {f \in ToSet(hosts) : ~f.online}
             K == ZonePopup(hosts, z)
  <2>1. K = Filtered(hosts, set)
    BY DEF ZonePopup
  <2>2. \A n \in DOMAIN hosts : /\ hosts[n] \in set <=> n \in Here(z)
                                /\ hosts[n] \in kind <=> ~hosts[n].online
    BY DEF ToSet
  <2>3. /\ ZoneCard(hosts, z).offline = Cardinality(Gone(z))
        /\ ZoneCard(hosts, z).total = Cardinality(Here(z))
    BY DEF ZoneCard
  <2>4. ToSet(K) = {hosts[n] : n \in {m \in DOMAIN hosts : hosts[m] \in set}}
    <3> HIDE DEF set, K
    <3> QED BY <1>2, <2>1, FilterCounts
  <2>5. Len(K) = Cardinality({n \in DOMAIN hosts : hosts[n] \in set})
    <3> HIDE DEF set, K
    <3> QED BY <1>2, <2>1, FilterCounts
  <2>6. {n \in DOMAIN hosts : hosts[n] \in set} = Here(z)
    <3> HIDE DEF set
    <3> QED BY <2>2
  <2>7. Cardinality(OfKind(K, kind)) = Cardinality(OfKind(hosts, set \cap kind))
    <3> HIDE DEF set, K, kind
    <3>1. Cardinality(OfKind(Filtered(hosts, set), kind)) = Cardinality(OfKind(hosts, set \cap kind))
      BY <1>2, FilterCountsIn
    <3> QED BY <2>1, <3>1
  <2>8. OfKind(hosts, set \cap kind) = Gone(z)
    <3> HIDE DEF set, kind
    <3> QED BY <2>2 DEF OfKind
  <2>9. OfKind(K, kind) = {i \in DOMAIN K : ~K[i].online}
    <3>1. \A i \in DOMAIN K : K[i] \in ToSet(K)
      <4> HIDE DEF K
      <4> QED BY DEF ToSet
    <3>3. \A x \in ToSet(hosts) : x \in kind <=> ~x.online
      OBVIOUS
    <3>2. ToSet(K) \subseteq ToSet(hosts)
      <4> HIDE DEF K, set
      <4> QED BY <2>4 DEF ToSet
    <3> HIDE DEF K, kind
    <3> QED BY <3>1, <3>2, <3>3 DEF OfKind
  <2> HIDE DEF K, set, kind
  <2> QED BY <2>3, <2>5, <2>6, <2>7, <2>8, <2>9 DEF K
<1>5. Cardinality(Gone("east")) + Cardinality(Gone("west")) + Cardinality(Gone("unknown"))
        = Cardinality(gone)
  <2>1. \A z : Gone(z) \subseteq 1..2
    BY <1>2
  <2>2. \A z : IsFiniteSet(Gone(z))
    <3> HIDE DEF Gone
    <3> QED BY <2>1, <1>3, FS_Subset
  <2>3. /\ Gone("east") \cap Gone("west") = {}
        /\ (Gone("east") \cup Gone("west")) \cap Gone("unknown") = {}
    OBVIOUS
  <2>4. gone = (Gone("east") \cup Gone("west")) \cup Gone("unknown")
    <3>1. \A s : ZoneOfSwitch(s) \in {"east", "west", "unknown"}
      BY DEF ZoneOfSwitch
    <3> QED BY <3>1
  <2> HIDE DEF Gone, gone
  <2>5. IsFiniteSet(Gone("east")) /\ IsFiniteSet(Gone("west")) /\ IsFiniteSet(Gone("unknown"))
    BY <2>2
  <2>6. /\ IsFiniteSet(Gone("east") \cup Gone("west"))
        /\ Cardinality(Gone("east")) \in Nat /\ Cardinality(Gone("west")) \in Nat
        /\ Cardinality(Gone("east") \cup Gone("west")) = Cardinality(Gone("east")) + Cardinality(Gone("west"))
    BY <2>3, <2>5, DisjointCount
  <2>7. /\ Cardinality(Gone("unknown")) \in Nat
        /\ Cardinality(gone) = Cardinality(Gone("east") \cup Gone("west")) + Cardinality(Gone("unknown"))
    BY <2>3, <2>4, <2>5, <2>6, DisjointCount
  <2> QED BY <2>6, <2>7
<1>6. {"east", "west", "unknown"} = Zones
  BY DEF Zones
<1> HIDE DEF Gone, gone
<1>7. /\ ZoneCard(hosts, "east").offline + ZoneCard(hosts, "west").offline
           + ZoneCard(hosts, "unknown").offline = Cardinality(gone)
  BY <1>4, <1>5, <1>6
<1> QED BY <1>4, <1>7 DEF CardsMatchTheirLists, gone, hosts

-----------------------------------------------------------------------------
(* The timeline of a host.                                                 *)

\* The segments of a timeline.
Segments == [state : {"unknown", "online", "offline"}, from : 0..5, to : 0..5]

\* The segment of a list that holds time t.
Holds(s, t) == s.from <= t /\ t < s.to

\* The segments of a list that take some time.
NotEmpty(all) == {s \in ToSet(all) : s.from < s.to}

\* One segment of line holds t: the one that is x-th of all.
HolderIs(line, all, x, t) ==
    /\ Cardinality({n \in DOMAIN line : Holds(line[n], t)}) = 1
    /\ \A n \in DOMAIN line : Holds(line[n], t) => line[n] = all[x]

\* Which segments hold a time, and how many, is left alone by the ones that are
\* dropped because they are empty.
LEMMA HoldersAreKept ==
    ASSUME NEW all \in Seq(Segments), NEW t \in 0..4, NEW line,
           line = Filtered(all, NotEmpty(all)),
           NEW x \in DOMAIN all, Holds(all[x], t), \A n \in DOMAIN all : Holds(all[n], t) => n = x
    PROVE  HolderIs(line, all, x, t)
<1> DEFINE set == NotEmpty(all)
           kind == {s \in ToSet(all) : Holds(s, t)}
<1>1. \A s \in ToSet(all) : s \in Segments
  BY DEF ToSet
<1>2. \A s \in ToSet(all) : s \in set \cap kind <=> Holds(s, t)
  BY <1>1 DEF Holds, Segments, NotEmpty
<1>3. \A n \in DOMAIN all : all[n] \in ToSet(all)
  BY DEF ToSet
<1>4. OfKind(all, set \cap kind) = {x}
  <2> HIDE DEF set, kind
  <2> QED BY <1>2, <1>3 DEF OfKind
<1>5. Cardinality(OfKind(line, kind)) = Cardinality(OfKind(all, set \cap kind))
  <2> HIDE DEF kind
  <2>1. Cardinality(OfKind(Filtered(all, set), kind)) = Cardinality(OfKind(all, set \cap kind))
    <3> HIDE DEF set
    <3> QED BY FilterCountsIn
  <2> QED BY <2>1
<1>6. ToSet(line) = ToSet(all) \cap set
  BY FilterSet
<1>7. \A n \in DOMAIN line : \E m \in DOMAIN all : line[n] = all[m]
  <2> HIDE DEF set
  <2>1. \A n \in DOMAIN line : line[n] \in ToSet(line)
    BY DEF ToSet
  <2>2. \A y \in ToSet(all) : \E m \in DOMAIN all : y = all[m]
    BY DEF ToSet
  <2> QED BY <1>6, <2>1, <2>2
<1>8. \A n \in DOMAIN line : line[n] \in kind <=> Holds(line[n], t)
  <2> HIDE DEF set
  <2> QED BY <1>7, <1>3
<1> HIDE DEF set, kind
<1>9. OfKind(line, kind) = {n \in DOMAIN line : Holds(line[n], t)}
  BY <1>8 DEF OfKind
<1>10. Cardinality({x}) = 1
  BY FS_Singleton
<1> QED BY <1>4, <1>5, <1>7, <1>8, <1>9, <1>10 DEF HolderIs

\* The timeline tells the last event before t.
ToldBy(line, events, t) ==
    LET of == {n \in DOMAIN line : line[n].from <= t /\ t < line[n].to}
        Earlier == {n \in DOMAIN events : events[n][1] <= t}
    IN  Cardinality(of) = 1 /\ \A n \in of : line[n].state =
            IF Earlier = {} THEN "unknown" ELSE StateOf(events[Max(Earlier)][2])

\* The line tells at each time of the window the last event before it.
LineTells(line, events, now) ==
    \A t \in 0..(WindowEnd - 1) :
        LET of == {n \in DOMAIN line : line[n].from <= t /\ t < line[n].to}
            Earlier == {n \in DOMAIN events : events[n][1] <= t}
            At == IF events = <<>> THEN now
                  ELSE IF Earlier = {} THEN "unknown" ELSE StateOf(events[Max(Earlier)][2])
        IN  IF events = <<>> /\ now = None THEN of = {}
            ELSE Cardinality(of) = 1 /\ \A n \in of : line[n].state = At

\* The timeline tells the last event at each time, for as many events as are read.
LEMMA TimelineAnswer == AskTimeline => TimelineIsTheLastEvent'
<1> SUFFICES ASSUME AskTimeline PROVE TimelineIsTheLastEvent'
  OBVIOUS
<1> DEFINE Event == (0..4) \X BOOLEAN
<1>1. PICK events \in SeqOf(Event, 4), now \in {None, "online", "offline"} :
          /\ \A i, j \in DOMAIN events : i < j => events[i][1] <= events[j][1]
          /\ question' = [of |-> "timeline", events |-> events, now |-> now]
  BY DEF AskTimeline
<1> DEFINE N == Len(events)
<1>2. events \in Seq(Event) /\ N \in 0..4 /\ N \in Nat /\ events \in [1..N -> Event] /\ DOMAIN events = 1..N
  <2> HIDE DEF Event
  <2> QED BY ListOfUpTo
<1>3. SubSeq(events, 1, IF Len(events) > EventLimit THEN EventLimit ELSE Len(events)) = events
  <2>1. ~(N > 4)
    BY <1>2
  <2>2. SubSeq(events, 1, N) = events
    <3> HIDE DEF Event
    <3> QED BY <1>2
  <2> QED BY <2>1, <2>2 DEF EventLimit
<1> DEFINE time(n) == events[n][1]
           Until(n) == IF n < N THEN events[n + 1][1] ELSE WindowEnd
           part(n) == Segment(StateOf(events[n][2]), events[n][1], Until(n))
           parts == [n \in DOMAIN events |-> part(n)]
           all == IF events = <<>>
                  THEN IF now = None THEN <<>> ELSE <<Segment(now, 0, WindowEnd)>>
                  ELSE <<Segment("unknown", 0, events[1][1])>> \o parts
           line == Timeline(events, now)
<1>4. line = Filtered(all, NotEmpty(all))
  BY <1>3 DEF Timeline, NotEmpty
<1>5. \A n \in 1..N : /\ time(n) \in 0..4 /\ Until(n) \in 0..5 /\ part(n) \in Segments
                      /\ part(n).from = time(n) /\ part(n).to = Until(n)
                      /\ part(n).state = StateOf(events[n][2])
  <2> TAKE n \in 1..N
  <2>1. events[n] \in Event
    BY <1>2
  <2>2. n < N => events[n + 1] \in Event
    BY <1>2
  <2>3. time(n) \in 0..4 /\ Until(n) \in 0..5
    BY <2>1, <2>2 DEF WindowEnd
  <2> HIDE DEF Until
  <2> QED BY <2>3 DEF Segment, Segments, StateOf
<1> HIDE DEF line
<1>6. CASE events = <<>>
  <2>1. DOMAIN events = {}
    BY <1>6
  <2>2. CASE now = None
    <3>1. all = <<>> /\ all \in Seq(Segments)
      BY <1>6, <2>2
    <3> HIDE DEF all
    <3>2. ToSet(line) = {}
      <4>1. ToSet(line) = ToSet(all) \cap NotEmpty(all)
        BY <3>1, <1>4, FilterSet
      <4>2. DOMAIN all = {}
        BY <3>1
      <4> QED BY <4>1, <4>2 DEF ToSet
    <3>3. DOMAIN line = {}
      BY <3>2 DEF ToSet
    <3> QED BY <1>1, <1>6, <2>2, <3>3 DEF TimelineIsTheLastEvent, line
  <2>3. CASE now # None
    <3> DEFINE s == Segment(now, 0, WindowEnd)
    <3>1. all = <<s>> /\ s \in Segments /\ s.state = now /\ \A t \in 0..4 : Holds(s, t)
      <4>1. now \in {"online", "offline"}
        BY <2>3
      <4> QED BY <4>1, <1>6, <2>3 DEF Segment, WindowEnd, Holds, Segments
    <3> HIDE DEF all, s
    <3>2. all \in Seq(Segments) /\ DOMAIN all = {1} /\ all[1] = s
      BY <3>1
    <3>3. ASSUME NEW t \in 0..4
          PROVE  HolderIs(line, all, 1, t)
      <4>1. 1 \in DOMAIN all /\ Holds(all[1], t) /\ \A n \in DOMAIN all : Holds(all[n], t) => n = 1
        BY <3>1, <3>2
      <4> QED BY <4>1, <3>2, <1>4, HoldersAreKept
    <3>4. 0..(WindowEnd - 1) = 0..4
      BY DEF WindowEnd
    <3>5. question'.events = events /\ question'.now = now
      BY <1>1
    <3> QED BY <1>6, <2>3, <3>1, <3>2, <3>3, <3>4, <3>5 DEF TimelineIsTheLastEvent, line, Holds, HolderIs
  <2> QED BY <2>2, <2>3
<1>7. CASE events # <<>>
  <2> DEFINE first == Segment("unknown", 0, events[1][1])
  <2>1. N \in 1..4 /\ 1 \in 1..N
    BY <1>2, <1>7
  <2>2. first \in Segments /\ first.state = "unknown" /\ first.from = 0 /\ first.to = time(1)
    BY <2>1, <1>5 DEF Segment, Segments
  <2>3. parts \in Seq(Segments) /\ Len(parts) = N /\ DOMAIN parts = 1..N
        /\ \A n \in 1..N : parts[n] = part(n)
    <3>1. parts \in [1..N -> Segments] /\ DOMAIN parts = 1..N /\ \A n \in 1..N : parts[n] = part(n)
      <4> HIDE DEF part
      <4> QED BY <1>2, <1>5
    <3> HIDE DEF parts, Segments
    <3>2. parts \in Seq(Segments)
      BY <3>1, <1>2, SeqDef
    <3>3. Len(parts) = N
      BY <3>1, <3>2, <1>2
    <3> QED BY <3>1, <3>2, <3>3
  <2> HIDE DEF part, Segments
  <2>4. all = <<first>> \o parts
    BY <1>7
  <2> HIDE DEF all, parts, first
  <2>5. <<first>> \in Seq(Segments) /\ Len(<<first>>) = 1 /\ DOMAIN <<first>> = {1} /\ <<first>>[1] = first
    BY <2>2
  <2>6. all \in Seq(Segments) /\ Joined(<<first>>, parts, all)
    BY <2>3, <2>4, <2>5, JoinIs
  <2>7. /\ DOMAIN all = 1..(N + 1) /\ all[1] = first
        /\ \A n \in 1..N : n + 1 \in DOMAIN all /\ all[n + 1] = part(n)
        /\ \A i \in DOMAIN all : i = 1 \/ i - 1 \in 1..N
    <3>1. \A n \in 1..N : 1 + n \in DOMAIN all /\ all[1 + n] = part(n)
      BY <2>3, <2>5, <2>6 DEF Joined
    <3>2. \A n \in 1..N : 1 + n = n + 1
      BY <1>2
    <3>3. DOMAIN all = 1..(1 + N) /\ all[1] = first /\ \A i \in DOMAIN all : i = 1 \/ i - 1 \in 1..N
      BY <2>3, <2>5, <2>6 DEF Joined
    <3> QED BY <3>1, <3>2, <3>3, <1>2
  <2> HIDE DEF N
  <2>8. \A i, j \in 1..N : i < j => time(i) <= time(j)
    BY <1>1, <1>2
  <2> HIDE DEF Until, Event
  <2>9. \A n \in 1..N : Until(n) = IF n < N THEN time(n + 1) ELSE 5
    BY DEF Until, WindowEnd
  <2> HIDE DEF time
  <2> SUFFICES ASSUME NEW t \in 0..4
               PROVE  ToldBy(line, events, t)
    <3>1. question'.events = events /\ question'.now = now
      BY <1>1
    <3>2. 0..(WindowEnd - 1) = 0..4
      BY DEF WindowEnd
    <3>3. \A t \in 0..4 : ToldBy(line, events, t)
      OBVIOUS
    <3> HIDE DEF all, N
    <3>4. line = Timeline(events, now)
      BY DEF line
    <3> HIDE DEF line
    <3>5. LineTells(line, events, now)
      <4>1. \A t \in 0..(WindowEnd - 1) : ToldBy(line, events, t)
        BY <3>2, <3>3
      <4> QED BY <4>1, <1>7 DEF ToldBy, LineTells
    <3>6. LineTells(Timeline(question'.events, question'.now), question'.events, question'.now)
      BY <3>1, <3>4, <3>5
    <3> QED BY <3>6 DEF TimelineIsTheLastEvent, LineTells
  <2> DEFINE Earlier == {n \in DOMAIN events : events[n][1] <= t}
  <2>10. Earlier = {n \in 1..N : time(n) <= t}
    BY <1>2 DEF time
  <2> HIDE DEF Earlier
  <2>11. CASE Earlier = {}
    <3>1. \A n \in 1..N : ~(time(n) <= t)
      BY <2>10, <2>11
    <3>2. 1 \in DOMAIN all /\ Holds(all[1], t)
      BY <2>1, <2>2, <2>7, <3>1, <1>2, <1>5 DEF Holds
    <3>3. \A i \in DOMAIN all : Holds(all[i], t) => i = 1
      <4> TAKE i \in DOMAIN all
      <4> HAVE Holds(all[i], t)
      <4>1. CASE i - 1 \in 1..N
        <5>1. (i - 1) + 1 = i
          BY <2>7, <1>2
        <5>2. all[i] = part(i - 1)
          BY <5>1, <4>1, <2>7
        <5> QED BY <5>2, <4>1, <1>5, <3>1 DEF Holds
      <4> QED BY <4>1, <2>7
    <3>4. HolderIs(line, all, 1, t)
      BY <2>6, <3>2, <3>3, <1>4, HoldersAreKept
    <3> QED BY <3>4, <2>2, <2>7, <2>11 DEF Holds, HolderIs, Earlier, ToldBy
  <2>12. CASE Earlier # {}
    <3> DEFINE m == Max(Earlier)
    <3>1. m \in Earlier /\ \A n \in Earlier : n <= m
      BY <2>10, <2>12, <1>2, MaxOfBounded
    <3> HIDE DEF m
    <3>2. m \in 1..N /\ time(m) <= t /\ m \in Int
      BY <3>1, <2>10, <1>2
    <3>3. m < N => m + 1 \in 1..N /\ ~(time(m + 1) <= t)
      <4> SUFFICES ASSUME m < N PROVE m + 1 \in 1..N /\ ~(time(m + 1) <= t)
        OBVIOUS
      <4>1. m + 1 \in 1..N /\ ~(m + 1 <= m)
        BY <3>2, <1>2
      <4> QED BY <4>1, <3>1, <2>10
    <3>4. m + 1 \in DOMAIN all /\ all[m + 1] = part(m) /\ Holds(all[m + 1], t)
      <4>1. t < Until(m)
        BY <3>2, <3>3, <2>9, <1>5
      <4> QED BY <4>1, <3>2, <2>7, <1>5 DEF Holds
    <3>5. \A i \in DOMAIN all : Holds(all[i], t) => i = m + 1
      <4> TAKE i \in DOMAIN all
      <4> HAVE Holds(all[i], t)
      <4>1. i # 1
        <5>1. time(1) <= time(m)
          BY <2>1, <3>2, <2>8, <1>5
        <5> QED BY <5>1, <2>1, <2>2, <2>7, <3>2, <1>5 DEF Holds
      <4>2. i - 1 \in 1..N /\ (i - 1) + 1 = i /\ all[i] = part(i - 1)
        <5>1. i - 1 \in 1..N /\ (i - 1) + 1 = i
          BY <4>1, <2>7, <1>2
        <5>2. all[(i - 1) + 1] = part(i - 1)
          BY <5>1, <2>7
        <5> QED BY <5>1, <5>2
      <4> DEFINE n == i - 1
      <4>3. n \in 1..N /\ time(n) <= t /\ t < Until(n)
        BY <4>2, <1>5 DEF Holds
      <4> HIDE DEF n
      <4>4. n <= m
        BY <4>3, <3>1, <2>10
      <4>5. ~(n < m)
        <5> SUFFICES ASSUME n < m PROVE FALSE
          OBVIOUS
        <5>1. n + 1 \in 1..N /\ n < N /\ n + 1 <= m
          BY <4>3, <3>2, <1>2
        <5>2. Until(n) = time(n + 1)
          BY <4>3, <5>1, <2>9
        <5>3. time(n + 1) <= time(m)
          <6>1. CASE n + 1 = m
            BY <6>1, <3>2, <1>5
          <6>2. CASE n + 1 < m
            BY <6>2, <5>1, <3>2, <2>8
          <6> QED BY <6>1, <6>2, <5>1, <3>2, <1>2
        <5> QED BY <5>1, <5>2, <5>3, <4>3, <3>2, <1>5
      <4>6. n = m
        BY <4>3, <4>4, <4>5, <3>2
      <4> QED BY <4>6, <4>2 DEF n
    <3>6. HolderIs(line, all, m + 1, t)
      BY <2>6, <3>4, <3>5, <1>4, HoldersAreKept
    <3>7. all[m + 1].state = StateOf(events[m][2])
      BY <3>2, <3>4, <1>5
    <3> QED BY <3>6, <3>7, <2>12 DEF Holds, HolderIs, m, Earlier, ToldBy
  <2> QED BY <2>11, <2>12
<1> QED BY <1>6, <1>7

-----------------------------------------------------------------------------
(* The links of two switches.                                              *)

\* r gives the link after the first k rows of CDP or LLDP.
LinkRun(r, seen, rows) ==
    /\ r \in [0..Len(rows) -> [port : [1..2 -> LinkPorts \cup {NoPort}], mutual : BOOLEAN, drawn : BOOLEAN]]
    /\ r[0] = MacLink(seen) /\ r[Len(rows)] = BuildLink(seen, rows)
    /\ \A k \in 1..Len(rows) : r[k] = WithNeighbor(r[k - 1], rows[k])

\* The best port of a MAC link is one that was seen.
LEMMA DirectIsBest ==
    ASSUME NEW ports \in SUBSET LinkPorts, ports # {}
    PROVE  /\ Direct(ports) \in ports
           /\ ports # {"po"} => /\ Direct(ports) # "po"
                                /\ \A q \in ports \ {"po"} : LearntOn[Direct(ports)] <= LearntOn[q]
<1>1. \A p \in LinkPorts : Score(p) = IF p = "e1" THEN 2 ELSE IF p = "e2" THEN 1 ELSE 11
  BY DEF LinkPorts, LearntOn, Score
<1>2. \E p \in ports : \A q \in ports : Score(p) <= Score(q)
  <2>1. ports \subseteq {"e1", "e2", "po"}
    BY DEF LinkPorts
  <2>2. CASE "e2" \in ports
    BY <1>1, <2>1, <2>2 DEF LinkPorts
  <2>3. CASE "e2" \notin ports /\ "e1" \in ports
    BY <1>1, <2>1, <2>3 DEF LinkPorts
  <2>4. CASE ports = {"po"}
    BY <1>1, <2>4 DEF LinkPorts
  <2>5. "e2" \in ports \/ ("e2" \notin ports /\ "e1" \in ports) \/ ports = {"po"}
    BY <2>1
  <2> QED BY <2>2, <2>3, <2>4, <2>5
<1> HIDE DEF Score
<1>3. Direct(ports) \in ports /\ \A q \in ports : Score(Direct(ports)) <= Score(q)
  BY <1>2 DEF Direct
<1>4. \A p \in ports : p # "po" => LearntOn[p] = Score(p) /\ Score(p) < Score("po")
  BY <1>1 DEF LinkPorts, LearntOn
<1>5. \A p \in ports : Score(p) \in Nat
  BY <1>1
<1>6. ports # {"po"} => \E p \in ports : p # "po"
  OBVIOUS
<1>7. Score("po") \in Nat
  BY <1>1 DEF LinkPorts
<1>8. ports # {"po"} => Direct(ports) # "po"
  BY <1>3, <1>4, <1>5, <1>6, <1>7
<1> QED BY <1>3, <1>4, <1>8

\* The link that the MACs show is a link.
LEMMA MacLinkType ==
    ASSUME NEW seen \in [1..2 -> SUBSET LinkPorts]
    PROVE  MacLink(seen) \in [port : [1..2 -> LinkPorts \cup {NoPort}], mutual : BOOLEAN, drawn : BOOLEAN]
<1>1. \A i \in 1..2 : (IF seen[i] = {} THEN NoPort ELSE Direct(seen[i])) \in LinkPorts \cup {NoPort}
  BY DirectIsBest
<1> QED BY <1>1 DEF MacLink

\* A link is made row by row.
LEMMA LinkSteps ==
    ASSUME NEW seen \in [1..2 -> SUBSET LinkPorts], NEW rows \in Seq(NeighborRows)
    PROVE  \E r : LinkRun(r, seen, rows)
<1> DEFINE n == Len(rows)
           T == [port : [1..2 -> LinkPorts \cup {NoPort}], mutual : BOOLEAN, drawn : BOOLEAN]
           E == NeighborRows
           op(t, e) == WithNeighbor(t, e)
           F == [p \in T \X E |-> op(p[1], p[2])]
           Fix(i) == i = [s \in SUBSET (DOMAIN rows) |->
                            IF s = {} THEN MacLink(seen) ELSE op(i[s \ {Max(s)}], rows[Max(s)])]
           it == CHOOSE i : Fix(i)
<1>1. n \in Nat /\ rows \in [1..n -> E] /\ DOMAIN rows = 1..n /\ MacLink(seen) \in T
  <2>1. rows \in Seq(E)
    OBVIOUS
  <2>2. MacLink(seen) \in T
    BY MacLinkType
  <2> HIDE DEF E, T
  <2> QED BY <2>1, <2>2
<1>2. \A t \in T, e \in E : op(t, e) \in T /\ F[<<t, e>>] = op(t, e)
  <2> TAKE t \in T, e \in E
  <2>1. <<t, e>> \in T \X E
    OBVIOUS
  <2>2. F[<<t, e>>] = op(t, e)
    <3> HIDE DEF T, E
    <3> QED BY <2>1
  <2>3. e.known => e.at \in 1..2 /\ e.local \in LinkPorts /\ e.remote \in LinkPorts \cup {NoPort}
    <3>1. CASE e \in [at : 1..2, known : {TRUE}, local : {"e1", "e2"}, remote : {NoPort, "e1"}]
      BY <3>1 DEF LinkPorts
    <3>2. CASE e = [at |-> 1, known |-> FALSE, local |-> "e1", remote |-> "e1"]
      BY <3>2
    <3> QED BY <3>1, <3>2 DEF NeighborRows
  <2>4. op(t, e) \in T
    <3> HIDE DEF E
    <3> QED BY <2>3 DEF WithNeighbor
  <2> QED BY <2>2, <2>4
<1>3. F \in [T \X E -> T]
  <2> HIDE DEF op, T, E
  <2> QED BY <1>2
<1>4. BuildLink(seen, rows) = it[1..n]
  BY <1>1 DEF BuildLink, FoldLeft, MapThenFoldSet
<1> HIDE DEF n, T, E, F, op
<1>5. PICK g : FoldSolution(g, T, F, MacLink(seen), n, rows)
  BY <1>1, <1>3, FoldHasSolution
<1>6. FoldStays(g, T, E, F, MacLink(seen), n, rows) /\ g \in [SUBSET (1..n) -> T]
  BY <1>1, <1>5, SolutionStays
<1>7. Fix(g)
  BY <1>1, <1>2, <1>6 DEF FoldStays
<1> HIDE DEF Fix
<1>8. Fix(it)
  BY <1>7
<1> HIDE DEF it
<1>9. FoldLike(it, T, F, MacLink(seen), n, rows)
  <2>1. \A s \in SUBSET (1..n) :
            it[s] = IF s = {} THEN MacLink(seen) ELSE op(it[s \ {Max(s)}], rows[Max(s)])
    BY <1>1, <1>8 DEF Fix
  <2>2. 1..0 = {} /\ {} \in SUBSET (1..n)
    OBVIOUS
  <2>3. it[1..0] = MacLink(seen)
    BY <2>1, <2>2
  <2>4. \A s \in SUBSET (1..n) : s # {} => rows[Max(s)] \in E
    BY <1>6 DEF FoldStays
  <2> QED BY <1>2, <2>1, <2>3, <2>4 DEF FoldLike
<1>10. FoldGives(it[1..n], T, F, MacLink(seen), n, rows)
  BY <1>1, <1>3, <1>9, FoldHasSteps
<1>11. PICK r : FoldSteps(r, T, F, MacLink(seen), n, rows) /\ r[n] = BuildLink(seen, rows)
  BY <1>10, <1>4 DEF FoldGives
<1>12. r \in [0..n -> T] /\ r[0] = MacLink(seen) /\ \A k \in 1..n : r[k] = F[<<r[k - 1], rows[k]>>]
  BY <1>11 DEF FoldSteps
<1>13. \A k \in 1..n : r[k] = op(r[k - 1], rows[k])
  <2> TAKE k \in 1..n
  <2>1. r[k - 1] \in T /\ rows[k] \in E
    BY <1>1, <1>12
  <2> QED BY <2>1, <1>12, <1>2
<1> QED BY <1>11, <1>12, <1>13 DEF LinkRun, n, T, op

\* The rows among the first k that switch i told of the other.
OwnRows(rows, k, i) == {m \in 1..k : rows[m].known /\ rows[m].at = i}

\* What the link has of the first k rows.
Witnessed(link, seen, rows, k) ==
    /\ link.drawn <=> \/ \E m \in 1..k : rows[m].known
                      \/ seen[1] # {} \/ seen[2] # {}
    /\ link.mutual <=> \/ \E m \in 1..k : rows[m].known
                       \/ seen[1] # {} /\ seen[2] # {}
    /\ \A i \in 1..2 :
          /\ OwnRows(rows, k, i) # {} =>
                \E m \in OwnRows(rows, k, i) : /\ \A j \in OwnRows(rows, k, i) : j <= m
                                               /\ link.port[i] = rows[m].local
          /\ OwnRows(rows, k, i) = {} /\ seen[i] # {} => link.port[i] = Direct(seen[i])

\* One more row keeps it.
LEMMA OneRowWitnessed ==
    ASSUME NEW seen \in [1..2 -> SUBSET LinkPorts], NEW k \in Nat,
           NEW rows \in [1..(k + 1) -> NeighborRows],
           NEW link \in [port : [1..2 -> LinkPorts \cup {NoPort}], mutual : BOOLEAN, drawn : BOOLEAN],
           Witnessed(link, seen, rows, k)
    PROVE  Witnessed(WithNeighbor(link, rows[k + 1]), seen, rows, k + 1)
<1> DEFINE row == rows[k + 1]
           new == WithNeighbor(link, row)
<1>1. 1..(k + 1) = 1..k \cup {k + 1} /\ k + 1 \in 1..(k + 1) /\ k + 1 \notin 1..k /\ \A m \in 1..k : m <= k + 1
  OBVIOUS
<1>2. \A m \in 1..(k + 1) : rows[m].known =>
          rows[m].at \in 1..2 /\ rows[m].local \in LinkPorts
  <2> TAKE m \in 1..(k + 1)
  <2>1. rows[m] \in NeighborRows
    OBVIOUS
  <2>2. CASE rows[m] \in [at : 1..2, known : {TRUE}, local : {"e1", "e2"}, remote : {NoPort, "e1"}]
    BY <2>2 DEF LinkPorts
  <2>3. CASE rows[m] = [at |-> 1, known |-> FALSE, local |-> "e1", remote |-> "e1"]
    BY <2>3
  <2> QED BY <2>1, <2>2, <2>3 DEF NeighborRows
<1>3. CASE ~row.known
  <2>1. \A i \in 1..2 : OwnRows(rows, k + 1, i) = OwnRows(rows, k, i)
    BY <1>1, <1>3 DEF OwnRows
  <2>2. (\E m \in 1..(k + 1) : rows[m].known) <=> (\E m \in 1..k : rows[m].known)
    BY <1>1, <1>3
  <2>3. new = link
    BY <1>3 DEF WithNeighbor
  <2> HIDE DEF new, row
  <2>4. Witnessed(new, seen, rows, k + 1)
    BY <2>1, <2>2, <2>3 DEF Witnessed
  <2> QED BY <2>4 DEF new, row
<1>4. CASE row.known
  <2>1. row.at \in 1..2 /\ row.local \in LinkPorts
    BY <1>1, <1>2, <1>4
  <2>2. new = [port |-> [i \in 1..2 |->
                      IF i = row.at THEN row.local
                      ELSE IF link.port[i] # NoPort THEN link.port[i] ELSE row.remote],
               mutual |-> TRUE, drawn |-> TRUE]
    BY <1>4 DEF WithNeighbor
  <2>3. new.drawn /\ new.mutual
        /\ \A i \in 1..2 : new.port[i] = IF i = row.at THEN row.local
                      ELSE IF link.port[i] # NoPort THEN link.port[i] ELSE row.remote
    BY <2>2
  <2>4. \E m \in 1..(k + 1) : rows[m].known
    BY <1>1, <1>4
  <2>5. ASSUME NEW i \in 1..2, i = row.at
        PROVE  \E m \in OwnRows(rows, k + 1, i) : /\ \A j \in OwnRows(rows, k + 1, i) : j <= m
                                                  /\ new.port[i] = rows[m].local
    <3>1. k + 1 \in OwnRows(rows, k + 1, i) /\ \A j \in OwnRows(rows, k + 1, i) : j <= k + 1
      BY <1>1, <1>4, <2>5 DEF OwnRows
    <3> HIDE DEF new
    <3> QED BY <3>1, <2>3, <2>5
  <2>6. ASSUME NEW i \in 1..2, i # row.at
        PROVE  /\ OwnRows(rows, k + 1, i) = OwnRows(rows, k, i)
               /\ OwnRows(rows, k, i) # {} \/ seen[i] # {} => new.port[i] = link.port[i]
    <3>1. OwnRows(rows, k + 1, i) = OwnRows(rows, k, i)
      BY <1>1, <2>6 DEF OwnRows
    <3>2. OwnRows(rows, k, i) # {} => link.port[i] \in LinkPorts
      BY <1>1, <1>2 DEF Witnessed, OwnRows
    <3>3. OwnRows(rows, k, i) = {} /\ seen[i] # {} => link.port[i] \in LinkPorts
      <4>1. seen[i] \in SUBSET LinkPorts
        OBVIOUS
      <4>2. seen[i] # {} => Direct(seen[i]) \in LinkPorts
        BY <4>1, DirectIsBest
      <4> QED BY <4>2 DEF Witnessed
    <3>4. NoPort \notin LinkPorts
      BY DEF NoPort, LinkPorts
    <3> HIDE DEF new, row
    <3> QED BY <3>1, <3>2, <3>3, <3>4, <2>3, <2>6
  <2> HIDE DEF new, row
  <2>7. Witnessed(new, seen, rows, k + 1)
    <3>1. \A i \in 1..2 :
          /\ OwnRows(rows, k + 1, i) # {} =>
                \E m \in OwnRows(rows, k + 1, i) : /\ \A j \in OwnRows(rows, k + 1, i) : j <= m
                                               /\ new.port[i] = rows[m].local
          /\ OwnRows(rows, k + 1, i) = {} /\ seen[i] # {} => new.port[i] = Direct(seen[i])
      <4> TAKE i \in 1..2
      <4>1. CASE i = row.at
        BY <4>1, <2>5
      <4>2. CASE i # row.at
        BY <4>2, <2>6 DEF Witnessed
      <4> QED BY <4>1, <4>2
    <3> QED BY <3>1, <2>3, <2>4 DEF Witnessed
  <2> QED BY <2>7 DEF new, row
<1> QED BY <1>3, <1>4

\* A link is drawn for what was observed and for nothing else, for any rows.
LEMMA LinkAnswer == AskLink => LinksAreWitnessed'
<1> SUFFICES ASSUME AskLink PROVE LinksAreWitnessed'
  OBVIOUS
<1>1. PICK seen \in [1..2 -> SUBSET LinkPorts], rows \in SeqOf(NeighborRows, MaxLen["link"]) :
          question' = [of |-> "link", seen |-> seen, rows |-> rows]
  <2>1. question' \in [of : {"link"}, seen : [1..2 -> SUBSET LinkPorts], rows : SeqOf(NeighborRows, MaxLen["link"])]
    BY DEF AskLink
  <2> QED BY <2>1
<1> DEFINE n == Len(rows)
           T == [port : [1..2 -> LinkPorts \cup {NoPort}], mutual : BOOLEAN, drawn : BOOLEAN]
<1>2. rows \in Seq(NeighborRows) /\ n \in Nat /\ rows \in [1..n -> NeighborRows] /\ DOMAIN rows = 1..n
  <2>1. MaxLen["link"] \in Nat
    BY QuestionsAssumption DEF ListQuestions
  <2> QED BY <2>1, ListOfUpTo
<1>3. PICK r : LinkRun(r, seen, rows)
  BY <1>2, LinkSteps
<1>4. /\ r \in [0..n -> T] /\ r[0] = MacLink(seen) /\ r[n] = BuildLink(seen, rows)
      /\ \A k \in 1..n : r[k] = WithNeighbor(r[k - 1], rows[k])
  BY <1>3 DEF LinkRun
<1> HIDE DEF n
<1> DEFINE Good == {k \in 0..n : Witnessed(r[k], seen, rows, k)}
<1>5. 0 \in Good
  <2>1. MacLink(seen).drawn <=> seen[1] # {} \/ seen[2] # {}
    BY DEF MacLink
  <2>2. MacLink(seen).mutual <=> seen[1] # {} /\ seen[2] # {}
    BY DEF MacLink
  <2>3. \A i \in 1..2 : seen[i] # {} => MacLink(seen).port[i] = Direct(seen[i])
    BY DEF MacLink
  <2>4. \A i \in 1..2 : OwnRows(rows, 0, i) = {}
    BY DEF OwnRows
  <2>5. Witnessed(MacLink(seen), seen, rows, 0)
    BY <2>1, <2>2, <2>3, <2>4 DEF Witnessed
  <2> QED BY <2>5, <1>4, <1>2
<1>6. ASSUME NEW k \in 0..(n - 1), k \in Good PROVE k + 1 \in Good
  <2>1. k + 1 \in 1..n /\ (k + 1) - 1 = k /\ k \in 0..n /\ k + 1 \in 0..n /\ k \in Nat
        /\ 1..(k + 1) \subseteq 1..n
    BY <1>2
  <2>2. r[k] \in T /\ r[k + 1] = WithNeighbor(r[k], rows[k + 1])
    BY <2>1, <1>4
  <2>3. Witnessed(r[k], seen, rows, k)
    BY <1>6
  <2> DEFINE first == [m \in 1..(k + 1) |-> rows[m]]
  <2>4. first \in [1..(k + 1) -> NeighborRows]
    BY <2>1, <1>2
  <2>5. \A m \in 1..(k + 1) : first[m] = rows[m]
    OBVIOUS
  <2>6. 1..k \subseteq 1..(k + 1) /\ k + 1 \in 1..(k + 1)
    BY <2>1
  <2> HIDE DEF first, T
  <2>7. \A i : OwnRows(first, k, i) = OwnRows(rows, k, i)
    BY <2>5, <2>6 DEF OwnRows
  <2>8. \A i : OwnRows(first, k + 1, i) = OwnRows(rows, k + 1, i)
    BY <2>5 DEF OwnRows
  <2>9. \A i : OwnRows(rows, k, i) \subseteq 1..(k + 1) /\ OwnRows(rows, k + 1, i) \subseteq 1..(k + 1)
    BY <2>6 DEF OwnRows
  <2>10. Witnessed(r[k], seen, first, k)
    BY <2>3, <2>5, <2>6, <2>7, <2>9 DEF Witnessed
  <2>11. Witnessed(WithNeighbor(r[k], first[k + 1]), seen, first, k + 1)
    BY <2>1, <2>2, <2>4, <2>10, OneRowWitnessed DEF T
  <2>12. Witnessed(r[k + 1], seen, rows, k + 1)
    <3>1. r[k + 1] = WithNeighbor(r[k], first[k + 1])
      BY <2>2, <2>5, <2>6
    <3> QED BY <3>1, <2>11, <2>5, <2>8, <2>9 DEF Witnessed
  <2> QED BY <2>1, <2>12
<1> HIDE DEF Good
<1>7. n \in Good
  <2>1. 0..n \subseteq Good
    BY <1>2, <1>5, <1>6, UpToInSet
  <2> QED BY <2>1, <1>2
<1>8. Witnessed(BuildLink(seen, rows), seen, rows, n)
  BY <1>7, <1>4 DEF Good
<1> DEFINE link == BuildLink(seen, rows)
           told == {m \in DOMAIN rows : rows[m].known}
           own(i) == {m \in told : rows[m].at = i}
<1>9. \A i \in 1..2 : own(i) = OwnRows(rows, n, i)
  BY <1>2 DEF OwnRows
<1>10. told # {} <=> \E m \in 1..n : rows[m].known
  BY <1>2
<1>11. seen[1] \cup seen[2] # {} <=> seen[1] # {} \/ seen[2] # {}
  OBVIOUS
<1>12. {} \notin {seen[1], seen[2]} <=> seen[1] # {} /\ seen[2] # {}
  OBVIOUS
<1> HIDE DEF link, T
<1>13. \A i \in 1..2 : own(i) = {} /\ seen[i] # {} =>
                      /\ link.port[i] \in seen[i]
                      /\ (seen[i] # {"po"}) =>
                            /\ link.port[i] # "po"
                            /\ \A q \in seen[i] \ {"po"} :
                                   LearntOn[link.port[i]] <= LearntOn[q]
  <2> TAKE i \in 1..2
  <2> HAVE own(i) = {} /\ seen[i] # {}
  <2>1. link.port[i] = Direct(seen[i])
    BY <1>8, <1>9 DEF Witnessed, link
  <2>2. seen[i] \in SUBSET LinkPorts /\ seen[i] # {}
    OBVIOUS
  <2> QED BY <2>1, <2>2, DirectIsBest
<1>14. \A i \in 1..2 : own(i) # {} =>
                      \E m \in own(i) : /\ \A k \in own(i) : k <= m
                                        /\ link.port[i] = rows[m].local
  BY <1>8, <1>9 DEF Witnessed, link
<1>15. /\ link.drawn <=> (told # {} \/ seen[1] \cup seen[2] # {})
       /\ link.mutual <=> (told # {} \/ {} \notin {seen[1], seen[2]})
  BY <1>8, <1>10, <1>11, <1>12 DEF Witnessed, link
<1>16. question'.seen = seen /\ question'.rows = rows
  BY <1>1
<1> HIDE DEF told
<1> QED BY <1>13, <1>14, <1>15, <1>16 DEF LinksAreWitnessed, link, told

-----------------------------------------------------------------------------
(* The links of a firewall.                                                *)

\* r gives the links of the first k sightings.
FirstOfRun(r, cands) ==
    /\ r \in [0..Len(cands) -> Seq([switch : {1, 2}, l3 : {FALSE}, port : {1, 2}])]
    /\ r[0] = <<>> /\ r[Len(cands)] = FirstOfEach(cands)
    /\ \A k \in 1..Len(cands) : r[k] = IF \E l \in ToSet(r[k - 1]) : l.switch = cands[k].switch THEN r[k - 1]
                       ELSE Append(r[k - 1], [switch |-> cands[k].switch, l3 |-> FALSE, port |-> cands[k].port])

\* Each switch is taken at its first sighting.
LEMMA FirstOfSteps ==
    ASSUME NEW cands \in Seq([switch : {1, 2}, physical : BOOLEAN, port : {1, 2}])
    PROVE  \E r : FirstOfRun(r, cands)
<1> DEFINE n == Len(cands)
           T == Seq([switch : {1, 2}, l3 : {FALSE}, port : {1, 2}])
           E == [switch : {1, 2}, physical : BOOLEAN, port : {1, 2}]
           op(t, e) == IF \E l \in ToSet(t) : l.switch = e.switch THEN t
                       ELSE Append(t, [switch |-> e.switch, l3 |-> FALSE, port |-> e.port])
           F == [p \in T \X E |-> op(p[1], p[2])]
           Fix(i) == i = [s \in SUBSET (DOMAIN cands) |->
                            IF s = {} THEN <<>> ELSE op(i[s \ {Max(s)}], cands[Max(s)])]
           it == CHOOSE i : Fix(i)
<1>1. n \in Nat /\ cands \in [1..n -> E] /\ DOMAIN cands = 1..n /\ <<>> \in T
  <2>1. cands \in Seq(E)
    OBVIOUS
  <2>2. <<>> \in T
    OBVIOUS
  <2> HIDE DEF E, T
  <2> QED BY <2>1, <2>2
<1>2. \A t \in T, e \in E : op(t, e) \in T /\ F[<<t, e>>] = op(t, e)

  <2> TAKE t \in T, e \in E
  <2>1. <<t, e>> \in T \X E
    OBVIOUS
  <2>2. F[<<t, e>>] = op(t, e)
    <3> HIDE DEF T, E, op
    <3> QED BY <2>1
  <2>3. [switch |-> e.switch, l3 |-> FALSE, port |-> e.port] \in [switch : {1, 2}, l3 : {FALSE}, port : {1, 2}]
    OBVIOUS
  <2>4. Append(t, [switch |-> e.switch, l3 |-> FALSE, port |-> e.port]) \in T
    BY <2>3
  <2> HIDE DEF T, F
  <2> QED BY <2>2, <2>4
<1>3. F \in [T \X E -> T]
  <2> HIDE DEF op, T, E
  <2> QED BY <1>2
<1>4. FirstOfEach(cands) = it[1..n]
  BY <1>1 DEF FirstOfEach, FoldLeft, MapThenFoldSet
<1> HIDE DEF n, T, E, F, op
<1>5. PICK g : FoldSolution(g, T, F, <<>>, n, cands)
  BY <1>1, <1>3, FoldHasSolution
<1>6. FoldStays(g, T, E, F, <<>>, n, cands) /\ g \in [SUBSET (1..n) -> T]
  BY <1>1, <1>5, SolutionStays
<1>7. Fix(g)
  BY <1>1, <1>2, <1>6 DEF FoldStays
<1> HIDE DEF Fix
<1>8. Fix(it)
  BY <1>7
<1> HIDE DEF it
<1>9. FoldLike(it, T, F, <<>>, n, cands)
  <2>1. \A s \in SUBSET (1..n) :
            it[s] = IF s = {} THEN <<>> ELSE op(it[s \ {Max(s)}], cands[Max(s)])
    BY <1>1, <1>8 DEF Fix
  <2>2. 1..0 = {} /\ {} \in SUBSET (1..n)
    OBVIOUS
  <2>3. it[1..0] = <<>>
    BY <2>1, <2>2
  <2>4. \A s \in SUBSET (1..n) : s # {} => cands[Max(s)] \in E
    BY <1>6 DEF FoldStays
  <2> QED BY <1>2, <2>1, <2>3, <2>4 DEF FoldLike
<1>10. FoldGives(it[1..n], T, F, <<>>, n, cands)
  BY <1>1, <1>3, <1>9, FoldHasSteps
<1>11. PICK r : FoldSteps(r, T, F, <<>>, n, cands) /\ r[n] = FirstOfEach(cands)
  BY <1>10, <1>4 DEF FoldGives
<1>12. r \in [0..n -> T] /\ r[0] = <<>> /\ \A k \in 1..n : r[k] = F[<<r[k - 1], cands[k]>>]
  BY <1>11 DEF FoldSteps
<1>13. \A k \in 1..n : r[k] = op(r[k - 1], cands[k])
  <2> TAKE k \in 1..n
  <2>1. r[k - 1] \in T /\ cands[k] \in E
    BY <1>1, <1>12
  <2> QED BY <2>1, <1>12, <1>2
<1> QED BY <1>11, <1>12, <1>13 DEF FirstOfRun, n, T, op

\* What a switch may tell of the MAC of a firewall, and the links made of it.
Sighting == [switch : {1, 2}, physical : BOOLEAN, port : {1, 2}]

\* A link over a port.
DirectLink == [switch : {1, 2}, l3 : {FALSE}, port : {1, 2}]

\* out has one link for each switch of the first k sightings.
OneForEach(out, cands, k) ==
    /\ \A i, j \in DOMAIN out : out[i].switch = out[j].switch => i = j
    /\ \A l \in ToSet(out) : /\ ~l.l3
                             /\ \E m \in 1..k : cands[m].switch = l.switch /\ cands[m].port = l.port
    /\ \A m \in 1..k : \E l \in ToSet(out) : l.switch = cands[m].switch

\* FirstOfEach gives one link for each switch.
LEMMA FirstIsOne ==
    ASSUME NEW cands \in Seq(Sighting)
    PROVE  FirstOfEach(cands) \in Seq(DirectLink) /\ OneForEach(FirstOfEach(cands), cands, Len(cands))
<1>1. PICK r : FirstOfRun(r, cands)
  BY FirstOfSteps DEF Sighting
<1> DEFINE n == Len(cands)
<1>2. /\ r \in [0..n -> Seq(DirectLink)] /\ r[0] = <<>> /\ r[n] = FirstOfEach(cands)
      /\ \A k \in 1..n : r[k] = IF \E l \in ToSet(r[k - 1]) : l.switch = cands[k].switch THEN r[k - 1]
                       ELSE Append(r[k - 1], [switch |-> cands[k].switch, l3 |-> FALSE, port |-> cands[k].port])
  BY <1>1 DEF FirstOfRun, DirectLink
<1>3. n \in Nat /\ \A k \in 1..n : cands[k] \in Sighting
  OBVIOUS
<1> HIDE DEF n
<1> DEFINE Good == {k \in 0..n : OneForEach(r[k], cands, k)}
<1>4. 0 \in Good
  <2>1. OneForEach(<<>>, cands, 0)
    BY DEF OneForEach, ToSet
  <2> QED BY <2>1, <1>2, <1>3
<1>5. ASSUME NEW k \in 0..(n - 1), k \in Good PROVE k + 1 \in Good
  <2>1. k + 1 \in 1..n /\ (k + 1) - 1 = k /\ k \in 0..n /\ k + 1 \in 0..n /\ k \in Nat
        /\ 1..(k + 1) = 1..k \cup {k + 1}
    BY <1>3
  <2> DEFINE c == cands[k + 1]
             x == [switch |-> c.switch, l3 |-> FALSE, port |-> c.port]
  <2>2. r[k] \in Seq(DirectLink) /\ OneForEach(r[k], cands, k) /\ c \in Sighting
    BY <2>1, <1>2, <1>3, <1>5
  <2>3. CASE \E l \in ToSet(r[k]) : l.switch = c.switch
    <3>1. r[k + 1] = r[k]
      BY <2>1, <2>3, <1>2
    <3>2. OneForEach(r[k], cands, k + 1)
      BY <2>1, <2>2, <2>3 DEF OneForEach
    <3> QED BY <3>1, <3>2, <2>1
  <2>4. CASE ~ \E l \in ToSet(r[k]) : l.switch = c.switch
    <3>1. r[k + 1] = Append(r[k], x)
      <4>1. r[k + 1] = IF \E l \in ToSet(r[k]) : l.switch = c.switch THEN r[k] ELSE Append(r[k], x)
        BY <2>1, <1>2
      <4> QED BY <4>1, <2>4
    <3>2. x \in DirectLink /\ x.switch = c.switch /\ ~x.l3 /\ x.port = c.port
      BY <2>2 DEF Sighting, DirectLink
    <3> HIDE DEF x, c
    <3>3. Appended(r[k], x, r[k + 1])
      BY <3>1, <3>2, <2>2, AppendIs
    <3>4. \A i, j \in DOMAIN r[k + 1] : r[k + 1][i].switch = r[k + 1][j].switch => i = j
      <4>1. \A i \in DOMAIN r[k] : r[k + 1][i] = r[k][i] /\ r[k][i] \in ToSet(r[k])
        BY <3>3 DEF Appended, ToSet
      <4>2. \A i \in DOMAIN r[k + 1] : i \in DOMAIN r[k] \/ i = Len(r[k]) + 1
        BY <3>3 DEF Appended
      <4>3. r[k + 1][Len(r[k]) + 1] = x
        BY <3>3 DEF Appended
      <4>4. \A i, j \in DOMAIN r[k] : r[k][i].switch = r[k][j].switch => i = j
        BY <2>2 DEF OneForEach
      <4>5. \A i \in DOMAIN r[k] : r[k][i].switch # x.switch
        BY <4>1, <2>4, <3>2
      <4> QED BY <4>1, <4>2, <4>3, <4>4, <4>5
    <3>5. \A l \in ToSet(r[k + 1]) : /\ ~l.l3
                             /\ \E m \in 1..(k + 1) : cands[m].switch = l.switch /\ cands[m].port = l.port
      <4> TAKE l \in ToSet(r[k + 1])
      <4>1. l \in ToSet(r[k]) \/ l = x
        BY <3>3 DEF Appended
      <4>2. CASE l \in ToSet(r[k])
        BY <4>2, <2>1, <2>2 DEF OneForEach
      <4>3. CASE l = x
        BY <4>3, <3>2, <2>1 DEF c
      <4> QED BY <4>1, <4>2, <4>3
    <3>6. \A m \in 1..(k + 1) : \E l \in ToSet(r[k + 1]) : l.switch = cands[m].switch
      <4> TAKE m \in 1..(k + 1)
      <4>1. CASE m \in 1..k
        BY <4>1, <3>3, <2>2 DEF OneForEach, Appended
      <4>2. CASE m = k + 1
        BY <4>2, <3>3, <3>2 DEF Appended, c
      <4> QED BY <4>1, <4>2, <2>1
    <3>7. OneForEach(r[k + 1], cands, k + 1)
      BY <3>4, <3>5, <3>6 DEF OneForEach
    <3> QED BY <3>7, <2>1
  <2> QED BY <2>3, <2>4
<1> HIDE DEF Good
<1>6. n \in Good
  <2>1. 0..n \subseteq Good
    BY <1>3, <1>4, <1>5, UpToInSet
  <2> QED BY <2>1, <1>3
<1> QED BY <1>6, <1>2, <1>3 DEF Good, n

\* A firewall is linked with a switch once, for any number of sightings.
LEMMA FirewallAnswer == AskFirewall => FirewallIsLinkedOnce'
<1> SUFFICES ASSUME AskFirewall PROVE FirewallIsLinkedOnce'
  OBVIOUS
<1>1. PICK routed \in SUBSET {1, 2}, cands \in SeqOf(Sighting, MaxLen["firewall"]) :
          question' = [of |-> "firewall", routed |-> routed, cands |-> cands]
  <2>1. question' \in [of : {"firewall"}, routed : SUBSET {1, 2},
                    cands : SeqOf(Sighting, MaxLen["firewall"])]
    BY DEF AskFirewall, Sighting
  <2> QED BY <2>1
<1>2. cands \in Seq(Sighting) /\ DOMAIN cands = 1..Len(cands) /\ Len(cands) \in Nat
  <2>1. MaxLen["firewall"] \in Nat
    BY QuestionsAssumption DEF ListQuestions
  <2> QED BY <2>1, ListOfUpTo
<1> DEFINE cand == ToSet(cands)
           direct == {c \in cand : c.physical}
           near == FirewallSightings(cands)
           first == FirstOfEach(near)
           linked == {l.switch : l \in ToSet(first)}
           rest == routed \ linked
           more == [n \in 1..Cardinality(rest) |-> [switch |-> SetToSeq(rest)[n], l3 |-> TRUE, port |-> 0]]
           links == FirewallLinks(cands, routed)
           AnyLink == [switch : {1, 2}, l3 : BOOLEAN, port : {0, 1, 2}]
<1>3. links = first \o more
  BY DEF FirewallLinks
<1>4. near \in Seq(Sighting) /\ ToSet(near) \subseteq cand
      /\ (direct # {} => ToSet(near) = direct) /\ (direct = {} => ToSet(near) = cand)
  <2> DEFINE phys == Filtered(cands, direct)
  <2>1. phys \in Seq(Sighting) /\ Len(phys) \in Nat /\ DOMAIN phys = 1..Len(phys)
    BY <1>2, FilterSelects
  <2>2. ToSet(phys) = {cands[m] : m \in {k \in DOMAIN cands : cands[k] \in direct}}
    BY <1>2, FilterCounts
  <2>3. ToSet(phys) = direct
    BY <2>2 DEF ToSet
  <2>4. near = IF phys # <<>> THEN phys ELSE cands
    BY DEF FirewallSightings
  <2> HIDE DEF phys, near
  <2>5. phys = <<>> <=> direct = {}
    <3> HIDE DEF direct
    <3> QED BY <2>1, <2>3 DEF ToSet
  <2>6. direct \subseteq cand
    OBVIOUS
  <2> HIDE DEF direct, cand
  <2> QED BY <2>1, <2>3, <2>4, <2>5, <2>6, <1>2 DEF cand
<1>5. first \in Seq(DirectLink) /\ OneForEach(first, near, Len(near))
  <2> HIDE DEF near
  <2> QED BY <1>4, FirstIsOne
<1> HIDE DEF near, first
<1>6. linked = {c.switch : c \in ToSet(near)} /\ linked \subseteq {1, 2}
      /\ \A l \in ToSet(first) : ~l.l3 /\ \E c \in ToSet(near) : c.switch = l.switch /\ c.port = l.port
  <2>1. \A m \in 1..Len(near) : near[m] \in ToSet(near) /\ near[m] \in Sighting
    BY <1>4 DEF ToSet
  <2>5. \A c \in ToSet(near) : \E m \in 1..Len(near) : near[m] = c
    BY <1>4 DEF ToSet
  <2>2. \A l \in ToSet(first) : ~l.l3 /\ \E c \in ToSet(near) : c.switch = l.switch /\ c.port = l.port
    BY <2>1, <1>5 DEF OneForEach
  <2>3. \A c \in ToSet(near) : \E l \in ToSet(first) : l.switch = c.switch
    BY <2>5, <1>5 DEF OneForEach
  <2>4. \A c \in ToSet(near) : c.switch \in {1, 2}
    BY <2>1, <2>5 DEF Sighting
  <2> QED BY <2>2, <2>3, <2>4
<1>7. /\ IsFiniteSet(rest) /\ Cardinality(rest) \in Nat
      /\ SetToSeq(rest) \in [1..Cardinality(rest) -> rest]
      /\ \A i, j \in 1..Cardinality(rest) : SetToSeq(rest)[i] = SetToSeq(rest)[j] => i = j
      /\ \A x \in rest : \E i \in 1..Cardinality(rest) : SetToSeq(rest)[i] = x
  <2>1. IsFiniteSet({1, 2})
    <3>1. IsFiniteSet({1}) /\ {1, 2} = {1} \cup {2}
      BY FS_Singleton
    <3> QED BY <3>1, FS_AddElement
  <2>2. rest \subseteq {1, 2}
    OBVIOUS
  <2> HIDE DEF rest
  <2>3. IsFiniteSet(rest)
    BY <2>1, <2>2, FS_Subset
  <2> QED BY <2>3, ListOfSet
<1>8. /\ more \in Seq(AnyLink) /\ Len(more) = Cardinality(rest) /\ DOMAIN more = 1..Cardinality(rest)
      /\ \A i \in DOMAIN more : more[i].switch \in rest /\ more[i].l3
      /\ \A i, j \in DOMAIN more : more[i].switch = more[j].switch => i = j
      /\ \A x \in rest : \E i \in DOMAIN more : more[i].switch = x
  <2>1. \A n \in 1..Cardinality(rest) : SetToSeq(rest)[n] \in {1, 2}
    BY <1>7
  <2>2. more \in [1..Cardinality(rest) -> AnyLink]
    <3> HIDE DEF rest
    <3> QED BY <2>1
  <2> HIDE DEF AnyLink
  <2>3. more \in Seq(AnyLink) /\ Len(more) = Cardinality(rest)
    <3> HIDE DEF more, rest
    <3> QED BY <2>2, <1>7, SeqDef
  <2>4. DOMAIN more = 1..Cardinality(rest)
    OBVIOUS
  <2>5. \A i \in DOMAIN more : more[i].switch = SetToSeq(rest)[i] /\ more[i].l3
    OBVIOUS
  <2> HIDE DEF more, rest
  <2> QED BY <2>3, <2>4, <2>5, <1>7
<1>9. first \in Seq(AnyLink)
  <2>1. DirectLink \subseteq AnyLink
    BY DEF DirectLink
  <2> HIDE DEF AnyLink
  <2> QED BY <2>1, <1>5, SeqMonotonic
<1> HIDE DEF more, links, rest, AnyLink
<1>10. Joined(first, more, links)
  BY <1>3, <1>8, <1>9, JoinIs
<1>11. \A i \in DOMAIN first : first[i] \in ToSet(first)
  BY <1>9 DEF ToSet
<1>12. \A i \in DOMAIN more : more[i] \in ToSet(more)
  BY <1>8 DEF ToSet
<1>13. \A l \in ToSet(more) : \E i \in DOMAIN more : l = more[i]
  BY <1>8 DEF ToSet
<1>14. \A i, j \in DOMAIN links : links[i].switch = links[j].switch => i = j
  <2> DEFINE s(i) == links[i].switch
  <2>1. \A i \in DOMAIN first : first[i].switch \in linked
    BY <1>11
  <2>2. \A i \in DOMAIN more : more[i].switch \notin linked
    BY <1>8 DEF rest
  <2>3. \A i, j \in DOMAIN first : first[i].switch = first[j].switch => i = j
    BY <1>5 DEF OneForEach
  <2> SUFFICES ASSUME NEW i \in DOMAIN links, NEW j \in DOMAIN links, links[i].switch = links[j].switch
               PROVE  i = j
    OBVIOUS
  <2> HIDE DEF linked
  <2>4. /\ i \in DOMAIN first \/ (i - Len(first) \in DOMAIN more /\ links[i] = more[i - Len(first)])
        /\ j \in DOMAIN first \/ (j - Len(first) \in DOMAIN more /\ links[j] = more[j - Len(first)])
        /\ (i \in DOMAIN first => links[i] = first[i]) /\ (j \in DOMAIN first => links[j] = first[j])
    BY <1>10 DEF Joined
  <2>5. CASE i \in DOMAIN first /\ j \in DOMAIN first
    BY <2>3, <2>4, <2>5
  <2>6. CASE i \notin DOMAIN first /\ j \notin DOMAIN first
    <3>1. i - Len(first) = j - Len(first)
      BY <2>4, <2>6, <1>8
    <3>2. i \in Int /\ j \in Int /\ Len(first) \in Int
      BY <1>10 DEF Joined
    <3> QED BY <3>1, <3>2
  <2> QED BY <2>1, <2>2, <2>4, <2>5, <2>6
<1>15. \A l \in ToSet(links) :
                 IF l.l3
                 THEN /\ l.switch \in routed
                      /\ \A c \in cand : c.switch = l.switch => ~c.physical /\ direct # {}
                 ELSE \E c \in cand : /\ c.switch = l.switch /\ c.port = l.port
                                      /\ direct # {} => c.physical
  <2> TAKE l \in ToSet(links)
  <2>1. l \in ToSet(first) \/ l \in ToSet(more)
    BY <1>10 DEF Joined
  <2>2. CASE l \in ToSet(first)
    BY <2>2, <1>6, <1>4
  <2>3. CASE l \in ToSet(more)
    <3>1. l.l3 /\ l.switch \in routed /\ l.switch \notin linked
      BY <2>3, <1>8, <1>13 DEF rest
    <3>2. \A c \in ToSet(near) : c.switch # l.switch
      BY <3>1, <1>6
    <3> QED BY <3>1, <3>2, <1>4
  <2> QED BY <2>1, <2>2, <2>3
<1>16. \A s \in routed \cup {c.switch : c \in direct} : \E l \in ToSet(links) : l.switch = s
  <2> TAKE s \in routed \cup {c.switch : c \in direct}
  <2>1. CASE s \in linked
    BY <2>1, <1>10 DEF Joined
  <2>2. CASE s \notin linked
    <3>1. s \in rest
      BY <2>2, <1>4, <1>6 DEF rest
    <3>2. PICK i \in DOMAIN more : more[i].switch = s
      BY <3>1, <1>8
    <3> QED BY <3>2, <1>10, <1>12 DEF Joined
  <2> QED BY <2>1, <2>2
<1>17. question'.cands = cands /\ question'.routed = routed
  BY <1>1
<1> HIDE DEF cand, direct, linked
<1> QED BY <1>14, <1>15, <1>16, <1>17 DEF FirewallIsLinkedOnce, links, cand, direct

-----------------------------------------------------------------------------
(* The bands that the editor proposes.                                     *)

\* r gives the proposals after the first k bands.
SuggestRun(r, out, nets, source) ==
    /\ r \in [0..Len(nets) -> Seq([net : SuggestNets, source : {"svi", "vlan", "arp"}])]
    /\ r[0] = out /\ r[Len(nets)] = SuggestAll(out, nets, source)
    /\ \A k \in 1..Len(nets) : r[k] = Suggest(r[k - 1], nets[k], source)

\* ToldBands are proposed one after another.
LEMMA SuggestSteps ==
    ASSUME NEW out \in Seq([net : SuggestNets, source : {"svi", "vlan", "arp"}]), NEW nets \in Seq(SuggestNets),
           NEW source \in {"svi", "vlan", "arp"}
    PROVE  \E r : SuggestRun(r, out, nets, source)
<1> DEFINE n == Len(nets)
           T == Seq([net : SuggestNets, source : {"svi", "vlan", "arp"}])
           E == SuggestNets
           op(t, e) == Suggest(t, e, source)
           F == [p \in T \X E |-> op(p[1], p[2])]
           Fix(i) == i = [s \in SUBSET (DOMAIN nets) |->
                            IF s = {} THEN out ELSE op(i[s \ {Max(s)}], nets[Max(s)])]
           it == CHOOSE i : Fix(i)
<1>1. n \in Nat /\ nets \in [1..n -> E] /\ DOMAIN nets = 1..n /\ out \in T
  <2>1. nets \in Seq(E)
    OBVIOUS
  <2>2. out \in T
    OBVIOUS
  <2> HIDE DEF E, T
  <2> QED BY <2>1, <2>2
<1>2. \A t \in T, e \in E : op(t, e) \in T /\ F[<<t, e>>] = op(t, e)

  <2> TAKE t \in T, e \in E
  <2>1. <<t, e>> \in T \X E
    OBVIOUS
  <2>2. F[<<t, e>>] = op(t, e)
    <3> HIDE DEF T, E, op
    <3> QED BY <2>1
  <2>3. [net |-> e, source |-> source] \in [net : SuggestNets, source : {"svi", "vlan", "arp"}]
    OBVIOUS
  <2>4. Append(t, [net |-> e, source |-> source]) \in T
    BY <2>3
  <2> HIDE DEF T, F
  <2> QED BY <2>2, <2>4 DEF Suggest
<1>3. F \in [T \X E -> T]
  <2> HIDE DEF op, T, E
  <2> QED BY <1>2
<1>4. SuggestAll(out, nets, source) = it[1..n]
  BY <1>1 DEF SuggestAll, FoldLeft, MapThenFoldSet
<1> HIDE DEF n, T, E, F, op
<1>5. PICK g : FoldSolution(g, T, F, out, n, nets)
  BY <1>1, <1>3, FoldHasSolution
<1>6. FoldStays(g, T, E, F, out, n, nets) /\ g \in [SUBSET (1..n) -> T]
  BY <1>1, <1>5, SolutionStays
<1>7. Fix(g)
  BY <1>1, <1>2, <1>6 DEF FoldStays
<1> HIDE DEF Fix
<1>8. Fix(it)
  BY <1>7
<1> HIDE DEF it
<1>9. FoldLike(it, T, F, out, n, nets)
  <2>1. \A s \in SUBSET (1..n) :
            it[s] = IF s = {} THEN out ELSE op(it[s \ {Max(s)}], nets[Max(s)])
    BY <1>1, <1>8 DEF Fix
  <2>2. 1..0 = {} /\ {} \in SUBSET (1..n)
    OBVIOUS
  <2>3. it[1..0] = out
    BY <2>1, <2>2
  <2>4. \A s \in SUBSET (1..n) : s # {} => nets[Max(s)] \in E
    BY <1>6 DEF FoldStays
  <2> QED BY <1>2, <2>1, <2>3, <2>4 DEF FoldLike
<1>10. FoldGives(it[1..n], T, F, out, n, nets)
  BY <1>1, <1>3, <1>9, FoldHasSteps
<1>11. PICK r : FoldSteps(r, T, F, out, n, nets) /\ r[n] = SuggestAll(out, nets, source)
  BY <1>10, <1>4 DEF FoldGives
<1>12. r \in [0..n -> T] /\ r[0] = out /\ \A k \in 1..n : r[k] = F[<<r[k - 1], nets[k]>>]
  BY <1>11 DEF FoldSteps
<1>13. \A k \in 1..n : r[k] = op(r[k - 1], nets[k])
  <2> TAKE k \in 1..n
  <2>1. r[k - 1] \in T /\ nets[k] \in E
    BY <1>1, <1>12
  <2> QED BY <2>1, <1>12, <1>2
<1> QED BY <1>11, <1>12, <1>13 DEF SuggestRun, n, T, op

\* A band that the editor proposes, and where it has it from.
Proposal == [net : SuggestNets, source : {"svi", "vlan", "arp"}]

\* all has the proposals of out and one for each of the first k bands.
Proposed(all, out, nets, k, source) ==
    /\ (\A i, j \in DOMAIN out : out[i].net = out[j].net => i = j) =>
          \A i, j \in DOMAIN all : all[i].net = all[j].net => i = j
    /\ ToSet(out) \subseteq ToSet(all)
    /\ \A o \in ToSet(all) : \/ o \in ToSet(out)
                             \/ /\ o.source = source /\ \E m \in 1..k : nets[m] = o.net
                                /\ \A p \in ToSet(out) : p.net # o.net
    /\ \A m \in 1..k : \E o \in ToSet(all) : o.net = nets[m]

\* SuggestAll proposes each band once.
LEMMA SuggestIs ==
    ASSUME NEW out \in Seq(Proposal), NEW nets \in Seq(SuggestNets),
           NEW source \in {"svi", "vlan", "arp"}
    PROVE  /\ SuggestAll(out, nets, source) \in Seq(Proposal)
           /\ Proposed(SuggestAll(out, nets, source), out, nets, Len(nets), source)
<1>1. PICK r : SuggestRun(r, out, nets, source)
  BY SuggestSteps DEF Proposal
<1> DEFINE n == Len(nets)
<1>2. /\ r \in [0..n -> Seq(Proposal)] /\ r[0] = out /\ r[n] = SuggestAll(out, nets, source)
      /\ \A k \in 1..n : r[k] = Suggest(r[k - 1], nets[k], source)
  BY <1>1 DEF SuggestRun, Proposal
<1>3. n \in Nat /\ \A k \in 1..n : nets[k] \in SuggestNets
  OBVIOUS
<1> HIDE DEF n
<1> DEFINE Good == {k \in 0..n : Proposed(r[k], out, nets, k, source)}
<1>4. 0 \in Good
  <2>1. Proposed(out, out, nets, 0, source)
    BY DEF Proposed
  <2> QED BY <2>1, <1>2, <1>3
<1>5. ASSUME NEW k \in 0..(n - 1), k \in Good PROVE k + 1 \in Good
  <2>1. k + 1 \in 1..n /\ (k + 1) - 1 = k /\ k \in 0..n /\ k + 1 \in 0..n /\ k \in Nat
        /\ 1..(k + 1) = 1..k \cup {k + 1}
    BY <1>3
  <2> DEFINE c == nets[k + 1]
             x == [net |-> c, source |-> source]
  <2>2. r[k] \in Seq(Proposal) /\ Proposed(r[k], out, nets, k, source) /\ c \in SuggestNets
    BY <2>1, <1>2, <1>3, <1>5
  <2>0. r[k + 1] = IF \E o \in ToSet(r[k]) : o.net = c THEN r[k] ELSE Append(r[k], x)
    <3>1. r[k + 1] = Suggest(r[k], c, source)
      BY <2>1, <1>2
    <3> QED BY <3>1 DEF Suggest
  <2>3. CASE \E l \in ToSet(r[k]) : l.net = c
    <3>1. r[k + 1] = r[k]
      BY <2>0, <2>3
    <3>2. Proposed(r[k], out, nets, k + 1, source)
      BY <2>1, <2>2, <2>3 DEF Proposed
    <3> QED BY <3>1, <3>2, <2>1
  <2>4. CASE ~ \E l \in ToSet(r[k]) : l.net = c
    <3>1. r[k + 1] = Append(r[k], x)
      BY <2>0, <2>4
    <3>2. x \in Proposal /\ x.net = c /\ x.source = source
      BY <2>2 DEF Proposal
    <3> HIDE DEF x, c
    <3>3. Appended(r[k], x, r[k + 1])
      BY <3>1, <3>2, <2>2, AppendIs
    <3>4. (\A i, j \in DOMAIN r[k] : r[k][i].net = r[k][j].net => i = j)
          => \A i, j \in DOMAIN r[k + 1] : r[k + 1][i].net = r[k + 1][j].net => i = j
      <4>1. \A i \in DOMAIN r[k] : r[k + 1][i] = r[k][i] /\ r[k][i] \in ToSet(r[k])
        BY <3>3 DEF Appended, ToSet
      <4>2. \A i \in DOMAIN r[k + 1] : i \in DOMAIN r[k] \/ i = Len(r[k]) + 1
        BY <3>3 DEF Appended
      <4>3. r[k + 1][Len(r[k]) + 1] = x
        BY <3>3 DEF Appended
      <4>5. \A i \in DOMAIN r[k] : r[k][i].net # x.net
        BY <4>1, <2>4, <3>2
      <4> QED BY <4>1, <4>2, <4>3, <4>5
    <3>5. \A o \in ToSet(r[k + 1]) : \/ o \in ToSet(out)
                             \/ /\ o.source = source /\ \E m \in 1..(k + 1) : nets[m] = o.net
                                /\ \A p \in ToSet(out) : p.net # o.net
      <4> TAKE o \in ToSet(r[k + 1])
      <4>1. o \in ToSet(r[k]) \/ o = x
        BY <3>3 DEF Appended
      <4>2. CASE o \in ToSet(r[k])
        BY <4>2, <2>1, <2>2 DEF Proposed
      <4>3. CASE o = x
        <5>1. \A p \in ToSet(out) : p.net # x.net
          BY <2>4, <2>2, <3>2 DEF Proposed
        <5> QED BY <5>1, <4>3, <3>2, <2>1 DEF c
      <4> QED BY <4>1, <4>2, <4>3
    <3>6. \A m \in 1..(k + 1) : \E l \in ToSet(r[k + 1]) : l.net = nets[m]
      <4> TAKE m \in 1..(k + 1)
      <4>1. CASE m \in 1..k
        BY <4>1, <3>3, <2>2 DEF Proposed, Appended
      <4>2. CASE m = k + 1
        BY <4>2, <3>3, <3>2 DEF Appended, c
      <4> QED BY <4>1, <4>2, <2>1
    <3>8. ToSet(out) \subseteq ToSet(r[k + 1])
      BY <3>3, <2>2 DEF Proposed, Appended
    <3>7. Proposed(r[k + 1], out, nets, k + 1, source)
      BY <3>4, <3>5, <3>6, <3>8, <2>2 DEF Proposed
    <3> QED BY <3>7, <2>1
  <2> QED BY <2>3, <2>4
<1> HIDE DEF Good
<1>6. n \in Good
  <2>1. 0..n \subseteq Good
    BY <1>3, <1>4, <1>5, UpToInSet
  <2> QED BY <2>1, <1>3
<1> QED BY <1>6, <1>2, <1>3 DEF Good, n

\* Each band is proposed once, from its surest source, for any rows.
LEMMA SuggestAnswer == AskSuggest => BandsHaveOneSource'
<1> SUFFICES ASSUME AskSuggest PROVE BandsHaveOneSource'
  OBVIOUS
<1> DEFINE Svi == [vlan : {0, 1}, net : {"n1", "n2"}]
<1>1. PICK own \in SeqOf(Svi, MaxLen["suggest"]), other \in SeqOf(Svi, MaxLen["suggest"]), carries \in BOOLEAN,
           arp \in SUBSET SuggestNets :
          question' = [of |-> "suggest", own |-> own, other |-> other,
                       carries |-> carries, arp |-> arp]
  <2>1. question' \in [of : {"suggest"}, own : SviLists, other : SviLists,
                      carries : BOOLEAN, arp : SUBSET SuggestNets]
    BY DEF AskSuggest
  <2>2. SviLists \subseteq SeqOf(Svi, MaxLen["suggest"])
    BY DEF SviLists
  <2> HIDE DEF Svi
  <2> QED BY <2>1, <2>2
<1>2. /\ own \in Seq(Svi) /\ DOMAIN own = 1..Len(own) /\ Len(own) \in Nat
      /\ other \in Seq(Svi) /\ own \in [1..Len(own) -> Svi]
  <2> HIDE DEF Svi
  <2>1. MaxLen["suggest"] \in Nat
    BY QuestionsAssumption DEF ListQuestions
  <2> QED BY <2>1, ListOfUpTo
<1> DEFINE nets == [k \in DOMAIN own |-> own[k].net]
           both == own \o other
           given == IF carries THEN InheritedNets(both) ELSE <<>>
           svis == SuggestAll(<<>>, nets, "svi")
           vlans == SuggestAll(svis, given, "vlan")
           out == SuggestAll(vlans, SetToSeq(arp), "arp")
           ownNets == {s.net : s \in ToSet(own)}
           carried == {s.net : s \in {t \in ToSet(both) : t.vlan = 1}}
<1>3. out = SubnetSuggest(own, other, carries, arp)
  BY DEF SubnetSuggest
<1>4. /\ nets \in Seq(SuggestNets) /\ DOMAIN nets = 1..Len(nets)
      /\ {nets[m] : m \in 1..Len(nets)} = ownNets
  <2>1. nets \in [1..Len(own) -> SuggestNets] /\ DOMAIN nets = 1..Len(own)
    BY <1>2 DEF SuggestNets
  <2>2. {nets[m] : m \in 1..Len(own)} = ownNets
    BY <1>2 DEF ToSet
  <2> HIDE DEF nets
  <2>3. nets \in Seq(SuggestNets) /\ Len(nets) = Len(own)
    BY <2>1, <1>2, SeqDef
  <2> HIDE DEF ownNets
  <2> QED BY <2>1, <2>2, <2>3
<1>5. /\ given \in Seq(SuggestNets) /\ \A m \in 1..Len(given) : given[m] \in carried
      /\ given # <<>> => carries
      /\ carries /\ carried # {} => 1 \in 1..Len(given)
  <2> DEFINE S == {s \in ToSet(both) : s.vlan = 1}
             of == Filtered(both, S)
  <2>1. both \in Seq(Svi)
    <3> HIDE DEF Svi
    <3> QED BY <1>2
  <2>2. ToSet(both) \subseteq Svi
    <3> HIDE DEF both, Svi
    <3> QED BY <2>1 DEF ToSet
  <2> HIDE DEF both
  <2>3. of \in Seq(Svi) /\ Len(of) \in Nat /\ ToSet(of) = {both[m] : m \in {k \in DOMAIN both : both[k] \in S}}
    <3> HIDE DEF Svi, S
    <3>1. of \in Seq(Svi)
      BY <2>1, FilterSelects
    <3>2. ToSet(of) = {both[m] : m \in {k \in DOMAIN both : both[k] \in S}}
      BY <2>1, FilterCounts
    <3> HIDE DEF of
    <3> QED BY <3>1, <3>2
  <2>4. ToSet(of) = S
    <3>1. {both[m] : m \in {k \in DOMAIN both : both[k] \in S}} = S
      BY DEF ToSet
    <3> HIDE DEF S, of
    <3> QED BY <2>3, <3>1
  <2>5. InheritedNets(both) = IF of = <<>> THEN <<>> ELSE <<Head(of).net>>
    BY DEF InheritedNets
  <2> HIDE DEF of
  <2>6. of # <<>> => Head(of) \in S /\ Head(of).net \in carried /\ Head(of).net \in SuggestNets
    <3> SUFFICES ASSUME of # <<>>
                 PROVE  Head(of) \in S /\ Head(of).net \in carried /\ Head(of).net \in SuggestNets
      OBVIOUS
    <3>1. 1 \in DOMAIN of /\ Head(of) = of[1]
      BY <2>3
    <3>2. Head(of) \in S
      BY <3>1, <2>4 DEF ToSet
    <3> QED BY <3>2, <2>2 DEF SuggestNets
  <2>7. carried # {} => of # <<>>
    <3> HIDE DEF Svi
    <3> QED BY <2>4, <2>3 DEF ToSet
  <2> HIDE DEF S, carried
  <2>8. CASE carries /\ of # <<>>
    <3>1. given = <<Head(of).net>>
      BY <2>5, <2>8
    <3> HIDE DEF given
    <3> QED BY <2>6, <2>8, <3>1
  <2>9. CASE ~(carries /\ of # <<>>)
    <3>1. given = <<>>
      BY <2>5, <2>9
    <3> HIDE DEF given
    <3> QED BY <2>7, <2>9, <3>1
  <2> QED BY <2>8, <2>9
<1>6. /\ SetToSeq(arp) \in Seq(arp) /\ SetToSeq(arp) \in Seq(SuggestNets)
      /\ Len(SetToSeq(arp)) \in Nat /\ ToSet(SetToSeq(arp)) = arp
      /\ DOMAIN SetToSeq(arp) = 1..Len(SetToSeq(arp))
  <2>1. IsFiniteSet({"n1", "n2", "n3"})
    <3>1. IsFiniteSet({"n1"}) /\ {"n1", "n2"} = {"n1"} \cup {"n2"}
          /\ {"n1", "n2", "n3"} = {"n1", "n2"} \cup {"n3"}
      BY FS_Singleton
    <3>2. IsFiniteSet({"n1", "n2"})
      BY <3>1, FS_AddElement
    <3> QED BY <3>1, <3>2, FS_AddElement
  <2>2. IsFiniteSet(arp)
    BY <2>1, FS_Subset DEF SuggestNets
  <2>3. SetToSeq(arp) \in Seq(arp) /\ ToSet(SetToSeq(arp)) = arp
    BY <2>2, ListOfSet
  <2>4. SetToSeq(arp) \in Seq(SuggestNets)
    BY <2>3, SeqMonotonic
  <2> QED BY <2>3, <2>4
<1> HIDE DEF nets, given
<1>7. <<>> \in Seq(Proposal) /\ svis \in Seq(Proposal) /\ Proposed(svis, <<>>, nets, Len(nets), "svi")
  <2>1. <<>> \in Seq(Proposal)
    OBVIOUS
  <2> QED BY <2>1, <1>4, SuggestIs
<1> HIDE DEF svis
<1>8. vlans \in Seq(Proposal) /\ Proposed(vlans, svis, given, Len(given), "vlan")
  BY <1>5, <1>7, SuggestIs
<1> HIDE DEF vlans
<1>9. out \in Seq(Proposal) /\ Proposed(out, vlans, SetToSeq(arp), Len(SetToSeq(arp)), "arp")
  BY <1>6, <1>8, SuggestIs
<1> HIDE DEF out, carried, ownNets
<1>10. \A o \in ToSet(svis) : o.source = "svi" /\ o.net \in ownNets
  <2>1. ToSet(<<>>) = {}
    BY DEF ToSet
  <2> QED BY <2>1, <1>4, <1>7 DEF Proposed
<1>11. \A o \in ToSet(vlans) : o \in ToSet(svis) \/ (o.source = "vlan" /\ carries /\ o.net \in carried)
  <2>1. \A m \in 1..Len(given) : carries /\ given[m] \in carried
    BY <1>5
  <2> QED BY <2>1, <1>8 DEF Proposed
<1>12. \A o \in ToSet(out) : o \in ToSet(vlans) \/ (o.source = "arp" /\ o.net \in arp)
  <2>1. \A m \in 1..Len(SetToSeq(arp)) : SetToSeq(arp)[m] \in arp
    BY <1>6 DEF ToSet
  <2> QED BY <2>1, <1>9 DEF Proposed
<1>13. \A i, j \in DOMAIN out : out[i].net = out[j].net => i = j
  <2>1. \A i, j \in DOMAIN <<>> : <<>>[i].net = <<>>[j].net => i = j
    OBVIOUS
  <2>2. \A i, j \in DOMAIN svis : svis[i].net = svis[j].net => i = j
    BY <2>1, <1>7 DEF Proposed
  <2>3. \A i, j \in DOMAIN vlans : vlans[i].net = vlans[j].net => i = j
    BY <2>2, <1>8 DEF Proposed
  <2> QED BY <2>3, <1>9 DEF Proposed
<1>14. {o.net : o \in {p \in ToSet(out) : p.source = "svi"}} = ownNets
  <2>1. \A o \in ToSet(out) : o.source = "svi" => o \in ToSet(svis)
    BY <1>11, <1>12
  <2>2. \A x \in ownNets : \E o \in ToSet(svis) : o.net = x
    BY <1>4, <1>7 DEF Proposed
  <2>3. ToSet(svis) \subseteq ToSet(out)
    BY <1>8, <1>9 DEF Proposed
  <2> QED BY <2>1, <2>2, <2>3, <1>10
<1>15. \A o \in ToSet(out) : o.source = "vlan" => carries /\ o.net \in carried
  BY <1>10, <1>11, <1>12
<1>16. carries /\ ownNets = {} /\ carried # {} => \E o \in ToSet(out) : o.source = "vlan"
  <2> SUFFICES ASSUME carries, ownNets = {}, carried # {}
               PROVE  \E o \in ToSet(out) : o.source = "vlan"
    OBVIOUS
  <2>1. 1 \in 1..Len(given)
    BY <1>5
  <2>2. PICK o \in ToSet(vlans) : o.net = given[1]
    BY <2>1, <1>8 DEF Proposed
  <2>3. o.source = "vlan"
    BY <2>2, <1>10, <1>11
  <2>4. o \in ToSet(out)
    BY <2>2, <1>9 DEF Proposed
  <2> QED BY <2>3, <2>4
<1>17. arp \subseteq {o.net : o \in ToSet(out)}
  <2>1. \A x \in arp : \E m \in 1..Len(SetToSeq(arp)) : SetToSeq(arp)[m] = x
    BY <1>6 DEF ToSet
  <2> QED BY <2>1, <1>9 DEF Proposed
<1>18. \A o \in ToSet(out) : o.source = "arp" => o.net \in arp
  BY <1>10, <1>11, <1>12
<1>19. question'.own = own /\ question'.other = other /\ question'.carries = carries /\ question'.arp = arp
  BY <1>1
<1> QED BY <1>3, <1>13, <1>14, <1>15, <1>16, <1>17, <1>18, <1>19 DEF BandsHaveOneSource, ownNets, carried

-----------------------------------------------------------------------------
(* The zone in the name of a device.                                       *)

\* The words of a zone in the bounded grammar of names.
Words == {"word", "word+SW", "SW"}

\* The zone has the words of the name but its first one.
CoreFits(zone, named) ==
    /\ ToSet(zone) \subseteq Words
    /\ Len(zone) = IF Cardinality(OfKind(named, Words)) >= 2
                   THEN Cardinality(OfKind(named, Words)) - 1
                   ELSE Cardinality(OfKind(named, Words))
    /\ named = <<>> => zone = <<>>

\* What is left of a name of which named is kept.
LEMMA CoreIsWords ==
    ASSUME NEW named \in Seq(Tokens), NEW core, core = Filtered(named, Tokens \ {"floor", "model", "number"}),
           NEW zone, zone = IF Len(core) >= 2 THEN Tail(core) ELSE core
    PROVE  CoreFits(zone, named)
<1>1. Tokens \ {"floor", "model", "number"} = Words
  BY DEF Tokens, Words
<1>2. core \in Seq(Tokens) /\ Len(core) \in Nat /\ DOMAIN core = 1..Len(core)
  BY FilterSelects
<1>3. Len(core) = Cardinality({n \in DOMAIN named : named[n] \in Words})
  BY <1>1, FilterCounts
<1>4. ToSet(core) = ToSet(named) \cap Words
  BY <1>1, FilterSet
<1>5. {n \in DOMAIN named : named[n] \in Words} = OfKind(named, Words)
  BY DEF OfKind
<1>6. ToSet(zone) \subseteq ToSet(core)
  <2>1. CASE Len(core) >= 2
    <3>1. zone = Tail(core) /\ core # <<>>
      BY <2>1, <1>2
    <3>2. \A i \in DOMAIN zone : zone[i] = core[i + 1] /\ i + 1 \in DOMAIN core
      BY <3>1, <1>2
    <3>3. \A x \in ToSet(zone) : \E i \in DOMAIN zone : x = zone[i]
      BY DEF ToSet
    <3>4. \A j \in DOMAIN core : core[j] \in ToSet(core)
      BY DEF ToSet
    <3>5. DOMAIN zone \subseteq Nat
      BY <3>1, <1>2
    <3> HIDE DEF Words
    <3>6. ASSUME NEW x \in ToSet(zone) PROVE x \in ToSet(core)
      <4>1. \E i \in DOMAIN zone : x = zone[i]
        BY <3>3
      <4>2. PICK i \in DOMAIN zone : x = zone[i]
        BY <4>1
      <4>3. x = core[i + 1] /\ i + 1 \in DOMAIN core
        BY <3>2, <4>2
      <4> QED BY <4>3, <3>4
    <3> QED BY <3>6
  <2>2. CASE ~(Len(core) >= 2)
    BY <2>2
  <2> QED BY <2>1, <2>2
<1>7. Len(core) >= 2 => Len(Tail(core)) = Len(core) - 1
  BY <1>2
<1>8. named = <<>> => core = <<>>
  <2> SUFFICES ASSUME named = <<>> PROVE core = <<>>
    OBVIOUS
  <2>1. {n \in DOMAIN named : named[n] \in Words} = {}
    OBVIOUS
  <2>2. Len(core) = 0
    BY <2>1, <1>3, FS_EmptySet
  <2> QED BY <2>2, <1>2
<1>9. Len(core) >= 2 => core # <<>>
  BY <1>2
<1> HIDE DEF Words
<1> QED BY <1>2, <1>3, <1>4, <1>5, <1>6, <1>7, <1>8, <1>9 DEF CoreFits

\* A zone is the words between site and type, for a name of any length.
LEMMA ZoneAnswer == AskZone => ZoneIsBetweenSiteAndType'
<1> SUFFICES ASSUME AskZone PROVE ZoneIsBetweenSiteAndType'
  OBVIOUS
<1>1. PICK tokens \in SeqOf(Tokens, MaxLen["zone"]) : question' = [of |-> "zone", tokens |-> tokens]
  <2>1. question' \in [of : {"zone"}, tokens : SeqOf(Tokens, MaxLen["zone"])]
    BY DEF AskZone
  <2> QED BY <2>1
<1> DEFINE N == Len(tokens)
<1>2. tokens \in Seq(Tokens) /\ N \in Nat /\ tokens \in [1..N -> Tokens] /\ DOMAIN tokens = 1..N
  BY QuestionsAssumption, ListOfUpTo DEF ListQuestions
<1> DEFINE last == {n \in DOMAIN tokens : tokens[n] # "number"}
           L == LatestOf(last)
           body == WithoutNumbers(tokens)
           named == IF body = <<>> \/ Len(tokens) < 3 THEN <<>>
                    ELSE IF Last(body) = "SW" THEN Front(body)
                    ELSE IF Last(body) = "word+SW" THEN Append(Front(body), "word")
                    ELSE <<>>
           core == Filtered(named, Tokens \ {"floor", "model", "number"})
           zone == IF Len(core) >= 2 THEN Tail(core) ELSE core
           ends == {n \in DOMAIN tokens :
                       /\ tokens[n] \in {"SW", "word+SW"}
                       /\ \A k \in (n + 1)..Len(tokens) : tokens[k] = "number"}
           words(n) == {k \in 1..n : tokens[k] \in {"word", "word+SW"}
                                      \/ (k < n /\ tokens[k] = "SW")}
<1>3. zone = ZoneOf(tokens)
  BY DEF ZoneOf
<1>4. body = IF last = {} THEN <<>> ELSE SubSeq(tokens, 1, L)
  BY DEF WithoutNumbers, LatestOf
<1>5. last # {} => /\ L \in last /\ \A m \in last : m <= L
                   /\ body \in Seq(Tokens) /\ Len(body) = L /\ body # <<>> /\ L \in Nat \ {0}
                   /\ \A i \in 1..L : body[i] = tokens[i]
  <2> SUFFICES ASSUME last # {}
               PROVE  /\ L \in last /\ \A m \in last : m <= L
                      /\ body \in Seq(Tokens) /\ Len(body) = L /\ body # <<>> /\ L \in Nat \ {0}
                      /\ \A i \in 1..L : body[i] = tokens[i]
    OBVIOUS
  <2>1. last \subseteq 1..N
    BY <1>2
  <2> HIDE DEF last, body
  <2>2. L \in last /\ \A m \in last : m <= L
    BY <2>1, <1>2, LastPosition
  <2> HIDE DEF L
  <2>3. L \in 1..N
    BY <2>1, <2>2
  <2>4. body = SubSeq(tokens, 1, L)
    BY <1>4
  <2>5. body \in Seq(Tokens) /\ Len(body) = L /\ \A i \in 1..L : body[i] = tokens[i]
    BY <2>3, <2>4, <1>2
  <2> QED BY <2>2, <2>3, <2>5
<1> HIDE DEF L, body
<1>6. last # {} => /\ Last(body) = tokens[L] /\ Front(body) \in Seq(Tokens) /\ Len(Front(body)) = L - 1
                   /\ \A i \in 1..(L - 1) : Front(body)[i] = tokens[i]
  <2> SUFFICES ASSUME last # {}
               PROVE  /\ Last(body) = tokens[L] /\ Front(body) \in Seq(Tokens) /\ Len(Front(body)) = L - 1
                      /\ \A i \in 1..(L - 1) : Front(body)[i] = tokens[i]
    OBVIOUS
  <2> HIDE DEF last
  <2>1. L \in Nat /\ L # 0 /\ L \in 1..L
    BY <1>5
  <2>2. Last(body) = tokens[L]
    BY <1>5, <2>1 DEF Last
  <2>3. Front(body) = SubSeq(body, 1, L - 1)
    BY <1>5 DEF Front
  <2>4. Front(body) \in Seq(Tokens) /\ Len(Front(body)) = L - 1
        /\ \A i \in 1..(L - 1) : Front(body)[i] = body[i]
    BY <2>1, <2>3, <1>5
  <2> QED BY <2>1, <2>2, <2>4, <1>5
<1>7. \A n \in ends : last # {} /\ n = L /\ L \in DOMAIN tokens
  <2> TAKE n \in ends
  <2>1. n \in last
    OBVIOUS
  <2>2. L \in last /\ n <= L
    BY <2>1, <1>5
  <2>3. ~(n < L)
    <3>1. n < L => L \in (n + 1)..N
      BY <2>2, <1>2
    <3> QED BY <3>1, <2>2
  <2> QED BY <2>1, <2>2, <2>3, <1>2
<1>8. last # {} /\ tokens[L] \in {"SW", "word+SW"} => L \in ends
  <2> SUFFICES ASSUME last # {}, tokens[L] \in {"SW", "word+SW"} PROVE L \in ends
    OBVIOUS
  <2>1. L \in last
    BY <1>5
  <2>2. ASSUME NEW k \in (L + 1)..N PROVE tokens[k] = "number"
    <3>1. k \in 1..N /\ ~(k <= L)
      BY <2>1, <1>2
    <3>2. k \notin last
      <4> HIDE DEF last
      <4> QED BY <3>1, <1>5
    <3> QED BY <3>1, <3>2, <1>2
  <2> QED BY <2>1, <2>2
<1>9. named \in Seq(Tokens)
  <2>1. CASE last = {}
    <3>1. named = <<>>
      BY <2>1, <1>4
    <3> HIDE DEF named
    <3> QED BY <3>1
  <2>2. CASE last # {}
    <3>1. Front(body) \in Seq(Tokens)
      BY <2>2, <1>6
    <3>2. "word" \in Tokens
      BY DEF Tokens
    <3>3. Append(Front(body), "word") \in Seq(Tokens)
      BY <3>1, <3>2
    <3> QED BY <3>1, <3>3
  <2> QED BY <2>1, <2>2
<1>10. ends = {} \/ Len(tokens) < 3 => named = <<>>
  <2> SUFFICES ASSUME ends = {} \/ Len(tokens) < 3 PROVE named = <<>>
    OBVIOUS
  <2>1. CASE Len(tokens) < 3
    BY <2>1
  <2>2. CASE last = {}
    BY <2>2, <1>4
  <2>3. CASE ends = {} /\ last # {}
    <3>1. tokens[L] \notin {"SW", "word+SW"}
      BY <2>3, <1>8
    <3>2. Last(body) \notin {"SW", "word+SW"}
      BY <2>3, <3>1, <1>6
    <3> QED BY <3>2
  <2> QED BY <2>1, <2>2, <2>3
<1>11. ASSUME NEW n \in ends, ~(Len(tokens) < 3) PROVE OfKind(named, Words) = words(n)
  <2>1. n = L /\ last # {} /\ tokens[n] \in {"SW", "word+SW"} /\ L \in Nat /\ L # 0
    BY <1>5, <1>7
  <2>2. body # <<>> /\ Last(body) = tokens[L] /\ Front(body) \in Seq(Tokens) /\ Len(Front(body)) = L - 1
        /\ \A i \in 1..(L - 1) : Front(body)[i] = tokens[i]
    BY <2>1, <1>5, <1>6
  <2> HIDE DEF last, ends
  <2>3. \A k \in 1..(L - 1) : k \in 1..L /\ k < L
    BY <2>1
  <2>4. \A k \in 1..L : k = L \/ k \in 1..(L - 1)
    BY <2>1
  <2>5. L \in 1..L /\ ~(L < L) /\ L \notin 1..(L - 1) /\ (L - 1) + 1 = L
    BY <2>1
  <2>6. CASE tokens[L] = "SW"
    <3>1. named = Front(body) /\ DOMAIN named = 1..(L - 1) /\ \A i \in 1..(L - 1) : named[i] = tokens[i]
      BY <2>2, <2>6, <1>11
    <3> HIDE DEF named
    <3> QED BY <2>1, <2>3, <2>4, <2>5, <2>6, <3>1 DEF OfKind, Words
  <2>7. CASE tokens[L] = "word+SW"
    <3>1. named = Append(Front(body), "word")
      BY <2>2, <2>7, <1>11
    <3> HIDE DEF named
    <3>2. "word" \in Tokens
      BY DEF Tokens
    <3>3. Appended(Front(body), "word", named)
      BY <2>2, <3>1, <3>2, AppendIs
    <3>4. DOMAIN named = 1..L /\ named[L] = "word" /\ \A i \in 1..(L - 1) : named[i] = tokens[i]
      BY <2>2, <2>5, <3>3 DEF Appended
    <3> QED BY <2>1, <2>3, <2>4, <2>5, <2>7, <3>4 DEF OfKind, Words
  <2> QED BY <2>1, <2>6, <2>7
<1>12. core = Filtered(named, Tokens \ {"floor", "model", "number"})
       /\ zone = IF Len(core) >= 2 THEN Tail(core) ELSE core
  OBVIOUS
<1> HIDE DEF zone, core, named, ends, last
<1>13. CoreFits(zone, named)
  BY <1>9, <1>12, CoreIsWords
<1>14. question'.tokens = tokens /\ Words = {"word", "word+SW", "SW"}
  BY <1>1 DEF Words
<1>15. IF ends = {} \/ Len(tokens) < 3 THEN zone = <<>>
            ELSE \A n \in ends :
                   /\ ToSet(zone) \subseteq {"word", "word+SW", "SW"}
                   /\ Len(zone) = IF Cardinality(words(n)) >= 2
                                  THEN Cardinality(words(n)) - 1
                                  ELSE Cardinality(words(n))
  <2> HIDE DEF words
  <2> QED BY <1>10, <1>11, <1>13, <1>14 DEF CoreFits
<1>16. ZoneFits(tokens)
  BY <1>3, <1>14, <1>15 DEF ZoneFits, ends
<1>17. ZoneFits(question'.tokens)
  BY <1>14, <1>16
<1> QED BY <1>17 DEF ZoneIsBetweenSiteAndType

-----------------------------------------------------------------------------
(* The bands of the interfaces of a configuration.                         *)

\* What is told of a configuration before its first line.
NothingRead == [inside |-> FALSE, vlan |-> 0, out |-> <<>>]

\* A line of the configuration keeps the form of what is told so far.
LEMMA SviLineType ==
    ASSUME NEW T, T = [inside : BOOLEAN, vlan : 0..2, out : Seq([vlan : 0..2, net : Nets])],
           NEW t \in T, NEW e \in Lines
    PROVE  ReadSviLine(t, e) \in T
<1> DEFINE x == [vlan |-> t.vlan, net |-> e.net]
<1>0. t.inside \in BOOLEAN /\ t.vlan \in 0..2 /\ t.out \in Seq([vlan : 0..2, net : Nets])
  OBVIOUS
<1>1. CASE e.is = "interface"
  <2>1. e.vlan \in 0..2
    BY <1>1 DEF Lines
  <2>2. ReadSviLine(t, e) = [t EXCEPT !.inside = TRUE, !.vlan = e.vlan]
    BY <1>1 DEF ReadSviLine
  <2> QED BY <2>1, <2>2
<1>2. CASE e.is = "address"
  <2>1. e.net \in Nets
    BY <1>2 DEF Lines
  <2>2. x \in [vlan : 0..2, net : Nets]
    BY <2>1, <1>0
  <2>3. Append(t.out, x) \in Seq([vlan : 0..2, net : Nets])
    <3> HIDE DEF x
    <3> QED BY <2>2, <1>0
  <2>4. ReadSviLine(t, e) \in {t, [t EXCEPT !.out = Append(@, x)]}
    BY <1>2 DEF ReadSviLine
  <2> HIDE DEF x
  <2> QED BY <2>3, <2>4
<1>3. CASE e.is \notin {"interface", "address"}
  <2>1. ReadSviLine(t, e) = t
    BY <1>3 DEF ReadSviLine
  <2> QED BY <2>1
<1> QED BY <1>1, <1>2, <1>3

\* r gives what is told of the first k lines.
SviRun(r, lines) ==
    /\ r \in [0..Len(lines) -> [inside : BOOLEAN, vlan : 0..2, out : Seq([vlan : 0..2, net : Nets])]]
    /\ r[0] = NothingRead /\ r[Len(lines)] = FoldLeft(ReadSviLine, NothingRead, lines)
    /\ \A k \in 1..Len(lines) : r[k] = ReadSviLine(r[k - 1], lines[k])

\* The configuration is read line by line.
LEMMA SviSteps ==
    ASSUME NEW lines \in Seq(Lines)
    PROVE  \E r : SviRun(r, lines)
<1> DEFINE n == Len(lines)
           T == [inside : BOOLEAN, vlan : 0..2, out : Seq([vlan : 0..2, net : Nets])]
           E == Lines
           op(t, e) == ReadSviLine(t, e)
           F == [p \in T \X E |-> op(p[1], p[2])]
           Fix(i) == i = [s \in SUBSET (DOMAIN lines) |->
                            IF s = {} THEN NothingRead ELSE op(i[s \ {Max(s)}], lines[Max(s)])]
           it == CHOOSE i : Fix(i)
<1>1. n \in Nat /\ lines \in [1..n -> E] /\ DOMAIN lines = 1..n /\ NothingRead \in T
  <2>1. lines \in Seq(E)
    OBVIOUS
  <2>2. NothingRead \in T
    BY DEF NothingRead
  <2> HIDE DEF E, T
  <2> QED BY <2>1, <2>2
<1>2. \A t \in T, e \in E : op(t, e) \in T /\ F[<<t, e>>] = op(t, e)

  <2> TAKE t \in T, e \in E
  <2>1. <<t, e>> \in T \X E
    OBVIOUS
  <2>2. F[<<t, e>>] = op(t, e)
    <3> HIDE DEF T, E, op
    <3> QED BY <2>1
  <2>4. ReadSviLine(t, e) \in T
    BY SviLineType
  <2> HIDE DEF T, F
  <2> QED BY <2>2, <2>4
<1>3. F \in [T \X E -> T]
  <2> HIDE DEF op, T, E
  <2> QED BY <1>2
<1>4. FoldLeft(ReadSviLine, NothingRead, lines) = it[1..n]
  BY <1>1 DEF SviBands, FoldLeft, MapThenFoldSet
<1> HIDE DEF n, T, E, F, op
<1>5. PICK g : FoldSolution(g, T, F, NothingRead, n, lines)
  BY <1>1, <1>3, FoldHasSolution
<1>6. FoldStays(g, T, E, F, NothingRead, n, lines) /\ g \in [SUBSET (1..n) -> T]
  BY <1>1, <1>5, SolutionStays
<1>7. Fix(g)
  BY <1>1, <1>2, <1>6 DEF FoldStays
<1> HIDE DEF Fix
<1>8. Fix(it)
  BY <1>7
<1> HIDE DEF it
<1>9. FoldLike(it, T, F, NothingRead, n, lines)
  <2>1. \A s \in SUBSET (1..n) :
            it[s] = IF s = {} THEN NothingRead ELSE op(it[s \ {Max(s)}], lines[Max(s)])
    BY <1>1, <1>8 DEF Fix
  <2>2. 1..0 = {} /\ {} \in SUBSET (1..n)
    OBVIOUS
  <2>3. it[1..0] = NothingRead
    BY <2>1, <2>2
  <2>4. \A s \in SUBSET (1..n) : s # {} => lines[Max(s)] \in E
    BY <1>6 DEF FoldStays
  <2> QED BY <1>2, <2>1, <2>3, <2>4 DEF FoldLike
<1>10. FoldGives(it[1..n], T, F, NothingRead, n, lines)
  BY <1>1, <1>3, <1>9, FoldHasSteps
<1>11. PICK r : FoldSteps(r, T, F, NothingRead, n, lines) /\ r[n] = FoldLeft(ReadSviLine, NothingRead, lines)
  BY <1>10, <1>4 DEF FoldGives
<1>12. r \in [0..n -> T] /\ r[0] = NothingRead /\ \A k \in 1..n : r[k] = F[<<r[k - 1], lines[k]>>]
  BY <1>11 DEF FoldSteps
<1>13. \A k \in 1..n : r[k] = op(r[k - 1], lines[k])
  <2> TAKE k \in 1..n
  <2>1. r[k - 1] \in T /\ lines[k] \in E
    BY <1>1, <1>12
  <2> QED BY <2>1, <1>12, <1>2
<1> QED BY <1>11, <1>12, <1>13 DEF SviRun, n, T, op

\* The heads of interfaces up to line n; line n tells a told, under a head;
\* the first of the lines up to k that tell their told.
Heads(lines, n) == {k \in 1..n : lines[k].is = "interface"}

\* Line n gives an address of a band to the interface of a head above it.
TellsBand(lines, n) ==
    lines[n].is = "address" /\ lines[n].net # "loopback" /\ Heads(lines, n) # {}

\* The first lines of their bands among the first k.
Firsts(lines, k) ==
    {n \in 1..k : /\ TellsBand(lines, n)
                  /\ \A j \in 1..(n - 1) : TellsBand(lines, j) => lines[j].net # lines[n].net}

\* told is that of line n, under the head before it.
BandAt(told, lines, n) ==
    /\ told.net = lines[n].net
    /\ \E k \in Heads(lines, n) : /\ \A j \in Heads(lines, n) : j <= k
                                  /\ told.vlan = lines[k].vlan

\* What the first k lines have told.
Told(s, lines, k) ==
    /\ s.inside <=> Heads(lines, k) # {}
    /\ s.inside => \E h \in Heads(lines, k) : /\ \A j \in Heads(lines, k) : j <= h
                                              /\ s.vlan = lines[h].vlan
    /\ Len(s.out) = Cardinality(Firsts(lines, k))
    /\ \A n \in Firsts(lines, k) : BandAt(s.out[Cardinality(Firsts(lines, n))], lines, n)
    /\ \A b \in ToSet(s.out) : \E j \in 1..k : TellsBand(lines, j) /\ lines[j].net = b.net
    /\ \A j \in 1..k : TellsBand(lines, j) => \E b \in ToSet(s.out) : b.net = lines[j].net

\* The firsts of a longer prefix.
LEMMA FirstsGrow ==
    ASSUME NEW lines, NEW k \in Nat
    PROVE  /\ IsFiniteSet(Firsts(lines, k)) /\ Cardinality(Firsts(lines, k)) \in Nat
           /\ k + 1 \notin Firsts(lines, k)
           /\ Firsts(lines, k + 1) = IF k + 1 \in Firsts(lines, k + 1)
                                     THEN Firsts(lines, k) \cup {k + 1} ELSE Firsts(lines, k)
           /\ k + 1 \in Firsts(lines, k + 1)
                => Cardinality(Firsts(lines, k + 1)) = Cardinality(Firsts(lines, k)) + 1
<1>1. IsFiniteSet(1..k)
  BY FS_Interval
<1>2. Firsts(lines, k) \subseteq 1..k
  BY DEF Firsts
<1>3. IsFiniteSet(Firsts(lines, k)) /\ Cardinality(Firsts(lines, k)) \in Nat
  BY <1>1, <1>2, FS_Subset, FS_CardinalityType
<1>4. k + 1 \notin Firsts(lines, k)
  BY <1>2
<1>5. Firsts(lines, k + 1) = IF k + 1 \in Firsts(lines, k + 1)
                             THEN Firsts(lines, k) \cup {k + 1} ELSE Firsts(lines, k)
  <2>1. 1..(k + 1) = 1..k \cup {k + 1}
    OBVIOUS
  <2> QED BY <2>1 DEF Firsts
<1> QED BY <1>3, <1>4, <1>5, FS_AddElement

\* The place of a first of a prefix.
LEMMA FirstsPlace ==
    ASSUME NEW lines, NEW k \in Nat, NEW n \in Firsts(lines, k)
    PROVE  /\ Cardinality(Firsts(lines, n)) \in 1..Cardinality(Firsts(lines, k))
           /\ n \in 1..k
<1>1. n \in 1..k /\ n \in Firsts(lines, n) /\ Firsts(lines, n) \subseteq Firsts(lines, k)
  BY DEF Firsts
<1>2. IsFiniteSet(Firsts(lines, k)) /\ Cardinality(Firsts(lines, k)) \in Nat
  BY FirstsGrow
<1>3. Cardinality(Firsts(lines, n)) \in Nat /\ IsFiniteSet(Firsts(lines, n))
  <2>1. n \in Nat
    BY <1>1
  <2> QED BY <2>1, FirstsGrow
<1>4. Cardinality(Firsts(lines, n)) <= Cardinality(Firsts(lines, k))
  BY <1>1, <1>2, FS_Subset
<1>5. Cardinality(Firsts(lines, n)) # 0
  BY <1>1, <1>3, FS_EmptySet
<1> QED BY <1>1, <1>2, <1>3, <1>4, <1>5

\* A line read.
LEMMA LineRead ==
    ASSUME NEW lines \in Seq(Lines), NEW k \in Nat, k + 1 \in DOMAIN lines,
           NEW s \in [inside : BOOLEAN, vlan : 0..2, out : Seq([vlan : 0..2, net : Nets])],
           Told(s, lines, k)
    PROVE  Told(ReadSviLine(s, lines[k + 1]), lines, k + 1)
<1> DEFINE e == lines[k + 1]
           m == k + 1
           x == [vlan |-> s.vlan, net |-> e.net]
           t == ReadSviLine(s, e)
           Band == [vlan : 0..2, net : Nets]
<1>1. e \in Lines /\ m \in Nat /\ 1..m = 1..k \cup {m} /\ k + 1 = m
  OBVIOUS
<1>2. s.inside \in BOOLEAN /\ s.vlan \in 0..2 /\ s.out \in Seq(Band)
  OBVIOUS
<1>3. Heads(lines, m) = IF e.is = "interface" THEN Heads(lines, k) \cup {m} ELSE Heads(lines, k)
  BY <1>1 DEF Heads
<1>4. TellsBand(lines, m) <=> e.is = "address" /\ e.net # "loopback" /\ s.inside
  BY <1>3 DEF Told, TellsBand
<1>5. m \in Firsts(lines, m) <=>
         TellsBand(lines, m) /\ \A j \in 1..k : TellsBand(lines, j) => lines[j].net # e.net
  <2>1. m - 1 = k /\ m \in 1..m
    BY <1>1
  <2> QED BY <2>1 DEF Firsts
<1>6. m \in Firsts(lines, m) <=> TellsBand(lines, m) /\ \A b \in ToSet(s.out) : b.net # e.net
  BY <1>5 DEF Told
<1>7. \A n \in Firsts(lines, k) : n \in 1..k /\ Cardinality(Firsts(lines, n)) \in 1..Len(s.out)
  BY FirstsPlace DEF Told
<1>8. /\ m \notin Firsts(lines, m) => Firsts(lines, m) = Firsts(lines, k)
      /\ m \in Firsts(lines, m) => /\ Firsts(lines, m) = Firsts(lines, k) \cup {m}
                                   /\ Cardinality(Firsts(lines, m)) = Cardinality(Firsts(lines, k)) + 1
  BY FirstsGrow
<1>9. CASE e.is = "interface"
  <2>1. t = [s EXCEPT !.inside = TRUE, !.vlan = e.vlan]
    BY <1>9 DEF ReadSviLine
  <2>2. t.inside = TRUE /\ t.vlan = e.vlan /\ t.out = s.out
    BY <2>1, <1>2
  <2>3. m \in Heads(lines, m) /\ \A j \in Heads(lines, m) : j <= m
    BY <1>3, <1>9, <1>1 DEF Heads
  <2>4. ~TellsBand(lines, m) /\ Firsts(lines, m) = Firsts(lines, k)
    BY <1>4, <1>6, <1>8, <1>9
  <2> HIDE DEF t
  <2>5. t.inside <=> Heads(lines, m) # {}
    BY <2>2, <2>3
  <2>6. \E h \in Heads(lines, m) : /\ \A j \in Heads(lines, m) : j <= h
                                   /\ t.vlan = lines[h].vlan
    BY <2>2, <2>3
  <2>7. \A j \in 1..m : TellsBand(lines, j) => j \in 1..k
    BY <2>4, <1>1
  <2>8. 1..k \subseteq 1..m
    BY <1>1
  <2>9. \A b \in ToSet(t.out) : \E j \in 1..m : TellsBand(lines, j) /\ lines[j].net = b.net
    BY <2>2, <2>8 DEF Told
  <2>10. \A j \in 1..m : TellsBand(lines, j) => \E b \in ToSet(t.out) : b.net = lines[j].net
    BY <2>2, <2>7 DEF Told
  <2>11. /\ Len(t.out) = Cardinality(Firsts(lines, m))
         /\ \A n \in Firsts(lines, m) : BandAt(t.out[Cardinality(Firsts(lines, n))], lines, n)
    BY <2>2, <2>4 DEF Told
  <2>12. Told(t, lines, m)
    BY <2>5, <2>6, <2>9, <2>10, <2>11 DEF Told
  <2> QED BY <2>12 DEF t
<1>10. CASE e.is # "interface" /\ m \notin Firsts(lines, m)
  <2>1. t = s
    <3>1. ~(e.is = "address" /\ s.inside /\ e.net # "loopback" /\ \A b \in ToSet(s.out) : b.net # e.net)
      BY <1>10, <1>4, <1>6
    <3> QED BY <3>1, <1>10 DEF ReadSviLine
  <2>2. Heads(lines, m) = Heads(lines, k) /\ Firsts(lines, m) = Firsts(lines, k)
    BY <1>3, <1>8, <1>10
  <2>3. TellsBand(lines, m) => \E b \in ToSet(s.out) : b.net = e.net
    BY <1>6, <1>10
  <2>4. \A j \in 1..m : j \in 1..k \/ j = m
    BY <1>1
  <2>5. 1..k \subseteq 1..m
    BY <1>1
  <2> HIDE DEF t
  <2>6. \A j \in 1..m : TellsBand(lines, j) => \E b \in ToSet(s.out) : b.net = lines[j].net
    BY <2>3, <2>4 DEF Told
  <2>7. Told(s, lines, m)
    BY <2>2, <2>5, <2>6 DEF Told
  <2> QED BY <2>1, <2>7 DEF t
<1>11. CASE e.is # "interface" /\ m \in Firsts(lines, m)
  <2>1. TellsBand(lines, m) /\ e.is = "address" /\ e.net # "loopback" /\ s.inside
        /\ \A b \in ToSet(s.out) : b.net # e.net
    BY <1>11, <1>4, <1>6
  <2>2. e.net \in Nets
    BY <2>1, <1>1 DEF Lines
  <2>3. t = [s EXCEPT !.out = Append(@, x)]
    BY <2>1 DEF ReadSviLine
  <2>4. t.inside = s.inside /\ t.vlan = s.vlan /\ t.out = Append(s.out, x)
    BY <2>3, <1>2
  <2>5. x \in Band /\ x.net = e.net /\ x.vlan = s.vlan
    BY <2>2, <1>2
  <2> HIDE DEF x, t, Band
  <2>6. Appended(s.out, x, t.out)
    BY <2>4, <2>5, <1>2, AppendIs
  <2>7. Heads(lines, m) = Heads(lines, k)
    BY <1>3, <1>11
  <2>8. /\ Firsts(lines, m) = Firsts(lines, k) \cup {m}
        /\ Cardinality(Firsts(lines, m)) = Cardinality(Firsts(lines, k)) + 1
    BY <1>8, <1>11
  <2>9. Len(t.out) = Cardinality(Firsts(lines, m)) /\ t.out[Cardinality(Firsts(lines, m))] = x
    BY <2>6, <2>8 DEF Told, Appended
  <2>10. BandAt(x, lines, m)
    BY <2>5, <2>7, <2>1 DEF BandAt, Told
  <2>11. \A n \in Firsts(lines, k) : BandAt(t.out[Cardinality(Firsts(lines, n))], lines, n)
    <3> TAKE n \in Firsts(lines, k)
    <3>1. Cardinality(Firsts(lines, n)) \in 1..Len(s.out)
      BY <1>7
    <3>2. t.out[Cardinality(Firsts(lines, n))] = s.out[Cardinality(Firsts(lines, n))]
      BY <3>1, <2>6 DEF Appended
    <3> QED BY <3>2 DEF Told
  <2>12. \A n \in Firsts(lines, m) : BandAt(t.out[Cardinality(Firsts(lines, n))], lines, n)
    BY <2>8, <2>9, <2>10, <2>11
  <2>13. ToSet(t.out) = ToSet(s.out) \cup {x}
    BY <2>6 DEF Appended
  <2>14. \A b \in ToSet(t.out) : \E j \in 1..m : TellsBand(lines, j) /\ lines[j].net = b.net
    BY <2>13, <2>5, <2>1, <1>1 DEF Told
  <2>15. \A j \in 1..m : TellsBand(lines, j) => \E b \in ToSet(t.out) : b.net = lines[j].net
    BY <2>13, <2>5, <1>1 DEF Told
  <2>16. Told(t, lines, m)
    BY <2>4, <2>7, <2>9, <2>12, <2>14, <2>15 DEF Told
  <2> QED BY <2>16 DEF t
<1> QED BY <1>9, <1>10, <1>11

\* The bands that SviBands tells.
LEMMA SviBandsAre ==
    ASSUME NEW lines \in Seq(Lines)
    PROVE  \E s : s.out = SviBands(lines) /\ Told(s, lines, Len(lines))
<1> DEFINE n == Len(lines)
           T == [inside : BOOLEAN, vlan : 0..2, out : Seq([vlan : 0..2, net : Nets])]
<1>1. PICK r : SviRun(r, lines)
  BY SviSteps
<1>2. /\ r \in [0..n -> T] /\ r[0] = NothingRead
      /\ r[n] = FoldLeft(ReadSviLine, NothingRead, lines)
      /\ \A k \in 1..n : r[k] = ReadSviLine(r[k - 1], lines[k])
  BY <1>1 DEF SviRun
<1>3. n \in Nat /\ DOMAIN lines = 1..n
  OBVIOUS
<1>4. r[n].out = SviBands(lines)
  BY <1>2 DEF SviBands, NothingRead
<1> HIDE DEF n, T
<1> DEFINE Good == {k \in 0..n : Told(r[k], lines, k)}
<1>5. 0 \in Good
  <2>1. Heads(lines, 0) = {} /\ Firsts(lines, 0) = {}
    BY DEF Heads, Firsts
  <2>2. Cardinality({}) = 0
    BY FS_EmptySet
  <2>3. NothingRead.inside = FALSE /\ NothingRead.out = <<>> /\ ToSet(<<>>) = {} /\ 1..0 = {}
    BY DEF NothingRead, ToSet
  <2>4. Told(NothingRead, lines, 0)
    BY <2>1, <2>2, <2>3 DEF Told
  <2> QED BY <2>4, <1>2, <1>3
<1>6. ASSUME NEW k \in 0..(n - 1), k \in Good PROVE k + 1 \in Good
  <2>1. k + 1 \in 1..n /\ (k + 1) - 1 = k /\ k \in 0..n /\ k + 1 \in 0..n /\ k \in Nat
    BY <1>3
  <2>2. Told(r[k], lines, k) /\ r[k] \in T /\ k + 1 \in DOMAIN lines
    BY <2>1, <1>2, <1>3, <1>6
  <2>3. r[k + 1] = ReadSviLine(r[k], lines[k + 1])
    BY <2>1, <1>2
  <2>4. Told(r[k + 1], lines, k + 1)
    BY <2>1, <2>2, <2>3, LineRead DEF T
  <2> QED BY <2>1, <2>4
<1> HIDE DEF Good
<1>7. n \in Good
  <2>1. 0..n \subseteq Good
    BY <1>3, <1>5, <1>6, UpToInSet
  <2> QED BY <2>1, <1>3
<1>8. Told(r[n], lines, n)
  BY <1>7 DEF Good
<1> QED BY <1>4, <1>8 DEF n

\* Each band of a configuration belongs to the interface with its first address,
\* for a configuration of any length.
LEMMA BandsAnswer == AskBands => BandsBelongToInterfaces'
<1> SUFFICES ASSUME AskBands PROVE BandsBelongToInterfaces'
  OBVIOUS
<1>1. PICK lines \in SeqOf(Lines, MaxLen["bands"]) : question' = [of |-> "bands", lines |-> lines]
  <2>1. question' \in [of : {"bands"}, lines : SeqOf(Lines, MaxLen["bands"])]
    BY DEF AskBands
  <2> HIDE DEF Lines
  <2> QED BY <2>1
<1>2. lines \in Seq(Lines) /\ DOMAIN lines = 1..Len(lines) /\ Len(lines) \in Nat
  BY QuestionsAssumption, ListOfUpTo DEF ListQuestions
<1> DEFINE under(n) == {k \in 1..n : lines[k].is = "interface"}
           first == {n \in DOMAIN lines :
                        /\ lines[n].is = "address" /\ lines[n].net # "loopback"
                        /\ under(n) # {}
                        /\ \A k \in 1..(n - 1) :
                             lines[k].is = "address" /\ under(k) # {} => lines[k].net # lines[n].net}
           bands == SviBands(lines)
<1>3. \A n : under(n) = Heads(lines, n)
  BY DEF Heads
<1>4. first = Firsts(lines, Len(lines))
  <2>1. \A n \in 1..Len(lines) :
          (/\ lines[n].is = "address" /\ lines[n].net # "loopback"
           /\ under(n) # {}
           /\ \A k \in 1..(n - 1) :
                lines[k].is = "address" /\ under(k) # {} => lines[k].net # lines[n].net)
          <=> /\ TellsBand(lines, n)
              /\ \A j \in 1..(n - 1) : TellsBand(lines, j) => lines[j].net # lines[n].net
    <3> HIDE DEF under
    <3> QED BY <1>3 DEF TellsBand
  <2> QED BY <2>1, <1>2 DEF Firsts
<1>5. \A n \in first : {k \in first : k <= n} = Firsts(lines, n)
  BY <1>4, <1>2 DEF Firsts
<1>6. PICK s : s.out = bands /\ Told(s, lines, Len(lines))
  BY <1>2, SviBandsAre
<1> HIDE DEF bands, first, under
<1>7. Len(bands) = Cardinality(first)
  BY <1>4, <1>6 DEF Told
<1>8. \A n \in first : LET b == bands[Cardinality({k \in first : k <= n})]
                       IN  /\ b.net = lines[n].net
                           /\ \E k \in under(n) : /\ \A j \in under(n) : j <= k
                                                  /\ b.vlan = lines[k].vlan
  <2> TAKE n \in first
  <2>1. BandAt(bands[Cardinality(Firsts(lines, n))], lines, n)
    BY <1>4, <1>6 DEF Told
  <2>2. BandAt(bands[Cardinality({k \in first : k <= n})], lines, n)
    BY <2>1, <1>5
  <2> QED BY <2>2, <1>3 DEF BandAt
<1>9. BandsFit(lines)
  BY <1>7, <1>8 DEF BandsFit, first, under, bands
<1>10. BandsFit(question'.lines)
  BY <1>1, <1>9
<1> QED BY <1>10 DEF BandsBelongToInterfaces

-----------------------------------------------------------------------------
(* The lines that the editor draws by itself.                              *)

\* The links of the canvas before the first row.
Unlinked == [pair \in CanvasPairs |-> NoLink]

\* The links that can be drawn: none, or one with its two ends.
CanvasPorts == (Canvas \X {1, 2}) \cup {NoPortName}

\* A line between two devices of the canvas.
Drawn == [basis : {"neighbor", "mac"}, a : [at : Canvas, port : CanvasPorts],
          b : [at : Canvas, port : CanvasPorts]]

\* What is drawn between each two of them.
CanvasLinks == [CanvasPairs -> Drawn \cup {NoLink}]

\* Two devices are a pair of the canvas.
LEMMA TwoMakeAPair ==
    ASSUME NEW c \in Canvas, NEW d \in Canvas, c # d
    PROVE  {c, d} \in CanvasPairs
<1>1. {c, d} = {c} \cup {d}
  OBVIOUS
<1>2. IsFiniteSet({c}) /\ Cardinality({c}) = 1
  BY FS_Singleton
<1>3. Cardinality({c, d}) = 2
  BY <1>1, <1>2, FS_AddElement
<1>4. {c, d} \in SUBSET Canvas
  OBVIOUS
<1> QED BY <1>3, <1>4 DEF CanvasPairs

\* FillPorts fills in the port of one end, if that has none.
LEMMA PortsFilled ==
    ASSUME NEW link \in Drawn, link.a.at # link.b.at, NEW end \in Canvas, NEW port \in PortsOf(end)
    PROVE  /\ FillPorts(link, end, port) \in Drawn
           /\ FillPorts(link, end, port).basis = link.basis
           /\ FillPorts(link, end, port).a.at = link.a.at
           /\ FillPorts(link, end, port).b.at = link.b.at
           /\ FillPorts(link, end, port).a.port
                = IF link.a.at = end /\ link.a.port = NoPortName THEN port ELSE link.a.port
           /\ FillPorts(link, end, port).b.port
                = IF link.b.at = end /\ link.b.port = NoPortName THEN port ELSE link.b.port
<1>1. port \in CanvasPorts
  BY DEF CanvasPorts, PortsOf
<1> HIDE DEF NoPortName
<1> QED BY <1>1 DEF Drawn, FillPorts

\* What PutLink makes of the link between two devices.
Redrawn(link, row, remote) ==
    IF link = NoLink
    THEN [basis |-> "neighbor", a |-> [at |-> row.at, port |-> <<row.at, 2>>],
          b |-> [at |-> remote, port |-> IF row.both THEN <<remote, 1>> ELSE NoPortName]]
    ELSE IF row.both THEN FillPorts(FillPorts(link, row.at, <<row.at, 2>>), remote, <<remote, 1>>)
         ELSE FillPorts(link, row.at, <<row.at, 2>>)

\* FillPorts leaves a link a link.
LEMMA FilledIsDrawn ==
    ASSUME NEW link \in Drawn, NEW end \in Canvas, NEW port \in PortsOf(end)
    PROVE  FillPorts(link, end, port) \in Drawn
<1>1. port \in CanvasPorts
  BY DEF CanvasPorts, PortsOf
<1> HIDE DEF NoPortName
<1> QED BY <1>1 DEF Drawn, FillPorts

\* A row redraws a link.
LEMMA RedrawnIsDrawn ==
    ASSUME NEW link \in Drawn \cup {NoLink}, NEW row \in EditorRows, NEW remote \in Canvas
    PROVE  Redrawn(link, row, remote) \in Drawn
<1>1. row.at \in Canvas /\ <<row.at, 2>> \in PortsOf(row.at) /\ <<remote, 1>> \in PortsOf(remote)
  BY DEF EditorRows, Canvas, PortsOf
<1>2. <<row.at, 2>> \in CanvasPorts /\ <<remote, 1>> \in CanvasPorts /\ NoPortName \in CanvasPorts
  <2>1. \A c \in Canvas : \A p \in PortsOf(c) : p \in CanvasPorts
    BY DEF CanvasPorts, PortsOf
  <2>2. NoPortName \in CanvasPorts
    BY DEF CanvasPorts
  <2> QED BY <1>1, <2>1, <2>2
<1>3. CASE link = NoLink
  BY <1>1, <1>2, <1>3 DEF Redrawn, Drawn
<1>4. CASE link # NoLink
  <2>1. FillPorts(link, row.at, <<row.at, 2>>) \in Drawn
    BY <1>1, <1>4, FilledIsDrawn
  <2>2. FillPorts(FillPorts(link, row.at, <<row.at, 2>>), remote, <<remote, 1>>) \in Drawn
    BY <1>1, <2>1, FilledIsDrawn
  <2> QED BY <1>4, <2>1, <2>2 DEF Redrawn
<1> QED BY <1>3, <1>4

\* What PutLink does.
LEMMA PutLinkIs ==
    ASSUME NEW links \in CanvasLinks, NEW row \in EditorRows, NEW placed \in SUBSET Canvas
    PROVE  /\ PutLink(links, row, placed) \in CanvasLinks
           /\ ~Joins(row, placed) => PutLink(links, row, placed) = links
           /\ Joins(row, placed) =>
                /\ {row.at, RemoteOf(row, placed)} \in CanvasPairs
                /\ RemoteOf(row, placed) \in Canvas /\ RemoteOf(row, placed) # row.at
                /\ \A pair \in CanvasPairs :
                     PutLink(links, row, placed)[pair]
                       = IF pair = {row.at, RemoteOf(row, placed)}
                         THEN Redrawn(links[pair], row, RemoteOf(row, placed)) ELSE links[pair]
<1> DEFINE remote == RemoteOf(row, placed)
           mine == {row.at, remote}
<1>1. CASE ~Joins(row, placed)
  <2>1. PutLink(links, row, placed) = links
    BY <1>1 DEF PutLink
  <2> QED BY <1>1, <2>1
<1>2. CASE Joins(row, placed)
  <2>1. row.at \in Canvas /\ remote \in Canvas /\ remote # row.at
    BY <1>2 DEF Joins, RemoteOf, Canvas
  <2> HIDE DEF remote
  <2>2. mine \in CanvasPairs
    BY <2>1, TwoMakeAPair
  <2> DEFINE t == PutLink(links, row, placed)
  <2>3. t = [links EXCEPT ![mine] = Redrawn(links[mine], row, remote)]
    BY <1>2 DEF PutLink, Redrawn, remote
  <2>4. Redrawn(links[mine], row, remote) \in Drawn
    <3>1. links[mine] \in Drawn \cup {NoLink}
      BY <2>2 DEF CanvasLinks
    <3> QED BY <3>1, <2>1, RedrawnIsDrawn
  <2> HIDE DEF t, mine
  <2>5. t \in CanvasLinks
    BY <2>2, <2>3, <2>4 DEF CanvasLinks
  <2>6. \A pair \in CanvasPairs :
           t[pair] = IF pair = mine THEN Redrawn(links[pair], row, remote) ELSE links[pair]
    BY <2>2, <2>3 DEF CanvasLinks
  <2> QED BY <1>2, <2>1, <2>2, <2>5, <2>6 DEF t, mine, remote
<1> QED BY <1>1, <1>2

\* r gives the links after the first k rows.
CanvasRun(r, rows, placed) ==
    /\ r \in [0..Len(rows) -> CanvasLinks]
    /\ r[0] = Unlinked /\ r[Len(rows)] =
           FoldLeft(LAMBDA links, row : PutLink(links, row, placed), Unlinked, rows)
    /\ \A k \in 1..Len(rows) : r[k] = PutLink(r[k - 1], rows[k], placed)

\* The rows are drawn one after another.
LEMMA CanvasSteps ==
    ASSUME NEW rows \in Seq(EditorRows), NEW placed \in SUBSET Canvas
    PROVE  \E r : CanvasRun(r, rows, placed)
<1> DEFINE n == Len(rows)
           T == CanvasLinks
           E == EditorRows
           op(t, e) == PutLink(t, e, placed)
           F == [p \in T \X E |-> op(p[1], p[2])]
           Fix(i) == i = [s \in SUBSET (DOMAIN rows) |->
                            IF s = {} THEN Unlinked ELSE op(i[s \ {Max(s)}], rows[Max(s)])]
           it == CHOOSE i : Fix(i)
<1>1. n \in Nat /\ rows \in [1..n -> E] /\ DOMAIN rows = 1..n /\ Unlinked \in T
  <2>1. rows \in Seq(E)
    OBVIOUS
  <2>2. Unlinked \in T
    BY DEF Unlinked, CanvasLinks
  <2> HIDE DEF E, T
  <2> QED BY <2>1, <2>2
<1>2. \A t \in T, e \in E : op(t, e) \in T /\ F[<<t, e>>] = op(t, e)

  <2> TAKE t \in T, e \in E
  <2>1. <<t, e>> \in T \X E
    OBVIOUS
  <2>2. F[<<t, e>>] = op(t, e)
    <3> HIDE DEF T, E, op
    <3> QED BY <2>1
  <2>4. PutLink(t, e, placed) \in T
    BY PutLinkIs
  <2> HIDE DEF T, F
  <2> QED BY <2>2, <2>4
<1>3. F \in [T \X E -> T]
  <2> HIDE DEF op, T, E
  <2> QED BY <1>2
<1>4. FoldLeft(LAMBDA links, row : PutLink(links, row, placed), Unlinked, rows) = it[1..n]
  BY <1>1 DEF Unlinked, FoldLeft, MapThenFoldSet
<1> HIDE DEF n, T, E, F, op
<1>5. PICK g : FoldSolution(g, T, F, Unlinked, n, rows)
  BY <1>1, <1>3, FoldHasSolution
<1>6. FoldStays(g, T, E, F, Unlinked, n, rows) /\ g \in [SUBSET (1..n) -> T]
  BY <1>1, <1>5, SolutionStays
<1>7. Fix(g)
  BY <1>1, <1>2, <1>6 DEF FoldStays
<1> HIDE DEF Fix
<1>8. Fix(it)
  BY <1>7
<1> HIDE DEF it
<1>9. FoldLike(it, T, F, Unlinked, n, rows)
  <2>1. \A s \in SUBSET (1..n) :
            it[s] = IF s = {} THEN Unlinked ELSE op(it[s \ {Max(s)}], rows[Max(s)])
    BY <1>1, <1>8 DEF Fix
  <2>2. 1..0 = {} /\ {} \in SUBSET (1..n)
    OBVIOUS
  <2>3. it[1..0] = Unlinked
    BY <2>1, <2>2
  <2>4. \A s \in SUBSET (1..n) : s # {} => rows[Max(s)] \in E
    BY <1>6 DEF FoldStays
  <2> QED BY <1>2, <2>1, <2>3, <2>4 DEF FoldLike
<1>10. FoldGives(it[1..n], T, F, Unlinked, n, rows)
  BY <1>1, <1>3, <1>9, FoldHasSteps
<1>11. PICK r : FoldSteps(r, T, F, Unlinked, n, rows) /\ r[n] =
           FoldLeft(LAMBDA links, row : PutLink(links, row, placed), Unlinked, rows)
  BY <1>10, <1>4 DEF FoldGives
<1>12. r \in [0..n -> T] /\ r[0] = Unlinked /\ \A k \in 1..n : r[k] = F[<<r[k - 1], rows[k]>>]
  BY <1>11 DEF FoldSteps
<1>13. \A k \in 1..n : r[k] = op(r[k - 1], rows[k])
  <2> TAKE k \in 1..n
  <2>1. r[k - 1] \in T /\ rows[k] \in E
    BY <1>1, <1>12
  <2> QED BY <2>1, <1>12, <1>2
<1> QED BY <1>11, <1>12, <1>13 DEF CanvasRun, n, T, op

\* The rows of the first k that join a pair.
JoinedBy(rows, k, placed, pair) ==
    {j \in 1..k : Joins(rows[j], placed) /\ {rows[j].at, RemoteOf(rows[j], placed)} = pair}

\* An end has a port of its own, if one of the first k rows told one.
EndTells(end, rows, k, placed, pair) ==
    /\ end.port \in PortsOf(end.at) \cup {NoPortName}
    /\ end.port # NoPortName
         <=> \E j \in JoinedBy(rows, k, placed, pair) : rows[j].at = end.at \/ rows[j].both

\* A link tells what the first k rows told.
LinkTells(link, rows, k, placed, pair) ==
    IF JoinedBy(rows, k, placed, pair) = {} THEN link = NoLink
    ELSE /\ link \in Drawn /\ link.basis = "neighbor"
         /\ link.a.at # link.b.at /\ {link.a.at, link.b.at} = pair
         /\ EndTells(link.a, rows, k, placed, pair) /\ EndTells(link.b, rows, k, placed, pair)

\* A port has a name.
LEMMA PortsHaveNames == \A c : \A p \in PortsOf(c) : p # NoPortName
BY DEF PortsOf, NoPortName

\* A row that joins the pair tells of both ends what it knows.
LEMMA RedrawnTells ==
    ASSUME NEW rows \in Seq(EditorRows), NEW k \in Nat, k + 1 \in DOMAIN rows,
           NEW placed \in SUBSET Canvas, NEW pair, NEW link,
           Joins(rows[k + 1], placed), pair = {rows[k + 1].at, RemoteOf(rows[k + 1], placed)},
           LinkTells(link, rows, k, placed, pair)
    PROVE  LinkTells(Redrawn(link, rows[k + 1], RemoteOf(rows[k + 1], placed)), rows, k + 1, placed, pair)
<1> DEFINE row == rows[k + 1]
           remote == RemoteOf(row, placed)
           m == k + 1
           own == <<row.at, 2>>
           other == <<remote, 1>>
           t == Redrawn(link, row, remote)
           J == JoinedBy(rows, k, placed, pair)
           told(end) == \E j \in J : rows[j].at = end \/ rows[j].both
<1>1. row \in EditorRows /\ row.at \in Canvas /\ remote \in Canvas /\ remote # row.at
      /\ pair = {row.at, remote} /\ row.both \in BOOLEAN
  <2>1. row \in EditorRows
    OBVIOUS
  <2>2. row.at \in Canvas /\ row.both \in BOOLEAN
    <3> HIDE DEF row
    <3> QED BY <2>1 DEF EditorRows, Canvas
  <2>3. remote \in Canvas /\ remote # row.at
    BY DEF Joins, RemoteOf, Canvas
  <2> QED BY <2>1, <2>2, <2>3
<1>2. own \in PortsOf(row.at) /\ other \in PortsOf(remote)
  BY DEF PortsOf
<1>3. own # NoPortName /\ other # NoPortName
  BY <1>2, PortsHaveNames
<1>4. JoinedBy(rows, m, placed, pair) = J \cup {m}
  <2>1. 1..m = 1..k \cup {m} /\ rows[m] = row
    OBVIOUS
  <2>2. Joins(rows[m], placed) /\ {rows[m].at, RemoteOf(rows[m], placed)} = pair
    OBVIOUS
  <2> HIDE DEF m
  <2> QED BY <2>1, <2>2 DEF JoinedBy
<1>5. ASSUME NEW end PROVE (\E j \in J \cup {m} : rows[j].at = end \/ rows[j].both)
                           <=> (told(end) \/ row.at = end \/ row.both)
  BY DEF m
<1>6. link = NoLink <=> J = {}
  BY DEF LinkTells, Drawn, NoLink
<1>7. t \in Drawn
  <2>1. link \in Drawn \cup {NoLink}
    BY <1>6 DEF LinkTells
  <2> HIDE DEF row, remote
  <2> QED BY <1>1, <2>1, RedrawnIsDrawn
<1> HIDE DEF row, remote, J
<1>8. CASE J = {}
  <2>1. t = [basis |-> "neighbor", a |-> [at |-> row.at, port |-> own],
             b |-> [at |-> remote, port |-> IF row.both THEN other ELSE NoPortName]]
    BY <1>6, <1>8 DEF Redrawn
  <2>2. t.basis = "neighbor" /\ t.a.at = row.at /\ t.b.at = remote /\ t.a.port = own
        /\ t.b.port = IF row.both THEN other ELSE NoPortName
    BY <2>1
  <2> HIDE DEF t, own, other, m
  <2>3. EndTells(t.a, rows, m, placed, pair)
    BY <2>2, <1>2, <1>3, <1>4, <1>5 DEF EndTells
  <2>4. EndTells(t.b, rows, m, placed, pair)
    <3>1. ~told(remote)
      BY <1>8
    <3> HIDE DEF told
    <3> QED BY <2>2, <1>1, <1>2, <1>3, <1>4, <1>5, <3>1 DEF EndTells
  <2>5. LinkTells(t, rows, m, placed, pair)
    BY <2>2, <2>3, <2>4, <1>1, <1>4, <1>7 DEF LinkTells
  <2> QED BY <2>5 DEF t, m, row, remote
<1>9. CASE J # {}
  <2>1. /\ link \in Drawn /\ link.basis = "neighbor"
        /\ link.a.at # link.b.at /\ {link.a.at, link.b.at} = pair
        /\ EndTells(link.a, rows, k, placed, pair) /\ EndTells(link.b, rows, k, placed, pair)
    BY <1>9 DEF LinkTells, J
  <2> DEFINE f == FillPorts(link, row.at, own)
             g == FillPorts(f, remote, other)
  <2>2. t = IF row.both THEN g ELSE f
    BY <1>6, <1>9 DEF Redrawn
  <2> HIDE DEF own, other
  <2>3. /\ f \in Drawn /\ f.basis = link.basis /\ f.a.at = link.a.at /\ f.b.at = link.b.at
        /\ f.a.port = IF link.a.at = row.at /\ link.a.port = NoPortName THEN own ELSE link.a.port
        /\ f.b.port = IF link.b.at = row.at /\ link.b.port = NoPortName THEN own ELSE link.b.port
    BY <1>1, <1>2, <2>1, PortsFilled
  <2> HIDE DEF f
  <2>4. /\ g \in Drawn /\ g.basis = f.basis /\ g.a.at = f.a.at /\ g.b.at = f.b.at
        /\ g.a.port = IF f.a.at = remote /\ f.a.port = NoPortName THEN other ELSE f.a.port
        /\ g.b.port = IF f.b.at = remote /\ f.b.port = NoPortName THEN other ELSE f.b.port
    <3>1. f.a.at # f.b.at
      BY <2>1, <2>3
    <3> QED BY <1>1, <1>2, <2>3, <3>1, PortsFilled
  <2> HIDE DEF g, t, told
  <2>5. t \in Drawn /\ t.basis = "neighbor" /\ t.a.at = link.a.at /\ t.b.at = link.b.at
    BY <2>1, <2>2, <2>3, <2>4
  <2>6. /\ (link.a.at = row.at /\ link.b.at = remote) \/ (link.a.at = remote /\ link.b.at = row.at)
    BY <2>1, <1>1
  <2>7. /\ t.a.port = IF link.a.port = NoPortName
                      THEN IF link.a.at = row.at THEN own
                           ELSE IF row.both THEN other ELSE NoPortName
                      ELSE link.a.port
        /\ t.b.port = IF link.b.port = NoPortName
                      THEN IF link.b.at = row.at THEN own
                           ELSE IF row.both THEN other ELSE NoPortName
                      ELSE link.b.port
    BY <2>2, <2>3, <2>4, <2>6, <1>1, <1>3
  <2>8. /\ link.a.port \in PortsOf(link.a.at) \cup {NoPortName}
        /\ link.a.port # NoPortName <=> told(link.a.at)
        /\ link.b.port \in PortsOf(link.b.at) \cup {NoPortName}
        /\ link.b.port # NoPortName <=> told(link.b.at)
    BY <2>1 DEF EndTells, told, J
  <2> HIDE DEF m
  <2>9. EndTells(t.a, rows, m, placed, pair)
    <3>1. t.a.port \in PortsOf(t.a.at) \cup {NoPortName}
      BY <2>5, <2>6, <2>7, <2>8, <1>2
    <3>2. t.a.port # NoPortName <=> (told(t.a.at) \/ row.at = t.a.at \/ row.both)
      BY <2>5, <2>6, <2>7, <2>8, <1>1, <1>3
    <3> QED BY <3>1, <3>2, <1>4, <1>5 DEF EndTells
  <2>10. EndTells(t.b, rows, m, placed, pair)
    <3>1. t.b.port \in PortsOf(t.b.at) \cup {NoPortName}
      BY <2>5, <2>6, <2>7, <2>8, <1>2
    <3>2. t.b.port # NoPortName <=> (told(t.b.at) \/ row.at = t.b.at \/ row.both)
      BY <2>5, <2>6, <2>7, <2>8, <1>1, <1>3
    <3> QED BY <3>1, <3>2, <1>4, <1>5 DEF EndTells
  <2>11. LinkTells(t, rows, m, placed, pair)
    BY <2>1, <2>5, <2>9, <2>10, <1>4 DEF LinkTells
  <2> QED BY <2>11 DEF t, m, row, remote
<1> QED BY <1>8, <1>9

\* After the rows every link tells what they told.
LEMMA RowsAreDrawn ==
    ASSUME NEW rows \in Seq(EditorRows), NEW placed \in SUBSET Canvas
    PROVE  \E links \in CanvasLinks :
              /\ links = FoldLeft(LAMBDA ls, row : PutLink(ls, row, placed), Unlinked, rows)
              /\ \A pair \in CanvasPairs : LinkTells(links[pair], rows, Len(rows), placed, pair)
<1> DEFINE n == Len(rows)
           fold == FoldLeft(LAMBDA ls, row : PutLink(ls, row, placed), Unlinked, rows)
<1>1. PICK r : CanvasRun(r, rows, placed)
  BY CanvasSteps
<1>2. /\ r \in [0..n -> CanvasLinks] /\ r[0] = Unlinked /\ r[n] = fold
      /\ \A k \in 1..n : r[k] = PutLink(r[k - 1], rows[k], placed)
  BY <1>1 DEF CanvasRun
<1>3. n \in Nat /\ DOMAIN rows = 1..n
  OBVIOUS
<1> HIDE DEF n, fold
<1> DEFINE Good == {k \in 0..n : \A pair \in CanvasPairs : LinkTells(r[k][pair], rows, k, placed, pair)}
<1>5. 0 \in Good
  <2>1. \A pair \in CanvasPairs : JoinedBy(rows, 0, placed, pair) = {} /\ r[0][pair] = NoLink
    BY <1>2 DEF JoinedBy, Unlinked
  <2> QED BY <2>1, <1>3 DEF LinkTells
<1>6. ASSUME NEW k \in 0..(n - 1), k \in Good PROVE k + 1 \in Good
  <2> DEFINE row == rows[k + 1]
             remote == RemoteOf(row, placed)
  <2>1. k + 1 \in 1..n /\ (k + 1) - 1 = k /\ k \in 0..n /\ k + 1 \in 0..n /\ k \in Nat
        /\ 1..(k + 1) = 1..k \cup {k + 1}
    BY <1>3
  <2>2. r[k] \in CanvasLinks /\ k + 1 \in DOMAIN rows /\ row \in EditorRows
        /\ r[k + 1] = PutLink(r[k], row, placed)
        /\ \A pair \in CanvasPairs : LinkTells(r[k][pair], rows, k, placed, pair)
    BY <2>1, <1>2, <1>3, <1>6
  <2>3. ASSUME NEW pair \in CanvasPairs PROVE LinkTells(r[k + 1][pair], rows, k + 1, placed, pair)
    <3>1. CASE Joins(row, placed) /\ pair = {row.at, remote}
      <4>1. r[k + 1][pair] = Redrawn(r[k][pair], row, remote)
        BY <2>2, <3>1, PutLinkIs
      <4>2. LinkTells(r[k][pair], rows, k, placed, pair)
        BY <2>2
      <4>3. LinkTells(Redrawn(r[k][pair], row, remote), rows, k + 1, placed, pair)
        BY <4>2, <3>1, <2>1, <2>2, RedrawnTells
      <4> QED BY <4>1, <4>3
    <3>2. CASE ~(Joins(row, placed) /\ pair = {row.at, remote})
      <4>1. r[k + 1][pair] = r[k][pair]
        <5>1. CASE Joins(row, placed)
          <6>1. PutLink(r[k], row, placed)[pair]
                  = IF pair = {row.at, remote} THEN Redrawn(r[k][pair], row, remote) ELSE r[k][pair]
            BY <5>1, <2>2, PutLinkIs
          <6> HIDE DEF row, remote
          <6> QED BY <6>1, <2>2, <3>2, <5>1
        <5>2. CASE ~Joins(row, placed)
          BY <5>2, <2>2, PutLinkIs
        <5> QED BY <5>1, <5>2
      <4>2. JoinedBy(rows, k + 1, placed, pair) = JoinedBy(rows, k, placed, pair)
        BY <3>2, <2>1 DEF JoinedBy
      <4>3. LinkTells(r[k][pair], rows, k, placed, pair)
        BY <2>2
      <4> QED BY <4>1, <4>2, <4>3 DEF LinkTells, EndTells
    <3> QED BY <3>1, <3>2
  <2> QED BY <2>1, <2>3
<1> HIDE DEF Good
<1>7. n \in Good
  <2>1. 0..n \subseteq Good
    BY <1>3, <1>5, <1>6, UpToInSet
  <2> QED BY <2>1, <1>3
<1>8. \A pair \in CanvasPairs : LinkTells(fold[pair], rows, n, placed, pair)
  BY <1>7, <1>2 DEF Good
<1>9. fold \in CanvasLinks
  BY <1>2, <1>3
<1> QED BY <1>8, <1>9 DEF n, fold

\* What AutolinkTellsWhatRowsTell says of a canvas, its rows and a sighting.
CanvasTold(placed, told, sight) ==
    LET links == Autolink(placed, told, sight)
        rows(pair) == {row \in ToSet(told) :
                         Joins(row, placed) /\ {row.at, RemoteOf(row, placed)} = pair}
        seen(pair) == /\ pair = {sight.at, "F"} /\ pair \subseteq placed
                      /\ ~sight.uplink
        known(pair, end) == \E row \in rows(pair) : row.at = end \/ row.both
    IN  \A pair \in CanvasPairs :
          LET link == links[pair]
          IN  /\ link.basis = IF rows(pair) # {} THEN "neighbor"
                              ELSE IF seen(pair) THEN "mac" ELSE "none"
              /\ link # NoLink =>
                   /\ {link.a.at, link.b.at} = pair
                   /\ \A end \in {link.a, link.b} :
                        /\ end.port \in PortsOf(end.at) \cup {NoPortName}
                        /\ link.basis = "neighbor" =>
                             (end.port # NoPortName <=> known(pair, end.at))

\* Two devices are joined if a row says so and not otherwise, for any rows.
LEMMA AutolinkAnswer == AskAutolink => AutolinkTellsWhatRowsTell'
<1> SUFFICES ASSUME AskAutolink PROVE AutolinkTellsWhatRowsTell'
  OBVIOUS
<1> DEFINE Sights == [at : {"A", "nobody"}, uplink : BOOLEAN]
<1>1. PICK placed \in SUBSET Canvas, told \in SeqOf(EditorRows, MaxLen["autolink"]), sight \in Sights :
          question' = [of |-> "autolink", placed |-> placed, rows |-> told, sight |-> sight]
  <2> DEFINE P == {c \in SUBSET Canvas : Cardinality(c) >= 2}
             Q == SeqOf(EditorRows, MaxLen["autolink"])
  <2>1. question' \in [of : {"autolink"}, placed : P, rows : Q, sight : Sights]
    BY DEF AskAutolink
  <2>2. P \subseteq SUBSET Canvas
    OBVIOUS
  <2> HIDE DEF P, Q, Sights
  <2>3. PICK p \in P, q \in Q, s \in Sights :
           question' = [of |-> "autolink", placed |-> p, rows |-> q, sight |-> s]
    BY <2>1
  <2> QED BY <2>2, <2>3 DEF Q
<1>2. told \in Seq(EditorRows) /\ DOMAIN told = 1..Len(told) /\ Len(told) \in Nat
  <2>1. MaxLen["autolink"] \in Nat
    BY QuestionsAssumption DEF ListQuestions
  <2> QED BY <2>1, ListOfUpTo
<1>3. sight.at \in {"A", "nobody"} /\ sight.uplink \in BOOLEAN
  OBVIOUS
<1> DEFINE links == Autolink(placed, told, sight)
           rows(pair) == {row \in ToSet(told) :
                            Joins(row, placed) /\ {row.at, RemoteOf(row, placed)} = pair}
           seen(pair) == /\ pair = {sight.at, "F"} /\ pair \subseteq placed
                         /\ ~sight.uplink
           known(pair, end) == \E row \in rows(pair) : row.at = end \/ row.both
           J(pair) == JoinedBy(told, Len(told), placed, pair)
<1>4. PICK drawn \in CanvasLinks :
         /\ drawn = FoldLeft(LAMBDA ls, row : PutLink(ls, row, placed), Unlinked, told)
         /\ \A pair \in CanvasPairs : LinkTells(drawn[pair], told, Len(told), placed, pair)
  BY <1>2, RowsAreDrawn
<1>5. links = PutSighting(drawn, placed, sight)
  BY <1>4 DEF Autolink, Unlinked
<1>6. \A pair : /\ \A j \in J(pair) : told[j] \in rows(pair)
                /\ \A row \in rows(pair) : \E j \in J(pair) : row = told[j]
  <2>1. \A j \in 1..Len(told) : told[j] \in ToSet(told)
    BY <1>2 DEF ToSet
  <2>2. \A row \in ToSet(told) : \E j \in 1..Len(told) : row = told[j]
    BY <1>2 DEF ToSet
  <2> QED BY <2>1, <2>2 DEF JoinedBy
<1> HIDE DEF rows
<1>7. \A pair : /\ rows(pair) = {} <=> J(pair) = {}
                /\ \A end : known(pair, end) <=> \E j \in J(pair) : told[j].at = end \/ told[j].both
  <2> HIDE DEF J
  <2> QED BY <1>6
<1> HIDE DEF J, known, links
<1>8. ASSUME NEW pair \in CanvasPairs
      PROVE  /\ links[pair].basis = IF rows(pair) # {} THEN "neighbor"
                                    ELSE IF seen(pair) THEN "mac" ELSE "none"
             /\ links[pair] # NoLink =>
                  /\ {links[pair].a.at, links[pair].b.at} = pair
                  /\ \A end \in {links[pair].a, links[pair].b} :
                       /\ end.port \in PortsOf(end.at) \cup {NoPortName}
                       /\ links[pair].basis = "neighbor" =>
                            (end.port # NoPortName <=> known(pair, end.at))
  <2>1. LinkTells(drawn[pair], told, Len(told), placed, pair)
    BY <1>4
  <2>2. CASE rows(pair) # {}
    <3>1. J(pair) # {}
      BY <2>2, <1>7
    <3>2. /\ drawn[pair] \in Drawn /\ drawn[pair].basis = "neighbor"
          /\ {drawn[pair].a.at, drawn[pair].b.at} = pair
          /\ EndTells(drawn[pair].a, told, Len(told), placed, pair)
          /\ EndTells(drawn[pair].b, told, Len(told), placed, pair)
      BY <3>1, <2>1 DEF LinkTells, J
    <3>3. drawn[pair] # NoLink
      BY <3>2 DEF NoLink
    <3>4. links[pair] = drawn[pair]
      BY <3>3, <1>5 DEF PutSighting, CanvasLinks
    <3>5. \A end \in {drawn[pair].a, drawn[pair].b} :
            /\ end.port \in PortsOf(end.at) \cup {NoPortName}
            /\ end.port # NoPortName <=> known(pair, end.at)
      BY <3>2, <1>7 DEF EndTells, J
    <3> QED BY <3>2, <3>4, <3>5, <2>2
  <2>3. CASE rows(pair) = {} /\ seen(pair)
    <3>1. drawn[pair] = NoLink
      BY <2>1, <2>3, <1>7 DEF LinkTells, J
    <3>2. pair = {sight.at, "F"} /\ "F" \in placed /\ sight.at \in placed /\ ~sight.uplink
      BY <2>3
    <3> DEFINE x == [basis |-> "mac", a |-> [at |-> sight.at, port |-> <<sight.at, 1>>],
                     b |-> [at |-> "F", port |-> NoPortName]]
    <3>3. links = [drawn EXCEPT ![pair] = x]
      BY <3>1, <3>2, <1>5 DEF PutSighting
    <3>4. links[pair] = x
      <4> HIDE DEF x
      <4> QED BY <3>3 DEF CanvasLinks
    <3>5. x.basis = "mac" /\ x.a.at = sight.at /\ x.b.at = "F" /\ x.a.port = <<sight.at, 1>>
          /\ x.b.port = NoPortName
      OBVIOUS
    <3>6. <<sight.at, 1>> \in PortsOf(sight.at)
      BY DEF PortsOf
    <3> HIDE DEF x
    <3> QED BY <3>2, <3>4, <3>5, <3>6, <2>3
  <2>4. CASE rows(pair) = {} /\ ~seen(pair)
    <3>1. drawn[pair] = NoLink
      BY <2>1, <2>4, <1>7 DEF LinkTells, J
    <3>2. links[pair] = drawn[pair]
      BY <2>4, <1>5 DEF PutSighting, CanvasLinks
    <3>3. NoLink.basis = "none"
      BY DEF NoLink
    <3> QED BY <3>1, <3>2, <3>3, <2>4
  <2> QED BY <2>2, <2>3, <2>4
<1>9. CanvasTold(placed, told, sight)
  BY <1>8 DEF CanvasTold, links, rows, seen, known
<1>10. /\ question'.placed = placed /\ question'.rows = told /\ question'.sight = sight
  BY <1>1
<1>11. CanvasTold(question'.placed, question'.rows, question'.sight)
  BY <1>9, <1>10
<1> QED BY <1>11 DEF AutolinkTellsWhatRowsTell, CanvasTold

-----------------------------------------------------------------------------
(* The depth of the nodes: the queue of build_topology visits them by distance. *)

\* r goes from base on by G, n times.
Walks(r, T, G, base, n) ==
    r \in [0..n -> T] /\ r[0] = base /\ \A k \in 1..n : r[k] = G[r[k - 1]]

\* A function can be applied any number of times.
LEMMA WalkExists ==
    ASSUME NEW T, NEW G \in [T -> T], NEW base \in T, NEW n \in Nat
    PROVE  \E r : Walks(r, T, G, base, n)
<1> DEFINE Good == {k \in 0..n : \E r : Walks(r, T, G, base, k)}
<1>1. 0 \in Good
  <2> DEFINE r == [i \in 0..0 |-> base]
  <2>1. r \in [0..0 -> T] /\ r[0] = base /\ 1..0 = {}
    OBVIOUS
  <2> HIDE DEF r
  <2>2. Walks(r, T, G, base, 0)
    BY <2>1 DEF Walks
  <2> QED BY <2>2
<1>2. ASSUME NEW k \in 0..(n - 1), k \in Good PROVE k + 1 \in Good
  <2>1. PICK r : Walks(r, T, G, base, k)
    BY <1>2
  <2>2. r \in [0..k -> T] /\ r[0] = base /\ \A i \in 1..k : r[i] = G[r[i - 1]]
    BY <2>1 DEF Walks
  <2> DEFINE m == k + 1
             s == [i \in 0..m |-> IF i = m THEN G[r[k]] ELSE r[i]]
  <2>3. k \in 0..k /\ m \in Nat /\ 0 # m /\ \A i \in 0..m : i = m \/ i \in 0..k
    OBVIOUS
  <2>4. s \in [0..m -> T] /\ s[m] = G[r[k]] /\ \A i \in 0..k : s[i] = r[i]
    BY <2>2, <2>3
  <2> HIDE DEF s
  <2>5. \A i \in 1..m : s[i] = G[s[i - 1]]
    <3> TAKE i \in 1..m
    <3>1. CASE i = m
      <4>1. i - 1 = k
        BY <3>1
      <4> QED BY <3>1, <4>1, <2>3, <2>4
    <3>2. CASE i # m
      <4>1. i \in 1..k /\ i \in 0..k /\ i - 1 \in 0..k
        BY <3>2
      <4> QED BY <4>1, <2>2, <2>4
    <3> QED BY <3>1, <3>2
  <2>6. s[0] = base
    <3>1. 0 \in 0..k
      OBVIOUS
    <3> QED BY <3>1, <2>2, <2>4
  <2>7. Walks(s, T, G, base, m)
    BY <2>4, <2>5, <2>6 DEF Walks
  <2> QED BY <2>7
<1> HIDE DEF Good
<1>3. 0..n \subseteq Good
  BY <1>1, <1>2, UpToInSet
<1> QED BY <1>3 DEF Good

\* The walk over the nodes: a queue and the depths so far.
WalkStates == [queue : Seq(TopoNodes), depth : [TopoNodes -> Int]]

\* The bound on the passes of the queue: every node leaves it once.
Steps == Cardinality(TopoNodes)

\* One pass, also over a queue that is empty.
Visited(s, links) == IF s.queue = <<>> THEN s ELSE Visit(s, links)

\* The nodes that a pass is the first to meet.
NewOnes(s, links) == {k \in Adjacent(links, Head(s.queue)) : s.depth[k] = NoDepth}

\* The bound is a number.
LEMMA StepsIsNat == Steps \in Nat /\ IsFiniteSet(TopoNodes)
BY TopologyAssumption, FS_CardinalityType DEF Steps

\* One pass.
VisitOk(s, t, new, links) ==
    /\ t.queue = Tail(s.queue) \o new
    /\ t.depth = [k \in TopoNodes |-> IF k \in NewOnes(s, links) THEN s.depth[Head(s.queue)] + 1
                                      ELSE s.depth[k]]
    /\ new \in Seq(TopoNodes) /\ ToSet(new) = NewOnes(s, links)
    /\ \A i, j \in DOMAIN new : new[i] = new[j] => i = j

\* A pass gives each new node a depth that is one more than its own, and
\* appends it to the queue.
LEMMA VisitIs ==
    ASSUME NEW links, NEW s \in WalkStates, s.queue # <<>>
    PROVE  /\ Visit(s, links) \in WalkStates
           /\ VisitOk(s, Visit(s, links), SetToSeq(NewOnes(s, links)), links)
<1> DEFINE N == NewOnes(s, links)
           new == SetToSeq(N)
           here == s.depth[Head(s.queue)]
           t == Visit(s, links)
<1>1. N \subseteq TopoNodes /\ IsFiniteSet(N)
  <2>1. N \subseteq TopoNodes
    BY DEF NewOnes, Adjacent
  <2> QED BY <2>1, StepsIsNat, FS_Subset
<1>2. s.queue \in Seq(TopoNodes) /\ s.depth \in [TopoNodes -> Int]
  BY DEF WalkStates
<1> HIDE DEF N
<1>3. /\ new \in Seq(N) /\ Len(new) = Cardinality(N) /\ Cardinality(N) \in Nat /\ ToSet(new) = N
      /\ \A i, j \in 1..Cardinality(N) : new[i] = new[j] => i = j
  BY <1>1, ListOfSet
<1> HIDE DEF new
<1>4. new \in Seq(TopoNodes) /\ DOMAIN new = 1..Cardinality(N)
  BY <1>1, <1>3, SeqMonotonic
<1>5. \A k : Contains(new, k) <=> k \in N
  <2>1. \A k : Contains(new, k) <=> k \in ToSet(new)
    BY <1>3, <1>4 DEF Contains, ToSet
  <2> QED BY <2>1, <1>3
<1>6. Tail(s.queue) \in Seq(TopoNodes) /\ Head(s.queue) \in TopoNodes
  BY <1>2
<1>7. here \in Int
  BY <1>2, <1>6
<1>8. t = [queue |-> Tail(s.queue) \o new,
           depth |-> [k \in TopoNodes |-> IF Contains(new, k) THEN here + 1 ELSE s.depth[k]]]
  BY DEF Visit, new, N, NewOnes
<1>9. t.queue = Tail(s.queue) \o new
      /\ t.depth = [k \in TopoNodes |-> IF k \in N THEN here + 1 ELSE s.depth[k]]
  <2>1. [k \in TopoNodes |-> IF Contains(new, k) THEN here + 1 ELSE s.depth[k]]
        = [k \in TopoNodes |-> IF k \in N THEN here + 1 ELSE s.depth[k]]
    BY <1>5
  <2> HIDE DEF t, here
  <2> QED BY <2>1, <1>8
<1>10. t \in WalkStates
  <2>1. Tail(s.queue) \o new \in Seq(TopoNodes)
    BY <1>4, <1>6
  <2>2. [k \in TopoNodes |-> IF Contains(new, k) THEN here + 1 ELSE s.depth[k]] \in [TopoNodes -> Int]
    <3> HIDE DEF here
    <3> QED BY <1>2, <1>7
  <2> HIDE DEF t, here
  <2> QED BY <2>1, <2>2, <1>8 DEF WalkStates
<1> HIDE DEF t, here
<1>11. VisitOk(s, t, new, links)
  BY <1>3, <1>4, <1>9 DEF VisitOk, here, N
<1> QED BY <1>10, <1>11 DEF t, new, N

\* The passes of VisitAll.
PassesOf(r, state, links) ==
    /\ r[0] = state /\ \A n \in 1..Steps : r[n] = Visited(r[n - 1], links)
    /\ \A n \in 0..Steps : r[n] \in WalkStates
    /\ VisitAll(state, links) = r[Steps].depth

\* The passes of the queue are a run of Visited.
LEMMA PassesAre ==
    ASSUME NEW links, NEW state \in WalkStates
    PROVE  \E r : PassesOf(r, state, links)
<1> DEFINE T == WalkStates
           G == [t \in T |-> Visited(t, links)]
           Fix(f) == f = [n \in 0..Steps |->
                            IF n = 0 THEN state ELSE Visited(f[n - 1], links)]
           it == CHOOSE f : Fix(f)
<1>1. G \in [T -> T]
  <2>1. \A t \in T : Visited(t, links) \in T
    BY VisitIs DEF Visited
  <2> QED BY <2>1
<1>2. VisitAll(state, links) = it[Steps].depth
  BY DEF VisitAll, Visited, Steps
<1> HIDE DEF T
<1>3. PICK g : Walks(g, T, G, state, Steps)
  <2>1. state \in T
    BY DEF T
  <2> HIDE DEF G
  <2> QED BY <2>1, <1>1, StepsIsNat, WalkExists
<1>4. g \in [0..Steps -> T] /\ g[0] = state /\ \A n \in 1..Steps : g[n] = Visited(g[n - 1], links)
  <2>1. g \in [0..Steps -> T] /\ g[0] = state /\ \A n \in 1..Steps : g[n] = G[g[n - 1]]
    BY <1>3 DEF Walks
  <2>2. \A n \in 1..Steps : n - 1 \in 0..Steps
    BY StepsIsNat
  <2>3. \A n \in 1..Steps : g[n - 1] \in T
    BY <2>1, <2>2
  <2> QED BY <2>1, <2>3
<1>5. Fix(g)
  <2>1. \A n \in 0..Steps : g[n] = IF n = 0 THEN state ELSE Visited(g[n - 1], links)
    BY <1>4, StepsIsNat
  <2> QED BY <2>1, <1>4
<1> HIDE DEF Fix
<1>6. Fix(it)
  BY <1>5
<1> HIDE DEF it
<1>7. \A n \in 0..Steps : it[n] = IF n = 0 THEN state ELSE Visited(it[n - 1], links)
  BY <1>6 DEF Fix
<1>8. it[0] = state /\ \A n \in 1..Steps : it[n] = Visited(it[n - 1], links)
  BY <1>7, StepsIsNat
<1> DEFINE Good == {n \in 0..Steps : it[n] \in T}
<1>9. 0..Steps \subseteq Good
  <2>1. 0 \in Good
    BY <1>8, StepsIsNat DEF T
  <2>2. ASSUME NEW n \in 0..(Steps - 1), n \in Good PROVE n + 1 \in Good
    <3>1. n + 1 \in 1..Steps /\ (n + 1) - 1 = n /\ n + 1 \in 0..Steps /\ n \in 0..Steps
      BY StepsIsNat
    <3>2. it[n + 1] = Visited(it[n], links) /\ it[n] \in T
      BY <3>1, <1>8, <2>2
    <3>3. G[it[n]] \in T /\ G[it[n]] = Visited(it[n], links)
      BY <3>2, <1>1
    <3> QED BY <3>1, <3>2, <3>3
  <2> HIDE DEF Good
  <2> QED BY <2>1, <2>2, StepsIsNat, UpToInSet
<1>10. PassesOf(it, state, links)
  BY <1>2, <1>8, <1>9 DEF PassesOf, T
<1> QED BY <1>10

\* What the walk keeps.  q: its queue; d: the depths so far.
SeenBy(d) == {k \in TopoNodes : d[k] # NoDepth}

\* The nodes that left the queue.
DoneBy(q, d) == {k \in SeenBy(d) : \A i \in DOMAIN q : q[i] # k}

\* The queue has each node once, by depth, and no node is deeper than one more
\* than any that waits.
QueueOk(q, d) ==
    /\ \A i \in DOMAIN q : q[i] \in SeenBy(d)
    /\ \A i, j \in DOMAIN q : q[i] = q[j] => i = j
    /\ \A i, j \in DOMAIN q : i <= j => d[q[i]] <= d[q[j]]
    /\ \A i \in DOMAIN q : \A k \in SeenBy(d) : d[k] <= d[q[i]] + 1

\* Each node with a depth but the root has a neighbour one step nearer.
DepthOk(d, links, root) ==
    /\ d \in [TopoNodes -> Nat \cup {NoDepth}] /\ root \in TopoNodes /\ d[root] = 0
    /\ \A k \in SeenBy(d) :
         \/ k = root
         \/ \E m \in SeenBy(d) : k \in Adjacent(links, m) /\ d[k] = d[m] + 1

\* The neighbours of the nodes that left the queue have a depth.
ClosedBy(q, d, links) ==
    \A k \in DoneBy(q, d) : \A m \in Adjacent(links, k) : m \in SeenBy(d) /\ d[m] <= d[k] + 1

\* The invariant of the passes.
WalkOk(q, d, links, root) ==
    /\ q \in Seq(TopoNodes)
    /\ QueueOk(q, d) /\ DepthOk(d, links, root) /\ ClosedBy(q, d, links)

\* The parts of a queue that drops its first element and takes new ones.
LEMMA QueueIs ==
    ASSUME NEW S, NEW q \in Seq(S), q # <<>>, NEW new \in Seq(S)
    PROVE  LET t == Tail(q) \o new
           IN  /\ t \in Seq(S)
               /\ \A i \in DOMAIN t :
                    \/ i \in 1..(Len(q) - 1) /\ i + 1 \in DOMAIN q /\ t[i] = q[i + 1]
                    \/ i \notin 1..(Len(q) - 1) /\ i - (Len(q) - 1) \in DOMAIN new
                       /\ t[i] = new[i - (Len(q) - 1)] /\ Len(q) <= i
               /\ \A i \in DOMAIN q : i # 1 => i - 1 \in DOMAIN t /\ t[i - 1] = q[i]
               /\ \A i \in DOMAIN new : \E j \in DOMAIN t : t[j] = new[i]
               /\ DOMAIN t \subseteq Nat /\ 1 \in DOMAIN q /\ DOMAIN q \subseteq Nat \ {0}
               /\ Head(q) = q[1]
<1> DEFINE a == Tail(q)
           t == a \o new
           n == Len(q) - 1
<1>1. /\ a \in Seq(S) /\ Len(q) \in Nat \ {0} /\ n \in Nat /\ Len(a) = n
      /\ \A i \in 1..n : a[i] = q[i + 1]
      /\ Head(q) = q[1] /\ Len(new) \in Nat
  BY HeadTailProperties, LenProperties, EmptySeq
<1> HIDE DEF a
<1>2. /\ t \in Seq(S) /\ Len(t) = n + Len(new)
      /\ \A i \in 1..(n + Len(new)) : t[i] = IF i <= n THEN a[i] ELSE new[i - n]
  BY <1>1, ConcatProperties
<1> HIDE DEF t
<1>3. /\ DOMAIN t = 1..(n + Len(new)) /\ DOMAIN q = 1..(n + 1) /\ DOMAIN new = 1..Len(new)
  BY <1>1, <1>2, LenProperties
<1>4. \A i \in DOMAIN t :
                    \/ i \in 1..n /\ i + 1 \in DOMAIN q /\ t[i] = q[i + 1]
                    \/ i \notin 1..n /\ i - n \in DOMAIN new
                       /\ t[i] = new[i - n] /\ Len(q) <= i
  <2> TAKE i \in DOMAIN t
  <2>1. CASE i \in 1..n
    <3>1. i <= n /\ i + 1 \in DOMAIN q /\ i \in 1..(n + Len(new))
      BY <1>1, <1>3, <2>1
    <3> QED BY <3>1, <1>1, <1>2, <2>1
  <2>2. CASE i \notin 1..n
    <3>1. ~(i <= n) /\ i - n \in DOMAIN new /\ i \in 1..(n + Len(new)) /\ Len(q) <= i
      BY <1>1, <1>3, <2>2
    <3> QED BY <3>1, <1>1, <1>2, <2>2
  <2> QED BY <2>1, <2>2
<1>5. \A i \in DOMAIN q : i # 1 => i - 1 \in DOMAIN t /\ t[i - 1] = q[i]
  <2> TAKE i \in DOMAIN q
  <2> HAVE i # 1
  <2>1. i - 1 \in 1..n /\ i - 1 \in 1..(n + Len(new)) /\ i - 1 <= n /\ (i - 1) + 1 = i
    BY <1>1, <1>3
  <2> QED BY <2>1, <1>1, <1>2, <1>3
<1>6. \A i \in DOMAIN new : \E j \in DOMAIN t : t[j] = new[i]
  <2> TAKE i \in DOMAIN new
  <2>1. i + n \in 1..(n + Len(new)) /\ ~(i + n <= n) /\ (i + n) - n = i
    BY <1>1, <1>3
  <2>2. t[i + n] = new[i]
    BY <2>1, <1>2
  <2> QED BY <2>1, <2>2, <1>3
<1>7. DOMAIN t \subseteq Nat /\ 1 \in DOMAIN q /\ DOMAIN q \subseteq Nat \ {0}
  BY <1>1, <1>3
<1> QED BY <1>1, <1>2, <1>4, <1>5, <1>6, <1>7 DEF t, a

\* A pass keeps what the walk keeps, and finishes the node at the head.
LEMMA PassIsOk ==
    ASSUME NEW links, NEW root, NEW q, NEW d, WalkOk(q, d, links, root), q # <<>>,
           NEW new \in Seq(TopoNodes),
           ToSet(new) = {k \in Adjacent(links, Head(q)) : d[k] = NoDepth},
           \A i, j \in DOMAIN new : new[i] = new[j] => i = j,
           NEW e, e = [k \in TopoNodes |->
                         IF k \in {l \in Adjacent(links, Head(q)) : d[l] = NoDepth}
                         THEN d[Head(q)] + 1 ELSE d[k]]
    PROVE  /\ WalkOk(Tail(q) \o new, e, links, root)
           /\ Head(q) \notin DoneBy(q, d)
           /\ DoneBy(Tail(q) \o new, e) = DoneBy(q, d) \cup {Head(q)}
<1> DEFINE h == Head(q)
           N == {k \in Adjacent(links, h) : d[k] = NoDepth}
           t == Tail(q) \o new
           n == Len(q) - 1
           S == SeenBy(d)
<1>1. q \in Seq(TopoNodes) /\ QueueOk(q, d) /\ DepthOk(d, links, root) /\ ClosedBy(q, d, links)
  BY DEF WalkOk
<1>2. /\ t \in Seq(TopoNodes)
      /\ \A i \in DOMAIN t :
           \/ i \in 1..n /\ i + 1 \in DOMAIN q /\ t[i] = q[i + 1]
           \/ i \notin 1..n /\ i - n \in DOMAIN new /\ t[i] = new[i - n] /\ Len(q) <= i
      /\ \A i \in DOMAIN q : i # 1 => i - 1 \in DOMAIN t /\ t[i - 1] = q[i]
      /\ \A i \in DOMAIN new : \E j \in DOMAIN t : t[j] = new[i]
      /\ DOMAIN t \subseteq Nat /\ 1 \in DOMAIN q /\ DOMAIN q \subseteq Nat \ {0}
      /\ h = q[1]
  BY <1>1, QueueIs
<1>3. n \in Nat /\ Len(q) = n + 1
  BY <1>1, EmptySeq, LenProperties
<1>4. /\ S \subseteq TopoNodes /\ N \subseteq TopoNodes /\ N \cap S = {}
      /\ h \in S /\ d[h] \in Nat
      /\ \A k \in S : d[k] \in Nat
  <2>1. h \in S
    BY <1>1, <1>2 DEF QueueOk
  <2>2. \A k \in S : d[k] \in Nat
    BY <1>1 DEF SeenBy, DepthOk
  <2> QED BY <2>1, <2>2 DEF SeenBy, Adjacent
<1>5. /\ \A i \in DOMAIN new : new[i] \in N
      /\ \A k \in N : \E i \in DOMAIN new : new[i] = k
  BY DEF ToSet
<1>6. /\ \A k \in N : e[k] = d[h] + 1
      /\ \A k \in S : e[k] = d[k]
      /\ SeenBy(e) = S \cup N
      /\ e \in [TopoNodes -> Nat \cup {NoDepth}]
  <2>1. \A k \in TopoNodes : e[k] = IF k \in N THEN d[h] + 1 ELSE d[k]
    OBVIOUS
  <2> HIDE DEF N, h
  <2>2. \A k \in N : e[k] = d[h] + 1
    BY <2>1, <1>4
  <2>3. \A k \in S : e[k] = d[k]
    BY <2>1, <1>4
  <2>4. d[h] + 1 \in Nat /\ d[h] + 1 # NoDepth
    BY <1>4 DEF NoDepth
  <2>5. SeenBy(e) = S \cup N
    <3>1. ASSUME NEW k \in SeenBy(e) PROVE k \in S \cup N
      BY <3>1, <2>1 DEF SeenBy
    <3>2. ASSUME NEW k \in S \cup N PROVE k \in SeenBy(e)
      <4>1. k \in TopoNodes /\ (k \in N \/ d[k] # NoDepth)
        BY <1>4 DEF SeenBy
      <4> QED BY <4>1, <2>1, <2>4 DEF SeenBy
    <3> QED BY <3>1, <3>2
  <2>6. e \in [TopoNodes -> Nat \cup {NoDepth}]
    <3>1. d \in [TopoNodes -> Nat \cup {NoDepth}]
      BY <1>1 DEF DepthOk
    <3>2. \A k \in TopoNodes : e[k] \in Nat \cup {NoDepth}
      BY <3>1, <2>1, <2>4
    <3>3. e = [k \in TopoNodes |-> e[k]]
      OBVIOUS
    <3> QED BY <3>2, <3>3
  <2> QED BY <2>2, <2>3, <2>5, <2>6
<1> HIDE DEF N
<1>7. /\ \A i \in DOMAIN q : q[i] \in S
      /\ \A i, j \in DOMAIN q : q[i] = q[j] => i = j
      /\ \A i, j \in DOMAIN q : i <= j => d[q[i]] <= d[q[j]]
      /\ \A i \in DOMAIN q : \A k \in S : d[k] <= d[q[i]] + 1
  BY <1>1 DEF QueueOk
<1> HIDE DEF S, t, h
<1>8. \A i \in DOMAIN t : t[i] \in S \cup N
  BY <1>2, <1>5, <1>7
<1>9. \A i, j \in DOMAIN t : t[i] = t[j] => i = j
  <2> TAKE i, j \in DOMAIN t
  <2> HAVE t[i] = t[j]
  <2>0. i \in Nat /\ j \in Nat
    BY <1>2
  <2>1. CASE i \in 1..n /\ j \in 1..n
    <3>1. i + 1 \in DOMAIN q /\ j + 1 \in DOMAIN q /\ q[i + 1] = q[j + 1]
      BY <1>2, <2>1
    <3>2. i + 1 = j + 1
      BY <3>1, <1>7
    <3> QED BY <3>2, <2>0
  <2>2. CASE i \in 1..n /\ j \notin 1..n
    <3>1. t[i] \in S /\ t[j] \in N
      BY <1>2, <1>5, <1>7, <2>2
    <3> QED BY <3>1, <1>4
  <2>3. CASE i \notin 1..n /\ j \in 1..n
    <3>1. t[j] \in S /\ t[i] \in N
      BY <1>2, <1>5, <1>7, <2>3
    <3> QED BY <3>1, <1>4
  <2>4. CASE i \notin 1..n /\ j \notin 1..n
    <3>1. i - n \in DOMAIN new /\ j - n \in DOMAIN new /\ new[i - n] = new[j - n]
      BY <1>2, <2>4
    <3>2. i - n = j - n
      BY <3>1
    <3> QED BY <3>2, <2>0, <1>3
  <2> QED BY <2>1, <2>2, <2>3, <2>4
\* The depths of the queue: those of the tail lie between d[h] and d[h] + 1.
<1>10. \A i \in DOMAIN t : /\ e[t[i]] \in Nat /\ d[h] <= e[t[i]] /\ e[t[i]] <= d[h] + 1
                           /\ i \notin 1..n => e[t[i]] = d[h] + 1
  <2> TAKE i \in DOMAIN t
  <2>1. CASE i \in 1..n
    <3>1. i + 1 \in DOMAIN q /\ t[i] = q[i + 1] /\ 1 \in DOMAIN q /\ 1 <= i + 1
      BY <1>2, <2>1
    <3>2. t[i] \in S /\ e[t[i]] = d[t[i]] /\ d[t[i]] \in Nat
      BY <3>1, <1>7, <1>6, <1>4
    <3>3. d[q[1]] <= d[q[i + 1]] /\ d[q[i + 1]] <= d[q[1]] + 1
      BY <3>1, <3>2, <1>7
    <3> QED BY <3>1, <3>2, <3>3, <1>2, <2>1
  <2>2. CASE i \notin 1..n
    <3>1. t[i] \in N
      BY <1>2, <1>5, <2>2
    <3> QED BY <3>1, <1>6, <1>4
  <2> QED BY <2>1, <2>2
<1>11. \A i, j \in DOMAIN t : i <= j => e[t[i]] <= e[t[j]]
  <2> TAKE i, j \in DOMAIN t
  <2> HAVE i <= j
  <2>0. i \in Nat /\ j \in Nat
    BY <1>2
  <2>1. CASE j \in 1..n
    <3>1. i \in 1..n \/ (Len(q) <= i)
      BY <1>2
    <3>2. i \in 1..n
      BY <3>1, <2>0, <2>1, <1>3
    <3>3. i + 1 \in DOMAIN q /\ j + 1 \in DOMAIN q /\ t[i] = q[i + 1] /\ t[j] = q[j + 1]
          /\ i + 1 <= j + 1
      BY <1>2, <2>1, <3>2, <2>0
    <3>4. d[t[i]] <= d[t[j]] /\ t[i] \in S /\ t[j] \in S
      BY <3>3, <1>7
    <3> QED BY <3>4, <1>6
  <2>2. CASE j \notin 1..n
    BY <2>2, <1>10, <1>4
  <2> QED BY <2>1, <2>2
<1>12. \A i \in DOMAIN t : \A k \in S \cup N : e[k] <= e[t[i]] + 1
  <2> TAKE i \in DOMAIN t
  <2> TAKE k \in S \cup N
  <2>1. d[h] <= e[t[i]] /\ e[t[i]] \in Nat
    BY <1>10
  <2>2. e[k] <= d[h] + 1 /\ e[k] \in Nat
    <3>1. CASE k \in N
      BY <3>1, <1>6, <1>4
    <3>2. CASE k \in S
      <4>1. d[k] <= d[q[1]] + 1
        BY <3>2, <1>7, <1>2
      <4> QED BY <4>1, <3>2, <1>6, <1>4, <1>2
    <3> QED BY <3>1, <3>2
  <2> QED BY <2>1, <2>2, <1>4
<1>13. QueueOk(t, e)
  BY <1>6, <1>8, <1>9, <1>11, <1>12 DEF QueueOk
<1>14. h \notin DoneBy(q, d) /\ DoneBy(t, e) = DoneBy(q, d) \cup {h}
  <2>1. h \notin DoneBy(q, d)
    BY <1>2 DEF DoneBy
  <2>2. ASSUME NEW k \in DoneBy(t, e) PROVE k \in DoneBy(q, d) \cup {h}
    <3>1. k \in S \cup N /\ \A i \in DOMAIN t : t[i] # k
      BY <1>6 DEF DoneBy
    <3>2. k \notin N
      BY <3>1, <1>2, <1>5
    <3>3. ASSUME NEW i \in DOMAIN q, q[i] = k, k # h PROVE FALSE
      <4>1. i # 1
        BY <3>3, <1>2
      <4> QED BY <4>1, <3>1, <3>3, <1>2
    <3> QED BY <3>1, <3>2, <3>3 DEF DoneBy, S
  <2>3. ASSUME NEW k \in DoneBy(q, d) PROVE k \in DoneBy(t, e)
    <3>1. k \in S /\ \A i \in DOMAIN q : q[i] # k
      BY DEF DoneBy, S
    <3>2. \A i \in DOMAIN t : t[i] # k
      BY <3>1, <1>2, <1>4, <1>5
    <3> QED BY <3>1, <3>2, <1>6 DEF DoneBy
  <2>4. h \in DoneBy(t, e)
    <3>1. ASSUME NEW i \in DOMAIN t, t[i] = h PROVE FALSE
      <4>1. i \in 1..n /\ i + 1 \in DOMAIN q /\ q[i + 1] = q[1]
        BY <3>1, <1>2, <1>4, <1>5
      <4>2. i + 1 = 1
        BY <4>1, <1>2, <1>7
      <4> QED BY <4>1, <4>2
    <3> QED BY <3>1, <1>4, <1>6 DEF DoneBy
  <2> QED BY <2>1, <2>2, <2>3, <2>4
<1>15. DepthOk(e, links, root)
  <2>1. root \in S /\ root \in TopoNodes /\ d[root] = 0
    BY <1>1 DEF DepthOk, S, SeenBy, NoDepth
  <2>2. ASSUME NEW k \in S \cup N, k # root
        PROVE  \E m \in S \cup N : k \in Adjacent(links, m) /\ e[k] = e[m] + 1
    <3>1. CASE k \in N
      <4>1. k \in Adjacent(links, h) /\ e[k] = d[h] + 1 /\ e[h] = d[h]
        BY <3>1, <1>6, <1>4 DEF N
      <4> QED BY <4>1, <1>4
    <3>2. CASE k \in S
      <4>1. PICK m \in S : k \in Adjacent(links, m) /\ d[k] = d[m] + 1
        BY <3>2, <2>2, <1>1 DEF DepthOk, S
      <4>2. e[k] = d[k] /\ e[m] = d[m]
        BY <4>1, <3>2, <1>6
      <4> QED BY <4>1, <4>2
    <3> QED BY <3>1, <3>2
  <2>3. e[root] = 0
    BY <2>1, <1>6
  <2> QED BY <2>1, <2>2, <2>3, <1>6 DEF DepthOk
<1>16. ClosedBy(t, e, links)
  <2>1. ASSUME NEW k \in DoneBy(t, e), NEW m \in Adjacent(links, k)
        PROVE  m \in S \cup N /\ e[m] <= e[k] + 1
    <3>1. CASE k = h
      <4>1. m \in TopoNodes /\ e[h] = d[h]
        BY <1>4, <1>6 DEF Adjacent
      <4>2. CASE d[m] = NoDepth
        <5>1. m \in N
          BY <4>2, <3>1 DEF N
        <5>2. e[m] = d[h] + 1
          BY <5>1, <1>6
        <5>3. e[k] = d[h] /\ e[m] <= e[k] + 1
          BY <5>2, <4>1, <3>1, <1>4
        <5> QED BY <5>1, <5>3
      <4>3. CASE d[m] # NoDepth
        <5>1. m \in S
          BY <4>1, <4>3 DEF S, SeenBy
        <5>2. d[m] <= d[q[1]] + 1
          BY <5>1, <1>7, <1>2
        <5> QED BY <5>1, <5>2, <4>1, <3>1, <1>6, <1>2
      <4> QED BY <4>2, <4>3
    <3>2. CASE k # h
      <4>1. k \in DoneBy(q, d) /\ k \in S
        BY <3>2, <1>14 DEF DoneBy, S
      <4>2. m \in S /\ d[m] <= d[k] + 1
        BY <4>1, <1>1 DEF ClosedBy, S
      <4> QED BY <4>1, <4>2, <1>6
    <3> QED BY <3>1, <3>2
  <2> QED BY <2>1, <1>6 DEF ClosedBy
<1>17. WalkOk(t, e, links, root)
  BY <1>2, <1>13, <1>15, <1>16 DEF WalkOk
<1> QED BY <1>14, <1>17 DEF t, h

\* The walk from the root.
StartOf(root) == [queue |-> <<root>>, depth |-> [k \in TopoNodes |-> IF k = root THEN 0 ELSE NoDepth]]

\* The queue starts with the root alone.
LEMMA StartIsOk ==
    ASSUME NEW links, NEW root \in TopoNodes
    PROVE  /\ StartOf(root) \in WalkStates
           /\ WalkOk(StartOf(root).queue, StartOf(root).depth, links, root)
           /\ DoneBy(StartOf(root).queue, StartOf(root).depth) = {}
<1> DEFINE d == [k \in TopoNodes |-> IF k = root THEN 0 ELSE NoDepth]
           q == <<root>>
<1>1. StartOf(root).queue = q /\ StartOf(root).depth = d
  BY DEF StartOf
<1>2. /\ q \in Seq(TopoNodes) /\ DOMAIN q = {1} /\ q[1] = root
  OBVIOUS
<1>3. /\ d \in [TopoNodes -> Nat \cup {NoDepth}] /\ d[root] = 0
      /\ \A k \in TopoNodes : k # root => d[k] = NoDepth
  OBVIOUS
<1> HIDE DEF q, d
<1>4. SeenBy(d) = {root}
  BY <1>3 DEF SeenBy, NoDepth
<1>5. QueueOk(q, d)
  BY <1>2, <1>3, <1>4 DEF QueueOk
<1>6. DepthOk(d, links, root)
  BY <1>3, <1>4 DEF DepthOk
<1>7. DoneBy(q, d) = {}
  BY <1>2, <1>4 DEF DoneBy
<1>8. ClosedBy(q, d, links)
  BY <1>7 DEF ClosedBy
<1>9. WalkOk(q, d, links, root)
  BY <1>2, <1>5, <1>6, <1>8 DEF WalkOk
<1>10. StartOf(root) \in WalkStates
  <2>1. d \in [TopoNodes -> Int]
    BY <1>3 DEF NoDepth
  <2> QED BY <2>1, <1>2 DEF StartOf, WalkStates, d, q
<1> QED BY <1>1, <1>7, <1>9, <1>10

\* After all the passes every node is finished that was ever seen.
LEMMA WalkEnds ==
    ASSUME NEW links, NEW root \in TopoNodes
    PROVE  \E q, d : /\ WalkOk(q, d, links, root) /\ q = <<>>
                     /\ d = Depths(root, links)
<1> DEFINE s == StartOf(root)
<1>1. s \in WalkStates /\ WalkOk(s.queue, s.depth, links, root) /\ DoneBy(s.queue, s.depth) = {}
  BY StartIsOk
<1>2. Depths(root, links) = VisitAll(s, links)
  BY DEF Depths, StartOf
<1> HIDE DEF s
<1>3. PICK r : PassesOf(r, s, links)
  BY <1>1, PassesAre
<1>4. /\ r[0] = s /\ \A n \in 1..Steps : r[n] = Visited(r[n - 1], links)
      /\ \A n \in 0..Steps : r[n] \in WalkStates
      /\ VisitAll(s, links) = r[Steps].depth
  BY <1>3 DEF PassesOf
<1> DEFINE Done(t) == DoneBy(t.queue, t.depth)
           Fine(n) == /\ WalkOk(r[n].queue, r[n].depth, links, root)
                      /\ r[n].queue = <<>> \/ Cardinality(Done(r[n])) = n
           Good == {n \in 0..Steps : Fine(n)}
<1>5. 0 \in Good
  <2>1. Cardinality(Done(s)) = 0
    BY <1>1, FS_EmptySet
  <2> HIDE DEF Done
  <2> QED BY <2>1, <1>1, <1>4, StepsIsNat
<1>6. ASSUME NEW n \in 0..(Steps - 1), n \in Good PROVE n + 1 \in Good
  <2>1. n + 1 \in 1..Steps /\ n + 1 \in 0..Steps /\ (n + 1) - 1 = n /\ n \in 0..Steps
    BY StepsIsNat
  <2> DEFINE a == r[n]
             b == r[n + 1]
  <2>2. a \in WalkStates /\ b = Visited(a, links) /\ WalkOk(a.queue, a.depth, links, root)
        /\ (a.queue = <<>> \/ Cardinality(Done(a)) = n)
    <3>1. Fine(n)
      BY <1>6
    <3> QED BY <3>1, <2>1, <1>4
  <2> HIDE DEF a, b
  <2>3. CASE a.queue = <<>>
    <3>1. b = a
      BY <2>2, <2>3 DEF Visited
    <3>2. WalkOk(b.queue, b.depth, links, root) /\ b.queue = <<>>
      BY <3>1, <2>2, <2>3
    <3> QED BY <3>2, <2>1 DEF b
  <2>4. CASE a.queue # <<>>
    <3>1. b = Visit(a, links)
      BY <2>2, <2>4 DEF Visited
    <3> DEFINE new == SetToSeq(NewOnes(a, links))
    <3>2. VisitOk(a, b, new, links)
      BY <3>1, <2>2, <2>4, VisitIs
    <3> HIDE DEF new
    <3> DEFINE q == a.queue
               d == a.depth
               e == b.depth
    <3>3. /\ b.queue = Tail(q) \o new
          /\ e = [k \in TopoNodes |-> IF k \in {l \in Adjacent(links, Head(q)) : d[l] = NoDepth}
                                      THEN d[Head(q)] + 1 ELSE d[k]]
          /\ new \in Seq(TopoNodes) /\ ToSet(new) = {l \in Adjacent(links, Head(q)) : d[l] = NoDepth}
          /\ \A i, j \in DOMAIN new : new[i] = new[j] => i = j
      BY <3>2 DEF VisitOk, NewOnes
    <3>4. WalkOk(q, d, links, root) /\ q # <<>>
      BY <2>2, <2>4
    <3> HIDE DEF q, d, e
    <3>5. /\ WalkOk(Tail(q) \o new, e, links, root)
          /\ Head(q) \notin DoneBy(q, d)
          /\ DoneBy(Tail(q) \o new, e) = DoneBy(q, d) \cup {Head(q)}
      BY <3>3, <3>4, PassIsOk
    <3>6. /\ WalkOk(b.queue, b.depth, links, root)
          /\ Head(q) \notin Done(a) /\ Done(b) = Done(a) \cup {Head(q)}
      BY <3>5, <3>3 DEF q, d, e
    <3>7. IsFiniteSet(Done(a))
      <4>1. Done(a) \subseteq TopoNodes
        BY DEF DoneBy, SeenBy
      <4> HIDE DEF Done
      <4> QED BY <4>1, StepsIsNat, FS_Subset
    <3>8. Cardinality(Done(b)) = n + 1
      <4>1. Cardinality(Done(a)) = n
        BY <2>2, <2>4
      <4> HIDE DEF Done
      <4> QED BY <4>1, <3>6, <3>7, FS_AddElement
    <3> HIDE DEF Done
    <3> QED BY <3>6, <3>8, <2>1 DEF b
  <2> QED BY <2>3, <2>4
<1>7. 0..Steps \subseteq Good
  <2> HIDE DEF Good
  <2> QED BY <1>5, <1>6, StepsIsNat, UpToInSet
<1> DEFINE t == r[Steps]
<1>8. /\ WalkOk(t.queue, t.depth, links, root)
      /\ t.queue = <<>> \/ Cardinality(Done(t)) = Steps
  <2>1. Steps \in Good
    BY <1>7, StepsIsNat
  <2>2. Fine(Steps)
    BY <2>1
  <2> QED BY <2>2
<1> HIDE DEF t
<1>9. t.queue = <<>>
  <2>1. SUFFICES ASSUME t.queue # <<>> PROVE FALSE
    OBVIOUS
  <2>2. Done(t) = TopoNodes
    <3>1. Done(t) \subseteq TopoNodes
      BY DEF DoneBy, SeenBy
    <3>2. Cardinality(Done(t)) = Cardinality(TopoNodes)
      BY <1>8, <2>1 DEF Steps
    <3> HIDE DEF Done
    <3> QED BY <3>1, <3>2, StepsIsNat, FS_Subset
  <2>3. t.queue \in Seq(TopoNodes)
    BY <1>8 DEF WalkOk
  <2>4. 1 \in DOMAIN t.queue /\ t.queue[1] \in TopoNodes
    BY <2>1, <2>3
  <2>5. t.queue[1] \notin Done(t)
    BY <2>4 DEF DoneBy
  <2> HIDE DEF Done
  <2> QED BY <2>2, <2>4, <2>5
<1>10. t.depth = Depths(root, links)
  BY <1>2, <1>4 DEF t
<1> QED BY <1>8, <1>9, <1>10

\* The nodes at most n links from the root.
WithinOf(w, root, links) ==
    /\ w[0] = {root}
    /\ \A n \in 1..Steps : w[n] = w[n - 1] \cup UNION {Adjacent(links, k) : k \in w[n - 1]}

\* The nodes of depth n or less are those within n links of the root.
DepthTells(d, w) ==
    \A k \in TopoNodes : \A n \in 0..Steps : (k \in w[n]) <=> (d[k] # NoDepth /\ d[k] <= n)

\* When the queue is empty the depths are the distances.
LEMMA WalkTells ==
    ASSUME NEW links, NEW root \in TopoNodes, NEW w, WithinOf(w, root, links),
           NEW q, NEW d, WalkOk(q, d, links, root), q = <<>>
    PROVE  DepthTells(d, w)
<1> DEFINE S == SeenBy(d)
           Fine(n) == \A k \in TopoNodes : (k \in w[n]) <=> (k \in S /\ d[k] <= n)
           Good == {n \in 0..Steps : Fine(n)}
<1>1. /\ d[root] = 0 /\ root \in S /\ \A k \in S : d[k] \in Nat
      /\ \A k \in S : k = root \/ \E m \in S : k \in Adjacent(links, m) /\ d[k] = d[m] + 1
  BY DEF WalkOk, DepthOk, SeenBy, NoDepth
<1>2. \A k \in S : \A m \in Adjacent(links, k) : m \in S /\ d[m] <= d[k] + 1
  <2>1. DoneBy(q, d) = S
    BY DEF DoneBy
  <2> QED BY <2>1 DEF WalkOk, ClosedBy
<1>3. S \subseteq TopoNodes /\ \A k : Adjacent(links, k) \subseteq TopoNodes
  BY DEF SeenBy, Adjacent
<1>4. /\ w[0] = {root}
      /\ \A n \in 1..Steps : w[n] = w[n - 1] \cup UNION {Adjacent(links, k) : k \in w[n - 1]}
  BY DEF WithinOf
<1>a. \A n \in 0..Steps : w[n] \subseteq TopoNodes
  <2> DEFINE In == {n \in 0..Steps : w[n] \subseteq TopoNodes}
  <2>1. 0 \in In
    BY <1>4, StepsIsNat
  <2>2. ASSUME NEW n \in 0..(Steps - 1), n \in In PROVE n + 1 \in In
    <3>1. n + 1 \in 1..Steps /\ n + 1 \in 0..Steps /\ (n + 1) - 1 = n
      BY StepsIsNat
    <3>2. w[n + 1] = w[n] \cup UNION {Adjacent(links, k) : k \in w[n]}
      BY <3>1, <1>4
    <3> QED BY <3>1, <3>2, <2>2, <1>3
  <2> HIDE DEF In
  <2>3. 0..Steps \subseteq In
    BY <2>1, <2>2, StepsIsNat, UpToInSet
  <2> QED BY <2>3 DEF In
<1> HIDE DEF S
<1>5. 0 \in Good
  <2>1. ASSUME NEW k \in S, d[k] <= 0 PROVE k = root
    <3>1. \A m \in S : d[k] # d[m] + 1
      BY <2>1, <1>1
    <3> QED BY <3>1, <1>1
  <2>2. Fine(0)
    BY <2>1, <1>1, <1>4
  <2> QED BY <2>2, StepsIsNat
<1>6. ASSUME NEW n \in 0..(Steps - 1), n \in Good PROVE n + 1 \in Good
  <2>1. n + 1 \in 1..Steps /\ n + 1 \in 0..Steps /\ (n + 1) - 1 = n /\ n \in 0..Steps /\ n \in Nat
    BY StepsIsNat
  <2>2. Fine(n) /\ w[n + 1] = w[n] \cup UNION {Adjacent(links, k) : k \in w[n]} /\ w[n] \subseteq TopoNodes
    BY <1>6, <2>1, <1>4, <1>a
  <2>3. ASSUME NEW k \in TopoNodes, k \in w[n + 1] PROVE k \in S /\ d[k] <= n + 1
    <3>1. CASE k \in w[n]
      <4>1. k \in S /\ d[k] <= n
        BY <2>2, <3>1
      <4> QED BY <4>1, <1>1, <2>1
    <3>2. CASE k \notin w[n]
      <4>1. PICK m \in w[n] : k \in Adjacent(links, m)
        BY <2>2, <2>3, <3>2
      <4>2. m \in S /\ d[m] <= n
        BY <2>2, <4>1
      <4>3. k \in S /\ d[k] <= d[m] + 1
        BY <4>1, <4>2, <1>2
      <4> QED BY <4>2, <4>3, <1>1, <2>1
    <3> QED BY <3>1, <3>2
  <2>4. ASSUME NEW k \in TopoNodes, k \in S, d[k] <= n + 1 PROVE k \in w[n + 1]
    <3>1. CASE k = root
      <4>1. k \in w[n]
        BY <3>1, <2>2, <1>1, <2>1
      <4> QED BY <4>1, <2>2
    <3>2. CASE k # root
      <4>1. PICK m \in S : k \in Adjacent(links, m) /\ d[k] = d[m] + 1
        BY <2>4, <3>2, <1>1
      <4>2. d[m] <= n /\ m \in TopoNodes
        BY <4>1, <2>4, <1>1, <1>3, <2>1
      <4>3. m \in w[n]
        BY <4>1, <4>2, <2>2
      <4> QED BY <4>1, <4>3, <2>2
    <3> QED BY <3>1, <3>2
  <2>5. Fine(n + 1)
    BY <2>3, <2>4
  <2> HIDE DEF Fine
  <2> QED BY <2>1, <2>5
<1>7. 0..Steps \subseteq Good
  <2> HIDE DEF Good
  <2> QED BY <1>5, <1>6, StepsIsNat, UpToInSet
<1>8. \A n \in 0..Steps : Fine(n)
  BY <1>7
<1> QED BY <1>8 DEF DepthTells, S, SeenBy

\* The queue gives every node its distance from the root.
LEMMA DepthAnswer ==
    ASSUME AskDepth
    PROVE  DepthIsDistance'
<1>0. PICK links \in SUBSET Pairs : \E root \in Roots(links) :
         question' = [of |-> "depth", links |-> links, root |-> root]
  BY DEF AskDepth
<1>1. PICK root \in Roots(links) : question' = [of |-> "depth", links |-> links, root |-> root]
  BY <1>0
<1>2. root \in TopoNodes /\ question'.links = links /\ question'.root = root
  BY <1>1 DEF Roots
<1> DEFINE T == SUBSET TopoNodes
           G == [t \in T |-> t \cup UNION {Adjacent(links, k) : k \in t}]
           Fix(f) == f = [n \in 0..Steps |->
                            IF n = 0 THEN {root}
                            ELSE f[n - 1] \cup UNION {Adjacent(links, k) : k \in f[n - 1]}]
           it == CHOOSE f : Fix(f)
<1>3. G \in [T -> T]
  <2>1. \A k : Adjacent(links, k) \subseteq TopoNodes
    BY DEF Adjacent
  <2>2. \A t \in T : t \cup UNION {Adjacent(links, k) : k \in t} \in T
    BY <2>1
  <2> QED BY <2>2
<1>4. PICK g : Walks(g, T, G, {root}, Steps)
  <2>1. {root} \in T
    BY <1>2
  <2> HIDE DEF G, T
  <2> QED BY <2>1, <1>3, StepsIsNat, WalkExists
<1>5. Fix(g)
  <2>1. g \in [0..Steps -> T] /\ g[0] = {root} /\ \A n \in 1..Steps : g[n] = G[g[n - 1]]
    BY <1>4 DEF Walks
  <2>2. \A n \in 1..Steps : n - 1 \in 0..Steps
    BY StepsIsNat
  <2>3. \A n \in 1..Steps : g[n - 1] \in T
    <3> HIDE DEF T, G
    <3> QED BY <2>1, <2>2
  <2>4. \A n \in 1..Steps : g[n] = g[n - 1] \cup UNION {Adjacent(links, k) : k \in g[n - 1]}
    BY <2>1, <2>3
  <2>5. \A n \in 0..Steps : g[n] = IF n = 0 THEN {root}
                            ELSE g[n - 1] \cup UNION {Adjacent(links, k) : k \in g[n - 1]}
    BY <2>1, <2>4, StepsIsNat
  <2> HIDE DEF T, G
  <2> QED BY <2>1, <2>5
<1> HIDE DEF Fix
<1>6. Fix(it)
  BY <1>5
<1> HIDE DEF it
<1>7. /\ DOMAIN it = 0..Steps
      /\ \A n \in 0..Steps : it[n] = IF n = 0 THEN {root}
                            ELSE it[n - 1] \cup UNION {Adjacent(links, k) : k \in it[n - 1]}
  BY <1>6 DEF Fix
<1>8. WithinOf(it, root, links)
  <2>1. 0 \in 0..Steps /\ \A n \in 1..Steps : n \in 0..Steps /\ n # 0
    BY StepsIsNat
  <2> QED BY <2>1, <1>7 DEF WithinOf
<1>9. DepthTells(Depths(root, links), it)
  BY <1>2, <1>8, WalkEnds, WalkTells
<1>10. \A k \in TopoNodes : \A n \in DOMAIN it :
          (k \in it[n]) <=> (Depths(root, links)[k] # NoDepth /\ Depths(root, links)[k] <= n)
  BY <1>7, <1>9 DEF DepthTells
<1> QED BY <1>2, <1>10 DEF DepthIsDistance, it, Fix, Steps

-----------------------------------------------------------------------------
(* The ledger of the hosts.                                                *)

\* r gives the row of the ledger after the first k rows of the list.
LedgerRun(r, old, rows) ==
    /\ r \in [0..Len(rows) -> [mac : LedgerCells, port : LedgerCells]]
    /\ r[0] = old /\ r[Len(rows)] = LedgerAfter(old, rows)
    /\ \A k \in 1..Len(rows) : r[k] = LedgerRow(r[k - 1], rows[k])

\* The ledger row of an address is made row by row.
LEMMA LedgerSteps ==
    ASSUME NEW old \in [mac : LedgerCells, port : LedgerCells],
           NEW rows \in Seq([mac : LedgerCells, port : LedgerCells])
    PROVE  \E r : LedgerRun(r, old, rows)
<1> DEFINE n == Len(rows)
           T == [mac : LedgerCells, port : LedgerCells]
           E == [mac : LedgerCells, port : LedgerCells]
           op(t, e) == LedgerRow(t, e)
           F == [p \in T \X E |-> op(p[1], p[2])]
           Fix(i) == i = [s \in SUBSET (DOMAIN rows) |->
                            IF s = {} THEN old ELSE op(i[s \ {Max(s)}], rows[Max(s)])]
           it == CHOOSE i : Fix(i)
<1>1. n \in Nat /\ rows \in [1..n -> E] /\ DOMAIN rows = 1..n /\ old \in T
  <2>1. rows \in Seq(E)
    OBVIOUS
  <2>2. old \in T
    OBVIOUS
  <2> HIDE DEF E, T
  <2> QED BY <2>1, <2>2
<1>2. \A t \in T, e \in E : op(t, e) \in T /\ F[<<t, e>>] = op(t, e)
    BY DEF LedgerRow
<1>3. F \in [T \X E -> T]
  <2> HIDE DEF op, T, E
  <2> QED BY <1>2
<1>4. LedgerAfter(old, rows) = it[1..n]
  BY <1>1 DEF LedgerAfter, FoldLeft, MapThenFoldSet
<1> HIDE DEF n, T, E, F, op
<1>5. PICK g : FoldSolution(g, T, F, old, n, rows)
  BY <1>1, <1>3, FoldHasSolution
<1>6. FoldStays(g, T, E, F, old, n, rows) /\ g \in [SUBSET (1..n) -> T]
  BY <1>1, <1>5, SolutionStays
<1>7. Fix(g)
  BY <1>1, <1>2, <1>6 DEF FoldStays
<1> HIDE DEF Fix
<1>8. Fix(it)
  BY <1>7
<1> HIDE DEF it
<1>9. FoldLike(it, T, F, old, n, rows)
  <2>1. \A s \in SUBSET (1..n) :
            it[s] = IF s = {} THEN old ELSE op(it[s \ {Max(s)}], rows[Max(s)])
    BY <1>1, <1>8 DEF Fix
  <2>2. 1..0 = {} /\ {} \in SUBSET (1..n)
    OBVIOUS
  <2>3. it[1..0] = old
    BY <2>1, <2>2
  <2>4. \A s \in SUBSET (1..n) : s # {} => rows[Max(s)] \in E
    BY <1>6 DEF FoldStays
  <2> QED BY <1>2, <2>1, <2>3, <2>4 DEF FoldLike
<1>10. FoldGives(it[1..n], T, F, old, n, rows)
  BY <1>1, <1>3, <1>9, FoldHasSteps
<1>11. PICK r : FoldSteps(r, T, F, old, n, rows) /\ r[n] = LedgerAfter(old, rows)
  BY <1>10, <1>4 DEF FoldGives
<1>12. r \in [0..n -> T] /\ r[0] = old /\ \A k \in 1..n : r[k] = F[<<r[k - 1], rows[k]>>]
  BY <1>11 DEF FoldSteps
<1>13. \A k \in 1..n : r[k] = op(r[k - 1], rows[k])
  <2> TAKE k \in 1..n
  <2>1. r[k - 1] \in T /\ rows[k] \in E
    BY <1>1, <1>12
  <2> QED BY <2>1, <1>12, <1>2
<1> QED BY <1>11, <1>12, <1>13 DEF LedgerRun, n, T, op

\* What the first k rows gave column f.
GivenTo(rows, k, f) == {m \in 1..k : rows[m][f] # ""}

\* One more row, and its column.
LEMMA GivenByNext ==
    ASSUME NEW rows, NEW k \in Nat, NEW f
    PROVE  /\ rows[k + 1][f] # "" => /\ k + 1 \in GivenTo(rows, k + 1, f)
                                     /\ GivenTo(rows, k + 1, f) \subseteq 1..(k + 1)
           /\ rows[k + 1][f] = "" => GivenTo(rows, k + 1, f) = GivenTo(rows, k, f)
<1>1. 1..(k + 1) = 1..k \cup {k + 1}
  OBVIOUS
<1> QED BY <1>1 DEF GivenTo

\* Each column of a host holds the last value given, for any number of rows.
LEMMA LedgerAnswer == AskLedger => LedgerKeepsTheLastWord'
<1> SUFFICES ASSUME AskLedger PROVE LedgerKeepsTheLastWord'
  OBVIOUS
<1> DEFINE Row == [mac : LedgerCells, port : LedgerCells]
           Fields == {"mac", "port"}
<1>1. PICK old \in Row, rows \in SeqOf(Row, MaxLen["ledger"]) :
          question' = [of |-> "ledger", old |-> old, rows |-> rows]
  BY DEF AskLedger
<1> DEFINE n == Len(rows)
<1>2. rows \in Seq(Row) /\ n \in Nat /\ rows \in [1..n -> Row] /\ DOMAIN rows = 1..n
  <2>1. MaxLen["ledger"] \in Nat
    BY QuestionsAssumption DEF ListQuestions
  <2> HIDE DEF Row
  <2> QED BY <2>1, ListOfUpTo
<1>3. PICK r : LedgerRun(r, old, rows)
  BY <1>2, LedgerSteps
<1>4. /\ r \in [0..n -> Row] /\ r[0] = old /\ r[n] = LedgerAfter(old, rows)
      /\ \A k \in 1..n : r[k] = LedgerRow(r[k - 1], rows[k])
  BY <1>3 DEF LedgerRun
<1> HIDE DEF Row, n
<1> DEFINE LastGiven(k, f) == IF GivenTo(rows, k, f) = {} THEN old[f]
                         ELSE rows[Max(GivenTo(rows, k, f))][f]
           Good == {k \in 0..n : \A f \in Fields : r[k][f] = LastGiven(k, f)}
<1>5. 0 \in Good
  <2>1. \A f \in Fields : GivenTo(rows, 0, f) = {}
    BY DEF GivenTo
  <2> QED BY <2>1, <1>2, <1>4
<1>6. ASSUME NEW k \in 0..(n - 1), k \in Good PROVE k + 1 \in Good
  <2>1. k + 1 \in 1..n /\ (k + 1) - 1 = k /\ k \in 0..n /\ k + 1 \in 0..n /\ k \in Nat
    BY <1>2
  <2>2. r[k] \in Row /\ rows[k + 1] \in Row /\ r[k + 1] = LedgerRow(r[k], rows[k + 1])
    BY <2>1, <1>2, <1>4
  <2> SUFFICES ASSUME NEW f \in Fields PROVE r[k + 1][f] = LastGiven(k + 1, f)
    BY <2>1
  <2>3. r[k + 1][f] = IF rows[k + 1][f] # "" THEN rows[k + 1][f] ELSE r[k][f]
    BY <2>2 DEF LedgerRow, Row
  <2>4. r[k][f] = LastGiven(k, f)
    BY <1>6
  <2> HIDE DEF Good
  <2>5. CASE rows[k + 1][f] # ""
    <3>1. k + 1 \in GivenTo(rows, k + 1, f) /\ GivenTo(rows, k + 1, f) \subseteq 1..(k + 1)
      BY <2>1, <2>5, GivenByNext
    <3>2. Max(GivenTo(rows, k + 1, f)) = k + 1
      <4>1. k + 1 \in Nat /\ GivenTo(rows, k + 1, f) # {}
        BY <2>1, <3>1
      <4>2. /\ Max(GivenTo(rows, k + 1, f)) \in GivenTo(rows, k + 1, f)
            /\ \A m \in GivenTo(rows, k + 1, f) : m <= Max(GivenTo(rows, k + 1, f))
        BY <4>1, <3>1, MaxOfBounded
      <4>3. Max(GivenTo(rows, k + 1, f)) \in 1..(k + 1) /\ k + 1 <= Max(GivenTo(rows, k + 1, f))
        BY <4>2, <3>1
      <4> QED BY <4>3, <2>1
    <3> QED BY <2>3, <2>5, <3>1, <3>2
  <2>6. CASE rows[k + 1][f] = ""
    <3>1. GivenTo(rows, k + 1, f) = GivenTo(rows, k, f)
      BY <2>1, <2>6, GivenByNext
    <3> QED BY <2>3, <2>4, <2>6, <3>1
  <2> QED BY <2>5, <2>6
<1> HIDE DEF Good
<1>7. n \in Good
  <2>1. 0..n \subseteq Good
    BY <1>2, <1>5, <1>6, UpToInSet
  <2> QED BY <2>1, <1>2
<1>8. \A f \in Fields : LedgerAfter(old, rows)[f] = LastGiven(n, f)
  BY <1>7, <1>4 DEF Good
<1>9. \A f \in Fields : GivenTo(rows, n, f) = {m \in DOMAIN rows : rows[m][f] # ""}
  BY <1>2 DEF GivenTo
<1>10. DOMAIN LedgerAfter(old, rows) = Fields
  BY <1>4, <1>2 DEF Row
<1>11. question'.rows = rows /\ question'.old = old
  BY <1>1
<1> HIDE DEF Fields
<1> QED BY <1>8, <1>9, <1>10, <1>11 DEF LedgerKeepsTheLastWord

-----------------------------------------------------------------------------
(* The rows of a sheet with several blocks: each is imported once.         *)

\* The rows of a sheet by their numbers.
Numbering(sheet) == [n \in DOMAIN sheet |-> n]

\* A list of blocks is a list of lists of row numbers.
BlockLists(sheet) == Seq(Seq(1..Len(sheet)))

\* The rows of a sheet are listed in their order.
LEMMA NumberingIs ==
    ASSUME NEW sheet \in Seq(SheetRows)
    PROVE  /\ Numbering(sheet) \in Seq(1..Len(sheet)) /\ Len(Numbering(sheet)) = Len(sheet)
           /\ \A k \in 1..Len(sheet) : Numbering(sheet)[k] = k
<1> DEFINE n == Len(sheet)
<1>1. n \in Nat /\ DOMAIN sheet = 1..n
  OBVIOUS
<1> HIDE DEF n
<1>2. Numbering(sheet) \in [1..n -> 1..n] /\ \A k \in 1..n : Numbering(sheet)[k] = k
  BY <1>1 DEF Numbering
<1>3. Numbering(sheet) \in Seq(1..n) /\ Len(Numbering(sheet)) = n
  BY <1>1, <1>2, SeqDef
<1> QED BY <1>2, <1>3 DEF n

\* What a row adds to the blocks.
BlockAfter(blocks, sheet, n) ==
    IF LooksLikeHeader(sheet[n]) THEN Append(blocks, <<n>>)
    ELSE IF blocks = <<>> THEN <<>>
    ELSE [blocks EXCEPT ![Len(blocks)] = Append(@, n)]

\* A row added to the blocks leaves lists of rows.
LEMMA BlockAfterType ==
    ASSUME NEW sheet \in Seq(SheetRows), NEW t \in BlockLists(sheet), NEW n \in 1..Len(sheet)
    PROVE  BlockAfter(t, sheet, n) \in BlockLists(sheet)
<1> DEFINE N == 1..Len(sheet)
<1>1. t \in Seq(Seq(N)) /\ <<n>> \in Seq(N) /\ n \in N
  BY DEF BlockLists
<1> HIDE DEF N
<1>2. Append(t, <<n>>) \in Seq(Seq(N))
  BY <1>1
<1>3. t # <<>> => [t EXCEPT ![Len(t)] = Append(@, n)] \in Seq(Seq(N))
  <2> SUFFICES ASSUME t # <<>> PROVE [t EXCEPT ![Len(t)] = Append(@, n)] \in Seq(Seq(N))
    OBVIOUS
  <2>1. Len(t) \in Nat /\ t \in [1..Len(t) -> Seq(N)] /\ Len(t) \in 1..Len(t)
    BY <1>1
  <2>2. Append(t[Len(t)], n) \in Seq(N)
    BY <1>1, <2>1
  <2>3. [t EXCEPT ![Len(t)] = Append(@, n)] \in [1..Len(t) -> Seq(N)]
    BY <2>1, <2>2
  <2> QED BY <2>1, <2>3, SeqDef
<1>4. <<>> \in Seq(Seq(N))
  OBVIOUS
<1> QED BY <1>2, <1>3, <1>4 DEF BlockAfter, BlockLists, N

\* r gives the blocks of the first k rows.
BlockRun(r, sheet) ==
    /\ r \in [0..Len(Numbering(sheet)) -> BlockLists(sheet)]
    /\ r[0] = <<>> /\ r[Len(Numbering(sheet))] = Blocks(sheet)
    /\ \A k \in 1..Len(Numbering(sheet)) : r[k] = BlockAfter(r[k - 1], sheet, Numbering(sheet)[k])

\* A sheet is cut into blocks row by row.
LEMMA BlockSteps ==
    ASSUME NEW sheet \in Seq(SheetRows)
    PROVE  \E r : BlockRun(r, sheet)
<1> DEFINE n == Len(Numbering(sheet))
           T == BlockLists(sheet)
           E == 1..Len(sheet)
           op(t, e) == BlockAfter(t, sheet, e)
           F == [p \in T \X E |-> op(p[1], p[2])]
           Fix(i) == i = [s \in SUBSET (DOMAIN Numbering(sheet)) |->
                            IF s = {} THEN <<>> ELSE op(i[s \ {Max(s)}], Numbering(sheet)[Max(s)])]
           it == CHOOSE i : Fix(i)
<1>1. n \in Nat /\ Numbering(sheet) \in [1..n -> E] /\ DOMAIN Numbering(sheet) = 1..n /\ <<>> \in T
  <2>1. Numbering(sheet) \in Seq(E)
    BY NumberingIs
  <2>2. <<>> \in T
    BY DEF BlockLists
  <2> HIDE DEF E, T
  <2> QED BY <2>1, <2>2
<1>2. \A t \in T, e \in E : op(t, e) \in T /\ F[<<t, e>>] = op(t, e)

  <2> TAKE t \in T, e \in E
  <2>1. <<t, e>> \in T \X E
    OBVIOUS
  <2>2. F[<<t, e>>] = op(t, e)
    <3> HIDE DEF T, E, op
    <3> QED BY <2>1
  <2>3. BlockAfter(t, sheet, e) \in T
    BY BlockAfterType
  <2> HIDE DEF T, F
  <2> QED BY <2>2, <2>3
<1>3. F \in [T \X E -> T]
  <2> HIDE DEF op, T, E
  <2> QED BY <1>2
<1>4. Blocks(sheet) = it[1..n]
  BY <1>1 DEF Blocks, Numbering, BlockAfter, FoldLeft, MapThenFoldSet
<1> HIDE DEF n, T, E, F, op
<1>5. PICK g : FoldSolution(g, T, F, <<>>, n, Numbering(sheet))
  BY <1>1, <1>3, FoldHasSolution
<1>6. FoldStays(g, T, E, F, <<>>, n, Numbering(sheet)) /\ g \in [SUBSET (1..n) -> T]
  BY <1>1, <1>5, SolutionStays
<1>7. Fix(g)
  BY <1>1, <1>2, <1>6 DEF FoldStays
<1> HIDE DEF Fix
<1>8. Fix(it)
  BY <1>7
<1> HIDE DEF it
<1>9. FoldLike(it, T, F, <<>>, n, Numbering(sheet))
  <2>1. \A s \in SUBSET (1..n) :
            it[s] = IF s = {} THEN <<>> ELSE op(it[s \ {Max(s)}], Numbering(sheet)[Max(s)])
    BY <1>1, <1>8 DEF Fix
  <2>2. 1..0 = {} /\ {} \in SUBSET (1..n)
    OBVIOUS
  <2>3. it[1..0] = <<>>
    BY <2>1, <2>2
  <2>4. \A s \in SUBSET (1..n) : s # {} => Numbering(sheet)[Max(s)] \in E
    BY <1>6 DEF FoldStays
  <2> QED BY <1>2, <2>1, <2>3, <2>4 DEF FoldLike
<1>10. FoldGives(it[1..n], T, F, <<>>, n, Numbering(sheet))
  BY <1>1, <1>3, <1>9, FoldHasSteps
<1>11. PICK r : FoldSteps(r, T, F, <<>>, n, Numbering(sheet)) /\ r[n] = Blocks(sheet)
  BY <1>10, <1>4 DEF FoldGives
<1>12. r \in [0..n -> T] /\ r[0] = <<>> /\ \A k \in 1..n : r[k] = F[<<r[k - 1], Numbering(sheet)[k]>>]
  BY <1>11 DEF FoldSteps
<1>13. \A k \in 1..n : r[k] = op(r[k - 1], Numbering(sheet)[k])
  <2> TAKE k \in 1..n
  <2>1. r[k - 1] \in T /\ Numbering(sheet)[k] \in E
    BY <1>1, <1>12
  <2> QED BY <2>1, <1>12, <1>2
<1> QED BY <1>11, <1>12, <1>13 DEF BlockRun, n, T, op

\* A row has two cells.
LEMMA TwoCells ==
    ASSUME NEW row \in SheetRows
    PROVE  DOMAIN row = {1, 2} /\ HeadingsIn(row) = {row[1], row[2]} \cap Headings
<1>1. PICK a, b : row = <<a, b>>
  BY DEF SheetRows
<1>2. DOMAIN row = {1, 2}
  BY <1>1
<1> QED BY <1>2 DEF HeadingsIn

\* A header has a column for addresses, just one.
LEMMA HeadersAre ==
    ASSUME NEW row \in SheetRows, LooksLikeHeader(row)
    PROVE  /\ row[1] \in Headings /\ row[2] \in Headings /\ "ip" \in HeadingsIn(row)
           /\ \E c \in {1, 2} : Columns(row, "ip") = {c} /\ ColumnOf(row, "ip") = c
<1>1. DOMAIN row = {1, 2} /\ HeadingsIn(row) = {row[1], row[2]} \cap Headings
  BY TwoCells
<1>2. Cardinality(HeadingsIn(row)) >= 2
  BY DEF LooksLikeHeader
<1>3. \A x : ~(HeadingsIn(row) \subseteq {x})
  <2> SUFFICES ASSUME NEW x, HeadingsIn(row) \subseteq {x} PROVE FALSE
    OBVIOUS
  <2>1. IsFiniteSet({x}) /\ Cardinality({x}) = 1
    BY FS_Singleton
  <2>2. Cardinality(HeadingsIn(row)) <= 1 /\ IsFiniteSet(HeadingsIn(row))
    BY <2>1, FS_Subset
  <2>3. Cardinality(HeadingsIn(row)) \in Nat
    BY <2>2, FS_CardinalityType
  <2> QED BY <1>2, <2>2, <2>3
<1>4. row[1] \in Headings /\ row[2] \in Headings /\ row[1] # row[2]
  BY <1>1, <1>3
<1>5. (row[1] = "ip" /\ row[2] # "ip") \/ (row[2] = "ip" /\ row[1] # "ip")
  <2>1. PICK a, b : row = <<a, b>>
    BY DEF SheetRows
  <2> QED BY <2>1, <1>4 DEF SheetRows, Headings
<1>6. PICK c \in {1, 2} : Columns(row, "ip") = {c}
  <2>1. CASE row[1] = "ip" /\ row[2] # "ip"
    <3>1. Columns(row, "ip") = {1}
      BY <2>1, <1>1 DEF Columns
    <3> QED BY <3>1
  <2>2. CASE row[2] = "ip" /\ row[1] # "ip"
    <3>1. Columns(row, "ip") = {2}
      BY <2>2, <1>1 DEF Columns
    <3> QED BY <3>1
  <2> QED BY <1>5, <2>1, <2>2
<1>7. ColumnOf(row, "ip") = c
  <2>1. Max({c}) \in {c}
    <3>1. {c} \subseteq 1..2 /\ {c} # {}
      OBVIOUS
    <3> QED BY <3>1, MaxOfBounded
  <2> QED BY <2>1, <1>6 DEF ColumnOf
<1>8. "ip" \in HeadingsIn(row)
  BY <1>1, <1>4, <1>5
<1> QED BY <1>4, <1>6, <1>7, <1>8

\* Row n is no header, and row h is the nearest one above it.
Under(sheet, h, n) ==
    /\ h < n /\ LooksLikeHeader(sheet[h])
    /\ \A x \in (h + 1)..n : ~LooksLikeHeader(sheet[x])

\* bs has the blocks of the first k rows.
BlocksOk(bs, sheet, k) ==
    /\ \A i \in DOMAIN bs :
         /\ Len(bs[i]) >= 1 /\ bs[i][1] \in 1..k /\ LooksLikeHeader(sheet[bs[i][1]])
         /\ \A j \in 2..Len(bs[i]) : bs[i][j] \in 1..k /\ Under(sheet, bs[i][1], bs[i][j])
    /\ \A i, m \in DOMAIN bs : \A j \in 2..Len(bs[i]), l \in 2..Len(bs[m]) :
         bs[i][j] = bs[m][l] => i = m /\ j = l
    /\ \A n \in 1..k : \A h \in 1..k : Under(sheet, h, n) =>
         \E i \in DOMAIN bs : \E j \in 2..Len(bs[i]) : bs[i][j] = n
    /\ bs = <<>> => \A x \in 1..k : ~LooksLikeHeader(sheet[x])
    /\ bs # <<>> => \A x \in (bs[Len(bs)][1] + 1)..k : ~LooksLikeHeader(sheet[x])

\* A header begins a block.
LEMMA BlockBegun ==
    ASSUME NEW sheet \in Seq(SheetRows), NEW k \in Nat, NEW bs \in BlockLists(sheet),
           BlocksOk(bs, sheet, k), k + 1 \in 1..Len(sheet), LooksLikeHeader(sheet[k + 1])
    PROVE  BlocksOk(Append(bs, <<k + 1>>), sheet, k + 1)
<1> DEFINE m == k + 1
           b == <<m>>
           new == Append(bs, b)
           L == Len(bs)
           S == Seq(1..Len(sheet))
<1>1. Len(b) = 1 /\ b[1] = m /\ b \in S /\ bs \in Seq(S)
  BY DEF BlockLists
<1>2. m \in Nat /\ 1..m = 1..k \cup {m} /\ k < m /\ \A x \in 1..k : x < m
  OBVIOUS
<1>3. LooksLikeHeader(sheet[m])
  OBVIOUS
<1> HIDE DEF b, m, S
<1>4. Appended(bs, b, new)
  BY <1>1, AppendIs
<1> HIDE DEF new
<1>5. /\ L \in Nat /\ DOMAIN bs = 1..L /\ Len(new) = L + 1 /\ DOMAIN new = 1..(L + 1)
      /\ new[L + 1] = b /\ \A i \in 1..L : new[i] = bs[i]
  BY <1>4 DEF Appended
<1> HIDE DEF L
<1>6. \A i \in DOMAIN new : (i \in DOMAIN bs /\ new[i] = bs[i]) \/ (i = L + 1 /\ new[i] = b)
  BY <1>5
<1>7. ASSUME NEW i \in DOMAIN new
      PROVE  /\ Len(new[i]) >= 1 /\ new[i][1] \in 1..m /\ LooksLikeHeader(sheet[new[i][1]])
             /\ \A j \in 2..Len(new[i]) : new[i][j] \in 1..m /\ Under(sheet, new[i][1], new[i][j])
  <2>1. CASE i \in DOMAIN bs /\ new[i] = bs[i]
    BY <2>1, <1>2 DEF BlocksOk
  <2>2. CASE i = L + 1 /\ new[i] = b
    BY <2>2, <1>1, <1>2, <1>3
  <2> QED BY <2>1, <2>2, <1>6
<1>8. ASSUME NEW i \in DOMAIN new, NEW o \in DOMAIN new,
             NEW j \in 2..Len(new[i]), NEW l \in 2..Len(new[o]), new[i][j] = new[o][l]
      PROVE  i = o /\ j = l
  <2>0. 2..Len(b) = {}
    BY <1>1
  <2>1. i \in DOMAIN bs /\ new[i] = bs[i] /\ o \in DOMAIN bs /\ new[o] = bs[o]
    BY <2>0, <1>6
  <2> QED BY <2>1, <1>8 DEF BlocksOk
<1>9. ASSUME NEW n \in 1..m, NEW h \in 1..m, Under(sheet, h, n)
      PROVE  \E i \in DOMAIN new : \E j \in 2..Len(new[i]) : new[i][j] = n
  <2>1. n # m
    BY <1>2, <1>3, <1>9 DEF Under
  <2>2. n \in 1..k /\ h \in 1..k
    <3>1. n \in 1..k
      BY <2>1, <1>2
    <3>2. h < n /\ n < m
      BY <3>1, <1>2, <1>9 DEF Under
    <3>3. h # m
      BY <3>1, <3>2, <1>2
    <3> QED BY <3>1, <3>3, <1>2
  <2>3. PICK i \in DOMAIN bs : \E j \in 2..Len(bs[i]) : bs[i][j] = n
    BY <2>2, <1>9 DEF BlocksOk
  <2>4. new[i] = bs[i] /\ i \in DOMAIN new
    BY <1>5
  <2> QED BY <2>3, <2>4
<1>10. new # <<>> /\ \A x \in (new[Len(new)][1] + 1)..m : ~LooksLikeHeader(sheet[x])
  BY <1>1, <1>2, <1>5
<1>11. BlocksOk(new, sheet, m)
  BY <1>7, <1>8, <1>9, <1>10 DEF BlocksOk
<1> QED BY <1>11 DEF new, b, m

\* Another row goes into the last block.
LEMMA BlockGrown ==
    ASSUME NEW sheet \in Seq(SheetRows), NEW k \in Nat, NEW bs \in BlockLists(sheet), bs # <<>>,
           BlocksOk(bs, sheet, k), k + 1 \in 1..Len(sheet), ~LooksLikeHeader(sheet[k + 1])
    PROVE  BlocksOk([bs EXCEPT ![Len(bs)] = Append(@, k + 1)], sheet, k + 1)
<1> DEFINE m == k + 1
           L == Len(bs)
           old == bs[L]
           b == Append(old, m)
           new == [bs EXCEPT ![L] = b]
           S == Seq(1..Len(sheet))
<1>1. L \in Nat /\ L \in 1..L /\ DOMAIN bs = 1..L /\ bs \in [1..L -> S] /\ old \in S /\ m \in 1..Len(sheet)
  BY DEF BlockLists
<1>2. m \in Nat /\ 1..m = 1..k \cup {m} /\ k < m /\ \A x \in 1..k : x < m
  OBVIOUS
<1>3. ~LooksLikeHeader(sheet[m]) /\ m = k + 1
  OBVIOUS
<1>4. Appended(old, m, b)
  BY <1>1, AppendIs
<1> HIDE DEF old, b
<1>5. /\ new \in [1..L -> {x : x \in S} \cup {b}] /\ DOMAIN new = 1..L /\ new[L] = b
      /\ \A i \in 1..L : i # L => new[i] = bs[i]
  BY <1>1
<1>6. new # <<>> /\ Len(new) = L
  <2>1. b \in S
    BY <1>1 DEF b
  <2>2. new \in [1..L -> S]
    BY <2>1, <1>1
  <2>4. L \in Nat
    BY <1>1
  <2> HIDE DEF new, S, L
  <2>3. new \in Seq(S) /\ Len(new) = L
    BY <2>2, <2>4, SeqDef
  <2> QED BY <2>3, <1>1
<1> HIDE DEF new, S, L, m
<1>7. /\ Len(old) \in Nat /\ Len(b) = Len(old) + 1 /\ b[Len(old) + 1] = m
      /\ \A i \in 1..Len(old) : b[i] = old[i]
  BY <1>4 DEF Appended
<1>8. /\ Len(old) >= 1 /\ old[1] \in 1..k /\ LooksLikeHeader(sheet[old[1]])
      /\ \A j \in 2..Len(old) : old[j] \in 1..k /\ Under(sheet, old[1], old[j])
      /\ \A x \in (old[1] + 1)..k : ~LooksLikeHeader(sheet[x])
  BY <1>1 DEF BlocksOk, old, L
<1>9. b[1] = old[1] /\ \A j \in 2..Len(b) : (j \in 2..Len(old) /\ b[j] = old[j])
                                           \/ (j = Len(old) + 1 /\ b[j] = m)
  BY <1>7, <1>8
<1>10. Under(sheet, old[1], m)
  <2>1. \A x \in (old[1] + 1)..m : x \in (old[1] + 1)..k \/ x = m
    BY <1>2, <1>3, <1>8
  <2> QED BY <2>1, <1>2, <1>3, <1>8 DEF Under
<1>11. ASSUME NEW i \in DOMAIN new
       PROVE  /\ Len(new[i]) >= 1 /\ new[i][1] \in 1..m /\ LooksLikeHeader(sheet[new[i][1]])
              /\ \A j \in 2..Len(new[i]) : new[i][j] \in 1..m /\ Under(sheet, new[i][1], new[i][j])
  <2>1. CASE i = L
    <3>1. new[i] = b
      BY <2>1, <1>5
    <3>2. Len(b) >= 1 /\ b[1] \in 1..m /\ LooksLikeHeader(sheet[b[1]])
      BY <1>2, <1>7, <1>8, <1>9
    <3>3. \A j \in 2..Len(b) : b[j] \in 1..m /\ Under(sheet, b[1], b[j])
      BY <1>2, <1>8, <1>9, <1>10
    <3> QED BY <3>1, <3>2, <3>3
  <2>2. CASE i # L
    <3>1. new[i] = bs[i] /\ i \in DOMAIN bs
      BY <2>2, <1>1, <1>5
    <3> QED BY <3>1, <1>2 DEF BlocksOk
  <2> QED BY <2>1, <2>2
<1>12. ASSUME NEW i \in DOMAIN new, NEW j \in 2..Len(new[i])
       PROVE  \/ i \in DOMAIN bs /\ j \in 2..Len(bs[i]) /\ new[i][j] = bs[i][j] /\ new[i][j] \in 1..k
              \/ i = L /\ j = Len(old) + 1 /\ new[i][j] = m
  <2>1. CASE i = L
    <3>1. new[i] = b /\ bs[i] = old /\ i \in DOMAIN bs
      BY <2>1, <1>1, <1>5 DEF old
    <3> QED BY <2>1, <3>1, <1>8, <1>9, <1>12
  <2>2. CASE i # L
    <3>1. new[i] = bs[i] /\ i \in DOMAIN bs
      BY <2>2, <1>1, <1>5
    <3> QED BY <3>1, <1>12 DEF BlocksOk
  <2> QED BY <2>1, <2>2
<1>13. m \notin 1..k
  BY <1>2
<1>14. ASSUME NEW i \in DOMAIN new, NEW o \in DOMAIN new,
              NEW j \in 2..Len(new[i]), NEW l \in 2..Len(new[o]), new[i][j] = new[o][l]
       PROVE  i = o /\ j = l
  <2>1. \/ i \in DOMAIN bs /\ j \in 2..Len(bs[i]) /\ new[i][j] = bs[i][j] /\ new[i][j] \in 1..k
        \/ i = L /\ j = Len(old) + 1 /\ new[i][j] = m
    BY <1>12
  <2>2. \/ o \in DOMAIN bs /\ l \in 2..Len(bs[o]) /\ new[o][l] = bs[o][l] /\ new[o][l] \in 1..k
        \/ o = L /\ l = Len(old) + 1 /\ new[o][l] = m
    BY <1>12
  <2>3. CASE new[i][j] = m
    BY <2>1, <2>2, <2>3, <1>13, <1>14
  <2>4. CASE new[i][j] # m
    <3>1. /\ i \in DOMAIN bs /\ j \in 2..Len(bs[i]) /\ o \in DOMAIN bs /\ l \in 2..Len(bs[o])
          /\ bs[i][j] = bs[o][l]
      BY <2>1, <2>2, <2>4, <1>14
    <3> QED BY <3>1 DEF BlocksOk
  <2> QED BY <2>3, <2>4
<1>15. ASSUME NEW n \in 1..m, NEW h \in 1..m, Under(sheet, h, n)
       PROVE  \E i \in DOMAIN new : \E j \in 2..Len(new[i]) : new[i][j] = n
  <2>1. CASE n = m
    <3>1. L \in DOMAIN new /\ new[L] = b /\ Len(old) + 1 \in 2..Len(b)
      BY <1>1, <1>5, <1>7, <1>8
    <3> QED BY <3>1, <2>1, <1>7
  <2>2. CASE n # m
    <3>1. n \in 1..k /\ h \in 1..k
      <4>1. n \in 1..k
        BY <2>2, <1>2
      <4>2. h < n /\ n < m
        BY <4>1, <1>2, <1>15 DEF Under
      <4>3. h # m
        BY <4>1, <4>2, <1>2
      <4> QED BY <4>1, <4>3, <1>2
    <3>2. PICK i \in DOMAIN bs : \E j \in 2..Len(bs[i]) : bs[i][j] = n
      BY <3>1, <1>15 DEF BlocksOk
    <3>3. PICK j \in 2..Len(bs[i]) : bs[i][j] = n
      BY <3>2
    <3>4. CASE i = L
      <4>1. new[i] = b /\ bs[i] = old /\ i \in DOMAIN new
        BY <3>4, <1>1, <1>5 DEF old
      <4>2. j \in 2..Len(b) /\ b[j] = old[j]
        BY <3>3, <4>1, <1>7
      <4> QED BY <4>1, <4>2, <3>3
    <3>5. CASE i # L
      <4>1. new[i] = bs[i] /\ i \in DOMAIN new
        BY <3>5, <1>1, <1>5
      <4> QED BY <4>1, <3>3
    <3> QED BY <3>4, <3>5
  <2> QED BY <2>1, <2>2
<1>16. \A x \in (new[Len(new)][1] + 1)..m : ~LooksLikeHeader(sheet[x])
  <2>1. new[Len(new)][1] = old[1]
    BY <1>5, <1>6, <1>9
  <2>2. \A x \in (old[1] + 1)..m : x \in (old[1] + 1)..k \/ x = m
    BY <1>2, <1>3, <1>8
  <2> QED BY <2>1, <2>2, <1>3, <1>8
<1>17. BlocksOk(new, sheet, m)
  BY <1>6, <1>11, <1>14, <1>15, <1>16 DEF BlocksOk
<1> QED BY <1>17 DEF new, b, old, L, m

\* The blocks of a sheet.
LEMMA BlocksAre ==
    ASSUME NEW sheet \in Seq(SheetRows)
    PROVE  Blocks(sheet) \in BlockLists(sheet) /\ BlocksOk(Blocks(sheet), sheet, Len(sheet))
<1> DEFINE n == Len(sheet)
<1>1. PICK r : BlockRun(r, sheet)
  BY BlockSteps
<1>2. n \in Nat /\ Len(Numbering(sheet)) = n /\ \A k \in 1..n : Numbering(sheet)[k] = k
  BY NumberingIs
<1>3. /\ r \in [0..n -> BlockLists(sheet)] /\ r[0] = <<>> /\ r[n] = Blocks(sheet)
      /\ \A k \in 1..n : r[k] = BlockAfter(r[k - 1], sheet, k)
  BY <1>1, <1>2 DEF BlockRun
<1> HIDE DEF n
<1> DEFINE Good == {k \in 0..n : BlocksOk(r[k], sheet, k)}
<1>4. 0 \in Good
  <2>1. BlocksOk(<<>>, sheet, 0)
    BY DEF BlocksOk
  <2> QED BY <2>1, <1>2, <1>3
<1>5. ASSUME NEW k \in 0..(n - 1), k \in Good PROVE k + 1 \in Good
  <2>1. k + 1 \in 1..n /\ (k + 1) - 1 = k /\ k \in 0..n /\ k + 1 \in 0..n /\ k \in Nat
        /\ 1..(k + 1) = 1..k \cup {k + 1} /\ k + 1 \in 1..Len(sheet)
    BY <1>2 DEF n
  <2>2. r[k] \in BlockLists(sheet) /\ BlocksOk(r[k], sheet, k)
    BY <2>1, <1>3, <1>5
  <2>3. r[k + 1] = BlockAfter(r[k], sheet, k + 1)
    BY <2>1, <1>3
  <2>4. CASE LooksLikeHeader(sheet[k + 1])
    <3>1. r[k + 1] = Append(r[k], <<k + 1>>)
      BY <2>3, <2>4 DEF BlockAfter
    <3>2. BlocksOk(r[k + 1], sheet, k + 1)
      BY <2>1, <2>2, <2>4, <3>1, BlockBegun
    <3> QED BY <3>2, <2>1
  <2>5. CASE ~LooksLikeHeader(sheet[k + 1]) /\ r[k] # <<>>
    <3>1. r[k + 1] = [r[k] EXCEPT ![Len(r[k])] = Append(@, k + 1)]
      BY <2>3, <2>5 DEF BlockAfter
    <3>2. BlocksOk(r[k + 1], sheet, k + 1)
      BY <2>1, <2>2, <2>5, <3>1, BlockGrown
    <3> QED BY <3>2, <2>1
  <2>6. CASE ~LooksLikeHeader(sheet[k + 1]) /\ r[k] = <<>>
    <3>1. r[k + 1] = <<>>
      BY <2>3, <2>6 DEF BlockAfter
    <3>2. \A x \in 1..(k + 1) : ~LooksLikeHeader(sheet[x])
      BY <2>1, <2>2, <2>6 DEF BlocksOk
    <3>3. \A m, h \in 1..(k + 1) : ~Under(sheet, h, m)
      BY <3>2 DEF Under
    <3>4. BlocksOk(<<>>, sheet, k + 1)
      BY <3>2, <3>3 DEF BlocksOk
    <3> QED BY <3>1, <3>4, <2>1
  <2> QED BY <2>4, <2>5, <2>6
<1> HIDE DEF Good
<1>6. n \in Good
  <2>1. 0..n \subseteq Good
    BY <1>2, <1>4, <1>5, UpToInSet
  <2> QED BY <2>1, <1>2
<1> QED BY <1>6, <1>2, <1>3 DEF Good, n

\* What is imported of row n under header h; the columns of addresses tells an
\* accepted one.
RecordOf(sheet, h, n) ==
    [row |-> n, ip |-> sheet[n][ColumnOf(sheet[h], "ip")], table |-> SheetTable(sheet[h], sheet[n])]

\* The address of row n under the head h is one that an import takes.
TakenAt(sheet, h, n) == Allowed(sheet[n][ColumnOf(sheet[h], "ip")])

\* What can be read from a sheet.
ImportRows(sheet) == {RecordOf(sheet, h, n) : h \in 1..Len(sheet), n \in 1..Len(sheet)}

\* A block that begins with a header.
HeadedBlocks(sheet) ==
    {b \in Seq(1..Len(sheet)) : Len(b) >= 1 /\ LooksLikeHeader(sheet[b[1]])}

\* recs has the records of the rows of b.
RecordsOk(recs, sheet, b) ==
    /\ \A x \in DOMAIN recs : \E j \in 2..Len(b) : /\ recs[x] = RecordOf(sheet, b[1], b[j])
                                                   /\ TakenAt(sheet, b[1], b[j])
    /\ \A j \in 2..Len(b) : TakenAt(sheet, b[1], b[j]) => \E x \in DOMAIN recs : recs[x].row = b[j]
    /\ (\A j, l \in 2..Len(b) : b[j] = b[l] => j = l)
         => \A x, y \in DOMAIN recs : recs[x].row = recs[y].row => x = y

\* The records of a block.
LEMMA RecordsAre ==
    ASSUME NEW sheet \in Seq(SheetRows), NEW b \in HeadedBlocks(sheet)
    PROVE  Records(sheet, b) \in Seq(ImportRows(sheet)) /\ RecordsOk(Records(sheet, b), sheet, b)
<1> DEFINE N == 1..Len(sheet)
           header == sheet[b[1]]
           at == ColumnOf(header, "ip")
           set == {n \in DOMAIN sheet : Allowed(sheet[n][at])}
           tail == Tail(b)
           taken == Filtered(tail, set)
           recs == Records(sheet, b)
<1>1. b \in Seq(N) /\ Len(b) \in Nat /\ Len(b) >= 1 /\ LooksLikeHeader(header) /\ DOMAIN sheet = N
  BY DEF HeadedBlocks
<1>2. b[1] \in N /\ \A j \in 2..Len(b) : b[j] \in N
  <2> HIDE DEF N
  <2> QED BY <1>1
<1>3. "ip" \in HeadingsIn(header)
  <2>1. header \in SheetRows
    BY <1>2
  <2> HIDE DEF header
  <2> QED BY <2>1, <1>1, HeadersAre
<1>4. tail \in Seq(N) /\ Len(tail) = Len(b) - 1 /\ \A i \in 1..Len(tail) : tail[i] = b[i + 1]
  <2> HIDE DEF N
  <2>1. b # <<>>
    BY <1>1
  <2> QED BY <2>1, <1>1
<1>5. \A n : n \in N => (n \in set <=> TakenAt(sheet, b[1], n))
  BY <1>1 DEF TakenAt
<1>6. recs = [k \in DOMAIN taken |-> [row |-> taken[k], ip |-> sheet[taken[k]][at],
                                      table |-> SheetTable(header, sheet[taken[k]])]]
  BY <1>3 DEF Records
<1> HIDE DEF set, tail
<1>7. /\ taken \in Seq(N)
      /\ \E sel : Selection(sel, tail, Len(tail), taken, set)
  BY <1>4, FilterSelects
<1> HIDE DEF taken
<1>8. PICK sel : Selection(sel, tail, Len(tail), taken, set)
  BY <1>7
<1> DEFINE K == Len(taken)
           M == Len(tail)
<1>9. /\ K \in Nat /\ DOMAIN taken = 1..K /\ M \in Nat /\ M = Len(b) - 1
      /\ sel \in [1..K -> 1..M] /\ \A i, j \in 1..K : i < j => sel[i] < sel[j]
      /\ \A i \in 1..K : taken[i] = tail[sel[i]] /\ taken[i] \in set
      /\ \A m \in 1..M : tail[m] \in set => \E i \in 1..K : sel[i] = m
  <2> HIDE DEF N
  <2> QED BY <1>4, <1>7, <1>8, <1>1 DEF Selection
<1>10. \A i \in 1..K : /\ sel[i] + 1 \in 2..Len(b) /\ taken[i] = b[sel[i] + 1]
                       /\ taken[i] \in N /\ TakenAt(sheet, b[1], taken[i])
  <2> TAKE i \in 1..K
  <2>1. sel[i] \in 1..M /\ sel[i] \in 1..Len(tail)
    BY <1>9
  <2>2. sel[i] + 1 \in 2..Len(b) /\ taken[i] = b[sel[i] + 1]
    <3>1. taken[i] = tail[sel[i]] /\ tail[sel[i]] = b[sel[i] + 1]
      BY <2>1, <1>4, <1>9
    <3>2. Len(b) \in Nat /\ M = Len(b) - 1
      BY <1>1, <1>9
    <3> HIDE DEF M, K, N
    <3>3. \A s \in 1..M : s + 1 \in 2..Len(b)
      BY <3>2
    <3> QED BY <3>1, <3>3, <2>1
  <2>3. taken[i] \in N
    BY <2>2, <1>2
  <2> HIDE DEF N
  <2> QED BY <2>2, <2>3, <1>5, <1>9
<1>11. DOMAIN recs = 1..K /\ \A k \in 1..K : recs[k] = RecordOf(sheet, b[1], taken[k])
  <2> HIDE DEF recs
  <2> QED BY <1>6, <1>9 DEF RecordOf
<1>12. recs \in Seq(ImportRows(sheet))
  <2>1. \A k \in 1..K : RecordOf(sheet, b[1], taken[k]) \in ImportRows(sheet)
    BY <1>2, <1>10 DEF ImportRows
  <2>2. recs \in [1..K -> ImportRows(sheet)]
    <3>1. recs = [k \in 1..K |-> recs[k]]
      <4> HIDE DEF recs
      <4> QED BY <1>6, <1>9
    <3> HIDE DEF recs
    <3> QED BY <2>1, <1>11, <3>1
  <2>3. K \in Nat
    BY <1>9
  <2> HIDE DEF recs, K
  <2> QED BY <2>2, <2>3, SeqDef
<1> HIDE DEF recs, N, M, K
<1>13. \A k \in 1..K : recs[k].row = taken[k]
  BY <1>11 DEF RecordOf
<1>14. \A x \in DOMAIN recs : \E j \in 2..Len(b) : /\ recs[x] = RecordOf(sheet, b[1], b[j])
                                                   /\ TakenAt(sheet, b[1], b[j])
  BY <1>10, <1>11
<1>15. \A j \in 2..Len(b) : TakenAt(sheet, b[1], b[j]) => \E x \in DOMAIN recs : recs[x].row = b[j]
  <2> SUFFICES ASSUME NEW j \in 2..Len(b), TakenAt(sheet, b[1], b[j])
               PROVE  \E x \in DOMAIN recs : recs[x].row = b[j]
    OBVIOUS
  <2>1. j - 1 \in 1..M /\ (j - 1) + 1 = j /\ j - 1 \in 1..Len(tail)
    BY <1>9, <1>4, <1>1
  <2>2. tail[j - 1] = b[j]
    BY <2>1, <1>4
  <2>3. tail[j - 1] \in set
    BY <2>2, <1>2, <1>5
  <2>4. PICK i \in 1..K : sel[i] = j - 1
    BY <2>1, <2>3, <1>9
  <2>5. taken[i] = b[j]
    BY <2>2, <2>4, <1>9
  <2> QED BY <2>5, <1>11, <1>13
<1>16. ASSUME \A j, l \in 2..Len(b) : b[j] = b[l] => j = l
       PROVE  \A x, y \in DOMAIN recs : recs[x].row = recs[y].row => x = y
  <2> SUFFICES ASSUME NEW x \in 1..K, NEW y \in 1..K, recs[x].row = recs[y].row PROVE x = y
    BY <1>11
  <2>1. b[sel[x] + 1] = b[sel[y] + 1]
    BY <1>10, <1>13
  <2>2. sel[x] + 1 = sel[y] + 1
    BY <2>1, <1>10, <1>16
  <2>3. sel[x] = sel[y] /\ sel[x] \in Nat
    BY <2>2, <1>9
  <2>4. ~(x < y) /\ ~(y < x)
    BY <2>3, <1>9
  <2> QED BY <2>4, <1>9
<1>17. RecordsOk(recs, sheet, b)
  BY <1>14, <1>15, <1>16 DEF RecordsOk
<1> QED BY <1>12, <1>17 DEF recs

\* The blocks of a sheet begin with headers.
LEMMA BlocksAreHeaded ==
    ASSUME NEW sheet \in Seq(SheetRows)
    PROVE  Blocks(sheet) \in Seq(HeadedBlocks(sheet))
<1> DEFINE bs == Blocks(sheet)
           S == Seq(1..Len(sheet))
<1>1. bs \in Seq(S) /\ BlocksOk(bs, sheet, Len(sheet))
  BY BlocksAre DEF BlockLists
<1> HIDE DEF bs
<1>2. Len(bs) \in Nat /\ DOMAIN bs = 1..Len(bs) /\ bs \in [1..Len(bs) -> S]
  <2> HIDE DEF S
  <2> QED BY <1>1
<1>3. \A i \in 1..Len(bs) : bs[i] \in HeadedBlocks(sheet)
  BY <1>1, <1>2 DEF BlocksOk, HeadedBlocks
<1>4. bs \in [1..Len(bs) -> HeadedBlocks(sheet)]
  <2> HIDE DEF S
  <2> QED BY <1>2, <1>3
<1> QED BY <1>2, <1>4, SeqDef DEF bs

\* r gives the records of the first k blocks.
UploadRun(r, sheet) ==
    /\ r \in [0..Len(Blocks(sheet)) -> Seq(ImportRows(sheet))]
    /\ r[0] = <<>> /\ r[Len(Blocks(sheet))] = Upload(sheet)
    /\ \A k \in 1..Len(Blocks(sheet)) : r[k] = r[k - 1] \o Records(sheet, Blocks(sheet)[k])

\* A sheet is imported block by block.
LEMMA UploadSteps ==
    ASSUME NEW sheet \in Seq(SheetRows)
    PROVE  \E r : UploadRun(r, sheet)
<1> DEFINE n == Len(Blocks(sheet))
           T == Seq(ImportRows(sheet))
           E == HeadedBlocks(sheet)
           op(t, e) == t \o Records(sheet, e)
           F == [p \in T \X E |-> op(p[1], p[2])]
           Fix(i) == i = [s \in SUBSET (DOMAIN Blocks(sheet)) |->
                            IF s = {} THEN <<>> ELSE op(i[s \ {Max(s)}], Blocks(sheet)[Max(s)])]
           it == CHOOSE i : Fix(i)
<1>1. n \in Nat /\ Blocks(sheet) \in [1..n -> E] /\ DOMAIN Blocks(sheet) = 1..n /\ <<>> \in T
  <2>1. Blocks(sheet) \in Seq(E)
    BY BlocksAreHeaded
  <2>2. <<>> \in T
    OBVIOUS
  <2> HIDE DEF E, T
  <2> QED BY <2>1, <2>2
<1>2. \A t \in T, e \in E : op(t, e) \in T /\ F[<<t, e>>] = op(t, e)

  <2> TAKE t \in T, e \in E
  <2>1. <<t, e>> \in T \X E
    OBVIOUS
  <2>2. F[<<t, e>>] = op(t, e)
    <3> HIDE DEF T, E, op
    <3> QED BY <2>1
  <2> DEFINE R == ImportRows(sheet)
  <2>3. Records(sheet, e) \in Seq(R)
    BY RecordsAre
  <2>4. t \in Seq(R)
    OBVIOUS
  <2> HIDE DEF R
  <2>5. t \o Records(sheet, e) \in Seq(R)
    BY <2>3, <2>4
  <2> HIDE DEF F
  <2> QED BY <2>2, <2>5 DEF R
<1>3. F \in [T \X E -> T]
  <2> HIDE DEF op, T, E
  <2> QED BY <1>2
<1>4. Upload(sheet) = it[1..n]
  BY <1>1 DEF Upload, FoldLeft, MapThenFoldSet
<1> HIDE DEF n, T, E, F, op
<1>5. PICK g : FoldSolution(g, T, F, <<>>, n, Blocks(sheet))
  BY <1>1, <1>3, FoldHasSolution
<1>6. FoldStays(g, T, E, F, <<>>, n, Blocks(sheet)) /\ g \in [SUBSET (1..n) -> T]
  BY <1>1, <1>5, SolutionStays
<1>7. Fix(g)
  BY <1>1, <1>2, <1>6 DEF FoldStays
<1> HIDE DEF Fix
<1>8. Fix(it)
  BY <1>7
<1> HIDE DEF it
<1>9. FoldLike(it, T, F, <<>>, n, Blocks(sheet))
  <2>1. \A s \in SUBSET (1..n) :
            it[s] = IF s = {} THEN <<>> ELSE op(it[s \ {Max(s)}], Blocks(sheet)[Max(s)])
    BY <1>1, <1>8 DEF Fix
  <2>2. 1..0 = {} /\ {} \in SUBSET (1..n)
    OBVIOUS
  <2>3. it[1..0] = <<>>
    BY <2>1, <2>2
  <2>4. \A s \in SUBSET (1..n) : s # {} => Blocks(sheet)[Max(s)] \in E
    BY <1>6 DEF FoldStays
  <2> QED BY <1>2, <2>1, <2>3, <2>4 DEF FoldLike
<1>10. FoldGives(it[1..n], T, F, <<>>, n, Blocks(sheet))
  BY <1>1, <1>3, <1>9, FoldHasSteps
<1>11. PICK r : FoldSteps(r, T, F, <<>>, n, Blocks(sheet)) /\ r[n] = Upload(sheet)
  BY <1>10, <1>4 DEF FoldGives
<1>12. r \in [0..n -> T] /\ r[0] = <<>> /\ \A k \in 1..n : r[k] = F[<<r[k - 1], Blocks(sheet)[k]>>]
  BY <1>11 DEF FoldSteps
<1>13. \A k \in 1..n : r[k] = op(r[k - 1], Blocks(sheet)[k])
  <2> TAKE k \in 1..n
  <2>1. r[k - 1] \in T /\ Blocks(sheet)[k] \in E
    BY <1>1, <1>12
  <2> QED BY <2>1, <1>12, <1>2
<1> QED BY <1>11, <1>12, <1>13 DEF UploadRun, n, T, op

\* recs has the records of the first m blocks.
UploadOk(recs, sheet, bs, m) ==
    /\ \A x \in DOMAIN recs : \E i \in 1..m : \E j \in 2..Len(bs[i]) :
         recs[x] = RecordOf(sheet, bs[i][1], bs[i][j]) /\ TakenAt(sheet, bs[i][1], bs[i][j])
    /\ \A i \in 1..m : \A j \in 2..Len(bs[i]) :
         TakenAt(sheet, bs[i][1], bs[i][j]) => \E x \in DOMAIN recs : recs[x].row = bs[i][j]
    /\ \A x, y \in DOMAIN recs : recs[x].row = recs[y].row => x = y

\* The records of one block more.
LEMMA UploadGrows ==
    ASSUME NEW sheet \in Seq(SheetRows), NEW bs, NEW k \in Nat, k + 1 \in DOMAIN bs,
           1..k \subseteq DOMAIN bs, BlocksOk(bs, sheet, Len(sheet)),
           NEW s \in Seq(ImportRows(sheet)), NEW t \in Seq(ImportRows(sheet)),
           UploadOk(s, sheet, bs, k), RecordsOk(t, sheet, bs[k + 1])
    PROVE  UploadOk(s \o t, sheet, bs, k + 1)
<1> DEFINE u == s \o t
           m == k + 1
           b == bs[m]
<1>1. Joined(s, t, u)
  BY JoinIs
<1> HIDE DEF u
<1>2. m \in Nat /\ 1..m = 1..k \cup {m} /\ m \notin 1..k /\ m \in DOMAIN bs
  OBVIOUS
<1>3. RecordsOk(t, sheet, b)
  OBVIOUS
<1> HIDE DEF m, b
<1>4. /\ \A i \in DOMAIN s : i \in DOMAIN u /\ u[i] = s[i]
      /\ \A i \in DOMAIN t : Len(s) + i \in DOMAIN u /\ u[Len(s) + i] = t[i]
  BY <1>1 DEF Joined
<1>5. \A x \in DOMAIN u : (x \in DOMAIN s /\ u[x] = s[x])
                          \/ (x - Len(s) \in DOMAIN t /\ u[x] = t[x - Len(s)])
  BY <1>1 DEF Joined
<1>6. \A x \in DOMAIN u : x \in Nat
  BY <1>1 DEF Joined
<1>7. Len(s) \in Nat
  OBVIOUS
<1>8. ASSUME NEW x \in DOMAIN u
      PROVE  \E i \in 1..m : \E j \in 2..Len(bs[i]) :
                /\ u[x] = RecordOf(sheet, bs[i][1], bs[i][j]) /\ TakenAt(sheet, bs[i][1], bs[i][j])
                /\ x \in DOMAIN s <=> i \in 1..k
  <2>1. CASE x \in DOMAIN s
    <3>1. PICK i \in 1..k : \E j \in 2..Len(bs[i]) :
             s[x] = RecordOf(sheet, bs[i][1], bs[i][j]) /\ TakenAt(sheet, bs[i][1], bs[i][j])
      BY <2>1 DEF UploadOk
    <3> QED BY <3>1, <2>1, <1>2, <1>4
  <2>2. CASE x \notin DOMAIN s
    <3>1. x - Len(s) \in DOMAIN t /\ u[x] = t[x - Len(s)]
      BY <2>2, <1>5
    <3>2. PICK j \in 2..Len(b) : t[x - Len(s)] = RecordOf(sheet, b[1], b[j]) /\ TakenAt(sheet, b[1], b[j])
      BY <3>1, <1>3 DEF RecordsOk
    <3> QED BY <3>1, <3>2, <2>2, <1>2 DEF b
  <2> QED BY <2>1, <2>2
<1>9. ASSUME NEW i \in 1..m, NEW j \in 2..Len(bs[i]), TakenAt(sheet, bs[i][1], bs[i][j])
      PROVE  \E x \in DOMAIN u : u[x].row = bs[i][j]
  <2>1. CASE i \in 1..k
    <3>1. PICK x \in DOMAIN s : s[x].row = bs[i][j]
      BY <2>1, <1>9 DEF UploadOk
    <3> QED BY <3>1, <1>4
  <2>2. CASE i = m
    <3>1. j \in 2..Len(b) /\ TakenAt(sheet, b[1], b[j])
      BY <2>2, <1>9 DEF b
    <3>2. PICK x \in DOMAIN t : t[x].row = b[j]
      BY <3>1, <1>3 DEF RecordsOk
    <3> QED BY <3>2, <2>2, <1>4 DEF b
  <2> QED BY <2>1, <2>2, <1>2
<1>10. \A j, l \in 2..Len(b) : b[j] = b[l] => j = l
  BY <1>2 DEF BlocksOk, b
<1>11. \A x, y \in DOMAIN t : t[x].row = t[y].row => x = y
  BY <1>3, <1>10 DEF RecordsOk
<1>12. \A h, n : RecordOf(sheet, h, n).row = n
  BY DEF RecordOf
<1>13. ASSUME NEW x \in DOMAIN u, NEW y \in DOMAIN u, u[x].row = u[y].row
       PROVE  x = y
  <2>1. PICK i \in 1..m : \E j \in 2..Len(bs[i]) :
                /\ u[x] = RecordOf(sheet, bs[i][1], bs[i][j]) /\ TakenAt(sheet, bs[i][1], bs[i][j])
                /\ x \in DOMAIN s <=> i \in 1..k
    BY <1>8
  <2>2. PICK j \in 2..Len(bs[i]) : u[x] = RecordOf(sheet, bs[i][1], bs[i][j]) /\ (x \in DOMAIN s <=> i \in 1..k)
    BY <2>1
  <2>3. PICK o \in 1..m : \E l \in 2..Len(bs[o]) :
                /\ u[y] = RecordOf(sheet, bs[o][1], bs[o][l]) /\ TakenAt(sheet, bs[o][1], bs[o][l])
                /\ y \in DOMAIN s <=> o \in 1..k
    BY <1>8
  <2>4. PICK l \in 2..Len(bs[o]) : u[y] = RecordOf(sheet, bs[o][1], bs[o][l]) /\ (y \in DOMAIN s <=> o \in 1..k)
    BY <2>3
  <2>5. bs[i][j] = bs[o][l]
    BY <2>2, <2>4, <1>12, <1>13
  <2>6. i \in DOMAIN bs /\ o \in DOMAIN bs
    BY <1>2
  <2>7. i = o
    <3>1. \A a, c \in DOMAIN bs : \A d \in 2..Len(bs[a]), e \in 2..Len(bs[c]) :
             bs[a][d] = bs[c][e] => a = c /\ d = e
      BY DEF BlocksOk
    <3> HIDE DEF u
    <3> QED BY <3>1, <2>5, <2>6
  <2>8. CASE x \in DOMAIN s
    <3>1. y \in DOMAIN s /\ u[x] = s[x] /\ u[y] = s[y]
      BY <2>2, <2>4, <2>7, <2>8, <1>4
    <3> QED BY <3>1, <2>8, <1>13 DEF UploadOk
  <2>9. CASE x \notin DOMAIN s
    <3>1. y \notin DOMAIN s
      BY <2>2, <2>4, <2>7, <2>9
    <3>2. /\ x - Len(s) \in DOMAIN t /\ u[x] = t[x - Len(s)]
          /\ y - Len(s) \in DOMAIN t /\ u[y] = t[y - Len(s)]
      BY <3>1, <2>9, <1>5
    <3>3. x - Len(s) = y - Len(s)
      BY <3>2, <1>11, <1>13
    <3> QED BY <3>3, <1>6, <1>7
  <2> QED BY <2>8, <2>9
<1>14. UploadOk(u, sheet, bs, m)
  BY <1>8, <1>9, <1>13 DEF UploadOk
<1> QED BY <1>14 DEF u, m

\* The records of a sheet: of each row with an accepted address below a header one.
UploadIs(recs, sheet) ==
    /\ \A x \in DOMAIN recs : \E h, n \in 1..Len(sheet) :
          Under(sheet, h, n) /\ recs[x] = RecordOf(sheet, h, n) /\ TakenAt(sheet, h, n)
    /\ \A x, y \in DOMAIN recs : recs[x].row = recs[y].row => x = y
    /\ \A h, n \in 1..Len(sheet) : Under(sheet, h, n) /\ TakenAt(sheet, h, n) =>
          \E x \in DOMAIN recs : recs[x].row = n

\* A row has one nearest header.
LEMMA OneIsNearest ==
    ASSUME NEW sheet, NEW h \in Nat, NEW g \in Nat, NEW n \in Nat, Under(sheet, h, n), Under(sheet, g, n)
    PROVE  h = g
<1>1. ~(h < g) /\ ~(g < h)
  <2>1. h < g => g \in (h + 1)..n
    BY DEF Under
  <2>2. g < h => h \in (g + 1)..n
    BY DEF Under
  <2> QED BY <2>1, <2>2 DEF Under
<1> QED BY <1>1

\* An upload gives the rows that it should.
LEMMA UploadAre ==
    ASSUME NEW sheet \in Seq(SheetRows)
    PROVE  Upload(sheet) \in Seq(ImportRows(sheet)) /\ UploadIs(Upload(sheet), sheet)
<1> DEFINE bs == Blocks(sheet)
           n == Len(bs)
           R == ImportRows(sheet)
           H == HeadedBlocks(sheet)
<1>1. PICK r : UploadRun(r, sheet)
  BY UploadSteps
<1>2. bs \in Seq(H) /\ BlocksOk(bs, sheet, Len(sheet))
  BY BlocksAreHeaded, BlocksAre
<1>3. /\ r \in [0..n -> Seq(R)] /\ r[0] = <<>> /\ r[n] = Upload(sheet)
      /\ \A k \in 1..n : r[k] = r[k - 1] \o Records(sheet, bs[k])
  BY <1>1 DEF UploadRun
<1> HIDE DEF bs, R, H
<1>4. n \in Nat /\ DOMAIN bs = 1..n /\ \A k \in 1..n : bs[k] \in H
  BY <1>2
<1> HIDE DEF n
<1> DEFINE Good == {k \in 0..n : UploadOk(r[k], sheet, bs, k)}
<1>5. 0 \in Good
  <2>1. UploadOk(<<>>, sheet, bs, 0)
    BY DEF UploadOk
  <2> QED BY <2>1, <1>3, <1>4
<1>6. ASSUME NEW k \in 0..(n - 1), k \in Good PROVE k + 1 \in Good
  <2>1. k + 1 \in 1..n /\ (k + 1) - 1 = k /\ k \in 0..n /\ k + 1 \in 0..n /\ k \in Nat
        /\ 1..k \subseteq DOMAIN bs /\ k + 1 \in DOMAIN bs
    BY <1>4
  <2>2. r[k] \in Seq(R) /\ UploadOk(r[k], sheet, bs, k) /\ bs[k + 1] \in H
        /\ r[k + 1] = r[k] \o Records(sheet, bs[k + 1])
    BY <2>1, <1>3, <1>4, <1>6
  <2>3. Records(sheet, bs[k + 1]) \in Seq(R) /\ RecordsOk(Records(sheet, bs[k + 1]), sheet, bs[k + 1])
    BY <2>2, RecordsAre DEF H, R
  <2>4. UploadOk(r[k] \o Records(sheet, bs[k + 1]), sheet, bs, k + 1)
    BY <2>1, <2>2, <2>3, <1>2, UploadGrows DEF R
  <2> QED BY <2>1, <2>2, <2>4
<1> HIDE DEF Good
<1>7. n \in Good
  <2>1. 0..n \subseteq Good
    BY <1>4, <1>5, <1>6, UpToInSet
  <2> QED BY <2>1, <1>4
<1> DEFINE recs == Upload(sheet)
<1>8. UploadOk(recs, sheet, bs, n)
  BY <1>7, <1>3 DEF Good
<1>9. recs \in Seq(R)
  BY <1>3, <1>4
<1> HIDE DEF recs
<1>10. \A x \in DOMAIN recs : \E h, m \in 1..Len(sheet) :
          Under(sheet, h, m) /\ recs[x] = RecordOf(sheet, h, m) /\ TakenAt(sheet, h, m)
  <2> TAKE x \in DOMAIN recs
  <2>1. PICK i \in 1..n : \E j \in 2..Len(bs[i]) :
           recs[x] = RecordOf(sheet, bs[i][1], bs[i][j]) /\ TakenAt(sheet, bs[i][1], bs[i][j])
    BY <1>8 DEF UploadOk
  <2>2. PICK j \in 2..Len(bs[i]) :
           recs[x] = RecordOf(sheet, bs[i][1], bs[i][j]) /\ TakenAt(sheet, bs[i][1], bs[i][j])
    BY <2>1
  <2>3. bs[i][1] \in 1..Len(sheet) /\ bs[i][j] \in 1..Len(sheet) /\ Under(sheet, bs[i][1], bs[i][j])
    BY <1>2, <1>4 DEF BlocksOk
  <2> QED BY <2>2, <2>3
<1>11. \A x, y \in DOMAIN recs : recs[x].row = recs[y].row => x = y
  BY <1>8 DEF UploadOk
<1>12. \A h, m \in 1..Len(sheet) : Under(sheet, h, m) /\ TakenAt(sheet, h, m) =>
          \E x \in DOMAIN recs : recs[x].row = m
  <2> SUFFICES ASSUME NEW h \in 1..Len(sheet), NEW m \in 1..Len(sheet), Under(sheet, h, m),
                      TakenAt(sheet, h, m)
               PROVE  \E x \in DOMAIN recs : recs[x].row = m
    OBVIOUS
  <2>1. PICK i \in 1..n : \E j \in 2..Len(bs[i]) : bs[i][j] = m
    BY <1>2, <1>4 DEF BlocksOk
  <2>2. PICK j \in 2..Len(bs[i]) : bs[i][j] = m
    BY <2>1
  <2>3. bs[i][1] \in 1..Len(sheet) /\ Under(sheet, bs[i][1], m)
    BY <2>2, <1>2, <1>4 DEF BlocksOk
  <2>4. bs[i][1] = h
    <3>1. h \in Nat /\ m \in Nat /\ bs[i][1] \in Nat
      BY <2>3
    <3> QED BY <3>1, <2>3, OneIsNearest
  <2>5. TakenAt(sheet, bs[i][1], bs[i][j])
    BY <2>2, <2>4
  <2> QED BY <2>2, <2>5, <1>8 DEF UploadOk
<1>13. UploadIs(recs, sheet)
  BY <1>10, <1>11, <1>12 DEF UploadIs
<1> QED BY <1>9, <1>13 DEF recs, R

\* The nearest header above a row.
LEMMA NearestIs ==
    ASSUME NEW sheet, NEW n \in Nat, NEW A, A = {h \in 1..(n - 1) : LooksLikeHeader(sheet[h])},
           A # {}, ~LooksLikeHeader(sheet[n])
    PROVE  Max(A) \in A /\ Under(sheet, Max(A), n)
<1>1. Max(A) \in A /\ \A m \in A : m <= Max(A)
  <2>1. A \subseteq 1..n
    OBVIOUS
  <2> QED BY <2>1, MaxOfBounded
<1> DEFINE h == Max(A)
<1>2. h \in 1..(n - 1) /\ LooksLikeHeader(sheet[h]) /\ \A m \in A : m <= h
  BY <1>1
<1> HIDE DEF h
<1>3. \A x \in (h + 1)..n : ~LooksLikeHeader(sheet[x])
  <2> TAKE x \in (h + 1)..n
  <2>1. CASE x = n
    BY <2>1
  <2>2. CASE x # n
    <3>1. x \in 1..(n - 1) /\ ~(x <= h)
      BY <2>2, <1>2
    <3> QED BY <3>1, <1>2
  <2> QED BY <2>1, <2>2
<1>4. h < n
  BY <1>2
<1> QED BY <1>1, <1>2, <1>3, <1>4 DEF Under, h

\* Any sheet is imported once, row by row.
LEMMA SheetIsImportedOnce ==
    ASSUME NEW sheet \in Seq(SheetRows) PROVE ImportedOnce(sheet)
<1> DEFINE records == Upload(sheet)
           Above(n) == {h \in 1..(n - 1) : LooksLikeHeader(sheet[h])}
           Header(n) == sheet[Max(Above(n))]
           Due(n) == /\ Above(n) # {} /\ ~LooksLikeHeader(sheet[n])
                     /\ "ip" \in HeadingsIn(Header(n))
                     /\ \E c \in Columns(Header(n), "ip") : Allowed(sheet[n][c])
           N == Len(sheet)
           of(n) == {k \in DOMAIN records : records[k].row = n}
<1>1. UploadIs(records, sheet)
  BY UploadAre
<1>2. N \in Nat /\ DOMAIN sheet = 1..N /\ \A h \in 1..N : sheet[h] \in SheetRows
  OBVIOUS
<1> HIDE DEF records, N
<1>3. \A h \in 1..N : LooksLikeHeader(sheet[h]) =>
         /\ "ip" \in HeadingsIn(sheet[h])
         /\ \A n : (\E c \in Columns(sheet[h], "ip") : Allowed(sheet[n][c])) <=> TakenAt(sheet, h, n)
  <2> SUFFICES ASSUME NEW h \in 1..N, LooksLikeHeader(sheet[h])
               PROVE  /\ "ip" \in HeadingsIn(sheet[h])
                      /\ \A n : (\E c \in Columns(sheet[h], "ip") : Allowed(sheet[n][c]))
                                <=> TakenAt(sheet, h, n)
    OBVIOUS
  <2>1. sheet[h] \in SheetRows
    BY <1>2
  <2>2. /\ "ip" \in HeadingsIn(sheet[h])
        /\ \E c \in {1, 2} : Columns(sheet[h], "ip") = {c} /\ ColumnOf(sheet[h], "ip") = c
    BY <2>1, HeadersAre
  <2>3. PICK c \in {1, 2} : Columns(sheet[h], "ip") = {c} /\ ColumnOf(sheet[h], "ip") = c
    BY <2>2
  <2> QED BY <2>2, <2>3 DEF TakenAt
<1>4. ASSUME NEW n \in 1..N, NEW h \in 1..N, Under(sheet, h, n)
      PROVE  /\ Above(n) # {} /\ ~LooksLikeHeader(sheet[n]) /\ Max(Above(n)) = h
             /\ Due(n) <=> TakenAt(sheet, h, n)
  <2>1. h \in Above(n) /\ ~LooksLikeHeader(sheet[n])
    BY <1>2, <1>4 DEF Under
  <2>2. Under(sheet, Max(Above(n)), n) /\ Max(Above(n)) \in Above(n)
    <3> DEFINE A == Above(n)
    <3>1. A = {x \in 1..(n - 1) : LooksLikeHeader(sheet[x])} /\ A # {} /\ n \in Nat
      BY <2>1
    <3> HIDE DEF A
    <3>2. Max(A) \in A /\ Under(sheet, Max(A), n)
      BY <3>1, <2>1, NearestIs
    <3> QED BY <3>2 DEF A
  <2>3. Max(Above(n)) \in Nat /\ h \in Nat /\ n \in Nat
    BY <2>2
  <2>4. Max(Above(n)) = h
    BY <2>2, <2>3, <1>4, OneIsNearest
  <2>5. LooksLikeHeader(sheet[h])
    BY <1>4 DEF Under
  <2>6. Due(n) <=> "ip" \in HeadingsIn(sheet[h]) /\ \E c \in Columns(sheet[h], "ip") : Allowed(sheet[n][c])
    BY <2>1, <2>4
  <2> HIDE DEF Due, Above
  <2>7. Due(n) <=> TakenAt(sheet, h, n)
    BY <2>5, <2>6, <1>3
  <2> QED BY <2>1, <2>4, <2>7
<1>5. ASSUME NEW n \in 1..N, Due(n)
      PROVE  \E h \in 1..N : Under(sheet, h, n) /\ TakenAt(sheet, h, n)
  <2> DEFINE A == Above(n)
  <2>1. A = {x \in 1..(n - 1) : LooksLikeHeader(sheet[x])} /\ A # {} /\ n \in Nat
        /\ ~LooksLikeHeader(sheet[n])
    BY <1>5
  <2> HIDE DEF A
  <2>2. Max(A) \in A /\ Under(sheet, Max(A), n)
    BY <2>1, NearestIs
  <2>3. Max(A) \in 1..N
    BY <2>1, <2>2, <1>2
  <2>4. TakenAt(sheet, Max(A), n)
    BY <2>2, <2>3, <1>4, <1>5
  <2> QED BY <2>2, <2>3, <2>4
<1>6. ASSUME NEW n \in 1..N
      PROVE  /\ Cardinality(of(n)) = IF Due(n) THEN 1 ELSE 0
             /\ \A k \in of(n) : records[k].table = SheetTable(Header(n), sheet[n])
  <2>1. ASSUME NEW k \in of(n)
        PROVE  Due(n) /\ records[k].table = SheetTable(Header(n), sheet[n])
    <3>1. PICK h \in 1..N, m \in 1..N :
             Under(sheet, h, m) /\ records[k] = RecordOf(sheet, h, m) /\ TakenAt(sheet, h, m)
      BY <1>1 DEF UploadIs, N
    <3>2. m = n /\ records[k].table = SheetTable(sheet[h], sheet[n])
      BY <3>1 DEF RecordOf
    <3>3. Max(Above(n)) = h /\ Due(n)
      BY <3>1, <3>2, <1>4
    <3> QED BY <3>2, <3>3
  <2>2. CASE Due(n)
    <3>1. PICK h \in 1..N : Under(sheet, h, n) /\ TakenAt(sheet, h, n)
      BY <2>2, <1>5
    <3>2. PICK x \in DOMAIN records : records[x].row = n
      BY <3>1, <1>1 DEF UploadIs, N
    <3>3. of(n) = {x}
      BY <3>2, <1>1 DEF UploadIs
    <3>4. Cardinality(of(n)) = 1
      BY <3>3, FS_Singleton
    <3> QED BY <3>4, <2>1, <2>2
  <2>3. CASE ~Due(n)
    <3>1. of(n) = {}
      BY <2>1, <2>3
    <3>2. Cardinality(of(n)) = 0
      BY <3>1, FS_EmptySet
    <3> QED BY <3>2, <2>1, <2>3
  <2> QED BY <2>2, <2>3
<1> QED BY <1>2, <1>6 DEF ImportedOnce, records, N

\* The sheet that is asked about.
LEMMA SheetOfRows ==
    ASSUME AskSheet
    PROVE  \E sheet \in Seq(SheetRows) : question' = [of |-> "sheet", sheet |-> sheet]
<1>1. PICK sheet \in SeqOf(SheetRows, MaxLen["sheet"]) :
          question' = [of |-> "sheet", sheet |-> sheet]
  BY DEF AskSheet
<1>2. sheet \in Seq(SheetRows)
  <2>1. MaxLen["sheet"] \in Nat
    BY QuestionsAssumption DEF ListQuestions
  <2> QED BY <2>1, ListOfUpTo
<1> QED BY <1>1, <1>2

\* Every row with an address under a head is imported once, for any sheet.
LEMMA OnceAnswer == AskSheet => RowsAreImportedOnce'
<1> SUFFICES ASSUME AskSheet PROVE RowsAreImportedOnce'
  OBVIOUS
<1>1. PICK sheet \in Seq(SheetRows) : question' = [of |-> "sheet", sheet |-> sheet]
  BY SheetOfRows
<1>2. ImportedOnce(sheet)
  BY SheetIsImportedOnce
<1>3. ImportedOnce(question'.sheet)
  BY <1>1, <1>2
<1> QED BY <1>3 DEF RowsAreImportedOnce

-----------------------------------------------------------------------------
(* The rows of a sheet with one block: both readers agree.                 *)

\* On any plain sheet the two readers agree.
LEMMA ReadersOnSheet ==
    ASSUME NEW sheet \in Seq(SheetRows) PROVE AgreeOn(sheet)
<1> DEFINE named == {n \in DOMAIN sheet : "ip" \in HeadingsIn(sheet[n])}
           at == ColumnOf(sheet[Max(named)], "ip")
           read == Inventory(sheet)
           N == Len(sheet)
           recs == Upload(sheet)
<1> SUFFICES ASSUME Cardinality(named) = 1, \A n \in named : LooksLikeHeader(sheet[n])
             PROVE  /\ \A i, j \in DOMAIN read : i < j => sheet[read[i]][at] # sheet[read[j]][at]
                    /\ {sheet[read[k]][at] : k \in DOMAIN read} \cap {"1", "2"}
                         = {r.ip : r \in ToSet(recs)}
  BY DEF AgreeOn
<1>1. N \in Nat /\ DOMAIN sheet = 1..N /\ \A h \in 1..N : sheet[h] \in SheetRows
  OBVIOUS
<1> HIDE DEF N
<1>2. IsFiniteSet(named)
  <2>1. IsFiniteSet(1..N)
    BY <1>1, FS_Interval
  <2>2. named \subseteq 1..N
    BY <1>1
  <2> QED BY <2>1, <2>2, FS_Subset
<1>3. PICK g : named = {g}
  <2> HIDE DEF named
  <2> QED BY <1>2, FS_Singleton
<1>4. g \in 1..N /\ LooksLikeHeader(sheet[g]) /\ sheet[g] \in SheetRows
  <2>1. g \in named
    BY <1>3
  <2> QED BY <2>1, <1>1
<1>5. \A h \in 1..N : LooksLikeHeader(sheet[h]) => h = g
  <2> TAKE h \in 1..N
  <2>1. LooksLikeHeader(sheet[h]) => h \in named
    BY <1>1, HeadersAre
  <2> QED BY <2>1, <1>3
<1>6. PICK c \in {1, 2} : Columns(sheet[g], "ip") = {c} /\ ColumnOf(sheet[g], "ip") = c
  <2>1. \E c \in {1, 2} : Columns(sheet[g], "ip") = {c} /\ ColumnOf(sheet[g], "ip") = c
    BY <1>4, HeadersAre
  <2> QED BY <2>1
<1>7. Max(named) = g /\ Min(named) = g /\ Min({c}) = c
  <2>1. {g} \subseteq 1..N /\ {g} # {} /\ {g} \subseteq Nat
    BY <1>4
  <2>2. Max({g}) \in {g} /\ Min({g}) \in {g}
    BY <2>1, <1>1, MaxOfBounded, MinOfBounded
  <2>3. {c} \subseteq Nat /\ {c} # {}
    OBVIOUS
  <2>4. Min({c}) \in {c}
    BY <2>3, MinOfBounded
  <2> HIDE DEF named
  <2> QED BY <2>2, <2>4, <1>3
<1>8. at = c
  <2> HIDE DEF named
  <2> QED BY <1>6, <1>7
<1> DEFINE M == N - g
           rows == [k \in 1..M |-> g + k]
           W == {n \in DOMAIN sheet : /\ IsAddress(sheet[n][c])
                                      /\ \A k \in (g + 1)..(n - 1) : sheet[k][c] # sheet[n][c]}
<1>9. read = Filtered(rows, W)
  <2> DEFINE heads == {n \in DOMAIN sheet : "ip" \in HeadingsIn(sheet[n])}
             head == Min(heads)
             col == Min(Columns(sheet[head], "ip"))
             list == IF heads = {} THEN <<>> ELSE [k \in 1..(Len(sheet) - head) |-> head + k]
             set == {n \in DOMAIN sheet :
                       /\ IsAddress(sheet[n][col])
                       /\ \A k \in (head + 1)..(n - 1) : sheet[k][col] # sheet[n][col]}
  <2>1. read = Filtered(list, set)
    BY DEF Inventory
  <2>2. head = g /\ heads # {}
    BY <1>3, <1>7
  <2>3. col = c
    BY <2>2, <1>6, <1>7
  <2> HIDE DEF head, heads, col
  <2>4. list = rows
    BY <2>2 DEF N
  <2>5. set = W
    BY <2>2, <2>3
  <2> HIDE DEF list, set, rows, W, read
  <2> QED BY <2>1, <2>4, <2>5
<1>10. M \in Nat /\ rows \in [1..M -> 1..N]
  BY <1>1, <1>4
<1>11. rows \in Seq(1..N) /\ Len(rows) = M /\ \A k \in 1..M : rows[k] = g + k
  <2>1. \A k \in 1..M : rows[k] = g + k
    OBVIOUS
  <2> DEFINE R == 1..N
  <2>3. M \in Nat /\ rows \in [1..M -> R]
    BY <1>10
  <2> HIDE DEF rows, M, R
  <2>4. rows \in Seq(R) /\ Len(rows) = M
    BY <2>3, SeqDef
  <2>2. rows \in Seq(1..N) /\ Len(rows) = M
    BY <2>4 DEF R
  <2> QED BY <2>1, <2>2
<1> HIDE DEF rows
<1>12. read \in Seq(1..N) /\ \E sel : Selection(sel, rows, M, read, W)
  <2> HIDE DEF W, read, M
  <2> QED BY <1>9, <1>11, FilterSelects
<1>13. PICK sel : Selection(sel, rows, M, read, W)
  BY <1>12
<1> HIDE DEF read, W
<1> DEFINE K == Len(read)
<1>14. /\ K \in Nat /\ DOMAIN read = 1..K
       /\ sel \in [1..K -> 1..M] /\ \A i, j \in 1..K : i < j => sel[i] < sel[j]
       /\ \A i \in 1..K : read[i] = rows[sel[i]] /\ read[i] \in W
       /\ \A m \in 1..M : rows[m] \in W => \E i \in 1..K : sel[i] = m
  BY <1>12, <1>13 DEF Selection
<1> HIDE DEF K
<1>15. \A i \in 1..K : read[i] = g + sel[i] /\ sel[i] \in 1..M /\ read[i] \in (g + 1)..N
  <2> TAKE i \in 1..K
  <2>1. sel[i] \in 1..M
    BY <1>14
  <2>2. read[i] = g + sel[i]
    BY <2>1, <1>11, <1>14
  <2> QED BY <2>1, <2>2, <1>1, <1>4
<1>16. \A i, j \in 1..K : i < j => sheet[read[i]][c] # sheet[read[j]][c]
  <2> SUFFICES ASSUME NEW i \in 1..K, NEW j \in 1..K, i < j
               PROVE  sheet[read[i]][c] # sheet[read[j]][c]
    OBVIOUS
  <2>1. sel[i] < sel[j] /\ sel[i] \in 1..M /\ sel[j] \in 1..M
    BY <1>14
  <2>2. read[i] = g + sel[i] /\ read[j] = g + sel[j]
    BY <1>15
  <2>3. read[i] \in (g + 1)..(read[j] - 1)
    BY <2>1, <2>2, <1>4, <1>10
  <2>4. read[j] \in W
    BY <1>14
  <2> QED BY <2>3, <2>4 DEF W
<1>17. UploadIs(recs, sheet) /\ recs \in Seq(ImportRows(sheet))
  BY UploadAre
<1> HIDE DEF recs
<1>18. \A n \in (g + 1)..N : n \in 1..N /\ Under(sheet, g, n)
  <2> TAKE n \in (g + 1)..N
  <2>1. \A x \in (g + 1)..n : x \in 1..N /\ x # g
    BY <1>1, <1>4
  <2>2. g < n /\ n \in 1..N
    BY <1>1, <1>4
  <2> QED BY <2>1, <2>2, <1>4, <1>5 DEF Under
<1>19. \A h, n \in 1..N : Under(sheet, h, n) => h = g /\ n \in (g + 1)..N
  <2> TAKE h, n \in 1..N
  <2>1. Under(sheet, h, n) => h = g /\ h < n
    BY <1>5 DEF Under
  <2> QED BY <2>1, <1>1, <1>4
<1>20. \A n : /\ TakenAt(sheet, g, n) <=> sheet[n][c] \in {"1", "2"}
              /\ RecordOf(sheet, g, n).ip = sheet[n][c] /\ RecordOf(sheet, g, n).row = n
  BY <1>6 DEF TakenAt, Allowed, RecordOf
<1>21. /\ \A x \in DOMAIN recs : recs[x] \in ToSet(recs)
       /\ \A r \in ToSet(recs) : \E x \in DOMAIN recs : r = recs[x]
  BY DEF ToSet
<1>22. ASSUME NEW k \in 1..K, sheet[read[k]][c] \in {"1", "2"}
       PROVE  \E r \in ToSet(recs) : r.ip = sheet[read[k]][c]
  <2> DEFINE n == read[k]
  <2>1. n \in 1..N /\ Under(sheet, g, n) /\ TakenAt(sheet, g, n)
    BY <1>15, <1>18, <1>20, <1>22
  <2>2. PICK x \in DOMAIN recs : recs[x].row = n
    BY <2>1, <1>4, <1>17 DEF UploadIs, N
  <2>3. PICK h \in 1..N, m \in 1..N : Under(sheet, h, m) /\ recs[x] = RecordOf(sheet, h, m)
    BY <1>17 DEF UploadIs, N
  <2>4. h = g /\ m = n
    BY <2>2, <2>3, <1>19, <1>20
  <2> QED BY <2>3, <2>4, <1>20, <1>21
<1>23. ASSUME NEW r \in ToSet(recs)
       PROVE  r.ip \in {"1", "2"} /\ \E k \in 1..K : r.ip = sheet[read[k]][c]
  <2>1. PICK x \in DOMAIN recs : r = recs[x]
    BY <1>21
  <2>2. PICK h \in 1..N, n \in 1..N :
           Under(sheet, h, n) /\ recs[x] = RecordOf(sheet, h, n) /\ TakenAt(sheet, h, n)
    BY <1>17 DEF UploadIs, N
  <2>3. h = g /\ n \in (g + 1)..N
    BY <2>2, <1>19
  <2>4. r.ip = sheet[n][c] /\ sheet[n][c] \in {"1", "2"}
    BY <2>1, <2>2, <2>3, <1>20
  <2> DEFINE S == {m \in (g + 1)..N : sheet[m][c] = sheet[n][c]}
  <2>5. S \subseteq Nat /\ S # {}
    BY <2>3, <1>4
  <2>6. PICK m \in S : \A l \in S : m <= l
    <3> HIDE DEF S
    <3> QED BY <2>5, LeastNatural
  <2>7. m \in (g + 1)..N /\ sheet[m][c] = sheet[n][c]
    BY <2>6
  <2>8. \A k \in (g + 1)..(m - 1) : sheet[k][c] # sheet[m][c]
    <3> TAKE k \in (g + 1)..(m - 1)
    <3>1. k \in (g + 1)..N /\ ~(m <= k)
      BY <2>7, <1>1, <1>4
    <3>2. k \notin S
      BY <3>1, <2>6
    <3> QED BY <3>1, <3>2, <2>7
  <2>9. m \in W
    <3>1. m \in DOMAIN sheet /\ IsAddress(sheet[m][c])
      BY <2>4, <2>7, <1>1, <1>4 DEF IsAddress
    <3> QED BY <3>1, <2>8 DEF W
  <2>10. m - g \in 1..M /\ rows[m - g] = m
    <3>1. m - g \in 1..M
      BY <2>7, <1>1, <1>4
    <3>2. rows[m - g] = g + (m - g)
      BY <3>1, <1>11
    <3> QED BY <3>1, <3>2, <2>7, <1>4
  <2>11. PICK i \in 1..K : sel[i] = m - g
    BY <2>9, <2>10, <1>14
  <2>12. read[i] = m
    BY <2>10, <2>11, <1>14
  <2> QED BY <2>4, <2>7, <2>12
<1>24. {sheet[read[k]][c] : k \in DOMAIN read} \cap {"1", "2"} = {r.ip : r \in ToSet(recs)}
  <2> DEFINE X == {sheet[read[k]][c] : k \in DOMAIN read}
             Y == {r.ip : r \in ToSet(recs)}
  <2>1. \A v \in X \cap {"1", "2"} : v \in Y
    BY <1>14, <1>22
  <2>4. \A r \in ToSet(recs) : r.ip \in X /\ r.ip \in {"1", "2"}
    <3> TAKE r \in ToSet(recs)
    <3>1. r.ip \in {"1", "2"} /\ \E k \in DOMAIN read : r.ip = sheet[read[k]][c]
      BY <1>14, <1>23
    <3>2. r.ip \in X
      BY <3>1
    <3> QED BY <3>1, <3>2
  <2>2. \A v \in Y : v \in X /\ v \in {"1", "2"}
    <3> HIDE DEF X
    <3> QED BY <2>4
  <2> HIDE DEF X, Y
  <2>3. X \cap {"1", "2"} = Y
    BY <2>1, <2>2
  <2> QED BY <2>3 DEF X, Y
<1> DEFINE Of(col) == {sheet[read[k]][col] : k \in DOMAIN read}
<1> HIDE DEF at
<1>25. \A i, j \in DOMAIN read : i < j => sheet[read[i]][at] # sheet[read[j]][at]
  BY <1>8, <1>14, <1>16
<1>26. Of(c) \cap {"1", "2"} = {r.ip : r \in ToSet(recs)}
  BY <1>24
<1>27. Of(at) \cap {"1", "2"} = {r.ip : r \in ToSet(recs)}
  <2> HIDE DEF Of
  <2> QED BY <1>8, <1>26
<1> QED BY <1>25, <1>27

\* The two readers agree on a plain sheet of any length.
LEMMA AgreeAnswer == AskSheet => ReadersAgree'
<1> SUFFICES ASSUME AskSheet PROVE ReadersAgree'
  OBVIOUS
<1>1. PICK sheet \in Seq(SheetRows) : question' = [of |-> "sheet", sheet |-> sheet]
  BY SheetOfRows
<1>2. AgreeOn(sheet)
  BY ReadersOnSheet
<1>3. AgreeOn(question'.sheet)
  BY <1>1, <1>2
<1> QED BY <1>3 DEF ReadersAgree

-----------------------------------------------------------------------------
(* The sheet of the racks.                                                 *)

\* The devices of a sheet.
SheetNames == {"d", "e", "f"}

\* A device of the room.
Racked3 == [name : SheetNames, rack : SheetRacks, unit : 0..3, height : 1..2]

\* What stands at a unit; racks of which every unit has one owner.
SlotCells == [names : SUBSET SheetNames, height : 1..2]

\* The units of a rack: one that is spanned belongs to the device below it.
RackOk(t) ==
    /\ t = [slot |-> t.slot, span |-> t.span]
    /\ \A v \in DOMAIN t.span :
         /\ t.span[v] \in DOMAIN t.slot /\ v \notin DOMAIN t.slot
         /\ t.span[v] < v /\ v < t.span[v] + t.slot[t.span[v]].height
    /\ \A u \in DOMAIN t.slot : \A v \in (u + 1)..(u + t.slot[u].height - 1) :
         v \in DOMAIN t.span /\ t.span[v] = u

\* The devices by their lowest units.
SlotMaps == UNION {[D -> SlotCells] : D \in SUBSET (1..3)}

\* The lowest unit of the device at each other unit.
SpanMaps == UNION {[D -> 1..3] : D \in SUBSET (1..4)}

\* The racks that the sheet can be asked to tell.
SheetRackSet == {t \in [slot : SlotMaps, span : SpanMaps] : RackOk(t)}

\* A rack before the first device.
LEMMA NoRackIsOk == NoRack \in SheetRackSet
<1>1. <<>> \in [{} -> SlotCells] /\ <<>> \in [{} -> 1..3] /\ DOMAIN <<>> = {}
  <2>1. <<>> \in Seq(SlotCells) /\ Len(<<>>) = 0 /\ <<>> \in Seq(1..3)
    OBVIOUS
  <2>2. 1..0 = {}
    OBVIOUS
  <2> QED BY <2>1, <2>2
<1>2. NoRack \in [slot : SlotMaps, span : SpanMaps]
  <2>1. <<>> \in SlotMaps
    <3>1. {} \in SUBSET (1..3)
      OBVIOUS
    <3> QED BY <1>1, <3>1 DEF SlotMaps
  <2>2. <<>> \in SpanMaps
    <3>1. {} \in SUBSET (1..4)
      OBVIOUS
    <3> QED BY <1>1, <3>1 DEF SpanMaps
  <2> QED BY <2>1, <2>2 DEF NoRack
<1>3. RackOk(NoRack)
  BY <1>1 DEF NoRack, RackOk
<1> QED BY <1>2, <1>3 DEF SheetRackSet

\* What a rack is made of.
LEMMA RackParts ==
    ASSUME NEW t \in SheetRackSet
    PROVE  /\ DOMAIN t.slot \subseteq 1..3 /\ t.slot \in [DOMAIN t.slot -> SlotCells]
           /\ DOMAIN t.span \subseteq 1..4 /\ t.span \in [DOMAIN t.span -> 1..3]
           /\ RackOk(t)
<1>1. t.slot \in SlotMaps /\ t.span \in SpanMaps /\ RackOk(t)
  BY DEF SheetRackSet
<1>2. PICK D \in SUBSET (1..3) : t.slot \in [D -> SlotCells]
  BY <1>1 DEF SlotMaps
<1>3. PICK S \in SUBSET (1..4) : t.span \in [S -> 1..3]
  BY <1>1 DEF SpanMaps
<1>4. D = DOMAIN t.slot /\ S = DOMAIN t.span
  BY <1>2, <1>3
<1> QED BY <1>1, <1>2, <1>3, <1>4

\* What is made of such parts is a rack.
LEMMA RackOfParts ==
    ASSUME NEW D \in SUBSET (1..3), NEW slot \in [D -> SlotCells],
           NEW S \in SUBSET (1..4), NEW span \in [S -> 1..3],
           NEW t, t = [slot |-> slot, span |-> span], RackOk(t)
    PROVE  t \in SheetRackSet
<1>1. slot \in SlotMaps
  BY DEF SlotMaps
<1>2. span \in SpanMaps
  BY DEF SpanMaps
<1>3. t \in [slot : SlotMaps, span : SpanMaps]
  BY <1>1, <1>2
<1> QED BY <1>3 DEF SheetRackSet

\* The names at a unit; rack new has those of t, and one name more at one unit.
NamesAt(t, u) == IF u \in DOMAIN t.slot THEN t.slot[u].names ELSE {}

\* One name is added, at one unit.
OneNameMore(new, t, name) ==
    /\ DOMAIN t.slot \subseteq DOMAIN new.slot
    /\ \E u \in DOMAIN new.slot :
         \A w \in DOMAIN new.slot : NamesAt(new, w) = IF w = u THEN NamesAt(t, w) \cup {name}
                                                      ELSE NamesAt(t, w)

\* A device that meets another one is named with it.
LEMMA PlacedOnTop ==
    ASSUME NEW t \in SheetRackSet, NEW d \in Racked3, d.unit # 0,
           Covered(t, d.unit..(d.unit + d.height - 1)) # {}
    PROVE  Placed(t, d) \in SheetRackSet /\ OneNameMore(Placed(t, d), t, d.name)
<1> DEFINE units == d.unit..(d.unit + d.height - 1)
           taken == Covered(t, units)
           first == FirstUnit(taken)
           new == Placed(t, d)
<1>1. /\ DOMAIN t.slot \subseteq 1..3 /\ t.slot \in [DOMAIN t.slot -> SlotCells]
      /\ DOMAIN t.span \subseteq 1..4 /\ t.span \in [DOMAIN t.span -> 1..3]
      /\ RackOk(t)
  BY RackParts
<1>2. d.name \in SheetNames /\ d.unit \in 0..3 /\ d.height \in 1..2
  BY DEF Racked3
<1>3. first \in taken
  <2>1. taken \subseteq Nat
    BY <1>1 DEF Covered
  <2>2. taken # {}
    OBVIOUS
  <2> HIDE DEF taken
  <2> QED BY <2>1, <2>2, MinOfBounded DEF FirstUnit
<1>4. first \in DOMAIN t.slot \/ first \in DOMAIN t.span
  BY <1>3 DEF Covered
<1> HIDE DEF first
<1>5. PICK u \in DOMAIN t.slot : Owner(t, first) = {u}
  <2>1. CASE first \in DOMAIN t.slot
    BY <2>1 DEF Owner
  <2>2. CASE first \notin DOMAIN t.slot
    BY <2>2, <1>4, <1>1 DEF Owner, RackOk
  <2> QED BY <2>1, <2>2
<1> DEFINE slot == [w \in DOMAIN t.slot |->
                      IF w = u THEN [t.slot[w] EXCEPT !.names = @ \cup {d.name}] ELSE t.slot[w]]
<1>6. new = [t EXCEPT !.slot = slot]
  <2> DEFINE told == [w \in DOMAIN t.slot |->
                        IF w \in Owner(t, first) THEN [t.slot[w] EXCEPT !.names = @ \cup {d.name}]
                        ELSE t.slot[w]]
  <2>1. new = [t EXCEPT !.slot = told]
    BY DEF Placed, first
  <2>2. told = slot
    BY <1>5
  <2> HIDE DEF told, slot, new
  <2> QED BY <2>1, <2>2
<1>7. new = [slot |-> slot, span |-> t.span]
  <2>1. t = [slot |-> t.slot, span |-> t.span]
    BY <1>1 DEF RackOk
  <2> HIDE DEF slot, new
  <2> QED BY <2>1, <1>6
<1>8. slot \in [DOMAIN t.slot -> SlotCells]
  <2>1. \A w \in DOMAIN t.slot : t.slot[w] \in SlotCells
    BY <1>1
  <2>2. \A c \in SlotCells : [c EXCEPT !.names = @ \cup {d.name}] \in SlotCells
    BY <1>2 DEF SlotCells
  <2> QED BY <2>1, <2>2
<1>9. DOMAIN slot = DOMAIN t.slot /\ \A w \in DOMAIN slot :
         /\ slot[w].height = t.slot[w].height
         /\ slot[w].names = IF w = u THEN t.slot[w].names \cup {d.name} ELSE t.slot[w].names
  <2>1. \A w \in DOMAIN t.slot : t.slot[w] \in SlotCells
    BY <1>1
  <2>2. \A c \in SlotCells : /\ [c EXCEPT !.names = @ \cup {d.name}].height = c.height
                             /\ [c EXCEPT !.names = @ \cup {d.name}].names = c.names \cup {d.name}
    BY DEF SlotCells
  <2> QED BY <2>1, <2>2
<1> HIDE DEF new, slot
<1>10. new.slot = slot /\ new.span = t.span
  BY <1>7
<1>11. RackOk(new)
  <2>1. new = [slot |-> new.slot, span |-> new.span]
    BY <1>7, <1>10
  <2>2. ASSUME NEW v \in DOMAIN t.span
        PROVE  /\ t.span[v] \in DOMAIN slot /\ v \notin DOMAIN slot
               /\ t.span[v] < v /\ v < t.span[v] + slot[t.span[v]].height
    <3>1. /\ t.span[v] \in DOMAIN t.slot /\ v \notin DOMAIN t.slot
          /\ t.span[v] < v /\ v < t.span[v] + t.slot[t.span[v]].height
      BY <1>1 DEF RackOk
    <3>2. slot[t.span[v]].height = t.slot[t.span[v]].height
      BY <3>1, <1>9
    <3> QED BY <3>1, <3>2, <1>9
  <2>3. ASSUME NEW w \in DOMAIN slot, NEW v \in (w + 1)..(w + slot[w].height - 1)
        PROVE  v \in DOMAIN t.span /\ t.span[v] = w
    <3>1. slot[w].height = t.slot[w].height /\ w \in DOMAIN t.slot
      BY <1>9
    <3>2. v \in (w + 1)..(w + t.slot[w].height - 1)
      BY <3>1
    <3> QED BY <3>1, <3>2, <1>1 DEF RackOk
  <2>4. /\ \A v \in DOMAIN new.span :
             /\ new.span[v] \in DOMAIN new.slot /\ v \notin DOMAIN new.slot
             /\ new.span[v] < v /\ v < new.span[v] + new.slot[new.span[v]].height
        /\ \A w \in DOMAIN new.slot : \A v \in (w + 1)..(w + new.slot[w].height - 1) :
             v \in DOMAIN new.span /\ new.span[v] = w
    BY <2>2, <2>3, <1>10
  <2> QED BY <2>1, <2>4 DEF RackOk
<1>12. new \in SheetRackSet
  BY <1>1, <1>7, <1>8, <1>11, RackOfParts
<1>13. OneNameMore(new, t, d.name)
  BY <1>9, <1>10, <1>5 DEF OneNameMore, NamesAt
<1> QED BY <1>12, <1>13 DEF new

\* A device that meets none gets units of its own.
LEMMA PlacedAlone ==
    ASSUME NEW t \in SheetRackSet, NEW d \in Racked3, d.unit # 0,
           Covered(t, d.unit..(d.unit + d.height - 1)) = {}
    PROVE  Placed(t, d) \in SheetRackSet /\ OneNameMore(Placed(t, d), t, d.name)
<1> DEFINE a == d.unit
           units == a..(a + d.height - 1)
           new == Placed(t, d)
           D == DOMAIN t.slot \cup {a}
           S == DOMAIN t.span \cup (units \ {a})
           slot == [u \in D |-> IF u = a THEN [names |-> {d.name}, height |-> d.height]
                                ELSE t.slot[u]]
           span == [u \in S |-> IF u \in units THEN a ELSE t.span[u]]
<1>1. /\ DOMAIN t.slot \subseteq 1..3 /\ t.slot \in [DOMAIN t.slot -> SlotCells]
      /\ DOMAIN t.span \subseteq 1..4 /\ t.span \in [DOMAIN t.span -> 1..3]
      /\ RackOk(t)
  BY RackParts
<1>2. d.name \in SheetNames /\ a \in 1..3 /\ d.height \in 1..2
  BY DEF Racked3
<1>3. new = [slot |-> slot, span |-> span]
  BY DEF Placed
<1>4. /\ \A v \in units : v \in 1..4 /\ v \notin DOMAIN t.slot /\ v \notin DOMAIN t.span
      /\ a \in units
  <2>1. \A v \in units : v \in 1..4
    BY <1>2
  <2>2. \A v \in units : v \notin DOMAIN t.slot /\ v \notin DOMAIN t.span
    BY DEF Covered
  <2> QED BY <2>1, <2>2, <1>2
<1>5. D \in SUBSET (1..3) /\ S \in SUBSET (1..4)
  <2> HIDE DEF a, units
  <2> QED BY <1>1, <1>2, <1>4
<1>6. slot \in [D -> SlotCells]
  <2>1. [names |-> {d.name}, height |-> d.height] \in SlotCells
    BY <1>2 DEF SlotCells
  <2> HIDE DEF a
  <2> QED BY <2>1, <1>1
<1>7. span \in [S -> 1..3]
  <2> HIDE DEF a, units
  <2> QED BY <1>1, <1>2
<1>8. /\ DOMAIN slot = D /\ slot[a].names = {d.name} /\ slot[a].height = d.height
      /\ \A u \in DOMAIN t.slot : u # a /\ slot[u] = t.slot[u] /\ u \notin units
  <2> HIDE DEF a, units
  <2>1. \A u \in DOMAIN t.slot : u \notin units
    BY <1>4
  <2>2. \A u \in DOMAIN t.slot : u # a
    BY <1>4
  <2> QED BY <2>1, <2>2
<1>9. /\ DOMAIN span = S /\ \A v \in units \ {a} : span[v] = a
      /\ \A v \in DOMAIN t.span : span[v] = t.span[v] /\ v \notin units
  <2> HIDE DEF a, units
  <2> QED BY <1>4
<1>10. \A v \in units \ {a} : a < v /\ v < a + d.height
  BY <1>2
<1>11. \A v \in (a + 1)..(a + d.height - 1) : v \in units \ {a}
  BY <1>2
<1> HIDE DEF a, units, new, slot, span
<1>12. new.slot = slot /\ new.span = span
  BY <1>3
<1>13. RackOk(new)
  <2>1. new = [slot |-> new.slot, span |-> new.span]
    BY <1>3, <1>12
  <2>2. ASSUME NEW v \in S
        PROVE  /\ span[v] \in D /\ v \notin D
               /\ span[v] < v /\ v < span[v] + slot[span[v]].height
    <3>1. CASE v \in units \ {a}
      BY <3>1, <1>4, <1>8, <1>9, <1>10
    <3>2. CASE v \in DOMAIN t.span
      <4>1. span[v] = t.span[v] /\ v \notin units /\ t.span[v] \in DOMAIN t.slot
            /\ v \notin DOMAIN t.slot
            /\ t.span[v] < v /\ v < t.span[v] + t.slot[t.span[v]].height
        BY <3>2, <1>1, <1>9 DEF RackOk
      <4>2. slot[t.span[v]] = t.slot[t.span[v]]
        BY <4>1, <1>8
      <4> QED BY <4>1, <4>2, <1>4
    <3> QED BY <3>1, <3>2
  <2>3. ASSUME NEW u \in D, NEW v \in (u + 1)..(u + slot[u].height - 1)
        PROVE  v \in S /\ span[v] = u
    <3>1. CASE u = a
      BY <3>1, <1>8, <1>9, <1>11
    <3>2. CASE u \in DOMAIN t.slot
      <4>1. slot[u] = t.slot[u]
        BY <3>2, <1>8
      <4>2. v \in DOMAIN t.span /\ t.span[v] = u
        BY <3>2, <4>1, <1>1 DEF RackOk
      <4> QED BY <4>2, <1>9
    <3> QED BY <3>1, <3>2
  <2> QED BY <2>1, <2>2, <2>3, <1>12, <1>8, <1>9 DEF RackOk
<1>14. new \in SheetRackSet
  BY <1>3, <1>5, <1>6, <1>7, <1>13, RackOfParts
<1>15. OneNameMore(new, t, d.name)
  <2>1. \A w \in D : NamesAt(new, w) = IF w = a THEN NamesAt(t, w) \cup {d.name} ELSE NamesAt(t, w)
    <3> TAKE w \in D
    <3>1. CASE w = a
      <4>1. a \notin DOMAIN t.slot
        BY <1>8
      <4> QED BY <3>1, <4>1, <1>8, <1>12 DEF NamesAt
    <3>2. CASE w # a
      <4>1. w \in DOMAIN t.slot
        BY <3>2
      <4> QED BY <3>2, <4>1, <1>8, <1>12 DEF NamesAt
    <3> QED BY <3>1, <3>2
  <2>2. a \in D /\ DOMAIN t.slot \subseteq D
    OBVIOUS
  <2> QED BY <2>1, <2>2, <1>8, <1>12 DEF OneNameMore
<1> QED BY <1>14, <1>15 DEF new

\* The device counts for the rack.
LiesIn(d, rack) == d.rack = rack /\ d.unit # 0

\* r gives the rack after the first k devices.
RackRun(r, devices, rack) ==
    /\ r \in [0..Len(devices) -> SheetRackSet]
    /\ r[0] = NoRack /\ r[Len(devices)] = RackOf(devices, rack)
    /\ \A k \in 1..Len(devices) :
           r[k] = IF devices[k].rack = rack /\ devices[k].unit # 0 THEN Placed(r[k - 1], devices[k]) ELSE r[k - 1]

\* The devices are put into a rack one after another.
LEMMA RackSteps ==
    ASSUME NEW devices \in Seq(Racked3), NEW rack
    PROVE  \E r : RackRun(r, devices, rack)
<1> DEFINE n == Len(devices)
           T == SheetRackSet
           E == Racked3
           op(t, e) == IF e.rack = rack /\ e.unit # 0 THEN Placed(t, e) ELSE t
           F == [p \in T \X E |-> op(p[1], p[2])]
           Fix(i) == i = [s \in SUBSET (DOMAIN devices) |->
                            IF s = {} THEN NoRack ELSE op(i[s \ {Max(s)}], devices[Max(s)])]
           it == CHOOSE i : Fix(i)
<1>1. n \in Nat /\ devices \in [1..n -> E] /\ DOMAIN devices = 1..n /\ NoRack \in T
  <2>1. devices \in Seq(E)
    OBVIOUS
  <2>2. NoRack \in T
    BY NoRackIsOk
  <2> HIDE DEF E, T
  <2> QED BY <2>1, <2>2
<1>2. \A t \in T, e \in E : op(t, e) \in T /\ F[<<t, e>>] = op(t, e)

  <2> TAKE t \in T, e \in E
  <2>1. <<t, e>> \in T \X E
    OBVIOUS
  <2>2. F[<<t, e>>] = op(t, e)
    <3> HIDE DEF T, E, op
    <3> QED BY <2>1
  <2>3. e.unit # 0 => Placed(t, e) \in T
    <3>1. CASE Covered(t, e.unit..(e.unit + e.height - 1)) = {}
      BY <3>1, PlacedAlone
    <3>2. CASE Covered(t, e.unit..(e.unit + e.height - 1)) # {}
      BY <3>2, PlacedOnTop
    <3> QED BY <3>1, <3>2
  <2> HIDE DEF T, F
  <2> QED BY <2>2, <2>3
<1>3. F \in [T \X E -> T]
  <2> HIDE DEF op, T, E
  <2> QED BY <1>2
<1>4. RackOf(devices, rack) = it[1..n]
  BY <1>1 DEF RackOf, FoldLeft, MapThenFoldSet
<1> HIDE DEF n, T, E, F, op
<1>5. PICK g : FoldSolution(g, T, F, NoRack, n, devices)
  BY <1>1, <1>3, FoldHasSolution
<1>6. FoldStays(g, T, E, F, NoRack, n, devices) /\ g \in [SUBSET (1..n) -> T]
  BY <1>1, <1>5, SolutionStays
<1>7. Fix(g)
  BY <1>1, <1>2, <1>6 DEF FoldStays
<1> HIDE DEF Fix
<1>8. Fix(it)
  BY <1>7
<1> HIDE DEF it
<1>9. FoldLike(it, T, F, NoRack, n, devices)
  <2>1. \A s \in SUBSET (1..n) :
            it[s] = IF s = {} THEN NoRack ELSE op(it[s \ {Max(s)}], devices[Max(s)])
    BY <1>1, <1>8 DEF Fix
  <2>2. 1..0 = {} /\ {} \in SUBSET (1..n)
    OBVIOUS
  <2>3. it[1..0] = NoRack
    BY <2>1, <2>2
  <2>4. \A s \in SUBSET (1..n) : s # {} => devices[Max(s)] \in E
    BY <1>6 DEF FoldStays
  <2> QED BY <1>2, <2>1, <2>3, <2>4 DEF FoldLike
<1>10. FoldGives(it[1..n], T, F, NoRack, n, devices)
  BY <1>1, <1>3, <1>9, FoldHasSteps
<1>11. PICK r : FoldSteps(r, T, F, NoRack, n, devices) /\ r[n] = RackOf(devices, rack)
  BY <1>10, <1>4 DEF FoldGives
<1>12. r \in [0..n -> T] /\ r[0] = NoRack /\ \A k \in 1..n : r[k] = F[<<r[k - 1], devices[k]>>]
  BY <1>11 DEF FoldSteps
<1>13. \A k \in 1..n : r[k] = op(r[k - 1], devices[k])
  <2> TAKE k \in 1..n
  <2>1. r[k - 1] \in T /\ devices[k] \in E
    BY <1>1, <1>12
  <2> QED BY <2>1, <1>12, <1>2
<1> QED BY <1>11, <1>12, <1>13 DEF RackRun, n, T, op

\* No two devices have one name.
NamesDiffer(devices) == \A i, j \in DOMAIN devices : devices[i].name = devices[j].name => i = j

\* Of the first k devices those of the rack are named at one unit each, no others are.
Named(t, devices, k, rack) ==
    /\ \A j \in 1..k : LiesIn(devices[j], rack) =>
          \E u \in DOMAIN t.slot :
             /\ devices[j].name \in NamesAt(t, u)
             /\ \A w \in DOMAIN t.slot : devices[j].name \in NamesAt(t, w) => w = u
    /\ \A u \in DOMAIN t.slot : \A x \in NamesAt(t, u) :
          \E j \in 1..k : LiesIn(devices[j], rack) /\ x = devices[j].name

\* A rack names its devices.
LEMMA RackNames ==
    ASSUME NEW devices \in Seq(Racked3), NamesDiffer(devices), NEW rack
    PROVE  /\ RackOf(devices, rack) \in SheetRackSet
           /\ Named(RackOf(devices, rack), devices, Len(devices), rack)
<1>1. PICK r : RackRun(r, devices, rack)
  BY RackSteps
<1> DEFINE n == Len(devices)
<1>2. /\ r \in [0..n -> SheetRackSet] /\ r[0] = NoRack /\ r[n] = RackOf(devices, rack)
      /\ \A k \in 1..n : r[k] = IF LiesIn(devices[k], rack) THEN Placed(r[k - 1], devices[k])
                                ELSE r[k - 1]
  BY <1>1 DEF RackRun, LiesIn
<1>3. n \in Nat /\ DOMAIN devices = 1..n
  OBVIOUS
<1> HIDE DEF n
<1> DEFINE Good == {k \in 0..n : Named(r[k], devices, k, rack)}
<1>4. 0 \in Good
  <2>1. DOMAIN NoRack.slot = {} /\ 1..0 = {}
    <3>1. DOMAIN <<>> = {}
      OBVIOUS
    <3> QED BY <3>1 DEF NoRack
  <2>2. Named(NoRack, devices, 0, rack)
    BY <2>1 DEF Named
  <2> QED BY <2>2, <1>2, <1>3
<1>5. ASSUME NEW k \in 0..(n - 1), k \in Good PROVE k + 1 \in Good
  <2> DEFINE d == devices[k + 1]
             t == r[k]
             m == k + 1
  <2>1. m \in 1..n /\ m - 1 = k /\ k \in 0..n /\ m \in 0..n /\ k \in Nat
        /\ 1..m = 1..k \cup {m} /\ devices[m] = d
    BY <1>3
  <2>2. t \in SheetRackSet /\ Named(t, devices, k, rack) /\ d \in Racked3
    BY <2>1, <1>2, <1>3, <1>5
  <2>3. r[m] = IF LiesIn(d, rack) THEN Placed(t, d) ELSE t
    BY <2>1, <1>2
  <2> HIDE DEF d, t, m
  <2>4. CASE ~LiesIn(d, rack)
    <3>1. Named(t, devices, m, rack)
      BY <2>1, <2>2, <2>4 DEF Named
    <3>2. Named(r[m], devices, m, rack)
      BY <3>1, <2>3, <2>4
    <3> QED BY <3>2, <2>1 DEF m
  <2>5. CASE LiesIn(d, rack)
    <3> DEFINE new == r[m]
    <3>1. new = Placed(t, d) /\ d.unit # 0
      BY <2>3, <2>5 DEF LiesIn
    <3>2. OneNameMore(new, t, d.name)
      <4>1. CASE Covered(t, d.unit..(d.unit + d.height - 1)) = {}
        BY <4>1, <3>1, <2>2, PlacedAlone
      <4>2. CASE Covered(t, d.unit..(d.unit + d.height - 1)) # {}
        BY <4>2, <3>1, <2>2, PlacedOnTop
      <4> QED BY <4>1, <4>2
    <3> HIDE DEF new
    <3>3. PICK u \in DOMAIN new.slot :
             \A w \in DOMAIN new.slot : NamesAt(new, w) = IF w = u THEN NamesAt(t, w) \cup {d.name}
                                                          ELSE NamesAt(t, w)
      BY <3>2 DEF OneNameMore
    <3>4. DOMAIN t.slot \subseteq DOMAIN new.slot
      BY <3>2 DEF OneNameMore
    <3>5. \A w : \A x \in NamesAt(t, w) : w \in DOMAIN t.slot
      BY DEF NamesAt
    <3>6. \A j \in 1..k : devices[j].name # d.name
      <4>1. \A j \in 1..k : j \in DOMAIN devices /\ m \in DOMAIN devices /\ j # m
        BY <2>1, <1>3
      <4> QED BY <4>1, <2>1 DEF NamesDiffer
    <3>7. \A w : d.name \notin NamesAt(t, w)
      BY <3>5, <3>6, <2>2 DEF Named
    <3>8. ASSUME NEW j \in 1..m, LiesIn(devices[j], rack)
          PROVE  \E v \in DOMAIN new.slot :
                    /\ devices[j].name \in NamesAt(new, v)
                    /\ \A w \in DOMAIN new.slot : devices[j].name \in NamesAt(new, w) => w = v
      <4>1. CASE j = m
        <5>1. d.name \in NamesAt(new, u)
          BY <3>3
        <5>2. \A w \in DOMAIN new.slot : d.name \in NamesAt(new, w) => w = u
          BY <3>3, <3>7
        <5> QED BY <4>1, <5>1, <5>2, <2>1
      <4>2. CASE j \in 1..k
        <5>1. PICK v \in DOMAIN t.slot :
                 /\ devices[j].name \in NamesAt(t, v)
                 /\ \A w \in DOMAIN t.slot : devices[j].name \in NamesAt(t, w) => w = v
          BY <4>2, <3>8, <2>2 DEF Named
        <5>2. devices[j].name # d.name
          BY <4>2, <3>6
        <5>3. \A w \in DOMAIN new.slot :
                 devices[j].name \in NamesAt(new, w) <=> devices[j].name \in NamesAt(t, w)
          BY <5>2, <3>3
        <5> QED BY <5>1, <5>3, <3>4, <3>5
      <4> QED BY <4>1, <4>2, <2>1
    <3>9. ASSUME NEW w \in DOMAIN new.slot, NEW x \in NamesAt(new, w)
          PROVE  \E j \in 1..m : LiesIn(devices[j], rack) /\ x = devices[j].name
      <4>1. CASE x = d.name
        BY <4>1, <2>1, <2>5
      <4>2. CASE x # d.name
        <5>1. x \in NamesAt(t, w)
          BY <4>2, <3>3
        <5> QED BY <5>1, <3>5, <2>1, <2>2 DEF Named
      <4> QED BY <4>1, <4>2
    <3>10. Named(new, devices, m, rack)
      BY <3>8, <3>9 DEF Named
    <3> QED BY <3>10, <2>1 DEF m, new
  <2> QED BY <2>4, <2>5
<1> HIDE DEF Good
<1>6. n \in Good
  <2>1. 0..n \subseteq Good
    BY <1>3, <1>4, <1>5, UpToInSet
  <2> QED BY <2>1, <1>3
<1> QED BY <1>6, <1>2, <1>3 DEF Good, n

\* What stands on the sheet of a list of devices: the units of a rack, their tops,
\* the cell of a unit.
UnitsOf(devices, r) == DOMAIN RackOf(devices, r).slot

\* The highest unit of the device that starts at u.
TopOf(devices, r, u) == u + RackOf(devices, r).slot[u].height - 1

\* The cell of the device that starts at u.
CellOf(devices, r, u) ==
    [rows |-> (FirstRow(devices, RowLetter(r)) + 1 + (MaxUnit(devices, RowLetter(r)) - TopOf(devices, r, u)))
              ..(FirstRow(devices, RowLetter(r)) + 1 + (MaxUnit(devices, RowLetter(r)) - u)),
     column |-> ColumnsOf(devices, r), names |-> RackOf(devices, r).slot[u].names, label |-> <<r, u>>]

\* No two units of a rack meet.
LEMMA UnitsAreApart ==
    ASSUME NEW devices \in Seq(Racked3), NamesDiffer(devices), NEW r
    PROVE  /\ UnitsOf(devices, r) \subseteq 1..3
           /\ \A u \in UnitsOf(devices, r) : TopOf(devices, r, u) \in 1..4 /\ u <= TopOf(devices, r, u)
           /\ \A u, w \in UnitsOf(devices, r) : u < w => TopOf(devices, r, u) < w
<1> DEFINE t == RackOf(devices, r)
<1>1. t \in SheetRackSet
  BY RackNames
<1> HIDE DEF t
<1>2. /\ DOMAIN t.slot \subseteq 1..3 /\ t.slot \in [DOMAIN t.slot -> SlotCells] /\ RackOk(t)
  BY <1>1, RackParts
<1>3. \A u \in DOMAIN t.slot : u \in 1..3 /\ t.slot[u].height \in 1..2
  BY <1>2 DEF SlotCells
<1>4. \A u, w \in DOMAIN t.slot : u < w => u + t.slot[u].height - 1 < w
  <2> SUFFICES ASSUME NEW u \in DOMAIN t.slot, NEW w \in DOMAIN t.slot, u < w,
                      ~(u + t.slot[u].height - 1 < w)
               PROVE  FALSE
    OBVIOUS
  <2>1. w \in (u + 1)..(u + t.slot[u].height - 1)
    BY <1>3
  <2>2. w \in DOMAIN t.span
    BY <2>1, <1>2 DEF RackOk
  <2> QED BY <2>2, <1>2 DEF RackOk
<1> QED BY <1>2, <1>3, <1>4 DEF t, UnitsOf, TopOf

\* The height of a row of racks.
LEMMA HighestUnit ==
    ASSUME NEW devices \in Seq(Racked3), NamesDiffer(devices), NEW letter
    PROVE  /\ MaxUnit(devices, letter) \in 2..4
           /\ \A r \in OnSheet(devices) : RowLetter(r) = letter =>
                 \A u \in UnitsOf(devices, r) : TopOf(devices, r, u) <= MaxUnit(devices, letter)
<1> DEFINE R == {x \in OnSheet(devices) : RowLetter(x) = letter}
           tops(r) == {u + RackOf(devices, r).slot[u].height - 1 : u \in DOMAIN RackOf(devices, r).slot}
           Values == {SheetHeight} \cup UNION {tops(r) : r \in R}
<1>1. MaxUnit(devices, letter) = Max(Values)
  BY DEF MaxUnit
<1>2. \A r : \A x \in tops(r) : x \in 1..4
  <2> TAKE r
  <2>1. \A u \in UnitsOf(devices, r) : TopOf(devices, r, u) \in 1..4
    BY UnitsAreApart
  <2> QED BY <2>1 DEF UnitsOf, TopOf
<1>3. \A r : \A u \in UnitsOf(devices, r) : TopOf(devices, r, u) \in tops(r)
  BY DEF UnitsOf, TopOf
<1> HIDE DEF tops, R
<1>4. Values \subseteq 1..4 /\ Values # {} /\ 2 \in Values
  BY <1>2 DEF SheetHeight
<1>5. \A r \in R : \A x \in tops(r) : x \in Values
  OBVIOUS
<1> HIDE DEF Values
<1>6. Max(Values) \in Values /\ \A m \in Values : m <= Max(Values)
  BY <1>4, MaxOfBounded
<1>7. MaxUnit(devices, letter) \in 2..4
  <2>1. Max(Values) \in 1..4
    BY <1>4, <1>6
  <2>2. 2 <= Max(Values)
    BY <1>4, <1>6
  <2> QED BY <1>1, <2>1, <2>2
<1>8. \A r \in R : \A u \in UnitsOf(devices, r) : TopOf(devices, r, u) <= MaxUnit(devices, letter)
  BY <1>1, <1>3, <1>5, <1>6
<1> QED BY <1>7, <1>8 DEF R

\* The cells of the sheet are those of the units.
LEMMA CellsAre ==
    ASSUME NEW devices \in Seq(Racked3), NamesDiffer(devices)
    PROVE  /\ \A c \in NamedCells(devices) :
                \E r \in OnSheet(devices) : \E u \in UnitsOf(devices, r) : c = CellOf(devices, r, u)
           /\ \A r \in SheetRacks : \A u \in UnitsOf(devices, r) :
                r \in OnSheet(devices) /\ CellOf(devices, r, u) \in NamedCells(devices)
<1> DEFINE cells(r) == {CellOf(devices, r, u) :
                          u \in {x \in UnitsOf(devices, r) : x <= MaxUnit(devices, RowLetter(r))}}
<1>1. NamedCells(devices) = UNION {cells(r) : r \in OnSheet(devices)}
  BY DEF NamedCells, CellOf, TopOf, UnitsOf
<1>2. \A r \in SheetRacks : \A u \in UnitsOf(devices, r) : r \in OnSheet(devices)
  BY DEF OnSheet, UnitsOf
<1>3. \A r \in OnSheet(devices) : \A u \in UnitsOf(devices, r) : u <= MaxUnit(devices, RowLetter(r))
  <2> TAKE r \in OnSheet(devices)
  <2> TAKE u \in UnitsOf(devices, r)
  <2>1. TopOf(devices, r, u) <= MaxUnit(devices, RowLetter(r)) /\ MaxUnit(devices, RowLetter(r)) \in 2..4
    BY HighestUnit
  <2>2. u \in 1..3 /\ TopOf(devices, r, u) \in 1..4 /\ u <= TopOf(devices, r, u)
    BY UnitsAreApart
  <2> QED BY <2>1, <2>2
<1>4. \A r \in OnSheet(devices) : \A u \in UnitsOf(devices, r) : CellOf(devices, r, u) \in cells(r)
  BY <1>3
<1>5. \A r : \A c \in cells(r) : \E u \in UnitsOf(devices, r) : c = CellOf(devices, r, u)
  OBVIOUS
<1> HIDE DEF cells
<1> QED BY <1>1, <1>2, <1>4, <1>5

\* The rows of a cell: within the rows of its row of racks, and of two cells of a
\* rack the lower one below the other.
LEMMA RowsOfCells ==
    ASSUME NEW devices \in Seq(Racked3), NamesDiffer(devices),
           NEW r \in OnSheet(devices), NEW u \in UnitsOf(devices, r)
    PROVE  /\ FirstRow(devices, RowLetter(r)) \in 1..8
           /\ CellOf(devices, r, u).rows \subseteq
                 (FirstRow(devices, RowLetter(r)) + 1)
                 ..(FirstRow(devices, RowLetter(r)) + MaxUnit(devices, RowLetter(r)))
           /\ \A w \in UnitsOf(devices, r) : w # u =>
                 CellOf(devices, r, u).rows \cap CellOf(devices, r, w).rows = {}
<1> DEFINE first == FirstRow(devices, RowLetter(r))
           max == MaxUnit(devices, RowLetter(r))
<1>1. max \in 2..4
  BY HighestUnit
<1>2. \A w \in UnitsOf(devices, r) : TopOf(devices, r, w) <= max
  BY HighestUnit
<1>3. first \in 1..8
  <2>1. MaxUnit(devices, "A") \in 2..4
    BY HighestUnit
  <2> QED BY <2>1 DEF FirstRow
<1>4. \A w \in UnitsOf(devices, r) : /\ w \in 1..3 /\ TopOf(devices, r, w) \in 1..4
                                     /\ w <= TopOf(devices, r, w)
  BY UnitsAreApart
<1>5. \A v, w \in UnitsOf(devices, r) : v < w => TopOf(devices, r, v) < w
  BY UnitsAreApart
<1>6. \A w \in UnitsOf(devices, r) :
         CellOf(devices, r, w).rows = (first + 1 + (max - TopOf(devices, r, w)))..(first + 1 + (max - w))
  BY DEF CellOf
<1> HIDE DEF first, max
<1>7. CellOf(devices, r, u).rows \subseteq (first + 1)..(first + max)
  <2> DEFINE top == TopOf(devices, r, u)
  <2>1. top \in 1..4 /\ u \in 1..3 /\ top <= max
    BY <1>2, <1>4
  <2>2. CellOf(devices, r, u).rows = (first + 1 + (max - top))..(first + 1 + (max - u))
    BY <1>6
  <2> HIDE DEF top
  <2>3. \A x \in (first + 1 + (max - top))..(first + 1 + (max - u)) : x \in (first + 1)..(first + max)
    BY <2>1, <1>1, <1>3
  <2> QED BY <2>2, <2>3
<1>8. \A w \in UnitsOf(devices, r) : w # u =>
         CellOf(devices, r, u).rows \cap CellOf(devices, r, w).rows = {}
  <2> SUFFICES ASSUME NEW w \in UnitsOf(devices, r), w # u
               PROVE  CellOf(devices, r, u).rows \cap CellOf(devices, r, w).rows = {}
    OBVIOUS
  <2>1. w < u \/ u < w
    BY <1>4
  <2>2. TopOf(devices, r, w) < u \/ TopOf(devices, r, u) < w
    BY <2>1, <1>5
  <2> DEFINE top == TopOf(devices, r, u)
             other == TopOf(devices, r, w)
  <2>3. u \in 1..3 /\ w \in 1..3 /\ top \in 1..4 /\ other \in 1..4
    BY <1>4
  <2>4. /\ CellOf(devices, r, u).rows = (first + 1 + (max - top))..(first + 1 + (max - u))
        /\ CellOf(devices, r, w).rows = (first + 1 + (max - other))..(first + 1 + (max - w))
    BY <1>6
  <2> HIDE DEF top, other
  <2>5. \A x \in (first + 1 + (max - top))..(first + 1 + (max - u)) :
           x \notin (first + 1 + (max - other))..(first + 1 + (max - w))
    <3>1. CASE other < u
      BY <3>1, <2>3, <1>1, <1>3
    <3>2. CASE top < w
      BY <3>2, <2>3, <1>1, <1>3
    <3> QED BY <3>1, <3>2, <2>2 DEF top, other
  <2> QED BY <2>4, <2>5
<1> QED BY <1>3, <1>7, <1>8 DEF first, max

\* The racks at one column.
LEMMA ColumnsOfRacks ==
    ASSUME NEW devices, NEW r \in OnSheet(devices), NEW s \in OnSheet(devices), r # s,
           ColumnsOf(devices, r) = ColumnsOf(devices, s)
    PROVE  RowLetter(r) # RowLetter(s)
<1> SUFFICES ASSUME RowLetter(r) = RowLetter(s) PROVE FALSE
  OBVIOUS
<1>1. r \in {"A1", "A2", "B1"} /\ s \in {"A1", "A2", "B1"}
  BY DEF OnSheet, SheetRacks
<1>2. (r = "A1" /\ s = "A2") \/ (r = "A2" /\ s = "A1")
  BY <1>1 DEF RowLetter
<1>3. "A1" \in OnSheet(devices)
  BY <1>2
<1>4. ColumnsOf(devices, "A1") = 2
  <2>1. {x \in OnSheet(devices) : RowLetter(x) = RowLetter("A1") /\ x = "A1" /\ "A1" = "A2"} = {}
    OBVIOUS
  <2>2. Cardinality({}) = 0
    BY FS_EmptySet
  <2> QED BY <2>1, <2>2 DEF ColumnsOf
<1>5. ColumnsOf(devices, "A2") = 5
  <2>1. {x \in OnSheet(devices) : RowLetter(x) = RowLetter("A2") /\ x = "A1" /\ "A2" = "A2"} = {"A1"}
    BY <1>3 DEF RowLetter
  <2>2. Cardinality({"A1"}) = 1
    BY FS_Singleton
  <2> QED BY <2>1, <2>2 DEF ColumnsOf
<1> QED BY <1>2, <1>4, <1>5

\* The devices that the sheet is asked about.
LEMMA SheetAsked ==
    ASSUME AskRackSheet
    PROVE  \E devices \in Seq(Racked3) :
              NamesDiffer(devices) /\ question' = [of |-> "rack sheet", devices |-> devices]
<1>1. PICK d \in SheetDevices({"d"}), e \in SheetDevices({"e"}), f \in SheetDevices({"f"}) :
         question' = [of |-> "rack sheet", devices |-> <<d, e, f>>]
  BY DEF AskRackSheet
<1>2. /\ d \in Racked3 /\ e \in Racked3 /\ f \in Racked3
      /\ d.name = "d" /\ e.name = "e" /\ f.name = "f"
  BY DEF SheetDevices, Racked3, SheetNames
<1> DEFINE l == <<d, e, f>>
<1>3. l \in Seq(Racked3) /\ DOMAIN l = 1..3 /\ l[1] = d /\ l[2] = e /\ l[3] = f
  BY <1>2
<1> HIDE DEF l
<1>4. NamesDiffer(l)
  <2>1. \A i \in DOMAIN l : i = 1 \/ i = 2 \/ i = 3
    BY <1>3
  <2> QED BY <2>1, <1>2, <1>3 DEF NamesDiffer
<1> QED BY <1>1, <1>3, <1>4 DEF l

\* Every device is named in one cell of its rack, wherever the devices are.
LEMMA SheetAnswer == AskRackSheet => EveryDeviceIsOnTheSheet'
<1> SUFFICES ASSUME AskRackSheet PROVE EveryDeviceIsOnTheSheet'
  OBVIOUS
<1>1. PICK devices \in Seq(Racked3) :
         NamesDiffer(devices) /\ question' = [of |-> "rack sheet", devices |-> devices]
  BY SheetAsked
<1>2. /\ \A c \in NamedCells(devices) :
            \E r \in OnSheet(devices) : \E u \in UnitsOf(devices, r) : c = CellOf(devices, r, u)
      /\ \A r \in SheetRacks : \A u \in UnitsOf(devices, r) :
            r \in OnSheet(devices) /\ CellOf(devices, r, u) \in NamedCells(devices)
  BY <1>1, CellsAre
<1>3. \A r \in SheetRacks : Named(RackOf(devices, r), devices, Len(devices), r)
  BY <1>1, RackNames
<1>4. \A r : \A u \in UnitsOf(devices, r) :
         /\ CellOf(devices, r, u).names = NamesAt(RackOf(devices, r), u)
         /\ CellOf(devices, r, u).label = <<r, u>>
  BY DEF CellOf, NamesAt, UnitsOf
<1>5. DOMAIN devices = 1..Len(devices) /\ \A n \in DOMAIN devices : devices[n] \in Racked3
  OBVIOUS
<1>6. ASSUME NEW n \in DOMAIN devices
      PROVE  LET d == devices[n]
                 in == {c \in NamedCells(devices) : d.name \in c.names}
             IN  IF d.unit = 0 THEN in = {}
                 ELSE Cardinality(in) = 1 /\ \A c \in in : c.label[1] = d.rack
  <2> DEFINE d == devices[n]
             in == {c \in NamedCells(devices) : d.name \in c.names}
  <2>1. ASSUME NEW c \in in
        PROVE  /\ d.unit # 0
               /\ \E u \in UnitsOf(devices, d.rack) :
                    d.name \in NamesAt(RackOf(devices, d.rack), u) /\ c = CellOf(devices, d.rack, u)
    <3>1. PICK r \in OnSheet(devices) : \E u \in UnitsOf(devices, r) : c = CellOf(devices, r, u)
      BY <1>2
    <3>2. PICK u \in UnitsOf(devices, r) : c = CellOf(devices, r, u)
      BY <3>1
    <3>3. d.name \in NamesAt(RackOf(devices, r), u) /\ r \in SheetRacks
      BY <3>2, <1>4 DEF OnSheet
    <3>4. PICK j \in 1..Len(devices) : LiesIn(devices[j], r) /\ d.name = devices[j].name
      BY <3>3, <1>3 DEF Named, UnitsOf
    <3>5. j = n
      BY <3>4, <1>1, <1>5 DEF NamesDiffer
    <3>6. d.rack = r /\ d.unit # 0
      BY <3>4, <3>5 DEF LiesIn
    <3> QED BY <3>2, <3>3, <3>6
  <2>2. CASE d.unit = 0
    <3>1. in = {}
      BY <2>1, <2>2
    <3> QED BY <3>1, <2>2
  <2>3. CASE d.unit # 0
    <3>1. d.rack \in SheetRacks /\ LiesIn(d, d.rack) /\ n \in 1..Len(devices)
      BY <2>3, <1>5 DEF Racked3, LiesIn
    <3> DEFINE t == RackOf(devices, d.rack)
    <3>2. Named(t, devices, Len(devices), d.rack)
      BY <3>1, <1>3
    <3>3. PICK u \in DOMAIN t.slot : /\ d.name \in NamesAt(t, u)
                                     /\ \A w \in DOMAIN t.slot : d.name \in NamesAt(t, w) => w = u
      BY <3>1, <3>2 DEF Named
    <3>4. u \in UnitsOf(devices, d.rack) /\ UnitsOf(devices, d.rack) = DOMAIN t.slot
      BY <3>3 DEF UnitsOf
    <3> HIDE DEF d, t
    <3> DEFINE x == CellOf(devices, d.rack, u)
    <3>5. x \in in
      BY <3>1, <3>3, <3>4, <1>2, <1>4 DEF t
    <3>6. \A c \in in : c = x
      BY <2>1, <3>3, <3>4 DEF t
    <3> HIDE DEF in
    <3>7. x.label = <<d.rack, u>>
      BY <3>4, <1>4
    <3> HIDE DEF x
    <3>8. in = {x}
      BY <3>5, <3>6
    <3>9. Cardinality(in) = 1
      BY <3>8, FS_Singleton
    <3> QED BY <3>7, <3>8, <3>9, <2>3 DEF d, in
  <2> QED BY <2>2, <2>3
<1>7. question'.devices = devices
  BY <1>1
<1> QED BY <1>6, <1>7 DEF EveryDeviceIsOnTheSheet, Asked

\* What CellsAreApart says of the devices.
ApartOn(devices) ==
    LET cells == NamedCells(devices)
    IN  /\ \A c, b \in cells :
              c # b /\ c.column = b.column => c.rows \cap b.rows = {}
        /\ \A c \in cells :
              c.rows \subseteq (FirstRow(devices, RowLetter(c.label[1])) + 1)..20

\* No two cells of the sheet overlap, wherever the devices are.
LEMMA ApartAnswer == AskRackSheet => CellsAreApart'
<1> SUFFICES ASSUME AskRackSheet PROVE CellsAreApart'
  OBVIOUS
<1>1. PICK devices \in Seq(Racked3) :
         NamesDiffer(devices) /\ question' = [of |-> "rack sheet", devices |-> devices]
  BY SheetAsked
<1>2. \A c \in NamedCells(devices) :
         \E r \in OnSheet(devices) : \E u \in UnitsOf(devices, r) : c = CellOf(devices, r, u)
  BY <1>1, CellsAre
<1>3. \A r \in OnSheet(devices) : \A u \in UnitsOf(devices, r) :
         /\ FirstRow(devices, RowLetter(r)) \in 1..8
         /\ CellOf(devices, r, u).rows \subseteq
               (FirstRow(devices, RowLetter(r)) + 1)
               ..(FirstRow(devices, RowLetter(r)) + MaxUnit(devices, RowLetter(r)))
         /\ \A w \in UnitsOf(devices, r) : w # u =>
               CellOf(devices, r, u).rows \cap CellOf(devices, r, w).rows = {}
  BY <1>1, RowsOfCells
<1>4. \A r : \A u : /\ CellOf(devices, r, u).label = <<r, u>>
                    /\ CellOf(devices, r, u).column = ColumnsOf(devices, r)
  BY DEF CellOf
<1>5. \A letter : MaxUnit(devices, letter) \in 2..4
  BY <1>1, HighestUnit
<1>6. ASSUME NEW c \in NamedCells(devices)
      PROVE  c.rows \subseteq (FirstRow(devices, RowLetter(c.label[1])) + 1)..20
  <2>1. PICK r \in OnSheet(devices) : \E u \in UnitsOf(devices, r) : c = CellOf(devices, r, u)
    BY <1>2
  <2>2. PICK u \in UnitsOf(devices, r) : c = CellOf(devices, r, u)
    BY <2>1
  <2>3. c.label[1] = r
    BY <2>2, <1>4
  <2> DEFINE first == FirstRow(devices, RowLetter(r))
             max == MaxUnit(devices, RowLetter(r))
  <2>4. first \in 1..8 /\ max \in 2..4 /\ c.rows \subseteq (first + 1)..(first + max)
    BY <2>2, <1>3, <1>5
  <2> HIDE DEF first, max
  <2>5. c.rows \subseteq (first + 1)..20
    BY <2>4
  <2> QED BY <2>3, <2>5 DEF first
<1>7. ASSUME NEW c \in NamedCells(devices), NEW b \in NamedCells(devices), c # b, c.column = b.column
      PROVE  c.rows \cap b.rows = {}
  <2>1. PICK r \in OnSheet(devices) : \E u \in UnitsOf(devices, r) : c = CellOf(devices, r, u)
    BY <1>2
  <2>2. PICK u \in UnitsOf(devices, r) : c = CellOf(devices, r, u)
    BY <2>1
  <2>3. PICK s \in OnSheet(devices) : \E w \in UnitsOf(devices, s) : b = CellOf(devices, s, w)
    BY <1>2
  <2>4. PICK w \in UnitsOf(devices, s) : b = CellOf(devices, s, w)
    BY <2>3
  <2>5. CASE r = s
    BY <2>2, <2>4, <2>5, <1>3, <1>7
  <2>6. CASE r # s
    <3>1. ColumnsOf(devices, r) = ColumnsOf(devices, s)
      BY <2>2, <2>4, <1>4, <1>7
    <3>2. RowLetter(r) # RowLetter(s)
      BY <2>6, <3>1, ColumnsOfRacks
    <3>3. /\ c.rows \subseteq (FirstRow(devices, RowLetter(r)) + 1)
                              ..(FirstRow(devices, RowLetter(r)) + MaxUnit(devices, RowLetter(r)))
          /\ b.rows \subseteq (FirstRow(devices, RowLetter(s)) + 1)
                              ..(FirstRow(devices, RowLetter(s)) + MaxUnit(devices, RowLetter(s)))
      BY <2>2, <2>4, <1>3
    <3>4. FirstRow(devices, "A") = 1
      BY DEF FirstRow
    <3>5. \A q \in OnSheet(devices) : RowLetter(q) = "A"
             => FirstRow(devices, "B") = 1 + MaxUnit(devices, "A") + 3
      BY DEF FirstRow
    <3>6. RowLetter(r) \in {"A", "B"} /\ RowLetter(s) \in {"A", "B"}
      BY DEF RowLetter
    <3>7. MaxUnit(devices, "A") \in 2..4 /\ MaxUnit(devices, "B") \in 2..4
      BY <1>5
    <3>8. CASE RowLetter(r) = "A" /\ RowLetter(s) = "B"
      <4>1. FirstRow(devices, "B") = 1 + MaxUnit(devices, "A") + 3
        BY <3>5, <3>8
      <4>2. c.rows \subseteq 2..(1 + MaxUnit(devices, "A"))
        BY <3>3, <3>4, <3>8, <3>7
      <4>3. \A x \in b.rows : x \in Int /\ x > 1 + MaxUnit(devices, "A")
        BY <3>3, <3>8, <4>1, <3>7
      <4> QED BY <4>2, <4>3, <3>7
    <3>9. CASE RowLetter(r) = "B" /\ RowLetter(s) = "A"
      <4>1. FirstRow(devices, "B") = 1 + MaxUnit(devices, "A") + 3
        BY <3>5, <3>9
      <4>2. b.rows \subseteq 2..(1 + MaxUnit(devices, "A"))
        BY <3>3, <3>4, <3>9, <3>7
      <4>3. \A x \in c.rows : x \in Int /\ x > 1 + MaxUnit(devices, "A")
        BY <3>3, <3>9, <4>1, <3>7
      <4> QED BY <4>2, <4>3, <3>7
    <3> QED BY <3>2, <3>6, <3>8, <3>9
  <2> QED BY <2>5, <2>6
<1>8. ApartOn(devices)
  BY <1>6, <1>7 DEF ApartOn
<1>9. ApartOn(question'.devices)
  BY <1>1, <1>8
<1> QED BY <1>9 DEF CellsAreApart, ApartOn

-----------------------------------------------------------------------------
(* The bands and the vendor of a gateway.                                  *)

\* r gives the bands taken of the first k that were told.
FinalRun(r, found) ==
    /\ r \in [0..Len(found) -> Seq({Narrow, Wide, Local, TooWide, TooNarrow})]
    /\ r[0] = <<>> /\ r[Len(found)] = Finalized(found)
    /\ \A k \in 1..Len(found) :
           r[k] = IF Usable(found[k]) /\ found[k] \notin ToSet(r[k - 1]) THEN Append(r[k - 1], found[k]) ELSE r[k - 1]

\* Usable bands are taken one after another.
LEMMA FinalSteps ==
    ASSUME NEW found \in Seq({Narrow, Wide, Local, TooWide, TooNarrow})
    PROVE  \E r : FinalRun(r, found)
<1> DEFINE n == Len(found)
           T == Seq({Narrow, Wide, Local, TooWide, TooNarrow})
           E == {Narrow, Wide, Local, TooWide, TooNarrow}
           op(t, e) == IF Usable(e) /\ e \notin ToSet(t) THEN Append(t, e) ELSE t
           F == [p \in T \X E |-> op(p[1], p[2])]
           Fix(i) == i = [s \in SUBSET (DOMAIN found) |->
                            IF s = {} THEN <<>> ELSE op(i[s \ {Max(s)}], found[Max(s)])]
           it == CHOOSE i : Fix(i)
<1>1. n \in Nat /\ found \in [1..n -> E] /\ DOMAIN found = 1..n /\ <<>> \in T
  <2>1. found \in Seq(E)
    OBVIOUS
  <2>2. <<>> \in T
    OBVIOUS
  <2> HIDE DEF E, T
  <2> QED BY <2>1, <2>2
<1>2. \A t \in T, e \in E : op(t, e) \in T /\ F[<<t, e>>] = op(t, e)
  OBVIOUS
<1>3. F \in [T \X E -> T]
  <2> HIDE DEF op, T, E
  <2> QED BY <1>2
<1>4. Finalized(found) = it[1..n]
  BY <1>1 DEF Finalized, FoldLeft, MapThenFoldSet
<1> HIDE DEF n, T, E, F, op
<1>5. PICK g : FoldSolution(g, T, F, <<>>, n, found)
  BY <1>1, <1>3, FoldHasSolution
<1>6. FoldStays(g, T, E, F, <<>>, n, found) /\ g \in [SUBSET (1..n) -> T]
  BY <1>1, <1>5, SolutionStays
<1>7. Fix(g)
  BY <1>1, <1>2, <1>6 DEF FoldStays
<1> HIDE DEF Fix
<1>8. Fix(it)
  BY <1>7
<1> HIDE DEF it
<1>9. FoldLike(it, T, F, <<>>, n, found)
  <2>1. \A s \in SUBSET (1..n) :
            it[s] = IF s = {} THEN <<>> ELSE op(it[s \ {Max(s)}], found[Max(s)])
    BY <1>1, <1>8 DEF Fix
  <2>2. 1..0 = {} /\ {} \in SUBSET (1..n)
    OBVIOUS
  <2>3. it[1..0] = <<>>
    BY <2>1, <2>2
  <2>4. \A s \in SUBSET (1..n) : s # {} => found[Max(s)] \in E
    BY <1>6 DEF FoldStays
  <2> QED BY <1>2, <2>1, <2>3, <2>4 DEF FoldLike
<1>10. FoldGives(it[1..n], T, F, <<>>, n, found)
  BY <1>1, <1>3, <1>9, FoldHasSteps
<1>11. PICK r : FoldSteps(r, T, F, <<>>, n, found) /\ r[n] = Finalized(found)
  BY <1>10, <1>4 DEF FoldGives
<1>12. r \in [0..n -> T] /\ r[0] = <<>> /\ \A k \in 1..n : r[k] = F[<<r[k - 1], found[k]>>]
  BY <1>11 DEF FoldSteps
<1>13. \A k \in 1..n : r[k] = op(r[k - 1], found[k])
  <2> TAKE k \in 1..n
  <2>1. r[k - 1] \in T /\ found[k] \in E
    BY <1>1, <1>12
  <2> QED BY <2>1, <1>12, <1>2
<1> QED BY <1>11, <1>12, <1>13 DEF FinalRun, n, T, op

\* What the commands may tell.
ToldBands == {Narrow, Wide, Local, TooWide, TooNarrow}

\* out has the usable ones of the first k bands told, each once.
OnceEach(out, found, k) ==
    /\ IsInjective(out)
    /\ \A b \in ToSet(out) : Usable(b) /\ \E m \in 1..k : b = found[m]
    /\ \A m \in 1..k : Usable(found[m]) => found[m] \in ToSet(out)

\* _finalize_subnets takes the usable bands, each once.
LEMMA FinalizedIs ==
    ASSUME NEW found \in Seq(ToldBands)
    PROVE  Finalized(found) \in Seq(ToldBands) /\ OnceEach(Finalized(found), found, Len(found))
<1>1. PICK r : FinalRun(r, found)
  BY FinalSteps DEF ToldBands
<1> DEFINE n == Len(found)
<1>2. /\ r \in [0..n -> Seq(ToldBands)] /\ r[0] = <<>> /\ r[n] = Finalized(found)
      /\ \A k \in 1..n : r[k] = IF Usable(found[k]) /\ found[k] \notin ToSet(r[k - 1])
                                THEN Append(r[k - 1], found[k]) ELSE r[k - 1]
  BY <1>1 DEF FinalRun, ToldBands
<1>3. n \in Nat /\ \A k \in 1..n : found[k] \in ToldBands
  OBVIOUS
<1> HIDE DEF n
<1> DEFINE Good == {k \in 0..n : OnceEach(r[k], found, k)}
<1>4. 0 \in Good
  <2>1. OnceEach(<<>>, found, 0)
    BY DEF OnceEach, IsInjective, ToSet
  <2> QED BY <2>1, <1>2, <1>3
<1>5. ASSUME NEW k \in 0..(n - 1), k \in Good PROVE k + 1 \in Good
  <2>1. k + 1 \in 1..n /\ (k + 1) - 1 = k /\ k \in 0..n /\ k + 1 \in 0..n /\ k \in Nat
        /\ 1..(k + 1) = 1..k \cup {k + 1}
    BY <1>3
  <2> DEFINE x == found[k + 1]
  <2>2. r[k] \in Seq(ToldBands) /\ OnceEach(r[k], found, k) /\ x \in ToldBands
    BY <2>1, <1>2, <1>3, <1>5
  <2>3. r[k + 1] = IF Usable(x) /\ x \notin ToSet(r[k]) THEN Append(r[k], x) ELSE r[k]
    BY <2>1, <1>2
  <2>4. CASE ~(Usable(x) /\ x \notin ToSet(r[k]))
    <3>1. r[k + 1] = r[k]
      BY <2>3, <2>4
    <3>2. OnceEach(r[k], found, k + 1)
      BY <2>1, <2>2, <2>4 DEF OnceEach
    <3> QED BY <3>1, <3>2, <2>1
  <2>5. CASE Usable(x) /\ x \notin ToSet(r[k])
    <3>1. r[k + 1] = Append(r[k], x)
      BY <2>3, <2>5
    <3>2. x = found[k + 1]
      OBVIOUS
    <3> HIDE DEF x
    <3>3. Appended(r[k], x, r[k + 1])
      BY <3>1, <2>2, AppendIs
    <3>4. IsInjective(r[k + 1])
      <4>1. \A i \in DOMAIN r[k] : r[k + 1][i] = r[k][i] /\ r[k][i] \in ToSet(r[k])
        BY <3>3 DEF Appended, ToSet
      <4>2. \A i \in DOMAIN r[k + 1] : i \in DOMAIN r[k] \/ i = Len(r[k]) + 1
        BY <3>3 DEF Appended
      <4>3. r[k + 1][Len(r[k]) + 1] = x
        BY <3>3 DEF Appended
      <4>4. \A i \in DOMAIN r[k] : r[k][i] # x
        BY <4>1, <2>5
      <4>5. \A i, j \in DOMAIN r[k] : r[k][i] = r[k][j] => i = j
        BY <2>2 DEF OnceEach, IsInjective
      <4> QED BY <4>1, <4>2, <4>3, <4>4, <4>5 DEF IsInjective
    <3>5. ToSet(r[k + 1]) = ToSet(r[k]) \cup {x}
      BY <3>3 DEF Appended
    <3>6. \A b \in ToSet(r[k + 1]) : Usable(b) /\ \E m \in 1..(k + 1) : b = found[m]
      BY <3>5, <3>2, <2>5, <2>1, <2>2 DEF OnceEach
    <3>7. \A m \in 1..(k + 1) : Usable(found[m]) => found[m] \in ToSet(r[k + 1])
      BY <3>5, <3>2, <2>5, <2>1, <2>2 DEF OnceEach
    <3>8. OnceEach(r[k + 1], found, k + 1)
      BY <3>4, <3>6, <3>7 DEF OnceEach
    <3> QED BY <3>8, <2>1
  <2> QED BY <2>4, <2>5
<1> HIDE DEF Good
<1>6. n \in Good
  <2>1. 0..n \subseteq Good
    BY <1>3, <1>4, <1>5, UpToInSet
  <2> QED BY <2>1, <1>3
<1> QED BY <1>6, <1>2, <1>3 DEF Good, n

\* The vendor of a gateway is replaced only for bands that the new one tells.
LEMMA DetectionAnswer == AskDetection => VendorFollowsTheBands'
<1> SUFFICES ASSUME AskDetection PROVE VendorFollowsTheBands'
  OBVIOUS
<1>1. PICK g \in Gateways, vendor \in {"ios", "exos"}, probed \in {"none", "ios", "exos"},
           redials \in BOOLEAN :
          question' = [of |-> "detect", gateway |-> g, vendor |-> vendor, probed |-> probed,
                       redials |-> redials]
  BY DEF AskDetection
<1>2. g.system \in {"ios", "exos"} /\ g.lenient \in BOOLEAN /\ g.told \in SeqOf(ToldBands, MaxLen["detect"])
  BY DEF Gateways, ToldBands
<1> DEFINE bands == Finalized(g.told)
           got == DetectSubnets(g, vendor, probed, redials)
           corrected == probed = g.system /\ redials
           reachable == \/ vendor = g.system
                        \/ vendor = "ios" /\ (g.lenient \/ corrected)
<1>3. g.told \in Seq(ToldBands) /\ DOMAIN g.told = 1..Len(g.told)
  <2>1. MaxLen["detect"] \in Nat
    BY QuestionsAssumption DEF ListQuestions
  <2> QED BY <1>2, <2>1, ListOfUpTo
<1>4. bands \in Seq(ToldBands) /\ OnceEach(bands, g.told, Len(g.told))
  BY <1>3, FinalizedIs
<1>5. {b \in ToSet(g.told) : Usable(b)} = ToSet(bands)
  <2>1. \A b \in ToSet(g.told) : \E m \in 1..Len(g.told) : b = g.told[m]
    BY <1>3 DEF ToSet
  <2>2. \A m \in 1..Len(g.told) : g.told[m] \in ToSet(g.told)
    BY <1>3 DEF ToSet
  <2> HIDE DEF bands
  <2> QED BY <2>1, <2>2, <1>4 DEF OnceEach
<1>6. IsInjective(bands) /\ \A b \in ToSet(bands) : Usable(b)
  BY <1>4 DEF OnceEach
<1>7. \A c, d \in {"ios", "exos"} :
         Answers(g, c, d) = IF g.system = c /\ (d = g.system \/ g.lenient) THEN bands ELSE <<>>
  BY DEF Answers
<1>8. IsInjective(<<>>) /\ \A b \in ToSet(<<>>) : Usable(b)
  BY DEF IsInjective, ToSet
<1> HIDE DEF bands
<1>9. /\ got.vendor # vendor => got.vendor = g.system /\ got.bands # <<>>
      /\ got.bands = IF reachable THEN bands ELSE <<>>
  <2>1. CASE vendor = "exos"
    BY <2>1, <1>7, <1>2 DEF DetectSubnets, InSession
  <2>2. CASE vendor = "ios"
    <3>1. Answers(g, "ios", "ios") = IF g.system = "ios" THEN bands ELSE <<>>
      BY <1>7
    <3>2. Answers(g, "exos", "ios") = IF g.system = "exos" /\ g.lenient THEN bands ELSE <<>>
      BY <1>7
    <3>3. Answers(g, "exos", "exos") = IF g.system = "exos" THEN bands ELSE <<>>
      BY <1>7
    <3>4. InSession(g, "ios") = IF g.system = "ios" \/ g.lenient THEN bands ELSE <<>>
      BY <3>1, <3>2, <1>2 DEF InSession
    <3>5. got = IF InSession(g, "ios") # <<>>
                THEN [bands |-> InSession(g, "ios"), vendor |-> "ios"]
                ELSE Retried(g, "ios", probed, redials)
      BY <2>2 DEF DetectSubnets
    <3>6. Retried(g, "ios", probed, redials)
          = IF probed # "exos" \/ ~redials \/ g.system # "exos" \/ bands = <<>>
            THEN [bands |-> <<>>, vendor |-> "ios"]
            ELSE [bands |-> bands, vendor |-> "exos"]
      BY <3>3, <1>2 DEF Retried
    <3> HIDE DEF got
    <3>7. CASE InSession(g, "ios") # <<>>
      BY <3>4, <3>5, <3>7, <2>2
    <3>8. CASE InSession(g, "ios") = <<>>
      BY <3>4, <3>5, <3>6, <3>8, <2>2, <1>2
    <3> QED BY <3>7, <3>8
  <2> QED BY <2>1, <2>2
<1>10. IsInjective(got.bands) /\ \A b \in ToSet(got.bands) : Usable(b)
  <2> HIDE DEF got, reachable
  <2> QED BY <1>6, <1>8, <1>9
<1>11. /\ question'.gateway = g /\ question'.vendor = vendor /\ question'.probed = probed
       /\ question'.redials = redials
  BY <1>1
<1> QED BY <1>5, <1>9, <1>10, <1>11 DEF VendorFollowsTheBands, Asked, bands

-----------------------------------------------------------------------------
(* The flapping ports of a log and the alarm about them.                   *)

\* r gives the window at each of the first k places.
SlideRun(r, ts, places) ==
    /\ r \in [0..Len(places) -> [lo : Nat, best : Int]]
    /\ r[0] = FromFirst /\ r[Len(places)] = SlideAll(ts, places)
    /\ \A k \in 1..Len(places) : r[k] = Slide(ts, r[k - 1], places[k])

\* The window slides on from time to time.
LEMMA SlideSteps ==
    ASSUME NEW ts, NEW places \in Seq(Nat)
    PROVE  \E r : SlideRun(r, ts, places)
<1> DEFINE n == Len(places)
           T == [lo : Nat, best : Int]
           E == Nat
           op(t, e) == Slide(ts, t, e)
           F == [p \in T \X E |-> op(p[1], p[2])]
           Fix(i) == i = [s \in SUBSET (DOMAIN places) |->
                            IF s = {} THEN FromFirst ELSE op(i[s \ {Max(s)}], places[Max(s)])]
           it == CHOOSE i : Fix(i)
<1>1. n \in Nat /\ places \in [1..n -> E] /\ DOMAIN places = 1..n /\ FromFirst \in T
  <2>1. places \in Seq(E)
    OBVIOUS
  <2>2. FromFirst \in T
    BY DEF FromFirst
  <2> HIDE DEF E, T
  <2> QED BY <2>1, <2>2
<1>2. \A t \in T, e \in E : op(t, e) \in T /\ F[<<t, e>>] = op(t, e)

  <2> TAKE t \in T, e \in E
  <2>1. <<t, e>> \in T \X E
    OBVIOUS
  <2>2. F[<<t, e>>] = op(t, e)
    <3> HIDE DEF T, E, op
    <3> QED BY <2>1
  <2> DEFINE far == {k \in t.lo..e : ts[e] - ts[k] > FlapWindow}
             lo == t.lo + Cardinality(far)
             width == e - lo + 1
  <2>3. t.lo \in Nat /\ t.best \in Int /\ e \in Nat
    OBVIOUS
  <2>4. IsFiniteSet(far)
    <3>1. IsFiniteSet(t.lo..e)
      BY <2>3, FS_Interval
    <3> QED BY <3>1, FS_Subset
  <2>5. lo \in Nat /\ width \in Int
    <3>1. Cardinality(far) \in Nat
      BY <2>4, FS_CardinalityType
    <3> HIDE DEF far
    <3> QED BY <2>3, <3>1
  <2>6. Slide(ts, t, e) = [lo |-> lo, best |-> IF width > t.best THEN width ELSE t.best]
    BY DEF Slide
  <2> HIDE DEF lo, width
  <2>7. Slide(ts, t, e) \in T
    BY <2>3, <2>5, <2>6
  <2> HIDE DEF T, F
  <2> QED BY <2>2, <2>7
<1>3. F \in [T \X E -> T]
  <2> HIDE DEF op, T, E
  <2> QED BY <1>2
<1>4. SlideAll(ts, places) = it[1..n]
  BY <1>1 DEF SlideAll, FoldLeft, MapThenFoldSet
<1> HIDE DEF n, T, E, F, op
<1>5. PICK g : FoldSolution(g, T, F, FromFirst, n, places)
  BY <1>1, <1>3, FoldHasSolution
<1>6. FoldStays(g, T, E, F, FromFirst, n, places) /\ g \in [SUBSET (1..n) -> T]
  BY <1>1, <1>5, SolutionStays
<1>7. Fix(g)
  BY <1>1, <1>2, <1>6 DEF FoldStays
<1> HIDE DEF Fix
<1>8. Fix(it)
  BY <1>7
<1> HIDE DEF it
<1>9. FoldLike(it, T, F, FromFirst, n, places)
  <2>1. \A s \in SUBSET (1..n) :
            it[s] = IF s = {} THEN FromFirst ELSE op(it[s \ {Max(s)}], places[Max(s)])
    BY <1>1, <1>8 DEF Fix
  <2>2. 1..0 = {} /\ {} \in SUBSET (1..n)
    OBVIOUS
  <2>3. it[1..0] = FromFirst
    BY <2>1, <2>2
  <2>4. \A s \in SUBSET (1..n) : s # {} => places[Max(s)] \in E
    BY <1>6 DEF FoldStays
  <2> QED BY <1>2, <2>1, <2>3, <2>4 DEF FoldLike
<1>10. FoldGives(it[1..n], T, F, FromFirst, n, places)
  BY <1>1, <1>3, <1>9, FoldHasSteps
<1>11. PICK r : FoldSteps(r, T, F, FromFirst, n, places) /\ r[n] = SlideAll(ts, places)
  BY <1>10, <1>4 DEF FoldGives
<1>12. r \in [0..n -> T] /\ r[0] = FromFirst /\ \A k \in 1..n : r[k] = F[<<r[k - 1], places[k]>>]
  BY <1>11 DEF FoldSteps
<1>13. \A k \in 1..n : r[k] = op(r[k - 1], places[k])
  <2> TAKE k \in 1..n
  <2>1. r[k - 1] \in T /\ places[k] \in E
    BY <1>1, <1>12
  <2> QED BY <2>1, <1>12, <1>2
<1> QED BY <1>11, <1>12, <1>13 DEF SlideRun, n, T, op

\* Numbers in ascending order.
Ascends(u, m) == u \in [1..m -> Int] /\ \A i, j \in 1..m : i <= j => u[i] <= u[j]

\* Enough of the first k lie within a window.
CloseBy(u, k) ==
    \E n \in 1..k : n + FlapThreshold - 1 \in 1..k /\ u[n + FlapThreshold - 1] - u[n] <= FlapWindow

\* A set of a lies below as many as it has elements, if it has all below each.
LEMMA PrefixIs ==
    ASSUME NEW a \in Nat \ {0}, NEW b \in Nat, NEW S, S \subseteq a..b,
           \A x \in S : \A y \in a..x : y \in S
    PROVE  Cardinality(S) \in Nat /\ S = a..(a + Cardinality(S) - 1)
<1>1. CASE S = {}
  <2>1. Cardinality(S) = 0
    BY <1>1, FS_EmptySet
  <2> QED BY <1>1, <2>1
<1>2. CASE S # {}
  <2>1. S \subseteq 1..b
    OBVIOUS
  <2>2. Max(S) \in S /\ \A m \in S : m <= Max(S)
    BY <1>2, <2>1, MaxOfBounded
  <2>3. Max(S) \in a..b
    BY <2>2
  <2>4. S = a..Max(S)
    <3>1. \A y \in a..Max(S) : y \in S
      BY <2>2
    <3>2. \A y \in S : y \in a..b /\ y <= Max(S)
      BY <2>2
    <3>3. \A y \in S : y \in a..Max(S)
      <4> TAKE y \in S
      <4>1. y \in Int /\ a <= y /\ y <= Max(S)
        BY <3>2, <2>3
      <4> QED BY <4>1, <2>3
    <3> QED BY <3>1, <3>3
  <2>5. Cardinality(a..Max(S)) = Max(S) - a + 1
    BY <2>3, FS_Interval
  <2>6. Cardinality(S) = Max(S) - a + 1
    BY <2>4, <2>5
  <2> DEFINE M == Max(S)
             c == Cardinality(S)
  <2>7. M \in Int /\ a <= M /\ c = M - a + 1 /\ S = a..M
    BY <2>3, <2>4, <2>6
  <2> HIDE DEF M, c
  <2>8. c \in Nat /\ a + c - 1 = M
    BY <2>7
  <2>9. S = a..(a + c - 1)
    BY <2>7, <2>8
  <2> QED BY <2>8, <2>9 DEF c
<1> QED BY <1>1, <1>2

\* Sorting changes nothing in what ascends.
LEMMA OrderIs ==
    ASSUME NEW m \in Nat, NEW u, Ascends(u, m)
    PROVE  InOrder(u) = u
<1> DEFINE Below(v) == {k \in DOMAIN u : u[k] < v}
           UpTo(v) == {k \in DOMAIN u : u[k] <= v}
           Fits(n, v) == Cardinality(Below(v)) < n /\ Cardinality(UpTo(v)) >= n
<1>1. u \in [1..m -> Int] /\ DOMAIN u = 1..m /\ \A i, j \in 1..m : i <= j => u[i] <= u[j]
  BY DEF Ascends
<1>2. \A n \in 1..m : /\ Cardinality(1..(n - 1)) = n - 1 /\ Cardinality(1..n) = n
                      /\ IsFiniteSet(1..(n - 1)) /\ IsFiniteSet(1..m)
  BY FS_Interval
<1>3. \A v : /\ IsFiniteSet(Below(v)) /\ Cardinality(Below(v)) \in Nat
             /\ IsFiniteSet(UpTo(v)) /\ Cardinality(UpTo(v)) \in Nat
  <2> TAKE v
  <2>1. Below(v) \subseteq 1..m /\ UpTo(v) \subseteq 1..m /\ IsFiniteSet(1..m)
    BY <1>1, FS_Interval
  <2> HIDE DEF Below, UpTo
  <2> QED BY <2>1, FS_Subset, FS_CardinalityType
<1>4. ASSUME NEW n \in 1..m PROVE Below(u[n]) \subseteq 1..(n - 1) /\ 1..n \subseteq UpTo(u[n])
  <2>1. ASSUME NEW k \in Below(u[n]) PROVE k \in 1..(n - 1)
    <3>1. k \in 1..m /\ u[k] < u[n] /\ u[k] \in Int /\ u[n] \in Int
      BY <1>1
    <3>2. ~(n <= k)
      BY <3>1, <1>1
    <3> QED BY <3>1, <3>2
  <2>2. ASSUME NEW k \in 1..n PROVE k \in UpTo(u[n])
    <3>1. k \in 1..m /\ k <= n
      OBVIOUS
    <3> QED BY <3>1, <1>1
  <2> QED BY <2>1, <2>2
<1>5. ASSUME NEW n \in 1..m PROVE Fits(n, u[n])
  <2>1. Cardinality(Below(u[n])) <= n - 1
    <3>1. Below(u[n]) \in SUBSET (1..(n - 1)) /\ IsFiniteSet(1..(n - 1))
      BY <1>2, <1>4
    <3>2. Cardinality(Below(u[n])) <= Cardinality(1..(n - 1))
      <4> HIDE DEF Below
      <4> QED BY <3>1, FS_Subset
    <3> HIDE DEF Below
    <3> QED BY <3>2, <1>2
  <2>2. n <= Cardinality(UpTo(u[n]))
    <3>1. 1..n \in SUBSET UpTo(u[n]) /\ IsFiniteSet(UpTo(u[n]))
      BY <1>3, <1>4
    <3>2. Cardinality(1..n) <= Cardinality(UpTo(u[n]))
      <4> HIDE DEF UpTo
      <4> QED BY <3>1, FS_Subset
    <3> HIDE DEF UpTo
    <3> QED BY <3>2, <1>2
  <2> HIDE DEF Below, UpTo
  <2> QED BY <2>1, <2>2, <1>3
<1>6. ASSUME NEW n \in 1..m, NEW v \in ToSet(u), Fits(n, v) PROVE v = u[n]
  <2>1. v \in Int /\ u[n] \in Int
    BY <1>1 DEF ToSet
  <2>2. ~(v < u[n])
    <3>1. SUFFICES ASSUME v < u[n] PROVE FALSE
      OBVIOUS
    <3>2. UpTo(v) \subseteq Below(u[n])
      <4> SUFFICES ASSUME NEW k \in UpTo(v) PROVE k \in Below(u[n])
        OBVIOUS
      <4>1. k \in 1..m /\ u[k] \in Int /\ u[k] <= v
        BY <1>1
      <4> QED BY <4>1, <3>1, <2>1, <1>1
    <3>3. UpTo(v) \subseteq 1..(n - 1)
      BY <3>2, <1>4
    <3>4. Cardinality(UpTo(v)) <= n - 1
      <4>1. UpTo(v) \in SUBSET (1..(n - 1)) /\ IsFiniteSet(1..(n - 1))
        BY <1>2, <3>3
      <4>2. Cardinality(UpTo(v)) <= Cardinality(1..(n - 1))
        <5> HIDE DEF UpTo
        <5> QED BY <4>1, FS_Subset
      <4> HIDE DEF UpTo
      <4> QED BY <4>2, <1>2
    <3> HIDE DEF UpTo, Below
    <3> QED BY <3>4, <1>6, <1>3
  <2>3. ~(u[n] < v)
    <3>1. SUFFICES ASSUME u[n] < v PROVE FALSE
      OBVIOUS
    <3>2. 1..n \subseteq Below(v)
      <4> SUFFICES ASSUME NEW k \in 1..n PROVE k \in Below(v)
        OBVIOUS
      <4>1. k \in 1..m /\ u[k] \in Int /\ u[k] <= u[n]
        BY <1>1
      <4> QED BY <4>1, <3>1, <2>1, <1>1
    <3>3. n <= Cardinality(Below(v))
      <4>1. 1..n \in SUBSET Below(v) /\ IsFiniteSet(Below(v))
        BY <1>3, <3>2
      <4>2. Cardinality(1..n) <= Cardinality(Below(v))
        <5> HIDE DEF Below
        <5> QED BY <4>1, FS_Subset
      <4> HIDE DEF Below
      <4> QED BY <4>2, <1>2
    <3> HIDE DEF UpTo, Below
    <3> QED BY <3>3, <1>6, <1>3
  <2> QED BY <2>1, <2>2, <2>3
<1>7. \A n \in 1..m : u[n] \in ToSet(u)
  BY <1>1 DEF ToSet
<1> DEFINE of(n) == CHOOSE v \in ToSet(u) : Fits(n, v)
<1>8. InOrder(u) = [n \in 1..m |-> of(n)]
  BY <1>1 DEF InOrder
<1> HIDE DEF Fits
<1>9. \A n \in 1..m : of(n) = u[n]
  BY <1>5, <1>6, <1>7
<1> HIDE DEF of
<1>10. InOrder(u) = [n \in 1..m |-> u[n]]
  BY <1>8, <1>9
<1> QED BY <1>10, <1>1

\* The window of the two pointers is full once iff enough times lie close by.
LEMMA WindowIs ==
    ASSUME NEW m \in Nat, NEW u, Ascends(u, m)
    PROVE  SlideAll(u, [n \in DOMAIN u |-> n]).best >= FlapThreshold <=> CloseBy(u, m)
<1> DEFINE places == [n \in DOMAIN u |-> n]
<1>1. u \in [1..m -> Int] /\ DOMAIN u = 1..m /\ \A i, j \in 1..m : i <= j => u[i] <= u[j]
  BY DEF Ascends
<1>2. /\ places \in Seq(Nat) /\ Len(places) = m /\ \A k \in 1..m : places[k] = k
  <2>1. places \in [1..m -> Nat] /\ \A k \in 1..m : places[k] = k
    BY <1>1
  <2> HIDE DEF places
  <2> QED BY <2>1
<1> HIDE DEF places
<1>3. PICK r : SlideRun(r, u, places)
  BY <1>2, SlideSteps
<1>4. /\ r \in [0..m -> [lo : Nat, best : Int]]
      /\ r[0] = FromFirst /\ r[m] = SlideAll(u, places)
      /\ \A k \in 1..m : r[k] = Slide(u, r[k - 1], k)
  BY <1>2, <1>3 DEF SlideRun
<1> DEFINE Far(k, j) == u[k] - u[j] > FlapWindow
           Fine(k) == /\ r[k].lo \in 1..(k + 1) /\ r[k].best \in Int
                      /\ k > 0 => r[k].lo <= k
                      /\ \A j \in 1..m : k > 0 /\ j <= k => (j < r[k].lo <=> Far(k, j))
                      /\ r[k].best >= FlapThreshold <=> CloseBy(u, k)
           Good == {k \in 0..m : Fine(k)}
<1>5. 0 \in Good
  <2>1. r[0].lo = 1 /\ r[0].best = 0
    BY <1>4 DEF FromFirst
  <2>2. ~CloseBy(u, 0) /\ ~(0 >= FlapThreshold)
    BY DEF CloseBy, FlapThreshold
  <2>3. Fine(0)
    BY <2>1, <2>2
  <2> QED BY <2>3
<1>6. ASSUME NEW k \in 0..(m - 1), k \in Good PROVE k + 1 \in Good
  <2> DEFINE h == k + 1
             lo == r[k].lo
             far == {j \in lo..h : u[h] - u[j] > FlapWindow}
             low == lo + Cardinality(far)
             width == h - low + 1
  <2>1. h \in 1..m /\ h \in 0..m /\ h - 1 = k /\ k \in 0..m /\ k \in Nat /\ h = k + 1
    OBVIOUS
  <2>2. Fine(k)
    BY <1>6
  <2>3. lo \in 1..h /\ r[k].best \in Int
    BY <2>2
  <2>4. r[h] = [lo |-> low, best |-> IF width > r[k].best THEN width ELSE r[k].best]
    <3>1. r[h] = Slide(u, r[k], h)
      BY <2>1, <1>4
    <3> QED BY <3>1 DEF Slide
  <2> HIDE DEF h
  <2>5. \A j \in 1..m : j < lo => Far(h, j)
    <3> TAKE j \in 1..m
    <3> HAVE j < lo
    <3>1. k > 0 /\ j <= k /\ k \in 1..m
      BY <2>1, <2>2, <2>3
    <3>2. u[k] - u[j] > FlapWindow
      BY <3>1, <2>2
    <3>3. u[k] <= u[h] /\ u[k] \in Int /\ u[h] \in Int /\ u[j] \in Int
      BY <3>1, <2>1, <1>1
    <3> QED BY <3>2, <3>3 DEF FlapWindow
  <2>6. \A x \in far : \A y \in lo..x : y \in far
    <3> TAKE x \in far
    <3> TAKE y \in lo..x
    <3>1. x \in lo..h /\ u[h] - u[x] > FlapWindow
      OBVIOUS
    <3>2. x \in 1..m /\ y \in 1..m /\ y \in lo..h /\ y <= x
      BY <3>1, <2>1, <2>3
    <3>3. u[y] <= u[x] /\ u[y] \in Int /\ u[x] \in Int /\ u[h] \in Int
      BY <3>2, <2>1, <1>1
    <3> QED BY <3>1, <3>2, <3>3 DEF FlapWindow
  <2>7. Cardinality(far) \in Nat /\ far = lo..(low - 1)
    <3>1. far \subseteq lo..h /\ lo \in Nat \ {0} /\ h \in Nat
      BY <2>1, <2>3
    <3>2. low - 1 = lo + Cardinality(far) - 1
      <4>1. Cardinality(far) \in Nat
        <5> HIDE DEF far, lo
        <5> QED BY <3>1, <2>6, PrefixIs
      <4> QED BY <4>1, <2>3
    <3> HIDE DEF far, lo, low
    <3>3. Cardinality(far) \in Nat /\ far = lo..(lo + Cardinality(far) - 1)
      BY <3>1, <2>6, PrefixIs
    <3> QED BY <3>2, <3>3
  <2>8. h \notin far
    <3>1. u[h] \in Int
      BY <2>1, <1>1
    <3> QED BY <3>1 DEF FlapWindow
  <2>9. low \in Nat /\ lo <= low /\ low <= h
    <3>1. low \in Nat /\ lo <= low
      BY <2>3, <2>7
    <3>2. h \in lo..(low - 1) \/ low <= h
      <4> HIDE DEF low, lo, far
      <4> QED BY <3>1, <2>1, <2>3
    <3> QED BY <3>1, <3>2, <2>7, <2>8
  <2>10. \A j \in 1..m : j <= h => (j < low <=> Far(h, j))
    <3> TAKE j \in 1..m
    <3> HAVE j <= h
    <3>1. CASE j < lo
      BY <3>1, <2>5, <2>9, <2>3
    <3>2. CASE ~(j < lo)
      <4>1. j \in lo..h
        BY <3>2, <2>1, <2>3
      <4>2. j \in far <=> Far(h, j)
        BY <4>1
      <4>3. j \in lo..(low - 1) <=> j < low
        <5> HIDE DEF low, lo, far
        <5> QED BY <4>1, <2>9, <2>3, <2>1
      <4> QED BY <4>2, <4>3, <2>7
    <3> QED BY <3>1, <3>2
  <2> HIDE DEF low, far, lo
  <2>11. width >= FlapThreshold
         <=> h - FlapThreshold + 1 \in 1..m /\ u[h] - u[h - FlapThreshold + 1] <= FlapWindow
    <3> DEFINE j == h - FlapThreshold + 1
    <3>1. width >= FlapThreshold <=> low <= j
      BY <2>1, <2>9 DEF FlapThreshold
    <3>2. j \in Int /\ j <= h
      BY <2>1 DEF FlapThreshold
    <3>3. low \in 1..m
      BY <2>1, <2>3, <2>9
    <3>4. CASE j \in 1..m
      <4>1. j < low <=> u[h] - u[j] > FlapWindow
        BY <3>2, <3>4, <2>10
      <4>2. u[h] \in Int /\ u[j] \in Int
        BY <3>4, <2>1, <1>1
      <4> HIDE DEF j, width
      <4>3. (low <= j) <=> ~(j < low)
        BY <3>2, <3>3
      <4>4. (u[h] - u[j] <= FlapWindow) <=> ~(u[h] - u[j] > FlapWindow)
        BY <4>2 DEF FlapWindow
      <4>5. (low <= j) <=> (u[h] - u[j] <= FlapWindow)
        BY <4>1, <4>3, <4>4
      <4> QED BY <3>1, <3>4, <4>5 DEF j
    <3>5. CASE j \notin 1..m
      <4>1. ~(low <= j)
        <5> HIDE DEF j
        <5> QED BY <3>2, <3>3, <3>5, <2>1
      <4> HIDE DEF width
      <4> QED BY <4>1, <3>1, <3>5
    <3> QED BY <3>4, <3>5
  <2>12. CloseBy(u, h) <=> CloseBy(u, k)
            \/ (h - FlapThreshold + 1 \in 1..m /\ u[h] - u[h - FlapThreshold + 1] <= FlapWindow)
    <3>1. ASSUME CloseBy(u, k) PROVE CloseBy(u, h)
      BY <3>1, <2>1 DEF CloseBy, FlapThreshold
    <3>2. ASSUME h - FlapThreshold + 1 \in 1..m,
                 u[h] - u[h - FlapThreshold + 1] <= FlapWindow PROVE CloseBy(u, h)
      <4> DEFINE n == h - FlapThreshold + 1
      <4>1. n \in 1..h /\ n + FlapThreshold - 1 = h /\ h \in 1..h
        BY <3>2, <2>1 DEF FlapThreshold
      <4> HIDE DEF n
      <4>2. u[n + FlapThreshold - 1] - u[n] <= FlapWindow
        BY <4>1, <3>2 DEF n
      <4>3. \E i \in 1..h : i + FlapThreshold - 1 \in 1..h /\ u[i + FlapThreshold - 1] - u[i] <= FlapWindow
        BY <4>1, <4>2
      <4> QED BY <4>3 DEF CloseBy
    <3>3. ASSUME CloseBy(u, h), ~CloseBy(u, k)
          PROVE  h - FlapThreshold + 1 \in 1..m /\ u[h] - u[h - FlapThreshold + 1] <= FlapWindow
      <4>1. PICK n \in 1..h : n + FlapThreshold - 1 \in 1..h /\ u[n + FlapThreshold - 1] - u[n] <= FlapWindow
        BY <3>3 DEF CloseBy
      <4>2. n + FlapThreshold - 1 \in 1..k => n \in 1..k
        BY <2>1 DEF FlapThreshold
      <4>3. n + FlapThreshold - 1 \notin 1..k
        BY <4>1, <4>2, <3>3 DEF CloseBy
      <4>4. n + FlapThreshold - 1 = h
        BY <4>1, <4>3, <2>1 DEF FlapThreshold
      <4>5. h - FlapThreshold + 1 = n /\ n \in 1..m
        BY <4>4, <2>1 DEF FlapThreshold
      <4> QED BY <4>1, <4>4, <4>5
    <3> QED BY <3>1, <3>2, <3>3
  <2>13. width \in Int
    BY <2>1, <2>9
  <2>14. r[k].best >= FlapThreshold <=> CloseBy(u, k)
    BY <2>2
  <2>15. r[h].best >= FlapThreshold <=> r[k].best >= FlapThreshold \/ width >= FlapThreshold
    <3> HIDE DEF width
    <3> QED BY <2>4, <2>13, <2>3 DEF FlapThreshold
  <2>16. r[h].lo = low /\ r[h].best \in Int
    <3> HIDE DEF width
    <3> QED BY <2>4, <2>13, <2>3
  <2>17. r[h].best >= FlapThreshold <=> CloseBy(u, h)
    BY <2>11, <2>12, <2>14, <2>15
  <2>18. r[h].lo \in 1..(h + 1) /\ r[h].lo <= h
    BY <2>16, <2>9, <2>3, <2>1
  <2>19. Fine(h)
    BY <2>10, <2>16, <2>17, <2>18
  <2> HIDE DEF Fine
  <2> QED BY <2>19, <2>1
<1> HIDE DEF Good
<1>7. m \in Good
  <2>1. 0..m \subseteq Good
    BY <1>5, <1>6, UpToInSet
  <2> QED BY <2>1
<1>8. r[m].best >= FlapThreshold <=> CloseBy(u, m)
  BY <1>7 DEF Good
<1> QED BY <1>8, <1>4 DEF places

\* Times of a log without a leap day and without a long gap.
Regular(u, m) ==
    /\ u \in [1..m -> Nat] /\ Ascends(u, m)
    /\ \A k \in 2..m : u[k] - u[k - 1] < LogYear - RolloverBack
    /\ \A k \in 1..m : Stamp(u[k]) # LeapDay

\* What is printed of two times falls far back exactly at the turn of a year.
LEMMA StampStep ==
    ASSUME NEW a \in Nat, NEW b \in Nat, a <= b, b - a < LogYear - RolloverBack
    PROVE  /\ Stamp(a) \in Int /\ Stamp(b) \in Int
           /\ Stamp(b) - Stamp(a) < -RolloverBack => Stamp(b) + LogYear - Stamp(a) = b - a
           /\ ~(Stamp(b) - Stamp(a) < -RolloverBack) => Stamp(b) - Stamp(a) = b - a
BY DEF Stamp, LogYear, RolloverBack

\* The correction of the years gives the true times, but for the year.
LEMMA YearsAre ==
    ASSUME NEW m \in Nat, m > 0, NEW u, Regular(u, m)
    PROVE  \E c \in Int : FixYearRollover([n \in 1..m |-> Stamp(u[n])]) = [n \in 1..m |-> u[n] - c]
<1> DEFINE s == [n \in 1..m |-> Stamp(u[n])]
           Drops(n) == {k \in 2..n : s[k] - s[k - 1] < -RolloverBack}
           c == u[1] - Stamp(u[1])
           Fine(n) == s[n] + LogYear * Cardinality(Drops(n)) = u[n] - c
           Good == {n \in 0..m : n = 0 \/ Fine(n)}
<1>1. /\ u \in [1..m -> Nat] /\ \A i, j \in 1..m : i <= j => u[i] <= u[j]
      /\ \A k \in 2..m : u[k] - u[k - 1] < LogYear - RolloverBack
      /\ \A k \in 1..m : Stamp(u[k]) # LeapDay
  BY DEF Regular, Ascends
<1>2. DOMAIN s = 1..m /\ \A n \in 1..m : s[n] = Stamp(u[n]) /\ s[n] \in Int /\ s[n] # LeapDay
  <2>1. \A n \in 1..m : Stamp(u[n]) \in Int
    BY <1>1 DEF Stamp, LogYear
  <2> QED BY <2>1, <1>1
<1> HIDE DEF s
<1>3. \A n \in 0..m : IsFiniteSet(Drops(n)) /\ Cardinality(Drops(n)) \in Nat
  <2> TAKE n \in 0..m
  <2>1. IsFiniteSet(2..n) /\ Drops(n) \in SUBSET (2..n)
    BY FS_Interval
  <2> HIDE DEF Drops
  <2> QED BY <2>1, FS_Subset, FS_CardinalityType
<1>4. 0 \in Good
  OBVIOUS
<1>5. ASSUME NEW n \in 0..(m - 1), n \in Good PROVE n + 1 \in Good
  <2>0. n + 1 \in 1..m /\ n + 1 \in 0..m /\ n \in Nat
    OBVIOUS
  <2>1. CASE n = 0
    <3>1. Drops(1) = {}
      OBVIOUS
    <3>2. Cardinality(Drops(1)) = 0
      <4> HIDE DEF Drops
      <4> QED BY <3>1, FS_EmptySet
    <3>3. 1 \in 1..m /\ s[1] = Stamp(u[1]) /\ s[1] \in Int /\ u[1] \in Int
      BY <1>1, <1>2, <2>0, <2>1
    <3> HIDE DEF Drops
    <3>4. Fine(1)
      BY <3>2, <3>3 DEF LogYear
    <3> QED BY <3>4, <2>0, <2>1
  <2>2. CASE n # 0
    <3> DEFINE h == n + 1
    <3>1. n \in 1..m /\ h \in 2..m /\ h \in 1..m /\ h - 1 = n /\ Fine(n) /\ n <= h
      BY <1>5, <2>0, <2>2
    <3>2. u[n] \in Nat /\ u[h] \in Nat /\ u[n] <= u[h] /\ u[h] - u[n] < LogYear - RolloverBack
      BY <3>1, <1>1
    <3>3. /\ s[h] - s[n] < -RolloverBack => s[h] + LogYear - s[n] = u[h] - u[n]
          /\ ~(s[h] - s[n] < -RolloverBack) => s[h] - s[n] = u[h] - u[n]
          /\ s[h] \in Int /\ s[n] \in Int
      BY <3>1, <3>2, <1>2, StampStep
    <3>4. h \notin Drops(n)
      BY <3>1
    <3>5. IsFiniteSet(Drops(n)) /\ Cardinality(Drops(n)) \in Nat /\ c \in Int
      <4>1. 1 \in 1..m /\ u[1] \in Int /\ Stamp(u[1]) \in Int
        BY <1>1, <1>2, <3>1
      <4> QED BY <4>1, <3>1, <1>3
    <3>6. CASE s[h] - s[n] < -RolloverBack
      <4>1. Drops(h) = Drops(n) \cup {h}
        BY <3>1, <3>6
      <4>2. Cardinality(Drops(h)) = Cardinality(Drops(n)) + 1
        <5> HIDE DEF Drops
        <5> QED BY <4>1, <3>4, <3>5, FS_AddElement
      <4>3. s[n] + LogYear * Cardinality(Drops(n)) = u[n] - c
        BY <3>1
      <4>4. s[h] + LogYear - s[n] = u[h] - u[n]
        BY <3>3, <3>6
      <4> HIDE DEF Drops, h, c
      <4>5. s[h] + LogYear * Cardinality(Drops(h)) = u[h] - c
        BY <4>2, <4>3, <4>4, <3>2, <3>3, <3>5 DEF LogYear
      <4> QED BY <4>5, <3>1, <2>0 DEF h
    <3>7. CASE ~(s[h] - s[n] < -RolloverBack)
      <4>1. Drops(h) = Drops(n)
        BY <3>1, <3>7
      <4>3. s[n] + LogYear * Cardinality(Drops(n)) = u[n] - c
        BY <3>1
      <4>4. s[h] - s[n] = u[h] - u[n]
        BY <3>3, <3>7
      <4> HIDE DEF Drops, h, c
      <4>5. s[h] + LogYear * Cardinality(Drops(h)) = u[h] - c
        BY <4>1, <4>3, <4>4, <3>2, <3>3, <3>5 DEF LogYear
      <4> QED BY <4>5, <3>1, <2>0 DEF h
    <3> QED BY <3>6, <3>7
  <2> QED BY <2>1, <2>2
<1> HIDE DEF Good
<1>6. 0..m \subseteq Good
  BY <1>4, <1>5, UpToInSet
<1>7. \A n \in 1..m : Fine(n)
  <2> TAKE n \in 1..m
  <2>1. n \in Good /\ n # 0
    BY <1>6
  <2> QED BY <2>1 DEF Good
<1>8. FixYearRollover(s) = [n \in 1..m |-> s[n] + LogYear * Cardinality(Drops(n))]
  <2>1. FixYearRollover(s) = [n \in DOMAIN s |->
            IF s[n] = LeapDay THEN s[n] ELSE s[n] + LogYear * Cardinality(Drops(n))]
    BY DEF FixYearRollover
  <2> HIDE DEF Drops
  <2> QED BY <2>1, <1>2
<1>9. c \in Int
  BY <1>1, <1>2
<1> HIDE DEF Drops, c
<1>10. FixYearRollover(s) = [n \in 1..m |-> u[n] - c]
  BY <1>7, <1>8
<1> QED BY <1>9, <1>10 DEF s

\* Enough printed times are counted in a window iff enough true ones lie in one.
LEMMA PrintedWindowIs ==
    ASSUME NEW m \in Nat, m > 0, NEW u, Regular(u, m)
    PROVE  MaxInWindow([n \in 1..m |-> Stamp(u[n])]) >= FlapThreshold <=> CloseBy(u, m)
<1> DEFINE s == [n \in 1..m |-> Stamp(u[n])]
<1>1. PICK c \in Int : FixYearRollover(s) = [n \in 1..m |-> u[n] - c]
  BY YearsAre
<1> DEFINE v == [n \in 1..m |-> u[n] - c]
<1>2. u \in [1..m -> Nat] /\ \A i, j \in 1..m : i <= j => u[i] <= u[j]
  BY DEF Regular, Ascends
<1>3. \A n \in 1..m : v[n] = u[n] - c /\ v[n] \in Int
  BY <1>2
<1>4. Ascends(v, m)
  <2>1. v \in [1..m -> Int]
    BY <1>2
  <2> HIDE DEF v
  <2> QED BY <2>1, <1>2, <1>3 DEF Ascends
<1>5. FixYearRollover(s) = v
  BY <1>1
<1> HIDE DEF s, v
<1>6. InOrder(FixYearRollover(s)) = v
  BY <1>4, <1>5, OrderIs
<1>7. MaxInWindow(s) = SlideAll(v, [n \in DOMAIN v |-> n]).best
  BY <1>6 DEF MaxInWindow
<1>8. MaxInWindow(s) >= FlapThreshold <=> CloseBy(v, m)
  BY <1>4, <1>7, WindowIs
<1>9. CloseBy(v, m) <=> CloseBy(u, m)
  <2>1. \A n \in 1..m : n + FlapThreshold - 1 \in 1..m =>
          (v[n + FlapThreshold - 1] - v[n] = u[n + FlapThreshold - 1] - u[n])
    <3> TAKE n \in 1..m
    <3> DEFINE j == n + FlapThreshold - 1
    <3> HIDE DEF j
    <3>1. ASSUME j \in 1..m PROVE v[j] - v[n] = u[j] - u[n]
      BY <3>1, <1>2, <1>3
    <3> QED BY <3>1 DEF j
  <2> QED BY <2>1 DEF CloseBy
<1> QED BY <1>8, <1>9 DEF s

\* The lines of a log and when they were written.
LogRows == [line : LogLines, time : Nat]

\* The lines of a log in the order of time.
LogOk(lines) ==
    /\ lines \in Seq(LogRows)
    /\ \A i, j \in DOMAIN lines : i <= j => lines[i].time <= lines[j].time

\* The places of the lines of a port, and of those with a time.
LinesOf(lines, port) == {n \in DOMAIN lines : FlapOf(lines[n].line) = port}

\* The lines about a port that have a readable time.
TimedOf(lines, port) == {n \in LinesOf(lines, port) : Readable(lines[n].line)}

\* The list of the lines about a port.
PortLines(lines, port) == Filtered(lines, {l \in ToSet(lines) : FlapOf(l.line) = port})

\* The list of those that have a readable time.
TimedRows(lines, port) ==
    LET of == PortLines(lines, port) IN Filtered(of, {l \in ToSet(of) : Readable(l.line)})

\* at tells where the elements of a list stand among the lines of a set.
Stands(at, lines, list, set) ==
    /\ at \in [1..Len(list) -> set] /\ list \in Seq(LogRows)
    /\ \A i, j \in 1..Len(list) : i < j => at[i] < at[j]
    /\ \A i \in 1..Len(list) : list[i] = lines[at[i]]
    /\ \A n \in set : \E i \in 1..Len(list) : at[i] = n
    /\ set \subseteq DOMAIN lines /\ IsFiniteSet(set) /\ Len(list) = Cardinality(set)

\* What is left of a list stands where its elements are in the set.
LEMMA StandsIn ==
    ASSUME NEW lines \in Seq(LogRows), NEW set
    PROVE  \E at : Stands(at, lines, Filtered(lines, set), {n \in DOMAIN lines : lines[n] \in set})
<1> DEFINE there == {n \in DOMAIN lines : lines[n] \in set}
           list == Filtered(lines, set)
<1>1. list \in Seq(LogRows) /\ \E at : Selection(at, lines, Len(lines), list, set)
  BY FilterSelects
<1>2. PICK at : Selection(at, lines, Len(lines), list, set)
  BY <1>1
<1>3. Len(list) = Cardinality({n \in DOMAIN lines : lines[n] \in set})
  BY FilterCounts
<1>4. DOMAIN lines = 1..Len(lines) /\ Len(lines) \in Nat
  OBVIOUS
<1>5. /\ there = {n \in DOMAIN lines : lines[n] \in set}
      /\ \A n \in DOMAIN lines : n \in there <=> lines[n] \in set
  OBVIOUS
<1>6. IsFiniteSet(there)
  <2>1. IsFiniteSet(1..Len(lines)) /\ there \in SUBSET (1..Len(lines))
    BY <1>4, FS_Interval
  <2> HIDE DEF there
  <2> QED BY <2>1, FS_Subset
<1>7. there \subseteq DOMAIN lines
  OBVIOUS
<1> HIDE DEF list, there
<1>8. /\ at \in [1..Len(list) -> 1..Len(lines)]
      /\ \A i, j \in 1..Len(list) : i < j => at[i] < at[j]
      /\ \A i \in 1..Len(list) : list[i] = lines[at[i]] /\ list[i] \in set
      /\ \A m \in 1..Len(lines) : lines[m] \in set => \E i \in 1..Len(list) : at[i] = m
  BY <1>2 DEF Selection
<1>9. \A i \in 1..Len(list) : at[i] \in there
  BY <1>4, <1>5, <1>8
<1>10. at \in [1..Len(list) -> there]
  BY <1>8, <1>9
<1>11. \A n \in there : \E i \in 1..Len(list) : at[i] = n
  BY <1>4, <1>5, <1>8
<1>12. Stands(at, lines, list, there)
  BY <1>1, <1>3, <1>5, <1>6, <1>7, <1>8, <1>10, <1>11 DEF Stands
<1> QED BY <1>12 DEF list, there

\* The rows of a port and those with a time, by their places.
LEMMA TimedStand ==
    ASSUME NEW lines \in Seq(LogRows), NEW port
    PROVE  /\ Len(PortLines(lines, port)) = Cardinality(LinesOf(lines, port))
           /\ IsFiniteSet(LinesOf(lines, port))
           /\ \E at : Stands(at, lines, TimedRows(lines, port), TimedOf(lines, port))
<1> DEFINE of == PortLines(lines, port)
           ts == TimedRows(lines, port)
           O == LinesOf(lines, port)
           R == {n \in DOMAIN of : Readable(of[n].line)}
           T == TimedOf(lines, port)
<1>1. PICK a : Stands(a, lines, of, O)
  <2> DEFINE set == {l \in ToSet(lines) : FlapOf(l.line) = port}
  <2>1. \A n \in DOMAIN lines : lines[n] \in set <=> FlapOf(lines[n].line) = port
    BY DEF ToSet
  <2>2. of = Filtered(lines, set)
    BY DEF PortLines
  <2> HIDE DEF set, of
  <2>3. O = {n \in DOMAIN lines : lines[n] \in set}
    BY <2>1 DEF LinesOf
  <2> QED BY <2>2, <2>3, StandsIn
<1>2. /\ a \in [1..Len(of) -> O] /\ of \in Seq(LogRows)
      /\ \A i, j \in 1..Len(of) : i < j => a[i] < a[j]
      /\ \A i \in 1..Len(of) : of[i] = lines[a[i]]
      /\ \A n \in O : \E i \in 1..Len(of) : a[i] = n
      /\ O \subseteq DOMAIN lines /\ IsFiniteSet(O) /\ Len(of) = Cardinality(O)
  BY <1>1 DEF Stands
<1>3. PICK b : Stands(b, of, ts, R)
  <2> DEFINE set == {l \in ToSet(of) : Readable(l.line)}
  <2>2. ts = Filtered(of, set)
    BY DEF TimedRows
  <2> HIDE DEF of, ts
  <2>1. \A n \in DOMAIN of : of[n] \in set <=> Readable(of[n].line)
    BY <1>2 DEF ToSet
  <2> HIDE DEF set
  <2>3. R = {n \in DOMAIN of : of[n] \in set}
    BY <2>1
  <2> QED BY <2>2, <2>3, <1>2, StandsIn
<1> HIDE DEF of, ts, R
<1>4. /\ b \in [1..Len(ts) -> R] /\ ts \in Seq(LogRows)
      /\ \A i, j \in 1..Len(ts) : i < j => b[i] < b[j]
      /\ \A i \in 1..Len(ts) : ts[i] = of[b[i]]
      /\ \A n \in R : \E i \in 1..Len(ts) : b[i] = n
      /\ R \subseteq DOMAIN of /\ IsFiniteSet(R) /\ Len(ts) = Cardinality(R)
  BY <1>3 DEF Stands
<1>5. DOMAIN of = 1..Len(of) /\ Len(of) \in Nat /\ Len(ts) \in Nat
      /\ \A n \in DOMAIN of : n \in R <=> Readable(of[n].line)
  BY <1>2, <1>4 DEF R
<1>6. T \subseteq O /\ \A n \in O : n \in T <=> Readable(lines[n].line)
  BY DEF TimedOf
<1> HIDE DEF O, T
<1>7. \A i \in 1..Len(of) : a[i] \in T <=> i \in R
  BY <1>2, <1>5, <1>6
<1> DEFINE at == [i \in 1..Len(ts) |-> a[b[i]]]
<1>8. \A i \in 1..Len(ts) : at[i] = a[b[i]] /\ b[i] \in 1..Len(of) /\ at[i] \in T
  BY <1>4, <1>5, <1>7
<1>9. at \in [1..Len(ts) -> T]
  BY <1>8
<1> HIDE DEF at
<1>10. \A i, j \in 1..Len(ts) : i < j => at[i] < at[j]
  BY <1>2, <1>4, <1>8
<1>11. \A i \in 1..Len(ts) : ts[i] = lines[at[i]]
  BY <1>2, <1>4, <1>8
<1>12. \A n \in T : \E i \in 1..Len(ts) : at[i] = n
  <2> TAKE n \in T
  <2>1. PICK k \in 1..Len(of) : a[k] = n
    BY <1>2, <1>6
  <2>2. k \in R
    BY <2>1, <1>7
  <2>3. PICK i \in 1..Len(ts) : b[i] = k
    BY <2>2, <1>4
  <2> QED BY <2>1, <2>3, <1>8
<1>13. Len(ts) = Cardinality(T)
  <2>1. \A i, j \in 1..Len(ts) : at[i] = at[j] => i = j
    <3> TAKE i, j \in 1..Len(ts)
    <3>1. at[i] \in Int /\ at[j] \in Int
      <4>1. DOMAIN lines \subseteq Int
        OBVIOUS
      <4> QED BY <4>1, <1>2, <1>6, <1>8
    <3>2. i < j \/ j < i \/ i = j
      OBVIOUS
    <3> QED BY <3>1, <3>2, <1>10
  <2>2. at \in Bijection(1..Len(ts), T)
    <3>1. IsInjective(at)
      BY <2>1, <1>9 DEF IsInjective
    <3> QED BY <1>9, <1>12, <3>1, <2>1 DEF Bijection, Injection, Surjection
  <2>3. IsFiniteSet(1..Len(ts)) /\ Cardinality(1..Len(ts)) = Len(ts)
    <3> DEFINE c == Len(ts)
    <3>1. c \in Nat
      BY <1>5
    <3> HIDE DEF c
    <3>2. IsFiniteSet(1..c) /\ Cardinality(1..c) = c
      BY <3>1, FS_Interval
    <3> QED BY <3>2 DEF c
  <2>4. Cardinality(T) = Cardinality(1..Len(ts))
    BY <2>2, <2>3, FS_Bijection DEF ExistsBijection
  <2> QED BY <2>3, <2>4
<1>14. T \subseteq DOMAIN lines /\ IsFiniteSet(T)
  BY <1>2, <1>6, FS_Subset
<1>15. Stands(at, lines, ts, T)
  BY <1>4, <1>9, <1>10, <1>11, <1>12, <1>13, <1>14 DEF Stands
<1> QED BY <1>2, <1>15 DEF of, ts, T, O

\* Enough lines of T lie within a window that starts at one of them.
WithinWindow(lines, T, n) ==
    {k \in T : lines[k].time \in lines[n].time..(lines[n].time + FlapWindow)}

\* Enough of the lines of T truly lie within one window.
DenseOn(lines, T) == \E n \in T : Cardinality(WithinWindow(lines, T, n)) >= FlapThreshold

\* The times of the lines of a list.
TimesOf(list) == [n \in 1..Len(list) |-> list[n].time]

\* The times of the rows ascend as those of their lines.
LEMMA TimesAscend ==
    ASSUME NEW lines, LogOk(lines), NEW T, NEW list, NEW at, Stands(at, lines, list, T)
    PROVE  /\ Ascends(TimesOf(list), Len(list)) /\ TimesOf(list) \in [1..Len(list) -> Nat]
           /\ \A i \in 1..Len(list) : TimesOf(list)[i] = lines[at[i]].time
           /\ \A i \in 1..Len(list) : at[i] \in T /\ at[i] \in Nat
           /\ \A k \in T : lines[k].time \in Nat
           /\ Len(list) \in Nat
<1> DEFINE m == Len(list)
           u == TimesOf(list)
<1>1. /\ at \in [1..m -> T] /\ list \in Seq(LogRows) /\ T \subseteq DOMAIN lines
      /\ \A i, j \in 1..m : i < j => at[i] < at[j]
      /\ \A i \in 1..m : list[i] = lines[at[i]]
  BY DEF Stands
<1>2. /\ lines \in Seq(LogRows) /\ DOMAIN lines \subseteq Nat
      /\ \A i, j \in DOMAIN lines : i <= j => lines[i].time <= lines[j].time
      /\ \A k \in DOMAIN lines : lines[k].time \in Nat
  <2>1. lines \in Seq(LogRows)
    BY DEF LogOk
  <2>2. \A k \in DOMAIN lines : lines[k] \in LogRows
    BY <2>1
  <2> QED BY <2>1, <2>2 DEF LogOk, LogRows
<1>3. m \in Nat
  BY <1>1
<1> HIDE DEF m
<1>4. \A i \in 1..m : u[i] = lines[at[i]].time /\ at[i] \in T /\ at[i] \in Nat /\ u[i] \in Nat
  <2>1. \A i \in 1..m : u[i] = list[i].time
    BY DEF TimesOf, m
  <2> HIDE DEF u
  <2> QED BY <2>1, <1>1, <1>2
<1>5. u \in [1..m -> Nat]
  <2>1. u = [i \in 1..m |-> u[i]]
    BY DEF TimesOf, m
  <2> HIDE DEF u
  <2> QED BY <2>1, <1>4
<1> HIDE DEF u
<1>6. \A i, j \in 1..m : i <= j => u[i] <= u[j]
  <2> TAKE i, j \in 1..m
  <2> HAVE i <= j
  <2>1. at[i] <= at[j]
    <3>1. CASE i = j
      BY <3>1, <1>4
    <3>2. CASE i # j
      <4>1. i < j
        BY <3>2
      <4> QED BY <4>1, <1>1, <1>4
    <3> QED BY <3>1, <3>2
  <2>2. at[i] \in DOMAIN lines /\ at[j] \in DOMAIN lines
    BY <1>1, <1>4
  <2> QED BY <2>1, <2>2, <1>2, <1>4
<1>7. Ascends(u, m)
  BY <1>5, <1>6 DEF Ascends
<1>8. \A k \in T : lines[k].time \in Nat
  BY <1>1, <1>2
<1> QED BY <1>3, <1>4, <1>5, <1>7, <1>8 DEF u, m

\* Enough times lie close by iff enough lines lie within a window.
LEMMA DenseIs ==
    ASSUME NEW lines, LogOk(lines), NEW T, NEW list, NEW at, Stands(at, lines, list, T)
    PROVE  CloseBy(TimesOf(list), Len(list)) <=> DenseOn(lines, T)
<1> DEFINE m == Len(list)
           u == TimesOf(list)
<1>1. /\ Ascends(u, m) /\ u \in [1..m -> Nat]
      /\ \A i \in 1..m : u[i] = lines[at[i]].time
      /\ \A i \in 1..m : at[i] \in T /\ at[i] \in Nat
      /\ \A k \in T : lines[k].time \in Nat
      /\ m \in Nat
  BY TimesAscend
<1>2. /\ at \in [1..m -> T] /\ IsFiniteSet(T)
      /\ \A i, j \in 1..m : i < j => at[i] < at[j]
      /\ \A n \in T : \E i \in 1..m : at[i] = n
  BY DEF Stands
<1>3. \A i, j \in 1..m : i <= j => u[i] <= u[j]
  BY <1>1 DEF Ascends
<1> HIDE DEF u, m
<1>4. \A n : IsFiniteSet(WithinWindow(lines, T, n)) /\ Cardinality(WithinWindow(lines, T, n)) \in Nat
  <2> TAKE n
  <2>1. WithinWindow(lines, T, n) \in SUBSET T
    BY DEF WithinWindow
  <2> QED BY <2>1, <1>2, FS_Subset, FS_CardinalityType
<1>5. ASSUME CloseBy(u, m) PROVE DenseOn(lines, T)
  <2>1. PICK n \in 1..m : n + 2 \in 1..m /\ u[n + 2] - u[n] <= 1
    BY <1>5 DEF CloseBy, FlapThreshold, FlapWindow
  <2> DEFINE a == n + 1
             b == n + 2
             K == WithinWindow(lines, T, at[n])
  <2>2. a \in 1..m /\ b \in 1..m /\ n < a /\ a < b
    BY <2>1, <1>1
  <2> HIDE DEF a
  <2>3. /\ at[n] < at[a] /\ at[a] < at[b]
        /\ at[n] \in Nat /\ at[a] \in Nat /\ at[b] \in Nat
        /\ u[n] <= u[a] /\ u[a] <= u[b] /\ u[b] - u[n] <= 1
        /\ u[n] \in Nat /\ u[a] \in Nat /\ u[b] \in Nat
    <3>1. u[b] - u[n] <= 1
      BY <2>1
    <3> HIDE DEF b
    <3>2. at[n] < at[a] /\ at[a] < at[b] /\ at[n] \in Nat /\ at[a] \in Nat /\ at[b] \in Nat
      BY <2>2, <1>1, <1>2
    <3>3. u[n] \in Nat /\ u[a] \in Nat /\ u[b] \in Nat
      BY <2>2, <1>1
    <3>4. u[n] <= u[a] /\ u[a] <= u[b]
      <4>1. n \in Int /\ a \in Int /\ b \in Int
        BY <2>2
      <4> QED BY <2>2, <4>1, <1>3
    <3> QED BY <3>1, <3>2, <3>3, <3>4
  <2> HIDE DEF b
  <2>4. {at[n], at[a], at[b]} \subseteq K
    <3>1. \A i \in 1..m : u[i] \in u[n]..(u[n] + 1) => at[i] \in K
      BY <1>1, <2>1 DEF WithinWindow, FlapWindow
    <3> HIDE DEF K
    <3>2. u[n] \in u[n]..(u[n] + 1) /\ u[a] \in u[n]..(u[n] + 1) /\ u[b] \in u[n]..(u[n] + 1)
      BY <2>3
    <3> QED BY <3>1, <3>2, <2>2
  <2>5. Cardinality({at[n], at[a], at[b]}) = 3
    <3>1. Cardinality({at[n]}) = 1 /\ IsFiniteSet({at[n]})
      BY FS_Singleton
    <3>2. IsFiniteSet({at[n]} \cup {at[a]}) /\ Cardinality({at[n]} \cup {at[a]}) = 2
      <4>1. at[a] \notin {at[n]}
        BY <2>3
      <4> QED BY <3>1, <4>1, FS_AddElement
    <3>3. Cardinality(({at[n]} \cup {at[a]}) \cup {at[b]}) = 3
      <4>1. at[b] \notin {at[n]} \cup {at[a]}
        BY <2>3
      <4> QED BY <3>2, <4>1, FS_AddElement
    <3>4. ({at[n]} \cup {at[a]}) \cup {at[b]} = {at[n], at[a], at[b]}
      OBVIOUS
    <3> QED BY <3>3, <3>4
  <2>6. Cardinality({at[n], at[a], at[b]}) <= Cardinality(K)
    <3>1. IsFiniteSet(K) /\ {at[n], at[a], at[b]} \in SUBSET K
      BY <2>4, <1>4
    <3> HIDE DEF K
    <3> QED BY <3>1, FS_Subset
  <2>7. Cardinality(K) >= FlapThreshold
    <3>1. Cardinality(K) \in Nat
      BY <1>4
    <3> HIDE DEF K
    <3> QED BY <3>1, <2>5, <2>6 DEF FlapThreshold
  <2>8. at[n] \in T
    BY <1>1, <2>1
  <2> QED BY <2>7, <2>8 DEF DenseOn
<1>6. ASSUME DenseOn(lines, T) PROVE CloseBy(u, m)
  <2>1. PICK n \in T : Cardinality(WithinWindow(lines, T, n)) >= FlapThreshold
    BY <1>6 DEF DenseOn
  <2> DEFINE K == WithinWindow(lines, T, n)
             I == {i \in 1..m : at[i] \in K}
             t == lines[n].time
  <2>2. \A i \in I : t <= u[i] /\ u[i] <= t + 1
    <3>1. \A k \in K : k \in T /\ lines[k].time \in t..(t + 1)
      BY DEF WithinWindow, FlapWindow
    <3>2. t \in Nat
      BY <1>1
    <3> HIDE DEF K, t
    <3>3. \A i \in I : i \in 1..m /\ lines[at[i]].time \in t..(t + 1)
      BY <3>1
    <3> HIDE DEF I
    <3> QED BY <3>2, <3>3, <1>1
  <2>3. K \subseteq T /\ IsFiniteSet(K) /\ Cardinality(K) \in Nat /\ t \in Nat
    BY <1>1, <1>4 DEF WithinWindow
  <2>4. Cardinality(K) >= FlapThreshold
    BY <2>1
  <2> HIDE DEF K, t
  <2>5. I \subseteq 1..m /\ IsFiniteSet(I)
    <3>1. IsFiniteSet(1..m) /\ I \in SUBSET (1..m)
      BY <1>1, FS_Interval
    <3> HIDE DEF I
    <3> QED BY <3>1, FS_Subset
  <2> DEFINE f == [i \in I |-> at[i]]
  <2>6. Cardinality(I) = Cardinality(K)
    <3>1. \A i \in I : f[i] = at[i] /\ at[i] \in K
      OBVIOUS
    <3>2. f \in [I -> K]
      BY <3>1
    <3> HIDE DEF f
    <3>3. \A i, j \in I : f[i] = f[j] => i = j
      <4> TAKE i, j \in I
      <4>1. i \in 1..m /\ j \in 1..m /\ at[i] \in Nat /\ at[j] \in Nat /\ (i < j \/ j < i \/ i = j)
        BY <2>5, <1>1
      <4> QED BY <4>1, <3>1, <1>2
    <3>4. \A k \in K : \E i \in I : f[i] = k
      <4> TAKE k \in K
      <4>1. PICK i \in 1..m : at[i] = k
        BY <2>3, <1>2
      <4>2. i \in I
        BY <4>1
      <4> QED BY <4>1, <4>2, <3>1
    <3> HIDE DEF I
    <3>5. f \in Bijection(I, K)
      <4>1. IsInjective(f)
        BY <3>2, <3>3 DEF IsInjective
      <4> QED BY <3>2, <3>3, <3>4, <4>1 DEF Bijection, Injection, Surjection
    <3> QED BY <3>5, <2>5, FS_Bijection DEF ExistsBijection
  <2> HIDE DEF I
  <2>7. I # {}
    <3>1. Cardinality(I) # 0
      BY <2>3, <2>4, <2>6 DEF FlapThreshold
    <3> QED BY <3>1, FS_EmptySet
  <2>8. PICK x \in I : \A i \in I : x <= i
    <3>1. I \subseteq Nat
      BY <2>5
    <3> QED BY <3>1, <2>7, LeastNatural
  <2> DEFINE y == Max(I)
  <2>9. y \in I /\ \A i \in I : i <= y
    BY <2>5, <2>7, <1>1, MaxOfBounded
  <2> HIDE DEF y
  <2>10. Cardinality(I) <= Cardinality(x..y)
    <3>1. \A i \in I : i \in x..y
      <4> TAKE i \in I
      <4>1. i \in 1..m /\ x \in 1..m /\ y \in 1..m /\ x <= i /\ i <= y
        BY <2>5, <2>8, <2>9
      <4> QED BY <4>1
    <3>2. IsFiniteSet(x..y)
      <4>1. x \in Int /\ y \in Int
        BY <2>5, <2>8, <2>9
      <4> QED BY <4>1, FS_Interval
    <3>3. I \in SUBSET (x..y)
      BY <3>1
    <3> QED BY <3>2, <3>3, FS_Subset
  <2>11. x \in 1..m /\ y \in 1..m /\ x <= y
    BY <2>5, <2>8, <2>9
  <2>12. Cardinality(x..y) = y - x + 1
    <3>1. x \in Int /\ y \in Int /\ ~(x > y)
      BY <2>11
    <3> QED BY <3>1, FS_Interval
  <2>13. x + 2 <= y
    BY <2>3, <2>4, <2>6, <2>10, <2>11, <2>12 DEF FlapThreshold
  <2> DEFINE z == x + 2
  <2>14. z \in 1..m /\ z <= y
    BY <2>11, <2>13, <1>1
  <2> HIDE DEF z
  <2>15. u[z] <= u[y] /\ u[y] <= t + 1 /\ t <= u[x] /\ u[x] \in Nat /\ u[y] \in Nat /\ u[z] \in Nat
    BY <2>2, <2>8, <2>9, <2>11, <2>14, <1>1, <1>3
  <2>16. u[z] - u[x] <= 1
    BY <2>15, <2>3
  <2> QED BY <2>11, <2>14, <2>16 DEF CloseBy, z, FlapThreshold, FlapWindow
<1> QED BY <1>5, <1>6 DEF u, m

\* No line of T is of a leap day, and no gap is as long as the year.
RegularOn(lines, T) ==
    /\ \A n \in T : Stamp(lines[n].time) # LeapDay
    /\ \A n, k \in T :
          n < k /\ (\A m \in (n + 1)..(k - 1) : m \notin T)
            => lines[k].time - lines[n].time < LogYear - RolloverBack

\* A port of the log is told to flap exactly if it does.
FlapsTold(lines) ==
    \A port \in {"a", "b"} :
        RegularOn(lines, TimedOf(lines, port)) =>
            (port \in Flapping(lines) <=>
                IF Cardinality(TimedOf(lines, port)) >= FlapThreshold
                THEN DenseOn(lines, TimedOf(lines, port))
                ELSE Cardinality(LinesOf(lines, port)) >= FlapThreshold)

\* The times of a regular log are regular.
LEMMA TimesAreRegular ==
    ASSUME NEW lines, LogOk(lines), NEW T, NEW list, NEW at, Stands(at, lines, list, T),
           RegularOn(lines, T)
    PROVE  Regular(TimesOf(list), Len(list))
<1> DEFINE m == Len(list)
           u == TimesOf(list)
<1>1. /\ Ascends(u, m) /\ u \in [1..m -> Nat]
      /\ \A i \in 1..m : u[i] = lines[at[i]].time
      /\ \A i \in 1..m : at[i] \in T /\ at[i] \in Nat
      /\ m \in Nat
  BY TimesAscend
<1>2. /\ \A i, j \in 1..m : i < j => at[i] < at[j]
      /\ \A n \in T : \E i \in 1..m : at[i] = n
  BY DEF Stands
<1> HIDE DEF u, m
<1>3. \A k \in 1..m : Stamp(u[k]) # LeapDay
  BY <1>1 DEF RegularOn
<1>4. ASSUME NEW k \in 2..m PROVE u[k] - u[k - 1] < LogYear - RolloverBack
  <2> DEFINE j == k - 1
  <2>1. j \in 1..m /\ k \in 1..m /\ j < k /\ \A i \in 1..m : i <= j \/ k <= i
    BY <1>1
  <2> HIDE DEF j
  <2>2. at[j] < at[k] /\ at[j] \in T /\ at[k] \in T /\ at[j] \in Nat /\ at[k] \in Nat
    BY <2>1, <1>1, <1>2
  <2>3. ASSUME NEW n \in (at[j] + 1)..(at[k] - 1), n \in T PROVE FALSE
    <3>1. PICK i \in 1..m : at[i] = n
      BY <2>3, <1>2
    <3>2. at[j] < at[i] /\ at[i] < at[k] /\ at[i] \in Nat
      BY <3>1, <2>2
    <3>3. CASE i <= j
      <4>1. i = j \/ i < j
        BY <3>3, <2>1
      <4>2. at[i] <= at[j]
        BY <4>1, <1>2, <2>1, <2>2, <3>2
      <4> QED BY <4>2, <3>2, <2>2
    <3>4. CASE k <= i
      <4>1. i = k \/ k < i
        BY <3>4, <2>1
      <4>2. at[k] <= at[i]
        BY <4>1, <1>2, <2>1, <2>2, <3>2
      <4> QED BY <4>2, <3>2, <2>2
    <3> QED BY <3>3, <3>4, <2>1
  <2>4. lines[at[k]].time - lines[at[j]].time < LogYear - RolloverBack
    BY <2>2, <2>3 DEF RegularOn
  <2> QED BY <2>1, <2>4, <1>1 DEF j
<1>5. Regular(u, m)
  BY <1>1, <1>3, <1>4 DEF Regular
<1> QED BY <1>5 DEF u, m

\* The log is judged by how dense its flaps truly are.
LEMMA FlapsAre ==
    ASSUME NEW lines, LogOk(lines)
    PROVE  FlapsTold(lines)
<1>1. ASSUME NEW port \in {"a", "b"}, RegularOn(lines, TimedOf(lines, port))
      PROVE  port \in Flapping(lines) <=>
                IF Cardinality(TimedOf(lines, port)) >= FlapThreshold
                THEN DenseOn(lines, TimedOf(lines, port))
                ELSE Cardinality(LinesOf(lines, port)) >= FlapThreshold
  <2> DEFINE T == TimedOf(lines, port)
             O == LinesOf(lines, port)
             ts == TimedRows(lines, port)
             of == PortLines(lines, port)
  <2>1. lines \in Seq(LogRows)
    BY DEF LogOk
  <2>2. Len(of) = Cardinality(O) /\ IsFiniteSet(O)
    BY <2>1, TimedStand
  <2>3. PICK at : Stands(at, lines, ts, T)
    BY <2>1, TimedStand
  <2>4. Len(ts) = Cardinality(T) /\ Len(ts) \in Nat /\ ts \in Seq(LogRows)
    BY <2>3 DEF Stands
  <2>5. T \subseteq O
    BY DEF TimedOf
  <2>6. port \in Flapping(lines) <=>
          /\ Len(of) >= FlapThreshold
          /\ Len(ts) >= FlapThreshold =>
                MaxInWindow([n \in DOMAIN ts |-> Stamp(ts[n].time)]) >= FlapThreshold
    BY DEF Flapping, IsFlapping, PortLines, TimedRows
  <2>7. RegularOn(lines, T)
    BY <1>1
  <2> HIDE DEF T, O, ts, of
  <2>8. Cardinality(T) <= Cardinality(O) /\ Cardinality(O) \in Nat
    BY <2>2, <2>5, FS_Subset, FS_CardinalityType
  <2>9. CASE Cardinality(T) >= FlapThreshold
    <3>1. Regular(TimesOf(ts), Len(ts))
      BY <2>3, <2>7, TimesAreRegular
    <3>2. Len(ts) > 0
      BY <2>4, <2>9 DEF FlapThreshold
    <3>3. MaxInWindow([n \in 1..Len(ts) |-> Stamp(TimesOf(ts)[n])]) >= FlapThreshold
            <=> CloseBy(TimesOf(ts), Len(ts))
      BY <3>1, <3>2, <2>4, PrintedWindowIs
    <3>4. [n \in 1..Len(ts) |-> Stamp(TimesOf(ts)[n])] = [n \in DOMAIN ts |-> Stamp(ts[n].time)]
      <4>1. DOMAIN ts = 1..Len(ts) /\ \A n \in 1..Len(ts) : TimesOf(ts)[n] = ts[n].time
        BY <2>4 DEF TimesOf
      <4> QED BY <4>1
    <3>5. MaxInWindow([n \in DOMAIN ts |-> Stamp(ts[n].time)]) >= FlapThreshold <=> DenseOn(lines, T)
      BY <3>3, <3>4, <2>3, DenseIs
    <3>6. Len(of) >= FlapThreshold /\ Len(ts) >= FlapThreshold
      BY <2>2, <2>4, <2>8, <2>9 DEF FlapThreshold
    <3>7. port \in Flapping(lines) <=> DenseOn(lines, T)
      BY <3>5, <3>6, <2>6
    <3> QED BY <3>7, <2>9 DEF T
  <2>10. CASE ~(Cardinality(T) >= FlapThreshold)
    <3>1. port \in Flapping(lines) <=> Cardinality(O) >= FlapThreshold
      BY <2>2, <2>4, <2>6, <2>10
    <3> QED BY <3>1, <2>10 DEF T, O
  <2> QED BY <2>9, <2>10
<1> QED BY <1>1 DEF FlapsTold

\* A question about the log has a log in the order of time.
LEMMA LogIsOk ==
    ASSUME AskLog
    PROVE  /\ question'.of = "log" /\ LogOk(question'.lines)
           /\ question'.others \in SUBSET {"looping", "error"}
<1>1. PICK times \in LogTimes, kinds \in [1..MaxLen["log"] -> LogLines],
           others \in SUBSET {"looping", "error"} :
        question' = [of |-> "log", others |-> others,
                     lines |-> [n \in 1..MaxLen["log"] |-> [line |-> kinds[n], time |-> times[n]]]]
  BY DEF AskLog
<1> DEFINE N == MaxLen["log"]
           lines == [n \in 1..N |-> [line |-> kinds[n], time |-> times[n]]]
<1>2. N \in Nat
  BY QuestionsAssumption DEF ListQuestions
<1>3. /\ times \in [1..N -> 8..(11 + 6 * (N - 1))]
      /\ \A n \in 1..N : n # 1 => times[n] - times[n - 1] \in Gaps
  BY DEF LogTimes
<1> HIDE DEF N
<1>4. \A n \in 1..N : times[n] \in Nat
  BY <1>2, <1>3
<1>5. \A i, j \in 1..N : i <= j => times[i] <= times[j]
  <2> DEFINE S == {k \in 0..N : \A i, j \in 1..k : i <= j => times[i] <= times[j]}
  <2>1. 0 \in S
    BY <1>2
  <2>2. ASSUME NEW k \in 0..(N - 1), k \in S PROVE k + 1 \in S
    <3>1. k + 1 \in 1..N /\ (k + 1) - 1 = k /\ k \in Nat
      BY <1>2
    <3>2. ASSUME NEW i \in 1..k PROVE times[i] <= times[k + 1]
      <4>1. k \in 1..N /\ k + 1 # 1 /\ i \in 1..N
        BY <3>1, <1>2
      <4>2. times[k + 1] - times[k] \in Gaps
        BY <3>1, <4>1, <1>3
      <4>3. times[i] <= times[k]
        BY <2>2, <3>1
      <4>4. times[i] \in Nat /\ times[k] \in Nat /\ times[k + 1] \in Nat
        BY <4>1, <3>1, <1>4
      <4> QED BY <4>2, <4>3, <4>4 DEF Gaps
    <3>3. times[k + 1] <= times[k + 1]
      BY <3>1, <1>4
    <3>4. \A i, j \in 1..k : i <= j => times[i] <= times[j]
      BY <2>2
    <3>5. \A i, j \in 1..(k + 1) :
             i <= j => (i \in 1..k /\ j \in 1..k) \/ (j = k + 1 /\ i \in 1..(k + 1))
      BY <3>1
    <3>6. \A i \in 1..(k + 1) : i \in 1..k \/ i = k + 1
      BY <3>1
    <3> QED BY <3>1, <3>2, <3>3, <3>4, <3>5, <3>6
  <2> HIDE DEF S
  <2>3. 0..N \subseteq S
    BY <1>2, <2>1, <2>2, UpToInSet
  <2>4. N \in S
    BY <2>3, <1>2
  <2> QED BY <2>4 DEF S
<1>6. \A n \in 1..N : lines[n].time = times[n] /\ lines[n] \in LogRows
  <2> TAKE n \in 1..N
  <2>1. kinds[n] \in LogLines
    BY <1>1 DEF N
  <2>2. lines[n] = [line |-> kinds[n], time |-> times[n]]
    OBVIOUS
  <2> QED BY <2>1, <2>2, <1>4 DEF LogRows
<1>7. lines \in [1..N -> LogRows] /\ DOMAIN lines = 1..N
  <2>1. lines = [n \in 1..N |-> lines[n]]
    OBVIOUS
  <2> HIDE DEF lines
  <2> QED BY <2>1, <1>6
<1> HIDE DEF lines
<1>8. lines \in Seq(LogRows)
  BY <1>2, <1>7
<1>9. LogOk(lines)
  BY <1>5, <1>6, <1>7, <1>8 DEF LogOk
<1> QED BY <1>1, <1>9 DEF lines, N

\* The flaps of a log are judged by their density in time.
LEMMA FlapsAnswer ==
    ASSUME AskLog
    PROVE  FlapsAreDense'
<1>1. LogOk(question'.lines)
  BY LogIsOk
<1>2. FlapsTold(question'.lines)
  BY <1>1, FlapsAre
<1> QED BY <1>2 DEF FlapsAreDense, FlapsTold, RegularOn, DenseOn, WithinWindow, TimedOf, LinesOf

\* The events of a log.
EventRows == [type : {"looping", "error", "flapping"}, port : {"x", "y", "a", "b"}]

\* The flapping ports, by the number of their lines.
LinesAbout(lines, port) == Cardinality({n \in DOMAIN lines : FlapOf(lines[n].line) = port})

\* The flapping ports in a list, the most frequent first.
FlapList(lines, list) ==
    /\ list \in [1..Cardinality(Flapping(lines)) -> Flapping(lines)]
    /\ \A m, n \in DOMAIN list :
          m < n => list[m] # list[n] /\ LinesAbout(lines, list[m]) >= LinesAbout(lines, list[n])

\* The flapping ports can be listed.
LEMMA FlapListExists ==
    ASSUME NEW lines \in Seq(LogRows)
    PROVE  \E list : FlapList(lines, list)
<1> DEFINE F == Flapping(lines)
           Sorted(list) == /\ list \in [1..Cardinality(F) -> F]
                           /\ \A m, n \in DOMAIN list :
                                m < n => list[m] # list[n] /\ LinesAbout(lines, list[m]) >= LinesAbout(lines, list[n])
<1>1. F \subseteq {"a", "b"}
  BY DEF Flapping
<1>2. \A port : LinesAbout(lines, port) \in Nat
  <2> TAKE port
  <2> DEFINE S == {n \in DOMAIN lines : FlapOf(lines[n].line) = port}
  <2>1. IsFiniteSet(DOMAIN lines) /\ S \in SUBSET (DOMAIN lines)
    <3>1. Len(lines) \in Nat /\ DOMAIN lines = 1..Len(lines)
      OBVIOUS
    <3> QED BY <3>1, FS_Interval
  <2>2. LinesAbout(lines, port) = Cardinality(S)
    BY DEF LinesAbout
  <2> HIDE DEF S
  <2> QED BY <2>1, <2>2, FS_Subset, FS_CardinalityType
<1> HIDE DEF F
<1>3. CASE F = {}
  <2>1. Cardinality(F) = 0
    BY <1>3, FS_EmptySet
  <2> DEFINE l == [n \in 1..0 |-> "a"]
  <2>2. Sorted(l)
    BY <1>3, <2>1
  <2> QED BY <2>2 DEF FlapList, F
<1>4. CASE \E p : F = {p}
  <2>1. PICK p : F = {p}
    BY <1>4
  <2>2. Cardinality(F) = 1
    BY <2>1, FS_Singleton
  <2> DEFINE l == [n \in 1..1 |-> p]
  <2>3. l \in [1..Cardinality(F) -> F] /\ DOMAIN l = 1..1
    BY <2>1, <2>2
  <2>4. \A m, n \in 1..1 : ~(m < n)
    OBVIOUS
  <2> HIDE DEF l
  <2>5. Sorted(l)
    BY <2>3, <2>4
  <2> QED BY <2>5 DEF FlapList, F
<1>5. CASE F = {"a", "b"}
  <2>1. Cardinality(F) = 2
    <3>1. ASSUME NEW x, NEW y, x # y PROVE Cardinality({x} \cup {y}) = 2
      <4> DEFINE X == {x}
      <4>1. Cardinality(X) = 1 /\ IsFiniteSet(X) /\ y \notin X
        BY <3>1, FS_Singleton
      <4> HIDE DEF X
      <4>2. Cardinality(X \cup {y}) = IF y \in X THEN Cardinality(X) ELSE Cardinality(X) + 1
        BY <4>1, FS_AddElement, Zenon
      <4>3. Cardinality(X \cup {y}) = 2
        BY <4>1, <4>2
      <4> QED BY <4>3 DEF X
    <3>2. Cardinality({"a"} \cup {"b"}) = 2
      BY <3>1
    <3>3. {"a"} \cup {"b"} = F
      BY <1>5
    <3> QED BY <3>2, <3>3
  <2>2. PICK p \in F, q \in F : p # q /\ LinesAbout(lines, p) >= LinesAbout(lines, q)
    <3>1. LinesAbout(lines, "a") >= LinesAbout(lines, "b") \/ LinesAbout(lines, "b") >= LinesAbout(lines, "a")
      BY <1>2
    <3> QED BY <3>1, <1>5
  <2> DEFINE l == [n \in 1..2 |-> IF n = 1 THEN p ELSE q]
  <2>3. l \in [1..Cardinality(F) -> F] /\ DOMAIN l = 1..2 /\ l[1] = p /\ l[2] = q
    BY <2>1
  <2>4. \A m, n \in 1..2 : m < n => m = 1 /\ n = 2
    OBVIOUS
  <2> HIDE DEF l
  <2>5. Sorted(l)
    BY <2>2, <2>3, <2>4
  <2> QED BY <2>5 DEF FlapList, F
<1>6. F = {} \/ (\E p : F = {p}) \/ F = {"a", "b"}
  BY <1>1
<1> QED BY <1>3, <1>4, <1>5, <1>6

\* What the events of a log are.
EventsOk(lines, others, events) ==
    /\ events \in Seq(EventRows)
    /\ "looping" \in others => 1 \in DOMAIN events /\ events[1] = [type |-> "looping", port |-> "x"]
    /\ \A e \in ToSet(events) : e.type = "flapping" => e.port \in Flapping(lines)
    /\ Flapping(lines) # {} => \E e \in ToSet(events) : e.type = "flapping"

\* The events are those that the alarm is told of.
LEMMA EventsAre ==
    ASSUME NEW lines \in Seq(LogRows), NEW others
    PROVE  EventsOk(lines, others, LogEvents(lines, others))
<1> DEFINE F == Flapping(lines)
           flaps == CHOOSE list \in [1..Cardinality(F) -> F] :
                      \A m, n \in DOMAIN list :
                        m < n => list[m] # list[n] /\ LinesAbout(lines, list[m]) >= LinesAbout(lines, list[n])
           one == IF "looping" \in others THEN <<[type |-> "looping", port |-> "x"]>> ELSE <<>>
           two == IF "error" \in others THEN <<[type |-> "error", port |-> "y"]>> ELSE <<>>
           three == [n \in DOMAIN flaps |-> [type |-> "flapping", port |-> flaps[n]]]
<1>1. flaps \in [1..Cardinality(F) -> F]
  <2>1. PICK l : FlapList(lines, l)
    BY FlapListExists
  <2>2. \E list \in [1..Cardinality(F) -> F] :
           \A m, n \in DOMAIN list :
              m < n => list[m] # list[n] /\ LinesAbout(lines, list[m]) >= LinesAbout(lines, list[n])
    BY <2>1 DEF FlapList
  <2> QED BY <2>2
<1>2. LogEvents(lines, others) = one \o two \o three
  BY DEF LogEvents, LinesAbout
<1>3. F \subseteq {"a", "b"} /\ IsFiniteSet(F)
  <2>1. F \subseteq {"a", "b"}
    BY DEF Flapping
  <2>2. IsFiniteSet({"a"} \cup {"b"})
    BY FS_Singleton, FS_AddElement
  <2>3. F \in SUBSET ({"a"} \cup {"b"})
    BY <2>1
  <2> HIDE DEF F
  <2> QED BY <2>1, <2>2, <2>3, FS_Subset
<1>4. Cardinality(F) \in Nat /\ (F # {} => Cardinality(F) > 0)
  <2> HIDE DEF F
  <2> QED BY <1>3, FS_CardinalityType, FS_EmptySet
<1> HIDE DEF F, flaps
<1>5. /\ three \in Seq(EventRows)
      /\ \A e \in ToSet(three) : e.type = "flapping" /\ e.port \in F
      /\ F # {} => \E e \in ToSet(three) : e.type = "flapping"
  <2> DEFINE c == Cardinality(F)
  <2>1. DOMAIN flaps = 1..c /\ c \in Nat /\ \A n \in 1..c : flaps[n] \in F
    BY <1>1, <1>4
  <2>2. \A n \in 1..c : three[n] = [type |-> "flapping", port |-> flaps[n]] /\ three[n] \in EventRows
    BY <2>1, <1>3 DEF EventRows
  <2>3. three \in [1..c -> EventRows] /\ DOMAIN three = 1..c
    <3>1. three = [n \in 1..c |-> three[n]]
      BY <2>1
    <3> HIDE DEF three
    <3> QED BY <3>1, <2>2
  <2> HIDE DEF three, c
  <2>4. three \in Seq(EventRows)
    BY <2>1, <2>3
  <2>5. \A e \in ToSet(three) : e.type = "flapping" /\ e.port \in F
    BY <2>1, <2>2, <2>3 DEF ToSet
  <2>6. ASSUME F # {} PROVE \E e \in ToSet(three) : e.type = "flapping"
    <3>1. 1 \in 1..c
      BY <2>6, <1>4, <2>1 DEF c
    <3> QED BY <3>1, <2>2, <2>3 DEF ToSet
  <2> QED BY <2>4, <2>5, <2>6
<1>6. /\ one \in Seq(EventRows)
      /\ "looping" \in others => 1 \in DOMAIN one /\ one[1] = [type |-> "looping", port |-> "x"]
      /\ \A e \in ToSet(one) : e.type # "flapping"
  <2> DEFINE x == [type |-> "looping", port |-> "x"]
  <2>1. x \in EventRows /\ x.type # "flapping"
    BY DEF EventRows
  <2>2. (one = <<x>> /\ "looping" \in others) \/ (one = <<>> /\ "looping" \notin others)
    OBVIOUS
  <2> HIDE DEF x, one
  <2>3. <<x>> \in Seq(EventRows) /\ <<>> \in Seq(EventRows) /\ 1 \in DOMAIN <<x>> /\ <<x>>[1] = x
        /\ ToSet(<<x>>) = {x} /\ ToSet(<<>>) = {}
    BY <2>1 DEF ToSet
  <2> QED BY <2>1, <2>2, <2>3 DEF x
<1>7. two \in Seq(EventRows) /\ \A e \in ToSet(two) : e.type # "flapping"
  <2> DEFINE x == [type |-> "error", port |-> "y"]
  <2>1. x \in EventRows /\ x.type # "flapping"
    BY DEF EventRows
  <2>2. two = <<x>> \/ two = <<>>
    OBVIOUS
  <2> HIDE DEF x, two
  <2>3. <<x>> \in Seq(EventRows) /\ <<>> \in Seq(EventRows)
        /\ ToSet(<<x>>) = {x} /\ ToSet(<<>>) = {}
    BY <2>1 DEF ToSet
  <2> QED BY <2>1, <2>2, <2>3
<1> HIDE DEF one, two, three
<1>8. one \o two \in Seq(EventRows) /\ Joined(one, two, one \o two)
  BY <1>6, <1>7, JoinIs
<1> DEFINE both == one \o two
           all == both \o three
<1>9. /\ \A e \in ToSet(both) : e.type # "flapping"
      /\ "looping" \in others => 1 \in DOMAIN both /\ both[1] = [type |-> "looping", port |-> "x"]
  BY <1>6, <1>7, <1>8 DEF Joined
<1>10. both \in Seq(EventRows)
  BY <1>8
<1> HIDE DEF both
<1>11. all \in Seq(EventRows) /\ Joined(both, three, all)
  BY <1>5, <1>10, JoinIs
<1>12. LogEvents(lines, others) = all
  BY <1>2 DEF both
<1> HIDE DEF all
<1>13. EventsOk(lines, others, all)
  BY <1>5, <1>9, <1>11 DEF EventsOk, Joined, F
<1> QED BY <1>12, <1>13

\* The ports that an alarm names: the first of the events of its kind.
LEMMA PortsAre ==
    ASSUME NEW events \in Seq(EventRows), NEW kind \in {"flapping", "looping"},
           NEW set, set = {e \in ToSet(events) : IF kind = "flapping" THEN e.type = "flapping"
                                                ELSE e.type \in {"looping", "error"}}
    PROVE  /\ ToSet(EventPorts(events, kind)) \subseteq {e.port : e \in set}
           /\ set # {} => ToSet(EventPorts(events, kind)) # {}
           /\ 1 \in DOMAIN events /\ events[1] \in set => events[1].port \in ToSet(EventPorts(events, kind))
<1> DEFINE of == Filtered(events, set)
           c == Min({PortsNamed, Len(of)})
           ports == EventPorts(events, kind)
<1>1. ports = [n \in 1..c |-> of[n].port]
  BY DEF EventPorts
<1>2. of \in Seq(EventRows) /\ \E at : Selection(at, events, Len(events), of, set)
  BY FilterSelects
<1>3. ToSet(of) = set
  <2>1. ToSet(of) = ToSet(events) \cap set
    BY FilterSet
  <2> HIDE DEF of
  <2> QED BY <2>1
<1> HIDE DEF of
<1>4. Len(of) \in Nat /\ DOMAIN of = 1..Len(of)
  BY <1>2
<1>5. c \in {0, 1} /\ c <= Len(of) /\ (Len(of) > 0 => c = 1)
  <2>1. {PortsNamed, Len(of)} \subseteq Nat /\ {PortsNamed, Len(of)} # {}
    BY <1>4 DEF PortsNamed
  <2>2. c \in {PortsNamed, Len(of)} /\ \A m \in {PortsNamed, Len(of)} : c <= m
    BY <2>1, MinOfBounded
  <2> HIDE DEF c
  <2>3. (c = 1 \/ c = Len(of)) /\ c <= 1 /\ c <= Len(of)
    BY <2>2 DEF PortsNamed
  <2> QED BY <2>3, <1>4
<1> HIDE DEF c, ports
<1>6. ToSet(ports) \subseteq {e.port : e \in set}
  <2>1. \A n \in 1..c : n \in DOMAIN of /\ of[n] \in set
    BY <1>3, <1>4, <1>5 DEF ToSet
  <2> QED BY <2>1, <1>1 DEF ToSet
<1>7. ASSUME Len(of) > 0 PROVE of[1].port \in ToSet(ports)
  <2>1. 1 \in 1..c
    BY <1>5, <1>7
  <2> QED BY <2>1, <1>1 DEF ToSet
<1>8. set # {} => Len(of) > 0
  BY <1>3, <1>4 DEF ToSet
<1>9. ASSUME 1 \in DOMAIN events, events[1] \in set PROVE events[1].port \in ToSet(ports)
  <2>1. PICK at : Selection(at, events, Len(events), of, set)
    BY <1>2
  <2>2. /\ at \in [1..Len(of) -> 1..Len(events)]
        /\ \A i, j \in 1..Len(of) : i < j => at[i] < at[j]
        /\ \A i \in 1..Len(of) : of[i] = events[at[i]]
        /\ \A m \in 1..Len(events) : events[m] \in set => \E i \in 1..Len(of) : at[i] = m
    BY <2>1 DEF Selection
  <2>3. 1 \in 1..Len(events)
    BY <1>9
  <2>4. PICK i \in 1..Len(of) : at[i] = 1
    BY <2>2, <2>3, <1>9
  <2>5. 1 \in 1..Len(of) /\ Len(of) > 0 /\ (i = 1 \/ 1 < i)
    BY <1>4
  <2>6. i = 1
    <3>1. at[1] \in 1..Len(events) /\ (1 < i => at[1] < at[i])
      BY <2>2, <2>5
    <3> QED BY <3>1, <2>4, <2>5
  <2>7. of[1] = events[1]
    BY <2>2, <2>4, <2>5, <2>6
  <2> QED BY <2>5, <2>7, <1>7
<1> QED BY <1>6, <1>7, <1>8, <1>9 DEF ports

\* An alarm names the ports that it is about.
LEMMA AlarmAnswer ==
    ASSUME AskLog
    PROVE  AlarmNamesItsPorts'
<1> DEFINE lines == question'.lines
           others == question'.others
           events == LogEvents(lines, others)
           alarm == LogAlarm(lines, others)
           F == Flapping(lines)
<1>1. LogOk(lines) /\ lines \in Seq(LogRows)
  BY LogIsOk DEF LogOk
<1>2. EventsOk(lines, others, events)
  BY <1>1, EventsAre
<1>3. alarm = [kind |-> IF "looping" \in others THEN "looping" ELSE "flapping",
               ports |-> ToSet(EventPorts(events, IF "looping" \in others THEN "looping" ELSE "flapping"))]
  <2>1. (LogAlert(lines, others) = "critical") <=> "looping" \in others
    BY DEF LogAlert
  <2> QED BY <2>1 DEF LogAlarm
<1> HIDE DEF events, alarm, lines, others, F
<1>4. /\ events \in Seq(EventRows)
      /\ "looping" \in others => 1 \in DOMAIN events /\ events[1] = [type |-> "looping", port |-> "x"]
      /\ \A e \in ToSet(events) : e.type = "flapping" => e.port \in F
      /\ F # {} => \E e \in ToSet(events) : e.type = "flapping"
  BY <1>2 DEF EventsOk, F
<1>5. ASSUME alarm.kind = "flapping" PROVE alarm.ports \subseteq F /\ (F # {} => alarm.ports # {})
  <2> DEFINE set == {e \in ToSet(events) : IF "flapping" = "flapping" THEN e.type = "flapping"
                                           ELSE e.type \in {"looping", "error"}}
             ports == ToSet(EventPorts(events, "flapping"))
  <2>1. alarm.ports = ports
    BY <1>3, <1>5
  <2>2. ports \subseteq {e.port : e \in set} /\ (set # {} => ports # {})
    BY <1>4, PortsAre
  <2>3. \A e \in set : e.port \in F
    BY <1>4
  <2>4. F # {} => set # {}
    BY <1>4
  <2> HIDE DEF set, ports
  <2> QED BY <2>1, <2>2, <2>3, <2>4
<1>6. ASSUME alarm.kind = "looping" PROVE "x" \in alarm.ports
  <2> DEFINE set == {e \in ToSet(events) : IF "looping" = "flapping" THEN e.type = "flapping"
                                           ELSE e.type \in {"looping", "error"}}
             ports == ToSet(EventPorts(events, "looping"))
  <2>1. alarm.ports = ports /\ "looping" \in others
    BY <1>3, <1>6
  <2>2. 1 \in DOMAIN events /\ events[1] \in set => events[1].port \in ports
    BY <1>4, PortsAre
  <2>3. 1 \in DOMAIN events /\ events[1] = [type |-> "looping", port |-> "x"]
    BY <2>1, <1>4
  <2>4. events[1] \in set
    BY <2>3 DEF ToSet
  <2> HIDE DEF set, ports
  <2>5. events[1].port \in ports
    BY <2>2, <2>3, <2>4
  <2>6. events[1].port = "x"
    BY <2>3
  <2> QED BY <2>1, <2>5, <2>6
<1> QED BY <1>5, <1>6 DEF AlarmNamesItsPorts, alarm, lines, others, F

-----------------------------------------------------------------------------
(* Each function is judged by the question that was put to it alone, and   *)
(* what is right stays right while no other question is put.               *)

\* A function that is not asked has given no wrong answer.
LEMMA NotAsked ==
    /\ ~Asked("link") => LinksAreWitnessed
    /\ ~Asked("depth") => DepthIsDistance
    /\ ~Asked("firewall") => FirewallIsLinkedOnce
    /\ ~Asked("bands") => BandsBelongToInterfaces
    /\ ~Asked("kind") => KindsAgree
    /\ ~Asked("zone") => ZoneIsBetweenSiteAndType
    /\ ~Asked("autolink") => AutolinkTellsWhatRowsTell
    /\ ~Asked("port") => LinePortIsPhysical
    /\ ~Asked("suggest") => BandsHaveOneSource
    /\ ~Asked("attachment") => UplinkIsNeverDirect
    /\ ~Asked("history") => HistoriesPreferAccess
    /\ ~Asked("wallHosts") => CardsMatchTheirLists
    /\ ~Asked("wallHosts") => LineAndFilterAgree
    /\ ~Asked("timeline") => TimelineIsTheLastEvent
    /\ ~Asked("wallFirewalls") => PairsFailTogether
    /\ ~Asked("sheet") => RowsAreImportedOnce
    /\ ~Asked("sheet") => ReadersAgree
    /\ ~Asked("specs") => KnownSpecsSurvive
    /\ ~Asked("ledger") => LedgerKeepsTheLastWord
    /\ ~Asked("rack sheet") => EveryDeviceIsOnTheSheet
    /\ ~Asked("rack sheet") => CellsAreApart
    /\ ~Asked("detect") => VendorFollowsTheBands
    /\ ~Asked("vrf") => BandIsPingedWhereItIs
    /\ ~Asked("log") => FlapsAreDense
    /\ ~Asked("log") => AlarmNamesItsPorts
<1>1. ~Asked("link") => LinksAreWitnessed
  BY DEF LinksAreWitnessed
<1>2. ~Asked("depth") => DepthIsDistance
  BY DEF DepthIsDistance
<1>3. ~Asked("firewall") => FirewallIsLinkedOnce
  BY DEF FirewallIsLinkedOnce
<1>4. ~Asked("bands") => BandsBelongToInterfaces
  BY DEF BandsBelongToInterfaces
<1>5. ~Asked("kind") => KindsAgree
  BY DEF KindsAgree
<1>6. ~Asked("zone") => ZoneIsBetweenSiteAndType
  BY DEF ZoneIsBetweenSiteAndType
<1>7. ~Asked("autolink") => AutolinkTellsWhatRowsTell
  BY DEF AutolinkTellsWhatRowsTell
<1>8. ~Asked("port") => LinePortIsPhysical
  BY DEF LinePortIsPhysical
<1>9. ~Asked("suggest") => BandsHaveOneSource
  BY DEF BandsHaveOneSource
<1>10. ~Asked("attachment") => UplinkIsNeverDirect
  BY DEF UplinkIsNeverDirect
<1>11. ~Asked("history") => HistoriesPreferAccess
  BY DEF HistoriesPreferAccess
<1>12. ~Asked("wallHosts") => CardsMatchTheirLists
  BY DEF CardsMatchTheirLists
<1>13. ~Asked("wallHosts") => LineAndFilterAgree
  BY DEF LineAndFilterAgree
<1>14. ~Asked("timeline") => TimelineIsTheLastEvent
  BY DEF TimelineIsTheLastEvent
<1>15. ~Asked("wallFirewalls") => PairsFailTogether
  BY DEF PairsFailTogether
<1>16. ~Asked("sheet") => RowsAreImportedOnce
  BY DEF RowsAreImportedOnce
<1>17. ~Asked("sheet") => ReadersAgree
  BY DEF ReadersAgree
<1>18. ~Asked("specs") => KnownSpecsSurvive
  BY DEF KnownSpecsSurvive
<1>19. ~Asked("ledger") => LedgerKeepsTheLastWord
  BY DEF LedgerKeepsTheLastWord
<1>20. ~Asked("rack sheet") => EveryDeviceIsOnTheSheet
  BY DEF EveryDeviceIsOnTheSheet
<1>21. ~Asked("rack sheet") => CellsAreApart
  BY DEF CellsAreApart
<1>22. ~Asked("detect") => VendorFollowsTheBands
  BY DEF VendorFollowsTheBands
<1>23. ~Asked("vrf") => BandIsPingedWhereItIs
  BY DEF BandIsPingedWhereItIs
<1>24. ~Asked("log") => FlapsAreDense
  BY DEF FlapsAreDense
<1>25. ~Asked("log") => AlarmNamesItsPorts
  BY DEF AlarmNamesItsPorts
<1> QED
  BY ONLY <1>1, <1>2, <1>3, <1>4, <1>5, <1>6, <1>7, <1>8, <1>9, <1>10, <1>11, <1>12,
     <1>13, <1>14, <1>15, <1>16, <1>17, <1>18, <1>19, <1>20, <1>21, <1>22, <1>23,
     <1>24, <1>25

\* Nor does it give one in a step that does not ask it.
LEMMA NotAskedNext ==
    /\ ~Asked("link")' => LinksAreWitnessed'
    /\ ~Asked("depth")' => DepthIsDistance'
    /\ ~Asked("firewall")' => FirewallIsLinkedOnce'
    /\ ~Asked("bands")' => BandsBelongToInterfaces'
    /\ ~Asked("kind")' => KindsAgree'
    /\ ~Asked("zone")' => ZoneIsBetweenSiteAndType'
    /\ ~Asked("autolink")' => AutolinkTellsWhatRowsTell'
    /\ ~Asked("port")' => LinePortIsPhysical'
    /\ ~Asked("suggest")' => BandsHaveOneSource'
    /\ ~Asked("attachment")' => UplinkIsNeverDirect'
    /\ ~Asked("history")' => HistoriesPreferAccess'
    /\ ~Asked("wallHosts")' => CardsMatchTheirLists'
    /\ ~Asked("wallHosts")' => LineAndFilterAgree'
    /\ ~Asked("timeline")' => TimelineIsTheLastEvent'
    /\ ~Asked("wallFirewalls")' => PairsFailTogether'
    /\ ~Asked("sheet")' => RowsAreImportedOnce'
    /\ ~Asked("sheet")' => ReadersAgree'
    /\ ~Asked("specs")' => KnownSpecsSurvive'
    /\ ~Asked("ledger")' => LedgerKeepsTheLastWord'
    /\ ~Asked("rack sheet")' => EveryDeviceIsOnTheSheet'
    /\ ~Asked("rack sheet")' => CellsAreApart'
    /\ ~Asked("detect")' => VendorFollowsTheBands'
    /\ ~Asked("vrf")' => BandIsPingedWhereItIs'
    /\ ~Asked("log")' => FlapsAreDense'
    /\ ~Asked("log")' => AlarmNamesItsPorts'
<1>1. ~Asked("link")' => LinksAreWitnessed'
  BY DEF LinksAreWitnessed
<1>2. ~Asked("depth")' => DepthIsDistance'
  BY DEF DepthIsDistance
<1>3. ~Asked("firewall")' => FirewallIsLinkedOnce'
  BY DEF FirewallIsLinkedOnce
<1>4. ~Asked("bands")' => BandsBelongToInterfaces'
  BY DEF BandsBelongToInterfaces
<1>5. ~Asked("kind")' => KindsAgree'
  BY DEF KindsAgree
<1>6. ~Asked("zone")' => ZoneIsBetweenSiteAndType'
  BY DEF ZoneIsBetweenSiteAndType
<1>7. ~Asked("autolink")' => AutolinkTellsWhatRowsTell'
  BY DEF AutolinkTellsWhatRowsTell
<1>8. ~Asked("port")' => LinePortIsPhysical'
  BY DEF LinePortIsPhysical
<1>9. ~Asked("suggest")' => BandsHaveOneSource'
  BY DEF BandsHaveOneSource
<1>10. ~Asked("attachment")' => UplinkIsNeverDirect'
  BY DEF UplinkIsNeverDirect
<1>11. ~Asked("history")' => HistoriesPreferAccess'
  BY DEF HistoriesPreferAccess
<1>12. ~Asked("wallHosts")' => CardsMatchTheirLists'
  BY DEF CardsMatchTheirLists
<1>13. ~Asked("wallHosts")' => LineAndFilterAgree'
  BY DEF LineAndFilterAgree
<1>14. ~Asked("timeline")' => TimelineIsTheLastEvent'
  BY DEF TimelineIsTheLastEvent
<1>15. ~Asked("wallFirewalls")' => PairsFailTogether'
  BY DEF PairsFailTogether
<1>16. ~Asked("sheet")' => RowsAreImportedOnce'
  BY DEF RowsAreImportedOnce
<1>17. ~Asked("sheet")' => ReadersAgree'
  BY DEF ReadersAgree
<1>18. ~Asked("specs")' => KnownSpecsSurvive'
  BY DEF KnownSpecsSurvive
<1>19. ~Asked("ledger")' => LedgerKeepsTheLastWord'
  BY DEF LedgerKeepsTheLastWord
<1>20. ~Asked("rack sheet")' => EveryDeviceIsOnTheSheet'
  BY DEF EveryDeviceIsOnTheSheet
<1>21. ~Asked("rack sheet")' => CellsAreApart'
  BY DEF CellsAreApart
<1>22. ~Asked("detect")' => VendorFollowsTheBands'
  BY DEF VendorFollowsTheBands
<1>23. ~Asked("vrf")' => BandIsPingedWhereItIs'
  BY DEF BandIsPingedWhereItIs
<1>24. ~Asked("log")' => FlapsAreDense'
  BY DEF FlapsAreDense
<1>25. ~Asked("log")' => AlarmNamesItsPorts'
  BY DEF AlarmNamesItsPorts
<1> QED
  BY ONLY <1>1, <1>2, <1>3, <1>4, <1>5, <1>6, <1>7, <1>8, <1>9, <1>10, <1>11, <1>12,
     <1>13, <1>14, <1>15, <1>16, <1>17, <1>18, <1>19, <1>20, <1>21, <1>22, <1>23,
     <1>24, <1>25

\* The log of a question, in terms of the lemmas about it.
LEMMA FlapsInTerms ==
    /\ FlapsAreDense <=> (Asked("log") => FlapsTold(question.lines))
    /\ FlapsAreDense' <=> (Asked("log")' => FlapsTold(question'.lines))
<1>1. FlapsAreDense <=> (Asked("log") => FlapsTold(question.lines))
  BY DEF FlapsAreDense, FlapsTold, RegularOn, DenseOn, WithinWindow, TimedOf, LinesOf
<1>2. FlapsAreDense' <=> (Asked("log")' => FlapsTold(question'.lines))
  BY DEF FlapsAreDense, FlapsTold, RegularOn, DenseOn, WithinWindow, TimedOf, LinesOf
<1> QED
  BY <1>1, <1>2

\* An answer stays as it is while its question does.
LEMMA SameAnswers ==
    ASSUME question' = question
    PROVE  /\ LinksAreWitnessed => LinksAreWitnessed'
           /\ DepthIsDistance => DepthIsDistance'
           /\ FirewallIsLinkedOnce => FirewallIsLinkedOnce'
           /\ BandsBelongToInterfaces => BandsBelongToInterfaces'
           /\ KindsAgree => KindsAgree'
           /\ ZoneIsBetweenSiteAndType => ZoneIsBetweenSiteAndType'
           /\ AutolinkTellsWhatRowsTell => AutolinkTellsWhatRowsTell'
           /\ LinePortIsPhysical => LinePortIsPhysical'
           /\ BandsHaveOneSource => BandsHaveOneSource'
           /\ UplinkIsNeverDirect => UplinkIsNeverDirect'
           /\ HistoriesPreferAccess => HistoriesPreferAccess'
           /\ CardsMatchTheirLists => CardsMatchTheirLists'
           /\ LineAndFilterAgree => LineAndFilterAgree'
           /\ TimelineIsTheLastEvent => TimelineIsTheLastEvent'
           /\ PairsFailTogether => PairsFailTogether'
           /\ RowsAreImportedOnce => RowsAreImportedOnce'
           /\ ReadersAgree => ReadersAgree'
           /\ KnownSpecsSurvive => KnownSpecsSurvive'
           /\ LedgerKeepsTheLastWord => LedgerKeepsTheLastWord'
           /\ EveryDeviceIsOnTheSheet => EveryDeviceIsOnTheSheet'
           /\ CellsAreApart => CellsAreApart'
           /\ VendorFollowsTheBands => VendorFollowsTheBands'
           /\ BandIsPingedWhereItIs => BandIsPingedWhereItIs'
           /\ FlapsAreDense => FlapsAreDense'
           /\ AlarmNamesItsPorts => AlarmNamesItsPorts'
<1>1. LinksAreWitnessed => LinksAreWitnessed'
  BY DEF LinksAreWitnessed, Asked
<1>2. DepthIsDistance => DepthIsDistance'
  BY DEF DepthIsDistance, Asked
<1>3. FirewallIsLinkedOnce => FirewallIsLinkedOnce'
  BY DEF FirewallIsLinkedOnce, Asked
<1>4. BandsBelongToInterfaces => BandsBelongToInterfaces'
  BY DEF BandsBelongToInterfaces, Asked
<1>5. KindsAgree => KindsAgree'
  BY DEF KindsAgree, Asked
<1>6. ZoneIsBetweenSiteAndType => ZoneIsBetweenSiteAndType'
  BY DEF ZoneIsBetweenSiteAndType, Asked
<1>7. AutolinkTellsWhatRowsTell => AutolinkTellsWhatRowsTell'
  BY DEF AutolinkTellsWhatRowsTell, Asked
<1>8. LinePortIsPhysical => LinePortIsPhysical'
  BY DEF LinePortIsPhysical, Asked
<1>9. BandsHaveOneSource => BandsHaveOneSource'
  BY DEF BandsHaveOneSource, Asked
<1>10. UplinkIsNeverDirect => UplinkIsNeverDirect'
  BY DEF UplinkIsNeverDirect, Asked
<1>11. HistoriesPreferAccess => HistoriesPreferAccess'
  BY DEF HistoriesPreferAccess, Asked
<1>12. CardsMatchTheirLists => CardsMatchTheirLists'
  BY DEF CardsMatchTheirLists, Asked
<1>13. LineAndFilterAgree => LineAndFilterAgree'
  BY DEF LineAndFilterAgree, Asked
<1>14. TimelineIsTheLastEvent => TimelineIsTheLastEvent'
  BY DEF TimelineIsTheLastEvent, Asked
<1>15. PairsFailTogether => PairsFailTogether'
  BY DEF PairsFailTogether, Asked
<1>16. RowsAreImportedOnce => RowsAreImportedOnce'
  BY DEF RowsAreImportedOnce, Asked
<1>17. ReadersAgree => ReadersAgree'
  BY DEF ReadersAgree, Asked
<1>18. KnownSpecsSurvive => KnownSpecsSurvive'
  BY DEF KnownSpecsSurvive, Asked
<1>19. LedgerKeepsTheLastWord => LedgerKeepsTheLastWord'
  BY DEF LedgerKeepsTheLastWord, Asked
<1>20. EveryDeviceIsOnTheSheet => EveryDeviceIsOnTheSheet'
  BY DEF EveryDeviceIsOnTheSheet, Asked
<1>21. CellsAreApart => CellsAreApart'
  BY DEF CellsAreApart, Asked
<1>22. VendorFollowsTheBands => VendorFollowsTheBands'
  BY DEF VendorFollowsTheBands, Asked
<1>23. BandIsPingedWhereItIs => BandIsPingedWhereItIs'
  BY DEF BandIsPingedWhereItIs, Asked
<1>24. FlapsAreDense => FlapsAreDense'
  BY FlapsInTerms DEF Asked
<1>25. AlarmNamesItsPorts => AlarmNamesItsPorts'
  BY DEF AlarmNamesItsPorts, Asked
<1> QED
  BY ONLY <1>1, <1>2, <1>3, <1>4, <1>5, <1>6, <1>7, <1>8, <1>9, <1>10, <1>11, <1>12,
     <1>13, <1>14, <1>15, <1>16, <1>17, <1>18, <1>19, <1>20, <1>21, <1>22, <1>23,
     <1>24, <1>25

\* A question is put to the function that it names.
LEMMA AskedByName ==
    /\ AskLink => question'.of = "link"
    /\ AskDepth => question'.of = "depth"
    /\ AskFirewall => question'.of = "firewall"
    /\ AskBands => question'.of = "bands"
    /\ AskKind => question'.of = "kind"
    /\ AskZone => question'.of = "zone"
    /\ AskAutolink => question'.of = "autolink"
    /\ AskPort => question'.of = "port"
    /\ AskSuggest => question'.of = "suggest"
    /\ AskAttachment => question'.of = "attachment"
    /\ AskHistory => question'.of = "history"
    /\ AskHosts => question'.of = "wallHosts"
    /\ AskTimeline => question'.of = "timeline"
    /\ AskFirewalls => question'.of = "wallFirewalls"
    /\ AskSheet => question'.of = "sheet"
    /\ AskSpecs => question'.of = "specs"
    /\ AskLedger => question'.of = "ledger"
    /\ AskDetection => question'.of = "detect"
    /\ AskVrf => question'.of = "vrf"
    /\ AskLog => question'.of = "log"
    /\ AskRackSheet => question'.of = "rack sheet"
<1>1. AskLink => question'.of = "link"
  BY DEF AskLink
<1>2. AskDepth => question'.of = "depth"
  BY DEF AskDepth
<1>3. AskFirewall => question'.of = "firewall"
  BY DEF AskFirewall
<1>4. AskBands => question'.of = "bands"
  BY DEF AskBands
<1>5. AskKind => question'.of = "kind"
  BY DEF AskKind
<1>6. AskZone => question'.of = "zone"
  BY DEF AskZone
<1>7. AskAutolink => question'.of = "autolink"
  BY DEF AskAutolink
<1>8. AskPort => question'.of = "port"
  BY DEF AskPort
<1>9. AskSuggest => question'.of = "suggest"
  BY DEF AskSuggest
<1>10. AskAttachment => question'.of = "attachment"
  BY DEF AskAttachment
<1>11. AskHistory => question'.of = "history"
  BY DEF AskHistory
<1>12. AskHosts => question'.of = "wallHosts"
  BY DEF AskHosts
<1>13. AskTimeline => question'.of = "timeline"
  BY DEF AskTimeline
<1>14. AskFirewalls => question'.of = "wallFirewalls"
  BY DEF AskFirewalls
<1>15. AskSheet => question'.of = "sheet"
  BY DEF AskSheet
<1>16. AskSpecs => question'.of = "specs"
  BY DEF AskSpecs
<1>17. AskLedger => question'.of = "ledger"
  BY DEF AskLedger
<1>18. AskDetection => question'.of = "detect"
  BY DEF AskDetection
<1>19. AskVrf => question'.of = "vrf"
  BY DEF AskVrf
<1>20. AskLog => question'.of = "log"
  BY DEF AskLog
<1>21. AskRackSheet => question'.of = "rack sheet"
  <2> SUFFICES ASSUME AskRackSheet PROVE question'.of = "rack sheet"
    OBVIOUS
  <2>1. PICK devices : question' = [of |-> "rack sheet", devices |-> devices]
    BY ONLY AskRackSheet DEF AskRackSheet
  <2> QED BY ONLY <2>1
<1> QED
  BY ONLY <1>1, <1>2, <1>3, <1>4, <1>5, <1>6, <1>7, <1>8, <1>9, <1>10, <1>11, <1>12,
     <1>13, <1>14, <1>15, <1>16, <1>17, <1>18, <1>19, <1>20, <1>21

=============================================================================
