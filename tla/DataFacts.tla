------------------------------ MODULE DataFacts -----------------------------
(***************************************************************************)
(* Facts about data that the proofs cite by name: induction over the       *)
(* numbers, over the size of a set and over sequences, what concatenation  *)
(* and segments of sequences hold at each place, what is chosen from one,  *)
(* and sums over finite sets.                                              *)
(***************************************************************************)
EXTENDS Selection, Integers, Sequences, SequencesExt, FiniteSets, FiniteSetsExt, FiniteSetTheorems, TLAPS

(* A set that has 0 and, with k, also k + 1 has every number.  A number it *)
(* lacks would let k |-> k + 1 map the numbers it has up to that one, one  *)
(* to one, into those but 0.                                               *)
LEMMA Induct ==
    ASSUME NEW S, 0 \in S, \A k \in S \cap Nat : k + 1 \in S
    PROVE  Nat \subseteq S
<1> SUFFICES ASSUME NEW m \in Nat, m \notin S PROVE FALSE
  OBVIOUS
<1> DEFINE T == S \cap (0..m)
           f == [k \in T |-> k + 1]
<1>1. IsFiniteSet(T)
  <2>1. IsFiniteSet(0..m)
    BY FS_Interval
  <2> QED
    BY <2>1, FS_Subset
<1>2. IsFiniteSet(T \ {0}) /\ Cardinality(T \ {0}) < Cardinality(T)
  <2>1. 0 \in T
    OBVIOUS
  <2> HIDE DEF T
  <2>2. IsFiniteSet(T \ {0}) /\ Cardinality(T \ {0}) = Cardinality(T) - 1 /\ Cardinality(T) \in Nat
    BY <1>1, <2>1, FS_RemoveElement, FS_CardinalityType
  <2> QED
    BY <2>2
<1>3. f \in [T -> T \ {0}]
  OBVIOUS
<1>4. \A x \in T : x \in Int
  OBVIOUS
<1> HIDE DEF T
<1>5. PICK x, y \in T : x # y /\ f[x] = f[y]
  <2> HIDE DEF f
  <2> QED
    BY <1>1, <1>2, <1>3, FS_PigeonHole
<1>6. f[x] = x + 1 /\ f[y] = y + 1
  OBVIOUS
<1> QED
  BY <1>4, <1>5, <1>6

-----------------------------------------------------------------------------
(* What a sequence holds.                                                  *)
LEMMA Elements ==
    ASSUME NEW S, NEW s \in Seq(S)
    PROVE  DOMAIN s = 1..Len(s) /\ \A i \in 1..Len(s) : s[i] \in S
  OBVIOUS

(* What a concatenation holds at each place.                               *)
LEMMA Cat ==
    ASSUME NEW S, NEW s \in Seq(S), NEW t \in Seq(S)
    PROVE  /\ Len(s) \in Nat /\ Len(t) \in Nat
           /\ s \o t \in Seq(S) /\ Len(s \o t) = Len(s) + Len(t)
           /\ \A i \in 1..Len(s) : i \in 1..Len(s \o t) /\ (s \o t)[i] = s[i]
           /\ \A i \in 1..Len(t) : Len(s) + i \in 1..Len(s \o t) /\ (s \o t)[Len(s) + i] = t[i]
           /\ \A i \in 1..Len(s \o t) : i \notin 1..Len(s) =>
                  i - Len(s) \in 1..Len(t) /\ (s \o t)[i] = t[i - Len(s)]
  OBVIOUS

(* What a segment holds at each place.                                     *)
LEMMA Cut ==
    ASSUME NEW S, NEW s \in Seq(S), NEW m \in Nat, NEW n \in Nat, m <= n, n <= Len(s)
    PROVE  /\ SubSeq(s, m + 1, n) \in Seq(S) /\ Len(SubSeq(s, m + 1, n)) = n - m
           /\ \A i \in 1..(n - m) : m + i \in 1..Len(s) /\ SubSeq(s, m + 1, n)[i] = s[m + i]
  OBVIOUS

(* The same, counted from where it begins.                                *)
LEMMA Piece ==
    ASSUME NEW S, NEW s \in Seq(S), NEW m \in Nat, NEW n \in Nat, m + n <= Len(s)
    PROVE  /\ SubSeq(s, m + 1, m + n) \in Seq(S) /\ Len(SubSeq(s, m + 1, m + n)) = n /\ Len(s) \in Nat
           /\ \A i \in 1..n : SubSeq(s, m + 1, m + n)[i] = s[m + i] /\ m + i \in 1..Len(s)
<1>1. m + n \in Nat /\ m <= m + n /\ (m + n) - m = n
  OBVIOUS
<1>2. /\ SubSeq(s, m + 1, m + n) \in Seq(S) /\ Len(SubSeq(s, m + 1, m + n)) = (m + n) - m
      /\ \A i \in 1..((m + n) - m) : m + i \in 1..Len(s) /\ SubSeq(s, m + 1, m + n)[i] = s[m + i]
  BY <1>1, Cut, Zenon
<1>3. Len(s) \in Nat
  OBVIOUS
<1> QED
  BY <1>1, <1>2, <1>3, Zenon

(* A sequence cut in two.                                                  *)
LEMMA Halves ==
    ASSUME NEW S, NEW s \in Seq(S), NEW n \in Nat, n <= Len(s)
    PROVE  /\ SubSeq(s, 1, n) \in Seq(S) /\ Len(SubSeq(s, 1, n)) = n
           /\ SubSeq(s, n + 1, Len(s)) \in Seq(S) /\ Len(SubSeq(s, n + 1, Len(s))) = Len(s) - n
  OBVIOUS

(* Concatenation is associative.                                           *)
LEMMA Assoc ==
    ASSUME NEW S, NEW s \in Seq(S), NEW t \in Seq(S), NEW u \in Seq(S)
    PROVE  (s \o t) \o u = s \o (t \o u)
  OBVIOUS

(* Sequences that agree at each place are equal.                           *)
LEMMA Same ==
    ASSUME NEW S, NEW s \in Seq(S), NEW t \in Seq(S), Len(s) = Len(t), \A i \in 1..Len(s) : s[i] = t[i]
    PROVE  s = t
  OBVIOUS

(* A segment of a concatenation that begins in its first part.             *)
LEMMA CutOfCat ==
    ASSUME NEW S, NEW s \in Seq(S), NEW t \in Seq(S), NEW m \in Nat, m <= Len(s)
    PROVE  SubSeq(s \o t, m + 1, Len(s \o t)) = SubSeq(s, m + 1, Len(s)) \o t
<1>1. SubSeq(s, m + 1, Len(s)) \o t \in Seq(S)
  OBVIOUS
<1>2. SubSeq(s \o t, m + 1, Len(s \o t)) \in Seq(S)
  OBVIOUS
<1>3. Len(SubSeq(s, m + 1, Len(s)) \o t) = Len(SubSeq(s \o t, m + 1, Len(s \o t)))
  OBVIOUS
<1>4. \A i \in 1..Len(SubSeq(s \o t, m + 1, Len(s \o t))) :
          SubSeq(s \o t, m + 1, Len(s \o t))[i] = (SubSeq(s, m + 1, Len(s)) \o t)[i]
  OBVIOUS
<1> QED
  BY <1>1, <1>2, <1>3, <1>4, Same

(* Nothing joined to a sequence.                                           *)
LEMMA CatEmpty ==
    ASSUME NEW S, NEW s \in Seq(S)
    PROVE  s \o <<>> = s /\ <<>> \o s = s
  OBVIOUS

(* A segment of the first part of a concatenation, and its second part.    *)
LEMMA CutFirst ==
    ASSUME NEW S, NEW s \in Seq(S), NEW t \in Seq(S), NEW m \in Nat, NEW n \in Nat, m <= n, n <= Len(s)
    PROVE  SubSeq(s \o t, m + 1, n) = SubSeq(s, m + 1, n)
  OBVIOUS

(* The second part of a concatenation.                                    *)
LEMMA CutSecond ==
    ASSUME NEW S, NEW s \in Seq(S), NEW t \in Seq(S)
    PROVE  SubSeq(s \o t, Len(s) + 1, Len(s \o t)) = t
  OBVIOUS

(* What moves from the front of t to the end of s leaves them as they are  *)
(* together.                                                               *)
LEMMA Moved ==
    ASSUME NEW S, NEW s \in Seq(S), NEW t \in Seq(S), NEW n \in Nat, n <= Len(t)
    PROVE  (s \o SubSeq(t, 1, n)) \o SubSeq(t, n + 1, Len(t)) = s \o t
<1> DEFINE a == SubSeq(t, 1, n)
           b == SubSeq(t, n + 1, Len(t))
<1>1. a \in Seq(S) /\ b \in Seq(S)
  OBVIOUS
<1>2. a \o b = t
  <2>1. Len(a) = n /\ Len(b) = Len(t) - n /\ Len(t) \in Nat
    OBVIOUS
  <2>2. \A i \in 1..n : a[i] = t[i]
    OBVIOUS
  <2>3. \A i \in 1..(Len(t) - n) : b[i] = t[n + i]
    OBVIOUS
  <2> HIDE DEF a, b
  <2>4. Len(a \o b) = Len(t) /\ a \o b \in Seq(S)
    BY <1>1, <2>1
  <2>5. ASSUME NEW i \in 1..Len(a \o b) PROVE (a \o b)[i] = t[i]
    <3>1. CASE i <= n
      BY <1>1, <2>1, <2>2, <3>1
    <3>2. CASE i > n
      <4>1. (a \o b)[i] = b[i - n] /\ i - n \in 1..(Len(t) - n)
        BY <1>1, <2>1, <2>4, <3>2
      <4>2. b[i - n] = t[n + (i - n)] /\ n + (i - n) = i
        BY <2>1, <2>3, <4>1
      <4> QED
        BY <4>1, <4>2
    <3> QED
      BY <2>1, <2>4, <3>1, <3>2
  <2> QED
    BY <2>4, <2>5, Same
<1> HIDE DEF a, b
<1>3. (s \o a) \o b = s \o (a \o b)
  BY <1>1, Assoc
<1>4. (s \o a) \o b = s \o t
  BY <1>2, <1>3
<1> QED
  BY <1>4 DEF a, b

(* The elements of a sequence over a set are in a larger one.              *)
LEMMA Larger ==
    ASSUME NEW S, NEW T, S \subseteq T, NEW s \in Seq(S)
    PROVE  s \in Seq(T)
<1>1. s \in [1..Len(s) -> T] /\ Len(s) \in Nat
  OBVIOUS
<1> QED
  BY <1>1

-----------------------------------------------------------------------------
\* The sum of the values of f over a finite set, as MapThenSumSet adds them: by
\* recursion on a first element that CHOOSE picks.
Total(f, S) == MapThenSumSet(LAMBDA x : f[x], S)

\* Its recursion: the first element, and one step of what t adds.
Pick(s) == CHOOSE x \in s : TRUE
Unfolded(t, f, s) == IF s = {} THEN 0 ELSE f[Pick(s)] + t[s \ {Pick(s)}]

\* t solves the recursion for the subsets of S.
IsTotal(t, f, S) == t = [s \in SUBSET S |-> Unfolded(t, f, s)]

(* A nonempty set has its first element, and one fewer without it.         *)
LEMMA Picked ==
    ASSUME NEW s, IsFiniteSet(s), s # {}
    PROVE  Pick(s) \in s /\ IsFiniteSet(s \ {Pick(s)}) /\ Cardinality(s \ {Pick(s)}) = Cardinality(s) - 1
           /\ Cardinality(s) \in Nat \ {0}
<1>1. Pick(s) \in s
  BY DEF Pick
<1>2. IsFiniteSet(s \ {Pick(s)}) /\ Cardinality(s \ {Pick(s)}) = Cardinality(s) - 1
  BY <1>1, FS_RemoveElement
<1>3. Cardinality(s) \in Nat /\ Cardinality(s) # 0
  BY FS_CardinalityType, FS_EmptySet
<1> QED
  BY <1>1, <1>2, <1>3

(* Induction on the size of a finite set: a family of sets that has a set  *)
(* when it has every smaller subset of S has them all.                     *)
LEMMA BySize ==
    ASSUME NEW S, IsFiniteSet(S), NEW F,
           \A s \in SUBSET S : (\A r \in SUBSET S : Cardinality(r) < Cardinality(s) => r \in F) => s \in F
    PROVE  SUBSET S \subseteq F
<1> DEFINE D == {n \in Nat : \A s \in SUBSET S : Cardinality(s) < n => s \in F}
<1>0. \A s \in SUBSET S : IsFiniteSet(s) /\ Cardinality(s) \in Nat
  BY FS_Subset, FS_CardinalityType
<1>1. 0 \in D
  BY <1>0
<1>2. ASSUME NEW n \in D \cap Nat PROVE n + 1 \in D
  <2> SUFFICES ASSUME NEW s \in SUBSET S, Cardinality(s) < n + 1 PROVE s \in F
    OBVIOUS
  <2>1. \A r \in SUBSET S : Cardinality(r) < Cardinality(s) => Cardinality(r) < n
    BY <1>0
  <2> QED
    BY <2>1
<1> HIDE DEF D
<1>3. Nat \subseteq D
  BY <1>1, <1>2, Induct
<1>4. ASSUME NEW s \in SUBSET S PROVE s \in F
  <2>1. Cardinality(s) + 1 \in D /\ Cardinality(s) < Cardinality(s) + 1
    BY <1>0, <1>3
  <2> QED
    BY <2>1 DEF D
<1> QED
  BY <1>4

(* The recursion of the sum has a solution.                                *)
LEMMA TotalExists ==
    ASSUME NEW S, IsFiniteSet(S), NEW f PROVE \E t : IsTotal(t, f, S)
<1> DEFINE Small(n) == {s \in SUBSET S : Cardinality(s) <= n}
           D == {n \in Nat : \E t : t = [s \in Small(n) |-> Unfolded(t, f, s)]}
<1>0. \A s \in SUBSET S : IsFiniteSet(s) /\ Cardinality(s) \in Nat /\ (Cardinality(s) = 0 => s = {})
  BY FS_Subset, FS_CardinalityType, FS_EmptySet
<1>1. 0 \in D
  <2> DEFINE t == [s \in Small(0) |-> 0]
  <2>1. \A s \in Small(0) : s = {}
    BY <1>0
  <2>2. t = [s \in Small(0) |-> Unfolded(t, f, s)]
    BY <2>1 DEF Unfolded
  <2> QED
    BY <2>2
<1>2. ASSUME NEW n \in D \cap Nat PROVE n + 1 \in D
  <2>1. PICK t : t = [s \in Small(n) |-> Unfolded(t, f, s)]
    OBVIOUS
  <2> DEFINE g == [s \in Small(n + 1) |-> Unfolded(t, f, s)]
  <2>2. \A s \in Small(n) : s \in Small(n + 1) /\ g[s] = t[s]
    <3>1. \A s \in Small(n) : s \in Small(n + 1)
      BY <1>0
    <3>2. \A s \in Small(n) : t[s] = Unfolded(t, f, s)
      BY <2>1
    <3> QED
      BY <3>1, <3>2
  <2>3. ASSUME NEW s \in Small(n + 1) PROVE Unfolded(t, f, s) = Unfolded(g, f, s)
    <3>1. CASE s = {}
      BY <3>1 DEF Unfolded
    <3>2. CASE s # {}
      <4>1. s \ {Pick(s)} \in Small(n)
        <5>1. IsFiniteSet(s) /\ Cardinality(s) <= n + 1
          BY <1>0
        <5>2. Cardinality(s \ {Pick(s)}) = Cardinality(s) - 1 /\ Cardinality(s) \in Nat
          BY <3>2, <5>1, Picked
        <5>3. Cardinality(s \ {Pick(s)}) <= n
          BY <5>1, <5>2
        <5> QED
          BY <5>3
      <4>2. g[s \ {Pick(s)}] = t[s \ {Pick(s)}]
        BY <2>2, <4>1
      <4> HIDE DEF g
      <4> QED
        BY <3>2, <4>2 DEF Unfolded
    <3> QED
      BY <3>1, <3>2
  <2>4. g = [s \in Small(n + 1) |-> Unfolded(g, f, s)]
    BY <2>3
  <2> HIDE DEF g
  <2>5. \E h : h = [s \in Small(n + 1) |-> Unfolded(h, f, s)]
    BY <2>4
  <2> HIDE DEF Small
  <2> QED
    BY <2>5
<1>3. Cardinality(S) \in D
  <2> HIDE DEF D
  <2>1. Nat \subseteq D
    BY <1>1, <1>2, Induct
  <2> QED
    BY <2>1, FS_CardinalityType
<1>4. Small(Cardinality(S)) = SUBSET S
  BY FS_Subset
<1>5. \E t : t = [s \in Small(Cardinality(S)) |-> Unfolded(t, f, s)]
  BY <1>3
<1> QED
  BY <1>4, <1>5 DEF IsTotal

(* Solutions for functions and sets that agree, agree.                     *)
LEMMA TotalsAgree ==
    ASSUME NEW S, NEW T, IsFiniteSet(T), S \subseteq T, NEW f, NEW g, \A x \in S : f[x] = g[x],
           NEW t, NEW u, IsTotal(t, f, S), IsTotal(u, g, T)
    PROVE  \A s \in SUBSET S : t[s] = u[s]
<1> DEFINE F == {s \in SUBSET S : t[s] = u[s]}
<1>0. IsFiniteSet(S)
  BY FS_Subset
<1>1. ASSUME NEW s \in SUBSET S, \A r \in SUBSET S : Cardinality(r) < Cardinality(s) => r \in F
      PROVE  s \in F
  <2>1. t[s] = Unfolded(t, f, s) /\ u[s] = Unfolded(u, g, s)
    <3>1. s \in SUBSET T
      OBVIOUS
    <3> QED
      BY <3>1 DEF IsTotal
  <2>2. CASE s = {}
    BY <2>1, <2>2 DEF Unfolded
  <2>3. CASE s # {}
    <3>1. Pick(s) \in s /\ Cardinality(s \ {Pick(s)}) = Cardinality(s) - 1 /\ Cardinality(s) \in Nat
      BY <1>0, <2>3, FS_Subset, Picked
    <3>2. Cardinality(s \ {Pick(s)}) < Cardinality(s) /\ s \ {Pick(s)} \in SUBSET S
      BY <3>1
    <3>3. t[s \ {Pick(s)}] = u[s \ {Pick(s)}]
      BY <1>1, <3>2
    <3>4. f[Pick(s)] = g[Pick(s)]
      BY <3>1
    <3> QED
      BY <2>1, <2>3, <3>3, <3>4 DEF Unfolded
  <2> QED
    BY <2>2, <2>3
<1> HIDE DEF F
<1>2. SUBSET S \subseteq F
  BY <1>0, <1>1, BySize
<1> QED
  BY <1>2 DEF F

(* A solution counts each element once, whichever is the first.            *)
LEMMA TotalGrows ==
    ASSUME NEW S, IsFiniteSet(S), NEW f, \A x \in S : f[x] \in Int, NEW t, IsTotal(t, f, S)
    PROVE  /\ \A s \in SUBSET S : t[s] \in Int
           /\ \A s \in SUBSET S, a \in S : a \notin s => t[s \cup {a}] = t[s] + f[a]
<1> DEFINE F == {s \in SUBSET S : t[s] \in Int /\ \A a \in s : t[s] = t[s \ {a}] + f[a]}
<1>1. ASSUME NEW s \in SUBSET S, \A r \in SUBSET S : Cardinality(r) < Cardinality(s) => r \in F
      PROVE  s \in F
  <2>1. t[s] = Unfolded(t, f, s)
    BY DEF IsTotal
  <2>2. CASE s = {}
    BY <2>1, <2>2 DEF Unfolded
  <2>3. CASE s # {}
    <3> DEFINE p == Pick(s)
    <3>1. IsFiniteSet(s) /\ p \in s /\ f[p] \in Int
      BY <2>3, FS_Subset, Picked
    <3>2. t[s] = f[p] + t[s \ {p}]
      BY <2>1, <2>3 DEF Unfolded
    <3> HIDE DEF p
    <3>3. ASSUME NEW a \in s
          PROVE  s \ {a} \in SUBSET S /\ Cardinality(s \ {a}) < Cardinality(s) /\ s \ {a} \in F
      <4>1. Cardinality(s \ {a}) = Cardinality(s) - 1 /\ Cardinality(s) \in Nat
        BY <3>1, FS_RemoveElement, FS_CardinalityType
      <4>2. s \ {a} \in SUBSET S /\ Cardinality(s \ {a}) < Cardinality(s)
        BY <4>1
      <4> QED
        BY <1>1, <4>2
    <3>4. t[s] \in Int /\ t[s \ {p}] \in Int
      <4>1. t[s \ {p}] \in Int
        BY <3>1, <3>3
      <4> QED
        BY <3>1, <3>2, <4>1
    <3>5. ASSUME NEW a \in s PROVE t[s] = t[s \ {a}] + f[a]
      <4>1. CASE a = p
        BY <3>1, <3>2, <3>4, <4>1
      <4>2. CASE a # p
        <5> DEFINE q == (s \ {p}) \ {a}
        <5>1. t[s \ {p}] = t[q] + f[a]
          BY <3>1, <3>3, <4>2
        <5>2. t[s \ {a}] = t[(s \ {a}) \ {p}] + f[p]
          BY <3>1, <3>3, <4>2
        <5>3. (s \ {a}) \ {p} = q
          OBVIOUS
        <5>4. q \in SUBSET S /\ t[q] \in Int /\ f[a] \in Int
          <6>1. q \in SUBSET S /\ Cardinality(q) < Cardinality(s)
            <7>1. IsFiniteSet(s \ {p}) /\ Cardinality(s \ {p}) < Cardinality(s) /\ Cardinality(s \ {p}) \in Nat
                  /\ Cardinality(s) \in Nat /\ a \in s \ {p}
              BY <3>1, <3>3, <4>2, FS_RemoveElement, FS_CardinalityType
            <7>2. Cardinality(q) = Cardinality(s \ {p}) - 1
              BY <7>1, FS_RemoveElement
            <7> QED
              BY <7>1, <7>2
          <6> QED
            BY <1>1, <6>1
        <5>5. f[p] \in Int /\ t[s] = f[p] + t[s \ {p}]
          BY <3>1, <3>2
        <5>6. \A x, y, z \in Int : y + (x + z) = (x + y) + z
          OBVIOUS
        <5> HIDE DEF q
        <5>7. t[s] = f[p] + (t[q] + f[a]) /\ t[s \ {a}] = t[q] + f[p]
          BY <5>1, <5>2, <5>3, <5>5
        <5> QED
          BY <5>4, <5>5, <5>6, <5>7
      <4> QED
        BY <4>1, <4>2
    <3> QED
      BY <3>4, <3>5
  <2> QED
    BY <2>2, <2>3
<1> HIDE DEF F
<1>2. SUBSET S \subseteq F
  BY <1>1, BySize
<1>3. ASSUME NEW s \in SUBSET S, NEW a \in S, a \notin s PROVE t[s \cup {a}] = t[s] + f[a]
  <2>1. s \cup {a} \in F /\ a \in s \cup {a} /\ (s \cup {a}) \ {a} = s
    BY <1>2, <1>3
  <2> QED
    BY <2>1 DEF F
<1> QED
  BY <1>2, <1>3 DEF F

-----------------------------------------------------------------------------
(* The sum is the solution's value.                                        *)
LEMMA TotalIs ==
    ASSUME NEW S, IsFiniteSet(S), NEW f PROVE \E t : IsTotal(t, f, S) /\ Total(f, S) = t[S]
<1>1. Total(f, S) = (CHOOSE t : IsTotal(t, f, S))[S]
  BY Zenon DEF Total, MapThenSumSet, MapThenFoldSet, Pick, Unfolded, IsTotal
<1> QED
  BY <1>1, TotalExists

(* The sum over no elements.                                               *)
LEMMA TotalNone == ASSUME NEW f PROVE Total(f, {}) = 0
<1>1. PICK t : IsTotal(t, f, {}) /\ Total(f, {}) = t[{}]
  BY TotalIs, FS_EmptySet
<1> QED
  BY <1>1 DEF IsTotal, Unfolded

(* Functions that agree on a set have the same sum over it.                *)
LEMMA TotalSame ==
    ASSUME NEW S, IsFiniteSet(S), NEW f, NEW g, \A x \in S : f[x] = g[x]
    PROVE  Total(f, S) = Total(g, S)
<1>1. PICK t : IsTotal(t, f, S) /\ Total(f, S) = t[S]
  BY TotalIs
<1>2. PICK u : IsTotal(u, g, S) /\ Total(g, S) = u[S]
  BY TotalIs
<1>3. \A s \in SUBSET S : t[s] = u[s]
  BY <1>1, <1>2, TotalsAgree
<1> QED
  BY <1>1, <1>2, <1>3

(* One more element adds its value.                                        *)
LEMMA TotalAdds ==
    ASSUME NEW S, IsFiniteSet(S), NEW a, a \notin S, NEW f, \A x \in S \cup {a} : f[x] \in Int
    PROVE  Total(f, S) \in Int /\ Total(f, S \cup {a}) = Total(f, S) + f[a]
<1> DEFINE T == S \cup {a}
<1>1. IsFiniteSet(T) /\ S \subseteq T
  BY FS_AddElement
<1>2. PICK t : IsTotal(t, f, S) /\ Total(f, S) = t[S]
  BY TotalIs
<1>3. PICK u : IsTotal(u, f, T) /\ Total(f, T) = u[T]
  BY <1>1, TotalIs
<1>4. t[S] = u[S]
  <2>1. \A s \in SUBSET S : t[s] = u[s]
    <3> HIDE DEF T
    <3>1. \A x \in S : f[x] = f[x]
      OBVIOUS
    <3> QED
      BY <1>1, <1>2, <1>3, <3>1, TotalsAgree
  <2> QED
    BY <2>1
<1>5. u[S] \in Int /\ u[S \cup {a}] = u[S] + f[a]
  <2>1. \A x \in T : f[x] \in Int
    OBVIOUS
  <2>2. S \in SUBSET T /\ a \in T /\ IsFiniteSet(T) /\ IsTotal(u, f, T)
    BY <1>1, <1>3
  <2> HIDE DEF T
  <2>3. /\ \A s \in SUBSET T : u[s] \in Int
        /\ \A s \in SUBSET T, b \in T : b \notin s => u[s \cup {b}] = u[s] + f[b]
    BY <2>1, <2>2, TotalGrows
  <2> QED
    BY <2>2, <2>3
<1> QED
  BY <1>2, <1>3, <1>4, <1>5

-----------------------------------------------------------------------------
(* Whatever the empty sequence has, and a sequence with one more element   *)
(* has if the sequence has it, all sequences have.                         *)
LEMMA ByLast ==
    ASSUME NEW X, NEW F, <<>> \in F, \A s \in Seq(X), x \in X : s \in F => Append(s, x) \in F
    PROVE  Seq(X) \subseteq F
<1> DEFINE D == {n \in Nat : \A s \in Seq(X) : Len(s) = n => s \in F}
<1>1. 0 \in D
  <2>1. \A s \in Seq(X) : Len(s) = 0 => s = <<>>
    OBVIOUS
  <2> QED
    BY <2>1
<1>2. ASSUME NEW k \in D \cap Nat PROVE k + 1 \in D
  <2> SUFFICES ASSUME NEW s \in Seq(X), Len(s) = k + 1 PROVE s \in F
    OBVIOUS
  <2>1. k \in Nat /\ \A t \in Seq(X) : Len(t) = k => t \in F
    OBVIOUS
  <2> HIDE DEF D
  <2>2. SubSeq(s, 1, k) \in Seq(X) /\ Len(SubSeq(s, 1, k)) = k /\ s[k + 1] \in X
    BY <2>1
  <2>3. s = Append(SubSeq(s, 1, k), s[k + 1])
    BY <2>1, <2>2
  <2> QED
    BY <2>1, <2>2, <2>3
<1>3. Nat \subseteq D
  <2> HIDE DEF D
  <2> QED
    BY <1>1, <1>2, Induct
<1>4. \A s \in Seq(X) : Len(s) \in Nat
  OBVIOUS
<1> QED
  BY <1>3, <1>4

\* f solves the recursion of Chosen up to n.
IsChosen(f, s, S, n) ==
    f = [m \in 0..n |-> IF m = 0 THEN <<>>
                        ELSE IF s[m] \in S THEN Append(f[m - 1], s[m]) ELSE f[m - 1]]

(* There is one.                                                           *)
LEMMA ChosenExists == ASSUME NEW s, NEW S PROVE \A n \in Nat : \E f : IsChosen(f, s, S, n)
<1> DEFINE D == {n \in Nat : \E f : IsChosen(f, s, S, n)}
<1>1. 0 \in D
  <2>1. IsChosen([m \in 0..0 |-> <<>>], s, S, 0)
    BY DEF IsChosen
  <2> QED
    BY <2>1
<1>2. ASSUME NEW k \in D \cap Nat PROVE k + 1 \in D
  <2>1. PICK f : IsChosen(f, s, S, k)
    OBVIOUS
  <2> DEFINE x == IF s[k + 1] \in S THEN Append(f[k], s[k + 1]) ELSE f[k]
             g == [m \in 0..(k + 1) |-> IF m = k + 1 THEN x ELSE f[m]]
  <2>2. \A m \in 0..k : f[m] = IF m = 0 THEN <<>>
                               ELSE IF s[m] \in S THEN Append(f[m - 1], s[m]) ELSE f[m - 1]
    BY <2>1 DEF IsChosen
  <2>3. \A m \in 0..(k + 1) : g[m] = IF m = k + 1 THEN x ELSE f[m]
    OBVIOUS
  <2>4. \A m \in 0..(k + 1) : m # 0 => m - 1 \in 0..(k + 1) /\ g[m - 1] = f[m - 1] /\ (m # k + 1 => m \in 0..k)
    BY <2>3
  <2>5. \A m \in 0..(k + 1) : g[m] = IF m = 0 THEN <<>>
                               ELSE IF s[m] \in S THEN Append(g[m - 1], s[m]) ELSE g[m - 1]
    <3> TAKE m \in 0..(k + 1)
    <3>1. CASE m = 0
      BY <2>2, <2>3, <3>1
    <3>2. CASE m = k + 1
      BY <2>3, <2>4, <3>2
    <3>3. CASE m # 0 /\ m # k + 1
      <4>1. g[m] = f[m] /\ m \in 0..k /\ g[m - 1] = f[m - 1]
        BY <2>3, <2>4, <3>3
      <4> HIDE DEF g
      <4> QED
        BY <2>2, <3>3, <4>1
    <3> QED
      BY <3>1, <3>2, <3>3
  <2>6. g = [m \in 0..(k + 1) |-> g[m]]
    OBVIOUS
  <2> HIDE DEF g
  <2>7. IsChosen(g, s, S, k + 1)
    BY <2>5, <2>6 DEF IsChosen
  <2> QED
    BY <2>7
<1> QED
  <2> HIDE DEF D
  <2>1. Nat \subseteq D
    BY <1>1, <1>2, Induct
  <2> QED
    BY <2>1 DEF D

(* Two that meet the same elements, taken or not, have the same values.    *)
LEMMA ChosenAgree ==
    ASSUME NEW s, NEW t, NEW S, NEW T, NEW n \in Nat, NEW m \in Nat, n <= m,
           \A i \in 1..n : s[i] = t[i] /\ (s[i] \in S <=> t[i] \in T),
           NEW f, NEW g, IsChosen(f, s, S, n), IsChosen(g, t, T, m)
    PROVE  f[n] = g[n]
<1> DEFINE D == {k \in Nat : k <= n => f[k] = g[k]}
<1>1. \A k \in 0..n : f[k] = IF k = 0 THEN <<>>
                             ELSE IF s[k] \in S THEN Append(f[k - 1], s[k]) ELSE f[k - 1]
  BY DEF IsChosen
<1>2. \A k \in 0..m : g[k] = IF k = 0 THEN <<>>
                             ELSE IF t[k] \in T THEN Append(g[k - 1], t[k]) ELSE g[k - 1]
  BY DEF IsChosen
<1>3. 0 \in D
  BY <1>1, <1>2
<1>4. ASSUME NEW k \in D \cap Nat PROVE k + 1 \in D
  <2> SUFFICES ASSUME k + 1 <= n PROVE f[k + 1] = g[k + 1]
    OBVIOUS
  <2>1. k + 1 \in 0..n /\ k + 1 \in 0..m /\ k + 1 \in 1..n /\ k + 1 # 0 /\ (k + 1) - 1 = k /\ f[k] = g[k]
    OBVIOUS
  <2> HIDE DEF D
  <2> QED
    BY <1>1, <1>2, <2>1
<1> QED
  <2> HIDE DEF D
  <2>1. Nat \subseteq D
    BY <1>3, <1>4, Induct
  <2> QED
    BY <2>1 DEF D

(* The value of Chosen is that of a solution of its recursion.             *)
LEMMA ChosenIs ==
    ASSUME NEW X, NEW s \in Seq(X), NEW S
    PROVE  \E f : IsChosen(f, s, S, Len(s)) /\ Chosen(s, S) = f[Len(s)]
<1>1. Chosen(s, S) = (CHOOSE f : IsChosen(f, s, S, Len(s)))[Len(s)]
  BY Zenon DEF Chosen, IsChosen
<1>2. Len(s) \in Nat
  OBVIOUS
<1> QED
  BY <1>1, <1>2, ChosenExists

(* Two tests that tell the elements of a sequence apart alike.             *)
LEMMA ChosenSame ==
    ASSUME NEW X, NEW s \in Seq(X), NEW S, NEW T, \A i \in 1..Len(s) : s[i] \in S <=> s[i] \in T
    PROVE  Chosen(s, S) = Chosen(s, T)
<1>1. PICK f : IsChosen(f, s, S, Len(s)) /\ Chosen(s, S) = f[Len(s)]
  BY ChosenIs
<1>2. PICK g : IsChosen(g, s, T, Len(s)) /\ Chosen(s, T) = g[Len(s)]
  BY ChosenIs
<1>3. Len(s) \in Nat /\ Len(s) <= Len(s)
  OBVIOUS
<1>4. f[Len(s)] = g[Len(s)]
  BY <1>1, <1>2, <1>3, ChosenAgree
<1> QED
  BY <1>1, <1>2, <1>4

(* Nothing is chosen from the empty sequence.                              *)
LEMMA ChosenEmpty == ASSUME NEW S PROVE Chosen(<<>>, S) = <<>>
<1>1. <<>> \in Seq({}) /\ Len(<<>>) = 0
  OBVIOUS
<1>2. PICK f : IsChosen(f, <<>>, S, 0) /\ Chosen(<<>>, S) = f[0]
  BY <1>1, ChosenIs
<1> QED
  BY <1>2 DEF IsChosen

(* One more element is chosen last, or left out.                           *)
LEMMA ChosenAppend ==
    ASSUME NEW X, NEW S, NEW s \in Seq(X), NEW x \in X
    PROVE  Chosen(Append(s, x), S) = IF x \in S THEN Append(Chosen(s, S), x) ELSE Chosen(s, S)
<1> DEFINE t == Append(s, x)
           n == Len(s)
<1>1. n \in Nat /\ t \in Seq(X) /\ Len(t) = n + 1 /\ t[n + 1] = x /\ \A i \in 1..n : t[i] = s[i]
  OBVIOUS
<1> HIDE DEF t
<1>2. PICK f : IsChosen(f, s, S, n) /\ Chosen(s, S) = f[n]
  BY ChosenIs
<1>3. PICK g : IsChosen(g, t, S, n + 1) /\ Chosen(t, S) = g[n + 1]
  BY <1>1, ChosenIs
<1> HIDE DEF n
<1>4. f[n] = g[n]
  <2>1. n + 1 \in Nat /\ n <= n + 1 /\ \A i \in 1..n : s[i] = t[i] /\ (s[i] \in S <=> t[i] \in S)
    BY <1>1
  <2> QED
    BY <1>1, <1>2, <1>3, <2>1, ChosenAgree
<1>5. g[n + 1] = IF t[n + 1] \in S THEN Append(g[n], t[n + 1]) ELSE g[n]
  <2>1. n + 1 \in 0..(n + 1) /\ n + 1 # 0 /\ (n + 1) - 1 = n
    BY <1>1
  <2>2. \A m \in 0..(n + 1) : g[m] = IF m = 0 THEN <<>>
                      ELSE IF t[m] \in S THEN Append(g[m - 1], t[m]) ELSE g[m - 1]
    BY <1>3 DEF IsChosen
  <2> QED
    BY <2>1, <2>2
<1> QED
  BY <1>1, <1>2, <1>3, <1>4, <1>5 DEF t

(* What is chosen is in the set and in the sequence.                       *)
LEMMA ChosenType ==
    ASSUME NEW X, NEW s \in Seq(X), NEW S
    PROVE  Chosen(s, S) \in Seq(X \cap S) /\ Chosen(s, S) \in Seq(X)
<1> DEFINE F == {t \in Seq(X) : Chosen(t, S) \in Seq(X \cap S)}
<1>1. <<>> \in F
  <2>1. <<>> \in Seq(X) /\ <<>> \in Seq(X \cap S)
    OBVIOUS
  <2>2. Chosen(<<>>, S) = <<>>
    BY ChosenEmpty
  <2> QED
    BY <2>1, <2>2
<1>2. ASSUME NEW t \in Seq(X), NEW x \in X, t \in F PROVE Append(t, x) \in F
  <2>1. Append(t, x) \in Seq(X) /\ Chosen(t, S) \in Seq(X \cap S)
    BY <1>2
  <2>2. Chosen(Append(t, x), S) = IF x \in S THEN Append(Chosen(t, S), x) ELSE Chosen(t, S)
    BY ChosenAppend
  <2>3. Chosen(Append(t, x), S) \in Seq(X \cap S)
    BY <2>1, <2>2
  <2> QED
    BY <2>1, <2>3
<1>3. s \in F
  <2> HIDE DEF F
  <2>1. Seq(X) \subseteq F
    BY <1>1, <1>2, ByLast
  <2> QED
    BY <2>1
<1>4. Chosen(s, S) \in Seq(X \cap S)
  BY <1>3
<1> QED
  BY <1>4, Larger

(* What is chosen of a concatenation.                                      *)
LEMMA ChosenCat ==
    ASSUME NEW X, NEW s \in Seq(X), NEW t \in Seq(X), NEW S
    PROVE  Chosen(s \o t, S) = Chosen(s, S) \o Chosen(t, S)
<1> DEFINE F == {u \in Seq(X) : Chosen(s \o u, S) = Chosen(s, S) \o Chosen(u, S)}
<1>1. <<>> \in F
  <2>1. Chosen(s, S) \in Seq(X)
    BY ChosenType
  <2>2. s \o <<>> = s /\ Chosen(s, S) \o <<>> = Chosen(s, S)
    BY <2>1, CatEmpty
  <2>3. Chosen(<<>>, S) = <<>> /\ <<>> \in Seq(X)
    BY ChosenEmpty
  <2> QED
    BY <2>2, <2>3
<1>2. ASSUME NEW u \in Seq(X), NEW x \in X, u \in F PROVE Append(u, x) \in F
  <2> DEFINE a == Chosen(s, S)
             b == Chosen(u, S)
  <2>1. Append(u, x) \in Seq(X) /\ s \o u \in Seq(X) /\ s \o Append(u, x) = Append(s \o u, x)
    OBVIOUS
  <2>2. a \in Seq(X) /\ b \in Seq(X)
    BY ChosenType
  <2>3. Chosen(s \o u, S) = a \o b
    BY <1>2
  <2>4. Chosen(Append(u, x), S) = IF x \in S THEN Append(b, x) ELSE b
    BY ChosenAppend
  <2>5. Chosen(Append(s \o u, x), S) = IF x \in S THEN Append(a \o b, x) ELSE a \o b
    <3> DEFINE v == s \o u
    <3>1. v \in Seq(X)
      BY <2>1
    <3> HIDE DEF v, a, b
    <3>2. Chosen(Append(v, x), S) = IF x \in S THEN Append(Chosen(v, S), x) ELSE Chosen(v, S)
      BY <3>1, ChosenAppend
    <3> QED
      BY <2>3, <3>2 DEF v
  <2> HIDE DEF a, b
  <2>6. a \o Append(b, x) = Append(a \o b, x)
    BY <2>2
  <2>7. Chosen(s \o Append(u, x), S) = a \o Chosen(Append(u, x), S)
    BY <2>1, <2>4, <2>5, <2>6
  <2> QED
    BY <2>1, <2>7 DEF a
<1> QED
  <2> HIDE DEF F
  <2>1. Seq(X) \subseteq F
    BY <1>1, <1>2, ByLast
  <2> QED
    BY <2>1 DEF F

(* A sequence over the set is chosen whole.                                *)
LEMMA ChosenAll == ASSUME NEW S, NEW s \in Seq(S) PROVE Chosen(s, S) = s
<1> DEFINE F == {t \in Seq(S) : Chosen(t, S) = t}
<1>1. <<>> \in F
  BY ChosenEmpty
<1>2. ASSUME NEW t \in Seq(S), NEW x \in S, t \in F PROVE Append(t, x) \in F
  BY <1>2, ChosenAppend
<1> QED
  <2> HIDE DEF F
  <2>1. Seq(S) \subseteq F
    BY <1>1, <1>2, ByLast
  <2> QED
    BY <2>1 DEF F

(* A sequence with no element in the set leaves nothing.                   *)
LEMMA ChosenNone ==
    ASSUME NEW X, NEW s \in Seq(X), NEW S, \A i \in 1..Len(s) : s[i] \notin S
    PROVE  Chosen(s, S) = <<>>
<1>1. Chosen(s, S) = Chosen(s, {})
  BY ChosenSame
<1>2. Chosen(s, {}) \in Seq(X \cap {})
  BY ChosenType
<1>3. Chosen(s, {}) = <<>>
  BY <1>2
<1> QED
  BY <1>1, <1>3

(* Each chosen element has a place in the sequence, and all those before   *)
(* that place that are in the set are chosen before it.                    *)
LEMMA ChosenPlaces ==
    ASSUME NEW X, NEW s \in Seq(X), NEW S
    PROVE  \A i \in 1..Len(Chosen(s, S)) : \E k \in 1..Len(s) :
              /\ s[k] \in S /\ Chosen(s, S)[i] = s[k]
              /\ \A l \in 1..(k - 1) : s[l] \in S => \E j \in 1..(i - 1) : Chosen(s, S)[j] = s[l]
<1> DEFINE
      Before(t, i, k) == \A l \in 1..(k - 1) : t[l] \in S => \E j \in 1..(i - 1) : Chosen(t, S)[j] = t[l]
      Placed(t) == \A i \in 1..Len(Chosen(t, S)) : \E k \in 1..Len(t) :
                      t[k] \in S /\ Chosen(t, S)[i] = t[k] /\ Before(t, i, k)
      All(t) == \A l \in 1..Len(t) : t[l] \in S => \E j \in 1..Len(Chosen(t, S)) : Chosen(t, S)[j] = t[l]
      F == {t \in Seq(X) : Placed(t) /\ All(t)}
<1>1. <<>> \in F
  BY ChosenEmpty
<1>2. ASSUME NEW t \in Seq(X), NEW x \in X, Placed(t), All(t)
      PROVE  Placed(Append(t, x)) /\ All(Append(t, x))
  <2> DEFINE u == Append(t, x)
             c == Chosen(t, S)
             d == Chosen(u, S)
             n == Len(t)
  <2>1. n \in Nat /\ Len(u) = n + 1 /\ u[n + 1] = x /\ \A i \in 1..n : u[i] = t[i]
    OBVIOUS
  <2>2. c \in Seq(X)
    BY ChosenType
  <2>3. d = IF x \in S THEN Append(c, x) ELSE c
    BY ChosenAppend
  <2>4. /\ \A i \in 1..Len(c) : \E k \in 1..n : t[k] \in S /\ c[i] = t[k]
              /\ \A l \in 1..(k - 1) : t[l] \in S => \E j \in 1..(i - 1) : c[j] = t[l]
        /\ \A l \in 1..n : t[l] \in S => \E j \in 1..Len(c) : c[j] = t[l]
    BY <1>2
  <2> HIDE DEF u, c, n
  <2>5. /\ Len(c) \in Nat /\ \A i \in 1..Len(c) : i \in 1..Len(d) /\ d[i] = c[i]
        /\ IF x \in S THEN Len(d) = Len(c) + 1 /\ d[Len(c) + 1] = x ELSE Len(d) = Len(c)
    <3> HIDE DEF d
    <3>1. Len(c) \in Nat /\ Len(Append(c, x)) = Len(c) + 1 /\ Append(c, x)[Len(c) + 1] = x
          /\ \A i \in 1..Len(c) : Append(c, x)[i] = c[i] /\ i \in 1..(Len(c) + 1)
      BY <2>2
    <3> QED
      BY <2>3, <3>1
  <2> HIDE DEF d
  <2>6. ASSUME NEW l \in 1..Len(u), u[l] \in S PROVE \E j \in 1..Len(d) : d[j] = u[l]
    <3>1. CASE l \in 1..n
      <4>1. PICK j \in 1..Len(c) : c[j] = t[l]
        BY <2>1, <2>4, <2>6, <3>1
      <4> QED
        BY <2>1, <2>5, <3>1, <4>1
    <3>2. CASE l \notin 1..n
      <4>1. l = n + 1
        BY <2>1, <3>2
      <4>2. x \in S /\ Len(c) + 1 \in 1..Len(d)
        BY <2>1, <2>5, <2>6, <4>1
      <4> QED
        BY <2>1, <2>5, <4>1, <4>2
    <3> QED
      BY <3>1, <3>2
  <2>7. ASSUME NEW i \in 1..Len(d)
        PROVE  \E k \in 1..Len(u) : /\ u[k] \in S /\ d[i] = u[k]
                  /\ \A l \in 1..(k - 1) : u[l] \in S => \E j \in 1..(i - 1) : d[j] = u[l]
    <3>1. CASE i \in 1..Len(c)
      <4>1. PICK k \in 1..n : t[k] \in S /\ c[i] = t[k]
              /\ \A l \in 1..(k - 1) : t[l] \in S => \E j \in 1..(i - 1) : c[j] = t[l]
        BY <2>4, <3>1
      <4>2. k \in 1..Len(u) /\ u[k] \in S /\ d[i] = u[k]
        BY <2>1, <2>5, <3>1, <4>1
      <4>3. ASSUME NEW l \in 1..(k - 1), u[l] \in S PROVE \E j \in 1..(i - 1) : d[j] = u[l]
        <5>1. l \in 1..n /\ t[l] \in S
          BY <2>1, <4>3
        <5>2. PICK j \in 1..(i - 1) : c[j] = t[l]
          BY <4>1, <5>1
        <5>3. j \in 1..Len(c)
          BY <2>5, <3>1
        <5> QED
          BY <2>1, <2>5, <5>1, <5>2, <5>3
      <4> QED
        BY <4>2, <4>3
    <3>2. CASE i \notin 1..Len(c)
      <4>1. i = Len(c) + 1 /\ x \in S /\ d[i] = x
        BY <2>5, <3>2
      <4>2. n + 1 \in 1..Len(u) /\ u[n + 1] \in S /\ d[i] = u[n + 1]
        BY <2>1, <4>1
      <4>3. ASSUME NEW l \in 1..((n + 1) - 1), u[l] \in S PROVE \E j \in 1..(i - 1) : d[j] = u[l]
        <5>1. l \in 1..n /\ t[l] \in S
          BY <2>1, <4>3
        <5>2. PICK j \in 1..Len(c) : c[j] = t[l]
          BY <2>4, <5>1
        <5>3. j \in 1..(i - 1)
          BY <2>5, <4>1
        <5> QED
          BY <2>1, <2>5, <5>1, <5>2, <5>3
      <4> QED
        BY <4>2, <4>3
    <3> QED
      BY <3>1, <3>2
  <2> QED
    BY <2>6, <2>7 DEF u, d
<1> HIDE DEF Placed, All
<1>3. s \in F
  <2>1. ASSUME NEW t \in Seq(X), NEW x \in X, t \in F PROVE Append(t, x) \in F
    BY <1>2, <2>1
  <2> HIDE DEF F
  <2>2. Seq(X) \subseteq F
    BY <1>1, <2>1, ByLast
  <2> QED
    BY <2>2
<1>4. Placed(s)
  BY <1>3
<1> QED
  BY <1>4 DEF Placed

-----------------------------------------------------------------------------
(* Concatenating a sequence of sequences.                                  *)

\* f solves the recursion of FlattenSeq up to n.
IsFlat(f, ss, n) == f = [i \in 1..n |-> IF i = 1 THEN ss[i] ELSE f[i - 1] \o ss[i]]

(* There is one.                                                           *)
LEMMA FlatExists == ASSUME NEW ss PROVE \A n \in Nat : \E f : IsFlat(f, ss, n)
<1> DEFINE D == {n \in Nat : \E f : IsFlat(f, ss, n)}
<1>1. 0 \in D
  <2>1. IsFlat([i \in 1..0 |-> ss], ss, 0)
    BY DEF IsFlat
  <2> QED
    BY <2>1
<1>2. ASSUME NEW k \in D \cap Nat PROVE k + 1 \in D
  <2>1. PICK f : IsFlat(f, ss, k)
    OBVIOUS
  <2> DEFINE x == IF k = 0 THEN ss[1] ELSE f[k] \o ss[k + 1]
             g == [i \in 1..(k + 1) |-> IF i = k + 1 THEN x ELSE f[i]]
  <2>2. \A i \in 1..k : f[i] = IF i = 1 THEN ss[i] ELSE f[i - 1] \o ss[i]
    BY <2>1 DEF IsFlat
  <2>3. \A i \in 1..(k + 1) : g[i] = IF i = k + 1 THEN x ELSE f[i]
    OBVIOUS
  <2>4. \A i \in 1..(k + 1) : i # 1 => i - 1 \in 1..(k + 1) /\ g[i - 1] = f[i - 1]
    BY <2>3
  <2>5. \A i \in 1..(k + 1) : g[i] = IF i = 1 THEN ss[i] ELSE g[i - 1] \o ss[i]
    <3> TAKE i \in 1..(k + 1)
    <3>1. CASE i = k + 1
      <4>1. g[i] = x /\ k \in Nat
        BY <2>3, <3>1
      <4>2. CASE i = 1
        BY <3>1, <4>1, <4>2
      <4>3. CASE i # 1
        <5>1. k # 0 /\ i - 1 = k /\ g[i - 1] = f[k]
          BY <2>4, <3>1, <4>3
        <5> QED
          BY <3>1, <4>1, <4>3, <5>1
      <4> QED
        BY <4>2, <4>3
    <3>2. CASE i # k + 1
      <4>1. g[i] = f[i] /\ i \in 1..k
        BY <2>3, <3>2
      <4> HIDE DEF g
      <4> QED
        BY <2>2, <2>4, <4>1
    <3> QED
      BY <3>1, <3>2
  <2>6. g = [i \in 1..(k + 1) |-> g[i]]
    OBVIOUS
  <2> HIDE DEF g
  <2>7. IsFlat(g, ss, k + 1)
    BY <2>5, <2>6 DEF IsFlat
  <2> QED
    BY <2>7
<1> QED
  <2> HIDE DEF D
  <2>1. Nat \subseteq D
    BY <1>1, <1>2, Induct
  <2> QED
    BY <2>1 DEF D

(* Two for sequences that begin alike begin alike.                         *)
LEMMA FlatAgree ==
    ASSUME NEW ss, NEW tt, NEW n \in Nat, NEW m \in Nat, n # 0, n <= m, \A i \in 1..n : ss[i] = tt[i],
           NEW f, NEW g, IsFlat(f, ss, n), IsFlat(g, tt, m)
    PROVE  f[n] = g[n]
<1> DEFINE D == {k \in Nat : k + 1 <= n => f[k + 1] = g[k + 1]}
<1>1. \A i \in 1..n : f[i] = IF i = 1 THEN ss[i] ELSE f[i - 1] \o ss[i]
  BY DEF IsFlat
<1>2. \A i \in 1..m : g[i] = IF i = 1 THEN tt[i] ELSE g[i - 1] \o tt[i]
  BY DEF IsFlat
<1>3. 0 \in D
  BY <1>1, <1>2
<1>4. ASSUME NEW k \in D \cap Nat PROVE k + 1 \in D
  <2> SUFFICES ASSUME (k + 1) + 1 <= n PROVE f[(k + 1) + 1] = g[(k + 1) + 1]
    OBVIOUS
  <2> DEFINE j == (k + 1) + 1
  <2>1. j \in 1..n /\ j \in 1..m /\ j # 1 /\ j - 1 = k + 1 /\ f[k + 1] = g[k + 1]
    OBVIOUS
  <2> HIDE DEF D, j
  <2>2. f[j] = g[j]
    BY <1>1, <1>2, <2>1
  <2> QED
    BY <2>2 DEF j
<1>5. n - 1 \in Nat /\ (n - 1) + 1 = n
  OBVIOUS
<1> QED
  <2> HIDE DEF D
  <2>1. Nat \subseteq D
    BY <1>3, <1>4, Induct
  <2> QED
    BY <1>5, <2>1 DEF D

(* The concatenation of a sequence of sequences is the last value of one.  *)
LEMMA FlatIs ==
    ASSUME NEW X, NEW ss \in Seq(X), Len(ss) # 0
    PROVE  \E f : IsFlat(f, ss, Len(ss)) /\ FlattenSeq(ss) = f[Len(ss)]
<1>1. FlattenSeq(ss) = (CHOOSE f : IsFlat(f, ss, Len(ss)))[Len(ss)]
  BY Zenon DEF FlattenSeq, IsFlat
<1>2. Len(ss) \in Nat
  OBVIOUS
<1> QED
  BY <1>1, <1>2, FlatExists

(* There is nothing in the concatenation of no sequences.                  *)
LEMMA FlatEmpty == FlattenSeq(<<>>) = <<>>
  BY DEF FlattenSeq

(* One more sequence comes at the end.                                     *)
LEMMA FlatMore ==
    ASSUME NEW Y, NEW ss \in Seq(Y), NEW s \in Y, <<>> \o s = s
    PROVE  FlattenSeq(Append(ss, s)) = FlattenSeq(ss) \o s
<1> DEFINE tt == Append(ss, s)
<1>1. PICK n \in Nat : n = Len(ss)
  OBVIOUS
<1>2. /\ tt \in Seq(Y) /\ Len(tt) = n + 1 /\ n + 1 # 0 /\ tt[n + 1] = s
      /\ \A i \in 1..n : ss[i] = tt[i]
  BY <1>1
<1> SUFFICES FlattenSeq(tt) = FlattenSeq(ss) \o s
  OBVIOUS
<1> HIDE DEF tt
<1>3. PICK g : IsFlat(g, tt, n + 1) /\ FlattenSeq(tt) = g[n + 1]
  BY <1>2, FlatIs
<1>4. \A i \in 1..(n + 1) : g[i] = IF i = 1 THEN tt[i] ELSE g[i - 1] \o tt[i]
  BY <1>3 DEF IsFlat
<1>5. CASE n = 0
  <2>0. Len(ss) = 0
    BY <1>1, <1>5
  <2>1. ss = <<>>
    BY <2>0
  <2>2. g[1] = s
    BY <1>2, <1>4, <1>5
  <2>3. FlattenSeq(tt) = s
    BY <1>3, <1>5, <2>2
  <2>4. FlattenSeq(ss) = <<>>
    BY <2>1, FlatEmpty
  <2> QED
    BY <2>3, <2>4, Zenon
<1>6. CASE n # 0
  <2>1. PICK f : IsFlat(f, ss, n) /\ FlattenSeq(ss) = f[n]
    BY <1>1, <1>6, FlatIs
  <2>2. f[n] = g[n]
    <3>1. n + 1 \in Nat /\ n <= n + 1
      OBVIOUS
    <3> QED
      BY <1>2, <1>3, <1>6, <2>1, <3>1, FlatAgree
  <2>3. n + 1 \in 1..(n + 1) /\ n + 1 # 1 /\ (n + 1) - 1 = n
    BY <1>6
  <2>4. g[n + 1] = g[n] \o s
    BY <1>2, <1>4, <2>3
  <2> QED
    BY <1>3, <2>1, <2>2, <2>4
<1> QED
  BY <1>5, <1>6

(* The same for sequences over a set.                                      *)
LEMMA FlatAppend ==
    ASSUME NEW X, NEW ss \in Seq(Seq(X)), NEW s \in Seq(X)
    PROVE  FlattenSeq(Append(ss, s)) = FlattenSeq(ss) \o s
<1> DEFINE Y == Seq(X)
<1>1. <<>> \o s = s
  BY CatEmpty
<1>2. ss \in Seq(Y) /\ s \in Y
  OBVIOUS
<1> HIDE DEF Y
<1> QED
  BY <1>1, <1>2, FlatMore

(* The concatenation has the elements of its parts.                        *)
LEMMA FlatType ==
    ASSUME NEW X, NEW ss \in Seq(Seq(X)) PROVE FlattenSeq(ss) \in Seq(X)
<1> DEFINE F == {tt \in Seq(Seq(X)) : FlattenSeq(tt) \in Seq(X)}
<1>1. <<>> \in F
  <2>1. <<>> \in Seq(Seq(X)) /\ <<>> \in Seq(X)
    OBVIOUS
  <2> QED
    BY <2>1, FlatEmpty, Zenon
<1>2. ASSUME NEW tt \in Seq(Seq(X)), NEW s \in Seq(X), tt \in F PROVE Append(tt, s) \in F
  <2>1. FlattenSeq(tt) \in Seq(X)
    BY <1>2
  <2>2. FlattenSeq(Append(tt, s)) = FlattenSeq(tt) \o s
    BY FlatAppend
  <2>3. FlattenSeq(tt) \o s \in Seq(X)
    BY <2>1
  <2>4. Append(tt, s) \in Seq(Seq(X))
    OBVIOUS
  <2> QED
    BY <2>2, <2>3, <2>4, Zenon
<1> QED
  <2> HIDE DEF F
  <2>1. Seq(Seq(X)) \subseteq F
    BY <1>1, <1>2, ByLast
  <2> QED
    BY <2>1 DEF F

(* The parts may be concatenated in two groups.                            *)
LEMMA FlatCat ==
    ASSUME NEW X, NEW ss \in Seq(Seq(X)), NEW tt \in Seq(Seq(X))
    PROVE  FlattenSeq(ss \o tt) = FlattenSeq(ss) \o FlattenSeq(tt)
<1> DEFINE F == {uu \in Seq(Seq(X)) : FlattenSeq(ss \o uu) = FlattenSeq(ss) \o FlattenSeq(uu)}
<1>0. FlattenSeq(ss) \in Seq(X)
  BY FlatType
<1>1. <<>> \in F
  <2>1. ss \o <<>> = ss /\ FlattenSeq(ss) \o <<>> = FlattenSeq(ss) /\ <<>> \in Seq(Seq(X))
    BY <1>0, CatEmpty
  <2> QED
    BY <2>1, FlatEmpty, Zenon
<1>2. ASSUME NEW uu \in Seq(Seq(X)), NEW s \in Seq(X), uu \in F PROVE Append(uu, s) \in F
  <2> DEFINE a == FlattenSeq(ss)
             b == FlattenSeq(uu)
             vv == ss \o uu
  <2>1. a \in Seq(X) /\ b \in Seq(X)
    BY FlatType
  <2>2. vv \in Seq(Seq(X)) /\ ss \o Append(uu, s) = Append(vv, s)
    OBVIOUS
  <2>3. FlattenSeq(vv) = a \o b
    BY <1>2
  <2>4. FlattenSeq(Append(uu, s)) = b \o s
    BY FlatAppend
  <2>5. FlattenSeq(Append(vv, s)) = FlattenSeq(vv) \o s
    <3> HIDE DEF vv
    <3> QED
      BY <2>2, FlatAppend
  <2>6. (a \o b) \o s = a \o (b \o s)
    <3> HIDE DEF a, b
    <3> QED
      BY <2>1
  <2> HIDE DEF vv, b
  <2>7. FlattenSeq(ss \o Append(uu, s)) = a \o FlattenSeq(Append(uu, s))
    BY <2>2, <2>3, <2>4, <2>5, <2>6
  <2> QED
    BY <2>7
<1> QED
  <2> HIDE DEF F
  <2>1. Seq(Seq(X)) \subseteq F
    BY <1>1, <1>2, ByLast
  <2> QED
    BY <2>1 DEF F

(* A single part is its own concatenation.                                 *)
LEMMA FlatOne == ASSUME NEW X, NEW s \in Seq(X) PROVE FlattenSeq(<<s>>) = s
<1>1. <<>> \in Seq(Seq(X)) /\ Append(<<>>, s) = <<s>> /\ <<>> \o s = s
  OBVIOUS
<1>2. FlattenSeq(Append(<<>>, s)) = FlattenSeq(<<>>) \o s
  BY <1>1, FlatAppend
<1> QED
  BY <1>1, <1>2, FlatEmpty
=============================================================================
