--------------------------- MODULE CleanupProofs ----------------------------
(***************************************************************************)
(* The list of cleanups the compiler keeps is in order at every place of   *)
(* every program (Inv): it is the frames of the scopes around the place,   *)
(* each with the scope's number and the loops around it, so that removing  *)
(* by block number and choosing by loop depth take what they are to take.  *)
(*                                                                         *)
(* For functions without the constructs of features (LexInv) the stacks    *)
(* are the caller's and what the scopes control is in have put on them.    *)
(* Then an exit that leaves scopes runs the reverse of the end of the      *)
(* list, which is what LexicalCleanup's Leave asks of it.                  *)
(***************************************************************************)
EXTENDS Cleanup, DataFacts

-----------------------------------------------------------------------------
(* What the scopes ss have declared, scope by scope, as declarations and   *)
(* as frames of the compiler's list.                                       *)
ScopeSet == [kind : {"block", "loop", "match", "closure", "with"},
             decls : Seq(AllDecls), handle : BOOLEAN,
             state : {"open", "error", "handler"}]
FrameSet == [decl : AllDecls, loop : Nat, block : Nat]

Depth(ss, n) == Cardinality({i \in 1..n : ss[i].kind = "loop"})
Tag(ss, i) == IF ss[i].kind = "with" THEN 0 ELSE i
FramesOf(ss, i) ==
    [j \in DOMAIN ss[i].decls |-> [decl |-> ss[i].decls[j], loop |-> Depth(ss, i), block |-> Tag(ss, i)]]
AllFrames(ss) == [i \in DOMAIN ss |-> FramesOf(ss, i)]
DeclsOf(ss) == [i \in DOMAIN ss |-> ss[i].decls]

\* The compiler's list is what the scopes have declared, in order.
InOrder == frames = FlattenSeq(AllFrames(scopes))

(* A scope is in as many loops as there are scopes at most.                *)
LEMMA DepthType == ASSUME NEW ss, NEW n \in Nat PROVE Depth(ss, n) \in Nat /\ Depth(ss, n) <= n
<1>1. IsFiniteSet(1..n) /\ Cardinality(1..n) = n
  BY FS_Interval
<1>2. {i \in 1..n : ss[i].kind = "loop"} \subseteq 1..n
  OBVIOUS
<1>3. /\ IsFiniteSet({i \in 1..n : ss[i].kind = "loop"})
      /\ Cardinality({i \in 1..n : ss[i].kind = "loop"}) <= Cardinality(1..n)
  BY <1>1, <1>2, FS_Subset
<1>4. Cardinality({i \in 1..n : ss[i].kind = "loop"}) \in Nat
  BY <1>3, FS_CardinalityType
<1> QED
  BY <1>1, <1>3, <1>4 DEF Depth

(* The frames of one scope.                                                *)
LEMMA FramesOfType ==
    ASSUME NEW ss \in Seq(ScopeSet), NEW i \in 1..Len(ss)
    PROVE  /\ ss[i].decls \in Seq(AllDecls)
           /\ FramesOf(ss, i) \in Seq({f \in FrameSet : f.loop = Depth(ss, i) /\ f.block = Tag(ss, i)})
           /\ FramesOf(ss, i) \in Seq(FrameSet)
           /\ Len(FramesOf(ss, i)) = Len(ss[i].decls) /\ Decls(FramesOf(ss, i)) = ss[i].decls
<1> DEFINE ds == ss[i].decls
           X == {f \in FrameSet : f.loop = Depth(ss, i) /\ f.block = Tag(ss, i)}
           e == [j \in 1..Len(ds) |-> [decl |-> ds[j], loop |-> Depth(ss, i), block |-> Tag(ss, i)]]
<1>1. ss[i] \in ScopeSet
  OBVIOUS
<1>2. ds \in Seq(AllDecls)
  BY <1>1 DEF ScopeSet
<1>3. Depth(ss, i) \in Nat /\ Tag(ss, i) \in Nat
  <2>1. i \in Nat
    OBVIOUS
  <2> QED
    BY <2>1, DepthType DEF Tag
<1> HIDE DEF ds
<1>4. DOMAIN ds = 1..Len(ds) /\ Len(ds) \in Nat /\ \A j \in 1..Len(ds) : ds[j] \in AllDecls
  BY <1>2
<1>5. FramesOf(ss, i) = e
  BY <1>4 DEF FramesOf, ds
<1>6. \A j \in 1..Len(ds) : [decl |-> ds[j], loop |-> Depth(ss, i), block |-> Tag(ss, i)] \in X
  BY <1>3, <1>4 DEF FrameSet
<1> HIDE DEF X
<1>7. e \in Seq(X) /\ Len(e) = Len(ds)
  BY <1>4, <1>6
<1>8. Decls(e) = ds
  <2>1. DOMAIN e = 1..Len(ds) /\ \A j \in 1..Len(ds) : e[j].decl = ds[j]
    BY <1>4
  <2> HIDE DEF e
  <2>2. Decls(e) = [j \in 1..Len(ds) |-> ds[j]]
    BY <2>1 DEF Decls
  <2>3. ds = [j \in 1..Len(ds) |-> ds[j]]
    BY <1>2
  <2> QED
    BY <2>2, <2>3
<1> HIDE DEF e
<1>9. X \subseteq FrameSet
  BY DEF X
<1>10. e \in Seq(FrameSet)
  BY <1>7, <1>9, Larger
<1> QED
  BY <1>2, <1>5, <1>7, <1>8, <1>10 DEF ds, X

(* The frames of all scopes, those of k scopes on and those before.        *)
LEMMA AllFramesType ==
    ASSUME NEW ss \in Seq(ScopeSet)
    PROVE  /\ Len(ss) \in Nat /\ DOMAIN ss = 1..Len(ss) /\ Len(AllFrames(ss)) = Len(ss)
           /\ AllFrames(ss) \in Seq(Seq(FrameSet)) /\ FlattenSeq(AllFrames(ss)) \in Seq(FrameSet)
           /\ \A i \in 1..Len(ss) : AllFrames(ss)[i] = FramesOf(ss, i)
           /\ DeclsOf(ss) \in Seq(Seq(AllDecls)) /\ Len(DeclsOf(ss)) = Len(ss)
           /\ \A i \in 1..Len(ss) : DeclsOf(ss)[i] = ss[i].decls
<1>1. Len(ss) \in Nat /\ DOMAIN ss = 1..Len(ss)
  OBVIOUS
<1>2. \A i \in 1..Len(ss) : FramesOf(ss, i) \in Seq(FrameSet) /\ ss[i].decls \in Seq(AllDecls)
  BY FramesOfType
<1>3. AllFrames(ss) = [i \in 1..Len(ss) |-> FramesOf(ss, i)] /\ DeclsOf(ss) = [i \in 1..Len(ss) |-> ss[i].decls]
  BY <1>1 DEF AllFrames, DeclsOf
<1> DEFINE Y == Seq(FrameSet)
           Z == Seq(AllDecls)
<1>4. \A i \in 1..Len(ss) : FramesOf(ss, i) \in Y /\ ss[i].decls \in Z
  BY <1>2
<1> HIDE DEF Y, Z
<1>5. /\ AllFrames(ss) \in Seq(Y) /\ Len(AllFrames(ss)) = Len(ss)
      /\ \A i \in 1..Len(ss) : AllFrames(ss)[i] = FramesOf(ss, i)
  BY <1>1, <1>3, <1>4
<1>6. /\ DeclsOf(ss) \in Seq(Z) /\ Len(DeclsOf(ss)) = Len(ss)
      /\ \A i \in 1..Len(ss) : DeclsOf(ss)[i] = ss[i].decls
  BY <1>1, <1>3, <1>4
<1>7. AllFrames(ss) \in Seq(Seq(FrameSet)) /\ DeclsOf(ss) \in Seq(Seq(AllDecls))
  BY <1>5, <1>6 DEF Y, Z
<1>8. FlattenSeq(AllFrames(ss)) \in Seq(FrameSet)
  BY <1>7, FlatType
<1> QED
  BY <1>1, <1>5, <1>6, <1>7, <1>8

(* The frames of a scope depend on the scopes up to it only, and not on    *)
(* whether it has a handler.                                               *)
LEMMA FramesAlike ==
    ASSUME NEW ss, NEW tt, NEW i \in Nat,
           \A j \in 1..i : tt[j].kind = ss[j].kind, tt[i].decls = ss[i].decls, i # 0
    PROVE  Depth(tt, i) = Depth(ss, i) /\ FramesOf(tt, i) = FramesOf(ss, i)
<1>1. {j \in 1..i : tt[j].kind = "loop"} = {j \in 1..i : ss[j].kind = "loop"}
  OBVIOUS
<1>2. Depth(tt, i) = Depth(ss, i)
  BY <1>1 DEF Depth
<1>3. Tag(tt, i) = Tag(ss, i)
  BY DEF Tag
<1> QED
  BY <1>2, <1>3 DEF FramesOf

(* Nor do all frames.                                                      *)
LEMMA AllFramesAlike ==
    ASSUME NEW ss \in Seq(ScopeSet), NEW tt \in Seq(ScopeSet), Len(tt) = Len(ss),
           \A j \in 1..Len(ss) : tt[j].kind = ss[j].kind /\ tt[j].decls = ss[j].decls
    PROVE  AllFrames(tt) = AllFrames(ss) /\ DeclsOf(tt) = DeclsOf(ss)
<1>1. Len(ss) \in Nat
  OBVIOUS
<1>2. DOMAIN ss = 1..Len(ss) /\ DOMAIN tt = 1..Len(ss)
  OBVIOUS
<1>3. ASSUME NEW i \in 1..Len(ss) PROVE FramesOf(tt, i) = FramesOf(ss, i)
  <2>1. i \in Nat /\ i # 0 /\ \A j \in 1..i : j \in 1..Len(ss)
    BY <1>1
  <2> QED
    BY <2>1, FramesAlike
<1> QED
  BY <1>2, <1>3 DEF AllFrames, DeclsOf

(* One scope more.                                                         *)
LEMMA FramesMore ==
    ASSUME NEW ss \in Seq(ScopeSet), NEW c \in ScopeSet
    PROVE  /\ Append(ss, c) \in Seq(ScopeSet)
           /\ AllFrames(Append(ss, c)) = Append(AllFrames(ss), FramesOf(Append(ss, c), Len(ss) + 1))
           /\ FlattenSeq(AllFrames(Append(ss, c)))
                  = FlattenSeq(AllFrames(ss)) \o FramesOf(Append(ss, c), Len(ss) + 1)
           /\ DeclsOf(Append(ss, c)) = Append(DeclsOf(ss), c.decls)
<1> DEFINE tt == Append(ss, c)
           n == Len(ss)
<1>1. /\ n \in Nat /\ tt \in Seq(ScopeSet) /\ Len(tt) = n + 1 /\ tt[n + 1] = c
      /\ \A i \in 1..n : tt[i] = ss[i]
  OBVIOUS
<1> HIDE DEF tt
<1>2. \A i \in 1..n : FramesOf(tt, i) = FramesOf(ss, i)
  <2> TAKE i \in 1..n
  <2>1. i \in Nat /\ i # 0 /\ \A j \in 1..i : j \in 1..n
    BY <1>1
  <2> HIDE DEF n
  <2> QED
    BY <1>1, <2>1, FramesAlike
<1>3. /\ AllFrames(ss) \in Seq(Seq(FrameSet)) /\ Len(AllFrames(ss)) = n
      /\ \A i \in 1..n : AllFrames(ss)[i] = FramesOf(ss, i)
      /\ DeclsOf(ss) \in Seq(Seq(AllDecls)) /\ Len(DeclsOf(ss)) = n
      /\ \A i \in 1..n : DeclsOf(ss)[i] = ss[i].decls
  BY AllFramesType
<1>4. /\ AllFrames(tt) \in Seq(Seq(FrameSet)) /\ Len(AllFrames(tt)) = n + 1
      /\ \A i \in 1..(n + 1) : AllFrames(tt)[i] = FramesOf(tt, i)
      /\ DeclsOf(tt) \in Seq(Seq(AllDecls)) /\ Len(DeclsOf(tt)) = n + 1
      /\ \A i \in 1..(n + 1) : DeclsOf(tt)[i] = tt[i].decls
  BY <1>1, AllFramesType
<1>5. FramesOf(tt, n + 1) \in Seq(FrameSet) /\ c.decls \in Seq(AllDecls)
  <2>1. n + 1 \in 1..Len(tt)
    BY <1>1
  <2> HIDE DEF n
  <2> QED
    BY <1>1, <2>1, FramesOfType
<1> DEFINE Y == Seq(FrameSet)
           Z == Seq(AllDecls)
           a == AllFrames(ss)
           b == AllFrames(tt)
           x == FramesOf(tt, n + 1)
           d == DeclsOf(ss)
           e == DeclsOf(tt)
<1>6. /\ a \in Seq(Y) /\ b \in Seq(Y) /\ x \in Y /\ Len(a) = n /\ Len(b) = n + 1 /\ b[n + 1] = x
      /\ d \in Seq(Z) /\ e \in Seq(Z) /\ c.decls \in Z /\ Len(d) = n /\ Len(e) = n + 1 /\ e[n + 1] = c.decls
  BY <1>1, <1>3, <1>4, <1>5
<1>7. \A i \in 1..n : b[i] = a[i] /\ e[i] = d[i]
  <2> TAKE i \in 1..n
  <2>1. i \in 1..(n + 1)
    BY <1>1
  <2> QED
    BY <1>1, <1>2, <1>3, <1>4, <2>1
<1> HIDE DEF Y, Z, a, b, x, d, e, n
<1>8. b = Append(a, x) /\ e = Append(d, c.decls)
  BY <1>1, <1>6, <1>7
<1>9. FlattenSeq(Append(a, x)) = FlattenSeq(a) \o x
  <2>1. a \in Seq(Seq(FrameSet)) /\ x \in Seq(FrameSet)
    BY <1>6 DEF Y
  <2> QED
    BY <2>1, FlatAppend
<1> QED
  BY <1>1, <1>8, <1>9 DEF a, b, x, tt, n, d, e

(* The last of them, for which there are n.                                *)
LEMMA FramesLast ==
    ASSUME NEW ss \in Seq(ScopeSet), Len(ss) # 0
    PROVE  /\ Front(ss) \in Seq(ScopeSet) /\ Last(ss) \in ScopeSet /\ Len(Front(ss)) = Len(ss) - 1
           /\ Len(ss) \in 1..Len(ss) /\ Len(ss) \in Nat /\ ss = Append(Front(ss), Last(ss))
           /\ \A i \in 1..(Len(ss) - 1) : Front(ss)[i] = ss[i] /\ i \in 1..Len(ss)
           /\ FlattenSeq(AllFrames(ss)) = FlattenSeq(AllFrames(Front(ss))) \o FramesOf(ss, Len(ss))
<1> DEFINE tt == Front(ss)
           c == Last(ss)
<1>1. /\ tt \in Seq(ScopeSet) /\ c \in ScopeSet /\ Len(tt) = Len(ss) - 1 /\ Len(tt) + 1 = Len(ss)
      /\ \A i \in 1..(Len(ss) - 1) : tt[i] = ss[i] /\ i \in 1..Len(ss)
  <2>1. Len(ss) \in Nat \ {0}
    OBVIOUS
  <2>2. tt \in Seq(ScopeSet) /\ Len(tt) = Len(ss) - 1 /\ \A i \in 1..(Len(ss) - 1) : tt[i] = ss[i]
    <3>0. Len(ss) - 1 \in Nat /\ Len(ss) - 1 <= Len(ss)
      BY <2>1
    <3>1. PICK m \in Nat : m = Len(ss) - 1 /\ m <= Len(ss)
      BY <3>0, Zenon
    <3>2. tt = SubSeq(ss, 1, m)
      BY <3>1 DEF Front
    <3>3. SubSeq(ss, 1, m) \in Seq(ScopeSet) /\ Len(SubSeq(ss, 1, m)) = m
      BY <3>1
    <3>4. \A i \in 1..m : SubSeq(ss, 1, m)[i] = ss[i]
      BY <3>1
    <3> QED
      BY <3>1, <3>2, <3>3, <3>4
  <2>3. c \in ScopeSet
    BY <2>1 DEF Last
  <2> QED
    BY <2>1, <2>2, <2>3
<1>2. Len(ss) \in 1..Len(ss) /\ Len(ss) \in Nat
  OBVIOUS
<1>3. ss = Append(tt, c)
  BY <1>2 DEF Front, Last
<1> HIDE DEF tt, c
<1>4. FlattenSeq(AllFrames(Append(tt, c))) = FlattenSeq(AllFrames(tt)) \o FramesOf(Append(tt, c), Len(tt) + 1)
  BY <1>1, FramesMore
<1>5. FlattenSeq(AllFrames(ss)) = FlattenSeq(AllFrames(tt)) \o FramesOf(ss, Len(ss))
  BY <1>1, <1>3, <1>4
<1> QED
  BY <1>1, <1>2, <1>3, <1>5 DEF tt, c

(* Frames of the first n scopes are tagged with at most n.                 *)
LEMMA TagsBelow ==
    ASSUME NEW ss \in Seq(ScopeSet)
    PROVE  FlattenSeq(AllFrames(ss)) \in Seq({f \in FrameSet : f.block <= Len(ss)})
<1> DEFINE X == {f \in FrameSet : f.block <= Len(ss)}
           Y == Seq(X)
<1>1. /\ Len(ss) \in Nat /\ Len(AllFrames(ss)) = Len(ss)
      /\ AllFrames(ss) \in Seq(Seq(FrameSet))
      /\ \A i \in 1..Len(ss) : AllFrames(ss)[i] = FramesOf(ss, i)
  BY AllFramesType
<1>2. ASSUME NEW i \in 1..Len(ss) PROVE FramesOf(ss, i) \in Y
  <2>1. FramesOf(ss, i) \in Seq({f \in FrameSet : f.loop = Depth(ss, i) /\ f.block = Tag(ss, i)})
    BY FramesOfType
  <2>2. Tag(ss, i) <= Len(ss)
    BY <1>1 DEF Tag
  <2>3. {f \in FrameSet : f.loop = Depth(ss, i) /\ f.block = Tag(ss, i)} \subseteq X
    BY <2>2
  <2> HIDE DEF X
  <2> QED
    BY <2>1, <2>3, Larger
<1> HIDE DEF Y
<1>3. AllFrames(ss) \in Seq(Y)
  <2>1. \A i \in 1..Len(AllFrames(ss)) : AllFrames(ss)[i] \in Y
    BY <1>1, <1>2
  <2> DEFINE SF == Seq(FrameSet)
  <2>2. AllFrames(ss) \in Seq(SF)
    BY <1>1
  <2> HIDE DEF SF
  <2> QED
    BY <2>1, <2>2
<1>4. AllFrames(ss) \in Seq(Seq(X))
  BY <1>3 DEF Y
<1> HIDE DEF X
<1>5. FlattenSeq(AllFrames(ss)) \in Seq(X)
  BY <1>4, FlatType
<1> QED
  BY <1>5 DEF X

-----------------------------------------------------------------------------
(* What the cleanups of an exit are, and what executing them leaves.       *)
LEMMA MaxIn ==
    ASSUME NEW n \in Nat, NEW S, S \subseteq 1..n, S # {}
    PROVE  Max(S) \in S /\ \A x \in S : x <= Max(S)
<1> DEFINE D == {k \in Nat : k <= n /\ (\E x \in S : n - k <= x) => \E m \in S : \A x \in S : x <= m}
<1>1. 0 \in D
  OBVIOUS
<1>2. ASSUME NEW k \in D \cap Nat PROVE k + 1 \in D
  <2> SUFFICES ASSUME k + 1 <= n, NEW y \in S, n - (k + 1) <= y PROVE \E m \in S : \A x \in S : x <= m
    OBVIOUS
  <2>1. CASE \E x \in S : n - k <= x
    BY <2>1
  <2>2. CASE ~\E x \in S : n - k <= x
    <3>1. \A x \in S : x <= y
      BY <2>2
    <3> QED
      BY <3>1
  <2> QED
    BY <2>1, <2>2
<1>3. n \in D
  <2> HIDE DEF D
  <2> QED
    BY <1>1, <1>2, Induct
<1>4. \E m \in S : \A x \in S : x <= m
  <2>1. PICK y \in S : y \in 1..n
    OBVIOUS
  <2>2. n <= n /\ n - n <= y
    BY <2>1
  <2> QED
    BY <1>3, <2>2
<1> QED
  BY <1>4 DEF Max

(* A list in reverse has the same elements.                                *)
LEMMA ReverseType ==
    ASSUME NEW X, NEW s \in Seq(X)
    PROVE  Reverse(s) \in Seq(X) /\ Len(Reverse(s)) = Len(s)
  BY DEF Reverse

(* The declarations of a list of frames.                                   *)
LEMMA DeclsType ==
    ASSUME NEW fs \in Seq(FrameSet)
    PROVE  Decls(fs) \in Seq(AllDecls) /\ Len(Decls(fs)) = Len(fs)
<1>1. \A i \in 1..Len(fs) : fs[i] \in FrameSet
  OBVIOUS
<1>2. \A i \in 1..Len(fs) : fs[i].decl \in AllDecls
  BY <1>1 DEF FrameSet
<1>3. DOMAIN fs = 1..Len(fs) /\ Len(fs) \in Nat
  OBVIOUS
<1> HIDE DEF FrameSet
<1> QED
  BY <1>2, <1>3 DEF Decls

(* An exit runs declarations, and what is left of the list are frames.     *)
LEMMA ExitType ==
    ASSUME frames \in Seq(FrameSet)
    PROVE  /\ \A m, x : CleanupsForExit(m, x) \in Seq(AllDecls)
           /\ \A n : FallthroughCleanups(n) \in Seq(AllDecls) /\ Pruned(n) \in Seq(FrameSet)
<1>1. ASSUME NEW S PROVE Chosen(frames, S) \in Seq(FrameSet) /\ Decls(Reverse(Chosen(frames, S))) \in Seq(AllDecls)
  <2>1. Chosen(frames, S) \in Seq(FrameSet)
    BY ChosenType
  <2>2. Reverse(Chosen(frames, S)) \in Seq(FrameSet)
    BY <2>1, ReverseType
  <2> QED
    BY <2>1, <2>2, DeclsType
<1>2. ASSUME NEW m, NEW x PROVE CleanupsForExit(m, x) \in Seq(AllDecls)
  BY <1>1 DEF CleanupsForExit
<1>3. ASSUME NEW n PROVE FallthroughCleanups(n) \in Seq(AllDecls) /\ Pruned(n) \in Seq(FrameSet)
  BY <1>1 DEF FallthroughCleanups, Pruned
<1> QED
  BY <1>2, <1>3

(* The declarations of some kinds are declarations.                        *)
LEMMA OfKindsType ==
    ASSUME NEW ds \in Seq(AllDecls), NEW kinds
    PROVE  OfKinds(ds, kinds) \in Seq(AllDecls)
  BY ChosenType DEF OfKinds

(* A stack of which some is popped is one of the same elements.            *)
LEMMA PopsType ==
    ASSUME NEW X, NEW s \in Seq(X), NEW n \in Nat
    PROVE  Pops(s, n) \in Seq(X)
<1> Len(s) - n \in Int /\ Len(s) - n <= Len(s)
  OBVIOUS
<1> QED
  BY DEF Pops

(* The calls of an exit keep the types of the stacks and of the log.       *)
LEMMA ExecuteType ==
    ASSUME TypeOK, NEW ds \in Seq(AllDecls), NEW how \in {"end", "break", "return", "error"}, Execute(ds, how)
    PROVE  gc' \in Seq(Int) /\ ctx' \in Seq(Int) /\ ran' \in Seq(1..MaxDecls) /\ leaving' = how
<1> DEFINE runs == OfKinds(ds, {"defer", "with"} \cup IF how = "error" THEN {"!defer"} ELSE {})
           ids == [i \in DOMAIN runs |-> runs[i].id]
<1>1. runs \in Seq(AllDecls)
  BY OfKindsType
<1>2. gc \in Seq(Int) /\ ctx \in Seq(Int) /\ ran \in Seq(1..MaxDecls)
  BY DEF TypeOK
<1>3. Count(ds, "gc_root") \in Nat /\ Count(ds, "allocctx") \in Nat
  <2>1. \A kind : OfKinds(ds, {kind}) \in Seq(AllDecls)
    BY OfKindsType
  <2>2. \A s \in Seq(AllDecls) : Len(s) \in Nat
    OBVIOUS
  <2> QED
    BY <2>1, <2>2 DEF Count
<1>4. /\ ran' = ran \o ids
      /\ gc' = Pops(gc, Count(ds, "gc_root")) /\ ctx' = Pops(ctx, Count(ds, "allocctx")) /\ leaving' = how
  BY DEF Execute
<1> HIDE DEF runs
<1>5. ids \in Seq(1..MaxDecls)
  <2>1. DOMAIN runs = 1..Len(runs) /\ Len(runs) \in Nat /\ \A i \in 1..Len(runs) : runs[i] \in AllDecls
    BY <1>1
  <2>2. \A i \in 1..Len(runs) : runs[i].id \in 1..MaxDecls
    BY <2>1 DEF AllDecls
  <2> QED
    BY <2>1, <2>2
<1> HIDE DEF ids
<1>6. ran' \in Seq(1..MaxDecls)
  BY <1>2, <1>4, <1>5
<1>7. gc' \in Seq(Int) /\ ctx' \in Seq(Int)
  BY <1>2, <1>3, <1>4, PopsType
<1> QED
  BY <1>4, <1>6, <1>7

-----------------------------------------------------------------------------
(* The variables have their types.                                         *)
LEMMA TypeInit == Init => TypeOK
<1> SUFFICES ASSUME Init PROVE TypeOK
  OBVIOUS
<1>1. Scope("block") \in ScopeSet
  BY DEF Scope, ScopeSet
<1>2. scopes \in Seq(ScopeSet) /\ Len(scopes) = 1
  BY <1>1 DEF Init
<1>3. live \in 0..Len(scopes)
  BY <1>2 DEF Init
<1>4. frames \in Seq(FrameSet) /\ ran \in Seq(1..MaxDecls)
  BY DEF Init
<1>5. gc \in Seq(Int) /\ ctx \in Seq(Int)
  BY CallerAssumption DEF Init
<1>6. next \in 1..(MaxDecls + 1)
  BY BoundsAssumption DEF Init
<1> QED
  BY <1>2, <1>3, <1>4, <1>5, <1>6 DEF Init, TypeOK, ScopeSet, FrameSet

\* The types by name.
LEMMA TypeNames ==
    TypeOK <=> /\ scopes \in Seq(ScopeSet) /\ live \in 0..Len(scopes) /\ frames \in Seq(FrameSet)
               /\ status \in {"run", "error", "handler", "done", "abort"}
               /\ gc \in Seq(Int) /\ ctx \in Seq(Int) /\ ran \in Seq(1..MaxDecls)
               /\ leaving \in {"end", "break", "return", "error"}
               /\ fnHandle \in BOOLEAN /\ features \in FeatureSets /\ next \in 1..(MaxDecls + 1)
  BY Zenon DEF TypeOK, ScopeSet, FrameSet

(* The types after a step, for a step that shows them one by one.          *)
LEMMA TypeNext ==
    ASSUME scopes' \in Seq(ScopeSet), live' \in 0..Len(scopes'), frames' \in Seq(FrameSet),
           status' \in {"run", "error", "handler", "done", "abort"},
           gc' \in Seq(Int), ctx' \in Seq(Int), ran' \in Seq(1..MaxDecls),
           leaving' \in {"end", "break", "return", "error"},
           fnHandle' \in BOOLEAN, features' \in FeatureSets, next' \in 1..(MaxDecls + 1)
    PROVE  TypeOK'
  BY Zenon DEF TypeOK, ScopeSet, FrameSet

-----------------------------------------------------------------------------
(* The compiler's list of cleanups at a place is what the scopes around it *)
(* have declared.                                                          *)
Inv == TypeOK /\ InOrder

(* A scope without declarations changes nothing.                           *)
LEMMA EmptyMore ==
    ASSUME NEW ss \in Seq(ScopeSet), NEW c \in ScopeSet, c.decls = <<>>
    PROVE  /\ Append(ss, c) \in Seq(ScopeSet) /\ Len(Append(ss, c)) = Len(ss) + 1
           /\ FlattenSeq(AllFrames(Append(ss, c))) = FlattenSeq(AllFrames(ss))
<1> DEFINE tt == Append(ss, c)
           x == FramesOf(tt, Len(ss) + 1)
<1>1. tt \in Seq(ScopeSet) /\ Len(tt) = Len(ss) + 1 /\ Len(ss) + 1 \in 1..Len(tt) /\ tt[Len(ss) + 1] = c
  OBVIOUS
<1> HIDE DEF tt
<1>2. x \in Seq(FrameSet) /\ Len(x) = Len(tt[Len(ss) + 1].decls)
  BY <1>1, FramesOfType
<1> HIDE DEF x
<1>3. x = <<>>
  BY <1>1, <1>2
<1>4. FlattenSeq(AllFrames(ss)) \in Seq(FrameSet)
  BY AllFramesType
<1>5. FlattenSeq(AllFrames(tt)) = FlattenSeq(AllFrames(ss)) \o x
  BY FramesMore DEF tt, x
<1>6. FlattenSeq(AllFrames(ss)) \o <<>> = FlattenSeq(AllFrames(ss))
  BY <1>4, CatEmpty
<1> QED
  BY <1>1, <1>3, <1>5, <1>6 DEF tt

(* The last scope is closed, and the list loses what it had declared.      *)
LEMMA LastGone ==
    ASSUME TypeOK, InOrder, Len(scopes) # 0, scopes' = Front(scopes),
           frames' = IF Last(scopes).kind = "with" THEN Pops(frames, Len(Last(scopes).decls))
                                                   ELSE Pruned(Len(scopes))
    PROVE  /\ scopes' \in Seq(ScopeSet) /\ Len(scopes') = Len(scopes) - 1
           /\ frames' \in Seq(FrameSet) /\ InOrder'
<1> DEFINE n == Len(scopes)
           a == FlattenSeq(AllFrames(Front(scopes)))
           b == FramesOf(scopes, n)
<1>1. scopes \in Seq(ScopeSet)
  BY TypeNames
<1>2. /\ Front(scopes) \in Seq(ScopeSet) /\ Len(Front(scopes)) = n - 1 /\ n \in 1..n /\ n \in Nat
      /\ FlattenSeq(AllFrames(scopes)) = a \o b
  BY <1>1, FramesLast
<1>3. frames = a \o b
  BY <1>2 DEF InOrder
<1>4. a \in Seq({f \in FrameSet : f.block <= n - 1}) /\ a \in Seq(FrameSet)
  <2>1. a \in Seq({f \in FrameSet : f.block <= Len(Front(scopes))})
    BY <1>2, TagsBelow
  <2>2. a \in Seq(FrameSet)
    BY <1>2, AllFramesType
  <2> QED
    BY <1>2, <2>1, <2>2
<1>5. /\ b \in Seq({f \in FrameSet : f.loop = Depth(scopes, n) /\ f.block = Tag(scopes, n)})
      /\ b \in Seq(FrameSet) /\ Len(b) = Len(Last(scopes).decls)
  BY <1>1, <1>2, FramesOfType DEF Last
<1>6. Last(scopes) = scopes[n]
  BY DEF Last
<1>7. frames' = a
  <2>1. CASE Last(scopes).kind = "with"
    <3>1. frames' = SubSeq(a \o b, 1, Len(a \o b) - Len(b))
      BY <1>3, <1>5, <2>1 DEF Pops
    <3> HIDE DEF a, b
    <3>2. Len(a \o b) - Len(b) = Len(a)
      BY <1>4, <1>5
    <3>3. SubSeq(a \o b, 1, Len(a)) = a
      BY <1>4, <1>5
    <3> QED
      BY <3>1, <3>2, <3>3
  <2>2. CASE Last(scopes).kind # "with"
    <3> DEFINE S == {f \in Range(frames) : f.block # n}
               T == {f \in FrameSet : f.block # n}
    <3>1. frames' = Chosen(frames, S)
      BY <2>2 DEF Pruned
    <3>2. frames \in Seq(FrameSet)
      BY TypeNames
    <3>3. \A i \in 1..Len(frames) : frames[i] \in S <=> frames[i] \in T
      <4>1. \A i \in 1..Len(frames) : frames[i] \in FrameSet /\ frames[i] \in Range(frames)
        BY <3>2 DEF Range
      <4> QED
        BY <4>1
    <3> HIDE DEF S, T
    <3>4. Chosen(frames, S) = Chosen(frames, T)
      BY <3>2, <3>3, ChosenSame
    <3> HIDE DEF a, b, n
    <3>5. Chosen(frames, T) = Chosen(a, T) \o Chosen(b, T)
      BY <1>3, <1>4, <1>5, ChosenCat
    <3>6. Chosen(a, T) = a
      <4>1. {f \in FrameSet : f.block <= n - 1} \subseteq T
        BY <1>2 DEF T, FrameSet
      <4>2. a \in Seq(T)
        BY <1>4, <4>1, Larger
      <4> QED
        BY <4>2, ChosenAll
    <3>7. Chosen(b, T) = <<>>
      <4>1. Tag(scopes, n) = n
        BY <1>6, <2>2 DEF Tag
      <4>2. \A i \in 1..Len(b) : b[i] \notin T
        BY <1>5, <4>1 DEF T
      <4> QED
        BY <1>5, <4>2, ChosenNone
    <3>8. a \o <<>> = a
      BY <1>4, CatEmpty
    <3> QED
      BY <3>1, <3>4, <3>5, <3>6, <3>7, <3>8
  <2> QED
    BY <2>1, <2>2
<1> HIDE DEF n
<1>8. InOrder'
  BY <1>7 DEF InOrder, a
<1> QED
  BY <1>2, <1>4, <1>7, <1>8 DEF n

(* Declaring adds a frame, a with adds two scopes and its frames.          *)
LEMMA DeclareStep == ASSUME Inv, NEW kind \in {"defer", "!defer", "gc_root"}, Declare(kind) PROVE Inv'
<1> DEFINE n == Len(scopes)
           d == Decl(kind)
           w == [Last(scopes) EXCEPT !.decls = Append(@, d)]
           t == Front(scopes)
<1>1. TypeOK /\ InOrder /\ scopes \in Seq(ScopeSet) /\ n # 0 /\ next <= MaxDecls
  BY DEF Inv, Declare, Here, TypeOK, ScopeSet
<1>2. /\ t \in Seq(ScopeSet) /\ Last(scopes) \in ScopeSet /\ Len(t) = n - 1 /\ n \in 1..n /\ n \in Nat
      /\ Len(t) + 1 = n /\ scopes = Append(t, Last(scopes)) /\ \A i \in 1..(n - 1) : t[i] = scopes[i]
  BY <1>1, FramesLast
<1>3. d \in AllDecls
  <2>1. next \in 1..MaxDecls
    BY <1>1, TypeNames, BoundsAssumption
  <2> QED
    BY <2>1 DEF Decl, AllDecls, DeclKinds
<1>4. w \in ScopeSet /\ w.kind = Last(scopes).kind /\ w.decls = Append(Last(scopes).decls, d)
  <2> DEFINE l == Last(scopes)
  <2>1. l.decls \in Seq(AllDecls) /\ l \in ScopeSet
    BY <1>2 DEF ScopeSet
  <2> HIDE DEF l, d
  <2>2. Append(l.decls, d) \in Seq(AllDecls)
    BY <1>3, <2>1
  <2>3. [l EXCEPT !.decls = Append(@, d)] = [l EXCEPT !.decls = Append(l.decls, d)]
    BY <2>1 DEF ScopeSet
  <2> DEFINE e == Append(l.decls, d)
  <2> HIDE DEF e
  <2>4. /\ [l EXCEPT !.decls = e] \in ScopeSet
        /\ [l EXCEPT !.decls = e].kind = l.kind /\ [l EXCEPT !.decls = e].decls = e
    BY <2>1, <2>2 DEF ScopeSet, e
  <2> QED
    BY <2>3, <2>4 DEF l, e
<1>5. scopes' = Append(t, w)
  <2>1. scopes' = [scopes EXCEPT ![n] = w]
    BY DEF Declare, Last
  <2> HIDE DEF w, t
  <2>2. scopes' \in Seq(ScopeSet) /\ Len(scopes') = n /\ \A i \in 1..n : scopes'[i] = IF i = n THEN w ELSE scopes[i]
    BY <1>1, <1>4, <2>1
  <2> QED
    BY <1>2, <1>4, <2>2
<1> DEFINE a == FlattenSeq(AllFrames(t))
           b == FramesOf(scopes, n)
           c == FramesOf(scopes', n)
           x == BlockFrame(d)
<1>6. frames = a \o b /\ frames' = Append(frames, x)
  BY <1>1, <1>2, FramesLast DEF InOrder, Declare
<1> HIDE DEF t, w
<1>7. scopes' \in Seq(ScopeSet) /\ Len(scopes') = n
  BY <1>2, <1>4, <1>5
<1>8. FlattenSeq(AllFrames(scopes')) = a \o c
  BY <1>2, <1>4, <1>5, FramesMore
<1>9. a \in Seq(FrameSet) /\ b \in Seq(FrameSet)
  BY <1>1, <1>2, AllFramesType, FramesOfType
<1>10. scopes[n].kind # "with" /\ scopes[n] = Last(scopes) /\ scopes'[n] = w
  <2>1. scopes[n] = Last(scopes)
    BY DEF Last
  <2>2. scopes'[n] = w
    BY <1>2, <1>4, <1>5
  <2> QED
    BY <2>1, <2>2 DEF Declare, Here
<1>11. Depth(scopes', n) = Depth(scopes, n)
  <2>1. \A i \in 1..n : scopes'[i].kind = scopes[i].kind
    <3> TAKE i \in 1..n
    <3>1. CASE i = n
      BY <1>4, <1>10, <3>1
    <3>2. CASE i # n
      BY <1>2, <1>4, <1>5, <3>2
    <3> QED
      BY <3>1, <3>2
  <2>2. {i \in 1..n : scopes'[i].kind = "loop"} = {i \in 1..n : scopes[i].kind = "loop"}
    BY <2>1
  <2> QED
    BY <2>2 DEF Depth
<1>12. x \in FrameSet /\ x = [decl |-> d, loop |-> Depth(scopes, n), block |-> n]
  <2>1. x = [decl |-> d, loop |-> Depth(scopes, n), block |-> n]
    BY DEF BlockFrame, LoopDepth, LoopDepthAt, Depth
  <2>2. Depth(scopes, n) \in Nat /\ n \in Nat
    BY <1>2, DepthType
  <2> QED
    BY <1>3, <2>1, <2>2 DEF FrameSet
<1>13. c = Append(b, x)
  <2> DEFINE ds == Last(scopes).decls
             m == Len(ds)
  <2>1. ds \in Seq(AllDecls) /\ m \in Nat
    BY <1>2 DEF ScopeSet
  <2>2. Tag(scopes, n) = n /\ Tag(scopes', n) = n
    BY <1>4, <1>10 DEF Tag
  <2>3. b = [j \in DOMAIN ds |-> [decl |-> ds[j], loop |-> Depth(scopes, n), block |-> n]]
    BY <1>10, <2>2 DEF FramesOf
  <2>4. c = [j \in DOMAIN Append(ds, d) |-> [decl |-> Append(ds, d)[j], loop |-> Depth(scopes, n), block |-> n]]
    BY <1>4, <1>10, <1>11, <2>2 DEF FramesOf
  <2> HIDE DEF ds, d, m, n
  <2>5. /\ DOMAIN ds = 1..m /\ DOMAIN Append(ds, d) = 1..(m + 1) /\ Append(ds, d)[m + 1] = d
        /\ \A j \in 1..m : Append(ds, d)[j] = ds[j]
    BY <1>3, <2>1 DEF m
  <2>6. Len(b) = m
    BY <2>1, <2>3, <2>5
  <2>7. c \in Seq(FrameSet) /\ Len(c) = m + 1
    <3>1. c \in Seq(FrameSet)
      BY <1>2, <1>7, FramesOfType
    <3>2. DOMAIN c = 1..(m + 1)
      BY <2>4, <2>5
    <3> HIDE DEF c
    <3> QED
      BY <2>1, <3>1, <3>2
  <2>8. \A j \in 1..m : c[j] = b[j]
    BY <2>1, <2>3, <2>4, <2>5
  <2>9. c[m + 1] = x
    BY <1>12, <2>1, <2>4, <2>5
  <2> HIDE DEF b, c, x
  <2> QED
    BY <1>9, <1>12, <2>1, <2>6, <2>7, <2>8, <2>9
<1> HIDE DEF a, b, c, x
<1>14. frames' = a \o c /\ frames' \in Seq(FrameSet)
  <2>1. Append(a \o b, x) = a \o Append(b, x) /\ a \o Append(b, x) \in Seq(FrameSet)
    BY <1>9, <1>12, SMTT(20)
  <2> QED
    BY <1>6, <1>13, <2>1, Zenon
<1>15. InOrder'
  BY <1>8, <1>14 DEF InOrder
<1>16. TypeOK'
  <2>1. gc' \in Seq(Int)
    <3>1. gc \in Seq(Int) /\ next \in 1..(MaxDecls + 1)
      BY <1>1, TypeNames, Zenon
    <3>2. gc' = IF kind = "gc_root" THEN Append(gc, next) ELSE gc
      BY Zenon DEF Declare
    <3> QED
      BY <3>1, <3>2
  <2>2. next' \in 1..(MaxDecls + 1)
    <3>1. next \in 1..(MaxDecls + 1)
      BY <1>1, TypeNames, Zenon
    <3>2. next' = next + 1
      BY Zenon DEF Declare
    <3> QED
      BY <1>1, <3>1, <3>2, BoundsAssumption
  <2>3. UNCHANGED <<live, status, ctx, ran, leaving, fnHandle, features>>
    BY DEF Declare, program
  <2> HIDE DEF n
  <2>4. live' \in 0..Len(scopes')
    BY <1>1, <1>7, <2>3, TypeNames DEF n
  <2> QED
    BY <1>1, <1>7, <1>14, <2>1, <2>2, <2>3, <2>4, TypeNames, TypeNext
<1> QED
  BY <1>15, <1>16 DEF Inv

(* A new scope.                                                            *)
LEMMA ScopeType ==
    ASSUME NEW kind \in {"block", "loop", "match", "closure"}
    PROVE  Scope(kind) \in ScopeSet /\ Scope(kind).decls = <<>> /\ Scope(kind).kind = kind
<1>1. <<>> \in Seq(AllDecls)
  OBVIOUS
<1> QED
  BY <1>1 DEF Scope, ScopeSet

(* Entering a scope keeps the list in order.                               *)
LEMMA EnterStep == ASSUME Inv, NEW kind \in {"block", "loop", "match", "closure"}, Enter(kind) PROVE Inv'
<1>1. TypeOK /\ InOrder /\ scopes \in Seq(ScopeSet)
  BY TypeNames DEF Inv
<1>2. /\ scopes' = Append(scopes, Scope(kind)) /\ live' = live + 1 /\ live = Len(scopes)
      /\ UNCHANGED <<frames, status, gc, ctx, ran, leaving, fnHandle, features, next>>
  BY DEF Enter, Here, runtime, program
<1>3. /\ scopes' \in Seq(ScopeSet) /\ Len(scopes') = Len(scopes) + 1
      /\ FlattenSeq(AllFrames(scopes')) = FlattenSeq(AllFrames(scopes))
  BY <1>1, <1>2, ScopeType, EmptyMore
<1>4. live' \in 0..Len(scopes')
  BY <1>1, <1>2, <1>3
<1>5. TypeOK'
  BY <1>1, <1>2, <1>3, <1>4, TypeNames, TypeNext
<1>6. InOrder'
  BY <1>1, <1>2, <1>3 DEF InOrder
<1> QED
  BY <1>5, <1>6 DEF Inv

(* A with puts two scopes and its frames at the end.                       *)
LEMMA WithStep ==
    ASSUME Inv, NEW alloc \in {"none", "struct", "dyn"}, NEW cleanup \in BOOLEAN, NEW handle \in BOOLEAN,
           With(alloc, cleanup, handle)
    PROVE  Inv'
<1> DEFINE ds == (IF alloc = "none" THEN <<>> ELSE <<Decl("allocctx")>>)
                 \o (IF cleanup THEN <<Decl("with")>> ELSE <<>>)
           w == [kind |-> "with", decls |-> ds, handle |-> handle, state |-> "open"]
           fs == [i \in DOMAIN ds |-> WithFrame(ds[i])]
           n == Len(scopes)
           ss == Append(scopes, w)
<1>1. TypeOK /\ InOrder /\ scopes \in Seq(ScopeSet) /\ n \in Nat /\ frames \in Seq(FrameSet)
  BY TypeNames DEF Inv
<1>2. next \in 1..MaxDecls /\ live = n
  BY <1>1, TypeNames, BoundsAssumption DEF With, Here
<1>3. ds \in Seq(AllDecls)
  <2>1. Decl("allocctx") \in AllDecls /\ Decl("with") \in AllDecls
    BY <1>2 DEF Decl, AllDecls, DeclKinds
  <2> HIDE DEF AllDecls
  <2> QED
    BY <2>1
<1> HIDE DEF ds
<1>4. w \in ScopeSet /\ w.decls = ds /\ w.kind = "with"
  BY <1>3 DEF ScopeSet
<1>5. /\ ss \in Seq(ScopeSet) /\ Len(ss) = n + 1 /\ ss[n + 1] = w /\ n + 1 \in 1..Len(ss)
      /\ \A i \in 1..n : ss[i] = scopes[i]
  <2> HIDE DEF w
  <2> QED
    BY <1>1, <1>4
<1>6. FlattenSeq(AllFrames(ss)) = frames \o FramesOf(ss, n + 1)
  <2> HIDE DEF w
  <2> QED
    BY <1>1, <1>4, FramesMore DEF InOrder
<1>7. FramesOf(ss, n + 1) = fs
  <2>1. Depth(ss, n + 1) = LoopDepth
    <3>1. {i \in 1..(n + 1) : ss[i].kind = "loop"} = {i \in 1..n : scopes[i].kind = "loop"}
      BY <1>1, <1>4, <1>5
    <3> QED
      BY <3>1 DEF Depth, LoopDepth, LoopDepthAt
  <2>2. Tag(ss, n + 1) = 0 /\ ss[n + 1].decls = ds
    BY <1>4, <1>5 DEF Tag
  <2> QED
    BY <2>1, <2>2 DEF FramesOf, WithFrame
<1>8. fs \in Seq(FrameSet)
  BY <1>5, <1>7, FramesOfType
<1>9. Append(ss, Scope("block")) \in Seq(ScopeSet) /\ Len(Append(ss, Scope("block"))) = n + 2
      /\ FlattenSeq(AllFrames(Append(ss, Scope("block")))) = frames \o fs
  <2>1. /\ Append(ss, Scope("block")) \in Seq(ScopeSet) /\ Len(Append(ss, Scope("block"))) = Len(ss) + 1
        /\ FlattenSeq(AllFrames(Append(ss, Scope("block")))) = FlattenSeq(AllFrames(ss))
    BY <1>5, ScopeType, EmptyMore
  <2> HIDE DEF ss, fs
  <2> QED
    BY <1>1, <1>5, <1>6, <1>7, <2>1
<1>10. Append(ss, Scope("block")) = scopes \o <<w, Scope("block")>>
  <2>1. Scope("block") \in ScopeSet
    BY ScopeType
  <2> HIDE DEF w
  <2> QED
    BY <1>1, <1>4, <2>1
<1>11. UNCHANGED <<gc, ran, leaving, fnHandle, features>> /\ next' = next + 1 /\ next' \in 1..(MaxDecls + 1)
  BY <1>2, BoundsAssumption DEF With, program
<1>12. CASE alloc = "struct" /\ Len(ctx) >= ContextCapacity
  <2>1. status' = "abort" /\ UNCHANGED <<scopes, live, frames, ctx>>
    BY <1>12 DEF With
  <2>2. TypeOK'
    BY <1>1, <1>11, <2>1, TypeNames, TypeNext
  <2>3. InOrder'
    BY <1>1, <2>1 DEF InOrder
  <2> QED
    BY <2>2, <2>3 DEF Inv
<1>13. CASE ~(alloc = "struct" /\ Len(ctx) >= ContextCapacity)
  <2>1. /\ ctx' = (IF alloc = "struct" THEN Append(ctx, next) ELSE ctx)
        /\ frames' = frames \o fs /\ scopes' = scopes \o <<w, Scope("block")>>
        /\ live' = live + 2 /\ UNCHANGED status
    BY <1>13, Zenon DEF With, ds
  <2>2. ctx' \in Seq(Int)
    BY <1>1, <1>2, <2>1, TypeNames
  <2>3. scopes' \in Seq(ScopeSet) /\ Len(scopes') = n + 2 /\ frames' \in Seq(FrameSet)
        /\ FlattenSeq(AllFrames(scopes')) = frames'
    <3> HIDE DEF fs, ss, w, n
    <3>1. frames \o fs \in Seq(FrameSet)
      BY <1>1, <1>8
    <3> QED
      BY <1>9, <1>10, <2>1, <3>1
  <2>4. live' \in 0..Len(scopes')
    BY <1>1, <1>2, <2>1, <2>3
  <2>5. TypeOK'
    BY <1>1, <1>11, <2>1, <2>2, <2>3, <2>4, TypeNames, TypeNext
  <2>6. InOrder'
    BY <2>3 DEF InOrder
  <2> QED
    BY <2>5, <2>6 DEF Inv
<1> QED
  BY <1>12, <1>13

(* The end of a block takes its frames off the list.                       *)
LEMMA FallthroughStep == ASSUME Inv, Fallthrough PROVE Inv'
<1>1. TypeOK /\ InOrder /\ scopes \in Seq(ScopeSet) /\ frames \in Seq(FrameSet)
  BY TypeNames DEF Inv
<1>2. /\ Len(scopes) # 0 /\ Last(scopes).kind # "with" /\ scopes' = Front(scopes)
      /\ frames' = Pruned(Len(scopes)) /\ live' = Len(scopes) - 1 /\ status' \in {"done", status}
      /\ Execute(FallthroughCleanups(Len(scopes)), "end") /\ UNCHANGED <<fnHandle, features, next>>
  BY <1>1 DEF Fallthrough, Here, program
<1>3. /\ scopes' \in Seq(ScopeSet) /\ Len(scopes') = Len(scopes) - 1
      /\ frames' \in Seq(FrameSet) /\ InOrder'
  BY <1>1, <1>2, LastGone
<1>4. FallthroughCleanups(Len(scopes)) \in Seq(AllDecls)
  BY <1>1, ExitType
<1>5. gc' \in Seq(Int) /\ ctx' \in Seq(Int) /\ ran' \in Seq(1..MaxDecls) /\ leaving' = "end"
  BY <1>1, <1>2, <1>4, ExecuteType
<1>6. live' \in 0..Len(scopes')
  BY <1>1, <1>2, <1>3
<1>7. TypeOK'
  BY <1>1, <1>2, <1>3, <1>5, <1>6, TypeNames, TypeNext
<1> QED
  BY <1>3, <1>7 DEF Inv

(* So does the end of a with.                                              *)
LEMMA EndWithStep == ASSUME Inv, EndWith PROVE Inv'
<1> DEFINE w == Last(scopes)
           toDone == w.handle /\ w.state = "open" /\ Count(w.decls, "with") = 0
           ds == IF toDone THEN <<>> ELSE Reverse(w.decls)
<1>1. TypeOK /\ InOrder /\ scopes \in Seq(ScopeSet) /\ frames \in Seq(FrameSet)
  BY TypeNames DEF Inv
<1>2. /\ Len(scopes) # 0 /\ w.kind = "with" /\ scopes' = Front(scopes)
      /\ frames' = Pops(frames, Len(w.decls)) /\ live' = live - 1 /\ live = Len(scopes)
      /\ Execute(ds, "end") /\ UNCHANGED <<status, fnHandle, features, next>>
  BY <1>1 DEF EndWith, program
<1> HIDE DEF ds
<1>3. /\ scopes' \in Seq(ScopeSet) /\ Len(scopes') = Len(scopes) - 1
      /\ frames' \in Seq(FrameSet) /\ InOrder'
  BY <1>1, <1>2, LastGone
<1>4. ds \in Seq(AllDecls)
  <2>1. w \in ScopeSet
    BY <1>1, <1>2, FramesLast
  <2>2. w.decls \in Seq(AllDecls) /\ <<>> \in Seq(AllDecls)
    BY <2>1 DEF ScopeSet
  <2> QED
    BY <2>2, ReverseType DEF ds
<1>5. gc' \in Seq(Int) /\ ctx' \in Seq(Int) /\ ran' \in Seq(1..MaxDecls) /\ leaving' = "end"
  BY <1>1, <1>2, <1>4, ExecuteType
<1>6. live' \in 0..Len(scopes')
  BY <1>1, <1>2, <1>3
<1>7. TypeOK'
  BY <1>1, <1>2, <1>3, <1>5, <1>6, TypeNames, TypeNext
<1> QED
  BY <1>3, <1>7 DEF Inv

(* So does the unreachable end of a scope that a jump has left.            *)
LEMMA CloseStep == ASSUME Inv, Close PROVE Inv'
<1>1. TypeOK /\ InOrder /\ scopes \in Seq(ScopeSet) /\ live \in 0..Len(scopes) /\ live < Len(scopes)
  BY TypeNames DEF Inv, Close
<1>2. Len(scopes) # 0 /\ Last(scopes) = scopes[Len(scopes)]
  BY <1>1 DEF Last
<1>3. /\ scopes' = Front(scopes)
      /\ frames' = IF Last(scopes).kind = "with" THEN Pops(frames, Len(Last(scopes).decls))
                                                 ELSE Pruned(Len(scopes))
      /\ UNCHANGED <<live, status, gc, ctx, ran, leaving, fnHandle, features, next>>
  BY <1>2 DEF Close, runtime, program
<1>4. /\ scopes' \in Seq(ScopeSet) /\ Len(scopes') = Len(scopes) - 1
      /\ frames' \in Seq(FrameSet) /\ InOrder'
  BY <1>1, <1>2, <1>3, LastGone
<1>5. live' \in 0..Len(scopes')
  BY <1>1, <1>3, <1>4
<1>6. TypeOK'
  BY <1>1, <1>3, <1>4, <1>5, TypeNames, TypeNext
<1> QED
  BY <1>4, <1>6 DEF Inv

(* A jump of which only live, the two stacks and the log are changed: the  *)
(* list at the place stays what it was.                                    *)
LEMMA JumpKeeps ==
    ASSUME Inv, NEW ds \in Seq(AllDecls), NEW how \in {"end", "break", "return", "error"}, Execute(ds, how),
           live' \in 0..Len(scopes), status' \in {"run", "error", "handler", "done", "abort"},
           UNCHANGED <<scopes, frames, fnHandle, features, next>>
    PROVE  Inv'
<1>1. TypeOK /\ InOrder
  BY DEF Inv
<1>2. gc' \in Seq(Int) /\ ctx' \in Seq(Int) /\ ran' \in Seq(1..MaxDecls) /\ leaving' = how
  BY <1>1, ExecuteType
<1>3. TypeOK'
  BY <1>1, <1>2, TypeNames, TypeNext
<1>4. InOrder'
  BY <1>1 DEF InOrder
<1> QED
  BY <1>3, <1>4 DEF Inv

(* break and continue.                                                     *)
LEMMA BreakStep == ASSUME Inv, NEW i \in DOMAIN scopes, Break(i) PROVE Inv'
<1> DEFINE n == Len(scopes)
           arms == {j \in DOMAIN scopes : j > i /\ scopes[j].kind = "match"}
<1>1. /\ scopes \in Seq(ScopeSet) /\ frames \in Seq(FrameSet)
      /\ status \in {"run", "error", "handler", "done", "abort"}
  BY TypeNames DEF Inv
<1>2. n \in Nat /\ DOMAIN scopes = 1..n /\ i \in 1..n
  BY <1>1
<1>3. live' \in 0..n
  <2>1. live' = i - 1 \/ (arms # {} /\ live' = Max(arms) - 1)
    BY Zenon DEF Break
  <2>2. CASE live' = i - 1
    BY <1>2, <2>2
  <2>3. CASE arms # {} /\ live' = Max(arms) - 1
    <3>1. arms \subseteq 1..n
      BY <1>2
    <3> HIDE DEF arms, n
    <3>2. Max(arms) \in 1..n
      BY <1>2, <2>3, <3>1, MaxIn
    <3> QED
      BY <1>2, <2>3, <3>2
  <2> QED
    BY <2>1, <2>2, <2>3
<1>4. /\ Execute(CleanupsForExit(LoopDepthAt(i), NoFrame), "break")
      /\ UNCHANGED <<scopes, frames, status, fnHandle, features, next>>
  BY DEF Break, program
<1>5. CleanupsForExit(LoopDepthAt(i), NoFrame) \in Seq(AllDecls)
  BY <1>1, ExitType
<1> QED
  BY <1>1, <1>3, <1>4, <1>5, JumpKeeps

(* return.                                                                 *)
LEMMA ReturnStep == ASSUME Inv, NEW how \in {"return", "error"}, Return(how) PROVE Inv'
<1> DEFINE n == Len(scopes)
<1>1. /\ scopes \in Seq(ScopeSet) /\ frames \in Seq(FrameSet)
      /\ status \in {"run", "error", "handler", "done", "abort"}
  BY TypeNames DEF Inv
<1>2. n \in Nat /\ DOMAIN scopes = 1..n
  BY <1>1
<1>3. live' \in 0..n /\ status' \in {"run", "error", "handler", "done", "abort"}
  <2>1. CASE Closures = {}
    BY <1>2, <2>1 DEF Return
  <2>2. CASE Closures # {}
    <3>1. Closures \subseteq 1..n
      BY <1>2 DEF Closures
    <3>2. Max(Closures) \in 1..n
      BY <1>2, <2>2, <3>1, MaxIn
    <3> QED
      BY <1>1, <1>2, <2>2, <3>2 DEF Return
  <2> QED
    BY <2>1, <2>2
<1>4. /\ Execute(CleanupsForExit(0, NoFrame), how)
      /\ UNCHANGED <<scopes, frames, fnHandle, features, next>>
  BY DEF Return, program
<1>5. CleanupsForExit(0, NoFrame) \in Seq(AllDecls)
  BY <1>1, ExitType
<1> QED
  BY <1>3, <1>4, <1>5, JumpKeeps

(* A try out of the function or to its handle.                             *)
LEMMA TryToFnStep == ASSUME Inv, TryToFn PROVE Inv'
<1>1. /\ scopes \in Seq(ScopeSet) /\ frames \in Seq(FrameSet)
  BY TypeNames DEF Inv
<1>2. /\ Execute(CleanupsForExit(0, NoFrame), "error") /\ live' = 0 /\ status' \in {"error", "done"}
      /\ UNCHANGED <<scopes, frames, fnHandle, features, next>>
  BY DEF TryToFn, program
<1>3. CleanupsForExit(0, NoFrame) \in Seq(AllDecls) /\ live' \in 0..Len(scopes)
  BY <1>1, <1>2, ExitType
<1> QED
  BY <1>2, <1>3, JumpKeeps

(* The state of one scope is no matter to its frames.                      *)
LEMMA StateOnly ==
    ASSUME NEW ss \in Seq(ScopeSet), NEW k \in 1..Len(ss), NEW st \in {"open", "error", "handler"}
    PROVE  /\ [ss EXCEPT ![k].state = st] \in Seq(ScopeSet)
           /\ Len([ss EXCEPT ![k].state = st]) = Len(ss)
           /\ AllFrames([ss EXCEPT ![k].state = st]) = AllFrames(ss)
           /\ DeclsOf([ss EXCEPT ![k].state = st]) = DeclsOf(ss)
<1> DEFINE c == [ss[k] EXCEPT !.state = st]
           tt == [ss EXCEPT ![k] = c]
<1>1. c \in ScopeSet /\ c.kind = ss[k].kind /\ c.decls = ss[k].decls
  <2>1. ss[k] \in ScopeSet
    OBVIOUS
  <2> QED
    BY <2>1 DEF ScopeSet
<1>2. [ss EXCEPT ![k].state = st] = tt
  OBVIOUS
<1> HIDE DEF c
<1>3. tt \in Seq(ScopeSet) /\ Len(tt) = Len(ss) /\ \A i \in 1..Len(ss) : tt[i] = IF i = k THEN c ELSE ss[i]
  BY <1>1
<1> HIDE DEF tt
<1>4. \A i \in 1..Len(ss) : tt[i].kind = ss[i].kind /\ tt[i].decls = ss[i].decls
  BY <1>1, <1>3
<1>5. AllFrames(tt) = AllFrames(ss) /\ DeclsOf(tt) = DeclsOf(ss)
  BY <1>3, <1>4, AllFramesAlike
<1> QED
  BY <1>2, <1>3, <1>5

(* A try to the handle of a with.                                          *)
LEMMA TryToWithStep == ASSUME Inv, TryToWith PROVE Inv'
<1> DEFINE k == Max(TryTargets)
           x == IF Count(scopes[k].decls, "with") = 0 THEN NoFrame ELSE Last(scopes[k].decls)
<1>1. TypeOK /\ InOrder /\ scopes \in Seq(ScopeSet) /\ frames \in Seq(FrameSet)
  BY TypeNames DEF Inv
<1>2. /\ TryTargets # {} /\ Execute(CleanupsForExit(0, x), "error")
      /\ scopes' = [scopes EXCEPT ![k].state = "error"] /\ live' = k
      /\ UNCHANGED <<frames, status, fnHandle, features, next>>
  BY DEF TryToWith, program
<1>3. k \in 1..Len(scopes) /\ Len(scopes) \in Nat
  <2>1. TryTargets \subseteq 1..Len(scopes) /\ Len(scopes) \in Nat
    BY <1>1 DEF TryTargets
  <2> QED
    BY <1>2, <2>1, MaxIn
<1> HIDE DEF k, x
<1>4. CleanupsForExit(0, x) \in Seq(AllDecls)
  BY <1>1, ExitType
<1>5. gc' \in Seq(Int) /\ ctx' \in Seq(Int) /\ ran' \in Seq(1..MaxDecls) /\ leaving' = "error"
  BY <1>1, <1>2, <1>4, ExecuteType
<1>6. scopes' \in Seq(ScopeSet) /\ Len(scopes') = Len(scopes) /\ AllFrames(scopes') = AllFrames(scopes)
  BY <1>1, <1>2, <1>3, StateOnly
<1>7. live' \in 0..Len(scopes')
  BY <1>2, <1>3, <1>6
<1>8. TypeOK'
  BY <1>1, <1>2, <1>5, <1>6, <1>7, TypeNames, TypeNext
<1>9. InOrder'
  BY <1>1, <1>2, <1>6 DEF InOrder
<1> QED
  BY <1>8, <1>9 DEF Inv

(* The handler of a with begins.                                           *)
LEMMA WithHandlerStep == ASSUME Inv, WithHandler PROVE Inv'
<1> DEFINE ss == [scopes EXCEPT ![live].state = "handler"]
<1>1. TypeOK /\ InOrder /\ scopes \in Seq(ScopeSet)
  BY TypeNames DEF Inv
<1>2. /\ live = Len(scopes) /\ Len(scopes) # 0 /\ scopes' = Append(ss, Scope("block")) /\ live' = live + 1
      /\ UNCHANGED <<frames, status, gc, ctx, ran, leaving, fnHandle, features, next>>
  BY <1>1 DEF WithHandler, runtime, program
<1>3. live \in 1..Len(scopes) /\ Len(scopes) \in Nat
  BY <1>1, <1>2
<1>4. ss \in Seq(ScopeSet) /\ Len(ss) = Len(scopes) /\ AllFrames(ss) = AllFrames(scopes)
  BY <1>1, <1>3, StateOnly
<1> HIDE DEF ss
<1>5. /\ scopes' \in Seq(ScopeSet) /\ Len(scopes') = Len(scopes) + 1
      /\ FlattenSeq(AllFrames(scopes')) = FlattenSeq(AllFrames(ss))
  BY <1>2, <1>4, ScopeType, EmptyMore
<1>6. live' \in 0..Len(scopes')
  BY <1>2, <1>3, <1>5
<1>7. TypeOK'
  BY <1>1, <1>2, <1>5, <1>6, TypeNames, TypeNext
<1>8. InOrder'
  BY <1>1, <1>2, <1>4, <1>5 DEF InOrder
<1> QED
  BY <1>7, <1>8 DEF Inv

(* One block without declarations has no frames.                           *)
LEMMA OneBlock == /\ <<Scope("block")>> \in Seq(ScopeSet) /\ Len(<<Scope("block")>>) = 1
                  /\ FlattenSeq(AllFrames(<<Scope("block")>>)) = <<>> /\ FlattenSeq(AllFrames(<<>>)) = <<>>
<1>1. AllFrames(<<>>) = <<>>
  BY DEF AllFrames
<1>2. FlattenSeq(AllFrames(<<>>)) = <<>>
  BY <1>1, FlatEmpty
<1>3. Scope("block") \in ScopeSet /\ Scope("block").decls = <<>>
  BY ScopeType
<1> DEFINE c == Scope("block")
<1> HIDE DEF c
<1>4. <<>> \in Seq(ScopeSet) /\ Append(<<>>, c) = <<c>> /\ <<c>> \in Seq(ScopeSet) /\ Len(<<c>>) = 1
  BY <1>3 DEF c
<1>5. FlattenSeq(AllFrames(Append(<<>>, c))) = FlattenSeq(AllFrames(<<>>))
  BY <1>3, <1>4, EmptyMore DEF c
<1> QED
  BY <1>2, <1>4, <1>5 DEF c

(* The function's handle begins.                                           *)
LEMMA FnHandlerStep == ASSUME Inv, FnHandler PROVE Inv'
<1>1. TypeOK /\ InOrder
  BY DEF Inv
<1>2. /\ scopes = <<>> /\ scopes' = <<Scope("block")>> /\ live' = 1 /\ status' = "handler"
      /\ UNCHANGED <<frames, gc, ctx, ran, leaving, fnHandle, features, next>>
  BY DEF FnHandler, runtime, program
<1>3. scopes' \in Seq(ScopeSet) /\ live' \in 0..Len(scopes')
  BY <1>2, OneBlock
<1>4. TypeOK'
  BY <1>1, <1>2, <1>3, TypeNames, TypeNext
<1>5. InOrder'
  BY <1>1, <1>2, OneBlock, Zenon DEF InOrder
<1> QED
  BY <1>4, <1>5 DEF Inv

(* Inv holds at first and after every step.                                *)
LEMMA InvInit == Init => Inv
  BY TypeInit, OneBlock, Zenon DEF Init, Inv, InOrder

(* Every action keeps it.                                                  *)
LEMMA InvStep == Inv /\ [Next]_vars => Inv'
<1> SUFFICES ASSUME Inv, [Next]_vars PROVE Inv'
  OBVIOUS
<1>1. CASE Next
  BY <1>1, EnterStep, DeclareStep, WithStep, FallthroughStep, EndWithStep, CloseStep, BreakStep,
     ReturnStep, TryToWithStep, TryToFnStep, WithHandlerStep, FnHandlerStep DEF Next
<1>2. CASE UNCHANGED vars
  <2>1. TypeOK'
    BY <1>2 DEF vars, runtime, program, Inv, TypeOK
  <2>2. InOrder'
    BY <1>2 DEF vars, Inv, InOrder
  <2> QED
    BY <2>1, <2>2 DEF Inv
<1> QED
  BY <1>1, <1>2

(* The list of cleanups the compiler keeps is, at every place of every     *)
(* program, the frames of the scopes around it in the order declared.      *)
THEOREM CleanupInvariance == Spec => []Inv
  BY InvInit, InvStep, PTL DEF Spec

(* The variables of the cleanup model keep their types.                    *)
THEOREM CleanupTypes == Spec => []TypeOK
<1>1. Inv => TypeOK
  BY DEF Inv
<1> QED
  BY <1>1, CleanupInvariance, PTL

(* The declarations of two lists of frames, one after the other.           *)
LEMMA DeclsCat ==
    ASSUME NEW a \in Seq(FrameSet), NEW b \in Seq(FrameSet)
    PROVE  Decls(a \o b) = Decls(a) \o Decls(b)
<1> DEFINE d == Decls(a)
           e == Decls(b)
           m == Len(a)
           n == Len(b)
<1>1. /\ m \in Nat /\ n \in Nat /\ DOMAIN a = 1..m /\ DOMAIN b = 1..n
      /\ a \o b \in Seq(FrameSet) /\ Len(a \o b) = m + n /\ DOMAIN (a \o b) = 1..(m + n)
  OBVIOUS
<1>2. \A i \in 1..(m + n) : (a \o b)[i] = IF i <= m THEN a[i] ELSE b[i - m]
  OBVIOUS
<1>3. d \in Seq(AllDecls) /\ Len(d) = m /\ e \in Seq(AllDecls) /\ Len(e) = n
  BY DeclsType
<1>4. Decls(a \o b) \in Seq(AllDecls) /\ Len(Decls(a \o b)) = m + n
  BY <1>1, DeclsType
<1>5. /\ \A i \in 1..m : d[i] = a[i].decl
      /\ \A i \in 1..n : e[i] = b[i].decl
      /\ \A i \in 1..(m + n) : Decls(a \o b)[i] = (a \o b)[i].decl
  BY <1>1 DEF Decls
<1> HIDE DEF d, e, m, n
<1>6. /\ d \o e \in Seq(AllDecls) /\ Len(d \o e) = m + n
      /\ \A i \in 1..(m + n) : (d \o e)[i] = IF i <= m THEN d[i] ELSE e[i - m]
  BY <1>1, <1>3
<1>7. m \in Nat /\ n \in Nat
  BY <1>1
<1>8. \A i \in 1..(m + n) : Decls(a \o b)[i] = (d \o e)[i]
  <2> TAKE i \in 1..(m + n)
  <2>1. i \in 1..m \/ (i > m /\ i - m \in 1..n)
    BY <1>7
  <2>2. CASE i \in 1..m
    <3>1. i <= m
      BY <1>7, <2>2
    <3>2. (d \o e)[i] = d[i] /\ (a \o b)[i] = a[i]
      BY <1>2, <1>6, <3>1
    <3> QED
      BY <1>5, <2>2, <3>2
  <2>3. CASE i > m /\ i - m \in 1..n
    <3>1. ~(i <= m)
      BY <1>7, <2>3
    <3>2. (d \o e)[i] = e[i - m] /\ (a \o b)[i] = b[i - m]
      BY <1>2, <1>6, <3>1
    <3> QED
      BY <1>5, <2>3, <3>2
  <2> QED
    BY <2>1, <2>2, <2>3
<1> DEFINE x == Decls(a \o b)
           y == d \o e
<1>9. x \in Seq(AllDecls) /\ y \in Seq(AllDecls) /\ Len(x) = Len(y) /\ \A i \in 1..Len(x) : x[i] = y[i]
  BY <1>4, <1>6, <1>8
<1> HIDE DEF x, y
<1>10. x = y
  BY <1>9, Same
<1> QED
  BY <1>10 DEF x, y, d, e

(* The declarations of the frames of scopes are those of the scopes.       *)
LEMMA FrameDecls ==
    ASSUME NEW ss \in Seq(ScopeSet)
    PROVE  Decls(FlattenSeq(AllFrames(ss))) = FlattenSeq(DeclsOf(ss))
<1> DEFINE F == {tt \in Seq(ScopeSet) : Decls(FlattenSeq(AllFrames(tt))) = FlattenSeq(DeclsOf(tt))}
<1>1. <<>> \in F
  <2>1. AllFrames(<<>>) = <<>> /\ DeclsOf(<<>>) = <<>> /\ <<>> \in Seq(ScopeSet) /\ Decls(<<>>) = <<>>
    BY DEF AllFrames, DeclsOf, Decls
  <2> QED
    BY <2>1, FlatEmpty, Zenon
<1>2. ASSUME NEW tt \in Seq(ScopeSet), NEW c \in ScopeSet, tt \in F PROVE Append(tt, c) \in F
  <2> DEFINE uu == Append(tt, c)
             a == FlattenSeq(AllFrames(tt))
             b == FramesOf(uu, Len(tt) + 1)
             d == FlattenSeq(DeclsOf(tt))
  <2>1. /\ uu \in Seq(ScopeSet) /\ FlattenSeq(AllFrames(uu)) = a \o b
        /\ DeclsOf(uu) = Append(DeclsOf(tt), c.decls)
    BY FramesMore
  <2>2. a \in Seq(FrameSet) /\ DeclsOf(tt) \in Seq(Seq(AllDecls)) /\ Len(tt) \in Nat
    BY AllFramesType
  <2>3. b \in Seq(FrameSet) /\ Decls(b) = c.decls
    <3>1. Len(tt) + 1 \in 1..Len(uu) /\ uu[Len(tt) + 1] = c
      BY <2>2
    <3> HIDE DEF uu
    <3> QED
      BY <2>1, <3>1, FramesOfType
  <2>4. c.decls \in Seq(AllDecls)
    BY DEF ScopeSet
  <2>5. FlattenSeq(DeclsOf(uu)) = d \o c.decls
    BY <2>1, <2>2, <2>4, FlatAppend
  <2>6. Decls(a) = d
    BY <1>2
  <2> HIDE DEF a, b, d, uu
  <2>7. Decls(a \o b) = Decls(a) \o Decls(b)
    BY <2>2, <2>3, DeclsCat
  <2>8. Decls(FlattenSeq(AllFrames(uu))) = FlattenSeq(DeclsOf(uu)) /\ uu \in Seq(ScopeSet)
    BY <2>1, <2>3, <2>5, <2>6, <2>7
  <2> QED
    BY <2>8 DEF uu
<1> QED
  <2> HIDE DEF F
  <2>1. Seq(ScopeSet) \subseteq F
    BY <1>1, <1>2, ByLast
  <2> QED
    BY <2>1 DEF F

(* At every place of the program the compiler's list of cleanups is what   *)
(* the enclosing scopes have declared.                                     *)
THEOREM FramesFollowScopes == Spec => []FramesOfScopes
<1>1. Inv => FramesOfScopes
  <2> SUFFICES ASSUME Inv PROVE FramesOfScopes
    OBVIOUS
  <2>1. scopes \in Seq(ScopeSet) /\ frames = FlattenSeq(AllFrames(scopes))
    BY TypeNames DEF Inv, InOrder
  <2>2. Decls(frames) = FlattenSeq(DeclsOf(scopes))
    BY <2>1, FrameDecls
  <2> QED
    BY <2>2 DEF FramesOfScopes, DeclsOf
<1> QED
  BY <1>1, CleanupInvariance, PTL

-----------------------------------------------------------------------------
(* Lists in reverse, and what is left of a concatenation.                  *)

(* The reverse of a list with one more element begins with that element.   *)
LEMMA ReverseMore ==
    ASSUME NEW X, NEW s \in Seq(X), NEW x \in X
    PROVE  Reverse(Append(s, x)) = <<x>> \o Reverse(s)
<1> DEFINE a == Reverse(Append(s, x))
           b == <<x>> \o Reverse(s)
           n == Len(s)
<1>1. n \in Nat /\ Append(s, x) \in Seq(X) /\ Len(Append(s, x)) = n + 1
  OBVIOUS
<1>2. Reverse(s) \in Seq(X) /\ Len(Reverse(s)) = n /\ \A i \in 1..n : Reverse(s)[i] = s[(n - i) + 1]
  BY ReverseType DEF Reverse
<1>3. a \in Seq(X) /\ Len(a) = n + 1 /\ \A i \in 1..(n + 1) : a[i] = Append(s, x)[((n + 1) - i) + 1]
  BY <1>1, ReverseType DEF Reverse
<1>4. /\ \A j \in 1..n : Append(s, x)[j] = s[j]
      /\ Append(s, x)[n + 1] = x
  OBVIOUS
<1> DEFINE r == Reverse(s)
<1> HIDE DEF r, n
<1>5. b \in Seq(X) /\ Len(b) = n + 1 /\ \A i \in 1..(n + 1) : b[i] = IF i = 1 THEN x ELSE r[i - 1]
  BY <1>1, <1>2 DEF r
<1>6. \A i \in 1..(n + 1) : a[i] = b[i]
  <2> TAKE i \in 1..(n + 1)
  <2>1. CASE i = 1
    BY <1>1, <1>3, <1>4, <1>5, <2>1
  <2>2. CASE i # 1
    <3>1. i - 1 \in 1..n /\ ((n + 1) - i) + 1 \in 1..n /\ ((n + 1) - i) + 1 = (n - (i - 1)) + 1
      BY <1>1, <2>2
    <3>2. a[i] = s[((n + 1) - i) + 1]
      BY <1>3, <1>4, <3>1
    <3>3. b[i] = r[i - 1]
      BY <1>5, <2>2
    <3>4. r[i - 1] = s[(n - (i - 1)) + 1]
      BY <1>2, <3>1 DEF r
    <3> QED
      BY <3>1, <3>2, <3>3, <3>4
  <2> QED
    BY <2>1, <2>2
<1> HIDE DEF a, b
<1>7. a = b
  BY <1>1, <1>3, <1>5, <1>6, Same
<1> QED
  BY <1>7 DEF a, b

(* Of a list of one.                                                       *)
LEMMA ChosenOne == ASSUME NEW x, NEW S PROVE Chosen(<<x>>, S) = IF x \in S THEN <<x>> ELSE <<>>
<1> DEFINE y == <<x>>
<1>1. CASE x \in S
  <2>1. y \in Seq(S)
    BY <1>1
  <2> HIDE DEF y
  <2>2. Chosen(y, S) = y
    BY <2>1, ChosenAll
  <2> QED
    BY <1>1, <2>2 DEF y
<1>2. CASE x \notin S
  <2>1. y \in Seq({x}) /\ \A i \in 1..Len(y) : y[i] \notin S
    BY <1>2
  <2> HIDE DEF y
  <2>2. Chosen(y, S) = <<>>
    BY <2>1, ChosenNone
  <2> QED
    BY <1>2, <2>2 DEF y
<1> QED
  BY <1>1, <1>2

(* As many are chosen of a list in reverse.                                *)
LEMMA ChosenReverse ==
    ASSUME NEW X, NEW s \in Seq(X), NEW S
    PROVE  Len(Chosen(Reverse(s), S)) = Len(Chosen(s, S))
<1> DEFINE F == {t \in Seq(X) : Len(Chosen(Reverse(t), S)) = Len(Chosen(t, S))}
<1>1. <<>> \in F
  <2>1. Reverse(<<>>) = <<>> /\ <<>> \in Seq(X)
    BY DEF Reverse
  <2> QED
    BY <2>1, Zenon
<1>2. ASSUME NEW t \in Seq(X), NEW x \in X, t \in F PROVE Append(t, x) \in F
  <2>1. Reverse(Append(t, x)) = <<x>> \o Reverse(t) /\ Reverse(t) \in Seq(X)
    BY ReverseMore, ReverseType
  <2>2. <<>> \in Seq(X) /\ Append(<<>>, x) = <<x>> /\ <<x>> \in Seq(X) /\ Append(t, x) \in Seq(X)
    OBVIOUS
  <2>3. Chosen(<<x>>, S) = IF x \in S THEN <<x>> ELSE <<>>
    BY ChosenOne
  <2>4. Chosen(Reverse(Append(t, x)), S) = Chosen(<<x>>, S) \o Chosen(Reverse(t), S)
    <3> DEFINE y == <<x>>
               r == Reverse(t)
    <3>1. y \in Seq(X) /\ r \in Seq(X)
      BY <2>1, <2>2
    <3> HIDE DEF y, r, F
    <3>2. Chosen(y \o r, S) = Chosen(y, S) \o Chosen(r, S)
      BY <3>1, ChosenCat, SMTT(20)
    <3> QED
      BY <2>1, <3>2 DEF y, r
  <2> DEFINE c == Chosen(t, S)
             d == Chosen(Reverse(t), S)
  <2>5. c \in Seq(X) /\ d \in Seq(X) /\ Len(d) = Len(c)
    BY <1>2, <2>1, ChosenType
  <2>6. Chosen(Append(t, x), S) = IF x \in S THEN Append(c, x) ELSE c
    BY ChosenAppend
  <2> HIDE DEF c, d
  <2>7. Len(Chosen(<<x>>, S) \o d) = Len(Chosen(Append(t, x), S))
    <3>1. CASE x \in S
      <4>1. Len(<<x>> \o d) = Len(d) + 1 /\ Len(Append(c, x)) = Len(c) + 1
        BY <2>5
      <4> QED
        BY <2>3, <2>5, <2>6, <3>1, <4>1
    <3>2. CASE x \notin S
      <4>1. <<>> \o d = d
        BY <2>5, CatEmpty
      <4> QED
        BY <2>3, <2>5, <2>6, <3>2, <4>1
    <3> QED
      BY <3>1, <3>2
  <2> QED
    BY <2>2, <2>4, <2>7 DEF d
<1> QED
  <2> HIDE DEF F
  <2>1. Seq(X) \subseteq F
    BY <1>1, <1>2, ByLast
  <2> QED
    BY <2>1 DEF F

(* Dropping what was put last, and what is left when the first part of a   *)
(* concatenation is known.                                                 *)
LEMMA Dropped ==
    ASSUME NEW X, NEW s \in Seq(X), NEW t \in Seq(X)
    PROVE  Pops(s \o t, Len(t)) = s
<1>1. Len(s \o t) - Len(t) = Len(s) /\ SubSeq(s \o t, 1, Len(s)) = s
  OBVIOUS
<1> QED
  BY <1>1, Zenon DEF Pops

(* What two equal concatenations that begin alike end with.                *)
LEMMA Cancel ==
    ASSUME NEW X, NEW s \in Seq(X), NEW t \in Seq(X), NEW u \in Seq(X), s \o t = s \o u
    PROVE  t = u
  BY CutSecond

(* The declarations of a list of frames in reverse.                        *)
LEMMA DeclsReverse ==
    ASSUME NEW fs \in Seq(FrameSet)
    PROVE  Decls(Reverse(fs)) = Reverse(Decls(fs))
<1>1. Reverse(fs) \in Seq(FrameSet) /\ Len(Reverse(fs)) = Len(fs) /\ Len(fs) \in Nat
  BY ReverseType
<1>2. Decls(fs) \in Seq(AllDecls) /\ Len(Decls(fs)) = Len(fs)
  BY DeclsType
<1>3. DOMAIN Reverse(fs) = 1..Len(fs) /\ DOMAIN fs = 1..Len(fs)
  BY DEF Reverse
<1>4. \A i \in 1..Len(fs) : (Len(fs) - i) + 1 \in 1..Len(fs)
  OBVIOUS
<1>5. \A i \in 1..Len(fs) : Reverse(fs)[i].decl = Decls(fs)[(Len(fs) - i) + 1]
  BY <1>3, <1>4 DEF Reverse, Decls
<1> QED
  BY <1>2, <1>3, <1>5 DEF Reverse, Decls

(* A sequence cut in two is its two pieces.                                *)
LEMMA Rejoined ==
    ASSUME NEW X, NEW s \in Seq(X), NEW k \in Nat, k <= Len(s)
    PROVE  s = SubSeq(s, 1, k) \o SubSeq(s, k + 1, Len(s))
<1>1. <<>> \in Seq(X)
  OBVIOUS
<1>2. SubSeq(s, 1, k) \in Seq(X)
  BY Halves
<1>3. (<<>> \o SubSeq(s, 1, k)) \o SubSeq(s, k + 1, Len(s)) = <<>> \o s
  BY <1>1, Moved
<1>4. <<>> \o SubSeq(s, 1, k) = SubSeq(s, 1, k) /\ <<>> \o s = s
  BY <1>2, CatEmpty
<1> QED
  BY <1>3, <1>4, Zenon

(* A concatenation of lists of members of a set.                           *)
LEMMA FlatIn ==
    ASSUME NEW W, NEW ss \in Seq(W), NEW X, \A i \in 1..Len(ss) : ss[i] \in Seq(X)
    PROVE  FlattenSeq(ss) \in Seq(X)
<1> DEFINE Y == Seq(X)
<1>1. \A i \in 1..Len(ss) : ss[i] \in Y
  OBVIOUS
<1> HIDE DEF Y
<1>2. ss \in Seq(Y)
  BY <1>1
<1>3. ss \in Seq(Seq(X))
  BY <1>2 DEF Y
<1> QED
  BY <1>3, FlatType

(* Going outwards no scope is in more loops, and a loop is in one more     *)
(* than the scopes around it.                                              *)
LEMMA DepthGrows ==
    ASSUME NEW ss, NEW i \in Nat, NEW j \in Nat, i <= j
    PROVE  /\ Depth(ss, i) <= Depth(ss, j)
           /\ i # j /\ ss[j].kind = "loop" => Depth(ss, i) < Depth(ss, j)
<1> DEFINE S == {k \in 1..i : ss[k].kind = "loop"}
           T == {k \in 1..j : ss[k].kind = "loop"}
<1>1. IsFiniteSet(1..j)
  BY FS_Interval
<1>2. S \subseteq T /\ T \subseteq 1..j
  OBVIOUS
<1>3. IsFiniteSet(T)
  BY <1>1, <1>2, FS_Subset
<1>4. IsFiniteSet(S) /\ Cardinality(S) <= Cardinality(T)
  BY <1>2, <1>3, FS_Subset
<1>5. Cardinality(S) \in Nat /\ Cardinality(T) \in Nat
  BY <1>3, <1>4, FS_CardinalityType
<1>6. CASE i # j /\ ss[j].kind = "loop"
  <2>1. j \notin S /\ S \cup {j} \subseteq T
    BY <1>6
  <2>2. IsFiniteSet(S \cup {j}) /\ Cardinality(S \cup {j}) = Cardinality(S) + 1
    BY <1>4, <2>1, FS_AddElement
  <2>3. Cardinality(S \cup {j}) <= Cardinality(T)
    BY <1>3, <2>1, FS_Subset
  <2> QED
    BY <1>4, <1>5, <2>2, <2>3 DEF Depth
<1> QED
  BY <1>4, <1>6 DEF Depth

\* The frames that scopes m..n of ss can have.
Between(ss, m, n) == {f \in FrameSet : \E i \in m..n : f.loop = Depth(ss, i)}

(* The frames of the first k scopes come before those of the others, and   *)
(* the others are what these declare.                                      *)
LEMMA Split ==
    ASSUME NEW ss \in Seq(ScopeSet), NEW k \in Nat, k <= Len(ss)
    PROVE  \E a, b : /\ FlattenSeq(AllFrames(ss)) = a \o b
                     /\ a \in Seq(Between(ss, 1, k)) /\ b \in Seq(Between(ss, k + 1, Len(ss)))
                     /\ Decls(b) = FlattenSeq(SubSeq(DeclsOf(ss), k + 1, Len(ss)))
<1> DEFINE n == Len(ss)
           fs == AllFrames(ss)
           ds == DeclsOf(ss)
           Y == Seq(FrameSet)
           Z == Seq(AllDecls)
           a == FlattenSeq(SubSeq(fs, 1, k))
           b == FlattenSeq(SubSeq(fs, k + 1, n))
           d == FlattenSeq(SubSeq(ds, 1, k))
           e == FlattenSeq(SubSeq(ds, k + 1, n))
           pre == SubSeq(ss, 1, k)
<1>1. /\ n \in Nat /\ Len(fs) = n /\ fs \in Seq(Y) /\ Len(ds) = n /\ ds \in Seq(Z)
      /\ \A i \in 1..n : fs[i] = FramesOf(ss, i) /\ ds[i] = ss[i].decls
  BY AllFramesType
<1>2. \A i \in 1..n : FramesOf(ss, i) \in Seq({f \in FrameSet : f.loop = Depth(ss, i) /\ f.block = Tag(ss, i)})
  BY FramesOfType
<1>3. ASSUME NEW i \in 1..n, NEW l \in Nat, NEW m \in Nat, i \in l..m
      PROVE  FramesOf(ss, i) \in Seq(Between(ss, l, m))
  <2>1. {f \in FrameSet : f.loop = Depth(ss, i) /\ f.block = Tag(ss, i)} \subseteq Between(ss, l, m)
    BY <1>3 DEF Between
  <2> QED
    BY <1>2, <2>1, Larger
<1> HIDE DEF fs, ds, Y, Z, n
<1>4. /\ SubSeq(fs, 1, k) \in Seq(Y) /\ Len(SubSeq(fs, 1, k)) = k
      /\ \A i \in 1..k : SubSeq(fs, 1, k)[i] = fs[i] /\ i \in 1..n
      /\ SubSeq(ds, 1, k) \in Seq(Z) /\ Len(SubSeq(ds, 1, k)) = k
      /\ \A i \in 1..k : SubSeq(ds, 1, k)[i] = ds[i]
  BY <1>1 DEF n
<1>5. /\ SubSeq(fs, k + 1, n) \in Seq(Y) /\ Len(SubSeq(fs, k + 1, n)) = n - k
      /\ \A i \in 1..(n - k) : SubSeq(fs, k + 1, n)[i] = fs[k + i] /\ k + i \in 1..n /\ k + i \in (k + 1)..n
      /\ SubSeq(ds, k + 1, n) \in Seq(Z) /\ Len(SubSeq(ds, k + 1, n)) = n - k
  <2>1. n \in Nat /\ k <= n
    BY <1>1 DEF n
  <2>2. /\ SubSeq(fs, k + 1, n) \in Seq(Y) /\ Len(SubSeq(fs, k + 1, n)) = n - k
        /\ \A i \in 1..(n - k) : k + i \in 1..Len(fs) /\ SubSeq(fs, k + 1, n)[i] = fs[k + i]
    BY <1>1, <2>1, Cut
  <2>3. SubSeq(ds, k + 1, n) \in Seq(Z) /\ Len(SubSeq(ds, k + 1, n)) = n - k
    BY <1>1, <2>1, Cut
  <2>4. \A i \in 1..(n - k) : k + i \in 1..n /\ k + i \in (k + 1)..n
    BY <2>1
  <2> QED
    BY <2>2, <2>3, <2>4
<1>6. fs = SubSeq(fs, 1, k) \o SubSeq(fs, k + 1, n) /\ ds = SubSeq(ds, 1, k) \o SubSeq(ds, k + 1, n)
  <2>1. k <= Len(fs) /\ k <= Len(ds)
    BY <1>1 DEF n
  <2>2. fs = SubSeq(fs, 1, k) \o SubSeq(fs, k + 1, Len(fs))
    BY <1>1, <2>1, Rejoined
  <2>3. ds = SubSeq(ds, 1, k) \o SubSeq(ds, k + 1, Len(ds))
    BY <1>1, <2>1, Rejoined
  <2> QED
    BY <1>1, <2>2, <2>3
<1>7. /\ SubSeq(fs, 1, k) \in Seq(Seq(FrameSet)) /\ SubSeq(fs, k + 1, n) \in Seq(Seq(FrameSet))
      /\ SubSeq(ds, 1, k) \in Seq(Seq(AllDecls)) /\ SubSeq(ds, k + 1, n) \in Seq(Seq(AllDecls))
  BY <1>4, <1>5 DEF Y, Z
<1>8. FlattenSeq(fs) = a \o b /\ FlattenSeq(ds) = d \o e
  <2>1. FlattenSeq(SubSeq(fs, 1, k) \o SubSeq(fs, k + 1, n)) = a \o b
    BY <1>7, FlatCat
  <2>2. FlattenSeq(SubSeq(ds, 1, k) \o SubSeq(ds, k + 1, n)) = d \o e
    BY <1>7, FlatCat
  <2> QED
    BY <1>6, <2>1, <2>2
<1>9. a \in Seq(Between(ss, 1, k))
  <2>1. \A i \in 1..Len(SubSeq(fs, 1, k)) : SubSeq(fs, 1, k)[i] \in Seq(Between(ss, 1, k))
    BY <1>1, <1>3, <1>4
  <2> QED
    BY <1>4, <2>1, FlatIn
<1>10. b \in Seq(Between(ss, k + 1, n))
  <2>1. \A i \in 1..Len(SubSeq(fs, k + 1, n)) : SubSeq(fs, k + 1, n)[i] \in Seq(Between(ss, k + 1, n))
    BY <1>1, <1>3, <1>5
  <2> QED
    BY <1>5, <2>1, FlatIn
<1>11. a \in Seq(FrameSet) /\ b \in Seq(FrameSet) /\ d \in Seq(AllDecls) /\ e \in Seq(AllDecls)
  BY <1>7, FlatType
<1>12. pre \in Seq(ScopeSet) /\ Len(pre) = k /\ \A i \in 1..k : pre[i] = ss[i]
  BY <1>1 DEF n
<1>13. AllFrames(pre) = SubSeq(fs, 1, k) /\ DeclsOf(pre) = SubSeq(ds, 1, k)
  <2> HIDE DEF pre
  <2>1. /\ Len(AllFrames(pre)) = k /\ AllFrames(pre) \in Seq(Y)
        /\ \A i \in 1..k : AllFrames(pre)[i] = FramesOf(pre, i)
        /\ Len(DeclsOf(pre)) = k /\ DeclsOf(pre) \in Seq(Z)
        /\ \A i \in 1..k : DeclsOf(pre)[i] = pre[i].decls
    BY <1>12, AllFramesType DEF Y, Z
  <2>2. ASSUME NEW i \in 1..k PROVE FramesOf(pre, i) = FramesOf(ss, i)
    <3>1. i \in Nat /\ i # 0 /\ \A j \in 1..i : j \in 1..k
      OBVIOUS
    <3> QED
      BY <1>12, <3>1, FramesAlike
  <2>3. \A i \in 1..k : AllFrames(pre)[i] = SubSeq(fs, 1, k)[i] /\ DeclsOf(pre)[i] = SubSeq(ds, 1, k)[i]
    BY <1>1, <1>4, <1>12, <2>1, <2>2, Zenon
  <2> DEFINE p == SubSeq(fs, 1, k)
             q == SubSeq(ds, 1, k)
             r == AllFrames(pre)
             s == DeclsOf(pre)
  <2>4. /\ p \in Seq(Y) /\ r \in Seq(Y) /\ Len(p) = k /\ Len(r) = k /\ \A i \in 1..k : r[i] = p[i]
        /\ q \in Seq(Z) /\ s \in Seq(Z) /\ Len(q) = k /\ Len(s) = k /\ \A i \in 1..k : s[i] = q[i]
    BY <1>4, <2>1, <2>3
  <2> HIDE DEF p, q, r, s
  <2>5. r = p /\ s = q
    BY <2>4, Same
  <2> QED
    BY <2>5 DEF p, q, r, s
<1>14. Decls(a) = d
  <2>1. Decls(FlattenSeq(AllFrames(pre))) = FlattenSeq(DeclsOf(pre))
    BY <1>12, FrameDecls
  <2> QED
    BY <1>13, <2>1
<1>15. Decls(a \o b) = d \o e
  <2>1. Decls(FlattenSeq(fs)) = FlattenSeq(ds)
    BY FrameDecls DEF fs, ds
  <2> QED
    BY <1>8, <2>1
<1> HIDE DEF a, b, d, e
<1>16. d \o Decls(b) = d \o e /\ Decls(b) \in Seq(AllDecls)
  BY <1>11, <1>14, <1>15, DeclsCat, DeclsType
<1>17. Decls(b) = e
  BY <1>11, <1>16, Cancel
<1> QED
  BY <1>8, <1>9, <1>10, <1>17 DEF fs, ds, e, n

(* What an exit runs: all that is declared in the scopes after the kth,    *)
(* last first, when these are the ones in at least m loops.                *)
LEMMA ExitRuns ==
    ASSUME scopes \in Seq(ScopeSet), InOrder, NEW k \in Nat, k <= Len(scopes), NEW m \in Int,
           \A i \in 1..k : Depth(scopes, i) < m,
           \A i \in (k + 1)..Len(scopes) : Depth(scopes, i) >= m
    PROVE  CleanupsForExit(m, NoFrame) = Reverse(FlattenSeq(SubSeq(DeclsOf(scopes), k + 1, Len(scopes))))
<1> DEFINE n == Len(scopes)
           S == {f \in Range(frames) : f.loop >= m /\ f.decl # NoFrame}
           T == {f \in FrameSet : f.loop >= m}
<1>1. PICK a, b : /\ FlattenSeq(AllFrames(scopes)) = a \o b
                  /\ a \in Seq(Between(scopes, 1, k)) /\ b \in Seq(Between(scopes, k + 1, n))
                  /\ Decls(b) = FlattenSeq(SubSeq(DeclsOf(scopes), k + 1, n))
  BY Split
<1>2. frames = a \o b
  BY <1>1 DEF InOrder
<1>3. a \in Seq(FrameSet) /\ b \in Seq(FrameSet)
  <2>1. \A l, h : Between(scopes, l, h) \subseteq FrameSet
    BY DEF Between
  <2> QED
    BY <1>1, <2>1, Larger
<1>4. frames \in Seq(FrameSet)
  BY <1>2, <1>3
<1>5. \A i \in 1..Len(frames) : frames[i] \in S <=> frames[i] \in T
  <2>1. \A i \in 1..Len(frames) : frames[i] \in FrameSet /\ frames[i] \in Range(frames)
    BY <1>4 DEF Range
  <2>2. \A f \in FrameSet : f.decl # NoFrame
    BY DEF FrameSet, AllDecls, DeclKinds, NoFrame
  <2> QED
    BY <2>1, <2>2
<1>6. Chosen(a, T) = <<>>
  <2>1. \A f \in Between(scopes, 1, k) : f \notin T
    <3>1. \A i \in 1..k : Depth(scopes, i) \in Nat
      BY DepthType
    <3> QED
      BY <3>1 DEF Between
  <2>2. \A i \in 1..Len(a) : a[i] \in Between(scopes, 1, k)
    BY <1>1
  <2> QED
    BY <1>3, <2>1, <2>2, ChosenNone
<1>7. Chosen(b, T) = b
  <2>1. Between(scopes, k + 1, n) \subseteq T
    BY DEF Between
  <2>2. b \in Seq(T)
    BY <1>1, <2>1, Larger
  <2> QED
    BY <2>2, ChosenAll
<1> HIDE DEF S, T
<1>8. Chosen(frames, S) = Chosen(a, T) \o Chosen(b, T)
  <2>1. Chosen(frames, S) = Chosen(frames, T)
    BY <1>4, <1>5, ChosenSame
  <2>2. Chosen(a \o b, T) = Chosen(a, T) \o Chosen(b, T)
    BY <1>3, ChosenCat
  <2> QED
    BY <1>2, <2>1, <2>2
<1>9. Chosen(frames, S) = b
  <2>1. <<>> \o b = b
    BY <1>3, CatEmpty
  <2> QED
    BY <1>6, <1>7, <1>8, <2>1, Zenon
<1>10. CleanupsForExit(m, NoFrame) = Decls(Reverse(b))
  BY <1>9, Zenon DEF CleanupsForExit, S
<1> QED
  BY <1>1, <1>3, <1>10, DeclsReverse

(* What the end of the last scope, a block, runs.                          *)
LEMMA EndRuns ==
    ASSUME scopes \in Seq(ScopeSet), InOrder, Len(scopes) # 0, Last(scopes).kind # "with"
    PROVE  FallthroughCleanups(Len(scopes)) = Reverse(Last(scopes).decls)
<1> DEFINE n == Len(scopes)
           S == {f \in Range(frames) : f.block = n}
           T == {f \in FrameSet : f.block = n}
           a == FlattenSeq(AllFrames(Front(scopes)))
           b == FramesOf(scopes, n)
<1>1. /\ Front(scopes) \in Seq(ScopeSet) /\ Len(Front(scopes)) = n - 1 /\ n \in 1..n /\ n \in Nat
      /\ frames = a \o b
  BY FramesLast DEF InOrder
<1>2. a \in Seq({f \in FrameSet : f.block <= n - 1}) /\ a \in Seq(FrameSet)
  <2>1. a \in Seq({f \in FrameSet : f.block <= Len(Front(scopes))})
    BY <1>1, TagsBelow
  <2>2. a \in Seq(FrameSet)
    BY <1>1, AllFramesType
  <2> QED
    BY <1>1, <2>1, <2>2
<1>3. /\ b \in Seq({f \in FrameSet : f.loop = Depth(scopes, n) /\ f.block = Tag(scopes, n)})
      /\ b \in Seq(FrameSet) /\ Decls(b) = Last(scopes).decls /\ Tag(scopes, n) = n
  BY <1>1, FramesOfType DEF Last, Tag
<1> HIDE DEF a, b, n
<1>4. frames \in Seq(FrameSet)
  BY <1>1, <1>2, <1>3
<1>5. \A i \in 1..Len(frames) : frames[i] \in S <=> frames[i] \in T
  <2>1. \A i \in 1..Len(frames) : frames[i] \in FrameSet /\ frames[i] \in Range(frames)
    BY <1>4 DEF Range
  <2> QED
    BY <2>1
<1>6. Chosen(a, T) = <<>>
  <2>1. \A f \in {g \in FrameSet : g.block <= n - 1} : f \notin T
    BY <1>1 DEF FrameSet
  <2>2. \A i \in 1..Len(a) : a[i] \notin T
    BY <1>2, <2>1
  <2> QED
    BY <1>2, <2>2, ChosenNone
<1>7. Chosen(b, T) = b
  <2>1. {f \in FrameSet : f.loop = Depth(scopes, n) /\ f.block = Tag(scopes, n)} \subseteq T
    BY <1>3
  <2>2. b \in Seq(T)
    BY <1>3, <2>1, Larger
  <2> QED
    BY <2>2, ChosenAll
<1> HIDE DEF S, T
<1>8. Chosen(frames, S) = Chosen(a, T) \o Chosen(b, T)
  <2>1. Chosen(frames, S) = Chosen(frames, T)
    BY <1>4, <1>5, ChosenSame
  <2>2. Chosen(a \o b, T) = Chosen(a, T) \o Chosen(b, T)
    BY <1>2, <1>3, ChosenCat
  <2> QED
    BY <1>1, <2>1, <2>2
<1>9. Chosen(frames, S) = b
  <2>1. <<>> \o b = b
    BY <1>3, CatEmpty
  <2> QED
    BY <1>6, <1>7, <1>8, <2>1, Zenon
<1>10. FallthroughCleanups(n) = Decls(Reverse(b))
  BY <1>9, Zenon DEF FallthroughCleanups, S
<1> QED
  BY <1>3, <1>10, DeclsReverse DEF n

-----------------------------------------------------------------------------
(* Without the four constructs the generated code keeps what defer, with   *)
(* and rooted pointers promise.                                            *)

\* What the first n scopes of ss have declared, scope by scope.
OpenOf(ss, n) == [i \in 1..n |-> ss[i].decls]
Open == OpenOf(scopes, live)

\* The two stacks hold the caller's entries and those of the scopes o.
Stacks(o, roots, contexts) ==
    /\ roots = CallerRoots \o Lexical!InForce(o, "gc_root")
    /\ contexts = CallerContexts \o Lexical!InForce(o, "allocctx")

\* There is no handle and no closure, and a function that has returned is in
\* no scope.
Plain ==
    /\ \A i \in DOMAIN scopes : ~scopes[i].handle /\ scopes[i].state = "open" /\ scopes[i].kind # "closure"
    /\ status = "done" => live = 0

LexInv == Inv /\ Plain /\ Stacks(Open, gc, ctx)

(* The operators the promise is written with are those of the model.       *)
LEMMA SameOperators ==
    /\ \A s, S : Lexical!Chosen(s, S) = Chosen(s, S)
    /\ \A s : Lexical!Reverse(s) = Reverse(s) /\ Lexical!Front(s) = Front(s) /\ Lexical!Last(s) = Last(s)
    /\ \A s : Lexical!FlattenSeq(s) = FlattenSeq(s)
    /\ \A s, t : Lexical!IsPrefix(s, t) <=> IsPrefix(s, t)
    /\ \A s, t : Lexical!IsStrictPrefix(s, t) <=> IsStrictPrefix(s, t)
<1>1. \A s, S : Lexical!Chosen(s, S) = Chosen(s, S)
  BY Zenon DEF Lexical!Chosen, Chosen
<1>2. \A s : Lexical!Reverse(s) = Reverse(s) /\ Lexical!Front(s) = Front(s) /\ Lexical!Last(s) = Last(s)
  BY Zenon DEF Lexical!Reverse, Reverse, Lexical!Front, Front, Lexical!Last, Last
<1>3. \A s : Lexical!FlattenSeq(s) = FlattenSeq(s)
  BY Zenon DEF Lexical!FlattenSeq, FlattenSeq
<1>4. \A s, t : Lexical!IsPrefix(s, t) <=> IsPrefix(s, t)
  BY Zenon DEF Lexical!IsPrefix, IsPrefix
<1>5. \A s, t : Lexical!IsStrictPrefix(s, t) <=> IsStrictPrefix(s, t)
  BY <1>4, Zenon DEF Lexical!IsStrictPrefix, IsStrictPrefix
<1> QED
  BY <1>1, <1>2, <1>3, <1>4, <1>5

(* The identities chosen of a list.                                        *)
LEMMA IdsType ==
    ASSUME NEW ds \in Seq(AllDecls), NEW kinds
    PROVE  Lexical!Ids(ds, kinds) \in Seq(Int) /\ Len(Lexical!Ids(ds, kinds)) = Len(OfKinds(ds, kinds))
<1> DEFINE c == OfKinds(ds, kinds)
<1>1. c \in Seq(AllDecls)
  BY OfKindsType
<1>2. Lexical!Ids(ds, kinds) = [i \in DOMAIN c |-> c[i].id]
  BY SameOperators, Zenon DEF Lexical!Ids, OfKinds
<1> HIDE DEF c
<1>3. DOMAIN c = 1..Len(c) /\ Len(c) \in Nat /\ \A i \in 1..Len(c) : c[i] \in AllDecls
  BY <1>1
<1>4. \A i \in 1..Len(c) : c[i].id \in Int
  BY <1>3, BoundsAssumption DEF AllDecls
<1>5. [i \in 1..Len(c) |-> c[i].id] \in Seq(Int) /\ Len([i \in 1..Len(c) |-> c[i].id]) = Len(c)
  BY <1>3, <1>4
<1> QED
  BY <1>2, <1>3, <1>5 DEF c

(* Those of two lists, one after the other.                                *)
LEMMA IdsCat ==
    ASSUME NEW s \in Seq(AllDecls), NEW t \in Seq(AllDecls), NEW kinds
    PROVE  Lexical!Ids(s \o t, kinds) = Lexical!Ids(s, kinds) \o Lexical!Ids(t, kinds)
<1> DEFINE S == [kind : kinds, id : Nat]
           a == Chosen(s, S)
           b == Chosen(t, S)
           x == Lexical!Ids(s, kinds)
           y == Lexical!Ids(t, kinds)
           z == Lexical!Ids(s \o t, kinds)
<1>1. a \in Seq(AllDecls) /\ b \in Seq(AllDecls) /\ Chosen(s \o t, S) = a \o b
  <2> HIDE DEF S
  <2>1. Chosen(s, S) \in Seq(AllDecls)
    BY ChosenType
  <2>2. Chosen(t, S) \in Seq(AllDecls)
    BY ChosenType
  <2>3. Chosen(s \o t, S) = Chosen(s, S) \o Chosen(t, S)
    BY ChosenCat
  <2> QED
    BY <2>1, <2>2, <2>3
<1>2. /\ x = [i \in DOMAIN a |-> a[i].id] /\ y = [i \in DOMAIN b |-> b[i].id]
      /\ z = [i \in DOMAIN (a \o b) |-> (a \o b)[i].id]
  BY <1>1, SameOperators, Zenon DEF Lexical!Ids
<1>3. x \in Seq(Int) /\ y \in Seq(Int) /\ z \in Seq(Int)
  <2>1. s \o t \in Seq(AllDecls)
    OBVIOUS
  <2> QED
    BY <2>1, IdsType
<1> HIDE DEF a, b, x, y, z, S
<1>4. /\ Len(a) \in Nat /\ Len(b) \in Nat /\ DOMAIN a = 1..Len(a) /\ DOMAIN b = 1..Len(b)
      /\ DOMAIN (a \o b) = 1..(Len(a) + Len(b))
      /\ \A i \in 1..(Len(a) + Len(b)) : (a \o b)[i] = IF i <= Len(a) THEN a[i] ELSE b[i - Len(a)]
  BY <1>1
<1>5. Len(x) = Len(a) /\ Len(y) = Len(b) /\ Len(z) = Len(a) + Len(b)
  <2>1. DOMAIN x = DOMAIN a /\ DOMAIN y = DOMAIN b /\ DOMAIN z = DOMAIN (a \o b)
    BY <1>2
  <2>2. \A s_1 \in Seq(Int), n \in Nat : DOMAIN s_1 = 1..n => Len(s_1) = n
    OBVIOUS
  <2>3. Len(a) + Len(b) \in Nat
    BY <1>4
  <2> QED
    BY <1>3, <1>4, <2>1, <2>2, <2>3
<1>6. /\ x \o y \in Seq(Int) /\ Len(x \o y) = Len(a) + Len(b)
      /\ \A i \in 1..(Len(a) + Len(b)) : (x \o y)[i] = IF i <= Len(a) THEN x[i] ELSE y[i - Len(a)]
  <2>1. /\ x \o y \in Seq(Int) /\ Len(x \o y) = Len(x) + Len(y)
        /\ \A i \in 1..(Len(x) + Len(y)) : (x \o y)[i] = IF i <= Len(x) THEN x[i] ELSE y[i - Len(x)]
    BY <1>3
  <2> QED
    BY <1>5, <2>1
<1>7. \A i \in 1..(Len(a) + Len(b)) : z[i] = (x \o y)[i]
  <2> TAKE i \in 1..(Len(a) + Len(b))
  <2>1. CASE i <= Len(a)
    BY <1>2, <1>4, <1>6, <2>1
  <2>2. CASE ~(i <= Len(a))
    <3>1. i - Len(a) \in 1..Len(b)
      BY <1>4, <2>2
    <3> QED
      BY <1>2, <1>4, <1>6, <2>2, <3>1
  <2> QED
    BY <2>1, <2>2
<1> DEFINE w == x \o y
<1>8. w \in Seq(Int) /\ Len(w) = Len(z) /\ \A i \in 1..Len(z) : z[i] = w[i]
  BY <1>5, <1>6, <1>7
<1> HIDE DEF w
<1>9. z = w
  BY <1>3, <1>8, Same
<1> QED
  BY <1>9 DEF w, x, y, z

(* What is in force in scopes is chosen of all they have declared.         *)
LEMMA InForceIs == \A o, kind : Lexical!InForce(o, kind) = Lexical!Ids(FlattenSeq(o), {kind})
  BY SameOperators, Zenon DEF Lexical!InForce

(* Those in force in a scope more.                                         *)
LEMMA InForceCat ==
    ASSUME NEW o \in Seq(Seq(AllDecls)), NEW p \in Seq(Seq(AllDecls)), NEW kind
    PROVE  /\ Lexical!InForce(o, kind) \in Seq(Int)
           /\ Lexical!InForce(o \o p, kind) = Lexical!InForce(o, kind) \o Lexical!InForce(p, kind)
<1>1. FlattenSeq(o \o p) = FlattenSeq(o) \o FlattenSeq(p)
  BY FlatCat
<1>2. FlattenSeq(o) \in Seq(AllDecls) /\ FlattenSeq(p) \in Seq(AllDecls)
  BY FlatType
<1> DEFINE a == FlattenSeq(o)
           b == FlattenSeq(p)
<1>3. Lexical!Ids(a, {kind}) \in Seq(Int) /\ Lexical!Ids(a \o b, {kind}) = Lexical!Ids(a, {kind}) \o Lexical!Ids(b, {kind})
  <2> HIDE DEF a, b
  <2> QED
    BY <1>2, IdsCat, IdsType DEF a, b
<1> QED
  BY <1>1, <1>3, InForceIs, Zenon

(* Leaving the scopes after the kth with what they have declared, last     *)
(* first, takes their roots and allocators from the stacks and runs their  *)
(* cleanups.                                                               *)
LEMMA LeaveStacks ==
    ASSUME NEW o \in Seq(Seq(AllDecls)), NEW k \in Nat, k <= Len(o), Stacks(o, gc, ctx), NEW how,
           Execute(Reverse(FlattenSeq(SubSeq(o, k + 1, Len(o)))), how)
    PROVE  /\ Stacks(SubSeq(o, 1, k), gc', ctx') /\ leaving' = how
           /\ ran' = ran \o Lexical!Ids(Reverse(FlattenSeq(SubSeq(o, k + 1, Len(o)))), Lexical!CleanupKinds(how))
<1> DEFINE Z == Seq(AllDecls)
           p == SubSeq(o, 1, k)
           q == SubSeq(o, k + 1, Len(o))
           b == FlattenSeq(q)
<1>1. p \in Seq(Z) /\ q \in Seq(Z) /\ o = p \o q
  <2>1. o \in Seq(Z)
    OBVIOUS
  <2> HIDE DEF Z
  <2> QED
    BY <2>1, Halves, Rejoined
<1>2. p \in Seq(Seq(AllDecls)) /\ q \in Seq(Seq(AllDecls))
  BY <1>1
<1> HIDE DEF p, q
<1>3. b \in Seq(AllDecls) /\ Reverse(b) \in Seq(AllDecls)
  BY <1>2, FlatType, ReverseType
<1>4. ASSUME NEW kind, NEW s \in Seq(Int), NEW t, t = s \o Lexical!InForce(o, kind)
      PROVE  Pops(t, Count(Reverse(b), kind)) = s \o Lexical!InForce(p, kind)
  <2> DEFINE c == Lexical!InForce(p, kind)
             d == Lexical!InForce(q, kind)
  <2>1. c \in Seq(Int) /\ d \in Seq(Int) /\ Lexical!InForce(o, kind) = c \o d
    <3>1. c \in Seq(Int) /\ Lexical!InForce(p \o q, kind) = c \o d
      BY <1>2, InForceCat, SMTT(20)
    <3>2. d \in Seq(Int)
      BY <1>2, InForceCat
    <3> QED
      BY <1>1, <3>1, <3>2
  <2>2. Len(d) = Count(b, kind)
    <3>1. d = Lexical!Ids(b, {kind})
      BY InForceIs
    <3> HIDE DEF d, b
    <3> QED
      BY <1>3, <3>1, IdsType DEF Count
  <2>3. Count(Reverse(b), kind) = Count(b, kind)
    <3> DEFINE S == [kind : {kind}, id : Nat]
    <3> HIDE DEF S, b
    <3>1. Len(Chosen(Reverse(b), S)) = Len(Chosen(b, S))
      BY <1>3, ChosenReverse
    <3> QED
      BY <3>1, Zenon DEF Count, OfKinds, S
  <2> HIDE DEF b, c, d
  <2>4. t = (s \o c) \o d /\ s \o c \in Seq(Int)
    <3>1. t = s \o (c \o d)
      BY <1>4, <2>1
    <3> HIDE DEF Z
    <3>0. c \in Seq(Int) /\ d \in Seq(Int)
      BY <2>1
    <3>2. (s \o c) \o d = s \o (c \o d)
      BY <3>0, Assoc, SMTT(20)
    <3>3. s \o c \in Seq(Int)
      BY <2>1
    <3> QED
      BY <3>1, <3>2, <3>3, Zenon
  <2>5. Pops((s \o c) \o d, Len(d)) = s \o c
    BY <2>1, <2>4, Dropped
  <2> QED
    BY <2>2, <2>3, <2>4, <2>5 DEF c
<1>5. /\ gc' = Pops(gc, Count(Reverse(b), "gc_root")) /\ ctx' = Pops(ctx, Count(Reverse(b), "allocctx"))
      /\ leaving' = how
      /\ ran' = ran \o Lexical!Ids(Reverse(b), Lexical!CleanupKinds(how))
  BY SameOperators, Zenon DEF Execute, q, Lexical!Ids, Lexical!CleanupKinds, OfKinds
<1>6. gc' = CallerRoots \o Lexical!InForce(p, "gc_root")
  BY <1>4, <1>5, CallerAssumption DEF Stacks
<1>7. ctx' = CallerContexts \o Lexical!InForce(p, "allocctx")
  BY <1>4, <1>5, CallerAssumption DEF Stacks
<1> QED
  BY <1>5, <1>6, <1>7 DEF Stacks, p, q

(* The scopes control is in, one by one.                                   *)
LEMMA OpenType ==
    ASSUME NEW ss \in Seq(ScopeSet), NEW n \in 0..Len(ss)
    PROVE  /\ OpenOf(ss, n) \in Seq(Seq(AllDecls)) /\ Len(OpenOf(ss, n)) = n
           /\ \A i \in 1..n : OpenOf(ss, n)[i] = ss[i].decls
<1> DEFINE Z == Seq(AllDecls)
<1>1. n \in Nat /\ \A i \in 1..n : i \in 1..Len(ss)
  OBVIOUS
<1>2. \A i \in 1..n : ss[i].decls \in Z
  BY <1>1, FramesOfType
<1> HIDE DEF Z
<1>3. OpenOf(ss, n) \in Seq(Z) /\ Len(OpenOf(ss, n)) = n
  BY <1>1, <1>2 DEF OpenOf
<1>4. \A i \in 1..n : OpenOf(ss, n)[i] = ss[i].decls
  BY DEF OpenOf
<1> QED
  BY <1>3, <1>4 DEF Z

(* Control is in the first k of the scopes it was in.                      *)
LEMMA OpenCut ==
    ASSUME NEW ss \in Seq(ScopeSet), NEW n \in 0..Len(ss), NEW tt \in Seq(ScopeSet), NEW k \in 0..Len(tt),
           k <= n, \A i \in 1..k : tt[i].decls = ss[i].decls
    PROVE  OpenOf(tt, k) = SubSeq(OpenOf(ss, n), 1, k)
<1> DEFINE Z == Seq(AllDecls)
           o == OpenOf(ss, n)
           p == OpenOf(tt, k)
           q == SubSeq(o, 1, k)
<1>1. o \in Seq(Z) /\ Len(o) = n /\ \A i \in 1..n : o[i] = ss[i].decls
  BY OpenType
<1>2. p \in Seq(Z) /\ Len(p) = k /\ \A i \in 1..k : p[i] = tt[i].decls
  BY OpenType
<1>3. k \in Nat /\ n \in Nat
  OBVIOUS
<1> HIDE DEF Z, o, p
<1>4. q \in Seq(Z) /\ Len(q) = k /\ \A i \in 1..k : q[i] = o[i]
  BY <1>1, <1>3
<1> HIDE DEF q
<1>5. \A i \in 1..k : p[i] = q[i]
  <2> TAKE i \in 1..k
  <2>1. i \in 1..n
    BY <1>3
  <2> QED
    BY <1>1, <1>2, <1>4, <2>1
<1>6. p = q
  BY <1>2, <1>4, <1>5, Same
<1> QED
  BY <1>6 DEF o, p, q

(* Control that is in all scopes.                                          *)
LEMMA AllOpen ==
    ASSUME NEW ss \in Seq(ScopeSet)
    PROVE  OpenOf(ss, Len(ss)) = DeclsOf(ss)
<1>1. DOMAIN ss = 1..Len(ss)
  OBVIOUS
<1> QED
  BY <1>1, Zenon DEF OpenOf, DeclsOf

(* A sequence of which some has gone or come.                              *)
LEMMA StrictPrefixes ==
    ASSUME NEW Z, NEW s \in Seq(Z)
    PROVE  /\ \A k \in Nat : k < Len(s) => IsStrictPrefix(SubSeq(s, 1, k), s) /\ Len(SubSeq(s, 1, k)) = k
           /\ \A t \in Seq(Z) : Len(t) # 0 => IsStrictPrefix(s, s \o t)
<1>1. ASSUME NEW k \in Nat, k < Len(s)
      PROVE  IsStrictPrefix(SubSeq(s, 1, k), s) /\ Len(SubSeq(s, 1, k)) = k
  <2> DEFINE q == SubSeq(s, 1, k)
  <2>1. q \in Seq(Z) /\ Len(q) = k
    BY <1>1
  <2>2. SubSeq(q, 1, k) = q
    <3> HIDE DEF q
    <3> QED
      BY <2>1
  <2>3. q # s
    BY <1>1, <2>1
  <2> QED
    BY <1>1, <2>1, <2>2, <2>3 DEF IsStrictPrefix, IsPrefix
<1>2. ASSUME NEW t \in Seq(Z), Len(t) # 0 PROVE IsStrictPrefix(s, s \o t)
  <2>1. Len(s \o t) = Len(s) + Len(t) /\ Len(s) \in Nat /\ Len(t) \in Nat
    OBVIOUS
  <2>2. SubSeq(s, 1, Len(s)) = s
    OBVIOUS
  <2>3. SubSeq(s \o t, 1, Len(s)) = s
    OBVIOUS
  <2>4. s # s \o t /\ Len(s) <= Len(s \o t)
    BY <1>2, <2>1
  <2> QED
    BY <2>2, <2>3, <2>4, Zenon DEF IsStrictPrefix, IsPrefix
<1> QED
  BY <1>1, <1>2

(* Stacks of integers are put together in any order.                       *)
LEMMA StacksAssoc == \A s, t, u \in Seq(Int) : (s \o t) \o u = s \o (t \o u)
<1> TAKE s, t, u \in Seq(Int)
<1> QED
  BY SMTT(20)

(* A step that leaves the scopes after the kth and runs what they have     *)
(* declared, last first, is one the promise allows.                        *)
LEMMA LexLeaves ==
    ASSUME LexInv, NEW k \in Nat, k < live, NEW how,
           Execute(Reverse(FlattenSeq(SubSeq(Open, k + 1, live))), how),
           OpenOf(scopes', live') = SubSeq(Open, 1, k)
    PROVE  Stacks(Open, gc, ctx)' /\ Lexical!LNext
<1> DEFINE Z == Seq(AllDecls)
           left == SubSeq(Open, k + 1, live)
<1>1. scopes \in Seq(ScopeSet) /\ live \in 0..Len(scopes) /\ Stacks(Open, gc, ctx)
  BY TypeNames DEF LexInv, Inv
<1>2. Open \in Seq(Seq(AllDecls)) /\ Len(Open) = live
  BY <1>1, OpenType DEF Open
<1>3. /\ Stacks(SubSeq(Open, 1, k), gc', ctx') /\ leaving' = how
      /\ ran' = ran \o Lexical!Ids(Reverse(FlattenSeq(left)), Lexical!CleanupKinds(how))
  <2>1. k <= Len(Open) /\ left = SubSeq(Open, k + 1, Len(Open))
    BY <1>2
  <2>2. Execute(Reverse(FlattenSeq(SubSeq(Open, k + 1, Len(Open)))), how)
    BY <2>1
  <2>3. Stacks(Open, gc, ctx)
    BY <1>1
  <2> HIDE DEF left, Z
  <2>4. /\ Stacks(SubSeq(Open, 1, k), gc', ctx') /\ leaving' = how
        /\ ran' = ran \o Lexical!Ids(Reverse(FlattenSeq(SubSeq(Open, k + 1, Len(Open)))), Lexical!CleanupKinds(how))
    BY <1>2, <2>1, <2>2, <2>3, LeaveStacks
  <2> QED
    BY <2>1, <2>4
<1>4. IsStrictPrefix(SubSeq(Open, 1, k), Open) /\ Len(SubSeq(Open, 1, k)) = k
  <2>1. Open \in Seq(Z)
    BY <1>2
  <2> HIDE DEF Z
  <2> QED
    BY <1>2, <2>1, StrictPrefixes
<1>5. Open' = SubSeq(Open, 1, k)
  BY DEF Open
<1>6. Stacks(Open, gc, ctx)'
  <2>1. Stacks(Open', gc', ctx')
    BY <1>3, <1>5
  <2> QED
    BY <2>1 DEF Stacks, Open
<1>7. Lexical!Leave
  <2>1. IsStrictPrefix(Open', Open) /\ Len(Open') = k
    BY <1>4, <1>5
  <2>2. ran' = ran \o Lexical!Ids(Reverse(FlattenSeq(SubSeq(Open, Len(Open') + 1, Len(Open)))),
                                  Lexical!CleanupKinds(leaving'))
    BY <1>2, <1>3, <2>1
  <2> QED
    BY <2>1, <2>2, SameOperators, Zenon DEF Lexical!Leave, Open, OpenOf
<1>8. /\ gc' = CallerRoots \o Lexical!InForce(Open', "gc_root")
      /\ ctx' = CallerContexts \o Lexical!InForce(Open', "allocctx")
  BY <1>6 DEF Stacks
<1> QED
  BY <1>6, <1>7, <1>8, Zenon DEF Lexical!LNext, Open, OpenOf

(* So is one that enters scopes and puts on the stacks what they declare.  *)
LEMMA LexEnters ==
    ASSUME LexInv, NEW x \in Seq(Seq(AllDecls)), Len(x) # 0, OpenOf(scopes', live') = Open \o x,
           UNCHANGED <<ran, leaving>>,
           gc' = gc \o Lexical!InForce(x, "gc_root"), ctx' = ctx \o Lexical!InForce(x, "allocctx")
    PROVE  Stacks(Open, gc, ctx)' /\ Lexical!LNext
<1> DEFINE Z == Seq(AllDecls)
<1>1. scopes \in Seq(ScopeSet) /\ live \in 0..Len(scopes) /\ Stacks(Open, gc, ctx)
  BY TypeNames DEF LexInv, Inv
<1>2. Open \in Seq(Seq(AllDecls)) /\ Len(Open) = live
  BY <1>1, OpenType DEF Open
<1>3. Open' = Open \o x
  BY DEF Open
<1>4. IsStrictPrefix(Open, Open')
  <2>1. Open \in Seq(Z) /\ x \in Seq(Z)
    BY <1>2
  <2> HIDE DEF Z
  <2>2. IsStrictPrefix(Open, Open \o x)
    BY <2>1, StrictPrefixes
  <2> QED
    BY <1>3, <2>2, Zenon
<1>5. ASSUME NEW s \in Seq(Int), NEW kind
      PROVE  (s \o Lexical!InForce(Open, kind)) \o Lexical!InForce(x, kind) = s \o Lexical!InForce(Open \o x, kind)
  <2> DEFINE a == Lexical!InForce(Open, kind)
             b == Lexical!InForce(x, kind)
  <2>1. a \in Seq(Int) /\ Lexical!InForce(Open \o x, kind) = a \o b
    BY <1>2, InForceCat
  <2>2. b \in Seq(Int)
    BY InForceCat
  <2> HIDE DEF a, b, Z
  <2>3. a \in Seq(Int)
    BY <2>1
  <2>4. (s \o a) \o b = s \o (a \o b)
    BY <2>2, <2>3, StacksAssoc
  <2> QED
    BY <2>1, <2>4 DEF a, b
<1>6. /\ gc' = CallerRoots \o Lexical!InForce(Open', "gc_root")
      /\ ctx' = CallerContexts \o Lexical!InForce(Open', "allocctx")
  BY <1>1, <1>3, <1>5, CallerAssumption, Zenon DEF Stacks
<1>7. Stacks(Open, gc, ctx)'
  BY <1>6 DEF Stacks
<1>8. Lexical!Enter
  BY <1>4, SameOperators, Zenon DEF Lexical!Enter, Open, OpenOf
<1> QED
  BY <1>6, <1>7, <1>8, Zenon DEF Lexical!LNext, Open, OpenOf

(* What is chosen of a list of one declaration, and of none.               *)
LEMMA IdsOne ==
    ASSUME NEW d \in AllDecls, NEW kinds
    PROVE  /\ Lexical!Ids(<<d>>, kinds) = IF d.kind \in kinds THEN <<d.id>> ELSE <<>>
           /\ Lexical!Ids(<<>>, kinds) = <<>>
<1> DEFINE S == [kind : kinds, id : Nat]
<1>1. d \in S <=> d.kind \in kinds
  <2>1. d = [kind |-> d.kind, id |-> d.id] /\ d.id \in Nat
    BY BoundsAssumption DEF AllDecls
  <2> QED
    BY <2>1
<1> HIDE DEF S
<1>2. Chosen(<<d>>, S) = (IF d \in S THEN <<d>> ELSE <<>>) /\ Chosen(<<>>, S) = <<>>
  BY ChosenOne, ChosenEmpty
<1>3. \A s : Lexical!Ids(s, kinds) = LET c == Chosen(s, S) IN [i \in DOMAIN c |-> c[i].id]
  BY SameOperators, Zenon DEF Lexical!Ids, S
<1> DEFINE Is(c) == [i \in DOMAIN c |-> c[i].id]
<1>4. \A s : Lexical!Ids(s, kinds) = Is(Chosen(s, S))
  BY <1>3, Zenon
<1>5. Is(<<>>) = <<>> /\ Is(<<d>>) = <<d.id>>
  OBVIOUS
<1> HIDE DEF Is
<1>6. Lexical!Ids(<<d>>, kinds) = Is(Chosen(<<d>>, S)) /\ Lexical!Ids(<<>>, kinds) = Is(Chosen(<<>>, S))
  BY <1>4, Zenon
<1>7. CASE d \in S
  BY <1>1, <1>2, <1>5, <1>6, <1>7
<1>8. CASE d \notin S
  BY <1>1, <1>2, <1>5, <1>6, <1>8
<1> QED
  BY <1>7, <1>8

(* One scope without declarations puts nothing on the stacks.              *)
LEMMA EmptyScope ==
    /\ << <<>> >> \in Seq(Seq(AllDecls)) /\ Len(<< <<>> >>) = 1
    /\ \A kind : Lexical!InForce(<< <<>> >>, kind) = <<>>
<1> DEFINE e == <<>>
<1>1. e \in Seq(AllDecls)
  OBVIOUS
<1>2. FlattenSeq(<<e>>) = e
  <2> HIDE DEF e
  <2> QED
    BY <1>1, FlatOne
<1>3. \A kinds : Lexical!Ids(e, kinds) = <<>>
  <2> TAKE kinds
  <2>1. Chosen(e, [kind : kinds, id : Nat]) = <<>>
    BY ChosenEmpty
  <2>2. Lexical!Ids(e, kinds) = [i \in DOMAIN <<>> |-> <<>>[i].id]
    BY <2>1, SameOperators, Zenon DEF Lexical!Ids
  <2> QED
    BY <2>2
<1>4. \A kind : Lexical!InForce(<<e>>, kind) = <<>>
  BY <1>2, <1>3, InForceIs, Zenon
<1> DEFINE Z == Seq(AllDecls)
<1>5. e \in Z
  BY <1>1
<1> HIDE DEF Z, e
<1>6. <<e>> \in Seq(Z) /\ Len(<<e>>) = 1
  BY <1>5
<1> QED
  BY <1>4, <1>6 DEF Z, e

\* What a step is to keep and to be.
LexStep == Plain' /\ Stacks(Open, gc, ctx)' /\ [Lexical!LNext]_(Lexical!lvars)

(* The types, and the scopes control is in when it is in all of them.      *)
LEMMA LexTypes ==
    ASSUME LexInv
    PROVE  /\ TypeOK /\ InOrder /\ Plain /\ Stacks(Open, gc, ctx)
           /\ scopes \in Seq(ScopeSet) /\ live \in 0..Len(scopes) /\ Len(scopes) \in Nat
           /\ DOMAIN scopes = 1..Len(scopes)
           /\ frames \in Seq(FrameSet) /\ gc \in Seq(Int) /\ ctx \in Seq(Int)
           /\ Open \in Seq(Seq(AllDecls)) /\ Len(Open) = live
           /\ \A i \in 1..live : Open[i] = scopes[i].decls
           /\ live = Len(scopes) => Open = DeclsOf(scopes)
<1>1. scopes \in Seq(ScopeSet) /\ live \in 0..Len(scopes)
  BY TypeNames DEF LexInv, Inv
<1>2. /\ Open \in Seq(Seq(AllDecls)) /\ Len(Open) = live
      /\ \A i \in 1..live : Open[i] = scopes[i].decls
  BY <1>1, OpenType DEF Open
<1>3. live = Len(scopes) => Open = DeclsOf(scopes)
  BY <1>1, AllOpen DEF Open
<1>4. Len(scopes) \in Nat /\ DOMAIN scopes = 1..Len(scopes)
  BY <1>1
<1>5. TypeOK /\ InOrder /\ Plain /\ Stacks(Open, gc, ctx)
  BY DEF LexInv, Inv
<1>6. frames \in Seq(FrameSet) /\ gc \in Seq(Int) /\ ctx \in Seq(Int)
  BY <1>5, TypeNames
<1> QED
  BY <1>1, <1>2, <1>3, <1>4, <1>5, <1>6, Zenon

(* A step that touches neither the scopes control is in nor the stacks nor *)
(* the log is none of the promise's.                                       *)
LEMMA LexStutters ==
    ASSUME LexInv, Plain', OpenOf(scopes', live') = Open, UNCHANGED <<gc, ctx, ran, leaving>>
    PROVE  LexStep
<1>1. Open' = Open
  BY DEF Open
<1>2. Stacks(Open, gc, ctx)'
  BY <1>1, LexTypes, Zenon DEF Stacks
<1>3. UNCHANGED Lexical!lvars
  BY <1>1, Zenon DEF Lexical!lvars, Open, OpenOf
<1> QED
  BY <1>2, <1>3 DEF LexStep

(* A jump out of the scopes after the kth.                                 *)
LEMMA LexJump ==
    ASSUME LexInv, live = Len(scopes), NEW k \in Nat, k < live, NEW m \in Int, NEW how,
           \A i \in 1..k : Depth(scopes, i) < m,
           \A i \in (k + 1)..Len(scopes) : Depth(scopes, i) >= m,
           Execute(CleanupsForExit(m, NoFrame), how), live' = k, UNCHANGED scopes, Plain'
    PROVE  LexStep
<1>1. /\ scopes \in Seq(ScopeSet) /\ InOrder /\ live \in 0..Len(scopes) /\ Len(scopes) \in Nat
      /\ Open = DeclsOf(scopes)
  BY LexTypes
<1>2. CleanupsForExit(m, NoFrame) = Reverse(FlattenSeq(SubSeq(Open, k + 1, live)))
  BY <1>1, ExitRuns
<1>3. OpenOf(scopes', live') = SubSeq(Open, 1, k)
  <2>1. k \in 0..Len(scopes) /\ k <= live
    BY <1>1
  <2>2. OpenOf(scopes, k) = SubSeq(OpenOf(scopes, live), 1, k)
    BY <1>1, <2>1, OpenCut
  <2> QED
    BY <2>2 DEF Open
<1>4. Execute(Reverse(FlattenSeq(SubSeq(Open, k + 1, live))), how)
  BY <1>2
<1>5. Stacks(Open, gc, ctx)' /\ Lexical!LNext
  BY <1>3, <1>4, LexLeaves
<1> QED
  BY <1>5 DEF LexStep

(* A break leaves the loop and what is in it.                              *)
LEMMA LexBreak == ASSUME features = {}, LexInv, NEW i \in DOMAIN scopes, Break(i) PROVE LexStep
<1>1. /\ live = Len(scopes) /\ scopes[i].kind = "loop" /\ live' = i - 1
      /\ Execute(CleanupsForExit(LoopDepthAt(i), NoFrame), "break")
      /\ UNCHANGED <<scopes, frames, status, fnHandle, next>>
  <2>1. "breakInMatch" \notin features
    OBVIOUS
  <2> QED
    BY <2>1 DEF Break, Here, program
<1>2. i \in 1..Len(scopes) /\ Len(scopes) \in Nat
  BY LexTypes
<1> DEFINE k == i - 1
           m == Depth(scopes, i)
<1>3. k \in Nat /\ k < live /\ m \in Nat /\ LoopDepthAt(i) = m /\ i \in Nat
  <2>1. i \in Nat /\ i - 1 \in Nat /\ i - 1 < Len(scopes)
    BY <1>2
  <2>2. LoopDepthAt(i) = Depth(scopes, i)
    BY DEF LoopDepthAt, Depth
  <2>3. Depth(scopes, i) \in Nat
    BY <2>1, DepthType
  <2> QED
    BY <1>1, <2>1, <2>2, <2>3
<1>4. \A j \in 1..k : Depth(scopes, j) < m
  <2> TAKE j \in 1..k
  <2>1. j \in Nat /\ j <= i /\ j # i
    BY <1>2
  <2> QED
    BY <1>1, <1>3, <2>1, DepthGrows
<1>5. \A j \in (k + 1)..Len(scopes) : Depth(scopes, j) >= m
  <2> TAKE j \in (k + 1)..Len(scopes)
  <2>1. j \in Nat /\ i <= j
    BY <1>2
  <2>2. Depth(scopes, i) <= Depth(scopes, j) /\ Depth(scopes, j) \in Nat
    BY <1>3, <2>1, DepthGrows, DepthType
  <2> QED
    BY <1>3, <2>2
<1>6. Plain'
  <2>1. Plain /\ status # "done"
    BY LexTypes DEF Break, Here
  <2> QED
    BY <1>1, <2>1 DEF Plain
<1> HIDE DEF k, m
<1>7. Execute(CleanupsForExit(m, NoFrame), "break") /\ live' = k /\ UNCHANGED scopes
  BY <1>1, <1>3 DEF k
<1> QED
  BY <1>1, <1>3, <1>4, <1>5, <1>6, <1>7, LexJump

(* A jump out of the function.                                             *)
LEMMA LexOut ==
    ASSUME LexInv, Here, NEW how, Execute(CleanupsForExit(0, NoFrame), how), live' = 0, UNCHANGED scopes
    PROVE  LexStep
<1>1. live = Len(scopes) /\ scopes # <<>>
  BY DEF Here
<1>2. scopes \in Seq(ScopeSet) /\ Len(scopes) \in Nat /\ Plain
  BY LexTypes
<1>3. 0 < live
  BY <1>1, <1>2
<1>4. \A j \in (0 + 1)..Len(scopes) : Depth(scopes, j) >= 0
  <2> TAKE j \in (0 + 1)..Len(scopes)
  <2>1. Depth(scopes, j) \in Nat
    BY DepthType
  <2> QED
    BY <2>1
<1>5. Plain'
  BY <1>2 DEF Plain
<1> QED
  BY <1>1, <1>3, <1>4, <1>5, LexJump

(* A return leaves all scopes.                                             *)
LEMMA LexReturn == ASSUME LexInv, NEW how \in {"return", "error"}, Return(how) PROVE LexStep
<1>1. Closures = {}
  BY LexTypes DEF Plain, Closures
<1> QED
  BY <1>1, LexOut DEF Return

(* So does a try that no with handles.                                     *)
LEMMA LexTryToFn == ASSUME LexInv, TryToFn PROVE LexStep
  BY LexOut DEF TryToFn

(* One element cut out, and one put at the end.                            *)
LEMMA One ==
    ASSUME NEW X, NEW s \in Seq(X)
    PROVE  /\ \A n \in 1..Len(s) : SubSeq(s, n, n) = <<s[n]>>
           /\ \A x \in X : /\ Append(s, x) = s \o <<x>> /\ <<x>> \in Seq(X) /\ Len(<<x>>) = 1 /\ <<x>>[1] = x
                           /\ Append(s, x) \in Seq(X) /\ Len(Append(s, x)) = Len(s) + 1
<1>1. ASSUME NEW n \in 1..Len(s) PROVE SubSeq(s, n, n) = <<s[n]>>
  <2> DEFINE m == n - 1
             q == SubSeq(s, m + 1, n)
  <2>1. m \in Nat /\ n \in Nat /\ m <= n /\ n <= Len(s) /\ n - m = 1 /\ m + 1 = n
    OBVIOUS
  <2> HIDE DEF m
  <2>2. q \in Seq(X) /\ Len(q) = n - m /\ \A i \in 1..(n - m) : q[i] = s[m + i]
    BY <2>1, Cut
  <2>3. q[1] = s[n]
    BY <2>1, <2>2
  <2>4. q = SubSeq(s, n, n)
    BY <2>1
  <2> HIDE DEF q
  <2>5. q = <<q[1]>>
    BY <2>1, <2>2
  <2> QED
    BY <2>3, <2>4, <2>5
<1>2. ASSUME NEW x \in X
      PROVE  /\ Append(s, x) = s \o <<x>> /\ <<x>> \in Seq(X) /\ Len(<<x>>) = 1 /\ <<x>>[1] = x
             /\ Append(s, x) \in Seq(X) /\ Len(Append(s, x)) = Len(s) + 1
  <2>1. <<x>> \in Seq(X) /\ Append(s, x) \in Seq(X) /\ Len(Append(s, x)) = Len(s) + 1
    OBVIOUS
  <2>2. Append(s, x) = s \o <<x>>
    OBVIOUS
  <2> QED
    BY <2>1, <2>2
<1> QED
  BY <1>1, <1>2

(* The end of the last scope, in which its declarations are run.           *)
LEMMA LexEnds ==
    ASSUME LexInv, live = Len(scopes), live # 0, NEW how, Execute(Reverse(Last(scopes).decls), how),
           scopes' = Front(scopes), live' = live - 1, Plain'
    PROVE  LexStep
<1> DEFINE n == Len(scopes)
           k == n - 1
           ds == Last(scopes).decls
           Z == Seq(AllDecls)
<1>1. /\ scopes \in Seq(ScopeSet) /\ n \in Nat /\ Open \in Seq(Z) /\ Len(Open) = n
      /\ \A i \in 1..live : Open[i] = scopes[i].decls
  BY LexTypes
<1>2. /\ Front(scopes) \in Seq(ScopeSet) /\ Len(Front(scopes)) = k /\ k \in Nat /\ k < live /\ n \in 1..n
      /\ \A i \in 1..k : Front(scopes)[i] = scopes[i]
  <2>1. Len(scopes) # 0
    OBVIOUS
  <2>2. /\ Front(scopes) \in Seq(ScopeSet) /\ Len(Front(scopes)) = n - 1 /\ n \in 1..n
        /\ \A i \in 1..(n - 1) : Front(scopes)[i] = scopes[i]
    BY <1>1, <2>1, FramesLast
  <2>3. n - 1 \in Nat /\ n - 1 < n
    BY <1>1, <2>1
  <2> QED
    BY <2>2, <2>3
<1>3. ds \in Z /\ Open[n] = ds
  <2>1. scopes[n].decls \in Seq(AllDecls)
    BY <1>1, <1>2, FramesOfType
  <2> QED
    BY <1>1, <1>2, <2>1 DEF Last
<1>4. FlattenSeq(SubSeq(Open, k + 1, live)) = ds
  <2>1. SubSeq(Open, k + 1, live) = <<ds>>
    <3>1. k + 1 = n /\ live = n
      BY <1>1
    <3> HIDE DEF Z, k, ds
    <3>2. SubSeq(Open, n, n) = <<Open[n]>>
      BY <1>1, <1>2, One
    <3> QED
      BY <1>3, <3>1, <3>2
  <2>2. ds \in Seq(AllDecls)
    BY <1>3
  <2> HIDE DEF ds
  <2> QED
    BY <2>1, <2>2, FlatOne
<1>5. OpenOf(scopes', live') = SubSeq(Open, 1, k)
  <2>1. k \in 0..Len(Front(scopes)) /\ k <= live /\ live \in 0..Len(scopes)
    BY <1>1, <1>2
  <2>2. \A i \in 1..k : Front(scopes)[i].decls = scopes[i].decls
    BY <1>2
  <2> HIDE DEF k, n
  <2>3. OpenOf(Front(scopes), k) = SubSeq(OpenOf(scopes, live), 1, k)
    BY <1>1, <1>2, <2>1, <2>2, OpenCut
  <2> QED
    BY <2>3 DEF Open, k, n
<1>6. Execute(Reverse(FlattenSeq(SubSeq(Open, k + 1, live))), how)
  BY <1>4
<1> HIDE DEF k
<1>7. Stacks(Open, gc, ctx)' /\ Lexical!LNext
  BY <1>2, <1>5, <1>6, LexLeaves
<1> QED
  BY <1>7 DEF LexStep

(* What is plain stays so when the last scope goes.                        *)
LEMMA PlainFront ==
    ASSUME LexInv, Len(scopes) # 0, scopes' = Front(scopes), status' = "done" => live' = 0
    PROVE  Plain'
<1>1. scopes \in Seq(ScopeSet) /\ Len(scopes) \in Nat /\ Plain
  BY LexTypes
<1>2. /\ Front(scopes) \in Seq(ScopeSet) /\ Len(Front(scopes)) = Len(scopes) - 1
      /\ \A i \in 1..(Len(scopes) - 1) : Front(scopes)[i] = scopes[i] /\ i \in 1..Len(scopes)
  BY <1>1, FramesLast
<1>3. DOMAIN Front(scopes) = 1..(Len(scopes) - 1) /\ DOMAIN scopes = 1..Len(scopes)
  BY <1>1, <1>2
<1> QED
  BY <1>1, <1>2, <1>3 DEF Plain

(* The end of a block leaves it.                                           *)
LEMMA LexFallthrough == ASSUME LexInv, Fallthrough PROVE LexStep
<1>1. /\ scopes \in Seq(ScopeSet) /\ Len(scopes) \in Nat /\ InOrder /\ Plain
  BY LexTypes
<1>2. /\ live = Len(scopes) /\ Len(scopes) # 0 /\ Last(scopes).kind # "with" /\ status # "done"
      /\ scopes' = Front(scopes) /\ live' = live - 1
      /\ status' = (IF Len(scopes) = 1 THEN "done" ELSE status)
      /\ Execute(FallthroughCleanups(Len(scopes)), "end")
  BY <1>1 DEF Fallthrough, Here
<1>3. Execute(Reverse(Last(scopes).decls), "end")
  BY <1>1, <1>2, EndRuns
<1>4. Plain'
  <2>1. status' = "done" => live' = 0
    BY <1>1, <1>2
  <2> QED
    BY <1>2, <2>1, PlainFront
<1> QED
  BY <1>2, <1>3, <1>4, LexEnds

(* The end of a with leaves it.                                            *)
LEMMA LexEndWith == ASSUME LexInv, EndWith PROVE LexStep
<1>1. /\ scopes \in Seq(ScopeSet) /\ Len(scopes) \in Nat /\ DOMAIN scopes = 1..Len(scopes) /\ Plain
  BY LexTypes
<1>2. /\ live = Len(scopes) /\ Len(scopes) # 0 /\ scopes' = Front(scopes) /\ live' = live - 1
      /\ status' = status
  BY <1>1 DEF EndWith
<1>3. ~Last(scopes).handle
  BY <1>1, <1>2 DEF Plain, Last
<1>4. Execute(Reverse(Last(scopes).decls), "end")
  BY <1>3 DEF EndWith
<1>5. Plain'
  <2>1. status' = "done" => live' = 0
    BY <1>1, <1>2 DEF Plain
  <2> QED
    BY <1>2, <2>1, PlainFront
<1> QED
  BY <1>2, <1>4, <1>5, LexEnds

(* Dead code leaves and runs nothing.                                      *)
LEMMA LexClose == ASSUME LexInv, Close PROVE LexStep
<1>1. /\ scopes \in Seq(ScopeSet) /\ Len(scopes) \in Nat /\ live \in 0..Len(scopes) /\ Plain
  BY LexTypes
<1>2. live < Len(scopes) /\ scopes' = Front(scopes) /\ UNCHANGED <<live, status, gc, ctx, ran, leaving>>
  BY DEF Close, runtime
<1>3. Len(scopes) # 0
  BY <1>1, <1>2
<1>4. Plain'
  <2>1. status' = "done" => live' = 0
    BY <1>1, <1>2 DEF Plain
  <2> QED
    BY <1>2, <1>3, <2>1, PlainFront
<1>5. OpenOf(scopes', live') = Open
  <2>1. /\ Front(scopes) \in Seq(ScopeSet) /\ Len(Front(scopes)) = Len(scopes) - 1
        /\ \A i \in 1..(Len(scopes) - 1) : Front(scopes)[i] = scopes[i]
    BY <1>1, <1>3, FramesLast
  <2>2. \A i \in 1..live : Front(scopes)[i].decls = scopes[i].decls
    BY <1>1, <1>2, <2>1
  <2> QED
    BY <1>2, <2>2, Zenon DEF Open, OpenOf
<1> QED
  BY <1>2, <1>4, <1>5, LexStutters

(* What is plain stays so when plain scopes come.                          *)
LEMMA PlainMore ==
    ASSUME LexInv, NEW s \in Seq(ScopeSet), scopes' = scopes \o s,
           \A i \in 1..Len(s) : ~s[i].handle /\ s[i].state = "open" /\ s[i].kind # "closure",
           status' = "done" => live' = 0
    PROVE  Plain'
<1>1. scopes \in Seq(ScopeSet) /\ DOMAIN scopes = 1..Len(scopes) /\ Plain
  BY LexTypes
<1>2. /\ Len(scopes) \in Nat /\ Len(s) \in Nat
      /\ scopes \o s \in Seq(ScopeSet) /\ Len(scopes \o s) = Len(scopes) + Len(s)
      /\ \A i \in 1..Len(scopes) : (scopes \o s)[i] = scopes[i]
      /\ \A i \in 1..Len(s) : (scopes \o s)[Len(scopes) + i] = s[i]
      /\ \A i \in 1..(Len(scopes) + Len(s)) :
            i \in 1..Len(scopes) \/ (i - Len(scopes) \in 1..Len(s) /\ i = Len(scopes) + (i - Len(scopes)))
  BY <1>1
<1>3. DOMAIN (scopes \o s) = 1..(Len(scopes) + Len(s))
  BY <1>2
<1>4. ASSUME NEW i \in 1..(Len(scopes) + Len(s))
      PROVE  ~(scopes \o s)[i].handle /\ (scopes \o s)[i].state = "open" /\ (scopes \o s)[i].kind # "closure"
  <2>1. CASE i \in 1..Len(scopes)
    BY <1>1, <1>2, <2>1 DEF Plain
  <2>2. CASE i - Len(scopes) \in 1..Len(s) /\ i = Len(scopes) + (i - Len(scopes))
    BY <1>2, <2>2
  <2> QED
    BY <1>2, <2>1, <2>2
<1> QED
  BY <1>3, <1>4 DEF Plain

(* Entering a scope.                                                       *)
LEMMA LexEnter ==
    ASSUME features = {}, LexInv, NEW kind \in {"block", "loop", "match", "closure"}, Enter(kind)
    PROVE  LexStep
<1> DEFINE c == Scope(kind)
           e == << <<>> >>
<1>1. /\ kind # "closure" /\ scopes' = Append(scopes, c) /\ live' = live + 1 /\ live = Len(scopes)
      /\ status' = status /\ status # "done" /\ UNCHANGED <<gc, ctx, ran, leaving>>
  BY DEF Enter, Here, runtime
<1>2. /\ scopes \in Seq(ScopeSet) /\ Len(scopes) \in Nat /\ gc \in Seq(Int) /\ ctx \in Seq(Int)
      /\ Open = DeclsOf(scopes)
  BY <1>1, LexTypes
<1>3. c \in ScopeSet /\ c.decls = <<>> /\ ~c.handle /\ c.state = "open" /\ c.kind # "closure"
  BY <1>1, ScopeType DEF Scope
<1> HIDE DEF c
<1>4. /\ Append(scopes, c) = scopes \o <<c>> /\ <<c>> \in Seq(ScopeSet) /\ Len(<<c>>) = 1 /\ <<c>>[1] = c
      /\ Append(scopes, c) \in Seq(ScopeSet) /\ Len(Append(scopes, c)) = Len(scopes) + 1
  BY <1>2, <1>3, One
<1>5. Plain'
  <2> DEFINE s == <<c>>
  <2>1. s \in Seq(ScopeSet) /\ scopes' = scopes \o s
        /\ \A i \in 1..Len(s) : ~s[i].handle /\ s[i].state = "open" /\ s[i].kind # "closure"
    BY <1>1, <1>3, <1>4
  <2> HIDE DEF s
  <2> QED
    BY <1>1, <2>1, PlainMore
<1>6. OpenOf(scopes', live') = Open \o e
  <2>1. OpenOf(scopes', live') = DeclsOf(Append(scopes, c))
    BY <1>1, <1>4, AllOpen
  <2>2. DeclsOf(Append(scopes, c)) = Append(DeclsOf(scopes), c.decls)
    BY <1>2, <1>3, FramesMore
  <2> DEFINE Z == Seq(AllDecls)
             x == <<>>
             d == DeclsOf(scopes)
  <2>3. d \in Seq(Z) /\ x \in Z
    BY <1>2, AllFramesType
  <2> HIDE DEF Z, x, d
  <2>4. Append(d, x) = d \o <<x>>
    BY <2>3
  <2> QED
    BY <1>2, <1>3, <2>1, <2>2, <2>4 DEF x, d
<1>7. e \in Seq(Seq(AllDecls)) /\ Len(e) # 0 /\ \A k : Lexical!InForce(e, k) = <<>>
  BY EmptyScope
<1>8. gc' = gc \o Lexical!InForce(e, "gc_root") /\ ctx' = ctx \o Lexical!InForce(e, "allocctx")
  BY <1>1, <1>2, <1>7, CatEmpty
<1> HIDE DEF e
<1>9. Stacks(Open, gc, ctx)' /\ Lexical!LNext
  BY <1>1, <1>6, <1>7, <1>8, LexEnters
<1> QED
  BY <1>5, <1>9 DEF LexStep

(* The handle of the function is a scope entered from none.                *)
LEMMA LexFnHandler == ASSUME LexInv, FnHandler PROVE LexStep
<1> DEFINE c == Scope("block")
           e == << <<>> >>
<1>1. /\ scopes = <<>> /\ scopes' = <<c>> /\ live' = 1 /\ status' = "handler"
      /\ UNCHANGED <<gc, ctx, ran, leaving>>
  BY DEF FnHandler, runtime
<1>2. /\ scopes \in Seq(ScopeSet) /\ live \in 0..Len(scopes) /\ gc \in Seq(Int) /\ ctx \in Seq(Int)
      /\ Open \in Seq(Seq(AllDecls)) /\ Len(Open) = live
  BY LexTypes
<1>3. c.decls = <<>> /\ ~c.handle /\ c.state = "open" /\ c.kind # "closure"
  BY DEF Scope
<1> HIDE DEF c
<1>4. Plain'
  BY <1>1, <1>3 DEF Plain
<1>5. OpenOf(scopes', live') = Open \o e
  <2>1. live = 0
    BY <1>1, <1>2
  <2>2. Open = <<>>
    BY <1>2, <2>1 DEF Open, OpenOf
  <2>3. OpenOf(scopes', live') = <<c.decls>>
    BY <1>1 DEF OpenOf
  <2>4. <<>> \o e = e
    OBVIOUS
  <2> QED
    BY <1>3, <2>2, <2>3, <2>4
<1>6. e \in Seq(Seq(AllDecls)) /\ Len(e) # 0 /\ \A k : Lexical!InForce(e, k) = <<>>
  BY EmptyScope
<1>7. gc' = gc \o Lexical!InForce(e, "gc_root") /\ ctx' = ctx \o Lexical!InForce(e, "allocctx")
  BY <1>1, <1>2, <1>6, CatEmpty
<1> HIDE DEF e
<1>8. Stacks(Open, gc, ctx)' /\ Lexical!LNext
  BY <1>1, <1>5, <1>6, <1>7, LexEnters
<1> QED
  BY <1>4, <1>8 DEF LexStep

(* Two elements put at the end.                                            *)
LEMMA Two ==
    ASSUME NEW X, NEW s \in Seq(X), NEW t \in Seq(X)
    PROVE  Len(t) = 2 =>
              /\ s \o t \in Seq(X) /\ Len(s) \in Nat /\ Len(s \o t) = Len(s) + 2
              /\ \A i \in 1..Len(s) : (s \o t)[i] = s[i]
              /\ (s \o t)[Len(s) + 1] = t[1] /\ (s \o t)[Len(s) + 2] = t[2]
              /\ \A i \in 1..(Len(s) + 2) : i \in 1..Len(s) \/ i = Len(s) + 1 \/ i = Len(s) + 2
<1>1. Len(s) \in Nat /\ Len(t) \in Nat /\ s \o t \in Seq(X) /\ Len(s \o t) = Len(s) + Len(t)
  OBVIOUS
<1>2. \A i \in 1..Len(s) : (s \o t)[i] = s[i]
  OBVIOUS
<1>3. \A i \in 1..Len(t) : (s \o t)[Len(s) + i] = t[i]
  OBVIOUS
<1> DEFINE m == Len(s)
           n == Len(t)
           u == s \o t
<1>4. /\ m \in Nat /\ u \in Seq(X) /\ Len(u) = m + n
      /\ (\A i \in 1..m : u[i] = s[i]) /\ \A i \in 1..n : u[m + i] = t[i]
  BY <1>1, <1>2, <1>3
<1> HIDE DEF m, n, u
<1>5. n = 2 => u[m + 1] = t[1] /\ u[m + 2] = t[2]
  BY <1>4
<1>6. \A i \in 1..(m + 2) : i \in 1..m \/ i = m + 1 \/ i = m + 2
  BY <1>4
<1>7. n = 2 => /\ u \in Seq(X) /\ m \in Nat /\ Len(u) = m + 2
               /\ \A i \in 1..m : u[i] = s[i]
               /\ u[m + 1] = t[1] /\ u[m + 2] = t[2]
               /\ \A i \in 1..(m + 2) : i \in 1..m \/ i = m + 1 \/ i = m + 2
  BY <1>4, <1>5, <1>6
<1> QED
  BY <1>7, Zenon DEF m, n, u

(* A with enters two scopes, and a struct allocator goes on the stack.     *)
LEMMA LexWith ==
    ASSUME features = {}, LexInv,
           NEW alloc \in {"none", "struct", "dyn"}, NEW cleanup \in BOOLEAN, NEW handle \in BOOLEAN,
           With(alloc, cleanup, handle)
    PROVE  LexStep
<1> DEFINE a == IF alloc = "none" THEN <<>> ELSE <<Decl("allocctx")>>
           b == IF cleanup THEN <<Decl("with")>> ELSE <<>>
           ds == a \o b
           w == [kind |-> "with", decls |-> ds, handle |-> handle, state |-> "open"]
           c == Scope("block")
           x == << ds, <<>> >>
<1>1. /\ scopes \in Seq(ScopeSet) /\ Len(scopes) \in Nat /\ gc \in Seq(Int) /\ ctx \in Seq(Int)
      /\ live \in 0..Len(scopes) /\ Plain
  BY LexTypes
<1>2. /\ ~handle /\ alloc # "dyn" /\ live = Len(scopes) /\ status # "done"
      /\ UNCHANGED <<gc, ran, leaving>> /\ next \in 1..MaxDecls
  <2>1. next \in 1..MaxDecls
    BY TypeNames, LexTypes, BoundsAssumption DEF With
  <2> QED
    BY <2>1 DEF With, Here
<1>3. Decl("allocctx") \in AllDecls /\ Decl("with") \in AllDecls
  BY <1>2 DEF Decl, AllDecls, DeclKinds
<1>4. a \in Seq(AllDecls) /\ b \in Seq(AllDecls) /\ ds \in Seq(AllDecls)
  <2> HIDE DEF AllDecls
  <2>1. a \in Seq(AllDecls) /\ b \in Seq(AllDecls)
    BY <1>3
  <2> HIDE DEF a, b
  <2> QED
    BY <2>1
<1>5. /\ Lexical!Ids(a, {"gc_root"}) = <<>> /\ Lexical!Ids(b, {"gc_root"}) = <<>>
      /\ Lexical!Ids(a, {"allocctx"}) = (IF alloc = "none" THEN <<>> ELSE <<next>>)
      /\ Lexical!Ids(b, {"allocctx"}) = <<>>
  <2> DEFINE d == Decl("allocctx")
             e == Decl("with")
  <2>1. d \in AllDecls /\ d.kind = "allocctx" /\ d.id = next /\ e \in AllDecls /\ e.kind = "with"
    BY <1>3 DEF Decl
  <2> HIDE DEF d, e
  <2>2. /\ \A kinds : Lexical!Ids(<<d>>, kinds) = IF "allocctx" \in kinds THEN <<next>> ELSE <<>>
        /\ \A kinds : Lexical!Ids(<<e>>, kinds) = IF "with" \in kinds THEN <<e.id>> ELSE <<>>
        /\ \A kinds : Lexical!Ids(<<>>, kinds) = <<>>
    BY <2>1, IdsOne
  <2>3. /\ Lexical!Ids(<<d>>, {"gc_root"}) = <<>> /\ Lexical!Ids(<<e>>, {"gc_root"}) = <<>>
        /\ Lexical!Ids(<<d>>, {"allocctx"}) = <<next>> /\ Lexical!Ids(<<e>>, {"allocctx"}) = <<>>
        /\ \A kinds : Lexical!Ids(<<>>, kinds) = <<>>
    BY <2>2
  <2>4. a = (IF alloc = "none" THEN <<>> ELSE <<d>>) /\ b = (IF cleanup THEN <<e>> ELSE <<>>)
    BY DEF d, e
  <2> HIDE DEF a, b
  <2>5. CASE alloc = "none"
    BY <2>3, <2>4, <2>5
  <2>6. CASE alloc # "none"
    BY <2>3, <2>4, <2>6
  <2> QED
    BY <2>5, <2>6
<1> HIDE DEF a, b, ds
<1>6. ds = a \o b
  BY DEF ds
<1>7. /\ Lexical!Ids(ds, {"gc_root"}) = <<>>
      /\ Lexical!Ids(ds, {"allocctx"}) = IF alloc = "none" THEN <<>> ELSE <<next>>
  <2>1. \A kinds : Lexical!Ids(a \o b, kinds) = Lexical!Ids(a, kinds) \o Lexical!Ids(b, kinds)
    BY <1>4, IdsCat
  <2>2. /\ Lexical!Ids(ds, {"gc_root"}) = <<>> \o <<>>
        /\ Lexical!Ids(ds, {"allocctx"}) = (IF alloc = "none" THEN <<>> ELSE <<next>>) \o <<>>
    BY <1>5, <1>6, <2>1, Zenon
  <2>3. <<>> \o <<>> = <<>> /\ <<next>> \o <<>> = <<next>>
    OBVIOUS
  <2>4. CASE alloc = "none"
    BY <2>2, <2>3, <2>4, Zenon
  <2>5. CASE alloc # "none"
    BY <2>2, <2>3, <2>5, Zenon
  <2> QED
    BY <2>4, <2>5
<1>8. /\ x \in Seq(Seq(AllDecls)) /\ Len(x) # 0
      /\ \A kind : Lexical!InForce(x, kind) = Lexical!Ids(ds, {kind})
  <2> DEFINE Z == Seq(AllDecls)
             e == <<>>
             o == <<ds>>
  <2>1. ds \in Z /\ e \in Z
    BY <1>4
  <2> HIDE DEF Z, e
  <2>2. x = <<ds, e>>
    BY DEF e
  <2>3. o \in Seq(Z) /\ x \in Seq(Z) /\ Len(x) = 2 /\ x = Append(o, e)
    BY <2>1, <2>2
  <2> HIDE DEF x, o
  <2>4. o \in Seq(Seq(AllDecls)) /\ e \in Seq(AllDecls)
    BY <2>1, <2>3 DEF Z
  <2>5. FlattenSeq(x) = FlattenSeq(o) \o e
    BY <2>3, <2>4, FlatAppend
  <2>6. FlattenSeq(o) = ds
    BY <1>4, FlatOne DEF o
  <2>7. ds \o <<>> = ds
    BY <1>4, CatEmpty
  <2>8. FlattenSeq(x) = ds
    BY <2>5, <2>6, <2>7, Zenon DEF e
  <2>9. \A kind : Lexical!InForce(x, kind) = Lexical!Ids(ds, {kind})
    BY <2>8, InForceIs, Zenon
  <2> QED
    BY <2>3, <2>9 DEF Z
<1>9. CASE alloc = "struct" /\ Len(ctx) >= ContextCapacity
  <2>1. status' = "abort" /\ UNCHANGED <<scopes, live, frames, ctx>>
    BY <1>9 DEF With
  <2>2. Plain'
    BY <1>1, <2>1 DEF Plain
  <2>3. OpenOf(scopes', live') = Open
    BY <2>1 DEF Open
  <2> QED
    BY <1>2, <2>1, <2>2, <2>3, LexStutters
<1>10. CASE ~(alloc = "struct" /\ Len(ctx) >= ContextCapacity)
  <2>1. /\ ctx' = (IF alloc = "struct" THEN Append(ctx, next) ELSE ctx)
        /\ scopes' = scopes \o <<w, c>> /\ live' = live + 2 /\ status' = status
    BY <1>10, Zenon DEF With, a, b, ds
  <2>2. /\ w \in ScopeSet /\ w.decls = ds /\ ~w.handle /\ w.state = "open" /\ w.kind # "closure"
        /\ c \in ScopeSet /\ c.decls = <<>> /\ ~c.handle /\ c.state = "open" /\ c.kind # "closure"
    <3>1. c \in ScopeSet /\ c.decls = <<>> /\ ~c.handle /\ c.state = "open" /\ c.kind # "closure"
      BY ScopeType DEF Scope
    <3> QED
      BY <1>2, <1>4, <3>1 DEF ScopeSet
  <2> HIDE DEF w, c
  <2> DEFINE s == <<w, c>>
  <2>3. s \in Seq(ScopeSet) /\ Len(s) = 2 /\ s[1] = w /\ s[2] = c /\ scopes' = scopes \o s
    BY <2>1, <2>2
  <2> HIDE DEF s
  <2>4. Plain'
    <3>1. \A i \in 1..Len(s) : i = 1 \/ i = 2
      BY <2>3
    <3>2. \A i \in 1..Len(s) : ~s[i].handle /\ s[i].state = "open" /\ s[i].kind # "closure"
      BY <2>2, <2>3, <3>1
    <3>3. status' # "done"
      BY <1>2, <2>1
    <3> QED
      BY <2>3, <3>2, <3>3, PlainMore
  <2>5. OpenOf(scopes', live') = Open \o x
    <3> DEFINE Z == Seq(AllDecls)
               p == OpenOf(scopes', live')
               n == Len(scopes)
    <3>1. scopes' \in Seq(ScopeSet) /\ Len(scopes') = n + 2 /\ live' \in 0..Len(scopes') /\ live' = n + 2
      BY <1>1, <1>2, <2>1, <2>3
    <3>2. p \in Seq(Z) /\ Len(p) = n + 2 /\ \A i \in 1..(n + 2) : p[i] = scopes'[i].decls
      BY <3>1, OpenType
    <3>3. Open \in Seq(Z) /\ Len(Open) = n /\ \A i \in 1..n : Open[i] = scopes[i].decls
      BY <1>2, LexTypes
    <3>4. /\ \A i \in 1..n : scopes'[i] = scopes[i]
          /\ scopes'[n + 1] = w /\ scopes'[n + 2] = c
      BY <1>1, <2>3, Two
    <3>5. x \in Seq(Z) /\ Len(x) = 2 /\ x[1] = ds /\ x[2] = <<>>
      BY <1>8
    <3> HIDE DEF Z, p, x
    <3> DEFINE q == Open \o x
    <3>6. q \in Seq(Z) /\ Len(q) = n + 2 /\ (\A i \in 1..n : q[i] = Open[i]) /\ q[n + 1] = ds /\ q[n + 2] = <<>>
         /\ \A i \in 1..(n + 2) : i \in 1..n \/ i = n + 1 \/ i = n + 2
      BY <3>3, <3>5, Two
    <3> HIDE DEF q, n
    <3>7. \A i \in 1..(n + 2) : p[i] = q[i]
      <4> TAKE i \in 1..(n + 2)
      <4>1. i \in 1..n \/ i = n + 1 \/ i = n + 2
        BY <3>6
      <4> QED
        BY <2>2, <3>2, <3>3, <3>4, <3>6, <4>1
    <3>8. p = q
      BY <3>2, <3>6, <3>7, Same
    <3> QED
      BY <3>8 DEF p, q
  <2>6. gc' = gc \o Lexical!InForce(x, "gc_root") /\ ctx' = ctx \o Lexical!InForce(x, "allocctx")
    <3>1. gc \o <<>> = gc /\ ctx \o <<>> = ctx /\ next \in Int
      BY <1>1, <1>2, CatEmpty
    <3>2. Append(ctx, next) = ctx \o <<next>>
      BY <1>1, <3>1, One
    <3>3. gc' = gc
      BY <1>2
    <3>4. gc' = gc \o Lexical!InForce(x, "gc_root")
      BY <1>7, <1>8, <3>1, <3>3, Zenon
    <3>5. CASE alloc = "none"
      BY <1>7, <1>8, <2>1, <3>1, <3>4, <3>5
    <3>6. CASE alloc = "struct"
      BY <1>7, <1>8, <2>1, <3>2, <3>4, <3>6
    <3> QED
      BY <1>2, <3>5, <3>6
  <2> HIDE DEF x
  <2>7. Stacks(Open, gc, ctx)' /\ Lexical!LNext
    BY <1>2, <1>8, <2>5, <2>6, LexEnters
  <2> QED
    BY <2>4, <2>7 DEF LexStep
<1> QED
  BY <1>9, <1>10

(* A declaration is the last one of the scope control is in.               *)
LEMMA LexDeclare ==
    ASSUME LexInv, NEW kind \in {"defer", "!defer", "gc_root"}, Declare(kind)
    PROVE  LexStep
<1> DEFINE n == Len(scopes)
           d == Decl(kind)
           l == Last(scopes)
           w == [l EXCEPT !.decls = Append(@, d)]
           Z == Seq(AllDecls)
           o == Open'
           f == Front(Open)
           a == l.decls
           b == Append(a, d)
<1>1. /\ scopes \in Seq(ScopeSet) /\ n \in Nat /\ Plain /\ Stacks(Open, gc, ctx)
      /\ DOMAIN scopes = 1..n /\ gc \in Seq(Int) /\ ctx \in Seq(Int)
      /\ Open \in Seq(Z) /\ Len(Open) = live /\ \A i \in 1..live : Open[i] = scopes[i].decls
  BY LexTypes
<1>2. /\ live = n /\ n # 0 /\ live' = live /\ status' = status /\ UNCHANGED <<ctx, ran, leaving>>
      /\ scopes' = [scopes EXCEPT ![n] = w]
      /\ gc' = (IF kind = "gc_root" THEN Append(gc, next) ELSE gc)
  BY <1>1 DEF Declare, Here, Last
<1>3. next \in 1..MaxDecls
  BY TypeNames, LexTypes, BoundsAssumption DEF Declare
<1>4. d \in AllDecls /\ d.kind = kind /\ d.id = next
  BY <1>3 DEF Decl, AllDecls, DeclKinds
<1>5. n \in 1..n /\ l \in ScopeSet /\ l = scopes[n]
  BY <1>1, <1>2, FramesLast DEF Last
<1>6. a \in Seq(AllDecls) /\ b \in Seq(AllDecls)
  <2>1. a \in Seq(AllDecls)
    BY <1>5 DEF ScopeSet
  <2> HIDE DEF a, d
  <2> QED
    BY <1>4, <2>1
<1>7. w \in ScopeSet /\ w.decls = b /\ w.handle = l.handle /\ w.state = l.state /\ w.kind = l.kind
  <2> HIDE DEF d
  <2>1. w = [l EXCEPT !.decls = b]
    BY <1>5 DEF ScopeSet
  <2> HIDE DEF b, l, w
  <2>2. [l EXCEPT !.decls = b] \in ScopeSet
    BY <1>5, <1>6 DEF ScopeSet
  <2>3. /\ [l EXCEPT !.decls = b].decls = b /\ [l EXCEPT !.decls = b].handle = l.handle
        /\ [l EXCEPT !.decls = b].state = l.state /\ [l EXCEPT !.decls = b].kind = l.kind
    BY <1>5 DEF ScopeSet
  <2> QED
    BY <2>1, <2>2, <2>3
<1> HIDE DEF w
<1>8. /\ scopes' \in Seq(ScopeSet) /\ Len(scopes') = n /\ DOMAIN scopes' = 1..n
      /\ \A i \in 1..n : scopes'[i] = IF i = n THEN w ELSE scopes[i]
  BY <1>1, <1>2, <1>7
<1>9. Plain'
  BY <1>1, <1>2, <1>5, <1>7, <1>8 DEF Plain
<1>10. o \in Seq(Z) /\ Len(o) = n /\ \A i \in 1..n : o[i] = IF i = n THEN b ELSE Open[i]
  <2>1. o = OpenOf(scopes', n)
    BY <1>2 DEF Open
  <2>2. n \in 0..Len(scopes')
    <3>1. Len(scopes') = n /\ n \in Nat
      BY <1>1, <1>8
    <3> HIDE DEF n
    <3> QED
      BY <3>1
  <2>3. /\ OpenOf(scopes', n) \in Seq(Z) /\ Len(OpenOf(scopes', n)) = n
        /\ \A i \in 1..n : OpenOf(scopes', n)[i] = scopes'[i].decls
    BY <1>8, <2>2, OpenType
  <2> QED
    BY <1>1, <1>2, <1>7, <1>8, <2>1, <2>3, Zenon
<1>11. Open[n] = a
  BY <1>1, <1>2, <1>5
<1>12. Open \in Seq(Z) /\ Len(Open) = n
  BY <1>1, <1>2
<1>13. a \in Z /\ b \in Z
  BY <1>6
<1> HIDE DEF Z, o, a, b, n
<1>14. f \in Seq(Z) /\ Len(f) = n - 1 /\ \A i \in 1..(n - 1) : f[i] = Open[i]
  <2>1. PICK m \in Nat : m = n - 1 /\ m <= n
    <3>1. n - 1 \in Nat /\ n - 1 <= n
      BY <1>1, <1>2 DEF n
    <3> QED
      BY <3>1, Zenon
  <2>2. f = SubSeq(Open, 1, m)
    BY <1>12, <2>1 DEF Front
  <2>3. SubSeq(Open, 1, m) \in Seq(Z) /\ Len(SubSeq(Open, 1, m)) = m /\ \A i \in 1..m : SubSeq(Open, 1, m)[i] = Open[i]
    BY <1>12, <2>1
  <2> QED
    BY <2>1, <2>2, <2>3
<1> HIDE DEF f
<1>15. n \in Nat /\ n # 0
  BY <1>1, <1>2 DEF n
<1>16. Open = Append(f, a) /\ o = Append(f, b)
  BY <1>10, <1>11, <1>12, <1>13, <1>14, <1>15
<1>17. Front(o) = f
  <2>1. SubSeq(o, 1, Len(o) - 1) = f
    BY <1>10, <1>13, <1>14, <1>15, <1>16
  <2> QED
    BY <2>1, Zenon DEF Front
<1>18. Last(Open) = a /\ Last(o) = b /\ Open # <<>>
  BY <1>10, <1>11, <1>12, <1>15 DEF Last
<1>19. IsPrefix(a, b)
  <2>1. /\ Len(a) <= Len(b) /\ SubSeq(a, 1, Len(a)) = a
    BY <1>4, <1>6 DEF b
  <2>2. SubSeq(b, 1, Len(a)) = a
    <3>1. a \in Seq(AllDecls) /\ b = Append(a, d)
      BY <1>6 DEF b
    <3> HIDE DEF d
    <3> QED
      BY <1>4, <3>1
  <2> QED
    BY <2>1, <2>2 DEF IsPrefix
<1>20. Lexical!Declare
  <2>1. Front(o) = Front(Open) /\ IsPrefix(Last(Open), Last(o)) /\ Open # <<>> /\ Len(o) = Len(Open)
    BY <1>10, <1>12, <1>17, <1>18, <1>19 DEF f
  <2> QED
    BY <1>2, <2>1, SameOperators, Zenon DEF Lexical!Declare, Open, OpenOf, o
<1>21. ASSUME NEW k
       PROVE  /\ Lexical!InForce(o, k) = Lexical!InForce(Open, k) \o Lexical!Ids(<<d>>, {k})
              /\ Lexical!InForce(Open, k) \in Seq(Int) /\ Lexical!Ids(<<d>>, {k}) \in Seq(Int)
  <2> DEFINE e == FlattenSeq(f)
             x == e \o a
             y == <<d>>
  <2>1. f \in Seq(Seq(AllDecls))
    BY <1>14 DEF Z
  <2>2. FlattenSeq(Open) = x /\ FlattenSeq(o) = e \o b
    <3>1. FlattenSeq(Append(f, a)) = e \o a
      BY <1>6, <2>1, FlatAppend
    <3>2. FlattenSeq(Append(f, b)) = e \o b
      BY <1>6, <2>1, FlatAppend
    <3> QED
      BY <1>16, <3>1, <3>2
  <2>3. e \in Seq(AllDecls)
    BY <2>1, FlatType
  <2> HIDE DEF e, d
  <2>4. y \in Seq(AllDecls) /\ x \in Seq(AllDecls)
    BY <1>4, <1>6, <2>3
  <2>5. e \o b = x \o y
    <3>1. b = a \o y
      BY <1>4, <1>6, One DEF b
    <3>2. (e \o a) \o y = e \o (a \o y)
      BY <1>6, <2>3, <2>4, Assoc
    <3> QED
      BY <3>1, <3>2
  <2> HIDE DEF x, y
  <2>6. /\ Lexical!Ids(x \o y, {k}) = Lexical!Ids(x, {k}) \o Lexical!Ids(y, {k})
        /\ Lexical!Ids(x, {k}) \in Seq(Int) /\ Lexical!Ids(y, {k}) \in Seq(Int)
    BY <2>4, IdsCat, IdsType
  <2> QED
    BY <2>2, <2>5, <2>6, InForceIs, Zenon DEF y
<1>22. /\ gc' = gc \o Lexical!Ids(<<d>>, {"gc_root"})
       /\ ctx' = ctx \o Lexical!Ids(<<d>>, {"allocctx"})
  <2> HIDE DEF d
  <2>1. /\ Lexical!Ids(<<d>>, {"gc_root"}) = (IF kind = "gc_root" THEN <<next>> ELSE <<>>)
        /\ Lexical!Ids(<<d>>, {"allocctx"}) = <<>>
    <3>1. \A kinds : Lexical!Ids(<<d>>, kinds) = IF kind \in kinds THEN <<next>> ELSE <<>>
      BY <1>4, IdsOne
    <3> QED
      BY <3>1
  <2>2. ctx \o <<>> = ctx /\ gc \o <<>> = gc /\ ctx' = ctx
    BY <1>1, <1>2, CatEmpty
  <2>3. Append(gc, next) = gc \o <<next>>
    <3>1. next \in Int
      BY <1>3
    <3> QED
      BY <1>1, <3>1, One
  <2>4. CASE kind = "gc_root"
    BY <1>2, <2>1, <2>2, <2>3, <2>4, Zenon
  <2>5. CASE kind # "gc_root"
    BY <1>2, <2>1, <2>2, <2>5, Zenon
  <2> QED
    BY <2>4, <2>5
<1>23. /\ gc' = CallerRoots \o Lexical!InForce(o, "gc_root")
       /\ ctx' = CallerContexts \o Lexical!InForce(o, "allocctx")
  <2>1. ASSUME NEW s \in Seq(Int), NEW k
        PROVE  (s \o Lexical!InForce(Open, k)) \o Lexical!Ids(<<d>>, {k}) = s \o Lexical!InForce(o, k)
    <3> DEFINE x == Lexical!InForce(Open, k)
               y == Lexical!Ids(<<d>>, {k})
    <3>1. x \in Seq(Int) /\ y \in Seq(Int) /\ Lexical!InForce(o, k) = x \o y
      BY <1>21
    <3> HIDE DEF x, y
    <3>2. (s \o x) \o y = s \o (x \o y)
      BY <3>1, StacksAssoc
    <3> QED
      BY <3>1, <3>2 DEF x, y
  <2> QED
    BY <1>1, <1>22, <2>1, CallerAssumption, Zenon DEF Stacks
<1>24. Stacks(Open, gc, ctx)'
  BY <1>23 DEF Stacks, o
<1>25. Lexical!LNext
  BY <1>20, <1>23, Zenon DEF Lexical!LNext, Open, OpenOf, o
<1> QED
  BY <1>9, <1>24, <1>25 DEF LexStep

-----------------------------------------------------------------------------
(* It holds at first, and every step keeps it and is the promise's.        *)
LEMMA LexInit == Init => LexInv /\ Lexical!LInit
<1> SUFFICES ASSUME Init PROVE LexInv /\ Lexical!LInit
  OBVIOUS
<1>1. Inv
  BY InvInit
<1>2. Plain
  BY DEF Init, Plain, Scope
<1>3. Open = << <<>> >>
  BY DEF Init, Open, OpenOf, Scope
<1>4. Stacks(Open, gc, ctx)
  <2>1. \A kind : Lexical!InForce(Open, kind) = <<>>
    BY <1>3, EmptyScope, Zenon
  <2>2. CallerRoots \o <<>> = CallerRoots /\ CallerContexts \o <<>> = CallerContexts
    BY CallerAssumption, CatEmpty
  <2> QED
    BY <2>1, <2>2, Zenon DEF Stacks, Init
<1>5. Lexical!LInit
  BY <1>3, Zenon DEF Lexical!LInit, Open, OpenOf, Init
<1> QED
  BY <1>1, <1>2, <1>4, <1>5 DEF LexInv

(* A step of the function is one of the promise or none of it.             *)
LEMMA LexNext ==
    ASSUME features = {}, LexInv, [Next]_vars
    PROVE  LexInv' /\ [Lexical!LNext]_(Lexical!lvars)
<1>1. Inv'
  BY InvStep DEF LexInv
<1>2. LexStep
  <2>1. CASE Next
    <3>1. ~TryToWith
      BY LexTypes DEF TryToWith, TryTargets, Plain
    <3>2. ~WithHandler
      <4>1. SUFFICES ASSUME WithHandler PROVE FALSE
        OBVIOUS
      <4>2. scopes # <<>> /\ Last(scopes).state = "error"
        BY <4>1 DEF WithHandler
      <4>3. Len(scopes) \in DOMAIN scopes
        BY <4>2, LexTypes
      <4> QED
        BY <4>2, <4>3, LexTypes DEF Plain, Last
    <3> QED
      BY <2>1, <3>1, <3>2, LexEnter, LexDeclare, LexWith, LexFallthrough, LexEndWith, LexClose, LexBreak,
         LexReturn, LexTryToFn, LexFnHandler DEF Next
  <2>2. CASE UNCHANGED vars
    <3>1. Plain'
      BY <2>2, LexTypes DEF vars, runtime, Plain
    <3>2. OpenOf(scopes', live') = Open /\ UNCHANGED <<gc, ctx, ran, leaving>>
      BY <2>2 DEF vars, runtime, Open
    <3> QED
      BY <3>1, <3>2, LexStutters
  <2> QED
    BY <2>1, <2>2
<1> QED
  BY <1>1, <1>2 DEF LexInv, LexStep

(* A program keeps its constructs.                                         *)
LEMMA FeaturesStay == [Next]_vars => UNCHANGED features
<1>1. Next => UNCHANGED features
  BY DEF Next, Enter, Declare, With, Fallthrough, EndWith, Close, Break, Return, TryToWith, TryToFn,
     WithHandler, FnHandler, program
<1>2. UNCHANGED vars => UNCHANGED features
  BY DEF vars, program
<1> QED
  BY <1>1, <1>2, SMTT(20)

\* What holds of every program, of one without the constructs LexInv.
ProgramInv == features = {} => LexInv

LEMMA ProgramSteps ==
    /\ Init => ProgramInv /\ (features = {} => Lexical!LInit)
    /\ ProgramInv /\ [Next]_vars =>
           ProgramInv' /\ [features = {} => Lexical!LNext]_(Lexical!lvars)
<1>1. Init => ProgramInv /\ (features = {} => Lexical!LInit)
  BY LexInit DEF ProgramInv
<1>2. ASSUME ProgramInv, [Next]_vars
      PROVE  ProgramInv' /\ [features = {} => Lexical!LNext]_(Lexical!lvars)
  <2>1. features' = features
    BY <1>2, FeaturesStay
  <2>2. CASE features = {}
    <3>1. LexInv' /\ [Lexical!LNext]_(Lexical!lvars)
      BY <1>2, <2>2, LexNext DEF ProgramInv
    <3> QED
      BY <3>1 DEF ProgramInv
  <2>3. CASE features # {}
    BY <2>1, <2>3 DEF ProgramInv
  <2> QED
    BY <2>2, <2>3
<1> QED
  BY <1>1, <1>2

(* For programs of any nesting and length without a handle on a with, a    *)
(* with over any Allocator, a break in a match and a closure, the cleanup  *)
(* code that is generated does what defer, with and rooted pointers        *)
(* promise: leaving scopes runs what they have declared, last first and    *)
(* each once, and takes their roots and allocators from the stacks.        *)
THEOREM CleanupRefines == Spec => ImplementsLexical
<1>1. Init => ProgramInv /\ (features = {} => Lexical!LInit)
  BY ProgramSteps
<1>2. ProgramInv /\ [Next]_vars =>
          ProgramInv' /\ [features = {} => Lexical!LNext]_(Lexical!lvars)
  BY ProgramSteps
<1> QED
  BY <1>1, <1>2, PTL DEF Spec, ImplementsLexical

(* A function without them gives its caller the allocator back that was    *)
(* active when it was called.                                              *)
THEOREM CallerContextRestored == Spec => []ContextRestored
<1>1. Init => ProgramInv
  BY ProgramSteps
<1>2. ProgramInv /\ [Next]_vars => ProgramInv'
  BY ProgramSteps
<1>3. ProgramInv => ContextRestored
  <2> SUFFICES ASSUME LexInv, status = "done" PROVE ctx = CallerContexts
    BY DEF ProgramInv, ContextRestored
  <2>1. live = 0 /\ ctx = CallerContexts \o Lexical!InForce(Open, "allocctx")
    BY LexTypes DEF Plain, Stacks
  <2>2. Open = <<>>
    BY <2>1 DEF Open, OpenOf
  <2>3. Lexical!InForce(<<>>, "allocctx") = <<>>
    <3>1. \A kinds : Lexical!Ids(<<>>, kinds) = <<>>
      <4> TAKE kinds
      <4>1. Chosen(<<>>, [kind : kinds, id : Nat]) = <<>>
        BY ChosenEmpty
      <4>2. Lexical!Ids(<<>>, kinds) = [i \in DOMAIN <<>> |-> <<>>[i].id]
        BY <4>1, SameOperators, Zenon DEF Lexical!Ids
      <4> QED
        BY <4>2
    <3> QED
      BY <3>1, FlatEmpty, InForceIs, Zenon
  <2>4. CallerContexts \o <<>> = CallerContexts
    BY CallerAssumption, CatEmpty
  <2> QED
    BY <2>1, <2>2, <2>3, <2>4, Zenon
<1> QED
  BY <1>1, <1>2, <1>3, PTL DEF Spec
=============================================================================
