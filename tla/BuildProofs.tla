---------------------------- MODULE BuildProofs -----------------------------
(***************************************************************************)
(* What the build program has declared when it refers to it, and the types *)
(* of the project's two machines, for any packages, labels and bounds.  A  *)
(* handle is only ever in the environment after its entry is in the plan,  *)
(* so a plan refers to what was declared before, whether the calls were    *)
(* written by hand or rendered from a plan (PlanOK, EnvOK); so the targets *)
(* that a target is collected from have smaller indices, and the           *)
(* collection meets none of them again.                                    *)
(***************************************************************************)
EXTENDS MCProject, PackageLoaderProofs

-----------------------------------------------------------------------------
(* Sequences of anything.                                                  *)

IsSeq(s) == s \in Seq({s[i] : i \in DOMAIN s})

\* A sequence over any set is one.
LEMMA SeqIs == ASSUME NEW X, NEW s \in Seq(X) PROVE IsSeq(s)
<1>1. DOMAIN s = 1..Len(s) /\ Len(s) \in Nat /\ s \in [1..Len(s) -> X]
  OBVIOUS
<1>2. s \in [1..Len(s) -> {s[i] : i \in DOMAIN s}]
  BY <1>1
<1>3. s \in UNION {[1..n -> {s[i] : i \in DOMAIN s}] : n \in Nat}
  BY <1>1, <1>2
<1> QED
  BY <1>1, <1>2 DEF IsSeq

\* Its length, its domain and its elements.
LEMMA SeqHas ==
    ASSUME NEW s, IsSeq(s)
    PROVE  Len(s) \in Nat /\ DOMAIN s = 1..Len(s) /\ s \in Seq({s[i] : i \in 1..Len(s)})
<1>1. Len(s) \in Nat /\ DOMAIN s = 1..Len(s)
  BY DEF IsSeq
<1> QED
  BY <1>1 DEF IsSeq

\* One more element.
LEMMA SeqMore ==
    ASSUME NEW s, IsSeq(s), NEW e
    PROVE  /\ IsSeq(Append(s, e)) /\ Len(s) \in Nat /\ Len(Append(s, e)) = Len(s) + 1
           /\ \A i \in 1..Len(s) : Append(s, e)[i] = s[i]
           /\ Append(s, e)[Len(s) + 1] = e
<1> DEFINE X == {s[i] : i \in DOMAIN s} \cup {e}
<1>1. s \in Seq(X)
  BY Larger DEF IsSeq
<1>2. e \in X
  OBVIOUS
<1> HIDE DEF X
<1>3. /\ Append(s, e) \in Seq(X) /\ Len(s) \in Nat /\ Len(Append(s, e)) = Len(s) + 1
      /\ \A i \in 1..Len(s) : Append(s, e)[i] = s[i]
      /\ Append(s, e)[Len(s) + 1] = e
  BY <1>1, <1>2
<1> QED
  BY <1>3, SeqIs

\* Two sequences, one after the other.
LEMMA SeqCat ==
    ASSUME NEW s, NEW t, IsSeq(s), IsSeq(t)
    PROVE  /\ IsSeq(s \o t) /\ Len(s) \in Nat /\ Len(t) \in Nat /\ Len(s \o t) = Len(s) + Len(t)
           /\ \A i \in 1..Len(s \o t) : \/ i \in 1..Len(s) /\ (s \o t)[i] = s[i]
                                        \/ i - Len(s) \in 1..Len(t) /\ (s \o t)[i] = t[i - Len(s)]
<1> DEFINE X == {s[i] : i \in DOMAIN s} \cup {t[i] : i \in DOMAIN t}
<1>1. s \in Seq(X) /\ t \in Seq(X)
  BY Larger DEF IsSeq
<1> HIDE DEF X
<1>2. s \o t \in Seq(X) /\ Len(s) \in Nat /\ Len(t) \in Nat /\ Len(s \o t) = Len(s) + Len(t)
  BY <1>1
<1>3. \A i \in 1..(Len(s) + Len(t)) : (s \o t)[i] = IF i <= Len(s) THEN s[i] ELSE t[i - Len(s)]
  BY <1>1
<1>4. ASSUME NEW i \in 1..Len(s \o t)
      PROVE  \/ i \in 1..Len(s) /\ (s \o t)[i] = s[i]
             \/ i - Len(s) \in 1..Len(t) /\ (s \o t)[i] = t[i - Len(s)]
  <2>1. CASE i <= Len(s)
    BY <1>2, <1>3, <2>1
  <2>2. CASE ~(i <= Len(s))
    <3>1. i - Len(s) \in 1..Len(t)
      BY <1>2, <2>2
    <3> QED
      BY <1>2, <1>3, <2>2, <3>1
  <2> QED
    BY <2>1, <2>2
<1> QED
  BY <1>2, <1>4, SeqIs

\* A function on 1..n is one.
LEMMA SeqFrom ==
    ASSUME NEW n \in Nat, NEW f, f = [i \in 1..n |-> f[i]]
    PROVE  IsSeq(f) /\ Len(f) = n /\ DOMAIN f = 1..n
<1>1. f \in [1..n -> {f[i] : i \in 1..n}]
  BY Zenon
<1>2. f \in Seq({f[i] : i \in 1..n})
  BY <1>1
<1>3. DOMAIN f = 1..n
  BY <1>1
<1> QED
  BY <1>1, <1>2, <1>3, SeqIs

\* The same over a set.
LEMMA SeqOver == ASSUME NEW n \in Nat, NEW X, NEW f \in [1..n -> X] PROVE f \in Seq(X)
  OBVIOUS

-----------------------------------------------------------------------------
(* Collecting without duplicates.                                          *)

\* f solves the recursion of AddAll up to n.
IsAdded(f, seq, items, n) ==
    f = [m \in 0..n |-> IF m = 0 THEN seq ELSE B!AddNew(f[m - 1], items[m])]

\* There is one.
LEMMA AddedExists == ASSUME NEW seq, NEW items PROVE \A n \in Nat : \E f : IsAdded(f, seq, items, n)
<1> DEFINE D == {n \in Nat : \E f : IsAdded(f, seq, items, n)}
<1>1. 0 \in D
  <2>1. IsAdded([m \in 0..0 |-> seq], seq, items, 0)
    BY DEF IsAdded
  <2> QED
    BY <2>1
<1>2. ASSUME NEW k \in D \cap Nat PROVE k + 1 \in D
  <2>1. PICK f : IsAdded(f, seq, items, k)
    OBVIOUS
  <2> DEFINE x == B!AddNew(f[k], items[k + 1])
             g == [m \in 0..(k + 1) |-> IF m = k + 1 THEN x ELSE f[m]]
  <2>2. \A m \in 0..k : f[m] = IF m = 0 THEN seq ELSE B!AddNew(f[m - 1], items[m])
    BY <2>1 DEF IsAdded
  <2>3. \A m \in 0..(k + 1) : g[m] = IF m = k + 1 THEN x ELSE f[m]
    OBVIOUS
  <2>4. \A m \in 0..(k + 1) : m # 0 => m - 1 \in 0..(k + 1) /\ g[m - 1] = f[m - 1] /\ (m # k + 1 => m \in 0..k)
    BY <2>3
  <2>5. \A m \in 0..(k + 1) : g[m] = IF m = 0 THEN seq ELSE B!AddNew(g[m - 1], items[m])
    <3> TAKE m \in 0..(k + 1)
    <3>1. CASE m = 0
      BY <2>2, <2>3, <3>1
    <3>2. CASE m = k + 1
      <4>1. m # 0 /\ m - 1 = k /\ g[m - 1] = f[k] /\ g[m] = x
        BY <2>3, <2>4, <3>2
      <4> HIDE DEF g
      <4> QED
        BY <3>2, <4>1
    <3>3. CASE m # 0 /\ m # k + 1
      <4>1. g[m] = f[m] /\ m \in 0..k /\ g[m - 1] = f[m - 1]
        BY <2>3, <2>4, <3>3
      <4> HIDE DEF g
      <4> QED
        BY <2>2, <3>3, <4>1
    <3> QED
      BY <3>1, <3>2, <3>3
  <2>6. g = [m \in 0..(k + 1) |-> g[m]]
    OBVIOUS
  <2> HIDE DEF g
  <2>7. IsAdded(g, seq, items, k + 1)
    BY <2>5, <2>6, Zenon DEF IsAdded
  <2> QED
    BY <2>7
<1> QED
  <2> HIDE DEF D
  <2>1. Nat \subseteq D
    BY <1>1, <1>2, Induct
  <2> QED
    BY <2>1 DEF D

\* What is added to a sequence over a set stays in the set.
LEMMA AddNewType ==
    ASSUME NEW X, NEW s \in Seq(X), NEW e \in X PROVE B!AddNew(s, e) \in Seq(X)
BY DEF B!AddNew

\* The same of several items.
LEMMA AddAllType ==
    ASSUME NEW X, NEW s \in Seq(X), NEW items \in Seq(X) PROVE B!AddAll(s, items) \in Seq(X)
<1>0. Len(items) \in Nat /\ \A i \in 1..Len(items) : items[i] \in X
  OBVIOUS
<1>1. B!AddAll(s, items) = (CHOOSE f : IsAdded(f, s, items, Len(items)))[Len(items)]
  BY Zenon DEF B!AddAll, IsAdded
<1>2. PICK f : IsAdded(f, s, items, Len(items)) /\ B!AddAll(s, items) = f[Len(items)]
  BY <1>0, <1>1, AddedExists
<1>3. \A m \in 0..Len(items) : f[m] = IF m = 0 THEN s ELSE B!AddNew(f[m - 1], items[m])
  BY <1>2 DEF IsAdded
<1> DEFINE D == {k \in Nat : k <= Len(items) => f[k] \in Seq(X)}
<1>4. 0 \in D
  BY <1>0, <1>3
<1>5. ASSUME NEW k \in D \cap Nat PROVE k + 1 \in D
  <2> SUFFICES ASSUME k + 1 <= Len(items) PROVE f[k + 1] \in Seq(X)
    OBVIOUS
  <2>1. /\ k + 1 \in 0..Len(items) /\ k + 1 # 0 /\ (k + 1) - 1 = k
        /\ f[k] \in Seq(X) /\ items[k + 1] \in X
    BY <1>0
  <2>2. f[k + 1] = B!AddNew(f[k], items[k + 1])
    BY <1>3, <2>1
  <2> QED
    BY <2>1, <2>2, AddNewType
<1> HIDE DEF D
<1>6. Nat \subseteq D
  BY <1>4, <1>5, Induct
<1> QED
  BY <1>0, <1>2, <1>6 DEF D

-----------------------------------------------------------------------------
(* Plans whose targets refer to what was declared before them.             *)

TargetFields == {"name", "package", "imports", "libraries", "foreign"}
PlanFields == {"packages", "foreign", "libraries", "executables", "default"}

\* The i-th library target of a plan with np packages and nf foreign libraries.
LibOK(e, i, np, nf) ==
    /\ e.package \in 1..np
    /\ e.imports \in Seq(1..(e.package - 1))
    /\ e.libraries \in Seq(1..(i - 1))
    /\ e.foreign \in Seq(1..nf)

ExeOK(e, np, nl, nf) ==
    /\ DOMAIN e = TargetFields
    /\ e.imports \in Seq(1..np) /\ e.libraries \in Seq(1..nl) /\ e.foreign \in Seq(1..nf)

Libs(ls, np, nf) == IsSeq(ls) /\ \A i \in 1..Len(ls) : LibOK(ls[i], i, np, nf)
Exes(es, np, nl, nf) == IsSeq(es) /\ \A i \in 1..Len(es) : ExeOK(es[i], np, nl, nf)

PlanOK(p) ==
    /\ DOMAIN p = PlanFields
    /\ IsSeq(p.packages) /\ IsSeq(p.foreign)
    /\ Libs(p.libraries, Len(p.packages), Len(p.foreign))
    /\ Exes(p.executables, Len(p.packages), Len(p.libraries), Len(p.foreign))
    /\ p.default \in 0..Len(p.executables)

\* Every handle has its entry.
EnvOK(env, np, nf, nl, ne) ==
    \A x \in DOMAIN env :
        /\ env[x].kind = "package" => env[x].index \in 1..np
        /\ env[x].kind = "foreign" => env[x].index \in 1..nf
        /\ env[x].kind = "library" => env[x].index \in 1..nl
        /\ env[x].kind = "executable" => env[x].index \in 1..ne

StateOK(s) ==
    /\ DOMAIN s = {"env", "plan", "ok"}
    /\ PlanOK(s.plan)
    /\ EnvOK(s.env, Len(s.plan.packages), Len(s.plan.foreign), Len(s.plan.libraries),
             Len(s.plan.executables))

\* What is in order stays so when lists that it refers to grow.
LEMMA LibsGrow ==
    ASSUME NEW ls, NEW np \in Nat, NEW nf \in Nat, NEW np2 \in Nat, NEW nf2 \in Nat,
           np <= np2, nf <= nf2, Libs(ls, np, nf)
    PROVE  Libs(ls, np2, nf2)
<1>1. 1..np \subseteq 1..np2 /\ 1..nf \subseteq 1..nf2
  OBVIOUS
<1>2. ASSUME NEW i \in 1..Len(ls) PROVE LibOK(ls[i], i, np2, nf2)
  <2>1. LibOK(ls[i], i, np, nf)
    BY DEF Libs
  <2>2. ls[i].foreign \in Seq(1..nf2)
    BY <1>1, <2>1, Larger DEF LibOK
  <2> QED
    BY <1>1, <2>1, <2>2 DEF LibOK
<1> QED
  BY <1>2 DEF Libs

\* The same of executables.
LEMMA ExesGrow ==
    ASSUME NEW es, NEW np \in Nat, NEW nl \in Nat, NEW nf \in Nat,
           NEW np2 \in Nat, NEW nl2 \in Nat, NEW nf2 \in Nat,
           np <= np2, nl <= nl2, nf <= nf2, Exes(es, np, nl, nf)
    PROVE  Exes(es, np2, nl2, nf2)
<1>1. 1..np \subseteq 1..np2 /\ 1..nl \subseteq 1..nl2 /\ 1..nf \subseteq 1..nf2
  OBVIOUS
<1>2. ASSUME NEW i \in 1..Len(es) PROVE ExeOK(es[i], np2, nl2, nf2)
  <2>1. ExeOK(es[i], np, nl, nf)
    BY DEF Exes
  <2> QED
    BY <1>1, <2>1, Larger DEF ExeOK
<1> QED
  BY <1>2 DEF Exes

\* The same of the environment.
LEMMA EnvGrows ==
    ASSUME NEW env, NEW np \in Nat, NEW nf \in Nat, NEW nl \in Nat, NEW ne \in Nat,
           NEW np2 \in Nat, NEW nf2 \in Nat, NEW nl2 \in Nat, NEW ne2 \in Nat,
           np <= np2, nf <= nf2, nl <= nl2, ne <= ne2, EnvOK(env, np, nf, nl, ne)
    PROVE  EnvOK(env, np2, nf2, nl2, ne2)
<1>1. 1..np \subseteq 1..np2 /\ 1..nl \subseteq 1..nl2 /\ 1..nf \subseteq 1..nf2 /\ 1..ne \subseteq 1..ne2
  OBVIOUS
<1> QED
  BY <1>1 DEF EnvOK

\* The handles that an imports argument names, of one kind, have their entries.
LEMMA ImportsOf ==
    ASSUME NEW env, NEW names, IsSeq(names), NEW kind, NEW n \in Nat,
           \A x \in DOMAIN env : env[x].kind = kind => env[x].index \in 1..n,
           NEW c, c = B!Chosen(names, {x \in DOMAIN env : env[x].kind = kind})
    PROVE  B!AddAll(<<>>, [i \in DOMAIN c |-> env[c[i]].index]) \in Seq(1..n)
<1> DEFINE S == {x \in DOMAIN env : env[x].kind = kind}
           X == {names[i] : i \in DOMAIN names}
           N == 1..n
<1>1. B!Chosen(names, S) = Chosen(names, S)
  BY Zenon DEF B!Chosen, Chosen
<1>2. names \in Seq(X)
  BY DEF IsSeq
<1>3. \A x \in S : env[x].index \in N
  OBVIOUS
<1>4. c = Chosen(names, S)
  BY <1>1
<1> HIDE DEF S, X, N
<1>5. c \in Seq(X \cap S)
  BY <1>2, <1>4, ChosenType
<1>6. DOMAIN c = 1..Len(c) /\ Len(c) \in Nat /\ \A i \in DOMAIN c : c[i] \in S
  <2> DEFINE Y == X \cap S
  <2>1. c \in Seq(Y)
    BY <1>5
  <2> HIDE DEF Y
  <2>2. IsSeq(c)
    BY <2>1, SeqIs
  <2>3. DOMAIN c = 1..Len(c) /\ \A i \in 1..Len(c) : c[i] \in Y
    BY <2>1, Elements
  <2> QED
    BY <2>2, <2>3, SeqHas DEF Y
<1>7. [i \in DOMAIN c |-> env[c[i]].index] \in Seq(N)
  <2> DEFINE f == [i \in DOMAIN c |-> env[c[i]].index]
  <2>1. f \in [1..Len(c) -> N]
    BY <1>3, <1>6
  <2> HIDE DEF f
  <2>2. f \in Seq(N)
    BY <1>6, <2>1, SeqOver
  <2> QED
    BY <2>2 DEF f
<1>8. <<>> \in Seq(N)
  OBVIOUS
<1> QED
  BY <1>7, <1>8, AddAllType DEF N

\* The items of a target to be declared.
LEMMA ItemsOK ==
    ASSUME NEW env, NEW np \in Nat, NEW nf \in Nat, NEW nl \in Nat, NEW ne \in Nat,
           EnvOK(env, np, nf, nl, ne), NEW names, IsSeq(names)
    PROVE  /\ B!ImportHandles(env, names).package \in Seq(1..np)
           /\ B!ImportHandles(env, names).library \in Seq(1..nl)
           /\ B!ImportHandles(env, names).foreign \in Seq(1..nf)
<1> DEFINE ch(kind) == B!Chosen(names, {x \in DOMAIN env : env[x].kind = kind})
           of(kind) == B!AddAll(<<>>, [i \in DOMAIN ch(kind) |-> env[ch(kind)[i]].index])
<1>1. B!ImportHandles(env, names) =
          [package |-> of("package"), library |-> of("library"), foreign |-> of("foreign")]
  BY Zenon DEF B!ImportHandles
<1>2. of("package") \in Seq(1..np)
  BY ImportsOf DEF EnvOK
<1>3. of("library") \in Seq(1..nl)
  BY ImportsOf DEF EnvOK
<1>4. of("foreign") \in Seq(1..nf)
  BY ImportsOf DEF EnvOK
<1> HIDE DEF of
<1> QED
  BY <1>1, <1>2, <1>3, <1>4

-----------------------------------------------------------------------------
(* What a call adds to a plan.                                             *)

\* The lengths of the lists of a plan.
LEMMA PlanLens ==
    ASSUME NEW p, PlanOK(p)
    PROVE  /\ Len(p.packages) \in Nat /\ Len(p.foreign) \in Nat
           /\ Len(p.libraries) \in Nat /\ Len(p.executables) \in Nat
BY SeqHas DEF PlanOK, Libs, Exes

\* q is p in all but one of its fields.
But(q, p, f) == DOMAIN q = PlanFields /\ \A g \in PlanFields \ {f} : q[g] = p[g]

\* A package.
LEMMA PlanPackage ==
    ASSUME NEW p, PlanOK(p), NEW e, NEW q, But(q, p, "packages"), q.packages = Append(p.packages, e)
    PROVE  PlanOK(q) /\ Len(q.packages) = Len(p.packages) + 1
<1>1. /\ DOMAIN q = PlanFields /\ q.packages = Append(p.packages, e)
      /\ q.foreign = p.foreign /\ q.libraries = p.libraries
      /\ q.executables = p.executables /\ q.default = p.default
  BY DEF But, PlanFields
<1>2. IsSeq(q.packages) /\ Len(q.packages) = Len(p.packages) + 1
  BY <1>1, SeqMore DEF PlanOK
<1>3. Libs(p.libraries, Len(p.packages) + 1, Len(p.foreign))
  BY PlanLens, LibsGrow DEF PlanOK
<1>4. Exes(p.executables, Len(p.packages) + 1, Len(p.libraries), Len(p.foreign))
  BY PlanLens, ExesGrow DEF PlanOK
<1> QED
  BY <1>1, <1>2, <1>3, <1>4, Zenon DEF PlanOK

\* A foreign library.
LEMMA PlanForeign ==
    ASSUME NEW p, PlanOK(p), NEW e, NEW q, But(q, p, "foreign"), q.foreign = Append(p.foreign, e)
    PROVE  PlanOK(q) /\ Len(q.foreign) = Len(p.foreign) + 1
<1>1. /\ DOMAIN q = PlanFields /\ q.foreign = Append(p.foreign, e)
      /\ q.packages = p.packages /\ q.libraries = p.libraries
      /\ q.executables = p.executables /\ q.default = p.default
  BY DEF But, PlanFields
<1>2. IsSeq(q.foreign) /\ Len(q.foreign) = Len(p.foreign) + 1
  BY <1>1, SeqMore DEF PlanOK
<1>3. Libs(p.libraries, Len(p.packages), Len(p.foreign) + 1)
  BY PlanLens, LibsGrow DEF PlanOK
<1>4. Exes(p.executables, Len(p.packages), Len(p.libraries), Len(p.foreign) + 1)
  BY PlanLens, ExesGrow DEF PlanOK
<1> QED
  BY <1>1, <1>2, <1>3, <1>4, Zenon DEF PlanOK

\* A library target.
LEMMA PlanLibrary ==
    ASSUME NEW p, PlanOK(p), NEW e, LibOK(e, Len(p.libraries) + 1, Len(p.packages), Len(p.foreign)),
           NEW q, But(q, p, "libraries"), q.libraries = Append(p.libraries, e)
    PROVE  PlanOK(q) /\ Len(q.libraries) = Len(p.libraries) + 1
<1>1. /\ DOMAIN q = PlanFields /\ q.libraries = Append(p.libraries, e)
      /\ q.packages = p.packages /\ q.foreign = p.foreign
      /\ q.executables = p.executables /\ q.default = p.default
  BY DEF But, PlanFields
<1>2. Libs(q.libraries, Len(p.packages), Len(p.foreign)) /\ Len(q.libraries) = Len(p.libraries) + 1
  <2>1. /\ IsSeq(q.libraries) /\ Len(q.libraries) = Len(p.libraries) + 1 /\ Len(p.libraries) \in Nat
        /\ \A i \in 1..Len(p.libraries) : q.libraries[i] = p.libraries[i]
        /\ q.libraries[Len(p.libraries) + 1] = e
    BY <1>1, SeqMore DEF PlanOK, Libs
  <2>2. ASSUME NEW i \in 1..Len(q.libraries)
        PROVE  LibOK(q.libraries[i], i, Len(p.packages), Len(p.foreign))
    <3>1. i \in 1..Len(p.libraries) \/ i = Len(p.libraries) + 1
      BY <2>1
    <3> QED
      BY <2>1, <3>1 DEF PlanOK, Libs
  <2> QED
    BY <2>1, <2>2 DEF Libs
<1>3. Exes(p.executables, Len(p.packages), Len(p.libraries) + 1, Len(p.foreign))
  BY PlanLens, ExesGrow DEF PlanOK
<1> QED
  BY <1>1, <1>2, <1>3, Zenon DEF PlanOK

\* An executable.
LEMMA PlanExecutable ==
    ASSUME NEW p, PlanOK(p), NEW e, ExeOK(e, Len(p.packages), Len(p.libraries), Len(p.foreign)),
           NEW q, But(q, p, "executables"), q.executables = Append(p.executables, e)
    PROVE  PlanOK(q) /\ Len(q.executables) = Len(p.executables) + 1
<1>1. /\ DOMAIN q = PlanFields /\ q.executables = Append(p.executables, e)
      /\ q.packages = p.packages /\ q.foreign = p.foreign
      /\ q.libraries = p.libraries /\ q.default = p.default
  BY DEF But, PlanFields
<1>2. /\ Exes(q.executables, Len(p.packages), Len(p.libraries), Len(p.foreign))
      /\ Len(q.executables) = Len(p.executables) + 1
  <2>1. /\ IsSeq(q.executables) /\ Len(q.executables) = Len(p.executables) + 1
        /\ Len(p.executables) \in Nat
        /\ \A i \in 1..Len(p.executables) : q.executables[i] = p.executables[i]
        /\ q.executables[Len(p.executables) + 1] = e
    BY <1>1, SeqMore DEF PlanOK, Exes
  <2>2. ASSUME NEW i \in 1..Len(q.executables)
        PROVE  ExeOK(q.executables[i], Len(p.packages), Len(p.libraries), Len(p.foreign))
    <3>1. i \in 1..Len(p.executables) \/ i = Len(p.executables) + 1
      BY <2>1
    <3> QED
      BY <2>1, <3>1 DEF PlanOK, Exes
  <2> QED
    BY <2>1, <2>2 DEF Exes
<1>3. p.default \in 0..Len(q.executables)
  BY <1>2, PlanLens DEF PlanOK
<1> QED
  BY <1>1, <1>2, <1>3, Zenon DEF PlanOK

\* Another default.
LEMMA PlanDefault ==
    ASSUME NEW p, PlanOK(p), NEW i \in 1..Len(p.executables), NEW q, But(q, p, "default"), q.default = i
    PROVE  PlanOK(q)
<1>1. /\ DOMAIN q = PlanFields /\ q.executables = p.executables
      /\ q.packages = p.packages /\ q.foreign = p.foreign
      /\ q.libraries = p.libraries /\ q.default = i
  BY DEF But, PlanFields
<1>2. i \in 0..Len(p.executables)
  BY PlanLens
<1> QED
  BY <1>1, <1>2, Zenon DEF PlanOK

\* Executables that are changed.
LEMMA PlanChanged ==
    ASSUME NEW p, PlanOK(p), NEW q, But(q, p, "executables"),
           IsSeq(q.executables), Len(q.executables) = Len(p.executables),
           \A i \in 1..Len(p.executables) :
              ExeOK(q.executables[i], Len(p.packages), Len(p.libraries), Len(p.foreign))
    PROVE  PlanOK(q)
<1>1. /\ DOMAIN q = PlanFields
      /\ q.packages = p.packages /\ q.foreign = p.foreign
      /\ q.libraries = p.libraries /\ q.default = p.default
  BY DEF But, PlanFields
<1>2. Exes(q.executables, Len(p.packages), Len(p.libraries), Len(p.foreign))
  BY DEF Exes
<1> QED
  BY <1>1, <1>2, Zenon DEF PlanOK

-----------------------------------------------------------------------------
(* Evaluating a call.                                                      *)

\* At first there is a handle of the build and an empty plan.
LEMMA StartOK == StateOK(B!Start)
<1> DEFINE p == B!EmptyPlan
<1>1. <<>> \in Seq({}) /\ Len(<<>>) = 0 /\ 0 \in 0..0
  OBVIOUS
<1>2. IsSeq(<<>>)
  BY <1>1, SeqIs
<1>3. /\ DOMAIN p = PlanFields /\ p.packages = <<>> /\ p.foreign = <<>> /\ p.libraries = <<>>
      /\ p.executables = <<>> /\ p.default = 0
  BY DEF B!EmptyPlan, PlanFields
<1> HIDE DEF p
<1>4. Libs(<<>>, 0, 0) /\ Exes(<<>>, 0, 0, 0)
  BY <1>1, <1>2 DEF Libs, Exes
<1>5. PlanOK(p)
  BY <1>1, <1>2, <1>3, <1>4 DEF PlanOK
<1>6. EnvOK([x \in {"b"} |-> B!Handle("build", 0)], 0, 0, 0, 0)
  BY DEF EnvOK, B!Handle
<1>7. /\ DOMAIN B!Start = {"env", "plan", "ok"} /\ B!Start.plan = p
      /\ B!Start.env = [x \in {"b"} |-> B!Handle("build", 0)]
  BY DEF B!Start, p
<1> QED
  BY <1>1, <1>3, <1>5, <1>6, <1>7 DEF StateOK

\* A failure is only noted.
LEMMA FailOK == ASSUME NEW s, StateOK(s) PROVE StateOK(B!Fail(s))
<1>1. B!Fail(s).plan = s.plan /\ B!Fail(s).env = s.env /\ DOMAIN B!Fail(s) = DOMAIN s
  BY DEF B!Fail, StateOK
<1> QED
  BY <1>1, Zenon DEF StateOK

\* A call that extends the plan, and binds a handle of an entry of the new plan.
LEMMA BindOK ==
    ASSUME NEW s, StateOK(s), NEW q, PlanOK(q),
           Len(s.plan.packages) <= Len(q.packages), Len(s.plan.foreign) <= Len(q.foreign),
           Len(s.plan.libraries) <= Len(q.libraries), Len(s.plan.executables) <= Len(q.executables),
           NEW t, DOMAIN t = DOMAIN s, t.plan = q, t.env = s.env,
           NEW c, NEW kind, NEW i,
           kind = "package" => i \in 1..Len(q.packages), kind = "foreign" => i \in 1..Len(q.foreign),
           kind = "library" => i \in 1..Len(q.libraries),
           kind = "executable" => i \in 1..Len(q.executables)
    PROVE  StateOK(B!Bind(t, c, B!Handle(kind, i)))
<1> DEFINE r == B!Bind(t, c, B!Handle(kind, i))
           env == B!Over([y \in {c.bind} |-> B!Handle(kind, i)], s.env)
<1>1. DOMAIN r = {"env", "plan", "ok"} /\ r.plan = q /\ r.env = env
  BY DEF B!Bind, StateOK
<1>2. EnvOK(s.env, Len(q.packages), Len(q.foreign), Len(q.libraries), Len(q.executables))
  BY PlanLens, EnvGrows DEF StateOK
<1>3. EnvOK(env, Len(q.packages), Len(q.foreign), Len(q.libraries), Len(q.executables))
  <2> DEFINE h == B!Handle(kind, i)
             f == [y \in {c.bind} |-> h]
  <2>1. h.kind = kind /\ h.index = i
    BY DEF B!Handle
  <2> HIDE DEF h
  <2>2. DOMAIN f = {c.bind} /\ f[c.bind] = h
    OBVIOUS
  <2>3. env = B!Over(f, s.env)
    BY DEF h
  <2> HIDE DEF f, env
  <2>4. DOMAIN env = {c.bind} \cup DOMAIN s.env
    BY <2>2, <2>3 DEF B!Over
  <2>5. \A y \in DOMAIN env : env[y] = IF y \in {c.bind} THEN h ELSE s.env[y]
    BY <2>2, <2>3, <2>4 DEF B!Over
  <2>6. ASSUME NEW y \in DOMAIN env PROVE env[y] = h \/ (y \in DOMAIN s.env /\ env[y] = s.env[y])
    BY <2>4, <2>5
  <2> QED
    BY <1>2, <2>1, <2>6 DEF EnvOK
<1> HIDE DEF r, env
<1>4. StateOK(r)
  BY <1>1, <1>3, Zenon DEF StateOK
<1> QED
  BY <1>4 DEF r

\* The same when the plan is only extended.
LEMMA GrownOK ==
    ASSUME NEW s, StateOK(s), NEW q, PlanOK(q),
           Len(s.plan.packages) <= Len(q.packages), Len(s.plan.foreign) <= Len(q.foreign),
           Len(s.plan.libraries) <= Len(q.libraries), Len(s.plan.executables) <= Len(q.executables),
           NEW t, DOMAIN t = DOMAIN s, t.plan = q, t.env = s.env
    PROVE  StateOK(t)
<1>1. EnvOK(s.env, Len(q.packages), Len(q.foreign), Len(q.libraries), Len(q.executables))
  BY PlanLens, EnvGrows DEF StateOK
<1> QED
  BY <1>1, Zenon DEF StateOK

\* createPackage and addPackage
LEMMA PackageCallOK ==
    ASSUME NEW s, StateOK(s), NEW c, NEW pkg
    PROVE  StateOK(B!Bind([s EXCEPT !.plan.packages = Append(@, pkg)], c,
                          B!Handle("package", Len(s.plan.packages) + 1)))
<1> DEFINE p == s.plan
           q == [p EXCEPT !.packages = Append(@, pkg)]
           t == [s EXCEPT !.plan.packages = Append(@, pkg)]
<1>1. DOMAIN t = DOMAIN s /\ t.plan = q /\ t.env = s.env
  BY DEF StateOK
<1>2. /\ PlanOK(q) /\ Len(q.packages) = Len(p.packages) + 1
      /\ q.foreign = p.foreign /\ q.libraries = p.libraries /\ q.executables = p.executables
  <2>1. PlanOK(p)
    BY DEF StateOK
  <2>2. But(q, p, "packages") /\ q.packages = Append(p.packages, pkg)
    BY <2>1 DEF But, PlanFields, PlanOK
  <2> HIDE DEF p, t, q
  <2> QED
    BY <2>1, <2>2, PlanPackage DEF But, PlanFields
<1>3. PlanOK(p)
  BY DEF StateOK
<1> HIDE DEF q, t, p
<1>4. /\ Len(p.packages) <= Len(q.packages) /\ Len(p.foreign) <= Len(q.foreign)
      /\ Len(p.libraries) <= Len(q.libraries) /\ Len(p.executables) <= Len(q.executables)
      /\ Len(p.packages) + 1 \in 1..Len(q.packages)
  BY <1>2, <1>3, PlanLens
<1>5. StateOK(B!Bind(t, c, B!Handle("package", Len(p.packages) + 1)))
  BY <1>1, <1>2, <1>4, BindOK DEF p
<1> QED
  BY <1>5 DEF t, p

\* linkLibrary
LEMMA ForeignCallOK ==
    ASSUME NEW s, StateOK(s), NEW c, NEW lib
    PROVE  StateOK(B!Bind([s EXCEPT !.plan.foreign = Append(@, lib)], c,
                          B!Handle("foreign", Len(s.plan.foreign) + 1)))
<1> DEFINE p == s.plan
           q == [p EXCEPT !.foreign = Append(@, lib)]
           t == [s EXCEPT !.plan.foreign = Append(@, lib)]
<1>1. DOMAIN t = DOMAIN s /\ t.plan = q /\ t.env = s.env
  BY DEF StateOK
<1>2. /\ PlanOK(q) /\ Len(q.foreign) = Len(p.foreign) + 1
      /\ q.packages = p.packages /\ q.libraries = p.libraries /\ q.executables = p.executables
  <2>1. PlanOK(p)
    BY DEF StateOK
  <2>2. But(q, p, "foreign") /\ q.foreign = Append(p.foreign, lib)
    BY <2>1 DEF But, PlanFields, PlanOK
  <2> HIDE DEF p, t, q
  <2> QED
    BY <2>1, <2>2, PlanForeign DEF But, PlanFields
<1>3. PlanOK(p)
  BY DEF StateOK
<1> HIDE DEF q, t, p
<1>4. /\ Len(p.packages) <= Len(q.packages) /\ Len(p.foreign) <= Len(q.foreign)
      /\ Len(p.libraries) <= Len(q.libraries) /\ Len(p.executables) <= Len(q.executables)
      /\ Len(p.foreign) + 1 \in 1..Len(q.foreign)
  BY <1>2, <1>3, PlanLens
<1>5. StateOK(B!Bind(t, c, B!Handle("foreign", Len(p.foreign) + 1)))
  BY <1>1, <1>2, <1>4, BindOK DEF p
<1> QED
  BY <1>5 DEF t, p

\* addLibrary: the target's package is declared with it, after what it imports.
LEMMA LibraryCallOK ==
    ASSUME NEW s, StateOK(s), NEW c, NEW pkg, NEW name, NEW names, IsSeq(names)
    PROVE  StateOK(B!Bind([s EXCEPT !.plan.packages = Append(@, pkg),
                                    !.plan.libraries =
                                       Append(@, B!Target(name, Len(s.plan.packages) + 1,
                                                          B!ImportHandles(s.env, names)))],
                          c, B!Handle("library", Len(s.plan.libraries) + 1)))
<1> DEFINE p == s.plan
           e == B!Target(name, Len(p.packages) + 1, B!ImportHandles(s.env, names))
           p1 == [p EXCEPT !.packages = Append(@, pkg)]
           q == [p1 EXCEPT !.libraries = Append(@, e)]
           t == [s EXCEPT !.plan.packages = Append(@, pkg), !.plan.libraries = Append(@, e)]
<1>3. PlanOK(p)
  BY DEF StateOK
<1>6. LibOK(e, Len(p.libraries) + 1, Len(p.packages) + 1, Len(p.foreign))
  <2> DEFINE np == Len(p.packages)
             nl == Len(p.libraries)
             items == B!ImportHandles(s.env, names)
  <2>1. items.package \in Seq(1..np) /\ items.library \in Seq(1..nl) /\ items.foreign \in Seq(1..Len(p.foreign))
    BY <1>3, PlanLens, ItemsOK DEF StateOK
  <2>2. np \in Nat /\ nl \in Nat
    BY <1>3, PlanLens
  <2>3. /\ e.package = np + 1 /\ e.imports = items.package /\ e.libraries = items.library
        /\ e.foreign = items.foreign
    BY DEF B!Target
  <2> HIDE DEF np, nl, items, e
  <2>4. (np + 1) - 1 = np /\ (nl + 1) - 1 = nl /\ np + 1 \in 1..(np + 1)
    BY <2>2
  <2>5. LibOK(e, nl + 1, np + 1, Len(p.foreign))
    BY <2>1, <2>3, <2>4 DEF LibOK
  <2> QED
    BY <2>5 DEF np, nl
<1> HIDE DEF e
<1>1. DOMAIN t = DOMAIN s /\ t.plan = q /\ t.env = s.env
  BY DEF StateOK, PlanOK, PlanFields
<1>7. /\ PlanOK(p1) /\ Len(p1.packages) = Len(p.packages) + 1
      /\ p1.foreign = p.foreign /\ p1.libraries = p.libraries /\ p1.executables = p.executables
  <2>1. But(p1, p, "packages") /\ p1.packages = Append(p.packages, pkg)
    BY <1>3 DEF But, PlanFields, PlanOK
  <2> HIDE DEF p, p1, t, q
  <2> QED
    BY <1>3, <2>1, PlanPackage DEF But, PlanFields
<1> HIDE DEF t, p1
<1>2. /\ PlanOK(q) /\ Len(q.libraries) = Len(p.libraries) + 1
      /\ q.packages = p1.packages /\ q.foreign = p1.foreign /\ q.executables = p1.executables
  <2>1. LibOK(e, Len(p1.libraries) + 1, Len(p1.packages), Len(p1.foreign))
    BY <1>6, <1>7, Zenon
  <2>2. But(q, p1, "libraries") /\ q.libraries = Append(p1.libraries, e)
    BY <1>7 DEF But, PlanFields, PlanOK
  <2> HIDE DEF p, q
  <2> QED
    BY <1>7, <2>1, <2>2, PlanLibrary DEF But, PlanFields
<1> HIDE DEF q, p
<1>4. /\ Len(p.packages) <= Len(q.packages) /\ Len(p.foreign) <= Len(q.foreign)
      /\ Len(p.libraries) <= Len(q.libraries) /\ Len(p.executables) <= Len(q.executables)
      /\ Len(p.libraries) + 1 \in 1..Len(q.libraries)
  BY <1>2, <1>3, <1>7, PlanLens
<1>5. StateOK(B!Bind(t, c, B!Handle("library", Len(p.libraries) + 1)))
  BY <1>1, <1>2, <1>4, BindOK DEF p
<1> QED
  BY <1>5 DEF t, p, e

\* addExecutable
LEMMA ExecutableCallOK ==
    ASSUME NEW s, StateOK(s), NEW c, NEW name, NEW names, IsSeq(names)
    PROVE  StateOK(B!Bind([s EXCEPT !.plan.executables =
                                       Append(@, B!Target(name, 0, B!ImportHandles(s.env, names)))],
                          c, B!Handle("executable", Len(s.plan.executables) + 1)))
<1> DEFINE p == s.plan
           e == B!Target(name, 0, B!ImportHandles(s.env, names))
           q == [p EXCEPT !.executables = Append(@, e)]
           t == [s EXCEPT !.plan.executables = Append(@, e)]
<1>1. PlanOK(p)
  BY DEF StateOK
<1>2. ExeOK(e, Len(p.packages), Len(p.libraries), Len(p.foreign))
  <2> DEFINE items == B!ImportHandles(s.env, names)
  <2>1. /\ items.package \in Seq(1..Len(p.packages)) /\ items.library \in Seq(1..Len(p.libraries))
        /\ items.foreign \in Seq(1..Len(p.foreign))
    BY <1>1, PlanLens, ItemsOK DEF StateOK
  <2>2. /\ DOMAIN e = TargetFields /\ e.imports = items.package /\ e.libraries = items.library
        /\ e.foreign = items.foreign
    BY DEF B!Target, TargetFields
  <2> HIDE DEF items, e, p
  <2> QED
    BY <2>1, <2>2 DEF ExeOK
<1> HIDE DEF e
<1>3. DOMAIN t = DOMAIN s /\ t.plan = q /\ t.env = s.env
  BY DEF StateOK
<1>4. But(q, p, "executables") /\ q.executables = Append(p.executables, e)
  BY <1>1 DEF But, PlanFields, PlanOK
<1> HIDE DEF q, t, p
<1>5. PlanOK(q) /\ Len(q.executables) = Len(p.executables) + 1
  BY <1>1, <1>2, <1>4, PlanExecutable
<1>6. q.packages = p.packages /\ q.foreign = p.foreign /\ q.libraries = p.libraries
  BY <1>4 DEF But, PlanFields
<1>7. /\ Len(p.packages) <= Len(q.packages) /\ Len(p.foreign) <= Len(q.foreign)
      /\ Len(p.libraries) <= Len(q.libraries) /\ Len(p.executables) <= Len(q.executables)
      /\ Len(p.executables) + 1 \in 1..Len(q.executables)
  BY <1>1, <1>5, <1>6, PlanLens
<1>8. StateOK(B!Bind(t, c, B!Handle("executable", Len(p.executables) + 1)))
  BY <1>3, <1>5, <1>7, BindOK DEF p
<1> QED
  BY <1>8 DEF t, p, e

\* createEntry
LEMMA EntryCallOK ==
    ASSUME NEW s, StateOK(s), NEW c PROVE StateOK(B!Bind(s, c, B!Handle("entry", 0)))
<1>1. PlanOK(s.plan)
  BY DEF StateOK
<1>2. /\ Len(s.plan.packages) <= Len(s.plan.packages) /\ Len(s.plan.foreign) <= Len(s.plan.foreign)
      /\ Len(s.plan.libraries) <= Len(s.plan.libraries)
      /\ Len(s.plan.executables) <= Len(s.plan.executables)
  BY <1>1, PlanLens
<1> QED
  BY <1>1, <1>2, BindOK

\* install
LEMMA InstallCallOK ==
    ASSUME NEW s, StateOK(s), NEW x, x \in DOMAIN s.env, s.env[x].kind = "executable"
    PROVE  StateOK([s EXCEPT !.plan.default = s.env[x].index])
<1> DEFINE p == s.plan
           i == s.env[x].index
           q == [p EXCEPT !.default = i]
           t == [s EXCEPT !.plan.default = i]
<1>1. PlanOK(p) /\ i \in 1..Len(p.executables)
  BY DEF StateOK, EnvOK
<1> HIDE DEF i
<1>2. DOMAIN t = DOMAIN s /\ t.plan = q /\ t.env = s.env
  BY DEF StateOK
<1>3. But(q, p, "default") /\ q.default = i
  BY <1>1 DEF But, PlanFields, PlanOK
<1> HIDE DEF q, t, p
<1>4. PlanOK(q)
  BY <1>1, <1>3, PlanDefault
<1>5. q.packages = p.packages /\ q.foreign = p.foreign /\ q.libraries = p.libraries /\ q.executables = p.executables
  BY <1>3 DEF But, PlanFields
<1>6. /\ Len(p.packages) <= Len(q.packages) /\ Len(p.foreign) <= Len(q.foreign)
      /\ Len(p.libraries) <= Len(q.libraries) /\ Len(p.executables) <= Len(q.executables)
  BY <1>1, <1>5, PlanLens
<1>7. StateOK(t)
  BY <1>2, <1>4, <1>6, GrownOK DEF p
<1> QED
  BY <1>7 DEF t, i

\* An executable whose fields are changed.
LEMMA ChangeOK ==
    ASSUME NEW s, StateOK(s), NEW e \in 1..Len(s.plan.executables), NEW x,
           ExeOK(x, Len(s.plan.packages), Len(s.plan.libraries), Len(s.plan.foreign)),
           NEW t, DOMAIN t = DOMAIN s, t.env = s.env, But(t.plan, s.plan, "executables"),
           t.plan.executables = [s.plan.executables EXCEPT ![e] = x]
    PROVE  StateOK(t)
<1> DEFINE p == s.plan
           q == t.plan
           es == p.executables
           fs == q.executables
<1>1. PlanOK(p)
  BY DEF StateOK
<1>2. PlanOK(q) /\ Len(q.executables) = Len(p.executables)
  <2>1. IsSeq(es) /\ \A i \in 1..Len(es) : ExeOK(es[i], Len(p.packages), Len(p.libraries), Len(p.foreign))
    BY <1>1 DEF PlanOK, Exes
  <2>2. Len(es) \in Nat /\ DOMAIN es = 1..Len(es)
    BY <2>1, SeqHas
  <2>3. fs = [i \in 1..Len(es) |-> fs[i]] /\ \A i \in 1..Len(es) : fs[i] = IF i = e THEN x ELSE es[i]
    BY <2>2
  <2> HIDE DEF fs, es
  <2>4. IsSeq(fs) /\ Len(fs) = Len(es)
    BY <2>2, <2>3, SeqFrom
  <2>5. \A i \in 1..Len(es) : ExeOK(fs[i], Len(p.packages), Len(p.libraries), Len(p.foreign))
    BY <2>1, <2>3
  <2>6. But(q, p, "executables")
    OBVIOUS
  <2> HIDE DEF p, q
  <2> QED
    BY <1>1, <2>4, <2>5, <2>6, PlanChanged DEF fs, es
<1>3. q.packages = p.packages /\ q.foreign = p.foreign /\ q.libraries = p.libraries
  BY DEF But, PlanFields
<1>4. /\ Len(p.packages) <= Len(q.packages) /\ Len(p.foreign) <= Len(q.foreign)
      /\ Len(p.libraries) <= Len(q.libraries) /\ Len(p.executables) <= Len(q.executables)
  BY <1>1, <1>2, <1>3, PlanLens
<1> QED
  BY <1>2, <1>4, GrownOK

\* exe.addPackage, exe.addLibrary and exe.linkLibrary
LEMMA AttachOK ==
    ASSUME NEW s, StateOK(s), NEW c, c.on \in DOMAIN s.env, c.of \in DOMAIN s.env,
           s.env[c.on].kind = "executable"
    PROVE  StateOK(B!AttachCall(s, c))
<1> DEFINE e == s.env[c.on].index
           h == s.env[c.of]
           p == s.plan
           x == p.executables[e]
           np == Len(p.packages)
           nl == Len(p.libraries)
           nf == Len(p.foreign)
<1>1. e \in 1..Len(p.executables)
  BY DEF StateOK, EnvOK
<1>2. /\ h.kind = "package" => h.index \in 1..np
      /\ h.kind = "library" => h.index \in 1..nl
      /\ h.kind = "foreign" => h.index \in 1..nf
  BY DEF StateOK, EnvOK
<1>3. /\ DOMAIN x = TargetFields /\ x.imports \in Seq(1..np)
      /\ x.libraries \in Seq(1..nl) /\ x.foreign \in Seq(1..nf)
  BY <1>1 DEF StateOK, PlanOK, Exes, ExeOK
<1>4. DOMAIN s = {"env", "plan", "ok"} /\ DOMAIN p = PlanFields /\ DOMAIN p.executables = 1..Len(p.executables)
  BY SeqHas DEF StateOK, PlanOK, Exes
<1>5. ASSUME h.kind = "package"
      PROVE  StateOK([s EXCEPT !.plan.executables[e].imports = B!AddNew(@, h.index)])
  <2> DEFINE y == [x EXCEPT !.imports = B!AddNew(@, h.index)]
             t == [s EXCEPT !.plan.executables[e].imports = B!AddNew(@, h.index)]
  <2>1. B!AddNew(x.imports, h.index) \in Seq(1..np)
    BY <1>2, <1>3, <1>5, AddNewType
  <2>2. ExeOK(y, np, nl, nf)
    BY <1>3, <2>1 DEF ExeOK, TargetFields
  <2>3. /\ DOMAIN t = DOMAIN s /\ t.env = s.env /\ But(t.plan, p, "executables")
        /\ t.plan.executables = [p.executables EXCEPT ![e] = y]
    BY <1>4 DEF But, PlanFields
  <2> QED
    BY <1>1, <2>2, <2>3, ChangeOK
<1>6. ASSUME h.kind = "library"
      PROVE  StateOK([s EXCEPT !.plan.executables[e].libraries = B!AddNew(@, h.index)])
  <2> DEFINE y == [x EXCEPT !.libraries = B!AddNew(@, h.index)]
             t == [s EXCEPT !.plan.executables[e].libraries = B!AddNew(@, h.index)]
  <2>1. B!AddNew(x.libraries, h.index) \in Seq(1..nl)
    BY <1>2, <1>3, <1>6, AddNewType
  <2>2. ExeOK(y, np, nl, nf)
    BY <1>3, <2>1 DEF ExeOK, TargetFields
  <2>3. /\ DOMAIN t = DOMAIN s /\ t.env = s.env /\ But(t.plan, p, "executables")
        /\ t.plan.executables = [p.executables EXCEPT ![e] = y]
    BY <1>4 DEF But, PlanFields
  <2> QED
    BY <1>1, <2>2, <2>3, ChangeOK
<1>7. ASSUME h.kind = "foreign"
      PROVE  StateOK([s EXCEPT !.plan.executables[e].foreign = B!AddNew(@, h.index)])
  <2> DEFINE y == [x EXCEPT !.foreign = B!AddNew(@, h.index)]
             t == [s EXCEPT !.plan.executables[e].foreign = B!AddNew(@, h.index)]
  <2>1. B!AddNew(x.foreign, h.index) \in Seq(1..nf)
    BY <1>2, <1>3, <1>7, AddNewType
  <2>2. ExeOK(y, np, nl, nf)
    BY <1>3, <2>1 DEF ExeOK, TargetFields
  <2>3. /\ DOMAIN t = DOMAIN s /\ t.env = s.env /\ But(t.plan, p, "executables")
        /\ t.plan.executables = [p.executables EXCEPT ![e] = y]
    BY <1>4 DEF But, PlanFields
  <2> QED
    BY <1>1, <2>2, <2>3, ChangeOK
<1>8. StateOK(B!Fail(s))
  BY FailOK
<1>9. B!AttachCall(s, c) =
         CASE c.call = "addPackage" /\ h.kind = "package" ->
                [s EXCEPT !.plan.executables[e].imports = B!AddNew(@, h.index)]
           [] c.call = "addLibrary" /\ h.kind = "library" ->
                [s EXCEPT !.plan.executables[e].libraries = B!AddNew(@, h.index)]
           [] c.call = "linkLibrary" /\ h.kind = "foreign" ->
                [s EXCEPT !.plan.executables[e].foreign = B!AddNew(@, h.index)]
           [] OTHER -> B!Fail(s)
  BY DEF B!AttachCall
<1> DEFINE r1 == [s EXCEPT !.plan.executables[e].imports = B!AddNew(@, h.index)]
           r2 == [s EXCEPT !.plan.executables[e].libraries = B!AddNew(@, h.index)]
           r3 == [s EXCEPT !.plan.executables[e].foreign = B!AddNew(@, h.index)]
<1> HIDE DEF r1, r2, r3
<1>10. \/ h.kind = "package" /\ B!AttachCall(s, c) = r1
       \/ h.kind = "library" /\ B!AttachCall(s, c) = r2
       \/ h.kind = "foreign" /\ B!AttachCall(s, c) = r3
       \/ B!AttachCall(s, c) = B!Fail(s)
  BY <1>9, Zenon DEF r1, r2, r3
<1> QED
  BY <1>5, <1>6, <1>7, <1>8, <1>10 DEF r1, r2, r3

\* A call of the builder.
LEMMA BuildCallOK ==
    ASSUME NEW s, StateOK(s), NEW c, IsSeq(c.imports)
    PROVE  StateOK(B!BuildCall(s, c))
<1> DEFINE p == s.plan
           pkg == [root |-> c.root, name |-> c.name]
           libPkg == [root |-> c.root, name |-> IF c.package = B!NoName THEN c.name ELSE c.package]
           items == B!ImportHandles(s.env, c.imports)
           lib == [name |-> c.name, abi |-> c.abi]
           r1 == B!Bind([s EXCEPT !.plan.packages = Append(@, pkg)], c,
                        B!Handle("package", Len(p.packages) + 1))
           r2 == B!Bind([s EXCEPT !.plan.foreign = Append(@, lib)], c,
                        B!Handle("foreign", Len(p.foreign) + 1))
           r3 == B!Bind([s EXCEPT !.plan.packages = Append(@, libPkg),
                                  !.plan.libraries =
                                     Append(@, B!Target(c.name, Len(p.packages) + 1, items))], c,
                        B!Handle("library", Len(p.libraries) + 1))
           r4 == B!Bind(s, c, B!Handle("entry", 0))
           r5 == B!Bind([s EXCEPT !.plan.executables = Append(@, B!Target(c.name, 0, items))], c,
                        B!Handle("executable", Len(p.executables) + 1))
           r6 == [s EXCEPT !.plan.default = s.env[c.of].index]
           installs == c.of \in DOMAIN s.env /\ s.env[c.of].kind = "executable"
           a1 == c.call = "createPackage"
           a2 == c.call = "addPackage" /\ c.name \notin Reserved
           a3 == c.call = "linkLibrary" /\ c.abi # "ident"
           a4 == /\ c.call = "addLibrary" /\ {c.name, libPkg.name} \cap Reserved = {}
                 /\ B!Importable(s.env, c.imports)
           a5 == c.call = "createEntry"
           a6 == c.call = "addExecutable" /\ B!Importable(s.env, c.imports)
           a7 == c.call = "install" /\ c.of \in DOMAIN s.env /\ s.env[c.of].kind = "executable"
<1>1. StateOK(r1)
  BY PackageCallOK
<1>2. StateOK(r2)
  BY ForeignCallOK
<1>3. StateOK(r3)
  BY LibraryCallOK
<1>4. StateOK(r4)
  BY EntryCallOK
<1>5. StateOK(r5)
  BY ExecutableCallOK
<1>6. installs => StateOK(r6)
  BY InstallCallOK
<1>7. StateOK(B!Fail(s))
  BY FailOK
<1>8. B!BuildCall(s, c) = CASE a1 -> r1 [] a2 -> r1 [] a3 -> r2 [] a4 -> r3 [] a5 -> r4
                            [] a6 -> r5 [] a7 -> r6 [] OTHER -> B!Fail(s)
  BY Zenon DEF B!BuildCall
<1>9. a7 => installs
  OBVIOUS
<1> HIDE DEF r1, r2, r3, r4, r5, r6, a1, a2, a3, a4, a5, a6, a7, installs
<1> QED
  BY <1>1, <1>2, <1>3, <1>4, <1>5, <1>6, <1>7, <1>8, <1>9, ZenonT(60)

\* Any call.
LEMMA EvalOK ==
    ASSUME NEW s, StateOK(s), NEW c, IsSeq(c.imports)
    PROVE  StateOK(B!EvalCall(s, c))
<1>1. StateOK(B!Fail(s)) /\ StateOK(B!BuildCall(s, c))
  BY FailOK, BuildCallOK
<1> DEFINE attaches == /\ c.on \in DOMAIN s.env /\ s.env[c.on].kind = "executable"
                       /\ c.of \in DOMAIN s.env
<1>2. attaches => StateOK(B!AttachCall(s, c))
  BY AttachOK
<1>3. CASE ~s.ok \/ c.bind \in Keywords \/ c.on \notin DOMAIN s.env
  BY <1>1, <1>3 DEF B!EvalCall
<1>4. CASE ~(~s.ok \/ c.bind \in Keywords \/ c.on \notin DOMAIN s.env)
  <2>1. B!EvalCall(s, c) = CASE s.env[c.on].kind = "build" -> B!BuildCall(s, c)
                             [] s.env[c.on].kind = "executable" /\ c.of \in DOMAIN s.env -> B!AttachCall(s, c)
                             [] OTHER -> B!Fail(s)
    BY <1>4, Zenon DEF B!EvalCall
  <2>2. s.env[c.on].kind = "executable" /\ c.of \in DOMAIN s.env => attaches
    BY <1>4
  <2> HIDE DEF attaches
  <2> QED
    BY <1>1, <1>2, <2>1, <2>2, Zenon
<1> QED
  BY <1>3, <1>4

-----------------------------------------------------------------------------
(* Evaluating a file.                                                      *)

\* A call whose arguments are the fields of a call.
CallOK(c) == IsSeq(c.imports) /\ c = B!Call(c.call, c)

\* f solves the recursion of Evaluated up to n.
IsRun(f, script, n) ==
    f = [m \in 0..n |-> IF m = 0 THEN B!Start ELSE B!EvalCall(f[m - 1], script[m])]

\* There is one.
LEMMA RunExists == ASSUME NEW script PROVE \A n \in Nat : \E f : IsRun(f, script, n)
<1> DEFINE D == {n \in Nat : \E f : IsRun(f, script, n)}
<1>1. 0 \in D
  <2>1. IsRun([m \in 0..0 |-> B!Start], script, 0)
    BY DEF IsRun
  <2> QED
    BY <2>1
<1>2. ASSUME NEW k \in D \cap Nat PROVE k + 1 \in D
  <2>1. PICK f : IsRun(f, script, k)
    OBVIOUS
  <2> DEFINE x == B!EvalCall(f[k], script[k + 1])
             g == [m \in 0..(k + 1) |-> IF m = k + 1 THEN x ELSE f[m]]
  <2>2. \A m \in 0..k : f[m] = IF m = 0 THEN B!Start ELSE B!EvalCall(f[m - 1], script[m])
    BY <2>1 DEF IsRun
  <2>3. \A m \in 0..(k + 1) : g[m] = IF m = k + 1 THEN x ELSE f[m]
    OBVIOUS
  <2>4. \A m \in 0..(k + 1) : m # 0 => m - 1 \in 0..(k + 1) /\ g[m - 1] = f[m - 1] /\ (m # k + 1 => m \in 0..k)
    BY <2>3
  <2>5. \A m \in 0..(k + 1) : g[m] = IF m = 0 THEN B!Start ELSE B!EvalCall(g[m - 1], script[m])
    <3> TAKE m \in 0..(k + 1)
    <3>1. CASE m = 0
      BY <2>2, <2>3, <3>1
    <3>2. CASE m = k + 1
      <4>1. m # 0 /\ m - 1 = k /\ g[m - 1] = f[k] /\ g[m] = x
        BY <2>3, <2>4, <3>2
      <4> HIDE DEF g
      <4> QED
        BY <3>2, <4>1
    <3>3. CASE m # 0 /\ m # k + 1
      <4>1. g[m] = f[m] /\ m \in 0..k /\ g[m - 1] = f[m - 1]
        BY <2>3, <2>4, <3>3
      <4> HIDE DEF g
      <4> QED
        BY <2>2, <3>3, <4>1
    <3> QED
      BY <3>1, <3>2, <3>3
  <2>6. g = [m \in 0..(k + 1) |-> g[m]]
    OBVIOUS
  <2> HIDE DEF g
  <2>7. IsRun(g, script, k + 1)
    BY <2>5, <2>6, Zenon DEF IsRun
  <2> QED
    BY <2>7
<1> QED
  <2> HIDE DEF D
  <2>1. Nat \subseteq D
    BY <1>1, <1>2, Induct
  <2> QED
    BY <2>1 DEF D

\* What the loader makes of a file refers to what the file declared before.
LEMMA EvaluatedOK ==
    ASSUME NEW script, IsSeq(script), \A i \in 1..Len(script) : IsSeq(script[i].imports)
    PROVE  StateOK(B!Evaluated(script))
<1>0. Len(script) \in Nat
  BY SeqHas
<1>1. B!Evaluated(script) = (CHOOSE f : IsRun(f, script, Len(script)))[Len(script)]
  BY Zenon DEF B!Evaluated, IsRun
<1>2. PICK f : IsRun(f, script, Len(script)) /\ B!Evaluated(script) = f[Len(script)]
  BY <1>0, <1>1, RunExists
<1>3. \A m \in 0..Len(script) : f[m] = IF m = 0 THEN B!Start ELSE B!EvalCall(f[m - 1], script[m])
  BY <1>2 DEF IsRun
<1> DEFINE D == {k \in Nat : k <= Len(script) => StateOK(f[k])}
<1>4. 0 \in D
  BY <1>0, <1>3, StartOK
<1>5. ASSUME NEW k \in D \cap Nat PROVE k + 1 \in D
  <2> SUFFICES ASSUME k + 1 <= Len(script) PROVE StateOK(f[k + 1])
    OBVIOUS
  <2>1. /\ k + 1 \in 0..Len(script) /\ k + 1 # 0 /\ (k + 1) - 1 = k /\ k + 1 \in 1..Len(script)
        /\ StateOK(f[k])
    BY <1>0
  <2>2. f[k + 1] = B!EvalCall(f[k], script[k + 1]) /\ IsSeq(script[k + 1].imports)
    BY <1>3, <2>1
  <2> QED
    BY <2>1, <2>2, EvalOK
<1> HIDE DEF D
<1>6. Nat \subseteq D
  BY <1>4, <1>5, Induct
<1> QED
  BY <1>0, <1>2, <1>6 DEF D

-----------------------------------------------------------------------------
(* The collection of a target's dependencies.                              *)

\* f solves the recursion of AddLibraryTargets up to n.
IsEach(f, add, found, items, n) ==
    f = [m \in 0..n |-> IF m = 0 THEN found ELSE add[items[m]][f[m - 1]]]

\* There is one.
LEMMA EachExists ==
    ASSUME NEW add, NEW found, NEW items
    PROVE  \A n \in Nat : \E f : IsEach(f, add, found, items, n)
<1> DEFINE D == {n \in Nat : \E f : IsEach(f, add, found, items, n)}
<1>1. 0 \in D
  <2>1. IsEach([m \in 0..0 |-> found], add, found, items, 0)
    BY DEF IsEach
  <2> QED
    BY <2>1
<1>2. ASSUME NEW k \in D \cap Nat PROVE k + 1 \in D
  <2>1. PICK f : IsEach(f, add, found, items, k)
    OBVIOUS
  <2> DEFINE x == add[items[k + 1]][f[k]]
             g == [m \in 0..(k + 1) |-> IF m = k + 1 THEN x ELSE f[m]]
  <2>2. \A m \in 0..k : f[m] = IF m = 0 THEN found ELSE add[items[m]][f[m - 1]]
    BY <2>1 DEF IsEach
  <2>3. \A m \in 0..(k + 1) : g[m] = IF m = k + 1 THEN x ELSE f[m]
    OBVIOUS
  <2>4. \A m \in 0..(k + 1) : m # 0 => m - 1 \in 0..(k + 1) /\ g[m - 1] = f[m - 1] /\ (m # k + 1 => m \in 0..k)
    BY <2>3
  <2>5. \A m \in 0..(k + 1) : g[m] = IF m = 0 THEN found ELSE add[items[m]][g[m - 1]]
    <3> TAKE m \in 0..(k + 1)
    <3>1. CASE m = 0
      BY <2>2, <2>3, <3>1
    <3>2. CASE m = k + 1
      <4>1. m # 0 /\ m - 1 = k /\ g[m - 1] = f[k] /\ g[m] = x
        BY <2>3, <2>4, <3>2
      <4> HIDE DEF g
      <4> QED
        BY <3>2, <4>1
    <3>3. CASE m # 0 /\ m # k + 1
      <4>1. g[m] = f[m] /\ m \in 0..k /\ g[m - 1] = f[m - 1]
        BY <2>3, <2>4, <3>3
      <4> HIDE DEF g
      <4> QED
        BY <2>2, <3>3, <4>1
    <3> QED
      BY <3>1, <3>2, <3>3
  <2>6. g = [m \in 0..(k + 1) |-> g[m]]
    OBVIOUS
  <2> HIDE DEF g
  <2>7. IsEach(g, add, found, items, k + 1)
    BY <2>5, <2>6, Zenon DEF IsEach
  <2> QED
    BY <2>7
<1> QED
  <2> HIDE DEF D
  <2>1. Nat \subseteq D
    BY <1>1, <1>2, Induct
  <2> QED
    BY <2>1 DEF D

\* What each of the targets to be added keeps, adding them all keeps.
LEMMA EachKeeps ==
    ASSUME NEW G, NEW S, NEW add, \A g \in G, j \in S : add[j][g] \in G,
           NEW found \in G, NEW items \in Seq(S)
    PROVE  B!AddLibraryTargets(add, found, items) \in G
<1>0. Len(items) \in Nat /\ \A i \in 1..Len(items) : items[i] \in S
  OBVIOUS
<1>1. B!AddLibraryTargets(add, found, items) =
        (CHOOSE f : IsEach(f, add, found, items, Len(items)))[Len(items)]
  BY Zenon DEF B!AddLibraryTargets, IsEach
<1>2. PICK f : IsEach(f, add, found, items, Len(items)) /\ B!AddLibraryTargets(add, found, items) = f[Len(items)]
  BY <1>0, <1>1, EachExists
<1>3. \A m \in 0..Len(items) : f[m] = IF m = 0 THEN found ELSE add[items[m]][f[m - 1]]
  BY <1>2 DEF IsEach
<1> DEFINE D == {k \in Nat : k <= Len(items) => f[k] \in G}
<1>4. 0 \in D
  BY <1>0, <1>3
<1>5. ASSUME NEW k \in D \cap Nat PROVE k + 1 \in D
  <2> SUFFICES ASSUME k + 1 <= Len(items) PROVE f[k + 1] \in G
    OBVIOUS
  <2>1. /\ k + 1 \in 0..Len(items) /\ k + 1 # 0 /\ (k + 1) - 1 = k
        /\ f[k] \in G /\ items[k + 1] \in S
    BY <1>0
  <2>2. f[k + 1] = add[items[k + 1]][f[k]]
    BY <1>3, <2>1
  <2> QED
    BY <2>1, <2>2
<1> HIDE DEF D
<1>6. Nat \subseteq D
  BY <1>4, <1>5, Induct
<1> QED
  BY <1>0, <1>2, <1>6 DEF D

\* add_library_target with n library targets that are not being visited, given it with
\* one fewer.
AddStep(p, add, n) ==
    [i \in DOMAIN p.libraries |-> [found \in B!Found |->
        IF n = 0 THEN [found EXCEPT !.cycle = TRUE]
        ELSE B!AddLibraryTarget(p, add, found, i)]]

\* f solves the recursion of LibraryTargets up to n.
IsAdding(f, p, n) == f = [m \in 0..n |-> AddStep(p, f[m - 1], m)]

\* There is one.
LEMMA AddingExists == ASSUME NEW p PROVE \A n \in Nat : \E f : IsAdding(f, p, n)
<1> DEFINE D == {n \in Nat : \E f : IsAdding(f, p, n)}
<1>0. \A a, b : AddStep(p, a, 0) = AddStep(p, b, 0)
  BY DEF AddStep
<1>1. 0 \in D
  <2> DEFINE h == [m \in 0..0 |-> AddStep(p, 0, 0)]
  <2>1. h[0] = AddStep(p, h[0 - 1], 0)
    <3>1. h[0] = AddStep(p, 0, 0)
      OBVIOUS
    <3> HIDE DEF h
    <3> QED
      BY <1>0, <3>1
  <2>2. \A m \in 0..0 : h[m] = AddStep(p, h[m - 1], m)
    BY <2>1
  <2>3. h = [m \in 0..0 |-> h[m]]
    OBVIOUS
  <2> HIDE DEF h
  <2>4. IsAdding(h, p, 0)
    BY <2>2, <2>3, Zenon DEF IsAdding
  <2> QED
    BY <2>4
<1>2. ASSUME NEW k \in D \cap Nat PROVE k + 1 \in D
  <2>1. PICK f : IsAdding(f, p, k)
    OBVIOUS
  <2> DEFINE x == AddStep(p, f[k], k + 1)
             g == [m \in 0..(k + 1) |-> IF m = k + 1 THEN x ELSE f[m]]
  <2>2. \A m \in 0..k : f[m] = AddStep(p, f[m - 1], m)
    BY <2>1 DEF IsAdding
  <2>3. \A m \in 0..(k + 1) : g[m] = IF m = k + 1 THEN x ELSE f[m]
    OBVIOUS
  <2>4. \A m \in 0..(k + 1) : m # 0 => m - 1 \in 0..(k + 1) /\ g[m - 1] = f[m - 1] /\ (m # k + 1 => m \in 0..k)
    BY <2>3
  <2>5. \A m \in 0..(k + 1) : g[m] = AddStep(p, g[m - 1], m)
    <3> TAKE m \in 0..(k + 1)
    <3>1. CASE m = 0
      <4>1. g[m] = AddStep(p, f[m - 1], 0)
        BY <2>2, <2>3, <3>1
      <4> HIDE DEF g
      <4> QED
        BY <1>0, <3>1, <4>1
    <3>2. CASE m = k + 1
      <4>1. m - 1 = k /\ g[m - 1] = f[k] /\ g[m] = x
        BY <2>3, <2>4, <3>2
      <4> HIDE DEF g
      <4> QED
        BY <3>2, <4>1
    <3>3. CASE m # 0 /\ m # k + 1
      <4>1. g[m] = f[m] /\ m \in 0..k /\ g[m - 1] = f[m - 1]
        BY <2>3, <2>4, <3>3
      <4> HIDE DEF g
      <4> QED
        BY <2>2, <4>1
    <3> QED
      BY <3>1, <3>2, <3>3
  <2>6. g = [m \in 0..(k + 1) |-> g[m]]
    OBVIOUS
  <2> HIDE DEF g
  <2>7. IsAdding(g, p, k + 1)
    BY <2>5, <2>6, Zenon DEF IsAdding
  <2> QED
    BY <2>7
<1> QED
  <2> HIDE DEF D
  <2>1. Nat \subseteq D
    BY <1>1, <1>2, Induct
  <2> QED
    BY <2>1 DEF D

\* The entries of a list are numbers.
LEMMA Numbers ==
    ASSUME NEW n \in Nat, NEW s \in Seq(1..n)
    PROVE  s \in Seq(Nat)
<1>1. 1..n \subseteq Nat
  OBVIOUS
<1> QED
  BY <1>1, Larger

\* A collection that has met no target twice, while visiting some.
Clean(V) == {g \in B!Found : ~g.cycle /\ g.visiting = V}

\* Adding a library target, when adding its own meets none twice.
LEMMA StepClean ==
    ASSUME NEW p, PlanOK(p), NEW i \in 1..Len(p.libraries), NEW add,
           NEW V \in SUBSET Nat, \A v \in V : i < v, NEW g \in Clean(V),
           \A j \in 1..(i - 1), h \in Clean(V \cup {i}) : add[j][h] \in Clean(V \cup {i})
    PROVE  B!AddLibraryTarget(p, add, g, i) \in Clean(V)
<1> DEFINE lib == p.libraries[i]
           W == V \cup {i}
           own == [g EXCEPT !.visiting = @ \cup {i},
                            !.packages = B!AddAll(B!AddNew(@, lib.package), lib.imports)]
           deep == B!AddLibraryTargets(add, own, lib.libraries)
           last == [deep EXCEPT !.foreign = B!AddAll(@, lib.foreign),
                                !.visiting = @ \ {i}, !.visited = @ \cup {i}]
<1>1. LibOK(lib, i, Len(p.packages), Len(p.foreign)) /\ Len(p.packages) \in Nat /\ Len(p.foreign) \in Nat
  BY PlanLens DEF PlanOK, Libs
<1>2. i \in Nat /\ i \notin V
  BY PlanLens
<1>3. /\ lib.package \in Nat /\ lib.imports \in Seq(Nat) /\ lib.foreign \in Seq(Nat)
      /\ lib.libraries \in Seq(1..(i - 1))
  <2>1. lib.package \in Nat /\ lib.package - 1 \in Nat
    BY <1>1 DEF LibOK
  <2> HIDE DEF lib
  <2> QED
    BY <1>1, <2>1, Numbers DEF LibOK
<1> HIDE DEF lib
<1>4. g \in B!Found /\ ~g.cycle /\ g.visiting = V
  BY DEF Clean
<1>5. own \in Clean(W)
  <2>1. B!AddAll(B!AddNew(g.packages, lib.package), lib.imports) \in Seq(Nat)
    BY <1>3, <1>4, AddNewType, AddAllType DEF B!Found
  <2> QED
    BY <1>2, <1>4, <2>1 DEF Clean, B!Found
<1> HIDE DEF own
<1>6. deep \in Clean(W)
  <2> DEFINE G == Clean(W)
             S == 1..(i - 1)
  <2>1. \A h \in G, j \in S : add[j][h] \in G
    OBVIOUS
  <2> HIDE DEF G, S
  <2> QED
    BY <1>3, <1>5, <2>1, EachKeeps DEF G, S
<1> HIDE DEF deep
<1>7. last \in Clean(V)
  <2>1. deep \in B!Found /\ ~deep.cycle /\ deep.visiting = W
    BY <1>6 DEF Clean
  <2>2. B!AddAll(deep.foreign, lib.foreign) \in Seq(Nat)
    BY <1>3, <2>1, AddAllType DEF B!Found
  <2>3. W \ {i} = V
    BY <1>2
  <2> QED
    BY <1>2, <2>1, <2>2, <2>3 DEF Clean, B!Found
<1>8. B!AddLibraryTarget(p, add, g, i) = g \/ B!AddLibraryTarget(p, add, g, i) = last
  BY <1>2, <1>4, Zenon DEF B!AddLibraryTarget, own, deep, lib
<1> QED
  BY <1>7, <1>8

\* What adds a target's library targets: as many steps as the plan has library targets.
LEMMA AddingIs ==
    ASSUME NEW p, PlanOK(p)
    PROVE  \E f : IsAdding(f, p, Len(p.libraries)) /\ B!LibraryTargets(p) = f[Len(p.libraries)]
<1>1. B!LibraryTargets(p) = (CHOOSE f : IsAdding(f, p, Len(p.libraries)))[Len(p.libraries)]
  BY Zenon DEF B!LibraryTargets, IsAdding, AddStep
<1>2. Len(p.libraries) \in Nat
  BY PlanLens
<1> QED
  BY <1>1, <1>2, AddingExists

\* Adding a library target meets none twice when all that are being visited come after it.
LEMMA AddingClean ==
    ASSUME NEW p, PlanOK(p), NEW f, IsAdding(f, p, Len(p.libraries))
    PROVE  \A n \in Nat : n <= Len(p.libraries) =>
              \A i \in 1..n, V \in SUBSET Nat : \A g \in Clean(V) :
                 (\A v \in V : i < v) => f[n][i][g] \in Clean(V)
<1> DEFINE N == Len(p.libraries)
           Good(n) == \A i \in 1..n, V \in SUBSET Nat : \A g \in Clean(V) :
                         (\A v \in V : i < v) => f[n][i][g] \in Clean(V)
           D == {n \in Nat : n <= N => Good(n)}
<1>1. N \in Nat /\ DOMAIN p.libraries = 1..N
  BY SeqHas DEF PlanOK, Libs
<1>2. \A m \in 0..N : f[m] = AddStep(p, f[m - 1], m)
  BY DEF IsAdding
<1>3. 0 \in D
  OBVIOUS
<1>4. ASSUME NEW k \in D \cap Nat PROVE k + 1 \in D
  <2> SUFFICES ASSUME k + 1 <= N PROVE Good(k + 1)
    OBVIOUS
  <2>1. Good(k) /\ k + 1 \in 0..N /\ k + 1 # 0 /\ (k + 1) - 1 = k
    BY <1>1
  <2>2. f[k + 1] = AddStep(p, f[k], k + 1)
    BY <1>2, <2>1
  <2> SUFFICES ASSUME NEW i \in 1..(k + 1), NEW V \in SUBSET Nat, NEW g \in Clean(V), \A v \in V : i < v
               PROVE  f[k + 1][i][g] \in Clean(V)
    OBVIOUS
  <2>3. i \in 1..N /\ g \in B!Found /\ i \in DOMAIN p.libraries
    BY <1>1 DEF Clean
  <2>4. f[k + 1][i][g] = B!AddLibraryTarget(p, f[k], g, i)
    BY <2>1, <2>2, <2>3 DEF AddStep
  <2>5. ASSUME NEW j \in 1..(i - 1), NEW h \in Clean(V \cup {i})
        PROVE  f[k][j][h] \in Clean(V \cup {i})
    <3>1. j \in 1..k /\ V \cup {i} \in SUBSET Nat /\ \A v \in V \cup {i} : j < v
      <4>1. j < i /\ j \in 1..k /\ i \in Nat
        BY <1>1
      <4>2. \A v \in V : v \in Nat
        OBVIOUS
      <4> QED
        BY <4>1, <4>2
    <3> QED
      BY <2>1, <3>1
  <2> DEFINE a == f[k]
  <2> HIDE DEF a
  <2>6. \A j \in 1..(i - 1), h \in Clean(V \cup {i}) : a[j][h] \in Clean(V \cup {i})
    BY <2>5 DEF a
  <2>7. i \in 1..Len(p.libraries)
    BY <2>3
  <2>8. B!AddLibraryTarget(p, a, g, i) \in Clean(V)
    BY <2>6, <2>7, StepClean
  <2> QED
    BY <2>4, <2>8 DEF a
<1> HIDE DEF D
<1>5. Nat \subseteq D
  BY <1>3, <1>4, Induct
<1> QED
  BY <1>5 DEF D

\* The collection from an executable meets no library target twice.
LEMMA NoCycle ==
    ASSUME NEW p, PlanOK(p), NEW e \in 1..Len(p.executables)
    PROVE  ~B!TargetDependencies(p, p.executables[e]).cycle
<1> DEFINE target == p.executables[e]
           N == Len(p.libraries)
           first == [packages |-> target.imports, foreign |-> <<>>,
                     visiting |-> {}, visited |-> {}, cycle |-> FALSE]
           deep == B!AddLibraryTargets(B!LibraryTargets(p), first, target.libraries)
<1>1. /\ Len(p.packages) \in Nat /\ N \in Nat
      /\ target.imports \in Seq(Nat) /\ target.libraries \in Seq(1..N)
  <2>1. Len(p.packages) \in Nat /\ N \in Nat
    BY PlanLens
  <2>2. target.imports \in Seq(1..Len(p.packages)) /\ target.libraries \in Seq(1..N)
    BY DEF PlanOK, Exes, ExeOK
  <2> QED
    BY <2>1, <2>2, Numbers
<1>2. PICK f : IsAdding(f, p, N) /\ B!LibraryTargets(p) = f[N]
  BY AddingIs
<1> HIDE DEF target
<1>3. first \in Clean({})
  <2>1. <<>> \in Seq(Nat)
    OBVIOUS
  <2> QED
    BY <1>1, <2>1 DEF Clean, B!Found
<1> HIDE DEF first
<1> DEFINE G == Clean({})
           S == 1..N
           add == f[N]
<1>4. \A g \in G, j \in S : add[j][g] \in G
  <2>1. \A i \in 1..N, V \in SUBSET Nat : \A g \in Clean(V) : (\A v \in V : i < v) => f[N][i][g] \in Clean(V)
    <3>1. N <= N
      BY <1>1
    <3> HIDE DEF N
    <3> QED
      BY <1>1, <1>2, <3>1, AddingClean DEF N
  <2>2. {} \in SUBSET Nat
    OBVIOUS
  <2> HIDE DEF N
  <2> QED
    BY <2>1, <2>2
<1>5. deep \in G
  <2>1. first \in G /\ target.libraries \in Seq(S) /\ deep = B!AddLibraryTargets(add, first, target.libraries)
    BY <1>1, <1>2, <1>3
  <2> HIDE DEF G, S, add, deep
  <2> QED
    BY <1>4, <2>1, EachKeeps
<1>6. B!TargetDependencies(p, target) = [deep EXCEPT !.foreign = B!AddAll(@, target.foreign)]
  BY Zenon DEF B!TargetDependencies, first
<1> HIDE DEF deep
<1>7. deep \in B!Found /\ ~deep.cycle
  BY <1>5 DEF Clean
<1>8. ~B!TargetDependencies(p, target).cycle
  BY <1>6, <1>7 DEF B!Found
<1> QED
  BY <1>8 DEF target

\* A plan that is accepted has a default, from which the collection meets none twice.
LEMMA AcceptedClean ==
    ASSUME NEW s, StateOK(s), B!Accepted(s)
    PROVE  ~B!Inputs(s.plan).cycle
<1>1. PlanOK(s.plan) /\ s.plan.default \in 1..Len(s.plan.executables)
  BY PlanLens DEF StateOK, PlanOK, B!Accepted
<1>2. ~B!TargetDependencies(s.plan, s.plan.executables[s.plan.default]).cycle
  BY <1>1, NoCycle
<1>3. B!Inputs(s.plan).cycle = B!TargetDependencies(s.plan, s.plan.executables[s.plan.default]).cycle
  BY DEF B!Inputs
<1> QED
  BY <1>2, <1>3

-----------------------------------------------------------------------------
(* Calls, and the calls that a plan is written as.                         *)

\* f is a function.
IsFun(f) == f = [x \in DOMAIN f |-> f[x]]

\* Arguments that do not name the call, completed.
LEMMA CallIs ==
    ASSUME NEW m, NEW args, "call" \notin DOMAIN args,
           "imports" \in DOMAIN args => IsSeq(args.imports)
    PROVE  CallOK(B!Call(m, args))
<1> DEFINE no == B!NoArgs(m)
           c == B!Call(m, args)
           F == DOMAIN args \cup DOMAIN no
<1>1. /\ no.call = m /\ no.imports = <<>> /\ "call" \in DOMAIN no /\ "imports" \in DOMAIN no
      /\ \A k : DOMAIN B!NoArgs(k) = DOMAIN no /\ B!NoArgs(k).call = k
      /\ \A k : \A x \in DOMAIN no \ {"call"} : B!NoArgs(k)[x] = no[x]
  <2> DEFINE N == {"call", "bind", "on", "name", "root", "package", "abi", "imports", "of"}
  <2>1. \A k : DOMAIN B!NoArgs(k) = N
    BY DEF B!NoArgs
  <2>2. \A k : B!NoArgs(k).call = k /\ B!NoArgs(k).imports = <<>>
    BY DEF B!NoArgs
  <2>3. ASSUME NEW k PROVE \A x \in N \ {"call"} : B!NoArgs(k)[x] = B!NoArgs(m)[x]
    <3> DEFINE a == B!NoArgs(k)
               b == B!NoArgs(m)
    <3>1. a.bind = b.bind /\ a.on = b.on /\ a.name = b.name /\ a.root = b.root
      BY DEF B!NoArgs
    <3>2. a.package = b.package /\ a.abi = b.abi /\ a.imports = b.imports /\ a.of = b.of
      BY DEF B!NoArgs
    <3> HIDE DEF a, b
    <3>3. \A x \in N \ {"call"} : a[x] = b[x]
      BY <3>1, <3>2
    <3> QED
      BY <3>3 DEF a, b
  <2> QED
    BY <2>1, <2>2, <2>3
<1>2. c = [x \in F |-> IF x \in DOMAIN args THEN args[x] ELSE no[x]]
  BY Zenon DEF B!Call, B!Over
<1>0. \A d : B!Call(m, d) = [x \in DOMAIN d \cup DOMAIN no |-> IF x \in DOMAIN d THEN d[x] ELSE no[x]]
  BY Zenon DEF B!Call, B!Over
<1> HIDE DEF no, c
<1>3. DOMAIN c = F /\ c.call = m
  BY <1>1, <1>2
<1>4. IsSeq(c.imports)
  <2>1. IsSeq(<<>>)
    <3>1. <<>> \in Seq({})
      OBVIOUS
    <3> QED
      BY <3>1, SeqIs
  <2>2. c.imports = IF "imports" \in DOMAIN args THEN args.imports ELSE no.imports
    BY <1>1, <1>2
  <2> QED
    BY <1>1, <2>1, <2>2
<1>5. B!Call(m, c) = [x \in DOMAIN c \cup DOMAIN no |-> IF x \in DOMAIN c THEN c[x] ELSE no[x]]
  BY <1>0
<1>6. DOMAIN c \cup DOMAIN no = F
  BY <1>3
<1>7. B!Call(m, c) = [x \in F |-> c[x]]
  BY <1>3, <1>5, <1>6
<1>8. c = [x \in F |-> c[x]]
  BY <1>2
<1>9. c = B!Call(c.call, c)
  BY <1>3, <1>7, <1>8
<1> QED
  BY <1>4, <1>9 DEF CallOK, c

\* A file of calls.
AllOK(s) == IsSeq(s) /\ \A i \in 1..Len(s) : CallOK(s[i])

\* One without calls.
LEMMA NoneOK == AllOK(<<>>)
<1>1. <<>> \in Seq({}) /\ Len(<<>>) = 0
  OBVIOUS
<1>2. IsSeq(<<>>)
  BY <1>1, SeqIs
<1> QED
  BY <1>1, <1>2 DEF AllOK

\* One of one call.
LEMMA OneOK == ASSUME NEW c, CallOK(c) PROVE AllOK(<<c>>)
<1>1. <<c>> \in Seq({c}) /\ Len(<<c>>) = 1 /\ <<c>>[1] = c
  OBVIOUS
<1>2. IsSeq(<<c>>)
  BY <1>1, SeqIs
<1>3. \A i \in 1..1 : i = 1
  OBVIOUS
<1> HIDE DEF CallOK
<1> QED
  BY <1>1, <1>2, <1>3 DEF AllOK

\* The calls of two files.
LEMMA CatOK == ASSUME NEW s, NEW t, AllOK(s), AllOK(t) PROVE AllOK(s \o t)
<1>1. IsSeq(s) /\ IsSeq(t) /\ (\A i \in 1..Len(s) : CallOK(s[i])) /\ (\A i \in 1..Len(t) : CallOK(t[i]))
  BY Zenon DEF AllOK
<1>2. /\ IsSeq(s \o t)
      /\ \A i \in 1..Len(s \o t) : \/ i \in 1..Len(s) /\ (s \o t)[i] = s[i]
                                   \/ i - Len(s) \in 1..Len(t) /\ (s \o t)[i] = t[i - Len(s)]
  BY <1>1, SeqCat
<1> DEFINE u == s \o t
<1> HIDE DEF u, CallOK
<1>3. \A i \in 1..Len(u) : CallOK(u[i])
  BY <1>1, <1>2, Zenon DEF u
<1>4. AllOK(u)
  BY <1>2, <1>3, Zenon DEF AllOK, u
<1> QED
  BY <1>4 DEF u

\* One call for each of n things.
LEMMA EachOK ==
    ASSUME NEW n \in Nat, NEW f, f = [i \in 1..n |-> f[i]], \A i \in 1..n : CallOK(f[i])
    PROVE  AllOK(f)
BY SeqFrom DEF AllOK

\* Two calls for each of n things.
LEMMA TwoEachOK ==
    ASSUME NEW n \in Nat, NEW f, f = [i \in 1..n |-> f[i]], NEW g, NEW h,
           \A i \in 1..n : f[i] = <<g[i], h[i]>> /\ CallOK(g[i]) /\ CallOK(h[i])
    PROVE  AllOK(B!FlattenSeq(f))
<1> DEFINE X == {g[i] : i \in 1..n} \cup {h[i] : i \in 1..n}
           Y == Seq(X)
<1>1. \A i \in 1..n : f[i] \in Y
  <2> TAKE i \in 1..n
  <2>1. g[i] \in X /\ h[i] \in X
    OBVIOUS
  <2> HIDE DEF X
  <2>2. <<g[i], h[i]>> \in Seq(X)
    BY <2>1
  <2> QED
    BY <2>2
<1>2. f \in Seq(Y)
  <2> HIDE DEF Y
  <2>1. f \in [1..n -> Y]
    BY <1>1
  <2> QED
    BY <2>1, SeqOver
<1>3. B!FlattenSeq(f) = FlattenSeq(f)
  BY Zenon DEF B!FlattenSeq, FlattenSeq
<1> HIDE DEF X
<1>4. FlattenSeq(f) \in Seq(X)
  BY <1>2, FlatType
<1> DEFINE r == B!FlattenSeq(f)
<1>5. r \in Seq(X)
  BY <1>3, <1>4
<1> HIDE DEF r
<1>6. IsSeq(r) /\ \A i \in 1..Len(r) : r[i] \in X
  BY <1>5, SeqIs
<1>7. \A c \in X : CallOK(c)
  BY Zenon DEF X
<1>8. AllOK(r)
  BY <1>6, <1>7 DEF AllOK
<1> QED
  BY <1>8 DEF r

\* The names of the imports of a target.
LEMMA ImportNamesIs ==
    ASSUME NEW t, IsSeq(t.imports), IsSeq(t.libraries), IsSeq(t.foreign), NEW bound
    PROVE  IsSeq(B!ImportNames(t, bound))
<1> DEFINE a == [i \in DOMAIN t.imports |-> bound.package[t.imports[i]]]
           b == [i \in DOMAIN t.libraries |-> bound.library[t.libraries[i]]]
           c == [i \in DOMAIN t.foreign |-> bound.foreign[t.foreign[i]]]
<1>1. /\ DOMAIN t.imports = 1..Len(t.imports) /\ Len(t.imports) \in Nat
      /\ DOMAIN t.libraries = 1..Len(t.libraries) /\ Len(t.libraries) \in Nat
      /\ DOMAIN t.foreign = 1..Len(t.foreign) /\ Len(t.foreign) \in Nat
  BY SeqHas
<1>2. /\ a = [i \in 1..Len(t.imports) |-> a[i]] /\ b = [i \in 1..Len(t.libraries) |-> b[i]]
      /\ c = [i \in 1..Len(t.foreign) |-> c[i]]
  BY <1>1
<1>3. B!ImportNames(t, bound) = (a \o b) \o c
  BY Zenon DEF B!ImportNames
<1> HIDE DEF a, b, c
<1>4. IsSeq(a) /\ IsSeq(b) /\ IsSeq(c)
  BY <1>1, <1>2, SeqFrom
<1>5. IsSeq(a \o b)
  BY <1>4, SeqCat
<1>6. IsSeq((a \o b) \o c)
  BY <1>4, <1>5, SeqCat
<1> QED
  BY <1>3, <1>6

\* The lists of a target of a plan.
LEMMA TargetLists ==
    ASSUME NEW p, PlanOK(p)
    PROVE  /\ \A i \in 1..Len(p.libraries) :
                 /\ IsSeq(p.libraries[i].imports) /\ IsSeq(p.libraries[i].libraries)
                 /\ IsSeq(p.libraries[i].foreign)
           /\ \A i \in 1..Len(p.executables) :
                 /\ IsSeq(p.executables[i].imports) /\ IsSeq(p.executables[i].libraries)
                 /\ IsSeq(p.executables[i].foreign)
<1>1. ASSUME NEW i \in 1..Len(p.libraries)
      PROVE  /\ IsSeq(p.libraries[i].imports) /\ IsSeq(p.libraries[i].libraries)
             /\ IsSeq(p.libraries[i].foreign)
  <2>1. LibOK(p.libraries[i], i, Len(p.packages), Len(p.foreign))
    BY DEF PlanOK, Libs
  <2> QED
    BY <2>1, SeqIs DEF LibOK
<1>2. ASSUME NEW i \in 1..Len(p.executables)
      PROVE  /\ IsSeq(p.executables[i].imports) /\ IsSeq(p.executables[i].libraries)
             /\ IsSeq(p.executables[i].foreign)
  <2>1. ExeOK(p.executables[i], Len(p.packages), Len(p.libraries), Len(p.foreign))
    BY DEF PlanOK, Exes
  <2> QED
    BY <2>1, SeqIs DEF ExeOK
<1> QED
  BY <1>1, <1>2

\* The call of a package.
LEMMA PackageCallIs == ASSUME NEW p, NEW bound, NEW i PROVE CallOK(B!PackageCall(p, bound, i))
<1> DEFINE args == [bind |-> bound.package[i], root |-> p.packages[i].root, name |-> p.packages[i].name]
           m == IF p.packages[i].name = B!NoName THEN "createPackage" ELSE "addPackage"
<1>1. "call" \notin DOMAIN args /\ "imports" \notin DOMAIN args
  OBVIOUS
<1>2. B!PackageCall(p, bound, i) = B!Call(m, args)
  BY Zenon DEF B!PackageCall
<1> HIDE DEF args, m
<1>3. CallOK(B!Call(m, args))
  BY <1>1, CallIs
<1> QED
  BY <1>2, <1>3

\* The call of a foreign library.
LEMMA ForeignCallIs == ASSUME NEW p, NEW bound, NEW i PROVE CallOK(B!ForeignCall(p, bound, i))
<1> DEFINE args == [bind |-> bound.foreign[i], name |-> p.foreign[i].name,
                    abi |-> IF p.foreign[i].abi = "string" THEN "ident" ELSE p.foreign[i].abi]
<1>1. "call" \notin DOMAIN args /\ "imports" \notin DOMAIN args
  OBVIOUS
<1>2. B!ForeignCall(p, bound, i) = B!Call("linkLibrary", args)
  BY Zenon DEF B!ForeignCall
<1> HIDE DEF args
<1>3. CallOK(B!Call("linkLibrary", args))
  BY <1>1, CallIs
<1> QED
  BY <1>2, <1>3

\* The call of a library target.
LEMMA LibraryCallIs ==
    ASSUME NEW p, PlanOK(p), NEW bound, NEW i \in 1..Len(p.libraries)
    PROVE  CallOK(B!LibraryCall(p, bound, i))
<1> DEFINE lib == p.libraries[i]
           pkg == p.packages[lib.package]
           names == B!ImportNames(lib, bound)
           args == [bind |-> bound.library[i], name |-> lib.name, root |-> pkg.root,
                    package |-> IF pkg.name = lib.name THEN B!NoName ELSE pkg.name,
                    imports |-> names]
<1>0. IsSeq(names)
  BY TargetLists, ImportNamesIs
<1>1. "call" \notin DOMAIN args /\ args.imports = names
  OBVIOUS
<1>2. B!LibraryCall(p, bound, i) = B!Call("addLibrary", args)
  BY Zenon DEF B!LibraryCall
<1> HIDE DEF args, names
<1>3. CallOK(B!Call("addLibrary", args))
  BY <1>0, <1>1, CallIs
<1> QED
  BY <1>2, <1>3

\* The calls of an executable and its entry.
LEMMA ExecutableCallsAre ==
    ASSUME NEW p, PlanOK(p), NEW bound, NEW i \in 1..Len(p.executables)
    PROVE  /\ B!ExecutableCalls(p, bound, i) =
                <<B!Call("createEntry", [bind |-> bound.entry[i]]),
                  B!Call("addExecutable", [bind |-> bound.executable[i], name |-> p.executables[i].name,
                                           imports |-> B!ImportNames(p.executables[i], bound)])>>
           /\ CallOK(B!Call("createEntry", [bind |-> bound.entry[i]]))
           /\ CallOK(B!Call("addExecutable", [bind |-> bound.executable[i], name |-> p.executables[i].name,
                                              imports |-> B!ImportNames(p.executables[i], bound)]))
<1> DEFINE exe == p.executables[i]
           names == B!ImportNames(exe, bound)
           args == [bind |-> bound.executable[i], name |-> exe.name, imports |-> names]
           bind == [bind |-> bound.entry[i]]
<1>0. IsSeq(names)
  BY TargetLists, ImportNamesIs
<1>1. /\ "call" \notin DOMAIN args /\ args.imports = names
      /\ "call" \notin DOMAIN bind /\ "imports" \notin DOMAIN bind
  OBVIOUS
<1>2. B!ExecutableCalls(p, bound, i) = <<B!Call("createEntry", bind), B!Call("addExecutable", args)>>
  BY Zenon DEF B!ExecutableCalls
<1> HIDE DEF args, bind, names
<1>3. CallOK(B!Call("addExecutable", args)) /\ CallOK(B!Call("createEntry", bind))
  BY <1>0, <1>1, CallIs
<1> QED
  BY <1>2, <1>3, Zenon DEF args, bind, names

\* The call that makes an executable the default.
LEMMA InstallCallsAre == ASSUME NEW p, NEW bound PROVE AllOK(B!InstallCalls(p, bound))
<1> DEFINE args == [of |-> bound.executable[p.default]]
           c == B!Call("install", args)
<1>1. "call" \notin DOMAIN args /\ "imports" \notin DOMAIN args
  OBVIOUS
<1>2. B!InstallCalls(p, bound) = <<>> \/ B!InstallCalls(p, bound) = <<c>>
  BY DEF B!InstallCalls
<1> HIDE DEF args
<1>3. CallOK(c)
  BY <1>1, CallIs
<1> QED
  BY <1>2, <1>3, NoneOK, OneOK

\* A plan is written as a file of calls.
LEMMA RenderOK == ASSUME NEW p, PlanOK(p) PROVE AllOK(B!Render(p))
<1> DEFINE bound == B!Bindings(p)
           s1 == [i \in DOMAIN p.packages |-> B!PackageCall(p, bound, i)]
           s2 == [i \in DOMAIN p.foreign |-> B!ForeignCall(p, bound, i)]
           s3 == [i \in DOMAIN p.libraries |-> B!LibraryCall(p, bound, i)]
           s4 == [i \in DOMAIN p.executables |-> B!ExecutableCalls(p, bound, i)]
           s5 == B!InstallCalls(p, bound)
           g == [i \in DOMAIN p.executables |-> B!Call("createEntry", [bind |-> bound.entry[i]])]
           h == [i \in DOMAIN p.executables |->
                   B!Call("addExecutable", [bind |-> bound.executable[i], name |-> p.executables[i].name,
                                            imports |-> B!ImportNames(p.executables[i], bound)])]
<1>1. /\ Len(p.packages) \in Nat /\ DOMAIN p.packages = 1..Len(p.packages)
      /\ Len(p.foreign) \in Nat /\ DOMAIN p.foreign = 1..Len(p.foreign)
      /\ Len(p.libraries) \in Nat /\ DOMAIN p.libraries = 1..Len(p.libraries)
      /\ Len(p.executables) \in Nat /\ DOMAIN p.executables = 1..Len(p.executables)
  BY SeqHas DEF PlanOK, Libs, Exes
<1>2. B!Render(p) = (((s1 \o s2) \o s3) \o B!FlattenSeq(s4)) \o s5
  BY Zenon DEF B!Render
<1> HIDE DEF bound
<1>3. AllOK(s1)
  <2>1. s1 = [i \in 1..Len(p.packages) |-> s1[i]] /\ \A i \in 1..Len(p.packages) : CallOK(s1[i])
    BY <1>1, PackageCallIs
  <2> HIDE DEF s1
  <2> QED
    BY <1>1, <2>1, EachOK
<1>4. AllOK(s2)
  <2>1. s2 = [i \in 1..Len(p.foreign) |-> s2[i]] /\ \A i \in 1..Len(p.foreign) : CallOK(s2[i])
    BY <1>1, ForeignCallIs
  <2> HIDE DEF s2
  <2> QED
    BY <1>1, <2>1, EachOK
<1>5. AllOK(s3)
  <2>1. s3 = [i \in 1..Len(p.libraries) |-> s3[i]] /\ \A i \in 1..Len(p.libraries) : CallOK(s3[i])
    BY <1>1, LibraryCallIs
  <2> HIDE DEF s3
  <2> QED
    BY <1>1, <2>1, EachOK
<1>6. AllOK(B!FlattenSeq(s4))
  <2> DEFINE n == Len(p.executables)
  <2>1. s4 = [i \in 1..n |-> s4[i]]
    BY <1>1
  <2>2. \A i \in 1..n : s4[i] = <<g[i], h[i]>> /\ CallOK(g[i]) /\ CallOK(h[i])
    BY <1>1, ExecutableCallsAre
  <2> HIDE DEF s4, g, h
  <2> QED
    BY <1>1, <2>1, <2>2, TwoEachOK
<1>7. AllOK(s5)
  BY InstallCallsAre
<1> HIDE DEF s1, s2, s3, s4, s5
<1> DEFINE s6 == B!FlattenSeq(s4)
<1> HIDE DEF s6
<1>8. AllOK(s1 \o s2)
  BY <1>3, <1>4, CatOK
<1>9. AllOK((s1 \o s2) \o s3)
  BY <1>5, <1>8, CatOK
<1>10. AllOK(((s1 \o s2) \o s3) \o s6)
  BY <1>6, <1>9, CatOK DEF s6
<1>11. AllOK((((s1 \o s2) \o s3) \o s6) \o s5)
  BY <1>7, <1>10, CatOK
<1> QED
  BY <1>2, <1>11 DEF s6

-----------------------------------------------------------------------------
(* The commands.                                                           *)

\* The plan of mesa init.
LEMMA DefaultPlanOK == ASSUME NEW name PROVE PlanOK(B!DefaultPlan(name))
<1> DEFINE e == [name |-> name, package |-> 0, imports |-> <<1>>, libraries |-> <<>>, foreign |-> <<>>]
           p == B!DefaultPlan(name)
<1>1. /\ <<>> \in Seq({}) /\ Len(<<>>) = 0 /\ <<B!Std>> \in Seq({B!Std}) /\ Len(<<B!Std>>) = 1
      /\ <<1>> \in Seq(1..1) /\ <<>> \in Seq(1..0)
  OBVIOUS
<1>2. DOMAIN e = TargetFields /\ e.imports = <<1>> /\ e.libraries = <<>> /\ e.foreign = <<>>
  BY DEF TargetFields
<1>3. /\ DOMAIN p = PlanFields /\ p.packages = <<B!Std>> /\ p.foreign = <<>> /\ p.libraries = <<>>
      /\ p.executables = <<e>> /\ p.default = 1
  BY DEF B!DefaultPlan, B!EmptyPlan, PlanFields
<1> HIDE DEF e, p
<1>4. <<e>> \in Seq({e}) /\ Len(<<e>>) = 1 /\ <<e>>[1] = e
  OBVIOUS
<1>5. IsSeq(<<>>) /\ IsSeq(<<B!Std>>) /\ IsSeq(<<e>>)
  BY <1>1, <1>4, SeqIs
<1>6. Libs(<<>>, 1, 0)
  BY <1>1, <1>5 DEF Libs
<1>7. Exes(<<e>>, 1, 0, 0)
  <2>1. ExeOK(e, 1, 0, 0)
    BY <1>1, <1>2 DEF ExeOK
  <2>2. \A i \in 1..1 : i = 1
    OBVIOUS
  <2> QED
    BY <1>4, <1>5, <2>1, <2>2 DEF Exes
<1>8. 1 \in 0..1
  OBVIOUS
<1>9. PlanOK(p)
  BY <1>1, <1>3, <1>4, <1>5, <1>6, <1>7, <1>8 DEF PlanOK
<1> QED
  BY <1>9 DEF p

\* The plan of mesa pkg add.
LEMMA WithPackageOK ==
    ASSUME NEW p, PlanOK(p), p.default # 0, NEW spec
    PROVE  PlanOK(B!WithPackage(p, spec))
<1> DEFINE e == p.default
           x == p.executables[e]
           n == Len(p.packages) + 1
           p1 == [p EXCEPT !.packages = Append(@, spec)]
           y == [x EXCEPT !.imports = B!AddNew(@, n)]
           fs == [p.executables EXCEPT ![e] = y]
           q == B!WithPackage(p, spec)
<1>0. DOMAIN p = PlanFields
  BY DEF PlanOK
<1>1. PlanOK(p1) /\ Len(p1.packages) = n
  <2>1. But(p1, p, "packages") /\ p1.packages = Append(p.packages, spec)
    BY <1>0 DEF But, PlanFields
  <2> HIDE DEF p1
  <2> QED
    BY <2>1, PlanPackage
<1>2. /\ DOMAIN q = PlanFields /\ q.packages = p1.packages /\ q.foreign = p1.foreign
      /\ q.libraries = p1.libraries /\ q.default = p1.default /\ q.executables = fs
      /\ p1.executables = p.executables
  BY <1>0 DEF B!WithPackage, PlanFields
<1> HIDE DEF q, p1
<1>3. Len(p.packages) \in Nat /\ e \in 1..Len(p.executables)
  BY PlanLens DEF PlanOK
<1>4. /\ DOMAIN p.executables = 1..Len(p.executables) /\ Len(p.executables) \in Nat
      /\ \A i \in 1..Len(p.executables) :
            ExeOK(p.executables[i], n, Len(p1.libraries), Len(p1.foreign))
  BY <1>1, <1>2, SeqHas DEF PlanOK, Exes
<1>5. ExeOK(x, n, Len(p1.libraries), Len(p1.foreign))
  BY <1>3, <1>4
<1>6. ExeOK(y, n, Len(p1.libraries), Len(p1.foreign))
  <2>1. B!AddNew(x.imports, n) \in Seq(1..n)
    <3>1. x.imports \in Seq(1..n) /\ n \in 1..n
      BY <1>3, <1>5 DEF ExeOK
    <3> QED
      BY <3>1, AddNewType
  <2> QED
    BY <1>5, <2>1 DEF ExeOK, TargetFields
<1> HIDE DEF x, y
<1>7. /\ fs = [i \in 1..Len(p.executables) |-> fs[i]]
      /\ \A i \in 1..Len(p.executables) : fs[i] = IF i = e THEN y ELSE p.executables[i]
  BY <1>4
<1> HIDE DEF fs, n
<1>8. IsSeq(fs) /\ Len(fs) = Len(p.executables)
  BY <1>4, <1>7, SeqFrom
<1>9. \A i \in 1..Len(p.executables) : ExeOK(fs[i], n, Len(p1.libraries), Len(p1.foreign))
  BY <1>4, <1>6, <1>7
<1>10. But(q, p1, "executables")
  BY <1>2 DEF But, PlanFields
<1>11. PlanOK(q)
  BY <1>1, <1>2, <1>8, <1>9, <1>10, PlanChanged
<1> QED
  BY <1>11 DEF q

-----------------------------------------------------------------------------
(* The invariant of the build.                                             *)

Commands == {"none", "init", "added", "invalid", "built", "no root"}
Directories == {B!Std.root} \cup {s.root : s \in Specs}

BuildInv ==
    /\ StateOK(read)
    /\ file = B!Missing \/ AllOK(file)
    /\ dirs \subseteq Directories
    /\ commands \in 0..MaxCommands
    /\ said.cmd \in Commands

\* It holds at first.
LEMMA BuildInit == B!Init => BuildInv
<1> SUFFICES ASSUME B!Init PROVE BuildInv
  OBVIOUS
<1>1. file = B!Missing /\ read = B!Start /\ dirs = {B!Std.root} /\ commands = 0 /\ said = [cmd |-> "none"]
  BY DEF B!Init
<1>2. said.cmd \in Commands
  BY <1>1 DEF Commands
<1>3. commands \in 0..MaxCommands
  BY <1>1, CommandsAssumption
<1> QED
  BY <1>1, <1>2, <1>3, StartOK DEF BuildInv, Directories

\* What a call written by hand leaves.
LEMMA WriteOK ==
    ASSUME BuildInv, NEW call, CallOK(call), B!Write(call) PROVE BuildInv'
<1>1. AllOK(B!Calls)
  BY NoneOK DEF B!Calls, BuildInv
<1>2. AllOK(Append(B!Calls, call))
  <2> DEFINE s == B!Calls
             t == Append(s, call)
  <2>1. IsSeq(s) /\ \A i \in 1..Len(s) : CallOK(s[i])
    BY <1>1 DEF AllOK
  <2> HIDE DEF s
  <2>2. /\ IsSeq(t) /\ Len(s) \in Nat /\ Len(t) = Len(s) + 1
        /\ (\A i \in 1..Len(s) : t[i] = s[i]) /\ t[Len(s) + 1] = call
    BY <2>1, SeqMore
  <2> HIDE DEF t, CallOK
  <2>3. \A i \in 1..Len(t) : i \in 1..Len(s) \/ i = Len(s) + 1
    BY <2>2
  <2>4. \A i \in 1..Len(t) : CallOK(t[i])
    BY <2>1, <2>2, <2>3
  <2>5. AllOK(t)
    BY <2>2, <2>4 DEF AllOK
  <2> QED
    BY <2>5 DEF t, s
<1>3. StateOK(B!EvalCall(read, call))
  BY EvalOK DEF BuildInv, CallOK
<1>4. /\ file' = Append(B!Calls, call) /\ read' = B!EvalCall(read, call) /\ said' = [cmd |-> "none"]
      /\ dirs' = dirs /\ commands' = commands
  BY DEF B!Write
<1>5. said'.cmd \in Commands
  BY <1>4 DEF Commands
<1> QED
  BY <1>2, <1>3, <1>4, <1>5 DEF BuildInv

\* Any of these calls.
LEMMA WritesOK ==
    ASSUME BuildInv,
           \/ B!WritePackage \/ B!WriteForeign \/ B!WriteLibrary \/ B!WriteExecutable
           \/ B!WriteInstall \/ B!WriteAttach
    PROVE  BuildInv'
<1>1. ASSUME NEW names \in B!SmallImports PROVE IsSeq(names)
  <2>1. names = <<>> \/ (\E x : names = <<x>>) \/ \E x, y : names = <<x, y>>
    BY DEF B!SmallImports
  <2>2. <<>> \in Seq({}) /\ (\A x : <<x>> \in Seq({x})) /\ \A x, y : <<x, y>> \in Seq({x, y})
    OBVIOUS
  <2> QED
    BY <2>1, <2>2, SeqIs
<1>2. CASE B!WritePackage
  <2>1. PICK spec \in Specs :
           B!Write(B!Call(IF spec.name = B!NoName THEN "createPackage" ELSE "addPackage",
                          [bind |-> B!NewBinding, root |-> spec.root, name |-> spec.name]))
    BY <1>2, Zenon DEF B!WritePackage
  <2> DEFINE args == [bind |-> B!NewBinding, root |-> spec.root, name |-> spec.name]
  <2>2. "call" \notin DOMAIN args /\ "imports" \notin DOMAIN args
    OBVIOUS
  <2> HIDE DEF args
  <2> DEFINE c == B!Call(IF spec.name = B!NoName THEN "createPackage" ELSE "addPackage", args)
  <2>3. CallOK(c)
    BY <2>2, CallIs
  <2>4. B!Write(c)
    BY <2>1, Zenon DEF args
  <2> QED
    BY <2>3, <2>4, WriteOK
<1>3. CASE B!WriteForeign
  <2>1. PICK abi : B!Write(B!Call("linkLibrary",
                                  [bind |-> B!NewBinding, name |-> ForeignName, abi |-> abi]))
    BY <1>3, Zenon DEF B!WriteForeign
  <2> DEFINE args == [bind |-> B!NewBinding, name |-> ForeignName, abi |-> abi]
  <2>2. "call" \notin DOMAIN args /\ "imports" \notin DOMAIN args
    OBVIOUS
  <2> HIDE DEF args
  <2> DEFINE c == B!Call("linkLibrary", args)
  <2>3. CallOK(c)
    BY <2>2, CallIs
  <2>4. B!Write(c)
    BY <2>1, Zenon DEF args
  <2> QED
    BY <2>3, <2>4, WriteOK
<1>4. CASE B!WriteLibrary
  <2>1. PICK spec \in Specs, names \in B!SmallImports :
           B!Write(B!Call("addLibrary", [bind |-> B!NewBinding, name |-> spec.name, root |-> spec.root,
                                         imports |-> names]))
    BY <1>4, Zenon DEF B!WriteLibrary
  <2> DEFINE args == [bind |-> B!NewBinding, name |-> spec.name, root |-> spec.root, imports |-> names]
  <2>2. "call" \notin DOMAIN args /\ args.imports = names
    OBVIOUS
  <2> HIDE DEF args
  <2> DEFINE c == B!Call("addLibrary", args)
  <2>3. CallOK(c)
    BY <1>1, <2>2, CallIs
  <2>4. B!Write(c)
    BY <2>1, Zenon DEF args
  <2> QED
    BY <2>3, <2>4, WriteOK
<1>5. CASE B!WriteExecutable
  <2>1. PICK l \in Labels, names \in B!SmallImports :
           B!Write(B!Call("addExecutable", [bind |-> B!NewBinding, name |-> l, imports |-> names]))
    BY <1>5, Zenon DEF B!WriteExecutable
  <2> DEFINE args == [bind |-> B!NewBinding, name |-> l, imports |-> names]
  <2>2. "call" \notin DOMAIN args /\ args.imports = names
    OBVIOUS
  <2> HIDE DEF args
  <2> DEFINE c == B!Call("addExecutable", args)
  <2>3. CallOK(c)
    BY <1>1, <2>2, CallIs
  <2>4. B!Write(c)
    BY <2>1, Zenon DEF args
  <2> QED
    BY <2>3, <2>4, WriteOK
<1>6. CASE B!WriteInstall
  <2>1. PICK x : B!Write(B!Call("install", [of |-> x]))
    BY <1>6, Zenon DEF B!WriteInstall
  <2> DEFINE args == [of |-> x]
  <2>2. "call" \notin DOMAIN args /\ "imports" \notin DOMAIN args
    OBVIOUS
  <2> HIDE DEF args
  <2> DEFINE c == B!Call("install", args)
  <2>3. CallOK(c)
    BY <2>2, CallIs
  <2>4. B!Write(c)
    BY <2>1, Zenon DEF args
  <2> QED
    BY <2>3, <2>4, WriteOK
<1>7. CASE B!WriteAttach
  <2>1. PICK exe, x, method : B!Write(B!Call(method, [on |-> exe, of |-> x]))
    BY <1>7, Zenon DEF B!WriteAttach
  <2> DEFINE args == [on |-> exe, of |-> x]
  <2>2. "call" \notin DOMAIN args /\ "imports" \notin DOMAIN args
    OBVIOUS
  <2> HIDE DEF args
  <2> DEFINE c == B!Call(method, args)
  <2>3. CallOK(c)
    BY <2>2, CallIs
  <2>4. B!Write(c)
    BY <2>1, Zenon DEF args
  <2> QED
    BY <2>3, <2>4, WriteOK
<1> QED
  BY <1>2, <1>3, <1>4, <1>5, <1>6, <1>7

\* A plan that is written.
LEMMA HoldsOK ==
    ASSUME NEW p, PlanOK(p), B!Holds(B!Render(p)) PROVE StateOK(read') /\ AllOK(file')
<1>1. AllOK(B!Render(p))
  BY RenderOK
<1>2. StateOK(B!Evaluated(B!Render(p)))
  BY <1>1, EvaluatedOK DEF AllOK, CallOK
<1> QED
  BY <1>1, <1>2 DEF B!Holds

\* An answer of a command.
LEMMA AnswerOK ==
    ASSUME BuildInv, NEW a, a.cmd \in Commands, B!Answer(a)
    PROVE  commands' \in 0..MaxCommands /\ said'.cmd \in Commands
<1>1. commands \in 0..MaxCommands
  BY DEF BuildInv
<1>2. commands < MaxCommands /\ commands' = commands + 1 /\ said' = a
  BY DEF B!Answer
<1>3. commands' \in 0..MaxCommands
  BY <1>1, <1>2, CommandsAssumption
<1> QED
  BY <1>2, <1>3

\* Every command keeps it.
LEMMA BuildStep == ASSUME BuildInv, B!Next PROVE BuildInv'
<1>0. /\ [cmd |-> "init"].cmd \in Commands /\ [cmd |-> "invalid"].cmd \in Commands
      /\ [cmd |-> "built"].cmd \in Commands /\ [cmd |-> "no root"].cmd \in Commands
      /\ \A spec, new, before :
            [cmd |-> "added", spec |-> spec, new |-> new, before |-> before].cmd \in Commands
  BY DEF Commands
<1>1. ASSUME NEW l \in Labels, B!MesaInit(l) PROVE BuildInv'
  <2>1. /\ B!Holds(B!Render(B!DefaultPlan(l))) /\ dirs' = dirs
        /\ B!Answer([cmd |-> "init"])
    BY <1>1 DEF B!MesaInit
  <2>2. StateOK(read') /\ AllOK(file')
    BY <2>1, DefaultPlanOK, HoldsOK
  <2>3. commands' \in 0..MaxCommands /\ said'.cmd \in Commands
    BY <1>0, <2>1, AnswerOK
  <2> QED
    BY <2>1, <2>2, <2>3 DEF BuildInv
<1>2. ASSUME NEW spec \in Specs, B!PkgAdd(spec) PROVE BuildInv'
  <2>1. CASE B!Loads
    <3> DEFINE new == ~B!Contains(B!Plan.packages, spec)
    <3>1. /\ dirs' = dirs \cup {spec.root}
          /\ IF new THEN B!Holds(B!Render(B!WithPackage(B!Plan, spec))) ELSE UNCHANGED <<file, read>>
          /\ B!Answer([cmd |-> "added", spec |-> spec, new |-> new, before |-> B!Inputs(B!Plan)])
      BY <1>2, <2>1 DEF B!PkgAdd
    <3> HIDE DEF new
    <3>2. dirs' \subseteq Directories
      BY <3>1 DEF BuildInv, Directories
    <3>3. commands' \in 0..MaxCommands /\ said'.cmd \in Commands
      BY <1>0, <3>1, AnswerOK
    <3>4. CASE new
      <4>1. PlanOK(B!Plan) /\ B!Plan.default # 0
        BY <2>1 DEF BuildInv, StateOK, B!Plan, B!Loads, B!Accepted
      <4>2. PlanOK(B!WithPackage(B!Plan, spec))
        BY <4>1, WithPackageOK
      <4>3. StateOK(read') /\ AllOK(file')
        BY <3>1, <3>4, <4>2, HoldsOK
      <4> QED
        BY <3>2, <3>3, <4>3 DEF BuildInv
    <3>5. CASE ~new
      BY <3>1, <3>2, <3>3, <3>5 DEF BuildInv
    <3> QED
      BY <3>4, <3>5
  <2>2. CASE ~B!Loads
    <3>1. /\ file' = file /\ read' = read /\ dirs' = dirs
          /\ B!Answer([cmd |-> "invalid"])
      BY <1>2, <2>2 DEF B!PkgAdd
    <3>2. commands' \in 0..MaxCommands /\ said'.cmd \in Commands
      BY <1>0, <3>1, AnswerOK
    <3> QED
      BY <3>1, <3>2 DEF BuildInv
  <2> QED
    BY <2>1, <2>2
<1>3. CASE B!Build
  <2> DEFINE found == \A i \in DOMAIN B!Inputs(B!Plan).roots : B!Inputs(B!Plan).roots[i].root \in dirs
  <2>1. /\ file' = file /\ read' = read /\ dirs' = dirs
        /\ CASE ~B!Loads -> B!Answer([cmd |-> "invalid"])
             [] B!Loads /\ B!Inputs(B!Plan).cycle -> B!Answer([cmd |-> "cycle"])
             [] OTHER -> B!Answer(IF found THEN [cmd |-> "built"] ELSE [cmd |-> "no root"])
    BY <1>3 DEF B!Build
  <2>2. ~(B!Loads /\ B!Inputs(B!Plan).cycle)
    BY AcceptedClean DEF BuildInv, B!Loads, B!Plan
  <2> HIDE DEF found
  <2>3. B!Answer([cmd |-> "invalid"]) \/ B!Answer([cmd |-> "built"]) \/ B!Answer([cmd |-> "no root"])
    BY <2>1, <2>2, Zenon
  <2>4. commands' \in 0..MaxCommands /\ said'.cmd \in Commands
    BY <1>0, <2>3, AnswerOK
  <2> QED
    BY <2>1, <2>4 DEF BuildInv
<1> QED
  BY <1>1, <1>2, <1>3, WritesOK DEF B!Next

\* A step of the loader leaves the build program as it is.
LEMMA ProjectStep == BuildInv /\ [ProjectNext]_<<vars, build, step>> => BuildInv'
<1> SUFFICES ASSUME BuildInv, [ProjectNext]_<<vars, build, step>> PROVE BuildInv'
  OBVIOUS
<1>1. B!Next \/ UNCHANGED build
  BY DEF ProjectNext
<1>2. CASE UNCHANGED build
  BY <1>2 DEF build, BuildInv
<1> QED
  BY <1>1, <1>2, BuildStep

\* Every plan and every handle of the build program refers to what is there.
THEOREM BuildInvariance == ProjectSpec => []BuildInv
<1>1. ProjectInit => BuildInv
  BY BuildInit DEF ProjectInit
<1> QED
  BY <1>1, ProjectStep, PTL DEF ProjectSpec

\* The variables of both machines have their types (build.mesa and its loading, the
\* package loader).
THEOREM ProjectTypes == ProjectSpec => []ProjectTypeOK
<1>1. BuildInv => B!TypeOK
  <2> SUFFICES ASSUME BuildInv PROVE B!TypeOK
    OBVIOUS
  <2>1. file = B!Missing \/ \A i \in DOMAIN file : file[i] = B!Call(file[i].call, file[i])
    <3>1. CASE AllOK(file)
      <4>1. DOMAIN file = 1..Len(file)
        BY <3>1, SeqHas DEF AllOK
      <4> QED
        BY <3>1, <4>1 DEF AllOK, CallOK
    <3> QED
      BY <3>1 DEF BuildInv
  <2> DEFINE p == B!Plan
  <2>2. /\ DOMAIN p.packages = 1..Len(p.packages) /\ DOMAIN p.foreign = 1..Len(p.foreign)
        /\ DOMAIN p.libraries = 1..Len(p.libraries) /\ DOMAIN p.executables = 1..Len(p.executables)
    BY SeqHas DEF BuildInv, StateOK, B!Plan, PlanOK, Libs, Exes
  <2>3. \A x \in DOMAIN read.env : LET h == read.env[x] IN
           /\ h.kind = "package" => h.index \in DOMAIN B!Plan.packages
           /\ h.kind = "foreign" => h.index \in DOMAIN B!Plan.foreign
           /\ h.kind = "library" => h.index \in DOMAIN B!Plan.libraries
           /\ h.kind = "executable" => h.index \in DOMAIN B!Plan.executables
    BY <2>2 DEF BuildInv, StateOK, EnvOK, B!Plan
  <2>4. dirs \subseteq {B!Std.root} \cup {s.root : s \in Specs} /\ commands \in 0..MaxCommands
    BY DEF BuildInv, Directories
  <2>5. said.cmd \in {"none", "init", "added", "invalid", "built", "no root"}
    BY DEF BuildInv, Commands
  <2> QED
    BY <2>1, <2>3, <2>4, <2>5, Zenon DEF B!TypeOK
<1>2. ProjectInit => Init
  BY DEF ProjectInit
<1>3. [ProjectNext]_<<vars, build, step>> => [Next]_vars
  BY DEF ProjectNext
<1>4. ProjectSpec => Spec
  BY <1>2, <1>3, PTL DEF ProjectSpec, Spec
<1> QED
  BY <1>1, <1>4, BuildInvariance, LoaderTypes, PTL DEF ProjectTypeOK

\* What a plan that loads refers to was declared before it, so the collection of a
\* target's dependencies meets no target twice (interpret_build_program,
\* _collect_target_dependencies).
THEOREM DeclaredFirst == ProjectSpec => []DeclaredBefore
<1>1. BuildInv => DeclaredBefore
  <2> SUFFICES ASSUME BuildInv, B!Loads
               PROVE  /\ \A i \in DOMAIN B!Plan.libraries : LET lib == B!Plan.libraries[i] IN
                            /\ \A j \in B!ToSet(lib.imports) : j < lib.package
                            /\ \A j \in B!ToSet(lib.libraries) : j < i
                      /\ ~B!Inputs(B!Plan).cycle
    BY Zenon DEF DeclaredBefore, B!DeclaredBefore
  <2>1. PlanOK(B!Plan)
    BY DEF BuildInv, StateOK, B!Plan
  <2>2. ASSUME NEW i \in DOMAIN B!Plan.libraries
        PROVE  /\ \A j \in B!ToSet(B!Plan.libraries[i].imports) : j < B!Plan.libraries[i].package
               /\ \A j \in B!ToSet(B!Plan.libraries[i].libraries) : j < i
    <3> DEFINE lib == B!Plan.libraries[i]
               np == Len(B!Plan.packages)
    <3>1. LibOK(lib, i, np, Len(B!Plan.foreign)) /\ np \in Nat /\ i \in Nat
      BY <2>1, PlanLens, SeqHas DEF PlanOK, Libs
    <3> HIDE DEF lib, np
    <3>2. /\ lib.package \in Nat /\ lib.imports \in Seq(1..(lib.package - 1))
          /\ lib.libraries \in Seq(1..(i - 1))
      BY <3>1 DEF LibOK
    <3>3. \A n \in Nat : \A s \in Seq(1..(n - 1)) : \A j \in B!ToSet(s) : j < n
      BY DEF B!ToSet
    <3>4. (\A j \in B!ToSet(lib.imports) : j < lib.package) /\ \A j \in B!ToSet(lib.libraries) : j < i
      BY <3>1, <3>2, <3>3
    <3> QED
      BY <3>4 DEF lib
  <2>3. ~B!Inputs(B!Plan).cycle
    BY AcceptedClean DEF BuildInv, B!Loads, B!Plan
  <2> QED
    BY <2>2, <2>3
<1> QED
  BY <1>1, BuildInvariance, PTL
=============================================================================
