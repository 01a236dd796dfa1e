----------------------------- MODULE ErrorProofs ---------------------------
(***************************************************************************)
(* Proofs about ErrorSets, for every program, however many its functions   *)
(* and errors and however deep its blocks are nested.                      *)
(*                                                                         *)
(* The pass of InferredErrorSetPass stops at a fixed point.  What it finds *)
(* for a function is monotone in the error sets it reads (Found...Up), so  *)
(* going over a function only adds to its set, and an error that is not    *)
(* yet everywhere it belongs has come to one more function in each of the  *)
(* rounds before, and in this one too or to none gone over (Spread).  There*)
(* are more rounds than functions.                                         *)
(*                                                                         *)
(* The functions that are accepted return what their callers see.  The     *)
(* levels of nesting are gone through together: what the checker collects  *)
(* and complains of in a block, and what the block's C code does with      *)
(* names and calls of the types it takes them to have (LevelSound).  From  *)
(* a level to the next go the expressions, the statements, the values of   *)
(* the names after each and so the block; at the top is the function.      *)
(*                                                                         *)
(* The recursions over levels are choices of the function that solves      *)
(* them, so each begins with a lemma that there is one.                    *)
(***************************************************************************)
EXTENDS ErrorSets, DataFacts

\* The trees one level deeper, and what solves the recursion of Blocks up to n.
BlocksAt(prev, m) ==
    {NoBlock} \cup [stmts : Seq(Stmts(prev)), tail : Exprs(prev), absent : {FALSE}]
IsBlocks(f, n) == f = [m \in 0..n |-> IF m = 0 THEN {NoBlock} ELSE BlocksAt(f[m - 1], m)]

(* Its recursion has a solution.                                           *)
LEMMA BlocksExists ==
    \A n \in Nat : \E f : IsBlocks(f, n)
<1> DEFINE D == {n \in Nat : \E f : IsBlocks(f, n)}
<1>1. 0 \in D
  <2>1. IsBlocks([m \in 0..0 |-> {NoBlock}], 0)
    BY DEF IsBlocks
  <2> QED
    BY <2>1
<1>2. ASSUME NEW k \in D \cap Nat PROVE k + 1 \in D
  <2>1. PICK f : IsBlocks(f, k)
    OBVIOUS
  <2> DEFINE x == BlocksAt(f[k], k + 1)
             g == [m \in 0..(k + 1) |-> IF m = k + 1 THEN x ELSE f[m]]
  <2>2. \A m \in 0..k : f[m] = IF m = 0 THEN {NoBlock} ELSE BlocksAt(f[m - 1], m)
    BY <2>1 DEF IsBlocks
  <2>3. \A m \in 0..(k + 1) : g[m] = IF m = k + 1 THEN x ELSE f[m]
    OBVIOUS
  <2>4. \A m \in 0..(k + 1) : m # 0 => m - 1 \in 0..(k + 1) /\ g[m - 1] = f[m - 1] /\ (m # k + 1 => m \in 0..k)
    BY <2>3
  <2>5. \A m \in 0..(k + 1) : g[m] = IF m = 0 THEN {NoBlock} ELSE BlocksAt(g[m - 1], m)
    <3> TAKE m \in 0..(k + 1)
    <3>1. CASE m = 0
      BY <2>2, <2>3, <3>1
    <3>2. CASE m = k + 1
      <4>1. m # 0 /\ m - 1 = k /\ g[m - 1] = f[k] /\ g[m] = x
        BY <2>3, <2>4, <3>2
      <4> HIDE DEF g
      <4> QED
        BY <3>2, <4>1
    <3>3. CASE m # 0 /\ m # k + 1
      <4>1. g[m] = f[m] /\ m \in 0..k /\ g[m - 1] = f[m - 1]
        BY <2>3, <2>4, <3>3
      <4> HIDE DEF g
      <4> QED
        BY <2>2, <3>3, <4>1
    <3> QED
      BY <3>1, <3>2, <3>3
  <2>6. g = [m \in 0..(k + 1) |-> g[m]]
    OBVIOUS
  <2> HIDE DEF g
  <2>7. IsBlocks(g, k + 1)
    BY <2>5, <2>6, Zenon DEF IsBlocks
  <2> QED
    BY <2>7
<1> QED
  <2> HIDE DEF D
  <2>1. Nat \subseteq D
    BY <1>1, <1>2, Induct
  <2> QED
    BY <2>1 DEF D

\* One level of Tried, and what solves its recursion up to n.
TriedBase == [b \in {NoBlock} |-> [intercept \in BOOLEAN |-> {}]]
TriedAt(prev, rets, m) ==
    [b \in Blocks[m] |-> [intercept \in BOOLEAN |-> BlockTried(prev, b, rets, intercept)]]
IsTried(f, rets, n) == f = [m \in 0..n |-> IF m = 0 THEN TriedBase ELSE TriedAt(f[m - 1], rets, m)]

(* Its recursion has a solution.                                           *)
LEMMA TriedExists ==
    ASSUME NEW rets PROVE  \A n \in Nat : \E f : IsTried(f, rets, n)
<1> DEFINE D == {n \in Nat : \E f : IsTried(f, rets, n)}
<1>1. 0 \in D
  <2>1. IsTried([m \in 0..0 |-> TriedBase], rets, 0)
    BY DEF IsTried
  <2> QED
    BY <2>1
<1>2. ASSUME NEW k \in D \cap Nat PROVE k + 1 \in D
  <2>1. PICK f : IsTried(f, rets, k)
    OBVIOUS
  <2> DEFINE x == TriedAt(f[k], rets, k + 1)
             g == [m \in 0..(k + 1) |-> IF m = k + 1 THEN x ELSE f[m]]
  <2>2. \A m \in 0..k : f[m] = IF m = 0 THEN TriedBase ELSE TriedAt(f[m - 1], rets, m)
    BY <2>1 DEF IsTried
  <2>3. \A m \in 0..(k + 1) : g[m] = IF m = k + 1 THEN x ELSE f[m]
    OBVIOUS
  <2>4. \A m \in 0..(k + 1) : m # 0 => m - 1 \in 0..(k + 1) /\ g[m - 1] = f[m - 1] /\ (m # k + 1 => m \in 0..k)
    BY <2>3
  <2>5. \A m \in 0..(k + 1) : g[m] = IF m = 0 THEN TriedBase ELSE TriedAt(g[m - 1], rets, m)
    <3> TAKE m \in 0..(k + 1)
    <3>1. CASE m = 0
      BY <2>2, <2>3, <3>1
    <3>2. CASE m = k + 1
      <4>1. m # 0 /\ m - 1 = k /\ g[m - 1] = f[k] /\ g[m] = x
        BY <2>3, <2>4, <3>2
      <4> HIDE DEF g
      <4> QED
        BY <3>2, <4>1
    <3>3. CASE m # 0 /\ m # k + 1
      <4>1. g[m] = f[m] /\ m \in 0..k /\ g[m - 1] = f[m - 1]
        BY <2>3, <2>4, <3>3
      <4> HIDE DEF g
      <4> QED
        BY <2>2, <3>3, <4>1
    <3> QED
      BY <3>1, <3>2, <3>3
  <2>6. g = [m \in 0..(k + 1) |-> g[m]]
    OBVIOUS
  <2> HIDE DEF g
  <2>7. IsTried(g, rets, k + 1)
    BY <2>5, <2>6, Zenon DEF IsTried
  <2> QED
    BY <2>7
<1> QED
  <2> HIDE DEF D
  <2>1. Nat \subseteq D
    BY <1>1, <1>2, Induct
  <2> QED
    BY <2>1 DEF D

\* One level of Returned.
ReturnedBase == [b \in {NoBlock} |-> [sc \in Scopes |-> [escapes \in BOOLEAN |-> {}]]]
ReturnedAt(prev, rets, bound, m) ==
    [b \in Blocks[m] |-> [sc \in Scopes |-> [escapes \in BOOLEAN |->
       BlockReturned(prev, Tried(bound)[m - 1], b, rets, sc, escapes)]]]
IsReturned(f, rets, bound, n) == f = [m \in 0..n |-> IF m = 0 THEN ReturnedBase ELSE ReturnedAt(f[m - 1], rets, bound, m)]

(* Its recursion has a solution.                                           *)
LEMMA ReturnedExists ==
    ASSUME NEW rets, NEW bound PROVE  \A n \in Nat : \E f : IsReturned(f, rets, bound, n)
<1> DEFINE D == {n \in Nat : \E f : IsReturned(f, rets, bound, n)}
<1>1. 0 \in D
  <2>1. IsReturned([m \in 0..0 |-> ReturnedBase], rets, bound, 0)
    BY DEF IsReturned
  <2> QED
    BY <2>1
<1>2. ASSUME NEW k \in D \cap Nat PROVE k + 1 \in D
  <2>1. PICK f : IsReturned(f, rets, bound, k)
    OBVIOUS
  <2> DEFINE x == ReturnedAt(f[k], rets, bound, k + 1)
             g == [m \in 0..(k + 1) |-> IF m = k + 1 THEN x ELSE f[m]]
  <2>2. \A m \in 0..k : f[m] = IF m = 0 THEN ReturnedBase ELSE ReturnedAt(f[m - 1], rets, bound, m)
    BY <2>1 DEF IsReturned
  <2>3. \A m \in 0..(k + 1) : g[m] = IF m = k + 1 THEN x ELSE f[m]
    OBVIOUS
  <2>4. \A m \in 0..(k + 1) : m # 0 => m - 1 \in 0..(k + 1) /\ g[m - 1] = f[m - 1] /\ (m # k + 1 => m \in 0..k)
    BY <2>3
  <2>5. \A m \in 0..(k + 1) : g[m] = IF m = 0 THEN ReturnedBase ELSE ReturnedAt(g[m - 1], rets, bound, m)
    <3> TAKE m \in 0..(k + 1)
    <3>1. CASE m = 0
      BY <2>2, <2>3, <3>1
    <3>2. CASE m = k + 1
      <4>1. m # 0 /\ m - 1 = k /\ g[m - 1] = f[k] /\ g[m] = x
        BY <2>3, <2>4, <3>2
      <4> HIDE DEF g
      <4> QED
        BY <3>2, <4>1
    <3>3. CASE m # 0 /\ m # k + 1
      <4>1. g[m] = f[m] /\ m \in 0..k /\ g[m - 1] = f[m - 1]
        BY <2>3, <2>4, <3>3
      <4> HIDE DEF g
      <4> QED
        BY <2>2, <3>3, <4>1
    <3> QED
      BY <3>1, <3>2, <3>3
  <2>6. g = [m \in 0..(k + 1) |-> g[m]]
    OBVIOUS
  <2> HIDE DEF g
  <2>7. IsReturned(g, rets, bound, k + 1)
    BY <2>5, <2>6, Zenon DEF IsReturned
  <2> QED
    BY <2>7
<1> QED
  <2> HIDE DEF D
  <2>1. Nat \subseteq D
    BY <1>1, <1>2, Induct
  <2> QED
    BY <2>1 DEF D

\* One level of Diags.
DiagsBase == [b \in {NoBlock} |-> [sc \in Scopes |-> [c \in Contexts |-> {}]]]
DiagsAt(prev, f, m) ==
    [b \in Blocks[m] |-> [sc \in Scopes |-> [c \in Contexts |->
       BlockDiags(prev, Tried(ret)[m - 1], b, sc, f, c)]]]
IsDiags(t, f, n) == t = [m \in 0..n |-> IF m = 0 THEN DiagsBase ELSE DiagsAt(t[m - 1], f, m)]

(* Its recursion has a solution.                                           *)
LEMMA DiagsExists ==
    ASSUME NEW f PROVE  \A n \in Nat : \E t : IsDiags(t, f, n)
<1> DEFINE D == {n \in Nat : \E t : IsDiags(t, f, n)}
<1>1. 0 \in D
  <2>1. IsDiags([m \in 0..0 |-> DiagsBase], f, 0)
    BY DEF IsDiags
  <2> QED
    BY <2>1
<1>2. ASSUME NEW k \in D \cap Nat PROVE k + 1 \in D
  <2>1. PICK t : IsDiags(t, f, k)
    OBVIOUS
  <2> DEFINE x == DiagsAt(t[k], f, k + 1)
             g == [m \in 0..(k + 1) |-> IF m = k + 1 THEN x ELSE t[m]]
  <2>2. \A m \in 0..k : t[m] = IF m = 0 THEN DiagsBase ELSE DiagsAt(t[m - 1], f, m)
    BY <2>1 DEF IsDiags
  <2>3. \A m \in 0..(k + 1) : g[m] = IF m = k + 1 THEN x ELSE t[m]
    OBVIOUS
  <2>4. \A m \in 0..(k + 1) : m # 0 => m - 1 \in 0..(k + 1) /\ g[m - 1] = t[m - 1] /\ (m # k + 1 => m \in 0..k)
    BY <2>3
  <2>5. \A m \in 0..(k + 1) : g[m] = IF m = 0 THEN DiagsBase ELSE DiagsAt(g[m - 1], f, m)
    <3> TAKE m \in 0..(k + 1)
    <3>1. CASE m = 0
      BY <2>2, <2>3, <3>1
    <3>2. CASE m = k + 1
      <4>1. m # 0 /\ m - 1 = k /\ g[m - 1] = t[k] /\ g[m] = x
        BY <2>3, <2>4, <3>2
      <4> HIDE DEF g
      <4> QED
        BY <3>2, <4>1
    <3>3. CASE m # 0 /\ m # k + 1
      <4>1. g[m] = t[m] /\ m \in 0..k /\ g[m - 1] = t[m - 1]
        BY <2>3, <2>4, <3>3
      <4> HIDE DEF g
      <4> QED
        BY <2>2, <3>3, <4>1
    <3> QED
      BY <3>1, <3>2, <3>3
  <2>6. g = [m \in 0..(k + 1) |-> g[m]]
    OBVIOUS
  <2> HIDE DEF g
  <2>7. IsDiags(g, f, k + 1)
    BY <2>5, <2>6, Zenon DEF IsDiags
  <2> QED
    BY <2>7
<1> QED
  <2> HIDE DEF D
  <2>1. Nat \subseteq D
    BY <1>1, <1>2, Induct
  <2> QED
    BY <2>1 DEF D

\* One level of Outcomes.
OutcomesBase == [b \in {NoBlock} |-> [env \in Envs |-> [target \in Targets |-> {Goes("ok")}]]]
OutcomesAt(prev, f, rs, m) ==
    [b \in Blocks[m] |-> [env \in Envs |-> [target \in Targets |->
       BlockOutcomes(prev, Tried(ret)[m - 1], b, env, f, target, rs)]]]
IsOutcomes(t, f, rs, n) == t = [m \in 0..n |-> IF m = 0 THEN OutcomesBase ELSE OutcomesAt(t[m - 1], f, rs, m)]

(* Its recursion has a solution.                                           *)
LEMMA OutcomesExists ==
    ASSUME NEW f, NEW rs PROVE  \A n \in Nat : \E t : IsOutcomes(t, f, rs, n)
<1> DEFINE D == {n \in Nat : \E t : IsOutcomes(t, f, rs, n)}
<1>1. 0 \in D
  <2>1. IsOutcomes([m \in 0..0 |-> OutcomesBase], f, rs, 0)
    BY DEF IsOutcomes
  <2> QED
    BY <2>1
<1>2. ASSUME NEW k \in D \cap Nat PROVE k + 1 \in D
  <2>1. PICK t : IsOutcomes(t, f, rs, k)
    OBVIOUS
  <2> DEFINE x == OutcomesAt(t[k], f, rs, k + 1)
             g == [m \in 0..(k + 1) |-> IF m = k + 1 THEN x ELSE t[m]]
  <2>2. \A m \in 0..k : t[m] = IF m = 0 THEN OutcomesBase ELSE OutcomesAt(t[m - 1], f, rs, m)
    BY <2>1 DEF IsOutcomes
  <2>3. \A m \in 0..(k + 1) : g[m] = IF m = k + 1 THEN x ELSE t[m]
    OBVIOUS
  <2>4. \A m \in 0..(k + 1) : m # 0 => m - 1 \in 0..(k + 1) /\ g[m - 1] = t[m - 1] /\ (m # k + 1 => m \in 0..k)
    BY <2>3
  <2>5. \A m \in 0..(k + 1) : g[m] = IF m = 0 THEN OutcomesBase ELSE OutcomesAt(g[m - 1], f, rs, m)
    <3> TAKE m \in 0..(k + 1)
    <3>1. CASE m = 0
      BY <2>2, <2>3, <3>1
    <3>2. CASE m = k + 1
      <4>1. m # 0 /\ m - 1 = k /\ g[m - 1] = t[k] /\ g[m] = x
        BY <2>3, <2>4, <3>2
      <4> HIDE DEF g
      <4> QED
        BY <3>2, <4>1
    <3>3. CASE m # 0 /\ m # k + 1
      <4>1. g[m] = t[m] /\ m \in 0..k /\ g[m - 1] = t[m - 1]
        BY <2>3, <2>4, <3>3
      <4> HIDE DEF g
      <4> QED
        BY <2>2, <3>3, <4>1
    <3> QED
      BY <3>1, <3>2, <3>3
  <2>6. g = [m \in 0..(k + 1) |-> g[m]]
    OBVIOUS
  <2> HIDE DEF g
  <2>7. IsOutcomes(g, f, rs, k + 1)
    BY <2>5, <2>6, Zenon DEF IsOutcomes
  <2> QED
    BY <2>7
<1> QED
  <2> HIDE DEF D
  <2>1. Nat \subseteq D
    BY <1>1, <1>2, Induct
  <2> QED
    BY <2>1 DEF D

\* One statement of ScopesIn.
ScopesAt(prev, b, rets, sc, m) ==
    Scoped(b.stmts[m], rets, prev)
IsScopes(f, b, rets, sc, n) == f = [m \in 0..n |-> IF m = 0 THEN sc ELSE ScopesAt(f[m - 1], b, rets, sc, m)]

(* Its recursion has a solution.                                           *)
LEMMA ScopesExists ==
    ASSUME NEW b, NEW rets, NEW sc PROVE  \A n \in Nat : \E f : IsScopes(f, b, rets, sc, n)
<1> DEFINE D == {n \in Nat : \E f : IsScopes(f, b, rets, sc, n)}
<1>1. 0 \in D
  <2>1. IsScopes([m \in 0..0 |-> sc], b, rets, sc, 0)
    BY DEF IsScopes
  <2> QED
    BY <2>1
<1>2. ASSUME NEW k \in D \cap Nat PROVE k + 1 \in D
  <2>1. PICK f : IsScopes(f, b, rets, sc, k)
    OBVIOUS
  <2> DEFINE x == ScopesAt(f[k], b, rets, sc, k + 1)
             g == [m \in 0..(k + 1) |-> IF m = k + 1 THEN x ELSE f[m]]
  <2>2. \A m \in 0..k : f[m] = IF m = 0 THEN sc ELSE ScopesAt(f[m - 1], b, rets, sc, m)
    BY <2>1 DEF IsScopes
  <2>3. \A m \in 0..(k + 1) : g[m] = IF m = k + 1 THEN x ELSE f[m]
    OBVIOUS
  <2>4. \A m \in 0..(k + 1) : m # 0 => m - 1 \in 0..(k + 1) /\ g[m - 1] = f[m - 1] /\ (m # k + 1 => m \in 0..k)
    BY <2>3
  <2>5. \A m \in 0..(k + 1) : g[m] = IF m = 0 THEN sc ELSE ScopesAt(g[m - 1], b, rets, sc, m)
    <3> TAKE m \in 0..(k + 1)
    <3>1. CASE m = 0
      BY <2>2, <2>3, <3>1
    <3>2. CASE m = k + 1
      <4>1. m # 0 /\ m - 1 = k /\ g[m - 1] = f[k] /\ g[m] = x
        BY <2>3, <2>4, <3>2
      <4> HIDE DEF g
      <4> QED
        BY <3>2, <4>1
    <3>3. CASE m # 0 /\ m # k + 1
      <4>1. g[m] = f[m] /\ m \in 0..k /\ g[m - 1] = f[m - 1]
        BY <2>3, <2>4, <3>3
      <4> HIDE DEF g
      <4> QED
        BY <2>2, <3>3, <4>1
    <3> QED
      BY <3>1, <3>2, <3>3
  <2>6. g = [m \in 0..(k + 1) |-> g[m]]
    OBVIOUS
  <2> HIDE DEF g
  <2>7. IsScopes(g, b, rets, sc, k + 1)
    BY <2>5, <2>6, Zenon DEF IsScopes
  <2> QED
    BY <2>7
<1> QED
  <2> HIDE DEF D
  <2>1. Nat \subseteq D
    BY <1>1, <1>2, Induct
  <2> QED
    BY <2>1 DEF D

\* One statement of EnvsIn.
EnvsAt(prev, within, noted, b, env, f, target, rs, m) ==
    UNION {After(ExprOutcomes(within, noted, b.stmts[m].arg, at, f, target, rs), b.stmts[m], at) : at \in prev}
IsEnvs(t, within, noted, b, env, f, target, rs, n) == t = [m \in 0..n |-> IF m = 0 THEN {env} ELSE EnvsAt(t[m - 1], within, noted, b, env, f, target, rs, m)]

(* Its recursion has a solution.                                           *)
LEMMA EnvsExists ==
    ASSUME NEW within, NEW noted, NEW b, NEW env, NEW f, NEW target, NEW rs PROVE  \A n \in Nat : \E t : IsEnvs(t, within, noted, b, env, f, target, rs, n)
<1> DEFINE D == {n \in Nat : \E t : IsEnvs(t, within, noted, b, env, f, target, rs, n)}
<1>1. 0 \in D
  <2>1. IsEnvs([m \in 0..0 |-> {env}], within, noted, b, env, f, target, rs, 0)
    BY DEF IsEnvs
  <2> QED
    BY <2>1
<1>2. ASSUME NEW k \in D \cap Nat PROVE k + 1 \in D
  <2>1. PICK t : IsEnvs(t, within, noted, b, env, f, target, rs, k)
    OBVIOUS
  <2> DEFINE x == EnvsAt(t[k], within, noted, b, env, f, target, rs, k + 1)
             g == [m \in 0..(k + 1) |-> IF m = k + 1 THEN x ELSE t[m]]
  <2>2. \A m \in 0..k : t[m] = IF m = 0 THEN {env} ELSE EnvsAt(t[m - 1], within, noted, b, env, f, target, rs, m)
    BY <2>1 DEF IsEnvs
  <2>3. \A m \in 0..(k + 1) : g[m] = IF m = k + 1 THEN x ELSE t[m]
    OBVIOUS
  <2>4. \A m \in 0..(k + 1) : m # 0 => m - 1 \in 0..(k + 1) /\ g[m - 1] = t[m - 1] /\ (m # k + 1 => m \in 0..k)
    BY <2>3
  <2>5. \A m \in 0..(k + 1) : g[m] = IF m = 0 THEN {env} ELSE EnvsAt(g[m - 1], within, noted, b, env, f, target, rs, m)
    <3> TAKE m \in 0..(k + 1)
    <3>1. CASE m = 0
      BY <2>2, <2>3, <3>1
    <3>2. CASE m = k + 1
      <4>1. m # 0 /\ m - 1 = k /\ g[m - 1] = t[k] /\ g[m] = x
        BY <2>3, <2>4, <3>2
      <4> HIDE DEF g
      <4> QED
        BY <3>2, <4>1
    <3>3. CASE m # 0 /\ m # k + 1
      <4>1. g[m] = t[m] /\ m \in 0..k /\ g[m - 1] = t[m - 1]
        BY <2>3, <2>4, <3>3
      <4> HIDE DEF g
      <4> QED
        BY <2>2, <3>3, <4>1
    <3> QED
      BY <3>1, <3>2, <3>3
  <2>6. g = [m \in 0..(k + 1) |-> g[m]]
    OBVIOUS
  <2> HIDE DEF g
  <2>7. IsEnvs(g, within, noted, b, env, f, target, rs, k + 1)
    BY <2>5, <2>6, Zenon DEF IsEnvs
  <2> QED
    BY <2>7
<1> QED
  <2> HIDE DEF D
  <2>1. Nat \subseteq D
    BY <1>1, <1>2, Induct
  <2> QED
    BY <2>1 DEF D

(* The trees of each level.                                                *)
LEMMA BlocksIs ==
    /\ Blocks[0] = {NoBlock}
           /\ \A n \in 1..Nesting : Blocks[n] = BlocksAt(Blocks[n - 1], n)
<1>1. Blocks = CHOOSE t : IsBlocks(t, Nesting)
  BY Zenon DEF Blocks, IsBlocks, BlocksAt
<1>2. Nesting \in Nat
  BY ProgramsAssumption
<1> DEFINE u == Blocks
<1>3. IsBlocks(u, Nesting)
  BY <1>1, <1>2, BlocksExists
<1> HIDE DEF u
<1>4. \A n \in 0..Nesting : u[n] = IF n = 0 THEN {NoBlock} ELSE BlocksAt(u[n - 1], n)
  BY <1>3 DEF IsBlocks
<1>5. 0 \in 0..Nesting /\ \A n \in 1..Nesting : n \in 0..Nesting /\ n # 0
  BY <1>2
<1>6. u[0] = {NoBlock} /\ \A n \in 1..Nesting : u[n] = BlocksAt(u[n - 1], n)
  BY <1>4, <1>5
<1> QED
  BY <1>6 DEF u

(* The levels of Tried.                                                    *)
LEMMA TriedIs ==
    ASSUME NEW rets
    PROVE  /\ Tried(rets)[0] = TriedBase
           /\ \A n \in 1..Nesting : Tried(rets)[n] = TriedAt(Tried(rets)[n - 1], rets, n)
<1>1. Tried(rets) = CHOOSE t : IsTried(t, rets, Nesting)
  BY Zenon DEF Tried, IsTried, TriedAt, TriedBase
<1>2. Nesting \in Nat
  BY ProgramsAssumption
<1> DEFINE u == Tried(rets)
<1>3. IsTried(u, rets, Nesting)
  BY <1>1, <1>2, TriedExists
<1> HIDE DEF u
<1>4. \A n \in 0..Nesting : u[n] = IF n = 0 THEN TriedBase ELSE TriedAt(u[n - 1], rets, n)
  BY <1>3 DEF IsTried
<1>5. 0 \in 0..Nesting /\ \A n \in 1..Nesting : n \in 0..Nesting /\ n # 0
  BY <1>2
<1>6. u[0] = TriedBase /\ \A n \in 1..Nesting : u[n] = TriedAt(u[n - 1], rets, n)
  BY <1>4, <1>5
<1> QED
  BY <1>6 DEF u

(* The levels of Returned.                                                 *)
LEMMA ReturnedIs ==
    ASSUME NEW rets, NEW bound
    PROVE  /\ Returned(rets, bound)[0] = ReturnedBase
           /\ \A n \in 1..Nesting : Returned(rets, bound)[n] = ReturnedAt(Returned(rets, bound)[n - 1], rets, bound, n)
<1>1. Returned(rets, bound) = CHOOSE t : IsReturned(t, rets, bound, Nesting)
  BY Zenon DEF Returned, IsReturned, ReturnedAt, ReturnedBase
<1>2. Nesting \in Nat
  BY ProgramsAssumption
<1> DEFINE u == Returned(rets, bound)
<1>3. IsReturned(u, rets, bound, Nesting)
  BY <1>1, <1>2, ReturnedExists
<1> HIDE DEF u
<1>4. \A n \in 0..Nesting : u[n] = IF n = 0 THEN ReturnedBase ELSE ReturnedAt(u[n - 1], rets, bound, n)
  BY <1>3 DEF IsReturned
<1>5. 0 \in 0..Nesting /\ \A n \in 1..Nesting : n \in 0..Nesting /\ n # 0
  BY <1>2
<1>6. u[0] = ReturnedBase /\ \A n \in 1..Nesting : u[n] = ReturnedAt(u[n - 1], rets, bound, n)
  BY <1>4, <1>5
<1> QED
  BY <1>6 DEF u

(* The levels of Diags.                                                    *)
LEMMA DiagsIs ==
    ASSUME NEW f
    PROVE  /\ Diags(f)[0] = DiagsBase
           /\ \A n \in 1..Nesting : Diags(f)[n] = DiagsAt(Diags(f)[n - 1], f, n)
<1>1. Diags(f) = CHOOSE t : IsDiags(t, f, Nesting)
  BY Zenon DEF Diags, IsDiags, DiagsAt, DiagsBase
<1>2. Nesting \in Nat
  BY ProgramsAssumption
<1> DEFINE u == Diags(f)
<1>3. IsDiags(u, f, Nesting)
  BY <1>1, <1>2, DiagsExists
<1> HIDE DEF u
<1>4. \A n \in 0..Nesting : u[n] = IF n = 0 THEN DiagsBase ELSE DiagsAt(u[n - 1], f, n)
  BY <1>3 DEF IsDiags
<1>5. 0 \in 0..Nesting /\ \A n \in 1..Nesting : n \in 0..Nesting /\ n # 0
  BY <1>2
<1>6. u[0] = DiagsBase /\ \A n \in 1..Nesting : u[n] = DiagsAt(u[n - 1], f, n)
  BY <1>4, <1>5
<1> QED
  BY <1>6 DEF u

(* The levels of Outcomes.                                                 *)
LEMMA OutcomesIs ==
    ASSUME NEW f, NEW rs
    PROVE  /\ Outcomes(f, rs)[0] = OutcomesBase
           /\ \A n \in 1..Nesting : Outcomes(f, rs)[n] = OutcomesAt(Outcomes(f, rs)[n - 1], f, rs, n)
<1>1. Outcomes(f, rs) = CHOOSE t : IsOutcomes(t, f, rs, Nesting)
  BY Zenon DEF Outcomes, IsOutcomes, OutcomesAt, OutcomesBase
<1>2. Nesting \in Nat
  BY ProgramsAssumption
<1> DEFINE u == Outcomes(f, rs)
<1>3. IsOutcomes(u, f, rs, Nesting)
  BY <1>1, <1>2, OutcomesExists
<1> HIDE DEF u
<1>4. \A n \in 0..Nesting : u[n] = IF n = 0 THEN OutcomesBase ELSE OutcomesAt(u[n - 1], f, rs, n)
  BY <1>3 DEF IsOutcomes
<1>5. 0 \in 0..Nesting /\ \A n \in 1..Nesting : n \in 0..Nesting /\ n # 0
  BY <1>2
<1>6. u[0] = OutcomesBase /\ \A n \in 1..Nesting : u[n] = OutcomesAt(u[n - 1], f, rs, n)
  BY <1>4, <1>5
<1> QED
  BY <1>6 DEF u

(* The scopes after the statements of a block.                             *)
LEMMA ScopesIs ==
    ASSUME NEW X, NEW b, b.stmts \in Seq(X), NEW rets, NEW sc
    PROVE  /\ ScopesIn(b, rets, sc)[0] = sc
           /\ \A n \in 1..Len(b.stmts) : ScopesIn(b, rets, sc)[n] = ScopesAt(ScopesIn(b, rets, sc)[n - 1], b, rets, sc, n)
<1>1. ScopesIn(b, rets, sc) = CHOOSE t : IsScopes(t, b, rets, sc, Len(b.stmts))
  BY Zenon DEF ScopesIn, IsScopes, ScopesAt
<1>2. Len(b.stmts) \in Nat
  OBVIOUS
<1> DEFINE u == ScopesIn(b, rets, sc)
<1>3. IsScopes(u, b, rets, sc, Len(b.stmts))
  BY <1>1, <1>2, ScopesExists
<1> HIDE DEF u
<1>4. \A n \in 0..Len(b.stmts) : u[n] = IF n = 0 THEN sc ELSE ScopesAt(u[n - 1], b, rets, sc, n)
  BY <1>3 DEF IsScopes
<1>5. 0 \in 0..Len(b.stmts) /\ \A n \in 1..Len(b.stmts) : n \in 0..Len(b.stmts) /\ n # 0
  BY <1>2
<1>6. u[0] = sc /\ \A n \in 1..Len(b.stmts) : u[n] = ScopesAt(u[n - 1], b, rets, sc, n)
  BY <1>4, <1>5
<1> QED
  BY <1>6 DEF u

(* The values after the statements of a block.                             *)
LEMMA EnvsIs ==
    ASSUME NEW within, NEW noted, NEW b, NEW env, NEW f, NEW target, NEW rs, Len(b.stmts) \in Nat
    PROVE  /\ EnvsIn(within, noted, b, env, f, target, rs)[0] = {env}
           /\ \A n \in 1..Len(b.stmts) : EnvsIn(within, noted, b, env, f, target, rs)[n] = EnvsAt(EnvsIn(within, noted, b, env, f, target, rs)[n - 1], within, noted, b, env, f, target, rs, n)
<1>1. EnvsIn(within, noted, b, env, f, target, rs) = CHOOSE t : IsEnvs(t, within, noted, b, env, f, target, rs, Len(b.stmts))
  BY Zenon DEF EnvsIn, IsEnvs, EnvsAt
<1> DEFINE u == EnvsIn(within, noted, b, env, f, target, rs)
<1>3. IsEnvs(u, within, noted, b, env, f, target, rs, Len(b.stmts))
  BY <1>1, EnvsExists
<1> HIDE DEF u
<1>4. \A n \in 0..Len(b.stmts) : u[n] = IF n = 0 THEN {env} ELSE EnvsAt(u[n - 1], within, noted, b, env, f, target, rs, n)
  BY <1>3 DEF IsEnvs
<1>5. 0 \in 0..Len(b.stmts) /\ \A n \in 1..Len(b.stmts) : n \in 0..Len(b.stmts) /\ n # 0
  OBVIOUS
<1>6. u[0] = {env} /\ \A n \in 1..Len(b.stmts) : u[n] = EnvsAt(u[n - 1], within, noted, b, env, f, target, rs, n)
  BY <1>4, <1>5
<1> QED
  BY <1>6 DEF u

-----------------------------------------------------------------------------
(* The trees.                                                              *)

(* An absent block is a block of every level.                              *)
LEMMA Absent == \A n \in 0..Nesting : NoBlock \in Blocks[n]
<1>1. Nesting \in Nat
  BY ProgramsAssumption
<1>2. \A n \in 0..Nesting : n = 0 \/ n \in 1..Nesting
  BY <1>1
<1> QED
  BY <1>2, BlocksIs DEF BlocksAt

(* What the blocks of a level consist of.                                  *)
LEMMA Parts ==
    ASSUME NEW n \in 1..Nesting, NEW b \in Blocks[n]
    PROVE  b.stmts \in Seq(Stmts(Blocks[n - 1])) /\ b.tail \in Exprs(Blocks[n - 1])
<1> DEFINE B == Blocks[n - 1]
           S == Stmts(B)
           E == Exprs(B)
<1>1. Blocks[n] = {NoBlock} \cup [stmts : Seq(S), tail : E, absent : {FALSE}]
  BY BlocksIs DEF BlocksAt
<1>2. [op |-> "none"] \in E
  BY DEF Exprs, Simple
<1> HIDE DEF S, E, B
<1>3. CASE b = NoBlock
  <2>1. b.stmts = <<>> /\ b.tail = [op |-> "none"]
    BY <1>3 DEF NoBlock
  <2>2. <<>> \in Seq(S)
    OBVIOUS
  <2> QED
    BY <1>2, <2>1, <2>2 DEF B, S, E
<1>4. CASE b # NoBlock
  <2>1. b \in [stmts : Seq(S), tail : E, absent : {FALSE}]
    BY <1>1, <1>4
  <2>2. b.stmts \in Seq(S) /\ b.tail \in E
    BY <2>1
  <2> QED
    BY <2>2 DEF B, S, E
<1> QED
  BY <1>3, <1>4

(* What an expression over blocks consists of.                             *)
LEMMA ExprParts ==
    ASSUME NEW B, NEW e \in Exprs(B)
    PROVE  /\ e.op \in {"val", "none", "error", "var", "call", "try", "catch", "if", "with"}
           /\ e.op = "error" => e.of \in Errors
           /\ e.op = "var" => e.name \in Variables
           /\ e.op \in {"call", "try", "catch"} => e.fun \in Functions
           /\ e.op = "if" => e.then \in B /\ e.else \in B
           /\ e.op = "with" => e.body \in B /\ e.handle \in B /\ e.cleanup \in BOOLEAN
<1>1. \/ e \in [op : {"val", "none"}] \/ e \in [op : {"error"}, of : Errors] \/ e \in [op : {"var"}, name : Variables]
      \/ e \in [op : {"call", "try", "catch"}, fun : Functions] \/ e \in [op : {"if"}, then : B, else : B]
      \/ e \in [op : {"with"}, cleanup : BOOLEAN, body : B, handle : B]
  BY DEF Exprs, Simple
<1>2. CASE e \in [op : {"val", "none"}]
  BY <1>2
<1>3. CASE e \in [op : {"error"}, of : Errors]
  BY <1>3
<1>4. CASE e \in [op : {"var"}, name : Variables]
  BY <1>4
<1>5. CASE e \in [op : {"call", "try", "catch"}, fun : Functions]
  BY <1>5
<1>6. CASE e \in [op : {"if"}, then : B, else : B]
  BY <1>6
<1>7. CASE e \in [op : {"with"}, cleanup : BOOLEAN, body : B, handle : B]
  BY <1>7
<1> QED
  BY <1>1, <1>2, <1>3, <1>4, <1>5, <1>6, <1>7

(* What a statement over blocks consists of.                               *)
LEMMA StmtParts ==
    ASSUME NEW B, NEW s \in Stmts(B)
    PROVE  /\ s.op \in {"let", "expr", "return", "while"} /\ s.arg \in Exprs(B)
           /\ s.op = "let" => s.name \in Variables
           /\ s.op = "while" => s.body \in B
<1> DEFINE E == Exprs(B)
<1>1. \/ s \in [op : {"let"}, name : Variables, arg : E] \/ s \in [op : {"expr", "return"}, arg : E]
      \/ s \in [op : {"while"}, arg : E, body : B]
  BY DEF Stmts
<1> HIDE DEF E
<1>2. CASE s \in [op : {"let"}, name : Variables, arg : E]
  BY <1>2 DEF E
<1>3. CASE s \in [op : {"expr", "return"}, arg : E]
  BY <1>3 DEF E
<1>4. CASE s \in [op : {"while"}, arg : E, body : B]
  BY <1>4 DEF E
<1> QED
  BY <1>1, <1>2, <1>3, <1>4

(* What a function consists of.                                            *)
LEMMA FunParts ==
    ASSUME NEW fn \in FunDecls
    PROVE  /\ fn.ret \in {"inferred", "declared", "void"} /\ fn.set \subseteq Errors
           /\ fn.body \in Blocks[Nesting] /\ fn.handle \in Blocks[Nesting]
BY DEF FunDecls

-----------------------------------------------------------------------------
(* The recursions at a block.                                              *)

(* The tries of a block, by those of the blocks in it.                     *)
LEMMA TriedStep ==
    ASSUME NEW rets
    PROVE  /\ \A i \in BOOLEAN : Tried(rets)[0][NoBlock][i] = {}
           /\ \A n \in 1..Nesting : \A b \in Blocks[n] : \A i \in BOOLEAN :
                 Tried(rets)[n][b][i] = BlockTried(Tried(rets)[n - 1], b, rets, i)
<1> DEFINE r == Tried(rets)
<1>1. r[0] = TriedBase /\ \A n \in 1..Nesting : r[n] = TriedAt(r[n - 1], rets, n)
  BY TriedIs
<1> HIDE DEF r
<1>2. \A i \in BOOLEAN : TriedBase[NoBlock][i] = {}
  BY DEF TriedBase
<1>3. ASSUME NEW n \in 1..Nesting, NEW b \in Blocks[n], NEW i \in BOOLEAN
      PROVE  r[n][b][i] = BlockTried(r[n - 1], b, rets, i)
  <2> DEFINE p == r[n - 1]
  <2>1. r[n] = TriedAt(p, rets, n)
    BY <1>1
  <2> HIDE DEF p
  <2>2. TriedAt(p, rets, n)[b][i] = BlockTried(p, b, rets, i)
    BY Zenon DEF TriedAt
  <2> QED
    BY <2>1, <2>2 DEF p
<1> QED
  BY <1>1, <1>2, <1>3 DEF r

(* What a block returns.                                                   *)
LEMMA ReturnedStep ==
    ASSUME NEW rets, NEW bound
    PROVE  /\ \A sc \in Scopes : \A i \in BOOLEAN : Returned(rets, bound)[0][NoBlock][sc][i] = {}
           /\ \A n \in 1..Nesting : \A b \in Blocks[n] : \A sc \in Scopes : \A i \in BOOLEAN :
                 Returned(rets, bound)[n][b][sc][i] = BlockReturned(Returned(rets, bound)[n - 1], Tried(bound)[n - 1], b, rets, sc, i)
<1> DEFINE r == Returned(rets, bound)
<1>1. r[0] = ReturnedBase /\ \A n \in 1..Nesting : r[n] = ReturnedAt(r[n - 1], rets, bound, n)
  BY ReturnedIs
<1> HIDE DEF r
<1>2. \A sc \in Scopes : \A i \in BOOLEAN : ReturnedBase[NoBlock][sc][i] = {}
  BY DEF ReturnedBase
<1>3. ASSUME NEW n \in 1..Nesting, NEW b \in Blocks[n], NEW sc \in Scopes, NEW i \in BOOLEAN
      PROVE  r[n][b][sc][i] = BlockReturned(r[n - 1], Tried(bound)[n - 1], b, rets, sc, i)
  <2> DEFINE p == r[n - 1]
  <2>1. r[n] = ReturnedAt(p, rets, bound, n)
    BY <1>1
  <2> HIDE DEF p
  <2>2. ReturnedAt(p, rets, bound, n)[b][sc][i] = BlockReturned(p, Tried(bound)[n - 1], b, rets, sc, i)
    BY Zenon DEF ReturnedAt
  <2> QED
    BY <2>1, <2>2 DEF p
<1> QED
  BY <1>1, <1>2, <1>3 DEF r

(* What is wrong in a block.                                               *)
LEMMA DiagsStep ==
    ASSUME NEW f
    PROVE  /\ \A sc \in Scopes : \A c \in Contexts : Diags(f)[0][NoBlock][sc][c] = {}
           /\ \A n \in 1..Nesting : \A b \in Blocks[n] : \A sc \in Scopes : \A c \in Contexts :
                 Diags(f)[n][b][sc][c] = BlockDiags(Diags(f)[n - 1], Tried(ret)[n - 1], b, sc, f, c)
<1> DEFINE r == Diags(f)
<1>1. r[0] = DiagsBase /\ \A n \in 1..Nesting : r[n] = DiagsAt(r[n - 1], f, n)
  BY DiagsIs
<1> HIDE DEF r
<1>2. \A sc \in Scopes : \A c \in Contexts : DiagsBase[NoBlock][sc][c] = {}
  BY DEF DiagsBase
<1>3. ASSUME NEW n \in 1..Nesting, NEW b \in Blocks[n], NEW sc \in Scopes, NEW c \in Contexts
      PROVE  r[n][b][sc][c] = BlockDiags(r[n - 1], Tried(ret)[n - 1], b, sc, f, c)
  <2> DEFINE p == r[n - 1]
  <2>1. r[n] = DiagsAt(p, f, n)
    BY <1>1
  <2> HIDE DEF p
  <2>2. DiagsAt(p, f, n)[b][sc][c] = BlockDiags(p, Tried(ret)[n - 1], b, sc, f, c)
    BY Zenon DEF DiagsAt
  <2> QED
    BY <2>1, <2>2 DEF p
<1> QED
  BY <1>1, <1>2, <1>3 DEF r

(* What a block does.                                                      *)
LEMMA OutcomesStep ==
    ASSUME NEW f, NEW rs
    PROVE  /\ \A env \in Envs : \A g \in Targets : Outcomes(f, rs)[0][NoBlock][env][g] = {Goes("ok")}
           /\ \A n \in 1..Nesting : \A b \in Blocks[n] : \A env \in Envs : \A g \in Targets :
                 Outcomes(f, rs)[n][b][env][g] = BlockOutcomes(Outcomes(f, rs)[n - 1], Tried(ret)[n - 1], b, env, f, g, rs)
<1> DEFINE r == Outcomes(f, rs)
<1>1. r[0] = OutcomesBase /\ \A n \in 1..Nesting : r[n] = OutcomesAt(r[n - 1], f, rs, n)
  BY OutcomesIs
<1> HIDE DEF r
<1>2. \A env \in Envs : \A g \in Targets : OutcomesBase[NoBlock][env][g] = {Goes("ok")}
  BY DEF OutcomesBase
<1>3. ASSUME NEW n \in 1..Nesting, NEW b \in Blocks[n], NEW env \in Envs, NEW g \in Targets
      PROVE  r[n][b][env][g] = BlockOutcomes(r[n - 1], Tried(ret)[n - 1], b, env, f, g, rs)
  <2> DEFINE p == r[n - 1]
  <2>1. r[n] = OutcomesAt(p, f, rs, n)
    BY <1>1
  <2> HIDE DEF p
  <2>2. OutcomesAt(p, f, rs, n)[b][env][g] = BlockOutcomes(p, Tried(ret)[n - 1], b, env, f, g, rs)
    BY Zenon DEF OutcomesAt
  <2> QED
    BY <2>1, <2>2 DEF p
<1> QED
  BY <1>1, <1>2, <1>3 DEF r

-----------------------------------------------------------------------------
(* Types.                                                                  *)

(* What a type consists of.                                                *)
LEMMA TypeParts ==
    ASSUME NEW ty \in Types
    PROVE  /\ ty.k \in {"int", "void", "set", "union"} /\ ty.set \subseteq Errors /\ ty.known \in BOOLEAN
           /\ UnionSet(ty) \subseteq Errors /\ Merged(ty) \subseteq Errors
           /\ ty = [k |-> ty.k, set |-> ty.set, known |-> ty.known]
  BY DEF Types, UnionSet, Merged

(* The types the compiler makes.                                           *)
LEMMA MadeTypes ==
    ASSUME NEW s \in SUBSET Errors
    PROVE  /\ IntType \in Types /\ VoidType \in Types /\ Inferred \in Types
           /\ ErrorSet(s) \in Types /\ ErrorUnion(s) \in Types /\ BindingType(s) \in Types
BY DEF Types, IntType, VoidType, Inferred, ErrorSet, ErrorUnion, BindingType

(* The types functions are declared with.                                  *)
LEMMA DeclaredRetType == ASSUME NEW fn \in FunDecls PROVE DeclaredRet(fn) \in Types
<1>1. fn.ret \in {"inferred", "declared", "void"} /\ fn.set \in SUBSET Errors
  BY FunParts
<1> QED
  BY <1>1, MadeTypes DEF DeclaredRet

(* An expression has a type.                                               *)
LEMMA TypeOfType ==
    ASSUME NEW B, NEW e \in Exprs(B), NEW rets \in [Functions -> Types], NEW sc \in Scopes
    PROVE  TypeOf(e, rets, sc) \in Types
<1>1. /\ e.op \in {"val", "none", "error", "var", "call", "try", "catch", "if", "with"}
      /\ e.op = "error" => e.of \in Errors
      /\ e.op = "var" => e.name \in Variables
      /\ e.op \in {"call", "try", "catch"} => e.fun \in Functions
  BY ExprParts
<1>2. IntType \in Types /\ VoidType \in Types
  BY MadeTypes
<1>3. CASE e.op = "error"
  <2>1. ErrorSet({e.of}) \in Types
    BY <1>1, <1>3, MadeTypes
  <2> QED
    BY <1>3, <2>1 DEF TypeOf
<1>4. CASE e.op = "var"
  <2>1. sc[e.name] \in Types
    BY <1>1, <1>4 DEF Scopes
  <2> QED
    BY <1>4, <2>1 DEF TypeOf
<1>5. CASE e.op \in {"call", "try", "catch"}
  <2>1. rets[e.fun] \in Types
    BY <1>1, <1>5
  <2> QED
    BY <1>2, <1>5, <2>1 DEF TypeOf, Unwrapped
<1>6. CASE e.op \in {"val", "none", "if", "with"}
  BY <1>2, <1>6 DEF TypeOf
<1> QED
  BY <1>1, <1>3, <1>4, <1>5, <1>6

(* The scopes in a block, and that of a handle.                            *)
LEMMA ScopedType ==
    ASSUME NEW B, NEW s \in Stmts(B), NEW rets \in [Functions -> Types], NEW sc \in Scopes
    PROVE  Scoped(s, rets, sc) \in Scopes
<1>1. s.arg \in Exprs(B)
  BY StmtParts
<1>2. TypeOf(s.arg, rets, sc) \in Types
  BY <1>1, TypeOfType
<1> QED
  BY <1>2 DEF Scoped, Scopes

(* The scopes after the statements of a block are scopes.                  *)
LEMMA ScopesInType ==
    ASSUME NEW B, NEW b, b.stmts \in Seq(Stmts(B)), NEW rets \in [Functions -> Types], NEW sc \in Scopes
    PROVE  \A i \in 0..Len(b.stmts) : ScopesIn(b, rets, sc)[i] \in Scopes
<1> DEFINE S == Stmts(B)
           n == Len(b.stmts)
           u == ScopesIn(b, rets, sc)
           D == {i \in Nat : i <= n => u[i] \in Scopes}
<1>1. n \in Nat /\ \A i \in 1..n : b.stmts[i] \in S
  <2> HIDE DEF S
  <2> QED
    BY DEF S
<1>2. u[0] = sc /\ \A i \in 1..n : u[i] = Scoped(b.stmts[i], rets, u[i - 1])
  <2> HIDE DEF S
  <2>1. b.stmts \in Seq(S)
    BY DEF S
  <2>2. ScopesIn(b, rets, sc)[0] = sc /\ \A i \in 1..Len(b.stmts) :
           ScopesIn(b, rets, sc)[i] = ScopesAt(ScopesIn(b, rets, sc)[i - 1], b, rets, sc, i)
    BY <2>1, ScopesIs
  <2> QED
    BY <2>2 DEF ScopesAt
<1> HIDE DEF u, n
<1>3. 0 \in D
  BY <1>2
<1>4. ASSUME NEW k \in D \cap Nat PROVE k + 1 \in D
  <2> SUFFICES ASSUME k + 1 <= n PROVE u[k + 1] \in Scopes
    OBVIOUS
  <2>1. k + 1 \in 1..n /\ (k + 1) - 1 = k /\ u[k] \in Scopes
    BY <1>1
  <2>2. u[k + 1] = Scoped(b.stmts[k + 1], rets, u[k]) /\ b.stmts[k + 1] \in Stmts(B)
    BY <1>1, <1>2, <2>1
  <2> QED
    BY <2>1, <2>2, ScopedType
<1> HIDE DEF D
<1>5. Nat \subseteq D
  BY <1>3, <1>4, Induct
<1> QED
  BY <1>1, <1>5 DEF D, u, n

(* So does the entry of a handle.                                          *)
LEMMA HandleScopeType ==
    ASSUME NEW sc \in Scopes, NEW noted \in SUBSET Errors PROVE HandleScope(sc, noted) \in Scopes
<1>1. BindingType(noted) \in Types
  BY MadeTypes
<1> QED
  BY <1>1 DEF HandleScope, Scopes

(* The statements of a block.                                              *)
LEMMA StmtsRange ==
    ASSUME NEW B, NEW b, b.stmts \in Seq(Stmts(B))
    PROVE  /\ \A s \in Range(b.stmts) : s \in Stmts(B)
           /\ Len(b.stmts) \in Nat /\ DOMAIN b.stmts = 1..Len(b.stmts)
           /\ \A i \in 1..Len(b.stmts) : b.stmts[i] \in Stmts(B)
<1> DEFINE S == Stmts(B)
<1> HIDE DEF S
<1>1. b.stmts \in Seq(S)
  BY DEF S
<1>2. Len(b.stmts) \in Nat /\ DOMAIN b.stmts = 1..Len(b.stmts) /\ \A i \in 1..Len(b.stmts) : b.stmts[i] \in S
  BY <1>1
<1>3. \A s \in Range(b.stmts) : s \in S
  BY <1>2 DEF Range
<1> QED
  BY <1>2, <1>3 DEF S

-----------------------------------------------------------------------------
(* What is tried and returned, error by error: it has the error only if a  *)
(* type it was found from has it.                                          *)

\* The types in q have the error wherever those in p have it.
Up(p, q, err) == p.k = q.k /\ (err \in p.set => err \in q.set)
RetsUp(p, q, err) == \A f \in Functions : Up(p[f], q[f], err)
ScopesUp(p, q, err) == \A x \in Variables : Up(p[x], q[x], err)

\* The tries of every block in B that have the error in w have it in v.
TriesUp(w, v, B, err) == \A b \in B : \A i \in BOOLEAN : err \in w[b][i] => err \in v[b][i]

(* An expression's tries, from those of the blocks in it.                  *)
LEMMA ExprTriedUp ==
    ASSUME NEW err, NEW B, NEW w, NEW v, TriesUp(w, v, B, err),
           NEW p, NEW q, RetsUp(p, q, err), NEW e \in Exprs(B), NEW i \in BOOLEAN,
           err \in ExprTried(w, e, p, i)
    PROVE  err \in ExprTried(v, e, q, i)
<1>1. /\ e.op \in {"val", "none", "error", "var", "call", "try", "catch", "if", "with"}
      /\ e.op \in {"call", "try", "catch"} => e.fun \in Functions
      /\ e.op = "if" => e.then \in B /\ e.else \in B
      /\ e.op = "with" => e.body \in B /\ e.handle \in B
  BY ExprParts
<1>2. CASE e.op = "try"
  BY <1>1, <1>2 DEF ExprTried, RetsUp, Up, UnionSet
<1>3. CASE e.op = "if"
  BY <1>1, <1>3 DEF ExprTried, TriesUp
<1>4. CASE e.op = "with"
  <2> DEFINE j == i \/ HasHandle(e)
  <2>1. j \in BOOLEAN /\ FALSE \in BOOLEAN
    OBVIOUS
  <2>2. \A u, r : ExprTried(u, e, r, i) = u[e.body][j] \cup u[e.handle][FALSE]
    BY <1>4 DEF ExprTried
  <2> HIDE DEF j
  <2> QED
    BY <1>1, <1>4, <2>1, <2>2 DEF TriesUp
<1>5. CASE e.op \in {"val", "none", "error", "var", "call", "catch"}
  BY <1>5 DEF ExprTried
<1> QED
  BY <1>1, <1>2, <1>3, <1>4, <1>5

(* A statement's.                                                          *)
LEMMA StmtTriedUp ==
    ASSUME NEW err, NEW B, NEW w, NEW v, TriesUp(w, v, B, err),
           NEW p, NEW q, RetsUp(p, q, err), NEW s \in Stmts(B), NEW i \in BOOLEAN,
           err \in StmtTried(w, s, p, i)
    PROVE  err \in StmtTried(v, s, q, i)
<1>1. s.arg \in Exprs(B) /\ (s.op = "while" => s.body \in B)
  BY StmtParts
<1>2. err \in ExprTried(w, s.arg, p, i) => err \in ExprTried(v, s.arg, q, i)
  BY <1>1, ExprTriedUp
<1> QED
  BY <1>1, <1>2 DEF StmtTried, TriesUp

(* The tries of a block are those of its statements and of its tail.       *)
LEMMA BlockTriedHas ==
    ASSUME NEW err, NEW w, NEW b, NEW p, NEW i
    PROVE  err \in BlockTried(w, b, p, i)
              <=> (\E s \in Range(b.stmts) : err \in StmtTried(w, s, p, i)) \/ err \in ExprTried(w, b.tail, p, i)
  BY Zenon DEF BlockTried

(* A block's.                                                              *)
LEMMA BlockTriedUp ==
    ASSUME NEW err, NEW B, NEW w, NEW v, TriesUp(w, v, B, err), NEW p, NEW q, RetsUp(p, q, err),
           NEW b, b.stmts \in Seq(Stmts(B)), b.tail \in Exprs(B), NEW i \in BOOLEAN,
           err \in BlockTried(w, b, p, i)
    PROVE  err \in BlockTried(v, b, q, i)
<1>1. \A s \in Range(b.stmts) : s \in Stmts(B)
  BY StmtsRange
<1>2. ASSUME NEW s \in Range(b.stmts), err \in StmtTried(w, s, p, i) PROVE err \in StmtTried(v, s, q, i)
  BY <1>1, <1>2, StmtTriedUp
<1>3. err \in ExprTried(w, b.tail, p, i) => err \in ExprTried(v, b.tail, q, i)
  BY ExprTriedUp
<1>4. \A u, r : err \in BlockTried(u, b, r, i)
                <=> (\E s \in Range(b.stmts) : err \in StmtTried(u, s, r, i)) \/ err \in ExprTried(u, b.tail, r, i)
  BY BlockTriedHas
<1> QED
  BY <1>2, <1>3, <1>4

(* A function whose return type gains an error makes no block lose one.    *)
LEMMA TriedUp ==
    ASSUME NEW err, NEW p, NEW q, RetsUp(p, q, err)
    PROVE  \A n \in 0..Nesting : TriesUp(Tried(p)[n], Tried(q)[n], Blocks[n], err)
<1> DEFINE D == {n \in Nat : n <= Nesting => TriesUp(Tried(p)[n], Tried(q)[n], Blocks[n], err)}
<1>0. Nesting \in Nat
  BY ProgramsAssumption
<1>1. 0 \in D
  <2>1. \A i \in BOOLEAN : Tried(p)[0][NoBlock][i] = {}
    BY TriedStep
  <2>2. Blocks[0] = {NoBlock}
    BY BlocksIs
  <2> QED
    BY <2>1, <2>2 DEF TriesUp
<1>2. ASSUME NEW k \in D \cap Nat PROVE k + 1 \in D
  <2> SUFFICES ASSUME k + 1 <= Nesting PROVE TriesUp(Tried(p)[k + 1], Tried(q)[k + 1], Blocks[k + 1], err)
    OBVIOUS
  <2>1. k + 1 \in 1..Nesting /\ (k + 1) - 1 = k /\ TriesUp(Tried(p)[k], Tried(q)[k], Blocks[k], err)
    BY <1>0
  <2> SUFFICES ASSUME NEW b \in Blocks[k + 1], NEW i \in BOOLEAN, err \in Tried(p)[k + 1][b][i]
               PROVE  err \in Tried(q)[k + 1][b][i]
    BY DEF TriesUp
  <2> DEFINE w == Tried(p)[k]
             v == Tried(q)[k]
             B == Blocks[k]
  <2>2. b.stmts \in Seq(Stmts(B)) /\ b.tail \in Exprs(B)
    BY <2>1, Parts
  <2>3. Tried(p)[k + 1][b][i] = BlockTried(w, b, p, i) /\ Tried(q)[k + 1][b][i] = BlockTried(v, b, q, i)
    BY <2>1, TriedStep
  <2>4. TriesUp(w, v, B, err)
    BY <2>1
  <2> HIDE DEF w, v, B
  <2> QED
    BY <2>2, <2>3, <2>4, BlockTriedUp
<1> HIDE DEF D
<1>3. Nat \subseteq D
  BY <1>1, <1>2, Induct
<1> QED
  BY <1>0, <1>3 DEF D

\* What the blocks in B try are errors.
TriesIn(w, B) == \A b \in B : \A i \in BOOLEAN : w[b][i] \subseteq Errors

(* What an expression tries are errors, if its blocks' tries are.          *)
LEMMA ExprTriedType ==
    ASSUME NEW B, NEW w, TriesIn(w, B), NEW p \in [Functions -> Types], NEW e \in Exprs(B), NEW i \in BOOLEAN
    PROVE  ExprTried(w, e, p, i) \subseteq Errors
<1>1. /\ e.op \in {"val", "none", "error", "var", "call", "try", "catch", "if", "with"}
      /\ e.op \in {"call", "try", "catch"} => e.fun \in Functions
      /\ e.op = "if" => e.then \in B /\ e.else \in B
      /\ e.op = "with" => e.body \in B /\ e.handle \in B
  BY ExprParts
<1>2. CASE e.op = "try"
  <2>1. UnionSet(p[e.fun]) \subseteq Errors
    BY <1>1, <1>2, TypeParts
  <2> QED
    BY <1>2, <2>1 DEF ExprTried
<1>3. CASE e.op = "if"
  BY <1>1, <1>3 DEF ExprTried, TriesIn
<1>4. CASE e.op = "with"
  <2> DEFINE j == i \/ HasHandle(e)
  <2>1. j \in BOOLEAN /\ FALSE \in BOOLEAN
    OBVIOUS
  <2>2. ExprTried(w, e, p, i) = w[e.body][j] \cup w[e.handle][FALSE]
    BY <1>4 DEF ExprTried
  <2> HIDE DEF j
  <2> QED
    BY <1>1, <1>4, <2>1, <2>2 DEF TriesIn
<1>5. CASE e.op \in {"val", "none", "error", "var", "call", "catch"}
  BY <1>5 DEF ExprTried
<1> QED
  BY <1>1, <1>2, <1>3, <1>4, <1>5

(* So a block's.                                                           *)
LEMMA BlockTriedType ==
    ASSUME NEW B, NEW w, TriesIn(w, B), NEW p \in [Functions -> Types],
           NEW b, b.stmts \in Seq(Stmts(B)), b.tail \in Exprs(B), NEW i \in BOOLEAN
    PROVE  BlockTried(w, b, p, i) \subseteq Errors
<1>1. \A s \in Range(b.stmts) : s \in Stmts(B)
  BY StmtsRange
<1>2. ASSUME NEW s \in Range(b.stmts) PROVE StmtTried(w, s, p, i) \subseteq Errors
  <2>1. s.arg \in Exprs(B) /\ (s.op = "while" => s.body \in B)
    BY <1>1, StmtParts
  <2>2. ExprTried(w, s.arg, p, i) \subseteq Errors
    BY <2>1, ExprTriedType
  <2> QED
    BY <2>1, <2>2 DEF StmtTried, TriesIn
<1>3. ExprTried(w, b.tail, p, i) \subseteq Errors
  BY ExprTriedType
<1> QED
  BY <1>2, <1>3, BlockTriedHas

(* What is tried are errors.                                               *)
LEMMA TriedType ==
    ASSUME NEW p \in [Functions -> Types]
    PROVE  \A n \in 0..Nesting : TriesIn(Tried(p)[n], Blocks[n])
<1> DEFINE D == {n \in Nat : n <= Nesting => TriesIn(Tried(p)[n], Blocks[n])}
<1>0. Nesting \in Nat
  BY ProgramsAssumption
<1>1. 0 \in D
  <2>1. \A i \in BOOLEAN : Tried(p)[0][NoBlock][i] = {}
    BY TriedStep
  <2>2. Blocks[0] = {NoBlock}
    BY BlocksIs
  <2> QED
    BY <2>1, <2>2 DEF TriesIn
<1>2. ASSUME NEW k \in D \cap Nat PROVE k + 1 \in D
  <2> SUFFICES ASSUME k + 1 <= Nesting PROVE TriesIn(Tried(p)[k + 1], Blocks[k + 1])
    OBVIOUS
  <2>1. k + 1 \in 1..Nesting /\ (k + 1) - 1 = k /\ TriesIn(Tried(p)[k], Blocks[k])
    BY <1>0
  <2> SUFFICES ASSUME NEW b \in Blocks[k + 1], NEW i \in BOOLEAN PROVE Tried(p)[k + 1][b][i] \subseteq Errors
    BY DEF TriesIn
  <2> DEFINE w == Tried(p)[k]
             B == Blocks[k]
  <2>2. b.stmts \in Seq(Stmts(B)) /\ b.tail \in Exprs(B)
    BY <2>1, Parts
  <2>3. Tried(p)[k + 1][b][i] = BlockTried(w, b, p, i)
    BY <2>1, TriedStep
  <2>4. TriesIn(w, B)
    BY <2>1
  <2> HIDE DEF w, B
  <2> QED
    BY <2>2, <2>3, <2>4, BlockTriedType
<1> HIDE DEF D
<1>3. Nat \subseteq D
  BY <1>1, <1>2, Induct
<1> QED
  BY <1>0, <1>3 DEF D

(* What a handle around a whole body is noted are errors.                  *)
LEMMA NotedType ==
    ASSUME NEW p \in [Functions -> Types], NEW b \in Blocks[Nesting]
    PROVE  Noted(b, p) \subseteq Errors
<1>1. Nesting \in 0..Nesting
  BY ProgramsAssumption
<1> QED
  BY <1>1, TriedType DEF Noted, TriesIn

(* The type of an expression gains what the types it reads gain.           *)
LEMMA TypeOfUp ==
    ASSUME NEW err, NEW B, NEW e \in Exprs(B), NEW p, NEW q, RetsUp(p, q, err),
           NEW sc, NEW sd, ScopesUp(sc, sd, err)
    PROVE  /\ Up(TypeOf(e, p, sc), TypeOf(e, q, sd), err)
           /\ err \in Merged(TypeOf(e, p, sc)) => err \in Merged(TypeOf(e, q, sd))
<1>1. /\ e.op \in {"val", "none", "error", "var", "call", "try", "catch", "if", "with"}
      /\ e.op = "var" => e.name \in Variables
      /\ e.op \in {"call", "try", "catch"} => e.fun \in Functions
  BY ExprParts
<1>2. Up(TypeOf(e, p, sc), TypeOf(e, q, sd), err)
  <2>1. CASE e.op = "var"
    <3>1. TypeOf(e, p, sc) = sc[e.name] /\ TypeOf(e, q, sd) = sd[e.name]
      BY <2>1 DEF TypeOf
    <3> QED
      BY <1>1, <2>1, <3>1 DEF ScopesUp
  <2>2. CASE e.op = "call"
    <3>1. TypeOf(e, p, sc) = p[e.fun] /\ TypeOf(e, q, sd) = q[e.fun]
      BY <2>2 DEF TypeOf
    <3> QED
      BY <1>1, <2>2, <3>1 DEF RetsUp
  <2>3. CASE e.op \in {"try", "catch"}
    <3>1. TypeOf(e, p, sc) = Unwrapped(p[e.fun]) /\ TypeOf(e, q, sd) = Unwrapped(q[e.fun])
      BY <2>3 DEF TypeOf
    <3>2. Up(p[e.fun], q[e.fun], err)
      BY <1>1, <2>3 DEF RetsUp
    <3>3. Up(Unwrapped(p[e.fun]), Unwrapped(q[e.fun]), err)
      BY <3>2 DEF Up, Unwrapped
    <3> QED
      BY <3>1, <3>3
  <2>4. CASE e.op \in {"val", "none", "error", "if", "with"}
    <3>1. TypeOf(e, p, sc) = TypeOf(e, q, sd)
      BY <2>4 DEF TypeOf
    <3> QED
      BY <3>1 DEF Up
  <2> QED
    BY <1>1, <2>1, <2>2, <2>3, <2>4
<1>3. ASSUME NEW x, NEW y, Up(x, y, err), err \in Merged(x) PROVE err \in Merged(y)
  BY <1>3 DEF Up, Merged
<1> QED
  BY <1>2, <1>3

(* So do the scopes after a let.                                           *)
LEMMA ScopedUp ==
    ASSUME NEW err, NEW B, NEW s \in Stmts(B), NEW p, NEW q, RetsUp(p, q, err),
           NEW sc \in Scopes, NEW sd \in Scopes, ScopesUp(sc, sd, err)
    PROVE  ScopesUp(Scoped(s, p, sc), Scoped(s, q, sd), err)
<1> DEFINE t == TypeOf(s.arg, p, sc)
           u == TypeOf(s.arg, q, sd)
<1>1. s.arg \in Exprs(B)
  BY StmtParts
<1>2. Up(t, u, err)
  BY <1>1, TypeOfUp
<1>3. Scoped(s, p, sc) = IF s.op = "let" THEN [sc EXCEPT ![s.name] = t] ELSE sc
  BY DEF Scoped
<1>4. Scoped(s, q, sd) = IF s.op = "let" THEN [sd EXCEPT ![s.name] = u] ELSE sd
  BY DEF Scoped
<1> HIDE DEF t, u
<1> QED
  BY <1>2, <1>3, <1>4 DEF ScopesUp, Scopes

(* Those of a handle do, its binding's type being fixed.                   *)
LEMMA HandleScopeUp ==
    ASSUME NEW err, NEW sc \in Scopes, NEW sd \in Scopes, ScopesUp(sc, sd, err), NEW noted
    PROVE  ScopesUp(HandleScope(sc, noted), HandleScope(sd, noted), err)
<1> DEFINE t == BindingType(noted)
<1>1. HandleScope(sc, noted) = [sc EXCEPT ![BindingName] = t] /\ HandleScope(sd, noted) = [sd EXCEPT ![BindingName] = t]
  BY DEF HandleScope
<1>2. Up(t, t, err)
  BY DEF Up
<1> HIDE DEF t
<1> QED
  BY <1>1, <1>2 DEF ScopesUp, Scopes

(* The scopes after the statements of a block, one by one.                 *)
LEMMA ScopesStep ==
    ASSUME NEW B, NEW b, b.stmts \in Seq(Stmts(B)), NEW p, NEW sc
    PROVE  /\ ScopesIn(b, p, sc)[0] = sc
           /\ \A i \in 1..Len(b.stmts) : ScopesIn(b, p, sc)[i] = Scoped(b.stmts[i], p, ScopesIn(b, p, sc)[i - 1])
<1> DEFINE S == Stmts(B)
<1>1. b.stmts \in Seq(S)
  OBVIOUS
<1> HIDE DEF S
<1>2. /\ ScopesIn(b, p, sc)[0] = sc
      /\ \A i \in 1..Len(b.stmts) : ScopesIn(b, p, sc)[i] = ScopesAt(ScopesIn(b, p, sc)[i - 1], b, p, sc, i)
  BY <1>1, ScopesIs
<1> QED
  BY <1>2 DEF ScopesAt

(* Those after each statement of a block do.                               *)
LEMMA ScopesInUp ==
    ASSUME NEW err, NEW B, NEW b, b.stmts \in Seq(Stmts(B)),
           NEW p \in [Functions -> Types], NEW q \in [Functions -> Types], RetsUp(p, q, err),
           NEW sc \in Scopes, NEW sd \in Scopes, ScopesUp(sc, sd, err)
    PROVE  \A i \in 0..Len(b.stmts) : ScopesUp(ScopesIn(b, p, sc)[i], ScopesIn(b, q, sd)[i], err)
<1> DEFINE n == Len(b.stmts)
           u == ScopesIn(b, p, sc)
           v == ScopesIn(b, q, sd)
           D == {i \in Nat : i <= n => ScopesUp(u[i], v[i], err)}
<1>1. n \in Nat /\ \A i \in 1..n : b.stmts[i] \in Stmts(B)
  BY StmtsRange
<1>2. /\ u[0] = sc /\ \A i \in 1..n : u[i] = Scoped(b.stmts[i], p, u[i - 1])
      /\ v[0] = sd /\ \A i \in 1..n : v[i] = Scoped(b.stmts[i], q, v[i - 1])
      /\ \A i \in 0..n : u[i] \in Scopes /\ v[i] \in Scopes
  BY ScopesStep, ScopesInType
<1> HIDE DEF u, v, n
<1>3. 0 \in D
  BY <1>2
<1>4. ASSUME NEW k \in D \cap Nat PROVE k + 1 \in D
  <2> SUFFICES ASSUME k + 1 <= n PROVE ScopesUp(u[k + 1], v[k + 1], err)
    OBVIOUS
  <2>1. k + 1 \in 1..n /\ (k + 1) - 1 = k /\ ScopesUp(u[k], v[k], err) /\ k \in 0..n
    BY <1>1
  <2>2. /\ u[k + 1] = Scoped(b.stmts[k + 1], p, u[k]) /\ v[k + 1] = Scoped(b.stmts[k + 1], q, v[k])
        /\ b.stmts[k + 1] \in Stmts(B) /\ u[k] \in Scopes /\ v[k] \in Scopes
    BY <1>1, <1>2, <2>1
  <2> QED
    BY <2>1, <2>2, ScopedUp
<1> HIDE DEF D
<1>5. Nat \subseteq D
  BY <1>3, <1>4, Induct
<1> QED
  BY <1>1, <1>5 DEF D, u, v, n

\* What the blocks in B return has the error in v wherever it has it in w, in
\* scopes that have it.
ValuesUp(w, v, B, err) ==
    \A b \in B : \A sc \in Scopes : \A sd \in Scopes : ScopesUp(sc, sd, err) =>
        \A i \in BOOLEAN : err \in w[b][sc][i] => err \in v[b][sd][i]

(* What an expression returns, from what the blocks in it do.              *)
LEMMA ExprReturnedUp ==
    ASSUME NEW err, NEW B, NEW w, NEW v, ValuesUp(w, v, B, err), NEW noted, TriesIn(noted, B),
           NEW p, NEW q, RetsUp(p, q, err), NEW e \in Exprs(B), NEW i \in BOOLEAN,
           NEW sc \in Scopes, NEW sd \in Scopes, ScopesUp(sc, sd, err),
           err \in ExprReturned(w, noted, e, p, sc, i)
    PROVE  err \in ExprReturned(v, noted, e, q, sd, i)
<1>1. /\ e.op \in {"val", "none", "error", "var", "call", "try", "catch", "if", "with"}
      /\ e.op = "if" => e.then \in B /\ e.else \in B
      /\ e.op = "with" => e.body \in B /\ e.handle \in B
  BY ExprParts
<1>2. CASE e.op = "if"
  BY <1>1, <1>2 DEF ExprReturned, ValuesUp
<1>3. CASE e.op = "with"
  <2> DEFINE hc == HandleScope(sc, noted[e.body][FALSE])
             hd == HandleScope(sd, noted[e.body][FALSE])
  <2>1. noted[e.body][FALSE] \in SUBSET Errors
    BY <1>1, <1>3 DEF TriesIn
  <2>2. hc \in Scopes /\ hd \in Scopes /\ ScopesUp(hc, hd, err)
    BY <2>1, HandleScopeType, HandleScopeUp
  <2>3. /\ ExprReturned(w, noted, e, p, sc, i) = w[e.body][sc][i] \cup w[e.handle][hc][i]
        /\ ExprReturned(v, noted, e, q, sd, i) = v[e.body][sd][i] \cup v[e.handle][hd][i]
    BY <1>3 DEF ExprReturned
  <2> HIDE DEF hc, hd
  <2> QED
    BY <1>1, <1>3, <2>2, <2>3 DEF ValuesUp
<1>4. CASE e.op \notin {"if", "with"}
  <2>1. /\ ExprReturned(w, noted, e, p, sc, i) = IF i THEN Merged(TypeOf(e, p, sc)) ELSE {}
        /\ ExprReturned(v, noted, e, q, sd, i) = IF i THEN Merged(TypeOf(e, q, sd)) ELSE {}
    BY <1>4 DEF ExprReturned
  <2> QED
    BY <2>1, TypeOfUp
<1> QED
  BY <1>1, <1>2, <1>3, <1>4

(* What a statement returns.                                               *)
LEMMA StmtReturnedUp ==
    ASSUME NEW err, NEW B, NEW w, NEW v, ValuesUp(w, v, B, err), NEW noted, TriesIn(noted, B),
           NEW p, NEW q, RetsUp(p, q, err), NEW s \in Stmts(B),
           NEW sc \in Scopes, NEW sd \in Scopes, ScopesUp(sc, sd, err),
           err \in StmtReturned(w, noted, s, p, sc)
    PROVE  err \in StmtReturned(v, noted, s, q, sd)
<1> DEFINE j == (s.op = "return")
<1>1. s.arg \in Exprs(B) /\ (s.op = "while" => s.body \in B) /\ j \in BOOLEAN
  BY StmtParts
<1>2. /\ StmtReturned(w, noted, s, p, sc)
          = ExprReturned(w, noted, s.arg, p, sc, j) \cup (IF s.op = "while" THEN w[s.body][sc][FALSE] ELSE {})
      /\ StmtReturned(v, noted, s, q, sd)
          = ExprReturned(v, noted, s.arg, q, sd, j) \cup (IF s.op = "while" THEN v[s.body][sd][FALSE] ELSE {})
  BY DEF StmtReturned
<1> HIDE DEF j
<1>3. err \in ExprReturned(w, noted, s.arg, p, sc, j) => err \in ExprReturned(v, noted, s.arg, q, sd, j)
  BY <1>1, ExprReturnedUp
<1>4. s.op = "while" => (err \in w[s.body][sc][FALSE] => err \in v[s.body][sd][FALSE])
  BY <1>1 DEF ValuesUp
<1> QED
  BY <1>2, <1>3, <1>4

(* What a block returns its statements or its tail return.                 *)
LEMMA BlockReturnedHas ==
    ASSUME NEW err, NEW w, NEW noted, NEW b, NEW p, NEW sc, NEW i
    PROVE  err \in BlockReturned(w, noted, b, p, sc, i)
              <=> \/ \E k \in DOMAIN b.stmts : err \in StmtReturned(w, noted, b.stmts[k], p, ScopesIn(b, p, sc)[k - 1])
                  \/ err \in ExprReturned(w, noted, b.tail, p, ScopesIn(b, p, sc)[Len(b.stmts)], i)
  BY Zenon DEF BlockReturned

(* What a block returns.                                                   *)
LEMMA BlockReturnedUp ==
    ASSUME NEW err, NEW B, NEW w, NEW v, ValuesUp(w, v, B, err), NEW noted, TriesIn(noted, B),
           NEW p \in [Functions -> Types], NEW q \in [Functions -> Types], RetsUp(p, q, err),
           NEW b, b.stmts \in Seq(Stmts(B)), b.tail \in Exprs(B), NEW i \in BOOLEAN,
           NEW sc \in Scopes, NEW sd \in Scopes, ScopesUp(sc, sd, err),
           err \in BlockReturned(w, noted, b, p, sc, i)
    PROVE  err \in BlockReturned(v, noted, b, q, sd, i)
<1> DEFINE n == Len(b.stmts)
           x == ScopesIn(b, p, sc)
           y == ScopesIn(b, q, sd)
<1>1. n \in Nat /\ DOMAIN b.stmts = 1..n /\ \A k \in 1..n : b.stmts[k] \in Stmts(B)
  BY StmtsRange
<1>2. \A k \in 0..n : x[k] \in Scopes /\ y[k] \in Scopes /\ ScopesUp(x[k], y[k], err)
  BY ScopesInType, ScopesInUp
<1>3. /\ err \in BlockReturned(w, noted, b, p, sc, i)
           <=> \/ \E k \in DOMAIN b.stmts : err \in StmtReturned(w, noted, b.stmts[k], p, x[k - 1])
               \/ err \in ExprReturned(w, noted, b.tail, p, x[n], i)
      /\ err \in BlockReturned(v, noted, b, q, sd, i)
           <=> \/ \E k \in DOMAIN b.stmts : err \in StmtReturned(v, noted, b.stmts[k], q, y[k - 1])
               \/ err \in ExprReturned(v, noted, b.tail, q, y[n], i)
  BY BlockReturnedHas
<1> HIDE DEF x, y, n
<1>4. ASSUME NEW k \in 1..n, err \in StmtReturned(w, noted, b.stmts[k], p, x[k - 1])
      PROVE  err \in StmtReturned(v, noted, b.stmts[k], q, y[k - 1])
  <2>1. k - 1 \in 0..n
    BY <1>1
  <2> QED
    BY <1>1, <1>2, <1>4, <2>1, StmtReturnedUp
<1>5. err \in ExprReturned(w, noted, b.tail, p, x[n], i) => err \in ExprReturned(v, noted, b.tail, q, y[n], i)
  BY <1>1, <1>2, ExprReturnedUp
<1> QED
  BY <1>1, <1>3, <1>4, <1>5

(* A function whose return type gains an error makes none return less.     *)
LEMMA ReturnedUp ==
    ASSUME NEW err, NEW p \in [Functions -> Types], NEW q \in [Functions -> Types], RetsUp(p, q, err),
           NEW bound \in [Functions -> Types]
    PROVE  \A n \in 0..Nesting : ValuesUp(Returned(p, bound)[n], Returned(q, bound)[n], Blocks[n], err)
<1> DEFINE w == Returned(p, bound)
           v == Returned(q, bound)
           D == {n \in Nat : n <= Nesting => ValuesUp(w[n], v[n], Blocks[n], err)}
<1>0. Nesting \in Nat
  BY ProgramsAssumption
<1>1. 0 \in D
  <2>1. \A sc \in Scopes : \A i \in BOOLEAN : w[0][NoBlock][sc][i] = {}
    BY ReturnedStep
  <2>2. Blocks[0] = {NoBlock}
    BY BlocksIs
  <2> HIDE DEF w, v
  <2> QED
    BY <2>1, <2>2 DEF ValuesUp
<1>2. ASSUME NEW k \in D \cap Nat PROVE k + 1 \in D
  <2> SUFFICES ASSUME k + 1 <= Nesting PROVE ValuesUp(w[k + 1], v[k + 1], Blocks[k + 1], err)
    OBVIOUS
  <2>1. k + 1 \in 1..Nesting /\ (k + 1) - 1 = k /\ k \in 0..Nesting /\ ValuesUp(w[k], v[k], Blocks[k], err)
    BY <1>0
  <2> SUFFICES ASSUME NEW b \in Blocks[k + 1], NEW sc \in Scopes, NEW sd \in Scopes, ScopesUp(sc, sd, err),
                      NEW i \in BOOLEAN, err \in w[k + 1][b][sc][i]
               PROVE  err \in v[k + 1][b][sd][i]
    BY Zenon DEF ValuesUp
  <2> DEFINE noted == Tried(bound)[k]
             x == w[k]
             y == v[k]
             B == Blocks[k]
  <2>2. b.stmts \in Seq(Stmts(B)) /\ b.tail \in Exprs(B)
    BY <2>1, Parts
  <2>3. /\ w[k + 1][b][sc][i] = BlockReturned(x, noted, b, p, sc, i)
        /\ v[k + 1][b][sd][i] = BlockReturned(y, noted, b, q, sd, i)
    BY <2>1, ReturnedStep
  <2>4. ValuesUp(x, y, B, err) /\ TriesIn(noted, B)
    BY <2>1, TriedType
  <2> HIDE DEF w, v, x, y, B, noted
  <2> QED
    BY <2>2, <2>3, <2>4, BlockReturnedUp
<1> HIDE DEF D
<1>3. Nat \subseteq D
  BY <1>1, <1>2, Induct
<1> QED
  BY <1>0, <1>3 DEF D

\* What the blocks in B return are errors.
ValuesIn(w, B) == \A b \in B : \A sc \in Scopes : \A i \in BOOLEAN : w[b][sc][i] \subseteq Errors

(* What an expression returns are errors, if its blocks' values are.       *)
LEMMA ExprReturnedType ==
    ASSUME NEW B, NEW w, ValuesIn(w, B), NEW noted, TriesIn(noted, B),
           NEW p \in [Functions -> Types], NEW e \in Exprs(B), NEW i \in BOOLEAN, NEW sc \in Scopes
    PROVE  ExprReturned(w, noted, e, p, sc, i) \subseteq Errors
<1>1. /\ e.op \in {"val", "none", "error", "var", "call", "try", "catch", "if", "with"}
      /\ e.op = "if" => e.then \in B /\ e.else \in B
      /\ e.op = "with" => e.body \in B /\ e.handle \in B
  BY ExprParts
<1>2. CASE e.op = "if"
  BY <1>1, <1>2 DEF ExprReturned, ValuesIn
<1>3. CASE e.op = "with"
  <2> DEFINE hc == HandleScope(sc, noted[e.body][FALSE])
  <2>1. noted[e.body][FALSE] \in SUBSET Errors
    BY <1>1, <1>3 DEF TriesIn
  <2>2. hc \in Scopes
    BY <2>1, HandleScopeType
  <2>3. ExprReturned(w, noted, e, p, sc, i) = w[e.body][sc][i] \cup w[e.handle][hc][i]
    BY <1>3 DEF ExprReturned
  <2> HIDE DEF hc
  <2> QED
    BY <1>1, <1>3, <2>2, <2>3 DEF ValuesIn
<1>4. CASE e.op \notin {"if", "with"}
  <2>1. ExprReturned(w, noted, e, p, sc, i) = IF i THEN Merged(TypeOf(e, p, sc)) ELSE {}
    BY <1>4 DEF ExprReturned
  <2>2. TypeOf(e, p, sc) \in Types
    BY TypeOfType
  <2>3. Merged(TypeOf(e, p, sc)) \subseteq Errors
    BY <2>2, TypeParts
  <2> QED
    BY <2>1, <2>3
<1> QED
  BY <1>1, <1>2, <1>3, <1>4

(* So for a block.                                                         *)
LEMMA BlockReturnedType ==
    ASSUME NEW B, NEW w, ValuesIn(w, B), NEW noted, TriesIn(noted, B), NEW p \in [Functions -> Types],
           NEW b, b.stmts \in Seq(Stmts(B)), b.tail \in Exprs(B), NEW i \in BOOLEAN, NEW sc \in Scopes
    PROVE  BlockReturned(w, noted, b, p, sc, i) \subseteq Errors
<1> DEFINE n == Len(b.stmts)
           x == ScopesIn(b, p, sc)
<1>1. n \in Nat /\ DOMAIN b.stmts = 1..n /\ \A k \in 1..n : b.stmts[k] \in Stmts(B)
  BY StmtsRange
<1>2. \A k \in 0..n : x[k] \in Scopes
  BY ScopesInType
<1>3. \A err : err \in BlockReturned(w, noted, b, p, sc, i)
           <=> \/ \E k \in DOMAIN b.stmts : err \in StmtReturned(w, noted, b.stmts[k], p, x[k - 1])
               \/ err \in ExprReturned(w, noted, b.tail, p, x[n], i)
  BY BlockReturnedHas
<1> HIDE DEF x, n
<1>4. ASSUME NEW k \in 1..n PROVE StmtReturned(w, noted, b.stmts[k], p, x[k - 1]) \subseteq Errors
  <2> DEFINE s == b.stmts[k]
             sd == x[k - 1]
             j == (s.op = "return")
  <2>1. k - 1 \in 0..n /\ s \in Stmts(B)
    BY <1>1
  <2>2. sd \in Scopes
    BY <1>2, <2>1
  <2> HIDE DEF s, sd
  <2>3. s.arg \in Exprs(B) /\ (s.op = "while" => s.body \in B) /\ j \in BOOLEAN
    BY <2>1, StmtParts
  <2>4. StmtReturned(w, noted, s, p, sd)
          = ExprReturned(w, noted, s.arg, p, sd, j) \cup (IF s.op = "while" THEN w[s.body][sd][FALSE] ELSE {})
    BY DEF StmtReturned
  <2> HIDE DEF j
  <2>5. ExprReturned(w, noted, s.arg, p, sd, j) \subseteq Errors
    BY <2>2, <2>3, ExprReturnedType
  <2>6. s.op = "while" => w[s.body][sd][FALSE] \subseteq Errors
    BY <2>2, <2>3 DEF ValuesIn
  <2>7. StmtReturned(w, noted, s, p, sd) \subseteq Errors
    BY <2>4, <2>5, <2>6
  <2> QED
    BY <2>7 DEF s, sd
<1>5. ExprReturned(w, noted, b.tail, p, x[n], i) \subseteq Errors
  BY <1>1, <1>2, ExprReturnedType
<1> QED
  BY <1>1, <1>3, <1>4, <1>5

(* What is returned are errors.                                            *)
LEMMA ReturnedType ==
    ASSUME NEW p \in [Functions -> Types], NEW bound \in [Functions -> Types]
    PROVE  \A n \in 0..Nesting : ValuesIn(Returned(p, bound)[n], Blocks[n])
<1> DEFINE w == Returned(p, bound)
           D == {n \in Nat : n <= Nesting => ValuesIn(w[n], Blocks[n])}
<1>0. Nesting \in Nat
  BY ProgramsAssumption
<1>1. 0 \in D
  <2>1. \A sc \in Scopes : \A i \in BOOLEAN : w[0][NoBlock][sc][i] = {}
    BY ReturnedStep
  <2>2. Blocks[0] = {NoBlock}
    BY BlocksIs
  <2> HIDE DEF w
  <2> QED
    BY <2>1, <2>2 DEF ValuesIn
<1>2. ASSUME NEW k \in D \cap Nat PROVE k + 1 \in D
  <2> SUFFICES ASSUME k + 1 <= Nesting PROVE ValuesIn(w[k + 1], Blocks[k + 1])
    OBVIOUS
  <2>1. k + 1 \in 1..Nesting /\ (k + 1) - 1 = k /\ k \in 0..Nesting /\ ValuesIn(w[k], Blocks[k])
    BY <1>0
  <2> SUFFICES ASSUME NEW b \in Blocks[k + 1], NEW sc \in Scopes, NEW i \in BOOLEAN
               PROVE  w[k + 1][b][sc][i] \subseteq Errors
    BY Zenon DEF ValuesIn
  <2> DEFINE noted == Tried(bound)[k]
             x == w[k]
             B == Blocks[k]
  <2>2. b.stmts \in Seq(Stmts(B)) /\ b.tail \in Exprs(B)
    BY <2>1, Parts
  <2>3. w[k + 1][b][sc][i] = BlockReturned(x, noted, b, p, sc, i)
    BY <2>1, ReturnedStep
  <2>4. ValuesIn(x, B) /\ TriesIn(noted, B)
    BY <2>1, TriedType
  <2> HIDE DEF w, x, B, noted
  <2> QED
    BY <2>2, <2>3, <2>4, BlockReturnedType
<1> HIDE DEF D
<1>3. Nat \subseteq D
  BY <1>1, <1>2, Induct
<1> QED
  BY <1>0, <1>3 DEF D

-----------------------------------------------------------------------------
(* What is inferred for a function.                                        *)

\* InferFun with the program and the types it reads for arguments.
Found(fn, rets, bound) ==
    Tried(rets)[Nesting][fn.body][HasHandle(fn)] \cup Returned(rets, bound)[Nesting][fn.body][NoNames][TRUE]
    \cup Tried(rets)[Nesting][fn.handle][FALSE]
    \cup Returned(rets, bound)[Nesting][fn.handle][HandleScope(NoNames, Noted(fn.body, bound))][TRUE]

(* It is what InferFun finds in the state.                                 *)
LEMMA InferFunIs == ASSUME NEW f PROVE InferFun(f) = Found(prog[f], ret, annotated)
  BY Zenon DEF InferFun, Found

(* A body starts in a scope.                                               *)
LEMMA NoNamesType == NoNames \in Scopes
<1>1. VoidType \in Types
  BY MadeTypes
<1> QED
  BY <1>1 DEF NoNames, Scopes

(* It is a set of errors.                                                  *)
LEMMA FoundType ==
    ASSUME NEW fn \in FunDecls, NEW p \in [Functions -> Types], NEW bound \in [Functions -> Types]
    PROVE  Found(fn, p, bound) \subseteq Errors
<1> DEFINE hc == HandleScope(NoNames, Noted(fn.body, bound))
           i == HasHandle(fn)
           t == Tried(p)[Nesting]
           w == Returned(p, bound)[Nesting]
<1>1. fn.body \in Blocks[Nesting] /\ fn.handle \in Blocks[Nesting] /\ Nesting \in 0..Nesting /\ i \in BOOLEAN
  BY FunParts, ProgramsAssumption DEF HasHandle
<1>2. Noted(fn.body, bound) \in SUBSET Errors
  BY <1>1, NotedType
<1>3. hc \in Scopes
  BY <1>2, NoNamesType, HandleScopeType
<1>4. TriesIn(t, Blocks[Nesting]) /\ ValuesIn(w, Blocks[Nesting])
  BY <1>1, TriedType, ReturnedType
<1>5. Found(fn, p, bound) = t[fn.body][i] \cup w[fn.body][NoNames][TRUE] \cup t[fn.handle][FALSE] \cup w[fn.handle][hc][TRUE]
  BY Zenon DEF Found
<1> HIDE DEF hc, i, t, w
<1> QED
  BY <1>1, <1>3, <1>4, <1>5, NoNamesType DEF TriesIn, ValuesIn

(* It has an error only if some type has it, and loses none when types     *)
(* gain it.                                                                *)
LEMMA FoundUp ==
    ASSUME NEW err, NEW fn \in FunDecls, NEW p \in [Functions -> Types], NEW q \in [Functions -> Types],
           RetsUp(p, q, err), NEW bound \in [Functions -> Types], err \in Found(fn, p, bound)
    PROVE  err \in Found(fn, q, bound)
<1> DEFINE hc == HandleScope(NoNames, Noted(fn.body, bound))
           i == HasHandle(fn)
           t == Tried(p)[Nesting]
           u == Tried(q)[Nesting]
           w == Returned(p, bound)[Nesting]
           v == Returned(q, bound)[Nesting]
           B == Blocks[Nesting]
<1>1. fn.body \in B /\ fn.handle \in B /\ Nesting \in 0..Nesting /\ i \in BOOLEAN
  BY FunParts, ProgramsAssumption DEF HasHandle
<1>2. Noted(fn.body, bound) \in SUBSET Errors
  BY <1>1, NotedType
<1>3. hc \in Scopes /\ NoNames \in Scopes
  BY <1>2, NoNamesType, HandleScopeType
<1>4. TriesUp(t, u, B, err) /\ ValuesUp(w, v, B, err)
  BY <1>1, TriedUp, ReturnedUp
<1>5. /\ Found(fn, p, bound) = t[fn.body][i] \cup w[fn.body][NoNames][TRUE] \cup t[fn.handle][FALSE] \cup w[fn.handle][hc][TRUE]
      /\ Found(fn, q, bound) = u[fn.body][i] \cup v[fn.body][NoNames][TRUE] \cup u[fn.handle][FALSE] \cup v[fn.handle][hc][TRUE]
  BY Zenon DEF Found
<1>6. ScopesUp(hc, hc, err) /\ ScopesUp(NoNames, NoNames, err)
  BY DEF ScopesUp, Up
<1> HIDE DEF hc, i, t, u, w, v, B
<1>7. /\ err \in t[fn.body][i] => err \in u[fn.body][i]
      /\ err \in t[fn.handle][FALSE] => err \in u[fn.handle][FALSE]
  BY <1>1, <1>4 DEF TriesUp
<1>8. /\ err \in w[fn.body][NoNames][TRUE] => err \in v[fn.body][NoNames][TRUE]
      /\ err \in w[fn.handle][hc][TRUE] => err \in v[fn.handle][hc][TRUE]
  BY <1>1, <1>3, <1>4, <1>6 DEF ValuesUp
<1> QED
  BY <1>5, <1>7, <1>8

-----------------------------------------------------------------------------
(* What the C code of a function in which nothing is wrong does.           *)

\* A value that an expression of a type can have: of one that is nothing
\* (a call of a void function, a conditional, a with), any.
InType(v, ty) ==
    v \in Values /\ (ty.k = "int" => v = "ok") /\ (ty.k \in {"set", "union"} => v \in ty.set \cup {"ok"})

\* The values of the names are of their types, those of calls of the functions'.
EnvOK(env, sc) == \A x \in Variables : InType(env[x], sc[x])
CallsOK(rs) == \A g \in Functions : \A v \in rs[g] : InType(v, ret[g])

\* What a piece of the code of f does, whose tries fail with those in tried:
\* it returns what its callers see, or jumps to the handle with one of them.
OutcomeOK(o, f, target, tried) ==
    /\ o.v \in Values
    /\ \/ o.k \in {"go", "lost"}
       \/ o.k = "return" /\ (ret[f].k = "union" => o.v \in ret[f].set \cup {"ok"} \cup (IF target = "out" THEN tried ELSE {}))
       \/ o.k = target /\ target # "out" /\ o.v \in tried

(* A payload is of any type.                                               *)
LEMMA OkInType == ASSUME NEW ty PROVE InType("ok", ty)
  BY DEF InType, Values

(* The parts of an outcome.                                                *)
LEMMA OutcomeIs == \A k, v : Outcome(k, v).k = k /\ Outcome(k, v).v = v /\ Goes(v) = Outcome("go", v) /\ Returns(v) = Outcome("return", v)
  BY DEF Outcome, Goes, Returns

(* More tries only allow more.                                             *)
LEMMA OutcomeMore ==
    ASSUME NEW o, NEW f, NEW target, NEW few, NEW many, few \subseteq many, OutcomeOK(o, f, target, few)
    PROVE  OutcomeOK(o, f, target, many)
  BY DEF OutcomeOK

(* The names of a scope and the values of an environment, one changed.     *)
LEMMA EnvChanged ==
    ASSUME NEW env \in Envs, NEW sc \in Scopes, EnvOK(env, sc), NEW x \in Variables, NEW v, NEW ty, InType(v, ty)
    PROVE  [env EXCEPT ![x] = v] \in Envs /\ EnvOK([env EXCEPT ![x] = v], [sc EXCEPT ![x] = ty])
<1>1. v \in Values
  BY DEF InType
<1>2. [env EXCEPT ![x] = v] \in Envs
  BY <1>1 DEF Envs
<1>3. \A y \in Variables : /\ [env EXCEPT ![x] = v][y] = IF y = x THEN v ELSE env[y]
                           /\ [sc EXCEPT ![x] = ty][y] = IF y = x THEN ty ELSE sc[y]
  BY DEF Envs, Scopes
<1>4. EnvOK([env EXCEPT ![x] = v], [sc EXCEPT ![x] = ty])
  <2> DEFINE a == [env EXCEPT ![x] = v]
             b == [sc EXCEPT ![x] = ty]
  <2>1. \A y \in Variables : a[y] = (IF y = x THEN v ELSE env[y]) /\ b[y] = (IF y = x THEN ty ELSE sc[y])
    BY <1>3
  <2> HIDE DEF a, b
  <2>2. ASSUME NEW y \in Variables PROVE InType(a[y], b[y])
    <3>1. CASE y = x
      BY <2>1, <3>1
    <3>2. CASE y # x
      BY <2>1, <3>2 DEF EnvOK
    <3> QED
      BY <3>1, <3>2
  <2>3. EnvOK(a, b)
    BY <2>2 DEF EnvOK
  <2> QED
    BY <2>3 DEF a, b
<1> QED
  BY <1>2, <1>4

(* The binding of a handle entered with an error that was noted.           *)
LEMMA HandleEntered ==
    ASSUME NEW env \in Envs, NEW sc \in Scopes, EnvOK(env, sc), NEW noted, NEW v \in noted, v \in Values
    PROVE  /\ [env EXCEPT ![BindingName] = v] \in Envs
           /\ EnvOK([env EXCEPT ![BindingName] = v], HandleScope(sc, noted))
<1>1. InType(v, BindingType(noted))
  BY DEF InType, BindingType, ErrorSet
<1>2. BindingName \in Variables
  BY DEF Variables
<1> QED
  BY <1>1, <1>2, EnvChanged DEF HandleScope

\* The blocks in B do what they may, where nothing is wrong in them: w are
\* the diagnostics, noted the tries, z the outcomes.
LevelSound(w, noted, z, B, f) ==
    \A b \in B : \A sc \in Scopes : \A c \in Contexts : \A env \in Envs : \A target \in Targets :
        EnvOK(env, sc) /\ w[b][sc][c] = {} =>
            \A o \in z[b][env][target] : OutcomeOK(o, f, target, noted[b][FALSE])

(* A try whose call fails.                                                 *)
LEMMA FailsSound ==
    ASSUME NEW f \in Functions, NEW target \in Targets, NEW err \in Values, NEW tried, err \in tried
    PROVE  OutcomeOK(Fails(f, target, err), f, target, tried) /\ Fails(f, target, err).k # "go"
<1>1. CASE target # "out"
  <2>1. Fails(f, target, err) = Outcome(target, err)
    BY <1>1 DEF Fails
  <2> QED
    BY <1>1, <2>1, OutcomeIs DEF OutcomeOK, Targets
<1>2. CASE target = "out"
  <2>1. CASE ret[f].k = "union"
    <3>1. Fails(f, target, err) = Returns(err)
      BY <1>2, <2>1 DEF Fails
    <3>2. Returns(err).k = "return" /\ Returns(err).v = err
      BY OutcomeIs
    <3> QED
      BY <1>2, <3>1, <3>2 DEF OutcomeOK
  <2>2. CASE ret[f].k # "union"
    <3>1. Fails(f, target, err) = Outcome("lost", err)
      BY <1>2, <2>2 DEF Fails
    <3> QED
      BY <3>1, OutcomeIs DEF OutcomeOK
  <2> QED
    BY <2>1, <2>2
<1> QED
  BY <1>1, <1>2

(* A body whose handle takes the errors it was noted.                      *)
LEMMA HandledSound ==
    ASSUME NEW f, NEW outcomes, NEW here \in {"withHandle", "fnHandle"}, NEW noted, NEW handle, NEW env, NEW target,
           NEW tried,
           \A o \in outcomes : OutcomeOK(o, f, here, noted),
           \A v \in noted \cap Values : \A o \in handle[[env EXCEPT ![BindingName] = v]][target] : OutcomeOK(o, f, target, tried)
    PROVE  \A o \in Handled(outcomes, here, noted, handle, env, target) : OutcomeOK(o, f, target, tried)
<1> DEFINE caught == {o.v : o \in {p \in outcomes : p.k = here}}
           H(v) == handle[[env EXCEPT ![BindingName] = v]][target]
<1>1. Handled(outcomes, here, noted, handle, env, target)
        = {o \in outcomes : o.k # here} \cup {Outcome("unseen", v) : v \in caught \ noted} \cup UNION {H(v) : v \in caught}
  BY Zenon DEF Handled
<1>2. \A v \in caught : v \in noted /\ v \in Values
  BY DEF OutcomeOK
<1>3. ASSUME NEW o \in outcomes, o.k # here PROVE OutcomeOK(o, f, target, tried)
  BY <1>3 DEF OutcomeOK
<1>4. ASSUME NEW v \in caught, NEW o \in H(v) PROVE OutcomeOK(o, f, target, tried)
  BY <1>2
<1> HIDE DEF caught, H
<1>5. {Outcome("unseen", v) : v \in caught \ noted} = {}
  BY <1>2
<1> QED
  BY <1>1, <1>3, <1>4, <1>5

(* An expression: it does what it may, and what it goes on with is of its  *)
(* type.                                                                   *)
LEMMA ExprSound ==
    ASSUME ret \in [Functions -> Types], NEW f \in Functions, NEW rs, CallsOK(rs),
           NEW B, NEW w, NEW noted, NEW z, TriesIn(noted, B), LevelSound(w, noted, z, B, f),
           NEW e \in Exprs(B), NEW sc \in Scopes, NEW c \in Contexts, NEW env \in Envs, EnvOK(env, sc),
           NEW target \in Targets, ExprDiags(w, noted, e, sc, f, c) = {},
           NEW o \in ExprOutcomes(z, noted, e, env, f, target, rs)
    PROVE  /\ OutcomeOK(o, f, target, ExprTried(noted, e, ret, FALSE))
           /\ o.k = "go" => InType(o.v, TypeOf(e, ret, sc))
<1> DEFINE tried == ExprTried(noted, e, ret, FALSE)
           ty == TypeOf(e, ret, sc)
<1>1. /\ e.op \in {"val", "none", "error", "var", "call", "try", "catch", "if", "with"}
      /\ e.op = "error" => e.of \in Errors
      /\ e.op = "var" => e.name \in Variables
      /\ e.op \in {"call", "try", "catch"} => e.fun \in Functions
      /\ e.op = "if" => e.then \in B /\ e.else \in B
      /\ e.op = "with" => e.body \in B /\ e.handle \in B /\ e.cleanup \in BOOLEAN
  BY ExprParts
<1>2. SUFFICES OutcomeOK(o, f, target, tried) /\ (o.k = "go" => InType(o.v, ty))
  OBVIOUS
<1>3. ASSUME NEW v, o = Goes(v), InType(v, ty) PROVE OutcomeOK(o, f, target, tried) /\ (o.k = "go" => InType(o.v, ty))
  <2>1. o.k = "go" /\ o.v = v
    BY <1>3, OutcomeIs
  <2> HIDE DEF tried, ty
  <2> QED
    BY <1>3, <2>1 DEF OutcomeOK, InType
<1>4. CASE e.op \in {"val", "none"}
  <2>1. ExprOutcomes(z, noted, e, env, f, target, rs) = {Goes("ok")}
    BY <1>4 DEF ExprOutcomes
  <2> QED
    BY <1>3, <2>1, OkInType
<1>5. CASE e.op = "error"
  <2>1. ExprOutcomes(z, noted, e, env, f, target, rs) = {Goes(e.of)}
    BY <1>5 DEF ExprOutcomes
  <2>2. ty = ErrorSet({e.of})
    BY <1>5 DEF TypeOf
  <2>3. InType(e.of, ErrorSet({e.of}))
    BY <1>1, <1>5 DEF InType, ErrorSet, Values
  <2> QED
    BY <1>3, <2>1, <2>2, <2>3
<1>6. CASE e.op = "var"
  <2>1. ExprOutcomes(z, noted, e, env, f, target, rs) = {Goes(env[e.name])}
    BY <1>6 DEF ExprOutcomes
  <2>2. ty = sc[e.name]
    BY <1>6 DEF TypeOf
  <2> QED
    BY <1>1, <1>3, <1>6, <2>1, <2>2 DEF EnvOK
<1>7. CASE e.op = "call"
  <2>1. ExprOutcomes(z, noted, e, env, f, target, rs) = {Goes(v) : v \in rs[e.fun]}
    BY <1>7 DEF ExprOutcomes
  <2>2. ty = ret[e.fun]
    BY <1>7 DEF TypeOf
  <2>3. PICK v \in rs[e.fun] : o = Goes(v)
    BY <2>1
  <2>4. InType(v, ret[e.fun])
    BY <1>1, <1>7 DEF CallsOK
  <2> QED
    BY <1>3, <2>2, <2>3, <2>4
<1>8. CASE e.op = "catch"
  <2>1. ExprOutcomes(z, noted, e, env, f, target, rs) = {Goes("ok") : v \in rs[e.fun]}
    BY <1>8 DEF ExprOutcomes
  <2> QED
    BY <1>3, <2>1, OkInType
<1>9. CASE e.op = "try"
  <2>1. ExprOutcomes(z, noted, e, env, f, target, rs) = {IF v = "ok" THEN Goes(v) ELSE Fails(f, target, v) : v \in rs[e.fun]}
    BY <1>9 DEF ExprOutcomes
  <2>2. PICK v \in rs[e.fun] : o = IF v = "ok" THEN Goes(v) ELSE Fails(f, target, v)
    BY <2>1
  <2>3. CASE v = "ok"
    BY <1>3, <2>2, <2>3, OkInType
  <2>4. CASE v # "ok"
    <3>1. ret[e.fun].k = "union"
      <4>1. ExprDiags(w, noted, e, sc, f, c)
              = Unless(ret[e.fun].k = "union", "try-non-error-union") \cup Unless(TryAllowed(f, c), "try-context")
        BY <1>9 DEF ExprDiags
      <4>2. Unless(ret[e.fun].k = "union", "try-non-error-union") = {}
        BY <4>1
      <4> QED
        BY <4>2 DEF Unless
    <3>2. InType(v, ret[e.fun])
      BY <1>1, <1>9 DEF CallsOK
    <3>3. v \in UnionSet(ret[e.fun]) /\ v \in Values
      BY <2>4, <3>1, <3>2 DEF InType, UnionSet
    <3>4. tried = UnionSet(ret[e.fun])
      BY <1>9 DEF ExprTried
    <3> HIDE DEF tried
    <3>5. OutcomeOK(Fails(f, target, v), f, target, tried) /\ Fails(f, target, v).k # "go"
      BY <3>3, <3>4, FailsSound
    <3> QED
      BY <2>2, <2>4, <3>5
  <2> QED
    BY <2>3, <2>4
<1>10. CASE e.op = "if"
  <2>1. /\ ExprOutcomes(z, noted, e, env, f, target, rs) = z[e.then][env][target] \cup z[e.else][env][target]
        /\ ExprDiags(w, noted, e, sc, f, c) = w[e.then][sc][c] \cup w[e.else][sc][c]
        /\ tried = noted[e.then][FALSE] \cup noted[e.else][FALSE]
        /\ ty = VoidType
    BY <1>10 DEF ExprOutcomes, ExprDiags, ExprTried, TypeOf
  <2>2. w[e.then][sc][c] = {} /\ w[e.else][sc][c] = {}
    BY <2>1
  <2>3. /\ \A p \in z[e.then][env][target] : OutcomeOK(p, f, target, noted[e.then][FALSE])
        /\ \A p \in z[e.else][env][target] : OutcomeOK(p, f, target, noted[e.else][FALSE])
    BY <1>1, <1>10, <2>2 DEF LevelSound
  <2> HIDE DEF tried, ty
  <2> DEFINE nt == noted[e.then][FALSE]
             ne == noted[e.else][FALSE]
  <2>4. OutcomeOK(o, f, target, nt) \/ OutcomeOK(o, f, target, ne)
    BY <2>1, <2>3
  <2>5. nt \subseteq tried /\ ne \subseteq tried
    BY <2>1
  <2> HIDE DEF nt, ne
  <2>6. OutcomeOK(o, f, target, tried)
    BY <2>4, <2>5, OutcomeMore
  <2> QED
    BY <2>1, <2>6 DEF OutcomeOK, InType, VoidType
<1>11. CASE e.op = "with"
  <2> DEFINE inside == [handle |-> c.handle \/ HasHandle(e), region |-> e.cleanup]
             nb == noted[e.body][FALSE]
             nh == noted[e.handle][FALSE]
             hc == HandleScope(sc, nb)
  <2>1. inside \in Contexts
    BY <1>1, <1>11 DEF Contexts
  <2>2. nb \in SUBSET Errors
    BY <1>1, <1>11 DEF TriesIn
  <2>3. hc \in Scopes
    BY <2>2, HandleScopeType
  <2>4. w[e.body][sc][inside] = {} /\ w[e.handle][hc][inside] = {}
    <3>1. ExprDiags(w, noted, e, sc, f, c) = w[e.body][sc][inside] \cup w[e.handle][hc][inside]
      BY <1>11 DEF ExprDiags
    <3> QED
      BY <3>1
  <2>5. /\ ty = VoidType
        /\ nh \subseteq tried
        /\ ~HasHandle(e) => nb \subseteq tried
    <3> DEFINE j == FALSE \/ HasHandle(e)
    <3>1. tried = noted[e.body][j] \cup nh /\ ty = VoidType
      BY <1>11 DEF ExprTried, TypeOf
    <3>2. ~HasHandle(e) => j = FALSE
      OBVIOUS
    <3> HIDE DEF j, tried
    <3> QED
      BY <3>1, <3>2
  <2>6. ASSUME NEW g \in Targets PROVE \A p \in z[e.body][env][g] : OutcomeOK(p, f, g, nb)
    BY <1>1, <1>11, <2>1, <2>4 DEF LevelSound
  <2>7. ASSUME NEW v \in nb \cap Values
        PROVE  \A p \in z[e.handle][[env EXCEPT ![BindingName] = v]][target] : OutcomeOK(p, f, target, nh)
    <3> DEFINE at == [env EXCEPT ![BindingName] = v]
    <3>1. at \in Envs /\ EnvOK(at, hc)
      BY HandleEntered
    <3> HIDE DEF at, hc, inside
    <3>2. \A p \in z[e.handle][at][target] : OutcomeOK(p, f, target, nh)
      BY <1>1, <1>11, <2>1, <2>3, <2>4, <3>1 DEF LevelSound
    <3> QED
      BY <3>2 DEF at
  <2>8. OutcomeOK(o, f, target, tried)
    <3>1. CASE ~HasHandle(e)
      <4>1. ExprOutcomes(z, noted, e, env, f, target, rs) = z[e.body][env][target]
        BY <1>11, <3>1 DEF ExprOutcomes
      <4>2. OutcomeOK(o, f, target, nb)
        BY <2>6, <4>1
      <4>3. nb \subseteq tried
        BY <2>5, <3>1
      <4> HIDE DEF tried, nb
      <4> QED
        BY <4>2, <4>3, OutcomeMore
    <3>2. CASE HasHandle(e)
      <4> DEFINE outcomes == z[e.body][env]["withHandle"]
                 handle == z[e.handle]
      <4>1. ExprOutcomes(z, noted, e, env, f, target, rs) = Handled(outcomes, "withHandle", nb, handle, env, target)
        BY <1>11, <3>2 DEF ExprOutcomes
      <4>2. \A p \in outcomes : OutcomeOK(p, f, "withHandle", nb)
        BY <2>6 DEF Targets
      <4>3. \A v \in nb \cap Values : \A p \in handle[[env EXCEPT ![BindingName] = v]][target] : OutcomeOK(p, f, target, nh)
        BY <2>7
      <4> HIDE DEF outcomes, handle, nb, nh
      <4>4. \A p \in Handled(outcomes, "withHandle", nb, handle, env, target) : OutcomeOK(p, f, target, nh)
        BY <4>2, <4>3, HandledSound
      <4>5. OutcomeOK(o, f, target, nh)
        BY <4>1, <4>4
      <4>6. nh \subseteq tried
        BY <2>5
      <4> HIDE DEF tried
      <4> QED
        BY <4>5, <4>6, OutcomeMore
    <3> QED
      BY <3>1, <3>2
  <2> HIDE DEF tried, ty
  <2> QED
    BY <2>5, <2>8 DEF OutcomeOK, InType, VoidType
<1> QED
  BY <1>1, <1>4, <1>5, <1>6, <1>7, <1>8, <1>9, <1>10, <1>11

\* The types of the functions when the bodies are checked: known, and not
\* those of payloads or errors alone.
RetsKnown ==
    /\ ret \in [Functions -> Types]
    /\ \A g \in Functions : ret[g].known /\ ret[g].k \in {"union", "void"}

(* A value that may be returned is one that the callers see.               *)
LEMMA CoercesSound ==
    ASSUME RetsKnown, NEW f \in Functions, ret[f].k = "union",
           NEW ty, NEW v, InType(v, ty), Coerces(ty, ret[f])
    PROVE  v \in ret[f].set \cup {"ok"}
BY DEF RetsKnown, InType, Coerces

(* After a statement that goes on, the names have values of their types.   *)
LEMMA AfterSound ==
    ASSUME ret \in [Functions -> Types], NEW B, NEW s \in Stmts(B),
           NEW sc \in Scopes, NEW env \in Envs, EnvOK(env, sc), NEW outcomes,
           \A o \in outcomes : o.k = "go" => InType(o.v, TypeOf(s.arg, ret, sc)),
           NEW at \in After(outcomes, s, env)
    PROVE  at \in Envs /\ EnvOK(at, Scoped(s, ret, sc))
<1> DEFINE ty == TypeOf(s.arg, ret, sc)
<1>1. s.op \in {"let", "expr", "return", "while"} /\ (s.op = "let" => s.name \in Variables)
  BY StmtParts
<1>2. \A v \in Going(outcomes) : InType(v, ty)
  BY DEF Going
<1>3. Scoped(s, ret, sc) = IF s.op = "let" THEN [sc EXCEPT ![s.name] = ty] ELSE sc
  BY DEF Scoped
<1>4. CASE s.op = "let"
  <2>1. After(outcomes, s, env) = {[env EXCEPT ![s.name] = v] : v \in Going(outcomes)}
    BY <1>4 DEF After
  <2>2. PICK v \in Going(outcomes) : at = [env EXCEPT ![s.name] = v]
    BY <2>1
  <2>3. InType(v, ty) /\ s.name \in Variables
    BY <1>1, <1>2, <1>4
  <2> DEFINE a == [env EXCEPT ![s.name] = v]
             b == [sc EXCEPT ![s.name] = ty]
  <2> HIDE DEF ty
  <2>4. a \in Envs /\ EnvOK(a, b)
    BY <2>3, EnvChanged
  <2>5. Scoped(s, ret, sc) = b /\ at = a
    BY <1>3, <1>4, <2>2
  <2> HIDE DEF a, b
  <2> QED
    BY <2>4, <2>5
<1>5. CASE s.op = "return"
  BY <1>5 DEF After
<1>6. CASE s.op \in {"expr", "while"}
  <2>1. After(outcomes, s, env) = {env : v \in Going(outcomes)}
    BY <1>6 DEF After
  <2> HIDE DEF ty
  <2> QED
    BY <1>3, <1>6, <2>1
<1> QED
  BY <1>1, <1>4, <1>5, <1>6

(* How a statement leaves its block.                                       *)
LEMMA ExitsSound ==
    ASSUME RetsKnown, NEW f \in Functions, NEW B, NEW w, NEW noted, NEW z, LevelSound(w, noted, z, B, f),
           NEW s \in Stmts(B), NEW sc \in Scopes, NEW c \in Contexts, NEW env \in Envs, EnvOK(env, sc),
           NEW target \in Targets, NEW outcomes, StmtDiags(w, noted, s, sc, f, c) = {},
           \A o \in outcomes : /\ OutcomeOK(o, f, target, ExprTried(noted, s.arg, ret, FALSE))
                               /\ o.k = "go" => InType(o.v, TypeOf(s.arg, ret, sc)),
           NEW o \in Exits(z, outcomes, s, env, target)
    PROVE  OutcomeOK(o, f, target, StmtTried(noted, s, ret, FALSE)) /\ o.k # "go"
<1> DEFINE ty == TypeOf(s.arg, ret, sc)
           ta == ExprTried(noted, s.arg, ret, FALSE)
           tb == noted[s.body][FALSE]
           ts == StmtTried(noted, s, ret, FALSE)
<1> SUFFICES OutcomeOK(o, f, target, ts) /\ o.k # "go"
  OBVIOUS
<1>1. s.op \in {"let", "expr", "return", "while"} /\ (s.op = "while" => s.body \in B)
  BY StmtParts
<1>2. /\ ta \subseteq ts
      /\ s.op = "while" => tb \subseteq ts
  BY DEF StmtTried
<1>3. /\ s.op = "return" => Coerces(ty, ret[f])
      /\ s.op = "while" => w[s.body][sc][c] = {}
  <2>1. /\ Unless(s.op = "return" => Coerces(ty, ret[f]), "wrong-error-set") = {}
        /\ (IF s.op = "while" THEN w[s.body][sc][c] ELSE {}) = {}
    BY DEF StmtDiags
  <2> HIDE DEF ty
  <2> QED
    BY <2>1 DEF Unless
<1>4. \A v \in Going(outcomes) : InType(v, ty)
  BY DEF Going
<1>5. ASSUME o \in Leaving(outcomes) PROVE OutcomeOK(o, f, target, ts) /\ o.k # "go"
  <2>1. OutcomeOK(o, f, target, ta) /\ o.k # "go"
    BY <1>5 DEF Leaving
  <2> HIDE DEF ta, ts
  <2> QED
    BY <1>2, <2>1, OutcomeMore
<1>6. CASE s.op = "return"
  <2>1. Exits(z, outcomes, s, env, target) = Leaving(outcomes) \cup {Returns(v) : v \in Going(outcomes)}
    BY <1>6 DEF Exits
  <2>2. ASSUME NEW v \in Going(outcomes), o = Returns(v) PROVE OutcomeOK(o, f, target, ts) /\ o.k # "go"
    <3>1. o.k = "return" /\ o.v = v
      BY <2>2, OutcomeIs
    <3>2. InType(v, ty) /\ Coerces(ty, ret[f])
      BY <1>3, <1>4, <1>6
    <3> HIDE DEF ty, ts
    <3>3. ret[f].k = "union" => v \in ret[f].set \cup {"ok"}
      BY <3>2, CoercesSound
    <3>4. v \in Values
      BY <3>2 DEF InType
    <3> QED
      BY <3>1, <3>3, <3>4 DEF OutcomeOK
  <2> HIDE DEF ts
  <2> QED
    BY <1>5, <2>1, <2>2
<1>7. CASE s.op = "while"
  <2> DEFINE body == z[s.body][env][target]
  <2>1. Exits(z, outcomes, s, env, target) = Leaving(outcomes) \cup UNION {Leaving(body) : v \in Going(outcomes)}
    BY <1>7 DEF Exits
  <2>2. \A p \in body : OutcomeOK(p, f, target, tb)
    BY <1>1, <1>3, <1>7 DEF LevelSound
  <2>3. ASSUME o \in Leaving(body) PROVE OutcomeOK(o, f, target, ts) /\ o.k # "go"
    <3>1. OutcomeOK(o, f, target, tb) /\ o.k # "go"
      BY <2>2, <2>3 DEF Leaving
    <3> HIDE DEF tb, ts
    <3> QED
      BY <1>2, <1>7, <3>1, OutcomeMore
  <2> HIDE DEF ts, body
  <2> QED
    BY <1>5, <2>1, <2>3
<1>8. CASE s.op \in {"let", "expr"}
  <2>1. Exits(z, outcomes, s, env, target) = Leaving(outcomes)
    BY <1>8 DEF Exits
  <2> HIDE DEF ts
  <2> QED
    BY <1>5, <2>1
<1> QED
  BY <1>1, <1>6, <1>7, <1>8

(* The values of the names after a statement.                              *)
LEMMA EnvsAtHas ==
    ASSUME NEW prev, NEW z, NEW noted, NEW b, NEW env, NEW f, NEW g, NEW rs, NEW m, NEW after
    PROVE  after \in EnvsAt(prev, z, noted, b, env, f, g, rs, m)
              <=> \E at \in prev : after \in After(ExprOutcomes(z, noted, b.stmts[m].arg, at, f, g, rs), b.stmts[m], at)
  BY Zenon DEF EnvsAt

(* What a block does is what its statements, reached, and its tail do.     *)
LEMMA BlockOutcomesHas ==
    ASSUME NEW o, NEW z, NEW noted, NEW b, NEW env, NEW f, NEW g, NEW rs
    PROVE  o \in BlockOutcomes(z, noted, b, env, f, g, rs)
              <=> \/ \E at \in EnvsIn(z, noted, b, env, f, g, rs)[Len(b.stmts)] :
                        o \in ExprOutcomes(z, noted, b.tail, at, f, g, rs)
                  \/ \E i \in DOMAIN b.stmts : \E at \in EnvsIn(z, noted, b, env, f, g, rs)[i - 1] :
                        o \in Exits(z, ExprOutcomes(z, noted, b.stmts[i].arg, at, f, g, rs), b.stmts[i], at, g)
<1> DEFINE u == EnvsIn(z, noted, b, env, f, g, rs)
           X(e, at) == ExprOutcomes(z, noted, e, at, f, g, rs)
           T == UNION {X(b.tail, at) : at \in u[Len(b.stmts)]}
           S(i) == UNION {Exits(z, X(b.stmts[i].arg, at), b.stmts[i], at, g) : at \in u[i - 1]}
           U == UNION {S(i) : i \in DOMAIN b.stmts}
<1>1. BlockOutcomes(z, noted, b, env, f, g, rs) = T \cup U
  BY Zenon DEF BlockOutcomes
<1>2. o \in T <=> \E at \in u[Len(b.stmts)] : o \in X(b.tail, at)
  BY Zenon
<1>3. \A i : o \in S(i) <=> \E at \in u[i - 1] : o \in Exits(z, X(b.stmts[i].arg, at), b.stmts[i], at, g)
  BY Zenon
<1>4. o \in U <=> \E i \in DOMAIN b.stmts : o \in S(i)
  <2> HIDE DEF S
  <2> QED
    BY Zenon
<1> HIDE DEF T, S, U
<1>5. o \in BlockOutcomes(z, noted, b, env, f, g, rs) <=> o \in T \/ o \in U
  BY <1>1
<1> QED
  BY <1>2, <1>3, <1>4, <1>5, Zenon

(* What is wrong in a block is wrong in its statements or its tail.        *)
LEMMA BlockDiagsHas ==
    ASSUME NEW d, NEW w, NEW noted, NEW b, NEW sc, NEW f, NEW c
    PROVE  d \in BlockDiags(w, noted, b, sc, f, c)
              <=> \/ d \in ExprDiags(w, noted, b.tail, ScopesIn(b, ret, sc)[Len(b.stmts)], f, c)
                  \/ \E i \in DOMAIN b.stmts : d \in StmtDiags(w, noted, b.stmts[i], ScopesIn(b, ret, sc)[i - 1], f, c)
  BY Zenon DEF BlockDiags

(* A block without diagnostics has none in any of its parts.               *)
LEMMA BlockDiagsNone ==
    ASSUME NEW w, NEW noted, NEW b, NEW sc, NEW f, NEW c, BlockDiags(w, noted, b, sc, f, c) = {}
    PROVE  /\ ExprDiags(w, noted, b.tail, ScopesIn(b, ret, sc)[Len(b.stmts)], f, c) = {}
           /\ \A i \in DOMAIN b.stmts : StmtDiags(w, noted, b.stmts[i], ScopesIn(b, ret, sc)[i - 1], f, c) = {}
<1>1. ASSUME NEW d, d \in ExprDiags(w, noted, b.tail, ScopesIn(b, ret, sc)[Len(b.stmts)], f, c) PROVE FALSE
  BY <1>1, BlockDiagsHas, Zenon
<1>2. ASSUME NEW i \in DOMAIN b.stmts, NEW d, d \in StmtDiags(w, noted, b.stmts[i], ScopesIn(b, ret, sc)[i - 1], f, c)
      PROVE  FALSE
  BY <1>2, BlockDiagsHas, Zenon
<1> QED
  BY <1>1, <1>2

(* The scopes and the values that a block's statements are reached with.   *)
LEMMA EnvsSound ==
    ASSUME RetsKnown, NEW f \in Functions, NEW rs, CallsOK(rs),
           NEW B, NEW w, NEW noted, NEW z, TriesIn(noted, B), LevelSound(w, noted, z, B, f),
           NEW b, b.stmts \in Seq(Stmts(B)), b.tail \in Exprs(B), NEW sc \in Scopes, NEW c \in Contexts,
           NEW env \in Envs, EnvOK(env, sc), NEW target \in Targets, BlockDiags(w, noted, b, sc, f, c) = {}
    PROVE  \A i \in 0..Len(b.stmts) : \A at \in EnvsIn(z, noted, b, env, f, target, rs)[i] :
              at \in Envs /\ EnvOK(at, ScopesIn(b, ret, sc)[i])
<1> DEFINE n == Len(b.stmts)
           x == ScopesIn(b, ret, sc)
           u == EnvsIn(z, noted, b, env, f, target, rs)
           D == {i \in Nat : i <= n => \A at \in u[i] : at \in Envs /\ EnvOK(at, x[i])}
<1>0. ret \in [Functions -> Types]
  BY DEF RetsKnown
<1>1. n \in Nat /\ DOMAIN b.stmts = 1..n /\ \A i \in 1..n : b.stmts[i] \in Stmts(B)
  BY StmtsRange
<1>2. /\ x[0] = sc /\ \A i \in 1..n : x[i] = Scoped(b.stmts[i], ret, x[i - 1])
      /\ \A i \in 0..n : x[i] \in Scopes
  BY <1>0, ScopesStep, ScopesInType
<1>3. u[0] = {env} /\ \A i \in 1..n : u[i] = EnvsAt(u[i - 1], z, noted, b, env, f, target, rs, i)
  BY <1>1, EnvsIs
<1>4. \A i \in 1..n : StmtDiags(w, noted, b.stmts[i], x[i - 1], f, c) = {}
  BY <1>1, BlockDiagsNone
<1> HIDE DEF u, x, n
<1>5. 0 \in D
  BY <1>2, <1>3
<1>6. ASSUME NEW k \in D \cap Nat PROVE k + 1 \in D
  <2> SUFFICES ASSUME k + 1 <= n, NEW after \in u[k + 1] PROVE after \in Envs /\ EnvOK(after, x[k + 1])
    OBVIOUS
  <2>1. k + 1 \in 1..n /\ (k + 1) - 1 = k /\ k \in 0..n /\ \A at \in u[k] : at \in Envs /\ EnvOK(at, x[k])
    BY <1>1
  <2> DEFINE s == b.stmts[k + 1]
  <2>2. u[k + 1] = EnvsAt(u[k], z, noted, b, env, f, target, rs, k + 1)
    BY <1>3, <2>1
  <2>3. PICK at \in u[k] : after \in After(ExprOutcomes(z, noted, s.arg, at, f, target, rs), s, at)
    BY <2>2, EnvsAtHas
  <2>4. s \in Stmts(B) /\ x[k] \in Scopes /\ x[k + 1] = Scoped(s, ret, x[k]) /\ at \in Envs /\ EnvOK(at, x[k])
        /\ StmtDiags(w, noted, s, x[k], f, c) = {}
    BY <1>1, <1>2, <1>4, <2>1
  <2> HIDE DEF s
  <2>5. s.arg \in Exprs(B) /\ ExprDiags(w, noted, s.arg, x[k], f, c) = {}
    BY <2>4, StmtParts DEF StmtDiags
  <2> DEFINE outcomes == ExprOutcomes(z, noted, s.arg, at, f, target, rs)
  <2>6. \A o \in outcomes : o.k = "go" => InType(o.v, TypeOf(s.arg, ret, x[k]))
    BY <1>0, <2>4, <2>5, ExprSound
  <2>7. after \in After(outcomes, s, at)
    BY <2>3
  <2> HIDE DEF outcomes
  <2> QED
    BY <1>0, <2>4, <2>6, <2>7, AfterSound
<1> HIDE DEF D
<1>7. Nat \subseteq D
  BY <1>5, <1>6, Induct
<1> QED
  BY <1>1, <1>7 DEF D, u, x, n

(* A block in which nothing is wrong, by the blocks in it.                 *)
LEMMA BlockSound ==
    ASSUME RetsKnown, NEW f \in Functions, NEW rs, CallsOK(rs),
           NEW B, NEW w, NEW noted, NEW z, TriesIn(noted, B), LevelSound(w, noted, z, B, f),
           NEW b, b.stmts \in Seq(Stmts(B)), b.tail \in Exprs(B), NEW sc \in Scopes, NEW c \in Contexts,
           NEW env \in Envs, EnvOK(env, sc), NEW target \in Targets, BlockDiags(w, noted, b, sc, f, c) = {},
           NEW o \in BlockOutcomes(z, noted, b, env, f, target, rs)
    PROVE  /\ OutcomeOK(o, f, target, BlockTried(noted, b, ret, FALSE))
           /\ o.k = "go" => InType(o.v, TypeOf(b.tail, ret, ScopesIn(b, ret, sc)[Len(b.stmts)]))
<1> DEFINE n == Len(b.stmts)
           x == ScopesIn(b, ret, sc)
           u == EnvsIn(z, noted, b, env, f, target, rs)
           tried == BlockTried(noted, b, ret, FALSE)
<1> SUFFICES OutcomeOK(o, f, target, tried) /\ (o.k = "go" => InType(o.v, TypeOf(b.tail, ret, x[n])))
  OBVIOUS
<1>0. ret \in [Functions -> Types]
  BY DEF RetsKnown
<1>1. /\ n \in Nat /\ DOMAIN b.stmts = 1..n /\ \A i \in 1..n : b.stmts[i] \in Stmts(B)
      /\ \A i \in 1..n : b.stmts[i] \in Range(b.stmts)
  <2>1. /\ n \in Nat /\ DOMAIN b.stmts = 1..n /\ \A i \in 1..n : b.stmts[i] \in Stmts(B)
    BY StmtsRange
  <2> QED
    BY <2>1 DEF Range
<1>2. \A i \in 0..n : x[i] \in Scopes /\ \A at \in u[i] : at \in Envs /\ EnvOK(at, x[i])
  BY <1>0, ScopesInType, EnvsSound
<1>3. /\ ExprDiags(w, noted, b.tail, x[n], f, c) = {}
      /\ \A i \in 1..n : StmtDiags(w, noted, b.stmts[i], x[i - 1], f, c) = {}
  BY <1>1, BlockDiagsNone
<1>4. \/ \E at \in u[n] : o \in ExprOutcomes(z, noted, b.tail, at, f, target, rs)
      \/ \E i \in 1..n : \E at \in u[i - 1] :
            o \in Exits(z, ExprOutcomes(z, noted, b.stmts[i].arg, at, f, target, rs), b.stmts[i], at, target)
  BY <1>1, BlockOutcomesHas
<1>5. /\ ExprTried(noted, b.tail, ret, FALSE) \subseteq tried
      /\ \A s \in Range(b.stmts) : StmtTried(noted, s, ret, FALSE) \subseteq tried
  BY BlockTriedHas
<1> HIDE DEF n, x, u, tried
<1>6. CASE \E at \in u[n] : o \in ExprOutcomes(z, noted, b.tail, at, f, target, rs)
  <2>1. PICK at \in u[n] : o \in ExprOutcomes(z, noted, b.tail, at, f, target, rs)
    BY <1>6
  <2>2. at \in Envs /\ x[n] \in Scopes /\ EnvOK(at, x[n])
    BY <1>1, <1>2
  <2> DEFINE te == ExprTried(noted, b.tail, ret, FALSE)
  <2>3. OutcomeOK(o, f, target, te) /\ (o.k = "go" => InType(o.v, TypeOf(b.tail, ret, x[n])))
    BY <1>0, <1>3, <2>1, <2>2, ExprSound
  <2>4. te \subseteq tried
    BY <1>5
  <2> HIDE DEF te
  <2> QED
    BY <2>3, <2>4, OutcomeMore
<1>7. CASE \E i \in 1..n : \E at \in u[i - 1] :
            o \in Exits(z, ExprOutcomes(z, noted, b.stmts[i].arg, at, f, target, rs), b.stmts[i], at, target)
  <2>1. PICK i \in 1..n : \E at \in u[i - 1] :
            o \in Exits(z, ExprOutcomes(z, noted, b.stmts[i].arg, at, f, target, rs), b.stmts[i], at, target)
    BY <1>7
  <2>2. PICK at \in u[i - 1] :
            o \in Exits(z, ExprOutcomes(z, noted, b.stmts[i].arg, at, f, target, rs), b.stmts[i], at, target)
    BY <2>1
  <2> DEFINE s == b.stmts[i]
             sd == x[i - 1]
             outcomes == ExprOutcomes(z, noted, s.arg, at, f, target, rs)
             ts == StmtTried(noted, s, ret, FALSE)
  <2>3. i - 1 \in 0..n
    BY <1>1
  <2>4. /\ s \in Stmts(B) /\ s \in Range(b.stmts) /\ at \in Envs /\ sd \in Scopes /\ EnvOK(at, sd)
        /\ StmtDiags(w, noted, s, sd, f, c) = {} /\ o \in Exits(z, outcomes, s, at, target)
    BY <1>1, <1>2, <1>3, <2>2, <2>3
  <2> HIDE DEF s, sd
  <2>5. s.arg \in Exprs(B) /\ ExprDiags(w, noted, s.arg, sd, f, c) = {}
    BY <2>4, StmtParts DEF StmtDiags
  <2>6. \A p \in outcomes : /\ OutcomeOK(p, f, target, ExprTried(noted, s.arg, ret, FALSE))
                            /\ p.k = "go" => InType(p.v, TypeOf(s.arg, ret, sd))
    BY <1>0, <2>4, <2>5, ExprSound
  <2> HIDE DEF outcomes
  <2>7. OutcomeOK(o, f, target, ts) /\ o.k # "go"
    BY <2>4, <2>6, ExitsSound
  <2>8. ts \subseteq tried
    BY <1>5, <2>4
  <2> HIDE DEF ts
  <2> QED
    BY <2>7, <2>8, OutcomeMore
<1> QED
  BY <1>4, <1>6, <1>7

(* Blocks of every level.                                                  *)
LEMMA LevelsSound ==
    ASSUME RetsKnown, NEW f \in Functions, NEW rs, CallsOK(rs)
    PROVE  \A n \in 0..Nesting : LevelSound(Diags(f)[n], Tried(ret)[n], Outcomes(f, rs)[n], Blocks[n], f)
<1> DEFINE d == Diags(f)
           t == Tried(ret)
           r == Outcomes(f, rs)
           D == {n \in Nat : n <= Nesting => LevelSound(d[n], t[n], r[n], Blocks[n], f)}
<1>0. Nesting \in Nat /\ ret \in [Functions -> Types]
  BY ProgramsAssumption DEF RetsKnown
<1>1. 0 \in D
  <2>1. \A env \in Envs : \A g \in Targets : r[0][NoBlock][env][g] = {Goes("ok")}
    BY OutcomesStep
  <2>2. Blocks[0] = {NoBlock}
    BY BlocksIs
  <2>3. \A g, tried : OutcomeOK(Goes("ok"), f, g, tried)
    BY OutcomeIs DEF Values, OutcomeOK
  <2> HIDE DEF d, t, r
  <2>4. ASSUME NEW b \in Blocks[0], NEW env \in Envs, NEW g \in Targets, NEW o \in r[0][b][env][g]
        PROVE  OutcomeOK(o, f, g, t[0][b][FALSE])
    <3>1. o = Goes("ok")
      BY <2>1, <2>2
    <3> QED
      BY <2>3, <3>1
  <2>5. LevelSound(d[0], t[0], r[0], Blocks[0], f)
    BY <2>4, Zenon DEF LevelSound
  <2> QED
    BY <2>5
<1>2. ASSUME NEW k \in D \cap Nat PROVE k + 1 \in D
  <2> SUFFICES ASSUME k + 1 <= Nesting PROVE LevelSound(d[k + 1], t[k + 1], r[k + 1], Blocks[k + 1], f)
    OBVIOUS
  <2>1. k + 1 \in 1..Nesting /\ (k + 1) - 1 = k /\ k \in 0..Nesting /\ LevelSound(d[k], t[k], r[k], Blocks[k], f)
    BY <1>0
  <2> SUFFICES ASSUME NEW b \in Blocks[k + 1], NEW sc \in Scopes, NEW c \in Contexts, NEW env \in Envs,
                      NEW g \in Targets, EnvOK(env, sc), d[k + 1][b][sc][c] = {}, NEW o \in r[k + 1][b][env][g]
               PROVE  OutcomeOK(o, f, g, t[k + 1][b][FALSE])
    BY Zenon DEF LevelSound
  <2> DEFINE B == Blocks[k]
             w == d[k]
             noted == t[k]
             z == r[k]
  <2>2. b.stmts \in Seq(Stmts(B)) /\ b.tail \in Exprs(B)
    BY <2>1, Parts
  <2>3. /\ d[k + 1][b][sc][c] = BlockDiags(w, noted, b, sc, f, c)
        /\ t[k + 1][b][FALSE] = BlockTried(noted, b, ret, FALSE)
        /\ r[k + 1][b][env][g] = BlockOutcomes(z, noted, b, env, f, g, rs)
    <3>1. d[k + 1][b][sc][c] = BlockDiags(w, noted, b, sc, f, c)
      BY <2>1, DiagsStep
    <3>2. t[k + 1][b][FALSE] = BlockTried(noted, b, ret, FALSE)
      <4>1. \A i \in BOOLEAN : t[k + 1][b][i] = BlockTried(noted, b, ret, i)
        BY <2>1, TriedStep
      <4> QED
        BY <4>1
    <3>3. r[k + 1][b][env][g] = BlockOutcomes(z, noted, b, env, f, g, rs)
      BY <2>1, OutcomesStep
    <3> QED
      BY <3>1, <3>2, <3>3
  <2>4. LevelSound(w, noted, z, B, f) /\ TriesIn(noted, B)
    BY <1>0, <2>1, TriedType
  <2> HIDE DEF d, t, r, B, w, noted, z
  <2>5. BlockDiags(w, noted, b, sc, f, c) = {} /\ o \in BlockOutcomes(z, noted, b, env, f, g, rs)
    BY <2>3
  <2>6. OutcomeOK(o, f, g, BlockTried(noted, b, ret, FALSE))
    BY <2>2, <2>4, <2>5, BlockSound
  <2> QED
    BY <2>3, <2>6
<1> HIDE DEF D
<1>3. Nat \subseteq D
  BY <1>1, <1>2, Induct
<1> QED
  BY <1>0, <1>3 DEF D

(* An absent block tries nothing.                                          *)
LEMMA AbsentTried == ASSUME NEW rets, NEW b \in Blocks[Nesting], b.absent PROVE Noted(b, rets) = {}
<1>0. Nesting \in Nat
  BY ProgramsAssumption
<1>1. b = NoBlock
  <2>1. Nesting = 0 \/ Nesting \in 1..Nesting
    BY <1>0
  <2>2. CASE Nesting = 0
    BY <2>2, BlocksIs
  <2>3. CASE Nesting \in 1..Nesting
    <3> DEFINE S == Seq(Stmts(Blocks[Nesting - 1]))
               E == Exprs(Blocks[Nesting - 1])
    <3>1. Blocks[Nesting] = {NoBlock} \cup [stmts : S, tail : E, absent : {FALSE}]
      BY <2>3, BlocksIs DEF BlocksAt
    <3> HIDE DEF S, E
    <3> QED
      BY <3>1
  <2> QED
    BY <2>1, <2>2, <2>3
<1>2. \A n \in 0..Nesting : \A i \in BOOLEAN : Tried(rets)[n][NoBlock][i] = {}
  <2>1. ASSUME NEW n \in 1..Nesting, NEW i \in BOOLEAN PROVE Tried(rets)[n][NoBlock][i] = {}
    <3> DEFINE w == Tried(rets)[n - 1]
    <3>1. n \in 0..Nesting
      BY <1>0
    <3>2. NoBlock \in Blocks[n]
      BY <3>1, Absent
    <3>3. Tried(rets)[n][NoBlock][i] = BlockTried(w, NoBlock, rets, i)
      BY <3>2, TriedStep
    <3> HIDE DEF w
    <3>4. NoBlock.stmts = <<>> /\ NoBlock.tail = [op |-> "none"]
      BY DEF NoBlock
    <3>5. Range(NoBlock.stmts) = {}
      BY <3>4 DEF Range
    <3>6. ExprTried(w, NoBlock.tail, rets, i) = {}
      BY <3>4 DEF ExprTried
    <3> QED
      BY <3>3, <3>5, <3>6, BlockTriedHas
  <2>2. \A n \in 0..Nesting : n = 0 \/ n \in 1..Nesting
    BY <1>0
  <2> QED
    BY <2>1, <2>2, TriedStep
<1> QED
  <2>1. Nesting \in 0..Nesting
    BY <1>0
  <2>2. \A i \in BOOLEAN : Tried(rets)[Nesting][NoBlock][i] = {}
    BY <1>2, <2>1
  <2>3. Tried(rets)[Nesting][NoBlock][FALSE] = {}
    BY <2>2
  <2> QED
    BY <1>1, <2>3 DEF Noted

(* The body of a function whose handle is noted its tries.                 *)
LEMMA BodySound ==
    ASSUME RetsKnown, prog \in [Functions -> FunDecls], NEW f \in Functions, NEW rs, CallsOK(rs),
           FunDiags(f) = {}, NEW o \in Outcomes(f, rs)[Nesting][prog[f].body][NoValues][TryTarget(f)]
    PROVE  /\ OutcomeOK(o, f, TryTarget(f), Binding(f))
           /\ o.k = "go" /\ ret[f].k = "union" /\ prog[f].body.tail.op # "none" => o.v \in ret[f].set \cup {"ok"}
<1> DEFINE fn == prog[f]
           c == [handle |-> FALSE, region |-> FALSE]
           g == TryTarget(f)
           tail == TypeOf(fn.body.tail, ret, ScopesIn(fn.body, ret, NoNames)[Len(fn.body.stmts)])
<1>0. Nesting \in Nat /\ Nesting \in 0..Nesting /\ ret \in [Functions -> Types]
  BY ProgramsAssumption DEF RetsKnown
<1>1. fn.body \in Blocks[Nesting] /\ fn.handle \in Blocks[Nesting]
  BY FunParts
<1>2. c \in Contexts /\ g \in Targets /\ NoNames \in Scopes /\ NoValues \in Envs /\ EnvOK(NoValues, NoNames)
  BY NoNamesType, OkInType DEF Contexts, TryTarget, Targets, NoValues, Envs, Values, EnvOK
<1>3. /\ Diags(f)[Nesting][fn.body][NoNames][c] = {}
      /\ ret[f].k = "union" /\ fn.body.tail.op # "none" => Coerces(tail, ret[f])
  <2>1. /\ Diags(f)[Nesting][fn.body][NoNames][c] = {}
        /\ Unless(ret[f].k = "union" /\ fn.body.tail.op # "none" => Coerces(tail, ret[f]), "wrong-error-set") = {}
    BY DEF FunDiags
  <2> HIDE DEF tail, fn
  <2> QED
    BY <2>1 DEF Unless
<1>4. OutcomeOK(o, f, g, Tried(ret)[Nesting][fn.body][FALSE])
  <2>1. LevelSound(Diags(f)[Nesting], Tried(ret)[Nesting], Outcomes(f, rs)[Nesting], Blocks[Nesting], f)
    BY <1>0, LevelsSound
  <2> HIDE DEF g, c, tail
  <2> QED
    BY <1>1, <1>2, <1>3, <2>1 DEF LevelSound, g
<1>5. ASSUME o.k = "go", ret[f].k = "union", fn.body.tail.op # "none" PROVE o.v \in ret[f].set \cup {"ok"}
  <2>1. CASE Nesting = 0
    <3>1. fn.body = NoBlock
      BY <1>1, <2>1, BlocksIs
    <3> QED
      BY <1>5, <3>1 DEF NoBlock
  <2>2. CASE Nesting # 0
    <3> DEFINE B == Blocks[Nesting - 1]
               w == Diags(f)[Nesting - 1]
               noted == Tried(ret)[Nesting - 1]
               z == Outcomes(f, rs)[Nesting - 1]
               b == fn.body
    <3>1. Nesting \in 1..Nesting /\ Nesting - 1 \in 0..Nesting
      BY <1>0, <2>2
    <3>2. b.stmts \in Seq(Stmts(B)) /\ b.tail \in Exprs(B)
      BY <1>1, <3>1, Parts
    <3>3. Diags(f)[Nesting][b][NoNames][c] = BlockDiags(w, noted, b, NoNames, f, c)
      BY <1>1, <1>2, <3>1, DiagsStep
    <3>4. Outcomes(f, rs)[Nesting][b][NoValues][g] = BlockOutcomes(z, noted, b, NoValues, f, g, rs)
      BY <1>1, <1>2, <3>1, OutcomesStep
    <3>5. LevelSound(w, noted, z, B, f) /\ TriesIn(noted, B)
      BY <1>0, <3>1, LevelsSound, TriedType
    <3>6. BlockDiags(w, noted, b, NoNames, f, c) = {} /\ o \in BlockOutcomes(z, noted, b, NoValues, f, g, rs)
      BY <1>3, <3>3, <3>4
    <3> HIDE DEF B, w, noted, z, b, g, c
    <3>7. InType(o.v, TypeOf(b.tail, ret, ScopesIn(b, ret, NoNames)[Len(b.stmts)]))
      BY <1>2, <1>5, <3>2, <3>5, <3>6, BlockSound
    <3>8. InType(o.v, tail)
      BY <3>7 DEF b
    <3>9. Coerces(tail, ret[f])
      BY <1>3, <1>5
    <3> HIDE DEF tail
    <3> QED
      BY <1>5, <3>8, <3>9, CoercesSound
  <2> QED
    BY <2>1, <2>2
<1> QED
  BY <1>4, <1>5 DEF Binding, Noted

(* A function in which nothing is wrong and that the C compiler takes: it  *)
(* returns what its callers see, and no handle is entered with an error it *)
(* was not noted.                                                          *)
LEMMA FunSound ==
    ASSUME RetsKnown, prog \in [Functions -> FunDecls], NEW f \in Functions, NEW rs, CallsOK(rs),
           FunDiags(f) = {}, Builds(f), NEW o \in FunOutcomes(f, rs)
    PROVE  /\ o.v \in Values /\ o.k \in {"return", "lost", "fnHandle", "end"}
           /\ o.k = "return" => InType(o.v, ret[f])
<1> DEFINE fn == prog[f]
           c == [handle |-> FALSE, region |-> FALSE]
           g == TryTarget(f)
           run == Outcomes(f, rs)[Nesting]
           Then(p) == IF p.k = "go" /\ fn.ret # "void" /\ fn.body.tail.op # "none" THEN Returns(p.v) ELSE p
           raw == run[fn.body][NoValues][g]
           body == {Then(p) : p \in raw}
           end == IF fn.ret = "void" THEN Returns("ok") ELSE Outcome("end", "ok")
           handle == run[fn.handle]
           noted == Binding(f)
           tried == Noted(fn.handle, ret)
           hc == HandleScope(NoNames, noted)
<1>0. Nesting \in Nat /\ Nesting \in 0..Nesting /\ ret \in [Functions -> Types]
  BY ProgramsAssumption DEF RetsKnown
<1>1. fn.body \in Blocks[Nesting] /\ fn.handle \in Blocks[Nesting]
  BY FunParts
<1>2. /\ c \in Contexts /\ NoNames \in Scopes /\ NoValues \in Envs /\ EnvOK(NoValues, NoNames)
      /\ g = (IF HasHandle(fn) THEN "fnHandle" ELSE "out") /\ g \in Targets
  BY NoNamesType, OkInType DEF Contexts, TryTarget, Targets, NoValues, Envs, Values, EnvOK
<1>3. \A p \in raw : /\ OutcomeOK(p, f, g, noted)
                     /\ p.k = "go" /\ ret[f].k = "union" /\ fn.body.tail.op # "none" => p.v \in ret[f].set \cup {"ok"}
  BY BodySound
<1>4. g = "out" /\ ret[f].k = "union" => noted \subseteq ret[f].set
  BY <1>2 DEF Builds, Binding
<1>5. \A p \in body : OutcomeOK(p, f, "fnHandle", noted)
  <2>1. ASSUME NEW p \in raw PROVE OutcomeOK(Then(p), f, "fnHandle", noted)
    <3>1. OutcomeOK(p, f, g, noted)
      BY <1>3
    <3>2. CASE p.k = "go" /\ fn.ret # "void" /\ fn.body.tail.op # "none"
      <4>1. Then(p).k = "return" /\ Then(p).v = p.v
        BY <3>2, OutcomeIs
      <4>2. ret[f].k = "union" => p.v \in ret[f].set \cup {"ok"}
        BY <1>3, <3>2
      <4> HIDE DEF Then
      <4> QED
        BY <3>1, <4>1, <4>2 DEF OutcomeOK
    <3>3. CASE ~(p.k = "go" /\ fn.ret # "void" /\ fn.body.tail.op # "none")
      <4>1. Then(p) = p
        BY <3>3
      <4> HIDE DEF Then, g, noted
      <4>2. OutcomeOK(p, f, "fnHandle", noted)
        BY <1>2, <1>4, <3>1 DEF OutcomeOK
      <4> QED
        BY <4>1, <4>2
    <3> QED
      BY <3>2, <3>3
  <2> HIDE DEF Then, raw, noted
  <2> QED
    BY <2>1
<1>6. ASSUME NEW v \in noted \cap Values
      PROVE  \A p \in handle[[NoValues EXCEPT ![BindingName] = v]][g] : OutcomeOK(p, f, g, tried)
  <2> DEFINE at == [NoValues EXCEPT ![BindingName] = v]
  <2>1. noted \in SUBSET Errors
    BY <1>0, <1>1, NotedType DEF Binding
  <2>2. hc \in Scopes
    BY <1>2, <2>1, HandleScopeType
  <2>3. at \in Envs /\ EnvOK(at, hc)
    BY <1>2, HandleEntered
  <2>4. Diags(f)[Nesting][fn.handle][hc][c] = {}
    BY DEF FunDiags, Binding
  <2>5. LevelSound(Diags(f)[Nesting], Tried(ret)[Nesting], run, Blocks[Nesting], f)
    BY <1>0, LevelsSound
  <2>6. tried = Tried(ret)[Nesting][fn.handle][FALSE]
    BY DEF Noted
  <2> HIDE DEF at, hc, c, g, run, noted, tried
  <2> QED
    BY <1>1, <1>2, <2>2, <2>3, <2>4, <2>5, <2>6 DEF LevelSound, at
<1>7. \A p \in Handled(body, "fnHandle", noted, handle, NoValues, g) : OutcomeOK(p, f, g, tried)
  <2> HIDE DEF body, noted, handle, g, tried
  <2> QED
    BY <1>5, <1>6, HandledSound
<1>8. g = "out" => tried = {}
  BY <1>1, <1>2, AbsentTried DEF HasHandle
<1>9. FunOutcomes(f, rs) = {IF p.k = "go" THEN end ELSE p : p \in Handled(body, "fnHandle", noted, handle, NoValues, g)}
  BY Zenon DEF FunOutcomes
<1>10. PICK p \in Handled(body, "fnHandle", noted, handle, NoValues, g) : o = IF p.k = "go" THEN end ELSE p
  BY <1>9
<1>11. CASE p.k = "go"
  <2>1. o.v = "ok" /\ o.k \in {"return", "end"}
    BY <1>10, <1>11, OutcomeIs
  <2> QED
    BY <2>1, OkInType DEF Values
<1>12. CASE p.k # "go"
  <2>1. o = p /\ OutcomeOK(o, f, g, tried)
    BY <1>7, <1>10, <1>12
  <2> HIDE DEF g, tried
  <2>2. o.v \in Values /\ o.k \in {"return", "lost", "fnHandle", "end"}
    BY <1>2, <1>12, <2>1 DEF OutcomeOK
  <2>3. o.k = "return" /\ ret[f].k = "union" => o.v \in ret[f].set \cup {"ok"}
    BY <1>2, <1>8, <2>1 DEF OutcomeOK
  <2> QED
    BY <2>2, <2>3 DEF InType, RetsKnown
<1> QED
  BY <1>11, <1>12

-----------------------------------------------------------------------------
(* The functions to infer, and the rounds.                                 *)

(* Whatever in a sequence is in the set is chosen, and no more.            *)
LEMMA ChosenHolds ==
    ASSUME NEW X, NEW s \in Seq(X), NEW S
    PROVE  /\ Len(Chosen(s, S)) \in Nat /\ Len(Chosen(s, S)) <= Len(s)
           /\ \A i \in 1..Len(Chosen(s, S)) : Chosen(s, S)[i] \in X \cap S
           /\ \A l \in 1..Len(s) : s[l] \in S => \E j \in 1..Len(Chosen(s, S)) : Chosen(s, S)[j] = s[l]
<1> DEFINE All(t) == \A l \in 1..Len(t) : t[l] \in S => \E j \in 1..Len(Chosen(t, S)) : Chosen(t, S)[j] = t[l]
           F == {t \in Seq(X) : Len(Chosen(t, S)) <= Len(t) /\ All(t)}
<1>1. <<>> \in F
  BY ChosenEmpty
<1>2. ASSUME NEW t \in Seq(X), NEW x \in X, t \in F PROVE Append(t, x) \in F
  <2> DEFINE u == Append(t, x)
             c == Chosen(t, S)
             d == Chosen(u, S)
             n == Len(t)
  <2>1. u \in Seq(X) /\ n \in Nat /\ Len(u) = n + 1 /\ u[n + 1] = x /\ \A i \in 1..n : u[i] = t[i]
    OBVIOUS
  <2>2. c \in Seq(X)
    BY ChosenType
  <2>3. d = IF x \in S THEN Append(c, x) ELSE c
    BY ChosenAppend
  <2>4. Len(c) <= n /\ \A l \in 1..n : t[l] \in S => \E j \in 1..Len(c) : c[j] = t[l]
    BY <1>2
  <2> HIDE DEF u, c, n
  <2>5. /\ Len(c) \in Nat /\ \A i \in 1..Len(c) : i \in 1..Len(d) /\ d[i] = c[i]
        /\ IF x \in S THEN Len(d) = Len(c) + 1 /\ d[Len(c) + 1] = x ELSE Len(d) = Len(c)
    <3> HIDE DEF d
    <3>1. Len(c) \in Nat /\ Len(Append(c, x)) = Len(c) + 1 /\ Append(c, x)[Len(c) + 1] = x
          /\ \A i \in 1..Len(c) : Append(c, x)[i] = c[i] /\ i \in 1..(Len(c) + 1)
      BY <2>2
    <3> QED
      BY <2>3, <3>1
  <2> HIDE DEF d
  <2>6. ASSUME NEW l \in 1..Len(u), u[l] \in S PROVE \E j \in 1..Len(d) : d[j] = u[l]
    <3>1. CASE l \in 1..n
      <4>1. PICK j \in 1..Len(c) : c[j] = t[l]
        BY <2>1, <2>4, <2>6, <3>1
      <4> QED
        BY <2>1, <2>5, <3>1, <4>1
    <3>2. CASE l \notin 1..n
      <4>1. l = n + 1
        BY <2>1, <3>2
      <4>2. x \in S /\ Len(c) + 1 \in 1..Len(d)
        BY <2>1, <2>5, <2>6, <4>1
      <4> QED
        BY <2>1, <2>5, <4>1, <4>2
    <3> QED
      BY <3>1, <3>2
  <2>7. Len(d) <= Len(u)
    BY <2>1, <2>4, <2>5
  <2> QED
    BY <2>1, <2>6, <2>7 DEF d, u
<1>3. s \in F
  <2> HIDE DEF F
  <2>1. Seq(X) \subseteq F
    BY <1>1, <1>2, ByLast
  <2> QED
    BY <2>1
<1>4. Chosen(s, S) \in Seq(X \cap S)
  BY ChosenType
<1>5. Len(Chosen(s, S)) \in Nat /\ \A i \in 1..Len(Chosen(s, S)) : Chosen(s, S)[i] \in X \cap S
  <2> DEFINE Y == X \cap S
             c == Chosen(s, S)
  <2> HIDE DEF Y, c
  <2>1. c \in Seq(Y)
    BY <1>4 DEF Y, c
  <2>2. Len(c) \in Nat /\ \A i \in 1..Len(c) : c[i] \in Y
    BY <2>1
  <2> QED
    BY <2>2 DEF Y, c
<1> QED
  BY <1>3, <1>5

(* The bound that MaxRounds takes.                                         *)
LEMMA MaxIs == ASSUME NEW n \in Nat PROVE Max({4, 4 * n}) \in Nat /\ Max({4, 4 * n}) >= 4 /\ Max({4, 4 * n}) >= 4 * n
<1>1. \E x \in {4, 4 * n} : \A y \in {4, 4 * n} : x >= y
  <2>1. 4 >= 4 * n \/ 4 * n >= 4
    OBVIOUS
  <2> QED
    BY <2>1
<1>2. Max({4, 4 * n}) \in {4, 4 * n} /\ \A y \in {4, 4 * n} : Max({4, 4 * n}) >= y
  BY <1>1, Zenon DEF Max
<1> QED
  BY <1>2

\* The functions of a program to infer, InferredFunctions of prog.
ToInfer(p) == Chosen(Order, {f \in Functions : p[f].ret = "inferred"})
Limit(p) == Max({4, 4 * Len(ToInfer(p))})

(* Their places hold just the functions to infer.                          *)
LEMMA ToInferIs ==
    ASSUME NEW p
    PROVE  /\ Len(ToInfer(p)) \in Nat /\ Len(ToInfer(p)) <= Len(Order)
           /\ \A i \in 1..Len(ToInfer(p)) : ToInfer(p)[i] \in Functions /\ p[ToInfer(p)[i]].ret = "inferred"
           /\ \A f \in Functions : p[f].ret = "inferred" => \E i \in 1..Len(ToInfer(p)) : ToInfer(p)[i] = f
           /\ Range(ToInfer(p)) = {ToInfer(p)[i] : i \in 1..Len(ToInfer(p))}
           /\ Limit(p) \in Nat /\ Limit(p) >= 4 /\ Limit(p) >= 4 * Len(ToInfer(p))
<1> DEFINE S == {f \in Functions : p[f].ret = "inferred"}
           c == Chosen(Order, S)
<1>1. Order \in Seq(Functions)
  BY ProgramsAssumption
<1>2. /\ Len(c) \in Nat /\ Len(c) <= Len(Order)
      /\ \A i \in 1..Len(c) : c[i] \in Functions \cap S
      /\ \A l \in 1..Len(Order) : Order[l] \in S => \E j \in 1..Len(c) : c[j] = Order[l]
  <2> HIDE DEF S
  <2> QED
    BY <1>1, ChosenHolds
<1>3. c \in Seq(Functions)
  BY <1>1, ChosenType
<1>4. \A f \in Functions : \E l \in 1..Len(Order) : Order[l] = f
  BY <1>1 DEF Functions, Range
<1>5. ToInfer(p) = c
  BY DEF ToInfer
<1>6. Limit(p) \in Nat /\ Limit(p) >= 4 /\ Limit(p) >= 4 * Len(ToInfer(p))
  BY <1>2, <1>5, MaxIs DEF Limit
<1>7. \A f \in Functions : p[f].ret = "inferred" => \E j \in 1..Len(c) : c[j] = f
  <2> SUFFICES ASSUME NEW f \in Functions, p[f].ret = "inferred" PROVE \E j \in 1..Len(c) : c[j] = f
    OBVIOUS
  <2>1. PICK l \in 1..Len(Order) : Order[l] = f
    BY <1>4
  <2>2. f \in S
    OBVIOUS
  <2> HIDE DEF S, c
  <2> QED
    BY <1>2, <2>1, <2>2
<1>8. \A i \in 1..Len(c) : c[i] \in Functions /\ p[c[i]].ret = "inferred"
  <2> HIDE DEF c
  <2> QED
    BY <1>2
<1>9. Range(c) = {c[i] : i \in 1..Len(c)}
  <2> HIDE DEF c
  <2> QED
    BY <1>3 DEF Range
<1> HIDE DEF c
<1> QED
  BY <1>2, <1>5, <1>6, <1>7, <1>8, <1>9

-----------------------------------------------------------------------------
(* The fixed point, of a program p with the types r, its handles' bindings *)
(* typed by bound, when the places before t of round n are done.           *)

Place(p, i) == ToInfer(p)[i]
Places(p) == 1..Len(ToInfer(p))

\* Where the error is in the type, and where it would be found and is not.
Holding(p, r, err) == {i \in Places(p) : err \in r[Place(p, i)].set}
Missing(p, r, bound, err) == {i \in Places(p) : err \in Found(p[Place(p, i)], r, bound)} \ Holding(p, r, err)

\* An error that is not yet everywhere it belongs has come to a place in each
\* of the rounds before, and in this one too or to none that was passed.
Spread(p, r, bound, t, n, err) ==
    \/ Missing(p, r, bound, err) = {}
    \/ Cardinality(Holding(p, r, err)) >= n
    \/ Cardinality(Holding(p, r, err)) >= n - 1 /\ \A i \in Missing(p, r, bound, err) : i >= t

\* Nothing is in the types that would not be found.
Backed(p, r, bound) == \A i \in Places(p) : r[Place(p, i)].set \subseteq Found(p[Place(p, i)], r, bound)

\* The types after a function is gone over.
Again(p, r, bound, f) == [r EXCEPT ![f] = ErrorUnion(Found(p[f], r, bound))]

(* Places are finitely many, and so are those of an error.                 *)
LEMMA HoldingFinite ==
    ASSUME NEW p, NEW r, NEW err
    PROVE  /\ IsFiniteSet(Holding(p, r, err)) /\ Cardinality(Holding(p, r, err)) \in Nat
           /\ Cardinality(Holding(p, r, err)) <= Len(ToInfer(p))
<1> DEFINE n == Len(ToInfer(p))
           S == Holding(p, r, err)
<1>1. n \in Nat
  BY ToInferIs
<1>2. S \in SUBSET (1..n)
  BY DEF Holding, Places
<1> HIDE DEF n, S
<1>3. IsFiniteSet(1..n) /\ Cardinality(1..n) = n
  <2>1. 1 \in Int /\ n \in Int
    BY <1>1
  <2>2. IsFiniteSet(1..n) /\ Cardinality(1..n) = IF 1 > n THEN 0 ELSE n - 1 + 1
    BY <2>1, FS_Interval
  <2> QED
    BY <1>1, <2>2
<1>4. IsFiniteSet(S) /\ Cardinality(S) <= n
  BY <1>2, <1>3, FS_Subset
<1>5. Cardinality(S) \in Nat
  BY <1>4, FS_CardinalityType
<1> QED
  BY <1>4, <1>5 DEF n, S

(* A function that is gone over keeps the errors it had.                   *)
LEMMA AgainUp ==
    ASSUME NEW p \in [Functions -> FunDecls], NEW r \in [Functions -> Types], NEW bound \in [Functions -> Types],
           NEW f \in Functions, r[f].k = "union", r[f].set \subseteq Found(p[f], r, bound)
    PROVE  /\ Again(p, r, bound, f) \in [Functions -> Types]
           /\ \A err : RetsUp(r, Again(p, r, bound, f), err)
<1> DEFINE s == Found(p[f], r, bound)
           ty == ErrorUnion(s)
           q == Again(p, r, bound, f)
<1>1. p[f] \in FunDecls
  OBVIOUS
<1>2. s \in SUBSET Errors
  BY <1>1, FoundType
<1>3. ty \in Types
  <2> HIDE DEF s
  <2> QED
    BY <1>2, MadeTypes
<1>4. ty.k = "union" /\ ty.set = s
  BY DEF ErrorUnion
<1>5. q = [r EXCEPT ![f] = ty]
  BY DEF Again
<1>6. r[f].set \subseteq s
  OBVIOUS
<1> HIDE DEF s, ty, q
<1>7. q \in [Functions -> Types]
  BY <1>3, <1>5
<1>8. ASSUME NEW err PROVE RetsUp(r, q, err)
  <2> SUFFICES ASSUME NEW g \in Functions PROVE Up(r[g], q[g], err)
    BY DEF RetsUp
  <2>1. CASE g = f
    BY <1>4, <1>5, <1>6, <2>1 DEF Up
  <2>2. CASE g # f
    BY <1>5, <2>2 DEF Up
  <2> QED
    BY <2>1, <2>2
<1> QED
  BY <1>7, <1>8 DEF q

(* And then too, nothing is in the types that would not be found.          *)
LEMMA AgainBacked ==
    ASSUME NEW p \in [Functions -> FunDecls], NEW r \in [Functions -> Types], NEW bound \in [Functions -> Types],
           NEW t \in Places(p), r[Place(p, t)].k = "union", Backed(p, r, bound)
    PROVE  Backed(p, Again(p, r, bound, Place(p, t)), bound)
<1> DEFINE f == Place(p, t)
           q == Again(p, r, bound, f)
<1>1. \A i \in Places(p) : Place(p, i) \in Functions
  BY ToInferIs DEF Places, Place
<1>2. f \in Functions /\ r[f].k = "union" /\ r[f].set \subseteq Found(p[f], r, bound)
  BY <1>1 DEF Backed
<1>3. q \in [Functions -> Types] /\ \A err : RetsUp(r, q, err)
  <2> HIDE DEF f
  <2> QED
    BY <1>2, AgainUp
<1>4. q = [r EXCEPT ![f] = ErrorUnion(Found(p[f], r, bound))]
  BY DEF Again
<1> SUFFICES ASSUME NEW i \in Places(p), NEW err \in q[Place(p, i)].set
             PROVE  err \in Found(p[Place(p, i)], q, bound)
  BY DEF Backed, f
<1> DEFINE g == Place(p, i)
<1>5. g \in Functions /\ p[g] \in FunDecls
  BY <1>1
<1>6. r[g].set \subseteq Found(p[g], r, bound)
  BY DEF Backed
<1>7. err \in q[g].set
  OBVIOUS
<1> HIDE DEF f, q, g
<1>8. err \in Found(p[g], r, bound)
  <2>1. CASE g = f
    BY <1>2, <1>4, <1>7, <2>1 DEF ErrorUnion
  <2>2. CASE g # f
    BY <1>4, <1>5, <1>6, <1>7, <2>2
  <2> QED
    BY <2>1, <2>2
<1>9. RetsUp(r, q, err)
  BY <1>3
<1>10. err \in Found(p[g], q, bound)
  BY <1>3, <1>5, <1>8, <1>9, FoundUp
<1> QED
  BY <1>10 DEF g

(* An error comes to the place that is gone over, or goes nowhere.         *)
LEMMA AgainSpread ==
    ASSUME NEW p \in [Functions -> FunDecls], NEW r \in [Functions -> Types], NEW bound \in [Functions -> Types],
           NEW t \in Places(p), r[Place(p, t)].k = "union", Backed(p, r, bound),
           NEW n \in Nat, NEW err, Spread(p, r, bound, t, n, err)
    PROVE  Spread(p, Again(p, r, bound, Place(p, t)), bound, t + 1, n, err)
<1> DEFINE f == Place(p, t)
           q == Again(p, r, bound, f)
           H == Holding(p, r, err)
           K == Holding(p, q, err)
           M == Missing(p, r, bound, err)
           N == Missing(p, q, bound, err)
<1>1. \A i \in Places(p) : Place(p, i) \in Functions
  BY ToInferIs DEF Places, Place
<1>2. f \in Functions /\ r[f].k = "union" /\ r[f].set \subseteq Found(p[f], r, bound)
  BY <1>1 DEF Backed
<1>3. q \in [Functions -> Types] /\ RetsUp(r, q, err)
  <2> HIDE DEF f
  <2> QED
    BY <1>2, AgainUp
<1>4. q = [r EXCEPT ![f] = ErrorUnion(Found(p[f], r, bound))]
  BY DEF Again
<1>5. q[f].k = "union" /\ q[f].set = Found(p[f], r, bound) /\ \A g \in Functions : g # f => q[g] = r[g]
  <2> HIDE DEF f, q
  <2> QED
    BY <1>2, <1>4 DEF ErrorUnion
<1>6. /\ IsFiniteSet(H) /\ Cardinality(H) \in Nat
      /\ IsFiniteSet(K) /\ Cardinality(K) \in Nat
  BY HoldingFinite
<1>7. /\ \A i : i \in H <=> i \in Places(p) /\ err \in r[Place(p, i)].set
      /\ \A i : i \in K <=> i \in Places(p) /\ err \in q[Place(p, i)].set
  BY DEF Holding
<1>8. /\ \A i : i \in M <=> i \in Places(p) /\ err \in Found(p[Place(p, i)], r, bound) /\ i \notin H
      /\ \A i : i \in N <=> i \in Places(p) /\ err \in Found(p[Place(p, i)], q, bound) /\ i \notin K
  BY DEF Missing
<1>9. \A g \in Functions : err \in r[g].set => err \in q[g].set
  BY <1>3 DEF RetsUp, Up
<1>10. t \in Int /\ f = Place(p, t) /\ \A i \in Places(p) : i \in Int
  BY DEF Places
<1>11. M = {} \/ Cardinality(H) >= n \/ (Cardinality(H) >= n - 1 /\ \A i \in M : i >= t)
  BY DEF Spread
<1> SUFFICES N = {} \/ Cardinality(K) >= n \/ (Cardinality(K) >= n - 1 /\ \A i \in N : i >= t + 1)
  BY DEF Spread
<1> HIDE DEF f, q, H, K, M, N
<1>12. CASE err \in Found(p[f], r, bound) /\ err \notin r[f].set
  <2>1. t \in M /\ t \notin H /\ t \in K
    BY <1>5, <1>7, <1>8, <1>10, <1>12
  <2>2. H \cup {t} \in SUBSET K
    BY <1>1, <1>7, <1>9, <2>1
  <2>3. Cardinality(H \cup {t}) = Cardinality(H) + 1
    BY <1>6, <2>1, FS_AddElement
  <2>4. Cardinality(H \cup {t}) <= Cardinality(K)
    BY <1>6, <2>2, FS_Subset
  <2>5. Cardinality(H) >= n \/ Cardinality(H) >= n - 1
    BY <1>11, <2>1
  <2> QED
    BY <1>6, <2>3, <2>4, <2>5
<1>13. CASE ~(err \in Found(p[f], r, bound) /\ err \notin r[f].set)
  <2>1. \A g \in Functions : err \in q[g].set <=> err \in r[g].set
    BY <1>2, <1>5, <1>9, <1>13
  <2>2. H = K
    BY <1>1, <1>7, <2>1
  <2>3. RetsUp(q, r, err)
    BY <1>3, <2>1 DEF RetsUp, Up
  <2>4. \A g \in Functions : err \in Found(p[g], q, bound) => err \in Found(p[g], r, bound)
    <3> SUFFICES ASSUME NEW g \in Functions, err \in Found(p[g], q, bound) PROVE err \in Found(p[g], r, bound)
      OBVIOUS
    <3>1. p[g] \in FunDecls
      OBVIOUS
    <3> QED
      BY <1>3, <2>3, <3>1, FoundUp
  <2>5. N \subseteq M
    BY <1>1, <1>8, <2>2, <2>4
  <2>6. t \notin N
    BY <1>2, <1>5, <1>7, <1>8, <1>10, <2>4
  <2>7. \A i \in N : i \in Int /\ i # t
    BY <1>8, <1>10, <2>6
  <2> QED
    BY <1>10, <1>11, <2>2, <2>5, <2>7
<1> QED
  BY <1>12, <1>13

(* After a round, each error is in place or came to one more.              *)
LEMMA RoundSpread ==
    ASSUME NEW p, NEW r, NEW bound, NEW n \in Nat, NEW err, Spread(p, r, bound, Len(ToInfer(p)) + 1, n, err)
    PROVE  Spread(p, r, bound, 1, n + 1, err)
<1> DEFINE H == Holding(p, r, err)
           M == Missing(p, r, bound, err)
           m == Len(ToInfer(p))
<1>1. m \in Nat /\ Cardinality(H) \in Nat
  BY ToInferIs, HoldingFinite
<1>2. \A i \in M : i \in 1..m
  BY DEF Missing, Places
<1>3. M = {} \/ Cardinality(H) >= n \/ (Cardinality(H) >= n - 1 /\ \A i \in M : i >= m + 1)
  BY DEF Spread
<1> SUFFICES M = {} \/ Cardinality(H) >= n + 1 \/ (Cardinality(H) >= (n + 1) - 1 /\ \A i \in M : i >= 1)
  BY DEF Spread
<1> HIDE DEF H, M, m
<1> QED
  BY <1>1, <1>2, <1>3

(* After the last of the rounds, each is in place.                         *)
LEMMA LastSpread ==
    ASSUME NEW p, NEW r, NEW bound, NEW err, Spread(p, r, bound, Len(ToInfer(p)) + 1, Limit(p), err)
    PROVE  Missing(p, r, bound, err) = {}
<1> DEFINE H == Holding(p, r, err)
           M == Missing(p, r, bound, err)
           m == Len(ToInfer(p))
           n == Limit(p)
<1>1. m \in Nat /\ Cardinality(H) \in Nat /\ Cardinality(H) <= m /\ n \in Nat /\ n >= 4 /\ n >= 4 * m
  BY ToInferIs, HoldingFinite
<1>2. \A i \in M : i \in 1..m
  BY DEF Missing, Places
<1>3. M = {} \/ Cardinality(H) >= n \/ (Cardinality(H) >= n - 1 /\ \A i \in M : i >= m + 1)
  BY DEF Spread
<1> SUFFICES M = {}
  OBVIOUS
<1> HIDE DEF H, M, m, n
<1> QED
  BY <1>1, <1>2, <1>3

-----------------------------------------------------------------------------
(* The invariant.                                                          *)

Recorded == phase \in {"write", "quiet", "infer", "check"}

\* Until the inference the types are as they are declared.
Declared ==
    phase \in {"write", "quiet"} =>
        /\ \A f \in Functions : ret[f] = DeclaredRet(prog[f])
        /\ changed = FALSE /\ rounds = 1
        /\ (phase = "write" => turn <= Len(Order)) /\ (phase = "quiet" => turn = 1)

\* Only the types of functions to infer ever change.
Kinds ==
    \A f \in Functions :
        IF prog[f].ret = "inferred" THEN ret[f].k = "union" ELSE ret[f] = DeclaredRet(prog[f])

\* The places of this round that are done, and those of the round before.
Passed == {i \in Places(prog) : i < turn}

Growing ==
    phase = "infer" =>
        /\ turn <= Len(ToInfer(prog)) + 1
        /\ Backed(prog, ret, annotated)
        /\ \A i \in Places(prog) : rounds > 1 \/ i < turn => ret[Place(prog, i)].known
        /\ ~changed => \A i \in Passed :
              ret[Place(prog, i)] = ErrorUnion(Found(prog[Place(prog, i)], ret, annotated))
        /\ \A err \in Errors : Spread(prog, ret, annotated, turn, rounds, err)

\* After it they are known.
Known == phase \in {"check", "run", "done"} => \A f \in Functions : ret[f].known

\* Nothing runs before the check, and nothing runs that it does not accept.
Idle == Recorded => returned = [f \in Functions |-> {}] /\ strays = {} /\ verdict = "none"
Accepted == phase = "run" => \A f \in Functions : FunDiags(f) = {} /\ Builds(f)

\* What the calls return is of the types their callers see.
Sound == CallsOK(returned) /\ "unseen" \notin strays

Inv ==
    /\ TypeOK
    /\ Declared /\ Kinds /\ Growing /\ Known
    /\ Converged
    /\ Idle /\ Accepted /\ Sound

(* The order of the file.                                                  *)
LEMMA OrderIs == /\ Len(Order) \in Nat /\ Len(Order) >= 1
                 /\ \A i \in 1..Len(Order) : Order[i] \in Functions
<1>1. Order \in Seq(Functions) /\ Order # <<>>
  BY ProgramsAssumption
<1> QED
  BY <1>1

(* What the model calls the functions to infer and the rounds.             *)
LEMMA NamesIs == /\ InferredFunctions = ToInfer(prog) /\ MaxRounds = Limit(prog)
                 /\ InferredFunctions' = ToInfer(prog') /\ MaxRounds' = Limit(prog')
<1>1. InferredFunctions = ToInfer(prog) /\ InferredFunctions' = ToInfer(prog')
  BY DEF InferredFunctions, ToInfer
<1>2. MaxRounds = Limit(prog) /\ MaxRounds' = Limit(prog')
  BY <1>1 DEF MaxRounds, Limit
<1> QED
  BY <1>1, <1>2

(* Convergence, of the program and the types.                              *)
LEMMA ConvergedIs ==
    /\ (phase = "check" => \A i \in Places(prog) :
            ret[Place(prog, i)] = ErrorUnion(Found(prog[Place(prog, i)], ret, annotated))) => Converged
    /\ (phase' = "check" => \A i \in Places(prog') :
            ret'[Place(prog', i)] = ErrorUnion(Found(prog'[Place(prog', i)], ret', annotated'))) => Converged'
<1>1. \A f : InferFun(f) = Found(prog[f], ret, annotated)
  BY Zenon DEF InferFun, Found
<1>2. \A f : InferFun(f)' = Found(prog'[f], ret', annotated')
  BY Zenon DEF InferFun, Found
<1>3. Range(InferredFunctions) = {Place(prog, i) : i \in Places(prog)}
  BY NamesIs, ToInferIs, Zenon DEF Place, Places
<1>4. Range(InferredFunctions') = {Place(prog', i) : i \in Places(prog')}
  BY NamesIs, ToInferIs, Zenon DEF Place, Places
<1>5. Converged <=> (phase = "check" => \A f \in Range(InferredFunctions) : ret[f] = ErrorUnion(InferFun(f)))
  BY Zenon DEF Converged
<1>6. Converged' <=> (phase' = "check" => \A f \in Range(InferredFunctions') : ret'[f] = ErrorUnion(InferFun(f)'))
  BY Zenon DEF Converged, ErrorUnion
<1>7. Converged <=> (phase = "check" => \A f \in Range(InferredFunctions) : ret[f] = ErrorUnion(Found(prog[f], ret, annotated)))
  BY <1>1, <1>5
<1>8. Converged' <=> (phase' = "check" => \A f \in Range(InferredFunctions') : ret'[f] = ErrorUnion(Found(prog'[f], ret', annotated')))
  BY <1>2, <1>6
<1> QED
  BY <1>3, <1>4, <1>7, <1>8, Zenon

(* The diagnostics and the build are of the program and the types.         *)
LEMMA DiagsSame ==
    ASSUME NEW f, prog' = prog, ret' = ret
    PROVE  FunDiags(f)' = FunDiags(f) /\ (Builds(f)' <=> Builds(f))
<1>1. FunDiags(f)' = FunDiags(f)
  BY SMT DEF FunDiags, Diags, BlockDiags, StmtDiags, ExprDiags, TryAllowed
<1>2. Builds(f)' <=> Builds(f)
  BY Zenon DEF Builds
<1> QED
  BY <1>1, <1>2

(* Calls that return nothing are sound.                                    *)
LEMMA IdleSound == /\ Idle /\ Recorded => Sound
                   /\ Idle' /\ Recorded' => Sound'
<1>1. Idle /\ Recorded => Sound
  BY DEF Idle, Sound, CallsOK
<1>2. Idle' /\ Recorded' => Sound'
  BY DEF Idle, Sound, CallsOK
<1> QED
  BY <1>1, <1>2

(* The types functions are declared with.                                  *)
LEMMA DeclaredIs ==
    ASSUME NEW fn \in FunDecls
    PROVE  /\ DeclaredRet(fn).k \in {"union", "void"}
           /\ fn.ret = "inferred" => DeclaredRet(fn).k = "union" /\ DeclaredRet(fn).set = {}
           /\ fn.ret # "inferred" => DeclaredRet(fn).known
<1>1. fn.ret \in {"inferred", "declared", "void"}
  BY FunParts
<1> QED
  BY <1>1 DEF DeclaredRet, Inferred, ErrorUnion, VoidType

(* The function that is not written yet.                                   *)
LEMMA UnwrittenIs == Unwritten \in FunDecls /\ DeclaredRet(Unwritten) = VoidType /\ Unwritten.ret = "void"
<1>1. Nesting \in 0..Nesting
  BY ProgramsAssumption
<1>2. NoBlock \in Blocks[Nesting]
  BY <1>1, Absent
<1>3. Unwritten \in FunDecls
  BY <1>2 DEF Unwritten, FunDecls
<1> QED
  BY <1>3 DEF Unwritten, DeclaredRet

(* The invariant holds at first.                                           *)
LEMMA InvInit == Init => Inv
<1> SUFFICES ASSUME Init PROVE Inv
  OBVIOUS
<1> USE DEF Init
<1>1. Unwritten \in FunDecls /\ DeclaredRet(Unwritten) = VoidType /\ Unwritten.ret = "void" /\ VoidType \in Types
  BY UnwrittenIs, MadeTypes
<1>2. TypeOK
  <2>1. prog \in [Functions -> FunDecls] /\ ret \in [Functions -> Types] /\ annotated \in [Functions -> Types]
    BY <1>1
  <2>2. turn \in 1..(Len(Order) + 1)
    BY OrderIs
  <2>3. rounds \in 1..MaxRounds
    BY NamesIs, ToInferIs
  <2>4. returned \in [Functions -> SUBSET Values]
    OBVIOUS
  <2> QED
    BY <2>1, <2>2, <2>3, <2>4 DEF TypeOK
<1>3. Declared
  BY <1>1, OrderIs DEF Declared
<1>4. Kinds
  BY <1>1 DEF Kinds
<1>5. Growing /\ Known /\ Accepted
  BY DEF Growing, Known, Accepted
<1>6. Converged
  BY ConvergedIs
<1>7. Idle /\ Recorded
  BY DEF Idle, Recorded
<1> QED
  BY <1>2, <1>3, <1>4, <1>5, <1>6, <1>7, IdleSound DEF Inv

(* A function that is written has the type it is declared with.            *)
LEMMA WriteStep == ASSUME Inv, Write PROVE Inv'
<1> DEFINE f == Order[turn]
<1>1. /\ prog \in [Functions -> FunDecls] /\ ret \in [Functions -> Types] /\ annotated \in [Functions -> Types]
      /\ turn \in 1..Len(Order) /\ phase = "write"
      /\ \A g \in Functions : ret[g] = DeclaredRet(prog[g])
      /\ changed = FALSE /\ rounds = 1
  BY OrderIs DEF Inv, TypeOK, Declared, Write
<1>2. PICK fn \in Definitions[f] : prog' = [prog EXCEPT ![f] = fn] /\ ret' = [ret EXCEPT ![f] = DeclaredRet(fn)]
  BY Zenon DEF Write
<1>3. f \in Functions /\ fn \in FunDecls
  <2>1. f \in Functions
    BY <1>1, OrderIs
  <2>2. Definitions \in [Functions -> SUBSET FunDecls]
    BY ProgramsAssumption
  <2> QED
    BY <2>1, <2>2
<1>4. DeclaredRet(fn) \in Types
  BY <1>3, DeclaredRetType
<1>5. /\ (phase' = "quiet" /\ turn' = 1) \/ (phase' = "write" /\ turn' = turn + 1 /\ turn # Len(Order))
      /\ annotated' = annotated /\ changed' = changed /\ rounds' = rounds /\ verdict' = verdict
      /\ returned' = returned /\ strays' = strays
  BY <1>1, Zenon DEF Write
<1> HIDE DEF f
<1>6. prog' \in [Functions -> FunDecls] /\ ret' \in [Functions -> Types]
  BY <1>1, <1>2, <1>3, <1>4
<1>7. \A g \in Functions : ret'[g] = DeclaredRet(prog'[g])
  BY <1>1, <1>2, <1>3
<1>8. Declared'
  BY <1>1, <1>5, <1>7, OrderIs DEF Declared
<1>9. Kinds'
  BY <1>6, <1>7, DeclaredIs DEF Kinds
<1>10. TypeOK'
  <2>1. turn' \in 1..(Len(Order) + 1) /\ phase' \in {"write", "quiet"}
    BY <1>1, <1>5, OrderIs
  <2>2. rounds' \in 1..MaxRounds'
    BY <1>1, <1>5, NamesIs, ToInferIs
  <2>3. /\ verdict \in {"none", "rejected", "broken", "built"} /\ returned \in [Functions -> SUBSET Values]
        /\ strays \subseteq {"unseen", "lost", "fnHandle", "end"}
    BY DEF Inv, TypeOK
  <2> QED
    BY <1>1, <1>5, <1>6, <2>1, <2>2, <2>3 DEF TypeOK
<1>11. phase' \in {"write", "quiet"}
  BY <1>5
<1>12. (Growing /\ Known /\ Accepted)'
  BY <1>11 DEF Growing, Known, Accepted
<1>13. Converged'
  BY <1>11, ConvergedIs
<1>14. Idle' /\ Recorded'
  BY <1>1, <1>5, <1>11 DEF Inv, Idle, Recorded
<1> QED
  BY <1>8, <1>9, <1>10, <1>12, <1>13, <1>14, IdleSound DEF Inv

(* The inference starts from empty sets.                                   *)
LEMMA QuietStep == ASSUME Inv, Quiet PROVE Inv'
<1>1. /\ phase = "quiet" /\ turn = 1 /\ changed = FALSE /\ rounds = 1
      /\ prog \in [Functions -> FunDecls] /\ ret \in [Functions -> Types]
      /\ \A g \in Functions : ret[g] = DeclaredRet(prog[g])
  BY DEF Inv, TypeOK, Declared, Quiet
<1>2. /\ prog' = prog /\ ret' = ret /\ turn' = turn /\ changed' = changed /\ rounds' = rounds
      /\ verdict' = verdict /\ returned' = returned /\ strays' = strays /\ annotated' = ret
      /\ phase' \in {"infer", "check"}
      /\ phase' = "check" => InferredFunctions = <<>>
  BY DEF Quiet
<1>3. \A i \in Places(prog) : Place(prog, i) \in Functions /\ prog[Place(prog, i)].ret = "inferred"
  BY ToInferIs DEF Places, Place
<1>4. ToInfer(prog') = ToInfer(prog) /\ Limit(prog') = Limit(prog)
  BY <1>2
<1>5. TypeOK'
  <2>1. rounds' \in 1..MaxRounds' /\ turn' \in 1..(Len(Order) + 1)
    BY <1>1, <1>2, NamesIs, ToInferIs, OrderIs
  <2>2. /\ verdict \in {"none", "rejected", "broken", "built"} /\ returned \in [Functions -> SUBSET Values]
        /\ strays \subseteq {"unseen", "lost", "fnHandle", "end"}
    BY DEF Inv, TypeOK
  <2> QED
    BY <1>1, <1>2, <2>1, <2>2 DEF TypeOK
<1>6. (Declared /\ Accepted)'
  BY <1>2 DEF Declared, Accepted
<1>7. Kinds'
  BY <1>2 DEF Inv, Kinds
<1>8. \A i \in Places(prog) : ret[Place(prog, i)].set = {}
  <2> SUFFICES ASSUME NEW i \in Places(prog) PROVE ret[Place(prog, i)].set = {}
    OBVIOUS
  <2>1. Place(prog, i) \in Functions /\ prog[Place(prog, i)] \in FunDecls /\ prog[Place(prog, i)].ret = "inferred"
    BY <1>1, <1>3
  <2> QED
    BY <1>1, <2>1, DeclaredIs
<1>9. Growing'
  <2>1. turn' <= Len(ToInfer(prog')) + 1
    BY <1>1, <1>2, ToInferIs
  <2>2. Backed(prog', ret', annotated')
    BY <1>2, <1>8 DEF Backed
  <2>3. \A i \in Places(prog') : ~(rounds' > 1 \/ i < turn')
    BY <1>1, <1>2 DEF Places
  <2>4. Passed' = {}
    BY <2>3 DEF Passed
  <2>5. ASSUME NEW err \in Errors PROVE Spread(prog', ret', annotated', turn', rounds', err)
    <3>1. Holding(prog, ret, err) = {}
      BY <1>8 DEF Holding
    <3>2. Cardinality(Holding(prog, ret, err)) = 0
      BY <3>1, FS_EmptySet
    <3>3. \A i \in Missing(prog, ret, ret, err) : i >= 1
      BY DEF Missing, Places
    <3>4. Spread(prog, ret, ret, 1, 1, err)
      BY <3>2, <3>3 DEF Spread
    <3> QED
      BY <1>1, <1>2, <3>4
  <2> QED
    BY <2>1, <2>2, <2>3, <2>4, <2>5 DEF Growing
<1>10. ASSUME phase' = "check" PROVE Len(ToInfer(prog)) = 0
  BY <1>2, <1>10, NamesIs
<1>11. Known'
  <2> SUFFICES ASSUME phase' = "check", NEW f \in Functions PROVE ret'[f].known
    BY <1>2 DEF Known
  <2>1. prog[f].ret # "inferred"
    BY <1>10, ToInferIs
  <2> QED
    BY <1>1, <1>2, <2>1, DeclaredIs
<1>12. Converged'
  <2>1. phase' = "check" => Places(prog') = {}
    BY <1>4, <1>10 DEF Places
  <2> QED
    BY <2>1, ConvergedIs
<1>13. Idle' /\ Recorded'
  BY <1>1, <1>2 DEF Inv, Idle, Recorded
<1> QED
  BY <1>5, <1>6, <1>7, <1>9, <1>11, <1>12, <1>13, IdleSound DEF Inv

(* Going over a function keeps the accounts of every error.                *)
LEMMA InferStep == ASSUME Inv, Infer PROVE Inv'
<1> DEFINE f == Place(prog, turn)
           found == ErrorUnion(Found(prog[f], ret, annotated))
           q == Again(prog, ret, annotated, f)
<1>1. /\ prog \in [Functions -> FunDecls] /\ ret \in [Functions -> Types] /\ annotated \in [Functions -> Types]
      /\ changed \in BOOLEAN /\ rounds \in Nat
  BY NamesIs, ToInferIs DEF Inv, TypeOK
<1>2. /\ turn \in Places(prog) /\ Len(ToInfer(prog)) \in Nat /\ Len(ToInfer(prog)) <= Len(Order) /\ turn \in Nat
      /\ \A i \in Places(prog) : Place(prog, i) \in Functions /\ prog[Place(prog, i)].ret = "inferred" /\ i \in Nat
  <2>1. turn \in 1..(Len(Order) + 1) /\ turn <= Len(ToInfer(prog))
    BY NamesIs DEF Inv, TypeOK, Infer
  <2> QED
    BY <2>1, ToInferIs, OrderIs DEF Places, Place
<1>3. /\ phase = "infer" /\ phase' = "infer" /\ prog' = prog /\ annotated' = annotated /\ rounds' = rounds
      /\ verdict' = verdict /\ returned' = returned /\ strays' = strays /\ turn' = turn + 1
  BY DEF Infer
<1>4. /\ ret' = q
      /\ changed' = (changed \/ q[f] # ret[f])
  <2>1. InferredFunctions[turn] = f
    BY NamesIs DEF Place
  <2>2. InferFun(f) = Found(prog[f], ret, annotated)
    BY InferFunIs
  <2>3. ret' = [ret EXCEPT ![f] = ErrorUnion(InferFun(f))] /\ changed' = (changed \/ ret'[f] # ret[f])
    BY <2>1, Zenon DEF Infer
  <2> QED
    BY <2>2, <2>3, Zenon DEF Again
<1>5. f \in Functions /\ prog[f].ret = "inferred" /\ ret[f].k = "union"
  BY <1>2 DEF Inv, Kinds
<1>6. /\ Backed(prog, ret, annotated)
      /\ \A i \in Places(prog) : rounds > 1 \/ i < turn => ret[Place(prog, i)].known
      /\ ~changed => \A i \in Passed :
            ret[Place(prog, i)] = ErrorUnion(Found(prog[Place(prog, i)], ret, annotated))
      /\ \A err \in Errors : Spread(prog, ret, annotated, turn, rounds, err)
  BY <1>3, Zenon DEF Inv, Growing
<1>7. q \in [Functions -> Types]
  <2>1. ret[f].set \subseteq Found(prog[f], ret, annotated)
    BY <1>2, <1>6 DEF Backed
  <2> HIDE DEF f
  <2> QED
    BY <1>1, <1>5, <2>1, AgainUp
<1>8. q = [ret EXCEPT ![f] = found] /\ found.k = "union" /\ found.known
  BY DEF Again, ErrorUnion
<1>9. Backed(prog, q, annotated)
  BY <1>1, <1>2, <1>5, <1>6, AgainBacked
<1>10. ASSUME NEW err \in Errors PROVE Spread(prog, q, annotated, turn + 1, rounds, err)
  BY <1>1, <1>2, <1>5, <1>6, AgainSpread
<1>11. f = Place(prog, turn) /\ found = ErrorUnion(Found(prog[f], ret, annotated))
  OBVIOUS
<1> HIDE DEF f, found, q
<1>12. q[f] = found /\ \A g \in Functions : g # f => q[g] = ret[g]
  BY <1>1, <1>5, <1>8
<1>13. TypeOK'
  <2>1. turn' \in 1..(Len(Order) + 1) /\ rounds' \in 1..MaxRounds' /\ changed' \in BOOLEAN
    <3>1. rounds \in 1..Limit(prog)
      BY NamesIs DEF Inv, TypeOK
    <3>2. rounds' \in 1..MaxRounds'
      BY <1>3, <3>1, NamesIs
    <3>3. turn' \in 1..(Len(Order) + 1)
      BY <1>2, <1>3, OrderIs DEF Places
    <3> QED
      BY <1>4, <3>2, <3>3
  <2>2. /\ verdict \in {"none", "rejected", "broken", "built"} /\ returned \in [Functions -> SUBSET Values]
        /\ strays \subseteq {"unseen", "lost", "fnHandle", "end"}
    BY DEF Inv, TypeOK
  <2> QED
    BY <1>1, <1>3, <1>4, <1>7, <2>1, <2>2 DEF TypeOK
<1>14. (Declared /\ Accepted /\ Known)'
  BY <1>3 DEF Declared, Accepted, Known
<1>15. Kinds'
  <2> SUFFICES ASSUME NEW g \in Functions
               PROVE  IF prog[g].ret = "inferred" THEN q[g].k = "union" ELSE q[g] = DeclaredRet(prog[g])
    BY <1>3, <1>4 DEF Kinds
  <2>1. CASE g = f
    BY <1>5, <1>8, <1>12, <2>1
  <2>2. CASE g # f
    BY <1>12, <2>2 DEF Inv, Kinds
  <2> QED
    BY <2>1, <2>2
<1>16. Growing'
  <2>1. turn + 1 <= Len(ToInfer(prog)) + 1
    BY <1>2 DEF Places
  <2>2. ASSUME NEW i \in Places(prog), rounds > 1 \/ i < turn + 1 PROVE q[Place(prog, i)].known
    <3>1. CASE Place(prog, i) = f
      BY <1>8, <1>12, <3>1
    <3>2. CASE Place(prog, i) # f
      <4>1. rounds > 1 \/ i < turn
        BY <1>1, <1>2, <1>11, <2>2, <3>2
      <4>2. ret[Place(prog, i)].known
        BY <1>6, <4>1
      <4> QED
        BY <1>2, <1>12, <3>2, <4>2
    <3> QED
      BY <3>1, <3>2
  <2>3. ASSUME ~changed', NEW i \in Places(prog), i < turn + 1
        PROVE  q[Place(prog, i)] = ErrorUnion(Found(prog[Place(prog, i)], q, annotated))
    <3>1. ~changed /\ found = ret[f]
      BY <1>4, <1>12, <2>3
    <3>2. q = ret
      BY <1>1, <1>7, <1>12, <3>1
    <3>3. CASE i = turn
      BY <1>11, <1>12, <3>2, <3>3
    <3>4. CASE i # turn
      <4>1. i \in Nat /\ turn \in Nat
        BY <1>2
      <4>2. i < turn
        BY <2>3, <3>4, <4>1
      <4>3. i \in Passed
        BY <4>2 DEF Passed
      <4> QED
        BY <1>6, <3>1, <3>2, <4>3
    <3> QED
      BY <3>3, <3>4
  <2>4. Passed' = {i \in Places(prog) : i < turn + 1}
    BY <1>3 DEF Passed
  <2>5. ~changed' => \A i \in Passed' : q[Place(prog, i)] = ErrorUnion(Found(prog[Place(prog, i)], q, annotated))
    BY <2>3, <2>4
  <2> QED
    BY <1>3, <1>4, <1>9, <1>10, <2>1, <2>2, <2>5 DEF Growing
<1>17. Converged'
  BY <1>3, ConvergedIs
<1>18. Idle' /\ Recorded'
  BY <1>3 DEF Inv, Idle, Recorded
<1> QED
  BY <1>13, <1>14, <1>15, <1>16, <1>17, <1>18, IdleSound DEF Inv

(* The last round leaves a fixed point.                                    *)
LEMMA EndRoundStep == ASSUME Inv, EndRound PROVE Inv'
<1> DEFINE m == Len(ToInfer(prog))
<1>1. /\ prog \in [Functions -> FunDecls] /\ ret \in [Functions -> Types] /\ annotated \in [Functions -> Types]
      /\ changed \in BOOLEAN /\ rounds \in 1..Limit(prog)
      /\ phase = "infer" /\ turn = m + 1 /\ m \in Nat /\ Limit(prog) \in Nat
  <2>1. turn > m /\ phase = "infer"
    BY NamesIs DEF EndRound
  <2>2. turn <= m + 1 /\ turn \in Int
    BY <2>1 DEF Inv, Growing, TypeOK
  <2> QED
    BY <2>1, <2>2, NamesIs, ToInferIs DEF Inv, TypeOK
<1>2. /\ Backed(prog, ret, annotated)
      /\ \A i \in Places(prog) : i < turn => ret[Place(prog, i)].known
      /\ ~changed => \A i \in Passed :
            ret[Place(prog, i)] = ErrorUnion(Found(prog[Place(prog, i)], ret, annotated))
      /\ \A err \in Errors : Spread(prog, ret, annotated, m + 1, rounds, err)
  BY <1>1, Zenon DEF Inv, Growing
<1>3. /\ prog' = prog /\ ret' = ret /\ annotated' = annotated /\ verdict' = verdict
      /\ returned' = returned /\ strays' = strays
      /\ \/ changed /\ rounds < Limit(prog) /\ rounds' = rounds + 1 /\ turn' = 1 /\ changed' = FALSE /\ phase' = "infer"
         \/ ~(changed /\ rounds < Limit(prog)) /\ phase' = "check" /\ rounds' = rounds /\ turn' = turn /\ changed' = changed
  BY <1>1, NamesIs, Zenon DEF EndRound
<1>4. \A i \in Places(prog) : i \in 1..m /\ i < m + 1
  BY <1>1 DEF Places
<1>5. \A i \in Places(prog) : Place(prog, i) \in Functions /\ ret[Place(prog, i)].known
  BY <1>1, <1>2, <1>4, ToInferIs DEF Places, Place
<1> HIDE DEF m
<1>6. TypeOK'
  <2>1. turn' \in 1..(Len(Order) + 1)
    BY <1>3, OrderIs DEF Inv, TypeOK
  <2>2. rounds' \in 1..MaxRounds'
    BY <1>1, <1>3, NamesIs
  <2>3. /\ verdict \in {"none", "rejected", "broken", "built"} /\ returned \in [Functions -> SUBSET Values]
        /\ strays \subseteq {"unseen", "lost", "fnHandle", "end"}
    BY DEF Inv, TypeOK
  <2>4. changed' \in BOOLEAN /\ phase' \in {"infer", "check"}
    BY <1>1, <1>3
  <2> QED
    BY <1>1, <1>3, <2>1, <2>2, <2>3, <2>4 DEF TypeOK
<1>7. (Declared /\ Accepted)'
  BY <1>3 DEF Declared, Accepted
<1>8. Kinds'
  BY <1>3 DEF Inv, Kinds
<1>9. Growing'
  <2> SUFFICES ASSUME phase' = "infer" PROVE Growing'
    BY DEF Growing
  <2>1. rounds' = rounds + 1 /\ turn' = 1 /\ changed' = FALSE
    BY <1>3
  <2>2. 1 <= Len(ToInfer(prog)) + 1
    BY <1>1 DEF m
  <2>3. Passed' = {}
    BY <1>3, <2>1 DEF Passed, Places
  <2>4. ASSUME NEW err \in Errors PROVE Spread(prog, ret, annotated, 1, rounds + 1, err)
    BY <1>1, <1>2, RoundSpread DEF m
  <2> QED
    BY <1>2, <1>3, <1>5, <2>1, <2>2, <2>3, <2>4 DEF Growing
<1>10. ASSUME phase' = "check", NEW i \in Places(prog)
       PROVE  ret[Place(prog, i)] = ErrorUnion(Found(prog[Place(prog, i)], ret, annotated))
  <2> DEFINE g == Place(prog, i)
             found == Found(prog[g], ret, annotated)
  <2>1. CASE ~changed
    <3>1. turn = m + 1 /\ i < m + 1
      BY <1>1, <1>4
    <3>2. i < turn
      BY <3>1
    <3>3. i \in Passed
      BY <3>2 DEF Passed
    <3> QED
      BY <1>2, <2>1, <3>3
  <2>2. CASE changed
    <3>1. rounds = Limit(prog)
      BY <1>1, <1>3, <1>10, <2>2
    <3>2. \A err \in Errors : Missing(prog, ret, annotated, err) = {}
      BY <1>2, <3>1, LastSpread DEF m
    <3>3. g \in Functions /\ ret[g] \in Types /\ ret[g].known /\ prog[g] \in FunDecls
      BY <1>1, <1>5
    <3>4. ret[g].set \subseteq found
      BY <1>2 DEF Backed
    <3>5. prog[g].ret = "inferred"
      BY ToInferIs DEF Places, Place
    <3>6. ret[g].k = "union"
      BY <3>3, <3>5 DEF Inv, Kinds
    <3>7. \A err \in Errors : err \in found => err \in ret[g].set
      BY <3>2 DEF Missing, Holding
    <3> HIDE DEF g
    <3>8. found \subseteq Errors
      BY <1>1, <3>3, FoundType
    <3> HIDE DEF found
    <3>9. ret[g].set = found
      BY <3>4, <3>7, <3>8
    <3>10. ret[g] = [k |-> ret[g].k, set |-> ret[g].set, known |-> ret[g].known] /\ ret[g].known \in BOOLEAN
      BY <3>3, TypeParts
    <3>11. ret[g].known = TRUE
      BY <3>3, <3>10
    <3>12. ret[g] = ErrorUnion(found)
      BY <3>6, <3>9, <3>10, <3>11 DEF ErrorUnion
    <3> QED
      BY <3>12 DEF g, found
  <2> QED
    BY <1>1, <2>1, <2>2
<1>11. Known'
  <2> SUFFICES ASSUME phase' = "check", NEW f \in Functions PROVE ret[f].known
    BY <1>3 DEF Known
  <2>1. CASE prog[f].ret = "inferred"
    <3>1. \E i \in Places(prog) : Place(prog, i) = f
      BY <2>1, ToInferIs DEF Places, Place
    <3> QED
      BY <1>5, <3>1
  <2>2. CASE prog[f].ret # "inferred"
    <3>1. ret[f] = DeclaredRet(prog[f]) /\ prog[f] \in FunDecls
      BY <1>1, <2>2 DEF Inv, Kinds
    <3> QED
      BY <2>2, <3>1, DeclaredIs
  <2> QED
    BY <2>1, <2>2
<1>12. Converged'
  BY <1>3, <1>10, ConvergedIs
<1>13. Idle' /\ Recorded'
  BY <1>1, <1>3 DEF Inv, Idle, Recorded
<1> QED
  BY <1>6, <1>7, <1>8, <1>9, <1>11, <1>12, <1>13, IdleSound DEF Inv

(* What is to run has no diagnostics.                                      *)
LEMMA CheckStep == ASSUME Inv, Check PROVE Inv'
<1>1. /\ phase = "check" /\ annotated' = ret /\ prog' = prog /\ ret' = ret /\ turn' = turn /\ changed' = changed
      /\ rounds' = rounds /\ returned' = returned /\ strays' = strays
      /\ phase' \in {"run", "done"} /\ verdict' \in {"rejected", "broken", "built"}
      /\ phase' = "run" => \A f \in Functions : FunDiags(f) = {} /\ Builds(f)
  <2>1. /\ phase = "check" /\ annotated' = ret /\ prog' = prog /\ ret' = ret /\ turn' = turn /\ changed' = changed
        /\ rounds' = rounds /\ returned' = returned /\ strays' = strays
    BY DEF Check
  <2>2. /\ verdict' = IF \E f \in Functions : FunDiags(f) # {} THEN "rejected"
                      ELSE IF \E f \in Functions : ~Builds(f) THEN "broken" ELSE "built"
        /\ phase' = IF verdict' = "built" THEN "run" ELSE "done"
    BY DEF Check
  <2> QED
    BY <2>1, <2>2
<1>2. TypeOK'
  <2>1. rounds' \in 1..MaxRounds'
    BY <1>1, NamesIs DEF Inv, TypeOK
  <2> QED
    BY <1>1, <2>1 DEF Inv, TypeOK
<1>3. (Declared /\ Growing)'
  BY <1>1 DEF Declared, Growing
<1>4. Kinds' /\ Known'
  BY <1>1 DEF Inv, Kinds, Known
<1>5. Accepted'
  <2>1. \A f \in Functions : FunDiags(f)' = FunDiags(f) /\ (Builds(f)' <=> Builds(f))
    BY <1>1, DiagsSame
  <2> QED
    BY <1>1, <2>1, Zenon DEF Accepted
<1>6. Converged'
  BY <1>1, ConvergedIs
<1>7. Idle'
  BY <1>1 DEF Idle, Recorded
<1>8. Sound'
  BY <1>1 DEF Inv, Idle, Recorded, Sound, CallsOK
<1> QED
  BY <1>2, <1>3, <1>4, <1>5, <1>6, <1>7, <1>8 DEF Inv

(* One more call in a call is as sound as the calls it makes.              *)
LEMMA RunStep == ASSUME Inv, Run PROVE Inv'
<1>1. /\ phase = "run" /\ prog' = prog /\ ret' = ret /\ annotated' = annotated /\ turn' = turn /\ changed' = changed
      /\ rounds' = rounds /\ verdict' = verdict /\ phase' \in {"run", "done"}
      /\ returned' = [f \in Functions |-> Results(FunOutcomes(f, returned))]
      /\ strays' = {o.k : o \in UNION {FunOutcomes(f, returned) : f \in Functions}} \ {"return"}
  BY DEF Run
<1>2. RetsKnown
  <2> SUFFICES ASSUME NEW g \in Functions PROVE ret[g].known /\ ret[g].k \in {"union", "void"}
    BY DEF Inv, TypeOK, RetsKnown
  <2>1. ret[g].known
    BY <1>1 DEF Inv, Known
  <2>2. prog[g] \in FunDecls
    BY DEF Inv, TypeOK
  <2>3. ret[g].k \in {"union", "void"}
    BY <2>2, DeclaredIs DEF Inv, Kinds
  <2> QED
    BY <2>1, <2>3
<1>3. /\ prog \in [Functions -> FunDecls] /\ CallsOK(returned)
      /\ \A f \in Functions : FunDiags(f) = {} /\ Builds(f)
  BY <1>1 DEF Inv, TypeOK, Sound, Accepted
<1>4. ASSUME NEW f \in Functions, NEW o \in FunOutcomes(f, returned)
      PROVE  /\ o.v \in Values /\ o.k \in {"return", "lost", "fnHandle", "end"}
             /\ o.k = "return" => InType(o.v, ret[f])
  BY <1>2, <1>3, FunSound
<1>5. ASSUME NEW f \in Functions, NEW v \in returned'[f] PROVE v \in Values /\ InType(v, ret[f])
  <2>1. v \in Results(FunOutcomes(f, returned))
    BY <1>1, <1>5
  <2>2. PICK o \in FunOutcomes(f, returned) : o.k = "return" /\ v = o.v
    BY <2>1, Zenon DEF Results
  <2> QED
    BY <1>4, <2>2
<1>6. strays' \subseteq {"lost", "fnHandle", "end"}
  <2> SUFFICES ASSUME NEW k \in strays' PROVE k \in {"lost", "fnHandle", "end"}
    OBVIOUS
  <2>1. k # "return" /\ \E o \in UNION {FunOutcomes(f, returned) : f \in Functions} : k = o.k
    BY <1>1, Zenon
  <2>2. PICK f \in Functions : \E o \in FunOutcomes(f, returned) : k = o.k
    BY <2>1, Zenon
  <2> QED
    BY <1>4, <2>1, <2>2
<1>7. TypeOK'
  <2>1. rounds' \in 1..MaxRounds'
    BY <1>1, NamesIs DEF Inv, TypeOK
  <2>2. returned' \in [Functions -> SUBSET Values]
    <3> DEFINE res(f) == Results(FunOutcomes(f, returned))
    <3>1. returned' = [f \in Functions |-> res(f)]
      BY <1>1
    <3> HIDE DEF res
    <3>2. \A f \in Functions : returned'[f] = res(f)
      BY <3>1
    <3>3. \A f \in Functions : res(f) \in SUBSET Values
      BY <1>5, <3>2
    <3> QED
      BY <3>1, <3>3
  <2>3. /\ prog' \in [Functions -> FunDecls] /\ ret' \in [Functions -> Types] /\ annotated' \in [Functions -> Types]
        /\ turn' \in 1..(Len(Order) + 1) /\ changed' \in BOOLEAN /\ verdict' \in {"none", "rejected", "broken", "built"}
    BY <1>1 DEF Inv, TypeOK
  <2>4. phase' \in {"run", "done"} /\ strays' \subseteq {"unseen", "lost", "fnHandle", "end"}
    BY <1>1, <1>6
  <2> QED
    BY <2>1, <2>2, <2>3, <2>4 DEF TypeOK
<1>8. (Declared /\ Growing)'
  BY <1>1 DEF Declared, Growing
<1>9. Kinds' /\ Known'
  BY <1>1 DEF Inv, Kinds, Known
<1>10. Accepted'
  <2>1. \A f \in Functions : FunDiags(f)' = FunDiags(f) /\ (Builds(f)' <=> Builds(f))
    BY <1>1, DiagsSame
  <2> QED
    BY <1>3, <2>1, Zenon DEF Accepted
<1>11. Converged'
  BY <1>1, ConvergedIs
<1>12. Idle'
  BY <1>1 DEF Idle, Recorded
<1>13. Sound'
  BY <1>1, <1>5, <1>6, Zenon DEF Sound, CallsOK, InType
<1> QED
  BY <1>7, <1>8, <1>9, <1>10, <1>11, <1>12, <1>13 DEF Inv

(* Nothing happens.                                                        *)
LEMMA StutterStep == ASSUME Inv, UNCHANGED vars PROVE Inv'
<1>1. /\ prog' = prog /\ phase' = phase /\ ret' = ret /\ annotated' = annotated /\ turn' = turn
      /\ changed' = changed /\ rounds' = rounds /\ verdict' = verdict /\ returned' = returned /\ strays' = strays
  BY DEF vars
<1>2. TypeOK'
  <2>1. MaxRounds' = MaxRounds
    BY <1>1, NamesIs
  <2> QED
    BY <1>1, <2>1 DEF Inv, TypeOK
<1>3. Declared' /\ Kinds' /\ Known' /\ Idle'
  BY <1>1 DEF Inv, Declared, Kinds, Known, Idle, Recorded
<1>4. Growing'
  <2>1. Passed' = Passed
    BY <1>1 DEF Passed
  <2> QED
    BY <1>1, <2>1 DEF Inv, Growing
<1>5. Converged'
  <2>1. \A f : InferFun(f) = Found(prog[f], ret, annotated)
    BY InferFunIs
  <2>2. phase = "check" => \A f \in Range(InferredFunctions) : ret[f] = ErrorUnion(Found(prog[f], ret, annotated))
    BY <2>1, Zenon DEF Inv, Converged
  <2>3. Range(InferredFunctions) = {Place(prog, i) : i \in Places(prog)}
    BY NamesIs, ToInferIs, Zenon DEF Place, Places
  <2>4. phase = "check" => \A i \in Places(prog) :
            ret[Place(prog, i)] = ErrorUnion(Found(prog[Place(prog, i)], ret, annotated))
    BY <2>2, <2>3
  <2> QED
    BY <1>1, <2>4, ConvergedIs
<1>6. Accepted'
  <2>1. \A f \in Functions : FunDiags(f)' = FunDiags(f) /\ (Builds(f)' <=> Builds(f))
    BY <1>1, DiagsSame
  <2>2. Accepted
    BY DEF Inv
  <2> QED
    BY <1>1, <2>1, <2>2, Zenon DEF Accepted
<1>7. Sound'
  BY <1>1 DEF Inv, Sound, CallsOK
<1> QED
  BY <1>2, <1>3, <1>4, <1>5, <1>6, <1>7 DEF Inv

(* So the invariant is inductive.                                          *)
LEMMA InvStep == Inv /\ [Next]_vars => Inv'
<1> SUFFICES ASSUME Inv, [Next]_vars PROVE Inv'
  OBVIOUS
<1> QED
  BY WriteStep, QuietStep, InferStep, EndRoundStep, CheckStep, RunStep, StutterStep DEF Next

(* The invariant of the inference, the check and the runs.                 *)
THEOREM ErrorInvariance == Spec => []Inv
  BY InvInit, InvStep, PTL DEF Spec

(* The variables of the error-set model have their types, for every program. *)
THEOREM ErrorTypes == Spec => []TypeOK
<1>1. Inv => TypeOK
  BY DEF Inv
<1> QED
  BY <1>1, ErrorInvariance, PTL

(* InferredErrorSetPass stops at a fixed point, whatever the functions and *)
(* their order in the file: max_rounds never cuts it short.                *)
THEOREM InferenceConverges == Spec => []Converged
<1>1. Inv => Converged
  BY DEF Inv
<1> QED
  BY <1>1, ErrorInvariance, PTL

(* The functions of a program that the checker and the C compiler accept   *)
(* return no error but those of the set their callers see.                 *)
THEOREM OnlyDeclaredRaised == Spec => []RaisedDeclared
<1>1. Inv => RaisedDeclared
  <2> SUFFICES ASSUME Inv, NEW f \in Functions, ret[f].k = "union", NEW v \in returned[f]
               PROVE  v \in ret[f].set \cup {"ok"}
    BY DEF RaisedDeclared
  <2>1. InType(v, ret[f])
    BY DEF Inv, Sound, CallsOK
  <2> QED
    BY <2>1 DEF InType
<1> QED
  BY <1>1, ErrorInvariance, PTL

(* In them, a handle's binding has room for every error that reaches it.   *)
THEOREM BindingsTyped == Spec => []BindingsHold
<1>1. Inv => BindingsHold
  BY DEF Inv, Sound, BindingsHold
<1> QED
  BY <1>1, ErrorInvariance, PTL

\* The inference only adds errors to the types.
OnlyAdded == [][phase = "infer" => \A f \in Functions : ret[f].set \subseteq ret'[f].set]_vars

(* While it infers, no error set loses an error: the pass never has to     *)
(* take back what a caller has seen.                                       *)
THEOREM InferenceOnlyAdds == Spec => OnlyAdded
<1>1. Inv /\ [Next]_vars => [phase = "infer" => \A f \in Functions : ret[f].set \subseteq ret'[f].set]_vars
  <2> SUFFICES ASSUME Inv, [Next]_vars, phase = "infer", NEW f \in Functions, ret[f] # ret'[f]
               PROVE  ret[f].set \subseteq ret'[f].set
    BY Zenon
  <2>1. Infer
    BY DEF Next, Write, Quiet, EndRound, Check, Run, vars
  <2> DEFINE g == InferredFunctions[turn]
             found == Found(prog[g], ret, annotated)
  <2>2. InferFun(g) = found
    BY InferFunIs
  <2>3. ret' = [ret EXCEPT ![g] = ErrorUnion(found)]
    BY <2>1, <2>2, Zenon DEF Infer
  <2>4. turn \in Places(prog) /\ g = Place(prog, turn)
    BY <2>1, NamesIs DEF Infer, Inv, TypeOK, Places, Place
  <2>5. ret[g].set \subseteq found
    BY <2>4, Zenon DEF Inv, Growing, Backed
  <2>6. ret \in [Functions -> Types]
    BY DEF Inv, TypeOK
  <2> HIDE DEF g, found
  <2>7. f = g /\ ret'[f] = ErrorUnion(found)
    BY <2>3, <2>6
  <2> QED
    BY <2>5, <2>7 DEF ErrorUnion
<1> QED
  BY <1>1, ErrorInvariance, PTL DEF Spec, OnlyAdded
=============================================================================
