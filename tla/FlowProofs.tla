----------------------------- MODULE FlowProofs -----------------------------
(***************************************************************************)
(* The passes are sound for every function, whatever its size and nesting: *)
(* what DefiniteAssignment and ReturnPathChecker hold for the constructs   *)
(* that are open at a place is true of every execution that is there.      *)
(* A step changes only the end of the list of open constructs (a jump only *)
(* what a loop has broken out with), so a lemma says for each action which *)
(* construct is then the last one, and a lemma for each invariant what the *)
(* last one has to satisfy.                                                *)
(***************************************************************************)
EXTENDS FlowAnalysis, TLAPS

ConstructType ==
    [kind : Kinds \cup {"fun"}, type : MatchTypes \cup {"none"}, branches : Nat,
     arms : SUBSET Patterns, decls : SUBSET Names, assigned : SUBSET Names,
     returns : BOOLEAN, ended : BOOLEAN, outs : SUBSET Names, allReturn : BOOLEAN,
     entry : SUBSET Stores, exits : SUBSET Stores, yields : SUBSET Stores,
     broke : SUBSET Stores]

Diags == {"unassigned", "match", "return"}
Excuses == {"unvisited", "value", "with", "whileUnwrap", "match", "handle"}

\* The outermost construct is the function, and no other one is.
Outermost(o) ==
    o # <<>> => /\ o[1].branches \in {1, 2}
                /\ \A i \in DOMAIN o : o[i].kind = "fun" <=> i = 1

\* A block whose value has been given, and a match before its first arm, have
\* nothing more in them.
LastIdle(o) == \A i \in DOMAIN o : o[i].ended \/ o[i].branches = 0 => i = Len(o)

TypeInv ==
    /\ open \in Seq(ConstructType)
    /\ LastIdle(open)
    /\ Outermost(open)
    /\ live \in SUBSET Stores
    /\ used \in BOOLEAN
    /\ diags \in SUBSET Diags
    /\ excuses \in SUBSET Excuses
    /\ declared \in SUBSET Names

\* t is the first n - 1 elements of s, then c.
Ends(t, s, n, c) ==
    /\ n \in Nat \ {0} /\ n - 1 <= Len(s) /\ Len(s) \in Nat
    /\ Len(t) = n /\ t[n] = c
    /\ \A i \in 1..(n - 1) : t[i] = s[i]

-----------------------------------------------------------------------------
(* The three ways in which the end of a sequence changes.                  *)
LEMMA Replaced ==
    ASSUME NEW X, NEW s \in Seq(X), s # <<>>, NEW c \in X
    PROVE  [s EXCEPT ![Len(s)] = c] \in Seq(X) /\ Ends([s EXCEPT ![Len(s)] = c], s, Len(s), c)
<1>1. Len(s) \in Nat \ {0} /\ Len(s) - 1 <= Len(s) /\ Len(s) \in DOMAIN s
  OBVIOUS
<1>2. [s EXCEPT ![Len(s)] = c] \in Seq(X) /\ Len([s EXCEPT ![Len(s)] = c]) = Len(s)
  BY <1>1
<1>3. [s EXCEPT ![Len(s)] = c][Len(s)] = c
  BY <1>1
<1>4. \A i \in 1..(Len(s) - 1) : [s EXCEPT ![Len(s)] = c][i] = s[i]
  <2> DEFINE n == Len(s)
  <2>1. DOMAIN s = 1..n /\ n \in Nat
    OBVIOUS
  <2>2. \A i \in 1..(n - 1) : i \in 1..n /\ i # n
    <3> HIDE DEF n
    <3> QED
      BY <2>1
  <2>3. \A i \in 1..(n - 1) : [s EXCEPT ![n] = c][i] = s[i]
    <3> HIDE DEF n
    <3> QED
      BY <2>1, <2>2, Zenon
  <2> QED
    BY <2>3
<1> QED
  BY <1>1, <1>2, <1>3, <1>4 DEF Ends

\* A construct begins: one more element.
LEMMA Pushed ==
    ASSUME NEW X, NEW s \in Seq(X), NEW c \in X
    PROVE  Append(s, c) \in Seq(X) /\ Ends(Append(s, c), s, Len(s) + 1, c)
BY DEF Ends

\* A construct is closed: the last two elements give way to one.
LEMMA Popped ==
    ASSUME NEW X, NEW s \in Seq(X), Len(s) > 1, NEW c \in X
    PROVE  /\ Append(SubSeq(s, 1, Len(s) - 2), c) \in Seq(X)
           /\ Ends(Append(SubSeq(s, 1, Len(s) - 2), c), s, Len(s) - 1, c)
<1> DEFINE h == SubSeq(s, 1, Len(s) - 2)
<1>1. h \in Seq(X) /\ Len(h) = Len(s) - 2 /\ \A i \in 1..(Len(s) - 2) : h[i] = s[i]
  <2>1. Len(s) - 2 \in Nat /\ Len(s) - 2 <= Len(s) /\ 1..(Len(s) - 2) \subseteq 1..Len(s)
    OBVIOUS
  <2> DEFINE m == Len(s) - 2
  <2>2. m \in Nat /\ 0 <= m /\ m <= Len(s)
    BY <2>1
  <2> HIDE DEF m
  <2>3. /\ SubSeq(s, 1, m) \in Seq(X) /\ Len(SubSeq(s, 1, m)) = m
        /\ \A i \in 1..m : SubSeq(s, 1, m)[i] = s[i]
    BY <2>2
  <2> QED
    BY <2>3 DEF m, h
<1> HIDE DEF h
<1>2. Append(h, c) \in Seq(X) /\ Ends(Append(h, c), s, Len(s) - 1, c)
  BY <1>1 DEF Ends
<1> QED
  BY <1>2 DEF h

(* The last element and the one before it.                                 *)
LEMMA LastTwo ==
    ASSUME NEW X, NEW s \in Seq(X), s # <<>>
    PROVE  /\ Len(s) \in Nat \ {0} /\ Len(s) \in DOMAIN s
           /\ DOMAIN s = 1..Len(s)
           /\ Last(s) = s[Len(s)] /\ s[Len(s)] \in X
           /\ \A i \in DOMAIN s : s[i] \in X
           /\ Len(s) > 1 => Len(s) - 1 \in DOMAIN s /\ s[Len(s) - 1] \in X
BY DEF Last

(* What is at the end of the open constructs.                              *)
LEMMA Innermost ==
    ASSUME TypeInv, open # <<>>
    PROVE  /\ Len(open) \in Nat \ {0} /\ Len(open) \in DOMAIN open
           /\ DOMAIN open = 1..Len(open)
           /\ Top = open[Len(open)] /\ Top \in ConstructType
           /\ \A i \in DOMAIN open : open[i] \in ConstructType
           /\ Len(open) > 1 => Len(open) - 1 \in DOMAIN open /\ Parent \in ConstructType
<1> DEFINE X == ConstructType
<1>1. open \in Seq(X)
  BY DEF TypeInv
<1> HIDE DEF X
<1>2. /\ Len(open) \in Nat \ {0} /\ Len(open) \in DOMAIN open
      /\ DOMAIN open = 1..Len(open)
      /\ Last(open) = open[Len(open)] /\ open[Len(open)] \in X
      /\ \A i \in DOMAIN open : open[i] \in X
      /\ Len(open) > 1 => Len(open) - 1 \in DOMAIN open /\ open[Len(open) - 1] \in X
  BY <1>1, LastTwo
<1> QED
  BY <1>2 DEF X, Top, Parent

-----------------------------------------------------------------------------
(* What each action makes the last construct.                              *)

\* A statement changes what the branch being walked assigns, returns and declares,
\* and that it is over with the value it yields.
Like(c, d) ==
    /\ c \in ConstructType
    /\ c.kind = d.kind /\ c.branches = d.branches
    /\ c.outs = d.outs /\ c.allReturn = d.allReturn
    /\ c.entry = d.entry /\ c.exits = d.exits /\ c.broke = d.broke

\* c is d revised by a statement.
Revised(c, d, assigned, yields) ==
    /\ Like(c, d) /\ c.assigned = assigned /\ c.yields = yields

\* A declaration revises the last construct: one with an initialiser assigns.
LEMMA LetTop ==
    ASSUME TypeInv, NEW v \in Names, NEW init \in BOOLEAN, Let(v, init)
    PROVE  \E c : /\ open' \in Seq(ConstructType) /\ Ends(open', open, Len(open), c)
                  /\ Revised(c, Top, IF init THEN Top.assigned \cup {v} ELSE Top.assigned, Top.yields)
                  /\ c.returns = Top.returns /\ c.ended = Top.ended
<1> DEFINE c == [Top EXCEPT !.decls = @ \cup {v}, !.assigned = IF init THEN @ \cup {v} ELSE @]
<1>1. open # <<>> /\ open' = [open EXCEPT ![Len(open)] = c]
  BY DEF Let, Statement, Walking, SetTop
<1>2. Top \in ConstructType
  BY <1>1, Innermost
<1>3. /\ Like(c, Top) /\ c.yields = Top.yields
      /\ c.returns = Top.returns /\ c.ended = Top.ended
      /\ c.assigned = IF init THEN Top.assigned \cup {v} ELSE Top.assigned
  BY <1>2 DEF ConstructType, Like
<1>4. c \in ConstructType
  BY <1>3 DEF Like
<1> HIDE DEF c
<1>5. open' \in Seq(ConstructType) /\ Ends(open', open, Len(open), c)
  BY <1>1, <1>4, Replaced, Zenon DEF TypeInv
<1>6. Revised(c, Top, IF init THEN Top.assigned \cup {v} ELSE Top.assigned, Top.yields)
  BY <1>3, Zenon DEF Revised
<1> QED
  BY <1>3, <1>5, <1>6, Zenon

\* An assignment revises the last construct: what it names is assigned.
LEMMA AssignTop ==
    ASSUME TypeInv, NEW v \in Names, Assign(v)
    PROVE  \E c : /\ open' \in Seq(ConstructType) /\ Ends(open', open, Len(open), c)
                  /\ Revised(c, Top, Top.assigned \cup {v}, Top.yields)
                  /\ c.returns = Top.returns /\ c.ended = Top.ended
<1> DEFINE c == [Top EXCEPT !.assigned = @ \cup {v}]
<1>1. open # <<>> /\ open' = [open EXCEPT ![Len(open)] = c]
  BY DEF Assign, Statement, Walking, SetTop
<1>2. Top \in ConstructType
  BY <1>1, Innermost
<1>3. /\ Like(c, Top) /\ c.yields = Top.yields
      /\ c.returns = Top.returns /\ c.ended = Top.ended
      /\ c.assigned = Top.assigned \cup {v}
  BY <1>2 DEF ConstructType, Like
<1>4. c \in ConstructType
  BY <1>3 DEF Like
<1> HIDE DEF c
<1>5. open' \in Seq(ConstructType) /\ Ends(open', open, Len(open), c)
  BY <1>1, <1>4, Replaced, Zenon DEF TypeInv
<1>6. Revised(c, Top, Top.assigned \cup {v}, Top.yields)
  BY <1>3, Zenon DEF Revised
<1> QED
  BY <1>3, <1>5, <1>6, Zenon

\* A return makes the branch being walked one that returns.
LEMMA ReturnTop ==
    ASSUME TypeInv, Return
    PROVE  \E c : /\ open' \in Seq(ConstructType) /\ Ends(open', open, Len(open), c)
                  /\ Revised(c, Top, Top.assigned, Top.yields)
                  /\ c.returns = TRUE /\ c.ended = Top.ended
<1> DEFINE c == [Top EXCEPT !.returns = TRUE]
<1>1. open # <<>> /\ open' = [open EXCEPT ![Len(open)] = c]
  BY DEF Return, Statement, Walking, SetTop
<1>2. Top \in ConstructType
  BY <1>1, Innermost
<1>3. /\ Like(c, Top) /\ c.yields = Top.yields
      /\ c.returns = TRUE /\ c.ended = Top.ended
      /\ c.assigned = Top.assigned
  BY <1>2 DEF ConstructType, Like
<1>4. c \in ConstructType
  BY <1>3 DEF Like
<1> HIDE DEF c
<1>5. open' \in Seq(ConstructType) /\ Ends(open', open, Len(open), c)
  BY <1>1, <1>4, Replaced, Zenon DEF TypeInv
<1>6. Revised(c, Top, Top.assigned, Top.yields)
  BY <1>3, Zenon DEF Revised
<1> QED
  BY <1>3, <1>5, <1>6, Zenon

\* A statement that is a value ends the branch when it is its tail.
LEMMA ValueTop ==
    ASSUME TypeInv, NEW tail \in BOOLEAN, Value(tail)
    PROVE  \E c : /\ open' \in Seq(ConstructType) /\ Ends(open', open, Len(open), c)
                  /\ Revised(c, Top, Top.assigned, IF tail THEN Top.yields \cup live ELSE Top.yields)
                  /\ c.returns = TRUE /\ c.ended = tail
<1> DEFINE c == [Top EXCEPT !.returns = TRUE, !.ended = tail,
                            !.yields = IF tail THEN @ \cup live ELSE @]
<1>1. open # <<>> /\ open' = [open EXCEPT ![Len(open)] = c]
  BY DEF Value, Statement, Walking, SetTop
<1>2. Top \in ConstructType /\ live \in SUBSET Stores
  BY <1>1, Innermost DEF TypeInv
<1>3. /\ Like(c, Top)
      /\ c.yields = IF tail THEN Top.yields \cup live ELSE Top.yields
      /\ c.returns = TRUE /\ c.ended = tail
      /\ c.assigned = Top.assigned
  BY <1>2 DEF ConstructType, Like
<1>4. c \in ConstructType
  BY <1>3 DEF Like
<1> HIDE DEF c
<1>5. open' \in Seq(ConstructType) /\ Ends(open', open, Len(open), c)
  BY <1>1, <1>4, Replaced, Zenon DEF TypeInv
<1>6. Revised(c, Top, Top.assigned, IF tail THEN Top.yields \cup live ELSE Top.yields)
  BY <1>3, Zenon DEF Revised
<1> QED
  BY <1>3, <1>5, <1>6, Zenon

\* A construct when it begins.
Begun(c, kind, assigned, stores) ==
    /\ c \in ConstructType /\ c.kind = kind
    /\ c.assigned = assigned /\ c.outs = Names /\ c.entry = stores
    /\ c.exits = {} /\ c.yields = {} /\ c.broke = {}
    /\ ~c.returns /\ ~c.ended

\* A construct that is entered begins last, with what is assigned around it.
LEMMA EnterTop ==
    ASSUME TypeInv, NEW kind \in Kinds, NEW type \in MatchTypes \cup {"none"},
           NEW b \in SUBSET Names, Enter(kind, type, b)
    PROVE  \E c : /\ open' \in Seq(ConstructType) /\ Ends(open', open, Len(open) + 1, c)
                  /\ Begun(c, kind, Top.assigned \cup b, live)
<1> DEFINE d == Construct(kind, type, Top.assigned \cup b, live)
           c == IF kind = "match" THEN [d EXCEPT !.branches = 0] ELSE [d EXCEPT !.decls = b]
<1>1. open # <<>> /\ open' = Append(open, c)
  BY DEF Enter, Statement, Walking
<1>2. Top \in ConstructType /\ live \in SUBSET Stores
  BY <1>1, Innermost DEF TypeInv
<1>3. Top.assigned \in SUBSET Names
  BY <1>2 DEF ConstructType
<1>4. /\ d \in ConstructType /\ d.kind = kind
      /\ d.assigned = Top.assigned \cup b /\ d.outs = Names /\ d.entry = live
      /\ d.exits = {} /\ d.yields = {} /\ d.broke = {}
      /\ ~d.returns /\ ~d.ended
  <2>1. Top.assigned \cup b \in SUBSET Names
    BY <1>3
  <2> DEFINE a == Top.assigned \cup b
  <2>3. a \in SUBSET Names
    BY <2>1
  <2>4. kind \in Kinds \cup {"fun"}
    OBVIOUS
  <2> HIDE DEF a
  <2>2. \A e : e = Construct(kind, type, a, live) =>
           /\ e \in ConstructType /\ e.kind = kind
           /\ e.assigned = a /\ e.outs = Names /\ e.entry = live
           /\ e.exits = {} /\ e.yields = {} /\ e.broke = {}
           /\ ~e.returns /\ ~e.ended
    BY <1>2, <2>3, <2>4 DEF Construct, ConstructType
  <2> QED
    BY <2>2, Zenon DEF a
<1> HIDE DEF d
<1>5. /\ c \in ConstructType /\ c.kind = kind
      /\ c.assigned = Top.assigned \cup b /\ c.outs = Names /\ c.entry = live
      /\ c.exits = {} /\ c.yields = {} /\ c.broke = {}
      /\ ~c.returns /\ ~c.ended
  BY <1>4 DEF ConstructType
<1> HIDE DEF c
<1>6. open' \in Seq(ConstructType) /\ Ends(open', open, Len(open) + 1, c)
  BY <1>1, <1>5, Pushed, Zenon DEF TypeInv
<1>7. Begun(c, kind, Top.assigned \cup b, live)
  BY <1>5, Zenon DEF Begun
<1> QED
  BY <1>6, <1>7

(* A construct when the branch being walked is over.                       *)
LEMMA DoneFields ==
    ASSUME NEW c \in ConstructType, live \in SUBSET Stores
    PROVE  \A d : d = BranchDone(c) =>
              /\ d \in ConstructType /\ d.kind = c.kind /\ d.branches = c.branches
              /\ d.type = c.type /\ d.arms = c.arms
              /\ d.assigned = c.assigned /\ d.returns = c.returns /\ d.ended = c.ended
              /\ d.entry = c.entry /\ d.yields = c.yields /\ d.broke = c.broke
              /\ c.branches = 0 => /\ d.outs = c.outs /\ d.allReturn = c.allReturn
                                   /\ d.exits = c.exits
              /\ c.branches # 0 => /\ d.outs = c.outs \cap c.assigned
                                   /\ (d.allReturn <=> c.allReturn /\ c.returns)
                                   /\ d.exits = c.exits \cup live
<1>1. CASE c.branches = 0
  BY <1>1 DEF BranchDone
<1>2. CASE c.branches # 0
  <2> DEFINE outs == c.outs \cap c.assigned
             all == c.allReturn /\ c.returns
             exits == c.exits \cup live
  <2>1. outs \in SUBSET Names /\ all \in BOOLEAN /\ exits \in SUBSET Stores
    BY DEF ConstructType
  <2> HIDE DEF outs, all, exits
  <2>2. \A d : d = [c EXCEPT !.outs = outs, !.allReturn = all, !.exits = exits] =>
              /\ d \in ConstructType /\ d.kind = c.kind /\ d.branches = c.branches
              /\ d.type = c.type /\ d.arms = c.arms
              /\ d.assigned = c.assigned /\ d.returns = c.returns /\ d.ended = c.ended
              /\ d.entry = c.entry /\ d.yields = c.yields /\ d.broke = c.broke
              /\ d.outs = outs /\ d.allReturn = all /\ d.exits = exits
    BY <2>1 DEF ConstructType
  <2>3. BranchDone(c) = [c EXCEPT !.outs = outs, !.allReturn = all, !.exits = exits]
    BY <1>2, Zenon DEF BranchDone, outs, all, exits
  <2> QED
    BY <1>2, <2>2, <2>3 DEF outs, all, exits
<1> QED
  BY <1>1, <1>2

\* c is d with another branch that starts with what a has assigned.
Rebegun(c, d, a) ==
    /\ c \in ConstructType /\ c.kind = d.kind /\ c.branches = d.branches + 1
    /\ c.outs = d.outs /\ c.allReturn = d.allReturn
    /\ c.entry = d.entry /\ c.exits = d.exits /\ c.broke = d.broke /\ c.yields = d.yields
    /\ ~c.returns /\ ~c.ended
    /\ c.assigned = a

\* What holds before a branch.
Before == IF Top.kind = "fun" THEN Params ELSE Parent.assigned

\* A next branch is walked with what was assigned before the construct, and what
\* the branch binds.
LEMMA NextBranchTop ==
    ASSUME TypeInv, NEW pat \in SUBSET Patterns, NEW b \in SUBSET Names, NextBranch(pat, b)
    PROVE  \E c : /\ open' \in Seq(ConstructType) /\ Ends(open', open, Len(open), c)
                  /\ Rebegun(c, BranchDone(Top), Before \cup b)
<1> DEFINE d == BranchDone(Top)
           c == [d EXCEPT !.branches = @ + 1, !.arms = @ \cup pat, !.decls = b,
                          !.assigned = Before \cup b, !.returns = FALSE, !.ended = FALSE]
<1>1. open # <<>> /\ open' = [open EXCEPT ![Len(open)] = c]
  BY DEF NextBranch, SetTop, Before
<1>2. Top \in ConstructType /\ live \in SUBSET Stores
  BY <1>1, Innermost DEF TypeInv
<1>3. d \in ConstructType
  BY <1>2, DoneFields
<1>4. Before \in SUBSET Names
  <2>1. CASE Top.kind = "fun"
    BY <2>1, NamesAssumption DEF NamesAssumption, Before
  <2>2. CASE Top.kind # "fun"
    <3>1. Len(open) > 1
      <4>1. Len(open) = 1 => Top.kind = "fun"
        BY <1>1, Innermost DEF TypeInv, Outermost
      <4> QED
        BY <1>1, <2>2, <4>1, Innermost
    <3>2. Parent \in ConstructType
      BY <1>1, <3>1, Innermost
    <3>3. Parent.assigned \in SUBSET Names
      BY <3>2 DEF ConstructType
    <3> QED
      BY <2>2, <3>3 DEF Before
  <2> QED
    BY <2>1, <2>2
<1> HIDE DEF d
<1>5. /\ c \in ConstructType /\ c.kind = d.kind /\ c.branches = d.branches + 1
      /\ c.outs = d.outs /\ c.allReturn = d.allReturn
      /\ c.entry = d.entry /\ c.exits = d.exits /\ c.broke = d.broke /\ c.yields = d.yields
      /\ ~c.returns /\ ~c.ended
      /\ c.assigned = Before \cup b
  <2>1. c \in ConstructType
    <3> DEFINE arms == d.arms \cup pat
               assigned == Before \cup b
               n == d.branches + 1
    <3>1. arms \in SUBSET Patterns /\ assigned \in SUBSET Names /\ n \in Nat
      BY <1>3, <1>4 DEF ConstructType
    <3> HIDE DEF arms, assigned, n
    <3>2. [d EXCEPT !.branches = n, !.arms = arms, !.decls = b,
                    !.assigned = assigned, !.returns = FALSE, !.ended = FALSE] \in ConstructType
      BY <1>3, <3>1 DEF ConstructType
    <3> QED
      BY <3>2, Zenon DEF arms, assigned, n
  <2>2. /\ c.kind = d.kind /\ c.branches = d.branches + 1
        /\ c.outs = d.outs /\ c.allReturn = d.allReturn
        /\ c.entry = d.entry /\ c.exits = d.exits /\ c.broke = d.broke /\ c.yields = d.yields
    BY <1>3 DEF ConstructType
  <2>3. /\ ~c.returns /\ ~c.ended
        /\ c.assigned = Before \cup b
    BY <1>3 DEF ConstructType
  <2> QED
    BY <2>1, <2>2, <2>3, Zenon
<1> HIDE DEF c
<1>6. open' \in Seq(ConstructType) /\ Ends(open', open, Len(open), c)
  BY <1>1, <1>5, Replaced, Zenon DEF TypeInv
<1>7. Rebegun(c, d, Before \cup b)
  BY <1>5, Zenon DEF Rebegun
<1> QED
  BY <1>6, <1>7, Zenon DEF d

\* The stores that carry the value of a construct to the one around it.
Yielded(c) == IF c.kind \in Loops \cup {"detached"} THEN {} ELSE c.yields

(* What the passes conclude from a construct that is over.                 *)
LEMMA AfterFields ==
    ASSUME NEW c \in ConstructType
    PROVE  AssignedAfter(c) \in SUBSET c.outs /\ DefinitelyReturns(c) \in BOOLEAN
<1>1. AssignedAfter(c) \in SUBSET c.outs
  BY DEF AssignedAfter
<1>2. DefinitelyReturns(c) \in BOOLEAN
  BY DEF DefinitelyReturns, ConstructType
<1> QED
  BY <1>1, <1>2

\* A construct that is closed leaves to the one around it what every branch
\* assigns and whether it returns.
LEMMA CloseTop ==
    ASSUME TypeInv, NEW tail \in BOOLEAN, Close(tail)
    PROVE  \E d, p :
              /\ open' \in Seq(ConstructType) /\ Ends(open', open, Len(open) - 1, p)
              /\ d = BranchDone(Top) /\ d \in ConstructType
              /\ Like(p, Parent)
              /\ p.assigned = Parent.assigned \cup AssignedAfter(d)
              /\ (p.returns <=> Parent.returns \/ DefinitelyReturns(d))
              /\ p.ended = tail
              /\ p.yields = IF tail THEN Parent.yields \cup Yielded(d) ELSE Parent.yields
              /\ live' = StoresAfter(d) \cup (IF tail THEN {} ELSE Yielded(d))
<1> DEFINE d == BranchDone(Top)
           p == [Parent EXCEPT !.assigned = @ \cup AssignedAfter(d),
                               !.returns = @ \/ DefinitelyReturns(d),
                               !.ended = tail,
                               !.yields = IF tail THEN @ \cup Yielded(d) ELSE @]
<1>1. /\ Len(open) > 1 /\ open' = Append(SubSeq(open, 1, Len(open) - 2), p)
      /\ live' = StoresAfter(d) \cup (IF tail THEN {} ELSE Yielded(d))
  BY Zenon DEF Close, Yielded
<1>2. Top \in ConstructType /\ Parent \in ConstructType /\ live \in SUBSET Stores
  <2>1. open # <<>>
    BY <1>1
  <2> QED
    BY <1>1, <2>1, Innermost DEF TypeInv
<1>3. d \in ConstructType
  BY <1>2, DoneFields
<1>4. p \in ConstructType /\ Like(p, Parent)
      /\ p.assigned = Parent.assigned \cup AssignedAfter(d)
      /\ (p.returns <=> Parent.returns \/ DefinitelyReturns(d))
      /\ p.ended = tail
      /\ p.yields = IF tail THEN Parent.yields \cup Yielded(d) ELSE Parent.yields
  <2> DEFINE assigned == Parent.assigned \cup AssignedAfter(d)
             returns == Parent.returns \/ DefinitelyReturns(d)
             yields == IF tail THEN Parent.yields \cup Yielded(d) ELSE Parent.yields
             q == [Parent EXCEPT !.assigned = assigned, !.returns = returns,
                                 !.ended = tail, !.yields = yields]
  <2>1. assigned \in SUBSET Names
    <3>1. AssignedAfter(d) \in SUBSET d.outs
      BY <1>3, AfterFields
    <3> QED
      BY <1>2, <1>3, <3>1 DEF ConstructType
  <2>2. returns \in BOOLEAN
    OBVIOUS
  <2>3. yields \in SUBSET Stores
    <3>1. Yielded(d) \in SUBSET Stores
      BY <1>3 DEF Yielded, ConstructType
    <3> QED
      BY <1>2, <3>1 DEF ConstructType
  <2>4. p = q
    BY Zenon
  <2> HIDE DEF assigned, returns, yields, p
  <2>5. q \in ConstructType /\ Like(q, Parent)
        /\ q.assigned = assigned /\ q.returns = returns
        /\ q.ended = tail /\ q.yields = yields
    BY <1>2, <2>1, <2>2, <2>3 DEF ConstructType, Like
  <2> HIDE DEF q
  <2>6. p \in ConstructType /\ Like(p, Parent)
        /\ p.assigned = assigned /\ p.returns = returns
        /\ p.ended = tail /\ p.yields = yields
    BY <2>4, <2>5, Zenon
  <2> QED
    BY <2>6, Zenon DEF assigned, returns, yields
<1> HIDE DEF d, p
<1>5. open' \in Seq(ConstructType) /\ Ends(open', open, Len(open) - 1, p)
  BY <1>1, <1>4, Popped, Zenon DEF TypeInv
<1> QED
  BY <1>1, <1>3, <1>4, <1>5, Zenon DEF d

(* A jump leaves stores at the loop it breaks out of or continues.         *)
LEMMA JumpLoop ==
    ASSUME TypeInv, Jump
    PROVE  \E i \in DOMAIN open, c \in ConstructType :
              /\ open' \in Seq(ConstructType) /\ Len(open') = Len(open) /\ open'[i] = c
              /\ \A k \in DOMAIN open : k # i => open'[k] = open[k]
              /\ c.kind = open[i].kind /\ c.branches = open[i].branches
              /\ c.outs = open[i].outs /\ c.allReturn = open[i].allReturn
              /\ c.entry = open[i].entry /\ c.exits = open[i].exits /\ c.yields = open[i].yields
              /\ c.assigned = open[i].assigned
              /\ c.returns = open[i].returns /\ c.ended = open[i].ended
              /\ c.broke = open[i].broke \cup live
<1>1. PICK i \in DOMAIN open : open' = [open EXCEPT ![i].broke = @ \cup live]
  BY DEF Jump
<1> DEFINE c == [open[i] EXCEPT !.broke = @ \cup live]
           X == ConstructType
<1>2. open[i] \in ConstructType /\ live \in SUBSET Stores
  <2>1. open # <<>>
    BY DEF Jump, Statement, Walking
  <2> QED
    BY <2>1, Innermost DEF TypeInv
<1>3. /\ c \in ConstructType
      /\ c.kind = open[i].kind /\ c.branches = open[i].branches
      /\ c.outs = open[i].outs /\ c.allReturn = open[i].allReturn
      /\ c.entry = open[i].entry /\ c.exits = open[i].exits /\ c.yields = open[i].yields
      /\ c.assigned = open[i].assigned
      /\ c.returns = open[i].returns /\ c.ended = open[i].ended
      /\ c.broke = open[i].broke \cup live
  BY <1>2 DEF ConstructType
<1>4. open' = [open EXCEPT ![i] = c]
  BY <1>1, Zenon
<1>5. c \in X /\ open \in Seq(X)
  BY <1>3, Zenon DEF TypeInv
<1> HIDE DEF c, X
<1>6. /\ open' \in Seq(X) /\ Len(open') = Len(open) /\ open'[i] = c
      /\ \A k \in DOMAIN open : k # i => open'[k] = open[k]
  BY <1>4, <1>5
<1> QED
  BY <1>3, <1>6, Zenon DEF X

-----------------------------------------------------------------------------
(* The types.                                                              *)

(* Stores with the names of b added.                                       *)
LEMMA WithStores ==
    ASSUME NEW S \in SUBSET Stores, NEW b \in SUBSET Names
    PROVE  /\ With(S, b) \in SUBSET Stores
           /\ \A x \in With(S, b) : \E s \in S : x = s \cup b
           /\ S = {} => With(S, b) = {}
BY DEF With, Stores

(* The list of open constructs keeps its shape when its end is changed.    *)
LEMMA ShapeKept ==
    ASSUME TypeInv, open # <<>>, NEW n, NEW c,
           open' \in Seq(ConstructType), Ends(open', open, n, c),
           n = 1 => c.kind = "fun" /\ c.branches \in {1, 2},
           n > 1 => c.kind # "fun",
           n > Len(open) => ~Top.ended /\ Top.branches # 0
    PROVE  /\ LastIdle(open')
           /\ Outermost(open')
<1>1. /\ n \in Nat \ {0} /\ n - 1 <= Len(open) /\ Len(open) \in Nat \ {0}
      /\ Len(open') = n /\ open'[n] = c
      /\ \A i \in 1..(n - 1) : open'[i] = open[i]
      /\ DOMAIN open = 1..Len(open) /\ Top = open[Len(open)]
  BY Innermost DEF Ends
<1>2. DOMAIN open' = 1..n
  <2> DEFINE X == ConstructType
  <2>1. open' \in Seq(X)
    OBVIOUS
  <2> HIDE DEF X
  <2> QED
    BY <1>1, <2>1
<1>3. LastIdle(open')
  <2> SUFFICES ASSUME NEW i \in 1..n, open'[i].ended \/ open'[i].branches = 0, i # n PROVE FALSE
    BY <1>1, <1>2 DEF LastIdle
  <2>1. i \in 1..(n - 1) /\ i \in 1..Len(open)
    BY <1>1
  <2>2. open[i].ended \/ open[i].branches = 0
    BY <1>1, <2>1
  <2>3. i \in DOMAIN open
    BY <1>1, <2>1
  <2>4. i = Len(open)
    BY <2>2, <2>3 DEF TypeInv, LastIdle
  <2>5. n > Len(open)
    <3>1. n \in Nat /\ i \in 1..(n - 1) /\ Len(open) = i
      BY <1>1, <2>1, <2>4, Zenon
    <3>2. i < n
      BY <3>1
    <3> QED
      BY <3>1, <3>2
  <2> QED
    BY <1>1, <2>2, <2>4, <2>5
<1>4. Outermost(open')
  <2>1. CASE n = 1
    BY <1>1, <1>2, <2>1 DEF Outermost
  <2>2. CASE n > 1
    <3>1. /\ 1 \in 1..(n - 1) /\ open[1].branches \in {1, 2}
          /\ \A i \in 1..Len(open) : open[i].kind = "fun" <=> i = 1
      BY <1>1, <2>2 DEF TypeInv, Outermost
    <3>2. \A i \in 1..(n - 1) : i \in 1..Len(open)
      BY <1>1
    <3>3. \A i \in 1..n : open'[i].kind = "fun" <=> i = 1
      <4> TAKE i \in 1..n
      <4>1. CASE i = n
        BY <1>1, <2>2, <4>1
      <4>2. CASE i # n
        <5>1. i \in 1..(n - 1)
          BY <1>1, <4>2
        <5> QED
          BY <1>1, <3>1, <3>2, <5>1
      <4> QED
        BY <4>1, <4>2
    <3>4. open'[1].branches \in {1, 2}
      BY <1>1, <3>1
    <3> QED
      BY <1>2, <3>3, <3>4 DEF Outermost
  <2> QED
    BY <1>1, <2>1, <2>2
<1> QED
  BY <1>3, <1>4

(* A statement replaces the construct it is in.                            *)
LEMMA StatementShape ==
    ASSUME TypeInv, open # <<>>, NEW c,
           open' \in Seq(ConstructType), Ends(open', open, Len(open), c), Like(c, Top)
    PROVE  /\ LastIdle(open')
           /\ Outermost(open')
<1>1. /\ Len(open) \in Nat \ {0} /\ Top = open[Len(open)] /\ Len(open) \in DOMAIN open
  BY Innermost
<1>2. Len(open) = 1 => c.kind = "fun" /\ c.branches \in {1, 2}
  BY <1>1 DEF Like, TypeInv, Outermost
<1>3. Len(open) > 1 => c.kind # "fun"
  BY <1>1 DEF Like, TypeInv, Outermost
<1>4. ~(Len(open) > Len(open))
  BY <1>1
<1> QED
  BY <1>2, <1>3, <1>4, ShapeKept, Zenon

\* At the start of a function the state has its type.
LEMMA TypesInit == Init => TypeInv
<1> SUFFICES ASSUME Init PROVE TypeInv
  OBVIOUS
<1> DEFINE c == Construct("fun", "none", Params, {Params})
           X == ConstructType
<1>1. open = <<c>> /\ live = {Params} /\ declared = Params
      /\ used = FALSE /\ diags = {} /\ excuses = {}
  BY DEF Init
<1>2. Params \in SUBSET Names /\ {Params} \in SUBSET Stores
  BY NamesAssumption DEF NamesAssumption, Stores
<1>3. c \in X /\ c.kind = "fun" /\ c.branches = 1
  BY <1>2 DEF Construct, ConstructType
<1> HIDE DEF c, X
<1>4. open \in Seq(X) /\ Len(open) = 1 /\ open[1] = c /\ DOMAIN open = {1}
  BY <1>1, <1>3
<1> QED
  BY <1>1, <1>2, <1>3, <1>4 DEF TypeInv, X, Outermost, LastIdle

(* What the bodies and the names of a new branch may be.                   *)
LEMMA BindingNames ==
    ASSUME TypeInv, NEW b \in Bindings
    PROVE  b \in SUBSET Names
BY DEF Bindings, Fresh, TypeInv

\* Entering a construct keeps the type.
LEMMA TypesEnter ==
    ASSUME TypeInv, NEW kind \in Kinds, NEW type \in MatchTypes \cup {"none"},
           NEW b \in SUBSET Names, Enter(kind, type, b)
    PROVE  TypeInv'
<1>1. PICK c : /\ open' \in Seq(ConstructType) /\ Ends(open', open, Len(open) + 1, c)
               /\ Begun(c, kind, Top.assigned \cup b, live)
  BY EnterTop
<1>2. open # <<>> /\ ~Top.ended /\ Top.branches # 0
  <2>1. open # <<>> /\ ~Top.ended /\ Top.branches > 0
    BY DEF Enter, Statement, Walking
  <2> QED
    BY <2>1
<1>3. /\ LastIdle(open')
      /\ Outermost(open')
  <2>1. Len(open) + 1 > 1 /\ ~(Len(open) + 1 = 1)
    BY <1>2, Innermost
  <2>2. c.kind # "fun"
    BY <1>1 DEF Kinds, Begun
  <2> QED
    BY <1>1, <1>2, <2>1, <2>2, ShapeKept, Zenon
<1>4. live' \in SUBSET Stores /\ declared' \in SUBSET Names
  BY WithStores DEF TypeInv, Enter
<1>5. used' \in BOOLEAN /\ diags' \in SUBSET Diags /\ excuses' \in SUBSET Excuses
  BY DEF TypeInv, Enter
<1> QED
  BY <1>1, <1>3, <1>4, <1>5 DEF TypeInv

\* Walking the next branch keeps the type.
LEMMA TypesNextBranch ==
    ASSUME TypeInv, NEW pat \in SUBSET Patterns, NEW b \in SUBSET Names, NextBranch(pat, b)
    PROVE  TypeInv'
<1>1. PICK c : /\ open' \in Seq(ConstructType) /\ Ends(open', open, Len(open), c)
               /\ Rebegun(c, BranchDone(Top), Before \cup b)
  BY NextBranchTop
<1>2. open # <<>> /\ (Top.kind = "fun" => Top.branches = 1)
  BY DEF NextBranch
<1>3. Top \in ConstructType /\ live \in SUBSET Stores
  BY <1>2, Innermost DEF TypeInv
<1>4. c.kind = Top.kind /\ c.branches = Top.branches + 1
  BY <1>1, <1>3, DoneFields DEF Rebegun
<1>5. /\ LastIdle(open')
      /\ Outermost(open')
  <2>1. Len(open) \in Nat \ {0} /\ Top = open[Len(open)] /\ Len(open) \in DOMAIN open
    BY <1>2, Innermost
  <2>2. ~(Len(open) > Len(open))
    BY <2>1
  <2>3. Len(open) = 1 <=> Top.kind = "fun"
    BY <1>2, <2>1 DEF TypeInv, Outermost
  <2>4. Len(open) = 1 => c.kind = "fun" /\ c.branches \in {1, 2}
    BY <1>2, <1>4, <2>3
  <2>5. Len(open) > 1 => c.kind # "fun"
    BY <1>4, <2>1, <2>3
  <2> QED
    BY <1>1, <1>2, <2>2, <2>4, <2>5, ShapeKept, Zenon
<1>6. live' \in SUBSET Stores /\ declared' \in SUBSET Names
  <2>1. Top.entry \in SUBSET Stores
    BY <1>3 DEF ConstructType
  <2> QED
    BY <2>1, WithStores DEF TypeInv, NextBranch
<1>7. used' \in BOOLEAN /\ diags' \in SUBSET Diags /\ excuses' \in SUBSET Excuses
  BY DEF TypeInv, NextBranch, Diags
<1> QED
  BY <1>1, <1>5, <1>6, <1>7 DEF TypeInv

(* The stores after a construct are those that were seen in it.            *)
LEMMA AfterStores ==
    ASSUME NEW d \in ConstructType
    PROVE  StoresAfter(d) \in SUBSET Stores /\ Yielded(d) \in SUBSET Stores
<1>1. /\ d.entry \in SUBSET Stores /\ d.exits \in SUBSET Stores
      /\ d.yields \in SUBSET Stores /\ d.broke \in SUBSET Stores
  BY DEF ConstructType
<1> QED
  BY <1>1 DEF StoresAfter, Yielded

\* Closing a construct keeps the type.
LEMMA TypesClose ==
    ASSUME TypeInv, NEW tail \in BOOLEAN, Close(tail)
    PROVE  TypeInv'
<1>1. PICK d, p :
              /\ open' \in Seq(ConstructType) /\ Ends(open', open, Len(open) - 1, p)
              /\ d = BranchDone(Top) /\ d \in ConstructType
              /\ Like(p, Parent)
              /\ live' = StoresAfter(d) \cup (IF tail THEN {} ELSE Yielded(d))
  BY CloseTop
<1>2. Len(open) > 1 /\ open # <<>>
  BY DEF Close
<1>3. /\ LastIdle(open')
      /\ Outermost(open')
  <2>1. Len(open) \in Nat \ {0} /\ Len(open) - 1 \in DOMAIN open
    BY <1>2, Innermost
  <2>2. ~(Len(open) - 1 > Len(open))
    BY <2>1
  <2>3. p.kind = open[Len(open) - 1].kind /\ p.branches = open[Len(open) - 1].branches
    BY <1>1 DEF Like, Parent
  <2>4. Len(open) - 1 = 1 => p.kind = "fun" /\ p.branches \in {1, 2}
    BY <1>2, <2>1, <2>3 DEF TypeInv, Outermost
  <2>5. Len(open) - 1 > 1 => p.kind # "fun"
    BY <1>2, <2>1, <2>3 DEF TypeInv, Outermost
  <2> QED
    BY <1>1, <1>2, <2>2, <2>4, <2>5, ShapeKept, Zenon
<1>4. live' \in SUBSET Stores
  BY <1>1, AfterStores
<1>5. diags' \in SUBSET Diags
  BY Zenon DEF TypeInv, Close, Diags
<1>6. excuses' \in SUBSET Excuses
  BY DEF TypeInv, Close, Excuses
<1>7. used' \in BOOLEAN /\ declared' \in SUBSET Names
  BY DEF TypeInv, Close
<1> QED
  BY <1>1, <1>3, <1>4, <1>5, <1>6, <1>7 DEF TypeInv

(* The statements that replace only the last construct.                    *)
LEMMA TypesStatement ==
    ASSUME TypeInv, NEW v, NEW flag \in BOOLEAN,
           (v \in Names /\ (Let(v, flag) \/ Assign(v))) \/ Return \/ Value(flag)
    PROVE  TypeInv'
<1>1. open # <<>>
  BY DEF Let, Assign, Return, Value, Statement, Walking
<1>2. PICK c : /\ open' \in Seq(ConstructType) /\ Ends(open', open, Len(open), c)
               /\ Like(c, Top)
  <2>1. CASE v \in Names /\ Let(v, flag)
    BY <2>1, LetTop DEF Revised
  <2>2. CASE v \in Names /\ Assign(v)
    BY <2>2, AssignTop DEF Revised
  <2>3. CASE Return
    BY <2>3, ReturnTop DEF Revised
  <2>4. CASE Value(flag)
    BY <2>4, ValueTop DEF Revised
  <2> QED
    BY <2>1, <2>2, <2>3, <2>4
<1>3. /\ LastIdle(open')
      /\ Outermost(open')
  BY <1>1, <1>2, StatementShape
<1>4. live' \in SUBSET Stores
  <2>1. live \in SUBSET Stores
    BY DEF TypeInv
  <2>2. (v \in Names => With(live, {v}) \in SUBSET Stores) /\ {} \in SUBSET Stores
    BY <2>1, WithStores
  <2> QED
    BY <2>1, <2>2 DEF Let, Assign, Return, Value
<1>5. /\ used' \in BOOLEAN /\ declared' \in SUBSET Names
      /\ diags' \in SUBSET Diags /\ excuses' \in SUBSET Excuses
  BY DEF TypeInv, Let, Assign, Return, Value, Excuses
<1> QED
  BY <1>2, <1>3, <1>4, <1>5 DEF TypeInv

\* A use keeps the type: it changes only what is reported and excused.
LEMMA TypesUse ==
    ASSUME TypeInv, NEW v \in Names, NEW visited \in BOOLEAN, Use(v, visited)
    PROVE  TypeInv'
<1>1. used' \in BOOLEAN
  BY DEF Use
<1>2. diags' \in SUBSET Diags /\ excuses' \in SUBSET Excuses
  <2> DEFINE seen == visited /\ \A i \in DOMAIN open : open[i].kind # "whileUnwrap"
  <2>1. /\ diags' = IF seen /\ Unassigned(v) THEN diags \cup {"unassigned"} ELSE diags
        /\ excuses' = IF seen THEN excuses ELSE excuses \cup {"unvisited"}
    BY DEF Use
  <2> HIDE DEF seen
  <2> QED
    BY <2>1 DEF TypeInv, Diags, Excuses
<1> QED
  BY <1>1, <1>2 DEF TypeInv, Use

\* A break or continue keeps the type.
LEMMA TypesJump == ASSUME TypeInv, Jump PROVE TypeInv'
<1> DEFINE X == ConstructType
<1>1. PICK i \in DOMAIN open, c \in ConstructType :
              /\ open' \in Seq(ConstructType) /\ Len(open') = Len(open) /\ open'[i] = c
              /\ \A k \in DOMAIN open : k # i => open'[k] = open[k]
              /\ c.kind = open[i].kind /\ c.branches = open[i].branches
              /\ c.ended = open[i].ended
  BY JumpLoop
<1>2. DOMAIN open' = DOMAIN open
  <2>1. open' \in Seq(X) /\ open \in Seq(X)
    BY <1>1 DEF TypeInv
  <2> HIDE DEF X
  <2> QED
    BY <1>1, <2>1
<1>3. \A k \in DOMAIN open : /\ open'[k].kind = open[k].kind
                             /\ open'[k].branches = open[k].branches
                             /\ open'[k].ended = open[k].ended
  BY <1>1
<1>4. open # <<>> /\ 1 \in DOMAIN open
  BY Innermost DEF Jump, Statement, Walking
<1>5. LastIdle(open')
  BY <1>1, <1>2, <1>3 DEF TypeInv, LastIdle
<1>6. Outermost(open')
  BY <1>2, <1>3, <1>4 DEF TypeInv, Outermost
<1>7. live' \in SUBSET Stores
  BY DEF Jump
<1>8. UNCHANGED <<used, diags, excuses, declared>>
  BY DEF Jump
<1> QED
  BY <1>1, <1>5, <1>6, <1>7, <1>8 DEF TypeInv

\* The end of the function keeps the type.
LEMMA TypesEnd == ASSUME TypeInv, End PROVE TypeInv'
<1>1. open' = <<>> /\ live' = BranchDone(Top).exits
  BY DEF End
<1>2. open' \in Seq(ConstructType) /\ DOMAIN open' = {}
  BY <1>1
<1>3. live' \in SUBSET Stores
  <2>1. open # <<>>
    BY DEF End
  <2>2. BranchDone(Top) \in ConstructType
    BY <2>1, Innermost, DoneFields DEF TypeInv
  <2> QED
    BY <1>1, <2>2 DEF ConstructType
<1>4. diags' \in SUBSET Diags /\ excuses' \in SUBSET Excuses /\ UNCHANGED <<used, declared>>
  BY DEF End, TypeInv, Diags, Excuses
<1> QED
  BY <1>1, <1>2, <1>3, <1>4 DEF TypeInv, Outermost, LastIdle

\* Every step keeps the type.
LEMMA TypesStep == ASSUME TypeInv, [Next]_vars PROVE TypeInv'
<1>1. ASSUME NEW v \in Names, NEW flag \in BOOLEAN, Let(v, flag) \/ Assign(v) \/ Use(v, flag)
      PROVE  TypeInv'
  BY <1>1, TypesStatement, TypesUse
<1>2. ASSUME NEW tail \in BOOLEAN, Return \/ Value(tail) PROVE TypeInv'
  BY <1>2, TypesStatement
<1>3. ASSUME NEW tail \in BOOLEAN, Jump \/ Close(tail) \/ End PROVE TypeInv'
  BY <1>3, TypesJump, TypesClose, TypesEnd
<1>4. ASSUME NEW b \in Bindings, NEW kind \in Kinds, NEW type \in MatchTypes \cup {"none"},
             Enter(kind, type, b)
      PROVE  TypeInv'
  BY <1>4, BindingNames, TypesEnter
<1>5. ASSUME NEW b \in Bindings, NEW pat \in SUBSET Patterns, NextBranch(pat, b)
      PROVE  TypeInv'
  BY <1>5, BindingNames, TypesNextBranch
<1>6. CASE Next
  <2>1. /\ \A kind \in Kinds \ {"match"} : kind \in Kinds /\ "none" \in MatchTypes \cup {"none"}
        /\ \A type \in MatchTypes : "match" \in Kinds /\ type \in MatchTypes \cup {"none"}
        /\ {} \in SUBSET Patterns /\ \A pat \in Patterns : {pat} \in SUBSET Patterns
        /\ TRUE \in BOOLEAN
    BY DEF Kinds
  <2> QED
    BY <1>1, <1>2, <1>3, <1>4, <1>5, <1>6, <2>1, Zenon DEF Next
<1>7. CASE UNCHANGED vars
  BY <1>7 DEF TypeInv, vars, Outermost, LastIdle
<1> QED
  BY <1>6, <1>7

(* The list of open constructs, the sets and the errors have their types.  *)
THEOREM FlowInvariance == Spec => []TypeInv
<1>1. Init => TypeInv
  BY TypesInit
<1>2. TypeInv /\ [Next]_vars => TypeInv'
  BY TypesStep
<1> QED
  BY <1>1, <1>2, PTL DEF Spec

(* TypeOK, which the run checks, for bodies of any size and nesting.       *)
THEOREM FlowTypes == Spec => []TypeOK
<1>1. TypeInv => TypeOK
  <2> SUFFICES ASSUME TypeInv PROVE TypeOK
    OBVIOUS
  <2>1. ASSUME NEW i \in DOMAIN open
        PROVE  /\ open[i].kind \in Kinds \cup {"fun"}
               /\ UNION {open[i].assigned, open[i].outs, open[i].decls} \subseteq Names
               /\ UNION {open[i].entry, open[i].exits, open[i].yields, open[i].broke} \subseteq Stores
    <3>1. open[i] \in ConstructType
      <4>1. open # <<>>
        OBVIOUS
      <4> QED
        BY <4>1, Innermost
    <3> QED
      BY <3>1 DEF ConstructType
  <2> QED
    BY <2>1 DEF TypeInv, TypeOK, Diags, Excuses, LastIdle
<1> QED
  BY <1>1, FlowInvariance, PTL

-----------------------------------------------------------------------------
(* Exhaustive matches.                                                     *)

(* A match for which nothing is missing has a case for every value.        *)
LEMMA MissingTotal ==
    ASSUME NEW type \in Checked, NEW arms, Missing(type, arms) = {}
    PROVE  Total(type, arms)
<1>1. CASE \E a \in arms : a.p = "wild"
  BY <1>1 DEF Total, Checked
<1>2. CASE ~ \E a \in arms : a.p = "wild"
  <2>1. CASE type = "union"
    BY <1>2, <2>1 DEF Total, Missing
  <2>2. CASE type = "errors"
    BY <1>2, <2>2 DEF Total, Missing
  <2>3. CASE type = "bool"
    BY <1>2, <2>3 DEF Total, Missing
  <2>4. CASE type = "int"
    BY <1>2, <2>4 DEF Total, Missing
  <2> QED
    BY <2>1, <2>2, <2>3, <2>4 DEF Checked
<1> QED
  BY <1>1, <1>2

(* AcceptedMatchTotal, of every match that ExhaustivenessChecker accepts.  *)
THEOREM AcceptedMatchesTotal == Spec => []AcceptedMatchTotal
<1>1. AcceptedMatchTotal
  BY MissingTotal DEF AcceptedMatchTotal
<1> QED
  BY <1>1, PTL

-----------------------------------------------------------------------------
(* Definite assignment.                                                    *)

\* Every name of a has a value in every one of the stores.
Hold(a, stores) == \A s \in stores : a \subseteq s

\* What outs says every branch assigns has a value in the stores that leave one;
\* those that carry the value of the branch being walked have what it assigned.
Joined(c) ==
    /\ Hold(c.outs, c.exits)
    /\ \A s \in c.yields : c.outs \subseteq s \/ (c.ended /\ c.assigned \subseteq s)
    /\ c.branches = 0 => c.yields = {}

\* What was assigned before a construct is assigned in it, in every store of it.
Within(a, c) ==
    /\ a \subseteq c.assigned /\ a \subseteq c.outs
    /\ Hold(a, c.entry) /\ Hold(a, c.exits) /\ Hold(a, c.yields) /\ Hold(a, c.broke)

\* What the pass says is assigned at the places that are open is so there.
Covered(o, stores) ==
    /\ \A i \in DOMAIN o : Joined(o[i])
    /\ \A i, j \in DOMAIN o : i < j => Within(o[i].assigned, o[j])
    /\ o # <<>> => Within(Params, o[1]) /\ Hold(o[Len(o)].assigned, stores)

\* The pass has found nothing and there was nothing it does not look at.
Trusted == diags \cap {"unassigned", "match"} = {} /\ excuses \cap {"unvisited", "match"} = {}

AssignedInv == Trusted => ~used /\ Covered(open, live)

(* It is enough to look at the last construct.                             *)
LEMMA CoveredEnds ==
    ASSUME NEW s \in Seq(ConstructType), NEW t \in Seq(ConstructType), NEW n, NEW c,
           NEW stores, NEW older,
           Ends(t, s, n, c), Covered(s, older), Joined(c), Hold(c.assigned, stores),
           \A i \in 1..(n - 1) : Within(s[i].assigned, c),
           n = 1 => Within(Params, c)
    PROVE  Covered(t, stores)
<1>1. /\ n \in Nat \ {0} /\ n - 1 <= Len(s) /\ Len(s) \in Nat
      /\ Len(t) = n /\ t[n] = c
      /\ \A i \in 1..(n - 1) : t[i] = s[i]
  BY DEF Ends
<1>2. DOMAIN t = 1..n /\ DOMAIN s = 1..Len(s)
  <2> DEFINE X == ConstructType
  <2>1. t \in Seq(X) /\ s \in Seq(X)
    OBVIOUS
  <2> HIDE DEF X
  <2> QED
    BY <1>1, <2>1
<1>3. \A i \in 1..n : i = n \/ (i \in 1..(n - 1) /\ i \in 1..Len(s))
  BY <1>1
<1>4. \A i \in DOMAIN t : Joined(t[i])
  <2> TAKE i \in DOMAIN t
  <2>1. CASE i = n
    BY <1>1, <2>1
  <2>2. CASE i # n
    <3>1. i \in 1..(n - 1) /\ i \in DOMAIN s
      BY <1>2, <1>3, <2>2
    <3>2. t[i] = s[i]
      BY <1>1, <3>1
    <3>3. Joined(s[i])
      BY <3>1 DEF Covered
    <3> QED
      BY <3>2, <3>3, Zenon
  <2> QED
    BY <2>1, <2>2
<1>5. ASSUME NEW i \in DOMAIN t, NEW j \in DOMAIN t, i < j
      PROVE  Within(t[i].assigned, t[j])
  <2>1. i \in 1..(n - 1) /\ i \in DOMAIN s /\ t[i] = s[i]
    BY <1>1, <1>2, <1>3, <1>5
  <2>2. CASE j = n
    BY <1>1, <2>1, <2>2, Zenon
  <2>3. CASE j # n
    <3>1. j \in 1..(n - 1) /\ j \in DOMAIN s
      BY <1>2, <1>3, <2>3
    <3>2. t[j] = s[j]
      BY <1>1, <3>1
    <3>3. Within(s[i].assigned, s[j])
      BY <1>5, <2>1, <3>1 DEF Covered
    <3> QED
      BY <2>1, <3>2, <3>3, Zenon
  <2> QED
    BY <2>2, <2>3
<1>6. Within(Params, t[1])
  <2>1. CASE n = 1
    BY <1>1, <2>1
  <2>2. CASE n # 1
    <3>1. 1 \in 1..(n - 1) /\ Len(s) > 0
      BY <1>1, <2>2
    <3>2. t[1] = s[1] /\ s # <<>>
      BY <1>1, <3>1
    <3>3. Within(Params, s[1])
      BY <3>2 DEF Covered
    <3> QED
      BY <3>2, <3>3, Zenon
  <2> QED
    BY <2>1, <2>2
<1>7. Hold(t[Len(t)].assigned, stores)
  BY <1>1, Zenon
<1> QED
  BY <1>4, <1>5, <1>6, <1>7, Zenon DEF Covered

\* What is assigned around the last construct.
Around == IF Len(open) = 1 THEN Params ELSE Parent.assigned

(* It holds what every construct around it does.                           *)
LEMMA AroundWithin ==
    ASSUME TypeInv, open # <<>>, Covered(open, live)
    PROVE  /\ Within(Around, Top) /\ Joined(Top) /\ Hold(Top.assigned, live)
           /\ \A i \in 1..(Len(open) - 1) : open[i].assigned \subseteq Around
           /\ Len(open) = 1 => Around = Params
           /\ Len(open) > 1 => Around = Parent.assigned /\ Joined(Parent)
           /\ \A i \in 1..(Len(open) - 2) : Within(open[i].assigned, Parent)
           /\ Len(open) = 2 => Within(Params, Parent)
<1>1. /\ Len(open) \in Nat \ {0} /\ Len(open) \in DOMAIN open
      /\ DOMAIN open = 1..Len(open)
      /\ Top = open[Len(open)]
      /\ Parent = open[Len(open) - 1]
  BY Innermost DEF Parent
<1> DEFINE m == Len(open)
<1>2. /\ \A i \in DOMAIN open : Joined(open[i])
      /\ \A i, j \in DOMAIN open : i < j => Within(open[i].assigned, open[j])
      /\ Within(Params, open[1]) /\ Hold(open[m].assigned, live)
  BY DEF Covered
<1>3. Joined(Top) /\ Hold(Top.assigned, live)
  BY <1>1, <1>2, Zenon
<1>4. CASE m = 1
  <2>1. Around = Params /\ Within(Around, Top)
    BY <1>1, <1>2, <1>4 DEF Around
  <2>2. 1..(m - 1) = {} /\ 1..(m - 2) = {} /\ ~(m > 1) /\ m # 2
    BY <1>4
  <2> QED
    BY <1>3, <1>4, <2>1, <2>2, Zenon
<1>5. CASE m # 1
  <2> HIDE DEF m
  <2>1. m - 1 \in 1..m /\ m \in 1..m /\ m - 1 < m /\ m \in Nat
    BY <1>1, <1>5 DEF m
  <2>2. Around = Parent.assigned /\ Joined(Parent)
    BY <1>1, <1>2, <1>5, <2>1, Zenon DEF Around, m
  <2>3. Within(Around, Top)
    BY <1>1, <1>2, <2>1, <2>2, Zenon DEF m
  <2>4. \A i \in 1..(m - 2) : Within(open[i].assigned, Parent)
    <3> TAKE i \in 1..(m - 2)
    <3>1. i \in 1..m /\ i < m - 1
      BY <2>1
    <3> QED
      BY <1>1, <1>2, <2>1, <3>1, Zenon DEF m
  <2>5. \A i \in 1..(m - 1) : open[i].assigned \subseteq Around
    <3> TAKE i \in 1..(m - 1)
    <3>1. CASE i = m - 1
      BY <1>1, <2>2, <3>1, Zenon DEF m
    <3>2. CASE i # m - 1
      <4>1. i \in 1..(m - 2)
        BY <2>1, <3>2
      <4> QED
        BY <2>2, <2>4, <4>1, Zenon DEF Within
    <3> QED
      BY <3>1, <3>2
  <2>6. m = 2 => Within(Params, Parent)
    <3>1. m = 2 => m - 1 = 1
      OBVIOUS
    <3> QED
      BY <1>1, <1>2, <3>1, Zenon DEF m
  <2> QED
    BY <1>3, <1>5, <2>2, <2>3, <2>4, <2>5, <2>6, Zenon DEF m
<1> QED
  BY <1>4, <1>5

(* A statement that assigns no less keeps what holds around it.            *)
LEMMA CoveredStatement ==
    ASSUME TypeInv, open # <<>>, Covered(open, live), NEW c,
           open' \in Seq(ConstructType), Ends(open', open, Len(open), c),
           Joined(c), Hold(c.assigned, live'), \A a : Within(a, Top) => Within(a, c)
    PROVE  Covered(open', live')
<1>1. /\ Within(Around, Top) /\ Len(open) = 1 => Around = Params
      /\ \A i \in 1..(Len(open) - 1) : open[i].assigned \subseteq Around
  BY AroundWithin, Zenon
<1>2. /\ \A i, j \in DOMAIN open : i < j => Within(open[i].assigned, open[j])
      /\ Within(Params, open[1])
  BY Zenon DEF Covered
<1>3. Len(open) \in Nat \ {0} /\ DOMAIN open = 1..Len(open) /\ Top = open[Len(open)]
  BY Innermost, Zenon
<1>4. \A i \in 1..(Len(open) - 1) : Within(open[i].assigned, c)
  <2> TAKE i \in 1..(Len(open) - 1)
  <2>1. i \in DOMAIN open /\ Len(open) \in DOMAIN open /\ i < Len(open)
    BY <1>3
  <2>2. Within(open[i].assigned, Top)
    BY <1>2, <1>3, <2>1, Zenon
  <2> QED
    BY <2>2, Zenon
<1>5. Len(open) = 1 => Within(Params, c)
  BY <1>2, <1>3, Zenon
<1>6. open \in Seq(ConstructType)
  BY DEF TypeInv
<1> QED
  BY <1>4, <1>5, <1>6, CoveredEnds, Zenon

(* What the stores hold when names are added to them.                      *)
LEMMA HoldWith ==
    ASSUME NEW S \in SUBSET Stores, NEW a, NEW b \in SUBSET Names, Hold(a, S)
    PROVE  Hold(a \cup b, With(S, b)) /\ Hold(a, With(S, b))
BY WithStores DEF Hold

\* Where the invariant holds, what is assigned at a place has a value there.
LEMMA LiveHolds ==
    ASSUME TypeInv, open # <<>>, Covered(open, live)
    PROVE  Hold(Top.assigned, live) /\ Joined(Top) /\ live \in SUBSET Stores
BY AroundWithin DEF TypeInv

\* A declaration keeps what is said to be assigned true.
LEMMA CoveredLet ==
    ASSUME TypeInv, Covered(open, live), NEW v \in Names, NEW init \in BOOLEAN, Let(v, init)
    PROVE  Covered(open', live')
<1>1. open # <<>> /\ ~Top.ended /\ Top.branches # 0
  <2>1. open # <<>> /\ ~Top.ended /\ Top.branches > 0
    BY DEF Let, Statement, Walking
  <2> QED
    BY <2>1
<1>2. PICK c : /\ open' \in Seq(ConstructType) /\ Ends(open', open, Len(open), c)
               /\ Revised(c, Top, IF init THEN Top.assigned \cup {v} ELSE Top.assigned, Top.yields)
               /\ c.ended = Top.ended
  BY LetTop
<1>3. Hold(Top.assigned, live) /\ Joined(Top) /\ live \in SUBSET Stores
  BY <1>1, LiveHolds
<1>4. Joined(c)
  BY <1>1, <1>2, <1>3 DEF Revised, Joined, Like
<1>5. Hold(c.assigned, live')
  <2>1. live' = IF init THEN With(live, {v}) ELSE live
    BY DEF Let
  <2>2. Hold(Top.assigned \cup {v}, With(live, {v}))
    <3>1. {v} \in SUBSET Names
      OBVIOUS
    <3> QED
      BY <1>3, <3>1, HoldWith
  <2> QED
    BY <1>2, <1>3, <2>1, <2>2 DEF Revised
<1>6. \A a : Within(a, Top) => Within(a, c)
  BY <1>2 DEF Revised, Within, Like
<1> QED
  BY <1>1, <1>2, <1>4, <1>5, <1>6, CoveredStatement

\* An assignment keeps what is said to be assigned true.
LEMMA CoveredAssign ==
    ASSUME TypeInv, Covered(open, live), NEW v \in Names, Assign(v)
    PROVE  Covered(open', live')
<1>1. open # <<>> /\ ~Top.ended /\ Top.branches # 0
  <2>1. open # <<>> /\ ~Top.ended /\ Top.branches > 0
    BY DEF Assign, Statement, Walking
  <2> QED
    BY <2>1
<1>2. PICK c : /\ open' \in Seq(ConstructType) /\ Ends(open', open, Len(open), c)
               /\ Revised(c, Top, Top.assigned \cup {v}, Top.yields) /\ c.ended = Top.ended
  BY AssignTop
<1>3. Hold(Top.assigned, live) /\ Joined(Top) /\ live \in SUBSET Stores
  BY <1>1, LiveHolds
<1>4. Joined(c)
  BY <1>1, <1>2, <1>3 DEF Revised, Joined, Like
<1>5. Hold(c.assigned, live')
  <2>1. live' = With(live, {v})
    BY DEF Assign
  <2>2. {v} \in SUBSET Names
    OBVIOUS
  <2> QED
    BY <1>2, <1>3, <2>1, <2>2, HoldWith DEF Revised
<1>6. \A a : Within(a, Top) => Within(a, c)
  BY <1>2 DEF Revised, Within, Like
<1> QED
  BY <1>1, <1>2, <1>4, <1>5, <1>6, CoveredStatement

\* A return keeps what is said to be assigned true: nothing executes after it.
LEMMA CoveredReturn ==
    ASSUME TypeInv, Covered(open, live), Return
    PROVE  Covered(open', live')
<1>1. open # <<>> /\ ~Top.ended /\ Top.branches # 0
  <2>1. open # <<>> /\ ~Top.ended /\ Top.branches > 0
    BY DEF Return, Statement, Walking
  <2> QED
    BY <2>1
<1>2. PICK c : /\ open' \in Seq(ConstructType) /\ Ends(open', open, Len(open), c)
               /\ Revised(c, Top, Top.assigned, Top.yields) /\ c.ended = Top.ended
  BY ReturnTop
<1>3. Joined(Top)
  BY <1>1, LiveHolds
<1>4. Joined(c)
  BY <1>1, <1>2, <1>3 DEF Revised, Joined, Like
<1>5. Hold(c.assigned, live')
  BY DEF Return, Hold
<1>6. \A a : Within(a, Top) => Within(a, c)
  BY <1>2 DEF Revised, Within, Like
<1> QED
  BY <1>1, <1>2, <1>4, <1>5, <1>6, CoveredStatement

\* A value keeps what is said to be assigned true.
LEMMA CoveredValue ==
    ASSUME TypeInv, Covered(open, live), NEW tail \in BOOLEAN, Value(tail)
    PROVE  Covered(open', live')
<1>1. open # <<>> /\ ~Top.ended /\ Top.branches # 0
  <2>1. open # <<>> /\ ~Top.ended /\ Top.branches > 0
    BY DEF Value, Statement, Walking
  <2> QED
    BY <2>1
<1>2. PICK c : /\ open' \in Seq(ConstructType) /\ Ends(open', open, Len(open), c)
               /\ Revised(c, Top, Top.assigned, IF tail THEN Top.yields \cup live ELSE Top.yields)
               /\ c.ended = tail
  BY ValueTop
<1>3. Hold(Top.assigned, live) /\ Joined(Top)
  BY <1>1, LiveHolds
<1>4. Joined(c)
  BY <1>1, <1>2, <1>3 DEF Revised, Joined, Like, Hold
<1>5. Hold(c.assigned, live')
  <2>1. live' = IF tail THEN {} ELSE live
    BY DEF Value
  <2> QED
    BY <1>2, <1>3, <2>1 DEF Revised, Hold
<1>6. \A a : Within(a, Top) => Within(a, c)
  BY <1>2, <1>3 DEF Revised, Within, Like, Hold
<1> QED
  BY <1>1, <1>2, <1>4, <1>5, <1>6, CoveredStatement

\* Entering a construct keeps what is said to be assigned true.
LEMMA CoveredEnter ==
    ASSUME TypeInv, Covered(open, live), NEW kind \in Kinds, NEW type \in MatchTypes \cup {"none"},
           NEW b \in SUBSET Names, Enter(kind, type, b)
    PROVE  Covered(open', live')
<1>1. PICK c : /\ open' \in Seq(ConstructType) /\ Ends(open', open, Len(open) + 1, c)
               /\ Begun(c, kind, Top.assigned \cup b, live)
  BY EnterTop
<1>2. open # <<>> /\ live' = With(live, b)
  BY DEF Enter, Statement, Walking
<1>3. Hold(Top.assigned, live) /\ live \in SUBSET Stores
  BY <1>2, LiveHolds
<1>4. Top \in ConstructType /\ Top = open[Len(open)]
      /\ Len(open) \in Nat \ {0} /\ DOMAIN open = 1..Len(open)
  BY <1>2, Innermost
<1>5. Within(Top.assigned, c) /\ Joined(c)
  <2>1. Top.assigned \subseteq Names
    BY <1>4 DEF ConstructType
  <2> QED
    BY <1>1, <1>3, <2>1 DEF Within, Joined, Begun, Hold
<1>6. Hold(c.assigned, live')
  BY <1>1, <1>2, <1>3, HoldWith DEF Begun
<1>7. \A i \in 1..Len(open) : Within(open[i].assigned, c)
  <2> TAKE i \in 1..Len(open)
  <2>1. i \in DOMAIN open /\ Len(open) \in DOMAIN open /\ (i = Len(open) \/ i < Len(open))
    <3> DEFINE m == Len(open)
    <3>1. m \in Nat \ {0} /\ i \in 1..m /\ DOMAIN open = 1..m
      BY <1>4, Zenon
    <3> HIDE DEF m
    <3>2. i \in 1..m /\ m \in 1..m /\ (i = m \/ i < m)
      BY <3>1
    <3> QED
      BY <3>1, <3>2, Zenon DEF m
  <2>2. open[i].assigned \subseteq Top.assigned
    <3>1. CASE i = Len(open)
      BY <1>4, <3>1
    <3>2. CASE i < Len(open)
      BY <1>4, <2>1, <3>2, Zenon DEF Covered, Within
    <3> QED
      BY <2>1, <3>1, <3>2
  <2> QED
    BY <1>5, <2>2 DEF Within, Hold
<1>8. open \in Seq(ConstructType)
  BY DEF TypeInv
<1> DEFINE n == Len(open) + 1
<1>9. open' \in Seq(ConstructType) /\ Ends(open', open, n, c)
  BY <1>1, Zenon
<1>10. \A i \in 1..(n - 1) : Within(open[i].assigned, c)
  <2>1. n - 1 = Len(open)
    BY <1>4
  <2> QED
    BY <1>7, <2>1, Zenon
<1>11. n # 1
  BY <1>4
<1> HIDE DEF n
<1> QED
  BY <1>5, <1>6, <1>8, <1>9, <1>10, <1>11, CoveredEnds, Zenon

(* What the branch being walked adds to the construct when it is over.     *)
LEMMA DoneJoined ==
    ASSUME TypeInv, open # <<>>, Covered(open, live)
    PROVE  \A d : d = BranchDone(Top) =>
              /\ d \in ConstructType
              /\ Hold(d.outs, d.exits) /\ Hold(d.outs, d.yields)
              /\ d.branches = 0 => d.yields = {}
              /\ Within(Around, d)
<1> SUFFICES ASSUME NEW d, d = BranchDone(Top)
             PROVE  /\ d \in ConstructType
                    /\ Hold(d.outs, d.exits) /\ Hold(d.outs, d.yields)
                    /\ d.branches = 0 => d.yields = {}
                    /\ Within(Around, d)
  OBVIOUS
<1>1. Top \in ConstructType /\ live \in SUBSET Stores
  BY Innermost DEF TypeInv
<1>2. Within(Around, Top) /\ Joined(Top) /\ Hold(Top.assigned, live)
  BY AroundWithin, Zenon
<1>3. /\ d \in ConstructType /\ d.branches = Top.branches
      /\ d.assigned = Top.assigned
      /\ d.entry = Top.entry /\ d.yields = Top.yields /\ d.broke = Top.broke
      /\ Top.branches = 0 => d.outs = Top.outs /\ d.exits = Top.exits
      /\ Top.branches # 0 => /\ d.outs = Top.outs \cap Top.assigned
                             /\ d.exits = Top.exits \cup live
  BY <1>1, DoneFields
<1>4. Hold(d.outs, d.exits)
  BY <1>2, <1>3 DEF Joined, Hold
<1>5. Hold(d.outs, d.yields) /\ (d.branches = 0 => d.yields = {})
  BY <1>2, <1>3 DEF Joined, Hold
<1>6. Within(Around, d)
  BY <1>2, <1>3 DEF Within, Hold
<1> QED
  BY <1>3, <1>4, <1>5, <1>6, Zenon

\* The next branch starts from the stores at the entry of the construct: what is
\* said to be assigned there stays true.
LEMMA CoveredNextBranch ==
    ASSUME TypeInv, Covered(open, live), NEW pat \in SUBSET Patterns, NEW b \in SUBSET Names,
           NextBranch(pat, b)
    PROVE  Covered(open', live')
<1>1. PICK c : /\ open' \in Seq(ConstructType) /\ Ends(open', open, Len(open), c)
               /\ Rebegun(c, BranchDone(Top), Before \cup b)
  BY NextBranchTop
<1>2. open # <<>> /\ live' = With(Top.entry, b)
  BY DEF NextBranch
<1> DEFINE d == BranchDone(Top)
<1>3. /\ d \in ConstructType
      /\ Hold(d.outs, d.exits) /\ Hold(d.outs, d.yields)
      /\ d.branches = 0 => d.yields = {}
      /\ Within(Around, d)
  BY <1>2, DoneJoined, Zenon
<1>4. Before = Around
  <2>1. Len(open) = 1 <=> Top.kind = "fun"
    BY <1>2, Innermost DEF TypeInv, Outermost
  <2> QED
    BY <2>1 DEF Before, Around
<1>5. Rebegun(c, d, Around \cup b)
  BY <1>1, <1>4, Zenon
<1>6. Within(Around, Top) /\ Top.entry \in SUBSET Stores
  <2>1. Top \in ConstructType /\ Within(Around, Top)
    BY <1>2, Innermost, AroundWithin, Zenon
  <2> QED
    BY <2>1 DEF ConstructType
<1> HIDE DEF d
<1>7. Joined(c)
  <2>1. c.branches # 0
    BY <1>3, <1>5 DEF Rebegun, ConstructType
  <2> QED
    BY <1>3, <1>5, <2>1 DEF Rebegun, Joined, Hold
<1>8. Hold(c.assigned, live')
  BY <1>2, <1>5, <1>6, HoldWith DEF Rebegun, Within
<1>9. \A a : a \subseteq Around => Within(a, c)
  BY <1>3, <1>5 DEF Rebegun, Within, Hold
<1>10. \A i \in 1..(Len(open) - 1) : Within(open[i].assigned, c)
  BY <1>2, <1>9, AroundWithin, Zenon
<1>11. Len(open) = 1 => Within(Params, c)
  <2>1. Len(open) = 1 => Around = Params
    BY <1>2, AroundWithin, Zenon
  <2> QED
    BY <1>9, <2>1
<1>12. open \in Seq(ConstructType)
  BY DEF TypeInv
<1> QED
  BY <1>1, <1>7, <1>8, <1>10, <1>11, <1>12, CoveredEnds, Zenon

(* What is assigned after a construct is so in every store that leaves it, *)
(* when a match has a case for every value.                                *)
LEMMA AfterHolds ==
    ASSUME NEW d \in ConstructType, NEW a, Within(a, d),
           Hold(d.outs, d.exits), Hold(d.outs, d.yields),
           d.kind = "match" => Total(d.type, d.arms)
    PROVE  Hold(a \cup AssignedAfter(d), StoresAfter(d) \cup Yielded(d))
<1>1. CASE d.kind = "if"
  BY <1>1 DEF AssignedAfter, StoresAfter, Yielded, Hold, Within, Loops
<1>2. CASE d.kind = "match"
  BY <1>2 DEF AssignedAfter, StoresAfter, Yielded, Hold, Within, Loops
<1>3. CASE d.kind \notin {"if", "match"}
  <2>1. AssignedAfter(d) = {}
    BY <1>3 DEF AssignedAfter
  <2>2. StoresAfter(d) \cup Yielded(d) \subseteq d.entry \cup d.exits \cup d.yields \cup d.broke
    BY <1>3 DEF StoresAfter, Yielded
  <2> QED
    BY <2>1, <2>2 DEF Hold, Within
<1> QED
  BY <1>1, <1>2, <1>3

(* A match that leaves no error and no excuse has a case for every value.  *)
LEMMA ClosedMatchTotal ==
    ASSUME TypeInv, NEW tail \in BOOLEAN, Close(tail), Trusted',
           NEW d, d = BranchDone(Top), d.kind = "match"
    PROVE  Total(d.type, d.arms)
<1> DEFINE checked == /\ d.type \in Checked
                      /\ \A i \in DOMAIN open : open[i].kind \notin {"detached", "whileUnwrap"}
<1>1. /\ checked /\ Missing(d.type, d.arms) # {} => "match" \in diags'
      /\ ~checked => "match" \in excuses'
  BY DEF Close
<1>2. checked /\ Missing(d.type, d.arms) = {}
  BY <1>1 DEF Trusted
<1> QED
  BY <1>2, MissingTotal

\* After a construct, what every branch that can end assigns has a value in every
\* store that leaves it.
LEMMA CoveredClose ==
    ASSUME TypeInv, Covered(open, live), NEW tail \in BOOLEAN, Close(tail), Trusted'
    PROVE  Covered(open', live')
<1>1. PICK d, p :
              /\ open' \in Seq(ConstructType) /\ Ends(open', open, Len(open) - 1, p)
              /\ d = BranchDone(Top) /\ d \in ConstructType
              /\ Like(p, Parent)
              /\ p.assigned = Parent.assigned \cup AssignedAfter(d)
              /\ p.ended = tail
              /\ p.yields = IF tail THEN Parent.yields \cup Yielded(d) ELSE Parent.yields
              /\ live' = StoresAfter(d) \cup (IF tail THEN {} ELSE Yielded(d))
  BY CloseTop
<1>2. Len(open) > 1 /\ open # <<>>
  BY DEF Close
<1>3. /\ Len(open) \in Nat \ {0} /\ Len(open) - 1 \in DOMAIN open
      /\ Parent = open[Len(open) - 1]
  BY <1>2, Innermost DEF Parent
<1>4. /\ Hold(d.outs, d.exits) /\ Hold(d.outs, d.yields)
      /\ Within(Around, d) /\ Around = Parent.assigned /\ Joined(Parent)
      /\ \A i \in 1..(Len(open) - 2) : Within(open[i].assigned, Parent)
      /\ Len(open) = 2 => Within(Params, Parent)
  BY <1>1, <1>2, DoneJoined, AroundWithin, Zenon
<1>5. d.kind = "match" => Total(d.type, d.arms)
  BY <1>1, ClosedMatchTotal
<1>6. Hold(p.assigned, StoresAfter(d) \cup Yielded(d))
  BY <1>1, <1>4, <1>5, AfterHolds
<1>7. Hold(p.assigned, live')
  BY <1>1, <1>6 DEF Hold
<1>8. ~Parent.ended /\ Parent.branches # 0
  BY <1>3 DEF TypeInv, LastIdle
<1>9. Joined(p)
  <2>1. p.outs = Parent.outs /\ p.exits = Parent.exits /\ p.branches = Parent.branches
    BY <1>1 DEF Like
  <2>2. \A s \in Parent.yields : Parent.outs \subseteq s
    BY <1>4, <1>8 DEF Joined
  <2>3. \A s \in Yielded(d) : p.assigned \subseteq s
    BY <1>6 DEF Hold
  <2> QED
    BY <1>1, <1>4, <1>8, <2>1, <2>2, <2>3 DEF Joined
<1>10. \A a : Within(a, Parent) => Within(a, p)
  <2> SUFFICES ASSUME NEW a, Within(a, Parent) PROVE Within(a, p)
    OBVIOUS
  <2>1. a \subseteq p.assigned
    BY <1>1 DEF Within
  <2>2. Hold(a, Yielded(d))
    BY <1>6, <2>1 DEF Hold
  <2>3. Hold(a, p.yields)
    BY <1>1, <2>2 DEF Hold, Within
  <2> QED
    BY <1>1, <2>1, <2>3 DEF Within, Like
<1> DEFINE n == Len(open) - 1
<1>11. /\ \A i \in 1..(n - 1) : Within(open[i].assigned, p)
       /\ n = 1 => Within(Params, p)
  <2>1. n - 1 = Len(open) - 2 /\ (n = 1 => Len(open) = 2)
    BY <1>3
  <2> HIDE DEF n
  <2> QED
    BY <1>4, <1>10, <2>1, Zenon
<1>12. Ends(open', open, n, p) /\ open' \in Seq(ConstructType) /\ open \in Seq(ConstructType)
  BY <1>1 DEF TypeInv
<1> HIDE DEF n
<1> QED
  BY <1>7, <1>9, <1>11, <1>12, CoveredEnds, Zenon

\* A break takes the stores to the end of a loop, where only what was assigned
\* before the loop is said to be assigned.
LEMMA CoveredJump ==
    ASSUME TypeInv, Covered(open, live), Jump
    PROVE  Covered(open', live')
<1>1. PICK i \in DOMAIN open, c \in ConstructType :
              /\ open' \in Seq(ConstructType) /\ Len(open') = Len(open) /\ open'[i] = c
              /\ \A k \in DOMAIN open : k # i => open'[k] = open[k]
              /\ c.branches = open[i].branches
              /\ c.outs = open[i].outs
              /\ c.entry = open[i].entry /\ c.exits = open[i].exits /\ c.yields = open[i].yields
              /\ c.assigned = open[i].assigned /\ c.ended = open[i].ended
              /\ c.broke = open[i].broke \cup live
  BY JumpLoop
<1>2. open # <<>> /\ live' = {}
  BY DEF Jump, Statement, Walking
<1>3. /\ Len(open) \in Nat \ {0} /\ DOMAIN open = 1..Len(open) /\ Top = open[Len(open)]
  BY <1>2, Innermost
<1>4. DOMAIN open' = DOMAIN open /\ open' # <<>>
  <2> DEFINE X == ConstructType
  <2>1. open' \in Seq(X) /\ open \in Seq(X)
    BY <1>1 DEF TypeInv
  <2> HIDE DEF X
  <2> QED
    BY <1>1, <1>3, <2>1
<1>5. /\ \A k \in DOMAIN open : Joined(open[k])
      /\ \A k, j \in DOMAIN open : k < j => Within(open[k].assigned, open[j])
      /\ Within(Params, open[1]) /\ Hold(Top.assigned, live)
  BY <1>2, <1>3, Zenon DEF Covered
<1>6. \A k \in DOMAIN open : open'[k].assigned = open[k].assigned
  BY <1>1
<1>7. \A k \in DOMAIN open : open[k].assigned \subseteq Top.assigned
  <2> TAKE k \in DOMAIN open
  <2>1. k = Len(open) \/ (k < Len(open) /\ Len(open) \in DOMAIN open)
    BY <1>3
  <2> QED
    BY <1>3, <1>5, <2>1 DEF Within
<1>8. \A a : Within(a, open[i]) => Within(a, c)
  BY <1>1, <1>5, <1>7 DEF Within, Hold
<1>9. \A k \in DOMAIN open : Joined(open'[k])
  BY <1>1, <1>5 DEF Joined
<1>10. \A k, j \in DOMAIN open : k < j => Within(open'[k].assigned, open'[j])
  BY <1>1, <1>5, <1>6, <1>8, Zenon
<1>11. Within(Params, open'[1])
  <2>1. 1 \in DOMAIN open
    BY <1>3
  <2> QED
    BY <1>1, <1>5, <1>8, <2>1, Zenon
<1> QED
  BY <1>2, <1>4, <1>9, <1>10, <1>11, Zenon DEF Covered, Hold

(* Errors and excuses stay.                                                *)
LEMMA Stay == ASSUME [Next]_vars PROVE diags \subseteq diags' /\ excuses \subseteq excuses'
<1>1. ASSUME NEW v, NEW flag, Let(v, flag) \/ Assign(v) \/ Use(v, flag) \/ Return \/ Value(flag) \/ Jump
      PROVE  diags \subseteq diags' /\ excuses \subseteq excuses'
  BY <1>1 DEF Let, Assign, Use, Return, Value, Jump
<1>2. ASSUME NEW tail, Close(tail) PROVE diags \subseteq diags' /\ excuses \subseteq excuses'
  BY <1>2 DEF Close
<1>3. ASSUME NEW kind, NEW type, NEW b, Enter(kind, type, b)
      PROVE  diags \subseteq diags' /\ excuses \subseteq excuses'
  BY <1>3 DEF Enter
<1>4. ASSUME NEW pat, NEW b, NextBranch(pat, b)
      PROVE  diags \subseteq diags' /\ excuses \subseteq excuses'
  BY <1>4 DEF NextBranch
<1>5. ASSUME End PROVE diags \subseteq diags' /\ excuses \subseteq excuses'
  BY <1>5 DEF End
<1>6. CASE UNCHANGED vars
  BY <1>6 DEF vars
<1>7. CASE Next
  BY <1>1, <1>2, <1>3, <1>4, <1>5, <1>7, Zenon DEF Next
<1> QED
  BY <1>6, <1>7

\* A use that is looked at, of a name that has no value, is reported.
LEMMA AssignedUse ==
    ASSUME TypeInv, ~used, Covered(open, live), NEW v \in Names, NEW visited \in BOOLEAN,
           Use(v, visited), Trusted'
    PROVE  ~used'
<1> DEFINE seen == visited /\ \A i \in DOMAIN open : open[i].kind # "whileUnwrap"
<1>1. /\ open # <<>>
      /\ seen /\ Unassigned(v) => "unassigned" \in diags'
      /\ ~seen => "unvisited" \in excuses'
      /\ used' = (used \/ \E s \in live : v \notin s)
  BY DEF Use, Statement, Walking
<1>2. v \in Top.assigned
  BY <1>1 DEF Trusted, Unassigned
<1>3. Hold(Top.assigned, live)
  BY <1>1, LiveHolds
<1> QED
  BY <1>1, <1>2, <1>3 DEF Hold

\* Every step keeps the invariant of definite assignment.
LEMMA AssignedStep == ASSUME TypeInv, AssignedInv, [Next]_vars PROVE AssignedInv'
<1> SUFFICES ASSUME Trusted' PROVE ~used' /\ Covered(open', live')
  BY DEF AssignedInv
<1>1. ~used /\ Covered(open, live)
  BY Stay DEF Trusted, AssignedInv
<1>2. ASSUME NEW v \in Names, NEW flag \in BOOLEAN, Let(v, flag) \/ Assign(v)
      PROVE  ~used' /\ Covered(open', live')
  <2>1. used' = used
    BY <1>2 DEF Let, Assign
  <2> QED
    BY <1>1, <1>2, <2>1, CoveredLet, CoveredAssign
<1>3. ASSUME NEW v \in Names, NEW flag \in BOOLEAN, Use(v, flag)
      PROVE  ~used' /\ Covered(open', live')
  <2>1. open' = open /\ live' = live
    BY <1>3 DEF Use
  <2> QED
    BY <1>1, <1>3, <2>1, AssignedUse
<1>4. ASSUME NEW flag \in BOOLEAN, Return \/ Value(flag) \/ Jump
      PROVE  ~used' /\ Covered(open', live')
  <2>1. used' = used
    BY <1>4 DEF Return, Value, Jump
  <2> QED
    BY <1>1, <1>4, <2>1, CoveredReturn, CoveredValue, CoveredJump
<1>5. ASSUME NEW tail \in BOOLEAN, Close(tail)
      PROVE  ~used' /\ Covered(open', live')
  <2>1. used' = used
    BY <1>5 DEF Close
  <2> QED
    BY <1>1, <1>5, <2>1, CoveredClose
<1>6. ASSUME End PROVE ~used' /\ Covered(open', live')
  <2>1. used' = used /\ open' = <<>>
    BY <1>6 DEF End
  <2> QED
    BY <1>1, <2>1 DEF Covered
<1>7. ASSUME NEW b \in Bindings, NEW kind \in Kinds, NEW type \in MatchTypes \cup {"none"},
             Enter(kind, type, b)
      PROVE  ~used' /\ Covered(open', live')
  <2>1. used' = used /\ b \in SUBSET Names
    BY <1>7, BindingNames DEF Enter
  <2> QED
    BY <1>1, <1>7, <2>1, CoveredEnter
<1>8. ASSUME NEW b \in Bindings, NEW pat \in SUBSET Patterns, NextBranch(pat, b)
      PROVE  ~used' /\ Covered(open', live')
  <2>1. used' = used /\ b \in SUBSET Names
    BY <1>8, BindingNames DEF NextBranch
  <2> QED
    BY <1>1, <1>8, <2>1, CoveredNextBranch
<1>9. CASE Next
  <2>1. /\ \A kind \in Kinds \ {"match"} : kind \in Kinds /\ "none" \in MatchTypes \cup {"none"}
        /\ \A type \in MatchTypes : "match" \in Kinds /\ type \in MatchTypes \cup {"none"}
        /\ {} \in SUBSET Patterns /\ \A pat \in Patterns : {pat} \in SUBSET Patterns
        /\ TRUE \in BOOLEAN
    BY DEF Kinds
  <2> QED
    BY <1>2, <1>3, <1>4, <1>5, <1>6, <1>7, <1>8, <1>9, <2>1, Zenon DEF Next
<1>10. CASE UNCHANGED vars
  BY <1>1, <1>10 DEF vars
<1> QED
  BY <1>9, <1>10

(* AssignedBeforeUse: in a program that the passes accept, no execution    *)
(* uses a name that has no value.                                          *)
THEOREM UsesAssigned == Spec => []AssignedBeforeUse
<1>1. Init => AssignedInv
  <2> SUFFICES ASSUME Init PROVE ~used /\ Covered(open, live)
    BY DEF AssignedInv
  <2> DEFINE c == Construct("fun", "none", Params, {Params})
             X == ConstructType
  <2>1. open = <<c>> /\ live = {Params} /\ ~used
    BY DEF Init
  <2>2. Params \subseteq Names
    BY NamesAssumption DEF NamesAssumption
  <2>3. Joined(c) /\ Within(Params, c) /\ Hold(c.assigned, live)
    BY <2>1, <2>2 DEF Construct, Joined, Within, Hold
  <2> HIDE DEF c
  <2>4. Len(open) = 1 /\ open[1] = c /\ DOMAIN open = {1} /\ open # <<>>
    BY <2>1
  <2>5. \A i, j \in {1} : ~(i < j)
    OBVIOUS
  <2> QED
    BY <2>1, <2>3, <2>4, <2>5, Zenon DEF Covered
<1>2. TypeInv /\ AssignedInv /\ [Next]_vars => AssignedInv'
  BY AssignedStep
<1>3. AssignedInv => AssignedBeforeUse
  BY DEF AssignedInv, AssignedBeforeUse, Trusted
<1> QED
  BY <1>1, <1>2, <1>3, FlowInvariance, PTL DEF Spec

-----------------------------------------------------------------------------
(* Return paths.                                                           *)

\* No execution has been at the construct.
Empty(c) == c.entry = {} /\ c.exits = {} /\ c.yields = {} /\ c.broke = {}

\* No execution is past what returns, nor leaves branches that all return.
Done(o, stores) ==
    /\ \A i \in DOMAIN o : o[i].returns => stores = {}
    /\ \A i \in DOMAIN o : o[i].allReturn => o[i].exits = {}
    /\ \A i, j \in DOMAIN o : i < j /\ o[i].returns => Empty(o[j])
    /\ o # <<>> => o[1].exits = {}

\* The passes have found nothing, in a program without the forms that are excused.
Returning == diags \cap {"return", "match"} = {} /\ excuses \subseteq {"unvisited"}

ReturnsInv == Returning => Done(open, live) /\ (open = <<>> => live = {})

(* It is enough to look at the last construct.                             *)
LEMMA DoneEnds ==
    ASSUME NEW s \in Seq(ConstructType), NEW t \in Seq(ConstructType), NEW n, NEW c,
           NEW stores, NEW older,
           Ends(t, s, n, c), Done(s, older),
           \A i \in 1..(n - 1) : s[i].returns => stores = {} /\ Empty(c),
           c.returns => stores = {}, c.allReturn => c.exits = {},
           n = 1 => c.exits = {}
    PROVE  Done(t, stores)
<1>1. /\ n \in Nat \ {0} /\ n - 1 <= Len(s) /\ Len(s) \in Nat
      /\ Len(t) = n /\ t[n] = c
      /\ \A i \in 1..(n - 1) : t[i] = s[i]
  BY DEF Ends
<1>2. DOMAIN t = 1..n /\ DOMAIN s = 1..Len(s)
  <2> DEFINE X == ConstructType
  <2>1. t \in Seq(X) /\ s \in Seq(X)
    OBVIOUS
  <2> HIDE DEF X
  <2> QED
    BY <1>1, <2>1
<1>3. \A i \in 1..n : i = n \/ (i \in 1..(n - 1) /\ i \in 1..Len(s))
  BY <1>1
<1>4. ASSUME NEW i \in DOMAIN t
      PROVE  /\ t[i].returns => stores = {}
             /\ t[i].allReturn => t[i].exits = {}
  <2>1. CASE i = n
    BY <1>1, <2>1, Zenon
  <2>2. CASE i # n
    <3>1. i \in 1..(n - 1) /\ i \in DOMAIN s
      BY <1>2, <1>3, <2>2
    <3> QED
      BY <1>1, <3>1, Zenon DEF Done
  <2> QED
    BY <2>1, <2>2
<1>5. ASSUME NEW i \in DOMAIN t, NEW j \in DOMAIN t, i < j, t[i].returns
      PROVE  Empty(t[j])
  <2>1. i \in 1..(n - 1) /\ i \in DOMAIN s /\ t[i] = s[i]
    BY <1>1, <1>2, <1>3, <1>5
  <2>2. CASE j = n
    BY <1>1, <1>5, <2>1, <2>2, Zenon
  <2>3. CASE j # n
    <3>1. j \in 1..(n - 1) /\ j \in DOMAIN s
      BY <1>2, <1>3, <2>3
    <3> QED
      BY <1>1, <1>5, <2>1, <3>1, Zenon DEF Done
  <2> QED
    BY <2>2, <2>3
<1>6. t[1].exits = {}
  <2>1. CASE n = 1
    BY <1>1, <2>1
  <2>2. CASE n # 1
    <3>1. 1 \in 1..(n - 1) /\ Len(s) > 0
      BY <1>1, <2>2
    <3>2. t[1] = s[1] /\ s # <<>>
      BY <1>1, <3>1
    <3> QED
      BY <3>2, Zenon DEF Done
  <2> QED
    BY <2>1, <2>2
<1> QED
  BY <1>4, <1>5, <1>6, Zenon DEF Done

(* What is known of the last two constructs.                               *)
LEMMA DoneTop ==
    ASSUME TypeInv, open # <<>>, Done(open, live)
    PROVE  /\ Top.returns => live = {}
           /\ Top.allReturn => Top.exits = {}
           /\ \A i \in DOMAIN open : open[i].returns => live = {}
           /\ \A i \in 1..(Len(open) - 1) : open[i].returns => Empty(Top)
           /\ Len(open) = 1 => Top.exits = {}
           /\ Len(open) > 1 => /\ Parent.allReturn => Parent.exits = {}
                               /\ Parent.returns => Empty(Top) /\ live = {}
           /\ \A i \in 1..(Len(open) - 2) : open[i].returns => Empty(Parent)
           /\ Len(open) = 2 => Parent.exits = {}
<1>1. /\ Len(open) \in Nat \ {0} /\ Len(open) \in DOMAIN open
      /\ DOMAIN open = 1..Len(open)
      /\ Top = open[Len(open)]
      /\ Parent = open[Len(open) - 1]
  BY Innermost DEF Parent
<1> DEFINE m == Len(open)
<1>2. /\ \A i \in DOMAIN open : open[i].returns => live = {}
      /\ \A i \in DOMAIN open : open[i].allReturn => open[i].exits = {}
      /\ \A i, j \in DOMAIN open : i < j /\ open[i].returns => Empty(open[j])
      /\ open[1].exits = {}
  BY Zenon DEF Done
<1> HIDE DEF m
<1>3. m \in Nat \ {0} /\ m \in 1..m /\ (\A i \in 1..(m - 1) : i \in 1..m /\ i < m)
      /\ (m > 1 => m - 1 \in 1..m /\ m - 1 \in 1..(m - 1))
      /\ (\A i \in 1..(m - 2) : i \in 1..m /\ i < m - 1 /\ m - 1 \in 1..m)
      /\ (m = 2 => m - 1 = 1)
  BY <1>1 DEF m
<1>4. (Top.returns => live = {}) /\ (Top.allReturn => Top.exits = {})
  BY <1>1, <1>2, Zenon
<1>5. \A i \in 1..(m - 1) : open[i].returns => Empty(Top)
  BY <1>1, <1>2, <1>3, Zenon DEF m
<1>6. m = 1 => Top.exits = {}
  BY <1>1, <1>2, Zenon DEF m
<1>7. m > 1 => /\ Parent.allReturn => Parent.exits = {}
               /\ Parent.returns => Empty(Top) /\ live = {}
  BY <1>1, <1>2, <1>3, <1>5, Zenon DEF m
<1>8. \A i \in 1..(m - 2) : open[i].returns => Empty(Parent)
  BY <1>1, <1>2, <1>3, Zenon DEF m
<1>9. m = 2 => Parent.exits = {}
  BY <1>1, <1>2, <1>3, Zenon DEF m
<1> QED
  BY <1>2, <1>4, <1>5, <1>6, <1>7, <1>8, <1>9, Zenon DEF m

(* A statement in the last construct.                                      *)
LEMMA DoneStatement ==
    ASSUME TypeInv, open # <<>>, Done(open, live), NEW c,
           open' \in Seq(ConstructType), Ends(open', open, Len(open), c), Like(c, Top),
           live = {} => live' = {}, c.returns => live' = {},
           live = {} => c.yields = Top.yields
    PROVE  Done(open', live')
<1>1. \A i \in 1..(Len(open) - 1) : open[i].returns => live' = {} /\ Empty(c)
  <2> TAKE i \in 1..(Len(open) - 1)
  <2>1. i \in DOMAIN open
    <3>1. Len(open) \in Nat /\ DOMAIN open = 1..Len(open)
      BY Innermost
    <3> QED
      BY <3>1
  <2>2. open[i].returns => live = {} /\ Empty(Top)
    BY <2>1, DoneTop, Zenon
  <2> QED
    BY <2>2 DEF Like, Empty
<1>2. (c.allReturn => c.exits = {}) /\ (Len(open) = 1 => c.exits = {})
  BY DoneTop DEF Like
<1>3. open \in Seq(ConstructType)
  BY DEF TypeInv
<1> QED
  BY <1>1, <1>2, <1>3, DoneEnds, Zenon

\* Declarations and assignments execute only where the code before did not return.
LEMMA DoneLetAssign ==
    ASSUME TypeInv, Done(open, live), NEW v \in Names, NEW init \in BOOLEAN,
           Let(v, init) \/ Assign(v)
    PROVE  Done(open', live')
<1>1. open # <<>> /\ live' \in {With(live, {v}), live}
  BY DEF Let, Assign, Statement, Walking
<1>2. PICK c, a : /\ open' \in Seq(ConstructType) /\ Ends(open', open, Len(open), c)
                  /\ Revised(c, Top, a, Top.yields) /\ c.returns = Top.returns
  <2>1. CASE Let(v, init)
    <3>1. PICK c : /\ open' \in Seq(ConstructType) /\ Ends(open', open, Len(open), c)
                   /\ Revised(c, Top, IF init THEN Top.assigned \cup {v} ELSE Top.assigned, Top.yields)
                   /\ c.returns = Top.returns /\ c.ended = Top.ended
      BY <2>1, LetTop
    <3> QED
      BY <3>1, Zenon
  <2>2. CASE Assign(v)
    <3>1. PICK c : /\ open' \in Seq(ConstructType) /\ Ends(open', open, Len(open), c)
                   /\ Revised(c, Top, Top.assigned \cup {v}, Top.yields)
                   /\ c.returns = Top.returns /\ c.ended = Top.ended
      BY <2>2, AssignTop
    <3> QED
      BY <3>1, Zenon
  <2> QED
    BY <2>1, <2>2
<1>3. live = {} => live' = {}
  <2>1. {v} \in SUBSET Names /\ live \in SUBSET Stores
    BY DEF TypeInv
  <2> QED
    BY <1>1, <2>1, WithStores
<1>4. c.returns => live' = {}
  BY <1>1, <1>2, <1>3, DoneTop
<1> QED
  BY <1>1, <1>2, <1>3, <1>4, DoneStatement DEF Revised

\* After a return nothing executes.
LEMMA DoneReturn == ASSUME TypeInv, Done(open, live), Return PROVE Done(open', live')
<1>1. open # <<>> /\ live' = {}
  BY DEF Return, Statement, Walking
<1>2. PICK c : /\ open' \in Seq(ConstructType) /\ Ends(open', open, Len(open), c)
               /\ Revised(c, Top, Top.assigned, Top.yields)
  BY ReturnTop
<1> QED
  BY <1>1, <1>2, DoneStatement DEF Revised

\* A value that is the tail of its branch leaves nothing to execute in it.
LEMMA DoneValue ==
    ASSUME TypeInv, Done(open, live), NEW tail \in BOOLEAN, Value(tail), Returning'
    PROVE  Done(open', live')
<1>1. /\ open # <<>> /\ live' = IF tail THEN {} ELSE live
      /\ tail \/ live = {} \/ "value" \in excuses'
  BY DEF Value, Statement, Walking
<1>2. PICK c : /\ open' \in Seq(ConstructType) /\ Ends(open', open, Len(open), c)
               /\ Revised(c, Top, Top.assigned, IF tail THEN Top.yields \cup live ELSE Top.yields)
  BY ValueTop
<1>3. live' = {}
  BY <1>1 DEF Returning
<1>4. live = {} => c.yields = Top.yields
  BY <1>2 DEF Revised
<1> QED
  BY <1>1, <1>2, <1>3, <1>4, DoneStatement DEF Revised

\* A break or continue ends the stores of the place it is at.
LEMMA DoneJump == ASSUME TypeInv, Done(open, live), Jump PROVE Done(open', live')
<1>1. PICK i \in DOMAIN open, c \in ConstructType :
              /\ open' \in Seq(ConstructType) /\ Len(open') = Len(open) /\ open'[i] = c
              /\ \A k \in DOMAIN open : k # i => open'[k] = open[k]
              /\ c.allReturn = open[i].allReturn
              /\ c.entry = open[i].entry /\ c.exits = open[i].exits /\ c.yields = open[i].yields
              /\ c.returns = open[i].returns
              /\ c.broke = open[i].broke \cup live
  BY JumpLoop
<1>2. open # <<>> /\ live' = {}
  BY DEF Jump, Statement, Walking
<1>3. /\ Len(open) \in Nat \ {0} /\ DOMAIN open = 1..Len(open)
  BY <1>2, Innermost
<1>4. DOMAIN open' = DOMAIN open
  <2> DEFINE X == ConstructType
  <2>1. open' \in Seq(X) /\ open \in Seq(X)
    BY <1>1 DEF TypeInv
  <2> HIDE DEF X
  <2> QED
    BY <1>1, <1>3, <2>1
<1>5. /\ \A k \in DOMAIN open : open[k].returns => live = {}
      /\ \A k \in DOMAIN open : open[k].allReturn => open[k].exits = {}
      /\ \A k, j \in DOMAIN open : k < j /\ open[k].returns => Empty(open[j])
      /\ open[1].exits = {} /\ 1 \in DOMAIN open
  BY <1>2, <1>3 DEF Done
<1>6. \A k \in DOMAIN open : /\ open'[k].returns = open[k].returns
                             /\ open'[k].allReturn = open[k].allReturn
                             /\ open'[k].exits = open[k].exits
  BY <1>1
<1>7. \A j \in DOMAIN open : live = {} /\ Empty(open[j]) => Empty(open'[j])
  BY <1>1 DEF Empty
<1>8. \A k, j \in DOMAIN open : k < j /\ open'[k].returns => Empty(open'[j])
  BY <1>5, <1>6, <1>7, Zenon
<1>9. \A k \in DOMAIN open : open'[k].allReturn => open'[k].exits = {}
  BY <1>5, <1>6, Zenon
<1> QED
  BY <1>2, <1>4, <1>5, <1>6, <1>8, <1>9, Zenon DEF Done

\* A construct that begins after what returns is empty.
LEMMA DoneEnter ==
    ASSUME TypeInv, Done(open, live), NEW kind \in Kinds, NEW type \in MatchTypes \cup {"none"},
           NEW b \in SUBSET Names, Enter(kind, type, b)
    PROVE  Done(open', live')
<1>1. PICK c : /\ open' \in Seq(ConstructType) /\ Ends(open', open, Len(open) + 1, c)
               /\ Begun(c, kind, Top.assigned \cup b, live)
  BY EnterTop
<1>2. open # <<>> /\ live' = With(live, b)
  BY DEF Enter, Statement, Walking
<1>3. Len(open) \in Nat \ {0} /\ DOMAIN open = 1..Len(open)
  BY <1>2, Innermost
<1>4. live = {} => live' = {} /\ Empty(c)
  BY <1>1, <1>2, WithStores DEF TypeInv, Begun, Empty
<1>5. ~c.returns /\ c.exits = {}
  BY <1>1 DEF Begun
<1>6. \A i \in 1..Len(open) : open[i].returns => live' = {} /\ Empty(c)
  BY <1>2, <1>3, <1>4, Zenon DEF Done
<1> DEFINE n == Len(open) + 1
<1>7. n - 1 = Len(open)
  BY <1>3
<1>8. Ends(open', open, n, c) /\ open' \in Seq(ConstructType) /\ open \in Seq(ConstructType)
  BY <1>1 DEF TypeInv
<1> HIDE DEF n
<1>9. \A i \in 1..(n - 1) : open[i].returns => live' = {} /\ Empty(c)
  BY <1>6, <1>7, Zenon
<1> QED
  BY <1>5, <1>8, <1>9, DoneEnds, Zenon

(* The construct when the branch being walked is over.                     *)
LEMMA DoneBranch ==
    ASSUME TypeInv, open # <<>>, Done(open, live)
    PROVE  \A d : d = BranchDone(Top) =>
              /\ d.allReturn => d.exits = {}
              /\ Empty(Top) /\ live = {} => Empty(d)
<1>1. Top \in ConstructType /\ live \in SUBSET Stores
  BY Innermost DEF TypeInv
<1>2. (Top.returns => live = {}) /\ (Top.allReturn => Top.exits = {})
  BY DoneTop, Zenon
<1>3. \A d : d = BranchDone(Top) =>
        /\ d.entry = Top.entry /\ d.yields = Top.yields /\ d.broke = Top.broke
        /\ Top.branches = 0 => (d.allReturn = Top.allReturn /\ d.exits = Top.exits)
        /\ Top.branches # 0 => /\ (d.allReturn <=> Top.allReturn /\ Top.returns)
                               /\ d.exits = Top.exits \cup live
  BY <1>1, DoneFields
<1> QED
  BY <1>2, <1>3 DEF Empty

\* A branch that follows one that returns is walked with the entry of the
\* construct, which is empty when the construct is after what returns.
LEMMA DoneNextBranch ==
    ASSUME TypeInv, Done(open, live), NEW pat \in SUBSET Patterns, NEW b \in SUBSET Names,
           NextBranch(pat, b), Returning'
    PROVE  Done(open', live')
<1>1. PICK c : /\ open' \in Seq(ConstructType) /\ Ends(open', open, Len(open), c)
               /\ Rebegun(c, BranchDone(Top), Before \cup b)
  BY NextBranchTop
<1>2. /\ open # <<>> /\ live' = With(Top.entry, b)
      /\ Top.kind = "fun" /\ ~Top.returns => "return" \in diags'
  BY DEF NextBranch
<1> DEFINE d == BranchDone(Top)
<1>3. Rebegun(c, d, Before \cup b) /\ d = BranchDone(Top)
  BY <1>1
<1>4. /\ Len(open) \in Nat \ {0} /\ DOMAIN open = 1..Len(open) /\ Top = open[Len(open)]
      /\ Top \in ConstructType /\ Len(open) \in DOMAIN open
  BY <1>2, Innermost
<1> HIDE DEF d
<1>5. (d.allReturn => d.exits = {}) /\ (Empty(Top) /\ live = {} => Empty(d))
  BY <1>2, <1>3, DoneBranch
<1>6. \A i \in 1..(Len(open) - 1) : open[i].returns => live' = {} /\ Empty(c)
  <2> TAKE i \in 1..(Len(open) - 1)
  <2>1. i \in DOMAIN open
    BY <1>4
  <2>2. open[i].returns => live = {} /\ Empty(Top)
    BY <1>2, <2>1, DoneTop, Zenon
  <2>3. Empty(d) => Empty(c)
    BY <1>3 DEF Rebegun, Empty
  <2>4. Empty(Top) => live' = {}
    BY <1>2, <1>4, WithStores DEF Empty, ConstructType
  <2> QED
    BY <1>5, <2>2, <2>3, <2>4, Zenon
<1>7. Len(open) = 1 => c.exits = {}
  <2> SUFFICES ASSUME Len(open) = 1 PROVE c.exits = {}
    OBVIOUS
  <2>1. Top.kind = "fun"
    BY <1>4 DEF TypeInv, Outermost
  <2>2. Top.returns
    BY <1>2, <2>1 DEF Returning
  <2>3. live = {} /\ Top.exits = {}
    BY <1>2, <2>2, DoneTop, Zenon
  <2>4. d.exits = {}
    <3>1. /\ Top.branches = 0 => d.exits = Top.exits
          /\ Top.branches # 0 => d.exits = Top.exits \cup live
      BY <1>3, <1>4, DoneFields DEF TypeInv
    <3> QED
      BY <2>3, <3>1
  <2> QED
    BY <1>3, <2>4 DEF Rebegun
<1>8. ~c.returns /\ (c.allReturn => c.exits = {})
  BY <1>3, <1>5 DEF Rebegun
<1>9. open \in Seq(ConstructType)
  BY DEF TypeInv
<1> QED
  BY <1>1, <1>6, <1>7, <1>8, <1>9, DoneEnds, Zenon

(* What definitely returns is left by no execution, when a match has a     *)
(* case for every value and nothing leaves a with or a while that unwraps. *)
LEMMA ReturnsLeavesNone ==
    ASSUME NEW d \in ConstructType, DefinitelyReturns(d), d.allReturn => d.exits = {},
           d.kind = "match" => Total(d.type, d.arms),
           d.kind \in {"with", "whileUnwrap"} => StoresAfter(d) = {}
    PROVE  StoresAfter(d) = {}
<1>1. CASE d.kind \in {"if", "match", "block"}
  <2>1. d.exits = {} /\ (d.kind = "if" => d.branches = 2)
    BY <1>1 DEF DefinitelyReturns
  <2> QED
    BY <1>1, <2>1 DEF StoresAfter, Loops
<1>2. CASE d.kind \notin {"if", "match", "block"}
  <2>1. d.kind \in {"with", "whileUnwrap"}
    BY <1>2 DEF DefinitelyReturns
  <2> QED
    BY <2>1
<1> QED
  BY <1>1, <1>2

\* A construct said to return leaves no execution after it.
LEMMA DoneClose ==
    ASSUME TypeInv, Done(open, live), NEW tail \in BOOLEAN, Close(tail), Returning'
    PROVE  Done(open', live')
<1>1. PICK d, p :
              /\ open' \in Seq(ConstructType) /\ Ends(open', open, Len(open) - 1, p)
              /\ d = BranchDone(Top) /\ d \in ConstructType
              /\ Like(p, Parent)
              /\ p.assigned = Parent.assigned \cup AssignedAfter(d)
              /\ (p.returns <=> Parent.returns \/ DefinitelyReturns(d))
              /\ p.ended = tail
              /\ p.yields = IF tail THEN Parent.yields \cup Yielded(d) ELSE Parent.yields
              /\ live' = StoresAfter(d) \cup (IF tail THEN {} ELSE Yielded(d))
  BY CloseTop
<1>2. Len(open) > 1 /\ open # <<>>
  BY DEF Close
<1>3. /\ Len(open) \in Nat \ {0} /\ Len(open) - 1 \in DOMAIN open
      /\ DOMAIN open = 1..Len(open) /\ Parent = open[Len(open) - 1]
  BY <1>2, Innermost DEF Parent
<1>4. (d.allReturn => d.exits = {}) /\ (Empty(Top) /\ live = {} => Empty(d))
  BY <1>1, <1>2, DoneBranch, Zenon
<1>5. /\ \A i \in DOMAIN open : open[i].returns => live = {}
      /\ \A i \in 1..(Len(open) - 1) : open[i].returns => Empty(Top)
      /\ Parent.allReturn => Parent.exits = {}
      /\ Parent.returns => Empty(Top) /\ live = {}
      /\ \A i \in 1..(Len(open) - 2) : open[i].returns => Empty(Parent)
      /\ Len(open) = 2 => Parent.exits = {}
  BY <1>2, DoneTop, Zenon
<1>6. Empty(d) => live' = {} /\ Yielded(d) = {}
  BY <1>1 DEF Empty, StoresAfter, Yielded
<1>7. DefinitelyReturns(d) => live' = {}
  <2> SUFFICES ASSUME DefinitelyReturns(d) PROVE live' = {}
    OBVIOUS
  <2>1. /\ d.kind \in {"with", "whileUnwrap"} /\ live' # {} => d.kind \in excuses'
        /\ ~tail /\ Yielded(d) # {} => "value" \in excuses'
    BY <1>1 DEF Close, Yielded
  <2>2. d.kind \in {"with", "whileUnwrap"} => live' = {}
    BY <2>1 DEF Returning
  <2>3. tail \/ Yielded(d) = {}
    BY <2>1 DEF Returning
  <2>4. d.kind = "match" => Total(d.type, d.arms)
    <3> DEFINE checked == /\ d.type \in Checked
                          /\ \A i \in DOMAIN open : open[i].kind \notin {"detached", "whileUnwrap"}
    <3> SUFFICES ASSUME d.kind = "match" PROVE Total(d.type, d.arms)
      OBVIOUS
    <3>1. /\ checked /\ Missing(d.type, d.arms) # {} => "match" \in diags'
          /\ ~checked => "match" \in excuses'
      BY <1>1 DEF Close
    <3>2. checked /\ Missing(d.type, d.arms) = {}
      BY <3>1 DEF Returning
    <3> QED
      BY <3>2, MissingTotal
  <2>5. d.kind \in {"with", "whileUnwrap"} => StoresAfter(d) = {}
    BY <1>1, <2>2
  <2>6. StoresAfter(d) = {}
    BY <1>1, <1>4, <2>4, <2>5, ReturnsLeavesNone
  <2> QED
    BY <1>1, <2>3, <2>6
<1>8. p.returns => live' = {}
  BY <1>1, <1>4, <1>5, <1>6, <1>7
<1> DEFINE n == Len(open) - 1
<1>9. \A i \in 1..(n - 1) : open[i].returns => live' = {} /\ Empty(p)
  <2> TAKE i \in 1..(n - 1)
  <2>1. i \in DOMAIN open /\ i \in 1..(Len(open) - 1) /\ i \in 1..(Len(open) - 2)
    BY <1>3
  <2>2. open[i].returns => live = {} /\ Empty(Top) /\ Empty(Parent)
    BY <1>5, <2>1, Zenon
  <2>3. Empty(Parent) /\ Yielded(d) = {} => Empty(p)
    BY <1>1 DEF Like, Empty
  <2> QED
    BY <1>4, <1>6, <2>2, <2>3, Zenon
<1>10. (p.allReturn => p.exits = {}) /\ (n = 1 => p.exits = {})
  <2>1. Len(open) \in Nat \ {0}
    BY <1>3, Zenon
  <2>2. n = 1 => Len(open) = 2
    BY <2>1
  <2> HIDE DEF n
  <2> QED
    BY <1>1, <1>5, <2>2 DEF Like
<1>11. Ends(open', open, n, p) /\ open' \in Seq(ConstructType) /\ open \in Seq(ConstructType)
  BY <1>1 DEF TypeInv
<1> HIDE DEF n
<1> QED
  BY <1>8, <1>9, <1>10, <1>11, DoneEnds, Zenon

\* A function accepted by the pass has no execution at its end without a value.
LEMMA DoneEnd ==
    ASSUME TypeInv, Done(open, live), End, Returning'
    PROVE  Done(open', live') /\ live' = {}
<1>1. /\ open # <<>> /\ Len(open) = 1 /\ open' = <<>> /\ live' = BranchDone(Top).exits
      /\ Top.branches = 1 /\ ~Top.returns => "return" \in diags'
      /\ Top.branches = 2 /\ live # {} => "handle" \in excuses'
  BY DEF End
<1>2. Top \in ConstructType /\ Top = open[1] /\ live \in SUBSET Stores
  BY <1>1, Innermost DEF TypeInv
<1>3. Top.branches \in {1, 2}
  BY <1>1, <1>2 DEF TypeInv, Outermost
<1>4. (Top.returns => live = {}) /\ Top.exits = {}
  BY <1>1, DoneTop, Zenon
<1>5. live = {}
  BY <1>1, <1>3, <1>4 DEF Returning
<1>6. BranchDone(Top).exits = Top.exits \cup live
  BY <1>2, <1>3, DoneFields
<1>7. live' = {}
  BY <1>1, <1>4, <1>5, <1>6
<1> QED
  BY <1>1, <1>7 DEF Done

\* Every step keeps the invariant of return paths.
LEMMA ReturnsStep == ASSUME TypeInv, ReturnsInv, [Next]_vars PROVE ReturnsInv'
<1> SUFFICES ASSUME Returning' PROVE Done(open', live') /\ (open' = <<>> => live' = {})
  BY DEF ReturnsInv
<1>1. Done(open, live) /\ (open = <<>> => live = {})
  BY Stay DEF Returning, ReturnsInv
<1> DEFINE Kept == Done(open', live') /\ (open' # <<>> \/ live' = {})
<1>2. ASSUME NEW v \in Names, NEW flag \in BOOLEAN, Let(v, flag) \/ Assign(v)
      PROVE  Kept
  <2>1. open' # <<>>
    <3>1. CASE Let(v, flag)
      BY <3>1, LetTop DEF Ends
    <3>2. CASE Assign(v)
      BY <3>2, AssignTop DEF Ends
    <3> QED
      BY <1>2, <3>1, <3>2
  <2> QED
    BY <1>1, <1>2, <2>1, DoneLetAssign
<1>3. ASSUME NEW v \in Names, NEW flag \in BOOLEAN, Use(v, flag) PROVE Kept
  BY <1>1, <1>3 DEF Use
<1>4. ASSUME NEW flag \in BOOLEAN, Return \/ Value(flag) \/ Jump PROVE Kept
  <2>1. CASE Return
    BY <1>1, <2>1, DoneReturn DEF Return
  <2>2. CASE Value(flag)
    <3>1. open' # <<>>
      <4>1. PICK c : /\ open' \in Seq(ConstructType) /\ Ends(open', open, Len(open), c)
        BY <2>2, ValueTop
      <4> QED
        BY <4>1 DEF Ends
    <3> QED
      BY <1>1, <2>2, <3>1, DoneValue
  <2>3. CASE Jump
    BY <1>1, <2>3, DoneJump DEF Jump
  <2> QED
    BY <1>4, <2>1, <2>2, <2>3
<1>5. ASSUME NEW tail \in BOOLEAN, Close(tail) PROVE Kept
  <2>1. open' # <<>>
    <3>1. PICK d, p : /\ open' \in Seq(ConstructType) /\ Ends(open', open, Len(open) - 1, p)
      BY <1>5, CloseTop
    <3> QED
      BY <3>1 DEF Ends
  <2> QED
    BY <1>1, <1>5, <2>1, DoneClose
<1>6. ASSUME End PROVE Kept
  BY <1>1, <1>6, DoneEnd
<1>7. ASSUME NEW b \in Bindings, NEW kind \in Kinds, NEW type \in MatchTypes \cup {"none"},
             Enter(kind, type, b)
      PROVE  Kept
  <2>1. b \in SUBSET Names
    BY BindingNames
  <2>2. open' # <<>>
    <3>1. PICK c : /\ open' \in Seq(ConstructType) /\ Ends(open', open, Len(open) + 1, c)
      BY <1>7, <2>1, EnterTop
    <3> QED
      BY <3>1 DEF Ends
  <2> QED
    BY <1>1, <1>7, <2>1, <2>2, DoneEnter
<1>8. ASSUME NEW b \in Bindings, NEW pat \in SUBSET Patterns, NextBranch(pat, b)
      PROVE  Kept
  <2>1. b \in SUBSET Names
    BY BindingNames
  <2>2. open' # <<>>
    <3>1. PICK c : /\ open' \in Seq(ConstructType) /\ Ends(open', open, Len(open), c)
      BY <1>8, <2>1, NextBranchTop
    <3> QED
      BY <3>1 DEF Ends
  <2> QED
    BY <1>1, <1>8, <2>1, <2>2, DoneNextBranch
<1> HIDE DEF Kept
<1>9. CASE Next
  <2>1. /\ \A kind \in Kinds \ {"match"} : kind \in Kinds /\ "none" \in MatchTypes \cup {"none"}
        /\ \A type \in MatchTypes : "match" \in Kinds /\ type \in MatchTypes \cup {"none"}
        /\ {} \in SUBSET Patterns /\ \A pat \in Patterns : {pat} \in SUBSET Patterns
        /\ TRUE \in BOOLEAN
    BY DEF Kinds
  <2>2. Kept
    BY <1>2, <1>3, <1>4, <1>5, <1>6, <1>7, <1>8, <1>9, <2>1, Zenon DEF Next
  <2> QED
    BY <2>2 DEF Kept
<1>10. CASE UNCHANGED vars
  BY <1>1, <1>10 DEF vars
<1> QED
  BY <1>9, <1>10

(* PathsReturn: no execution falls out of the end of a function that the   *)
(* passes accept, but for the forms that are excused.                      *)
THEOREM EndsReturned == Spec => []PathsReturn
<1>1. Init => ReturnsInv
  <2> SUFFICES ASSUME Init PROVE Done(open, live) /\ open # <<>>
    BY DEF ReturnsInv
  <2> DEFINE c == Construct("fun", "none", Params, {Params})
             X == ConstructType
  <2>1. open = <<c>>
    BY DEF Init
  <2>2. ~c.returns /\ c.exits = {}
    BY DEF Construct
  <2> HIDE DEF c
  <2>3. Len(open) = 1 /\ open[1] = c /\ DOMAIN open = {1} /\ open # <<>>
    BY <2>1
  <2>4. \A i, j \in {1} : ~(i < j)
    OBVIOUS
  <2> QED
    BY <2>1, <2>2, <2>3, <2>4, Zenon DEF Done
<1>2. TypeInv /\ ReturnsInv /\ [Next]_vars => ReturnsInv'
  BY ReturnsStep
<1>3. ReturnsInv /\ TypeInv => PathsReturn
  BY DEF ReturnsInv, PathsReturn, Returning, TypeInv, Excuses, Diags
<1> QED
  BY <1>1, <1>2, <1>3, FlowInvariance, PTL DEF Spec

=============================================================================
