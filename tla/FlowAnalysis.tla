---------------------------- MODULE FlowAnalysis -----------------------------
(***************************************************************************)
(* Three of the four passes of src/analysis.py (exhaustive matches,        *)
(* definite assignment, return paths) over the body of one function, and   *)
(* beside them what the executions of that body do.                        *)
(*                                                                         *)
(* The body is chosen as it is walked: a step is the next statement, the   *)
(* opening of a construct, its next branch or its end.  The passes keep,   *)
(* for each open construct, the sets and Booleans their recursive calls    *)
(* hold; the reference keeps live, the set of stores with which an         *)
(* execution may be at this place (a store is the set of names that have a *)
(* value).  So every program of at most MaxNodes statements nested at most *)
(* MaxDepth deep is covered.  A name is declared once: the passes do not   *)
(* tell a shadowing declaration from the one it shadows.                   *)
(***************************************************************************)
EXTENDS Integers, Sequences, SequencesExt, FiniteSetsExt

CONSTANTS
    Names,                  \* of parameters and local variables
    Params,                 \* those that are parameters
    Variants,               \* of the union or error set that a match examines
    MaxNodes, MaxDepth      \* bounds of the program

ASSUME NamesAssumption == Params \subseteq Names
ASSUME BoundsAssumption == MaxNodes \in Nat /\ MaxDepth \in Nat

VARIABLES
    open,       \* the constructs around this place, the function first
    live,       \* the stores with which an execution may be here
    used,       \* some execution has used a name without a value
    diags,      \* the passes' errors: unassigned, match, return
    excuses,    \* what the program does that the passes do not examine
    declared,   \* the names declared so far
    nodes       \* the size of the program

vars == <<open, live, used, diags, excuses, declared, nodes>>

-----------------------------------------------------------------------------
(* Constructs.                                                             *)

\* An if is one with a condition or one that unwraps (and binds) an optional; a
\* loop a while or a for; what is detached, a defer or a closure, runs later.
Loops == {"loop", "whileUnwrap"}
Kinds == {"if", "match", "block", "with", "loop", "whileUnwrap", "detached"}
ValueKinds == Kinds \ {"loop", "detached"}  \* the expressions
Checked == {"union", "errors", "bool", "int"}
MatchTypes == Checked \cup {"errorUnion", "other"}
Patterns == [p : {"variant"}, of : Variants] \cup [p : {"ident"}, of : Variants \cup {"other"}]
            \cup [p : {"bool"}, of : BOOLEAN] \cup [p : {"wild", "int"}, of : {"_"}]

\* An open construct: the branch being walked (assigned, returns and ended), the
\* branches before it (outs is what all of them assign, allReturn that all of
\* them return) and, for the reference, the stores on entry, those that leave
\* at the end of a branch, those that carry its value and those that jump out.
Construct(kind, type, assigned, stores) ==
    [kind |-> kind, type |-> type, branches |-> 1, arms |-> {}, decls |-> {},
     assigned |-> assigned, returns |-> FALSE, ended |-> FALSE,
     outs |-> Names, allReturn |-> TRUE,
     entry |-> stores, exits |-> {}, yields |-> {}, broke |-> {}]

Top == Last(open)
Parent == open[Len(open) - 1]
InScope == Params \cup UNION {open[i].decls : i \in DOMAIN open}
Fresh == Names \ declared

\* Mutant: a statement may follow the value of its block.
WalkingPastTail == open # <<>> /\ Top.branches > 0 /\ nodes < MaxNodes

Walking == open # <<>> /\ Top.branches > 0 /\ ~Top.ended /\ nodes < MaxNodes

With(stores, b) == {s \cup b : s \in stores}

-----------------------------------------------------------------------------
(* Exhaustiveness, and what the code generated for a match does.           *)

\* Mutant: the names of bare identifiers count as a wildcard does.
MissingLax(type, arms) ==
    IF \E a \in arms : a.p \in {"wild", "ident"} THEN {}
    ELSE CASE type \in {"union", "errors"} -> Variants \ {a.of : a \in arms}
           [] type = "bool" -> BOOLEAN \ {a.of : a \in arms}
           [] type = "int" -> {"integers"}
           [] OTHER -> {}

\* What ExhaustivenessChecker finds missing.
Missing(type, arms) ==
    LET named(ps) == {a.of : a \in {b \in arms : b.p \in ps}} IN
    IF named({"wild"}) # {} THEN {}
    ELSE CASE type \in {"union", "errors"} -> Variants \ named({"variant", "ident"})
           [] type = "bool" -> BOOLEAN \ named({"bool"})
           [] type = "int" -> IF named({"ident"}) # {} THEN {} ELSE {"integers"}
           [] OTHER -> {}

\* The emitted switch or chain of conditions has a case for every value.
Total(type, arms) ==
    LET some(Is(_)) == \E a \in arms : Is(a)
        catchAll(a) == a.p = "wild" \/ (a.p = "ident" /\ a.of \notin Variants)
    IN CASE type = "union" ->
              \A v \in Variants : some(LAMBDA a :
                  (a.p \in {"variant", "ident"} /\ a.of = v) \/ catchAll(a))
         [] type \in {"errors", "errorUnion"} ->
              \/ some(LAMBDA a : a.p # "variant")
              \/ \A v \in Variants : some(LAMBDA a : a.of = v)
         [] type \in {"bool", "int"} ->
              \/ some(LAMBDA a : a.p \notin {"bool", "int"})
              \/ type = "bool" /\ \A v \in BOOLEAN : some(LAMBDA a : a.p = "bool" /\ a.of = v)
         [] OTHER -> some(LAMBDA a : a.p \in {"wild", "ident"})

\* The patterns the checker lets stand in a match on a type.
PatternsOf(type) ==
    {a \in Patterns :
        \/ a.p \in {"wild", "ident"}
        \/ a.p = "variant" /\ type \in {"union", "errors", "errorUnion"}
        \/ a.p = "bool" /\ type = "bool"
        \/ a.p = "int" /\ type \in {"int", "other"}}

-----------------------------------------------------------------------------
(* The function.                                                           *)

Init ==
    /\ open = <<Construct("fun", "none", Params, {Params})>>
    /\ live = {Params}
    /\ used = FALSE
    /\ diags = {} /\ excuses = {}
    /\ declared = Params
    /\ nodes = 0

SetTop(fields) == open' = [open EXCEPT ![Len(open)] = fields]
Statement == Walking /\ nodes' = nodes + 1

\* A let; without an initializer the name is declared and has no value yet.
Let(v, init) ==
    /\ Statement
    /\ v \in Fresh
    /\ declared' = declared \cup {v}
    /\ SetTop([Top EXCEPT !.decls = @ \cup {v}, !.assigned = IF init THEN @ \cup {v} ELSE @])
    /\ live' = IF init THEN With(live, {v}) ELSE live
    /\ UNCHANGED <<used, diags, excuses>>

Assign(v) ==
    /\ Statement
    /\ v \in InScope
    /\ SetTop([Top EXCEPT !.assigned = @ \cup {v}])
    /\ live' = With(live, {v})
    /\ UNCHANGED <<used, diags, excuses, declared>>

\* Mutant: a name that is in scope need not be assigned.
UnassignedInScope(v) == v \notin Top.assigned /\ v \notin InScope

Unassigned(v) == v \notin Top.assigned

\* The value of v is used, in an expression DefiniteAssignment goes into or in
\* one it does not (try, catch, orelse, an interpolation, a cast, the body of a
\* while that unwraps).
Use(v, visited) ==
    /\ Statement
    /\ v \in InScope
    /\ LET seen == visited /\ \A i \in DOMAIN open : open[i].kind # "whileUnwrap" IN
       /\ diags' = IF seen /\ Unassigned(v) THEN diags \cup {"unassigned"} ELSE diags
       /\ excuses' = IF seen THEN excuses ELSE excuses \cup {"unvisited"}
    /\ used' = (used \/ \E s \in live : v \notin s)
    /\ UNCHANGED <<open, live, declared>>

Return ==
    /\ Statement
    /\ SetTop([Top EXCEPT !.returns = TRUE])
    /\ live' = {}
    /\ UNCHANGED <<used, diags, excuses, declared>>

\* Any expression that is not control flow: as the last of a block it is the
\* block's value, before that a statement.
Value(tail) ==
    /\ Statement
    /\ SetTop([Top EXCEPT !.returns = TRUE, !.ended = tail,
                          !.yields = IF tail THEN @ \cup live ELSE @])
    /\ live' = IF tail THEN {} ELSE live
    /\ excuses' = IF tail \/ live = {} THEN excuses ELSE excuses \cup {"value"}
    /\ UNCHANGED <<used, diags, declared>>

\* break and continue; the next iteration starts with no fewer values than the
\* first, so the stores on entry stand for it.
Jump ==
    /\ Statement
    /\ \E i \in DOMAIN open :
        /\ open[i].kind \in Loops
        /\ \A j \in i + 1..Len(open) : open[j].kind \notin Loops \cup {"detached"}
        /\ open' = [open EXCEPT ![i].broke = @ \cup live]
    /\ live' = {}
    /\ UNCHANGED <<used, diags, excuses, declared>>

-----------------------------------------------------------------------------
(* Constructs with blocks.                                                 *)

\* The names a construct binds in a branch: the payload of an optional, a loop
\* variable, the error of a handle, what a pattern names.
Bindings == {{}} \cup {{v} : v \in Fresh}

\* The branch before the first arm of a match does not exist.
Enter(kind, type, b) ==
    /\ Statement
    /\ Len(open) <= MaxDepth
    /\ b # {} => kind \in {"if", "loop", "whileUnwrap"}
    /\ LET c == Construct(kind, type, Top.assigned \cup b, live) IN
       open' = Append(open,
                      IF kind = "match" THEN [c EXCEPT !.branches = 0]
                      ELSE [c EXCEPT !.decls = b])
    /\ live' = With(live, b)
    /\ declared' = declared \cup b
    /\ UNCHANGED <<used, diags, excuses>>

\* The construct with the branch being walked among those that are over.
BranchDone(c) ==
    IF c.branches = 0 THEN c
    ELSE [c EXCEPT !.outs = @ \cap c.assigned,
                   !.allReturn = @ /\ c.returns,
                   !.exits = @ \cup live]

\* An else, the handle of a with or of the function, or an arm of a match with a
\* pattern no arm has yet: it starts from what held on entry.
NextBranch(pat, b) ==
    /\ open # <<>> /\ nodes < MaxNodes
    /\ \/ Top.kind \in {"if", "with", "fun"} /\ Top.branches = 1 /\ pat = {}
       \/ Top.kind = "match" /\ pat # {} /\ pat \subseteq PatternsOf(Top.type) \ Top.arms
    /\ Top.kind = "if" => b = {}
    /\ LET c == BranchDone(Top)
           before == IF Top.kind = "fun" THEN Params ELSE Parent.assigned
       IN SetTop([c EXCEPT !.branches = @ + 1, !.arms = @ \cup pat, !.decls = b,
                           !.assigned = before \cup b, !.returns = FALSE, !.ended = FALSE])
    /\ live' = With(Top.entry, b)
    /\ declared' = declared \cup b
    /\ nodes' = nodes + 1
    \* the return path checker looks at the body of the function only
    /\ diags' = IF Top.kind = "fun" /\ ~Top.returns THEN diags \cup {"return"} ELSE diags
    /\ UNCHANGED <<used, excuses>>

\* Mutant: an if without an else returns when its only branch does.
DefinitelyReturnsNoElse(c) ==
    CASE c.kind = "if" -> c.allReturn
      [] c.kind = "match" -> c.branches > 0 /\ c.allReturn
      [] c.kind = "block" -> c.allReturn
      [] c.kind \in {"with", "whileUnwrap"} -> TRUE
      [] OTHER -> FALSE

\* ReturnPathChecker's answer for a construct whose branches are over.
DefinitelyReturns(c) ==
    CASE c.kind = "if" -> c.branches = 2 /\ c.allReturn
      [] c.kind = "match" -> c.branches > 0 /\ c.allReturn
      [] c.kind = "block" -> c.allReturn
      [] c.kind \in {"with", "whileUnwrap"} -> TRUE
      [] OTHER -> FALSE

\* What DefiniteAssignment takes to be assigned after it, beside what was before.
AssignedAfter(c) ==
    CASE c.kind = "if" -> IF c.branches = 2 THEN c.outs ELSE {}
      [] c.kind = "match" -> IF c.branches > 0 THEN c.outs ELSE {}
      [] OTHER -> {}

\* The stores after it that carry no value.
StoresAfter(c) ==
    CASE c.kind = "if" -> c.exits \cup (IF c.branches = 2 THEN {} ELSE c.entry)
      [] c.kind = "match" -> c.exits \cup (IF Total(c.type, c.arms) THEN {} ELSE c.entry)
      [] c.kind \in Loops -> c.entry \cup c.exits \cup c.yields \cup c.broke
      [] c.kind = "detached" -> c.entry
      [] OTHER -> c.exits

\* The end of a construct, as a statement or as the last expression of its block.
Close(tail) ==
    /\ Len(open) > 1
    /\ tail => Top.kind \in ValueKinds
    /\ LET c == BranchDone(Top)
           carried == IF c.kind \in Loops \cup {"detached"} THEN {} ELSE c.yields
           after == StoresAfter(c) \cup (IF tail THEN {} ELSE carried)
           \* ExhaustivenessChecker goes into neither
           checked == /\ c.type \in Checked
                      /\ \A i \in DOMAIN open : open[i].kind \notin {"detached", "whileUnwrap"}
           p == [Parent EXCEPT !.assigned = @ \cup AssignedAfter(c),
                               !.returns = @ \/ DefinitelyReturns(c),
                               !.ended = tail,
                               !.yields = IF tail THEN @ \cup carried ELSE @]
       IN
       /\ open' = Append(SubSeq(open, 1, Len(open) - 2), p)
       /\ live' = after
       /\ diags' = IF c.kind = "match" /\ checked /\ Missing(c.type, c.arms) # {}
                   THEN diags \cup {"match"} ELSE diags
       /\ excuses' = excuses
            \cup (IF c.kind \in {"with", "whileUnwrap"} /\ after # {} THEN {c.kind} ELSE {})
            \cup (IF ~tail /\ DefinitelyReturns(c) /\ carried # {} THEN {"value"} ELSE {})
            \cup (IF c.kind = "match" /\ ~checked THEN {"match"} ELSE {})
    /\ UNCHANGED <<used, declared, nodes>>

\* The end of the function; live becomes the stores with which it is fallen out of.
End ==
    /\ Len(open) = 1
    /\ open' = <<>>
    /\ live' = BranchDone(Top).exits
    /\ diags' = IF Top.branches = 1 /\ ~Top.returns THEN diags \cup {"return"} ELSE diags
    /\ excuses' = IF Top.branches = 2 /\ live # {} THEN excuses \cup {"handle"} ELSE excuses
    /\ UNCHANGED <<used, declared, nodes>>

Next ==
    \/ \E v \in Names :
        \/ \E init \in BOOLEAN : Let(v, init)
        \/ Assign(v)
        \/ \E visited \in BOOLEAN : Use(v, visited)
    \/ Return \/ Jump
    \/ \E tail \in BOOLEAN : Value(tail) \/ Close(tail)
    \/ \E b \in Bindings :
        \/ \E kind \in Kinds \ {"match"} : Enter(kind, "none", b)
        \/ \E type \in MatchTypes : Enter("match", type, b)
        \/ NextBranch({}, b)
        \/ \E pat \in Patterns : NextBranch({pat}, b)
    \/ End

Spec == Init /\ [][Next]_vars

-----------------------------------------------------------------------------
Stores == SUBSET Names

\* The passes' sets are of names, the reference's of stores, an error or an excuse
\* is one of those named above, and a block whose value has been given has nothing
\* more in it.
TypeOK ==
    /\ \A i \in DOMAIN open : open[i].ended => i = Len(open)
    /\ \A i \in DOMAIN open :
        /\ open[i].kind \in Kinds \cup {"fun"}
        /\ UNION {open[i].assigned, open[i].outs, open[i].decls} \subseteq Names
        /\ UNION {open[i].entry, open[i].exits, open[i].yields, open[i].broke} \subseteq Stores
    /\ live \subseteq Stores
    /\ used \in BOOLEAN
    /\ diags \subseteq {"unassigned", "match", "return"}
    /\ excuses \subseteq {"unvisited", "value", "with", "whileUnwrap", "match", "handle"}
    /\ declared \subseteq Names

\* "Verify every variable is definitely assigned before use": in a program the
\* passes accept, no execution uses a name before it has a value, whatever the
\* branches, loops and jumps it takes, unless the use is in an expression the pass
\* does not go into or depends on a match whose arms no pass checks.
AssignedBeforeUse ==
    used => diags \cap {"unassigned", "match"} # {} \/ excuses \cap {"unvisited", "match"} # {}

\* "Verify every code path in a non-void function returns a value": no execution of
\* an accepted function falls out of its end, unless the program has one of the
\* forms the pass takes for a return (an expression statement, a with, a while that
\* unwraps), an unchecked match, or a handle block that does not return.
PathsReturn ==
    open = <<>> /\ live # {}
        => diags \cap {"return", "match"} # {} \/ excuses \ {"unvisited"} # {}

\* A match on a type whose arms are checked, and for which nothing is found missing,
\* has a case for every value in the code generated for it.
AcceptedMatchTotal ==
    \A i \in DOMAIN open :
        open[i].type \in Checked /\ Missing(open[i].type, open[i].arms) = {}
            => Total(open[i].type, open[i].arms)

\* The same as the pass's comment says it, without the exceptions; refuted.
EveryPathReturns == open = <<>> /\ live # {} => diags # {}

=============================================================================
