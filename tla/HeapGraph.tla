----------------------------- MODULE HeapGraph -----------------------------
(***************************************************************************)
(* Reachability in a heap, as a definition that needs no recursion: the    *)
(* objects that every closed superset of the roots contains.  kids[a] is   *)
(* the set of objects the words of a point to.                             *)
(***************************************************************************)
Closed(S, roots, kids) == roots \subseteq S /\ \A a \in S : kids[a] \subseteq S

Reachable(nodes, roots, kids) ==
    {a \in nodes : \A S \in SUBSET nodes : Closed(S, roots, kids) => a \in S}
=============================================================================
