---------------------------- MODULE ImportOrder -----------------------------
(***************************************************************************)
(* What loading a package graph promises.  A source is read and then has   *)
(* imports; it is listed once all of them are listed, the root source at   *)
(* the very end, and loading may stop with a report of a cycle only when   *)
(* the sources read so far import each other in a circle.                  *)
(***************************************************************************)
VARIABLES
    imports,    \* for each source that was read, the sources it imports
    listed,     \* the sources listed so far
    result      \* "loading", "loaded", or how loading stopped

avars == <<imports, listed, result>>

\* Some of the sources read all import one of their number: there is a cycle.
Circular(g) == \E c \in SUBSET DOMAIN g : c # {} /\ \A s \in c : g[s] \cap c # {}

AInit ==
    /\ \E root \in DOMAIN imports : DOMAIN imports = {root}
    /\ listed = {}
    /\ result \in {"loading", "error"}

\* A source somebody imports is read.
ReadSource(s) ==
    /\ result = "loading"
    /\ s \notin DOMAIN imports
    /\ \E t \in DOMAIN imports : s \in imports[t]
    /\ DOMAIN imports' = DOMAIN imports \cup {s}
    /\ \A t \in DOMAIN imports : imports'[t] = imports[t]

\* A source without imports may be listed as it is read, one that has an error
\* stops the loading.
Read(s) ==
    /\ ReadSource(s)
    /\ \/ UNCHANGED <<listed, result>>
       \/ imports'[s] = {} /\ listed' = listed \cup {s} /\ UNCHANGED result
       \/ listed' = {} /\ result' = "error"

List(s) ==
    /\ result = "loading"
    /\ s \in DOMAIN imports \ listed
    /\ imports[s] \subseteq listed
    /\ listed' = listed \cup {s}
    /\ result' = "loading" \/ (result' = "loaded" /\ listed' = DOMAIN imports)
    /\ UNCHANGED imports

\* The list is given up.
Stop ==
    /\ result = "loading"
    /\ result' = "error" \/ (result' = "cycle" /\ Circular(imports))
    /\ listed' = {}
    /\ UNCHANGED imports

ANext ==
    \/ \E s \in DOMAIN imports' \ DOMAIN imports : Read(s)
    \/ \E s \in listed' \ listed : List(s)
    \/ Stop

ASpec == AInit /\ [][ANext]_avars
=============================================================================
