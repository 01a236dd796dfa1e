------------------------- MODULE PackageLoaderProofs -------------------------
(***************************************************************************)
(* The loader lists packages as ImportOrder says, whatever files there are *)
(* and whatever they import: each after those it imports, and a cycle is   *)
(* reported only when there is one.  The invariant says how the calls of   *)
(* visit hang together: each was made by an import of the one before it,   *)
(* and all imports before that are done with.  A second one (ListInv) says *)
(* that the list has each file done with once, after those it imports, so  *)
(* that no import is bound to another file's declarations.                 *)
(***************************************************************************)
EXTENDS PackageLoader, DataFacts

Frame(S) == [file : S, next : Nat \ {0}]

\* The k-th import of what an opened file says is one to follow.
Follows(c, root, k) == k \in DOMAIN c.imports /\ ~Skipped(c.imports[k].path, c.pkg, root)

Types ==
    /\ files \in Existing
    /\ RootFile \in DOMAIN opened /\ DOMAIN opened \subseteq files \cup {RootFile}
    /\ \A f \in DOMAIN opened : \E n \in Nat : DOMAIN opened[f].imports = 1..n
    /\ stack \in Seq(Frame(files \cup {RootFile})) /\ Len(stack) > 0
    /\ done \in BOOLEAN

\* The files on the stack are those being visited, each once, the root first.
Visits ==
    /\ stack[1].file = RootFile
    /\ \A i, j \in 1..Len(stack) : stack[i].file = stack[j].file => i = j
    /\ \A i \in 1..Len(stack) : i > 1 => stack[i].file \in visiting
    /\ \A f \in visiting : \E i \in 1..Len(stack) : i > 1 /\ stack[i].file = f

\* A file that was opened is the root, or being visited, or done with.
Opened ==
    /\ DOMAIN opened = loaded \cup visiting \cup {RootFile}
    /\ loaded \cap visiting = {} /\ RootFile \notin loaded

\* A file done with imports only files done with.
Closed == \A f \in loaded : LeadsTo(opened[f], RootPkg) \subseteq loaded

\* Each file on the stack is done with its imports before the next one.
Passed(i) ==
    \A k \in 1..(stack[i].next - 1) :
        Follows(opened[stack[i].file], RootPkg, k) => opened[stack[i].file].imports[k].file \in loaded

\* A call of visit was made by the import its caller is at.
Called(i) ==
    /\ Follows(opened[stack[i].file], RootPkg, stack[i].next)
    /\ opened[stack[i].file].imports[stack[i].next].file = stack[i + 1].file

Walk ==
    /\ Visits /\ Opened /\ Closed
    /\ \A i \in 1..Len(stack) : Passed(i)
    /\ \A i \in 1..(Len(stack) - 1) : Called(i)

Inv == Types /\ (err = "none" => Walk)

-----------------------------------------------------------------------------
(* What the calls on the stack are after one of them goes on to its next   *)
(* import, after a call and after a return.                                *)
LEMMA Advanced ==
    ASSUME NEW S, NEW s \in Seq(Frame(S)), Len(s) > 0,
           NEW t, t = [s EXCEPT ![Len(s)].next = @ + 1]
    PROVE  /\ t \in Seq(Frame(S)) /\ Len(t) = Len(s)
           /\ \A i \in 1..Len(s) :
                 /\ t[i].file = s[i].file
                 /\ t[i].next = IF i = Len(s) THEN s[i].next + 1 ELSE s[i].next
<1>1. s[Len(s)] \in Frame(S) /\ Len(s) \in 1..Len(s)
  OBVIOUS
<1>2. t = [s EXCEPT ![Len(s)] = [s[Len(s)] EXCEPT !.next = @ + 1]]
  OBVIOUS
<1> DEFINE e == [s[Len(s)] EXCEPT !.next = @ + 1]
<1>3. e \in Frame(S) /\ e.file = s[Len(s)].file /\ e.next = s[Len(s)].next + 1
  BY <1>1 DEF Frame
<1> HIDE DEF e
<1>4. t = [s EXCEPT ![Len(s)] = e]
  BY <1>2 DEF e
<1> QED
  BY <1>1, <1>3, <1>4

(* A call is put on the stack.                                             *)
LEMMA Pushed ==
    ASSUME NEW S, NEW s \in Seq(Frame(S)), NEW f \in S,
           NEW t, t = Append(s, [file |-> f, next |-> 1])
    PROVE  /\ t \in Seq(Frame(S)) /\ Len(t) = Len(s) + 1
           /\ \A i \in 1..Len(s) : t[i] = s[i]
           /\ t[Len(t)].file = f /\ t[Len(t)].next = 1
<1>1. [file |-> f, next |-> 1] \in Frame(S)
  BY DEF Frame
<1> QED
  BY <1>1

(* A call is taken from the stack.                                         *)
LEMMA Popped ==
    ASSUME NEW S, NEW s \in Seq(Frame(S)), Len(s) > 1
    PROVE  /\ Front(s) \in Seq(Frame(S)) /\ Len(Front(s)) = Len(s) - 1
           /\ \A i \in 1..(Len(s) - 1) : Front(s)[i] = s[i]
  BY DEF Front

(* A file imports what an import to follow leads to.                       *)
LEMMA LeadsToFollowed ==
    ASSUME NEW c, NEW root, NEW f
    PROVE  f \in LeadsTo(c, root) <=>
               f # NoFile /\ \E k \in DOMAIN c.imports : Follows(c, root, k) /\ c.imports[k].file = f
  BY DEF LeadsTo, Follows

(* What an opened file says does not change, nor do the files or the root. *)
Kept ==
    /\ files' = files
    /\ DOMAIN opened \subseteq DOMAIN opened'
    /\ \A f \in DOMAIN opened : opened'[f] = opened[f]
    /\ RootPkg' = RootPkg

(* No step changes them.                                                   *)
LEMMA KeptStep == Inv /\ [Next]_vars => Kept
<1> SUFFICES ASSUME Inv, [Next]_vars PROVE Kept
  OBVIOUS
<1>1. RootFile \in DOMAIN opened
  BY DEF Inv, Types
<1>2. ASSUME NEW f \in files, OpenNew(f) PROVE Kept
  <2>1. RootFile # f
    BY FilesAssumption DEF Inv, Types
  <2>2. PICK c \in Contents(f), list \in ImportLists : Open(f, c, list)
    BY <1>2 DEF OpenNew
  <2>3. /\ files' = files /\ DOMAIN opened' = DOMAIN opened \cup {f}
        /\ \A g \in DOMAIN opened : g # f => opened'[g] = opened[g]
    BY <2>2 DEF Open
  <2>4. f \notin DOMAIN opened
    BY <1>2, <2>1 DEF OpenNew, Leads, AtImport, Walking, Cyclic, Already, Inv, Walk, Opened
  <2> QED
    BY <1>1, <2>1, <2>3, <2>4 DEF Kept, RootPkg
<1>3. CASE ~\E f \in files : OpenNew(f)
  BY <1>3 DEF Next, vars, Kept, RootPkg, Skip, NotFound, Return, Unwind, Combine, Cycle, AlreadyLoaded
<1> QED
  BY <1>2, <1>3

(* The import at which the walk is, and the file it is an import of.       *)
LEMMA AtTop ==
    ASSUME Types, Walk
    PROVE  /\ Len(stack) \in 1..Len(stack) /\ Len(stack) \in Nat
           /\ Top.file \in DOMAIN opened /\ Top.file \in files \cup {RootFile}
           /\ Top.next \in Nat \ {0}
<1>1. stack \in Seq(Frame(files \cup {RootFile})) /\ Len(stack) \in 1..Len(stack) /\ Len(stack) \in Nat
  BY DEF Types
<1>2. Top \in Frame(files \cup {RootFile})
  BY <1>1 DEF Top
<1>3. Top.file \in DOMAIN opened
  BY <1>1 DEF Top, Walk, Visits, Opened
<1> QED
  BY <1>1, <1>2, <1>3 DEF Frame

(* The walk begins with the call for the root.                             *)
LEMMA InitInv == Init => Inv
<1> SUFFICES ASSUME Init PROVE Inv
  OBVIOUS
<1>1. PICK d \in RootDeclares, list \in ImportLists :
          opened = [f \in {RootFile} |-> [parses |-> TRUE, pkg |-> RootName(d),
                                          imports |-> Resolved(f, RootName(d), list)]]
  BY DEF Init
<1>2. /\ DOMAIN opened = {RootFile}
      /\ DOMAIN opened[RootFile].imports = 1..Len(list) /\ Len(list) \in Nat
  <2>1. DOMAIN opened = {RootFile} /\ opened[RootFile].imports = Resolved(RootFile, RootName(d), list)
    BY <1>1
  <2> QED
    BY <2>1, ImportsAssumption DEF Resolved
<1>3. stack \in Seq(Frame(files \cup {RootFile})) /\ Len(stack) = 1
      /\ stack[1].file = RootFile /\ stack[1].next = 1
  BY DEF Init, Frame
<1>4. Types
  <2>1. files \in Existing /\ done \in BOOLEAN
    BY DEF Init
  <2> QED
    BY <1>2, <1>3, <2>1 DEF Types
<1>5. Walk
  BY <1>2, <1>3 DEF Init, Walk, Visits, Opened, Closed, Passed
<1> QED
  BY <1>4, <1>5 DEF Inv

(* The types are kept.                                                     *)
LEMMA TypesStep == Inv /\ [Next]_vars => Types'
<1> SUFFICES ASSUME Types, Kept, [Next]_vars PROVE Types'
  BY KeptStep DEF Inv
<1>1. Kept
  OBVIOUS
<1>2. stack \in Seq(Frame(files \cup {RootFile})) /\ Len(stack) > 0
  BY DEF Types
<1>3. ASSUME stack' = NextImport PROVE stack' \in Seq(Frame(files \cup {RootFile})) /\ Len(stack') > 0
  BY <1>2, <1>3, Advanced DEF NextImport
<1>4. ASSUME opened' = opened, done' \in BOOLEAN,
             stack' \in Seq(Frame(files \cup {RootFile})), Len(stack') > 0
      PROVE  Types'
  BY <1>1, <1>4 DEF Types, Kept
<1>5. done \in BOOLEAN
  BY DEF Types
<1>6. CASE Skip \/ \E f \in files : AlreadyLoaded(f)
  BY <1>3, <1>4, <1>5, <1>6 DEF Skip, AlreadyLoaded
<1>7. CASE NotFound \/ (\E f \in files : Cycle(f)) \/ Combine \/ UNCHANGED vars
  <2>1. opened' = opened /\ stack' = stack /\ done' \in BOOLEAN
    BY <1>5, <1>7 DEF NotFound, Cycle, Combine, vars
  <2> QED
    BY <1>2, <1>4, <2>1
<1>8. ASSUME NEW f \in files, OpenNew(f) PROVE Types'
  <2>1. PICK c \in Contents(f), list \in ImportLists : Open(f, c, list)
    BY <1>8 DEF OpenNew
  <2>2. /\ DOMAIN opened' = DOMAIN opened \cup {f} /\ done' = done
        /\ opened'[f].imports = Resolved(f, PkgOf(f, c, Import.path), list)
    BY <2>1 DEF Open
  <2>3. DOMAIN opened'[f].imports = 1..Len(list) /\ Len(list) \in Nat
    BY <2>2, ImportsAssumption DEF Resolved
  <2>4. \A g \in DOMAIN opened' : \E n \in Nat : DOMAIN opened'[g].imports = 1..n
    BY <1>1, <2>2, <2>3 DEF Types, Kept
  <2>5. stack' \in Seq(Frame(files \cup {RootFile})) /\ Len(stack') > 0
    <3>1. stack' = NextImport \/ stack' = stack \/ stack' = Append(stack, [file |-> f, next |-> 1])
      BY <2>1 DEF Open
    <3>2. CASE stack' = Append(stack, [file |-> f, next |-> 1])
      BY <1>2, <3>2, Pushed
    <3> QED
      BY <1>2, <1>3, <3>1, <3>2
  <2> QED
    BY <1>1, <1>5, <2>2, <2>4, <2>5 DEF Types, Kept
<1>9. CASE Return
  <2>1. /\ opened' = opened /\ done' = done /\ Len(stack) > 1
        /\ stack' = [Front(stack) EXCEPT ![Len(stack) - 1].next = @ + 1]
    BY <1>9 DEF Return
  <2>2. Front(stack) \in Seq(Frame(files \cup {RootFile})) /\ Len(Front(stack)) = Len(stack) - 1
    BY <1>2, <2>1, Popped
  <2>3. stack' \in Seq(Frame(files \cup {RootFile})) /\ Len(stack') > 0
    BY <1>2, <2>1, <2>2, Advanced
  <2> QED
    BY <1>4, <1>5, <2>1, <2>3
<1>10. CASE Unwind
  <2>1. opened' = opened /\ done' = done /\ Len(stack) > 1 /\ stack' = Front(stack)
    BY <1>10 DEF Unwind
  <2>2. stack' \in Seq(Frame(files \cup {RootFile})) /\ Len(stack') > 0
    BY <1>2, <2>1, Popped
  <2> QED
    BY <1>4, <1>5, <2>1, <2>2
<1> QED
  BY <1>6, <1>7, <1>8, <1>9, <1>10 DEF Next

-----------------------------------------------------------------------------
(* The walk goes on to its next import when the one it is at is not to be  *)
(* followed or leads to a file done with.                                  *)
LEMMA AdvanceStep ==
    ASSUME Inv, Kept, AtImport, stack' = NextImport, visiting' = visiting,
           loaded \subseteq loaded', Opened', Closed',
           Follows(opened[Top.file], RootPkg, Top.next) => Import.file \in loaded'
    PROVE  Walk'
<1>1. Types /\ Walk
  BY DEF Inv, AtImport, Walking
<1>2. stack \in Seq(Frame(files \cup {RootFile})) /\ Len(stack) > 0
  BY <1>1 DEF Types
<1>3. /\ Len(stack') = Len(stack)
      /\ \A i \in 1..Len(stack) : stack'[i].file = stack[i].file
      /\ \A i \in 1..Len(stack) :
            stack'[i].next = IF i = Len(stack) THEN stack[i].next + 1 ELSE stack[i].next
  BY <1>2, Advanced DEF NextImport
<1>4. Visits'
  BY <1>1, <1>2, <1>3 DEF Walk, Visits
<1>5. ASSUME NEW i \in 1..Len(stack)
      PROVE  /\ stack[i].file \in DOMAIN opened /\ opened'[stack'[i].file] = opened[stack[i].file]
             /\ stack[i].next \in Nat \ {0}
  <2>1. stack[i].file \in DOMAIN opened
    BY <1>1, <1>2 DEF Walk, Visits, Opened
  <2>2. stack[i] \in Frame(files \cup {RootFile})
    BY <1>2
  <2> QED
    BY <1>3, <2>1, <2>2 DEF Kept, Frame
<1>6. ASSUME NEW i \in 1..Len(stack') PROVE Passed(i)'
  <2>1. i \in 1..Len(stack) /\ Passed(i)
    BY <1>1, <1>3 DEF Walk
  <2> SUFFICES ASSUME NEW k \in 1..(stack'[i].next - 1),
                      Follows(opened[stack[i].file], RootPkg, k)
               PROVE  opened[stack[i].file].imports[k].file \in loaded'
    BY <1>5, <2>1 DEF Passed, Kept
  <2>2. CASE k \in 1..(stack[i].next - 1)
    BY <2>1, <2>2 DEF Passed
  <2>3. CASE k \notin 1..(stack[i].next - 1)
    <3>1. i = Len(stack) /\ k = stack[i].next
      BY <1>3, <1>5, <2>1, <2>3
    <3> QED
      BY <3>1 DEF Import, Top
  <2> QED
    BY <2>2, <2>3
<1>7. ASSUME NEW i \in 1..(Len(stack') - 1) PROVE Called(i)'
  <2>1. i \in 1..Len(stack) /\ i # Len(stack) /\ i + 1 \in 1..Len(stack) /\ Called(i)
    BY <1>1, <1>2, <1>3 DEF Walk
  <2> QED
    BY <1>3, <1>5, <2>1 DEF Called, Kept
<1> QED
  BY <1>4, <1>6, <1>7 DEF Walk

(* A file that is opened was not, and the file the walk is at imports it.  *)
LEMMA OpensNew ==
    ASSUME Inv, NEW f \in files, OpenNew(f)
    PROVE  /\ Walk /\ f \notin DOMAIN opened /\ f # NoFile /\ f # RootFile
           /\ Follows(opened[Top.file], RootPkg, Top.next) /\ Import.file = f
<1>1. f # RootFile /\ f # NoFile
  BY FilesAssumption DEF Inv, Types
<1> QED
  BY <1>1 DEF OpenNew, Leads, AtImport, Walking, Cyclic, Already, Inv, Walk, Opened,
              Follows, Import, TopPkg

(* A call is made by the import the walk is at.                            *)
LEMMA CallStep ==
    ASSUME Inv, Kept, NEW f \in files, OpenNew(f), DOMAIN opened' = DOMAIN opened \cup {f},
           stack' = Append(stack, [file |-> f, next |-> 1]),
           visiting' = visiting \cup {f}, loaded' = loaded
    PROVE  Walk'
<1>1. /\ Types /\ Walk /\ f \notin DOMAIN opened /\ f # RootFile
      /\ Follows(opened[Top.file], RootPkg, Top.next) /\ Import.file = f
  BY OpensNew DEF Inv
<1>2. stack \in Seq(Frame(files \cup {RootFile})) /\ Len(stack) > 0 /\ Len(stack) \in Nat
  BY <1>1 DEF Types
<1>3. /\ Len(stack') = Len(stack) + 1
      /\ \A i \in 1..Len(stack) : stack'[i] = stack[i]
      /\ stack'[Len(stack')].file = f /\ stack'[Len(stack')].next = 1
  BY <1>2, Pushed
<1>4. \A i \in 1..Len(stack) : /\ stack[i].file \in DOMAIN opened /\ stack[i].file # f
                               /\ opened'[stack[i].file] = opened[stack[i].file]
  BY <1>1 DEF Walk, Visits, Opened, Kept
<1>5. Visits'
  BY <1>1, <1>2, <1>3, <1>4 DEF Walk, Visits
<1>6. Opened' /\ Closed'
  BY <1>1 DEF Walk, Opened, Closed, Kept
<1>7. ASSUME NEW i \in 1..Len(stack') PROVE Passed(i)'
  <2>1. CASE i \in 1..Len(stack)
    <3>1. Passed(i) /\ stack'[i] = stack[i] /\ opened'[stack[i].file] = opened[stack[i].file]
      BY <1>1, <1>3, <1>4, <2>1 DEF Walk
    <3> QED
      BY <3>1 DEF Passed, Kept
  <2>2. CASE i \notin 1..Len(stack)
    <3>1. i = Len(stack')
      BY <1>2, <1>3, <2>2
    <3> QED
      BY <1>3, <3>1 DEF Passed
  <2> QED
    BY <2>1, <2>2
<1>8. ASSUME NEW i \in 1..(Len(stack') - 1) PROVE Called(i)'
  <2>1. CASE i < Len(stack)
    <3>1. Called(i) /\ i \in 1..Len(stack) /\ i + 1 \in 1..Len(stack)
      BY <1>1, <1>2, <1>3, <2>1 DEF Walk
    <3> QED
      BY <1>3, <1>4, <3>1 DEF Called, Kept
  <2>2. CASE i = Len(stack)
    <3>1. stack'[i] = Top /\ stack'[i + 1].file = f /\ opened'[Top.file] = opened[Top.file]
      BY <1>2, <1>3, <1>4, <2>2 DEF Top
    <3> QED
      BY <1>1, <3>1 DEF Called, Kept, Import
  <2> QED
    BY <1>2, <1>3, <2>1, <2>2
<1> QED
  BY <1>5, <1>6, <1>7, <1>8 DEF Walk

(* When the imports of a file are through, they are done with.             *)
LEMMA TopPassed ==
    ASSUME Types, Walk, ~AtImport, Walking
    PROVE  \A k \in DOMAIN opened[Top.file].imports :
              Follows(opened[Top.file], RootPkg, k) => opened[Top.file].imports[k].file \in loaded
<1>1. /\ Len(stack) \in 1..Len(stack) /\ Top.file \in DOMAIN opened /\ Top.next \in Nat \ {0}
  BY AtTop
<1>2. PICK n \in Nat : DOMAIN opened[Top.file].imports = 1..n
  BY <1>1 DEF Types
<1>3. \A k \in 1..n : k \in 1..(Top.next - 1)
  BY <1>1, <1>2 DEF AtImport
<1>4. Passed(Len(stack))
  BY <1>1 DEF Walk
<1> QED
  BY <1>2, <1>3, <1>4 DEF Passed, Top

(* What it imports is then done with.                                      *)
LEMMA TopDone ==
    ASSUME Types, Walk, ~AtImport, Walking
    PROVE  LeadsTo(opened[Top.file], RootPkg) \subseteq loaded
  BY TopPassed, LeadsToFollowed

(* A call returns, its file done with, and its caller goes on.             *)
LEMMA ReturnStep == ASSUME Inv, Kept, Return PROVE Walk'
<1>1. Types /\ Walk /\ ~AtImport /\ Walking /\ opened' = opened /\ Len(stack) > 1
  BY DEF Inv, Return, Walking
<1>2. /\ loaded' = loaded \cup {Top.file} /\ visiting' = visiting \ {Top.file}
      /\ stack' = [Front(stack) EXCEPT ![Len(stack) - 1].next = @ + 1]
  BY DEF Return
<1>3. stack \in Seq(Frame(files \cup {RootFile})) /\ Len(stack) \in Nat
  BY <1>1 DEF Types
<1>4. /\ Len(stack') = Len(stack) - 1
      /\ \A i \in 1..(Len(stack) - 1) :
            /\ stack'[i].file = stack[i].file
            /\ stack'[i].next = IF i = Len(stack) - 1 THEN stack[i].next + 1 ELSE stack[i].next
  <2>1. /\ Front(stack) \in Seq(Frame(files \cup {RootFile})) /\ Len(Front(stack)) = Len(stack) - 1
        /\ \A i \in 1..(Len(stack) - 1) : Front(stack)[i] = stack[i]
    BY <1>1, <1>3, Popped
  <2>2. Len(Front(stack)) > 0 /\ stack' = [Front(stack) EXCEPT ![Len(Front(stack))].next = @ + 1]
    BY <1>1, <1>2, <1>3, <2>1
  <2>3. /\ Len(stack') = Len(Front(stack))
        /\ \A i \in 1..Len(Front(stack)) :
              /\ stack'[i].file = Front(stack)[i].file
              /\ stack'[i].next = IF i = Len(Front(stack)) THEN Front(stack)[i].next + 1
                                  ELSE Front(stack)[i].next
    BY <2>1, <2>2, Advanced
  <2> QED
    BY <2>1, <2>3
<1>5. Top.file \in visiting /\ Top.file = stack[Len(stack)].file
  BY <1>1, <1>3 DEF Top, Walk, Visits
<1>6. Visits'
  <2>1. stack'[1].file = RootFile
    BY <1>1, <1>3, <1>4 DEF Walk, Visits
  <2>2. \A i, j \in 1..Len(stack') : stack'[i].file = stack'[j].file => i = j
    BY <1>1, <1>3, <1>4 DEF Walk, Visits
  <2>3. ASSUME NEW i \in 1..Len(stack'), i > 1 PROVE stack'[i].file \in visiting'
    <3>1. i \in 1..Len(stack) /\ i # Len(stack) /\ Len(stack) \in 1..Len(stack)
      BY <1>1, <1>3, <1>4
    <3> QED
      BY <1>1, <1>2, <1>4, <1>5, <2>3, <3>1 DEF Walk, Visits
  <2>4. ASSUME NEW f \in visiting' PROVE \E i \in 1..Len(stack') : i > 1 /\ stack'[i].file = f
    <3>1. PICK i \in 1..Len(stack) : i > 1 /\ stack[i].file = f
      BY <1>1, <1>2, <2>4 DEF Walk, Visits
    <3>2. i # Len(stack)
      BY <1>2, <1>5, <2>4, <3>1
    <3> QED
      BY <1>3, <1>4, <3>1, <3>2
  <2> QED
    BY <2>1, <2>2, <2>3, <2>4 DEF Visits
<1>7. Opened'
  BY <1>1, <1>2, <1>5 DEF Walk, Visits, Opened
<1>8. Closed'
  BY <1>1, <1>2, TopDone DEF Walk, Closed, Kept
<1>9. ASSUME NEW i \in 1..Len(stack') PROVE Passed(i)'
  <2>1. i \in 1..(Len(stack) - 1) /\ i \in 1..Len(stack) /\ Passed(i) /\ Called(i)
    BY <1>1, <1>3, <1>4, <1>9 DEF Walk
  <2> SUFFICES ASSUME NEW k \in 1..(stack'[i].next - 1),
                      Follows(opened[stack[i].file], RootPkg, k)
               PROVE  opened[stack[i].file].imports[k].file \in loaded'
    BY <1>1, <1>4, <2>1 DEF Passed, Kept
  <2>2. CASE k \in 1..(stack[i].next - 1)
    BY <1>2, <2>1, <2>2 DEF Passed
  <2>3. CASE k \notin 1..(stack[i].next - 1)
    <3>1. stack[i] \in Frame(files \cup {RootFile})
      BY <1>3, <2>1
    <3>2. stack[i].next \in Nat
      BY <3>1 DEF Frame
    <3>3. i + 1 = Len(stack) /\ k = stack[i].next
      BY <1>3, <1>4, <2>1, <2>3, <3>2
    <3> QED
      BY <1>2, <1>5, <2>1, <3>3 DEF Called
  <2> QED
    BY <2>2, <2>3
<1>10. ASSUME NEW i \in 1..(Len(stack') - 1) PROVE Called(i)'
  <2>1. /\ i \in 1..(Len(stack) - 1) /\ i # Len(stack) - 1 /\ i + 1 \in 1..(Len(stack) - 1)
        /\ Called(i)
    BY <1>1, <1>3, <1>4 DEF Walk
  <2> QED
    BY <1>1, <1>4, <2>1 DEF Called, Kept
<1> QED
  BY <1>6, <1>7, <1>8, <1>9, <1>10 DEF Walk

(* A file that is opened is called or, if it does not parse, done with.    *)
LEMMA OpenStep == ASSUME Inv, Kept, NEW f \in files, OpenNew(f), err' = "none" PROVE Walk'
<1>1. /\ Walk /\ f \notin DOMAIN opened /\ f # RootFile
      /\ Follows(opened[Top.file], RootPkg, Top.next) /\ Import.file = f
  BY OpensNew
<1>2. PICK c \in Contents(f), list \in ImportLists : Open(f, c, list)
  BY DEF OpenNew
<1>3. DOMAIN opened' = DOMAIN opened \cup {f}
  BY <1>2 DEF Open
<1>4. CASE ~c.parses
  <2>1. /\ loaded' = loaded \cup {f} /\ stack' = NextImport /\ visiting' = visiting /\ list = <<>>
        /\ opened'[f].imports = Resolved(f, PkgOf(f, c, Import.path), list)
    BY <1>2, <1>4 DEF Open
  <2>2. DOMAIN opened'[f].imports = {}
    BY <2>1 DEF Resolved
  <2>3. LeadsTo(opened'[f], RootPkg) = {}
    BY <2>2, LeadsToFollowed
  <2>4. Opened' /\ Closed'
    BY <1>1, <1>3, <2>1, <2>3 DEF Walk, Visits, Opened, Closed, Kept
  <2> QED
    BY <1>1, <2>1, <2>4, AdvanceStep DEF OpenNew, Leads
<1>5. CASE c.parses
  <2>1. /\ stack' = Append(stack, [file |-> f, next |-> 1])
        /\ visiting' = visiting \cup {f} /\ loaded' = loaded
    BY <1>2, <1>5 DEF Open
  <2> QED
    BY <1>3, <2>1, CallStep
<1> QED
  BY <1>4, <1>5

(* Each step without an error keeps the calls together.                    *)
LEMMA InvStep == Inv /\ [Next]_vars => Inv'
<1> SUFFICES ASSUME Inv, [Next]_vars, err' = "none" PROVE Walk'
  BY TypesStep DEF Inv
<1>1. Kept
  BY KeptStep
<1>2. ASSUME err = "none", UNCHANGED <<opened, stack, visiting, loaded>> PROVE Walk'
  BY <1>2 DEF Inv, Walk, Visits, Opened, Closed, Passed, Called, RootPkg
<1>3. CASE Skip \/ \E f \in files : AlreadyLoaded(f)
  <2>1. /\ AtImport /\ stack' = NextImport /\ UNCHANGED <<opened, visiting, loaded>> /\ Walk
        /\ Follows(opened[Top.file], RootPkg, Top.next) => Import.file \in loaded
    BY <1>3 DEF Skip, AlreadyLoaded, Leads, Already, Follows, Import, TopPkg, AtImport, Walking, Inv
  <2>2. Opened' /\ Closed'
    BY <2>1 DEF Walk, Opened, Closed, RootPkg
  <2> QED
    BY <1>1, <2>1, <2>2, AdvanceStep
<1>4. CASE NotFound \/ \E f \in files : Cycle(f)
  BY <1>4 DEF NotFound, Cycle
<1>5. ASSUME NEW f \in files, OpenNew(f) PROVE Walk'
  BY <1>1, <1>5, OpenStep
<1>6. CASE Return
  BY <1>1, <1>6, ReturnStep
<1>7. CASE Unwind
  BY <1>7 DEF Unwind
<1>8. CASE Combine \/ UNCHANGED vars
  BY <1>2, <1>8 DEF Combine, Walking, vars
<1> QED
  BY <1>3, <1>4, <1>5, <1>6, <1>7, <1>8 DEF Next

(* The calls of visit hang together, always.                               *)
THEOREM Invariance == Spec => []Inv
  BY InitInv, InvStep, PTL DEF Spec

-----------------------------------------------------------------------------
(* When the next import leads to a file being visited, the files from that *)
(* one to the top of the stack import each other in a circle.              *)
LEMMA CycleIsReal ==
    ASSUME Inv, NEW f \in files, Cycle(f)
    PROVE  Listing!Circular(Graph)
<1>1. /\ Types /\ Walk /\ f \in visiting /\ f # NoFile
      /\ Follows(opened[Top.file], RootPkg, Top.next) /\ Import.file = f
  BY FilesAssumption
     DEF Inv, Types, Cycle, Leads, AtImport, Walking, Cyclic, Follows, Import, TopPkg
<1>2. Len(stack) \in 1..Len(stack) /\ Len(stack) \in Nat
  BY <1>1, AtTop
<1>3. PICK j \in 1..Len(stack) : stack[j].file = f
  BY <1>1 DEF Walk, Visits
<1> DEFINE circle == {stack[i].file : i \in j..Len(stack)}
<1>4. f \in circle
  BY <1>2, <1>3
<1>5. circle \subseteq DOMAIN opened
  BY <1>1, <1>2, <1>3 DEF Walk, Visits, Opened
<1>6. ASSUME NEW g \in circle PROVE Graph[g] \cap circle # {}
  <2>1. PICK i \in j..Len(stack) : stack[i].file = g
    OBVIOUS
  <2>2. Graph[g] = LeadsTo(opened[g], RootPkg)
    BY <1>5 DEF Graph
  <2>3. CASE i = Len(stack)
    <3>1. f \in LeadsTo(opened[g], RootPkg)
      BY <1>1, <2>1, <2>3, LeadsToFollowed DEF Top, Import, Follows
    <3> QED
      BY <1>4, <2>2, <3>1
  <2>4. CASE i # Len(stack)
    <3>1. i \in 1..(Len(stack) - 1) /\ i + 1 \in j..Len(stack) /\ Called(i)
      BY <1>1, <1>2, <1>3, <2>1, <2>4 DEF Walk
    <3>2. stack[i + 1].file # NoFile
      <4>1. stack[i + 1] \in Frame(files \cup {RootFile}) /\ i + 1 > 1 /\ i + 1 \in 1..Len(stack)
        BY <1>1, <1>2, <1>3, <3>1 DEF Types
      <4>2. stack[i + 1].file # RootFile
        BY <1>1, <1>2, <4>1 DEF Walk, Visits
      <4> QED
        BY <1>1, <4>1, <4>2, FilesAssumption DEF Frame, Types
    <3>3. stack[i + 1].file \in LeadsTo(opened[g], RootPkg)
      BY <2>1, <3>1, <3>2, LeadsToFollowed DEF Called, Follows
    <3> QED
      BY <2>2, <3>1, <3>3
  <2> QED
    BY <2>3, <2>4
<1> QED
  <2>1. circle \in SUBSET DOMAIN Graph
    BY <1>5 DEF Graph
  <2> HIDE DEF circle
  <2> QED
    BY <1>4, <1>6, <2>1 DEF Listing!Circular

(* A walk that goes on changes nothing the abstract loader sees, or reads  *)
(* or lists one file.                                                      *)
LEMMA GraphKept ==
    ASSUME Kept
    PROVE  /\ DOMAIN Graph = DOMAIN opened /\ DOMAIN Graph' = DOMAIN opened'
           /\ \A f \in DOMAIN opened : Graph'[f] = Graph[f]
           /\ \A f \in DOMAIN opened' : Graph'[f] = LeadsTo(opened'[f], RootPkg)
           /\ DOMAIN opened' = DOMAIN opened => Graph' = Graph
  BY DEF Graph, Kept

(* Opening a file is a read of the abstract loader, or its last step.      *)
LEMMA ReadsOne == ASSUME Inv, Kept, NEW f \in files, OpenNew(f) PROVE Listing!ANext
<1>1. /\ Walk /\ f \notin DOMAIN opened /\ f # NoFile
      /\ Follows(opened[Top.file], RootPkg, Top.next) /\ Import.file = f
  BY OpensNew
<1>2. PICK c \in Contents(f), list \in ImportLists : Open(f, c, list)
  BY DEF OpenNew
<1>3. /\ DOMAIN opened' = DOMAIN opened \cup {f} /\ done' = done
      /\ opened'[f].imports = Resolved(f, PkgOf(f, c, Import.path), list)
  BY <1>2 DEF Open
<1>4. err = "none" /\ done = FALSE
  BY DEF OpenNew, Leads, AtImport, Walking, Inv, Types
<1>5. Top.file \in DOMAIN opened /\ f \in Graph[Top.file]
  <2>1. Top.file \in DOMAIN opened
    BY <1>1, AtTop DEF Inv
  <2>2. f \in LeadsTo(opened[Top.file], RootPkg)
    BY <1>1, LeadsToFollowed DEF Import, Follows
  <2> QED
    BY <2>1, <2>2 DEF Graph
<1>6. Listing!ReadSource(f)
  BY <1>1, <1>3, <1>4, <1>5, GraphKept DEF Listing!ReadSource, Result
<1>7. CASE ~c.parses
  <2>1. loaded' = loaded \cup {f} /\ err' = err /\ list = <<>>
    BY <1>2, <1>7 DEF Open
  <2>2. DOMAIN opened'[f].imports = {}
    BY <1>3, <2>1 DEF Resolved
  <2>3. Graph'[f] = {}
    BY <1>3, <2>2, GraphKept, LeadsToFollowed
  <2> QED
    BY <1>1, <1>3, <1>4, <1>6, <2>1, <2>3, GraphKept
       DEF Listing!ANext, Listing!Read, Listed, Result
<1>8. CASE c.parses /\ OpenError(f, c) = "none"
  <2>1. loaded' = loaded /\ err' = err
    BY <1>2, <1>8 DEF Open
  <2> QED
    BY <1>1, <1>3, <1>4, <1>6, <2>1, GraphKept DEF Listing!ANext, Listing!Read, Listed, Result
<1>9. CASE c.parses /\ OpenError(f, c) # "none"
  <2>1. err' = OpenError(f, c)
    BY <1>2, <1>9 DEF Open
  <2>2. OpenError(f, c) # "cycle"
    <3>1. c.error # "cycle"
      BY ContentsAssumption DEF Inv, Types
    <3> QED
      BY <3>1 DEF OpenError
  <2> QED
    BY <1>1, <1>3, <1>4, <1>6, <1>9, <2>1, <2>2, GraphKept DEF Listing!ANext, Listing!Read, Listed, Result
<1> QED
  BY <1>7, <1>8, <1>9

(* Each step is one of the abstract loader's, or changes nothing it sees.  *)
LEMMA ListingStep == Inv /\ [Next]_vars => [Listing!ANext]_(Listing!avars)
<1> SUFFICES ASSUME Inv, [Next]_vars PROVE Listing!ANext \/ UNCHANGED <<Graph, Listed, Result>>
  BY DEF Listing!avars
<1>1. Kept
  BY KeptStep
<1>2. ASSUME opened' = opened PROVE Graph' = Graph
  BY <1>1, <1>2, GraphKept
<1>3. CASE Skip \/ (\E f \in files : AlreadyLoaded(f)) \/ Unwind \/ UNCHANGED vars
  <2>1. opened' = opened /\ err' = err /\ done' = done /\ (err = "none" => loaded' = loaded)
    BY <1>3 DEF Skip, AlreadyLoaded, Unwind, vars
  <2> QED
    BY <1>2, <2>1 DEF Listed, Result
<1>4. CASE NotFound
  <2>1. opened' = opened /\ done' = done /\ err = "none" /\ done = FALSE /\ err' = "not found"
    BY <1>4 DEF NotFound, Leads, AtImport, Walking, Inv, Types
  <2> QED
    BY <1>2, <2>1 DEF Listing!ANext, Listing!Stop, Listed, Result
<1>5. ASSUME NEW f \in files, Cycle(f) PROVE Listing!ANext
  <2>1. opened' = opened /\ done' = done /\ err = "none" /\ done = FALSE /\ err' = "cycle"
    BY <1>5 DEF Cycle, Leads, AtImport, Walking, Inv, Types
  <2>2. Listing!Circular(Graph)
    BY <1>5, CycleIsReal
  <2> QED
    BY <1>2, <2>1, <2>2 DEF Listing!ANext, Listing!Stop, Listed, Result
<1>6. ASSUME NEW f \in files, OpenNew(f) PROVE Listing!ANext
  BY <1>1, <1>6, ReadsOne
<1>7. CASE Return
  <2>1. /\ opened' = opened /\ done' = done /\ err = "none" /\ done = FALSE /\ err' = err
        /\ loaded' = loaded \cup {Top.file} /\ ~AtImport /\ Walking /\ Len(stack) > 1 /\ Types /\ Walk
    BY <1>7 DEF Return, Walking, Inv, Types
  <2>2. Top.file \in DOMAIN opened \ loaded
    BY <2>1, AtTop DEF Top, Walk, Visits, Opened
  <2>3. Graph[Top.file] \subseteq loaded
    BY <2>1, <2>2, TopDone DEF Graph
  <2>4. Listing!List(Top.file)
    BY <1>2, <2>1, <2>2, <2>3 DEF Listing!List, Listed, Result, Graph
  <2> QED
    BY <2>1, <2>2, <2>4 DEF Listing!ANext, Listed
<1>8. CASE Combine
  <2>1. /\ opened' = opened /\ loaded' = loaded /\ err = "none" /\ done = FALSE
        /\ (err' = "unparsed" /\ done' = done) \/ (done' = TRUE /\ err' = err)
        /\ ~AtImport /\ Walking /\ Len(stack) = 1 /\ Types /\ Walk
    BY <1>8 DEF Combine, Walking, Inv, Types
  <2>2. CASE err' = "unparsed"
    BY <1>2, <2>1, <2>2 DEF Listing!ANext, Listing!Stop, Listed, Result
  <2>3. CASE done' = TRUE /\ err' = err
    <3>1. Top.file = RootFile /\ RootFile \in DOMAIN opened \ loaded /\ visiting = {}
      BY <2>1 DEF Top, Walk, Visits, Opened
    <3>2. Graph[RootFile] \subseteq loaded /\ DOMAIN Graph = loaded \cup {RootFile}
      BY <2>1, <3>1, TopDone DEF Graph, Walk, Opened
    <3>3. Listing!List(RootFile)
      BY <1>2, <2>1, <2>3, <3>1, <3>2 DEF Listing!List, Listed, Result
    <3> QED
      BY <2>1, <2>3, <3>1, <3>3 DEF Listing!ANext, Listed
  <2> QED
    BY <2>1, <2>2, <2>3
<1> QED
  BY <1>3, <1>4, <1>5, <1>6, <1>7, <1>8 DEF Next

(* Each package is listed once, after all it imports, all that are reached *)
(* are listed, and a cycle is reported only when there is one: whatever    *)
(* files there are, however they are found and whatever they import.       *)
THEOREM Refinement == Spec => ImplementsImportOrder
<1>1. Init => Listing!AInit
  <2> SUFFICES ASSUME Init PROVE Listing!AInit
    OBVIOUS
  <2>1. DOMAIN opened = {RootFile} /\ loaded = {} /\ done = FALSE /\ err \in {"none", "reserved"}
    BY DEF Init
  <2>2. DOMAIN Graph = {RootFile}
    BY <2>1 DEF Graph
  <2> QED
    BY <2>1, <2>2 DEF Listing!AInit, Listed, Result
<1> QED
  BY <1>1, ListingStep, Invariance, PTL DEF Spec, ImplementsImportOrder, Listing!ASpec

-----------------------------------------------------------------------------
\* The calls of visit while they return, with an error or without.
Stacked == Visits /\ loaded \cap visiting = {} /\ RootFile \notin loaded

\* Each file done with is in the list, once.
ListType == \E P : order \in Seq([pkg : P, file : files])
Once == \A i, j \in 1..Len(order) : order[i].file = order[j].file => i = j
Lists ==
    /\ ListType /\ Once
    /\ \A i \in 1..Len(order) : order[i].file \in loaded
    /\ \A f \in loaded : \E i \in 1..Len(order) : order[i].file = f
    /\ IsFiniteSet(loaded) /\ Cardinality(loaded) = Len(order)

\* A package that parsed is in the list with its name, after those it imports.
Named(i) == opened[order[i].file].parses => order[i].pkg = opened[order[i].file].pkg
After(i) ==
    \A k \in DOMAIN opened[order[i].file].imports : Follows(opened[order[i].file], RootPkg, k) =>
        \E j \in 1..(i - 1) : order[j].file = opened[order[i].file].imports[k].file

\* The program is put together of packages that parsed, with all the root imports.
Complete ==
    /\ err = "none"
    /\ \A i \in 1..Len(order) : opened[order[i].file].parses
    /\ \A k \in DOMAIN opened[RootFile].imports : Follows(opened[RootFile], RootPkg, k) =>
           opened[RootFile].imports[k].file \in loaded

ListInv ==
    /\ spare \in 0..MaxImports
    /\ Stacked /\ Lists
    /\ err = "none" => \A i \in 1..Len(order) : Named(i) /\ After(i)
    /\ done => Complete

(* One more package in the list.                                           *)
LEMMA ListsOne ==
    ASSUME Lists, files' = files, NEW f \in files, NEW p, f \notin loaded,
           order' = Append(order, [pkg |-> p, file |-> f]), loaded' = loaded \cup {f}
    PROVE  /\ Lists' /\ Len(order) \in Nat /\ Len(order') = Len(order) + 1
           /\ order'[Len(order) + 1] = [pkg |-> p, file |-> f]
           /\ \A i \in 1..Len(order) : order'[i] = order[i]
<1>1. PICK P : order \in Seq([pkg : P, file : files])
  BY DEF Lists, ListType
<1> DEFINE x == [pkg |-> p, file |-> f]
           E == [pkg : P \cup {p}, file : files]
<1>2. order \in Seq(E)
  <2>1. [pkg : P, file : files] \subseteq E
    OBVIOUS
  <2> HIDE DEF E
  <2> QED
    BY <1>1, <2>1, Larger
<1>3. x \in E /\ x.file = f
  OBVIOUS
<1> HIDE DEF x, E
<1>4. /\ order' \in Seq(E) /\ Len(order) \in Nat /\ Len(order') = Len(order) + 1
      /\ order'[Len(order) + 1] = x /\ \A i \in 1..Len(order) : order'[i] = order[i]
  BY <1>2, <1>3 DEF x
<1>5. ListType'
  <2>1. order' \in Seq([pkg : P \cup {p}, file : files'])
    BY <1>4 DEF E
  <2> QED
    BY <2>1, Zenon DEF ListType
<1>6. Once'
  BY <1>3, <1>4 DEF Lists, Once
<1>7. \A i \in 1..Len(order') : order'[i].file \in loaded'
  BY <1>3, <1>4 DEF Lists
<1>8. ASSUME NEW g \in loaded' PROVE \E i \in 1..Len(order') : order'[i].file = g
  <2>1. CASE g = f
    BY <1>3, <1>4, <2>1
  <2>2. CASE g \in loaded
    <3>1. PICK i \in 1..Len(order) : order[i].file = g
      BY <2>2 DEF Lists
    <3> QED
      BY <1>4, <3>1
  <2> QED
    BY <2>1, <2>2
<1>9. IsFiniteSet(loaded') /\ Cardinality(loaded') = Len(order')
  <2>1. IsFiniteSet(loaded \cup {f}) /\ Cardinality(loaded \cup {f}) = Cardinality(loaded) + 1
    BY FS_AddElement DEF Lists
  <2> QED
    BY <1>4, <2>1 DEF Lists
<1> QED
  BY <1>4, <1>5, <1>6, <1>7, <1>8, <1>9 DEF Lists, x

(* What is in the list stays as it is listed.                              *)
LEMMA EntriesKept ==
    ASSUME Inv, Kept, ListInv, err = "none", \A i \in 1..Len(order) : order'[i] = order[i]
    PROVE  \A i \in 1..Len(order) : Named(i)' /\ After(i)'
<1> SUFFICES ASSUME NEW i \in 1..Len(order) PROVE Named(i)' /\ After(i)'
  OBVIOUS
<1>1. Named(i) /\ After(i) /\ order'[i] = order[i] /\ order[i].file \in loaded
  BY DEF ListInv, Lists
<1>2. opened'[order[i].file] = opened[order[i].file] /\ RootPkg' = RootPkg
  BY <1>1 DEF Inv, Walk, Opened, Kept
<1>3. Named(i)'
  BY <1>1, <1>2 DEF Named
<1>4. After(i)'
  <2> SUFFICES ASSUME NEW k \in DOMAIN opened[order[i].file].imports,
                      Follows(opened[order[i].file], RootPkg, k)
               PROVE  \E j \in 1..(i - 1) : order'[j].file = opened[order[i].file].imports[k].file
    BY <1>1, <1>2 DEF After
  <2>1. PICK j \in 1..(i - 1) : order[j].file = opened[order[i].file].imports[k].file
    BY <1>1 DEF After
  <2>2. j \in 1..Len(order)
    BY <2>1 DEF ListInv, Lists, ListType
  <2> QED
    BY <2>1, <2>2
<1> QED
  BY <1>3, <1>4

(* The last of the calls, while there is one below, is of a file visited.  *)
LEMMA TopVisited ==
    ASSUME Types, Stacked, Len(stack) > 1
    PROVE  Top.file \in visiting /\ Top.file \in files /\ Top.file \notin loaded
<1>1. stack \in Seq(Frame(files \cup {RootFile})) /\ Len(stack) \in 1..Len(stack) /\ Len(stack) \in Nat /\ 1 \in 1..Len(stack)
  BY DEF Types
<1>2. Top \in Frame(files \cup {RootFile}) /\ Top = stack[Len(stack)]
  BY <1>1 DEF Top
<1>3. Top.file # RootFile /\ Top.file \in visiting
  BY <1>1, <1>2 DEF Stacked, Visits
<1> QED
  BY <1>2, <1>3 DEF Stacked, Frame

(* A call that returns leaves those below it.                              *)
LEMMA UnwindStep == ASSUME Types, Stacked, Unwind PROVE Stacked'
<1>1. /\ Len(stack) > 1 /\ loaded' = loaded \cup {Top.file} /\ visiting' = visiting \ {Top.file}
      /\ stack' = Front(stack)
  BY DEF Unwind
<1>2. stack \in Seq(Frame(files \cup {RootFile})) /\ Len(stack) \in Nat
  BY DEF Types
<1>3. Len(stack') = Len(stack) - 1 /\ \A i \in 1..(Len(stack) - 1) : stack'[i] = stack[i]
  BY <1>1, <1>2, Popped
<1>4. Top.file \in visiting /\ Top.file \in files /\ Top.file = stack[Len(stack)].file /\ Top.file # RootFile
  BY <1>1, TopVisited, FilesAssumption DEF Top, Types
<1>5. Visits'
  <2>1. stack'[1].file = RootFile
    BY <1>1, <1>2, <1>3 DEF Stacked, Visits
  <2>2. \A i, j \in 1..Len(stack') : stack'[i].file = stack'[j].file => i = j
    BY <1>1, <1>2, <1>3 DEF Stacked, Visits
  <2>3. ASSUME NEW i \in 1..Len(stack'), i > 1 PROVE stack'[i].file \in visiting'
    <3>1. i \in 1..Len(stack) /\ i # Len(stack) /\ Len(stack) \in 1..Len(stack)
      BY <1>1, <1>2, <1>3
    <3> QED
      BY <1>1, <1>3, <1>4, <2>3, <3>1 DEF Stacked, Visits
  <2>4. ASSUME NEW f \in visiting' PROVE \E i \in 1..Len(stack') : i > 1 /\ stack'[i].file = f
    <3>1. PICK i \in 1..Len(stack) : i > 1 /\ stack[i].file = f
      BY <1>1, <2>4 DEF Stacked, Visits
    <3>2. i # Len(stack)
      BY <1>1, <1>4, <2>4, <3>1
    <3> QED
      BY <1>2, <1>3, <3>1, <3>2
  <2> QED
    BY <2>1, <2>2, <2>3, <2>4 DEF Visits
<1> QED
  BY <1>1, <1>4, <1>5 DEF Stacked

(* A walk begins with nothing listed.                                      *)
LEMMA ListInit == Init => ListInv
<1> SUFFICES ASSUME Init PROVE ListInv
  OBVIOUS
<1>1. spare \in 0..MaxImports
  <2>1. PICK list \in ImportLists : spare = MaxImports - Len(list)
    BY DEF Init
  <2> QED
    BY <2>1, BoundAssumption, ImportsAssumption
<1>2. order = <<>> /\ loaded = {} /\ visiting = {} /\ done = FALSE
      /\ stack = <<[file |-> RootFile, next |-> 1]>>
  BY DEF Init
<1>3. Stacked
  BY <1>2 DEF Stacked, Visits
<1>4. Lists
  <2>1. order \in Seq([pkg : {}, file : files])
    BY <1>2
  <2>2. ListType
    BY <2>1, Zenon DEF ListType
  <2>3. IsFiniteSet(loaded) /\ Cardinality(loaded) = 0 /\ Len(order) = 0
    BY <1>2, FS_EmptySet
  <2> QED
    BY <1>2, <2>2, <2>3 DEF Lists, Once
<1> QED
  BY <1>1, <1>2, <1>3, <1>4 DEF ListInv

(* A step that neither lists nor leaves the calls.                         *)
LEMMA ListKept ==
    ASSUME Inv, Inv', Kept, ListInv, err = "none", ~done,
           UNCHANGED <<spare, loaded, order, done>>,
           UNCHANGED <<stack, visiting>> \/ err' = "none"
    PROVE  ListInv'
<1>1. files' = files /\ \A i \in 1..Len(order) : order'[i] = order[i]
  BY DEF Kept
<1>2. Stacked'
  <2>1. CASE err' = "none"
    BY <2>1 DEF Inv, Walk, Stacked, Opened
  <2>2. CASE UNCHANGED <<stack, visiting>>
    BY <2>2 DEF ListInv, Stacked, Visits
  <2> QED
    BY <2>1, <2>2
<1>3. Lists'
  BY <1>1 DEF ListInv, Lists, ListType, Once
<1>4. \A i \in 1..Len(order') : Named(i)' /\ After(i)'
  BY <1>1, EntriesKept
<1>5. spare' \in 0..MaxImports /\ ~done'
  BY DEF ListInv
<1> QED
  BY <1>2, <1>3, <1>4, <1>5 DEF ListInv

(* A file that is opened is not in the list, and takes imports within the  *)
(* bound; one that does not parse is listed at once.                       *)
LEMMA OpenLists == ASSUME Inv, Inv', Kept, ListInv, NEW f \in files, OpenNew(f) PROVE ListInv'
<1>1. /\ Walk /\ Types /\ f \notin DOMAIN opened /\ err = "none" /\ ~done /\ f \notin loaded
  <2>1. err = "none" /\ ~done
    BY DEF OpenNew, Leads, AtImport, Walking
  <2>2. Walk /\ Types /\ f \notin DOMAIN opened
    BY OpensNew DEF Inv
  <2> QED
    BY <2>1, <2>2 DEF Walk, Opened
<1>2. PICK c \in Contents(f), list \in ImportLists : Open(f, c, list)
  BY DEF OpenNew
<1>3. files' = files /\ done' = done /\ spare' = spare - Len(list)
      /\ (list # <<>> => c.parses /\ Len(list) <= spare)
  BY <1>2 DEF Open
<1>4. spare' \in 0..MaxImports
  <2>1. Len(list) \in Nat /\ spare \in 0..MaxImports /\ MaxImports \in Nat
    BY ImportsAssumption, BoundAssumption DEF ListInv
  <2>2. list = <<>> => Len(list) = 0
    OBVIOUS
  <2> QED
    BY <1>3, <2>1, <2>2
<1>5. CASE ~c.parses
  <2>1. /\ loaded' = loaded \cup {f} /\ order' = Append(order, [pkg |-> Import.path, file |-> f])
        /\ err' = err /\ list = <<>>
        /\ opened'[f] = [parses |-> c.parses, pkg |-> PkgOf(f, c, Import.path),
                         imports |-> Resolved(f, PkgOf(f, c, Import.path), list)]
    BY <1>2, <1>5 DEF Open
  <2>2. DOMAIN opened'[f].imports = {} /\ opened'[f].parses = FALSE
    BY <1>5, <2>1 DEF Resolved
  <2>3. /\ Lists' /\ Len(order) \in Nat /\ Len(order') = Len(order) + 1
        /\ order'[Len(order) + 1].file = f
        /\ \A i \in 1..Len(order) : order'[i] = order[i]
    BY <1>1, <1>3, <2>1, ListsOne DEF ListInv
  <2>4. ASSUME NEW i \in 1..Len(order') PROVE Named(i)' /\ After(i)'
    <3>1. CASE i \in 1..Len(order)
      BY <1>1, <2>3, <3>1, EntriesKept
    <3>2. CASE i \notin 1..Len(order)
      <4>1. order'[i].file = f
        BY <2>3, <3>2
      <4> QED
        BY <2>2, <4>1 DEF Named, After
    <3> QED
      BY <3>1, <3>2
  <2>5. Stacked'
    BY <1>1, <2>1 DEF Inv, Walk, Stacked, Opened
  <2> QED
    BY <1>1, <1>3, <1>4, <2>3, <2>4, <2>5 DEF ListInv
<1>6. CASE c.parses
  <2>1. UNCHANGED <<loaded, order>> /\ (UNCHANGED <<stack, visiting>> \/ err' = "none")
    BY <1>1, <1>2, <1>6 DEF Open
  <2>2. files' = files /\ \A i \in 1..Len(order) : order'[i] = order[i]
    BY <2>1 DEF Kept
  <2>3. Stacked'
    <3>1. CASE err' = "none"
      BY <3>1 DEF Inv, Walk, Stacked, Opened
    <3>2. CASE UNCHANGED <<stack, visiting>>
      BY <2>1, <3>2 DEF ListInv, Stacked, Visits
    <3> QED
      BY <2>1, <3>1, <3>2
  <2>4. Lists'
    BY <2>1, <2>2 DEF ListInv, Lists, ListType, Once
  <2>5. \A i \in 1..Len(order') : Named(i)' /\ After(i)'
    BY <1>1, <2>1, <2>2, EntriesKept
  <2> QED
    BY <1>1, <1>3, <1>4, <2>3, <2>4, <2>5 DEF ListInv
<1> QED
  BY <1>5, <1>6

(* A call that returns lists its package, after all it imports.            *)
LEMMA ReturnLists == ASSUME Inv, Inv', Kept, ListInv, Return PROVE ListInv'
<1>1. /\ Types /\ Walk /\ ~AtImport /\ Walking /\ opened' = opened /\ Len(stack) > 1
      /\ err = "none" /\ ~done /\ UNCHANGED <<files, spare, err, done>>
      /\ loaded' = loaded \cup {Top.file}
      /\ order' = Append(order, [pkg |-> TopPkg, file |-> Top.file])
  BY DEF Inv, Return, Walking
<1>2. Top.file \in files /\ Top.file \notin loaded
  BY <1>1, TopVisited DEF ListInv
<1>3. /\ Lists' /\ Len(order) \in Nat /\ Len(order') = Len(order) + 1
      /\ order'[Len(order) + 1].file = Top.file /\ order'[Len(order) + 1].pkg = TopPkg
      /\ \A i \in 1..Len(order) : order'[i] = order[i]
  <2> DEFINE x == [pkg |-> TopPkg, file |-> Top.file]
  <2>1. x.pkg = TopPkg /\ x.file = Top.file
    OBVIOUS
  <2>2. /\ Lists' /\ Len(order) \in Nat /\ Len(order') = Len(order) + 1
        /\ order'[Len(order) + 1] = x /\ \A i \in 1..Len(order) : order'[i] = order[i]
    BY <1>1, <1>2, ListsOne DEF ListInv
  <2> QED
    BY <2>1, <2>2
<1>4. ASSUME NEW i \in 1..Len(order') PROVE Named(i)' /\ After(i)'
  <2>1. CASE i \in 1..Len(order)
    BY <1>1, <1>3, <2>1, EntriesKept
  <2>2. CASE i \notin 1..Len(order)
    <3>1. order'[i].file = Top.file /\ order'[i].pkg = opened[Top.file].pkg /\ i = Len(order) + 1
      BY <1>3, <2>2 DEF TopPkg
    <3>2. Named(i)'
      BY <1>1, <3>1 DEF Named
    <3>3. ASSUME NEW k \in DOMAIN opened[Top.file].imports, Follows(opened[Top.file], RootPkg, k)
          PROVE  \E j \in 1..(i - 1) : order'[j].file = opened[Top.file].imports[k].file
      <4>1. opened[Top.file].imports[k].file \in loaded
        BY <1>1, <3>3, TopPassed
      <4>2. PICK j \in 1..Len(order) : order[j].file = opened[Top.file].imports[k].file
        BY <4>1 DEF ListInv, Lists
      <4> QED
        BY <1>3, <3>1, <4>2
    <3>4. After(i)'
      BY <1>1, <3>1, <3>3 DEF After, Kept
    <3> QED
      BY <3>2, <3>4
  <2> QED
    BY <2>1, <2>2
<1>5. Stacked'
  BY <1>1 DEF Inv, Walk, Stacked, Opened
<1> QED
  BY <1>1, <1>3, <1>4, <1>5 DEF ListInv

(* On an error too, each file that is left is listed.                      *)
LEMMA UnwindLists == ASSUME Inv, Kept, ListInv, Unwind PROVE ListInv'
<1>1. /\ Types /\ Len(stack) > 1 /\ err # "none" /\ UNCHANGED <<files, spare, err, done>>
      /\ loaded' = loaded \cup {Top.file}
      /\ order' = Append(order, [pkg |-> TopPkg, file |-> Top.file])
  BY DEF Inv, Unwind
<1>2. Top.file \in files /\ Top.file \notin loaded
  BY <1>1, TopVisited DEF ListInv
<1>3. Lists'
  BY <1>1, <1>2, ListsOne DEF ListInv
<1>4. Stacked'
  BY <1>1, UnwindStep DEF ListInv
<1>5. spare' \in 0..MaxImports /\ ~done'
  BY <1>1 DEF ListInv, Complete
<1> QED
  BY <1>1, <1>3, <1>4, <1>5 DEF ListInv

(* The program is put together when the root's imports are through.        *)
LEMMA CombineLists == ASSUME Inv, Inv', Kept, ListInv, Combine PROVE ListInv'
<1>1. /\ Types /\ Walk /\ ~AtImport /\ Walking /\ Len(stack) = 1 /\ err = "none"
      /\ UNCHANGED <<files, spare, opened, stack, visiting, loaded, order>>
  BY DEF Inv, Combine, Walking
<1>2. Stacked'
  BY <1>1 DEF ListInv, Stacked, Visits
<1>3. Lists'
  BY <1>1 DEF ListInv, Lists, ListType, Once
<1>4. \A i \in 1..Len(order') : Named(i)' /\ After(i)'
  BY <1>1, EntriesKept
<1>5. ASSUME done' PROVE Complete'
  <2>1. err' = "none" /\ ~\E i \in DOMAIN order : ~opened[order[i].file].parses
    BY <1>1, <1>5 DEF Combine, Walking
  <2>2. DOMAIN order = 1..Len(order)
    BY DEF ListInv, Lists, ListType
  <2>3. Top.file = RootFile
    BY <1>1 DEF Top, Walk, Visits
  <2>4. \A k \in DOMAIN opened[RootFile].imports : Follows(opened[RootFile], RootPkg, k) =>
            opened[RootFile].imports[k].file \in loaded
    BY <1>1, <2>3, TopPassed
  <2> QED
    BY <1>1, <2>1, <2>2, <2>4 DEF Complete, Kept
<1>6. spare' \in 0..MaxImports
  BY <1>1 DEF ListInv
<1> QED
  BY <1>2, <1>3, <1>4, <1>5, <1>6 DEF ListInv

(* A step keeps the list so.                                               *)
LEMMA ListStep == Inv /\ ListInv /\ [Next]_vars => ListInv'
<1> SUFFICES ASSUME Inv, ListInv, [Next]_vars PROVE ListInv'
  OBVIOUS
<1>1. Inv' /\ Kept
  BY InvStep, KeptStep
<1>2. CASE Skip \/ NotFound \/ \E f \in files : Cycle(f) \/ AlreadyLoaded(f)
  <2>1. /\ err = "none" /\ ~done /\ UNCHANGED <<spare, loaded, order, done>>
        /\ UNCHANGED <<stack, visiting>> \/ err' = "none"
    BY <1>2 DEF Skip, NotFound, Cycle, AlreadyLoaded, Leads, AtImport, Walking
  <2> QED
    BY <1>1, <2>1, ListKept
<1>3. ASSUME NEW f \in files, OpenNew(f) PROVE ListInv'
  BY <1>1, <1>3, OpenLists
<1>4. CASE Return
  BY <1>1, <1>4, ReturnLists
<1>5. CASE Unwind
  BY <1>1, <1>5, UnwindLists
<1>6. CASE Combine
  BY <1>1, <1>6, CombineLists
<1>7. CASE UNCHANGED vars
  <2>1. UNCHANGED <<files, spare, opened, stack, visiting, loaded, order, err, done>> /\ RootPkg' = RootPkg
    BY <1>7 DEF vars, RootPkg
  <2>2. Stacked'
    BY <2>1 DEF ListInv, Stacked, Visits
  <2>3. Lists'
    BY <2>1 DEF ListInv, Lists, ListType, Once
  <2>4. Complete' <=> Complete
    BY <2>1 DEF Complete
  <2>5. \A i : (Named(i)' <=> Named(i)) /\ (After(i)' <=> After(i))
    BY <2>1 DEF Named, After
  <2> QED
    BY <2>1, <2>2, <2>3, <2>4, <2>5 DEF ListInv
<1> QED
  BY <1>2, <1>3, <1>4, <1>5, <1>6, <1>7 DEF Next

(* The list is what it should be in every state, also after an error.      *)
THEOREM ListInvariance == Spec => []ListInv
  BY Invariance, ListInit, ListStep, PTL DEF Spec

(* Places of the list, none of which is left out, are all of it.           *)
LEMMA AllTaken ==
    ASSUME NEW E, order \in Seq(E), \A i \in DOMAIN order : FirstOfName(i)
    PROVE  Program = Append(order, [pkg |-> RootPkg, file |-> RootFile])
<1> DEFINE ids == [i \in DOMAIN order |-> i]
           S == {i \in DOMAIN order : FirstOfName(i)}
<1>1. DOMAIN order = 1..Len(order) /\ Len(order) \in Nat
  OBVIOUS
<1>2. ids \in Seq(S)
  <2>1. S = 1..Len(order)
    BY <1>1
  <2>2. ids \in [1..Len(order) -> S]
    BY <1>1, <2>1
  <2> HIDE DEF ids, S
  <2> QED
    BY <1>1, <2>2
<1>3. Taken = ids
  <2>1. Taken = Chosen(ids, S)
    BY DEF Taken
  <2> HIDE DEF ids, S
  <2> QED
    BY <1>2, <2>1, ChosenAll
<1>4. [n \in DOMAIN Taken |-> order[Taken[n]]] = order
  <2>1. [n \in DOMAIN ids |-> order[ids[n]]] = [n \in DOMAIN order |-> order[n]]
    OBVIOUS
  <2>2. order = [n \in DOMAIN order |-> order[n]]
    OBVIOUS
  <2> HIDE DEF ids
  <2> QED
    BY <1>3, <2>1, <2>2
<1> QED
  BY <1>4 DEF Program

(* Provided that packages are named as they are imported and no name is    *)
(* that of two files, each import of the files that are checked is bound   *)
(* to the file it leads to, which comes before it in the program           *)
(* (build_frontend_state_for_path), whatever files and imports there are.  *)
THEOREM EveryImportBound == Spec => []ImportsBound
<1>1. Inv /\ ListInv => ImportsBound
  <2> SUFFICES ASSUME Inv, ListInv, done, NamedAsImported, OneFileEach
               PROVE  \A i \in DOMAIN Program : \A m \in Followed(Program[i].file) :
                          \E j \in 1..i - 1 : Program[j] = [pkg |-> m.path, file |-> m.file]
    BY DEF ImportsBound
  <2>1. PICK P : order \in Seq([pkg : P, file : files])
    BY DEF ListInv, Lists, ListType
  <2> DEFINE E == [pkg : P, file : files]
             n == Len(order)
             root == [pkg |-> RootPkg, file |-> RootFile]
  <2>2. /\ order \in Seq(E) /\ n \in Nat /\ DOMAIN order = 1..n
        /\ \A i \in 1..n : order[i] = [pkg |-> order[i].pkg, file |-> order[i].file]
    <3>1. order \in Seq(E)
      BY <2>1
    <3>2. \A x \in E : x = [pkg |-> x.pkg, file |-> x.file]
      OBVIOUS
    <3> HIDE DEF E
    <3>3. n \in Nat /\ DOMAIN order = 1..n /\ \A i \in 1..n : order[i] \in E
      BY <3>1
    <3> QED
      BY <3>1, <3>2, <3>3
  <2>3. Complete /\ Opened /\ \A i \in 1..n : Named(i) /\ After(i) /\ order[i].file \in loaded
    BY DEF ListInv, Lists, Complete, Inv, Walk
  <2>4. \A i \in 1..n : order[i].pkg = opened[order[i].file].pkg /\ order[i].file \in DOMAIN opened
    BY <2>3 DEF Complete, Named, Opened
  <2> HIDE DEF E, n
  <2>5. ASSUME NEW i \in DOMAIN order PROVE FirstOfName(i)
    <3> SUFFICES ASSUME NEW j \in 1..i - 1 PROVE order[j].pkg # order[i].pkg
      BY DEF FirstOfName
    <3>1. i \in 1..n /\ j \in 1..n /\ i # j
      BY <2>2
    <3>2. order[i].file # order[j].file
      BY <3>1 DEF ListInv, Lists, Once, n
    <3> QED
      BY <2>3, <2>4, <3>1, <3>2 DEF OneFileEach
  <2>6. Program = Append(order, root)
    BY <2>2, <2>5, AllTaken
  <2>7. /\ DOMAIN Program = 1..(n + 1)
        /\ Program[n + 1].file = RootFile
        /\ \A i \in 1..n : Program[i] = order[i]
    <3>1. order \in Seq(E \cup {root}) /\ root \in E \cup {root}
      BY <2>2, Larger
    <3>2. root.file = RootFile
      OBVIOUS
    <3> HIDE DEF root
    <3> QED
      BY <2>6, <3>1, <3>2 DEF n
  <2> HIDE DEF root
  <2>8. ASSUME NEW f \in DOMAIN opened, NEW m \in Followed(f)
        PROVE  /\ opened[m.file].pkg = m.path
               /\ \E k \in DOMAIN opened[f].imports : Follows(opened[f], RootPkg, k) /\ opened[f].imports[k] = m
    BY DEF NamedAsImported, Followed, Imports, Follows
  <2>9. ASSUME NEW i \in DOMAIN Program, NEW m \in Followed(Program[i].file)
        PROVE  \E j \in 1..i - 1 : Program[j] = [pkg |-> m.path, file |-> m.file]
    <3>1. \E j \in 1..(i - 1) : j \in 1..n /\ order[j].file = m.file /\ opened[m.file].pkg = m.path
      <4>1. CASE i \in 1..n
        <5>1. Program[i].file = order[i].file /\ order[i].file \in DOMAIN opened
          BY <2>4, <2>7, <4>1
        <5>2. PICK k \in DOMAIN opened[order[i].file].imports :
                  Follows(opened[order[i].file], RootPkg, k) /\ opened[order[i].file].imports[k] = m
          BY <2>8, <5>1
        <5>3. PICK j \in 1..(i - 1) : order[j].file = m.file
          BY <2>3, <4>1, <5>2 DEF After
        <5>4. j \in 1..n
          BY <2>2, <4>1
        <5> QED
          BY <2>8, <5>1, <5>3, <5>4
      <4>2. CASE i \notin 1..n
        <5>1. i = n + 1 /\ Program[i].file = RootFile /\ RootFile \in DOMAIN opened
          BY <2>2, <2>3, <2>7, <4>2 DEF Opened
        <5>2. PICK k \in DOMAIN opened[RootFile].imports :
                  Follows(opened[RootFile], RootPkg, k) /\ opened[RootFile].imports[k] = m
          BY <2>8, <5>1
        <5>3. m.file \in loaded
          BY <2>3, <5>2 DEF Complete
        <5>4. PICK j \in 1..n : order[j].file = m.file
          BY <5>3 DEF ListInv, Lists, n
        <5> QED
          BY <2>2, <2>8, <5>1, <5>4
      <4> QED
        BY <4>1, <4>2
    <3>2. PICK j \in 1..(i - 1) : j \in 1..n /\ order[j].file = m.file /\ opened[m.file].pkg = m.path
      BY <3>1
    <3>3. Program[j] = [pkg |-> order[j].pkg, file |-> order[j].file]
      BY <2>2, <2>7, <3>2
    <3> QED
      BY <2>4, <3>2, <3>3
  <2> QED
    BY <2>9
<1> QED
  BY <1>1, Invariance, ListInvariance, PTL

(* The variables of the loader have their types; visiting are the files on *)
(* the stack, and what is done with is in the list, each file once.        *)
THEOREM LoaderTypes == Spec => []TypeOK
<1>1. Inv /\ ListInv => TypeOK
  <2> SUFFICES ASSUME Inv, ListInv PROVE TypeOK
    OBVIOUS
  <2>1. files \in Existing /\ DOMAIN opened \subseteq files \cup {RootFile} /\ spare \in 0..MaxImports
    BY DEF Inv, Types, ListInv
  <2>2. visiting = {stack[i].file : i \in 2..Len(stack)}
    <3>1. Len(stack) \in Nat
      BY DEF Inv, Types
    <3>2. \A i \in 2..Len(stack) : i \in 1..Len(stack) /\ i > 1
      BY <3>1
    <3>3. \A i \in 1..Len(stack) : i > 1 => i \in 2..Len(stack)
      BY <3>1
    <3> QED
      BY <3>2, <3>3 DEF ListInv, Stacked, Visits
  <2>3. loaded = {order[i].file : i \in DOMAIN order}
    <3>1. DOMAIN order = 1..Len(order)
      BY DEF ListInv, Lists, ListType
    <3> QED
      BY <3>1 DEF ListInv, Lists
  <2> QED
    BY <2>1, <2>2, <2>3 DEF TypeOK, ListInv, Stacked, Lists
<1> QED
  BY <1>1, Invariance, ListInvariance, PTL
=============================================================================
