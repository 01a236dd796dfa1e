--------------------------- MODULE PackageLoader ----------------------------
(***************************************************************************)
(* _load_package_graph and build_frontend_state_for_path: the depth-first  *)
(* walk over the imports of a program, the order in which the packages are *)
(* listed, and the program that is made of them for the type checker.      *)
(*                                                                         *)
(* Which files exist is chosen first, what a file says when it is opened;  *)
(* an import is kept as its canonical path and the file it leads to.  No   *)
(* import leads to the root file itself.                                   *)
(***************************************************************************)
EXTENDS PackagePaths, Selection, FiniteSets

CONSTANTS
    Existing,       \* the possible sets of files
    RootFile,       \* the file that is compiled
    RootDeclares,   \* the names its package may have, <<>> if it has none
    ImportLists,    \* the sequences of paths a file may import
    Foreign,        \* the paths that are foreign libraries
    Contents(_),    \* [declares, parses, error] a file may turn out to have
    MaxImports      \* bound of the imports in all files together

ASSUME FilesAssumption == \A e \in Existing : RootFile \notin e /\ NoFile \notin e
ASSUME ContentsAssumption == \A e \in Existing : \A f \in e : \A c \in Contents(f) : c.error # "cycle"
ASSUME ImportsAssumption == \A l \in ImportLists : Len(l) \in Nat /\ DOMAIN l = 1..Len(l)
ASSUME BoundAssumption == MaxImports \in Nat /\ \A l \in ImportLists : Len(l) <= MaxImports

VARIABLES
    files,          \* the files there are
    spare,          \* the imports still allowed by MaxImports
    opened,         \* for each file opened, what it says
    stack,          \* the calls of visit, each with the file and its next import
    visiting,       \* the files being visited
    loaded,         \* the files done with
    order,          \* the packages in the order they were listed
    err,            \* the error found, "none" if none
    done            \* whether the program is put together

vars == <<files, spare, opened, stack, visiting, loaded, order, err, done>>

Top == stack[Len(stack)]
TopPkg == opened[Top.file].pkg
RootPkg == opened[RootFile].pkg
Walking == ~done /\ err = "none"
AtImport == Walking /\ Top.next \in DOMAIN opened[Top.file].imports
Import == opened[Top.file].imports[Top.next]

\* The imports of a file of the package pkg, as visit finds them.
Resolved(f, pkg, list) ==
    [i \in DOMAIN list |-> LET p == Canonical(list[i], pkg) IN
        [path |-> p, file |-> Resolve(files, p, f.dir)]]

-----------------------------------------------------------------------------

\* The root is parsed, its package identified and its own files gathered.
RootName(declared) == IF declared = <<>> THEN <<>> ELSE Identity(RootFile, declared)

Init ==
    /\ files \in Existing
    /\ \E declared \in RootDeclares, list \in ImportLists :
          /\ opened = [f \in {RootFile} |->
                         [parses |-> TRUE, pkg |-> RootName(declared),
                          imports |-> Resolved(f, RootName(declared), list)]]
          /\ spare = MaxImports - Len(list)
    /\ stack = <<[file |-> RootFile, next |-> 1]>>
    /\ visiting = {} /\ loaded = {}
    /\ order = <<>>
    /\ err = IF ReservedPath(RootPkg) THEN "reserved" ELSE "none"
    /\ done = FALSE

NextImport == [stack EXCEPT ![Len(stack)].next = @ + 1]

\* Imports of foreign libraries, of the root's package and of one's own.
Skipped(path, pkg, root) ==
    path \in Foreign \/ (path = root /\ root # <<>>) \/ (path = pkg /\ pkg # <<>>)

Skip ==
    /\ AtImport /\ Skipped(Import.path, TopPkg, RootPkg)
    /\ stack' = NextImport
    /\ UNCHANGED <<files, spare, opened, visiting, loaded, order, err, done>>

\* The next import leads to the file f.
Leads(f) == AtImport /\ f = Import.file /\ ~Skipped(Import.path, TopPkg, RootPkg)

NotFound ==
    /\ Leads(NoFile)
    /\ err' = "not found"
    /\ UNCHANGED <<files, spare, opened, stack, visiting, loaded, order, done>>

\* Mutant: a file that was already loaded counts as being visited.
CyclicEver(f) == f \in visiting \cup loaded

Cyclic(f) == f \in visiting

Cycle(f) ==
    /\ Leads(f) /\ f # NoFile /\ Cyclic(f)
    /\ err' = "cycle"
    /\ UNCHANGED <<files, spare, opened, stack, visiting, loaded, order, done>>

\* Mutant: no file counts as loaded.
AlreadyNever(f) == FALSE

Already(f) == f \in loaded

AlreadyLoaded(f) ==
    /\ Leads(f) /\ ~Cyclic(f) /\ Already(f)
    /\ stack' = NextImport
    /\ UNCHANGED <<files, spare, opened, visiting, loaded, order, err, done>>

\* A facade need not name its package: it then has the name it is imported by.
PkgOf(f, c, path) == IF c.declares = <<>> THEN path ELSE Identity(f, c.declares)

OpenError(f, c) ==
    CASE c.declares = <<>> /\ f.ext = "mesa" -> "no package"
      [] c.declares # <<>> /\ ReservedPath(Identity(f, c.declares)) -> "reserved"
      [] OTHER -> c.error

\* A file is opened for the first time: it does not parse, it cannot be
\* imported, or its own imports are visited.
Open(f, c, list) ==
    LET pkg == PkgOf(f, c, Import.path) IN
    /\ list # <<>> => c.parses /\ Len(list) <= spare
    /\ spare' = spare - Len(list)
    /\ opened' = [g \in DOMAIN opened \cup {f} |->
                     IF g = f THEN [parses |-> c.parses, pkg |-> pkg, imports |-> Resolved(f, pkg, list)]
                     ELSE opened[g]]
    /\ CASE ~c.parses ->
              /\ loaded' = loaded \cup {f}
              /\ order' = Append(order, [pkg |-> Import.path, file |-> f])
              /\ stack' = NextImport
              /\ UNCHANGED <<visiting, err>>
         [] c.parses /\ OpenError(f, c) # "none" ->
              /\ err' = OpenError(f, c)
              /\ UNCHANGED <<loaded, order, stack, visiting>>
         [] OTHER ->
              /\ visiting' = visiting \cup {f}
              /\ stack' = Append(stack, [file |-> f, next |-> 1])
              /\ UNCHANGED <<loaded, order, err>>
    /\ UNCHANGED <<files, done>>

OpenNew(f) ==
    /\ Leads(f) /\ f # NoFile /\ ~Cyclic(f) /\ ~Already(f)
    /\ \E c \in Contents(f), list \in ImportLists : Open(f, c, list)

\* A package is listed after those it imports.
Return ==
    /\ Walking /\ ~AtImport /\ Len(stack) > 1
    /\ loaded' = loaded \cup {Top.file}
    /\ visiting' = visiting \ {Top.file}
    /\ order' = Append(order, [pkg |-> TopPkg, file |-> Top.file])
    /\ stack' = [Front(stack) EXCEPT ![Len(stack) - 1].next = @ + 1]
    /\ UNCHANGED <<files, spare, opened, err, done>>

\* On an error the calls return at once, each listing its package on the way.
Unwind ==
    /\ err # "none" /\ Len(stack) > 1
    /\ loaded' = loaded \cup {Top.file}
    /\ visiting' = visiting \ {Top.file}
    /\ order' = Append(order, [pkg |-> TopPkg, file |-> Top.file])
    /\ stack' = Front(stack)
    /\ UNCHANGED <<files, spare, opened, err, done>>

\* Mutant: packages are told apart by the last name of their path.
FirstOfNameTail(i) == \A j \in 1..i - 1 : Last(order[j].pkg) # Last(order[i].pkg)

\* Of the files of one package name only the first is taken.
FirstOfName(i) == \A j \in 1..i - 1 : order[j].pkg # order[i].pkg

\* The packages that are taken, each by its place; the root's declarations
\* come last.
Taken == Chosen([i \in DOMAIN order |-> i], {i \in DOMAIN order : FirstOfName(i)})
Program == Append([n \in DOMAIN Taken |-> order[Taken[n]]], [pkg |-> RootPkg, file |-> RootFile])

\* build_frontend_state_for_path: the first package that did not parse is
\* reported; else the declarations are put together to be checked.
Combine ==
    /\ Walking /\ ~AtImport /\ Len(stack) = 1
    /\ IF \E i \in DOMAIN order : ~opened[order[i].file].parses
       THEN err' = "unparsed" /\ UNCHANGED done
       ELSE done' = TRUE /\ UNCHANGED err
    /\ UNCHANGED <<files, spare, opened, stack, visiting, loaded, order>>

Next ==
    \/ Skip \/ NotFound \/ Return \/ Unwind \/ Combine
    \/ \E f \in files : Cycle(f) \/ AlreadyLoaded(f) \/ OpenNew(f)

Spec == Init /\ [][Next]_vars

-----------------------------------------------------------------------------
(* Properties.                                                             *)

TypeOK ==
    /\ files \in Existing
    /\ DOMAIN opened \subseteq files \cup {RootFile}
    /\ spare \in 0..MaxImports
    /\ visiting = {stack[i].file : i \in 2..Len(stack)}
    /\ loaded \cap visiting = {}
    /\ loaded = {order[i].file : i \in DOMAIN order} /\ Cardinality(loaded) = Len(order)

\* The imports of an opened file that lead to a file.
LeadsTo(c, root) ==
    {c.imports[i].file : i \in {j \in DOMAIN c.imports : ~Skipped(c.imports[j].path, c.pkg, root)}}
    \ {NoFile}

\* What is to be seen of the walk: which files import which, which are listed
\* (none once there is an error), how it ended.
Graph == [f \in DOMAIN opened |-> LeadsTo(opened[f], RootPkg)]
Listed == IF err # "none" THEN {} ELSE IF done THEN loaded \cup {RootFile} ELSE loaded
Result == IF err = "cycle" THEN "cycle" ELSE IF err # "none" THEN "error"
          ELSE IF done THEN "loaded" ELSE "loading"
Listing == INSTANCE ImportOrder WITH imports <- Graph, listed <- Listed, result <- Result

\* The walk reads, lists and stops as the abstract loader does: each package
\* after those it imports, all of them, and a cycle only when there is one.
ImplementsImportOrder == Listing!ASpec

\* Every import of a file whose declarations are checked is bound to the file
\* it leads to, and that file's declarations come first, provided that the
\* packages are named as they are imported and no name is that of two files.
Imports(f) == {opened[f].imports[i] : i \in DOMAIN opened[f].imports}
Followed(f) == {m \in Imports(f) : ~Skipped(m.path, opened[f].pkg, RootPkg)}
NamedAsImported == \A f \in DOMAIN opened : \A m \in Followed(f) : opened[m.file].pkg = m.path
OneFileEach == \A f, g \in loaded : opened[f].pkg = opened[g].pkg => f = g
ImportsBound ==
    done /\ NamedAsImported /\ OneFileEach =>
        LET program == Program IN
        \A i \in DOMAIN program : \A m \in Followed(program[i].file) :
            \E j \in 1..i - 1 : program[j] = [pkg |-> m.path, file |-> m.file]

\* "detects import cycles" (design/compiler_pipeline_walkthrough.md): packages
\* that are checked together do not import each other in a circle.
ImportedBy(f) ==
    LeadsTo(opened[f], RootPkg) \cup {r \in {RootFile} : RootPkg # <<>> /\ f # r /\ \E m \in Imports(f) : m.path = RootPkg}
CyclesDetected ==
    done => ~Listing!Circular([f \in DOMAIN opened |-> ImportedBy(f)])
=============================================================================
