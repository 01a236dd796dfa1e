----------------------------- MODULE BuildPlan ------------------------------
(***************************************************************************)
(* build.mesa: src/buildsys.py and the project commands of src/mesa.py.    *)
(* The file is a sequence of build API calls, written by hand one call at  *)
(* a time, by mesa init, or by mesa pkg add, which loads the file into a   *)
(* plan, changes the plan and writes the plan back.  mesa build loads the  *)
(* file and collects what its default target needs.                        *)
(***************************************************************************)
EXTENDS Integers, Sequences, SequencesExt, TLC, Selection

CONSTANTS
    Specs,          \* the packages [root, name] a user may declare or add
    Labels,         \* the names a user gives to executables
    Foreign,        \* the name of a foreign library
    Seed,           \* [Labels |-> identifiers]: a label made an identifier
    Reserved,       \* the names of the standard library's packages
    Keywords,       \* the words the parser takes for no binding
    MaxCalls,       \* bound of a file that calls are added to by hand
    MaxCommands     \* bound of the commands run

VARIABLES
    file,           \* build.mesa: its calls, or Missing
    read,           \* what the loader makes of these calls
    dirs,           \* the package directories that exist
    commands,       \* how many commands ran
    said            \* what the last command answered

vars == <<file, read, dirs, commands, said>>

Missing == <<[call |-> "missing"]>>
Std == [root |-> "@std", name |-> "std"]
NoName == ""

-----------------------------------------------------------------------------
(* A call: the binding of its let, the receiver, and the arguments.        *)

\* f, and g of what f says nothing about.
Over(f, g) == [x \in DOMAIN f \cup DOMAIN g |-> IF x \in DOMAIN f THEN f[x] ELSE g[x]]

NoArgs(method) == [call |-> method, bind |-> "_", on |-> "b", name |-> NoName, root |-> NoName,
                   package |-> NoName, abi |-> NoName, imports |-> <<>>, of |-> NoName]
Call(method, args) == Over(args, NoArgs(method))

-----------------------------------------------------------------------------
(* interpret_build_program: the calls are evaluated in order, each against *)
(* the bindings made so far.                                               *)

EmptyPlan == [packages |-> <<>>, foreign |-> <<>>, libraries |-> <<>>,
              executables |-> <<>>, default |-> 0]
Target(name, package, items) ==
    [name |-> name, package |-> package, imports |-> items.package,
     libraries |-> items.library, foreign |-> items.foreign]

Handle(kind, index) == [kind |-> kind, index |-> index]

Start == [env |-> [x \in {"b"} |-> Handle("build", 0)], plan |-> EmptyPlan, ok |-> TRUE]
Fail(s) == [s EXCEPT !.ok = FALSE]

AddNew(seq, e) == IF Contains(seq, e) THEN seq ELSE Append(seq, e)
AddAll(seq, items) ==
    LET added[n \in 0..Len(items)] == IF n = 0 THEN seq ELSE AddNew(added[n - 1], items[n])
    IN added[Len(items)]

\* The handles named in an imports argument, by kind and without duplicates.
ImportHandles(env, names) ==
    LET of(kind) == LET chosen == Chosen(names, {x \in DOMAIN env : env[x].kind = kind})
                    IN AddAll(<<>>, [i \in DOMAIN chosen |-> env[chosen[i]].index])
    IN [package |-> of("package"), library |-> of("library"), foreign |-> of("foreign")]

Importable(env, names) ==
    \A i \in DOMAIN names : /\ names[i] \in DOMAIN env
                            /\ env[names[i]].kind \in {"package", "library", "foreign"}

Bind(s, c, handle) == [s EXCEPT !.env = Over([x \in {c.bind} |-> handle], @)]

BuildCall(s, c) ==
    LET p == s.plan
        pkg == [root |-> c.root, name |-> c.name]
        libPkg == [root |-> c.root, name |-> IF c.package = NoName THEN c.name ELSE c.package]
        items == ImportHandles(s.env, c.imports)
    IN CASE c.call = "createPackage" ->
              Bind([s EXCEPT !.plan.packages = Append(@, pkg)], c,
                   Handle("package", Len(p.packages) + 1))
         [] c.call = "addPackage" /\ c.name \notin Reserved ->
              Bind([s EXCEPT !.plan.packages = Append(@, pkg)], c,
                   Handle("package", Len(p.packages) + 1))
         [] c.call = "linkLibrary" /\ c.abi # "ident" ->
              Bind([s EXCEPT !.plan.foreign = Append(@, [name |-> c.name, abi |-> c.abi])], c,
                   Handle("foreign", Len(p.foreign) + 1))
         [] /\ c.call = "addLibrary" /\ {c.name, libPkg.name} \cap Reserved = {}
            /\ Importable(s.env, c.imports) ->
              Bind([s EXCEPT !.plan.packages = Append(@, libPkg),
                             !.plan.libraries =
                                Append(@, Target(c.name, Len(p.packages) + 1, items))], c,
                   Handle("library", Len(p.libraries) + 1))
         [] c.call = "createEntry" -> Bind(s, c, Handle("entry", 0))
         [] c.call = "addExecutable" /\ Importable(s.env, c.imports) ->
              Bind([s EXCEPT !.plan.executables = Append(@, Target(c.name, 0, items))], c,
                   Handle("executable", Len(p.executables) + 1))
         [] c.call = "install" /\ c.of \in DOMAIN s.env /\ s.env[c.of].kind = "executable" ->
              [s EXCEPT !.plan.default = s.env[c.of].index]
         [] OTHER -> Fail(s)

\* exe.addPackage, exe.addLibrary and exe.linkLibrary
AttachCall(s, c) ==
    LET e == s.env[c.on].index
        h == s.env[c.of]
    IN CASE c.call = "addPackage" /\ h.kind = "package" ->
              [s EXCEPT !.plan.executables[e].imports = AddNew(@, h.index)]
         [] c.call = "addLibrary" /\ h.kind = "library" ->
              [s EXCEPT !.plan.executables[e].libraries = AddNew(@, h.index)]
         [] c.call = "linkLibrary" /\ h.kind = "foreign" ->
              [s EXCEPT !.plan.executables[e].foreign = AddNew(@, h.index)]
         [] OTHER -> Fail(s)

EvalCall(s, c) ==
    IF ~s.ok \/ c.bind \in Keywords \/ c.on \notin DOMAIN s.env THEN Fail(s)
    ELSE CASE s.env[c.on].kind = "build" -> BuildCall(s, c)
           [] s.env[c.on].kind = "executable" /\ c.of \in DOMAIN s.env -> AttachCall(s, c)
           [] OTHER -> Fail(s)

TargetNames(p) == [i \in DOMAIN (p.libraries \o p.executables) |->
                      (p.libraries \o p.executables)[i].name]

Accepted(s) ==
    /\ s.ok
    /\ IsInjective(TargetNames(s.plan))
    /\ s.plan.executables # <<>>
    /\ s.plan.default # 0

Evaluated(script) ==
    LET after[n \in 0..Len(script)] == IF n = 0 THEN Start ELSE EvalCall(after[n - 1], script[n])
    IN after[Len(script)]

-----------------------------------------------------------------------------
(* _collect_target_dependencies: the indices of the packages and foreign   *)
(* libraries of a target, depth first through its library targets.         *)

\* What is found of a target: among the library targets, those being visited and those
\* that have been, and whether one met itself.
Found == [packages : Seq(Nat), foreign : Seq(Nat), visiting : SUBSET Nat, visited : SUBSET Nat,
          cycle : BOOLEAN]

\* The library targets of a target, in order, each added by add.
AddLibraryTargets(add, found, items) ==
    LET after[n \in 0..Len(items)] ==
            IF n = 0 THEN found ELSE add[items[n]][after[n - 1]]
    IN after[Len(items)]

\* Mutant: a library target stays among those being visited.
AddLibraryTargetStuck(p, add, found, i) ==
    IF i \in found.visiting THEN [found EXCEPT !.cycle = TRUE]
    ELSE LET lib == p.libraries[i]
             own == [found EXCEPT !.visiting = @ \cup {i},
                                  !.packages = AddAll(AddNew(@, lib.package), lib.imports)]
             deep == AddLibraryTargets(add, own, lib.libraries)
         IN [deep EXCEPT !.foreign = AddAll(@, lib.foreign)]

\* add[j] is add_library_target for the targets j of target i.
AddLibraryTarget(p, add, found, i) ==
    IF i \in found.visiting THEN [found EXCEPT !.cycle = TRUE]
    ELSE IF i \in found.visited THEN found
    ELSE LET lib == p.libraries[i]
             own == [found EXCEPT !.visiting = @ \cup {i},
                                  !.packages = AddAll(AddNew(@, lib.package), lib.imports)]
             deep == AddLibraryTargets(add, own, lib.libraries)
         IN [deep EXCEPT !.foreign = AddAll(@, lib.foreign),
                         !.visiting = @ \ {i}, !.visited = @ \cup {i}]

\* The same by n, the number of targets that are not being visited: with none
\* left, i is being visited.
LibraryTargets(p) ==
    LET all == DOMAIN p.libraries
        add[n \in 0..Len(p.libraries)] ==
            [i \in all |-> [found \in Found |->
                IF n = 0 THEN [found EXCEPT !.cycle = TRUE]
                ELSE AddLibraryTarget(p, add[n - 1], found, i)]]
    IN add[Len(p.libraries)]

TargetDependencies(p, target) ==
    LET first == [packages |-> target.imports, foreign |-> <<>>,
                  visiting |-> {}, visited |-> {}, cycle |-> FALSE]
        deep == AddLibraryTargets(LibraryTargets(p), first, target.libraries)
    IN [deep EXCEPT !.foreign = AddAll(@, target.foreign)]

\* The package roots and foreign namespaces given to the frontend; a root
\* given twice is searched once (augment_package_roots_with_std).
Inputs(p) ==
    LET d == TargetDependencies(p, p.executables[p.default]) IN
    [roots |-> AddAll(<<>>, [i \in DOMAIN d.packages |-> p.packages[d.packages[i]]]),
     foreign |-> AddAll(<<>>, [i \in DOMAIN d.foreign |-> p.foreign[d.foreign[i]].name]),
     cycle |-> d.cycle]

-----------------------------------------------------------------------------
(* render_build_plan.                                                      *)

SeedOf(label) == IF label \in DOMAIN Seed THEN Seed[label] ELSE label

\* Mutant: names that are already used are not avoided.
SuggestBase(label, used) == SeedOf(label)

\* suggest_binding_name: base, or the first base_i that is not used.
Suggest(label, used) ==
    LET base == SeedOf(label)
        name(i) == IF i = 1 THEN base ELSE base \o "_" \o ToString(i)
    IN name(CHOOSE i \in 1..Len(used) + 1 :
              /\ ~Contains(used, name(i))
              /\ \A j \in 1..i - 1 : Contains(used, name(j)))

\* used is every binding so far, in order: "b", the packages' (from 2 on), the
\* foreign libraries', the library targets', and then two for each executable.
Names(used, labels) == FoldLeft(LAMBDA u, l : Append(u, Suggest(l, u)), used, labels)
NamesOf(items) == [i \in DOMAIN items |-> items[i].name]
PackageLabels(p) == [i \in DOMAIN p.packages |->
    IF p.packages[i].name = NoName THEN p.packages[i].root ELSE p.packages[i].name]

\* The bindings of a plan that is written, by kind and index.
Bindings(p) ==
    LET np == Len(p.packages)  nf == Len(p.foreign)  nl == Len(p.libraries)
        used == Names(<<"b">>, PackageLabels(p) \o NamesOf(p.foreign) \o NamesOf(p.libraries))
        \* an executable's binding is chosen before that of its entry
        all == FoldLeft(LAMBDA u, l : LET v == Append(u, Suggest(l, u)) IN
                                      Append(v, Suggest(Last(v) \o "_entry", v)),
                        used, NamesOf(p.executables))
    IN [package |-> SubSeq(used, 2, np + 1),
        foreign |-> SubSeq(used, np + 2, np + nf + 1),
        library |-> SubSeq(used, np + nf + 2, np + nf + nl + 1),
        executable |-> [i \in DOMAIN p.executables |-> all[np + nf + nl + 2 * i]],
        entry |-> [i \in DOMAIN p.executables |-> all[np + nf + nl + 2 * i + 1]]]

ImportNames(t, bound) ==
    [i \in DOMAIN t.imports |-> bound.package[t.imports[i]]]
    \o [i \in DOMAIN t.libraries |-> bound.library[t.libraries[i]]]
    \o [i \in DOMAIN t.foreign |-> bound.foreign[t.foreign[i]]]

PackageCall(p, bound, i) ==
    Call(IF p.packages[i].name = NoName THEN "createPackage" ELSE "addPackage",
         [bind |-> bound.package[i], root |-> p.packages[i].root, name |-> p.packages[i].name])
\* An abi given as a string is written without its quotes.
ForeignCall(p, bound, i) ==
    Call("linkLibrary", [bind |-> bound.foreign[i], name |-> p.foreign[i].name,
                         abi |-> IF p.foreign[i].abi = "string" THEN "ident" ELSE p.foreign[i].abi])
LibraryCall(p, bound, i) ==
    LET lib == p.libraries[i]  pkg == p.packages[lib.package] IN
    Call("addLibrary", [bind |-> bound.library[i], name |-> lib.name, root |-> pkg.root,
                        package |-> IF pkg.name = lib.name THEN NoName ELSE pkg.name,
                        imports |-> ImportNames(lib, bound)])
ExecutableCalls(p, bound, i) ==
    <<Call("createEntry", [bind |-> bound.entry[i]]),
      Call("addExecutable", [bind |-> bound.executable[i], name |-> p.executables[i].name,
                             imports |-> ImportNames(p.executables[i], bound)])>>
InstallCalls(p, bound) ==
    IF p.default = 0 THEN <<>> ELSE <<Call("install", [of |-> bound.executable[p.default]])>>

Render(p) ==
    LET bound == Bindings(p) IN
    [i \in DOMAIN p.packages |-> PackageCall(p, bound, i)]
    \o [i \in DOMAIN p.foreign |-> ForeignCall(p, bound, i)]
    \o [i \in DOMAIN p.libraries |-> LibraryCall(p, bound, i)]
    \o FlattenSeq([i \in DOMAIN p.executables |-> ExecutableCalls(p, bound, i)])
    \o InstallCalls(p, bound)

-----------------------------------------------------------------------------
(* The commands.                                                           *)

Plan == read.plan
Loads == file # Missing /\ Accepted(read)
Holds(script) == file' = script /\ read' = Evaluated(script)

DefaultPlan(name) ==
    [EmptyPlan EXCEPT !.packages = <<Std>>, !.default = 1,
                      !.executables = <<[name |-> name, package |-> 0, imports |-> <<1>>,
                                         libraries |-> <<>>, foreign |-> <<>>]>>]

\* Mutant: the new package gets the index before its own.
WithPackageBefore(p, spec) ==
    [p EXCEPT !.packages = Append(@, spec),
              !.executables[p.default].imports = AddNew(@, Len(p.packages))]

\* ensure_package_in_plan, for a package that the plan does not have.
WithPackage(p, spec) ==
    [p EXCEPT !.packages = Append(@, spec),
              !.executables[p.default].imports = AddNew(@, Len(p.packages) + 1)]

Init ==
    /\ file = Missing /\ read = Start
    /\ dirs = {Std.root}
    /\ commands = 0
    /\ said = [cmd |-> "none"]

Answer(answer) ==
    /\ commands < MaxCommands
    /\ commands' = commands + 1
    /\ said' = answer

\* mesa init, in a directory of that name
MesaInit(name) ==
    /\ file = Missing
    /\ Holds(Render(DefaultPlan(name)))
    /\ Answer([cmd |-> "init"])
    /\ UNCHANGED dirs

\* mesa pkg add source --name name
PkgAdd(spec) ==
    /\ file # Missing /\ spec.name # NoName
    /\ IF Loads
       THEN LET new == ~Contains(Plan.packages, spec) IN
            /\ dirs' = dirs \cup {spec.root}
            /\ IF new THEN Holds(Render(WithPackage(Plan, spec))) ELSE UNCHANGED <<file, read>>
            /\ Answer([cmd |-> "added", spec |-> spec, new |-> new, before |-> Inputs(Plan)])
       ELSE /\ Answer([cmd |-> "invalid"])
            /\ UNCHANGED <<file, read, dirs>>

\* mesa build, up to the call of the frontend
Build ==
    /\ file # Missing
    /\ CASE ~Loads -> Answer([cmd |-> "invalid"])
         [] Loads /\ Inputs(Plan).cycle -> Answer([cmd |-> "cycle"])
         [] OTHER -> Answer(IF \A i \in DOMAIN Inputs(Plan).roots : Inputs(Plan).roots[i].root \in dirs
                            THEN [cmd |-> "built"] ELSE [cmd |-> "no root"])
    /\ UNCHANGED <<file, read, dirs>>

\* The user writes one more call, after calls that are all accepted and before
\* the first pkg add or build; a binding is named by its position.
Calls == IF file = Missing THEN <<>> ELSE file
BoundTo(kinds) == {x \in DOMAIN read.env : read.env[x].kind \in kinds}
SmallImports ==
    {<<>>} \cup {<<x>> : x \in BoundTo({"package", "library", "foreign", "entry"})}
    \cup {<<x, y>> : x \in BoundTo({"library"}), y \in BoundTo({"package", "library", "foreign"})}

Write(call) ==
    /\ Len(Calls) < MaxCalls /\ said.cmd \in {"none", "init"}
    /\ read.ok
    /\ file' = Append(Calls, call)
    /\ read' = EvalCall(read, call)
    /\ said' = [cmd |-> "none"]
    /\ UNCHANGED <<dirs, commands>>

NewBinding == "v" \o ToString(Len(Calls))
WritePackage == \E spec \in Specs :
    Write(Call(IF spec.name = NoName THEN "createPackage" ELSE "addPackage",
               [bind |-> NewBinding, root |-> spec.root, name |-> spec.name]))
WriteForeign == \E abi \in {NoName, "variant", "string"} :
    Write(Call("linkLibrary", [bind |-> NewBinding, name |-> Foreign, abi |-> abi]))
WriteLibrary == \E spec \in Specs, names \in SmallImports :
    Write(Call("addLibrary", [bind |-> NewBinding, name |-> spec.name, root |-> spec.root,
                              imports |-> names]))
WriteExecutable == \E l \in Labels, names \in SmallImports :
    Write(Call("addExecutable", [bind |-> NewBinding, name |-> l, imports |-> names]))
WriteInstall == \E x \in BoundTo({"package", "executable"}) : Write(Call("install", [of |-> x]))
WriteAttach == \E exe \in BoundTo({"executable"}), x \in DOMAIN read.env \ {"b"},
                  method \in {"addPackage", "addLibrary", "linkLibrary"} :
    Write(Call(method, [on |-> exe, of |-> x]))

Next ==
    \/ WritePackage \/ WriteForeign \/ WriteLibrary \/ WriteExecutable
    \/ WriteInstall \/ WriteAttach
    \/ \E l \in Labels : MesaInit(l)
    \/ \E spec \in Specs : PkgAdd(spec)
    \/ Build

Spec == Init /\ [][Next]_vars

-----------------------------------------------------------------------------
(* Properties.                                                             *)

\* Every handle refers to an entry of the plan.
TypeOK ==
    /\ file = Missing \/ \A i \in DOMAIN file : file[i] = Call(file[i].call, file[i])
    /\ \A x \in DOMAIN read.env : LET h == read.env[x] IN
          /\ h.kind = "package" => h.index \in DOMAIN Plan.packages
          /\ h.kind = "foreign" => h.index \in DOMAIN Plan.foreign
          /\ h.kind = "library" => h.index \in DOMAIN Plan.libraries
          /\ h.kind = "executable" => h.index \in DOMAIN Plan.executables
    /\ dirs \subseteq {Std.root} \cup {s.root : s \in Specs}
    /\ commands \in 0..MaxCommands
    /\ said.cmd \in {"none", "init", "added", "invalid", "built", "no root"}

\* What a plan that loads refers to exists and was declared before it, so the
\* cycle that the collection of a target's dependencies looks for cannot occur.
DeclaredBefore ==
    Loads =>
        /\ \A i \in DOMAIN Plan.libraries : LET lib == Plan.libraries[i] IN
              /\ \A j \in ToSet(lib.imports) : j < lib.package
              /\ \A j \in ToSet(lib.libraries) : j < i
        /\ ~Inputs(Plan).cycle

\* A plan written back and loaded again builds its default target from the
\* same package roots, searched in the same order, and the same foreign
\* libraries, unless it names a package that the loader refuses, gives an abi as
\* a string or makes a binding of a keyword.
Renderable(p) ==
    LET r == Render(p) IN
    /\ \A i \in DOMAIN p.packages : p.packages[i].name \notin Reserved
    /\ \A i \in DOMAIN p.foreign : p.foreign[i].abi # "string"
    /\ \A i \in DOMAIN r : r[i].bind \notin Keywords
WrittenBackTheSame ==
    Loads /\ Renderable(Plan) =>
        LET again == Evaluated(Render(Plan)) IN
        Accepted(again) /\ Inputs(again.plan) = Inputs(Plan)

\* A package that mesa pkg add has just added is among the roots its default
\* target is built from, which
\* lose none of those that were there before; the foreign libraries stay.
AddedToRoots ==
    said.cmd = "added" /\ said.new /\ Loads =>
        LET roots == Inputs(Plan).roots IN
        /\ Contains(roots, said.spec)
        /\ \A r \in ToSet(said.before.roots) : Contains(roots, r)
        /\ Inputs(Plan).foreign = said.before.foreign

\* mesa pkg add "attaches the new package root to the default executable"
\* (design/build.md): the next build loads the plan and searches that root.
Attached == said.cmd = "added" => Loads /\ Contains(Inputs(Plan).roots, said.spec)
=============================================================================
