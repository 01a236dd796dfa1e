----------------------------- MODULE MCProject ------------------------------
(***************************************************************************)
(* A project at one of two steps: its build file is written, read and      *)
(* rewritten by mesa init, pkg add and build (BuildPlan), or the loader    *)
(* walks the packages a root file imports (PackageLoader, whose variables  *)
(* and constants keep their names here).                                   *)
(***************************************************************************)
EXTENDS MCPackages

CONSTANTS Specs, Labels, ForeignName, Seed, Reserved, Keywords, MaxCalls, MaxCommands

ASSUME CommandsAssumption == MaxCommands \in Nat

VARIABLES file, read, dirs, commands, said,
          step

build == <<file, read, dirs, commands, said>>

B == INSTANCE BuildPlan WITH Foreign <- ForeignName

\* The packages and labels (values of the constants of this name): a-b and a_b
\* become the same identifier; test is a keyword, and no name is given for it;
\* io is reserved.
BuildSpecs == {[root |-> "src/a", name |-> "a-b"], [root |-> "src/a", name |-> "io"],
               [root |-> "src/test", name |-> ""]}
BuildLabels == {"a_b", "app"}
BuildSeed == [l \in {"a-b", "src/a", "src/test"} |->
                 CASE l = "a-b" -> "a_b" [] l = "src/a" -> "a" [] OTHER -> "test"]

ProjectInit ==
    /\ B!Init /\ Init
    /\ step \in {"build", "load"}
    /\ step = "build" =>
          /\ files = CHOOSE e \in Existing : TRUE
          /\ spare = MaxImports /\ RootPkg = <<>>

ProjectNext ==
    \/ step = "build" /\ B!Next /\ UNCHANGED <<vars, step>>
    \/ step = "load" /\ Next /\ UNCHANGED <<build, step>>

ProjectSpec == ProjectInit /\ [][ProjectNext]_<<vars, build, step>>

-----------------------------------------------------------------------------
\* The variables of both have their types: each handle of the build program
\* stands for an entry of the plan; visiting are the files on the stack and
\* loaded those listed, each once.
ProjectTypeOK == TypeOK /\ B!TypeOK

\* What a build plan that loads refers to was declared before it, so the cycle
\* that the collection of a target's dependencies looks for cannot occur
\* (interpret_build_program, _collect_target_deps).
DeclaredBefore == B!DeclaredBefore

\* A build file the compiler has rewritten reads back as the plan it was
\* rendered from (render_build_plan, load_build_plan).
WrittenBackTheSame == B!WrittenBackTheSame

\* mesa pkg add makes the package one of the roots where the build looks for
\* packages (_handle_pkg_command, package_roots).
AddedToRoots == B!AddedToRoots
=============================================================================
