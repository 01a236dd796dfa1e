----------------------------- MODULE MCPackages ------------------------------
EXTENDS PackageLoader

\* The program app in M, over the package root lib in L: the facades lib and
\* lib.sub, and a file util beside each of the three.
MCRoots == <<[source |-> <<"L">>, name |-> <<"lib">>], [source |-> <<"S">>, name |-> <<"std">>]>>
MCRootFile == File(<<"M">>, "main", "mesa")
Lib == File(<<"L">>, "lib", "pkg")
Sub == File(<<"L", "sub">>, "sub", "pkg")
Util(dir) == File(dir, "util", "mesa")
Mem == File(<<"S", "mem">>, "mem", "pkg")
MCExisting == {{Lib, Sub, Util(<<"M">>), Util(<<"L">>), Mem}, {Lib, Util(<<"L", "sub">>), Sub}}
MCRootDeclares == {<<>>, <<"app">>}
MCImportPaths == {<<"lib">>, <<"lib", "sub">>, <<"util">>, <<"lib", "util">>, <<"mem">>, <<"app">>, <<"c">>}
MCImportLists == {s \in UNION {[1..n -> MCImportPaths] : n \in 0..2} :
                      \A i, j \in DOMAIN s : s[i] = s[j] => i = j}
MCForeign == {<<"c">>}
MCContents(f) ==
    {[declares |-> d, parses |-> TRUE, error |-> e] :
        d \in {<<f.name>>} \cup (IF f.ext = "mesa" \/ f = Lib THEN {<<>>} ELSE {}),
        e \in {"none"} \cup (IF f = Lib THEN {"export"} ELSE {})}
    \cup {[declares |-> <<>>, parses |-> FALSE, error |-> "none"]}
=============================================================================
