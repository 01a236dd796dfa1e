---------------------------- MODULE PackagePaths ----------------------------
(***************************************************************************)
(* The names and places of packages (src/frontend.py).  A package path and *)
(* a directory are sequences of names; a file is a directory, a name and   *)
(* an extension.  A package root [source, name] gives the directory of the *)
(* package of that name; the name <<>> stands for None.                    *)
(***************************************************************************)
EXTENDS Integers, Sequences, SequencesExt

CONSTANTS
    PackageRoots,   \* the sequence of package roots, the standard library's last
    StdBare         \* the last names of std.ffi, std.mem and std.io

File(dir, name, ext) == [dir |-> dir, name |-> name, ext |-> ext]
NoFile == File(<<>>, "none", "none")

\* The package called path, below base: its facade, or its only file.
Located(base, rel, last) ==
    <<File(base \o rel, last, "pkg"), File(base \o rel, "mesa", "pkg")>>
    \o IF rel = <<>> THEN <<File(base, last, "mesa")>>
       ELSE <<File(base \o Front(rel), last, "mesa")>>

\* _resolve_import_target: where the files for an import are looked for.
CandidatesIn(root, path) ==
    LET rel == SubSeq(path, Len(root.name) + 1, Len(path)) IN
    IF IsPrefix(root.name, path) THEN Located(root.source, rel, Last(path)) ELSE <<>>

Candidates(path, from) ==
    FlattenSeq([i \in DOMAIN PackageRoots |-> CandidatesIn(PackageRoots[i], path)])
    \o Located(from, path, Last(path))
    \o <<File(from \o path, "mod", "mesa")>>

\* The first of the candidates that exists.
Resolve(files, path, from) ==
    LET c == Candidates(path, from)
        found == {i \in DOMAIN c : c[i] \in files}
    IN IF found = {} THEN NoFile ELSE c[CHOOSE i \in found : \A j \in found : i <= j]

\* _canonicalize_import_path, for an import in the package current (<<>> if none)
Canonical(path, current) ==
    LET p == IF path \in {<<b>> : b \in StdBare} THEN <<"std">> \o path ELSE path
        sibling == Front(current) \o p
    IN IF /\ Len(p) = 1 /\ Len(current) > 1
          /\ \E i \in DOMAIN PackageRoots : PackageRoots[i].name = sibling
       THEN sibling ELSE p

\* _resolve_pkg_identity_for_source: the package that a file which declares one
\* belongs to, by the first root that takes the file.
Takes(root, file, declared) ==
    IF root.name = <<>> THEN IsPrefix(root.source \o declared, file.dir)
    ELSE IsPrefix(root.source, file.dir)

NameUnder(root, declared) ==
    CASE root.name = <<>> -> declared
      [] declared \in {root.name, <<Last(root.name)>>} -> root.name
      [] OTHER -> root.name \o declared

Identity(file, declared) ==
    LET takers == {i \in DOMAIN PackageRoots : Takes(PackageRoots[i], file, declared)} IN
    IF takers = {} THEN declared
    ELSE NameUnder(PackageRoots[CHOOSE i \in takers : \A j \in takers : i <= j], declared)

ReservedPath(path) == path \in {<<b>> : b \in StdBare}
=============================================================================
