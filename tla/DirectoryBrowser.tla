-------------------------- MODULE DirectoryBrowser --------------------------
(***************************************************************************)
(* One level of the host's directory tree (src/workspace/browse.ts): which *)
(* paths may be browsed, and what a listing of one of them holds.          *)
(*                                                                         *)
(* A path is the sequence of its segments, <<>> the root.  A file tree is  *)
(* a function from the paths that exist to nodes.  The only text of a name *)
(* that matters is whether it is a sensitive one.                          *)
(***************************************************************************)
EXTENDS Integers, Sequences, SequencesExt, FiniteSets

CONSTANTS
    NameOrder,        \* the names of the tree, in the order of a listing
    Sensitive,        \* names that are never listed nor entered
    BlockedPrefixes,  \* system locations
    Home,             \* the home directory of the host's user
    Shortcuts,        \* names offered under the home directory
    MaxEntries,       \* the most rows of one listing
    LinkLimit,        \* links the file system follows in one path
    MaxTarget         \* bound: segments of the target of a link

ASSUME BrowserAssumption ==
    /\ NameOrder \in Seq(ToSet(NameOrder))
    /\ Sensitive \subseteq ToSet(NameOrder)
    /\ Shortcuts \subseteq ToSet(NameOrder)
    /\ BlockedPrefixes \subseteq Seq(ToSet(NameOrder))
    /\ Home \in Seq(ToSet(NameOrder))
    /\ MaxEntries \in Nat /\ LinkLimit \in Nat /\ MaxTarget \in Nat

Paths == Seq(ToSet(NameOrder))

Dir == [kind |-> "dir"]
File == [kind |-> "file"]
Link(target) == [kind |-> "link", to |-> target]
Sealed == [kind |-> "sealed"]  \* a directory this process may not read

IsDirectory(node) == node.kind \in {"dir", "sealed"}

\* What exists lies below folders this process may read, and a link leads to
\* some path.
FileTree(tree) ==
    /\ DOMAIN tree \subseteq Paths
    /\ \A path \in DOMAIN tree :
         /\ \A i \in 0..(Len(path) - 1) :
              /\ SubSeq(path, 1, i) \in DOMAIN tree
              /\ tree[SubSeq(path, 1, i)].kind = "dir"
         /\ tree[path].kind = "link" =>
              tree[path].to \in Paths /\ Len(tree[path].to) <= MaxTarget

----------------------------------------------------------------------------
(* The fence *)

SensitivePath(path) == \E i \in DOMAIN path : path[i] \in Sensitive

BlockedPath(path) == \E prefix \in BlockedPrefixes : IsPrefix(prefix, path)

\* Both screens of resolveBrowsablePath.
Fenced(path) == SensitivePath(path) \/ BlockedPath(path)

----------------------------------------------------------------------------
(* realpath, of the operating system *)

Walker(path) == [at |-> <<>>, rest |-> path, left |-> LinkLimit, end |-> "ok"]

\* One segment further; a link starts again from its target.
WalkStep(tree, w) ==
    IF w.rest = <<>> \/ w.end # "ok" THEN w
    ELSE LET here == Append(w.at, Head(w.rest)) IN
         CASE here \notin DOMAIN tree -> [w EXCEPT !.end = "missing"]
           [] here \in DOMAIN tree /\ tree[here].kind # "link" ->
                [w EXCEPT !.at = here, !.rest = Tail(@)]
           [] OTHER ->
                IF w.left = 0 THEN [w EXCEPT !.end = "loop"]
                ELSE [w EXCEPT !.at = <<>>, !.left = @ - 1,
                               !.rest = tree[here].to \o Tail(@)]

\* Enough steps for every segment of the path and of LinkLimit targets.
Longest(path) == Len(path) + LinkLimit * MaxTarget

Walk(tree, path) ==
    LET walk[n \in 0..Longest(path)] ==
            IF n = 0 THEN Walker(path)
            ELSE CHOOSE w \in {WalkStep(tree, v) : v \in {walk[n - 1]}} : TRUE
    IN walk

Realpath(tree, path) == Walk(tree, path)[Longest(path)]

----------------------------------------------------------------------------
(* resolveBrowsablePath and listDirectories *)

Failure(code) == [ok |-> FALSE, error |-> code]

\* The stat of a canonical path.
Directory(tree, path) ==
    CASE path \notin DOMAIN tree -> Failure("unreadable")
      [] path \in DOMAIN tree /\ ~IsDirectory(tree[path]) ->
           Failure("not_a_directory")
      [] OTHER -> [ok |-> TRUE, path |-> path]

\* The second pass, on the canonical path.
Screened(tree, path) ==
    IF Fenced(path) THEN Failure("blocked") ELSE Directory(tree, path)

\* Mutant: the fence is not applied again to the target of a link.
Resolve_FirstPassOnly(tree, path) ==
    LET w == Realpath(tree, path) IN
    CASE Fenced(path) -> Failure("blocked")
      [] ~Fenced(path) /\ w.end = "missing" -> Failure("not_found")
      [] ~Fenced(path) /\ w.end = "loop" -> Failure("unreadable")
      [] OTHER -> Directory(tree, w.at)

\* The paths a page sends are absolute and well formed: the checks of their
\* shape (invalid_path, not_absolute) are left out.
Resolve(tree, path) ==
    LET w == Realpath(tree, path) IN
    CASE Fenced(path) -> Failure("blocked")
      [] ~Fenced(path) /\ w.end = "missing" -> Failure("not_found")
      [] ~Fenced(path) /\ w.end = "loop" -> Failure("unreadable")
      [] OTHER -> Screened(tree, w.at)

\* Where a child of a directory really is.  readdir follows a link that took
\* the directory's place after it was resolved; the row keeps the path asked
\* for.
Entry(tree, current, name) == Append(Realpath(tree, current).at, name)

\* Mutant: links are skipped like files.
HasRow_SkipsLinks(tree, current, name) ==
    LET entry == Entry(tree, current, name) IN
    name \notin Sensitive /\ entry \in DOMAIN tree /\ IsDirectory(tree[entry])

\* A child that gets a row: a directory, or a link the whole fence accepts.
HasRow(tree, current, name) ==
    LET entry == Entry(tree, current, name) IN
    /\ name \notin Sensitive
    /\ entry \in DOMAIN tree
    /\ \/ IsDirectory(tree[entry])
       \/ /\ tree[entry].kind = "link"
          /\ Resolve(tree, Append(current, name)).ok

\* crumbsOf: the chain of ancestors, root first.
Crumbs(path) == [i \in 1..(Len(path) + 1) |-> SubSeq(path, 1, i - 1)]

\* quickAccess: home, what exists below it, and the root.
Quick(tree) ==
    {Home, <<>>} \cup
      {p \in {Append(Home, name) : name \in Shortcuts} :
          LET w == Realpath(tree, p) IN w.end = "ok" /\ IsDirectory(tree[w.at])}

\* readdir of a directory resolved before, which may be gone or be something
\* else by now: the rows in the order of the names, up to the limit.
ReadLevel(tree, current) ==
    LET w == Realpath(tree, current)
        rows == {i \in DOMAIN NameOrder : HasRow(tree, current, NameOrder[i])}
        kept == {i \in rows : Cardinality({j \in rows : j < i}) < MaxEntries}
    IN IF w.end # "ok" \/ tree[w.at].kind # "dir" THEN Failure("unreadable")
       ELSE [ok |-> TRUE, path |-> current, quick |-> Quick(tree),
             rows |-> {Append(current, NameOrder[i]) : i \in kept},
             truncated |-> Cardinality(rows) > MaxEntries]

----------------------------------------------------------------------------
(* What a listing is for *)

\* A reader without a walk: one link of a path replaced by its target, and
\* where that ends when no link is left.
Links(tree, path) ==
    {i \in 1..Len(path) : /\ SubSeq(path, 1, i) \in DOMAIN tree
                          /\ tree[SubSeq(path, 1, i)].kind = "link"}

Hop(tree, path) ==
    LET first == CHOOSE i \in Links(tree, path) :
                    \A j \in Links(tree, path) : i <= j
    IN IF Links(tree, path) = {} THEN path
       ELSE tree[SubSeq(path, 1, first)].to
              \o SubSeq(path, first + 1, Len(path))

Hops(tree, path) ==
    LET hops[n \in 0..LinkLimit] ==
            IF n = 0 THEN path
            ELSE CHOOSE p \in {Hop(tree, q) : q \in {hops[n - 1]}} : TRUE
    IN hops

LeadsTo(tree, path) ==
    {p \in {Hops(tree, path)[LinkLimit]} \cap DOMAIN tree : Links(tree, p) = {}}

\* The row of a link is not a dead one, and no link that could be entered is
\* missing: its target is a directory outside the fence, wherever the chain
\* of links ends.
RowsAreRight(tree, current) ==
    LET level == ReadLevel(tree, current) IN
    level.ok /\ ~level.truncated =>
      \A name \in ToSet(NameOrder) \ Sensitive :
         LET child == Append(current, name)
             entry == Entry(tree, current, name)
         IN
         entry \in DOMAIN tree /\ tree[entry].kind = "link" =>
           (child \in level.rows <=>
              \E p \in LeadsTo(tree, child) :
                  IsDirectory(tree[p]) /\ ~Fenced(p) /\ ~Fenced(child))
=============================================================================
