-------------------------- MODULE MCWorkspacePicker --------------------------
(* Instances of WorkspacePicker for TLC: a home directory with a folder, a *)
(* sensitive one and a link, next to a system location.                    *)
EXTENDS WorkspacePicker, TLC

MCNames == <<"docs", "etc", "home", "link", "secret", "zoo">>
MCHome == <<"home">>
MCBlocked == {<<"etc">>}

\* The tree when the link leads to `target`.
Linked(target) ==
    (<<>> :> Dir) @@ (<<"home">> :> Dir) @@ (<<"etc">> :> Dir)
      @@ (<<"home", "docs">> :> Dir) @@ (<<"home", "secret">> :> Dir)
      @@ (<<"home", "link">> :> Link(target))

\* The link leads to a folder, to a system location, to a sensitive name or to
\* itself; the folder is a file, may not be read or has made room for a link;
\* there are more folders than a listing holds.
MCTrees ==
    {(<<"home", "docs">> :> Sealed) @@ Linked(<<"etc">>),
     (<<"home", "docs">> :> File) @@ Linked(<<"home", "secret">>),
     (<<"home", "docs">> :> Link(<<"home">>)) @@ Linked(<<"home", "link">>),
     (<<"home", "zoo">> :> Dir) @@ Linked(<<"home", "docs">>)}
=============================================================================
