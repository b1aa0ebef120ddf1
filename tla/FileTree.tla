------------------------------ MODULE FileTree ------------------------------
(***************************************************************************)
(* What a process inside a casual jail is promised to see at $HOME: an     *)
(* ordinary file tree.  Nothing here knows about layers, whiteouts, opaque *)
(* markers or copy-up.  Overlay is shown to implement this specification   *)
(* under the mapping  tree <- View.                                        *)
(*                                                                         *)
(* An operation that fails leaves the tree alone and is a stuttering step. *)
(***************************************************************************)
EXTENDS Paths

CONSTANTS
    Content,    \* what a regular file may hold
    Target,     \* what a symbolic link may point to
    Bits        \* permission bits

VARIABLE tree   \* tree[p]: the object a lookup of p finds

-----------------------------------------------------------------------------
(* Objects. *)

Mode == SUBSET Bits

NoData == "-"

None         == [t |-> "none", data |-> NoData, mode |-> {}]
Dir(m)       == [t |-> "dir",  data |-> NoData, mode |-> m]
File(c, m)   == [t |-> "file", data |-> c,      mode |-> m]
Symlink(tgt) == [t |-> "link", data |-> tgt,    mode |-> {}]
Other        == [t |-> "other", data |-> NoData, mode |-> {}]  \* socket, FIFO, device

Object == {None, Other} \cup {Dir(m) : m \in Mode}
            \cup {File(c, m) : c \in Content, m \in Mode}
            \cup {Symlink(tgt) : tgt \in Target}

\* Every entry lies in a directory.
IsTree(f) == \A p \in Path : f[p].t # "none" => \A a \in Above(p) : f[a].t = "dir"

TypeOK == tree \in [Path -> Object] /\ IsTree(tree)

-----------------------------------------------------------------------------
(* Operations, each a relation between the tree f before and the tree g    *)
(* after.                                                                  *)

Exists(f, p) == f[p].t # "none"

IsDir(f, p) == IF p = <<>> THEN TRUE ELSE f[p].t = "dir"

Absent(f, p) == ~Exists(f, p) /\ IsDir(f, Parent(p))

Add(f, g, p) == /\ Absent(f, p)
                /\ g[p].t \notin {"none", "other"}
                /\ g = [f EXCEPT ![p] = g[p]]

Link(f, g, p, q) == /\ f[p].t = "file" /\ Absent(f, q)
                    /\ g = [f EXCEPT ![q] = f[p]]

Unlink(f, g, p) == /\ Exists(f, p) /\ ~IsDir(f, p)
                   /\ g = [f EXCEPT ![p] = None]

Rmdir(f, g, p) == /\ Exists(f, p) /\ IsDir(f, p)
                  /\ \A c \in Children(p) : ~Exists(f, c)
                  /\ g = [f EXCEPT ![p] = None]

\* The whole subtree moves; a directory replaces only an empty directory.
Rename(f, g, from, to) ==
    /\ Exists(f, from) /\ IsDir(f, Parent(to))
    /\ from # to /\ ~Under(to, from) /\ ~Under(from, to)
    /\ IF IsDir(f, from) THEN f[to].t \in {"none", "dir"} ELSE ~IsDir(f, to)
    /\ \A c \in Below(to) : ~Exists(f, c)
    /\ g = [p \in Path |->
              IF p = to \/ Under(p, to)
              THEN LET src == Moved(p, to, from)
                   IN  IF src \in Path THEN f[src] ELSE None
              ELSE IF p = from \/ Under(p, from) THEN None ELSE f[p]]

\* Changing the bytes or the mode of a file changes it under every name it
\* has; which files are names of one inode is not part of this state, but
\* they cannot differ.
Change(f, g, p) ==
    /\ f[p].t \in {"file", "dir"} /\ g[p].t = f[p].t
    /\ \A q \in Path \ {p} :
          g[q] = f[q] \/ (f[p].t = "file" /\ f[q] = f[p] /\ g[q] = g[p])

Operation(f, g) ==
    \/ \E p \in Path : Add(f, g, p) \/ Unlink(f, g, p) \/ Rmdir(f, g, p) \/ Change(f, g, p)
    \/ \E p, q \in Path : Link(f, g, p, q) \/ Rename(f, g, p, q)

Init == TypeOK

Next == tree' \in [Path -> Object] /\ \E f \in {tree}, g \in {tree'} : Operation(f, g)

Spec == Init /\ [][Next]_tree
=============================================================================
