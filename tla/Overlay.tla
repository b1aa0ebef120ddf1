------------------------------- MODULE Overlay -------------------------------
(***************************************************************************)
(* jaim-overlay (overlay.cc): the FUSE helper that casual mode mounts at   *)
(* $HOME.  A read-only lower tree (the real home) shows through a writable *)
(* upper tree (<jail>.changes) wherever the upper tree, its whiteouts and  *)
(* its opaque markers do not hide it.                                      *)
(*                                                                         *)
(* One action per FUSE handler, each the whole handler.  The checks the    *)
(* kernel makes before it calls a handler (the parent is a directory, the  *)
(* name is free, rename's two types agree) are the Kernel... operators;    *)
(* they are external.  Handlers run one at a time here, as overlay.cc's    *)
(* main says it intends.                                                   *)
(***************************************************************************)
EXTENDS Paths, FiniteSets

CONSTANTS
    Content,        \* what a regular file may hold
    Empty,          \* the content of a file just created or truncated
    Target,         \* where a symbolic link points: a path stands for the
                    \* absolute name of that path in the real home
    Bits,           \* permission bits
    Umask,          \* the bits the helper's inherited umask clears
    LowerContent,   \* what files of the real home hold
    LowerMode,      \* the modes found in the real home
    ClientMode,     \* the modes clients ask for
    Handle,         \* file handles clients hold at once
    MknodAllowed    \* mknod of a 0/0 character device is permitted

ASSUME LayersAssumption ==
    /\ Empty \in Content /\ LowerContent \subseteq Content
    /\ LowerMode \subseteq SUBSET Bits /\ ClientMode \subseteq SUBSET Bits
    /\ IsFiniteSet(Path) /\ IsFiniteSet(Handle)

VARIABLES
    lower,      \* lower[p]: the object at p in the real home
    upper,      \* upper[p]: the object at p in <jail>.changes
    sidecar,    \* paths with a ".wh.<name>" file beside them in upper
    opaque,     \* upper directories holding a ".wh..wh..opq" file
    canMknod,   \* Overlay::can_mknod_whiteout
    fh          \* fh[h]: the upper inode a writable handle is open on, or 0

vars == <<lower, upper, sidecar, opaque, canMknod, fh>>

FT == INSTANCE FileTree WITH tree <- lower

\* More than the names and the handles together can keep alive.
Ino == 1..(Cardinality(Path) + Cardinality(Handle))

(***************************************************************************)
(* Objects of either layer are FileTree's, with the inode number that hard *)
(* links share; 0 where it does not matter (all but upper regular files).  *)
(***************************************************************************)
WithIno(obj, i) == [t |-> obj.t, data |-> obj.data, mode |-> obj.mode, ino |-> i]

Attrs(node) == [t |-> node.t, data |-> node.data, mode |-> node.mode]

None == WithIno(FT!None, 0)

Whiteout == [None EXCEPT !.t = "whiteout"]

\* What the umask leaves of an object that is made anew.
Masked(obj) == [t |-> obj.t, data |-> obj.data, mode |-> obj.mode \ Umask]

DirNode(m) == WithIno(FT!Dir(m \ Umask), 0)

InUse(u) == {u[p].ino : p \in Path} \cup {fh[h] : h \in Handle}

FreshIno(u) == CHOOSE i \in Ino \ InUse(u) : \A j \in Ino \ InUse(u) : i <= j

-----------------------------------------------------------------------------
(* Path resolution (read side). *)

\* What lstat(2) finds at <lower>/p.  The system follows the symbolic links of
\* the real home on the way to p (never the last name).  Bound: one link.
LowerAt(p) ==
    IF \A a \in Above(p) : lower[a].t # "link" THEN lower[p]
    ELSE LET a  == CHOOSE l \in Above(p) : lower[l].t = "link"
             to == lower[a].data
         IN  IF to \in Path /\ Moved(p, a, to) \in Path THEN lower[Moved(p, a, to)]
             ELSE FT!None

\* A whiteout of either form hides p and everything below it.
IsWhiteout(p) == p \in sidecar \/ upper[p].t = "whiteout"

OpaqueAbove(p) == Above(p) \cap opaque # {}

\* The component walk.  What it meets on the way to p decides nothing but
\* whiteouts and opaque markers: each layer is asked for the whole of p.
Where(p) ==
    IF IsWhiteout(p) \/ \E a \in Above(p) : IsWhiteout(a) THEN "whiteout"
    ELSE IF upper[p].t # "none" THEN "upper"
    ELSE IF LowerAt(p).t # "none" /\ ~OpaqueAbove(p) THEN "lower"
    ELSE "none"

Resolve(p) == LET w == Where(p)
              IN  CASE w = "upper" -> Attrs(upper[p])
                    [] w = "lower" -> LowerAt(p)
                    [] OTHER -> FT!None

\* A lookup reaches p one directory at a time.
Visible(p) == \A a \in Above(p) : Resolve(a).t = "dir"

\* The tree a client sees.
View == [p \in Path |-> IF Visible(p) THEN Resolve(p) ELSE FT!None]

ViewDir(p) == IF p = <<>> THEN TRUE ELSE View[p].t = "dir"

\* Mutant of Listing: readdir does not look for the opaque marker.
ListingNoOpaque(p) ==
    LET whited == {c \in Children(p) : IsWhiteout(c)}
    IN  {c \in Children(p) : upper[c].t \notin {"none", "whiteout"}}
          \cup ({c \in Children(p) : LowerAt(c).t # "none"} \ whited)

\* op_readdir: the upper entries that are not markers, then the lower ones
\* that upper neither repeats nor whites out.  Only p's own opaque marker is
\* looked at, and opendir(3) follows p if lower has a link there.
Listing(p) ==
    LET haveUpper == IF p = <<>> THEN TRUE ELSE upper[p].t = "dir"
        seen   == {c \in Children(p) : haveUpper /\ upper[c].t \notin {"none", "whiteout"}}
        whited == {c \in Children(p) : haveUpper /\ IsWhiteout(c)}
        fall   == {c \in Children(p) : LowerAt(c).t # "none"}
    IN  seen \cup (IF p \in opaque THEN {} ELSE fall \ whited)

-----------------------------------------------------------------------------
(* Write-side helpers, on an upper tree u. *)

\* ensure_upper_parents: it fails if an upper ancestor is not a directory...
ParentsBlocked(u, p) == \E a \in Above(p) : u[a].t \notin {"none", "dir"}

\* ... and otherwise makes the missing ones with the lower directory's mode
\* (0755, without the bits modelled here, if lower has no directory).
WithParents(u, p) ==
    [q \in Path |->
       IF q \in Above(p) /\ u[q].t = "none"
       THEN DirNode(IF LowerAt(q).t = "dir" THEN LowerAt(q).mode ELSE {})
       ELSE u[q]]

\* clear_whiteout, the character-device form (sidecars: sidecar \ {p}).
Unwhite(u, p) == IF u[p].t = "whiteout" THEN [u EXCEPT ![p] = None] ELSE u

UseMknod == canMknod /\ MknodAllowed

\* place_whiteout removes what is left at p, then leaves one form or the other.
WhiteoutNode(u, p) == [u EXCEPT ![p] = IF UseMknod THEN Whiteout ELSE None]

WhiteoutSidecar(sc, p) == IF UseMknod THEN sc ELSE sc \cup {p}

\* copy_up has no way to copy sockets and devices.
CopyUpFails(p) == Where(p) = "lower" /\ LowerAt(p).t = "other"

\* Mutant of CopyUp: no dispatch on the type, sockets and devices included.
CopyUpUntyped(u, p) ==
    IF Where(p) # "lower" THEN u
    ELSE [WithParents(u, p) EXCEPT ![p] = WithIno(LowerAt(p), 0)]

\* copy_up: an object found only in lower gets an upper twin; the modes of
\* files and directories pass through open(2) and mkdir(2), so through the
\* umask.
CopyUp(u, p) ==
    IF Where(p) # "lower" THEN u
    ELSE LET v == WithParents(u, p)
             old == LowerAt(p)
             twin == CASE old.t = "file" ->
                            WithIno(Masked(old), FreshIno(u))
                       [] old.t = "dir" -> DirNode(old.mode)
                       [] old.t = "link" -> WithIno(old, 0)
                       [] OTHER -> None
         IN  [v EXCEPT ![p] = twin]

\* The names of upper inode i.
Names(u, i) == {p \in Path : u[p].t = "file" /\ u[p].ino = i}

\* Change the object at p, under every name it has.
Update(u, p, obj) ==
    [q \in Path |->
       IF q = p \/ (u[p].t = "file" /\ q \in Names(u, u[p].ino))
       THEN WithIno(obj, u[q].ino) ELSE u[q]]

-----------------------------------------------------------------------------
(* What the kernel has checked when it calls a handler (external). *)

KernelFree(p) == ViewDir(Parent(p)) /\ View[p].t = "none"

KernelFound(p) == View[p].t # "none"

KernelRename(from, to) ==
    /\ KernelFound(from) /\ ViewDir(Parent(to))
    /\ from # to /\ ~Under(to, from) /\ ~Under(from, to)
    /\ IF ViewDir(from) THEN View[to].t \in {"none", "dir"} ELSE ~ViewDir(to)

-----------------------------------------------------------------------------
(* Handlers. *)

op_create(p, m, h) ==
    /\ KernelFree(p) /\ fh[h] = 0 /\ ~ParentsBlocked(upper, p)
    /\ LET u == Unwhite(WithParents(upper, p), p)
           i == FreshIno(upper)
       IN  /\ upper' = [u EXCEPT ![p] = WithIno(FT!File(Empty, m \ Umask), i)]
           /\ fh' = [fh EXCEPT ![h] = i]
    /\ sidecar' = sidecar \ {p}
    /\ UNCHANGED <<lower, opaque, canMknod>>

\* Mutant of op_mkdir: the whiteout of a deleted entry is not cleared.
op_mkdir_keeps_whiteout(p, m) ==
    /\ KernelFree(p) /\ ~ParentsBlocked(upper, p)
    /\ upper' = [WithParents(upper, p) EXCEPT ![p] = DirNode(m)]
    /\ opaque' = IF LowerAt(p).t = "dir" THEN opaque \cup {p} ELSE opaque
    /\ UNCHANGED <<lower, sidecar, canMknod, fh>>

\* Mutant of op_mkdir: only a directory known to be deleted is marked.
op_mkdir_marks_deleted(p, m) ==
    /\ KernelFree(p) /\ ~ParentsBlocked(upper, p)
    /\ upper' = [Unwhite(WithParents(upper, p), p) EXCEPT ![p] = DirNode(m)]
    /\ sidecar' = sidecar \ {p}
    /\ opaque' = IF IsWhiteout(p) /\ LowerAt(p).t = "dir" THEN opaque \cup {p} ELSE opaque
    /\ UNCHANGED <<lower, canMknod, fh>>

op_mkdir(p, m) ==
    /\ KernelFree(p) /\ ~ParentsBlocked(upper, p)
    /\ upper' = [Unwhite(WithParents(upper, p), p) EXCEPT ![p] = DirNode(m)]
    /\ sidecar' = sidecar \ {p}
    /\ opaque' = IF LowerAt(p).t = "dir" THEN opaque \cup {p} ELSE opaque
    /\ UNCHANGED <<lower, canMknod, fh>>

op_symlink(p, tgt) ==
    /\ KernelFree(p) /\ ~ParentsBlocked(upper, p)
    /\ upper' = [Unwhite(WithParents(upper, p), p) EXCEPT
                   ![p] = WithIno(FT!Symlink(tgt), 0)]
    /\ sidecar' = sidecar \ {p}
    /\ UNCHANGED <<lower, opaque, canMknod, fh>>

\* Mutant of op_unlink: a name that upper has gets no whiteout.
op_unlink_upper_only(p) ==
    /\ KernelFound(p) /\ View[p].t # "dir"
    /\ upper' = IF upper[p].t = "none" THEN WhiteoutNode(WithParents(upper, p), p)
                                      ELSE [upper EXCEPT ![p] = None]
    /\ sidecar' = IF upper[p].t = "none" THEN WhiteoutSidecar(sidecar, p) ELSE sidecar
    /\ canMknod' = UseMknod
    /\ UNCHANGED <<lower, opaque, fh>>

op_unlink(p) ==
    /\ KernelFound(p) /\ View[p].t # "dir"
    /\ LET u == [upper EXCEPT ![p] = None] IN
         IF LowerAt(p).t = "none"
         THEN upper' = u /\ UNCHANGED <<sidecar, canMknod>>
         ELSE /\ upper' = WhiteoutNode(WithParents(u, p), p)
              /\ sidecar' = WhiteoutSidecar(sidecar, p)
              /\ canMknod' = UseMknod
    /\ UNCHANGED <<lower, opaque, fh>>

\* The markers left in the upper directory go before it does.
op_rmdir(p) ==
    /\ View[p].t = "dir" /\ Listing(p) = {}
    /\ LET u  == [q \in Path |-> IF q = p \/ q \in Children(p) THEN None ELSE upper[q]]
           sc == IF upper[p].t = "dir" THEN sidecar \ Children(p) ELSE sidecar
       IN  IF LowerAt(p).t = "none"
           THEN upper' = u /\ sidecar' = sc /\ UNCHANGED canMknod
           ELSE /\ upper' = WhiteoutNode(WithParents(u, p), p)
                /\ sidecar' = WhiteoutSidecar(sc, p)
                /\ canMknod' = UseMknod
    /\ opaque' = opaque \ {p}
    /\ UNCHANGED <<lower, fh>>

\* rename(2) in the upper tree: the subtree moves with its markers.
MoveNodes(u, from, to) ==
    [q \in Path |->
       IF q = to \/ Under(q, to)
       THEN LET src == Moved(q, to, from) IN IF src \in Path THEN u[src] ELSE None
       ELSE IF q = from \/ Under(q, from) THEN None ELSE u[q]]

MoveMarks(S, from, to) ==
    {q \in S : q # from /\ ~Under(q, from)}
      \cup {q \in Path : (q = to \/ Under(q, to)) /\ Moved(q, to, from) \in S}

UpperEmpty(u, sc, p) == /\ \A c \in Children(p) : u[c].t = "none" /\ c \notin sc
                        /\ p \notin opaque

\* Bound: what moves must land inside Path.
RenameFits(from, to) ==
    \A q \in Below(from) :
        \/ Moved(q, from, to) \in Path
        \/ View[q].t = "none" /\ upper[q].t = "none" /\ q \notin sidecar

\* op_rename, in the order of the code: copy the source up, prepare the
\* destination, move, and white out what lower would show again at `from'.
\* rename(2) fails on a non-empty upper directory (a marker is enough), and
\* does nothing when both names are the same inode.
op_rename(from, to) ==
    /\ KernelRename(from, to)
    /\ RenameFits(from, to)
    /\ LET u0 == CopyUp(upper, from)
           u1 == Unwhite(WithParents(u0, to), to)
           sc1 == sidecar \ {to}
           sameFile == u1[to].t = "file" /\ u1[to].ino = u1[from].ino
           u2 == IF sameFile THEN u1 ELSE MoveNodes(u1, from, to)
           sc2 == MoveMarks(sc1, from, to)
       IN IF CopyUpFails(from)
          THEN upper' = WithParents(upper, from) /\ UNCHANGED <<sidecar, opaque, canMknod>>
          ELSE IF u1[to].t = "dir" /\ ~UpperEmpty(u1, sc1, to)
          THEN upper' = u1 /\ sidecar' = sc1 /\ UNCHANGED <<opaque, canMknod>>
          ELSE /\ opaque' = MoveMarks(opaque, from, to)
               /\ IF LowerAt(from).t = "none"
                  THEN upper' = u2 /\ sidecar' = sc2 /\ UNCHANGED canMknod
                  ELSE /\ upper' = WhiteoutNode(u2, from)
                       /\ sidecar' = WhiteoutSidecar(sc2, from)
                       /\ canMknod' = UseMknod
    /\ UNCHANGED <<lower, fh>>

op_link(from, to) ==
    /\ View[from].t = "file" /\ KernelFree(to)
    /\ LET u == CopyUp(upper, from)
       IN  upper' = [Unwhite(WithParents(u, to), to) EXCEPT ![to] = u[from]]
    /\ sidecar' = sidecar \ {to}
    /\ UNCHANGED <<lower, opaque, canMknod, fh>>

\* op_chmod; op_chown and op_utimens differ in the attribute they set.
\* chmod(2) and utimes(2) follow a symbolic link, and the helper is not in
\* the jail: an absolute link leads it into the real home.
op_chmod(p, m) ==
    /\ KernelFound(p) /\ View[p].t # "link"
    /\ LET u == CopyUp(upper, p)
       IN  upper' = IF CopyUpFails(p) THEN WithParents(upper, p)
                    ELSE Update(u, p, [Attrs(u[p]) EXCEPT !.mode = m])
    /\ UNCHANGED <<lower, sidecar, opaque, canMknod, fh>>

op_chmod_link(p, m) ==
    /\ View[p].t = "link"
    /\ upper' = CopyUp(upper, p)
    /\ lower' = LET tgt == View[p].data
                IN  IF tgt \in Path /\ lower[tgt].t \in {"file", "dir"}
                    THEN [lower EXCEPT ![tgt].mode = m] ELSE lower
    /\ UNCHANGED <<sidecar, opaque, canMknod, fh>>

op_truncate(p) ==
    /\ View[p].t = "file"
    /\ LET u == CopyUp(upper, p)
       IN  upper' = Update(u, p, [Attrs(u[p]) EXCEPT !.data = Empty])
    /\ UNCHANGED <<lower, sidecar, opaque, canMknod, fh>>

\* Mutant of op_open: the upper twin is created without the file's mode.
op_open_modeless(p, h) ==
    /\ View[p].t = "file" /\ fh[h] = 0
    /\ LET u == CopyUp(upper, p)
       IN  /\ upper' = IF Where(p) = "lower" THEN [u EXCEPT ![p].mode = {}] ELSE u
           /\ fh' = [fh EXCEPT ![h] = u[p].ino]
    /\ UNCHANGED <<lower, sidecar, opaque, canMknod>>

\* op_open for writing: the handle is on an upper inode from the start.
op_open(p, h) ==
    /\ View[p].t = "file" /\ fh[h] = 0
    /\ LET u == CopyUp(upper, p)
       IN  /\ upper' = u
           /\ fh' = [fh EXCEPT ![h] = u[p].ino]
    /\ UNCHANGED <<lower, sidecar, opaque, canMknod>>

\* op_write (and op_ftruncate on a handle): pwrite(2) on the inode, whatever
\* has become of the name it was opened by.
op_write(h, c) ==
    /\ fh[h] # 0
    /\ upper' = [q \in Path |-> IF q \in Names(upper, fh[h])
                                THEN [upper[q] EXCEPT !.data = c] ELSE upper[q]]
    /\ UNCHANGED <<lower, sidecar, opaque, canMknod, fh>>

op_release(h) ==
    /\ fh[h] # 0
    /\ fh' = [fh EXCEPT ![h] = 0]
    /\ UNCHANGED <<lower, upper, sidecar, opaque, canMknod>>

\* The helper exits with the session and a later one mounts the same upper.
Remount ==
    /\ canMknod' = TRUE
    /\ fh' = [h \in Handle |-> 0]
    /\ UNCHANGED <<lower, upper, sidecar, opaque>>

-----------------------------------------------------------------------------

LowerObject == {FT!None, FT!Other} \cup {FT!Dir(m) : m \in LowerMode}
                 \cup {FT!File(c, m) : c \in LowerContent, m \in LowerMode}
                 \cup {FT!Symlink(tgt) : tgt \in Target}

Init == /\ lower \in {f \in [Path -> LowerObject] : FT!IsTree(f)}
        /\ upper = [p \in Path |-> None]
        /\ sidecar = {} /\ opaque = {}
        /\ canMknod = TRUE
        /\ fh = [h \in Handle |-> 0]

Next == \/ \E p \in Path, m \in ClientMode : op_mkdir(p, m) \/ op_chmod(p, m) \/ op_chmod_link(p, m)
        \/ \E p \in Path, m \in ClientMode, h \in Handle : op_create(p, m, h)
        \/ \E p \in Path, tgt \in Target : op_symlink(p, tgt)
        \/ \E p \in Path : op_unlink(p) \/ op_rmdir(p) \/ op_truncate(p)
        \/ \E p, q \in Path : op_rename(p, q) \/ op_link(p, q)
        \/ \E p \in Path, h \in Handle : op_open(p, h)
        \/ \E h \in Handle, c \in Content : op_write(h, c)
        \/ \E h \in Handle : op_release(h)
        \/ Remount

Spec == Init /\ [][Next]_vars

-----------------------------------------------------------------------------
(* Properties. *)

UpperObject == {FT!None, Attrs(Whiteout)} \cup (FT!Object \ {FT!Other})

\* The types of the two layers and of the markers; inode numbers belong to
\* regular files only.
TypeOK == /\ lower \in [Path -> FT!Object] /\ FT!IsTree(lower)
          /\ \A p \in Path : /\ Attrs(upper[p]) \in UpperObject
                              /\ upper[p].ino \in Ino \cup {0}
                              /\ (upper[p].ino # 0) <=> (upper[p].t = "file")
          /\ sidecar \subseteq Path /\ opaque \subseteq Path
          /\ canMknod \in BOOLEAN
          /\ fh \in [Handle -> Ino \cup {0}]

\* Nothing the jail wrote is out of its own reach: everything in the upper
\* tree, markers included, lies in upper directories none of which is whited
\* out, and no entry has a whiteout beside it.  (ensure_upper_parents makes
\* directories without clearing whiteouts; place_whiteout runs after every
\* removal.)
UpperReachable ==
    \A p \in Path :
        /\ upper[p].t # "none" \/ p \in sidecar =>
             \A a \in Above(p) : upper[a].t = "dir" /\ a \notin sidecar
        /\ p \in sidecar => upper[p].t = "none"
        /\ p \in opaque => upper[p].t = "dir"

\* Opening a file for writing copies it up, and its directories; the client
\* must not see that happen (copy_regular: "Preserves mode and times").  It
\* does see the bits go that the helper's umask clears, and nothing else.
CopyUpInvisible ==
    [][\A p \in Path, h \in Handle : op_open(p, h) =>
         \A q \in Path :
            \/ View'[q] = View[q]
            \/ /\ Where(q) = "lower" /\ (q = p \/ q \in Above(p))
               /\ View'[q] = Masked(View[q])]_vars

\* A directory that takes over a name ("rename-over-a-lower-dir", says the
\* comment on is_opaque_dir) must hide what lower has there: once op_rename
\* has moved a directory, every entry below its new name came with it.
RenamedDirHidesLower ==
    [][\A p, q \in Path :
         op_rename(p, q) /\ View[p].t = "dir" /\ View'[p].t = "none" =>
            \A x \in Below(q) :
               View'[x].t # "none" => /\ Moved(x, q, p) \in Path
                                      /\ View[Moved(x, q, p)].t # "none"]_vars

\* The tree without the mode bits that the umask takes from what is copied up.
Seen == [p \in Path |-> Masked(View[p])]

Tree == INSTANCE FileTree WITH tree <- Seen

Pruned(f, S) == [p \in Path |-> IF Above(p) \cap S = {} THEN f[p] ELSE FT!None]

\* A directory takes a name that lower still has: op_rename marks nothing
\* opaque, and op_mkdir does so only over a directory, not over a link to one.
DirTakesOver(p, q) == \/ op_rename(p, q) /\ View[p].t = "dir"
                      \/ p = q /\ LowerAt(p).t = "link" /\ \E m \in ClientMode : op_mkdir(p, m)

\* The names resolve, as used by op_getattr, finds in directory p.
Found(p) == {c \in Children(p) : View[c].t # "none"}

\* op_readdir merges the layers by its own rules.  It lists every name that
\* resolve finds, and no other unless a directory above is opaque: readdir
\* looks for the marker of the directory itself only.
ListingComplete ==
    \A p \in Path \cup {<<>>} : ViewDir(p) =>
        /\ Found(p) \subseteq Listing(p)
        /\ (\A a \in opaque : ~Under(p, a)) => Listing(p) = Found(p)

\* Below an opaque directory the two come apart only through a directory that
\* takes over a name: whatever else is done, a directory that lists what
\* resolve finds goes on doing so, and a new one does from the start.
ListingAgrees ==
    [][\A p \in Path \cup {<<>>} :
         (ViewDir(p) /\ Listing(p) # Found(p))' =>
            \/ ViewDir(p) /\ Listing(p) # Found(p)
            \/ \E q, r \in Path : DirTakesOver(q, r)]_vars

\* The helper implements an ordinary file tree: what was deleted stays
\* deleted, what was created or moved is there and nothing else changes.  What
\* lies below a directory that takes over a name is all that is excepted, in
\* the step that does it.
TreeSpec == /\ Tree!Init
            /\ [][\/ Tree!Next
                  \/ \E p, q \in Path :
                       /\ DirTakesOver(p, q)
                       /\ Tree!Operation(Pruned(Seen, {p, q}), Pruned(Seen', {p, q}))]_Seen
=============================================================================
