--------------------------------- MODULE Acl ---------------------------------
(***************************************************************************)
(* What strict mode does to the ACLs of one granted path (acl.cc):         *)
(* apply_recursive before the fork, remove_recursive in atexit_fn, while   *)
(* the jailed program, its orphans and the user's own processes create,    *)
(* delete and rename files in the same tree.  Session sees each of the two *)
(* sweeps as one step; here they take one step per system call.            *)
(*                                                                         *)
(* Abstracted: the permission bits, the entries of other accounts (which   *)
(* acl.cc writes back as it read them) and duplicate entries (removal goes *)
(* on until none is found).  The walk visits siblings in any order, and    *)
(* takes one step for the lstat of an object and the edit of its ACL.  A   *)
(* granted file is a walk of one step.                                     *)
(***************************************************************************)
EXTENDS Paths

CONSTANTS
    Grant,          \* the granted directory or file
    MaxSessions     \* bound: strict sessions, one after the other

ASSUME GrantAssumption == Grant \in Path

ASSUME MaxSessionsAssumption == MaxSessions \in Nat

VARIABLES
    phase,      \* of the session: "idle", "apply", "run", "strip", "done"
    kind,       \* kind[p]: what is at p
    ace,        \* paths that carry an entry for _jaim
    toVisit,    \* the walk has yet to lstat these and call fn on them
    toList,     \* directories it has called fn on and has yet to read
    failed,     \* history: paths where fn failed in this walk, and what
                \* inherited the entry that a failed removal left
    unread,     \* history: directories that could not be opened in this walk
    renamed,    \* history: a rename since the session began
    sessions

vars == <<phase, kind, ace, toVisit, toList, failed, unread, renamed, sessions>>

walkVars == <<toVisit, toList, failed, unread>>

Granted(p) == p = Grant \/ Under(p, Grant)

Walking == phase \in {"apply", "strip"}

StartWalk == toVisit' = {Grant} /\ toList' = {} /\ failed' = {} /\ unread' = {}

-----------------------------------------------------------------------------
(* The session. *)

Begin ==
    /\ phase \in {"idle", "done"} /\ sessions < MaxSessions
    /\ phase' = "apply" /\ sessions' = sessions + 1 /\ renamed' = FALSE
    /\ StartWalk
    /\ UNCHANGED <<kind, ace>>

\* Mutant of Visit: a failing fn ends the walk of that directory.
VisitGivesUp(p) ==
    /\ Walking /\ p \in toVisit
    /\ toVisit' = toVisit \ {p}
    /\ IF kind[p] \in {"none", "link"}
       THEN UNCHANGED <<ace, toList, failed>>
       ELSE \/ /\ ace' = IF phase = "apply" THEN ace \cup {p} ELSE ace \ {p}
               /\ toList' = IF kind[p] = "dir" THEN toList \cup {p} ELSE toList
               /\ UNCHANGED failed
            \/ failed' = failed \cup {p} /\ UNCHANGED <<ace, toList>>
    /\ UNCHANGED <<phase, kind, unread, renamed, sessions>>

\* Mutant of Visit: a directory that already is as wanted is not descended into.
VisitPrunes(p) ==
    /\ Walking /\ p \in toVisit
    /\ toVisit' = toVisit \ {p}
    /\ IF kind[p] \in {"none", "link"} \/ (p \in ace <=> phase = "apply")
       THEN UNCHANGED <<ace, toList>>
       ELSE /\ ace' = IF phase = "apply" THEN ace \cup {p} ELSE ace \ {p}
            /\ toList' = IF kind[p] = "dir" THEN toList \cup {p} ELSE toList
    /\ UNCHANGED <<phase, kind, failed, unread, renamed, sessions>>

\* walk_tree: lstat; links and what has gone are skipped; then fn, whose
\* exception is a warning.  do_add_allow_user and do_remove_user_entries.
Visit(p) ==
    /\ Walking /\ p \in toVisit
    /\ toVisit' = toVisit \ {p}
    /\ IF kind[p] \in {"none", "link"}
       THEN UNCHANGED <<ace, toList, failed>>
       ELSE /\ toList' = IF kind[p] = "dir" THEN toList \cup {p} ELSE toList
            /\ \/ /\ ace' = IF phase = "apply" THEN ace \cup {p} ELSE ace \ {p}
                  /\ UNCHANGED failed
               \/ failed' = failed \cup {p} /\ UNCHANGED ace
    /\ UNCHANGED <<phase, kind, unread, renamed, sessions>>

\* opendir and readdir, which may see an entry or not if it appears meanwhile:
\* it appears before this step or after it.
List(p) ==
    /\ Walking /\ p \in toList
    /\ toList' = toList \ {p}
    /\ \/ /\ kind[p] = "dir"
          /\ toVisit' = toVisit \cup {c \in Children(p) : kind[c] \notin {"none", "link"}}
          /\ UNCHANGED unread
       \/ unread' = unread \cup {p} /\ UNCHANGED toVisit
    /\ UNCHANGED <<phase, kind, ace, failed, renamed, sessions>>

\* The walk is over: fork, or the rest of atexit_fn.
WalkEnds ==
    /\ Walking /\ toVisit = {} /\ toList = {}
    /\ phase' = IF phase = "apply" THEN "run" ELSE "done"
    /\ UNCHANGED <<kind, ace, walkVars, renamed, sessions>>

\* The child exited and atexit_fn runs.
ChildEnds ==
    /\ phase = "run"
    /\ phase' = "strip"
    /\ StartWalk
    /\ UNCHANGED <<kind, ace, renamed, sessions>>

\* jaim is killed, raises the child's signal or fails after the grant, or
\* remove_recursive throws before its walk.
NeverStrips ==
    /\ phase \in {"apply", "run", "strip"}
    /\ phase' = "idle"
    /\ UNCHANGED <<kind, ace, walkVars, renamed, sessions>>

-----------------------------------------------------------------------------
(* Other processes (external). *)

IsDir(p) == IF p = <<>> THEN TRUE ELSE kind[p] = "dir"

\* An object inherits its directory's entry (file_inherit, directory_inherit).
Create(p, k) ==
    /\ kind[p] = "none" /\ IsDir(Parent(p))
    /\ kind' = [kind EXCEPT ![p] = k]
    /\ ace' = IF Parent(p) \in ace /\ k # "link" THEN ace \cup {p} ELSE ace
    /\ failed' = IF Parent(p) \in failed /\ phase \in {"strip", "done"}
                 THEN failed \cup {p} ELSE failed
    /\ UNCHANGED <<phase, toVisit, toList, unread, renamed, sessions>>

\* Assumed of the granted path itself: it stays.
Delete(p) ==
    /\ p # Grant /\ kind[p] # "none" /\ \A c \in Children(p) : kind[c] = "none"
    /\ kind' = [kind EXCEPT ![p] = "none"]
    /\ ace' = ace \ {p}
    /\ UNCHANGED <<phase, walkVars, renamed, sessions>>

\* rename(2): an ACL goes with its file.  (A directory moves when empty.)
Move(p, q) ==
    /\ p # Grant /\ kind[p] # "none" /\ \A c \in Children(p) : kind[c] = "none"
    /\ kind[q] = "none" /\ IsDir(Parent(q)) /\ ~Under(q, p)
    /\ kind' = [kind EXCEPT ![p] = "none", ![q] = kind[p]]
    /\ ace' = IF p \in ace THEN (ace \ {p}) \cup {q} ELSE ace
    /\ renamed' = TRUE
    /\ UNCHANGED <<phase, walkVars, sessions>>

-----------------------------------------------------------------------------

Init == /\ phase = "idle"
        /\ kind \in [Path -> {"none", "dir", "file", "link"}]
        /\ kind[Grant] \in {"dir", "file"}
        /\ \A p \in Path : kind[p] # "none" => IsDir(Parent(p))
        /\ ace = {}
        /\ toVisit = {} /\ toList = {} /\ failed = {} /\ unread = {}
        /\ renamed = FALSE /\ sessions = 0

Next == \/ Begin \/ WalkEnds \/ ChildEnds \/ NeverStrips
        \/ \E p \in Path : Visit(p) \/ List(p) \/ Delete(p)
        \/ \E p \in Path, k \in {"dir", "file", "link"} : Create(p, k)
        \/ \E p, q \in Path : Move(p, q)

Spec == Init /\ [][Next]_vars

-----------------------------------------------------------------------------
(* Properties. *)

\* What the walk had a reason to miss.
Excused(p) == p \in failed \/ \E a \in Above(p) : a \in unread

\* When atexit_fn is through, no object of the granted tree carries an entry
\* for _jaim, but where removing it failed, where a directory could not be
\* read, and on what was created since in a directory where removing failed:
\* whatever was created in the tree during the session and during the sweep,
\* and whatever killed sessions had left there.  (Renames may carry an entry
\* past the sweep.)
StripComplete ==
    phase = "done" /\ ~renamed => \A p \in ace : Granted(p) => Excused(p)

\* While the jailed program runs, every object of the granted tree carries
\* the entry, new ones included, if no fn and no opendir of apply_recursive
\* failed: what is created during the sweep is reached or inherits.
GrantReaches ==
    phase = "run" /\ ~renamed /\ failed = {} /\ unread = {} =>
        \A p \in Path : Granted(p) /\ kind[p] \in {"dir", "file"} => p \in ace
=============================================================================
