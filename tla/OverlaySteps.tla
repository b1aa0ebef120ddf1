----------------------------- MODULE OverlaySteps -----------------------------
(***************************************************************************)
(* The handlers of overlay.cc one system call at a time: what Overlay has  *)
(* as one step is here what it is in the code, a sequence of calls on the  *)
(* upper tree.  Any call may fail, the helper may die between two of them  *)
(* and be started again over the same upper tree, and handlers run on      *)
(* several threads (fuse_main is called without -s).                       *)
(*                                                                         *)
(* The names are regular files of the mount's root, so that                *)
(* ensure_upper_parents has nothing to do.                                 *)
(***************************************************************************)
EXTENDS Naturals, FiniteSets

CONSTANTS
    Thread,         \* threads of the helper
    Name,           \* names in one directory
    Home,           \* what files of the real home hold
    Content,        \* what clients write
    Empty,          \* ... of which: what a new or truncated file holds
    Absent,         \* not a content: there is no file
    Partial,        \* not a content: part of a file being copied
    Device,         \* not a content: a 0/0 character device, a whiteout
    Pid,            \* process ids a helper may get
    Attempts,       \* names copy_regular tries for its temp file (100)
    MaxFaults       \* bound on failed calls and crashes

ASSUME ContentAssumption == /\ Empty \in Content
                            /\ {Absent, Partial, Device} \cap (Home \cup Content) = {}
                            /\ Absent # Partial /\ Absent # Device /\ Partial # Device
                            /\ Absent \notin Name

ASSUME BoundsAssumption == Attempts \in Nat \ {0} /\ MaxFaults \in Nat

VARIABLES
    lower,      \* lower[n]: what the real home holds at n
    upper,      \* upper[n]: the entry at n in <jail>.changes
    sidecar,    \* names with a ".wh.<name>" file
    temp,       \* temp[<<n, p, k>>]: the file n.jaim-cu.p.k
    pid,        \* getpid() of the helper
    th,         \* th[t]: the operation that thread t is in
    may,        \* may[n]: what a client is entitled to find at n
    raced,      \* names at which two handlers, of any kind, have overlapped
    crashed,    \* a helper has died
    faults      \* failed calls and crashes so far

vars == <<lower, upper, sidecar, temp, pid, th, may, raced, crashed, faults>>

files == <<upper, sidecar, temp>>
ghosts == <<may, raced, crashed, faults>>

Slot == Name \X Pid \X (1..Attempts)

\* fd is the name that the open file has now, or Absent when it has none.
Idle == [op |-> "idle", pc |-> "idle", name |-> Absent, to |-> Absent, val |-> Absent,
         k |-> 1, fd |-> Absent]

\* resolve and op_getattr, for a name of the root directory.
Where(n) == IF n \in sidecar \/ upper[n] = Device THEN "whiteout"
            ELSE IF upper[n] # Absent THEN "upper"
            ELSE IF lower[n] # Absent THEN "lower" ELSE "none"

View(n) == CASE Where(n) = "upper" -> upper[n]
             [] Where(n) = "lower" -> lower[n]
             [] OTHER -> Absent

-----------------------------------------------------------------------------
(* What an operation does to the names it is about. *)

At(t, pc) == th[t].pc = pc

GoTo(t, pc) == th' = [th EXCEPT ![t].pc = pc]

\* The same, where the file open as `from' gets another name or none.
GoToMoving(t, pc, from, to) ==
    th' = [u \in Thread |-> IF u = t THEN [th[t] EXCEPT !.pc = pc]
                            ELSE IF th[u].fd = from THEN [th[u] EXCEPT !.fd = to]
                            ELSE IF th[u].fd = to THEN [th[u] EXCEPT !.fd = Absent]
                            ELSE th[u]]

\* The names of the handler that t is in; between op_open and op_write the
\* client has the turn, and no handler runs.
Names(t) == IF th[t].pc \in {"idle", "pwrite"} THEN {} ELSE {th[t].name, th[t].to}

\* What a handler that has not finished may have left at n, beyond what was
\* there: the real home's object shows while neither an upper file nor a
\* whiteout hides it.
Left(t, n) ==
    IF n \notin Names(t) THEN {}
    ELSE CASE th[t].op = "unlink" -> {Absent, lower[n]}
           [] th[t].op = "create" -> {lower[n]}
           [] th[t].op = "rename" /\ n = th[t].name -> {Absent, lower[n]}
           [] th[t].op = "rename" /\ n # th[t].name -> {th[t].val, lower[n]}
           [] OTHER -> {}

\* What an operation that has finished leaves at n.
Result(t, n) ==
    CASE th[t].op = "unlink" -> Absent
      [] th[t].op \in {"create", "truncate"} -> Empty
      [] th[t].op = "write" -> th[t].val
      [] OTHER -> IF n = th[t].name THEN Absent ELSE th[t].val

\* libfuse's path locks (external): the handlers of unlink and rename have
\* the names they are about to themselves; the others share them.
Exclusive == {"unlink", "rename"}

PathLock(op, ns) ==
    \A t \in Thread : Names(t) \cap ns # {} => /\ op \notin Exclusive
                                               /\ th[t].op \notin Exclusive

-----------------------------------------------------------------------------
(* How a handler begins, succeeds and fails. *)

\* The kernel has looked the names up; the handler resolves the first one.
Begin(t, op, n, to, val, pc) ==
    /\ At(t, "idle")
    /\ PathLock(op, {n, to})
    /\ th' = [th EXCEPT ![t] = [op |-> op, pc |-> pc, name |-> n, to |-> to, val |-> val,
                                k |-> 1, fd |-> Absent]]
    /\ raced' = raced \cup UNION {Names(u) \cap {n, to} : u \in Thread}
    /\ UNCHANGED <<lower, files, pid, may, crashed, faults>>

\* copy_up has nothing to do for a name that upper has.
CopyUpPc(n) == IF Where(n) = "upper" THEN "ready" ELSE "open_temp"

\* A write is a write to the file that was opened, whatever its name is now.
Finish(t) ==
    LET ns == IF At(t, "pwrite") THEN {th[t].fd} ELSE Names(t) IN
    /\ may' = [n \in Name |-> IF n \in ns THEN {Result(t, n)} ELSE may[n]]
    /\ raced' = IF th[t].op \in Exclusive THEN raced \ ns ELSE raced
    /\ UNCHANGED <<crashed, faults>>

End(t) == th' = [th EXCEPT ![t] = Idle]

\* The errno path: the handler returns without going on.
GiveUp(t) ==
    /\ End(t)
    /\ may' = [n \in Name |-> may[n] \cup Left(t, n)]
    /\ UNCHANGED <<raced, crashed>>

-----------------------------------------------------------------------------
(* copy_regular. *)

MyTemp(t) == <<th[t].name, pid, th[t].k>>

\* Mutant of OpenTemp: O_TRUNC instead of O_EXCL.
OpenTempShared(t) ==
    /\ At(t, "open_temp")
    /\ temp' = [temp EXCEPT ![MyTemp(t)] = Partial]
    /\ GoTo(t, "copy")
    /\ UNCHANGED <<lower, upper, sidecar, pid, ghosts>>

\* open(O_CREAT | O_EXCL), one attempt.
OpenTemp(t) ==
    /\ At(t, "open_temp")
    /\ IF temp[MyTemp(t)] = Absent
       THEN /\ temp' = [temp EXCEPT ![MyTemp(t)] = Partial]
            /\ GoTo(t, "copy")
            /\ UNCHANGED ghosts
       ELSE /\ IF th[t].k < Attempts
               THEN th' = [th EXCEPT ![t].k = @ + 1] /\ UNCHANGED ghosts
               ELSE GiveUp(t) /\ UNCHANGED faults
            /\ UNCHANGED temp
    /\ UNCHANGED <<lower, upper, sidecar, pid>>

\* The read and write loop; until it ends the file is partial.
CopyData(t) ==
    /\ At(t, "copy")
    /\ temp' = [temp EXCEPT ![MyTemp(t)] = lower[th[t].name]]
    /\ GoTo(t, "install")
    /\ UNCHANGED <<lower, upper, sidecar, pid, ghosts>>

\* rename(tmp, dst): a file that was at the name loses it.
Install(t) ==
    /\ At(t, "install")
    /\ upper' = [upper EXCEPT ![th[t].name] = temp[MyTemp(t)]]
    /\ temp' = [temp EXCEPT ![MyTemp(t)] = Absent]
    /\ GoToMoving(t, "ready", th[t].name, Absent)
    /\ UNCHANGED <<lower, sidecar, pid, ghosts>>

-----------------------------------------------------------------------------
(* op_open for writing, then op_write and op_release; op_truncate. *)

BeginWrite(t, n, c) == View(n) # Absent /\ Begin(t, "write", n, n, c, CopyUpPc(n))

\* open(up) fails if the name has gone or is a device by now.
OpenUpper(t) ==
    /\ At(t, "ready") /\ th[t].op = "write"
    /\ IF upper[th[t].name] \in {Absent, Device}
       THEN GiveUp(t) /\ UNCHANGED faults
       ELSE /\ th' = [th EXCEPT ![t].fd = th[t].name, ![t].pc = "pwrite"]
            /\ UNCHANGED ghosts
    /\ UNCHANGED <<lower, files, pid>>

\* The name at which the file that t is renaming is.
Carries(t) == IF th[t].op # "rename" THEN Absent
              ELSE IF th[t].pc \in {"white", "mark", "done"} THEN th[t].to ELSE th[t].name

\* pwrite: to the file, wherever it is by now; a rename on its way carries
\* the new contents.
PWrite(t) ==
    /\ At(t, "pwrite")
    /\ upper' = [n \in Name |-> IF n = th[t].fd THEN th[t].val ELSE upper[n]]
    /\ Finish(t)
    /\ th' = [u \in Thread |->
                IF u = t THEN Idle
                ELSE IF th[t].fd \in Name /\ Carries(u) = th[t].fd
                THEN [th[u] EXCEPT !.val = th[t].val] ELSE th[u]]
    /\ UNCHANGED <<lower, sidecar, temp, pid>>

BeginTruncate(t, n) ==
    View(n) # Absent /\ Begin(t, "truncate", n, n, Empty, CopyUpPc(n))

Truncate(t) ==
    /\ At(t, "ready") /\ th[t].op = "truncate"
    /\ IF upper[th[t].name] \in {Absent, Device}
       THEN GiveUp(t) /\ UNCHANGED <<upper, faults>>
       ELSE upper' = [upper EXCEPT ![th[t].name] = Empty] /\ Finish(t) /\ End(t)
    /\ UNCHANGED <<lower, sidecar, temp, pid>>

-----------------------------------------------------------------------------
(* op_create; clear_whiteout. *)

BeginCreate(t, n) == View(n) = Absent /\ Begin(t, "create", n, n, Empty, "clear")

\* clear_whiteout first looks for a device, ...
FindDevice(t) ==
    /\ At(t, "clear")
    /\ GoTo(t, IF upper[th[t].to] = Device THEN "clear_device" ELSE "clear_sidecar")
    /\ UNCHANGED <<lower, files, pid, ghosts>>

\* ... and unlinks what is at the name by then, or finds nothing there, ...
ClearDevice(t) ==
    /\ At(t, "clear_device")
    /\ upper' = [upper EXCEPT ![th[t].to] = Absent]
    /\ GoToMoving(t, "clear_sidecar", th[t].to, Absent)
    /\ UNCHANGED <<lower, sidecar, temp, pid, ghosts>>

\* ... then the sidecar file.
ClearSidecar(t) ==
    /\ At(t, "clear_sidecar")
    /\ sidecar' = sidecar \ {th[t].to}
    /\ GoTo(t, IF th[t].op = "create" THEN "open_new" ELSE "move")
    /\ UNCHANGED <<lower, upper, temp, pid, ghosts>>

\* open(O_CREAT | O_TRUNC)
OpenNew(t) ==
    /\ At(t, "open_new")
    /\ IF upper[th[t].name] = Device
       THEN GiveUp(t) /\ UNCHANGED <<upper, faults>>
       ELSE upper' = [upper EXCEPT ![th[t].name] = Empty] /\ Finish(t) /\ End(t)
    /\ UNCHANGED <<lower, sidecar, temp, pid>>

-----------------------------------------------------------------------------
(* op_unlink, op_rename; place_whiteout. *)

BeginUnlink(t, n) == View(n) # Absent /\ Begin(t, "unlink", n, n, Absent, "remove")

\* Mutant of Marks: no whiteout for a name that had been copied up.
MarksLower(t) == Where(th[t].name) = "lower"

\* A whiteout is needed where lower has the name.
Marks(t) == lower[th[t].name] # Absent

Remove(t) ==
    /\ At(t, "remove")
    /\ upper' = [upper EXCEPT ![th[t].name] = Absent]
    /\ GoToMoving(t, IF Marks(t) THEN "white" ELSE "done", th[t].name, Absent)
    /\ UNCHANGED <<lower, sidecar, temp, pid, ghosts>>

BeginRename(t, n, to) ==
    /\ n # to /\ View(n) # Absent
    /\ Begin(t, "rename", n, to, View(n), CopyUpPc(n))

\* op_rename goes on to clear_whiteout for the new name.
RenameReady(t) ==
    /\ At(t, "ready") /\ th[t].op = "rename"
    /\ GoTo(t, "clear")
    /\ UNCHANGED <<lower, files, pid, ghosts>>

\* Mutant of Move: what is at the old name is removed first.
MoveLosing(t) ==
    /\ At(t, "move")
    /\ upper' = [upper EXCEPT ![th[t].name] = Absent]
    /\ GoToMoving(t, IF Marks(t) THEN "white" ELSE "done", th[t].name, Absent)
    /\ UNCHANGED <<lower, sidecar, temp, pid, ghosts>>

Move(t) ==
    /\ At(t, "move")
    /\ upper' = [upper EXCEPT ![th[t].to] = upper[th[t].name], ![th[t].name] = Absent]
    /\ GoToMoving(t, IF Marks(t) THEN "white" ELSE "done", th[t].name, th[t].to)
    /\ UNCHANGED <<lower, sidecar, temp, pid, ghosts>>

\* place_whiteout removes what is at the name, ...
WhiteRemove(t) ==
    /\ At(t, "white")
    /\ upper' = [upper EXCEPT ![th[t].name] = Absent]
    /\ GoTo(t, "mark")
    /\ UNCHANGED <<lower, sidecar, temp, pid, ghosts>>

\* ... then makes the device, or the sidecar file if mknod is denied now or
\* was before (can_mknod_whiteout).
WhiteMark(t) ==
    /\ At(t, "mark")
    /\ \/ upper' = [upper EXCEPT ![th[t].name] = Device] /\ UNCHANGED sidecar
       \/ sidecar' = sidecar \cup {th[t].name} /\ UNCHANGED upper
    /\ GoTo(t, "done")
    /\ UNCHANGED <<lower, temp, pid, ghosts>>

\* The handler of unlink or rename returns 0.
Return(t) ==
    /\ At(t, "done")
    /\ Finish(t) /\ End(t)
    /\ UNCHANGED <<lower, files, pid>>

-----------------------------------------------------------------------------
(* Failures. *)

\* Mutant of Fails: an error while copying leaves the temp file.
FailsKeepingTemp(t) ==
    /\ ~At(t, "idle") /\ ~At(t, "done") /\ faults < MaxFaults /\ faults' = faults + 1
    /\ GiveUp(t)
    /\ UNCHANGED <<lower, files, pid>>

\* The call the thread is about to make fails (ENOSPC, EIO, EACCES): the
\* handler returns, and copy_regular unlinks its temp file first.
Fails(t) ==
    /\ ~At(t, "idle") /\ ~At(t, "done") /\ faults < MaxFaults /\ faults' = faults + 1
    /\ temp' = IF th[t].pc \in {"copy", "install"}
               THEN [temp EXCEPT ![MyTemp(t)] = Absent] ELSE temp
    /\ GiveUp(t)
    /\ UNCHANGED <<lower, upper, sidecar, pid>>

\* The helper dies, and the next session starts one over the same upper.
Crash ==
    /\ \E t \in Thread : ~At(t, "idle")
    /\ faults < MaxFaults /\ faults' = faults + 1
    /\ th' = [t \in Thread |-> Idle]
    /\ may' = [n \in Name |-> may[n] \cup UNION {Left(t, n) : t \in Thread}]
    /\ crashed' = TRUE
    /\ pid' \in Pid
    /\ UNCHANGED <<lower, files, raced>>

-----------------------------------------------------------------------------

Init == /\ lower \in [Name -> Home \cup {Absent}]
        /\ upper = [n \in Name |-> Absent]
        /\ sidecar = {}
        /\ temp = [s \in Slot |-> Absent]
        /\ pid \in Pid
        /\ th = [t \in Thread |-> Idle]
        /\ may = [n \in Name |-> {lower[n]}]
        /\ raced = {}
        /\ crashed = FALSE /\ faults = 0

CopyUpStep(t) == OpenTemp(t) \/ CopyData(t) \/ Install(t)

WriteStep(t) == OpenUpper(t) \/ PWrite(t) \/ Truncate(t)

CreateStep(t) == FindDevice(t) \/ ClearDevice(t) \/ ClearSidecar(t) \/ OpenNew(t)

RemoveStep(t) ==
    Remove(t) \/ RenameReady(t) \/ Move(t) \/ WhiteRemove(t)
      \/ WhiteMark(t) \/ Return(t)

BeginStep(t) ==
    \E n \in Name :
        \/ \E c \in Content : BeginWrite(t, n, c)
        \/ BeginTruncate(t, n)
        \/ BeginCreate(t, n)
        \/ BeginUnlink(t, n)
        \/ \E to \in Name : BeginRename(t, n, to)

Next == \/ \E t \in Thread : \/ BeginStep(t) \/ CopyUpStep(t) \/ WriteStep(t)
                             \/ CreateStep(t) \/ RemoveStep(t) \/ Fails(t)
        \/ Crash

Spec == Init /\ [][Next]_vars

-----------------------------------------------------------------------------
(* Properties. *)

\* Through failed calls and crashes, a client finds at each name what the
\* finished operations put there; an operation that was cut short may add
\* its own outcome or uncover the real home's file (op_unlink and op_rename
\* remove before they white out, op_create and op_rename clear a whiteout
\* before they make the entry), and nothing else.  A copy-up alone, finished
\* or not, changes nothing.  Names at which two handlers have overlapped since
\* the last unlink or rename of the name are excepted: the later of two
\* copy-ups takes the earlier copy away together with what was written to it,
\* and clear_whiteout may unlink the file that another op_create has made
\* after it had seen the device.
Explained ==
    \A n \in Name \ raced : View(n) \in may[n] \cup UNION {Left(t, n) : t \in Thread}

\* "An interrupted copy never leaves a partial file visible": no name ever
\* has part of a file, also when two threads copy the same one up and when
\* a helper with a recycled pid meets the temp files of a dead one.
NoPartial == \A n \in Name : View(n) # Partial

\* op_rename takes a file from one name to the other through four or more
\* system calls; at every moment one of the two has it.
RenameKeeps ==
    \A t \in Thread :
        th[t].op = "rename" => \/ View(th[t].name) = th[t].val
                               \/ View(th[t].to) = th[t].val

\* Every temp file belongs to a copy-up under way, unless a helper died: the
\* error paths of copy_regular remove theirs.
NoLitter ==
    crashed \/ \A s \in Slot :
        temp[s] # Absent =>
            \E t \in Thread : th[t].pc \in {"copy", "install"} /\ MyTemp(t) = s
=============================================================================
