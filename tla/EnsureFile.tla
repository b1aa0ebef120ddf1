----------------------------- MODULE EnsureFile -----------------------------
(***************************************************************************)
(* ensure_dir and ensure_file of fs.cc: how jaim makes its directory and   *)
(* each of the files .defaults, default.conf, <jail>.jail in it the first  *)
(* time they are needed.  Several processes may be at it at once; system   *)
(* calls fail, the ignored ones too; processes are killed and their pids   *)
(* used again; the user edits and removes the file.                        *)
(*                                                                         *)
(* One directory of one component, one file in it.  A loss of power is not *)
(* modelled: fsync(2) promises too little on macOS to say anything then.   *)
(***************************************************************************)
CONSTANTS
    Proc,       \* processes
    Pid,        \* process ids
    Content,    \* contents that processes want the file to have
    Edit,       \* contents that the user gives it
    None        \* not a file: there is none

VARIABLES
    dir,        \* the directory is there
    file,       \* what is at the file's name
    temp,       \* temp[i]: the file <file>~i~
    proc,       \* proc[p]: its pc, pid, the contents it wants, the file it got
    left        \* pids whose temp file a kill or a failed unlink may have left

vars == <<dir, file, temp, proc, left>>

\* A file: the contents written into it, and whether the last are all there.
File == [data : SUBSET (Content \cup Edit), whole : BOOLEAN]

ASSUME NoneAssumption == None \notin File /\ None \notin Pid

Ended == {"idle", "failed"}

Making == {"create", "write", "fsync", "rename"}

\* The steps of ensure_dir, then those of ensure_file.
PC == Ended \cup Making \cup {"dir", "mkdir", "open", "unlink", "reopen", "done"}

Proc0 == [pc |-> "idle", pid |-> None, want |-> None, got |-> None]

TypeOK ==
    /\ dir \in BOOLEAN
    /\ file \in File \cup {None}
    /\ temp \in [Pid -> File \cup {None}]
    /\ proc \in [Proc -> [pc : PC, pid : Pid \cup {None}, want : Content \cup {None},
                          got : File \cup {None}]]
    /\ left \subseteq Pid

At(p, pc) == proc[p].pc = pc

GoTo(p, pc) == proc' = [proc EXCEPT ![p].pc = pc]

\* unlinkat of the temp file, its result ignored: it is gone, or it stays.
DropTemp(p) ==
    \/ temp' = [temp EXCEPT ![proc[p].pid] = None] /\ UNCHANGED left
    \/ UNCHANGED temp /\ left' = left \cup {proc[p].pid}

-----------------------------------------------------------------------------

\* A process that wants c in the file; no live process has its pid.
Start(p, i, c) ==
    /\ proc[p].pc \in Ended
    /\ \A q \in Proc : proc[q].pc \notin Ended => proc[q].pid # i
    /\ proc' = [proc EXCEPT ![p] = [pc |-> "dir", pid |-> i, want |-> c, got |-> None]]
    /\ UNCHANGED <<dir, file, temp, left>>

\* ensure_dir: open, and if that finds nothing mkdir, then open again, whoever
\* made it.
OpenDir(p) ==
    /\ At(p, "dir")
    /\ GoTo(p, IF dir THEN "open" ELSE "mkdir")
    /\ UNCHANGED <<dir, file, temp, left>>

\* Mutant of Mkdir: EEXIST leads to another mkdir.
MkdirAgain(p) ==
    /\ At(p, "mkdir")
    /\ dir' = TRUE
    /\ GoTo(p, IF dir THEN "mkdir" ELSE "dir")
    /\ UNCHANGED <<file, temp, left>>

Mkdir(p) ==
    /\ At(p, "mkdir")
    /\ dir' = TRUE
    /\ GoTo(p, "dir")
    /\ UNCHANGED <<file, temp, left>>

\* ensure_file: what is there is good enough.
OpenFile(p) ==
    /\ At(p, "open")
    /\ IF file # None
       THEN proc' = [proc EXCEPT ![p].pc = "done", ![p].got = file]
       ELSE GoTo(p, "unlink")
    /\ UNCHANGED <<dir, file, temp, left>>

\* What a process with this pid may have left; whether that works is not asked.
UnlinkTmp(p) ==
    /\ At(p, "unlink")
    /\ DropTemp(p)
    /\ GoTo(p, "create")
    /\ UNCHANGED <<dir, file>>

SetTemp(p, data, whole) ==
    temp' = [temp EXCEPT ![proc[p].pid] = [data |-> data, whole |-> whole]]

\* Mutant of CreateTmp: no O_EXCL, what is there is opened and written over.
CreateTmpShared(p) ==
    /\ At(p, "create")
    /\ IF temp[proc[p].pid] = None THEN SetTemp(p, {}, FALSE) ELSE UNCHANGED temp
    /\ GoTo(p, "write")
    /\ UNCHANGED <<dir, file, left>>

\* open(O_CREAT | O_EXCL); if it finds a file it throws, and the Defer removes
\* that one.
CreateTmp(p) ==
    /\ At(p, "create")
    /\ \/ /\ temp[proc[p].pid] = None
          /\ SetTemp(p, {}, FALSE)
          /\ GoTo(p, "write")
          /\ UNCHANGED left
       \/ /\ temp[proc[p].pid] # None
          /\ DropTemp(p)
          /\ GoTo(p, "failed")
    /\ UNCHANGED <<dir, file>>

\* The last write of the loop: the contents are over what was there before.
WriteTmp(p) ==
    /\ At(p, "write")
    /\ SetTemp(p, temp[proc[p].pid].data \cup {proc[p].want}, TRUE)
    /\ GoTo(p, "fsync")
    /\ UNCHANGED <<dir, file, left>>

Fsync(p) ==
    /\ At(p, "fsync")
    /\ GoTo(p, "rename")
    /\ UNCHANGED <<dir, file, temp, left>>

\* rename replaces what is at the name by now; cleanup.release().
RenameTmp(p) ==
    /\ At(p, "rename")
    /\ file' = temp[proc[p].pid]
    /\ temp' = [temp EXCEPT ![proc[p].pid] = None]
    /\ GoTo(p, "reopen")
    /\ UNCHANGED <<dir, left>>

\* The reopening finds what is there by now, or fails if nothing is.
Reopen(p) ==
    /\ At(p, "reopen")
    /\ IF file = None
       THEN GoTo(p, "failed")
       ELSE proc' = [proc EXCEPT ![p].pc = "done", ![p].got = file]
    /\ UNCHANGED <<dir, file, temp, left>>

\* The process goes on with its file, and ends.
Exit(p) ==
    /\ At(p, "done")
    /\ proc' = [proc EXCEPT ![p] = Proc0]
    /\ UNCHANGED <<dir, file, temp, left>>

-----------------------------------------------------------------------------

\* Mutant of Fail: no Defer.
FailKeeping(p) ==
    /\ proc[p].pc \notin Ended \cup {"unlink", "done"}
    /\ GoTo(p, "failed")
    /\ UNCHANGED <<dir, file, temp, left>>

\* The call the process is about to make fails: it throws, and the Defer
\* removes the temp file if there is to be one, and if it can.
Fail(p) ==
    /\ proc[p].pc \notin Ended \cup {"unlink", "done"}
    /\ IF proc[p].pc \in Making THEN DropTemp(p) ELSE UNCHANGED <<temp, left>>
    /\ GoTo(p, "failed")
    /\ UNCHANGED <<dir, file>>

Kill(p) ==
    /\ proc[p].pc \notin Ended
    /\ proc' = [proc EXCEPT ![p] = Proc0]
    /\ left' = left \cup {proc[p].pid}
    /\ UNCHANGED <<dir, file, temp>>

\* The user's editor saves, at once or piece by piece; the user removes the file.
UserEdit(c) ==
    /\ file # None
    /\ \E whole \in BOOLEAN : file' = [data |-> {c}, whole |-> whole]
    /\ UNCHANGED <<dir, temp, proc, left>>

UserRemove ==
    /\ file # None /\ file' = None
    /\ UNCHANGED <<dir, temp, proc, left>>

-----------------------------------------------------------------------------

Init == /\ dir \in BOOLEAN
        /\ file = None
        /\ temp = [i \in Pid |-> None]
        /\ proc = [p \in Proc |-> Proc0]
        /\ left = {}

Step(p) ==
    \/ OpenDir(p) \/ Mkdir(p) \/ OpenFile(p) \/ UnlinkTmp(p) \/ CreateTmp(p)
    \/ WriteTmp(p) \/ Fsync(p) \/ RenameTmp(p) \/ Reopen(p) \/ Exit(p)

Next == \/ \E p \in Proc : \/ \E i \in Pid, c \in Content : Start(p, i, c)
                           \/ Step(p) \/ Fail(p) \/ Kill(p)
        \/ UserRemove
        \/ \E c \in Edit : UserEdit(c)

\* A process that can go on does.
Spec == Init /\ [][Next]_vars /\ \A p \in Proc : WF_vars(Step(p))

-----------------------------------------------------------------------------
(* Properties. *)

\* The user's own file, in whatever state the editor has it; or all of what
\* one process wanted, and nothing else.
Sound(f) == \/ \E c \in Edit : f.data = {c}
            \/ f.whole /\ \E c \in Content : f.data = {c}

\* Whoever reads the file, a process that ensured it or a later one, reads all
\* of one process's contents, or what the user made of it: the name never has
\* part of a file, nor a mixture of two, though processes are killed half way,
\* their pids are used again and the removal of what they left fails.
Complete ==
    /\ file # None => Sound(file)
    /\ \A p \in Proc : proc[p].got # None => Sound(proc[p].got)

\* A temp file belongs to the process that is writing it, unless a process
\* with that pid was killed or could not unlink it: every error path tries.
NoTempLeft ==
    \A i \in Pid : temp[i] # None =>
        i \in left \/ \E p \in Proc : proc[p].pc \in Making /\ proc[p].pid = i

\* ensure_dir and ensure_file end, also when two processes make the directory
\* at once and each finds the other's.
EnsureEnds == \A p \in Proc : At(p, "dir") ~> proc[p].pc \in Ended \cup {"done"}
=============================================================================
