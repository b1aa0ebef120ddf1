-------------------------- MODULE EnsureFileProofs --------------------------
(* Proofs about EnsureFile, for any processes, pids and contents. *)
EXTENDS EnsureFile, TLAPS

-----------------------------------------------------------------------------
(* The inductive invariant. *)

Live(p) == proc[p].pc \notin Ended

\* A live process has a pid to itself.
OwnPid ==
    /\ \A p \in Proc : Live(p) => proc[p].pid \in Pid /\ proc[p].want \in Content
    /\ \A p, q \in Proc : Live(p) /\ Live(q) /\ p # q => proc[p].pid # proc[q].pid

\* How far a process has come with its temp file: O_EXCL made it empty.
TempState ==
    \A p \in Proc :
        LET f == temp[proc[p].pid]
        IN  /\ At(p, "write") => f \in File /\ f.data = {}
            /\ proc[p].pc \in {"fsync", "rename"} =>
                 f \in File /\ f.whole /\ f.data = {proc[p].want}

Inv == TypeOK /\ OwnPid /\ TempState /\ Complete /\ NoTempLeft

-----------------------------------------------------------------------------

LEMMA InitInv == Init => Inv
BY NoneAssumption
   DEF Init, Inv, TypeOK, OwnPid, TempState, Complete, NoTempLeft, Live, At, Proc0, PC,
       Ended, Making

\* One lemma per action, one step per part of the invariant.
LEMMA StartInv == ASSUME Inv, NEW p \in Proc, NEW i \in Pid, NEW c \in Content,
                         Start(p, i, c) PROVE Inv'
<1> USE DEF Start, At
<1>1. TypeOK'
  BY DEF Inv, TypeOK, OwnPid, Live, PC, File, Making, Ended, TempState
<1>2. OwnPid'
  BY DEF Inv, OwnPid, TypeOK, Live, Ended
<1>3. TempState'
  BY NoneAssumption DEF Inv, TempState, OwnPid, Live, TypeOK, Ended, File
<1>4. Complete'
  BY DEF Inv, Complete, TypeOK, TempState, OwnPid, Live, Ended
<1>5. NoTempLeft'
  BY DEF Inv, NoTempLeft, OwnPid, Live, TypeOK, Making, Ended
<1> QED BY <1>1, <1>2, <1>3, <1>4, <1>5 DEF Inv

LEMMA OpenDirInv == ASSUME Inv, NEW p \in Proc, OpenDir(p) PROVE Inv'
<1> USE DEF OpenDir, GoTo, At
<1>1. TypeOK'
  BY DEF Inv, TypeOK, OwnPid, Live, PC, File, Making, Ended, TempState
<1>2. OwnPid'
  BY DEF Inv, OwnPid, TypeOK, Live, Ended
<1>3. TempState'
  BY NoneAssumption DEF Inv, TempState, OwnPid, Live, TypeOK, Ended, File
<1>4. Complete'
  BY DEF Inv, Complete, TypeOK, TempState, OwnPid, Live, Ended
<1>5. NoTempLeft'
  BY DEF Inv, NoTempLeft, OwnPid, Live, TypeOK, Making, Ended
<1> QED BY <1>1, <1>2, <1>3, <1>4, <1>5 DEF Inv

LEMMA MkdirInv == ASSUME Inv, NEW p \in Proc, Mkdir(p) PROVE Inv'
<1> USE DEF Mkdir, GoTo, At
<1>1. TypeOK'
  BY DEF Inv, TypeOK, OwnPid, Live, PC, File, Making, Ended, TempState
<1>2. OwnPid'
  BY DEF Inv, OwnPid, TypeOK, Live, Ended
<1>3. TempState'
  BY NoneAssumption DEF Inv, TempState, OwnPid, Live, TypeOK, Ended, File
<1>4. Complete'
  BY DEF Inv, Complete, TypeOK, TempState, OwnPid, Live, Ended
<1>5. NoTempLeft'
  BY DEF Inv, NoTempLeft, OwnPid, Live, TypeOK, Making, Ended
<1> QED BY <1>1, <1>2, <1>3, <1>4, <1>5 DEF Inv

LEMMA OpenFileInv == ASSUME Inv, NEW p \in Proc, OpenFile(p) PROVE Inv'
<1> USE DEF OpenFile, GoTo, At
<1>1. TypeOK'
  BY DEF Inv, TypeOK, OwnPid, Live, PC, File, Making, Ended, TempState
<1>2. OwnPid'
  BY DEF Inv, OwnPid, TypeOK, Live, Ended
<1>3. TempState'
  BY NoneAssumption DEF Inv, TempState, OwnPid, Live, TypeOK, Ended, File
<1>4. Complete'
  BY DEF Inv, Complete, TypeOK, TempState, OwnPid, Live, Ended
<1>5. NoTempLeft'
  BY DEF Inv, NoTempLeft, OwnPid, Live, TypeOK, Making, Ended
<1> QED BY <1>1, <1>2, <1>3, <1>4, <1>5 DEF Inv

LEMMA UnlinkTmpInv == ASSUME Inv, NEW p \in Proc, UnlinkTmp(p) PROVE Inv'
<1> USE DEF UnlinkTmp, DropTemp, GoTo, At
<1>1. TypeOK'
  BY DEF Inv, TypeOK, OwnPid, Live, PC, File, Making, Ended, TempState
<1>2. OwnPid'
  BY DEF Inv, OwnPid, TypeOK, Live, Ended
<1>3. TempState'
  BY NoneAssumption DEF Inv, TempState, OwnPid, Live, TypeOK, Ended, File
<1>4. Complete'
  BY DEF Inv, Complete, TypeOK, TempState, OwnPid, Live, Ended
<1>5. NoTempLeft'
  BY DEF Inv, NoTempLeft, OwnPid, Live, TypeOK, Making, Ended
<1> QED BY <1>1, <1>2, <1>3, <1>4, <1>5 DEF Inv

LEMMA CreateTmpInv == ASSUME Inv, NEW p \in Proc, CreateTmp(p) PROVE Inv'
<1>1. CASE temp[proc[p].pid] = None
  <2> USE DEF CreateTmp, GoTo, At, SetTemp
  <2> DEFINE f == [data |-> {}, whole |-> FALSE]
  <2>0. proc[p].pid \in Pid /\ f \in File
    BY DEF Inv, OwnPid, Live, Ended, File, TypeOK, TempState
  <2>a. temp' \in [Pid -> File \cup {None}] /\ temp' = [temp EXCEPT ![proc[p].pid] = f]
    BY <1>1, <2>0 DEF Inv, TypeOK
  <2>b. f.whole = FALSE /\ f.data = {}
    OBVIOUS
  <2> HIDE DEF f
  <2>1. TypeOK'
    BY <1>1, <2>0, <2>a, <2>b DEF Inv, TypeOK, OwnPid, Live, PC, Making, Ended, TempState
  <2>2. OwnPid'
    BY DEF Inv, OwnPid, TypeOK, Live, Ended
  <2>3. TempState'
    BY <1>1, NoneAssumption, <2>0, <2>a, <2>b DEF Inv, TempState, OwnPid, Live, TypeOK, Ended
  <2>4. Complete'
    BY <1>1, <2>0, <2>a, <2>b DEF Inv, Complete, TypeOK, TempState, OwnPid, Live, Ended
  <2>5. NoTempLeft'
    BY <1>1, <2>0, <2>a, NoneAssumption DEF Inv, NoTempLeft, OwnPid, Live, TypeOK, Making, Ended
  <2> QED BY <2>1, <2>2, <2>3, <2>4, <2>5 DEF Inv
<1>2. CASE temp[proc[p].pid] # None
  <2> USE DEF CreateTmp, DropTemp, GoTo, At
  <2>0. /\ proc' = [proc EXCEPT ![p].pc = "failed"]
        /\ At(p, "create") /\ DropTemp(p) /\ UNCHANGED <<dir, file>>
    BY <1>2
  <2> HIDE DEF CreateTmp
  <2>1. TypeOK'
    BY <2>0 DEF Inv, TypeOK, OwnPid, Live, PC, Making, Ended, TempState
  <2>2. OwnPid'
    BY <2>0 DEF Inv, OwnPid, TypeOK, Live, Ended
  <2>3. TempState'
    BY NoneAssumption, <2>0 DEF Inv, TempState, OwnPid, Live, TypeOK, Ended
  <2>4. Complete'
    BY <2>0 DEF Inv, Complete, TypeOK, TempState, OwnPid, Live, Ended
  <2>5. NoTempLeft'
    BY <2>0 DEF Inv, NoTempLeft, OwnPid, Live, TypeOK, Making, Ended
  <2> QED BY <2>1, <2>2, <2>3, <2>4, <2>5 DEF Inv
<1> QED BY <1>1, <1>2

LEMMA WriteTmpInv == ASSUME Inv, NEW p \in Proc, WriteTmp(p) PROVE Inv'
<1> USE DEF WriteTmp, GoTo, At, SetTemp
<1> DEFINE f == [data |-> temp[proc[p].pid].data \cup {proc[p].want}, whole |-> TRUE]
<1>c. temp[proc[p].pid].data = {} /\ proc[p].want \in Content /\ proc[p].pid \in Pid
  BY DEF Inv, OwnPid, Live, Ended, TempState
<1>0. proc[p].pid \in Pid /\ f \in File
  BY <1>c DEF File
<1>a. temp' \in [Pid -> File \cup {None}] /\ temp' = [temp EXCEPT ![proc[p].pid] = f]
  BY <1>0 DEF Inv, TypeOK
<1>b. f.whole = TRUE /\ f.data = {proc[p].want}
  BY <1>c
<1> HIDE DEF f
<1>1. TypeOK'
  BY <1>0, <1>a, <1>b DEF Inv, TypeOK, OwnPid, Live, PC, Making, Ended, TempState
<1>2. OwnPid'
  BY DEF Inv, OwnPid, TypeOK, Live, Ended
<1>3. TempState'
  <2> USE DEF TempState
  <2> TAKE q \in Proc
  <2>1. CASE q = p
    <3>1. proc'[p].pc = "fsync" /\ proc'[p].pid = proc[p].pid /\ proc'[p].want = proc[p].want
      BY DEF Inv, TypeOK
    <3>2. temp'[proc[p].pid] = f
      BY <1>0, <1>a DEF Inv, TypeOK
    <3> QED BY <2>1, <3>1, <3>2, <1>0, <1>b
  <2>2. CASE q # p /\ proc[q].pc \in Making
    BY <2>2, <1>0, <1>a DEF Inv, TempState, OwnPid, Live, TypeOK, Ended, Making
  <2>3. CASE q # p /\ proc[q].pc \notin Making
    BY <2>3 DEF Inv, TypeOK, Making
  <2> QED BY <2>1, <2>2, <2>3
<1>4. Complete'
  BY <1>0, <1>a, <1>b DEF Inv, Complete, TypeOK, TempState, OwnPid, Live, Ended
<1>5. NoTempLeft'
  BY DEF Inv, NoTempLeft, OwnPid, Live, TypeOK, Making, Ended
<1> QED BY <1>1, <1>2, <1>3, <1>4, <1>5 DEF Inv

LEMMA FsyncInv == ASSUME Inv, NEW p \in Proc, Fsync(p) PROVE Inv'
<1> USE DEF Fsync, GoTo, At
<1>1. TypeOK'
  BY DEF Inv, TypeOK, OwnPid, Live, PC, File, Making, Ended, TempState
<1>2. OwnPid'
  BY DEF Inv, OwnPid, TypeOK, Live, Ended
<1>3. TempState'
  BY NoneAssumption DEF Inv, TempState, OwnPid, Live, TypeOK, Ended, File
<1>4. Complete'
  BY DEF Inv, Complete, TypeOK, TempState, OwnPid, Live, Ended
<1>5. NoTempLeft'
  BY DEF Inv, NoTempLeft, OwnPid, Live, TypeOK, Making, Ended
<1> QED BY <1>1, <1>2, <1>3, <1>4, <1>5 DEF Inv

LEMMA RenameTmpInv == ASSUME Inv, NEW p \in Proc, RenameTmp(p) PROVE Inv'
<1> USE DEF RenameTmp, GoTo, At
<1>1. TypeOK'
  BY DEF Inv, TypeOK, OwnPid, Live, PC, File, Making, Ended, TempState
<1>2. OwnPid'
  BY DEF Inv, OwnPid, TypeOK, Live, Ended
<1>3. TempState'
  BY NoneAssumption DEF Inv, TempState, OwnPid, Live, TypeOK, Ended, File
<1>4. Complete'
  BY DEF Inv, Complete, Sound, TypeOK, TempState, OwnPid, Live, Ended
<1>5. NoTempLeft'
  BY DEF Inv, NoTempLeft, OwnPid, Live, TypeOK, Making, Ended
<1> QED BY <1>1, <1>2, <1>3, <1>4, <1>5 DEF Inv

LEMMA ReopenInv == ASSUME Inv, NEW p \in Proc, Reopen(p) PROVE Inv'
<1> USE DEF Reopen, GoTo, At
<1>1. TypeOK'
  BY DEF Inv, TypeOK, OwnPid, Live, PC, File, Making, Ended, TempState
<1>2. OwnPid'
  BY DEF Inv, OwnPid, TypeOK, Live, Ended
<1>3. TempState'
  BY NoneAssumption DEF Inv, TempState, OwnPid, Live, TypeOK, Ended, File
<1>4. Complete'
  BY DEF Inv, Complete, TypeOK, TempState, OwnPid, Live, Ended
<1>5. NoTempLeft'
  BY DEF Inv, NoTempLeft, OwnPid, Live, TypeOK, Making, Ended
<1> QED BY <1>1, <1>2, <1>3, <1>4, <1>5 DEF Inv

LEMMA ExitInv == ASSUME Inv, NEW p \in Proc, Exit(p) PROVE Inv'
<1> USE DEF Exit, At, Proc0
<1>1. TypeOK'
  BY DEF Inv, TypeOK, OwnPid, Live, PC, File, Making, Ended, TempState
<1>2. OwnPid'
  BY DEF Inv, OwnPid, TypeOK, Live, Ended
<1>3. TempState'
  BY NoneAssumption DEF Inv, TempState, OwnPid, Live, TypeOK, Ended, File
<1>4. Complete'
  BY DEF Inv, Complete, TypeOK, TempState, OwnPid, Live, Ended
<1>5. NoTempLeft'
  BY DEF Inv, NoTempLeft, OwnPid, Live, TypeOK, Making, Ended
<1> QED BY <1>1, <1>2, <1>3, <1>4, <1>5 DEF Inv

LEMMA FailInv == ASSUME Inv, NEW p \in Proc, Fail(p) PROVE Inv'
<1> USE DEF Fail, DropTemp, GoTo, At
<1>1. TypeOK'
  BY DEF Inv, TypeOK, OwnPid, Live, PC, File, Making, Ended, TempState
<1>2. OwnPid'
  BY DEF Inv, OwnPid, TypeOK, Live, Ended
<1>3. TempState'
  BY NoneAssumption DEF Inv, TempState, OwnPid, Live, TypeOK, Ended, File
<1>4. Complete'
  BY DEF Inv, Complete, TypeOK, TempState, OwnPid, Live, Ended
<1>5. NoTempLeft'
  BY DEF Inv, NoTempLeft, OwnPid, Live, TypeOK, Making, Ended
<1> QED BY <1>1, <1>2, <1>3, <1>4, <1>5 DEF Inv

LEMMA KillInv == ASSUME Inv, NEW p \in Proc, Kill(p) PROVE Inv'
<1> USE DEF Kill, At, Proc0
<1>1. TypeOK'
  BY DEF Inv, TypeOK, OwnPid, Live, PC, File, Making, Ended, TempState
<1>2. OwnPid'
  BY DEF Inv, OwnPid, TypeOK, Live, Ended
<1>3. TempState'
  BY NoneAssumption DEF Inv, TempState, OwnPid, Live, TypeOK, Ended, File
<1>4. Complete'
  BY DEF Inv, Complete, TypeOK, TempState, OwnPid, Live, Ended
<1>5. NoTempLeft'
  BY DEF Inv, NoTempLeft, OwnPid, Live, TypeOK, Making, Ended
<1> QED BY <1>1, <1>2, <1>3, <1>4, <1>5 DEF Inv

LEMMA UserEditInv == ASSUME Inv, NEW c \in Edit, UserEdit(c) PROVE Inv'
<1> USE DEF UserEdit, At
<1>0. file' \in File /\ file'.data = {c}
  BY DEF File
<1>1. TypeOK'
  BY <1>0 DEF Inv, TypeOK, OwnPid, Live, PC, Making, Ended, TempState
<1>2. OwnPid'
  BY DEF Inv, OwnPid, TypeOK, Live, Ended
<1>3. TempState'
  BY NoneAssumption, <1>0 DEF Inv, TempState, OwnPid, Live, TypeOK, Ended
<1>4. Complete'
  BY <1>0 DEF Inv, Complete, Sound, TypeOK, TempState, OwnPid, Live, Ended
<1>5. NoTempLeft'
  BY DEF Inv, NoTempLeft, OwnPid, Live, TypeOK, Making, Ended
<1> QED BY <1>1, <1>2, <1>3, <1>4, <1>5 DEF Inv

LEMMA UserRemoveInv == ASSUME Inv, UserRemove PROVE Inv'
<1> USE DEF UserRemove, At
<1>1. TypeOK'
  BY DEF Inv, TypeOK, OwnPid, Live, PC, File, Making, Ended, TempState
<1>2. OwnPid'
  BY DEF Inv, OwnPid, TypeOK, Live, Ended
<1>3. TempState'
  BY NoneAssumption DEF Inv, TempState, OwnPid, Live, TypeOK, Ended, File
<1>4. Complete'
  BY DEF Inv, Complete, Sound, TypeOK, TempState, OwnPid, Live, Ended
<1>5. NoTempLeft'
  BY DEF Inv, NoTempLeft, OwnPid, Live, TypeOK, Making, Ended
<1> QED BY <1>1, <1>2, <1>3, <1>4, <1>5 DEF Inv

-----------------------------------------------------------------------------

LEMMA NextInv == ASSUME Inv, [Next]_vars PROVE Inv'
<1>1. CASE UNCHANGED vars
  BY <1>1 DEF vars, Inv, TypeOK, OwnPid, TempState, Complete, NoTempLeft, Live, At
<1>2. CASE \E p \in Proc, i \in Pid, c \in Content : Start(p, i, c)
  BY <1>2, StartInv
<1>3. ASSUME NEW p \in Proc, Step(p) PROVE Inv'
  BY <1>3, OpenDirInv, MkdirInv, OpenFileInv, UnlinkTmpInv, CreateTmpInv, WriteTmpInv,
     FsyncInv, RenameTmpInv, ReopenInv, ExitInv DEF Step
<1>4. ASSUME NEW p \in Proc, Fail(p) \/ Kill(p) PROVE Inv'
  BY <1>4, FailInv, KillInv
<1>5. CASE UserRemove \/ \E c \in Edit : UserEdit(c)
  BY <1>5, UserRemoveInv, UserEditInv
<1> QED BY <1>1, <1>2, <1>3, <1>4, <1>5 DEF Next

LEMMA Invariant == Spec => []Inv
  BY InitInv, NextInv, PTL DEF Spec

\* The variables keep their types.
THEOREM TypeCorrect == Spec => []TypeOK
<1>1. Inv => TypeOK  BY DEF Inv
<1> QED BY <1>1, Invariant, PTL

\* The name never has part of a file or two processes' contents in one,
\* whatever fails, is killed and has its pid used again (ensure_file writes a
\* temp file that O_EXCL made, and renames it when it is whole).
THEOREM FileComplete == Spec => []Complete
<1>1. Inv => Complete  BY DEF Inv
<1> QED BY <1>1, Invariant, PTL

\* Only a kill or a failed unlink leaves a temp file (the Defer of
\* ensure_file).
THEOREM NothingLeft == Spec => []NoTempLeft
<1>1. Inv => NoTempLeft  BY DEF Inv
<1> QED BY <1>1, Invariant, PTL
=============================================================================
