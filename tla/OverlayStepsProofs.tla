-------------------------- MODULE OverlayStepsProofs --------------------------
(***************************************************************************)
(* The system calls of the overlay's handlers keep a client's files for    *)
(* any number of threads, names, pids, failures and crashes.               *)
(***************************************************************************)
EXTENDS OverlaySteps, TLAPS

-----------------------------------------------------------------------------
(* The inductive invariant. *)

File == Home \cup Content

CopyPc == {"open_temp", "copy", "install"}
MovePc == {"ready", "clear", "clear_device", "clear_sidecar", "move"}
MovedPc == {"white", "mark", "done"}

Op == {"idle", "write", "truncate", "create", "unlink", "rename"}
Pc == CopyPc \cup MovePc \cup MovedPc \cup {"idle", "pwrite", "open_new", "remove"}

ThType == [Thread -> [op : Op, pc : Pc, name : Name \cup {Absent}, to : Name \cup {Absent},
                      val : File \cup {Absent}, k : 1..Attempts, fd : Name \cup {Absent}]]

TypeInv ==
    /\ lower \in [Name -> Home \cup {Absent}]
    /\ upper \in [Name -> File \cup {Absent, Device}]
    /\ sidecar \subseteq Name
    /\ temp \in [Slot -> Home \cup {Absent, Partial}]
    /\ pid \in Pid
    /\ th \in ThType
    /\ may \in [Name -> SUBSET (File \cup {Absent})]
    /\ raced \subseteq Name

\* Which handler may be at which call, and on which names.
Shape ==
    \A t \in Thread :
        /\ th[t].pc = "idle" <=> th[t].op = "idle"
        /\ th[t].pc # "idle" => th[t].name \in Name /\ th[t].to \in Name
        /\ th[t].pc # "idle" => (th[t].op = "rename" <=> th[t].name # th[t].to)
        /\ th[t].pc \in CopyPc \cup {"ready"} => th[t].op \in {"write", "truncate", "rename"}
        /\ th[t].pc \in {"clear", "clear_device", "clear_sidecar"} => th[t].op \in {"create", "rename"}
        /\ th[t].pc = "open_new" => th[t].op = "create"
        /\ th[t].pc = "move" => th[t].op = "rename"
        /\ th[t].pc = "remove" => th[t].op = "unlink"
        /\ th[t].pc \in MovedPc => th[t].op \in Exclusive
        /\ th[t].pc = "pwrite" => th[t].op = "write"
        /\ th[t].pc # "pwrite" => th[t].fd = Absent
        /\ th[t].op = "write" => th[t].val \in Content
        /\ th[t].op = "rename" => th[t].val \in File

\* A temp file belongs to the one thread that has made it.
Temps ==
    /\ \A t \in Thread :
        /\ th[t].pc \in CopyPc => lower[th[t].name] \in Home
        /\ th[t].pc = "copy" => temp[MyTemp(t)] = Partial
        /\ th[t].pc = "install" => temp[MyTemp(t)] = lower[th[t].name]
    /\ \A t, u \in Thread :
        {th[t].pc, th[u].pc} \subseteq {"copy", "install"} /\ MyTemp(t) = MyTemp(u) => t = u

\* The path locks hold as long as the handlers run.
Locked ==
    \A t, u \in Thread : t # u =>
        \A n \in Names(t) \cap Names(u) :
            n \in raced /\ th[t].op \notin Exclusive /\ th[u].op \notin Exclusive

\* A whiteout file and an upper file are never both there.
Hidden == \A n \in sidecar : upper[n] \in {Absent, Device}

\* An open file has a name where upper has it, or none; it has lost the name
\* that unlink or rename has taken away.
Open ==
    \A t \in Thread :
        /\ th[t].fd # Absent => upper[th[t].fd] \in File
        /\ th[t].pc \in MovedPc => \A u \in Thread : th[u].fd # th[t].name

\* A name that is being copied up shows the real home's file until then.
CopyingUp ==
    \A t \in Thread :
        th[t].pc \in CopyPc =>
            /\ th[t].name \notin sidecar
            /\ th[t].name \notin raced \/ th[t].op = "rename" => upper[th[t].name] = Absent

\* Where the file that is being renamed is.
Renaming ==
    \A t \in Thread :
        th[t].op = "rename" =>
            /\ th[t].pc \in CopyPc => lower[th[t].name] = th[t].val
            /\ th[t].pc \in MovePc => th[t].name \notin sidecar /\ upper[th[t].name] = th[t].val
            /\ th[t].pc \in MovedPc => th[t].to \notin sidecar /\ upper[th[t].to] = th[t].val

\* What clear_whiteout and place_whiteout have done.
Whiteouts ==
    \A t \in Thread :
        /\ th[t].pc \in {"open_new", "move"} => th[t].to \notin sidecar
        /\ th[t].pc = "mark" => upper[th[t].name] = Absent
        /\ th[t].pc = "done" => View(th[t].name) = Absent

\* Left, where a rename has not yet put its file at the new name.
LeftNow(t, n) ==
    IF th[t].op = "rename" /\ th[t].pc \notin MovedPc /\ n \in Names(t) /\ n # th[t].name
    THEN {lower[n]} ELSE Left(t, n)

ExplainedAt(n) == View(n) \in may[n] \/ \E t \in Thread : View(n) \in LeftNow(t, n)

Explaining == \A n \in Name \ raced : ExplainedAt(n)

Inv == /\ TypeInv /\ Shape /\ Temps /\ Locked /\ Hidden /\ Open /\ CopyingUp
       /\ Renaming /\ Whiteouts /\ Explaining /\ NoLitter

-----------------------------------------------------------------------------
(* What a client sees, and what a handler may leave. *)

\* What there is to find at a name, and what there is not.
LEMMA Contents ==
    /\ \A c \in File : c # Absent /\ c # Partial /\ c # Device
    /\ Home \subseteq File /\ Content \subseteq File /\ Empty \in File
    /\ Absent # Partial /\ Absent # Device /\ Partial # Device
    /\ Absent \notin Name /\ Empty \in Content
BY ContentAssumption DEF File

\* View, without the detour through Where.
LEMMA ViewIs ==
    ASSUME NEW n \in Name
    PROVE  View(n) = IF n \in sidecar \/ upper[n] = Device THEN Absent
                     ELSE IF upper[n] # Absent THEN upper[n] ELSE lower[n]
BY DEF View, Where

\* The same for the state after a step.
LEMMA ViewIsNext ==
    ASSUME NEW n \in Name
    PROVE  View(n)' = IF n \in sidecar' \/ upper'[n] = Device THEN Absent
                      ELSE IF upper'[n] # Absent THEN upper'[n] ELSE lower'[n]
BY DEF View, Where

\* LeftNow, by the handler.
LEMMA LeftNowIs ==
    ASSUME NEW t \in Thread, NEW n, NEW v
    PROVE  v \in LeftNow(t, n) <=>
             /\ n \in Names(t)
             /\ \/ th[t].op = "unlink" /\ v \in {Absent, lower[n]}
                \/ th[t].op = "create" /\ v = lower[n]
                \/ th[t].op = "rename" /\ n = th[t].name /\ v \in {Absent, lower[n]}
                \/ /\ th[t].op = "rename" /\ n # th[t].name
                   /\ v = lower[n] \/ (th[t].pc \in MovedPc /\ v = th[t].val)
<1>1. CASE n \notin Names(t)
  BY <1>1 DEF LeftNow, Left
<1>2. CASE n \in Names(t) /\ th[t].op = "unlink"
  BY <1>2 DEF LeftNow, Left
<1>3. CASE n \in Names(t) /\ th[t].op = "create"
  BY <1>3 DEF LeftNow, Left
<1>4. CASE n \in Names(t) /\ th[t].op = "rename" /\ n = th[t].name
  BY <1>4 DEF LeftNow, Left
<1>5. CASE n \in Names(t) /\ th[t].op = "rename" /\ n # th[t].name /\ th[t].pc \notin MovedPc
  BY <1>5 DEF LeftNow
<1>6. CASE n \in Names(t) /\ th[t].op = "rename" /\ n # th[t].name /\ th[t].pc \in MovedPc
  <2>1. LeftNow(t, n) = {th[t].val, lower[n]}
    BY <1>6 DEF LeftNow, Left
  <2> QED BY <1>6, <2>1
<1>7. CASE n \in Names(t) /\ th[t].op \notin {"unlink", "create", "rename"}
  BY <1>7 DEF LeftNow, Left
<1> QED BY <1>1, <1>2, <1>3, <1>4, <1>5, <1>6, <1>7

\* The same for the state after a step.
LEMMA LeftNowIsNext ==
    ASSUME NEW t \in Thread, NEW n, NEW v
    PROVE  v \in LeftNow(t, n)' <=>
             /\ n \in Names(t)'
             /\ \/ th'[t].op = "unlink" /\ v \in {Absent, lower'[n]}
                \/ th'[t].op = "create" /\ v = lower'[n]
                \/ th'[t].op = "rename" /\ n = th'[t].name /\ v \in {Absent, lower'[n]}
                \/ /\ th'[t].op = "rename" /\ n # th'[t].name
                   /\ v = lower'[n] \/ (th'[t].pc \in MovedPc /\ v = th'[t].val)
<1>1. CASE n \notin Names(t)'
  BY <1>1 DEF LeftNow, Left
<1>2. CASE n \in Names(t)' /\ th'[t].op = "unlink"
  BY <1>2 DEF LeftNow, Left
<1>3. CASE n \in Names(t)' /\ th'[t].op = "create"
  BY <1>3 DEF LeftNow, Left
<1>4. CASE n \in Names(t)' /\ th'[t].op = "rename" /\ n = th'[t].name
  BY <1>4 DEF LeftNow, Left
<1>5. CASE n \in Names(t)' /\ th'[t].op = "rename" /\ n # th'[t].name /\ th'[t].pc \notin MovedPc
  BY <1>5 DEF LeftNow
<1>6. CASE n \in Names(t)' /\ th'[t].op = "rename" /\ n # th'[t].name /\ th'[t].pc \in MovedPc
  <2>1. LeftNow(t, n)' = {th'[t].val, lower'[n]}
    BY <1>6 DEF LeftNow, Left
  <2> QED BY <1>6, <2>1
<1>7. CASE n \in Names(t)' /\ th'[t].op \notin {"unlink", "create", "rename"}
  BY <1>7 DEF LeftNow, Left
<1> QED BY <1>1, <1>2, <1>3, <1>4, <1>5, <1>6, <1>7

\* A step that leaves a handler on its way leaves it what it may leave.
LEMMA LeftKept ==
    ASSUME NEW u \in Thread, NEW n, lower' = lower, Names(u)' = Names(u), th'[u].op = th[u].op,
           th'[u].name = th[u].name,
           th[u].op = "rename" /\ th[u].pc \in MovedPc /\ n \in Names(u) /\ n # th[u].name
             => th'[u].pc \in MovedPc /\ th'[u].val = th[u].val
    PROVE  LeftNow(u, n) \subseteq LeftNow(u, n)'
<1> SUFFICES ASSUME NEW v \in LeftNow(u, n) PROVE v \in LeftNow(u, n)'
  OBVIOUS
<1>1. /\ n \in Names(u)'
      /\ \/ th'[u].op = "unlink" /\ v \in {Absent, lower'[n]}
         \/ th'[u].op = "create" /\ v = lower'[n]
         \/ th'[u].op = "rename" /\ n = th'[u].name /\ v \in {Absent, lower'[n]}
         \/ /\ th'[u].op = "rename" /\ n # th'[u].name
            /\ v = lower'[n] \/ (th'[u].pc \in MovedPc /\ v = th'[u].val)
  BY LeftNowIs
<1> QED BY <1>1, LeftNowIsNext
\* The step of t changes nothing but pc in th.

LEMMA LeftNowLeft == ASSUME NEW t \in Thread, NEW n PROVE LeftNow(t, n) \subseteq Left(t, n)
<1>1. CASE th[t].op = "rename" /\ th[t].pc \notin MovedPc /\ n \in Names(t) /\ n # th[t].name
  <2>1. Left(t, n) = {th[t].val, lower[n]} /\ LeftNow(t, n) = {lower[n]}
    BY <1>1 DEF LeftNow, Left
  <2> QED BY <2>1
<1> QED BY <1>1 DEF LeftNow

LEMMA LeftType ==
    ASSUME TypeInv, Shape, NEW t \in Thread, NEW n \in Name
    PROVE  Left(t, n) \subseteq File \cup {Absent}
<1> USE Contents
<1>1. CASE n \notin Names(t)
  BY <1>1 DEF Left
<1>2. CASE n \in Names(t) /\ th[t].op = "unlink"
  BY <1>2 DEF Left, TypeInv
<1>3. CASE n \in Names(t) /\ th[t].op = "create"
  BY <1>3 DEF Left, TypeInv
<1>4. CASE n \in Names(t) /\ th[t].op = "rename" /\ n = th[t].name
  BY <1>4 DEF Left, TypeInv
<1>5. CASE n \in Names(t) /\ th[t].op = "rename" /\ n # th[t].name
  <2>1. Left(t, n) = {th[t].val, lower[n]}
    BY <1>5 DEF Left
  <2> QED BY <2>1, <1>5 DEF TypeInv, Shape
<1>7. CASE n \in Names(t) /\ th[t].op \notin {"unlink", "create", "rename"}
  BY <1>7 DEF Left
<1> QED BY <1>1, <1>2, <1>3, <1>4, <1>5, <1>7

-----------------------------------------------------------------------------
(* What the steps do to the threads. *)

\* A step of t that changes its pc and nothing else.
Moves(t, pc) ==
    /\ \A u \in Thread \ {t} : th'[u] = th[u]
    /\ th'[t].pc = pc /\ th'[t].op = th[t].op /\ th'[t].name = th[t].name
    /\ th'[t].to = th[t].to /\ th'[t].val = th[t].val /\ th'[t].k = th[t].k
    /\ th'[t].fd = th[t].fd

LEMMA GoToMoves ==
    ASSUME TypeInv, NEW t \in Thread, NEW pc \in Pc, GoTo(t, pc)
    PROVE  Moves(t, pc) /\ th' \in ThType
BY DEF TypeInv, GoTo, Moves, ThType

\* ... and that also renames or unlinks the file open as `from'.
MovesFd(t, pc, from, to) ==
    /\ \A u \in Thread \ {t} :
       /\ th'[u].pc = th[u].pc /\ th'[u].op = th[u].op /\ th'[u].name = th[u].name
       /\ th'[u].to = th[u].to /\ th'[u].val = th[u].val /\ th'[u].k = th[u].k
       /\ th'[u].fd = IF th[u].fd = from THEN to ELSE IF th[u].fd = to THEN Absent ELSE th[u].fd
    /\ th'[t].pc = pc /\ th'[t].op = th[t].op /\ th'[t].name = th[t].name
    /\ th'[t].to = th[t].to /\ th'[t].val = th[t].val /\ th'[t].k = th[t].k
    /\ th'[t].fd = th[t].fd

LEMMA GoToMovesFd ==
    ASSUME TypeInv, NEW t \in Thread, NEW pc \in Pc, NEW from \in Name,
           NEW to \in Name \cup {Absent}, GoToMoving(t, pc, from, to)
    PROVE  MovesFd(t, pc, from, to) /\ th' \in ThType
<1> DEFINE R == [op : Op, pc : Pc, name : Name \cup {Absent}, to : Name \cup {Absent},
                          val : File \cup {Absent}, k : 1..Attempts, fd : Name \cup {Absent}]
<1>1. \A u \in Thread : th[u] \in R
  BY DEF TypeInv, ThType
<1>2. \A u \in Thread : /\ [th[u] EXCEPT !.fd = to] \in R
                         /\ [th[u] EXCEPT !.fd = Absent] \in R
                         /\ [th[u] EXCEPT !.pc = pc] \in R
  BY <1>1
<1> HIDE DEF R
<1>3. th' \in [Thread -> R]
  BY <1>1, <1>2 DEF GoToMoving
<1>4. \A u \in Thread \ {t} :
        th'[u] = IF th[u].fd = from THEN [th[u] EXCEPT !.fd = to]
                 ELSE IF th[u].fd = to THEN [th[u] EXCEPT !.fd = Absent]
                 ELSE th[u]
  BY DEF GoToMoving
<1>5. th'[t] = [th[t] EXCEPT !.pc = pc]
  BY DEF GoToMoving
<1>6. ASSUME NEW u \in Thread \ {t} PROVE
       /\ th'[u].pc = th[u].pc /\ th'[u].op = th[u].op /\ th'[u].name = th[u].name
       /\ th'[u].to = th[u].to /\ th'[u].val = th[u].val /\ th'[u].k = th[u].k
       /\ th'[u].fd = IF th[u].fd = from THEN to ELSE IF th[u].fd = to THEN Absent ELSE th[u].fd
   BY <1>1, <1>4 DEF R
<1> QED BY <1>1, <1>3, <1>5, <1>6 DEF MovesFd, ThType, R

\* The last step of a handler.
Ends(t) ==
    /\ \A u \in Thread \ {t} : th'[u] = th[u]
    /\ th'[t].pc = "idle" /\ th'[t].op = "idle" /\ th'[t].name = Absent
    /\ th'[t].to = Absent /\ th'[t].val = Absent /\ th'[t].k = 1 /\ th'[t].fd = Absent

LEMMA EndEnds == ASSUME TypeInv, NEW t \in Thread, End(t) PROVE Ends(t) /\ th' \in ThType
BY BoundsAssumption DEF TypeInv, End, Ends, Idle, ThType, Op, Pc

\* The next attempt of copy_regular at a name for its temp file.
Tries(t) ==
    /\ \A u \in Thread \ {t} : th'[u] = th[u]
    /\ th'[t].pc = th[t].pc /\ th'[t].op = th[t].op /\ th'[t].name = th[t].name
    /\ th'[t].to = th[t].to /\ th'[t].val = th[t].val /\ th'[t].k = th[t].k + 1
    /\ th'[t].fd = th[t].fd

\* op_open ends, with an open file.
Opens(t) ==
    /\ \A u \in Thread \ {t} : th'[u] = th[u]
    /\ th'[t].pc = "pwrite" /\ th'[t].op = th[t].op /\ th'[t].name = th[t].name
    /\ th'[t].to = th[t].to /\ th'[t].val = th[t].val /\ th'[t].k = th[t].k
    /\ th'[t].fd = th[t].name

\* op_write: a rename on its way carries what was written.
Writes(t) ==
    /\ \A u \in Thread \ {t} :
       /\ th'[u].pc = th[u].pc /\ th'[u].op = th[u].op /\ th'[u].name = th[u].name
       /\ th'[u].to = th[u].to /\ th'[u].k = th[u].k /\ th'[u].fd = th[u].fd
       /\ th'[u].val = IF th[t].fd \in Name /\ Carries(u) = th[t].fd THEN th[t].val ELSE th[u].val
    /\ th'[t].pc = "idle" /\ th'[t].op = "idle" /\ th'[t].name = Absent
    /\ th'[t].to = Absent /\ th'[t].val = Absent /\ th'[t].k = 1 /\ th'[t].fd = Absent

LEMMA PWriteWrites == ASSUME Inv, NEW t \in Thread, PWrite(t) PROVE Writes(t) /\ th' \in ThType
<1> DEFINE R == [op : Op, pc : Pc, name : Name \cup {Absent}, to : Name \cup {Absent},
                          val : File \cup {Absent}, k : 1..Attempts, fd : Name \cup {Absent}]
<1>1. \A u \in Thread : th[u] \in R
  BY DEF Inv, TypeInv, ThType
<1>2. \A u \in Thread : [th[u] EXCEPT !.val = th[t].val] \in R
  BY <1>1
<1>3. Idle \in R
  BY BoundsAssumption DEF Idle, Op, Pc
<1> HIDE DEF R
<1>4. th' \in [Thread -> R]
  BY <1>1, <1>2, <1>3 DEF PWrite
<1>5. \A u \in Thread \ {t} :
        th'[u] = IF th[t].fd \in Name /\ Carries(u) = th[t].fd
                 THEN [th[u] EXCEPT !.val = th[t].val] ELSE th[u]
  BY DEF PWrite
<1>6. th'[t] = Idle
  BY DEF PWrite
<1>7. ASSUME NEW u \in Thread \ {t} PROVE
       /\ th'[u].pc = th[u].pc /\ th'[u].op = th[u].op /\ th'[u].name = th[u].name
       /\ th'[u].to = th[u].to /\ th'[u].k = th[u].k /\ th'[u].fd = th[u].fd
       /\ th'[u].val = IF th[t].fd \in Name /\ Carries(u) = th[t].fd THEN th[t].val ELSE th[u].val
   BY <1>1, <1>5 DEF R
<1> QED BY <1>4, <1>6, <1>7 DEF Writes, ThType, R, Idle

\* The first step of a handler.
Begins(t, op, n, to, val, pc) ==
    /\ \A u \in Thread \ {t} : th'[u] = th[u]
    /\ th'[t].pc = pc /\ th'[t].op = op /\ th'[t].name = n
    /\ th'[t].to = to /\ th'[t].val = val /\ th'[t].k = 1 /\ th'[t].fd = Absent

\* Which handlers begin, where, and what the kernel has found before.
MayBegin(op, n, to, val, pc) ==
    /\ op = "rename" <=> n # to
    /\ \/ op \in {"write", "truncate", "rename"} /\ pc = CopyUpPc(n) /\ View(n) # Absent
       \/ op = "create" /\ pc = "clear"
       \/ op = "unlink" /\ pc = "remove"
    /\ op = "write" => val \in Content
    /\ op = "rename" => val = View(n)

LEMMA MyTempType == ASSUME Inv, NEW t \in Thread, th[t].pc # "idle" PROVE MyTemp(t) \in Slot
BY DEF Inv, TypeInv, ThType, Shape, Slot, MyTemp

\* Handlers meet only where both share the path lock, and then the name is raced.
LEMMA Alone ==
    ASSUME Inv, NEW t \in Thread, NEW u \in Thread, t # u, NEW n \in Names(t), n \in Names(u)
    PROVE  n \in raced /\ th[t].op \notin Exclusive /\ th[u].op \notin Exclusive
BY DEF Inv, Locked

-----------------------------------------------------------------------------
(* The invariant: Init, the beginnings and the ends. *)

LEMMA InitInv == Init => Inv
<1> SUFFICES ASSUME Init PROVE Inv
  OBVIOUS
<1> USE Contents DEF Init
<1>0. \A t \in Thread : /\ th[t].pc = "idle" /\ th[t].op = "idle" /\ th[t].name = Absent
                        /\ th[t].to = Absent /\ th[t].fd = Absent
  BY DEF Idle
<1>1. TypeInv
  BY BoundsAssumption DEF TypeInv, ThType, Idle, Op, Pc
<1>2. Shape /\ Temps /\ CopyingUp /\ Renaming /\ Whiteouts
  BY <1>0 DEF Shape, Temps, CopyingUp, Renaming, Whiteouts, CopyPc, MovePc, MovedPc
<1>3. Locked
  BY <1>0 DEF Locked, Names
<1>4. Hidden /\ Open /\ NoLitter
  BY <1>0 DEF Hidden, Open, NoLitter, MovedPc
<1>5. Explaining
  BY ViewIs DEF Explaining, ExplainedAt
<1> QED BY <1>1, <1>2, <1>3, <1>4, <1>5 DEF Inv

LEMMA BeginInv ==
    ASSUME Inv, NEW t \in Thread, NEW op, NEW n \in Name, NEW to \in Name, NEW val, NEW pc,
           val \in File \cup {Absent}, Begin(t, op, n, to, val, pc), MayBegin(op, n, to, val, pc)
    PROVE  Inv'
<1> USE Contents DEF Begin, At, files
<1>m. /\ pc \in {"open_temp", "ready", "clear", "remove"} /\ op \in Op
      /\ pc = "open_temp" => /\ op \in {"write", "truncate", "rename"} /\ n \notin sidecar
                             /\ upper[n] = Absent /\ lower[n] \in Home /\ View(n) = lower[n]
      /\ pc = "ready" => /\ op \in {"write", "truncate", "rename"} /\ n \notin sidecar
                         /\ upper[n] \in File /\ View(n) = upper[n]
      /\ pc = "clear" => op = "create"
      /\ pc = "remove" => op = "unlink"
  <2>1. View(n) # Absent => n \notin sidecar /\ upper[n] # Device
    BY ViewIs
  <2>2. CASE op \in {"write", "truncate", "rename"}
    <3>1. View(n) # Absent /\ pc = IF upper[n] # Absent THEN "ready" ELSE "open_temp"
      BY <2>1, <2>2 DEF MayBegin, CopyUpPc, Where
    <3>2. upper[n] \in File \cup {Absent, Device} /\ lower[n] \in Home \cup {Absent}
      BY DEF Inv, TypeInv
    <3>3. View(n) = IF upper[n] # Absent THEN upper[n] ELSE lower[n]
      BY <2>1, <3>1, ViewIs
    <3> QED BY <2>1, <2>2, <3>1, <3>2, <3>3 DEF Op
  <2>3. CASE op \notin {"write", "truncate", "rename"}
    BY <2>3 DEF MayBegin, Op
  <2> QED BY <2>2, <2>3
<1>0. Begins(t, op, n, to, val, pc) /\ th' \in ThType
  BY <1>m, BoundsAssumption DEF Inv, TypeInv, Begins, ThType, Pc, CopyPc, MovePc
<1>n. Names(t)' = {n, to} /\ Names(t) = {} /\ \A u \in Thread \ {t} : Names(u)' = Names(u)
  BY <1>0, <1>m DEF Begins, Names
<1>r. /\ raced \subseteq raced'
      /\ \A u \in Thread, x \in {n, to} : x \in Names(u) => x \in raced'
  OBVIOUS
<1>v. \A x \in Name : View(x)' = View(x)
  BY DEF View, Where
<1>1. TypeInv'
  <2>1. raced' \subseteq Name
    BY DEF Inv, TypeInv
  <2> QED BY <1>0, <2>1 DEF Inv, TypeInv, ThType
<1>2. Shape'
  <2>1. op = "rename" => val \in File
    BY <1>m DEF MayBegin
  <2> QED BY <1>0, <1>m, <2>1 DEF Inv, Shape, Begins, CopyPc, MovePc, MovedPc, MayBegin
<1>3. Temps'
  BY <1>0, <1>m DEF Inv, Temps, Begins, CopyPc, MyTemp
<1>4. Locked'
  <2>1. ASSUME NEW u \in Thread \ {t}, NEW x \in {n, to}, x \in Names(u)
        PROVE  x \in raced' /\ op \notin Exclusive /\ th[u].op \notin Exclusive
    BY <1>r, <2>1 DEF PathLock
  <2> QED BY <1>0, <1>n, <1>r, <2>1 DEF Inv, Locked, Begins
<1>5. Hidden'
  BY DEF Inv, Hidden
<1>6. Open'
  BY <1>0, <1>m DEF Inv, Open, Begins, MovedPc, Shape
<1>7. CopyingUp'
  BY <1>0, <1>m, <1>r DEF Inv, CopyingUp, Begins, CopyPc
<1>8. Renaming'
  BY <1>0, <1>m DEF Inv, Renaming, Begins, CopyPc, MovePc, MovedPc, MayBegin
<1>9. Whiteouts'
  BY <1>0, <1>m, <1>v DEF Inv, Whiteouts, Begins, Shape
<1>10. Explaining'
  <2>1. \A u \in Thread \ {t}, x \in Name : LeftNow(u, x) \subseteq LeftNow(u, x)'
    BY <1>0, <1>n, LeftKept DEF Begins
  <2>2. \A x \in Name : LeftNow(t, x) = {}
    BY <1>n, LeftNowIs
  <2> QED BY <1>r, <1>v, <2>1, <2>2 DEF Inv, Explaining, ExplainedAt
<1>11. NoLitter'
  BY <1>0, <1>m DEF Inv, NoLitter, Begins, MyTemp, TypeInv
<1> QED BY <1>1, <1>2, <1>3, <1>4, <1>5, <1>6, <1>7, <1>8, <1>9, <1>10, <1>11 DEF Inv

LEMMA BeginStepInv == ASSUME Inv, NEW t \in Thread, BeginStep(t) PROVE Inv'
<1> USE Contents
<1> PICK n \in Name : \/ \E c \in Content : BeginWrite(t, n, c)
                      \/ BeginTruncate(t, n)
                      \/ BeginCreate(t, n)
                      \/ BeginUnlink(t, n)
                      \/ \E to \in Name : BeginRename(t, n, to)
  BY DEF BeginStep
<1>1. CASE \E c \in Content : BeginWrite(t, n, c)
  BY <1>1, BeginInv DEF BeginWrite, MayBegin
<1>2. CASE BeginTruncate(t, n)
  BY <1>2, BeginInv DEF BeginTruncate, MayBegin
<1>3. CASE BeginCreate(t, n)
  BY <1>3, BeginInv DEF BeginCreate, MayBegin
<1>4. CASE BeginUnlink(t, n)
  BY <1>4, BeginInv DEF BeginUnlink, MayBegin
<1>5. ASSUME NEW to \in Name, BeginRename(t, n, to) PROVE Inv'
  <2>1. View(n) \in File \cup {Absent}
    BY ViewIs DEF Inv, TypeInv
  <2> QED BY <1>5, <2>1, BeginInv DEF BeginRename, MayBegin
<1> QED BY <1>1, <1>2, <1>3, <1>4, <1>5

\* The errno paths, of copy_regular and of the handlers.
LEMMA GiveUpInv ==
    ASSUME Inv, NEW t \in Thread, th[t].pc # "idle", GiveUp(t),
           UNCHANGED <<lower, upper, sidecar, pid>>,
           temp' = IF th[t].pc \in {"copy", "install"}
                   THEN [temp EXCEPT ![MyTemp(t)] = Absent] ELSE temp
    PROVE  Inv'
<1> USE Contents DEF GiveUp
<1>0. Ends(t) /\ th' \in ThType
  BY EndEnds DEF Inv
<1>k. MyTemp(t) \in Slot
  BY MyTempType
<1>n. Names(t)' = {} /\ \A u \in Thread \ {t} : Names(u)' = Names(u)
  BY <1>0 DEF Ends, Names
<1>1. TypeInv'
  <2>1. may' \in [Name -> SUBSET (File \cup {Absent})]
    BY LeftType DEF Inv, TypeInv
  <2> QED BY <1>0, <1>k, <2>1 DEF Inv, TypeInv, ThType
<1>2. Shape'
  BY <1>0 DEF Inv, Shape, Ends, CopyPc, MovePc, MovedPc
<1>3. Temps'
  <2>1. \A u \in Thread \ {t} : MyTemp(u)' = MyTemp(u)
    BY <1>0 DEF Ends, MyTemp
  <2>2. \A u \in Thread \ {t} :
          th[u].pc \in {"copy", "install"} => temp'[MyTemp(u)] = temp[MyTemp(u)]
    BY <1>k, MyTempType DEF Inv, Temps, TypeInv
  <2> QED BY <1>0, <2>1, <2>2 DEF Inv, Temps, Ends, CopyPc
<1>4. Locked'
  BY <1>0, <1>n DEF Inv, Locked, Ends
<1>5. Hidden'
  BY DEF Inv, Hidden
<1>6. Open'
  BY <1>0 DEF Inv, Open, Ends, MovedPc, Shape
<1>7. CopyingUp'
  BY <1>0 DEF Inv, CopyingUp, Ends, CopyPc
<1>8. Renaming'
  BY <1>0 DEF Inv, Renaming, Ends, CopyPc, MovePc, MovedPc
<1>9. Whiteouts'
  BY <1>0 DEF Inv, Whiteouts, Ends, View, Where
<1>10. Explaining'
  <2>1. \A u \in Thread \ {t}, n \in Name : LeftNow(u, n) \subseteq LeftNow(u, n)'
    BY <1>0, <1>n, LeftKept DEF Ends
  <2>2. \A n \in Name : View(n)' = View(n)
    BY DEF View, Where
  <2>3. \A n \in Name : may[n] \cup LeftNow(t, n) \subseteq may'[n]
    BY LeftNowLeft
  <2> QED BY <2>1, <2>2, <2>3 DEF Inv, Explaining, ExplainedAt
<1>11. NoLitter'
  <2>1. \A u \in Thread \ {t} : MyTemp(u)' = MyTemp(u)
    BY <1>0 DEF Ends, MyTemp
  <2> QED BY <1>0, <1>k, <2>1 DEF Inv, NoLitter, Ends, TypeInv
<1> QED BY <1>1, <1>2, <1>3, <1>4, <1>5, <1>6, <1>7, <1>8, <1>9, <1>10, <1>11 DEF Inv

LEMMA FailsInv == ASSUME Inv, NEW t \in Thread, Fails(t) PROVE Inv'
BY GiveUpInv DEF Fails, At

LEMMA CrashInv == ASSUME Inv, Crash PROVE Inv'
<1> USE Contents DEF Crash, files
<1>0. /\ \A t \in Thread : /\ th'[t].pc = "idle" /\ th'[t].op = "idle" /\ th'[t].name = Absent
                            /\ th'[t].to = Absent /\ th'[t].fd = Absent
      /\ th' \in ThType
  BY BoundsAssumption DEF Idle, ThType, Op, Pc
<1>n. \A t \in Thread : Names(t)' = {}
  BY <1>0 DEF Names
<1>1. TypeInv'
  <2>1. may' \in [Name -> SUBSET (File \cup {Absent})]
    BY LeftType DEF Inv, TypeInv
  <2> QED BY <1>0, <2>1 DEF Inv, TypeInv, ThType
<1>2. Shape'
  BY <1>0 DEF Shape, CopyPc, MovePc, MovedPc
<1>3. Temps'
  BY <1>0 DEF Temps, CopyPc
<1>4. Locked'
  BY <1>n DEF Locked
<1>5. Hidden'
  BY DEF Inv, Hidden
<1>6. Open'
  BY <1>0 DEF Open, MovedPc
<1>7. CopyingUp'
  BY <1>0 DEF CopyingUp, CopyPc
<1>8. Renaming'
  BY <1>0 DEF Renaming
<1>9. Whiteouts'
  BY <1>0 DEF Whiteouts
<1>10. Explaining'
  <2>1. \A n \in Name : View(n)' = View(n)
    BY DEF View, Where
  <2>2. \A n \in Name, t \in Thread : may[n] \cup LeftNow(t, n) \subseteq may'[n]
    BY LeftNowLeft
  <2> QED BY <2>1, <2>2 DEF Inv, Explaining, ExplainedAt
<1>11. NoLitter'
  BY DEF NoLitter
<1> QED BY <1>1, <1>2, <1>3, <1>4, <1>5, <1>6, <1>7, <1>8, <1>9, <1>10, <1>11 DEF Inv

\* O_TRUNC, by op_truncate or op_create.
LEMMA EmptiesInv ==
    ASSUME Inv, NEW t \in Thread, UNCHANGED <<lower, sidecar, temp, pid>>, Finish(t), End(t),
           upper' = [upper EXCEPT ![th[t].name] = Empty], upper[th[t].name] # Device,
           \/ th[t].pc = "ready" /\ th[t].op = "truncate" /\ upper[th[t].name] # Absent
           \/ th[t].pc = "open_new"
    PROVE  Inv'
<1> USE Contents
<1>0. Ends(t) /\ th' \in ThType
  BY EndEnds DEF Inv
<1>n. Names(t)' = {} /\ \A u \in Thread \ {t} : Names(u)' = Names(u)
  BY <1>0 DEF Ends, Names
<1>m. /\ th[t].name \in Name /\ Names(t) = {th[t].name} /\ th[t].op \in {"truncate", "create"}
      /\ th[t].name \notin sidecar
  BY DEF Inv, Shape, Names, Hidden, Whiteouts
<1>r. /\ may' = [n \in Name |-> IF n = th[t].name THEN {Empty} ELSE may[n]]
      /\ raced' = raced /\ crashed' = crashed
  <2>1. \A n : Result(t, n) = Empty
    BY <1>m DEF Result
  <2> QED BY <1>m, <2>1 DEF Finish, At, Exclusive
<1>1. TypeInv'
  BY <1>0, <1>r, <1>m DEF Inv, TypeInv, ThType
<1>2. Shape'
  BY <1>0 DEF Inv, Shape, Ends, CopyPc, MovePc, MovedPc
<1>3. Temps'
  BY <1>0 DEF Inv, Temps, Ends, CopyPc, MyTemp
<1>4. Locked'
  BY <1>0, <1>n, <1>r DEF Inv, Locked, Ends
<1>5. Hidden'
  BY <1>m DEF Inv, Hidden, TypeInv
<1>6. Open'
  BY <1>0, <1>m DEF Inv, Open, Ends, MovedPc, TypeInv, Shape
<1>x. ASSUME NEW u \in Thread, u # t, th[u].pc # "idle", th[u].pc # "pwrite",
             th[u].name = th[t].name \/ th[u].to = th[t].name
      PROVE  th[t].name \in raced /\ th[u].op \notin Exclusive
  BY <1>x, <1>m DEF Inv, Locked, Names
<1>7. CopyingUp'
  BY <1>0, <1>m, <1>r, <1>x DEF Inv, CopyingUp, Ends, CopyPc, TypeInv, Exclusive
<1>8. Renaming'
  BY <1>0, <1>m, <1>x DEF Inv, Renaming, Ends, CopyPc, MovePc, MovedPc, TypeInv, Exclusive
<1>9. Whiteouts'
  BY <1>0, <1>m, <1>x, ViewIs, ViewIsNext DEF Inv, Whiteouts, Ends, Shape, TypeInv, MovedPc
<1>10. Explaining'
  <2> PICK m \in Name : m = th[t].name  BY <1>m
  <2>1. \A u \in Thread \ {t}, n \in Name : LeftNow(u, n) \subseteq LeftNow(u, n)'
    BY <1>0, <1>n, LeftKept DEF Ends
  <2>2. View(m)' = Empty
    BY <1>m, ViewIsNext DEF Inv, TypeInv
  <2>3. \A n \in Name \ {m} : View(n)' = View(n)
    BY ViewIs, ViewIsNext DEF Inv, TypeInv
  <2>4. \A n \in Name \ {m} : LeftNow(t, n) = {}
    BY <1>m DEF LeftNow, Left
  <2>5. ASSUME NEW n \in Name \ raced, n # m PROVE ExplainedAt(n)'
    BY <1>r, <2>1, <2>3, <2>4, <2>5 DEF Inv, Explaining, ExplainedAt
  <2>6. ExplainedAt(m)'
    BY <1>m, <1>r, <2>2 DEF ExplainedAt
  <2> QED BY <1>r, <2>5, <2>6 DEF Explaining
<1>11. NoLitter'
  BY <1>0, <1>r DEF Inv, NoLitter, Ends, TypeInv, MyTemp
<1> QED BY <1>1, <1>2, <1>3, <1>4, <1>5, <1>6, <1>7, <1>8, <1>9, <1>10, <1>11 DEF Inv

LEMMA TruncateInv == ASSUME Inv, NEW t \in Thread, Truncate(t) PROVE Inv'
BY GiveUpInv, EmptiesInv DEF Truncate, At

LEMMA OpenNewInv == ASSUME Inv, NEW t \in Thread, OpenNew(t) PROVE Inv'
BY GiveUpInv, EmptiesInv DEF OpenNew, At

LEMMA ReturnInv == ASSUME Inv, NEW t \in Thread, Return(t) PROVE Inv'
<1> USE Contents DEF Return, At, files
<1>m. /\ th[t].name \in Name /\ th[t].to \in Name /\ Names(t) = {th[t].name, th[t].to}
      /\ th[t].op \in Exclusive
  BY DEF Inv, Shape, Names, MovedPc
<1>0. Ends(t) /\ th' \in ThType
  BY EndEnds DEF Inv
<1>n. Names(t)' = {} /\ \A u \in Thread \ {t} : Names(u)' = Names(u)
  BY <1>0 DEF Ends, Names
<1>r. /\ may' = [n \in Name |-> IF n \in Names(t) THEN {Result(t, n)} ELSE may[n]]
      /\ raced' = raced \ Names(t) /\ crashed' = crashed
  BY <1>m DEF Finish
<1>v. \A n \in Names(t) : View(n) = Result(t, n)
  <2>1. View(th[t].name) = Absent
    BY DEF Inv, Whiteouts
  <2>2. CASE th[t].op = "unlink"
    BY <1>m, <2>1, <2>2 DEF Result, Inv, Shape
  <2>3. CASE th[t].op = "rename"
    <3>1. Result(t, th[t].name) = Absent
      BY <2>3 DEF Result
    <3>2. th[t].to # th[t].name /\ th[t].val \in File
      BY <2>3 DEF Inv, Shape
    <3>3. Result(t, th[t].to) = th[t].val
      BY <2>3, <3>2 DEF Result
    <3>4. View(th[t].to) = th[t].val
      BY <1>m, <2>3, <3>2, ViewIs DEF Inv, Renaming, MovedPc
    <3> QED BY <1>m, <2>1, <3>1, <3>3, <3>4
  <2> QED BY <1>m, <2>2, <2>3 DEF Exclusive
<1>x. \A u \in Thread \ {t}, n \in Names(t) : n \notin Names(u)
  BY <1>m, Alone
<1>1. TypeInv'
  <2>1. \A n \in Names(t) : Result(t, n) \in File \cup {Absent}
    <3>1. \A n \in Name : View(n) \in File \cup {Absent}
      BY ViewIs DEF Inv, TypeInv
    <3> QED BY <1>m, <1>v, <3>1
  <2> QED BY <1>0, <1>r, <2>1 DEF Inv, TypeInv, ThType
<1>2. Shape'
  BY <1>0 DEF Inv, Shape, Ends, CopyPc, MovePc, MovedPc
<1>3. Temps'
  BY <1>0 DEF Inv, Temps, Ends, CopyPc, MyTemp
<1>4. Locked'
  BY <1>0, <1>n, <1>r, <1>x DEF Inv, Locked, Ends
<1>5. Hidden'
  BY DEF Inv, Hidden
<1>6. Open'
  BY <1>0 DEF Inv, Open, Ends, MovedPc, Shape
<1>7. CopyingUp'
  <2>1. \A u \in Thread \ {t} : th[u].pc \in CopyPc => th[u].name \notin Names(t)
    BY <1>x DEF Names, CopyPc
  <2> QED BY <1>0, <1>r, <2>1 DEF Inv, CopyingUp, Ends, CopyPc
<1>8. Renaming'
  BY <1>0 DEF Inv, Renaming, Ends, CopyPc, MovePc, MovedPc
<1>9. Whiteouts'
  BY <1>0 DEF Inv, Whiteouts, Ends, View, Where
<1>10. Explaining'
  <2>1. \A u \in Thread \ {t}, n \in Name : LeftNow(u, n) \subseteq LeftNow(u, n)'
    BY <1>0, <1>n, LeftKept DEF Ends
  <2>2. \A n \in Name : View(n)' = View(n)
    BY DEF View, Where
  <2>3. \A n \in Name \ Names(t) : LeftNow(t, n) = {}
    BY LeftNowIs
  <2>4. ASSUME NEW n \in Name \ raced, n \notin Names(t) PROVE ExplainedAt(n)'
    BY <1>r, <2>1, <2>2, <2>3, <2>4 DEF Inv, Explaining, ExplainedAt
  <2>5. ASSUME NEW n \in Name, n \in Names(t) PROVE ExplainedAt(n)'
    BY <1>r, <1>v, <2>2, <2>5 DEF ExplainedAt
  <2> QED BY <1>r, <2>4, <2>5 DEF Explaining
<1>11. NoLitter'
  BY <1>0, <1>r DEF Inv, NoLitter, Ends, MyTemp, TypeInv
<1> QED BY <1>1, <1>2, <1>3, <1>4, <1>5, <1>6, <1>7, <1>8, <1>9, <1>10, <1>11 DEF Inv

-----------------------------------------------------------------------------
(* The invariant: copy_regular, op_open and op_write. *)

LEMMA OpenTempMakesInv ==
    ASSUME Inv, NEW t \in Thread, OpenTemp(t), temp[MyTemp(t)] = Absent
    PROVE  Inv'
<1> USE Contents DEF OpenTemp, At, ghosts, files
<1>0. Moves(t, "copy") /\ th' \in ThType
  BY GoToMoves DEF Inv, Pc, CopyPc, MovePc, MovedPc
<1>m. /\ th[t].name \in Name /\ th[t].to \in Name /\ Names(t) = {th[t].name, th[t].to}
      /\ MyTemp(t) \in Slot
  BY MyTempType DEF Inv, Shape, Names
<1>n. \A u \in Thread : Names(u)' = Names(u)
  BY <1>0 DEF Moves, Names
<1>1. TypeInv'
  BY <1>0, <1>m DEF Inv, TypeInv, ThType
<1>2. Shape'
  BY <1>0 DEF Inv, Shape, Moves, CopyPc, MovePc, MovedPc
<1>3. Temps'
  <2>1. \A u \in Thread : MyTemp(u)' = MyTemp(u)
    BY <1>0 DEF Moves, MyTemp
  <2>2. \A u \in Thread : th[u].pc \in {"copy", "install"} => MyTemp(u) # MyTemp(t)
    BY DEF Inv, Temps, CopyPc, TypeInv
  <2>3. \A u \in Thread : th[u].pc \in {"copy", "install"} => MyTemp(u) \in Slot
    BY MyTempType
  <2> QED BY <1>0, <1>m, <2>1, <2>2, <2>3 DEF Inv, Temps, Moves, TypeInv, CopyPc
<1>4. Locked'
  BY <1>0, <1>n DEF Inv, Locked, Moves
<1>5. Hidden'
  BY DEF Inv, Hidden
<1>6. Open'
  BY <1>0 DEF Inv, Open, Moves, MovedPc, Shape
<1>7. CopyingUp'
  BY <1>0 DEF Inv, CopyingUp, Moves, CopyPc
<1>8. Renaming'
  BY <1>0 DEF Inv, Renaming, Moves, CopyPc, MovePc, MovedPc
<1>9. Whiteouts'
  BY <1>0 DEF Inv, Whiteouts, Moves, View, Where
<1>10. Explaining'
  <2>1. \A u \in Thread, n \in Name : LeftNow(u, n) \subseteq LeftNow(u, n)'
    BY <1>0, <1>n, LeftKept DEF Moves, MovedPc
  <2>2. \A n \in Name : View(n)' = View(n)
    BY DEF View, Where
  <2> QED BY <2>1, <2>2 DEF Inv, Explaining, ExplainedAt
<1>11. NoLitter'
  <2>1. \A u \in Thread : MyTemp(u)' = MyTemp(u)
    BY <1>0 DEF Moves, MyTemp
  <2> QED BY <1>0, <1>m, <2>1 DEF Inv, NoLitter, Moves, TypeInv
<1> QED BY <1>1, <1>2, <1>3, <1>4, <1>5, <1>6, <1>7, <1>8, <1>9, <1>10, <1>11 DEF Inv

LEMMA OpenTempAgainInv ==
    ASSUME Inv, NEW t \in Thread, OpenTemp(t), temp[MyTemp(t)] # Absent, th[t].k < Attempts
    PROVE  Inv'
<1> USE Contents DEF OpenTemp, At, ghosts
<1>0. Tries(t) /\ th' \in ThType
  BY BoundsAssumption DEF Inv, TypeInv, Tries, ThType
<1>m. th[t].name \in Name /\ th[t].to \in Name /\ Names(t) = {th[t].name, th[t].to}
  BY DEF Inv, Shape, Names
<1>n. \A u \in Thread : Names(u)' = Names(u)
  BY <1>0 DEF Tries, Names
<1>1. TypeInv'
  BY <1>0, <1>m DEF Inv, TypeInv, ThType
<1>2. Shape'
  BY <1>0 DEF Inv, Shape, Tries, CopyPc, MovePc, MovedPc
<1>3. Temps'
  BY <1>0 DEF Inv, Temps, Tries, CopyPc, MyTemp
<1>4. Locked'
  BY <1>0, <1>n DEF Inv, Locked, Tries
<1>5. Hidden'
  BY DEF Inv, Hidden
<1>6. Open'
  BY <1>0 DEF Inv, Open, Tries, MovedPc, Shape
<1>7. CopyingUp'
  BY <1>0 DEF Inv, CopyingUp, Tries, CopyPc
<1>8. Renaming'
  BY <1>0 DEF Inv, Renaming, Tries, CopyPc, MovePc, MovedPc
<1>9. Whiteouts'
  BY <1>0 DEF Inv, Whiteouts, Tries, View, Where
<1>10. Explaining'
  <2>1. \A u \in Thread, n \in Name : LeftNow(u, n) \subseteq LeftNow(u, n)'
    BY <1>0, <1>n, LeftKept DEF Tries, MovedPc
  <2>2. \A n \in Name : View(n)' = View(n)
    BY DEF View, Where
  <2> QED BY <2>1, <2>2 DEF Inv, Explaining, ExplainedAt
<1>11. NoLitter'
  BY <1>0 DEF Inv, NoLitter, Tries, MyTemp, TypeInv
<1> QED BY <1>1, <1>2, <1>3, <1>4, <1>5, <1>6, <1>7, <1>8, <1>9, <1>10, <1>11 DEF Inv

LEMMA OpenTempInv == ASSUME Inv, NEW t \in Thread, OpenTemp(t) PROVE Inv'
<1>1. CASE temp[MyTemp(t)] # Absent /\ ~ th[t].k < Attempts
  BY <1>1, GiveUpInv DEF OpenTemp, At
<1> QED BY <1>1, OpenTempMakesInv, OpenTempAgainInv

LEMMA CopyDataInv == ASSUME Inv, NEW t \in Thread, CopyData(t) PROVE Inv'
<1> USE Contents DEF CopyData, At, ghosts, files
<1>0. Moves(t, "install") /\ th' \in ThType
  BY GoToMoves DEF Inv, Pc, CopyPc, MovePc, MovedPc
<1>m. /\ th[t].name \in Name /\ th[t].to \in Name /\ Names(t) = {th[t].name, th[t].to}
      /\ MyTemp(t) \in Slot
  BY MyTempType DEF Inv, Shape, Names
<1>n. \A u \in Thread : Names(u)' = Names(u)
  BY <1>0 DEF Moves, Names
<1>1. TypeInv'
  BY <1>0, <1>m DEF Inv, TypeInv, ThType, Temps, CopyPc
<1>2. Shape'
  BY <1>0 DEF Inv, Shape, Moves, CopyPc, MovePc, MovedPc
<1>3. Temps'
  BY <1>0, <1>m DEF Inv, Temps, Moves, TypeInv, MyTemp, CopyPc
<1>4. Locked'
  BY <1>0, <1>n DEF Inv, Locked, Moves
<1>5. Hidden'
  BY DEF Inv, Hidden
<1>6. Open'
  BY <1>0 DEF Inv, Open, Moves, MovedPc, Shape
<1>7. CopyingUp'
  BY <1>0 DEF Inv, CopyingUp, Moves, CopyPc
<1>8. Renaming'
  BY <1>0 DEF Inv, Renaming, Moves, CopyPc, MovePc, MovedPc
<1>9. Whiteouts'
  BY <1>0 DEF Inv, Whiteouts, Moves, View, Where
<1>10. Explaining'
  <2>1. \A u \in Thread, n \in Name : LeftNow(u, n) \subseteq LeftNow(u, n)'
    BY <1>0, <1>n, LeftKept DEF Moves, MovedPc
  <2>2. \A n \in Name : View(n)' = View(n)
    BY DEF View, Where
  <2> QED BY <2>1, <2>2 DEF Inv, Explaining, ExplainedAt
<1>11. NoLitter'
  BY <1>0 DEF Inv, NoLitter, Moves, MyTemp, TypeInv
<1> QED BY <1>1, <1>2, <1>3, <1>4, <1>5, <1>6, <1>7, <1>8, <1>9, <1>10, <1>11 DEF Inv

LEMMA InstallInv == ASSUME Inv, NEW t \in Thread, Install(t) PROVE Inv'
<1> USE Contents DEF Install, At, ghosts
<1>m. /\ th[t].name \in Name /\ th[t].to \in Name /\ Names(t) = {th[t].name, th[t].to}
      /\ MyTemp(t) \in Slot /\ temp[MyTemp(t)] = lower[th[t].name]
      /\ lower[th[t].name] \in Home /\ th[t].name \notin sidecar
  BY MyTempType DEF Inv, Shape, Names, Temps, CopyPc, CopyingUp
<1>0. MovesFd(t, "ready", th[t].name, Absent) /\ th' \in ThType
  BY <1>m, GoToMovesFd DEF Inv, Pc, MovePc
<1>n. \A u \in Thread : Names(u)' = Names(u)
  BY <1>0 DEF MovesFd, Names
<1>x. ASSUME NEW u \in Thread, u # t, th[u].pc # "idle", th[u].pc # "pwrite",
             th[u].name = th[t].name \/ th[u].to = th[t].name
      PROVE  th[t].name \in raced /\ th[u].op \notin Exclusive /\ th[t].op \notin Exclusive
  BY <1>x, <1>m, Alone DEF Names
<1>1. TypeInv'
  BY <1>0, <1>m DEF Inv, TypeInv, ThType
<1>2. Shape'
  BY <1>0 DEF Inv, Shape, MovesFd, CopyPc, MovePc, MovedPc
<1>3. Temps'
  <2>1. \A u \in Thread : MyTemp(u)' = MyTemp(u)
    BY <1>0 DEF MovesFd, MyTemp
  <2>2. \A u \in Thread \ {t} : th[u].pc \in {"copy", "install"} => MyTemp(u) # MyTemp(t)
    BY DEF Inv, Temps
  <2>3. \A u \in Thread : th[u].pc \in {"copy", "install"} => MyTemp(u) \in Slot
    BY MyTempType
  <2> QED BY <1>0, <1>m, <2>1, <2>2, <2>3 DEF Inv, Temps, MovesFd, TypeInv, CopyPc
<1>4. Locked'
  BY <1>0, <1>n DEF Inv, Locked, MovesFd
<1>5. Hidden'
  BY <1>m DEF Inv, Hidden, TypeInv
<1>6. Open'
  BY <1>0, <1>m DEF Inv, Open, MovesFd, MovedPc, Shape, TypeInv
<1>7. CopyingUp'
  BY <1>0, <1>m, <1>x DEF Inv, CopyingUp, MovesFd, CopyPc, TypeInv, Exclusive
<1>8. Renaming'
  BY <1>0, <1>m, <1>x DEF Inv, Renaming, MovesFd, CopyPc, MovePc, MovedPc, TypeInv, Exclusive,
     Shape
<1>9. Whiteouts'
  BY <1>0, <1>m, <1>x, ViewIs, ViewIsNext DEF Inv, Whiteouts, MovesFd, Shape, TypeInv, MovedPc
<1>10. Explaining'
  <2> PICK m \in Name : m = th[t].name  BY <1>m
  <2>1. \A u \in Thread, n \in Name : LeftNow(u, n) \subseteq LeftNow(u, n)'
    BY <1>0, <1>n, LeftKept DEF MovesFd, MovedPc
  <2>2. \A n \in Name \ {m} : View(n)' = View(n)
    BY <1>m, ViewIs, ViewIsNext DEF Inv, TypeInv
  <2>3. m \notin raced => View(m)' = View(m)
    BY <1>m, ViewIs, ViewIsNext DEF Inv, TypeInv, CopyingUp, CopyPc
  <2> QED BY <2>1, <2>2, <2>3 DEF Inv, Explaining, ExplainedAt
<1>11. NoLitter'
  <2>1. \A u \in Thread : MyTemp(u)' = MyTemp(u)
    BY <1>0 DEF MovesFd, MyTemp
  <2> QED BY <1>0, <1>m, <2>1 DEF Inv, NoLitter, MovesFd, TypeInv
<1> QED BY <1>1, <1>2, <1>3, <1>4, <1>5, <1>6, <1>7, <1>8, <1>9, <1>10, <1>11 DEF Inv

LEMMA OpenUpperOpensInv ==
    ASSUME Inv, NEW t \in Thread, OpenUpper(t), upper[th[t].name] \notin {Absent, Device}
    PROVE  Inv'
<1> USE Contents DEF OpenUpper, At, ghosts, files
<1>m. /\ th[t].name \in Name /\ th[t].to \in Name /\ Names(t) = {th[t].name}
      /\ upper[th[t].name] \in File
  BY DEF Inv, TypeInv, Shape, Names
<1>0. Opens(t) /\ th' \in ThType
  BY <1>m DEF Inv, TypeInv, Opens, ThType, Pc
<1>n. Names(t)' = {} /\ \A u \in Thread \ {t} : Names(u)' = Names(u)
  BY <1>0 DEF Opens, Names
<1>x. \A u \in Thread : th[u].pc \in MovedPc => th[u].name # th[t].name
  BY <1>m, Alone DEF Names, MovedPc, Exclusive, Inv, Shape
<1>1. TypeInv'
  BY <1>0, <1>m DEF Inv, TypeInv, ThType
<1>2. Shape'
  BY <1>0 DEF Inv, Shape, Opens, CopyPc, MovePc, MovedPc
<1>3. Temps'
  BY <1>0 DEF Inv, Temps, Opens, CopyPc, MyTemp
<1>4. Locked'
  BY <1>0, <1>n DEF Inv, Locked, Opens
<1>5. Hidden'
  BY DEF Inv, Hidden
<1>6. Open'
  BY <1>0, <1>m, <1>x DEF Inv, Open, Opens, MovedPc, Shape
<1>7. CopyingUp'
  BY <1>0 DEF Inv, CopyingUp, Opens, CopyPc
<1>8. Renaming'
  BY <1>0 DEF Inv, Renaming, Opens, CopyPc, MovePc, MovedPc
<1>9. Whiteouts'
  BY <1>0 DEF Inv, Whiteouts, Opens, View, Where
<1>10. Explaining'
  <2>1. \A u \in Thread \ {t}, n \in Name : LeftNow(u, n) \subseteq LeftNow(u, n)'
    BY <1>0, <1>n, LeftKept DEF Opens
  <2>2. \A n \in Name : View(n)' = View(n)
    BY DEF View, Where
  <2>3. \A n \in Name : LeftNow(t, n) = {}
    BY LeftNowIs
  <2> QED BY <2>1, <2>2, <2>3 DEF Inv, Explaining, ExplainedAt
<1>11. NoLitter'
  BY <1>0 DEF Inv, NoLitter, Opens, MyTemp, TypeInv
<1> QED BY <1>1, <1>2, <1>3, <1>4, <1>5, <1>6, <1>7, <1>8, <1>9, <1>10, <1>11 DEF Inv

LEMMA OpenUpperInv == ASSUME Inv, NEW t \in Thread, OpenUpper(t) PROVE Inv'
<1>1. CASE upper[th[t].name] \in {Absent, Device}
  BY <1>1, GiveUpInv DEF OpenUpper, At, files
<1> QED BY <1>1, OpenUpperOpensInv

LEMMA PWriteInv == ASSUME Inv, NEW t \in Thread, PWrite(t) PROVE Inv'
<1> USE Contents DEF At
<1>0. Writes(t) /\ th' \in ThType
  BY PWriteWrites
<1>m. /\ th[t].op = "write" /\ th[t].val \in File /\ th[t].fd \in Name \cup {Absent}
      /\ th[t].val \in Content /\ th[t].pc = "pwrite"
      /\ th[t].fd # Absent => upper[th[t].fd] \in File
  BY DEF PWrite, Inv, Shape, TypeInv, ThType, Open
<1>n. Names(t)' = {} /\ Names(t) = {} /\ \A u \in Thread \ {t} : Names(u)' = Names(u)
  BY <1>0, <1>m DEF Writes, Names
<1>u. /\ \A n \in Name : upper'[n] = IF n = th[t].fd THEN th[t].val ELSE upper[n]
      /\ upper' \in [Name -> File \cup {Absent, Device}]
      /\ UNCHANGED <<lower, sidecar, temp, pid>>
  BY <1>m DEF PWrite, Inv, TypeInv
<1>r. /\ may' = [n \in Name |-> IF n = th[t].fd THEN {th[t].val} ELSE may[n]]
      /\ raced' = raced /\ crashed' = crashed
  <2>1. \A n : Result(t, n) = th[t].val
    BY <1>m DEF Result
  <2> QED BY <1>m, <2>1 DEF PWrite, Finish, Exclusive
<1>c. \A u \in Thread \ {t} : th[u].op # "rename" => th'[u].val = th[u].val
  BY <1>0 DEF Writes, Carries
<1>1. TypeInv'
  BY <1>0, <1>m, <1>u, <1>r DEF Inv, TypeInv, ThType
<1>2. Shape'
  <2>1. \A u \in Thread \ {t} : th[u].op = "rename" => th'[u].val \in File
    BY <1>0, <1>m DEF Inv, Shape, Writes
  <2> QED BY <1>0, <1>c, <2>1 DEF Inv, Shape, Writes, CopyPc, MovePc, MovedPc
<1>3. Temps'
  BY <1>0, <1>u DEF Inv, Temps, Writes, CopyPc, MyTemp
<1>4. Locked'
  BY <1>0, <1>n, <1>r DEF Inv, Locked, Writes
<1>5. Hidden'
  BY <1>m, <1>u DEF Inv, Hidden, TypeInv
<1>6. Open'
  <2>1. \A u \in Thread : th'[u].fd = th[u].fd \/ th'[u].fd = Absent
    BY <1>0 DEF Writes
  <2>2. \A n \in Name : upper[n] \in File => upper'[n] \in File
    BY <1>m, <1>u
  <2>3. \A u \in Thread : th'[u].pc \in MovedPc =>
          th[u].pc \in MovedPc /\ th'[u].name = th[u].name /\ th[u].name \in Name
    BY <1>0 DEF Inv, Shape, Writes, MovedPc
  <2> QED BY <2>1, <2>2, <2>3 DEF Inv, Open, TypeInv, ThType
<1>7. CopyingUp'
  BY <1>0, <1>m, <1>u, <1>r DEF Inv, CopyingUp, Writes, CopyPc, Shape
<1>8. Renaming'
  BY <1>0, <1>m, <1>u DEF Inv, Renaming, Writes, CopyPc, MovePc, MovedPc, Shape, Carries,
     CopyingUp
<1>9. Whiteouts'
  BY <1>0, <1>m, <1>u, ViewIs, ViewIsNext DEF Inv, Whiteouts, Writes, Shape, MovedPc, Open
<1>10. Explaining'
  <2> PICK f \in Name \cup {Absent} : f = th[t].fd  BY <1>m
  <2>1. \A u \in Thread \ {t}, n \in Name \ {f} : LeftNow(u, n) \subseteq LeftNow(u, n)'
    BY <1>0, <1>n, <1>u, LeftKept DEF Writes, Carries, MovedPc, Names
  <2>2. \A n \in Name \ {f} : View(n)' = View(n)
    BY <1>u, ViewIs, ViewIsNext
  <2>3. \A n \in Name : LeftNow(t, n) = {}
    BY <1>n, LeftNowIs
  <2>4. ASSUME NEW n \in Name \ raced, n # f PROVE ExplainedAt(n)'
    BY <1>r, <2>1, <2>2, <2>3, <2>4 DEF Inv, Explaining, ExplainedAt
  <2>5. ASSUME f \in Name PROVE ExplainedAt(f)'
    <3>1. View(f)' = th[t].val
      BY <1>m, <1>u, <2>5, ViewIsNext DEF Inv, Hidden
    <3> QED BY <1>r, <2>5, <3>1 DEF ExplainedAt
  <2> QED BY <1>r, <2>4, <2>5 DEF Explaining
<1>11. NoLitter'
  BY <1>0, <1>m, <1>u, <1>r DEF Inv, NoLitter, Writes, MyTemp, TypeInv
<1> QED BY <1>1, <1>2, <1>3, <1>4, <1>5, <1>6, <1>7, <1>8, <1>9, <1>10, <1>11 DEF Inv

-----------------------------------------------------------------------------
(* The invariant: clear_whiteout, op_unlink, op_rename and place_whiteout. *)

LEMMA FindDeviceInv == ASSUME Inv, NEW t \in Thread, FindDevice(t) PROVE Inv'
<1> USE Contents DEF FindDevice, At, ghosts, files
<1>0. Moves(t, IF upper[th[t].to] = Device THEN "clear_device" ELSE "clear_sidecar") /\ th' \in ThType
  BY GoToMoves DEF Inv, Pc, CopyPc, MovePc, MovedPc
<1>m. /\ th[t].name \in Name /\ th[t].to \in Name /\ Names(t) = {th[t].name, th[t].to}
      /\ MyTemp(t) \in Slot
  BY MyTempType DEF Inv, Shape, Names
<1>n. \A u \in Thread : Names(u)' = Names(u)
  BY <1>0 DEF Moves, Names
<1>1. TypeInv'
  BY <1>0, <1>m DEF Inv, TypeInv, ThType
<1>2. Shape'
  BY <1>0 DEF Inv, Shape, Moves, CopyPc, MovePc, MovedPc
<1>3. Temps'
  BY <1>0 DEF Inv, Temps, Moves, CopyPc, MyTemp
<1>4. Locked'
  BY <1>0, <1>n DEF Inv, Locked, Moves
<1>5. Hidden'
  BY DEF Inv, Hidden
<1>6. Open'
  BY <1>0 DEF Inv, Open, Moves, MovedPc, Shape
<1>7. CopyingUp'
  BY <1>0 DEF Inv, CopyingUp, Moves, CopyPc
<1>8. Renaming'
  BY <1>0 DEF Inv, Renaming, Moves, CopyPc, MovePc, MovedPc
<1>9. Whiteouts'
  BY <1>0 DEF Inv, Whiteouts, Moves, View, Where
<1>10. Explaining'
  <2>1. \A u \in Thread, n \in Name : LeftNow(u, n) \subseteq LeftNow(u, n)'
    BY <1>0, <1>n, LeftKept DEF Moves, MovedPc
  <2>2. \A n \in Name : View(n)' = View(n)
    BY DEF View, Where
  <2> QED BY <2>1, <2>2 DEF Inv, Explaining, ExplainedAt
<1>11. NoLitter'
  BY <1>0 DEF Inv, NoLitter, Moves, MyTemp, TypeInv
<1> QED BY <1>1, <1>2, <1>3, <1>4, <1>5, <1>6, <1>7, <1>8, <1>9, <1>10, <1>11 DEF Inv

LEMMA ClearDeviceInv == ASSUME Inv, NEW t \in Thread, ClearDevice(t) PROVE Inv'
<1> USE Contents DEF ClearDevice, At, ghosts, files
<1>m. /\ th[t].name \in Name /\ th[t].to \in Name /\ Names(t) = {th[t].name, th[t].to}
      /\ MyTemp(t) \in Slot
  BY MyTempType DEF Inv, Shape, Names
<1>0. MovesFd(t, "clear_sidecar", th[t].to, Absent) /\ th' \in ThType
  BY <1>m, GoToMovesFd DEF Inv, Pc, CopyPc, MovePc, MovedPc
<1>n. \A u \in Thread : Names(u)' = Names(u)
  BY <1>0 DEF MovesFd, Names
<1>x. ASSUME NEW u \in Thread, u # t, th[u].pc # "idle", th[u].pc # "pwrite",
             th[u].name = th[t].to \/ th[u].to = th[t].to
      PROVE  th[t].to \in raced /\ th[u].op \notin Exclusive /\ th[t].op \notin Exclusive
  BY <1>x, <1>m, Alone DEF Names
<1>1. TypeInv'
  BY <1>0, <1>m DEF Inv, TypeInv, ThType
<1>2. Shape'
  BY <1>0 DEF Inv, Shape, MovesFd, CopyPc, MovePc, MovedPc
<1>3. Temps'
  BY <1>0 DEF Inv, Temps, MovesFd, CopyPc, MyTemp
<1>4. Locked'
  BY <1>0, <1>n DEF Inv, Locked, MovesFd
<1>5. Hidden'
  BY <1>m DEF Inv, Hidden, TypeInv
<1>6. Open'
  BY <1>0, <1>m DEF Inv, Open, MovesFd, MovedPc, Shape, TypeInv
<1>7. CopyingUp'
  BY <1>0, <1>m, <1>x DEF Inv, CopyingUp, MovesFd, CopyPc, TypeInv, Exclusive
<1>8. Renaming'
  BY <1>0, <1>m, <1>x DEF Inv, Renaming, MovesFd, CopyPc, MovePc, MovedPc, TypeInv, Exclusive, Shape
<1>9. Whiteouts'
  BY <1>0, <1>m, <1>x, ViewIs, ViewIsNext DEF Inv, Whiteouts, MovesFd, Shape, TypeInv, MovedPc
<1>10. Explaining'
  <2> PICK m \in Name : m = th[t].to  BY <1>m
  <2>1. \A u \in Thread, n \in Name : LeftNow(u, n) \subseteq LeftNow(u, n)'
    BY <1>0, <1>n, LeftKept DEF MovesFd, MovedPc
  <2>2. \A n \in Name \ {m} : View(n)' = View(n)
    BY <1>m, ViewIs, ViewIsNext DEF Inv, TypeInv
  <2>3. View(m)' = View(m) \/ View(m)' = lower[m]
    BY <1>m, ViewIs, ViewIsNext DEF Inv, TypeInv
  <2>4. lower[m] \in LeftNow(t, m)
    BY <1>m, LeftNowIs DEF Inv, Shape
  <2> QED BY <2>1, <2>2, <2>3, <2>4 DEF Inv, Explaining, ExplainedAt
<1>11. NoLitter'
  BY <1>0 DEF Inv, NoLitter, MovesFd, MyTemp, TypeInv
<1> QED BY <1>1, <1>2, <1>3, <1>4, <1>5, <1>6, <1>7, <1>8, <1>9, <1>10, <1>11 DEF Inv

LEMMA ClearSidecarInv == ASSUME Inv, NEW t \in Thread, ClearSidecar(t) PROVE Inv'
<1> USE Contents DEF ClearSidecar, At, ghosts, files
<1>0. Moves(t, IF th[t].op = "create" THEN "open_new" ELSE "move") /\ th' \in ThType
  BY GoToMoves DEF Inv, Pc, CopyPc, MovePc, MovedPc
<1>m. /\ th[t].name \in Name /\ th[t].to \in Name /\ Names(t) = {th[t].name, th[t].to}
      /\ MyTemp(t) \in Slot
  BY MyTempType DEF Inv, Shape, Names
<1>n. \A u \in Thread : Names(u)' = Names(u)
  BY <1>0 DEF Moves, Names
<1>x. ASSUME NEW u \in Thread, u # t, th[u].pc # "idle", th[u].pc # "pwrite",
             th[u].name = th[t].to \/ th[u].to = th[t].to
      PROVE  th[t].to \in raced /\ th[u].op \notin Exclusive /\ th[t].op \notin Exclusive
  BY <1>x, <1>m, Alone DEF Names
<1>1. TypeInv'
  BY <1>0, <1>m DEF Inv, TypeInv, ThType
<1>2. Shape'
  BY <1>0 DEF Inv, Shape, Moves, CopyPc, MovePc, MovedPc
<1>3. Temps'
  BY <1>0 DEF Inv, Temps, Moves, CopyPc, MyTemp
<1>4. Locked'
  BY <1>0, <1>n DEF Inv, Locked, Moves
<1>5. Hidden'
  BY <1>m DEF Inv, Hidden, TypeInv
<1>6. Open'
  BY <1>0 DEF Inv, Open, Moves, MovedPc, Shape
<1>7. CopyingUp'
  BY <1>0 DEF Inv, CopyingUp, Moves, CopyPc
<1>8. Renaming'
  BY <1>0 DEF Inv, Renaming, Moves, CopyPc, MovePc, MovedPc
<1>9. Whiteouts'
  BY <1>0, <1>m, <1>x, ViewIs, ViewIsNext DEF Inv, Whiteouts, Moves, Shape, TypeInv, MovedPc,
     Exclusive
<1>10. Explaining'
  <2> PICK m \in Name : m = th[t].to  BY <1>m
  <2>1. \A u \in Thread, n \in Name : LeftNow(u, n) \subseteq LeftNow(u, n)'
    BY <1>0, <1>n, LeftKept DEF Moves, MovedPc
  <2>2. \A n \in Name \ {m} : View(n)' = View(n)
    BY <1>m, ViewIs, ViewIsNext DEF Inv, TypeInv
  <2>3. View(m)' = View(m) \/ View(m)' = lower[m]
    BY <1>m, ViewIs, ViewIsNext DEF Inv, TypeInv, Hidden
  <2>4. lower[m] \in LeftNow(t, m)
    BY <1>m, LeftNowIs DEF Inv, Shape
  <2> QED BY <2>1, <2>2, <2>3, <2>4 DEF Inv, Explaining, ExplainedAt
<1>11. NoLitter'
  BY <1>0 DEF Inv, NoLitter, Moves, MyTemp, TypeInv
<1> QED BY <1>1, <1>2, <1>3, <1>4, <1>5, <1>6, <1>7, <1>8, <1>9, <1>10, <1>11 DEF Inv

LEMMA RenameReadyInv == ASSUME Inv, NEW t \in Thread, RenameReady(t) PROVE Inv'
<1> USE Contents DEF RenameReady, At, ghosts, files
<1>0. Moves(t, "clear") /\ th' \in ThType
  BY GoToMoves DEF Inv, Pc, CopyPc, MovePc, MovedPc
<1>m. /\ th[t].name \in Name /\ th[t].to \in Name /\ Names(t) = {th[t].name, th[t].to}
      /\ MyTemp(t) \in Slot
  BY MyTempType DEF Inv, Shape, Names
<1>n. \A u \in Thread : Names(u)' = Names(u)
  BY <1>0 DEF Moves, Names
<1>1. TypeInv'
  BY <1>0, <1>m DEF Inv, TypeInv, ThType
<1>2. Shape'
  BY <1>0 DEF Inv, Shape, Moves, CopyPc, MovePc, MovedPc
<1>3. Temps'
  BY <1>0 DEF Inv, Temps, Moves, CopyPc, MyTemp
<1>4. Locked'
  BY <1>0, <1>n DEF Inv, Locked, Moves
<1>5. Hidden'
  BY DEF Inv, Hidden
<1>6. Open'
  BY <1>0 DEF Inv, Open, Moves, MovedPc, Shape
<1>7. CopyingUp'
  BY <1>0 DEF Inv, CopyingUp, Moves, CopyPc
<1>8. Renaming'
  BY <1>0 DEF Inv, Renaming, Moves, CopyPc, MovePc, MovedPc
<1>9. Whiteouts'
  BY <1>0 DEF Inv, Whiteouts, Moves, View, Where
<1>10. Explaining'
  <2>1. \A u \in Thread, n \in Name : LeftNow(u, n) \subseteq LeftNow(u, n)'
    BY <1>0, <1>n, LeftKept DEF Moves, MovedPc
  <2>2. \A n \in Name : View(n)' = View(n)
    BY DEF View, Where
  <2> QED BY <2>1, <2>2 DEF Inv, Explaining, ExplainedAt
<1>11. NoLitter'
  BY <1>0 DEF Inv, NoLitter, Moves, MyTemp, TypeInv
<1> QED BY <1>1, <1>2, <1>3, <1>4, <1>5, <1>6, <1>7, <1>8, <1>9, <1>10, <1>11 DEF Inv

LEMMA RemoveInv == ASSUME Inv, NEW t \in Thread, Remove(t) PROVE Inv'
<1> USE Contents DEF Remove, At, ghosts
<1>m. /\ th[t].name \in Name /\ th[t].to \in Name /\ Names(t) = {th[t].name, th[t].to}
  BY DEF Inv, Shape, Names
<1>0. MovesFd(t, IF Marks(t) THEN "white" ELSE "done", th[t].name, Absent) /\ th' \in ThType
  BY <1>m, GoToMovesFd DEF Inv, Pc, MovePc, MovedPc
<1>n. \A u \in Thread : Names(u)' = Names(u)
  BY <1>0 DEF MovesFd, Names
<1>x. ASSUME NEW u \in Thread, u # t, th[u].pc # "idle", th[u].pc # "pwrite",
             th[u].name = th[t].name \/ th[u].to = th[t].name
      PROVE  th[t].name \in raced /\ th[u].op \notin Exclusive /\ th[t].op \notin Exclusive
  BY <1>x, <1>m, Alone DEF Names
<1>e. th[t].op \in Exclusive
  BY DEF Inv, Shape, Exclusive
<1>1. TypeInv'
  BY <1>0, <1>m DEF Inv, TypeInv, ThType
<1>2. Shape'
  BY <1>0, <1>e DEF Inv, Shape, MovesFd, CopyPc, MovePc, MovedPc
<1>3. Temps'
  BY <1>0 DEF Inv, Temps, MovesFd, CopyPc, MyTemp
<1>4. Locked'
  BY <1>0, <1>n DEF Inv, Locked, MovesFd
<1>5. Hidden'
  BY <1>m DEF Inv, Hidden, TypeInv
<1>6. Open'
  BY <1>0, <1>m DEF Inv, Open, MovesFd, MovedPc, Shape, TypeInv
<1>7. CopyingUp'
  BY <1>0, <1>m, <1>x DEF Inv, CopyingUp, MovesFd, CopyPc, TypeInv, Exclusive
<1>8. Renaming'
  BY <1>0, <1>m, <1>x, <1>e DEF Inv, Renaming, MovesFd, CopyPc, MovePc, MovedPc, TypeInv, Shape
<1>9. Whiteouts'
  BY <1>0, <1>m, <1>x, <1>e, ViewIs, ViewIsNext DEF Inv, Whiteouts, MovesFd, Shape, TypeInv,
     MovedPc, Marks
<1>10. Explaining'
  <2> PICK m \in Name : m = th[t].name  BY <1>m
  <2>1. \A u \in Thread, n \in Name : LeftNow(u, n) \subseteq LeftNow(u, n)'
    BY <1>0, <1>n, LeftKept DEF MovesFd, MovedPc
  <2>2. \A n \in Name \ {m} : View(n)' = View(n)
    BY <1>m, ViewIs, ViewIsNext DEF Inv, TypeInv
  <2>3. View(m)' = Absent \/ View(m)' = lower[m]
    BY <1>m, ViewIs, ViewIsNext DEF Inv, TypeInv
  <2>4. {Absent, lower[m]} \subseteq LeftNow(t, m)
    BY <1>m, LeftNowIs DEF Inv, Shape, MovedPc, Exclusive
  <2> QED BY <2>1, <2>2, <2>3, <2>4 DEF Inv, Explaining, ExplainedAt
<1>11. NoLitter'
  BY <1>0 DEF Inv, NoLitter, MovesFd, MyTemp, TypeInv
<1> QED BY <1>1, <1>2, <1>3, <1>4, <1>5, <1>6, <1>7, <1>8, <1>9, <1>10, <1>11 DEF Inv

LEMMA MoveInv == ASSUME Inv, NEW t \in Thread, Move(t) PROVE Inv'
<1> USE Contents DEF Move, At, ghosts
<1>m. /\ th[t].name \in Name /\ th[t].to \in Name /\ Names(t) = {th[t].name, th[t].to}
  BY DEF Inv, Shape, Names
<1>0. MovesFd(t, IF Marks(t) THEN "white" ELSE "done", th[t].name, th[t].to) /\ th' \in ThType
  BY <1>m, GoToMovesFd DEF Inv, Pc, MovePc, MovedPc
<1>n. \A u \in Thread : Names(u)' = Names(u)
  BY <1>0 DEF MovesFd, Names
<1>e. /\ th[t].op = "rename" /\ th[t].name # th[t].to /\ th[t].val \in File
      /\ upper[th[t].name] = th[t].val /\ th[t].to \notin sidecar
  BY DEF Inv, Shape, Renaming, MovePc, Whiteouts
<1>x. \A u \in Thread : u # t /\ th[u].pc # "idle" /\ th[u].pc # "pwrite" =>
          /\ th[u].name # th[t].name /\ th[u].name # th[t].to
          /\ th[u].to # th[t].name /\ th[u].to # th[t].to
  BY <1>m, <1>e, Alone DEF Names, Exclusive
<1>u. /\ upper'[th[t].to] = th[t].val /\ upper'[th[t].name] = Absent
      /\ \A n \in Name \ {th[t].name, th[t].to} : upper'[n] = upper[n]
      /\ upper' \in [Name -> File \cup {Absent, Device}]
  BY <1>m, <1>e DEF Inv, TypeInv
<1>1. TypeInv'
  BY <1>0, <1>m, <1>u DEF Inv, TypeInv, ThType
<1>2. Shape'
  BY <1>0, <1>e DEF Inv, Shape, MovesFd, CopyPc, MovePc, MovedPc, Exclusive
<1>3. Temps'
  BY <1>0 DEF Inv, Temps, MovesFd, CopyPc, MyTemp
<1>4. Locked'
  BY <1>0, <1>n DEF Inv, Locked, MovesFd
<1>5. Hidden'
  BY <1>m, <1>u, <1>e DEF Inv, Hidden, TypeInv
<1>6. Open'
  BY <1>0, <1>m, <1>u, <1>e, <1>x DEF Inv, Open, MovesFd, MovedPc, Shape, TypeInv, ThType
<1>7. CopyingUp'
  BY <1>0, <1>m, <1>x, <1>u, <1>e DEF Inv, CopyingUp, MovesFd, CopyPc, Shape
<1>8. Renaming'
  BY <1>0, <1>m, <1>x, <1>u, <1>e DEF Inv, Renaming, MovesFd, CopyPc, MovePc, MovedPc, Shape
<1>9. Whiteouts'
  BY <1>0, <1>m, <1>x, <1>u, <1>e, ViewIs, ViewIsNext DEF Inv, Whiteouts, MovesFd, Shape,
     TypeInv, MovedPc, Marks
<1>10. Explaining'
  <2> PICK m \in Name : m = th[t].name  BY <1>m
  <2> PICK to \in Name : to = th[t].to  BY <1>m
  <2>1. \A u \in Thread, n \in Name : LeftNow(u, n) \subseteq LeftNow(u, n)'
    BY <1>0, <1>n, LeftKept DEF MovesFd, MovedPc
  <2>2. \A n \in Name \ {m, to} : View(n)' = View(n)
    BY <1>m, <1>u, ViewIs, ViewIsNext DEF Inv, TypeInv
  <2>3. View(m)' = Absent \/ View(m)' = lower[m]
    BY <1>m, <1>u, ViewIs, ViewIsNext DEF Inv, TypeInv
  <2>4. {Absent, lower[m]} \subseteq LeftNow(t, m)
    BY <1>m, <1>e, LeftNowIs
  <2>5. View(to)' \in LeftNow(t, to)'
    <3>1. View(to)' = th[t].val
      BY <1>u, <1>e, ViewIsNext
    <3> QED BY <3>1, <1>0, <1>m, <1>n, <1>e, LeftNowIsNext DEF MovesFd, MovedPc
  <2> QED BY <2>1, <2>2, <2>3, <2>4, <2>5 DEF Inv, Explaining, ExplainedAt
<1>11. NoLitter'
  BY <1>0 DEF Inv, NoLitter, MovesFd, MyTemp, TypeInv
<1> QED BY <1>1, <1>2, <1>3, <1>4, <1>5, <1>6, <1>7, <1>8, <1>9, <1>10, <1>11 DEF Inv

LEMMA WhiteRemoveInv == ASSUME Inv, NEW t \in Thread, WhiteRemove(t) PROVE Inv'
<1> USE Contents DEF WhiteRemove, At, ghosts, files
<1>0. Moves(t, "mark") /\ th' \in ThType
  BY GoToMoves DEF Inv, Pc, CopyPc, MovePc, MovedPc
<1>m. /\ th[t].name \in Name /\ th[t].to \in Name /\ Names(t) = {th[t].name, th[t].to}
      /\ MyTemp(t) \in Slot
  BY MyTempType DEF Inv, Shape, Names
<1>n. \A u \in Thread : Names(u)' = Names(u)
  BY <1>0 DEF Moves, Names
<1>x. ASSUME NEW u \in Thread, u # t, th[u].pc # "idle", th[u].pc # "pwrite",
             th[u].name = th[t].name \/ th[u].to = th[t].name
      PROVE  th[t].name \in raced /\ th[u].op \notin Exclusive /\ th[t].op \notin Exclusive
  BY <1>x, <1>m, Alone DEF Names
<1>e. th[t].op \in Exclusive
  BY DEF Inv, Shape, MovedPc
<1>1. TypeInv'
  BY <1>0, <1>m DEF Inv, TypeInv, ThType
<1>2. Shape'
  BY <1>0 DEF Inv, Shape, Moves, CopyPc, MovePc, MovedPc
<1>3. Temps'
  BY <1>0 DEF Inv, Temps, Moves, CopyPc, MyTemp
<1>4. Locked'
  BY <1>0, <1>n DEF Inv, Locked, Moves
<1>5. Hidden'
  BY <1>m DEF Inv, Hidden, TypeInv
<1>6. Open'
  BY <1>0, <1>m DEF Inv, Open, Moves, MovedPc, Shape, TypeInv
<1>7. CopyingUp'
  BY <1>0, <1>m, <1>x DEF Inv, CopyingUp, Moves, CopyPc, TypeInv, Exclusive
<1>8. Renaming'
  BY <1>0, <1>m, <1>x, <1>e DEF Inv, Renaming, Moves, CopyPc, MovePc, MovedPc, TypeInv, Shape
<1>9. Whiteouts'
  BY <1>0, <1>m, <1>x, <1>e, ViewIs, ViewIsNext DEF Inv, Whiteouts, Moves, Shape, TypeInv, MovedPc
<1>10. Explaining'
  <2> PICK m \in Name : m = th[t].name  BY <1>m
  <2>1. \A u \in Thread, n \in Name : LeftNow(u, n) \subseteq LeftNow(u, n)'
    BY <1>0, <1>n, LeftKept DEF Moves, MovedPc
  <2>2. \A n \in Name \ {m} : View(n)' = View(n)
    BY <1>m, ViewIs, ViewIsNext DEF Inv, TypeInv
  <2>3. View(m)' = Absent \/ View(m)' = lower[m]
    BY <1>m, ViewIs, ViewIsNext DEF Inv, TypeInv
  <2>4. {Absent, lower[m]} \subseteq LeftNow(t, m)
    BY <1>m, LeftNowIs DEF Inv, Shape, MovedPc, Exclusive
  <2> QED BY <2>1, <2>2, <2>3, <2>4 DEF Inv, Explaining, ExplainedAt
<1>11. NoLitter'
  BY <1>0 DEF Inv, NoLitter, Moves, MyTemp, TypeInv
<1> QED BY <1>1, <1>2, <1>3, <1>4, <1>5, <1>6, <1>7, <1>8, <1>9, <1>10, <1>11 DEF Inv

LEMMA WhiteMarkInv == ASSUME Inv, NEW t \in Thread, WhiteMark(t) PROVE Inv'
<1> USE Contents DEF WhiteMark, At, ghosts, files
<1>0. Moves(t, "done") /\ th' \in ThType
  BY GoToMoves DEF Inv, Pc, CopyPc, MovePc, MovedPc
<1>m. /\ th[t].name \in Name /\ th[t].to \in Name /\ Names(t) = {th[t].name, th[t].to}
      /\ MyTemp(t) \in Slot
  BY MyTempType DEF Inv, Shape, Names
<1>n. \A u \in Thread : Names(u)' = Names(u)
  BY <1>0 DEF Moves, Names
<1>x. ASSUME NEW u \in Thread, u # t, th[u].pc # "idle", th[u].pc # "pwrite",
             th[u].name = th[t].name \/ th[u].to = th[t].name
      PROVE  th[t].name \in raced /\ th[u].op \notin Exclusive /\ th[t].op \notin Exclusive
  BY <1>x, <1>m, Alone DEF Names
<1>e. th[t].op \in Exclusive
  BY DEF Inv, Shape, MovedPc
<1>v. upper[th[t].name] = Absent
  BY DEF Inv, Whiteouts
<1>1. TypeInv'
  BY <1>0, <1>m DEF Inv, TypeInv, ThType
<1>2. Shape'
  BY <1>0 DEF Inv, Shape, Moves, CopyPc, MovePc, MovedPc
<1>3. Temps'
  BY <1>0 DEF Inv, Temps, Moves, CopyPc, MyTemp
<1>4. Locked'
  BY <1>0, <1>n DEF Inv, Locked, Moves
<1>5. Hidden'
  BY <1>m, <1>v DEF Inv, Hidden, TypeInv
<1>6. Open'
  BY <1>0, <1>m DEF Inv, Open, Moves, MovedPc, Shape, TypeInv, ThType
<1>7. CopyingUp'
  <2>1. \A u \in Thread : th[u].pc \in CopyPc => th[u].name # th[t].name
    BY <1>x, <1>e DEF CopyPc
  <2>2. \A u \in Thread : th'[u].pc \in CopyPc => th[u].pc \in CopyPc /\ th'[u] = th[u]
    BY <1>0 DEF CopyPc, Moves
  <2> QED BY <1>m, <2>1, <2>2 DEF Inv, CopyingUp, TypeInv, CopyPc, Shape
<1>8. Renaming'
  BY <1>0, <1>m, <1>x, <1>e DEF Inv, Renaming, Moves, CopyPc, MovePc, MovedPc, TypeInv, Shape
<1>9. Whiteouts'
  BY <1>0, <1>m, <1>x, <1>e, ViewIs, ViewIsNext DEF Inv, Whiteouts, Moves, Shape, TypeInv, MovedPc
<1>10. Explaining'
  <2> PICK m \in Name : m = th[t].name  BY <1>m
  <2>1. \A u \in Thread, n \in Name : LeftNow(u, n) \subseteq LeftNow(u, n)'
    BY <1>0, <1>n, LeftKept DEF Moves, MovedPc
  <2>2. \A n \in Name \ {m} : View(n)' = View(n)
    BY <1>m, ViewIs, ViewIsNext DEF Inv, TypeInv
  <2>3. View(m)' = Absent \/ View(m)' = lower[m]
    BY <1>m, ViewIs, ViewIsNext DEF Inv, TypeInv
  <2>4. {Absent, lower[m]} \subseteq LeftNow(t, m)
    BY <1>m, LeftNowIs DEF Inv, Shape, MovedPc, Exclusive
  <2> QED BY <2>1, <2>2, <2>3, <2>4 DEF Inv, Explaining, ExplainedAt
<1>11. NoLitter'
  BY <1>0 DEF Inv, NoLitter, Moves, MyTemp, TypeInv
<1> QED BY <1>1, <1>2, <1>3, <1>4, <1>5, <1>6, <1>7, <1>8, <1>9, <1>10, <1>11 DEF Inv

-----------------------------------------------------------------------------
(* The theorems. *)

LEMMA StutterInv == ASSUME Inv, UNCHANGED vars PROVE Inv'
<1> USE DEF vars
<1>1. \A n \in Name : View(n)' = View(n)
  BY DEF View, Where
<1>2. \A t \in Thread : Names(t)' = Names(t)
  BY DEF Names
<1>3. \A t \in Thread, n \in Name : LeftNow(t, n)' = LeftNow(t, n)
  BY DEF LeftNow, Left, Names
<1>4. TypeInv' /\ Shape' /\ Hidden' /\ Open' /\ CopyingUp' /\ Renaming'
  BY DEF Inv, TypeInv, Shape, Hidden, Open, CopyingUp, Renaming
<1>5. Temps' /\ NoLitter'
  BY DEF Inv, Temps, NoLitter, MyTemp
<1>7. Locked'
  BY <1>2 DEF Inv, Locked
<1>8. Whiteouts'
  BY DEF Inv, Whiteouts, View, Where
<1>6. Explaining'
  BY <1>1, <1>3 DEF Inv, Explaining, ExplainedAt
<1> QED BY <1>4, <1>5, <1>6, <1>7, <1>8 DEF Inv

LEMMA NextInv == ASSUME Inv, [Next]_vars PROVE Inv'
<1>1. ASSUME NEW t \in Thread, CopyUpStep(t) PROVE Inv'
  BY <1>1, OpenTempInv, CopyDataInv, InstallInv DEF CopyUpStep
<1>2. ASSUME NEW t \in Thread, WriteStep(t) PROVE Inv'
  BY <1>2, OpenUpperInv, PWriteInv, TruncateInv DEF WriteStep
<1>3. ASSUME NEW t \in Thread, CreateStep(t) PROVE Inv'
  BY <1>3, FindDeviceInv, ClearDeviceInv, ClearSidecarInv, OpenNewInv DEF CreateStep
<1>4. ASSUME NEW t \in Thread, RemoveStep(t) PROVE Inv'
  BY <1>4, RemoveInv, RenameReadyInv, MoveInv, WhiteRemoveInv, WhiteMarkInv, ReturnInv
     DEF RemoveStep
<1> QED BY <1>1, <1>2, <1>3, <1>4, BeginStepInv, FailsInv, CrashInv, StutterInv DEF Next

\* The invariant holds of every reachable state.
THEOREM Invariance == Spec => []Inv
<1> QED BY InitInv, NextInv, PTL DEF Spec

\* NoPartial: no client ever finds part of a file (copy_regular and its
\* temp files), whichever threads copy up at once and whichever calls fail.
THEOREM NeverPartial == Spec => []NoPartial
<1>1. Inv => NoPartial
  BY Contents, ViewIs DEF Inv, TypeInv, NoPartial
<1> QED BY <1>1, Invariance, PTL

\* NoLitter: without a crash, copy_regular leaves no temp file behind.
THEOREM TempsBelong == Spec => []NoLitter
<1>1. Inv => NoLitter
  BY DEF Inv
<1> QED BY <1>1, Invariance, PTL

\* RenameKeeps: between any two system calls of op_rename the file is at
\* its old name or at its new one, also while other threads write to it.
THEOREM RenameKeepsFile == Spec => []RenameKeeps
<1>1. ASSUME Inv PROVE RenameKeeps
  <2> SUFFICES ASSUME NEW t \in Thread, th[t].op = "rename"
               PROVE  View(th[t].name) = th[t].val \/ View(th[t].to) = th[t].val
    BY DEF RenameKeeps
  <2> USE <1>1, Contents
  <2>1. /\ th[t].name \in Name /\ th[t].to \in Name /\ th[t].val \in File
        /\ th[t].pc \in CopyPc \cup MovePc \cup MovedPc
    BY DEF Inv, Shape, TypeInv, ThType, Pc
  <2>2. CASE th[t].pc \in CopyPc
    BY <2>1, <2>2, ViewIs DEF Inv, Renaming, CopyingUp
  <2>3. CASE th[t].pc \in MovePc
    BY <2>1, <2>3, ViewIs DEF Inv, Renaming
  <2>4. CASE th[t].pc \in MovedPc
    BY <2>1, <2>4, ViewIs DEF Inv, Renaming
  <2> QED BY <2>1, <2>2, <2>3, <2>4
<1> QED BY <1>1, Invariance, PTL

\* Explained: a client finds what the finished operations put there, or
\* what a handler that was cut short may have left (op_unlink, op_rename,
\* op_create), wherever no two handlers have overlapped at the name.
THEOREM FilesAreExplained == Spec => []Explained
<1>1. Inv => Explained
  BY LeftNowLeft DEF Inv, Explaining, ExplainedAt, Explained
<1> QED BY <1>1, Invariance, PTL
===============================================================================
