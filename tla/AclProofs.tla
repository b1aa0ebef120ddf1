------------------------------ MODULE AclProofs ------------------------------
(***************************************************************************)
(* The ACL sweeps are complete for any tree, any number of sessions and    *)
(* anything that other processes create and delete meanwhile.              *)
(***************************************************************************)
EXTENDS Acl, PathLemmas

-----------------------------------------------------------------------------
(* The inductive invariant. *)

Kind == {"none", "dir", "file", "link"}

TypeInv ==
    /\ phase \in {"idle", "apply", "run", "strip", "done"}
    /\ kind \in [Path -> Kind]
    /\ ace \subseteq Path /\ toVisit \subseteq Path /\ toList \subseteq Path
    /\ failed \subseteq Path /\ unread \subseteq Path
    /\ renamed \in BOOLEAN

\* What exists is in directories; the granted path stays.
Tree ==
    /\ \A p \in Path : kind[p] # "none" => \A a \in Above(p) : kind[a] = "dir"
    /\ kind[Grant] # "none"

\* Only files and directories carry entries.
Carriers == \A p \in ace : kind[p] \in {"dir", "file"}

\* The walk has yet to come by p.
Pending(p) == p \in toVisit \/ \E a \in Above(p) : a \in toVisit \cup toList

WalkOver == phase \in {"run", "done"} => toVisit = {} /\ toList = {}

\* The strip leaves an entry behind it only where it may.
Stripping ==
    phase \in {"strip", "done"} /\ ~renamed =>
        \A p \in ace : Granted(p) => Excused(p) \/ Pending(p)

\* The grant leaves nothing without an entry behind it.
Granting ==
    phase \in {"apply", "run"} /\ ~renamed /\ failed = {} /\ unread = {} =>
        \A p \in Path : Granted(p) /\ kind[p] \in {"dir", "file"} => p \in ace \/ Pending(p)

Inv == TypeInv /\ Tree /\ Carriers /\ WalkOver /\ Stripping /\ Granting

-----------------------------------------------------------------------------
(* The granted tree. *)

LEMMA GrantedParent ==
    ASSUME NEW p \in Path, Granted(p), p # Grant
    PROVE  Parent(p) \in Path /\ Granted(Parent(p))
<1>1. Grant \in Above(p)
  BY GrantAssumption, AboveIff DEF Granted
<1>2. Parent(p) # <<>> /\ Grant \in Above(Parent(p)) \cup {Parent(p)}
  BY <1>1, AboveParent
<1>3. Parent(p) \in Path
  BY <1>2, PathsClosed
<1> QED BY <1>2, <1>3, AboveIff DEF Granted

\* At the start of a walk all of the granted tree is ahead of it.
LEMMA AllPending ==
    ASSUME NEW p \in Path, Granted(p), StartWalk
    PROVE  Pending(p)'
BY GrantAssumption, AboveIff DEF Granted, StartWalk, Pending

\* Nothing is below what has no children.
LEMMA NothingBelow ==
    ASSUME TypeInv, Tree, NEW x \in Path, \A c \in Children(x) : kind[c] = "none",
           NEW p \in Path, x \in Above(p)
    PROVE  kind[p] = "none"
<1>1. PICK c \in Children(x) : c = p \/ c \in Above(p)
  BY ChildOnTheWay
<1>2. kind[c] = "none"
  BY <1>1
<1> QED BY <1>1, <1>2 DEF Tree

-----------------------------------------------------------------------------

\* Init says of each object that its parent is a directory.
LEMMA InitTree == Init => Tree
<1> SUFFICES ASSUME Init PROVE Tree
  OBVIOUS
<1> DEFINE Good(p) == kind[p] # "none" => \A a \in Above(p) : kind[a] = "dir"
           Bad == {n \in Nat : \E p \in Path : Len(p) = n /\ ~Good(p)}
<1>1. Bad = {}
  <2>1. SUFFICES ASSUME Bad # {} PROVE FALSE
    OBVIOUS
  <2>2. PICK n \in Bad : \A m \in Bad : n <= m
    BY <2>1, Least
  <2>3. PICK p \in Path : Len(p) = n /\ ~Good(p)
    OBVIOUS
  <2>4. Parent(p) # <<>> /\ Parent(p) \in Path
    BY <2>3, AboveParent, PathsClosed
  <2>5. kind[Parent(p)] = "dir"
    BY <2>3, <2>4 DEF Init, IsDir
  <2>6. Len(Parent(p)) \in Nat /\ Len(Parent(p)) < n
    BY <2>3, <2>4, ParentType, PathType
  <2>7. Good(Parent(p))
    BY <2>2, <2>4, <2>6
  <2> QED BY <2>3, <2>4, <2>5, <2>7, AboveParent
<1>2. \A p \in Path : Good(p)
  BY <1>1, PathType
<1> QED BY <1>2 DEF Tree, Init

LEMMA InitInv == Init => Inv
BY InitTree DEF Init, Inv, TypeInv, Carriers, WalkOver, Stripping, Granting, Kind

LEMMA BeginInv == ASSUME Inv, Begin PROVE Inv'
<1> USE DEF Begin, StartWalk
<1>1. TypeInv'
  BY GrantAssumption DEF Inv, TypeInv, Kind
<1>2. Tree'
  BY DEF Inv, Tree
<1>3. Carriers'
  BY DEF Inv, Carriers
<1>4. WalkOver'
  BY DEF Inv, WalkOver
<1>5. Stripping'
  BY DEF Inv, Stripping, Excused, Pending
<1>6. Granting'
  BY AllPending DEF Inv, Granting
<1> QED BY <1>1, <1>2, <1>3, <1>4, <1>5, <1>6 DEF Inv

LEMMA WalkEndsInv == ASSUME Inv, WalkEnds PROVE Inv'
<1> USE DEF WalkEnds, Walking, walkVars
<1>1. TypeInv'
  BY DEF Inv, TypeInv, Kind
<1>2. Tree'
  BY DEF Inv, Tree
<1>3. Carriers'
  BY DEF Inv, Carriers
<1>4. WalkOver'
  BY DEF Inv, WalkOver
<1>5. Stripping'
  BY DEF Inv, Stripping, Excused, Pending
<1>6. Granting'
  BY DEF Inv, Granting, Pending
<1> QED BY <1>1, <1>2, <1>3, <1>4, <1>5, <1>6 DEF Inv

LEMMA ChildEndsInv == ASSUME Inv, ChildEnds PROVE Inv'
<1> USE DEF ChildEnds, StartWalk
<1>1. TypeInv'
  BY GrantAssumption DEF Inv, TypeInv, Kind
<1>2. Tree'
  BY DEF Inv, Tree
<1>3. Carriers'
  BY DEF Inv, Carriers
<1>4. WalkOver'
  BY DEF Inv, WalkOver
<1>5. Stripping'
  BY AllPending DEF Inv, TypeInv, Stripping
<1>6. Granting'
  BY DEF Inv, Granting, Pending
<1> QED BY <1>1, <1>2, <1>3, <1>4, <1>5, <1>6 DEF Inv

LEMMA NeverStripsInv == ASSUME Inv, NeverStrips PROVE Inv'
<1> USE DEF NeverStrips, walkVars
<1>1. TypeInv'
  BY DEF Inv, TypeInv, Kind
<1>2. Tree'
  BY DEF Inv, Tree
<1>3. Carriers'
  BY DEF Inv, Carriers
<1>4. WalkOver'
  BY DEF Inv, WalkOver
<1>5. Stripping'
  BY DEF Inv, Stripping, Excused, Pending
<1>6. Granting'
  BY DEF Inv, Granting, Pending
<1> QED BY <1>1, <1>2, <1>3, <1>4, <1>5, <1>6 DEF Inv

LEMMA VisitInv == ASSUME Inv, NEW x \in Path, Visit(x) PROVE Inv'
<1> USE DEF Visit, Walking
<1>1. TypeInv'
  BY DEF Inv, TypeInv, Kind
<1>2. Tree'
  BY DEF Inv, Tree
<1>3. Carriers'
  <2>1. CASE kind[x] \in {"none", "link"}
    BY <2>1 DEF Inv, Carriers
  <2>2. CASE kind[x] \notin {"none", "link"}
    <3>1. kind[x] \in {"dir", "file"}
      BY <2>2 DEF Inv, TypeInv, Kind
    <3>2. ace' \subseteq ace \cup {x} /\ kind' = kind
      BY <2>2
    <3> QED BY <3>1, <3>2 DEF Inv, Carriers
  <2> QED BY <2>1, <2>2
<1>4. WalkOver'
  BY DEF Inv, WalkOver
<1>5. Stripping'
  BY DEF Inv, TypeInv, Carriers, Tree, WalkOver, Stripping, Excused, Pending
<1>6. Granting'
  BY DEF Inv, TypeInv, Tree, WalkOver, Granting, Pending
<1> QED BY <1>1, <1>2, <1>3, <1>4, <1>5, <1>6 DEF Inv

\* Reading a directory moves the walk on to the children: what was ahead of it
\* still is, or is in the directory that could not be read.
LEMMA ListPending ==
    ASSUME Inv, NEW x \in Path, List(x), NEW p \in Path, Pending(p), kind[p] \in {"dir", "file"}
    PROVE  Pending(p)' \/ (x \in Above(p) /\ x \in unread')
<1>1. CASE x \notin Above(p)
  BY <1>1 DEF List, Pending
<1>2. CASE x \in Above(p) /\ x \notin unread'
  <2>1. PICK c \in Children(x) : c = p \/ c \in Above(p)
    BY <1>2, ChildOnTheWay
  <2>2. kind[c] \notin {"none", "link"}
    BY <2>1 DEF Inv, Tree
  <2>3. c \in toVisit'
    BY <1>2, <2>2 DEF List
  <2> QED BY <2>1, <2>3 DEF Pending
<1> QED BY <1>1, <1>2

LEMMA ListInv == ASSUME Inv, NEW x \in Path, List(x) PROVE Inv'
<1> USE DEF List, Walking
<1>1. TypeInv'
  <2>1. Children(x) \subseteq Path
    BY ChildrenIff
  <2> QED BY <2>1 DEF Inv, TypeInv
<1>2. Tree'
  BY DEF Inv, Tree
<1>3. Carriers'
  BY DEF Inv, Carriers
<1>4. WalkOver'
  BY DEF Inv, WalkOver
<1>5. Stripping'
  <2> SUFFICES ASSUME phase \in {"strip", "done"}, ~renamed, NEW p \in ace, Granted(p)
               PROVE  Excused(p)' \/ Pending(p)'
    BY DEF Stripping
  <2>1. p \in Path /\ kind[p] \in {"dir", "file"}
    BY DEF Inv, TypeInv, Carriers
  <2>2. Excused(p) \/ Pending(p)
    BY DEF Inv, Stripping
  <2>3. CASE Excused(p)
    BY <2>3 DEF Excused
  <2>4. CASE Pending(p)
    BY <2>1, <2>4, ListPending DEF Excused
  <2> QED BY <2>2, <2>3, <2>4
<1>6. Granting'
  <2> SUFFICES ASSUME phase \in {"apply", "run"}, ~renamed, failed = {}, unread' = {},
                      NEW p \in Path, Granted(p), kind[p] \in {"dir", "file"}, p \notin ace
               PROVE  Pending(p)'
    BY DEF Granting
  <2>1. unread = {}
    OBVIOUS
  <2>2. Pending(p)
    BY <2>1 DEF Inv, Granting
  <2> QED BY <2>2, ListPending
<1> QED BY <1>1, <1>2, <1>3, <1>4, <1>5, <1>6 DEF Inv

LEMMA DeleteInv == ASSUME Inv, NEW x \in Path, Delete(x) PROVE Inv'
<1> USE DEF Delete, walkVars
<1>1. TypeInv'
  BY DEF Inv, TypeInv, Kind
<1>2. Tree'
  <2>1. ASSUME NEW p \in Path, kind'[p] # "none", NEW a \in Above(p)
        PROVE  kind'[a] = "dir"
    <3>1. p # x /\ kind[p] # "none"
      BY <2>1 DEF Inv, TypeInv
    <3>2. a # x /\ a \in Path
      BY <3>1, NothingBelow, AboveIff DEF Inv
    <3> QED BY <3>1, <3>2 DEF Inv, TypeInv, Tree
  <2> QED BY <2>1, GrantAssumption DEF Inv, TypeInv, Tree
<1>3. Carriers'
  BY DEF Inv, Carriers
<1>4. WalkOver'
  BY DEF Inv, WalkOver
<1>5. Stripping'
  BY DEF Inv, Stripping, Excused, Pending
<1>6. Granting'
  BY DEF Inv, TypeInv, Tree, WalkOver, Granting, Pending
<1> QED BY <1>1, <1>2, <1>3, <1>4, <1>5, <1>6 DEF Inv

\* A new object has its directory above it, and what is above that.
LEMMA NewObject ==
    ASSUME Inv, NEW x \in Path, NEW k, Create(x, k)
    PROVE  /\ \A a \in Above(x) : kind[a] = "dir" /\ a # x
           /\ Granted(x) => /\ Parent(x) \in Path /\ Granted(Parent(x))
                            /\ kind[Parent(x)] = "dir"
                            /\ Parent(x) \in Above(x) /\ Above(Parent(x)) \subseteq Above(x)
<1>1. CASE Parent(x) = <<>>
  <2>1. Above(x) = {}
    BY <1>1, AboveParent
  <2>2. ~Granted(x)
    BY <2>1, GrantAssumption, AboveIff DEF Create, Granted, Inv, Tree
  <2> QED BY <2>1, <2>2
<1>2. CASE Parent(x) # <<>>
  <2>1. Parent(x) \in Path
    BY <1>2, PathsClosed
  <2>2. kind[Parent(x)] = "dir"
    BY <1>2 DEF Create, IsDir
  <2>3. Above(x) = Above(Parent(x)) \cup {Parent(x)}
    BY <1>2, AboveParent
  <2>4. x # Grant /\ kind[x] = "none"
    BY DEF Create, Inv, Tree
  <2> QED BY <2>1, <2>2, <2>3, <2>4, GrantedParent DEF Inv, Tree
<1> QED BY <1>1, <1>2

LEMMA CreateInv ==
    ASSUME Inv, NEW x \in Path, NEW k \in {"dir", "file", "link"}, Create(x, k)
    PROVE  Inv'
<1> USE DEF Create, IsDir
<1>1. TypeInv'
  BY DEF Inv, TypeInv, Kind
<1>2. Tree'
  <2>1. ASSUME NEW p \in Path, kind'[p] # "none", NEW a \in Above(p)
        PROVE  kind'[a] = "dir"
    <3>1. a # x /\ kind[a] = "dir"
      BY <2>1, NewObject DEF Inv, TypeInv, Tree
    <3>2. a \in Path
      BY AboveIff
    <3> QED BY <3>1, <3>2 DEF Inv, TypeInv
  <2> QED BY <2>1, GrantAssumption DEF Inv, TypeInv, Tree
<1>3. Carriers'
  BY DEF Inv, TypeInv, Carriers
<1>4. WalkOver'
  BY DEF Inv, WalkOver
<1>5. Stripping'
  <2> SUFFICES ASSUME phase \in {"strip", "done"}, ~renamed, NEW p \in ace', Granted(p)
               PROVE  Excused(p)' \/ Pending(p)'
    BY DEF Stripping
  <2>1. CASE p \in ace
    BY <2>1 DEF Inv, Stripping, Excused, Pending
  <2>2. CASE p \notin ace
    <3>1. p = x /\ Parent(x) \in ace
      BY <2>2
    <3>2. Excused(Parent(x)) \/ Pending(Parent(x))
      BY <3>1, NewObject DEF Inv, Stripping
    <3>3. CASE Parent(x) \in failed
      BY <3>1, <3>3 DEF Excused
    <3>4. CASE \E a \in Above(Parent(x)) : a \in unread
      BY <3>1, <3>4, NewObject DEF Excused
    <3>5. CASE Pending(Parent(x))
      BY <3>1, <3>5, NewObject DEF Pending
    <3> QED BY <3>2, <3>3, <3>4, <3>5 DEF Excused
  <2> QED BY <2>1, <2>2
<1>6. Granting'
  <2> SUFFICES ASSUME phase \in {"apply", "run"}, ~renamed, failed' = {}, unread = {},
                      NEW p \in Path, Granted(p), kind'[p] \in {"dir", "file"}, p \notin ace'
               PROVE  Pending(p)'
    BY DEF Granting
  <2>1. failed = {}
    OBVIOUS
  <2>2. CASE p # x
    BY <2>1, <2>2 DEF Inv, TypeInv, Granting, Pending
  <2>3. CASE p = x
    <3>1. k # "link" /\ Parent(x) \notin ace
      BY <2>3 DEF Inv, TypeInv
    <3>2. Pending(Parent(x))
      BY <2>1, <2>3, <3>1, NewObject DEF Inv, Granting
    <3> QED BY <2>3, <3>2, NewObject DEF Pending
  <2> QED BY <2>2, <2>3
<1> QED BY <1>1, <1>2, <1>3, <1>4, <1>5, <1>6 DEF Inv

LEMMA MoveInv == ASSUME Inv, NEW x \in Path, NEW y \in Path, Move(x, y) PROVE Inv'
<1> USE DEF Move, IsDir, walkVars
<1>1. TypeInv'
  BY DEF Inv, TypeInv, Kind
<1>2. Tree'
  <2>1. ASSUME NEW p \in Path, kind'[p] # "none", NEW a \in Above(p)
        PROVE  kind'[a] = "dir"
    <3>1. x # y /\ a \in Path
      BY AboveIff
    <3>2. p # x
      BY <2>1, <3>1 DEF Inv, TypeInv
    <3>3. CASE p = y
      <4>1. a = Parent(y) \/ a \in Above(Parent(y))
        BY <3>3, AboveParent
      <4>2. Parent(y) # <<>> /\ Parent(y) \in Path
        BY <3>3, AboveParent, PathsClosed
      <4>3. kind[a] = "dir"
        BY <4>1, <4>2 DEF Inv, Tree
      <4>4. a # x
        BY <3>1, <3>3, AboveIff
      <4> QED BY <3>1, <4>3, <4>4 DEF Inv, TypeInv
    <3>4. CASE p # y
      <4>1. kind[p] # "none"
        BY <2>1, <3>2, <3>4 DEF Inv, TypeInv
      <4>2. a # x
        BY <4>1, NothingBelow DEF Inv
      <4>3. a # y
        BY <4>1 DEF Inv, Tree
      <4> QED BY <3>1, <4>1, <4>2, <4>3 DEF Inv, TypeInv, Tree
    <3> QED BY <3>3, <3>4
  <2> QED BY <2>1, GrantAssumption DEF Inv, TypeInv, Tree
<1>3. Carriers'
  BY DEF Inv, TypeInv, Carriers
<1>4. WalkOver'
  BY DEF Inv, WalkOver
<1>5. Stripping'
  BY DEF Inv, Stripping, Excused, Pending
<1>6. Granting'
  BY DEF Inv, Granting, Pending
<1> QED BY <1>1, <1>2, <1>3, <1>4, <1>5, <1>6 DEF Inv

LEMMA NextInv == Inv /\ [Next]_vars => Inv'
<1> SUFFICES ASSUME Inv, [Next]_vars PROVE Inv'
  OBVIOUS
<1>1. CASE UNCHANGED vars
  BY <1>1 DEF vars, Inv, TypeInv, Tree, Carriers, WalkOver, Stripping, Granting, Excused, Pending
<1>2. CASE Next
  BY <1>2, BeginInv, WalkEndsInv, ChildEndsInv, NeverStripsInv, VisitInv, ListInv, DeleteInv,
     CreateInv, MoveInv DEF Next
<1> QED BY <1>1, <1>2

LEMMA Invariant == Spec => []Inv
BY InitInv, NextInv, PTL DEF Spec

-----------------------------------------------------------------------------

\* When atexit_fn has stripped the granted path, no entry for _jaim is left in
\* it where neither an edit nor an opendir failed, whatever was created and
\* deleted there before and during the sweep (remove_recursive).
THEOREM StripIsComplete == Spec => []StripComplete
<1>1. Inv => StripComplete
  BY DEF Inv, WalkOver, Stripping, Pending, StripComplete
<1> QED BY <1>1, Invariant, PTL

\* Where nothing failed, every object of the granted tree carries the entry
\* while the jailed program runs (apply_recursive and inheritance).
THEOREM GrantIsComplete == Spec => []GrantReaches
<1>1. Inv => GrantReaches
  BY DEF Inv, WalkOver, Granting, Pending, GrantReaches
<1> QED BY <1>1, Invariant, PTL
=============================================================================
