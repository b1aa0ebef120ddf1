---------------------------- MODULE OverlayProofs ----------------------------
(***************************************************************************)
(* The helper keeps its two trees and their markers in order, for any real *)
(* home, any names and any sequence of client calls.                       *)
(***************************************************************************)
EXTENDS Overlay, PathLemmas, FiniteSetTheorems

-----------------------------------------------------------------------------
(* The inductive invariant, on any upper tree u with sidecars sc and opaque *)
(* markers op, so that it can be followed through the steps of a handler.   *)

GoodNode(n) ==
    /\ n = WithIno(Attrs(n), n.ino) /\ Attrs(n) \in UpperObject
    /\ n.ino \in Ino \cup {0} /\ ((n.ino # 0) <=> (n.t = "file"))

Typed(u) == u = [p \in Path |-> u[p]] /\ \A p \in Path : GoodNode(u[p])

TypeInv ==
    /\ lower \in [Path -> FT!Object] /\ FT!IsTree(lower)
    /\ Typed(upper)
    /\ sidecar \subseteq Path /\ opaque \subseteq Path
    /\ canMknod \in BOOLEAN
    /\ fh \in [Handle -> Ino \cup {0}]

\* UpperReachable.
Reach(u, sc, op) ==
    \A p \in Path :
        /\ u[p].t # "none" \/ p \in sc => \A a \in Above(p) : u[a].t = "dir" /\ a \notin sc
        /\ p \in sc => u[p].t = "none"
        /\ p \in op => u[p].t = "dir"

Inv == TypeInv /\ Reach(upper, sidecar, opaque)

-----------------------------------------------------------------------------
(* Objects and nodes. *)

LEMMA WithInoIs ==
    ASSUME NEW o, NEW i
    PROVE  /\ WithIno(o, i).t = o.t /\ WithIno(o, i).data = o.data
           /\ WithIno(o, i).mode = o.mode /\ WithIno(o, i).ino = i
           /\ Attrs(WithIno(o, i)) = [t |-> o.t, data |-> o.data, mode |-> o.mode]
BY DEF WithIno, Attrs

LEMMA ObjectFields ==
    /\ FT!None.t = "none" /\ FT!None.data = FT!NoData /\ FT!None.mode = {}
    /\ \A m : FT!Dir(m).t = "dir" /\ FT!Dir(m).data = FT!NoData /\ FT!Dir(m).mode = m
    /\ \A c, m : FT!File(c, m).t = "file" /\ FT!File(c, m).data = c /\ FT!File(c, m).mode = m
    /\ \A g : FT!Symlink(g).t = "link" /\ FT!Symlink(g).data = g /\ FT!Symlink(g).mode = {}
    /\ FT!Other.t = "other" /\ FT!Other.data = FT!NoData /\ FT!Other.mode = {}
BY DEF FT!None, FT!Dir, FT!File, FT!Symlink, FT!Other

LEMMA ObjectRecords ==
    /\ [t |-> FT!None.t, data |-> FT!None.data, mode |-> FT!None.mode] = FT!None
    /\ \A m : [t |-> FT!Dir(m).t, data |-> FT!Dir(m).data, mode |-> FT!Dir(m).mode] = FT!Dir(m)
    /\ \A c, m : [t |-> FT!File(c, m).t, data |-> FT!File(c, m).data, mode |-> FT!File(c, m).mode]
                   = FT!File(c, m)
    /\ \A g : [t |-> FT!Symlink(g).t, data |-> FT!Symlink(g).data, mode |-> FT!Symlink(g).mode]
                = FT!Symlink(g)
    /\ [t |-> FT!Other.t, data |-> FT!Other.data, mode |-> FT!Other.mode] = FT!Other
BY DEF FT!None, FT!Dir, FT!File, FT!Symlink, FT!Other

\* An object is the one that its fields make it.
LEMMA ObjectIs ==
    ASSUME NEW o \in FT!Object
    PROVE  /\ o = [t |-> o.t, data |-> o.data, mode |-> o.mode]
           /\ o.mode \in SUBSET Bits
           /\ o.t \in {"none", "dir", "file", "link", "other"}
           /\ o.t = "none" => o = FT!None
           /\ o.t = "dir" => o = FT!Dir(o.mode)
           /\ o.t = "file" => o.data \in Content /\ o = FT!File(o.data, o.mode)
           /\ o.t = "link" => o.data \in Target /\ o = FT!Symlink(o.data)
           /\ o.t = "other" => o = FT!Other
<1>1. CASE o = FT!None
  BY <1>1, ObjectFields, ObjectRecords
<1>2. CASE o = FT!Other
  BY <1>2, ObjectFields, ObjectRecords
<1>3. ASSUME NEW m \in FT!Mode, o = FT!Dir(m)
      PROVE  /\ o = [t |-> o.t, data |-> o.data, mode |-> o.mode]
             /\ o.mode \in SUBSET Bits /\ o.t = "dir" /\ o = FT!Dir(o.mode)
  BY <1>3, ObjectFields, ObjectRecords DEF FT!Mode
<1>4. ASSUME NEW c \in Content, NEW m \in FT!Mode, o = FT!File(c, m)
      PROVE  /\ o = [t |-> o.t, data |-> o.data, mode |-> o.mode]
             /\ o.mode \in SUBSET Bits /\ o.t = "file"
             /\ o.data \in Content /\ o = FT!File(o.data, o.mode)
  BY <1>4, ObjectFields, ObjectRecords DEF FT!Mode
<1>5. ASSUME NEW g \in Target, o = FT!Symlink(g)
      PROVE  /\ o = [t |-> o.t, data |-> o.data, mode |-> o.mode]
             /\ o.mode \in SUBSET Bits /\ o.t = "link"
             /\ o.data \in Target /\ o = FT!Symlink(o.data)
  BY <1>5, ObjectFields, ObjectRecords
<1>6. \/ o \in {FT!None, FT!Other} \/ \E m \in FT!Mode : o = FT!Dir(m)
      \/ \E c \in Content, m \in FT!Mode : o = FT!File(c, m)
      \/ \E g \in Target : o = FT!Symlink(g)
  BY DEF FT!Object
<1>7. CASE \E m \in FT!Mode : o = FT!Dir(m)
  BY <1>3, <1>7
<1>8. CASE \E c \in Content, m \in FT!Mode : o = FT!File(c, m)
  BY <1>4, <1>8
<1>9. CASE \E g \in Target : o = FT!Symlink(g)
  BY <1>5, <1>9
<1> QED BY <1>1, <1>2, <1>6, <1>7, <1>8, <1>9

LEMMA UpperTypes ==
    ASSUME NEW o \in UpperObject
    PROVE  o.t \in {"none", "whiteout", "dir", "file", "link"}
<1>1. CASE o = FT!None \/ o = Attrs(Whiteout)
  <2>1. FT!None.t = "none" /\ Attrs(Whiteout).t = Whiteout.t
    BY ObjectFields DEF Attrs
  <2>2. Whiteout.t = "whiteout"
    BY DEF Whiteout, None, WithIno
  <2> QED BY <1>1, <2>1, <2>2
<1>2. CASE o \in FT!Object /\ o # FT!Other
  BY <1>2, ObjectIs
<1> QED BY <1>1, <1>2 DEF UpperObject

LEMMA IsTreeIs ==
    ASSUME NEW f
    PROVE  FT!IsTree(f) <=>
             \A p \in Path : f[p].t # "none" => \A a \in Above(p) : f[a].t = "dir"
BY DEF FT!IsTree, FT!Above, FT!above, FT!Under, Above, above, Under

\* What goes into the upper tree.
LEMMA NodesGood ==
    /\ GoodNode(None) /\ None.t = "none" /\ None.ino = 0 /\ Attrs(None) = FT!None
    /\ GoodNode(Whiteout) /\ Whiteout.t = "whiteout" /\ Whiteout.ino = 0
    /\ \A m \in SUBSET Bits : /\ GoodNode(DirNode(m)) /\ DirNode(m).t = "dir" /\ DirNode(m).ino = 0
                              /\ Attrs(DirNode(m)) = FT!Dir(m \ Umask)
    /\ \A g \in Target : /\ GoodNode(WithIno(FT!Symlink(g), 0)) /\ WithIno(FT!Symlink(g), 0).t = "link"
    /\ \A c \in Content, m \in SUBSET Bits, i \in Ino :
          GoodNode(WithIno(FT!File(c, m), i)) /\ WithIno(FT!File(c, m), i).t = "file"
<1>0. /\ {FT!None, Attrs(Whiteout)} \subseteq UpperObject
      /\ \A m \in SUBSET Bits : FT!Dir(m) \in UpperObject
      /\ \A c \in Content, m \in SUBSET Bits : FT!File(c, m) \in UpperObject
      /\ \A g \in Target : FT!Symlink(g) \in UpperObject
  BY ObjectFields DEF UpperObject, FT!Object, FT!Mode
<1>i. 0 \notin Ino
  BY DEF Ino
<1>1. GoodNode(None) /\ None.t = "none" /\ None.ino = 0 /\ Attrs(None) = FT!None
  BY <1>0, WithInoIs, ObjectFields, ObjectRecords DEF None, GoodNode
<1>2. Whiteout = [t |-> "whiteout", data |-> None.data, mode |-> None.mode, ino |-> None.ino]
  BY DEF Whiteout, None, WithIno
<1>3. /\ GoodNode(Whiteout) /\ Whiteout.t = "whiteout" /\ Whiteout.ino = 0
  <2>1. Whiteout.t = "whiteout" /\ Whiteout.ino = 0
    BY <1>1, <1>2
  <2>2. Whiteout = WithIno(Attrs(Whiteout), Whiteout.ino)
    BY <1>2 DEF WithIno, Attrs
  <2> QED BY <1>0, <2>1, <2>2 DEF GoodNode
<1>4. ASSUME NEW o \in UpperObject, NEW i \in Ino \cup {0}, (i # 0) <=> (o.t = "file"),
             o = [t |-> o.t, data |-> o.data, mode |-> o.mode]
      PROVE  GoodNode(WithIno(o, i)) /\ WithIno(o, i).t = o.t /\ WithIno(o, i).ino = i
                                     /\ Attrs(WithIno(o, i)) = o
  BY <1>4, WithInoIs DEF GoodNode
<1>5. ASSUME NEW m \in SUBSET Bits
      PROVE  /\ GoodNode(DirNode(m)) /\ DirNode(m).t = "dir" /\ DirNode(m).ino = 0
             /\ Attrs(DirNode(m)) = FT!Dir(m \ Umask)
  <2>1. m \ Umask \in SUBSET Bits
    OBVIOUS
  <2> QED BY <1>0, <1>4, <2>1, ObjectFields, ObjectRecords DEF DirNode
<1>6. ASSUME NEW g \in Target
      PROVE  GoodNode(WithIno(FT!Symlink(g), 0)) /\ WithIno(FT!Symlink(g), 0).t = "link"
  BY <1>0, <1>4, ObjectFields, ObjectRecords
<1>7. ASSUME NEW c \in Content, NEW m \in SUBSET Bits, NEW i \in Ino
      PROVE  GoodNode(WithIno(FT!File(c, m), i)) /\ WithIno(FT!File(c, m), i).t = "file"
  BY <1>0, <1>4, <1>i, ObjectFields, ObjectRecords
<1> QED BY <1>1, <1>3, <1>5, <1>6, <1>7

\* There is always an inode number to spare.
LEMMA FreshInoIs ==
    ASSUME TypeInv, NEW p \in Path, upper[p].ino = 0
    PROVE  FreshIno(upper) \in Ino
<1> DEFINE P == Path \ {p}
           A == {upper[q].ino : q \in P}
           B == {fh[h] : h \in Handle}
           n == Cardinality(Path)
           m == Cardinality(Handle)
<1>1. IsFiniteSet(P) /\ Cardinality(P) = n - 1 /\ n \in Nat /\ m \in Nat
  BY LayersAssumption, FS_RemoveElement, FS_CardinalityType
<1>2. IsFiniteSet(A) /\ Cardinality(A) <= n - 1 /\ Cardinality(A) \in Nat
  <2> DEFINE f == [q \in P |-> upper[q].ino]
  <2>1. f \in Surjection(P, A)
    BY DEF Surjection
  <2>2. IsFiniteSet(A) /\ Cardinality(A) <= Cardinality(P)
    BY <1>1, <2>1, FS_Surjection
  <2> QED BY <1>1, <2>2, FS_CardinalityType
<1>3. IsFiniteSet(B) /\ Cardinality(B) <= m /\ Cardinality(B) \in Nat
  <2> DEFINE f == [h \in Handle |-> fh[h]]
  <2>1. f \in Surjection(Handle, B)
    BY DEF Surjection
  <2>2. IsFiniteSet(B) /\ Cardinality(B) <= Cardinality(Handle)
    BY LayersAssumption, <2>1, FS_Surjection
  <2> QED BY <2>2, FS_CardinalityType
<1>4. IsFiniteSet(A \cup B) /\ Cardinality(A \cup B) <= n - 1 + m /\ Cardinality(A \cup B) \in Nat
  <2>1. /\ IsFiniteSet(A \cup B)
        /\ Cardinality(A \cup B) = Cardinality(A) + Cardinality(B) - Cardinality(A \cap B)
        /\ IsFiniteSet(A \cap B)
    BY <1>2, <1>3, FS_Union, FS_Intersection
  <2>2. Cardinality(A \cap B) \in Nat /\ Cardinality(A \cup B) \in Nat
    BY <2>1, FS_CardinalityType
  <2> HIDE DEF A, B, n, m
  <2> QED BY <1>1, <1>2, <1>3, <2>1, <2>2
<1>5. Ino \ InUse(upper) # {}
  <2>1. SUFFICES ASSUME Ino \subseteq InUse(upper) PROVE FALSE
    OBVIOUS
  <2>2. Ino \subseteq A \cup B
    BY <2>1 DEF Ino, InUse
  <2>3. Cardinality(Ino) = n + m
    BY <1>1, FS_Interval DEF Ino
  <2>4. Cardinality(Ino) <= Cardinality(A \cup B)
    BY <1>4, <2>2, FS_Subset
  <2> HIDE DEF A, B, n, m
  <2> QED BY <1>1, <1>4, <2>3, <2>4
<1>6. Ino \ InUse(upper) \subseteq Nat
  BY <1>1 DEF Ino
<1>7. \E i \in Ino \ InUse(upper) : \A j \in Ino \ InUse(upper) : i <= j
  BY <1>5, <1>6, Least
<1> QED BY <1>7 DEF FreshIno

-----------------------------------------------------------------------------
(* Names. *)

LEMMA ParentAbove ==
    ASSUME NEW p \in Path
    PROVE  /\ Above(p) \subseteq Path /\ p \notin Above(p)
           /\ Parent(p) = <<>> => Above(p) = {}
           /\ Parent(p) # <<>> => Parent(p) \in Path /\ Above(p) = Above(Parent(p)) \cup {Parent(p)}
<1>1. Above(p) \subseteq Path /\ p \notin Above(p)
  BY AboveIff, PathType DEF Under
<1> QED BY <1>1, AboveParent, PathsClosed

LEMMA AboveAbove ==
    ASSUME NEW p \in Path, NEW a \in Above(p), NEW b \in Above(a)
    PROVE  b \in Above(p) /\ a \notin Above(a) /\ p \notin Above(a)
<1>1. a \in Path /\ Under(p, a) /\ b \in Path /\ Under(a, b)
  BY AboveIff
<1> QED BY <1>1, AboveIff, UnderTransitive, PathType DEF Under

\* Two names above the same one lie one above the other.
LEMMA AboveChain ==
    ASSUME NEW p \in Path, NEW a \in Above(p), NEW b \in Above(p), a # b
    PROVE  a \in Above(b) \/ b \in Above(a)
<1>1. a \in Path /\ Under(p, a) /\ b \in Path /\ Under(p, b)
  BY AboveIff
<1>2. CASE Len(a) = Len(b)
  <2>1. a = b
    BY <1>1, <1>2, PathType, PathEqual DEF Under
  <2> QED BY <2>1
<1>3. CASE Len(a) < Len(b)
  BY <1>1, <1>3, PathType, AboveIff DEF Under
<1>4. CASE Len(b) < Len(a)
  BY <1>1, <1>4, PathType, AboveIff DEF Under
<1> QED BY <1>1, <1>2, <1>3, <1>4, PathType

-----------------------------------------------------------------------------
(* What a client finds. *)

LEMMA MaskedDir ==
    ASSUME NEW o, o = FT!Dir(o.mode)
    PROVE  Masked(o) = FT!Dir(o.mode \ Umask)
<1> DEFINE m == o.mode
<1>1. o.t = "dir" /\ o.data = FT!NoData
  <2> HIDE DEF m
  <2> QED BY ObjectFields DEF m
<1> QED BY <1>1 DEF Masked, FT!Dir

\* Links or none on the way, lower finds an object or nothing.
LEMMA LowerAtIs ==
    ASSUME TypeInv, NEW p \in Path
    PROVE  LowerAt(p) \in FT!Object
<1>1. \A q \in Path : lower[q] \in FT!Object
  BY DEF TypeInv
<1>2. FT!None \in FT!Object
  BY DEF FT!Object
<1> QED BY <1>1, <1>2 DEF LowerAt

LEMMA WhereIs ==
    ASSUME NEW p \in Path
    PROVE  /\ Where(p) \in {"whiteout", "upper", "lower", "none"}
           /\ Where(p) = "whiteout" <=> IsWhiteout(p) \/ \E a \in Above(p) : IsWhiteout(a)
           /\ Where(p) = "upper" => upper[p].t # "none" /\ Resolve(p) = Attrs(upper[p])
           /\ Where(p) = "lower" => /\ upper[p].t = "none" /\ LowerAt(p).t # "none" /\ ~OpaqueAbove(p)
                                    /\ Resolve(p) = LowerAt(p)
           /\ Where(p) = "none" => upper[p].t = "none" /\ (LowerAt(p).t = "none" \/ OpaqueAbove(p))
           /\ Where(p) \in {"whiteout", "none"} => Resolve(p) = FT!None
<1>1. /\ Where(p) \in {"whiteout", "upper", "lower", "none"}
      /\ Where(p) = "whiteout" <=> IsWhiteout(p) \/ \E a \in Above(p) : IsWhiteout(a)
      /\ Where(p) = "upper" => upper[p].t # "none"
      /\ Where(p) = "lower" => upper[p].t = "none" /\ LowerAt(p).t # "none" /\ ~OpaqueAbove(p)
      /\ Where(p) = "none" => upper[p].t = "none" /\ (LowerAt(p).t = "none" \/ OpaqueAbove(p))
  BY DEF Where
<1>2. CASE Where(p) = "upper"
  BY <1>1, <1>2 DEF Resolve
<1>3. CASE Where(p) = "lower"
  BY <1>1, <1>3 DEF Resolve
<1>4. CASE Where(p) \in {"whiteout", "none"}
  BY <1>1, <1>4 DEF Resolve
<1> QED BY <1>1, <1>2, <1>3, <1>4

LEMMA AttrsIs == \A n : Attrs(n).t = n.t /\ Attrs(n).data = n.data /\ Attrs(n).mode = n.mode
BY DEF Attrs

\* No whiteout on the way to p, and what upper lacks there lower shows.
Clear(p) ==
    \A a \in Above(p) :
        /\ ~IsWhiteout(a) /\ upper[a].t \in {"none", "dir"}
        /\ upper[a].t = "none" => Where(a) = "lower" /\ LowerAt(a).t = "dir" /\ ~OpaqueAbove(a)

LEMMA VisibleClear ==
    ASSUME NEW p \in Path, Visible(p)
    PROVE  Clear(p)
<1> SUFFICES ASSUME NEW a \in Above(p)
             PROVE  /\ ~IsWhiteout(a) /\ upper[a].t \in {"none", "dir"}
                    /\ upper[a].t = "none" => Where(a) = "lower" /\ LowerAt(a).t = "dir" /\ ~OpaqueAbove(a)
  BY DEF Clear
<1>1. a \in Path /\ Resolve(a).t = "dir"
  BY ParentAbove DEF Visible
<1>2. Where(a) \in {"upper", "lower"}
  BY <1>1, WhereIs, ObjectFields
<1>3. ~IsWhiteout(a)
  BY <1>1, <1>2, WhereIs
<1>4. CASE Where(a) = "upper"
  BY <1>1, <1>3, <1>4, WhereIs, AttrsIs
<1>5. CASE Where(a) = "lower"
  BY <1>1, <1>3, <1>5, WhereIs
<1> QED BY <1>2, <1>4, <1>5

LEMMA ViewIs ==
    ASSUME NEW p \in Path
    PROVE  /\ View[p] = IF Visible(p) THEN Resolve(p) ELSE FT!None
           /\ View[p].t # "none" => Visible(p) /\ View[p] = Resolve(p)
           /\ ViewDir(p) <=> View[p].t = "dir"
<1>1. p # <<>>
  BY PathsClosed
<1> QED BY <1>1, ObjectFields DEF View, ViewDir

LEMMA ParentVisible ==
    ASSUME NEW p \in Path, ViewDir(Parent(p))
    PROVE  Visible(p)
<1>1. CASE Parent(p) = <<>>
  BY <1>1, ParentAbove DEF Visible
<1>2. CASE Parent(p) # <<>>
  <2>1. Parent(p) \in Path /\ Above(p) = Above(Parent(p)) \cup {Parent(p)}
    BY <1>2, ParentAbove
  <2>2. View[Parent(p)].t = "dir"
    BY <1>2 DEF ViewDir
  <2>3. Visible(Parent(p)) /\ Resolve(Parent(p)).t = "dir"
    BY <2>1, <2>2, ViewIs
  <2> QED BY <2>1, <2>3 DEF Visible
<1> QED BY <1>1, <1>2

\* A free name has nothing in upper but perhaps its whiteout.
LEMMA FreeIs ==
    ASSUME Reach(upper, sidecar, opaque), NEW p \in Path, KernelFree(p)
    PROVE  /\ Clear(p) /\ upper[p].t \in {"none", "whiteout"} /\ p \notin opaque
           /\ \A q \in Path : p \in Above(q) => upper[q].t = "none" /\ q \notin sidecar
<1>1. Visible(p) /\ Clear(p) /\ View[p].t = "none"
  BY ParentVisible, VisibleClear DEF KernelFree
<1>2. Resolve(p).t = "none"
  BY <1>1, ViewIs
<1>3. upper[p].t \in {"none", "whiteout"}
  <2>1. Where(p) # "upper"
    BY <1>2, WhereIs, AttrsIs
  <2>2. CASE Where(p) = "whiteout"
    <3>1. IsWhiteout(p)
      BY <1>1, <2>2, WhereIs DEF Clear
    <3> QED BY <3>1 DEF IsWhiteout, Reach
  <2> QED BY <2>1, <2>2, WhereIs
<1> QED BY <1>1, <1>3 DEF Reach

LEMMA FoundIs ==
    ASSUME NEW p \in Path, View[p].t # "none"
    PROVE  /\ Visible(p) /\ Clear(p) /\ View[p] = Resolve(p) /\ ~IsWhiteout(p)
           /\ \/ Where(p) = "upper" /\ upper[p].t # "none" /\ View[p] = Attrs(upper[p])
                 /\ View[p].t = upper[p].t
              \/ Where(p) = "lower" /\ upper[p].t = "none" /\ View[p] = LowerAt(p)
                 /\ LowerAt(p).t # "none" /\ ~OpaqueAbove(p)
<1>1. Visible(p) /\ Clear(p) /\ View[p] = Resolve(p)
  BY ViewIs, VisibleClear
<1>2. Where(p) \in {"upper", "lower"}
  BY <1>1, WhereIs, ObjectFields
<1>3. ~IsWhiteout(p)
  BY <1>2, WhereIs
<1> QED BY <1>1, <1>2, <1>3, WhereIs, AttrsIs

-----------------------------------------------------------------------------
(* The write-side helpers. *)

LEMMA WithParentsIs ==
    ASSUME TypeInv, NEW u, Typed(u), NEW p \in Path
    PROVE  /\ Typed(WithParents(u, p))
           /\ \A q \in Path : ~(q \in Above(p) /\ u[q].t = "none") => WithParents(u, p)[q] = u[q]
           /\ \A q \in Above(p) : u[q].t = "none" =>
                 WithParents(u, p)[q] = DirNode(IF LowerAt(q).t = "dir" THEN LowerAt(q).mode ELSE {})
           /\ \A q \in Above(p) : u[q].t \in {"none", "dir"} => WithParents(u, p)[q].t = "dir"
<1> DEFINE v == WithParents(u, p)
<1>1. v = [q \in Path |-> IF q \in Above(p) /\ u[q].t = "none"
                          THEN DirNode(IF LowerAt(q).t = "dir" THEN LowerAt(q).mode ELSE {}) ELSE u[q]]
  BY DEF WithParents
<1> HIDE DEF v
<1>2. \A q \in Path : ~(q \in Above(p) /\ u[q].t = "none") => v[q] = u[q]
  BY <1>1
<1>3. \A q \in Above(p) : u[q].t = "none" =>
         v[q] = DirNode(IF LowerAt(q).t = "dir" THEN LowerAt(q).mode ELSE {})
  BY <1>1, ParentAbove
<1>4. \A q \in Path : (IF LowerAt(q).t = "dir" THEN LowerAt(q).mode ELSE {}) \in SUBSET Bits
  <2>1. \A q \in Path : LowerAt(q) \in FT!Object
    BY LowerAtIs
  <2> QED BY <2>1, ObjectIs
<1>5. \A q \in Above(p) : u[q].t = "none" => GoodNode(v[q]) /\ v[q].t = "dir"
  <2> TAKE q \in Above(p)
  <2> DEFINE m == IF LowerAt(q).t = "dir" THEN LowerAt(q).mode ELSE {}
  <2>1. m \in SUBSET Bits
    BY <1>4, ParentAbove
  <2>2. u[q].t = "none" => v[q] = DirNode(m)
    BY <1>3
  <2> HIDE DEF m
  <2> QED BY <2>1, <2>2, NodesGood
<1>6. \A q \in Path : GoodNode(v[q])
  BY <1>2, <1>5 DEF Typed
<1>7. v = [q \in Path |-> v[q]]
  BY <1>1
<1>8. \A q \in Above(p) : u[q].t \in {"none", "dir"} => v[q].t = "dir"
  <2> TAKE q \in Above(p)
  <2>1. q \in Path
    BY ParentAbove
  <2> QED BY <1>2, <1>5, <2>1
<1> QED BY <1>2, <1>3, <1>6, <1>7, <1>8 DEF v, Typed

\* The object at p replaced.
Put(u, p, n) == [u EXCEPT ![p] = n]

LEMMA PutIs ==
    ASSUME NEW u, Typed(u), NEW p \in Path, NEW n, GoodNode(n)
    PROVE  /\ Typed(Put(u, p, n)) /\ Put(u, p, n)[p] = n
           /\ \A q \in Path : q # p => Put(u, p, n)[q] = u[q]
<1> DEFINE v == Put(u, p, n)
<1>0. u = [q \in Path |-> u[q]] /\ \A q \in Path : GoodNode(u[q])
  BY DEF Typed
<1>1. v = [q \in Path |-> IF q = p THEN n ELSE u[q]]
  BY <1>0 DEF Put
<1> HIDE DEF v
<1>2. v = [q \in Path |-> v[q]] /\ \A q \in Path : v[q] = IF q = p THEN n ELSE u[q]
  BY <1>1
<1> QED BY <1>0, <1>2 DEF Typed, v

LEMMA UnwhiteIs ==
    ASSUME NEW u, Typed(u), NEW p \in Path
    PROVE  /\ Typed(Unwhite(u, p)) /\ \A q \in Path : q # p => Unwhite(u, p)[q] = u[q]
           /\ Unwhite(u, p)[p] = IF u[p].t = "whiteout" THEN None ELSE u[p]
<1>1. Unwhite(u, p) = IF u[p].t = "whiteout" THEN Put(u, p, None) ELSE u
  BY DEF Unwhite, Put
<1> QED BY <1>1, PutIs, NodesGood

LEMMA CopyUpIs ==
    ASSUME TypeInv, NEW p \in Path, Where(p) = "lower" => LowerAt(p).t # "other"
    PROVE  LET v == CopyUp(upper, p)
           IN  /\ Typed(v)
               /\ Where(p) # "lower" => v = upper
               /\ Where(p) = "lower" =>
                    /\ \A q \in Path : q # p => v[q] = WithParents(upper, p)[q]
                    /\ v[p].t = LowerAt(p).t
                    /\ Attrs(v[p]) = Masked(LowerAt(p))
<1>1. CASE Where(p) # "lower"
  BY <1>1 DEF CopyUp, TypeInv
<1>2. CASE Where(p) = "lower"
  <2> DEFINE i == FreshIno(upper)
             w == WithParents(upper, p)
  <2>1. /\ upper[p].t = "none" /\ LowerAt(p).t \in {"file", "dir", "link"} /\ LowerAt(p) \in FT!Object
        /\ Typed(w)
    <3>1. LowerAt(p) \in FT!Object
      BY LowerAtIs
    <3> QED BY <1>2, <3>1, WhereIs, ObjectIs, WithParentsIs DEF TypeInv
  <2>2. i \in Ino
    <3>1. upper[p].ino = 0
      BY <2>1 DEF TypeInv, Typed, GoodNode
    <3> QED BY <3>1, FreshInoIs
  <2> HIDE DEF i, w
  <2>3. CASE LowerAt(p).t = "file"
    <3> DEFINE o == Masked(LowerAt(p))
    <3>1. CopyUp(upper, p) = [w EXCEPT ![p] = WithIno(o, i)]
      BY <1>2, <2>3 DEF CopyUp, w, i
    <3>2. LowerAt(p).data \in Content /\ LowerAt(p).mode \in SUBSET Bits
      BY <2>1, <2>3, ObjectIs
    <3>3. o = [t |-> "file", data |-> LowerAt(p).data, mode |-> LowerAt(p).mode \ Umask]
      BY <2>3 DEF Masked
    <3>4. o = FT!File(LowerAt(p).data, LowerAt(p).mode \ Umask)
      BY <3>3 DEF FT!File
    <3> HIDE DEF o
    <3>5. LowerAt(p).mode \ Umask \in SUBSET Bits
      BY <3>2
    <3>6. GoodNode(WithIno(o, i)) /\ WithIno(o, i).t = "file"
      BY <2>2, <3>2, <3>4, <3>5, NodesGood
    <3>7. Attrs(WithIno(o, i)) = Masked(LowerAt(p))
      <4>1. Attrs(WithIno(o, i)) = [t |-> o.t, data |-> o.data, mode |-> o.mode]
        BY WithInoIs
      <4>2. [t |-> o.t, data |-> o.data, mode |-> o.mode] = o
        BY <3>3
      <4> QED BY <4>1, <4>2 DEF o
    <3>8. /\ Typed(CopyUp(upper, p)) /\ CopyUp(upper, p)[p] = WithIno(o, i)
          /\ \A q \in Path : q # p => CopyUp(upper, p)[q] = w[q]
      <4> DEFINE n == WithIno(o, i)
                 x == CopyUp(upper, p)
      <4>1. x = Put(w, p, n) /\ GoodNode(n)
        BY <3>1, <3>6 DEF Put
      <4> HIDE DEF n, x
      <4>2. Typed(x) /\ x[p] = n /\ \A q \in Path : q # p => x[q] = w[q]
        BY <2>1, <4>1, PutIs
      <4> QED BY <4>2 DEF n, x
    <3> QED BY <1>2, <2>3, <3>6, <3>7, <3>8 DEF w
  <2>4. CASE LowerAt(p).t = "dir"
    <3>1. CopyUp(upper, p) = [w EXCEPT ![p] = DirNode(LowerAt(p).mode)]
      BY <1>2, <2>4 DEF CopyUp, w
    <3>2. LowerAt(p).mode \in SUBSET Bits /\ LowerAt(p) = FT!Dir(LowerAt(p).mode)
      BY <2>1, <2>4, ObjectIs
    <3>3. /\ GoodNode(DirNode(LowerAt(p).mode)) /\ DirNode(LowerAt(p).mode).t = "dir"
          /\ Attrs(DirNode(LowerAt(p).mode)) = FT!Dir(LowerAt(p).mode \ Umask)
      BY <3>2, NodesGood
    <3>4. Masked(LowerAt(p)) = FT!Dir(LowerAt(p).mode \ Umask)
      BY <2>4, <3>2, MaskedDir
    <3>8. /\ Typed(CopyUp(upper, p)) /\ CopyUp(upper, p)[p] = DirNode(LowerAt(p).mode)
          /\ \A q \in Path : q # p => CopyUp(upper, p)[q] = w[q]
      <4> DEFINE n == DirNode(LowerAt(p).mode)
                 x == CopyUp(upper, p)
      <4>1. x = Put(w, p, n) /\ GoodNode(n)
        BY <3>1, <3>3 DEF Put
      <4> HIDE DEF n, x
      <4>2. Typed(x) /\ x[p] = n /\ \A q \in Path : q # p => x[q] = w[q]
        BY <2>1, <4>1, PutIs
      <4> QED BY <4>2 DEF n, x
    <3> QED BY <1>2, <2>4, <3>2, <3>3, <3>4, <3>8 DEF w
  <2>5. CASE LowerAt(p).t = "link"
    <3>1. CopyUp(upper, p) = [w EXCEPT ![p] = WithIno(LowerAt(p), 0)]
      BY <1>2, <2>5 DEF CopyUp, w
    <3>2. /\ LowerAt(p).data \in Target /\ LowerAt(p) = FT!Symlink(LowerAt(p).data)
          /\ LowerAt(p) = [t |-> LowerAt(p).t, data |-> LowerAt(p).data, mode |-> LowerAt(p).mode]
      BY <2>1, <2>5, ObjectIs
    <3>3. /\ GoodNode(WithIno(LowerAt(p), 0)) /\ WithIno(LowerAt(p), 0).t = "link"
          /\ Attrs(WithIno(LowerAt(p), 0)) = LowerAt(p)
      BY <3>2, NodesGood, WithInoIs
    <3>4. Masked(LowerAt(p)) = LowerAt(p)
      <4>1. LowerAt(p).mode = {} /\ LowerAt(p).mode \ Umask = LowerAt(p).mode
        BY <3>2, ObjectFields
      <4> QED BY <3>2, <4>1 DEF Masked
    <3>8. /\ Typed(CopyUp(upper, p)) /\ CopyUp(upper, p)[p] = WithIno(LowerAt(p), 0)
          /\ \A q \in Path : q # p => CopyUp(upper, p)[q] = w[q]
      <4> DEFINE n == WithIno(LowerAt(p), 0)
                 x == CopyUp(upper, p)
      <4>1. x = Put(w, p, n) /\ GoodNode(n)
        BY <3>1, <3>3 DEF Put
      <4> HIDE DEF n, x
      <4>2. Typed(x) /\ x[p] = n /\ \A q \in Path : q # p => x[q] = w[q]
        BY <2>1, <4>1, PutIs
      <4> QED BY <4>2 DEF n, x
    <3> QED BY <1>2, <2>5, <3>3, <3>4, <3>8 DEF w
  <2> QED BY <2>1, <2>3, <2>4, <2>5
<1> QED BY <1>1, <1>2

-----------------------------------------------------------------------------
(* What a handler may do to the layers. *)

\* Something is put at p, or taken from it, in upper directories.
LEMMA Placed ==
    ASSUME NEW u, NEW sc, NEW op, Reach(u, sc, op), NEW p \in Path, NEW v, NEW sc2, NEW op2,
           \A a \in Above(p) : v[a].t = "dir" /\ a \notin sc,
           \A q \in Path : q # p /\ q \notin Above(p) => v[q].t = u[q].t,
           \A q \in Path : q # p => (q \in sc2 => q \in sc) /\ (q \in op2 => q \in op),
           p \in sc2 => v[p].t = "none",
           p \in op2 => v[p].t = "dir",
           \A q \in Path : p \in Above(q) =>
              \/ u[q].t = "none" /\ q \notin sc
              \/ v[p].t = "dir" /\ p \notin sc2
    PROVE  Reach(v, sc2, op2)
<1> SUFFICES ASSUME NEW q \in Path
             PROVE  /\ v[q].t # "none" \/ q \in sc2 =>
                         \A a \in Above(q) : v[a].t = "dir" /\ a \notin sc2
                    /\ q \in sc2 => v[q].t = "none"
                    /\ q \in op2 => v[q].t = "dir"
  BY DEF Reach
<1>1. /\ u[q].t # "none" \/ q \in sc => \A a \in Above(q) : u[a].t = "dir" /\ a \notin sc
      /\ q \in sc => u[q].t = "none"
      /\ q \in op => u[q].t = "dir"
  BY DEF Reach
<1>2. \A a \in Above(p) : a \in Path /\ a # p /\ a \notin sc2 /\ v[a].t = "dir"
  BY ParentAbove
<1>3. CASE q = p
  BY <1>2, <1>3
<1>4. CASE q \in Above(p)
  <2>1. Above(q) \subseteq Above(p)
    BY <1>4, AboveAbove
  <2> QED BY <1>2, <1>4, <2>1
<1>5. CASE q # p /\ q \notin Above(p)
  <2>1. v[q].t = u[q].t /\ (q \in sc2 => q \in sc) /\ (q \in op2 => q \in op)
    BY <1>5
  <2>2. ASSUME v[q].t # "none" \/ q \in sc2, NEW a \in Above(q)
        PROVE  v[a].t = "dir" /\ a \notin sc2
    <3>1. a \in Path /\ u[a].t = "dir" /\ a \notin sc
      BY <1>1, <2>1, <2>2, ParentAbove
    <3>2. CASE a = p
      BY <2>1, <2>2, <3>2
    <3>3. CASE a \in Above(p)
      BY <1>2, <3>3
    <3>4. CASE a # p /\ a \notin Above(p)
      BY <3>1, <3>4
    <3> QED BY <3>2, <3>3, <3>4
  <2> QED BY <1>1, <2>1, <2>2
<1> QED BY <1>3, <1>4, <1>5

\* Reach looks at no more than the types.
LEMMA TypesDecide ==
    ASSUME NEW u, NEW sc, NEW op, NEW v, \A q \in Path : v[q].t = u[q].t, Reach(u, sc, op)
    PROVE  Reach(v, sc, op)
<1>1. \A q \in Path : Above(q) \subseteq Path
  BY ParentAbove
<1> SUFFICES ASSUME NEW p \in Path
             PROVE  /\ v[p].t # "none" \/ p \in sc =>
                          \A a \in Above(p) : v[a].t = "dir" /\ a \notin sc
                    /\ p \in sc => v[p].t = "none"
                    /\ p \in op => v[p].t = "dir"
  BY DEF Reach
<1>2. /\ u[p].t # "none" \/ p \in sc => \A a \in Above(p) : u[a].t = "dir" /\ a \notin sc
      /\ p \in sc => u[p].t = "none"
      /\ p \in op => u[p].t = "dir"
  BY DEF Reach
<1> QED BY <1>1, <1>2

-----------------------------------------------------------------------------
(* The layers after the first part of a handler. *)

Sound(u, sc, op) == Typed(u) /\ Reach(u, sc, op)

\* ensure_upper_parents on the way to a name that a client reaches.
LEMMA ParentsSound ==
    ASSUME Inv, NEW p \in Path, Clear(p)
    PROVE  LET w == WithParents(upper, p)
           IN  Sound(w, sidecar, opaque) /\ w[p] = upper[p]
<1> DEFINE w == WithParents(upper, p)
<1>1. /\ TypeInv /\ Typed(upper) /\ Reach(upper, sidecar, opaque)
      /\ opaque \subseteq Path
  BY DEF Inv, TypeInv
<1>2. /\ Typed(w) /\ \A q \in Path : q \notin Above(p) => w[q] = upper[q]
      /\ \A q \in Above(p) : upper[q].t \in {"none", "dir"} => w[q].t = "dir"
  BY <1>1, WithParentsIs
<1> HIDE DEF w
<1>3. /\ \A a \in Above(p) : w[a].t = "dir" /\ a \notin sidecar
  BY <1>2 DEF Clear, IsWhiteout, OpaqueAbove
<1>4. w[p] = upper[p]
  BY <1>2, ParentAbove
<1>5. Reach(w, sidecar, opaque)
  <2>1. /\ p \in sidecar => upper[p].t = "none"
        /\ p \in opaque => upper[p].t = "dir"
        /\ \A q \in Path : p \in Above(q) =>
              \/ upper[q].t = "none" /\ q \notin sidecar
              \/ upper[p].t = "dir" /\ p \notin sidecar
    BY <1>1 DEF Reach
  <2> QED BY <1>1, <1>2, <1>3, <1>4, <2>1, Placed
<1> QED BY <1>2, <1>4, <1>5 DEF Sound, w

\* copy_up of what a client found.
LEMMA CopyUpSound ==
    ASSUME Inv, NEW p \in Path, View[p].t # "none", ~CopyUpFails(p)
    PROVE  LET v == CopyUp(upper, p)
           IN  /\ Sound(v, sidecar, opaque) /\ v[p].t = View[p].t
               /\ v[p].t \notin {"none", "whiteout", "other"}
               /\ \A q \in Path : q # p /\ q \notin Above(p) => v[q] = upper[q]
               /\ \A q \in Above(p) : v[q].t = "dir"
               /\ \A q \in Path : upper[q].t # "none" => v[q] = upper[q]
<1> DEFINE v == CopyUp(upper, p)
           w == WithParents(upper, p)
<1>1. /\ TypeInv /\ Typed(upper) /\ Reach(upper, sidecar, opaque)
      /\ opaque \subseteq Path
  BY DEF Inv, TypeInv
<1>2. Clear(p) /\ ~IsWhiteout(p)
  BY FoundIs
<1>3. /\ \A q \in Path : q \notin Above(p) => w[q] = upper[q]
      /\ \A q \in Path : upper[q].t # "none" => w[q] = upper[q]
      /\ \A q \in Above(p) : upper[q].t \in {"none", "dir"} => w[q].t = "dir"
  BY <1>1, WithParentsIs
<1>4. /\ Typed(v)
      /\ Where(p) # "lower" => v = upper
      /\ Where(p) = "lower" => /\ \A q \in Path : q # p => v[q] = w[q]
                               /\ v[p].t = LowerAt(p).t
  <2>1. Where(p) = "lower" => LowerAt(p).t # "other"
    BY DEF CopyUpFails
  <2> QED BY <1>1, <2>1, CopyUpIs
<1> HIDE DEF v, w
<1>5. CASE Where(p) = "upper"
  <2>1. v = upper /\ View[p].t = upper[p].t /\ upper[p].t # "none"
    BY <1>4, <1>5, FoundIs
  <2>2. upper[p].t \notin {"whiteout", "other"}
    <3>1. upper[p].t # "whiteout"
      BY <1>2 DEF IsWhiteout
    <3>2. Attrs(upper[p]) \in UpperObject /\ Attrs(upper[p]).t = upper[p].t
      BY <1>1, AttrsIs DEF Typed, GoodNode
    <3> QED BY <2>1, <3>1, <3>2, UpperTypes
  <2>3. \A q \in Above(p) : upper[q].t = "dir"
    BY <1>1, <2>1 DEF Reach
  <2> QED BY <1>1, <1>4, <2>1, <2>2, <2>3 DEF Sound, v
<1>6. CASE Where(p) = "lower"
  <2>1. upper[p].t = "none" /\ View[p] = LowerAt(p) /\ LowerAt(p).t # "none" /\ ~OpaqueAbove(p)
    BY <1>6, FoundIs
  <2>2. v[p].t = LowerAt(p).t /\ \A q \in Path : q # p => v[q] = w[q]
    BY <1>4, <1>6
  <2>3. LowerAt(p).t \in {"file", "dir", "link"}
    <3>1. LowerAt(p) \in FT!Object
      BY <1>1, LowerAtIs
    <3> QED BY <1>6, <2>1, <3>1, ObjectIs DEF CopyUpFails
  <2>4. /\ \A a \in Above(p) : v[a].t = "dir" /\ a \notin sidecar
    BY <1>2, <1>3, <2>2, ParentAbove DEF Clear, IsWhiteout, OpaqueAbove
  <2>5. /\ \A q \in Path : q # p /\ q \notin Above(p) => v[q] = upper[q]
        /\ \A q \in Path : upper[q].t # "none" => v[q] = upper[q]
    BY <1>3, <2>1, <2>2
  <2>6. p \notin sidecar /\ p \notin opaque
    BY <1>1, <1>2, <2>1 DEF IsWhiteout, Reach
  <2>7. \A q \in Path : p \in Above(q) => upper[q].t = "none" /\ q \notin sidecar
    BY <1>1, <2>1 DEF Reach
  <2>8. Reach(v, sidecar, opaque)
    BY <1>1, <2>4, <2>5, <2>6, <2>7, Placed
  <2> QED BY <1>4, <2>1, <2>2, <2>3, <2>4, <2>5, <2>8 DEF Sound, v
<1> QED BY <1>5, <1>6, FoundIs

LEMMA Becomes ==
    ASSUME Inv, lower' = lower, Sound(upper', sidecar', opaque'),
           sidecar' \subseteq Path, opaque' \subseteq Path,
           canMknod' \in BOOLEAN, fh' \in [Handle -> Ino \cup {0}]
    PROVE  Inv'
<1>1. lower' \in [Path -> FT!Object] /\ FT!IsTree(lower')
  BY DEF Inv, TypeInv
<1>3. Typed(upper') /\ Reach(upper', sidecar', opaque')
  BY DEF Sound
<1> QED BY <1>1, <1>3 DEF Inv, TypeInv

LEMMA MknodBoolean == UseMknod \in BOOLEAN
BY DEF UseMknod

-----------------------------------------------------------------------------
(* Handlers that make a new name. *)

\* Node n goes where the kernel found no name, once u has replaced upper.
LEMMA MadeSound ==
    ASSUME Inv, NEW p \in Path, KernelFree(p), NEW u, Sound(u, sidecar, opaque),
           \A a \in Above(p) : u[a].t \in {"none", "dir"} /\ (u[a].t = "none" => upper[a].t = "none"),
           u[p].t \in {"none", "whiteout"},
           \A q \in Path : p \in Above(q) => u[q].t = "none",
           NEW n, GoodNode(n), n.t \notin {"none", "whiteout"}, NEW op2,
           op2 = IF n.t = "dir" /\ LowerAt(p).t = "dir" THEN opaque \cup {p} ELSE opaque
    PROVE  Sound(Put(Unwhite(WithParents(u, p), p), p, n), sidecar \ {p}, op2)
<1> DEFINE w == WithParents(u, p)
           x == Unwhite(w, p)
           v == Put(x, p, n)
<1>1. /\ TypeInv /\ Reach(upper, sidecar, opaque) /\ opaque \subseteq Path
      /\ Typed(u) /\ Reach(u, sidecar, opaque)
  BY DEF Inv, TypeInv, Sound
<1>2. Clear(p) /\ p \notin opaque
  BY <1>1, FreeIs
<1>3. /\ Typed(w) /\ \A q \in Path : q \notin Above(p) => w[q] = u[q]
      /\ \A q \in Above(p) : w[q].t = "dir"
  BY <1>1, WithParentsIs
<1> HIDE DEF w
<1>4. Typed(x) /\ \A q \in Path : q # p => x[q] = w[q]
  BY <1>3, UnwhiteIs
<1> HIDE DEF x
<1>5. Typed(v) /\ v[p] = n /\ \A q \in Path : q # p => v[q] = x[q]
  BY <1>4, PutIs
<1> HIDE DEF v
<1>6. /\ \A a \in Above(p) : v[a].t = "dir" /\ a \notin sidecar
      /\ \A q \in Path : q # p /\ q \notin Above(p) => v[q].t = u[q].t
  BY <1>2, <1>3, <1>4, <1>5, ParentAbove DEF Clear, IsWhiteout, OpaqueAbove
<1>7. \A q \in Path : p \in Above(q) => u[q].t = "none" /\ q \notin sidecar
  BY <1>1 DEF Reach
<1>8. Reach(v, sidecar \ {p}, op2)
  <2>1. \A q \in Path : q # p => (q \in sidecar \ {p} => q \in sidecar) /\ (q \in op2 => q \in opaque)
    OBVIOUS
  <2>2. p \in op2 => v[p].t = "dir"
    BY <1>2, <1>5
  <2> QED BY <1>1, <1>6, <1>7, <2>1, <2>2, Placed
<1> QED BY <1>5, <1>8 DEF Sound, v, w, x

LEMMA MadeInUpper ==
    ASSUME Inv, NEW p \in Path, KernelFree(p), NEW n, GoodNode(n), n.t \notin {"none", "whiteout"},
           NEW op2, op2 = IF n.t = "dir" /\ LowerAt(p).t = "dir" THEN opaque \cup {p} ELSE opaque
    PROVE  Sound(Put(Unwhite(WithParents(upper, p), p), p, n), sidecar \ {p}, op2)
<1>1. Sound(upper, sidecar, opaque) /\ Reach(upper, sidecar, opaque)
  BY DEF Inv, TypeInv, Sound
<1>2. /\ \A a \in Above(p) : upper[a].t \in {"none", "dir"}
      /\ upper[p].t \in {"none", "whiteout"}
      /\ \A q \in Path : p \in Above(q) => upper[q].t = "none"
  BY <1>1, FreeIs DEF Clear
<1> QED BY <1>1, <1>2, MadeSound

LEMMA CreateInv ==
    ASSUME Inv, NEW p \in Path, NEW m \in SUBSET Bits, NEW h \in Handle, op_create(p, m, h)
    PROVE  Inv'
<1> DEFINE i == FreshIno(upper)
           n == WithIno(FT!File(Empty, m \ Umask), i)
<1>1. /\ KernelFree(p) /\ upper' = Put(Unwhite(WithParents(upper, p), p), p, n)
      /\ fh' = [fh EXCEPT ![h] = i] /\ sidecar' = sidecar \ {p}
      /\ lower' = lower /\ opaque' = opaque /\ canMknod' = canMknod
  BY DEF op_create, Put
<1>2. i \in Ino
  <2>1. upper[p].t \in {"none", "whiteout"} /\ TypeInv
    BY <1>1, FreeIs DEF Inv
  <2>2. upper[p].ino = 0
    BY <2>1 DEF TypeInv, Typed, GoodNode
  <2> QED BY <2>1, <2>2, FreshInoIs
<1> HIDE DEF i
<1>3. GoodNode(n) /\ n.t = "file"
  <2>1. m \ Umask \in SUBSET Bits
    OBVIOUS
  <2> QED BY <1>2, <2>1, LayersAssumption, NodesGood
<1> HIDE DEF n
<1>4. Sound(upper', sidecar', opaque')
  BY <1>1, <1>3, MadeInUpper
<1>5. /\ sidecar' \subseteq Path /\ opaque' \subseteq Path /\ canMknod' \in BOOLEAN
      /\ fh' \in [Handle -> Ino \cup {0}]
  BY <1>1, <1>2 DEF Inv, TypeInv
<1> QED BY <1>1, <1>4, <1>5, Becomes

LEMMA MkdirInv ==
    ASSUME Inv, NEW p \in Path, NEW m \in SUBSET Bits, op_mkdir(p, m)
    PROVE  Inv'
<1> DEFINE n == DirNode(m)
<1>1. /\ KernelFree(p) /\ upper' = Put(Unwhite(WithParents(upper, p), p), p, n)
      /\ sidecar' = sidecar \ {p}
      /\ opaque' = IF LowerAt(p).t = "dir" THEN opaque \cup {p} ELSE opaque
      /\ lower' = lower /\ fh' = fh /\ canMknod' = canMknod
  BY DEF op_mkdir, Put
<1>2. GoodNode(n) /\ n.t = "dir"
  BY NodesGood
<1> HIDE DEF n
<1>3. Sound(upper', sidecar', opaque')
  BY <1>1, <1>2, MadeInUpper
<1>4. /\ sidecar' \subseteq Path /\ opaque' \subseteq Path /\ canMknod' \in BOOLEAN
      /\ fh' \in [Handle -> Ino \cup {0}]
  BY <1>1 DEF Inv, TypeInv
<1> QED BY <1>1, <1>3, <1>4, Becomes

LEMMA SymlinkInv ==
    ASSUME Inv, NEW p \in Path, NEW tgt \in Target, op_symlink(p, tgt)
    PROVE  Inv'
<1> DEFINE n == WithIno(FT!Symlink(tgt), 0)
<1>1. /\ KernelFree(p) /\ upper' = Put(Unwhite(WithParents(upper, p), p), p, n)
      /\ sidecar' = sidecar \ {p}
      /\ lower' = lower /\ opaque' = opaque /\ fh' = fh /\ canMknod' = canMknod
  BY DEF op_symlink, Put
<1>2. GoodNode(n) /\ n.t = "link"
  BY NodesGood
<1> HIDE DEF n
<1>3. Sound(upper', sidecar', opaque')
  BY <1>1, <1>2, MadeInUpper
<1>4. /\ sidecar' \subseteq Path /\ opaque' \subseteq Path /\ canMknod' \in BOOLEAN
      /\ fh' \in [Handle -> Ino \cup {0}]
  BY <1>1 DEF Inv, TypeInv
<1> QED BY <1>1, <1>3, <1>4, Becomes

LEMMA LinkInv ==
    ASSUME Inv, NEW from \in Path, NEW to \in Path, op_link(from, to)
    PROVE  Inv'
<1> DEFINE u == CopyUp(upper, from)
           n == u[from]
<1>1. /\ View[from].t = "file" /\ KernelFree(to)
      /\ upper' = Put(Unwhite(WithParents(u, to), to), to, n)
      /\ sidecar' = sidecar \ {to}
      /\ lower' = lower /\ opaque' = opaque /\ fh' = fh /\ canMknod' = canMknod
  BY DEF op_link, Put
<1>2. ~CopyUpFails(from)
  BY <1>1, FoundIs DEF CopyUpFails
<1>3. /\ Sound(u, sidecar, opaque) /\ n.t = "file"
      /\ \A q \in Path : q # from /\ q \notin Above(from) => u[q] = upper[q]
      /\ \A q \in Above(from) : u[q].t = "dir"
      /\ \A q \in Path : upper[q].t # "none" => u[q] = upper[q]
  BY <1>1, <1>2, CopyUpSound
<1> HIDE DEF u
<1>4. Visible(to) /\ View[to].t = "none" /\ Visible(from)
  BY <1>1, ParentVisible, FoundIs DEF KernelFree
<1>5. from # to /\ to \notin Above(from) /\ from \notin Above(to)
  <2>1. from # to
    BY <1>1, <1>4
  <2>2. to \notin Above(from)
    <3>1. Resolve(to).t = "none"
      BY <1>4, ViewIs
    <3> QED BY <1>4, <3>1 DEF Visible
  <2>3. from \notin Above(to)
    <3>1. Resolve(from).t = "file"
      BY <1>1, <1>4, ViewIs
    <3> QED BY <1>4, <3>1 DEF Visible
  <2> QED BY <2>1, <2>2, <2>3
<1>6. /\ Clear(to) /\ upper[to].t \in {"none", "whiteout"}
      /\ \A q \in Path : to \in Above(q) => upper[q].t = "none"
  BY <1>1, FreeIs DEF Inv
<1>7. \A a \in Above(to) : u[a].t \in {"none", "dir"} /\ (u[a].t = "none" => upper[a].t = "none")
  <2> TAKE a \in Above(to)
  <2>1. a \in Path /\ a # from /\ upper[a].t \in {"none", "dir"}
    BY <1>5, <1>6, ParentAbove DEF Clear
  <2>2. CASE a \in Above(from)
    BY <1>3, <2>2
  <2>3. CASE a \notin Above(from)
    BY <1>3, <2>1, <2>3
  <2> QED BY <2>2, <2>3
<1>8. u[to] = upper[to]
  BY <1>3, <1>5
<1>9. \A q \in Path : to \in Above(q) => u[q].t = "none"
  <2> SUFFICES ASSUME NEW q \in Path, to \in Above(q) PROVE u[q].t = "none"
    OBVIOUS
  <2>1. q # from /\ q \notin Above(from)
    BY <1>5, AboveAbove
  <2> QED BY <1>3, <1>6, <2>1
<1>10. GoodNode(n)
  BY <1>3 DEF Sound, Typed
<1> HIDE DEF n
<1>11. Sound(upper', sidecar', opaque')
  BY <1>1, <1>3, <1>6, <1>7, <1>8, <1>9, <1>10, MadeSound
<1>12. /\ sidecar' \subseteq Path /\ opaque' \subseteq Path /\ canMknod' \in BOOLEAN
       /\ fh' \in [Handle -> Ino \cup {0}]
  BY <1>1 DEF Inv, TypeInv
<1> QED BY <1>1, <1>11, <1>12, Becomes

-----------------------------------------------------------------------------
(* Handlers that take a name away. *)

\* What is at p goes, and with it its opaque marker; a whiteout may take its
\* place.
LEMMA RemovedSound ==
    ASSUME NEW u, NEW sc, NEW op, Sound(u, sc, op), op \subseteq Path, NEW p \in Path,
           NEW v, Typed(v), NEW sc2,
           \A a \in Above(p) : v[a].t = "dir" /\ a \notin sc,
           \A q \in Path : q # p /\ q \notin Above(p) => v[q].t = u[q].t,
           v[p].t \in {"none", "whiteout"},
           \A q \in Path : q # p => (q \in sc2 => q \in sc),
           p \in sc2 => v[p].t = "none",
           \A q \in Path : p \in Above(q) => u[q].t = "none" /\ q \notin sc
    PROVE  Sound(v, sc2, op \ {p})
<1>1. Reach(u, sc, op)
  BY DEF Sound
<1>2. Reach(v, sc2, op \ {p})
  <2>1. \A q \in Path : q # p => (q \in sc2 => q \in sc) /\ (q \in op \ {p} => q \in op)
    OBVIOUS
  <2> QED BY <1>1, <2>1, Placed
<1> QED BY <1>2 DEF Sound

LEMMA WhiteoutIs ==
    ASSUME NEW u, Typed(u), NEW p \in Path, NEW sc
    PROVE  /\ Typed(WhiteoutNode(u, p))
           /\ WhiteoutNode(u, p)[p].t = IF UseMknod THEN "whiteout" ELSE "none"
           /\ \A q \in Path : q # p => WhiteoutNode(u, p)[q] = u[q]
           /\ WhiteoutSidecar(sc, p) = IF UseMknod THEN sc ELSE sc \cup {p}
<1>1. WhiteoutNode(u, p) = IF UseMknod THEN Put(u, p, Whiteout) ELSE Put(u, p, None)
  BY DEF WhiteoutNode, Put
<1> QED BY <1>1, PutIs, NodesGood DEF WhiteoutSidecar

LEMMA UnlinkInv ==
    ASSUME Inv, NEW p \in Path, op_unlink(p)
    PROVE  Inv'
<1> DEFINE u == Put(upper, p, None)
           w == WithParents(u, p)
<1>1. /\ View[p].t # "none" /\ View[p].t # "dir"
      /\ lower' = lower /\ opaque' = opaque /\ fh' = fh
      /\ LowerAt(p).t = "none" => upper' = u /\ sidecar' = sidecar /\ canMknod' = canMknod
      /\ LowerAt(p).t # "none" => /\ upper' = WhiteoutNode(w, p)
                                /\ sidecar' = WhiteoutSidecar(sidecar, p) /\ canMknod' = UseMknod
  BY DEF op_unlink, KernelFound, Put
<1>2. /\ TypeInv /\ Typed(upper) /\ Reach(upper, sidecar, opaque) /\ Sound(upper, sidecar, opaque)
      /\ sidecar \subseteq Path /\ opaque \subseteq Path /\ canMknod \in BOOLEAN
      /\ fh \in [Handle -> Ino \cup {0}]
  BY DEF Inv, TypeInv, Sound
<1>3. /\ Clear(p) /\ ~IsWhiteout(p) /\ upper[p].t # "dir"
      /\ LowerAt(p).t = "none" => upper[p].t # "none"
  BY <1>1, FoundIs
<1>4. /\ p \notin sidecar /\ p \notin opaque
      /\ \A q \in Path : p \in Above(q) => upper[q].t = "none" /\ q \notin sidecar
  BY <1>2, <1>3 DEF IsWhiteout, Reach
<1>5. /\ \A a \in Above(p) : a \notin sidecar /\ upper[a].t \in {"none", "dir"}
  BY <1>3 DEF Clear, IsWhiteout, OpaqueAbove
<1>6. Typed(u) /\ u[p].t = "none" /\ \A q \in Path : q # p => u[q] = upper[q]
  BY <1>2, PutIs, NodesGood
<1> HIDE DEF u
<1>7. /\ Typed(w) /\ \A q \in Path : q # p /\ q \notin Above(p) => w[q] = upper[q]
      /\ \A a \in Above(p) : w[a].t = "dir"
  <2>1. \A a \in Above(p) : u[a].t \in {"none", "dir"}
    BY <1>5, <1>6, ParentAbove
  <2> QED BY <1>2, <1>6, <2>1, WithParentsIs
<1> HIDE DEF w
<1>8. opaque \ {p} = opaque
  BY <1>4
<1>9. CASE LowerAt(p).t = "none"
  <2>1. \A a \in Above(p) : u[a].t = "dir"
    <3>1. \A a \in Above(p) : upper[a].t = "dir" /\ a # p /\ a \in Path
      BY <1>2, <1>3, <1>9, ParentAbove DEF Reach
    <3> QED BY <1>6, <3>1
  <2>2. Sound(u, sidecar, opaque \ {p})
    BY <1>2, <1>4, <1>5, <1>6, <2>1, RemovedSound
  <2> QED BY <1>1, <1>2, <1>8, <1>9, <2>2, Becomes
<1>10. CASE LowerAt(p).t # "none"
  <2> DEFINE v == WhiteoutNode(w, p)
             sc == WhiteoutSidecar(sidecar, p)
  <2>1. /\ Typed(v) /\ v[p].t = (IF UseMknod THEN "whiteout" ELSE "none")
        /\ \A q \in Path : q # p => v[q] = w[q]
        /\ sc = IF UseMknod THEN sidecar ELSE sidecar \cup {p}
    BY <1>7, WhiteoutIs
  <2> HIDE DEF v, sc
  <2>2. /\ \A a \in Above(p) : v[a].t = "dir"
        /\ \A q \in Path : q # p /\ q \notin Above(p) => v[q].t = upper[q].t
        /\ v[p].t \in {"none", "whiteout"}
        /\ p \in sc => v[p].t = "none"
        /\ \A q \in Path : q # p => (q \in sc => q \in sidecar)
    BY <1>4, <1>7, <2>1, ParentAbove
  <2>3. Sound(v, sc, opaque \ {p})
    BY <1>2, <1>4, <1>5, <2>1, <2>2, RemovedSound
  <2>4. sc \subseteq Path
    BY <1>2, <2>1
  <2> QED BY <1>1, <1>2, <1>8, <1>10, <2>3, <2>4, MknodBoolean, Becomes DEF v, sc
<1> QED BY <1>9, <1>10

\* Nothing is left below a directory that lists as empty but whiteouts of its
\* own entries.
LEMMA EmptyBelow ==
    ASSUME Inv, NEW p \in Path, View[p].t = "dir", Listing(p) = {},
           NEW q \in Path, p \in Above(q)
    PROVE  /\ upper[q].t \in {"none", "whiteout"} /\ q \notin opaque
           /\ q \notin Children(p) => upper[q].t = "none" /\ q \notin sidecar
           /\ upper[p].t # "dir" => upper[q].t = "none" /\ q \notin sidecar
<1>1. Reach(upper, sidecar, opaque)
  BY DEF Inv
<1>2. p # <<>>
  BY PathsClosed
<1>3. upper[p].t = "dir" => \A c \in Children(p) : upper[c].t \in {"none", "whiteout"}
  BY <1>2 DEF Listing
<1>4. upper[p].t # "dir" => upper[q].t = "none" /\ q \notin sidecar
  BY <1>1 DEF Reach
<1>5. PICK c \in Children(p) : c = q \/ c \in Above(q)
  BY ChildOnTheWay
<1>6. CASE upper[p].t = "dir"
  <2>1. c \in Path /\ upper[c].t \in {"none", "whiteout"}
    BY <1>3, <1>6, ParentAbove, ChildrenIff
  <2>2. CASE c = q
    BY <1>1, <1>6, <2>1, <2>2 DEF Reach
  <2>3. CASE c # q
    <3>1. upper[q].t = "none" /\ q \notin sidecar
      BY <1>1, <1>5, <2>1, <2>3 DEF Reach
    <3> QED BY <1>1, <1>6, <3>1 DEF Reach
  <2> QED BY <2>2, <2>3
<1>7. CASE upper[p].t # "dir"
  BY <1>1, <1>4, <1>7 DEF Reach
<1> QED BY <1>1, <1>4, <1>5, <1>6, <1>7

LEMMA RmdirInv ==
    ASSUME Inv, NEW p \in Path, op_rmdir(p)
    PROVE  Inv'
<1> DEFINE u == [q \in Path |-> IF q = p \/ q \in Children(p) THEN None ELSE upper[q]]
           s == IF upper[p].t = "dir" THEN sidecar \ Children(p) ELSE sidecar
           w == WithParents(u, p)
           e == [q \in Path |-> IF q \in Children(p) THEN None ELSE upper[q]]
<1>1. /\ View[p].t = "dir" /\ Listing(p) = {}
      /\ lower' = lower /\ opaque' = opaque \ {p} /\ fh' = fh
      /\ LowerAt(p).t = "none" => upper' = u /\ sidecar' = s /\ canMknod' = canMknod
      /\ LowerAt(p).t # "none" => /\ upper' = WhiteoutNode(w, p)
                                /\ sidecar' = WhiteoutSidecar(s, p) /\ canMknod' = UseMknod
  BY DEF op_rmdir
<1>2. /\ TypeInv /\ Typed(upper) /\ Reach(upper, sidecar, opaque)
      /\ sidecar \subseteq Path /\ opaque \subseteq Path /\ canMknod \in BOOLEAN
      /\ fh \in [Handle -> Ino \cup {0}]
  BY DEF Inv, TypeInv
<1>3. /\ Clear(p) /\ ~IsWhiteout(p)
      /\ LowerAt(p).t = "none" => upper[p].t # "none"
  BY <1>1, FoundIs
<1>4. /\ \A a \in Above(p) : a \notin sidecar /\ upper[a].t \in {"none", "dir"}
      /\ p \notin sidecar
  BY <1>3 DEF Clear, IsWhiteout, OpaqueAbove
<1>5. \A c \in Children(p) : c \in Path /\ p \in Above(c) /\ c # p /\ c \notin Above(p)
  <2> TAKE c \in Children(p)
  <2>1. c \in Path /\ Parent(c) = p /\ p # <<>>
    BY ChildrenIff, PathsClosed
  <2>2. p \in Above(c)
    BY <2>1, ParentAbove
  <2> QED BY <2>1, <2>2, ParentAbove, AboveAbove
<1>6. \A q \in Path : p \in Above(q) => e[q].t = "none" /\ q \notin s
  <2> TAKE q \in Path
  <2>1. CASE p \in Above(q)
    <3>1. CASE q \in Children(p)
      BY <1>1, <2>1, <3>1, EmptyBelow, NodesGood
    <3>2. CASE q \notin Children(p)
      BY <1>1, <2>1, <3>2, EmptyBelow
    <3> QED BY <3>1, <3>2
  <2> QED BY <2>1
<1>7. /\ Typed(u) /\ Typed(e) /\ u[p].t = "none"
      /\ \A q \in Path : q # p => u[q] = e[q]
      /\ \A q \in Path : q \notin Children(p) => e[q] = upper[q]
      /\ \A q \in Children(p) : e[q].t = "none"
  BY <1>2, <1>5, NodesGood DEF Typed
<1>8. s \subseteq sidecar
  OBVIOUS
<1> HIDE DEF u, s, e
<1>9. Sound(e, s, opaque)
  <2>1. Reach(e, s, opaque)
    <3> SUFFICES ASSUME NEW q \in Path
                 PROVE  /\ e[q].t # "none" \/ q \in s => \A a \in Above(q) : e[a].t = "dir" /\ a \notin s
                        /\ q \in s => e[q].t = "none"
                        /\ q \in opaque => e[q].t = "dir"
      BY DEF Reach
    <3>1. /\ upper[q].t # "none" \/ q \in sidecar =>
                \A a \in Above(q) : upper[a].t = "dir" /\ a \notin sidecar
          /\ q \in sidecar => upper[q].t = "none"
          /\ q \in opaque => upper[q].t = "dir"
      BY <1>2 DEF Reach
    <3>2. CASE p \in Above(q)
      BY <1>1, <1>6, <3>2, EmptyBelow
    <3>3. CASE p \notin Above(q)
      <4>1. e[q] = upper[q]
        BY <1>5, <1>7, <3>3
      <4>2. \A a \in Above(q) : a \in Path /\ a \notin Children(p)
        BY <1>5, <3>3, ParentAbove, AboveAbove
      <4> QED BY <1>7, <1>8, <3>1, <4>1, <4>2
    <3> QED BY <3>2, <3>3
  <2> QED BY <1>7, <2>1 DEF Sound
<1>10. \A a \in Above(p) : a \in Path /\ a # p /\ u[a] = upper[a] /\ e[a] = upper[a]
  BY <1>5, <1>7, ParentAbove
<1>12. CASE LowerAt(p).t = "none"
  <2>1. \A a \in Above(p) : u[a].t = "dir" /\ a \notin s
    BY <1>2, <1>3, <1>8, <1>10, <1>12 DEF Reach
  <2>2. Sound(u, s, opaque \ {p})
    BY <1>2, <1>4, <1>6, <1>7, <1>8, <1>9, <2>1, RemovedSound
  <2> QED BY <1>1, <1>2, <1>8, <1>12, <2>2, Becomes
<1>13. CASE LowerAt(p).t # "none"
  <2>0. /\ Typed(w) /\ \A q \in Path : q # p /\ q \notin Above(p) => w[q] = u[q]
        /\ \A a \in Above(p) : w[a].t = "dir"
    BY <1>2, <1>4, <1>7, <1>10, WithParentsIs
  <2> HIDE DEF w
  <2> DEFINE v == WhiteoutNode(w, p)
             sc == WhiteoutSidecar(s, p)
  <2>1. /\ Typed(v) /\ v[p].t = (IF UseMknod THEN "whiteout" ELSE "none")
        /\ \A q \in Path : q # p => v[q] = w[q]
        /\ sc = IF UseMknod THEN s ELSE s \cup {p}
    BY <2>0, WhiteoutIs
  <2> HIDE DEF v, sc
  <2>2. /\ \A a \in Above(p) : v[a].t = "dir" /\ a \notin s
        /\ \A q \in Path : q # p /\ q \notin Above(p) => v[q].t = e[q].t
        /\ v[p].t \in {"none", "whiteout"}
        /\ p \in sc => v[p].t = "none"
        /\ \A q \in Path : q # p => (q \in sc => q \in s)
    BY <1>4, <1>7, <1>8, <1>10, <2>0, <2>1
  <2>3. Sound(v, sc, opaque \ {p})
    BY <1>2, <1>6, <1>9, <2>1, <2>2, RemovedSound
  <2>4. sc \subseteq Path
    BY <1>2, <1>8, <2>1
  <2> QED BY <1>1, <1>2, <1>13, <2>3, <2>4, MknodBoolean, Becomes DEF v, sc
<1> QED BY <1>12, <1>13

-----------------------------------------------------------------------------
(* Handlers that change what a name stands for. *)

LEMMA AttrsExcept ==
    ASSUME NEW n, NEW x
    PROVE  /\ [Attrs(n) EXCEPT !.mode = x] = [t |-> n.t, data |-> n.data, mode |-> x]
           /\ [Attrs(n) EXCEPT !.data = x] = [t |-> n.t, data |-> x, mode |-> n.mode]
BY DEF Attrs

\* The objects that a change of a file or directory leaves.
LEMMA ChangedObject ==
    ASSUME NEW n, GoodNode(n), n.t \in {"file", "dir"}
    PROVE  /\ \A m \in SUBSET Bits : [t |-> n.t, data |-> n.data, mode |-> m] \in UpperObject
           /\ n.t = "file" => \A c \in Content : [t |-> n.t, data |-> c, mode |-> n.mode] \in UpperObject
<1>1. Attrs(n) \in FT!Object /\ Attrs(n).t = n.t /\ Attrs(n).data = n.data /\ Attrs(n).mode = n.mode
  <2>1. Attrs(n) \in UpperObject /\ Attrs(n).t = n.t
    BY AttrsIs DEF GoodNode
  <2>2. Attrs(n) # FT!None /\ Attrs(n) # Attrs(Whiteout)
    BY <2>1, AttrsIs, ObjectFields, NodesGood
  <2> QED BY <2>1, <2>2, AttrsIs DEF UpperObject
<1>2. /\ \A m \in SUBSET Bits : FT!Dir(m) \in UpperObject
      /\ \A c \in Content, m \in SUBSET Bits : FT!File(c, m) \in UpperObject
  BY ObjectFields DEF UpperObject, FT!Object, FT!Mode
<1>3. CASE n.t = "file"
  <2>1. n.data \in Content /\ n.mode \in SUBSET Bits
    BY <1>1, <1>3, ObjectIs
  <2> QED BY <1>2, <1>3, <2>1 DEF FT!File
<1>4. CASE n.t = "dir"
  <2>1. n.data = FT!NoData
    BY <1>1, <1>4, ObjectIs, ObjectFields
  <2> QED BY <1>2, <1>4, <2>1 DEF FT!Dir
<1> QED BY <1>3, <1>4

LEMMA UpdateSound ==
    ASSUME NEW u, NEW sc, NEW op, Sound(u, sc, op), NEW p \in Path,
           NEW o \in UpperObject, o = [t |-> o.t, data |-> o.data, mode |-> o.mode], o.t = u[p].t
    PROVE  Sound(Update(u, p, o), sc, op)
<1> DEFINE v == Update(u, p, o)
           Same(q) == q = p \/ (u[p].t = "file" /\ q \in Names(u, u[p].ino))
<1>1. v = [q \in Path |-> IF Same(q) THEN WithIno(o, u[q].ino) ELSE u[q]]
  BY DEF Update
<1>2. \A q \in Path : Same(q) => u[q].t = o.t
  BY DEF Names
<1> HIDE DEF v, Same
<1>3. \A q \in Path : GoodNode(u[q])
  BY DEF Sound, Typed
<1>4. \A q \in Path : Same(q) => GoodNode(WithIno(o, u[q].ino)) /\ WithIno(o, u[q].ino).t = u[q].t
  <2> SUFFICES ASSUME NEW q \in Path, Same(q)
               PROVE  GoodNode(WithIno(o, u[q].ino)) /\ WithIno(o, u[q].ino).t = u[q].t
    OBVIOUS
  <2>1. u[q].ino \in Ino \cup {0} /\ ((u[q].ino # 0) <=> (o.t = "file"))
    BY <1>2, <1>3 DEF GoodNode
  <2>2. u[q].t = o.t
    BY <1>2
  <2> DEFINE n == WithIno(o, u[q].ino)
  <2>3. n.t = o.t /\ n.ino = u[q].ino /\ Attrs(n) = o
    BY WithInoIs
  <2>4. n = WithIno(Attrs(n), n.ino)
    BY <2>3
  <2> HIDE DEF n
  <2>5. GoodNode(n) /\ n.t = u[q].t
    BY <2>1, <2>2, <2>3, <2>4 DEF GoodNode
  <2> QED BY <2>5 DEF n
<1>5. \A q \in Path : GoodNode(v[q]) /\ v[q].t = u[q].t
  BY <1>1, <1>3, <1>4
<1>6. v = [q \in Path |-> v[q]]
  BY <1>1
<1> QED BY <1>5, <1>6, TypesDecide DEF Sound, Typed, v

LEMMA ChmodInv ==
    ASSUME Inv, NEW p \in Path, NEW m \in SUBSET Bits, op_chmod(p, m)
    PROVE  Inv'
<1> DEFINE u == CopyUp(upper, p)
           o == [Attrs(u[p]) EXCEPT !.mode = m]
<1>1. /\ View[p].t # "none" /\ View[p].t # "link"
      /\ CopyUpFails(p) => upper' = WithParents(upper, p)
      /\ ~CopyUpFails(p) => upper' = Update(u, p, o)
      /\ lower' = lower /\ sidecar' = sidecar /\ opaque' = opaque
      /\ canMknod' = canMknod /\ fh' = fh
  BY DEF op_chmod, KernelFound
<1>2. /\ sidecar \subseteq Path /\ opaque \subseteq Path /\ canMknod \in BOOLEAN
      /\ fh \in [Handle -> Ino \cup {0}]
  BY DEF Inv, TypeInv
<1>3. CASE CopyUpFails(p)
  <2>1. Sound(WithParents(upper, p), sidecar, opaque)
    BY <1>1, FoundIs, ParentsSound
  <2> QED BY <1>1, <1>2, <1>3, <2>1, Becomes
<1>4. CASE ~CopyUpFails(p)
  <2>1. /\ Sound(u, sidecar, opaque) /\ u[p].t = View[p].t
        /\ u[p].t \notin {"none", "whiteout", "other"}
    BY <1>1, <1>4, CopyUpSound
  <2>2. GoodNode(u[p])
    BY <2>1 DEF Sound, Typed
  <2>3. u[p].t \in {"file", "dir"}
    <3>1. Attrs(u[p]) \in UpperObject /\ Attrs(u[p]).t = u[p].t
      BY <2>2, AttrsIs DEF GoodNode
    <3> QED BY <1>1, <2>1, <3>1, UpperTypes
  <2>4. o = [t |-> u[p].t, data |-> u[p].data, mode |-> m]
    BY AttrsExcept
  <2>5. o \in UpperObject
    BY <2>2, <2>3, <2>4, ChangedObject
  <2>6. o.t = u[p].t /\ o = [t |-> o.t, data |-> o.data, mode |-> o.mode]
    BY <2>4
  <2> HIDE DEF o, u
  <2>7. Sound(Update(u, p, o), sidecar, opaque)
    BY <2>1, <2>5, <2>6, UpdateSound
  <2> QED BY <1>1, <1>2, <1>4, <2>7, Becomes
<1> QED BY <1>3, <1>4

LEMMA TruncateInv ==
    ASSUME Inv, NEW p \in Path, op_truncate(p)
    PROVE  Inv'
<1> DEFINE u == CopyUp(upper, p)
           o == [Attrs(u[p]) EXCEPT !.data = Empty]
<1>1. /\ View[p].t = "file" /\ upper' = Update(u, p, o)
      /\ lower' = lower /\ sidecar' = sidecar /\ opaque' = opaque
      /\ canMknod' = canMknod /\ fh' = fh
  BY DEF op_truncate
<1>2. /\ sidecar \subseteq Path /\ opaque \subseteq Path /\ canMknod \in BOOLEAN
      /\ fh \in [Handle -> Ino \cup {0}]
  BY DEF Inv, TypeInv
<1>3. ~CopyUpFails(p)
  BY <1>1, FoundIs DEF CopyUpFails
<1>4. Sound(u, sidecar, opaque) /\ u[p].t = "file"
  BY <1>1, <1>3, CopyUpSound
<1>5. GoodNode(u[p])
  BY <1>4 DEF Sound, Typed
<1>6. o = [t |-> u[p].t, data |-> Empty, mode |-> u[p].mode]
  BY AttrsExcept
<1>7. o \in UpperObject
  BY <1>4, <1>5, <1>6, ChangedObject, LayersAssumption
<1>8. o.t = u[p].t /\ o = [t |-> o.t, data |-> o.data, mode |-> o.mode]
  BY <1>6
<1> HIDE DEF o, u
<1>9. Sound(Update(u, p, o), sidecar, opaque)
  BY <1>4, <1>7, <1>8, UpdateSound
<1> QED BY <1>1, <1>2, <1>9, Becomes

LEMMA OpenInv ==
    ASSUME Inv, NEW p \in Path, NEW h \in Handle, op_open(p, h)
    PROVE  Inv'
<1> DEFINE u == CopyUp(upper, p)
<1>1. /\ View[p].t = "file" /\ upper' = u /\ fh' = [fh EXCEPT ![h] = u[p].ino]
      /\ lower' = lower /\ sidecar' = sidecar /\ opaque' = opaque /\ canMknod' = canMknod
  BY DEF op_open
<1>2. ~CopyUpFails(p)
  BY <1>1, FoundIs DEF CopyUpFails
<1>3. Sound(u, sidecar, opaque) /\ u[p].t = "file"
  BY <1>1, <1>2, CopyUpSound
<1>4. u[p].ino \in Ino \cup {0}
  BY <1>3 DEF Sound, Typed, GoodNode
<1> HIDE DEF u
<1>5. /\ sidecar' \subseteq Path /\ opaque' \subseteq Path /\ canMknod' \in BOOLEAN
      /\ fh' \in [Handle -> Ino \cup {0}]
  BY <1>1, <1>4 DEF Inv, TypeInv
<1> QED BY <1>1, <1>3, <1>5, Becomes

LEMMA ChmodLinkInv ==
    ASSUME Inv, NEW p \in Path, NEW m \in SUBSET Bits, op_chmod_link(p, m)
    PROVE  Inv' /\ lower' \in [Path -> FT!Object]
<1> DEFINE u == CopyUp(upper, p)
           tgt == View[p].data
           Hit == tgt \in Path /\ lower[tgt].t \in {"file", "dir"}
<1>1. /\ View[p].t = "link" /\ upper' = u
      /\ lower' = IF Hit THEN [lower EXCEPT ![tgt].mode = m] ELSE lower
      /\ sidecar' = sidecar /\ opaque' = opaque /\ canMknod' = canMknod /\ fh' = fh
  BY DEF op_chmod_link
<1>2. ~CopyUpFails(p)
  BY <1>1, FoundIs DEF CopyUpFails
<1>3. Sound(u, sidecar, opaque)
  BY <1>1, <1>2, CopyUpSound
<1>4. lower \in [Path -> FT!Object] /\ FT!IsTree(lower)
  BY DEF Inv, TypeInv
<1> HIDE DEF u, tgt
<1>5. /\ lower' \in [Path -> FT!Object] /\ \A q \in Path : lower'[q].t = lower[q].t
  <2>1. CASE ~Hit
    BY <1>1, <1>4, <2>1
  <2>2. CASE Hit
    <3> DEFINE o == [lower[tgt] EXCEPT !.mode = m]
    <3>1. lower' = [lower EXCEPT ![tgt] = o]
      BY <1>1, <2>2
    <3>2. lower[tgt] \in FT!Object
      BY <1>4, <2>2
    <3>3. lower[tgt] = [t |-> lower[tgt].t, data |-> lower[tgt].data, mode |-> lower[tgt].mode]
      BY <3>2, ObjectIs
    <3>4. o = [t |-> lower[tgt].t, data |-> lower[tgt].data, mode |-> m]
      <4>1. [[t |-> lower[tgt].t, data |-> lower[tgt].data, mode |-> lower[tgt].mode] EXCEPT !.mode = m]
              = [t |-> lower[tgt].t, data |-> lower[tgt].data, mode |-> m]
        OBVIOUS
      <4>2. o = [[t |-> lower[tgt].t, data |-> lower[tgt].data, mode |-> lower[tgt].mode]
                   EXCEPT !.mode = m]
        BY <3>3, Zenon
      <4> HIDE DEF o
      <4> QED BY <4>1, <4>2, Zenon
    <3>5. o \in FT!Object /\ o.t = lower[tgt].t
      <4>1. CASE lower[tgt].t = "file"
        <5>1. lower[tgt].data \in Content
          BY <3>2, <4>1, ObjectIs
        <5>2. o = FT!File(lower[tgt].data, m)
          BY <3>4, <4>1 DEF FT!File
        <5> QED BY <4>1, <5>1, <5>2, ObjectFields DEF FT!Object, FT!Mode
      <4>2. CASE lower[tgt].t = "dir"
        <5>1. lower[tgt].data = FT!NoData
          BY <3>2, <4>2, ObjectIs, ObjectFields
        <5>2. o = FT!Dir(m)
          BY <3>4, <4>2, <5>1 DEF FT!Dir
        <5> QED BY <4>2, <5>2, ObjectFields DEF FT!Object, FT!Mode
      <4> QED BY <2>2, <4>1, <4>2
    <3> HIDE DEF o
    <3> QED BY <1>4, <2>2, <3>1, <3>5
  <2> QED BY <2>1, <2>2
<1>6. FT!IsTree(lower')
  <2>1. \A q \in Path : lower[q].t # "none" => \A a \in Above(q) : lower[a].t = "dir"
    BY <1>4, IsTreeIs
  <2>2. \A q \in Path : lower'[q].t # "none" => \A a \in Above(q) : lower'[a].t = "dir"
    BY <1>5, <2>1, ParentAbove
  <2> QED BY <2>2, IsTreeIs
<1> QED BY <1>1, <1>3, <1>5, <1>6 DEF Inv, TypeInv, Sound

LEMMA WriteInv ==
    ASSUME Inv, NEW h \in Handle, NEW c \in Content, op_write(h, c)
    PROVE  Inv'
<1> DEFINE Hit(q) == q \in Names(upper, fh[h])
<1>1. /\ upper' = [q \in Path |-> IF Hit(q) THEN [upper[q] EXCEPT !.data = c] ELSE upper[q]]
      /\ lower' = lower /\ sidecar' = sidecar /\ opaque' = opaque
      /\ canMknod' = canMknod /\ fh' = fh
  BY DEF op_write
<1>2. \A q \in Path : Hit(q) => upper[q].t = "file"
  BY DEF Names
<1> HIDE DEF Hit
<1>3. /\ \A q \in Path : GoodNode(upper[q])
      /\ Sound(upper, sidecar, opaque)
  BY DEF Inv, TypeInv, Typed, Sound
<1>4. ASSUME NEW q \in Path, Hit(q)
      PROVE  GoodNode([upper[q] EXCEPT !.data = c]) /\ [upper[q] EXCEPT !.data = c].t = "file"
  <2> DEFINE n == [upper[q] EXCEPT !.data = c]
             o == [t |-> upper[q].t, data |-> c, mode |-> upper[q].mode]
  <2>1. upper[q] = [t |-> upper[q].t, data |-> upper[q].data, mode |-> upper[q].mode, ino |-> upper[q].ino]
    BY <1>3 DEF GoodNode, WithIno, Attrs
  <2>2. n = [t |-> upper[q].t, data |-> c, mode |-> upper[q].mode, ino |-> upper[q].ino]
    <3>1. [[t |-> upper[q].t, data |-> upper[q].data, mode |-> upper[q].mode, ino |-> upper[q].ino]
             EXCEPT !.data = c]
            = [t |-> upper[q].t, data |-> c, mode |-> upper[q].mode, ino |-> upper[q].ino]
      OBVIOUS
    <3>2. n = [[t |-> upper[q].t, data |-> upper[q].data, mode |-> upper[q].mode, ino |-> upper[q].ino]
                 EXCEPT !.data = c]
      BY <2>1, Zenon
    <3> HIDE DEF n
    <3> QED BY <3>1, <3>2, Zenon
  <2> HIDE DEF n
  <2>3. n = WithIno(Attrs(n), n.ino) /\ Attrs(n) = o /\ n.t = "file" /\ n.ino = upper[q].ino
    BY <1>2, <1>4, <2>2 DEF WithIno, Attrs
  <2>4. o \in UpperObject
    BY <1>2, <1>3, <1>4, ChangedObject
  <2>5. n.ino \in Ino \cup {0} /\ ((n.ino # 0) <=> (n.t = "file"))
    BY <1>2, <1>3, <1>4, <2>3 DEF GoodNode
  <2>6. GoodNode(n) /\ n.t = "file"
    BY <2>3, <2>4, <2>5 DEF GoodNode
  <2> QED BY <2>6 DEF n
<1>5. \A q \in Path : GoodNode(upper'[q]) /\ upper'[q].t = upper[q].t
  <2> TAKE q \in Path
  <2>1. CASE Hit(q)
    BY <1>1, <1>2, <1>4, <2>1
  <2>2. CASE ~Hit(q)
    BY <1>1, <1>3, <2>2
  <2> QED BY <2>1, <2>2
<1>6. upper' = [q \in Path |-> upper'[q]]
  BY <1>1
<1>7. Sound(upper', sidecar', opaque')
  <2>1. Reach(upper', sidecar', opaque')
    BY <1>1, <1>3, <1>5, TypesDecide DEF Sound
  <2> QED BY <1>5, <1>6, <2>1 DEF Sound, Typed
<1>8. /\ sidecar' \subseteq Path /\ opaque' \subseteq Path /\ canMknod' \in BOOLEAN
      /\ fh' \in [Handle -> Ino \cup {0}]
  BY <1>1 DEF Inv, TypeInv
<1> QED BY <1>1, <1>7, <1>8, Becomes

LEMMA HandlesInv ==
    ASSUME Inv, Remount \/ \E h \in Handle : op_release(h)
    PROVE  Inv'
<1>1. Sound(upper, sidecar, opaque)
  BY DEF Inv, TypeInv, Sound
<1>2. upper' = upper /\ sidecar' = sidecar /\ opaque' = opaque /\ lower' = lower
  BY DEF Remount, op_release
<1>3. canMknod' \in BOOLEAN /\ fh' \in [Handle -> Ino \cup {0}]
  BY DEF Remount, op_release, Inv, TypeInv
<1>4. sidecar \subseteq Path /\ opaque \subseteq Path
  BY DEF Inv, TypeInv
<1> QED BY <1>1, <1>2, <1>3, <1>4, Becomes

-----------------------------------------------------------------------------
(* op_rename: the subtree at `from' moves to `to'. *)

Within(q, r) == q = r \/ r \in Above(q)

LEMMA MovedIs ==
    ASSUME NEW q \in Path, NEW to \in Path, NEW from \in Path, Within(q, to)
    PROVE  LET src == Moved(q, to, from)
           IN  /\ src \in Seq(STRING) /\ Len(src) = Len(from) + Len(q) - Len(to)
               /\ Len(to) <= Len(q)
               /\ \A i \in 1..Len(from) : src[i] = from[i]
               /\ \A i \in (Len(from) + 1)..Len(src) : src[i] = q[i - Len(from) + Len(to)]
<1> DEFINE rest == SubSeq(q, Len(to) + 1, Len(q))
           src == Moved(q, to, from)
<1>1. /\ q \in Seq(STRING) /\ from \in Seq(STRING)
      /\ Len(q) \in Nat /\ Len(to) \in Nat /\ Len(from) \in Nat
  BY PathType
<1>2. Len(to) <= Len(q)
  BY <1>1, AboveIff DEF Within, Under
<1>3. /\ rest \in Seq(STRING) /\ Len(rest) = Len(q) - Len(to)
      /\ \A i \in 1..Len(rest) : rest[i] = q[i + Len(to)]
  BY <1>1, <1>2
<1>4. src = from \o rest
  BY DEF Moved
<1> HIDE DEF rest, src
<1>5. /\ src \in Seq(STRING) /\ Len(src) = Len(from) + Len(rest)
      /\ \A i \in 1..Len(src) : src[i] = IF i <= Len(from) THEN from[i] ELSE rest[i - Len(from)]
  <2>1. /\ from \o rest \in Seq(STRING) /\ Len(from \o rest) = Len(from) + Len(rest)
        /\ \A i \in 1..(Len(from) + Len(rest)) :
              (from \o rest)[i] = IF i <= Len(from) THEN from[i] ELSE rest[i - Len(from)]
    <3>1. from \in Seq(STRING) /\ rest \in Seq(STRING)
      BY <1>1, <1>3
    <3> QED BY <3>1, ConcatProperties
  <2> QED BY <1>4, <2>1, Zenon
<1>6. \A i \in 1..Len(from) : src[i] = from[i]
  BY <1>1, <1>2, <1>3, <1>5
<1>7. \A i \in (Len(from) + 1)..Len(src) : src[i] = q[i - Len(from) + Len(to)]
  <2> TAKE i \in (Len(from) + 1)..Len(src)
  <2>1. i \in 1..Len(src) /\ ~(i <= Len(from)) /\ i - Len(from) \in 1..Len(rest)
    BY <1>1, <1>2, <1>3, <1>5
  <2> QED BY <1>3, <1>5, <2>1
<1> QED BY <1>1, <1>2, <1>3, <1>5, <1>6, <1>7 DEF src

LEMMA MovedWithin ==
    ASSUME NEW q \in Path, NEW to \in Path, NEW from \in Path, Within(q, to),
           Moved(q, to, from) \in Path
    PROVE  Within(Moved(q, to, from), from) /\ (q = to => Moved(q, to, from) = from)
<1> DEFINE src == Moved(q, to, from)
<1>1. /\ src \in Seq(STRING) /\ Len(src) = Len(from) + Len(q) - Len(to)
      /\ Len(to) <= Len(q) /\ \A i \in 1..Len(from) : src[i] = from[i]
  BY MovedIs
<1>2. /\ from \in Seq(STRING) /\ Len(from) \in Nat /\ Len(q) \in Nat /\ Len(to) \in Nat
  BY PathType
<1> HIDE DEF src
<1>3. CASE Len(q) = Len(to)
  <2>1. Len(src) = Len(from)
    BY <1>1, <1>2, <1>3
  <2>2. src = from
    BY <1>1, <1>2, <2>1, PathEqual
  <2> QED BY <2>2 DEF Within, src
<1>4. CASE Len(to) < Len(q)
  <2>1. Under(src, from) /\ q # to
    BY <1>1, <1>2, <1>4 DEF Under
  <2> QED BY <2>1, AboveIff DEF Within, src
<1> QED BY <1>1, <1>2, <1>3, <1>4

LEMMA MovedAbove ==
    ASSUME NEW q \in Path, NEW to \in Path, NEW from \in Path, NEW a \in Above(q), Within(a, to),
           Moved(q, to, from) \in Path
    PROVE  Moved(a, to, from) \in Above(Moved(q, to, from))
<1> DEFINE src == Moved(q, to, from)
           b == Moved(a, to, from)
<1>0. a \in Path /\ Under(q, a) /\ Within(q, to)
  BY AboveIff, AboveAbove DEF Within
<1>1. /\ src \in Seq(STRING) /\ Len(src) = Len(from) + Len(q) - Len(to) /\ Len(to) <= Len(q)
      /\ \A i \in 1..Len(from) : src[i] = from[i]
      /\ \A i \in (Len(from) + 1)..Len(src) : src[i] = q[i - Len(from) + Len(to)]
  BY <1>0, MovedIs
<1>2. /\ b \in Seq(STRING) /\ Len(b) = Len(from) + Len(a) - Len(to) /\ Len(to) <= Len(a)
      /\ \A i \in 1..Len(from) : b[i] = from[i]
      /\ \A i \in (Len(from) + 1)..Len(b) : b[i] = a[i - Len(from) + Len(to)]
  <2>1. a \in Path /\ Within(a, to)
    BY <1>0
  <2> QED BY <2>1, MovedIs, Zenon
<1>3. /\ Len(from) \in Nat /\ Len(q) \in Nat /\ Len(to) \in Nat /\ Len(a) \in Nat
      /\ Len(from) > 0
  BY <1>0, PathType
<1>4. Len(a) < Len(q) /\ \A i \in 1..Len(a) : q[i] = a[i]
  BY <1>0 DEF Under
<1> HIDE DEF src, b
<1>5. Len(b) \in 1..Len(src) /\ Len(b) < Len(src)
  BY <1>1, <1>2, <1>3, <1>4
<1>6. \A i \in 1..Len(b) : b[i] = src[i]
  <2> TAKE i \in 1..Len(b)
  <2>1. CASE i <= Len(from)
    BY <1>1, <1>2, <1>3, <2>1
  <2>2. CASE i > Len(from)
    <3>1. /\ i \in (Len(from) + 1)..Len(b) /\ i \in (Len(from) + 1)..Len(src)
          /\ i - Len(from) + Len(to) \in 1..Len(a)
      BY <1>2, <1>3, <1>5, <2>2
    <3> QED BY <1>1, <1>2, <1>4, <3>1
  <2> QED BY <1>2, <1>3, <2>1, <2>2
<1>7. src \in Path
  BY DEF src
<1>8. Prefix(src, Len(b)) \in Path
  BY <1>5, <1>7, PrefixInPath
<1>9. /\ Prefix(src, Len(b)) \in Seq(STRING) /\ Len(Prefix(src, Len(b))) = Len(b)
      /\ \A i \in 1..Len(b) : Prefix(src, Len(b))[i] = src[i]
  <2>1. Len(b) \in 0..Len(src)
    BY <1>5
  <2> QED BY <1>7, <2>1, PrefixType
<1>10. Prefix(src, Len(b)) = b
  BY <1>2, <1>6, <1>9, PathEqual
<1>11. b \in Path /\ Under(src, b)
  BY <1>5, <1>6, <1>8, <1>10 DEF Under
<1> QED BY <1>7, <1>11, AboveIff DEF src, b

\* The two subtrees have nothing in common.
LEMMA Apart ==
    ASSUME NEW from \in Path, NEW to \in Path, from # to, from \notin Above(to), to \notin Above(from),
           NEW q \in Path
    PROVE  ~(Within(q, from) /\ Within(q, to))
BY AboveChain, AboveAbove DEF Within

LEMMA MoveNodesIs ==
    ASSUME NEW u, NEW from \in Path, NEW to \in Path, NEW q \in Path
    PROVE  /\ Within(q, to) => MoveNodes(u, from, to)[q] =
                 IF Moved(q, to, from) \in Path THEN u[Moved(q, to, from)] ELSE None
           /\ ~Within(q, to) /\ Within(q, from) => MoveNodes(u, from, to)[q] = None
           /\ ~Within(q, to) /\ ~Within(q, from) => MoveNodes(u, from, to)[q] = u[q]
<1>1. /\ Within(q, to) <=> q = to \/ Under(q, to)
      /\ Within(q, from) <=> q = from \/ Under(q, from)
  BY AboveIff DEF Within
<1>2. MoveNodes(u, from, to)[q] =
         IF q = to \/ Under(q, to)
         THEN IF Moved(q, to, from) \in Path THEN u[Moved(q, to, from)] ELSE None
         ELSE IF q = from \/ Under(q, from) THEN None ELSE u[q]
  BY DEF MoveNodes
<1> HIDE DEF Within
<1> QED BY <1>1, <1>2

LEMMA MoveMarksIs ==
    ASSUME NEW S, S \subseteq Path, NEW from \in Path, NEW to \in Path
    PROVE  /\ MoveMarks(S, from, to) \subseteq Path
           /\ \A q \in Path : q \in MoveMarks(S, from, to) <=>
                 \/ q \in S /\ ~Within(q, from)
                 \/ Within(q, to) /\ Moved(q, to, from) \in S
<1>1. \A q \in Path : /\ Within(q, to) <=> q = to \/ Under(q, to)
                      /\ Within(q, from) <=> q = from \/ Under(q, from)
  BY AboveIff DEF Within
<1> QED BY <1>1 DEF MoveMarks

LEMMA MovedSound ==
    ASSUME NEW u, NEW sc, NEW op, Sound(u, sc, op), sc \subseteq Path, op \subseteq Path,
           NEW from \in Path, NEW to \in Path,
           from # to, from \notin Above(to), to \notin Above(from),
           \A a \in Above(to) : u[a].t = "dir",
           u[from].t # "none",
           \A q \in Path : to \in Above(q) => u[q].t = "none" /\ q \notin sc,
           to \notin sc, to \notin op
    PROVE  LET v == MoveNodes(u, from, to)
               sc2 == MoveMarks(sc, from, to)
               op2 == MoveMarks(op, from, to)
           IN  /\ Sound(v, sc2, op2)
               /\ \A q \in Path : Within(q, from) => v[q].t = "none" /\ q \notin sc2 /\ q \notin op2
               /\ \A a \in Above(from) : v[a].t = "dir" /\ a \notin sc2
<1> DEFINE v == MoveNodes(u, from, to)
           sc2 == MoveMarks(sc, from, to)
           op2 == MoveMarks(op, from, to)
           Src(q) == Moved(q, to, from)
<1>1. /\ Typed(u) /\ Reach(u, sc, op)
  BY DEF Sound
<1>2. \A q \in Path : /\ u[q].t # "none" \/ q \in sc =>
                           \A a \in Above(q) : u[a].t = "dir" /\ a \notin sc
                      /\ q \in sc => u[q].t = "none"
                      /\ q \in op => u[q].t = "dir"
  BY <1>1 DEF Reach
<1>3. \A q \in Path : ~(Within(q, from) /\ Within(q, to))
  BY Apart
<1>4. \A q \in Path :
         /\ Within(q, to) => v[q] = IF Src(q) \in Path THEN u[Src(q)] ELSE None
         /\ Within(q, from) => v[q] = None
         /\ ~Within(q, to) /\ ~Within(q, from) => v[q] = u[q]
  <2> TAKE q \in Path
  <2>1. ~(Within(q, from) /\ Within(q, to))
    BY <1>3
  <2> QED BY <2>1, MoveNodesIs
<1>5. \A q \in Path : Within(q, to) => q \notin sc /\ q \notin op
  BY <1>2 DEF Within
<1>6. \A q \in Path : /\ Within(q, to) => /\ q \in sc2 <=> Src(q) \in sc
                                          /\ q \in op2 <=> Src(q) \in op
                      /\ Within(q, from) => q \notin sc2 /\ q \notin op2
                      /\ ~Within(q, to) /\ ~Within(q, from) => /\ q \in sc2 <=> q \in sc
                                                               /\ q \in op2 <=> q \in op
  BY <1>3, <1>5, MoveMarksIs
<1>7. op2 \subseteq Path /\ sc2 \subseteq Path
  BY MoveMarksIs
<1>8. None.t = "none" /\ GoodNode(None)
  BY NodesGood
<1>9. /\ v = [q \in Path |-> v[q]]
  BY DEF MoveNodes
<1> HIDE DEF v, sc2, op2, Src
<1>10. Typed(v)
  <2>1. \A q \in Path : GoodNode(v[q])
    <3> TAKE q \in Path
    <3>1. \A x \in Path : GoodNode(u[x])
      BY <1>1 DEF Typed
    <3> QED BY <1>4, <1>8, <3>1
  <2> QED BY <1>9, <2>1 DEF Typed
<1>11. \A q \in Path : \A a \in Above(q) :
          /\ Within(a, to) => Within(q, to)
          /\ Within(a, from) => Within(q, from)
  BY AboveAbove DEF Within
<1>12. \A a \in Above(to) : a \in Path /\ ~Within(a, to) /\ ~Within(a, from)
  BY ParentAbove, AboveAbove DEF Within
<1>13. \A a \in Above(from) : a \in Path /\ ~Within(a, to) /\ ~Within(a, from)
  BY ParentAbove, AboveAbove DEF Within
<1>14. Reach(v, sc2, op2)
  <2> SUFFICES ASSUME NEW q \in Path
               PROVE  /\ v[q].t # "none" \/ q \in sc2 =>
                            \A a \in Above(q) : v[a].t = "dir" /\ a \notin sc2
                      /\ q \in sc2 => v[q].t = "none"
                      /\ q \in op2 => v[q].t = "dir"
    BY DEF Reach
  <2>1. CASE Within(q, from)
    BY <1>4, <1>6, <1>8, <2>1
  <2>2. CASE ~Within(q, from) /\ ~Within(q, to)
    <3>1. \A a \in Above(q) : a \in Path /\ v[a] = u[a] /\ (a \in sc2 <=> a \in sc)
      BY <1>4, <1>6, <1>11, <2>2, ParentAbove
    <3> QED BY <1>2, <1>4, <1>6, <2>2, <3>1
  <2>3. CASE Within(q, to)
    <3>1. CASE Src(q) \notin Path
      BY <1>4, <1>6, <1>8, <2>3, <3>1
    <3>2. CASE Src(q) \in Path
      <4>1. v[q] = u[Src(q)] /\ (q \in sc2 <=> Src(q) \in sc) /\ (q \in op2 <=> Src(q) \in op)
        BY <1>4, <1>6, <2>3, <3>2
      <4>2. ASSUME v[q].t # "none" \/ q \in sc2, NEW a \in Above(q)
            PROVE  v[a].t = "dir" /\ a \notin sc2
        <5>1. CASE Within(a, to)
          <6>1. Src(a) \in Above(Src(q))
            BY <3>2, <5>1, MovedAbove DEF Src
          <6>2. Src(a) \in Path /\ u[Src(a)].t = "dir" /\ Src(a) \notin sc
            BY <1>2, <3>2, <4>1, <4>2, <6>1, ParentAbove
          <6>3. a \in Path
            BY ParentAbove
          <6> QED BY <1>4, <1>6, <5>1, <6>2, <6>3
        <5>2. CASE ~Within(a, to)
          <6>1. a \in Above(to)
            <7>1. CASE q = to
              BY <7>1
            <7>2. CASE q # to
              BY <2>3, <5>2, <7>2, AboveChain DEF Within
            <7> QED BY <7>1, <7>2
          <6>2. a \in Path /\ v[a] = u[a] /\ (a \in sc2 <=> a \in sc) /\ u[a].t = "dir"
            BY <1>4, <1>6, <1>12, <6>1
          <6> QED BY <1>2, <6>2
        <5> QED BY <5>1, <5>2
      <4> QED BY <1>2, <3>2, <4>1, <4>2
    <3> QED BY <3>1, <3>2
  <2> QED BY <2>1, <2>2, <2>3
<1>16. \A q \in Path : Within(q, from) => v[q].t = "none" /\ q \notin sc2 /\ q \notin op2
  BY <1>4, <1>6, <1>8
<1>17. \A a \in Above(from) : v[a].t = "dir" /\ a \notin sc2
  <2> TAKE a \in Above(from)
  <2>1. u[a].t = "dir" /\ a \notin sc
    BY <1>2
  <2> QED BY <1>4, <1>6, <1>13, <2>1
<1> QED BY <1>10, <1>14, <1>16, <1>17 DEF Sound, v, sc2, op2

\* A whiteout at a name with nothing below it.
LEMMA WhitedSound ==
    ASSUME NEW u, NEW sc, NEW op, Sound(u, sc, op), op \subseteq Path, NEW p \in Path,
           p \notin sc, p \notin op,
           \A a \in Above(p) : u[a].t = "dir" /\ a \notin sc,
           \A q \in Path : p \in Above(q) => u[q].t = "none" /\ q \notin sc
    PROVE  Sound(WhiteoutNode(u, p), WhiteoutSidecar(sc, p), op)
<1> DEFINE v == WhiteoutNode(u, p)
           s == WhiteoutSidecar(sc, p)
<1>1. /\ Typed(v) /\ v[p].t = (IF UseMknod THEN "whiteout" ELSE "none")
      /\ \A q \in Path : q # p => v[q] = u[q]
      /\ s = IF UseMknod THEN sc ELSE sc \cup {p}
  BY WhiteoutIs DEF Sound
<1> HIDE DEF v, s
<1>2. /\ \A a \in Above(p) : v[a].t = "dir"
      /\ v[p].t \in {"none", "whiteout"}
      /\ p \in s => v[p].t = "none"
      /\ \A q \in Path : q # p => (q \in s => q \in sc) /\ v[q].t = u[q].t
  BY <1>1, ParentAbove
<1>3. Sound(v, s, op \ {p})
  BY <1>1, <1>2, RemovedSound
<1>4. op \ {p} = op
  OBVIOUS
<1> QED BY <1>3, <1>4 DEF v, s

\* The destination is ready: its parents are there and its whiteout is gone.
LEMMA DestinationSound ==
    ASSUME Inv, NEW from \in Path, NEW to \in Path, View[from].t # "none", ~CopyUpFails(from),
           ViewDir(Parent(to)), from # to, from \notin Above(to), to \notin Above(from)
    PROVE  LET u0 == CopyUp(upper, from)
               u1 == Unwhite(WithParents(u0, to), to)
           IN  /\ Sound(u1, sidecar \ {to}, opaque)
               /\ \A a \in Above(to) : u1[a].t = "dir"
               /\ u1[from] = u0[from] /\ u1[from].t = View[from].t
               /\ \A q \in Path : q # to /\ q \notin Above(to) => u1[q] = u0[q]
               /\ \A q \in Path : upper[q].t # "none" /\ q # to => u1[q] = upper[q]
               /\ u1[to] = IF upper[to].t = "whiteout" THEN None ELSE upper[to]
<1> DEFINE u0 == CopyUp(upper, from)
           w == WithParents(u0, to)
           u1 == Unwhite(w, to)
           sc == sidecar \ {to}
<1>1. /\ TypeInv /\ Reach(upper, sidecar, opaque) /\ opaque \subseteq Path
  BY DEF Inv, TypeInv
<1>2. /\ Sound(u0, sidecar, opaque) /\ u0[from].t = View[from].t
      /\ \A q \in Path : q # from /\ q \notin Above(from) => u0[q] = upper[q]
      /\ \A q \in Above(from) : u0[q].t = "dir"
      /\ \A q \in Path : upper[q].t # "none" => u0[q] = upper[q]
  BY CopyUpSound
<1> HIDE DEF u0
<1>3. Typed(u0) /\ Reach(u0, sidecar, opaque)
  BY <1>2 DEF Sound
<1>4. Clear(to)
  BY ParentVisible, VisibleClear
<1>5. u0[to] = upper[to]
  BY <1>2
<1>6. \A a \in Above(to) : /\ a \in Path /\ u0[a].t \in {"none", "dir"} /\ a \notin sidecar
  <2> TAKE a \in Above(to)
  <2>1. a \in Path /\ a # from
    BY ParentAbove
  <2>2. /\ upper[a].t \in {"none", "dir"} /\ a \notin sidecar
    BY <1>4 DEF Clear, IsWhiteout, OpaqueAbove
  <2>3. u0[a].t = "dir" \/ u0[a] = upper[a]
    BY <1>2, <2>1
  <2> QED BY <2>1, <2>2, <2>3
<1>7. /\ Typed(w) /\ \A q \in Path : q \notin Above(to) => w[q] = u0[q]
      /\ \A a \in Above(to) : w[a].t = "dir"
      /\ \A q \in Path : u0[q].t # "none" => w[q] = u0[q]
  BY <1>1, <1>3, <1>6, WithParentsIs
<1> HIDE DEF w
<1>8. /\ Typed(u1) /\ \A q \in Path : q # to => u1[q] = w[q]
      /\ u1[to] = IF w[to].t = "whiteout" THEN None ELSE w[to]
  BY <1>7, UnwhiteIs
<1> HIDE DEF u1
<1>9. w[to] = upper[to] /\ u1[to] = IF upper[to].t = "whiteout" THEN None ELSE upper[to]
  BY <1>5, <1>7, <1>8, ParentAbove
<1>10. /\ \A a \in Above(to) : u1[a].t = "dir"
       /\ \A q \in Path : q # to /\ q \notin Above(to) => u1[q] = u0[q]
       /\ u1[from] = u0[from]
       /\ \A q \in Path : upper[q].t # "none" /\ q # to => u1[q] = upper[q]
  BY <1>2, <1>6, <1>7, <1>8, ParentAbove
<1>11. /\ to \in opaque => u1[to].t = "dir"
       /\ u1[to].t = "dir" => upper[to].t = "dir"
       /\ \A q \in Path : to \in Above(q) =>
             \/ u0[q].t = "none" /\ q \notin sidecar
             \/ u1[to].t = "dir"
  <2>1. /\ to \in opaque => u0[to].t = "dir"
        /\ \A q \in Path : to \in Above(q) /\ (u0[q].t # "none" \/ q \in sidecar) => u0[to].t = "dir"
    BY <1>3, <1>5 DEF Reach
  <2> QED BY <1>5, <1>9, <2>1, NodesGood
<1>12. Reach(u1, sc, opaque)
  <2>1. to \notin sc /\ \A q \in Path : q # to => (q \in sc => q \in sidecar) /\ (q \in opaque => q \in opaque)
    OBVIOUS
  <2>2. \A a \in Above(to) : u1[a].t = "dir" /\ a \notin sidecar
    BY <1>6, <1>10
  <2>3. \A q \in Path : q # to /\ q \notin Above(to) => u1[q].t = u0[q].t
    BY <1>10
  <2> HIDE DEF sc
  <2> QED BY <1>3, <1>11, <2>1, <2>2, <2>3, Placed
<1> QED BY <1>2, <1>8, <1>9, <1>10, <1>12 DEF Sound, u0, u1, w

LEMMA RenameInv ==
    ASSUME Inv, NEW from \in Path, NEW to \in Path, op_rename(from, to)
    PROVE  Inv'
<1> DEFINE u0 == CopyUp(upper, from)
           u1 == Unwhite(WithParents(u0, to), to)
           sc1 == sidecar \ {to}
           sameFile == u1[to].t = "file" /\ u1[to].ino = u1[from].ino
           u2 == IF sameFile THEN u1 ELSE MoveNodes(u1, from, to)
           sc2 == MoveMarks(sc1, from, to)
           op2 == MoveMarks(opaque, from, to)
           Full == u1[to].t = "dir" /\ ~UpperEmpty(u1, sc1, to)
<1>1. /\ View[from].t # "none" /\ ViewDir(Parent(to)) /\ from # to
      /\ ~Under(to, from) /\ ~Under(from, to)
  BY DEF op_rename, KernelRename, KernelFound
<1>2. /\ lower' = lower /\ fh' = fh
      /\ CopyUpFails(from) => /\ upper' = WithParents(upper, from)
                              /\ sidecar' = sidecar /\ opaque' = opaque /\ canMknod' = canMknod
      /\ ~CopyUpFails(from) /\ Full => /\ upper' = u1 /\ sidecar' = sc1
                                       /\ opaque' = opaque /\ canMknod' = canMknod
      /\ ~CopyUpFails(from) /\ ~Full =>
            /\ opaque' = op2
            /\ LowerAt(from).t = "none" => upper' = u2 /\ sidecar' = sc2 /\ canMknod' = canMknod
            /\ LowerAt(from).t # "none" => /\ upper' = WhiteoutNode(u2, from)
                                         /\ sidecar' = WhiteoutSidecar(sc2, from)
                                         /\ canMknod' = UseMknod
  BY DEF op_rename
<1>3. /\ sidecar \subseteq Path /\ opaque \subseteq Path /\ canMknod \in BOOLEAN
      /\ fh \in [Handle -> Ino \cup {0}]
  BY DEF Inv, TypeInv
<1>4. from \notin Above(to) /\ to \notin Above(from)
  BY <1>1, AboveIff
<1>5. CASE CopyUpFails(from)
  <2>1. Sound(WithParents(upper, from), sidecar, opaque)
    BY <1>1, FoundIs, ParentsSound
  <2> QED BY <1>2, <1>3, <1>5, <2>1, Becomes
<1>6. CASE ~CopyUpFails(from)
  <2>1. /\ Sound(u1, sc1, opaque) /\ \A a \in Above(to) : u1[a].t = "dir"
        /\ u1[from].t = View[from].t
    BY <1>1, <1>4, <1>6, DestinationSound
  <2> HIDE DEF u0, u1
  <2>2. sc1 \subseteq Path /\ to \notin sc1
    BY <1>3
  <2> HIDE DEF sc1
  <2>3. Typed(u1) /\ Reach(u1, sc1, opaque)
    BY <2>1 DEF Sound
  <2>4. CASE Full
    BY <1>2, <1>3, <1>6, <2>1, <2>2, <2>4, Becomes
  <2>5. CASE ~Full
    <3>1. /\ Sound(u2, sc2, op2) /\ from \notin sc2 /\ from \notin op2
          /\ \A a \in Above(from) : u2[a].t = "dir" /\ a \notin sc2
          /\ \A q \in Path : from \in Above(q) => u2[q].t = "none" /\ q \notin sc2
      <4>1. CASE sameFile
        <5>1. u1[from].t = "file"
          BY <2>3, <4>1 DEF Typed, GoodNode
        <5>2. \A q \in Path : from \in Above(q) => u1[q].t = "none" /\ q \notin sc1
          BY <2>3, <5>1 DEF Reach
        <5>3. \A q \in Path : Within(q, from) => q \notin sc1 /\ q \notin opaque
          BY <2>3, <5>1, <5>2 DEF Reach, Within
        <5>5. sc2 = sc1 /\ op2 = opaque
          <6>1. ASSUME NEW S, S \subseteq Path, \A q \in Path : Within(q, from) => q \notin S
                PROVE  MoveMarks(S, from, to) = S
            <7>1. \A q \in Path : Within(q, to) => Moved(q, to, from) \notin S
              BY <6>1, MovedWithin
            <7> QED BY <6>1, <7>1, MoveMarksIs
          <6> QED BY <1>3, <2>2, <5>3, <6>1
        <5>6. u2 = u1
          BY <4>1
        <5> HIDE DEF u2, sc2, op2
        <5>7. /\ from \notin sc1 /\ from \notin opaque
              /\ \A a \in Above(from) : u1[a].t = "dir" /\ a \notin sc1
          BY <2>3, <5>1 DEF Reach
        <5> QED BY <2>1, <5>2, <5>5, <5>6, <5>7
      <4>2. CASE ~sameFile
        <5>1. to \notin opaque /\ \A q \in Path : to \in Above(q) => u1[q].t = "none" /\ q \notin sc1
          <6>1. CASE u1[to].t # "dir"
            BY <2>3, <6>1 DEF Reach
          <6>2. CASE u1[to].t = "dir"
            <7>1. to \notin opaque /\ \A c \in Children(to) : u1[c].t = "none" /\ c \notin sc1
              BY <2>5, <6>2 DEF UpperEmpty
            <7>2. ASSUME NEW q \in Path, to \in Above(q)
                  PROVE  u1[q].t = "none" /\ q \notin sc1
              <8>1. PICK c \in Children(to) : c = q \/ c \in Above(q)
                BY <7>2, ChildOnTheWay
              <8> QED BY <2>3, <7>1, <8>1 DEF Reach
            <7> QED BY <7>1, <7>2
          <6> QED BY <6>1, <6>2
        <5>2. u1[from].t # "none"
          BY <1>1, <2>1, ViewIs
        <5>3. u2 = MoveNodes(u1, from, to)
          BY <4>2
        <5>4. /\ Sound(u2, sc2, op2)
              /\ \A q \in Path : Within(q, from) => u2[q].t = "none" /\ q \notin sc2 /\ q \notin op2
              /\ \A a \in Above(from) : u2[a].t = "dir" /\ a \notin sc2
          <6> HIDE DEF u2
          <6> QED BY <1>1, <1>3, <1>4, <2>1, <2>2, <5>1, <5>2, <5>3, MovedSound
        <5> HIDE DEF u2, sc2, op2
        <5> QED BY <5>4 DEF Within
      <4> QED BY <4>1, <4>2
    <3>2. sc2 \subseteq Path /\ op2 \subseteq Path
      BY <1>3, <2>2, MoveMarksIs
    <3> HIDE DEF u2, sc2, op2
    <3>3. CASE LowerAt(from).t = "none"
      BY <1>2, <1>3, <1>6, <2>5, <3>1, <3>2, <3>3, Becomes
    <3>4. CASE LowerAt(from).t # "none"
      <4>1. Sound(WhiteoutNode(u2, from), WhiteoutSidecar(sc2, from), op2)
        BY <3>1, <3>2, WhitedSound
      <4>2. WhiteoutSidecar(sc2, from) \subseteq Path
        BY <3>2 DEF WhiteoutSidecar
      <4> QED BY <1>2, <1>3, <1>6, <2>5, <3>2, <3>4, <4>1, <4>2, MknodBoolean, Becomes
    <3> QED BY <3>3, <3>4
  <2> QED BY <2>4, <2>5
<1> QED BY <1>5, <1>6

-----------------------------------------------------------------------------
(* The invariant. *)

LEMMA InvInit == Init => Inv
<1> SUFFICES ASSUME Init PROVE Inv
  OBVIOUS
<1>1. LowerObject \subseteq FT!Object
  BY LayersAssumption DEF LowerObject, FT!Object, FT!Mode
<1>2. lower \in [Path -> FT!Object] /\ FT!IsTree(lower)
  BY <1>1 DEF Init
<1>3. upper = [p \in Path |-> None] /\ GoodNode(None) /\ None.t = "none"
  BY NodesGood DEF Init
<1>4. Typed(upper) /\ \A p \in Path : upper[p].t = "none"
  BY <1>3 DEF Typed
<1>5. /\ sidecar = {} /\ opaque = {} /\ canMknod \in BOOLEAN
      /\ fh \in [Handle -> Ino \cup {0}]
  BY DEF Init
<1>6. Reach(upper, sidecar, opaque)
  BY <1>4, <1>5 DEF Reach
<1> QED BY <1>2, <1>4, <1>5, <1>6 DEF Inv, TypeInv

LEMMA InvNext == Inv /\ [Next]_vars => Inv'
<1> SUFFICES ASSUME Inv, [Next]_vars PROVE Inv'
  OBVIOUS
<1>1. ASSUME NEW p \in Path, NEW m \in ClientMode,
             op_mkdir(p, m) \/ op_chmod(p, m) \/ op_chmod_link(p, m)
      PROVE  Inv'
  BY <1>1, LayersAssumption, MkdirInv, ChmodInv, ChmodLinkInv
<1>2. ASSUME NEW p \in Path, NEW m \in ClientMode, NEW h \in Handle, op_create(p, m, h)
      PROVE  Inv'
  BY <1>2, LayersAssumption, CreateInv
<1>3. ASSUME NEW p \in Path, NEW tgt \in Target, op_symlink(p, tgt)
      PROVE  Inv'
  BY <1>3, SymlinkInv
<1>4. ASSUME NEW p \in Path, op_unlink(p) \/ op_rmdir(p) \/ op_truncate(p)
      PROVE  Inv'
  BY <1>4, UnlinkInv, RmdirInv, TruncateInv
<1>5. ASSUME NEW p \in Path, NEW q \in Path, op_rename(p, q) \/ op_link(p, q)
      PROVE  Inv'
  BY <1>5, RenameInv, LinkInv
<1>6. ASSUME NEW p \in Path, NEW h \in Handle, op_open(p, h)
      PROVE  Inv'
  BY <1>6, OpenInv
<1>7. ASSUME NEW h \in Handle, NEW c \in Content, op_write(h, c)
      PROVE  Inv'
  BY <1>7, WriteInv
<1>8. CASE Remount \/ \E h \in Handle : op_release(h)
  BY <1>8, HandlesInv
<1>9. CASE UNCHANGED vars
  <2>1. Sound(upper, sidecar, opaque)
    BY DEF Inv, TypeInv, Sound
  <2>2. /\ lower' = lower /\ upper' = upper /\ sidecar' = sidecar /\ opaque' = opaque
        /\ canMknod' = canMknod /\ fh' = fh
    BY <1>9 DEF vars
  <2>3. /\ sidecar \subseteq Path /\ opaque \subseteq Path /\ canMknod \in BOOLEAN
        /\ fh \in [Handle -> Ino \cup {0}]
    BY DEF Inv, TypeInv
  <2> QED BY <2>1, <2>2, <2>3, Becomes
<1> QED BY <1>1, <1>2, <1>3, <1>4, <1>5, <1>6, <1>7, <1>8, <1>9 DEF Next

THEOREM Invariance == Spec => []Inv
BY InvInit, InvNext, PTL DEF Spec

\* Both layers, their markers and the handles keep their types: the upper tree
\* never holds a socket or a device, and inode numbers belong to its files.
THEOREM TypesAreKept == Spec => []TypeOK
<1>1. Inv => TypeOK
  BY DEF Inv, TypeInv, Typed, GoodNode, TypeOK
<1> QED BY <1>1, Invariance, PTL

\* Whatever clients do, what they wrote stays within their reach: no handler
\* leaves anything in the upper tree outside upper directories, below a
\* whiteout or beside its own.
THEOREM WritesStayReachable == Spec => []UpperReachable
<1>1. Inv => UpperReachable
  BY DEF Inv, Reach, UpperReachable
<1> QED BY <1>1, Invariance, PTL

-----------------------------------------------------------------------------
(* Listing and lookup. *)

LEMMA ListingSame ==
    ASSUME Inv, NEW p \in Path \cup {<<>>}, ViewDir(p), NEW c \in Children(p)
    PROVE  /\ View[c].t # "none" => c \in Listing(p)
           /\ (\A a \in opaque : ~Under(p, a)) => (c \in Listing(p) => View[c].t # "none")
<1> DEFINE haveUpper == IF p = <<>> THEN TRUE ELSE upper[p].t = "dir"
<1>1. Reach(upper, sidecar, opaque) /\ opaque \subseteq Path
  BY DEF Inv, TypeInv
<1>2. c \in Path /\ Parent(c) = p /\ Visible(c) /\ Clear(c) /\ View[c] = Resolve(c)
  <2>1. c \in Path /\ Parent(c) = p
    BY ChildrenIff
  <2>2. Visible(c)
    BY <2>1, ParentVisible
  <2> QED BY <2>1, <2>2, VisibleClear, ViewIs
<1>3. c \in Listing(p) <=>
         \/ haveUpper /\ upper[c].t \notin {"none", "whiteout"}
         \/ p \notin opaque /\ LowerAt(c).t # "none" /\ ~(haveUpper /\ IsWhiteout(c))
  BY DEF Listing
<1>4. /\ p = <<>> => Above(c) = {} /\ p \notin opaque
      /\ p # <<>> => p \in Path /\ Above(c) = Above(p) \cup {p}
  BY <1>1, <1>2, ParentAbove, PathsClosed
<1>5. Where(c) = "whiteout" <=> IsWhiteout(c)
  <2>1. \A a \in Above(c) : ~IsWhiteout(a)
    BY <1>2 DEF Clear
  <2> QED BY <1>2, <2>1, WhereIs
<1>6. c \in sidecar => upper[c].t = "none"
  BY <1>1, <1>2 DEF Reach
<1>7. ~haveUpper => upper[c].t = "none" /\ c \notin sidecar
  BY <1>1, <1>2, <1>4 DEF Reach
<1>8. p \in opaque => OpaqueAbove(c)
  BY <1>4 DEF OpaqueAbove
<1>9. (\A a \in opaque : ~Under(p, a)) /\ OpaqueAbove(c) => p \in opaque
  <2>1. SUFFICES ASSUME \A a \in opaque : ~Under(p, a), OpaqueAbove(c), p \notin opaque PROVE FALSE
    OBVIOUS
  <2>2. PICK a \in Above(c) : a \in opaque
    BY <2>1 DEF OpaqueAbove
  <2>3. p \in Path /\ a \in Above(p)
    BY <1>4, <2>1, <2>2
  <2> QED BY <2>1, <2>2, <2>3, AboveIff
<1>10. IsWhiteout(c) <=> c \in sidecar \/ upper[c].t = "whiteout"
  BY DEF IsWhiteout
<1> HIDE DEF haveUpper
<1>11. ASSUME c \in Listing(p), \A a \in opaque : ~Under(p, a) PROVE View[c].t # "none"
  <2>1. ~IsWhiteout(c)
    BY <1>3, <1>6, <1>7, <1>10, <1>11
  <2>2. CASE upper[c].t # "none"
    <3>1. Where(c) = "upper"
      BY <1>2, <1>5, <2>1, <2>2, WhereIs
    <3> QED BY <1>2, <2>2, <3>1, WhereIs, AttrsIs
  <2>3. CASE upper[c].t = "none"
    <3>1. LowerAt(c).t # "none" /\ ~OpaqueAbove(c)
      BY <1>3, <1>9, <1>11, <2>3
    <3>2. Where(c) = "lower"
      BY <1>2, <1>5, <2>1, <2>3, <3>1, WhereIs
    <3> QED BY <1>2, <3>1, <3>2, WhereIs
  <2> QED BY <2>2, <2>3
<1>12. ASSUME View[c].t # "none" PROVE c \in Listing(p)
  <2>1. /\ ~IsWhiteout(c)
        /\ \/ upper[c].t # "none"
           \/ LowerAt(c).t # "none" /\ ~OpaqueAbove(c)
    BY <1>2, <1>12, FoundIs
  <2>2. CASE upper[c].t # "none"
    BY <1>3, <1>7, <1>10, <2>1, <2>2
  <2>3. CASE upper[c].t = "none"
    BY <1>3, <1>8, <2>1, <2>3
  <2> QED BY <2>2, <2>3
<1> QED BY <1>11, <1>12

\* op_readdir lists every name that op_getattr finds, though the two merge the
\* layers by rules of their own; and it lists no other, but perhaps in a
\* directory below an opaque one (op_readdir looks for the marker of the
\* directory it reads and of none above it).
THEOREM ListingsAreComplete == Spec => []ListingComplete
<1>1. Inv => ListingComplete
  <2> SUFFICES ASSUME Inv, NEW p \in Path \cup {<<>>}, ViewDir(p)
               PROVE  /\ Found(p) \subseteq Listing(p)
                      /\ (\A a \in opaque : ~Under(p, a)) => Listing(p) = Found(p)
    BY DEF ListingComplete
  <2>1. Listing(p) \subseteq Children(p) /\ Found(p) = {c \in Children(p) : View[c].t # "none"}
    BY DEF Listing, Found
  <2>2. \A c \in Children(p) :
           /\ View[c].t # "none" => c \in Listing(p)
           /\ (\A a \in opaque : ~Under(p, a)) => (c \in Listing(p) => View[c].t # "none")
    BY ListingSame
  <2> QED BY <2>1, <2>2
<1> QED BY <1>1, Invariance, PTL

-----------------------------------------------------------------------------
(* What is seen of copy_up. *)

LEMMA CopyUpTwins ==
    ASSUME Inv, NEW p \in Path, View[p].t # "none", ~CopyUpFails(p), NEW q \in Path
    PROVE  LET v == CopyUp(upper, p)
           IN  \/ v[q] = upper[q]
               \/ /\ upper[q].t = "none" /\ Where(q) = "lower" /\ (q = p \/ q \in Above(p))
                  /\ Attrs(v[q]) = Masked(LowerAt(q)) /\ v[q].t \notin {"none", "whiteout"}
<1> DEFINE v == CopyUp(upper, p)
           w == WithParents(upper, p)
<1>1. TypeInv /\ Typed(upper)
  BY DEF Inv, TypeInv
<1>2. /\ v[p].t \notin {"none", "whiteout"}
      /\ \A x \in Path : x # p /\ x \notin Above(p) => v[x] = upper[x]
      /\ \A x \in Above(p) : v[x].t = "dir"
      /\ \A x \in Path : upper[x].t # "none" => v[x] = upper[x]
  BY CopyUpSound
<1>3. /\ Where(p) # "lower" => v = upper
      /\ Where(p) = "lower" => /\ \A x \in Path : x # p => v[x] = w[x]
                               /\ Attrs(v[p]) = Masked(LowerAt(p))
  <2>1. Where(p) = "lower" => LowerAt(p).t # "other"
    BY DEF CopyUpFails
  <2> QED BY <1>1, <2>1, CopyUpIs
<1>4. \A x \in Above(p) : upper[x].t = "none" =>
         w[x] = DirNode(IF LowerAt(x).t = "dir" THEN LowerAt(x).mode ELSE {})
  BY <1>1, WithParentsIs
<1> HIDE DEF v, w
<1>5. CASE Where(p) # "lower"
  BY <1>3, <1>5 DEF v
<1>6. CASE Where(p) = "lower" /\ q = p
  <2>1. upper[p].t = "none"
    BY <1>6, WhereIs
  <2> QED BY <1>2, <1>3, <1>6, <2>1 DEF v
<1>7. CASE Where(p) = "lower" /\ q \in Above(p) /\ upper[q].t = "none"
  <2>1. Where(q) = "lower" /\ LowerAt(q).t = "dir"
    BY <1>7, FoundIs DEF Clear
  <2>2. q # p /\ v[q] = DirNode(LowerAt(q).mode)
    BY <1>3, <1>4, <1>7, <2>1, ParentAbove
  <2>3. LowerAt(q) = FT!Dir(LowerAt(q).mode) /\ LowerAt(q).mode \in SUBSET Bits
    BY <1>1, <2>1, LowerAtIs, ObjectIs
  <2>4. Attrs(v[q]) = FT!Dir(LowerAt(q).mode \ Umask) /\ v[q].t = "dir"
    BY <2>2, <2>3, NodesGood
  <2>5. Masked(LowerAt(q)) = FT!Dir(LowerAt(q).mode \ Umask)
    BY <2>1, <2>3, MaskedDir
  <2> QED BY <1>7, <2>1, <2>4, <2>5 DEF v
<1>8. CASE Where(p) = "lower" /\ q # p /\ (q \notin Above(p) \/ upper[q].t # "none")
  BY <1>2, <1>8 DEF v
<1> QED BY <1>5, <1>6, <1>7, <1>8

LEMMA CopyUpSeen ==
    ASSUME Inv, NEW p \in Path, View[p].t # "none", ~CopyUpFails(p),
           upper' = CopyUp(upper, p), lower' = lower, sidecar' = sidecar, opaque' = opaque,
           NEW x \in Path
    PROVE  \/ View'[x] = View[x]
           \/ /\ Where(x) = "lower" /\ (x = p \/ x \in Above(p))
              /\ View'[x] = Masked(View[x])
<1>1. ASSUME NEW q \in Path
      PROVE  \/ upper'[q] = upper[q]
             \/ /\ upper[q].t = "none" /\ Where(q) = "lower" /\ (q = p \/ q \in Above(p))
                /\ Attrs(upper'[q]) = Masked(LowerAt(q)) /\ upper'[q].t \notin {"none", "whiteout"}
  BY CopyUpTwins
<1>2. \A q \in Path : IsWhiteout(q)' <=> IsWhiteout(q)
  BY <1>1 DEF IsWhiteout
<1>3. ASSUME NEW q \in Path
      PROVE  \/ Resolve(q)' = Resolve(q)
             \/ /\ Where(q) = "lower" /\ (q = p \/ q \in Above(p))
                /\ Resolve(q)' = Masked(Resolve(q))
  <2>1. /\ IsWhiteout(q)' <=> IsWhiteout(q)
        /\ (\E a \in Above(q) : IsWhiteout(a)') <=> (\E a \in Above(q) : IsWhiteout(a))
    BY <1>2, ParentAbove
  <2>2. CASE upper'[q] = upper[q]
    <3>1. LowerAt(q)' = LowerAt(q)
      BY DEF LowerAt
    <3>2. Where(q)' = Where(q)
      BY <2>1, <2>2, <3>1 DEF Where, OpaqueAbove
    <3> QED BY <2>2, <3>1, <3>2 DEF Resolve, Attrs
  <2>3. CASE /\ upper[q].t = "none" /\ Where(q) = "lower" /\ (q = p \/ q \in Above(p))
             /\ Attrs(upper'[q]) = Masked(LowerAt(q)) /\ upper'[q].t \notin {"none", "whiteout"}
    <3>1. ~IsWhiteout(q) /\ ~ \E a \in Above(q) : IsWhiteout(a)
      BY <2>3, WhereIs
    <3>2. Where(q)' = "upper"
      BY <2>1, <2>3, <3>1 DEF Where
    <3>3. Resolve(q)' = Attrs(upper'[q])
      BY <3>2 DEF Resolve, Attrs
    <3> QED BY <2>3, <3>3, WhereIs
  <2> QED BY <1>1, <2>2, <2>3
<1>4. \A q \in Path : Resolve(q)'.t = Resolve(q).t
  BY <1>3 DEF Masked
<1>5. Visible(x)' <=> Visible(x)
  BY <1>4, ParentAbove DEF Visible
<1>6. /\ View[x] = IF Visible(x) THEN Resolve(x) ELSE FT!None
      /\ View'[x] = IF Visible(x)' THEN Resolve(x)' ELSE FT!None
  BY DEF View
<1> QED BY <1>3, <1>5, <1>6

\* Opening a file for writing changes nothing that a client sees but for the
\* bits of the helper's umask, which the file loses and so do the directories
\* above it that ensure_upper_parents makes; the twin has the file's content.
THEOREM CopyUpIsInvisible == Spec => CopyUpInvisible
<1> DEFINE A == \A p \in Path, h \in Handle : op_open(p, h) =>
                  \A q \in Path : \/ View'[q] = View[q]
                                  \/ /\ Where(q) = "lower" /\ (q = p \/ q \in Above(p))
                                     /\ View'[q] = Masked(View[q])
<1>1. Inv => A
  <2> SUFFICES ASSUME Inv, NEW p \in Path, NEW h \in Handle, op_open(p, h), NEW q \in Path
               PROVE  \/ View'[q] = View[q]
                      \/ /\ Where(q) = "lower" /\ (q = p \/ q \in Above(p))
                         /\ View'[q] = Masked(View[q])
    OBVIOUS
  <2>1. /\ View[p].t = "file" /\ upper' = CopyUp(upper, p)
        /\ lower' = lower /\ sidecar' = sidecar /\ opaque' = opaque
    BY DEF op_open
  <2>2. ~CopyUpFails(p)
    BY <2>1, FoundIs DEF CopyUpFails
  <2> QED BY <2>1, <2>2, CopyUpSeen
<1>2. Inv /\ [Next]_vars => [A]_vars
  BY <1>1
<1>3. Spec => [][A]_vars
  BY <1>2, Invariance, PTL DEF Spec
<1> QED BY <1>3 DEF CopyUpInvisible
=============================================================================
