---------------------------- MODULE ConfigProofs ----------------------------
(***************************************************************************)
(* Precedence and the profile are as promised for any command line, any    *)
(* files with any nesting of includes, and any masks, grants and modes.    *)
(***************************************************************************)
EXTENDS Config, PathLemmas, FiniteSetTheorems

-----------------------------------------------------------------------------
(* The inductive invariant. *)

Settings ==
    [mode : Mode, jail : Jail \cup {""}, cwd : BOOLEAN, mask : SUBSET STRING,
     grant : [GrantPath -> {"none", "rw", "mkdir", "ro"}], file : SUBSET GrantPath,
     filter : SUBSET STRING, setenv : {"none", "value", "outer"}]

Reading == [file : STRING \cup {".jail"}, lines : Nat, saved : BOOLEAN]

TypeInv ==
    /\ inv \in Invocation /\ set \in Settings /\ ref \in Settings
    /\ stack \in Seq(Reading)
    /\ inFile \in BOOLEAN
    /\ jailFile \in [Jail -> {"none", "user"} \cup Mode]
    /\ pc \in {"argv1", "conf", "inconf", "argv2", "dotjail", "injail", "argv3", "exec", "run",
               "quit", "error"}

\* The flags and the stack; only the outermost file restores FALSE.
Nesting ==
    pc # "error" =>
        /\ stack # <<>> <=> pc \in {"inconf", "injail"}
        /\ inFile <=> stack # <<>>
        /\ loop = {stack[i].file : i \in 1..Len(stack)}
        /\ IsFiniteSet(loop) /\ Cardinality(loop) = Len(stack)
        /\ \A i, j \in 1..Len(stack) : stack[i].file = stack[j].file => i = j
        /\ \A i \in 1..Len(stack) : stack[i].saved <=> i > 1

\* The command line says something about the mask m.
SaidOf(m) == {i \in Said({"mask", "unmask"}) : argv[i].v = m}

\* Where the command line says nothing, set has what the files say.
Agreeing ==
    /\ Said({"mode"}) = {} => set.mode = ref.mode
    /\ Said({"jail"}) = {} => set.jail = ref.jail
    /\ Said({"nocwd"}) = {} => set.cwd = ref.cwd
    /\ \A m \in STRING : SaidOf(m) = {} => (m \in set.mask <=> m \in ref.mask)

\* After the last pass the command line has had the last word.
Parsed ==
    pc \in {"exec", "run"} =>
        /\ set.mode = applied(ref, argv).mode /\ set.cwd = applied(ref, argv).cwd
        /\ set.mask = applied(ref, argv).mask /\ set.jail = applied(ref, argv).jail

\* The place of the command line's grants, and what it alone grants there.
Place == cwd \o <<Dir>>
Alone == parse(Default, argv, cwd)[Len(argv)].grant[Place]

\* Once the command line has been read, its grant stays, unless a file
\* erases it.
Granting ==
    /\ pc = "argv1" => set = Default
    /\ pc \notin {"argv1", "error"} /\ Said({"xdir"}) = {} /\ Said({"dir", "dir!", "rdir"}) # {} =>
         set.grant[Place] = Alone \/ Erased(Place)

Inv == TypeInv /\ Nesting /\ Agreeing /\ Parsed /\ Granting /\ CommandLineWins

-----------------------------------------------------------------------------
(* Induction, and the recursive definition of parse. *)

LEMMA Induct ==
    ASSUME NEW n \in Nat, NEW S, 0 \in S, \A i \in 1..n : i - 1 \in S => i \in S
    PROVE  0..n \subseteq S
<1> DEFINE Bad == {i \in Nat : i <= n /\ i \notin S}
<1>1. SUFFICES ASSUME Bad # {} PROVE FALSE
  OBVIOUS
<1>2. PICK i \in Bad : \A j \in Bad : i <= j
  BY <1>1, Least
<1>3. i \in 1..n /\ i - 1 \in 0..n /\ i - 1 \notin Bad
  BY <1>2
<1> QED BY <1>2, <1>3

\* The recursive definition defines: such a function exists, by induction.
LEMMA ParseIs ==
    ASSUME NEW s, NEW opts \in Seq(Option), NEW dir
    PROVE  parse(s, opts, dir) =
             [i \in 0..Len(opts) |-> IF i = 0 THEN s
                                     ELSE Apply(parse(s, opts, dir)[i - 1], opts[i], dir)]
<1> DEFINE Def(f, n) == f = [i \in 0..n |-> IF i = 0 THEN s ELSE Apply(f[i - 1], opts[i], dir)]
           Good == {n \in Nat : \E f : Def(f, n)}
<1>1. 0 \in Good
  <2>1. Def([i \in 0..0 |-> s], 0)
    OBVIOUS
  <2> QED BY <2>1
<1>2. ASSUME NEW n \in 1..Len(opts), n - 1 \in Good PROVE n \in Good
  <2>1. PICK f : Def(f, n - 1)
    BY <1>2
  <2> DEFINE g == [i \in 0..n |-> IF i = n THEN Apply(f[n - 1], opts[n], dir) ELSE f[i]]
  <2>2. \A i \in 0..(n - 1) : g[i] = f[i]
    OBVIOUS
  <2>3. \A i \in 0..(n - 1) : f[i] = IF i = 0 THEN s ELSE Apply(f[i - 1], opts[i], dir)
    BY <2>1
  <2>4. \A i \in 0..n : g[i] = IF i = 0 THEN s ELSE Apply(g[i - 1], opts[i], dir)
    <3> TAKE i \in 0..n
    <3>1. CASE i = n
      BY <3>1, <2>2
    <3>2. CASE i # n /\ i # 0
      <4>1. i \in 0..(n - 1) /\ i - 1 \in 0..(n - 1)
        BY <3>2
      <4>2. g[i] = f[i] /\ g[i - 1] = f[i - 1]
        BY <4>1, <2>2
      <4> HIDE DEF g
      <4> QED BY <3>2, <4>1, <4>2, <2>3
    <3>3. CASE i = 0 /\ i # n
      <4>1. i \in 0..(n - 1)
        BY <3>3
      <4> QED BY <3>3, <4>1, <2>2, <2>3
    <3> QED BY <3>1, <3>2, <3>3
  <2>5. Def(g, n)
    <3>1. g = [i \in 0..n |-> g[i]]
      OBVIOUS
    <3> HIDE DEF g
    <3> QED BY <3>1, <2>4
  <2> HIDE DEF g, Def
  <2> QED BY <2>5
<1>3. Len(opts) \in Good
  <2> HIDE DEF Good
  <2>1. Len(opts) \in Nat /\ Len(opts) \in 0..Len(opts)
    BY LenProperties
  <2>2. 0..Len(opts) \subseteq Good
    BY <1>1, <1>2, <2>1, Induct
  <2> QED BY <2>1, <2>2
<1>4. parse(s, opts, dir) = CHOOSE f : Def(f, Len(opts))
  BY DEF parse
<1>5. Def(parse(s, opts, dir), Len(opts))
  <2> HIDE DEF Def
  <2> QED BY <1>3, <1>4
<1> QED BY <1>5

-----------------------------------------------------------------------------
(* opt_parser. *)

\* An option as it may come, and a directory that names are taken from.
Fine(opt) ==
    /\ IF opt.o = "mode" THEN opt.v \in Mode ELSE opt.v \in STRING
    /\ opt.o = "jail" => opt.v \in Jail
    /\ opt.o \in DirOption => opt.v = Dir

Bases == {Home} \cup {i.cwd : i \in Invocation}

Known == {"mode", "jail", "nocwd", "mask", "unmask", "dir", "dir!", "rdir", "rdir?", "xdir", "file", "xfile", "unsetenv", "setenv"}

LEMMA ApplyIs ==
    ASSUME NEW s, NEW opt, NEW dir
    PROVE  /\ opt.o = "mode" => Apply(s, opt, dir) = [s EXCEPT !.mode = opt.v]
           /\ opt.o = "jail" => Apply(s, opt, dir) = [s EXCEPT !.jail = opt.v]
           /\ opt.o = "nocwd" => Apply(s, opt, dir) = [s EXCEPT !.cwd = FALSE]
           /\ opt.o = "mask" => Apply(s, opt, dir) = Mask(s, opt)
           /\ opt.o = "unmask" => Apply(s, opt, dir) = Mask(s, opt)
           /\ opt.o = "dir" => Apply(s, opt, dir) = Grant(s, PlaceOf(opt, dir), "rw")
           /\ opt.o = "dir!" => Apply(s, opt, dir) = Grant(s, PlaceOf(opt, dir), "mkdir")
           /\ opt.o = "rdir" => Apply(s, opt, dir) = Grant(s, PlaceOf(opt, dir), "ro")
           /\ opt.o = "rdir?" => Apply(s, opt, dir) = IF PlaceOf(opt, dir) \in Present
                   THEN Grant(s, PlaceOf(opt, dir), "ro") ELSE s
           /\ opt.o = "xdir" => Apply(s, opt, dir) = [s EXCEPT !.grant[PlaceOf(opt, dir)] = "none"]
           /\ opt.o = "file" => Apply(s, opt, dir) = [s EXCEPT !.file = @ \cup {PlaceOf(opt, dir)}]
           /\ opt.o = "xfile" => Apply(s, opt, dir) = [s EXCEPT !.file = @ \ {PlaceOf(opt, dir)}]
           /\ opt.o = "unsetenv" => Apply(s, opt, dir) = Unsetenv(s, opt.v)
           /\ opt.o = "setenv" => Apply(s, opt, dir) = Setenv(s, opt.v)
           /\ opt.o \notin Known => Apply(s, opt, dir) = s
<1>1. ASSUME opt.o = "mode" PROVE Apply(s, opt, dir) = [s EXCEPT !.mode = opt.v]
  BY <1>1 DEF Apply
<1>2. ASSUME opt.o = "jail" PROVE Apply(s, opt, dir) = [s EXCEPT !.jail = opt.v]
  BY <1>2 DEF Apply
<1>3. ASSUME opt.o = "nocwd" PROVE Apply(s, opt, dir) = [s EXCEPT !.cwd = FALSE]
  BY <1>3 DEF Apply
<1>4. ASSUME opt.o = "mask" PROVE Apply(s, opt, dir) = Mask(s, opt)
  BY <1>4 DEF Apply
<1>5. ASSUME opt.o = "unmask" PROVE Apply(s, opt, dir) = Mask(s, opt)
  BY <1>5 DEF Apply
<1>6. ASSUME opt.o = "dir" PROVE Apply(s, opt, dir) = Grant(s, PlaceOf(opt, dir), "rw")
  BY <1>6 DEF Apply
<1>7. ASSUME opt.o = "dir!" PROVE Apply(s, opt, dir) = Grant(s, PlaceOf(opt, dir), "mkdir")
  BY <1>7 DEF Apply
<1>8. ASSUME opt.o = "rdir" PROVE Apply(s, opt, dir) = Grant(s, PlaceOf(opt, dir), "ro")
  BY <1>8 DEF Apply
<1>9. ASSUME opt.o = "rdir?" PROVE Apply(s, opt, dir) = IF PlaceOf(opt, dir) \in Present
                   THEN Grant(s, PlaceOf(opt, dir), "ro") ELSE s
  BY <1>9 DEF Apply
<1>10. ASSUME opt.o = "xdir" PROVE Apply(s, opt, dir) = [s EXCEPT !.grant[PlaceOf(opt, dir)] = "none"]
  BY <1>10 DEF Apply
<1>11. ASSUME opt.o = "file" PROVE Apply(s, opt, dir) = [s EXCEPT !.file = @ \cup {PlaceOf(opt, dir)}]
  BY <1>11 DEF Apply
<1>12. ASSUME opt.o = "xfile" PROVE Apply(s, opt, dir) = [s EXCEPT !.file = @ \ {PlaceOf(opt, dir)}]
  BY <1>12 DEF Apply
<1>13. ASSUME opt.o = "unsetenv" PROVE Apply(s, opt, dir) = Unsetenv(s, opt.v)
  BY <1>13 DEF Apply
<1>14. ASSUME opt.o = "setenv" PROVE Apply(s, opt, dir) = Setenv(s, opt.v)
  BY <1>14 DEF Apply
<1>15. ASSUME opt.o \notin Known PROVE Apply(s, opt, dir) = s
  BY <1>15 DEF Apply, Known
<1> QED BY <1>1, <1>2, <1>3, <1>4, <1>5, <1>6, <1>7, <1>8, <1>9, <1>10, <1>11, <1>12, <1>13, <1>14, <1>15

\* What option o makes of the grant g of a place q that it names.
Regrant(g, o, q) ==
    IF o = "xdir" THEN "none"
    ELSE IF g # "none" THEN g
    ELSE IF o = "dir" THEN "rw"
    ELSE IF o = "dir!" THEN "mkdir"
    ELSE IF o = "rdir" \/ (o = "rdir?" /\ q \in Present) THEN "ro"
    ELSE "none"

\* The settings r after one option, field by field.
Becomes(s, opt, place, r) ==
    /\ r \in Settings
    /\ r.mode = IF opt.o = "mode" THEN opt.v ELSE s.mode
    /\ r.jail = IF opt.o = "jail" THEN opt.v ELSE s.jail
    /\ r.cwd = IF opt.o = "nocwd" THEN FALSE ELSE s.cwd
    /\ r.mask = IF opt.o = "mask" THEN s.mask \cup {opt.v}
                ELSE IF opt.o = "unmask" THEN s.mask \ {opt.v} ELSE s.mask
    /\ \A q \in GrantPath :
         r.grant[q] = IF q = place THEN Regrant(s.grant[q], opt.o, q) ELSE s.grant[q]
    /\ r.file = IF opt.o = "file" THEN s.file \cup {place}
                ELSE IF opt.o = "xfile" THEN s.file \ {place} ELSE s.file
    /\ opt.o = "setenv" /\ opt.v = "value" => r.setenv = "value"
    /\ opt.o = "unsetenv" => r.setenv = "none" /\ r.filter # {}
    /\ opt.o \notin {"setenv", "unsetenv"} => r.setenv = s.setenv /\ r.filter = s.filter

LEMMA ApplyBecomes ==
    ASSUME NEW s \in Settings, NEW opt, Fine(opt), NEW dir \in Bases
    PROVE  Becomes(s, opt, dir \o <<Dir>>, Apply(s, opt, dir))
<1> DEFINE q == dir \o <<Dir>>
           r == Apply(s, opt, dir)
<1>0. /\ s.mode \in Mode /\ s.jail \in Jail \cup {""} /\ s.cwd \in BOOLEAN
      /\ s.mask \in SUBSET STRING /\ s.grant \in [GrantPath -> {"none", "rw", "mkdir", "ro"}]
      /\ s.file \in SUBSET GrantPath /\ s.filter \in SUBSET STRING
      /\ s.setenv \in {"none", "value", "outer"}
  BY DEF Settings
<1>1. /\ q \in GrantPath /\ (opt.o \in DirOption => PlaceOf(opt, dir) = q)
      /\ opt.o # "mode" => opt.v \in STRING
  BY DEF Bases, GrantPath, PlaceOf, Fine
<1> SUFFICES Becomes(s, opt, q, r)
  OBVIOUS
<1> HIDE DEF q, r
<1>2. CASE opt.o = "mode"
  <2>1. r = [s EXCEPT !.mode = opt.v]
    BY <1>1, <1>2, ApplyIs DEF r
  <2>2. /\ r.mode = opt.v /\ r.jail = s.jail
        /\ r.cwd = s.cwd /\ r.mask = s.mask
        /\ r.grant = s.grant /\ r.file = s.file
        /\ r.filter = s.filter /\ r.setenv = s.setenv
    BY <2>1 DEF Settings
  <2>3. (opt.v) \in Mode
    BY <1>0, <1>1, <1>2 DEF Fine
  <2>4. r \in Settings
    BY <1>0, <2>1, <2>3 DEF Settings
  <2> QED BY <1>0, <1>1, <1>2, <2>2, <2>4 DEF Becomes, Regrant
<1>3. CASE opt.o = "jail"
  <2>1. r = [s EXCEPT !.jail = opt.v]
    BY <1>1, <1>3, ApplyIs DEF r
  <2>2. /\ r.mode = s.mode /\ r.jail = opt.v
        /\ r.cwd = s.cwd /\ r.mask = s.mask
        /\ r.grant = s.grant /\ r.file = s.file
        /\ r.filter = s.filter /\ r.setenv = s.setenv
    BY <2>1 DEF Settings
  <2>3. (opt.v) \in Jail \cup {""}
    BY <1>0, <1>1, <1>3 DEF Fine
  <2>4. r \in Settings
    BY <1>0, <2>1, <2>3 DEF Settings
  <2> QED BY <1>0, <1>1, <1>3, <2>2, <2>4 DEF Becomes, Regrant
<1>4. CASE opt.o = "nocwd"
  <2>1. r = [s EXCEPT !.cwd = FALSE]
    BY <1>1, <1>4, ApplyIs DEF r
  <2>2. /\ r.mode = s.mode /\ r.jail = s.jail
        /\ r.cwd = FALSE /\ r.mask = s.mask
        /\ r.grant = s.grant /\ r.file = s.file
        /\ r.filter = s.filter /\ r.setenv = s.setenv
    BY <2>1 DEF Settings
  <2>3. (FALSE) \in BOOLEAN
    BY <1>0, <1>1, <1>4
  <2>4. r \in Settings
    BY <1>0, <2>1, <2>3 DEF Settings
  <2> QED BY <1>0, <1>1, <1>4, <2>2, <2>4 DEF Becomes, Regrant
<1>5. CASE opt.o = "mask"
  <2>1. r = [s EXCEPT !.mask = s.mask \cup {opt.v}]
    BY <1>1, <1>5, ApplyIs DEF r, Mask
  <2>2. /\ r.mode = s.mode /\ r.jail = s.jail
        /\ r.cwd = s.cwd /\ r.mask = s.mask \cup {opt.v}
        /\ r.grant = s.grant /\ r.file = s.file
        /\ r.filter = s.filter /\ r.setenv = s.setenv
    BY <2>1 DEF Settings
  <2>3. (s.mask \cup {opt.v}) \in SUBSET STRING
    BY <1>0, <1>1, <1>5
  <2>4. r \in Settings
    BY <1>0, <2>1, <2>3 DEF Settings
  <2> QED BY <1>0, <1>1, <1>5, <2>2, <2>4 DEF Becomes, Regrant
<1>6. CASE opt.o = "unmask"
  <2>1. r = [s EXCEPT !.mask = s.mask \ {opt.v}]
    BY <1>1, <1>6, ApplyIs DEF r, Mask
  <2>2. /\ r.mode = s.mode /\ r.jail = s.jail
        /\ r.cwd = s.cwd /\ r.mask = s.mask \ {opt.v}
        /\ r.grant = s.grant /\ r.file = s.file
        /\ r.filter = s.filter /\ r.setenv = s.setenv
    BY <2>1 DEF Settings
  <2>3. (s.mask \ {opt.v}) \in SUBSET STRING
    BY <1>0, <1>1, <1>6
  <2>4. r \in Settings
    BY <1>0, <2>1, <2>3 DEF Settings
  <2> QED BY <1>0, <1>1, <1>6, <2>2, <2>4 DEF Becomes, Regrant
<1>7. CASE opt.o = "dir" /\ s.grant[q] = "none"
  <2>1. r = [s EXCEPT !.grant = [s.grant EXCEPT ![q] = "rw"]]
    BY <1>1, <1>7, ApplyIs DEF r, Grant, DirOption
  <2>2. /\ r.mode = s.mode /\ r.jail = s.jail
        /\ r.cwd = s.cwd /\ r.mask = s.mask
        /\ r.grant = [s.grant EXCEPT ![q] = "rw"] /\ r.file = s.file
        /\ r.filter = s.filter /\ r.setenv = s.setenv
    BY <2>1 DEF Settings
  <2>3. ([s.grant EXCEPT ![q] = "rw"]) \in [GrantPath -> {"none", "rw", "mkdir", "ro"}]
    BY <1>0, <1>1, <1>7
  <2>4. r \in Settings
    BY <1>0, <2>1, <2>3 DEF Settings
  <2> QED BY <1>0, <1>1, <1>7, <2>2, <2>4 DEF Becomes, Regrant
<1>8. CASE opt.o = "dir!" /\ s.grant[q] = "none"
  <2>1. r = [s EXCEPT !.grant = [s.grant EXCEPT ![q] = "mkdir"]]
    BY <1>1, <1>8, ApplyIs DEF r, Grant, DirOption
  <2>2. /\ r.mode = s.mode /\ r.jail = s.jail
        /\ r.cwd = s.cwd /\ r.mask = s.mask
        /\ r.grant = [s.grant EXCEPT ![q] = "mkdir"] /\ r.file = s.file
        /\ r.filter = s.filter /\ r.setenv = s.setenv
    BY <2>1 DEF Settings
  <2>3. ([s.grant EXCEPT ![q] = "mkdir"]) \in [GrantPath -> {"none", "rw", "mkdir", "ro"}]
    BY <1>0, <1>1, <1>8
  <2>4. r \in Settings
    BY <1>0, <2>1, <2>3 DEF Settings
  <2> QED BY <1>0, <1>1, <1>8, <2>2, <2>4 DEF Becomes, Regrant
<1>9. CASE opt.o = "rdir" /\ s.grant[q] = "none"
  <2>1. r = [s EXCEPT !.grant = [s.grant EXCEPT ![q] = "ro"]]
    BY <1>1, <1>9, ApplyIs DEF r, Grant, DirOption
  <2>2. /\ r.mode = s.mode /\ r.jail = s.jail
        /\ r.cwd = s.cwd /\ r.mask = s.mask
        /\ r.grant = [s.grant EXCEPT ![q] = "ro"] /\ r.file = s.file
        /\ r.filter = s.filter /\ r.setenv = s.setenv
    BY <2>1 DEF Settings
  <2>3. ([s.grant EXCEPT ![q] = "ro"]) \in [GrantPath -> {"none", "rw", "mkdir", "ro"}]
    BY <1>0, <1>1, <1>9
  <2>4. r \in Settings
    BY <1>0, <2>1, <2>3 DEF Settings
  <2> QED BY <1>0, <1>1, <1>9, <2>2, <2>4 DEF Becomes, Regrant
<1>10. CASE opt.o = "rdir?" /\ s.grant[q] = "none" /\ q \in Present
  <2>1. r = [s EXCEPT !.grant = [s.grant EXCEPT ![q] = "ro"]]
    BY <1>1, <1>10, ApplyIs DEF r, Grant, DirOption
  <2>2. /\ r.mode = s.mode /\ r.jail = s.jail
        /\ r.cwd = s.cwd /\ r.mask = s.mask
        /\ r.grant = [s.grant EXCEPT ![q] = "ro"] /\ r.file = s.file
        /\ r.filter = s.filter /\ r.setenv = s.setenv
    BY <2>1 DEF Settings
  <2>3. ([s.grant EXCEPT ![q] = "ro"]) \in [GrantPath -> {"none", "rw", "mkdir", "ro"}]
    BY <1>0, <1>1, <1>10
  <2>4. r \in Settings
    BY <1>0, <2>1, <2>3 DEF Settings
  <2> QED BY <1>0, <1>1, <1>10, <2>2, <2>4 DEF Becomes, Regrant
<1>11. CASE \/ opt.o \in {"dir", "dir!", "rdir", "rdir?"} /\ s.grant[q] # "none"
            \/ opt.o = "rdir?" /\ q \notin Present
            \/ opt.o \notin Known
  <2>1. r = s
    BY <1>1, <1>11, ApplyIs DEF r, Grant, DirOption
  <2>2. /\ r.mode = s.mode /\ r.jail = s.jail
        /\ r.cwd = s.cwd /\ r.mask = s.mask
        /\ r.grant = s.grant /\ r.file = s.file
        /\ r.filter = s.filter /\ r.setenv = s.setenv
    BY <2>1 DEF Settings
  <2>4. r \in Settings
    BY <1>0, <2>1 DEF Settings
  <2> QED BY <1>0, <1>1, <1>11, <2>2, <2>4 DEF Becomes, Regrant, Known
<1>12. CASE opt.o = "xdir"
  <2>1. r = [s EXCEPT !.grant = [s.grant EXCEPT ![q] = "none"]]
    BY <1>1, <1>12, ApplyIs DEF r, DirOption
  <2>2. /\ r.mode = s.mode /\ r.jail = s.jail
        /\ r.cwd = s.cwd /\ r.mask = s.mask
        /\ r.grant = [s.grant EXCEPT ![q] = "none"] /\ r.file = s.file
        /\ r.filter = s.filter /\ r.setenv = s.setenv
    BY <2>1 DEF Settings
  <2>3. ([s.grant EXCEPT ![q] = "none"]) \in [GrantPath -> {"none", "rw", "mkdir", "ro"}]
    BY <1>0, <1>1, <1>12
  <2>4. r \in Settings
    BY <1>0, <2>1, <2>3 DEF Settings
  <2> QED BY <1>0, <1>1, <1>12, <2>2, <2>4 DEF Becomes, Regrant
<1>13. CASE opt.o = "file"
  <2>1. r = [s EXCEPT !.file = s.file \cup {q}]
    BY <1>1, <1>13, ApplyIs DEF r, DirOption
  <2>2. /\ r.mode = s.mode /\ r.jail = s.jail
        /\ r.cwd = s.cwd /\ r.mask = s.mask
        /\ r.grant = s.grant /\ r.file = s.file \cup {q}
        /\ r.filter = s.filter /\ r.setenv = s.setenv
    BY <2>1 DEF Settings
  <2>3. (s.file \cup {q}) \in SUBSET GrantPath
    BY <1>0, <1>1, <1>13
  <2>4. r \in Settings
    BY <1>0, <2>1, <2>3 DEF Settings
  <2> QED BY <1>0, <1>1, <1>13, <2>2, <2>4 DEF Becomes, Regrant
<1>14. CASE opt.o = "xfile"
  <2>1. r = [s EXCEPT !.file = s.file \ {q}]
    BY <1>1, <1>14, ApplyIs DEF r, DirOption
  <2>2. /\ r.mode = s.mode /\ r.jail = s.jail
        /\ r.cwd = s.cwd /\ r.mask = s.mask
        /\ r.grant = s.grant /\ r.file = s.file \ {q}
        /\ r.filter = s.filter /\ r.setenv = s.setenv
    BY <2>1 DEF Settings
  <2>3. (s.file \ {q}) \in SUBSET GrantPath
    BY <1>0, <1>1, <1>14
  <2>4. r \in Settings
    BY <1>0, <2>1, <2>3 DEF Settings
  <2> QED BY <1>0, <1>1, <1>14, <2>2, <2>4 DEF Becomes, Regrant
<1>15. CASE opt.o = "unsetenv"
  <2>0. r = Unsetenv(s, opt.v)
    BY <1>15, ApplyIs DEF r
  <2>1. r = [s EXCEPT !.setenv = "none", !.filter = s.filter \cup {opt.v}]
    BY <2>0 DEF Unsetenv, Settings
  <2>2. /\ r.mode = s.mode /\ r.jail = s.jail
        /\ r.cwd = s.cwd /\ r.mask = s.mask
        /\ r.grant = s.grant /\ r.file = s.file
        /\ r.filter = s.filter \cup {opt.v} /\ r.setenv = "none"
    BY <2>1 DEF Settings
  <2>3. ("none") \in {"none", "value", "outer"} /\ (s.filter \cup {opt.v}) \in SUBSET STRING
    BY <1>0, <1>1, <1>15
  <2>4. r \in Settings
    BY <1>0, <2>1, <2>3 DEF Settings
  <2> QED BY <1>0, <1>1, <1>15, <2>2, <2>4 DEF Becomes, Regrant
<1>16. CASE opt.o = "setenv" /\ opt.v = "value"
  <2>1. r = [s EXCEPT !.setenv = "value"]
    BY <1>1, <1>16, ApplyIs DEF r, Setenv
  <2>2. /\ r.mode = s.mode /\ r.jail = s.jail
        /\ r.cwd = s.cwd /\ r.mask = s.mask
        /\ r.grant = s.grant /\ r.file = s.file
        /\ r.filter = s.filter /\ r.setenv = "value"
    BY <2>1 DEF Settings
  <2>3. ("value") \in {"none", "value", "outer"}
    BY <1>0, <1>1, <1>16
  <2>4. r \in Settings
    BY <1>0, <2>1, <2>3 DEF Settings
  <2> QED BY <1>0, <1>1, <1>16, <2>2, <2>4 DEF Becomes, Regrant
<1>17. CASE opt.o = "setenv" /\ opt.v # "value" /\ "name" \in s.filter
  <2>1. r = [s EXCEPT !.filter = s.filter \ {"name"}]
    BY <1>1, <1>17, ApplyIs DEF r, Setenv
  <2>2. /\ r.mode = s.mode /\ r.jail = s.jail
        /\ r.cwd = s.cwd /\ r.mask = s.mask
        /\ r.grant = s.grant /\ r.file = s.file
        /\ r.filter = s.filter \ {"name"} /\ r.setenv = s.setenv
    BY <2>1 DEF Settings
  <2>3. (s.filter \ {"name"}) \in SUBSET STRING
    BY <1>0, <1>1, <1>17
  <2>4. r \in Settings
    BY <1>0, <2>1, <2>3 DEF Settings
  <2> QED BY <1>0, <1>1, <1>17, <2>2, <2>4 DEF Becomes, Regrant
<1>18. CASE opt.o = "setenv" /\ opt.v # "value" /\ "name" \notin s.filter /\ s.filter # {}
  <2>1. r = [s EXCEPT !.setenv = "outer"]
    BY <1>1, <1>18, ApplyIs DEF r, Setenv
  <2>2. /\ r.mode = s.mode /\ r.jail = s.jail
        /\ r.cwd = s.cwd /\ r.mask = s.mask
        /\ r.grant = s.grant /\ r.file = s.file
        /\ r.filter = s.filter /\ r.setenv = "outer"
    BY <2>1 DEF Settings
  <2>3. ("outer") \in {"none", "value", "outer"}
    BY <1>0, <1>1, <1>18
  <2>4. r \in Settings
    BY <1>0, <2>1, <2>3 DEF Settings
  <2> QED BY <1>0, <1>1, <1>18, <2>2, <2>4 DEF Becomes, Regrant
<1>19. CASE opt.o = "setenv" /\ opt.v # "value" /\ s.filter = {}
  <2>1. r = s
    BY <1>1, <1>19, ApplyIs DEF r, Setenv
  <2>2. /\ r.mode = s.mode /\ r.jail = s.jail
        /\ r.cwd = s.cwd /\ r.mask = s.mask
        /\ r.grant = s.grant /\ r.file = s.file
        /\ r.filter = s.filter /\ r.setenv = s.setenv
    BY <2>1 DEF Settings
  <2>4. r \in Settings
    BY <1>0, <2>1 DEF Settings
  <2> QED BY <1>0, <1>1, <1>19, <2>2, <2>4 DEF Becomes, Regrant
<1> QED
  <2>1. CASE opt.o \in {"dir", "dir!", "rdir", "rdir?"}
    BY <2>1, <1>7, <1>8, <1>9, <1>10, <1>11
  <2>2. CASE opt.o = "setenv"
    BY <2>2, <1>16, <1>17, <1>18, <1>19
  <2> QED BY <2>1, <2>2, <1>2, <1>3, <1>4, <1>5, <1>6, <1>11, <1>12, <1>13, <1>14, <1>15 DEF Known

-----------------------------------------------------------------------------
(* parse_argspan. *)

\* Among the first n options there is one of os, one about the mask m.
Has(opts, n, os) == \E j \in 1..n : opts[j].o \in os
HasMask(opts, n, m) == \E j \in 1..n : opts[j].o \in {"mask", "unmask"} /\ opts[j].v = m

LEMMA HasNext ==
    ASSUME NEW opts, NEW n \in Nat \ {0}
    PROVE  /\ \A os : Has(opts, n, os) <=> Has(opts, n - 1, os) \/ opts[n].o \in os
           /\ \A m : HasMask(opts, n, m) <=>
                 \/ HasMask(opts, n - 1, m)
                 \/ opts[n].o \in {"mask", "unmask"} /\ opts[n].v = m
<1>1. 1..n = (1..(n - 1)) \cup {n}
  OBVIOUS
<1> QED BY <1>1 DEF Has, HasMask

LEMMA HasNone ==
    ASSUME NEW opts
    PROVE  (\A os : ~Has(opts, 0, os)) /\ (\A m : ~HasMask(opts, 0, m))
BY DEF Has, HasMask

AllFine(opts) == opts \in Seq(Option) /\ \A n \in 1..Len(opts) : Fine(opts[n])

LEMMA ParseBecomes ==
    ASSUME NEW s \in Settings, NEW opts, AllFine(opts), NEW dir \in Bases
    PROVE  /\ Len(opts) \in Nat
           /\ parse(s, opts, dir)[0] = s
           /\ \A n \in 0..Len(opts) : parse(s, opts, dir)[n] \in Settings
           /\ \A n \in 1..Len(opts) :
                Becomes(parse(s, opts, dir)[n - 1], opts[n], dir \o <<Dir>>, parse(s, opts, dir)[n])
<1> DEFINE P == parse(s, opts, dir)
           S == {n \in 0..Len(opts) : P[n] \in Settings}
<1>0. Len(opts) \in Nat
  BY LenProperties DEF AllFine
<1>1. P = [n \in 0..Len(opts) |-> IF n = 0 THEN s ELSE Apply(P[n - 1], opts[n], dir)]
  BY ParseIs DEF AllFine
<1> HIDE DEF P
<1>2. P[0] = s
  BY <1>0, <1>1
<1>3. \A n \in 1..Len(opts) : P[n] = Apply(P[n - 1], opts[n], dir)
  BY <1>0, <1>1
<1>4. ASSUME NEW n \in 1..Len(opts), P[n - 1] \in Settings
      PROVE  Becomes(P[n - 1], opts[n], dir \o <<Dir>>, P[n])
  BY <1>3, <1>4, ApplyBecomes DEF AllFine
<1>5. 0..Len(opts) \subseteq S
  <2>1. 0 \in S
    BY <1>0, <1>2
  <2>2. ASSUME NEW n \in 1..Len(opts), n - 1 \in S PROVE n \in S
    <3>1. Becomes(P[n - 1], opts[n], dir \o <<Dir>>, P[n])
      BY <1>4, <2>2
    <3>2. P[n] \in Settings
      BY <3>1 DEF Becomes
    <3> QED BY <1>0, <3>2
  <2> QED BY <1>0, <2>1, <2>2, Induct
<1>6. \A n \in 1..Len(opts) : n - 1 \in 0..Len(opts)
  BY <1>0
<1> QED BY <1>0, <1>2, <1>4, <1>5, <1>6 DEF P

\* What two runs over the same options agree on: what they agreed on before,
\* and what an option has settled.
LEMMA ParsesAgree ==
    ASSUME NEW s \in Settings, NEW r \in Settings, NEW opts, AllFine(opts), NEW dir \in Bases,
           NEW n \in 0..Len(opts)
    PROVE  LET p == parse(s, opts, dir)[n]
               q == parse(r, opts, dir)[n]
               g == dir \o <<Dir>>
           IN  /\ s.mode = r.mode \/ Has(opts, n, {"mode"}) => p.mode = q.mode
               /\ s.jail = r.jail \/ Has(opts, n, {"jail"}) => p.jail = q.jail
               /\ s.cwd = r.cwd \/ Has(opts, n, {"nocwd"}) => p.cwd = q.cwd
               /\ \A m : (m \in s.mask <=> m \in r.mask) \/ HasMask(opts, n, m) =>
                         (m \in p.mask <=> m \in q.mask)
               /\ s.grant[g] = r.grant[g] \/ Has(opts, n, {"xdir"}) => p.grant[g] = q.grant[g]
<1> DEFINE P == parse(s, opts, dir)
           Q == parse(r, opts, dir)
           g == dir \o <<Dir>>
           Agree(k) ==
               /\ s.mode = r.mode \/ Has(opts, k, {"mode"}) => P[k].mode = Q[k].mode
               /\ s.jail = r.jail \/ Has(opts, k, {"jail"}) => P[k].jail = Q[k].jail
               /\ s.cwd = r.cwd \/ Has(opts, k, {"nocwd"}) => P[k].cwd = Q[k].cwd
               /\ \A m : (m \in s.mask <=> m \in r.mask) \/ HasMask(opts, k, m) =>
                         (m \in P[k].mask <=> m \in Q[k].mask)
               /\ s.grant[g] = r.grant[g] \/ Has(opts, k, {"xdir"}) => P[k].grant[g] = Q[k].grant[g]
           S == {k \in 0..Len(opts) : Agree(k)}
<1>1. /\ Len(opts) \in Nat /\ P[0] = s /\ Q[0] = r
      /\ \A k \in 1..Len(opts) : /\ Becomes(P[k - 1], opts[k], g, P[k])
                                 /\ Becomes(Q[k - 1], opts[k], g, Q[k])
  BY ParseBecomes
<1>2. g \in GrantPath
  BY DEF GrantPath, Bases
<1> HIDE DEF P, Q, g
<1>3. 0 \in S
  BY <1>1, HasNone
<1>4. ASSUME NEW k \in 1..Len(opts), k - 1 \in S PROVE k \in S
  <2>0. k \in Nat \ {0}
    BY <1>1
  <2>1. /\ \A os : Has(opts, k, os) <=> Has(opts, k - 1, os) \/ opts[k].o \in os
        /\ \A m : HasMask(opts, k, m) <=>
              \/ HasMask(opts, k - 1, m)
              \/ opts[k].o \in {"mask", "unmask"} /\ opts[k].v = m
    BY <2>0, HasNext
  <2>2. Becomes(P[k - 1], opts[k], g, P[k]) /\ Becomes(Q[k - 1], opts[k], g, Q[k])
    BY <1>1
  <2>3. Agree(k - 1)
    BY <1>4
  <2>4. s.mode = r.mode \/ Has(opts, k, {"mode"}) => P[k].mode = Q[k].mode
    BY <2>1, <2>2, <2>3 DEF Becomes
  <2>5. s.jail = r.jail \/ Has(opts, k, {"jail"}) => P[k].jail = Q[k].jail
    BY <2>1, <2>2, <2>3 DEF Becomes
  <2>6. s.cwd = r.cwd \/ Has(opts, k, {"nocwd"}) => P[k].cwd = Q[k].cwd
    BY <2>1, <2>2, <2>3 DEF Becomes
  <2>7. ASSUME NEW m, (m \in s.mask <=> m \in r.mask) \/ HasMask(opts, k, m)
        PROVE  m \in P[k].mask <=> m \in Q[k].mask
    <3>1. \/ opts[k].o \in {"mask", "unmask"} /\ opts[k].v = m
          \/ m \in P[k - 1].mask <=> m \in Q[k - 1].mask
      BY <2>1, <2>3, <2>7
    <3>2. /\ P[k].mask = IF opts[k].o = "mask" THEN P[k - 1].mask \cup {opts[k].v}
                         ELSE IF opts[k].o = "unmask" THEN P[k - 1].mask \ {opts[k].v}
                         ELSE P[k - 1].mask
          /\ Q[k].mask = IF opts[k].o = "mask" THEN Q[k - 1].mask \cup {opts[k].v}
                         ELSE IF opts[k].o = "unmask" THEN Q[k - 1].mask \ {opts[k].v}
                         ELSE Q[k - 1].mask
      BY <2>2 DEF Becomes
    <3> QED BY <3>1, <3>2
  <2>8. s.grant[g] = r.grant[g] \/ Has(opts, k, {"xdir"}) => P[k].grant[g] = Q[k].grant[g]
    <3>1. /\ P[k].grant[g] = Regrant(P[k - 1].grant[g], opts[k].o, g)
          /\ Q[k].grant[g] = Regrant(Q[k - 1].grant[g], opts[k].o, g)
      BY <1>2, <2>2 DEF Becomes
    <3> QED BY <2>1, <2>3, <3>1 DEF Regrant
  <2> QED BY <1>1, <2>4, <2>5, <2>6, <2>7, <2>8
<1>5. 0..Len(opts) \subseteq S
  <2> HIDE DEF S
  <2> QED BY <1>1, <1>3, <1>4, Induct
<1>6. Agree(n)
  BY <1>5
<1> QED BY <1>6 DEF P, Q, g

\* What one run leaves alone, and what an option is good for by itself.
LEMMA ParseKeeps ==
    ASSUME NEW s \in Settings, NEW opts, AllFine(opts), NEW dir \in Bases, NEW n \in 0..Len(opts)
    PROVE  LET p == parse(s, opts, dir)[n]
               g == dir \o <<Dir>>
           IN  /\ ~Has(opts, n, {"mode"}) => p.mode = s.mode
               /\ ~Has(opts, n, {"jail"}) => p.jail = s.jail
               /\ ~Has(opts, n, {"nocwd"}) => p.cwd = s.cwd
               /\ Has(opts, n, {"nocwd"}) => ~p.cwd
               /\ \A m : ~HasMask(opts, n, m) => (m \in p.mask <=> m \in s.mask)
               /\ ~Has(opts, n, {"xdir"}) =>
                    /\ s.grant[g] # "none" => p.grant[g] = s.grant[g]
                    /\ Has(opts, n, {"dir", "dir!", "rdir"}) => p.grant[g] # "none"
<1> DEFINE P == parse(s, opts, dir)
           g == dir \o <<Dir>>
           Keep(k) ==
               /\ ~Has(opts, k, {"mode"}) => P[k].mode = s.mode
               /\ ~Has(opts, k, {"jail"}) => P[k].jail = s.jail
               /\ ~Has(opts, k, {"nocwd"}) => P[k].cwd = s.cwd
               /\ Has(opts, k, {"nocwd"}) => ~P[k].cwd
               /\ \A m : ~HasMask(opts, k, m) => (m \in P[k].mask <=> m \in s.mask)
               /\ ~Has(opts, k, {"xdir"}) =>
                    /\ s.grant[g] # "none" => P[k].grant[g] = s.grant[g]
                    /\ Has(opts, k, {"dir", "dir!", "rdir"}) => P[k].grant[g] # "none"
           S == {k \in 0..Len(opts) : Keep(k)}
<1>1. /\ Len(opts) \in Nat /\ P[0] = s
      /\ \A k \in 1..Len(opts) : Becomes(P[k - 1], opts[k], g, P[k])
  BY ParseBecomes
<1>2. g \in GrantPath
  BY DEF GrantPath, Bases
<1> HIDE DEF P, g
<1>3. 0 \in S
  BY <1>1, HasNone
<1>4. ASSUME NEW k \in 1..Len(opts), k - 1 \in S PROVE k \in S
  <2>0. k \in Nat \ {0}
    BY <1>1
  <2>1. /\ \A os : Has(opts, k, os) <=> Has(opts, k - 1, os) \/ opts[k].o \in os
        /\ \A m : HasMask(opts, k, m) <=>
              \/ HasMask(opts, k - 1, m)
              \/ opts[k].o \in {"mask", "unmask"} /\ opts[k].v = m
    BY <2>0, HasNext
  <2>2. Becomes(P[k - 1], opts[k], g, P[k])
    BY <1>1
  <2>3. Keep(k - 1)
    BY <1>4
  <2>4. /\ ~Has(opts, k, {"mode"}) => P[k].mode = s.mode
        /\ ~Has(opts, k, {"jail"}) => P[k].jail = s.jail
    BY <2>1, <2>2, <2>3 DEF Becomes
  <2>5. /\ ~Has(opts, k, {"nocwd"}) => P[k].cwd = s.cwd
        /\ Has(opts, k, {"nocwd"}) => ~P[k].cwd
    BY <2>1, <2>2, <2>3 DEF Becomes
  <2>6. ASSUME NEW m, ~HasMask(opts, k, m) PROVE m \in P[k].mask <=> m \in s.mask
    <3>1. /\ ~(opts[k].o \in {"mask", "unmask"} /\ opts[k].v = m)
          /\ m \in P[k - 1].mask <=> m \in s.mask
      BY <2>1, <2>3, <2>6
    <3>2. P[k].mask = IF opts[k].o = "mask" THEN P[k - 1].mask \cup {opts[k].v}
                      ELSE IF opts[k].o = "unmask" THEN P[k - 1].mask \ {opts[k].v}
                      ELSE P[k - 1].mask
      BY <2>2 DEF Becomes
    <3> QED BY <3>1, <3>2
  <2>7. ~Has(opts, k, {"xdir"}) =>
          /\ s.grant[g] # "none" => P[k].grant[g] = s.grant[g]
          /\ Has(opts, k, {"dir", "dir!", "rdir"}) => P[k].grant[g] # "none"
    <3>1. P[k].grant[g] = Regrant(P[k - 1].grant[g], opts[k].o, g)
      BY <1>2, <2>2 DEF Becomes
    <3> QED BY <2>1, <2>3, <3>1 DEF Regrant
  <2> QED BY <1>1, <2>4, <2>5, <2>6, <2>7
<1>5. 0..Len(opts) \subseteq S
  <2> HIDE DEF S
  <2> QED BY <1>1, <1>3, <1>4, Induct
<1>6. Keep(n)
  BY <1>5
<1> QED BY <1>6 DEF P, g

\* The last option about the environment decides.
LEMMA EnvironmentStays ==
    ASSUME NEW s \in Settings, NEW opts, AllFine(opts), NEW dir \in Bases, NEW e \in 1..Len(opts),
           \A j \in 1..Len(opts) : opts[j].o \in {"setenv", "unsetenv"} => j <= e
    PROVE  LET p == parse(s, opts, dir)[Len(opts)]
           IN  /\ opts[e].o = "setenv" /\ opts[e].v = "value" => p.setenv = "value"
               /\ opts[e].o = "unsetenv" => p.setenv = "none" /\ p.filter # {}
<1> DEFINE P == parse(s, opts, dir)
           Word(k) == /\ opts[e].o = "setenv" /\ opts[e].v = "value" => P[k].setenv = "value"
                      /\ opts[e].o = "unsetenv" => P[k].setenv = "none" /\ P[k].filter # {}
           S == {k \in 0..Len(opts) : k >= e => Word(k)}
<1>1. /\ Len(opts) \in Nat
      /\ \A k \in 1..Len(opts) : Becomes(P[k - 1], opts[k], dir \o <<Dir>>, P[k])
  BY ParseBecomes
<1> HIDE DEF P
<1>2. 0 \in S
  BY <1>1
<1>3. ASSUME NEW k \in 1..Len(opts), k - 1 \in S PROVE k \in S
  <2>1. /\ opts[k].o = "setenv" /\ opts[k].v = "value" => P[k].setenv = "value"
        /\ opts[k].o = "unsetenv" => P[k].setenv = "none" /\ P[k].filter # {}
        /\ opts[k].o \notin {"setenv", "unsetenv"} =>
             P[k].setenv = P[k - 1].setenv /\ P[k].filter = P[k - 1].filter
    BY <1>1 DEF Becomes
  <2>2. CASE k = e
    BY <1>1, <2>1, <2>2
  <2>3. CASE k > e
    <3>1. opts[k].o \notin {"setenv", "unsetenv"} /\ Word(k - 1)
      BY <1>1, <1>3, <2>3
    <3> QED BY <1>1, <2>1, <3>1
  <2> QED BY <1>1, <2>2, <2>3
<1>4. 0..Len(opts) \subseteq S
  <2> HIDE DEF S
  <2> QED BY <1>1, <1>2, <1>3, Induct
<1>5. Word(Len(opts))
  BY <1>1, <1>4
<1> QED BY <1>5 DEF P

\* The last of file and xfile decides.
LEMMA FileStays ==
    ASSUME NEW s \in Settings, NEW opts, AllFine(opts), NEW dir \in Bases, NEW e \in 1..Len(opts),
           opts[e].o \in {"file", "xfile"},
           \A j \in 1..Len(opts) : opts[j].o \in {"file", "xfile"} => j <= e
    PROVE  dir \o <<Dir>> \in parse(s, opts, dir)[Len(opts)].file <=> opts[e].o = "file"
<1> DEFINE P == parse(s, opts, dir)
           g == dir \o <<Dir>>
           Word(k) == g \in P[k].file <=> opts[e].o = "file"
           S == {k \in 0..Len(opts) : k >= e => Word(k)}
<1>1. /\ Len(opts) \in Nat
      /\ \A k \in 1..Len(opts) : Becomes(P[k - 1], opts[k], g, P[k])
  BY ParseBecomes
<1> HIDE DEF P, g
<1>2. 0 \in S
  BY <1>1
<1>3. ASSUME NEW k \in 1..Len(opts), k - 1 \in S PROVE k \in S
  <2>1. P[k].file = IF opts[k].o = "file" THEN P[k - 1].file \cup {g}
                    ELSE IF opts[k].o = "xfile" THEN P[k - 1].file \ {g} ELSE P[k - 1].file
    BY <1>1 DEF Becomes
  <2>2. CASE k = e
    <3>1. Word(k)
      BY <2>1, <2>2
    <3> QED BY <1>1, <3>1
  <2>3. CASE k > e
    <3>1. opts[k].o \notin {"file", "xfile"} /\ Word(k - 1)
      BY <1>1, <1>3, <2>3
    <3> QED BY <1>1, <2>1, <3>1
  <2> QED BY <1>1, <2>2, <2>3
<1>4. 0..Len(opts) \subseteq S
  <2> HIDE DEF S
  <2> QED BY <1>1, <1>2, <1>3, Induct
<1>5. Word(Len(opts))
  BY <1>1, <1>4
<1> QED BY <1>5 DEF P, g

\* LastOf is what it says.
LEMMA LastOfIs ==
    ASSUME NEW n \in Nat, NEW I, I \subseteq 1..n, I # {}
    PROVE  LastOf(I) \in I /\ \A j \in I : j <= LastOf(I)
<1> DEFINE D == {n - i : i \in I}
<1>1. D \subseteq Nat /\ D # {}
  OBVIOUS
<1>2. PICK d \in D : \A c \in D : d <= c
  BY <1>1, Least
<1>3. PICK i \in I : d = n - i
  BY <1>2
<1>4. ASSUME NEW j \in I PROVE j <= i
  <2>1. n - j \in D
    OBVIOUS
  <2>2. n - i <= n - j
    BY <1>2, <1>3, <2>1
  <2>3. i \in Nat /\ j \in Nat
    OBVIOUS
  <2> QED BY <2>2, <2>3
<1>5. \E k \in I : \A j \in I : j <= k
  BY <1>4
<1> QED BY <1>5 DEF LastOf

-----------------------------------------------------------------------------
(* What holds of an invocation in every state. *)

LEMMA InvocationFine ==
    ASSUME inv \in Invocation
    PROVE  /\ AllFine(argv) /\ Len(argv) \in Nat
           /\ cwd \in Bases /\ Home \in Bases
           /\ \A opt \in inv.line \cup {Opt("mode", m) : m \in Mode} : Fine(opt)
<1>1. /\ argv \in Seq(Option) /\ inv.line \subseteq Option
      /\ \A opt \in inv.line \cup {argv[n] : n \in 1..Len(argv)} :
            /\ opt.o = "mode" => opt.v \in Mode
            /\ opt.o = "jail" => opt.v \in Jail
            /\ opt.o \in DirOption => opt.v = Dir
  BY InvocationAssumption DEF argv
<1>2. Len(argv) \in Nat /\ \A n \in 1..Len(argv) : argv[n] \in Option
  BY <1>1, LenProperties, ElementOfSeq
<1>3. AllFine(argv)
  BY <1>1, <1>2 DEF AllFine, Fine, Option
<1>4. \A opt \in inv.line : Fine(opt)
  BY <1>1 DEF Fine, Option
<1>5. ASSUME NEW m \in Mode PROVE Fine(Opt("mode", m))
  <2>1. Opt("mode", m).o = "mode" /\ Opt("mode", m).v = m
    BY DEF Opt
  <2> QED BY <2>1 DEF Fine, DirOption
<1> QED BY <1>2, <1>3, <1>4, <1>5 DEF Bases, cwd

LEMMA SaidIs ==
    ASSUME NEW os
    PROVE  Said(os) # {} <=> Has(argv, Len(argv), os)
BY DEF Said, Has

LEMMA SaidOfIs ==
    ASSUME NEW m
    PROVE  SaidOf(m) # {} <=> HasMask(argv, Len(argv), m)
BY DEF SaidOf, Said, HasMask

\* Outside of files names are taken from the current directory, in a file
\* from the home directory.
LEMMA BaseIs ==
    ASSUME TypeInv, Nesting, pc # "error"
    PROVE  /\ pc \notin {"inconf", "injail"} => ~inFile /\ base = cwd
           /\ pc \in {"inconf", "injail"} => inFile /\ base = Home
BY DEF TypeInv, Nesting, base

LEMMA DefaultType == Default \in Settings
BY ConfAssumption DEF Default, Settings, Mode

-----------------------------------------------------------------------------
(* Each step keeps the invariant. *)

LEMMA InitInv == Init => Inv
<1> SUFFICES ASSUME Init PROVE Inv
  OBVIOUS
<1>1. TypeInv
  <2>1. jailFile \in [Jail -> {"none", "user"} \cup Mode]
    BY DEF Init
  <2>2. stack \in Seq(Reading)
    BY EmptySeq DEF Init
  <2> QED BY <2>1, <2>2, DefaultType DEF Init, TypeInv
<1>2. Nesting
  <2>1. 1..Len(stack) = {} /\ Len(stack) = 0
    BY DEF Init
  <2> QED BY <2>1, FS_EmptySet DEF Init, Nesting
<1>3. Agreeing /\ Parsed /\ Granting /\ CommandLineWins
  BY DEF Init, Agreeing, Parsed, Granting, CommandLineWins
<1> QED BY <1>1, <1>2, <1>3 DEF Inv

\* A handler that throws ends the invocation.
LEMMA FailInv ==
    ASSUME Inv, Fail, UNCHANGED <<stack, loop, inFile>>
    PROVE  Inv'
<1>1. TypeInv'
  BY DEF Inv, TypeInv, Fail
<1>2. Nesting' /\ Parsed' /\ Granting' /\ CommandLineWins'
  BY DEF Fail, Nesting, Parsed, Granting, CommandLineWins
<1>3. Agreeing'
  BY DEF Inv, Agreeing, Fail, Said, SaidOf, argv
<1> QED BY <1>1, <1>2, <1>3 DEF Inv

\* The settings after a pass over the command line.
After == parse(set, argv, cwd)[Len(argv)]

LEMMA PassSets ==
    ASSUME Inv, pc \in {"argv1", "argv2", "argv3"}, set' = applied(set, argv),
           UNCHANGED <<inv, jailFile, ref, heard, stack, loop, inFile>>, pc' # "error"
    PROVE  set' = After /\ After \in Settings
<1>1. base = cwd
  BY BaseIs DEF Inv
<1>2. \A n \in 0..Len(argv) : parse(set, argv, cwd)[n] \in Settings
  BY InvocationFine, ParseBecomes DEF Inv, TypeInv
<1> QED BY <1>1, <1>2, InvocationFine DEF applied, After, Inv, TypeInv

LEMMA PassInv ==
    ASSUME NEW from, NEW to, Inv, Pass(from, to),
           \/ from = "argv1" /\ to = "conf"
           \/ from = "argv2" /\ to = "dotjail"
           \/ from = "argv3" /\ to = "exec"
    PROVE  Inv'
<1>1. CASE \E i \in 1..Len(argv) : Refused(argv[i], base, FALSE)
  BY <1>1, FailInv DEF Pass
<1>2. CASE ~\E i \in 1..Len(argv) : Refused(argv[i], base, FALSE)
  <2>0. /\ pc = from /\ pc' = to /\ set' = applied(set, argv)
        /\ UNCHANGED <<inv, jailFile, ref, heard, stack, loop, inFile, total>>
    BY <1>2 DEF Pass
  <2>1. set' = After /\ After \in Settings
    BY <2>0, PassSets
  <2>2. /\ AllFine(argv) /\ Len(argv) \in Nat /\ Len(argv) \in 0..Len(argv)
        /\ cwd \in Bases /\ set \in Settings /\ ref \in Settings /\ inv' = inv
    BY <2>0, InvocationFine DEF Inv, TypeInv
  <2>3. TypeInv'
    BY <2>0, <2>1 DEF Inv, TypeInv
  <2>4. Nesting'
    BY <2>0 DEF Inv, Nesting
  <2>5. Agreeing'
    <3>1. /\ ~Has(argv, Len(argv), {"mode"}) => After.mode = set.mode
          /\ ~Has(argv, Len(argv), {"jail"}) => After.jail = set.jail
          /\ ~Has(argv, Len(argv), {"nocwd"}) => After.cwd = set.cwd
          /\ \A m : ~HasMask(argv, Len(argv), m) => (m \in After.mask <=> m \in set.mask)
      BY <2>2, ParseKeeps DEF After
    <3>2. Agreeing
      BY DEF Inv
    <3>3. /\ Said({"mode"}) = {} => After.mode = ref.mode
          /\ Said({"jail"}) = {} => After.jail = ref.jail
          /\ Said({"nocwd"}) = {} => After.cwd = ref.cwd
      BY <3>1, <3>2, SaidIs DEF Agreeing
    <3>4. \A m \in STRING : SaidOf(m) = {} => (m \in After.mask <=> m \in ref.mask)
      BY <3>1, <3>2, SaidOfIs DEF Agreeing
    <3>5. /\ \A os : Said(os)' = Said(os)
          /\ \A m : SaidOf(m)' = SaidOf(m)
      BY <2>2 DEF Said, SaidOf, argv
    <3> QED BY <2>0, <2>1, <3>3, <3>4, <3>5 DEF Agreeing
  <2>6. Parsed'
    <3>1. CASE from # "argv3"
      BY <3>1, <2>0 DEF Parsed
    <3>2. CASE from = "argv3"
      <4> DEFINE A == parse(ref, argv, cwd)[Len(argv)]
      <4>1. applied(ref, argv)' = A
        <5>1. base' = cwd /\ ref' = ref /\ argv' = argv
          <6>1. base = cwd
            BY <2>0, <3>2, BaseIs DEF Inv
          <6> QED BY <6>1, <2>0 DEF base, cwd, argv
        <5> QED BY <5>1 DEF applied
      <4>2. Agreeing
        BY DEF Inv
      <4>3. /\ set.mode = ref.mode \/ Has(argv, Len(argv), {"mode"}) => After.mode = A.mode
            /\ set.jail = ref.jail \/ Has(argv, Len(argv), {"jail"}) => After.jail = A.jail
            /\ set.cwd = ref.cwd \/ Has(argv, Len(argv), {"nocwd"}) => After.cwd = A.cwd
            /\ \A m : (m \in set.mask <=> m \in ref.mask) \/ HasMask(argv, Len(argv), m) =>
                      (m \in After.mask <=> m \in A.mask)
        BY <2>2, ParsesAgree DEF After
      <4> HIDE DEF A
      <4>4. After.mode = A.mode /\ After.jail = A.jail /\ After.cwd = A.cwd
        BY <4>2, <4>3, SaidIs DEF Agreeing
      <4>5. After.mask = A.mask
        <5>1. A \in Settings
          BY <2>2, ParseBecomes DEF A
        <5>2. A.mask \subseteq STRING /\ After.mask \subseteq STRING
          BY <2>1, <5>1 DEF Settings
        <5>3. \A m \in STRING : m \in After.mask <=> m \in A.mask
          BY <4>2, <4>3, SaidOfIs DEF Agreeing
        <5> QED BY <5>2, <5>3
      <4> QED BY <2>1, <4>1, <4>4, <4>5 DEF Parsed
    <3> QED BY <3>1, <3>2
  <2> DEFINE D == parse(Default, argv, cwd)[Len(argv)]
  <2>7. /\ Place \in GrantPath /\ Place' = Place /\ Alone' = Alone /\ Alone = D.grant[Place]
        /\ \A os : Said(os)' = Said(os)
    BY <2>2 DEF Place, Alone, Said, argv, cwd, Bases, GrantPath
  <2>8. /\ \A os : Said(os) # {} <=> Has(argv, Len(argv), os)
        /\ Granting
    BY SaidIs DEF Inv
  <2>9. Said({"xdir"}) = {} =>
          /\ set.grant[Place] # "none" => After.grant[Place] = set.grant[Place]
          /\ Said({"dir", "dir!", "rdir"}) # {} => After.grant[Place] # "none" /\ Alone # "none"
    <3>1. ~Has(argv, Len(argv), {"xdir"}) =>
            /\ set.grant[Place] # "none" => After.grant[Place] = set.grant[Place]
            /\ Has(argv, Len(argv), {"dir", "dir!", "rdir"}) => After.grant[Place] # "none"
      BY <2>2, ParseKeeps DEF After, Place
    <3>2. ~Has(argv, Len(argv), {"xdir"}) /\ Has(argv, Len(argv), {"dir", "dir!", "rdir"}) =>
            D.grant[Place] # "none"
      BY <2>2, DefaultType, ParseKeeps DEF Place
    <3> HIDE DEF D
    <3> QED BY <2>7, <2>8, <3>1, <3>2
  <2>10. Granting'
    <3>1. CASE from = "argv1"
      BY <3>1, <2>0, <2>1, <2>7, <2>8 DEF Granting, After
    <3>2. CASE from # "argv1"
      <4>1. to \notin {"argv1", "error"} /\ from \notin {"argv1", "error"}
        BY <3>2
      <4> HIDE DEF D
      <4> QED BY <4>1, <2>0, <2>1, <2>7, <2>8, <2>9 DEF Granting, Erased
    <3> QED BY <3>1, <3>2
  <2>11. CommandLineWins'
    <3>1. CASE from # "argv3"
      BY <3>1, <2>0 DEF CommandLineWins
    <3>2. CASE from = "argv3"
      <4>1. /\ argv' = argv /\ cwd' = cwd /\ applied(Default, argv)' = D
            /\ heard' = heard /\ set' = After
        <5>1. base = cwd
          BY <2>0, <3>2, BaseIs DEF Inv
        <5>2. base' = cwd
          BY <5>1, <2>0 DEF base, cwd
        <5> QED BY <2>0, <2>1, <5>2 DEF applied, argv, cwd
      <4>2. ASSUME Said({"setenv", "unsetenv"}) # {}
            PROVE  LET opt == argv[LastOf(Said({"setenv", "unsetenv"}))]
                   IN  /\ opt = Opt("setenv", "value") => Env(After, "execve") = "value"
                       /\ opt.o = "unsetenv" => Env(After, "execve") = "none"
        <5> DEFINE e == LastOf(Said({"setenv", "unsetenv"}))
        <5>1. e \in Said({"setenv", "unsetenv"}) /\ \A j \in Said({"setenv", "unsetenv"}) : j <= e
          BY <2>2, <4>2, LastOfIs DEF Said
        <5> HIDE DEF e
        <5>2. /\ e \in 1..Len(argv)
              /\ \A j \in 1..Len(argv) : argv[j].o \in {"setenv", "unsetenv"} => j <= e
          BY <5>1 DEF Said
        <5>3. /\ argv[e].o = "setenv" /\ argv[e].v = "value" => After.setenv = "value"
              /\ argv[e].o = "unsetenv" => After.setenv = "none" /\ After.filter # {}
          BY <2>2, <5>2, EnvironmentStays DEF After
        <5>4. argv[e] = Opt("setenv", "value") => argv[e].o = "setenv" /\ argv[e].v = "value"
          BY DEF Opt
        <5> QED BY <5>3, <5>4 DEF Env, e
      <4>3. ASSUME Said({"file", "xfile"}) # {}
            PROVE  Place \in After.file <=> argv[LastOf(Said({"file", "xfile"}))].o = "file"
        <5> DEFINE e == LastOf(Said({"file", "xfile"}))
        <5>1. e \in Said({"file", "xfile"}) /\ \A j \in Said({"file", "xfile"}) : j <= e
          BY <2>2, <4>3, LastOfIs DEF Said
        <5> HIDE DEF e
        <5>2. /\ e \in 1..Len(argv) /\ argv[e].o \in {"file", "xfile"}
              /\ \A j \in 1..Len(argv) : argv[j].o \in {"file", "xfile"} => j <= e
          BY <5>1 DEF Said
        <5> QED BY <2>2, <5>2, FileStays DEF After, Place, e
      <4>4. ASSUME Said({"dir", "dir!", "rdir", "xdir"}) # {}
            PROVE  /\ After.grant[Place] = "none" <=> D.grant[Place] = "none"
                   /\ After.grant[Place] = D.grant[Place] \/ Erased(Place)
        <5>1. CASE Said({"xdir"}) # {}
          <6>1. Has(argv, Len(argv), {"xdir"}) => After.grant[Place] = D.grant[Place]
            BY <2>2, DefaultType, ParsesAgree DEF After, Place
          <6> QED BY <5>1, <6>1, SaidIs
        <5>2. CASE Said({"xdir"}) = {}
          <6>1. Said({"dir", "dir!", "rdir"}) # {}
            BY <4>4, <5>2 DEF Said
          <6>2. set.grant[Place] = Alone \/ Erased(Place)
            BY <2>0, <2>8, <3>2, <5>2, <6>1 DEF Granting
          <6> HIDE DEF D
          <6> QED BY <2>7, <2>9, <5>2, <6>1, <6>2
        <5> QED BY <5>1, <5>2
      <4> HIDE DEF D
      <4>5. Erased(Place)' = Erased(Place)
        BY <2>7, <4>1 DEF Erased
      <4> QED BY <2>7, <4>1, <4>2, <4>3, <4>4, <4>5 DEF CommandLineWins, Place
    <3> QED BY <3>1, <3>2
  <2> QED BY <2>3, <2>4, <2>5, <2>6, <2>10, <2>11 DEF Inv
<1> QED BY <1>1, <1>2

\* What the steps keep that leave the settings and this invocation alone.
LEMMA SettingsKept ==
    ASSUME Inv, UNCHANGED <<inv, set, ref, heard>>, pc # "argv1",
           pc' \notin {"argv1", "exec", "error"}, pc # "error", pc' # "run"
    PROVE  Agreeing' /\ Parsed' /\ Granting' /\ CommandLineWins'
<1>1. /\ Place' = Place /\ Alone' = Alone
      /\ \A os : Said(os)' = Said(os)
      /\ \A m : SaidOf(m)' = SaidOf(m)
  BY DEF Place, Alone, Said, SaidOf, argv, cwd
<1>2. Agreeing'
  BY <1>1 DEF Inv, Agreeing
<1>3. Granting'
  BY <1>1 DEF Inv, Granting, Erased
<1>4. Parsed' /\ CommandLineWins'
  BY DEF Parsed, CommandLineWins
<1> QED BY <1>2, <1>3, <1>4

LEMMA QuitInv == Inv /\ Quit => Inv'
<1> SUFFICES ASSUME Inv, Quit PROVE Inv'
  OBVIOUS
<1>1. TypeInv'
  BY DEF Inv, TypeInv, Quit, Mode
<1>2. Nesting'
  BY DEF Inv, Nesting, Quit
<1> QED BY <1>1, <1>2, SettingsKept DEF Inv, Quit

\* A file on top of those being read.
LEMMA EnterInv ==
    ASSUME NEW file \in STRING, NEW next, Inv, Enter(file, next),
           \/ pc = "conf" /\ next = "inconf"
           \/ pc \in {"inconf", "injail"} /\ next = pc
    PROVE  Inv'
<1>1. CASE file \in loop
  BY <1>1, FailInv DEF Enter
<1>2. CASE file \notin loop
  <2> DEFINE rec == [file |-> file, lines |-> 0, saved |-> inFile]
             n == Len(stack)
  <2>0. /\ stack' = Append(stack, rec) /\ loop' = loop \cup {file} /\ inFile' = TRUE /\ pc' = next
        /\ UNCHANGED <<inv, set, jailFile, ref, heard>>
    BY <1>2 DEF Enter
  <2>1. /\ stack \in Seq(Reading)
        /\ rec \in Reading /\ rec.file = file
        /\ rec.saved = inFile /\ n \in Nat
    BY LenProperties DEF Inv, TypeInv, Reading
  <2> HIDE DEF rec
  <2>2. /\ stack' \in Seq(Reading) /\ Len(stack') = n + 1
        /\ stack'[n + 1] = rec /\ \A i \in 1..n : stack'[i] = stack[i]
    BY <2>0, <2>1, AppendProperties
  <2>3. TypeInv'
    BY <2>0, <2>2 DEF Inv, TypeInv
  <2>4. Nesting'
    <3>0. /\ stack # <<>> <=> pc \in {"inconf", "injail"}
          /\ inFile <=> stack # <<>>
          /\ loop = {stack[i].file : i \in 1..n}
          /\ IsFiniteSet(loop) /\ Cardinality(loop) = n
          /\ \A i, j \in 1..n : stack[i].file = stack[j].file => i = j
          /\ \A i \in 1..n : stack[i].saved <=> i > 1
      BY DEF Inv, Nesting
    <3>1. 1..(n + 1) = (1..n) \cup {n + 1}
      BY <2>1
    <3>2. stack' # <<>> /\ pc' \in {"inconf", "injail"}
      BY <2>0, <2>1, <2>2, EmptySeq
    <3>8. /\ \A i \in 1..n : stack'[i].file = stack[i].file /\ stack'[i].saved = stack[i].saved
          /\ stack'[n + 1].file = file /\ stack'[n + 1].saved = inFile
      BY <2>1, <2>2
    <3> HIDE DEF n
    <3>3. loop' = {stack'[i].file : i \in 1..(n + 1)}
      <4>1. \A f : (\E i \in 1..(n + 1) : f = stack'[i].file) <=>
                   (\E i \in 1..n : f = stack[i].file) \/ f = file
        BY <3>1, <3>8
      <4>2. \A f : f \in loop <=> \E i \in 1..n : f = stack[i].file
        <5>1. loop = {stack[i].file : i \in 1..n}
          BY <3>0
        <5> QED BY <5>1, Zenon
      <4>3. \A f : f \in loop' <=> \E i \in 1..(n + 1) : f = stack'[i].file
        <5>1. \A f : f \in loop' <=> f \in loop \/ f = file
          BY <2>0
        <5> QED BY <4>1, <4>2, <5>1
      <4>4. \A f : f \in loop' <=> f \in {stack'[i].file : i \in 1..(n + 1)}
        BY <4>3, Zenon
      <4> QED BY <4>4, Zenon
    <3>4. IsFiniteSet(loop') /\ Cardinality(loop') = n + 1
      BY <1>2, <2>0, <3>0, FS_AddElement
    <3>9. \A i \in 1..n : stack[i].file # file
      BY <1>2, <3>0
    <3>5. \A i, j \in 1..(n + 1) : stack'[i].file = stack'[j].file => i = j
      BY <3>0, <3>1, <3>8, <3>9
    <3>6. n = 0 <=> stack = <<>>
      BY <2>1, EmptySeq DEF n
    <3>7. ASSUME NEW i \in 1..(n + 1) PROVE stack'[i].saved <=> i > 1
      <4>1. CASE i \in 1..n
        BY <4>1, <3>0, <3>8
      <4>2. CASE i = n + 1
        BY <4>2, <2>1, <3>0, <3>6, <3>8
      <4> QED BY <3>1, <4>1, <4>2
    <3>10. Len(stack') = n + 1
      BY <2>2
    <3> QED BY <3>10, <2>0, <2>2, <3>2, <3>3, <3>4, <3>5, <3>7 DEF Nesting
  <2> QED BY <2>0, <2>3, <2>4, SettingsKept DEF Inv
<1> QED BY <1>1, <1>2

LEMMA ReadConfInv == Inv /\ ReadConf => Inv'
<1>1. TopConf \in STRING
  BY ConfAssumption
<1> QED BY <1>1, EnterInv, FailInv DEF ReadConf

LEMMA IncludeInv ==
    ASSUME NEW opt \in inv.line \cup {Opt("mode", m) : m \in Mode}, Inv, Include(opt)
    PROVE  Inv'
<1>0. opt.v \in STRING /\ pc \in {"inconf", "injail"}
  BY InvocationFine DEF Inv, TypeInv, Fine, Include, InFile
<1>1. CASE Enter(opt.v, pc)
  BY <1>0, <1>1, EnterInv
<1>2. CASE Fail /\ UNCHANGED <<stack, loop, inFile>>
  BY <1>2, FailInv
<1>3. CASE UNCHANGED <<pc, inv, set, stack, loop, inFile, jailFile, ref, heard>>
  <2>1. TypeInv' /\ Nesting'
    BY <1>3 DEF Inv, TypeInv, Nesting
  <2> QED BY <1>0, <1>3, <2>1, SettingsKept DEF Inv
<1> QED BY <1>1, <1>2, <1>3 DEF Include

LEMMA LeaveInv == Inv /\ Leave => Inv'
<1> SUFFICES ASSUME Inv, Leave PROVE Inv'
  OBVIOUS
<1> DEFINE n == Len(stack)
<1>0. /\ pc \in {"inconf", "injail"} /\ stack # <<>>
      /\ stack' = SubSeq(stack, 1, n - 1) /\ loop' = loop \ {stack[n].file}
      /\ inFile' = stack[n].saved
      /\ pc' = IF n > 1 THEN pc ELSE IF pc = "inconf" THEN "argv2" ELSE "argv3"
      /\ UNCHANGED <<inv, set, jailFile, ref, heard>>
  BY DEF Leave, InFile, Top
<1>1. /\ stack \in Seq(Reading) /\ n \in Nat /\ n > 0
      /\ \A i \in 1..n : stack[i] \in Reading
  <2>1. stack \in Seq(Reading)
    BY DEF Inv, TypeInv
  <2>2. n \in Nat /\ \A i \in 1..n : stack[i] \in Reading
    BY <2>1, LenProperties, ElementOfSeq
  <2>3. n # 0
    BY <1>0, <2>1, EmptySeq
  <2> QED BY <2>1, <2>2, <2>3
<1>2. /\ stack' \in Seq(Reading) /\ Len(stack') = n - 1
      /\ \A i \in 1..(n - 1) : stack'[i] = stack[i]
  <2>1. 1 \in Int /\ n - 1 \in Int /\ \A i \in 1..(n - 1) : stack[i] \in Reading
    BY <1>1
  <2>2. /\ SubSeq(stack, 1, n - 1) \in Seq(Reading)
        /\ Len(SubSeq(stack, 1, n - 1)) = IF 1 <= n - 1 THEN n - 1 - 1 + 1 ELSE 0
        /\ \A i \in 1..(n - 1 - 1 + 1) : SubSeq(stack, 1, n - 1)[i] = stack[1 + i - 1]
    <3> HIDE DEF n
    <3> QED BY <2>1, SubSeqProperties
  <2> HIDE DEF n
  <2>3. \A i \in 1..(n - 1) : 1 + i - 1 = i /\ i \in 1..(n - 1 - 1 + 1)
    BY <1>1
  <2> QED BY <1>0, <1>1, <2>2, <2>3
<1>3. TypeInv'
  <2>1. stack[n].saved \in BOOLEAN
    BY <1>1 DEF Reading
  <2> QED BY <1>0, <1>2, <2>1 DEF Inv, TypeInv
<1>4. Nesting'
  <2>0. /\ loop = {stack[i].file : i \in 1..n}
        /\ IsFiniteSet(loop) /\ Cardinality(loop) = n
        /\ \A i, j \in 1..n : stack[i].file = stack[j].file => i = j
        /\ \A i \in 1..n : stack[i].saved <=> i > 1
    BY <1>0 DEF Inv, Nesting
  <2>1. 1..n = (1..(n - 1)) \cup {n} /\ n \notin 1..(n - 1) /\ n \in 1..n
    BY <1>1
  <2>2. stack' # <<>> <=> n > 1
    BY <1>1, <1>2, EmptySeq
  <2>3. pc' \in {"inconf", "injail"} <=> n > 1
    BY <1>0
  <2>4. inFile' <=> n > 1
    BY <1>0, <2>0, <2>1
  <2>5. loop' = {stack'[i].file : i \in 1..(n - 1)}
    <3>1. loop' = {stack[i].file : i \in 1..(n - 1)}
      BY <1>0, <2>0, <2>1
    <3> QED BY <1>2, <3>1
  <2>6. IsFiniteSet(loop') /\ Cardinality(loop') = n - 1
    <3>1. stack[n].file \in loop
      BY <2>0, <2>1
    <3> QED BY <1>0, <2>0, <3>1, FS_RemoveElement
  <2>7. /\ \A i, j \in 1..(n - 1) : stack'[i].file = stack'[j].file => i = j
        /\ \A i \in 1..(n - 1) : stack'[i].saved <=> i > 1
    BY <1>2, <2>0, <2>1
  <2> HIDE DEF n
  <2> QED BY <1>2, <2>2, <2>3, <2>4, <2>5, <2>6, <2>7 DEF Nesting
<1> QED BY <1>0, <1>3, <1>4, SettingsKept DEF Inv

LEMMA ReadJailInv == Inv /\ ReadJail => Inv'
<1> SUFFICES ASSUME Inv, ReadJail PROVE Inv'
  OBVIOUS
<1> DEFINE j == IF set.jail = "" THEN DefaultJail ELSE set.jail
           rec == [file |-> ".jail", lines |-> 0, saved |-> inFile]
<1>0. /\ pc = "dotjail" /\ pc' = "injail" /\ set' = [set EXCEPT !.jail = j]
      /\ ref' = [ref EXCEPT !.jail = IF ref.jail = "" THEN DefaultJail ELSE ref.jail]
      /\ jailFile' = IF jailFile[j] # "none" THEN jailFile
                     ELSE [jailFile EXCEPT ![j] = IF j = DefaultJail THEN "casual" ELSE set.mode]
      /\ stack' = <<rec>> /\ loop' = loop \cup {".jail"} /\ inFile' = TRUE
      /\ UNCHANGED <<inv, heard>>
  BY DEF ReadJail
<1>1. set \in Settings /\ ref \in Settings /\ inFile \in BOOLEAN
  BY DEF Inv, TypeInv
<1>2. j \in Jail /\ (IF ref.jail = "" THEN DefaultJail ELSE ref.jail) \in Jail
  BY <1>1, ConfAssumption DEF Settings
<1>3. /\ set' \in Settings /\ ref' \in Settings
  <2> HIDE DEF j
  <2> QED BY <1>0, <1>1, <1>2 DEF Settings
<1>4. /\ set'.mode = set.mode /\ set'.cwd = set.cwd /\ set'.mask = set.mask
      /\ set'.grant = set.grant /\ set'.jail = j
      /\ ref'.mode = ref.mode /\ ref'.cwd = ref.cwd /\ ref'.mask = ref.mask
      /\ ref'.jail = IF ref.jail = "" THEN DefaultJail ELSE ref.jail
  BY <1>0, <1>1 DEF Settings
<1>5. TypeInv'
  <2>1. set.mode \in Mode /\ "casual" \in Mode
    BY <1>1 DEF Settings, Mode
  <2>2. jailFile' \in [Jail -> {"none", "user"} \cup Mode]
    <3> HIDE DEF j
    <3> QED BY <1>0, <1>2, <2>1 DEF Inv, TypeInv
  <2>3. rec \in Reading
    BY <1>1 DEF Reading
  <2>4. <<rec>> \in Seq(Reading)
    <3> HIDE DEF rec
    <3> QED BY <2>3
  <2> QED BY <1>0, <1>3, <2>2, <2>4 DEF Inv, TypeInv
<1>6. Nesting'
  <2>1. stack = <<>> /\ loop = {stack[i].file : i \in 1..Len(stack)} /\ ~inFile
    BY <1>0 DEF Inv, Nesting
  <2>2. loop' = {".jail"}
    <3>1. 1..Len(stack) = {}
      BY <2>1
    <3> QED BY <1>0, <2>1, <3>1
  <2>3. IsFiniteSet(loop') /\ Cardinality(loop') = 1
    BY <2>2, FS_Singleton
  <2>4. Len(stack') = 1 /\ stack'[1] = rec /\ stack' # <<>>
    BY <1>0
  <2>5. rec.file = ".jail" /\ rec.saved = FALSE
    BY <1>1, <2>1
  <2> HIDE DEF rec
  <2>6. 1..Len(stack') = {1}
    BY <2>4
  <2>7. loop' = {stack'[i].file : i \in 1..Len(stack')}
    BY <2>2, <2>4, <2>5, <2>6, Zenon
  <2>8. /\ \A i, k \in 1..Len(stack') : stack'[i].file = stack'[k].file => i = k
        /\ \A i \in 1..Len(stack') : stack'[i].saved <=> i > 1
    BY <2>4, <2>5, <2>6
  <2> QED BY <1>0, <2>3, <2>4, <2>7, <2>8 DEF Nesting
<1>7. /\ Place' = Place /\ Alone' = Alone
      /\ \A os : Said(os)' = Said(os)
      /\ \A m : SaidOf(m)' = SaidOf(m)
  BY <1>0 DEF Place, Alone, Said, SaidOf, argv, cwd
<1>8. Agreeing'
  BY <1>4, <1>7 DEF Inv, Agreeing
<1>9. Granting'
  BY <1>0, <1>4, <1>7 DEF Inv, Granting, Erased
<1>10. Parsed' /\ CommandLineWins'
  BY <1>0 DEF Parsed, CommandLineWins
<1> QED BY <1>5, <1>6, <1>8, <1>9, <1>10 DEF Inv

LEMMA ReadLineInv ==
    ASSUME NEW opt \in inv.line \cup {Opt("mode", m) : m \in Mode}, Inv, ReadLine(opt)
    PROVE  Inv'
<1>1. CASE Refused(opt, base, pc = "injail")
  BY <1>1, FailInv DEF ReadLine
<1>2. CASE ~Refused(opt, base, pc = "injail")
  <2> DEFINE n == Len(stack)
             g == Home \o <<Dir>>
  <2>0. /\ pc \in {"inconf", "injail"} /\ stack # <<>>
        /\ set' = Apply(set, opt, base) /\ ref' = Apply(ref, opt, Home)
        /\ heard' = IF opt.o = "xdir" \/ opt = Opt("setenv", "value") THEN heard \cup {opt} ELSE heard
        /\ stack' = [stack EXCEPT ![n] = [stack[n] EXCEPT !.lines = stack[n].lines + 1]]
        /\ UNCHANGED <<pc, inv, loop, inFile, jailFile>>
    BY <1>2 DEF ReadLine, InFile
  <2>1. /\ base = Home /\ Fine(opt) /\ Home \in Bases
        /\ set \in Settings /\ ref \in Settings
    BY <2>0, BaseIs, InvocationFine DEF Inv, TypeInv
  <2>2. Becomes(set, opt, g, set') /\ Becomes(ref, opt, g, ref')
    BY <2>0, <2>1, ApplyBecomes
  <2>3. /\ n \in Nat /\ n > 0 /\ stack \in Seq(Reading)
        /\ \A i \in 1..n : stack[i] \in Reading
    <3>1. stack \in Seq(Reading)
      BY DEF Inv, TypeInv
    <3>2. n \in Nat /\ \A i \in 1..n : stack[i] \in Reading
      BY <3>1, LenProperties, ElementOfSeq
    <3>3. n # 0
      BY <2>0, <3>1, EmptySeq
    <3> QED BY <3>1, <3>2, <3>3
  <2> DEFINE rec == [stack[n] EXCEPT !.lines = stack[n].lines + 1]
  <2>4. rec \in Reading /\ rec.file = stack[n].file /\ rec.saved = stack[n].saved
    <3>1. stack[n] \in Reading
      BY <2>3
    <3> QED BY <3>1 DEF Reading
  <2> HIDE DEF rec
  <2>5. /\ stack' \in Seq(Reading) /\ Len(stack') = n
        /\ \A i \in 1..n : stack'[i].file = stack[i].file /\ stack'[i].saved = stack[i].saved
    <3>1. stack' = [stack EXCEPT ![n] = rec]
      BY <2>0 DEF rec
    <3>2. n \in 1..Len(stack)
      BY <2>3
    <3>3. stack' \in Seq(Reading) /\ Len(stack') = n
      BY <2>3, <2>4, <3>1, <3>2, ExceptSeq
    <3>4. \A i \in 1..n : stack'[i] = IF i = n THEN rec ELSE stack[i]
      BY <2>3, <3>1, LenProperties
    <3> HIDE DEF n
    <3> QED BY <2>4, <3>3, <3>4
  <2>6. TypeInv'
    <3>1. set' \in Settings /\ ref' \in Settings
      BY <2>2 DEF Becomes
    <3> QED BY <2>0, <2>5, <3>1 DEF Inv, TypeInv
  <2>7. Nesting'
    <3>0. /\ inFile <=> stack # <<>>
          /\ loop = {stack[i].file : i \in 1..n}
          /\ IsFiniteSet(loop) /\ Cardinality(loop) = n
          /\ \A i, k \in 1..n : stack[i].file = stack[k].file => i = k
          /\ \A i \in 1..n : stack[i].saved <=> i > 1
      BY <2>0 DEF Inv, Nesting
    <3>1. stack' # <<>>
      BY <2>3, <2>5, EmptySeq
    <3> HIDE DEF n
    <3>2. loop' = {stack'[i].file : i \in 1..n}
      BY <2>0, <2>5, <3>0
    <3>3. /\ \A i, k \in 1..n : stack'[i].file = stack'[k].file => i = k
          /\ \A i \in 1..n : stack'[i].saved <=> i > 1
      BY <2>5, <3>0
    <3> QED BY <2>0, <2>5, <3>0, <3>1, <3>2, <3>3 DEF Nesting
  <2>8. /\ Place \in GrantPath /\ Place' = Place /\ Alone' = Alone
        /\ \A os : Said(os)' = Said(os)
        /\ \A m : SaidOf(m)' = SaidOf(m)
    BY <2>0, InvocationFine DEF Place, Alone, Said, SaidOf, argv, cwd, Inv, TypeInv, Bases, GrantPath
  <2>9. Agreeing'
    <3>1. /\ set.mode = ref.mode => set'.mode = ref'.mode
          /\ set.jail = ref.jail => set'.jail = ref'.jail
          /\ set.cwd = ref.cwd => set'.cwd = ref'.cwd
      BY <2>2 DEF Becomes
    <3>2. \A m : (m \in set.mask <=> m \in ref.mask) => (m \in set'.mask <=> m \in ref'.mask)
      BY <2>2 DEF Becomes
    <3> QED BY <2>8, <3>1, <3>2 DEF Inv, Agreeing
  <2>10. Granting'
    <3>1. set'.grant[Place] = IF Place = g THEN Regrant(set.grant[Place], opt.o, Place)
                              ELSE set.grant[Place]
      BY <2>2, <2>8 DEF Becomes
    <3>2. opt.o = "xdir" => PlaceOf(opt, Home) = g
      BY <2>1 DEF Fine, DirOption, PlaceOf
    <3>3. Said({"xdir"}) = {} /\ Said({"dir", "dir!", "rdir"}) # {} => Alone # "none"
      <4>1. /\ AllFine(argv) /\ Len(argv) \in 0..Len(argv) /\ cwd \in Bases
        BY InvocationFine DEF Inv, TypeInv
      <4>2. ~Has(argv, Len(argv), {"xdir"}) /\ Has(argv, Len(argv), {"dir", "dir!", "rdir"}) =>
              Alone # "none"
        BY <4>1, DefaultType, ParseKeeps DEF Alone, Place
      <4> QED BY <4>2, SaidIs
    <3>4. Granting
      BY DEF Inv
    <3> HIDE DEF g
    <3>5. ASSUME Said({"xdir"}) = {}, Said({"dir", "dir!", "rdir"}) # {}
          PROVE  set'.grant[Place] = Alone \/ Erased(Place)'
      <4>1. set.grant[Place] = Alone \/ Erased(Place)
        BY <2>0, <3>4, <3>5 DEF Granting
      <4>2. CASE opt.o = "xdir" /\ Place = g
        BY <2>0, <2>8, <3>2, <4>2 DEF Erased
      <4>3. CASE ~(opt.o = "xdir" /\ Place = g)
        <5>1. Erased(Place) => Erased(Place)'
          BY <2>0, <2>8 DEF Erased
        <5> QED BY <2>0, <3>1, <3>3, <3>5, <4>1, <4>3, <5>1 DEF Regrant
      <4> QED BY <4>2, <4>3
    <3> QED BY <2>0, <2>8, <3>5 DEF Granting
  <2>11. Parsed' /\ CommandLineWins'
    BY <2>0 DEF Parsed, CommandLineWins
  <2> QED BY <2>6, <2>7, <2>9, <2>10, <2>11 DEF Inv
<1> QED BY <1>1, <1>2

LEMMA ExecInv == Inv /\ Exec => Inv'
<1> SUFFICES ASSUME Inv, Exec PROVE Inv'
  OBVIOUS
<1>0. /\ pc = "exec" /\ pc' \in {"error", "run"}
      /\ UNCHANGED <<inv, set, stack, loop, inFile, jailFile, ref, heard, total>>
  BY DEF Exec
<1>1. TypeInv' /\ Nesting'
  BY <1>0 DEF Inv, TypeInv, Nesting
<1>2. /\ Place' = Place /\ Alone' = Alone
      /\ \A os : Said(os)' = Said(os)
      /\ \A m : SaidOf(m)' = SaidOf(m)
      /\ applied(ref, argv)' = applied(ref, argv)
  BY <1>0 DEF Place, Alone, Said, SaidOf, argv, cwd, applied, base
<1>3. Agreeing' /\ Granting'
  BY <1>0, <1>2 DEF Inv, Agreeing, Granting, Erased
<1>4. Parsed' /\ CommandLineWins'
  BY <1>0, <1>2 DEF Inv, Parsed, CommandLineWins
<1> QED BY <1>1, <1>3, <1>4 DEF Inv

LEMMA NextInv == Inv /\ [Next]_vars => Inv'
<1> SUFFICES ASSUME Inv, [Next]_vars PROVE Inv'
  OBVIOUS
<1>1. CASE UNCHANGED vars
  <2>0. UNCHANGED <<pc, inv, set, stack, loop, inFile, jailFile, ref, heard>>
    BY <1>1 DEF vars
  <2>1. /\ Place' = Place /\ Alone' = Alone
        /\ \A os : Said(os)' = Said(os)
        /\ \A m : SaidOf(m)' = SaidOf(m)
        /\ applied(ref, argv)' = applied(ref, argv)
    BY <2>0 DEF Place, Alone, Said, SaidOf, argv, cwd, applied, base
  <2>2. TypeInv' /\ Nesting'
    BY <2>0 DEF Inv, TypeInv, Nesting
  <2>3. Agreeing' /\ Granting' /\ Parsed'
    BY <2>0, <2>1 DEF Inv, Agreeing, Granting, Erased, Parsed
  <2>4. CommandLineWins'
    BY <2>0 DEF Inv, CommandLineWins, Erased, applied, base, Said, argv, cwd
  <2> QED BY <2>2, <2>3, <2>4 DEF Inv
<1>2. CASE Next
  <2>1. CASE Pass("argv1", "conf") \/ Pass("argv2", "dotjail") \/ Pass("argv3", "exec")
    BY <2>1, PassInv
  <2>2. CASE \E opt \in inv.line \cup {Opt("mode", m) : m \in Mode} : ReadLine(opt) \/ Include(opt)
    BY <2>2, ReadLineInv, IncludeInv
  <2>3. CASE Quit \/ ReadConf \/ ReadJail \/ Leave \/ Exec
    BY <2>3, QuitInv, ReadConfInv, ReadJailInv, LeaveInv, ExecInv
  <2> QED BY <1>2, <2>1, <2>2, <2>3 DEF Next
<1> QED BY <1>1, <1>2

LEMMA Invariant == Spec => []Inv
BY InitInv, NextInv, PTL DEF Spec

-----------------------------------------------------------------------------

\* config_loop_detect_ and parsing_config_file_ follow the includes in
\* parse_config_fd, however deep they nest.
THEOREM FlagsAreRight == Spec => []FlagsFollowStack
<1>1. Inv => FlagsFollowStack
  BY DEF Inv, Nesting, FlagsFollowStack
<1> QED BY <1>1, Invariant, PTL

\* Parsing the command line before, between and after the files is as good as
\* reading .conf, .jail and command line once each, in that order (do_main).
THEOREM OrderIsKept == Spec => []ParsedInOrder
<1>1. Inv => ParsedInOrder
  BY DEF Inv, Parsed, ParsedInOrder
<1> QED BY <1>1, Invariant, PTL

\* Whatever the files say, the command line decides what a variable it
\* assigns, or removes while nothing assigns it, is in the environment made
\* for execve, which files it grants, whether its directory is granted, and,
\* unless a file took that back, with which access (opt_parser's handlers,
\* three times over, and make_env).
THEOREM CommandLineHasLastWord == Spec => []CommandLineWins
<1>1. Inv => CommandLineWins
  BY DEF Inv
<1> QED BY <1>1, Invariant, PTL

-----------------------------------------------------------------------------
(* The profile. *)

\* Below a name in b is below b.
LEMMA NameBelow ==
    ASSUME NEW b \in Seq(STRING), NEW x, NEW y
    PROVE  Subpath(b \o <<x>>) \subseteq Subpath(b) /\ (b \o <<x, y>> \in Path => b \o <<x, y>> \in Subpath(b))
<1>1. /\ Len(b) \in Nat /\ Len(b \o <<x>>) = Len(b) + 1 /\ Len(b \o <<x, y>>) = Len(b) + 2
      /\ \A i \in 1..Len(b) : (b \o <<x>>)[i] = b[i] /\ (b \o <<x, y>>)[i] = b[i]
  OBVIOUS
<1>2. Under(b \o <<x, y>>, b)
  BY <1>1 DEF Under
<1>3. ASSUME NEW q \in Path, q = b \o <<x>> \/ Under(q, b \o <<x>>) PROVE Under(q, b)
  BY <1>1, <1>3, PathType DEF Under
<1> QED BY <1>2, <1>3 DEF Subpath

LEMMA MasksBelow ==
    ASSUME NEW s
    PROVE  /\ Masked(s, Home) \subseteq Subpath(Home)
           /\ SshCarveouts(s, Mount) \subseteq Subpath(Mount)
<1>1. ASSUME NEW q \in Masked(s, Home) PROVE q \in Subpath(Home)
  <2>1. PICK m \in s.mask : q \in Subpath(Home \o <<m>>)
    BY DEF Masked
  <2> QED BY <2>1, NameBelow, PlacesApart
<1>2. ASSUME NEW q \in SshCarveouts(s, Mount) PROVE q \in Subpath(Mount)
  <2>1. q \in Path /\ \E n \in Public : q = Mount \o <<Ssh, n>>
    BY DEF SshCarveouts
  <2>2. PICK n \in Public : q = Mount \o <<Ssh, n>>
    BY <2>1
  <2>3. Mount \o <<Ssh, n>> \in Path => Mount \o <<Ssh, n>> \in Subpath(Mount)
    BY NameBelow, PlacesApart
  <2> QED BY <2>1, <2>2, <2>3
<1> QED BY <1>1, <1>2

\* The masks that .conf, .jail and command line leave in force keep files from
\* the jail under the real home's own paths, in every mode, but for grants
\* and the files that SSH clients need (generate_sandbox_profile).
THEOREM MasksAreKept == Spec => []RealHomeMasked
<1>1. Inv => RealHomeMasked
  <2> SUFFICES ASSUME Inv, pc = "run",
                      NEW q \in Masked(applied(ref, argv), Home), q \in Readable(set, cwd)
               PROVE  q \in Granted(set, {"rw", "mkdir", "ro"}) \cup FilesGranted(set)
                              \cup SshCarveouts(set, Home) \cup Subpath(Private)
    BY DEF RealHomeMasked
  <2>1. q \in Masked(set, Home) /\ q \in Subpath(Home)
    <3>1. set.mask = applied(ref, argv).mask
      BY DEF Inv, Parsed
    <3> QED BY <3>1, MasksBelow DEF Masked
  <2>2. \A b \in System \cup {Tmp, Mount} : q \notin Subpath(b)
    BY <2>1, PlacesApart
  <2>3. q \notin HomeRule(set, Mount) /\ q \notin SshCarveouts(set, Mount)
    BY <2>2, MasksBelow DEF HomeRule
  <2>4. q \notin HomeRule(set, Home) /\ q \notin CwdRule(set, cwd)
    BY <2>1 DEF HomeRule, CwdRule
  <2>5. /\ Granted(set, {"rw", "mkdir"}) \subseteq Granted(set, {"rw", "mkdir", "ro"})
        /\ Granted(set, {"ro"}) \subseteq Granted(set, {"rw", "mkdir", "ro"})
    BY DEF Granted
  <2>6. q \notin Subpath(Tmp) /\ q \notin UNION {Subpath(b) : b \in System}
    BY <2>2
  <2>7. q \in Writable(set, cwd) =>
          \/ q \in Granted(set, {"rw", "mkdir"}) \/ q \in FilesGranted(set) \/ q \in Subpath(Private)
    BY <2>3, <2>4, <2>6 DEF Writable
  <2>8. \/ q \in Writable(set, cwd) \/ q \in SshCarveouts(set, Home) \/ q \in Granted(set, {"ro"})
    <3>1. \/ q \in Writable(set, cwd) \/ q \in UNION {Subpath(b) : b \in System}
          \/ /\ set.mode = "casual"
             /\ q \in HomeRule(set, Home) \/ q \in SshCarveouts(set, Home) \/ q \in SshCarveouts(set, Mount)
          \/ q \in Granted(set, {"ro"})
      BY DEF Readable
    <3> QED BY <2>3, <2>4, <2>6, <3>1
  <2> QED BY <2>5, <2>7, <2>8
<1> QED BY <1>1, Invariant, PTL
=============================================================================
