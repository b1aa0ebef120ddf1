------------------------------- MODULE Config -------------------------------
(***************************************************************************)
(* How one invocation of jaim arrives at its settings (do_main, opt_parser *)
(* and parse_config_fd of jaim.cc): the command line is parsed, then a     *)
(* .conf file with what it includes, the command line again, the .jail     *)
(* file, and the command line a third time.  Then the sandbox profile is   *)
(* made from the result.                                                   *)
(*                                                                         *)
(* An option is a record of its long name and its value.  The lines of     *)
(* files are chosen as they are read.                                      *)
(***************************************************************************)
EXTENDS Profile, FiniteSets

CONSTANTS
    Invocation, \* records: argv, a sequence of options; cwd; line, the options
                \* that the files hold
    Dir,        \* the relative name that grant options are given
    Present,    \* places where there is a directory
    ConfFile,   \* configuration files, the chosen .conf file first among them
    TopConf,    \* ... which one that is
    Jail,       \* jail names
    DefaultJail,
    MaxLines    \* bound on the lines that the files have between them

Mode == {"casual", "bare", "strict"}

Option == [o : STRING, v : STRING]

DirOption == {"dir", "dir!", "rdir", "rdir?", "xdir", "file", "xfile"}

ASSUME ConfAssumption ==
    TopConf \in ConfFile /\ ConfFile \subseteq STRING /\ DefaultJail \in Jail /\ Jail \subseteq STRING

\* The values that options come with; what a handler does not take is "bad".
ASSUME InvocationAssumption ==
    \A i \in Invocation :
        /\ i.argv \in Seq(Option) /\ i.line \subseteq Option
        /\ \A opt \in i.line \cup {i.argv[n] : n \in 1..Len(i.argv)} :
            /\ opt.o = "mode" => opt.v \in Mode
            /\ opt.o = "jail" => opt.v \in Jail
            /\ opt.o \in DirOption => opt.v = Dir

VARIABLES
    pc,         \* where do_main is
    inv,        \* this invocation
    set,        \* the settings: members of Config
    stack,      \* files being parsed, innermost last: name, lines read, saved flag
    loop,       \* config_loop_detect_
    inFile,     \* parsing_config_file_
    jailFile,   \* jailFile[j]: "none", "user" (written by the user) or the mode
                \* line that ensure_file put there
    ref,        \* settings if each file line is applied once, in order
    heard,      \* of the lines of files: the xdir ones, and setenv VAR=value
    total       \* lines read

vars == <<pc, inv, set, stack, loop, inFile, jailFile, ref, heard, total>>

argv == inv.argv
cwd == inv.cwd

Opt(o, v) == [o |-> o, v |-> v]

\* Where the grants of the configurations are.
GrantPath == {b \o <<Dir>> : b \in {Home} \cup {i.cwd : i \in Invocation}}

\* Config as constructed.
Default == [mode |-> "strict", jail |-> "", cwd |-> TRUE, mask |-> {},
            grant |-> [q \in GrantPath |-> "none"], file |-> {}, filter |-> {}, setenv |-> "none"]

-----------------------------------------------------------------------------
(* opt_parser: what each option does to the settings s. *)

\* Relative names are taken from the home directory in a file and from the
\* current directory on the command line.
base == IF inFile THEN Home ELSE cwd

PlaceOf(opt, dir) == dir \o <<opt.v>>

\* emplace does not replace an entry.
Grant(s, q, flag) == IF s.grant[q] = "none" THEN [s EXCEPT !.grant[q] = flag] ELSE s

Mask(s, opt) == [s EXCEPT !.mask = IF opt.o = "mask" THEN @ \cup {opt.v} ELSE @ \ {opt.v}]

Unsetenv(s, v) == [s EXCEPT !.setenv = "none", !.filter = @ \cup {v}]

\* Mutant of Setenv: try_emplace instead of insert_or_assign.
SetenvKeeps(s, v) ==
    IF s.setenv # "none" THEN s
    ELSE IF v = "value" THEN [s EXCEPT !.setenv = "value"]
    ELSE IF "name" \in s.filter THEN [s EXCEPT !.filter = @ \ {"name"}]
    ELSE IF s.filter # {} THEN [s EXCEPT !.setenv = "outer"] ELSE s

\* One environment variable, set outside; a pattern is its name or a wildcard
\* that matches it.  `setenv VAR' takes VAR itself out of env_filter_, or
\* passes the outer value if a wildcard would strip it.
Setenv(s, v) ==
    IF v = "value" THEN [s EXCEPT !.setenv = "value"]
    ELSE IF "name" \in s.filter THEN [s EXCEPT !.filter = @ \ {"name"}]
    ELSE IF s.filter # {} THEN [s EXCEPT !.setenv = "outer"] ELSE s

Apply(s, opt, dir) ==
    CASE opt.o = "mode" -> [s EXCEPT !.mode = opt.v]
      [] opt.o = "jail" -> [s EXCEPT !.jail = opt.v]
      [] opt.o = "nocwd" -> [s EXCEPT !.cwd = FALSE]
      [] opt.o \in {"mask", "unmask"} -> Mask(s, opt)
      [] opt.o = "dir" -> Grant(s, PlaceOf(opt, dir), "rw")
      [] opt.o = "dir!" -> Grant(s, PlaceOf(opt, dir), "mkdir")
      [] opt.o = "rdir" -> Grant(s, PlaceOf(opt, dir), "ro")
      [] opt.o = "rdir?" -> IF PlaceOf(opt, dir) \in Present
                            THEN Grant(s, PlaceOf(opt, dir), "ro") ELSE s
      [] opt.o = "xdir" -> [s EXCEPT !.grant[PlaceOf(opt, dir)] = "none"]
      [] opt.o = "file" -> [s EXCEPT !.file = @ \cup {PlaceOf(opt, dir)}]
      [] opt.o = "xfile" -> [s EXCEPT !.file = @ \ {PlaceOf(opt, dir)}]
      [] opt.o = "unsetenv" -> Unsetenv(s, opt.v)
      [] opt.o = "setenv" -> Setenv(s, opt.v)
      [] OTHER -> s

\* The handler throws: a value it does not take, a directory that canonical()
\* does not find (dir! takes any, rdir? goes without), a jail name in a .jail
\* file or what that includes.
Refused(opt, dir, dotjail) ==
    \/ opt.o = "bad"
    \/ opt.o \in {"dir", "rdir", "xdir"} /\ PlaceOf(opt, dir) \notin Present
    \/ opt.o = "jail" /\ dotjail

\* The variable as the program has it: in what make_env makes for execve, or
\* in the process's own environment when execvp finds the program on PATH
\* after execve has failed.
Env(s, call) ==
    IF call = "execvp" THEN "outer"
    ELSE IF s.setenv # "none" THEN s.setenv ELSE IF s.filter = {} THEN "outer" ELSE "none"

\* Where the command line has one of the options os.
Said(os) == {i \in 1..Len(argv) : argv[i].o \in os}

\* parse_argspan: the handlers, in the order of the options; the settings
\* after each of them.
parse(s, opts, dir) ==
    LET f[i \in 0..Len(opts)] == IF i = 0 THEN s ELSE Apply(f[i - 1], opts[i], dir)
    IN  f

applied(s, opts) == parse(s, opts, base)[Len(opts)]

-----------------------------------------------------------------------------
(* do_main *)

Fail == pc' = "error" /\ UNCHANGED <<inv, set, jailFile, ref, heard>>

\* Mutant of Pass: the command line is not parsed again after the .jail file.
PassTwice(from, to) ==
    /\ pc = from
    /\ IF \E i \in 1..Len(argv) : Refused(argv[i], base, FALSE)
       THEN Fail
       ELSE /\ pc' = to
            /\ set' = IF from = "argv3" THEN set ELSE applied(set, argv)
            /\ UNCHANGED <<inv, jailFile, ref, heard>>
    /\ UNCHANGED <<stack, loop, inFile, total>>

\* parse_argv, on the same arguments each time.
Pass(from, to) ==
    /\ pc = from
    /\ IF \E i \in 1..Len(argv) : Refused(argv[i], base, FALSE)
       THEN Fail
       ELSE /\ pc' = to
            /\ set' = applied(set, argv)
            /\ UNCHANGED <<inv, jailFile, ref, heard>>
    /\ UNCHANGED <<stack, loop, inFile, total>>

\* Mutant of Enter: no look at config_loop_detect_.
EnterAgain(file, next) ==
    /\ stack' = Append(stack, [file |-> file, lines |-> 0, saved |-> inFile])
    /\ loop' = loop \cup {file} /\ inFile' = TRUE
    /\ pc' = next
    /\ UNCHANGED <<inv, set, jailFile, ref, heard>>

\* parse_config_fd up to its first line.
Enter(file, next) ==
    IF file \in loop
    THEN Fail /\ UNCHANGED <<stack, loop, inFile>>
    ELSE /\ stack' = Append(stack, [file |-> file, lines |-> 0, saved |-> inFile])
         /\ loop' = loop \cup {file} /\ inFile' = TRUE
         /\ pc' = next
         /\ UNCHANGED <<inv, set, jailFile, ref, heard>>

\* -u, --setup-user, --remove-user and --setup-setuid end here, and so does
\* --init once it has made default.jail.
EarlyExit == {"-u", "--init"}

Quit ==
    /\ pc = "conf" /\ Said(EarlyExit) # {}
    /\ pc' = "quit"
    /\ jailFile' = IF Said({"-u"}) = {} /\ jailFile[DefaultJail] = "none"
                   THEN [jailFile EXCEPT ![DefaultJail] = "casual"] ELSE jailFile
    /\ UNCHANGED <<inv, set, stack, loop, inFile, ref, heard, total>>

\* The .conf file: -C FILE, which must exist (--conf? too: opt_C_optional is
\* not looked at), else <cmd>.conf, else default.conf.
ReadConf ==
    /\ pc = "conf" /\ Said(EarlyExit) = {}
    /\ \/ Enter(TopConf, "inconf")
       \/ /\ Said({"conf", "conf?"}) # {}
          /\ Fail /\ UNCHANGED <<stack, loop, inFile>>
    /\ UNCHANGED total

\* A jail gets its name and, the first time, its .jail file.
ReadJail ==
    /\ pc = "dotjail"
    /\ LET j == IF set.jail = "" THEN DefaultJail ELSE set.jail IN
         /\ set' = [set EXCEPT !.jail = j]
         /\ ref' = [ref EXCEPT !.jail = IF @ = "" THEN DefaultJail ELSE @]
         /\ jailFile' = IF jailFile[j] # "none" THEN jailFile
                        ELSE [jailFile EXCEPT ![j] = IF j = DefaultJail THEN "casual"
                                                     ELSE set.mode]
    /\ stack' = <<[file |-> ".jail", lines |-> 0, saved |-> inFile]>>
    /\ loop' = loop \cup {".jail"} /\ inFile' = TRUE
    /\ pc' = "injail"
    /\ UNCHANGED <<inv, heard, total>>

-----------------------------------------------------------------------------
(* parse_file, parse_config_file *)

Top == stack[Len(stack)]

InFile == pc \in {"inconf", "injail"} /\ stack # <<>>

\* A .jail file that ensure_file wrote: it holds one line.
Created == Top.file = ".jail" /\ jailFile[set.jail] # "user"

NextLine(opt) ==
    IF Created
    THEN Top.lines = 0 /\ opt = Opt("mode", jailFile[set.jail])
    ELSE total < MaxLines /\ opt \in inv.line

\* A line that is not an include.
ReadLine(opt) ==
    /\ InFile /\ NextLine(opt) /\ opt.o \notin {"conf", "conf?"}
    /\ IF Refused(opt, base, pc = "injail")
       THEN Fail /\ UNCHANGED <<stack, loop, inFile>>
       ELSE /\ set' = Apply(set, opt, base)
            /\ ref' = Apply(ref, opt, Home)
            /\ heard' = IF opt.o = "xdir" \/ opt = Opt("setenv", "value")
                        THEN heard \cup {opt} ELSE heard
            /\ stack' = [stack EXCEPT ![Len(stack)].lines = @ + 1]
            /\ UNCHANGED <<pc, inv, loop, inFile, jailFile>>
    /\ total' = total + 1

\* An include.  A file that does not exist is an error only without the `?'.
Include(opt) ==
    /\ InFile /\ NextLine(opt) /\ opt.o \in {"conf", "conf?"}
    /\ \/ Enter(opt.v, pc)
       \/ /\ opt.v # TopConf
          /\ IF opt.o = "conf?"
             THEN UNCHANGED <<pc, inv, set, stack, loop, inFile, jailFile, ref, heard>>
             ELSE Fail /\ UNCHANGED <<stack, loop, inFile>>
    /\ total' = total + 1

\* The end of a file: Defer takes it out of config_loop_detect_ and restores
\* the flag.
Leave ==
    /\ InFile
    /\ Created => Top.lines = 1
    /\ stack' = SubSeq(stack, 1, Len(stack) - 1)
    /\ loop' = loop \ {Top.file}
    /\ inFile' = Top.saved
    /\ pc' = IF Len(stack) > 1 THEN pc ELSE IF pc = "inconf" THEN "argv2" ELSE "argv3"
    /\ UNCHANGED <<inv, set, jailFile, ref, heard, total>>

\* Config::exec: the check of the current directory, then the profile.
Exec ==
    /\ pc = "exec"
    /\ pc' = IF CwdRefused(set, cwd) THEN "error" ELSE "run"
    /\ UNCHANGED <<inv, set, stack, loop, inFile, jailFile, ref, heard, total>>

-----------------------------------------------------------------------------

Init == /\ pc = "argv1" /\ inv \in Invocation
        /\ set = Default /\ ref = Default
        /\ stack = <<>> /\ loop = {} /\ inFile = FALSE
        /\ jailFile \in [Jail -> {"none", "user"}]
        /\ heard = {} /\ total = 0

Next == \/ Pass("argv1", "conf") \/ Pass("argv2", "dotjail") \/ Pass("argv3", "exec")
        \/ Quit \/ ReadConf \/ ReadJail
        \/ \E opt \in inv.line \cup {Opt("mode", m) : m \in Mode} : ReadLine(opt) \/ Include(opt)
        \/ Leave \/ Exec

Spec == Init /\ [][Next]_vars

-----------------------------------------------------------------------------
(* Properties. *)

\* config_loop_detect_ and parsing_config_file_ follow the includes: a file is
\* refused exactly while it is being read (so the same file may be included
\* twice in a row), and whenever the command line is parsed its relative
\* names are taken from the current directory.
FlagsFollowStack ==
    pc # "error" =>
        /\ loop = {stack[i].file : i \in 1..Len(stack)}
        /\ Cardinality(loop) = Len(stack)
        /\ inFile <=> stack # <<>>
        /\ pc \in {"argv1", "argv2", "argv3"} => ~inFile

\* "Command-line options override everything, and .jail files override .conf
\* files": parsing the command line three times, around the files, is the
\* same as reading .conf, .jail and command line once each in that order, for
\* the mode, the jail, the current directory and the masks.
ParsedInOrder ==
    pc = "exec" =>
        LET once == applied(ref, argv)
        IN  /\ set.mode = once.mode /\ set.cwd = once.cwd /\ set.mask = once.mask
            /\ set.jail = once.jail

LastOf(I) == CHOOSE i \in I : \A j \in I : j <= i

\* A file took back a directory at this place.
Erased(place) == \E opt \in heard : opt.o = "xdir" /\ PlaceOf(opt, Home) = place

\* The same for the environment and the grants, whose handlers depend on what
\* is there already.  In the environment that execve is given, VAR is value
\* if --setenv VAR=value comes last on the command line; if --unsetenv comes
\* last and neither the command line nor a file has setenv VAR=value, VAR is
\* not there.  The last of --file and --xfile decides.  The directory that
\* the command line names is granted exactly if the command line alone would
\* grant it, and with the same access, unless a file took the place back with
\* xdir: then a grant by the file may stand in its stead (emplace does not
\* replace it), with the file's access.
CommandLineWins ==
    pc = "exec" =>
        LET env   == Said({"setenv", "unsetenv"})
            alone == applied(Default, argv)
            place == cwd \o <<Dir>>
            file  == Said({"file", "xfile"})
            given == {argv[i] : i \in env}
        IN  /\ env # {} =>
                 LET opt == argv[LastOf(env)]
                 IN  /\ opt = Opt("setenv", "value") => Env(set, "execve") = "value"
                     /\ opt.o = "unsetenv" /\ Opt("setenv", "value") \notin heard \cup given
                          => Env(set, "execve") = "none"
            /\ file # {} => (place \in set.file <=> argv[LastOf(file)].o = "file")
            /\ Said({"dir", "dir!", "rdir", "xdir"}) # {} =>
                 /\ set.grant[place] = "none" <=> alone.grant[place] = "none"
                 /\ set.grant[place] = alone.grant[place] \/ Erased(place)

\* The masks that .conf, .jail and command line leave in force keep files from
\* the jail under the real home's own paths, in every mode and from every
\* current directory, but for the grants and the files that SSH clients need.
\* (What the overlay's mount point shows of them is MasksHold's.)
RealHomeMasked ==
    pc = "run" =>
        Masked(applied(ref, argv), Home) \cap Readable(set, cwd) \subseteq
            Granted(set, {"rw", "mkdir", "ro"}) \cup FilesGranted(set)
              \cup SshCarveouts(set, Home) \cup Subpath(Private)

\* "Both views apply masks via require-not so sensitive subtrees stay
\* inaccessible regardless of which path the sandbox uses": in casual mode
\* the masked files cannot be read at the overlay's mount point either.
MasksHold ==
    pc = "run" /\ set.mode = "casual" =>
        Masked(set, Mount) \cap Readable(set, cwd) \subseteq
            Granted(set, {"rw", "mkdir", "ro"}) \cup FilesGranted(set)
              \cup SshCarveouts(set, Mount)
=============================================================================
