------------------------------- MODULE Profile -------------------------------
(***************************************************************************)
(* The file rules of Config::generate_sandbox_profile (jaim.cc).  The      *)
(* profile denies by default and has no deny rule for files, so what a     *)
(* jailed process may do is the union of the allow rules: each rule is the *)
(* set of places it covers.                                                *)
(***************************************************************************)
EXTENDS Paths

CONSTANTS
    Home,       \* homepath_
    Mount,      \* overlay_mount_, under the per-user cache directory
    Tmp,        \* private_tmp_
    Private,    \* private_home_ of bare mode, under the real home
    System,     \* the subpath rules of the system read access
    Ssh,        \* the name ".ssh"
    Sibling,    \* pairs <<n, n'>> of names such that n' is n with a .suffix
    Public      \* names in it that SSH clients need: *.pub, known_hosts, agent

Subpath(b) == {q \in Path : q = b \/ Under(q, b)}

\* The home directory (/Users/name) has nothing in common with the temp
\* directory, the overlay's mount point and the system directories.
ASSUME PlacesApart ==
    /\ Home \in Seq(STRING) /\ Mount \in Seq(STRING)
    /\ \A b \in System \cup {Tmp, Mount} : Subpath(b) \cap Subpath(Home) = {}

\* The mask_files_ of settings s, below one view of the home directory.
Masked(s, base) == UNION {Subpath(base \o <<m>>) : m \in s.mask}

\* emit_home_rule
HomeRule(s, base) == Subpath(base) \ Masked(s, base)

\* emit_ssh_carveouts
SshCarveouts(s, base) ==
    IF Ssh \in s.mask THEN {q \in Path : \E n \in Public : q = base \o <<Ssh, n>>} ELSE {}

\* Mutant of CwdRule: the plain subpath rule that once was there.
CwdRuleUnmasked(s, cwd) == IF s.cwd THEN Subpath(cwd) ELSE {}

CwdRule(s, cwd) == IF s.cwd THEN Subpath(cwd) \ Masked(s, Home) ELSE {}

\* Both Config::exec and the profile refuse a current directory inside a mask.
CwdRefused(s, cwd) == s.cwd /\ cwd \in Masked(s, Home)

Granted(s, flags) == UNION {Subpath(d) : d \in {q \in DOMAIN s.grant : s.grant[q] \in flags}}

\* A granted file and what is called like it with a suffix, the temp files of
\* atomic writes; the pattern's `.+' takes in what is below those.
FilesGranted(s) ==
    s.file \cup UNION {Subpath(q) : q \in {q \in Path : \E f \in s.file :
                          Parent(q) = Parent(f) /\ <<f[Len(f)], q[Len(q)]>> \in Sibling}}

Writable(s, cwd) ==
    Subpath(Tmp)
      \cup (IF s.mode = "casual" THEN HomeRule(s, Mount) ELSE {})
      \cup (IF s.mode = "bare" THEN Subpath(Private) ELSE {})
      \cup CwdRule(s, cwd)
      \cup Granted(s, {"rw", "mkdir"}) \cup FilesGranted(s)

Readable(s, cwd) ==
    Writable(s, cwd)
      \cup (UNION {Subpath(b) : b \in System})
      \cup (IF s.mode = "casual"
            THEN HomeRule(s, Home) \cup SshCarveouts(s, Home) \cup SshCarveouts(s, Mount)
            ELSE {})
      \cup Granted(s, {"ro"})
=============================================================================
