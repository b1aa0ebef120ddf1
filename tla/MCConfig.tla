------------------------------ MODULE MCConfig ------------------------------
(* The instance of Config for TLC. *)
EXTENDS Config

HomeDir == <<"home">>
MountDir == <<"var", "mount">>
TmpDir == <<"var", "tmp">>
PrivateDir == <<"home", "jaim">>
Suffixed == {<<"w", "w.tmp">>}
SystemDirs == {<<"var">>}

\* The home with .ssh, a work directory and bare mode's home in it; a
\* directory elsewhere; the overlay's view; the temp directory.
Places ==
    {HomeDir, <<"home", "ssh">>, <<"home", "ssh", "key">>, <<"home", "ssh", "key.pub">>,
     <<"home", "w">>, <<"home", "w.tmp">>, <<"home", "ssh", "w">>, PrivateDir,
     <<"out">>, <<"out", "w">>, <<"var">>, MountDir,
     <<"var", "mount", "ssh">>, <<"var", "mount", "ssh", "key">>, TmpDir}

Dirs == Places \ {<<"home", "ssh", "w">>}

\* What configurations are about: who sees what, directory grants, and the
\* environment.
Modes == {Opt("mode", m) : m \in Mode}
Masks == {Opt(o, "ssh") : o \in {"mask", "unmask"}}
Views == Modes \cup Masks \cup {Opt("nocwd", ""), Opt("jail", "j")}
Grants == {Opt(o, "w") : o \in {"dir", "rdir", "dir!", "rdir?", "xdir", "file", "xfile"}}
Envs == {Opt("unsetenv", "name"), Opt("unsetenv", "wildcard"), Opt("setenv", "name"),
         Opt("setenv", "value")}
Includes == {Opt("conf", "inc"), Opt("conf?", "inc"), Opt("conf", "top")}

\* No options, one, or two of the same kind.
Given(opts, pairs, cwds, lines) ==
    [argv : {<<>>} \cup {<<o>> : o \in opts} \cup pairs, cwd : cwds, line : {lines}]

Invocations ==
    Given(Views, (Modes \X Modes) \cup (Masks \X Masks),
          {HomeDir, <<"home", "ssh">>, <<"out">>}, Views \cup Includes \cup {Opt("bad", "")})
      \cup Given(Grants, Grants \X Grants, {HomeDir, <<"home", "ssh">>},
                 Grants \cup Includes \cup {Opt("mode", "casual"), Opt("mask", "ssh")})
      \cup Given(Envs, Envs \X Envs, {HomeDir}, Envs \cup Includes)
      \cup Given({Opt(o, "top") : o \in {"conf", "conf?", "-u", "--init", "bad"}}, {},
                 {HomeDir}, Masks)
=============================================================================
