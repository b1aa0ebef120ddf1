# jaim in TLA+

jaim runs a command in a macOS sandbox. This project models the parts of it in
which the order of steps matters: the copy-on-write home, the life of a session,
the ACL sweeps, the `_jaim` account, the passes over configuration files and the
making of files on first use. The modules are checked with TLC on small instances;
the theorems in the `...Proofs` modules are checked with TLAPS and hold for every size.

## 1. The system

| Part | Where | State | Operations |
|---|---|---|---|
| Overlay helper (`jaim-overlay`) | `overlay.cc` | lower tree (the real home), upper tree (`<jail>.changes`) with whiteouts and opaque markers, open handles, `can_mknod_whiteout` | one FUSE handler per file-system call |
| Session | `Config::exec`, `jaim.cc` | `private_tmp_`, `overlay_pid_`, `overlay_mounted_`, effective uid, ACL entries on user paths, the child | launch, fork, wait, `atexit_fn`; `Defer` on failure |
| Teardown (`jaim -u`) | `Config::teardown` | jail directories, mounts, temp directories | a sweep per jail, one over the temp root |
| ACLs | `acl.cc` | extended ACL of each object in a granted tree | `apply_recursive`, `remove_recursive` |
| `_jaim` account | `setup_user.cc` | records `/Groups/_jaim`, `/Users/_jaim` | `--setup-user`, `--remove-user` |
| Credentials | `cred.cc` | uid, gid | `enter_permanently`, lookups |
| Options, configuration | `options.*`, `jaim.cc` | mode, jail, grants, masks, environment rules; `config_loop_detect_`, `parsing_config_file_` | three passes over the command line, around `.conf` with its includes and `.jail` |
| Sandbox profile | `generate_sandbox_profile` | none | allow rules from mode, grants, masks and current directory |
| Files on first use | `ensure_dir`, `ensure_file`, `fs.cc` | `.defaults`, `default.conf`, `<jail>.jail` and their temp files | open, or write a temp file, sync and rename |
| Helpers, data | rest of `fs.cc`, `default_conf.cc`, `complete.cc`, `defer.h`, ... | none of their own | |

How they meet. A casual session starts the helper as a child process, learns that
it has mounted by comparing `st_dev` of the mount point with what it was, and ends
it by unmounting, waiting and at last SIGTERM. A strict session needs the `_jaim`
account, hands its temp directory to it and puts ACL entries for it on the granted
paths. `jaim -u` knows nothing about running sessions: it finds directories and
mounts by name. Sessions of one jail share `<jail>.changes` and `<jail>.mount`;
strict sessions with a common grant share its ACL. Every invocation first ensures its
files, then parses, then makes the profile from the settings. No lock is taken
anywhere.

What is hard to test:

* the overlay's state is spread over two trees and three kinds of markers, and a
  marker put in the wrong place shows up many operations later;
* the helper may mount late, never, or die at any time, and the parent learns of it
  by polling;
* every process may be killed anywhere, and the next session or `jaim -u` meets
  what is left;
* the ACL sweep walks a tree that other processes are changing;
* one of a dozen `dscl` calls may fail, and so may its rollback;
* the helper's handlers run on several threads, and each is a dozen system calls;
* an option is handled three times, relative to two directories, and what a repeated
  option does depends on the option.

The list with line numbers is under `hazards` in `PROJECT.json`.

## 2. Modules

| Module | What it is |
|---|---|
| `Paths` | names as sequences; `Parent`, `Above`, `Below`, `Moved` |
| `PathLemmas` | lemmas about `Paths`; induction over names and over `Nat` |
| `FileTree` | abstract: an ordinary file tree |
| `Overlay` | the helper, and its refinement of `FileTree` (`TreeSpec`) |
| `OverlayProofs` | theorems about `Overlay` |
| `OverlaySteps` | the helper's handlers one system call at a time, on several threads |
| `OverlayStepsProofs` | theorems about `OverlaySteps` |
| `Session` | sessions, helpers as processes, `jaim -u` |
| `SessionProofs` | theorems about `Session` |
| `Acl` | the two ACL sweeps, step by step |
| `AclProofs` | theorems about `Acl` |
| `SetupUser` | the account commands |
| `SetupUserProofs` | theorems about `SetupUser` |
| `Profile` | the file rules of the sandbox profile, as sets of places |
| `Config` | one invocation's way to its settings; extends `Profile` |
| `ConfigProofs` | theorems about `Config` and `Profile` |
| `EnsureFile` | `ensure_dir` and `ensure_file` in several processes |
| `EnsureFileProofs` | theorems about `EnsureFile` |
| `MCOverlay`, `MCOverlaySteps`, `MCSession`, `MCAcl`, `MCSetupUser`, `MCConfig`, `MCEnsureFile` | instances for TLC |

**Overlay.** `lower` and `upper` map paths to objects; `sidecar` holds the paths
with a `.wh.<name>` file, `opaque` the directories with `.wh..wh..opq`. `Where` is
`resolve`, with `LowerAt` for its `lstat` below the real home, which follows the links
there are on the way; `Listing` is `op_readdir`, `CopyUp` is `copy_up` with `copy_regular` and
`copy_symlink`, and each `op_...` action is the handler of that name, as a whole.
`View` is what a client finds at each path; `Seen`, the refinement mapping, is `View`
without the bits that the helper's umask clears (`Masked`), which is what a copy-up
takes off a mode. Upper files
carry inode numbers, so hard links and handles whose name has gone are told apart.
What the kernel checks before calling a handler is in the `Kernel...` operators
(external). `Remount` restarts the helper over the same upper tree.

**OverlaySteps.** The same helper seen from closer: open with copy-up, write,
truncate, create, unlink and rename of regular files in one directory. `th[t]` is
where thread `t` is in its handler; each `pc` is the system call it makes next.
`clear_whiteout` is three of them (`FindDevice`, `ClearDevice`, `ClearSidecar`), so that
another thread may come between its `lstat` and its `unlink`.
`Fails` is that call failing, with what the error path undoes; `Crash` is the death
of the helper and its restart, perhaps with the same pid, over the same upper tree.
`PathLock` is the lock that libfuse holds for unlink and rename (external). `may[n]`
is a history variable: what finished operations have put at `n`; `raced` is another, the
names at which two handlers overlapped.

**Session.** One `pc` per invocation; its values are the calls of `Config::exec` in
program order, so a session may be killed, or something else may happen, between
any two. `LaunchPc` leads up to the fork, `WaitPc` is the waitpid loop, `AtexitPc`
is `atexit_fn`, `DeferPc` is `pre_fork_cleanup`. `...Fails` actions are exceptions.
The child has its own steps (`ChildDrop`, `ChildSandbox`, `ChildScrub`,
`ChildExec`), and so has the helper, seen from outside. `mnt[j]` names the session
whose helper's mount is at `<j>.mount`, which is what `st_dev` tells apart. Nothing keeps
a session out of a jail that is in use, so `Start` does not either; the history variable
`met[s]` has the sessions, or orphaned helpers yet to mount, that `s` was in its jail
together with, and `kept` those whose `remove_all` failed. `scrubbed` tells a child that
has closed its descriptors from one that `proc_pidinfo` told nothing about, `env` the
environment of `make_env` from jaim's own, which `execvp` passes on.

**Acl.** `toVisit` and `toList` are the walk's agenda: `Visit` is `lstat` and the
edit of one ACL, `List` is `opendir` and `readdir`. Both sweeps run against
`Create`, `Delete` and `Move` of other processes (external), where a new object
inherits its directory's entry. `Session` has a sweep as one step.

**SetupUser.** Each `dscl` call is an action, with one that fails beside it. The
rollbacks (`Undo...`) are the `catch` blocks. `Killed` may come between any two.

**Profile, Config.** `set` is the part of `Config` that options change, `Apply` is
`opt_parser`; it takes the directory that relative names are read against, which is
`base` of where the option stands. `parse` is one option after the other. `Pass` is a
pass over the command line; `ReadConf`, `ReadJail`, `ReadLine`, `Include` and `Leave`
are `parse_config_fd` with the stack of files it is in. The lines of files are chosen
when they are read, so every content is covered. `ref` is the reference: the settings if
each file line were applied once and in order; `heard` has the lines of files that
`CommandLineWins` makes an exception for. `Env` is what the program finds of one
variable, after `execve` with `make_env`'s environment or after `execvp` with jaim's.
`Writable` and `Readable` are the profile's allow rules; there is no deny rule for files, so the order of rules does not
matter.

**EnsureFile.** One `pc` per process; temp files are named after pids, which are used
again. A file has its contents and whether they are `whole`. `unlinkat` of a temp file may
fail unnoticed, before the exclusive create and in the `Defer` (`DropTemp`); `left` has
the pids whose temp file a kill or such a failure may have left. `Kill`, `UserEdit` and
`UserRemove` come at any time.

## 3. Runs

| Run | Instance | Shows |
|---|---|---|
| `overlay_tree` | 4 paths, depth 3, two contents, links to a directory, directory renames, a umask, sidecar whiteouts, one handle | the overlay implements `FileTree` but below a directory that takes over a name; `op_readdir` lists what lookups find; markers never hide or orphan what upper holds; copy-up on open is invisible but for the umask |
| `overlay_steps` | 2 threads, 2 names, 2 failures or crashes, one pid that is used again | through failures and crashes clients find what finished operations put there or what a cut-off one explains, where no two handlers overlapped; no part of a file shows; a rename never loses the file; only crashes leave temp files |
| `session_safety` | 2 sessions, 2 jails, shared or not, casual and strict, one `jaim -u` | confinement of the child, what an exit and what a failed launch leave, ACLs, whose overlay, pid, temp directory |
| `session_live` | 1 session, every mode and way of starting | launch ends; an exited child makes jaim exit |
| `acl` | 5 paths, 2 sessions in a row, any of which may be killed | the grant reaches every object; the strip leaves no entry |
| `setup_user` | 4 commands, 3 faults, 3 ids | success means a whole account; only failed deletes and kills leave pieces |
| `config` | up to 2 options, 2 `.conf` files, 2 jails, 4 file lines, 3 current directories | three passes amount to one in the documented order; the command line wins; the real home's masked files stay closed in every mode |
| `ensure_file` | 2 processes, 2 pids, one user edit | the file is whole or not there; temp files stay only after a kill or a failed unlink; each process gets to an end |
| `overlay_rename_dir`, `session_signal`, `session_shared_jail` | the smallest that shows it | findings 1 to 3 below |
| `config_masks` | that of `config` | finding 4 |

*Bounds.* Four paths hold a directory, an entry of it, one more level and a second
name: every case of `resolve` (hit, whiteout, opaque at or above, fall-through)
depends on a path and its ancestors, and rename on two paths. A link of the real home
leads to the directory `d`, from below it (`ln -s .. x`) or from beside it; `LowerAt`
follows one link on the way to a name, not a link behind a link. The real home's modes are
`rw` and the umask takes `w`, so that each copy-up shows. Whiteouts are sidecars there,
which is what an unprivileged helper gets on macOS; devices are in `overlay_steps`, and
the theorems cover both. One handle suffices since handlers do
not touch other handles. In `overlay_steps` two threads are the fewest that meet at a
name, and two names what a rename needs; `Attempts` is 2 of the code's 100 temp names,
so that they run out; `MaxFaults` is 2, a crash and a failure in what follows. Two
sessions are the fewest that collide on a jail, a grant or a sweep; there is no code
that involves three. `MaxSweeps`, `MaxSessions`, `MaxRuns` and `MaxFaults` bound what
is otherwise repeated for ever: two strict sessions give one that meets what another
left, and four account commands with three faults give a failed set-up with a failed
rollback, a retry, a removal and another set-up. `MaxLines` is 4: two lines of `.conf`
or an include around one, and two of `.jail`. `config` combines options with those
that touch the same setting; options of different kinds have no setting in common.
`ensure_file` has no bound besides its sets. `session_safety` and `overlay_steps` have
interchangeable sessions, threads and names and use symmetry; no liveness run does.

*Deadlock* is checked in `ensure_file`. It is not elsewhere: sessions end, commands and
lines are bounded, a parse ends, and the overlay may reach a state in which each client
call fails.

*Fairness* (`FairSpec`). Weak fairness of the parent's own steps (`Launch`, `Wait`,
`Cleanup`): a process that is not stopped is scheduled, and every wait of it is
bounded or for a helper that has been sent SIGTERM. Weak fairness of
`HelperTerminated`: libfuse's SIGTERM handler ends `fuse_main`. Nothing is assumed of
the child, of the helper's mounting or of its leaving after an unmount. In
`EnsureFile`, weak fairness of each process's own steps, none of which waits for
another process.

## 4. Theorems

`SessionProofs` proves, for any sets of sessions, jails, grants and configurations:

| Theorem | States | Rests on |
|---|---|---|
| `TypeCorrect` | `TypeOK` | |
| `Confinement` | `ChildConfined` | `ChildInv` |
| `PidSafety` | `PidValid` | `PidInv` |
| `AclSafety` | `AclStripped` | `AclInv` |
| `TmpSafety` | `TmpUsable` | `OwnerInv` |
| `OverlayIsOwn` | `OwnOverlay` | `Exclusive`, `PidInv`, `OverlayInv` |
| `ExitIsClean` | `CleanExit` | `PidInv`, `OverlayInv`, `TmpInv` |
| `FailureIsClean` | `CleanFailure` | `PidInv`, `OverlayInv`, `TmpInv`, `AclInv` |

Assumptions: `NoOneAssumption`, `ConfigAssumption`. Sessions may share jails: `met` says
in the statements what that can do to an overlay or a mount, `kept` what a failed
`remove_all` leaves, `failedAt` what a failed launch does.

The argument. None of the properties is inductive, because each speaks of the end of
a path. `ChildInv` carries the order drop, sandbox, scrub from the fork to the exec.
`OwnerInv` follows the temp directory from the parent's uid to the child's. `AclInv`
finds, for each entry, a strict session that has it to strip or ended without doing
so. `PidInv` says where a helper and `overlay_pid_` stand at each step, for the five places
that reap it. `Exclusive` says that who could mount in a live session's jail is in its
`met`; it lets `OverlayInv` follow `mnt`, `helper` and `overlay_mounted_` through
launch and both clean-ups, in particular that when polling began nothing was mounted but
by a session that was met, so a changed `st_dev` is the session's own mount otherwise.
`TmpInv` adds the temp directory. Each is an invariant of the `session_safety` instance. Every
proof has a lemma per group of actions (launch, wait, clean-up, child, helper) with a
step per action, and a lemma for `Next`.

`EnsureFileProofs` proves, for any processes, pids and contents:

| Theorem | States | Rests on |
|---|---|---|
| `TypeCorrect` | `TypeOK` | `OwnPid` |
| `FileComplete` | `Complete` | `TempState`, `OwnPid` |
| `NothingLeft` | `NoTempLeft` | `OwnPid` |

The only assumption is `NoneAssumption`. The invariant `Inv` is the conjunction of
`TypeOK`, `Complete`, `NoTempLeft` and two more. Nobody else touches a temp file because live
processes have distinct pids (`OwnPid`), and the exclusive create does not take over what
an ignored `unlinkat` left; so a temp file is as far as its owner (`TempState`), and what
`rename` puts at the name is whole. There is a lemma per action, with a step per part.

`OverlayProofs` proves, for any names at any depth, any real home, any handles and any
sequence of calls:

| Theorem | States | Rests on |
|---|---|---|
| `TypesAreKept` | `TypeOK` | `TypeInv`, `Reach` |
| `WritesStayReachable` | `UpperReachable` | `TypeInv`, `Reach` |
| `ListingsAreComplete` | `ListingComplete` | `TypeInv`, `Reach` |
| `CopyUpIsInvisible` | `CopyUpInvisible` | `TypeInv`, `Reach` |

Directory renames, links of the real home and any umask are included. `Reach` is
`UpperReachable` on any upper tree and markers, so that it can be followed through the
parts of a handler: after `copy_up`, after `ensure_upper_parents`, after the whiteout is
cleared, after the move. It is inductive together with the types, because a handler is
called only for a name that a client reached: on the way to it (`Clear`) there is no
whiteout, and what upper lacks there lower shows. `Placed` is the common argument of the
handlers that put something at one name or take it away, `MovedSound` that of `rename(2)`
on a subtree. For listings, `op_readdir` looks for a marker in the directory it reads and
in none above it; that loses no name, and adds one only below an opaque directory, into
which a directory without a marker was moved or made over a link (`ListingAgrees`, which
TLC checks). `CopyUpTwins` says that what `copy_up` adds, at the name and at the
directories on the way, has the attributes that lower showed there, under the umask.
`FreshInoIs` counts: names and handles cannot use up the inode numbers.

`OverlayStepsProofs` proves, for any number of threads, names, pids, failures and
crashes:

| Theorem | States | Rests on |
|---|---|---|
| `NeverPartial` | `NoPartial` | `TypeInv`, with `Temps` |
| `TempsBelong` | `NoLitter` | itself inductive with `Temps` |
| `RenameKeepsFile` | `RenameKeeps` | `Renaming`, `CopyingUp`, `Locked` |
| `FilesAreExplained` | `Explained` | `Explaining`, `Whiteouts` |

The temp file of a running copy-up is as far as its thread is and no other thread's
(`Temps`), so what `install` renames is whole. `PathLock` keeps unlink and rename of a
name apart (`Locked`); `Renaming` follows the file through the calls of `op_rename`,
while others may write to it. `Whiteouts` and `Hidden` say which marker goes with which
entry between two calls, `Open` what a handle is open on. `Explaining` is `Explained`
with a rename that has not moved its file yet told apart from one that has. Names at which
two handlers overlapped are outside `Explained`; the other three have no such exception.

`SetupUserProofs` proves, for any ids and any number of commands, faults and kills:

| Theorem | States | Rests on |
|---|---|---|
| `CreatedIsComplete` | `CreatedComplete` | `GroupState`, `UserState`, `Outcomes` |
| `ResolvesWithGroup` | `UserHasGroup` | itself, with `Resolving` |
| `FailureIsCoherent` | `FailureCoherent` | `Outcomes`, `Tidy` |
| `RemovalIsComplete` | `RemovedGone` | `Outcomes` |

`GroupState` and `UserState` say how far the two records have come at each `dscl` call, in
terms of the attributes set before it, `Resolving` from which call on the user resolves,
and `Tidy` what there is between commands when no delete failed and none was killed. The
statements have that condition: `UserHasGroup` says nothing once a delete of the user has
failed, `FailureCoherent` and `RemovedGone` nothing once something was left.

`AclProofs` proves, for any tree, any grant and any number of sessions, while others
create and delete objects:

| Theorem | States | Rests on |
|---|---|---|
| `StripIsComplete` | `StripComplete` | `Stripping`, `Carriers`, `Tree` |
| `GrantIsComplete` | `GrantReaches` | `Granting`, `Tree` |

During the strip an object that has the entry, and during the grant one that lacks it, is
pending: the walk has yet to visit it, or to visit or list a directory above it
(`Stripping`, `Granting`). What is created meanwhile inherits its directory's entry, and
so is on the right side or pending as that directory is.

`ConfigProofs` proves, for any command line, any files with any nesting of includes, any
jails, masks and grants:

| Theorem | States | Rests on |
|---|---|---|
| `FlagsAreRight` | `FlagsFollowStack` | `Nesting` |
| `OrderIsKept` | `ParsedInOrder` | `Agreeing`, `Parsed` |
| `CommandLineHasLastWord` | `CommandLineWins` | itself, with `Granting` |
| `MasksAreKept` | `RealHomeMasked` | `Parsed` and the rules of `Profile` |

The settings and the reference start apart, since the first pass has put the command line
in; what they differ in is only what the command line will set again (`Agreeing`). The
argument is about a command line of any length: `parse` is a recursive function, `ParseIs`
shows that it meets its recurrence, and `Induct` is induction over the options, as a
statement about the set of positions where a fact fails and `Least`. `ApplyBecomes` says
what one option does to each setting, `ParseKeeps` and `LastOfIs` what many do.

Assumptions, and what in the code justifies them:

* `PathsAreSequences`, `PathsClosed`: names are non-empty sequences of strings, and the
  parent of a name in use is in use or the root.
* `LayersAssumption` (`Overlay`): `Empty` and the real home's contents are contents, modes
  are sets of bits, names and handles are finite in number.
* `ContentAssumption`, `BoundsAssumption` (`OverlaySteps`): the markers are no contents;
  `Attempts > 0` (the code tries 100 temp names).
* `IdsAssumption`, `GrantAssumption` and the bounds: ids and bounds are natural numbers,
  the grant is a path.
* `ConfAssumption`, `InvocationAssumption`: an option comes with a value its handler takes,
  or with `"bad"`, which stands for every value it refuses.
* `PlacesApart` (`Profile`): the real home (`/Users/name`) has nothing in common with the
  temp directory, the overlay's mount (both in per-user directories of `/private/var`) and
  the system directories of the profile. An account whose home lies in one of those, such
  as a service account below `/private/var`, is not covered by `MasksAreKept`.

Only model-checked: liveness (`LaunchEnds`, `CleanupEnds`, `EnsureEnds`), which the prover
does not handle; the refinement of `FileTree` (`TreeSpec`) and `ListingAgrees`, which are
next in the plan.

## 5. Findings

1. `overlay_rename_dir`: `op_rename` does not write the opaque marker that two comments
   say it does. Renaming an empty directory `e` to `d`, of which the real home has one with
   an entry, succeeds though `d` is not empty, and the entry shows in the renamed one.
2. `session_signal`: when the child dies of a signal jaim raises it before `atexit_fn`.
3. `session_shared_jail`: the mount taken for stale may be a running session's.
4. `config_masks`: the read rule for `/private/var` (`jaim.cc:507`) covers the overlay's
   mount point, so in casual mode masked files can be read there, though the comment at
   `jaim.cc:553` says that masks hold in both views of the home.

Seen while modelling, without a run of their own:

* `jaim.cc:1234`: `execve` fails for a program that is to be found on `PATH`, and the
  `execvp` after it passes on jaim's own environment: `--setenv`, `--unsetenv`, the private
  `TMPDIR` and casual mode's `HOME` do not reach the program, against `jaim.1.md:463`.
  `EnvFiltered` in `Session` states what the manual says.
* `jaim.cc:1196`: if `proc_pidinfo` fails, inherited descriptors stay open in the jail,
  though the comment at 1189 says that every one is closed. `ChildConfined` excepts that.
* `jaim.cc:1068`: the `Defer` does not strip ACL entries, and is made after steps that may
  throw with the temp directory there (`canonical` at 909, the home, the helper), the last
  of them with a crashed helper's mount. `CleanFailure` says which step leaves what.
* `overlay.cc:471`: the mode of a copied-up file passes through the helper's umask,
  though the comments at 42 and 451 say that modes are preserved; so does a directory's
  (590). `CopyUpInvisible` allows that and nothing else.
* `overlay.cc:766`: `op_mkdir` marks a directory opaque if lower has a directory there, not
  if lower has a link to one; `lstat` (285) and `opendir` (720) follow the link, and the
  target's entries show in the new directory. `TreeSpec` excepts that step (`DirTakesOver`).
* `overlay.cc:686`: after a directory was renamed below an opaque one, `op_readdir` lists
  names of the real home that no lookup finds. `ListingComplete` and `ListingAgrees` say
  when.
* `overlay.cc:951`: `chmod` and `utimens` follow a link with an absolute target, which the
  jail may make, out of the mount and change the real home (`op_chmod_link`).
* `overlay.cc:1370`: `fuse_main` runs handlers on several threads, though the comment at
  1364 says one. Two overlapping copy-ups of one file lose what was written to the first
  copy, and `clear_whiteout` may remove, at 392, a file that another thread created after
  the look at 391. `Explained` excepts names at which two handlers overlapped.
* `overlay.cc:801`, `overlay.cc:897`: an unlink or rename that is cut short, or a rename
  that fails, may uncover the real home's file. `Explained` counts that as explained.
* `overlay.cc:469`: a crash leaves `.jaim-cu.` files in the upper tree, where clients
  see them.
* `jaim.cc:1470`: `jaim -u` skips temp directories that root or `_jaim` owns, though
  `jaim.1.md:561` makes no such difference.
* `jaim.cc:1504`: `emplace` keeps the first of two grants for a path, though
  `default_conf.cc:37` says later lines override. A file with `xdir` and then `dir` can
  change the flag of a grant made on the command line, though `jaim.1.md:362` says that
  the command line overrides; `CommandLineWins` names this.
* `jaim.cc:1513`: `dir!` is to create the directory (`jaim.h:108`), but nothing reads
  `kGrantMkdir`.
* `jaim.cc:1653`: `unsetenv V` after `setenv V=x` removes `V`, though `jaim.1.md:481` says
  that it is assigned whatever the order. `CommandLineWins` is about orders on which the two
  agree.
* `jaim.cc:1921`: `--conf?` with a file that does not exist is an error (nothing reads
  `opt_C_optional`), though `jaim.1.md:353` says that it is not one.
* `jaim.cc:256`: `--initjail` is documented (`jaim.1.md:532`) and `init_jail` is never
  called.
* `fs.cc:279`: `fsync` does not reach the disk on macOS, `F_FULLFSYNC` does; after a loss of
  power the file may be empty.
* `fs.cc:281`: two first runs at once may replace each other's file, and an edit made in
  between.

## 6. What is left out

* Overlay: extended attributes, statfs, read-only handles, attributes of the root,
  reserved names (`.wh.`) used by clients, a real home that changes underneath.
  `OverlaySteps` has regular files only: directories, links and the making of upper
  parents are whole steps in `Overlay`. `op_chmod` stands for chown, utimens and their
  like. A second link on the way to a name below a
  link of the real home is not followed.
* Session: a force-unmount is assumed to succeed, and macFUSE to refuse a mount over a
  mount. A jail's sweep is one step. `waitpid` itself does not fail. A temp directory is
  its owner, not its contents. A dead helper's mount counts as a mount.
* Acl: permission bits, other accounts' entries, a path that changes its type between
  `lstat` and the edit. Renames may carry an entry past the sweep; the properties except
  sessions during which there was one.
* SetupUser: two commands at once; `--setup-setuid`; attribute values other than gids.
* Config: the text of files and arguments (quoting, continuation lines, `${VAR}`),
  `--script`, `--initjail`, `--command`, `--storage`, completion. These turn strings into
  strings, or set a member that nothing else here reads. `Env` follows one variable and
  one pattern that matches it.
* Profile: Mach, IPC, network, device and process rules are constant text. How Seatbelt
  matches a path is external.
* `fs.cc`: descriptor wrappers, `read_file` and path functions are single calls or pure.
  `ensure_dir` is modelled with one component, which is never removed, and without its
  check of owner and mode. Loss of power is left out: plain `fsync` promises nothing on
  macOS that a property could rest on.

## 7. Plan

1. The refinement of `FileTree` as a theorem: each handler's effect on `Seen`, from `Reach`
   and two invariants more, that names with one inode number show one object and which
   directories below an opaque one have markers. The latter proves `ListingAgrees` too.
2. `SetupUser` with two commands at once.
3. An abstract `Lease` (resources taken and given back) that `Session` implements.
