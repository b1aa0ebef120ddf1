------------------------------- MODULE Session -------------------------------
(***************************************************************************)
(* The life of jaim invocations on one host: Config::exec (jaim.cc) sets   *)
(* up the private temp directory, the home of the mode and the ACLs, forks *)
(* the sandboxed child, waits for it and cleans up in atexit_fn, while     *)
(* jaim-overlay helpers mount and exit, processes are killed, and `jaim    *)
(* -u' (Config::teardown) sweeps.                                          *)
(*                                                                         *)
(* A step of Config::exec is one action per call that changes the host.    *)
(* An exception leaves through main, which prints it and exits 1; only the *)
(* part of exec between the Defer and its release cleans up on the way.    *)
(***************************************************************************)
EXTENDS Naturals, FiniteSets

CONSTANTS
    Session,        \* invocations of jaim
    NoOne,          \* not a session
    Config,         \* what an invocation may be: records [mode, via, jail, grant]
    Jail,           \* sandbox names (-j)
    Grant,          \* user paths that strict sessions are granted
    MaxSweeps       \* bound: runs of `jaim -u'

ASSUME NoOneAssumption == NoOne \notin Session

ASSUME ConfigAssumption ==
    Config \subseteq [mode : {"casual", "bare", "strict"}, via : {"plain", "setuid", "sudo"},
                      jail : Jail, grant : Grant]

ASSUME MaxSweepsAssumption == MaxSweeps \in Nat

VARIABLES
    pc,         \* where exec is
    cfg,        \* what the invocation's options and files amount to; never changes
    euid,       \* the parent's effective uid
    tmp,        \* owner of private_tmp_'s directory, or "none"
    mnt,        \* mnt[j]: the session whose helper's mount is at <j>.mount
    dirs,       \* dirs[j]: the directories kept for jail j
    ace,        \* grants that carry ACL entries for _jaim
    helper,     \* the state of the session's jaim-overlay process
    termed,     \* SIGTERM has been sent to the helper
    pid,        \* overlay_pid_ > 0
    mounted,    \* overlay_mounted_
    pre,        \* what was mounted when pre_sb was taken
    child,      \* the state of the sandboxed child
    childUid,   \* its uid
    boxed,      \* it has called sandbox_init
    scrubbed,   \* what became of the descriptors above stderr: "open", "closed",
                \* or "unlisted" when proc_pidinfo would not say which there are
    env,        \* the program's environment: make_env's, or jaim's own
    failedAt,   \* history: where exec threw
    kept,       \* history: sessions whose remove_all of the temp directory failed
    met,        \* history: met[s], the sessions that s shared its jail with
    sweeping,   \* a `jaim -u' is in progress
    todo,       \* jails it has yet to sweep
    sweeps      \* sweeps begun

vars == <<pc, cfg, euid, tmp, mnt, dirs, ace, helper, termed, pid, mounted, pre,
          child, childUid, boxed, scrubbed, env, failedAt, kept, met, sweeping, todo, sweeps>>

childVars == <<child, childUid, boxed, scrubbed, env>>
ghostVars == <<failedAt, kept, met>>
sweepVars == <<sweeping, todo, sweeps>>
overlayVars == <<mnt, helper, termed, pid, mounted, pre>>

Mode(s) == cfg[s].mode
JailOf(s) == cfg[s].jail

LaunchPc == {"elevate", "preflight", "mktmp", "home", "unmount", "helper", "polling",
             "late_reap", "prep", "acl", "profile", "fork"}
WaitPc == {"wait", "stopped"}
AtexitPc == {"ax_acl", "ax_unmount", "ax_helper", "ax_nudge", "ax_reap", "ax_tmp"}
DeferPc == {"df_unmount", "df_reap", "df_tmp"}
Alive == LaunchPc \cup WaitPc \cup AtexitPc \cup DeferPc
\* Ended: cleanly, by an exception, by raising the child's signal, by a signal.
Gone == {"exited", "failed", "raised", "killed"}

Goto(s, l) == pc' = [pc EXCEPT ![s] = l]

\* An exception at step l that nothing in exec catches.
ThrowAt(s, l) == Goto(s, "failed") /\ failedAt' = [failedAt EXCEPT ![s] = l]
                 /\ UNCHANGED <<kept, met>>
Throw(s) == ThrowAt(s, pc[s])

\* remove_all of the temp directory, its error_code not looked at.
RemoveTmp(s) == /\ \/ tmp' = [tmp EXCEPT ![s] = "none"] /\ UNCHANGED kept
                   \/ UNCHANGED tmp /\ kept' = kept \cup {s}
                /\ UNCHANGED <<failedAt, met>>

-----------------------------------------------------------------------------
(* Launch. *)

\* The other sessions that use jail j: live ones, and ones that are gone but
\* whose helper has yet to mount.
Using(s, j) == {t \in Session \ {s} :
                  /\ pc[t] # "idle" /\ JailOf(t) = j
                  /\ pc[t] \in Alive \/ helper[t] = "starting"}

\* do_main drops a setuid-root euid before anything else.  Nothing keeps jaim
\* out of a jail that is in use.
Start(s) ==
    /\ pc[s] = "idle"
    /\ euid' = [euid EXCEPT ![s] = IF cfg[s].via = "sudo" THEN "root" ELSE "user"]
    /\ Goto(s, "elevate")
    /\ LET others == Using(s, JailOf(s))
       IN  met' = [t \in Session |-> IF t = s THEN others
                                     ELSE IF t \in others THEN met[t] \cup {s} ELSE met[t]]
    /\ UNCHANGED <<cfg, tmp, dirs, ace, childVars, failedAt, kept, sweepVars, overlayVars>>

\* Strict mode takes root back; seteuid(0) needs sudo or a setuid binary.
Elevate(s) ==
    /\ pc[s] = "elevate"
    /\ Mode(s) = "strict" => cfg[s].via # "plain"
    /\ euid' = [euid EXCEPT ![s] = IF Mode(s) = "strict" THEN "root" ELSE @]
    /\ Goto(s, "preflight")
    /\ UNCHANGED <<cfg, tmp, dirs, ace, childVars, ghostVars, sweepVars, overlayVars>>

\* No root, or no _jaim account.
ElevateFails(s) ==
    /\ pc[s] = "elevate" /\ Mode(s) = "strict"
    /\ Throw(s)
    /\ UNCHANGED <<cfg, euid, tmp, dirs, ace, childVars, sweepVars, overlayVars>>

Preflight(s) ==
    /\ pc[s] = "preflight"
    /\ Goto(s, "mktmp")
    /\ UNCHANGED <<cfg, euid, tmp, dirs, ace, childVars, ghostVars, sweepVars, overlayVars>>

\* The working directory is inside a masked path.
PreflightFails(s) ==
    /\ pc[s] = "preflight"
    /\ Throw(s)
    /\ UNCHANGED <<cfg, euid, tmp, dirs, ace, childVars, sweepVars, overlayVars>>

MakeTmp(s) ==
    /\ pc[s] = "mktmp"
    /\ tmp' = [tmp EXCEPT ![s] = euid[s]]
    /\ Goto(s, IF Mode(s) = "strict" THEN "prep" ELSE "home")
    /\ UNCHANGED <<cfg, euid, dirs, ace, childVars, ghostVars, sweepVars, overlayVars>>

\* mkdtemp fails, or canonical does when the directory is there.
MakeTmpFails(s) ==
    /\ pc[s] = "mktmp"
    /\ \/ Throw(s) /\ UNCHANGED tmp
       \/ ThrowAt(s, "canonical") /\ tmp' = [tmp EXCEPT ![s] = euid[s]]
    /\ UNCHANGED <<cfg, euid, dirs, ace, childVars, sweepVars, overlayVars>>

BareHome(s) ==
    /\ pc[s] = "home" /\ Mode(s) = "bare"
    /\ dirs' = [dirs EXCEPT ![JailOf(s)] = @ \cup {".home"}]
    /\ Goto(s, "prep")
    /\ UNCHANGED <<cfg, euid, tmp, ace, childVars, ghostVars, sweepVars, overlayVars>>

CasualDirs(s) ==
    /\ pc[s] = "home" /\ Mode(s) = "casual"
    /\ dirs' = [dirs EXCEPT ![JailOf(s)] = @ \cup {".changes", ".mount"}]
    /\ Goto(s, "unmount")
    /\ UNCHANGED <<cfg, euid, tmp, ace, childVars, ghostVars, sweepVars, overlayVars>>

\* ensure_udir finds no directory, or not the user's, or canonical fails: some
\* of the directories are there by then.
HomeFails(s) ==
    /\ pc[s] = "home"
    /\ \E made \in IF Mode(s) = "bare" THEN {{}, {".home"}}
                    ELSE {{}, {".changes"}, {".changes", ".mount"}} :
          dirs' = [dirs EXCEPT ![JailOf(s)] = @ \cup made]
    /\ Throw(s)
    /\ UNCHANGED <<cfg, euid, tmp, ace, childVars, sweepVars, overlayVars>>

\* Mutant of ForceUnmount: a mount is never stale.
ForceUnmountNot(s) ==
    /\ pc[s] = "unmount"
    /\ Goto(s, "helper")
    /\ UNCHANGED <<cfg, euid, tmp, dirs, ace, childVars, ghostVars, sweepVars, overlayVars>>

\* Whatever is mounted at <jail>.mount is taken to be a crashed session's.
ForceUnmount(s) ==
    /\ pc[s] = "unmount"
    /\ mnt' = [mnt EXCEPT ![JailOf(s)] = NoOne]
    /\ Goto(s, "helper")
    /\ UNCHANGED <<cfg, euid, tmp, dirs, ace, helper, termed, pid, mounted, pre, childVars,
                   ghostVars, sweepVars>>

\* pre_sb, then fork and exec of jaim-overlay.
StartHelper(s) ==
    /\ pc[s] = "helper"
    /\ pre' = [pre EXCEPT ![s] = mnt[JailOf(s)]]
    /\ helper' = [helper EXCEPT ![s] = "starting"]
    /\ pid' = [pid EXCEPT ![s] = TRUE]
    /\ Goto(s, "polling")
    /\ UNCHANGED <<cfg, euid, tmp, dirs, ace, mnt, termed, mounted, childVars, ghostVars, sweepVars>>

\* find_overlay_helper, stat or fork fails.
StartHelperFails(s) ==
    /\ pc[s] = "helper"
    /\ Throw(s)
    /\ UNCHANGED <<cfg, euid, tmp, dirs, ace, childVars, sweepVars, overlayVars>>

\* st_dev of the mount point is no longer what it was.
PollMounted(s) ==
    /\ pc[s] = "polling" /\ mnt[JailOf(s)] # pre[s]
    /\ mounted' = [mounted EXCEPT ![s] = TRUE]
    /\ pre' = [pre EXCEPT ![s] = NoOne]
    /\ Goto(s, "prep")
    /\ UNCHANGED <<cfg, euid, tmp, dirs, ace, mnt, helper, termed, pid, childVars, ghostVars,
                   sweepVars>>

\* waitpid of a helper that has exited.
Reap(s) == helper[s] = "exited" /\ helper' = [helper EXCEPT ![s] = "reaped"]

\* overlay_pid_ = 0
ForgetPid(s) == pid' = [pid EXCEPT ![s] = FALSE]

\* The stat of this attempt came before the mount, the waitpid after the exit.
PollExited(s) ==
    /\ pc[s] = "polling"
    /\ Reap(s) /\ ForgetPid(s) /\ Throw(s)
    /\ UNCHANGED <<cfg, euid, tmp, dirs, ace, mnt, termed, mounted, pre, childVars, sweepVars>>

\* Mutant of PollTimeout: the helper is waited for but not told to go.
PollTimeoutNoTerm(s) ==
    /\ pc[s] = "polling"
    /\ Goto(s, "late_reap")
    /\ UNCHANGED <<cfg, euid, tmp, dirs, ace, childVars, ghostVars, sweepVars, overlayVars>>

\* 100 attempts are over: SIGTERM, then a blocking wait.
PollTimeout(s) ==
    /\ pc[s] = "polling"
    /\ termed' = [termed EXCEPT ![s] = TRUE]
    /\ Goto(s, "late_reap")
    /\ UNCHANGED <<cfg, euid, tmp, dirs, ace, mnt, helper, pid, mounted, pre, childVars,
                   ghostVars, sweepVars>>

LateReap(s) ==
    /\ pc[s] = "late_reap"
    /\ Reap(s) /\ ForgetPid(s) /\ Throw(s)
    /\ UNCHANGED <<cfg, euid, tmp, dirs, ace, mnt, termed, mounted, pre, childVars, sweepVars>>

\* Mutant of Prepare: the temp directory stays root's.
PrepareNoChown(s) ==
    /\ pc[s] = "prep"
    /\ Goto(s, "acl")
    /\ UNCHANGED <<cfg, euid, tmp, dirs, ace, childVars, ghostVars, sweepVars, overlayVars>>

\* The Defer is installed; make_script, and in strict mode the temp directory
\* is handed to _jaim.
Prepare(s) ==
    /\ pc[s] = "prep"
    /\ tmp' = [tmp EXCEPT ![s] = IF Mode(s) = "strict" THEN "_jaim" ELSE @]
    /\ Goto(s, "acl")
    /\ UNCHANGED <<cfg, euid, dirs, ace, childVars, ghostVars, sweepVars, overlayVars>>

GrantAcl(s) ==
    /\ pc[s] = "acl"
    /\ ace' = IF Mode(s) = "strict" THEN ace \cup {cfg[s].grant} ELSE ace
    /\ Goto(s, "profile")
    /\ UNCHANGED <<cfg, euid, tmp, dirs, childVars, ghostVars, sweepVars, overlayVars>>

\* generate_sandbox_profile, then pre_fork_cleanup.release().
Profile(s) ==
    /\ pc[s] = "profile"
    /\ Goto(s, "fork")
    /\ UNCHANGED <<cfg, euid, tmp, dirs, ace, childVars, ghostVars, sweepVars, overlayVars>>

\* make_script, chown or generate_sandbox_profile throws: the Defer runs.
PrepareFails(s) ==
    /\ pc[s] \in {"prep", "profile"}
    /\ Goto(s, "df_unmount")
    /\ failedAt' = [failedAt EXCEPT ![s] = pc[s]]
    /\ UNCHANGED <<cfg, euid, tmp, dirs, ace, childVars, kept, met, sweepVars, overlayVars>>

Fork(s) ==
    /\ pc[s] = "fork"
    /\ child' = [child EXCEPT ![s] = "forked"]
    /\ childUid' = [childUid EXCEPT ![s] = euid[s]]
    /\ Goto(s, "wait")
    /\ UNCHANGED <<cfg, euid, tmp, dirs, ace, boxed, scrubbed, env, ghostVars, sweepVars, overlayVars>>

ForkFails(s) ==
    /\ pc[s] = "fork"
    /\ Throw(s)
    /\ UNCHANGED <<cfg, euid, tmp, dirs, ace, childVars, sweepVars, overlayVars>>

-----------------------------------------------------------------------------
(* The Defer: unmount and SIGTERM, reap, remove the temp directory.  The    *)
(* ACL entries are not its business.                                        *)

\* unmount(2) acts on whatever is mounted at the path.
Unmount(s) == /\ mnt' = IF mounted[s] THEN [mnt EXCEPT ![JailOf(s)] = NoOne] ELSE mnt
              /\ mounted' = [mounted EXCEPT ![s] = FALSE]

\* Mutant of DeferUnmount: the helper is not waited for.
DeferUnmountNoReap(s) ==
    /\ pc[s] = "df_unmount"
    /\ Unmount(s)
    /\ termed' = [termed EXCEPT ![s] = @ \/ pid[s]]
    /\ Goto(s, "df_tmp")
    /\ UNCHANGED <<cfg, euid, tmp, dirs, ace, helper, pid, pre, childVars, ghostVars, sweepVars>>

DeferUnmount(s) ==
    /\ pc[s] = "df_unmount"
    /\ Unmount(s)
    /\ termed' = [termed EXCEPT ![s] = @ \/ pid[s]]
    /\ Goto(s, IF pid[s] THEN "df_reap" ELSE "df_tmp")
    /\ UNCHANGED <<cfg, euid, tmp, dirs, ace, helper, pid, pre, childVars, ghostVars, sweepVars>>

DeferReap(s) ==
    /\ pc[s] = "df_reap"
    /\ Reap(s) /\ ForgetPid(s)
    /\ Goto(s, "df_tmp")
    /\ UNCHANGED <<cfg, euid, tmp, dirs, ace, mnt, termed, mounted, pre, childVars, ghostVars, sweepVars>>

DeferTmp(s) ==
    /\ pc[s] = "df_tmp"
    /\ RemoveTmp(s)
    /\ Goto(s, "failed")
    /\ UNCHANGED <<cfg, euid, dirs, ace, childVars, sweepVars, overlayVars>>

-----------------------------------------------------------------------------
(* The child, between fork and exec, and then the jailed program. *)

SetChild(s, st) == child' = [child EXCEPT ![s] = st]

childFrame == <<pc, cfg, euid, tmp, dirs, ace, ghostVars, sweepVars, overlayVars>>

\* Mutant of ChildDrop: the wrong account.
ChildDropNobody(s) ==
    /\ child[s] = "forked"
    /\ SetChild(s, "dropped")
    /\ childUid' = [childUid EXCEPT ![s] = IF Mode(s) = "strict" THEN "nobody" ELSE @]
    /\ UNCHANGED <<boxed, scrubbed, env, childFrame>>

\* enter_permanently: from root to _jaim, for good.
ChildDrop(s) ==
    /\ child[s] = "forked"
    /\ Mode(s) = "strict" => childUid[s] = "root"
    /\ SetChild(s, "dropped")
    /\ childUid' = [childUid EXCEPT ![s] = IF Mode(s) = "strict" THEN "_jaim" ELSE @]
    /\ UNCHANGED <<boxed, scrubbed, env, childFrame>>

\* Mutant of ChildSandbox: sandbox_init before the uid is dropped.
ChildSandboxFirst(s) ==
    /\ child[s] = "forked"
    /\ SetChild(s, "boxed")
    /\ boxed' = [boxed EXCEPT ![s] = TRUE]
    /\ UNCHANGED <<childUid, scrubbed, env, childFrame>>

ChildSandbox(s) ==
    /\ child[s] = "dropped"
    /\ SetChild(s, "boxed")
    /\ boxed' = [boxed EXCEPT ![s] = TRUE]
    /\ UNCHANGED <<childUid, scrubbed, env, childFrame>>

\* Every descriptor above stderr is closed; when proc_pidinfo fails none is,
\* and the child goes on.
ChildScrub(s) ==
    /\ child[s] = "boxed"
    /\ SetChild(s, "scrubbed")
    /\ \E r \in {"closed", "unlisted"} : scrubbed' = [scrubbed EXCEPT ![s] = r]
    /\ UNCHANGED <<childUid, boxed, env, childFrame>>

\* execve with make_env's environment; if that fails execvp, which looks along
\* PATH and passes on jaim's own environment as it is.
ChildExec(s) ==
    /\ child[s] = "scrubbed"
    /\ SetChild(s, "running")
    /\ \E e \in {"made", "own"} : env' = [env EXCEPT ![s] = e]
    /\ UNCHANGED <<childUid, boxed, scrubbed, childFrame>>

\* setuid, sandbox_init, chdir or both execs fail: _exit(1).  Or the program
\* ends.
ChildExits(s) ==
    /\ child[s] \in {"forked", "dropped", "boxed", "scrubbed", "running"}
    /\ SetChild(s, "exited")
    /\ UNCHANGED <<childUid, boxed, scrubbed, env, childFrame>>

ChildKilled(s) ==
    /\ child[s] \in {"forked", "dropped", "boxed", "scrubbed", "running", "stopped"}
    /\ SetChild(s, "signaled")
    /\ UNCHANGED <<childUid, boxed, scrubbed, env, childFrame>>

ChildStops(s) ==
    /\ child[s] = "running"
    /\ SetChild(s, "stopped")
    /\ UNCHANGED <<childUid, boxed, scrubbed, env, childFrame>>

ChildContinues(s) ==
    /\ child[s] = "stopped"
    /\ SetChild(s, "running")
    /\ UNCHANGED <<childUid, boxed, scrubbed, env, childFrame>>

-----------------------------------------------------------------------------
(* The waitpid loop and propagate_termination_status. *)

\* The process is gone, with all that was its own.
ReapChild(s) == /\ SetChild(s, "reaped")
                /\ childUid' = [childUid EXCEPT ![s] = "none"]
                /\ boxed' = [boxed EXCEPT ![s] = FALSE]
                /\ scrubbed' = [scrubbed EXCEPT ![s] = "open"]
                /\ env' = [env EXCEPT ![s] = "none"]

WaitExited(s) ==
    /\ pc[s] = "wait" /\ child[s] = "exited"
    /\ ReapChild(s)
    /\ Goto(s, "ax_acl")
    /\ UNCHANGED <<cfg, euid, tmp, dirs, ace, ghostVars, sweepVars, overlayVars>>

\* signal(sig, SIG_DFL), unblock, raise(sig): do_exit(-1) is never reached.
WaitSignaled(s) ==
    /\ pc[s] = "wait" /\ child[s] = "signaled"
    /\ ReapChild(s)
    /\ Goto(s, "raised")
    /\ UNCHANGED <<cfg, euid, tmp, dirs, ace, ghostVars, sweepVars, overlayVars>>

\* The parent stops itself with the child's stop signal.
WaitStopped(s) ==
    /\ pc[s] = "wait" /\ child[s] = "stopped"
    /\ Goto(s, "stopped")
    /\ UNCHANGED <<cfg, euid, tmp, dirs, ace, childVars, ghostVars, sweepVars, overlayVars>>

\* SIGCONT to the process group.
Continue(s) ==
    /\ pc[s] = "stopped"
    /\ SetChild(s, IF child[s] = "stopped" THEN "running" ELSE child[s])
    /\ Goto(s, "wait")
    /\ UNCHANGED <<cfg, euid, tmp, dirs, ace, childUid, boxed, scrubbed, env, ghostVars, sweepVars,
                   overlayVars>>

\* A signal jaim does not handle, at any time.
Killed(s) ==
    /\ pc[s] \in Alive
    /\ Goto(s, "killed")
    /\ UNCHANGED <<cfg, euid, tmp, dirs, ace, childVars, ghostVars, sweepVars, overlayVars>>

-----------------------------------------------------------------------------
(* atexit_fn. *)

\* Mutant of AtexitAcl: the entries are forgotten.
AtexitAclForgets(s) ==
    /\ pc[s] = "ax_acl"
    /\ Goto(s, "ax_unmount")
    /\ UNCHANGED <<cfg, euid, tmp, dirs, ace, childVars, ghostVars, sweepVars, overlayVars>>

\* Strips every entry for _jaim, whoever added it.
AtexitAcl(s) ==
    /\ pc[s] = "ax_acl"
    /\ ace' = IF Mode(s) = "strict" THEN ace \ {cfg[s].grant} ELSE ace
    /\ Goto(s, "ax_unmount")
    /\ UNCHANGED <<cfg, euid, tmp, dirs, childVars, ghostVars, sweepVars, overlayVars>>

\* Mutant of AtexitUnmount: the helper is left to itself.
AtexitUnmountNoWait(s) ==
    /\ pc[s] = "ax_unmount"
    /\ Unmount(s)
    /\ Goto(s, "ax_tmp")
    /\ UNCHANGED <<cfg, euid, tmp, dirs, ace, helper, termed, pid, pre, childVars, ghostVars, sweepVars>>

AtexitUnmount(s) ==
    /\ pc[s] = "ax_unmount"
    /\ Unmount(s)
    /\ Goto(s, IF pid[s] THEN "ax_helper" ELSE "ax_tmp")
    /\ UNCHANGED <<cfg, euid, tmp, dirs, ace, helper, termed, pid, pre, childVars, ghostVars, sweepVars>>

\* Mutant of AtexitReap: overlay_pid_ is not reset, and so is taken to be alive.
AtexitReapKeepsPid(s) ==
    /\ pc[s] = "ax_helper"
    /\ Reap(s)
    /\ Goto(s, "ax_nudge")
    /\ UNCHANGED <<cfg, euid, tmp, dirs, ace, mnt, termed, pid, mounted, pre, childVars,
                   ghostVars, sweepVars>>

\* An attempt finds that the helper has exited.
AtexitReap(s) ==
    /\ pc[s] = "ax_helper"
    /\ Reap(s) /\ ForgetPid(s)
    /\ Goto(s, "ax_nudge")
    /\ UNCHANGED <<cfg, euid, tmp, dirs, ace, mnt, termed, mounted, pre, childVars, ghostVars,
                   sweepVars>>

\* 20 attempts are over.
AtexitGiveUp(s) ==
    /\ pc[s] = "ax_helper"
    /\ Goto(s, "ax_nudge")
    /\ UNCHANGED <<cfg, euid, tmp, dirs, ace, childVars, ghostVars, sweepVars, overlayVars>>

\* Mutant of AtexitTerm: the helper is waited for but not told to go.
AtexitTermNot(s) ==
    /\ pc[s] = "ax_nudge"
    /\ Goto(s, IF pid[s] THEN "ax_reap" ELSE "ax_tmp")
    /\ UNCHANGED <<cfg, euid, tmp, dirs, ace, childVars, ghostVars, sweepVars, overlayVars>>

\* if (overlay_pid_ > 0) kill
AtexitTerm(s) ==
    /\ pc[s] = "ax_nudge"
    /\ termed' = [termed EXCEPT ![s] = @ \/ pid[s]]
    /\ Goto(s, IF pid[s] THEN "ax_reap" ELSE "ax_tmp")
    /\ UNCHANGED <<cfg, euid, tmp, dirs, ace, mnt, helper, pid, mounted, pre, childVars,
                   ghostVars, sweepVars>>

\* A blocking wait.
AtexitLateReap(s) ==
    /\ pc[s] = "ax_reap"
    /\ Reap(s) /\ ForgetPid(s)
    /\ Goto(s, "ax_tmp")
    /\ UNCHANGED <<cfg, euid, tmp, dirs, ace, mnt, termed, mounted, pre, childVars, ghostVars,
                   sweepVars>>

AtexitTmp(s) ==
    /\ pc[s] = "ax_tmp"
    /\ RemoveTmp(s)
    /\ Goto(s, "exited")
    /\ UNCHANGED <<cfg, euid, dirs, ace, childVars, sweepVars, overlayVars>>

-----------------------------------------------------------------------------
(* The helper process, as seen from outside (overlay.cc's main and libfuse). *)

helperFrame == <<pc, cfg, euid, tmp, dirs, ace, termed, pid, mounted, pre, childVars,
                 ghostVars, sweepVars>>

SetHelper(s, st) == helper' = [helper EXCEPT ![s] = st]

\* macFUSE refuses to mount over a mount.
HelperMounts(s) ==
    /\ helper[s] = "starting" /\ mnt[JailOf(s)] = NoOne /\ ".mount" \in dirs[JailOf(s)]
    /\ SetHelper(s, "serving")
    /\ mnt' = [mnt EXCEPT ![JailOf(s)] = s]
    /\ UNCHANGED helperFrame

HelperFails(s) ==
    /\ helper[s] = "starting"
    /\ SetHelper(s, "exited")
    /\ UNCHANGED <<mnt, helperFrame>>

\* fuse_main returns once the mount is gone; a wedged helper never does.
HelperUnmounted(s) ==
    /\ helper[s] = "serving" /\ mnt[JailOf(s)] # s
    /\ SetHelper(s, "exited")
    /\ UNCHANGED <<mnt, helperFrame>>

\* SIGTERM: libfuse unmounts and fuse_main returns.
HelperTerminated(s) ==
    /\ termed[s] /\ helper[s] \in {"starting", "serving"}
    /\ SetHelper(s, "exited")
    /\ mnt' = IF mnt[JailOf(s)] = s THEN [mnt EXCEPT ![JailOf(s)] = NoOne] ELSE mnt
    /\ UNCHANGED helperFrame

\* A crash leaves the mount behind, with nobody to serve it.
HelperCrashes(s) ==
    /\ helper[s] = "serving"
    /\ SetHelper(s, "exited")
    /\ UNCHANGED <<mnt, helperFrame>>

-----------------------------------------------------------------------------
(* `jaim -u', for every jail or with -j for one. *)

SweepStart(js) ==
    /\ ~sweeping /\ sweeps < MaxSweeps
    /\ sweeping' = TRUE /\ todo' = js /\ sweeps' = sweeps + 1
    /\ UNCHANGED <<pc, cfg, euid, tmp, dirs, ace, childVars, ghostVars, overlayVars>>

\* sweep_root: <j>.home; <j>.mount, unmounted first; <j>.changes.
SweepJail(j) ==
    /\ sweeping /\ j \in todo
    /\ mnt' = [mnt EXCEPT ![j] = NoOne]
    /\ dirs' = [dirs EXCEPT ![j] = {}]
    /\ todo' = todo \ {j}
    /\ UNCHANGED <<pc, cfg, euid, tmp, ace, helper, termed, pid, mounted, pre, childVars,
                   ghostVars, sweeping, sweeps>>

\* The jaim.XXXXXXXX directories that belong to the user, in use or not.
SweepTmp ==
    /\ sweeping /\ todo = {}
    /\ tmp' = [s \in Session |-> IF tmp[s] = "user" THEN "none" ELSE tmp[s]]
    /\ sweeping' = FALSE
    /\ UNCHANGED <<pc, cfg, euid, dirs, ace, childVars, ghostVars, todo, sweeps, overlayVars>>

-----------------------------------------------------------------------------

Init ==
    /\ pc = [s \in Session |-> "idle"]
    /\ cfg \in [Session -> Config]
    /\ euid = [s \in Session |-> "user"]
    /\ tmp = [s \in Session |-> "none"]
    /\ mnt = [j \in Jail |-> NoOne]
    /\ dirs = [j \in Jail |-> {}]
    /\ ace = {}
    /\ helper = [s \in Session |-> "none"]
    /\ termed = [s \in Session |-> FALSE]
    /\ pid = [s \in Session |-> FALSE]
    /\ mounted = [s \in Session |-> FALSE]
    /\ pre = [s \in Session |-> NoOne]
    /\ child = [s \in Session |-> "none"]
    /\ childUid = [s \in Session |-> "none"]
    /\ boxed = [s \in Session |-> FALSE]
    /\ scrubbed = [s \in Session |-> "open"]
    /\ env = [s \in Session |-> "none"]
    /\ failedAt = [s \in Session |-> "none"]
    /\ kept = {}
    /\ met = [s \in Session |-> {}]
    /\ sweeping = FALSE /\ todo = {} /\ sweeps = 0

Launch(s) ==
    \/ Elevate(s) \/ ElevateFails(s) \/ Preflight(s) \/ PreflightFails(s)
    \/ MakeTmp(s) \/ MakeTmpFails(s) \/ BareHome(s) \/ CasualDirs(s) \/ HomeFails(s)
    \/ ForceUnmount(s) \/ StartHelper(s) \/ StartHelperFails(s)
    \/ PollMounted(s) \/ PollExited(s) \/ PollTimeout(s) \/ LateReap(s)
    \/ Prepare(s) \/ GrantAcl(s) \/ Profile(s) \/ PrepareFails(s) \/ Fork(s) \/ ForkFails(s)

Cleanup(s) == \/ DeferUnmount(s) \/ DeferReap(s) \/ DeferTmp(s)
              \/ AtexitAcl(s) \/ AtexitUnmount(s) \/ AtexitReap(s) \/ AtexitGiveUp(s)
              \/ AtexitTerm(s) \/ AtexitLateReap(s) \/ AtexitTmp(s)

Wait(s) == WaitExited(s) \/ WaitSignaled(s) \/ WaitStopped(s)

Child(s) == \/ ChildDrop(s) \/ ChildSandbox(s) \/ ChildScrub(s) \/ ChildExec(s)
            \/ ChildExits(s) \/ ChildKilled(s) \/ ChildStops(s) \/ ChildContinues(s)

Helper(s) == \/ HelperMounts(s) \/ HelperFails(s) \/ HelperUnmounted(s)
             \/ HelperTerminated(s) \/ HelperCrashes(s)

Sweep == \/ \E js \in {Jail} \cup {{j} : j \in Jail} : SweepStart(js)
         \/ \E j \in Jail : SweepJail(j)
         \/ SweepTmp

Next == \/ \E s \in Session : \/ Start(s) \/ Launch(s) \/ Wait(s) \/ Continue(s) \/ Cleanup(s)
                              \/ Killed(s) \/ Child(s) \/ Helper(s)
        \/ Sweep

Spec == Init /\ [][Next]_vars

\* A parent that is not stopped runs: its waits are bounded or for a process
\* that has been sent SIGTERM, which libfuse's handler obeys.
Fairness == \A s \in Session : /\ WF_vars(Launch(s)) /\ WF_vars(Wait(s)) /\ WF_vars(Cleanup(s))
                               /\ WF_vars(HelperTerminated(s))

FairSpec == Spec /\ Fairness

-----------------------------------------------------------------------------
(* Properties. *)

Uid == {"user", "root", "_jaim"}

\* Types of the variables.
TypeOK ==
    /\ pc \in [Session -> {"idle"} \cup Alive \cup Gone]
    /\ cfg \in [Session -> Config]
    /\ euid \in [Session -> {"user", "root"}]
    /\ tmp \in [Session -> Uid \cup {"none"}]
    /\ mnt \in [Jail -> Session \cup {NoOne}]
    /\ dirs \in [Jail -> SUBSET {".home", ".changes", ".mount"}]
    /\ ace \subseteq Grant
    /\ helper \in [Session -> {"none", "starting", "serving", "exited", "reaped"}]
    /\ termed \in [Session -> BOOLEAN]
    /\ pid \in [Session -> BOOLEAN]
    /\ mounted \in [Session -> BOOLEAN]
    /\ pre \in [Session -> Session \cup {NoOne}]
    /\ child \in [Session -> {"none", "forked", "dropped", "boxed", "scrubbed", "running",
                              "stopped", "exited", "signaled", "reaped"}]
    /\ childUid \in [Session -> Uid \cup {"none"}]
    /\ boxed \in [Session -> BOOLEAN]
    /\ scrubbed \in [Session -> {"open", "closed", "unlisted"}]
    /\ env \in [Session -> {"none", "made", "own"}]
    /\ failedAt \in [Session -> LaunchPc \cup {"none", "canonical"}]
    /\ kept \subseteq Session
    /\ met \in [Session -> SUBSET Session]
    /\ sweeping \in BOOLEAN /\ todo \subseteq Jail /\ sweeps \in Nat

\* The jailed program never runs with root's uid in strict mode or outside the
\* sandbox, and root was dropped before sandbox_init.  No descriptor is left to
\* it but the caller's first three, unless proc_pidinfo did not list them.
ChildConfined ==
    \A s \in Session :
        /\ boxed[s] /\ Mode(s) = "strict" => childUid[s] = "_jaim"
        /\ child[s] \in {"running", "stopped"} => boxed[s] /\ scrubbed[s] # "open"

\* A session whose child exited leaves no helper, no zombie and, unless its
\* remove_all failed, no temp directory behind, however mounting, the helper,
\* other sessions and `jaim -u' went.  Nor its mount; but sessions that share
\* a jail unmount each other's.
CleanExit ==
    \A s \in Session : pc[s] = "exited" =>
        /\ helper[s] \in {"none", "reaped"}
        /\ tmp[s] = "none" \/ s \in kept
        /\ mnt[JailOf(s)] # s \/ met[s] # {}

\* Another strict session has put entries on the same grant and not taken them
\* away.
GrantHeld(s) == \E t \in Session \ {s} : /\ pc[t] # "idle" /\ pc[t] # "exited"
                                         /\ Mode(t) = "strict" /\ cfg[t].grant = cfg[s].grant

\* A strict session takes its ACL entries with it, unless another one that
\* is not finished has the same grant.
AclStripped ==
    \A s \in Session :
        pc[s] = "exited" /\ Mode(s) = "strict" /\ cfg[s].grant \in ace => GrantHeld(s)

\* What a launch that fails leaves behind, by the step that threw.  A helper,
\* only when the last fork fails, after the Defer was released.  A mount, then
\* too, or when the helper died of a crash before the launch gave it up.  The
\* temp directory, from its creation to the Defer, or if remove_all failed.
\* ACL entries, when the profile or the fork fails: the Defer leaves them.
CleanFailure ==
    \A s \in Session : pc[s] = "failed" =>
        /\ failedAt[s] # "fork" => helper[s] \in {"none", "reaped"}
        /\ failedAt[s] \notin {"polling", "late_reap", "fork"} =>
             mnt[JailOf(s)] # s \/ met[s] # {}
        /\ failedAt[s] \in {"elevate", "preflight", "mktmp", "prep", "profile"} =>
             tmp[s] = "none" \/ s \in kept
        /\ failedAt[s] \notin {"profile", "fork"} /\ Mode(s) = "strict" =>
             cfg[s].grant \notin ace \/ GrantHeld(s)

\* A session that believes its overlay is mounted is looking at its own, or at
\* nothing once that is gone; another session's it can only be looking at if
\* the two were in the jail at the same time.
OwnOverlay ==
    \A s \in Session :
        mounted[s] /\ pc[s] \in Alive => /\ mnt[JailOf(s)] \in {s, NoOne} \cup met[s]
                                         /\ helper[s] # "starting" \/ met[s] # {}

\* What kill and waitpid are given in overlay_pid_ is a process of this session
\* that has not been reaped: never a pid the system may have used again, and
\* no wait for one that is not there.
PidValid == \A s \in Session :
               pid[s] \/ pc[s] \in {"late_reap", "df_reap", "ax_reap"} =>
                   helper[s] \in {"starting", "serving", "exited"}

\* The jailed program owns its TMPDIR for as long as it runs; only `jaim -u'
\* takes it away.
TmpUsable ==
    \A s \in Session :
        child[s] = "running" => tmp[s] = childUid[s] \/ (tmp[s] = "none" /\ sweeps > 0)

-----------------------------------------------------------------------------
(* The invariants that make the ones above inductive. *)

\* The child goes through drop, sandbox and scrub in that order, and there is
\* none before the fork.
ChildInv ==
    \A s \in Session :
        /\ pc[s] \in {"idle"} \cup LaunchPc => child[s] = "none"
        /\ child[s] \in {"none", "forked", "dropped"} => ~boxed[s]
        /\ child[s] = "dropped" /\ Mode(s) = "strict" => childUid[s] = "_jaim"
        /\ child[s] \in {"boxed", "scrubbed", "running", "stopped"} => boxed[s]
        /\ child[s] \in {"scrubbed", "running", "stopped"} => scrubbed[s] # "open"
        /\ boxed[s] /\ Mode(s) = "strict" => childUid[s] = "_jaim"

\* Before the helper is forked; while the overlay is up; after the unmount.
NoHelperPc == {"idle", "elevate", "preflight", "mktmp", "home", "unmount", "helper"}
OverlayUpPc == {"prep", "acl", "profile", "fork", "wait", "stopped", "ax_acl", "ax_unmount",
                "df_unmount"}
OverlayDownPc == {"ax_helper", "ax_nudge", "ax_reap", "ax_tmp", "exited", "df_reap", "df_tmp"}
UndonePc == {"prep", "profile"}     \* where an exception runs the Defer

DeferDone(s) == pc[s] = "failed" /\ failedAt[s] \in UndonePc

\* What could mount in a live session's jail is a session it has met.
Exclusive ==
    \A s, t \in Session :
        s # t /\ JailOf(s) = JailOf(t) /\ pc[s] \in Alive /\ pc[t] # "idle"
          /\ (pc[t] \in Alive \/ helper[t] = "starting") => t \in met[s]

\* Where helpers and overlay_pid_ stand.
PidInv ==
    \A s \in Session :
        /\ pid[s] <=> helper[s] \in {"starting", "serving", "exited"}
        /\ helper[s] # "none" => Mode(s) = "casual" /\ pc[s] \notin NoHelperPc
        /\ pc[s] \in {"unmount", "helper", "polling", "late_reap"} => Mode(s) = "casual"
        /\ pc[s] \in {"polling", "late_reap", "df_reap", "ax_helper", "ax_reap"} => pid[s]
        /\ pc[s] \in {"ax_tmp", "exited", "df_tmp"} => ~pid[s]
        /\ pc[s] = "failed" => (pid[s] => failedAt[s] = "fork")
        /\ pc[s] = "failed" =>
             helper[s] = "none" \/ failedAt[s] \in {"polling", "late_reap", "fork"} \cup UndonePc
        /\ pc[s] \in DeferPc => failedAt[s] \in UndonePc

\* Where overlay_mounted_ and mounts stand.
OverlayInv ==
    \A s \in Session :
        /\ \A j \in Jail : mnt[j] = s => j = JailOf(s) /\ helper[s] \notin {"none", "starting"}
        /\ mounted[s] => helper[s] # "none" /\ (helper[s] # "starting" \/ met[s] # {})
        /\ Mode(s) = "casual" /\ pc[s] \in Alive \ (NoHelperPc \ {"helper"}) =>
             mnt[JailOf(s)] \in {s, NoOne} \cup met[s]
        /\ pc[s] = "polling" => pre[s] \in {NoOne} \cup met[s]
        /\ Mode(s) = "casual" /\ pc[s] \in OverlayUpPc => mounted[s]
        /\ pc[s] \in OverlayDownPc \/ DeferDone(s) =>
             (mnt[JailOf(s)] # s /\ helper[s] # "starting") \/ met[s] # {}

\* The temp directory exists from MakeTmp to the last step of a cleanup.
TmpInv ==
    \A s \in Session :
        /\ pc[s] \in {"idle", "elevate", "preflight", "mktmp"} => tmp[s] = "none"
        /\ pc[s] = "exited" \/ DeferDone(s) => tmp[s] = "none" \/ s \in kept
        /\ pc[s] = "failed" /\ failedAt[s] \in {"elevate", "preflight", "mktmp"} =>
             tmp[s] = "none"

\* Every ACL entry is the business of a strict session that has not stripped
\* it, or that has ended without doing so.
HoldsAclPc == {"profile", "fork", "wait", "stopped", "ax_acl", "raised", "killed"}
FailedPc == DeferPc \cup {"failed"}
HoldsAcl(t) == \/ pc[t] \in HoldsAclPc
               \/ pc[t] \in FailedPc /\ failedAt[t] \in {"profile", "fork"}
AclInv == \A g \in ace : \E t \in Session :
             Mode(t) = "strict" /\ cfg[t].grant = g /\ HoldsAcl(t)

\* Who owns the temp directory on its way to the child.
Owned(s, u) == tmp[s] = u \/ (tmp[s] = "none" /\ sweeps > 0)
OwnerInv ==
    /\ sweeping => sweeps > 0
    /\ \A s \in Session :
        /\ pc[s] \in Alive \ {"elevate"} /\ Mode(s) = "strict" => euid[s] = "root"
        /\ pc[s] \in {"home", "unmount", "helper", "polling", "prep"} => Owned(s, euid[s])
        /\ pc[s] \in {"acl", "profile", "fork"} =>
             Owned(s, IF Mode(s) = "strict" THEN "_jaim" ELSE euid[s])
        /\ child[s] = "forked" => Owned(s, IF Mode(s) = "strict" THEN "_jaim" ELSE childUid[s])
        /\ child[s] \in {"dropped", "boxed", "scrubbed", "running", "stopped"} =>
             Owned(s, childUid[s])
        /\ pc[s] \in AtexitPc \cup {"exited"} => child[s] = "reaped"
        /\ pc[s] \in DeferPc => child[s] = "none"

-----------------------------------------------------------------------------
(* Progress, and what the documentation says. *)

\* Setting up ends, with the mount timeout as a backstop.
LaunchEnds == \A s \in Session : pc[s] \in LaunchPc ~> pc[s] \in WaitPc \cup Gone

\* When the child has exited jaim exits, even if the helper is wedged.
CleanupEnds ==
    \A s \in Session : pc[s] = "wait" /\ child[s] = "exited" ~> pc[s] \in {"exited", "killed"}

\* "atexit_fn runs on the tail of a waitpid or a signal propagation": it has
\* run when jaim dies of its child's signal.
SignalCleansUp == \A s \in Session : pc[s] = "raised" => tmp[s] = "none"

\* --unsetenv "filters var from the environment of the jailed program", and
\* TMPDIR in it is forced to the private directory: it has make_env's.  Not an
\* invariant: the execvp of ChildExec gives the program jaim's own.
EnvFiltered == \A s \in Session : child[s] = "running" => env[s] = "made"

\* The mount found at launch is stale: "a previous jaim crashed before
\* atexit_fn could unmount".
OnlyStaleUnmounted ==
    [][\A s \in Session : ForceUnmount(s) =>
          LET t == mnt[JailOf(s)] IN t # NoOne => pc[t] \in Gone]_vars
=============================================================================
