---------------------------- MODULE SessionProofs ----------------------------
(***************************************************************************)
(* Session is safe for any number of sessions, jails, grants and sweeps.   *)
(*                                                                         *)
(* Each inductive invariant of Session has one lemma per group of actions  *)
(* and one for Next; the theorems at the end put them together.            *)
(***************************************************************************)
EXTENDS Session, TLAPS

\* Abbreviations that every leaf may expand.
USE DEF Goto, ThrowAt, Throw, RemoveTmp, SetChild, ReapChild, SetHelper, Reap, ForgetPid,
        Unmount, Mode, JailOf,
        childFrame, helperFrame, overlayVars, childVars, sweepVars, ghostVars,
        LaunchPc, WaitPc, AtexitPc, DeferPc, Alive, Gone, Uid,
        NoHelperPc, OverlayUpPc, OverlayDownPc, UndonePc, HoldsAclPc,
        FailedPc, HoldsAcl, DeferDone

\* A step of the child changes nothing but the child.
LEMMA ChildTouches == ASSUME NEW s \in Session, Child(s) PROVE UNCHANGED childFrame
  BY DEF Child, ChildDrop, ChildSandbox, ChildScrub, ChildExec, ChildExits, ChildKilled,
         ChildStops, ChildContinues

\* A step of the helper changes nothing but itself and the mounts.
LEMMA HelperTouches == ASSUME NEW s \in Session, Helper(s) PROVE UNCHANGED helperFrame
  BY DEF Helper, HelperMounts, HelperFails, HelperUnmounted, HelperTerminated, HelperCrashes

-----------------------------------------------------------------------------
(* Types. *)

\* Types: kept by the actions of Launch.
LEMMA TypeLaunch ==
    ASSUME TypeOK, NEW s \in Session, Launch(s)
    PROVE  TypeOK'
  <1> USE ConfigAssumption DEF TypeOK
  <1>1. CASE Elevate(s)  BY <1>1 DEF Elevate
  <1>2. CASE ElevateFails(s)  BY <1>2 DEF ElevateFails
  <1>3. CASE Preflight(s)  BY <1>3 DEF Preflight
  <1>4. CASE PreflightFails(s)  BY <1>4 DEF PreflightFails
  <1>5. CASE MakeTmp(s)  BY <1>5 DEF MakeTmp
  <1>6. CASE MakeTmpFails(s)
    <2>1. CASE Throw(s) /\ UNCHANGED tmp  BY <1>6, <2>1 DEF MakeTmpFails
    <2>2. CASE ThrowAt(s, "canonical") /\ tmp' = [tmp EXCEPT ![s] = euid[s]]
      BY <1>6, <2>2 DEF MakeTmpFails
    <2> QED BY <1>6, <2>1, <2>2 DEF MakeTmpFails
  <1>7. CASE BareHome(s)  BY <1>7 DEF BareHome
  <1>8. CASE CasualDirs(s)  BY <1>8 DEF CasualDirs
  <1>9. CASE HomeFails(s)  BY <1>9 DEF HomeFails
  <1>10. CASE ForceUnmount(s)  BY <1>10 DEF ForceUnmount
  <1>11. CASE StartHelper(s)  BY <1>11 DEF StartHelper
  <1>12. CASE StartHelperFails(s)  BY <1>12 DEF StartHelperFails
  <1>13. CASE PollMounted(s)  BY <1>13 DEF PollMounted
  <1>14. CASE PollExited(s)  BY <1>14 DEF PollExited
  <1>15. CASE PollTimeout(s)  BY <1>15 DEF PollTimeout
  <1>16. CASE LateReap(s)  BY <1>16 DEF LateReap
  <1>17. CASE Prepare(s)  BY <1>17 DEF Prepare
  <1>18. CASE GrantAcl(s)  BY <1>18 DEF GrantAcl
  <1>19. CASE Profile(s)  BY <1>19 DEF Profile
  <1>20. CASE PrepareFails(s)  BY <1>20 DEF PrepareFails
  <1>21. CASE Fork(s)  BY <1>21 DEF Fork
  <1>22. CASE ForkFails(s)  BY <1>22 DEF ForkFails
  <1> QED
    BY <1>1, <1>2, <1>3, <1>4, <1>5, <1>6, <1>7, <1>8, <1>9, <1>10, <1>11, <1>12, <1>13, <1>14,
       <1>15, <1>16, <1>17, <1>18, <1>19, <1>20, <1>21, <1>22 DEF Launch

\* Types: kept by the actions of Wait.
LEMMA TypeWait ==
    ASSUME TypeOK, NEW s \in Session, Wait(s)
    PROVE  TypeOK'
  <1> USE ConfigAssumption DEF TypeOK
  <1>1. CASE WaitExited(s)  BY <1>1 DEF WaitExited
  <1>2. CASE WaitSignaled(s)  BY <1>2 DEF WaitSignaled
  <1>3. CASE WaitStopped(s)  BY <1>3 DEF WaitStopped
  <1> QED
    BY <1>1, <1>2, <1>3 DEF Wait

\* Types: kept by the actions of Cleanup.
LEMMA TypeCleanup ==
    ASSUME TypeOK, NEW s \in Session, Cleanup(s)
    PROVE  TypeOK'
  <1> USE ConfigAssumption DEF TypeOK
  <1>1. CASE DeferUnmount(s)  BY <1>1 DEF DeferUnmount
  <1>2. CASE DeferReap(s)  BY <1>2 DEF DeferReap
  <1>3. CASE DeferTmp(s)  BY <1>3 DEF DeferTmp
  <1>4. CASE AtexitAcl(s)  BY <1>4 DEF AtexitAcl
  <1>5. CASE AtexitUnmount(s)  BY <1>5 DEF AtexitUnmount
  <1>6. CASE AtexitReap(s)  BY <1>6 DEF AtexitReap
  <1>7. CASE AtexitGiveUp(s)  BY <1>7 DEF AtexitGiveUp
  <1>8. CASE AtexitTerm(s)  BY <1>8 DEF AtexitTerm
  <1>9. CASE AtexitLateReap(s)  BY <1>9 DEF AtexitLateReap
  <1>10. CASE AtexitTmp(s)  BY <1>10 DEF AtexitTmp
  <1> QED
    BY <1>1, <1>2, <1>3, <1>4, <1>5, <1>6, <1>7, <1>8, <1>9, <1>10 DEF Cleanup

\* Types: kept by the actions of Child.
LEMMA TypeChild ==
    ASSUME TypeOK, NEW s \in Session, Child(s)
    PROVE  TypeOK'
  <1> USE ConfigAssumption DEF TypeOK
  <1>1. CASE ChildDrop(s)  BY <1>1 DEF ChildDrop
  <1>2. CASE ChildSandbox(s)  BY <1>2 DEF ChildSandbox
  <1>3. CASE ChildScrub(s)  BY <1>3 DEF ChildScrub
  <1>4. CASE ChildExec(s)  BY <1>4 DEF ChildExec
  <1>5. CASE ChildExits(s)  BY <1>5 DEF ChildExits
  <1>6. CASE ChildKilled(s)  BY <1>6 DEF ChildKilled
  <1>7. CASE ChildStops(s)  BY <1>7 DEF ChildStops
  <1>8. CASE ChildContinues(s)  BY <1>8 DEF ChildContinues
  <1> QED
    BY <1>1, <1>2, <1>3, <1>4, <1>5, <1>6, <1>7, <1>8 DEF Child

\* Types: kept by the actions of Helper.
LEMMA TypeHelper ==
    ASSUME TypeOK, NEW s \in Session, Helper(s)
    PROVE  TypeOK'
  <1> USE ConfigAssumption DEF TypeOK
  <1>1. CASE HelperMounts(s)  BY <1>1 DEF HelperMounts
  <1>2. CASE HelperFails(s)  BY <1>2 DEF HelperFails
  <1>3. CASE HelperUnmounted(s)  BY <1>3 DEF HelperUnmounted
  <1>4. CASE HelperTerminated(s)  BY <1>4 DEF HelperTerminated
  <1>5. CASE HelperCrashes(s)  BY <1>5 DEF HelperCrashes
  <1> QED
    BY <1>1, <1>2, <1>3, <1>4, <1>5 DEF Helper

\* Types: kept by every step.
LEMMA TypeNext ==
    ASSUME TypeOK, [Next]_vars
    PROVE  TypeOK'
  <1> USE ConfigAssumption DEF TypeOK
  <1>1. ASSUME NEW s \in Session, Start(s) PROVE TypeOK'  BY <1>1 DEF Start, Using
  <1>2. ASSUME NEW s \in Session, Continue(s) PROVE TypeOK'  BY <1>2 DEF Continue
  <1>3. ASSUME NEW s \in Session, Killed(s) PROVE TypeOK'  BY <1>3 DEF Killed
  <1>4. ASSUME NEW js \in {Jail} \cup {{j} : j \in Jail}, SweepStart(js) PROVE TypeOK'
    BY <1>4 DEF SweepStart
  <1>5. ASSUME NEW j \in Jail, SweepJail(j) PROVE TypeOK'  BY <1>5 DEF SweepJail
  <1>6. CASE SweepTmp  BY <1>6 DEF SweepTmp
  <1>7. CASE UNCHANGED vars  BY <1>7 DEF vars
  <1> QED
    BY <1>1, <1>2, <1>3, <1>4, <1>5, <1>6, <1>7, TypeLaunch, TypeWait, TypeCleanup, TypeChild,
       TypeHelper DEF Next, Sweep

-----------------------------------------------------------------------------
(* The order of the steps of the child. *)

\* The order of the steps of the child: kept by the actions of Launch.
LEMMA ChildLaunch ==
    ASSUME TypeOK, ChildInv, NEW s \in Session, Launch(s)
    PROVE  ChildInv'
  <1> USE DEF ChildInv, TypeOK
  <1>1. CASE Elevate(s)  BY <1>1 DEF Elevate
  <1>2. CASE ElevateFails(s)  BY <1>2 DEF ElevateFails
  <1>3. CASE Preflight(s)  BY <1>3 DEF Preflight
  <1>4. CASE PreflightFails(s)  BY <1>4 DEF PreflightFails
  <1>5. CASE MakeTmp(s)  BY <1>5 DEF MakeTmp
  <1>6. CASE MakeTmpFails(s)  BY <1>6 DEF MakeTmpFails
  <1>7. CASE BareHome(s)  BY <1>7 DEF BareHome
  <1>8. CASE CasualDirs(s)  BY <1>8 DEF CasualDirs
  <1>9. CASE HomeFails(s)  BY <1>9 DEF HomeFails
  <1>10. CASE ForceUnmount(s)  BY <1>10 DEF ForceUnmount
  <1>11. CASE StartHelper(s)  BY <1>11 DEF StartHelper
  <1>12. CASE StartHelperFails(s)  BY <1>12 DEF StartHelperFails
  <1>13. CASE PollMounted(s)  BY <1>13 DEF PollMounted
  <1>14. CASE PollExited(s)  BY <1>14 DEF PollExited
  <1>15. CASE PollTimeout(s)  BY <1>15 DEF PollTimeout
  <1>16. CASE LateReap(s)  BY <1>16 DEF LateReap
  <1>17. CASE Prepare(s)  BY <1>17 DEF Prepare
  <1>18. CASE GrantAcl(s)  BY <1>18 DEF GrantAcl
  <1>19. CASE Profile(s)  BY <1>19 DEF Profile
  <1>20. CASE PrepareFails(s)  BY <1>20 DEF PrepareFails
  <1>21. CASE Fork(s)  BY <1>21 DEF Fork
  <1>22. CASE ForkFails(s)  BY <1>22 DEF ForkFails
  <1> QED
    BY <1>1, <1>2, <1>3, <1>4, <1>5, <1>6, <1>7, <1>8, <1>9, <1>10, <1>11, <1>12, <1>13, <1>14,
       <1>15, <1>16, <1>17, <1>18, <1>19, <1>20, <1>21, <1>22 DEF Launch

\* The order of the steps of the child: kept by the actions of Wait.
LEMMA ChildWait ==
    ASSUME TypeOK, ChildInv, NEW s \in Session, Wait(s)
    PROVE  ChildInv'
  <1> USE DEF ChildInv, TypeOK
  <1>1. CASE WaitExited(s)  BY <1>1 DEF WaitExited
  <1>2. CASE WaitSignaled(s)  BY <1>2 DEF WaitSignaled
  <1>3. CASE WaitStopped(s)  BY <1>3 DEF WaitStopped
  <1> QED
    BY <1>1, <1>2, <1>3 DEF Wait

\* The order of the steps of the child: kept by the actions of Cleanup.
LEMMA ChildCleanup ==
    ASSUME TypeOK, ChildInv, NEW s \in Session, Cleanup(s)
    PROVE  ChildInv'
  <1> USE DEF ChildInv, TypeOK
  <1>1. CASE DeferUnmount(s)  BY <1>1 DEF DeferUnmount
  <1>2. CASE DeferReap(s)  BY <1>2 DEF DeferReap
  <1>3. CASE DeferTmp(s)  BY <1>3 DEF DeferTmp
  <1>4. CASE AtexitAcl(s)  BY <1>4 DEF AtexitAcl
  <1>5. CASE AtexitUnmount(s)  BY <1>5 DEF AtexitUnmount
  <1>6. CASE AtexitReap(s)  BY <1>6 DEF AtexitReap
  <1>7. CASE AtexitGiveUp(s)  BY <1>7 DEF AtexitGiveUp
  <1>8. CASE AtexitTerm(s)  BY <1>8 DEF AtexitTerm
  <1>9. CASE AtexitLateReap(s)  BY <1>9 DEF AtexitLateReap
  <1>10. CASE AtexitTmp(s)  BY <1>10 DEF AtexitTmp
  <1> QED
    BY <1>1, <1>2, <1>3, <1>4, <1>5, <1>6, <1>7, <1>8, <1>9, <1>10 DEF Cleanup

\* The order of the steps of the child: kept by the actions of Child.
LEMMA ChildChild ==
    ASSUME TypeOK, ChildInv, NEW s \in Session, Child(s)
    PROVE  ChildInv'
  <1> USE DEF ChildInv, TypeOK
  <1>1. CASE ChildDrop(s)  BY <1>1 DEF ChildDrop
  <1>2. CASE ChildSandbox(s)  BY <1>2 DEF ChildSandbox
  <1>3. CASE ChildScrub(s)  BY <1>3 DEF ChildScrub
  <1>4. CASE ChildExec(s)  BY <1>4 DEF ChildExec
  <1>5. CASE ChildExits(s)  BY <1>5 DEF ChildExits
  <1>6. CASE ChildKilled(s)  BY <1>6 DEF ChildKilled
  <1>7. CASE ChildStops(s)  BY <1>7 DEF ChildStops
  <1>8. CASE ChildContinues(s)  BY <1>8 DEF ChildContinues
  <1> QED
    BY <1>1, <1>2, <1>3, <1>4, <1>5, <1>6, <1>7, <1>8 DEF Child

\* The order of the steps of the child: kept by every step.
LEMMA ChildNext ==
    ASSUME TypeOK, ChildInv, [Next]_vars
    PROVE  ChildInv'
  <1> USE DEF ChildInv, TypeOK
  <1>1. ASSUME NEW s \in Session, Start(s) PROVE ChildInv'  BY <1>1 DEF Start, Using
  <1>2. ASSUME NEW s \in Session, Continue(s) PROVE ChildInv'  BY <1>2 DEF Continue
  <1>3. ASSUME NEW s \in Session, Killed(s) PROVE ChildInv'  BY <1>3 DEF Killed
  <1>4. ASSUME NEW js \in {Jail} \cup {{j} : j \in Jail}, SweepStart(js) PROVE ChildInv'
    BY <1>4 DEF SweepStart
  <1>5. ASSUME NEW j \in Jail, SweepJail(j) PROVE ChildInv'  BY <1>5 DEF SweepJail
  <1>6. CASE SweepTmp  BY <1>6 DEF SweepTmp
  <1>7. CASE UNCHANGED vars  BY <1>7 DEF vars
  <1>8. ASSUME NEW s \in Session, Helper(s) PROVE ChildInv'  BY <1>8, HelperTouches
  <1> QED
    BY <1>1, <1>2, <1>3, <1>4, <1>5, <1>6, <1>7, <1>8, ChildLaunch, ChildWait, ChildCleanup,
       ChildChild DEF Next, Sweep

-----------------------------------------------------------------------------
(* The process that overlay_pid_ names. *)

\* The process that overlay_pid_ names: kept by the actions of Launch.
LEMMA PidLaunch ==
    ASSUME TypeOK, PidInv, NEW s \in Session, Launch(s)
    PROVE  PidInv'
  <1> USE ConfigAssumption DEF PidInv, TypeOK
  <1>1. CASE Elevate(s)  BY <1>1 DEF Elevate
  <1>2. CASE ElevateFails(s)  BY <1>2 DEF ElevateFails
  <1>3. CASE Preflight(s)  BY <1>3 DEF Preflight
  <1>4. CASE PreflightFails(s)  BY <1>4 DEF PreflightFails
  <1>5. CASE MakeTmp(s)  BY <1>5 DEF MakeTmp
  <1>6. CASE MakeTmpFails(s)
    <2>1. CASE Throw(s) /\ UNCHANGED tmp  BY <1>6, <2>1 DEF MakeTmpFails
    <2>2. CASE ThrowAt(s, "canonical") /\ tmp' = [tmp EXCEPT ![s] = euid[s]]
      BY <1>6, <2>2 DEF MakeTmpFails
    <2> QED BY <1>6, <2>1, <2>2 DEF MakeTmpFails
  <1>7. CASE BareHome(s)  BY <1>7 DEF BareHome
  <1>8. CASE CasualDirs(s)  BY <1>8 DEF CasualDirs
  <1>9. CASE HomeFails(s)  BY <1>9 DEF HomeFails
  <1>10. CASE ForceUnmount(s)  BY <1>10 DEF ForceUnmount
  <1>11. CASE StartHelper(s)  BY <1>11 DEF StartHelper
  <1>12. CASE StartHelperFails(s)  BY <1>12 DEF StartHelperFails
  <1>13. CASE PollMounted(s)  BY <1>13 DEF PollMounted
  <1>14. CASE PollExited(s)  BY <1>14 DEF PollExited
  <1>15. CASE PollTimeout(s)  BY <1>15 DEF PollTimeout
  <1>16. CASE LateReap(s)  BY <1>16 DEF LateReap
  <1>17. CASE Prepare(s)  BY <1>17 DEF Prepare
  <1>18. CASE GrantAcl(s)  BY <1>18 DEF GrantAcl
  <1>19. CASE Profile(s)  BY <1>19 DEF Profile
  <1>20. CASE PrepareFails(s)  BY <1>20 DEF PrepareFails
  <1>21. CASE Fork(s)  BY <1>21 DEF Fork
  <1>22. CASE ForkFails(s)  BY <1>22 DEF ForkFails
  <1> QED
    BY <1>1, <1>2, <1>3, <1>4, <1>5, <1>6, <1>7, <1>8, <1>9, <1>10, <1>11, <1>12, <1>13, <1>14,
       <1>15, <1>16, <1>17, <1>18, <1>19, <1>20, <1>21, <1>22 DEF Launch

\* The process that overlay_pid_ names: kept by the actions of Wait.
LEMMA PidWait ==
    ASSUME TypeOK, PidInv, NEW s \in Session, Wait(s)
    PROVE  PidInv'
  <1> USE ConfigAssumption DEF PidInv, TypeOK
  <1>1. CASE WaitExited(s)  BY <1>1 DEF WaitExited
  <1>2. CASE WaitSignaled(s)  BY <1>2 DEF WaitSignaled
  <1>3. CASE WaitStopped(s)  BY <1>3 DEF WaitStopped
  <1> QED
    BY <1>1, <1>2, <1>3 DEF Wait

\* The process that overlay_pid_ names: kept by the actions of Cleanup.
LEMMA PidCleanup ==
    ASSUME TypeOK, PidInv, NEW s \in Session, Cleanup(s)
    PROVE  PidInv'
  <1> USE ConfigAssumption DEF PidInv, TypeOK
  <1>1. CASE DeferUnmount(s)  BY <1>1 DEF DeferUnmount
  <1>2. CASE DeferReap(s)  BY <1>2 DEF DeferReap
  <1>3. CASE DeferTmp(s)  BY <1>3 DEF DeferTmp
  <1>4. CASE AtexitAcl(s)  BY <1>4 DEF AtexitAcl
  <1>5. CASE AtexitUnmount(s)  BY <1>5 DEF AtexitUnmount
  <1>6. CASE AtexitReap(s)  BY <1>6 DEF AtexitReap
  <1>7. CASE AtexitGiveUp(s)  BY <1>7 DEF AtexitGiveUp
  <1>8. CASE AtexitTerm(s)  BY <1>8 DEF AtexitTerm
  <1>9. CASE AtexitLateReap(s)  BY <1>9 DEF AtexitLateReap
  <1>10. CASE AtexitTmp(s)  BY <1>10 DEF AtexitTmp
  <1> QED
    BY <1>1, <1>2, <1>3, <1>4, <1>5, <1>6, <1>7, <1>8, <1>9, <1>10 DEF Cleanup

\* The process that overlay_pid_ names: kept by the actions of Helper.
LEMMA PidHelper ==
    ASSUME TypeOK, PidInv, NEW s \in Session, Helper(s)
    PROVE  PidInv'
  <1> USE ConfigAssumption DEF PidInv, TypeOK
  <1>1. CASE HelperMounts(s)  BY <1>1 DEF HelperMounts
  <1>2. CASE HelperFails(s)  BY <1>2 DEF HelperFails
  <1>3. CASE HelperUnmounted(s)  BY <1>3 DEF HelperUnmounted
  <1>4. CASE HelperTerminated(s)  BY <1>4 DEF HelperTerminated
  <1>5. CASE HelperCrashes(s)  BY <1>5 DEF HelperCrashes
  <1> QED
    BY <1>1, <1>2, <1>3, <1>4, <1>5 DEF Helper

\* The process that overlay_pid_ names: kept by every step.
LEMMA PidNext ==
    ASSUME TypeOK, PidInv, [Next]_vars
    PROVE  PidInv'
  <1> USE ConfigAssumption DEF PidInv, TypeOK
  <1>1. ASSUME NEW s \in Session, Start(s) PROVE PidInv'  BY <1>1 DEF Start, Using
  <1>2. ASSUME NEW s \in Session, Continue(s) PROVE PidInv'  BY <1>2 DEF Continue
  <1>3. ASSUME NEW s \in Session, Killed(s) PROVE PidInv'  BY <1>3 DEF Killed
  <1>4. ASSUME NEW js \in {Jail} \cup {{j} : j \in Jail}, SweepStart(js) PROVE PidInv'
    BY <1>4 DEF SweepStart
  <1>5. ASSUME NEW j \in Jail, SweepJail(j) PROVE PidInv'  BY <1>5 DEF SweepJail
  <1>6. CASE SweepTmp  BY <1>6 DEF SweepTmp
  <1>7. CASE UNCHANGED vars  BY <1>7 DEF vars
  <1>8. ASSUME NEW s \in Session, Child(s) PROVE PidInv'  BY <1>8, ChildTouches
  <1> QED
    BY <1>1, <1>2, <1>3, <1>4, <1>5, <1>6, <1>7, <1>8, PidLaunch, PidWait, PidCleanup, PidHelper
       DEF Next, Sweep

-----------------------------------------------------------------------------
(* Who answers for an ACL entry. *)

\* Who answers for an ACL entry: kept by the actions of Launch.
LEMMA AclLaunch ==
    ASSUME TypeOK, PidInv, AclInv, NEW s \in Session, Launch(s)
    PROVE  AclInv'
  <1> USE DEF AclInv, PidInv, TypeOK
  <1>1. CASE Elevate(s)  BY <1>1 DEF Elevate
  <1>2. CASE ElevateFails(s)  BY <1>2 DEF ElevateFails
  <1>3. CASE Preflight(s)  BY <1>3 DEF Preflight
  <1>4. CASE PreflightFails(s)  BY <1>4 DEF PreflightFails
  <1>5. CASE MakeTmp(s)  BY <1>5 DEF MakeTmp
  <1>6. CASE MakeTmpFails(s)  BY <1>6 DEF MakeTmpFails
  <1>7. CASE BareHome(s)  BY <1>7 DEF BareHome
  <1>8. CASE CasualDirs(s)  BY <1>8 DEF CasualDirs
  <1>9. CASE HomeFails(s)  BY <1>9 DEF HomeFails
  <1>10. CASE ForceUnmount(s)  BY <1>10 DEF ForceUnmount
  <1>11. CASE StartHelper(s)  BY <1>11 DEF StartHelper
  <1>12. CASE StartHelperFails(s)  BY <1>12 DEF StartHelperFails
  <1>13. CASE PollMounted(s)  BY <1>13 DEF PollMounted
  <1>14. CASE PollExited(s)  BY <1>14 DEF PollExited
  <1>15. CASE PollTimeout(s)  BY <1>15 DEF PollTimeout
  <1>16. CASE LateReap(s)  BY <1>16 DEF LateReap
  <1>17. CASE Prepare(s)  BY <1>17 DEF Prepare
  <1>18. CASE GrantAcl(s)  BY <1>18 DEF GrantAcl
  <1>19. CASE Profile(s)  BY <1>19 DEF Profile
  <1>20. CASE PrepareFails(s)  BY <1>20 DEF PrepareFails
  <1>21. CASE Fork(s)  BY <1>21 DEF Fork
  <1>22. CASE ForkFails(s)  BY <1>22 DEF ForkFails
  <1> QED
    BY <1>1, <1>2, <1>3, <1>4, <1>5, <1>6, <1>7, <1>8, <1>9, <1>10, <1>11, <1>12, <1>13, <1>14,
       <1>15, <1>16, <1>17, <1>18, <1>19, <1>20, <1>21, <1>22 DEF Launch

\* Who answers for an ACL entry: kept by the actions of Wait.
LEMMA AclWait ==
    ASSUME TypeOK, PidInv, AclInv, NEW s \in Session, Wait(s)
    PROVE  AclInv'
  <1> USE DEF AclInv, PidInv, TypeOK
  <1>1. CASE WaitExited(s)  BY <1>1 DEF WaitExited
  <1>2. CASE WaitSignaled(s)  BY <1>2 DEF WaitSignaled
  <1>3. CASE WaitStopped(s)  BY <1>3 DEF WaitStopped
  <1> QED
    BY <1>1, <1>2, <1>3 DEF Wait

\* Who answers for an ACL entry: kept by the actions of Cleanup.
LEMMA AclCleanup ==
    ASSUME TypeOK, PidInv, AclInv, NEW s \in Session, Cleanup(s)
    PROVE  AclInv'
  <1> USE DEF AclInv, PidInv, TypeOK
  <1>1. CASE DeferUnmount(s)  BY <1>1 DEF DeferUnmount
  <1>2. CASE DeferReap(s)  BY <1>2 DEF DeferReap
  <1>3. CASE DeferTmp(s)  BY <1>3 DEF DeferTmp
  <1>4. CASE AtexitAcl(s)  BY <1>4 DEF AtexitAcl
  <1>5. CASE AtexitUnmount(s)  BY <1>5 DEF AtexitUnmount
  <1>6. CASE AtexitReap(s)  BY <1>6 DEF AtexitReap
  <1>7. CASE AtexitGiveUp(s)  BY <1>7 DEF AtexitGiveUp
  <1>8. CASE AtexitTerm(s)  BY <1>8 DEF AtexitTerm
  <1>9. CASE AtexitLateReap(s)  BY <1>9 DEF AtexitLateReap
  <1>10. CASE AtexitTmp(s)  BY <1>10 DEF AtexitTmp
  <1> QED
    BY <1>1, <1>2, <1>3, <1>4, <1>5, <1>6, <1>7, <1>8, <1>9, <1>10 DEF Cleanup

\* Who answers for an ACL entry: kept by every step.
LEMMA AclNext ==
    ASSUME TypeOK, PidInv, AclInv, [Next]_vars
    PROVE  AclInv'
  <1> USE DEF AclInv, PidInv, TypeOK
  <1>1. ASSUME NEW s \in Session, Start(s) PROVE AclInv'  BY <1>1 DEF Start, Using
  <1>2. ASSUME NEW s \in Session, Continue(s) PROVE AclInv'  BY <1>2 DEF Continue
  <1>3. ASSUME NEW s \in Session, Killed(s) PROVE AclInv'  BY <1>3 DEF Killed
  <1>4. ASSUME NEW js \in {Jail} \cup {{j} : j \in Jail}, SweepStart(js) PROVE AclInv'
    BY <1>4 DEF SweepStart
  <1>5. ASSUME NEW j \in Jail, SweepJail(j) PROVE AclInv'  BY <1>5 DEF SweepJail
  <1>6. CASE SweepTmp  BY <1>6 DEF SweepTmp
  <1>7. CASE UNCHANGED vars  BY <1>7 DEF vars
  <1>8. ASSUME NEW s \in Session, Child(s) PROVE AclInv'  BY <1>8, ChildTouches
  <1>9. ASSUME NEW s \in Session, Helper(s) PROVE AclInv'  BY <1>9, HelperTouches
  <1> QED
    BY <1>1, <1>2, <1>3, <1>4, <1>5, <1>6, <1>7, <1>8, <1>9, AclLaunch, AclWait, AclCleanup DEF
       Next, Sweep

-----------------------------------------------------------------------------
(* The owner of the temp directory. *)

\* The owner of the temp directory: kept by the actions of Launch.
LEMMA OwnerLaunch ==
    ASSUME TypeOK, ChildInv, OwnerInv, NEW s \in Session, Launch(s)
    PROVE  OwnerInv'
  <1> USE DEF OwnerInv, Owned, ChildInv, TypeOK
  <1>1. CASE Elevate(s)  BY <1>1 DEF Elevate
  <1>2. CASE ElevateFails(s)  BY <1>2 DEF ElevateFails
  <1>3. CASE Preflight(s)  BY <1>3 DEF Preflight
  <1>4. CASE PreflightFails(s)  BY <1>4 DEF PreflightFails
  <1>5. CASE MakeTmp(s)  BY <1>5 DEF MakeTmp
  <1>6. CASE MakeTmpFails(s)  BY <1>6 DEF MakeTmpFails
  <1>7. CASE BareHome(s)  BY <1>7 DEF BareHome
  <1>8. CASE CasualDirs(s)  BY <1>8 DEF CasualDirs
  <1>9. CASE HomeFails(s)  BY <1>9 DEF HomeFails
  <1>10. CASE ForceUnmount(s)  BY <1>10 DEF ForceUnmount
  <1>11. CASE StartHelper(s)  BY <1>11 DEF StartHelper
  <1>12. CASE StartHelperFails(s)  BY <1>12 DEF StartHelperFails
  <1>13. CASE PollMounted(s)  BY <1>13 DEF PollMounted
  <1>14. CASE PollExited(s)  BY <1>14 DEF PollExited
  <1>15. CASE PollTimeout(s)  BY <1>15 DEF PollTimeout
  <1>16. CASE LateReap(s)  BY <1>16 DEF LateReap
  <1>17. CASE Prepare(s)  BY <1>17 DEF Prepare
  <1>18. CASE GrantAcl(s)  BY <1>18 DEF GrantAcl
  <1>19. CASE Profile(s)  BY <1>19 DEF Profile
  <1>20. CASE PrepareFails(s)  BY <1>20 DEF PrepareFails
  <1>21. CASE Fork(s)  BY <1>21 DEF Fork
  <1>22. CASE ForkFails(s)  BY <1>22 DEF ForkFails
  <1> QED
    BY <1>1, <1>2, <1>3, <1>4, <1>5, <1>6, <1>7, <1>8, <1>9, <1>10, <1>11, <1>12, <1>13, <1>14,
       <1>15, <1>16, <1>17, <1>18, <1>19, <1>20, <1>21, <1>22 DEF Launch

\* The owner of the temp directory: kept by the actions of Wait.
LEMMA OwnerWait ==
    ASSUME TypeOK, ChildInv, OwnerInv, NEW s \in Session, Wait(s)
    PROVE  OwnerInv'
  <1> USE DEF OwnerInv, Owned, ChildInv, TypeOK
  <1>1. CASE WaitExited(s)  BY <1>1 DEF WaitExited
  <1>2. CASE WaitSignaled(s)  BY <1>2 DEF WaitSignaled
  <1>3. CASE WaitStopped(s)  BY <1>3 DEF WaitStopped
  <1> QED
    BY <1>1, <1>2, <1>3 DEF Wait

\* The owner of the temp directory: kept by the actions of Cleanup.
LEMMA OwnerCleanup ==
    ASSUME TypeOK, ChildInv, OwnerInv, NEW s \in Session, Cleanup(s)
    PROVE  OwnerInv'
  <1> USE DEF OwnerInv, Owned, ChildInv, TypeOK
  <1>1. CASE DeferUnmount(s)  BY <1>1 DEF DeferUnmount
  <1>2. CASE DeferReap(s)  BY <1>2 DEF DeferReap
  <1>3. CASE DeferTmp(s)  BY <1>3 DEF DeferTmp
  <1>4. CASE AtexitAcl(s)  BY <1>4 DEF AtexitAcl
  <1>5. CASE AtexitUnmount(s)  BY <1>5 DEF AtexitUnmount
  <1>6. CASE AtexitReap(s)  BY <1>6 DEF AtexitReap
  <1>7. CASE AtexitGiveUp(s)  BY <1>7 DEF AtexitGiveUp
  <1>8. CASE AtexitTerm(s)  BY <1>8 DEF AtexitTerm
  <1>9. CASE AtexitLateReap(s)  BY <1>9 DEF AtexitLateReap
  <1>10. CASE AtexitTmp(s)  BY <1>10 DEF AtexitTmp
  <1> QED
    BY <1>1, <1>2, <1>3, <1>4, <1>5, <1>6, <1>7, <1>8, <1>9, <1>10 DEF Cleanup

\* The owner of the temp directory: kept by the actions of Child.
LEMMA OwnerChild ==
    ASSUME TypeOK, ChildInv, OwnerInv, NEW s \in Session, Child(s)
    PROVE  OwnerInv'
  <1> USE DEF OwnerInv, Owned, ChildInv, TypeOK
  <1>1. CASE ChildDrop(s)  BY <1>1 DEF ChildDrop
  <1>2. CASE ChildSandbox(s)  BY <1>2 DEF ChildSandbox
  <1>3. CASE ChildScrub(s)  BY <1>3 DEF ChildScrub
  <1>4. CASE ChildExec(s)  BY <1>4 DEF ChildExec
  <1>5. CASE ChildExits(s)  BY <1>5 DEF ChildExits
  <1>6. CASE ChildKilled(s)  BY <1>6 DEF ChildKilled
  <1>7. CASE ChildStops(s)  BY <1>7 DEF ChildStops
  <1>8. CASE ChildContinues(s)  BY <1>8 DEF ChildContinues
  <1> QED
    BY <1>1, <1>2, <1>3, <1>4, <1>5, <1>6, <1>7, <1>8 DEF Child

\* The owner of the temp directory: kept by every step.
LEMMA OwnerNext ==
    ASSUME TypeOK, ChildInv, OwnerInv, [Next]_vars
    PROVE  OwnerInv'
  <1> USE DEF OwnerInv, Owned, ChildInv, TypeOK
  <1>1. ASSUME NEW s \in Session, Start(s) PROVE OwnerInv'  BY <1>1 DEF Start, Using
  <1>2. ASSUME NEW s \in Session, Continue(s) PROVE OwnerInv'  BY <1>2 DEF Continue
  <1>3. ASSUME NEW s \in Session, Killed(s) PROVE OwnerInv'  BY <1>3 DEF Killed
  <1>4. ASSUME NEW js \in {Jail} \cup {{j} : j \in Jail}, SweepStart(js) PROVE OwnerInv'
    BY <1>4 DEF SweepStart
  <1>5. ASSUME NEW j \in Jail, SweepJail(j) PROVE OwnerInv'  BY <1>5 DEF SweepJail
  <1>6. CASE SweepTmp  BY <1>6 DEF SweepTmp
  <1>7. CASE UNCHANGED vars  BY <1>7 DEF vars
  <1>8. ASSUME NEW s \in Session, Helper(s) PROVE OwnerInv'  BY <1>8, HelperTouches
  <1> QED
    BY <1>1, <1>2, <1>3, <1>4, <1>5, <1>6, <1>7, <1>8, OwnerLaunch, OwnerWait, OwnerCleanup,
       OwnerChild DEF Next, Sweep

-----------------------------------------------------------------------------
(* Sessions that share a jail have met. *)

\* Sessions that share a jail have met: kept by the actions of Launch.
LEMMA ExclLaunch ==
    ASSUME TypeOK, PidInv, Exclusive, NEW s \in Session, Launch(s)
    PROVE  Exclusive'
  <1> USE DEF Exclusive, PidInv, TypeOK, Using
  <1>1. CASE Elevate(s)  BY <1>1 DEF Elevate
  <1>2. CASE ElevateFails(s)  BY <1>2 DEF ElevateFails
  <1>3. CASE Preflight(s)  BY <1>3 DEF Preflight
  <1>4. CASE PreflightFails(s)  BY <1>4 DEF PreflightFails
  <1>5. CASE MakeTmp(s)  BY <1>5 DEF MakeTmp
  <1>6. CASE MakeTmpFails(s)  BY <1>6 DEF MakeTmpFails
  <1>7. CASE BareHome(s)  BY <1>7 DEF BareHome
  <1>8. CASE CasualDirs(s)  BY <1>8 DEF CasualDirs
  <1>9. CASE HomeFails(s)  BY <1>9 DEF HomeFails
  <1>10. CASE ForceUnmount(s)  BY <1>10 DEF ForceUnmount
  <1>11. CASE StartHelper(s)  BY <1>11 DEF StartHelper
  <1>12. CASE StartHelperFails(s)  BY <1>12 DEF StartHelperFails
  <1>13. CASE PollMounted(s)  BY <1>13 DEF PollMounted
  <1>14. CASE PollExited(s)  BY <1>14 DEF PollExited
  <1>15. CASE PollTimeout(s)  BY <1>15 DEF PollTimeout
  <1>16. CASE LateReap(s)  BY <1>16 DEF LateReap
  <1>17. CASE Prepare(s)  BY <1>17 DEF Prepare
  <1>18. CASE GrantAcl(s)  BY <1>18 DEF GrantAcl
  <1>19. CASE Profile(s)  BY <1>19 DEF Profile
  <1>20. CASE PrepareFails(s)  BY <1>20 DEF PrepareFails
  <1>21. CASE Fork(s)  BY <1>21 DEF Fork
  <1>22. CASE ForkFails(s)  BY <1>22 DEF ForkFails
  <1> QED
    BY <1>1, <1>2, <1>3, <1>4, <1>5, <1>6, <1>7, <1>8, <1>9, <1>10, <1>11, <1>12, <1>13, <1>14,
       <1>15, <1>16, <1>17, <1>18, <1>19, <1>20, <1>21, <1>22 DEF Launch

\* Sessions that share a jail have met: kept by the actions of Wait.
LEMMA ExclWait ==
    ASSUME TypeOK, PidInv, Exclusive, NEW s \in Session, Wait(s)
    PROVE  Exclusive'
  <1> USE DEF Exclusive, PidInv, TypeOK, Using
  <1>1. CASE WaitExited(s)  BY <1>1 DEF WaitExited
  <1>2. CASE WaitSignaled(s)  BY <1>2 DEF WaitSignaled
  <1>3. CASE WaitStopped(s)  BY <1>3 DEF WaitStopped
  <1> QED
    BY <1>1, <1>2, <1>3 DEF Wait

\* Sessions that share a jail have met: kept by the actions of Cleanup.
LEMMA ExclCleanup ==
    ASSUME TypeOK, PidInv, Exclusive, NEW s \in Session, Cleanup(s)
    PROVE  Exclusive'
  <1> USE DEF Exclusive, PidInv, TypeOK, Using
  <1>1. CASE DeferUnmount(s)  BY <1>1 DEF DeferUnmount
  <1>2. CASE DeferReap(s)  BY <1>2 DEF DeferReap
  <1>3. CASE DeferTmp(s)  BY <1>3 DEF DeferTmp
  <1>4. CASE AtexitAcl(s)  BY <1>4 DEF AtexitAcl
  <1>5. CASE AtexitUnmount(s)  BY <1>5 DEF AtexitUnmount
  <1>6. CASE AtexitReap(s)  BY <1>6 DEF AtexitReap
  <1>7. CASE AtexitGiveUp(s)  BY <1>7 DEF AtexitGiveUp
  <1>8. CASE AtexitTerm(s)  BY <1>8 DEF AtexitTerm
  <1>9. CASE AtexitLateReap(s)  BY <1>9 DEF AtexitLateReap
  <1>10. CASE AtexitTmp(s)  BY <1>10 DEF AtexitTmp
  <1> QED
    BY <1>1, <1>2, <1>3, <1>4, <1>5, <1>6, <1>7, <1>8, <1>9, <1>10 DEF Cleanup

\* Sessions that share a jail have met: kept by the actions of Helper.
LEMMA ExclHelper ==
    ASSUME TypeOK, PidInv, Exclusive, NEW s \in Session, Helper(s)
    PROVE  Exclusive'
  <1> USE DEF Exclusive, PidInv, TypeOK, Using
  <1>1. CASE HelperMounts(s)  BY <1>1 DEF HelperMounts
  <1>2. CASE HelperFails(s)  BY <1>2 DEF HelperFails
  <1>3. CASE HelperUnmounted(s)  BY <1>3 DEF HelperUnmounted
  <1>4. CASE HelperTerminated(s)  BY <1>4 DEF HelperTerminated
  <1>5. CASE HelperCrashes(s)  BY <1>5 DEF HelperCrashes
  <1> QED
    BY <1>1, <1>2, <1>3, <1>4, <1>5 DEF Helper

\* Sessions that share a jail have met: kept by every step.
LEMMA ExclNext ==
    ASSUME TypeOK, PidInv, Exclusive, [Next]_vars
    PROVE  Exclusive'
  <1> USE DEF Exclusive, PidInv, TypeOK, Using
  <1>1. ASSUME NEW s \in Session, Start(s) PROVE Exclusive'  BY <1>1 DEF Start, Using
  <1>2. ASSUME NEW s \in Session, Continue(s) PROVE Exclusive'  BY <1>2 DEF Continue
  <1>3. ASSUME NEW s \in Session, Killed(s) PROVE Exclusive'  BY <1>3 DEF Killed
  <1>4. ASSUME NEW js \in {Jail} \cup {{j} : j \in Jail}, SweepStart(js) PROVE Exclusive'
    BY <1>4 DEF SweepStart
  <1>5. ASSUME NEW j \in Jail, SweepJail(j) PROVE Exclusive'  BY <1>5 DEF SweepJail
  <1>6. CASE SweepTmp  BY <1>6 DEF SweepTmp
  <1>7. CASE UNCHANGED vars  BY <1>7 DEF vars
  <1>8. ASSUME NEW s \in Session, Child(s) PROVE Exclusive'  BY <1>8, ChildTouches
  <1> QED
    BY <1>1, <1>2, <1>3, <1>4, <1>5, <1>6, <1>7, <1>8, ExclLaunch, ExclWait, ExclCleanup,
       ExclHelper DEF Next, Sweep

-----------------------------------------------------------------------------
(* Helpers and mounts. *)

\* Helpers and mounts: kept by the actions of Launch.
LEMMA OverlayLaunch ==
    ASSUME TypeOK, PidInv, Exclusive, OverlayInv, NEW s \in Session, Launch(s)
    PROVE  OverlayInv'
  <1> USE NoOneAssumption, ConfigAssumption DEF OverlayInv, PidInv, Exclusive, TypeOK
  <1>1. CASE Elevate(s)  BY <1>1 DEF Elevate
  <1>2. CASE ElevateFails(s)  BY <1>2 DEF ElevateFails
  <1>3. CASE Preflight(s)  BY <1>3 DEF Preflight
  <1>4. CASE PreflightFails(s)  BY <1>4 DEF PreflightFails
  <1>5. CASE MakeTmp(s)  BY <1>5 DEF MakeTmp
  <1>6. CASE MakeTmpFails(s)  BY <1>6 DEF MakeTmpFails
  <1>7. CASE BareHome(s)  BY <1>7 DEF BareHome
  <1>8. CASE CasualDirs(s)  BY <1>8 DEF CasualDirs
  <1>9. CASE HomeFails(s)  BY <1>9 DEF HomeFails
  <1>10. CASE ForceUnmount(s)  BY <1>10 DEF ForceUnmount
  <1>11. CASE StartHelper(s)
    <2>1. mnt[JailOf(s)] \in {NoOne} \cup met[s]
      BY <1>11 DEF StartHelper
    <2> QED BY <1>11, <2>1 DEF StartHelper
  <1>12. CASE StartHelperFails(s)  BY <1>12 DEF StartHelperFails
  <1>13. CASE PollMounted(s)  BY <1>13 DEF PollMounted
  <1>14. CASE PollExited(s)  BY <1>14 DEF PollExited
  <1>15. CASE PollTimeout(s)  BY <1>15 DEF PollTimeout
  <1>16. CASE LateReap(s)  BY <1>16 DEF LateReap
  <1>17. CASE Prepare(s)  BY <1>17 DEF Prepare
  <1>18. CASE GrantAcl(s)  BY <1>18 DEF GrantAcl
  <1>19. CASE Profile(s)  BY <1>19 DEF Profile
  <1>20. CASE PrepareFails(s)  BY <1>20 DEF PrepareFails
  <1>21. CASE Fork(s)  BY <1>21 DEF Fork
  <1>22. CASE ForkFails(s)  BY <1>22 DEF ForkFails
  <1> QED
    BY <1>1, <1>2, <1>3, <1>4, <1>5, <1>6, <1>7, <1>8, <1>9, <1>10, <1>11, <1>12, <1>13, <1>14,
       <1>15, <1>16, <1>17, <1>18, <1>19, <1>20, <1>21, <1>22 DEF Launch

\* Helpers and mounts: kept by the actions of Wait.
LEMMA OverlayWait ==
    ASSUME TypeOK, PidInv, Exclusive, OverlayInv, NEW s \in Session, Wait(s)
    PROVE  OverlayInv'
  <1> USE NoOneAssumption, ConfigAssumption DEF OverlayInv, PidInv, Exclusive, TypeOK
  <1>1. CASE WaitExited(s)  BY <1>1 DEF WaitExited
  <1>2. CASE WaitSignaled(s)  BY <1>2 DEF WaitSignaled
  <1>3. CASE WaitStopped(s)  BY <1>3 DEF WaitStopped
  <1> QED
    BY <1>1, <1>2, <1>3 DEF Wait

\* Helpers and mounts: kept by the actions of Cleanup.
LEMMA OverlayCleanup ==
    ASSUME TypeOK, PidInv, Exclusive, OverlayInv, NEW s \in Session, Cleanup(s)
    PROVE  OverlayInv'
  <1> USE NoOneAssumption, ConfigAssumption DEF OverlayInv, PidInv, Exclusive, TypeOK
  <1>1. CASE DeferUnmount(s)  BY <1>1 DEF DeferUnmount
  <1>2. CASE DeferReap(s)  BY <1>2 DEF DeferReap
  <1>3. CASE DeferTmp(s)  BY <1>3 DEF DeferTmp
  <1>4. CASE AtexitAcl(s)  BY <1>4 DEF AtexitAcl
  <1>5. CASE AtexitUnmount(s)  BY <1>5 DEF AtexitUnmount
  <1>6. CASE AtexitReap(s)  BY <1>6 DEF AtexitReap
  <1>7. CASE AtexitGiveUp(s)  BY <1>7 DEF AtexitGiveUp
  <1>8. CASE AtexitTerm(s)  BY <1>8 DEF AtexitTerm
  <1>9. CASE AtexitLateReap(s)  BY <1>9 DEF AtexitLateReap
  <1>10. CASE AtexitTmp(s)  BY <1>10 DEF AtexitTmp
  <1> QED
    BY <1>1, <1>2, <1>3, <1>4, <1>5, <1>6, <1>7, <1>8, <1>9, <1>10 DEF Cleanup

\* Helpers and mounts: kept by the actions of Helper.
LEMMA OverlayHelper ==
    ASSUME TypeOK, PidInv, Exclusive, OverlayInv, NEW s \in Session, Helper(s)
    PROVE  OverlayInv'
  <1> USE NoOneAssumption, ConfigAssumption DEF OverlayInv, PidInv, Exclusive, TypeOK
  <1>1. CASE HelperMounts(s)  BY <1>1 DEF HelperMounts
  <1>2. CASE HelperFails(s)  BY <1>2 DEF HelperFails
  <1>3. CASE HelperUnmounted(s)  BY <1>3 DEF HelperUnmounted
  <1>4. CASE HelperTerminated(s)  BY <1>4 DEF HelperTerminated
  <1>5. CASE HelperCrashes(s)  BY <1>5 DEF HelperCrashes
  <1> QED
    BY <1>1, <1>2, <1>3, <1>4, <1>5 DEF Helper

\* Helpers and mounts: kept by every step.
LEMMA OverlayNext ==
    ASSUME TypeOK, PidInv, Exclusive, OverlayInv, [Next]_vars
    PROVE  OverlayInv'
  <1> USE NoOneAssumption, ConfigAssumption DEF OverlayInv, PidInv, Exclusive, TypeOK
  <1>1. ASSUME NEW s \in Session, Start(s) PROVE OverlayInv'  BY <1>1 DEF Start, Using
  <1>2. ASSUME NEW s \in Session, Continue(s) PROVE OverlayInv'  BY <1>2 DEF Continue
  <1>3. ASSUME NEW s \in Session, Killed(s) PROVE OverlayInv'  BY <1>3 DEF Killed
  <1>4. ASSUME NEW js \in {Jail} \cup {{j} : j \in Jail}, SweepStart(js) PROVE OverlayInv'
    BY <1>4 DEF SweepStart
  <1>5. ASSUME NEW j \in Jail, SweepJail(j) PROVE OverlayInv'  BY <1>5 DEF SweepJail
  <1>6. CASE SweepTmp  BY <1>6 DEF SweepTmp
  <1>7. CASE UNCHANGED vars  BY <1>7 DEF vars
  <1>8. ASSUME NEW s \in Session, Child(s) PROVE OverlayInv'  BY <1>8, ChildTouches
  <1> QED
    BY <1>1, <1>2, <1>3, <1>4, <1>5, <1>6, <1>7, <1>8, OverlayLaunch, OverlayWait,
       OverlayCleanup, OverlayHelper DEF Next, Sweep

-----------------------------------------------------------------------------
(* The life of the temp directory. *)

\* The life of the temp directory: kept by the actions of Launch.
LEMMA TmpLaunch ==
    ASSUME TypeOK, PidInv, TmpInv, NEW s \in Session, Launch(s)
    PROVE  TmpInv'
  <1> USE DEF TmpInv, PidInv, TypeOK
  <1>1. CASE Elevate(s)  BY <1>1 DEF Elevate
  <1>2. CASE ElevateFails(s)  BY <1>2 DEF ElevateFails
  <1>3. CASE Preflight(s)  BY <1>3 DEF Preflight
  <1>4. CASE PreflightFails(s)  BY <1>4 DEF PreflightFails
  <1>5. CASE MakeTmp(s)  BY <1>5 DEF MakeTmp
  <1>6. CASE MakeTmpFails(s)  BY <1>6 DEF MakeTmpFails
  <1>7. CASE BareHome(s)  BY <1>7 DEF BareHome
  <1>8. CASE CasualDirs(s)  BY <1>8 DEF CasualDirs
  <1>9. CASE HomeFails(s)  BY <1>9 DEF HomeFails
  <1>10. CASE ForceUnmount(s)  BY <1>10 DEF ForceUnmount
  <1>11. CASE StartHelper(s)  BY <1>11 DEF StartHelper
  <1>12. CASE StartHelperFails(s)  BY <1>12 DEF StartHelperFails
  <1>13. CASE PollMounted(s)  BY <1>13 DEF PollMounted
  <1>14. CASE PollExited(s)  BY <1>14 DEF PollExited
  <1>15. CASE PollTimeout(s)  BY <1>15 DEF PollTimeout
  <1>16. CASE LateReap(s)  BY <1>16 DEF LateReap
  <1>17. CASE Prepare(s)  BY <1>17 DEF Prepare
  <1>18. CASE GrantAcl(s)  BY <1>18 DEF GrantAcl
  <1>19. CASE Profile(s)  BY <1>19 DEF Profile
  <1>20. CASE PrepareFails(s)  BY <1>20 DEF PrepareFails
  <1>21. CASE Fork(s)  BY <1>21 DEF Fork
  <1>22. CASE ForkFails(s)  BY <1>22 DEF ForkFails
  <1> QED
    BY <1>1, <1>2, <1>3, <1>4, <1>5, <1>6, <1>7, <1>8, <1>9, <1>10, <1>11, <1>12, <1>13, <1>14,
       <1>15, <1>16, <1>17, <1>18, <1>19, <1>20, <1>21, <1>22 DEF Launch

\* The life of the temp directory: kept by the actions of Wait.
LEMMA TmpWait ==
    ASSUME TypeOK, PidInv, TmpInv, NEW s \in Session, Wait(s)
    PROVE  TmpInv'
  <1> USE DEF TmpInv, PidInv, TypeOK
  <1>1. CASE WaitExited(s)  BY <1>1 DEF WaitExited
  <1>2. CASE WaitSignaled(s)  BY <1>2 DEF WaitSignaled
  <1>3. CASE WaitStopped(s)  BY <1>3 DEF WaitStopped
  <1> QED
    BY <1>1, <1>2, <1>3 DEF Wait

\* The life of the temp directory: kept by the actions of Cleanup.
LEMMA TmpCleanup ==
    ASSUME TypeOK, PidInv, TmpInv, NEW s \in Session, Cleanup(s)
    PROVE  TmpInv'
  <1> USE DEF TmpInv, PidInv, TypeOK
  <1>1. CASE DeferUnmount(s)  BY <1>1 DEF DeferUnmount
  <1>2. CASE DeferReap(s)  BY <1>2 DEF DeferReap
  <1>3. CASE DeferTmp(s)  BY <1>3 DEF DeferTmp
  <1>4. CASE AtexitAcl(s)  BY <1>4 DEF AtexitAcl
  <1>5. CASE AtexitUnmount(s)  BY <1>5 DEF AtexitUnmount
  <1>6. CASE AtexitReap(s)  BY <1>6 DEF AtexitReap
  <1>7. CASE AtexitGiveUp(s)  BY <1>7 DEF AtexitGiveUp
  <1>8. CASE AtexitTerm(s)  BY <1>8 DEF AtexitTerm
  <1>9. CASE AtexitLateReap(s)  BY <1>9 DEF AtexitLateReap
  <1>10. CASE AtexitTmp(s)  BY <1>10 DEF AtexitTmp
  <1> QED
    BY <1>1, <1>2, <1>3, <1>4, <1>5, <1>6, <1>7, <1>8, <1>9, <1>10 DEF Cleanup

\* The life of the temp directory: kept by the actions of Helper.
LEMMA TmpHelper ==
    ASSUME TypeOK, PidInv, TmpInv, NEW s \in Session, Helper(s)
    PROVE  TmpInv'
  <1> USE DEF TmpInv, PidInv, TypeOK
  <1>1. CASE HelperMounts(s)  BY <1>1 DEF HelperMounts
  <1>2. CASE HelperFails(s)  BY <1>2 DEF HelperFails
  <1>3. CASE HelperUnmounted(s)  BY <1>3 DEF HelperUnmounted
  <1>4. CASE HelperTerminated(s)  BY <1>4 DEF HelperTerminated
  <1>5. CASE HelperCrashes(s)  BY <1>5 DEF HelperCrashes
  <1> QED
    BY <1>1, <1>2, <1>3, <1>4, <1>5 DEF Helper

\* The life of the temp directory: kept by every step.
LEMMA TmpNext ==
    ASSUME TypeOK, PidInv, TmpInv, [Next]_vars
    PROVE  TmpInv'
  <1> USE DEF TmpInv, PidInv, TypeOK
  <1>1. ASSUME NEW s \in Session, Start(s) PROVE TmpInv'  BY <1>1 DEF Start, Using
  <1>2. ASSUME NEW s \in Session, Continue(s) PROVE TmpInv'  BY <1>2 DEF Continue
  <1>3. ASSUME NEW s \in Session, Killed(s) PROVE TmpInv'  BY <1>3 DEF Killed
  <1>4. ASSUME NEW js \in {Jail} \cup {{j} : j \in Jail}, SweepStart(js) PROVE TmpInv'
    BY <1>4 DEF SweepStart
  <1>5. ASSUME NEW j \in Jail, SweepJail(j) PROVE TmpInv'  BY <1>5 DEF SweepJail
  <1>6. CASE SweepTmp  BY <1>6 DEF SweepTmp
  <1>7. CASE UNCHANGED vars  BY <1>7 DEF vars
  <1>8. ASSUME NEW s \in Session, Child(s) PROVE TmpInv'  BY <1>8, ChildTouches
  <1> QED
    BY <1>1, <1>2, <1>3, <1>4, <1>5, <1>6, <1>7, <1>8, TmpLaunch, TmpWait, TmpCleanup, TmpHelper
       DEF Next, Sweep

-----------------------------------------------------------------------------
(* Theorems. *)

\* Every variable keeps its type through every launch, wait, cleanup, child,
\* helper and sweep step.
THEOREM TypeCorrect == Spec => []TypeOK
  <1>1. ASSUME Init PROVE TypeOK
    <2>1. /\ pc \in [Session -> {"idle"} \cup Alive \cup Gone]
          /\ helper \in [Session -> {"none", "starting", "serving", "exited", "reaped"}]
          /\ child \in [Session -> {"none", "forked", "dropped", "boxed", "scrubbed", "running",
                                    "stopped", "exited", "signaled", "reaped"}]
      BY <1>1 DEF Init
    <2>2. /\ euid \in [Session -> {"user", "root"}]
          /\ tmp \in [Session -> Uid \cup {"none"}]
          /\ childUid \in [Session -> Uid \cup {"none"}]
          /\ failedAt \in [Session -> LaunchPc \cup {"none", "canonical"}]
      BY <1>1 DEF Init
    <2>3. /\ mnt \in [Jail -> Session \cup {NoOne}]
          /\ pre \in [Session -> Session \cup {NoOne}]
          /\ dirs \in [Jail -> SUBSET {".home", ".changes", ".mount"}]
      BY <1>1 DEF Init
    <2>4. /\ termed \in [Session -> BOOLEAN] /\ pid \in [Session -> BOOLEAN]
          /\ mounted \in [Session -> BOOLEAN] /\ boxed \in [Session -> BOOLEAN]
          /\ sweeping \in BOOLEAN
      BY <1>1 DEF Init
    <2>6. /\ scrubbed \in [Session -> {"open", "closed", "unlisted"}]
          /\ env \in [Session -> {"none", "made", "own"}]
          /\ kept \subseteq Session /\ met \in [Session -> SUBSET Session]
      BY <1>1 DEF Init
    <2>5. /\ cfg \in [Session -> Config] /\ ace \subseteq Grant
          /\ todo \subseteq Jail /\ sweeps \in Nat
      BY <1>1 DEF Init
    <2> QED
      BY <2>1, <2>2, <2>3, <2>4, <2>5, <2>6 DEF TypeOK
  <1> QED
    BY <1>1, TypeNext, PTL DEF Spec

\* The jailed program is only ever run after enter_permanently, sandbox_init
\* and the scrub of the descriptors, in that order; the scrub closes none when
\* proc_pidinfo fails.
THEOREM Confinement == Spec => []ChildConfined
  <1>1. Init => ChildInv
    BY DEF Init, ChildInv
  <1>2. Spec => []ChildInv
    BY <1>1, TypeCorrect, ChildNext, PTL DEF Spec
  <1>3. TypeOK /\ ChildInv => ChildConfined
    BY DEF ChildInv, ChildConfined, TypeOK
  <1> QED
    BY <1>2, <1>3, TypeCorrect, PTL

\* overlay_pid_ stands for a helper that has not been reaped, wherever it is
\* signalled or waited for.
LEMMA PidSafe == Spec => []PidInv
  <1>1. Init => PidInv
    BY DEF Init, PidInv
  <1> QED
    BY <1>1, TypeCorrect, PidNext, PTL DEF Spec

\* At none of the five places where it is reaped is overlay_pid_ kept.
THEOREM PidSafety == Spec => []PidValid
  <1>1. PidInv => PidValid
    BY DEF PidInv, PidValid
  <1> QED
    BY <1>1, PidSafe, PTL

\* ACL entries outlive no strict session that runs atexit_fn.
THEOREM AclSafety == Spec => []AclStripped
  <1>1. Init => AclInv
    BY DEF Init, AclInv
  <1>2. Spec => []AclInv
    BY <1>1, TypeCorrect, PidSafe, AclNext, PTL DEF Spec
  <1>3. TypeOK /\ AclInv => AclStripped
    BY DEF AclInv, AclStripped, GrantHeld, TypeOK
  <1> QED
    BY <1>2, <1>3, TypeCorrect, PTL

\* TMPDIR belongs to the uid the jailed program runs under, or `jaim -u' has
\* removed it.
THEOREM TmpSafety == Spec => []TmpUsable
  <1>1. Init => ChildInv /\ OwnerInv
    BY DEF Init, ChildInv, OwnerInv
  <1>2. Spec => [](ChildInv /\ OwnerInv)
    BY <1>1, TypeCorrect, ChildNext, OwnerNext, PTL DEF Spec
  <1>3. TypeOK /\ OwnerInv => TmpUsable
    BY DEF OwnerInv, Owned, TmpUsable, TypeOK
  <1> QED
    BY <1>2, <1>3, TypeCorrect, PTL

\* Helpers, mounts and temp directories are where the invariants say.
LEMMA OverlaySafety == Spec => [](TypeOK /\ PidInv /\ Exclusive /\ OverlayInv /\ TmpInv /\ AclInv)
  <1>1. Init => Exclusive /\ OverlayInv /\ TmpInv /\ AclInv
    BY NoOneAssumption, ConfigAssumption DEF Init, Exclusive, OverlayInv, TmpInv, AclInv
  <1>2. TypeOK /\ PidInv /\ AclInv /\ [Next]_vars => AclInv'
    BY AclNext
  <1> QED
    BY <1>1, <1>2, TypeCorrect, PidSafe, ExclNext, OverlayNext, TmpNext, PTL DEF Spec

\* A session's $HOME overlay is another session's mount only if the two were in
\* the jail at the same time.
THEOREM OverlayIsOwn == Spec => []OwnOverlay
  <1>1. TypeOK /\ PidInv /\ OverlayInv => OwnOverlay
    BY DEF OverlayInv, PidInv, OwnOverlay, TypeOK
  <1> QED
    BY <1>1, OverlaySafety, PTL

\* A session whose child exited leaves no helper; no temp directory unless
\* remove_all failed; no mount unless another session was in its jail.
THEOREM ExitIsClean == Spec => []CleanExit
  <1>1. TypeOK /\ PidInv /\ OverlayInv /\ TmpInv => CleanExit
    BY DEF PidInv, OverlayInv, TmpInv, CleanExit, TypeOK
  <1> QED
    BY <1>1, OverlaySafety, PTL

\* What a failed launch leaves behind depends on the step that threw, as
\* CleanFailure has it.
THEOREM FailureIsClean == Spec => []CleanFailure
  <1>1. ASSUME TypeOK, PidInv, OverlayInv, TmpInv, AclInv, NEW s \in Session, pc[s] = "failed"
        PROVE  /\ failedAt[s] # "fork" => helper[s] \in {"none", "reaped"}
               /\ failedAt[s] \notin {"polling", "late_reap", "fork"} =>
                    mnt[JailOf(s)] # s \/ met[s] # {}
               /\ failedAt[s] \in {"elevate", "preflight", "mktmp", "prep", "profile"} =>
                    tmp[s] = "none" \/ s \in kept
               /\ failedAt[s] \notin {"profile", "fork"} /\ Mode(s) = "strict" =>
                    cfg[s].grant \notin ace \/ GrantHeld(s)
    <2>1. failedAt[s] # "fork" => helper[s] \in {"none", "reaped"}
      BY <1>1 DEF PidInv, TypeOK
    <2>2. failedAt[s] \notin {"polling", "late_reap", "fork"} => mnt[JailOf(s)] # s \/ met[s] # {}
      BY <1>1, ConfigAssumption DEF OverlayInv, PidInv, TypeOK
    <2>3. failedAt[s] \in {"elevate", "preflight", "mktmp", "prep", "profile"} =>
            tmp[s] = "none" \/ s \in kept
      BY <1>1 DEF TmpInv
    <2>4. ASSUME failedAt[s] \notin {"profile", "fork"}, cfg[s].grant \in ace PROVE GrantHeld(s)
      <3>1. PICK t \in Session : Mode(t) = "strict" /\ cfg[t].grant = cfg[s].grant /\ HoldsAcl(t)
        BY <1>1, <2>4 DEF AclInv
      <3> QED BY <1>1, <2>4, <3>1 DEF GrantHeld
    <2> QED BY <2>1, <2>2, <2>3, <2>4
  <1>2. TypeOK /\ PidInv /\ OverlayInv /\ TmpInv /\ AclInv => CleanFailure
    BY <1>1 DEF CleanFailure
  <1> QED
    BY <1>2, OverlaySafety, PTL
=============================================================================
