--------------------------- MODULE AttachWrapProofs ---------------------------
(***************************************************************************)
(* AttachWrap, for every container, attach request, fault and bound.  The  *)
(* container's own invariant carries over, since an attach changes nothing *)
(* of what CreateWrap sees.                                                *)
(***************************************************************************)
EXTENDS AttachWrapProps, CreateWrapProofs

\* To the container, a step of the composition is one of its own or none.
LEMMA ContainerStep == [AttachNext]_allVars => [Next]_vars
<1> SUFFICES ASSUME [AttachNext]_allVars PROVE [Next]_vars  OBVIOUS
<1> USE DEF containerVars
<1>1. CASE AttacherStep \/ AttacherError
  BY <1>1 DEF AttacherStep, FindChild, AttachCgroup, OpenPidfd, JoinNamespaces, SetOomScore,
     AttachHandlers, ForkAttached, StoreAttachedPid, WaitAttached, ExitWithAttachedCode,
     AttacherError, rest
<1>2. CASE ForkedStep \/ AttachedExit \/ SignalAttacher \/ KillAttacher \/ ReapOrphan
  BY <1>2 DEF ForkedStep, AttachedExit, SignalAttacher, KillAttacher, ReapOrphan, rest
<1>3. CASE Coupled(SupervisorStep) \/ Coupled(ChildStep) \/ Coupled(Environment)
  BY <1>3 DEF Coupled, Next
<1>4. CASE UNCHANGED allVars
  BY <1>4 DEF allVars
<1> QED BY <1>1, <1>2, <1>3, <1>4 DEF AttachNext

\* What the attach depends on in the container's steps.
LEMMA ContainerMoves ==
  ASSUME IInv, RootInv, Next
  PROVE  /\ req' = req /\ mounts \subseteq mounts' /\ RootInv'
         /\ cpc \notin ChildEnds /\ cpc' \in ChildEnds => cpc' = "zombie"
<1> USE DEF RootInv, Wants, TwoStage, ChildEnds, childVars, nsVars
<1>1. CASE UnshareFirstLevel
  BY <1>1 DEF UnshareFirstLevel, IInv, TypeOK
<1>2. CASE InstallHandlers
  BY <1>2 DEF InstallHandlers
<1>3. CASE CreateEventfds
  BY <1>3 DEF CreateEventfds
<1>4. CASE Fork
  BY <1>4 DEF Fork, IInv, TypeOK, UsernsInv, FirstLevelNs, SupervisorSteps
<1>5. CASE StoreChildPid
  BY <1>5 DEF StoreChildPid
<1>6. CASE AwaitChild
  BY <1>6 DEF AwaitChild
<1>7. CASE \E file \in {"uid_map", "setgroups", "gid_map"} : PrepareUserns(file)
  BY <1>7 DEF PrepareUserns
<1>8. CASE Release
  BY <1>8 DEF Release
<1>9. CASE WaitChild
  BY <1>9 DEF WaitChild
<1>10. CASE ExitWithChildCode
  BY <1>10 DEF ExitWithChildCode
<1>11. CASE SupervisorError
  BY <1>11 DEF SupervisorError
<1>12. CASE ResetHandlers
  BY <1>12 DEF ResetHandlers
<1>13. CASE PivotFs("pivot", "unshare_user")
  BY <1>13 DEF PivotFs, ChildEnd
<1>14. CASE PivotFs("pivot_late", "oom")
  BY <1>14 DEF PivotFs, ChildEnd
<1>15. CASE UnshareUser
  BY <1>15 DEF UnshareUser, IInv, TypeOK, ProcInv
<1>16. CASE NotifySupervisor
  BY <1>16 DEF NotifySupervisor
<1>17. CASE AwaitRelease
  BY <1>17 DEF AwaitRelease
<1>18. CASE FinalPrep
  BY <1>18 DEF FinalPrep
<1>19. CASE SetupConsole
  BY <1>19 DEF SetupConsole, ChildEnd
<1>20. CASE Execute
  BY <1>20 DEF Execute
<1>21. CASE ChildError
  BY <1>21 DEF ChildError, ChildEnd
<1>22. CASE WorkloadExit
  BY <1>22 DEF WorkloadExit, ChildEnd
<1>23. CASE SignalSupervisor
  BY <1>23 DEF SignalSupervisor, Kill, ChildEnd
<1>24. CASE KillSupervisor
  BY <1>24 DEF KillSupervisor
<1>25. CASE KillChild
  BY <1>25 DEF KillChild, ChildEnd
<1>26. CASE RecyclePid
  BY <1>26 DEF RecyclePid
<1> QED
  BY <1>1, <1>2, <1>3, <1>4, <1>5, <1>6, <1>7, <1>8, <1>9, <1>10, <1>11, <1>12, <1>13,
     <1>14, <1>15, <1>16, <1>17, <1>18, <1>19, <1>20, <1>21, <1>22, <1>23, <1>24, <1>25,
     <1>26
     DEF Next, SupervisorStep, ChildStep, Environment

\* What the container's steps do to the forked process.
LEMMA CoupledMoves ==
  ASSUME NEW ACTION step, Coupled(step), step => Next
  PROVE  /\ Next /\ UNCHANGED <<areq, apc, areport, pinned, joined, fwdPid>>
         /\ UNCHANGED <<grouped, ahandling, fns>>
         /\ \/ ForkedAlive /\ ForkedEnd(Signaled)
            \/ UNCHANGED <<fpc, fend, attached>>
         /\ ~InitDead /\ cpc' = "zombie" /\ "Pid" \in fns /\ ForkedAlive
              => ForkedEnd(Signaled)
BY DEF Coupled, attacherVars, forkedVars

-----------------------------------------------------------------------------
(* One lemma per conjunct of the invariant. *)

\* The types.
LEMMA AttachTypeStep ==
  ASSUME IInv, AttachIInv, IInv', [AttachNext]_allVars
  PROVE  AttachTypeOK'
<1> USE DEF AttachIInv, AttachTypeOK, AttacherSteps, ForkedSteps, ChildEnds,
            SupervisorEnds, Statuses
<1>1. CASE FindChild
  BY <1>1 DEF FindChild, AttachFailed, rest, containerVars, vars, forkedVars,
     attacherVars
<1>2. CASE AttachCgroup
  BY <1>2 DEF AttachCgroup, containerVars, vars, forkedVars, attacherVars
<1>3. CASE OpenPidfd
  BY <1>3 DEF OpenPidfd, AttachFailed, rest, containerVars, vars, forkedVars,
     attacherVars
<1>4. CASE JoinNamespaces
  BY <1>4 DEF JoinNamespaces, AttachFailed, rest, containerVars, vars, forkedVars,
     attacherVars
<1>5. CASE SetOomScore
  BY <1>5 DEF SetOomScore, AttachFailed, rest, containerVars, vars, forkedVars,
     attacherVars
<1>6. CASE AttachHandlers
  BY <1>6 DEF AttachHandlers, containerVars, vars, forkedVars, attacherVars
<1>7. CASE ForkAttached
  BY <1>7 DEF ForkAttached, AttachFailed, containerVars, vars, forkedVars, attacherVars
<1>8. CASE StoreAttachedPid
  BY <1>8 DEF StoreAttachedPid, rest, containerVars, vars, forkedVars, attacherVars
<1>9. CASE WaitAttached
  BY <1>9 DEF WaitAttached, AttachFailed, containerVars, vars, forkedVars, attacherVars
<1>10. CASE ExitWithAttachedCode
  <2>1. ExitCodeOf(fend) \in Codes \cup {Alive, 1}
    BY DEF ExitCodeOf, Statuses
  <2> QED BY <1>10, <2>1 DEF ExitWithAttachedCode, rest, forkedVars
<1>11. CASE AttacherError
  BY <1>11 DEF AttacherError, AttachFailed, rest, containerVars, vars, forkedVars,
     attacherVars
<1>12. CASE ForkedStep
  BY <1>12 DEF ForkedStep, ForkedEnd, containerVars, vars, forkedVars, attacherVars
<1>13. CASE AttachedExit
  BY <1>13 DEF AttachedExit, ForkedEnd, ForkedAlive, containerVars, vars, forkedVars,
     attacherVars
<1>14. CASE SignalAttacher
  BY <1>14 DEF SignalAttacher, ForkedEnd, ForkedAlive, containerVars, vars, forkedVars,
     attacherVars
<1>15. CASE KillAttacher
  BY <1>15 DEF KillAttacher, rest, containerVars, vars, forkedVars, attacherVars
<1>16. CASE ReapOrphan
  BY <1>16 DEF ReapOrphan, containerVars, vars, forkedVars, attacherVars
<1>17. ASSUME NEW ACTION step, Coupled(step), step => Next PROVE AttachTypeOK'
  BY <1>17, CoupledMoves DEF ForkedEnd
<1>18. CASE UNCHANGED allVars
  BY <1>18 DEF allVars, attachVars, containerVars, vars, forkedVars, attacherVars,
     childVars, nsVars, supVars
<1> QED
  BY <1>1, <1>2, <1>3, <1>4, <1>5, <1>6, <1>7, <1>8, <1>9, <1>10, <1>11, <1>12, <1>13,
     <1>14, <1>15, <1>16, <1>17, <1>18
     DEF AttachNext, AttacherStep, Next

\* Where the two processes are.
LEMMA AttachProcessStep ==
  ASSUME IInv, AttachIInv, IInv', [AttachNext]_allVars
  PROVE  AttachProcessInv'
<1> USE DEF AttachIInv, AttachTypeOK, AttachProcessInv, BeforeAttachFork, AttacherSteps,
            ForkedSteps, ChildEnds, SupervisorEnds
<1>1. CASE FindChild
  BY <1>1 DEF FindChild, AttachFailed, rest, containerVars, vars, forkedVars,
     attacherVars
<1>2. CASE AttachCgroup
  BY <1>2 DEF AttachCgroup, containerVars, vars, forkedVars, attacherVars
<1>3. CASE OpenPidfd
  BY <1>3 DEF OpenPidfd, AttachFailed, rest, containerVars, vars, forkedVars,
     attacherVars
<1>4. CASE JoinNamespaces
  BY <1>4 DEF JoinNamespaces, AttachFailed, rest, containerVars, vars, forkedVars,
     attacherVars
<1>5. CASE SetOomScore
  BY <1>5 DEF SetOomScore, AttachFailed, rest, containerVars, vars, forkedVars,
     attacherVars
<1>6. CASE AttachHandlers
  BY <1>6 DEF AttachHandlers, containerVars, vars, forkedVars, attacherVars
<1>7. CASE ForkAttached
  BY <1>7 DEF ForkAttached, AttachFailed, containerVars, vars, forkedVars, attacherVars
<1>8. CASE StoreAttachedPid
  BY <1>8 DEF StoreAttachedPid, rest, containerVars, vars, forkedVars, attacherVars
<1>9. CASE WaitAttached
  BY <1>9 DEF WaitAttached, AttachFailed, containerVars, vars, forkedVars, attacherVars
<1>10. CASE ExitWithAttachedCode
  BY <1>10 DEF ExitWithAttachedCode, rest, containerVars, vars, forkedVars, attacherVars
<1>11. CASE AttacherError
  BY <1>11 DEF AttacherError, AttachFailed, rest, containerVars, vars, forkedVars,
     attacherVars
<1>12. CASE ForkedStep
  BY <1>12 DEF ForkedStep, ForkedEnd, containerVars, vars, forkedVars, attacherVars
<1>13. CASE AttachedExit
  BY <1>13 DEF AttachedExit, ForkedEnd, ForkedAlive, containerVars, vars, forkedVars,
     attacherVars
<1>14. CASE SignalAttacher
  BY <1>14 DEF SignalAttacher, ForkedEnd, ForkedAlive, containerVars, vars, forkedVars,
     attacherVars
<1>15. CASE KillAttacher
  BY <1>15 DEF KillAttacher, rest, containerVars, vars, forkedVars, attacherVars
<1>16. CASE ReapOrphan
  BY <1>16 DEF ReapOrphan, containerVars, vars, forkedVars, attacherVars
<1>17. ASSUME NEW ACTION step, Coupled(step), step => Next PROVE AttachProcessInv'
  BY <1>17, CoupledMoves DEF ForkedEnd, ForkedAlive
<1>18. CASE UNCHANGED allVars
  BY <1>18 DEF allVars, attachVars, containerVars, vars, forkedVars, attacherVars,
     childVars, nsVars, supVars
<1> QED
  BY <1>1, <1>2, <1>3, <1>4, <1>5, <1>6, <1>7, <1>8, <1>9, <1>10, <1>11, <1>12, <1>13,
     <1>14, <1>15, <1>16, <1>17, <1>18
     DEF AttachNext, AttacherStep, Next

\* What their exit codes say.
LEMMA AttachStatusStep ==
  ASSUME IInv, AttachIInv, IInv', [AttachNext]_allVars
  PROVE  AttachStatusInv'
<1> USE DEF AttachIInv, AttachTypeOK, AttachProcessInv, BeforeAttachFork, AttacherSteps,
            ForkedSteps, ChildEnds, SupervisorEnds, AttachStatusInv, Alive, Signaled
<1>1. CASE FindChild
  BY <1>1 DEF FindChild, AttachFailed, rest, containerVars, vars, forkedVars,
     attacherVars
<1>2. CASE AttachCgroup
  BY <1>2 DEF AttachCgroup, containerVars, vars, forkedVars, attacherVars
<1>3. CASE OpenPidfd
  BY <1>3 DEF OpenPidfd, AttachFailed, rest, containerVars, vars, forkedVars,
     attacherVars
<1>4. CASE JoinNamespaces
  BY <1>4 DEF JoinNamespaces, AttachFailed, rest, containerVars, vars, forkedVars,
     attacherVars
<1>5. CASE SetOomScore
  BY <1>5 DEF SetOomScore, AttachFailed, rest, containerVars, vars, forkedVars,
     attacherVars
<1>6. CASE AttachHandlers
  BY <1>6 DEF AttachHandlers, containerVars, vars, forkedVars, attacherVars
<1>7. CASE ForkAttached
  BY <1>7 DEF ForkAttached, AttachFailed, containerVars, vars, forkedVars, attacherVars
<1>8. CASE StoreAttachedPid
  BY <1>8 DEF StoreAttachedPid, rest, containerVars, vars, forkedVars, attacherVars
<1>9. CASE WaitAttached
  BY <1>9 DEF WaitAttached, AttachFailed, containerVars, vars, forkedVars, attacherVars
<1>10. CASE ExitWithAttachedCode
  BY <1>10 DEF ExitWithAttachedCode, ExitCodeOf, rest, forkedVars
<1>11. CASE AttacherError
  BY <1>11 DEF AttacherError, AttachFailed, rest, containerVars, vars, forkedVars,
     attacherVars
<1>12. CASE ForkedStep
  BY <1>12 DEF ForkedStep, ForkedEnd, containerVars, vars, forkedVars, attacherVars
<1>13. CASE AttachedExit
  <2>1. Codes \subseteq Nat
    BY BoundsAssumption
  <2> QED BY <1>13, <2>1 DEF AttachedExit, ForkedEnd, ForkedAlive, attacherVars
<1>14. CASE SignalAttacher
  BY <1>14 DEF SignalAttacher, ForkedEnd, ForkedAlive, containerVars, vars, forkedVars,
     attacherVars
<1>15. CASE KillAttacher
  BY <1>15 DEF KillAttacher, rest, containerVars, vars, forkedVars, attacherVars
<1>16. CASE ReapOrphan
  BY <1>16 DEF ReapOrphan, containerVars, vars, forkedVars, attacherVars
<1>17. ASSUME NEW ACTION step, Coupled(step), step => Next PROVE AttachStatusInv'
  BY <1>17, CoupledMoves DEF ForkedEnd, ForkedAlive
<1>18. CASE UNCHANGED allVars
  BY <1>18 DEF allVars, attachVars, containerVars, vars, forkedVars, attacherVars,
     childVars, nsVars, supVars
<1> QED
  BY <1>1, <1>2, <1>3, <1>4, <1>5, <1>6, <1>7, <1>8, <1>9, <1>10, <1>11, <1>12, <1>13,
     <1>14, <1>15, <1>16, <1>17, <1>18
     DEF AttachNext, AttacherStep, Next

\* A child in its own user namespace has pivoted.
LEMMA RootStep ==
  ASSUME IInv, AttachIInv, [AttachNext]_allVars
  PROVE  RootInv' /\ req' = req /\ mounts \subseteq mounts'
<1>1. CASE Next
  BY <1>1, ContainerMoves DEF AttachIInv
<1>2. CASE UNCHANGED vars
  BY <1>2 DEF vars, nsVars, AttachIInv, RootInv, Wants, TwoStage
<1> QED BY <1>1, <1>2, ContainerStep

\* What has been joined.
LEMMA JoinStep ==
  ASSUME IInv, AttachIInv, IInv', [AttachNext]_allVars
  PROVE  JoinInv'
<1> USE DEF AttachIInv, AttachTypeOK, AttachProcessInv, BeforeAttachFork, AttacherSteps,
            ForkedSteps, ChildEnds, SupervisorEnds, JoinInv, BeforeSetns, Shared,
            TwoStage, Wants
<1>1. CASE FindChild
  BY <1>1, RootStep DEF FindChild, AttachFailed, rest, containerVars, vars, forkedVars,
     attacherVars
<1>2. CASE AttachCgroup
  BY <1>2, RootStep DEF AttachCgroup, containerVars, vars, forkedVars, attacherVars
<1>3. CASE OpenPidfd
  BY <1>3, RootStep DEF OpenPidfd, AttachFailed, rest, containerVars, vars, forkedVars,
     attacherVars
<1>4. CASE JoinNamespaces
  <2>1. req' = req /\ areq' = areq /\ mounts' = mounts /\ pinned' = pinned /\ fpc' = fpc
    BY <1>4, RootStep DEF JoinNamespaces, rest, containerVars, vars, nsVars, forkedVars
  <2>2. CASE SetnsPermitted /\ pinned = "child"
    <3>1. "User" \in areq.ns => userns["child"] = "new"
      BY <2>2 DEF SetnsPermitted, ChildNamespaces
    <3>2. joined' = areq.ns \cap ChildNamespaces
      BY <1>4, <2>2 DEF JoinNamespaces
    <3>3. joined' = Shared
      BY <3>1, <3>2 DEF ChildNamespaces, RootInv
    <3> QED BY <2>1, <3>1, <3>3 DEF RootInv
  <2>3. CASE SetnsPermitted /\ pinned # "child"
    BY <2>1, <2>3
  <2>4. CASE ~SetnsPermitted
    BY <1>4, <2>1, <2>4 DEF JoinNamespaces, AttachFailed
  <2> QED BY <2>2, <2>3, <2>4
<1>5. CASE SetOomScore
  BY <1>5, RootStep DEF SetOomScore, AttachFailed, rest, containerVars, vars,
     forkedVars, attacherVars
<1>6. CASE AttachHandlers
  BY <1>6, RootStep DEF AttachHandlers, containerVars, vars, forkedVars, attacherVars
<1>7. CASE ForkAttached
  BY <1>7, RootStep DEF ForkAttached, AttachFailed, containerVars, vars, forkedVars,
     attacherVars
<1>8. CASE StoreAttachedPid
  BY <1>8, RootStep DEF StoreAttachedPid, rest, containerVars, vars, forkedVars,
     attacherVars
<1>9. CASE WaitAttached
  BY <1>9, RootStep DEF WaitAttached, containerVars, vars, forkedVars, attacherVars
<1>10. CASE ExitWithAttachedCode
  BY <1>10, RootStep DEF ExitWithAttachedCode, rest, containerVars, vars, forkedVars,
     attacherVars
<1>11. CASE AttacherError
  BY <1>11, RootStep DEF AttacherError, AttachFailed, rest, containerVars, vars,
     forkedVars, attacherVars
<1>12. CASE ForkedStep
  BY <1>12, RootStep DEF ForkedStep, ForkedEnd, containerVars, vars, forkedVars,
     attacherVars
<1>13. CASE AttachedExit
  BY <1>13, RootStep DEF AttachedExit, ForkedEnd, ForkedAlive, containerVars, vars,
     forkedVars, attacherVars
<1>14. CASE SignalAttacher
  BY <1>14, RootStep DEF SignalAttacher, ForkedEnd, ForkedAlive, containerVars, vars,
     forkedVars, attacherVars
<1>15. CASE KillAttacher
  BY <1>15, RootStep DEF KillAttacher, rest, containerVars, vars, forkedVars,
     attacherVars
<1>16. CASE ReapOrphan
  BY <1>16, RootStep DEF ReapOrphan, containerVars, vars, forkedVars, attacherVars
<1>17. ASSUME NEW ACTION step, Coupled(step), step => Next PROVE JoinInv'
  <2>1. req' = req /\ mounts \subseteq mounts'
    BY RootStep
  <2> QED BY <1>17, <2>1, CoupledMoves DEF ForkedEnd, ForkedAlive
<1>18. CASE UNCHANGED allVars
  BY <1>18 DEF allVars, attachVars, containerVars, vars, forkedVars, attacherVars,
     childVars, nsVars, supVars
<1> QED
  BY <1>1, <1>2, <1>3, <1>4, <1>5, <1>6, <1>7, <1>8, <1>9, <1>10, <1>11, <1>12, <1>13,
     <1>14, <1>15, <1>16, <1>17, <1>18
     DEF AttachNext, AttacherStep, Next

\* The forked process and the first one of its pid namespace.
LEMMA NamespaceStep ==
  ASSUME IInv, AttachIInv, IInv', [AttachNext]_allVars
  PROVE  NamespaceInv'
<1> USE DEF AttachIInv, AttachTypeOK, AttachProcessInv, BeforeAttachFork, AttacherSteps,
            ForkedSteps, ChildEnds, SupervisorEnds, NamespaceInv, InitDead, childVars
<1>1. CASE FindChild
  BY <1>1 DEF FindChild, AttachFailed, rest, containerVars, vars, forkedVars,
     attacherVars
<1>2. CASE AttachCgroup
  BY <1>2 DEF AttachCgroup, containerVars, vars, forkedVars, attacherVars
<1>3. CASE OpenPidfd
  BY <1>3 DEF OpenPidfd, AttachFailed, rest, containerVars, vars, forkedVars,
     attacherVars
<1>4. CASE JoinNamespaces
  BY <1>4 DEF JoinNamespaces, AttachFailed, rest, containerVars, vars, forkedVars,
     attacherVars
<1>5. CASE SetOomScore
  BY <1>5 DEF SetOomScore, AttachFailed, rest, containerVars, vars, forkedVars,
     attacherVars
<1>6. CASE AttachHandlers
  BY <1>6 DEF AttachHandlers, containerVars, vars, forkedVars, attacherVars
<1>7. CASE ForkAttached
  BY <1>7 DEF ForkAttached, AttachFailed, containerVars, vars, forkedVars, attacherVars
<1>8. CASE StoreAttachedPid
  BY <1>8 DEF StoreAttachedPid, rest, containerVars, vars, forkedVars, attacherVars
<1>9. CASE WaitAttached
  BY <1>9 DEF WaitAttached, AttachFailed, containerVars, vars, forkedVars, attacherVars
<1>10. CASE ExitWithAttachedCode
  BY <1>10 DEF ExitWithAttachedCode, rest, containerVars, vars, forkedVars, attacherVars
<1>11. CASE AttacherError
  BY <1>11 DEF AttacherError, AttachFailed, rest, containerVars, vars, forkedVars,
     attacherVars
<1>12. CASE ForkedStep
  BY <1>12 DEF ForkedStep, ForkedEnd, containerVars, vars, forkedVars, attacherVars
<1>13. CASE AttachedExit
  BY <1>13 DEF AttachedExit, ForkedEnd, ForkedAlive, containerVars, vars, forkedVars,
     attacherVars
<1>14. CASE SignalAttacher
  BY <1>14 DEF SignalAttacher, ForkedEnd, ForkedAlive, containerVars, vars, forkedVars,
     attacherVars
<1>15. CASE KillAttacher
  BY <1>15 DEF KillAttacher, rest, containerVars, vars, forkedVars, attacherVars
<1>16. CASE ReapOrphan
  BY <1>16 DEF ReapOrphan, containerVars, vars, forkedVars, attacherVars
<1>17. ASSUME NEW ACTION step, Coupled(step), step => Next PROVE NamespaceInv'
  <2>1. cpc \notin ChildEnds /\ cpc' \in ChildEnds => cpc' = "zombie"
    BY <1>17, CoupledMoves, ContainerMoves
  <2> QED BY <1>17, <2>1, CoupledMoves DEF ForkedEnd, ForkedAlive
<1>18. CASE UNCHANGED allVars
  BY <1>18 DEF allVars, attachVars, containerVars, vars, forkedVars, attacherVars,
     childVars, nsVars, supVars
<1> QED
  BY <1>1, <1>2, <1>3, <1>4, <1>5, <1>6, <1>7, <1>8, <1>9, <1>10, <1>11, <1>12, <1>13,
     <1>14, <1>15, <1>16, <1>17, <1>18
     DEF AttachNext, AttacherStep, Next

\* Who is in the cgroup.
LEMMA GroupStep ==
  ASSUME IInv, AttachIInv, IInv', [AttachNext]_allVars
  PROVE  GroupInv'
<1> USE DEF AttachIInv, AttachTypeOK, AttachProcessInv, BeforeAttachFork, AttacherSteps,
            ForkedSteps, ChildEnds, SupervisorEnds, GroupInv
<1>1. CASE FindChild
  BY <1>1 DEF FindChild, AttachFailed, rest, containerVars, vars, forkedVars,
     attacherVars
<1>2. CASE AttachCgroup
  BY <1>2 DEF AttachCgroup, containerVars, vars, forkedVars, attacherVars
<1>3. CASE OpenPidfd
  BY <1>3 DEF OpenPidfd, AttachFailed, rest, containerVars, vars, forkedVars,
     attacherVars
<1>4. CASE JoinNamespaces
  BY <1>4 DEF JoinNamespaces, AttachFailed, rest, containerVars, vars, forkedVars,
     attacherVars
<1>5. CASE SetOomScore
  BY <1>5 DEF SetOomScore, AttachFailed, rest, containerVars, vars, forkedVars,
     attacherVars
<1>6. CASE AttachHandlers
  BY <1>6 DEF AttachHandlers, containerVars, vars, forkedVars, attacherVars
<1>7. CASE ForkAttached
  BY <1>7 DEF ForkAttached, AttachFailed, containerVars, vars, forkedVars, attacherVars
<1>8. CASE StoreAttachedPid
  BY <1>8 DEF StoreAttachedPid, rest, containerVars, vars, forkedVars, attacherVars
<1>9. CASE WaitAttached
  BY <1>9 DEF WaitAttached, AttachFailed, containerVars, vars, forkedVars, attacherVars
<1>10. CASE ExitWithAttachedCode
  BY <1>10 DEF ExitWithAttachedCode, rest, containerVars, vars, forkedVars, attacherVars
<1>11. CASE AttacherError
  BY <1>11 DEF AttacherError, AttachFailed, rest, containerVars, vars, forkedVars,
     attacherVars
<1>12. CASE ForkedStep
  BY <1>12 DEF ForkedStep, ForkedEnd, containerVars, vars, forkedVars, attacherVars
<1>13. CASE AttachedExit
  BY <1>13 DEF AttachedExit, ForkedEnd, ForkedAlive, containerVars, vars, forkedVars,
     attacherVars
<1>14. CASE SignalAttacher
  BY <1>14 DEF SignalAttacher, ForkedEnd, ForkedAlive, containerVars, vars, forkedVars,
     attacherVars
<1>15. CASE KillAttacher
  BY <1>15 DEF KillAttacher, rest, containerVars, vars, forkedVars, attacherVars
<1>16. CASE ReapOrphan
  BY <1>16 DEF ReapOrphan, containerVars, vars, forkedVars, attacherVars
<1>17. ASSUME NEW ACTION step, Coupled(step), step => Next PROVE GroupInv'
  BY <1>17, CoupledMoves DEF ForkedEnd, ForkedAlive
<1>18. CASE UNCHANGED allVars
  BY <1>18 DEF allVars, attachVars, containerVars, vars, forkedVars, attacherVars,
     childVars, nsVars, supVars
<1> QED
  BY <1>1, <1>2, <1>3, <1>4, <1>5, <1>6, <1>7, <1>8, <1>9, <1>10, <1>11, <1>12, <1>13,
     <1>14, <1>15, <1>16, <1>17, <1>18
     DEF AttachNext, AttacherStep, Next

\* Where a signal to the attacher goes.
LEMMA AttachSignalStep ==
  ASSUME IInv, AttachIInv, IInv', [AttachNext]_allVars
  PROVE  AttachSignalInv'
<1> USE DEF AttachIInv, AttachTypeOK, AttachProcessInv, BeforeAttachFork, AttacherSteps,
            ForkedSteps, ChildEnds, SupervisorEnds, AttachSignalInv
<1>1. CASE FindChild
  BY <1>1 DEF FindChild, AttachFailed, rest, containerVars, vars, forkedVars,
     attacherVars
<1>2. CASE AttachCgroup
  BY <1>2 DEF AttachCgroup, containerVars, vars, forkedVars, attacherVars
<1>3. CASE OpenPidfd
  BY <1>3 DEF OpenPidfd, AttachFailed, rest, containerVars, vars, forkedVars,
     attacherVars
<1>4. CASE JoinNamespaces
  BY <1>4 DEF JoinNamespaces, AttachFailed, rest, containerVars, vars, forkedVars,
     attacherVars
<1>5. CASE SetOomScore
  BY <1>5 DEF SetOomScore, AttachFailed, rest, containerVars, vars, forkedVars,
     attacherVars
<1>6. CASE AttachHandlers
  BY <1>6 DEF AttachHandlers, containerVars, vars, forkedVars, attacherVars
<1>7. CASE ForkAttached
  BY <1>7 DEF ForkAttached, AttachFailed, containerVars, vars, forkedVars, attacherVars
<1>8. CASE StoreAttachedPid
  BY <1>8 DEF StoreAttachedPid, rest, containerVars, vars, forkedVars, attacherVars
<1>9. CASE WaitAttached
  BY <1>9 DEF WaitAttached, AttachFailed, containerVars, vars, forkedVars, attacherVars
<1>10. CASE ExitWithAttachedCode
  BY <1>10 DEF ExitWithAttachedCode, rest, containerVars, vars, forkedVars, attacherVars
<1>11. CASE AttacherError
  BY <1>11 DEF AttacherError, AttachFailed, rest, containerVars, vars, forkedVars,
     attacherVars
<1>12. CASE ForkedStep
  BY <1>12 DEF ForkedStep, ForkedEnd, containerVars, vars, forkedVars, attacherVars
<1>13. CASE AttachedExit
  BY <1>13 DEF AttachedExit, ForkedEnd, ForkedAlive, containerVars, vars, forkedVars,
     attacherVars
<1>14. CASE SignalAttacher
  BY <1>14 DEF SignalAttacher, ForkedEnd, ForkedAlive, containerVars, vars, forkedVars,
     attacherVars
<1>15. CASE KillAttacher
  BY <1>15 DEF KillAttacher, rest, containerVars, vars, forkedVars, attacherVars
<1>16. CASE ReapOrphan
  BY <1>16 DEF ReapOrphan, containerVars, vars, forkedVars, attacherVars
<1>17. ASSUME NEW ACTION step, Coupled(step), step => Next PROVE AttachSignalInv'
  BY <1>17, CoupledMoves DEF ForkedEnd, ForkedAlive
<1>18. CASE UNCHANGED allVars
  BY <1>18 DEF allVars, attachVars, containerVars, vars, forkedVars, attacherVars,
     childVars, nsVars, supVars
<1> QED
  BY <1>1, <1>2, <1>3, <1>4, <1>5, <1>6, <1>7, <1>8, <1>9, <1>10, <1>11, <1>12, <1>13,
     <1>14, <1>15, <1>16, <1>17, <1>18
     DEF AttachNext, AttacherStep, Next

\* It holds before the attacher's first step.
LEMMA AttachInitInvariant == Init /\ AttachInit => IInv /\ AttachIInv
<1> SUFFICES ASSUME Init, AttachInit PROVE IInv /\ AttachIInv  OBVIOUS
<1>1. IInv
  BY InitInvariant
<1>2. AttachTypeOK /\ AttachProcessInv /\ AttachStatusInv
  BY DEF AttachInit, AttachTypeOK, AttachProcessInv, AttachStatusInv, AttacherSteps,
     ForkedSteps, ChildEnds, BeforeAttachFork, Alive, Statuses
<1>3. RootInv /\ JoinInv
  BY DEF Init, AttachInit, RootInv, JoinInv, BeforeAttachFork, BeforeSetns
<1>4. NamespaceInv /\ GroupInv /\ AttachSignalInv
  BY DEF AttachInit, NamespaceInv, GroupInv, AttachSignalInv, BeforeAttachFork
<1> QED BY <1>1, <1>2, <1>3, <1>4 DEF AttachIInv

\* Every step of the composition keeps it.
LEMMA AttachInvariantStep ==
  IInv /\ AttachIInv /\ [AttachNext]_allVars => IInv' /\ AttachIInv'
<1> SUFFICES ASSUME IInv, AttachIInv, [AttachNext]_allVars PROVE IInv' /\ AttachIInv'
  OBVIOUS
<1>1. IInv'
  BY ContainerStep, InvariantStep
<1>2. AttachTypeOK' /\ AttachProcessInv' /\ AttachStatusInv'
  BY <1>1, AttachTypeStep, AttachProcessStep, AttachStatusStep
<1>3. RootInv' /\ JoinInv' /\ NamespaceInv' /\ GroupInv' /\ AttachSignalInv'
  BY <1>1, RootStep, JoinStep, NamespaceStep, GroupStep, AttachSignalStep
<1> QED BY <1>1, <1>2, <1>3 DEF AttachIInv

-----------------------------------------------------------------------------
(* The theorems. *)

\* The container and its attach keep the invariant, whenever the attach comes.
THEOREM AttachInvariance == AttachSpec => [](IInv /\ AttachIInv)
<1>1. Init /\ AttachInit => IInv /\ AttachIInv
  BY AttachInitInvariant
<1>2. IInv /\ AttachIInv /\ [AttachNext]_allVars => IInv' /\ AttachIInv'
  BY AttachInvariantStep
<1> QED BY <1>1, <1>2, PTL DEF AttachSpec

\* What create promises of a container holds beside an attach as well: a step of
\* the composition is a step of CreateWrap or none.
THEOREM AttachLeavesContainer == AttachSpec => Spec
<1>1. [AttachNext]_allVars => [Next]_vars
  BY ContainerStep
<1> QED BY <1>1, PTL DEF AttachSpec, Spec

\* setns through the pidfd, all namespaces in one call: the attached workload is in
\* each of the container's that was asked for, whatever has become of its pid.
THEOREM AttachJoinsContainer == AttachSpec => []InsideContainer
<1>1. AttachIInv => InsideContainer
  BY DEF AttachIInv, AttachProcessInv, JoinInv, InsideContainer
<1> QED BY <1>1, AttachInvariance, PTL

\* The two-stage order of the container's child is what keeps an attach that
\* names its user namespace out of the host's root.
THEOREM AttachAfterPivot == AttachSpec => []NeverInHostRoot
<1>1. AttachIInv => NeverInHostRoot
  BY DEF AttachIInv, AttachProcessInv, JoinInv, NeverInHostRoot
<1> QED BY <1>1, AttachInvariance, PTL

\* The kernel's end of a pid namespace takes the attached workload with it, and
\* its refusal to fork there lets no late one in.
THEOREM AttachEndsToo == AttachSpec => []EndsWithContainer
<1>1. AttachIInv => EndsWithContainer
  BY DEF AttachIInv, AttachProcessInv, JoinInv, NamespaceInv, EndsWithContainer
<1> QED BY <1>1, AttachInvariance, PTL

\* attach_cgroup comes before the fork.
THEOREM AttachAccounted == AttachSpec => []AccountedWithContainer
<1>1. AttachIInv => AccountedWithContainer
  BY DEF AttachIInv, AttachProcessInv, GroupInv, AccountedWithContainer
<1> QED BY <1>1, AttachInvariance, PTL

\* From store_child_pid on, a trapped signal reaches the attached workload.
THEOREM AttachForwards == AttachSpec => []AttachForwardingReady
<1>1. AttachIInv => AttachForwardingReady
  <2> SUFFICES ASSUME AttachIInv, attached, ForkedAlive, apc \in AttacherSteps \ {"store"}
               PROVE  /\ ahandling = [attacher |-> "forward", forked |-> "default"]
                      /\ fwdPid = AttachedPid
    BY DEF AttachForwardingReady
  <2>1. apc = "wait"
    BY DEF AttachIInv, AttachProcessInv, BeforeAttachFork, AttacherSteps, ForkedAlive,
       ForkedSteps
  <2>2. /\ ahandling["attacher"] = "forward" /\ ahandling["forked"] = "default"
        /\ fwdPid = AttachedPid
    BY <2>1 DEF AttachIInv, AttachSignalInv
  <2>3. ahandling = [q \in {"attacher", "forked"} |-> ahandling[q]]
    BY DEF AttachIInv, AttachTypeOK
  <2> QED BY <2>2, <2>3
<1> QED BY <1>1, AttachInvariance, PTL

-----------------------------------------------------------------------------
(* An attach implements Supervision. *)

\* The end of the forked process, wherever it is, is one step of Supervision.
LEMMA ForkedEnds ==
  ASSUME AttachIInv, NEW s \in Statuses, ForkedEnd(s), ForkedAlive,
         fpc = "running" \/ s \in {1, Signaled}, UNCHANGED <<apc, areport>>
  PROVE  AttachAbstract!Next
<1> USE DEF AttachIInv, AttachProcessInv, ForkedEnd, ForkedAlive, ForkedSteps, ChildEnds
<1>1. CASE fpc = "running"
  BY <1>1 DEF AttachedWorkload, AttachOutcome, Statuses, AttachAbstract!Next,
     AttachAbstract!End, AttachAbstract!Statuses, AttachAbstract!Signaled, Signaled
<1>2. CASE fpc # "running"
  BY <1>2 DEF AttachedWorkload, AttachOutcome, AttachAbstract!Next,
     AttachAbstract!SetupFails, AttachAbstract!Signaled, Signaled
<1> QED BY <1>1, <1>2

\* One step of the composition.
LEMMA AttachSimulation ==
  ASSUME IInv, AttachIInv, [AttachNext]_allVars
  PROVE  [AttachAbstract!Next]_(AttachAbstract!vars)
<1> DEFINE Goal == AttachAbstract!Next \/ UNCHANGED AttachAbstract!vars
<1> USE DEF AttachIInv, AttachTypeOK, AttachProcessInv, AttacherSteps, ForkedSteps,
            ChildEnds, SupervisorEnds, BeforeAttachFork, AttachOutcome, forkedVars
<1>1. ASSUME FindChild PROVE Goal
  BY <1>1 DEF FindChild, rest, AttachedWorkload, AttachFailed, AttachAbstract!Next,
     AttachAbstract!GiveUp, AttachAbstract!vars
<1>2. ASSUME AttachCgroup PROVE Goal
  BY <1>2 DEF AttachCgroup, AttachedWorkload, attacherVars, AttachAbstract!vars
<1>3. ASSUME OpenPidfd PROVE Goal
  BY <1>3 DEF OpenPidfd, rest, AttachedWorkload, AttachFailed, AttachAbstract!Next,
     AttachAbstract!GiveUp, AttachAbstract!vars
<1>4. ASSUME JoinNamespaces PROVE Goal
  BY <1>4 DEF JoinNamespaces, rest, AttachedWorkload, AttachFailed, AttachAbstract!Next,
     AttachAbstract!GiveUp, AttachAbstract!vars
<1>5. ASSUME SetOomScore PROVE Goal
  BY <1>5 DEF SetOomScore, rest, AttachedWorkload, AttachFailed, AttachAbstract!Next,
     AttachAbstract!GiveUp, AttachAbstract!vars
<1>6. ASSUME AttachHandlers PROVE Goal
  BY <1>6 DEF AttachHandlers, AttachedWorkload, attacherVars, AttachAbstract!vars
<1>7. ASSUME ForkAttached PROVE Goal
  BY <1>7 DEF ForkAttached, AttachedWorkload, AttachFailed, AttachAbstract!Next,
     AttachAbstract!GiveUp, AttachAbstract!vars
<1>8. ASSUME StoreAttachedPid PROVE Goal
  BY <1>8 DEF StoreAttachedPid, rest, AttachedWorkload, attacherVars,
     AttachAbstract!vars
<1>9. ASSUME WaitAttached PROVE Goal
  <2>1. CASE apc' = "reap"
    BY <1>9, <2>1 DEF WaitAttached, AttachFailed, AttachedWorkload, AttachAbstract!vars
  <2>2. CASE AttachFailed
    BY <1>9, <2>2 DEF WaitAttached, AttachFailed, AttachedWorkload,
       AttachAbstract!Next, AttachAbstract!GiveUp
  <2> QED BY <1>9, <2>1, <2>2 DEF WaitAttached
<1>10. ASSUME ExitWithAttachedCode PROVE Goal
  BY <1>10 DEF ExitWithAttachedCode, rest, AttachedWorkload, ExitCodeOf, Signaled,
     AttachAbstract!Next, AttachAbstract!Report, AttachAbstract!ExitCode,
     AttachAbstract!Signaled
<1>11. ASSUME AttacherError PROVE Goal
  BY <1>11 DEF AttacherError, rest, AttachedWorkload, AttachFailed, AttachAbstract!Next,
     AttachAbstract!GiveUp, AttachAbstract!vars
<1>12. ASSUME ForkedStep PROVE Goal
  <2>1. CASE fpc = "exec" /\ fpc' = "running"
    BY <1>12, <2>1 DEF ForkedStep, ForkedEnd, AttachedWorkload, attacherVars,
       AttachAbstract!Next, AttachAbstract!Launch
  <2>2. CASE ForkedEnd(1)
    BY <1>12, <2>2, ForkedEnds DEF ForkedStep, ForkedAlive, Statuses, attacherVars
  <2>3. CASE fpc' \in {"prep", "exec"}
    BY <1>12, <2>3 DEF ForkedStep, ForkedEnd, AttachedWorkload, attacherVars,
       AttachAbstract!vars
  <2> QED BY <1>12, <2>1, <2>2, <2>3 DEF ForkedStep
<1>13. ASSUME AttachedExit PROVE Goal
  BY <1>13, ForkedEnds DEF AttachedExit, ForkedAlive, Statuses, attacherVars
<1>14. ASSUME SignalAttacher PROVE Goal
  <2>1. CASE apc' = "killed" /\ UNCHANGED forkedVars
    BY <1>14, <2>1 DEF SignalAttacher, AttachedWorkload, AttachAbstract!Next,
       AttachAbstract!Killed
  <2>2. CASE UNCHANGED apc /\ ForkedAlive /\ ForkedEnd(Signaled)
    BY <1>14, <2>2, ForkedEnds DEF SignalAttacher, Statuses
  <2>3. CASE UNCHANGED <<apc, forkedVars>>
    BY <1>14, <2>3 DEF SignalAttacher, AttachedWorkload, AttachAbstract!vars
  <2> QED BY <1>14, <2>1, <2>2, <2>3 DEF SignalAttacher
<1>15. ASSUME KillAttacher PROVE Goal
  BY <1>15 DEF KillAttacher, rest, AttachedWorkload, AttachAbstract!Next,
     AttachAbstract!Killed
<1>16. ASSUME ReapOrphan PROVE Goal
  BY <1>16 DEF ReapOrphan, AttachedWorkload, attacherVars, AttachAbstract!vars
<1>17. ASSUME NEW ACTION step, Coupled(step), step => Next PROVE Goal
  <2>1. CASE ForkedAlive /\ ForkedEnd(Signaled)
    BY <1>17, <2>1, CoupledMoves, ForkedEnds DEF Statuses
  <2>2. CASE UNCHANGED <<fpc, fend, attached>>
    BY <1>17, <2>2, CoupledMoves DEF AttachedWorkload, AttachAbstract!vars
  <2> QED BY <1>17, <2>1, <2>2, CoupledMoves
<1>18. CASE UNCHANGED allVars
  BY <1>18 DEF allVars, attachVars, attacherVars, AttachedWorkload, AttachAbstract!vars
<1> QED
  BY <1>1, <1>2, <1>3, <1>4, <1>5, <1>6, <1>7, <1>8, <1>9, <1>10, <1>11, <1>12, <1>13,
     <1>14, <1>15, <1>16, <1>17, <1>18
     DEF AttachNext, AttacherStep, Next

\* attach implements Supervision: one workload at most, none after a failure nor
\* running on at one, and the exit code of the process it forked, or 1, even when
\* the container's end kills it.
THEOREM AttachRefinement == AttachSpec => AttachImplementsSupervision
<1>1. Init /\ AttachInit => AttachAbstract!Init
  BY DEF AttachInit, AttachAbstract!Init, AttachAbstract!None, AttachedWorkload,
     AttachOutcome, Alive, ChildEnds
<1>2. IInv /\ AttachIInv /\ [AttachNext]_allVars
        => [AttachAbstract!Next]_(AttachAbstract!vars)
  BY AttachSimulation
<1> QED
  BY AttachInvariance, <1>1, <1>2, PTL
     DEF AttachSpec, AttachAbstract!Spec, AttachImplementsSupervision
=============================================================================
