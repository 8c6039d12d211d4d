--------------------------- MODULE CreateWrapProofs ---------------------------
(***************************************************************************)
(* Proofs about CreateWrap, for every set of requests, faults and exit     *)
(* codes and every number of signals.                                      *)
(***************************************************************************)
EXTENDS CreateWrapProps, TLAPS

USE DEF Alive, Signaled, InitPid, ChildPid, SupervisorSteps, SupervisorEnds,
        ChildSteps, ChildEnds, supVars, childVars, efdVars, nsVars, sigVars

-----------------------------------------------------------------------------
(* One lemma for each part of the invariant. *)

\* A step keeps the types.
LEMMA TypeStep ==
  ASSUME TypeOK, [Next]_vars
  PROVE  TypeOK'
<1> USE BoundsAssumption DEF TypeOK, SupervisorPC, ChildPC, Statuses
<1>1. CASE UnshareFirstLevel
  BY <1>1 DEF UnshareFirstLevel
<1>2. CASE InstallHandlers
  BY <1>2 DEF InstallHandlers
<1>3. CASE CreateEventfds
  BY <1>3 DEF CreateEventfds
<1>4. CASE Fork
  BY <1>4 DEF Fork
<1>5. CASE StoreChildPid
  BY <1>5 DEF StoreChildPid
<1>6. CASE AwaitChild
  BY <1>6 DEF AwaitChild
<1>7. ASSUME NEW file \in Configuring, PrepareUserns(file) PROVE TypeOK'
  BY <1>7 DEF PrepareUserns, NextFile, Configuring
<1>8. CASE Release
  BY <1>8 DEF Release
<1>9. CASE WaitChild
  BY <1>9 DEF WaitChild
<1>10. CASE ExitWithChildCode
  BY <1>10 DEF ExitWithChildCode, ExitCodeOf
<1>11. CASE SupervisorError
  BY <1>11 DEF SupervisorError, FallibleSupervisorSteps
<1>12. CASE ResetHandlers
  BY <1>12 DEF ResetHandlers
<1>13. ASSUME NEW step, NEW next,
          <<step, next>> \in {<<"pivot", "unshare_user">>, <<"pivot_late", "oom">>},
          PivotFs(step, next)
   PROVE  TypeOK'
  <2>1. (/\ cpc \in ChildPC /\ cend \in Statuses \cup {Alive} /\ launched \in BOOLEAN
         /\ mounts \subseteq {"rootfs", "console"})'
    BY <1>13 DEF PivotFs, ChildEnd, TypeOK, ChildPC, Statuses
  <2>2. QED  BY <1>13, <2>1 DEF PivotFs, TypeOK
<1>14. CASE UnshareUser
  BY <1>14 DEF UnshareUser
<1>15. CASE NotifySupervisor
  BY <1>15 DEF NotifySupervisor
<1>16. CASE AwaitRelease
  BY <1>16 DEF AwaitRelease
<1>17. CASE FinalPrep
  BY <1>17 DEF FinalPrep
<1>18. CASE SetupConsole
  <2>1. (/\ cpc \in ChildPC /\ cend \in Statuses \cup {Alive} /\ launched \in BOOLEAN
         /\ mounts \subseteq {"rootfs", "console"})'
    BY <1>18 DEF SetupConsole, ChildEnd, TypeOK, ChildPC, Statuses
  <2>2. QED  BY <1>18, <2>1 DEF SetupConsole, TypeOK
<1>19. CASE Execute
  BY <1>19 DEF Execute
<1>20. CASE ChildError
  BY <1>20 DEF ChildError, ChildEnd, FallibleChildSteps
<1>21. CASE WorkloadExit
  BY <1>21 DEF WorkloadExit, ChildEnd
<1>22. CASE SignalSupervisor
  BY <1>22 DEF SignalSupervisor, Kill, ChildEnd, ChildAlive
<1>23. CASE KillSupervisor
  BY <1>23 DEF KillSupervisor
<1>24. CASE KillChild
  BY <1>24 DEF KillChild, ChildEnd
<1>25. CASE RecyclePid
  BY <1>25 DEF RecyclePid
<1>26. CASE UNCHANGED vars
  BY <1>26 DEF vars
<1> QED
  BY <1>1, <1>2, <1>3, <1>4, <1>5, <1>6, <1>7, <1>8, <1>9, <1>10,
     <1>11, <1>12, <1>13, <1>14, <1>15, <1>16, <1>17, <1>18, <1>19,
     <1>20, <1>21, <1>22, <1>23, <1>24, <1>25, <1>26 DEF Next, SupervisorStep, ChildStep, Environment, Configuring

\* A step keeps the program counters of the two processes in step.
LEMMA ProcessStep ==
  ASSUME TypeOK, ProcessInv, HandshakeInv, [Next]_vars
  PROVE  ProcessInv'
<1> USE DEF ProcessInv, ChildAlive, BeforeFork, TypeOK, SupervisorPC, ChildPC
<1>1. CASE UnshareFirstLevel
  BY <1>1 DEF UnshareFirstLevel
<1>2. CASE InstallHandlers
  BY <1>2 DEF InstallHandlers
<1>3. CASE CreateEventfds
  BY <1>3 DEF CreateEventfds
<1>4. CASE Fork
  BY <1>4 DEF Fork
<1>5. CASE StoreChildPid
  BY <1>5 DEF StoreChildPid
<1>6. CASE AwaitChild
  BY <1>6 DEF AwaitChild
<1>7. ASSUME NEW file \in Configuring, PrepareUserns(file) PROVE ProcessInv'
  BY <1>7 DEF PrepareUserns, NextFile, Configuring, HandshakeInv, Released,
     PostRelease
<1>8. CASE Release
  BY <1>8 DEF Release
<1>9. CASE WaitChild
  BY <1>9 DEF WaitChild
<1>10. CASE ExitWithChildCode
  BY <1>10 DEF ExitWithChildCode
<1>11. CASE SupervisorError
  BY <1>11 DEF SupervisorError, FallibleSupervisorSteps, HandshakeInv,
     Released, PostRelease
<1>12. CASE ResetHandlers
  BY <1>12 DEF ResetHandlers
<1>13. ASSUME NEW step, NEW next,
          <<step, next>> \in {<<"pivot", "unshare_user">>, <<"pivot_late", "oom">>},
          PivotFs(step, next)
   PROVE  ProcessInv'
  BY <1>13 DEF PivotFs, ChildEnd
<1>14. CASE UnshareUser
  BY <1>14 DEF UnshareUser
<1>15. CASE NotifySupervisor
  BY <1>15 DEF NotifySupervisor
<1>16. CASE AwaitRelease
  BY <1>16 DEF AwaitRelease
<1>17. CASE FinalPrep
  BY <1>17 DEF FinalPrep
<1>18. CASE SetupConsole
  BY <1>18 DEF SetupConsole, ChildEnd
<1>19. CASE Execute
  BY <1>19 DEF Execute, HandshakeInv, Asked, Released, PostRelease
<1>20. CASE ChildError
  BY <1>20 DEF ChildError, ChildEnd, FallibleChildSteps
<1>21. CASE WorkloadExit
  BY <1>21 DEF WorkloadExit, ChildEnd
<1>22. CASE SignalSupervisor
  BY <1>22 DEF SignalSupervisor, Kill, ChildEnd
<1>23. CASE KillSupervisor
  BY <1>23 DEF KillSupervisor
<1>24. CASE KillChild
  BY <1>24 DEF KillChild, ChildEnd
<1>25. CASE RecyclePid
  BY <1>25 DEF RecyclePid
<1>26. CASE UNCHANGED vars
  BY <1>26 DEF vars
<1> QED
  BY <1>1, <1>2, <1>3, <1>4, <1>5, <1>6, <1>7, <1>8, <1>9, <1>10,
     <1>11, <1>12, <1>13, <1>14, <1>15, <1>16, <1>17, <1>18, <1>19,
     <1>20, <1>21, <1>22, <1>23, <1>24, <1>25, <1>26 DEF Next, SupervisorStep, ChildStep, Environment, Configuring

\* A step keeps what the wait status and the exit code say.
LEMMA StatusStep ==
  ASSUME TypeOK, ProcessInv, StatusInv, [Next]_vars
  PROVE  StatusInv'
<1> USE BoundsAssumption DEF StatusInv, ProcessInv, ExitCodeOf, TypeOK,
        SupervisorPC, ChildPC
<1>1. CASE UnshareFirstLevel
  BY <1>1 DEF UnshareFirstLevel
<1>2. CASE InstallHandlers
  BY <1>2 DEF InstallHandlers
<1>3. CASE CreateEventfds
  BY <1>3 DEF CreateEventfds
<1>4. CASE Fork
  BY <1>4 DEF Fork, BeforeFork
<1>5. CASE StoreChildPid
  BY <1>5 DEF StoreChildPid
<1>6. CASE AwaitChild
  BY <1>6 DEF AwaitChild
<1>7. ASSUME NEW file \in Configuring, PrepareUserns(file) PROVE StatusInv'
  BY <1>7 DEF PrepareUserns, NextFile, Configuring
<1>8. CASE Release
  BY <1>8 DEF Release
<1>9. CASE WaitChild
  BY <1>9 DEF WaitChild
<1>10. CASE ExitWithChildCode
  BY <1>10 DEF ExitWithChildCode
<1>11. CASE SupervisorError
  BY <1>11 DEF SupervisorError, FallibleSupervisorSteps
<1>12. CASE ResetHandlers
  BY <1>12 DEF ResetHandlers
<1>13. ASSUME NEW step, NEW next,
          <<step, next>> \in {<<"pivot", "unshare_user">>, <<"pivot_late", "oom">>},
          PivotFs(step, next)
   PROVE  StatusInv'
  BY <1>13 DEF PivotFs, ChildEnd
<1>14. CASE UnshareUser
  BY <1>14 DEF UnshareUser
<1>15. CASE NotifySupervisor
  BY <1>15 DEF NotifySupervisor
<1>16. CASE AwaitRelease
  BY <1>16 DEF AwaitRelease
<1>17. CASE FinalPrep
  BY <1>17 DEF FinalPrep
<1>18. CASE SetupConsole
  BY <1>18 DEF SetupConsole, ChildEnd
<1>19. CASE Execute
  BY <1>19 DEF Execute
<1>20. CASE ChildError
  BY <1>20 DEF ChildError, ChildEnd, FallibleChildSteps
<1>21. CASE WorkloadExit
  BY <1>21 DEF WorkloadExit, ChildEnd
<1>22. CASE SignalSupervisor
  BY <1>22 DEF SignalSupervisor, Kill, ChildEnd, ChildAlive
<1>23. CASE KillSupervisor
  BY <1>23 DEF KillSupervisor
<1>24. CASE KillChild
  BY <1>24 DEF KillChild, ChildEnd, ChildAlive
<1>25. CASE RecyclePid
  BY <1>25 DEF RecyclePid
<1>26. CASE UNCHANGED vars
  BY <1>26 DEF vars
<1> QED
  BY <1>1, <1>2, <1>3, <1>4, <1>5, <1>6, <1>7, <1>8, <1>9, <1>10,
     <1>11, <1>12, <1>13, <1>14, <1>15, <1>16, <1>17, <1>18, <1>19,
     <1>20, <1>21, <1>22, <1>23, <1>24, <1>25, <1>26 DEF Next, SupervisorStep, ChildStep, Environment, Configuring

\* A step keeps the tokens and the program counters in agreement.
LEMMA HandshakeStep ==
  ASSUME TypeOK, ProcessInv, HandshakeInv, UsernsInv, [Next]_vars
  PROVE  HandshakeInv'
<1> USE DEF HandshakeInv, Asked, Released, PostRelease, Configuring,
        BeforeHandshake, ProcessInv, TypeOK, SupervisorPC, ChildPC
<1>1. CASE UnshareFirstLevel
  BY <1>1 DEF UnshareFirstLevel, BeforeFork
<1>2. CASE InstallHandlers
  BY <1>2 DEF InstallHandlers, BeforeFork
<1>3. CASE CreateEventfds
  BY <1>3 DEF CreateEventfds, BeforeFork
<1>4. CASE Fork
  BY <1>4 DEF Fork, BeforeFork
<1>5. CASE StoreChildPid
  BY <1>5 DEF StoreChildPid
<1>6. CASE AwaitChild
  BY <1>6 DEF AwaitChild
<1>7. ASSUME NEW file \in Configuring, PrepareUserns(file) PROVE HandshakeInv'
  BY <1>7 DEF PrepareUserns, NextFile
<1>8. CASE Release
  BY <1>8 DEF Release
<1>9. CASE WaitChild
  BY <1>9 DEF WaitChild
<1>10. CASE ExitWithChildCode
  BY <1>10 DEF ExitWithChildCode
<1>11. CASE SupervisorError
  BY <1>11 DEF SupervisorError, FallibleSupervisorSteps
<1>12. CASE ResetHandlers
  BY <1>12 DEF ResetHandlers
<1>13. ASSUME NEW step, NEW next,
          <<step, next>> \in {<<"pivot", "unshare_user">>, <<"pivot_late", "oom">>},
          PivotFs(step, next)
   PROVE  HandshakeInv'
  BY <1>13 DEF PivotFs, ChildEnd
<1>14. CASE UnshareUser
  BY <1>14 DEF UnshareUser
<1>15. CASE NotifySupervisor
  BY <1>15 DEF NotifySupervisor
<1>16. CASE AwaitRelease
  BY <1>16 DEF AwaitRelease
<1>17. CASE FinalPrep
  BY <1>17 DEF FinalPrep
<1>18. CASE SetupConsole
  BY <1>18 DEF SetupConsole, ChildEnd
<1>19. CASE Execute
  BY <1>19 DEF Execute
<1>20. CASE ChildError
  BY <1>20 DEF ChildError, ChildEnd, FallibleChildSteps
<1>21. CASE WorkloadExit
  BY <1>21 DEF WorkloadExit, ChildEnd
<1>22. CASE SignalSupervisor
  BY <1>22 DEF SignalSupervisor, Kill, ChildEnd, ChildAlive, UsernsInv
<1>23. CASE KillSupervisor
  BY <1>23 DEF KillSupervisor
<1>24. CASE KillChild
  BY <1>24 DEF KillChild, ChildEnd, ChildAlive
<1>25. CASE RecyclePid
  BY <1>25 DEF RecyclePid
<1>26. CASE UNCHANGED vars
  BY <1>26 DEF vars
<1> QED
  BY <1>1, <1>2, <1>3, <1>4, <1>5, <1>6, <1>7, <1>8, <1>9, <1>10,
     <1>11, <1>12, <1>13, <1>14, <1>15, <1>16, <1>17, <1>18, <1>19,
     <1>20, <1>21, <1>22, <1>23, <1>24, <1>25, <1>26 DEF Next, SupervisorStep, ChildStep, Environment, Configuring

\* A step keeps the child's user namespace as far configured as the counters say.
LEMMA UsernsStep ==
  ASSUME TypeOK, ProcessInv, HandshakeInv, UsernsInv, [Next]_vars
  PROVE  UsernsInv'
<1> USE DEF UsernsInv, Asked, Released, PostRelease, Configuring, BeforeFork,
        Configured, WantedFiles, Wants, FirstLevelNs, TwoStage, ProcessInv,
        HandshakeInv, BeforeHandshake, TypeOK, SupervisorPC, ChildPC
<1>1. CASE UnshareFirstLevel
  BY <1>1 DEF UnshareFirstLevel
<1>2. CASE InstallHandlers
  BY <1>2 DEF InstallHandlers
<1>3. CASE CreateEventfds
  BY <1>3 DEF CreateEventfds
<1>4. CASE Fork
  BY <1>4 DEF Fork
<1>5. CASE StoreChildPid
  BY <1>5 DEF StoreChildPid
<1>6. CASE AwaitChild
  BY <1>6 DEF AwaitChild
<1>7. ASSUME NEW file \in Configuring, PrepareUserns(file) PROVE UsernsInv'
  BY <1>7 DEF PrepareUserns, NextFile
<1>8. CASE Release
  BY <1>8 DEF Release
<1>9. CASE WaitChild
  BY <1>9 DEF WaitChild
<1>10. CASE ExitWithChildCode
  BY <1>10 DEF ExitWithChildCode
<1>11. CASE SupervisorError
  BY <1>11 DEF SupervisorError, FallibleSupervisorSteps
<1>12. CASE ResetHandlers
  BY <1>12 DEF ResetHandlers
<1>13. ASSUME NEW step, NEW next,
          <<step, next>> \in {<<"pivot", "unshare_user">>, <<"pivot_late", "oom">>},
          PivotFs(step, next)
   PROVE  UsernsInv'
  BY <1>13 DEF PivotFs, ChildEnd
<1>14. CASE UnshareUser
  BY <1>14 DEF UnshareUser
<1>15. CASE NotifySupervisor
  BY <1>15 DEF NotifySupervisor
<1>16. CASE AwaitRelease
  BY <1>16 DEF AwaitRelease
<1>17. CASE FinalPrep
  BY <1>17 DEF FinalPrep
<1>18. CASE SetupConsole
  BY <1>18 DEF SetupConsole, ChildEnd
<1>19. CASE Execute
  BY <1>19 DEF Execute
<1>20. CASE ChildError
  BY <1>20 DEF ChildError, ChildEnd, FallibleChildSteps
<1>21. CASE WorkloadExit
  BY <1>21 DEF WorkloadExit, ChildEnd
<1>22. CASE SignalSupervisor
  BY <1>22 DEF SignalSupervisor, Kill, ChildEnd, ChildAlive
<1>23. CASE KillSupervisor
  BY <1>23 DEF KillSupervisor
<1>24. CASE KillChild
  BY <1>24 DEF KillChild, ChildEnd, ChildAlive
<1>25. CASE RecyclePid
  BY <1>25 DEF RecyclePid
<1>26. CASE UNCHANGED vars
  BY <1>26 DEF vars
<1> QED
  BY <1>1, <1>2, <1>3, <1>4, <1>5, <1>6, <1>7, <1>8, <1>9, <1>10,
     <1>11, <1>12, <1>13, <1>14, <1>15, <1>16, <1>17, <1>18, <1>19,
     <1>20, <1>21, <1>22, <1>23, <1>24, <1>25, <1>26 DEF Next, SupervisorStep, ChildStep, Environment, Configuring

\* A step keeps the mount namespace with its owner.
LEMMA MountStep ==
  ASSUME TypeOK, ProcessInv, MountInv, UsernsInv, [Next]_vars
  PROVE  MountInv'
<1> USE DEF MountInv, BeforeFork, Wants, FirstLevelNs, TwoStage, ProcessInv,
        TypeOK, SupervisorPC, ChildPC
<1>1. CASE UnshareFirstLevel
  BY <1>1 DEF UnshareFirstLevel, UsernsInv
<1>2. CASE InstallHandlers
  BY <1>2 DEF InstallHandlers
<1>3. CASE CreateEventfds
  BY <1>3 DEF CreateEventfds
<1>4. CASE Fork
  BY <1>4 DEF Fork, UsernsInv
<1>5. CASE StoreChildPid
  BY <1>5 DEF StoreChildPid
<1>6. CASE AwaitChild
  BY <1>6 DEF AwaitChild
<1>7. ASSUME NEW file \in Configuring, PrepareUserns(file) PROVE MountInv'
  BY <1>7 DEF PrepareUserns, NextFile, Configuring
<1>8. CASE Release
  BY <1>8 DEF Release
<1>9. CASE WaitChild
  BY <1>9 DEF WaitChild
<1>10. CASE ExitWithChildCode
  BY <1>10 DEF ExitWithChildCode
<1>11. CASE SupervisorError
  BY <1>11 DEF SupervisorError, FallibleSupervisorSteps
<1>12. CASE ResetHandlers
  BY <1>12 DEF ResetHandlers
<1>13. ASSUME NEW step, NEW next,
          <<step, next>> \in {<<"pivot", "unshare_user">>, <<"pivot_late", "oom">>},
          PivotFs(step, next)
   PROVE  MountInv'
  BY <1>13 DEF PivotFs, ChildEnd
<1>14. CASE UnshareUser
  BY <1>14 DEF UnshareUser
<1>15. CASE NotifySupervisor
  BY <1>15 DEF NotifySupervisor
<1>16. CASE AwaitRelease
  BY <1>16 DEF AwaitRelease
<1>17. CASE FinalPrep
  BY <1>17 DEF FinalPrep
<1>18. CASE SetupConsole
  BY <1>18 DEF SetupConsole, ChildEnd
<1>19. CASE Execute
  BY <1>19 DEF Execute
<1>20. CASE ChildError
  BY <1>20 DEF ChildError, ChildEnd, FallibleChildSteps
<1>21. CASE WorkloadExit
  BY <1>21 DEF WorkloadExit, ChildEnd
<1>22. CASE SignalSupervisor
  BY <1>22 DEF SignalSupervisor, Kill, ChildEnd, ChildAlive
<1>23. CASE KillSupervisor
  BY <1>23 DEF KillSupervisor
<1>24. CASE KillChild
  BY <1>24 DEF KillChild, ChildEnd, ChildAlive
<1>25. CASE RecyclePid
  BY <1>25 DEF RecyclePid
<1>26. CASE UNCHANGED vars
  BY <1>26 DEF vars
<1> QED
  BY <1>1, <1>2, <1>3, <1>4, <1>5, <1>6, <1>7, <1>8, <1>9, <1>10,
     <1>11, <1>12, <1>13, <1>14, <1>15, <1>16, <1>17, <1>18, <1>19,
     <1>20, <1>21, <1>22, <1>23, <1>24, <1>25, <1>26 DEF Next, SupervisorStep, ChildStep, Environment, Configuring

\* A step keeps the child where the supervisor looks for it.
LEMMA ProcStep ==
  ASSUME TypeOK, ProcessInv, HandshakeInv, UsernsInv, ProcInv, [Next]_vars
  PROVE  ProcInv'
<1> USE DEF ProcInv, Asked, Configuring, BeforeFork, Wants, TwoStage, ProcessInv,
        TypeOK, SupervisorPC, ChildPC
<1>1. CASE UnshareFirstLevel
  BY <1>1 DEF UnshareFirstLevel, UsernsInv
<1>2. CASE InstallHandlers
  BY <1>2 DEF InstallHandlers
<1>3. CASE CreateEventfds
  BY <1>3 DEF CreateEventfds
<1>4. CASE Fork
  BY <1>4 DEF Fork, UsernsInv
<1>5. CASE StoreChildPid
  BY <1>5 DEF StoreChildPid
<1>6. CASE AwaitChild
  BY <1>6 DEF AwaitChild
<1>7. ASSUME NEW file \in Configuring, PrepareUserns(file) PROVE ProcInv'
  BY <1>7 DEF PrepareUserns, NextFile, Configuring
<1>8. CASE Release
  BY <1>8 DEF Release
<1>9. CASE WaitChild
  BY <1>9 DEF WaitChild
<1>10. CASE ExitWithChildCode
  BY <1>10 DEF ExitWithChildCode
<1>11. CASE SupervisorError
  BY <1>11 DEF SupervisorError, FallibleSupervisorSteps
<1>12. CASE ResetHandlers
  BY <1>12 DEF ResetHandlers
<1>13. ASSUME NEW step, NEW next,
          <<step, next>> \in {<<"pivot", "unshare_user">>, <<"pivot_late", "oom">>},
          PivotFs(step, next)
   PROVE  ProcInv'
  BY <1>13 DEF PivotFs, ChildEnd, HandshakeInv, Released, PostRelease
<1>14. CASE UnshareUser
  BY <1>14 DEF UnshareUser
<1>15. CASE NotifySupervisor
  BY <1>15 DEF NotifySupervisor
<1>16. CASE AwaitRelease
  BY <1>16 DEF AwaitRelease
<1>17. CASE FinalPrep
  BY <1>17 DEF FinalPrep
<1>18. CASE SetupConsole
  BY <1>18 DEF SetupConsole, ChildEnd
<1>19. CASE Execute
  BY <1>19 DEF Execute
<1>20. CASE ChildError
  BY <1>20 DEF ChildError, ChildEnd, FallibleChildSteps
<1>21. CASE WorkloadExit
  BY <1>21 DEF WorkloadExit, ChildEnd
<1>22. CASE SignalSupervisor
  BY <1>22 DEF SignalSupervisor, Kill, ChildEnd, ChildAlive
<1>23. CASE KillSupervisor
  BY <1>23 DEF KillSupervisor
<1>24. CASE KillChild
  BY <1>24 DEF KillChild, ChildEnd, ChildAlive
<1>25. CASE RecyclePid
  BY <1>25 DEF RecyclePid
<1>26. CASE UNCHANGED vars
  BY <1>26 DEF vars
<1> QED
  BY <1>1, <1>2, <1>3, <1>4, <1>5, <1>6, <1>7, <1>8, <1>9, <1>10,
     <1>11, <1>12, <1>13, <1>14, <1>15, <1>16, <1>17, <1>18, <1>19,
     <1>20, <1>21, <1>22, <1>23, <1>24, <1>25, <1>26 DEF Next, SupervisorStep, ChildStep, Environment, Configuring

\* A step keeps the forwarding path.
LEMMA SignalStep ==
  ASSUME TypeOK, ProcessInv, SignalInv, [Next]_vars
  PROVE  SignalInv'
<1> USE DEF SignalInv, BeforeFork, ProcessInv, ChildAlive, TypeOK,
        SupervisorPC, ChildPC
<1>1. CASE UnshareFirstLevel
  BY <1>1 DEF UnshareFirstLevel
<1>2. CASE InstallHandlers
  BY <1>2 DEF InstallHandlers
<1>3. CASE CreateEventfds
  BY <1>3 DEF CreateEventfds
<1>4. CASE Fork
  BY <1>4 DEF Fork
<1>5. CASE StoreChildPid
  BY <1>5 DEF StoreChildPid
<1>6. CASE AwaitChild
  BY <1>6 DEF AwaitChild
<1>7. ASSUME NEW file \in Configuring, PrepareUserns(file) PROVE SignalInv'
  BY <1>7 DEF PrepareUserns, NextFile, Configuring
<1>8. CASE Release
  BY <1>8 DEF Release
<1>9. CASE WaitChild
  BY <1>9 DEF WaitChild
<1>10. CASE ExitWithChildCode
  BY <1>10 DEF ExitWithChildCode
<1>11. CASE SupervisorError
  BY <1>11 DEF SupervisorError, FallibleSupervisorSteps
<1>12. CASE ResetHandlers
  BY <1>12 DEF ResetHandlers
<1>13. ASSUME NEW step, NEW next,
          <<step, next>> \in {<<"pivot", "unshare_user">>, <<"pivot_late", "oom">>},
          PivotFs(step, next)
   PROVE  SignalInv'
  BY <1>13 DEF PivotFs, ChildEnd
<1>14. CASE UnshareUser
  BY <1>14 DEF UnshareUser
<1>15. CASE NotifySupervisor
  BY <1>15 DEF NotifySupervisor
<1>16. CASE AwaitRelease
  BY <1>16 DEF AwaitRelease
<1>17. CASE FinalPrep
  BY <1>17 DEF FinalPrep
<1>18. CASE SetupConsole
  BY <1>18 DEF SetupConsole, ChildEnd
<1>19. CASE Execute
  BY <1>19 DEF Execute
<1>20. CASE ChildError
  BY <1>20 DEF ChildError, ChildEnd, FallibleChildSteps
<1>21. CASE WorkloadExit
  BY <1>21 DEF WorkloadExit, ChildEnd
<1>22. CASE SignalSupervisor
  BY <1>22 DEF SignalSupervisor, Kill, ChildEnd
<1>23. CASE KillSupervisor
  BY <1>23 DEF KillSupervisor
<1>24. CASE KillChild
  BY <1>24 DEF KillChild, ChildEnd
<1>25. CASE RecyclePid
  BY <1>25 DEF RecyclePid
<1>26. CASE UNCHANGED vars
  BY <1>26 DEF vars
<1> QED
  BY <1>1, <1>2, <1>3, <1>4, <1>5, <1>6, <1>7, <1>8, <1>9, <1>10,
     <1>11, <1>12, <1>13, <1>14, <1>15, <1>16, <1>17, <1>18, <1>19,
     <1>20, <1>21, <1>22, <1>23, <1>24, <1>25, <1>26 DEF Next, SupervisorStep, ChildStep, Environment, Configuring

-----------------------------------------------------------------------------
(* The inductive invariant. *)

\* The initial states satisfy it.
LEMMA InitInvariant == Init => IInv
<1> SUFFICES ASSUME Init PROVE IInv
  OBVIOUS
<1>1. TypeOK
  <2>1. /\ handling \in [{"supervisor", "child"} -> {"default", "forward"}]
        /\ userns \in [{"supervisor", "child"} -> {"host", "new"}]
        /\ mntns \in [private : BOOLEAN, owner : {"host", "new"}]
    BY DEF Init
  <2>2. /\ req \in Requests
        /\ spc \in SupervisorPC /\ report \in Codes \cup {Alive, 1}
        /\ cpc \in ChildPC /\ cend \in Statuses \cup {Alive} /\ launched \in BOOLEAN
    BY DEF Init, SupervisorPC, ChildPC
  <2>3. /\ parent_efd \in Nat /\ child_efd \in Nat
        /\ CHILD_PID \in {0, ChildPid} /\ nsig \in 0 .. MaxSignals
        /\ mounts = {} /\ idmap = {} /\ fates = {} /\ pid_owner = "nobody"
    BY BoundsAssumption DEF Init
  <2> QED
    BY <2>1, <2>2, <2>3 DEF TypeOK
<1>2. ProcessInv /\ StatusInv
  BY DEF Init, ProcessInv, StatusInv, ChildAlive, BeforeFork
<1>3. HandshakeInv
  BY DEF Init, HandshakeInv, Asked, Released, PostRelease, Configuring
<1>4. UsernsInv
  BY DEF Init, UsernsInv, Asked, Released, PostRelease, Configuring, BeforeFork
<1>5. MountInv /\ ProcInv /\ SignalInv
  BY DEF Init, MountInv, ProcInv, SignalInv, BeforeFork, Asked, Configuring
<1> QED
  BY <1>1, <1>2, <1>3, <1>4, <1>5 DEF IInv

\* Every step preserves it.
LEMMA InvariantStep == IInv /\ [Next]_vars => IInv'
BY TypeStep, ProcessStep, StatusStep, HandshakeStep, UsernsStep, MountStep,
   ProcStep, SignalStep DEF IInv

\* Every behaviour stays in it.
THEOREM Invariance == Spec => []IInv
BY InitInvariant, InvariantStep, PTL DEF Spec

-----------------------------------------------------------------------------
(* What follows from it. *)

\* Every variable keeps its type.
THEOREM TypeCorrectness == Spec => []TypeOK
<1>1. IInv => TypeOK
  BY DEF IInv
<1> QED
  BY Invariance, <1>1, PTL

\* The workload never runs, and the child never passes child_efd.read(),
\* before prepare_userns is through.
THEOREM ConfigurationFirst == Spec => []ConfiguredBeforeExec
<1>1. IInv => ConfiguredBeforeExec
  BY DEF IInv, UsernsInv, Released, ConfiguredBeforeExec
<1> QED
  BY Invariance, <1>1, PTL

\* A supervisor that failed leaves nothing running, and nothing to be launched.
THEOREM FailureLaunchesNothing == Spec => []NoLaunchAfterFailure
<1>1. IInv => NoLaunchAfterFailure
  BY DEF IInv, HandshakeInv, Released, PostRelease, NoLaunchAfterFailure
<1> QED
  BY Invariance, <1>1, PTL

\* The supervisor's exit code is the child's, and 0 is the workload's own.
THEOREM TruthfulReport == Spec => []ReportIsChildStatus
<1>1. ASSUME IInv PROVE ReportIsChildStatus
  <2>1. spc = "exited" => cpc = "reaped" /\ report = ExitCodeOf(cend)
    BY <1>1 DEF IInv, ProcessInv, StatusInv
  <2>2. ASSUME report = 0 PROVE launched /\ cend = 0
    <3>1. spc = "exited"
      BY <1>1, <2>2 DEF IInv, StatusInv, TypeOK, SupervisorPC
    <3>2. cend = 0
      BY <1>1, <2>1, <2>2, <3>1 DEF ExitCodeOf
    <3>3. launched
      BY <1>1, <3>2 DEF IInv, TypeOK, StatusInv
    <3> QED
      BY <3>2, <3>3
  <2> QED
    BY <2>1, <2>2 DEF ReportIsChildStatus
<1> QED
  BY Invariance, <1>1, PTL

\* pivot_fs is refused for want of privilege to the requests that keep the
\* host's pid namespace under a user namespace of their own, and to no other.
THEOREM PivotHasPrivilege == Spec => []PivotPermitted
<1>1. ASSUME IInv PROVE PivotPermitted
  <2> SUFFICES ASSUME cpc \in {"pivot", "pivot_late"}, Wants("Mount")
               PROVE  mntns.private /\ (MayPivot("child") <=> Pivotable)
    BY DEF PivotPermitted
  <2>1. mntns.private /\ mntns.owner = IF "User" \in FirstLevelNs THEN "new" ELSE "host"
    BY <1>1 DEF IInv, MountInv
  <2>2. CASE TwoStage /\ cpc = "pivot"
    BY <1>1, <2>1, <2>2 DEF IInv, UsernsInv, MayMount, MayPivot, Pivotable
  <2>3. CASE ~TwoStage
    <3>1. userns["child"] = IF Wants("User") THEN "new" ELSE "host"
      BY <1>1, <2>3 DEF IInv, UsernsInv
    <3>2. MayMount("child")
      BY <2>1, <2>3, <3>1 DEF MayMount, Wants, FirstLevelNs
    <3>3. PidnsOwner = IF Wants("User") /\ Wants("Pid") THEN "new" ELSE "host"
      BY <2>3 DEF PidnsOwner, Wants, FirstLevelNs
    <3> QED
      BY <2>1, <2>3, <3>1, <3>2, <3>3 DEF MayPivot, Pivotable
  <2>4. CASE TwoStage /\ cpc = "pivot_late"
    BY <1>1, <2>1, <2>4 DEF IInv, UsernsInv
  <2> QED
    BY <2>1, <2>2, <2>3, <2>4
<1> QED
  BY Invariance, <1>1, PTL

\* prepare_userns finds the child, and the kernel takes what it writes.
THEOREM ConfigurationSucceeds == Spec => []ConfigurationPermitted
<1>1. ASSUME IInv PROVE ConfigurationPermitted
  <2> SUFFICES ASSUME spc \in {"uid_map", "setgroups", "gid_map"} \cap WantedFiles,
                      Mappable
               PROVE  WritePermitted(spc)
    BY DEF ConfigurationPermitted
  <2> USE <1>1 DEF IInv, Configuring
  <2>1. ~Released /\ Asked /\ Wants("User") /\ cpc \notin {"none", "reaped"}
    BY DEF HandshakeInv, BeforeHandshake, Asked, UsernsInv, ProcessInv
  <2>2. ProcEntry(UsernsPid) = "child"
    <3>1. ASSUME TwoStage, Wants("Pid") PROVE "rootfs" \in mounts
      BY <2>1, <3>1 DEF Mappable, ProcInv
    <3>2. ASSUME ~TwoStage PROVE "rootfs" \notin mounts
      BY <3>2 DEF ProcInv
    <3>3. pid_owner = "child"
      BY <2>1 DEF ProcInv
    <3> QED
      BY <3>1, <3>2, <3>3 DEF ProcEntry, ProcOfChildNs, UsernsPid
  <2>3. userns["child"] = "new"
    BY <2>1 DEF UsernsInv
  <2>4. spc = "setgroups" => "gid_map" \notin idmap
    BY DEF UsernsInv
  <2>5. TwoStage => userns["supervisor"] = "host"
    BY <2>1 DEF UsernsInv, FirstLevelNs, BeforeFork, BeforeHandshake
  <2>6. req.uid_map \in Mappings /\ req.gid_map \in Mappings
    BY RequestsAssumption DEF TypeOK, Request
  <2>7. ASSUME spc = "uid_map", ~TwoStage PROVE req.uid_map = "own"
    BY <2>6, <2>7 DEF WantedFiles, Mappable, Mappings
  <2>8. ASSUME spc = "gid_map", ~TwoStage
        PROVE  req.gid_map = "own" /\ "setgroups" \in idmap
    <3>1. req.gid_map = "own"
      BY <2>6, <2>8 DEF WantedFiles, Mappable, Mappings
    <3>2. "setgroups" \in WantedFiles
      BY <2>8, <3>1, Zenon DEF Mappable, WantedFiles
    <3> QED
      BY <2>8, <3>1, <3>2 DEF UsernsInv
  <2> QED
    BY <2>2, <2>3, <2>4, <2>5, <2>7, <2>8 DEF WritePermitted
<1> QED
  BY Invariance, <1>1, PTL

\* From the launch on, a signal that the supervisor traps has somewhere to go.
THEOREM ForwardingWorks == Spec => []ForwardingReady
<1>1. IInv => ForwardingReady
  BY DEF IInv, ProcessInv, HandshakeInv, Released, SignalInv, BeforeFork,
     ForwardingReady
<1> QED
  BY Invariance, <1>1, PTL

\* Once let go, the child keeps its user namespace and its id maps.
THEOREM UsernsFrozen == Spec => UsernsFrozenOnceReleased
<1>1. ASSUME IInv, [Next]_vars, child_efd > 0 \/ cpc \in PostRelease
      PROVE  idmap' = idmap /\ userns'["child"] = userns["child"]
  <2>1. spc \in {"wait", "reap", "exited", "killed", "failed"}
    BY <1>1 DEF IInv, HandshakeInv, Released
  <2>2. cpc \notin BeforeHandshake
    BY <1>1 DEF IInv, HandshakeInv, Asked, PostRelease, BeforeHandshake
  <2> QED
    BY <1>1, <2>1, <2>2 DEF BeforeHandshake, Next, SupervisorStep, ChildStep, Environment, vars,
       UnshareFirstLevel, InstallHandlers, CreateEventfds, Fork, StoreChildPid,
       AwaitChild, PrepareUserns, Release, WaitChild, ExitWithChildCode,
       SupervisorError, FallibleSupervisorSteps, ResetHandlers, PivotFs,
       UnshareUser, NotifySupervisor, AwaitRelease, FinalPrep, SetupConsole,
       Execute, ChildError, WorkloadExit, SignalSupervisor, KillSupervisor,
       KillChild, RecyclePid
<1> QED
  BY Invariance, <1>1, PTL DEF Spec, UsernsFrozenOnceReleased

-----------------------------------------------------------------------------
(* The refinement: a step of wrap is a step of Supervision or changes none  *)
(* of what Supervision sees.                                               *)

\* The child ends before it is the workload.
LEMMA SetupEnds ==
  ASSUME TypeOK, ProcessInv, ~launched, ChildAlive, UNCHANGED supVars,
         NEW s \in {1, Signaled}, ChildEnd(s)
  PROVE  Abstract!SetupFails
BY DEF ProcessInv, ChildAlive, ChildEnd, Abstract!SetupFails, Abstract!Signaled, Workload,
   Outcome, TypeOK, SupervisorPC

\* The workload ends.
LEMMA WorkloadEnds ==
  ASSUME TypeOK, ProcessInv, cpc = "running", UNCHANGED supVars,
         NEW s \in Statuses, ChildEnd(s)
  PROVE  Abstract!End
BY DEF ProcessInv, ChildEnd, Abstract!End, Abstract!Statuses, Abstract!Signaled, Statuses,
   Workload, Outcome, TypeOK, SupervisorPC

\* Killed or signaled, the child ends one way or the other.
LEMMA ProcessEnds ==
  ASSUME TypeOK, ProcessInv, ChildAlive, UNCHANGED supVars, ChildEnd(Signaled)
  PROVE  Abstract!SetupFails \/ Abstract!End
<1>1. CASE launched
  BY <1>1, WorkloadEnds DEF ProcessInv, ChildAlive, Statuses
<1>2. CASE ~launched
  BY <1>2, SetupEnds
<1> QED
  BY <1>1, <1>2 DEF TypeOK

\* The handler signals the child, or what has its pid.
LEMMA KillEnds ==
  ASSUME TypeOK, ProcessInv, Kill, UNCHANGED supVars
  PROVE  Abstract!Next \/ UNCHANGED Abstract!vars
<1>1. CASE UNCHANGED childVars
  BY <1>1 DEF Abstract!vars, Workload, Outcome
<1>2. CASE ChildAlive /\ ChildEnd(Signaled)
  BY <1>2, ProcessEnds DEF Abstract!Next
<1> QED
  BY <1>1, <1>2 DEF Kill

\* One step of wrap.
LEMMA StepSimulation ==
  ASSUME IInv, [Next]_vars
  PROVE  [Abstract!Next]_(Abstract!vars)
<1> USE DEF IInv
<1>a. TypeOK /\ ProcessInv
  OBVIOUS
<1> DEFINE Goal == Abstract!Next \/ UNCHANGED Abstract!vars
<1>1. ASSUME UnshareFirstLevel PROVE Goal
  BY <1>1, <1>a DEF UnshareFirstLevel, ProcessInv, Workload, Outcome,
     Abstract!vars, TypeOK
<1>2. ASSUME InstallHandlers PROVE Goal
  BY <1>2, <1>a DEF InstallHandlers, ProcessInv, Workload, Outcome,
     Abstract!vars, TypeOK
<1>3. ASSUME CreateEventfds PROVE Goal
  BY <1>3, <1>a DEF CreateEventfds, ProcessInv, Workload, Outcome,
     Abstract!vars, TypeOK
<1>4. ASSUME Fork PROVE Goal
  BY <1>4, <1>a DEF Fork, ProcessInv, BeforeFork, Workload, Outcome,
     Abstract!vars, TypeOK
<1>5. ASSUME StoreChildPid PROVE Goal
  BY <1>5, <1>a DEF StoreChildPid, ProcessInv, Workload, Outcome,
     Abstract!vars, TypeOK
<1>6. ASSUME AwaitChild PROVE Goal
  BY <1>6, <1>a DEF AwaitChild, ProcessInv, Workload, Outcome, Abstract!vars,
     TypeOK
<1>7. ASSUME NEW file \in Configuring, PrepareUserns(file) PROVE Goal
  <2>1. CASE spc' = "failed"
    BY <1>7, <2>1, <1>a DEF PrepareUserns, HandshakeInv, Released, Configuring, ProcessInv,
       NextFile, TypeOK, ChildPC, Workload, Outcome, Abstract!Next, Abstract!GiveUp
  <2>2. CASE spc' # "failed"
    BY <1>7, <2>2 DEF PrepareUserns, NextFile, Configuring, Workload, Outcome, Abstract!vars
  <2> QED
    BY <2>1, <2>2
<1>8. ASSUME Release PROVE Goal
  BY <1>8, <1>a DEF Release, ProcessInv, Workload, Outcome, Abstract!vars,
     TypeOK
<1>9. ASSUME WaitChild PROVE Goal
  <2>1. CASE spc' = "reap"
    BY <1>9, <2>1, <1>a DEF WaitChild, ProcessInv, Workload, Outcome,
       Abstract!vars, TypeOK
  <2>2. CASE spc' = "failed"
    BY <1>9, <2>2, <1>a DEF WaitChild, ProcessInv, TypeOK, Workload, Outcome,
       Abstract!Next, Abstract!GiveUp
  <2> QED
    BY <1>9, <2>1, <2>2 DEF WaitChild
<1>10. ASSUME ExitWithChildCode PROVE Goal
  BY <1>10, <1>a DEF ExitWithChildCode, ExitCodeOf, ProcessInv, TypeOK,
     Workload, Outcome, Abstract!Next, Abstract!Report, Abstract!ExitCode,
     Abstract!Signaled
<1>11. ASSUME SupervisorError PROVE Goal
  BY <1>11, <1>a DEF SupervisorError, FallibleSupervisorSteps, HandshakeInv,
     Released, ProcessInv, TypeOK, ChildPC, Workload, Outcome, Abstract!Next,
     Abstract!GiveUp
<1>12. ASSUME ResetHandlers PROVE Goal
  BY <1>12, <1>a DEF ResetHandlers, ProcessInv, Workload, Outcome,
     Abstract!vars, TypeOK
<1>13. ASSUME NEW step, NEW next,
          <<step, next>> \in {<<"pivot", "unshare_user">>, <<"pivot_late", "oom">>},
          PivotFs(step, next)
   PROVE  Goal
  <2>1. CASE ChildEnd(1)
    <3>1. ChildAlive /\ ~launched /\ UNCHANGED supVars
      BY <1>13, <1>a DEF PivotFs, ProcessInv, ChildAlive
    <3> QED
      BY <2>1, <3>1, <1>a, SetupEnds DEF Abstract!Next
  <2>2. CASE ~ChildEnd(1)
    BY <1>13, <2>2, <1>a DEF PivotFs, ProcessInv, Workload, Outcome, Abstract!vars
  <2> QED
    BY <2>1, <2>2
<1>14. ASSUME UnshareUser PROVE Goal
  BY <1>14, <1>a DEF UnshareUser, ProcessInv, Workload, Outcome,
     Abstract!vars, TypeOK
<1>15. ASSUME NotifySupervisor PROVE Goal
  BY <1>15, <1>a DEF NotifySupervisor, ProcessInv, Workload, Outcome,
     Abstract!vars, TypeOK
<1>16. ASSUME AwaitRelease PROVE Goal
  BY <1>16, <1>a DEF AwaitRelease, ProcessInv, Workload, Outcome,
     Abstract!vars, TypeOK
<1>17. ASSUME FinalPrep PROVE Goal
  BY <1>17, <1>a DEF FinalPrep, ProcessInv, Workload, Outcome, Abstract!vars,
     TypeOK
<1>18. ASSUME SetupConsole PROVE Goal
  <2>1. CASE ChildEnd(1)
    <3>1. ChildAlive /\ ~launched /\ UNCHANGED supVars
      BY <1>18, <1>a DEF SetupConsole, ProcessInv, ChildAlive
    <3> QED
      BY <2>1, <3>1, <1>a, SetupEnds DEF Abstract!Next
  <2>2. CASE ~ChildEnd(1)
    BY <1>18, <2>2, <1>a DEF SetupConsole, ProcessInv, Workload, Outcome, Abstract!vars
  <2> QED
    BY <2>1, <2>2
<1>19. ASSUME Execute PROVE Goal
  BY <1>19, <1>a DEF Execute, HandshakeInv, Released, PostRelease, ProcessInv,
     Workload, Outcome, Abstract!Next, Abstract!Launch
<1>20. ASSUME ChildError PROVE Goal
  <2>1. ChildAlive /\ ~launched /\ UNCHANGED supVars /\ ChildEnd(1)
    BY <1>20, <1>a DEF ChildError, FallibleChildSteps, ProcessInv, ChildAlive
  <2> QED
    BY <2>1, <1>a, SetupEnds DEF Abstract!Next
<1>21. ASSUME WorkloadExit PROVE Goal
  <2>1. PICK code \in Codes : ChildEnd(code)
    BY <1>21 DEF WorkloadExit
  <2> QED
    BY <1>21, <2>1, <1>a, WorkloadEnds DEF WorkloadExit, Statuses, Abstract!Next
<1>22. ASSUME SignalSupervisor PROVE Goal
  <2>1. CASE spc' = "killed" /\ UNCHANGED childVars
    BY <1>22, <2>1, <1>a DEF SignalSupervisor, ProcessInv, TypeOK, Workload, Outcome,
       Abstract!Next, Abstract!Killed
  <2>2. CASE UNCHANGED spc /\ UNCHANGED childVars
    BY <1>22, <2>2 DEF SignalSupervisor, Workload, Outcome, Abstract!vars
  <2>3. CASE UNCHANGED spc /\ Kill
    BY <1>22, <2>3, <1>a, KillEnds DEF SignalSupervisor
  <2> QED
    BY <1>22, <2>1, <2>2, <2>3 DEF SignalSupervisor
<1>23. ASSUME KillSupervisor PROVE Goal
  BY <1>23, <1>a DEF KillSupervisor, ProcessInv, TypeOK, Workload, Outcome,
     Abstract!Next, Abstract!Killed
<1>24. ASSUME KillChild PROVE Goal
  BY <1>24, <1>a, ProcessEnds DEF KillChild, Abstract!Next
<1>25. ASSUME RecyclePid PROVE Goal
  BY <1>25, <1>a DEF RecyclePid, ProcessInv, Workload, Outcome, Abstract!vars,
     TypeOK
<1>26. CASE UNCHANGED vars
  BY <1>26 DEF vars, Workload, Outcome, Abstract!vars
<1> QED
  BY <1>1, <1>2, <1>3, <1>4, <1>5, <1>6, <1>7, <1>8, <1>9, <1>10,
     <1>11, <1>12, <1>13, <1>14, <1>15, <1>16, <1>17, <1>18, <1>19,
     <1>20, <1>21, <1>22, <1>23, <1>24, <1>25, <1>26
     DEF Next, SupervisorStep, ChildStep, Environment, Configuring

\* wrap implements Supervision: one launch at most, none after a failure, no
\* workload given up while it runs, and an exit code that is the child's, or 1.
THEOREM Refinement == Spec => ImplementsSupervision
<1>1. Init => Abstract!Init
  BY DEF Init, Abstract!Init, Abstract!None, Workload, Outcome
<1>2. IInv /\ [Next]_vars => [Abstract!Next]_(Abstract!vars)
  BY StepSimulation
<1> QED
  BY Invariance, <1>1, <1>2, PTL DEF Spec, Abstract!Spec, ImplementsSupervision
=============================================================================
