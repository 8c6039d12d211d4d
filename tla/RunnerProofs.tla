----------------------------- MODULE RunnerProofs -----------------------------
(***************************************************************************)
(* Proofs about Runner, for every set of exit codes and every choice of    *)
(* what may fail.                                                          *)
(***************************************************************************)
EXTENDS Runner, TLAPS

\* No exit code is mistaken for a missing one.
LEMMA CodesApart == /\ Nothing \notin Codes /\ Failed \notin Codes
                    /\ Sup!None \notin Codes /\ Sup!Signaled \notin Codes
BY CodesAssumption DEF Nothing, Failed, Sup!None, Sup!Signaled

\* Statuses and codes, spelled out.
LEMMA CodeOfStatus ==
  ASSUME NEW s \in Sup!Statuses
  PROVE  /\ Sup!ExitCode(s) \in Codes \cup {1}
         /\ Sup!ExitCode(s) # 1 => s = Sup!ExitCode(s) /\ s \notin {1, Sup!Signaled}
BY DEF Sup!Statuses, Sup!ExitCode, Sup!Signaled

\* A step of the supervision, by its outcome.
LEMMA SuperviseStep ==
  ASSUME IInv, Supervise
  PROVE  IInv'
<1> USE DEF IInv
<1>0. /\ spc = "wrapping" /\ UNCHANGED <<mode, rpc, result, file, spc, raw>> /\ Sup!Next
  BY DEF Supervise, runnerVars, binaryVars
<1>1. TypeOK'
  <2>1. CASE Sup!Report
    BY <1>0, <2>1, CodeOfStatus DEF TypeOK, SupervisedInv, Sup!Report, Sup!Statuses
  <2>2. CASE ~Sup!Report
    BY <1>0, <2>2
    DEF TypeOK, Sup!Next, Sup!Launch, Sup!End, Sup!SetupFails, Sup!GiveUp, Sup!Killed,
        Sup!Statuses
  <2> QED BY <2>1, <2>2
<1>2. ProcessesInv' /\ ReadInv' /\ RequestWaits' /\ NothingLeftBehind'
  BY <1>0 DEF ProcessesInv, ReadInv, RequestWaits, NothingLeftBehind, Written, Abandoned
<1>3. SupervisedInv'
  BY <1>0 DEF TypeOK, SupervisedInv, Sup!Next, Sup!Launch, Sup!End, Sup!SetupFails,
              Sup!GiveUp, Sup!Killed, Sup!Report
<1>4. RunReturnsOutcome'
  <2>1. (/\ result = 0 => workload = "ended" /\ status = 0
         /\ result \notin {Nothing, Failed, 1} => workload = "ended" /\ status = result)'
    BY <1>0 DEF RunReturnsOutcome, Sup!Next, Sup!Launch, Sup!End, Sup!SetupFails,
                Sup!GiveUp, Sup!Killed, Sup!Report
  <2>2. ASSUME result # Nothing, ~Abandoned PROVE (BinaryCode # Sup!None)'
    <3>1. BinaryCode # Sup!None
      BY <1>0, <2>2 DEF RunReturnsOutcome
    <3>2. outcome \in {"reported", "failed", "killed"}
      BY <1>0, <3>1 DEF BinaryCode, TypeOK
    <3>3. UNCHANGED <<outcome, report>>
      BY <1>0, <3>2 DEF Sup!Next, Sup!Launch, Sup!End, Sup!SetupFails, Sup!GiveUp,
                        Sup!Killed, Sup!Report
    <3> QED BY <1>0, <3>1, <3>3 DEF BinaryCode
  <2> QED BY <1>0, <2>1, <2>2 DEF RunReturnsOutcome, Abandoned
<1> QED BY <1>1, <1>2, <1>3, <1>4

\* What run returns, from the wait status of the process it started.
LEMMA ReturnStep ==
  ASSUME IInv, ReturnCode
  PROVE  IInv'
<1> USE DEF IInv
<1>0. /\ rpc = "wait" /\ rpc' = "returned" /\ file' = "absent"
      /\ BinaryCode # Sup!None /\ result' \in {ResultOf(BinaryCode), Failed}
      /\ UNCHANGED <<mode, spc, raw, workload, status, outcome, report>>
  BY DEF ReturnCode, ReturnErr, Drop, binaryVars, superviseVars
<1>1. spc \in {"refused", "killed", "wrapping"} /\ BinaryCode' # Sup!None
  BY <1>0 DEF BinaryCode, TypeOK
<1>6. CASE result' = Failed
  BY <1>0, <1>1, <1>6 DEF TypeOK, ProcessesInv, ReadInv, SupervisedInv, RequestWaits,
     RunReturnsOutcome, NothingLeftBehind, Written, Failed, Nothing
<1>2. CASE result' # Failed /\ spc = "refused"
  <2>1. result' = 1
    BY <1>0, <1>2, CodesApart DEF BinaryCode, ResultOf, Sup!Signaled
  <2> QED BY <1>0, <1>1, <1>2, <2>1 DEF TypeOK, ProcessesInv, ReadInv, SupervisedInv, RequestWaits,
            RunReturnsOutcome, NothingLeftBehind, Written, Failed, Nothing
<1>3. spc = "killed" \/ (spc = "wrapping" /\ outcome = "killed") => result' = Failed
  BY <1>0 DEF BinaryCode, ResultOf
<1>4. CASE result' # Failed /\ spc = "wrapping" /\ outcome \in {"reported", "failed"}
  <2>1. report \in Codes \cup {1}
    BY <1>4, CodeOfStatus DEF SupervisedInv, Sup!Statuses
  <2>2. result' = report
    BY <1>0, <1>4, <2>1, CodesApart DEF BinaryCode, ResultOf, Sup!Signaled
  <2>3. report # 1 => outcome = "reported" /\ workload = "ended" /\ status = report
    BY <1>4, CodeOfStatus DEF SupervisedInv, Sup!Statuses
  <2>4. result' # Failed /\ result' # Nothing
    BY <2>1, <2>2, CodesApart DEF Failed, Nothing
  <2>5. RunReturnsOutcome'
    BY <1>0, <1>1, <2>2, <2>3, <2>4 DEF RunReturnsOutcome
  <2> QED BY <1>0, <1>4, <2>1, <2>2, <2>5 DEF TypeOK, ProcessesInv, ReadInv, SupervisedInv,
            RequestWaits, NothingLeftBehind, Written
<1>5. spc = "wrapping" /\ outcome = "pending" => FALSE
  BY <1>0 DEF BinaryCode
<1> QED BY <1>1, <1>2, <1>3, <1>4, <1>5, <1>6 DEF TypeOK

\* The other steps leave the supervision alone.
LEMMA OtherStep ==
  ASSUME IInv,
         \/ CreateTempFile \/ WriteConfig \/ StartBinary \/ BinaryStep
         \/ CancelRun \/ KillRunner \/ KillBinary
  PROVE  IInv'
<1> USE DEF IInv, TypeOK, ProcessesInv, ReadInv, SupervisedInv, RequestWaits,
            RunReturnsOutcome, NothingLeftBehind, Written, ReturnErr, Drop,
            Abandoned, runnerVars, binaryVars, superviseVars, Nothing, Failed
<1>1. CASE CreateTempFile
  BY <1>1 DEF CreateTempFile
<1>2. CASE WriteConfig
  BY <1>2 DEF WriteConfig
<1>3. CASE StartBinary
  BY <1>3 DEF StartBinary
<1>4. CASE CheckPath
  BY <1>4 DEF CheckPath, BinaryCode
<1>5. CASE ReadConfig
  BY <1>5 DEF ReadConfig, BinaryCode
<1>6. CASE ParseConfig
  BY <1>6 DEF ParseConfig, BinaryCode
<1>7. CASE CancelRun
  BY <1>7 DEF CancelRun
<1>8. CASE KillRunner
  BY <1>8 DEF KillRunner
<1>9. CASE KillBinary
  BY <1>9 DEF KillBinary, BinaryCode
<1> QED BY <1>1, <1>2, <1>3, <1>4, <1>5, <1>6, <1>7, <1>8, <1>9 DEF BinaryStep

\* The invariant holds throughout: who is where, what the file holds, and what
\* the supervision has come to.
THEOREM Invariance == Spec => []IInv
<1>1. Init => IInv
  BY DEF Init, Sup!Init, IInv, TypeOK, ProcessesInv, ReadInv, SupervisedInv, RequestWaits,
         RunReturnsOutcome, NothingLeftBehind, Modes, Nothing, Failed
<1>2. IInv /\ [Next]_vars => IInv'
  <2> SUFFICES ASSUME IInv, [Next]_vars PROVE IInv' OBVIOUS
  <2>1. CASE Supervise   BY <2>1, SuperviseStep
  <2>2. CASE ReturnCode  BY <2>2, ReturnStep
  <2>3. CASE \/ CreateTempFile \/ WriteConfig \/ StartBinary \/ BinaryStep
             \/ CancelRun \/ KillRunner \/ KillBinary
    BY <2>3, OtherStep
  <2>4. CASE UNCHANGED vars
    BY <2>4 DEF vars, runnerVars, binaryVars, superviseVars, IInv, TypeOK, ProcessesInv,
                ReadInv, SupervisedInv, RequestWaits, RunReturnsOutcome,
                NothingLeftBehind, Written, Abandoned, BinaryCode
  <2> QED BY <2>1, <2>2, <2>3, <2>4 DEF Next, RunnerStep
<1> QED BY <1>1, <1>2, PTL DEF Spec

\* The request is there, and written, for as long as styrolite may read it.
THEOREM RequestIsThere == Spec => []RequestWaits
<1>1. IInv => RequestWaits  BY DEF IInv
<1> QED BY <1>1, Invariance, PTL

\* No workload is launched from a part of a request.
THEOREM WholeRequestOnly == Spec => []LaunchedFromWholeRequest
<1>1. IInv => LaunchedFromWholeRequest
  BY DEF IInv, ReadInv, LaunchedFromWholeRequest
<1> QED BY <1>1, Invariance, PTL

\* What run returns, unless it is an error or 1, is what became of the container,
\* and no process it could watch is left.
THEOREM TruthfulResult == Spec => []RunReturnsOutcome
<1>1. IInv => RunReturnsOutcome  BY DEF IInv
<1> QED BY <1>1, Invariance, PTL

\* A method that returned, or was cancelled, leaves no file behind.
THEOREM FileIsRemoved == Spec => []NothingLeftBehind
<1>1. IInv => NothingLeftBehind  BY DEF IInv
<1> QED BY <1>1, Invariance, PTL
=============================================================================
