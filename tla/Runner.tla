-------------------------------- MODULE Runner --------------------------------
(***************************************************************************)
(* Runner (src/src/runner.rs) and main of the styrolite binary             *)
(* (src/bin/styrolite.rs): a caller's process writes the request to a      *)
(* temporary file, starts styrolite on it and waits, or becomes it;        *)
(* styrolite reads the file and wraps the workload.                        *)
(*                                                                         *)
(* From there on the styrolite process is what Supervision promises, which *)
(* CreateWrap and AttachWrap implement.  The temporary file belongs to a   *)
(* TempFile, deleted when that is dropped; it is the only thing the two    *)
(* processes share.                                                        *)
(***************************************************************************)
EXTENDS Integers

CONSTANTS
  Codes,    \* the exit codes a workload may end with
  Faults    \* what may fail, and the kills and cancellations that may happen

ASSUME CodesAssumption == Codes \subseteq Nat

Modes == {"run", "run_async", "exec"}

VARIABLES
  mode,     \* the method the caller uses
  rpc,      \* next step of the caller in it
  result,   \* what the method returned: a code, or one of the two below
  file,     \* the temporary file: "absent", or how much of the request it holds
  spc,      \* next step of the styrolite process ("none" before there is one)
  raw,      \* what it has read of the request
  workload, status, outcome, report   \* the supervision it carries out

Nothing == -1   \* the method has not returned
Failed  == -2   \* it has returned Err

runnerVars   == <<mode, rpc, result, file>>
binaryVars   == <<spc, raw>>
superviseVars == <<workload, status, outcome, report>>
vars == <<runnerVars, binaryVars, superviseVars>>

Sup == INSTANCE Supervision

\* `?` and the end of the method drop the TempFile.
Drop      == file' = "absent"
ReturnErr == rpc' = "returned" /\ result' = Failed /\ Drop

Init ==
  /\ mode \in Modes
  /\ rpc = "tempfile" /\ result = Nothing /\ file = "absent"
  /\ spc = "none" /\ raw = "nothing"
  /\ Sup!Init

-----------------------------------------------------------------------------
(* The caller. *)

CreateTempFile ==
  /\ rpc = "tempfile"
  /\ \/ /\ rpc' = "write" /\ file' = "empty"
        /\ UNCHANGED result
     \/ /\ "tempfile" \in Faults
        /\ ReturnErr
  /\ UNCHANGED <<mode, binaryVars, superviseVars>>

\* write_config.  validate always succeeds.  What does not fit the buffer is
\* written by to_writer, which reports errors; the rest by the drop of the
\* BufWriter, which does not.
WriteConfig ==
  /\ rpc = "write"
  /\ \/ /\ rpc' = "start" /\ file' = "whole"
        /\ UNCHANGED result
     \/ /\ "flush" \in Faults
        /\ rpc' = "start" /\ file' = "partial"
        /\ UNCHANGED result
     \/ /\ "write" \in Faults
        /\ ReturnErr
  /\ UNCHANGED <<mode, binaryVars, superviseVars>>

\* Mutated: spawn, and a caller that does not wait.
SpawnOnly ==
  /\ rpc = "start"
  /\ spc' = "exists"
  /\ rpc' = "returned" /\ result' = 0 /\ Drop
  /\ UNCHANGED <<mode, raw, superviseVars>>

\* status() starts the child; exec becomes it, and no destructor runs.  The
\* asynchronous one may fail with the child already there: tokio starts to
\* watch a process only once it exists, and an error of that ends the call.
StartBinary ==
  /\ rpc = "start"
  /\ \/ /\ spc' = "exists"
        /\ rpc' = IF mode = "exec" THEN "replaced" ELSE "wait"
        /\ UNCHANGED <<result, file>>
     \/ /\ "watch" \in Faults /\ mode = "run_async"
        /\ spc' = "exists"
        /\ ReturnErr
     \/ /\ "start" \in Faults
        /\ ReturnErr
        /\ UNCHANGED spc
  /\ UNCHANGED <<mode, raw, superviseVars>>

\* The wait status of the styrolite process, once it has ended.
BinaryCode == CASE spc = "refused"                 -> 1
                [] spc = "killed"                  -> Sup!Signaled
                [] spc = "wrapping" /\ outcome \in {"reported", "failed"} -> report
                [] spc = "wrapping" /\ outcome = "killed" -> Sup!Signaled
                [] OTHER                           -> Sup!None

\* Mutated: no code is success.
ZeroByDefault(code) == IF code = Sup!Signaled THEN 0 ELSE code

\* status.code(), or Err for a signal.
ResultOf(code) == IF code = Sup!Signaled THEN Failed ELSE code

\* Mutated: the error path keeps the file for inspection.
ReturnKeeping ==
  /\ rpc = "wait" /\ BinaryCode # Sup!None
  /\ rpc' = "returned" /\ result' = ResultOf(BinaryCode)
  /\ IF result' = Failed THEN UNCHANGED file ELSE Drop
  /\ UNCHANGED <<mode, binaryVars, superviseVars>>

\* The wait half of status()?: it returns once the child has ended, with an
\* error if the caller ignores SIGCHLD and no status was kept.
ReturnCode ==
  /\ rpc = "wait" /\ BinaryCode # Sup!None
  /\ \/ rpc' = "returned" /\ result' = ResultOf(BinaryCode) /\ Drop
     \/ "wait" \in Faults /\ ReturnErr
  /\ UNCHANGED <<mode, binaryVars, superviseVars>>

\* The future of run_async is dropped at its await: the file goes, the child
\* stays.
CancelRun ==
  /\ "cancel" \in Faults
  /\ mode = "run_async" /\ rpc = "wait"
  /\ rpc' = "cancelled" /\ Drop
  /\ UNCHANGED <<mode, result, binaryVars, superviseVars>>

\* SIGKILL: nothing is dropped.
KillRunner ==
  /\ "kill_runner" \in Faults
  /\ rpc \in {"write", "start", "wait"}
  /\ rpc' = "killed"
  /\ UNCHANGED <<mode, result, file, binaryVars, superviseVars>>

RunnerStep == CreateTempFile \/ WriteConfig \/ StartBinary \/ ReturnCode

-----------------------------------------------------------------------------
(* The styrolite binary. *)

\* config_path.exists(), or bail.
CheckPath ==
  /\ spc = "exists"
  /\ spc' = IF file = "absent" THEN "refused" ELSE "read"
  /\ UNCHANGED <<runnerVars, raw, superviseVars>>

\* fs::read, at a later moment.
ReadConfig ==
  /\ spc = "read"
  /\ \/ /\ file # "absent" /\ spc' = "parse" /\ raw' = file
     \/ /\ file = "absent" \/ "read" \in Faults
        /\ spc' = "refused" /\ UNCHANGED raw
  /\ UNCHANGED <<runnerVars, superviseVars>>

\* Mutated: what does not parse is a default request.
ParseOrDefault ==
  /\ spc = "parse"
  /\ spc' = "wrapping"
  /\ UNCHANGED <<runnerVars, raw, superviseVars>>

\* from_slice takes a whole JSON document or none; Config::Create or Attach
\* then wraps.
ParseConfig ==
  /\ spc = "parse"
  /\ spc' = IF raw = "whole" THEN "wrapping" ELSE "refused"
  /\ UNCHANGED <<runnerVars, raw, superviseVars>>

BinaryStep == CheckPath \/ ReadConfig \/ ParseConfig

\* create.wrap() or attach.wrap().
Supervise ==
  /\ spc = "wrapping"
  /\ Sup!Next
  /\ UNCHANGED <<runnerVars, binaryVars>>

KillBinary ==
  /\ "kill_binary" \in Faults
  /\ spc \in {"exists", "read", "parse"}
  /\ spc' = "killed"
  /\ UNCHANGED <<runnerVars, raw, superviseVars>>

Next == RunnerStep \/ BinaryStep \/ Supervise \/ CancelRun \/ KillRunner \/ KillBinary

Spec == Init /\ [][Next]_vars

-----------------------------------------------------------------------------
(* Properties. *)

\* An asynchronous run is over while the process it started may not be.
Abandoned == rpc = "cancelled" \/ (mode = "run_async" /\ result = Failed)

\* The request is in the file by the time styrolite is there to read it, and
\* stays until it has been read, unless the caller has been cancelled or could
\* not watch it: nobody deletes a file that the other process still needs.
RequestWaits ==
  spc \in {"exists", "read"} /\ ~Abandoned
    => file = "whole" \/ (file = "partial" /\ "flush" \in Faults)

\* A workload is launched from the whole request or not at all, however the
\* write, the cancellation and the read interleave.
LaunchedFromWholeRequest == workload \in {"running", "ended"} => raw = "whole"

\* What run returns is what became of the container: 0 only for a workload
\* that ran and ended with 0, any code but 1 the workload's own; and no result,
\* Err included, while a styrolite process runs on, unless it is the one that
\* an asynchronous run could not watch.
RunReturnsOutcome ==
  /\ result = 0 => workload = "ended" /\ status = 0
  /\ result \notin {Nothing, Failed, 1} => workload = "ended" /\ status = result
  /\ result # Nothing /\ spc # "none" => BinaryCode # Sup!None \/ Abandoned

\* A method that has returned, or a run that was cancelled, leaves no
\* configuration file behind; only a process that was killed, or replaced by
\* exec, does.
NothingLeftBehind == file # "absent" => rpc \notin {"returned", "cancelled"}

-----------------------------------------------------------------------------
(* The invariant the proofs use. *)

\* Every variable keeps its type.
TypeOK ==
  /\ mode \in Modes
  /\ rpc \in {"tempfile", "write", "start", "wait", "replaced", "returned",
              "cancelled", "killed"}
  /\ result \in Codes \cup {Nothing, Failed, 1}
  /\ file \in {"absent", "empty", "partial", "whole"}
  /\ spc \in {"none", "exists", "read", "parse", "wrapping", "refused", "killed"}
  /\ raw \in {"nothing", "empty", "partial", "whole"}
  /\ workload \in {"absent", "running", "ended", "stillborn"}
  /\ status \in Sup!Statuses \cup {Sup!None}
  /\ outcome \in {"pending", "reported", "failed", "killed"}
  /\ report \in Codes \cup {Sup!None, 1}

\* How much of the request the file holds when it is handed on.
Written == file = "whole" \/ (file = "partial" /\ "flush" \in Faults)

\* Where the two processes can be at the same time, and the file with them.
ProcessesInv ==
  /\ rpc \in {"tempfile", "write", "start"} => spc = "none"
  /\ rpc \in {"start", "wait"} => Written
  /\ spc \in {"exists", "read"} => rpc \in {"wait", "replaced", "killed"} \/ Abandoned
  /\ rpc \in {"tempfile", "write", "start", "wait", "replaced", "cancelled", "killed"}
       => result = Nothing

\* What has been read, and that nothing is supervised before it has been.
ReadInv ==
  /\ spc = "wrapping" => raw = "whole"
  /\ spc # "wrapping" => workload = "absent" /\ outcome = "pending"

\* What Supervision promises, as far as the result depends on it.
SupervisedInv ==
  /\ workload = "ended" => status \in Sup!Statuses
  /\ workload = "stillborn" => status \in {1, Sup!Signaled}
  /\ outcome = "reported" => /\ workload \in {"ended", "stillborn"}
                             /\ report = Sup!ExitCode(status)
  /\ outcome = "failed" => report = 1

IInv == /\ TypeOK /\ ProcessesInv /\ ReadInv /\ SupervisedInv
        /\ RequestWaits /\ RunReturnsOutcome /\ NothingLeftBehind
=============================================================================
