------------------------------ MODULE Supervision ------------------------------
(***************************************************************************)
(* What a styrolite process promises the one that started it: it launches  *)
(* one workload at most, never after it has given up, and the exit code it *)
(* ends with is that of the process it forked for the workload, or 1; it   *)
(* never gives up a workload that runs.                                    *)
(*                                                                         *)
(* CreateWrap implements it; the handshake, the namespaces, the id maps    *)
(* and the mounts are what it takes.                                       *)
(***************************************************************************)
EXTENDS Integers

CONSTANT Codes       \* the exit codes a workload may end with

None     == -1       \* no wait status, no exit code yet
Signaled == -2       \* ended by a signal

Statuses == Codes \cup {1, Signaled}

\* Being ended by a signal is reported as 1, whatever the signal.
ExitCode(status) == IF status = Signaled THEN 1 ELSE status

VARIABLES
  workload,  \* "absent", "running", "ended", or "stillborn": ended unlaunched
  status,    \* the wait status of the workload's process
  outcome,   \* "pending", "reported", "failed" or "killed"
  report     \* the exit code of the supervisor

vars == <<workload, status, outcome, report>>

Init ==
  /\ workload = "absent" /\ status = None
  /\ outcome = "pending" /\ report = None

\* A supervisor that was killed may still leave a workload behind; one that
\* has failed may not.
Launch ==
  /\ workload = "absent"
  /\ outcome \in {"pending", "killed"}
  /\ workload' = "running"
  /\ UNCHANGED <<status, outcome, report>>

End ==
  /\ workload = "running"
  /\ workload' = "ended"
  /\ status' \in Statuses
  /\ UNCHANGED <<outcome, report>>

\* The process meant for the workload ends before it becomes the workload.
SetupFails ==
  /\ workload = "absent"
  /\ workload' = "stillborn"
  /\ status' \in {1, Signaled}
  /\ UNCHANGED <<outcome, report>>

\* The status of a workload that has ended may be lost, its end may not.
GiveUp ==
  /\ outcome = "pending"
  /\ workload # "running"
  /\ outcome' = "failed" /\ report' = 1
  /\ UNCHANGED <<workload, status>>

Killed ==
  /\ outcome = "pending"
  /\ outcome' = "killed"
  /\ UNCHANGED <<workload, status, report>>

Report ==
  /\ outcome = "pending"
  /\ workload \in {"ended", "stillborn"}
  /\ outcome' = "reported" /\ report' = ExitCode(status)
  /\ UNCHANGED <<workload, status>>

Next == Launch \/ End \/ SetupFails \/ GiveUp \/ Killed \/ Report

Spec == Init /\ [][Next]_vars
=============================================================================
