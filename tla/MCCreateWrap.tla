----------------------------- MODULE MCCreateWrap -----------------------------
(***************************************************************************)
(* Instances of CreateWrap for TLC.                                        *)
(***************************************************************************)
EXTENDS CreateWrapProps

\* Without a user namespace prepare_userns is never called, so what it would
\* write makes no difference; nor does whose ids a privileged writer maps.
MCRequests ==
  {r \in Request :
     /\ "User" \notin r.ns => r.uid_map = "none" /\ ~r.deny /\ r.gid_map = "none"
     /\ ~r.skip => r.uid_map # "own" /\ r.gid_map # "own"}

\* The request most callers make: the default namespaces, both maps.
MCDefault ==
  {[ns |-> Namespace, skip |-> s, uid_map |-> "own", deny |-> TRUE,
    gid_map |-> "own", console |-> FALSE] : s \in BOOLEAN}

PivotFault   == {"pivot"}
AllFaults    == FallibleSupervisorSteps \cup FallibleChildSteps
                  \cup {"wait", "kill_child", "kill_supervisor", "recycle_pid"}
=============================================================================
