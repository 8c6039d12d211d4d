----------------------------- MODULE MCAttachWrap -----------------------------
(***************************************************************************)
(* Instances of AttachWrap for TLC.                                        *)
(***************************************************************************)
EXTENDS AttachWrapProps

\* Containers with every namespace in both modes.
MCDefault ==
  {[ns |-> Namespace, skip |-> s, uid_map |-> "own", deny |-> TRUE, gid_map |-> "own",
    console |-> FALSE] : s \in BOOLEAN}

\* The same, and one without a pid namespace.
MCRequests == MCDefault \cup {[r EXCEPT !.ns = {"Mount", "User"}, !.skip = FALSE] :
                                 r \in MCDefault}

MCFaults == {"pivot", "uid_map", "kill_child", "kill_supervisor", "recycle_pid"}

\* Attaches to every combination of namespaces, with each kind of cgroup.
MCAttachRequests ==
  [ns : {{}, {"Pid"}, {"Mount", "Pid"}, Namespace}, oom : {FALSE},
   cgroup : {"usable", "denied"}]
    \cup [ns : {{"Pid"}, Namespace}, oom : {TRUE}, cgroup : {"absent"}]

\* The default namespaces and a score.
MCAttachScored == {[ns |-> Namespace, oom |-> TRUE, cgroup |-> "usable"]}

MCAttachFaults == {"find", "scan", "pidfd", "setns", "oom", "handlers", "fork", "wait",
                   "reset", "prep", "exec", "kill_attacher", "kill_forked"}

NoFaults == {}
=============================================================================
