------------------------------ MODULE AttachWrap ------------------------------
(***************************************************************************)
(* AttachRequest::wrap (src/src/wrap.rs) beside the container it joins:    *)
(* CreateWrap's supervisor and child run on while an attacher, started by  *)
(* host root at any moment of their lives, looks the child up by its       *)
(* supervisor's pid, enters its cgroup and its namespaces, forks, and      *)
(* waits for the workload that the forked process becomes.                 *)
(*                                                                         *)
(* The forked process belongs to the container's pid namespace, so the     *)
(* kernel couples the two: it dies with the container's child, and the     *)
(* child does not become a zombie anyone can wait for before it is reaped. *)
(***************************************************************************)
EXTENDS CreateWrapProps

CONSTANTS
  AttachRequests,  \* the attach requests considered, a subset of AttachRequest
  AttachFaults,    \* the steps of attach that may fail, and the kills
  MaxAttachSignals \* bound on the signals sent to the attacher

\* `ns` is target_ns, `oom` whether exec.oom_score_adj is given, `cgroup` what
\* the directory of the workload's identity is to the attacher.
AttachRequest == [ns : SUBSET Namespace, oom : BOOLEAN,
                  cgroup : {"absent", "usable", "denied"}]

AttacherSteps == {"find", "scan", "cgroup", "pidfd", "setns", "limits", "oom",
                  "handlers", "fork", "store", "wait", "reap"}
ForkedSteps   == {"reset", "prep", "exec"}

\* The forked process, seen from the attacher's pid namespace.
AttachedPid == 3

ASSUME AttachAssumption ==
  AttachRequests \subseteq AttachRequest /\ MaxAttachSignals \in Nat

VARIABLES
  areq,      \* the attach request, fixed
  apc,       \* next step of the attacher
  areport,   \* exit code the attacher ended with
  pinned,    \* the process the pidfd denotes
  joined,    \* the container's namespaces the attacher's children are born in
  grouped,   \* the processes of the attach that are in the container's cgroup
  fwdPid,    \* CHILD_PID in the attacher's image
  ahandling, \* disposition of the forwarded signals, per process
  fpc,       \* next step of the forked process
  fend,      \* its wait status
  attached,  \* the attached workload's image has replaced it
  fns,       \* the container's namespaces it is in
  ansig      \* signals sent to the attacher so far

attacherVars  == <<apc, areport, pinned, joined, fwdPid>>
forkedVars    == <<fpc, fend, attached>>
attachVars    == <<areq, attacherVars, forkedVars, grouped, ahandling, fns, ansig>>
containerVars == vars
allVars       == <<containerVars, attachVars>>

\* What the attacher leaves alone up to the fork, mostly.
rest == <<containerVars, areq, forkedVars, grouped, ahandling, fns, ansig>>

AttachInit ==
  /\ areq \in AttachRequests
  /\ apc = "find" /\ areport = Alive /\ pinned = "nobody" /\ joined = {}
  /\ fwdPid = 0 /\ grouped = {}
  /\ ahandling = [p \in {"attacher", "forked"} |-> "default"]
  /\ fpc = "none" /\ fend = Alive /\ attached = FALSE /\ fns = {}
  /\ ansig = 0

-----------------------------------------------------------------------------
(* The kernel between the two. *)

ForkedAlive  == fpc \in ForkedSteps \cup {"running"}
InitDead     == cpc \in ChildEnds

\* The supervisor is alive and its child is not reaped: /proc shows the one
\* as the parent of the other.
ChildVisible == spc \in SupervisorSteps /\ cpc \notin {"none", "reaped"}

\* The container's namespaces that the child is in by now.
ChildNamespaces == (req.ns \ {"User"})
                     \cup (IF userns["child"] = "new" THEN {"User"} ELSE {})

\* setns through the pidfd, in one call: no flags, a target that has ended, or
\* the user namespace the caller is in already, are refused.  A stranger is a
\* process of the host.
SetnsPermitted ==
  /\ areq.ns # {}
  /\ pinned = "child" => ~InitDead
  /\ "User" \in areq.ns => pinned = "child" /\ "User" \in ChildNamespaces

\* The /proc in front of the attacher is the container's, where the attacher,
\* which stays in its own pid namespace, has no entry and no /proc/self.
NoProcSelf == "Mount" \in joined /\ ProcOfChildNs

-----------------------------------------------------------------------------
(* The attacher. *)

AttachFailed == apc' = "failed" /\ areport' = 1

\* first_child_pid_of: the children file of the supervisor, or, if there is
\* none or nothing in it, a scan of /proc for its PPid.
FindChild ==
  /\ \/ /\ apc \in {"find", "scan"} /\ ChildVisible
        /\ apc' = "cgroup" /\ UNCHANGED areport
     \/ /\ apc = "find" /\ (~ChildVisible \/ "find" \in AttachFaults)
        /\ apc' = "scan" /\ UNCHANGED areport
     \/ /\ apc = "scan" /\ ~ChildVisible
        /\ AttachFailed
  /\ UNCHANGED <<rest, pinned, joined, fwdPid>>

\* Mutated: the early return of attach_cgroup, inverted.
AttachCgroupInverted ==
  /\ apc = "cgroup"
  /\ apc' = "pidfd"
  /\ grouped' = {}
  /\ UNCHANGED <<containerVars, areq, areport, pinned, joined, fwdPid, forkedVars,
                 ahandling, fns, ansig>>

\* attach_cgroup: nothing to do without the directory, and an error is only
\* warned about.
AttachCgroup ==
  /\ apc = "cgroup"
  /\ apc' = "pidfd"
  /\ grouped' = IF areq.cgroup = "usable" THEN {"attacher"} ELSE {}
  /\ UNCHANGED <<containerVars, areq, areport, pinned, joined, fwdPid, forkedVars,
                 ahandling, fns, ansig>>

\* pidfd_open(target_pid)?: whoever has the pid now.
OpenPidfd ==
  /\ apc = "pidfd"
  /\ pinned' = pid_owner
  /\ \/ /\ pid_owner # "nobody"
        /\ apc' = "setns" /\ UNCHANGED areport
     \/ /\ pid_owner = "nobody"
        /\ AttachFailed
  /\ UNCHANGED <<rest, joined, fwdPid>>

\* Mutated: the namespaces of whoever has the pid by now, through /proc/<pid>/ns.
JoinByPid ==
  /\ apc = "setns"
  /\ pid_owner = "child" => SetnsPermitted
  /\ apc' = "limits"
  /\ joined' = IF pid_owner = "child" THEN areq.ns \cap ChildNamespaces ELSE {}
  /\ UNCHANGED <<rest, areport, pinned, fwdPid>>

\* Mutated: the user namespace is left out when it is the caller's own.
JoinOneByOne ==
  /\ apc = "setns"
  /\ pinned = "child" /\ ~InitDead
  /\ apc' = "limits"
  /\ joined' = areq.ns \cap ChildNamespaces
  /\ UNCHANGED <<rest, areport, pinned, fwdPid>>

\* libc::setns(pid_fd, flags)?, all of the namespaces or none.
JoinNamespaces ==
  /\ apc = "setns"
  /\ \/ /\ SetnsPermitted
        /\ apc' = "limits"
        /\ joined' = IF pinned = "child" THEN areq.ns \cap ChildNamespaces ELSE {}
        /\ UNCHANGED areport
     \/ /\ ~SetnsPermitted
        /\ AttachFailed
        /\ UNCHANGED joined
  /\ UNCHANGED <<rest, pinned, fwdPid>>

\* set_process_limits only warns; /proc/self/oom_score_adj is written if asked.
SetOomScore ==
  /\ \/ /\ apc = "limits"
        /\ apc' = "oom" /\ UNCHANGED areport
     \/ /\ apc = "oom" /\ (areq.oom => ~NoProcSelf)
        /\ apc' = "handlers" /\ UNCHANGED areport
     \/ /\ apc = "oom" /\ areq.oom /\ NoProcSelf
        /\ AttachFailed
  /\ UNCHANGED <<rest, pinned, joined, fwdPid>>

-----------------------------------------------------------------------------
(* fork_and_wait, as the attacher and as the process it forks. *)

AttachHandlers ==
  /\ apc = "handlers"
  /\ apc' = "fork"
  /\ ahandling' = [ahandling EXCEPT !["attacher"] = "forward"]
  /\ UNCHANGED <<containerVars, areq, areport, pinned, joined, fwdPid, forkedVars,
                 grouped, fns, ansig>>

\* Mutated: the process that changed namespaces goes on as the workload, with
\* no fork after setns to enter the pid namespace.
ForkOutside ==
  /\ apc = "fork"
  /\ apc' = "store"
  /\ fpc' = "reset"
  /\ fns' = joined \ {"Pid"}
  /\ grouped' = grouped \cup {"forked" : p \in grouped}
  /\ ahandling' = [ahandling EXCEPT !["forked"] = ahandling["attacher"]]
  /\ UNCHANGED <<containerVars, areq, areport, pinned, joined, fwdPid, fend, attached,
                 ansig>>

\* fork()?: refused in a pid namespace whose first process has ended; the
\* forked process inherits cgroup, dispositions and, now, the pid namespace.
ForkAttached ==
  /\ apc = "fork"
  /\ \/ /\ "Pid" \in joined => ~InitDead
        /\ apc' = "store"
        /\ fpc' = "reset"
        /\ fns' = joined
        /\ grouped' = grouped \cup {"forked" : p \in grouped}
        /\ ahandling' = [ahandling EXCEPT !["forked"] = ahandling["attacher"]]
        /\ UNCHANGED areport
     \/ /\ "Pid" \in joined /\ InitDead
        /\ AttachFailed
        /\ UNCHANGED <<fpc, fns, grouped, ahandling>>
  /\ UNCHANGED <<containerVars, areq, pinned, joined, fwdPid, fend, attached, ansig>>

\* Mutated: the pid is stored in the child's copy of the static.
StoreInForked ==
  /\ apc = "store"
  /\ apc' = "wait"
  /\ UNCHANGED <<rest, areport, pinned, joined, fwdPid>>

StoreAttachedPid ==
  /\ apc = "store"
  /\ apc' = "wait"
  /\ fwdPid' = AttachedPid
  /\ UNCHANGED <<rest, areport, pinned, joined>>

\* Mutated: wait_for_pid goes on waiting until the child has exited by itself.
WaitForExit ==
  /\ apc = "wait"
  /\ fpc = "zombie" /\ fend # Signaled
  /\ apc' = "reap"
  /\ fpc' = "reaped"
  /\ UNCHANGED <<containerVars, areq, areport, pinned, joined, fwdPid, fend, attached,
                 grouped, ahandling, fns, ansig>>

\* wait_for_pid(child)?: an error once the child has ended, if an ignored
\* SIGCHLD was inherited.
WaitAttached ==
  /\ apc = "wait"
  /\ fpc = "zombie"
  /\ fpc' = "reaped"
  /\ \/ apc' = "reap" /\ UNCHANGED areport
     \/ "wait" \in AttachFaults /\ AttachFailed
  /\ UNCHANGED <<containerVars, areq, pinned, joined, fwdPid, fend, attached,
                 grouped, ahandling, fns, ansig>>

\* reap_children, process::exit(exitcode).
ExitWithAttachedCode ==
  /\ apc = "reap"
  /\ apc' = "exited"
  /\ areport' = ExitCodeOf(fend)
  /\ UNCHANGED <<rest, pinned, joined, fwdPid>>

\* A system call of the attacher fails: `?` out of wrap, exit(1) for the
\* handlers.
AttacherError ==
  /\ apc \in {"scan", "pidfd", "setns", "oom", "handlers", "fork"} \cap AttachFaults
  /\ apc = "oom" => areq.oom
  /\ AttachFailed
  /\ UNCHANGED <<rest, pinned, joined, fwdPid>>

AttacherStep ==
  \/ FindChild \/ AttachCgroup \/ OpenPidfd \/ JoinNamespaces \/ SetOomScore
  \/ AttachHandlers \/ ForkAttached \/ StoreAttachedPid \/ WaitAttached
  \/ ExitWithAttachedCode

ForkedEnd(status) ==
  /\ fpc' = "zombie"
  /\ fend' = status
  /\ UNCHANGED attached

\* reset_child_signal_handlers, preexec_prep, execute: each may fail.
ForkedStep ==
  /\ \/ /\ fpc = "reset" /\ fpc' = "prep"
        /\ ahandling' = [ahandling EXCEPT !["forked"] = "default"]
        /\ UNCHANGED <<fend, attached>>
     \/ /\ fpc = "prep" /\ fpc' = "exec"
        /\ UNCHANGED <<fend, attached, ahandling>>
     \/ /\ fpc = "exec" /\ fpc' = "running" /\ attached' = TRUE
        /\ ahandling' = [ahandling EXCEPT !["forked"] = "default"]
        /\ UNCHANGED fend
     \/ /\ fpc \in ForkedSteps \cap AttachFaults
        /\ ForkedEnd(1)
        /\ UNCHANGED ahandling
  /\ UNCHANGED <<containerVars, areq, attacherVars, grouped, fns, ansig>>

\* The attached workload ends when it pleases, or by SIGKILL at any time.
AttachedExit ==
  /\ \/ fpc = "running" /\ \E code \in Codes : ForkedEnd(code)
     \/ ForkedAlive /\ "kill_forked" \in AttachFaults /\ ForkedEnd(Signaled)
  /\ UNCHANGED <<containerVars, areq, attacherVars, grouped, ahandling, fns, ansig>>

-----------------------------------------------------------------------------
(* Signals, kills, and the container. *)

\* forward_signal in the attacher; what it reaches may die of it or handle it.
SignalAttacher ==
  /\ apc \in AttacherSteps
  /\ ansig < MaxAttachSignals
  /\ ansig' = ansig + 1
  /\ \/ /\ ahandling["attacher"] = "default"
        /\ apc' = "killed"
        /\ UNCHANGED forkedVars
     \/ /\ ahandling["attacher"] = "forward"
        /\ fwdPid # 0 /\ ForkedAlive /\ ahandling["forked"] = "default"
        /\ ForkedEnd(Signaled)
        /\ UNCHANGED apc
     \/ /\ ahandling["attacher"] = "forward"
        /\ UNCHANGED <<apc, forkedVars>>
  /\ UNCHANGED <<containerVars, areq, areport, pinned, joined, fwdPid, grouped,
                 ahandling, fns>>

KillAttacher ==
  /\ "kill_attacher" \in AttachFaults
  /\ apc \in AttacherSteps
  /\ apc' = "killed"
  /\ UNCHANGED <<rest, areport, pinned, joined, fwdPid>>

\* An attached process without its attacher is the host's init's to reap.
ReapOrphan ==
  /\ apc \in {"failed", "killed"}
  /\ fpc = "zombie"
  /\ fpc' = "reaped"
  /\ UNCHANGED <<containerVars, areq, attacherVars, fend, attached, grouped, ahandling,
                 fns, ansig>>

\* A step of the container: the end of its pid namespace's first process kills
\* the attached one, and is complete once that one is reaped.
Coupled(step) ==
  /\ step
  /\ cpc = "zombie" /\ cpc' = "reaped" /\ "Pid" \in fns => fpc \in {"none", "reaped"}
  /\ IF ~InitDead /\ cpc' = "zombie" /\ "Pid" \in fns /\ ForkedAlive
       THEN ForkedEnd(Signaled) ELSE UNCHANGED forkedVars
  /\ UNCHANGED <<areq, attacherVars, grouped, ahandling, fns, ansig>>

AttachNext ==
  \/ AttacherStep \/ AttacherError \/ ForkedStep
  \/ AttachedExit \/ SignalAttacher \/ KillAttacher \/ ReapOrphan
  \/ Coupled(SupervisorStep) \/ Coupled(ChildStep) \/ Coupled(Environment)

AttachSpec == Init /\ AttachInit /\ [][AttachNext]_allVars

\* The kernel schedules the four processes and init reaps; no error is owed.
AttachFairSpec ==
  /\ AttachSpec
  /\ WF_allVars(AttacherStep) /\ WF_allVars(ForkedStep) /\ WF_allVars(ReapOrphan)
  /\ WF_allVars(Coupled(SupervisorStep)) /\ WF_allVars(Coupled(ChildStep))
=============================================================================
