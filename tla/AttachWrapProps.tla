---------------------------- MODULE AttachWrapProps ----------------------------
(***************************************************************************)
(* What an attach is expected to keep, and to leave intact in the          *)
(* container it joins.                                                     *)
(***************************************************************************)
EXTENDS AttachWrap

\* The namespaces the container was asked for and the attach asks for.
Shared == areq.ns \cap req.ns

\* A workload attached through the child's pidfd is in each namespace that was
\* asked for and the container has, even if the child ends and its pid goes to
\* another process between pidfd_open and setns: the pidfd is what rules out
\* the race that setns's comment speaks of.
InsideContainer == attached /\ pinned = "child" => fns = Shared

\* Joining the user namespace of a two-stage container too is joining it whole:
\* the child leaves the host's user namespace after it has pivoted, and setns
\* refuses the attach before, so that the attached workload never has the
\* host's root in front of it, however early in the set-up the attach comes.
NeverInHostRoot ==
  attached /\ pinned = "child" /\ {"User", "Mount"} \subseteq Shared /\ TwoStage
    => "rootfs" \in mounts

\* An attached workload does not outlive the container whose pid namespace it
\* asked for.
EndsWithContainer ==
  attached /\ pinned = "child" /\ "Pid" \in Shared /\ InitDead => fpc \in ChildEnds

\* The attached workload is accounted to the container's cgroup: the attacher
\* moves before it changes its view of the file system and before it forks.
AccountedWithContainer == attached /\ areq.cgroup = "usable" => "forked" \in grouped

\* Nothing tells the forked process to wait for store_child_pid here, so the
\* workload may run before a signal can reach it; that window closes with the
\* attacher's next step, and from then on a trapped signal reaches it.
AttachForwardingReady ==
  attached /\ ForkedAlive /\ apc \in AttacherSteps \ {"store"}
    => /\ ahandling = [attacher |-> "forward", forked |-> "default"]
       /\ fwdPid = AttachedPid

\* An attach, as Supervision sees it.
AttachedWorkload ==
  CASE attached /\ fpc = "running"       -> "running"
    [] attached /\ fpc # "running"       -> "ended"
    [] ~attached /\ fpc \in ChildEnds    -> "stillborn"
    [] OTHER                             -> "absent"

AttachOutcome == CASE apc = "exited" -> "reported"
                   [] apc = "failed" -> "failed"
                   [] apc = "killed" -> "killed"
                   [] OTHER          -> "pending"

AttachAbstract ==
  INSTANCE Supervision
    WITH workload <- AttachedWorkload, status <- fend, outcome <- AttachOutcome,
         report <- areport

\* Attach promises what create promises: one workload at most, none after it
\* has failed nor left running when it fails, and the exit code of the process
\* it forked, or 1.
AttachImplementsSupervision == AttachAbstract!Spec

\* The kernel holds back the end of the container's child until the attached
\* process is reaped, so three processes wait in a row; the end of the child
\* still reaches its supervisor, because the attacher or init reaps for sure.
EndReachesSupervisor ==
  cpc = "zombie" /\ parent_efd > 0 ~> spc \in SupervisorEnds

\* wrap.rs:896: the process receives the out-of-memory score it was given, so
\* there is a file to write it to.
OomScoreWritable == apc = "oom" /\ areq.oom => ~NoProcSelf

-----------------------------------------------------------------------------
(* The invariant the proofs use, besides IInv of the container. *)

BeforeAttachFork == {"find", "scan", "cgroup", "pidfd", "setns", "limits", "oom",
                     "handlers", "fork"}
BeforeSetns      == {"find", "scan", "cgroup", "pidfd", "setns"}

\* Every variable keeps its type.
AttachTypeOK ==
  /\ areq \in AttachRequests
  /\ apc \in AttacherSteps \cup SupervisorEnds /\ areport \in Codes \cup {Alive, 1}
  /\ fpc \in {"none", "running"} \cup ForkedSteps \cup ChildEnds
  /\ fend \in Statuses \cup {Alive} /\ attached \in BOOLEAN
  /\ ahandling \in [{"attacher", "forked"} -> {"default", "forward"}]

\* Where attacher and forked process can be at the same time.
AttachProcessInv ==
  /\ apc \in BeforeAttachFork => fpc = "none"
  /\ apc = "failed" => fpc \in {"none", "reaped"}
  /\ fpc = "none" => /\ apc \in BeforeAttachFork \cup {"failed", "killed"}
                     /\ ~attached /\ fns = {}
  /\ fpc # "none" => fns = joined
  /\ attached => fpc \in {"running"} \cup ChildEnds
  /\ fpc = "running" => attached
  /\ apc \in {"reap", "exited"} => fpc = "reaped"

\* What their exit codes say.
AttachStatusInv ==
  /\ fpc \in ChildEnds => fend # Alive
  /\ fpc \notin ChildEnds => fend = Alive
  /\ ~attached => fend \in {Alive, 1, Signaled}
  /\ apc \in AttacherSteps \cup {"killed"} => areport = Alive
  /\ apc = "failed" => areport = 1
  /\ apc = "exited" => areport = ExitCodeOf(fend)

\* A child in a user namespace of its own was asked for one and, in the
\* two-stage mode, has pivoted.
RootInv ==
  userns["child"] = "new" =>
    /\ Wants("User")
    /\ TwoStage /\ Wants("Mount") => "rootfs" \in mounts

\* What has been joined, once setns has returned.
JoinInv ==
  (apc \in BeforeAttachFork \ BeforeSetns \/ fpc # "none") /\ pinned = "child" =>
    /\ joined = Shared
    /\ {"User", "Mount"} \subseteq Shared /\ TwoStage => "rootfs" \in mounts

\* The forked process does not outlive the first one of its pid namespace.
NamespaceInv == "Pid" \in fns /\ InitDead => fpc \in ChildEnds

\* Who is in the cgroup.
GroupInv ==
  areq.cgroup = "usable" =>
    /\ apc \in BeforeAttachFork \ {"find", "scan", "cgroup"} => "attacher" \in grouped
    /\ fpc # "none" => "forked" \in grouped

\* Where a signal to the attacher goes.
AttachSignalInv ==
  /\ apc \in {"fork", "store", "wait", "reap"} => ahandling["attacher"] = "forward"
  /\ attached => ahandling["forked"] = "default"
  /\ apc \in {"wait", "reap"} => fwdPid = AttachedPid

AttachIInv == /\ AttachTypeOK /\ AttachProcessInv /\ AttachStatusInv /\ RootInv
              /\ JoinInv /\ NamespaceInv /\ GroupInv /\ AttachSignalInv
=============================================================================
