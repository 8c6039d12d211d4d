--------------------------- MODULE CreateWrapProps ---------------------------
(***************************************************************************)
(* What CreateWrap is expected to keep, what comments of the repository    *)
(* say and it does not keep, and the invariant its proofs rest on.         *)
(***************************************************************************)
EXTENDS CreateWrap

SupervisorPC == SupervisorSteps \cup SupervisorEnds
ChildPC      == {"none", "running"} \cup ChildSteps \cup ChildEnds
Statuses     == Codes \cup {1, Signaled}

\* Every variable keeps its type.
TypeOK ==
  /\ req \in Requests
  /\ spc \in SupervisorPC /\ report \in Codes \cup {Alive, 1}
  /\ cpc \in ChildPC /\ cend \in Statuses \cup {Alive} /\ launched \in BOOLEAN
  /\ parent_efd \in Nat /\ child_efd \in Nat
  /\ CHILD_PID \in {0, ChildPid}
  /\ handling \in [{"supervisor", "child"} -> {"default", "forward"}]
  /\ userns \in [{"supervisor", "child"} -> {"host", "new"}]
  /\ mntns \in [private : BOOLEAN, owner : {"host", "new"}]
  /\ mounts \subseteq {"rootfs", "console"}
  /\ idmap \subseteq {"uid_map", "setgroups", "gid_map"}
  /\ pid_owner \in {"nobody", "child", "stranger"}
  /\ fates \subseteq {"dropped", "absorbed", "ignored", "delivered", "lethal",
                      "late", "stray"}
  /\ nsig \in 0 .. MaxSignals

\* The child has come back from child_efd.read().
PostRelease == {"pivot_late", "oom", "console", "prep", "exec", "running"}

Configured == Wants("User") => /\ userns["child"] = "new"
                               /\ idmap = WantedFiles

\* No code runs past child_efd.read(), let alone as the workload, before the
\* child is in its own user namespace and prepare_userns has written every
\* file the request asks for: the one guarantee the two eventfds are for.
ConfiguredBeforeExec == cpc \in PostRelease \/ launched => Configured

\* The supervisor that has failed (`?` out of wrap, exit code 1) leaves no
\* workload behind, nor one to come: whoever started it may take 1 to mean
\* that nothing runs.  That a workload was launched and has ended is all that
\* may be: the wait for it failed.
NoLaunchAfterFailure ==
  spc = "failed" => cpc \notin PostRelease /\ (launched => cpc = "reaped")

\* The supervisor's exit code is the child's: 0 says that the workload was
\* launched and ended with 0, and a child that never launched is never 0.
ReportIsChildStatus ==
  /\ spc = "exited" => cpc = "reaped" /\ report = ExitCodeOf(cend)
  /\ report = 0 => launched /\ cend = 0

\* The requests whose procfs the child may mount: with a user namespace made
\* by the first unshare, the pid namespace has to come from there too.
Pivotable == ~TwoStage /\ Wants("User") => Wants("Pid")

\* pivot_fs runs where the kernel lets it mount: in the two-stage mode before
\* the child leaves the user namespace that owns the mount namespace, in the
\* other because one unshare made both, and the pid namespace that the procfs
\* shows with them.  A request without the latter is turned down there, and no
\* other is.
PivotPermitted ==
  cpc \in {"pivot", "pivot_late"} /\ Wants("Mount")
    => mntns.private /\ (MayPivot("child") <=> Pivotable)

\* The requests that prepare_userns can do something about: /proc shows the
\* child, and the kernel takes the maps from the supervisor, which without
\* the second stage is in the new namespace itself and may map its own ids.
Mappable == /\ TwoStage /\ Wants("Pid") => Wants("Mount")
            /\ ~TwoStage => /\ req.uid_map # "other" /\ req.gid_map # "other"
                            /\ req.gid_map = "own" => req.deny

\* Each file that prepare_userns writes is the child's and may be written, in
\* either mode: the child is in its new namespace by then, userns_pid denotes
\* it in the /proc that the supervisor sees, which is the container's if the
\* child has pivoted already, and the files come in the order of the kernel.
ConfigurationPermitted ==
  spc \in {"uid_map", "setgroups", "gid_map"} \cap WantedFiles /\ Mappable
    => WritePermitted(spc)

\* As long as both the launched workload and its supervisor live, a trapped
\* signal has somewhere to go: the handler is installed, CHILD_PID denotes
\* the workload and no handler of styrolite's is left in it.
ForwardingReady ==
  launched /\ ChildAlive /\ spc \in SupervisorSteps
    => /\ handling["supervisor"] = "forward" /\ handling["child"] = "default"
       /\ CHILD_PID = ChildPid /\ pid_owner = "child"

\* Once the child has been let go, nobody rewrites the user namespace under
\* it: neither its id maps nor its membership change any more.
UsernsFrozenOnceReleased ==
  [][child_efd > 0 \/ cpc \in PostRelease
       => idmap' = idmap /\ userns'["child"] = userns["child"]]_vars

\* wrap implements Supervision.
Workload ==
  CASE launched /\ cpc = "running"           -> "running"
    [] launched /\ cpc # "running"           -> "ended"
    [] ~launched /\ cpc \in ChildEnds        -> "stillborn"
    [] OTHER                                 -> "absent"

Outcome == CASE spc = "exited" -> "reported"
             [] spc = "failed" -> "failed"
             [] spc = "killed" -> "killed"
             [] OTHER          -> "pending"

Abstract == INSTANCE Supervision
              WITH workload <- Workload, status <- cend, outcome <- Outcome

\* Every step of wrap is a step of Supervision, or none.
ImplementsSupervision == Abstract!Spec

\* A child that got as far as the handshake and then ended, wherever that
\* was, makes the supervisor end: it never waits for a child it lost.
EndIsReported == cpc = "zombie" /\ parent_efd > 0 ~> spc \in SupervisorEnds

\* "This function should eventually result in an execve": the workload is
\* launched or both processes end, unless the child ended before it asked for
\* its configuration, or the supervisor before it gave the answer.  There is
\* no other way to hang.
WrapResolves ==
  <>(\/ launched
     \/ spc \in SupervisorEnds /\ cpc \in {"none"} \cup ChildEnds
     \/ spc = "await" /\ parent_efd = 0 /\ cpc = "zombie"
     \/ spc \in {"failed", "killed"} /\ child_efd = 0 /\ cpc = "block")

-----------------------------------------------------------------------------
(* What a comment of the repository says, and the code does not keep. *)

\* wrap.rs:516-518: errors bubble up and the exit code is the child's, so the
\* end of the child makes the supervisor end.
ChildEndIsReported == cpc = "zombie" ~> spc \in SupervisorEnds

-----------------------------------------------------------------------------
(* The invariant the proofs use: the properties above are not inductive.    *)

BeforeFork      == {"unshare", "handlers", "eventfds", "fork"}
Configuring     == {"uid_map", "setgroups", "gid_map"}
BeforeHandshake == {"none", "reset", "pivot", "unshare_user", "notify"}
Released        == child_efd > 0 \/ cpc \in PostRelease \/ launched
Asked           == \/ parent_efd > 0 \/ child_efd > 0
                   \/ spc \in Configuring \cup {"release", "wait"}

\* Where the two processes can be at the same time.
ProcessInv ==
  /\ spc \in BeforeFork => cpc = "none"
  /\ cpc = "none" => spc \in BeforeFork \cup {"failed", "killed"}
  /\ launched => cpc \in {"running"} \cup ChildEnds
  /\ cpc = "running" => launched
  /\ ChildAlive => pid_owner = "child"
  /\ spc \in {"reap", "exited"} => cpc = "reaped"
  /\ cpc = "reaped" => spc \in {"reap"} \cup SupervisorEnds

\* What the two exit codes say.
StatusInv ==
  /\ cpc \in ChildEnds => cend # Alive
  /\ cpc \notin ChildEnds => cend = Alive
  /\ ~launched => cend \in {Alive, 1, Signaled}
  /\ spc \in SupervisorSteps \cup {"killed"} => report = Alive
  /\ spc = "failed" => report = 1
  /\ spc = "exited" => report = ExitCodeOf(cend)

\* Tokens and program counters: the supervisor goes on only once the child
\* has asked, the child only once the supervisor has configured it; and it
\* waits for the child from then on, whatever the wait comes to.
HandshakeInv ==
  /\ Asked => cpc \notin BeforeHandshake
  /\ Released => \/ spc \in {"wait", "reap", "exited", "killed"}
                 \/ spc = "failed" /\ cpc = "reaped"

\* Which user namespace the child is in, and how far its maps are written.
UsernsInv ==
  /\ spc = "unshare" => userns["supervisor"] = "host"
  /\ spc \in SupervisorSteps \ {"unshare"} =>
       userns["supervisor"] = IF "User" \in FirstLevelNs THEN "new" ELSE "host"
  /\ TwoStage /\ cpc \in {"reset", "pivot"} => userns["child"] = "host"
  /\ cpc = "pivot_late" => ~TwoStage
  /\ ~TwoStage /\ cpc # "none" =>
       userns["child"] = IF Wants("User") THEN "new" ELSE "host"
  /\ Asked \/ Released \/ cpc \in {"notify", "block"} =>
       (Wants("User") => userns["child"] = "new")
  /\ spc \in BeforeFork \cup {"store", "await", "uid_map"} => idmap = {}
  /\ spc \in Configuring => Wants("User")
  /\ spc = "setgroups" => idmap = WantedFiles \cap {"uid_map"}
  /\ spc = "gid_map" => idmap = WantedFiles \cap {"uid_map", "setgroups"}
  /\ Released \/ spc \in {"release", "wait"} => Configured

\* Who owns the mount namespace.
MountInv ==
  spc \in BeforeFork \ {"unshare"} \/ cpc # "none" =>
    (Wants("Mount") =>
       /\ mntns.private
       /\ mntns.owner = IF "User" \in FirstLevelNs THEN "new" ELSE "host")

\* Where /proc leads the supervisor.
ProcInv ==
  /\ cpc \notin {"none", "reaped"} => pid_owner = "child"
  /\ cpc = "pivot" => TwoStage
  /\ TwoStage /\ Wants("Mount") /\ (Asked \/ cpc \in {"unshare_user", "notify", "block"})
       => "rootfs" \in mounts
  /\ ~TwoStage /\ spc \in BeforeFork \cup {"store", "await", "release"} \cup Configuring
       => "rootfs" \notin mounts

\* Where a signal goes.
SignalInv ==
  /\ spc \in SupervisorSteps \ {"unshare", "handlers"} =>
       handling["supervisor"] = "forward"
  /\ spc \in SupervisorSteps \ (BeforeFork \cup {"store"}) => CHILD_PID = ChildPid
  /\ launched => handling["child"] = "default"

IInv == /\ TypeOK /\ ProcessInv /\ StatusInv /\ HandshakeInv /\ UsernsInv
        /\ MountInv /\ ProcInv /\ SignalInv
=============================================================================
