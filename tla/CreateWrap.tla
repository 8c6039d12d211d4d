------------------------------ MODULE CreateWrap ------------------------------
(***************************************************************************)
(* CreateRequest::wrap (src/src/wrap.rs): the process that the styrolite   *)
(* binary becomes (the supervisor), the child it forks, and the kernel     *)
(* around them.                                                            *)
(*                                                                         *)
(* The supervisor unshares namespaces, forks, waits on the eventfd         *)
(* parent_efd until the child asks for its user namespace to be            *)
(* configured, writes the child's id maps through /proc, wakes the child   *)
(* through the eventfd child_efd and then waits for the child to end,      *)
(* forwarding signals to it meanwhile.  The child pivots into the new root *)
(* (before the handshake in the two-stage mode, after it in the            *)
(* skip_two_stage_userns mode), unshares its user namespace, and execs the *)
(* workload.                                                               *)
(*                                                                         *)
(* A step named in Faults may fail: the system call it makes returns an    *)
(* error and `?` makes the process return from main with exit code 1.      *)
(* "wait" stands for an ignored SIGCHLD that was inherited: the kernel     *)
(* keeps no wait status, and waitpid fails once the child has ended.       *)
(* "kill_child" and "kill_supervisor" in Faults let the environment send   *)
(* SIGKILL.  Everything the kernel refuses for lack of ownership (EPERM)   *)
(* is refused here too, whatever Faults is.                                *)
(***************************************************************************)
EXTENDS Integers

CONSTANTS
  Requests,    \* the requests considered, a subset of Request
  Faults,      \* the steps that may fail, and the kills that may happen
  MaxSignals,  \* bound on the forwarded-class signals sent to the supervisor
  Codes        \* the exit codes a workload may end with

(***************************************************************************)
(* What a request decides about the control flow.  `ns` is target_ns, of   *)
(* which only these three namespaces are ever tested; `skip` is            *)
(* skip_two_stage_userns; deny is setgroups_deny; `console` holds when     *)
(* exec.uid is given and one of the standard streams is a terminal.  Of    *)
(* the mappings, the kernel tells apart one line that maps the caller's    *)
(* own id and nothing else ("own") from any other map.  The Options of the *)
(* source stand here with their defaults applied (all three namespaces, no *)
(* skip, deny).                                                            *)
(***************************************************************************)
Namespace == {"Mount", "Pid", "User"}

Mappings  == {"none", "own", "other"}

Request == [ns : SUBSET Namespace, skip : BOOLEAN, uid_map : Mappings,
            deny : BOOLEAN, gid_map : Mappings, console : BOOLEAN]

SupervisorSteps == {"unshare", "handlers", "eventfds", "fork", "store", "await",
                    "uid_map", "setgroups", "gid_map", "release", "wait", "reap"}
SupervisorEnds  == {"exited",   \* process::exit with the child's code
                    "failed",   \* wrap returned Err (or exit(1) before the fork)
                    "killed"}
ChildSteps == {"reset", "pivot", "unshare_user", "notify", "block",
               "pivot_late", "oom", "console", "prep", "exec"}
ChildEnds  == {"zombie", "reaped"}

Alive    == -1      \* no wait status yet
Signaled == -2      \* WaitStatus::Signaled

InitPid  == 1       \* pid 1 of whichever pid namespace one looks from
ChildPid == 2       \* the child, seen from the supervisor's pid namespace

ASSUME RequestsAssumption == Requests \subseteq Request
ASSUME BoundsAssumption   == MaxSignals \in Nat /\ Codes \subseteq Nat

VARIABLES
  req,        \* the request, fixed
  spc,        \* next step of the supervisor
  report,     \* exit code the supervisor ended with (Alive before)
  cpc,        \* next step of the child ("none" before the fork)
  cend,       \* wait status of the child (Alive before)
  launched,   \* the workload's image has replaced the child's
  parent_efd, \* counter of the eventfd the supervisor reads
  child_efd,  \* counter of the eventfd the child reads
  CHILD_PID,  \* the static of signal.rs, in the supervisor's image
  handling,   \* disposition of the forwarded signals, per process
  userns,     \* the user namespace each process is in
  mntns,      \* the mount namespace both share: private copy? owned by?
  mounts,     \* mounts made in that namespace
  idmap,      \* files of the child's user namespace written so far
  pid_owner,  \* which process ChildPid denotes
  fates,      \* what became of the signals the supervisor trapped
  nsig        \* signals sent to the supervisor so far

supVars   == <<spc, report, CHILD_PID>>
childVars == <<cpc, cend, launched>>
efdVars   == <<parent_efd, child_efd>>
nsVars    == <<userns, mntns, mounts, idmap>>
sigVars   == <<handling, fates, nsig>>

vars == <<req, supVars, childVars, efdVars, nsVars, sigVars, pid_owner>>

Wants(ns)    == ns \in req.ns
TwoStage     == ~req.skip
FirstLevelNs == IF TwoStage THEN req.ns \ {"User"} ELSE req.ns

-----------------------------------------------------------------------------
(* The kernel, as far as wrap meets it. *)

\* CAP_SYS_ADMIN over the user namespace that owns the mount namespace.  A
\* process of the initial user namespace is privileged over its descendants.
MayMount(p) == userns[p] \in {"host", mntns.owner}

\* The user namespace that owns the pid namespace the child starts in.
PidnsOwner == IF {"Pid", "User"} \subseteq FirstLevelNs THEN "new" ELSE "host"

\* pivot_fs mounts a procfs too: that takes CAP_SYS_ADMIN over the owner of
\* the pid namespace besides.
MayPivot(p) == MayMount(p) /\ userns[p] \in {"host", PidnsOwner}

\* The /proc that the supervisor sees: pivot_root moves its root too, and
\* the new procfs was mounted by the child, from the child's pid namespace.
ProcOfChildNs == "rootfs" \in mounts /\ Wants("Pid")

\* The process that /proc/<pid> denotes for the supervisor.
ProcEntry(pid) ==
  IF ProcOfChildNs
    THEN IF pid = InitPid THEN "child" ELSE "nobody"
    ELSE IF pid = InitPid THEN "host_init" ELSE pid_owner

\* A pid namespace's first process ignores the signals it has no handler for,
\* unless they are SIGKILL or SIGSTOP.
ChildIsNsInit == Wants("Pid")

\* The child ends: its wait status is kept until the supervisor reaps it.
ChildEnd(status) ==
  /\ cpc' = "zombie"
  /\ cend' = status
  /\ UNCHANGED launched

-----------------------------------------------------------------------------
(* The supervisor. *)

Init ==
  /\ req \in Requests
  /\ spc = "unshare" /\ report = Alive /\ CHILD_PID = 0
  /\ cpc = "none" /\ cend = Alive /\ launched = FALSE
  /\ parent_efd = 0 /\ child_efd = 0
  /\ handling = [p \in {"supervisor", "child"} |-> "default"]
  /\ userns = [p \in {"supervisor", "child"} |-> "host"]
  /\ mntns = [private |-> FALSE, owner |-> "host"]
  /\ mounts = {} /\ idmap = {}
  /\ pid_owner = "nobody" /\ fates = {} /\ nsig = 0

\* Mutated: the mount namespace is unshared before the user namespace.
UnshareMountFirst ==
  /\ spc = "unshare"
  /\ spc' = "handlers"
  /\ userns' = IF "User" \in FirstLevelNs
                 THEN [userns EXCEPT !["supervisor"] = "new"] ELSE userns
  /\ mntns' = IF Wants("Mount") THEN [private |-> TRUE, owner |-> "host"] ELSE mntns
  /\ UNCHANGED <<req, report, CHILD_PID, childVars, efdVars, mounts, idmap,
                 sigVars, pid_owner>>

\* unshare(first_level_ns)?.  One call: with User in the set, the new user
\* namespace owns the new mount namespace.
UnshareFirstLevel ==
  /\ spc = "unshare"
  /\ spc' = "handlers"
  /\ userns' = IF "User" \in FirstLevelNs
                 THEN [userns EXCEPT !["supervisor"] = "new"] ELSE userns
  /\ mntns' = IF Wants("Mount")
                THEN [private |-> TRUE, owner |-> userns'["supervisor"]] ELSE mntns
  /\ UNCHANGED <<req, report, CHILD_PID, childVars, efdVars, mounts, idmap,
                 sigVars, pid_owner>>

\* setup_parent_signal_handlers: forward_signal is installed before there is
\* a child to forward to.
InstallHandlers ==
  /\ spc = "handlers"
  /\ spc' = "eventfds"
  /\ handling' = [handling EXCEPT !["supervisor"] = "forward"]
  /\ UNCHANGED <<req, report, CHILD_PID, childVars, efdVars, nsVars, fates,
                 nsig, pid_owner>>

\* Two semaphore eventfds, both with initial value 0.
CreateEventfds ==
  /\ spc = "eventfds"
  /\ spc' = "fork"
  /\ parent_efd' = 0 /\ child_efd' = 0
  /\ UNCHANGED <<req, report, CHILD_PID, childVars, nsVars, sigVars, pid_owner>>

\* fork: the child starts with the supervisor's dispositions and namespaces
\* (and, if Pid was unshared, as pid 1 of the new pid namespace).
Fork ==
  /\ spc = "fork"
  /\ spc' = "store"
  /\ cpc' = "reset"
  /\ pid_owner' = "child"
  /\ handling' = [handling EXCEPT !["child"] = handling["supervisor"]]
  /\ userns' = [userns EXCEPT !["child"] = userns["supervisor"]]
  /\ UNCHANGED <<req, report, CHILD_PID, cend, launched, efdVars, mntns, mounts,
                 idmap, fates, nsig>>

\* Mutated: the pid is stored in the child's copy of the static.
StoreInChild ==
  /\ spc = "store"
  /\ spc' = "await"
  /\ UNCHANGED <<req, report, CHILD_PID, childVars, efdVars, nsVars, sigVars, pid_owner>>

StoreChildPid ==
  /\ spc = "store"
  /\ spc' = "await"
  /\ CHILD_PID' = ChildPid
  /\ UNCHANGED <<req, report, childVars, efdVars, nsVars, sigVars, pid_owner>>

\* Mutated: the supervisor reads the eventfd it writes.
AwaitOwnEfd ==
  /\ spc = "await"
  /\ child_efd > 0
  /\ child_efd' = child_efd - 1
  /\ spc' = IF Wants("User") THEN "uid_map" ELSE "release"
  /\ UNCHANGED <<req, report, CHILD_PID, childVars, parent_efd, nsVars, sigVars,
                 pid_owner>>

\* Mutated: the child is let go before prepare_userns.
ReleaseFirst ==
  /\ spc = "await"
  /\ parent_efd > 0
  /\ parent_efd' = parent_efd - 1
  /\ child_efd' = child_efd + 1
  /\ spc' = IF Wants("User") THEN "uid_map" ELSE "wait"
  /\ UNCHANGED <<req, report, CHILD_PID, childVars, nsVars, sigVars, pid_owner>>

\* parent_efd.read(): blocks at 0; a semaphore read takes one.
AwaitChild ==
  /\ spc = "await"
  /\ parent_efd > 0
  /\ parent_efd' = parent_efd - 1
  /\ spc' = IF Wants("User") THEN "uid_map" ELSE "release"
  /\ UNCHANGED <<req, report, CHILD_PID, childVars, child_efd, nsVars, sigVars,
                 pid_owner>>

-----------------------------------------------------------------------------
(* prepare_userns: up to three files under /proc/<userns_pid>. *)

\* Mutated: the pid that fork returned, in every mode.
ForkedPid == ChildPid

UsernsPid == IF TwoStage /\ Wants("Pid") THEN InitPid ELSE ChildPid

\* The files the request asks for, in the order of the source.
WantedFiles == {f \in {"uid_map", "setgroups", "gid_map"} :
                  \/ f = "uid_map"   /\ req.uid_map # "none"
                  \/ f = "setgroups" /\ req.deny
                  \/ f = "gid_map"   /\ req.gid_map # "none"}

\* What the kernel allows: the target's namespace must be a new one (the
\* initial namespace's maps are set for good), and setgroups only before
\* gid_map.  A writer without capabilities over the parent namespace may map
\* its own id and no other, and its own gid only once setgroups is denied.
WritePermitted(file) ==
  /\ ProcEntry(UsernsPid) = "child"
  /\ userns["child"] = "new"
  /\ file = "setgroups" => "gid_map" \notin idmap
  /\ file = "uid_map" => userns["supervisor"] = "host" \/ req.uid_map = "own"
  /\ file = "gid_map" => \/ userns["supervisor"] = "host"
                         \/ req.gid_map = "own" /\ "setgroups" \in idmap

NextFile(file) == CASE file = "uid_map"   -> "setgroups"
                    [] file = "setgroups" -> "gid_map"
                    [] file = "gid_map"   -> "release"

PrepareUserns(file) ==
  /\ spc = file
  /\ \/ /\ file \in WantedFiles
        /\ WritePermitted(file)
        /\ idmap' = idmap \cup {file}
        /\ spc' = NextFile(file)
        /\ UNCHANGED report
     \/ /\ file \in WantedFiles
        /\ ~WritePermitted(file)
        /\ spc' = "failed" /\ report' = 1
        /\ UNCHANGED idmap
     \/ /\ file \notin WantedFiles
        /\ spc' = NextFile(file)
        /\ UNCHANGED <<idmap, report>>
  /\ UNCHANGED <<req, CHILD_PID, childVars, efdVars, userns, mntns, mounts,
                 sigVars, pid_owner>>

\* child_efd.write(1).
Release ==
  /\ spc = "release"
  /\ spc' = "wait"
  /\ child_efd' = child_efd + 1
  /\ UNCHANGED <<req, report, CHILD_PID, childVars, parent_efd, nsVars, sigVars,
                 pid_owner>>

-----------------------------------------------------------------------------
(* wait_for_pid, reap_children, process::exit. *)

\* Mutated: a signaled child counts as success.
ZeroIfSignaled(status) == IF status = Signaled THEN 0 ELSE status

ExitCodeOf(status) == IF status = Signaled THEN 1 ELSE status

\* waitpid returns: the pid is free from here on, but stays in CHILD_PID.  It
\* fails when no status was kept, and then the child's code is lost: `?`.
WaitChild ==
  /\ spc = "wait"
  /\ cpc = "zombie"
  /\ cpc' = "reaped"
  /\ pid_owner' = "nobody"
  /\ \/ spc' = "reap" /\ UNCHANGED report
     \/ "wait" \in Faults /\ spc' = "failed" /\ report' = 1
  /\ UNCHANGED <<req, CHILD_PID, cend, launched, efdVars, nsVars, sigVars>>

\* reap_children finds no other child; the supervisor exits with the code.
ExitWithChildCode ==
  /\ spc = "reap"
  /\ spc' = "exited"
  /\ report' = ExitCodeOf(cend)
  /\ UNCHANGED <<req, CHILD_PID, childVars, efdVars, nsVars, sigVars, pid_owner>>

\* Any other step whose system call fails: `?` out of wrap, or exit(1).
FallibleSupervisorSteps == {"unshare", "handlers", "eventfds", "fork", "await",
                            "uid_map", "setgroups", "gid_map", "release"}

SupervisorError ==
  /\ spc \in FallibleSupervisorSteps \cap Faults
  /\ spc \in {"uid_map", "setgroups", "gid_map"} => spc \in WantedFiles
  /\ spc' = "failed" /\ report' = 1
  /\ UNCHANGED <<req, CHILD_PID, childVars, efdVars, nsVars, sigVars, pid_owner>>

SupervisorStep ==
  \/ UnshareFirstLevel \/ InstallHandlers \/ CreateEventfds \/ Fork
  \/ StoreChildPid \/ AwaitChild
  \/ \E file \in {"uid_map", "setgroups", "gid_map"} : PrepareUserns(file)
  \/ Release \/ WaitChild \/ ExitWithChildCode

-----------------------------------------------------------------------------
(* The child. *)

\* reset_child_signal_handlers; the two modes part here.
ResetHandlers ==
  /\ cpc = "reset"
  /\ cpc' = IF TwoStage THEN "pivot" ELSE "notify"
  /\ handling' = [handling EXCEPT !["child"] = "default"]
  /\ UNCHANGED <<req, supVars, cend, launched, efdVars, nsVars, fates, nsig,
                 pid_owner>>

\* pivot_fs, early in the two-stage mode and late in the other; without a
\* mount namespace it is skipped with a warning.
PivotFs(step, next) ==
  /\ cpc = step
  /\ \/ /\ Wants("Mount") /\ MayPivot("child")
        /\ cpc' = next
        /\ mounts' = mounts \cup {"rootfs"}
        /\ UNCHANGED <<cend, launched>>
     \/ /\ Wants("Mount") /\ ~MayPivot("child")
        /\ ChildEnd(1)
        /\ UNCHANGED mounts
     \/ /\ ~Wants("Mount")
        /\ cpc' = next
        /\ UNCHANGED <<cend, launched, mounts>>
  /\ UNCHANGED <<req, supVars, efdVars, userns, mntns, idmap, sigVars, pid_owner>>

\* unshare({User})?, in the two-stage mode only.
UnshareUser ==
  /\ cpc = "unshare_user"
  /\ cpc' = "notify"
  /\ userns' = IF Wants("User") THEN [userns EXCEPT !["child"] = "new"] ELSE userns
  /\ UNCHANGED <<req, supVars, cend, launched, efdVars, mntns, mounts, idmap,
                 sigVars, pid_owner>>

\* parent_efd.write(2).
NotifySupervisor ==
  /\ cpc = "notify"
  /\ cpc' = "block"
  /\ parent_efd' = parent_efd + 2
  /\ UNCHANGED <<req, supVars, cend, launched, child_efd, nsVars, sigVars, pid_owner>>

\* Mutated: the child reads parent_efd, its own request.
AwaitOwnRequest ==
  /\ cpc = "block"
  /\ parent_efd > 0
  /\ parent_efd' = parent_efd - 1
  /\ cpc' = IF TwoStage THEN "oom" ELSE "pivot_late"
  /\ UNCHANGED <<req, supVars, cend, launched, child_efd, nsVars, sigVars, pid_owner>>

\* child_efd.read().
AwaitRelease ==
  /\ cpc = "block"
  /\ child_efd > 0
  /\ child_efd' = child_efd - 1
  /\ cpc' = IF TwoStage THEN "oom" ELSE "pivot_late"
  /\ UNCHANGED <<req, supVars, cend, launched, parent_efd, nsVars, sigVars, pid_owner>>

\* oom_score_adj, then preexec_prep: of no consequence here beyond failing.
FinalPrep ==
  /\ \/ cpc = "oom" /\ cpc' = "console"
     \/ cpc = "prep" /\ cpc' = "exec"
  /\ UNCHANGED <<req, supVars, cend, launched, efdVars, nsVars, sigVars, pid_owner>>

\* setup_console: a bind mount over /dev/console, in whatever mount namespace
\* the child is in.
SetupConsole ==
  /\ cpc = "console"
  /\ \/ /\ req.console /\ MayMount("child")
        /\ cpc' = "prep"
        /\ mounts' = mounts \cup {"console"}
        /\ UNCHANGED <<cend, launched>>
     \/ /\ req.console /\ ~MayMount("child")
        /\ ChildEnd(1)
        /\ UNCHANGED mounts
     \/ /\ ~req.console
        /\ cpc' = "prep"
        /\ UNCHANGED <<cend, launched, mounts>>
  /\ UNCHANGED <<req, supVars, efdVars, userns, mntns, idmap, sigVars, pid_owner>>

\* execvpe succeeds; handlers do not survive it.
Execute ==
  /\ cpc = "exec"
  /\ cpc' = "running"
  /\ launched' = TRUE
  /\ handling' = [handling EXCEPT !["child"] = "default"]
  /\ UNCHANGED <<req, supVars, cend, efdVars, nsVars, fates, nsig, pid_owner>>

\* A failing call in the child: `?` out of wrap and out of main, exit code 1.
FallibleChildSteps == {"reset", "pivot", "unshare_user", "notify", "block",
                       "pivot_late", "oom", "console", "prep", "exec"}

ChildError ==
  /\ cpc \in FallibleChildSteps \cap Faults
  /\ cpc \in {"pivot", "pivot_late"} => Wants("Mount")
  /\ cpc = "unshare_user" => Wants("User")
  /\ cpc = "console" => req.console
  /\ ChildEnd(1)
  /\ UNCHANGED <<req, supVars, efdVars, nsVars, sigVars, pid_owner>>

ChildStep ==
  \/ ResetHandlers
  \/ PivotFs("pivot", "unshare_user") \/ PivotFs("pivot_late", "oom")
  \/ UnshareUser \/ NotifySupervisor \/ AwaitRelease \/ FinalPrep \/ SetupConsole
  \/ Execute

\* The workload ends when it pleases.
WorkloadExit ==
  /\ cpc = "running"
  /\ \E code \in Codes : ChildEnd(code)
  /\ UNCHANGED <<req, supVars, efdVars, nsVars, sigVars, pid_owner>>

-----------------------------------------------------------------------------
(* Signals.  The handler runs on the supervisor's only thread and restarts *)
(* the call it interrupted (SA_RESTART).                                   *)

ChildAlive == cpc \in ChildSteps \cup {"running"}

\* What kill(CHILD_PID, sig) does.  A workload without a handler for the
\* signal dies of it, unless it is the first of its pid namespace.
Kill ==
  CASE pid_owner = "stranger" -> fates' = fates \cup {"stray"} /\ UNCHANGED childVars
    [] pid_owner # "stranger" /\ ~ChildAlive ->
         fates' = fates \cup {"late"} /\ UNCHANGED childVars
    [] pid_owner # "stranger" /\ ChildAlive /\ handling["child"] = "forward" ->
         fates' = fates \cup {"absorbed"} /\ UNCHANGED childVars
    [] OTHER ->
         \/ /\ cpc = "running"
            /\ fates' = fates \cup {"delivered"} /\ UNCHANGED childVars
         \/ /\ ChildIsNsInit
            /\ fates' = fates \cup {"ignored"} /\ UNCHANGED childVars
         \/ /\ ~ChildIsNsInit
            /\ fates' = fates \cup {"lethal"} /\ ChildEnd(Signaled)

\* forward_signal, or the default disposition before it is installed.
SignalSupervisor ==
  /\ spc \in SupervisorSteps
  /\ nsig < MaxSignals
  /\ nsig' = nsig + 1
  /\ \/ /\ handling["supervisor"] = "default"
        /\ spc' = "killed"
        /\ UNCHANGED <<fates, childVars>>
     \/ /\ handling["supervisor"] = "forward" /\ CHILD_PID = 0
        /\ fates' = fates \cup {"dropped"}
        /\ UNCHANGED <<spc, childVars>>
     \/ /\ handling["supervisor"] = "forward" /\ CHILD_PID # 0
        /\ Kill
        /\ UNCHANGED spc
  /\ UNCHANGED <<req, report, CHILD_PID, efdVars, nsVars, handling, pid_owner>>

\* SIGKILL from elsewhere (the out-of-memory killer, an operator).
KillSupervisor ==
  /\ "kill_supervisor" \in Faults
  /\ spc \in SupervisorSteps
  /\ spc' = "killed"
  /\ UNCHANGED <<req, report, CHILD_PID, childVars, efdVars, nsVars, sigVars, pid_owner>>

KillChild ==
  /\ "kill_child" \in Faults
  /\ ChildAlive
  /\ ChildEnd(Signaled)
  /\ UNCHANGED <<req, supVars, efdVars, nsVars, sigVars, pid_owner>>

\* The kernel hands a freed pid to an unrelated process.
RecyclePid ==
  /\ "recycle_pid" \in Faults
  /\ cpc = "reaped" /\ pid_owner = "nobody"
  /\ pid_owner' = "stranger"
  /\ UNCHANGED <<req, supVars, childVars, efdVars, nsVars, sigVars>>

\* What is not for the two processes to decide, failing calls included.
Environment == WorkloadExit \/ SignalSupervisor \/ KillSupervisor \/ KillChild
               \/ RecyclePid \/ SupervisorError \/ ChildError

Next == SupervisorStep \/ ChildStep \/ Environment

Spec == Init /\ [][Next]_vars

\* The kernel schedules both processes; neither the environment nor an error is
\* owed to anyone, so that none ends a wait which would not end without.
Fairness == WF_vars(SupervisorStep) /\ WF_vars(ChildStep)

FairSpec == Spec /\ Fairness
=============================================================================
