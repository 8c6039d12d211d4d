# styrolite in TLA+

Specifications of [styrolite](../src/README.md), the sandboxing tool that turns
a JSON request into a workload running in its own namespaces. The modules are
translated from the sources under `src/`; paths below are relative to
`src/src/` unless they say otherwise. Kernel behaviour that the code relies on
is modelled as far as the code meets it and is marked external in
`PROJECT.json`.

## The system

| part | where | state it keeps | operations | talks to |
|---|---|---|---|---|
| create | `wrap.rs` 163-680, `signal.rs`, `unshare.rs`, `namespace.rs` | two processes (supervisor, child), two eventfds, `CHILD_PID`, signal dispositions, namespaces, id maps | `CreateRequest::wrap` and what it calls | eventfds, `/proc/<pid>/*`, signals, `waitpid` |
| before execve | `wrap.rs` 682-1113, `caps.rs`, `seccomp.rs`, `apparmor.rs` | the process's ids, groups, capability sets, secure bits | `preexec_prep`, `ExecutableSpec::execute` | `prctl`, `capset`, `setuid`, `execve` |
| capability words | `caps.rs` | words of 32 and of 64 bits | `get_caps`, `set_bits`, `clear_bits`, `set_caps` | `capget`, `capset` |
| mount tree | `wrap.rs` 332-507, 911-918, `mount.rs` | the child's copy of the mount tree | `pivot_fs`, `MountSpec::mount/seal/pivot`, `mask_path`, `make_readonly` | `mount`, `mount_setattr`, `pivot_root` |
| attach | `wrap.rs` 83-148, 821-908, `unshare.rs` | two more processes (attacher, forked), a pidfd, the attacher's namespaces, cgroup and `CHILD_PID` | `AttachRequest::wrap`, `first_child_pid_of`, `attach_cgroup`, `setns`, `fork_and_wait` | the container's processes, through `/proc`, pidfd and the pid namespace |
| cgroups, limits | `cgroup.rs`, `wrap.rs` 42-64, 210-330, 776-860 | directories of the cgroup tree, shared by all styrolite processes; rlimits | `prepare_cgroup`, `attach_cgroup`, `CGroup::*`, `set_process_limits` | cgroupfs, `setrlimit` |
| builders | `runner.rs` 16-372, `config.rs` | a request under construction | the builder methods | |
| runner | `runner.rs` 374-479 | a temporary file | `Runner::run`, `run_async`, `exec` | the `styrolite` process, through the file and its exit status |
| `styrolite` | `src/bin/styrolite.rs` | what it has read of the request | `main` | the runner's file; `wrap` |
| `styrojail` | `src/bin/styrojail.rs` | a command line, a builder | `main`, `parse_mount`, `build_mounts`, ... | builder, `Runner::exec` |

The hard parts:

* Two processes hand over to each other twice through semaphore eventfds while
  either may fail, be killed or be signalled; whatever one of them does not
  write, the other waits for without end, because each process holds both
  descriptors.
* In the two-stage mode the child pivots *before* the handshake and only then
  leaves the initial user namespace; with `skip_two_stage_userns` it pivots
  *after* it. What may be mounted, and what `/proc` shows the supervisor,
  depends on that order.
* The signal handler reads a static that is written after the fork and never
  cleared.
* Each step of `preexec_prep` may take away the privilege that a later one
  needs, and some refusals are errors while others are warnings.
* `pivot_fs` stacks mounts, masks and read-only binds on top of each other in an
  order that the request decides.
* An attach finds the container by a pid and meets it at any moment of its
  life; afterwards the kernel couples the two: the attached process dies with
  the container's first one, which in turn cannot be reaped before it.
* Cgroup directories outlive containers, are shared by containers of the same
  identity, and every error about them is only a warning.
* The runner's file is deleted by a destructor, which a cancelled future, a
  kill or an `exec` runs too early or never.

## Modules

| module | what it is |
|---|---|
| `CreateWrap` | `CreateRequest::wrap`: supervisor, child, signals, kills |
| `CreateWrapProps` | its properties, and the inductive invariant `IInv` |
| `Supervision` | abstract: what a styrolite process promises the one that started it |
| `CreateWrapProofs` | theorems about `CreateWrap`, including that it implements `Supervision` |
| `Preexec` | `preexec_prep` and `execute`, shared by create and attach |
| `PreexecProps`, `PreexecProofs` | its properties, invariant and theorems |
| `CapWords` | the capability sets as the words they travel in, from the names given to the builder on: the `ParseNames` and `Capset` steps of `Preexec`, bit by bit |
| `CapWordsProofs` | theorems about the words, for every width |
| `PivotFs`, `PivotFsProps` | `pivot_fs` and `mount.rs`: the `PivotFs` step of `CreateWrap`, mount by mount; its properties and the invariant `IInv` |
| `PivotFsProofs` | theorems about `pivot_fs`, for every tree and every request |
| `AttachWrap`, `AttachWrapProps` | `AttachRequest::wrap`, composed with all of `CreateWrap` for the container that it joins; implements `Supervision` too |
| `AttachWrapProofs` | theorems about the composition, on top of `CreateWrapProofs` |
| `Resources`, `ResourcesProofs` | cgroups and rlimits, for several styrolite processes in one hierarchy; its theorems |
| `Builder` | the operators that the builder methods are, used by `CapWords` and `Jail` |
| `Runner`, `RunnerProofs` | `Runner` and the `styrolite` binary around their file; what the binary does after parsing is `Supervision` |
| `Jail`, `JailProofs` | `styrojail`, composed with `Builder` and with `PivotFs`; its theorems, on top of `PivotFsProofs` |
| `MC*` | the instances for TLC: requests, callers, trees and faults |

How they fit: `Jail` (or any caller) fills a request with `Builder` and hands it
to `Runner`, whose binary behaves as `Supervision`; `CreateWrap` and `AttachWrap`
implement `Supervision`; `Resources`, `PivotFs`, `Preexec` and `CapWords` are
what single steps of those two do in detail.

Operators preceded by "Mutated:" are not part of the specifications. Each is a
plausible slip in the definition that follows it, and `PROJECT.json` pairs it
with the property that notices.

### CreateWrap

`spc` and `cpc` are the next steps of supervisor and child; a step is a system
call together with the code up to the next one. `parent_efd` and `child_efd`
are the eventfd counters (`write(2)` adds two, a semaphore read takes one).
`CHILD_PID`, `handling` (signal dispositions) and `fates` (what became of the
signals) are `signal.rs`. `userns`, `mntns`, `mounts` and `idmap` are the
namespaces: who is in which user namespace, which user namespace owns the mount
namespace, what has been mounted, which files of the user namespace are
written. `pid_owner` says which process the child's pid denotes.

| action | code |
|---|---|
| `UnshareFirstLevel` ... `StoreChildPid` | `wrap.rs` 555-583; hostname, boot time and limits, which only warn, are part of the first |
| `AwaitChild`, `PrepareUserns`, `Release` | 586-605, 187-208 |
| `WaitChild`, `ExitWithChildCode` | 607-613 with `wait_for_pid`, `reap_children` |
| `ResetHandlers`, `PivotFs`, `UnshareUser`, `NotifySupervisor`, `AwaitRelease` | 618-661 |
| `FinalPrep`, `SetupConsole`, `Execute` | 663-678, 966-1020 |
| `SupervisorError`, `ChildError`, and an alternative of `WaitChild` | every `?` and `exit(1)`; which steps may fail is the constant `Faults` |
| `SignalSupervisor` | `forward_signal`, or the default disposition before it is installed |
| `WorkloadExit`, `KillSupervisor`, `KillChild`, `RecyclePid` | the environment |

`PivotFs` and `FinalPrep` are one step here and a module each of their own
(`PivotFs`, `Preexec`): the supervisor cannot tell their parts apart.

The kernel's rules on user namespaces decide two of the steps. `MayPivot`: a mount
takes rights over the owner of the mount namespace, and the procfs that `pivot_fs`
mounts takes them over the owner of the pid namespace as well, which the test
comment at `wrap.rs` 1240 mentions. `WritePermitted`: from the host's user
namespace any map may be written; with `skip_two_stage_userns` the supervisor is
in the new namespace itself, and the kernel takes a single line that maps its own
id (`"own"` in `Mappings`), for groups only once `setgroups` is denied. Mappings
are told apart no further.

`"wait"` in `Faults` stands for a supervisor that was started with `SIGCHLD`
ignored, the one way in which `waitpid` fails here: it returns `ECHILD` once the
child is gone, the `?` at 607 makes that exit code 1, and the child's own status
is lost. The model gives the child's pid back at the wait and not at the child's
end in that case too.

### Preexec

One process, one system call per action, in the order of the source: secure
bits, gid, groups, uid, names, bounding set, capset, ambient set,
`no_new_privs`, filter, execve. `cred` is the process's credentials with the
kernel's rules (what `setuid` clears, what `capset` refuses, what `execve`
makes of the sets). Names come out of a `HashSet`, so the loops run in any
order. `failed` is an error the model can account for, `not_executed` any other
(a working directory that is not there, a rejected filter, a missing
executable).

### PivotFs

`tree` is the mount tree as seen from the new root: for each path, the mount
that covers it (`view`) and what is there (`kind`). Mounts are only added, so
this is enough. Each of the function's own mounts is a `MountSpec` record,
passed to `Mount`, which creates the mount point, mounts and sets the
attributes as `MountSpec::mount` does. The lists of the request are walked with
an index; `given` keeps the tree as it came.

Any of the three parts may fail (`MountFails`), and what the earlier ones did
stays (`LeftBehind`). What the kernel refuses are three constants: `Refused`, what
cannot be mounted at all (a source that is not there, a file system that the
kernel lacks or does not let this caller mount); `Locked`, what has mounts below
it from a more privileged user namespace, so that it can be bound only
recursively; `Unsettable`, what `mount_setattr` is refused on. `mount` and
`mount_setattr` are one step since no other process looks at the tree between
them. `LstatFails` is `ENOTDIR`: a masked or read-only path below a file is an
error, where one that is not there is skipped.

A mutation's target is pushed onto the rootfs as a path, so that an absolute one
replaces it: `MutateOldRoot` makes the directory in the old root, which shows in
the container's tree only where the container's root is a bind of it. The rest of
that tree is not modelled, and whether the directory can be made there is left
open.

### CapWords

The builder's calls (`PushCapability`), `names_as_bits` for all three lists, then
`cap_data_to_result`, the bit operations and `cap_result_to_data` over words of
`W` bits. A word is the function of its bits, from `0 .. W-1` to `BOOLEAN`, and
one of twice the width for a `u64`; `Or`, `And`, `Not`, the shifts and the two
casts are Rust's operators on them, bits that are shifted out included. `CapsOf`
reads the two words as the kernel does; `asked` remembers what the builder was
told.

### AttachWrap

Extends `CreateWrapProps`: the container's variables and steps are those of
`CreateWrap`, wrapped in `Coupled`, which adds what the kernel does to the
attached process when the container's first process ends, and holds back the
reaping of the latter. `apc` is the attacher's next step, `fpc` the forked
process's; `pinned` is what the pidfd denotes, `joined` the namespaces the
attacher's children are born in, `fns` those the forked process is in, `grouped`
who is in the container's cgroup.

| action | code |
|---|---|
| `FindChild` | `wrap.rs` 110-148: the `children` file, then the scan of `/proc` |
| `AttachCgroup` | 834-860, with the warning at 884 |
| `OpenPidfd`, `JoinNamespaces` | `unshare.rs` 22-55 |
| `SetOomScore` | `wrap.rs` 891-899 |
| `AttachHandlers` ... `ExitWithAttachedCode` | `fork_and_wait`, the parent's side |
| `ForkedStep` | its child's side, `preexec_prep` and `execute` as one step each |
| `AttacherError`, and an alternative of `WaitAttached` | every `?`, those of the scan of `/proc` included; a failing `waitpid` as in `CreateWrap` |
| `AttachedExit`, `SignalAttacher`, `KillAttacher`, `ReapOrphan` | the environment |

### Resources

A set of processes, each with a create or an attach request. `group` says which
group each is in, `exists` which groups there are, `subtree` which controllers
each has enabled, `value` who wrote each limit file last (`"stale"` for an
earlier container). The kernel's part is `MayEnable` and `MayBind`: controllers
have to be available, and a group other than the root has either processes or
controllers enabled for its children. `warned` is what the log says.

The code refuses a key by its spelling (`cgroup.` in front) and then joins it to
the group's directory as a path. `PathOf` says of the keys that are paths where
they lead: to a control file of the same group, or of another one in the same
base. `LeadsTo` resolves a key, `Writable` and `Write` are the file it comes to.
Keys that lead to the base itself or out of the hierarchy, and to control files
other than `cgroup.subtree_control`, are left out.

### Runner

`rpc` is the caller's next step, `spc` the binary's, `file` how much of the
request the temporary file holds. `WriteConfig` may leave a `"partial"` file: the
`BufWriter` writes its rest when it is dropped and loses the error.
`CancelRun` drops the future of `run_async` at its await, which deletes the file
and leaves the process. `BinaryCode` is the wait status. Both halves of `status()`
may fail: `ReturnCode` has the wait that finds no status (a caller that ignores
`SIGCHLD`), `StartBinary` the error of tokio's `spawn` that comes when the process
is there and cannot be watched (`"watch"`), which leaves it running.

### Builder and Jail

A request under construction is a function on the fields given so far, so that
`None` and an empty list differ. `Jail` parses (`parse_mount`,
`parse_resource_limit`), queues the mounts (`build_mounts`), pushes mounts and
limits one at a time and then runs `PivotFs` on the request, on trees where the
host's directories are the file systems below. `current_dir` is asked for twice:
it fails if the directory is gone, and `build_mounts` fails if its name is no
UTF-8, while `main` takes `/` in that case. Every bind is made with `recurse:
false`, in a user namespace that `styrojail` has just made: sources with mounts
below them are `Locked`.

## Runs

`tlc -config X.cfg M`; PROJECT.json lists every run with its properties.

| cfg (module) | states | what it shows |
|---|---|---|
| `CreateWrap` (`MCCreateWrap`) | 270,365 | see below |
| `Preexec` (`MCPreexec`) | 509,864 | see below |
| `PivotFs` (`MCPivotFs`) | 372,880 | see below |
| `CapWords` (`MCCapWords`) | 151,408 | see below |
| `AttachWrap` (`MCAttachWrap`) | 426,626 | see below |
| `Resources` (`MCResources`) | 179,336 | see below |
| `Runner` (`MCRunner`) | 355 | see below |
| `Jail` (`MCJail`) | 36,529 | see below |
| `EarlyChildError` (`MCCreateWrap`), `AttachOom` (`MCAttachWrap`), `RlimitsCut` (`MCResources`), `JailEmptiesFile` (`MCJail`) | | disagreements between code and comments, below |

**CreateWrap.** All combinations of the three namespaces that the code tests,
both modes, mappings of the own id, of others or none, `setgroups_deny`, with and
without a console; every step may fail; supervisor and child may be killed; two forwarded
signals; the child's pid may be given away once it is free. Two signals are
enough for one to be lost and one to arrive, or for one before and one after any
step; two exit codes tell a code from the fixed 1 and from success. Requests
without `User` are taken without mappings, which nothing reads in that case, and
in the two-stage mode, where the writer is privileged, one kind of map is enough.

* `ConfiguredBeforeExec`, `UsernsFrozenOnceReleased`: the handshake does what it
  is for.
* `PivotPermitted`, `ConfigurationPermitted`: what the two processes ask of the
  kernel is in its power to grant at that moment, in both modes, and to which
  requests it is not: those that skip the second stage and keep the host's pid
  namespace (`Pivotable`), or ask for maps that an unprivileged writer may not
  write (`Mappable`).
* `ImplementsSupervision`: what a caller may conclude from the exit code. It
  contains that a supervisor that failed leaves no workload running and launches
  none, and that 0 is only ever a workload's own 0 (`NoLaunchAfterFailure` and
  `ReportIsChildStatus`, which have theorems of their own). 1 says less: a
  workload's own 1, a set-up that failed, or a workload that ended and whose
  status was lost.
* `ForwardingReady`: from the launch on, signals reach the workload.
* `IInv`: the inductive invariant of the proofs, type correctness included.
* `EndIsReported`, `WrapResolves`: progress. `WrapResolves` names the only two
  ways to hang: the child ended before it wrote to `parent_efd`, or the
  supervisor before it wrote to `child_efd`.

**Preexec.** Three capabilities (those the steps themselves need), each in any
combination of the three lists, `ALL` and an unknown name; five kinds of caller
(root of a new user namespace, with ambient capabilities, with a reduced
bounding set, without privileges, with privileges for ids only); ids mapped and
not mapped. Capabilities other than the three behave like any of them.

* `WorkloadCapabilities`: the four capability sets after `execve`, as a function
  of request and caller; `DroppedForGood`: a dropped capability is in none of
  them, the bounding set included.
* `IdentityAssumed`: ids and groups are those asked for, if the caller could set
  them; `FailsOnlyForCause`: the list of reasons why the sequence may fail.

**PivotFs.** Nine paths (a directory with three levels below it, `/proc` with a
file and a directory, the staging directory), four trees (plain, with a mount
of its own, without `/proc`, nearly empty and without the staging directory),
all lists of up to two of eight mount specifications (recursive bind, read-only
bind, a bind over `/`, a tmpfs, a file bind with and without creation, one over
`/proc/sys`, one with `unshare`), a mutation, four mask lists and two read-only
lists. Two mounts are enough for one to cover another; two masks for one to lie
in the other. Besides, one at a time, a source that is not there, one that is
locked, bound recursively or not, and one whose attributes cannot be set, with
and without attributes to set; with these, absolute mutations, masks and
read-only paths below a file, and rootfs paths that are missing or lead nowhere.

* `NothingEscapes`: no mount reaches the host (it says nothing of the directory
  that an absolute mutation makes there); `MaskedPathsHidden`,
  `ReadonlyPathsHold`: what masks and read-only paths promise holds in the final
  tree, whatever was mounted on what; `RootSealed`, `MountFlagsHold`: the root
  and every mount have the attributes asked for, or `pivot_fs` has failed.
* `PivotFailsOnlyForCause`: the list of reasons why `pivot_fs` may fail: a rootfs
  that is missing, not writable or without `/proc`; a mount of its own that the
  kernel refuses, or `mount_setattr` on it; a read-only root that has more to
  take than it can; a file where a directory has to be, above the staging
  directory too; a mount that does not ask for its mount point, or that the
  kernel refuses, whole or for its attributes, a locked source that is not bound
  recursively among them; an absolute mutation; a masked or read-only path below
  what may be a file. Three causes do not occur in the instances (a rootfs that is
  not writable, a refusal of one of the function's own mounts, a file above the
  staging directory); the theorem covers them.

**CapWords.** Words of two bits, three known capabilities (one in the high word)
and an unknown one, up to three builder calls with five names: two spellings of
the same capability, one of the high word, `all`, an unknown one. Three calls
are enough to name a capability in all three lists, or twice in one. Every
initial effective set.

* `WordsAreSets`: what the kernel is told is `(effective \ drop) u raise` in all
  three sets and both words, whatever the order; `UnknownNameChangesNothing`.

**AttachWrap.** Containers with all three namespaces in both modes and one
without `Pid`; attaches to none, to `Pid`, to `Mount` and `Pid`, to all; with a
usable, a refused and no cgroup; an out-of-memory score. The container's child
may fail in `pivot_fs`, its supervisor in `uid_map`, either may be killed, the
pid may be recycled; every step of the attach may fail, both of its processes be
killed, one signal be sent. One signal is enough: forwarding has no memory.

* `InsideContainer`, `NeverInHostRoot`, `EndsWithContainer`,
  `AccountedWithContainer`: where the attached workload is.
* `AttachForwardingReady`, `AttachImplementsSupervision`: signals and exit code.
* `EndReachesSupervisor`: four processes, three of them waiting for the next.

**Resources.** Two creates and an attach to the first at the same time, in a root
hierarchy (`cpu` and `memory`) and in a delegated one (`memory`); nine kinds of
create (no cgroup, the base, one or two limits, a reserved key by its name and by
a path to its own and to another's group, a controller that is never enabled, a
missing path), three of attach; a group left over under
the second process's pid; every file operation may fail. Two creates are enough
for one to change a file between two steps of the other.

* `NoSilentShortfall`, `AttachedIsAccounted`, `RlimitShortfallHasCause`: what is
  not as asked was warned about.
* `GroupsHoldProcesses`: a group becomes unfit to hold processes only if a request
  names its `subtree_control` through a path (`Undermined`).

**Runner.** All three methods, everything that may fail, both kills, the
cancellation; two exit codes.

* `RequestWaits`, `LaunchedFromWholeRequest`: the file between the two processes;
  `RunReturnsOutcome`: the result against what became of the workload, and that no
  process is left running, but for one that could not be watched (`Abandoned`);
  `NothingLeftBehind`.

**Jail.** `/` and another rootfs, read-only or not, default mount or not, up to
two of seven well-formed mounts (at, above and below the current directory, one
of a file, one of the directory itself), five malformed ones, limits; a current
directory that is plain, that is `/` with the host's mounts below, that is gone,
or whose name is no UTF-8; sources that are not there, locked, or without
attributes; a rootfs that leads nowhere; the four trees of `MCPivotFs`.

* `JailWritable`, `UserMountsShow`: what can be written, and what can be seen.
* `NeverRefused`, and `JailEntered` as progress: the jail is turned down nowhere and
  comes to its end if it is one of the host's root (`Enterable`): a current
  directory, a well-formed command line, a `/proc`, room for the staging
  directory, directories to mount, below which nothing else is mounted, onto
  directories that are there, also where an earlier mount covers them. A mount of
  a file onto the read-only root and a mount point below `/proc` are not in it,
  since they may fail; nor is a jail started in `/`, or in another directory with
  mounts below it, unless it is told to leave the default mount out.

`CHECK_DEADLOCK FALSE` is set throughout: every one of these programs stops.

### Fairness

`CreateWrap` assumes weak fairness of the supervisor's steps and of the child's
steps: both are processes that the kernel schedules, and no step of theirs can
be disabled again by the other without being taken (eventfd counters only grow
under the other's hand). Nothing is assumed of the environment: a workload may
run for ever, signals and kills may never come. The handler is installed with
`signal(2)`, which means `SA_RESTART`, so a signal does not make the eventfd
read or `waitpid` fail; it does not count as progress either. A
failing call (`SupervisorError`, `ChildError`, `AttacherError`) may come at any
time and is not owed by fairness: otherwise it would end every wait that has no
end.
`AttachWrap` assumes the same of the four processes, and that the host's init
reaps what is left to it (`ReapOrphan`). The attacher waits in `waitpid` only,
which nothing disables once its child is a zombie. `Jail` is one process, and
weak fairness of its steps says that it is scheduled. The other modules have
safety properties only.

### Where code and comments disagree

Each has a run that ends in the counterexample; PROJECT.json quotes the lines.

* `EarlyChildError`: a child that fails before the handshake (in `pivot_fs`, for
  example) leaves the supervisor waiting for ever.
* `AttachOom`: an attach with the default namespaces and an `oom_score_adj`
  fails. After `setns` the `/proc` it sees is the container's, and the attacher,
  still in its own pid namespace, has no `/proc/self` there.
* `RlimitsCut`: `process_limits` without `open_files` asks for `RLIMIT_NOFILE`
  at infinity, which the kernel refuses above `fs.nr_open`; the limits after it,
  `thread_limit` among them, are not set.
* `JailEmptiesFile`: mounting a file over a file empties the one below.

Met while modelling and not kept as runs:

* In create. A supervisor that fails in `prepare_userns` leaves the child waiting
  for ever (`wrap.rs` 601, 648; one of the two exceptions in `WrapResolves`). A
  signal between the installation of the handler and `store_child_pid`, or one
  that meets the handler in the child, is dropped, and after `waitpid` the pid
  may be someone else's (`signal.rs` 25, 32). In the two-stage mode
  `setup_console` mounts when the child has left the user namespace that owns
  its mount namespace (`wrap.rs` 673 against 670-672). Without mappings there is
  a user namespace all the same (`config.rs` 119, 123). With `Pid` but not
  `Mount`, `prepare_userns` writes to the host's `/proc/1` (`wrap.rs` 595; the
  precondition is `Mappable` in `ConfigurationPermitted`); without `Mount`,
  `setup_console` mounts over the caller's `/dev/console`.
* Before execve. A capability in `raise_ambient` that `drop` names too cannot be
  raised, and the workload is not launched (`wrap.rs` 1034, 1045).
  `supplemental_gids` are refused under the default `setgroups_deny`, with a
  warning (`wrap.rs` 944). `executable` is documented as "not resolved by PATH"
  (`config.rs` 51) and passed to `execvpe`.
* Mounts. `rootfs_readonly` leaves mounts that the rootfs came with writable
  (`mount.rs` 214; `RootSealed` is about the root's own mount). A mount's `data`
  never reaches `mount(2)` (`wrap.rs` 465), and is not a field of the model. A
  file mounted where the read-only root has no such file fails with `EROFS`.
  A mutation is documented as a directory "inside the container FS"
  (`config.rs` 162, 219), and with an absolute target it is made in the old root,
  outside, also when the rootfs is read-only (`wrap.rs` 913-916; `MutateOldRoot`).
* Attach. The pidfd rules out the race of `unshare.rs` 37-40 from `pidfd_open`
  on; before it, between `first_child_pid_of` and `pidfd_open`, the pid may go to
  another process (`pinned = "stranger"`). With `skip_two_stage_userns` an attach
  during set-up may see the host's root and unwritten id maps (`NeverInHostRoot`
  is about the other mode). A container whose supervisor was killed cannot be
  attached to. A negative score, or raising an rlimit, is refused inside a user
  namespace.
* Resources. `cgroup.rs` 39-42 speaks of a guarantee where errors are warnings.
  An attach without `workload_id` is given its own pid for an identity. One
  controller that is not available loses all of them: `+c1 +c2` is written at
  once. A create with limits and one without, in the same delegated cgroup,
  exclude each other. Groups are not removed, so that a recycled pid inherits
  another container's limits on the keys it does not set itself; a `workload_id`
  may also be the text of a pid. The guard against control files as limits
  (`wrap.rs` 301) is one of spelling: `./cgroup.subtree_control` passes it, and a
  group with controllers enabled that way takes no process (`Undermined`).
  `path.exists()` in `attach_cgroup` (`wrap.rs` 845) takes a directory that may
  not be looked at for one that is not there, without a warning; that a lookup
  may be refused is not modelled.
* Exit codes. Where `SIGCHLD` was ignored by whoever started styrolite, `waitpid`
  fails after the workload's end, and the exit code is 1 whatever the workload's
  was (`wrap.rs` 77, 93, 607 against 518).
* Runner and jail. `run` is documented to return "exit code on success, else
  error", and returns `Ok(1)` for a container that was never started. `exec`
  leaves the configuration file, as its comment says. `--limit` announces
  `key:value` and takes `key=value`. `styrojail` in a directory with mounts below
  it (`/`, for one) fails: the default mount is a bind that is not recursive
  (`styrojail.rs` 147), which the kernel refuses in the new user namespace.

## Proofs

All theorems hold for every value of the constants under the named assumptions
of the modules, which say that requests, callers, faults and codes have their
types.

**CreateWrap.** The properties are not inductive: that the child is configured
when it runs follows from which tokens exist, and these from where both
processes are. `IInv` is the conjunction of

* `ProcessInv`, `StatusInv`: which pairs of program counters and exit codes are
  possible together;
* `HandshakeInv`: if a token was ever written, or consumed, the child is past
  its request; if the child is or may be let go, the supervisor is past its
  configuration;
* `UsernsInv`: the user namespace of each process and the files written, by
  program counter;
* `MountInv`, `ProcInv`: the owner of the mount namespace, which with the owner of
  the pid namespace decides the right to pivot, and in which `/proc` the
  supervisor looks for the child;
* `SignalInv`: handler and `CHILD_PID`.

One lemma per conjunct (`ProcessStep`, ...) goes through all actions, and
`Invariance` puts them together. From it follow `TypeCorrectness`,
`ConfigurationFirst`, `FailureLaunchesNothing`, `TruthfulReport`,
`PivotHasPrivilege`, `ConfigurationSucceeds`, `ForwardingWorks` and, as an
action property, `UsernsFrozen`. `Refinement` shows `Spec =>
ImplementsSupervision`: the workload is "running" once launched, "stillborn" if
the child ended before, and every step of wrap is a step of `Supervision` or
none. A wait that fails is a `GiveUp`, which `Supervision` allows of a workload
that has ended and not of one that runs; that it has ended is what `HandshakeInv`
says of a supervisor that failed after the release.

**Preexec.** `IInv` says at each step how far each credential has come: the sets
are the caller's up to capset, `Kept` after it; within a loop, `todo` tells
which elements are still to be handled, which makes the result independent of
the order. The five properties follow, as `CapabilitiesAreDetermined`,
`DroppedStaysDropped`, `AmbientSurvives`, `IdentityIsAssumed` and
`FailureHasCause`.

**Runner.** `IInv` adds to the properties where the two processes can be at the
same time and what the file holds there (`ProcessesInv`), what has been read
(`ReadInv`), and the part of `Supervision` that the result depends on
(`SupervisedInv`: a stillborn container never has status 0, a report is the exit
code of the status). `SuperviseStep`, `ReturnStep` and `OtherStep` go through the
actions; `RequestIsThere`, `WholeRequestOnly`, `TruthfulResult` and
`FileIsRemoved` follow. With `Refinement`, which shows that `CreateWrap`
implements the `Supervision` that `Runner` instantiates, the exit code is right
all the way from the workload to the caller of `run`.

**AttachWrap.** An attach changes no variable of the container, and the kernel's
coupling only removes steps from it: `ContainerStep` shows that every step of the
composition is a step of `CreateWrap` or none, so that `IInv`, and every theorem
about the container, carries over (`AttachLeavesContainer`). `AttachIInv` adds

* `AttachProcessInv`, `AttachStatusInv`, `AttachSignalInv`: attacher and forked
  process, as for the container;
* `RootInv`: a child in its own user namespace was asked for it and, in the
  two-stage mode, has pivoted. It is the fact about the container that
  `NeverInHostRoot` rests on: `setns` refuses the user namespace before;
* `JoinInv`: what has been joined through the child's pidfd is exactly what both
  requests name. It holds from the return of `setns` on, and stays, because
  neither request changes and a root once pivoted to is not left (`RootStep`);
* `NamespaceInv`: the forked process does not outlive the first process of its
  pid namespace. `ForkAttached` keeps it since the kernel refuses a fork there
  afterwards, `Coupled` since it ends the forked process in the same step;
* `GroupInv`: the attacher, then the forked process, is in the cgroup.

`AttachInvariance` follows, from it `AttachJoinsContainer`, `AttachAfterPivot`,
`AttachEndsToo`, `AttachAccounted`, `AttachForwards`, and, with `AttachSimulation`,
`AttachRefinement`: `AttachSpec => AttachImplementsSupervision`.

**Resources.** For any finite or infinite set of processes, any hierarchy and any
leftover groups, under `HierarchyAssumption` (identities and pids are not the
name of the top group, leftovers are groups of the bases). `IInv` consists of
`StepInv` (what each step may rely on), `LimitInv` (a container with limits is
outside its group until each has been tried, and afterwards inside, or outside
with a warning; a limit that has been tried is in force or warned about),
`AttachInv` (an attach comes after its container and ends where that is), and the
two properties that are inductive by themselves. The step that takes an argument
is the one in which another process writes the same file: one of its limits then
leads there, from whichever group, so that the limit is still in force in the
sense of `Sharing` (`ForceKept`). `NothingIsSilent`, `GroupsStayUsable`,
`AttachIsAccounted` and `ShortfallHasCause` follow.

**PivotFs.** For every set of paths with a reflexive and transitive `Beneath`,
every rootfs and every request, under `PathsAssumption` (`/proc` is not below the
staging directory, which is `/tmp/styrolite-stage-<identity>`),
`SourcesAssumption` (masks and a new tmpfs have nothing in them) and
`TreesAssumption` (what is above something is a directory; the root's file system
is one mount). The first lemmas say, path by path, what each operation does to a
tree; `PropagationMount`, `SelfMount` and `CoverMount` put them together for the
three kinds of mount there are, `LeftBehindFacts` and `MountFailStep` say what a
failed one leaves. `IInv` is

* `PrivateInv`: from the first step on no path is shared, so that nothing mounted
  later escapes;
* `SealInv`: until the seal all of the rootfs is one mount, the root's own, which
  is why a flag that is not recursive reaches all of it;
* `OriginInv`, `ShownInv`: where what a path shows came from, with the
  restrictions it was mounted with, and which of the mounts so far are to be seen;
* `MaskInv`, `ReadonlyInv`: the masks and read-only binds made so far are in
  force. A later mask may lie above an earlier one, or the path may be gone; a
  read-only bind moves no mask, because it is recursive;
* `NewRootInv`: by the pivot the new root is another mount than the current one;
* `ProgressInv`: without a cause to fail, what each of the next steps needs is
  there, and no file but those that `MayBeFile` tells of, which is why a lookup
  fails only below one of them (`LstatCause`).

One lemma per action; `StartInv` and `StepInv` state the result for any module
that runs `pivot_fs` on a request of its own making, and `Invariance` for this
one. The six properties follow.

**CapWords.** Words of any width, any table of names. `EditInv` relates the words
to the sets of `Preexec` in the middle of a loop: the names in `todo` are still
to be applied, the others have been, in any order. `ToResult` and `ToData` show
that the split into two words and back loses nothing. `WordsAreSetsHolds` and
`UnknownNameHolds` follow.

**Jail.** `JailInv` compares the request with the command line element by
element: `WantedOrder` says what `build_mounts` puts where, `BuilderInv` that what
has been pushed and what is queued make up all of it, `ReplacedInv` that `pivot_fs`
runs on the result and, by `StartInv` and `StepInv`, keeps its own invariant.
`ClisAssumption` is that the current directory and a well-formed `--mount` name a
source, which may be one that the kernel refuses, and a path of the jail. `JailWritableHolds` and `UserMountsShowHolds` follow from `OriginInv` and
`ShownInv`. `EnterInv` is for `NeverRefusedHolds`: in a jail that can be entered,
everything above a mount still to come is a directory, or is missing in the
staging tmpfs, where it can be made because the seal does not reach it.

Only model-checked: the progress properties `EndIsReported`, `WrapResolves`,
`EndReachesSupervisor` and `JailEntered`, since liveness under fairness is out of
the proof system's reach.

## Not modelled

* What a seccomp program or an AppArmor profile allows; logging, error texts and
  the `execvpe` hints; parsing of the request; contents of files, symbolic
  links and permissions in the mount tree; network, UTS, IPC, time and cgroup
  namespaces, which the code requests and does not look at again.
* `reap_children` finds no children but the one reaped: supervisor and attacher
  fork once, and orphans of the container go to its own init.
* Build files, release scripts, examples.
* The serde format of requests, `validate`, which accepts everything, and
  `CGroup::open_child`, which nothing calls.

## Plan

1. `CreateWrap` with `PivotFs` and `Preexec` in place of its one-step stand-ins:
   shown to be simulated by them, as `ContainerStep` does for the attach.
2. `Preexec`'s `ParseNames` and `Capset` shown to be what `CapWords` computes, for
   every width.
