------------------------------- MODULE Resources -------------------------------
(***************************************************************************)
(* What becomes of resource limits (src/src/wrap.rs, src/src/cgroup.rs):   *)
(* prepare_cgroup of create, attach_cgroup of attach and                   *)
(* set_process_limits of both, for several styrolite processes at work in  *)
(* the same cgroup2 hierarchy.                                             *)
(*                                                                         *)
(* Nothing here stops a container from being launched: each error ends in  *)
(* a warning.  A value written to a limit file is modelled by the process  *)
(* that wrote it.  Groups are never removed, so a group may be left over   *)
(* from an earlier container of the same identity.                         *)
(***************************************************************************)
EXTENDS Integers, Sequences

CONSTANTS
  Procs,       \* the styrolite processes
  Requests,    \* the requests each of them may be given
  Ids,         \* workload identities
  Bases,       \* the cgroup2 directories given as cgroupfs
  RealRoot,    \* the one of them that is the root of the hierarchy
  Available,   \* the controllers each of them may enable for its children
  Keys,        \* the keys of the limits
  PrefixOf,    \* what each key has before its first dot: a controller, "cgroup"
  PathOf,      \* for the keys that are paths, the group and file they lead to
  Leftover,    \* groups that exist already, with a limit on every key
  NrOpen,      \* fs.nr_open, the kernel's bound on RLIMIT_NOFILE
  Unlimited,   \* RLIM_INFINITY
  Faults       \* the file operations that may fail

NotGiven    == "none"                             \* the Option is None
Controllers == {"cpu", "memory", "io", "pids"}    \* those prepare_cgroup enables

\* The keys "cgroup.*", which prepare_cgroup refuses.  As the name of a file
\* one of them stands for cgroup.subtree_control.
Reserved == {k \in Keys : PrefixOf[k] = "cgroup"}

\* The order of set_process_limits.
Order == <<"AS", "CORE", "CPU", "DATA", "FSIZE", "MEMLOCK", "MSGQUEUE", "NICE",
           "NOFILE", "NPROC", "RSS", "RTPRIO", "RTTIME", "SIGPENDING", "STACK">>
Resource == {Order[i] : i \in 1 .. Len(Order)}
Amount   == 0 .. Unlimited

\* `target` is the container an attach is for; `base` is cgroupfs, "gone" a
\* path that is not there; `privileged` tells CAP_SYS_RESOURCE in the initial
\* user namespace, `given` whether there are process_limits.  A request has a
\* last field, `rlimits`: those of them that are not None.
Request ==
  [kind : {"create", "attach"}, target : Procs, id : Ids \cup {NotGiven},
   base : Bases \cup {NotGiven, "gone"}, limited : BOOLEAN, limits : SUBSET Keys,
   privileged : BOOLEAN, given : BOOLEAN]

\* An attach is for a container that a create makes.
ASSUME RequestsAssumption ==
  \A p \in Procs : \A r \in Requests[p] :
    /\ [f \in DOMAIN r \ {"rlimits"} |-> r[f]] \in Request
    /\ DOMAIN r.rlimits \subseteq Resource
    /\ r.rlimits \in [DOMAIN r.rlimits -> Amount]
    /\ r.kind = "attach" => \A q \in Requests[r.target] : q.kind = "create"

ASSUME HierarchyAssumption ==
  /\ RealRoot \in Bases
  /\ Available \in [Bases -> SUBSET (Controllers \cup {"hugetlb"})]
  /\ NrOpen \in Nat /\ Unlimited \in Nat /\ NrOpen < Unlimited
  /\ Leftover \subseteq Bases \X (Ids \cup Procs)
  /\ DOMAIN PathOf \subseteq Keys \ Reserved
  /\ \A k \in DOMAIN PathOf : /\ PathOf[k].group \in Ids \cup Procs \cup {NotGiven}
                             /\ PathOf[k].file \in Keys \ DOMAIN PathOf
  /\ "top" \notin Ids \cup Procs     \* no identity is the name of a base

VARIABLES
  rreq,     \* the request of each process
  rpc,      \* its next step
  todo,     \* the limits it has still to set
  group,    \* the group it is in
  warned,   \* what it has warned about
  rlimit,   \* the soft and hard limits it has set
  exists,   \* the groups below the bases: <<base, identity>>
  subtree,  \* cgroup.subtree_control of every group
  value     \* who set each limit of each group

vars == <<rreq, rpc, todo, group, warned, rlimit, exists, subtree, value>>

Identities == Ids \cup Procs
Groups     == Bases \X Identities
Top(b)     == <<b, "top">>           \* the base itself
Outside    == <<"outside", "top">>   \* wherever the caller was
Places     == Groups \cup {Top(b) : b \in Bases}

\* The process id stands in for a missing workload_id.
Identity(p) == IF rreq[p].id = NotGiven THEN p ELSE rreq[p].id
Base(p)     == IF rreq[p].base = NotGiven THEN RealRoot ELSE rreq[p].base
Own(p)      == <<Base(p), Identity(p)>>

\* The group and the file that a key leads to from the group of p: the key is
\* joined to its directory as a path, "./x" and "../styrolite-id/x" included.
LeadsTo(p, k) ==
  IF k \in DOMAIN PathOf
    THEN [group |-> IF PathOf[k].group = NotGiven
                      THEN Own(p) ELSE <<Base(p), PathOf[k].group>>,
          file  |-> PathOf[k].file]
    ELSE [group |-> Own(p), file |-> k]

\* The soft and hard limits a process starts with.
Inherited(r) == IF r = "NOFILE" THEN NrOpen ELSE Unlimited - 1

Init ==
  /\ rreq \in {f \in [Procs -> UNION {Requests[p] : p \in Procs}] :
                 \A p \in Procs : f[p] \in Requests[p]}
  /\ rpc = [p \in Procs |-> IF rreq[p].kind = "create" THEN "open" ELSE "await"]
  /\ todo = [p \in Procs |-> {}]
  /\ group = [p \in Procs |-> Outside]
  /\ warned = [p \in Procs |-> {}]
  /\ rlimit = [p \in Procs |-> << >>]
  /\ exists = Leftover
  /\ subtree = [g \in Places |-> {}]
  /\ value = [g \in Groups |-> [k \in Keys |-> IF g \in Leftover THEN "stale" ELSE "unset"]]

-----------------------------------------------------------------------------
(* The kernel. *)

Members(g) == {p \in Procs : group[p] = g}

\* A group other than the root that has processes of its own enables nothing
\* for its children, and the other way round.
MayEnable(b, cs) ==
  /\ cs \subseteq Available[b]
  /\ cs \subseteq subtree[Top(b)] \/ b = RealRoot \/ Members(Top(b)) = {}
MayBind(g) == g = Top(RealRoot) \/ subtree[g] = {}

\* A group has the files of the controllers that its base enables, and can
\* enable those for its own children.
Writable(b, g, f) ==
  /\ g \in exists
  /\ f \notin Reserved => PrefixOf[f] \in subtree[Top(b)]
  /\ f \in Reserved => subtree[Top(b)] # {} /\ Members(g) = {}

\* A value is written to file f of group g; for subtree_control, it is the
\* names of what can be enabled.
Write(p, g, f) ==
  /\ value' = [value EXCEPT ![g][f] = p]
  /\ subtree' = IF f \in Reserved
                  THEN [subtree EXCEPT ![g] = @ \cup subtree[Top(Base(p))]] ELSE subtree

-----------------------------------------------------------------------------
(* prepare_cgroup. *)

Goto(p, step) == rpc' = [rpc EXCEPT ![p] = step]
Warn(p, what) == warned' = [warned EXCEPT ![p] = @ \cup what]

\* An error out of prepare_cgroup or attach_cgroup: one warning.
GiveUp(p) == Goto(p, "rlimits") /\ Warn(p, {"cgroup"})

\* Neither limits nor cgroupfs: no cgroup.  CGroup::open fails without the path.
OpenBase(p) ==
  /\ rpc[p] = "open"
  /\ \/ /\ ~rreq[p].limited /\ rreq[p].base = NotGiven
        /\ Goto(p, "rlimits")
        /\ UNCHANGED <<warned, todo>>
     \/ /\ rreq[p].limited \/ rreq[p].base # NotGiven
        /\ Base(p) \in Bases
        /\ Goto(p, IF rreq[p].limited THEN "enable" ELSE "bind_base")
        /\ todo' = [todo EXCEPT ![p] = rreq[p].limits]
        /\ UNCHANGED warned
     \/ /\ rreq[p].base = "gone"
        /\ GiveUp(p)
        /\ UNCHANGED todo
  /\ UNCHANGED <<rreq, group, rlimit, exists, subtree, value>>

\* "+c1 +c2" to cgroup.subtree_control of the base: all of them or none.
EnableControllers(p) ==
  LET wanted == {PrefixOf[k] : k \in rreq[p].limits} \cap Controllers IN
  /\ rpc[p] = "enable"
  /\ Goto(p, "create")
  /\ \/ /\ MayEnable(Base(p), wanted)
        /\ subtree' = [subtree EXCEPT ![Top(Base(p))] = @ \cup wanted]
        /\ UNCHANGED warned
     \/ /\ ~MayEnable(Base(p), wanted) \/ ("enable" \in Faults /\ wanted # {})
        /\ Warn(p, {"enable"})
        /\ UNCHANGED subtree
  /\ UNCHANGED <<rreq, todo, group, rlimit, exists, value>>

\* create_child: create_dir_all, which an existing directory does not disturb.
CreateSubtree(p) ==
  /\ rpc[p] = "create"
  /\ \/ /\ Goto(p, "set")
        /\ exists' = exists \cup {Own(p)}
        /\ UNCHANGED warned
     \/ /\ "create" \in Faults /\ Own(p) \notin exists
        /\ GiveUp(p)
        /\ UNCHANGED exists
  /\ UNCHANGED <<rreq, todo, group, rlimit, subtree, value>>

\* Mutated: no key is refused, and "cgroup.subtree_control" is one of them.
SetAnyLimit(p, k) ==
  LET to == LeadsTo(p, k) IN
  /\ rpc[p] = "set" /\ k \in todo[p]
  /\ todo' = [todo EXCEPT ![p] = @ \ {k}]
  /\ \/ /\ Writable(Base(p), to.group, to.file)
        /\ Write(p, to.group, to.file)
        /\ UNCHANGED warned
     \/ /\ ~Writable(Base(p), to.group, to.file)
        /\ Warn(p, {k})
        /\ UNCHANGED <<value, subtree>>
  /\ UNCHANGED <<rreq, rpc, group, rlimit, exists>>

\* One limit: refused if the key, as it is spelled, is a reserved one, and
\* written to where it leads otherwise.
SetLimit(p, k) ==
  LET to == LeadsTo(p, k) IN
  /\ rpc[p] = "set" /\ k \in todo[p]
  /\ todo' = [todo EXCEPT ![p] = @ \ {k}]
  /\ \/ /\ k \notin Reserved /\ Writable(Base(p), to.group, to.file)
        /\ Write(p, to.group, to.file)
        /\ UNCHANGED warned
     \/ /\ \/ k \in Reserved \/ ~Writable(Base(p), to.group, to.file)
           \/ "set" \in Faults
        /\ Warn(p, {k})
        /\ UNCHANGED <<value, subtree>>
  /\ UNCHANGED <<rreq, rpc, group, rlimit, exists>>

\* Mutated: the supervisor moves first and sets the limits from inside.
BindFirst(p) ==
  /\ rpc[p] \in {"set", "bind_base"}
  /\ group' = [group EXCEPT ![p] = IF rpc[p] = "set" THEN Own(p) ELSE Top(Base(p))]
  /\ IF todo[p] = {} THEN Goto(p, "rlimits") ELSE UNCHANGED rpc
  /\ UNCHANGED <<rreq, todo, warned, rlimit, exists, subtree, value>>

\* The supervisor writes its pid to cgroup.procs: of the new group once every
\* limit has been tried, or of the base if no limits were given.
BindSupervisor(p) ==
  LET g == IF rpc[p] = "set" THEN Own(p) ELSE Top(Base(p)) IN
  /\ (rpc[p] = "set" /\ todo[p] = {}) \/ rpc[p] = "bind_base"
  /\ \/ /\ MayBind(g)
        /\ group' = [group EXCEPT ![p] = g]
        /\ Goto(p, "rlimits")
        /\ UNCHANGED warned
     \/ /\ ~MayBind(g) \/ "bind" \in Faults
        /\ GiveUp(p)
        /\ UNCHANGED group
  /\ UNCHANGED <<rreq, todo, rlimit, exists, subtree, value>>

\* Mutated: the attacher's own pid for the name of the group.
AttachToPid(p) ==
  /\ rpc[p] = "await" /\ rpc[rreq[p].target] = "launched"
  /\ Goto(p, "rlimits")
  /\ group' = [group EXCEPT ![p] = IF <<Base(p), p>> \in exists THEN <<Base(p), p>> ELSE @]
  /\ UNCHANGED <<rreq, todo, warned, rlimit, exists, subtree, value>>

\* attach_cgroup, which comes after the container's child was found, so after
\* prepare_cgroup: the group of the same identity, if there is one.
AttachCgroup(p) ==
  /\ rpc[p] = "await" /\ rpc[rreq[p].target] = "launched"
  /\ \/ /\ Own(p) \notin exists
        /\ Goto(p, "rlimits")
        /\ UNCHANGED <<group, warned>>
     \/ /\ Own(p) \in exists /\ MayBind(Own(p))
        /\ group' = [group EXCEPT ![p] = Own(p)]
        /\ Goto(p, "rlimits")
        /\ UNCHANGED warned
     \/ /\ Own(p) \in exists /\ (~MayBind(Own(p)) \/ "bind" \in Faults)
        /\ GiveUp(p)
        /\ UNCHANGED group
  /\ UNCHANGED <<rreq, todo, rlimit, exists, subtree, value>>

-----------------------------------------------------------------------------
(* set_process_limits. *)

\* A limit that is not given stands for RLIM_INFINITY.
Wanted(p, r) == IF r \in DOMAIN rreq[p].rlimits THEN rreq[p].rlimits[r] ELSE Unlimited

\* What setrlimit refuses, with EPERM in both cases.
Refused(p, r) == \/ Wanted(p, r) > Inherited(r) /\ ~rreq[p].privileged
                 \/ r = "NOFILE" /\ Wanted(p, r) > NrOpen

\* Those that come before the first refusal, where `?` ends the function.
Applied(p) == {Order[i] : i \in {n \in 1 .. Len(Order) :
                                   \A m \in 1 .. n : ~Refused(p, Order[m])}}

\* Mutated: the hard limit stays.
SoftLimit(p, r) == [cur |-> Wanted(p, r), max |-> Inherited(r)]

\* set_process_limit: soft and hard.
ProcessLimit(p, r) == [cur |-> Wanted(p, r), max |-> Wanted(p, r)]

SetProcessLimits(p) ==
  LET applied == Applied(p) IN
  /\ rpc[p] = "rlimits"
  /\ Goto(p, "launched")
  /\ \/ /\ ~rreq[p].given
        /\ UNCHANGED <<rlimit, warned>>
     \/ /\ rreq[p].given
        /\ rlimit' = [rlimit EXCEPT ![p] = [r \in applied |-> ProcessLimit(p, r)]]
        /\ Warn(p, IF applied = Resource THEN {} ELSE {"rlimits"})
  /\ UNCHANGED <<rreq, todo, group, exists, subtree, value>>

-----------------------------------------------------------------------------
ProcStep(p) ==
  \/ OpenBase(p) \/ EnableControllers(p) \/ CreateSubtree(p)
  \/ \E k \in Keys : SetLimit(p, k)
  \/ BindSupervisor(p) \/ AttachCgroup(p) \/ SetProcessLimits(p)

Next == \E p \in Procs : ProcStep(p)

Spec == Init /\ [][Next]_vars

-----------------------------------------------------------------------------
(* Properties. *)

\* The containers with a limit on the same file as p's limit on k: those of
\* the same identity, if the keys are plain.
Limiting(p)   == rreq[p].kind = "create" /\ rreq[p].limited
Sharing(p, k) == {q \in Procs : /\ Limiting(q)
                                /\ \E j \in rreq[q].limits : LeadsTo(q, j) = LeadsTo(p, k)}
InForce(p, k) == \/ k \in warned[p]
                 \/ value[LeadsTo(p, k).group][LeadsTo(p, k).file] \in Sharing(p, k)

\* A supervisor is never in its group without its limits: from the moment it
\* is bound each of them is in force, set by it or by a container that names
\* the same file and never by one of the past, or a warning names it; and one
\* that is launched outside its group has warned of that.
NoSilentShortfall ==
  \A p \in Procs : Limiting(p) =>
    /\ group[p] # Outside => /\ group[p] = Own(p)
                             /\ \A k \in rreq[p].limits : InForce(p, k)
    /\ rpc[p] = "launched" /\ group[p] = Outside => "cgroup" \in warned[p]

\* The requests with a path for a key that leads to g's subtree_control: its
\* spelling does not begin with "cgroup.".
Undermined(g) ==
  \E p \in Procs : \E k \in rreq[p].limits \cap DOMAIN PathOf :
    LeadsTo(p, k).group = g /\ LeadsTo(p, k).file \in Reserved

\* No limit a container is given makes its group, or that of another container,
\* unfit to hold processes, unless its key leads there as a path: only the
\* bases enable controllers otherwise.
GroupsHoldProcesses == \A g \in Groups : MayBind(g) \/ Undermined(g)

\* An attach under the identity and in the hierarchy of a container that has
\* limits is in that container's group once it is launched, or has warned.
AttachedIsAccounted ==
  \A p \in Procs : LET t == rreq[p].target IN
    /\ rreq[p].kind = "attach" /\ rpc[p] = "launched"
    /\ Own(p) = Own(t) /\ rreq[t].limited /\ group[t] # Outside
    => group[p] = group[t] \/ "cgroup" \in warned[p]

\* A process limit that is not the one asked for, soft and hard, has a cause
\* at or before its place in the order, and a warning.
RlimitShortfallHasCause ==
  \A p \in Procs, i \in 1 .. Len(Order) :
    rpc[p] = "launched" /\ rreq[p].given =>
      \/ /\ Order[i] \in DOMAIN rlimit[p]
         /\ rlimit[p][Order[i]].cur = Wanted(p, Order[i])
         /\ rlimit[p][Order[i]].max = Wanted(p, Order[i])
      \/ "rlimits" \in warned[p] /\ \E j \in 1 .. i : Refused(p, Order[j])

\* config.rs:319-321 and the fields below it: a process limit that is given is
\* set, and one that is not is set to unlimited.
ProcessLimitsSet ==
  \A p \in Procs : rpc[p] = "launched" /\ rreq[p].given /\ rreq[p].privileged
    => \A r \in Resource : r \in DOMAIN rlimit[p] /\ rlimit[p][r].max = Wanted(p, r)

-----------------------------------------------------------------------------
(* The invariant the proofs use. *)

\* Every variable keeps its type.
TypeOK ==
  /\ \A p \in Procs : rreq[p] \in Requests[p]
  /\ rpc \in [Procs -> {"open", "enable", "create", "set", "bind_base", "await",
                        "rlimits", "launched"}]
  /\ todo \in [Procs -> SUBSET Keys]
  /\ group \in [Procs -> Places \cup {Outside}]
  /\ warned \in [Procs -> SUBSET (Keys \cup {"cgroup", "enable", "rlimits"})]
  /\ DOMAIN rlimit = Procs /\ exists \subseteq Groups
  /\ subtree \in [Places -> SUBSET Controllers]
  /\ value \in [Groups -> [Keys -> Procs \cup {"stale", "unset"}]]

\* What each step presumes.
StepInv ==
  \A p \in Procs :
    /\ rpc[p] \in {"open", "enable", "create", "set", "bind_base"} => rreq[p].kind = "create"
    /\ rpc[p] = "await" => rreq[p].kind = "attach"
    /\ rpc[p] \in {"enable", "create", "set", "bind_base"} => Base(p) \in Bases
    /\ rpc[p] \in {"enable", "create", "set"} => rreq[p].limited
    /\ rpc[p] = "bind_base" => ~rreq[p].limited
    /\ rpc[p] \in {"enable", "create"} => todo[p] = rreq[p].limits
    /\ rpc[p] = "set" => Own(p) \in exists /\ todo[p] \subseteq rreq[p].limits

\* A container with limits is outside until all of them have been tried, and
\* inside its group, or outside with a warning, from then on.
LimitInv ==
  \A p \in Procs : Limiting(p) =>
    /\ rpc[p] \in {"open", "enable", "create", "set"} => group[p] = Outside
    /\ rpc[p] \in {"rlimits", "launched"} =>
         \/ group[p] = Own(p) /\ Own(p) \in exists /\ todo[p] = {}
         \/ group[p] = Outside /\ "cgroup" \in warned[p]
    /\ rpc[p] = "set" \/ group[p] # Outside =>
         \A k \in rreq[p].limits \ todo[p] : InForce(p, k)

\* An attach that has been through attach_cgroup came after its container, and
\* is where that is.
AttachInv ==
  \A p \in Procs : LET t == rreq[p].target IN
    rreq[p].kind = "attach" /\ rpc[p] \in {"rlimits", "launched"} =>
      /\ rpc[t] = "launched"
      /\ Own(p) = Own(t) /\ rreq[t].limited /\ group[t] # Outside
           => group[p] = group[t] \/ "cgroup" \in warned[p]

IInv == /\ TypeOK /\ StepInv /\ LimitInv /\ AttachInv
        /\ GroupsHoldProcesses /\ RlimitShortfallHasCause
=============================================================================
