--------------------------- MODULE ResourcesProofs ---------------------------
(***************************************************************************)
(* Resources, for any number of styrolite processes, any hierarchy and any *)
(* limits.                                                                 *)
(***************************************************************************)
EXTENDS Resources, TLAPS

\* The fields of a request have their types.
LEMMA RequestFields ==
  ASSUME NEW p \in Procs, NEW r \in Requests[p]
  PROVE  /\ r.kind \in {"create", "attach"} /\ r.target \in Procs
         /\ r.id \in Ids \cup {NotGiven} /\ r.limited \in BOOLEAN
         /\ r.limits \in SUBSET Keys
         /\ r.kind = "attach" => \A q \in Requests[r.target] : q.kind = "create"
<1> DEFINE s == [f \in DOMAIN r \ {"rlimits"} |-> r[f]]
<1>1. s \in Request
  BY RequestsAssumption
<1>2. DOMAIN s = {"kind", "target", "id", "base", "limited", "limits", "privileged", "given"}
  BY <1>1 DEF Request
<1>3. s.kind = r.kind /\ s.target = r.target /\ s.id = r.id /\ s.limited = r.limited
        /\ s.limits = r.limits
  BY <1>2
<1>4. /\ s.kind \in {"create", "attach"} /\ s.target \in Procs
      /\ s.id \in Ids \cup {NotGiven} /\ s.limited \in BOOLEAN
      /\ s.limits \in SUBSET Keys
  BY <1>1 DEF Request
<1> QED BY <1>3, <1>4, RequestsAssumption

\* A process that has an identity's directory in a base has a group, which is
\* neither a base nor where processes start from.
LEMMA OwnGroup ==
  ASSUME TypeOK, NEW p \in Procs
  PROVE  /\ Identity(p) \in Identities /\ Own(p) # Outside
         /\ Base(p) \in Bases => Own(p) \in Groups
<1>1. rreq[p].id \in Ids \cup {NotGiven}
  BY RequestFields DEF TypeOK
<1>2. Identity(p) \in Identities
  BY <1>1 DEF Identity, Identities
<1>3. Identity(p) # "top"
  BY <1>2, HierarchyAssumption DEF Identities
<1> QED BY <1>2, <1>3 DEF Own, Outside, Groups

\* A key leads to a file of a group of the same base.
LEMMA KeyLeads ==
  ASSUME TypeOK, NEW p \in Procs, NEW k \in Keys, Base(p) \in Bases
  PROVE  LeadsTo(p, k).group \in Groups /\ LeadsTo(p, k).file \in Keys
<1>1. CASE k \in DOMAIN PathOf
  <2>1. PathOf[k].group # NotGiven => PathOf[k].group \in Identities
    BY <1>1, HierarchyAssumption DEF Identities
  <2> QED BY <1>1, <2>1, OwnGroup, HierarchyAssumption DEF LeadsTo, Groups
<1>2. CASE k \notin DOMAIN PathOf
  BY <1>2, OwnGroup DEF LeadsTo
<1> QED BY <1>1, <1>2

\* A base is not a group of its own.
LEMMA TopsApart == \A b \in Bases : Top(b) \in Places /\ Top(b) \notin Groups
BY HierarchyAssumption DEF Top, Groups, Places, Identities

\* What a process is to do, and in which group, is fixed by its request.
LEMMA RequestFixed ==
  ASSUME NEW p \in Procs, rreq' = rreq
  PROVE  /\ Own(p)' = Own(p) /\ Base(p)' = Base(p) /\ Limiting(p)' = Limiting(p)
         /\ \A k : LeadsTo(p, k)' = LeadsTo(p, k) /\ Sharing(p, k)' = Sharing(p, k)
         /\ \A r : Wanted(p, r)' = Wanted(p, r) /\ Refused(p, r)' = Refused(p, r)
<1>1. \A q \in Procs : Own(q)' = Own(q) /\ Base(q)' = Base(q)
  BY DEF Own, Base, Identity
<1>2. \A q \in Procs : \A k : LeadsTo(q, k)' = LeadsTo(q, k)
  BY <1>1 DEF LeadsTo
<1>3. \A k : Sharing(p, k)' = Sharing(p, k)
  BY <1>2 DEF Sharing, Limiting
<1> QED BY <1>1, <1>2, <1>3 DEF Limiting, Wanted, Refused, Inherited

\* So is what it may do to another's group.
LEMMA UnderminedFixed ==
  ASSUME rreq' = rreq, NEW g
  PROVE  Undermined(g)' = Undermined(g)
BY RequestFixed DEF Undermined

\* No step changes a request.
LEMMA StepFixed == \A p \in Procs : ProcStep(p) => rreq' = rreq
BY DEF ProcStep, OpenBase, EnableControllers, CreateSubtree, SetLimit, BindSupervisor,
       AttachCgroup, SetProcessLimits

-----------------------------------------------------------------------------
(* One lemma per conjunct of the invariant. *)

\* The types.
LEMMA TypeStep ==
  ASSUME TypeOK, StepInv, NEW p \in Procs, ProcStep(p)
  PROVE  TypeOK'
<1> USE DEF TypeOK
<1>0. rreq[p].limits \in SUBSET Keys /\ (Base(p) \in Bases => Own(p) \in Groups /\ Own(p) \in Places)
  BY RequestFields, OwnGroup DEF Places
<1>a. \A b \in Bases : Top(b) \in Places
  BY TopsApart
<1>1. CASE OpenBase(p)
  BY <1>1, <1>0 DEF OpenBase, Goto, Warn, GiveUp
<1>2. CASE EnableControllers(p)
  <2> DEFINE wanted == {PrefixOf[k] : k \in rreq[p].limits} \cap Controllers
  <2>1. wanted \in SUBSET Controllers  OBVIOUS
  <2> QED BY <1>2, <2>1, <1>a DEF EnableControllers, Goto, Warn
<1>3. CASE CreateSubtree(p)
  BY <1>3, <1>0 DEF CreateSubtree, Goto, Warn, GiveUp, StepInv
<1>4. ASSUME NEW k \in Keys, SetLimit(p, k) PROVE TypeOK'
  <2> DEFINE g == LeadsTo(p, k).group  f == LeadsTo(p, k).file
  <2>1. Base(p) \in Bases /\ g \in Groups /\ f \in Keys
    BY <1>4, KeyLeads DEF SetLimit, StepInv
  <2>a. Write(p, g, f) \/ UNCHANGED <<value, subtree>>
    BY <1>4 DEF SetLimit
  <2> HIDE DEF g, f
  <2>2. value' \in [Groups -> [Keys -> Procs \cup {"stale", "unset"}]]
    <3>1. [value[g] EXCEPT ![f] = p] \in [Keys -> Procs \cup {"stale", "unset"}]
      BY <2>1
    <3>2. CASE value' = [value EXCEPT ![g][f] = p]
      BY <3>1, <3>2, <2>1
    <3> QED BY <2>a, <3>2 DEF Write
  <2>5. subtree' \in [Places -> SUBSET Controllers]
    <3>1. g \in Places /\ subtree[g] \cup subtree[Top(Base(p))] \in SUBSET Controllers
      BY <2>1, <1>a DEF Places
    <3> QED BY <2>a, <3>1 DEF Write
  <2>3. todo' \in [Procs -> SUBSET Keys]
    BY <1>4 DEF SetLimit
  <2>4. warned' \in [Procs -> SUBSET (Keys \cup {"cgroup", "enable", "rlimits"})]
    BY <1>4 DEF SetLimit, Warn
  <2> QED BY <1>4, <2>2, <2>3, <2>4, <2>5 DEF SetLimit
<1>5. CASE BindSupervisor(p)
  <2>1. (IF rpc[p] = "set" THEN Own(p) ELSE Top(Base(p))) \in Places
    BY <1>5, <1>0, <1>a DEF BindSupervisor, StepInv
  <2> QED BY <1>5, <2>1 DEF BindSupervisor, Goto, Warn, GiveUp
<1>6. CASE AttachCgroup(p)
  <2>1. Own(p) \in exists => Own(p) \in Places
    BY DEF Places
  <2> QED BY <1>6, <2>1 DEF AttachCgroup, Goto, Warn, GiveUp
<1>7. CASE SetProcessLimits(p)
  BY <1>7 DEF SetProcessLimits, Goto, Warn
<1> QED BY <1>1, <1>2, <1>3, <1>4, <1>5, <1>6, <1>7 DEF ProcStep

\* What each step presumes.
LEMMA StepStep ==
  ASSUME TypeOK, StepInv, NEW p \in Procs, ProcStep(p)
  PROVE  StepInv'
<1> USE DEF TypeOK, StepInv
<1>0. rreq' = rreq /\ exists \subseteq exists'
  BY StepFixed DEF ProcStep, OpenBase, EnableControllers, CreateSubtree, SetLimit,
     BindSupervisor, AttachCgroup, SetProcessLimits
<1>a. \A q \in Procs : Own(q)' = Own(q) /\ Base(q)' = Base(q)
  BY <1>0, RequestFixed
<1>1. CASE OpenBase(p)
  BY <1>1, <1>0, <1>a DEF OpenBase, Goto, GiveUp
<1>2. CASE EnableControllers(p)
  BY <1>2, <1>0, <1>a DEF EnableControllers, Goto
<1>3. CASE CreateSubtree(p)
  BY <1>3, <1>0, <1>a DEF CreateSubtree, Goto, GiveUp
<1>4. CASE \E k \in Keys : SetLimit(p, k)
  BY <1>4, <1>0, <1>a DEF SetLimit
<1>5. CASE BindSupervisor(p)
  BY <1>5, <1>0, <1>a DEF BindSupervisor, Goto, GiveUp
<1>6. CASE AttachCgroup(p)
  BY <1>6, <1>0, <1>a DEF AttachCgroup, Goto, GiveUp
<1>7. CASE SetProcessLimits(p)
  BY <1>7, <1>0, <1>a DEF SetProcessLimits, Goto
<1> QED BY <1>1, <1>2, <1>3, <1>4, <1>5, <1>6, <1>7 DEF ProcStep

\* Only the bases enable controllers, and the groups that a path leads to.
LEMMA GroupsStep ==
  ASSUME TypeOK, StepInv, GroupsHoldProcesses, NEW p \in Procs, ProcStep(p)
  PROVE  GroupsHoldProcesses'
<1> SUFFICES ASSUME NEW g \in Groups, ~Undermined(g)' PROVE MayBind(g)'
  BY DEF GroupsHoldProcesses
<1>0. ~Undermined(g) /\ g \in Places /\ g # Top(RealRoot)
  BY StepFixed, UnderminedFixed, TopsApart, HierarchyAssumption DEF Places
<1>1. subtree[g] = {}
  BY <1>0 DEF GroupsHoldProcesses, MayBind
<1>2. subtree'[g] = subtree[g]
  <2>1. CASE EnableControllers(p)
    BY <2>1, <1>0, TopsApart DEF EnableControllers, StepInv, TypeOK
  <2>2. ASSUME NEW k \in Keys, SetLimit(p, k) PROVE subtree'[g] = subtree[g]
    <3> DEFINE h == LeadsTo(p, k).group  f == LeadsTo(p, k).file
    <3>1. k \in rreq[p].limits
      BY <2>2 DEF SetLimit, StepInv
    <3>2. h = g /\ f \in Reserved => k \in Reserved
      <4>1. k \in DOMAIN PathOf /\ h = g /\ f \in Reserved => Undermined(g)
        BY <3>1 DEF Undermined
      <4>2. k \notin DOMAIN PathOf => f = k
        BY DEF LeadsTo
      <4> QED BY <1>0, <4>1, <4>2
    <3>3. (k \notin Reserved /\ Write(p, h, f)) \/ UNCHANGED <<value, subtree>>
      BY <2>2 DEF SetLimit
    <3> HIDE DEF h, f
    <3> QED BY <1>0, <3>2, <3>3 DEF Write, TypeOK
  <2> QED BY <2>1, <2>2 DEF ProcStep, OpenBase, CreateSubtree, BindSupervisor,
                            AttachCgroup, SetProcessLimits
<1> QED BY <1>1, <1>2 DEF MayBind

\* Warnings are not taken back.
LEMMA WarningsKept ==
  ASSUME TypeOK, NEW p \in Procs, ProcStep(p), NEW q \in Procs
  PROVE  warned[q] \subseteq warned'[q]
BY DEF TypeOK, ProcStep, OpenBase, EnableControllers, CreateSubtree, SetLimit,
       BindSupervisor, AttachCgroup, SetProcessLimits, Goto, Warn, GiveUp

\* A limit in force stays in force: who overwrites it is of the same identity.
LEMMA ForceKept ==
  ASSUME TypeOK, StepInv, NEW p \in Procs, ProcStep(p),
         NEW q \in Procs, NEW k \in Keys, Base(q) \in Bases, InForce(q, k)
  PROVE  InForce(q, k)'
<1> DEFINE h == LeadsTo(q, k).group  e == LeadsTo(q, k).file
<1>1. Sharing(q, k)' = Sharing(q, k) /\ LeadsTo(q, k)' = LeadsTo(q, k)
  BY StepFixed, RequestFixed
<1>a. h \in Groups /\ e \in Keys
  BY KeyLeads
<1>2. CASE value' = value
  BY <1>1, <1>2, WarningsKept DEF InForce
<1>3. ASSUME NEW j \in Keys, SetLimit(p, j),
             value' = [value EXCEPT ![LeadsTo(p, j).group][LeadsTo(p, j).file] = p]
      PROVE  InForce(q, k)'
  <2> DEFINE g == LeadsTo(p, j).group  f == LeadsTo(p, j).file
  <2>1. Base(p) \in Bases /\ Limiting(p) /\ j \in rreq[p].limits
    BY <1>3 DEF SetLimit, StepInv, Limiting
  <2>a. g \in Groups /\ f \in Keys
    BY <2>1, KeyLeads
  <2>2. CASE LeadsTo(p, j) = LeadsTo(q, k)
    <3>1. p \in Sharing(q, k)
      BY <2>1, <2>2 DEF Sharing
    <3>2. value'[h][e] = p
      BY <1>3, <2>a, <2>2 DEF TypeOK
    <3> QED BY <3>1, <3>2, <1>1 DEF InForce
  <2>3. CASE LeadsTo(p, j) # LeadsTo(q, k)
    <3>1. g # h \/ f # e
      BY <2>3 DEF LeadsTo
    <3>2. value'[h][e] = value[h][e]
      <4> HIDE DEF g, f, h, e
      <4>1. value' = [value EXCEPT ![g][f] = p]
        BY <1>3 DEF g, f
      <4> QED BY <4>1, <3>1, <2>a, <1>a DEF TypeOK
    <3> QED BY <3>2, <1>1, WarningsKept DEF InForce
  <2> QED BY <2>2, <2>3
<1>4. ASSUME NEW j \in Keys, SetLimit(p, j) PROVE InForce(q, k)'
  BY <1>2, <1>3, <1>4 DEF SetLimit, Write
<1> QED BY <1>2, <1>4 DEF ProcStep, OpenBase, EnableControllers, CreateSubtree,
                         BindSupervisor, AttachCgroup, SetProcessLimits

\* The limits of a process that goes on are not touched by another's step.
LEMMA OthersKeep ==
  ASSUME TypeOK, NEW p \in Procs, ProcStep(p), NEW q \in Procs, q # p
  PROVE  rpc'[q] = rpc[q] /\ todo'[q] = todo[q] /\ group'[q] = group[q]
         /\ rlimit'[q] = rlimit[q]
BY DEF TypeOK, ProcStep, OpenBase, EnableControllers, CreateSubtree, SetLimit,
       BindSupervisor, AttachCgroup, SetProcessLimits, Goto, GiveUp

\* A container with limits is outside until it has tried them all.
LEMMA LimitStep ==
  ASSUME TypeOK, StepInv, LimitInv, NEW p \in Procs, ProcStep(p)
  PROVE  LimitInv'
<1> DEFINE Part(q) ==
      /\ rpc[q] \in {"open", "enable", "create", "set"} => group[q] = Outside
      /\ rpc[q] \in {"rlimits", "launched"} =>
           \/ group[q] = Own(q) /\ Own(q) \in exists /\ todo[q] = {}
           \/ group[q] = Outside /\ "cgroup" \in warned[q]
      /\ rpc[q] = "set" \/ group[q] # Outside =>
           \A k \in rreq[q].limits \ todo[q] : InForce(q, k)
<1> SUFFICES ASSUME NEW q \in Procs, Limiting(q)' PROVE Part(q)'
  BY DEF LimitInv
<1>0. rreq' = rreq /\ exists \subseteq exists'
  BY StepFixed DEF ProcStep, OpenBase, EnableControllers, CreateSubtree, SetLimit,
     BindSupervisor, AttachCgroup, SetProcessLimits
<1>1. Limiting(q) /\ Own(q)' = Own(q) /\ Base(q)' = Base(q) /\ Own(q) # Outside
  BY <1>0, RequestFixed, OwnGroup
<1>2. Part(q)
  BY <1>1 DEF LimitInv
<1>3. rreq[q].limits \in SUBSET Keys
  BY RequestFields DEF TypeOK
<1>4. rpc[q] = "set" \/ group[q] # Outside => Base(q) \in Bases
  <2>1. rpc[q] \in {"open", "enable", "create", "set", "rlimits", "launched"}
    BY <1>1 DEF StepInv, Limiting, TypeOK
  <2>2. Own(q) \in Groups => Base(q) \in Bases
    BY DEF Own, Groups
  <2> QED BY <1>2, <2>1, <2>2 DEF StepInv, TypeOK
<1>5. rpc[q] = "set" \/ group[q] # Outside =>
        \A k \in rreq[q].limits \ todo[q] : InForce(q, k)'
  BY <1>2, <1>3, <1>4, ForceKept
<1>6. CASE q # p
  BY <1>0, <1>1, <1>2, <1>5, <1>6, OthersKeep, WarningsKept
<1>7. CASE q = p
  <2> USE DEF TypeOK
  <2>1. CASE OpenBase(p)
    BY <1>0, <1>1, <1>2, <1>7, <2>1 DEF OpenBase, Goto, GiveUp, Warn, Limiting
  <2>2. CASE EnableControllers(p)
    BY <1>0, <1>1, <1>2, <1>7, <2>2 DEF EnableControllers, Goto
  <2>3. CASE CreateSubtree(p)
    <3>1. todo[p] = rreq[p].limits
      BY <2>3 DEF CreateSubtree, StepInv
    <3> QED BY <1>0, <1>1, <1>2, <1>7, <2>3, <3>1 DEF CreateSubtree, Goto, GiveUp, Warn
  <2>4. ASSUME NEW k \in Keys, SetLimit(p, k) PROVE Part(q)'
    <3>1. InForce(p, k)'
      <4> DEFINE g == LeadsTo(p, k).group  f == LeadsTo(p, k).file
      <4>1. k \in rreq[p].limits /\ g \in Groups /\ f \in Keys
        BY <2>4, <1>4, <1>7, KeyLeads DEF SetLimit, StepInv
      <4>2. CASE value' = [value EXCEPT ![g][f] = p]
        <5>1. value'[g][f] = p
          BY <4>1, <4>2
        <5>2. p \in Sharing(p, k) /\ Sharing(p, k)' = Sharing(p, k)
                /\ LeadsTo(p, k)' = LeadsTo(p, k)
          BY <4>1, <1>0, <1>1, <1>7, RequestFixed DEF Sharing
        <5> QED BY <5>1, <5>2 DEF InForce
      <4>3. CASE Warn(p, {k})
        BY <4>3 DEF Warn, InForce
      <4> QED BY <2>4, <4>2, <4>3 DEF SetLimit, Write
    <3>2. /\ rpc' = rpc /\ group' = group
          /\ todo'[p] = todo[p] \ {k} /\ rpc[p] = "set"
      BY <2>4 DEF SetLimit
    <3> QED BY <1>0, <1>1, <1>2, <1>5, <1>7, <3>1, <3>2
  <2>5. CASE BindSupervisor(p)
    <3>1. rpc[p] = "set" /\ todo[p] = {} /\ Own(p) \in exists
      BY <1>1, <1>7, <2>5 DEF BindSupervisor, StepInv, Limiting
    <3>2. todo'[p] = {} /\ rpc'[p] = "rlimits"
      BY <2>5, <3>1 DEF BindSupervisor, Goto, GiveUp
    <3>3. \/ group'[p] = Own(p)
          \/ group'[p] = Outside /\ "cgroup" \in warned'[p]
      BY <1>2, <1>7, <2>5, <3>1 DEF BindSupervisor, GiveUp, Warn
    <3> QED BY <1>0, <1>1, <1>5, <1>7, <3>1, <3>2, <3>3
  <2>6. CASE AttachCgroup(p)
    BY <1>1, <1>7, <2>6 DEF AttachCgroup, StepInv, Limiting
  <2>7. CASE SetProcessLimits(p)
    <3>1. /\ rpc[p] = "rlimits" /\ rpc'[p] = "launched"
          /\ group' = group /\ todo' = todo
      BY <2>7 DEF SetProcessLimits, Goto
    <3> QED BY <1>0, <1>1, <1>2, <1>5, <1>7, <3>1, WarningsKept
  <2> QED BY <2>1, <2>2, <2>3, <2>4, <2>5, <2>6, <2>7 DEF ProcStep
<1> QED BY <1>6, <1>7

\* A process that is launched takes no further step.
LEMMA LaunchedIsLast ==
  ASSUME TypeOK, NEW p \in Procs, ProcStep(p)
  PROVE  rpc[p] # "launched"
BY DEF ProcStep, OpenBase, EnableControllers, CreateSubtree, SetLimit, BindSupervisor,
       AttachCgroup, SetProcessLimits

\* An attach comes after its container, and goes where that is.
LEMMA AttachStep ==
  ASSUME TypeOK, StepInv, LimitInv, AttachInv, NEW p \in Procs, ProcStep(p)
  PROVE  AttachInv'
<1> DEFINE Part(q, t) ==
      rreq[q].kind = "attach" /\ rpc[q] \in {"rlimits", "launched"} =>
        /\ rpc[t] = "launched"
        /\ Own(q) = Own(t) /\ rreq[t].limited /\ group[t] # Outside
             => group[q] = group[t] \/ "cgroup" \in warned[q]
<1>0. rreq' = rreq
  BY StepFixed
<1> SUFFICES ASSUME NEW q \in Procs, rreq[q].kind = "attach" PROVE Part(q, rreq[q].target)'
  BY <1>0 DEF AttachInv
<1> DEFINE t == rreq[q].target
<1>1. t \in Procs /\ rreq[t].kind = "create"
  BY RequestFields DEF TypeOK
<1>2. /\ Own(q)' = Own(q) /\ Own(t)' = Own(t)
      /\ Part(q, t)
  BY <1>0, <1>1, RequestFixed DEF AttachInv
<1>3. rpc[t] = "launched" => t # p
  BY LaunchedIsLast
<1>4. rpc[t] = "launched" => rpc'[t] = "launched" /\ group'[t] = group[t]
  BY <1>1, <1>3, OthersKeep
<1>5. CASE q # p
  BY <1>0, <1>2, <1>4, <1>5, OthersKeep, WarningsKept
<1>6. CASE q = p
  <2>1. CASE AttachCgroup(p)
    <3>1. rpc[t] = "launched"
      BY <1>6, <2>1 DEF AttachCgroup
    <3>2. rreq[t].limited /\ group[t] # Outside => group[t] = Own(t) /\ Own(t) \in exists
      BY <1>1, <3>1 DEF LimitInv, Limiting
    <3>3. Own(p) \in exists => group'[p] = Own(p) \/ "cgroup" \in warned'[p]
      BY <2>1 DEF AttachCgroup, GiveUp, Warn, TypeOK
    <3> QED BY <1>0, <1>2, <1>4, <1>6, <3>1, <3>2, <3>3
  <2>2. CASE SetProcessLimits(p)
    <3>1. rpc[p] = "rlimits" /\ group' = group
      BY <2>2 DEF SetProcessLimits
    <3> QED BY <1>0, <1>2, <1>4, <1>6, <3>1, WarningsKept
  <2> QED BY <1>6, <2>1, <2>2 DEF ProcStep, OpenBase, EnableControllers, CreateSubtree,
                                 SetLimit, BindSupervisor, StepInv
<1> QED BY <1>5, <1>6

\* A process limit that was not set comes at or after a refusal.
LEMMA RlimitStep ==
  ASSUME TypeOK, RlimitShortfallHasCause, NEW p \in Procs, ProcStep(p)
  PROVE  RlimitShortfallHasCause'
<1> DEFINE Part(q, i) ==
      rpc[q] = "launched" /\ rreq[q].given =>
        \/ /\ Order[i] \in DOMAIN rlimit[q]
           /\ rlimit[q][Order[i]].cur = Wanted(q, Order[i])
           /\ rlimit[q][Order[i]].max = Wanted(q, Order[i])
        \/ "rlimits" \in warned[q] /\ \E j \in 1 .. i : Refused(q, Order[j])
<1> SUFFICES ASSUME NEW q \in Procs, NEW i \in 1 .. Len(Order) PROVE Part(q, i)'
  BY DEF RlimitShortfallHasCause
<1>1. /\ rreq' = rreq
      /\ \A r : Wanted(q, r)' = Wanted(q, r) /\ Refused(q, r)' = Refused(q, r)
  BY StepFixed, RequestFixed
<1>2. Part(q, i)
  BY DEF RlimitShortfallHasCause
<1>3. CASE q # p
  BY <1>1, <1>2, <1>3, OthersKeep, WarningsKept
<1>4. CASE q = p /\ SetProcessLimits(p)
  <2> SUFFICES ASSUME rreq[p].given PROVE Part(q, i)'
    BY <1>1, <1>4
  <2>1. /\ rlimit'[p] = [r \in Applied(p) |-> ProcessLimit(p, r)]
        /\ Applied(p) # Resource => "rlimits" \in warned'[p]
    BY <1>4 DEF SetProcessLimits, Warn, TypeOK
  <2>2. CASE Order[i] \in Applied(p)
    BY <1>1, <1>4, <2>1, <2>2 DEF ProcessLimit
  <2>3. CASE Order[i] \notin Applied(p)
    <3>1. \E j \in 1 .. i : Refused(p, Order[j])
      BY <2>3 DEF Applied
    <3>2. Order[i] \in Resource
      BY DEF Resource
    <3> QED BY <1>1, <1>4, <2>1, <2>3, <3>1, <3>2
  <2> QED BY <2>2, <2>3
<1>5. CASE q = p /\ ~SetProcessLimits(p)
  <2>1. rpc'[p] # "launched"
    BY <1>5, LaunchedIsLast DEF ProcStep, OpenBase, EnableControllers, CreateSubtree,
       SetLimit, BindSupervisor, AttachCgroup, Goto, GiveUp, TypeOK
  <2> QED BY <1>5, <2>1
<1> QED BY <1>3, <1>4, <1>5

-----------------------------------------------------------------------------
(* Theorems. *)

\* The invariant holds at first.
LEMMA InitInvariant == Init => IInv
<1> SUFFICES ASSUME Init PROVE IInv  OBVIOUS
<1>1. TypeOK
  <2>1. Leftover \subseteq Groups
    BY HierarchyAssumption DEF Groups, Identities
  <2>2. \A p \in Procs : rreq[p] \in Requests[p]
    BY DEF Init
  <2>3. value \in [Groups -> [Keys -> Procs \cup {"stale", "unset"}]]
    BY DEF Init
  <2>4. rpc \in [Procs -> {"open", "enable", "create", "set", "bind_base", "await",
                          "rlimits", "launched"}]
    BY DEF Init
  <2> QED BY <2>1, <2>2, <2>3, <2>4 DEF Init, TypeOK
<1>2. StepInv /\ LimitInv /\ AttachInv
  <2>1. \A p \in Procs : rreq[p].kind \in {"create", "attach"}
    BY <1>1, RequestFields DEF TypeOK
  <2> QED BY <2>1 DEF Init, StepInv, LimitInv, AttachInv, Limiting
<1>3. GroupsHoldProcesses
  BY DEF Init, GroupsHoldProcesses, MayBind, Places
<1>4. RlimitShortfallHasCause
  BY DEF Init, RlimitShortfallHasCause
<1> QED BY <1>1, <1>2, <1>3, <1>4 DEF IInv

\* The invariant holds throughout: when each process tries its limits, when it
\* is bound, and where an attach finds its container.
THEOREM Invariance == Spec => []IInv
<1>1. IInv /\ [Next]_vars => IInv'
  <2> SUFFICES ASSUME IInv, [Next]_vars PROVE IInv'  OBVIOUS
  <2>1. ASSUME NEW p \in Procs, ProcStep(p) PROVE IInv'
    BY <2>1, TypeStep, StepStep, LimitStep, AttachStep, GroupsStep, RlimitStep DEF IInv
  <2>2. CASE UNCHANGED vars
    <3> USE <2>2 DEF vars
    <3>1. TypeOK'  BY DEF IInv, TypeOK
    <3>2. StepInv'  BY DEF IInv, StepInv, Own, Base, Identity
    <3>3. LimitInv'
      <4>1. \A p \in Procs : Limiting(p)' = Limiting(p) /\ Own(p)' = Own(p)
        BY RequestFixed
      <4>2. \A p \in Procs : \A k : InForce(p, k)' = InForce(p, k)
        BY RequestFixed DEF InForce
      <4> QED BY <4>1, <4>2 DEF IInv, LimitInv
    <3>4. AttachInv'  BY DEF IInv, AttachInv, Own, Base, Identity
    <3>5. GroupsHoldProcesses'
      BY UnderminedFixed DEF IInv, GroupsHoldProcesses, MayBind
    <3>6. RlimitShortfallHasCause'
      BY DEF IInv, RlimitShortfallHasCause, Wanted, Refused, Inherited
    <3> QED BY <3>1, <3>2, <3>3, <3>4, <3>5, <3>6 DEF IInv
  <2> QED BY <2>1, <2>2 DEF Next
<1> QED BY <1>1, InitInvariant, PTL DEF Spec

\* No container with limits is in its group before each has been set or warned
\* about, nor launched outside it without a warning.
THEOREM NothingIsSilent == Spec => []NoSilentShortfall
<1>1. IInv => NoSilentShortfall
  <2> SUFFICES ASSUME IInv, NEW p \in Procs, Limiting(p)
      PROVE  /\ group[p] # Outside => /\ group[p] = Own(p)
                                      /\ \A k \in rreq[p].limits : InForce(p, k)
             /\ rpc[p] = "launched" /\ group[p] = Outside => "cgroup" \in warned[p]
    BY DEF NoSilentShortfall
  <2>1. rpc[p] \in {"open", "enable", "create", "set", "rlimits", "launched"}
    BY DEF IInv, StepInv, TypeOK, Limiting
  <2>2. Own(p) # Outside
    BY OwnGroup DEF IInv
  <2> QED BY <2>1, <2>2 DEF IInv, LimitInv
<1> QED BY <1>1, Invariance, PTL

\* No limit makes a group unfit to hold processes, but for a key that is a path.
THEOREM GroupsStayUsable == Spec => []GroupsHoldProcesses
<1>1. IInv => GroupsHoldProcesses  BY DEF IInv
<1> QED BY <1>1, Invariance, PTL

\* An attached process is accounted with its container, or has warned.
THEOREM AttachIsAccounted == Spec => []AttachedIsAccounted
<1>1. IInv => AttachedIsAccounted  BY DEF IInv, AttachInv, AttachedIsAccounted
<1> QED BY <1>1, Invariance, PTL

\* A process limit that is not as asked has a cause and a warning.
THEOREM ShortfallHasCause == Spec => []RlimitShortfallHasCause
<1>1. IInv => RlimitShortfallHasCause  BY DEF IInv
<1> QED BY <1>1, Invariance, PTL
=============================================================================
