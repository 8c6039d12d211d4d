----------------------------- MODULE PreexecProofs -----------------------------
(***************************************************************************)
(* Proofs about Preexec, for every set of capabilities and ids, every      *)
(* request and every caller.                                               *)
(***************************************************************************)
EXTENDS PreexecProps, TLAPS

\* The lists of a request name capabilities, or are in error.
LEMMA BitsAreCaps ==
  ASSUME TypeOK
  PROVE  /\ Drop \subseteq Caps /\ Raise \subseteq Caps /\ Ambient \subseteq Caps
         /\ Unwanted \subseteq Caps /\ Unwanted \subseteq Drop
         /\ Unwanted \cap (Raise \cup Ambient) = {}
BY DEF Drop, Raise, Ambient, Unwanted, Bits

\* capset leaves everything but the four sets.
LEMMA WithCapsFields ==
  ASSUME NEW c \in Credentials, NEW caps
  PROVE  /\ WithCaps(c, caps).uid = c.uid /\ WithCaps(c, caps).gid = c.gid
         /\ WithCaps(c, caps).groups = c.groups
         /\ WithCaps(c, caps).bounding = c.bounding
         /\ WithCaps(c, caps).fixup = c.fixup
         /\ WithCaps(c, caps).mapped = c.mapped
         /\ WithCaps(c, caps).setgroups = c.setgroups
         /\ WithCaps(c, caps).effective = caps
         /\ WithCaps(c, caps).permitted = caps
         /\ WithCaps(c, caps).inheritable = caps
         /\ WithCaps(c, caps).ambient = c.ambient \cap caps
BY DEF WithCaps, Credentials

\* A prctl changes one set.
LEMMA BoundingField ==
  ASSUME NEW c \in Credentials, NEW caps \in SUBSET Caps
  PROVE  LET d == WithBounding(c, caps) IN
         /\ d \in Credentials
         /\ d.bounding = caps /\ d.ambient = c.ambient /\ d.permitted = c.permitted
         /\ d.effective = c.effective /\ d.inheritable = c.inheritable
         /\ d.fixup = c.fixup /\ d.mapped = c.mapped /\ d.setgroups = c.setgroups
         /\ d.uid = c.uid /\ d.gid = c.gid /\ d.groups = c.groups
BY DEF WithBounding, Credentials

LEMMA AmbientField ==
  ASSUME NEW c \in Credentials, NEW caps \in SUBSET Caps
  PROVE  LET d == WithAmbient(c, caps) IN
         /\ d \in Credentials
         /\ d.ambient = caps /\ d.bounding = c.bounding /\ d.permitted = c.permitted
         /\ d.effective = c.effective /\ d.inheritable = c.inheritable
         /\ d.fixup = c.fixup /\ d.mapped = c.mapped /\ d.setgroups = c.setgroups
         /\ d.uid = c.uid /\ d.gid = c.gid /\ d.groups = c.groups
BY DEF WithAmbient, Credentials

\* A step keeps the types.
LEMMA TypeStep ==
  ASSUME TypeOK, [Next]_vars
  PROVE  TypeOK'
<1> USE BitsAreCaps, CallersAssumption, RequestsAssumption DEF TypeOK, Steps, Ends
<1>1. CASE SetKeepCaps
  BY <1>1 DEF SetKeepCaps, Fail, Credentials
<1>2. CASE ApplyGid
  BY <1>2 DEF ApplyGid, Credentials, Request
<1>3. CASE ApplyGroups
  BY <1>3 DEF ApplyGroups, Credentials
<1>4. CASE ApplyUid
  BY <1>4 DEF ApplyUid, Credentials, Request, SetUid
<1>5. CASE ParseNames
  BY <1>5 DEF ParseNames, Fail
<1>6. CASE DropBounding
  BY <1>6 DEF DropBounding, Fail, Credentials, WithBounding
<1>7. CASE Capset
  <2>1. WithCaps(cred, Synchronized) \in Credentials
    BY DEF WithCaps, Synchronized, Credentials
  <2> QED
    BY <1>7, <2>1 DEF Capset, Fail
<1>8. CASE LowerAmbient
  BY <1>8 DEF LowerAmbient, Credentials, WithAmbient
<1>9. CASE RaiseAmbient
  BY <1>9 DEF RaiseAmbient, Fail, Credentials, WithAmbient
<1>10. CASE SetNoNewPrivs
  BY <1>10 DEF SetNoNewPrivs, Credentials, Request
<1>11. CASE InstallFilter
  BY <1>11 DEF InstallFilter, Fail, Credentials
<1>12. CASE Execute
  <2>1. AfterExec(cred) \in Credentials
    BY DEF AfterExec, Credentials
  <2> QED
    BY <1>12, <2>1 DEF Execute
<1>13. CASE UNCHANGED vars
  BY <1>13 DEF vars
<1> QED
  BY <1>1, <1>2, <1>3, <1>4, <1>5, <1>6, <1>7, <1>8, <1>9, <1>10,
     <1>11, <1>12, <1>13 DEF Next

\* A step changes neither the user namespace nor, after the first, the fixup.
LEMMA FixedStep ==
  ASSUME TypeOK, FixedInv, [Next]_vars
  PROVE  FixedInv'
<1> USE DEF FixedInv, TypeOK, Steps, Ends, Credentials
<1>1. CASE SetKeepCaps
  BY <1>1 DEF SetKeepCaps, Fail
<1>2. CASE ApplyGid
  BY <1>2 DEF ApplyGid
<1>3. CASE ApplyGroups
  BY <1>3 DEF ApplyGroups
<1>4. CASE ApplyUid
  BY <1>4 DEF ApplyUid, SetUid
<1>5. CASE ParseNames
  BY <1>5 DEF ParseNames, Fail
<1>6. CASE DropBounding
  BY <1>6 DEF DropBounding, Fail, WithBounding
<1>7. CASE Capset
  <2>1. CASE pc' = "failed"
    BY <1>7, <2>1 DEF Capset, Fail
  <2>2. CASE cred' = WithCaps(cred, Synchronized) /\ pc' = "lower"
    BY <1>7, <2>2, WithCapsFields DEF Capset
  <2> QED
    BY <1>7, <2>1, <2>2 DEF Capset, Fail
<1>8. CASE LowerAmbient
  BY <1>8 DEF LowerAmbient, WithAmbient
<1>9. CASE RaiseAmbient
  BY <1>9 DEF RaiseAmbient, Fail, WithAmbient
<1>10. CASE SetNoNewPrivs
  BY <1>10 DEF SetNoNewPrivs
<1>11. CASE InstallFilter
  BY <1>11 DEF InstallFilter, Fail
<1>12. CASE Execute
  BY <1>12 DEF Execute, AfterExec
<1>13. CASE UNCHANGED vars
  BY <1>13 DEF vars
<1> QED
  BY <1>1, <1>2, <1>3, <1>4, <1>5, <1>6, <1>7, <1>8, <1>9, <1>10,
     <1>11, <1>12, <1>13 DEF Next

\* A step keeps the capability sets as far as they have come.
LEMMA SetsStep ==
  ASSUME TypeOK, FixedInv, SetsInv, [Next]_vars
  PROVE  SetsInv'
<1> USE BitsAreCaps
<1>a. UNCHANGED <<req, caller>>
  BY DEF Next, vars, SetKeepCaps, ApplyGid, ApplyGroups, ApplyUid, ParseNames,
     DropBounding, Capset, LowerAmbient, RaiseAmbient, SetNoNewPrivs,
     InstallFilter, Execute
<1>b. UNCHANGED <<Kept, AmbientKept, BoundingKept, InheritableKept, Drop, Raise,
                  Ambient, Unwanted>>
  BY <1>a DEF Kept, AmbientKept, BoundingKept, InheritableKept, Drop, Raise,
     Ambient, Unwanted
<1>1. CASE SetKeepCaps
  BY <1>1, <1>a, <1>b DEF SetKeepCaps, Fail, Known, SetsInv, FixedInv, TypeOK,
       Steps, Ends, Credentials, BeforeCapset, AfterCaps
<1>2. CASE ApplyGid
  BY <1>2, <1>a, <1>b DEF ApplyGid, Known, SetsInv, FixedInv, TypeOK,
       Steps, Ends, Credentials, BeforeCapset, AfterCaps
<1>3. CASE ApplyGroups
  BY <1>3, <1>a, <1>b DEF ApplyGroups, Known, SetsInv, FixedInv, TypeOK,
       Steps, Ends, Credentials, BeforeCapset, AfterCaps
<1>4. CASE ApplyUid
  BY <1>4, <1>a, <1>b DEF ApplyUid, SetUid, Kept, AmbientKept, BoundingKept, InheritableKept, Known, SetsInv, FixedInv, TypeOK,
       Steps, Ends, Credentials, BeforeCapset, AfterCaps
<1>5. CASE ParseNames
  <2>1. CASE pc' = "failed"
    BY <1>5, <2>1, <1>a, <1>b DEF ParseNames, Fail, Known, SetsInv, FixedInv, TypeOK,
       Steps, Ends, Credentials, BeforeCapset, AfterCaps
  <2>2. CASE pc' = "bounding"
    <3>1. caller.bounding \ (Unwanted \ Unwanted) = caller.bounding
      OBVIOUS
    <3>2. req.caps
      BY <1>5 DEF ParseNames, SetsInv
    <3> QED
      BY <1>5, <2>2, <3>1, <3>2, <1>a, <1>b DEF ParseNames, Fail, Known, SetsInv, FixedInv, TypeOK,
       Steps, Ends, Credentials, BeforeCapset, AfterCaps
  <2> QED
    BY <1>5, <2>1, <2>2 DEF ParseNames, Fail
<1>6. CASE DropBounding
  <2>1. CASE pc' = "failed"
    BY <1>6, <2>1, <1>a, <1>b DEF DropBounding, Fail, Known, SetsInv, FixedInv, TypeOK,
       Steps, Ends, Credentials, BeforeCapset, AfterCaps
  <2>2. CASE \E cap \in todo : /\ cred' = WithBounding(cred, cred.bounding \ {cap})
                              /\ todo' = todo \ {cap} /\ UNCHANGED pc
    <3>1. PICK cap \in todo : /\ cred' = WithBounding(cred, cred.bounding \ {cap})
                              /\ todo' = todo \ {cap} /\ UNCHANGED pc
      BY <2>2
    <3>2. pc = "bounding" /\ todo \subseteq Unwanted
      BY <1>6 DEF DropBounding, SetsInv
    <3>3. /\ cred'.bounding = cred.bounding \ {cap}
          /\ cred'.permitted = cred.permitted /\ cred'.effective = cred.effective
          /\ cred'.inheritable = cred.inheritable /\ cred'.ambient = cred.ambient
      BY <3>1, BoundingField, cred.bounding \ {cap} \in SUBSET Caps DEF TypeOK, Credentials
    <3>4. (caller.bounding \ (Unwanted \ todo)) \ {cap}
            = caller.bounding \ (Unwanted \ (todo \ {cap}))
      BY <3>1, <3>2
    <3> QED
      BY <3>1, <3>2, <3>3, <3>4, <1>a, <1>b DEF Known, SetsInv, FixedInv, TypeOK,
       Steps, Ends, Credentials, BeforeCapset, AfterCaps
  <2>3. CASE todo = {} /\ pc' = "capset" /\ UNCHANGED <<cred, todo>>
    BY <1>6, <2>3, <1>a, <1>b DEF DropBounding, BoundingKept, Unwanted, Known, SetsInv, FixedInv, TypeOK,
       Steps, Ends, Credentials, BeforeCapset, AfterCaps
  <2>4. \/ pc' = "failed"
        \/ \E cap \in todo : /\ cred' = WithBounding(cred, cred.bounding \ {cap})
                             /\ todo' = todo \ {cap} /\ UNCHANGED pc
        \/ todo = {} /\ pc' = "capset" /\ UNCHANGED <<cred, todo>>
    BY <1>6 DEF DropBounding, Fail
  <2> QED
    BY <2>1, <2>2, <2>3, <2>4
<1>7. CASE Capset
  <2>1. CASE pc' = "failed"
    BY <1>7, <2>1, <1>a, <1>b DEF Capset, Fail, Known, SetsInv, FixedInv, TypeOK,
       Steps, Ends, Credentials, BeforeCapset, AfterCaps
  <2>2. CASE cred' = WithCaps(cred, Synchronized) /\ pc' = "lower" /\ todo' = Drop
    <3>1. Synchronized = Kept
      BY <1>7 DEF Capset, Synchronized, Kept, SetsInv, BeforeCapset
    <3> QED
      BY <1>7, <2>2, <3>1, <1>a, <1>b, WithCapsFields DEF Capset, Known, SetsInv, FixedInv, TypeOK,
       Steps, Ends, Credentials, BeforeCapset, AfterCaps
  <2> QED
    BY <1>7, <2>1, <2>2 DEF Capset, Fail
<1>8. CASE LowerAmbient
  <2>1. CASE \E cap \in todo : /\ cred' = WithAmbient(cred, cred.ambient \ {cap})
                              /\ todo' = todo \ {cap} /\ UNCHANGED pc
    <3>1. PICK cap \in todo : /\ cred' = WithAmbient(cred, cred.ambient \ {cap})
                              /\ todo' = todo \ {cap} /\ UNCHANGED pc
      BY <2>1
    <3>2. pc = "lower" /\ todo \subseteq Drop
      BY <1>8 DEF LowerAmbient, SetsInv
    <3>3. /\ cred'.ambient = cred.ambient \ {cap}
          /\ cred'.permitted = cred.permitted /\ cred'.effective = cred.effective
          /\ cred'.inheritable = cred.inheritable /\ cred'.bounding = cred.bounding
      BY <3>1, AmbientField, cred.ambient \ {cap} \in SUBSET Caps DEF TypeOK, Credentials
    <3>4. ((caller.ambient \cap Kept) \ (Drop \ todo)) \ {cap}
            = (caller.ambient \cap Kept) \ (Drop \ (todo \ {cap}))
      BY <3>1, <3>2
    <3> QED
      BY <3>1, <3>2, <3>3, <3>4, <1>a, <1>b DEF Known, SetsInv, FixedInv, TypeOK,
       Steps, Ends, Credentials, BeforeCapset, AfterCaps
  <2>2. CASE todo = {} /\ pc' = "ambient" /\ todo' = Ambient /\ UNCHANGED cred
    BY <1>8, <2>2, <1>a, <1>b DEF LowerAmbient, Known, SetsInv, FixedInv, TypeOK,
       Steps, Ends, Credentials, BeforeCapset, AfterCaps
  <2> QED
    BY <1>8, <2>1, <2>2 DEF LowerAmbient
<1>9. CASE RaiseAmbient
  <2>1. CASE pc' = "failed"
    BY <1>9, <2>1, <1>a, <1>b DEF RaiseAmbient, Fail, Known, SetsInv, FixedInv, TypeOK,
       Steps, Ends, Credentials, BeforeCapset, AfterCaps
  <2>2. CASE \E cap \in todo : /\ cred' = WithAmbient(cred, cred.ambient \cup {cap})
                              /\ todo' = todo \ {cap} /\ UNCHANGED pc
    <3>1. PICK cap \in todo : /\ cred' = WithAmbient(cred, cred.ambient \cup {cap})
                              /\ todo' = todo \ {cap} /\ UNCHANGED pc
      BY <2>2
    <3>2. pc = "ambient" /\ todo \subseteq Ambient
      BY <1>9 DEF RaiseAmbient, SetsInv
    <3>3. /\ cred'.ambient = cred.ambient \cup {cap}
          /\ cred'.permitted = cred.permitted /\ cred'.effective = cred.effective
          /\ cred'.inheritable = cred.inheritable /\ cred'.bounding = cred.bounding
      BY <3>1, AmbientField, cred.ambient \cup {cap} \in SUBSET Caps DEF TypeOK, Credentials
    <3>4. (Ambient \ todo) \cup {cap} = Ambient \ (todo \ {cap})
      BY <3>1, <3>2
    <3> QED
      BY <3>1, <3>2, <3>3, <3>4, <1>a, <1>b DEF Known, SetsInv, FixedInv, TypeOK,
       Steps, Ends, Credentials, BeforeCapset, AfterCaps
  <2>3. CASE todo = {} /\ pc' = "nnp" /\ UNCHANGED <<cred, todo>>
    BY <1>9, <2>3, <1>a, <1>b DEF RaiseAmbient, AmbientKept, InheritableKept, Known, SetsInv, FixedInv, TypeOK,
       Steps, Ends, Credentials, BeforeCapset, AfterCaps
  <2>4. \/ pc' = "failed"
        \/ \E cap \in todo : /\ cred' = WithAmbient(cred, cred.ambient \cup {cap})
                             /\ todo' = todo \ {cap} /\ UNCHANGED pc
        \/ todo = {} /\ pc' = "nnp" /\ UNCHANGED <<cred, todo>>
    BY <1>9 DEF RaiseAmbient, Fail
  <2> QED
    BY <2>1, <2>2, <2>3, <2>4
<1>10. CASE SetNoNewPrivs
  BY <1>10, <1>a, <1>b DEF SetNoNewPrivs, Known, SetsInv, FixedInv, TypeOK,
       Steps, Ends, Credentials, BeforeCapset, AfterCaps
<1>11. CASE InstallFilter
  BY <1>11, <1>a, <1>b DEF InstallFilter, Fail, Known, SetsInv, FixedInv, TypeOK,
       Steps, Ends, Credentials, BeforeCapset, AfterCaps
<1>12. CASE Execute
  BY <1>12, <1>a, <1>b DEF Execute, AfterExec, Known, SetsInv, FixedInv, TypeOK,
       Steps, Ends, Credentials, BeforeCapset, AfterCaps
<1>13. CASE UNCHANGED vars
  BY <1>13, <1>a, <1>b DEF vars, Known, SetsInv, FixedInv, TypeOK,
       Steps, Ends, Credentials, BeforeCapset, AfterCaps
<1> QED
  BY <1>1, <1>2, <1>3, <1>4, <1>5, <1>6, <1>7, <1>8, <1>9, <1>10,
     <1>11, <1>12, <1>13 DEF Next

\* A step keeps the ids once they are set.
LEMMA IdsStep ==
  ASSUME TypeOK, FixedInv, SetsInv, IdsInv, [Next]_vars
  PROVE  IdsInv'
<1> USE IdsAssumption DEF IdsInv, FixedInv, TypeOK, Steps, Ends, Credentials, SetsInv, BeforeCapset
<1>1. CASE SetKeepCaps
  BY <1>1 DEF SetKeepCaps, Fail
<1>2. CASE ApplyGid
  BY <1>2 DEF ApplyGid
<1>3. CASE ApplyGroups
  BY <1>3 DEF ApplyGroups
<1>4. CASE ApplyUid
  BY <1>4 DEF ApplyUid, SetUid
<1>5. CASE ParseNames
  BY <1>5 DEF ParseNames, Fail
<1>6. CASE DropBounding
  BY <1>6 DEF DropBounding, Fail, WithBounding
<1>7. CASE Capset
  <2>1. CASE pc' = "failed"
    BY <1>7, <2>1 DEF Capset, Fail
  <2>2. CASE cred' = WithCaps(cred, Synchronized) /\ pc' = "lower"
    BY <1>7, <2>2, WithCapsFields DEF Capset
  <2> QED
    BY <1>7, <2>1, <2>2 DEF Capset, Fail
<1>8. CASE LowerAmbient
  BY <1>8 DEF LowerAmbient, WithAmbient
<1>9. CASE RaiseAmbient
  BY <1>9 DEF RaiseAmbient, Fail, WithAmbient
<1>10. CASE SetNoNewPrivs
  BY <1>10 DEF SetNoNewPrivs
<1>11. CASE InstallFilter
  BY <1>11 DEF InstallFilter, Fail
<1>12. CASE Execute
  BY <1>12 DEF Execute, AfterExec
<1>13. CASE UNCHANGED vars
  BY <1>13 DEF vars
<1> QED
  BY <1>1, <1>2, <1>3, <1>4, <1>5, <1>6, <1>7, <1>8, <1>9, <1>10,
     <1>11, <1>12, <1>13 DEF Next

\* The invariant holds of a process that has not begun.
LEMMA InitInvariant == Init => IInv
<1> SUFFICES ASSUME Init PROVE IInv
  OBVIOUS
<1> USE DEF Init
<1>1. TypeOK
  BY CallersAssumption DEF TypeOK, Steps
<1>2. FixedInv
  BY DEF FixedInv
<1>3. SetsInv
  BY DEF SetsInv, BeforeCapset, AfterCaps
<1>4. IdsInv
  BY DEF IdsInv
<1>5. WorkloadCapabilities /\ DroppedForGood /\ AmbientArrives /\ IdentityAssumed
      /\ FailsOnlyForCause
  BY DEF WorkloadCapabilities, DroppedForGood, AmbientArrives, IdentityAssumed,
     FailsOnlyForCause
<1> QED
  BY <1>1, <1>2, <1>3, <1>4, <1>5 DEF IInv

\* No step changes what was asked for, or what the process had at first.
LEMMA RequestFixed ==
  ASSUME [Next]_vars
  PROVE  /\ UNCHANGED <<req, caller, Kept, AmbientKept, BoundingKept,
                        InheritableKept, Drop, Raise, Ambient>>
         /\ Known(req.drop)' = Known(req.drop)
         /\ Known(req.raise)' = Known(req.raise)
         /\ Known(req.raise_ambient)' = Known(req.raise_ambient)
<1>1. UNCHANGED <<req, caller>>
  BY DEF Next, vars, SetKeepCaps, ApplyGid, ApplyGroups, ApplyUid, ParseNames,
     DropBounding, Capset, LowerAmbient, RaiseAmbient, SetNoNewPrivs,
     InstallFilter, Execute
<1> QED
  BY <1>1 DEF Kept, AmbientKept, BoundingKept, InheritableKept, Drop, Raise,
     Ambient, Known

\* execve is the one step that launches the workload.
LEMMA OnlyExecuteLaunches ==
  ASSUME [Next]_vars, pc' = "launched"
  PROVE  \/ UNCHANGED vars
         \/ pc = "exec" /\ cred' = AfterExec(cred)
<1>1. CASE UNCHANGED vars
  BY <1>1
<1>2. CASE Next
  BY <1>2 DEF Next, SetKeepCaps, ApplyGid, ApplyGroups, ApplyUid, ParseNames,
     DropBounding, Capset, LowerAmbient, RaiseAmbient, SetNoNewPrivs,
     InstallFilter, Execute, Fail
<1> QED
  BY <1>1, <1>2

\* What execve leaves of the credentials.
LEMMA AfterExecFields ==
  ASSUME NEW c \in Credentials
  PROVE  LET d == AfterExec(c)
             gained == IF c.uid # 0 THEN {}
                       ELSE IF c.nnp THEN (c.inheritable \cup c.bounding) \cap c.permitted
                       ELSE c.inheritable \cup c.bounding
         IN /\ d.uid = c.uid /\ d.gid = c.gid /\ d.groups = c.groups /\ d.nnp = c.nnp
            /\ d.inheritable = c.inheritable /\ d.ambient = c.ambient
            /\ d.bounding = c.bounding
            /\ d.permitted = gained \cup c.ambient
            /\ d.effective = gained \cup c.ambient
BY DEF AfterExec, Credentials

\* What the workload starts with follows from what the sets have come to.
LEMMA LaunchStep ==
  ASSUME IInv, [Next]_vars
  PROVE  /\ WorkloadCapabilities' /\ DroppedForGood' /\ AmbientArrives'
         /\ IdentityAssumed'
<1> USE RequestFixed
<1>1. CASE pc' # "launched"
  BY <1>1 DEF WorkloadCapabilities, DroppedForGood, AmbientArrives, IdentityAssumed
<1>2. CASE UNCHANGED vars
  BY <1>2 DEF vars, IInv, WorkloadCapabilities, DroppedForGood, AmbientArrives,
     IdentityAssumed
<1>3. CASE pc = "exec" /\ cred' = AfterExec(cred)
  <2>1. /\ cred \in Credentials
        /\ cred.permitted = Kept /\ cred.inheritable = InheritableKept
        /\ cred.ambient = AmbientKept /\ cred.bounding = BoundingKept
    BY <1>3 DEF IInv, TypeOK, SetsInv, AfterCaps
  <2> USE AfterExecFields
  <2>2. WorkloadCapabilities'
    BY <1>3, <2>1 DEF WorkloadCapabilities
  <2>3. DroppedForGood'
    BY <1>3, <2>1 DEF DroppedForGood, Kept, AmbientKept, BoundingKept, InheritableKept
  <2>4. AmbientArrives'
    BY <1>3, <2>1 DEF AmbientArrives, AmbientKept
  <2>5. IdentityAssumed'
    BY <1>3, <2>1 DEF IdentityAssumed, IInv, IdsInv, Steps
  <2> QED
    BY <2>2, <2>3, <2>4, <2>5
<1> QED
  BY <1>1, <1>2, <1>3, OnlyExecuteLaunches

\* A step that fails has one of the causes.
LEMMA FailStep ==
  ASSUME IInv, [Next]_vars
  PROVE  FailsOnlyForCause'
<1> USE RequestFixed
<1>1. CASE pc' # "failed"
  BY <1>1 DEF FailsOnlyForCause
<1>2. CASE UNCHANGED vars
  BY <1>2 DEF vars, IInv, FailsOnlyForCause
<1>3. CASE SetKeepCaps /\ pc' = "failed"
  BY <1>3 DEF SetKeepCaps, FailsOnlyForCause, IInv, FixedInv
<1>4. CASE ParseNames /\ pc' = "failed"
  BY <1>4 DEF ParseNames, FailsOnlyForCause, IInv, SetsInv
<1>5. CASE DropBounding /\ pc' = "failed"
  BY <1>5 DEF DropBounding, FailsOnlyForCause, IInv, FixedInv, SetsInv, BeforeCapset, Steps
<1>6. CASE Capset /\ pc' = "failed"
  <2>1. /\ pc = "capset" /\ req.caps /\ SETPCAP \in caller.effective
        /\ ~CapsetPermitted(cred, Synchronized)
    BY <1>6 DEF Capset, IInv, SetsInv, FixedInv, Steps
  <2>2. /\ cred.permitted = caller.permitted /\ cred.effective = caller.effective
        /\ cred.inheritable = caller.inheritable /\ cred.bounding = BoundingKept
    BY <2>1 DEF IInv, SetsInv, BeforeCapset
  <2>3. Synchronized = Kept
    BY <2>1, <2>2 DEF Synchronized, Kept
  <2>4. \/ ~(Kept \subseteq caller.permitted)
        \/ ~(Kept \subseteq caller.inheritable \cup BoundingKept)
    BY <2>1, <2>2, <2>3 DEF CapsetPermitted
  <2>5. ~(Kept \subseteq caller.inheritable \cup BoundingKept) =>
           ~(Kept \subseteq caller.inheritable \cup caller.bounding)
    BY <2>1 DEF Kept, BoundingKept
  <2> QED
    BY <2>1, <2>4, <2>5 DEF FailsOnlyForCause
<1>7. CASE RaiseAmbient /\ pc' = "failed"
  BY <1>7 DEF RaiseAmbient, FailsOnlyForCause, IInv, SetsInv
<1>8. CASE InstallFilter /\ pc' = "failed"
  BY <1>8 DEF InstallFilter, FailsOnlyForCause
<1>9. ASSUME Next, pc' = "failed"
      PROVE  SetKeepCaps \/ ParseNames \/ DropBounding \/ Capset \/ RaiseAmbient
             \/ InstallFilter
  BY <1>9 DEF Next, ApplyGid, ApplyGroups, ApplyUid, LowerAmbient, SetNoNewPrivs,
     Execute
<1> QED
  BY <1>1, <1>2, <1>3, <1>4, <1>5, <1>6, <1>7, <1>8, <1>9

\* The invariant is inductive.
LEMMA Step == IInv /\ [Next]_vars => IInv'
<1> SUFFICES ASSUME IInv, [Next]_vars PROVE IInv'
  OBVIOUS
<1>1. TypeOK' /\ FixedInv' /\ SetsInv' /\ IdsInv'
  BY TypeStep, FixedStep, SetsStep, IdsStep DEF IInv
<1>2. /\ WorkloadCapabilities' /\ DroppedForGood' /\ AmbientArrives'
      /\ IdentityAssumed'
  BY LaunchStep
<1>3. FailsOnlyForCause'
  BY FailStep
<1> QED
  BY <1>1, <1>2, <1>3 DEF IInv

-----------------------------------------------------------------------------
\* The invariant of preexec_prep and execute.
THEOREM Invariance == Spec => []IInv
<1>1. Init => IInv
  BY InitInvariant
<1>2. IInv /\ [Next]_vars => IInv'
  BY Step
<1> QED
  BY <1>1, <1>2, PTL DEF Spec

\* The capabilities the workload starts with are a function of the request and
\* of the caller's, whatever order apply_capabilities' sets are iterated in.
THEOREM CapabilitiesAreDetermined == Spec => []WorkloadCapabilities
<1>1. IInv => WorkloadCapabilities
  BY DEF IInv
<1> QED
  BY <1>1, Invariance, PTL

\* What is dropped is gone for good.
THEOREM DroppedStaysDropped == Spec => []DroppedForGood
<1>1. IInv => DroppedForGood
  BY DEF IInv
<1> QED
  BY <1>1, Invariance, PTL

\* Ambient capabilities survive the uid change.
THEOREM AmbientSurvives == Spec => []AmbientArrives
<1>1. IInv => AmbientArrives
  BY DEF IInv
<1> QED
  BY <1>1, Invariance, PTL

\* The order gid, groups, uid takes away nothing that is needed later.
THEOREM IdentityIsAssumed == Spec => []IdentityAssumed
<1>1. IInv => IdentityAssumed
  BY DEF IInv
<1> QED
  BY <1>1, Invariance, PTL

\* The sequence stops for a cause only.
THEOREM FailureHasCause == Spec => []FailsOnlyForCause
<1>1. IInv => FailsOnlyForCause
  BY DEF IInv
<1> QED
  BY <1>1, Invariance, PTL
=============================================================================
