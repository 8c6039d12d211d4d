----------------------------- MODULE PreexecProps -----------------------------
(***************************************************************************)
(* What Preexec is expected to keep, and the invariant its proofs rest on. *)
(***************************************************************************)
EXTENDS Preexec

Steps == {"keep_caps", "gid", "groups", "uid", "names", "bounding", "capset",
          "lower", "ambient", "nnp", "seccomp", "exec"}
Ends  == {"launched", "failed", "not_executed"}

\* Every variable keeps its type.
TypeOK == /\ req \in Requests /\ caller \in Callers
          /\ cred \in Credentials
          /\ pc \in Steps \cup Ends
          /\ todo \subseteq Caps

\* What apply_capabilities leaves in the three sets.
Kept == IF req.caps THEN (caller.effective \ Drop) \cup Raise ELSE caller.permitted

\* What it leaves in the ambient set and in the bounding set.
AmbientKept  == IF req.caps THEN ((caller.ambient \cap Kept) \ Drop) \cup Ambient
                            ELSE caller.ambient
BoundingKept == IF req.caps THEN caller.bounding \ (Drop \ (Raise \cup Ambient))
                            ELSE caller.bounding
InheritableKept == IF req.caps THEN Kept ELSE caller.inheritable

\* The workload starts with exactly these capabilities, whatever order the
\* sets were iterated in and whatever the uid change did: as root those left
\* inheritable or in the bounding set, under no_new_privs only those kept;
\* as anyone else the ambient ones.
WorkloadCapabilities ==
  pc = "launched" =>
    cred.effective =
      IF cred.uid # 0 THEN AmbientKept
      ELSE AmbientKept \cup (IF cred.nnp THEN (InheritableKept \cup BoundingKept) \cap Kept
                                         ELSE InheritableKept \cup BoundingKept)

\* A capability that is dropped, and asked for nowhere else, is in none of the
\* workload's sets, not even where a later execve could get it from.
DroppedForGood ==
  pc = "launched" /\ req.caps =>
    (Drop \ (Raise \cup Ambient)) \cap (cred.permitted \cup cred.effective \cup
       cred.inheritable \cup cred.ambient \cup cred.bounding) = {}

\* An ambient capability reaches the workload, under whatever uid it runs.
AmbientArrives == pc = "launched" /\ req.caps => Ambient \subseteq cred.effective

\* The workload runs under the ids it was to run under, if the caller was in
\* a position to set them: no step takes away what a later one needs.
IdentityAssumed ==
  pc = "launched" =>
    /\ req.gid \in caller.mapped /\ SETGID \in caller.effective => cred.gid = req.gid
    /\ req.groups /\ caller.setgroups /\ SETGID \in caller.effective =>
         cred.groups = "requested"
    /\ req.uid \in caller.mapped /\ SETUID \in caller.effective => cred.uid = req.uid

\* What may stop the sequence short of execve: nothing but the caller's lack
\* of CAP_SETPCAP, an unknown name, a capability that was not there to be
\* kept, inherited or made ambient, or a filter without no_new_privs.  The uid
\* change, in particular, never does (set_keep_caps comes first).
FailsOnlyForCause ==
  pc = "failed" =>
    \/ SETPCAP \notin caller.effective
    \/ req.caps /\ ~(Known(req.drop) /\ Known(req.raise) /\ Known(req.raise_ambient))
    \/ req.caps /\ ~(Kept \subseteq caller.permitted)
    \/ req.caps /\ ~(Kept \subseteq caller.inheritable \cup caller.bounding)
    \/ req.caps /\ ~(Ambient \subseteq Kept)
    \/ req.seccomp /\ ~req.no_new_privs

-----------------------------------------------------------------------------
(* The invariant the proofs use: how far each part of the credentials has   *)
(* come at each step.                                                       *)

BeforeCapset == {"keep_caps", "gid", "groups", "uid", "names", "bounding", "capset"}
AfterCaps    == {"nnp", "seccomp", "exec", "not_executed"}

\* What no step changes, and what the first one does.
FixedInv ==
  /\ cred.mapped = caller.mapped /\ cred.setgroups = caller.setgroups
  /\ pc = "keep_caps" => cred = caller
  /\ pc \in Steps \ {"keep_caps"} => ~cred.fixup /\ SETPCAP \in caller.effective

\* The four sets and the bounding set, loop by loop.
SetsInv ==
  /\ pc \in {"names", "bounding", "capset", "lower", "ambient"} => req.caps
  /\ pc \in {"bounding", "capset", "lower", "ambient"} =>
       Known(req.drop) /\ Known(req.raise) /\ Known(req.raise_ambient)
  /\ pc \in BeforeCapset =>
       /\ cred.permitted = caller.permitted /\ cred.effective = caller.effective
       /\ cred.inheritable = caller.inheritable /\ cred.ambient = caller.ambient
  /\ pc \in BeforeCapset \ {"bounding", "capset"} => cred.bounding = caller.bounding
  /\ pc = "bounding" => /\ todo \subseteq Unwanted
                        /\ cred.bounding = caller.bounding \ (Unwanted \ todo)
  /\ pc \in {"capset", "lower", "ambient"} => cred.bounding = BoundingKept
  /\ pc \in {"lower", "ambient"} => /\ cred.permitted = Kept /\ cred.effective = Kept
                                    /\ cred.inheritable = Kept
  /\ pc = "lower" => /\ todo \subseteq Drop
                     /\ cred.ambient = (caller.ambient \cap Kept) \ (Drop \ todo)
  /\ pc = "ambient" =>
       /\ todo \subseteq Ambient
       /\ cred.ambient = ((caller.ambient \cap Kept) \ Drop) \cup (Ambient \ todo)
  /\ pc \in AfterCaps =>
       /\ cred.permitted = Kept /\ cred.inheritable = InheritableKept
       /\ cred.ambient = AmbientKept /\ cred.bounding = BoundingKept

\* The ids, from the step on that sets each.
IdsInv ==
  /\ pc \in Steps \ {"keep_caps", "gid"} =>
       (req.gid \in caller.mapped /\ SETGID \in caller.effective => cred.gid = req.gid)
  /\ pc \in Steps \ {"keep_caps", "gid", "groups"} =>
       (req.groups /\ caller.setgroups /\ SETGID \in caller.effective =>
          cred.groups = "requested")
  /\ pc \in Steps \ {"keep_caps", "gid", "groups", "uid"} =>
       (req.uid \in caller.mapped /\ SETUID \in caller.effective => cred.uid = req.uid)

IInv == /\ TypeOK /\ FixedInv /\ SetsInv /\ IdsInv
        /\ WorkloadCapabilities /\ DroppedForGood /\ AmbientArrives
        /\ IdentityAssumed /\ FailsOnlyForCause
=============================================================================
