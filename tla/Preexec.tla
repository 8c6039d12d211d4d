-------------------------------- MODULE Preexec --------------------------------
(***************************************************************************)
(* The last stretch before the workload, the same for CreateRequest and    *)
(* AttachRequest: preexec_prep and ExecutableSpec::execute                 *)
(* (src/src/wrap.rs), with the part of the kernel's credential rules that  *)
(* they rely on (capabilities(7), credentials(7)).                         *)
(*                                                                         *)
(* One process, one system call per step.  Capabilities are sets here; the *)
(* words they travel in are the subject of module CapWords.                *)
(***************************************************************************)
EXTENDS Integers

CONSTANTS
  Caps,        \* the capabilities (CapabilityBit::ALL)
  SETPCAP, SETGID, SETUID,   \* three of them, which the steps need
  Ids,         \* user and group ids; 0 is root
  Requests,    \* the requests considered
  Callers      \* the credentials the process may start with

None == -1

(***************************************************************************)
(* uid, gid: an id or None.  groups: supplemental_gids is given.  caps:    *)
(* Capabilities are given; drop, raise and raise_ambient are lists of      *)
(* names, of which "ALL" stands for every capability and "unknown" for any *)
(* name that is none.  The rest are the flags of execute.                  *)
(***************************************************************************)
Names == Caps \cup {"ALL", "unknown"}

Request == [uid : Ids \cup {None}, gid : Ids \cup {None}, groups : BOOLEAN,
            caps : BOOLEAN, drop : SUBSET Names, raise : SUBSET Names,
            raise_ambient : SUBSET Names, no_new_privs : BOOLEAN,
            seccomp : BOOLEAN]

\* `mapped` and `setgroups` are what the process's user namespace allows;
\* `groups` is "caller" until setgroups replaces the list.
Credentials == [uid : Ids, gid : Ids, groups : {"caller", "requested"},
                permitted : SUBSET Caps, effective : SUBSET Caps,
                inheritable : SUBSET Caps, ambient : SUBSET Caps,
                bounding : SUBSET Caps, fixup : BOOLEAN, nnp : BOOLEAN,
                filtered : BOOLEAN, mapped : SUBSET Ids, setgroups : BOOLEAN]

ASSUME CapsAssumption == /\ {SETPCAP, SETGID, SETUID} \subseteq Caps
                         /\ {"ALL", "unknown"} \cap Caps = {}
ASSUME IdsAssumption == 0 \in Ids /\ None \notin Ids

\* The kernel keeps ambient within permitted and inheritable, and effective
\* within permitted; a fresh process has the setuid fixup on.
ASSUME CallersAssumption ==
  Callers \subseteq {c \in Credentials :
                       /\ c.ambient \subseteq c.permitted \cap c.inheritable
                       /\ c.effective \subseteq c.permitted
                       /\ c.fixup /\ ~c.nnp /\ ~c.filtered /\ c.groups = "caller"}
ASSUME RequestsAssumption == Requests \subseteq Request

VARIABLES
  req,      \* the request, fixed
  caller,   \* the credentials the process started with, fixed
  cred,     \* its credentials now
  pc,       \* its next step, or how it ended
  todo      \* what is left of the loop it is in

vars == <<req, caller, cred, pc, todo>>

\* Capabilities::names_as_bits.
Bits(names) == IF "ALL" \in names THEN Caps ELSE names \cap Caps
Known(names) == "unknown" \notin names

Drop    == Bits(req.drop)
Raise   == Bits(req.raise)
Ambient == Bits(req.raise_ambient)

WithBounding(c, caps) == [c EXCEPT !.bounding = caps]
WithAmbient(c, caps)  == [c EXCEPT !.ambient = caps]

\* Mutated: the bounding set stays as it is.
NothingUnwanted == {}

\* The capabilities that leave the bounding set.
Unwanted == Drop \ (Raise \cup Ambient)

Init ==
  /\ req \in Requests
  /\ caller \in Callers
  /\ cred = caller
  /\ pc = "keep_caps"
  /\ todo = {}

Fail == pc' = "failed" /\ UNCHANGED <<cred, todo>>

-----------------------------------------------------------------------------
(* set_keep_caps *)

\* Mutated: the secure bits are left alone.
KeepFixup ==
  /\ pc = "keep_caps"
  /\ pc' = "gid"
  /\ UNCHANGED <<req, caller, cred, todo>>

\* prctl(PR_SET_SECUREBITS, SECBIT_NO_SETUID_FIXUP).
SetKeepCaps ==
  /\ pc = "keep_caps"
  /\ \/ /\ SETPCAP \in cred.effective
        /\ cred' = [cred EXCEPT !.fixup = FALSE]
        /\ pc' = "gid"
        /\ UNCHANGED todo
     \/ /\ SETPCAP \notin cred.effective
        /\ Fail
  /\ UNCHANGED <<req, caller>>

-----------------------------------------------------------------------------
(* apply_gid_uid: a refusal is a warning, the code goes on. *)

\* Mutated: setgroups is forgotten.
ApplyGidOnly ==
  /\ pc = "gid"
  /\ pc' = "uid"
  /\ cred' = IF req.gid # None /\ SETGID \in cred.effective /\ req.gid \in cred.mapped
               THEN [cred EXCEPT !.gid = req.gid] ELSE cred
  /\ UNCHANGED <<req, caller, todo>>

ApplyGid ==
  /\ pc = "gid"
  /\ pc' = "groups"
  /\ cred' = IF req.gid # None /\ SETGID \in cred.effective /\ req.gid \in cred.mapped
               THEN [cred EXCEPT !.gid = req.gid] ELSE cred
  /\ UNCHANGED <<req, caller, todo>>

ApplyGroups ==
  /\ pc = "groups"
  /\ pc' = "uid"
  /\ cred' = IF req.groups /\ SETGID \in cred.effective /\ cred.setgroups
               THEN [cred EXCEPT !.groups = "requested"] ELSE cred
  /\ UNCHANGED <<req, caller, todo>>

\* setuid: leaving root clears the capabilities, unless the fixup is off.
SetUid(c, uid) ==
  IF c.fixup /\ c.uid = 0 /\ uid # 0
    THEN [c EXCEPT !.uid = uid, !.permitted = {}, !.effective = {}, !.ambient = {}]
    ELSE [c EXCEPT !.uid = uid]

ApplyUid ==
  /\ pc = "uid"
  /\ pc' = IF req.caps THEN "names" ELSE "nnp"
  /\ cred' = IF req.uid # None /\ SETUID \in cred.effective /\ req.uid \in cred.mapped
               THEN SetUid(cred, req.uid) ELSE cred
  /\ UNCHANGED <<req, caller, todo>>

-----------------------------------------------------------------------------
(* apply_capabilities.  The sets come out of a HashSet: the loops run over  *)
(* them in any order.                                                      *)

ParseNames ==
  /\ pc = "names"
  /\ \/ /\ Known(req.drop) /\ Known(req.raise) /\ Known(req.raise_ambient)
        /\ pc' = "bounding"
        /\ todo' = Unwanted
        /\ UNCHANGED cred
     \/ /\ ~(Known(req.drop) /\ Known(req.raise) /\ Known(req.raise_ambient))
        /\ Fail
  /\ UNCHANGED <<req, caller>>

\* prctl(PR_CAPBSET_DROP).
DropBounding ==
  /\ pc = "bounding"
  /\ \/ \E cap \in todo :
          /\ SETPCAP \in cred.effective
          /\ cred' = WithBounding(cred, cred.bounding \ {cap})
          /\ todo' = todo \ {cap}
          /\ UNCHANGED pc
     \/ todo # {} /\ SETPCAP \notin cred.effective /\ Fail
     \/ todo = {} /\ pc' = "capset" /\ UNCHANGED <<cred, todo>>
  /\ UNCHANGED <<req, caller>>

\* capset: what the kernel checks of the new sets.
CapsetPermitted(c, caps) ==
  /\ caps \subseteq c.permitted
  /\ caps \subseteq c.inheritable \cup c.bounding
  /\ SETPCAP \notin c.effective => caps \subseteq c.inheritable \cup c.permitted

\* The three sets become one; ambient stays within them.
WithCaps(c, caps) == [c EXCEPT !.effective = caps, !.permitted = caps,
                               !.inheritable = caps, !.ambient = @ \cap caps]

Synchronized == (cred.effective \ Drop) \cup Raise

Capset ==
  /\ pc = "capset"
  /\ \/ /\ CapsetPermitted(cred, Synchronized)
        /\ cred' = WithCaps(cred, Synchronized)
        /\ pc' = "lower"
        /\ todo' = Drop
     \/ /\ ~CapsetPermitted(cred, Synchronized)
        /\ Fail
  /\ UNCHANGED <<req, caller>>

\* Mutated: the capabilities raised are lowered too (the wrong list).
LowerRaised ==
  /\ pc = "lower"
  /\ pc' = "ambient" /\ todo' = Ambient
  /\ cred' = WithAmbient(cred, cred.ambient \ Raise)
  /\ UNCHANGED <<req, caller>>

\* prctl(PR_CAP_AMBIENT_LOWER), for every capability dropped.
LowerAmbient ==
  /\ pc = "lower"
  /\ \/ \E cap \in todo : /\ cred' = WithAmbient(cred, cred.ambient \ {cap})
                          /\ todo' = todo \ {cap}
                          /\ UNCHANGED pc
     \/ /\ todo = {}
        /\ pc' = "ambient" /\ todo' = Ambient
        /\ UNCHANGED cred
  /\ UNCHANGED <<req, caller>>

\* prctl(PR_CAP_AMBIENT_RAISE): of a capability permitted and inheritable.
RaiseAmbient ==
  /\ pc = "ambient"
  /\ \/ \E cap \in todo \cap cred.permitted \cap cred.inheritable :
          /\ cred' = WithAmbient(cred, cred.ambient \cup {cap})
          /\ todo' = todo \ {cap}
          /\ UNCHANGED pc
     \/ ~(todo \subseteq cred.permitted \cap cred.inheritable) /\ Fail
     \/ todo = {} /\ pc' = "nnp" /\ UNCHANGED <<cred, todo>>
  /\ UNCHANGED <<req, caller>>

-----------------------------------------------------------------------------
(* execute *)

\* execute begins with what needs no privilege: the strings it hands over and
\* the current directory.
SetNoNewPrivs ==
  /\ pc = "nnp"
  /\ \/ /\ pc' = "seccomp"
        /\ cred' = [cred EXCEPT !.nnp = @ \/ req.no_new_privs]
     \/ /\ pc' = "not_executed"
        /\ UNCHANGED cred
  /\ UNCHANGED <<req, caller, todo>>

\* The kernel may refuse the program; without no_new_privs it is not asked.
InstallFilter ==
  /\ pc = "seccomp"
  /\ \/ /\ req.seccomp /\ req.no_new_privs
        /\ \/ pc' = "exec" /\ cred' = [cred EXCEPT !.filtered = TRUE]
           \/ pc' = "not_executed" /\ UNCHANGED cred
        /\ UNCHANGED todo
     \/ req.seccomp /\ ~req.no_new_privs /\ Fail
     \/ ~req.seccomp /\ pc' = "exec" /\ UNCHANGED <<cred, todo>>
  /\ UNCHANGED <<req, caller>>

\* What execve makes of the capabilities: root gets what is inheritable or in
\* the bounding set (with no_new_privs, only what it had), anyone else what
\* is ambient.  The executable has no capabilities or setuid bit of its own.
AfterExec(c) ==
  LET gained    == IF c.uid # 0 THEN {}
                   ELSE IF c.nnp THEN (c.inheritable \cup c.bounding) \cap c.permitted
                   ELSE c.inheritable \cup c.bounding
      permitted == gained \cup c.ambient
  IN  [c EXCEPT !.permitted = permitted,
                !.effective = IF c.uid = 0 THEN permitted ELSE c.ambient]

\* execvpe; the AppArmor profile, SIGPIPE and the executable itself are other
\* reasons why it may not come to it.
Execute ==
  /\ pc = "exec"
  /\ \/ /\ pc' = "launched"
        /\ cred' = AfterExec(cred)
        /\ UNCHANGED todo
     \/ /\ pc' = "not_executed"
        /\ UNCHANGED <<cred, todo>>
  /\ UNCHANGED <<req, caller>>

Next ==
  \/ SetKeepCaps \/ ApplyGid \/ ApplyGroups \/ ApplyUid
  \/ ParseNames \/ DropBounding \/ Capset \/ LowerAmbient \/ RaiseAmbient
  \/ SetNoNewPrivs \/ InstallFilter \/ Execute

Spec == Init /\ [][Next]_vars
=============================================================================
