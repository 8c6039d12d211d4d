------------------------------ MODULE MCPreexec ------------------------------
(***************************************************************************)
(* Instances of Preexec for TLC.                                           *)
(***************************************************************************)
EXTENDS PreexecProps

\* The ids a container maps, and one that it does not.
Root == 0
User == 1
Unmapped == 2
MCIds == {Root, User, Unmapped}

\* Root of a new user namespace, with its own and with the caller's ambient
\* capabilities; root of a container with a reduced bounding set; a caller
\* with no privileges, and one that may set ids and nothing else.
Base == [uid |-> Root, gid |-> Root, groups |-> "caller", permitted |-> Caps,
         effective |-> Caps, inheritable |-> {}, ambient |-> {}, bounding |-> Caps,
         fixup |-> TRUE, nnp |-> FALSE, filtered |-> FALSE,
         mapped |-> {Root, User}, setgroups |-> FALSE]

MCCallers ==
  LET few == Caps \ {SETGID} IN
  { Base,
    [Base EXCEPT !.inheritable = Caps, !.ambient = few, !.setgroups = TRUE],
    [Base EXCEPT !.permitted = few, !.effective = few, !.bounding = few,
                 !.mapped = MCIds, !.setgroups = TRUE],
    [Base EXCEPT !.uid = User, !.gid = User, !.permitted = {}, !.effective = {}],
    [Base EXCEPT !.effective = {SETGID, SETUID}] }

Lists == SUBSET Caps
MCRequests ==
  [uid : {None, Root, User, Unmapped}, gid : {None, User}, groups : {TRUE},
   caps : {TRUE}, drop : Lists \cup {{"ALL"}, {"unknown"}}, raise : Lists,
   raise_ambient : Lists, no_new_privs : BOOLEAN, seccomp : {FALSE}]
  \cup
  [uid : {None, Root, User, Unmapped}, gid : {None, User}, groups : BOOLEAN,
   caps : {FALSE}, drop : {{}}, raise : {{}}, raise_ambient : {{}},
   no_new_privs : BOOLEAN, seccomp : BOOLEAN]

=============================================================================
