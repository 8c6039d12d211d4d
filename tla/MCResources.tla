----------------------------- MODULE MCResources -----------------------------
(***************************************************************************)
(* Instances of Resources for TLC: a root hierarchy and one delegated to a *)
(* user, where memory is delegated and cpu is not; limits on both, on      *)
(* hugetlb, which is never enabled, and on "cgroup.subtree_control", by    *)
(* its name and by two paths.                                              *)
(***************************************************************************)
EXTENDS Resources, TLC

CONSTANTS p1, p2, p3, wid

MCProcs     == {p1, p2, p3}
MCBases     == {"root", "user"}
MCAvailable == [b \in MCBases |-> IF b = "root" THEN {"cpu", "memory"} ELSE {"memory"}]

OwnControl   == "./cgroup.subtree_control"
OtherControl == "../styrolite-wid/cgroup.subtree_control"

MCPathOf == [k \in {OwnControl, OtherControl} |->
               [group |-> IF k = OwnControl THEN NotGiven ELSE wid,
                file  |-> "cgroup.subtree_control"]]

MCPrefixOf == ("memory.max" :> "memory") @@ ("cpu.max" :> "cpu")
              @@ ("hugetlb.2MB.max" :> "hugetlb") @@ ("cgroup.subtree_control" :> "cgroup")
              @@ (OwnControl :> "") @@ (OtherControl :> "")
MCKeys     == DOMAIN MCPrefixOf

\* An earlier supervisor had p2's pid, and left its group behind.
MCLeftover == {<<"user", p2>>}

Unset   == << >>
Threads == "NPROC" :> 1
Files   == Threads @@ ("NOFILE" :> 1)
Lowered == [r \in Resource |-> 1]

Plain == [kind |-> "create", target |-> p1, id |-> wid, base |-> "user",
          limited |-> FALSE, limits |-> {}, privileged |-> TRUE, given |-> FALSE,
          rlimits |-> Unset]

Limited(ks) == [Plain EXCEPT !.limited = TRUE, !.limits = ks]

\* Containers that are not limited, in a cgroup or in none; limited, under one
\* identity and under their pid's; with keys that are paths; with process limits.
Creates ==
  {Plain, [Plain EXCEPT !.base = NotGiven],
   Limited({"memory.max"}), Limited({"memory.max", "cpu.max"}),
   [Limited({"memory.max", "cgroup.subtree_control"}) EXCEPT !.id = NotGiven],
   [Limited({"memory.max", OwnControl}) EXCEPT !.id = NotGiven],
   [Limited({"memory.max", OtherControl}) EXCEPT !.id = NotGiven],
   [Limited({"hugetlb.2MB.max", "cpu.max"}) EXCEPT !.base = NotGiven, !.given = TRUE,
      !.rlimits = Files],
   [Limited({}) EXCEPT !.base = "gone", !.given = TRUE, !.rlimits = Threads]}

\* Attaches to the first, under its identity, in another hierarchy, under none.
Attaches ==
  {[Plain EXCEPT !.kind = "attach"],
   [Plain EXCEPT !.kind = "attach", !.base = NotGiven, !.privileged = FALSE,
      !.given = TRUE, !.rlimits = Lowered],
   [Plain EXCEPT !.kind = "attach", !.id = NotGiven, !.privileged = FALSE,
      !.given = TRUE, !.rlimits = Files]}

MCRequests == (p1 :> Creates) @@ (p2 :> Creates) @@ (p3 :> Attaches)

\* Host root asks for at most one thread, and nothing else.
MCThreads == [p \in MCProcs |-> {[Plain EXCEPT !.given = TRUE, !.rlimits = Threads]}]

NoFaults == {}
MCFaults == {"enable", "create", "set", "bind"}
=============================================================================
