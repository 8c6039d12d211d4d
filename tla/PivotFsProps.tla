----------------------------- MODULE PivotFsProps -----------------------------
(***************************************************************************)
(* What PivotFs is expected to keep.                                       *)
(***************************************************************************)
EXTENDS PivotFs

\* The elements of a list.
Listed(list) == {list[k] : k \in 1 .. Len(list)}

\* No mount propagates to the namespace that the tree was copied from: all of
\* it was made private, below the root too, before the first one.
NothingEscapes == ~tree.escaped

\* A masked path shows nothing of what is below the mask, once the workload
\* may see it: neither a later mask nor a read-only bind uncovers it, and a
\* path mounted by the request is covered like any other.
MaskedPathsHidden ==
  pc = "pivoted" =>
    \A p \in Listed(req.masked_paths) :
      \/ tree.kind[p] = "none"
      \/ tree.view[p].fs \in {"null", "empty"}

\* A read-only path is read-only all the way down, through the mounts and the
\* masks below it.
ReadonlyPathsHold ==
  pc = "pivoted" =>
    \A p \in Listed(req.readonly_paths) :
      \A q \in Beneath[p] :
        tree.kind[p] # "none" /\ tree.kind[q] # "none" => tree.view[q].ro

\* With rootfs_readonly nothing of the rootfs's own file system can be written
\* through any path of the container.
RootSealed ==
  pc = "pivoted" /\ req.rootfs_readonly =>
    \A p \in Paths : tree.view[p].fs = "rootfs" => tree.view[p].ro

\* A mount keeps the restrictions its specification puts on it, a bind mount
\* included, whatever is mounted afterwards; or they could not be set, and
\* pivot_fs goes no further.
MountFlagsHold ==
  pc # "failed" => \A s \in Listed(req.mounts) :
    \A p \in Paths :
      tree.view[p].fs = s.src /\ (\A r \in Listed(req.mounts) : r.src = s.src => r = s) =>
        /\ s.read_only => tree.view[p].ro
        /\ s.safe => tree.view[p].safe

\* A file in the tree, or in something that is mounted.
MayBeFile(q) ==
  \/ given.kind[q] = "file" \/ Content["proc"][q] = "file"
  \/ \E s \in Listed(req.mounts) : Content[s.src][q] = "file"

NeverFile(p) == \A q \in Above(p) : ~MayBeFile(q)

\* A mount that the kernel takes, of a specification that asks for its mount point
\* to be made.
Creating(s) ==
  /\ s.create_mountpoint /\ ~s.file /\ ~OnlyPropagation(s) /\ ~s.read_only
  /\ NeverFile(s.at) /\ s.at \notin Beneath[Proc]
  /\ s.src \notin Refused /\ (s.src \in Locked => s.recurse \/ ~s.bind)
  /\ s.safe => s.src \notin Unsettable

\* What may keep pivot_fs from its end: a rootfs that is missing, that is not
\* writable, or has no /proc; a kernel without the mounts it makes of its own; a
\* mount that asks too much; a directory that cannot be, or that the old root is
\* to have; a masked or a read-only path below what may be a file.
Cause ==
  \/ req.rootfs \in {"missing", "nowhere"}
  \/ (Refused \cup Unsettable) \ Sources # {}
  \/ \E p \in Paths : given.view[p].ro
  \/ given.kind[Proc] # "dir"
  \/ req.rootfs_readonly /\ (req.mounts # <<>> \/ req.mutations # <<>>)
  \/ req.rootfs = "/" /\ \E p \in Above(Stage) : given.kind[p] = "file"
  \/ \E s \in Listed(req.mounts) : ~Creating(s)
  \/ \E m \in Listed(req.mutations) :
       m.absolute \/ m.target \in Beneath[Proc] \/ ~NeverFile(m.target)
  \/ \E p \in Listed(req.masked_paths) \cup Listed(req.readonly_paths) :
       \E q \in Above(p) \ {p} : MayBeFile(q)

\* pivot_fs fails for no other reason; not for a masked or a read-only path that is
\* not there, and never at the pivot, not even with "/" for rootfs.
PivotFailsOnlyForCause == pc = "failed" => Cause

-----------------------------------------------------------------------------
(* The invariant the proofs use: what holds of the tree, step by step. *)

\* The start of pivot_fs, with whatever request.
Started ==
  /\ req \in Request /\ given \in Trees /\ tree = given
  /\ pc = "unshare" /\ i = 1
  /\ new_root = IF req.rootfs = "/" THEN "slash" ELSE "elsewhere"

BeforeSeal == {"unshare", "stage", "bind", "seal"}
Building   == BeforeSeal \cup {"proc", "mounts", "mutations"}
Steps      == Building \cup {"masks", "readonly", "pivot"}

\* How many of a list's elements have been through the loop of that step, of
\* which the later steps are `after`.
Handled(step, after, list) ==
  IF pc = step THEN i - 1 ELSE IF pc \in after THEN Len(list) ELSE 0

MountsHandled == Handled("mounts", {"mutations", "masks", "readonly", "pivot", "pivoted"},
                         req.mounts)
MasksHandled  == Handled("masks", {"readonly", "pivot", "pivoted"}, req.masked_paths)
ReadonlyHandled == Handled("readonly", {"pivot", "pivoted"}, req.readonly_paths)

\* Every variable keeps its type.
TypeOK ==
  /\ req \in Request /\ given \in Trees /\ tree \in Tree
  /\ pc \in Steps \cup {"failed", "pivoted"}
  /\ i \in Nat \ {0} /\ new_root \in {"slash", "elsewhere"}

\* A loop does not run past its list.
IndexInv ==
  /\ pc = "mounts" => i <= Len(req.mounts) + 1
  /\ pc = "mutations" => i <= Len(req.mutations) + 1
  /\ pc = "masks" => i <= Len(req.masked_paths) + 1
  /\ pc = "readonly" => i <= Len(req.readonly_paths) + 1
  /\ pc \in BeforeSeal \cup {"proc"} => i = 1

\* All of the tree is private from the first step on.
PrivateInv ==
  /\ ~tree.escaped
  /\ pc \notin {"unshare", "failed"} => \A p \in Paths : ~tree.view[p].shared

\* The rootfs is one mount until it is sealed, and read-only afterwards.
SealInv ==
  /\ pc = "seal" => req.rootfs_readonly
  /\ pc \in BeforeSeal =>
       /\ tree.view[Root].at = Root
       /\ \A p \in Paths : tree.view[p].fs = "rootfs" => tree.view[p].at = Root
  /\ req.rootfs_readonly /\ pc \notin BeforeSeal \cup {"failed"} =>
       \A p \in Paths : tree.view[p].fs = "rootfs" => tree.view[p].ro

\* Where what is seen at a path came from: one of the request's mounts, with its
\* restrictions, or a file system that was there, or was put there by pivot_fs.
OriginInv ==
  pc # "failed" => \A p \in Paths : LET m == tree.view[p] IN
    /\ m.fs \in Sources =>
         \E s \in Listed(req.mounts) : /\ s.src = m.fs /\ p \in Beneath[s.at]
                                       /\ s.read_only => m.ro
                                       /\ s.safe => m.safe
    /\ m.fs = "submount" => \E q \in Paths : given.view[q].fs = "submount"
    /\ m.fs = "proc" => p \in Beneath[Proc]
    /\ m.fs \in {"null", "empty"} => req.masked_paths # <<>>

\* A mount that no later one covers shows what was mounted, if nothing is masked.
ShownInv ==
  req.masked_paths = <<>> /\ pc # "failed" =>
    \A k \in 1 .. MountsHandled : LET s == req.mounts[k] IN
      /\ ~OnlyPropagation(s)
      /\ \A m \in k + 1 .. MountsHandled : s.at \notin Beneath[req.mounts[m].at]
      => tree.view[s.at].fs = s.src

\* Each mask that has been put in place is there.
MaskInv ==
  \A k \in 1 .. MasksHandled : LET p == req.masked_paths[k] IN
    tree.kind[p] = "none" \/ tree.view[p].fs \in {"null", "empty"}

\* Each path that has been made read-only is so, all the way down.
ReadonlyInv ==
  \A k \in 1 .. ReadonlyHandled : LET p == req.readonly_paths[k] IN
    \A q \in Beneath[p] : tree.kind[p] # "none" /\ tree.kind[q] # "none" => tree.view[q].ro

\* The new root is not the current one by the time of the pivot.
NewRootInv ==
  /\ pc = "unshare" => new_root = IF req.rootfs = "/" THEN "slash" ELSE "elsewhere"
  /\ pc = "stage" => req.rootfs = "/"
  /\ pc \in Steps \ {"unshare", "stage"} => new_root = "elsewhere"

\* Without a cause to fail, no step has failed, and what the next ones need is
\* there: room for mount points, and no file in their way.
ProgressInv ==
  ~Cause =>
    /\ pc # "failed"
    /\ pc \in {"unshare", "stage"} => tree.kind = given.kind
    /\ pc \in BeforeSeal => /\ tree.kind[Root] = "dir"
                            /\ \A p \in Paths : tree.view[p].fs # "proc"
    /\ pc \in BeforeSeal \cup {"proc"} => tree.kind[Proc] = "dir"
    /\ pc \in BeforeSeal \/ (pc \in Building /\ ~req.rootfs_readonly) =>
         \A p \in Paths : ~tree.view[p].ro
    /\ pc \in Steps => \A p \in Paths : tree.kind[p] = "file" => MayBeFile(p)

IInv == /\ TypeOK /\ IndexInv /\ PrivateInv /\ SealInv /\ OriginInv /\ ShownInv
        /\ MaskInv /\ ReadonlyInv /\ NewRootInv /\ ProgressInv
=============================================================================
