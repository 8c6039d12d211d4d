-------------------------------- MODULE PivotFs --------------------------------
(***************************************************************************)
(* CreateRequest::pivot_fs (src/src/wrap.rs) and the operations of         *)
(* src/src/mount.rs it is made of: the child of CreateWrap turns its copy  *)
(* of the mount tree into the container's and pivots into it.              *)
(*                                                                         *)
(* The model keeps the tree as it is seen from the new root.  Mounts are   *)
(* only ever added, so what each path shows is enough: the mount that      *)
(* covers it, and what it finds there.                                     *)
(***************************************************************************)
EXTENDS Integers, Sequences

CONSTANTS
  Paths,       \* paths of the container
  Root, Proc, Stage,  \* "/", "/proc" and the staging directory, three of them
  Beneath,     \* Beneath[p]: p and the paths below it
  Sources,     \* what mount specifications mount
  Content,     \* Content[s][p]: what p is when s is mounted at or above it
  Refused,     \* what mount(2) refuses: a source that is not there, a file
               \* system that the kernel does not have, or not for this caller
  Locked,      \* the sources with mounts below them that the container's user
               \* namespace has no right to part them from
  Unsettable,  \* those on which mount_setattr(2) is refused: on all before Linux
               \* 5.12, or where it is filtered
  Trees,       \* the trees a rootfs may come with
  Requests     \* the requests considered

Kinds == {"none", "dir", "file"}

\* What covers a path: the mount's own place and contents, and its flags.
\* "rootfs" is the file system that the rootfs lies on, "submount" any other
\* that was mounted in it already.
Filesystems == Sources \cup {"rootfs", "submount", "proc", "stage", "empty", "null"}
Mounts == [at : Paths, fs : Filesystems, ro : BOOLEAN, safe : BOOLEAN,
           shared : BOOLEAN]

\* escaped: a mount was made where it propagates to the namespace the tree was
\* copied from.  emptied: the file systems in which a file has lost its
\* contents.
Tree == [view : [Paths -> Mounts], kind : [Paths -> Kinds], escaped : BOOLEAN,
         emptied : SUBSET Filesystems]

\* MountSpec.  src is "self" for a bind of the target onto itself, file tells
\* that the source is there and is a file; data decides nothing here.
MountSpec == [src : Filesystems \cup {"self"}, at : Paths, bind : BOOLEAN,
              recurse : BOOLEAN, unshare : BOOLEAN, safe : BOOLEAN,
              create_mountpoint : BOOLEAN, read_only : BOOLEAN, file : BOOLEAN]

\* CreateDirMutation.  absolute: the target starts with a slash.
Mutation == [target : Paths, absolute : BOOLEAN]

\* rootfs is "/", another path, one where nothing is, or missing.  The lists are
\* empty when the option is not given.
Request == [rootfs : {"/", "path", "nowhere", "missing"}, rootfs_readonly : BOOLEAN,
            mounts : Seq({s \in MountSpec : s.src \in Sources}),
            mutations : Seq(Mutation), masked_paths : Seq(Paths),
            readonly_paths : Seq(Paths)]

ASSUME PathsAssumption ==
  /\ {Root, Proc, Stage} \subseteq Paths
  /\ Beneath \in [Paths -> SUBSET Paths]
  /\ Beneath[Root] = Paths /\ Proc \notin Beneath[Stage]
  /\ \A p \in Paths : p \in Beneath[p] /\ \A q \in Beneath[p] : Beneath[q] \subseteq Beneath[p]
ASSUME SourcesAssumption ==
  /\ Sources \cap {"rootfs", "submount", "proc", "stage", "empty", "null", "self"} = {}
  /\ Content \in [Filesystems -> [Paths -> Kinds]]
  /\ \A p \in Paths, fs \in {"empty", "null", "stage"} : Content[fs][p] = "none"
  /\ Refused \subseteq Filesystems /\ Locked \subseteq Sources
  /\ Unsettable \subseteq Filesystems \cup {"self"}
ASSUME TreesAssumption ==
  Trees \subseteq {t \in Tree :
    /\ ~t.escaped /\ t.emptied = {}
    /\ \A p \in Paths : /\ t.view[p].fs \in {"rootfs", "submount"}
                        /\ t.view[p].at = Root <=> t.view[p].fs = "rootfs"
    /\ t.view[Root].at = Root /\ t.kind[Root] = "dir"
    /\ \A p \in Paths : t.kind[p] # "none" =>
         \A q \in Paths : p \in Beneath[q] \ {q} => t.kind[q] = "dir"}
ASSUME RequestsAssumption == Requests \subseteq Request

VARIABLES
  req,     \* the request, fixed
  given,   \* the tree that the rootfs came with, fixed
  tree,    \* the tree now
  pc,      \* the next step of pivot_fs, or how it ended
  i,       \* position in the list of that step
  new_root \* where the new root lies: "slash" is the current root directory

vars == <<req, given, tree, pc, i, new_root>>

-----------------------------------------------------------------------------
(* MountSpec::mount: create the mount point, mount, set the attributes.     *)

Above(p) == {q \in Paths : p \in Beneath[q]}

\* create_dir_all; procfs has no room for new entries.
CreateDirAll(t, p) ==
  [t EXCEPT !.kind = [q \in Paths |-> IF q \in Above(p) /\ t.kind[q] = "none"
                                        THEN "dir" ELSE t.kind[q]]]

\* Mutated: create_dir, which wants the parent to be there and the directory not.
CreateDirFails(t, p) ==
  \/ t.kind[p] # "none" \/ t.view[p].ro \/ t.view[p].fs = "proc"
  \/ \E q \in Above(p) \ {p} : t.kind[q] # "dir"

CreateDirAllFails(t, p) ==
  \E q \in Above(p) : \/ t.kind[q] = "file"
                      \/ t.kind[q] = "none" /\ (t.view[q].ro \/ t.view[q].fs = "proc")

\* create_dir_all of the parent and File::create, which truncates a file that
\* is there already.
CreateFile(t, p) ==
  [t EXCEPT !.kind = [q \in Paths |-> IF t.kind[q] # "none" \/ q \notin Above(p)
                                        THEN t.kind[q]
                                      ELSE IF q = p THEN "file" ELSE "dir"],
             !.emptied = IF t.kind[p] = "file" THEN @ \cup {t.view[p].fs} ELSE @]
CreateFileFails(t, p) ==
  \/ \E q \in Above(p) \ {p} :
        \/ t.kind[q] = "file"
        \/ t.kind[q] = "none" /\ (t.view[q].ro \/ t.view[q].fs = "proc")
  \/ t.kind[p] = "dir" \/ t.view[p].ro \/ t.view[p].fs = "proc"

Create(t, s) == IF ~s.create_mountpoint THEN t
                ELSE IF s.bind /\ s.file THEN CreateFile(t, s.at)
                ELSE CreateDirAll(t, s.at)
CreateFails(t, s) == /\ s.create_mountpoint
                     /\ IF s.bind /\ s.file THEN CreateFileFails(t, s.at)
                                            ELSE CreateDirAllFails(t, s.at)

\* MS_PRIVATE without MS_BIND mounts nothing, whatever the source is.
OnlyPropagation(s) == s.unshare /\ ~s.bind

\* The paths below s.at that a flag set there reaches.
Reached(view, s) == {q \in Beneath[s.at] : s.recurse \/ view[q].at = view[s.at].at}

\* mount(2).  A bind onto itself (recursive throughout) keeps the mounts below.
Attach(t, s) ==
  IF OnlyPropagation(s)
    THEN [t EXCEPT !.view = [q \in Paths |->
            IF q \in Reached(t.view, s) THEN [t.view[q] EXCEPT !.shared = FALSE]
                                        ELSE t.view[q]]]
  ELSE IF s.src = "self"
    THEN [t EXCEPT !.view = [q \in Paths |->
            IF q \in Beneath[s.at] /\ t.view[q].at = t.view[s.at].at
              THEN [t.view[q] EXCEPT !.at = s.at] ELSE t.view[q]],
                   !.escaped = @ \/ t.view[s.at].shared]
  ELSE [t EXCEPT !.view = [q \in Paths |->
            IF q \in Beneath[s.at]
              THEN [at |-> s.at, fs |-> s.src, ro |-> FALSE, safe |-> FALSE,
                    shared |-> t.view[s.at].shared]
              ELSE t.view[q]],
                   !.kind = [q \in Paths |-> IF q \in Beneath[s.at] \ {s.at}
                                               THEN Content[s.src][q] ELSE t.kind[q]],
                   !.escaped = @ \/ t.view[s.at].shared]
AttachFails(t, s) ==
  \/ t.kind[s.at] = "none"
  \/ OnlyPropagation(s) /\ t.view[s.at].at # s.at
  \/ ~OnlyPropagation(s) /\ s.src # "self" /\ (s.file <=> t.kind[s.at] = "dir")
  \/ ~OnlyPropagation(s) /\ s.src \in Refused
  \/ s.bind /\ ~s.recurse /\ s.src \in Locked

\* Mutated: only the flags of a new file system are set, those of a bind are
\* left to mount(2), which ignores them.
SetAttrUnlessBind(t, s) ==
  IF s.bind THEN t ELSE
  [t EXCEPT !.view = [q \in Paths |->
     IF q \in Reached(t.view, s)
       THEN [t.view[q] EXCEPT !.ro = @ \/ s.read_only, !.safe = @ \/ s.safe]
       ELSE t.view[q]]]

\* mount_setattr(2), with AT_RECURSIVE as recurse says.
SetAttr(t, s) ==
  [t EXCEPT !.view = [q \in Paths |->
     IF q \in Reached(t.view, s)
       THEN [t.view[q] EXCEPT !.ro = @ \/ s.read_only, !.safe = @ \/ s.safe]
       ELSE t.view[q]]]

SetAttrFails(s) == (s.safe \/ s.read_only) /\ s.src \in Unsettable

Mount(t, s) == SetAttr(Attach(Create(t, s), s), s)
MountFails(t, s) ==
  CreateFails(t, s) \/ AttachFails(Create(t, s), s) \/ SetAttrFails(s)

\* What is there after a mount that failed: the calls before the one that did are
\* not undone.
LeftBehind(t, s) == IF CreateFails(t, s) THEN t
                    ELSE IF AttachFails(Create(t, s), s) THEN Create(t, s)
                    ELSE Attach(Create(t, s), s)

-----------------------------------------------------------------------------
(* The mounts pivot_fs makes of its own. *)

\* A MountSpec with no flags.
Plain(src, at) ==
  [src |-> src, at |-> at, bind |-> FALSE, recurse |-> FALSE, unshare |-> FALSE,
   safe |-> FALSE, create_mountpoint |-> FALSE, read_only |-> FALSE,
   file |-> FALSE]

\* Mutated: only the root mount itself is made private.
OldRootFlat == [Plain("self", Root) EXCEPT !.unshare = TRUE]

OldRoot   == [Plain("self", Root) EXCEPT !.recurse = TRUE, !.unshare = TRUE]
StageSpec == [Plain("stage", Stage) EXCEPT !.safe = TRUE, !.create_mountpoint = TRUE]
NewRoot   == [Plain("self", Root) EXCEPT !.bind = TRUE, !.recurse = TRUE]
SealSpec  == [Plain("self", Root) EXCEPT !.read_only = TRUE]
ProcSpec  == [Plain("proc", Proc) EXCEPT !.recurse = TRUE, !.safe = TRUE]

\* mask_path
MaskSpec(t, p) ==
  IF t.kind[p] = "dir"
    THEN [Plain("empty", p) EXCEPT !.safe = TRUE, !.read_only = TRUE]
    ELSE [Plain("null", p) EXCEPT !.bind = TRUE, !.file = TRUE]

\* Mutated: the remount is not recursive.
ReadonlyTopOnly(p) ==
  [Plain("self", p) EXCEPT !.bind = TRUE, !.read_only = TRUE]

\* make_readonly
ReadonlySpec(p) ==
  [Plain("self", p) EXCEPT !.bind = TRUE, !.recurse = TRUE, !.read_only = TRUE]

-----------------------------------------------------------------------------
(* pivot_fs *)

Init ==
  /\ req \in Requests
  /\ given \in Trees
  /\ tree = given
  /\ pc = "unshare" /\ i = 1
  /\ new_root = IF req.rootfs = "/" THEN "slash" ELSE "elsewhere"

\* A mount, and on to the next step; or an error, and out.
MountThen(s, next) ==
  \/ ~MountFails(tree, s) /\ tree' = Mount(tree, s) /\ pc' = next
  \/ MountFails(tree, s) /\ tree' = LeftBehind(tree, s) /\ pc' = "failed"

UnshareOldRoot ==
  /\ pc = "unshare"
  /\ \/ /\ req.rootfs # "missing"
        /\ MountThen(OldRoot, IF req.rootfs = "/" THEN "stage" ELSE "bind")
     \/ /\ req.rootfs = "missing"
        /\ pc' = "failed" /\ UNCHANGED tree
  /\ UNCHANGED <<req, given, i, new_root>>

\* Mutated: "/" is bound onto itself, like any other rootfs.
NoStaging ==
  /\ pc = "stage"
  /\ pc' = "bind"
  /\ UNCHANGED <<req, given, tree, i, new_root>>

\* The staging tmpfs, and "/" bound into it: what is mounted there by then,
\* the tmpfs included, comes along.
StageRoot ==
  /\ pc = "stage"
  /\ MountThen(StageSpec, "bind")
  /\ new_root' = "elsewhere"
  /\ UNCHANGED <<req, given, i>>

BindNewRoot ==
  /\ pc = "bind"
  /\ \/ /\ req.rootfs # "nowhere"
        /\ MountThen(NewRoot, IF req.rootfs_readonly THEN "seal" ELSE "proc")
     \/ /\ req.rootfs = "nowhere"
        /\ pc' = "failed" /\ UNCHANGED tree
  /\ UNCHANGED <<req, given, i, new_root>>

\* Mutated: the mount that is covered by the new one is sealed.
SealCovered ==
  /\ pc = "seal"
  /\ pc' = "proc"
  /\ UNCHANGED <<req, given, tree, i, new_root>>

\* seal: MOUNT_ATTR_RDONLY on the new root's mount, not recursively.
Seal ==
  /\ pc = "seal"
  /\ \/ /\ ~SetAttrFails(SealSpec)
        /\ tree' = SetAttr(tree, SealSpec) /\ pc' = "proc"
     \/ /\ SetAttrFails(SealSpec)
        /\ pc' = "failed" /\ UNCHANGED tree
  /\ UNCHANGED <<req, given, i, new_root>>

MountProc ==
  /\ pc = "proc"
  /\ MountThen(ProcSpec, "mounts")
  /\ UNCHANGED <<req, given, i, new_root>>

\* A loop over a list: its next element, or on to the next step.
At(step, list) == pc = step /\ i <= Len(list)

Done(step, list, next) ==
  /\ pc = step /\ i > Len(list)
  /\ pc' = next /\ i' = 1
  /\ UNCHANGED <<req, given, tree, new_root>>

\* The request's own mounts.
MountNext ==
  /\ At("mounts", req.mounts)
  /\ MountThen(req.mounts[i], "mounts")
  /\ i' = i + 1
  /\ UNCHANGED <<req, given, new_root>>

\* A target without a slash in front is one of the container's paths.
MutateContainer(p) ==
  \/ ~CreateDirAllFails(tree, p) /\ tree' = CreateDirAll(tree, p) /\ UNCHANGED pc
  \/ CreateDirAllFails(tree, p) /\ pc' = "failed" /\ UNCHANGED tree

\* What the old root shows of the container's tree: all that nothing was mounted
\* over, if the container's root is a bind of it.
Shared(p) == {q \in Above(p) : /\ req.rootfs = "/"
                               /\ tree.view[q].fs \in {"rootfs", "submount", "stage"}}

\* PathBuf::push lets an absolute target replace the rootfs: the directory is made
\* in the old root, seal or no seal, and it is the rest of that tree that decides
\* whether it can be.
MutateOldRoot(p) ==
  \/ /\ \A q \in Shared(p) :
          \/ tree.kind[q] = "dir"
          \/ tree.kind[q] = "none" /\ (tree.view[q].fs = "stage" \/ ~given.view[q].ro)
     /\ tree' = [tree EXCEPT !.kind = [q \in Paths |-> IF q \in Shared(p) THEN "dir"
                                                                         ELSE @[q]]]
     /\ UNCHANGED pc
  \/ pc' = "failed" /\ UNCHANGED tree

\* CreateDirMutation::mutate
MutateNext ==
  /\ At("mutations", req.mutations)
  /\ LET m == req.mutations[i] IN
     \/ ~m.absolute /\ MutateContainer(m.target)
     \/ m.absolute /\ MutateOldRoot(m.target)
  /\ i' = i + 1
  /\ UNCHANGED <<req, given, new_root>>

\* Mutated: only files are masked.
MaskFiles(p) ==
  IF tree.kind[p] # "file" THEN UNCHANGED <<tree, pc>>
  ELSE MountThen(MaskSpec(tree, p), pc)

\* lstat(2) does not find what is below a file, but says so in another way than
\* of what is not there.
LstatFails(t, p) == \E q \in Above(p) \ {p} : t.kind[q] = "file"

\* What mask_path and make_readonly have in common: a path that is not there is
\* skipped, and one that cannot be looked up is an error.
Cover(p, s) ==
  \/ LstatFails(tree, p) /\ pc' = "failed" /\ UNCHANGED tree
  \/ ~LstatFails(tree, p) /\ tree.kind[p] = "none" /\ UNCHANGED <<tree, pc>>
  \/ ~LstatFails(tree, p) /\ tree.kind[p] # "none" /\ MountThen(s, pc)

MaskPath(p) == Cover(p, MaskSpec(tree, p))

MaskNext ==
  /\ At("masks", req.masked_paths)
  /\ MaskPath(req.masked_paths[i])
  /\ i' = i + 1
  /\ UNCHANGED <<req, given, new_root>>

MakeReadonlyNext ==
  /\ At("readonly", req.readonly_paths)
  /\ LET p == req.readonly_paths[i] IN Cover(p, ReadonlySpec(p))
  /\ i' = i + 1
  /\ UNCHANGED <<req, given, new_root>>

\* chdir, pivot_root(".", "."), umount2(".", MNT_DETACH): EBUSY if the new
\* root is the current one.
Pivot ==
  /\ pc = "pivot"
  /\ pc' = IF new_root = "slash" THEN "failed" ELSE "pivoted"
  /\ UNCHANGED <<req, given, tree, i, new_root>>

Next ==
  \/ UnshareOldRoot \/ StageRoot \/ BindNewRoot \/ Seal \/ MountProc
  \/ MountNext \/ Done("mounts", req.mounts, "mutations")
  \/ MutateNext \/ Done("mutations", req.mutations, "masks")
  \/ MaskNext \/ Done("masks", req.masked_paths, "readonly")
  \/ MakeReadonlyNext \/ Done("readonly", req.readonly_paths, "pivot")
  \/ Pivot

Spec == Init /\ [][Next]_vars
=============================================================================
