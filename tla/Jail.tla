--------------------------------- MODULE Jail ---------------------------------
(***************************************************************************)
(* styrojail (src/bin/styrojail.rs): the command line becomes a request,   *)
(* the request becomes, by Runner::exec, what pivot_fs acts on.            *)
(***************************************************************************)
EXTENDS PivotFsProps, Builder

CONSTANTS
  Clis,      \* the command lines considered
  Hosts,     \* Hosts[path]: which of Sources lies at a path of the host
  HostFiles  \* the paths of the host that are files

\* A --mount is the sequence of its parts between colons, a --limit that of its
\* parts before and after the first "=".  cwd is the current directory, which may
\* be gone, or have a name that is no UTF-8.
Cli == [rootfs : {"/", "path", "nowhere"}, no_rootfs_readonly : BOOLEAN, no_default_mounts : BOOLEAN,
        mount : Seq(Seq(STRING)), limit : Seq(Seq(STRING)), cwd : Paths \cup {"gone", "odd"}]

VARIABLES
  cli,     \* the command line, fixed
  jpc,     \* next step of main
  builder, \* the request under construction
  queue    \* the mounts still to be pushed

jailVars == <<cli, jpc, builder, queue>>
allVars  == <<jailVars, vars>>

-----------------------------------------------------------------------------
(* Arguments. *)

parse_mount_fails(parts) ==
  \/ Len(parts) < 2 \/ Len(parts) > 3
  \/ parts[1] = "" \/ parts[2] = ""
  \/ Len(parts) = 3 /\ parts[3] # "rw"

\* Mutated: without a mode, what is mounted may be written.
parse_mount_rw(parts) == [hostpath |-> parts[1], jailpath |-> parts[2], read_write |-> TRUE]

parse_mount(parts) == [hostpath |-> parts[1], jailpath |-> parts[2],
                       read_write |-> Len(parts) = 3]

parse_resource_limit_fails(parts) == Len(parts) < 2 \/ parts[1] = ""

\* Mutated: the user's mounts come first.
build_mounts_last(c) ==
  [n \in 1 .. Len(c.mount) |-> parse_mount(c.mount[n])]
    \o (IF c.no_default_mounts THEN << >>
        ELSE << [hostpath |-> c.cwd, jailpath |-> c.cwd, read_write |-> TRUE] >>)

\* The current directory, unless it is not wanted, and then the user's mounts.
build_mounts(c) ==
  (IF c.no_default_mounts THEN << >>
   ELSE << [hostpath |-> c.cwd, jailpath |-> c.cwd, read_write |-> TRUE] >>)
    \o [n \in 1 .. Len(c.mount) |-> parse_mount(c.mount[n])]

\* The current directory is asked for twice, and not at all for a rootfs other
\* than "/".
current_dir_fails(c) ==
  /\ c.rootfs = "/"
  /\ c.cwd = "gone" \/ (c.cwd = "odd" /\ ~c.no_default_mounts)

\* The bind is not recursive, also where more is mounted below.
to_styrolite_mount(m) ==
  [Plain(Hosts[m.hostpath], m.jailpath) EXCEPT
     !.bind = TRUE, !.create_mountpoint = TRUE, !.read_only = ~m.read_write,
     !.file = m.hostpath \in HostFiles]

\* What the current directory and a well-formed --mount name: one of Sources, which
\* may be one that is Refused, and a path of the jail.
ASSUME ClisAssumption ==
  /\ Clis \subseteq Cli
  /\ \A c \in Clis : c.cwd \in Paths => Hosts[c.cwd] \in Sources
  /\ \A c \in Clis : \A n \in DOMAIN c.mount :
       \/ parse_mount_fails(c.mount[n])
       \/ c.mount[n][2] \in Paths /\ Hosts[c.mount[n][1]] \in Sources

-----------------------------------------------------------------------------
(* main *)

JailInit ==
  /\ cli \in Clis
  /\ jpc = "parse" /\ builder = new /\ queue = << >>
  /\ req = << >> /\ given \in Trees /\ tree = given
  /\ pc = "jail" /\ i = 1 /\ new_root = "slash"

\* Cli::parse: a value parser that fails ends the program.
ParseArguments ==
  /\ jpc = "parse"
  /\ jpc' = IF \/ \E n \in DOMAIN cli.mount : parse_mount_fails(cli.mount[n])
               \/ \E n \in DOMAIN cli.limit : parse_resource_limit_fails(cli.limit[n])
              THEN "rejected" ELSE "base"
  /\ UNCHANGED <<cli, builder, queue, vars>>

\* The chain of setters, of which pivot_fs reads these two; with "/" the jail
\* starts in the current directory, with another rootfs there are no default
\* mounts.
BuildBase ==
  /\ jpc = "base" /\ ~current_dir_fails(cli)
  /\ jpc' = "mounts"
  /\ LET base == Set(Set(builder, "rootfs", cli.rootfs),
                     "rootfs_readonly", ~cli.no_rootfs_readonly) IN
     IF cli.rootfs = "/"
       THEN /\ builder' = Set(base, "working_directory",
                             IF cli.cwd = "odd" THEN Root ELSE cli.cwd)
            /\ queue' = build_mounts(cli)
       ELSE /\ builder' = base
            /\ queue' = build_mounts([cli EXCEPT !.no_default_mounts = TRUE])
  /\ UNCHANGED <<cli, vars>>

\* current_dir, or the name it gives.
LoseCwd ==
  /\ jpc = "base" /\ current_dir_fails(cli)
  /\ jpc' = "rejected"
  /\ UNCHANGED <<cli, builder, queue, vars>>

PushMount ==
  /\ jpc = "mounts"
  /\ \/ /\ queue # << >>
        /\ builder' = Push(builder, "mounts", to_styrolite_mount(Head(queue)))
        /\ queue' = Tail(queue)
        /\ UNCHANGED jpc
     \/ /\ queue = << >>
        /\ jpc' = "limits" /\ queue' = cli.limit
        /\ UNCHANGED builder
  /\ UNCHANGED <<cli, vars>>

PushLimit ==
  /\ jpc = "limits"
  /\ \/ /\ queue # << >>
        /\ builder' = Insert(builder, "limits", Head(queue)[1], Head(queue)[2])
        /\ queue' = Tail(queue)
        /\ UNCHANGED jpc
     \/ /\ queue = << >>
        /\ jpc' = "exec"
        /\ UNCHANGED <<builder, queue>>
  /\ UNCHANGED <<cli, vars>>

\* to_request and Runner::exec, up to pivot_fs.
ExecRunner ==
  /\ jpc = "exec"
  /\ jpc' = "replaced"
  /\ req' = [rootfs |-> builder.rootfs, rootfs_readonly |-> builder.rootfs_readonly,
             mounts |-> ListOf(builder, "mounts"),
             mutations |-> ListOf(builder, "mutations"),
             masked_paths |-> ListOf(builder, "masked_paths"),
             readonly_paths |-> ListOf(builder, "readonly_paths")]
  /\ pc' = "unshare"
  /\ new_root' = IF builder.rootfs = "/" THEN "slash" ELSE "elsewhere"
  /\ UNCHANGED <<cli, builder, queue, given, tree, i>>

JailNext ==
  \/ ParseArguments \/ BuildBase \/ LoseCwd \/ PushMount \/ PushLimit \/ ExecRunner
  \/ jpc = "replaced" /\ Next /\ UNCHANGED jailVars

JailSpec == JailInit /\ [][JailNext]_allVars /\ WF_allVars(JailNext)

-----------------------------------------------------------------------------
(* Properties. *)

\* In a jail whose rootfs is read-only and lies on one file system, a path can
\* be written if a mount with ":rw" or the current directory makes it so, and
\* besides in /proc and in the staging directory, and nowhere else.
JailWritable ==
  pc = "pivoted" /\ ~cli.no_rootfs_readonly
                 /\ (\A p \in Paths : given.view[p].fs = "rootfs") =>
    \A p \in Paths : ~tree.view[p].ro =>
      \/ tree.view[p].fs \in {"proc", "stage"}
      \/ cli.cwd \in Paths /\ p \in Beneath[cli.cwd] /\ tree.view[p].fs = Hosts[cli.cwd]
      \/ \E n \in DOMAIN cli.mount : /\ cli.mount[n][Len(cli.mount[n])] = "rw"
                                     /\ tree.view[p].fs = Hosts[cli.mount[n][1]]

\* What the user mounts is there to see, also below the current directory: no
\* mount but a later one of the user's covers it.
UserMountsShow ==
  pc = "pivoted" =>
    \A n \in DOMAIN cli.mount :
      (\A m \in n + 1 .. Len(cli.mount) : cli.mount[n][2] \notin Beneath[cli.mount[m][2]])
        => tree.view[cli.mount[n][2]].fs = Hosts[cli.mount[n][1]]

\* The mounts that the command line comes to.
Wanted == build_mounts(IF cli.rootfs = "/" THEN cli
                       ELSE [cli EXCEPT !.no_default_mounts = TRUE])

\* A jail of the host's root, which has room for the staging directory, started
\* where there is a current directory, and whose command line is well-formed, with
\* directories only to mount, below which nothing else is mounted, onto directories
\* that are there, also when what was mounted before covers them.
Enterable ==
  /\ (Refused \cup Unsettable) \ Sources = {} /\ ~current_dir_fails(cli)
  /\ \A n \in DOMAIN cli.mount : ~parse_mount_fails(cli.mount[n])
  /\ \A n \in DOMAIN cli.limit : ~parse_resource_limit_fails(cli.limit[n])
  /\ cli.rootfs = "/" /\ given.kind[Proc] = "dir"
  /\ \A q \in Above(Stage) : /\ given.kind[q] # "file"
                             /\ given.kind[q] = "none" => ~given.view[q].ro
  /\ \A m \in Listed(Wanted) : /\ m.hostpath \notin HostFiles
                               /\ m.jailpath \notin Beneath[Proc]
                               /\ given.kind[m.jailpath] = "dir"
                               /\ Hosts[m.hostpath] \notin Refused \cup Locked
                               /\ Hosts[m.hostpath] \in Unsettable => m.read_write
  /\ \A k \in 1 .. Len(Wanted) : \A l \in 1 .. k - 1 :
       \A q \in Above(Wanted[k].jailpath) \cap Beneath[Wanted[l].jailpath] :
         \/ q = Wanted[l].jailpath
         \/ Content[Hosts[Wanted[l].hostpath]][q] = "dir"

\* Such a jail is entered: a read-only root is no obstacle to the mounts, which
\* come after it is sealed.
JailEntered == Enterable => <>(pc = "pivoted")

\* It is turned down nowhere on the way.
NeverRefused == Enterable => jpc # "rejected" /\ pc # "failed"

\* config.rs:290: a mount point is made if it does not exist, so one that does
\* is left as it is.
ExistingFilesKept == tree.emptied = {}

-----------------------------------------------------------------------------
(* The invariant the proofs use: the request, as far as it has been built. *)

\* The first of the wanted mounts, in the form that the request has them in.
Translated(list) ==
  /\ list \in Seq({s \in MountSpec : s.src \in Sources})
  /\ Len(list) <= Len(Wanted)
  /\ \A k \in 1 .. Len(list) : list[k] = to_styrolite_mount(Wanted[k])

\* Nothing of pivot_fs happens before the request is complete.
WaitingInv ==
  /\ cli \in Clis /\ given \in Trees
  /\ jpc \in {"parse", "rejected", "base", "mounts", "limits", "exec", "replaced"}
  /\ jpc # "replaced" => tree = given /\ pc = "jail" /\ i = 1
  /\ jpc \in {"parse", "base"} => builder = new
  /\ jpc \notin {"parse", "rejected"} =>
       \A n \in DOMAIN cli.mount : ~parse_mount_fails(cli.mount[n])
  /\ jpc \notin {"parse", "rejected", "base"} => ~current_dir_fails(cli)

\* What the builder holds, and that the queue is the rest of it.
BuilderInv ==
  jpc \in {"mounts", "limits", "exec"} =>
    LET pushed == ListOf(builder, "mounts") IN
    /\ {"rootfs", "rootfs_readonly"} \subseteq DOMAIN builder
    /\ builder.rootfs = cli.rootfs /\ builder.rootfs_readonly = ~cli.no_rootfs_readonly
    /\ DOMAIN builder \cap {"mutations", "masked_paths", "readonly_paths"} = {}
    /\ Translated(pushed)
    /\ jpc = "mounts" => /\ queue \in Seq(Listed(Wanted))
                         /\ Len(pushed) + Len(queue) = Len(Wanted)
                         /\ \A k \in 1 .. Len(queue) : queue[k] = Wanted[Len(pushed) + k]
    /\ jpc # "mounts" => Len(pushed) = Len(Wanted)

\* From then on pivot_fs has its own invariant, and the request to keep to.
ReplacedInv ==
  jpc = "replaced" =>
    /\ IInv
    /\ req.rootfs = cli.rootfs /\ req.rootfs_readonly = ~cli.no_rootfs_readonly
    /\ req.mutations = <<>> /\ req.masked_paths = <<>> /\ req.readonly_paths = <<>>
    /\ Translated(req.mounts) /\ Len(req.mounts) = Len(Wanted)

JailInv == WaitingInv /\ BuilderInv /\ ReplacedInv

\* There is a directory to mount on, or room to make it: what is left of the
\* rootfs after it is sealed, or the staging tmpfs, which is not.
Room(p) ==
  \A q \in Above(p) : tree.kind[q] = "dir" \/ (tree.kind[q] = "none" /\ tree.view[q].fs = "stage")

\* No step has failed, and there is room for each of the mounts still to come.
Entering ==
  /\ pc # "failed"
  /\ pc \in {"unshare", "stage"} =>
       /\ tree.kind = given.kind
       /\ \A p \in Paths : /\ tree.view[p].fs # "proc"
                           /\ tree.view[p].ro => given.view[p].ro
  /\ pc \in BeforeSeal => tree.kind[Root] = "dir"
  /\ pc \in BeforeSeal \cup {"proc"} => tree.kind[Proc] = "dir"
  /\ pc \in BeforeSeal \cup {"proc", "mounts"} =>
       /\ \A p \in Paths : tree.view[p].fs = "stage" => /\ tree.view[p].at # Root
                                                        /\ ~tree.view[p].ro
       /\ \A k \in MountsHandled + 1 .. Len(req.mounts) : Room(req.mounts[k].at)

EnterInv == Enterable => jpc # "rejected" /\ (jpc = "replaced" => Entering)
=============================================================================
