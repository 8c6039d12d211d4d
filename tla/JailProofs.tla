------------------------------ MODULE JailProofs ------------------------------
(***************************************************************************)
(* Jail, for every command line and every host.                            *)
(***************************************************************************)
EXTENDS Jail, PivotFsProofs

-----------------------------------------------------------------------------
(* The builder, and the start of pivot_fs. *)

\* A push adds to the end of its own list, and changes no other field.
LEMMA PushFacts ==
  ASSUME NEW config, NEW field, NEW v
  PROVE  /\ DOMAIN Push(config, field, v) = DOMAIN config \cup {field}
         /\ ListOf(Push(config, field, v), field) = Append(ListOf(config, field), v)
         /\ \A f \in DOMAIN config \ {field} : Push(config, field, v)[f] = config[f]
<1> DEFINE list == Append(ListOf(config, field), v)
<1>1. Push(config, field, v) = Set(config, field, list)
  BY DEF Push
<1> HIDE DEF list
<1>2. /\ DOMAIN Push(config, field, v) = DOMAIN config \cup {field}
      /\ Push(config, field, v)[field] = list
      /\ \A f \in DOMAIN config \ {field} : Push(config, field, v)[f] = config[f]
  BY <1>1 DEF Set
<1>3. ListOf(Push(config, field, v), field) = list
  BY <1>2 DEF ListOf
<1> QED BY <1>2, <1>3 DEF list

\* The start of pivot_fs, as the step of another module.
LEMMA StartNext == Started' => IInv'
BY StartInv, PTL

-----------------------------------------------------------------------------
(* The mounts of a command line. *)

\* How many default mounts come before the user's.
Defaults == IF cli.no_default_mounts \/ cli.rootfs # "/" THEN 0 ELSE 1

\* The current directory comes first, if at all, and then the user's mounts in
\* their order.
LEMMA WantedOrder ==
  ASSUME cli \in Clis
  PROVE  /\ Len(cli.mount) \in Nat /\ DOMAIN cli.mount = 1 .. Len(cli.mount)
         /\ Wanted \in Seq(Listed(Wanted)) /\ Len(Wanted) = Defaults + Len(cli.mount)
         /\ \A n \in 1 .. Len(cli.mount) : Wanted[Defaults + n] = parse_mount(cli.mount[n])
         /\ Defaults = 1 =>
              Wanted[1] = [hostpath |-> cli.cwd, jailpath |-> cli.cwd, read_write |-> TRUE]
<1> DEFINE c == IF cli.rootfs = "/" THEN cli ELSE [cli EXCEPT !.no_default_mounts = TRUE]
           own == [hostpath |-> cli.cwd, jailpath |-> cli.cwd, read_write |-> TRUE]
           first == IF Defaults = 0 THEN << >> ELSE << own >>
           user == [n \in 1 .. Len(cli.mount) |-> parse_mount(cli.mount[n])]
           all == {own} \cup {parse_mount(cli.mount[n]) : n \in 1 .. Len(cli.mount)}
<1>1. cli \in Cli
  BY ClisAssumption
<1>2. cli.mount \in Seq(Seq(STRING)) /\ cli.no_default_mounts \in BOOLEAN
  BY <1>1 DEF Cli
<1>3. Len(cli.mount) \in Nat /\ DOMAIN cli.mount = 1 .. Len(cli.mount)
  BY <1>2
<1>4. /\ c.mount = cli.mount /\ c.cwd = cli.cwd
      /\ c.no_default_mounts <=> Defaults = 0
  BY <1>1, <1>2 DEF Cli, Defaults
<1>a. Wanted = build_mounts(c)
  BY DEF Wanted
<1> HIDE DEF c
<1>5. Wanted = first \o user
  <2>1. CASE c.no_default_mounts
    BY <1>4, <1>a, <2>1 DEF build_mounts
  <2>2. CASE ~c.no_default_mounts
    BY <1>4, <1>a, <2>2 DEF build_mounts
  <2> QED BY <2>1, <2>2
<1>6. user \in Seq(all) /\ Len(user) = Len(cli.mount)
  BY <1>3
<1>b. Defaults \in {0, 1}
  BY DEF Defaults
<1>7. first \in Seq(all) /\ Len(first) = Defaults
  <2>1. CASE Defaults = 0
    BY <2>1
  <2>2. CASE Defaults = 1
    <3>1. first = << own >> /\ own \in all
      BY <2>2
    <3> HIDE DEF own, all
    <3> QED BY <2>2, <3>1
  <2> QED BY <1>b, <2>1, <2>2
<1> HIDE DEF first, user, all
<1>8. Wanted \in Seq(all) /\ Len(Wanted) = Defaults + Len(cli.mount)
  BY <1>5, <1>6, <1>7, <1>b
<1>9. \A k \in 1 .. Len(Wanted) : Wanted[k] = IF k <= Defaults THEN first[k]
                                              ELSE user[k - Defaults]
  BY <1>5, <1>6, <1>7, <1>8
<1>11. \A n \in 1 .. Len(cli.mount) : Wanted[Defaults + n] = parse_mount(cli.mount[n])
  <2> SUFFICES ASSUME NEW n \in 1 .. Len(cli.mount)
               PROVE  Wanted[Defaults + n] = parse_mount(cli.mount[n])
    OBVIOUS
  <2>1. /\ Defaults + n \in 1 .. Len(Wanted) /\ ~(Defaults + n <= Defaults)
        /\ (Defaults + n) - Defaults = n
    BY <1>3, <1>8, <1>b
  <2>2. Wanted[Defaults + n] = user[n]
    BY <1>9, <2>1
  <2> QED BY <2>2 DEF user
<1>12. Defaults = 1 => Wanted[1] = own
  <2> SUFFICES ASSUME Defaults = 1 PROVE Wanted[1] = own
    OBVIOUS
  <2>1. Wanted[1] = first[1]
    BY <1>3, <1>8, <1>9
  <2> HIDE DEF own
  <2> QED BY <2>1 DEF first
<1>13. Wanted \in Seq(Listed(Wanted))
  BY <1>8 DEF Listed
<1> QED BY <1>3, <1>8, <1>11, <1>12, <1>13

\* A mount as the request has it, field by field.
LEMMA StyroliteMount ==
  ASSUME NEW m
  PROVE  LET s == to_styrolite_mount(m) IN
         /\ s.src = Hosts[m.hostpath] /\ s.at = m.jailpath
         /\ ~OnlyPropagation(s) /\ (s.read_only <=> ~m.read_write)
         /\ s.create_mountpoint /\ (s.file <=> m.hostpath \in HostFiles) /\ ~s.safe
         /\ s.src \in Sources /\ s.at \in Paths => s \in MountSpec
<1> DEFINE src == Hosts[m.hostpath]
           at == m.jailpath
           ro == ~m.read_write
           file == m.hostpath \in HostFiles
           s == [src |-> src, at |-> at, bind |-> TRUE, recurse |-> FALSE,
                 unshare |-> FALSE, safe |-> FALSE, create_mountpoint |-> TRUE,
                 read_only |-> ro, file |-> file]
<1>1. /\ ro \in BOOLEAN /\ file \in BOOLEAN /\ (ro <=> ~m.read_write)
      /\ file <=> m.hostpath \in HostFiles
  OBVIOUS
<1>2. to_styrolite_mount(m) = [Plain(src, at) EXCEPT
        !.bind = TRUE, !.create_mountpoint = TRUE, !.read_only = ro, !.file = file]
  BY DEF to_styrolite_mount
<1> HIDE DEF src, at, ro, file
<1>3. to_styrolite_mount(m) = s
  BY <1>2 DEF Plain
<1>4. /\ s.src = src /\ s.at = at /\ ~OnlyPropagation(s) /\ s.read_only = ro
      /\ s.create_mountpoint /\ s.file = file /\ ~s.safe
      /\ s.src \in Sources /\ s.at \in Paths => s \in MountSpec
  BY <1>1 DEF OnlyPropagation, MountSpec, Filesystems
<1> HIDE DEF s
<1> QED BY <1>1, <1>3, <1>4 DEF src, at

\* Once the arguments are parsed, every mount is one that a request may hold.
LEMMA WantedMounts ==
  ASSUME cli \in Clis, \A n \in DOMAIN cli.mount : ~parse_mount_fails(cli.mount[n]),
         ~current_dir_fails(cli), NEW k \in 1 .. Len(Wanted)
  PROVE  to_styrolite_mount(Wanted[k]) \in {s \in MountSpec : s.src \in Sources}
<1>1. CASE Defaults = 1 /\ k = 1
  <2>1. cli.cwd \in Paths /\ Hosts[cli.cwd] \in Sources
    BY <1>1, ClisAssumption DEF Cli, Defaults, current_dir_fails
  <2> QED BY <1>1, <2>1, WantedOrder, StyroliteMount
<1>2. CASE ~(Defaults = 1 /\ k = 1)
  <2>1. PICK n \in 1 .. Len(cli.mount) : k = Defaults + n
    <3>1. Defaults \in {0, 1}
      BY DEF Defaults
    <3>2. k - Defaults \in 1 .. Len(cli.mount) /\ k = Defaults + (k - Defaults)
      BY <1>2, <3>1, WantedOrder
    <3> QED BY <3>2
  <2>2. /\ Wanted[k].hostpath = cli.mount[n][1] /\ Wanted[k].jailpath = cli.mount[n][2]
    <3>1. Wanted[k] = parse_mount(cli.mount[n])
      BY <2>1, WantedOrder
    <3> QED BY <3>1 DEF parse_mount
  <2>3. cli.mount[n][2] \in Paths /\ Hosts[cli.mount[n][1]] \in Sources
    BY <2>1, WantedOrder, ClisAssumption
  <2> QED BY <2>2, <2>3, StyroliteMount
<1> QED BY <1>1, <1>2

-----------------------------------------------------------------------------
(* One lemma per action. *)

\* What the command line comes to does not change.
LEMMA WantedFixed ==
  ASSUME UNCHANGED cli
  PROVE  /\ Wanted' = Wanted /\ Listed(Wanted)' = Listed(Wanted)
         /\ \A list : Translated(list)' <=> Translated(list)
BY DEF Wanted, Translated, Listed, build_mounts, to_styrolite_mount

\* Cli::parse
LEMMA ParseStep ==
  ASSUME JailInv, ParseArguments
  PROVE  JailInv'
<1>1. /\ jpc = "parse" /\ jpc' \in {"rejected", "base"} /\ UNCHANGED <<cli, builder, queue>>
      /\ UNCHANGED <<req, given, tree, pc, i, new_root>>
      /\ jpc' = "base" => \A n \in DOMAIN cli.mount : ~parse_mount_fails(cli.mount[n])
  BY DEF ParseArguments, vars
<1>2. WaitingInv'
  BY <1>1 DEF JailInv, WaitingInv, new
<1> QED BY <1>1, <1>2 DEF JailInv, BuilderInv, ReplacedInv

\* The chain of setters leaves the lists alone, and the queue is all of the mounts.
LEMMA BaseStep ==
  ASSUME JailInv, BuildBase
  PROVE  JailInv'
<1>1. /\ jpc = "base" /\ jpc' = "mounts" /\ UNCHANGED cli /\ cli \in Clis
      /\ UNCHANGED <<req, given, tree, pc, i, new_root>> /\ builder = << >>
      /\ ~current_dir_fails(cli)
  BY DEF BuildBase, vars, JailInv, WaitingInv, new
<1>2. WaitingInv'
  BY <1>1 DEF JailInv, WaitingInv, current_dir_fails
<1>3. queue' = Wanted
  BY <1>1 DEF BuildBase, Wanted
<1>4. /\ DOMAIN builder' \subseteq {"rootfs", "rootfs_readonly", "working_directory"}
      /\ {"rootfs", "rootfs_readonly"} \subseteq DOMAIN builder'
      /\ builder'["rootfs"] = cli.rootfs
      /\ builder'["rootfs_readonly"] = ~cli.no_rootfs_readonly
  BY <1>1 DEF BuildBase, Set
<1>5. ListOf(builder, "mounts")' = << >>
  BY <1>4 DEF ListOf
<1>6. Translated(<< >>)
  BY <1>1, WantedOrder DEF Translated, Defaults
<1>7. BuilderInv'
  BY <1>1, <1>3, <1>4, <1>5, <1>6, WantedFixed, WantedOrder DEF BuilderInv
<1>8. ReplacedInv'
  BY <1>1 DEF ReplacedInv
<1> QED BY <1>2, <1>7, <1>8 DEF JailInv

\* Without a current directory, that is all.
LEMMA LoseStep ==
  ASSUME JailInv, LoseCwd
  PROVE  JailInv'
<1>1. /\ jpc = "base" /\ jpc' = "rejected" /\ UNCHANGED <<cli, builder, queue>>
      /\ UNCHANGED <<req, given, tree, pc, i, new_root>>
  BY DEF LoseCwd, vars
<1>2. WaitingInv'
  BY <1>1 DEF JailInv, WaitingInv
<1> QED BY <1>1, <1>2 DEF JailInv, BuilderInv, ReplacedInv

\* A mount is pushed, the next of those wanted; or none is left.
LEMMA MountsStep ==
  ASSUME JailInv, PushMount
  PROVE  JailInv'
<1> DEFINE pushed == ListOf(builder, "mounts")
           spec == to_styrolite_mount(Head(queue))
<1>1. /\ jpc = "mounts" /\ jpc' \in {"mounts", "limits"} /\ UNCHANGED cli
      /\ UNCHANGED <<req, given, tree, pc, i, new_root>> /\ cli \in Clis
      /\ \A n \in DOMAIN cli.mount : ~parse_mount_fails(cli.mount[n])
      /\ ~current_dir_fails(cli)
  BY DEF PushMount, vars, JailInv, WaitingInv
<1>2. /\ {"rootfs", "rootfs_readonly"} \subseteq DOMAIN builder
      /\ builder.rootfs = cli.rootfs /\ builder.rootfs_readonly = ~cli.no_rootfs_readonly
      /\ DOMAIN builder \cap {"mutations", "masked_paths", "readonly_paths"} = {}
      /\ Translated(pushed)
      /\ queue \in Seq(Listed(Wanted)) /\ Len(pushed) + Len(queue) = Len(Wanted)
      /\ \A k \in 1 .. Len(queue) : queue[k] = Wanted[Len(pushed) + k]
  BY <1>1 DEF JailInv, BuilderInv
<1>3. /\ pushed \in Seq({s \in MountSpec : s.src \in Sources}) /\ Len(pushed) \in Nat
      /\ \A k \in 1 .. Len(pushed) : pushed[k] = to_styrolite_mount(Wanted[k])
      /\ Wanted \in Seq(Listed(Wanted)) /\ Len(Wanted) \in Nat
  BY <1>1, <1>2, WantedOrder DEF Translated
<1>4. WaitingInv' /\ ReplacedInv'
  BY <1>1 DEF JailInv, WaitingInv, ReplacedInv, current_dir_fails
<1>5. CASE queue = << >>
  <2>1. jpc' = "limits" /\ UNCHANGED builder /\ Len(pushed) = Len(Wanted)
    BY <1>2, <1>3, <1>5 DEF PushMount
  <2>2. pushed' = pushed
    BY <2>1
  <2>3. BuilderInv'
    BY <1>1, <1>2, <2>1, <2>2, WantedFixed DEF BuilderInv
  <2> QED BY <1>4, <2>3 DEF JailInv
<1>6. CASE queue # << >>
  <2>1. /\ jpc' = "mounts" /\ queue' = Tail(queue)
        /\ builder' = Push(builder, "mounts", spec)
    BY <1>6 DEF PushMount
  <2>2. /\ Head(queue) = Wanted[Len(pushed) + 1] /\ Len(pushed) + 1 \in 1 .. Len(Wanted)
        /\ Tail(queue) \in Seq(Listed(Wanted)) /\ Len(Tail(queue)) = Len(queue) - 1
        /\ \A k \in 1 .. Len(queue) - 1 : Tail(queue)[k] = Wanted[Len(pushed) + 1 + k]
    BY <1>2, <1>3, <1>6
  <2>3. spec = to_styrolite_mount(Wanted[Len(pushed) + 1])
    BY <2>2
  <2>4. spec \in {s \in MountSpec : s.src \in Sources}
    BY <1>1, <2>2, <2>3, WantedMounts
  <2> HIDE DEF spec, pushed
  <2>5. Translated(Append(pushed, spec))
    <3> DEFINE list == Append(pushed, spec)
    <3>1. /\ list \in Seq({s \in MountSpec : s.src \in Sources})
          /\ Len(list) = Len(pushed) + 1
      BY <1>3, <2>4
    <3>2. \A k \in 1 .. Len(list) : list[k] = to_styrolite_mount(Wanted[k])
      BY <1>3, <2>3
    <3> QED BY <2>2, <3>1, <3>2 DEF Translated
  <2>6. /\ DOMAIN builder' = DOMAIN builder \cup {"mounts"}
        /\ ListOf(builder', "mounts") = Append(pushed, spec)
        /\ \A f \in DOMAIN builder \ {"mounts"} : builder'[f] = builder[f]
    <3> DEFINE b == Push(builder, "mounts", spec)
    <3>1. /\ DOMAIN b = DOMAIN builder \cup {"mounts"}
          /\ ListOf(b, "mounts") = Append(ListOf(builder, "mounts"), spec)
          /\ \A f \in DOMAIN builder \ {"mounts"} : b[f] = builder[f]
      BY PushFacts, Zenon
    <3> HIDE DEF b
    <3>2. builder' = b
      BY <2>1 DEF b
    <3> QED BY <3>1, <3>2 DEF pushed
  <2>7. Len(Append(pushed, spec)) = Len(pushed) + 1
    BY <1>3
  <2>8. ListOf(builder, "mounts")' = Append(pushed, spec)
    BY <2>6 DEF ListOf
  <2>9. /\ Len(Append(pushed, spec)) + Len(queue') = Len(Wanted)
        /\ \A k \in 1 .. Len(queue') : queue'[k] = Wanted[Len(Append(pushed, spec)) + k]
    BY <1>2, <1>3, <2>1, <2>2, <2>7
  <2>10. /\ {"rootfs", "rootfs_readonly"} \subseteq DOMAIN builder'
         /\ builder'["rootfs"] = cli.rootfs
         /\ builder'["rootfs_readonly"] = ~cli.no_rootfs_readonly
         /\ DOMAIN builder' \cap {"mutations", "masked_paths", "readonly_paths"} = {}
    BY <1>2, <2>6
  <2>11. BuilderInv'
    BY <1>1, <2>1, <2>2, <2>5, <2>8, <2>9, <2>10, WantedFixed DEF BuilderInv
  <2> QED BY <1>4, <2>11 DEF JailInv
<1> QED BY <1>5, <1>6

\* The limits leave the mounts alone.
LEMMA LimitsStep ==
  ASSUME JailInv, PushLimit
  PROVE  JailInv'
<1>1. /\ jpc = "limits" /\ jpc' \in {"limits", "exec"} /\ UNCHANGED cli
      /\ UNCHANGED <<req, given, tree, pc, i, new_root>>
      /\ \/ UNCHANGED builder
         \/ builder' = Insert(builder, "limits", Head(queue)[1], Head(queue)[2])
  BY DEF PushLimit, vars
<1>2. WaitingInv' /\ ReplacedInv'
  BY <1>1 DEF JailInv, WaitingInv, ReplacedInv, current_dir_fails
<1>3. /\ DOMAIN builder' \in {DOMAIN builder, DOMAIN builder \cup {"limits"}}
      /\ \A f \in DOMAIN builder \ {"limits"} : builder'[f] = builder[f]
  <2>1. CASE UNCHANGED builder
    BY <2>1
  <2>2. CASE builder' = Insert(builder, "limits", Head(queue)[1], Head(queue)[2])
    <3> DEFINE map == Set(IF "limits" \in DOMAIN builder THEN builder["limits"] ELSE new,
                          Head(queue)[1], Head(queue)[2])
    <3>1. builder' = Set(builder, "limits", map)
      BY <2>2 DEF Insert
    <3> HIDE DEF map
    <3> QED BY <3>1 DEF Set
  <2> QED BY <1>1, <2>1, <2>2
<1>4. ListOf(builder, "mounts")' = ListOf(builder, "mounts")
  BY <1>3 DEF ListOf
<1>5. BuilderInv'
  BY <1>1, <1>3, <1>4, WantedFixed DEF JailInv, BuilderInv
<1> QED BY <1>2, <1>5 DEF JailInv

\* Runner::exec hands pivot_fs a request that it can start with.
LEMMA ExecStep ==
  ASSUME JailInv, ExecRunner
  PROVE  JailInv'
<1>1. /\ jpc = "exec" /\ jpc' = "replaced" /\ UNCHANGED <<cli, given, tree, i>>
      /\ pc' = "unshare" /\ cli \in Clis /\ given \in Trees /\ tree = given /\ i = 1
      /\ new_root' = IF builder.rootfs = "/" THEN "slash" ELSE "elsewhere"
  BY DEF ExecRunner, JailInv, WaitingInv
<1>2. /\ builder.rootfs = cli.rootfs /\ builder.rootfs_readonly = ~cli.no_rootfs_readonly
      /\ DOMAIN builder \cap {"mutations", "masked_paths", "readonly_paths"} = {}
      /\ Translated(ListOf(builder, "mounts"))
      /\ Len(ListOf(builder, "mounts")) = Len(Wanted)
  BY <1>1 DEF JailInv, BuilderInv
<1>3. /\ ListOf(builder, "mutations") = << >> /\ ListOf(builder, "masked_paths") = << >>
      /\ ListOf(builder, "readonly_paths") = << >>
  BY <1>2 DEF ListOf
<1> DEFINE mounts == ListOf(builder, "mounts")
           sealed == ~cli.no_rootfs_readonly
<1>4. /\ req' = [rootfs |-> cli.rootfs, rootfs_readonly |-> sealed, mounts |-> mounts,
                 mutations |-> << >>, masked_paths |-> << >>, readonly_paths |-> << >>]
  BY <1>2, <1>3 DEF ExecRunner
<1>5. /\ cli.rootfs \in {"/", "path", "nowhere"} /\ sealed \in BOOLEAN
      /\ mounts \in Seq({s \in MountSpec : s.src \in Sources})
  BY <1>1, <1>2, ClisAssumption DEF Cli, Translated
<1> HIDE DEF mounts, sealed
<1>6. /\ req' \in Request /\ req'.rootfs = cli.rootfs /\ req'.mounts = mounts
      /\ req'.mutations = << >> /\ req'.masked_paths = << >>
      /\ req'.readonly_paths = << >> /\ req'.rootfs_readonly = sealed
  BY <1>4, <1>5 DEF Request
<1>7. Started'
  BY <1>1, <1>2, <1>6 DEF Started
<1>8. IInv'
  BY <1>7, StartNext
<1>9. ReplacedInv'
  BY <1>1, <1>2, <1>6, <1>8, WantedFixed DEF ReplacedInv, mounts, sealed
<1>10. WaitingInv'
  BY <1>1 DEF JailInv, WaitingInv, current_dir_fails
<1>11. BuilderInv'
  BY <1>1 DEF BuilderInv
<1> QED BY <1>9, <1>10, <1>11 DEF JailInv

\* pivot_fs changes nothing of the request.
LEMMA PivotFsStep ==
  ASSUME JailInv, jpc = "replaced", [Next]_vars, UNCHANGED jailVars
  PROVE  JailInv'
<1>1. IInv /\ UNCHANGED <<cli, jpc, builder, queue>>
  BY DEF JailInv, ReplacedInv, jailVars
<1>2. UNCHANGED <<req, given>>
  BY DEF Next, vars, UnshareOldRoot, StageRoot, BindNewRoot, Seal, MountProc, MountNext,
     MutateNext, MaskNext, MakeReadonlyNext, Done, Pivot
<1>3. IInv'
  BY <1>1, StepInv
<1>4. ReplacedInv'
  BY <1>1, <1>2, <1>3, WantedFixed DEF JailInv, ReplacedInv
<1> QED BY <1>1, <1>2, <1>4 DEF JailInv, WaitingInv, BuilderInv, current_dir_fails

-----------------------------------------------------------------------------
(* The invariant. *)

\* The request grows as the command line says, and pivot_fs keeps its invariant.
THEOREM JailInvariance == JailSpec => []JailInv
<1>1. JailInit => JailInv
  BY DEF JailInit, JailInv, WaitingInv, BuilderInv, ReplacedInv
<1>2. ASSUME JailInv, [JailNext]_allVars PROVE JailInv'
  <2>1. CASE UNCHANGED allVars
    <3>1. UNCHANGED jailVars /\ UNCHANGED vars
      BY <2>1 DEF allVars
    <3>2. CASE jpc = "replaced"
      BY <1>2, <3>1, <3>2, PivotFsStep
    <3>3. CASE jpc # "replaced"
      <4>1. UNCHANGED <<cli, jpc, builder, queue, given, tree, pc, i>>
        BY <3>1 DEF jailVars, vars
      <4>2. ListOf(builder, "mounts")' = ListOf(builder, "mounts")
        BY <4>1
      <4>3. WaitingInv' /\ ReplacedInv'
        BY <1>2, <3>3, <4>1 DEF JailInv, WaitingInv, ReplacedInv, current_dir_fails
      <4>4. BuilderInv'
        BY <1>2, <4>1, <4>2, WantedFixed DEF JailInv, BuilderInv
      <4> QED BY <4>3, <4>4 DEF JailInv
    <3> QED BY <3>2, <3>3
  <2>2. CASE JailNext
    BY <1>2, <2>2, ParseStep, BaseStep, LoseStep, MountsStep, LimitsStep, ExecStep, PivotFsStep
       DEF JailNext
  <2> QED BY <1>2, <2>1, <2>2
<1> QED BY <1>1, <1>2, PTL DEF JailSpec

\* Where a mount of the request comes from: the current directory, or the command
\* line, whose last part decides whether it may be written.
LEMMA MountOrigin ==
  ASSUME JailInv, jpc = "replaced", NEW k \in 1 .. Len(req.mounts)
  PROVE  LET s == req.mounts[k] IN
         \/ s.src = Hosts[cli.cwd] /\ s.at = cli.cwd
         \/ \E n \in DOMAIN cli.mount :
              /\ s.src = Hosts[cli.mount[n][1]] /\ s.at = cli.mount[n][2]
              /\ ~s.read_only => cli.mount[n][Len(cli.mount[n])] = "rw"
<1> DEFINE s == req.mounts[k]
           w == Wanted[k]
<1>1. /\ cli \in Clis /\ \A n \in DOMAIN cli.mount : ~parse_mount_fails(cli.mount[n])
      /\ s = to_styrolite_mount(w) /\ k \in 1 .. Len(Wanted)
  BY DEF JailInv, WaitingInv, ReplacedInv, Translated
<1>2. /\ s.src = Hosts[w.hostpath] /\ s.at = w.jailpath
      /\ s.read_only <=> ~w.read_write
  BY <1>1, StyroliteMount
<1> HIDE DEF s
<1>3. CASE Defaults = 1 /\ k = 1
  <2>1. w = [hostpath |-> cli.cwd, jailpath |-> cli.cwd, read_write |-> TRUE]
    BY <1>1, <1>3, WantedOrder
  <2>2. s.src = Hosts[cli.cwd] /\ s.at = cli.cwd
    BY <1>2, <2>1
  <2> QED BY <2>2 DEF s
<1>4. CASE ~(Defaults = 1 /\ k = 1)
  <2>1. PICK n \in 1 .. Len(cli.mount) : k = Defaults + n
    <3>1. Defaults \in {0, 1}
      BY DEF Defaults
    <3>2. k - Defaults \in 1 .. Len(cli.mount) /\ k = Defaults + (k - Defaults)
      BY <1>1, <1>4, <3>1, WantedOrder
    <3> QED BY <3>2
  <2>2. w = parse_mount(cli.mount[n]) /\ n \in DOMAIN cli.mount
    BY <1>1, <2>1, WantedOrder
  <2>3. /\ w.hostpath = cli.mount[n][1] /\ w.jailpath = cli.mount[n][2]
        /\ w.read_write <=> Len(cli.mount[n]) = 3
    <3> DEFINE three == Len(cli.mount[n]) = 3
    <3>1. w = [hostpath |-> cli.mount[n][1], jailpath |-> cli.mount[n][2],
               read_write |-> three]
      BY <2>2 DEF parse_mount
    <3> HIDE DEF w, three
    <3>2. /\ w.hostpath = cli.mount[n][1] /\ w.jailpath = cli.mount[n][2]
          /\ w.read_write = three
      BY <3>1
    <3> QED BY <3>2, Zenon DEF three
  <2>4. Len(cli.mount[n]) = 3 => cli.mount[n][Len(cli.mount[n])] = "rw"
    BY <1>1, <2>2 DEF parse_mount_fails
  <2> HIDE DEF w
  <2> QED BY <1>2, <2>2, <2>3, <2>4 DEF s
<1> QED BY <1>3, <1>4

\* In a jail of one read-only file system, what can be written is what the command
\* line or the current directory makes so.
THEOREM JailWritableHolds == JailSpec => []JailWritable
<1>1. ASSUME JailInv PROVE JailWritable
  <2> SUFFICES ASSUME pc = "pivoted", ~cli.no_rootfs_readonly,
                      \A p \in Paths : given.view[p].fs = "rootfs",
                      NEW p \in Paths, ~tree.view[p].ro,
                      tree.view[p].fs \notin {"proc", "stage"}
               PROVE  \/ /\ cli.cwd \in Paths /\ p \in Beneath[cli.cwd]
                         /\ tree.view[p].fs = Hosts[cli.cwd]
                      \/ \E n \in DOMAIN cli.mount :
                           /\ cli.mount[n][Len(cli.mount[n])] = "rw"
                           /\ tree.view[p].fs = Hosts[cli.mount[n][1]]
    BY DEF JailWritable
  <2>1. /\ jpc = "replaced" /\ IInv /\ req.rootfs_readonly /\ req.masked_paths = << >>
    BY <1>1 DEF JailInv, WaitingInv, ReplacedInv
  <2>2. tree.view[p].fs \in Filesystems
    BY <2>1 DEF IInv, TypeOK, Tree, Mounts
  <2>3. tree.view[p].fs \notin {"rootfs", "submount", "null", "empty"}
    BY <2>1 DEF IInv, SealInv, OriginInv, BeforeSeal
  <2>4. tree.view[p].fs \in Sources
    BY <2>2, <2>3 DEF Filesystems
  <2>5. PICK s \in Listed(req.mounts) : /\ s.src = tree.view[p].fs /\ p \in Beneath[s.at]
                                        /\ ~s.read_only
    BY <2>1, <2>4 DEF IInv, OriginInv
  <2>6. PICK k \in 1 .. Len(req.mounts) : s = req.mounts[k]
    BY DEF Listed
  <2>7. s.at \in Paths
    BY <2>1, <2>6, Lists DEF MountSpec
  <2> QED BY <1>1, <2>1, <2>5, <2>6, <2>7, MountOrigin
<1> QED BY <1>1, JailInvariance, PTL

\* What the user mounts is covered by nothing but a later mount of the user's.
THEOREM UserMountsShowHolds == JailSpec => []UserMountsShow
<1>1. ASSUME JailInv PROVE UserMountsShow
  <2> SUFFICES ASSUME pc = "pivoted", NEW n \in DOMAIN cli.mount,
                      \A m \in n + 1 .. Len(cli.mount) :
                        cli.mount[n][2] \notin Beneath[cli.mount[m][2]]
               PROVE  tree.view[cli.mount[n][2]].fs = Hosts[cli.mount[n][1]]
    BY DEF UserMountsShow
  <2>1. /\ jpc = "replaced" /\ cli \in Clis /\ IInv /\ req.masked_paths = << >>
        /\ Len(req.mounts) = Len(Wanted)
        /\ \A k \in 1 .. Len(Wanted) : req.mounts[k] = to_styrolite_mount(Wanted[k])
    BY <1>1 DEF JailInv, WaitingInv, ReplacedInv, Translated
  <2>2. /\ Defaults \in {0, 1} /\ Len(cli.mount) \in Nat
        /\ Len(Wanted) = Defaults + Len(cli.mount) /\ n \in 1 .. Len(cli.mount)
    BY <2>1, WantedOrder DEF Defaults
  <2>3. ASSUME NEW m \in 1 .. Len(cli.mount)
        PROVE  /\ Defaults + m \in 1 .. Len(Wanted)
               /\ req.mounts[Defaults + m].src = Hosts[cli.mount[m][1]]
               /\ req.mounts[Defaults + m].at = cli.mount[m][2]
               /\ ~OnlyPropagation(req.mounts[Defaults + m])
    <3>1. Defaults + m \in 1 .. Len(Wanted)
      BY <2>2
    <3>2. Wanted[Defaults + m] = parse_mount(cli.mount[m])
      BY <2>1, WantedOrder
    <3>3. req.mounts[Defaults + m] = to_styrolite_mount(parse_mount(cli.mount[m]))
      BY <2>1, <3>1, <3>2
    <3>4. /\ parse_mount(cli.mount[m]).hostpath = cli.mount[m][1]
          /\ parse_mount(cli.mount[m]).jailpath = cli.mount[m][2]
      BY DEF parse_mount
    <3> QED BY <3>1, <3>3, <3>4, StyroliteMount
  <2>4. MountsHandled = Len(Wanted)
    BY <2>1 DEF MountsHandled, Handled
  <2>5. ASSUME NEW m \in Defaults + n + 1 .. Len(Wanted)
        PROVE  cli.mount[n][2] \notin Beneath[req.mounts[m].at]
    <3>1. /\ m - Defaults \in n + 1 .. Len(cli.mount) /\ m - Defaults \in 1 .. Len(cli.mount)
          /\ m = Defaults + (m - Defaults)
      BY <2>2
    <3> QED BY <2>3, <3>1
  <2> QED BY <2>1, <2>2, <2>3, <2>4, <2>5 DEF IInv, ShownInv
<1> QED BY <1>1, JailInvariance, PTL

-----------------------------------------------------------------------------
(* A jail that can be entered: one lemma per action of pivot_fs. *)

\* Its mounts, and what the rootfs has above them.
LEMMA EnterMounts ==
  ASSUME JailInv, jpc = "replaced", Enterable, NEW k \in 1 .. Len(req.mounts)
  PROVE  LET s == req.mounts[k] IN
         /\ s \in MountSpec /\ s.src \in Sources /\ s.at \in Paths
         /\ s.create_mountpoint /\ ~s.file /\ ~OnlyPropagation(s)
         /\ s.src \notin Refused \cup Locked /\ ~SetAttrFails(s)
         /\ s.src = Hosts[Wanted[k].hostpath] /\ s.at = Wanted[k].jailpath
         /\ \A q \in Above(s.at) : given.kind[q] = "dir" /\ q \notin Beneath[Proc]
<1> DEFINE s == req.mounts[k]
           w == Wanted[k]
<1>1. /\ s = to_styrolite_mount(w) /\ k \in 1 .. Len(Wanted)
      /\ s \in MountSpec /\ s.src \in Sources /\ given \in Trees
  BY DEF JailInv, WaitingInv, ReplacedInv, Translated
<1>2. /\ s.src = Hosts[w.hostpath] /\ s.at = w.jailpath /\ s.create_mountpoint
      /\ ~OnlyPropagation(s) /\ (s.file <=> w.hostpath \in HostFiles)
      /\ ~s.safe /\ (s.read_only <=> ~w.read_write)
  BY <1>1, StyroliteMount
<1>3. /\ w.hostpath \notin HostFiles /\ w.jailpath \notin Beneath[Proc]
      /\ given.kind[w.jailpath] = "dir" /\ Hosts[w.hostpath] \notin Refused \cup Locked
      /\ Hosts[w.hostpath] \in Unsettable => w.read_write
  BY <1>1 DEF Enterable, Listed
<1> HIDE DEF s, w
<1>4. s.at \in Paths
  BY <1>1 DEF MountSpec
<1>5. ASSUME NEW q \in Above(s.at) PROVE given.kind[q] = "dir" /\ q \notin Beneath[Proc]
  <2>1. q \in Paths /\ s.at \in Beneath[q]
    BY DEF Above
  <2>2. given.kind[q] = "dir"
    BY <1>1, <1>2, <1>3, <1>4, <2>1, TreesAssumption
  <2>3. q \notin Beneath[Proc]
    BY <1>2, <1>3, <2>1, PathsAssumption
  <2> QED BY <2>2, <2>3
<1>6. s.src \notin Refused \cup Locked /\ ~SetAttrFails(s)
  BY <1>2, <1>3 DEF SetAttrFails
<1> QED BY <1>1, <1>2, <1>3, <1>4, <1>5, <1>6 DEF s, w

\* What is above its mounts is there, in the rootfs as it came.
AboveThere ==
  jpc = "replaced" =>
    \A k \in 1 .. Len(req.mounts) : \A q \in Above(req.mounts[k].at) : given.kind[q] = "dir"

LEMMA EnterAbove == JailInv /\ Enterable => AboveThere
<1> SUFFICES ASSUME JailInv, jpc = "replaced", Enterable, NEW k \in 1 .. Len(req.mounts)
             PROVE  \A q \in Above(req.mounts[k].at) : given.kind[q] = "dir"
  BY DEF AboveThere
<1> QED BY EnterMounts

\* The same after a step.
LEMMA EnterAboveNext == JailInv' /\ Enterable' => AboveThere'
BY EnterAbove, PTL

\* What it takes does not change.
LEMMA EnterFixed ==
  ASSUME UNCHANGED <<cli, given>>
  PROVE  Enterable' <=> Enterable
BY WantedFixed DEF Enterable, current_dir_fails, Above

\* What the lemmas below start from.
LEMMA EnterFacts ==
  ASSUME JailInv, jpc = "replaced", Enterable
  PROVE  /\ IInv /\ tree \in Tree /\ given \in Trees /\ Len(req.mounts) \in Nat
         /\ req.rootfs = "/" /\ given.kind[Proc] = "dir"
         /\ \A q \in Above(Stage) : /\ q \in Paths /\ given.kind[q] # "file"
                                    /\ given.kind[q] = "none" => ~given.view[q].ro
         /\ req.mutations = << >> /\ req.masked_paths = << >> /\ req.readonly_paths = << >>
         /\ \A q \in Paths : tree.kind[q] \in Kinds
         /\ pc \in BeforeSeal \cup {"proc"} => MountsHandled = 0
         /\ pc = "mounts" => MountsHandled = i - 1
         /\ \A fs \in {"proc", "stage", "self"} : fs \notin Refused \cup Unsettable \cup Locked
<1>1. /\ IInv /\ given \in Trees /\ cli.rootfs = req.rootfs
      /\ req.mutations = << >> /\ req.masked_paths = << >> /\ req.readonly_paths = << >>
  BY DEF JailInv, WaitingInv, ReplacedInv
<1>2. tree \in Tree
  BY <1>1 DEF IInv, TypeOK
<1>3. \A q \in Above(Stage) : /\ q \in Paths /\ given.kind[q] # "file"
                              /\ given.kind[q] = "none" => ~given.view[q].ro
  BY DEF Enterable, Above
<1>4. /\ pc \in BeforeSeal \cup {"proc"} => MountsHandled = 0
      /\ pc = "mounts" => MountsHandled = i - 1
  BY DEF MountsHandled, Handled, BeforeSeal
<1>5. \A fs \in {"proc", "stage", "self"} : fs \notin Refused \cup Unsettable \cup Locked
  BY Distinct DEF Enterable
<1> QED BY <1>1, <1>2, <1>3, <1>4, <1>5, Lists DEF Enterable, Tree

\* A mount with room for it is made.
LEMMA RoomFits ==
  ASSUME tree \in Tree, NEW s \in MountSpec, s.create_mountpoint, ~s.file,
         ~OnlyPropagation(s), Room(s.at), s.src \notin Refused \cup Locked, ~SetAttrFails(s),
         \A p \in Paths : tree.view[p].fs = "stage" => ~tree.view[p].ro
  PROVE  ~MountFails(tree, s)
<1>1. \A q \in Above(s.at) : /\ tree.kind[q] # "file"
                             /\ tree.kind[q] = "none" => /\ ~tree.view[q].ro
                                                         /\ tree.view[q].fs # "proc"
  BY DEF Room, Above
<1> QED BY <1>1, CreatedFits

\* unshare
LEMMA EnterUnshare ==
  ASSUME JailInv, jpc = "replaced", Enterable, Entering, UnshareOldRoot
  PROVE  Entering'
<1>1. /\ pc = "unshare" /\ UNCHANGED <<req, given, i>> /\ tree \in Tree /\ req.rootfs = "/"
      /\ tree.kind[Root] = "dir" /\ tree.view[Root].at = Root /\ MountsHandled = 0
  BY EnterFacts DEF UnshareOldRoot, Entering, IInv, SealInv, BeforeSeal
<1>2. Create(tree, OldRoot) = tree
  BY <1>1, OwnSpecs, CreateFacts
<1>3. ~MountFails(tree, OldRoot)
  BY <1>1, <1>2, OwnSpecs, Distinct DEF MountFails, CreateFails, AttachFails, SetAttrFails
<1> DEFINE t == Mount(tree, OldRoot)
<1>4. tree' = t /\ pc' = "stage"
  BY <1>1, <1>3 DEF UnshareOldRoot, MountThen
<1>5. /\ t.kind = tree.kind
      /\ \A q \in Paths : /\ t.view[q].at = tree.view[q].at
                          /\ t.view[q].fs = tree.view[q].fs
                          /\ t.view[q].ro <=> tree.view[q].ro
  BY <1>1, <1>2, OwnSpecs, PropagationMount
<1> HIDE DEF t
<1>6. ASSUME NEW k \in 1 .. Len(req.mounts) PROVE Room(req.mounts[k].at)'
  <2>1. Room(req.mounts[k].at)
    BY <1>1 DEF Entering, BeforeSeal
  <2> QED BY <1>1, <1>4, <1>5, <2>1 DEF Room, Above
<1>7. MountsHandled' = 0
  BY <1>4 DEF MountsHandled, Handled
<1> QED BY <1>1, <1>4, <1>5, <1>6, <1>7 DEF Entering, BeforeSeal

\* stage: below the staging directory there is nothing, but room.
LEMMA EnterStage ==
  ASSUME JailInv, jpc = "replaced", Enterable, Entering, StageRoot
  PROVE  Entering'
<1> DEFINE t == Mount(tree, StageSpec)
           u == CreateDirAll(tree, Stage)
<1>1. /\ pc = "stage" /\ UNCHANGED <<req, given, i>> /\ tree \in Tree
      /\ tree.kind = given.kind /\ tree.kind[Root] = "dir" /\ tree.kind[Proc] = "dir"
      /\ \A q \in Above(Stage) :
           /\ tree.kind[q] # "file"
           /\ tree.kind[q] = "none" => ~tree.view[q].ro /\ tree.view[q].fs # "proc"
  BY EnterFacts DEF StageRoot, Entering, BeforeSeal
<1>2. ~MountFails(tree, StageSpec)
  <2>1. "stage" \notin Refused \cup Unsettable \cup Locked
    BY EnterFacts
  <2> QED BY <1>1, <2>1, OwnSpecs, CreatedFits DEF SetAttrFails
<1>3. tree' = t /\ pc' = "bind"
  BY <1>2 DEF StageRoot, MountThen
<1>4. /\ StageSpec \in MountSpec /\ ~OnlyPropagation(StageSpec) /\ StageSpec.at = Stage
      /\ StageSpec.src = "stage" /\ StageSpec.src # "self" /\ ~StageSpec.read_only
  BY OwnSpecs
<1>a. \A q \in Paths : Content["stage"][q] = "none"
  BY SourcesAssumption
<1>b. Create(tree, StageSpec) = u
  <2>1. tree \in Tree /\ StageSpec.create_mountpoint /\ ~StageSpec.file
    BY <1>1, OwnSpecs
  <2> QED BY <1>4, <2>1, CreateFacts
<1>5. \A q \in Paths : tree.kind[q] = "dir" => u.kind[q] = "dir"
  <2>1. \A q \in Paths : u.kind[q] = IF q \in Above(Stage) /\ tree.kind[q] = "none"
                                       THEN "dir" ELSE tree.kind[q]
    BY <1>1, CreateDirAllFacts, Distinct
  <2> HIDE DEF u
  <2> QED BY <1>1, <2>1
<1> HIDE DEF u
<1>6. \A q \in Paths : /\ q \in Beneath[Stage] \ {Stage} => t.kind[q] = "none"
                       /\ q \notin Beneath[Stage] \ {Stage} /\ tree.kind[q] = "dir" =>
                            t.kind[q] = "dir"
  BY <1>1, <1>4, <1>5, <1>a, <1>b, CoverMount
<1>7. /\ \A q \in Beneath[Stage] : /\ t.view[q].at = Stage /\ t.view[q].fs = "stage"
                                   /\ ~t.view[q].ro
      /\ \A q \in Paths \ Beneath[Stage] : /\ t.view[q].at = tree.view[q].at
                                           /\ t.view[q].fs = tree.view[q].fs
                                           /\ t.view[q].ro <=> tree.view[q].ro
  BY <1>1, <1>4, CoverMount
<1> HIDE DEF t
<1>8. Root \notin Beneath[Stage] /\ Stage # Root
  BY PathsAssumption
<1>9. t.kind[Root] = "dir" /\ t.kind[Proc] = "dir"
  BY <1>1, <1>6, <1>8, Distinct
<1>10. \A p \in Paths : t.view[p].fs = "stage" => t.view[p].at # Root /\ ~t.view[p].ro
  BY <1>1, <1>7, <1>8 DEF Entering, BeforeSeal
<1>11. ASSUME NEW k \in 1 .. Len(req.mounts) PROVE Room(req.mounts[k].at)'
  <2>1. \A q \in Above(req.mounts[k].at) : q \in Paths /\ tree.kind[q] = "dir"
    BY <1>1, EnterMounts DEF Above
  <2> QED BY <1>1, <1>3, <1>6, <1>7, <2>1 DEF Room, Above
<1>12. MountsHandled' = 0
  BY <1>3 DEF MountsHandled, Handled
<1> QED BY <1>1, <1>3, <1>9, <1>10, <1>11, <1>12 DEF Entering, BeforeSeal

\* bind: the staging directory stays a mount of its own.
LEMMA EnterBind ==
  ASSUME JailInv, jpc = "replaced", Enterable, Entering, BindNewRoot
  PROVE  Entering'
<1> DEFINE t == Mount(tree, NewRoot)
<1>1. /\ pc = "bind" /\ UNCHANGED <<req, given, i>> /\ tree \in Tree /\ MountsHandled = 0
      /\ tree.kind[Root] = "dir" /\ tree.kind[Proc] = "dir" /\ tree.view[Root].at = Root
  BY EnterFacts DEF BindNewRoot, Entering, IInv, SealInv, BeforeSeal
<1>2. Create(tree, NewRoot) = tree
  BY <1>1, OwnSpecs, CreateFacts
<1>3. ~MountFails(tree, NewRoot)
  BY <1>1, <1>2, OwnSpecs, Distinct DEF MountFails, CreateFails, AttachFails, SetAttrFails
<1>4. tree' = t /\ pc' \in {"seal", "proc"}
  <2>1. req.rootfs = "/"
    BY EnterFacts
  <2> QED BY <1>3, <2>1 DEF BindNewRoot, MountThen
<1>5. /\ t.kind = tree.kind
      /\ \A q \in Paths : /\ t.view[q].at = tree.view[q].at \/ tree.view[q].at = Root
                          /\ t.view[q].fs = tree.view[q].fs
                          /\ t.view[q].ro <=> tree.view[q].ro
  BY <1>1, OwnSpecs, SelfMount
<1> HIDE DEF t
<1>6. ASSUME NEW k \in 1 .. Len(req.mounts) PROVE Room(req.mounts[k].at)'
  <2>1. Room(req.mounts[k].at)
    BY <1>1 DEF Entering, BeforeSeal
  <2> QED BY <1>1, <1>4, <1>5, <2>1 DEF Room, Above
<1>7. MountsHandled' = 0
  BY <1>4 DEF MountsHandled, Handled
<1>8. \A p \in Paths : t.view[p].fs = "stage" => t.view[p].at # Root /\ ~t.view[p].ro
  BY <1>1, <1>5 DEF Entering, BeforeSeal
<1> QED BY <1>1, <1>4, <1>5, <1>6, <1>7, <1>8 DEF Entering, BeforeSeal

\* seal: it does not reach the staging directory, where mount points can still be made.
LEMMA EnterSeal ==
  ASSUME JailInv, jpc = "replaced", Enterable, Entering, Seal
  PROVE  Entering'
<1> DEFINE s == SealSpec
           t == SetAttr(tree, s)
<1>2. s \in MountSpec /\ s.at = Root /\ ~s.recurse /\ s.src = "self"
  BY OwnSpecs
<1>a. ~SetAttrFails(s)
  BY <1>2, EnterFacts DEF SetAttrFails
<1>1. /\ pc = "seal" /\ pc' = "proc" /\ UNCHANGED <<req, given, i>> /\ tree' = t
      /\ tree \in Tree /\ MountsHandled = 0
      /\ tree.kind[Proc] = "dir" /\ tree.view[Root].at = Root
  BY <1>a, EnterFacts DEF Seal, Entering, IInv, SealInv, BeforeSeal
<1> HIDE DEF s
<1>3. /\ t.kind = tree.kind
      /\ \A q \in Paths :
           /\ t.view[q].fs = tree.view[q].fs /\ t.view[q].at = tree.view[q].at
           /\ t.view[q].ro => tree.view[q].ro \/ q \in Reached(tree.view, s)
  BY <1>1, <1>2, SetAttrFacts
<1> HIDE DEF t
<1>4. \A q \in Reached(tree.view, s) : tree.view[q].at = Root
  BY <1>1, <1>2 DEF Reached
<1>5. \A p \in Paths : t.view[p].fs = "stage" => t.view[p].at # Root /\ ~t.view[p].ro
  BY <1>1, <1>3, <1>4 DEF Entering, BeforeSeal
<1>6. ASSUME NEW k \in 1 .. Len(req.mounts) PROVE Room(req.mounts[k].at)'
  <2>1. Room(req.mounts[k].at)
    BY <1>1 DEF Entering, BeforeSeal
  <2> QED BY <1>1, <1>3, <2>1 DEF Room, Above
<1>7. MountsHandled' = 0
  BY <1>1 DEF MountsHandled, Handled
<1> QED BY <1>1, <1>3, <1>5, <1>6, <1>7 DEF Entering, BeforeSeal

\* proc: no mount of the user's lies below it.
LEMMA EnterProc ==
  ASSUME JailInv, jpc = "replaced", Enterable, Entering, MountProc
  PROVE  Entering'
<1> DEFINE t == Mount(tree, ProcSpec)
<1>1. /\ pc = "proc" /\ UNCHANGED <<req, given, i>> /\ tree \in Tree /\ MountsHandled = 0
      /\ tree.kind[Proc] = "dir" /\ i = 1
  BY EnterFacts DEF MountProc, Entering, IInv, IndexInv
<1>2. /\ ProcSpec \in MountSpec /\ ~OnlyPropagation(ProcSpec) /\ ProcSpec.at = Proc
      /\ ProcSpec.src = "proc" /\ ProcSpec.src # "self"
      /\ ~ProcSpec.create_mountpoint /\ ~ProcSpec.file /\ ~ProcSpec.bind
  BY OwnSpecs
<1>3. Create(tree, ProcSpec) = tree
  BY <1>1, <1>2, CreateFacts
<1>4. ~MountFails(tree, ProcSpec)
  <2>1. "proc" \notin Refused \cup Unsettable \cup Locked
    BY EnterFacts
  <2> QED BY <1>1, <1>2, <1>3, <2>1 DEF MountFails, CreateFails, AttachFails, SetAttrFails
<1>5. tree' = t /\ pc' = "mounts"
  BY <1>4 DEF MountProc, MountThen
<1>6. /\ \A q \in Beneath[Proc] : t.view[q].fs = "proc"
      /\ \A q \in Paths \ Beneath[Proc] :
           /\ t.kind[q] = tree.kind[q]
           /\ t.view[q].at = tree.view[q].at /\ t.view[q].fs = tree.view[q].fs
           /\ t.view[q].ro <=> tree.view[q].ro
  BY <1>1, <1>2, <1>3, CoverMount
<1> HIDE DEF t
<1>7. \A p \in Paths : t.view[p].fs = "stage" => t.view[p].at # Root /\ ~t.view[p].ro
  BY <1>1, <1>6 DEF Entering
<1>8. ASSUME NEW k \in 1 .. Len(req.mounts) PROVE Room(req.mounts[k].at)'
  <2>1. Room(req.mounts[k].at)
    BY <1>1 DEF Entering
  <2>2. \A q \in Above(req.mounts[k].at) : q \in Paths \ Beneath[Proc]
    BY EnterMounts DEF Above
  <2> QED BY <1>1, <1>5, <1>6, <2>1, <2>2 DEF Room, Above
<1>9. MountsHandled' = 0
  BY <1>1, <1>5 DEF MountsHandled, Handled
<1> QED BY <1>1, <1>5, <1>7, <1>8, <1>9 DEF Entering, BeforeSeal

\* One of the user's mounts: it fits, and leaves room for those to come.
LEMMA EnterMount ==
  ASSUME JailInv, jpc = "replaced", Enterable, Entering, MountNext
  PROVE  Entering'
<1> DEFINE s == req.mounts[i]
           t == Mount(tree, s)
<1>1. /\ pc = "mounts" /\ UNCHANGED <<req, given>> /\ i' = i + 1 /\ tree \in Tree
      /\ i \in 1 .. Len(req.mounts) /\ Len(req.mounts) \in Nat /\ MountsHandled = i - 1
      /\ MountThen(s, "mounts")
  BY EnterFacts DEF MountNext, At, IInv, TypeOK
<1>2. /\ s \in MountSpec /\ s.src \in Sources /\ s.at \in Paths /\ s.create_mountpoint
      /\ ~s.file /\ ~OnlyPropagation(s)
      /\ s.src \notin Refused \cup Locked /\ ~SetAttrFails(s)
      /\ s.src = Hosts[Wanted[i].hostpath] /\ s.at = Wanted[i].jailpath
  BY <1>1, EnterMounts
<1>3. /\ \A k \in i .. Len(req.mounts) : Room(req.mounts[k].at)
      /\ \A p \in Paths : tree.view[p].fs = "stage" => /\ tree.view[p].at # Root
                                                       /\ ~tree.view[p].ro
  BY <1>1 DEF Entering
<1>4. Room(s.at)
  BY <1>1, <1>3
<1> HIDE DEF s
<1>5. ~MountFails(tree, s)
  BY <1>1, <1>2, <1>3, <1>4, RoomFits
<1>6. tree' = t /\ pc' = "mounts"
  BY <1>1, <1>5 DEF MountThen
<1>7. /\ s.src # "self" /\ s.src # "stage" /\ Create(tree, s) = CreateDirAll(tree, s.at)
  BY <1>1, <1>2, CreateFacts, Distinct
<1> DEFINE u == CreateDirAll(tree, s.at)
<1>a. \A q \in Paths : u.kind[q] = IF q \in Above(s.at) /\ tree.kind[q] = "none"
                                     THEN "dir" ELSE tree.kind[q]
  BY <1>1, <1>2, CreateDirAllFacts
<1>b. \A q \in Paths : t.kind[q] = IF q \in Beneath[s.at] \ {s.at}
                                     THEN Content[s.src][q] ELSE u.kind[q]
  BY <1>1, <1>2, <1>7, CoverMount
<1> HIDE DEF u
<1>8. \A q \in Paths : /\ q \in Beneath[s.at] \ {s.at} => t.kind[q] = Content[s.src][q]
                       /\ q \notin Beneath[s.at] \ {s.at} =>
                            /\ tree.kind[q] = "dir" => t.kind[q] = "dir"
                            /\ t.kind[q] \in {tree.kind[q], "dir"}
  BY <1>a, <1>b
<1>9. t.kind[s.at] = "dir"
  <2>1. s.at \in Above(s.at) /\ tree.kind[s.at] \in {"none", "dir"}
    BY <1>2, <1>4, Distinct DEF Above, Room
  <2> QED BY <1>2, <1>a, <1>b, <2>1
<1>10. /\ \A q \in Beneath[s.at] : t.view[q].fs = s.src
       /\ \A q \in Paths \ Beneath[s.at] :
            /\ t.view[q].at = tree.view[q].at /\ t.view[q].fs = tree.view[q].fs
            /\ t.view[q].ro <=> tree.view[q].ro
  BY <1>1, <1>2, <1>7, CoverMount
<1> HIDE DEF t
<1>11. \A p \in Paths : t.view[p].fs = "stage" => t.view[p].at # Root /\ ~t.view[p].ro
  BY <1>3, <1>7, <1>10
<1>12. ASSUME NEW k \in i + 1 .. Len(req.mounts) PROVE Room(req.mounts[k].at)'
  <2>1. /\ k \in 1 .. Len(req.mounts) /\ k \in i .. Len(req.mounts)
        /\ i \in 1 .. k - 1
    BY <1>1
  <2>2. Room(req.mounts[k].at) /\ req.mounts[k].at = Wanted[k].jailpath
    BY <1>3, <2>1, EnterMounts
  <2>3. \A q \in Above(req.mounts[k].at) \cap Beneath[s.at] :
          q = s.at \/ Content[s.src][q] = "dir"
    <3>1. Len(req.mounts) = Len(Wanted)
      BY DEF JailInv, ReplacedInv
    <3> QED BY <1>2, <2>1, <2>2, <3>1 DEF Enterable
  <2>4. ASSUME NEW q \in Above(req.mounts[k].at)
        PROVE  t.kind[q] = "dir" \/ (t.kind[q] = "none" /\ t.view[q].fs = "stage")
    <3>1. q \in Paths
      BY DEF Above
    <3>2. CASE q \in Beneath[s.at]
      BY <1>8, <1>9, <2>3, <3>1, <3>2
    <3>3. CASE q \notin Beneath[s.at]
      BY <1>8, <1>10, <2>2, <3>1, <3>3 DEF Room
    <3> QED BY <3>2, <3>3
  <2> QED BY <1>1, <1>6, <2>4 DEF Room, Above
<1>13. MountsHandled' = i
  BY <1>1, <1>6 DEF MountsHandled, Handled
<1> QED BY <1>1, <1>6, <1>11, <1>12, <1>13 DEF Entering, BeforeSeal

\* Nothing is to be changed, masked or made read-only, and the new root is not the
\* current one.
LEMMA EnterRest ==
  ASSUME JailInv, jpc = "replaced", Enterable, Entering,
         \/ Done("mounts", req.mounts, "mutations")
         \/ MutateNext \/ Done("mutations", req.mutations, "masks")
         \/ MaskNext \/ Done("masks", req.masked_paths, "readonly")
         \/ MakeReadonlyNext \/ Done("readonly", req.readonly_paths, "pivot")
         \/ Pivot
  PROVE  Entering'
<1>1. /\ i \in Nat \ {0} /\ Len(req.mutations) = 0 /\ Len(req.masked_paths) = 0
      /\ Len(req.readonly_paths) = 0
  BY EnterFacts DEF IInv, TypeOK
<1>2. ~MutateNext /\ ~MaskNext /\ ~MakeReadonlyNext
  BY <1>1 DEF MutateNext, MaskNext, MakeReadonlyNext, At
<1>3. pc = "pivot" => new_root = "elsewhere"
  BY EnterFacts DEF IInv, NewRootInv, Steps
<1>4. pc' \in {"mutations", "masks", "readonly", "pivot", "pivoted"}
  BY <1>2, <1>3 DEF Done, Pivot
<1> QED BY <1>4 DEF Entering, BeforeSeal

\* A jail that can be entered is not turned down, and there is room for its mounts.
THEOREM EnterInvariance == JailSpec => []EnterInv
<1>1. JailInit => EnterInv
  BY DEF JailInit, EnterInv
<1>2. ASSUME JailInv, EnterInv, [JailNext]_allVars PROVE EnterInv'
  <2> SUFFICES ASSUME Enterable'
               PROVE  jpc' # "rejected" /\ (jpc' = "replaced" => Entering')
    BY DEF EnterInv
  <2>1. UNCHANGED <<cli, given>>
    BY <1>2 DEF JailNext, allVars, jailVars, vars, ParseArguments, BuildBase, LoseCwd, PushMount,
       PushLimit, ExecRunner, Next, UnshareOldRoot, StageRoot, BindNewRoot, Seal, MountProc,
       MountNext, MutateNext, MaskNext, MakeReadonlyNext, Done, Pivot
  <2>2. Enterable /\ jpc # "rejected" /\ (jpc = "replaced" => Entering)
    BY <1>2, <2>1, EnterFixed DEF EnterInv
  <2>3. CASE ParseArguments
    BY <2>2, <2>3 DEF ParseArguments, Enterable
  <2>a. CASE LoseCwd
    BY <2>2, <2>a DEF LoseCwd, Enterable
  <2>4. CASE BuildBase \/ PushMount \/ PushLimit
    BY <2>4 DEF BuildBase, PushMount, PushLimit
  <2>5. CASE ExecRunner
    <3>1. JailInv' /\ jpc' = "replaced" /\ pc' = "unshare" /\ UNCHANGED tree
      BY <1>2, <2>5, ExecStep DEF ExecRunner
    <3>2. tree = given /\ given \in Trees
      BY <1>2, <2>5 DEF ExecRunner, JailInv, WaitingInv
    <3>3. ASSUME NEW k \in 1 .. Len(req.mounts)' PROVE Room(req.mounts[k].at)'
      <4>1. \A q \in Above(req'.mounts[k].at) : given'.kind[q] = "dir"
        BY <3>1, EnterAboveNext DEF AboveThere
      <4> QED BY <2>1, <3>1, <3>2, <4>1 DEF Room, Above
    <3>4. MountsHandled' = 0
      BY <3>1 DEF MountsHandled, Handled
    <3>5. /\ tree.kind[Root] = "dir" /\ tree.kind[Proc] = "dir"
          /\ \A p \in Paths : tree.view[p].fs \notin {"stage", "proc"}
      BY <2>2, <3>2, TreesAssumption DEF Enterable
    <3> QED BY <2>1, <3>1, <3>2, <3>3, <3>4, <3>5 DEF Entering, BeforeSeal
  <2>6. CASE jpc = "replaced" /\ Next /\ UNCHANGED jailVars
    <3>1. jpc' = "replaced"
      BY <2>6 DEF jailVars
    <3>2. Entering'
      BY <1>2, <2>2, <2>6, EnterUnshare, EnterStage, EnterBind, EnterSeal, EnterProc,
         EnterMount, EnterRest DEF Next
    <3> QED BY <3>1, <3>2
  <2>7. CASE UNCHANGED allVars
    <3>1. UNCHANGED <<jpc, req, given, tree, pc, i>>
      BY <2>7 DEF allVars, jailVars, vars
    <3>2. Entering => Entering'
      BY <3>1 DEF Entering, Room, Above, MountsHandled, Handled
    <3> QED BY <2>2, <3>1, <3>2
  <2> QED BY <1>2, <2>3, <2>a, <2>4, <2>5, <2>6, <2>7 DEF JailNext
<1> QED BY <1>1, <1>2, JailInvariance, PTL DEF JailSpec

\* A jail of the host's root, with directories to mount that have nothing mounted
\* below, onto directories, is not turned down, be its root read-only or not.
THEOREM NeverRefusedHolds == JailSpec => []NeverRefused
<1>1. ASSUME JailInv, EnterInv PROVE NeverRefused
  <2>1. jpc # "replaced" => pc = "jail"
    BY <1>1 DEF JailInv, WaitingInv
  <2> QED BY <1>1, <2>1 DEF EnterInv, Entering, NeverRefused
<1> QED BY <1>1, JailInvariance, EnterInvariance, PTL
=============================================================================
