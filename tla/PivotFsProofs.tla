----------------------------- MODULE PivotFsProofs -----------------------------
(***************************************************************************)
(* PivotFs, for every tree of paths, every rootfs and every request.       *)
(***************************************************************************)
EXTENDS PivotFsProps, TLAPS

-----------------------------------------------------------------------------
(* What the operations on a tree do, path by path. *)

\* CreateDirAll adds directories where nothing was, and only there.
LEMMA CreateDirAllFacts ==
  ASSUME NEW t \in Tree, NEW p \in Paths
  PROVE  /\ CreateDirAll(t, p) \in Tree
         /\ CreateDirAll(t, p).view = t.view /\ CreateDirAll(t, p).escaped = t.escaped
         /\ \A q \in Paths :
              CreateDirAll(t, p).kind[q] = IF q \in Above(p) /\ t.kind[q] = "none"
                                             THEN "dir" ELSE t.kind[q]
<1> DEFINE kind == [q \in Paths |-> IF q \in Above(p) /\ t.kind[q] = "none"
                                      THEN "dir" ELSE t.kind[q]]
<1>1. CreateDirAll(t, p) = [t EXCEPT !.kind = kind]
  BY DEF CreateDirAll
<1>2. kind \in [Paths -> Kinds]
  BY DEF Tree, Kinds
<1>3. [t EXCEPT !.kind = kind] \in Tree
  BY <1>2 DEF Tree
<1>4. /\ CreateDirAll(t, p).kind = kind /\ CreateDirAll(t, p).view = t.view
      /\ CreateDirAll(t, p).escaped = t.escaped
  BY <1>1, <1>2 DEF Tree
<1> QED BY <1>1, <1>3, <1>4

\* CreateFile adds one file, and the directories that lead to it.
LEMMA CreateFileFacts ==
  ASSUME NEW t \in Tree, NEW p \in Paths
  PROVE  /\ CreateFile(t, p) \in Tree
         /\ CreateFile(t, p).view = t.view /\ CreateFile(t, p).escaped = t.escaped
         /\ \A q \in Paths : t.kind[q] # "none" => CreateFile(t, p).kind[q] = t.kind[q]
<1> DEFINE kind == [q \in Paths |-> IF t.kind[q] # "none" \/ q \notin Above(p)
                                      THEN t.kind[q]
                                    ELSE IF q = p THEN "file" ELSE "dir"]
           emptied == IF t.kind[p] = "file" THEN t.emptied \cup {t.view[p].fs}
                                            ELSE t.emptied
<1>1. CreateFile(t, p) = [t EXCEPT !.kind = kind, !.emptied = emptied]
  BY DEF CreateFile
<1>2. kind \in [Paths -> Kinds]
  BY DEF Tree, Kinds
<1>3. emptied \in SUBSET Filesystems
  BY DEF Tree, Mounts
<1> HIDE DEF emptied
<1>4. [t EXCEPT !.kind = kind, !.emptied = emptied] \in Tree
  BY <1>2, <1>3 DEF Tree
<1>5. /\ CreateFile(t, p).kind = kind /\ CreateFile(t, p).view = t.view
      /\ CreateFile(t, p).escaped = t.escaped
  BY <1>1, <1>2 DEF Tree
<1> QED BY <1>1, <1>4, <1>5

\* The mount point: what is there already stays, and is covered by what it was.
LEMMA CreateFacts ==
  ASSUME NEW t \in Tree, NEW s \in MountSpec
  PROVE  /\ Create(t, s) \in Tree
         /\ Create(t, s).view = t.view /\ Create(t, s).escaped = t.escaped
         /\ \A q \in Paths : t.kind[q] # "none" => Create(t, s).kind[q] = t.kind[q]
         /\ ~s.create_mountpoint => Create(t, s) = t
         /\ s.create_mountpoint /\ ~s.file => Create(t, s) = CreateDirAll(t, s.at)
<1>1. s.at \in Paths
  BY DEF MountSpec
<1>2. CASE ~s.create_mountpoint
  BY <1>2 DEF Create
<1>3. CASE s.create_mountpoint /\ s.bind /\ s.file
  BY <1>1, <1>3, CreateFileFacts DEF Create
<1>4. CASE s.create_mountpoint /\ ~(s.bind /\ s.file)
  BY <1>1, <1>4, CreateDirAllFacts DEF Create
<1> QED BY <1>2, <1>3, <1>4

\* A change of propagation touches nothing else, and reaches what it says.
LEMMA PropagationFacts ==
  ASSUME NEW t \in Tree, NEW s \in MountSpec, OnlyPropagation(s)
  PROVE  /\ Attach(t, s) \in Tree
         /\ Attach(t, s).kind = t.kind /\ Attach(t, s).escaped = t.escaped
         /\ \A q \in Paths :
              /\ Attach(t, s).view[q].at = t.view[q].at
              /\ Attach(t, s).view[q].fs = t.view[q].fs
              /\ Attach(t, s).view[q].ro = t.view[q].ro
              /\ Attach(t, s).view[q].safe = t.view[q].safe
              /\ Attach(t, s).view[q].shared
                   <=> t.view[q].shared /\ q \notin Reached(t.view, s)
<1> DEFINE made(q) == IF q \in Reached(t.view, s) THEN [t.view[q] EXCEPT !.shared = FALSE]
                                                  ELSE t.view[q]
           view == [q \in Paths |-> made(q)]
<1>1. Attach(t, s) = [t EXCEPT !.view = view]
  BY DEF Attach
<1>2. ASSUME NEW q \in Paths
      PROVE  /\ made(q) \in Mounts
             /\ made(q).at = t.view[q].at /\ made(q).fs = t.view[q].fs
             /\ made(q).ro = t.view[q].ro /\ made(q).safe = t.view[q].safe
             /\ made(q).shared <=> t.view[q].shared /\ q \notin Reached(t.view, s)
  <2>1. t.view[q] \in Mounts
    BY DEF Tree
  <2> QED BY <2>1 DEF Mounts
<1> HIDE DEF made
<1>3. view \in [Paths -> Mounts]
  BY <1>2
<1>4. [t EXCEPT !.view = view] \in Tree
  BY <1>3 DEF Tree
<1>5. /\ Attach(t, s).view = view /\ Attach(t, s).kind = t.kind
      /\ Attach(t, s).escaped = t.escaped
  BY <1>1, <1>3 DEF Tree
<1> QED BY <1>1, <1>2, <1>4, <1>5

\* A bind of a directory onto itself only gives its mount a new place.
LEMMA SelfBindFacts ==
  ASSUME NEW t \in Tree, NEW s \in MountSpec, ~OnlyPropagation(s), s.src = "self"
  PROVE  /\ Attach(t, s) \in Tree
         /\ Attach(t, s).kind = t.kind
         /\ Attach(t, s).escaped <=> t.escaped \/ t.view[s.at].shared
         /\ \A q \in Paths :
              /\ Attach(t, s).view[q].at =
                   IF q \in Beneath[s.at] /\ t.view[q].at = t.view[s.at].at
                     THEN s.at ELSE t.view[q].at
              /\ Attach(t, s).view[q].fs = t.view[q].fs
              /\ Attach(t, s).view[q].ro = t.view[q].ro
              /\ Attach(t, s).view[q].safe = t.view[q].safe
              /\ Attach(t, s).view[q].shared = t.view[q].shared
<1> DEFINE made(q) == IF q \in Beneath[s.at] /\ t.view[q].at = t.view[s.at].at
                        THEN [t.view[q] EXCEPT !.at = s.at] ELSE t.view[q]
           view == [q \in Paths |-> made(q)]
           escaped == t.escaped \/ t.view[s.at].shared
<1>1. Attach(t, s) = [t EXCEPT !.view = view, !.escaped = escaped]
  BY DEF Attach
<1>a. s.at \in Paths
  BY DEF MountSpec
<1>2. ASSUME NEW q \in Paths
      PROVE  /\ made(q) \in Mounts
             /\ made(q).at = IF q \in Beneath[s.at] /\ t.view[q].at = t.view[s.at].at
                               THEN s.at ELSE t.view[q].at
             /\ made(q).fs = t.view[q].fs
             /\ made(q).ro = t.view[q].ro /\ made(q).safe = t.view[q].safe
             /\ made(q).shared = t.view[q].shared
  <2>1. t.view[q] \in Mounts
    BY DEF Tree
  <2> QED BY <2>1, <1>a DEF Mounts
<1> HIDE DEF made
<1>3. view \in [Paths -> Mounts]
  BY <1>2
<1>b. escaped \in BOOLEAN
  OBVIOUS
<1> HIDE DEF escaped
<1>4. [t EXCEPT !.view = view, !.escaped = escaped] \in Tree
  BY <1>3, <1>b DEF Tree
<1>5. /\ Attach(t, s).view = view /\ Attach(t, s).kind = t.kind
      /\ Attach(t, s).escaped = escaped
  BY <1>1, <1>3 DEF Tree
<1>6. Attach(t, s).escaped <=> t.escaped \/ t.view[s.at].shared
  BY <1>5, Zenon DEF escaped
<1> QED BY <1>1, <1>2, <1>4, <1>5, <1>6

\* Anything else covers what is beneath the mount point, and shows its contents.
LEMMA CoverFacts ==
  ASSUME NEW t \in Tree, NEW s \in MountSpec, ~OnlyPropagation(s), s.src # "self"
  PROVE  /\ Attach(t, s) \in Tree
         /\ Attach(t, s).escaped <=> t.escaped \/ t.view[s.at].shared
         /\ \A q \in Paths :
              Attach(t, s).kind[q] = IF q \in Beneath[s.at] \ {s.at}
                                       THEN Content[s.src][q] ELSE t.kind[q]
         /\ \A q \in Paths \ Beneath[s.at] : Attach(t, s).view[q] = t.view[q]
         /\ \A q \in Beneath[s.at] :
              /\ Attach(t, s).view[q].at = s.at /\ Attach(t, s).view[q].fs = s.src
              /\ ~Attach(t, s).view[q].ro /\ ~Attach(t, s).view[q].safe
              /\ Attach(t, s).view[q].shared = t.view[s.at].shared
<1> DEFINE made(q) == IF q \in Beneath[s.at]
                        THEN [at |-> s.at, fs |-> s.src, ro |-> FALSE, safe |-> FALSE,
                              shared |-> t.view[s.at].shared]
                        ELSE t.view[q]
           view == [q \in Paths |-> made(q)]
           shown(q) == IF q \in Beneath[s.at] \ {s.at} THEN Content[s.src][q] ELSE t.kind[q]
           kind == [q \in Paths |-> shown(q)]
           escaped == t.escaped \/ t.view[s.at].shared
<1>1. Attach(t, s) = [t EXCEPT !.view = view, !.kind = kind, !.escaped = escaped]
  BY DEF Attach
<1>a. s.at \in Paths /\ s.src \in Filesystems /\ t.view[s.at] \in Mounts
  BY DEF MountSpec, Tree
<1>2. ASSUME NEW q \in Paths
      PROVE  /\ made(q) \in Mounts
             /\ q \notin Beneath[s.at] => made(q) = t.view[q]
             /\ q \in Beneath[s.at] => /\ made(q).at = s.at /\ made(q).fs = s.src
                                       /\ ~made(q).ro /\ ~made(q).safe
                                       /\ made(q).shared = t.view[s.at].shared
  <2>1. t.view[q] \in Mounts
    BY DEF Tree
  <2> QED BY <2>1, <1>a DEF Mounts
<1>3. ASSUME NEW q \in Paths PROVE shown(q) \in Kinds
  BY <1>a, SourcesAssumption DEF Tree
<1> HIDE DEF made, shown
<1>4. view \in [Paths -> Mounts] /\ kind \in [Paths -> Kinds]
  BY <1>2, <1>3
<1>5. escaped \in BOOLEAN
  OBVIOUS
<1> HIDE DEF escaped
<1>6. [t EXCEPT !.view = view, !.kind = kind, !.escaped = escaped] \in Tree
  BY <1>4, <1>5 DEF Tree
<1>7. /\ Attach(t, s).view = view /\ Attach(t, s).kind = kind
      /\ Attach(t, s).escaped = escaped
  BY <1>1, <1>4 DEF Tree
<1>8. Beneath[s.at] \subseteq Paths
  BY <1>a, PathsAssumption
<1>9. \A q \in Paths : view[q] = made(q) /\ kind[q] = shown(q)
  OBVIOUS
<1>10. Attach(t, s).escaped <=> t.escaped \/ t.view[s.at].shared
  BY <1>7, Zenon DEF escaped
<1>11. \A q \in Paths : Attach(t, s).kind[q] = shown(q) /\ Attach(t, s).view[q] = made(q)
  BY <1>7, <1>9
<1>12. Attach(t, s) \in Tree
  BY <1>1, <1>6
<1> QED BY <1>2, <1>8, <1>10, <1>11, <1>12 DEF shown

\* mount_setattr adds restrictions, where it reaches, and lifts none.
LEMMA SetAttrFacts ==
  ASSUME NEW t \in Tree, NEW s \in MountSpec
  PROVE  /\ SetAttr(t, s) \in Tree
         /\ SetAttr(t, s).kind = t.kind /\ SetAttr(t, s).escaped = t.escaped
         /\ \A q \in Paths :
              /\ SetAttr(t, s).view[q].at = t.view[q].at
              /\ SetAttr(t, s).view[q].fs = t.view[q].fs
              /\ SetAttr(t, s).view[q].shared = t.view[q].shared
              /\ SetAttr(t, s).view[q].ro
                   <=> t.view[q].ro \/ (q \in Reached(t.view, s) /\ s.read_only)
              /\ SetAttr(t, s).view[q].safe
                   <=> t.view[q].safe \/ (q \in Reached(t.view, s) /\ s.safe)
<1> DEFINE made(q) == IF q \in Reached(t.view, s)
                        THEN [t.view[q] EXCEPT !.ro = @ \/ s.read_only,
                                               !.safe = @ \/ s.safe]
                        ELSE t.view[q]
           view == [q \in Paths |-> made(q)]
<1>1. SetAttr(t, s) = [t EXCEPT !.view = view]
  BY DEF SetAttr
<1>2. ASSUME NEW q \in Paths
      PROVE  /\ made(q) \in Mounts
             /\ made(q).at = t.view[q].at /\ made(q).fs = t.view[q].fs
             /\ made(q).shared = t.view[q].shared
             /\ made(q).ro <=> t.view[q].ro \/ (q \in Reached(t.view, s) /\ s.read_only)
             /\ made(q).safe <=> t.view[q].safe \/ (q \in Reached(t.view, s) /\ s.safe)
  <2>1. t.view[q] \in Mounts /\ s.read_only \in BOOLEAN /\ s.safe \in BOOLEAN
    BY DEF MountSpec, Tree
  <2> QED BY <2>1 DEF Mounts
<1> HIDE DEF made
<1>3. view \in [Paths -> Mounts]
  BY <1>2
<1>4. [t EXCEPT !.view = view] \in Tree
  BY <1>3 DEF Tree
<1>5. /\ SetAttr(t, s).view = view /\ SetAttr(t, s).kind = t.kind
      /\ SetAttr(t, s).escaped = t.escaped
  BY <1>1, <1>3 DEF Tree
<1> QED BY <1>1, <1>2, <1>4, <1>5

-----------------------------------------------------------------------------
(* What MountSpec::mount does, by the kind of mount. *)

\* The request's mounts that are only a change of propagation.
LEMMA PropagationMount ==
  ASSUME NEW t \in Tree, NEW s \in MountSpec, OnlyPropagation(s)
  PROVE  /\ Mount(t, s) \in Tree
         /\ Mount(t, s).kind = Create(t, s).kind /\ Mount(t, s).escaped = t.escaped
         /\ \A q \in Paths :
              /\ Mount(t, s).view[q].at = t.view[q].at
              /\ Mount(t, s).view[q].fs = t.view[q].fs
              /\ Mount(t, s).view[q].ro
                   <=> t.view[q].ro \/ (q \in Reached(t.view, s) /\ s.read_only)
              /\ t.view[q].safe => Mount(t, s).view[q].safe
              /\ Mount(t, s).view[q].shared
                   <=> t.view[q].shared /\ q \notin Reached(t.view, s)
<1> DEFINE u == Create(t, s)
           v == Attach(u, s)
<1>1. u \in Tree /\ u.view = t.view /\ u.escaped = t.escaped
  BY CreateFacts
<1> HIDE DEF u
<1>2. /\ v \in Tree /\ v.kind = u.kind /\ v.escaped = u.escaped
      /\ \A q \in Paths :
           /\ v.view[q].at = u.view[q].at /\ v.view[q].fs = u.view[q].fs
           /\ v.view[q].ro = u.view[q].ro /\ v.view[q].safe = u.view[q].safe
           /\ v.view[q].shared <=> u.view[q].shared /\ q \notin Reached(u.view, s)
  BY <1>1, PropagationFacts
<1> HIDE DEF v
<1>3. Mount(t, s) = SetAttr(v, s)
  BY DEF Mount, u, v
<1>4. \A q \in Paths : q \in Reached(v.view, s) <=> q \in Reached(t.view, s)
  <2>1. s.at \in Paths
    BY DEF MountSpec
  <2>2. \A q \in Paths : v.view[q].at = t.view[q].at
    BY <1>1, <1>2
  <2> QED BY <2>1, <2>2 DEF Reached
<1>5. /\ SetAttr(v, s) \in Tree
      /\ SetAttr(v, s).kind = v.kind /\ SetAttr(v, s).escaped = v.escaped
      /\ \A q \in Paths :
           /\ SetAttr(v, s).view[q].at = v.view[q].at
           /\ SetAttr(v, s).view[q].fs = v.view[q].fs
           /\ SetAttr(v, s).view[q].shared = v.view[q].shared
           /\ SetAttr(v, s).view[q].ro
                <=> v.view[q].ro \/ (q \in Reached(v.view, s) /\ s.read_only)
           /\ SetAttr(v, s).view[q].safe
                <=> v.view[q].safe \/ (q \in Reached(v.view, s) /\ s.safe)
  BY <1>2, SetAttrFacts
<1> QED BY <1>1, <1>2, <1>3, <1>4, <1>5 DEF u

\* The recursive binds that pivot_fs makes of its own, of a directory onto itself.
LEMMA SelfMount ==
  ASSUME NEW t \in Tree, NEW s \in MountSpec, ~OnlyPropagation(s), s.src = "self",
         s.recurse, ~s.create_mountpoint
  PROVE  /\ Mount(t, s) \in Tree
         /\ Mount(t, s).kind = t.kind
         /\ Mount(t, s).escaped <=> t.escaped \/ t.view[s.at].shared
         /\ \A q \in Paths :
              /\ Mount(t, s).view[q].at =
                   IF q \in Beneath[s.at] /\ t.view[q].at = t.view[s.at].at
                     THEN s.at ELSE t.view[q].at
              /\ Mount(t, s).view[q].fs = t.view[q].fs
              /\ Mount(t, s).view[q].shared = t.view[q].shared
              /\ Mount(t, s).view[q].ro
                   <=> t.view[q].ro \/ (q \in Beneath[s.at] /\ s.read_only)
              /\ t.view[q].safe => Mount(t, s).view[q].safe
<1> DEFINE v == Attach(t, s)
<1>1. Mount(t, s) = SetAttr(v, s)
  BY CreateFacts DEF Mount
<1>2. /\ v \in Tree /\ v.kind = t.kind
      /\ v.escaped <=> t.escaped \/ t.view[s.at].shared
      /\ \A q \in Paths :
           /\ v.view[q].at = IF q \in Beneath[s.at] /\ t.view[q].at = t.view[s.at].at
                               THEN s.at ELSE t.view[q].at
           /\ v.view[q].fs = t.view[q].fs /\ v.view[q].ro = t.view[q].ro
           /\ v.view[q].safe = t.view[q].safe /\ v.view[q].shared = t.view[q].shared
  BY SelfBindFacts
<1> HIDE DEF v
<1>3. Reached(v.view, s) = Beneath[s.at]
  BY DEF Reached
<1> QED BY <1>1, <1>2, <1>3, SetAttrFacts

\* Any other mount covers what is beneath its mount point, restrictions included.
LEMMA CoverMount ==
  ASSUME NEW t \in Tree, NEW s \in MountSpec, ~OnlyPropagation(s), s.src # "self"
  PROVE  /\ Mount(t, s) \in Tree
         /\ Mount(t, s).escaped <=> t.escaped \/ t.view[s.at].shared
         /\ \A q \in Paths :
              Mount(t, s).kind[q] = IF q \in Beneath[s.at] \ {s.at}
                                      THEN Content[s.src][q] ELSE Create(t, s).kind[q]
         /\ \A q \in Paths \ Beneath[s.at] :
              /\ Mount(t, s).view[q].at = t.view[q].at
              /\ Mount(t, s).view[q].fs = t.view[q].fs
              /\ Mount(t, s).view[q].ro <=> t.view[q].ro
              /\ Mount(t, s).view[q].safe <=> t.view[q].safe
              /\ Mount(t, s).view[q].shared = t.view[q].shared
         /\ \A q \in Beneath[s.at] :
              /\ Mount(t, s).view[q].at = s.at /\ Mount(t, s).view[q].fs = s.src
              /\ Mount(t, s).view[q].ro <=> s.read_only
              /\ Mount(t, s).view[q].safe <=> s.safe
              /\ Mount(t, s).view[q].shared = t.view[s.at].shared
<1> DEFINE u == Create(t, s)
           v == Attach(u, s)
<1>1. u \in Tree /\ u.view = t.view /\ u.escaped = t.escaped
  BY CreateFacts
<1> HIDE DEF u
<1>2. /\ v \in Tree
      /\ v.escaped <=> u.escaped \/ u.view[s.at].shared
      /\ \A q \in Paths : v.kind[q] = IF q \in Beneath[s.at] \ {s.at}
                                        THEN Content[s.src][q] ELSE u.kind[q]
      /\ \A q \in Paths \ Beneath[s.at] : v.view[q] = u.view[q]
      /\ \A q \in Beneath[s.at] :
           /\ v.view[q].at = s.at /\ v.view[q].fs = s.src
           /\ ~v.view[q].ro /\ ~v.view[q].safe
           /\ v.view[q].shared = u.view[s.at].shared
  BY <1>1, CoverFacts
<1> HIDE DEF v
<1>3. Mount(t, s) = SetAttr(v, s)
  BY DEF Mount, u, v
<1>4. Beneath[s.at] \subseteq Paths /\ s.at \in Beneath[s.at]
  BY PathsAssumption DEF MountSpec
<1>5. Reached(v.view, s) = Beneath[s.at]
  BY <1>2, <1>4 DEF Reached
<1>6. /\ SetAttr(v, s) \in Tree
      /\ SetAttr(v, s).kind = v.kind /\ SetAttr(v, s).escaped = v.escaped
      /\ \A q \in Paths :
           /\ SetAttr(v, s).view[q].at = v.view[q].at
           /\ SetAttr(v, s).view[q].fs = v.view[q].fs
           /\ SetAttr(v, s).view[q].shared = v.view[q].shared
           /\ SetAttr(v, s).view[q].ro
                <=> v.view[q].ro \/ (q \in Beneath[s.at] /\ s.read_only)
           /\ SetAttr(v, s).view[q].safe
                <=> v.view[q].safe \/ (q \in Beneath[s.at] /\ s.safe)
  BY <1>2, <1>5, SetAttrFacts
<1> QED BY <1>1, <1>2, <1>3, <1>4, <1>6 DEF u

\* A mount that fails leaves a tree, and nothing that has escaped from it.
LEMMA LeftBehindFacts ==
  ASSUME NEW t \in Tree, NEW s \in MountSpec, ~t.escaped,
         OnlyPropagation(s) \/ ~t.view[s.at].shared
  PROVE  LeftBehind(t, s) \in Tree /\ ~LeftBehind(t, s).escaped
<1> DEFINE u == Create(t, s)
<1>1. u \in Tree /\ u.view = t.view /\ u.escaped = t.escaped
  BY CreateFacts
<1> HIDE DEF u
<1>2. Attach(u, s) \in Tree /\ ~Attach(u, s).escaped
  <2>1. CASE OnlyPropagation(s)
    BY <1>1, <2>1, PropagationFacts
  <2>2. CASE ~OnlyPropagation(s) /\ s.src = "self"
    BY <1>1, <2>2, SelfBindFacts
  <2>3. CASE ~OnlyPropagation(s) /\ s.src # "self"
    BY <1>1, <2>3, CoverFacts
  <2> QED BY <2>1, <2>2, <2>3
<1> QED BY <1>1, <1>2 DEF LeftBehind, u

-----------------------------------------------------------------------------
(* The mounts that pivot_fs makes of its own. *)

\* What they are, field by field.
LEMMA OwnSpecs ==
  /\ OldRoot \in MountSpec /\ OnlyPropagation(OldRoot) /\ OldRoot.src = "self"
  /\ OldRoot.at = Root /\ OldRoot.recurse /\ ~OldRoot.create_mountpoint
  /\ ~OldRoot.read_only /\ ~OldRoot.safe
  /\ StageSpec \in MountSpec /\ ~OnlyPropagation(StageSpec) /\ StageSpec.src = "stage"
  /\ StageSpec.at = Stage /\ StageSpec.create_mountpoint /\ ~StageSpec.file
  /\ ~StageSpec.read_only /\ ~StageSpec.bind
  /\ NewRoot \in MountSpec /\ ~OnlyPropagation(NewRoot) /\ NewRoot.src = "self"
  /\ NewRoot.at = Root /\ NewRoot.recurse /\ ~NewRoot.create_mountpoint
  /\ ~NewRoot.read_only /\ ~NewRoot.safe
  /\ SealSpec \in MountSpec /\ SealSpec.src = "self" /\ SealSpec.at = Root
  /\ SealSpec.read_only /\ ~SealSpec.recurse
  /\ ProcSpec \in MountSpec /\ ~OnlyPropagation(ProcSpec) /\ ProcSpec.src = "proc"
  /\ ProcSpec.at = Proc /\ ~ProcSpec.create_mountpoint /\ ~ProcSpec.file
  /\ ~ProcSpec.read_only /\ ~ProcSpec.bind
BY PathsAssumption DEF OldRoot, StageSpec, NewRoot, SealSpec, ProcSpec, Plain, MountSpec,
   OnlyPropagation, Filesystems

\* A mask is a mount of nothing, and fits what it is put on.
LEMMA MaskSpecs ==
  ASSUME NEW t \in Tree, NEW p \in Paths
  PROVE  LET s == MaskSpec(t, p) IN
         /\ s \in MountSpec /\ ~OnlyPropagation(s) /\ s.src \in {"empty", "null"}
         /\ s.at = p /\ ~s.create_mountpoint /\ (s.file <=> t.kind[p] # "dir")
BY DEF MaskSpec, Plain, MountSpec, OnlyPropagation, Filesystems

\* A read-only path is a recursive bind onto itself.
LEMMA ReadonlySpecs ==
  ASSUME NEW p \in Paths
  PROVE  LET s == ReadonlySpec(p) IN
         /\ s \in MountSpec /\ ~OnlyPropagation(s) /\ s.src = "self" /\ s.at = p
         /\ s.recurse /\ ~s.create_mountpoint /\ s.read_only
BY DEF ReadonlySpec, Plain, MountSpec, OnlyPropagation, Filesystems

\* What `Filesystems` tells apart.
LEMMA Distinct ==
  /\ \A fs \in Sources : fs \notin {"rootfs", "submount", "proc", "stage", "empty", "null",
                                    "self"}
  /\ Root \in Paths /\ Proc \in Paths /\ Stage \in Paths /\ Beneath[Root] = Paths
  /\ Proc \notin Beneath[Stage]
  /\ \A p \in Paths : p \in Beneath[p] /\ Beneath[p] \subseteq Paths
  /\ "self" \notin Refused \cup Locked
  /\ \A fs \in {"proc", "stage", "empty", "null"} : fs \notin Locked
BY SourcesAssumption, PathsAssumption DEF Filesystems

\* What pivot_fs mounts of its own is refused for a cause.
LEMMA OwnTaken ==
  ASSUME ~Cause
  PROVE  \A fs \in {"proc", "stage", "empty", "null", "self"} :
           fs \notin Refused \cup Unsettable
BY Distinct DEF Cause

-----------------------------------------------------------------------------
(* One lemma per action. *)

\* What may keep pivot_fs from its end does not change on the way.
LEMMA CauseFixed ==
  ASSUME UNCHANGED <<req, given>>
  PROVE  (Cause' <=> Cause) /\ \A p : MayBeFile(p)' <=> MayBeFile(p)
BY DEF Cause, Creating, NeverFile, MayBeFile, Above, Listed

\* Before the loops, nothing has been shown, masked or made read-only.
LEMMA NotYet ==
  /\ pc' \in Building \cup {"failed"} => MaskInv' /\ ReadonlyInv'
  /\ pc' \in BeforeSeal \cup {"proc", "failed"} => ShownInv'
<1>1. ASSUME pc' \in Building \cup {"failed"} PROVE MaskInv' /\ ReadonlyInv'
  <2>1. MasksHandled' = 0 /\ ReadonlyHandled' = 0
    BY <1>1 DEF MasksHandled, ReadonlyHandled, Handled, Building, BeforeSeal
  <2> QED BY <2>1 DEF MaskInv, ReadonlyInv
<1>2. ASSUME pc' \in BeforeSeal \cup {"proc", "failed"} PROVE ShownInv'
  <2>1. MountsHandled' = 0 \/ pc' = "failed"
    BY <1>2 DEF MountsHandled, Handled, BeforeSeal
  <2> QED BY <2>1 DEF ShownInv
<1> QED BY <1>1, <1>2

\* An error, and out: nothing has escaped.
LEMMA FailStep ==
  ASSUME IInv, Cause, pc' = "failed", i' \in Nat \ {0}, new_root' \in {"slash", "elsewhere"},
         UNCHANGED <<req, given>>, tree' \in Tree, ~tree'.escaped
  PROVE  IInv'
<1>1. TypeOK' /\ IndexInv'
  BY DEF IInv, TypeOK, IndexInv, BeforeSeal
<1>2. PrivateInv' /\ SealInv' /\ OriginInv' /\ NewRootInv'
  BY DEF PrivateInv, SealInv, OriginInv, NewRootInv, BeforeSeal, Building, Steps
<1>3. ProgressInv'
  BY CauseFixed DEF ProgressInv
<1> QED BY <1>1, <1>2, <1>3, NotYet DEF IInv

\* A mount that fails, and out.
LEMMA MountFailStep ==
  ASSUME IInv, Cause, NEW s \in MountSpec, NEW next, MountThen(s, next),
         MountFails(tree, s), OnlyPropagation(s) \/ pc # "unshare", pc # "failed",
         i' \in Nat \ {0}, new_root' \in {"slash", "elsewhere"}, UNCHANGED <<req, given>>
  PROVE  IInv'
<1>1. pc' = "failed" /\ tree' = LeftBehind(tree, s)
  BY DEF MountThen
<1>2. /\ tree \in Tree /\ ~tree.escaped
      /\ OnlyPropagation(s) \/ ~tree.view[s.at].shared
  BY DEF IInv, TypeOK, PrivateInv, MountSpec
<1>3. tree' \in Tree /\ ~tree'.escaped
  BY <1>1, <1>2, LeftBehindFacts
<1> QED BY <1>1, <1>3, FailStep

\* A step that keeps what is mounted where, and lifts no restriction.
LEMMA OriginKept ==
  ASSUME OriginInv, pc # "failed", UNCHANGED <<req, given>>,
         \A q \in Paths : /\ tree'.view[q].fs = tree.view[q].fs
                          /\ tree.view[q].ro => tree'.view[q].ro
                          /\ tree.view[q].safe => tree'.view[q].safe
  PROVE  OriginInv'
BY DEF OriginInv, Listed

\* A mount point that is to be made can be, and then fits, if nothing is in its way.
LEMMA CreatedFits ==
  ASSUME NEW t \in Tree, NEW s \in MountSpec, s.create_mountpoint, ~s.file,
         ~OnlyPropagation(s), s.src \notin Refused, ~SetAttrFails(s),
         s.src \in Locked => s.recurse \/ ~s.bind,
         \A q \in Above(s.at) : /\ t.kind[q] # "file"
                                /\ t.kind[q] = "none" => ~t.view[q].ro /\ t.view[q].fs # "proc"
  PROVE  ~MountFails(t, s)
<1>1. s.at \in Paths /\ s.at \in Above(s.at)
  BY Distinct DEF MountSpec, Above
<1>2. Create(t, s) = CreateDirAll(t, s.at)
  BY CreateFacts
<1>3. t.kind[s.at] \in Kinds
  BY <1>1 DEF Tree
<1>4. Create(t, s).kind[s.at] = "dir"
  BY <1>1, <1>2, <1>3, CreateDirAllFacts DEF Kinds
<1> QED BY <1>4 DEF MountFails, CreateFails, CreateDirAllFails, AttachFails

\* unshare
LEMMA UnshareStep ==
  ASSUME IInv, UnshareOldRoot
  PROVE  IInv'
<1> USE DEF IInv
<1>1. pc = "unshare" /\ i = 1 /\ UNCHANGED <<req, given, i, new_root>>
  BY DEF UnshareOldRoot, IndexInv, BeforeSeal
<1>a. i' \in Nat \ {0} /\ new_root' \in {"slash", "elsewhere"}
  BY <1>1 DEF TypeOK
<1>2. CASE req.rootfs = "missing"
  BY <1>1, <1>a, <1>2, FailStep DEF UnshareOldRoot, Cause, TypeOK, PrivateInv
<1>3. CASE req.rootfs # "missing" /\ MountFails(tree, OldRoot)
  <2>1. MountThen(OldRoot, IF req.rootfs = "/" THEN "stage" ELSE "bind")
    BY <1>3 DEF UnshareOldRoot
  <2>2. Create(tree, OldRoot) = tree
    BY OwnSpecs, CreateFacts DEF TypeOK
  <2>3. Cause
    BY <1>1, <1>3, <2>2, OwnSpecs, Distinct
       DEF MountFails, CreateFails, AttachFails, SetAttrFails, ProgressInv, SealInv, BeforeSeal
  <2> QED BY <1>1, <1>a, <1>3, <2>1, <2>3, OwnSpecs, MountFailStep
<1>4. CASE req.rootfs # "missing" /\ ~MountFails(tree, OldRoot)
  <2> DEFINE t == Mount(tree, OldRoot)
  <2>1. tree' = t /\ pc' = IF req.rootfs = "/" THEN "stage" ELSE "bind"
    BY <1>4 DEF UnshareOldRoot, MountThen
  <2>2. Reached(tree.view, OldRoot) = Paths
    BY OwnSpecs, Distinct DEF Reached
  <2>3. /\ t \in Tree /\ t.kind = tree.kind /\ t.escaped = tree.escaped
        /\ \A q \in Paths : /\ t.view[q].at = tree.view[q].at
                            /\ t.view[q].fs = tree.view[q].fs
                            /\ t.view[q].ro <=> tree.view[q].ro
                            /\ tree.view[q].safe => t.view[q].safe
                            /\ ~t.view[q].shared
    <3>1. tree \in Tree /\ Create(tree, OldRoot) = tree
      BY OwnSpecs, CreateFacts DEF TypeOK
    <3> QED BY <2>2, <3>1, OwnSpecs, PropagationMount
  <2> HIDE DEF t
  <2>4. TypeOK' /\ IndexInv'
    BY <1>1, <2>1, <2>3 DEF TypeOK, IndexInv, Steps, Building, BeforeSeal
  <2>5. PrivateInv' /\ SealInv'
    BY <1>1, <2>1, <2>3, Distinct DEF PrivateInv, SealInv, BeforeSeal
  <2>6. OriginInv'
    BY <1>1, <2>1, <2>3, OriginKept
  <2>7. NewRootInv'
    BY <1>1, <2>1, <1>4 DEF NewRootInv, Steps, Building, BeforeSeal
  <2>8. ProgressInv'
    BY <1>1, <2>1, <2>3, CauseFixed DEF ProgressInv, Steps, Building, BeforeSeal
  <2> QED BY <2>1, <2>4, <2>5, <2>6, <2>7, <2>8, NotYet DEF Building, BeforeSeal
<1> QED BY <1>2, <1>3, <1>4

\* stage
LEMMA StageStep ==
  ASSUME IInv, StageRoot
  PROVE  IInv'
<1> USE DEF IInv
<1>1. /\ pc = "stage" /\ i = 1 /\ UNCHANGED <<req, given, i>> /\ i' \in Nat \ {0}
      /\ new_root' = "elsewhere" /\ tree \in Tree
  BY DEF StageRoot, IndexInv, BeforeSeal, TypeOK
<1>2. Create(tree, StageSpec) = CreateDirAll(tree, Stage)
  BY <1>1, OwnSpecs, CreateFacts
<1>3. ~Cause => \A q \in Above(Stage) : /\ tree.kind[q] # "file" /\ ~tree.view[q].ro
                                        /\ tree.view[q].fs # "proc"
  BY <1>1 DEF Cause, ProgressInv, NewRootInv, BeforeSeal, Above
<1>4. CASE MountFails(tree, StageSpec)
  <2>1. MountThen(StageSpec, "bind")
    BY DEF StageRoot
  <2>2. Cause
    BY <1>1, <1>3, <1>4, OwnSpecs, OwnTaken, Distinct, CreatedFits DEF SetAttrFails
  <2> QED BY <1>1, <1>4, <2>1, <2>2, OwnSpecs, MountFailStep
<1>5. CASE ~MountFails(tree, StageSpec)
  <2> DEFINE t == Mount(tree, StageSpec)
             u == CreateDirAll(tree, Stage)
  <2>1. tree' = t /\ pc' = "bind"
    BY <1>5 DEF StageRoot, MountThen
  <2>2. /\ u \in Tree /\ u.view = tree.view
        /\ \A q \in Paths : u.kind[q] = IF q \in Above(Stage) /\ tree.kind[q] = "none"
                                          THEN "dir" ELSE tree.kind[q]
    BY <1>1, CreateDirAllFacts, Distinct
  <2> HIDE DEF u
  <2>3. /\ t \in Tree /\ (t.escaped <=> tree.escaped \/ tree.view[Stage].shared)
        /\ \A q \in Paths : t.kind[q] = IF q \in Beneath[Stage] \ {Stage}
                                          THEN "none" ELSE u.kind[q]
        /\ \A q \in Paths \ Beneath[Stage] :
              /\ t.view[q].at = tree.view[q].at /\ t.view[q].fs = tree.view[q].fs
              /\ t.view[q].ro <=> tree.view[q].ro
              /\ t.view[q].safe <=> tree.view[q].safe
              /\ t.view[q].shared = tree.view[q].shared
        /\ \A q \in Beneath[Stage] :
              /\ t.view[q].at = Stage /\ t.view[q].fs = "stage" /\ ~t.view[q].ro
              /\ t.view[q].shared = tree.view[Stage].shared
    <3>1. \A q \in Paths : Content["stage"][q] = "none"
      BY SourcesAssumption
    <3>2. Create(tree, StageSpec) = u /\ Beneath[Stage] \subseteq Paths
      BY <1>2, Distinct DEF u
    <3>3. /\ StageSpec \in MountSpec /\ ~OnlyPropagation(StageSpec) /\ StageSpec.at = Stage
          /\ StageSpec.src = "stage" /\ StageSpec.src # "self" /\ ~StageSpec.read_only
      BY OwnSpecs
    <3>4. t \in Tree /\ (t.escaped <=> tree.escaped \/ tree.view[Stage].shared)
      BY <1>1, <3>3, CoverMount
    <3>5. \A q \in Paths : t.kind[q] = IF q \in Beneath[Stage] \ {Stage}
                                         THEN "none" ELSE u.kind[q]
      BY <1>1, <3>1, <3>2, <3>3, CoverMount
    <3> QED BY <1>1, <3>3, <3>4, <3>5, CoverMount
  <2> HIDE DEF t
  <2>4. Root \notin Beneath[Stage]
    BY PathsAssumption
  <2>5. TypeOK' /\ IndexInv' /\ NewRootInv'
    BY <1>1, <2>1, <2>3 DEF TypeOK, IndexInv, NewRootInv, Steps, Building, BeforeSeal
  <2>6. PrivateInv'
    BY <1>1, <2>1, <2>3, Distinct DEF PrivateInv
  <2>7. SealInv'
    BY <1>1, <2>1, <2>3, <2>4, Distinct DEF SealInv, BeforeSeal
  <2>8. OriginInv'
    <3>1. \A q \in Paths : q \in Beneath[Stage] => tree'.view[q].fs = "stage"
      BY <2>1, <2>3
    <3> QED BY <1>1, <2>1, <2>3, <3>1, Distinct DEF OriginInv, Listed
  <2>9. ProgressInv'
    <3>1. ASSUME ~Cause
          PROVE  /\ t.kind[Root] = "dir" /\ t.kind[Proc] = "dir"
                 /\ \A p \in Paths : t.view[p].fs # "proc" /\ ~t.view[p].ro
      BY <1>1, <2>2, <2>3, <2>4, <3>1, Distinct DEF ProgressInv, BeforeSeal
    <3>2. ASSUME ~Cause, NEW p \in Paths, t.kind[p] = "file" PROVE given.kind[p] = "file"
      BY <1>1, <2>2, <2>3, <3>2 DEF ProgressInv
    <3>3. ASSUME ~Cause, NEW p \in Paths, t.kind[p] = "file" PROVE MayBeFile(p)
      BY <3>2, <3>3 DEF MayBeFile
    <3> QED BY <1>1, <2>1, <3>1, <3>3, CauseFixed DEF ProgressInv, Steps, Building, BeforeSeal
  <2> QED BY <2>1, <2>5, <2>6, <2>7, <2>8, <2>9, NotYet DEF Building, BeforeSeal
<1> QED BY <1>4, <1>5

\* bind
LEMMA BindStep ==
  ASSUME IInv, BindNewRoot
  PROVE  IInv'
<1> USE DEF IInv
<1>1. /\ pc = "bind" /\ i = 1 /\ UNCHANGED <<req, given, i, new_root>> /\ i' \in Nat \ {0}
      /\ new_root' = "elsewhere" /\ tree \in Tree
  BY DEF BindNewRoot, IndexInv, BeforeSeal, TypeOK, NewRootInv, Steps, Building
<1>2. Create(tree, NewRoot) = tree
  BY <1>1, OwnSpecs, CreateFacts
<1>a. CASE req.rootfs = "nowhere"
  BY <1>1, <1>a, FailStep DEF BindNewRoot, Cause, PrivateInv
<1>3. CASE req.rootfs # "nowhere" /\ MountFails(tree, NewRoot)
  <2>1. MountThen(NewRoot, IF req.rootfs_readonly THEN "seal" ELSE "proc")
    BY <1>3 DEF BindNewRoot
  <2>2. Cause
    BY <1>1, <1>2, <1>3, OwnSpecs, Distinct
       DEF MountFails, CreateFails, AttachFails, SetAttrFails, ProgressInv, BeforeSeal
  <2> QED BY <1>1, <1>3, <2>1, <2>2, OwnSpecs, MountFailStep
<1>4. CASE req.rootfs # "nowhere" /\ ~MountFails(tree, NewRoot)
  <2> DEFINE t == Mount(tree, NewRoot)
  <2>1. tree' = t /\ pc' = IF req.rootfs_readonly THEN "seal" ELSE "proc"
    BY <1>4 DEF BindNewRoot, MountThen
  <2>2. /\ t \in Tree /\ t.kind = tree.kind
        /\ t.escaped <=> tree.escaped \/ tree.view[Root].shared
        /\ \A q \in Paths :
             /\ t.view[q].at = IF q \in Beneath[Root] /\ tree.view[q].at = tree.view[Root].at
                                 THEN Root ELSE tree.view[q].at
             /\ t.view[q].fs = tree.view[q].fs /\ t.view[q].shared = tree.view[q].shared
             /\ t.view[q].ro <=> tree.view[q].ro
             /\ tree.view[q].safe => t.view[q].safe
    BY <1>1, OwnSpecs, SelfMount
  <2> HIDE DEF t
  <2>3. TypeOK' /\ IndexInv' /\ NewRootInv'
    BY <1>1, <2>1, <2>2 DEF TypeOK, IndexInv, NewRootInv, Steps, Building, BeforeSeal
  <2>4. PrivateInv'
    BY <1>1, <2>1, <2>2, Distinct DEF PrivateInv
  <2>5. SealInv'
    BY <1>1, <2>1, <2>2, Distinct DEF SealInv, BeforeSeal
  <2>6. OriginInv'
    BY <1>1, <2>1, <2>2, OriginKept
  <2>7. ProgressInv'
    BY <1>1, <2>1, <2>2, CauseFixed DEF ProgressInv, Steps, Building, BeforeSeal
  <2> QED BY <2>1, <2>3, <2>4, <2>5, <2>6, <2>7, NotYet DEF Building, BeforeSeal
<1> QED BY <1>a, <1>3, <1>4

\* seal: the rootfs is still one mount, and becomes read-only as a whole.
LEMMA SealStep ==
  ASSUME IInv, Seal
  PROVE  IInv'
<1> USE DEF IInv
<1> DEFINE s == SealSpec
           t == SetAttr(tree, s)
<1>a. /\ pc = "seal" /\ i = 1 /\ UNCHANGED <<req, given, i, new_root>>
      /\ i' \in Nat \ {0} /\ new_root' = "elsewhere" /\ tree \in Tree
  BY DEF Seal, IndexInv, BeforeSeal, TypeOK, NewRootInv, Steps, Building
<1>2. s \in MountSpec /\ s.read_only /\ s.at = Root /\ s.src = "self"
  BY OwnSpecs
<1>b. CASE SetAttrFails(s)
  BY <1>a, <1>b, <1>2, OwnTaken, FailStep DEF Seal, SetAttrFails, PrivateInv
<1> SUFFICES ASSUME ~SetAttrFails(s) PROVE IInv'
  BY <1>b
<1>1. /\ pc = "seal" /\ pc' = "proc" /\ i = 1 /\ UNCHANGED <<req, given, i, new_root>>
      /\ i' \in Nat \ {0} /\ new_root' = "elsewhere" /\ tree \in Tree /\ tree' = t
  BY <1>a DEF Seal
<1> HIDE DEF s
<1>3. /\ t \in Tree /\ t.kind = tree.kind /\ t.escaped = tree.escaped
      /\ \A q \in Paths :
           /\ t.view[q].fs = tree.view[q].fs /\ t.view[q].shared = tree.view[q].shared
           /\ t.view[q].ro <=> tree.view[q].ro \/ q \in Reached(tree.view, s)
           /\ tree.view[q].safe => t.view[q].safe
  BY <1>1, <1>2, SetAttrFacts
<1> HIDE DEF t
<1>4. TypeOK' /\ IndexInv' /\ NewRootInv' /\ PrivateInv'
  BY <1>1, <1>3 DEF TypeOK, IndexInv, NewRootInv, PrivateInv, Steps, Building, BeforeSeal
<1>5. SealInv'
  <2>1. \A q \in Paths : tree.view[q].fs = "rootfs" => q \in Reached(tree.view, s)
    BY <1>1, <1>2, Distinct DEF SealInv, BeforeSeal, Reached
  <2> QED BY <1>1, <1>3, <2>1 DEF SealInv, BeforeSeal
<1>6. OriginInv'
  BY <1>1, <1>3, OriginKept
<1>7. ProgressInv'
  BY <1>1, <1>3, CauseFixed DEF SealInv, ProgressInv, Steps, Building, BeforeSeal
<1> QED BY <1>1, <1>4, <1>5, <1>6, <1>7, NotYet DEF Building, BeforeSeal

\* proc
LEMMA ProcStep ==
  ASSUME IInv, MountProc
  PROVE  IInv'
<1> USE DEF IInv
<1>1. /\ pc = "proc" /\ i = 1 /\ UNCHANGED <<req, given, i, new_root>> /\ i' \in Nat \ {0}
      /\ new_root' = "elsewhere" /\ tree \in Tree
  BY DEF MountProc, IndexInv, BeforeSeal, TypeOK, NewRootInv, Steps, Building
<1>2. /\ ProcSpec \in MountSpec /\ ~OnlyPropagation(ProcSpec) /\ ProcSpec.at = Proc
      /\ ProcSpec.src = "proc" /\ ProcSpec.src # "self" /\ ~ProcSpec.read_only
      /\ ~ProcSpec.create_mountpoint /\ ~ProcSpec.file /\ ~ProcSpec.bind
  BY OwnSpecs
<1>3. Create(tree, ProcSpec) = tree
  BY <1>1, <1>2, CreateFacts
<1>4. CASE MountFails(tree, ProcSpec)
  <2>1. MountThen(ProcSpec, "mounts")
    BY DEF MountProc
  <2>2. Cause
    BY <1>1, <1>2, <1>3, <1>4, OwnTaken
       DEF MountFails, CreateFails, AttachFails, SetAttrFails, ProgressInv
  <2> QED BY <1>1, <1>2, <1>4, <2>1, <2>2, MountFailStep
<1>5. CASE ~MountFails(tree, ProcSpec)
  <2> DEFINE t == Mount(tree, ProcSpec)
  <2>1. tree' = t /\ pc' = "mounts"
    BY <1>5 DEF MountProc, MountThen
  <2>2. t \in Tree /\ (t.escaped <=> tree.escaped \/ tree.view[Proc].shared)
    BY <1>1, <1>2, CoverMount
  <2>3. \A q \in Paths \ Beneath[Proc] :
          /\ t.kind[q] = tree.kind[q]
          /\ t.view[q].at = tree.view[q].at /\ t.view[q].fs = tree.view[q].fs
          /\ t.view[q].ro <=> tree.view[q].ro
          /\ t.view[q].safe <=> tree.view[q].safe
          /\ t.view[q].shared = tree.view[q].shared
    BY <1>1, <1>2, <1>3, CoverMount
  <2>4. \A q \in Beneath[Proc] :
          /\ t.view[q].at = Proc /\ t.view[q].fs = "proc" /\ ~t.view[q].ro
          /\ t.view[q].shared = tree.view[Proc].shared
    BY <1>1, <1>2, CoverMount
  <2> HIDE DEF t
  <2>5. TypeOK' /\ IndexInv' /\ NewRootInv'
    <3>1. Len(req.mounts) \in Nat
      BY DEF TypeOK, Request
    <3> QED BY <1>1, <2>1, <2>2, <3>1
            DEF TypeOK, IndexInv, NewRootInv, Steps, Building, BeforeSeal
  <2>6. PrivateInv'
    BY <1>1, <2>1, <2>2, <2>3, <2>4, Distinct DEF PrivateInv
  <2>7. SealInv'
    BY <1>1, <2>1, <2>3, <2>4 DEF SealInv, BeforeSeal
  <2>8. OriginInv'
    <3>1. \A q \in Paths : q \in Beneath[Proc] => tree'.view[q].fs = "proc"
      BY <2>1, <2>4
    <3> QED BY <1>1, <2>1, <2>3, <3>1, Distinct DEF OriginInv, Listed
  <2>9. ShownInv'
    <3>1. MountsHandled' = 0
      BY <1>1, <2>1 DEF MountsHandled, Handled
    <3> QED BY <3>1 DEF ShownInv
  <2>10. ProgressInv'
    <3>1. \A q \in Beneath[Proc] : t.kind[q] = "file" =>
            Content["proc"][q] = "file" \/ tree.kind[q] = "file"
      BY <1>1, <1>2, <1>3, CoverMount, Distinct DEF t
    <3>2. ~Cause => \A p \in Paths : t.kind[p] = "file" => MayBeFile(p)
      BY <1>1, <2>3, <3>1 DEF ProgressInv, MayBeFile, Steps, Building
    <3> QED BY <1>1, <2>1, <2>3, <2>4, <3>2, CauseFixed
            DEF ProgressInv, Steps, Building, BeforeSeal
  <2> QED BY <2>1, <2>5, <2>6, <2>7, <2>8, <2>9, <2>10, NotYet DEF Building, BeforeSeal
<1> QED BY <1>4, <1>5

\* The lists of a request.
LEMMA Lists ==
  ASSUME IInv
  PROVE  /\ Len(req.mounts) \in Nat /\ Len(req.mutations) \in Nat
         /\ Len(req.masked_paths) \in Nat /\ Len(req.readonly_paths) \in Nat
         /\ \A k \in 1 .. Len(req.mounts) :
              /\ req.mounts[k] \in MountSpec /\ req.mounts[k].src \in Sources
              /\ req.mounts[k].src # "self" /\ req.mounts[k] \in Listed(req.mounts)
         /\ \A k \in 1 .. Len(req.mutations) :
              req.mutations[k] \in Mutation /\ req.mutations[k] \in Listed(req.mutations)
         /\ \A k \in 1 .. Len(req.masked_paths) :
              req.masked_paths[k] \in Paths /\ req.masked_paths[k] \in Listed(req.masked_paths)
         /\ \A k \in 1 .. Len(req.readonly_paths) :
              /\ req.readonly_paths[k] \in Paths
              /\ req.readonly_paths[k] \in Listed(req.readonly_paths)
<1>1. /\ req.mounts \in Seq({s \in MountSpec : s.src \in Sources})
      /\ req.mutations \in Seq(Mutation) /\ req.masked_paths \in Seq(Paths)
      /\ req.readonly_paths \in Seq(Paths)
  BY DEF IInv, TypeOK, Request
<1>2. \A k \in 1 .. Len(req.mounts) : req.mounts[k] \in {s \in MountSpec : s.src \in Sources}
  BY <1>1
<1>3. /\ Len(req.mounts) \in Nat /\ Len(req.mutations) \in Nat
      /\ Len(req.masked_paths) \in Nat /\ Len(req.readonly_paths) \in Nat
  BY <1>1
<1>4. \A k \in 1 .. Len(req.mounts) :
        /\ req.mounts[k] \in MountSpec /\ req.mounts[k].src \in Sources
        /\ req.mounts[k].src # "self"
  BY <1>2, Distinct
<1>5. /\ \A k \in 1 .. Len(req.mutations) : req.mutations[k] \in Mutation
      /\ \A k \in 1 .. Len(req.masked_paths) : req.masked_paths[k] \in Paths
      /\ \A k \in 1 .. Len(req.readonly_paths) : req.readonly_paths[k] \in Paths
  BY <1>1
<1>6. /\ \A k \in 1 .. Len(req.mounts) : req.mounts[k] \in Listed(req.mounts)
      /\ \A k \in 1 .. Len(req.mutations) : req.mutations[k] \in Listed(req.mutations)
      /\ \A k \in 1 .. Len(req.masked_paths) : req.masked_paths[k] \in Listed(req.masked_paths)
      /\ \A k \in 1 .. Len(req.readonly_paths) :
           req.readonly_paths[k] \in Listed(req.readonly_paths)
  BY DEF Listed
<1> QED BY <1>3, <1>4, <1>5, <1>6

\* The end of a list, and on to the next one.
LEMMA DoneStep ==
  ASSUME IInv,
         \/ Done("mounts", req.mounts, "mutations")
         \/ Done("mutations", req.mutations, "masks")
         \/ Done("masks", req.masked_paths, "readonly")
         \/ Done("readonly", req.readonly_paths, "pivot")
  PROVE  IInv'
<1> USE DEF IInv
<1>1. /\ UNCHANGED <<req, given, tree, new_root>> /\ i' = 1
      /\ <<pc, pc'>> \in {<<"mounts", "mutations">>, <<"mutations", "masks">>,
                          <<"masks", "readonly">>, <<"readonly", "pivot">>}
  BY DEF Done
<1>2. TypeOK' /\ IndexInv' /\ NewRootInv'
  BY <1>1, Lists DEF TypeOK, IndexInv, NewRootInv, Steps, Building, BeforeSeal
<1>3. PrivateInv' /\ SealInv'
  BY <1>1 DEF PrivateInv, SealInv, BeforeSeal
<1>4. OriginInv'
  BY <1>1, OriginKept
<1>5. MountsHandled' = MountsHandled
  BY <1>1, Lists DEF MountsHandled, Handled, Done, IndexInv, TypeOK
<1>6. MasksHandled' = MasksHandled
  BY <1>1, Lists DEF MasksHandled, Handled, Done, IndexInv, TypeOK
<1>7. ReadonlyHandled' = ReadonlyHandled
  BY <1>1, Lists DEF ReadonlyHandled, Handled, Done, IndexInv, TypeOK
<1>8. ShownInv'
  BY <1>1, <1>5 DEF ShownInv
<1>9. MaskInv' /\ ReadonlyInv'
  BY <1>1, <1>6, <1>7 DEF MaskInv, ReadonlyInv
<1>10. ProgressInv'
  BY <1>1, CauseFixed DEF ProgressInv, Steps, Building, BeforeSeal
<1> QED BY <1>2, <1>3, <1>4, <1>8, <1>9, <1>10

\* mutations
LEMMA MutateStep ==
  ASSUME IInv, MutateNext
  PROVE  IInv'
<1> USE DEF IInv
<1> DEFINE m == req.mutations[i]
           p == m.target
<1>1. /\ pc = "mutations" /\ UNCHANGED <<req, given, new_root>> /\ i' = i + 1
      /\ i \in 1 .. Len(req.mutations) /\ p \in Paths /\ m \in Listed(req.mutations)
      /\ tree \in Tree /\ ~tree.escaped
  BY Lists DEF MutateNext, At, TypeOK, PrivateInv, Mutation
<1>2. i' \in Nat \ {0} /\ new_root' = "elsewhere"
  BY <1>1, Lists DEF TypeOK, NewRootInv, Steps, Building, BeforeSeal
<1>a. CASE m.absolute /\ pc' = "failed"
  BY <1>1, <1>2, <1>a, FailStep DEF MutateNext, MutateOldRoot, Cause
<1>3. CASE ~m.absolute /\ CreateDirAllFails(tree, p)
  <2>1. pc' = "failed" /\ UNCHANGED tree
    BY <1>3 DEF MutateNext, MutateContainer
  <2>2. ASSUME ~Cause PROVE FALSE
    <3>1. /\ p \notin Beneath[Proc] /\ NeverFile(p) /\ ~req.rootfs_readonly
      BY <1>1, <2>2, Lists DEF Cause
    <3>2. \A q \in Above(p) : q \in Paths /\ q \notin Beneath[Proc]
      BY <3>1, PathsAssumption DEF Above
    <3>3. \A q \in Above(p) : /\ tree.kind[q] # "file" /\ ~tree.view[q].ro
                              /\ tree.view[q].fs # "proc"
      BY <1>1, <2>2, <3>1, <3>2 DEF ProgressInv, NeverFile, OriginInv, Steps, Building
    <3> QED BY <1>3, <3>3 DEF CreateDirAllFails
  <2> QED BY <1>1, <1>2, <2>1, <2>2, FailStep
<1>4. ASSUME pc' # "failed" PROVE IInv'
  <2> DEFINE t == tree'
  <2>1. tree' = t /\ pc' = pc
    BY <1>4 DEF MutateNext, MutateContainer, MutateOldRoot
  <2>2. /\ t \in Tree /\ t.view = tree.view /\ t.escaped = tree.escaped
        /\ \A q \in Paths : t.kind[q] = "file" => tree.kind[q] = "file"
    <3>1. CASE ~m.absolute
      <4>1. tree' = CreateDirAll(tree, p)
        BY <1>4, <3>1 DEF MutateNext, MutateContainer
      <4> QED BY <1>1, <4>1, CreateDirAllFacts
    <3>2. CASE m.absolute
      <4> DEFINE kind == [q \in Paths |-> IF q \in Shared(p) THEN "dir" ELSE tree.kind[q]]
      <4>1. tree' = [tree EXCEPT !.kind = kind]
        BY <1>4, <3>2 DEF MutateNext, MutateOldRoot
      <4>2. kind \in [Paths -> Kinds]
        BY <1>1 DEF Tree, Kinds
      <4>3. \A q \in Paths : kind[q] = "file" => tree.kind[q] = "file"
        OBVIOUS
      <4> HIDE DEF kind
      <4>4. /\ [tree EXCEPT !.kind = kind] \in Tree
            /\ tree'.kind = kind /\ tree'.view = tree.view /\ tree'.escaped = tree.escaped
        BY <1>1, <4>1, <4>2 DEF Tree
      <4> QED BY <4>1, <4>3, <4>4
    <3> QED BY <1>1, <3>1, <3>2, Lists DEF Mutation
  <2> HIDE DEF t
  <2>3. TypeOK' /\ IndexInv' /\ NewRootInv'
    BY <1>1, <1>2, <2>1, <2>2, Lists DEF TypeOK, IndexInv, NewRootInv, BeforeSeal
  <2>4. PrivateInv' /\ SealInv'
    BY <1>1, <2>1, <2>2 DEF PrivateInv, SealInv, BeforeSeal
  <2>5. OriginInv'
    BY <1>1, <2>1, <2>2, OriginKept
  <2>6. ShownInv'
    <3>1. MountsHandled' = MountsHandled
      BY <1>1, <2>1 DEF MountsHandled, Handled
    <3> QED BY <1>1, <2>1, <2>2, <3>1 DEF ShownInv
  <2>7. ProgressInv'
    BY <1>1, <2>1, <2>2, CauseFixed DEF ProgressInv, Steps, Building, BeforeSeal
  <2> QED BY <1>1, <2>1, <2>3, <2>4, <2>5, <2>6, <2>7, NotYet DEF Building
<1> QED BY <1>1, <1>a, <1>3, <1>4 DEF MutateNext, MutateContainer

\* pivot
LEMMA PivotStep ==
  ASSUME IInv, Pivot
  PROVE  IInv'
<1> USE DEF IInv
<1>1. pc = "pivot" /\ pc' = "pivoted" /\ UNCHANGED <<req, given, tree, i, new_root>>
  BY DEF Pivot, NewRootInv, Steps, Building, BeforeSeal
<1>2. TypeOK' /\ IndexInv' /\ NewRootInv'
  BY <1>1 DEF TypeOK, IndexInv, NewRootInv, Steps, Building, BeforeSeal
<1>3. PrivateInv' /\ SealInv'
  BY <1>1 DEF PrivateInv, SealInv, BeforeSeal
<1>4. OriginInv'
  BY <1>1, OriginKept
<1>5. /\ MountsHandled' = MountsHandled /\ MasksHandled' = MasksHandled
      /\ ReadonlyHandled' = ReadonlyHandled
  BY <1>1 DEF MountsHandled, MasksHandled, ReadonlyHandled, Handled
<1>6. ShownInv' /\ MaskInv' /\ ReadonlyInv'
  BY <1>1, <1>5 DEF ShownInv, MaskInv, ReadonlyInv
<1>7. ProgressInv'
  BY <1>1, CauseFixed DEF ProgressInv, Steps, Building, BeforeSeal
<1> QED BY <1>2, <1>3, <1>4, <1>6, <1>7

\* The elements of a mask or read-only loop that are skipped.
LEMMA SkipStep ==
  ASSUME IInv, pc \in {"masks", "readonly"}, pc' = pc, i' = i + 1,
         UNCHANGED <<req, given, tree, new_root>>,
         pc = "masks" => i <= Len(req.masked_paths) /\ tree.kind[req.masked_paths[i]] = "none",
         pc = "readonly" =>
           i <= Len(req.readonly_paths) /\ tree.kind[req.readonly_paths[i]] = "none"
  PROVE  IInv'
<1> USE DEF IInv
<1>1. i \in Nat \ {0}
  BY DEF TypeOK
<1>2. TypeOK' /\ IndexInv' /\ NewRootInv'
  BY <1>1, Lists DEF TypeOK, IndexInv, NewRootInv, BeforeSeal
<1>3. PrivateInv' /\ SealInv'
  BY DEF PrivateInv, SealInv
<1>4. OriginInv'
  BY OriginKept
<1>5. ShownInv'
  <2>1. MountsHandled' = MountsHandled
    BY DEF MountsHandled, Handled
  <2> QED BY <2>1 DEF ShownInv
<1>6. MaskInv'
  <2>1. \A k \in 1 .. MasksHandled' :
          k \in 1 .. MasksHandled \/ (pc = "masks" /\ k = i)
    BY <1>1, Lists DEF MasksHandled, Handled
  <2> QED BY <2>1 DEF MaskInv
<1>7. ReadonlyInv'
  <2>1. \A k \in 1 .. ReadonlyHandled' :
          k \in 1 .. ReadonlyHandled \/ (pc = "readonly" /\ k = i)
    BY <1>1, Lists DEF ReadonlyHandled, Handled
  <2> QED BY <2>1 DEF ReadonlyInv
<1>8. ProgressInv'
  BY CauseFixed DEF ProgressInv, Steps, Building, BeforeSeal
<1> QED BY <1>2, <1>3, <1>4, <1>5, <1>6, <1>7, <1>8

\* What cannot be looked up is below a file, and that is a cause.
LEMMA LstatCause ==
  ASSUME IInv, pc \in {"masks", "readonly"}, NEW p, LstatFails(tree, p),
         p \in Listed(req.masked_paths) \cup Listed(req.readonly_paths)
  PROVE  Cause
<1>1. PICK q \in Above(p) \ {p} : tree.kind[q] = "file"
  BY DEF LstatFails
<1>2. ASSUME ~Cause PROVE MayBeFile(q)
  BY <1>1, <1>2 DEF IInv, ProgressInv, Steps, Above
<1> QED BY <1>1, <1>2 DEF Cause

\* masks: what a mask covers is nothing, so that those before it still hold.
LEMMA MaskStep ==
  ASSUME IInv, MaskNext
  PROVE  IInv'
<1> USE DEF IInv
<1> DEFINE p == req.masked_paths[i]
           s == MaskSpec(tree, p)
<1>1. /\ pc = "masks" /\ UNCHANGED <<req, given, new_root>> /\ i' = i + 1
      /\ i \in 1 .. Len(req.masked_paths) /\ p \in Paths /\ tree \in Tree
      /\ i \in Nat \ {0} /\ req.masked_paths # <<>> /\ p \in Listed(req.masked_paths)
  BY Lists DEF MaskNext, At, TypeOK
<1>2. /\ s \in MountSpec /\ ~OnlyPropagation(s) /\ s.src \in {"empty", "null"}
      /\ s.src # "self" /\ s.at = p /\ ~s.create_mountpoint
      /\ (s.file <=> tree.kind[p] # "dir")
  BY <1>1, MaskSpecs
<1> HIDE DEF s
<1>a. Cover(p, s)
  BY DEF MaskNext, MaskPath, s
<1>b. i' \in Nat \ {0} /\ new_root' \in {"slash", "elsewhere"}
  BY <1>1 DEF TypeOK
<1>c. Create(tree, s) = tree
  BY <1>1, <1>2, CreateFacts
<1>d. CASE LstatFails(tree, p)
  BY <1>1, <1>a, <1>b, <1>d, LstatCause, FailStep DEF Cover, PrivateInv
<1>e. CASE ~LstatFails(tree, p) /\ tree.kind[p] # "none" /\ MountFails(tree, s)
  <2>1. MountThen(s, pc)
    BY <1>a, <1>e DEF Cover
  <2>2. Cause
    BY <1>2, <1>c, <1>e, OwnTaken, Distinct
       DEF MountFails, CreateFails, AttachFails, SetAttrFails
  <2> QED BY <1>1, <1>2, <1>b, <1>e, <2>1, <2>2, MountFailStep
<1>3. CASE ~LstatFails(tree, p) /\ tree.kind[p] = "none"
  BY <1>1, <1>3, <1>a, SkipStep DEF Cover
<1>4. CASE ~LstatFails(tree, p) /\ tree.kind[p] # "none" /\ ~MountFails(tree, s)
  <2> DEFINE t == Mount(tree, s)
  <2>1. Create(tree, s) = tree
    BY <1>c
  <2>3. tree' = t /\ pc' = pc
    BY <1>4, <1>a DEF Cover, MountThen
  <2>4. t \in Tree /\ (t.escaped <=> tree.escaped \/ tree.view[p].shared)
    BY <1>1, <1>2, CoverMount
  <2>5. \A q \in Paths \ Beneath[p] :
          /\ t.kind[q] = tree.kind[q] /\ t.view[q].fs = tree.view[q].fs
          /\ t.view[q].ro <=> tree.view[q].ro
          /\ t.view[q].safe <=> tree.view[q].safe
          /\ t.view[q].shared = tree.view[q].shared
    BY <1>1, <1>2, <2>1, CoverMount
  <2>6. \A q \in Beneath[p] : /\ t.view[q].fs \in {"null", "empty"}
                              /\ t.view[q].shared = tree.view[p].shared
    BY <1>1, <1>2, CoverMount
  <2> HIDE DEF t
  <2>7. TypeOK' /\ IndexInv' /\ NewRootInv'
    BY <1>1, <2>3, <2>4, Lists DEF TypeOK, IndexInv, NewRootInv, BeforeSeal
  <2>8. PrivateInv'
    BY <1>1, <2>3, <2>4, <2>5, <2>6 DEF PrivateInv
  <2>9. SealInv'
    BY <1>1, <2>3, <2>5, <2>6 DEF SealInv, BeforeSeal
  <2>10. OriginInv'
    <3>1. \A q \in Paths : q \in Beneath[p] => tree'.view[q].fs \in {"null", "empty"}
      BY <2>3, <2>6
    <3> QED BY <1>1, <2>3, <2>5, <3>1, Distinct DEF OriginInv, Listed
  <2>11. ShownInv'
    BY <1>1 DEF ShownInv
  <2>12. MaskInv'
    <3>1. MasksHandled = i - 1 /\ MasksHandled' = i
      BY <1>1, <2>3 DEF MasksHandled, Handled
    <3> SUFFICES ASSUME NEW k \in 1 .. i
                 PROVE  LET m == req.masked_paths[k] IN
                        t.kind[m] = "none" \/ t.view[m].fs \in {"null", "empty"}
      BY <1>1, <2>3, <3>1 DEF MaskInv
    <3>2. req.masked_paths[k] \in Paths
      BY <1>1, Lists
    <3>3. CASE req.masked_paths[k] \in Beneath[p]
      BY <2>6, <3>3
    <3>4. CASE req.masked_paths[k] \notin Beneath[p]
      <4>1. k # i
        BY <1>1, <3>4, Distinct
      <4>2. k \in 1 .. MasksHandled
        BY <1>1, <3>1, <4>1
      <4>3. \/ tree.kind[req.masked_paths[k]] = "none"
            \/ tree.view[req.masked_paths[k]].fs \in {"null", "empty"}
        BY <4>2 DEF MaskInv
      <4> QED BY <2>5, <3>2, <3>4, <4>3
    <3> QED BY <3>3, <3>4
  <2>13. ReadonlyInv'
    <3>1. ReadonlyHandled' = 0
      BY <1>1, <2>3 DEF ReadonlyHandled, Handled
    <3> QED BY <3>1 DEF ReadonlyInv
  <2>14. ProgressInv'
    <3>1. \A q \in Paths : t.kind[q] = "file" => tree.kind[q] = "file"
      <4>1. \A q \in Beneath[p] \ {p} : Content[s.src][q] = "none"
        BY <1>1, <1>2, SourcesAssumption, Distinct
      <4>2. \A q \in Paths : t.kind[q] = IF q \in Beneath[p] \ {p}
                                           THEN Content[s.src][q] ELSE tree.kind[q]
        BY <1>1, <1>2, <2>1, CoverMount DEF t
      <4> QED BY <4>1, <4>2
    <3> QED BY <1>1, <2>3, <3>1, CauseFixed DEF ProgressInv, Steps, Building, BeforeSeal
  <2> QED BY <2>7, <2>8, <2>9, <2>10, <2>11, <2>12, <2>13, <2>14
<1> QED BY <1>d, <1>e, <1>3, <1>4

\* readonly
LEMMA ReadonlyStep ==
  ASSUME IInv, MakeReadonlyNext
  PROVE  IInv'
<1> USE DEF IInv
<1> DEFINE p == req.readonly_paths[i]
           s == ReadonlySpec(p)
<1>1. /\ pc = "readonly" /\ UNCHANGED <<req, given, new_root>> /\ i' = i + 1
      /\ i \in 1 .. Len(req.readonly_paths) /\ p \in Paths /\ tree \in Tree
      /\ i \in Nat \ {0} /\ p \in Listed(req.readonly_paths)
  BY Lists DEF MakeReadonlyNext, At, TypeOK
<1>2. /\ s \in MountSpec /\ ~OnlyPropagation(s) /\ s.src = "self" /\ s.at = p
      /\ s.recurse /\ ~s.create_mountpoint /\ s.read_only
  BY <1>1, ReadonlySpecs
<1> HIDE DEF s
<1>a. Cover(p, s)
  BY DEF MakeReadonlyNext, s
<1>b. i' \in Nat \ {0} /\ new_root' \in {"slash", "elsewhere"}
  BY <1>1 DEF TypeOK
<1>c. Create(tree, s) = tree
  BY <1>1, <1>2, CreateFacts
<1>d. CASE LstatFails(tree, p)
  BY <1>1, <1>a, <1>b, <1>d, LstatCause, FailStep DEF Cover, PrivateInv
<1>e. CASE ~LstatFails(tree, p) /\ tree.kind[p] # "none" /\ MountFails(tree, s)
  <2>1. MountThen(s, pc)
    BY <1>a, <1>e DEF Cover
  <2>2. Cause
    BY <1>2, <1>c, <1>e, OwnTaken, Distinct
       DEF MountFails, CreateFails, AttachFails, SetAttrFails
  <2> QED BY <1>1, <1>2, <1>b, <1>e, <2>1, <2>2, MountFailStep
<1>3. CASE ~LstatFails(tree, p) /\ tree.kind[p] = "none"
  BY <1>1, <1>3, <1>a, SkipStep DEF Cover
<1>4. CASE ~LstatFails(tree, p) /\ tree.kind[p] # "none" /\ ~MountFails(tree, s)
  <2> DEFINE t == Mount(tree, s)
  <2>3. tree' = t /\ pc' = pc
    BY <1>4, <1>a DEF Cover, MountThen
  <2>4. /\ t \in Tree /\ t.kind = tree.kind
        /\ (t.escaped <=> tree.escaped \/ tree.view[p].shared)
    BY <1>1, <1>2, SelfMount
  <2>5. \A q \in Paths :
          /\ t.view[q].fs = tree.view[q].fs /\ t.view[q].shared = tree.view[q].shared
          /\ t.view[q].ro <=> tree.view[q].ro \/ q \in Beneath[p]
          /\ tree.view[q].safe => t.view[q].safe
    BY <1>1, <1>2, SelfMount
  <2> HIDE DEF t
  <2>6. TypeOK' /\ IndexInv' /\ NewRootInv'
    BY <1>1, <2>3, <2>4, Lists DEF TypeOK, IndexInv, NewRootInv, BeforeSeal
  <2>7. PrivateInv' /\ SealInv'
    BY <1>1, <2>3, <2>4, <2>5 DEF PrivateInv, SealInv, BeforeSeal
  <2>8. OriginInv'
    BY <1>1, <2>3, <2>5, OriginKept
  <2>9. ShownInv'
    <3>1. MountsHandled' = MountsHandled
      BY <1>1, <2>3 DEF MountsHandled, Handled
    <3>2. \A k \in 1 .. MountsHandled : req.mounts[k].at \in Paths
      BY <1>1, Lists DEF MountsHandled, Handled, MountSpec
    <3> QED BY <1>1, <2>3, <2>5, <3>1, <3>2 DEF ShownInv
  <2>10. MaskInv'
    <3>1. MasksHandled' = MasksHandled /\ MasksHandled = Len(req.masked_paths)
      BY <1>1, <2>3 DEF MasksHandled, Handled
    <3> QED BY <1>1, <2>3, <2>4, <2>5, <3>1, Lists DEF MaskInv
  <2>11. ReadonlyInv'
    <3>1. ReadonlyHandled = i - 1 /\ ReadonlyHandled' = i
      BY <1>1, <2>3 DEF ReadonlyHandled, Handled
    <3> SUFFICES ASSUME NEW k \in 1 .. i, NEW q \in Beneath[req.readonly_paths[k]],
                        tree.kind[req.readonly_paths[k]] # "none", tree.kind[q] # "none"
                 PROVE  t.view[q].ro
      BY <1>1, <2>3, <2>4, <3>1 DEF ReadonlyInv
    <3>2. q \in Paths
      BY <1>1, Lists, Distinct
    <3>3. CASE k = i
      BY <2>5, <3>2, <3>3
    <3>4. CASE k # i
      BY <1>1, <2>5, <3>1, <3>2, <3>4 DEF ReadonlyInv
    <3> QED BY <3>3, <3>4
  <2>12. ProgressInv'
    BY <1>1, <2>3, <2>4, CauseFixed DEF ProgressInv, Steps, Building, BeforeSeal
  <2> QED BY <2>6, <2>7, <2>8, <2>9, <2>10, <2>11, <2>12
<1> QED BY <1>d, <1>e, <1>3, <1>4


\* mounts: what a mount of the request covers is hidden by it, what it does not
\* cover stays, and it is covered by none before a later one.
LEMMA MountStep ==
  ASSUME IInv, MountNext
  PROVE  IInv'
<1> USE DEF IInv
<1> DEFINE s == req.mounts[i]
           t == Mount(tree, s)
<1>1. /\ pc = "mounts" /\ UNCHANGED <<req, given, new_root>> /\ i' = i + 1
      /\ i \in 1 .. Len(req.mounts) /\ tree \in Tree /\ i \in Nat \ {0}
      /\ i' \in Nat \ {0} /\ new_root' = "elsewhere"
  BY Lists DEF MountNext, At, TypeOK, NewRootInv, Steps, Building, BeforeSeal
<1>2. /\ s \in MountSpec /\ s.src \in Sources /\ s.src # "self"
      /\ s \in Listed(req.mounts) /\ s.at \in Paths
  BY <1>1, Lists DEF MountSpec
<1>a. MountThen(s, "mounts")
  BY DEF MountNext
<1> HIDE DEF s
<1>3. ASSUME ~Cause
      PROVE  /\ s.create_mountpoint /\ ~s.file /\ ~OnlyPropagation(s) /\ ~s.read_only
             /\ ~req.rootfs_readonly /\ s.src \notin Refused /\ ~SetAttrFails(s)
             /\ s.src \in Locked => s.recurse \/ ~s.bind
             /\ \A q \in Above(s.at) : /\ tree.kind[q] # "file" /\ ~tree.view[q].ro
                                       /\ tree.view[q].fs # "proc"
  <2>1. Creating(s) /\ ~req.rootfs_readonly
    BY <1>1, <1>2, <1>3 DEF Cause
  <2>2. \A q \in Above(s.at) : q \in Paths /\ q \notin Beneath[Proc]
    BY <1>2, <2>1, PathsAssumption DEF Above, Creating
  <2>3. \A q \in Above(s.at) : /\ tree.kind[q] # "file" /\ ~tree.view[q].ro
                                /\ tree.view[q].fs # "proc"
    BY <1>1, <1>3, <2>1, <2>2 DEF ProgressInv, Creating, NeverFile, OriginInv, Steps, Building
  <2> QED BY <2>1, <2>3 DEF Creating, SetAttrFails
<1>4. CASE MountFails(tree, s)
  <2>1. Cause
    BY <1>1, <1>2, <1>3, <1>4, CreatedFits
  <2> QED BY <1>1, <1>2, <1>4, <1>a, <2>1, MountFailStep
<1>5. CASE ~MountFails(tree, s)
  <2>1. tree' = t /\ pc' = "mounts"
    BY <1>5, <1>a DEF MountThen
  <2>2. MountsHandled = i - 1 /\ MountsHandled' = i
    BY <1>1, <2>1 DEF MountsHandled, Handled
  <2>3. ASSUME TypeOK', PrivateInv', SealInv', OriginInv', ShownInv', ProgressInv'
        PROVE  IInv'
    <3>1. IndexInv' /\ NewRootInv'
      BY <1>1, <2>1 DEF IndexInv, NewRootInv, BeforeSeal
    <3> QED BY <2>1, <2>3, <3>1, NotYet DEF Building
  <2>4. CASE OnlyPropagation(s)
    <3>1. /\ t \in Tree /\ t.escaped = tree.escaped
          /\ \A q \in Paths : /\ t.view[q].fs = tree.view[q].fs
                              /\ tree.view[q].ro => t.view[q].ro
                              /\ tree.view[q].safe => t.view[q].safe
                              /\ t.view[q].shared => tree.view[q].shared
      BY <1>1, <1>2, <2>4, PropagationMount
    <3> HIDE DEF t
    <3>2. TypeOK'
      BY <1>1, <2>1, <3>1 DEF TypeOK, Steps, Building, BeforeSeal
    <3>3. PrivateInv' /\ SealInv'
      BY <1>1, <2>1, <3>1 DEF PrivateInv, SealInv, BeforeSeal
    <3>4. OriginInv'
      BY <1>1, <2>1, <3>1, OriginKept
    <3>5. ShownInv'
      <4> SUFFICES ASSUME req.masked_paths = <<>>, NEW k \in 1 .. i,
                          ~OnlyPropagation(req.mounts[k]),
                          \A m \in k + 1 .. i :
                            req.mounts[k].at \notin Beneath[req.mounts[m].at]
                   PROVE  t.view[req.mounts[k].at].fs = req.mounts[k].src
        BY <1>1, <2>1, <2>2 DEF ShownInv, OnlyPropagation
      <4>1. k \in 1 .. MountsHandled /\ req.mounts[k].at \in Paths
        BY <1>1, <2>2, <2>4, Lists DEF s, MountSpec
      <4>2. \A m \in k + 1 .. MountsHandled :
              req.mounts[k].at \notin Beneath[req.mounts[m].at]
        BY <1>1, <2>2
      <4> QED BY <1>1, <3>1, <4>1, <4>2 DEF ShownInv
    <3>6. ProgressInv'
      BY <1>1, <1>3, <2>4, CauseFixed DEF ProgressInv
    <3> QED BY <2>3, <3>2, <3>3, <3>4, <3>5, <3>6
  <2>5. CASE ~OnlyPropagation(s)
    <3>1. t \in Tree /\ (t.escaped <=> tree.escaped \/ tree.view[s.at].shared)
      BY <1>1, <1>2, <2>5, CoverMount
    <3>2. \A q \in Paths : t.kind[q] = IF q \in Beneath[s.at] \ {s.at}
                                         THEN Content[s.src][q] ELSE Create(tree, s).kind[q]
      BY <1>1, <1>2, <2>5, CoverMount
    <3>3. \A q \in Paths \ Beneath[s.at] :
            /\ t.view[q].fs = tree.view[q].fs
            /\ t.view[q].ro <=> tree.view[q].ro
            /\ t.view[q].safe <=> tree.view[q].safe
            /\ t.view[q].shared = tree.view[q].shared
      BY <1>1, <1>2, <2>5, CoverMount
    <3>4. \A q \in Beneath[s.at] :
            /\ t.view[q].fs = s.src /\ (t.view[q].ro <=> s.read_only)
            /\ (t.view[q].safe <=> s.safe)
            /\ t.view[q].shared = tree.view[s.at].shared
      BY <1>1, <1>2, <2>5, CoverMount
    <3> HIDE DEF t
    <3>5. TypeOK'
      BY <1>1, <2>1, <3>1 DEF TypeOK, Steps, Building, BeforeSeal
    <3>6. PrivateInv'
      BY <1>1, <1>2, <2>1, <3>1, <3>3, <3>4 DEF PrivateInv
    <3>7. SealInv'
      BY <1>1, <1>2, <2>1, <3>3, <3>4, Distinct DEF SealInv, BeforeSeal
    <3>8. OriginInv'
      <4> SUFFICES ASSUME NEW q \in Paths
                   PROVE  LET m == t.view[q] IN
                     /\ m.fs \in Sources =>
                          \E r \in Listed(req.mounts) : /\ r.src = m.fs /\ q \in Beneath[r.at]
                                                        /\ r.read_only => m.ro
                                                        /\ r.safe => m.safe
                     /\ m.fs = "submount" => \E x \in Paths : given.view[x].fs = "submount"
                     /\ m.fs = "proc" => q \in Beneath[Proc]
                     /\ m.fs \in {"null", "empty"} => req.masked_paths # <<>>
        BY <1>1, <2>1 DEF OriginInv, Listed
      <4>1. CASE q \in Beneath[s.at]
        BY <1>2, <3>4, <4>1, Distinct
      <4>2. CASE q \notin Beneath[s.at]
        BY <1>1, <3>3, <4>2 DEF OriginInv
      <4> QED BY <4>1, <4>2
    <3>9. ShownInv'
      <4> SUFFICES ASSUME req.masked_paths = <<>>, NEW k \in 1 .. i,
                          ~OnlyPropagation(req.mounts[k]),
                          \A m \in k + 1 .. i :
                            req.mounts[k].at \notin Beneath[req.mounts[m].at]
                   PROVE  t.view[req.mounts[k].at].fs = req.mounts[k].src
        BY <1>1, <2>1, <2>2 DEF ShownInv, OnlyPropagation
      <4>1. CASE k = i
        BY <1>2, <3>4, <4>1, Distinct DEF s
      <4>2. CASE k # i
        <5>1. k \in 1 .. MountsHandled /\ req.mounts[k].at \in Paths
          BY <1>1, <2>2, <4>2, Lists DEF MountSpec
        <5>2. \A m \in k + 1 .. MountsHandled :
                req.mounts[k].at \notin Beneath[req.mounts[m].at]
          BY <1>1, <2>2
        <5>3. tree.view[req.mounts[k].at].fs = req.mounts[k].src
          BY <1>1, <5>1, <5>2 DEF ShownInv
        <5>4. req.mounts[k].at \notin Beneath[s.at]
          BY <1>1, <4>2 DEF s
        <5> QED BY <3>3, <5>1, <5>3, <5>4
      <4> QED BY <4>1, <4>2
    <3>10. ProgressInv'
      <4>1. ASSUME ~Cause, NEW q \in Paths PROVE ~t.view[q].ro
        <5>1. ~tree.view[q].ro
          BY <1>1, <1>3, <4>1 DEF ProgressInv, Building
        <5> QED BY <1>3, <3>3, <3>4, <4>1, <5>1
      <4>2. ASSUME ~Cause, NEW q \in Paths, t.kind[q] = "file"
            PROVE  MayBeFile(q)
        <5>1. Create(tree, s) = CreateDirAll(tree, s.at)
          BY <1>1, <1>2, <1>3, <4>2, CreateFacts
        <5>2. Create(tree, s).kind[q] = "file" => tree.kind[q] = "file"
          BY <1>1, <1>2, <5>1, CreateDirAllFacts
        <5>3. \/ tree.kind[q] = "file" \/ Content[s.src][q] = "file"
          BY <3>2, <4>2, <5>2
        <5> QED BY <1>1, <1>2, <4>2, <5>3 DEF ProgressInv, MayBeFile, Steps, Building
      <4> QED BY <1>1, <2>1, <4>1, <4>2, CauseFixed DEF ProgressInv, Steps, Building, BeforeSeal
    <3> QED BY <2>3, <3>5, <3>6, <3>7, <3>8, <3>9, <3>10
  <2> QED BY <2>4, <2>5
<1> QED BY <1>4, <1>5

-----------------------------------------------------------------------------
(* The invariant. *)

\* pivot_fs starts with the tree as it was given, whatever the request.
LEMMA StartInv == Started => IInv
<1> SUFFICES ASSUME Started PROVE IInv
  OBVIOUS
<1> USE DEF Started
<1>1. /\ given \in Tree /\ ~given.escaped
      /\ \A p \in Paths : /\ given.view[p].fs \in {"rootfs", "submount"}
                          /\ given.view[p].at = Root <=> given.view[p].fs = "rootfs"
      /\ given.view[Root].at = Root /\ given.kind[Root] = "dir"
  BY TreesAssumption
<1>2. TypeOK /\ IndexInv /\ NewRootInv
  BY <1>1 DEF TypeOK, IndexInv, NewRootInv, Steps, Building, BeforeSeal
<1>3. PrivateInv /\ SealInv
  BY <1>1 DEF PrivateInv, SealInv, BeforeSeal
<1>4. OriginInv
  BY <1>1, Distinct DEF OriginInv
<1>5. MountsHandled = 0 /\ MasksHandled = 0 /\ ReadonlyHandled = 0
  BY DEF MountsHandled, MasksHandled, ReadonlyHandled, Handled
<1>6. ShownInv /\ MaskInv /\ ReadonlyInv
  BY <1>5 DEF ShownInv, MaskInv, ReadonlyInv
<1>7. ProgressInv
  BY <1>1 DEF ProgressInv, Cause, MayBeFile, BeforeSeal
<1> QED BY <1>2, <1>3, <1>4, <1>6, <1>7 DEF IInv

\* Every step keeps the invariant, also when another module takes it.
LEMMA StepInv ==
  ASSUME IInv, [Next]_vars
  PROVE  IInv'
<1>1. CASE UNCHANGED vars
  <2>1. UNCHANGED <<req, given, tree, pc, i, new_root>>
    BY <1>1 DEF vars
  <2>2. /\ MountsHandled' = MountsHandled /\ MasksHandled' = MasksHandled
        /\ ReadonlyHandled' = ReadonlyHandled
    BY <2>1 DEF MountsHandled, MasksHandled, ReadonlyHandled, Handled
  <2>3. TypeOK' /\ IndexInv' /\ NewRootInv' /\ PrivateInv' /\ SealInv'
    BY <2>1 DEF IInv, TypeOK, IndexInv, NewRootInv, PrivateInv, SealInv
  <2>4. OriginInv'
    BY <2>1 DEF IInv, OriginInv, Listed
  <2>5. ShownInv' /\ MaskInv' /\ ReadonlyInv'
    BY <2>1, <2>2 DEF IInv, ShownInv, MaskInv, ReadonlyInv
  <2>6. ProgressInv'
    BY <2>1, CauseFixed DEF IInv, ProgressInv, Steps
  <2> QED BY <2>3, <2>4, <2>5, <2>6 DEF IInv
<1>2. CASE Next
  BY <1>2, UnshareStep, StageStep, BindStep, SealStep, ProcStep, MountStep, MutateStep,
     MaskStep, ReadonlyStep, DoneStep, PivotStep DEF Next
<1> QED BY <1>1, <1>2

\* What holds of the tree holds in every state of pivot_fs.
THEOREM Invariance == Spec => []IInv
<1>1. Init => IInv
  BY StartInv, RequestsAssumption DEF Init, Started
<1>2. IInv /\ [Next]_vars => IInv'
  BY StepInv
<1> QED BY <1>1, <1>2, PTL DEF Spec

\* No mount propagates to the namespace that the tree was copied from.
THEOREM NothingEscapesHolds == Spec => []NothingEscapes
<1>1. IInv => NothingEscapes
  BY DEF IInv, PrivateInv, NothingEscapes
<1> QED BY <1>1, Invariance, PTL

\* Every masked path is hidden once the container is entered.
THEOREM MaskedPathsHiddenHolds == Spec => []MaskedPathsHidden
<1>1. IInv => MaskedPathsHidden
  <2> SUFFICES ASSUME IInv, pc = "pivoted" PROVE MaskedPathsHidden
    BY DEF MaskedPathsHidden
  <2>1. MasksHandled = Len(req.masked_paths)
    BY DEF MasksHandled, Handled
  <2> QED BY <2>1 DEF IInv, MaskInv, MaskedPathsHidden, Listed
<1> QED BY <1>1, Invariance, PTL

\* Every read-only path is read-only all the way down once it is entered.
THEOREM ReadonlyPathsHoldAlways == Spec => []ReadonlyPathsHold
<1>1. IInv => ReadonlyPathsHold
  <2> SUFFICES ASSUME IInv, pc = "pivoted" PROVE ReadonlyPathsHold
    BY DEF ReadonlyPathsHold
  <2>1. ReadonlyHandled = Len(req.readonly_paths)
    BY DEF ReadonlyHandled, Handled
  <2> QED BY <2>1 DEF IInv, ReadonlyInv, ReadonlyPathsHold, Listed
<1> QED BY <1>1, Invariance, PTL

\* A read-only rootfs cannot be written through any path, whatever is mounted.
THEOREM RootSealedHolds == Spec => []RootSealed
<1>1. IInv => RootSealed
  BY DEF IInv, SealInv, RootSealed, BeforeSeal
<1> QED BY <1>1, Invariance, PTL

\* What the request mounts is as restricted as it says, unless a step failed.
THEOREM MountFlagsHoldAlways == Spec => []MountFlagsHold
<1>1. IInv => MountFlagsHold
  <2> SUFFICES ASSUME IInv, pc # "failed", NEW s \in Listed(req.mounts), NEW p \in Paths,
                      tree.view[p].fs = s.src,
                      \A r \in Listed(req.mounts) : r.src = s.src => r = s
               PROVE  /\ s.read_only => tree.view[p].ro
                      /\ s.safe => tree.view[p].safe
    BY DEF MountFlagsHold
  <2>1. s.src \in Sources
    BY Lists DEF Listed
  <2>2. PICK r \in Listed(req.mounts) : /\ r.src = tree.view[p].fs
                                        /\ r.read_only => tree.view[p].ro
                                        /\ r.safe => tree.view[p].safe
    BY <2>1 DEF IInv, OriginInv
  <2> QED BY <2>2
<1> QED BY <1>1, Invariance, PTL

\* pivot_fs reaches its end unless one of the causes keeps it from there.
THEOREM PivotFailsOnlyForCauseHolds == Spec => []PivotFailsOnlyForCause
<1>1. IInv => PivotFailsOnlyForCause
  BY DEF IInv, ProgressInv, PivotFailsOnlyForCause
<1> QED BY <1>1, Invariance, PTL
=============================================================================
