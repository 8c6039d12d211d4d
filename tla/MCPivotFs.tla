------------------------------ MODULE MCPivotFs ------------------------------
(***************************************************************************)
(* Instances of PivotFs for TLC: a small tree, six file systems to mount   *)
(* in it and the lists of one or two elements that are of interest.        *)
(***************************************************************************)
EXTENDS PivotFsProps

MCPaths == {"/", "/proc", "/proc/sys", "/proc/kcore", "/data", "/data/log",
            "/data/log/old", "/data/log/old/x", "/tmp"}

MCBeneath ==
  [p \in MCPaths |->
     CASE p = "/"         -> MCPaths
       [] p = "/proc"     -> {"/proc", "/proc/sys", "/proc/kcore"}
       [] p = "/data"     -> {q \in MCPaths : q \notin {"/", "/tmp", "/proc", "/proc/sys", "/proc/kcore"}}
       [] p = "/data/log" -> {"/data/log", "/data/log/old", "/data/log/old/x"}
       [] p = "/data/log/old" -> {"/data/log/old", "/data/log/old/x"}
       [] OTHER           -> {p}]

\* `home` has a mount of the host's below it, `gone` is not there, and on `stuck`
\* no attributes can be set.
MCSources == {"volume", "tmpfs", "hosts", "home", "gone", "stuck"}

\* What each file system holds; `volume` has a file, `hosts` is one.
MCContent ==
  [fs \in Filesystems |->
    [p \in MCPaths |->
      CASE fs = "proc" -> (CASE p = "/proc/sys" -> "dir" [] p = "/proc/kcore" -> "file"
                             [] OTHER -> "none")
        [] fs = "volume" -> (CASE p \in {"/proc", "/data", "/data/log"} -> "dir"
                               [] p = "/data/log/old" -> "file" [] OTHER -> "none")
        [] OTHER -> "none"]]

\* A rootfs that lies on one file system, one with a mount below it, one without
\* /proc, and one with neither /data/log nor the staging directory.
Covered(at, fs) == [at |-> at, fs |-> fs, ro |-> FALSE, safe |-> FALSE,
                    shared |-> TRUE]
Full == [p \in MCPaths |-> IF p \in {"/proc/sys", "/proc/kcore", "/data/log/old/x"} THEN "none"
                           ELSE IF p = "/data/log/old" THEN "file" ELSE "dir"]
OneMount == [view |-> [p \in MCPaths |-> Covered("/", "rootfs")], kind |-> Full,
             escaped |-> FALSE, emptied |-> {}]
WithSubmount == [OneMount EXCEPT !.view =
                   [p \in MCPaths |-> IF p \in MCBeneath["/data"]
                                        THEN Covered("/data", "submount")
                                        ELSE Covered("/", "rootfs")]]
NoProc == [OneMount EXCEPT !.kind["/proc"] = "none"]
EmptyData == [OneMount EXCEPT !.kind =
               [p \in MCPaths |-> IF p \in {"/", "/proc", "/data"} THEN "dir" ELSE "none"]]

MCTrees == {OneMount, WithSubmount, NoProc, EmptyData}

Volume(at)  == [Plain("volume", at) EXCEPT !.bind = TRUE, !.recurse = TRUE,
                                           !.create_mountpoint = TRUE]
MCSpecs ==
  { Volume("/data/log"),
    [Volume("/data") EXCEPT !.read_only = TRUE],
    Volume("/"),
    [Plain("tmpfs", "/data/log") EXCEPT !.safe = TRUE, !.create_mountpoint = TRUE],
    [Plain("hosts", "/data/log/old") EXCEPT !.bind = TRUE, !.file = TRUE],
    [Plain("hosts", "/data/log/old") EXCEPT !.bind = TRUE, !.file = TRUE,
                                            !.create_mountpoint = TRUE],
    [Plain("tmpfs", "/proc/sys") EXCEPT !.create_mountpoint = TRUE],
    [Plain("tmpfs", "/data") EXCEPT !.unshare = TRUE, !.recurse = TRUE] }

MCMounts == {<<>>} \cup {<<s>> : s \in MCSpecs} \cup (MCSpecs \X MCSpecs)

Made(p, absolute) == [target |-> p, absolute |-> absolute]

\* The lists against each other.
MCLists ==
  [rootfs : {"/", "path"}, rootfs_readonly : BOOLEAN,
   mounts : MCMounts, mutations : {<<>>, <<Made("/data/log", FALSE)>>},
   masked_paths : {<<>>, <<"/proc/kcore">>, <<"/proc/kcore", "/proc">>,
                   <<"/data/log", "/data/log/old">>, <<"/data">>},
   readonly_paths : {<<>>, <<"/proc/sys", "/data">>, <<"/">>}]

\* Mounts that the kernel may refuse, whole or in part.
MCOddSpecs ==
  { Volume("/data/log"),
    [Volume("/data/log") EXCEPT !.src = "home"],
    [Volume("/data/log") EXCEPT !.src = "home", !.recurse = FALSE],
    [Volume("/data/log") EXCEPT !.src = "gone"],
    [Volume("/data/log") EXCEPT !.src = "stuck"],
    [Volume("/data/log") EXCEPT !.src = "stuck", !.safe = TRUE] }

\* These, with paths below a file, and directories in either root.
MCOdd ==
  [rootfs : {"/", "path"}, rootfs_readonly : BOOLEAN,
   mounts : {<<>>} \cup {<<s>> : s \in MCOddSpecs},
   mutations : {<<>>, <<Made("/data/log", TRUE)>>,
                <<Made("/data/log/old/x", TRUE), Made("/data/log/old", FALSE)>>},
   masked_paths : {<<>>, <<"/data/log/old/x">>},
   readonly_paths : {<<>>, <<"/data/log/old/x">>}]

MCNoRootfs ==
  [rootfs : {"missing", "nowhere"}, rootfs_readonly : {FALSE}, mounts : {<<>>},
   mutations : {<<>>}, masked_paths : {<<>>}, readonly_paths : {<<>>}]

MCRequests == MCLists \cup MCOdd \cup MCNoRootfs
=============================================================================
