-------------------------------- MODULE MCJail --------------------------------
(***************************************************************************)
(* Instances of Jail for TLC, on the trees of MCPivotFs: a jail started in *)
(* /data, in "/" or nowhere, with what the command line mounts there and   *)
(* elsewhere.                                                              *)
(***************************************************************************)
EXTENDS Jail, MCPivotFs, TLC

JailSources == MCSources \cup {"cwd", "slash"}

\* `cwd` is /data of the host, `slash` all of it but the mounts below.
JailContent ==
  [fs \in Filesystems |->
     IF fs = "cwd" THEN [p \in MCPaths |-> IF p \in {"/data/log"} THEN "dir"
                                           ELSE IF p = "/data/log/old" THEN "file"
                                           ELSE "none"]
     ELSE IF fs = "slash" THEN Full ELSE MCContent[fs]]

MCHosts     == "/srv" :> "volume" @@ "/etc/hosts" :> "hosts" @@ "/var" :> "tmpfs"
               @@ "/data" :> "cwd" @@ "/" :> "slash" @@ "/home" :> "home" @@ "/none" :> "gone"
               @@ "/odd" :> "stuck"
MCHostFiles == {"/etc/hosts"}

WellFormed == { <<"/srv", "/data/log">>, <<"/srv", "/data/log", "rw">>,
                <<"/srv", "/data">>, <<"/var", "/tmp">>, <<"/var", "/data/log", "rw">>,
                <<"/etc/hosts", "/data/log/old">>, <<"/data", "/tmp", "rw">> }
Malformed  == { <<"/srv">>, <<"", "/data">>, <<"/srv", "">>, <<"/srv", "/tmp", "ro">>,
                <<"/srv", "/tmp", "rw", "">> }

MCUsualClis ==
  [rootfs : {"/", "path"}, no_rootfs_readonly : BOOLEAN, no_default_mounts : BOOLEAN,
   mount : {<< >>} \cup {<<m>> : m \in WellFormed \cup Malformed}
             \cup (WellFormed \X WellFormed),
   limit : {<< >>}, cwd : {"/data"}]
  \cup
  [rootfs : {"/"}, no_rootfs_readonly : {FALSE}, no_default_mounts : {FALSE},
   mount : {<< >>}, cwd : {"/data"},
   limit : {<< <<"memory.max", "1G">>, <<"cpu.max", "max">>, <<"memory.max", "2G">> >>,
            << <<"memory.max">> >>, << <<"", "1G">> >>}]

\* Where the current directory, or what is to be mounted, is in the way.
MCOddClis ==
  [rootfs : {"/", "nowhere"}, no_rootfs_readonly : BOOLEAN, no_default_mounts : BOOLEAN,
   mount : {<< >>, <<<<"/home", "/data/log">>>>, <<<<"/none", "/data/log", "rw">>>>,
            <<<<"/odd", "/data/log">>>>, <<<<"/odd", "/data/log", "rw">>>>},
   limit : {<< >>}, cwd : {"/", "/data", "gone", "odd"}]

MCClis == MCUsualClis \cup MCOddClis

\* A file to mount over one that the current directory holds.
MCFileOverFile ==
  {[rootfs |-> "/", no_rootfs_readonly |-> FALSE, no_default_mounts |-> FALSE,
    mount |-> << <<"/etc/hosts", "/data/log/old">> >>, limit |-> << >>, cwd |-> "/data"]}
=============================================================================
