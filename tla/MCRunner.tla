------------------------------- MODULE MCRunner -------------------------------
(***************************************************************************)
(* Instance of Runner for TLC: everything that may go wrong.               *)
(***************************************************************************)
EXTENDS Runner

MCFaults == {"tempfile", "write", "flush", "start", "watch", "wait", "read", "cancel",
             "kill_runner", "kill_binary"}
=============================================================================
