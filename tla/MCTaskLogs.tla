----------------------------- MODULE MCTaskLogs -----------------------------
(***************************************************************************)
(* A task of each sort: one without tags, two loops of which one ignores   *)
(* errors, a debug task that reports a known issue, and one that reports   *)
(* a failure.                                                              *)
(***************************************************************************)
EXTENDS TaskLogs

MCPaths        == {"plain", "loop", "tolerant loop", "known issue", "fail message"}
MCLooped       == {"loop", "tolerant loop"}
MCIgnoreErrors == {"tolerant loop"}
=============================================================================
