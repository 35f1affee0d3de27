--------------------------- MODULE MCGosvTestRuns ---------------------------
(***************************************************************************)
(* A list of four test cases: deploy_vm, which is a blocker and is renamed *)
(* while it runs, a test case that is listed twice in a row, and one more  *)
(* blocker.                                                                *)
(***************************************************************************)
EXTENDS GosvTestRuns

MCTestList == <<"deploy_vm", "stat_balloon", "stat_balloon", "ovt_verify_pkg_install">>
MCAliases  == {"deploy_vm", "deploy_vm_ova"}
MCNames    == {MCTestList[i] : i \in DOMAIN MCTestList} \cup MCAliases
MCBlockers == {"deploy_vm", "deploy_vm_ova", "ovt_verify_pkg_install"}
=============================================================================
