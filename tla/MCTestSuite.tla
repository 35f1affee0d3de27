----------------------------- MODULE MCTestSuite -----------------------------
(***************************************************************************)
(* Five test cases of linux/gosv_testcase_list.yml that differ in what     *)
(* their playbooks contain.                                                *)
(***************************************************************************)
EXTENDS TestSuite

MCTestList ==
    <<"deploy_vm", "ovt_verify_pkg_install", "host_verify_saml_token",
      "cpu_hot_add_basic", "cpu_multicores_per_socket">>

MCAliases  == {"deploy_vm", "deploy_vm_ova"}
MCNames    == {MCTestList[i] : i \in DOMAIN MCTestList} \cup MCAliases
MCBlockers == MCAliases \cup {"ovt_verify_pkg_install"}

Plain == [open |-> FALSE, early |-> FALSE, exit |-> FALSE, always |-> FALSE,
          probes |-> FALSE, earlySkips |-> {}, skips |-> {},
          lateSkips |-> {}]

MCProfile ==
    [deploy_vm |->
        [Plain EXCEPT !.open = TRUE, !.exit = TRUE, !.always = TRUE,
                      !.skips = {"Skipped"}],
     ovt_verify_pkg_install |->
        [Plain EXCEPT !.exit = TRUE,
                      !.skips = {"Skipped", "Not Supported", "Not Applicable", "Blocked"}],
     host_verify_saml_token |->
        [Plain EXCEPT !.always = TRUE, !.probes = TRUE,
                      !.skips = {"Not Supported", "Not Applicable", "Blocked"},
                      !.lateSkips = {"Blocked"}],
     cpu_hot_add_basic |->
        [Plain EXCEPT !.early = TRUE, !.earlySkips = {"Not Supported", "Blocked"}],
     cpu_multicores_per_socket |->
        [Plain EXCEPT !.early = TRUE, !.earlySkips = {"Blocked"}]]
=============================================================================
