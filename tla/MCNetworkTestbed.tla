-------------------------- MODULE MCNetworkTestbed --------------------------
(***************************************************************************)
(* Two runs on one host.  The network tests of linux/gosv_testcase_list.yml *)
(* (pvrdma first), and a list that a user has put in another order.  A run *)
(* is told from the other only by what it has come to.                     *)
(***************************************************************************)
EXTENDS NetworkTestbed, TLC

MCLists == {<<"vds", "vss">>, <<"vss", "vds">>}

(* Indices without and with a gap.                                         *)
MCTaken == {{0}, {0, 2}}

(* Room for both distributed switches, and for none.                       *)
MCOthers == {14, 15}

MCSymmetry == Permutations(Runs)
=============================================================================
