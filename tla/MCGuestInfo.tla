----------------------------- MODULE MCGuestInfo ----------------------------
(***************************************************************************)
(* The test cases in the order of linux/gosv_testcase_list.yml, and in an  *)
(* order that a user has chosen; a list that is empty.                     *)
(***************************************************************************)
EXTENDS GuestInfo

MCTestLists ==
    {<<"ovt_verify_pkg_install", "other", "check_os_fullname", "other">>,
     <<"check_os_fullname", "ovt_verify_pkg_install", "check_os_fullname">>,
     <<>>}
=============================================================================
