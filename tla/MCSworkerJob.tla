---------------------------- MODULE MCSworkerJob ----------------------------
(***************************************************************************)
(* Small instance of SworkerJob: three keys in pages of two, reports that  *)
(* appear and expire between the cycles, groups that share nothing.        *)
(***************************************************************************)
EXTENDS SworkerJob

MCSnapshots == {[keys |-> {1, 2, 3}, fresh |-> {1, 3}],
                [keys |-> {1, 2}, fresh |-> {1, 2}]}

MCMembers == <<{1, 2}, {3}>>
MCVersionOf == <<"v1", "v1", "v2">>
=============================================================================
