---------------------------- MODULE MCAdmission ----------------------------
(***************************************************************************)
(* The instance of Admission for TLC.                                      *)
(***************************************************************************)
EXTENDS Admission

MCTierSeq == <<"public", "internal">>

\* A reader by default, an uploader, and an entry with a typing error.
MCEntries == {[clearance |-> "internal", role |-> None],
              [clearance |-> "public", role |-> "uploader"],
              [clearance |-> "pubic", role |-> "reader"]}

MCRoleOf == [generate |-> "reader"]

MCLimit == [login |-> 1, generate |-> 2]
=============================================================================
