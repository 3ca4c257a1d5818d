----------------------------- MODULE MCAccounts -----------------------------
(***************************************************************************)
(* Instances of Accounts for TLC.                                          *)
(***************************************************************************)
EXTENDS Accounts

CONSTANTS u1, u2, o1, o2, q1, q2

TwoUsers    == {u1, u2}
TwoOrgs     == {o1, o2}
TwoRequests == {q1, q2}
MCEmails    == {"a@x", "b@x"}
MCNames     == {"Acme"}
MCTokenIds  == {1}
MCAccessIds == {1}
=============================================================================
