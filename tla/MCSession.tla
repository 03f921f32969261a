----------------------------- MODULE MCSession -----------------------------
(***************************************************************************)
(* Instances of Session for TLC.                                           *)
(***************************************************************************)
EXTENDS Session, TLC

\* Identities carry no meaning, for the safety run.
AnyNames == Permutations(Requests) \cup Permutations(Users)
=============================================================================
