----------------------------- MODULE MCVerified ------------------------------
(***************************************************************************)
(* Programs a bytecode verifier would accept.                              *)
(***************************************************************************)
EXTENDS MCMachine

ASSUME VerifiedCode == Verified
=============================================================================
