------------------------------- MODULE LoaderMC -------------------------------
(***************************************************************************)
(* One expected chip and one that is not.                                  *)
(***************************************************************************)
EXTENDS Loader

MCAddress == Word \cup Register
=============================================================================
