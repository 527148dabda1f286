------------------------------- MODULE MCLog -------------------------------
(***************************************************************************)
(* The instance of Log for TLC.                                            *)
(***************************************************************************)
EXTENDS Log

\* The instance is one for which begin_op() reserves enough.
ASSUME Fits == CallsFit
=============================================================================
