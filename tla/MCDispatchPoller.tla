-------------------------- MODULE MCDispatchPoller --------------------------
(* An instance of DispatchPoller alone for TLC: one file that the image      *)
(* pipeline is to process.                                                   *)
EXTENDS DispatchPoller, TLC

CONSTANTS c1, f1

OneCheckIn == (c1 :> {f1})
OneKind == (f1 :> "image")
=============================================================================
