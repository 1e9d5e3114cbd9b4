---------------------------- MODULE MCNetBinding ----------------------------
(* Instances of NetBinding for TLC.                                        *)
EXTENDS NetBinding
=============================================================================
