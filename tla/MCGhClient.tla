----------------------------- MODULE MCGhClient -----------------------------
(* GhClient for TLC: two goroutines, two tokens, two attempts. *)
EXTENDS GhClient, TLC

CONSTANTS w1, w2

=============================================================================
