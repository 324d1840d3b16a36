---------------------------- MODULE MCGitSubscriber ----------------------------
(* Small instances of GitSubscriber for TLC. *)
EXTENDS GitSubscriber, TLC

CONSTANTS c1, c2, c3, g1, g2, g3
===============================================================================
