---------------------------- MODULE MCLongPolling ----------------------------
(* Instances of LongPolling for TLC. *)
EXTENDS LongPolling, TLC

(* Poll and Post slots are interchangeable; clients are too, since a message *)
(* is a rank and names no client.                                            *)
Symmetry == Permutations(Poll) \cup Permutations(Post) \cup Permutations(Client)
================================================================================
