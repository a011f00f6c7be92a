----------------------------- MODULE MCChatServer -----------------------------
(* Instances of ChatServer for TLC. *)
EXTENDS ChatServer

Symmetry == Permutations(Conn) \cup Permutations(Room)
================================================================================
