-------------------------- MODULE MCRemoteAuthority --------------------------
(* Submissions and changes of RemoteAuthority are interchangeable. *)
EXTENDS RemoteAuthority, TLC

Symmetry == Permutations(Content)
=============================================================================
