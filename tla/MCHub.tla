------------------------------- MODULE MCHub -------------------------------
(* Values for model checking Hub.                                          *)
EXTENDS Hub, TLC

Symmetry == Permutations(User) \cup Permutations(Conn) \cup Permutations(Notifier)

=============================================================================
