---------------------------- MODULE MCChatStore ----------------------------
(* Values for model checking ChatStore.                                    *)
EXTENDS ChatStore, TLC

\* Users, messages and slots are interchangeable.  Keys are not: their
\* ids break ties between versions created at the same time.
Symmetry ==
    Permutations(User) \cup Permutations(Msg) \cup Permutations(Req)

=============================================================================
