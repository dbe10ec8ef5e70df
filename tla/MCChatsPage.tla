---------------------------- MODULE MCChatsPage ----------------------------
EXTENDS ChatsPage

CONSTANTS c1, c2, m1, m2, o1

MCChatOf == [m \in Msg |-> IF m = o1 THEN c2 ELSE c1]

\* The second message of c1 comes after the first and only where all that could
\* keep it from the panel are counts and the purge; the first is purged only where
\* the viewer has sent nothing and stays in the other chat, and nothing has gone
\* wrong but another chat opened.
MCBound ==
    /\ Cardinality(mishaps) <= 1
    /\ rows[m2] # "none" => rows[m1] # "none" /\ mishaps = {} /\ sends[o1] = "none"
    /\ rows[m1] = "gone" => /\ mishaps \subseteq {"switched"} /\ sends[o1] = "none"
                           /\ chats[c2] # "removed"
=============================================================================
