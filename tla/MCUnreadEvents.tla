--------------------------- MODULE MCUnreadEvents ---------------------------
EXTENDS UnreadEvents

CONSTANTS c1, c2, m1, m2

\* A message in each chat.
MCChatOf == [m \in Msg |-> IF m = m1 THEN c1 ELSE c2]
=============================================================================
