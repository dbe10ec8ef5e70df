------------------------------- MODULE Roster -------------------------------
(***************************************************************************)
(* What the server promises about who is in a chat: the roster of a chat   *)
(* is fixed when the chat is created and afterwards only shrinks, one      *)
(* member at a time.  A member goes only if somebody else asked for it who *)
(* is an admin when asking and still is when the member goes.              *)
(***************************************************************************)
CONSTANTS User, Chat

VARIABLES
    members,
    admins,
    asked       \* removals under way: <<chat, who asked, whom to remove>>

Init ==
    /\ members = [c \in Chat |-> {}]
    /\ admins  = [c \in Chat |-> {}]
    /\ asked   = {}

Found(c, u, users) ==
    /\ members[c] = {}
    /\ u \in users
    /\ members' = [members EXCEPT ![c] = users]
    /\ admins'  = [admins EXCEPT ![c] = {u}]
    /\ UNCHANGED asked

Ask(c, u, t) ==
    /\ u \in admins[c] \ {t}
    /\ asked' = asked \cup {<<c, u, t>>}
    /\ UNCHANGED <<members, admins>>

\* A removal is refused, rolled back or cancelled.
Drop ==
    /\ asked' \subseteq asked
    /\ UNCHANGED <<members, admins>>

\* The same removal may have been asked for twice.
Remove(c, u, t) ==
    /\ <<c, u, t>> \in asked
    /\ u \in admins[c]
    /\ t \in members[c] \ {u}
    /\ members' = [members EXCEPT ![c] = @ \ {t}]
    /\ admins'  = [admins EXCEPT ![c] = @ \ {t}]
    /\ asked' \in {asked, asked \ {<<c, u, t>>}}

Next ==
    \/ \E c \in Chat, u \in User :
         \/ \E users \in SUBSET User : Found(c, u, users)
         \/ \E t \in User : Ask(c, u, t) \/ Remove(c, u, t)
    \/ Drop

Spec == Init /\ [][Next]_<<members, admins, asked>>

=============================================================================
