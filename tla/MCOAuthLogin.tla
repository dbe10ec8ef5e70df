---------------------------- MODULE MCOAuthLogin ----------------------------
(* The rows of the e2e suite and Google: two of them share the mock issuer. *)
EXTENDS OAuthLogin

CONSTANTS apple, google, oidc, e2e, plain, appleIss, googleIss, mockIss, c1, c2

MCIssuer == [p \in Provider |-> CASE p \in {apple, plain} -> appleIss [] p = google -> googleIss
                                  [] OTHER -> mockIss]

\* Client ids are unique within an issuer only.
MCClientID == [p \in Provider |-> IF p \in {e2e, plain} THEN c2 ELSE c1]

MCRank == [p \in Provider |-> CASE p = apple -> 1 [] p = plain -> 5 [] p = e2e -> 2
                                [] p = google -> 3 [] OTHER -> 4]
=============================================================================
