----------------------------- MODULE OAuthLogin -----------------------------
(***************************************************************************)
(* Signing in with an OIDC provider: the server's login and callback       *)
(* handlers, the identity provider as mockoidc plays it, and one browser   *)
(* whose tabs run logins side by side.                                     *)
(*                                                                         *)
(* The server keeps nothing between the two handlers: state and nonce of a *)
(* login travel in two cookies, which all tabs share, and every answer     *)
(* that sets or clears them takes effect when it arrives.  A login is a    *)
(* name for its random state, nonce and authorization code, and for the    *)
(* subject the provider makes up if the browser has none there.            *)
(*                                                                         *)
(* Signatures and discovery are not modelled: a token is what was signed.  *)
(***************************************************************************)
EXTENDS Naturals, FiniteSets

CONSTANTS
    Login,          \* logins begun: a bound
    Sends,          \* how often one callback URL is requested: a bound
    Provider,       \* the rows of oidc_providers
    Issuer,         \* [Provider -> issuer]: the row's link
    ClientID,       \* [Provider -> client id]: the credential in the config
    Rank,           \* [Provider -> Nat]: the order of the rows by name
    Configured,     \* the rows with a credential in the config
    FormPost,       \* the rows with response_mode = form_post
    PrivateKeyJWT,  \* the rows with client_secret_strategy = private_key_jwt
    AppleIssuer,    \* issuers that behave as Apple does
    GoogleIssuer,   \* the issuer whose access tokens tokeninfo knows
    Google,         \* the row with the slug "google"
    CrossSite,      \* issuers whose pages are of another site than the server's
    Https,          \* the server is reached over https
    NoLogin, NoProvider, NoToken

ASSUME RowsAreTyped ==
    /\ IsFiniteSet(Provider) /\ Sends \in Nat
    /\ Configured \subseteq Provider /\ FormPost \subseteq Provider
    /\ PrivateKeyJWT \subseteq Provider
    /\ Rank \in [Provider -> Nat]
    /\ NoProvider \notin Provider /\ NoLogin \notin Login

\* Names of rows are unique and the list is ordered by them.
ASSUME RowsAreOrdered == \A p, q \in Provider : Rank[p] = Rank[q] => p = q

\* Rows of one issuer are registered there under different client ids.
ASSUME ClientIDsDiffer ==
    \A p, q \in Configured : p # q /\ Issuer[p] = Issuer[q] => ClientID[p] # ClientID[q]

\* Access tokens name no row, so one row at most may use Google's issuer.
ASSUME GoogleIsOneRow == \A p \in Provider : Issuer[p] = GoogleIssuer => p = Google

VARIABLES
    cookies,    \* the browser's: state and nonce for the server, idp for the provider
    logins,     \* the logins
    callbacks,  \* the requests of the callback URLs
    codes,      \* the provider's codes not yet exchanged
    seen,       \* the subjects whose name the provider has given away
    sessions,   \* what callbacks have handed to the client
    disturbed   \* logins that something has happened to; kept for checking only

loginVars == <<cookies, logins, callbacks, codes, seen, sessions, disturbed>>

Token == [issuer : {Issuer[p] : p \in Provider}, audience : SUBSET {ClientID[p] : p \in Provider},
          subject : Login, nonce : Login, named : BOOLEAN]

ASSUME NoTokenIsNone == NoToken \notin Token

LoginRecord == [pc : {"none", "begun", "asking", "granted", "calling", "over"},
                provider : Provider \cup {NoProvider}, idp : Login \cup {NoLogin},
                subject : Login \cup {NoLogin}, named : BOOLEAN]

Callback == [pc : {"none", "sent", "answered", "over"}, heard : BOOLEAN, clears : BOOLEAN,
             state : Login \cup {NoLogin}, nonce : Login \cup {NoLogin},
             token : Token \cup {NoToken}]

Session == [login : Login, provider : Provider, token : Token, name : BOOLEAN]

NotSent == [pc |-> "none", heard |-> TRUE, clears |-> FALSE,
            state |-> NoLogin, nonce |-> NoLogin, token |-> NoToken]

LoginInit ==
    /\ cookies = [state |-> NoLogin, nonce |-> NoLogin, idp |-> NoLogin]
    /\ logins = [l \in Login |-> [pc |-> "none", provider |-> NoProvider, idp |-> NoLogin,
                                  subject |-> NoLogin, named |-> FALSE]]
    /\ callbacks = [r \in Login \X (1..Sends) |-> NotSent]
    /\ codes = {}
    /\ seen = {}
    /\ sessions = {}
    /\ disturbed = {}

UnderWay == {l \in Login : logins[l].pc \notin {"none", "over"}}

IsApple(p) == Issuer[p] \in AppleIssuer

-----------------------------------------------------------------------------
(* Authentication of requests: which row a bearer token is of.             *)

\* The list of rows is ordered by name.
FirstOf(S) == CHOOSE p \in S : \A q \in S : Rank[p] <= Rank[q]

\* The verifier of a row insists on the client id of its credential.
Verifies(p, t) == p \in Configured /\ ClientID[p] \in t.audience

\* Mutant: the issuer alone decides.
FirstOfIssuer(t) ==
    LET M == {p \in Provider : Issuer[p] = t.issuer}
    IN IF M = {} THEN NoProvider ELSE FirstOf(M)

\* The row a token is verified against: the only one of its issuer or, if
\* there are several, the first whose client id the token is for.
ProviderOf(t) ==
    LET M == {p \in Provider : Issuer[p] = t.issuer}
        S == IF Cardinality(M) = 1 THEN M ELSE {p \in M : Verifies(p, t)}
    IN IF S = {} THEN NoProvider ELSE FirstOf(S)

VerifyIDToken(t) == IF Verifies(ProviderOf(t), t) THEN ProviderOf(t) ELSE NoProvider

\* Google's tokeninfo is asked, whoever issued the token, and the answer is
\* taken to be of the row named "google": it names no other issuer.
VerifyAccessToken(t) == IF t.issuer = GoogleIssuer THEN Google ELSE NoProvider

\* The client sends the access token once the id token has expired.
Authenticate(t, expired) ==
    IF ~expired /\ VerifyIDToken(t) # NoProvider THEN VerifyIDToken(t) ELSE VerifyAccessToken(t)

-----------------------------------------------------------------------------
(* The browser and the server's login handler.                             *)

\* A row without credential is answered with 400.
BeginLogin(l, p) ==
    /\ logins[l].pc = "none"
    /\ p \in Configured
    /\ logins' = [logins EXCEPT ![l] = [@ EXCEPT !.pc = "begun", !.provider = p]]
    /\ disturbed' = IF UnderWay = {} THEN disturbed ELSE disturbed \cup UnderWay \cup {l}
    /\ UNCHANGED <<cookies, callbacks, codes, seen, sessions>>

\* The redirect arrives: its cookies replace those of an older login.
FollowLogin(l) ==
    /\ logins[l].pc = "begun"
    /\ cookies' = [cookies EXCEPT !.state = l, !.nonce = l]
    /\ logins' = [logins EXCEPT ![l] = [@ EXCEPT !.pc = "asking", !.idp = cookies.idp]]
    /\ UNCHANGED <<callbacks, codes, seen, sessions, disturbed>>

-----------------------------------------------------------------------------
(* The provider.  One like Apple knows a browser again by its own cookie   *)
(* and gives the name away once; the other makes up a subject each time    *)
(* and puts the name into the token.                                       *)

Grants(l, subject, named) ==
    /\ codes' = codes \cup {[code |-> l, subject |-> subject, nonce |-> l]}
    /\ logins' = [logins EXCEPT ![l] = [@ EXCEPT !.pc = "granted", !.subject = subject, !.named = named]]
    /\ UNCHANGED <<cookies, callbacks, sessions, disturbed>>

Authorize(l) ==
    /\ logins[l].pc = "asking" /\ ~IsApple(logins[l].provider)
    /\ Grants(l, l, FALSE)
    /\ UNCHANGED seen

AppleSubject(l) == IF logins[l].idp # NoLogin THEN logins[l].idp ELSE l

AppleAuthorize(l) ==
    /\ logins[l].pc = "asking" /\ IsApple(logins[l].provider)
    /\ Grants(l, AppleSubject(l), AppleSubject(l) \notin seen)
    /\ seen' = seen \cup {AppleSubject(l)}

\* The user declines: the callback answers 400 before it looks at a cookie.
Decline(l) ==
    /\ logins[l].pc = "asking"
    /\ logins' = [logins EXCEPT ![l].pc = "over"]
    /\ disturbed' = disturbed \cup {l}
    /\ UNCHANGED <<cookies, callbacks, codes, seen, sessions>>

\* One like Apple lets the browser post the code, the other redirects.
Method(p) == IF IsApple(p) THEN "POST" ELSE "GET"

\* Mutant: SameSite=Lax on https as well.
CarriesLaxCookies(p) == Method(p) = "GET" \/ Issuer[p] \notin CrossSite

\* SameSite is None on https and Lax otherwise; Lax cookies are not sent
\* with a POST that another site starts.
CarriesCookies(p) == Https \/ Method(p) = "GET" \/ Issuer[p] \notin CrossSite

Request(l) ==
    LET carried == CarriesCookies(logins[l].provider)
    IN [NotSent EXCEPT !.pc = "sent",
                       !.state = IF carried THEN cookies.state ELSE NoLogin,
                       !.nonce = IF carried THEN cookies.nonce ELSE NoLogin]

SendCallback(l) ==
    /\ logins[l].pc = "granted"
    /\ cookies' = IF IsApple(logins[l].provider) /\ logins[l].idp = NoLogin
                  THEN [cookies EXCEPT !.idp = l] ELSE cookies
    /\ callbacks' = [callbacks EXCEPT ![<<l, 1>>] = Request(l)]
    /\ logins' = [logins EXCEPT ![l].pc = "calling"]
    /\ UNCHANGED <<codes, seen, sessions, disturbed>>

\* The user asks for the callback's page again, and what was still to come
\* of the request before is not heard any more.
Reload(l, i) ==
    /\ i > 1 /\ callbacks[<<l, i>>].pc = "none" /\ callbacks[<<l, i - 1>>].pc # "none"
    /\ callbacks' = [callbacks EXCEPT ![<<l, i>>] = Request(l), ![<<l, i - 1>>].heard = FALSE]
    /\ disturbed' = IF l \in UnderWay THEN disturbed \cup {l} ELSE disturbed
    /\ UNCHANGED <<cookies, logins, codes, seen, sessions>>

-----------------------------------------------------------------------------
(* The server's callback handler.                                          *)

Answer(r, clears, token) ==
    callbacks' = [callbacks EXCEPT ![r] =
                     [@ EXCEPT !.pc = "answered", !.clears = clears, !.token = token]]

Accepts(r) == callbacks[r].state = r[1] /\ callbacks[r].nonce # NoLogin

AllowsCallbackMethod(p) == Method(p) = "GET" \/ p \in FormPost

\* Mutant: the cookies are cleared before they are looked at.
RefuseAndClear(r) ==
    /\ callbacks[r].pc = "sent"
    /\ ~Accepts(r)
    /\ Answer(r, TRUE, NoToken)
    /\ UNCHANGED <<cookies, logins, codes, seen, sessions, disturbed>>

\* State and cookies do not match: 400, and the cookies stay.
RefuseCallback(r) ==
    /\ callbacks[r].pc = "sent"
    /\ ~Accepts(r)
    /\ Answer(r, FALSE, NoToken)
    /\ UNCHANGED <<cookies, logins, codes, seen, sessions, disturbed>>

\* Mutant: the nonce does not reach the token.
TokenWithoutNonce(p, c) == [issuer |-> Issuer[p], audience |-> {ClientID[p]},
                            subject |-> c.subject, nonce |-> NoLogin, named |-> ~IsApple(p)]

\* What the token endpoint answers with for a code.
TokenFor(p, c) == [issuer |-> Issuer[p], audience |-> {ClientID[p]}, subject |-> c.subject,
                   nonce |-> c.nonce, named |-> ~IsApple(p)]

WantsSignedSecret(p) == IsApple(p)

SignsSecret(p) == p \in PrivateKeyJWT

\* The row is set up as its issuer wants it.
FitsIssuer(p) == AllowsCallbackMethod(p) /\ (WantsSignedSecret(p) => SignsSecret(p))

CodesOf(l) == {c \in codes : c.code = l}

\* Mutant: a code can be exchanged again.
ExchangeAndKeep(r) ==
    LET p == logins[r[1]].provider
    IN /\ callbacks[r].pc = "sent" /\ Accepts(r) /\ FitsIssuer(p)
       /\ \E c \in CodesOf(r[1]) :
             Answer(r, TRUE, IF c.nonce = callbacks[r].nonce THEN TokenFor(p, c) ELSE NoToken)
       /\ UNCHANGED <<cookies, logins, codes, seen, sessions, disturbed>>

\* The provider takes the code and the id token has the nonce of the cookie.
Exchange(r) ==
    LET p == logins[r[1]].provider
    IN /\ callbacks[r].pc = "sent" /\ Accepts(r) /\ FitsIssuer(p)
       /\ \E c \in CodesOf(r[1]) :
             /\ Answer(r, TRUE, IF c.nonce = callbacks[r].nonce THEN TokenFor(p, c) ELSE NoToken)
             /\ codes' = codes \ {c}
       /\ UNCHANGED <<cookies, logins, seen, sessions, disturbed>>

\* The callback is not for this row, or the provider does not know the code:
\* the cookies are cleared all the same.
FailCallback(r) ==
    LET p == logins[r[1]].provider
    IN /\ callbacks[r].pc = "sent" /\ Accepts(r)
       /\ ~FitsIssuer(p) \/ CodesOf(r[1]) = {}
       /\ Answer(r, TRUE, NoToken)
       /\ UNCHANGED <<cookies, logins, codes, seen, sessions, disturbed>>

\* The provider is not reached, or its answer is lost.
LoseExchange(r) ==
    /\ callbacks[r].pc = "sent" /\ Accepts(r)
    /\ Answer(r, TRUE, NoToken)
    /\ codes' \in {codes, codes \ CodesOf(r[1])}
    /\ disturbed' = disturbed \cup {r[1]}
    /\ UNCHANGED <<cookies, logins, seen, sessions>>

\* What the redirect to the client tells it, with a name if Apple gave one away.
Handed(r) == [login |-> r[1], provider |-> logins[r[1]].provider, token |-> callbacks[r].token,
              name |-> logins[r[1]].named]

Succeeds(r) == callbacks[r].heard /\ callbacks[r].token # NoToken

\* The answer arrives: whatever login the cookies are of by now, they go.
Land(r) ==
    /\ callbacks[r].pc = "answered"
    /\ callbacks' = [callbacks EXCEPT ![r].pc = "over"]
    /\ IF callbacks[r].heard
       THEN /\ cookies' = IF callbacks[r].clears
                          THEN [cookies EXCEPT !.state = NoLogin, !.nonce = NoLogin] ELSE cookies
            /\ logins' = [logins EXCEPT ![r[1]].pc = "over"]
       ELSE UNCHANGED <<cookies, logins>>
    /\ sessions' = IF Succeeds(r) THEN sessions \cup {Handed(r)} ELSE sessions
    /\ UNCHANGED <<codes, seen, disturbed>>

-----------------------------------------------------------------------------
(* Time: cookies live for ten minutes, codes for two.                      *)

ExpireCookies ==
    /\ cookies.state # NoLogin
    /\ cookies' = [cookies EXCEPT !.state = NoLogin, !.nonce = NoLogin]
    /\ disturbed' = disturbed \cup {cookies.state}
    /\ UNCHANGED <<logins, callbacks, codes, seen, sessions>>

ExpireCode(c) ==
    /\ codes' = codes \ {c}
    /\ disturbed' = disturbed \cup {c.code}
    /\ UNCHANGED <<cookies, logins, callbacks, seen, sessions>>

-----------------------------------------------------------------------------

\* All that happens to logins but the landing of a callback.
LoginStep ==
    \/ \E l \in Login :
         \/ \E p \in Provider : BeginLogin(l, p)
         \/ FollowLogin(l)
         \/ Authorize(l)
         \/ AppleAuthorize(l)
         \/ Decline(l)
         \/ SendCallback(l)
         \/ \E i \in 2..Sends : Reload(l, i)
    \/ \E r \in Login \X (1..Sends) :
         \/ RefuseCallback(r)
         \/ Exchange(r)
         \/ FailCallback(r)
         \/ LoseExchange(r)
    \/ ExpireCookies
    \/ \E c \in codes : ExpireCode(c)

LoginNext == LoginStep \/ \E r \in Login \X (1..Sends) : Land(r)

LoginSpec == LoginInit /\ [][LoginNext]_loginVars

-----------------------------------------------------------------------------
(* Properties.                                                             *)

LoginTypeOK ==
    /\ cookies \in [state : Login \cup {NoLogin}, nonce : Login \cup {NoLogin},
                    idp : Login \cup {NoLogin}]
    /\ logins \in [Login -> LoginRecord]
    /\ callbacks \in [Login \X (1..Sends) -> Callback]
    /\ codes \subseteq [code : Login, subject : Login, nonce : Login]
    /\ seen \subseteq Login
    /\ sessions \subseteq Session
    /\ disturbed \subseteq Login

\* A login with a well set up row ends with a session if no other login of the
\* browser overlaps with it, the user does not decline, its cookies and code do
\* not expire, the provider answers and the callback is not reloaded before its
\* answer is there, whatever reloads of older callbacks the browser sends
\* meanwhile (CompleteLogin: cookies are checked before they are cleared, and
\* travel with a cross-site POST).
UndisturbedLoginSucceeds ==
    \A l \in Login \ disturbed :
        logins[l].pc = "over" /\ FitsIssuer(logins[l].provider) => \E s \in sessions : s.login = l

\* However often a callback is requested, at most one answer holds a token, and
\* it is of the subject that the provider granted to this login.
OneTokenPerLogin ==
    \A l \in Login :
        LET T == {i \in 1..Sends : callbacks[<<l, i>>].token # NoToken}
        IN /\ Cardinality(T) <= 1
           /\ \A i \in T : callbacks[<<l, i>>].token.subject = logins[l].subject

\* A bearer token is taken as of the row it was obtained from, or of none,
\* also if rows share the issuer, and also if the client has switched to the
\* access token (AuthenticateRequest).
TokensResolve ==
    \A s \in sessions :
        /\ Authenticate(s.token, FALSE) = s.provider
        /\ Authenticate(s.token, TRUE) \in {s.provider, NoProvider}
=============================================================================
