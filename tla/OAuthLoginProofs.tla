-------------------------- MODULE OAuthLoginProofs --------------------------
(***************************************************************************)
(* Proofs about OAuthLogin, for any logins, requests and rows that keep    *)
(* its assumptions: at most one token per login, tokens that resolve to    *)
(* their row, and a session for every login that nothing happens to.       *)
(***************************************************************************)
EXTENDS OAuthLogin, TLAPS, FiniteSetTheorems

\* The login has been at its provider.
Past == {"granted", "calling", "over"}

\* A login has the configured row that it began with, before any callback.
RowsInv ==
    /\ \A l \in Login : logins[l].pc # "none" => logins[l].provider \in Configured
    /\ \A l \in Login, i \in 1..Sends : callbacks[<<l, i>>].pc # "none" => logins[l].pc # "none"

\* A code is of its login's grant, and none of the login's callbacks has a token yet.
CodesInv ==
    \A c \in codes :
        /\ logins[c.code].pc \in Past
        /\ c.subject = logins[c.code].subject /\ c.nonce = c.code
        /\ \A i \in 1..Sends : callbacks[<<c.code, i>>].token = NoToken

\* A token is what the login's code was exchanged for, and the only one.
TokensInv ==
    \A l \in Login, i \in 1..Sends :
        LET t == callbacks[<<l, i>>].token
        IN t # NoToken =>
             /\ logins[l].pc \in Past
             /\ t.issuer = Issuer[logins[l].provider]
             /\ t.audience = {ClientID[logins[l].provider]}
             /\ t.subject = logins[l].subject
             /\ \A j \in 1..Sends : callbacks[<<l, j>>].token # NoToken => j = i

SessionsInv ==
    \A s \in sessions :
        /\ s.provider \in Configured
        /\ s.token.issuer = Issuer[s.provider]
        /\ s.token.audience = {ClientID[s.provider]}

LoginInv == LoginTypeOK /\ RowsInv /\ CodesInv /\ TokensInv /\ SessionsInv

-----------------------------------------------------------------------------
(* Types.                                                                  *)

\* Records of requests keep their type.
LEMMA CallbackFields ==
    ASSUME LoginTypeOK, NEW r \in Login \X (1..Sends)
    PROVE  /\ callbacks[r] \in Callback
           /\ NotSent \in Callback
           /\ \A l \in Login : Request(l) \in Callback
           /\ [callbacks[r] EXCEPT !.heard = FALSE] \in Callback
           /\ [callbacks[r] EXCEPT !.pc = "over"] \in Callback
           /\ \A clears \in BOOLEAN, token \in Token \cup {NoToken} :
                [callbacks[r] EXCEPT !.pc = "answered", !.clears = clears, !.token = token] \in Callback
<1>1. NotSent \in Callback
  BY DEF NotSent, Callback
<1>2. \A l \in Login : Request(l) \in Callback
  BY <1>1 DEF Request, NotSent, Callback, LoginTypeOK
<1> QED
  BY <1>1, <1>2 DEF LoginTypeOK, Callback

\* Records of logins do.
LEMMA LoginFields ==
    ASSUME LoginTypeOK, NEW l \in Login, NEW pc \in {"begun", "asking", "granted", "calling", "over"}
    PROVE  /\ [logins[l] EXCEPT !.pc = pc] \in LoginRecord
           /\ \A p \in Provider : [logins[l] EXCEPT !.pc = pc, !.provider = p] \in LoginRecord
           /\ \A k \in Login \cup {NoLogin} : [logins[l] EXCEPT !.pc = pc, !.idp = k] \in LoginRecord
           /\ \A k \in Login, named \in BOOLEAN :
                [logins[l] EXCEPT !.pc = pc, !.subject = k, !.named = named] \in LoginRecord
<1>1. logins[l] \in LoginRecord
  BY DEF LoginTypeOK
<1> QED
  BY <1>1 DEF LoginRecord

\* The token endpoint answers with a token.
LEMMA TokenForTyped ==
    ASSUME RowsAreTyped, NEW p \in Provider,
           NEW c \in [code : Login, subject : Login, nonce : Login]
    PROVE  TokenFor(p, c) \in Token
BY DEF TokenFor, Token

\* An answer keeps the requests typed.
LEMMA AnswerTyped ==
    ASSUME LoginTypeOK, NEW r \in Login \X (1..Sends), NEW clears \in BOOLEAN,
           NEW token \in Token \cup {NoToken}, Answer(r, clears, token)
    PROVE  callbacks' \in [Login \X (1..Sends) -> Callback]
BY CallbackFields DEF Answer, LoginTypeOK

LEMMA GrantTyped ==
    ASSUME LoginTypeOK, NEW l \in Login, NEW subject \in Login, NEW named \in BOOLEAN,
           Grants(l, subject, named), seen' \subseteq Login
    PROVE  LoginTypeOK'
<1>1. logins' \in [Login -> LoginRecord]
  <2>1. [logins[l] EXCEPT !.pc = "granted", !.subject = subject, !.named = named] \in LoginRecord
    BY LoginFields
  <2> QED
    BY <2>1 DEF Grants, LoginTypeOK
<1>2. codes' \subseteq [code : Login, subject : Login, nonce : Login]
  BY DEF Grants, LoginTypeOK
<1> QED
  BY <1>1, <1>2 DEF Grants, LoginTypeOK

LEMMA TypesInit ==
    ASSUME LoginInit
    PROVE  LoginTypeOK
<1>1. NotSent \in Callback
  BY DEF NotSent, Callback
<1> QED
  BY <1>1 DEF LoginInit, LoginTypeOK, LoginRecord

\* Every step keeps the types; an exchange needs that the code's login has a row.
LEMMA TypesStep ==
    ASSUME RowsAreTyped, LoginInv, [LoginNext]_loginVars
    PROVE  LoginTypeOK'
<1> USE DEF LoginInv
<1>1. ASSUME NEW l \in Login, NEW p \in Provider, BeginLogin(l, p) PROVE LoginTypeOK'
  BY <1>1, LoginFields DEF BeginLogin, LoginTypeOK, UnderWay
<1>2. ASSUME NEW l \in Login, FollowLogin(l) PROVE LoginTypeOK'
  BY <1>2, LoginFields DEF FollowLogin, LoginTypeOK
<1>3. ASSUME NEW l \in Login, Authorize(l) PROVE LoginTypeOK'
  BY <1>3, GrantTyped DEF Authorize, LoginTypeOK
<1>4. ASSUME NEW l \in Login, AppleAuthorize(l) PROVE LoginTypeOK'
  <2>1. AppleSubject(l) \in Login
    BY DEF AppleSubject, LoginTypeOK, LoginRecord
  <2>2. (AppleSubject(l) \notin seen) \in BOOLEAN
    OBVIOUS
  <2>3. seen' \subseteq Login /\ Grants(l, AppleSubject(l), AppleSubject(l) \notin seen)
    BY <1>4, <2>1 DEF AppleAuthorize, LoginTypeOK
  <2> QED
    BY <1>4, <2>1, <2>2, <2>3, GrantTyped
<1>5. ASSUME NEW l \in Login, Decline(l) PROVE LoginTypeOK'
  BY <1>5 DEF Decline, LoginTypeOK, LoginRecord
<1>6. ASSUME NEW l \in Login, SendCallback(l) PROVE LoginTypeOK'
  <2>1. callbacks' \in [Login \X (1..Sends) -> Callback]
    BY <1>6, CallbackFields DEF SendCallback, LoginTypeOK
  <2>2. cookies' \in [state : Login \cup {NoLogin}, nonce : Login \cup {NoLogin},
                      idp : Login \cup {NoLogin}]
    BY <1>6 DEF SendCallback, LoginTypeOK
  <2>3. logins' \in [Login -> LoginRecord]
    BY <1>6 DEF SendCallback, LoginTypeOK, LoginRecord
  <2> QED
    BY <1>6, <2>1, <2>2, <2>3 DEF SendCallback, LoginTypeOK
<1>7. ASSUME NEW l \in Login, NEW i \in 2..Sends, Reload(l, i) PROVE LoginTypeOK'
  <2>1. /\ i \in 1..Sends /\ i - 1 \in 1..Sends
        /\ <<l, i>> \in Login \X (1..Sends) /\ <<l, i - 1>> \in Login \X (1..Sends)
        /\ <<l, i - 1>> # <<l, i>>
    BY RowsAreTyped
  <2>2. callbacks' = [callbacks EXCEPT ![<<l, i>>] = Request(l),
                                       ![<<l, i - 1>>] = [callbacks[<<l, i - 1>>] EXCEPT !.heard = FALSE]]
    BY <1>7, <2>1 DEF Reload, LoginTypeOK
  <2>3. callbacks' \in [Login \X (1..Sends) -> Callback]
    BY <2>1, <2>2, CallbackFields DEF LoginTypeOK
  <2> QED
    BY <1>7, <2>3 DEF Reload, LoginTypeOK
<1>8. ASSUME NEW r \in Login \X (1..Sends), RefuseCallback(r) PROVE LoginTypeOK'
  BY <1>8, AnswerTyped DEF RefuseCallback, LoginTypeOK
<1>9. ASSUME NEW r \in Login \X (1..Sends), Exchange(r) PROVE LoginTypeOK'
  <2>1. PICK c \in CodesOf(r[1]) :
           /\ Answer(r, TRUE, IF c.nonce = callbacks[r].nonce
                              THEN TokenFor(logins[r[1]].provider, c) ELSE NoToken)
           /\ codes' = codes \ {c}
    BY <1>9 DEF Exchange
  <2>2. c \in codes /\ c.code = r[1]
    BY <2>1 DEF CodesOf
  <2>3. logins[r[1]].provider \in Provider
    BY <2>2, RowsAreTyped DEF CodesInv, RowsInv, Past
  <2>4. (IF c.nonce = callbacks[r].nonce
         THEN TokenFor(logins[r[1]].provider, c) ELSE NoToken) \in Token \cup {NoToken}
    BY <2>2, <2>3, TokenForTyped DEF LoginTypeOK
  <2>5. callbacks' \in [Login \X (1..Sends) -> Callback]
    BY <2>1, <2>4, AnswerTyped
  <2> QED
    BY <1>9, <2>1, <2>5 DEF Exchange, LoginTypeOK
<1>10. ASSUME NEW r \in Login \X (1..Sends), FailCallback(r) PROVE LoginTypeOK'
  BY <1>10, AnswerTyped DEF FailCallback, LoginTypeOK
<1>11. ASSUME NEW r \in Login \X (1..Sends), LoseExchange(r) PROVE LoginTypeOK'
  BY <1>11, AnswerTyped DEF LoseExchange, LoginTypeOK
<1>12. CASE ExpireCookies
  BY <1>12 DEF ExpireCookies, LoginTypeOK
<1>13. ASSUME NEW c \in codes, ExpireCode(c) PROVE LoginTypeOK'
  BY <1>13 DEF ExpireCode, LoginTypeOK
<1>14. ASSUME NEW r \in Login \X (1..Sends), Land(r) PROVE LoginTypeOK'
  <2>1. callbacks' \in [Login \X (1..Sends) -> Callback]
    BY <1>14, CallbackFields DEF Land, LoginTypeOK
  <2>2. /\ cookies' \in [state : Login \cup {NoLogin}, nonce : Login \cup {NoLogin},
                         idp : Login \cup {NoLogin}]
        /\ logins' \in [Login -> LoginRecord]
    <3>1. CASE callbacks[r].heard
      <4>1. /\ cookies' \in {cookies, [cookies EXCEPT !.state = NoLogin, !.nonce = NoLogin]}
            /\ logins' = [logins EXCEPT ![r[1]] = [logins[r[1]] EXCEPT !.pc = "over"]]
        BY <1>14, <3>1 DEF Land
      <4>2. r[1] \in Login
        OBVIOUS
      <4>3. logins' \in [Login -> LoginRecord]
        BY <4>1, <4>2, LoginFields DEF LoginTypeOK
      <4> QED
        BY <4>1, <4>3 DEF LoginTypeOK
    <3>2. CASE ~callbacks[r].heard
      BY <1>14, <3>2 DEF Land, LoginTypeOK
    <3> QED
      BY <3>1, <3>2
  <2>3. ASSUME Succeeds(r) PROVE Handed(r) \in Session
    <3>1. callbacks[r].token \in Token
      BY <2>3 DEF Succeeds, LoginTypeOK, Callback
    <3>2. callbacks[<<r[1], r[2]>>].token # NoToken /\ r[1] \in Login /\ r[2] \in 1..Sends
      BY <2>3 DEF Succeeds
    <3>3. logins[r[1]].pc \in Past
      BY <3>2 DEF TokensInv
    <3>4. logins[r[1]].provider \in Provider /\ logins[r[1]].named \in BOOLEAN
      BY <3>2, <3>3, RowsAreTyped DEF RowsInv, Past, LoginTypeOK, LoginRecord
    <3> QED
      BY <3>1, <3>2, <3>4 DEF Handed, Session
  <2> QED
    BY <1>14, <2>1, <2>2, <2>3 DEF Land, LoginTypeOK
<1>15. CASE UNCHANGED loginVars
  BY <1>15 DEF loginVars, LoginTypeOK
<1> QED
  BY <1>1, <1>2, <1>3, <1>4, <1>5, <1>6, <1>7, <1>8, <1>9, <1>10, <1>11, <1>12, <1>13, <1>14, <1>15
     DEF LoginNext, LoginStep

-----------------------------------------------------------------------------
(* Codes, tokens and sessions.                                             *)

\* No token and no code appears, callbacks are of logins that have begun, and a login
\* that has begun keeps its row and, once it has been at the provider, its subject.
Quiet ==
    /\ codes' \subseteq codes
    /\ \A l \in Login, i \in 1..Sends :
         /\ callbacks'[<<l, i>>].token \in {callbacks[<<l, i>>].token, NoToken}
         /\ callbacks'[<<l, i>>].pc # "none" => logins'[l].pc # "none"
    /\ \A l \in Login :
         /\ logins[l].pc \in Past => logins'[l].pc \in Past /\ logins'[l].subject = logins[l].subject
         /\ \/ logins'[l].provider = logins[l].provider /\ (logins[l].pc = "none" => logins'[l].pc = "none")
            \/ logins'[l].provider \in Configured /\ logins[l].pc = "none"

\* Such a step disturbs neither codes nor tokens.
LEMMA QuietSteps ==
    ASSUME LoginInv, Quiet
    PROVE  RowsInv' /\ CodesInv' /\ TokensInv'
<1> USE DEF LoginInv
<1>1. RowsInv'
  BY DEF RowsInv, Quiet
<1>2. CodesInv'
  <2> SUFFICES ASSUME NEW c \in codes'
               PROVE  /\ logins'[c.code].pc \in Past
                      /\ c.subject = logins'[c.code].subject /\ c.nonce = c.code
                      /\ \A i \in 1..Sends : callbacks'[<<c.code, i>>].token = NoToken
    BY DEF CodesInv
  <2>1. c \in codes /\ c.code \in Login
    BY DEF Quiet, LoginTypeOK
  <2> QED
    BY <2>1 DEF Quiet, CodesInv
<1>3. TokensInv'
  <2> SUFFICES ASSUME NEW l \in Login, NEW i \in 1..Sends, callbacks'[<<l, i>>].token # NoToken
               PROVE  LET t == callbacks'[<<l, i>>].token
                      IN /\ logins'[l].pc \in Past
                         /\ t.issuer = Issuer[logins'[l].provider]
                         /\ t.audience = {ClientID[logins'[l].provider]}
                         /\ t.subject = logins'[l].subject
                         /\ \A j \in 1..Sends : callbacks'[<<l, j>>].token # NoToken => j = i
    BY DEF TokensInv
  <2>1. callbacks'[<<l, i>>].token = callbacks[<<l, i>>].token
    BY DEF Quiet
  <2>2. logins[l].pc \in Past
    BY <2>1 DEF TokensInv
  <2>3. /\ logins'[l].pc \in Past /\ logins'[l].subject = logins[l].subject
        /\ logins'[l].provider = logins[l].provider
    BY <2>2 DEF Quiet, Past
  <2>4. \A j \in 1..Sends : callbacks'[<<l, j>>].token # NoToken => callbacks[<<l, j>>].token # NoToken
    BY DEF Quiet
  <2> QED
    BY <2>1, <2>3, <2>4 DEF TokensInv
<1> QED
  BY <1>1, <1>2, <1>3

\* An answer without a token is such a step, if the rest stays.
LEMMA AnswerQuiet ==
    ASSUME LoginTypeOK, NEW r \in Login \X (1..Sends), NEW clears \in BOOLEAN,
           Answer(r, clears, NoToken)
    PROVE  \A l \in Login, i \in 1..Sends :
             /\ callbacks'[<<l, i>>].token \in {callbacks[<<l, i>>].token, NoToken}
             /\ callbacks'[<<l, i>>].pc # "none" => callbacks[<<l, i>>].pc # "none" \/ <<l, i>> = r
BY DEF Answer, LoginTypeOK, Callback

\* All steps but a grant, an exchange and a landing are quiet, and make no session.
LEMMA QuietActions ==
    ASSUME RowsAreTyped, LoginInv, NEW l \in Login,
           \/ \E p \in Provider : BeginLogin(l, p)
           \/ FollowLogin(l) \/ Decline(l) \/ SendCallback(l)
           \/ \E i \in 2..Sends : Reload(l, i)
           \/ ExpireCookies
           \/ \E c \in codes : ExpireCode(c)
    PROVE  Quiet /\ sessions' = sessions
<1> USE DEF LoginInv
<1>1. ASSUME NEW p \in Provider, BeginLogin(l, p) PROVE Quiet /\ sessions' = sessions
  BY <1>1 DEF BeginLogin, Quiet, RowsInv, LoginTypeOK, LoginRecord, Past
<1>2. CASE FollowLogin(l)
  BY <1>2 DEF FollowLogin, Quiet, RowsInv, LoginTypeOK, LoginRecord, Past
<1>3. CASE Decline(l)
  BY <1>3 DEF Decline, Quiet, RowsInv, LoginTypeOK, LoginRecord, Past
<1>4. CASE SendCallback(l)
  <2>1. Request(l).token = NoToken
    BY DEF Request, NotSent
  <2>2. \A k \in Login, i \in 1..Sends :
          /\ callbacks'[<<k, i>>].token \in {callbacks[<<k, i>>].token, NoToken}
          /\ callbacks'[<<k, i>>].pc # "none" => callbacks[<<k, i>>].pc # "none" \/ k = l
    BY <1>4, <2>1 DEF SendCallback, LoginTypeOK
  <2>3. \A k \in Login :
          /\ logins'[k].subject = logins[k].subject /\ logins'[k].provider = logins[k].provider
          /\ logins[k].pc \in Past => logins'[k].pc \in Past
          /\ logins[k].pc = "none" <=> logins'[k].pc = "none"
    BY <1>4 DEF SendCallback, LoginTypeOK, LoginRecord, Past
  <2> QED
    BY <1>4, <2>2, <2>3 DEF SendCallback, Quiet, RowsInv
<1>5. ASSUME NEW i \in 2..Sends, Reload(l, i) PROVE Quiet /\ sessions' = sessions
  <2>1. Request(l).token = NoToken
    BY DEF Request, NotSent
  <2>2. /\ i \in 1..Sends /\ i - 1 \in 1..Sends
        /\ <<l, i>> \in Login \X (1..Sends) /\ <<l, i - 1>> \in Login \X (1..Sends)
        /\ <<l, i - 1>> # <<l, i>>
    BY RowsAreTyped
  <2>3. callbacks' = [callbacks EXCEPT ![<<l, i>>] = Request(l),
                                       ![<<l, i - 1>>] = [callbacks[<<l, i - 1>>] EXCEPT !.heard = FALSE]]
    BY <1>5, <2>2 DEF Reload, LoginTypeOK
  <2>4. [callbacks[<<l, i - 1>>] EXCEPT !.heard = FALSE].token = callbacks[<<l, i - 1>>].token
    BY <2>2 DEF LoginTypeOK, Callback
  <2>5. \A k \in Login, j \in 1..Sends :
          /\ callbacks'[<<k, j>>].token \in {callbacks[<<k, j>>].token, NoToken}
          /\ callbacks'[<<k, j>>].pc # "none" => callbacks[<<k, j>>].pc # "none" \/ k = l
    BY <2>1, <2>2, <2>3, <2>4 DEF LoginTypeOK
  <2>6. logins[l].pc # "none"
    BY <1>5, <2>2 DEF Reload, RowsInv
  <2> QED
    BY <1>5, <2>5, <2>6 DEF Reload, Quiet, RowsInv
<1>6. CASE ExpireCookies
  BY <1>6 DEF ExpireCookies, Quiet, RowsInv
<1>7. ASSUME NEW c \in codes, ExpireCode(c) PROVE Quiet /\ sessions' = sessions
  BY <1>7 DEF ExpireCode, Quiet, RowsInv
<1> QED
  BY <1>1, <1>2, <1>3, <1>4, <1>5, <1>6, <1>7

\* A grant adds the login's only code: before it the login had no token.
LEMMA GrantKeeps ==
    ASSUME LoginInv, NEW l \in Login, NEW subject \in Login, NEW named \in BOOLEAN,
           logins[l].pc = "asking", Grants(l, subject, named)
    PROVE  RowsInv' /\ CodesInv' /\ TokensInv' /\ SessionsInv'
<1> USE DEF LoginInv
<1> DEFINE c0 == [code |-> l, subject |-> subject, nonce |-> l]
<1>1. /\ logins'[l].pc = "granted" /\ logins'[l].subject = subject
      /\ logins'[l].provider = logins[l].provider
      /\ \A k \in Login : k # l => logins'[k] = logins[k]
      /\ codes' = codes \cup {c0} /\ callbacks' = callbacks /\ sessions' = sessions
  BY DEF Grants, LoginTypeOK, LoginRecord
<1>2. \A i \in 1..Sends : callbacks[<<l, i>>].token = NoToken
  BY DEF TokensInv, Past
<1>3. RowsInv'
  BY <1>1 DEF RowsInv
<1>4. CodesInv'
  <2> SUFFICES ASSUME NEW c \in codes'
               PROVE  /\ logins'[c.code].pc \in Past
                      /\ c.subject = logins'[c.code].subject /\ c.nonce = c.code
                      /\ \A i \in 1..Sends : callbacks'[<<c.code, i>>].token = NoToken
    BY DEF CodesInv
  <2>1. CASE c = c0
    BY <1>1, <1>2, <2>1 DEF Past
  <2>2. CASE c \in codes
    <3>1. c.code \in Login /\ c.code # l
      BY <2>2 DEF CodesInv, Past, LoginTypeOK
    <3> QED
      BY <1>1, <2>2, <3>1 DEF CodesInv
  <2> QED
    BY <1>1, <2>1, <2>2
<1>5. TokensInv'
  <2>1. \A k \in Login, i \in 1..Sends :
          callbacks'[<<k, i>>].token # NoToken => k # l /\ logins'[k] = logins[k]
    BY <1>1, <1>2
  <2> SUFFICES ASSUME NEW k \in Login, NEW i \in 1..Sends, callbacks'[<<k, i>>].token # NoToken
               PROVE  LET t == callbacks'[<<k, i>>].token
                      IN /\ logins'[k].pc \in Past
                         /\ t.issuer = Issuer[logins'[k].provider]
                         /\ t.audience = {ClientID[logins'[k].provider]}
                         /\ t.subject = logins'[k].subject
                         /\ \A j \in 1..Sends : callbacks'[<<k, j>>].token # NoToken => j = i
    BY DEF TokensInv
  <2>2. logins'[k] = logins[k] /\ callbacks' = callbacks
    BY <1>1, <2>1
  <2> QED
    BY <2>2 DEF TokensInv
<1>6. SessionsInv'
  BY <1>1 DEF SessionsInv
<1> QED
  BY <1>3, <1>4, <1>5, <1>6

\* An exchange takes the login's code, so that no other callback gets a token for it.
LEMMA ExchangeKeeps ==
    ASSUME RowsAreTyped, LoginInv, NEW r \in Login \X (1..Sends), Exchange(r)
    PROVE  RowsInv' /\ CodesInv' /\ TokensInv' /\ SessionsInv'
<1> USE DEF LoginInv
<1> DEFINE l == r[1]
           p == logins[l].provider
<1>1. PICK c \in CodesOf(l) :
         /\ Answer(r, TRUE, IF c.nonce = callbacks[r].nonce THEN TokenFor(p, c) ELSE NoToken)
         /\ codes' = codes \ {c}
  BY DEF Exchange
<1>2. /\ c \in codes /\ c.code = l /\ l \in Login /\ r[2] \in 1..Sends /\ r = <<l, r[2]>>
      /\ logins' = logins /\ sessions' = sessions
  BY <1>1 DEF CodesOf, Exchange
<1>3. /\ logins[l].pc \in Past /\ c.subject = logins[l].subject
      /\ \A i \in 1..Sends : callbacks[<<l, i>>].token = NoToken
  BY <1>2 DEF CodesInv
<1>4. /\ callbacks'[r].token = (IF c.nonce = callbacks[r].nonce THEN TokenFor(p, c) ELSE NoToken)
      /\ \A k \in Login, i \in 1..Sends :
           <<k, i>> # r => callbacks'[<<k, i>>].token = callbacks[<<k, i>>].token
  BY <1>1 DEF Answer, LoginTypeOK, Callback
<1>5. CodesInv'
  <2> SUFFICES ASSUME NEW d \in codes'
               PROVE  /\ logins'[d.code].pc \in Past
                      /\ d.subject = logins'[d.code].subject /\ d.nonce = d.code
                      /\ \A i \in 1..Sends : callbacks'[<<d.code, i>>].token = NoToken
    BY DEF CodesInv
  <2>1. d \in codes /\ d # c /\ d.code \in Login
    BY <1>1 DEF LoginTypeOK
  <2>2. d.code # l
    <3>1. d = [code |-> d.code, subject |-> d.subject, nonce |-> d.nonce]
          /\ c = [code |-> c.code, subject |-> c.subject, nonce |-> c.nonce]
      BY <1>2, <2>1 DEF LoginTypeOK
    <3>2. d.code = l => d.subject = c.subject /\ d.nonce = c.nonce
      BY <1>2, <2>1 DEF CodesInv
    <3> QED
      BY <1>2, <2>1, <3>1, <3>2
  <2> QED
    BY <1>2, <1>4, <2>1, <2>2 DEF CodesInv
<1>6. TokensInv'
  <2> SUFFICES ASSUME NEW k \in Login, NEW i \in 1..Sends, callbacks'[<<k, i>>].token # NoToken
               PROVE  LET t == callbacks'[<<k, i>>].token
                      IN /\ logins[k].pc \in Past
                         /\ t.issuer = Issuer[logins[k].provider]
                         /\ t.audience = {ClientID[logins[k].provider]}
                         /\ t.subject = logins[k].subject
                         /\ \A j \in 1..Sends : callbacks'[<<k, j>>].token # NoToken => j = i
    BY <1>2 DEF TokensInv
  <2>1. CASE k = l
    <3>1. \A j \in 1..Sends : callbacks'[<<k, j>>].token # NoToken => j = r[2]
      BY <1>2, <1>3, <1>4, <2>1
    <3>2. <<k, i>> = r /\ callbacks'[<<k, i>>].token = TokenFor(p, c)
      BY <1>2, <1>4, <2>1, <3>1
    <3> QED
      BY <1>3, <2>1, <3>1, <3>2 DEF TokenFor
  <2>2. CASE k # l
    BY <1>2, <1>4, <2>2 DEF TokensInv
  <2> QED
    BY <2>1, <2>2
<1>7. RowsInv' /\ SessionsInv'
  <2>1. \A k \in Login, i \in 1..Sends : callbacks'[<<k, i>>].pc # "none" => logins[k].pc # "none"
    BY <1>1, <1>3 DEF Answer, RowsInv, Past, LoginTypeOK, Callback
  <2> QED
    BY <1>2, <2>1 DEF RowsInv, SessionsInv
<1> QED
  BY <1>5, <1>6, <1>7

\* Refused and failed callbacks are quiet.
LEMMA QuietCallbacks ==
    ASSUME LoginInv, NEW r \in Login \X (1..Sends),
           RefuseCallback(r) \/ FailCallback(r) \/ LoseExchange(r)
    PROVE  Quiet /\ sessions' = sessions
<1> USE DEF LoginInv
<1>1. /\ callbacks[r].pc = "sent" /\ codes' \subseteq codes
      /\ logins' = logins /\ sessions' = sessions
      /\ \E clears \in BOOLEAN : Answer(r, clears, NoToken)
  BY DEF RefuseCallback, FailCallback, LoseExchange
<1>2. logins[r[1]].pc # "none"
  BY <1>1 DEF RowsInv
<1> QED
  BY <1>1, <1>2, AnswerQuiet DEF Quiet, RowsInv

\* A landing ends a login that has begun.
LEMMA LandQuiet ==
    ASSUME LoginInv, NEW r \in Login \X (1..Sends), Land(r)
    PROVE  Quiet
<1> USE DEF LoginInv
<1>1. logins[r[1]].pc # "none" /\ r[1] \in Login
  BY DEF Land, RowsInv
<1>2. \A k \in Login, i \in 1..Sends :
        /\ callbacks'[<<k, i>>].token = callbacks[<<k, i>>].token
        /\ callbacks'[<<k, i>>].pc # "none" => callbacks[<<k, i>>].pc # "none"
  BY DEF Land, LoginTypeOK, Callback
<1>3. \A k \in Login :
        /\ logins'[k].provider = logins[k].provider /\ logins'[k].subject = logins[k].subject
        /\ logins'[k].pc \in {logins[k].pc, "over"}
        /\ logins[k].pc = "none" => logins'[k].pc = "none"
        /\ logins'[k].pc = "none" => logins[k].pc = "none"
  BY <1>1 DEF Land, LoginTypeOK, LoginRecord
<1> QED
  BY <1>2, <1>3 DEF Land, Quiet, RowsInv, Past

\* The session that it makes is of the row of its token.
LEMMA LandSessions ==
    ASSUME LoginInv, NEW r \in Login \X (1..Sends), Land(r)
    PROVE  SessionsInv'
<1> USE DEF LoginInv
<1>1. ASSUME Succeeds(r)
      PROVE  /\ Handed(r).provider \in Configured
             /\ Handed(r).token.issuer = Issuer[Handed(r).provider]
             /\ Handed(r).token.audience = {ClientID[Handed(r).provider]}
  <2>1. callbacks[<<r[1], r[2]>>].token # NoToken /\ r[1] \in Login /\ r[2] \in 1..Sends
    BY <1>1 DEF Succeeds
  <2>2. /\ logins[r[1]].pc \in Past
        /\ callbacks[r].token.issuer = Issuer[logins[r[1]].provider]
        /\ callbacks[r].token.audience = {ClientID[logins[r[1]].provider]}
    BY <2>1 DEF TokensInv
  <2>3. logins[r[1]].provider \in Configured
    BY <2>1, <2>2 DEF RowsInv, Past
  <2> QED
    BY <2>2, <2>3 DEF Handed
<1> QED
  BY <1>1 DEF Land, SessionsInv

-----------------------------------------------------------------------------
(* The theorems.                                                           *)

LEMMA InvStep ==
    ASSUME RowsAreTyped, LoginInv, [LoginNext]_loginVars
    PROVE  LoginInv'
<1>1. LoginTypeOK'
  BY TypesStep
<1> DEFINE Rest == RowsInv' /\ CodesInv' /\ TokensInv' /\ SessionsInv'
<1>2. ASSUME Quiet, sessions' = sessions PROVE Rest
  BY <1>2, QuietSteps DEF SessionsInv, LoginInv
<1>3. ASSUME NEW l \in Login,
             \/ \E p \in Provider : BeginLogin(l, p)
             \/ FollowLogin(l) \/ Decline(l) \/ SendCallback(l)
             \/ \E i \in 2..Sends : Reload(l, i)
      PROVE  Rest
  BY <1>2, <1>3, QuietActions
<1>4. ASSUME NEW l \in Login, Authorize(l) PROVE Rest
  BY <1>4, GrantKeeps DEF Authorize
<1>5. ASSUME NEW l \in Login, AppleAuthorize(l) PROVE Rest
  <2>1. AppleSubject(l) \in Login
    BY DEF AppleSubject, LoginInv, LoginTypeOK, LoginRecord
  <2>2. (AppleSubject(l) \notin seen) \in BOOLEAN
    OBVIOUS
  <2>3. logins[l].pc = "asking" /\ Grants(l, AppleSubject(l), AppleSubject(l) \notin seen)
    BY <1>5 DEF AppleAuthorize
  <2> QED
    BY <2>1, <2>2, <2>3, GrantKeeps
<1>6. ASSUME NEW r \in Login \X (1..Sends), RefuseCallback(r) \/ FailCallback(r) \/ LoseExchange(r)
      PROVE  Rest
  BY <1>2, <1>6, QuietCallbacks
<1>7. ASSUME NEW r \in Login \X (1..Sends), Exchange(r) PROVE Rest
  BY <1>7, ExchangeKeeps
<1>8. ASSUME NEW r \in Login \X (1..Sends), Land(r) PROVE Rest
  BY <1>8, LandQuiet, LandSessions, QuietSteps
<1>9. ASSUME ExpireCookies \/ \E c \in codes : ExpireCode(c) PROVE Rest
  <2>1. Quiet /\ sessions' = sessions
    BY <1>9 DEF ExpireCookies, ExpireCode, Quiet, LoginInv, RowsInv
  <2> QED
    BY <1>2, <2>1
<1>10. ASSUME UNCHANGED loginVars PROVE Rest
  <2>1. /\ codes' = codes /\ callbacks' = callbacks /\ logins' = logins /\ sessions' = sessions
    BY <1>10 DEF loginVars
  <2>2. Quiet
    BY <2>1 DEF Quiet, LoginInv, RowsInv
  <2> QED
    BY <1>2, <2>1, <2>2
<1>11. ASSUME LoginStep PROVE Rest
  BY <1>3, <1>4, <1>5, <1>6, <1>7, <1>9, <1>11 DEF LoginStep
<1>12. Rest
  BY <1>8, <1>10, <1>11 DEF LoginNext
<1> QED
  BY <1>1, <1>12 DEF LoginInv

LEMMA InvInit ==
    ASSUME LoginInit
    PROVE  LoginInv
BY TypesInit DEF LoginInit, LoginInv, RowsInv, CodesInv, TokensInv, SessionsInv, NotSent

LEMMA InvAlways == LoginSpec => []LoginInv
<1>1. LoginInit => LoginInv
  BY InvInit
<1>2. LoginInv /\ [LoginNext]_loginVars => LoginInv'
  BY InvStep, RowsAreTyped
<1> QED
  BY <1>1, <1>2, PTL DEF LoginSpec

\* The variables have their types, at any moment of any logins.
THEOREM LoginTypesCorrect == LoginSpec => []LoginTypeOK
BY InvAlways, PTL DEF LoginInv

LEMMA AtMostOne ==
    ASSUME NEW T, \A i, j \in T : i = j
    PROVE  Cardinality(T) <= 1
<1>1. CASE T = {}
  BY <1>1, FS_EmptySet
<1>2. ASSUME NEW i \in T PROVE Cardinality(T) = 1
  <2>1. T = {i}
    OBVIOUS
  <2> QED
    BY <2>1, FS_Singleton
<1> QED
  BY <1>1, <1>2

\* However often callback URLs are requested, and whatever cookies they meet, a
\* login's code gives at most one token, of the subject granted to that login.
THEOREM OneTokenEach == LoginSpec => []OneTokenPerLogin
<1>1. LoginInv => OneTokenPerLogin
  <2> SUFFICES ASSUME LoginInv, NEW l \in Login
               PROVE  LET T == {i \in 1..Sends : callbacks[<<l, i>>].token # NoToken}
                      IN /\ Cardinality(T) <= 1
                         /\ \A i \in T : callbacks[<<l, i>>].token.subject = logins[l].subject
    BY DEF OneTokenPerLogin
  <2> DEFINE T == {i \in 1..Sends : callbacks[<<l, i>>].token # NoToken}
  <2>1. \A i, j \in T : i = j
    BY DEF LoginInv, TokensInv
  <2>2. Cardinality(T) <= 1
    BY <2>1, AtMostOne
  <2>3. \A i \in T : callbacks[<<l, i>>].token.subject = logins[l].subject
    BY DEF LoginInv, TokensInv
  <2> QED
    BY <2>2, <2>3
<1> QED
  BY <1>1, InvAlways, PTL

\* The row that a token was obtained from is the one it is verified against, since
\* rows that share an issuer differ in their client ids.
LEMMA ProviderOfOwn ==
    ASSUME NEW p \in Configured, NEW t, t.issuer = Issuer[p], t.audience = {ClientID[p]}
    PROVE  ProviderOf(t) = p
<1> DEFINE M == {q \in Provider : Issuer[q] = t.issuer}
           S == IF Cardinality(M) = 1 THEN M ELSE {q \in M : Verifies(q, t)}
<1>1. p \in M /\ IsFiniteSet(M)
  BY RowsAreTyped, FS_Subset
<1>2. S = {p}
  <2>1. CASE Cardinality(M) = 1
    BY <1>1, <2>1, FS_Singleton
  <2>2. CASE Cardinality(M) # 1
    <3>1. {q \in M : Verifies(q, t)} = {p}
      BY <1>1, ClientIDsDiffer, RowsAreTyped DEF Verifies
    <3> QED
      BY <2>2, <3>1
  <2> QED
    BY <2>1, <2>2
<1>3. FirstOf({p}) = p
  BY RowsAreTyped DEF FirstOf
<1> QED
  BY <1>2, <1>3 DEF ProviderOf

\* Every bearer token that a login hands out is taken as of the row it came from,
\* and the access token as of that row or of none.
THEOREM TokensResolveToTheirRow == LoginSpec => []TokensResolve
<1>1. LoginInv => TokensResolve
  <2> SUFFICES ASSUME LoginInv, NEW s \in sessions
               PROVE  /\ Authenticate(s.token, FALSE) = s.provider
                      /\ Authenticate(s.token, TRUE) \in {s.provider, NoProvider}
    BY DEF TokensResolve
  <2>1. /\ s.provider \in Configured /\ s.token.issuer = Issuer[s.provider]
        /\ s.token.audience = {ClientID[s.provider]}
    BY DEF LoginInv, SessionsInv
  <2>2. ProviderOf(s.token) = s.provider
    BY <2>1, ProviderOfOwn
  <2>3. VerifyIDToken(s.token) = s.provider /\ s.provider # NoProvider
    BY <2>1, <2>2, RowsAreTyped DEF VerifyIDToken, Verifies
  <2>4. VerifyAccessToken(s.token) \in {s.provider, NoProvider}
    BY <2>1, GoogleIsOneRow, RowsAreTyped DEF VerifyAccessToken
  <2> QED
    BY <2>3, <2>4 DEF Authenticate
<1> QED
  BY <1>1, InvAlways, PTL

-----------------------------------------------------------------------------
(* Logins that nothing happens to.                                         *)

\* The callback brings the cookies along.
Carried(l) == CarriesCookies(logins[l].provider)

WellSetUp(l) == FitsIssuer(logins[l].provider) /\ Carried(l)

\* The two cookies are set, sent and cleared together, and the answer clears those
\* of its own login only.
CookiesInv ==
    /\ cookies.nonce = cookies.state
    /\ \A l \in Login, i \in 1..Sends :
         LET c == callbacks[<<l, i>>]
         IN c.nonce = c.state /\ (c.pc = "answered" => (c.clears <=> c.state = l))

\* Of the requests of one callback URL the last is heard.
RequestsInv ==
    \A l \in Login, i \in 1..Sends : callbacks[<<l, i>>].pc # "none" =>
        /\ logins[l].pc \in {"calling", "over"}
        /\ \A j \in 1..(i - 1) : callbacks[<<l, j>>].pc # "none" /\ ~callbacks[<<l, j>>].heard

\* A login whose answer may still clear cookies is not over, and one that is over
\* has left no cookies that a later request of its callback could bring along.
StaleInv ==
    \A l \in Login, i \in 1..Sends :
        LET c == callbacks[<<l, i>>]
        IN /\ c.pc \in {"sent", "answered"} /\ c.heard /\ c.state = l => logins[l].pc = "calling"
           /\ c.pc # "none" /\ Carried(l) /\ cookies.state = l => c.state = l /\ logins[l].pc = "calling"

\* The callback of l has been requested once, and gets a token or has got one.
OneSent(l) ==
    \A i \in 1..Sends :
        LET c == callbacks[<<l, i>>]
        IN IF i > 1 THEN c.pc = "none"
           ELSE c.heard /\ \/ c.pc = "sent" /\ c.state = l /\ CodesOf(l) # {}
                           \/ c.pc = "answered" /\ c.token # NoToken

\* A login that nothing happens to is alone with its cookies and its code.
UndisturbedLogin(l) ==
    /\ l \in UnderWay => UnderWay \subseteq {l}
    /\ logins[l].pc \in {"asking", "granted", "calling"} => cookies.state = l
    /\ logins[l].pc = "granted" => CodesOf(l) # {}
    /\ logins[l].pc = "calling" /\ WellSetUp(l) => OneSent(l)
    /\ logins[l].pc = "over" /\ WellSetUp(l) => \E s \in sessions : s.login = l

UndisturbedInv == \A l \in Login \ disturbed : UndisturbedLogin(l)

FlowInv == CookiesInv /\ RequestsInv /\ StaleInv /\ UndisturbedInv

\* A step that concerns no callback.
Elsewhere ==
    \/ \E l \in Login : \/ \E p \in Provider : BeginLogin(l, p)
                        \/ FollowLogin(l) \/ Authorize(l) \/ AppleAuthorize(l) \/ Decline(l)
    \/ ExpireCookies
    \/ \E c \in codes : ExpireCode(c)
    \/ UNCHANGED loginVars

\* It leaves logins that have called back alone, and cookies become those of a login
\* when its redirect arrives.
LEMMA ElsewhereEffect ==
    ASSUME RowsAreTyped, LoginTypeOK, Elsewhere
    PROVE  /\ callbacks' = callbacks /\ sessions' = sessions
           /\ \A l \in Login : logins[l].pc \in {"calling", "over"} => logins'[l] = logins[l]
           /\ \A l \in Login : cookies'.state = l => cookies.state = l \/ logins[l].pc = "begun"
           /\ cookies.nonce = cookies.state => cookies'.nonce = cookies'.state
<1>1. ASSUME NEW l \in Login, NEW p \in Provider, BeginLogin(l, p)
      PROVE  /\ UNCHANGED <<callbacks, sessions, cookies>>
             /\ \A k \in Login : logins[k].pc \in {"calling", "over"} => logins'[k] = logins[k]
  BY <1>1 DEF BeginLogin, LoginTypeOK
<1>2. ASSUME NEW l \in Login, FollowLogin(l)
      PROVE  /\ UNCHANGED <<callbacks, sessions>>
             /\ logins[l].pc = "begun" /\ cookies'.state = l /\ cookies'.nonce = l
             /\ \A k \in Login : logins[k].pc \in {"calling", "over"} => logins'[k] = logins[k]
  BY <1>2 DEF FollowLogin, LoginTypeOK
<1>3. ASSUME NEW l \in Login, Authorize(l) \/ AppleAuthorize(l)
      PROVE  /\ UNCHANGED <<callbacks, sessions, cookies>>
             /\ \A k \in Login : logins[k].pc \in {"calling", "over"} => logins'[k] = logins[k]
  BY <1>3 DEF Authorize, AppleAuthorize, Grants, LoginTypeOK
<1>4. ASSUME NEW l \in Login, Decline(l)
      PROVE  /\ UNCHANGED <<callbacks, sessions, cookies>>
             /\ \A k \in Login : logins[k].pc \in {"calling", "over"} => logins'[k] = logins[k]
  BY <1>4 DEF Decline, LoginTypeOK
<1>5. ASSUME ExpireCookies
      PROVE  UNCHANGED <<callbacks, sessions, logins>> /\ cookies'.state = NoLogin /\ cookies'.nonce = NoLogin
  BY <1>5 DEF ExpireCookies, LoginTypeOK
<1>6. ASSUME NEW c \in codes, ExpireCode(c) PROVE UNCHANGED <<callbacks, sessions, logins, cookies>>
  BY <1>6 DEF ExpireCode
<1>7. ASSUME UNCHANGED loginVars PROVE UNCHANGED <<callbacks, sessions, logins, cookies>>
  BY <1>7 DEF loginVars
<1> QED
  BY <1>1, <1>2, <1>3, <1>4, <1>5, <1>6, <1>7, RowsAreTyped DEF Elsewhere

LEMMA RequestFields ==
    ASSUME NEW l
    PROVE  /\ Request(l).pc = "sent" /\ Request(l).heard /\ ~Request(l).clears
           /\ Request(l).state = IF Carried(l) THEN cookies.state ELSE NoLogin
           /\ Request(l).nonce = IF Carried(l) THEN cookies.nonce ELSE NoLogin
BY DEF Request, NotSent, Carried

\* What a step does, as far as these proofs look at it.
SendChange(l) ==
    /\ \A k \in Login, j \in 1..Sends :
         callbacks'[<<k, j>>] = IF k = l /\ j = 1 THEN Request(l) ELSE callbacks[<<k, j>>]
    /\ logins[l].pc = "granted" /\ logins'[l].pc = "calling"
    /\ \A k \in Login : logins'[k].provider = logins[k].provider /\ (k # l => logins'[k] = logins[k])
    /\ cookies'.state = cookies.state /\ cookies'.nonce = cookies.nonce
    /\ codes' = codes /\ sessions' = sessions /\ disturbed' = disturbed

LEMMA SendEffect ==
    ASSUME LoginTypeOK, NEW l \in Login, SendCallback(l)
    PROVE  SendChange(l)
<1>1. \A k \in Login, j \in 1..Sends :
        callbacks'[<<k, j>>] = IF k = l /\ j = 1 THEN Request(l) ELSE callbacks[<<k, j>>]
  BY DEF SendCallback, LoginTypeOK
<1> QED
  BY <1>1 DEF SendCallback, LoginTypeOK, LoginRecord, SendChange

ReloadChange(l, i) ==
    /\ callbacks'[<<l, i>>] = Request(l) /\ callbacks[<<l, i>>].pc = "none"
    /\ callbacks[<<l, i - 1>>].pc # "none" /\ ~callbacks'[<<l, i - 1>>].heard
    /\ \A k \in Login, j \in 1..Sends : ~(k = l /\ j = i) =>
         LET b == callbacks[<<k, j>>] c == callbacks'[<<k, j>>]
         IN /\ c.pc = b.pc /\ c.state = b.state /\ c.nonce = b.nonce /\ c.clears = b.clears
            /\ ~(k = l /\ j = i - 1) => c = b
    /\ l \in UnderWay => l \in disturbed'
    /\ disturbed \subseteq disturbed'
    /\ UNCHANGED <<cookies, logins, codes, sessions>>

LEMMA ReloadEffect ==
    ASSUME RowsAreTyped, LoginTypeOK, NEW l \in Login, NEW i \in 2..Sends, Reload(l, i)
    PROVE  ReloadChange(l, i)
<1>1. /\ i \in 1..Sends /\ i - 1 \in 1..Sends
      /\ <<l, i>> \in Login \X (1..Sends) /\ <<l, i - 1>> \in Login \X (1..Sends)
      /\ <<l, i - 1>> # <<l, i>>
  BY RowsAreTyped
<1>2. callbacks' = [callbacks EXCEPT ![<<l, i>>] = Request(l),
                                     ![<<l, i - 1>>] = [callbacks[<<l, i - 1>>] EXCEPT !.heard = FALSE]]
  BY <1>1 DEF Reload, LoginTypeOK
<1>3. PICK b, c : b = callbacks[<<l, i - 1>>] /\ c = [b EXCEPT !.heard = FALSE]
  OBVIOUS
<1>4. /\ callbacks'[<<l, i>>] = Request(l) /\ callbacks'[<<l, i - 1>>] = c
      /\ \A k \in Login, j \in 1..Sends :
           ~(k = l /\ j = i) /\ ~(k = l /\ j = i - 1) => callbacks'[<<k, j>>] = callbacks[<<k, j>>]
  BY <1>1, <1>2, <1>3 DEF LoginTypeOK
<1>5. ~c.heard /\ c.pc = b.pc /\ c.state = b.state /\ c.nonce = b.nonce /\ c.clears = b.clears
  BY <1>1, <1>3 DEF LoginTypeOK, Callback
<1>6. \A k \in Login, j \in 1..Sends : ~(k = l /\ j = i) =>
        LET d == callbacks[<<k, j>>] e == callbacks'[<<k, j>>]
        IN /\ e.pc = d.pc /\ e.state = d.state /\ e.nonce = d.nonce /\ e.clears = d.clears
           /\ ~(k = l /\ j = i - 1) => e = d
  BY <1>3, <1>4, <1>5
<1> QED
  BY <1>4, <1>5, <1>6 DEF Reload, ReloadChange

Answers(r) == RefuseCallback(r) \/ Exchange(r) \/ FailCallback(r) \/ LoseExchange(r)

AnswersChange(l, i) ==
    /\ callbacks[<<l, i>>].pc = "sent" /\ callbacks'[<<l, i>>].pc = "answered"
    /\ callbacks'[<<l, i>>].clears <=> callbacks[<<l, i>>].state = l
    /\ \A k \in Login, j \in 1..Sends :
         LET b == callbacks[<<k, j>>] c == callbacks'[<<k, j>>]
         IN /\ c.heard = b.heard /\ c.state = b.state /\ c.nonce = b.nonce
            /\ ~(k = l /\ j = i) => c = b
    /\ \A c \in codes : c.code # l => c \in codes'
    /\ disturbed \subseteq disturbed'
    /\ UNCHANGED <<cookies, logins, sessions>>

LEMMA AnswersEffect ==
    ASSUME RowsAreTyped, LoginTypeOK, CookiesInv,
           NEW l \in Login, NEW i \in 1..Sends, Answers(<<l, i>>)
    PROVE  AnswersChange(l, i)
<1> DEFINE r == <<l, i>>
<1>1. r \in Login \X (1..Sends) /\ r[1] = l
  OBVIOUS
<1>2. Accepts(r) <=> callbacks[r].state = l
  BY <1>1, RowsAreTyped DEF CookiesInv, Accepts
<1>3. PICK clears, token :
        /\ clears \in BOOLEAN /\ (clears <=> callbacks[r].state = l)
        /\ callbacks[r].pc = "sent" /\ Answer(r, clears, token)
        /\ \A c \in codes : c.code # l => c \in codes'
        /\ disturbed \subseteq disturbed'
        /\ UNCHANGED <<cookies, logins, sessions>>
  <2>1. CASE RefuseCallback(r)
    BY <1>2, <2>1 DEF RefuseCallback
  <2>2. CASE Exchange(r)
    BY <1>1, <1>2, <2>2 DEF Exchange, CodesOf
  <2>3. CASE FailCallback(r)
    BY <1>2, <2>3 DEF FailCallback
  <2>4. CASE LoseExchange(r)
    BY <1>1, <1>2, <2>4 DEF LoseExchange, CodesOf
  <2> QED
    BY <2>1, <2>2, <2>3, <2>4 DEF Answers
<1>4. PICK b, c : b = callbacks[r] /\ c = [b EXCEPT !.pc = "answered", !.clears = clears, !.token = token]
  OBVIOUS
<1>5. callbacks'[r] = c /\ \A k \in Login, j \in 1..Sends : ~(k = l /\ j = i) => callbacks'[<<k, j>>] = callbacks[<<k, j>>]
  BY <1>1, <1>3, <1>4 DEF Answer, LoginTypeOK
<1>6. c.pc = "answered" /\ c.clears = clears /\ c.heard = b.heard /\ c.state = b.state /\ c.nonce = b.nonce
  BY <1>1, <1>4 DEF LoginTypeOK, Callback
<1>7. \A k \in Login, j \in 1..Sends :
        LET d == callbacks[<<k, j>>] e == callbacks'[<<k, j>>]
        IN /\ e.heard = d.heard /\ e.state = d.state /\ e.nonce = d.nonce
           /\ ~(k = l /\ j = i) => e = d
  BY <1>4, <1>5, <1>6
<1>8. callbacks[<<l, i>>].pc = "sent" /\ callbacks'[<<l, i>>].pc = "answered"
  BY <1>3, <1>5, <1>6
<1>9. callbacks'[<<l, i>>].clears <=> callbacks[<<l, i>>].state = l
  BY <1>3, <1>5, <1>6
<1> QED
  BY <1>3, <1>7, <1>8, <1>9 DEF AnswersChange

LandChange(l, i) ==
    /\ callbacks[<<l, i>>].pc = "answered" /\ callbacks'[<<l, i>>].pc = "over"
    /\ \A k \in Login, j \in 1..Sends :
         LET b == callbacks[<<k, j>>] c == callbacks'[<<k, j>>]
         IN /\ c.heard = b.heard /\ c.state = b.state /\ c.nonce = b.nonce
            /\ ~(k = l /\ j = i) => c = b
    /\ \A k \in Login : logins'[k].provider = logins[k].provider /\ (k # l => logins'[k] = logins[k])
    /\ callbacks[<<l, i>>].heard => logins'[l].pc = "over"
    /\ ~callbacks[<<l, i>>].heard => logins' = logins
    /\ IF callbacks[<<l, i>>].heard /\ callbacks[<<l, i>>].clears
       THEN cookies'.state = NoLogin /\ cookies'.nonce = NoLogin ELSE cookies' = cookies
    /\ sessions \subseteq sessions'
    /\ codes' = codes /\ disturbed' = disturbed

LEMMA LandEffect ==
    ASSUME LoginTypeOK, NEW l \in Login, NEW i \in 1..Sends, Land(<<l, i>>)
    PROVE  LandChange(l, i)
<1> DEFINE r == <<l, i>>
<1>1. r \in Login \X (1..Sends) /\ r[1] = l
  OBVIOUS
<1>2. PICK b, c : b = callbacks[r] /\ c = [b EXCEPT !.pc = "over"]
  OBVIOUS
<1>3. callbacks'[r] = c /\ \A k \in Login, j \in 1..Sends : ~(k = l /\ j = i) => callbacks'[<<k, j>>] = callbacks[<<k, j>>]
  BY <1>1, <1>2 DEF Land, LoginTypeOK
<1>4. c.pc = "over" /\ c.heard = b.heard /\ c.state = b.state /\ c.nonce = b.nonce
  BY <1>1, <1>2 DEF LoginTypeOK, Callback
<1>5. /\ \A k \in Login : logins'[k].provider = logins[k].provider /\ (k # l => logins'[k] = logins[k])
      /\ callbacks[r].heard => logins'[l].pc = "over"
      /\ ~callbacks[r].heard => logins' = logins
  BY <1>1 DEF Land, LoginTypeOK, LoginRecord
<1>6. IF callbacks[r].heard /\ callbacks[r].clears
      THEN cookies'.state = NoLogin /\ cookies'.nonce = NoLogin ELSE cookies' = cookies
  BY <1>1 DEF Land, LoginTypeOK, Callback
<1>7. callbacks[r].pc = "answered" /\ sessions \subseteq sessions' /\ codes' = codes /\ disturbed' = disturbed
  BY DEF Land
<1> QED
  BY <1>2, <1>3, <1>4, <1>5, <1>6, <1>7 DEF LandChange

LEMMA StepKinds ==
    ASSUME [LoginNext]_loginVars
    PROVE  \/ Elsewhere
           \/ \E l \in Login : SendCallback(l) \/ \E i \in 2..Sends : Reload(l, i)
           \/ \E l \in Login, i \in 1..Sends : Answers(<<l, i>>) \/ Land(<<l, i>>)
<1>1. \A r \in Login \X (1..Sends) : r[1] \in Login /\ r[2] \in 1..Sends /\ r = <<r[1], r[2]>>
  OBVIOUS
<1> QED
  BY <1>1 DEF LoginNext, LoginStep, Elsewhere, Answers

\* Beyond those elsewhere, every step is a request, a repeated request, an answer or
\* a landing.
LEMMA StepChanges ==
    ASSUME RowsAreTyped, LoginTypeOK, CookiesInv, [LoginNext]_loginVars
    PROVE  \/ Elsewhere
           \/ \E l \in Login : SendChange(l) \/ \E i \in 2..Sends : ReloadChange(l, i)
           \/ \E l \in Login, i \in 1..Sends : AnswersChange(l, i) \/ LandChange(l, i)
BY StepKinds, SendEffect, ReloadEffect, AnswersEffect, LandEffect

LEMMA FlowInit ==
    ASSUME RowsAreTyped, LoginInit
    PROVE  FlowInv
<1>1. \A l \in Login, i \in 1..Sends : callbacks[<<l, i>>] = NotSent
  BY DEF LoginInit
<1>2. \A l \in Login : logins[l].pc = "none"
  BY DEF LoginInit
<1>3. CookiesInv
  BY <1>1 DEF LoginInit, CookiesInv, NotSent
<1>4. RequestsInv /\ StaleInv
  BY <1>1 DEF RequestsInv, StaleInv, NotSent
<1>5. UndisturbedInv
  BY <1>2 DEF UndisturbedInv, UndisturbedLogin, UnderWay
<1> QED
  BY <1>3, <1>4, <1>5 DEF FlowInv

LEMMA CookiesStep ==
    ASSUME RowsAreTyped, LoginTypeOK, CookiesInv, [LoginNext]_loginVars
    PROVE  CookiesInv'
<1> SUFFICES /\ cookies'.nonce = cookies'.state
             /\ \A k \in Login, j \in 1..Sends :
                  LET c == callbacks'[<<k, j>>]
                  IN c.nonce = c.state /\ (c.pc = "answered" => (c.clears <=> c.state = k))
  BY DEF CookiesInv
<1>1. \A k \in Login, j \in 1..Sends :
        LET c == callbacks[<<k, j>>]
        IN c.nonce = c.state /\ (c.pc = "answered" => (c.clears <=> c.state = k))
  BY DEF CookiesInv
<1>2. CASE Elsewhere
  BY <1>1, <1>2, ElsewhereEffect DEF CookiesInv
<1>3. ASSUME NEW l \in Login, SendChange(l) \/ \E i \in 2..Sends : ReloadChange(l, i)
      PROVE  /\ cookies'.nonce = cookies'.state
             /\ \A k \in Login, j \in 1..Sends :
                  LET c == callbacks'[<<k, j>>]
                  IN c.nonce = c.state /\ (c.pc = "answered" => (c.clears <=> c.state = k))
  <2>1. Request(l).nonce = Request(l).state /\ Request(l).pc # "answered"
    BY RequestFields DEF CookiesInv
  <2>2. CASE SendChange(l)
    BY <1>1, <2>1, <2>2 DEF SendChange, CookiesInv
  <2>3. ASSUME NEW i \in 2..Sends, ReloadChange(l, i)
        PROVE  /\ cookies'.nonce = cookies'.state
               /\ \A k \in Login, j \in 1..Sends :
                    LET c == callbacks'[<<k, j>>]
                    IN c.nonce = c.state /\ (c.pc = "answered" => (c.clears <=> c.state = k))
    BY <1>1, <2>1, <2>3 DEF ReloadChange, CookiesInv
  <2> QED
    BY <1>3, <2>2, <2>3
<1>4. ASSUME NEW l \in Login, NEW i \in 1..Sends, AnswersChange(l, i)
      PROVE  /\ cookies'.nonce = cookies'.state
             /\ \A k \in Login, j \in 1..Sends :
                  LET c == callbacks'[<<k, j>>]
                  IN c.nonce = c.state /\ (c.pc = "answered" => (c.clears <=> c.state = k))
  BY <1>1, <1>4 DEF AnswersChange, CookiesInv
<1>5. ASSUME NEW l \in Login, NEW i \in 1..Sends, LandChange(l, i)
      PROVE  /\ cookies'.nonce = cookies'.state
             /\ \A k \in Login, j \in 1..Sends :
                  LET c == callbacks'[<<k, j>>]
                  IN c.nonce = c.state /\ (c.pc = "answered" => (c.clears <=> c.state = k))
  BY <1>1, <1>5 DEF LandChange, CookiesInv
<1> QED
  BY <1>2, <1>3, <1>4, <1>5, StepChanges

LEMMA RequestsStep ==
    ASSUME RowsAreTyped, LoginTypeOK, CookiesInv, RequestsInv, [LoginNext]_loginVars
    PROVE  RequestsInv'
<1> SUFFICES ASSUME NEW k \in Login, NEW n \in 1..Sends, callbacks'[<<k, n>>].pc # "none"
             PROVE  /\ logins'[k].pc \in {"calling", "over"}
                    /\ \A j \in 1..(n - 1) : callbacks'[<<k, j>>].pc # "none" /\ ~callbacks'[<<k, j>>].heard
  BY DEF RequestsInv
<1> DEFINE Goal == /\ logins'[k].pc \in {"calling", "over"}
                   /\ \A j \in 1..(n - 1) : callbacks'[<<k, j>>].pc # "none" /\ ~callbacks'[<<k, j>>].heard
<1>1. n \in Nat /\ \A j \in 1..(n - 1) : j \in 1..Sends /\ j # n
  BY RowsAreTyped
<1>2. CASE Elsewhere
  BY <1>1, <1>2, ElsewhereEffect DEF RequestsInv
<1>3. ASSUME NEW l \in Login, SendChange(l) PROVE Goal
  <2>1. \A i \in 1..Sends : callbacks[<<l, i>>].pc = "none"
    BY <1>3 DEF SendChange, RequestsInv
  <2>2. CASE k = l
    <3>1. n = 1
      BY <1>3, <2>1, <2>2 DEF SendChange
    <3>2. \A j \in 1..(n - 1) : FALSE
      BY <3>1
    <3> QED
      BY <1>3, <2>2, <3>2 DEF SendChange
  <2>3. CASE k # l
    BY <1>1, <1>3, <2>3 DEF SendChange, RequestsInv
  <2> QED
    BY <2>2, <2>3
<1>4. ASSUME NEW l \in Login, NEW i \in 2..Sends, ReloadChange(l, i) PROVE Goal
  <2>0. i \in Nat /\ i \in 1..Sends /\ i - 1 \in 1..Sends /\ i # i - 1
    BY RowsAreTyped
  <2>1. CASE k = l /\ n = i
    <3>1. callbacks[<<l, i - 1>>].pc # "none"
      BY <1>4 DEF ReloadChange
    <3>2. /\ logins[l].pc \in {"calling", "over"}
          /\ \A j \in 1..(i - 1 - 1) : callbacks[<<l, j>>].pc # "none" /\ ~callbacks[<<l, j>>].heard
      BY <2>0, <3>1 DEF RequestsInv
    <3>3. \A j \in 1..(i - 1) : j \in 1..Sends /\ j # i /\ (j = i - 1 \/ j \in 1..(i - 1 - 1))
      BY <2>0, RowsAreTyped
    <3>4. callbacks'[<<l, i - 1>>].pc # "none" /\ ~callbacks'[<<l, i - 1>>].heard
      BY <1>4, <2>0, <3>1 DEF ReloadChange
    <3>5. \A j \in 1..(i - 1) : j # i - 1 => callbacks'[<<l, j>>].pc # "none" /\ ~callbacks'[<<l, j>>].heard
      BY <1>4, <3>2, <3>3 DEF ReloadChange
    <3> QED
      BY <1>4, <2>1, <3>2, <3>4, <3>5 DEF ReloadChange
  <2>2. CASE ~(k = l /\ n = i)
    <3>1. callbacks[<<k, n>>].pc # "none" /\ logins' = logins
      BY <1>4, <2>2 DEF ReloadChange
    <3>2. /\ logins[k].pc \in {"calling", "over"}
          /\ \A j \in 1..(n - 1) : callbacks[<<k, j>>].pc # "none" /\ ~callbacks[<<k, j>>].heard
      BY <3>1 DEF RequestsInv
    <3>3. \A j \in 1..(n - 1) : ~(k = l /\ j = i)
      BY <1>4, <3>2 DEF ReloadChange
    <3>4. ASSUME NEW j \in 1..(n - 1) PROVE callbacks'[<<k, j>>].pc # "none" /\ ~callbacks'[<<k, j>>].heard
      BY <1>1, <1>4, <3>2, <3>3 DEF ReloadChange
    <3> QED
      BY <3>1, <3>2, <3>4
  <2> QED
    BY <2>1, <2>2
<1>5. ASSUME NEW l \in Login, NEW i \in 1..Sends, AnswersChange(l, i) PROVE Goal
  <2>1. \A m \in Login, j \in 1..Sends :
          /\ callbacks'[<<m, j>>].pc # "none" <=> callbacks[<<m, j>>].pc # "none"
          /\ callbacks'[<<m, j>>].heard = callbacks[<<m, j>>].heard
    BY <1>5 DEF AnswersChange
  <2>2. logins' = logins
    BY <1>5 DEF AnswersChange
  <2> QED
    BY <1>1, <2>1, <2>2 DEF RequestsInv
<1>6. ASSUME NEW l \in Login, NEW i \in 1..Sends, LandChange(l, i) PROVE Goal
  <2>1. \A m \in Login, j \in 1..Sends :
          /\ callbacks'[<<m, j>>].pc # "none" <=> callbacks[<<m, j>>].pc # "none"
          /\ callbacks'[<<m, j>>].heard = callbacks[<<m, j>>].heard
    BY <1>6 DEF LandChange
  <2>2. \A m \in Login : logins'[m].pc \in {logins[m].pc, "over"}
    BY <1>6 DEF LandChange
  <2> QED
    BY <1>1, <2>1, <2>2 DEF RequestsInv
<1> QED
  BY <1>2, <1>3, <1>4, <1>5, <1>6, StepChanges

LEMMA StaleStep ==
    ASSUME RowsAreTyped, LoginTypeOK, CookiesInv, RequestsInv, StaleInv, [LoginNext]_loginVars
    PROVE  StaleInv'
<1> SUFFICES ASSUME NEW k \in Login, NEW n \in 1..Sends
             PROVE  LET c == callbacks'[<<k, n>>]
                    IN /\ c.pc \in {"sent", "answered"} /\ c.heard /\ c.state = k => logins'[k].pc = "calling"
                       /\ c.pc # "none" /\ Carried(k)' /\ cookies'.state = k
                            => c.state = k /\ logins'[k].pc = "calling"
  BY DEF StaleInv
<1> DEFINE c == callbacks'[<<k, n>>]
           b == callbacks[<<k, n>>]
           Goal == /\ c.pc \in {"sent", "answered"} /\ c.heard /\ c.state = k => logins'[k].pc = "calling"
                   /\ c.pc # "none" /\ Carried(k)' /\ cookies'.state = k
                        => c.state = k /\ logins'[k].pc = "calling"
<1>1. /\ b.pc \in {"sent", "answered"} /\ b.heard /\ b.state = k => logins[k].pc = "calling"
      /\ b.pc # "none" /\ Carried(k) /\ cookies.state = k => b.state = k /\ logins[k].pc = "calling"
      /\ b.pc # "none" => logins[k].pc \in {"calling", "over"}
      /\ b.pc # "none" => \A j \in 1..(n - 1) : callbacks[<<k, j>>].pc # "none" /\ ~callbacks[<<k, j>>].heard
  BY DEF StaleInv, RequestsInv
<1>2. logins'[k].provider = logins[k].provider => (Carried(k)' <=> Carried(k))
  BY DEF Carried, CarriesCookies, Method, IsApple
<1>3. k # NoLogin
  BY RowsAreTyped
<1>4. CASE Elsewhere
  <2>1. /\ c = b
        /\ logins[k].pc \in {"calling", "over"} => logins'[k] = logins[k]
        /\ cookies'.state = k => cookies.state = k \/ logins[k].pc = "begun"
    BY <1>4, ElsewhereEffect
  <2> QED
    BY <1>1, <1>2, <2>1
<1>5. ASSUME NEW l \in Login, SendChange(l) PROVE Goal
  <2>1. \A i \in 1..Sends : callbacks[<<l, i>>].pc = "none"
    BY <1>5 DEF RequestsInv, SendChange
  <2>2. CASE k = l
    <3>1. logins'[k].pc = "calling" /\ cookies'.state = cookies.state
          /\ logins'[k].provider = logins[k].provider
      BY <1>5, <2>2 DEF SendChange
    <3>2. c = Request(l) \/ c.pc = "none"
      BY <1>5, <2>1, <2>2 DEF SendChange
    <3> QED
      BY <1>2, <2>2, <3>1, <3>2, RequestFields
  <2>3. CASE k # l
    BY <1>1, <1>2, <1>5, <2>3 DEF SendChange
  <2> QED
    BY <2>2, <2>3
<1>6. ASSUME NEW l \in Login, NEW i \in 2..Sends, ReloadChange(l, i) PROVE Goal
  <2>1. cookies' = cookies /\ logins' = logins
    BY <1>6 DEF ReloadChange
  <2>2. CASE k = l /\ n = i
    <3>1. i - 1 \in 1..Sends
      BY RowsAreTyped
    <3>2. callbacks[<<l, i - 1>>].pc # "none" /\ c = Request(l)
      BY <1>6, <2>2 DEF ReloadChange
    <3>3. Carried(l) /\ cookies.state = l => logins[l].pc = "calling"
      BY <3>1, <3>2 DEF StaleInv
    <3> QED
      BY <1>2, <1>3, <2>1, <2>2, <3>2, <3>3, RequestFields
  <2>3. CASE ~(k = l /\ n = i)
    <3>1. c.pc = b.pc /\ c.state = b.state /\ (c = b \/ ~c.heard)
      BY <1>6, <2>3 DEF ReloadChange
    <3> QED
      BY <1>1, <1>2, <2>1, <3>1
  <2> QED
    BY <2>2, <2>3
<1>7. ASSUME NEW l \in Login, NEW i \in 1..Sends, AnswersChange(l, i) PROVE Goal
  <2>1. /\ c.heard = b.heard /\ c.state = b.state
        /\ c.pc = b.pc \/ b.pc = "sent"
        /\ cookies' = cookies /\ logins' = logins
    BY <1>7 DEF AnswersChange
  <2> QED
    BY <1>1, <1>2, <2>1
<1>8. ASSUME NEW l \in Login, NEW i \in 1..Sends, LandChange(l, i) PROVE Goal
  <2>1. /\ c.heard = b.heard /\ c.state = b.state
        /\ ~(k = l /\ n = i) => c = b
        /\ k = l /\ n = i => b.pc = "answered" /\ c.pc = "over"
        /\ logins'[k].provider = logins[k].provider /\ (k # l => logins'[k] = logins[k])
        /\ callbacks[<<l, i>>].pc = "answered"
        /\ ~callbacks[<<l, i>>].heard => logins' = logins
        /\ cookies'.state = k => cookies.state = k /\ ~(callbacks[<<l, i>>].heard /\ callbacks[<<l, i>>].clears)
    BY <1>3, <1>8 DEF LandChange
  <2>2. CASE k = l /\ callbacks[<<l, i>>].heard
    <3>1. n # i /\ b.pc # "none" => ~b.heard
      <4>1. ASSUME n < i PROVE ~b.heard
        <5>1. n \in 1..(i - 1)
          BY <4>1, RowsAreTyped
        <5> QED
          BY <2>1, <2>2, <5>1 DEF RequestsInv
      <4>2. ASSUME i < n, b.pc # "none" PROVE FALSE
        <5>1. i \in 1..(n - 1)
          BY <4>2, RowsAreTyped
        <5> QED
          BY <1>1, <2>2, <4>2, <5>1
      <4> QED
        BY <4>1, <4>2, RowsAreTyped
    <3>2. ~(c.pc \in {"sent", "answered"} /\ c.heard)
      BY <2>1, <2>2, <3>1
    <3>3. Carried(k)' /\ cookies'.state = k => FALSE
      <4>1. callbacks[<<k, i>>].clears <=> callbacks[<<k, i>>].state = k
        BY <2>1, <2>2 DEF CookiesInv
      <4>2. Carried(k) /\ cookies.state = k => callbacks[<<k, i>>].state = k
        BY <2>1, <2>2 DEF StaleInv
      <4> QED
        BY <1>2, <2>1, <2>2, <4>1, <4>2
    <3> QED
      BY <3>2, <3>3
  <2>3. CASE ~(k = l /\ callbacks[<<l, i>>].heard)
    <3>1. logins'[k] = logins[k]
      BY <2>1, <2>3
    <3>2. /\ c.pc \in {"sent", "answered"} => b.pc = c.pc
          /\ c.pc # "none" => b.pc # "none"
      BY <2>1
    <3> QED
      BY <1>1, <1>2, <2>1, <3>1, <3>2
  <2> QED
    BY <2>2, <2>3
<1> QED
  BY <1>4, <1>5, <1>6, <1>7, <1>8, StepChanges

\* A login stays undisturbed through what does not concern it.
LEMMA Bystander ==
    ASSUME NEW u \in Login, UndisturbedLogin(u),
           logins'[u] = logins[u],
           u \in UnderWay => UnderWay' \subseteq UnderWay,
           logins[u].pc = "calling" /\ WellSetUp(u) =>
               \A i \in 1..Sends : callbacks'[<<u, i>>] = callbacks[<<u, i>>],
           logins[u].pc \in {"granted", "calling"} => \A c \in codes : c.code = u => c \in codes',
           logins[u].pc \in {"asking", "granted", "calling"} /\ cookies.state = u => cookies'.state = u,
           sessions \subseteq sessions'
    PROVE  UndisturbedLogin(u)'
<1>1. /\ u \in UnderWay' <=> u \in UnderWay
      /\ WellSetUp(u)' <=> WellSetUp(u)
  BY DEF UnderWay, WellSetUp, FitsIssuer, AllowsCallbackMethod, WantsSignedSecret, SignsSecret,
         Carried, CarriesCookies, Method, IsApple
<1>2. logins[u].pc \in {"granted", "calling"} /\ CodesOf(u) # {} => (CodesOf(u) # {})'
  BY DEF CodesOf
<1>3. logins[u].pc = "calling" /\ WellSetUp(u) /\ OneSent(u) => OneSent(u)'
  BY <1>2 DEF OneSent
<1>4. (u \in UnderWay => UnderWay \subseteq {u})'
  BY <1>1 DEF UndisturbedLogin
<1> QED
  BY <1>1, <1>2, <1>3, <1>4 DEF UndisturbedLogin

\* The login is in no one's way: steps of others find it at rest.
LEMMA AloneUnderWay ==
    ASSUME NEW u \in Login, UndisturbedLogin(u), NEW l \in Login, l # u, l \in UnderWay
    PROVE  /\ u \notin UnderWay
           /\ logins[u].pc \notin {"begun", "asking", "granted", "calling"}
<1>1. u \notin UnderWay
  BY DEF UndisturbedLogin
<1> QED
  BY <1>1 DEF UnderWay

LEMMA UndisturbedElsewhere ==
    ASSUME RowsAreTyped, LoginTypeOK, Elsewhere,
           NEW u \in Login, UndisturbedLogin(u), u \notin disturbed'
    PROVE  UndisturbedLogin(u)'
<1>1. callbacks' = callbacks /\ sessions' = sessions
  BY ElsewhereEffect
<1>2. ASSUME NEW l \in Login, NEW p \in Provider, BeginLogin(l, p) PROVE UndisturbedLogin(u)'
  <2>1. /\ logins[l].pc = "none" /\ logins'[l].pc = "begun"
        /\ \A k \in Login : k # l => logins'[k] = logins[k]
        /\ cookies' = cookies /\ codes' = codes
        /\ UnderWay # {} => u \notin UnderWay /\ u # l
    BY <1>2 DEF BeginLogin, LoginTypeOK, LoginRecord
  <2>2. CASE u = l
    <3>1. UnderWay' \subseteq {u}
      BY <2>1, <2>2 DEF UnderWay
    <3> QED
      BY <2>1, <2>2, <3>1 DEF UndisturbedLogin
  <2>3. CASE u # l
    <3>1. logins'[u] = logins[u] /\ u \notin UnderWay
      BY <2>1, <2>3
    <3> QED
      BY <1>1, <2>1, <3>1, Bystander
  <2> QED
    BY <2>2, <2>3
<1>3. ASSUME NEW l \in Login, FollowLogin(l) PROVE UndisturbedLogin(u)'
  <2>1. /\ logins[l].pc = "begun" /\ logins'[l].pc = "asking"
        /\ \A k \in Login : k # l => logins'[k] = logins[k]
        /\ cookies'.state = l /\ codes' = codes
    BY <1>3 DEF FollowLogin, LoginTypeOK, LoginRecord
  <2>2. UnderWay' = UnderWay /\ l \in UnderWay
    BY <2>1 DEF UnderWay
  <2>3. CASE u = l
    BY <2>1, <2>2, <2>3 DEF UndisturbedLogin
  <2>4. CASE u # l
    BY <1>1, <2>1, <2>2, <2>4, AloneUnderWay, Bystander
  <2> QED
    BY <2>3, <2>4
<1>4. ASSUME NEW l \in Login, Authorize(l) \/ AppleAuthorize(l) PROVE UndisturbedLogin(u)'
  <2>1. /\ logins[l].pc = "asking" /\ logins'[l].pc = "granted"
        /\ \A k \in Login : k # l => logins'[k] = logins[k]
        /\ cookies' = cookies /\ codes \subseteq codes' /\ \E c \in codes' : c.code = l
    <3>1. PICK subject, named : logins[l].pc = "asking" /\ Grants(l, subject, named)
      BY <1>4 DEF Authorize, AppleAuthorize
    <3>2. PICK c : c = [code |-> l, subject |-> subject, nonce |-> l]
      OBVIOUS
    <3>3. c.code = l /\ codes' = codes \cup {c} /\ cookies' = cookies
      BY <3>1, <3>2 DEF Grants
    <3>4. /\ logins'[l].pc = "granted"
          /\ \A k \in Login : k # l => logins'[k] = logins[k]
      BY <3>1 DEF Grants, LoginTypeOK, LoginRecord
    <3> QED
      BY <3>1, <3>3, <3>4
  <2>2. UnderWay' = UnderWay /\ l \in UnderWay
    BY <2>1 DEF UnderWay
  <2>3. CASE u = l
    <3>1. (CodesOf(u) # {})'
      BY <2>1, <2>3 DEF CodesOf
    <3> QED
      BY <2>1, <2>2, <2>3, <3>1 DEF UndisturbedLogin
  <2>4. CASE u # l
    BY <1>1, <2>1, <2>2, <2>4, AloneUnderWay, Bystander
  <2> QED
    BY <2>3, <2>4
<1>5. ASSUME NEW l \in Login, Decline(l) PROVE UndisturbedLogin(u)'
  <2>1. /\ u # l /\ logins'[l].pc = "over"
        /\ \A k \in Login : k # l => logins'[k] = logins[k]
        /\ cookies' = cookies /\ codes' = codes
    BY <1>5 DEF Decline, LoginTypeOK, LoginRecord
  <2>2. UnderWay' \subseteq UnderWay
    BY <2>1 DEF UnderWay
  <2> QED
    BY <1>1, <2>1, <2>2, Bystander
<1>6. CASE ExpireCookies
  <2>1. logins' = logins /\ codes' = codes /\ cookies.state # u
    BY <1>6 DEF ExpireCookies
  <2>2. UnderWay' = UnderWay
    BY <2>1 DEF UnderWay
  <2> QED
    BY <1>1, <2>1, <2>2, Bystander
<1>7. ASSUME NEW d \in codes, ExpireCode(d) PROVE UndisturbedLogin(u)'
  <2>1. /\ logins' = logins /\ cookies' = cookies
        /\ \A c \in codes : c.code = u => c \in codes'
    BY <1>7 DEF ExpireCode
  <2>2. UnderWay' = UnderWay
    BY <2>1 DEF UnderWay
  <2> QED
    BY <1>1, <2>1, <2>2, Bystander
<1>8. CASE UNCHANGED loginVars
  <2>1. logins' = logins /\ cookies' = cookies /\ codes' = codes
    BY <1>8 DEF loginVars
  <2>2. UnderWay' = UnderWay
    BY <2>1 DEF UnderWay
  <2> QED
    BY <1>1, <2>1, <2>2, Bystander
<1> QED
  BY <1>2, <1>3, <1>4, <1>5, <1>6, <1>7, <1>8 DEF Elsewhere

LEMMA UndisturbedRequests ==
    ASSUME RowsAreTyped, LoginTypeOK, RequestsInv, NEW l \in Login,
           SendChange(l) \/ \E i \in 2..Sends : ReloadChange(l, i),
           NEW u \in Login, UndisturbedLogin(u), u \notin disturbed'
    PROVE  UndisturbedLogin(u)'
<1>1. CASE SendChange(l)
  <2>1. /\ logins[l].pc = "granted" /\ logins'[l].pc = "calling"
        /\ \A k \in Login : logins'[k].provider = logins[k].provider /\ (k # l => logins'[k] = logins[k])
        /\ cookies'.state = cookies.state /\ codes' = codes /\ sessions' = sessions
    BY <1>1 DEF SendChange
  <2>2. UnderWay' = UnderWay /\ l \in UnderWay
    BY <2>1 DEF UnderWay
  <2>3. CASE u = l
    <3>1. WellSetUp(u)' => Carried(u)
      BY <2>1 DEF WellSetUp, Carried, CarriesCookies, Method, IsApple
    <3>2. cookies.state = u /\ CodesOf(u) # {} /\ UnderWay \subseteq {u}
      BY <2>1, <2>2, <2>3 DEF UndisturbedLogin
    <3>3. (CodesOf(u) # {})'
      BY <2>1, <3>2 DEF CodesOf
    <3>4. \A i \in 1..Sends : callbacks'[<<u, i>>] = IF i = 1 THEN Request(u) ELSE callbacks[<<u, i>>]
      BY <1>1, <2>3 DEF SendChange
    <3>5. \A i \in 1..Sends : callbacks[<<u, i>>].pc = "none"
      BY <2>1, <2>3 DEF RequestsInv
    <3>6. Carried(u) => Request(u).heard /\ Request(u).pc = "sent" /\ Request(u).state = u
      BY <3>2, RequestFields
    <3>7. Carried(u) => OneSent(u)'
      BY <3>3, <3>4, <3>5, <3>6 DEF OneSent
    <3> QED
      BY <2>1, <2>2, <2>3, <3>1, <3>2, <3>7 DEF UndisturbedLogin
  <2>4. CASE u # l
    BY <2>1, <2>2, <2>4, AloneUnderWay, Bystander
  <2> QED
    BY <2>3, <2>4
<1>2. ASSUME NEW i \in 2..Sends, ReloadChange(l, i) PROVE UndisturbedLogin(u)'
  <2>1. /\ logins' = logins /\ cookies' = cookies /\ codes' = codes /\ sessions' = sessions
        /\ u = l => u \notin UnderWay
    BY <1>2 DEF ReloadChange
  <2>2. UnderWay' = UnderWay
    BY <2>1 DEF UnderWay
  <2>3. logins[u].pc = "calling" => u # l
    BY <2>1 DEF UnderWay
  <2>4. u # l => \A j \in 1..Sends : callbacks'[<<u, j>>] = callbacks[<<u, j>>]
    BY <1>2 DEF ReloadChange
  <2> QED
    BY <2>1, <2>2, <2>3, <2>4, Bystander
<1> QED
  BY <1>1, <1>2

\* What the callback handler does with the callback of a login that nothing happened
\* to: the cookies are its own, the provider knows the code and the nonce fits.
LEMMA AnswerHolds ==
    ASSUME RowsAreTyped, NoTokenIsNone, LoginInv, CookiesInv, NEW u \in Login,
           NEW i \in 1..Sends, Answers(<<u, i>>), u \notin disturbed',
           callbacks[<<u, i>>].state = u, CodesOf(u) # {}, FitsIssuer(logins[u].provider)
    PROVE  callbacks'[<<u, i>>].pc = "answered" /\ callbacks'[<<u, i>>].token # NoToken
<1> DEFINE r == <<u, i>>
<1>1. r \in Login \X (1..Sends) /\ r[1] = u
  OBVIOUS
<1>2. Accepts(r)
  BY <1>1, RowsAreTyped DEF CookiesInv, Accepts
<1>3. Exchange(r)
  BY <1>1, <1>2 DEF Answers, RefuseCallback, FailCallback, LoseExchange
<1>4. PICK c \in CodesOf(u) :
        Answer(r, TRUE, IF c.nonce = callbacks[r].nonce THEN TokenFor(logins[u].provider, c) ELSE NoToken)
  BY <1>1, <1>3 DEF Exchange
<1>5. c \in codes /\ c.code = u /\ c \in [code : Login, subject : Login, nonce : Login]
  BY <1>4 DEF CodesOf, LoginInv, LoginTypeOK
<1>6. c.nonce = callbacks[r].nonce
  BY <1>5 DEF LoginInv, CodesInv, CookiesInv
<1>7. logins[u].provider \in Provider
  BY <1>5, RowsAreTyped DEF LoginInv, CodesInv, RowsInv, Past
<1>8. PICK t : t = TokenFor(logins[u].provider, c) /\ t # NoToken
  BY <1>5, <1>7, TokenForTyped, NoTokenIsNone
<1>9. Answer(r, TRUE, t)
  BY <1>4, <1>6, <1>8
<1> QED
  BY <1>1, <1>8, <1>9 DEF Answer, LoginInv, LoginTypeOK, Callback

LEMMA UndisturbedAnswers ==
    ASSUME RowsAreTyped, NoTokenIsNone, LoginInv, CookiesInv, RequestsInv,
           NEW l \in Login, NEW i \in 1..Sends, Answers(<<l, i>>),
           NEW u \in Login, UndisturbedLogin(u), u \notin disturbed'
    PROVE  UndisturbedLogin(u)'
<1>1. AnswersChange(l, i)
  BY AnswersEffect DEF LoginInv
<1>2. /\ logins' = logins /\ cookies' = cookies /\ sessions' = sessions
      /\ \A c \in codes : c.code # l => c \in codes'
  BY <1>1 DEF AnswersChange
<1>3. UnderWay' = UnderWay
  BY <1>2 DEF UnderWay
<1>4. CASE u # l
  <2>1. \A j \in 1..Sends : callbacks'[<<u, j>>] = callbacks[<<u, j>>]
    BY <1>1, <1>4 DEF AnswersChange
  <2>2. \A c \in codes : c.code = u => c \in codes'
    BY <1>2, <1>4
  <2> QED
    BY <1>2, <1>3, <2>1, <2>2, Bystander
<1>5. CASE u = l
  <2>1. callbacks[<<u, i>>].pc = "sent" /\ logins[u].pc \in {"calling", "over"}
    BY <1>1, <1>5 DEF AnswersChange, RequestsInv
  <2>2. logins[u].pc = "calling" /\ WellSetUp(u) => OneSent(u)'
    <3> SUFFICES ASSUME logins[u].pc = "calling", WellSetUp(u)
                 PROVE  OneSent(u)'
      OBVIOUS
    <3>1. OneSent(u)
      BY DEF UndisturbedLogin
    <3>2. /\ ~(i > 1) /\ callbacks[<<u, i>>].heard /\ callbacks[<<u, i>>].state = u
          /\ CodesOf(u) # {}
      BY <2>1, <3>1 DEF OneSent
    <3>3. callbacks'[<<u, i>>].pc = "answered" /\ callbacks'[<<u, i>>].token # NoToken
      BY <1>5, <3>2, AnswerHolds DEF WellSetUp
    <3>4. /\ callbacks'[<<u, i>>].heard
          /\ \A j \in 1..Sends : j # i => callbacks'[<<u, j>>] = callbacks[<<u, j>>]
      BY <1>1, <1>5, <3>2 DEF AnswersChange
    <3>5. \A j \in 1..Sends : (j = i => ~(j > 1)) /\ (j # i => j > 1)
      BY <3>2, RowsAreTyped
    <3> QED
      BY <3>1, <3>3, <3>4, <3>5 DEF OneSent
  <2>3. WellSetUp(u)' <=> WellSetUp(u)
    BY <1>2 DEF WellSetUp, FitsIssuer, AllowsCallbackMethod, WantsSignedSecret, SignsSecret,
                Carried, CarriesCookies, Method, IsApple
  <2> QED
    BY <1>2, <1>3, <2>1, <2>2, <2>3 DEF UndisturbedLogin
<1> QED
  BY <1>4, <1>5

LEMMA UndisturbedLanding ==
    ASSUME RowsAreTyped, LoginTypeOK, CookiesInv, RequestsInv, StaleInv,
           NEW l \in Login, NEW i \in 1..Sends, Land(<<l, i>>),
           NEW u \in Login, UndisturbedLogin(u)
    PROVE  UndisturbedLogin(u)'
<1> DEFINE b == callbacks[<<l, i>>]
<1>1. LandChange(l, i)
  BY LandEffect
<1>2. /\ b.pc = "answered"
      /\ \A k \in Login : logins'[k].provider = logins[k].provider /\ (k # l => logins'[k] = logins[k])
      /\ b.heard => logins'[l].pc = "over"
      /\ ~b.heard => logins' = logins
      /\ cookies' = cookies \/ (b.heard /\ b.clears)
      /\ codes' = codes /\ sessions \subseteq sessions'
  BY <1>1 DEF LandChange
<1>3. UnderWay' \subseteq UnderWay
  BY <1>2 DEF UnderWay
<1>4. CASE u # l
  <2>1. \A j \in 1..Sends : callbacks'[<<u, j>>] = callbacks[<<u, j>>]
    BY <1>1, <1>4 DEF LandChange
  <2>2. ASSUME logins[u].pc \in {"asking", "granted", "calling"}, b.heard, b.clears PROVE FALSE
    <3>1. b.state = l
      BY <1>2, <2>2 DEF CookiesInv
    <3>2. logins[l].pc = "calling"
      BY <1>2, <2>2, <3>1 DEF StaleInv
    <3> QED
      BY <1>4, <2>2, <3>2, AloneUnderWay DEF UnderWay
  <2> QED
    BY <1>2, <1>3, <1>4, <2>1, <2>2, Bystander
<1>5. CASE u = l
  <2>1. logins[u].pc \in {"calling", "over"}
    BY <1>2, <1>5 DEF RequestsInv
  <2>2. logins[u].pc = "calling" /\ WellSetUp(u) => b.heard /\ b.token # NoToken
    BY <1>2, <1>5 DEF UndisturbedLogin, OneSent
  <2>3. CASE b.heard
    <3>1. b.token # NoToken => \E s \in sessions' : s.login = u
      <4>1. ASSUME b.token # NoToken PROVE Handed(<<l, i>>) \in sessions'
        BY <2>3, <4>1 DEF Land, Succeeds
      <4>2. Handed(<<l, i>>).login = u
        BY <1>5 DEF Handed
      <4> QED
        BY <4>1, <4>2
    <3>2. WellSetUp(u)' <=> WellSetUp(u)
      BY <1>2 DEF WellSetUp, FitsIssuer, AllowsCallbackMethod, WantsSignedSecret, SignsSecret,
                  Carried, CarriesCookies, Method, IsApple
    <3>3. u \notin UnderWay' /\ logins'[u].pc = "over"
      BY <1>2, <1>5, <2>3 DEF UnderWay
    <3>4. logins[u].pc = "over" /\ WellSetUp(u) => \E s \in sessions' : s.login = u
      BY <1>2 DEF UndisturbedLogin
    <3> QED
      BY <2>1, <2>2, <3>1, <3>2, <3>3, <3>4 DEF UndisturbedLogin
  <2>4. CASE ~b.heard
    <3>1. logins' = logins /\ cookies' = cookies
      BY <1>2, <2>4
    <3> QED
      BY <1>2, <1>3, <2>2, <2>4, <3>1, Bystander
  <2> QED
    BY <2>3, <2>4
<1> QED
  BY <1>4, <1>5

\* Every step keeps what is known of undisturbed logins.
LEMMA FlowStep ==
    ASSUME RowsAreTyped, NoTokenIsNone, LoginInv, FlowInv, [LoginNext]_loginVars
    PROVE  FlowInv'
<1> USE DEF LoginInv, FlowInv
<1>1. CookiesInv' /\ RequestsInv' /\ StaleInv'
  BY CookiesStep, RequestsStep, StaleStep
<1>2. UndisturbedInv'
  <2> SUFFICES ASSUME NEW u \in Login, u \notin disturbed'
               PROVE  UndisturbedLogin(u)'
    BY DEF UndisturbedInv
  <2>1. disturbed \subseteq disturbed'
    BY DEF LoginNext, LoginStep, loginVars, BeginLogin, FollowLogin, Authorize, AppleAuthorize, Grants,
           Decline, SendCallback, Reload, RefuseCallback, Exchange, FailCallback, LoseExchange,
           ExpireCookies, ExpireCode, Land
  <2>2. UndisturbedLogin(u)
    BY <2>1 DEF UndisturbedInv
  <2>3. CASE Elsewhere
    BY <2>2, <2>3, UndisturbedElsewhere
  <2>4. ASSUME NEW l \in Login, SendCallback(l) \/ \E i \in 2..Sends : Reload(l, i)
        PROVE  UndisturbedLogin(u)'
    <3>1. SendChange(l) \/ \E i \in 2..Sends : ReloadChange(l, i)
      BY <2>4, SendEffect, ReloadEffect
    <3> QED
      BY <2>2, <3>1, UndisturbedRequests
  <2>5. ASSUME NEW l \in Login, NEW i \in 1..Sends, Answers(<<l, i>>) PROVE UndisturbedLogin(u)'
    BY <2>2, <2>5, UndisturbedAnswers
  <2>6. ASSUME NEW l \in Login, NEW i \in 1..Sends, Land(<<l, i>>) PROVE UndisturbedLogin(u)'
    BY <2>2, <2>6, UndisturbedLanding
  <2> QED
    BY <2>3, <2>4, <2>5, <2>6, StepKinds
<1> QED
  BY <1>1, <1>2

LEMMA FlowAlways == LoginSpec => []FlowInv
<1>1. LoginInit => FlowInv
  BY FlowInit, RowsAreTyped
<1>2. LoginInv /\ FlowInv /\ [LoginNext]_loginVars => FlowInv'
  BY FlowStep, RowsAreTyped, NoTokenIsNone
<1> QED
  BY <1>1, <1>2, InvAlways, PTL DEF LoginSpec

\* A login with a well set up row, whose callback brings the cookies along, ends with
\* a session if no other login of the browser overlaps with it, the user does not
\* decline, cookies and code do not expire, the provider answers and the callback is
\* not reloaded before its answer is there.  Old callbacks, reloaded whenever the user
\* likes, neither use nor clear its cookies.  On https every callback brings them along.
THEOREM LoginsSucceed ==
    ASSUME \A p \in Configured : FitsIssuer(p) => CarriesCookies(p)
    PROVE  LoginSpec => []UndisturbedLoginSucceeds
<1>1. LoginInv /\ FlowInv => UndisturbedLoginSucceeds
  BY DEF LoginInv, RowsInv, FlowInv, UndisturbedInv, UndisturbedLogin, WellSetUp, Carried,
         UndisturbedLoginSucceeds
<1> QED
  BY <1>1, InvAlways, FlowAlways, PTL
=============================================================================
