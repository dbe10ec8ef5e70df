-------------------------- MODULE UserRegistration --------------------------
(***************************************************************************)
(* From a stored session to a row of users: the pages of one browser load  *)
(* the session from localStorage, look their user up and, if there is      *)
(* none, create it; the user renames himself and signs out.                *)
(*                                                                         *)
(* Pages share localStorage: the session, the wish to skip the profile and *)
(* the name that Apple gives away once, which CompleteLogin puts into the  *)
(* redirect.  A page reads its claims once, but every call takes the       *)
(* bearer token that is stored when it is sent.  An account stands for a   *)
(* row of oidc_providers with a subject of it; how a sign-in gets that far *)
(* is in OAuthLogin.  A token is as good as its account: expired ones are  *)
(* refused, which is a lost call here.                                     *)
(***************************************************************************)
EXTENDS Naturals, FiniteSets

CONSTANTS
    Account,    \* an identity provider's subjects
    Named,      \* those whose id token has a name
    Page,       \* pages loaded, which are also the ids of the rows they create: a bound
    SignIns,    \* how many sign-ins are begun: a bound
    NoAccount, NoName, NoUser

ASSUME AccountsAreTyped ==
    /\ Named \subseteq Account
    /\ NoAccount \notin Account /\ NoUser \notin Page
    /\ SignIns \in Nat

VARIABLES
    users,       \* the table
    session,     \* localStorage: the tokens
    skipProfile, \* localStorage: the choice of the sign-in dialog
    pendingName, \* localStorage: the name of the callback's redirect
    pages,       \* loadAuthState of each page
    refreshing,  \* the account whose tokens a page's refresh is about to store
    signins,     \* the sign-ins, from the dialog to AuthCallback
    given,       \* accounts whose provider has given their name away
    quiet,       \* the sign-in since whose start no other one, page or refresh came; for checking
    expected,    \* the row that the next page is to create after such a sign-in; for checking
    switched,    \* pages under which the session changed while they loaded; for checking
    crossed      \* a refresh has brought an older session back; for checking

userVars == <<users, session, skipProfile, pendingName, pages, refreshing, signins, given,
              quiet, expected, switched, crossed>>

browserVars == <<session, skipProfile, pendingName, refreshing, signins, given, quiet,
                 expected, switched, crossed>>

SignIn == 1..SignIns

NoSignIn == 0

\* A name remembers who brought it: the provider, or a PATCH of the bearer's.
Name == {NoName} \cup ({"provided", "chosen"} \X Account)

Provided(a) == <<"provided", a>>

Row == [account : Account \cup {NoAccount}, name : Name]

NoRow == [account |-> NoAccount, name |-> NoName]

LoadingPcs == {"listing", "listed", "creating", "created", "conflict"}

PageRecord == [pc : {"none", "in", "failed", "signed out", "left"} \cup LoadingPcs, open : BOOLEAN,
               claims : Account \cup {NoAccount}, bearer : Account \cup {NoAccount},
               name : Name, skip : BOOLEAN, again : BOOLEAN, user : Page \cup {NoUser},
               expected : Row]

Fresh == [pc |-> "none", open |-> TRUE, claims |-> NoAccount, bearer |-> NoAccount,
          name |-> NoName, skip |-> FALSE, again |-> FALSE, user |-> NoUser, expected |-> NoRow]

\* loadAuthState returns, and what only it knew is gone.
Ended(pc) == [Fresh EXCEPT !.pc = pc]

SignInRecord == [pc : {"none", "begun", "done"}, account : Account \cup {NoAccount},
                 skip : BOOLEAN, name : Name]

NoSignInYet == [pc |-> "none", account |-> NoAccount, skip |-> FALSE, name |-> NoName]

UserInit ==
    /\ users = [i \in Page |-> NoRow]
    /\ session = NoAccount
    /\ skipProfile = FALSE
    /\ pendingName = NoName
    /\ pages = [p \in Page |-> Fresh]
    /\ refreshing = [p \in Page |-> NoAccount]
    /\ signins = [s \in SignIn |-> NoSignInYet]
    /\ given = {}
    /\ quiet = NoSignIn
    /\ expected = NoRow
    /\ switched = {}
    /\ crossed = FALSE

Loading(p) == pages[p].open /\ pages[p].pc \in LoadingPcs

\* The row of an account, if there is one.
RowsOf(a) == {i \in Page : users[i].account = a}

RowOf(a) == IF RowsOf(a) = {} THEN NoUser ELSE CHOOSE i \in RowsOf(a) : TRUE

\* Tokens of account a are stored, or removed: those of the pages P that are
\* loading somebody else's session go on with them.
Store(a, P) ==
    /\ session' = a
    /\ switched' = switched \cup {p \in P : Loading(p) /\ pages[p].claims # a}

Disturb == quiet' = NoSignIn /\ expected' = NoRow

\* The session of page p is removed.
Forget(p) == Store(NoAccount, Page \ {p}) /\ Disturb

\* The row of a sign-in that nothing comes between: with the provider's name,
\* in the token or given away once, unless the user skips the profile.
RowFor(s) ==
    [account |-> s.account,
     name |-> IF s.skip THEN NoName ELSE IF s.account \in Named THEN Provided(s.account) ELSE s.name]

-----------------------------------------------------------------------------
(* Signing in, and the refresh of tokens.                                  *)

\* The user picks a provider, which recognizes or registers him there.
BeginSignIn(s, a, skip) ==
    /\ signins[s].pc = "none"
    /\ \A r \in 1..(s - 1) : signins[r].pc # "none"
    /\ LET oneTime == a \notin Named /\ a \notin given
       IN signins' = [signins EXCEPT ![s] = [pc |-> "begun", account |-> a, skip |-> skip,
                                             name |-> IF oneTime THEN Provided(a) ELSE NoName]]
    /\ given' = given \cup ({a} \ Named)
    /\ skipProfile' = skip
    /\ quiet' = s
    /\ expected' = NoRow
    /\ UNCHANGED <<users, session, pendingName, pages, refreshing, switched, crossed>>

\* Mutant: a sign-in without a name leaves the name of an older one.
FinishKeepingName(s) ==
    /\ signins[s].pc = "begun"
    /\ signins' = [signins EXCEPT ![s] = [NoSignInYet EXCEPT !.pc = "done"]]
    /\ Store(signins[s].account, Page)
    /\ pendingName' = IF signins[s].name # NoName THEN signins[s].name ELSE pendingName
    /\ quiet' = NoSignIn
    /\ expected' = IF quiet = s THEN RowFor(signins[s]) ELSE NoRow
    /\ UNCHANGED <<users, skipProfile, pages, refreshing, given, crossed>>

\* AuthCallback stores the session and the name, or forgets an older name.
FinishSignIn(s) ==
    /\ signins[s].pc = "begun"
    /\ signins' = [signins EXCEPT ![s] = [NoSignInYet EXCEPT !.pc = "done"]]
    /\ Store(signins[s].account, Page)
    /\ pendingName' = signins[s].name
    /\ quiet' = NoSignIn
    /\ expected' = IF quiet = s THEN RowFor(signins[s]) ELSE NoRow
    /\ UNCHANGED <<users, skipProfile, pages, refreshing, given, crossed>>

\* A page refreshes before it loads, and from time to time once it is in.
StartRefresh(p) ==
    /\ pages[p].pc \in {"none", "in"} /\ session # NoAccount /\ refreshing[p] = NoAccount
    /\ refreshing' = [refreshing EXCEPT ![p] = session]
    /\ UNCHANGED <<users, session, skipProfile, pendingName, pages, signins, given, quiet,
                   expected, switched, crossed>>

\* The new tokens are stored whatever has happened to the old ones.
EndRefresh(p) ==
    /\ refreshing[p] # NoAccount
    /\ refreshing' = [refreshing EXCEPT ![p] = NoAccount]
    /\ Store(refreshing[p], Page)
    /\ crossed' = (crossed \/ session # refreshing[p])
    /\ Disturb
    /\ UNCHANGED <<users, skipProfile, pendingName, pages, signins, given>>

\* The provider refuses, or the call is lost.
DropRefresh(p) ==
    /\ refreshing[p] # NoAccount
    /\ refreshing' = [refreshing EXCEPT ![p] = NoAccount]
    /\ UNCHANGED <<users, session, skipProfile, pendingName, pages, signins, given, quiet,
                   expected, switched, crossed>>

\* A page that ends before it loads, since its refresh throws or leaves it no
\* usable session, removes the session that is stored by then.
FailRefresh(p) ==
    /\ pages[p].pc = "none" /\ refreshing[p] # NoAccount
    /\ refreshing' = [refreshing EXCEPT ![p] = NoAccount]
    /\ pages' = [pages EXCEPT ![p] = Ended("left")]
    /\ Forget(p)
    /\ UNCHANGED <<users, skipProfile, pendingName, signins, given, crossed>>

-----------------------------------------------------------------------------
(* A page loads.                                                           *)

\* What is kept for one sign-in only is taken by the first page that loads.
Load(p) ==
    /\ pages[p].pc = "none" /\ session # NoAccount /\ refreshing[p] = NoAccount
    /\ pages' = [pages EXCEPT ![p] =
                  [@ EXCEPT !.pc = "listing", !.claims = session, !.skip = skipProfile,
                            !.name = pendingName, !.expected = expected]]
    /\ skipProfile' = FALSE
    /\ pendingName' = NoName
    /\ Disturb
    /\ UNCHANGED <<users, session, refreshing, signins, given, switched, crossed>>

\* GET /user asks for the claims' subject, whoever the bearer is.
ServeList(p) ==
    /\ pages[p].pc = "listing"
    /\ pages' = [pages EXCEPT ![p] = [@ EXCEPT !.pc = "listed", !.user = RowOf(pages[p].claims)]]
    /\ UNCHANGED <<users, browserVars>>

HearUser(p) ==
    /\ Loading(p) /\ pages[p].pc \in {"listed", "created"} /\ pages[p].user # NoUser
    /\ pages' = [pages EXCEPT ![p] = [Ended("in") EXCEPT !.claims = pages[p].claims,
                                                         !.user = pages[p].user]]
    /\ UNCHANGED <<users, browserVars>>

HearNone(p) ==
    /\ Loading(p) /\ pages[p].pc = "listed" /\ pages[p].user = NoUser /\ ~pages[p].again
    /\ session # NoAccount
    /\ pages' = [pages EXCEPT ![p] = [@ EXCEPT !.pc = "creating", !.bearer = session]]
    /\ UNCHANGED <<users, browserVars>>

\* A name in the token wins over the one in the body, which is taken on
\* trust; a profile to be skipped gets none.
NameFor(p) ==
    LET a == pages[p].bearer
    IN IF pages[p].skip THEN NoName
       ELSE IF a \in Named THEN Provided(a) ELSE pages[p].name

Insert(p) == users' = [users EXCEPT ![p] = [account |-> pages[p].bearer, name |-> NameFor(p)]]

\* Mutant: nothing in the table keeps a subject from a second row.
CreateAnyway(p) ==
    /\ pages[p].pc = "creating"
    /\ Insert(p)
    /\ pages' = [pages EXCEPT ![p] = [@ EXCEPT !.pc = "created", !.user = p]]
    /\ UNCHANGED browserVars

\* Mutant: the row is answered and not inserted.
CreateNothing(p) ==
    /\ pages[p].pc = "creating"
    /\ RowsOf(pages[p].bearer) = {}
    /\ pages' = [pages EXCEPT ![p] = [@ EXCEPT !.pc = "created", !.user = p]]
    /\ UNCHANGED <<users, browserVars>>

\* POST /user creates the row of the bearer, or answers 409.
ServeCreate(p) ==
    /\ pages[p].pc = "creating"
    /\ IF RowsOf(pages[p].bearer) = {}
       THEN /\ Insert(p)
            /\ pages' = [pages EXCEPT ![p] = [@ EXCEPT !.pc = "created", !.user = p]]
       ELSE /\ pages' = [pages EXCEPT ![p].pc = "conflict"]
            /\ UNCHANGED users
    /\ UNCHANGED browserVars

\* Mutant: after a conflict everything starts over.
StartOver(p) ==
    /\ Loading(p) /\ pages[p].pc = "conflict" /\ session # NoAccount
    /\ pages' = [pages EXCEPT ![p].pc = "listing"]
    /\ UNCHANGED <<users, browserVars>>

\* Mutant: a conflict is an error as any other.
GiveUp(p) ==
    /\ Loading(p) /\ pages[p].pc = "conflict" /\ session # NoAccount
    /\ pages' = [pages EXCEPT ![p] = Ended("failed")]
    /\ Forget(p)
    /\ UNCHANGED <<users, skipProfile, pendingName, refreshing, signins, given, crossed>>

\* After a 409 the page looks its user up once more.
HearConflict(p) ==
    /\ Loading(p) /\ pages[p].pc = "conflict" /\ session # NoAccount
    /\ pages' = [pages EXCEPT ![p] = [@ EXCEPT !.pc = "listing", !.again = TRUE]]
    /\ UNCHANGED <<users, browserVars>>

\* There is no token for the next call, or no row after a 409.  Whatever
\* goes wrong, loadAuthState removes the session that is stored by then.
Throw(p) ==
    /\ Loading(p)
    /\ \/ pages[p].pc = "listed" /\ pages[p].user = NoUser
       \/ pages[p].pc = "conflict"
    /\ session = NoAccount \/ pages[p].again
    /\ pages' = [pages EXCEPT ![p] = Ended("failed")]
    /\ Forget(p)
    /\ UNCHANGED <<users, skipProfile, pendingName, refreshing, signins, given, crossed>>

\* Nobody waits for the answer any more; the server creates a row all the same.
Leave(p) ==
    pages' = [pages EXCEPT ![p] = IF @.pc = "creating" THEN [@ EXCEPT !.open = FALSE]
                                  ELSE Ended("left")]

\* A call or its answer is lost.
LoseCall(p) ==
    /\ Loading(p)
    /\ Leave(p)
    /\ Forget(p)
    /\ UNCHANGED <<users, skipProfile, pendingName, refreshing, signins, given, crossed>>

\* The user closes the page while it loads.
Close(p) ==
    /\ Loading(p)
    /\ Leave(p)
    /\ UNCHANGED <<users, browserVars>>

-----------------------------------------------------------------------------
(* A page that is in.                                                      *)

\* Also what a failed refresh does.
SignOut(p) ==
    /\ pages[p].pc = "in"
    /\ pages' = [pages EXCEPT ![p] = Ended("signed out")]
    /\ Forget(p)
    /\ UNCHANGED <<users, skipProfile, pendingName, refreshing, signins, given, crossed>>

UpdateName(i, name) == users' = [users EXCEPT ![i].name = name]

\* The bearer has to be the user he renames.
MayRename(p) == RowOf(session) = pages[p].user

\* Mutant: whoever has a row may rename the user of the page.
RenameAny(p) ==
    /\ pages[p].pc = "in" /\ session # NoAccount
    /\ RowOf(session) # NoUser
    /\ UpdateName(pages[p].user, <<"chosen", session>>)
    /\ UNCHANGED <<pages, browserVars>>

\* PATCH /user/{id} names the page's user, or takes his name away.
Rename(p) ==
    /\ pages[p].pc = "in" /\ session # NoAccount
    /\ MayRename(p)
    /\ \E name \in {<<"chosen", session>>, NoName} : UpdateName(pages[p].user, name)
    /\ UNCHANGED <<pages, browserVars>>

-----------------------------------------------------------------------------

ServerStep(p) == ServeList(p) \/ ServeCreate(p)

PageStep(p) == HearUser(p) \/ HearNone(p) \/ HearConflict(p) \/ Throw(p)

UserNext ==
    \/ \E s \in SignIn :
         \/ \E a \in Account, skip \in BOOLEAN : BeginSignIn(s, a, skip)
         \/ FinishSignIn(s)
    \/ \E p \in Page :
         \/ StartRefresh(p)
         \/ EndRefresh(p)
         \/ DropRefresh(p)
         \/ FailRefresh(p)
         \/ Load(p)
         \/ ServerStep(p)
         \/ PageStep(p)
         \/ LoseCall(p)
         \/ Close(p)
         \/ SignOut(p)
         \/ Rename(p)

UserSpec == UserInit /\ [][UserNext]_userVars

\* The server answers every call, and pages go on with its answers.
UserFairSpec ==
    UserSpec /\ \A p \in Page : WF_userVars(ServerStep(p)) /\ WF_userVars(PageStep(p))

-----------------------------------------------------------------------------
(* Properties.                                                             *)

UsersTypeOK ==
    /\ users \in [Page -> Row]
    /\ session \in Account \cup {NoAccount}
    /\ skipProfile \in BOOLEAN
    /\ pendingName \in Name
    /\ pages \in [Page -> PageRecord]
    /\ refreshing \in [Page -> Account \cup {NoAccount}]
    /\ signins \in [SignIn -> SignInRecord]
    /\ given \subseteq Account
    /\ quiet \in SignIn \cup {NoSignIn}
    /\ expected \in Row
    /\ switched \subseteq Page
    /\ crossed \in BOOLEAN
    /\ \A p \in Page : pages[p].user # NoUser => users[pages[p].user].account # NoAccount

\* However pages race to register, an account has one row, and every page that
\* is in, and whose session did not change while it loaded, shows the row of the
\* account it loaded (ensureUserRegistered, the unique index of users).
PagesAgree ==
    /\ \A i, j \in Page : users[i].account = users[j].account => i = j \/ users[i].account = NoAccount
    /\ \A p \in Page \ switched : pages[p].pc = "in" => pages[p].user \in RowsOf(pages[p].claims)

\* A page all of whose calls are answered fails, and signs the browser out, only
\* if the session was changed under it: losing the race to register is no failure
\* (ensureUserRegisteredOnce).
FailuresAreSwitches ==
    \A p \in Page : pages[p].pc = "failed" => p \in switched

\* The name of a row was chosen by its user, whatever session other tabs have
\* stored since; or it is of his own provider, unless the session changed under
\* the page that created the row or a refresh brought an older session back
\* (UpdateName, and the name that AuthCallback stashes for the next POST /user).
NamesAreOwn ==
    \A i \in Page :
        LET u == users[i]
        IN u.name # NoName =>
             \/ u.name[2] = u.account
             \/ u.name[1] = "provided" /\ (crossed \/ i \in switched)

\* If nothing comes between a sign-in and the page that loads its session, a row
\* that this page creates has the provider's name, or none if the user chose to
\* skip the profile, and also a name that the provider gives away once is there.
ProfileAsChosen ==
    [][\A p \in Page \ switched :
         /\ pages[p].expected # NoRow
         /\ users[p].account = NoAccount /\ users'[p].account # NoAccount
         => users'[p] = pages[p].expected]_userVars

\* A page that starts to load ends: it is in, it fails, or its call is lost or the
\* page closed (loadAuthState's one retry after a 409).
PageLoadsEnd ==
    \A p \in Page : pages[p].pc = "listing" ~> ~Loading(p)
=============================================================================
