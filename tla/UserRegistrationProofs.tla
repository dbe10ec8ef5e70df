---------------------- MODULE UserRegistrationProofs ----------------------
(***************************************************************************)
(* Proofs about UserRegistration, for any accounts, pages and sign-ins.    *)
(***************************************************************************)
EXTENDS UserRegistration, TLAPS

\* The page may still create its row.
Ahead(p) == pages[p].pc \in {"none", "listing", "listed", "creating"} /\ ~pages[p].again

\* A page that may still create its row has none; one that loads has claims, and
\* those are of the session unless it was switched.
LoadInv(p) ==
    LET g == pages[p]
    IN /\ Ahead(p) => users[p].account = NoAccount
       /\ g.pc \in LoadingPcs \cup {"in"} => g.claims \in Account
       /\ Loading(p) /\ p \notin switched => session = g.claims
       /\ g.again => g.pc \in {"listing", "listed"}

\* The row that a page has found or created is of its claims, and so is the one
\* that beat it to it.
RowInv(p) ==
    LET g == pages[p]
    IN /\ g.pc \in {"creating", "created", "conflict"} =>
            g.bearer \in Account /\ (p \notin switched => g.bearer = g.claims)
       /\ g.pc = "created" => g.user = p /\ users[p].account = g.bearer
       /\ g.pc = "listed" /\ g.user # NoUser => users[g.user].account = g.claims
       /\ g.pc = "in" => g.user # NoUser /\ (p \notin switched => users[g.user].account = g.claims)
       /\ g.pc = "conflict" => RowsOf(g.bearer) # {}
       /\ g.again /\ p \notin switched => RowsOf(g.claims) # {}
       /\ g.again /\ p \notin switched /\ g.pc = "listed" => g.user # NoUser
       /\ g.pc = "failed" => p \in switched

\* The name that a row is to have if nothing comes between.
ChosenName(skip, a, name) == IF skip THEN NoName ELSE IF a \in Named THEN Provided(a) ELSE name

\* A page has the name of its account, unless a refresh brought another session back.
PageNameInv(p) ==
    LET g == pages[p]
    IN /\ g.name # NoName => g.name[1] = "provided" /\ (crossed \/ g.name[2] = g.claims)
       /\ g.expected # NoRow =>
            /\ g.expected.account = g.claims
            /\ g.expected.name = ChosenName(g.skip, g.claims, g.name)

RowsAreUnique ==
    \A i, j \in Page : users[i].account = users[j].account => i = j \/ users[i].account = NoAccount

\* What AuthCallback has stored is of the session, and is what a page is to expect.
StashInv ==
    /\ pendingName # NoName =>
         pendingName[1] = "provided" /\ (crossed \/ session \in {NoAccount, pendingName[2]})
    /\ \A s \in SignIn : signins[s].name # NoName => signins[s].name = Provided(signins[s].account)
    /\ quiet # NoSignIn => signins[quiet].pc = "begun" /\ signins[quiet].skip = skipProfile
    /\ expected # NoRow => /\ expected.account = session
                           /\ expected.name = ChosenName(skipProfile, session, pendingName)

UsersInv ==
    /\ UsersTypeOK /\ RowsAreUnique /\ StashInv /\ NamesAreOwn
    /\ \A p \in Page : LoadInv(p) /\ RowInv(p) /\ PageNameInv(p)

-----------------------------------------------------------------------------
(* Types.                                                                  *)

LEMMA EndedTyped ==
    /\ Fresh \in PageRecord
    /\ \A pc \in {"failed", "signed out", "left"} : Ended(pc) \in PageRecord
    /\ \A a \in Account, u \in Page :
         [Ended("in") EXCEPT !.claims = a, !.user = u] \in PageRecord
<1>1. NoRow \in Row
  BY DEF NoRow, Row, Name
<1>2. Fresh \in PageRecord
  BY <1>1 DEF Fresh, PageRecord, LoadingPcs, Name
<1> QED
  BY <1>1, <1>2 DEF Ended, Fresh, PageRecord, LoadingPcs, Name

LEMMA RowOfTyped ==
    ASSUME NEW a
    PROVE  /\ RowOf(a) \in Page \cup {NoUser}
           /\ RowOf(a) # NoUser => users[RowOf(a)].account = a
           /\ RowsOf(a) # {} => RowOf(a) \in Page
BY AccountsAreTyped DEF RowOf, RowsOf

LEMMA NamesTyped ==
    /\ \A a \in Account : Provided(a) \in Name /\ <<"chosen", a>> \in Name
    /\ NoName \in Name
BY DEF Name, Provided

\* A page's next record has its type.
LEMMA PageFields ==
    ASSUME UsersTypeOK, NEW p \in Page
    PROVE  /\ pages[p] \in PageRecord
           /\ \A a \in Account, skip \in BOOLEAN, n \in Name, x \in Row :
                [pages[p] EXCEPT !.pc = "listing", !.claims = a, !.skip = skip,
                                 !.name = n, !.expected = x] \in PageRecord
           /\ \A u \in Page \cup {NoUser} :
                /\ [pages[p] EXCEPT !.pc = "listed", !.user = u] \in PageRecord
                /\ [pages[p] EXCEPT !.pc = "created", !.user = u] \in PageRecord
           /\ \A a \in Account : [pages[p] EXCEPT !.pc = "creating", !.bearer = a] \in PageRecord
           /\ [pages[p] EXCEPT !.pc = "conflict"] \in PageRecord
           /\ [pages[p] EXCEPT !.pc = "listing", !.again = TRUE] \in PageRecord
           /\ [pages[p] EXCEPT !.open = FALSE] \in PageRecord
<1>1. pages[p] \in PageRecord
  BY DEF UsersTypeOK
<1> QED
  BY <1>1 DEF PageRecord, LoadingPcs

\* The types but for what they say of rows that pages show.
Types ==
    /\ users \in [Page -> Row]
    /\ session \in Account \cup {NoAccount}
    /\ skipProfile \in BOOLEAN
    /\ pendingName \in Name
    /\ pages \in [Page -> PageRecord]
    /\ refreshing \in [Page -> Account \cup {NoAccount}]
    /\ signins \in [SignIn -> SignInRecord]
    /\ given \subseteq Account
    /\ quiet \in SignIn \cup {NoSignIn}
    /\ expected \in Row
    /\ switched \subseteq Page
    /\ crossed \in BOOLEAN

LEMMA TypesInit ==
    ASSUME UserInit
    PROVE  UsersTypeOK
<1>1. NoRow \in Row
  BY DEF NoRow, Row, Name
<1>2. NoSignInYet \in SignInRecord
  BY DEF NoSignInYet, SignInRecord, Name
<1> QED
  BY <1>1, <1>2, EndedTyped DEF UserInit, UsersTypeOK, Fresh, Name

\* Steps of a sign-in keep the types.
LEMMA SignInTyped ==
    ASSUME UsersTypeOK, NEW s \in SignIn,
           (\E a \in Account, skip \in BOOLEAN : BeginSignIn(s, a, skip)) \/ FinishSignIn(s)
    PROVE  Types'
<1>1. NoRow \in Row /\ NoSignInYet \in SignInRecord
  BY DEF NoRow, Row, Name, NoSignInYet, SignInRecord
<1>2. ASSUME NEW a \in Account, NEW skip \in BOOLEAN, BeginSignIn(s, a, skip) PROVE Types'
  <2>1. \A n \in Name : [pc |-> "begun", account |-> a, skip |-> skip, name |-> n] \in SignInRecord
    BY DEF SignInRecord
  <2>2. signins' \in [SignIn -> SignInRecord]
    BY <1>2, <2>1, NamesTyped DEF BeginSignIn, UsersTypeOK
  <2> QED
    BY <1>1, <1>2, <2>2 DEF BeginSignIn, UsersTypeOK, Types, SignInRecord
<1>3. CASE FinishSignIn(s)
  <2>1. /\ signins[s] \in SignInRecord /\ signins[s].name \in Name
        /\ signins[s].account \in Account \cup {NoAccount}
    BY DEF UsersTypeOK, SignInRecord
  <2>2. [NoSignInYet EXCEPT !.pc = "done"] \in SignInRecord
    BY DEF NoSignInYet, SignInRecord, Name
  <2>3. ASSUME signins[s].account \in Account PROVE RowFor(signins[s]) \in Row
    BY <2>1, <2>3, NamesTyped DEF RowFor, Row
  <2>4. ASSUME signins[s].account = NoAccount PROVE RowFor(signins[s]) \in Row
    BY <2>1, <2>4, NamesTyped, AccountsAreTyped DEF RowFor, Row
  <2>5. expected' \in Row
    BY <1>1, <1>3, <2>1, <2>3, <2>4 DEF FinishSignIn
  <2> QED
    BY <1>3, <2>1, <2>2, <2>5 DEF FinishSignIn, Store, UsersTypeOK, Types
<1> QED
  BY <1>2, <1>3

LEMMA RefreshTyped ==
    ASSUME UsersTypeOK, NEW p \in Page, StartRefresh(p) \/ EndRefresh(p) \/ DropRefresh(p)
    PROVE  Types'
<1>1. NoRow \in Row
  BY DEF NoRow, Row, Name
<1>2. CASE StartRefresh(p)
  BY <1>2 DEF StartRefresh, UsersTypeOK, Types
<1>3. CASE EndRefresh(p)
  BY <1>1, <1>3 DEF EndRefresh, Store, Disturb, UsersTypeOK, Types
<1>4. CASE DropRefresh(p)
  BY <1>4 DEF DropRefresh, UsersTypeOK, Types
<1> QED
  BY <1>2, <1>3, <1>4

LEMMA LeaveTyped ==
    ASSUME UsersTypeOK, NEW p \in Page, Leave(p)
    PROVE  pages' \in [Page -> PageRecord]
BY PageFields, EndedTyped DEF Leave, UsersTypeOK

\* A row that is written has its type.
LEMMA NameForTyped ==
    ASSUME UsersTypeOK, NEW p \in Page, pages[p].bearer \in Account
    PROVE  /\ NameFor(p) \in Name
           /\ [account |-> pages[p].bearer, name |-> NameFor(p)] \in Row
<1>1. pages[p].name \in Name
  BY DEF UsersTypeOK, PageRecord
<1>2. NameFor(p) \in Name
  BY <1>1, NamesTyped DEF NameFor
<1> QED
  BY <1>2 DEF Row

\* Steps of a page keep the types.
LEMMA PageTyped ==
    ASSUME UsersInv, NEW p \in Page,
           \/ Load(p) \/ ServerStep(p) \/ PageStep(p) \/ LoseCall(p) \/ Close(p)
           \/ SignOut(p) \/ FailRefresh(p)
           \/ Rename(p)
    PROVE  Types'
<1> USE DEF UsersInv
<1>1. NoRow \in Row /\ NoAccount \notin Account
  BY AccountsAreTyped DEF NoRow, Row, Name
<1>2. CASE Load(p)
  <2>1. session \in Account
    BY <1>2 DEF Load, UsersTypeOK
  <2>2. pages' \in [Page -> PageRecord]
    BY <1>2, <2>1, PageFields DEF Load, UsersTypeOK
  <2> QED
    BY <1>1, <1>2, <2>2, NamesTyped DEF Load, Disturb, UsersTypeOK, Types
<1>3. CASE ServeList(p)
  <2>1. pages' \in [Page -> PageRecord]
    BY <1>3, PageFields, RowOfTyped DEF ServeList, UsersTypeOK
  <2> QED
    BY <1>3, <2>1 DEF ServeList, browserVars, UsersTypeOK, Types
<1>4. CASE HearUser(p)
  <2>1. pages[p].claims \in Account /\ pages[p].user \in Page
    <3>1. pages[p].pc \in LoadingPcs /\ pages[p].user # NoUser
      BY <1>4 DEF HearUser, Loading
    <3>2. pages[p].user \in Page \cup {NoUser}
      BY DEF UsersTypeOK, PageRecord
    <3> QED
      BY <3>1, <3>2 DEF LoadInv
  <2>2. pages' \in [Page -> PageRecord]
    BY <1>4, <2>1, EndedTyped DEF HearUser, UsersTypeOK
  <2> QED
    BY <1>4, <2>2 DEF HearUser, browserVars, UsersTypeOK, Types
<1>5. CASE HearNone(p)
  <2>1. session \in Account
    BY <1>5 DEF HearNone, UsersTypeOK
  <2>2. pages' \in [Page -> PageRecord]
    BY <1>5, <2>1, PageFields DEF HearNone, UsersTypeOK
  <2> QED
    BY <1>5, <2>2 DEF HearNone, browserVars, UsersTypeOK, Types
<1>6. CASE ServeCreate(p)
  <2>1. pages[p].bearer \in Account
    BY <1>6 DEF ServeCreate, RowInv
  <2>2. users' \in [Page -> Row]
    BY <1>6, <2>1, NameForTyped DEF ServeCreate, Insert, UsersTypeOK
  <2>3. pages' \in [Page -> PageRecord]
    <3>1. CASE RowsOf(pages[p].bearer) = {}
      <4>1. pages' = [pages EXCEPT ![p] = [pages[p] EXCEPT !.pc = "created", !.user = p]]
        BY <1>6, <3>1 DEF ServeCreate
      <4> QED
        BY <4>1, PageFields DEF UsersTypeOK
    <3>2. CASE RowsOf(pages[p].bearer) # {}
      <4>1. pages' = [pages EXCEPT ![p] = [pages[p] EXCEPT !.pc = "conflict"]]
        BY <1>6, <3>2 DEF ServeCreate
      <4> QED
        BY <4>1, PageFields DEF UsersTypeOK
    <3> QED
      BY <3>1, <3>2
  <2> QED
    BY <1>6, <2>2, <2>3 DEF ServeCreate, browserVars, UsersTypeOK, Types
<1>7. CASE HearConflict(p)
  <2>1. pages' \in [Page -> PageRecord]
    BY <1>7, PageFields DEF HearConflict, UsersTypeOK
  <2> QED
    BY <1>7, <2>1 DEF HearConflict, browserVars, UsersTypeOK, Types
<1>8. CASE Throw(p)
  <2>1. pages' \in [Page -> PageRecord]
    BY <1>8, EndedTyped DEF Throw, UsersTypeOK
  <2> QED
    BY <1>1, <1>8, <2>1 DEF Throw, Forget, Store, Disturb, UsersTypeOK, Types
<1>9. CASE LoseCall(p)
  BY <1>1, <1>9, LeaveTyped DEF LoseCall, Forget, Store, Disturb, UsersTypeOK, Types
<1>10. CASE Close(p)
  BY <1>10, LeaveTyped DEF Close, browserVars, UsersTypeOK, Types
<1>11. CASE SignOut(p)
  <2>1. pages' \in [Page -> PageRecord]
    BY <1>11, EndedTyped DEF SignOut, UsersTypeOK
  <2> QED
    BY <1>1, <1>11, <2>1 DEF SignOut, Forget, Store, Disturb, UsersTypeOK, Types
<1>12. CASE Rename(p)
  <2>1. session \in Account /\ pages[p].user \in Page
    <3>1. session \in Account /\ pages[p].user # NoUser
      BY <1>12 DEF Rename, RowInv, UsersTypeOK
    <3>2. pages[p].user \in Page \cup {NoUser}
      BY DEF UsersTypeOK, PageRecord
    <3> QED
      BY <3>1, <3>2
  <2>2. \A n \in Name : [users[pages[p].user] EXCEPT !.name = n] \in Row
    BY <2>1 DEF UsersTypeOK, Row
  <2>3. users' \in [Page -> Row]
    BY <1>12, <2>1, <2>2, NamesTyped DEF Rename, UpdateName, UsersTypeOK
  <2> QED
    BY <1>12, <2>3 DEF Rename, browserVars, UsersTypeOK, Types
<1>13. CASE FailRefresh(p)
  <2>1. pages' \in [Page -> PageRecord]
    BY <1>13, EndedTyped DEF FailRefresh, UsersTypeOK
  <2> QED
    BY <1>1, <1>13, <2>1 DEF FailRefresh, Forget, Store, Disturb, UsersTypeOK, Types
<1> QED
  BY <1>2, <1>3, <1>4, <1>5, <1>6, <1>7, <1>8, <1>9, <1>10, <1>11, <1>12, <1>13
  DEF ServerStep, PageStep

\* Every step keeps the types.
LEMMA TypesStep ==
    ASSUME UsersInv, [UserNext]_userVars
    PROVE  Types'
<1>1. CASE UNCHANGED userVars
  BY <1>1 DEF userVars, UsersInv, UsersTypeOK, Types
<1> QED
  BY <1>1, SignInTyped, RefreshTyped, PageTyped DEF UserNext, UsersInv

-----------------------------------------------------------------------------
(* What a step leaves of the invariant for pages that do not take it.      *)

\* Rows never change hands.
RowsStay ==
    \A i \in Page : users[i].account # NoAccount => users'[i].account = users[i].account

\* Page q does not move, and if the session changes under it, it is switched.
Kept(q) ==
    /\ pages'[q] = pages[q]
    /\ users'[q].account = users[q].account
    /\ q \in switched => q \in switched'
    /\ Loading(q) /\ q \notin switched' => session' = session \/ session' = pages[q].claims
    /\ crossed => crossed'

LEMMA KeptPages ==
    ASSUME UsersInv, RowsStay, NEW q \in Page, Kept(q)
    PROVE  LoadInv(q)' /\ RowInv(q)' /\ PageNameInv(q)'
<1> USE DEF UsersInv
<1>1. NoAccount \notin Account
  BY AccountsAreTyped
<1>2. LoadInv(q)'
  BY DEF LoadInv, Kept, Ahead, Loading
<1>3. \A a \in Account : RowsOf(a) # {} => RowsOf(a)' # {}
  BY <1>1 DEF RowsStay, RowsOf
<1>4. \A u \in Page, a \in Account : users[u].account = a => users'[u].account = a
  BY <1>1 DEF RowsStay
<1>5. pages[q].user \in Page \cup {NoUser} /\ pages'[q] = pages[q] /\ (q \in switched => q \in switched')
  BY DEF UsersTypeOK, PageRecord, Kept
<1>6. pages[q].pc \in LoadingPcs \cup {"in"} => pages[q].claims \in Account
  BY DEF LoadInv
<1>7. pages[q].again => pages[q].claims \in Account
  BY <1>6 DEF LoadInv, LoadingPcs
<1>8. RowInv(q)'
  BY <1>3, <1>4, <1>5, <1>6, <1>7 DEF RowInv, LoadingPcs
<1>9. PageNameInv(q)'
  BY DEF PageNameInv, Kept
<1> QED
  BY <1>2, <1>8, <1>9

\* A step that stores a session of others, and moves no page.
LEMMA StoreKeeps ==
    ASSUME NEW q \in Page, NEW a, NEW P, q \in P, Store(a, P)
    PROVE  /\ q \in switched => q \in switched'
           /\ Loading(q) /\ q \notin switched' => session' = pages[q].claims
BY DEF Store

\* Sign-ins, refreshes and renaming move no page.
LEMMA StillPages ==
    ASSUME UsersInv, NEW q \in Page,
           \/ \E s \in SignIn :
                (\E a \in Account, skip \in BOOLEAN : BeginSignIn(s, a, skip)) \/ FinishSignIn(s)
           \/ \E p \in Page : StartRefresh(p) \/ EndRefresh(p) \/ DropRefresh(p) \/ Rename(p)
           \/ UNCHANGED userVars
    PROVE  RowsStay /\ Kept(q)
<1> USE DEF UsersInv
<1>1. ASSUME NEW s \in SignIn, NEW a \in Account, NEW skip \in BOOLEAN, BeginSignIn(s, a, skip)
      PROVE  RowsStay /\ Kept(q)
  BY <1>1 DEF BeginSignIn, RowsStay, Kept
<1>2. ASSUME NEW s \in SignIn, FinishSignIn(s) PROVE RowsStay /\ Kept(q)
  BY <1>2, StoreKeeps DEF FinishSignIn, RowsStay, Kept
<1>3. ASSUME NEW p \in Page, StartRefresh(p) \/ DropRefresh(p) PROVE RowsStay /\ Kept(q)
  BY <1>3 DEF StartRefresh, DropRefresh, RowsStay, Kept
<1>4. ASSUME NEW p \in Page, EndRefresh(p) PROVE RowsStay /\ Kept(q)
  BY <1>4, StoreKeeps DEF EndRefresh, RowsStay, Kept
<1>5. ASSUME NEW p \in Page, Rename(p) PROVE RowsStay /\ Kept(q)
  <2>1. \A i \in Page : users'[i].account = users[i].account
    BY <1>5 DEF Rename, UpdateName, UsersTypeOK, Row
  <2> QED
    BY <1>5, <2>1 DEF Rename, browserVars, RowsStay, Kept
<1>6. CASE UNCHANGED userVars
  BY <1>6 DEF userVars, RowsStay, Kept
<1> QED
  BY <1>1, <1>2, <1>3, <1>4, <1>5, <1>6

\* A step of page p leaves the others where they are; only ServeCreate writes a
\* row, which p did not have.
LEMMA OtherPages ==
    ASSUME UsersInv, NEW p \in Page,
           \/ Load(p) \/ ServerStep(p) \/ PageStep(p) \/ LoseCall(p) \/ Close(p)
           \/ SignOut(p) \/ FailRefresh(p)
    PROVE  RowsStay /\ \A q \in Page \ {p} : Kept(q)
<1> USE DEF UsersInv
<1>1. ASSUME UNCHANGED <<users, browserVars>>, \A q \in Page \ {p} : pages'[q] = pages[q]
      PROVE  RowsStay /\ \A q \in Page \ {p} : Kept(q)
  BY <1>1 DEF browserVars, RowsStay, Kept
<1>2. ASSUME UNCHANGED <<users, crossed>>, Forget(p), \A q \in Page \ {p} : pages'[q] = pages[q]
      PROVE  RowsStay /\ \A q \in Page \ {p} : Kept(q)
  BY <1>2, StoreKeeps DEF Forget, RowsStay, Kept
<1>3. CASE Load(p)
  BY <1>3 DEF Load, Disturb, RowsStay, Kept, UsersTypeOK
<1>4. CASE ServeList(p) \/ HearUser(p) \/ HearNone(p) \/ HearConflict(p)
  BY <1>1, <1>4 DEF ServeList, HearUser, HearNone, HearConflict, UsersTypeOK
<1>5. CASE ServeCreate(p)
  <2>1. users[p].account = NoAccount
    BY <1>5 DEF ServeCreate, LoadInv, RowInv, Ahead
  <2>2. \A q \in Page \ {p} : users'[q] = users[q]
    BY <1>5 DEF ServeCreate, Insert, UsersTypeOK
  <2>3. \A q \in Page \ {p} : pages'[q] = pages[q]
    BY <1>5 DEF ServeCreate, UsersTypeOK
  <2> QED
    BY <1>5, <2>1, <2>2, <2>3 DEF ServeCreate, browserVars, RowsStay, Kept
<1>6. CASE Throw(p)
  BY <1>2, <1>6 DEF Throw, UsersTypeOK
<1>7. CASE LoseCall(p)
  BY <1>2, <1>7 DEF LoseCall, Leave, UsersTypeOK
<1>8. CASE Close(p)
  BY <1>1, <1>8 DEF Close, Leave, UsersTypeOK
<1>9. CASE SignOut(p) \/ FailRefresh(p)
  BY <1>2, <1>9 DEF SignOut, FailRefresh, UsersTypeOK
<1> QED
  BY <1>3, <1>4, <1>5, <1>6, <1>7, <1>8, <1>9 DEF ServerStep, PageStep

-----------------------------------------------------------------------------
(* The page that takes a step.                                             *)

PageInv(p) == LoadInv(p) /\ RowInv(p) /\ PageNameInv(p)

\* A page that has come to an end other than "in" or, of itself, "failed".
LEMMA EndedPage ==
    ASSUME NEW p \in Page, NEW pc \in {"failed", "signed out", "left"},
           pages'[p] = Ended(pc), pc = "failed" => p \in switched'
    PROVE  PageInv(p)'
BY DEF Ended, Fresh, PageInv, LoadInv, RowInv, PageNameInv, Ahead, Loading, LoadingPcs

LEMMA LoadOwn ==
    ASSUME UsersInv, NEW p \in Page, Load(p)
    PROVE  PageInv(p)'
<1> USE DEF UsersInv
<1>1. /\ pages'[p] = [pages[p] EXCEPT !.pc = "listing", !.claims = session, !.skip = skipProfile,
                                      !.name = pendingName, !.expected = expected]
      /\ session \in Account /\ session' = session /\ users' = users /\ crossed' = crossed
      /\ switched' = switched /\ pages[p] \in PageRecord /\ pages[p].pc = "none"
  BY DEF Load, UsersTypeOK
<1>2. /\ pages'[p].pc = "listing" /\ pages'[p].claims = session /\ pages'[p].skip = skipProfile
      /\ pages'[p].name = pendingName /\ pages'[p].expected = expected
      /\ pages'[p].again = FALSE
  BY <1>1 DEF PageRecord, LoadInv
<1>3. LoadInv(p)'
  <2>1. users[p].account = NoAccount
    BY <1>1, <1>2 DEF LoadInv, Ahead
  <2> QED
    BY <1>1, <1>2, <2>1 DEF LoadInv, LoadingPcs
<1>4. RowInv(p)'
  BY <1>2 DEF RowInv
<1>5. PageNameInv(p)'
  BY <1>1, <1>2, AccountsAreTyped DEF PageNameInv, StashInv
<1> QED
  BY <1>3, <1>4, <1>5 DEF PageInv

LEMMA ServeListOwn ==
    ASSUME UsersInv, NEW p \in Page, ServeList(p)
    PROVE  PageInv(p)'
<1> USE DEF UsersInv
<1>1. /\ pages'[p] = [pages[p] EXCEPT !.pc = "listed", !.user = RowOf(pages[p].claims)]
      /\ pages[p].pc = "listing" /\ pages[p] \in PageRecord
      /\ users' = users /\ session' = session /\ switched' = switched /\ crossed' = crossed
  BY DEF ServeList, UsersTypeOK, browserVars
<1>2. pages'[p].pc = "listed" /\ pages'[p].user = RowOf(pages[p].claims)
  BY <1>1 DEF PageRecord
<1>3. /\ pages'[p].claims = pages[p].claims /\ pages'[p].again = pages[p].again
      /\ pages'[p].open = pages[p].open /\ pages'[p].name = pages[p].name
      /\ pages'[p].skip = pages[p].skip /\ pages'[p].expected = pages[p].expected
  BY <1>1 DEF PageRecord
<1>4. LoadInv(p)'
  BY <1>1, <1>2, <1>3 DEF LoadInv, Ahead, Loading, LoadingPcs
<1>5. RowsOf(pages[p].claims) # {} => RowOf(pages[p].claims) # NoUser
  BY RowOfTyped, AccountsAreTyped
<1>6. RowOf(pages[p].claims) # NoUser => users[RowOf(pages[p].claims)].account = pages[p].claims
  BY RowOfTyped
<1>7. \A a : RowsOf(a)' = RowsOf(a)
  BY <1>1 DEF RowsOf
<1>8. pages[p].again /\ p \notin switched => RowsOf(pages[p].claims) # {}
  BY DEF RowInv
<1>9. RowInv(p)'
  BY <1>1, <1>2, <1>3, <1>5, <1>6, <1>7, <1>8 DEF RowInv
<1>10. PageNameInv(p)'
  BY <1>1, <1>3 DEF PageNameInv
<1> QED
  BY <1>4, <1>9, <1>10 DEF PageInv

LEMMA HearUserOwn ==
    ASSUME UsersInv, NEW p \in Page, HearUser(p)
    PROVE  PageInv(p)'
<1> USE DEF UsersInv
<1>1. /\ pages'[p] = [Ended("in") EXCEPT !.claims = pages[p].claims, !.user = pages[p].user]
      /\ pages[p].pc \in {"listed", "created"} /\ pages[p].user # NoUser
      /\ users' = users /\ session' = session /\ switched' = switched /\ crossed' = crossed
  BY DEF HearUser, UsersTypeOK, browserVars
<1>2. /\ pages'[p].pc = "in" /\ pages'[p].claims = pages[p].claims /\ pages'[p].user = pages[p].user
      /\ pages'[p].again = FALSE /\ pages'[p].name = NoName /\ pages'[p].expected = NoRow
  BY <1>1 DEF Ended, Fresh
<1>3. pages[p].claims \in Account
  BY <1>1 DEF LoadInv, LoadingPcs
<1>4. p \notin switched => users[pages[p].user].account = pages[p].claims
  BY <1>1 DEF RowInv
<1>5. LoadInv(p)'
  BY <1>2, <1>3 DEF LoadInv, Ahead, Loading, LoadingPcs
<1>6. RowInv(p)'
  BY <1>1, <1>2, <1>4 DEF RowInv
<1>7. PageNameInv(p)'
  BY <1>2 DEF PageNameInv
<1> QED
  BY <1>5, <1>6, <1>7 DEF PageInv

LEMMA HearNoneOwn ==
    ASSUME UsersInv, NEW p \in Page, HearNone(p)
    PROVE  PageInv(p)'
<1> USE DEF UsersInv
<1>1. /\ pages'[p] = [pages[p] EXCEPT !.pc = "creating", !.bearer = session]
      /\ Loading(p) /\ pages[p].pc = "listed" /\ ~pages[p].again /\ session \in Account
      /\ pages[p] \in PageRecord
      /\ users' = users /\ session' = session /\ switched' = switched /\ crossed' = crossed
  BY DEF HearNone, UsersTypeOK, browserVars
<1>2. /\ pages'[p].pc = "creating" /\ pages'[p].bearer = session
      /\ pages'[p].claims = pages[p].claims /\ pages'[p].again = pages[p].again
      /\ pages'[p].open = pages[p].open /\ pages'[p].name = pages[p].name
      /\ pages'[p].skip = pages[p].skip /\ pages'[p].expected = pages[p].expected
  BY <1>1 DEF PageRecord
<1>3. LoadInv(p)'
  BY <1>1, <1>2 DEF LoadInv, Ahead, Loading, LoadingPcs
<1>4. RowInv(p)'
  BY <1>1, <1>2 DEF RowInv, LoadInv
<1>5. PageNameInv(p)'
  BY <1>1, <1>2 DEF PageNameInv
<1> QED
  BY <1>3, <1>4, <1>5 DEF PageInv

LEMMA ServeCreateOwn ==
    ASSUME UsersInv, NEW p \in Page, ServeCreate(p)
    PROVE  PageInv(p)'
<1> USE DEF UsersInv
<1>1. /\ pages[p].pc = "creating" /\ pages[p] \in PageRecord /\ pages[p].bearer \in Account
      /\ pages[p].claims \in Account
      /\ session' = session /\ switched' = switched /\ crossed' = crossed
  BY DEF ServeCreate, UsersTypeOK, browserVars, LoadInv, RowInv, LoadingPcs
<1>2. /\ ~pages[p].again /\ (p \notin switched => pages[p].bearer = pages[p].claims)
      /\ Loading(p) /\ p \notin switched => session = pages[p].claims
  BY <1>1 DEF LoadInv, RowInv
<1>3. CASE RowsOf(pages[p].bearer) = {}
  <2>1. /\ pages'[p] = [pages[p] EXCEPT !.pc = "created", !.user = p]
        /\ users'[p].account = pages[p].bearer
    BY <1>3 DEF ServeCreate, Insert, UsersTypeOK
  <2>2. /\ pages'[p].pc = "created" /\ pages'[p].user = p /\ pages'[p].bearer = pages[p].bearer
        /\ pages'[p].claims = pages[p].claims /\ pages'[p].again = pages[p].again
        /\ pages'[p].open = pages[p].open /\ pages'[p].name = pages[p].name
        /\ pages'[p].skip = pages[p].skip /\ pages'[p].expected = pages[p].expected
    BY <1>1, <2>1 DEF PageRecord
  <2>3. LoadInv(p)'
    BY <1>1, <1>2, <2>2 DEF LoadInv, Ahead, Loading, LoadingPcs
  <2>4. RowInv(p)'
    BY <1>1, <1>2, <2>1, <2>2 DEF RowInv
  <2>5. PageNameInv(p)'
    BY <1>1, <2>2 DEF PageNameInv
  <2> QED
    BY <2>3, <2>4, <2>5 DEF PageInv
<1>4. CASE RowsOf(pages[p].bearer) # {}
  <2>1. pages'[p] = [pages[p] EXCEPT !.pc = "conflict"] /\ users' = users
    BY <1>4 DEF ServeCreate, UsersTypeOK
  <2>2. /\ pages'[p].pc = "conflict" /\ pages'[p].user = pages[p].user
        /\ pages'[p].bearer = pages[p].bearer
        /\ pages'[p].claims = pages[p].claims /\ pages'[p].again = pages[p].again
        /\ pages'[p].open = pages[p].open /\ pages'[p].name = pages[p].name
        /\ pages'[p].skip = pages[p].skip /\ pages'[p].expected = pages[p].expected
    BY <1>1, <2>1 DEF PageRecord
  <2>3. LoadInv(p)'
    BY <1>1, <1>2, <2>2 DEF LoadInv, Ahead, Loading, LoadingPcs
  <2>4. RowsOf(pages[p].bearer)' # {}
    BY <1>4, <2>1, <2>2 DEF RowsOf
  <2>5. RowInv(p)'
    BY <1>1, <1>2, <2>2, <2>4 DEF RowInv
  <2>6. PageNameInv(p)'
    BY <1>1, <2>2 DEF PageNameInv
  <2> QED
    BY <2>3, <2>5, <2>6 DEF PageInv
<1> QED
  BY <1>3, <1>4

LEMMA HearConflictOwn ==
    ASSUME UsersInv, NEW p \in Page, HearConflict(p)
    PROVE  PageInv(p)'
<1> USE DEF UsersInv
<1>1. /\ pages'[p] = [pages[p] EXCEPT !.pc = "listing", !.again = TRUE]
      /\ pages[p].pc = "conflict" /\ pages[p] \in PageRecord
      /\ users' = users /\ session' = session /\ switched' = switched /\ crossed' = crossed
  BY DEF HearConflict, UsersTypeOK, browserVars
<1>2. /\ pages'[p].pc = "listing" /\ pages'[p].again = TRUE
      /\ pages'[p].claims = pages[p].claims /\ pages'[p].open = pages[p].open
      /\ pages'[p].name = pages[p].name /\ pages'[p].skip = pages[p].skip
      /\ pages'[p].expected = pages[p].expected
  BY <1>1 DEF PageRecord
<1>3. LoadInv(p)'
  BY <1>1, <1>2 DEF LoadInv, Ahead, Loading, LoadingPcs
<1>4. p \notin switched => RowsOf(pages[p].claims) # {}
  BY <1>1 DEF RowInv
<1>5. \A a : RowsOf(a)' = RowsOf(a)
  BY <1>1 DEF RowsOf
<1>6. RowInv(p)'
  BY <1>1, <1>2, <1>4, <1>5 DEF RowInv
<1>7. PageNameInv(p)'
  BY <1>1, <1>2 DEF PageNameInv
<1> QED
  BY <1>3, <1>6, <1>7 DEF PageInv

\* A page fails only if it was switched: otherwise the session is its own, and
\* after a conflict its row is there.
LEMMA ThrowOwn ==
    ASSUME UsersInv, NEW p \in Page, Throw(p)
    PROVE  PageInv(p)'
<1> USE DEF UsersInv
<1>1. p \in switched
  <2> SUFFICES ASSUME p \notin switched PROVE FALSE
    OBVIOUS
  <2>1. session = pages[p].claims /\ session # NoAccount
    BY AccountsAreTyped DEF Throw, LoadInv, Loading
  <2>2. pages[p].again
    BY <2>1 DEF Throw
  <2>3. pages[p].pc = "listed" /\ pages[p].user = NoUser
    BY <2>2 DEF Throw, LoadInv
  <2> QED
    BY <2>2, <2>3 DEF RowInv
<1>2. pages'[p] = Ended("failed") /\ p \in switched'
  BY <1>1 DEF Throw, Forget, Store, UsersTypeOK
<1> QED
  BY <1>2, EndedPage

\* A page that is closed goes, or leaves its POST behind.
LEMMA LeaveOwn ==
    ASSUME UsersInv, NEW p \in Page, Leave(p), users' = users, crossed' = crossed,
           p \in switched => p \in switched'
    PROVE  PageInv(p)'
<1> USE DEF UsersInv
<1>1. CASE pages[p].pc = "creating"
  <2>1. pages'[p] = [pages[p] EXCEPT !.open = FALSE] /\ pages[p] \in PageRecord
    BY <1>1 DEF Leave, UsersTypeOK
  <2>2. /\ pages'[p].pc = "creating" /\ pages'[p].open = FALSE /\ pages'[p].bearer = pages[p].bearer
        /\ pages'[p].claims = pages[p].claims /\ pages'[p].again = pages[p].again
        /\ pages'[p].name = pages[p].name /\ pages'[p].skip = pages[p].skip
        /\ pages'[p].expected = pages[p].expected
    BY <1>1, <2>1 DEF PageRecord
  <2>3. LoadInv(p)'
    BY <1>1, <2>2 DEF LoadInv, Ahead, Loading, LoadingPcs
  <2>4. RowInv(p)'
    BY <1>1, <2>2 DEF RowInv, LoadInv
  <2>5. PageNameInv(p)'
    BY <2>2 DEF PageNameInv
  <2> QED
    BY <2>3, <2>4, <2>5 DEF PageInv
<1>2. CASE pages[p].pc # "creating"
  <2>1. pages'[p] = Ended("left")
    BY <1>2 DEF Leave, UsersTypeOK
  <2> QED
    BY <2>1, EndedPage
<1> QED
  BY <1>1, <1>2

\* Every step keeps what is said of the pages.
LEMMA PagesStep ==
    ASSUME UsersInv, [UserNext]_userVars
    PROVE  RowsStay /\ \A p \in Page : PageInv(p)'
<1> USE DEF UsersInv
<1>1. ASSUME \/ \E s \in SignIn :
                  (\E a \in Account, skip \in BOOLEAN : BeginSignIn(s, a, skip)) \/ FinishSignIn(s)
             \/ \E p \in Page : StartRefresh(p) \/ EndRefresh(p) \/ DropRefresh(p) \/ Rename(p)
             \/ UNCHANGED userVars
      PROVE  RowsStay /\ \A p \in Page : PageInv(p)'
  <2>1. RowsStay
    <3>1. CASE Page = {}
      BY <3>1 DEF RowsStay
    <3>2. ASSUME NEW q \in Page PROVE RowsStay
      BY <1>1, StillPages
    <3> QED
      BY <3>1, <3>2
  <2>2. ASSUME NEW q \in Page PROVE PageInv(q)'
    BY <1>1, StillPages, KeptPages DEF PageInv
  <2> QED
    BY <1>1, <2>1, <2>2
<1>2. ASSUME NEW p \in Page,
             \/ Load(p) \/ ServerStep(p) \/ PageStep(p) \/ LoseCall(p) \/ Close(p)
             \/ SignOut(p) \/ FailRefresh(p)
      PROVE  RowsStay /\ \A q \in Page : PageInv(q)'
  <2>1. RowsStay /\ \A q \in Page \ {p} : PageInv(q)'
    BY <1>2, OtherPages, KeptPages DEF PageInv
  <2>2. PageInv(p)'
    <3>1. CASE LoseCall(p) \/ Close(p)
      BY <3>1, LeaveOwn DEF LoseCall, Close, Forget, Store, browserVars
    <3>2. CASE SignOut(p) \/ FailRefresh(p)
      BY <3>2, EndedPage DEF SignOut, FailRefresh, UsersTypeOK
    <3> QED
      BY <1>2, <3>1, <3>2, LoadOwn, ServeListOwn, HearUserOwn, HearNoneOwn, ServeCreateOwn,
         HearConflictOwn, ThrowOwn DEF ServerStep, PageStep
  <2> QED
    BY <2>1, <2>2
<1> QED
  BY <1>1, <1>2 DEF UserNext

-----------------------------------------------------------------------------
(* Rows, names and what AuthCallback stores.                               *)

\* Only ServeCreate makes a row, and only for an account that has none.
LEMMA UniqueStep ==
    ASSUME UsersInv, [UserNext]_userVars
    PROVE  RowsAreUnique'
<1> USE DEF UsersInv
<1>1. ASSUME \A i \in Page : users'[i].account = users[i].account PROVE RowsAreUnique'
  BY <1>1 DEF RowsAreUnique
<1>2. ASSUME users' = users PROVE RowsAreUnique'
  BY <1>1, <1>2
<1>3. ASSUME NEW p \in Page, ServeCreate(p) PROVE RowsAreUnique'
  <2>1. CASE RowsOf(pages[p].bearer) = {}
    <3>1. /\ users'[p].account = pages[p].bearer
          /\ \A i \in Page \ {p} : users'[i] = users[i] /\ users[i].account # pages[p].bearer
      BY <1>3, <2>1 DEF ServeCreate, Insert, UsersTypeOK, RowsOf
    <3> QED
      BY <3>1 DEF RowsAreUnique
  <2>2. CASE RowsOf(pages[p].bearer) # {}
    BY <1>2, <1>3, <2>2 DEF ServeCreate
  <2> QED
    BY <2>1, <2>2
<1>4. ASSUME NEW p \in Page, Rename(p) PROVE RowsAreUnique'
  <2>1. \A i \in Page : users'[i].account = users[i].account
    BY <1>4 DEF Rename, UpdateName, UsersTypeOK, Row
  <2> QED
    BY <1>1, <2>1
<1>5. ASSUME NEW s \in SignIn,
             (\E a \in Account, skip \in BOOLEAN : BeginSignIn(s, a, skip)) \/ FinishSignIn(s)
      PROVE  users' = users
  BY <1>5 DEF BeginSignIn, FinishSignIn
<1>6. ASSUME NEW p \in Page,
             \/ StartRefresh(p) \/ EndRefresh(p) \/ DropRefresh(p) \/ Load(p) \/ ServeList(p)
             \/ PageStep(p) \/ LoseCall(p) \/ Close(p) \/ SignOut(p) \/ FailRefresh(p)
      PROVE  users' = users
  BY <1>6 DEF StartRefresh, EndRefresh, DropRefresh, Load, ServeList, PageStep, HearUser, HearNone,
              HearConflict, Throw, LoseCall, Close, SignOut, FailRefresh
<1>7. CASE UNCHANGED userVars
  BY <1>2, <1>7 DEF userVars
<1> QED
  BY <1>2, <1>3, <1>4, <1>5, <1>6, <1>7 DEF UserNext, ServerStep

\* The name that a page gives its row is its account's.
LEMMA CreatedName ==
    ASSUME UsersInv, NEW p \in Page, pages[p].pc = "creating", NameFor(p) # NoName
    PROVE  \/ NameFor(p)[2] = pages[p].bearer
           \/ NameFor(p)[1] = "provided" /\ (crossed \/ p \in switched)
<1> USE DEF UsersInv
<1>1. CASE pages[p].bearer \in Named
  BY <1>1 DEF NameFor, Provided
<1>2. CASE pages[p].bearer \notin Named
  <2>1. NameFor(p) = pages[p].name
    BY <1>2 DEF NameFor
  <2>2. pages[p].name[1] = "provided" /\ (crossed \/ pages[p].name[2] = pages[p].claims)
    BY <2>1 DEF PageNameInv
  <2>3. p \notin switched => pages[p].bearer = pages[p].claims
    BY DEF RowInv
  <2> QED
    BY <2>1, <2>2, <2>3
<1> QED
  BY <1>1, <1>2

\* A page once switched, and a session once crossed, stays so.
LEMMA MarksStay ==
    ASSUME UsersInv, [UserNext]_userVars
    PROVE  switched \subseteq switched' /\ (crossed => crossed')
<1>1. ASSUME NEW s \in SignIn,
             (\E a \in Account, skip \in BOOLEAN : BeginSignIn(s, a, skip)) \/ FinishSignIn(s)
      PROVE  switched \subseteq switched' /\ (crossed => crossed')
  BY <1>1 DEF BeginSignIn, FinishSignIn, Store
<1>2. ASSUME NEW p \in Page, StartRefresh(p) \/ EndRefresh(p) \/ DropRefresh(p) \/ Load(p)
      PROVE  switched \subseteq switched' /\ (crossed => crossed')
  <2>1. CASE EndRefresh(p)
    <3>1. switched \subseteq switched'
      BY <2>1 DEF EndRefresh, Store
    <3>2. crossed => crossed'
      BY <2>1 DEF EndRefresh
    <3> QED
      BY <3>1, <3>2
  <2>2. CASE StartRefresh(p) \/ DropRefresh(p) \/ Load(p)
    BY <2>2 DEF StartRefresh, DropRefresh, Load
  <2> QED
    BY <1>2, <2>1, <2>2
<1>3. ASSUME NEW p \in Page, ServerStep(p) \/ PageStep(p)
      PROVE  switched \subseteq switched' /\ (crossed => crossed')
  <2>1. ASSUME UNCHANGED browserVars PROVE switched' = switched /\ crossed' = crossed
    BY <2>1 DEF browserVars
  <2>2. CASE Throw(p)
    BY <2>2 DEF Throw, Forget, Store
  <2>3. CASE ServerStep(p)
    BY <2>1, <2>3 DEF ServerStep, ServeList, ServeCreate
  <2>4. CASE HearUser(p) \/ HearNone(p) \/ HearConflict(p)
    BY <2>1, <2>4 DEF HearUser, HearNone, HearConflict
  <2> QED
    BY <1>3, <2>2, <2>3, <2>4 DEF PageStep
<1>4. ASSUME NEW p \in Page, LoseCall(p) \/ Close(p) \/ SignOut(p) \/ FailRefresh(p) \/ Rename(p)
      PROVE  switched \subseteq switched' /\ (crossed => crossed')
  <2>1. ASSUME UNCHANGED browserVars PROVE switched' = switched /\ crossed' = crossed
    BY <2>1 DEF browserVars
  <2>2. CASE LoseCall(p) \/ SignOut(p) \/ FailRefresh(p)
    <3>1. Forget(p) /\ crossed' = crossed
      BY <2>2 DEF LoseCall, SignOut, FailRefresh
    <3>2. switched \subseteq switched'
      BY <3>1 DEF Forget, Store
    <3> QED
      BY <3>1, <3>2
  <2>3. CASE Close(p) \/ Rename(p)
    BY <2>1, <2>3 DEF Close, Rename
  <2> QED
    BY <1>4, <2>2, <2>3
<1>5. CASE UNCHANGED userVars
  BY <1>5 DEF userVars
<1> QED
  BY <1>1, <1>2, <1>3, <1>4, <1>5 DEF UserNext

\* Names are written by ServeCreate and by Rename only.
LEMMA NamesStep ==
    ASSUME UsersInv, [UserNext]_userVars
    PROVE  NamesAreOwn'
<1> USE DEF UsersInv
<1> DEFINE Own(i) == LET u == users[i]
                     IN u.name # NoName =>
                          \/ u.name[2] = u.account
                          \/ u.name[1] = "provided" /\ (crossed \/ i \in switched)
<1>0. \A i \in Page : Own(i)
  BY DEF NamesAreOwn
<1>1. switched \subseteq switched' /\ (crossed => crossed')
  BY MarksStay
<1>2. ASSUME NEW i \in Page, users'[i] = users[i] PROVE Own(i)'
  BY <1>0, <1>1, <1>2
<1>3. ASSUME NEW p \in Page, ServeCreate(p) PROVE \A i \in Page : Own(i)'
  <2>1. CASE RowsOf(pages[p].bearer) = {}
    <3>1. /\ users'[p] = [account |-> pages[p].bearer, name |-> NameFor(p)]
          /\ \A i \in Page \ {p} : users'[i] = users[i]
      BY <1>3, <2>1 DEF ServeCreate, Insert, UsersTypeOK
    <3>2. pages[p].pc = "creating"
      BY <1>3 DEF ServeCreate
    <3>3. Own(p)'
      BY <1>1, <3>1, <3>2, CreatedName
    <3> QED
      BY <1>2, <3>1, <3>3
  <2>2. CASE RowsOf(pages[p].bearer) # {}
    BY <1>2, <1>3, <2>2 DEF ServeCreate
  <2> QED
    BY <2>1, <2>2
<1>4. ASSUME NEW p \in Page, Rename(p) PROVE \A i \in Page : Own(i)'
  <2>1. PICK u \in Page : u = pages[p].user /\ session \in Account /\ RowOf(session) = u
    <3> HIDE DEF Own
    <3>1. pages[p].pc = "in" /\ session # NoAccount /\ RowOf(session) = pages[p].user
      BY <1>4 DEF Rename, MayRename
    <3>2. pages[p].user # NoUser
      BY <3>1 DEF RowInv
    <3>3. pages[p].user \in Page \cup {NoUser}
      BY DEF UsersTypeOK, PageRecord
    <3>4. session \in Account
      BY <3>1 DEF UsersTypeOK
    <3> QED
      BY <3>1, <3>2, <3>3, <3>4
  <2>2. users[u].account = session /\ users[u] \in Row
    BY <2>1, RowOfTyped, AccountsAreTyped DEF UsersTypeOK
  <2>3. PICK n \in {<<"chosen", session>>, NoName} : users' = [users EXCEPT ![u].name = n]
    BY <1>4, <2>1 DEF Rename, UpdateName
  <2>4. /\ users'[u].account = session /\ users'[u].name = n
        /\ \A i \in Page \ {u} : users'[i] = users[i]
    BY <2>1, <2>2, <2>3 DEF UsersTypeOK, Row
  <2>5. Own(u)'
    <3>1. CASE n = NoName
      BY <2>4, <3>1
    <3>2. CASE n = <<"chosen", session>>
      BY <2>4, <3>2
    <3> QED
      BY <2>3, <3>1, <3>2
  <2> QED
    BY <1>2, <2>4, <2>5
<1>5. ASSUME NEW s \in SignIn,
             (\E a \in Account, skip \in BOOLEAN : BeginSignIn(s, a, skip)) \/ FinishSignIn(s)
      PROVE  users' = users
  BY <1>5 DEF BeginSignIn, FinishSignIn
<1>6. ASSUME NEW p \in Page,
             \/ StartRefresh(p) \/ EndRefresh(p) \/ DropRefresh(p) \/ Load(p) \/ ServeList(p)
             \/ PageStep(p) \/ LoseCall(p) \/ Close(p) \/ SignOut(p) \/ FailRefresh(p)
      PROVE  users' = users
  BY <1>6 DEF StartRefresh, EndRefresh, DropRefresh, Load, ServeList, PageStep, HearUser, HearNone,
              HearConflict, Throw, LoseCall, Close, SignOut, FailRefresh
<1>7. ASSUME UNCHANGED userVars PROVE users' = users
  BY <1>7 DEF userVars
<1>8. ASSUME users' = users PROVE \A i \in Page : Own(i)'
  BY <1>2, <1>8
<1>9. \A i \in Page : Own(i)'
  BY <1>3, <1>4, <1>5, <1>6, <1>7, <1>8 DEF UserNext, ServerStep
<1> QED
  BY <1>9 DEF NamesAreOwn

\* What does not touch the storage keeps what is said of it.
LEMMA StashKept ==
    ASSUME StashInv, UNCHANGED <<session, skipProfile, pendingName, signins, quiet, expected, crossed>>
    PROVE  StashInv'
BY DEF StashInv, ChosenName

\* What disturbs a sign-in has only the stored name to answer for.
LEMMA StashDisturbed ==
    ASSUME StashInv, Disturb, signins' = signins,
           pendingName' # NoName =>
             pendingName'[1] = "provided" /\ (crossed' \/ session' \in {NoAccount, pendingName'[2]})
    PROVE  StashInv'
BY DEF StashInv, Disturb

LEMMA BeginStash ==
    ASSUME UsersInv, NEW s \in SignIn, NEW a \in Account, NEW skip \in BOOLEAN, BeginSignIn(s, a, skip)
    PROVE  StashInv'
<1> USE DEF UsersInv
<1>1. /\ pendingName' = pendingName /\ session' = session /\ crossed' = crossed
      /\ quiet' = s /\ expected' = NoRow /\ skipProfile' = skip
  BY DEF BeginSignIn
<1>2. /\ signins'[s].pc = "begun" /\ signins'[s].account = a /\ signins'[s].skip = skip
      /\ signins'[s].name \in {Provided(a), NoName}
      /\ \A r \in SignIn \ {s} : signins'[r] = signins[r]
  BY DEF BeginSignIn, UsersTypeOK
<1>3. \A r \in SignIn : signins'[r].name # NoName => signins'[r].name = Provided(signins'[r].account)
  BY <1>2 DEF StashInv
<1> QED
  BY <1>1, <1>2, <1>3 DEF StashInv

LEMMA FinishStash ==
    ASSUME UsersInv, NEW s \in SignIn, FinishSignIn(s)
    PROVE  StashInv'
<1> USE DEF UsersInv
<1>1. /\ pendingName' = signins[s].name /\ session' = signins[s].account /\ crossed' = crossed
      /\ quiet' = NoSignIn /\ skipProfile' = skipProfile
      /\ expected' = IF quiet = s THEN RowFor(signins[s]) ELSE NoRow
  BY DEF FinishSignIn, Store
<1>2. \A r \in SignIn : signins'[r].name # NoName => signins'[r].name = Provided(signins'[r].account)
  BY DEF FinishSignIn, NoSignInYet, StashInv, UsersTypeOK
<1>3. pendingName' # NoName => pendingName'[1] = "provided" /\ session' \in {NoAccount, pendingName'[2]}
  BY <1>1 DEF StashInv, Provided
<1>4. s # NoSignIn
  BY DEF SignIn, NoSignIn
<1>5. expected' # NoRow =>
        /\ expected'.account = session'
        /\ expected'.name = ChosenName(skipProfile', session', pendingName')
  <2>1. CASE quiet = s
    <3>1. signins[s].skip = skipProfile
      BY <1>4, <2>1 DEF StashInv
    <3> QED
      BY <1>1, <2>1, <3>1 DEF RowFor, ChosenName
  <2>2. CASE quiet # s
    BY <1>1, <2>2
  <2> QED
    BY <2>1, <2>2
<1> QED
  BY <1>1, <1>2, <1>3, <1>5 DEF StashInv

LEMMA StashStep ==
    ASSUME UsersInv, [UserNext]_userVars
    PROVE  StashInv'
<1> USE DEF UsersInv
<1>1. ASSUME UNCHANGED browserVars PROVE StashInv'
  BY <1>1, StashKept DEF browserVars
<1>2. ASSUME NEW p \in Page, Forget(p), UNCHANGED <<pendingName, signins>> PROVE StashInv'
  <2>1. Disturb /\ session' = NoAccount
    BY <1>2 DEF Forget, Store
  <2>2. pendingName' # NoName => pendingName'[1] = "provided"
    BY <1>2 DEF StashInv
  <2> QED
    BY <1>2, <2>1, <2>2, StashDisturbed
<1>3. ASSUME NEW p \in Page, StartRefresh(p) \/ DropRefresh(p) PROVE StashInv'
  BY <1>3, StashKept DEF StartRefresh, DropRefresh
<1>4. ASSUME NEW p \in Page, EndRefresh(p) PROVE StashInv'
  <2>1. /\ session' = refreshing[p] /\ Disturb /\ signins' = signins /\ pendingName' = pendingName
    BY <1>4 DEF EndRefresh, Store
  <2>2. crossed' \/ session' = session
    BY <1>4 DEF EndRefresh, Store
  <2>3. crossed => crossed'
    BY <1>4 DEF EndRefresh
  <2>4. pendingName' # NoName =>
          pendingName'[1] = "provided" /\ (crossed' \/ session' \in {NoAccount, pendingName'[2]})
    BY <2>1, <2>2, <2>3 DEF StashInv
  <2> QED
    BY <2>1, <2>4, StashDisturbed
<1>5. ASSUME NEW p \in Page, Load(p) PROVE StashInv'
  BY <1>5, StashDisturbed DEF Load
<1>6. ASSUME NEW p \in Page, ServerStep(p) \/ PageStep(p) PROVE StashInv'
  <2>1. CASE Throw(p)
    BY <1>2, <2>1 DEF Throw
  <2>2. CASE ServerStep(p)
    BY <1>1, <2>2 DEF ServerStep, ServeList, ServeCreate
  <2>3. CASE HearUser(p) \/ HearNone(p) \/ HearConflict(p)
    BY <1>1, <2>3 DEF HearUser, HearNone, HearConflict
  <2> QED
    BY <1>6, <2>1, <2>2, <2>3 DEF PageStep
<1>7. ASSUME NEW p \in Page, LoseCall(p) \/ SignOut(p) \/ FailRefresh(p) PROVE StashInv'
  BY <1>2, <1>7 DEF LoseCall, SignOut, FailRefresh
<1>8. ASSUME NEW p \in Page, Close(p) \/ Rename(p) PROVE StashInv'
  BY <1>1, <1>8 DEF Close, Rename
<1>9. CASE UNCHANGED userVars
  BY <1>9, StashKept DEF userVars
<1> QED
  BY <1>3, <1>4, <1>5, <1>6, <1>7, <1>8, <1>9, BeginStash, FinishStash DEF UserNext

-----------------------------------------------------------------------------
(* The invariant.                                                          *)

Shown(q) == pages[q].user # NoUser => users[pages[q].user].account # NoAccount

\* A page shows a row, and rows are not removed.
LEMMA ShownStep ==
    ASSUME UsersInv, [UserNext]_userVars, NEW q \in Page
    PROVE  Shown(q)'
<1> USE DEF UsersInv
<1>1. Shown(q) /\ pages[q].user \in Page \cup {NoUser} /\ NoAccount \notin Account
  BY AccountsAreTyped DEF Shown, UsersTypeOK, PageRecord
<1>2. RowsStay
  BY PagesStep
<1>3. ASSUME pages'[q].user = pages[q].user PROVE Shown(q)'
  BY <1>1, <1>2, <1>3 DEF Shown, RowsStay
<1>4. ASSUME Kept(q) PROVE Shown(q)'
  BY <1>3, <1>4 DEF Kept
<1>5. ASSUME pages'[q].user = NoUser PROVE Shown(q)'
  BY <1>5 DEF Shown
<1>6. ASSUME NEW pc, pages'[q] = Ended(pc) PROVE Shown(q)'
  BY <1>5, <1>6 DEF Ended, Fresh
<1>7. pages[q] \in PageRecord
  BY DEF UsersTypeOK
<1>8. ASSUME ServeList(q) PROVE Shown(q)'
  <2>1. pages'[q].user = RowOf(pages[q].claims) /\ users' = users /\ pages[q].claims \in Account
    BY <1>7, <1>8 DEF ServeList, UsersTypeOK, PageRecord, LoadInv, LoadingPcs
  <2> QED
    BY <1>1, <2>1, RowOfTyped DEF Shown
<1>9. ASSUME ServeCreate(q) PROVE Shown(q)'
  <2>1. CASE RowsOf(pages[q].bearer) = {}
    <3>1. pages'[q] = [pages[q] EXCEPT !.pc = "created", !.user = q]
      BY <1>9, <2>1 DEF ServeCreate, UsersTypeOK
    <3>2. users'[q].account = pages[q].bearer /\ pages[q].bearer \in Account
      BY <1>9, <2>1 DEF ServeCreate, Insert, UsersTypeOK, RowInv
    <3>3. pages'[q].user = q
      BY <1>7, <3>1 DEF PageRecord
    <3> QED
      BY <1>1, <3>2, <3>3 DEF Shown
  <2>2. CASE RowsOf(pages[q].bearer) # {}
    <3>1. pages'[q] = [pages[q] EXCEPT !.pc = "conflict"]
      BY <1>9, <2>2 DEF ServeCreate, UsersTypeOK
    <3> QED
      BY <1>3, <1>7, <3>1 DEF PageRecord
  <2> QED
    BY <2>1, <2>2
<1>10. ASSUME HearUser(q) PROVE Shown(q)'
  <2>1. pages'[q] = [Ended("in") EXCEPT !.claims = pages[q].claims, !.user = pages[q].user]
    BY <1>10 DEF HearUser, UsersTypeOK
  <2> QED
    BY <1>3, <2>1 DEF Ended, Fresh
<1>11. ASSUME Load(q) \/ HearNone(q) \/ HearConflict(q) PROVE Shown(q)'
  <2>1. pages'[q].user = pages[q].user
    <3>1. CASE Load(q)
      BY <1>7, <3>1 DEF Load, UsersTypeOK, PageRecord
    <3>2. CASE HearNone(q)
      BY <1>7, <3>2 DEF HearNone, UsersTypeOK, PageRecord
    <3>3. CASE HearConflict(q)
      BY <1>7, <3>3 DEF HearConflict, UsersTypeOK, PageRecord
    <3> QED
      BY <1>11, <3>1, <3>2, <3>3
  <2> QED
    BY <1>3, <2>1
<1>12. ASSUME Throw(q) \/ SignOut(q) \/ FailRefresh(q) PROVE Shown(q)'
  BY <1>6, <1>12 DEF Throw, SignOut, FailRefresh, UsersTypeOK
<1>13. ASSUME LoseCall(q) \/ Close(q) PROVE Shown(q)'
  <2>1. Leave(q)
    BY <1>13 DEF LoseCall, Close
  <2>2. CASE pages[q].pc = "creating"
    <3>1. pages'[q] = [pages[q] EXCEPT !.open = FALSE]
      BY <2>1, <2>2 DEF Leave, UsersTypeOK
    <3> QED
      BY <1>3, <1>7, <3>1 DEF PageRecord
  <2>3. CASE pages[q].pc # "creating"
    BY <1>6, <2>1, <2>3 DEF Leave, UsersTypeOK
  <2> QED
    BY <2>2, <2>3
<1>14. ASSUME NEW p \in Page, p # q,
              \/ Load(p) \/ ServerStep(p) \/ PageStep(p) \/ LoseCall(p) \/ Close(p)
              \/ SignOut(p) \/ FailRefresh(p)
       PROVE  Shown(q)'
  BY <1>4, <1>14, OtherPages
<1>15. CASE UNCHANGED userVars
  BY <1>4, <1>15, StillPages
<1> QED
  BY <1>4, <1>8, <1>9, <1>10, <1>11, <1>12, <1>13, <1>14, <1>15, StillPages
  DEF UserNext, ServerStep, PageStep

LEMMA InvInit == UserInit => UsersInv
<1> SUFFICES ASSUME UserInit PROVE UsersInv
  OBVIOUS
<1>1. UsersTypeOK
  BY TypesInit
<1>2. /\ \A i \in Page : users[i] = NoRow
      /\ \A p \in Page : pages[p] = Fresh
      /\ \A s \in SignIn : signins[s] = NoSignInYet
  BY DEF UserInit
<1>3. RowsAreUnique /\ NamesAreOwn
  BY <1>2 DEF RowsAreUnique, NamesAreOwn, NoRow
<1>4. StashInv
  BY <1>2 DEF UserInit, StashInv, NoSignInYet
<1>5. ASSUME NEW p \in Page PROVE LoadInv(p) /\ RowInv(p) /\ PageNameInv(p)
  BY <1>2 DEF LoadInv, RowInv, PageNameInv, Ahead, Loading, LoadingPcs, Fresh, NoRow
<1> QED
  BY <1>1, <1>3, <1>4, <1>5 DEF UsersInv

LEMMA InvStep == UsersInv /\ [UserNext]_userVars => UsersInv'
<1> SUFFICES ASSUME UsersInv, [UserNext]_userVars PROVE UsersInv'
  OBVIOUS
<1>1. UsersTypeOK'
  BY TypesStep, ShownStep DEF Types, Shown, UsersTypeOK
<1>2. RowsAreUnique' /\ NamesAreOwn' /\ StashInv'
  BY UniqueStep, NamesStep, StashStep
<1>3. \A p \in Page : LoadInv(p)' /\ RowInv(p)' /\ PageNameInv(p)'
  BY PagesStep DEF PageInv
<1> QED
  BY <1>1, <1>2, <1>3 DEF UsersInv

LEMMA InvAlways == UserSpec => []UsersInv
BY InvInit, InvStep, PTL DEF UserSpec

-----------------------------------------------------------------------------
(* What follows.                                                           *)

\* The tables and the storage keep their types, and a page shows no row that is
\* not there.
THEOREM UsersTypesCorrect == UserSpec => []UsersTypeOK
<1>1. UsersInv => UsersTypeOK
  BY DEF UsersInv
<1> QED
  BY <1>1, InvAlways, PTL

\* An account has one row however many pages race to register it, and a page that
\* nobody switched shows the row of the account it loaded.
THEOREM RegistrationIsUnique == UserSpec => []PagesAgree
<1>1. UsersInv => PagesAgree
  <2> SUFFICES ASSUME UsersInv PROVE PagesAgree
    OBVIOUS
  <2>1. ASSUME NEW p \in Page \ switched, pages[p].pc = "in"
        PROVE  pages[p].user \in RowsOf(pages[p].claims)
    <3>1. pages[p].user # NoUser /\ users[pages[p].user].account = pages[p].claims
      BY <2>1 DEF UsersInv, RowInv
    <3>2. pages[p].user \in Page \cup {NoUser}
      BY <2>1 DEF UsersInv, UsersTypeOK, PageRecord
    <3> QED
      BY <3>1, <3>2 DEF RowsOf
  <2> QED
    BY <2>1 DEF PagesAgree, UsersInv, RowsAreUnique
<1> QED
  BY <1>1, InvAlways, PTL

\* A page whose calls are answered fails only if the session changed under it.
THEOREM OnlySwitchedPagesFail == UserSpec => []FailuresAreSwitches
<1>1. UsersInv => FailuresAreSwitches
  BY DEF UsersInv, RowInv, FailuresAreSwitches
<1> QED
  BY <1>1, InvAlways, PTL

\* A row's name is its user's own, but for the provider's name that a switched page
\* or a refresh carried over.
THEOREM NamesAreNotMixed == UserSpec => []NamesAreOwn
<1>1. UsersInv => NamesAreOwn
  BY DEF UsersInv
<1> QED
  BY <1>1, InvAlways, PTL

\* The row that a page creates after an undisturbed sign-in has the name that the
\* user asked for.
THEOREM ProfileIsTheChosenOne == UserSpec => ProfileAsChosen
<1> DEFINE Right == \A p \in Page \ switched :
                      /\ pages[p].expected # NoRow
                      /\ users[p].account = NoAccount /\ users'[p].account # NoAccount
                      => users'[p] = pages[p].expected
<1>1. UsersInv /\ [UserNext]_userVars => [Right]_userVars
  <2> SUFFICES ASSUME UsersInv, [UserNext]_userVars, NEW p \in Page \ switched,
                      pages[p].expected # NoRow,
                      users[p].account = NoAccount, users'[p].account # NoAccount
               PROVE  users'[p] = pages[p].expected
    OBVIOUS
  <2> USE DEF UsersInv
  <2>1. users'[p] # users[p]
    OBVIOUS
  <2>2. PICK q \in Page : ServeCreate(q) \/ Rename(q)
    BY <2>1 DEF UserNext, userVars, BeginSignIn, FinishSignIn, StartRefresh, EndRefresh, DropRefresh,
                Load, ServerStep, ServeList, PageStep, HearUser, HearNone, HearConflict, Throw,
                LoseCall, Close, SignOut, FailRefresh
  <2>3. ~Rename(q)
    BY DEF Rename, UpdateName, UsersTypeOK, Row
  <2>4. RowsOf(pages[q].bearer) = {} /\ Insert(q) /\ q = p
    BY <2>1, <2>2, <2>3 DEF ServeCreate, Insert, UsersTypeOK
  <2>5. users'[p] = [account |-> pages[p].bearer, name |-> NameFor(p)]
    BY <2>4 DEF Insert, UsersTypeOK
  <2>6. pages[p].bearer = pages[p].claims
    BY <2>2, <2>3, <2>4 DEF ServeCreate, RowInv
  <2>7. /\ pages[p].expected.account = pages[p].claims
        /\ pages[p].expected.name = NameFor(p)
    BY <2>6 DEF PageNameInv, ChosenName, NameFor
  <2>8. pages[p].expected \in Row
    BY DEF UsersTypeOK, PageRecord
  <2> QED
    BY <2>5, <2>6, <2>7, <2>8 DEF Row
<1>2. UserSpec => [][Right]_userVars
  BY <1>1, InvAlways, PTL DEF UserSpec
<1> QED
  BY <1>2 DEF ProfileAsChosen
=============================================================================
