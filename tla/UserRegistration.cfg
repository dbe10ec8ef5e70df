SPECIFICATION UserFairSpec
CONSTANTS
    Account = {a, b, c}
    Named = {c}
    Page = {p1, p2}
    SignIns = 2
    NoAccount = NoAccount
    NoName = NoName
    NoUser = NoUser
INVARIANTS UsersTypeOK PagesAgree FailuresAreSwitches NamesAreOwn
PROPERTIES ProfileAsChosen PageLoadsEnd
CHECK_DEADLOCK FALSE
