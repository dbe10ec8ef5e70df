CONSTANTS
    l1 = l1
    l2 = l2
    Login = {l1, l2}
    Sends = 2
    apple = apple
    google = google
    oidc = oidc
    e2e = e2e
    plain = plain
    appleIss = appleIss
    googleIss = googleIss
    mockIss = mockIss
    c1 = c1
    c2 = c2
    Provider = {apple, google, oidc, e2e, plain}
    Issuer <- MCIssuer
    ClientID <- MCClientID
    Rank <- MCRank
    Configured = {apple, google, oidc, e2e, plain}
    FormPost = {apple}
    PrivateKeyJWT = {apple}
    AppleIssuer = {appleIss}
    GoogleIssuer = googleIss
    Google = google
    CrossSite = {appleIss, googleIss}
    Https = TRUE
    NoLogin = NoLogin
    NoProvider = NoProvider
    NoToken = NoToken
SPECIFICATION LoginSpec
INVARIANTS LoginTypeOK UndisturbedLoginSucceeds OneTokenPerLogin TokensResolve
CHECK_DEADLOCK FALSE
