------------------------------- MODULE Login --------------------------------
(***************************************************************************)
(* Who may use the panel.  A login request passes the list of blocked      *)
(* addresses, compares the secret and then counts a failure or clears the  *)
(* count, under IPBlocker.mu; the third failure in a row blocks the        *)
(* address in memory and in the firewall of the host.  An answer to a      *)
(* login or a logout changes the cookies of the browser when it arrives,   *)
(* in any order; every other request passes the chain of middlewares that  *)
(* NewRouter builds.  Signatures and random tokens are opaque values.      *)
(***************************************************************************)
EXTENDS Integers, FiniteSets

CONSTANTS
  Addresses,    \* client addresses, as GetClientIP tells them apart
  Exempt,       \* those of the host itself
  Browser,      \* the address of the administrator's browser
  Requests,     \* goroutines that serve login requests
  Secrets,      \* admin secrets the operator may configure
  CsrfTokens,   \* values of randomToken
  None,
  Settings,     \* security settings and surroundings the panel may run with
  TTL,          \* ticks a token is valid
  MaxAnswers    \* bound: answers under way to the browser

Limit == 3

Modes == {"", "insecure", "self_signed", "strict", "unknown"}
RawSettings ==
  [mode : Modes, cookies : {"auto", "always", "never"}, hsts : BOOLEAN,
   tls : BOOLEAN, proxy : BOOLEAN]

Tokens == [secret : Secrets, left : 0 .. TTL]
Cookies ==
  [name : {"session"}, path : {"/", "/api/"}, value : Tokens] \cup
  [name : {"csrf"}, path : {"/", "/api/"}, value : CsrfTokens]
LoginAnswers == [token : Tokens, csrf : CsrfTokens]
Steps == {"arrived", "wrong", "right", "firewall"}

ASSUME ConstantsAssumption ==
  /\ Exempt \subseteq Addresses
  /\ Browser \in Addresses
  /\ IsFiniteSet(Requests)
  /\ None \notin Requests
  /\ None \notin Tokens
  /\ None \notin CsrfTokens
  /\ None \notin LoginAnswers
  /\ None \notin [from : Addresses, step : Steps]
  /\ Settings \subseteq RawSettings
  /\ TTL \in Nat \ {0}
  /\ MaxAnswers \in Nat

VARIABLES
  setting,    \* the settings of this installation
  secret,     \* the admin secret of the running panel
  attempts,   \* IPBlocker.attempts
  blacklist,  \* IPBlocker.blacklist
  firewall,   \* the addresses the firewall of the host drops
  mu,         \* the request that holds IPBlocker.mu
  req,        \* what each login request is doing
  answers,    \* answers under way: sessions, or None for a logout
  jar,        \* the cookies of the browser
  page,       \* the last answer the browser got: "in", "out" or "none"
  guesses     \* wrong secrets not yet cleared by a success (history)

vars == <<setting, secret, attempts, blacklist, firewall, mu, req, answers, jar, page, guesses>>

blockerVars == <<attempts, blacklist, firewall, mu>>
browserVars == <<answers, jar, page>>

-----------------------------------------------------------------------------
(* Settings: normalizeSecurity and what follows from it                     *)

DeploymentMode(s) ==
  CASE s.mode = "" /\ s.hsts -> "strict"
    [] s.mode = "" /\ ~s.hsts /\ s.tls -> "self_signed"
    [] s.mode = "unknown" \/ (s.mode = "" /\ ~s.hsts /\ ~s.tls) -> "insecure"
    [] OTHER -> s.mode

\* TLS of the panel itself, or the scheme a reverse proxy forwards.
RequestIsHTTPS(s) == s.tls \/ s.proxy

ShouldUseSecureCookie(s) ==
  \/ s.cookies = "always"
  \/ /\ s.cookies = "auto"
     /\ \/ DeploymentMode(s) = "strict"
        \/ DeploymentMode(s) = "self_signed" /\ RequestIsHTTPS(s)

\* A browser refuses a Secure cookie that comes over plain HTTP.
Keeps(s) == ShouldUseSecureCookie(s) => RequestIsHTTPS(s)

-----------------------------------------------------------------------------
(* Login requests                                                           *)

\* IPBlockMiddleware.  IsBlocked waits while the lock is held.  The firewall
\* drops what comes from a peer it blocks; behind a proxy the peer is another
\* address than the header names, and the rule drops less than it does here.
Arrive(r, a) ==
  /\ req[r] = None
  /\ mu = None
  /\ a \notin firewall
  /\ a \notin blacklist
  /\ req' = [req EXCEPT ![r] = [from |-> a, step |-> "arrived"]]
  /\ UNCHANGED <<setting, secret, blockerVars, browserVars, guesses>>

\* A body that is no JSON is answered without a record.
BadBody(r) ==
  /\ req[r] # None
  /\ req[r].step = "arrived"
  /\ req' = [req EXCEPT ![r] = None]
  /\ UNCHANGED <<setting, secret, blockerVars, browserVars, guesses>>

\* MatchSecret says no ...
Mismatch(r) ==
  /\ req[r] # None
  /\ req[r].step = "arrived"
  /\ req' = [req EXCEPT ![r].step = "wrong"]
  /\ guesses' = IF req[r].from \in Exempt THEN guesses
                ELSE [guesses EXCEPT ![req[r].from] = @ + 1]
  /\ UNCHANGED <<setting, secret, blockerVars, browserVars>>

\* ... or yes: the administrator, in the browser.
Match(r) ==
  /\ req[r] # None
  /\ req[r].step = "arrived"
  /\ req[r].from = Browser
  /\ req' = [req EXCEPT ![r].step = "right"]
  /\ UNCHANGED <<setting, secret, blockerVars, browserVars, guesses>>

\* Mutant of Counts: no address is exempt.
CountsAll(a) == TRUE

Counts(a) == a \notin Exempt

\* Mutant of TooMany: blocks one failure late.
OverLimit(count) == count > Limit

TooMany(count) == count >= Limit

RecordFailure(r) ==
  /\ req[r] # None
  /\ req[r].step = "wrong"
  /\ mu = None
  /\ LET a == req[r].from IN
     \/ /\ ~Counts(a)
        /\ req' = [req EXCEPT ![r] = None]
        /\ UNCHANGED <<attempts, blacklist, mu>>
     \/ /\ Counts(a)
        /\ attempts' = [attempts EXCEPT ![a] = @ + 1]
        /\ IF TooMany(attempts[a] + 1)
             THEN /\ blacklist' = blacklist \cup {a}
                  /\ mu' = r
                  /\ req' = [req EXCEPT ![r].step = "firewall"]
             ELSE UNCHANGED <<blacklist, mu>> /\ req' = [req EXCEPT ![r] = None]
  /\ UNCHANGED <<firewall, setting, secret, browserVars, guesses>>

\* The command ends, and the lock is released; its failure is only logged.
BlockAtSystemFirewall(r) ==
  /\ mu = r
  /\ firewall' \in {firewall, firewall \cup {req[r].from}}
  /\ mu' = None
  /\ req' = [req EXCEPT ![r] = None]
  /\ UNCHANGED <<setting, secret, attempts, blacklist, browserVars, guesses>>

\* The requests from a that have tried a wrong secret and are not counted yet.
Wrong(a) == {r \in Requests : req[r] # None /\ req[r].from = a /\ req[r].step = "wrong"}

\* Mutant of CountAfter: a success takes one failure back.
OneForgiven(count) == count - 1

\* A success forgets the failures before it.
CountAfter(count) == 0

\* The count is cleared, the block is not.  The answer carries a token and a
\* fresh random value; to sign with an HMAC over a byte slice cannot fail.
ResetAttempts(r) ==
  /\ req[r] # None
  /\ req[r].step = "right"
  /\ mu = None
  /\ Cardinality(answers) < MaxAnswers
  /\ attempts' = [attempts EXCEPT ![req[r].from] = CountAfter(@)]
  /\ guesses' = [guesses EXCEPT ![req[r].from] =
                   IF req[r].from \in Exempt THEN 0 ELSE Cardinality(Wrong(req[r].from))]
  /\ \E c \in CsrfTokens :
       /\ \A answer \in answers \ {None} : answer.csrf # c
       /\ \A cookie \in jar : cookie.value # c
       /\ answers' = answers \cup {[token |-> [secret |-> secret, left |-> TTL], csrf |-> c]}
  /\ req' = [req EXCEPT ![r] = None]
  /\ UNCHANGED <<setting, secret, blacklist, firewall, mu, jar, page>>

-----------------------------------------------------------------------------
(* The other requests: the middlewares, and the cookies they look at        *)

\* Mutant of CookiePath: every cookie under the path of the API.
OnePath(name) == "/api/"

CookiePath(name) == IF name = "csrf" THEN "/" ELSE "/api/"

\* The browser attaches what it holds; the script of the page at "/" sees
\* only the cookies of that path.
Attached(name) ==
  LET held == {cookie \in jar : cookie.name = name} IN
  IF held = {} THEN None ELSE (CHOOSE cookie \in held : TRUE).value

Visible(name) ==
  LET held == {cookie \in jar : cookie.name = name /\ cookie.path = "/"} IN
  IF held = {} THEN None ELSE (CHOOSE cookie \in held : TRUE).value

Calls ==
  [from : Addresses, bearer : Tokens \cup {None}, session : {Attached("session")},
   csrf : {Attached("csrf")}, header : CsrfTokens \cup {None}, unsafe : BOOLEAN]

\* What the web client sends: no bearer token, the header read from the cookie.
BrowserCall ==
  [from |-> Browser, bearer |-> None, session |-> Attached("session"),
   csrf |-> Attached("csrf"), header |-> Visible("csrf"), unsafe |-> TRUE]

Verify(token) == token # None /\ token.secret = secret /\ token.left > 0

IPBlockMiddleware(c) == c.from \notin firewall /\ c.from \notin blacklist

CSRFMiddleware(c) ==
  ~c.unsafe \/ c.bearer # None \/ (c.csrf # None /\ c.header = c.csrf)

\* Mutant of JWTMiddleware: the cookie before the bearer token.
CookieBeforeBearer(c) ==
  IF c.session # None THEN Verify(c.session) ELSE Verify(c.bearer)

JWTMiddleware(c) ==
  IF c.bearer # None THEN Verify(c.bearer) ELSE Verify(c.session)

Executes(c) == IPBlockMiddleware(c) /\ CSRFMiddleware(c) /\ JWTMiddleware(c)

\* A logout passes the chain and changes nothing on the server.
Logout ==
  /\ mu = None
  /\ Executes(BrowserCall)
  /\ Cardinality(answers) < MaxAnswers
  /\ answers' = answers \cup {None}
  /\ UNCHANGED <<setting, secret, blockerVars, req, jar, page, guesses>>

-----------------------------------------------------------------------------
(* The browser                                                              *)

Others(names) == {cookie \in jar : ~\E name \in names :
                    cookie.name = name /\ cookie.path = CookiePath(name)}

\* Set-Cookie of a login replaces what the browser holds under that name and path.
DeliverLogin(answer) ==
  /\ answer \in answers \ {None}
  /\ answers' = answers \ {answer}
  /\ page' = "in"
  /\ jar' = IF Keeps(setting)
              THEN Others({"session", "csrf"}) \cup
                   {[name |-> "session", path |-> CookiePath("session"), value |-> answer.token],
                    [name |-> "csrf", path |-> CookiePath("csrf"), value |-> answer.csrf]}
              ELSE jar
  /\ UNCHANGED <<setting, secret, blockerVars, req, guesses>>

\* Mutant of DeliverLogout: the session cookie is cleared under the wrong path.
DeliverLogoutAtRoot ==
  /\ None \in answers
  /\ answers' = answers \ {None}
  /\ page' = "out"
  /\ jar' = {cookie \in jar : cookie.path # "/"}
  /\ UNCHANGED <<setting, secret, blockerVars, req, guesses>>

DeliverLogout ==
  /\ None \in answers
  /\ answers' = answers \ {None}
  /\ page' = "out"
  /\ jar' = Others({"session", "csrf"})
  /\ UNCHANGED <<setting, secret, blockerVars, req, guesses>>

Age(token) == [token EXCEPT !.left = IF @ = 0 THEN 0 ELSE @ - 1]

\* Time passes.
Tick ==
  /\ answers' = {IF answer = None THEN None ELSE [answer EXCEPT !.token = Age(@)] : answer \in answers}
  /\ jar' = {IF cookie.name = "session" THEN [cookie EXCEPT !.value = Age(@)] ELSE cookie : cookie \in jar}
  /\ UNCHANGED <<setting, secret, blockerVars, req, page, guesses>>

\* Max-Age counts from the arrival of the answer: cookies outlive the token.
CookiesExpire ==
  /\ \E cookie \in jar : cookie.name = "session" /\ cookie.value.left = 0
  /\ jar' = {}
  /\ page' = "none"
  /\ UNCHANGED <<setting, secret, blockerVars, req, answers, guesses>>

-----------------------------------------------------------------------------
(* The panel stops and starts again, perhaps with another secret; the       *)
(* firewall keeps its rules unless the host restarts with it.               *)
Restart ==
  /\ secret' \in Secrets
  /\ attempts' = [a \in Addresses |-> 0]
  /\ blacklist' = {}
  /\ firewall' \in {firewall, {}}
  /\ mu' = None
  /\ req' = [r \in Requests |-> None]
  /\ guesses' = [a \in Addresses |-> 0]
  /\ UNCHANGED <<setting, browserVars>>

Init ==
  /\ setting \in Settings
  /\ secret \in Secrets
  /\ attempts = [a \in Addresses |-> 0]
  /\ blacklist = {}
  /\ firewall = {}
  /\ mu = None
  /\ req = [r \in Requests |-> None]
  /\ answers = {}
  /\ jar = {}
  /\ page = "none"
  /\ guesses = [a \in Addresses |-> 0]

Next ==
  \/ \E r \in Requests :
       \/ \E a \in Addresses : Arrive(r, a)
       \/ BadBody(r) \/ Mismatch(r) \/ Match(r)
       \/ RecordFailure(r) \/ BlockAtSystemFirewall(r) \/ ResetAttempts(r)
  \/ \E answer \in answers \ {None} : DeliverLogin(answer)
  \/ Logout \/ DeliverLogout \/ Tick \/ CookiesExpire \/ Restart

Spec == Init /\ [][Next]_vars

-----------------------------------------------------------------------------
TypeOK ==
  /\ setting \in Settings
  /\ secret \in Secrets
  /\ attempts \in [Addresses -> Nat]
  /\ blacklist \subseteq Addresses
  /\ firewall \subseteq Addresses
  /\ mu \in Requests \cup {None}
  /\ req \in [Requests -> [from : Addresses, step : Steps] \cup {None}]
  /\ answers \subseteq LoginAnswers \cup {None}
  /\ jar \subseteq Cookies
  /\ page \in {"in", "out", "none"}
  /\ guesses \in [Addresses -> Nat]

(* However many logins run at once, and whatever successes come between, an
   address tries at most two wrong secrets, and one more for each request
   that was let in before the block (ip_blocker.go, IsBlocked before the
   body is read).                                                          *)
GuessesBounded == \A a \in Addresses : guesses[a] <= Limit - 1 + Cardinality(Requests)

(* Only an address that has tried three wrong secrets since its last success
   is newly blocked, by the panel or by the firewall, and never an address of
   the host (RecordFailure, ResetAttempts).                                *)
BlockedWithCause ==
  [][\A a \in (blacklist' \cup firewall') \ (blacklist \cup firewall) :
       a \notin Exempt /\ guesses[a] >= Limit]_vars

(* No request that changes something is executed on the strength of the
   cookie alone: it carries a valid bearer token, or the value of the other
   cookie in its header.  It takes both middlewares: one lets a request with
   any bearer token pass, the other must then not look at the cookie.      *)
CookieCallsNeedCsrf ==
  \A c \in Calls : Executes(c) /\ c.unsafe =>
    Verify(c.bearer) \/ (c.header # None /\ c.header = c.csrf)

(* When the last answer the browser got is that of a logout, it holds no
   cookie of the panel (Logout clears under the names and paths of Login). *)
LogoutClears == page = "out" => jar = {}

(* When the last answer is that of a login, the browser can change things
   until the token expires, the secret changes or the address is blocked,
   whatever the settings, unless they ask for Secure cookies or production
   HTTPS and the panel is reached over plain HTTP (normalizeSecurity,
   shouldUseSecureCookie, cookiePath and the chain of middlewares).        *)
SessionWorks ==
  page = "in" /\ (RequestIsHTTPS(setting) \/
                  (setting.cookies # "always" /\ setting.mode # "strict" /\ ~setting.hsts)) =>
    /\ jar # {}
    /\ Verify(Attached("session")) /\ IPBlockMiddleware(BrowserCall) => Executes(BrowserCall)

=============================================================================
