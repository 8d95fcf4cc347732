\* Three logins at once, from the host and from outside, two secrets.
CONSTANTS
  Addresses = {away, host}
  Exempt = {host}
  Browser = away
  Requests = {r1, r2, r3}
  Secrets = {s1, s2}
  CsrfTokens = {c1, c2, c3}
  None = None
  Settings <- TypicalSettings
  TTL = 1
  MaxAnswers = 2
SPECIFICATION Spec
INVARIANTS TypeOK GuessesBounded CookieCallsNeedCsrf LogoutClears SessionWorks
PROPERTY BlockedWithCause
SYMMETRY Symmetry
