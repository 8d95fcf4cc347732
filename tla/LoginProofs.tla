----------------------------- MODULE LoginProofs -----------------------------
(***************************************************************************)
(* Login for every set of addresses and any number of requests at once:    *)
(* guesses are bounded, nobody is blocked without cause, and the cookies   *)
(* of the browser do what they are for.                                    *)
(***************************************************************************)
EXTENDS Login, FiniteSetTheorems, TLAPS

(* The requests from a that may still add to its count.                    *)
Open(a) ==
  {r \in Requests : req[r] # None /\ req[r].from = a /\ req[r].step \in {"arrived", "wrong"}}

(* Who holds the lock runs the firewall command for a blocked address.     *)
LockHeld ==
  mu # None => req[mu] # None /\ req[mu].step = "firewall" /\ req[mu].from \in blacklist

(* Every wrong secret is counted, or its request is about to count it.     *)
Counted ==
  \A a \in Addresses :
    guesses[a] = IF a \in Exempt THEN 0 ELSE attempts[a] + Cardinality(Wrong(a))

(* The third failure blocks.                                               *)
FreeBelow == \A a \in Addresses \ blacklist : attempts[a] <= Limit - 1

(* A request is let in below the limit, and adds one failure at most.      *)
OpenBounded ==
  \A a \in Addresses :
    attempts[a] + Cardinality(Open(a)) <= Limit - 1 + Cardinality(Requests)

CountInv == Counted /\ FreeBelow /\ OpenBounded

BlockInv == TypeOK /\ LockHeld /\ CountInv

(* The jar holds one cookie of a name, under the path of that name, and
   after a login that the browser kept it holds both.                      *)
JarPaths == \A cookie \in jar : cookie.path = CookiePath(cookie.name)
JarSingle == \A one, other \in jar : one.name = other.name => one = other
JarFull ==
  page = "in" /\ Keeps(setting) =>
    \A name \in {"session", "csrf"} : \E cookie \in jar : cookie.name = name

CookieInv == TypeOK /\ JarPaths /\ JarSingle /\ JarFull /\ LogoutClears

-----------------------------------------------------------------------------
(* What a request is doing (the goroutine of a handler).                   *)
LEMMA RequestFact ==
  ASSUME TypeOK, NEW r \in Requests, req[r] # None
  PROVE  /\ req[r] \in [from : Addresses, step : Steps]
         /\ req[r].from \in Addresses
         /\ req[r].step \in Steps
<1>1. req[r] \in [from : Addresses, step : Steps]
  BY DEF TypeOK
<1> QED BY <1>1

(* Moving a request on leaves its address and the other requests alone.    *)
LEMMA Moved ==
  ASSUME TypeOK, NEW r \in Requests, req[r] # None, NEW step \in Steps,
         req' = [req EXCEPT ![r].step = step]
  PROVE  /\ req' \in [Requests -> [from : Addresses, step : Steps] \cup {None}]
         /\ req'[r] # None
         /\ req'[r].from = req[r].from
         /\ req'[r].step = step
         /\ \A q \in Requests \ {r} : req'[q] = req[q]
<1>1. req[r] \in [from : Addresses, step : Steps]
  BY RequestFact
<1>2. [req[r] EXCEPT !.step = step] \in [from : Addresses, step : Steps]
  BY <1>1
<1>3. req' = [req EXCEPT ![r] = [req[r] EXCEPT !.step = step]]
  OBVIOUS
<1>4. req \in [Requests -> [from : Addresses, step : Steps] \cup {None}]
  BY DEF TypeOK
<1>5. req'[r] = [req[r] EXCEPT !.step = step] /\ \A q \in Requests \ {r} : req'[q] = req[q]
  BY <1>3, <1>4
<1>6. req' \in [Requests -> [from : Addresses, step : Steps] \cup {None}]
  BY <1>2, <1>3, <1>4
<1>7. [req[r] EXCEPT !.step = step].from = req[r].from /\ [req[r] EXCEPT !.step = step].step = step
  BY <1>1
<1> QED BY <1>2, <1>5, <1>6, <1>7, ConstantsAssumption

(* A request that is answered is gone, the others stay.                    *)
LEMMA Answered ==
  ASSUME TypeOK, NEW r \in Requests, req' = [req EXCEPT ![r] = None]
  PROVE  /\ req' \in [Requests -> [from : Addresses, step : Steps] \cup {None}]
         /\ req'[r] = None
         /\ \A q \in Requests \ {r} : req'[q] = req[q]
BY DEF TypeOK

LEMMA Sizes ==
  ASSUME NEW a
  PROVE  /\ IsFiniteSet(Wrong(a)) /\ Cardinality(Wrong(a)) \in Nat
         /\ IsFiniteSet(Open(a)) /\ Cardinality(Open(a)) \in Nat
         /\ Cardinality(Requests) \in Nat
         /\ Cardinality(Wrong(a)) <= Cardinality(Open(a))
         /\ Cardinality(Open(a)) <= Cardinality(Requests)
<1>1. IsFiniteSet(Requests)
  BY ConstantsAssumption
<1>2. Open(a) \in SUBSET Requests
  BY DEF Open
<1>3. IsFiniteSet(Open(a)) /\ Cardinality(Open(a)) <= Cardinality(Requests)
  BY <1>1, <1>2, FS_Subset
<1>4. Wrong(a) \in SUBSET Open(a)
  BY DEF Open, Wrong
<1>5. IsFiniteSet(Wrong(a)) /\ Cardinality(Wrong(a)) <= Cardinality(Open(a))
  BY <1>3, <1>4, FS_Subset
<1> QED BY <1>1, <1>3, <1>5, FS_CardinalityType

(* A step of one request changes who is open or wrong by that request only. *)
LEMMA OneMoves ==
  ASSUME NEW r \in Requests, NEW a, \A q \in Requests \ {r} : req'[q] = req[q]
  PROVE  /\ Wrong(a)' = IF req'[r] # None /\ req'[r].from = a /\ req'[r].step = "wrong"
                          THEN Wrong(a) \cup {r} ELSE Wrong(a) \ {r}
         /\ Open(a)' = IF req'[r] # None /\ req'[r].from = a /\ req'[r].step \in {"arrived", "wrong"}
                         THEN Open(a) \cup {r} ELSE Open(a) \ {r}
<1>1. Wrong(a)' = {q \in Requests : req'[q] # None /\ req'[q].from = a /\ req'[q].step = "wrong"}
  BY DEF Wrong
<1>2. Open(a)' = {q \in Requests : req'[q] # None /\ req'[q].from = a
                                     /\ req'[q].step \in {"arrived", "wrong"}}
  BY DEF Open
<1> QED BY <1>1, <1>2 DEF Wrong, Open

LEMMA OneLess ==
  ASSUME NEW r, NEW a
  PROVE  /\ Cardinality(Wrong(a) \ {r}) =
              IF r \in Wrong(a) THEN Cardinality(Wrong(a)) - 1 ELSE Cardinality(Wrong(a))
         /\ Cardinality(Wrong(a) \cup {r}) =
              IF r \in Wrong(a) THEN Cardinality(Wrong(a)) ELSE Cardinality(Wrong(a)) + 1
         /\ Cardinality(Open(a) \ {r}) =
              IF r \in Open(a) THEN Cardinality(Open(a)) - 1 ELSE Cardinality(Open(a))
         /\ Cardinality(Open(a) \cup {r}) =
              IF r \in Open(a) THEN Cardinality(Open(a)) ELSE Cardinality(Open(a)) + 1
BY Sizes, FS_AddElement, FS_RemoveElement

(* A token that grows older is a token.                                    *)
LEMMA AgeFact ==
  ASSUME NEW token \in Tokens
  PROVE  Age(token) \in Tokens
BY ConstantsAssumption DEF Age, Tokens

-----------------------------------------------------------------------------
(* A step keeps the types (every action of Next).                          *)
LEMMA TypeStep == TypeOK /\ LockHeld /\ [Next]_vars => TypeOK'
<1> SUFFICES ASSUME TypeOK, LockHeld, [Next]_vars PROVE TypeOK'
  OBVIOUS
<1> USE ConstantsAssumption
<1>1. ASSUME NEW r \in Requests, NEW a \in Addresses, Arrive(r, a) PROVE TypeOK'
  <2>1. [from |-> a, step |-> "arrived"] \in [from : Addresses, step : Steps]
    BY DEF Steps
  <2>2. req' \in [Requests -> [from : Addresses, step : Steps] \cup {None}]
    BY <1>1, <2>1 DEF Arrive, TypeOK
  <2> QED BY <1>1, <2>2 DEF Arrive, TypeOK, blockerVars, browserVars
<1>2. ASSUME NEW r \in Requests, BadBody(r) PROVE TypeOK'
  BY <1>2, Answered DEF BadBody, TypeOK, blockerVars, browserVars
<1>3. ASSUME NEW r \in Requests, Mismatch(r) PROVE TypeOK'
  <2>1. "wrong" \in Steps
    BY DEF Steps
  <2>2. req' \in [Requests -> [from : Addresses, step : Steps] \cup {None}]
    BY <1>3, <2>1, Moved DEF Mismatch
  <2>3. req[r].from \in Addresses
    BY <1>3, RequestFact DEF Mismatch
  <2>4. guesses' \in [Addresses -> Nat]
    BY <1>3, <2>3 DEF Mismatch, TypeOK
  <2> QED BY <1>3, <2>2, <2>4 DEF Mismatch, TypeOK, blockerVars, browserVars
<1>4. ASSUME NEW r \in Requests, Match(r) PROVE TypeOK'
  <2>1. "right" \in Steps
    BY DEF Steps
  <2>2. req' \in [Requests -> [from : Addresses, step : Steps] \cup {None}]
    BY <1>4, <2>1, Moved DEF Match
  <2> QED BY <1>4, <2>2 DEF Match, TypeOK, blockerVars, browserVars
<1>5. ASSUME NEW r \in Requests, RecordFailure(r) PROVE TypeOK'
  <2>1. "firewall" \in Steps
    BY DEF Steps
  <2>2. req[r] # None /\ req[r].from \in Addresses
    BY <1>5, RequestFact DEF RecordFailure
  <2>3. req' = [req EXCEPT ![r] = None] \/ req' = [req EXCEPT ![r].step = "firewall"]
    BY <1>5 DEF RecordFailure
  <2>4. req' \in [Requests -> [from : Addresses, step : Steps] \cup {None}]
    BY <2>1, <2>2, <2>3, Moved, Answered
  <2>5. attempts' \in [Addresses -> Nat]
    BY <1>5, <2>2 DEF RecordFailure, TypeOK
  <2>6. blacklist' \subseteq Addresses /\ mu' \in Requests \cup {None}
    BY <1>5, <2>2 DEF RecordFailure, TypeOK
  <2> QED BY <1>5, <2>4, <2>5, <2>6 DEF RecordFailure, TypeOK, browserVars
<1>6. ASSUME NEW r \in Requests, BlockAtSystemFirewall(r) PROVE TypeOK'
  <2>1. req' \in [Requests -> [from : Addresses, step : Steps] \cup {None}]
    BY <1>6, Answered DEF BlockAtSystemFirewall
  <2>2. req[r].from \in Addresses
    BY <1>6 DEF BlockAtSystemFirewall, LockHeld, TypeOK
  <2> QED BY <1>6, <2>1, <2>2 DEF BlockAtSystemFirewall, TypeOK, browserVars
<1>7. ASSUME NEW r \in Requests, ResetAttempts(r) PROVE TypeOK'
  <2>1. req' \in [Requests -> [from : Addresses, step : Steps] \cup {None}]
    BY <1>7, Answered DEF ResetAttempts
  <2>2. req[r].from \in Addresses
    BY <1>7, RequestFact DEF ResetAttempts
  <2>3. attempts' \in [Addresses -> Nat]
    BY <1>7, <2>2 DEF ResetAttempts, CountAfter, TypeOK
  <2>4. Cardinality(Wrong(req[r].from)) \in Nat
    BY Sizes
  <2>5. guesses' \in [Addresses -> Nat]
    BY <1>7, <2>2, <2>4 DEF ResetAttempts, TypeOK
  <2>6. [secret |-> secret, left |-> TTL] \in Tokens
    BY DEF Tokens, TypeOK
  <2>7. answers' \subseteq LoginAnswers \cup {None}
    <3> PICK c \in CsrfTokens :
          answers' = answers \cup {[token |-> [secret |-> secret, left |-> TTL], csrf |-> c]}
      BY <1>7 DEF ResetAttempts
    <3>1. [token |-> [secret |-> secret, left |-> TTL], csrf |-> c] \in LoginAnswers
      BY <2>6 DEF LoginAnswers
    <3> QED BY <3>1 DEF TypeOK
  <2> QED BY <1>7, <2>1, <2>3, <2>5, <2>7 DEF ResetAttempts, TypeOK
<1>8. ASSUME NEW answer \in answers \ {None}, DeliverLogin(answer) PROVE TypeOK'
  <2>1. answer.token \in Tokens /\ answer.csrf \in CsrfTokens
    BY DEF TypeOK, LoginAnswers
  <2>2. /\ [name |-> "session", path |-> CookiePath("session"), value |-> answer.token] \in Cookies
        /\ [name |-> "csrf", path |-> CookiePath("csrf"), value |-> answer.csrf] \in Cookies
    BY <2>1 DEF Cookies, CookiePath
  <2>3. jar' \subseteq Cookies
    BY <1>8, <2>2 DEF DeliverLogin, Others, TypeOK
  <2> QED BY <1>8, <2>3 DEF DeliverLogin, TypeOK, blockerVars
<1>9. CASE Logout
  BY <1>9 DEF Logout, TypeOK, blockerVars
<1>10. CASE DeliverLogout
  BY <1>10 DEF DeliverLogout, Others, TypeOK, blockerVars
<1>11. CASE Tick
  <2>1. ASSUME NEW answer \in answers, answer # None
        PROVE  [answer EXCEPT !.token = Age(@)] \in LoginAnswers
    <3>1. answer \in LoginAnswers
      BY <2>1 DEF TypeOK
    <3>2. Age(answer.token) \in Tokens
      BY <3>1, AgeFact DEF LoginAnswers
    <3> QED BY <3>1, <3>2 DEF LoginAnswers
  <2>2. ASSUME NEW cookie \in jar, cookie.name = "session"
        PROVE  [cookie EXCEPT !.value = Age(@)] \in Cookies
    <3>1. cookie \in [name : {"session"}, path : {"/", "/api/"}, value : Tokens]
      BY <2>2 DEF TypeOK, Cookies
    <3>2. Age(cookie.value) \in Tokens
      BY <3>1, AgeFact
    <3>3. [cookie EXCEPT !.value = Age(@)] \in [name : {"session"}, path : {"/", "/api/"}, value : Tokens]
      BY <3>1, <3>2
    <3> QED BY <3>3 DEF Cookies
  <2>3. answers' \subseteq LoginAnswers \cup {None}
    BY <1>11, <2>1 DEF Tick
  <2>4. jar' \subseteq Cookies
    BY <1>11, <2>2 DEF Tick, TypeOK
  <2> QED BY <1>11, <2>3, <2>4 DEF Tick, TypeOK, blockerVars
<1>12. CASE CookiesExpire
  BY <1>12 DEF CookiesExpire, TypeOK, blockerVars
<1>13. CASE Restart
  BY <1>13 DEF Restart, TypeOK, browserVars
<1>14. CASE UNCHANGED vars
  BY <1>14 DEF TypeOK, vars
<1> QED BY <1>1, <1>2, <1>3, <1>4, <1>5, <1>6, <1>7, <1>8, <1>9, <1>10, <1>11, <1>12, <1>13, <1>14
       DEF Next

(* Only the request that runs the command holds the lock, and its address is
   on the list (blockIP, called with IPBlocker.mu held).                   *)
LEMMA LockStep == TypeOK /\ LockHeld /\ [Next]_vars => LockHeld'
<1> SUFFICES ASSUME TypeOK, LockHeld, [Next]_vars PROVE LockHeld'
  OBVIOUS
<1> USE ConstantsAssumption
<1>1. ASSUME NEW r \in Requests, Mismatch(r) \/ Match(r) PROVE LockHeld'
  <2>1. req[r] # None /\ req[r].step = "arrived" /\ mu' = mu /\ blacklist' = blacklist
    BY <1>1 DEF Mismatch, Match, blockerVars
  <2>2. "wrong" \in Steps /\ "right" \in Steps
    BY DEF Steps
  <2>3. \A q \in Requests \ {r} : req'[q] = req[q]
    BY <1>1, <2>1, <2>2, Moved DEF Mismatch, Match
  <2>4. mu # r
    BY <2>1 DEF LockHeld
  <2> QED BY <2>1, <2>3, <2>4 DEF LockHeld, TypeOK
<1>2. ASSUME NEW r \in Requests, NEW a \in Addresses, Arrive(r, a) PROVE LockHeld'
  BY <1>2 DEF Arrive, LockHeld, blockerVars
<1>3. ASSUME NEW r \in Requests, BadBody(r) PROVE LockHeld'
  <2>1. req[r] # None /\ req[r].step = "arrived" /\ mu' = mu /\ blacklist' = blacklist
    BY <1>3 DEF BadBody, blockerVars
  <2>2. mu # r
    BY <2>1 DEF LockHeld
  <2>3. \A q \in Requests \ {r} : req'[q] = req[q]
    BY <1>3, Answered DEF BadBody
  <2> QED BY <2>1, <2>2, <2>3 DEF LockHeld, TypeOK
<1>4. ASSUME NEW r \in Requests, RecordFailure(r) PROVE LockHeld'
  <2>1. req[r] # None /\ mu = None
    BY <1>4 DEF RecordFailure
  <2>2. CASE mu' = None
    BY <2>2 DEF LockHeld
  <2>3. CASE mu' # None
    <3>1. /\ req' = [req EXCEPT ![r].step = "firewall"]
          /\ mu' = r
          /\ blacklist' = blacklist \cup {req[r].from}
      BY <1>4, <2>1, <2>3 DEF RecordFailure
    <3>2. "firewall" \in Steps
      BY DEF Steps
    <3>3. req'[r] # None /\ req'[r].from = req[r].from /\ req'[r].step = "firewall"
      BY <2>1, <3>1, <3>2, Moved
    <3> QED BY <3>1, <3>3 DEF LockHeld
  <2> QED BY <2>2, <2>3
<1>5. ASSUME NEW r \in Requests, BlockAtSystemFirewall(r) \/ ResetAttempts(r) PROVE LockHeld'
  BY <1>5 DEF BlockAtSystemFirewall, ResetAttempts, LockHeld
<1>6. CASE Restart
  BY <1>6 DEF Restart, LockHeld
<1>7. CASE \/ \E answer \in answers \ {None} : DeliverLogin(answer)
           \/ Logout \/ DeliverLogout \/ Tick \/ CookiesExpire \/ UNCHANGED vars
  <2>1. UNCHANGED <<mu, req, blacklist>>
    BY <1>7 DEF DeliverLogin, Logout, DeliverLogout, Tick, CookiesExpire, vars, blockerVars
  <2> QED BY <2>1 DEF LockHeld
<1> QED BY <1>1, <1>2, <1>3, <1>4, <1>5, <1>6, <1>7 DEF Next

LEMMA TypeInvariant == Spec => [](TypeOK /\ LockHeld)
<1>1. Init => TypeOK /\ LockHeld
  <2>1. Init => LockHeld
    BY DEF Init, LockHeld
  <2>2. Init => TypeOK
    BY DEF Init, TypeOK
  <2> QED BY <2>1, <2>2
<1>2. TypeOK /\ LockHeld /\ [Next]_vars => (TypeOK /\ LockHeld)'
  BY TypeStep, LockStep
<1> QED BY <1>1, <1>2, PTL DEF Spec

(* Failures are counted per address, tokens never have less than nothing
   left, cookies keep their names, paths and kinds of values.              *)
THEOREM TypeCorrect == Spec => []TypeOK
BY TypeInvariant, PTL

-----------------------------------------------------------------------------
(* As long as a request only leaves the open ones, or becomes wrong without
   being counted, nothing but guesses can follow it.                       *)
LEMMA Fewer ==
  ASSUME TypeOK, CountInv, NEW r \in Requests,
         UNCHANGED <<attempts, blacklist, guesses>>,
         \A q \in Requests \ {r} : req'[q] = req[q],
         req[r] = None \/ req[r].step # "wrong",
         req'[r] = None \/ req'[r].step \notin {"arrived", "wrong"}
  PROVE  CountInv'
<1>1. \A a : Wrong(a)' = Wrong(a) \ {r} /\ Open(a)' = Open(a) \ {r}
  BY OneMoves
<1>2. \A a : r \notin Wrong(a)
  BY DEF Wrong
<1>3. \A a : Wrong(a)' = Wrong(a)
  BY <1>1, <1>2
<1>4. \A a : Cardinality(Open(a)') <= Cardinality(Open(a)) /\ Cardinality(Open(a)') \in Nat
  <2> TAKE a
  <2>1. IsFiniteSet(Open(a)) /\ Open(a)' \in SUBSET Open(a)
    BY <1>1, Sizes
  <2> QED BY <2>1, FS_Subset, FS_CardinalityType
<1>5. Counted'
  BY <1>3 DEF CountInv, Counted
<1>6. FreeBelow'
  BY DEF CountInv, FreeBelow
<1>7. OpenBounded'
  <2> SUFFICES ASSUME NEW a \in Addresses
               PROVE  attempts'[a] + Cardinality(Open(a)') <= Limit - 1 + Cardinality(Requests)
    BY DEF OpenBounded
  <2>1. /\ attempts[a] + Cardinality(Open(a)) <= Limit - 1 + Cardinality(Requests)
        /\ attempts[a] \in Nat /\ attempts'[a] = attempts[a]
        /\ Cardinality(Requests) \in Nat /\ Cardinality(Open(a)) \in Nat
    BY Sizes DEF CountInv, OpenBounded, TypeOK
  <2> QED BY <1>4, <2>1 DEF Limit
<1> QED BY <1>5, <1>6, <1>7 DEF CountInv

LEMMA CountStep == BlockInv /\ [Next]_vars => CountInv'
<1> SUFFICES ASSUME BlockInv, [Next]_vars PROVE CountInv'
  OBVIOUS
<1>0. TypeOK /\ LockHeld /\ Counted /\ FreeBelow /\ OpenBounded /\ CountInv
  BY DEF BlockInv, CountInv
<1> USE ConstantsAssumption
<1>1. ASSUME NEW r \in Requests, NEW a \in Addresses, Arrive(r, a) PROVE CountInv'
  <2>1. /\ req[r] = None /\ a \notin blacklist
        /\ UNCHANGED <<attempts, blacklist, guesses>>
        /\ req'[r] = [from |-> a, step |-> "arrived"]
        /\ req'[r] # None
        /\ \A q \in Requests \ {r} : req'[q] = req[q]
    <3>1. [from |-> a, step |-> "arrived"] # None
      BY DEF Steps
    <3> QED BY <1>0, <1>1, <3>1 DEF Arrive, blockerVars, TypeOK
  <2>2. \A b : r \notin Wrong(b) /\ r \notin Open(b)
    BY <2>1 DEF Wrong, Open
  <2>3. \A b : Wrong(b)' = Wrong(b) /\ (b # a => Open(b)' = Open(b))
    BY <2>1, <2>2, OneMoves
  <2>4. Cardinality(Open(a)') <= Cardinality(Requests) /\ Cardinality(Open(a)') \in Nat
    <3>1. Open(a)' \in SUBSET Requests
      BY DEF Open
    <3> QED BY <3>1, FS_Subset, FS_CardinalityType
  <2>5. Counted' /\ FreeBelow'
    BY <1>0, <2>1, <2>3 DEF Counted, FreeBelow
  <2>6. attempts'[a] <= Limit - 1 /\ attempts'[a] \in Nat /\ Cardinality(Requests) \in Nat
    BY <1>0, <2>1, Sizes DEF FreeBelow, TypeOK
  <2>7. OpenBounded'
    <3> SUFFICES ASSUME NEW b \in Addresses
                 PROVE  attempts'[b] + Cardinality(Open(b)') <= Limit - 1 + Cardinality(Requests)
      BY DEF OpenBounded
    <3>1. CASE b = a
      BY <2>4, <2>6, <3>1 DEF Limit
    <3>2. CASE b # a
      BY <1>0, <2>1, <2>3, <3>2 DEF OpenBounded
    <3> QED BY <3>1, <3>2
  <2> QED BY <2>5, <2>7 DEF CountInv
<1>2. ASSUME NEW r \in Requests, BadBody(r) PROVE CountInv'
  BY <1>0, <1>2, Fewer, Answered DEF BadBody, blockerVars
<1>3. ASSUME NEW r \in Requests, Mismatch(r) PROVE CountInv'
  <2> PICK from \in Addresses : from = req[r].from
    BY <1>0, <1>3, RequestFact DEF Mismatch
  <2>1. /\ req[r] # None /\ req[r].step = "arrived" /\ from \in Addresses
        /\ UNCHANGED <<attempts, blacklist>>
        /\ req'[r] # None /\ req'[r].from = from /\ req'[r].step = "wrong"
        /\ \A q \in Requests \ {r} : req'[q] = req[q]
    <3>1. "wrong" \in Steps
      BY DEF Steps
    <3> QED BY <1>0, <1>3, <3>1, Moved, RequestFact DEF Mismatch, blockerVars
  <2>2. r \in Open(from) /\ \A b : r \notin Wrong(b) /\ (b # from => r \notin Open(b))
    BY <2>1 DEF Wrong, Open
  <2>3. /\ \A b : Open(b)' = Open(b)
        /\ \A b : b # from => Wrong(b)' = Wrong(b)
        /\ Wrong(from)' = Wrong(from) \cup {r}
    <3>1. \A b : /\ b = from => Wrong(b)' = Wrong(b) \cup {r} /\ Open(b)' = Open(b) \cup {r}
                 /\ b # from => Wrong(b)' = Wrong(b) \ {r} /\ Open(b)' = Open(b) \ {r}
      BY <2>1, OneMoves
    <3>2. \A b : b # from => Wrong(b) \ {r} = Wrong(b) /\ Open(b) \ {r} = Open(b)
      BY <2>2
    <3>3. Open(from) \cup {r} = Open(from)
      BY <2>2
    <3> QED BY <3>1, <3>2, <3>3
  <2>4. Cardinality(Wrong(from)') = Cardinality(Wrong(from)) + 1
    BY <2>2, <2>3, OneLess
  <2>5. Counted'
    <3> SUFFICES ASSUME NEW b \in Addresses
                 PROVE  guesses'[b] = IF b \in Exempt THEN 0
                                      ELSE attempts'[b] + Cardinality(Wrong(b)')
      BY DEF Counted
    <3>1. attempts[b] \in Nat /\ guesses[b] \in Nat /\ Cardinality(Wrong(b)) \in Nat
      BY <1>0, Sizes DEF TypeOK
    <3>2. guesses[b] = IF b \in Exempt THEN 0 ELSE attempts[b] + Cardinality(Wrong(b))
      BY <1>0 DEF Counted
    <3>3. guesses'[b] = IF b = from /\ b \notin Exempt THEN guesses[b] + 1 ELSE guesses[b]
      BY <1>0, <1>3, <2>1 DEF Mismatch, TypeOK
    <3>4. CASE b = from
      BY <2>1, <2>4, <3>1, <3>2, <3>3, <3>4
    <3>5. CASE b # from
      BY <2>1, <2>3, <3>2, <3>3, <3>5
    <3> QED BY <3>4, <3>5
  <2>6. FreeBelow' /\ OpenBounded'
    BY <1>0, <2>1, <2>3 DEF FreeBelow, OpenBounded
  <2> QED BY <2>5, <2>6 DEF CountInv
<1>4. ASSUME NEW r \in Requests, Match(r) PROVE CountInv'
  <2>1. "right" \in Steps
    BY DEF Steps
  <2>2. /\ req[r] # None /\ req[r].step = "arrived"
        /\ UNCHANGED <<attempts, blacklist, guesses>>
        /\ req' = [req EXCEPT ![r].step = "right"]
    BY <1>4 DEF Match, blockerVars
  <2>3. req'[r].step = "right" /\ \A q \in Requests \ {r} : req'[q] = req[q]
    BY <1>0, <2>1, <2>2, Moved
  <2> QED BY <1>0, <2>2, <2>3, Fewer
<1>5. ASSUME NEW r \in Requests, RecordFailure(r) PROVE CountInv'
  <2> PICK from \in Addresses : from = req[r].from
    BY <1>0, <1>5, RequestFact DEF RecordFailure
  <2>1. /\ req[r] # None /\ req[r].step = "wrong" /\ from \in Addresses
        /\ UNCHANGED guesses
    BY <1>0, <1>5, RequestFact DEF RecordFailure
  <2>2. r \in Wrong(from) /\ r \in Open(from)
        /\ \A b : b # from => r \notin Wrong(b) /\ r \notin Open(b)
    BY <2>1 DEF Wrong, Open
  <2>3. /\ \A q \in Requests \ {r} : req'[q] = req[q]
        /\ req'[r] = None \/ req'[r].step = "firewall"
    <3>1. req' = [req EXCEPT ![r] = None] \/ req' = [req EXCEPT ![r].step = "firewall"]
      BY <1>5 DEF RecordFailure
    <3>2. "firewall" \in Steps
      BY DEF Steps
    <3> QED BY <1>0, <2>1, <3>1, <3>2, Moved, Answered
  <2>4. /\ \A b : b # from => Wrong(b)' = Wrong(b) /\ Open(b)' = Open(b)
        /\ Wrong(from)' = Wrong(from) \ {r} /\ Open(from)' = Open(from) \ {r}
    <3>1. \A b : Wrong(b)' = Wrong(b) \ {r} /\ Open(b)' = Open(b) \ {r}
      BY <2>3, OneMoves
    <3> QED BY <2>2, <3>1
  <2>5. /\ Cardinality(Wrong(from)') = Cardinality(Wrong(from)) - 1
        /\ Cardinality(Open(from)') = Cardinality(Open(from)) - 1
    BY <2>2, <2>4, OneLess
  <2>6. \A b : Cardinality(Wrong(b)) \in Nat /\ Cardinality(Open(b)) \in Nat
    BY Sizes
  <2>7. attempts \in [Addresses -> Nat] /\ Cardinality(Requests) \in Nat
    BY <1>0, Sizes DEF TypeOK
  <2>8. CASE from \in Exempt
    <3>1. UNCHANGED <<attempts, blacklist>>
      BY <1>5, <2>8 DEF RecordFailure, Counts
    <3>2. Counted' /\ FreeBelow'
      BY <1>0, <2>1, <2>4, <2>8, <3>1 DEF Counted, FreeBelow
    <3>3. OpenBounded'
      <4> SUFFICES ASSUME NEW b \in Addresses
                   PROVE  attempts'[b] + Cardinality(Open(b)') <= Limit - 1 + Cardinality(Requests)
        BY DEF OpenBounded
      <4>1. attempts[b] + Cardinality(Open(b)) <= Limit - 1 + Cardinality(Requests)
        BY <1>0 DEF OpenBounded
      <4>2. attempts[b] \in Nat /\ attempts'[b] = attempts[b]
        BY <2>7, <3>1
      <4>3. CASE b = from
        BY <2>5, <2>6, <2>7, <4>1, <4>2, <4>3 DEF Limit
      <4>4. CASE b # from
        BY <2>4, <4>1, <4>2, <4>4
      <4> QED BY <4>3, <4>4
    <3> QED BY <3>2, <3>3 DEF CountInv
  <2>9. CASE from \notin Exempt
    <3>1. /\ attempts' = [attempts EXCEPT ![from] = @ + 1]
          /\ attempts[from] + 1 >= Limit => blacklist' = blacklist \cup {from}
          /\ attempts[from] + 1 < Limit => blacklist' = blacklist
      BY <1>5, <2>7, <2>1, <2>9 DEF RecordFailure, Counts, TooMany, Limit
    <3>2. \A b \in Addresses : attempts'[b] = IF b = from THEN attempts[b] + 1 ELSE attempts[b]
      BY <2>7, <3>1
    <3>3. Counted'
      <4> SUFFICES ASSUME NEW b \in Addresses
                   PROVE  guesses'[b] = IF b \in Exempt THEN 0
                                        ELSE attempts'[b] + Cardinality(Wrong(b)')
        BY DEF Counted
      <4>1. guesses[b] = IF b \in Exempt THEN 0 ELSE attempts[b] + Cardinality(Wrong(b))
        BY <1>0 DEF Counted
      <4>2. CASE b = from
        BY <2>1, <2>5, <2>6, <2>7, <2>9, <3>2, <4>1, <4>2
      <4>3. CASE b # from
        BY <2>1, <2>4, <3>2, <4>1, <4>3
      <4> QED BY <4>2, <4>3
    <3>4. FreeBelow'
      BY <1>0, <2>1, <2>7, <3>1, <3>2 DEF FreeBelow, Limit
    <3>5. OpenBounded'
      <4> SUFFICES ASSUME NEW b \in Addresses
                   PROVE  attempts'[b] + Cardinality(Open(b)') <= Limit - 1 + Cardinality(Requests)
        BY DEF OpenBounded
      <4>1. attempts[b] + Cardinality(Open(b)) <= Limit - 1 + Cardinality(Requests)
        BY <1>0 DEF OpenBounded
      <4>2. CASE b = from
        BY <2>5, <2>6, <2>7, <3>2, <4>1, <4>2 DEF Limit
      <4>3. CASE b # from
        BY <2>4, <3>2, <4>1, <4>3
      <4> QED BY <4>2, <4>3
    <3> QED BY <3>3, <3>4, <3>5 DEF CountInv
  <2> QED BY <2>8, <2>9
<1>6. ASSUME NEW r \in Requests, BlockAtSystemFirewall(r) PROVE CountInv'
  <2>1. req[r].step = "firewall"
    BY <1>0, <1>6 DEF BlockAtSystemFirewall, LockHeld
  <2> QED BY <1>0, <1>6, <2>1, Fewer, Answered DEF BlockAtSystemFirewall
<1>7. ASSUME NEW r \in Requests, ResetAttempts(r) PROVE CountInv'
  <2> PICK from \in Addresses : from = req[r].from
    BY <1>0, <1>7, RequestFact DEF ResetAttempts
  <2>1. /\ req[r] # None /\ req[r].step = "right" /\ from \in Addresses
        /\ req'[r] = None /\ blacklist' = blacklist
        /\ \A q \in Requests \ {r} : req'[q] = req[q]
    BY <1>0, <1>7, RequestFact, Answered DEF ResetAttempts
  <2>2. \A b : r \notin Wrong(b) /\ r \notin Open(b)
    BY <2>1 DEF Wrong, Open
  <2>3. \A b : Wrong(b)' = Wrong(b) /\ Open(b)' = Open(b)
    BY <2>1, <2>2, OneMoves
  <2>4. \A b \in Addresses :
          /\ attempts'[b] = IF b = from THEN 0 ELSE attempts[b]
          /\ guesses'[b] = IF b = from THEN IF b \in Exempt THEN 0 ELSE Cardinality(Wrong(b))
                           ELSE guesses[b]
    BY <1>0, <1>7, <2>1 DEF ResetAttempts, CountAfter, TypeOK
  <2>5. \A b : /\ Cardinality(Wrong(b)) \in Nat /\ Cardinality(Open(b)) \in Nat
               /\ Cardinality(Open(b)) <= Cardinality(Requests)
    BY Sizes
  <2>6. Counted'
    <3> SUFFICES ASSUME NEW b \in Addresses
                 PROVE  guesses'[b] = IF b \in Exempt THEN 0
                                      ELSE attempts'[b] + Cardinality(Wrong(b)')
      BY DEF Counted
    <3>1. guesses[b] = IF b \in Exempt THEN 0 ELSE attempts[b] + Cardinality(Wrong(b))
      BY <1>0 DEF Counted
    <3> QED BY <2>3, <2>4, <2>5, <3>1
  <2>7. FreeBelow'
    BY <1>0, <2>1, <2>4 DEF FreeBelow, Limit
  <2>8. OpenBounded'
    BY <1>0, <2>3, <2>4, <2>5, Sizes DEF OpenBounded, Limit
  <2> QED BY <2>6, <2>7, <2>8 DEF CountInv
<1>8. CASE Restart
  <2>1. \A b : Wrong(b)' = {} /\ Open(b)' = {}
    BY <1>8 DEF Restart, Wrong, Open
  <2>2. Cardinality({}) = 0 /\ Cardinality(Requests) \in Nat
    BY Sizes, FS_EmptySet
  <2>3. \A b \in Addresses : attempts'[b] = 0 /\ guesses'[b] = 0
    BY <1>8 DEF Restart
  <2>4. \A b : Cardinality(Wrong(b)') = 0 /\ Cardinality(Open(b)') = 0
    BY <2>1, <2>2
  <2>5. Counted'
    BY <2>3, <2>4 DEF Counted
  <2>6. FreeBelow'
    BY <2>3 DEF FreeBelow, Limit
  <2>7. OpenBounded'
    BY <2>2, <2>3, <2>4 DEF OpenBounded, Limit
  <2> QED BY <2>5, <2>6, <2>7 DEF CountInv
<1>9. CASE \/ \E answer \in answers \ {None} : DeliverLogin(answer)
           \/ Logout \/ DeliverLogout \/ Tick \/ CookiesExpire \/ UNCHANGED vars
  <2>1. UNCHANGED <<attempts, blacklist, req, guesses>>
    BY <1>9 DEF DeliverLogin, Logout, DeliverLogout, Tick, CookiesExpire, vars, blockerVars
  <2> QED BY <1>0, <2>1 DEF CountInv, Counted, FreeBelow, OpenBounded, Wrong, Open
<1> QED BY <1>1, <1>2, <1>3, <1>4, <1>5, <1>6, <1>7, <1>8, <1>9 DEF Next

LEMMA BlockInvariant == Spec => []BlockInv
<1>1. Init => BlockInv
  <2> SUFFICES ASSUME Init PROVE BlockInv
    OBVIOUS
  <2>1. \A a : Wrong(a) = {} /\ Open(a) = {}
    BY DEF Init, Wrong, Open
  <2>2. CountInv
    BY <2>1, Sizes, FS_EmptySet DEF Init, CountInv, Counted, FreeBelow, OpenBounded, Limit
  <2>3. TypeOK
    BY DEF Init, TypeOK
  <2> QED BY <2>2, <2>3 DEF Init, BlockInv, LockHeld
<1>2. BlockInv /\ [Next]_vars => BlockInv'
  BY TypeStep, LockStep, CountStep DEF BlockInv
<1> QED BY <1>1, <1>2, PTL DEF Spec

(* An address tries at most two wrong secrets, and one more for each request
   that was let in before the block (IPBlockMiddleware, RecordFailure).    *)
THEOREM GuessesAreBounded == Spec => []GuessesBounded
<1>1. BlockInv => GuessesBounded
  <2> SUFFICES ASSUME BlockInv, NEW a \in Addresses
               PROVE  guesses[a] <= Limit - 1 + Cardinality(Requests)
    BY DEF GuessesBounded
  <2>1. /\ guesses[a] = IF a \in Exempt THEN 0 ELSE attempts[a] + Cardinality(Wrong(a))
        /\ attempts[a] + Cardinality(Open(a)) <= Limit - 1 + Cardinality(Requests)
        /\ attempts[a] \in Nat
    BY DEF BlockInv, CountInv, Counted, OpenBounded, TypeOK
  <2> QED BY <2>1, Sizes DEF Limit
<1> QED BY <1>1, BlockInvariant, PTL

(* Only an address that has tried three wrong secrets since its last success
   is newly blocked, and none of the host (RecordFailure).                 *)
THEOREM NobodyBlockedWithoutCause == Spec => BlockedWithCause
<1> DEFINE Cause ==
      \A a \in (blacklist' \cup firewall') \ (blacklist \cup firewall) :
        a \notin Exempt /\ guesses[a] >= Limit
<1>1. BlockInv /\ [Next]_vars => [Cause]_vars
  <2> SUFFICES ASSUME BlockInv, [Next]_vars PROVE Cause \/ UNCHANGED vars
    OBVIOUS
  <2>1. TypeOK /\ LockHeld /\ Counted
    BY DEF BlockInv, CountInv
  <2>2. ASSUME NEW r \in Requests, RecordFailure(r) PROVE Cause
    <3> PICK from \in Addresses : from = req[r].from
      BY <2>1, <2>2, RequestFact DEF RecordFailure
    <3>1. /\ req[r] # None /\ req[r].step = "wrong" /\ from \in Addresses
          /\ firewall' = firewall
      BY <2>1, <2>2, RequestFact DEF RecordFailure
    <3>2. CASE from \notin Exempt /\ attempts[from] + 1 >= Limit
      <4>1. blacklist' = blacklist \cup {from}
        BY <2>2, <3>2 DEF RecordFailure, Counts, TooMany
      <4>2. r \in Wrong(from)
        BY <3>1 DEF Wrong
      <4>3. Cardinality(Wrong(from)) >= 1
        <5>1. IsFiniteSet(Wrong(from)) /\ Wrong(from) # {} /\ Cardinality(Wrong(from)) \in Nat
          BY <4>2, Sizes
        <5> QED BY <5>1, FS_EmptySet
      <4>4. guesses[from] = attempts[from] + Cardinality(Wrong(from)) /\ attempts[from] \in Nat
        BY <2>1, <3>1, <3>2 DEF Counted, TypeOK
      <4>5. guesses[from] >= Limit
        BY <3>2, <4>3, <4>4, Sizes DEF Limit
      <4> QED BY <3>1, <3>2, <4>1, <4>5
    <3>3. CASE ~(from \notin Exempt /\ attempts[from] + 1 >= Limit)
      BY <2>2, <3>1, <3>3 DEF RecordFailure, Counts, TooMany
    <3> QED BY <3>2, <3>3
  <2>3. ASSUME NEW r \in Requests, BlockAtSystemFirewall(r) PROVE Cause
    <3>1. mu = r
      BY <2>3 DEF BlockAtSystemFirewall
    <3>2. req[r].from \in blacklist
      BY <2>1, <3>1, ConstantsAssumption DEF LockHeld
    <3> QED BY <2>3, <3>2 DEF BlockAtSystemFirewall
  <2>4. CASE Restart
    BY <2>4 DEF Restart
  <2>5. CASE \/ \E r \in Requests :
                  \/ \E a \in Addresses : Arrive(r, a)
                  \/ BadBody(r) \/ Mismatch(r) \/ Match(r) \/ ResetAttempts(r)
             \/ \E answer \in answers \ {None} : DeliverLogin(answer)
             \/ Logout \/ DeliverLogout \/ Tick \/ CookiesExpire
    <3>1. UNCHANGED <<blacklist, firewall>>
      BY <2>5 DEF Arrive, BadBody, Mismatch, Match, ResetAttempts, DeliverLogin, Logout,
                  DeliverLogout, Tick, CookiesExpire, blockerVars
    <3> QED BY <3>1
  <2> QED BY <2>2, <2>3, <2>4, <2>5 DEF Next
<1> QED BY <1>1, BlockInvariant, PTL DEF Spec, BlockedWithCause

-----------------------------------------------------------------------------
(* No change is executed on the strength of the cookie alone, whatever the
   order in which CSRFMiddleware and JWTMiddleware look at the request.    *)
THEOREM CookieAloneIsNotEnough == Spec => []CookieCallsNeedCsrf
<1>1. ASSUME NEW c, Executes(c), c.unsafe = TRUE
      PROVE  Verify(c.bearer) \/ (c.header # None /\ c.header = c.csrf)
  <2>1. CSRFMiddleware(c) /\ JWTMiddleware(c)
    BY <1>1 DEF Executes
  <2>2. CASE c.bearer # None
    BY <2>1, <2>2 DEF JWTMiddleware
  <2>3. CASE c.bearer = None
    BY <1>1, <2>1, <2>3 DEF CSRFMiddleware
  <2> QED BY <2>2, <2>3
<1>2. \A c \in Calls : c.unsafe \in BOOLEAN
  BY DEF Calls
<1>3. CookieCallsNeedCsrf
  BY <1>1, <1>2 DEF CookieCallsNeedCsrf
<1> QED BY <1>3, PTL

(* Login and Logout name the same cookies under the same paths.            *)
LEMMA NothingElse ==
  ASSUME TypeOK, JarPaths
  PROVE  Others({"session", "csrf"}) = {}
<1>1. \A cookie \in jar : cookie.name \in {"session", "csrf"}
  BY DEF TypeOK, Cookies
<1> QED BY <1>1 DEF JarPaths, Others

(* Growing older changes neither name nor path of a cookie.                *)
LEMMA Aged ==
  ASSUME TypeOK, NEW cookie \in jar, cookie.name = "session"
  PROVE  /\ [cookie EXCEPT !.value = Age(@)].name = cookie.name
         /\ [cookie EXCEPT !.value = Age(@)].path = cookie.path
<1>1. cookie \in [name : {"session"}, path : {"/", "/api/"}, value : Tokens]
  BY DEF TypeOK, Cookies
<1> QED BY <1>1

LEMMA CookieStep == CookieInv /\ TypeOK' /\ [Next]_vars => CookieInv'
<1> SUFFICES ASSUME CookieInv, TypeOK', [Next]_vars PROVE CookieInv'
  OBVIOUS
<1>0. TypeOK /\ JarPaths /\ JarSingle /\ JarFull /\ LogoutClears
  BY DEF CookieInv
<1>1. ASSUME NEW answer \in answers \ {None}, DeliverLogin(answer) PROVE CookieInv'
  <2>1. page' = "in" /\ setting' = setting
    BY <1>1 DEF DeliverLogin
  <2>2. CASE Keeps(setting)
    <3> DEFINE session == [name |-> "session", path |-> CookiePath("session"), value |-> answer.token]
               csrf == [name |-> "csrf", path |-> CookiePath("csrf"), value |-> answer.csrf]
    <3>1. jar' = {session, csrf}
      BY <1>0, <1>1, <2>2, NothingElse DEF DeliverLogin
    <3>2. /\ session.name = "session" /\ session.path = CookiePath("session")
          /\ csrf.name = "csrf" /\ csrf.path = CookiePath("csrf")
      OBVIOUS
    <3> HIDE DEF session, csrf
    <3>3. JarPaths' /\ JarSingle' /\ JarFull'
      BY <3>1, <3>2 DEF JarPaths, JarSingle, JarFull
    <3> QED BY <2>1, <3>3 DEF CookieInv, LogoutClears
  <2>3. CASE ~Keeps(setting)
    <3>1. jar' = jar
      BY <1>1, <2>3 DEF DeliverLogin
    <3>2. ~Keeps(setting)'
      BY <2>1, <2>3 DEF Keeps, ShouldUseSecureCookie, DeploymentMode, RequestIsHTTPS
    <3> QED BY <1>0, <2>1, <3>1, <3>2 DEF CookieInv, JarPaths, JarSingle, JarFull, LogoutClears
  <2> QED BY <2>2, <2>3
<1>2. CASE DeliverLogout
  <2>1. jar' = {} /\ page' = "out"
    BY <1>0, <1>2, NothingElse DEF DeliverLogout
  <2> QED BY <2>1 DEF CookieInv, JarPaths, JarSingle, JarFull, LogoutClears
<1>3. CASE Tick
  <2> DEFINE older(cookie) == IF cookie.name = "session" THEN [cookie EXCEPT !.value = Age(@)] ELSE cookie
  <2>1. jar' = {older(cookie) : cookie \in jar} /\ page' = page /\ setting' = setting
    BY <1>3 DEF Tick
  <2>2. \A cookie \in jar : older(cookie).name = cookie.name /\ older(cookie).path = cookie.path
    BY <1>0, Aged
  <2> HIDE DEF older
  <2>3. JarPaths'
    BY <1>0, <2>1, <2>2 DEF JarPaths
  <2>4. JarSingle'
    BY <1>0, <2>1, <2>2 DEF JarSingle
  <2>5. JarFull'
    <3>1. Keeps(setting)' <=> Keeps(setting)
      BY <2>1 DEF Keeps, ShouldUseSecureCookie, DeploymentMode, RequestIsHTTPS
    <3> QED BY <1>0, <2>1, <2>2, <3>1 DEF JarFull
  <2>6. LogoutClears'
    BY <1>0, <2>1 DEF LogoutClears
  <2> QED BY <2>3, <2>4, <2>5, <2>6 DEF CookieInv
<1>4. CASE CookiesExpire
  <2>1. jar' = {} /\ page' = "none"
    BY <1>4 DEF CookiesExpire
  <2> QED BY <2>1 DEF CookieInv, JarPaths, JarSingle, JarFull, LogoutClears
<1>5. CASE \/ \E r \in Requests :
                \/ \E a \in Addresses : Arrive(r, a)
                \/ BadBody(r) \/ Mismatch(r) \/ Match(r)
                \/ RecordFailure(r) \/ BlockAtSystemFirewall(r) \/ ResetAttempts(r)
           \/ Logout \/ Restart \/ UNCHANGED vars
  <2>1. UNCHANGED <<jar, page, setting>>
    BY <1>5 DEF Arrive, BadBody, Mismatch, Match, RecordFailure, BlockAtSystemFirewall,
                ResetAttempts, Logout, Restart, vars, browserVars
  <2>2. Keeps(setting)' <=> Keeps(setting)
    BY <2>1 DEF Keeps, ShouldUseSecureCookie, DeploymentMode, RequestIsHTTPS
  <2> QED BY <1>0, <2>1, <2>2 DEF CookieInv, JarPaths, JarSingle, JarFull, LogoutClears
<1> QED BY <1>1, <1>2, <1>3, <1>4, <1>5 DEF Next

LEMMA CookieInvariant == Spec => []CookieInv
<1>1. Init => CookieInv
  <2>1. Init => TypeOK
    BY DEF Init, TypeOK
  <2> QED BY <2>1 DEF Init, CookieInv, JarPaths, JarSingle, JarFull, LogoutClears
<1>2. CookieInv /\ TypeOK' /\ [Next]_vars => CookieInv'
  BY CookieStep
<1> QED BY <1>1, <1>2, TypeCorrect, PTL DEF Spec

(* After a logout the browser holds no cookie of the panel, whatever answers
   arrived before and in whatever order (Logout, cookiePath).              *)
THEOREM LogoutLeavesNothing == Spec => []LogoutClears
<1>1. CookieInv => LogoutClears
  BY DEF CookieInv
<1> QED BY <1>1, CookieInvariant, PTL

(* A browser refuses the cookies only when the operator asked for Secure ones
   or for production HTTPS on plain HTTP (shouldUseSecureCookie).          *)
LEMMA Kept ==
  ASSUME TypeOK,
         RequestIsHTTPS(setting) \/
           (setting.cookies # "always" /\ setting.mode # "strict" /\ ~setting.hsts)
  PROVE  Keeps(setting)
<1>1. CASE RequestIsHTTPS(setting)
  BY <1>1 DEF Keeps
<1>2. CASE ~RequestIsHTTPS(setting)
  <2>1. setting.cookies # "always" /\ setting.mode # "strict" /\ ~setting.hsts
    BY <1>2
  <2>2. setting.mode \in Modes
    BY ConstantsAssumption DEF TypeOK, RawSettings
  <2>3. DeploymentMode(setting) # "strict"
    <3>1. CASE setting.mode = ""
      BY <1>2, <2>1, <3>1 DEF DeploymentMode, RequestIsHTTPS
    <3>2. CASE setting.mode = "unknown"
      BY <3>2 DEF DeploymentMode
    <3>3. CASE setting.mode \in {"insecure", "self_signed"}
      BY <3>3 DEF DeploymentMode
    <3> QED BY <2>1, <2>2, <3>1, <3>2, <3>3 DEF Modes
  <2> QED BY <1>2, <2>1, <2>3 DEF Keeps, ShouldUseSecureCookie
<1> QED BY <1>1, <1>2

(* After a login the page can change things until the token expires, the
   secret changes or the address is blocked (cookiePath, the middlewares). *)
THEOREM SessionsWork == Spec => []SessionWorks
<1>1. CookieInv => SessionWorks
  <2> SUFFICES ASSUME CookieInv, page = "in",
                      RequestIsHTTPS(setting) \/
                        (setting.cookies # "always" /\ setting.mode # "strict" /\ ~setting.hsts)
               PROVE  /\ jar # {}
                      /\ Verify(Attached("session")) /\ IPBlockMiddleware(BrowserCall) =>
                           Executes(BrowserCall)
    BY DEF SessionWorks
  <2>1. TypeOK /\ JarPaths /\ JarSingle /\ JarFull
    BY DEF CookieInv
  <2>2. Keeps(setting)
    BY <2>1, Kept
  <2>3. PICK session \in jar : session.name = "session"
    BY <2>1, <2>2 DEF JarFull
  <2>4. PICK csrf \in jar : csrf.name = "csrf"
    BY <2>1, <2>2 DEF JarFull
  <2>5. csrf.value \in CsrfTokens /\ csrf.path = "/"
    BY <2>1, <2>4 DEF TypeOK, Cookies, JarPaths, CookiePath
  <2>6. csrf.value # None
    BY <2>5, ConstantsAssumption
  <2>7. {cookie \in jar : cookie.name = "csrf"} = {csrf}
    BY <2>1, <2>4 DEF JarSingle
  <2>8. {cookie \in jar : cookie.name = "csrf" /\ cookie.path = "/"} = {csrf}
    BY <2>5, <2>7
  <2>9. Attached("csrf") = csrf.value
    BY <2>7 DEF Attached
  <2>10. Visible("csrf") = csrf.value
    BY <2>8 DEF Visible
  <2>11. /\ BrowserCall.bearer = None /\ BrowserCall.session = Attached("session")
         /\ BrowserCall.csrf = csrf.value /\ BrowserCall.header = csrf.value
    BY <2>9, <2>10 DEF BrowserCall
  <2>12. CSRFMiddleware(BrowserCall)
    BY <2>6, <2>11 DEF CSRFMiddleware
  <2>13. Verify(Attached("session")) => JWTMiddleware(BrowserCall)
    BY <2>11 DEF JWTMiddleware
  <2> QED BY <2>3, <2>12, <2>13 DEF Executes
<1> QED BY <1>1, CookieInvariant, PTL
=============================================================================
