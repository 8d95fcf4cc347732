---------------------------- MODULE StrikesProofs ----------------------------
(***************************************************************************)
(* Strikes for every interval, limit and number of strikes: who keeps to   *)
(* the limit is never struck, one reading disables nobody, and traffic the *)
(* stub has cut strikes only under a limit lowered since.                  *)
(***************************************************************************)
EXTENDS Strikes, TLAPS

LEMMA DivFact ==
  ASSUME NEW n \in Nat, NEW d \in Nat \ {0}, NEW q \in Nat
  PROVE  /\ n \div d \in Nat
         /\ n \div d <= n
         /\ n <= q * d => n \div d <= q
OBVIOUS

LEMMA TimesFact ==
  ASSUME NEW a \in Nat, NEW b \in Nat
  PROVE  /\ a * (b + 1) = a * b + a
         /\ a * b \in Nat
OBVIOUS

LEMMA ProductGrows ==
  ASSUME NEW a \in Nat, NEW b \in Nat, NEW c \in Nat, b <= c
  PROVE  a * b <= a * c
OBVIOUS

(***************************************************************************)
(* Types                                                                   *)
(***************************************************************************)

LEMMA LimitTypes ==
  ASSUME TypeOK, NEW u \in Users
  PROVE  limit[u] \in Nat \ {0} /\ limits[u] \in Nat /\ capped[u] \in Nat
<1>1. limit[u] \in Limits /\ limits[u] \in Limits \cup {0} /\ capped[u] \in Limits \cup {0}
  BY DEF TypeOK
<1>2. \A n \in Limits : n \in Nat \ {0}
  BY ConstantsAssumption
<1> QED
  BY <1>1, <1>2

LEMMA SpeedFact ==
  ASSUME NEW bytes \in Nat
  PROVE  /\ Speed(bytes) \in Nat
         /\ Speed(bytes) <= bytes
         /\ \A q \in Nat : bytes <= q * PollInterval => Speed(bytes) <= q
BY DivFact, ConstantsAssumption DEF Speed

LEMMA ClampFact ==
  ASSUME NEW bytes \in 0 .. MaxBytes, NEW bound \in Nat
  PROVE  /\ Clamp(bytes, bound) \in Nat
         /\ bound > 0 => Clamp(bytes, bound) <= bound
BY ConstantsAssumption DEF Clamp, Least

LEMMA BytesFact ==
  ASSUME TypeOK, NEW u \in Users, NEW made \in 0 .. MaxBytes
  PROVE  /\ Bytes(u, made) \in Nat
         /\ simulated /\ limits[u] > 0 => Bytes(u, made) <= limits[u]
<1> /\ limits[u] \in Nat /\ moved[u] \in Nat
  BY LimitTypes, ConstantsAssumption DEF TypeOK
<1> QED
  BY ClampFact DEF Bytes

(* What Answer does to a reading.                                          *)
AnswerIs(missing, made) ==
  /\ speeds' = [u \in Users |-> IF u \notin missing /\ u \in base
                                THEN Speed(Bytes(u, made[u])) ELSE None]
  /\ base' = base \cup {u \in Users : u \notin missing}
  /\ moved' = [u \in Users |-> IF u \notin missing THEN 0 ELSE moved[u]]
  /\ fresh' = [u \in Users |-> u \notin missing /\ u \in base]
  /\ capped' = limits
  /\ clean' = [u \in Users |-> /\ clean[u] /\ (simulated => Bytes(u, made[u]) <= limit[u])
                               /\ (u \in missing => moved[u] = 0)]

LEMMA AnswerHas ==
  ASSUME Answer
  PROVE  \E missing \in SUBSET {u \in Users : ~served[u] \/ (~simulated /\ moved[u] = 0)} :
         \E made \in [Users -> IF simulated THEN 0 .. MaxBytes ELSE {0}] :
           AnswerIs(missing, made)
<1>1. PICK missing \in SUBSET {u \in Users : ~served[u] \/ (~simulated /\ moved[u] = 0)} :
        \E made \in [Users -> IF simulated THEN 0 .. MaxBytes ELSE {0}] :
          /\ speeds' = [u \in Users |-> IF u \notin missing /\ u \in base
                                        THEN Speed(Bytes(u, made[u])) ELSE None]
          /\ base' = base \cup {u \in Users : u \notin missing}
          /\ moved' = [u \in Users |-> IF u \notin missing THEN 0 ELSE moved[u]]
          /\ fresh' = [u \in Users |-> u \notin missing /\ u \in base]
          /\ capped' = limits
          /\ clean' = [u \in Users |-> /\ clean[u] /\ (simulated => Bytes(u, made[u]) <= limit[u])
                                       /\ (u \in missing => moved[u] = 0)]
  BY ZenonT(60) DEF Answer
<1> QED
  BY <1>1 DEF AnswerIs

LEMMA TypeInit == Init => TypeOK
<1> SUFFICES ASSUME Init PROVE TypeOK
  OBVIOUS
<1> USE ConstantsAssumption
<1>1. /\ simulated \in BOOLEAN /\ prompt \in BOOLEAN
      /\ pollDue \in BOOLEAN /\ checkDue \in BOOLEAN
  BY DEF Init
<1>2. /\ phase \in 0 .. PollInterval - 1
      /\ pollPhase \in (0 .. PollInterval - 1) \cup {None}
      /\ poller \in {"idle", "waiting", "asking"}
      /\ drain \in {"idle", "waiting", "asking"}
      /\ mu \in {"poller", "drain", None}
  BY DEF Init
<1>3. /\ checker = None \/ checker \subseteq Users
      /\ hogs = None \/ hogs \subseteq Users
      /\ base \subseteq Users
  BY DEF Init
<1>4. /\ moved \in [Users -> 0 .. MaxBytes]
      /\ strikes \in [Users -> 0 .. StrikeLimit - 1]
      /\ overs \in [Users -> Nat]
      /\ speeds \in [Users -> Nat \cup {None}]
      /\ limit \in [Users -> Limits]
      /\ limits \in [Users -> Limits \cup {0}] /\ capped \in [Users -> Limits \cup {0}]
      /\ patch \in [user : Users, limit : Limits] \cup {None}
  BY DEF Init
<1>5. /\ enabled \in [Users -> BOOLEAN] /\ served \in [Users -> BOOLEAN]
      /\ clean \in [Users -> BOOLEAN] /\ fresh \in [Users -> BOOLEAN]
  BY DEF Init
<1> QED
  BY <1>1, <1>2, <1>3, <1>4, <1>5 DEF TypeOK

LEMMA TypeStep == TypeOK /\ [Next]_vars => TypeOK'
<1> SUFFICES ASSUME TypeOK, [Next]_vars PROVE TypeOK'
  OBVIOUS
<1> USE ConstantsAssumption
<1>1. CASE Tick
  <2>1. PICK rate \in [Users -> 0 .. MaxRate] :
          /\ moved' = [u \in Users |-> Least(moved[u] + rate[u], MaxBytes)]
          /\ clean' = [u \in Users |-> clean[u] /\ rate[u] <= limit[u] /\ Quiet]
    BY <1>1 DEF Tick
  <2>2. \A u \in Users : Least(moved[u] + rate[u], MaxBytes) \in 0 .. MaxBytes
    BY DEF TypeOK, Least
  <2>3. phase' \in 0 .. PollInterval - 1
    BY <1>1 DEF Tick, TypeOK
  <2>4. moved' \in [Users -> 0 .. MaxBytes] /\ clean' \in [Users -> BOOLEAN]
    BY <2>1, <2>2 DEF TypeOK
  <2>5. prompt' \in BOOLEAN /\ checkDue' \in BOOLEAN /\ pollDue' \in BOOLEAN
    BY <1>1 DEF Tick, TypeOK
  <2> QED
    BY <1>1, <2>3, <2>4, <2>5 DEF Tick, TypeOK, strikeVars, userVars
<1>2. CASE PollTick \/ PollLock
  BY <1>2 DEF PollTick, PollLock, TypeOK, timeVars, readingVars, strikeVars, userVars
<1>11. CASE DrainBegin \/ DrainLock
  BY <1>11 DEF DrainBegin, DrainLock, TypeOK, timeVars, readingVars, strikeVars, userVars
<1>3. CASE Answer
  <2>1. PICK missing \in SUBSET {u \in Users : ~served[u] \/ (~simulated /\ moved[u] = 0)} :
        \E made \in [Users -> IF simulated THEN 0 .. MaxBytes ELSE {0}] :
          AnswerIs(missing, made)
    BY <1>3, AnswerHas
  <2>2. PICK made \in [Users -> IF simulated THEN 0 .. MaxBytes ELSE {0}] :
          AnswerIs(missing, made)
    BY <2>1
  <2>3. \A u \in Users : Speed(Bytes(u, made[u])) \in Nat
    BY BytesFact, SpeedFact
  <2>4. /\ mu' \in {"poller", "drain", None}
        /\ poller' \in {"idle", "waiting", "asking"}
        /\ drain' \in {"idle", "waiting", "asking"}
        /\ pollPhase' \in (0 .. PollInterval - 1) \cup {None}
    BY <1>3 DEF Answer, PollEnds, TypeOK
  <2>5. speeds' \in [Users -> Nat \cup {None}]
    BY <2>2, <2>3 DEF AnswerIs
  <2>6. /\ moved' \in [Users -> 0 .. MaxBytes]
        /\ base' \subseteq Users
        /\ fresh' \in [Users -> BOOLEAN] /\ capped' \in [Users -> Limits \cup {0}]
        /\ clean' \in [Users -> BOOLEAN]
    BY <2>2 DEF AnswerIs, TypeOK
  <2> QED
    BY <1>3, <2>4, <2>5, <2>6 DEF Answer, TypeOK, strikeVars, userVars
<1>4. CASE QueryFailed
  <2>1. /\ mu' \in {"poller", "drain", None}
        /\ poller' \in {"idle", "waiting", "asking"}
        /\ drain' \in {"idle", "waiting", "asking"}
        /\ pollPhase' \in (0 .. PollInterval - 1) \cup {None}
    BY <1>4 DEF QueryFailed, PollEnds, TypeOK
  <2>2. /\ speeds' \in [Users -> Nat \cup {None}]
        /\ fresh' \in [Users -> BOOLEAN] /\ clean' \in [Users -> BOOLEAN]
    BY <1>4 DEF QueryFailed
  <2> QED
    BY <1>4, <2>1, <2>2 DEF QueryFailed, TypeOK, strikeVars, userVars
<1>5. CASE CheckTick
  <2>1. (checker' = None \/ checker' \subseteq Users) /\ checkDue' \in BOOLEAN
    BY <1>5 DEF CheckTick
  <2> QED
    BY <1>5, <2>1 DEF CheckTick, TypeOK, readingVars, strikeVars, userVars
<1>6. CASE CheckSpeeds
  <2> DEFINE out == {u \in checker : TooMany(StrikesAfter(u))}
  <2>1. \A u \in Users : StrikesAfter(u) \in Nat
    BY DEF StrikesAfter, TypeOK
  <2>2. \A u \in Users : u \in checker /\ u \notin out => StrikesAfter(u) \in 0 .. StrikeLimit - 1
    BY <2>1 DEF TooMany
  <2>3. strikes' = [u \in Users |-> IF u \in out THEN 0
                                    ELSE IF u \in checker THEN StrikesAfter(u) ELSE strikes[u]]
    BY <1>6 DEF CheckSpeeds
  <2>4. strikes' \in [Users -> 0 .. StrikeLimit - 1]
    <3> HIDE DEF out
    <3> QED
      BY <2>2, <2>3 DEF TypeOK
  <2>5. overs' \in [Users -> Nat]
    BY <1>6 DEF CheckSpeeds, TypeOK
  <2>6. /\ enabled' \in [Users -> BOOLEAN] /\ served' \in [Users -> BOOLEAN]
        /\ fresh' \in [Users -> BOOLEAN]
    BY <1>6 DEF CheckSpeeds, TypeOK
  <2>7. limits' \in [Users -> Limits \cup {0}]
    BY <1>6 DEF CheckSpeeds, TypeOK
  <2> QED
    BY <1>6, <2>4, <2>5, <2>6, <2>7 DEF CheckSpeeds, TypeOK, timeVars
<1>7. ASSUME NEW u \in Users, SetEnabled(u) PROVE TypeOK'
  <2>1. enabled' \in [Users -> BOOLEAN] /\ served' \in [Users -> BOOLEAN]
    BY <1>7 DEF SetEnabled, TypeOK
  <2>2. limits' \in [Users -> Limits \cup {0}]
    BY <1>7 DEF SetEnabled, LimitAfter, TypeOK
  <2> QED
    BY <1>7, <2>1, <2>2 DEF SetEnabled, TypeOK, timeVars, readingVars, strikeVars
<1>12. ASSUME NEW u \in Users, NEW value \in Limits, UpdateRow(u, value) PROVE TypeOK'
  <2>1. /\ limit' \in [Users -> Limits]
        /\ patch' \in [user : Users, limit : Limits] \cup {None}
        /\ clean' \in [Users -> BOOLEAN]
    BY <1>12 DEF UpdateRow, TypeOK
  <2> QED
    BY <1>12, <2>1 DEF UpdateRow, TypeOK, timeVars, readingVars, strikeVars
<1>13. CASE UpdateCore
  <2>1. /\ limits' \in [Users -> Limits \cup {0}]
        /\ patch' \in [user : Users, limit : Limits] \cup {None}
    BY <1>13 DEF UpdateCore, TypeOK
  <2> QED
    BY <1>13, <2>1 DEF UpdateCore, TypeOK, timeVars, readingVars, strikeVars
<1>8. CASE Settle
  BY <1>8 DEF Settle, TypeOK, readingVars, strikeVars, userVars
<1>10. CASE PanelRestart
  <2>1. /\ phase' \in 0 .. PollInterval - 1 /\ pollPhase' \in (0 .. PollInterval - 1) \cup {None}
    BY <1>10 DEF PanelRestart
  <2>4. /\ pollDue' \in BOOLEAN /\ checkDue' \in BOOLEAN /\ prompt' \in BOOLEAN
        /\ poller' \in {"idle", "waiting", "asking"} /\ drain' \in {"idle", "waiting", "asking"}
        /\ mu' \in {"poller", "drain", None}
    BY <1>10 DEF PanelRestart
  <2>2. /\ strikes' \in [Users -> 0 .. StrikeLimit - 1]
        /\ overs' \in [Users -> Nat]
        /\ speeds' \in [Users -> Nat \cup {None}]
        /\ limits' \in [Users -> Limits \cup {0}]
        /\ patch' \in [user : Users, limit : Limits] \cup {None}
    BY <1>10 DEF PanelRestart
  <2>3. clean' \in [Users -> BOOLEAN] /\ fresh' \in [Users -> BOOLEAN]
    BY <1>10 DEF PanelRestart
  <2> QED
    BY <1>10, <2>1, <2>2, <2>3, <2>4 DEF PanelRestart, TypeOK
<1>9. CASE UNCHANGED vars
  BY <1>9 DEF vars, TypeOK
<1> QED
  BY <1>1, <1>2, <1>3, <1>4, <1>5, <1>6, <1>7, <1>8, <1>9, <1>10, <1>11, <1>12, <1>13 DEF Next

(* Types hold: in particular nobody is ever left with as many strikes as it
   takes to be disabled (checkAll).                                        *)
THEOREM TypeCorrect == Spec => []TypeOK
BY TypeInit, TypeStep, PTL DEF Spec

(***************************************************************************)
(* The limits of the stub                                                  *)
(***************************************************************************)

(* A user without a speed too high.                                        *)
Slow(u) == speeds[u] = None \/ speeds[u] <= limit[u]

LEMMA SlowIsNotOver ==
  ASSUME TypeOK, NEW u \in Users
  PROVE  /\ ~ExceedsLimit(u) <=> Slow(u)
         /\ Slow(u) => StrikesAfter(u) = 0
<1> limit[u] \in Nat /\ speeds[u] \in Nat \cup {None}
  BY LimitTypes DEF TypeOK
<1> QED
  BY ConstantsAssumption DEF ExceedsLimit, StrikesAfter, Slow

(* Only the stub is given limits.                                          *)
OnlyStubLimits ==
  /\ \A u \in Users : limits[u] > 0 => simulated
  /\ patch # None => simulated

(* A reading that was cut shows no more than the limit it was cut to.      *)
CutIsCut == \A u \in Users : capped[u] > 0 => speeds[u] = None \/ speeds[u] <= capped[u]

LimitInv == OnlyStubLimits /\ CutIsCut

LEMMA LimitInit == Init => LimitInv
BY DEF Init, LimitInv, OnlyStubLimits, CutIsCut

LEMMA LimitStep == TypeOK /\ LimitInv /\ [Next]_vars => LimitInv'
<1> SUFFICES ASSUME TypeOK, LimitInv, [Next]_vars PROVE LimitInv'
  OBVIOUS
<1> USE ConstantsAssumption
<1>1. CASE Tick \/ PollTick \/ PollLock \/ DrainBegin \/ DrainLock \/ CheckTick \/ Settle
           \/ UNCHANGED vars
  <2>1. UNCHANGED <<simulated, limits, patch, speeds, capped>>
    BY <1>1 DEF Tick, PollTick, PollLock, DrainBegin, DrainLock, CheckTick, Settle, vars,
                readingVars, userVars
  <2> QED
    BY <2>1 DEF LimitInv, OnlyStubLimits, CutIsCut
<1>2. CASE Answer
  <2>1. PICK missing \in SUBSET {u \in Users : ~served[u] \/ (~simulated /\ moved[u] = 0)} :
        \E made \in [Users -> IF simulated THEN 0 .. MaxBytes ELSE {0}] :
          AnswerIs(missing, made)
    BY <1>2, AnswerHas
  <2>2. PICK made \in [Users -> IF simulated THEN 0 .. MaxBytes ELSE {0}] :
          AnswerIs(missing, made)
    BY <2>1
  <2>3. UNCHANGED <<simulated, limits, patch>>
    BY <1>2 DEF Answer, userVars
  <2>4. ASSUME NEW u \in Users, capped'[u] > 0
        PROVE  speeds'[u] = None \/ speeds'[u] <= capped'[u]
    <3>1. capped'[u] = limits[u] /\ limits[u] > 0 /\ simulated
      BY <2>2, <2>4 DEF AnswerIs, LimitInv, OnlyStubLimits
    <3>2. Bytes(u, made[u]) \in Nat /\ Bytes(u, made[u]) <= limits[u]
      BY <3>1, BytesFact
    <3>3. Speed(Bytes(u, made[u])) <= limits[u]
      BY <3>2, SpeedFact, LimitTypes
    <3> QED
      BY <2>2, <3>1, <3>3 DEF AnswerIs
  <2> QED
    BY <2>3, <2>4 DEF LimitInv, OnlyStubLimits, CutIsCut
<1>3. CASE QueryFailed
  BY <1>3 DEF QueryFailed, userVars, LimitInv, OnlyStubLimits, CutIsCut
<1>4. CASE CheckSpeeds
  <2>1. UNCHANGED <<simulated, speeds, capped, patch>>
    BY <1>4 DEF CheckSpeeds
  <2>2. \A u \in Users : limits'[u] = 0 \/ limits'[u] = limits[u]
    BY <1>4 DEF CheckSpeeds
  <2> QED
    BY <2>1, <2>2 DEF LimitInv, OnlyStubLimits, CutIsCut
<1>5. ASSUME NEW u \in Users, SetEnabled(u) PROVE LimitInv'
  <2>1. UNCHANGED <<simulated, speeds, capped, patch>>
    BY <1>5 DEF SetEnabled, readingVars
  <2>2. \A v \in Users : limits'[v] > 0 => simulated \/ limits[v] > 0
    BY <1>5 DEF SetEnabled, LimitAfter, TypeOK
  <2> QED
    BY <2>1, <2>2 DEF LimitInv, OnlyStubLimits, CutIsCut
<1>7. ASSUME NEW u \in Users, NEW value \in Limits, UpdateRow(u, value) PROVE LimitInv'
  BY <1>7 DEF UpdateRow, readingVars, LimitInv, OnlyStubLimits, CutIsCut
<1>8. CASE UpdateCore
  BY <1>8 DEF UpdateCore, readingVars, LimitInv, OnlyStubLimits, CutIsCut
<1>6. CASE PanelRestart
  BY <1>6 DEF PanelRestart, LimitInv, OnlyStubLimits, CutIsCut
<1> QED
  BY <1>1, <1>2, <1>3, <1>4, <1>5, <1>6, <1>7, <1>8 DEF Next

LEMMA OnlyCheckStrikes ==
  ASSUME TypeOK, [Next]_vars, NEW u \in Users, strikes'[u] > strikes[u]
  PROVE  ExceedsLimit(u)
<1>1. CASE CheckSpeeds
  <2>2. strikes'[u] \in {0, StrikesAfter(u), strikes[u]}
    BY <1>1 DEF CheckSpeeds
  <2>3. strikes[u] \in Nat
    BY ConstantsAssumption DEF TypeOK
  <2> QED
    BY <2>2, <2>3 DEF StrikesAfter
<1>2. CASE PanelRestart
  BY <1>2, ConstantsAssumption DEF PanelRestart, TypeOK
<1>3. CASE ~CheckSpeeds /\ ~PanelRestart
  <2>1. UNCHANGED strikes
    BY <1>3 DEF Next, Tick, PollTick, PollLock, DrainBegin, DrainLock, Answer, QueryFailed,
                CheckTick, SetEnabled, UpdateRow, UpdateCore, Settle, strikeVars, vars
  <2> QED
    BY <2>1, ConstantsAssumption DEF TypeOK
<1> QED
  BY <1>1, <1>2, <1>3

(* Traffic the stub has cut to a limit strikes its user only if his row has
   a lower limit than that by the time of the check (stub QueryTraffic,
   UpdateUser, checkAll).                                                  *)
THEOREM CutTrafficStruckOnlyWhenLowered == Spec => LimitHonoured
<1>1. ASSUME TypeOK, LimitInv, [Next]_vars, NEW u \in Users,
             strikes'[u] > strikes[u], capped[u] > 0
      PROVE  limit[u] < capped[u]
  <2>1. speeds[u] # None /\ speeds[u] > limit[u]
    BY <1>1, OnlyCheckStrikes DEF ExceedsLimit
  <2>2. speeds[u] <= capped[u] /\ speeds[u] \in Nat
    BY <1>1, <2>1 DEF LimitInv, CutIsCut, TypeOK
  <2>3. limit[u] \in Nat /\ capped[u] \in Nat
    BY <1>1, LimitTypes
  <2> QED
    BY <2>1, <2>2, <2>3
<1>2. TypeOK /\ LimitInv /\ [Next]_vars
        => [\A u \in Users :
              strikes'[u] > strikes[u] /\ capped[u] > 0 => limit[u] < capped[u]]_vars
  BY <1>1
<1> QED
  BY <1>2, LimitInit, LimitStep, TypeCorrect, PTL DEF Spec, LimitHonoured

(***************************************************************************)
(* Who keeps to the limit                                                  *)
(***************************************************************************)

(* Seconds since the last reading, as long as no poll was held up.         *)
Window == IF pollPhase = None THEN 0
          ELSE IF pollDue \/ poller # "idle" THEN PollInterval
          ELSE IF phase >= pollPhase THEN phase - pollPhase
          ELSE phase - pollPhase + PollInterval

TickerMade == pollPhase = None => poller # "idle"

Honest(u) ==
  /\ prompt
  /\ strikes[u] = 0
  /\ Slow(u)
  /\ u \in base => moved[u] <= limit[u] * Window

HonestInv == TickerMade /\ \A u \in Users : clean[u] => Honest(u)

LEMMA HonestInit == Init => HonestInv
BY DEF Init, HonestInv, TickerMade, Honest, Slow

LEMMA WindowFact ==
  ASSUME TypeOK
  PROVE  Window \in 0 .. PollInterval
BY ConstantsAssumption DEF TypeOK, Window

LEMMA WindowGrows ==
  ASSUME TypeOK, TickerMade, Tick, Quiet
  PROVE  Window' = Window + 1
<1>1. /\ pollPhase # None /\ poller = "idle" /\ ~pollDue
      /\ pollPhase' = pollPhase /\ poller' = "idle"
      /\ phase' = IF phase + 1 = PollInterval THEN 0 ELSE phase + 1
      /\ pollDue' = (phase' = pollPhase)
  BY DEF Tick, Quiet, TickerMade
<1>2. phase \in 0 .. PollInterval - 1 /\ pollPhase \in 0 .. PollInterval - 1
  BY <1>1 DEF TypeOK
<1>3. pollPhase # None /\ PollInterval \in Nat \ {0}
  BY <1>1, ConstantsAssumption
<1>4. Window = IF phase >= pollPhase THEN phase - pollPhase ELSE phase - pollPhase + PollInterval
  BY <1>1 DEF Window
<1>5. CASE phase' = pollPhase
  <2>1. Window' = PollInterval
    BY <1>1, <1>5 DEF Window
  <2> QED
    BY <1>1, <1>2, <1>3, <1>4, <1>5, <2>1
<1>6. CASE phase' # pollPhase
  <2>1. Window' = IF phase' >= pollPhase THEN phase' - pollPhase
                  ELSE phase' - pollPhase + PollInterval
    BY <1>1, <1>6 DEF Window
  <2> QED
    BY <1>1, <1>2, <1>3, <1>4, <1>6, <2>1
<1> QED
  BY <1>5, <1>6

LEMMA HonestStep == TypeOK /\ HonestInv /\ [Next]_vars => HonestInv'
<1> SUFFICES ASSUME TypeOK, HonestInv, [Next]_vars PROVE HonestInv'
  OBVIOUS
<1> USE ConstantsAssumption
<1>1. CASE Tick
  <2>1. PICK rate \in [Users -> 0 .. MaxRate] :
          /\ moved' = [u \in Users |-> Least(moved[u] + rate[u], MaxBytes)]
          /\ clean' = [u \in Users |-> clean[u] /\ rate[u] <= limit[u] /\ Quiet]
    BY <1>1 DEF Tick
  <2>2. UNCHANGED <<strikes, speeds, base, poller, pollPhase, limit>> /\ prompt' = (prompt /\ Quiet)
    BY <1>1 DEF Tick, strikeVars, userVars
  <2>3. ASSUME NEW u \in Users, clean'[u] PROVE Honest(u)'
    <3>1. clean[u] /\ rate[u] <= limit[u] /\ Quiet
      BY <2>1, <2>3
    <3>2. Honest(u)
      BY <3>1 DEF HonestInv
    <3>3. Window' = Window + 1
      BY <1>1, <3>1, WindowGrows DEF HonestInv
    <3>4. /\ moved[u] \in Nat /\ rate[u] \in Nat /\ Window \in Nat /\ limit[u] \in Nat
      BY WindowFact, LimitTypes DEF TypeOK
    <3>5. limit[u] * (Window + 1) = limit[u] * Window + limit[u] /\ limit[u] * Window \in Nat
      BY <3>4, TimesFact
    <3>6. moved'[u] <= moved[u] + rate[u]
      BY <2>1, <3>4 DEF Least
    <3>7. moved'[u] \in Nat
      BY <2>1, <3>4 DEF Least
    <3>8. u \in base => moved'[u] <= limit[u] * Window'
      BY <3>1, <3>2, <3>3, <3>4, <3>5, <3>6, <3>7 DEF Honest
    <3> QED
      BY <2>2, <3>1, <3>2, <3>8 DEF Honest, Slow
  <2> QED
    BY <2>2, <2>3 DEF HonestInv, TickerMade
<1>2. CASE PollTick \/ PollLock \/ DrainBegin \/ DrainLock \/ CheckTick \/ UNCHANGED vars
           \/ UpdateCore \/ (\E u \in Users : SetEnabled(u))
  <2>1. UNCHANGED <<strikes, speeds, base, moved, clean, prompt, phase, pollPhase, limit>>
    BY <1>2 DEF PollTick, PollLock, DrainBegin, DrainLock, CheckTick, SetEnabled, UpdateCore, vars,
                timeVars, readingVars, strikeVars, userVars
  <2>2. /\ (pollDue' \/ poller' # "idle") <=> (pollDue \/ poller # "idle")
        /\ poller # "idle" => poller' # "idle"
    BY <1>2 DEF PollTick, PollLock, DrainBegin, DrainLock, CheckTick, SetEnabled, UpdateCore, vars,
                timeVars
  <2>3. Window' = Window
    BY <2>1, <2>2 DEF Window
  <2> QED
    BY <2>1, <2>2, <2>3 DEF HonestInv, Honest, Slow, TickerMade
<1>8. ASSUME NEW v \in Users, NEW value \in Limits, UpdateRow(v, value) PROVE HonestInv'
  <2>1. /\ UNCHANGED <<strikes, speeds, base, moved, prompt, phase, pollPhase, poller, pollDue>>
        /\ limit' = [limit EXCEPT ![v] = value]
        /\ clean' = [clean EXCEPT ![v] = @ /\ limit[v] <= value]
    BY <1>8 DEF UpdateRow, timeVars, readingVars, strikeVars
  <2>2. Window' = Window /\ (TickerMade' <=> TickerMade)
    BY <2>1 DEF Window, TickerMade
  <2>3. ASSUME NEW u \in Users, clean'[u] PROVE Honest(u)'
    <3>1. clean[u] /\ limit[u] <= limit'[u] /\ limit[u] \in Nat /\ limit'[u] \in Nat
      <4>1. limit \in [Users -> Limits] /\ clean \in [Users -> BOOLEAN] /\ limit[u] \in Nat
        BY LimitTypes DEF TypeOK
      <4>2. CASE u = v
        BY <2>1, <2>3, <4>1, <4>2
      <4>3. CASE u # v
        <5>1. limit'[u] = limit[u] /\ clean'[u] = clean[u]
          BY <2>1, <4>1, <4>3
        <5> QED
          BY <2>3, <4>1, <5>1
      <4> QED
        BY <4>2, <4>3
    <3>2. Honest(u)
      BY <3>1 DEF HonestInv
    <3>3. Window \in Nat
      BY WindowFact
    <3>4. Window * limit[u] <= Window * limit'[u]
      BY <3>1, <3>3, ProductGrows
    <3>5. u \in base => moved'[u] <= limit'[u] * Window'
      <4>1. limit[u] * Window = Window * limit[u] /\ limit'[u] * Window = Window * limit'[u]
        BY <3>1, <3>3
      <4>2. moved[u] \in Nat /\ limit[u] * Window \in Nat /\ limit'[u] * Window \in Nat
        BY <3>1, <3>3, TimesFact DEF TypeOK
      <4> QED
        BY <2>1, <2>2, <3>2, <3>4, <4>1, <4>2 DEF Honest
    <3>6. Slow(u)'
      <4>1. speeds[u] \in Nat \cup {None}
        BY DEF TypeOK
      <4> QED
        BY <2>1, <3>1, <3>2, <4>1 DEF Honest, Slow
    <3> QED
      BY <2>1, <3>2, <3>5, <3>6 DEF Honest
  <2> QED
    BY <2>2, <2>3 DEF HonestInv
<1>3. CASE Answer
  <2>1. PICK missing \in SUBSET {u \in Users : ~served[u] \/ (~simulated /\ moved[u] = 0)} :
        \E made \in [Users -> IF simulated THEN 0 .. MaxBytes ELSE {0}] :
          AnswerIs(missing, made)
    BY <1>3, AnswerHas
  <2>2. PICK made \in [Users -> IF simulated THEN 0 .. MaxBytes ELSE {0}] :
          AnswerIs(missing, made)
    BY <2>1
  <2>3. UNCHANGED <<strikes, prompt, limit>>
    BY <1>3 DEF Answer, strikeVars, userVars
  <2>4. TickerMade'
    BY <1>3 DEF Answer, PollEnds, HonestInv, TickerMade, TypeOK
  <2>5. Window' \in Nat
    BY <1>3, TypeStep, WindowFact DEF Window, TypeOK
  <2>6. ASSUME NEW u \in Users, clean'[u] PROVE Honest(u)'
    <3>1. /\ clean[u] /\ (simulated => Bytes(u, made[u]) <= limit[u])
          /\ (u \in missing => moved[u] = 0)
      BY <2>2, <2>6 DEF AnswerIs
    <3>2. Honest(u)
      BY <3>1 DEF HonestInv
    <3>3. moved'[u] = 0
      BY <2>2, <3>1 DEF AnswerIs
    <3>4. Bytes(u, made[u]) \in Nat /\ limit[u] \in Nat \ {0}
      BY BytesFact, LimitTypes
    <3>5. u \in base => Bytes(u, made[u]) <= limit[u] * PollInterval
      <4>1. CASE simulated
        BY <3>1, <3>4, <4>1, TimesFact
      <4>2. CASE ~simulated
        <5>1. Bytes(u, made[u]) = moved[u]
          BY <4>2 DEF Bytes
        <5>2. u \in base => moved[u] <= limit[u] * Window
          BY <3>2 DEF Honest
        <5>3. limit[u] * Window <= limit[u] * PollInterval
          BY <3>4, WindowFact, ProductGrows
        <5>4. limit[u] * Window \in Nat /\ limit[u] * PollInterval \in Nat
          BY <3>4, WindowFact, TimesFact
        <5> QED
          BY <3>4, <5>1, <5>2, <5>3, <5>4
      <4> QED
        BY <4>1, <4>2
    <3>6. u \in base => Speed(Bytes(u, made[u])) <= limit[u]
      BY <3>4, <3>5, SpeedFact
    <3>7. Slow(u)'
      BY <2>2, <2>3, <3>6 DEF AnswerIs, Slow
    <3>8. moved'[u] <= limit'[u] * Window'
      <4>1. limit[u] * Window' \in Nat
        BY <2>5, <3>4, TimesFact
      <4> QED
        BY <2>3, <3>3, <4>1
    <3> QED
      BY <2>3, <3>2, <3>7, <3>8 DEF Honest
  <2> QED
    BY <2>4, <2>6 DEF HonestInv
<1>4. CASE QueryFailed
  BY <1>4 DEF QueryFailed, PollEnds, HonestInv, TickerMade, TypeOK
<1>5. CASE CheckSpeeds
  <2>1. UNCHANGED <<speeds, base, moved, clean, prompt, phase, pollPhase, pollDue, poller, limit>>
    BY <1>5 DEF CheckSpeeds, timeVars
  <2>2. Window' = Window
    BY <2>1 DEF Window
  <2>3. \A u \in Users : strikes'[u] \in {0, StrikesAfter(u), strikes[u]}
    BY <1>5 DEF CheckSpeeds
  <2>4. ASSUME NEW u \in Users, clean[u] PROVE Honest(u)'
    <3>1. Honest(u)
      BY <2>4 DEF HonestInv
    <3>2. StrikesAfter(u) = 0
      BY <3>1, SlowIsNotOver DEF Honest
    <3> QED
      BY <2>1, <2>2, <2>3, <3>1, <3>2 DEF Honest, Slow
  <2> QED
    BY <2>1, <2>4 DEF HonestInv, TickerMade
<1>6. CASE PanelRestart
  BY <1>6 DEF PanelRestart, HonestInv, TickerMade, Honest, Slow
<1>7. CASE Settle
  BY <1>7 DEF Settle, HonestInv, TickerMade
<1> QED
  BY <1>1, <1>2, <1>3, <1>4, <1>5, <1>6, <1>7, <1>8 DEF Next

(* A user who never sends faster than the limit gets no strike, whatever
   polls deletions force in between, as long as no poll fails or is held
   up.                                                                     *)
THEOREM HonestUsersKeepClear == Spec => []HonestNeverStruck
<1>1. HonestInv => HonestNeverStruck
  BY DEF HonestInv, Honest, HonestNeverStruck
<1> QED
  BY <1>1, HonestInit, HonestStep, TypeCorrect, PTL DEF Spec

(***************************************************************************)
(* One reading disables nobody                                             *)
(***************************************************************************)

Checking == checker # None \/ checkDue

Polling == pollDue \/ poller # "idle"

(* Strikes of u already rest on the reading in speeds.                     *)
Struck(u) == ~fresh[u] /\ speeds[u] # None

Worth(u) == strikes[u] <= 2 * overs[u]

(* A check that would strike a second time for the same reading comes just
   before the poll, and the strike it gives is only the second one.        *)
SecondIsLast(u) ==
  Struck(u) => /\ (Checking \/ ~Polling) => strikes[u] <= 2 * overs[u] - 1
               /\ Checking => Polling
               /\ ~Checking /\ ~Polling /\ pollPhase # 0 => phase < pollPhase

OnTime ==
  /\ Checking => phase = 0
  /\ checker = None \/ ~checkDue

TwoInv ==
  /\ TickerMade
  /\ prompt => OnTime /\ \A u \in Users : Worth(u) /\ SecondIsLast(u)

LEMMA TwoInit == Init => TwoInv
<1> SUFFICES ASSUME Init PROVE TwoInv
  OBVIOUS
<1>1. TickerMade /\ OnTime
  BY DEF Init, TickerMade, OnTime
<1>2. \A u \in Users : Worth(u) /\ SecondIsLast(u)
  <2>1. \A u \in Users : strikes[u] = 0 /\ overs[u] = 0 /\ speeds[u] = None
    BY DEF Init
  <2> QED
    <3>1. ASSUME NEW u \in Users PROVE Worth(u)
      <4>1. strikes[u] = 0 /\ overs[u] = 0
        BY <2>1
      <4> QED
        BY <4>1 DEF Worth
    <3>2. \A u \in Users : ~Struck(u)
      BY <2>1 DEF Struck
    <3> QED
      BY <3>1, <3>2 DEF SecondIsLast
<1> QED
  BY <1>1, <1>2 DEF TwoInv

(* What SecondIsLast says where u is not struck.                           *)
LEMMA NotStruck ==
  ASSUME NEW u \in Users, speeds'[u] = None \/ fresh'[u]
  PROVE  SecondIsLast(u)'
BY DEF SecondIsLast, Struck

LEMMA TwoStep == TypeOK /\ TwoInv /\ [Next]_vars => TwoInv'
<1> SUFFICES ASSUME TypeOK, TwoInv, [Next]_vars PROVE TwoInv'
  OBVIOUS
<1> USE ConstantsAssumption
<1>1. CASE Tick
  <2>1. /\ UNCHANGED <<checker, strikes, overs, speeds, fresh, poller, pollPhase>>
        /\ prompt' = (prompt /\ Quiet)
        /\ phase' = IF phase + 1 = PollInterval THEN 0 ELSE phase + 1
        /\ checkDue' = (checkDue \/ phase' = 0)
        /\ pollDue' = (pollDue \/ phase' = pollPhase)
    BY <1>1 DEF Tick, strikeVars
  <2>2. ASSUME prompt' PROVE OnTime' /\ \A u \in Users : Worth(u)' /\ SecondIsLast(u)'
    <3>1. prompt /\ Quiet /\ ~Checking /\ ~Polling /\ checker = None
      BY <2>1, <2>2 DEF Quiet, Checking, Polling
    <3>2. pollPhase \in 0 .. PollInterval - 1 /\ phase \in 0 .. PollInterval - 1
      BY <3>1 DEF TwoInv, TickerMade, Polling, TypeOK
    <3>3. /\ Checking' <=> phase' = 0
          /\ Polling' <=> phase' = pollPhase
      BY <2>1, <3>1 DEF Checking, Polling
    <3>4. OnTime'
      BY <2>1, <3>1, <3>3 DEF OnTime
    <3>5. ASSUME NEW u \in Users PROVE Worth(u)' /\ SecondIsLast(u)'
      <4>1. Worth(u) /\ SecondIsLast(u)
        BY <3>1 DEF TwoInv
      <4>2. UNCHANGED <<strikes[u], overs[u]>> /\ (Struck(u)' <=> Struck(u))
        BY <2>1 DEF Struck
      <4>3. ASSUME Struck(u)
            PROVE  /\ strikes[u] <= 2 * overs[u] - 1
                   /\ pollPhase # 0 => phase < pollPhase
        BY <3>1, <4>1, <4>3 DEF SecondIsLast
      <4>4. ASSUME Struck(u), phase' = 0 PROVE phase' = pollPhase
        BY <2>1, <3>2, <4>3, <4>4
      <4>5. ASSUME Struck(u), phase' # pollPhase, phase' # 0, pollPhase # 0
            PROVE  phase' < pollPhase
        BY <2>1, <3>2, <4>3, <4>5
      <4> QED
        BY <2>1, <3>3, <4>1, <4>2, <4>3, <4>4, <4>5 DEF Worth, SecondIsLast
    <3> QED
      BY <3>4, <3>5
  <2> QED
    BY <2>1, <2>2 DEF TwoInv, TickerMade
<1>2. CASE PollTick \/ PollLock \/ DrainBegin \/ DrainLock \/ CheckTick \/ UNCHANGED vars
           \/ UpdateCore
           \/ (\E u \in Users : SetEnabled(u) \/ \E value \in Limits : UpdateRow(u, value))
  <2>1. UNCHANGED <<strikes, overs, speeds, fresh, prompt, phase, pollPhase>>
    BY <1>2 DEF PollTick, PollLock, DrainBegin, DrainLock, CheckTick, SetEnabled, UpdateRow, UpdateCore, vars,
                timeVars, readingVars, strikeVars
  <2>2. Polling' <=> Polling
    BY <1>2 DEF PollTick, PollLock, DrainBegin, DrainLock, CheckTick, SetEnabled, UpdateRow, UpdateCore, vars,
                timeVars, Polling
  <2>3. /\ Checking' <=> Checking
        /\ checker = None \/ ~checkDue => checker' = None \/ ~checkDue'
    <3>1. CASE CheckTick
      <4>1. checker' = {u \in Users : enabled[u]} /\ ~checkDue' /\ checkDue
        BY <3>1 DEF CheckTick
      <4>2. {u \in Users : enabled[u]} # None
        BY ConstantsAssumption
      <4> QED
        BY <4>1, <4>2 DEF Checking
    <3>2. CASE ~CheckTick
      BY <1>2, <3>2 DEF PollTick, PollLock, DrainBegin, DrainLock, SetEnabled, UpdateRow, UpdateCore, vars,
                        timeVars, Checking
    <3> QED
      BY <3>1, <3>2
  <2>4. TickerMade'
    BY <1>2 DEF PollTick, PollLock, DrainBegin, DrainLock, CheckTick, SetEnabled, UpdateRow, UpdateCore, vars,
                timeVars, TwoInv, TickerMade
  <2>5. \A u \in Users : (Worth(u) => Worth(u)') /\ (SecondIsLast(u) => SecondIsLast(u)')
    BY <2>1, <2>2, <2>3 DEF Worth, SecondIsLast, Struck
  <2>6. OnTime => OnTime'
    BY <2>1, <2>3 DEF OnTime
  <2> QED
    BY <2>1, <2>4, <2>5, <2>6 DEF TwoInv
<1>3. CASE Answer
  <2>1. PICK missing \in SUBSET {u \in Users : ~served[u] \/ (~simulated /\ moved[u] = 0)} :
        \E made \in [Users -> IF simulated THEN 0 .. MaxBytes ELSE {0}] :
          AnswerIs(missing, made)
    BY <1>3, AnswerHas
  <2>2. \A u \in Users : speeds'[u] = None \/ fresh'[u]
    BY <2>1 DEF AnswerIs
  <2>3. UNCHANGED <<strikes, overs, phase, checkDue, checker, prompt>>
    BY <1>3 DEF Answer, strikeVars
  <2>4. TickerMade'
    BY <1>3 DEF Answer, PollEnds, TwoInv, TickerMade, TypeOK
  <2> QED
    BY <2>2, <2>3, <2>4, NotStruck DEF TwoInv, OnTime, Checking, Worth
<1>4. CASE QueryFailed
  <2>1. \A u \in Users : speeds'[u] = None
    BY <1>4 DEF QueryFailed
  <2>2. UNCHANGED <<strikes, overs, phase, checkDue, checker, prompt>>
    BY <1>4 DEF QueryFailed, strikeVars
  <2>3. TickerMade'
    BY <1>4 DEF QueryFailed, PollEnds, TwoInv, TickerMade, TypeOK
  <2> QED
    BY <2>1, <2>2, <2>3, NotStruck DEF TwoInv, OnTime, Checking, Worth
<1>5. CASE CheckSpeeds
  <2> DEFINE out == {u \in checker : TooMany(StrikesAfter(u))}
  <2>1. /\ UNCHANGED <<speeds, prompt, phase, pollPhase, pollDue, poller, checkDue>>
        /\ checker # None /\ checker' = None
    BY <1>5 DEF CheckSpeeds, timeVars
  <2>2. /\ strikes' = [u \in Users |-> IF u \in out THEN 0
                                       ELSE IF u \in checker THEN StrikesAfter(u) ELSE strikes[u]]
        /\ overs' = [u \in Users |->
             IF u \notin checker THEN overs[u]
             ELSE IF u \in out \/ ~ExceedsLimit(u) THEN 0
             ELSE IF fresh[u] THEN overs[u] + 1 ELSE overs[u]]
        /\ fresh' = [u \in Users |->
             u \in out \/ (fresh[u] /\ ~(u \in checker /\ ExceedsLimit(u)))]
    BY <1>5 DEF CheckSpeeds
  <2>3. out \subseteq checker
    OBVIOUS
  <2> HIDE DEF out
  <2>4. ASSUME prompt PROVE OnTime' /\ \A u \in Users : Worth(u)' /\ SecondIsLast(u)'
    <3>1. OnTime /\ Checking /\ ~checkDue /\ phase = 0
      BY <2>1, <2>4 DEF TwoInv, OnTime, Checking
    <3>2. ~Checking' /\ (Polling' <=> Polling) /\ OnTime'
      BY <2>1, <3>1 DEF Checking, Polling, OnTime
    <3>3. ASSUME NEW u \in Users PROVE Worth(u)' /\ SecondIsLast(u)'
      <4>1. Worth(u) /\ SecondIsLast(u)
        BY <2>4 DEF TwoInv
      <4>2. strikes[u] \in Nat /\ overs[u] \in Nat /\ fresh[u] \in BOOLEAN
        BY DEF TypeOK
      <4>3. UNCHANGED speeds[u]
        BY <2>1
      <4>4. CASE u \in out
        <5>1. strikes'[u] = 0 /\ overs'[u] = 0 /\ fresh'[u]
          BY <2>2, <2>3, <4>4
        <5> QED
          BY <5>1, NotStruck DEF Worth
      <4>5. CASE u \notin out /\ u \notin checker
        <5>1. UNCHANGED <<strikes[u], overs[u], fresh[u]>>
          BY <2>2, <4>2, <4>5
        <5> QED
          BY <3>1, <3>2, <4>1, <4>3, <5>1 DEF Worth, SecondIsLast, Struck
      <4>6. CASE u \notin out /\ u \in checker /\ ~ExceedsLimit(u)
        <5>1. strikes'[u] = 0 /\ overs'[u] = 0 /\ (fresh'[u] <=> fresh[u])
          BY <2>2, <4>2, <4>6 DEF StrikesAfter
        <5>2. ASSUME Struck(u)'
              PROVE  ~Checking' /\ Polling'
          <6>1. Struck(u)
            BY <4>3, <5>1, <5>2 DEF Struck
          <6> QED
            BY <3>1, <3>2, <4>1, <6>1 DEF SecondIsLast
        <5> QED
          BY <5>1, <5>2 DEF Worth, SecondIsLast
      <4>7. CASE u \notin out /\ u \in checker /\ ExceedsLimit(u) /\ fresh[u]
        <5>1. strikes'[u] = strikes[u] + 1 /\ overs'[u] = overs[u] + 1
          BY <2>2, <4>7 DEF StrikesAfter
        <5>2. strikes'[u] <= 2 * overs'[u] - 1
          BY <4>1, <4>2, <5>1 DEF Worth
        <5>3. ~Polling /\ pollPhase # 0 => phase < pollPhase
          BY <3>1 DEF TwoInv, TickerMade, Polling, TypeOK
        <5>4. strikes'[u] \in Nat /\ overs'[u] \in Nat
          BY <4>2, <5>1
        <5> QED
          BY <2>1, <3>2, <5>2, <5>3, <5>4 DEF Worth, SecondIsLast
      <4>8. CASE u \notin out /\ u \in checker /\ ExceedsLimit(u) /\ ~fresh[u]
        <5>1. strikes'[u] = strikes[u] + 1 /\ overs'[u] = overs[u]
          BY <2>2, <2>3, <4>8 DEF StrikesAfter
        <5>2. strikes[u] <= 2 * overs[u] - 1 /\ Polling
          BY <3>1, <4>1, <4>8 DEF SecondIsLast, Struck, ExceedsLimit
        <5> QED
          BY <3>2, <4>2, <5>1, <5>2 DEF Worth, SecondIsLast
      <4> QED
        BY <4>4, <4>5, <4>6, <4>7, <4>8
    <3> QED
      BY <3>2, <3>3
  <2> QED
    BY <2>1, <2>4 DEF TwoInv, TickerMade
<1>6. CASE PanelRestart
  <2>1. \A u \in Users : speeds'[u] = None /\ strikes'[u] = 0 /\ overs'[u] = 0
    BY <1>6 DEF PanelRestart
  <2>2. TickerMade' /\ OnTime'
    BY <1>6 DEF PanelRestart, TickerMade, OnTime
  <2> QED
    BY <2>1, <2>2, NotStruck DEF TwoInv, Worth
<1>7. CASE Settle
  BY <1>7 DEF Settle, TwoInv, TickerMade
<1> QED
  BY <1>1, <1>2, <1>3, <1>4, <1>5, <1>6, <1>7 DEF Next

LEMMA DisabledByReadings ==
  ASSUME TypeOK, TwoInv, [Next]_vars, NEW u \in Users
  PROVE  DisabledWithCause(u)
<1> SUFFICES ASSUME prompt, checker # None, checker' = None, enabled[u], ~enabled'[u]
             PROVE  2 * (overs[u] + (IF fresh[u] THEN 1 ELSE 0)) >= StrikeLimit
  BY DEF DisabledWithCause
<1> USE ConstantsAssumption
<1>1. CheckSpeeds
  BY DEF Next, Tick, PollTick, PollLock, DrainBegin, DrainLock, Answer, QueryFailed,
         CheckTick, SetEnabled, UpdateRow, UpdateCore, PanelRestart, Settle, userVars, vars
<1>2. u \in checker /\ StrikesAfter(u) >= StrikeLimit
  BY <1>1 DEF CheckSpeeds, TooMany, TypeOK
<1>3. ExceedsLimit(u) /\ strikes[u] + 1 >= StrikeLimit
  BY <1>2 DEF StrikesAfter
<1>4. Worth(u) /\ SecondIsLast(u) /\ Checking
  BY DEF TwoInv, Checking
<1>5. strikes[u] \in Nat /\ overs[u] \in Nat
  BY DEF TypeOK
<1>6. CASE fresh[u]
  BY <1>3, <1>4, <1>5, <1>6 DEF Worth
<1>7. CASE ~fresh[u]
  <2>1. strikes[u] <= 2 * overs[u] - 1
    BY <1>3, <1>4, <1>7 DEF SecondIsLast, Struck, ExceedsLimit
  <2> QED
    BY <1>3, <1>5, <1>7, <2>1
<1> QED
  BY <1>6, <1>7

(* As long as no poll is held up, a reading is worth two strikes at most,
   so nobody is disabled on the strength of too few.                       *)
THEOREM OneReadingIsNotEnough == Spec => TwoReadingsToDisable
<1>1. TypeOK /\ TwoInv /\ [Next]_vars => [\A u \in Users : DisabledWithCause(u)]_vars
  BY DisabledByReadings
<1> QED
  BY <1>1, TwoInit, TwoStep, TypeCorrect, PTL DEF Spec, TwoReadingsToDisable
=============================================================================
