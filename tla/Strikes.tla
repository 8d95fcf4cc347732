------------------------------ MODULE Strikes -------------------------------
(***************************************************************************)
(* Speeds and the strikes given for them.  TrafficService divides what a   *)
(* counter moved between two polls by the configured interval, whatever    *)
(* time really went by; LifecycleService looks at those speeds with a      *)
(* ticker of its own and disables a user who was over the limit three      *)
(* times.  DeleteUser forces polls in between.  pollTraffic keeps          *)
(* TrafficService.mu while the core is asked.  The traffic is that of a    *)
(* real core, which counts and has no limits of its own, or that of the    *)
(* stub adapter, which makes it up and cuts it to the limit it knows.      *)
(* UpdateUser writes the limit of the row first and gives it to the core   *)
(* afterwards; checkAll looks at the row.                                  *)
(* Time passes in seconds; what nobody holds up takes none.  Upload and    *)
(* download are alike, and every row has a limit.  Quota, expiry and cores *)
(* that refuse a change are modelled in Accounts.                          *)
(***************************************************************************)
EXTENDS Integers

CONSTANTS
  Users,
  None,
  Limits,        \* the speed limits a row can have, in bytes per second
  MaxRate,       \* bound: bytes a user sends per second
  MaxBytes,      \* bound: bytes counted between two readings
  PollInterval,  \* seconds, of both tickers
  StrikeLimit,   \* software_limit_strikes
  Faults         \* the disturbances this instance allows

FaultKinds == {"core", "slow", "store", "panel", "admin"}

ASSUME ConstantsAssumption ==
  /\ None \notin Int /\ None \notin {"poller", "drain"}
  /\ \A S \in SUBSET Users : S # None
  /\ Limits \subseteq Nat \ {0} /\ Limits # {}
  /\ MaxRate \in Nat /\ MaxBytes \in Nat
  /\ PollInterval \in Nat \ {0}
  /\ StrikeLimit \in Nat \ {0}
  /\ Faults \subseteq FaultKinds

VARIABLES
  simulated,  \* the core is the stub adapter
  phase,      \* seconds since the last tick of the lifecycle ticker
  pollPhase,  \* the phase at which the poll ticker ticks; None before it exists
  pollDue, checkDue,  \* a tick waits in the channel of the ticker
  poller,     \* the goroutine of TrafficService.Start
  drain,      \* the forced poll of a DeleteUser
  mu,         \* who holds TrafficService.mu
  checker,    \* the users checkAll has listed as enabled; None when it does not run
  moved,      \* bytes the core has counted since the last reading of each user
  base,       \* the users in lastTraffic
  speeds,     \* TrafficService.speeds; None where a user is missing
  strikes,    \* LifecycleService.speedStrikes
  enabled,    \* the users enabled in their rows
  served,     \* the users the core serves
  limit,      \* the limits of the rows
  limits,     \* the limits the stub knows; 0 where there is none
  patch,      \* the limit an UpdateUser has still to give to the core
  clean,      \* sent no faster than the limit, which was not lowered, in windows
              \* not stretched (history)
  fresh,      \* no strike since the last disable rests on this reading (history)
  overs,      \* readings the strikes of a user rest on (history)
  capped,     \* the limit of the stub under which the reading was made (history)
  prompt,     \* no poll was held up since the panel started (history)
  hogs        \* once disturbances are over, who sends at full speed (history)

vars == <<simulated, phase, pollPhase, pollDue, checkDue, poller, drain, mu, checker,
          moved, base, speeds, strikes, enabled, served, limit, limits, patch, clean, fresh,
          overs, capped, prompt, hogs>>

timeVars == <<phase, pollPhase, pollDue, checkDue, prompt>>
readingVars == <<moved, base, speeds, fresh, capped>>
strikeVars == <<strikes, overs>>
userVars == <<enabled, served, limit, limits, patch>>

Settled == hogs # None
Disturbed(kind) == kind \in Faults /\ ~Settled

-----------------------------------------------------------------------------
(* Time                                                                     *)

\* Nothing is left to do at this moment.
Quiet ==
  /\ poller = "idle" /\ ~pollDue
  /\ checker = None /\ ~checkDue
  /\ drain = "idle"
  /\ patch = None

\* A poll is out on the network; all others wait for it or have nothing to do.
HeldUp ==
  /\ Disturbed("slow")
  /\ mu # None
  /\ ~(poller = "idle" /\ pollDue)
  /\ ~(checker = None /\ checkDue)
  /\ patch = None

Least(a, b) == IF a < b THEN a ELSE b

\* A second passes, and each user of a real core sends something.
Tick ==
  /\ Quiet \/ HeldUp
  /\ phase' = IF phase + 1 = PollInterval THEN 0 ELSE phase + 1
  /\ checkDue' = (checkDue \/ phase' = 0)
  /\ pollDue' = (pollDue \/ phase' = pollPhase)
  /\ \E rate \in [Users -> 0 .. MaxRate] :
       /\ \A u \in Users : simulated \/ ~served[u] => rate[u] = 0
       /\ Settled => \A u \in hogs : served[u] /\ ~simulated => rate[u] = MaxRate
       /\ moved' = [u \in Users |-> Least(moved[u] + rate[u], MaxBytes)]
       /\ clean' = [u \in Users |-> clean[u] /\ rate[u] <= limit[u] /\ Quiet]
  /\ prompt' = (prompt /\ Quiet)
  /\ UNCHANGED <<simulated, pollPhase, poller, drain, mu, checker, base, speeds, fresh,
                 capped, strikeVars, userVars, hogs>>

-----------------------------------------------------------------------------
(* TrafficService                                                           *)

PollTick ==
  /\ poller = "idle" /\ pollDue
  /\ poller' = "waiting"
  /\ pollDue' = FALSE
  /\ UNCHANGED <<simulated, phase, pollPhase, checkDue, prompt, drain, mu, checker, readingVars,
                 strikeVars, userVars, clean, hogs>>

PollLock ==
  /\ poller = "waiting" /\ mu = None
  /\ poller' = "asking"
  /\ mu' = "poller"
  /\ UNCHANGED <<simulated, timeVars, drain, checker, readingVars, strikeVars, userVars, clean, hogs>>

\* DeleteUser of somebody else: drainTraffic polls first.
DrainBegin ==
  /\ Disturbed("admin")
  /\ drain = "idle"
  /\ drain' = "waiting"
  /\ UNCHANGED <<simulated, timeVars, poller, mu, checker, readingVars, strikeVars, userVars, clean, hogs>>

DrainLock ==
  /\ drain = "waiting" /\ mu = None
  /\ drain' = "asking"
  /\ mu' = "drain"
  /\ UNCHANGED <<simulated, timeVars, poller, checker, readingVars, strikeVars, userVars, clean, hogs>>

\* The end of pollTraffic; the ticker of Start is made after the first poll.
PollEnds ==
  /\ mu' = None
  /\ \/ /\ mu = "poller"
        /\ poller' = "idle"
        /\ pollPhase' = IF pollPhase = None THEN phase ELSE pollPhase
        /\ UNCHANGED drain
     \/ /\ mu = "drain"
        /\ drain' = "idle"
        /\ UNCHANGED <<poller, pollPhase>>

Asked == (mu = "poller" /\ poller = "asking") \/ (mu = "drain" /\ drain = "asking")

\* Mutant of Clamp: a limit of the stub is not honoured.
Unclamped(bytes, bound) == bytes

Clamp(bytes, bound) == IF bound > 0 THEN Least(bytes, bound) ELSE bytes

\* What a reading of the core says of u since the last one; the stub makes it up.
Bytes(u, made) == IF simulated THEN Clamp(made, limits[u]) ELSE moved[u]

\* Mutants of Speed: half of the interval; twice the interval.
SpeedOfHalf(bytes) == bytes \div (PollInterval \div 2)
SpeedOfTwice(bytes) == bytes \div (2 * PollInterval)

\* The configured interval, not the time since the last reading.
Speed(bytes) == bytes \div PollInterval

\* QueryTraffic answers.  Who is not served or idle may be missing; a user seen
\* for the first time gets no speed.
Answer ==
  /\ Asked
  /\ \E missing \in SUBSET {u \in Users : ~served[u] \/ (~simulated /\ moved[u] = 0)} :
     \E made \in [Users -> IF simulated THEN 0 .. MaxBytes ELSE {0}] :
       LET Read(u) == u \notin missing IN
       /\ simulated /\ Settled => \A u \in hogs : made[u] = MaxBytes
       /\ simulated => \A u \in Users : ~served[u] <=> u \in missing
       /\ speeds' = [u \in Users |-> IF Read(u) /\ u \in base THEN Speed(Bytes(u, made[u])) ELSE None]
       /\ base' = base \cup {u \in Users : Read(u)}
       /\ moved' = [u \in Users |-> IF Read(u) THEN 0 ELSE moved[u]]
       /\ fresh' = [u \in Users |-> Read(u) /\ u \in base]
       /\ capped' = limits
       /\ clean' = [u \in Users |-> /\ clean[u] /\ (simulated => Bytes(u, made[u]) <= limit[u])
                                  /\ (u \in missing => moved[u] = 0)]
  /\ PollEnds
  /\ UNCHANGED <<simulated, phase, pollDue, checkDue, prompt, checker, strikeVars, userVars, hogs>>

\* Mutant of QueryFailed: the speeds of the last poll stay.
QueryFailedKeepsSpeeds ==
  /\ Disturbed("core")
  /\ Asked
  /\ clean' = [u \in Users |-> FALSE]
  /\ PollEnds
  /\ UNCHANGED <<simulated, phase, pollDue, checkDue, prompt, checker, readingVars, strikeVars, userVars, hogs>>

\* The core answers with an error: its users drop out of the speeds, and the next
\* reading spans two intervals.
QueryFailed ==
  /\ Disturbed("core")
  /\ Asked
  /\ speeds' = [u \in Users |-> None]
  /\ fresh' = [u \in Users |-> FALSE]
  /\ clean' = [u \in Users |-> FALSE]
  /\ PollEnds
  /\ UNCHANGED <<simulated, phase, pollDue, checkDue, prompt, checker, moved, base, capped,
                 strikeVars, userVars, hogs>>

-----------------------------------------------------------------------------
(* LifecycleService                                                         *)

CheckTick ==
  /\ checker = None /\ checkDue
  /\ checkDue' = FALSE
  /\ checker' = {u \in Users : enabled[u]}
  /\ UNCHANGED <<simulated, phase, pollPhase, pollDue, prompt, poller, drain, mu, readingVars,
                 strikeVars, userVars, clean, hogs>>

ExceedsLimit(u) == speeds[u] # None /\ speeds[u] > limit[u]

StrikesAfter(u) == IF ExceedsLimit(u) THEN strikes[u] + 1 ELSE 0

\* Mutant of TooMany: one strike more.
OverStrikeLimit(count) == count > StrikeLimit

TooMany(count) == count >= StrikeLimit

\* GetUserSpeeds waits for the lock; then each listed user is struck, cleared
\* or disabled.  disableUser clears the strikes even if the row is not written:
\* the user is then enabled in his row and out of the core.
CheckSpeeds ==
  /\ checker # None
  /\ mu = None
  /\ LET out == {u \in checker : TooMany(StrikesAfter(u))} IN
     /\ strikes' = [u \in Users |-> IF u \in out THEN 0
                                    ELSE IF u \in checker THEN StrikesAfter(u) ELSE strikes[u]]
     /\ overs' = [u \in Users |->
          IF u \notin checker THEN overs[u]
          ELSE IF u \in out \/ ~ExceedsLimit(u) THEN 0
          ELSE IF fresh[u] THEN overs[u] + 1 ELSE overs[u]]
     /\ fresh' = [u \in Users |-> u \in out \/ (fresh[u] /\ ~(u \in checker /\ ExceedsLimit(u)))]
     /\ \E unwritten \in SUBSET (IF Disturbed("store") THEN out ELSE {}) :
          enabled' = [u \in Users |-> enabled[u] /\ u \notin (out \ unwritten)]
     /\ served' = [u \in Users |-> served[u] /\ u \notin out]
     /\ limits' = [u \in Users |-> IF u \in out THEN 0 ELSE limits[u]]
  /\ checker' = None
  /\ UNCHANGED <<simulated, timeVars, poller, drain, mu, moved, base, speeds, capped, limit, patch,
                 clean, hogs>>

-----------------------------------------------------------------------------
(* The administrator, the panel's process, and the end of disturbances      *)

\* Only the stub takes limits, when a user is enabled or changed, and forgets
\* them when one is removed.
LimitAfter(u) == IF simulated /\ ~enabled[u] THEN limit[u] ELSE 0

\* SetEnabled leaves strikes and speeds alone.
SetEnabled(u) ==
  /\ Disturbed("admin")
  /\ enabled' = [enabled EXCEPT ![u] = ~@]
  /\ served' = [served EXCEPT ![u] = ~enabled[u]]
  /\ limits' = [limits EXCEPT ![u] = LimitAfter(u)]
  /\ UNCHANGED <<simulated, timeVars, poller, drain, mu, checker, readingVars, strikeVars, limit,
                 patch, clean, hogs>>

\* UpdateUser writes the row, in which somebody can look at it at once ...
UpdateRow(u, value) ==
  /\ Disturbed("admin")
  /\ patch = None
  /\ limit' = [limit EXCEPT ![u] = value]
  /\ clean' = [clean EXCEPT ![u] = @ /\ limit[u] <= value]
  /\ patch' = IF simulated /\ enabled[u] THEN [user |-> u, limit |-> value] ELSE None
  /\ UNCHANGED <<simulated, timeVars, poller, drain, mu, checker, readingVars, strikeVars, enabled,
                 served, limits, hogs>>

\* ... and then gives the limit to the core, whatever became of the user.
UpdateCore ==
  /\ patch # None
  /\ limits' = [limits EXCEPT ![patch.user] = patch.limit]
  /\ patch' = None
  /\ UNCHANGED <<simulated, timeVars, poller, drain, mu, checker, readingVars, strikeVars, enabled,
                 served, limit, clean, hogs>>

\* syncEnabledUsers adds the users again, without limits.
PanelRestart ==
  /\ Disturbed("panel")
  /\ phase' = 0 /\ pollPhase' = None
  /\ pollDue' = FALSE /\ checkDue' = TRUE
  /\ poller' = "waiting" /\ drain' = "idle" /\ mu' = None
  /\ checker' = None
  /\ base' = {}
  /\ speeds' = [u \in Users |-> None]
  /\ strikes' = [u \in Users |-> 0]
  /\ limits' = [u \in Users |-> 0] /\ patch' = None
  /\ served' = enabled
  /\ clean' = [u \in Users |-> TRUE]
  /\ fresh' = [u \in Users |-> FALSE]
  /\ overs' = [u \in Users |-> 0]
  /\ prompt' = TRUE
  /\ UNCHANGED <<simulated, moved, enabled, limit, capped, hogs>>

\* From some quiet moment on nothing fails, nobody interferes, cores that are
\* asked answer, and some users do not slow down.  The histories have nothing new to say from there on.
Settle ==
  /\ ~Settled
  /\ Quiet
  /\ hogs' \in SUBSET Users \ {{}}
  /\ clean' = [u \in Users |-> FALSE]
  /\ prompt' = FALSE
  /\ UNCHANGED <<simulated, phase, pollPhase, pollDue, checkDue, poller, drain, mu, checker,
                 readingVars, strikeVars, userVars>>

Init ==
  /\ simulated \in BOOLEAN
  /\ phase = 0 /\ pollPhase = None
  /\ pollDue = FALSE /\ checkDue = TRUE
  /\ poller = "waiting" /\ drain = "idle" /\ mu = None
  /\ checker = None
  /\ moved = [u \in Users |-> 0]
  /\ base = {}
  /\ speeds = [u \in Users |-> None]
  /\ strikes = [u \in Users |-> 0]
  /\ enabled = [u \in Users |-> TRUE] /\ served = enabled
  /\ limit \in [Users -> Limits]
  /\ limits = [u \in Users |-> 0] /\ patch = None
  /\ clean = [u \in Users |-> TRUE]
  /\ fresh = [u \in Users |-> FALSE]
  /\ overs = [u \in Users |-> 0]
  /\ capped = [u \in Users |-> 0]
  /\ prompt = TRUE
  /\ hogs = None

Next ==
  \/ Tick
  \/ PollTick \/ PollLock \/ DrainBegin \/ DrainLock \/ Answer \/ QueryFailed
  \/ CheckTick \/ CheckSpeeds
  \/ \E u \in Users : SetEnabled(u) \/ \E value \in Limits : UpdateRow(u, value)
  \/ UpdateCore
  \/ PanelRestart \/ Settle

Spec == Init /\ [][Next]_vars

(***************************************************************************)
(* Time goes on, and so do both goroutines and a request.  The lock is one *)
(* of Go's: who waits for it gets it when it becomes free (SF).  The call  *)
(* to the core has no deadline, so nothing says that it ends while there   *)
(* are disturbances: one that hangs keeps the lock, and then they never    *)
(* end either.                                                             *)
(***************************************************************************)
FairSpec ==
  /\ Spec
  /\ WF_vars(Tick) /\ WF_vars(PollTick) /\ WF_vars(CheckTick) /\ WF_vars(UpdateCore)
  /\ WF_vars(Settled /\ Answer)
  /\ SF_vars(PollLock) /\ SF_vars(DrainLock) /\ SF_vars(CheckSpeeds)

-----------------------------------------------------------------------------
TypeOK ==
  /\ simulated \in BOOLEAN
  /\ phase \in 0 .. PollInterval - 1
  /\ pollPhase \in (0 .. PollInterval - 1) \cup {None}
  /\ pollDue \in BOOLEAN /\ checkDue \in BOOLEAN
  /\ poller \in {"idle", "waiting", "asking"}
  /\ drain \in {"idle", "waiting", "asking"}
  /\ mu \in {"poller", "drain", None}
  /\ (checker = None \/ checker \subseteq Users)
  /\ moved \in [Users -> 0 .. MaxBytes]
  /\ base \subseteq Users
  /\ speeds \in [Users -> Nat \cup {None}]
  /\ strikes \in [Users -> 0 .. StrikeLimit - 1]
  /\ enabled \in [Users -> BOOLEAN] /\ served \in [Users -> BOOLEAN]
  /\ limit \in [Users -> Limits]
  /\ limits \in [Users -> Limits \cup {0}]
  /\ patch \in [user : Users, limit : Limits] \cup {None}
  /\ clean \in [Users -> BOOLEAN] /\ fresh \in [Users -> BOOLEAN]
  /\ capped \in [Users -> Limits \cup {0}]
  /\ overs \in [Users -> Nat]
  /\ prompt \in BOOLEAN
  /\ (hogs = None \/ hogs \subseteq Users)

(* A user who never sends faster than the limit of his row, which nobody
   lowers, gets no strike, whatever polls deletions force in between, as long
   as no poll fails or is held up (pollTraffic divides by the interval, not by
   the time that passed).                                                   *)
HonestNeverStruck == \A u \in Users : clean[u] => strikes[u] = 0

DisabledWithCause(u) ==
  /\ prompt
  /\ checker # None /\ checker' = None
  /\ enabled[u] /\ ~enabled'[u]
  => 2 * (overs[u] + (IF fresh[u] THEN 1 ELSE 0)) >= StrikeLimit

(* As long as no poll is held up, nobody is disabled on the strength of one
   reading: it is worth two strikes at most, because both tickers have the
   same interval and a failed poll leaves no speed behind (pollTraffic,
   checkAll).  A poll that is held up lets checks overtake the next one.   *)
TwoReadingsToDisable == [][\A u \in Users : DisabledWithCause(u)]_vars

(* Traffic the stub has cut to a limit strikes its user only if his row has
   a lower limit than that by the time of the check: UpdateUser writes the row
   before the core, so a reading in between, or one that is older, is compared
   with a limit it was not made under (stub QueryTraffic, UpdateUser, checkAll).
   After a restart the stub knows no limits, and cuts nothing.              *)
LimitHonoured ==
  [][\A u \in Users :
       strikes'[u] > strikes[u] /\ capped[u] > 0 => limit[u] < capped[u]]_vars

(* Once disturbances are over, a user who sends too fast all the time, and is
   not cut by the core, is put out of it (Start of both services).          *)
HogDisabled ==
  \A u \in Users :
    (Settled /\ u \in hogs /\ limits[u] = 0 /\ limit[u] < MaxRate) ~> ~served[u]
=============================================================================
