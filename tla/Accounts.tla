------------------------------ MODULE Accounts ------------------------------
(***************************************************************************)
(* The accounts of the panel: each is a row of the store and, while it is  *)
(* enabled, an entry of the core's user table.  Requests (UserHandler,     *)
(* UserService) and the lifecycle goroutine read a row, call the adapter   *)
(* and write the row in separate steps, without a common lock.             *)
(*                                                                         *)
(* The adapter is seen as in CoreSync: a call changes the table in memory, *)
(* then writes all of it to the file, or fails to.  Its capabilities are   *)
(* those of sing-box and Xray, whose EnableUser and DisableUser are        *)
(* AddUser and RemoveUser.                                                 *)
(***************************************************************************)
EXTENDS Integers, FiniteSets

CONSTANTS
  Users,      \* user IDs
  Admins,     \* concurrent requests
  NoRow, Idle,
  Keep,       \* the field is not in the request
  Quotas,     \* the quotas of this instance, defaults filled in; 0 is no quota
  MaxUsed,    \* bound: traffic counted for a user
  Lifecycle,  \* whether LifecycleService runs
  Faults      \* the failures this instance allows

FaultKinds == {"write", "store", "crash"}

Rows == [enabled : BOOLEAN, used : Nat, quota : Quotas]

ASSUME ConstantsAssumption ==
  /\ NoRow \notin Rows
  /\ Quotas \subseteq Nat
  /\ Keep \notin Quotas
  /\ Keep \notin BOOLEAN
  /\ MaxUsed \in Nat
  /\ Lifecycle \in BOOLEAN
  /\ Faults \subseteq FaultKinds

VARIABLES
  rows,     \* the store
  mem,      \* the users in ConfigManager.users
  file,     \* the users in the core's configuration file
  job,      \* what each request is doing
  due,      \* the users the running checkAll will disable
  seen,     \* their rows as it has read them
  cutting,  \* the user it has taken from the core and not yet written
  spoiled   \* users whose last attempt at the core or the row failed or was
            \* cut short by a restart (history)

vars == <<rows, mem, file, job, due, seen, cutting, spoiled>>

lifeVars == <<due, seen, cutting>>
coreVars == <<mem, file, spoiled>>

\* The next thing a request does.
Steps == {"add", "undo", "enable-read", "enable-core", "enable-row",
          "update-read", "update-row", "remove", "delete-row"}

Jobs == [at : Steps, user : Users, enabled : BOOLEAN \cup {Keep},
         quota : Quotas, snap : Rows \cup {NoRow}]

ASSUME IdleAssumption == Idle \notin Jobs

-----------------------------------------------------------------------------
At(a, step) == job[a] # Idle /\ job[a].at = step

Goto(a, step) == job' = [job EXCEPT ![a].at = step]

GotoWith(a, step, row) == job' = [job EXCEPT ![a].at = step, ![a].snap = row]

Return(a) == job' = [job EXCEPT ![a] = Idle]

Enabled == {u \in Users : rows[u] # NoRow /\ rows[u].enabled}

\* AddUser or RemoveUser: the table of the core becomes t for the sake of u.
CoreOk(t, u) ==
  /\ mem' = t
  /\ file' = t
  /\ spoiled' = spoiled \ {u}

CoreFailed(t, u) ==
  /\ "write" \in Faults
  /\ mem' = t
  /\ spoiled' = spoiled \cup {u}
  /\ UNCHANGED file

\* Update, Delete: nothing is written to a row that is gone.
PutRow(u, row) == rows' = IF rows[u] = NoRow THEN rows ELSE [rows EXCEPT ![u] = row]

StoreFailed(u) ==
  /\ "store" \in Faults
  /\ spoiled' = spoiled \cup {u}
  /\ UNCHANGED rows

-----------------------------------------------------------------------------
(* POST /api/users: row, core, and the row again when the core refuses       *)

CreateUser(a, u, q) ==
  /\ job[a] = Idle
  /\ rows[u] = NoRow
  /\ rows' = [rows EXCEPT ![u] = [enabled |-> TRUE, used |-> 0, quota |-> q]]
  /\ job' = [job EXCEPT ![a] =
       [at |-> "add", user |-> u, enabled |-> Keep, quota |-> q, snap |-> NoRow]]
  /\ UNCHANGED <<coreVars, lifeVars>>

AddToCore(a) ==
  /\ At(a, "add")
  /\ LET u == job[a].user IN
       \/ CoreOk(mem \cup {u}, u) /\ Return(a)
       \/ CoreFailed(mem \cup {u}, u) /\ Goto(a, "undo")
  /\ UNCHANGED <<rows, lifeVars>>

\* The error of this Delete is dropped.
UndoCreate(a) ==
  /\ At(a, "undo")
  /\ \/ PutRow(job[a].user, NoRow) /\ UNCHANGED spoiled
     \/ StoreFailed(job[a].user)
  /\ Return(a)
  /\ UNCHANGED <<mem, file, lifeVars>>

-----------------------------------------------------------------------------
(* PATCH /api/users/{id}: SetEnabled if need be, then UpdateUser             *)

\* Mutant of NewQuota: a quota that is not given is not looked up.
GivenQuota(u, q) == q

\* A field that is not given keeps the value the first read found.
NewQuota(u, q) == IF q = Keep THEN rows[u].quota ELSE q

PatchUser(a, u, enabled, q) ==
  /\ job[a] = Idle
  /\ rows[u] # NoRow
  /\ job' = [job EXCEPT ![a] =
       [at |-> IF enabled \in {Keep, rows[u].enabled} THEN "update-read" ELSE "enable-read",
        user |-> u, enabled |-> enabled, quota |-> NewQuota(u, q), snap |-> NoRow]]
  /\ UNCHANGED <<rows, coreVars, lifeVars>>

\* SetEnabled reads the row again.
ReadForEnable(a) ==
  /\ At(a, "enable-read")
  /\ LET row == rows[job[a].user] IN
       \/ row = NoRow /\ Return(a)
       \/ row # NoRow /\ row.enabled = job[a].enabled /\ Goto(a, "update-read")
       \/ row # NoRow /\ row.enabled # job[a].enabled /\ GotoWith(a, "enable-core", row)
  /\ UNCHANGED <<rows, coreVars, lifeVars>>

EnableInCore(a) ==
  /\ At(a, "enable-core")
  /\ LET u == job[a].user
         t == IF job[a].enabled THEN mem \cup {u} ELSE mem \ {u}
     IN \/ CoreOk(t, u) /\ Goto(a, "enable-row")
        \/ CoreFailed(t, u) /\ Return(a)
  /\ UNCHANGED <<rows, lifeVars>>

EnableRow(a) ==
  /\ At(a, "enable-row")
  /\ LET u == job[a].user IN
       \/ /\ PutRow(u, [job[a].snap EXCEPT !.enabled = job[a].enabled])
          /\ IF rows[u] = NoRow THEN Return(a) ELSE Goto(a, "update-read")
          /\ UNCHANGED spoiled
       \/ StoreFailed(u) /\ Return(a)
  /\ UNCHANGED <<mem, file, lifeVars>>

\* Mutant of ReadForUpdate: the row SetEnabled has read will do.
ReadOnce(a) ==
  /\ At(a, "update-read")
  /\ LET row == rows[job[a].user] IN
       \/ row = NoRow /\ Return(a)
       \/ row # NoRow /\ job[a].snap = NoRow /\ GotoWith(a, "update-row", row)
       \/ row # NoRow /\ job[a].snap # NoRow /\ Goto(a, "update-row")
  /\ UNCHANGED <<rows, coreVars, lifeVars>>

\* UpdateUser reads it once more ...
ReadForUpdate(a) ==
  /\ At(a, "update-read")
  /\ LET row == rows[job[a].user] IN
       \/ row = NoRow /\ Return(a)
       \/ row # NoRow /\ GotoWith(a, "update-row", row)
  /\ UNCHANGED <<rows, coreVars, lifeVars>>

\* ... and writes all of it.  A write that fails has changed nothing.
UpdateRow(a) ==
  /\ At(a, "update-row")
  /\ \/ PutRow(job[a].user, [job[a].snap EXCEPT !.quota = job[a].quota])
     \/ "store" \in Faults /\ UNCHANGED rows
  /\ Return(a)
  /\ UNCHANGED <<coreVars, lifeVars>>

-----------------------------------------------------------------------------
(* DELETE /api/users/{id}: core, then row                                    *)

DeleteUser(a, u) ==
  /\ job[a] = Idle
  /\ rows[u] # NoRow
  /\ job' = [job EXCEPT ![a] =
       [at |-> "remove", user |-> u, enabled |-> Keep, quota |-> rows[u].quota,
        snap |-> rows[u]]]
  /\ UNCHANGED <<rows, coreVars, lifeVars>>

\* Mutant of RemoveFromCore: a disabled user needs no removal.
RemoveEnabledFromCore(a) ==
  /\ At(a, "remove")
  /\ LET u == job[a].user IN
       \/ CoreOk(IF job[a].snap.enabled THEN mem \ {u} ELSE mem, u) /\ Goto(a, "delete-row")
       \/ CoreFailed(mem \ {u}, u) /\ Return(a)
  /\ UNCHANGED <<rows, lifeVars>>

RemoveFromCore(a) ==
  /\ At(a, "remove")
  /\ LET u == job[a].user IN
       \/ CoreOk(mem \ {u}, u) /\ Goto(a, "delete-row")
       \/ CoreFailed(mem \ {u}, u) /\ Return(a)
  /\ UNCHANGED <<rows, lifeVars>>

DeleteRow(a) ==
  /\ At(a, "delete-row")
  /\ \/ PutRow(job[a].user, NoRow) /\ UNCHANGED spoiled
     \/ StoreFailed(job[a].user)
  /\ Return(a)
  /\ UNCHANGED <<mem, file, lifeVars>>

-----------------------------------------------------------------------------
(* pollTraffic adds what a user sent                                         *)

AddTraffic(u) ==
  /\ rows[u] # NoRow
  /\ rows[u].used < MaxUsed
  /\ rows' = [rows EXCEPT ![u].used = @ + 1]
  /\ UNCHANGED <<coreVars, job, lifeVars>>

-----------------------------------------------------------------------------
(* LifecycleService: checkAll reads every row, then disables one by one      *)

\* Mutant of OverQuota: the last byte of the quota is free.
BeyondQuota(row) == row.enabled /\ row.quota > 0 /\ row.used > row.quota

OverQuota(row) == row.enabled /\ row.quota > 0 /\ row.used >= row.quota

\* Whoever is over quota is due; any other enabled user may be, for having
\* expired or for being too fast too often.
CheckAll ==
  /\ Lifecycle
  /\ due = {}
  /\ due' \in {d \in SUBSET Enabled : {u \in Enabled : OverQuota(rows[u])} \subseteq d}
  /\ seen' = [u \in Users |-> IF u \in due' THEN rows[u] ELSE NoRow]
  /\ UNCHANGED <<rows, coreVars, job, cutting>>

\* disableUser goes on when the core fails ...
CutUser(u) ==
  /\ u \in due
  /\ cutting = {}
  /\ cutting' = {u}
  /\ CoreOk(mem \ {u}, u) \/ CoreFailed(mem \ {u}, u)
  /\ UNCHANGED <<rows, job, due, seen>>

\* ... and when the store does.
CutRow(u) ==
  /\ u \in cutting
  /\ \/ PutRow(u, [seen[u] EXCEPT !.enabled = FALSE]) /\ UNCHANGED spoiled
     \/ StoreFailed(u)
  /\ cutting' = {}
  /\ due' = due \ {u}
  /\ seen' = [seen EXCEPT ![u] = NoRow]
  /\ UNCHANGED <<mem, file, job>>

-----------------------------------------------------------------------------
\* The users whom a request or the lifecycle goroutine is working on.
Interrupted == {job[a].user : a \in {b \in Admins : job[b] # Idle}} \cup cutting

\* The process ends and starts again: the table is read back from the file,
\* and syncEnabledUsers, before anything else runs, adds every enabled user;
\* an add that fails is skipped, its user is written by a later one.
Restart ==
  /\ "crash" \in Faults
  /\ mem' = file \cup Enabled
  /\ \E missed \in SUBSET Enabled :
       /\ missed = {} \/ "write" \in Faults
       /\ file' = file \cup (Enabled \ missed)
       /\ spoiled' = ((spoiled \cup Interrupted) \ Enabled) \cup missed
  /\ job' = [a \in Admins |-> Idle]
  /\ due' = {} /\ cutting' = {} /\ seen' = [u \in Users |-> NoRow]
  /\ UNCHANGED rows

-----------------------------------------------------------------------------
Init ==
  /\ rows = [u \in Users |-> NoRow]
  /\ mem = {}
  /\ file = {}
  /\ job = [a \in Admins |-> Idle]
  /\ due = {}
  /\ seen = [u \in Users |-> NoRow]
  /\ cutting = {}
  /\ spoiled = {}

Request(a) ==
  \/ \E u \in Users, q \in Quotas : CreateUser(a, u, q)
  \/ \E u \in Users, e \in BOOLEAN \cup {Keep}, q \in Quotas \cup {Keep} : PatchUser(a, u, e, q)
  \/ \E u \in Users : DeleteUser(a, u)

RequestStep(a) ==
  \/ AddToCore(a) \/ UndoCreate(a)
  \/ ReadForEnable(a) \/ EnableInCore(a) \/ EnableRow(a)
  \/ ReadForUpdate(a) \/ UpdateRow(a)
  \/ RemoveFromCore(a) \/ DeleteRow(a)

LifecycleStep == CheckAll \/ \E u \in Users : CutUser(u) \/ CutRow(u)

Next ==
  \/ \E a \in Admins : Request(a) \/ RequestStep(a)
  \/ LifecycleStep
  \/ \E u \in Users : AddTraffic(u)
  \/ Restart

Spec == Init /\ [][Next]_vars

\* The ticker of LifecycleService.Start goes on, and a check that has begun
\* ends.  A check that finds nobody over quota is not obliged to find someone
\* else due.
FairSpec ==
  /\ Spec
  /\ WF_vars(CheckAll /\ \E u \in Enabled : OverQuota(rows[u]))
  /\ WF_vars(\E u \in Users : CutUser(u) \/ CutRow(u))

-----------------------------------------------------------------------------
TypeOK ==
  /\ rows \in [Users -> Rows \cup {NoRow}]
  /\ mem \subseteq Users /\ file \subseteq Users
  /\ job \in [Admins -> Jobs \cup {Idle}]
  /\ due \subseteq Users
  /\ seen \in [Users -> Rows \cup {NoRow}]
  /\ cutting \subseteq due
  /\ spoiled \subseteq Users

(* With one request at a time, whatever calls fail and wherever the panel is
   restarted: between requests, a user is in the core's file exactly when
   the row is enabled, unless the last attempt at that very user failed or
   was cut short (user_service.go CreateUser, SetEnabled, UpdateUser,
   DeleteUser; main.go syncEnabledUsers).                                  *)
FailureSpoilsOnlyItsUser ==
  (\A a \in Admins : job[a] = Idle) =>
    \A u \in Users \ spoiled : u \in file <=> u \in Enabled

(* One request at a time beside the lifecycle goroutine, with failures and
   restarts at any step: the core serves nobody who has no row, unless the
   last attempt at that very user failed or was cut short (DeleteUser takes
   the core entry away first, CreateUser adds it last; disableUser adds
   nothing).                                                               *)
ServedHasRow == \A u \in file \ spoiled : rows[u] # NoRow

EnabledAtQuota(u) ==
  rows[u] # NoRow /\ rows[u].enabled /\ rows[u].quota \in 1 .. rows[u].used

\* The store refuses the row disableUser writes.
RowRefused == \E u \in cutting : cutting' = {} /\ StoreFailed(u)

(* An enabled user at the quota does not stay so, whatever requests come
   between, and although the core refuses to let go of the user, once the
   panel stays up and the store accepts rows (lifecycle_service.go checkAll,
   disableUser).                                                           *)
QuotaEnforced ==
  <>[][~Restart /\ ~RowRefused]_vars =>
    \A u \in Users : EnabledAtQuota(u) ~> ~EnabledAtQuota(u)

(* The comment on UserHandler.UpdateUser: only the fields of the request are
   overwritten; a request without the enabled field does not change it.    *)
PatchKeepsOthers ==
  [][\A a \in Admins :
       /\ At(a, "update-row") /\ job[a].enabled = Keep
       /\ rows' # rows /\ job'[a] = Idle
       => rows'[job[a].user].enabled = rows[job[a].user].enabled]_vars
=============================================================================
