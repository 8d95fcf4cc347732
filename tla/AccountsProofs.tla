--------------------------- MODULE AccountsProofs ---------------------------
(***************************************************************************)
(* Accounts for every set of users, every quota and any number of          *)
(* requests: its types.  For one request at a time: the core serves nobody *)
(* who has no row, unless the last attempt at that very user failed; and   *)
(* without the lifecycle goroutine, a failure spoils nobody else.          *)
(***************************************************************************)
EXTENDS Accounts, TLAPS

(* What the steps of a request rely on: SetEnabled knows the flag it sets,
   and whoever writes a row has read one (user_service.go SetEnabled,
   UpdateUser; lifecycle_service.go disableUser).                          *)
JobReady(a) ==
  job[a] # Idle =>
    /\ job[a].at \in {"enable-read", "enable-core", "enable-row"} => job[a].enabled \in BOOLEAN
    /\ job[a].at \in {"enable-core", "enable-row", "update-row"} => job[a].snap \in Rows

SeenReady == \A u \in due : seen[u] \in Rows

TypeInv == TypeOK /\ (\A a \in Admins : JobReady(a)) /\ SeenReady

-----------------------------------------------------------------------------
(* A request that is under way is a job.                                   *)
LEMMA JobFact ==
  ASSUME TypeOK, NEW a \in Admins, job[a] # Idle
  PROVE  job[a] \in Jobs
BY DEF TypeOK

(* Moving a request on changes where it is, and perhaps the row it has
   read; the other requests stay where they are (UserHandler, UserService). *)
LEMMA Moved ==
  ASSUME TypeOK, NEW a \in Admins, job[a] # Idle,
         NEW step \in Steps, NEW row \in Rows \cup {NoRow},
         (Goto(a, step) /\ row = job[a].snap) \/ GotoWith(a, step, row)
  PROVE  /\ job' \in [Admins -> Jobs \cup {Idle}]
         /\ job'[a].at = step
         /\ job'[a].snap = row
         /\ job'[a].user = job[a].user
         /\ job'[a].enabled = job[a].enabled
         /\ job'[a].quota = job[a].quota
         /\ \A b \in Admins \ {a} : job'[b] = job[b]
<1>1. job[a] \in Jobs /\ job \in [Admins -> Jobs \cup {Idle}]
  BY JobFact DEF TypeOK
<1>2. CASE Goto(a, step) /\ row = job[a].snap
  <2>1. [job[a] EXCEPT !.at = step] \in Jobs
    BY <1>1 DEF Jobs
  <2>2. job' = [job EXCEPT ![a] = [job[a] EXCEPT !.at = step]]
    BY <1>1, <1>2 DEF Goto
  <2>3. job'[a] = [job[a] EXCEPT !.at = step]
    BY <1>1, <2>2
  <2>4. job' \in [Admins -> Jobs \cup {Idle}] /\ \A b \in Admins \ {a} : job'[b] = job[b]
    BY <1>1, <2>1, <2>2
  <2> QED BY <1>1, <1>2, <2>3, <2>4 DEF Jobs
<1>3. CASE GotoWith(a, step, row)
  <2>1. [job[a] EXCEPT !.at = step, !.snap = row] \in Jobs
    BY <1>1 DEF Jobs
  <2>2. job' = [job EXCEPT ![a] = [job[a] EXCEPT !.at = step, !.snap = row]]
    BY <1>1, <1>3 DEF GotoWith
  <2>3. job'[a] = [job[a] EXCEPT !.at = step, !.snap = row]
    BY <1>1, <2>2
  <2>4. job' \in [Admins -> Jobs \cup {Idle}] /\ \A b \in Admins \ {a} : job'[b] = job[b]
    BY <1>1, <2>1, <2>2
  <2> QED BY <1>1, <2>3, <2>4 DEF Jobs
<1> QED BY <1>2, <1>3

(* A request that returns is idle; the others stay where they are.         *)
LEMMA Returned ==
  ASSUME TypeOK, NEW a \in Admins, Return(a)
  PROVE  /\ job' \in [Admins -> Jobs \cup {Idle}]
         /\ job'[a] = Idle
         /\ \A b \in Admins \ {a} : job'[b] = job[b]
BY DEF TypeOK, Return

(* A row that is written is a row (store.go Update, Delete).               *)
LEMMA PutRowType ==
  ASSUME TypeOK, NEW u \in Users, NEW row \in Rows \cup {NoRow}, PutRow(u, row)
  PROVE  rows' \in [Users -> Rows \cup {NoRow}]
BY DEF TypeOK, PutRow

(* The tables of a call of the adapter hold users only.                    *)
LEMMA CoreType ==
  ASSUME TypeOK, NEW u \in Users, NEW t \in SUBSET Users,
         CoreOk(t, u) \/ CoreFailed(t, u)
  PROVE  mem' \subseteq Users /\ file' \subseteq Users /\ spoiled' \subseteq Users
BY DEF TypeOK, CoreOk, CoreFailed

-----------------------------------------------------------------------------
(* A new request is a job that is ready (UserHandler).                     *)
LEMMA RequestType ==
  ASSUME TypeInv, NEW a \in Admins, Request(a)
  PROVE  TypeInv'
<1> USE ConstantsAssumption, IdleAssumption
<1>1. ASSUME NEW u \in Users, NEW q \in Quotas, CreateUser(a, u, q) PROVE TypeInv'
  <2>1. [at |-> "add", user |-> u, enabled |-> Keep, quota |-> q, snap |-> NoRow] \in Jobs
    BY DEF Jobs, Steps
  <2>2. [enabled |-> TRUE, used |-> 0, quota |-> q] \in Rows
    BY DEF Rows
  <2>3. TypeOK'
    BY <1>1, <2>1, <2>2 DEF TypeInv, TypeOK, CreateUser, coreVars, lifeVars
  <2>4. \A b \in Admins : JobReady(b)'
    BY <1>1, <2>1 DEF TypeInv, TypeOK, JobReady, CreateUser
  <2> QED BY <1>1, <2>3, <2>4 DEF TypeInv, SeenReady, CreateUser, lifeVars
<1>2. ASSUME NEW u \in Users, NEW e \in BOOLEAN \cup {Keep}, NEW q \in Quotas \cup {Keep},
             PatchUser(a, u, e, q)
      PROVE  TypeInv'
  <2> DEFINE at == IF e \in {Keep, rows[u].enabled} THEN "update-read" ELSE "enable-read"
             j == [at |-> at, user |-> u, enabled |-> e, quota |-> NewQuota(u, q), snap |-> NoRow]
  <2>1. NewQuota(u, q) \in Quotas
    BY <1>2 DEF TypeInv, TypeOK, PatchUser, NewQuota, Rows
  <2>2. j \in Jobs
    BY <2>1 DEF Jobs, Steps
  <2>3. job' = [job EXCEPT ![a] = j]
    BY <1>2 DEF PatchUser
  <2>4. j.at = "enable-read" => j.enabled \in BOOLEAN
    OBVIOUS
  <2>5. j.at \in {"update-read", "enable-read"}
    OBVIOUS
  <2> HIDE DEF j
  <2>6. TypeOK'
    BY <1>2, <2>2, <2>3 DEF TypeInv, TypeOK, PatchUser, coreVars, lifeVars
  <2>7. \A b \in Admins : JobReady(b)'
    BY <2>2, <2>3, <2>4, <2>5 DEF TypeInv, TypeOK, JobReady
  <2> QED BY <1>2, <2>6, <2>7 DEF TypeInv, SeenReady, PatchUser, lifeVars
<1>3. ASSUME NEW u \in Users, DeleteUser(a, u) PROVE TypeInv'
  <2> DEFINE j == [at |-> "remove", user |-> u, enabled |-> Keep, quota |-> rows[u].quota,
                   snap |-> rows[u]]
  <2>1. j \in Jobs
    BY <1>3 DEF TypeInv, TypeOK, DeleteUser, Jobs, Steps, Rows
  <2>2. job' = [job EXCEPT ![a] = j]
    BY <1>3 DEF DeleteUser
  <2>3. j.at = "remove"
    OBVIOUS
  <2> HIDE DEF j
  <2>4. TypeOK'
    BY <1>3, <2>1, <2>2 DEF TypeInv, TypeOK, DeleteUser, coreVars, lifeVars
  <2>5. \A b \in Admins : JobReady(b)'
    BY <2>1, <2>2, <2>3 DEF TypeInv, TypeOK, JobReady
  <2> QED BY <1>3, <2>4, <2>5 DEF TypeInv, SeenReady, DeleteUser, lifeVars
<1> QED BY <1>1, <1>2, <1>3 DEF Request

(* A request that goes on, or returns, leaves ready jobs and typed rows.   *)
LEMMA RequestStepType ==
  ASSUME TypeInv, NEW a \in Admins, RequestStep(a)
  PROVE  TypeInv'
<1> DEFINE u == job[a].user
<1>0. job[a] # Idle /\ job[a] \in Jobs /\ u \in Users /\ TypeOK
  BY JobFact
  DEF TypeInv, RequestStep, At, AddToCore, UndoCreate, ReadForEnable, EnableInCore,
      EnableRow, ReadForUpdate, UpdateRow, RemoveFromCore, DeleteRow, Jobs
<1> HIDE DEF u
\* How the job may change ...
<1>1. ASSUME Return(a)
      PROVE  job' \in [Admins -> Jobs \cup {Idle}] /\ \A b \in Admins : JobReady(b)'
  BY <1>1, <1>0, Returned DEF TypeInv, JobReady
<1>2. ASSUME NEW step \in {"undo", "update-read", "delete-row"}, Goto(a, step)
      PROVE  job' \in [Admins -> Jobs \cup {Idle}] /\ \A b \in Admins : JobReady(b)'
  <2>1. step \in Steps /\ job[a].snap \in Rows \cup {NoRow}
    BY <1>0 DEF Steps, Jobs
  <2> QED BY <1>2, <1>0, <2>1, Moved DEF TypeInv, JobReady
<1>3. ASSUME At(a, "enable-core"), Goto(a, "enable-row")
      PROVE  job' \in [Admins -> Jobs \cup {Idle}] /\ \A b \in Admins : JobReady(b)'
  <2>1. job[a].snap \in Rows /\ job[a].enabled \in BOOLEAN
    BY <1>3 DEF TypeInv, JobReady, At
  <2>2. "enable-row" \in Steps
    BY DEF Steps
  <2> QED BY <1>3, <1>0, <2>1, <2>2, Moved DEF TypeInv, JobReady
<1>4. ASSUME NEW step \in {"enable-core", "update-row"}, rows[u] # NoRow,
             At(a, "enable-read") \/ step = "update-row", GotoWith(a, step, rows[u])
      PROVE  job' \in [Admins -> Jobs \cup {Idle}] /\ \A b \in Admins : JobReady(b)'
  <2>1. rows[u] \in Rows /\ step \in Steps
    BY <1>0, <1>4 DEF TypeOK, Steps
  <2>2. step = "enable-core" => job[a].enabled \in BOOLEAN
    BY <1>4 DEF TypeInv, JobReady, At
  <2> QED BY <1>4, <1>0, <2>1, <2>2, Moved DEF TypeInv, JobReady
\* ... and what each step does besides.
<1>5. CASE AddToCore(a)
  <2>1. mem \cup {u} \in SUBSET Users
    BY <1>0 DEF TypeOK
  <2>2. mem' \subseteq Users /\ file' \subseteq Users /\ spoiled' \subseteq Users
    BY <1>0, <1>5, <2>1, CoreType DEF AddToCore, u
  <2>3. Return(a) \/ Goto(a, "undo")
    BY <1>5 DEF AddToCore
  <2> QED BY <1>0, <1>1, <1>2, <1>5, <2>2, <2>3 DEF TypeInv, TypeOK, SeenReady, AddToCore, lifeVars
<1>6. CASE UndoCreate(a) \/ DeleteRow(a)
  <2>1. rows' \in [Users -> Rows \cup {NoRow}] /\ spoiled' \subseteq Users
    BY <1>0, <1>6, PutRowType DEF TypeOK, UndoCreate, DeleteRow, StoreFailed, u
  <2> QED BY <1>0, <1>1, <1>6, <2>1 DEF TypeInv, TypeOK, SeenReady, UndoCreate, DeleteRow, lifeVars
<1>7. CASE ReadForEnable(a)
  <2>1. job' \in [Admins -> Jobs \cup {Idle}] /\ \A b \in Admins : JobReady(b)'
    BY <1>1, <1>2, <1>4, <1>7 DEF ReadForEnable, u
  <2> QED BY <1>0, <1>7, <2>1 DEF TypeInv, TypeOK, SeenReady, ReadForEnable, coreVars, lifeVars
<1>8. CASE EnableInCore(a)
  <2>1. mem \cup {u} \in SUBSET Users /\ mem \ {u} \in SUBSET Users
    BY <1>0 DEF TypeOK
  <2>2. mem' \subseteq Users /\ file' \subseteq Users /\ spoiled' \subseteq Users
    BY <1>0, <1>8, <2>1, CoreType DEF EnableInCore, u
  <2>3. job' \in [Admins -> Jobs \cup {Idle}] /\ \A b \in Admins : JobReady(b)'
    BY <1>1, <1>3, <1>8 DEF EnableInCore
  <2> QED BY <1>0, <1>8, <2>2, <2>3 DEF TypeInv, TypeOK, SeenReady, EnableInCore, lifeVars
<1>9. CASE EnableRow(a)
  <2>1. [job[a].snap EXCEPT !.enabled = job[a].enabled] \in Rows
    BY <1>0, <1>9 DEF TypeInv, JobReady, EnableRow, At, Rows
  <2>2. rows' \in [Users -> Rows \cup {NoRow}] /\ spoiled' \subseteq Users
    BY <1>0, <1>9, <2>1, PutRowType DEF TypeOK, EnableRow, StoreFailed, u
  <2>3. job' \in [Admins -> Jobs \cup {Idle}] /\ \A b \in Admins : JobReady(b)'
    BY <1>1, <1>2, <1>9 DEF EnableRow
  <2> QED BY <1>0, <1>9, <2>2, <2>3 DEF TypeInv, TypeOK, SeenReady, EnableRow, lifeVars
<1>10. CASE ReadForUpdate(a)
  <2>1. job' \in [Admins -> Jobs \cup {Idle}] /\ \A b \in Admins : JobReady(b)'
    BY <1>1, <1>4, <1>10 DEF ReadForUpdate, u
  <2> QED BY <1>0, <1>10, <2>1 DEF TypeInv, TypeOK, SeenReady, ReadForUpdate, coreVars, lifeVars
<1>11. CASE UpdateRow(a)
  <2>1. [job[a].snap EXCEPT !.quota = job[a].quota] \in Rows
    BY <1>0, <1>11 DEF TypeInv, JobReady, UpdateRow, At, Rows, Jobs
  <2>2. rows' \in [Users -> Rows \cup {NoRow}]
    BY <1>0, <1>11, <2>1, PutRowType DEF TypeOK, UpdateRow, u
  <2> QED BY <1>0, <1>1, <1>11, <2>2 DEF TypeInv, TypeOK, SeenReady, UpdateRow, coreVars, lifeVars
<1>12. CASE RemoveFromCore(a)
  <2>1. mem \ {u} \in SUBSET Users
    BY <1>0 DEF TypeOK
  <2>2. mem' \subseteq Users /\ file' \subseteq Users /\ spoiled' \subseteq Users
    BY <1>0, <1>12, <2>1, CoreType DEF RemoveFromCore, u
  <2>3. Return(a) \/ Goto(a, "delete-row")
    BY <1>12 DEF RemoveFromCore
  <2> QED BY <1>0, <1>1, <1>2, <1>12, <2>2, <2>3 DEF TypeInv, TypeOK, SeenReady, RemoveFromCore, lifeVars
<1> QED
  BY <1>5, <1>6, <1>7, <1>8, <1>9, <1>10, <1>11, <1>12 DEF RequestStep

(* The poll, the lifecycle goroutine and a restart keep the types
   (traffic_service.go, lifecycle_service.go, main.go).                    *)
LEMMA OtherType ==
  ASSUME TypeInv, LifecycleStep \/ (\E u \in Users : AddTraffic(u)) \/ Restart
  PROVE  TypeInv'
<1>1. ASSUME NEW u \in Users, AddTraffic(u) PROVE TypeInv'
  <2>1. [rows[u] EXCEPT !.used = @ + 1] \in Rows
    BY <1>1 DEF TypeInv, TypeOK, AddTraffic, Rows
  <2>2. rows' \in [Users -> Rows \cup {NoRow}]
    BY <1>1, <2>1 DEF TypeInv, TypeOK, AddTraffic
  <2> QED BY <1>1, <2>2 DEF TypeInv, TypeOK, JobReady, SeenReady, AddTraffic, coreVars, lifeVars
<1>2. CASE CheckAll
  <2>1. due' \subseteq Enabled
    BY <1>2 DEF CheckAll
  <2>2. \A u \in due' : u \in Users /\ rows[u] \in Rows
    BY <2>1 DEF TypeInv, TypeOK, Enabled
  <2>3. seen' \in [Users -> Rows \cup {NoRow}] /\ SeenReady'
    BY <1>2, <2>2 DEF CheckAll, SeenReady, TypeInv, TypeOK
  <2>4. cutting' \subseteq due'
    BY <1>2 DEF TypeInv, TypeOK, CheckAll
  <2> QED BY <1>2, <2>2, <2>3, <2>4 DEF TypeInv, TypeOK, JobReady, CheckAll, coreVars
<1>3. ASSUME NEW u \in Users, CutUser(u) PROVE TypeInv'
  <2>1. mem \ {u} \in SUBSET Users
    BY DEF TypeInv, TypeOK
  <2>2. mem' \subseteq Users /\ file' \subseteq Users /\ spoiled' \subseteq Users
    BY <1>3, <2>1, CoreType DEF TypeInv, CutUser
  <2> QED BY <1>3, <2>2 DEF TypeInv, TypeOK, JobReady, SeenReady, CutUser
<1>4. ASSUME NEW u \in Users, CutRow(u) PROVE TypeInv'
  <2>1. [seen[u] EXCEPT !.enabled = FALSE] \in Rows
    BY <1>4 DEF TypeInv, TypeOK, SeenReady, CutRow, Rows
  <2>2. rows' \in [Users -> Rows \cup {NoRow}] /\ spoiled' \subseteq Users
    BY <1>4, <2>1, PutRowType DEF TypeInv, TypeOK, CutRow, StoreFailed
  <2>3. seen' \in [Users -> Rows \cup {NoRow}] /\ SeenReady'
    BY <1>4 DEF TypeInv, TypeOK, SeenReady, CutRow
  <2> QED BY <1>4, <2>2, <2>3 DEF TypeInv, TypeOK, JobReady, CutRow
<1>5. CASE Restart
  BY <1>5 DEF TypeInv, TypeOK, JobReady, SeenReady, Restart, Enabled, Interrupted, Jobs
<1> QED BY <1>1, <1>2, <1>3, <1>4, <1>5 DEF LifecycleStep

(* The types are inductive with what the steps rely on.                    *)
LEMMA TypeInductive == Spec => []TypeInv
<1>1. Init => TypeInv
  BY DEF Init, TypeInv, TypeOK, JobReady, SeenReady
<1>2. TypeInv /\ [Next]_vars => TypeInv'
  <2>1. TypeInv /\ Next => TypeInv'
    BY RequestType, RequestStepType, OtherType DEF Next
  <2>2. TypeInv /\ UNCHANGED vars => TypeInv'
    BY DEF TypeInv, TypeOK, JobReady, SeenReady, vars
  <2> QED BY <2>1, <2>2
<1> QED BY <1>1, <1>2, PTL DEF Spec

(* Every variable keeps its type, with any number of requests and every
   fault (all of Accounts).                                                *)
THEOREM TypeCorrect == Spec => []TypeOK
BY TypeInductive, PTL DEF TypeInv

-----------------------------------------------------------------------------
(* One request at a time (UserHandler).                                    *)
Serial == \A a, b \in Admins : a = b

(* What the request under way knows: who is about to be added has a row,
   who is about to lose the row has left the core, in memory and in the
   file, or was spoiled by the failure that is being undone
   (user_service.go).                                                      *)
JobSafe(a) ==
  /\ At(a, "undo") => job[a].user \in spoiled \/ job[a].user \notin mem \cup file
  /\ At(a, "add") \/ At(a, "enable-core") => rows[job[a].user] # NoRow
  /\ At(a, "delete-row") => job[a].user \notin mem \cup file

(* The table in memory is what the next successful call writes.            *)
KnownHasRow == \A u \in (mem \cup file) \ spoiled : rows[u] # NoRow

SerialInv ==
  /\ KnownHasRow
  /\ \A a \in Admins : JobSafe(a)

(* A step that keeps every row and adds nobody to the core keeps the
   promise, whatever the lifecycle goroutine and the poll do.              *)
LEMMA OtherSafe ==
  ASSUME TypeInv, SerialInv,
         LifecycleStep \/ (\E u \in Users : AddTraffic(u)) \/ Restart
  PROVE  SerialInv'
<1>1. ASSUME NEW u \in Users, AddTraffic(u) PROVE SerialInv'
  <2>1. \A v \in Users : rows[v] # NoRow => rows'[v] # NoRow
    <3>1. [rows[u] EXCEPT !.used = @ + 1] \in Rows
      BY <1>1 DEF TypeInv, TypeOK, AddTraffic, Rows
    <3> QED BY <1>1, <3>1, ConstantsAssumption DEF TypeInv, TypeOK, AddTraffic
  <2> QED
    BY <1>1, <2>1, JobFact
    DEF TypeInv, TypeOK, SerialInv, KnownHasRow, JobSafe, At, AddTraffic, coreVars, Jobs
<1>2. CASE CheckAll
  BY <1>2 DEF SerialInv, KnownHasRow, JobSafe, At, CheckAll, coreVars
<1>3. ASSUME NEW u \in Users, CutUser(u) PROVE SerialInv'
  BY <1>3 DEF SerialInv, KnownHasRow, JobSafe, At, CutUser, CoreOk, CoreFailed
<1>4. ASSUME NEW u \in Users, CutRow(u) PROVE SerialInv'
  <2>1. [seen[u] EXCEPT !.enabled = FALSE] \in Rows
    BY <1>4 DEF TypeInv, TypeOK, SeenReady, CutRow, Rows
  <2>2. \A v \in Users : rows[v] # NoRow => rows'[v] # NoRow
    BY <1>4, <2>1, ConstantsAssumption DEF TypeInv, TypeOK, CutRow, PutRow, StoreFailed
  <2>3. mem' = mem /\ file' = file /\ job' = job /\ spoiled \subseteq spoiled'
    BY <1>4 DEF CutRow, StoreFailed
  <2> QED
    BY <2>2, <2>3, JobFact
    DEF TypeInv, TypeOK, SerialInv, KnownHasRow, JobSafe, At, Jobs
<1>5. CASE Restart
  BY <1>5 DEF TypeInv, TypeOK, SerialInv, KnownHasRow, JobSafe, At, Restart, Enabled
<1> QED BY <1>1, <1>2, <1>3, <1>4, <1>5 DEF LifecycleStep

(* A new request changes no entry of the core and removes no row.          *)
LEMMA RequestSafe ==
  ASSUME TypeInv, SerialInv, NEW a \in Admins, Request(a)
  PROVE  SerialInv'
<1> USE ConstantsAssumption, IdleAssumption
<1>1. ASSUME NEW u \in Users, NEW q \in Quotas, CreateUser(a, u, q) PROVE SerialInv'
  <2> DEFINE j == [at |-> "add", user |-> u, enabled |-> Keep, quota |-> q, snap |-> NoRow]
  <2>1. j.at = "add" /\ j.user = u
    OBVIOUS
  <2>2. job' = [job EXCEPT ![a] = j]
    BY <1>1 DEF CreateUser
  <2> HIDE DEF j
  <2>3. rows' \in [Users -> Rows \cup {NoRow}] /\ rows'[u] # NoRow
    <3>1. [enabled |-> TRUE, used |-> 0, quota |-> q] \in Rows
      BY DEF Rows
    <3> QED BY <1>1, <3>1 DEF TypeInv, TypeOK, CreateUser
  <2>4. \A v \in Users : rows[v] # NoRow => rows'[v] # NoRow
    BY <1>1, <2>3 DEF TypeInv, TypeOK, CreateUser
  <2>5. mem' = mem /\ file' = file /\ spoiled' = spoiled
    BY <1>1 DEF CreateUser, coreVars
  <2> QED
    BY <2>1, <2>2, <2>3, <2>4, <2>5, JobFact
    DEF TypeInv, TypeOK, SerialInv, KnownHasRow, JobSafe, At, Jobs
<1>2. ASSUME NEW u \in Users, NEW e \in BOOLEAN \cup {Keep}, NEW q \in Quotas \cup {Keep},
             PatchUser(a, u, e, q)
      PROVE  SerialInv'
  <2>1. job'[a].at \in {"update-read", "enable-read"}
    BY <1>2 DEF TypeInv, TypeOK, PatchUser
  <2>2. \A b \in Admins \ {a} : job'[b] = job[b]
    BY <1>2 DEF TypeInv, TypeOK, PatchUser
  <2> QED
    BY <1>2, <2>1, <2>2 DEF SerialInv, KnownHasRow, JobSafe, At, PatchUser, coreVars
<1>3. ASSUME NEW u \in Users, DeleteUser(a, u) PROVE SerialInv'
  <2>1. job'[a].at = "remove"
    BY <1>3 DEF TypeInv, TypeOK, DeleteUser
  <2>2. \A b \in Admins \ {a} : job'[b] = job[b]
    BY <1>3 DEF TypeInv, TypeOK, DeleteUser
  <2> QED
    BY <1>3, <2>1, <2>2 DEF SerialInv, KnownHasRow, JobSafe, At, DeleteUser, coreVars
<1> QED BY <1>1, <1>2, <1>3 DEF Request

(* The steps of the only request: it adds to the core whom it knows to have
   a row, and takes the row only from whom it has removed.                 *)
LEMMA RequestStepSafe ==
  ASSUME TypeInv, SerialInv, Serial,
         NEW a \in Admins, RequestStep(a)
  PROVE  SerialInv'
<1> DEFINE u == job[a].user
<1>0. job[a] # Idle /\ job[a] \in Jobs /\ u \in Users /\ TypeOK
  BY JobFact
  DEF TypeInv, RequestStep, At, AddToCore, UndoCreate, ReadForEnable, EnableInCore,
      EnableRow, ReadForUpdate, UpdateRow, RemoveFromCore, DeleteRow, Jobs
<1>1. \A b \in Admins : b = a
  BY DEF Serial
<1>2. ASSUME Return(a) PROVE \A b \in Admins : JobSafe(b)'
  BY <1>0, <1>1, <1>2, Returned DEF JobSafe, At
<1>3. ASSUME NEW step \in {"update-read", "enable-row"}, Goto(a, step)
      PROVE  \A b \in Admins : JobSafe(b)'
  <2>1. step \in Steps /\ job[a].snap \in Rows \cup {NoRow}
    BY <1>0 DEF Steps, Jobs
  <2> QED BY <1>0, <1>1, <1>3, <2>1, Moved DEF JobSafe, At
<1>4. CASE AddToCore(a)
  <2>1. CASE CoreOk(mem \cup {u}, u) /\ Return(a)
    <3>1. \A b \in Admins : JobSafe(b)'
      BY <1>2, <2>1
    <3> QED BY <1>0, <1>4, <2>1, <3>1 DEF SerialInv, KnownHasRow, JobSafe, AddToCore, CoreOk
  <2>2. CASE CoreFailed(mem \cup {u}, u) /\ Goto(a, "undo")
    <3>1. "undo" \in Steps /\ job[a].snap \in Rows \cup {NoRow}
      BY <1>0 DEF Steps, Jobs
    <3>2. \A b \in Admins : JobSafe(b)'
      BY <1>0, <1>1, <2>2, <3>1, Moved DEF JobSafe, At, CoreFailed
    <3> QED BY <1>0, <1>4, <2>2, <3>2 DEF SerialInv, KnownHasRow, AddToCore, CoreFailed
  <2> QED BY <1>4, <2>1, <2>2 DEF AddToCore
<1>5. CASE UndoCreate(a)
  <2>1. u \in spoiled \/ u \notin mem \cup file
    BY <1>5 DEF SerialInv, JobSafe, UndoCreate
  <2>2. \A v \in Users \ {u} : rows[v] # NoRow => rows'[v] # NoRow
    BY <1>0, <1>5 DEF TypeOK, UndoCreate, PutRow, StoreFailed
  <2>3. \A b \in Admins : JobSafe(b)'
    BY <1>2, <1>5 DEF UndoCreate
  <2>4. mem' = mem /\ file' = file /\ spoiled \subseteq spoiled'
    BY <1>5 DEF UndoCreate, StoreFailed
  <2> QED BY <1>0, <2>1, <2>2, <2>3, <2>4 DEF TypeOK, SerialInv, KnownHasRow
<1>6. CASE ReadForEnable(a)
  <2>1. \A b \in Admins : JobSafe(b)'
    <3>1. CASE rows[u] # NoRow /\ GotoWith(a, "enable-core", rows[u])
      <4>1. rows[u] \in Rows \cup {NoRow} /\ "enable-core" \in Steps
        BY <1>0 DEF TypeOK, Steps
      <4> QED
        BY <1>0, <1>1, <1>6, <3>1, <4>1, Moved DEF JobSafe, At, ReadForEnable
    <3> QED BY <1>2, <1>3, <1>6, <3>1 DEF ReadForEnable
  <2> QED BY <1>6, <2>1 DEF SerialInv, KnownHasRow, ReadForEnable, coreVars
<1>7. CASE EnableInCore(a)
  <2>1. \A b \in Admins : JobSafe(b)'
    BY <1>2, <1>3, <1>7 DEF EnableInCore
  <2>2. rows[u] # NoRow
    BY <1>7 DEF SerialInv, JobSafe, EnableInCore
  <2> QED
    BY <1>0, <1>7, <2>1, <2>2 DEF SerialInv, KnownHasRow, EnableInCore, CoreOk, CoreFailed
<1>8. CASE EnableRow(a)
  <2>1. [job[a].snap EXCEPT !.enabled = job[a].enabled] \in Rows
    BY <1>0, <1>8 DEF TypeInv, JobReady, EnableRow, At, Rows
  <2>2. \A v \in Users : rows[v] # NoRow => rows'[v] # NoRow
    BY <1>0, <1>8, <2>1, ConstantsAssumption DEF TypeOK, EnableRow, PutRow, StoreFailed
  <2>3. \A b \in Admins : JobSafe(b)'
    BY <1>2, <1>3, <1>8 DEF EnableRow
  <2>4. mem' = mem /\ file' = file /\ spoiled \subseteq spoiled'
    BY <1>8 DEF EnableRow, StoreFailed
  <2> QED BY <1>0, <2>2, <2>3, <2>4 DEF TypeOK, SerialInv, KnownHasRow
<1>9. CASE ReadForUpdate(a)
  <2>1. \A b \in Admins : JobSafe(b)'
    <3>1. CASE GotoWith(a, "update-row", rows[u])
      <4>1. rows[u] \in Rows \cup {NoRow} /\ "update-row" \in Steps
        BY <1>0 DEF TypeOK, Steps
      <4> QED BY <1>0, <1>1, <3>1, <4>1, Moved DEF JobSafe, At
    <3> QED BY <1>2, <1>9, <3>1 DEF ReadForUpdate
  <2> QED BY <1>9, <2>1 DEF SerialInv, KnownHasRow, ReadForUpdate, coreVars
<1>10. CASE UpdateRow(a)
  <2>1. [job[a].snap EXCEPT !.quota = job[a].quota] \in Rows
    BY <1>0, <1>10 DEF TypeInv, JobReady, UpdateRow, At, Rows, Jobs
  <2>2. \A v \in Users : rows[v] # NoRow => rows'[v] # NoRow
    BY <1>0, <1>10, <2>1, ConstantsAssumption DEF TypeOK, UpdateRow, PutRow
  <2>3. \A b \in Admins : JobSafe(b)'
    BY <1>2, <1>10 DEF UpdateRow
  <2> QED BY <1>0, <1>10, <2>2, <2>3 DEF TypeOK, SerialInv, KnownHasRow, UpdateRow, coreVars
<1>11. CASE RemoveFromCore(a)
  <2>1. rows' = rows
    BY <1>11 DEF RemoveFromCore
  <2>2. CASE CoreOk(mem \ {u}, u) /\ Goto(a, "delete-row")
    <3>1. "delete-row" \in Steps /\ job[a].snap \in Rows \cup {NoRow}
      BY <1>0 DEF Steps, Jobs
    <3>2. \A b \in Admins : JobSafe(b)'
      BY <1>0, <1>1, <2>2, <3>1, Moved DEF JobSafe, At, CoreOk
    <3> QED BY <2>1, <2>2, <3>2 DEF SerialInv, KnownHasRow, CoreOk
  <2>3. CASE CoreFailed(mem \ {u}, u) /\ Return(a)
    <3>1. \A b \in Admins : JobSafe(b)'
      BY <1>2, <2>3
    <3> QED BY <2>1, <2>3, <3>1 DEF SerialInv, KnownHasRow, CoreFailed
  <2> QED BY <1>11, <2>2, <2>3 DEF RemoveFromCore
<1>12. CASE DeleteRow(a)
  <2>1. u \notin mem \cup file
    BY <1>12 DEF SerialInv, JobSafe, DeleteRow
  <2>2. \A v \in Users \ {u} : rows[v] # NoRow => rows'[v] # NoRow
    BY <1>0, <1>12 DEF TypeOK, DeleteRow, PutRow, StoreFailed
  <2>3. \A b \in Admins : JobSafe(b)'
    BY <1>2, <1>12 DEF DeleteRow
  <2>4. mem' = mem /\ file' = file /\ spoiled \subseteq spoiled'
    BY <1>12 DEF DeleteRow, StoreFailed
  <2> QED BY <1>0, <2>1, <2>2, <2>3, <2>4 DEF TypeOK, SerialInv, KnownHasRow
<1> QED
  BY <1>4, <1>5, <1>6, <1>7, <1>8, <1>9, <1>10, <1>11, <1>12 DEF RequestStep

(* The core serves nobody without a row, for one request at a time beside
   the lifecycle goroutine and the poll, with every fault, unless the last
   attempt at that very user failed or was cut short (user_service.go,
   lifecycle_service.go, main.go).                                         *)
THEOREM NobodyServedWithoutRow ==
  ASSUME Serial
  PROVE  Spec => []ServedHasRow
<1>1. Init => SerialInv
  BY DEF Init, SerialInv, KnownHasRow, JobSafe, At
<1>2. TypeInv /\ SerialInv /\ [Next]_vars => SerialInv'
  <2>1. TypeInv /\ SerialInv /\ Next => SerialInv'
    BY RequestSafe, RequestStepSafe, OtherSafe DEF Next
  <2>2. SerialInv /\ UNCHANGED vars => SerialInv'
    BY DEF SerialInv, KnownHasRow, JobSafe, At, vars
  <2> QED BY <2>1, <2>2
<1>3. SerialInv => ServedHasRow
  BY DEF SerialInv, KnownHasRow, ServedHasRow
<1> QED BY <1>1, <1>2, <1>3, TypeInductive, PTL DEF Spec

-----------------------------------------------------------------------------
(* One request at a time and no lifecycle goroutine: the core and the rows *)
(* agree on everybody but who is being worked on or was spoiled.           *)
On(v) == rows[v] # NoRow /\ rows[v].enabled

Agreed(v) == (v \in mem <=> On(v)) /\ (v \in file <=> On(v))

(* The core has been told and the row has not, or the other way round.     *)
Midway(a) ==
  job[a] # Idle /\ job[a].at \in {"add", "undo", "enable-row", "delete-row"}

(* What the request under way knows of its user (user_service.go).         *)
JobKnows(a) ==
  /\ At(a, "add") => On(job[a].user)
  /\ At(a, "undo") => job[a].user \in spoiled
  /\ At(a, "enable-core") => rows[job[a].user] # NoRow
  /\ At(a, "enable-row") =>
       /\ rows[job[a].user] # NoRow
       /\ job[a].user \in mem <=> job[a].enabled
       /\ job[a].user \in file <=> job[a].enabled
  /\ At(a, "update-row") => (job[a].snap.enabled <=> On(job[a].user))
  /\ At(a, "delete-row") => job[a].user \notin mem \cup file

AgreeInv ==
  /\ due = {} /\ cutting = {}
  /\ \A v \in Users \ spoiled : Agreed(v) \/ \E a \in Admins : Midway(a) /\ job[a].user = v
  /\ \A a \in Admins : JobKnows(a)

(* A call of the adapter for one user leaves the others as they were, or
   writes for them what the memory says.                                   *)
LEMMA OthersAgree ==
  ASSUME NEW v, Agreed(v), On(v)' <=> On(v), v \in mem' <=> v \in mem,
         (v \in file' <=> v \in file) \/ (v \in file' <=> v \in mem)
  PROVE  Agreed(v)'
BY DEF Agreed

LEMMA CoreOthers ==
  ASSUME NEW u, NEW t, t = mem \cup {u} \/ t = mem \ {u}, CoreOk(t, u) \/ CoreFailed(t, u),
         rows' = rows, NEW v, v # u
  PROVE  /\ On(v)' <=> On(v)
         /\ v \in mem' <=> v \in mem
         /\ (v \in file' <=> v \in file) \/ (v \in file' <=> v \in mem)
         /\ v \in spoiled' <=> v \in spoiled
BY DEF On, CoreOk, CoreFailed

LEMMA StoreOthers ==
  ASSUME TypeOK, NEW u \in Users, NEW row, PutRow(u, row) \/ rows' = rows,
         mem' = mem, file' = file, spoiled' = spoiled \/ spoiled' = spoiled \cup {u},
         NEW v \in Users, v # u
  PROVE  /\ On(v)' <=> On(v)
         /\ v \in mem' <=> v \in mem
         /\ (v \in file' <=> v \in file) \/ (v \in file' <=> v \in mem)
         /\ v \in spoiled' <=> v \in spoiled
<1>1. rows'[v] = rows[v]
  BY DEF TypeOK, PutRow
<1> QED
  BY <1>1 DEF On

(* A request begins: only a creation writes a row, of a user whom the core
   does not have.                                                          *)
LEMMA RequestAgrees ==
  ASSUME TypeInv, AgreeInv, NEW a \in Admins, Serial, Request(a)
  PROVE  AgreeInv'
<1> USE ConstantsAssumption, IdleAssumption
<1>0. \A b \in Admins : b = a
  BY DEF Serial
<1>1. job[a] = Idle /\ job \in [Admins -> Jobs \cup {Idle}]
  BY DEF Request, CreateUser, PatchUser, DeleteUser, TypeInv, TypeOK
<1>2. \A v \in Users \ spoiled : Agreed(v)
  BY <1>0, <1>1 DEF AgreeInv, Midway
<1>3. UNCHANGED <<mem, file, spoiled, due, cutting>>
  BY DEF Request, CreateUser, PatchUser, DeleteUser, coreVars, lifeVars
<1>4. ASSUME NEW u \in Users, NEW q \in Quotas, CreateUser(a, u, q) PROVE AgreeInv'
  <2> DEFINE j == [at |-> "add", user |-> u, enabled |-> Keep, quota |-> q, snap |-> NoRow]
             row == [enabled |-> TRUE, used |-> 0, quota |-> q]
  <2>1. j.at = "add" /\ j.user = u /\ j \in Jobs /\ row \in Rows /\ row.enabled
    BY DEF Jobs, Steps, Rows
  <2>2. job' = [job EXCEPT ![a] = j] /\ rows' = [rows EXCEPT ![u] = row]
    BY <1>4 DEF CreateUser
  <2> HIDE DEF j, row
  <2>3. job'[a] = j /\ j # Idle
    BY <1>1, <2>1, <2>2
  <2>4. rows'[u] = row /\ row # NoRow /\ \A v \in Users \ {u} : rows'[v] = rows[v]
    BY <2>1, <2>2 DEF TypeInv, TypeOK
  <2>5. JobKnows(a)'
    BY <2>1, <2>3, <2>4 DEF JobKnows, At, On
  <2>6. Midway(a)' /\ job'[a].user = u
    BY <2>1, <2>3 DEF Midway
  <2>7. \A v \in Users \ {u} : Agreed(v) => Agreed(v)'
    BY <1>3, <2>4 DEF Agreed, On
  <2> QED
    BY <1>0, <1>2, <1>3, <2>5, <2>6, <2>7 DEF AgreeInv
<1>5. CASE \/ \E u \in Users, e \in BOOLEAN \cup {Keep}, q \in Quotas \cup {Keep} : PatchUser(a, u, e, q)
           \/ \E u \in Users : DeleteUser(a, u)
  <2>1. rows' = rows /\ job'[a].at \in {"update-read", "enable-read", "remove"}
    BY <1>1, <1>5 DEF PatchUser, DeleteUser
  <2>2. JobKnows(a)'
    BY <2>1 DEF JobKnows, At
  <2>3. \A v \in Users : Agreed(v) => Agreed(v)'
    BY <1>3, <2>1 DEF Agreed, On
  <2> QED
    BY <1>0, <1>2, <1>3, <2>2, <2>3 DEF AgreeInv
<1> QED
  BY <1>4, <1>5 DEF Request

(* The steps of the only request.                                          *)
LEMMA RequestStepAgrees ==
  ASSUME TypeInv, AgreeInv, NEW a \in Admins, Serial, RequestStep(a)
  PROVE  AgreeInv'
<1> USE ConstantsAssumption, IdleAssumption
<1>15. job[a] # Idle /\ job[a] \in Jobs /\ job[a].user \in Users /\ TypeOK
  BY JobFact
  DEF TypeInv, RequestStep, At, AddToCore, UndoCreate, ReadForEnable, EnableInCore,
      EnableRow, ReadForUpdate, UpdateRow, RemoveFromCore, DeleteRow, Jobs
<1>16. PICK u \in Users : job[a].user = u
  BY <1>15
<1>0. job[a] # Idle /\ job[a] \in Jobs /\ job[a].user = u /\ u \in Users /\ TypeOK
  BY <1>15, <1>16
<1>1. \A b \in Admins : b = a
  BY DEF Serial
<1>2. /\ \A v \in Users \ {u} : v \notin spoiled => Agreed(v)
      /\ u \notin spoiled /\ ~Midway(a) => Agreed(u)
      /\ JobKnows(a)
  BY <1>0, <1>1 DEF AgreeInv
<1>3. due' = {} /\ cutting' = {}
  BY DEF AgreeInv, RequestStep, AddToCore, UndoCreate, ReadForEnable, EnableInCore,
         EnableRow, ReadForUpdate, UpdateRow, RemoveFromCore, DeleteRow, lifeVars
\* It is enough to look at the user of the request.
<1>4. SUFFICES
        /\ \A v \in Users \ {u} : /\ On(v)' <=> On(v)
                                  /\ v \in mem' <=> v \in mem
                                  /\ (v \in file' <=> v \in file) \/ (v \in file' <=> v \in mem)
                                  /\ v \in spoiled' <=> v \in spoiled
        /\ u \in spoiled' \/ Agreed(u)' \/ (Midway(a)' /\ job'[a].user = u)
        /\ JobKnows(a)'
  <2> SUFFICES ASSUME
        /\ \A v \in Users \ {u} : /\ On(v)' <=> On(v)
                                  /\ v \in mem' <=> v \in mem
                                  /\ (v \in file' <=> v \in file) \/ (v \in file' <=> v \in mem)
                                  /\ v \in spoiled' <=> v \in spoiled
        /\ u \in spoiled' \/ Agreed(u)' \/ (Midway(a)' /\ job'[a].user = u)
        /\ JobKnows(a)'
        PROVE AgreeInv'
    OBVIOUS
  <2>1. \A v \in Users \ {u} : v \notin spoiled' => Agreed(v)'
    BY <1>2, OthersAgree
  <2>2. \A v \in Users \ spoiled' : Agreed(v)' \/ \E b \in Admins : Midway(b)' /\ job'[b].user = v
    BY <2>1
  <2>3. \A b \in Admins : JobKnows(b)'
    BY <1>1
  <2> QED
    BY <1>3, <2>2, <2>3 DEF AgreeInv
<1>5. ASSUME Return(a) PROVE JobKnows(a)' /\ ~Midway(a)'
  BY <1>0, <1>5, Returned DEF JobKnows, At, Midway
<1>6. CASE AddToCore(a)
  <2>1. \A v \in Users \ {u} : /\ On(v)' <=> On(v)
                               /\ v \in mem' <=> v \in mem
                               /\ (v \in file' <=> v \in file) \/ (v \in file' <=> v \in mem)
                               /\ v \in spoiled' <=> v \in spoiled
    BY <1>0, <1>6, CoreOthers DEF AddToCore
  <2>2. On(u)' /\ u \in mem'
    BY <1>0, <1>2, <1>6 DEF JobKnows, AddToCore, On, CoreOk, CoreFailed
  <2>3. CASE CoreOk(mem \cup {u}, u) /\ Return(a)
    BY <1>5, <2>1, <2>2, <2>3 DEF CoreOk, Agreed
  <2>4. CASE CoreFailed(mem \cup {u}, u) /\ Goto(a, "undo")
    <3>1. "undo" \in Steps /\ job[a].snap \in Rows \cup {NoRow}
      BY <1>0 DEF Steps, Jobs
    <3>2. job'[a].at = "undo" /\ job'[a].user = u
      BY <1>0, <2>4, <3>1, Moved
    <3>3. u \in spoiled'
      BY <2>4 DEF CoreFailed
    <3>4. JobKnows(a)'
      BY <3>2, <3>3 DEF JobKnows, At
    <3> QED
      BY <2>1, <3>3, <3>4
  <2> QED
    BY <1>0, <1>6, <2>3, <2>4 DEF AddToCore
<1>7. CASE UndoCreate(a)
  <2>1. PutRow(u, NoRow) \/ rows' = rows
    BY <1>0, <1>7 DEF UndoCreate, StoreFailed
  <2>2. mem' = mem /\ file' = file /\ (spoiled' = spoiled \/ spoiled' = spoiled \cup {u})
    BY <1>0, <1>7 DEF UndoCreate, StoreFailed
  <2>3. u \in spoiled'
    BY <1>0, <1>2, <1>7, <2>2 DEF JobKnows, UndoCreate
  <2> QED
    BY <1>0, <1>5, <1>7, <2>1, <2>2, <2>3, StoreOthers DEF UndoCreate
<1>8. CASE DeleteRow(a)
  <2>1. PutRow(u, NoRow) \/ rows' = rows
    BY <1>0, <1>8 DEF DeleteRow, StoreFailed
  <2>2. mem' = mem /\ file' = file /\ (spoiled' = spoiled \/ spoiled' = spoiled \cup {u})
    BY <1>0, <1>8 DEF DeleteRow, StoreFailed
  <2>3. u \in spoiled' \/ rows'[u] = NoRow
    BY <1>0, <1>8 DEF DeleteRow, StoreFailed, PutRow, TypeOK
  <2>4. u \notin mem \cup file
    BY <1>0, <1>2, <1>8 DEF JobKnows, DeleteRow
  <2>5. u \in spoiled' \/ Agreed(u)'
    BY <2>2, <2>3, <2>4 DEF Agreed, On
  <2> QED
    BY <1>0, <1>5, <1>8, <2>1, <2>2, <2>5, StoreOthers DEF DeleteRow
<1>9. CASE ReadForEnable(a) \/ ReadForUpdate(a)
  <2>1. UNCHANGED <<rows, mem, file, spoiled>>
    BY <1>9 DEF ReadForEnable, ReadForUpdate, coreVars
  <2>2. ~Midway(a)
    BY <1>9 DEF ReadForEnable, ReadForUpdate, At, Midway
  <2>3. u \in spoiled' \/ Agreed(u)'
    BY <1>2, <2>1, <2>2 DEF Agreed, On
  <2>4. JobKnows(a)'
    <3>1. CASE Return(a)
      BY <1>5, <3>1
    <3>2. CASE Goto(a, "update-read")
      <4>1. "update-read" \in Steps /\ job[a].snap \in Rows \cup {NoRow}
        BY <1>0 DEF Steps, Jobs
      <4>2. job'[a].at = "update-read"
        BY <1>0, <3>2, <4>1, Moved
      <4> QED
        BY <4>2 DEF JobKnows, At
    <3>3. CASE rows[u] # NoRow /\ GotoWith(a, "enable-core", rows[u])
      <4>1. "enable-core" \in Steps /\ rows[u] \in Rows \cup {NoRow}
        BY <1>0 DEF Steps, TypeOK
      <4>2. job'[a].at = "enable-core" /\ job'[a].user = u
        BY <1>0, <3>3, <4>1, Moved
      <4> QED
        BY <2>1, <3>3, <4>2 DEF JobKnows, At
    <3>4. CASE rows[u] # NoRow /\ GotoWith(a, "update-row", rows[u])
      <4>1. "update-row" \in Steps /\ rows[u] \in Rows \cup {NoRow}
        BY <1>0 DEF Steps, TypeOK
      <4>2. job'[a].at = "update-row" /\ job'[a].user = u /\ job'[a].snap = rows[u]
        BY <1>0, <3>4, <4>1, Moved
      <4> QED
        BY <2>1, <3>4, <4>2 DEF JobKnows, At, On
    <3> QED
      BY <1>0, <1>9, <3>1, <3>2, <3>3, <3>4 DEF ReadForEnable, ReadForUpdate
  <2> QED
    BY <2>1, <2>3, <2>4 DEF On
<1>10. CASE EnableInCore(a)
  <2> DEFINE t == IF job[a].enabled THEN mem \cup {u} ELSE mem \ {u}
  <2>1. job[a].enabled \in BOOLEAN /\ rows' = rows /\ rows[u] # NoRow
    BY <1>0, <1>2, <1>10 DEF TypeInv, JobReady, JobKnows, EnableInCore, At
  <2>2. \/ CoreOk(t, u) /\ Goto(a, "enable-row")
        \/ CoreFailed(t, u) /\ Return(a)
    BY <1>0, <1>10 DEF EnableInCore
  <2>3. \A v \in Users \ {u} : /\ On(v)' <=> On(v)
                               /\ v \in mem' <=> v \in mem
                               /\ (v \in file' <=> v \in file) \/ (v \in file' <=> v \in mem)
                               /\ v \in spoiled' <=> v \in spoiled
    BY <2>1, <2>2, CoreOthers
  <2>4. CASE CoreFailed(t, u) /\ Return(a)
    <3>1. u \in spoiled'
      BY <2>4 DEF CoreFailed
    <3> QED
      BY <1>5, <2>3, <2>4, <3>1
  <2>5. CASE CoreOk(t, u) /\ Goto(a, "enable-row")
    <3>1. "enable-row" \in Steps /\ job[a].snap \in Rows \cup {NoRow}
      BY <1>0 DEF Steps, Jobs
    <3>2. /\ job'[a].at = "enable-row" /\ job'[a].user = u /\ job'[a].enabled = job[a].enabled
          /\ job'[a] # Idle
      <4>1. job'[a].at = "enable-row" /\ job'[a].user = u /\ job'[a].enabled = job[a].enabled
        BY <1>0, <2>5, <3>1, Moved
      <4>2. job' = [job EXCEPT ![a] = [job[a] EXCEPT !.at = "enable-row"]]
        BY <1>0, <2>5 DEF Goto, TypeOK
      <4>3. [job[a] EXCEPT !.at = "enable-row"] \in Jobs
        BY <1>0, <3>1 DEF Jobs
      <4>4. job'[a] = [job[a] EXCEPT !.at = "enable-row"]
        BY <1>0, <4>2 DEF TypeOK
      <4> QED
        BY <4>1, <4>3, <4>4
    <3>3. mem' = t /\ file' = t
      BY <2>5 DEF CoreOk
    <3>4. u \in t <=> job[a].enabled
      BY <2>1
    <3> HIDE DEF t
    <3>5. JobKnows(a)'
      BY <2>1, <3>2, <3>3, <3>4 DEF JobKnows, At
    <3>6. Midway(a)' /\ job'[a].user = u
      BY <3>2 DEF Midway
    <3> QED
      BY <2>3, <3>5, <3>6
  <2> QED
    BY <2>2, <2>4, <2>5
<1>11. CASE EnableRow(a)
  <2> DEFINE row == [job[a].snap EXCEPT !.enabled = job[a].enabled]
  <2>1. /\ row \in Rows /\ row.enabled = job[a].enabled
        /\ rows[u] # NoRow
        /\ u \in mem <=> job[a].enabled
        /\ u \in file <=> job[a].enabled
    BY <1>0, <1>2, <1>11 DEF TypeInv, JobReady, JobKnows, EnableRow, At, Rows
  <2>2. \/ PutRow(u, row) /\ spoiled' = spoiled /\ Goto(a, "update-read")
        \/ StoreFailed(u) /\ Return(a)
    BY <1>0, <1>11, <2>1 DEF EnableRow
  <2>3. mem' = mem /\ file' = file
    BY <1>11 DEF EnableRow
  <2> HIDE DEF row
  <2>4. CASE PutRow(u, row) /\ spoiled' = spoiled /\ Goto(a, "update-read")
    <3>1. rows'[u] = row /\ row # NoRow
      BY <1>0, <2>1, <2>4 DEF PutRow, TypeOK
    <3>2. Agreed(u)'
      BY <2>1, <2>3, <3>1 DEF Agreed, On
    <3>3. "update-read" \in Steps /\ job[a].snap \in Rows \cup {NoRow}
      BY <1>0 DEF Steps, Jobs
    <3>4. job'[a].at = "update-read"
      BY <1>0, <2>4, <3>3, Moved
    <3>5. JobKnows(a)'
      BY <3>4 DEF JobKnows, At
    <3> QED
      BY <1>0, <2>3, <2>4, <3>2, <3>5, StoreOthers
  <2>5. CASE StoreFailed(u) /\ Return(a)
    <3>1. u \in spoiled' /\ rows' = rows /\ spoiled' = spoiled \cup {u}
      BY <2>5 DEF StoreFailed
    <3> QED
      BY <1>0, <1>5, <2>3, <2>5, <3>1, StoreOthers
  <2> QED
    BY <2>2, <2>4, <2>5
<1>12. CASE UpdateRow(a)
  <2> DEFINE row == [job[a].snap EXCEPT !.quota = job[a].quota]
  <2>1. row \in Rows /\ row.enabled = job[a].snap.enabled /\ row # NoRow
    BY <1>0, <1>12 DEF TypeInv, JobReady, UpdateRow, At, Rows, Jobs
  <2>2. job[a].snap.enabled <=> On(u)
    BY <1>0, <1>2, <1>12 DEF JobKnows, UpdateRow
  <2>3. /\ PutRow(u, row) \/ rows' = rows
        /\ UNCHANGED <<mem, file, spoiled>> /\ Return(a)
    BY <1>0, <1>12 DEF UpdateRow, coreVars
  <2> HIDE DEF row
  <2>4. On(u)' <=> On(u)
    BY <1>0, <2>1, <2>2, <2>3 DEF On, PutRow, TypeOK
  <2>5. ~Midway(a)
    BY <1>12 DEF UpdateRow, At, Midway
  <2>6. u \in spoiled' \/ Agreed(u)'
    BY <1>2, <2>3, <2>4, <2>5 DEF Agreed
  <2> QED
    BY <1>0, <1>5, <2>3, <2>6, StoreOthers
<1>13. CASE RemoveFromCore(a)
  <2>1. \A v \in Users \ {u} : /\ On(v)' <=> On(v)
                               /\ v \in mem' <=> v \in mem
                               /\ (v \in file' <=> v \in file) \/ (v \in file' <=> v \in mem)
                               /\ v \in spoiled' <=> v \in spoiled
    BY <1>0, <1>13, CoreOthers DEF RemoveFromCore
  <2>2. CASE CoreFailed(mem \ {u}, u) /\ Return(a)
    <3>1. u \in spoiled'
      BY <2>2 DEF CoreFailed
    <3> QED
      BY <1>5, <2>1, <2>2, <3>1
  <2>3. CASE CoreOk(mem \ {u}, u) /\ Goto(a, "delete-row")
    <3>1. "delete-row" \in Steps /\ job[a].snap \in Rows \cup {NoRow}
      BY <1>0 DEF Steps, Jobs
    <3>2. job'[a].at = "delete-row" /\ job'[a].user = u
      BY <1>0, <2>3, <3>1, Moved
    <3>3. u \notin mem' \cup file'
      BY <2>3 DEF CoreOk
    <3>4. job'[a] # Idle
      <4>1. [job[a] EXCEPT !.at = "delete-row"] \in Jobs
        BY <1>0, <3>1 DEF Jobs
      <4>2. job'[a] = [job[a] EXCEPT !.at = "delete-row"]
        BY <1>0, <2>3 DEF Goto, TypeOK
      <4> QED
        BY <4>1, <4>2
    <3>5. JobKnows(a)' /\ Midway(a)'
      BY <3>2, <3>3, <3>4 DEF JobKnows, At, Midway
    <3> QED
      BY <2>1, <3>2, <3>5
  <2> QED
    BY <1>0, <1>13, <2>2, <2>3 DEF RemoveFromCore
<1> QED
  BY <1>6, <1>7, <1>8, <1>9, <1>10, <1>11, <1>12, <1>13 DEF RequestStep

(* The poll leaves the flag of a row alone; a restart puts every enabled
   user back, and spoils who was interrupted.                              *)
LEMMA OtherAgrees ==
  ASSUME TypeInv, AgreeInv, ~Lifecycle,
         LifecycleStep \/ (\E u \in Users : AddTraffic(u)) \/ Restart
  PROVE  AgreeInv'
<1> USE ConstantsAssumption, IdleAssumption
<1>1. ~LifecycleStep
  BY DEF LifecycleStep, CheckAll, CutUser, CutRow, AgreeInv
<1>2. ASSUME NEW u \in Users, AddTraffic(u) PROVE AgreeInv'
  <2>1. UNCHANGED <<mem, file, spoiled, job, due, cutting>>
    BY <1>2 DEF AddTraffic, coreVars, lifeVars
  <2>2. /\ rows[u] \in Rows /\ [rows[u] EXCEPT !.used = @ + 1] \in Rows
        /\ [rows[u] EXCEPT !.used = @ + 1].enabled = rows[u].enabled
    BY <1>2 DEF TypeInv, TypeOK, AddTraffic, Rows
  <2>3. \A v \in Users : rows'[v] = IF v = u THEN [rows[u] EXCEPT !.used = @ + 1] ELSE rows[v]
    BY <1>2 DEF TypeInv, TypeOK, AddTraffic
  <2>4. \A v \in Users : (On(v)' <=> On(v)) /\ (rows[v] # NoRow => rows'[v] # NoRow)
    BY <2>2, <2>3 DEF On
  <2>5. ASSUME NEW a \in Admins PROVE JobKnows(a)'
    <3>1. JobKnows(a)
      BY DEF AgreeInv
    <3>2. job[a] # Idle => job[a].user \in Users
      BY JobFact DEF TypeInv, Jobs
    <3> QED
      BY <2>1, <2>4, <3>1, <3>2 DEF JobKnows, At
  <2>6. \A v \in Users : Agreed(v) => Agreed(v)'
    BY <2>1, <2>4 DEF Agreed
  <2> QED
    BY <2>1, <2>5, <2>6 DEF AgreeInv, Midway
<1>3. CASE Restart
  <2>1. PICK missed \in SUBSET Enabled :
          /\ file' = file \cup (Enabled \ missed)
          /\ spoiled' = ((spoiled \cup Interrupted) \ Enabled) \cup missed
    BY <1>3 DEF Restart
  <2>2. /\ mem' = file \cup Enabled /\ rows' = rows
        /\ job' = [a \in Admins |-> Idle] /\ due' = {} /\ cutting' = {}
    BY <1>3 DEF Restart
  <2>3. ASSUME NEW v \in Users, v \notin spoiled' PROVE Agreed(v)'
    <3>1. v \in Enabled <=> On(v)
      BY DEF Enabled, On
    <3>2. CASE On(v)
      BY <2>1, <2>2, <2>3, <3>1, <3>2 DEF Agreed, On
    <3>3. CASE ~On(v)
      <4>1. v \notin spoiled /\ v \notin Interrupted
        BY <2>1, <2>3, <3>1, <3>3
      <4>2. \A a \in Admins : job[a] # Idle => job[a].user # v
        BY <4>1 DEF Interrupted
      <4>3. Agreed(v)
        BY <4>1, <4>2 DEF AgreeInv, Midway
      <4> QED
        BY <2>1, <2>2, <3>1, <3>3, <4>3 DEF Agreed, On
    <3> QED
      BY <3>2, <3>3
  <2>4. \A a \in Admins : JobKnows(a)'
    BY <2>2 DEF JobKnows, At
  <2> QED
    BY <2>2, <2>3, <2>4 DEF AgreeInv
<1> QED
  BY <1>1, <1>2, <1>3

(* With one request at a time and no lifecycle goroutine, whatever calls
   fail and wherever the panel is restarted: between requests a user is in
   the core's file exactly when the row is enabled, unless the last attempt
   at that very user failed or was cut short.                              *)
THEOREM OthersStayInStep ==
  ASSUME Serial, ~Lifecycle
  PROVE  Spec => []FailureSpoilsOnlyItsUser
<1>1. Init => AgreeInv
  BY DEF Init, AgreeInv, Agreed, On, JobKnows, At
<1>2. TypeInv /\ AgreeInv /\ [Next]_vars => AgreeInv'
  <2>1. TypeInv /\ AgreeInv /\ Next => AgreeInv'
    BY RequestAgrees, RequestStepAgrees, OtherAgrees DEF Next
  <2>2. AgreeInv /\ UNCHANGED vars => AgreeInv'
    BY DEF AgreeInv, Agreed, On, Midway, JobKnows, At, vars
  <2> QED
    BY <2>1, <2>2
<1>3. AgreeInv => FailureSpoilsOnlyItsUser
  BY DEF AgreeInv, Agreed, On, Midway, Enabled, FailureSpoilsOnlyItsUser
<1> QED
  BY <1>1, <1>2, <1>3, TypeInductive, PTL DEF Spec
=============================================================================
