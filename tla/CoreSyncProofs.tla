--------------------------- MODULE CoreSyncProofs ---------------------------
(***************************************************************************)
(* CoreSync for every set of users, credentials and callers, every bound   *)
(* and every set of faults: its types, the two promises about a change     *)
(* that was written, and that it implements UserTable.                     *)
(***************************************************************************)
EXTENDS CoreSync, TLAPS

(* ConfigManager.mu is a lock: one writer at a time is between the change of
   the map and the end of its write (config_manager.go mu).                *)
OneWriter == \A v, w \in Writers : Holds(v) /\ Holds(w) => v = w

(* While the panel starts nobody but main writes: first the constructor, which
   carries no change, then the sync.                                       *)
BootAlone ==
  /\ proc \in {"cold", "warm"} <=> Holds(Boot) /\ req[Boot] = NoReq
  /\ pc[Boot] # "idle" => proc \in {"cold", "warm", "syncing"}
  /\ proc # "up" => \A w \in Callers : pc[w] = "idle"
  /\ \A w \in Writers : pc[w] = "idle" => req[w] = NoReq

(* Whoever is in a call has a change, and finds it in the map while he holds
   the lock.                                                               *)
OwnChange ==
  \A w \in Writers :
    /\ pc[w] = "written" \/ (w # Boot /\ Holds(w)) => req[w] # NoReq
    /\ req[w] # NoReq =>
         req[w] \in Changes /\ (Holds(w) => users[req[w].user] = req[w].creds)

(* A change that was written is also in the map, so the next write keeps it. *)
AckedInMemory ==
  proc # "down" => \A u \in Users : acked[u] # Unknown => users[u] = acked[u]

(* What was written was in the last whole file (a torn one holds nothing).  *)
AckedInLastFile == \A u \in Users : acked[u] # Unknown => fileUsers[u] = acked[u]

(* Nothing was written before the file exists.                             *)
AbsentMeansFresh == fileState = "absent" => \A u \in Users : acked[u] = Unknown

(* A table the core has read holds every written change, unless a newer read
   is on its way or missed: the core takes one reload at a time.           *)
LoadingIsCurrent ==
  loading # Nothing /\ ~Asking /\ ~missed =>
    \A u \in Users : acked[u] # Unknown => loading[u] = acked[u]

IInv ==
  /\ TypeOK
  /\ OneWriter
  /\ BootAlone
  /\ OwnChange
  /\ AckedInMemory
  /\ AbsentMeansFresh
  /\ AckedInLastFile
  /\ AckedServedOrPending
  /\ LoadingIsCurrent

-----------------------------------------------------------------------------
(* The table a call leaves is a table (AddUser, RemoveUser).               *)
LEMMA EnterType ==
  ASSUME TypeOK, NEW w \in Writers, NEW u \in Users, NEW c \in Creds \cup {NoCreds},
         Enter(w, u, c), rows' \in Tables, toSync' \subseteq Users, ops' \in Nat
  PROVE  TypeOK'
BY DEF TypeOK, Enter, Tables, Changes, Phases

(* The table without users is a table (NewConfigManager).                   *)
LEMMA NoUsersTable == NoUsers \in Tables
BY DEF NoUsers, Tables

(* A row that is saved leaves a store (CreateUser, SetEnabled, DeleteUser). *)
LEMMA SavedRow ==
  ASSUME NEW R \in Tables, NEW u \in Users, NEW c \in Creds \cup {NoCreds}
  PROVE  [R EXCEPT ![u] = c] \in Tables
BY DEF Tables

(* The sync starts with users of the store (main.go syncEnabledUsers).      *)
LEMMA StartSyncType == StartSync => proc' = "syncing" /\ toSync' \subseteq Users /\ rows' = rows
<1> SUFFICES ASSUME StartSync PROVE toSync' \subseteq Users
  BY DEF StartSync
<1>1. toSync' = {u \in Users : rows[u] # NoCreds} \/ toSync' = {}
  BY DEF StartSync
<1> QED BY <1>1

(* A failed write keeps the types.                                          *)
LEMMA FailedType ==
  ASSUME TypeOK, BootAlone, OwnChange, NEW w \in Writers, Holds(w), Failed(w)
  PROVE  /\ proc' \in {"down", "cold", "warm", "syncing", "up"}
         /\ rows' \in Tables
         /\ toSync' \subseteq Users
         /\ pc' \in [Writers -> Phases]
         /\ req' \in [Writers -> Changes \cup {NoReq}]
<1>1. pc' \in [Writers -> Phases] /\ req' \in [Writers -> Changes \cup {NoReq}]
  BY DEF Failed, TypeOK, Phases
<1>2. CASE proc = "up"
  <2>1. w # Boot
    BY <1>2, ConstantsAssumption DEF BootAlone, Holds, Writers
  <2>2. req[w] \in Changes
    BY <2>1 DEF OwnChange
  <2>3. req[w].user \in Users
    BY <2>2 DEF Changes
  <2>4. [rows EXCEPT ![req[w].user] = NoCreds] \in Tables
    BY <2>3, SavedRow DEF TypeOK
  <2> QED BY <1>1, <1>2, <2>4 DEF Failed, TypeOK
<1>3. CASE proc # "up"
  BY <1>1, <1>3, StartSyncType DEF Failed, TypeOK, panel
<1> QED BY <1>2, <1>3

(* Every step keeps the types.                                             *)
LEMMA TypeStep == TypeOK /\ BootAlone /\ OwnChange /\ [Next]_vars => TypeOK'
<1> USE ConstantsAssumption
<1> SUFFICES ASSUME TypeOK, BootAlone, OwnChange, [Next]_vars PROVE TypeOK'
  OBVIOUS
<1>1. ASSUME NEW w \in Callers, NEW u \in Users, AddUser(w, u) \/ RemoveUser(w, u)
      PROVE  TypeOK'
  <2>1. PICK c \in Creds \cup {NoCreds} :
          Change(w, u, c) /\ rows' \in {rows, [rows EXCEPT ![u] = c]}
    BY <1>1 DEF AddUser, RemoveUser
  <2>2. [rows EXCEPT ![u] = c] \in Tables
    BY SavedRow DEF TypeOK
  <2>3. rows' \in Tables
    BY <2>1, <2>2 DEF TypeOK
  <2>4. ops' \in Nat /\ toSync' \subseteq Users
    BY <2>1 DEF Change, TypeOK
  <2> QED BY <2>1, <2>3, <2>4, EnterType DEF Change, Writers
<1>2. ASSUME NEW w \in Writers, WriterStep(w) PROVE TypeOK'
  <2>1. CASE WriteRefused(w)
    <3>1. Holds(w)
      BY <2>1 DEF WriteRefused, Holds
    <3> QED BY <2>1, <3>1, FailedType DEF TypeOK, WriteRefused, Failed
  <2>2. CASE Truncate(w)
    BY <2>2 DEF TypeOK, Truncate, Phases, panel
  <2>3. CASE WriteShort(w)
    <3>1. Holds(w)
      BY <2>3 DEF WriteShort, Holds
    <3> QED BY <2>3, <3>1, FailedType DEF TypeOK, WriteShort, Failed
  <2>4. CASE WriteDone(w)
    BY <2>4 DEF TypeOK, OwnChange, WriteDone, Written, Changes, Phases, panel
  <2>5. CASE ArmReload(w)
    <3>1. req[w] \in Changes
      BY <2>5 DEF OwnChange, ArmReload, Return
    <3>2. [rows EXCEPT ![req[w].user] = req[w].creds] \in Tables
      BY <3>1, SavedRow DEF Changes, TypeOK
    <3> QED BY <2>5, <3>2 DEF TypeOK, ArmReload, Return, Phases
  <2> QED BY <1>2, <2>1, <2>2, <2>3, <2>4, <2>5 DEF WriterStep
<1>3. CASE Fire
  <2>1. firing' \in Nat
    BY <1>3 DEF TypeOK, Fire
  <2>2. timer' \in BOOLEAN
    BY <1>3 DEF Fire
  <2> QED BY <1>3, <2>1, <2>2 DEF TypeOK, Fire, panel
<1>4. CASE ReloadRead
  <2>1. firing' \in Nat
    BY <1>4 DEF TypeOK, ReloadRead
  <2>2. missed' \in BOOLEAN
    BY <1>4 DEF ReloadRead
  <2> QED BY <1>4, <2>1, <2>2 DEF TypeOK, ReloadRead, panel
<1>11. CASE ReloadOk \/ LoadFailed
  <2>1. core' \in Tables
    BY <1>11 DEF TypeOK, ReloadOk, LoadFailed
  <2> QED BY <1>11, <2>1 DEF TypeOK, ReloadOk, LoadFailed, panel
<1>5. CASE ReloadFailed
  <2>1. firing' \in Nat
    BY <1>5 DEF TypeOK, ReloadFailed
  <2>2. missed' \in BOOLEAN
    BY <1>5 DEF ReloadFailed
  <2> QED BY <1>5, <2>1, <2>2 DEF TypeOK, ReloadFailed, panel
<1>6. CASE CoreRestart
  <2>1. core' \in Tables
    BY <1>6, NoUsersTable DEF TypeOK, CoreRestart
  <2> QED BY <1>6, <2>1 DEF TypeOK, CoreRestart, panel
<1>7. CASE Crash
  <2>1. /\ users' \in Tables
        /\ pc' \in [Writers -> Phases]
        /\ req' \in [Writers -> Changes \cup {NoReq}]
    BY <1>7, NoUsersTable DEF Crash, Phases
  <2>2. missed' \in BOOLEAN
    BY <1>7 DEF Crash
  <2> QED BY <1>7, <2>1, <2>2 DEF TypeOK, Crash
<1>8. CASE Start
  BY <1>8 DEF TypeOK, Start, Phases, Writers
<1>9. CASE BootDone
  BY <1>9, StartSyncType DEF TypeOK, BootDone, Written, Phases, Writers
<1>12. ASSUME NEW u \in Users, SyncUser(u) PROVE TypeOK'
  <2>1. rows[u] \in Creds \cup {NoCreds} /\ rows' \in Tables /\ ops' \in Nat
    BY <1>12 DEF SyncUser, TypeOK, Tables
  <2>2. toSync' \subseteq Users
    BY <1>12 DEF SyncUser, TypeOK
  <2> QED BY <1>12, <2>1, <2>2, EnterType DEF SyncUser, Writers
<1>13. CASE SyncDone
  BY <1>13 DEF TypeOK, SyncDone
<1>10. CASE UNCHANGED vars
  BY <1>10 DEF TypeOK, vars
<1> QED
  BY <1>1, <1>2, <1>3, <1>4, <1>5, <1>6, <1>7, <1>8, <1>9, <1>10, <1>11, <1>12, <1>13
  DEF Next, Call, SyncStep

(* The initial state has the types.                                        *)
LEMMA TypeInit == Init => TypeOK
<1> SUFFICES ASSUME Init PROVE TypeOK
  OBVIOUS
<1>1. users \in Tables /\ rows \in Tables /\ fileUsers \in Tables /\ core \in Tables
  BY DEF Init, Tables, NoUsers
<1>2. pc \in [Writers -> Phases] /\ req \in [Writers -> Changes \cup {NoReq}]
  BY DEF Init, Phases
<1>3. acked \in [Users -> Creds \cup {NoCreds, Unknown}]
  BY DEF Init
<1> QED BY <1>1, <1>2, <1>3 DEF Init, TypeOK

-----------------------------------------------------------------------------
(* A writer takes the lock only when it is free, and main takes it only in a
   process nobody calls yet.                                               *)
LEMMA LockStep ==
  TypeOK /\ OneWriter /\ BootAlone /\ OwnChange /\ [Next]_vars => OneWriter' /\ BootAlone'
<1> USE ConstantsAssumption DEF Writers, Holds, OneWriter, BootAlone
<1> SUFFICES ASSUME TypeOK, OneWriter, BootAlone, OwnChange, [Next]_vars
             PROVE  OneWriter' /\ BootAlone'
  OBVIOUS
<1> USE DEF TypeOK
<1>1. ASSUME NEW w \in Callers, NEW u \in Users, NEW c \in Creds \cup {NoCreds},
             Change(w, u, c)
      PROVE  OneWriter' /\ BootAlone'
  BY <1>1 DEF Change, Enter, LockFree
<1>2. ASSUME NEW w \in Writers, WriterStep(w)
      PROVE  OneWriter' /\ BootAlone'
  <2>1. CASE WriteRefused(w)
    BY <2>1 DEF WriteRefused, Failed, StartSync, panel
  <2>2. CASE Truncate(w)
    BY <2>2 DEF Truncate, panel
  <2>3. CASE WriteShort(w)
    BY <2>3 DEF WriteShort, Failed, StartSync, panel
  <2>4. CASE WriteDone(w)
    BY <2>4 DEF WriteDone, Written, panel
  <2>5. CASE ArmReload(w)
    BY <2>5 DEF ArmReload, Return
  <2> QED BY <1>2, <2>1, <2>2, <2>3, <2>4, <2>5 DEF WriterStep
<1>4. CASE Fire \/ ReloadRead \/ ReloadOk \/ ReloadFailed \/ LoadFailed \/ CoreRestart
  BY <1>4
  DEF Fire, ReloadRead, ReloadOk, ReloadFailed, LoadFailed, CoreRestart, panel
<1>5. CASE Crash
  BY <1>5 DEF Crash
<1>6. CASE Start
  <2>1. \A w \in Writers : pc[w] = "idle" /\ req[w] = NoReq
    BY <1>6 DEF Start
  <2> QED BY <1>6, <2>1 DEF Start
<1>7. CASE BootDone
  BY <1>7 DEF BootDone, Written, StartSync
<1>8. ASSUME NEW u \in Users, SyncUser(u) PROVE OneWriter' /\ BootAlone'
  <2>1. [user |-> u, creds |-> rows[u]] # NoReq
    BY DEF Tables, Changes
  <2> QED BY <1>8, <2>1 DEF SyncUser, Enter, LockFree
<1>9. CASE SyncDone
  BY <1>9 DEF SyncDone
<1>10. CASE UNCHANGED vars
  BY <1>10 DEF vars
<1> QED
  BY <1>1, <1>2, <1>4, <1>5, <1>6, <1>7, <1>8, <1>9, <1>10
  DEF Next, Call, AddUser, RemoveUser, SyncStep

(* Nobody changes the map while a writer is between its change and the end
   of its write.                                                           *)
LEMMA OwnChangeStep ==
  TypeOK /\ OneWriter /\ BootAlone /\ OwnChange /\ [Next]_vars => OwnChange'
<1> USE ConstantsAssumption DEF Writers, Holds, OwnChange
<1> SUFFICES ASSUME TypeOK, OneWriter, BootAlone, OwnChange, [Next]_vars
             PROVE  OwnChange'
  OBVIOUS
<1> USE DEF TypeOK
<1>1. ASSUME NEW w \in Writers, NEW u \in Users, NEW c \in Creds \cup {NoCreds},
             Enter(w, u, c)
      PROVE  OwnChange'
  <2>1. [user |-> u, creds |-> c] \in Changes /\ [user |-> u, creds |-> c] # NoReq
    BY DEF Changes
  <2> QED BY <1>1, <2>1 DEF Enter, LockFree, Tables
<1>2. ASSUME NEW w \in Writers, WriterStep(w)
      PROVE  OwnChange'
  <2>1. CASE WriteRefused(w) \/ WriteShort(w)
    BY <2>1 DEF WriteRefused, WriteShort, Failed
  <2>2. CASE Truncate(w)
    BY <2>2 DEF Truncate
  <2>3. CASE WriteDone(w)
    BY <2>3 DEF WriteDone, Written
  <2>4. CASE ArmReload(w)
    BY <2>4 DEF ArmReload, Return
  <2> QED BY <1>2, <2>1, <2>2, <2>3, <2>4 DEF WriterStep
<1>4. CASE Fire \/ ReloadRead \/ ReloadOk \/ ReloadFailed \/ LoadFailed \/ CoreRestart
  BY <1>4 DEF Fire, ReloadRead, ReloadOk, ReloadFailed, LoadFailed, CoreRestart
<1>5. CASE Crash
  BY <1>5 DEF Crash
<1>6. CASE Start
  BY <1>6 DEF Start, BootAlone
<1>7. CASE BootDone
  BY <1>7 DEF BootDone, Written
<1>8. ASSUME NEW u \in Users, SyncUser(u) PROVE OwnChange'
  BY <1>8, <1>1 DEF SyncUser, Tables
<1>9. CASE SyncDone
  BY <1>9 DEF SyncDone
<1>10. CASE UNCHANGED vars
  BY <1>10 DEF vars
<1> QED
  BY <1>1, <1>2, <1>4, <1>5, <1>6, <1>7, <1>8, <1>9, <1>10
  DEF Next, Call, AddUser, RemoveUser, Change, SyncStep

-----------------------------------------------------------------------------
(* What was written stays in the map and in the file, over failed calls,
   crashes and restarts.                                                   *)
LEMMA AckedStep ==
  /\ TypeOK /\ BootAlone /\ OwnChange
  /\ AckedInMemory /\ AbsentMeansFresh /\ AckedInLastFile
  /\ [Next]_vars
  => AckedInMemory' /\ AbsentMeansFresh' /\ AckedInLastFile'
<1> DEFINE Goal == AckedInMemory' /\ AbsentMeansFresh' /\ AckedInLastFile'
<1> USE ConstantsAssumption
    DEF Writers, Holds, AckedInMemory, AbsentMeansFresh, AckedInLastFile
<1> SUFFICES ASSUME TypeOK, BootAlone, OwnChange,
                    AckedInMemory, AbsentMeansFresh, AckedInLastFile, [Next]_vars
             PROVE  Goal
  OBVIOUS
<1> USE DEF TypeOK
<1>1. ASSUME NEW w \in Writers, NEW u \in Users, NEW c \in Creds \cup {NoCreds},
             Enter(w, u, c)
      PROVE  Goal
  BY <1>1 DEF Enter, Tables
<1>2. ASSUME NEW w \in Writers, WriteDone(w)
      PROVE  Goal
  <2>1. proc # "down" /\ req[w] \in Changes /\ users[req[w].user] = req[w].creds
    BY <1>2 DEF WriteDone, Written, BootAlone, OwnChange
  <2>2. acked' = [acked EXCEPT ![req[w].user] = req[w].creds] /\ users' = users
        /\ fileUsers' = users /\ fileState' = "ok" /\ proc' = proc
    BY <1>2 DEF WriteDone, Written, panel
  <2> QED BY <2>1, <2>2 DEF Changes
<1>3. ASSUME NEW w \in Writers, ArmReload(w)
      PROVE  Goal
  BY <1>3 DEF ArmReload, Return
<1>4. ASSUME NEW w \in Writers, WriteRefused(w) \/ WriteShort(w) \/ Truncate(w)
      PROVE  Goal
  BY <1>4
  DEF WriteRefused, WriteShort, Failed, StartSync, Truncate, BootAlone, panel
<1>5. CASE Fire \/ ReloadRead \/ ReloadOk \/ ReloadFailed \/ LoadFailed \/ CoreRestart
  BY <1>5
  DEF Fire, ReloadRead, ReloadOk, ReloadFailed, LoadFailed, CoreRestart, panel
<1>6. CASE Crash
  BY <1>6 DEF Crash
<1>7. CASE Start
  BY <1>7 DEF Start
<1>8. CASE BootDone
  BY <1>8 DEF BootDone, Written, StartSync, BootAlone
<1>9. ASSUME NEW u \in Users, SyncUser(u) PROVE Goal
  BY <1>9, <1>1 DEF SyncUser, Tables
<1>10. CASE SyncDone
  BY <1>10 DEF SyncDone
<1>11. CASE UNCHANGED vars
  BY <1>11 DEF vars
<1> QED
  BY <1>1, <1>2, <1>3, <1>4, <1>5, <1>6, <1>7, <1>8, <1>9, <1>10, <1>11
  DEF Next, Call, WriterStep, AddUser, RemoveUser, Change, SyncStep

(* A written change stays served, or on its way, or counted as missed.     *)
LEMMA ServedStep ==
  /\ TypeOK /\ BootAlone /\ OwnChange
  /\ AckedInLastFile /\ AckedServedOrPending /\ LoadingIsCurrent
  /\ [Next]_vars
  => AckedServedOrPending' /\ LoadingIsCurrent'
<1> DEFINE Goal == AckedServedOrPending' /\ LoadingIsCurrent'
<1> USE ConstantsAssumption
    DEF Writers, AckedServedOrPending, LoadingIsCurrent, Pending, Asking, Writing
<1> SUFFICES ASSUME TypeOK, BootAlone, OwnChange, AckedInLastFile,
                    AckedServedOrPending, LoadingIsCurrent, [Next]_vars
             PROVE  Goal
  OBVIOUS
<1> USE DEF TypeOK
<1>1. ASSUME NEW w \in Writers, NEW u \in Users, NEW c \in Creds \cup {NoCreds},
             Enter(w, u, c)
      PROVE  Goal
  <2>1. \A v \in Writers : pc[v] \in {"writing", "written"} =>
          v # w /\ pc'[v] = pc[v] /\ req'[v] = req[v]
    BY <1>1 DEF Enter
  <2>2. Asking => Asking'
    BY <2>1, <1>1 DEF Enter
  <2> QED BY <1>1, <2>2 DEF Enter
<1>2. ASSUME NEW w \in Writers, WriteDone(w)
      PROVE  Goal
  <2>1. pc'[w] = "written"
    BY <1>2 DEF WriteDone, Written
  <2> QED BY <2>1
<1>14. ASSUME NEW w \in Writers, ArmReload(w)
      PROVE  Goal
  BY <1>14 DEF ArmReload
<1>3. ASSUME NEW w \in Writers, WriteRefused(w) \/ Truncate(w) \/ WriteShort(w)
      PROVE  Goal
  <2>1. CASE WriteRefused(w)
    <3>1. \A v \in Writers : pc[v] \in {"writing", "written"} =>
            v # w /\ pc'[v] = pc[v] /\ req'[v] = req[v]
      BY <2>1 DEF WriteRefused, Failed
    <3>2. Asking => Asking'
      BY <3>1, <2>1 DEF WriteRefused, Failed
    <3> QED BY <2>1, <3>2 DEF WriteRefused, Failed
  <2>2. CASE Truncate(w)
    BY <2>2 DEF Truncate
  <2>3. CASE WriteShort(w)
    BY <2>3 DEF WriteShort
  <2> QED BY <1>3, <2>1, <2>2, <2>3
<1>4. CASE Fire
  BY <1>4 DEF Fire
<1>5. CASE ReloadRead
  <2>1. loading' = fileUsers /\ loading' # Nothing /\ acked' = acked
    BY <1>5 DEF ReloadRead
  <2> QED BY <2>1 DEF AckedInLastFile
<1>6. CASE ReloadFailed
  <2>1. CASE missed'
    BY <2>1
  <2>2. CASE ~missed'
    <3>1. PICK w \in Writers : Writing(w)
      BY <1>6, <2>2 DEF ReloadFailed
    <3> QED BY <1>6, <3>1 DEF ReloadFailed
  <2> QED BY <2>1, <2>2
<1>7. CASE CoreRestart
  BY <1>7 DEF CoreRestart, AckedInLastFile
<1>8. CASE Crash
  BY <1>8 DEF Crash
<1>9. CASE Start
  <2>1. \A v \in Writers : pc[v] = "idle"
    BY <1>9 DEF Start, BootAlone
  <2>2. Asking => Asking'
    BY <1>9, <2>1 DEF Start
  <2> QED BY <1>9, <2>2 DEF Start
<1>10. CASE BootDone
  <2>1. ~Writing(Boot) /\ pc[Boot] # "written"
    BY <1>10 DEF BootDone, Written
  <2>2. Asking => Asking'
    BY <1>10, <2>1 DEF BootDone, Written
  <2> QED BY <1>10, <2>2 DEF BootDone, Written
<1>11. CASE ReloadOk
  BY <1>11 DEF ReloadOk
<1>12. CASE LoadFailed
  BY <1>12 DEF LoadFailed
<1>15. ASSUME NEW u \in Users, SyncUser(u) PROVE Goal
  BY <1>15, <1>1 DEF SyncUser, Tables
<1>16. CASE SyncDone
  BY <1>16 DEF SyncDone
<1>13. CASE UNCHANGED vars
  BY <1>13 DEF vars
<1> QED
  BY <1>1, <1>2, <1>3, <1>4, <1>5, <1>6, <1>7, <1>8, <1>9, <1>10, <1>11, <1>12, <1>13,
     <1>14, <1>15, <1>16
  DEF Next, Call, WriterStep, AddUser, RemoveUser, Change, SyncStep

-----------------------------------------------------------------------------
(* The inductive invariant.                                                *)
LEMMA Inductive == Spec => []IInv
<1>1. Init => IInv
  <2> SUFFICES ASSUME Init PROVE IInv
    OBVIOUS
  <2>1. TypeOK
    BY TypeInit
  <2> QED
    BY <2>1, ConstantsAssumption
    DEF IInv, Init, Writers, Holds, OneWriter, BootAlone, OwnChange, AckedInMemory,
        AbsentMeansFresh, AckedInLastFile, AckedServedOrPending, LoadingIsCurrent
<1>2. IInv /\ [Next]_vars => IInv'
  BY TypeStep, LockStep, OwnChangeStep, AckedStep, ServedStep DEF IInv
<1> QED BY <1>1, <1>2, PTL DEF Spec

(* Every variable keeps its type (all of CoreSync).                        *)
THEOREM TypeCorrect == Spec => []TypeOK
BY Inductive, PTL DEF IInv

(* A file that is whole holds every change that was written, whatever fails
   in between (config_manager.go AddUser, RemoveUser, loadUsersFromConfig). *)
THEOREM WrittenChangeIsKept == Spec => []AckedInFile
<1>1. IInv => AckedInFile
  BY DEF IInv, AckedInLastFile, AckedInFile
<1> QED BY <1>1, Inductive, PTL

(* A change that was written is served, on its way, or was missed with nothing
   written since (adapter.go reload, executeReload, main.go syncEnabledUsers). *)
THEOREM WrittenChangeIsServedOrPending == Spec => []AckedServedOrPending
BY Inductive, PTL DEF IInv

-----------------------------------------------------------------------------
(* Every step of the adapter and the core is a step of the table it
   promises, or leaves the table alone.                                    *)
LEMMA TableStep ==
  TypeOK /\ TypeOK' /\ [Next]_vars => [Table!Next]_(Table!vars)
<1> USE DEF Table!Next, Table!vars
<1> SUFFICES ASSUME TypeOK, TypeOK', [Next]_vars
             PROVE  [Table!Next]_(Table!vars)
  OBVIOUS
<1>1. ASSUME NEW w \in Writers, Written(w), core' = core PROVE Table!Publish
  BY <1>1 DEF TypeOK, Tables, Written, Table!Publish, Table!Tables
<1>2. CASE ReloadRead
  BY <1>2 DEF ReloadRead, Table!Read
<1>3. CASE ReloadOk
  BY <1>3 DEF ReloadOk, Table!Serve
<1>4. CASE LoadFailed
  BY <1>4 DEF LoadFailed, Table!GiveUp
<1>5. CASE CoreRestart
  BY <1>5 DEF CoreRestart, NoUsers, Table!Restart, Table!NoUsers
<1>6. CASE \E w \in Writers : WriteDone(w)
  BY <1>6, <1>1 DEF WriteDone, Written
<1>7. CASE BootDone
  BY <1>7, <1>1 DEF BootDone, Written, Writers
<1>8. CASE /\ Next
           /\ ~ReloadRead /\ ~ReloadOk /\ ~LoadFailed /\ ~CoreRestart /\ ~BootDone
           /\ ~ \E w \in Writers : WriteDone(w)
  <2>1. fileUsers' = fileUsers /\ loading' = loading /\ core' = core
    BY <1>8
    DEF Next, Call, WriterStep, AddUser, RemoveUser, Change, Enter, ArmReload, Return,
        WriteRefused, WriteShort, Failed, Truncate, Fire, ReloadFailed, Crash, Start,
        SyncStep, SyncUser, SyncDone
  <2> QED BY <2>1
<1>9. CASE UNCHANGED vars
  BY <1>9 DEF vars
<1> QED BY <1>2, <1>3, <1>4, <1>5, <1>6, <1>7, <1>8, <1>9

(* CoreSync implements UserTable: the core only ever serves a table that was
   written, or nothing at all.                                             *)
THEOREM AdapterImplementsUserTable == Spec => ImplementsUserTable
<1>1. Init => Table!Init
  BY DEF Init, Table!Init, Table!Tables, Tables, NoUsers
<1>2. TypeOK /\ TypeOK' /\ [Next]_vars => [Table!Next]_(Table!vars)
  BY TableStep
<1> QED
  BY <1>1, <1>2, TypeCorrect, PTL DEF Spec, ImplementsUserTable, Table!Spec
=============================================================================
