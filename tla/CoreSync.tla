------------------------------ MODULE CoreSync ------------------------------
(***************************************************************************)
(* How one config-patching adapter (sing-box, xray, v2ray) brings a user   *)
(* change to the core it manages.  ConfigManager keeps the users in memory *)
(* and rewrites the whole config file under its mutex; once the file is    *)
(* written the adapter arms a five second debounce timer; when the timer   *)
(* fires a goroutine asks the core to reload the file.  The module keeps   *)
(* every step at which another goroutine, a crash of the panel or a        *)
(* restart of the core can come in between.  A panel that starts rewrites  *)
(* the file without asking for a reload, and then adds every user the      *)
(* store has as enabled once more, which does ask for one.                 *)
(*                                                                         *)
(* A deployment with an automatic reload is modelled: reload_command, or   *)
(* for sing-box the Clash API.                                             *)
(***************************************************************************)
EXTENDS Naturals, FiniteSets

CONSTANTS
  Users,        \* user IDs
  Creds,        \* credentials a user can be given
  NoCreds,      \* the user is not in the table
  Unknown,      \* no acknowledged change says whether the user is in the table
  Callers,      \* goroutines calling the adapter: HTTP handlers, lifecycle
  Boot,         \* the goroutine of main: the constructor's write, then the startup sync
  NoReq,        \* the writer holds no change
  Nothing,      \* the core is not loading a table
  Seed,         \* the users found in config_template
  HasTemplate,  \* TRUE when config_template is set
  Faults,       \* the failures this instance allows
  MaxOps,       \* bound: calls of AddUser and RemoveUser
  MaxReloads    \* bound: reload goroutines running at the same time

FaultKinds == {"write", "store", "reload", "crash", "core"}

Tables == [Users -> Creds \cup {NoCreds}]

NoUsers == [u \in Users |-> NoCreds]

Changes == [user : Users, creds : Creds \cup {NoCreds}]

ASSUME ConstantsAssumption ==
  /\ NoCreds \notin Creds
  /\ Unknown \notin Creds \cup {NoCreds}
  /\ Boot \notin Callers
  /\ NoReq \notin Changes
  /\ Nothing \notin Tables
  /\ Seed \in Tables
  /\ HasTemplate \in BOOLEAN
  /\ Faults \subseteq FaultKinds
  /\ MaxOps \in Nat
  /\ MaxReloads \in Nat \ {0}

VARIABLES
  proc,       \* the panel: "down", "cold" or "warm" (in NewConfigManager),
              \* "syncing" (in syncEnabledUsers), "up"
  rows,       \* the enabled users of the store and their credentials
  toSync,     \* the users syncEnabledUsers has still to add
  users,      \* ConfigManager.users
  fileState,  \* the config file: "absent", "torn" (truncated, not yet rewritten), "ok"
  fileUsers,  \* the users in the file, or those it last held while it is torn
  pc,         \* where each writer is
  req,        \* the change each writer is making
  timer,      \* reloadTimer is armed
  firing,     \* reload goroutines the core has not answered yet
  loading,    \* the table the core has read from the file and not yet served
  core,       \* the users the core serves
  acked,      \* the last change of each user that reached the file (history)
  missed,     \* a reload did not happen, and no change was written since (history)
  ops         \* calls made so far

vars == <<proc, rows, toSync, users, fileState, fileUsers, pc, req, timer, firing,
          loading, core, acked, missed, ops>>

\* The store and the startup sync, which reloads and restarts of the core leave alone.
panel == <<proc, rows, toSync>>

Writers == Callers \cup {Boot}

Phases == {"idle", "rendering", "writing", "written"}

(***************************************************************************)
(* ConfigManager.mu: held from the change of the map to the end of the     *)
(* write.  NewConfigManager runs before anyone can hold it.                *)
(***************************************************************************)
Holds(w) == pc[w] \in {"rendering", "writing"}

LockFree == \A w \in Writers : ~Holds(w)

\* writeConfigLocked parses config_template, or the config file itself when
\* no template is set
CanRender == HasTemplate \/ fileState = "ok"

\* The constructor's write carries no change, and asks for no reload.
Writing(w) == pc[w] = "writing" /\ req[w] # NoReq

\* A reload is going to be asked for.
Asking ==
  timer \/ firing > 0 \/ \E w \in Writers : Writing(w) \/ pc[w] = "written"

Pending == Asking \/ loading # Nothing

-----------------------------------------------------------------------------
(* AddUser and RemoveUser                                                    *)

\* The map changes first, under the lock, before anything is written.
Enter(w, u, c) ==
  /\ pc[w] = "idle"
  /\ LockFree
  /\ users' = [users EXCEPT ![u] = c]
  /\ pc' = [pc EXCEPT ![w] = "rendering"]
  /\ req' = [req EXCEPT ![w] = [user |-> u, creds |-> c]]
  /\ acked' = [acked EXCEPT ![u] = Unknown]
  /\ UNCHANGED <<proc, fileState, fileUsers, timer, firing, loading, core, missed>>

Change(w, u, c) ==
  /\ proc = "up"
  /\ ops < MaxOps
  /\ ops' = ops + 1
  /\ Enter(w, u, c)
  /\ UNCHANGED toSync

\* CreateUser saves the row before the call, the others do so after it.
AddUser(w, u) ==
  \E c \in Creds : Change(w, u, c) /\ rows' \in {rows, [rows EXCEPT ![u] = c]}

BlankUser(w, u) == Change(w, u, Unknown) /\ UNCHANGED rows  \* mutant of RemoveUser

RemoveUser(w, u) == Change(w, u, NoCreds) /\ UNCHANGED rows

\* syncEnabledUsers lists the enabled users once; a store that cannot be read
\* leaves the panel to start without a sync.
StartSync ==
  /\ proc' = "syncing"
  /\ toSync' \in {{u \in Users : rows[u] # NoCreds}} \cup (IF "store" \in Faults THEN {{}} ELSE {})
  /\ UNCHANGED rows

\* A failed write is returned to the caller.  CreateUser takes its row back,
\* disableUser saves the disabled row nevertheless, the others save nothing.
\* The sync goes on with the next user.  NewConfigManager gives up only when it
\* was creating the file.
Failed(w) ==
  /\ pc' = [pc EXCEPT ![w] = "idle"]
  /\ req' = [req EXCEPT ![w] = NoReq]
  /\ \/ proc = "cold" /\ proc' = "down" /\ UNCHANGED <<rows, toSync>>
     \/ proc = "warm" /\ StartSync
     \/ proc = "syncing" /\ UNCHANGED panel
     \/ /\ proc = "up"
        /\ rows' \in {rows, [rows EXCEPT ![req[w].user] = NoCreds]}
        /\ UNCHANGED <<proc, toSync>>
  /\ UNCHANGED <<users, fileUsers, timer, firing, loading, core, acked, ops>>

\* The template cannot be read or parsed, or the file cannot be opened: the
\* error comes before the file is touched.
WriteRefused(w) ==
  /\ pc[w] = "rendering"
  /\ "write" \in Faults \/ ~CanRender
  /\ Failed(w)
  /\ UNCHANGED <<fileState, missed>>

\* os.WriteFile opens with O_TRUNC ...
Truncate(w) ==
  /\ pc[w] = "rendering"
  /\ CanRender
  /\ pc' = [pc EXCEPT ![w] = "writing"]
  /\ fileState' = "torn"
  /\ UNCHANGED <<panel, users, fileUsers, req, timer, firing, loading, core, acked, missed, ops>>

\* ... and may run out of space ...
WriteShort(w) ==
  /\ pc[w] = "writing"
  /\ "write" \in Faults
  /\ missed' = TRUE
  /\ Failed(w)
  /\ UNCHANGED fileState

\* ... or complete.
Written(w) ==
  /\ pc[w] = "writing"
  /\ fileState' = "ok"
  /\ fileUsers' = users
  /\ UNCHANGED <<users, req, timer, firing, loading, core, ops>>

\* The file is whole again, and a reload is going to be asked for.
WriteDone(w) ==
  /\ req[w] # NoReq
  /\ Written(w)
  /\ pc' = [pc EXCEPT ![w] = "written"]
  /\ acked' = [acked EXCEPT ![req[w].user] = req[w].creds]
  /\ missed' = FALSE
  /\ UNCHANGED panel

\* The call returns, and the service saves the row unless the store refuses.
\* What the sync has added is what the row says.
Return(w) ==
  /\ pc[w] = "written"
  /\ pc' = [pc EXCEPT ![w] = "idle"]
  /\ req' = [req EXCEPT ![w] = NoReq]
  /\ \/ rows' = [rows EXCEPT ![req[w].user] = req[w].creds]
     \/ "store" \in Faults /\ UNCHANGED rows
  /\ UNCHANGED <<proc, toSync, users, fileState, fileUsers, firing, loading, core,
                 acked, missed, ops>>

\* Mutant of ArmReload: no new timer while a reload is running.
ArmUnlessReloading(w) ==
  /\ Return(w)
  /\ timer' = (firing = 0 /\ loading = Nothing)

\* reload: stop the timer, start a new one.  A goroutine the old timer has
\* already started is not stopped by Timer.Stop.
ArmReload(w) ==
  /\ Return(w)
  /\ timer' = TRUE

-----------------------------------------------------------------------------
(* The reload goroutines and the core                                        *)

Fire ==
  /\ timer
  /\ firing < MaxReloads
  /\ timer' = FALSE
  /\ firing' = firing + 1
  /\ UNCHANGED <<panel, users, fileState, fileUsers, pc, req, loading, core, acked,
                 missed, ops>>

\* executeReload makes the core read the file.  The core takes one reload at
\* a time, and the panel takes no part in the rest of it.
ReloadRead ==
  /\ firing > 0
  /\ fileState = "ok"
  /\ loading = Nothing
  /\ firing' = firing - 1
  /\ loading' = fileUsers
  /\ missed' = FALSE
  /\ UNCHANGED <<panel, users, fileState, fileUsers, pc, req, timer, core, acked, ops>>

\* Mutant of ReloadOk: the core adds the new users and keeps the old ones.
ReloadAdds ==
  /\ loading # Nothing
  /\ loading' = Nothing
  /\ core' = [u \in Users |-> IF loading[u] = NoCreds THEN core[u] ELSE loading[u]]
  /\ UNCHANGED <<panel, users, fileState, fileUsers, pc, req, timer, firing, acked,
                 missed, ops>>

ReloadOk ==
  /\ loading # Nothing
  /\ loading' = Nothing
  /\ core' = loading
  /\ UNCHANGED <<panel, users, fileState, fileUsers, pc, req, timer, firing, acked,
                 missed, ops>>

\* executeReload returns an error: it is logged and nothing is retried.  The
\* core refuses a torn file, and any reload can fail for its own reasons.
ReloadFailed ==
  /\ firing > 0
  /\ fileState # "ok" \/ "reload" \in Faults
  /\ firing' = firing - 1
  /\ missed' = (missed \/ fileState = "ok" \/ \A w \in Writers : ~Writing(w))
  /\ UNCHANGED <<panel, users, fileState, fileUsers, pc, req, timer, loading, core,
                 acked, ops>>

\* The core keeps what it serves and drops what it has read.
LoadFailed ==
  /\ loading # Nothing
  /\ "reload" \in Faults
  /\ loading' = Nothing
  /\ missed' = TRUE
  /\ UNCHANGED <<panel, users, fileState, fileUsers, pc, req, timer, firing, core,
                 acked, ops>>

\* The core process restarts on its own and reads whatever the file holds.
CoreRestart ==
  /\ "core" \in Faults
  /\ core' = IF fileState = "ok" THEN fileUsers ELSE NoUsers
  /\ loading' = Nothing
  /\ missed' = (fileState # "ok")
  /\ UNCHANGED <<panel, users, fileState, fileUsers, pc, req, timer, firing, acked, ops>>

-----------------------------------------------------------------------------
(* The panel's process                                                       *)

\* A crash, or a shutdown: the map, the timer and the goroutines are gone.
Crash ==
  /\ "crash" \in Faults
  /\ proc # "down"
  /\ proc' = "down"
  /\ toSync' = {}
  /\ users' = NoUsers
  /\ pc' = [w \in Writers |-> "idle"]
  /\ req' = [w \in Writers |-> NoReq]
  /\ timer' = FALSE
  /\ firing' = 0
  /\ missed' = (missed \/ Asking)
  /\ UNCHANGED <<rows, fileState, fileUsers, loading, core, acked, ops>>

\* Mutant of Start: the users are read from the template every time.
StartFromTemplate ==
  /\ proc = "down"
  /\ fileState # "torn"
  /\ proc' = IF fileState = "ok" THEN "warm" ELSE "cold"
  /\ users' = Seed
  /\ pc' = [pc EXCEPT ![Boot] = "rendering"]
  /\ UNCHANGED <<rows, toSync, fileState, fileUsers, req, timer, firing, loading, core,
                 acked, missed, ops>>

\* NewConfigManager reads the users back from the file, or from the template
\* when there is no file; it refuses a file it cannot parse.
Start ==
  /\ proc = "down"
  /\ \/ /\ fileState = "ok"
        /\ proc' = "warm"
        /\ users' = fileUsers
     \/ /\ fileState = "absent"
        /\ HasTemplate
        /\ proc' = "cold"
        /\ users' = Seed
  /\ pc' = [pc EXCEPT ![Boot] = "rendering"]
  /\ UNCHANGED <<rows, toSync, fileState, fileUsers, req, timer, firing, loading, core,
                 acked, missed, ops>>

\* ... and rewrites the file at once, without asking the core to reload.
BootDone ==
  /\ req[Boot] = NoReq
  /\ Written(Boot)
  /\ pc' = [pc EXCEPT ![Boot] = "idle"]
  /\ StartSync
  /\ UNCHANGED <<acked, missed>>

\* syncEnabledUsers adds every enabled user again, one after the other, before
\* anybody else can call the adapter.
SyncUser(u) ==
  /\ proc = "syncing"
  /\ u \in toSync
  /\ toSync' = toSync \ {u}
  /\ Enter(Boot, u, rows[u])
  /\ UNCHANGED <<rows, ops>>

SyncDone ==
  /\ proc = "syncing"
  /\ pc[Boot] = "idle"
  /\ toSync = {}
  /\ proc' = "up"
  /\ UNCHANGED <<rows, toSync, users, fileState, fileUsers, pc, req, timer, firing,
                 loading, core, acked, missed, ops>>

-----------------------------------------------------------------------------
Init ==
  /\ proc = "down"
  /\ rows \in Tables
  /\ toSync = {}
  /\ users = NoUsers
  /\ \/ fileState = "absent" /\ fileUsers = NoUsers
     \/ fileState = "ok" /\ fileUsers \in Tables
  /\ pc = [w \in Writers |-> "idle"]
  /\ req = [w \in Writers |-> NoReq]
  /\ timer = FALSE
  /\ firing = 0
  /\ loading = Nothing
  /\ core = fileUsers
  /\ acked = [u \in Users |-> Unknown]
  /\ missed = FALSE
  /\ ops = 0

Call(w) == \E u \in Users : AddUser(w, u) \/ RemoveUser(w, u)

WriterStep(w) ==
  WriteRefused(w) \/ Truncate(w) \/ WriteShort(w) \/ WriteDone(w) \/ ArmReload(w)

SyncStep == (\E u \in Users : SyncUser(u)) \/ SyncDone

Next ==
  \/ \E w \in Callers : Call(w)
  \/ \E w \in Writers : WriterStep(w)
  \/ Fire \/ ReloadRead \/ ReloadOk \/ ReloadFailed \/ LoadFailed \/ CoreRestart
  \/ Crash \/ Start \/ BootDone \/ SyncStep

Spec == Init /\ [][Next]_vars

(***************************************************************************)
(* A running goroutine keeps running, a timer goes off, a started reload   *)
(* ends, and the service manager restarts the panel.  No one is obliged to *)
(* call the adapter.                                                       *)
(***************************************************************************)
Fairness ==
  /\ \A w \in Writers : WF_vars(WriterStep(w))
  /\ WF_vars(Fire)
  /\ WF_vars(ReloadRead \/ ReloadFailed)
  /\ WF_vars(ReloadOk \/ LoadFailed)
  /\ WF_vars(Start)
  /\ WF_vars(BootDone)
  /\ WF_vars(SyncStep)

FairSpec == Spec /\ Fairness

-----------------------------------------------------------------------------
TypeOK ==
  /\ proc \in {"down", "cold", "warm", "syncing", "up"}
  /\ rows \in Tables
  /\ toSync \subseteq Users
  /\ users \in Tables
  /\ fileState \in {"absent", "torn", "ok"}
  /\ fileUsers \in Tables
  /\ pc \in [Writers -> Phases]
  /\ req \in [Writers -> Changes \cup {NoReq}]
  /\ timer \in BOOLEAN
  /\ firing \in Nat
  /\ loading \in Tables \cup {Nothing}
  /\ core \in Tables
  /\ acked \in [Users -> Creds \cup {NoCreds, Unknown}]
  /\ missed \in BOOLEAN
  /\ ops \in Nat

(* A file that is whole holds every change that was written: no later write of
   other users, failed call, crash or restart brings back an older state of a
   user it does not concern (config_manager.go AddUser, RemoveUser,
   loadUsersFromConfig).  A write that was cut short leaves a file that holds
   nothing at all, and this does not speak of that.                         *)
AckedInFile ==
  fileState = "ok" => \A u \in Users : acked[u] # Unknown => fileUsers[u] = acked[u]

(* A change that was written is served by the core, or a reload that will
   read it is on its way, or a reload was missed and nothing was written
   since: it failed, the panel or the core restarted, a write was cut short.
   In particular a reload that meets a half-written file is always followed by
   another one, stopping the old timer never loses the last change, and one
   user the startup sync adds makes up for what a restart forgot (adapter.go
   reload, main.go syncEnabledUsers).                                       *)
AckedServedOrPending ==
  \A u \in Users :
    acked[u] # Unknown => core[u] = acked[u] \/ Pending \/ missed

(* A written change reaches the core once the calls stop (adapter.go
   reload, executeReload), as long as nothing fails.                       *)
EventuallyServed ==
  \A u \in Users : \A c \in Creds \cup {NoCreds} :
    acked[u] = c ~> core[u] = c \/ acked[u] # c

(* What the adapter promises the services above it, without memory, mutex,
   file, timer or goroutines: UserTable.                                   *)
Table == INSTANCE UserTable WITH
  published <- fileUsers, reading <- loading, served <- core

\* Every step publishes a table, has the core read the published one or serve
\* the one it has read, or restarts the core.
ImplementsUserTable == Table!Spec

\* Without faults, a published table that stays is loaded.
ImplementsLoading == Table!Loading

(* The comment on VPNAdapter.RemoveUser: the user is removed from the core
   for good and can no longer connect.  It fails, with a panel that stays up in
   the end, when the panel restarts before the reload and the store has no
   enabled user left for this core: the startup sync then adds nobody and asks
   for no reload.                                                           *)
RemovedIsCutOff ==
  <>[](proc = "up") =>
    \A u \in Users : acked[u] = NoCreds ~> core[u] = NoCreds \/ acked[u] # NoCreds
=============================================================================
