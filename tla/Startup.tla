------------------------------ MODULE Startup ------------------------------
(***************************************************************************)
(* How the process comes up: the configuration is normalised, the cores    *)
(* are loaded one after the other, the accounts are put into them, and     *)
(* then the server and the DNS loop run until a shutdown, a crash or a     *)
(* server that cannot listen.  Between two starts the administrator may    *)
(* change the configuration.                                               *)
(***************************************************************************)
EXTENDS Ddns, Sequences, FiniteSets

CONSTANTS
  CoreIds,  \* the possible IDs of cores, a sequence in their sort order
  Users,
  Sites     \* installations: [configs, rows, files, hosts, records]

Ids == {CoreIds[k] : k \in DOMAIN CoreIds}

\* What config.yaml may say of the loop; "other" stands for what nobody knows.
DdnsConfigs ==
  [provider : {"cloudflare", "other"}, complete : BOOLEAN, type : {"A", "AAAA", "other", None},
   resolvers : Nat]

\* ... and of a core: "template" and "stats" stand for what is at the template
\* path and the statistics address.
CoreItems ==
  [type : {"stub", "singbox", "sing-box", "xray", "xray-core", "v2ray", "v2ray-core", "v2fly",
           "nonsense", None},
   enabled : BOOLEAN, path : BOOLEAN, template : {"fine", "broken", None}, clash : BOOLEAN,
   stats : {"none", "good", "bad"}, domain : BOOLEAN]

ASSUME StartupAssumption ==
  /\ CoreIds \in Seq(Ids) /\ "legacy" \in Ids
  /\ \A k, l \in DOMAIN CoreIds : CoreIds[k] = CoreIds[l] => k = l
  /\ None \notin Ids /\ None \notin Users /\ None \notin Addresses /\ None \notin Records
  /\ None \notin DdnsConfigs /\ None \notin CoreItems
  /\ None \notin [type : {"A", "AAAA"}, name : {Domain}, content : Addresses]
  /\ \A s \in Sites :
       /\ s.hosts \subseteq Hosts /\ s.records \subseteq Records
       /\ s.files \in [Ids -> {"missing", "broken", "fine"}]
       /\ \A c \in s.configs : /\ c.ddns \in DdnsConfigs \cup {None}
                                /\ c.items \in [Ids -> CoreItems \cup {None}]
                                /\ c.adapter \in CoreItems

VARIABLES
  site,      \* where the panel is installed: what config.yaml may say, the
             \* accounts in the database, user -> [core, enabled], and the files
  raw,       \* config.yaml
  cfg,       \* Config after applyDefaults, None when no process runs
  phase,     \* "down", "cores", "sync", "serving", "failed", "done"
  next,      \* position in CoreIds of the next core to load
  runtimes,  \* Manager.runtimes: [enabled, adapter, caps], None where missing
  readers,   \* the cores with a statistics connection open
  files,     \* core -> what is at its config path: "missing", "broken", "fine"
  inCore,    \* core -> the users it has been given
  pending,   \* users still to be synchronised
  skipped    \* users whose AddUser failed, or all if the list could not be read

vars == <<ddnsVars, site, raw, cfg, phase, next, runtimes, readers, files, inCore, pending, skipped>>
panel == <<site, raw, cfg, phase, next, runtimes, readers, files, inCore, pending, skipped>>

-----------------------------------------------------------------------------
(* config.applyDefaults                                                     *)

FirstId(items) ==
  CoreIds[CHOOSE k \in DOMAIN CoreIds : /\ items[CoreIds[k]] # None
                                        /\ \A l \in 1..(k - 1) : items[CoreIds[l]] = None]

\* A core that is named but not described: made to be, and enabled.
Ghost == [type |-> None, enabled |-> TRUE, path |-> FALSE, template |-> None,
          clash |-> FALSE, stats |-> "none", domain |-> FALSE]

DefaultId(c) == IF c.default # None THEN c.default ELSE FirstId(c.items)

\* Mutant of Flagged: the list adds to the cores' own flags.
FlagsAndList(c) ==
  [id \in Ids |->
     IF c.items[id] = None \/ c.enabled = {} THEN c.items[id]
     ELSE [c.items[id] EXCEPT !.enabled = @ \/ id \in c.enabled]]

\* A list of enabled cores overrides their own flags.
Flagged(c) ==
  [id \in Ids |->
     IF c.items[id] = None \/ c.enabled = {} THEN c.items[id]
     ELSE [c.items[id] EXCEPT !.enabled = id \in c.enabled]]

\* normalizeCores: without cores, the adapter section is the one core; with
\* none enabled the default is, whether it exists or not.
NormalizeCores(c) ==
  IF \A id \in Ids : c.items[id] = None
  THEN [default |-> "legacy",
        items |-> [c.items EXCEPT !["legacy"] = [c.adapter EXCEPT !.enabled = TRUE]]]
  ELSE LET flagged == Flagged(c)
           default == DefaultId(c)
           any == \E id \in Ids : flagged[id] # None /\ flagged[id].enabled
       IN [default |-> default,
           items |-> IF any \/ default = None THEN flagged
                     ELSE [flagged EXCEPT ![default] =
                             IF @ = None THEN Ghost ELSE [@ EXCEPT !.enabled = TRUE]]]

\* Mutant of NormalizeDdns: no resolvers when none are configured.
NormalizeType(d) ==
  IF d = None THEN None ELSE [d EXCEPT !.type = IF @ = None THEN "A" ELSE @]

NormalizeDdns(d) ==
  IF d = None THEN None
  ELSE [d EXCEPT !.type = IF @ = None THEN "A" ELSE @,
                 !.resolvers = IF @ = 0 THEN 2 ELSE @]

\* buildDDNSService: off unless it is complete and ours.
BuildDdns(d) ==
  IF d = None \/ d.provider # "cloudflare" \/ ~d.complete THEN None
  ELSE [type |-> d.type, resolvers |-> d.resolvers]

ApplyDefaults(c) ==
  [cores |-> NormalizeCores(c), ddns |-> NormalizeDdns(c.ddns), initOnce |-> c.initOnce]

-----------------------------------------------------------------------------
(* The registry and the adapters                                            *)

\* The factory registered for a type, in any case and with blanks around it.
Factory(type) ==
  CASE type \in {None, "stub"} -> "stub"
    [] type \in {"singbox", "sing-box"} -> "singbox"
    [] type \in {"xray", "xray-core"} -> "xray"
    [] type \in {"v2ray", "v2ray-core", "v2fly"} -> "v2ray"
    [] OTHER -> None

\* NewConfigManager: a file that cannot be parsed and a missing one that
\* cannot be made from a template stop the adapter.
ConfigManagerWorks(item, file) ==
  \/ ~item.path
  \/ file = "fine"
  \/ file = "missing" /\ item.template = "fine"

\* Mutant of StatsReader: the connection is made before the file is read.
DialFirst(item, file) == item.stats = "good"

\* Whether New leaves a connection behind: only when nothing before it fails.
StatsReader(item, file) == item.stats = "good" /\ ConfigManagerWorks(item, file)

CreateFails(item, file) ==
  \/ Factory(item.type) = None
  \/ /\ Factory(item.type) # "stub"
     /\ ~ConfigManagerWorks(item, file) \/ item.stats = "bad"

AccountCaps == {"list_users", "add_user", "remove_user", "disable_user", "enable_user", "credential_defs"}
ConnectionCaps == {"realtime_speed", "active_conns", "kill_conn"}
TrafficCaps == {"query_traffic", "user_speed"}

StubCaps ==
  AccountCaps \cup ConnectionCaps \cup TrafficCaps \cup
  {"subscription", "speed_limit", "global_speed_limit"}

Capabilities(item) ==
  IF Factory(item.type) = "stub"
  THEN StubCaps
  ELSE AccountCaps
       \cup (IF Factory(item.type) = "singbox" /\ item.clash THEN ConnectionCaps ELSE {})
       \cup (IF item.stats = "good" THEN TrafficCaps ELSE {})
       \cup (IF item.domain THEN {"subscription"} ELSE {})

\* What the manager keeps of a core.
Runtimes ==
  [enabled : BOOLEAN, adapter : {"stub", "singbox", "xray", "v2ray", None}, caps : SUBSET StubCaps]

ASSUME RecordsAssumption ==
  /\ None \notin {"stub", "singbox", "xray", "v2ray"} /\ None \notin Runtimes
  /\ \A s \in Sites : \A c \in s.configs : ApplyDefaults(c) # None

-----------------------------------------------------------------------------
(* main and core.NewManager                                                 *)

NoRuntimes == [id \in Ids |-> None]
Running(id) == runtimes[id] # None /\ runtimes[id].enabled /\ runtimes[id].adapter # None

\* Manager.Close: every core that was loaded.
Close == readers' = readers \ {id \in Ids : Running(id)}

\* What SelectForUser, and NewManager for the default core, insist on.
Usable(id) == id \in Ids /\ Running(id)

\* The core SelectForUser picks for a user.
CoreOf(u) == IF site.rows[u].core = None THEN cfg.cores.default ELSE site.rows[u].core

Boot ==
  /\ phase = "down"
  /\ phase' = "cores"
  /\ cfg' = ApplyDefaults(raw)
  /\ next' = 1
  /\ UNCHANGED <<ddnsVars, site, raw, runtimes, readers, files, inCore, pending, skipped>>

\* One core of NewManager's loop, in the order of the IDs.
LoadCore ==
  LET id == CoreIds[next]
      item == cfg.cores.items[id]
  IN /\ phase = "cores"
     /\ next <= Len(CoreIds)
     /\ next' = next + 1
     /\ \/ /\ item = None
           /\ UNCHANGED <<phase, runtimes, readers, files, inCore>>
        \/ /\ item # None
           /\ ~item.enabled
           /\ runtimes' = [runtimes EXCEPT ![id] =
                [enabled |-> FALSE, adapter |-> None, caps |-> {}]]
           /\ UNCHANGED <<phase, readers, files, inCore>>
        \/ /\ item # None
           /\ item.enabled
           /\ ~CreateFails(item, files[id])
           /\ runtimes' = [runtimes EXCEPT ![id] =
                [enabled |-> TRUE, adapter |-> Factory(item.type), caps |-> Capabilities(item)]]
           /\ readers' = IF Factory(item.type) # "stub" /\ StatsReader(item, files[id])
                         THEN readers \cup {id} ELSE readers
           /\ files' = [files EXCEPT ![id] =
                IF Factory(item.type) # "stub" /\ item.path THEN "fine" ELSE @]
           /\ inCore' = [inCore EXCEPT ![id] =
                IF Factory(item.type) = "stub" \/ ~item.path \/ files[id] = "missing" THEN {} ELSE @]
           /\ UNCHANGED phase
     /\ UNCHANGED <<ddnsVars, site, raw, cfg, pending, skipped>>

\* A core that cannot be made takes the ones before it down again, and the
\* process with it.
LoadCoreFails ==
  LET id == CoreIds[next]
      item == cfg.cores.items[id]
      dialled == IF Factory(item.type) \notin {None, "stub"} /\ StatsReader(item, files[id])
                 THEN {id} ELSE {}
  IN /\ phase = "cores"
     /\ next <= Len(CoreIds)
     /\ item # None
     /\ item.enabled
     /\ CreateFails(item, files[id])
     /\ phase' = "failed"
     /\ readers' = (readers \ {i \in Ids : Running(i)}) \cup dialled
     \* A bad statistics address is found out after the file was written.
     /\ files' = [files EXCEPT ![id] =
          IF Factory(item.type) \notin {None, "stub"} /\ item.path /\ ConfigManagerWorks(item, @)
          THEN "fine" ELSE @]
     /\ UNCHANGED <<ddnsVars, site, raw, cfg, next, runtimes, inCore, pending, skipped>>

\* The end of NewManager, and the list of users for syncEnabledUsers, which
\* may be unreadable.
FinishCores(listed) ==
  /\ phase = "cores"
  /\ next > Len(CoreIds)
  /\ \/ /\ Usable(cfg.cores.default)
        /\ phase' = "sync"
        /\ pending' = IF listed THEN {u \in Users : site.rows[u].enabled} ELSE {}
        /\ skipped' = IF listed THEN {} ELSE Users
        /\ UNCHANGED readers
     \/ /\ ~Usable(cfg.cores.default)
        /\ phase' = "failed"
        /\ Close
        /\ UNCHANGED <<pending, skipped>>
  /\ UNCHANGED <<ddnsVars, site, raw, cfg, next, runtimes, files, inCore>>

\* Mutant of LeftToSync: one user that cannot be put into a core is the last.
StopSyncAt(u, added) == IF added THEN pending \ {u} ELSE {}

LeftToSync(u, added) == pending \ {u}

\* One user of syncEnabledUsers, in any order.  A core that does not run or
\* has no path to write to is passed over; so is a write that fails.  (It leaves
\* the user in the adapter's memory, and the next write puts him into the core;
\* inCore does not follow that, and counts him as skipped.)
SyncUser(u, written) ==
  LET id == CoreOf(u)
      usable == id \in Ids /\ Running(id)
      added == /\ usable
               /\ "add_user" \in runtimes[id].caps
               /\ runtimes[id].adapter # "stub" => cfg.cores.items[id].path /\ written
  IN /\ phase = "sync"
     /\ u \in pending
     /\ inCore' = IF added THEN [inCore EXCEPT ![id] = @ \cup {u}] ELSE inCore
     /\ skipped' = IF usable /\ ~added THEN skipped \cup {u} ELSE skipped
     /\ pending' = LeftToSync(u, added)
     /\ UNCHANGED <<ddnsVars, site, raw, cfg, phase, next, runtimes, readers, files>>

\* -init-once ends here, closing the cores ...
InitOnce ==
  /\ phase = "sync"
  /\ pending = {}
  /\ cfg.initOnce
  /\ phase' = "done"
  /\ Close
  /\ UNCHANGED <<ddnsVars, site, raw, cfg, next, runtimes, files, inCore, pending, skipped>>

\* ... or the loops and the server start, the DNS loop before the server.
Serve ==
  /\ phase = "sync"
  /\ pending = {}
  /\ ~cfg.initOnce
  /\ phase' = "serving"
  /\ ddns' = BuildDdns(cfg.ddns)
  /\ UNCHANGED <<host, record, quiet, check, site, raw, cfg, next, runtimes, readers, files,
                 inCore, pending, skipped>>

\* The DNS loop is cut off; an update under way may have got through.
DdnsEnds ==
  /\ ddns' = None
  /\ record' \in {record} \cup
       IF step = "update" THEN {[type |-> ddns.type, name |-> Domain, content |-> found]} ELSE {}
  /\ cachedIP' = None
  /\ EndCheck
  /\ UNCHANGED <<host, quiet>>

\* The server cannot listen, for want of certificate files, because the port is
\* taken, or for any other reason: os.Exit, with the loops already running.
ServeFails ==
  /\ phase = "serving"
  /\ phase' = "failed"
  /\ readers' = {}
  /\ DdnsEnds
  /\ UNCHANGED <<site, raw, cfg, next, runtimes, files, inCore, pending, skipped>>

\* A signal, or the end of the process at any other point; a new process may
\* find another configuration.
Stop(changed) ==
  /\ phase # "down"
  /\ quiet => phase # "serving"
  /\ phase' = "down"
  /\ raw' = changed
  /\ cfg' = None
  /\ runtimes' = NoRuntimes
  /\ readers' = {}
  /\ next' = 1
  /\ pending' = {}
  /\ skipped' = {}
  /\ DdnsEnds
  /\ UNCHANGED <<site, files, inCore>>

-----------------------------------------------------------------------------
Init ==
  /\ site \in Sites
  /\ InitDdns(site.hosts, site.records)
  /\ raw \in site.configs
  /\ cfg = None
  /\ phase = "down"
  /\ next = 1
  /\ runtimes = NoRuntimes
  /\ readers = {}
  /\ files = site.files
  /\ inCore = [id \in Ids |-> {}]
  /\ pending = {}
  /\ skipped = {}

BootStep ==
  \/ Boot
  \/ LoadCore
  \/ LoadCoreFails
  \/ \E listed \in BOOLEAN : FinishCores(listed)
  \/ \E u \in Users, written \in BOOLEAN : SyncUser(u, written)
  \/ InitOnce
  \/ Serve

\* The loop's own steps, and the world's while it runs.
DdnsStep == phase = "serving" /\ Check /\ UNCHANGED panel
WorldStep == phase = "serving" /\ ddns # None /\ World /\ UNCHANGED panel

Next ==
  \/ BootStep
  \/ ServeFails
  \/ \E changed \in site.configs : Stop(changed)
  \/ DdnsStep
  \/ WorldStep

Spec == Init /\ [][Next]_vars

\* The loop is a goroutine that is scheduled and has a ticker.
FairSpec == Spec /\ WF_vars(DdnsStep)

-----------------------------------------------------------------------------
(* Properties                                                               *)

TypeOK ==
  /\ DdnsTypeOK
  /\ phase \in {"down", "cores", "sync", "serving", "failed", "done"}
  /\ (cfg = None) = (phase = "down")
  /\ next \in 1..(Len(CoreIds) + 1)
  /\ readers \subseteq Ids
  /\ \A id \in Ids : /\ runtimes[id] # None => (runtimes[id].adapter = None) = ~runtimes[id].enabled
                     /\ inCore[id] \subseteq Users
  /\ ddns # None => phase = "serving"
  /\ pending \cup skipped \subseteq Users

\* A panel that comes up runs exactly the cores config.yaml switches on, by the
\* list or, without one, by their own flags; when that is none, the default core
\* alone.  The default one, which is the one that is named, is always among
\* them: the handlers call it without looking.
RunsAsConfigured ==
  phase \in {"sync", "serving"} =>
    LET described == {id \in Ids : raw.items[id] # None}
        chosen == {id \in described :
                     IF raw.enabled = {} THEN raw.items[id].enabled ELSE id \in raw.enabled}
        running == {id \in Ids : runtimes[id] # None /\ runtimes[id].adapter # None}
        default == cfg.cores.default
    IN /\ running = IF chosen = {} THEN {default} ELSE chosen
       /\ default \in running
       /\ described # {} /\ raw.default # None => default = raw.default

\* A start that fails, at whichever core, and a finished -init-once leave no
\* connection to any core open.
NothingLeftOpen == phase \in {"failed", "done", "down"} => readers = {}

\* Once the panel serves, every enabled account whose core runs is in it,
\* except those whose own writing failed: one account that cannot be written
\* costs nobody else the service.  A list that cannot be read costs everybody
\* his: all are skipped then.
EveryoneSynced ==
  phase = "serving" =>
    \A u \in Users :
      LET id == IF site.rows[u].core = None THEN cfg.cores.default ELSE site.rows[u].core
      IN (site.rows[u].enabled /\ id \in Ids /\ runtimes[id] # None /\ runtimes[id].enabled
          /\ u \notin skipped)
         => u \in inCore[id]
=============================================================================
