---------------------------- MODULE StartupProofs ----------------------------
(***************************************************************************)
(* Startup and its DNS loop for every set of cores, accounts and           *)
(* installations: a start that fails leaves nothing open, one that         *)
(* succeeds serves everybody it can, and the loop writes no wrong address. *)
(***************************************************************************)
EXTENDS Startup, TLAPS

(* The loop: what it found is an address the host had since the check began,
   and what it is about to overwrite is the configured record.             *)
HostSeen == step # "idle" => HostAddresses(host) \subseteq seen

FoundRight ==
  step \in {"read", "update"} =>
    /\ Supported(ddns.type)
    /\ found \in seen /\ found.public /\ found.family = ddns.type

ReadRight ==
  step = "update" => read.type = ddns.type /\ read.name = Domain /\ read.content # found

DdnsInv ==
  /\ DdnsTypeOK
  /\ record # None
  /\ ddns # None => ddns.resolvers \in Nat \ {0}
  /\ HostSeen /\ FoundRight /\ ReadRight

(* The manager keeps a runtime per core, and a connection only for one that
   runs; after the list is read every enabled account is waiting, passed
   over, or in its core.                                                   *)
Shapes ==
  /\ site \in Sites /\ raw \in site.configs
  /\ runtimes \in [Ids -> Runtimes \cup {None}]
  /\ inCore \in [Ids -> SUBSET Users]
  /\ phase # "down" => cfg.ddns \in DdnsConfigs \cup {None}
  /\ phase # "down" /\ cfg.ddns # None => cfg.ddns.resolvers # 0

ReadersRun == readers \subseteq {id \in Ids : Running(id)}

Accounted ==
  phase \in {"sync", "serving"} =>
    \A u \in Users :
      site.rows[u].enabled /\ Usable(CoreOf(u)) =>
        u \in pending \/ u \in skipped \/ u \in inCore[CoreOf(u)]

ServingDone == phase = "serving" => pending = {}

Places ==
  /\ phase \in {"down", "cores", "sync", "serving", "failed", "done"}
  /\ (cfg = None) = (phase = "down")
  /\ next \in 1 .. (Len(CoreIds) + 1)
  /\ readers \subseteq Ids
  /\ \A id \in Ids : runtimes[id] # None => (runtimes[id].adapter = None) = ~runtimes[id].enabled
  /\ ddns # None => phase = "serving"
  /\ pending \subseteq Users /\ skipped \subseteq Users

(* A core whose turn has not come is not there.                            *)
NotYet ==
  /\ phase = "down" => next = 1
  /\ phase \in {"down", "cores"} =>
       \A k \in next .. Len(CoreIds) : runtimes[CoreIds[k]] = None

(* The cores that run are those the normalised configuration switches on, as
   far as the loop has come; after it the default core is one of them.     *)
SwitchedOn(id) == cfg.cores.items[id] # None /\ cfg.cores.items[id].enabled

LoadedUpTo(n) == \A k \in 1 .. (n - 1) : Running(CoreIds[k]) <=> SwitchedOn(CoreIds[k])

Loaded ==
  /\ phase # "down" => cfg.cores = NormalizeCores(raw)
  /\ phase = "cores" => LoadedUpTo(next)
  /\ phase \in {"sync", "serving"} => LoadedUpTo(Len(CoreIds) + 1) /\ Usable(cfg.cores.default)

PanelInv ==
  /\ Places /\ Shapes /\ NotYet /\ ReadersRun /\ NothingLeftOpen /\ Loaded /\ Accounted /\ ServingDone

-----------------------------------------------------------------------------
(* Addresses of a host are addresses, and public.                          *)
LEMMA HostFact ==
  ASSUME NEW h \in Hosts
  PROVE  /\ HostAddresses(h) \subseteq Addresses
         /\ \A family \in {"A", "AAAA"} : h[family] # None =>
              /\ h[family] \in HostAddresses(h)
              /\ h[family].public /\ h[family].family = family
<1>1. h \in [{"A", "AAAA"} -> {a \in Addresses : a.public} \cup {None}]
      /\ \A family \in DOMAIN h : h[family] # None => h[family].family = family
  BY DEF Hosts
<1>2. DOMAIN h = {"A", "AAAA"}
  BY <1>1
<1> QED BY <1>1, <1>2 DEF HostAddresses

(* The end of a check leaves a loop at rest.                               *)
LEMMA AtRest ==
  ASSUME EndCheck, host' \in Hosts, record' # None,
         cachedIP' \in Addresses \cup {None},
         ddns' # None => ddns'.resolvers \in Nat \ {0}
  PROVE  DdnsInv'
BY DEF EndCheck, DdnsInv, DdnsTypeOK, HostSeen, FoundRight, ReadRight

(* What the loop writes is a record.                                       *)
LEMMA WrittenRecord ==
  ASSUME DdnsInv, step = "update"
  PROVE  /\ found \in Addresses
         /\ [type |-> ddns.type, name |-> Domain, content |-> found] # None
<1>1. ddns.type \in {"A", "AAAA"} /\ found \in Addresses
  BY StartupAssumption DEF DdnsInv, DdnsTypeOK, FoundRight, Supported
<1>2. [type |-> ddns.type, name |-> Domain, content |-> found]
        \in [type : {"A", "AAAA"}, name : {Domain}, content : Addresses]
  BY <1>1
<1> QED BY <1>1, <1>2, StartupAssumption

LEMMA CheckStep ==
  ASSUME DdnsInv, Check
  PROVE  DdnsInv'
<1> USE StartupAssumption
<1>0. /\ host \in Hosts /\ record # None
      /\ cachedIP \in Addresses \cup {None} /\ seen \subseteq Addresses
      /\ ddns # None => ddns.resolvers \in Nat \ {0}
  BY DEF DdnsInv, DdnsTypeOK
<1>1. CASE BeginCheck
  <2>1. /\ ddns # None /\ ddns' = ddns /\ host' = host /\ record' = record
        /\ step' = "resolve" /\ resolver' = 1 /\ seen' = HostAddresses(host)
        /\ found' = found /\ cachedIP' = cachedIP /\ read' = read /\ read = None
    BY <1>1 DEF BeginCheck, DdnsInv, DdnsTypeOK
  <2>2. HostAddresses(host) \subseteq Addresses
    BY <1>0, HostFact
  <2>3. 1 \in 0 .. ddns.resolvers
    BY <1>0, <2>1
  <2>4. DdnsTypeOK'
    BY <1>0, <2>1, <2>2, <2>3 DEF DdnsInv, DdnsTypeOK
  <2> QED BY <1>0, <2>1, <2>4 DEF DdnsInv, HostSeen, FoundRight, ReadRight
<1>2. ASSUME NEW answer \in Addresses \cup {None}, QueryIP(answer) PROVE DdnsInv'
  <2>1. /\ step = "resolve" /\ step' = "read" /\ found' = answer /\ resolver' = 0
        /\ ddns' = ddns /\ host' = host /\ record' = record /\ seen' = seen
        /\ cachedIP' = cachedIP /\ read' = read
        /\ answer \in Answers
        /\ answer # None /\ Supported(ddns.type)
        /\ answer.public /\ answer.family = ddns.type
    BY <1>2 DEF QueryIP, Acceptable, ValidAddress
  <2>2. ddns # None /\ read = None
    BY <2>1 DEF DdnsInv, DdnsTypeOK
  <2>3. answer \in seen
    <3>1. CASE quiet
      <4>1. answer = host[ddns.type] /\ ddns.type \in {"A", "AAAA"}
        BY <2>1, <3>1 DEF Answers, Supported
      <4>2. answer \in HostAddresses(host)
        BY <1>0, <2>1, <4>1, HostFact
      <4> QED BY <2>1, <4>2 DEF DdnsInv, HostSeen
    <3>2. CASE ~quiet
      BY <2>1, <3>2 DEF Answers
    <3> QED BY <3>1, <3>2
  <2>4. 0 \in 0 .. ddns.resolvers
    BY <1>0, <2>2
  <2>5. DdnsTypeOK'
    BY <1>0, <2>1, <2>2, <2>4 DEF DdnsInv, DdnsTypeOK
  <2>6. HostSeen'
    BY <2>1 DEF DdnsInv, HostSeen
  <2> QED BY <1>0, <2>1, <2>3, <2>5, <2>6 DEF DdnsInv, FoundRight, ReadRight
<1>3. ASSUME NEW answer \in Addresses \cup {None}, NextResolver(answer) PROVE DdnsInv'
  <2>1. /\ step = "resolve"
        /\ ddns' = ddns /\ host' = host /\ record' = record /\ cachedIP' = cachedIP
    BY <1>3 DEF NextResolver
  <2>2. CASE EndCheck
    BY <1>0, <2>1, <2>2, AtRest
  <2>3. CASE ~EndCheck
    <3>1. /\ resolver < ddns.resolvers /\ resolver' = resolver + 1
          /\ UNCHANGED <<step, found, seen, read>>
      BY <1>3, <2>3 DEF NextResolver
    <3>2. ddns # None /\ resolver \in 0 .. ddns.resolvers
      BY <2>1 DEF DdnsInv, DdnsTypeOK
    <3>3. resolver' \in 0 .. ddns.resolvers
      BY <1>0, <3>1, <3>2
    <3>4. DdnsTypeOK'
      BY <1>0, <2>1, <3>1, <3>2, <3>3 DEF DdnsInv, DdnsTypeOK
    <3> QED BY <1>0, <2>1, <3>1, <3>4 DEF DdnsInv, HostSeen, FoundRight, ReadRight
  <2> QED BY <2>2, <2>3
<1>4. CASE GetDNSRecord
  <2>1. step = "read" /\ ddns' = ddns /\ host' = host /\ record' = record
    BY <1>4 DEF GetDNSRecord
  <2>2. found \in Addresses /\ ddns # None /\ resolver \in 0 .. ddns.resolvers
    BY <2>1 DEF DdnsInv, DdnsTypeOK, FoundRight
  <2>3. CASE EndCheck
    <3>1. cachedIP' \in Addresses \cup {None}
      BY <1>0, <1>4, <2>1, <2>2 DEF GetDNSRecord
    <3> QED BY <1>0, <2>1, <2>3, <3>1, AtRest
  <2>4. CASE ~EndCheck
    <3>1. /\ ValidRecord(record, ddns.type) /\ NeedsUpdate
          /\ step' = "update" /\ read' = record
          /\ UNCHANGED <<resolver, found, seen, cachedIP>>
      BY <1>4, <2>4 DEF GetDNSRecord
    <3>2. DdnsTypeOK'
      BY <1>0, <2>1, <2>2, <3>1 DEF DdnsInv, DdnsTypeOK
    <3>3. HostSeen' /\ FoundRight'
      BY <2>1, <3>1 DEF DdnsInv, HostSeen, FoundRight
    <3>4. ReadRight'
      BY <2>1, <3>1 DEF ReadRight, ValidRecord, NeedsUpdate
    <3> QED BY <1>0, <2>1, <3>2, <3>3, <3>4 DEF DdnsInv
  <2> QED BY <2>3, <2>4
<1>5. ASSUME NEW answered \in BOOLEAN, UpdateDNSRecord(answered) PROVE DdnsInv'
  <2>1. /\ step = "update" /\ EndCheck /\ ddns' = ddns /\ host' = host
        /\ record' = [type |-> ddns.type, name |-> Domain, content |-> found]
        /\ cachedIP' \in {found, cachedIP}
    BY <1>5 DEF UpdateDNSRecord
  <2> QED BY <1>0, <2>1, AtRest, WrittenRecord
<1>6. CASE UpdateFails
  <2>1. EndCheck /\ ddns' = ddns /\ host' = host /\ record' = record /\ cachedIP' = cachedIP
    BY <1>6 DEF UpdateFails
  <2> QED BY <1>0, <2>1, AtRest
<1> QED BY <1>1, <1>2, <1>3, <1>4, <1>5, <1>6 DEF Check

LEMMA WorldKeeps ==
  ASSUME DdnsInv, ddns # None, World
  PROVE  DdnsInv'
<1> USE StartupAssumption
<1>1. ASSUME NEW h \in Hosts, HostChanges(h) PROVE DdnsInv'
  <2>1. /\ host' = h /\ seen' = IF step = "idle" THEN {} ELSE seen \cup HostAddresses(h)
        /\ UNCHANGED <<ddns, record, step, resolver, found, cachedIP, read>>
    BY <1>1 DEF HostChanges
  <2>2. HostAddresses(h) \subseteq Addresses
    BY HostFact
  <2>3. DdnsTypeOK'
    BY <2>1, <2>2 DEF DdnsInv, DdnsTypeOK
  <2>4. HostSeen'
    BY <2>1 DEF HostSeen, HostAddresses
  <2>5. FoundRight' /\ ReadRight'
    BY <2>1 DEF DdnsInv, FoundRight, ReadRight
  <2> QED BY <2>1, <2>3, <2>4, <2>5 DEF DdnsInv
<1>2. ASSUME NEW r \in Records, OthersEdit(r) PROVE DdnsInv'
  BY <1>2 DEF OthersEdit, check, DdnsInv, DdnsTypeOK, HostSeen, FoundRight, ReadRight, HostAddresses
<1>3. CASE Calm
  BY <1>3 DEF Calm, check, DdnsInv, DdnsTypeOK, HostSeen, FoundRight, ReadRight, HostAddresses
<1> QED BY <1>1, <1>2, <1>3 DEF World

(* A loop that is cut off is at rest (the end of the process).             *)
LEMMA CutOff ==
  ASSUME DdnsInv, DdnsEnds
  PROVE  DdnsInv' /\ ddns' = None
<1>1. EndCheck /\ ddns' = None /\ host' = host /\ cachedIP' = None
  BY DEF DdnsEnds
<1>2. record' # None
  <2>1. CASE step = "update"
    BY <2>1, WrittenRecord DEF DdnsEnds, DdnsInv
  <2>2. CASE step # "update"
    BY <2>2 DEF DdnsEnds, DdnsInv
  <2> QED BY <2>1, <2>2
<1> QED BY <1>1, <1>2, AtRest DEF DdnsInv, DdnsTypeOK

(* What applyDefaults makes of the loop always has a resolver to ask.      *)
LEMMA NormalFact ==
  ASSUME NEW d \in DdnsConfigs \cup {None}
  PROVE  /\ NormalizeDdns(d) \in DdnsConfigs \cup {None}
         /\ NormalizeDdns(d) # None => NormalizeDdns(d).resolvers # 0
<1>1. CASE d = None
  BY <1>1 DEF NormalizeDdns
<1>2. CASE d # None
  <2>1. d \in DdnsConfigs
    BY <1>2
  <2> DEFINE type == IF d.type = None THEN "A" ELSE d.type
             number == IF d.resolvers = 0 THEN 2 ELSE d.resolvers
  <2>2. NormalizeDdns(d) = [d EXCEPT !.type = type, !.resolvers = number]
    BY <1>2 DEF NormalizeDdns
  <2>3. type \in {"A", "AAAA", "other", None} /\ number \in Nat \ {0}
    BY <2>1 DEF DdnsConfigs
  <2> HIDE DEF type, number
  <2>4. NormalizeDdns(d) \in DdnsConfigs /\ NormalizeDdns(d).resolvers = number
    BY <2>1, <2>2, <2>3 DEF DdnsConfigs
  <2> QED BY <2>3, <2>4
<1> QED BY <1>1, <1>2

(* The core that is loaded next is one of the cores, and no other is the
   same (its keys are those of a map).                                     *)
LEMMA NextCore ==
  ASSUME Places, next <= Len(CoreIds)
  PROVE  /\ CoreIds[next] \in Ids
         /\ next + 1 \in 1 .. (Len(CoreIds) + 1)
         /\ next \in next .. Len(CoreIds)
         /\ \A k \in next + 1 .. Len(CoreIds) :
              k \in next .. Len(CoreIds) /\ CoreIds[k] # CoreIds[next] /\ CoreIds[k] \in Ids
<1>1. CoreIds \in Seq(Ids) /\ Len(CoreIds) \in Nat /\ DOMAIN CoreIds = 1 .. Len(CoreIds)
  BY StartupAssumption
<1>2. next \in 1 .. Len(CoreIds)
  BY <1>1 DEF Places
<1>3. \A k \in next + 1 .. Len(CoreIds) : k \in DOMAIN CoreIds /\ k # next
  BY <1>1, <1>2
<1>4. \A k \in next + 1 .. Len(CoreIds) : CoreIds[k] # CoreIds[next]
  BY <1>1, <1>2, <1>3, StartupAssumption
<1>5. \A k \in DOMAIN CoreIds : CoreIds[k] \in Ids
  BY DEF Ids
<1> QED BY <1>1, <1>2, <1>3, <1>4, <1>5

(* One more core is loaded, and the others are as they were.               *)
LEMMA LoadedOneMore ==
  ASSUME Places, Loaded, phase = "cores", phase' = "cores", next <= Len(CoreIds), next' = next + 1,
         UNCHANGED <<raw, cfg>>,
         NEW core, core = CoreIds[next], Running(core)' <=> SwitchedOn(core),
         \A id \in Ids : id # core => (Running(id)' <=> Running(id))
  PROVE  Loaded'
<1>1. CoreIds \in Seq(Ids) /\ Len(CoreIds) \in Nat /\ DOMAIN CoreIds = 1 .. Len(CoreIds)
  BY StartupAssumption
<1>2. next \in 1 .. Len(CoreIds)
  BY <1>1 DEF Places
<1>3. LoadedUpTo(next) /\ cfg.cores = NormalizeCores(raw)
  BY DEF Loaded
<1>4. ASSUME NEW k \in 1 .. next PROVE Running(CoreIds[k])' <=> SwitchedOn(CoreIds[k])
  <2>1. CASE k = next
    BY <2>1
  <2>2. CASE k # next
    <3>1. k \in DOMAIN CoreIds /\ next \in DOMAIN CoreIds /\ k \in 1 .. (next - 1)
      BY <1>1, <1>2, <2>2
    <3>2. CoreIds[k] # core /\ CoreIds[k] \in Ids
      BY <2>2, <3>1, StartupAssumption DEF Ids
    <3>3. Running(CoreIds[k]) <=> SwitchedOn(CoreIds[k])
      BY <1>3, <3>1 DEF LoadedUpTo
    <3> QED BY <3>2, <3>3
  <2> QED BY <2>1, <2>2
<1>5. 1 .. (next' - 1) = 1 .. next
  BY <1>2
<1>6. \A k \in 1 .. next : SwitchedOn(CoreIds[k])' <=> SwitchedOn(CoreIds[k])
  BY DEF SwitchedOn
<1>7. LoadedUpTo(next)'
  BY <1>4, <1>5, <1>6 DEF LoadedUpTo
<1> QED BY <1>3, <1>7 DEF Loaded

(* A step that leaves cores and configuration alone, within the start.     *)
LEMMA StaysLoaded ==
  ASSUME Loaded, UNCHANGED <<raw, cfg, next, runtimes>>, phase \in {"sync", "serving"},
         phase' \in {"sync", "serving"}
  PROVE  Loaded'
BY DEF Loaded, LoadedUpTo, SwitchedOn, Running, Usable

(* A core that cannot be made has left no connection behind it.            *)
LEMMA NothingDialled ==
  ASSUME NEW item, NEW file, CreateFails(item, file), Factory(item.type) \notin {None, "stub"}
  PROVE  ~StatsReader(item, file)
BY DEF CreateFails, StatsReader, ConfigManagerWorks

-----------------------------------------------------------------------------
(* The steps of the start, one by one.                                     *)
(* Entering a core keeps what is known of the others, and opens at most the
   connection of that core (NewManager's loop).                            *)
LEMMA Entered ==
  ASSUME PanelInv, phase = "cores", phase' = "cores", next <= Len(CoreIds), next' = next + 1,
         UNCHANGED <<ddns, site, raw, cfg, pending, skipped>>,
         NEW runtime \in Runtimes, (runtime.adapter = None) = ~runtime.enabled,
         runtimes' = [runtimes EXCEPT ![CoreIds[next]] = runtime],
         readers' = readers \/ (readers' = readers \cup {CoreIds[next]} /\ runtime.enabled),
         runtime.enabled <=> SwitchedOn(CoreIds[next]),
         inCore' \in [Ids -> SUBSET Users]
  PROVE  PanelInv'
<1> USE StartupAssumption, RecordsAssumption
<1>1. /\ Places /\ Shapes /\ NotYet /\ ReadersRun
      /\ CoreIds[next] \in Ids /\ next' \in 1 .. (Len(CoreIds) + 1)
  BY NextCore DEF PanelInv
<1>2. /\ runtimes \in [Ids -> Runtimes \cup {None}] /\ runtime # None
      /\ runtimes' \in [Ids -> Runtimes \cup {None}]
      /\ runtimes'[CoreIds[next]] = runtime
      /\ \A id \in Ids : id # CoreIds[next] => runtimes'[id] = runtimes[id]
  BY <1>1 DEF Shapes
<1>3. runtimes[CoreIds[next]] = None
  BY <1>1, NextCore DEF NotYet
<1>4. Places'
  BY <1>1, <1>2 DEF Places
<1>5. Shapes'
  BY <1>1, <1>2 DEF Shapes
<1>6. NotYet'
  BY <1>1, <1>2, NextCore DEF NotYet
<1>7. CoreIds[next] \notin readers
  BY <1>1, <1>3 DEF ReadersRun, Running
<1>8. ReadersRun'
  <2> SUFFICES ASSUME NEW id \in readers' PROVE id \in Ids /\ Running(id)'
    BY DEF ReadersRun
  <2>1. CASE id \in readers
    BY <1>1, <1>2, <1>7, <2>1 DEF ReadersRun, Running
  <2>2. CASE id \notin readers
    BY <1>1, <1>2, <2>2 DEF Running
  <2> QED BY <2>1, <2>2
<1>9. NothingLeftOpen' /\ Accounted' /\ ServingDone'
  BY DEF NothingLeftOpen, Accounted, ServingDone
<1>10. PICK core : core = CoreIds[next]
  OBVIOUS
<1>11. Running(core)' <=> SwitchedOn(core)
  <2>1. runtimes'[core] = runtime /\ runtime # None
    BY <1>2, <1>10
  <2>2. runtime.enabled => runtime.adapter # None
    OBVIOUS
  <2> QED BY <1>10, <2>1, <2>2 DEF Running
<1>12. \A id \in Ids : id # core => (Running(id)' <=> Running(id))
  BY <1>2, <1>10 DEF Running
<1>13. Loaded'
  BY <1>10, <1>11, <1>12, LoadedOneMore DEF PanelInv
<1> QED BY <1>4, <1>5, <1>6, <1>8, <1>9, <1>13 DEF PanelInv

LEMMA LoadCoreStep ==
  ASSUME PanelInv, LoadCore
  PROVE  PanelInv'
<1> DEFINE id == CoreIds[next]
           item == cfg.cores.items[id]
<1> USE StartupAssumption, RecordsAssumption
<1>1. /\ phase = "cores" /\ next <= Len(CoreIds) /\ next' = next + 1 /\ phase' = "cores"
      /\ UNCHANGED <<ddns, site, raw, cfg, pending, skipped>>
  BY DEF LoadCore, ddnsVars
<1>2. Places /\ Shapes /\ NotYet /\ ReadersRun /\ id \in Ids /\ next' \in 1 .. (Len(CoreIds) + 1)
  BY <1>1, NextCore DEF PanelInv
<1>3. inCore \in [Ids -> SUBSET Users]
  BY <1>2 DEF Shapes
<1>4. CASE item = None
  <2>1. UNCHANGED <<runtimes, readers, inCore>>
    BY <1>4 DEF LoadCore
  <2>2. Places'
    BY <1>1, <1>2, <2>1 DEF Places
  <2>3. Shapes' /\ ReadersRun'
    BY <1>1, <1>2, <2>1 DEF Shapes, ReadersRun, Running
  <2>4. NotYet'
    BY <1>1, <1>2, <2>1, NextCore DEF NotYet
  <2>5. NothingLeftOpen' /\ Accounted' /\ ServingDone'
    BY <1>1 DEF NothingLeftOpen, Accounted, ServingDone
  <2>6. PICK core : core = id
    OBVIOUS
  <2>9. ~Running(core)' /\ ~SwitchedOn(core)
    <3>1. runtimes[core] = None
      BY <1>1, <1>2, <2>6, NextCore DEF NotYet
    <3> QED BY <1>4, <2>1, <2>6, <3>1 DEF Running, SwitchedOn
  <2>7. \A i \in Ids : Running(i)' <=> Running(i)
    BY <2>1 DEF Running
  <2>8. Loaded'
    BY <1>1, <2>6, <2>7, <2>9, LoadedOneMore DEF PanelInv
  <2> QED BY <2>2, <2>3, <2>4, <2>5, <2>8 DEF PanelInv
<1>5. CASE item # None /\ ~item.enabled
  <2> DEFINE off == [enabled |-> FALSE, adapter |-> None, caps |-> {}]
  <2>1. /\ runtimes' = [runtimes EXCEPT ![id] = off]
        /\ UNCHANGED <<readers, inCore>>
    BY <1>5 DEF LoadCore
  <2>2. off \in Runtimes /\ (off.adapter = None) = ~off.enabled
    BY DEF Runtimes
  <2>3. off.enabled <=> SwitchedOn(id)
    BY <1>5 DEF SwitchedOn
  <2> HIDE DEF off
  <2> QED BY <1>1, <1>3, <2>1, <2>2, <2>3, Entered
<1>6. CASE item # None /\ item.enabled
  <2> DEFINE on == [enabled |-> TRUE, adapter |-> Factory(item.type), caps |-> Capabilities(item)]
  <2>1. /\ ~CreateFails(item, files[id])
        /\ runtimes' = [runtimes EXCEPT ![id] = on]
        /\ readers' = readers \/ readers' = readers \cup {id}
        /\ inCore' = inCore \/ inCore' = [inCore EXCEPT ![id] = {}]
    BY <1>3, <1>6 DEF LoadCore
  <2>2. Factory(item.type) \in {"stub", "singbox", "xray", "v2ray"}
    BY <2>1 DEF CreateFails, Factory
  <2>3. Capabilities(item) \subseteq StubCaps
    BY DEF Capabilities, StubCaps
  <2>4. on \in Runtimes /\ on.enabled = TRUE /\ (on.adapter = None) = ~on.enabled
    BY <2>2, <2>3 DEF Runtimes
  <2>5. inCore' \in [Ids -> SUBSET Users]
    BY <1>2, <1>3, <2>1
  <2>6. on.enabled <=> SwitchedOn(id)
    BY <1>6 DEF SwitchedOn
  <2> HIDE DEF on
  <2> QED BY <1>1, <2>1, <2>4, <2>5, <2>6, Entered
<1> QED BY <1>4, <1>5, <1>6 DEF LoadCore

LEMMA BootStarts ==
  ASSUME PanelInv, Boot
  PROVE  PanelInv'
<1> USE StartupAssumption, RecordsAssumption
<1>1. /\ phase = "down" /\ phase' = "cores" /\ cfg' = ApplyDefaults(raw) /\ next' = 1 /\ next = 1
      /\ UNCHANGED <<ddns, site, raw, runtimes, readers, files, inCore, pending, skipped>>
      /\ Places /\ Shapes /\ NotYet /\ ReadersRun
  BY DEF Boot, PanelInv, NotYet, ddnsVars
<1>2. raw.ddns \in DdnsConfigs \cup {None} /\ cfg' # None
  BY <1>1 DEF Shapes
<1>3. cfg'.ddns = NormalizeDdns(raw.ddns)
  BY <1>1 DEF ApplyDefaults
<1>4. Places'
  BY <1>1, <1>2 DEF Places
<1>5. Shapes'
  BY <1>1, <1>2, <1>3, NormalFact DEF Shapes
<1>6. NotYet' /\ ReadersRun'
  BY <1>1 DEF NotYet, ReadersRun, Running
<1>7. NothingLeftOpen' /\ Accounted' /\ ServingDone'
  BY <1>1 DEF NothingLeftOpen, Accounted, ServingDone
<1>8. cfg'.cores = NormalizeCores(raw')
  BY <1>1 DEF ApplyDefaults
<1>9. LoadedUpTo(1)'
  BY DEF LoadedUpTo
<1>10. Loaded'
  BY <1>1, <1>8, <1>9 DEF Loaded
<1> QED BY <1>4, <1>5, <1>6, <1>7, <1>10 DEF PanelInv

(* A step that ends the start or the process with every connection closed. *)
LEMMA Ended ==
  ASSUME PanelInv, phase' \in {"failed", "done"}, phase # "down", readers' = {}, ddns' = None,
         UNCHANGED <<site, raw, cfg, next, runtimes, inCore, pending, skipped>>
  PROVE  PanelInv'
<1>1. Places' /\ Shapes'
  BY DEF PanelInv, Places, Shapes
<1>2. NotYet' /\ ReadersRun'
  BY DEF NotYet, ReadersRun
<1>3. NothingLeftOpen' /\ Loaded' /\ Accounted' /\ ServingDone'
  BY DEF PanelInv, NothingLeftOpen, Loaded, Accounted, ServingDone
<1> QED BY <1>1, <1>2, <1>3 DEF PanelInv

LEMMA LoadCoreFailsStep ==
  ASSUME PanelInv, LoadCoreFails
  PROVE  PanelInv'
<1> DEFINE id == CoreIds[next]
           item == cfg.cores.items[id]
           dialled == IF Factory(item.type) \notin {None, "stub"} /\ StatsReader(item, files[id])
                        THEN {id} ELSE {}
<1>1. /\ phase = "cores" /\ phase' = "failed" /\ CreateFails(item, files[id])
      /\ readers' = (readers \ {i \in Ids : Running(i)}) \cup dialled
      /\ UNCHANGED <<ddns, site, raw, cfg, next, runtimes, inCore, pending, skipped>>
  BY DEF LoadCoreFails, ddnsVars
<1>2. dialled = {}
  BY <1>1, NothingDialled
<1>3. readers' = {} /\ ddns' = None
  BY <1>1, <1>2 DEF PanelInv, ReadersRun, Places
<1> QED BY <1>1, <1>3, Ended

LEMMA FinishCoresStep ==
  ASSUME PanelInv, NEW listed \in BOOLEAN, FinishCores(listed)
  PROVE  PanelInv'
<1>1. /\ phase = "cores" /\ UNCHANGED <<ddns, site, raw, cfg, next, runtimes, inCore>>
      /\ Places /\ Shapes /\ NotYet /\ ReadersRun /\ ddns = None
  BY DEF FinishCores, PanelInv, Places, ddnsVars
<1>2. CASE Usable(cfg.cores.default)
  <2>1. /\ phase' = "sync" /\ readers' = readers
        /\ pending' = IF listed THEN {u \in Users : site.rows[u].enabled} ELSE {}
        /\ skipped' = IF listed THEN {} ELSE Users
    BY <1>2 DEF FinishCores
  <2>2. Places' /\ Shapes' /\ NotYet' /\ ReadersRun'
    BY <1>1, <2>1 DEF Places, Shapes, NotYet, ReadersRun, Running
  <2>3. Loaded'
    <3>1. next = Len(CoreIds) + 1
      BY <1>1, StartupAssumption DEF FinishCores, Places
    <3>2. Loaded
      BY DEF PanelInv
    <3> QED BY <1>1, <1>2, <2>1, <3>1, <3>2 DEF Loaded, LoadedUpTo, SwitchedOn, Usable, Running
  <2>4. Accounted'
    BY <1>1, <2>1 DEF Accounted
  <2>5. NothingLeftOpen' /\ ServingDone'
    BY <2>1 DEF NothingLeftOpen, ServingDone
  <2> QED BY <2>2, <2>3, <2>4, <2>5 DEF PanelInv
<1>3. CASE ~Usable(cfg.cores.default)
  <2>1. phase' = "failed" /\ UNCHANGED <<pending, skipped>>
        /\ readers' = readers \ {id \in Ids : Running(id)}
    BY <1>3 DEF FinishCores, Close
  <2>2. readers' = {}
    BY <1>1, <2>1 DEF ReadersRun
  <2> QED BY <1>1, <2>1, <2>2, Ended
<1> QED BY <1>2, <1>3

LEMMA SyncUserStep ==
  ASSUME PanelInv, NEW u \in Users, NEW written \in BOOLEAN, SyncUser(u, written)
  PROVE  PanelInv'
<1> DEFINE id == CoreOf(u)
           usable == id \in Ids /\ Running(id)
           added == /\ usable
                    /\ "add_user" \in runtimes[id].caps
                    /\ runtimes[id].adapter # "stub" => cfg.cores.items[id].path /\ written
<1>1. /\ phase = "sync" /\ phase' = "sync"
      /\ inCore' = IF added THEN [inCore EXCEPT ![id] = @ \cup {u}] ELSE inCore
      /\ skipped' = IF usable /\ ~added THEN skipped \cup {u} ELSE skipped
      /\ pending' = pending \ {u}
      /\ UNCHANGED <<ddns, site, raw, cfg, next, runtimes, readers>>
  BY DEF SyncUser, LeftToSync, ddnsVars
<1>2. Places /\ Shapes /\ NotYet /\ ReadersRun /\ Loaded /\ Accounted
      /\ inCore \in [Ids -> SUBSET Users]
  BY DEF PanelInv, Shapes
<1>3. added => usable /\ id \in Ids
  OBVIOUS
<1> HIDE DEF added
<1>4. inCore' \in [Ids -> SUBSET Users]
      /\ \A core \in Ids : inCore[core] \subseteq inCore'[core]
      /\ (added => u \in inCore'[id])
  BY <1>1, <1>2, <1>3
<1>5. Places' /\ Shapes' /\ NotYet' /\ ReadersRun'
  BY <1>1, <1>2, <1>4 DEF Places, Shapes, NotYet, ReadersRun, Running
<1>6. Loaded'
  BY <1>1, <1>2, StaysLoaded
<1>7. Accounted'
  <2> SUFFICES ASSUME NEW v \in Users, site.rows[v].enabled, Usable(CoreOf(v))
               PROVE  v \in pending' \/ v \in skipped' \/ v \in inCore'[CoreOf(v)]
    BY <1>1 DEF Accounted, Usable, Running, CoreOf
  <2>1. CASE v = u
    BY <1>1, <1>4, <2>1 DEF Usable
  <2>2. CASE v # u
    <3>1. v \in pending \/ v \in skipped \/ v \in inCore[CoreOf(v)]
      BY <1>1, <1>2 DEF Accounted
    <3> QED BY <1>1, <1>4, <2>2, <3>1 DEF Usable
  <2> QED BY <2>1, <2>2
<1>8. NothingLeftOpen' /\ ServingDone'
  BY <1>1 DEF NothingLeftOpen, ServingDone
<1> QED BY <1>5, <1>6, <1>7, <1>8 DEF PanelInv

(* While the panel serves, the loop and the world leave the rest alone.    *)
LEMMA Frame ==
  ASSUME PanelInv, UNCHANGED panel, ddns' # None => phase = "serving"
  PROVE  PanelInv'
<1>1. UNCHANGED <<site, raw, cfg, phase, next, runtimes, readers, inCore, pending, skipped>>
  BY DEF panel
<1>2. Places' /\ Shapes' /\ NotYet' /\ ReadersRun'
  BY <1>1 DEF PanelInv, Places, Shapes, NotYet, ReadersRun, Running
<1>3. NothingLeftOpen' /\ Accounted' /\ ServingDone'
  BY <1>1 DEF PanelInv, NothingLeftOpen, Accounted, ServingDone, Usable, Running, CoreOf
<1>4. Loaded'
  BY <1>1 DEF PanelInv, Loaded, LoadedUpTo, SwitchedOn, Usable, Running
<1> QED BY <1>2, <1>3, <1>4 DEF PanelInv

LEMMA StopStep ==
  ASSUME DdnsInv, PanelInv, NEW changed \in site.configs, Stop(changed)
  PROVE  PanelInv'
<1> USE StartupAssumption
<1>1. /\ phase' = "down" /\ raw' = changed /\ cfg' = None /\ runtimes' = NoRuntimes
      /\ readers' = {} /\ next' = 1 /\ pending' = {} /\ skipped' = {} /\ ddns' = None
      /\ UNCHANGED <<site, inCore>>
  BY CutOff DEF Stop
<1>2. \A id \in Ids : runtimes'[id] = None
  BY <1>1 DEF NoRuntimes
<1>3. Len(CoreIds) \in Nat /\ \A k \in 1 .. Len(CoreIds) : CoreIds[k] \in Ids
  OBVIOUS
<1>4. Places'
  BY <1>1, <1>2, <1>3 DEF Places
<1>5. Shapes'
  BY <1>1 DEF PanelInv, Shapes, NoRuntimes
<1>6. NotYet'
  BY <1>1, <1>2, <1>3 DEF NotYet
<1>7. ReadersRun' /\ NothingLeftOpen' /\ Loaded' /\ Accounted' /\ ServingDone'
  BY <1>1 DEF ReadersRun, NothingLeftOpen, Loaded, Accounted, ServingDone
<1> QED BY <1>4, <1>5, <1>6, <1>7 DEF PanelInv

-----------------------------------------------------------------------------
LEMMA StartupStep == DdnsInv /\ PanelInv /\ [Next]_vars => DdnsInv' /\ PanelInv'
<1> SUFFICES ASSUME DdnsInv, PanelInv, [Next]_vars PROVE DdnsInv' /\ PanelInv'
  OBVIOUS
<1> USE StartupAssumption, RecordsAssumption
<1>0. Places /\ Shapes
  BY DEF PanelInv
<1>1. ASSUME UNCHANGED ddnsVars PROVE DdnsInv'
  <2>1. UNCHANGED <<ddns, host, record, step, resolver, found, cachedIP, seen, read>>
    BY <1>1 DEF ddnsVars
  <2>2. DdnsTypeOK'
    BY <2>1 DEF DdnsInv, DdnsTypeOK
  <2>3. HostSeen' /\ FoundRight' /\ ReadRight'
    BY <2>1 DEF DdnsInv, HostSeen, FoundRight, ReadRight, HostAddresses
  <2> QED BY <2>1, <2>2, <2>3 DEF DdnsInv
<1>2. CASE Boot
  BY <1>1, <1>2, BootStarts DEF Boot
<1>3. CASE LoadCore
  BY <1>1, <1>3, LoadCoreStep DEF LoadCore
<1>4. CASE LoadCoreFails
  BY <1>1, <1>4, LoadCoreFailsStep DEF LoadCoreFails
<1>5. ASSUME NEW listed \in BOOLEAN, FinishCores(listed) PROVE DdnsInv' /\ PanelInv'
  BY <1>1, <1>5, FinishCoresStep DEF FinishCores
<1>6. ASSUME NEW u \in Users, NEW written \in BOOLEAN, SyncUser(u, written)
      PROVE  DdnsInv' /\ PanelInv'
  BY <1>1, <1>6, SyncUserStep DEF SyncUser
<1>7. CASE InitOnce
  <2>1. /\ phase = "sync" /\ phase' = "done" /\ UNCHANGED ddnsVars
        /\ readers' = readers \ {id \in Ids : Running(id)}
        /\ UNCHANGED <<site, raw, cfg, next, runtimes, inCore, pending, skipped>>
    BY <1>7 DEF InitOnce, Close
  <2>2. readers' = {} /\ ddns' = None
    BY <1>0, <2>1 DEF PanelInv, ReadersRun, Places, ddnsVars
  <2> QED BY <1>1, <2>1, <2>2, Ended
<1>8. CASE Serve
  <2>1. /\ phase = "sync" /\ phase' = "serving" /\ pending = {} /\ ddns' = BuildDdns(cfg.ddns)
        /\ UNCHANGED <<host, record, quiet, step, resolver, found, cachedIP, seen, read>>
        /\ UNCHANGED <<site, raw, cfg, next, runtimes, readers, inCore, pending, skipped>>
    BY <1>8 DEF Serve, check
  <2>2. step = "idle"
    BY <1>0, <2>1 DEF Places, DdnsInv, DdnsTypeOK
  <2>3. ddns' # None => ddns'.resolvers \in Nat \ {0}
    <3>1. ddns' # None => cfg.ddns # None /\ ddns'.resolvers = cfg.ddns.resolvers
      BY <2>1 DEF BuildDdns
    <3>2. cfg.ddns # None => cfg.ddns.resolvers \in Nat \ {0}
      BY <1>0, <2>1 DEF Shapes, DdnsConfigs
    <3> QED BY <3>1, <3>2
  <2>4. DdnsInv'
    BY <2>1, <2>2, <2>3 DEF DdnsInv, DdnsTypeOK, HostSeen, FoundRight, ReadRight
  <2>5. Places' /\ Shapes' /\ NotYet' /\ ReadersRun'
    BY <2>1 DEF PanelInv, Places, Shapes, NotYet, ReadersRun, Running
  <2>6. NothingLeftOpen' /\ Accounted' /\ ServingDone'
    BY <2>1 DEF PanelInv, NothingLeftOpen, Accounted, ServingDone, Usable, Running, CoreOf
  <2>7. Loaded'
    BY <2>1, StaysLoaded DEF PanelInv
  <2> QED BY <2>4, <2>5, <2>6, <2>7 DEF PanelInv
<1>9. CASE ServeFails
  <2>1. /\ phase = "serving" /\ phase' = "failed" /\ readers' = {} /\ DdnsEnds
        /\ UNCHANGED <<site, raw, cfg, next, runtimes, inCore, pending, skipped>>
    BY <1>9 DEF ServeFails
  <2>2. DdnsInv' /\ ddns' = None
    BY <2>1, CutOff
  <2> QED BY <2>1, <2>2, Ended
<1>10. ASSUME NEW changed \in site.configs, Stop(changed) PROVE DdnsInv' /\ PanelInv'
  BY <1>10, CutOff, StopStep DEF Stop
<1>11. CASE DdnsStep
  <2>1. phase = "serving" /\ Check /\ UNCHANGED panel
    BY <1>11 DEF DdnsStep
  <2> QED BY <2>1, CheckStep, Frame
<1>12. CASE WorldStep
  <2>1. phase = "serving" /\ ddns # None /\ World /\ UNCHANGED panel
    BY <1>12 DEF WorldStep
  <2> QED BY <2>1, WorldKeeps, Frame
<1>13. CASE UNCHANGED vars
  <2>1. UNCHANGED ddnsVars /\ UNCHANGED panel /\ ddns' = ddns
    BY <1>13 DEF vars, panel, ddnsVars
  <2>2. ddns' # None => phase = "serving"
    BY <1>0, <2>1 DEF Places
  <2> QED BY <1>1, <2>1, <2>2, Frame
<1> QED BY <1>2, <1>3, <1>4, <1>5, <1>6, <1>7, <1>8, <1>9, <1>10, <1>11, <1>12, <1>13
       DEF Next, BootStep

LEMMA StartupInvariant == Spec => [](DdnsInv /\ PanelInv)
<1> USE StartupAssumption, RecordsAssumption
<1>1. Init => DdnsInv /\ PanelInv
  <2> SUFFICES ASSUME Init PROVE DdnsInv /\ PanelInv
    OBVIOUS
  <2>1. /\ site \in Sites /\ host \in Hosts /\ record \in Records /\ raw \in site.configs
    BY DEF Init, InitDdns
  <2>2. DdnsInv
    BY <2>1 DEF Init, InitDdns, DdnsInv, DdnsTypeOK, HostSeen, FoundRight, ReadRight
  <2>3. Len(CoreIds) \in Nat /\ \A k \in 1 .. Len(CoreIds) : CoreIds[k] \in Ids
    OBVIOUS
  <2>4. \A id \in Ids : runtimes[id] = None
    BY DEF Init, NoRuntimes
  <2>5. Places
    BY <2>3, <2>4 DEF Init, InitDdns, Places
  <2>6. Shapes
    BY <2>1 DEF Init, Shapes, NoRuntimes
  <2>7. NotYet
    BY <2>3, <2>4 DEF Init, NotYet
  <2>8. ReadersRun /\ NothingLeftOpen /\ Loaded /\ Accounted /\ ServingDone
    BY DEF Init, ReadersRun, NothingLeftOpen, Loaded, Accounted, ServingDone
  <2> QED BY <2>2, <2>5, <2>6, <2>7, <2>8 DEF PanelInv
<1>2. DdnsInv /\ PanelInv /\ [Next]_vars => (DdnsInv /\ PanelInv)'
  BY StartupStep
<1> QED BY <1>1, <1>2, PTL DEF Spec

(* Every variable of the start and of the loop keeps its type; the loop runs
   only while the panel serves, and always has a resolver to ask.          *)
THEOREM TypeCorrect == Spec => []TypeOK
<1>1. DdnsInv /\ PanelInv => TypeOK
  <2> SUFFICES ASSUME DdnsInv, PanelInv PROVE TypeOK
    OBVIOUS
  <2>1. Places /\ DdnsTypeOK /\ inCore \in [Ids -> SUBSET Users]
    BY DEF DdnsInv, PanelInv, Shapes
  <2> QED BY <2>1 DEF Places, TypeOK
<1> QED BY <1>1, StartupInvariant, PTL

Described(c) == {id \in Ids : c.items[id] # None}
Chosen(c) ==
  {id \in Described(c) : IF c.enabled = {} THEN c.items[id].enabled ELSE id \in c.enabled}

LEMMA SwitchedItem ==
  ASSUME NEW item \in CoreItems, NEW on \in BOOLEAN
  PROVE  /\ [item EXCEPT !.enabled = on] \in CoreItems
         /\ [item EXCEPT !.enabled = on].enabled = on
BY DEF CoreItems

(* What normalising makes of the flags: the chosen cores are on, and without
   one the default core is.                                                *)
LEMMA NormalizedFlags ==
  ASSUME NEW c, c.items \in [Ids -> CoreItems \cup {None}], c.adapter \in CoreItems,
         NEW n, n = NormalizeCores(c), n.default \in Ids
  PROVE  /\ {id \in Ids : n.items[id] # None /\ n.items[id].enabled}
              = IF Chosen(c) = {} THEN {n.default} ELSE Chosen(c)
         /\ Described(c) # {} /\ c.default # None => n.default = c.default
<1> USE StartupAssumption
<1>1. CASE Described(c) = {}
  <2>1. \A id \in Ids : c.items[id] = None
    BY <1>1 DEF Described
  <2>2. n = [default |-> "legacy",
             items |-> [c.items EXCEPT !["legacy"] = [c.adapter EXCEPT !.enabled = TRUE]]]
    BY <2>1 DEF NormalizeCores
  <2>3. [c.adapter EXCEPT !.enabled = TRUE] # None /\ [c.adapter EXCEPT !.enabled = TRUE].enabled
    BY DEF CoreItems
  <2>4. /\ n.default = "legacy" /\ n.items["legacy"] # None /\ n.items["legacy"].enabled
        /\ \A id \in Ids \ {"legacy"} : n.items[id] = None
    BY <2>1, <2>2, <2>3
  <2>5. Chosen(c) = {}
    BY <1>1 DEF Chosen
  <2> QED BY <1>1, <2>4, <2>5
<1>2. CASE Described(c) # {}
  <2> DEFINE flagged == Flagged(c)
             any == \E id \in Ids : flagged[id] # None /\ flagged[id].enabled
             default == DefaultId(c)
  <2>1. ~\A id \in Ids : c.items[id] = None
    BY <1>2 DEF Described
  <2>2. n = [default |-> default,
             items |-> IF any \/ default = None THEN flagged
                       ELSE [flagged EXCEPT ![default] =
                               IF @ = None THEN Ghost ELSE [@ EXCEPT !.enabled = TRUE]]]
    BY <2>1 DEF NormalizeCores
  <2>3. flagged \in [Ids -> CoreItems \cup {None}]
    <3>1. \A id \in Ids : c.items[id] \in CoreItems =>
            [c.items[id] EXCEPT !.enabled = id \in c.enabled] \in CoreItems
      <4> SUFFICES ASSUME NEW id \in Ids, c.items[id] \in CoreItems
                   PROVE  [c.items[id] EXCEPT !.enabled = id \in c.enabled] \in CoreItems
        OBVIOUS
      <4>1. (id \in c.enabled) \in BOOLEAN
        OBVIOUS
      <4> DEFINE on == id \in c.enabled
      <4>2. on \in BOOLEAN
        BY <4>1
      <4> HIDE DEF on
      <4>3. [c.items[id] EXCEPT !.enabled = on] \in CoreItems
        BY <4>2, SwitchedItem
      <4> QED BY <4>3 DEF on
    <3>2. \A id \in Ids : c.items[id] \in CoreItems \cup {None}
      OBVIOUS
    <3> HIDE DEF CoreItems
    <3>3. \A id \in Ids : flagged[id] \in CoreItems \cup {None}
      BY <3>1, <3>2 DEF Flagged
    <3> QED BY <3>3 DEF Flagged
  <2>4. \A id \in Ids : (flagged[id] # None /\ flagged[id].enabled) <=> id \in Chosen(c)
    <3> SUFFICES ASSUME NEW id \in Ids
                 PROVE  (flagged[id] # None /\ flagged[id].enabled) <=> id \in Chosen(c)
      OBVIOUS
    <3>1. CASE c.items[id] = None \/ c.enabled = {}
      BY <3>1 DEF Flagged, Chosen, Described
    <3>2. CASE c.items[id] # None /\ c.enabled # {}
      <4>1. flagged[id] = [c.items[id] EXCEPT !.enabled = id \in c.enabled]
        BY <3>2 DEF Flagged
      <4>2. c.items[id] \in CoreItems
        BY <3>2
      <4>3. flagged[id].enabled = (id \in c.enabled)
        BY <4>1, <4>2 DEF CoreItems
      <4>4. flagged[id] # None
        <5> DEFINE on == id \in c.enabled
        <5>1. on \in BOOLEAN
          OBVIOUS
        <5> HIDE DEF on
        <5>2. [c.items[id] EXCEPT !.enabled = on] \in CoreItems
          BY <4>2, <5>1, SwitchedItem
        <5>3. flagged[id] \in CoreItems
          BY <4>1, <5>2 DEF on
        <5> QED BY <5>3
      <4> QED BY <3>2, <4>3, <4>4 DEF Chosen, Described
    <3> QED BY <3>1, <3>2
  <2> HIDE DEF flagged, default
  <2>5. n.default = default /\ default # None
    BY <2>2
  <2>6. CASE any
    <3>1. n.items = flagged
      BY <2>2, <2>6
    <3> QED BY <2>4, <2>5, <2>6, <3>1 DEF default, DefaultId, Chosen, Described
  <2>7. CASE ~any
    <3> DEFINE item == IF flagged[default] = None THEN Ghost
                       ELSE [flagged[default] EXCEPT !.enabled = TRUE]
    <3>1. n.items = [flagged EXCEPT ![default] = item]
      BY <2>2, <2>5, <2>7
    <3>2. item # None /\ item.enabled
      <4>1. Ghost \in CoreItems /\ Ghost.enabled
        BY DEF Ghost, CoreItems
      <4>2. flagged[default] \in CoreItems \cup {None}
        BY <2>3, <2>5
      <4>3. \A i \in CoreItems : /\ [i EXCEPT !.enabled = TRUE] \in CoreItems
                                  /\ [i EXCEPT !.enabled = TRUE].enabled
        BY DEF CoreItems
      <4> QED BY <4>1, <4>2, <4>3
    <3> HIDE DEF item
    <3>3. /\ n.items[default] # None /\ n.items[default].enabled
          /\ \A id \in Ids \ {default} : n.items[id] = flagged[id]
      BY <2>3, <2>5, <3>1, <3>2
    <3>4. Chosen(c) = {}
      BY <2>4, <2>7 DEF Chosen, Described
    <3> QED BY <2>4, <2>5, <2>7, <3>3, <3>4 DEF default, DefaultId
  <2> QED BY <2>6, <2>7
<1> QED BY <1>1, <1>2

(* A panel that comes up runs exactly the cores config.yaml switches on, the
   default one among them (normalizeCores, NewManager).                    *)
THEOREM RunsWhatIsConfigured == Spec => []RunsAsConfigured
<1>1. PanelInv => RunsAsConfigured
  <2> SUFFICES ASSUME PanelInv, phase \in {"sync", "serving"} PROVE RunsAsConfigured
    BY DEF RunsAsConfigured
  <2> DEFINE default == cfg.cores.default
             on == {id \in Ids : SwitchedOn(id)}
  <2>1. /\ cfg.cores = NormalizeCores(raw) /\ Usable(default)
        /\ LoadedUpTo(Len(CoreIds) + 1)
    BY DEF PanelInv, Loaded
  <2>2. raw.items \in [Ids -> CoreItems \cup {None}] /\ raw.adapter \in CoreItems
    BY StartupAssumption DEF PanelInv, Shapes
  <2>3. /\ on = IF Chosen(raw) = {} THEN {default} ELSE Chosen(raw)
        /\ Described(raw) # {} /\ raw.default # None => default = raw.default
    BY <2>1, <2>2, NormalizedFlags DEF SwitchedOn, Usable
  <2>4. \A id \in Ids : Running(id) <=> SwitchedOn(id)
    <3>1. Len(CoreIds) \in Nat /\ DOMAIN CoreIds = 1 .. Len(CoreIds)
      BY StartupAssumption
    <3>3. \A id \in Ids : \E k \in 1 .. Len(CoreIds) : id = CoreIds[k]
      BY <3>1 DEF Ids
    <3>2. Len(CoreIds) + 1 - 1 = Len(CoreIds)
      BY <3>1
    <3> QED BY <2>1, <3>2, <3>3 DEF LoadedUpTo
  <2>5. \A id \in Ids : Running(id) <=> runtimes[id] # None /\ runtimes[id].adapter # None
    BY DEF PanelInv, Places, Running
  <2>6. on = {id \in Ids : runtimes[id] # None /\ runtimes[id].adapter # None}
    BY <2>4, <2>5
  <2>7. default \in on
    BY <2>1, <2>4 DEF Usable
  <2> HIDE DEF on
  <2> QED BY <2>3, <2>6, <2>7 DEF RunsAsConfigured, Chosen, Described
<1> QED BY <1>1, StartupInvariant, PTL

(* A start that fails at any core, and a finished -init-once, leave no
   connection to a core open (NewManager, Manager.Close).                  *)
THEOREM FailedStartLeavesNothingOpen == Spec => []NothingLeftOpen
<1>1. PanelInv => NothingLeftOpen
  BY DEF PanelInv
<1> QED BY <1>1, StartupInvariant, PTL

(* One account that cannot be written costs nobody else the service
   (syncEnabledUsers).                                                     *)
THEOREM EverybodySynced == Spec => []EveryoneSynced
<1>1. PanelInv => EveryoneSynced
  <2> SUFFICES ASSUME PanelInv, phase = "serving", NEW u \in Users,
                      site.rows[u].enabled, CoreOf(u) \in Ids, runtimes[CoreOf(u)] # None,
                      runtimes[CoreOf(u)].enabled, u \notin skipped
               PROVE  u \in inCore[CoreOf(u)]
    BY DEF EveryoneSynced, CoreOf
  <2>1. Usable(CoreOf(u))
    BY DEF PanelInv, Places, Usable, Running
  <2> QED BY <2>1 DEF PanelInv, Accounted, ServingDone
<1> QED BY <1>1, StartupInvariant, PTL

(* The loop writes only public addresses of the right family which the host
   had since the check began, over the configured record, and only when that
   said something else (checkAndUpdate, UpdateDNSRecord).                  *)
THEOREM LoopWritesRight == Spec => DdnsWritesRight
<1> DEFINE Right ==
      (step = "update" /\ record' # record /\ quiet' = quiet /\ ddns' = ddns /\ step' = "idle")
      => /\ record'.content \in seen
         /\ record'.content.public
         /\ record'.content.family = ddns.type
         /\ read.type = ddns.type /\ read.name = Domain
         /\ read.content # record'.content
<1>1. DdnsInv /\ PanelInv /\ [Next]_vars => [Right]_ddnsVars
  <2> SUFFICES ASSUME DdnsInv, PanelInv, [Next]_vars,
                      step = "update", record' # record, ddns' = ddns, step' = "idle"
               PROVE  Right
    OBVIOUS
  <2>1. ddns # None /\ ddns' # None
    BY DEF DdnsInv, DdnsTypeOK
  <2>2. CASE DdnsStep
    <3>1. \E answered \in BOOLEAN : UpdateDNSRecord(answered)
      BY <2>2 DEF DdnsStep, Check, BeginCheck, QueryIP, NextResolver, GetDNSRecord, UpdateFails
    <3>2. record' = [type |-> ddns.type, name |-> Domain, content |-> found]
      BY <3>1 DEF UpdateDNSRecord
    <3>3. record'.content = found
      BY <3>2
    <3> QED BY <3>3 DEF DdnsInv, FoundRight, ReadRight
  <2>3. CASE WorldStep
    BY <2>3 DEF WorldStep, World, HostChanges, OthersEdit, Calm, check
  <2>4. CASE BootStep \/ UNCHANGED vars
    <3>1. record' = record
      BY <2>4 DEF BootStep, Boot, LoadCore, LoadCoreFails, FinishCores, SyncUser, InitOnce, Serve,
                  vars, ddnsVars
    <3> QED BY <3>1
  <2>5. CASE ServeFails \/ \E changed \in site.configs : Stop(changed)
    <3>1. ddns' = None
      BY <2>5 DEF ServeFails, Stop, DdnsEnds
    <3> QED BY <2>1, <3>1
  <2> QED BY <2>2, <2>3, <2>4, <2>5 DEF Next
<1> QED BY <1>1, StartupInvariant, PTL DEF Spec, DdnsWritesRight
=============================================================================
