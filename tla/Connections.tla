---------------------------- MODULE Connections ----------------------------
(***************************************************************************)
(* The users an adapter keeps in its core's document, the connections the  *)
(* core carries for them, whom the panel takes a connection for, and the   *)
(* killing of a disabled user's connections.  The document is rewritten at *)
(* once and loaded by the core later; between the two the core serves      *)
(* users the panel has dropped.  A write that fails is CoreSync's subject. *)
(***************************************************************************)
EXTENDS ConfigDocument

CONSTANTS
  Settings,   \* adapter configurations with the documents they find
  Addresses,  \* of clients and of the routers they share
  ConnIds,
  Goroutines  \* of killUserConnections: one for each disabling, at most these at a time

\* A goroutine of killUserConnections: whom it is after, what it has listed and
\* not tried yet, and what the properties expect of it.
Killers == [user : Users, phase : {"asleep", "killing"},
            todo : SUBSET ConnIds, due : SUBSET ConnIds]

\* An open connection: whose it is, where it comes from, whether the core's
\* metadata name the user, and the outbound it takes.
Conns == [owner : Ids, address : Addresses, named : BOOLEAN, chain : Tags]

ASSUME ConnectionsAssumption ==
  /\ None \notin Users \cup Addresses \cup Conns \cup Killers
  /\ \A s \in Settings : /\ s.variant \in {"singbox", "xray", "v2ray"}
                         /\ s.base \in Documents /\ Unmarked(s.base)
                         /\ s.found # None => s.found \in Documents /\ Unmarked(s.found)
                         /\ ~s.template => s.found = s.base
                         /\ s.protocols \subseteq Names \cup {None}
                         /\ s.secrets \subseteq BOOLEAN

VARIABLES
  setting,  \* the adapter's configuration
  up,       \* the adapter runs
  users,    \* ConfigManager.users
  file,     \* the document at ConfigPath, None before the first write
  core,     \* the document the core has loaded
  conns,    \* connection -> [owner, address, named, chain], None when closed
  ipmap,    \* IPUserMap
  killers   \* goroutine -> [user, phase, todo, due], None when it is not there

vars == <<setting, up, users, file, core, conns, ipmap, killers>>

NoUsers == [id \in Ids |-> None]
Open == {c \in ConnIds : conns[c] # None}

-----------------------------------------------------------------------------
(* The adapter                                                              *)

\* NewConfigManager: read the users of the file, or of the template where
\* there is no file yet, and write the file.
Start ==
  LET loaded == Load(setting, Existing(setting, file))
  IN /\ ~up
     /\ up' = TRUE
     /\ users' = loaded
     /\ file' = Render(setting, loaded, Source(setting, file))
     /\ UNCHANGED <<setting, core, conns, ipmap, killers>>

\* The process ends: users, addresses and goroutines are gone.
Stop ==
  /\ up
  /\ up' = FALSE
  /\ users' = NoUsers
  /\ ipmap' = [a \in Addresses |-> None]
  /\ killers' = [g \in Goroutines |-> None]
  /\ UNCHANGED <<setting, file, core, conns>>

WriteUsers(table) ==
  /\ up
  /\ users' = table
  /\ file' = Render(setting, table, Source(setting, file))

AddUser(u, creds) ==
  /\ WriteUsers([users EXCEPT ![u] = creds])
  /\ UNCHANGED <<setting, up, core, conns, ipmap, killers>>

\* Deletion, a quota and an expiry leave it at that ...
RemoveUser(u) ==
  /\ WriteUsers([users EXCEPT ![u] = None])
  /\ UNCHANGED <<setting, up, core, conns, ipmap, killers>>

\* ... and SetEnabled sends a goroutine after the connections, whether or not
\* the last one for the same user has ended.
DisableUser(u, g) ==
  /\ setting.clients
  /\ users[u] # None
  /\ WriteUsers([users EXCEPT ![u] = None])
  /\ killers[g] = None
  /\ killers' = [killers EXCEPT
                   ![g] = [user |-> u, phase |-> "asleep", todo |-> {}, due |-> {}]]
  /\ UNCHANGED <<setting, up, core, conns, ipmap>>

\* The delayed reload, however done: connections outlive it.
Reload ==
  /\ up
  /\ setting.clients
  /\ core' = file
  /\ UNCHANGED <<setting, up, users, file, conns, ipmap, killers>>

-----------------------------------------------------------------------------
(* The core and its clients (external)                                      *)

Matches(rule, name, tag) ==
  /\ rule.user \in {None, name}
  /\ rule.inbounds = {} \/ tag \in rule.inbounds

\* Own rules look at the destination too, and may or may not apply; after
\* them the first marker that matches, or the final outbound.
Chains(doc, name, tag) ==
  LET matching == {k \in DOMAIN doc.rules : Matches(doc.rules[k], name, tag)}
      own == {k \in matching : ~IsUserTag(doc.rules[k].outbound)}
      marked == matching \ own
  IN {doc.rules[k].outbound : k \in own} \cup
     IF marked = {} THEN {doc.final}
     ELSE {doc.rules[CHOOSE k \in marked : \A l \in marked : k <= l].outbound}

\* The connection belongs to whoever has the entry's secret; the core may or
\* may not put the entry's name into the metadata.
Connect(c, address) ==
  /\ setting.clients
  /\ conns[c] = None
  /\ \A g \in Goroutines : killers[g] # None => c \notin killers[g].todo \cup killers[g].due
  /\ \E k \in DOMAIN core.inbounds :
       \E entry \in UserEntries(setting, core.inbounds[k]) :
         /\ entry.secret # None
         /\ \E chain \in Chains(core, entry.name, core.inbounds[k].tag),
               named \in {FALSE, entry.name # None} :
              conns' = [conns EXCEPT ![c] =
                          [owner |-> IF entry.name # None THEN entry.name ELSE entry.secret,
                           address |-> address, named |-> named, chain |-> chain]]
  /\ UNCHANGED <<setting, up, users, file, core, ipmap, killers>>

Close(c) ==
  /\ conns[c] # None
  /\ conns' = [conns EXCEPT ![c] = None]
  /\ UNCHANGED <<setting, up, users, file, core, ipmap, killers>>

-----------------------------------------------------------------------------
(* Whom a connection is taken for                                           *)

\* GetSubscription: an enabled user's request is remembered for its address,
\* before the content is built.  It is the row that says who is enabled, and
\* row and adapter may differ: any user may ask.
Subscribe(u, address) ==
  /\ up
  /\ setting.clients
  /\ ipmap' = [ipmap EXCEPT ![address] = u]
  /\ UNCHANGED <<setting, up, users, file, core, conns, killers>>

\* What a listed connection says of its user.
Hints(conn) ==
  [metadata |-> IF conn.named THEN conn.owner ELSE None,
   marker |-> IF IsUserTag(conn.chain) THEN conn.chain.id ELSE None,
   address |-> conn.address]

\* Mutant of Resolve: the address before the marker.
AddressFirst(hints) ==
  CASE hints.metadata # None -> hints.metadata
    [] hints.metadata = None /\ ipmap[hints.address] # None -> ipmap[hints.address]
    [] OTHER -> hints.marker

\* The metadata, then the marker, then the address.  What is found nowhere
\* gets a label that is no user's.
Resolve(hints) ==
  CASE hints.metadata # None -> hints.metadata
    [] hints.metadata = None /\ hints.marker # None -> hints.marker
    [] OTHER -> ipmap[hints.address]

\* GetConnections: those it lists as u's.
Listed(u) == {c \in Open : Resolve(Hints(conns[c])) = u}

\* QueryTrafficFromConnections: the connections whose bytes are put down to u.
Billed(u) == Listed(u)

-----------------------------------------------------------------------------
(* killUserConnections                                                      *)

\* One listing, 100 ms after the disabling; "due" remembers for the
\* properties what it should come to.
KillList(g) ==
  LET u == killers[g].user
  IN /\ killers[g] # None
     /\ killers[g].phase = "asleep"
     /\ killers' = [killers EXCEPT ![g] =
          [user |-> u, phase |-> "killing", todo |-> Listed(u),
           due |-> {c \in Open : /\ conns[c].owner = u
                                 /\ conns[c].named \/ conns[c].chain = UserTag(u)}]]
     /\ UNCHANGED <<setting, up, users, file, core, conns, ipmap>>

\* The listing fails and the goroutine gives up.
KillListFails(g) ==
  /\ killers[g] # None
  /\ killers[g].phase = "asleep"
  /\ killers' = [killers EXCEPT ![g] = None]
  /\ UNCHANGED <<setting, up, users, file, core, conns, ipmap>>

\* Mutant of AfterKill: a call that fails ends the loop.
StopAtFailure(todo, c, killed) == IF killed THEN todo \ {c} ELSE {}

AfterKill(todo, c, killed) == todo \ {c}

\* A call that fails is ignored; what was due then stays.
Kill(g, c, killed) ==
  /\ killers[g] # None
  /\ c \in killers[g].todo
  /\ conns' = IF killed THEN [conns EXCEPT ![c] = None] ELSE conns
  /\ killers' = [killers EXCEPT ![g].todo = AfterKill(@, c, killed),
                                ![g].due = @ \ {c}]
  /\ UNCHANGED <<setting, up, users, file, core, ipmap>>

KillerEnds(g) ==
  /\ killers[g] # None
  /\ killers[g].phase = "killing"
  /\ killers[g].todo = {}
  /\ killers' = [killers EXCEPT ![g] = None]
  /\ UNCHANGED <<setting, up, users, file, core, conns, ipmap>>

-----------------------------------------------------------------------------
\* What there is at the first start: a document at ConfigPath, which may be
\* quite another one than the template, or none yet.
Init ==
  /\ setting \in Settings
  /\ up = FALSE
  /\ users = NoUsers
  /\ file = setting.found
  /\ core = IF setting.found = None THEN setting.base ELSE setting.found
  /\ conns = [c \in ConnIds |-> None]
  /\ ipmap = [a \in Addresses |-> None]
  /\ killers = [g \in Goroutines |-> None]

Next ==
  \/ Start
  \/ Stop
  \/ \E u \in Users, protocol \in setting.protocols, secret \in setting.secrets :
       AddUser(u, [protocol |-> protocol, secret |-> IF secret THEN Key(u) ELSE None])
  \/ \E u \in Users : RemoveUser(u)
  \/ \E u \in Users, g \in Goroutines : DisableUser(u, g)
  \/ Reload
  \/ \E c \in ConnIds, a \in Addresses : Connect(c, a)
  \/ \E c \in ConnIds : Close(c)
  \/ \E u \in Users, a \in Addresses : Subscribe(u, a)
  \/ \E g \in Goroutines : KillList(g) \/ KillListFails(g) \/ KillerEnds(g)
  \/ \E g \in Goroutines, c \in ConnIds, killed \in BOOLEAN : Kill(g, c, killed)

Spec == Init /\ [][Next]_vars

-----------------------------------------------------------------------------
(* Properties                                                               *)

\* Types; and a marker in the file is a copy of an outbound that goes out
\* directly.
TypeOK ==
  /\ setting \in Settings
  /\ up \in BOOLEAN
  /\ users \in UserTables
  /\ file \in Documents \cup {None}
  /\ core \in Documents
  /\ conns \in [ConnIds -> Conns \cup {None}]
  /\ ipmap \in [Addresses -> Users \cup {None}]
  /\ killers \in [Goroutines -> Killers \cup {None}]
  /\ up => \A k \in DOMAIN file.outbounds :
             IsUserTag(file.outbounds[k].tag) => file.outbounds[k].type = "direct"

\* What was written is what a restart would read: the users whose protocol
\* has an inbound the adapter manages, under it, with the secret they were
\* given (Xray: the ID where there was none), and nobody else.  The others
\* are in memory and lost with it.
RoundTrip ==
  up => Load(setting, file) =
    [id \in Ids |->
       LET protocol == IF users[id].protocol = None THEN "vless" ELSE users[id].protocol
       IN IF /\ users[id] # None
             /\ \E k \in DOMAIN file.inbounds : /\ file.inbounds[k].type = protocol
                                                /\ Managed(setting, file.inbounds[k])
          THEN [protocol |-> protocol,
                secret |-> IF users[id].secret = None /\ setting.variant # "singbox"
                             THEN id ELSE users[id].secret]
          ELSE None]

\* A subscription link opens the door: it has the protocol and secret of an
\* entry in an inbound of the file, if there is one for the user's protocol.
\* Accounts whose links do not are left out: those whose protocol the link
\* builder does not know (for sing-box VMess is one), and those without a
\* secret in sing-box.
LinkWorks ==
  up =>
    \A u \in Users :
      LET creds == users[u]
          link == Link(setting, u, creds)
          doors == {k \in DOMAIN file.inbounds :
                      /\ file.inbounds[k].type = link.protocol
                      /\ setting.filter \in {None, file.inbounds[k].tag}}
      IN (/\ creds # None
          /\ creds.protocol \in {None, "vless", "vmess", "trojan", "shadowsocks"}
          /\ setting.variant = "singbox" => creds.secret # None /\ creds.protocol # "vmess"
          /\ doors # {})
         => \E k \in doors :
              \E list \in {file.inbounds[k].users, file.inbounds[k].clients} \ {NoList} :
                \E entry \in list : entry.secret = link.secret

\* The route markers of the file: outbounds and rules mark the same users,
\* each once, and exactly the users there are.  Only the last user's markers
\* may outlive it, in a file that is its own template.
MarkersExact ==
  (up /\ setting.variant = "singbox") =>
    LET marked == {k \in DOMAIN file.outbounds : IsUserTag(file.outbounds[k].tag)}
        ruled == {k \in DOMAIN file.rules : IsUserTag(file.rules[k].outbound)}
        ids == {file.outbounds[k].tag.id : k \in marked}
    IN /\ \A k, l \in marked : file.outbounds[k].tag = file.outbounds[l].tag => k = l
       /\ \A k, l \in ruled : file.rules[k].outbound = file.rules[l].outbound => k = l
       /\ ids = {file.rules[k].outbound.id : k \in ruled}
       /\ \A k \in ruled : file.rules[k].user = file.rules[k].outbound.id
       /\ IF Present(users) # {}
            THEN \/ ids = Present(users)
                 \/ ~\E k \in DOMAIN setting.base.outbounds :
                       setting.base.outbounds[k].type = "direct"
            ELSE ids # {} => ~setting.template

\* The panel's writes leave the administrator's part of the document alone:
\* the inbounds are the same in the same order; one with another tag than the
\* configured one, of a protocol Xray's adapter does not manage, or without a
\* type in sing-box, is unchanged; the outbounds and rules are unchanged too
\* and come before those of the markers.
ForeignKept ==
  up =>
    LET base == setting.base
        Foreign(inbound) ==
          \/ setting.filter \notin {None, inbound.tag}
          \/ IF setting.variant = "singbox" THEN inbound.type = None
             ELSE inbound.type \notin {"vless", "vmess", "trojan", "shadowsocks"}
    IN /\ DOMAIN file.inbounds = DOMAIN base.inbounds
       /\ \A k \in DOMAIN base.inbounds :
            /\ file.inbounds[k].tag = base.inbounds[k].tag
            /\ file.inbounds[k].type = base.inbounds[k].type
            /\ Foreign(base.inbounds[k]) => file.inbounds[k] = base.inbounds[k]
            /\ base.inbounds[k].clients # NoList /\ base.inbounds[k].users = NoList
               /\ setting.variant # "singbox" => file.inbounds[k].users = NoList
       /\ DOMAIN base.outbounds \subseteq DOMAIN file.outbounds
       /\ \A k \in DOMAIN file.outbounds :
            IF k \in DOMAIN base.outbounds THEN file.outbounds[k] = base.outbounds[k]
            ELSE IsUserTag(file.outbounds[k].tag)
       /\ DOMAIN base.rules \subseteq DOMAIN file.rules
       /\ \A k \in DOMAIN file.rules :
            IF k \in DOMAIN base.rules THEN file.rules[k] = base.rules[k]
            ELSE IsUserTag(file.rules[k].outbound)

\* A start locks nobody out of an inbound the source of the writes still has:
\* a secret the document found was accepted by in a managed inbound is, after
\* the start, accepted in every managed inbound of that type in the file,
\* unless another entry of the document is known by the same name.  Without a
\* template the others keep theirs as well.  Out of luck are the clients of a
\* document with more inbounds than the template that replaces it.
StartKeepsSecrets ==
  (~up /\ up') =>
    LET found == IF file # None THEN file ELSE setting.base
        Identity(entry) == IF entry.name # None THEN entry.name ELSE entry.secret
        Accepts(inbound, secret) ==
          \E e \in UserEntries(setting, inbound) : e.secret = secret
    IN \A k \in DOMAIN found.inbounds :
         \A entry \in UserEntries(setting, found.inbounds[k]) :
           \/ entry.secret = None
           \/ \E l \in DOMAIN found.inbounds :
                \E other \in UserEntries(setting, found.inbounds[l]) :
                  <<other, l>> # <<entry, k>> /\ Identity(other) = Identity(entry)
           \/ IF Managed(setting, found.inbounds[k])
              THEN \A l \in DOMAIN file'.inbounds :
                     (/\ file'.inbounds[l].type = found.inbounds[k].type
                      /\ Managed(setting, file'.inbounds[l]))
                        => Accepts(file'.inbounds[l], entry.secret)
              ELSE setting.template \/ Accepts(file'.inbounds[k], entry.secret)

NobodyLockedOut == [][StartKeepsSecrets]_vars

\* A connection is put down to the user it belongs to whenever the core says
\* who that is or sends it through a marker; only the rest goes by address.
AttributionExact ==
  \A c \in Open :
    (conns[c].named \/ IsUserTag(conns[c].chain)) =>
      \A id \in Ids : c \in Billed(id) <=> id = conns[c].owner

\* A killer ends with none of the connections open that were its user's, and
\* known to be, when it listed them, except where the core refused the call.
KillerThorough ==
  [][\A g \in Goroutines :
       (killers[g] # None /\ killers'[g] = None /\ up')
         => killers[g].due \cap Open = {}]_vars

=============================================================================
