--------------------------- MODULE ConfigDocument ---------------------------
(***************************************************************************)
(* What the config-patching adapters write into the core's JSON document   *)
(* and read back from it: the users of each inbound, the list of counted   *)
(* users and, for sing-box, the route markers.  A document is a record;    *)
(* JSON syntax and the fields nobody here touches are left out, and so is  *)
(* all of a user's credentials but the protocol and one secret.            *)
(***************************************************************************)
EXTENDS Integers, FiniteSets, Sequences, SequencesExt

CONSTANTS
  Users,    \* user IDs of the panel
  Secrets,  \* user -> the secret of its account
  Names,    \* what a document calls its inbounds, its outbounds and their types
  None

\* A legacy entry without a name is known by its secret.
Key(u) == Secrets[u]
Ids == Users \cup {Key(u) : u \in Users}

ManagedProtocols == {"vless", "vmess", "trojan", "shadowsocks"}

Creds == [protocol : Names \cup {None}, secret : Ids \cup {None}]
UserTables == [Ids -> Creds \cup {None}]

\* A setting is the adapter's configuration, [variant, template, filter, ...],
\* with its two documents: "base" is the template or, without one, the file
\* itself; "found" is what is at ConfigPath before the first start, if anything.
\* An inbound has the lists of users its settings have, an outbound the
\* administrator's tag or the one of a route marker.
Entries == [name : Ids \cup {None}, secret : Ids \cup {None}]
NoList == {None}  \* the list an inbound does not have
Lists == {NoList} \cup SUBSET Entries
Inbounds == [tag : Names \cup {None}, type : Names \cup {None}, users : Lists, clients : Lists]
OwnTags == [kind : {"own"}, id : Names \cup {None}]
Tags == OwnTags \cup [kind : {"user"}, id : Ids]
Outbounds == [tag : Tags, type : Names \cup {None}]
Rules == [user : Ids \cup {None}, inbounds : SUBSET Names, outbound : Tags]
Documents == [inbounds : Seq(Inbounds), outbounds : Seq(Outbounds), rules : Seq(Rules),
              final : OwnTags, counted : SUBSET Ids]

ASSUME DocumentAssumption ==
  /\ IsFiniteSet(Users)
  /\ ManagedProtocols \cup {"direct"} \subseteq Names
  /\ None \notin Ids /\ None \notin Names /\ None \notin Entries
  /\ None \notin Creds /\ None \notin Outbounds /\ None \notin Documents

Present(users) == {id \in Ids : users[id] # None}

\* Mutant of Managed: whatever its type.
ManagedByTag(s, inbound) == s.filter \in {None, inbound.tag}

\* Which inbounds are read and written: sing-box takes every type, Xray the
\* protocols it knows.
Managed(s, inbound) ==
  /\ s.filter \in {None, inbound.tag}
  /\ IF s.variant = "singbox" THEN inbound.type # None ELSE inbound.type \in ManagedProtocols

-----------------------------------------------------------------------------
(* Reading: loadUsersFromConfig                                             *)

IdOf(entry) == IF entry.name # None THEN entry.name ELSE entry.secret

UserEntries(s, inbound) ==
  CASE inbound.users # NoList -> inbound.users
    [] inbound.users = NoList /\ inbound.clients # NoList /\ s.variant # "singbox" ->
         inbound.clients
    [] OTHER -> {}

\* A later inbound overwrites what an earlier one said of a user.
Load(s, doc) ==
  [id \in Ids |->
     LET hits == {k \in DOMAIN doc.inbounds :
                    /\ Managed(s, doc.inbounds[k])
                    /\ \E entry \in UserEntries(s, doc.inbounds[k]) : IdOf(entry) = id}
     IN IF hits = {} THEN None
        ELSE LET inbound == doc.inbounds[CHOOSE k \in hits : \A l \in hits : l <= k]
                 entry == CHOOSE e \in UserEntries(s, inbound) : IdOf(e) = id
             IN [protocol |-> inbound.type, secret |-> entry.secret]]

-----------------------------------------------------------------------------
(* Writing: writeConfigLocked                                               *)

\* Mutant of Protocol: an account without a protocol stays without one.
ProtocolAsGiven(creds) == creds.protocol

Protocol(creds) == IF creds.protocol = None THEN "vless" ELSE creds.protocol

\* Mutant of Entry: Xray too leaves a missing secret out.
EntryAsGiven(s, id, creds) == [name |-> id, secret |-> creds.secret]

\* sing-box leaves a missing secret out, Xray puts the ID in its place.
Entry(s, id, creds) ==
  [name |-> id,
   secret |-> IF creds.secret = None /\ s.variant # "singbox" THEN id ELSE creds.secret]

EntriesFor(s, users, protocol) ==
  {Entry(s, id, users[id]) : id \in {i \in Present(users) : Protocol(users[i]) = protocol}}

UserListKey(s, inbound) ==
  CASE s.variant = "singbox" \/ inbound.users # NoList -> "users"
    [] s.variant # "singbox" /\ inbound.users = NoList /\ inbound.clients # NoList -> "clients"
    [] OTHER -> IF s.variant = "v2ray" THEN "clients" ELSE "users"

RenderInbound(s, users, inbound) ==
  IF ~Managed(s, inbound) THEN inbound
  ELSE IF UserListKey(s, inbound) = "users"
    THEN [inbound EXCEPT !.users = EntriesFor(s, users, inbound.type)]
    ELSE [inbound EXCEPT !.clients = EntriesFor(s, users, inbound.type)]

-----------------------------------------------------------------------------
(* Subscriptions                                                            *)

\* The link of a user: a missing secret is the ID, and a protocol the builder
\* does not know makes a VLESS link.  sing-box's knows no VMess.
LinkSecret(id, creds) == IF creds.secret = None THEN id ELSE creds.secret

SingboxLink(id, creds) ==
  [protocol |-> IF creds.protocol \in {"trojan", "shadowsocks"} THEN creds.protocol ELSE "vless",
   secret |-> LinkSecret(id, creds)]

XrayLink(id, creds) ==
  [protocol |-> IF creds.protocol \in ManagedProtocols THEN creds.protocol ELSE "vless",
   secret |-> LinkSecret(id, creds)]

Link(s, id, creds) ==
  IF s.variant = "singbox" THEN SingboxLink(id, creds) ELSE XrayLink(id, creds)

-----------------------------------------------------------------------------
(* Route markers.  The tag of a marker is an encoding of the ID behind a    *)
(* prefix, which own tags do not have, and is decoded exactly.              *)
UserTag(id) == [kind |-> "user", id |-> id]
IsUserTag(tag) == tag.kind = "user"

\* What a sequence has at the given positions, in the same order.
At(seq, positions) ==
  [j \in 1..Cardinality(positions) |->
     seq[CHOOSE k \in positions : Cardinality({l \in positions : l <= k}) = j]]

\* Mutant of OwnOutbounds: the markers of the last write stay.
AllOutbounds(outbounds) == outbounds

OwnOutbounds(outbounds) == At(outbounds, {k \in DOMAIN outbounds : ~IsUserTag(outbounds[k].tag)})
OwnRules(rules) == At(rules, {k \in DOMAIN rules : ~IsUserTag(rules[k].outbound)})

\* A document no panel has written route markers to yet.
Unmarked(doc) ==
  /\ \A k \in DOMAIN doc.outbounds : ~IsUserTag(doc.outbounds[k].tag)
  /\ \A k \in DOMAIN doc.rules : ~IsUserTag(doc.rules[k].outbound)

FirstOf(outbounds, positions) ==
  IF positions = {} THEN None
  ELSE outbounds[CHOOSE k \in positions : \A l \in positions : k <= l]

\* Mutant of BaseDirectOutbound: the final outbound, whatever it is.
FinalOutbound(doc) ==
  FirstOf(doc.outbounds, {k \in DOMAIN doc.outbounds : doc.outbounds[k].tag = doc.final})

\* The final outbound, the one called direct, or any, if it is a direct one;
\* the first of them.
BaseDirectOutbound(doc) ==
  LET direct == {k \in DOMAIN doc.outbounds : doc.outbounds[k].type = "direct"}
      final == {k \in direct : doc.final.id # None /\ doc.outbounds[k].tag = doc.final}
      named == {k \in direct : doc.outbounds[k].tag = [kind |-> "own", id |-> "direct"]}
  IN FirstOf(doc.outbounds,
             CASE final # {} -> final
               [] final = {} /\ named # {} -> named
               [] OTHER -> direct)

ManagedInboundTags(s, inbounds) ==
  {inbounds[k].tag : k \in {l \in DOMAIN inbounds : /\ Managed(s, inbounds[l])
                                                   /\ inbounds[l].users # {}}} \ {None}

\* Without a tagged inbound the rule looks at the user alone.
UserRule(id, tags) == [user |-> id, inbounds |-> tags, outbound |-> UserTag(id)]

InjectUserRouteMarkers(s, doc, ids, tags) ==
  LET base == BaseDirectOutbound(doc)
      order == SetToSeq(ids)
  IN IF s.variant # "singbox" \/ ids = {} \/ base = None THEN doc
     ELSE [doc EXCEPT
             !.outbounds = OwnOutbounds(@) \o
               [k \in DOMAIN order |-> [base EXCEPT !.tag = UserTag(order[k])]],
             !.rules = OwnRules(@) \o [k \in DOMAIN order |-> UserRule(order[k], tags)]]

\* Counted are the listed users in sing-box, everybody in Xray.
Counted(s, users) == IF s.variant = "singbox" THEN Present(users) ELSE Ids

Render(s, users, source) ==
  LET inbounds == [k \in DOMAIN source.inbounds |-> RenderInbound(s, users, source.inbounds[k])]
  IN InjectUserRouteMarkers(s,
       [source EXCEPT !.inbounds = inbounds, !.counted = Counted(s, users)],
       Present(users), ManagedInboundTags(s, inbounds))

\* What is written over: the template, where there is one, or the file itself.
Source(s, file) == IF s.template THEN s.base ELSE file

\* Mutant of Existing: the users of what is written over.
FromSource(s, file) == Source(s, file)

\* What the users are loaded from: the file, or the template where there is no
\* file yet.
Existing(s, file) == IF file # None THEN file ELSE s.base
=============================================================================
