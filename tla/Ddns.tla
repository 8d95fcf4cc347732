-------------------------------- MODULE Ddns --------------------------------
(***************************************************************************)
(* The loop that keeps one DNS record at the host's public address: ask    *)
(* the resolvers, read the record, write it if it differs.  Addresses      *)
(* change, others edit the record and calls get lost between the steps.    *)
(***************************************************************************)
EXTENDS Integers

CONSTANTS
  None,
  Addresses,  \* [family, public, ...]: what hosts, records and resolvers name
  Records     \* [type, name, content]: what others may make of the record

Hosts == {h \in [{"A", "AAAA"} -> {a \in Addresses : a.public} \cup {None}] :
            \A family \in DOMAIN h : h[family] # None => h[family].family = family}

VARIABLES
  ddns,      \* None when the service is off, or [type, resolvers]
  host,      \* the public address the host has in each family
  record,    \* the record at the provider
  step,      \* where the check is: "idle", "resolve", "read", "update"
  resolver,  \* the resolver being asked
  found,     \* the address the resolvers gave
  cachedIP,  \* DDNSService.cachedIP, which nothing reads
  seen,      \* the addresses the host had since the check began
  read,      \* the record as the check read it
  quiet      \* the host, the network and everybody else have come to rest

ddnsVars == <<ddns, host, record, step, resolver, found, cachedIP, seen, read, quiet>>
check == <<step, resolver, found, cachedIP, seen, read>>

\* The record's name that is the configured one.
Domain == "domain"

HostAddresses(h) == {h[family] : family \in DOMAIN h} \ {None}

\* normalizeRecordType, which is asked before anything is accepted or sent.
Supported(type) == type \in {"A", "AAAA"}

\* Mutant of ValidAddress: any public address will do.
PublicAddress(address, type) == address.public

\* validateIPForRecord
ValidAddress(address, type) == address.public /\ address.family = type

\* validateRecord
ValidRecord(r, type) ==
  /\ r.type = type
  /\ r.name = Domain
  /\ ValidAddress(r.content, type)

-----------------------------------------------------------------------------
(* The world (external)                                                     *)

HostChanges(h) ==
  /\ ~quiet
  /\ host' = h
  /\ seen' = IF step = "idle" THEN {} ELSE seen \cup HostAddresses(h)
  /\ UNCHANGED <<ddns, record, step, resolver, found, cachedIP, read, quiet>>

OthersEdit(r) ==
  /\ ~quiet
  /\ record' = r
  /\ UNCHANGED <<ddns, host, quiet, check>>

Calm ==
  /\ ~quiet
  /\ quiet' = TRUE
  /\ UNCHANGED <<ddns, host, record, check>>

-----------------------------------------------------------------------------
(* The check                                                                *)

EndCheck ==
  /\ step' = "idle"
  /\ resolver' = 0
  /\ found' = None
  /\ seen' = {}
  /\ read' = None

\* Start: at once, and at every tick.
BeginCheck ==
  /\ ddns # None
  /\ step = "idle"
  /\ step' = "resolve"
  /\ resolver' = 1
  /\ seen' = HostAddresses(host)
  /\ UNCHANGED <<ddns, host, record, found, cachedIP, read, quiet>>

\* What a resolver may say: an address the host had since it was asked, in
\* either family, an address that is not public, or nothing; at rest, the
\* host's address in the family that is wanted.
Answers ==
  IF quiet THEN {IF Supported(ddns.type) THEN host[ddns.type] ELSE None}
  ELSE seen \cup {a \in Addresses : ~a.public} \cup {None}

Acceptable(answer) ==
  answer # None /\ Supported(ddns.type) /\ ValidAddress(answer, ddns.type)

\* queryIP: the first resolver with a valid answer wins ...
QueryIP(answer) ==
  /\ step = "resolve"
  /\ answer \in Answers
  /\ Acceptable(answer)
  /\ step' = "read"
  /\ found' = answer
  /\ resolver' = 0
  /\ UNCHANGED <<ddns, host, record, cachedIP, seen, read, quiet>>

\* ... and GetCurrentIP asks the next one, until there is none left.
NextResolver(answer) ==
  /\ step = "resolve"
  /\ answer \in Answers
  /\ ~Acceptable(answer)
  /\ \/ /\ resolver < ddns.resolvers
        /\ resolver' = resolver + 1
        /\ UNCHANGED <<step, found, seen, read>>
     \/ /\ resolver = ddns.resolvers
        /\ EndCheck
  /\ UNCHANGED <<ddns, host, record, cachedIP, quiet>>

\* Mutant of NeedsUpdate: an address that was written once is not written again.
NotCached == record.content # found /\ cachedIP # found

NeedsUpdate == record.content # found

\* GetDNSRecord: a failing call, a foreign record and one that is right
\* already end the check.
GetDNSRecord ==
  /\ step = "read"
  /\ \/ /\ ~quiet \/ ~ValidRecord(record, ddns.type)
        /\ EndCheck
        /\ UNCHANGED cachedIP
     \/ /\ ValidRecord(record, ddns.type)
        /\ ~NeedsUpdate
        /\ cachedIP' = found
        /\ EndCheck
     \/ /\ ValidRecord(record, ddns.type)
        /\ NeedsUpdate
        /\ step' = "update"
        /\ read' = record
        /\ UNCHANGED <<resolver, found, seen, cachedIP>>
  /\ UNCHANGED <<ddns, host, record, quiet>>

\* UpdateDNSRecord: the provider sets the record, and its answer may be lost.
UpdateDNSRecord(answered) ==
  /\ step = "update"
  /\ quiet => answered
  /\ record' = [type |-> ddns.type, name |-> Domain, content |-> found]
  /\ cachedIP' = IF answered THEN found ELSE cachedIP
  /\ EndCheck
  /\ UNCHANGED <<ddns, host, quiet>>

\* The call does not get there, or is refused.
UpdateFails ==
  /\ step = "update"
  /\ ~quiet
  /\ EndCheck
  /\ UNCHANGED <<ddns, host, record, cachedIP, quiet>>

Check ==
  \/ BeginCheck
  \/ \E answer \in Addresses \cup {None} : QueryIP(answer) \/ NextResolver(answer)
  \/ GetDNSRecord
  \/ \E answered \in BOOLEAN : UpdateDNSRecord(answered)
  \/ UpdateFails

World ==
  \/ \E h \in Hosts : HostChanges(h)
  \/ \E r \in Records : OthersEdit(r)
  \/ Calm

InitDdns(hosts, records) ==
  /\ ddns = None
  /\ host \in hosts
  /\ record \in records
  /\ step = "idle"
  /\ resolver = 0
  /\ found = None
  /\ cachedIP = None
  /\ seen = {}
  /\ read = None
  /\ quiet = FALSE

-----------------------------------------------------------------------------
(* Properties                                                               *)

DdnsTypeOK ==
  /\ host \in Hosts
  /\ step \in {"idle", "resolve", "read", "update"}
  /\ found \in Addresses \cup {None}
  /\ cachedIP \in Addresses \cup {None}
  /\ seen \subseteq Addresses
  /\ (step # "idle") => (ddns # None /\ resolver \in 0..ddns.resolvers)
  /\ (step = "update") = (read # None)

\* What the panel writes is a public address of the configured family that
\* the host had since the check began, over a record that was the configured
\* one and said something else when it was read.
DdnsWritesRight ==
  [][(step = "update" /\ record' # record /\ quiet' = quiet /\ ddns' = ddns
      /\ step' = "idle")
      => /\ record'.content \in seen
         /\ record'.content.public
         /\ record'.content.family = ddns.type
         /\ read.type = ddns.type /\ read.name = Domain
         /\ read.content # record'.content]_ddnsVars

\* The address the record should have.
Wanted == IF ddns # None /\ ddns.type \in DOMAIN host THEN host[ddns.type] ELSE None

\* At rest, a running service brings the record to the host's address, if the
\* record is the configured one and names a public address of its family at
\* all: a placeholder that does not is never repaired.
DdnsConverges ==
  [](/\ quiet /\ ddns # None
     /\ ddns.type \in DOMAIN host /\ record.type = ddns.type /\ record.name = Domain
     /\ record.content.public /\ record.content.family = ddns.type
     => <>(Wanted \in {None, record.content}))
=============================================================================
