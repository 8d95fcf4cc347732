------------------------ MODULE ConfigDocumentProofs ------------------------
(***************************************************************************)
(* What the functions on documents do, for every document: which outbound  *)
(* is copied, what is left of a marked document without its markers, what  *)
(* rendering twice does, and what is loaded from what was rendered.        *)
(***************************************************************************)
EXTENDS ConfigDocument, FiniteSetTheorems, SequenceTheorems, TLAPS

-----------------------------------------------------------------------------
(* Sets of numbers, and sequences                                          *)

LEMMA SmallestOf ==
  ASSUME NEW S \in SUBSET Nat, S # {}
  PROVE  \E k \in S : \A l \in S : k <= l
<1> DEFINE R == OpToRel(<, Nat)
           T == {ss \in Nat \X Nat : ss[1] < ss[2]}
<1>1. R = T
  BY Zenon DEF OpToRel
<1>2. PICK k \in S : \A l \in S : ~(<<l, k>> \in R)
  <2>1. IsWellFoundedOn(R, Nat)
    BY NatLessThanWellFounded
  <2> HIDE DEF R
  <2> QED
    BY <2>1, WFMin
<1>3. \A i, j \in Nat : i < j => <<i, j>> \in T
  OBVIOUS
<1>4. \A l \in S : k \in Nat /\ l \in Nat /\ ~(l < k)
  BY <1>1, <1>2, <1>3
<1> HIDE DEF R, T
<1> QED
  BY <1>4

LEMMA LargestOf ==
  ASSUME NEW n \in Nat, NEW S \in SUBSET (1..n), S # {}
  PROVE  \E k \in S : \A l \in S : l <= k
<1> DEFINE T == {n - k : k \in S}
<1>1. T \in SUBSET Nat /\ T # {}
  <2>1. \A k \in S : n - k \in Nat
    OBVIOUS
  <2> QED
    BY <2>1
<1>2. PICK m \in T : \A l \in T : m <= l
  BY <1>1, SmallestOf
<1>3. PICK k \in S : m = n - k
  OBVIOUS
<1>4. \A l \in S : n - k <= n - l
  BY <1>2, <1>3
<1> QED
  BY <1>4

(* The entries at the first n positions are the first n entries.           *)
LEMMA AtFirst ==
  ASSUME NEW S, NEW seq \in Seq(S), NEW n \in 0..Len(seq)
  PROVE  /\ At(seq, 1..n) \in Seq(S)
         /\ Len(At(seq, 1..n)) = n
         /\ \A j \in 1..n : At(seq, 1..n)[j] = seq[j]
<1>1. n \in Nat /\ Cardinality(1..n) = n
  BY FS_Interval
<1>2. \A k \in 1..n : Cardinality({l \in 1..n : l <= k}) = k
  <2>1. \A k \in 1..n : {l \in 1..n : l <= k} = 1..k
    BY <1>1
  <2>2. \A k \in 1..n : Cardinality(1..k) = k
    BY <1>1, FS_Interval
  <2> QED
    BY <2>1, <2>2
<1>3. \A j \in 1..n : (CHOOSE k \in 1..n : Cardinality({l \in 1..n : l <= k}) = j) = j
  BY <1>2
<1>4. At(seq, 1..n) = [j \in 1..n |-> seq[j]]
  <2>1. At(seq, 1..n) = [j \in 1..n |->
          seq[CHOOSE k \in 1..n : Cardinality({l \in 1..n : l <= k}) = j]]
    BY <1>1, Zenon DEF At
  <2> QED
    BY <1>3, <2>1
<1>5. \A j \in 1..n : seq[j] \in S
  OBVIOUS
<1> QED
  BY <1>1, <1>4, <1>5

LEMMA ListedOnce ==
  ASSUME NEW S, IsFiniteSet(S)
  PROVE  /\ Cardinality(S) \in Nat
         /\ SetToSeq(S) \in Seq(S)
         /\ Len(SetToSeq(S)) = Cardinality(S)
         /\ \A j, k \in 1..Cardinality(S) : SetToSeq(S)[j] = SetToSeq(S)[k] => j = k
         /\ \A x \in S : \E k \in 1..Cardinality(S) : SetToSeq(S)[k] = x
<1> DEFINE n == Cardinality(S)
<1>1. n \in Nat /\ ExistsBijection(1..n, S)
  BY FS_CardinalityType
<1>2. PICK f \in Bijection(1..n, S) : TRUE
  BY <1>1 DEF ExistsBijection
<1>3. f \in [1..n -> S] /\ IsInjective(f)
  BY <1>2 DEF Bijection, Injection, IsInjective
<1>4. SetToSeq(S) \in [1..n -> S] /\ IsInjective(SetToSeq(S))
  BY <1>3 DEF SetToSeq
<1>5. SetToSeq(S) \in Injection(1..n, S)
  BY <1>4 DEF Injection, IsInjective
<1>6. IsFiniteSet(1..n) /\ Cardinality(1..n) = n
  BY <1>1, FS_Interval
<1>7. SetToSeq(S) \in Surjection(1..n, S)
  BY <1>5, <1>6, FS_Injection
<1> HIDE DEF n
<1> QED
  BY <1>1, <1>4, <1>7 DEF n, Surjection, IsInjective

-----------------------------------------------------------------------------
(* Route markers                                                           *)

LEMMA FirstOfIsOne ==
  ASSUME NEW outbounds \in Seq(Outbounds), NEW positions \in SUBSET DOMAIN outbounds
  PROVE  IF positions = {} THEN FirstOf(outbounds, positions) = None
         ELSE \E k \in positions : FirstOf(outbounds, positions) = outbounds[k]
<1>1. CASE positions = {}
  BY <1>1 DEF FirstOf
<1>2. CASE positions # {}
  <2>1. positions \in SUBSET Nat
    BY LenProperties
  <2>2. \E k \in positions : \A l \in positions : k <= l
    BY <1>2, <2>1, SmallestOf
  <2> QED
    BY <1>2, <2>2 DEF FirstOf
<1> QED
  BY <1>1, <1>2

HasDirect(doc) == \E k \in DOMAIN doc.outbounds : doc.outbounds[k].type = "direct"

(* The outbound that is copied goes out directly, and there is one whenever
   the document has one that does.                                         *)
LEMMA BaseIsDirect ==
  ASSUME NEW doc \in Documents
  PROVE  LET base == BaseDirectOutbound(doc)
         IN IF HasDirect(doc) THEN base \in Outbounds /\ base # None /\ base.type = "direct"
            ELSE base = None
<1> DEFINE direct == {k \in DOMAIN doc.outbounds : doc.outbounds[k].type = "direct"}
           final == {k \in direct : doc.final.id # None /\ doc.outbounds[k].tag = doc.final}
           named == {k \in direct : doc.outbounds[k].tag = [kind |-> "own", id |-> "direct"]}
           chosen == CASE final # {} -> final
                       [] final = {} /\ named # {} -> named
                       [] OTHER -> direct
<1>1. doc.outbounds \in Seq(Outbounds)
  BY DEF Documents
<1>2. chosen \subseteq direct /\ (chosen = {} <=> direct = {})
  OBVIOUS
<1>3. BaseDirectOutbound(doc) = FirstOf(doc.outbounds, chosen)
  BY Zenon DEF BaseDirectOutbound
<1> HIDE DEF chosen
<1>4. IF chosen = {} THEN FirstOf(doc.outbounds, chosen) = None
      ELSE \E k \in chosen : FirstOf(doc.outbounds, chosen) = doc.outbounds[k]
  BY <1>1, <1>2, FirstOfIsOne
<1>5. \A k \in direct : doc.outbounds[k] \in Outbounds /\ doc.outbounds[k].type = "direct"
  BY <1>1, LenProperties
<1> QED
  BY <1>2, <1>3, <1>4, <1>5, DocumentAssumption DEF HasDirect

Markers(ids) ==
  [k \in 1..Cardinality(ids) |-> [tag |-> UserTag(SetToSeq(ids)[k]), type |-> "direct"]]

MarkerRules(ids, tags) ==
  [k \in 1..Cardinality(ids) |-> UserRule(SetToSeq(ids)[k], tags)]

LEMMA IdsFinite == IsFiniteSet(Ids)
<1> DEFINE keys == {Key(u) : u \in Users}
           f == [u \in Users |-> Key(u)]
<1>1. f \in Surjection(Users, keys)
  BY DEF Surjection
<1>2. IsFiniteSet(keys)
  BY <1>1, DocumentAssumption, FS_Surjection
<1> QED
  BY <1>2, DocumentAssumption, FS_Union DEF Ids

LEMMA ListedIds ==
  ASSUME NEW ids \in SUBSET Ids
  PROVE  /\ IsFiniteSet(ids) /\ Cardinality(ids) \in Nat
         /\ SetToSeq(ids) \in Seq(ids) /\ DOMAIN SetToSeq(ids) = 1..Cardinality(ids)
         /\ \A k \in 1..Cardinality(ids) : SetToSeq(ids)[k] \in ids
         /\ \A j, k \in 1..Cardinality(ids) : SetToSeq(ids)[j] = SetToSeq(ids)[k] => j = k
         /\ \A x \in ids : \E k \in 1..Cardinality(ids) : SetToSeq(ids)[k] = x
<1>1. IsFiniteSet(ids)
  BY IdsFinite, FS_Subset
<1> QED
  BY <1>1, ListedOnce, LenProperties

LEMMA MarkersTyped ==
  ASSUME NEW ids \in SUBSET Ids, NEW tags \in SUBSET Names
  PROVE  /\ Markers(ids) \in Seq(Outbounds) /\ Len(Markers(ids)) = Cardinality(ids)
         /\ MarkerRules(ids, tags) \in Seq(Rules)
         /\ Len(MarkerRules(ids, tags)) = Cardinality(ids)
<1>1. /\ Cardinality(ids) \in Nat
      /\ \A k \in 1..Cardinality(ids) : SetToSeq(ids)[k] \in Ids
  BY ListedIds
<1>2. \A id \in Ids : UserTag(id) \in Tags
  BY DEF UserTag, Tags
<1>3. \A id \in Ids : [tag |-> UserTag(id), type |-> "direct"] \in Outbounds
  BY <1>2, DocumentAssumption DEF Outbounds
<1>4. \A id \in Ids : UserRule(id, tags) \in Rules
  BY <1>2 DEF UserRule, Rules
<1>5. \A k \in 1..Cardinality(ids) : Markers(ids)[k] \in Outbounds
  BY <1>1, <1>3 DEF Markers
<1>6. \A k \in 1..Cardinality(ids) : MarkerRules(ids, tags)[k] \in Rules
  BY <1>1, <1>4 DEF MarkerRules
<1>7. /\ DOMAIN Markers(ids) = 1..Cardinality(ids)
      /\ Markers(ids) = [k \in 1..Cardinality(ids) |-> Markers(ids)[k]]
      /\ DOMAIN MarkerRules(ids, tags) = 1..Cardinality(ids)
      /\ MarkerRules(ids, tags) = [k \in 1..Cardinality(ids) |-> MarkerRules(ids, tags)[k]]
  BY DEF Markers, MarkerRules
<1> QED
  BY <1>1, <1>5, <1>6, <1>7

(* Without its markers a marked document is what it was.                   *)
LEMMA OwnOfMarked ==
  ASSUME NEW own \in Seq(Outbounds), NEW rules \in Seq(Rules),
         NEW ids \in SUBSET Ids, NEW tags \in SUBSET Names,
         \A k \in DOMAIN own : ~IsUserTag(own[k].tag),
         \A k \in DOMAIN rules : ~IsUserTag(rules[k].outbound)
  PROVE  /\ OwnOutbounds(own \o Markers(ids)) = own
         /\ OwnRules(rules \o MarkerRules(ids, tags)) = rules
<1> DEFINE n == Cardinality(ids)
           outs == own \o Markers(ids)
           all == rules \o MarkerRules(ids, tags)
<1>1. /\ n \in Nat
      /\ Markers(ids) \in Seq(Outbounds) /\ Len(Markers(ids)) = n
      /\ MarkerRules(ids, tags) \in Seq(Rules) /\ Len(MarkerRules(ids, tags)) = n
  BY ListedIds, MarkersTyped
<1>2. \A k \in 1..n : /\ IsUserTag(Markers(ids)[k].tag)
                      /\ IsUserTag(MarkerRules(ids, tags)[k].outbound)
  BY DEF Markers, MarkerRules, UserRule, UserTag, IsUserTag
<1>3. OwnOutbounds(outs) = own
  <2>1. /\ outs \in Seq(Outbounds) /\ Len(outs) = Len(own) + n
        /\ \A k \in 1..(Len(own) + n) :
             outs[k] = IF k <= Len(own) THEN own[k] ELSE Markers(ids)[k - Len(own)]
    BY <1>1, ConcatProperties
  <2>2. \A k \in 1..(Len(own) + n) : IsUserTag(outs[k].tag) <=> k > Len(own)
    BY <1>1, <1>2, <2>1
  <2>3. {k \in DOMAIN outs : ~IsUserTag(outs[k].tag)} = 1..Len(own)
    BY <1>1, <2>1, <2>2
  <2>4. At(outs, 1..Len(own)) = own
    <3> HIDE DEF outs
    <3>1. Len(own) \in 0..Len(outs)
      BY <1>1, <2>1
    <3>2. /\ At(outs, 1..Len(own)) \in Seq(Outbounds)
          /\ Len(At(outs, 1..Len(own))) = Len(own)
          /\ \A j \in 1..Len(own) : At(outs, 1..Len(own))[j] = outs[j]
      BY <2>1, <3>1, AtFirst
    <3> QED
      BY <1>1, <2>1, <3>2, SeqEqual
  <2> QED
    BY <2>3, <2>4 DEF OwnOutbounds
<1>4. OwnRules(all) = rules
  <2>1. /\ all \in Seq(Rules) /\ Len(all) = Len(rules) + n
        /\ \A k \in 1..(Len(rules) + n) :
             all[k] = IF k <= Len(rules) THEN rules[k] ELSE MarkerRules(ids, tags)[k - Len(rules)]
    BY <1>1, ConcatProperties
  <2>2. \A k \in 1..(Len(rules) + n) : IsUserTag(all[k].outbound) <=> k > Len(rules)
    BY <1>1, <1>2, <2>1
  <2>3. {k \in DOMAIN all : ~IsUserTag(all[k].outbound)} = 1..Len(rules)
    BY <1>1, <2>1, <2>2
  <2>4. At(all, 1..Len(rules)) = rules
    <3> HIDE DEF all
    <3>1. Len(rules) \in 0..Len(all)
      BY <1>1, <2>1
    <3>2. /\ At(all, 1..Len(rules)) \in Seq(Rules)
          /\ Len(At(all, 1..Len(rules))) = Len(rules)
          /\ \A j \in 1..Len(rules) : At(all, 1..Len(rules))[j] = all[j]
      BY <2>1, <3>1, AtFirst
    <3> QED
      BY <1>1, <2>1, <3>2, SeqEqual
  <2> QED
    BY <2>3, <2>4 DEF OwnRules
<1> QED
  BY <1>3, <1>4

-----------------------------------------------------------------------------
(* Inbounds                                                                *)

LEMMA EntriesTyped ==
  ASSUME NEW s, NEW table \in UserTables, NEW protocol
  PROVE  EntriesFor(s, table, protocol) \in SUBSET Entries
<1> SUFFICES ASSUME NEW id \in Ids, table[id] # None
             PROVE  Entry(s, id, table[id]) \in Entries
  BY DEF EntriesFor, Present
<1>1. table[id] \in Creds
  BY DEF UserTables
<1> QED
  BY <1>1 DEF Creds, Entry, Entries

LEMMA NoListIsNone == NoList \notin SUBSET Entries
BY DocumentAssumption DEF NoList

(* A rendered inbound keeps its tag and type, so it is managed as before;
   what is read from it is what was written, and nothing else of it changes. *)
LEMMA InboundRendered ==
  ASSUME NEW s, NEW table \in UserTables, NEW inbound \in Inbounds
  PROVE  LET rendered == RenderInbound(s, table, inbound)
             entries == EntriesFor(s, table, inbound.type)
         IN /\ rendered \in Inbounds
            /\ rendered.tag = inbound.tag /\ rendered.type = inbound.type
            /\ Managed(s, rendered) <=> Managed(s, inbound)
            /\ ~Managed(s, inbound) => rendered = inbound
            /\ Managed(s, inbound) => /\ UserEntries(s, rendered) = entries
                                      /\ \/ rendered.users = entries
                                         \/ rendered.clients = entries
                                      /\ entries # NoList
            /\ (inbound.clients # NoList /\ inbound.users = NoList /\ s.variant # "singbox")
                 => rendered.users = NoList
<1> DEFINE rendered == RenderInbound(s, table, inbound)
           entries == EntriesFor(s, table, inbound.type)
           key == UserListKey(s, inbound)
<1>1. entries \in SUBSET Entries /\ entries # NoList
  BY EntriesTyped, NoListIsNone
<1>2. key = "users" \/ key = "clients"
  BY DEF UserListKey
<1>3. key = "clients" => inbound.users = NoList /\ s.variant # "singbox"
  BY DEF UserListKey
<1>4. (inbound.clients # NoList /\ inbound.users = NoList /\ s.variant # "singbox")
        => key = "clients"
  BY DEF UserListKey
<1>5. CASE ~Managed(s, inbound)
  <2>1. rendered = inbound
    BY <1>5 DEF RenderInbound
  <2> QED
    BY <1>5, <2>1
<1>6. CASE Managed(s, inbound) /\ key = "users"
  <2>1. rendered = [inbound EXCEPT !.users = entries]
    BY <1>6 DEF RenderInbound
  <2>2. /\ rendered \in Inbounds /\ rendered.users = entries
        /\ rendered.tag = inbound.tag /\ rendered.type = inbound.type
    BY <1>1, <2>1 DEF Inbounds, Lists
  <2>3. Managed(s, rendered)
    BY <1>6, <2>2 DEF Managed
  <2>4. UserEntries(s, rendered) = entries
    BY <1>1, <2>2 DEF UserEntries
  <2> HIDE DEF rendered, entries, key
  <2>5. ~(inbound.clients # NoList /\ inbound.users = NoList /\ s.variant # "singbox")
    BY <1>4, <1>6
  <2> QED
    BY <1>1, <1>6, <2>2, <2>3, <2>4, <2>5 DEF rendered, entries
<1>7. CASE Managed(s, inbound) /\ key = "clients"
  <2>1. rendered = [inbound EXCEPT !.clients = entries]
    BY <1>7 DEF RenderInbound
  <2>2. /\ rendered \in Inbounds /\ rendered.clients = entries
        /\ rendered.users = NoList
        /\ rendered.tag = inbound.tag /\ rendered.type = inbound.type
    BY <1>1, <1>3, <1>7, <2>1 DEF Inbounds, Lists
  <2>3. Managed(s, rendered)
    BY <1>7, <2>2 DEF Managed
  <2>4. UserEntries(s, rendered) = entries
    BY <1>1, <1>3, <1>7, <2>2 DEF UserEntries
  <2> HIDE DEF rendered, entries, key
  <2> QED
    BY <1>1, <1>7, <2>2, <2>3, <2>4 DEF rendered, entries
<1> QED
  BY <1>2, <1>5, <1>6, <1>7

(* Rendering what was rendered before gives what rendering the first
   document gives: nothing of an earlier table of users is left.           *)
THEOREM RenderedTwice ==
  ASSUME NEW s, NEW first \in UserTables, NEW table \in UserTables, NEW inbound \in Inbounds
  PROVE  RenderInbound(s, table, RenderInbound(s, first, inbound))
           = RenderInbound(s, table, inbound)
<1> DEFINE rendered == RenderInbound(s, first, inbound)
           old == EntriesFor(s, first, inbound.type)
           new == EntriesFor(s, table, inbound.type)
<1>1. /\ rendered.type = inbound.type
      /\ Managed(s, rendered) <=> Managed(s, inbound)
      /\ ~Managed(s, inbound) => rendered = inbound
  BY InboundRendered
<1>2. CASE ~Managed(s, inbound)
  BY <1>1, <1>2
<1>3. CASE Managed(s, inbound)
  <2>1. old \in SUBSET Entries /\ old # NoList
    BY EntriesTyped, NoListIsNone
  <2>2. CASE UserListKey(s, inbound) = "users"
    <3>1. rendered = [inbound EXCEPT !.users = old]
      BY <1>3, <2>2 DEF RenderInbound
    <3>2. rendered.users # NoList
      BY <2>1, <3>1 DEF Inbounds
    <3>3. UserListKey(s, rendered) = "users"
      BY <3>2 DEF UserListKey
    <3>4. RenderInbound(s, table, rendered) = [rendered EXCEPT !.users = new]
      BY <1>1, <1>3, <3>3 DEF RenderInbound
    <3>5. RenderInbound(s, table, inbound) = [inbound EXCEPT !.users = new]
      BY <1>3, <2>2 DEF RenderInbound
    <3> HIDE DEF old, new, rendered
    <3>6. [rendered EXCEPT !.users = new] = [inbound EXCEPT !.users = new]
      BY <3>1 DEF Inbounds
    <3> QED
      BY <3>4, <3>5, <3>6 DEF rendered
  <2>3. CASE UserListKey(s, inbound) # "users"
    <3>1. rendered = [inbound EXCEPT !.clients = old]
      BY <1>3, <2>3 DEF RenderInbound
    <3>2. inbound.users = NoList /\ s.variant # "singbox"
      BY <2>3 DEF UserListKey
    <3>3. rendered.users = NoList /\ rendered.clients # NoList
      BY <2>1, <3>1, <3>2 DEF Inbounds
    <3>4. UserListKey(s, rendered) # "users"
      BY <3>2, <3>3 DEF UserListKey
    <3>5. RenderInbound(s, table, rendered) = [rendered EXCEPT !.clients = new]
      BY <1>1, <1>3, <3>4 DEF RenderInbound
    <3>6. RenderInbound(s, table, inbound) = [inbound EXCEPT !.clients = new]
      BY <1>3, <2>3 DEF RenderInbound
    <3> HIDE DEF old, new, rendered
    <3>7. [rendered EXCEPT !.clients = new] = [inbound EXCEPT !.clients = new]
      BY <3>1 DEF Inbounds
    <3> QED
      BY <3>5, <3>6, <3>7 DEF rendered
  <2> QED
    BY <2>2, <2>3
<1> QED
  BY <1>2, <1>3

-----------------------------------------------------------------------------
(* Reading                                                                 *)

\* The inbounds that say something of a user.
Hits(s, doc, id) ==
  {k \in DOMAIN doc.inbounds : /\ Managed(s, doc.inbounds[k])
                               /\ \E entry \in UserEntries(s, doc.inbounds[k]) : IdOf(entry) = id}

LEMMA UserEntriesTyped ==
  ASSUME NEW s, NEW inbound \in Inbounds
  PROVE  UserEntries(s, inbound) \in SUBSET Entries
BY DEF UserEntries, Inbounds, Lists

\* An entry of the inbound says this of the user.
SaysOf(s, inbound, id, creds) ==
  \E entry \in UserEntries(s, inbound) :
    IdOf(entry) = id /\ creds = [protocol |-> inbound.type, secret |-> entry.secret]

(* What is loaded of a user is an entry of an inbound that has one.        *)
LEMMA LoadedIsAnEntry ==
  ASSUME NEW s, NEW doc \in Documents, NEW id \in Ids
  PROVE  IF Hits(s, doc, id) = {} THEN Load(s, doc)[id] = None
         ELSE \E k \in Hits(s, doc, id) : SaysOf(s, doc.inbounds[k], id, Load(s, doc)[id])
<1> DEFINE hits == Hits(s, doc, id)
           last == CHOOSE k \in hits : \A l \in hits : l <= k
           entry == CHOOSE e \in UserEntries(s, doc.inbounds[last]) : IdOf(e) = id
<1>1. Load(s, doc)[id] = IF hits = {} THEN None
                         ELSE [protocol |-> doc.inbounds[last].type, secret |-> entry.secret]
  BY DEF Load, Hits
<1>2. CASE hits # {}
  <2>1. doc.inbounds \in Seq(Inbounds)
    BY DEF Documents
  <2>2. Len(doc.inbounds) \in Nat /\ DOMAIN doc.inbounds = 1..Len(doc.inbounds)
    BY <2>1, LenProperties
  <2>3. hits \in SUBSET (1..Len(doc.inbounds))
    BY <2>2 DEF Hits
  <2> HIDE DEF hits
  <2>4. last \in hits
    BY <1>2, <2>2, <2>3, LargestOf
  <2> HIDE DEF last
  <2>5. \E e \in UserEntries(s, doc.inbounds[last]) : IdOf(e) = id
    BY <2>4 DEF hits, Hits
  <2>6. entry \in UserEntries(s, doc.inbounds[last]) /\ IdOf(entry) = id
    BY <2>5
  <2> HIDE DEF entry
  <2> QED
    BY <1>1, <1>2, <2>4, <2>6 DEF hits, SaysOf
<1> QED
  BY <1>1, <1>2

LEMMA LoadTyped ==
  ASSUME NEW s, NEW doc \in Documents
  PROVE  Load(s, doc) \in UserTables
<1>1. ASSUME NEW id \in Ids PROVE Load(s, doc)[id] \in Creds \cup {None}
  <2>1. CASE Hits(s, doc, id) = {}
    BY <2>1, LoadedIsAnEntry
  <2>2. CASE Hits(s, doc, id) # {}
    <3>1. PICK k \in Hits(s, doc, id) :
            SaysOf(s, doc.inbounds[k], id, Load(s, doc)[id])
      BY <2>2, LoadedIsAnEntry
    <3>2. k \in DOMAIN doc.inbounds
      BY DEF Hits
    <3>3. doc.inbounds[k] \in Inbounds
      BY <3>2, LenProperties DEF Documents
    <3>4. \A entry \in UserEntries(s, doc.inbounds[k]) : entry \in Entries
      BY <3>3, UserEntriesTyped
    <3>5. doc.inbounds[k].type \in Names \cup {None}
      BY <3>3 DEF Inbounds
    <3> QED
      BY <3>1, <3>4, <3>5 DEF SaysOf, Creds, Entries
  <2> QED
    BY <2>1, <2>2
<1>2. Load(s, doc) = [id \in Ids |-> Load(s, doc)[id]]
  BY DEF Load
<1> QED
  BY <1>1, <1>2 DEF UserTables

(* Reading an inbound that was rendered from a table: a user is found there
   exactly when it is the inbound of the user's protocol.                  *)
LEMMA EntryOfUser ==
  ASSUME NEW s, NEW table \in UserTables, NEW protocol, NEW id \in Ids,
         NEW entry \in EntriesFor(s, table, protocol), IdOf(entry) = id
  PROVE  table[id] # None /\ Protocol(table[id]) = protocol /\ entry = Entry(s, id, table[id])
<1>1. PICK i \in Ids : /\ table[i] # None /\ Protocol(table[i]) = protocol
                       /\ entry = Entry(s, i, table[i])
  BY DEF EntriesFor, Present
<1>2. IdOf(entry) = i
  BY <1>1, DocumentAssumption DEF IdOf, Entry
<1> QED
  BY <1>1, <1>2

LEMMA UserHasEntry ==
  ASSUME NEW s, NEW table \in UserTables, NEW id \in Ids, table[id] # None
  PROVE  /\ Entry(s, id, table[id]) \in EntriesFor(s, table, Protocol(table[id]))
         /\ IdOf(Entry(s, id, table[id])) = id
BY DocumentAssumption DEF EntriesFor, Present, IdOf, Entry

(* What is loaded from inbounds that were rendered from a table.           *)
LEMMA LoadedFromRendered ==
  ASSUME NEW s, NEW table \in UserTables, NEW doc \in Documents, NEW id \in Ids,
         \A k \in DOMAIN doc.inbounds : Managed(s, doc.inbounds[k]) =>
           UserEntries(s, doc.inbounds[k]) = EntriesFor(s, table, doc.inbounds[k].type)
  PROVE  Load(s, doc)[id] =
           IF /\ table[id] # None
              /\ \E k \in DOMAIN doc.inbounds : /\ doc.inbounds[k].type = Protocol(table[id])
                                                /\ Managed(s, doc.inbounds[k])
           THEN [protocol |-> Protocol(table[id]), secret |-> Entry(s, id, table[id]).secret]
           ELSE None
<1> DEFINE doors == {k \in DOMAIN doc.inbounds : /\ doc.inbounds[k].type = Protocol(table[id])
                                                 /\ Managed(s, doc.inbounds[k])}
<1>1. \A k \in Hits(s, doc, id) : \A entry \in UserEntries(s, doc.inbounds[k]) :
        IdOf(entry) = id =>
          table[id] # None /\ k \in doors /\ entry = Entry(s, id, table[id])
  <2> SUFFICES ASSUME NEW k \in Hits(s, doc, id), NEW entry \in UserEntries(s, doc.inbounds[k]),
                      IdOf(entry) = id
               PROVE  table[id] # None /\ k \in doors /\ entry = Entry(s, id, table[id])
    OBVIOUS
  <2>1. /\ k \in DOMAIN doc.inbounds /\ Managed(s, doc.inbounds[k])
        /\ entry \in EntriesFor(s, table, doc.inbounds[k].type)
    BY DEF Hits
  <2> QED
    BY <2>1, EntryOfUser
<1>2. table[id] # None => doors \subseteq Hits(s, doc, id)
  BY UserHasEntry DEF Hits
<1>3. CASE Hits(s, doc, id) = {}
  BY <1>2, <1>3, LoadedIsAnEntry
<1>4. CASE Hits(s, doc, id) # {}
  <2>1. PICK k \in Hits(s, doc, id) : SaysOf(s, doc.inbounds[k], id, Load(s, doc)[id])
    BY <1>4, LoadedIsAnEntry
  <2>2. /\ table[id] # None /\ k \in doors
        /\ Load(s, doc)[id] = [protocol |-> doc.inbounds[k].type,
                               secret |-> Entry(s, id, table[id]).secret]
    BY <1>1, <2>1 DEF SaysOf
  <2> QED
    BY <2>2
<1> QED
  BY <1>3, <1>4

-----------------------------------------------------------------------------
(* Documents                                                               *)

\* The base with the markers of some users, and with inbounds that are the
\* base's or were rendered from them.
Marked(s, doc, ids, tags) ==
  /\ doc.outbounds = s.base.outbounds \o Markers(ids)
  /\ doc.rules = s.base.rules \o MarkerRules(ids, tags)

SameInbounds(s, doc) ==
  /\ DOMAIN doc.inbounds = DOMAIN s.base.inbounds
  /\ \A k \in DOMAIN s.base.inbounds :
       \/ doc.inbounds[k] = s.base.inbounds[k]
       \/ \E table \in UserTables :
            doc.inbounds[k] = RenderInbound(s, table, s.base.inbounds[k])

InboundsOf(s, table) ==
  [k \in DOMAIN s.base.inbounds |-> RenderInbound(s, table, s.base.inbounds[k])]

LEMMA InboundsOfTyped ==
  ASSUME NEW s, s.base \in Documents, NEW table \in UserTables
  PROVE  InboundsOf(s, table) \in Seq(Inbounds)
<1>1. /\ s.base.inbounds \in Seq(Inbounds)
      /\ Len(s.base.inbounds) \in Nat /\ DOMAIN s.base.inbounds = 1..Len(s.base.inbounds)
      /\ \A k \in DOMAIN s.base.inbounds : s.base.inbounds[k] \in Inbounds
  BY LenProperties DEF Documents
<1>2. \A k \in DOMAIN s.base.inbounds : InboundsOf(s, table)[k] \in Inbounds
  BY <1>1, InboundRendered DEF InboundsOf
<1>3. InboundsOf(s, table) = [k \in 1..Len(s.base.inbounds) |-> InboundsOf(s, table)[k]]
  BY <1>1 DEF InboundsOf
<1> QED
  BY <1>1, <1>2, <1>3

LEMMA TagsTyped ==
  ASSUME NEW s, NEW inbounds \in Seq(Inbounds)
  PROVE  ManagedInboundTags(s, inbounds) \in SUBSET Names
<1>1. \A k \in DOMAIN inbounds : inbounds[k] \in Inbounds
  BY LenProperties
<1> QED
  BY <1>1 DEF ManagedInboundTags, Inbounds

(* Injecting the markers of some users into a marked document replaces the
   markers, or leaves it alone.                                            *)
LEMMA MarkersInjected ==
  ASSUME NEW s, s.base \in Documents, Unmarked(s.base),
         NEW doc \in Documents, NEW old \in SUBSET Ids, NEW seen \in SUBSET Names,
         Marked(s, doc, old, seen), NEW ids \in SUBSET Ids, NEW tags \in SUBSET Names
  PROVE  LET result == InjectUserRouteMarkers(s, doc, ids, tags)
             replaced == s.variant = "singbox" /\ ids # {} /\ HasDirect(doc)
         IN /\ result \in Documents
            /\ result.inbounds = doc.inbounds
            /\ replaced => Marked(s, result, ids, tags)
            /\ ~replaced => result = doc
<1> DEFINE base == BaseDirectOutbound(doc)
           order == SetToSeq(ids)
           replaced == s.variant = "singbox" /\ ids # {} /\ HasDirect(doc)
           result == InjectUserRouteMarkers(s, doc, ids, tags)
<1>1. IF HasDirect(doc) THEN base \in Outbounds /\ base # None /\ base.type = "direct"
      ELSE base = None
  BY BaseIsDirect
<1>2. CASE ~replaced
  <2>1. result = doc
    BY <1>1, <1>2 DEF InjectUserRouteMarkers
  <2> QED
    BY <1>2, <2>1
<1>3. CASE replaced
  <2>1. result = [doc EXCEPT
             !.outbounds = OwnOutbounds(@) \o
               [k \in DOMAIN order |-> [base EXCEPT !.tag = UserTag(order[k])]],
             !.rules = OwnRules(@) \o [k \in DOMAIN order |-> UserRule(order[k], tags)]]
    BY <1>1, <1>3, Zenon DEF InjectUserRouteMarkers
  <2>2. DOMAIN order = 1..Cardinality(ids)
    BY ListedIds
  <2>3. base = [tag |-> base.tag, type |-> "direct"]
    BY <1>1, <1>3 DEF Outbounds
  <2>4. \A k \in DOMAIN order :
          [base EXCEPT !.tag = UserTag(order[k])] = [tag |-> UserTag(order[k]), type |-> "direct"]
    <3> HIDE DEF base, order
    <3> QED
      BY <2>3
  <2>5. [k \in DOMAIN order |-> [base EXCEPT !.tag = UserTag(order[k])]] = Markers(ids)
    BY <2>2, <2>4 DEF Markers
  <2>6. [k \in DOMAIN order |-> UserRule(order[k], tags)] = MarkerRules(ids, tags)
    BY <2>2 DEF MarkerRules
  <2>7. /\ s.base.outbounds \in Seq(Outbounds) /\ s.base.rules \in Seq(Rules)
        /\ doc = [doc EXCEPT !.inbounds = doc.inbounds]
    BY DEF Documents
  <2>8. OwnOutbounds(doc.outbounds) = s.base.outbounds /\ OwnRules(doc.rules) = s.base.rules
    <3>1. /\ \A k \in DOMAIN s.base.outbounds : ~IsUserTag(s.base.outbounds[k].tag)
          /\ \A k \in DOMAIN s.base.rules : ~IsUserTag(s.base.rules[k].outbound)
      BY DEF Unmarked
    <3>2. /\ OwnOutbounds(s.base.outbounds \o Markers(old)) = s.base.outbounds
          /\ OwnRules(s.base.rules \o MarkerRules(old, seen)) = s.base.rules
      BY <2>7, <3>1, OwnOfMarked
    <3> QED
      BY <3>2 DEF Marked
  <2> HIDE DEF base, order, result
  <2>9. result = [doc EXCEPT !.outbounds = s.base.outbounds \o Markers(ids),
                             !.rules = s.base.rules \o MarkerRules(ids, tags)]
    BY <2>1, <2>5, <2>6, <2>8
  <2>10. /\ s.base.outbounds \o Markers(ids) \in Seq(Outbounds)
         /\ s.base.rules \o MarkerRules(ids, tags) \in Seq(Rules)
    BY <2>7, MarkersTyped, ConcatProperties
  <2>11. result \in Documents /\ result.inbounds = doc.inbounds /\ Marked(s, result, ids, tags)
    BY <2>9, <2>10 DEF Documents, Marked
  <2> QED
    BY <1>3, <2>11 DEF result
<1> QED
  BY <1>2, <1>3

(* Writing over the base, or over what was written over it: the inbounds are
   the base's with the users of the table, and only they.                  *)
LEMMA DocumentRendered ==
  ASSUME NEW s, s.base \in Documents, Unmarked(s.base), NEW table \in UserTables,
         NEW source \in Documents, SameInbounds(s, source),
         NEW old \in SUBSET Ids, NEW seen \in SUBSET Names, Marked(s, source, old, seen)
  PROVE  LET doc == Render(s, table, source)
             replaced == s.variant = "singbox" /\ Present(table) # {} /\ HasDirect(source)
         IN /\ doc \in Documents
            /\ doc.inbounds = InboundsOf(s, table)
            /\ replaced => \E tags \in SUBSET Names : Marked(s, doc, Present(table), tags)
            /\ ~replaced => doc.outbounds = source.outbounds /\ doc.rules = source.rules
<1> DEFINE inbounds == [k \in DOMAIN source.inbounds |->
                          RenderInbound(s, table, source.inbounds[k])]
           counted == Counted(s, table)
           filled == [source EXCEPT !.inbounds = inbounds, !.counted = counted]
           tags == ManagedInboundTags(s, inbounds)
           ids == Present(table)
<1>1. inbounds = InboundsOf(s, table)
  <2>1. \A k \in DOMAIN s.base.inbounds : s.base.inbounds[k] \in Inbounds
    BY LenProperties DEF Documents
  <2>2. \A k \in DOMAIN s.base.inbounds :
          RenderInbound(s, table, source.inbounds[k]) = RenderInbound(s, table, s.base.inbounds[k])
    BY <2>1, RenderedTwice DEF SameInbounds
  <2> QED
    BY <2>2 DEF SameInbounds, InboundsOf
<1>2. inbounds \in Seq(Inbounds)
  BY <1>1, InboundsOfTyped
<1>3. tags \in SUBSET Names
  BY <1>2, TagsTyped
<1>4. ids \in SUBSET Ids /\ counted \in SUBSET Ids
  BY DEF Present, Counted
<1>5. Render(s, table, source) = InjectUserRouteMarkers(s, filled, ids, tags)
  BY Zenon DEF Render
<1> HIDE DEF inbounds, counted, tags, ids
<1>6. /\ filled \in Documents /\ filled.inbounds = inbounds
      /\ filled.outbounds = source.outbounds /\ filled.rules = source.rules
  BY <1>2, <1>4 DEF Documents
<1>7. Marked(s, filled, old, seen)
  BY <1>6 DEF Marked
<1> HIDE DEF filled
<1> DEFINE written == InjectUserRouteMarkers(s, filled, ids, tags)
           replaced == s.variant = "singbox" /\ ids # {} /\ HasDirect(filled)
<1>8. ids \in SUBSET Ids /\ tags \in SUBSET Names /\ filled \in Documents
  BY <1>3, <1>4, <1>6
<1>9. /\ written \in Documents /\ written.inbounds = filled.inbounds
      /\ replaced => Marked(s, written, ids, tags)
      /\ ~replaced => written = filled
  BY <1>7, <1>8, MarkersInjected
<1> HIDE DEF written
<1> QED
  BY <1>1, <1>3, <1>5, <1>6, <1>9 DEF written, ids, HasDirect
=============================================================================
