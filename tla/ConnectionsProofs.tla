------------------------- MODULE ConnectionsProofs -------------------------
(***************************************************************************)
(* An adapter with any documents, users and clients: what its file says,   *)
(* whom a connection is put down to, and that the goroutine that closes a  *)
(* disabled user's connections is thorough.                                *)
(***************************************************************************)
EXTENDS Connections, ConfigDocumentProofs

-----------------------------------------------------------------------------
(* The file                                                                *)

\* A document the adapter may write over: the base, but for the users of its
\* inbounds and for markers.
Based(s, doc) ==
  /\ doc \in Documents
  /\ SameInbounds(s, doc)
  /\ \E ids \in SUBSET Ids, tags \in SUBSET Names : Marked(s, doc, ids, tags)

\* A document the adapter may find or the core may have loaded: such a one, or
\* the one that was there first.
Found(s, doc) == Based(s, doc) \/ (doc = s.found /\ doc # None)

\* What the adapter makes of it with this table: who is served, and marked, is
\* the table's.
Written(s, table, doc) ==
  /\ doc \in Documents
  /\ doc.inbounds = InboundsOf(s, table)
  /\ \E ids \in SUBSET Ids, tags \in SUBSET Names :
       /\ Marked(s, doc, ids, tags)
       /\ s.variant = "singbox" =>
            /\ Present(table) # {} /\ HasDirect(s.base) => ids = Present(table)
            /\ Present(table) = {} /\ s.template => ids = {}

LEMMA SettingFacts ==
  ASSUME NEW s \in Settings
  PROVE  /\ s.base \in Documents /\ Unmarked(s.base)
         /\ s.base.inbounds \in Seq(Inbounds)
         /\ s.base.outbounds \in Seq(Outbounds)
         /\ s.base.rules \in Seq(Rules)
         /\ s.protocols \subseteq Names \cup {None}
         /\ s.secrets \subseteq BOOLEAN
         /\ s.found # None => s.found \in Documents /\ Unmarked(s.found)
         /\ ~s.template => s.found = s.base
BY ConnectionsAssumption DEF Documents

LEMMA NoMarkers ==
  ASSUME NEW s \in Settings
  PROVE  \A tags : Marked(s, s.base, {}, tags)
<1>1. Cardinality({}) = 0
  BY FS_EmptySet
<1>2. Markers({}) = << >> /\ \A tags : MarkerRules({}, tags) = << >>
  BY <1>1 DEF Markers, MarkerRules
<1> QED
  BY <1>2, SettingFacts, ConcatEmptySeq DEF Marked

LEMMA BaseFound ==
  ASSUME NEW s \in Settings
  PROVE  Based(s, s.base) /\ Found(s, s.base)
BY SettingFacts, NoMarkers DEF Based, Found, SameInbounds

LEMMA WrittenIsFound ==
  ASSUME NEW s \in Settings, NEW table \in UserTables, NEW doc, Written(s, table, doc)
  PROVE  Based(s, doc) /\ Found(s, doc)
BY DEF Written, Based, Found, SameInbounds, InboundsOf

LEMMA FoundIsDocument ==
  ASSUME NEW s \in Settings, NEW doc, Found(s, doc)
  PROVE  doc \in Documents
BY SettingFacts DEF Found, Based

(* Without a template there is nothing else to write over.                 *)
LEMMA FoundWithoutTemplate ==
  ASSUME NEW s \in Settings, NEW doc, Found(s, doc), ~s.template
  PROVE  Based(s, doc)
BY SettingFacts, BaseFound DEF Found

(* The outbounds and rules of a marked document: those of the base, then the
   markers, each for a user of its own.                                    *)
LEMMA MarkedParts ==
  ASSUME NEW s \in Settings, NEW doc, NEW ids \in SUBSET Ids, NEW tags \in SUBSET Names,
         Marked(s, doc, ids, tags)
  PROVE  LET outs == Len(s.base.outbounds)
             rules == Len(s.base.rules)
             n == Cardinality(ids)
         IN /\ outs \in Nat /\ rules \in Nat /\ n \in Nat
            /\ DOMAIN s.base.outbounds = 1..outs /\ DOMAIN s.base.rules = 1..rules
            /\ DOMAIN doc.outbounds = 1..(outs + n) /\ DOMAIN doc.rules = 1..(rules + n)
            /\ \A k \in 1..outs : /\ doc.outbounds[k] = s.base.outbounds[k]
                                  /\ ~IsUserTag(doc.outbounds[k].tag)
            /\ \A k \in 1..rules : /\ doc.rules[k] = s.base.rules[k]
                                   /\ ~IsUserTag(doc.rules[k].outbound)
            /\ \A k \in 1..n : doc.outbounds[outs + k]
                                 = [tag |-> UserTag(SetToSeq(ids)[k]), type |-> "direct"]
            /\ \A k \in 1..n : doc.rules[rules + k] = UserRule(SetToSeq(ids)[k], tags)
<1> DEFINE outs == Len(s.base.outbounds)
           rules == Len(s.base.rules)
           n == Cardinality(ids)
<1>1. /\ s.base.outbounds \in Seq(Outbounds) /\ s.base.rules \in Seq(Rules)
      /\ Unmarked(s.base)
  BY SettingFacts
<1>2. /\ outs \in Nat /\ DOMAIN s.base.outbounds = 1..outs
      /\ rules \in Nat /\ DOMAIN s.base.rules = 1..rules
  BY <1>1, LenProperties
<1>3. /\ n \in Nat
      /\ Markers(ids) \in Seq(Outbounds) /\ Len(Markers(ids)) = n
      /\ MarkerRules(ids, tags) \in Seq(Rules) /\ Len(MarkerRules(ids, tags)) = n
  BY ListedIds, MarkersTyped
<1>4. /\ doc.outbounds \in Seq(Outbounds) /\ Len(doc.outbounds) = outs + n
      /\ \A k \in 1..(outs + n) : doc.outbounds[k] =
           IF k <= outs THEN s.base.outbounds[k] ELSE Markers(ids)[k - outs]
  <2> DEFINE all == s.base.outbounds \o Markers(ids)
  <2>1. /\ all \in Seq(Outbounds) /\ Len(all) = outs + n
        /\ \A k \in 1..(outs + n) :
             all[k] = IF k <= outs THEN s.base.outbounds[k] ELSE Markers(ids)[k - outs]
    BY <1>1, <1>3, ConcatProperties
  <2>2. doc.outbounds = all
    BY DEF Marked
  <2> HIDE DEF all
  <2> QED
    BY <2>1, <2>2
<1>5. /\ doc.rules \in Seq(Rules) /\ Len(doc.rules) = rules + n
      /\ \A k \in 1..(rules + n) : doc.rules[k] =
           IF k <= rules THEN s.base.rules[k] ELSE MarkerRules(ids, tags)[k - rules]
  <2> DEFINE own == s.base.rules
             marks == MarkerRules(ids, tags)
  <2>1. own \in Seq(Rules) /\ marks \in Seq(Rules) /\ Len(own) = rules /\ Len(marks) = n
    BY <1>1, <1>3
  <2>2. doc.rules = own \o marks
    BY DEF Marked
  <2> HIDE DEF own, marks, rules, n
  <2>3. /\ own \o marks \in Seq(Rules) /\ Len(own \o marks) = rules + n
        /\ \A k \in 1..(rules + n) :
             (own \o marks)[k] = IF k <= rules THEN own[k] ELSE marks[k - rules]
    BY <2>1, ConcatProperties
  <2> QED
    BY <2>2, <2>3 DEF own, marks
<1>6. DOMAIN doc.outbounds = 1..(outs + n) /\ DOMAIN doc.rules = 1..(rules + n)
  BY <1>4, <1>5, LenProperties
<1>7. /\ \A k \in 1..n : Markers(ids)[k] = [tag |-> UserTag(SetToSeq(ids)[k]), type |-> "direct"]
      /\ \A k \in 1..n : MarkerRules(ids, tags)[k] = UserRule(SetToSeq(ids)[k], tags)
  BY DEF Markers, MarkerRules
<1> HIDE DEF outs, rules, n
<1>8. \A k \in 1..outs : /\ doc.outbounds[k] = s.base.outbounds[k]
                         /\ ~IsUserTag(doc.outbounds[k].tag)
  <2> SUFFICES ASSUME NEW k \in 1..outs
               PROVE  doc.outbounds[k] = s.base.outbounds[k] /\ ~IsUserTag(doc.outbounds[k].tag)
    OBVIOUS
  <2>1. k \in 1..(outs + n) /\ k <= outs
    BY <1>2, <1>3
  <2>2. doc.outbounds[k] = s.base.outbounds[k]
    BY <1>4, <2>1
  <2>3. ~IsUserTag(s.base.outbounds[k].tag)
    BY <1>1, <1>2 DEF Unmarked
  <2> QED
    BY <2>2, <2>3
<1>9. \A k \in 1..rules : /\ doc.rules[k] = s.base.rules[k]
                          /\ ~IsUserTag(doc.rules[k].outbound)
  <2> SUFFICES ASSUME NEW k \in 1..rules
               PROVE  doc.rules[k] = s.base.rules[k] /\ ~IsUserTag(doc.rules[k].outbound)
    OBVIOUS
  <2>1. k \in 1..(rules + n) /\ k <= rules
    BY <1>2, <1>3
  <2>2. doc.rules[k] = s.base.rules[k]
    BY <1>5, <2>1
  <2>3. ~IsUserTag(s.base.rules[k].outbound)
    BY <1>1, <1>2 DEF Unmarked
  <2> QED
    BY <2>2, <2>3
<1>10. \A k \in 1..n : doc.outbounds[outs + k] = Markers(ids)[k]
  <2> SUFFICES ASSUME NEW k \in 1..n PROVE doc.outbounds[outs + k] = Markers(ids)[k]
    OBVIOUS
  <2>1. outs + k \in 1..(outs + n) /\ ~(outs + k <= outs) /\ (outs + k) - outs = k
    BY <1>2, <1>3
  <2> QED
    BY <1>4, <2>1
<1>11. \A k \in 1..n : doc.rules[rules + k] = MarkerRules(ids, tags)[k]
  <2> SUFFICES ASSUME NEW k \in 1..n PROVE doc.rules[rules + k] = MarkerRules(ids, tags)[k]
    OBVIOUS
  <2>1. rules + k \in 1..(rules + n) /\ ~(rules + k <= rules) /\ (rules + k) - rules = k
    BY <1>2, <1>3
  <2> QED
    BY <1>5, <2>1
<1> QED
  BY <1>2, <1>3, <1>6, <1>7, <1>8, <1>9, <1>10, <1>11 DEF outs, rules, n

(* Writing a table over a document the adapter found.                      *)
LEMMA RenderWrites ==
  ASSUME NEW s \in Settings, NEW table \in UserTables, NEW source,
         Based(s, source), s.template => source = s.base
  PROVE  Written(s, table, Render(s, table, source))
<1> DEFINE doc == Render(s, table, source)
           replaced == s.variant = "singbox" /\ Present(table) # {} /\ HasDirect(source)
<1>1. s.base \in Documents /\ Unmarked(s.base) /\ source \in Documents /\ SameInbounds(s, source)
  BY SettingFacts DEF Based
<1>2. PICK old \in SUBSET Ids, seen \in SUBSET Names :
         Marked(s, source, old, seen) /\ (s.template => old = {})
  <2>1. CASE s.template
    BY <2>1, NoMarkers
  <2>2. CASE ~s.template
    BY <2>2 DEF Based
  <2> QED
    BY <2>1, <2>2
<1>3. /\ doc \in Documents /\ doc.inbounds = InboundsOf(s, table)
      /\ replaced => \E tags \in SUBSET Names : Marked(s, doc, Present(table), tags)
      /\ ~replaced => doc.outbounds = source.outbounds /\ doc.rules = source.rules
  BY <1>1, <1>2, DocumentRendered
<1>4. Present(table) \in SUBSET Ids
  BY DEF Present
<1>5. HasDirect(s.base) => HasDirect(source)
  <2>1. /\ DOMAIN s.base.outbounds \subseteq DOMAIN source.outbounds
        /\ \A k \in DOMAIN s.base.outbounds : source.outbounds[k] = s.base.outbounds[k]
    <3> DEFINE outs == Len(s.base.outbounds)
               n == Cardinality(old)
    <3>1. /\ outs \in Nat /\ n \in Nat
          /\ DOMAIN s.base.outbounds = 1..outs /\ DOMAIN source.outbounds = 1..(outs + n)
          /\ \A k \in 1..outs : source.outbounds[k] = s.base.outbounds[k]
      BY <1>2, MarkedParts
    <3> HIDE DEF outs, n
    <3> QED
      BY <3>1
  <2> QED
    BY <2>1 DEF HasDirect
<1> HIDE DEF doc
<1>6. CASE replaced
  <2>1. PICK tags \in SUBSET Names : Marked(s, doc, Present(table), tags)
    BY <1>3, <1>6
  <2> QED
    BY <1>3, <1>4, <1>6, <2>1 DEF Written, doc
<1>7. CASE ~replaced
  <2>1. Marked(s, doc, old, seen)
    BY <1>2, <1>3, <1>7 DEF Marked
  <2>2. s.variant = "singbox" => /\ ~(Present(table) # {} /\ HasDirect(s.base))
                                 /\ Present(table) = {} /\ s.template => old = {}
    BY <1>2, <1>5, <1>7
  <2> QED
    BY <1>3, <2>1, <2>2 DEF Written, doc
<1> QED
  BY <1>6, <1>7

(* Which outbounds and rules are markers, and whose.                       *)
MarkedOutbounds(doc) == {k \in DOMAIN doc.outbounds : IsUserTag(doc.outbounds[k].tag)}
MarkedRules(doc) == {k \in DOMAIN doc.rules : IsUserTag(doc.rules[k].outbound)}

\* A rule that sends one of these users through the user's own marker.
SendsOneOf(rule, ids) == rule.outbound.id \in ids /\ rule.user = rule.outbound.id

LEMMA MarksOf ==
  ASSUME NEW s \in Settings, NEW doc, NEW ids \in SUBSET Ids, NEW tags \in SUBSET Names,
         Marked(s, doc, ids, tags)
  PROVE  LET marked == MarkedOutbounds(doc)
             ruled == MarkedRules(doc)
         IN /\ \A k \in marked : /\ doc.outbounds[k].tag.id \in ids
                                 /\ doc.outbounds[k].type = "direct"
            /\ \A k \in ruled : SendsOneOf(doc.rules[k], ids)
            /\ \A k, l \in marked : doc.outbounds[k].tag = doc.outbounds[l].tag => k = l
            /\ \A k, l \in ruled : doc.rules[k].outbound = doc.rules[l].outbound => k = l
            /\ {doc.outbounds[k].tag.id : k \in marked} = ids
            /\ {doc.rules[k].outbound.id : k \in ruled} = ids
<1> DEFINE outs == Len(s.base.outbounds)
           rules == Len(s.base.rules)
           n == Cardinality(ids)
           order == SetToSeq(ids)
           marked == MarkedOutbounds(doc)
           ruled == MarkedRules(doc)
<1>1. /\ outs \in Nat /\ rules \in Nat /\ n \in Nat
      /\ DOMAIN doc.outbounds = 1..(outs + n) /\ DOMAIN doc.rules = 1..(rules + n)
      /\ \A k \in 1..outs : ~IsUserTag(doc.outbounds[k].tag)
      /\ \A k \in 1..rules : ~IsUserTag(doc.rules[k].outbound)
      /\ \A k \in 1..n : doc.outbounds[outs + k] = [tag |-> UserTag(order[k]), type |-> "direct"]
      /\ \A k \in 1..n : doc.rules[rules + k] = UserRule(order[k], tags)
  <2>1. /\ outs \in Nat /\ rules \in Nat /\ n \in Nat
        /\ DOMAIN doc.outbounds = 1..(outs + n) /\ DOMAIN doc.rules = 1..(rules + n)
    BY MarkedParts
  <2>2. /\ \A k \in 1..outs : ~IsUserTag(doc.outbounds[k].tag)
        /\ \A k \in 1..rules : ~IsUserTag(doc.rules[k].outbound)
    BY MarkedParts
  <2>3. \A k \in 1..n : doc.outbounds[outs + k] = [tag |-> UserTag(order[k]), type |-> "direct"]
    BY MarkedParts
  <2>4. \A k \in 1..n : doc.rules[rules + k] = UserRule(order[k], tags)
    BY MarkedParts
  <2> QED
    BY <2>1, <2>2, <2>3, <2>4
<1>2. /\ \A k \in 1..n : order[k] \in ids
      /\ \A j, k \in 1..n : order[j] = order[k] => j = k
      /\ \A id \in ids : \E k \in 1..n : order[k] = id
  BY ListedIds
<1> HIDE DEF outs, rules, n, order
<1>3. \A id : IsUserTag(UserTag(id)) /\ UserTag(id).id = id
  BY DEF IsUserTag, UserTag
<1>4. \A k \in 1..n : /\ outs + k \in marked
                      /\ doc.outbounds[outs + k].tag = UserTag(order[k])
                      /\ doc.outbounds[outs + k].type = "direct"
  <2> SUFFICES ASSUME NEW k \in 1..n
               PROVE  /\ outs + k \in marked
                      /\ doc.outbounds[outs + k].tag = UserTag(order[k])
                      /\ doc.outbounds[outs + k].type = "direct"
    OBVIOUS
  <2>1. outs + k \in DOMAIN doc.outbounds
    BY <1>1
  <2>2. doc.outbounds[outs + k] = [tag |-> UserTag(order[k]), type |-> "direct"]
    BY <1>1
  <2> QED
    BY <1>3, <2>1, <2>2 DEF MarkedOutbounds
<1>5. \A k \in 1..n : /\ rules + k \in ruled
                      /\ doc.rules[rules + k].outbound = UserTag(order[k])
                      /\ doc.rules[rules + k].user = order[k]
  <2> SUFFICES ASSUME NEW k \in 1..n
               PROVE  /\ rules + k \in ruled
                      /\ doc.rules[rules + k].outbound = UserTag(order[k])
                      /\ doc.rules[rules + k].user = order[k]
    OBVIOUS
  <2>1. rules + k \in DOMAIN doc.rules
    BY <1>1
  <2>2. doc.rules[rules + k] = UserRule(order[k], tags)
    BY <1>1
  <2> QED
    BY <1>3, <2>1, <2>2 DEF UserRule, MarkedRules
<1>6. \A k \in marked : \E j \in 1..n : k = outs + j
  <2> SUFFICES ASSUME NEW k \in marked PROVE \E j \in 1..n : k = outs + j
    OBVIOUS
  <2>1. k \in 1..(outs + n) /\ ~(k \in 1..outs)
    BY <1>1 DEF MarkedOutbounds
  <2>2. k - outs \in 1..n /\ k = outs + (k - outs)
    BY <1>1, <2>1
  <2> QED
    BY <2>2
<1>7. \A k \in ruled : \E j \in 1..n : k = rules + j
  <2> SUFFICES ASSUME NEW k \in ruled PROVE \E j \in 1..n : k = rules + j
    OBVIOUS
  <2>1. k \in 1..(rules + n) /\ ~(k \in 1..rules)
    BY <1>1 DEF MarkedRules
  <2>2. k - rules \in 1..n /\ k = rules + (k - rules)
    BY <1>1, <2>1
  <2> QED
    BY <2>2
<1> HIDE DEF marked, ruled
<1>8. \A k \in marked : doc.outbounds[k].tag.id \in ids /\ doc.outbounds[k].type = "direct"
  BY <1>2, <1>3, <1>4, <1>6
<1>9. \A k \in ruled : SendsOneOf(doc.rules[k], ids)
  BY <1>2, <1>3, <1>5, <1>7 DEF SendsOneOf
<1>10. \A k, l \in marked : doc.outbounds[k].tag = doc.outbounds[l].tag => k = l
  <2> SUFFICES ASSUME NEW k \in marked, NEW l \in marked,
                      doc.outbounds[k].tag = doc.outbounds[l].tag
               PROVE  k = l
    OBVIOUS
  <2>1. PICK i \in 1..n, j \in 1..n : k = outs + i /\ l = outs + j
    BY <1>6
  <2>2. UserTag(order[i]) = UserTag(order[j])
    BY <1>4, <2>1
  <2>3. order[i] = order[j]
    BY <1>3, <2>2
  <2> QED
    BY <1>2, <2>1, <2>3
<1>11. \A k, l \in ruled : doc.rules[k].outbound = doc.rules[l].outbound => k = l
  <2> SUFFICES ASSUME NEW k \in ruled, NEW l \in ruled,
                      doc.rules[k].outbound = doc.rules[l].outbound
               PROVE  k = l
    OBVIOUS
  <2>1. PICK i \in 1..n, j \in 1..n : k = rules + i /\ l = rules + j
    BY <1>7
  <2>2. UserTag(order[i]) = UserTag(order[j])
    BY <1>5, <2>1
  <2>3. order[i] = order[j]
    BY <1>3, <2>2
  <2> QED
    BY <1>2, <2>1, <2>3
<1>12. /\ {doc.outbounds[k].tag.id : k \in marked} = ids
       /\ {doc.rules[k].outbound.id : k \in ruled} = ids
  <2>1. \A id \in ids : /\ \E k \in marked : doc.outbounds[k].tag.id = id
                        /\ \E k \in ruled : doc.rules[k].outbound.id = id
    BY <1>2, <1>3, <1>4, <1>5
  <2> QED
    BY <1>8, <1>9, <2>1 DEF SendsOneOf
<1> QED
  BY <1>8, <1>9, <1>10, <1>11, <1>12 DEF marked, ruled

(* The outbounds a connection of an entry may take: if it is a marker's, it
   is the one of the entry's name.                                         *)
LEMMA ChainIsOwners ==
  ASSUME NEW s \in Settings, NEW doc, Found(s, doc), NEW name, NEW tag,
         NEW chain \in Chains(doc, name, tag)
  PROVE  chain \in Tags /\ (IsUserTag(chain) => name # None /\ chain.id = name)
<1> DEFINE matching == {k \in DOMAIN doc.rules : Matches(doc.rules[k], name, tag)}
           own == {k \in matching : ~IsUserTag(doc.rules[k].outbound)}
           marked == matching \ own
           first == CHOOSE k \in marked : \A l \in marked : k <= l
<1>2. doc.rules \in Seq(Rules) /\ doc.final \in OwnTags
  BY FoundIsDocument DEF Documents
<1>3. /\ DOMAIN doc.rules \subseteq Nat
      /\ \A k \in DOMAIN doc.rules : doc.rules[k] \in Rules
  BY <1>2, LenProperties
<1>4. \A k \in DOMAIN doc.rules : doc.rules[k].outbound \in Tags
  BY <1>3 DEF Rules
<1>5. doc.final \in Tags /\ ~IsUserTag(doc.final)
  BY <1>2 DEF OwnTags, Tags, IsUserTag
<1>6. \A k \in marked : k \in DOMAIN doc.rules /\ IsUserTag(doc.rules[k].outbound)
  OBVIOUS
<1>7. \A k \in marked : /\ doc.rules[k].outbound.id \in Ids
                         /\ doc.rules[k].user = doc.rules[k].outbound.id
  <2>1. CASE Based(s, doc)
    <3>1. PICK ids \in SUBSET Ids, tags \in SUBSET Names : Marked(s, doc, ids, tags)
      BY <2>1 DEF Based
    <3>2. \A k \in MarkedRules(doc) : SendsOneOf(doc.rules[k], ids)
      BY <3>1, MarksOf
    <3> QED
      BY <1>6, <3>2 DEF MarkedRules, SendsOneOf
  <2>2. CASE doc = s.found /\ doc # None
    BY <1>6, <2>2, SettingFacts DEF Unmarked
  <2> QED
    BY <2>1, <2>2 DEF Found
<1>8. \A k \in marked : doc.rules[k].user \in {None, name}
  BY DEF Matches
<1>9. \A k \in marked : name # None /\ doc.rules[k].outbound.id = name
  BY <1>7, <1>8, DocumentAssumption
<1>10. chain \in {doc.rules[k].outbound : k \in own} \cup
         IF marked = {} THEN {doc.final} ELSE {doc.rules[first].outbound}
  BY Zenon DEF Chains
<1>11. marked # {} => first \in marked
  <2>1. marked \in SUBSET Nat
    BY <1>3
  <2> QED
    BY <2>1, SmallestOf
<1> HIDE DEF first
<1>12. CASE \E k \in own : chain = doc.rules[k].outbound
  BY <1>4, <1>12
<1>13. CASE marked = {} /\ chain = doc.final
  BY <1>5, <1>13
<1>14. CASE marked # {} /\ chain = doc.rules[first].outbound
  BY <1>4, <1>6, <1>9, <1>11, <1>14
<1> QED
  BY <1>10, <1>12, <1>13, <1>14

-----------------------------------------------------------------------------
(* The invariant of the documents: while the adapter runs, the file is what it
   makes of the base with the users it has in memory; otherwise it may be any
   the adapter can find, and the core may have loaded any such.            *)
DocInv ==
  /\ setting \in Settings
  /\ up \in BOOLEAN
  /\ users \in UserTables
  /\ file = None => setting.template /\ ~up
  /\ file # None => Found(setting, file)
  /\ up => Written(setting, users, file)
  /\ Found(setting, core)

LEMMA NoUsersTyped == NoUsers \in UserTables
BY DEF NoUsers, UserTables

LEMMA DocInit == Init => DocInv
<1> SUFFICES ASSUME Init PROVE DocInv
  OBVIOUS
<1>1. /\ setting \in Settings /\ up = FALSE /\ users = NoUsers /\ file = setting.found
      /\ core = IF setting.found = None THEN setting.base ELSE setting.found
  BY DEF Init
<1>2. Found(setting, setting.base) /\ (file # None => Found(setting, file))
  BY <1>1, BaseFound DEF Found
<1>3. file = None => setting.template
  BY <1>1, SettingFacts, DocumentAssumption
<1> QED
  BY <1>1, <1>2, <1>3, NoUsersTyped DEF DocInv

(* The adapter writes the file, whichever table of users it is for.        *)
LEMMA FileWritten ==
  ASSUME DocInv, NEW table \in UserTables
  PROVE  LET written == Render(setting, table, Source(setting, file))
         IN Written(setting, table, written) /\ Found(setting, written) /\ written # None
<1> DEFINE source == Source(setting, file)
           written == Render(setting, table, source)
<1>1. setting \in Settings
  BY DEF DocInv
<1>2. Based(setting, source) /\ (setting.template => source = setting.base)
  <2>1. CASE setting.template
    BY <1>1, <2>1, BaseFound DEF Source
  <2>2. CASE ~setting.template
    BY <1>1, <2>2, FoundWithoutTemplate DEF Source, DocInv
  <2> QED
    BY <2>1, <2>2
<1> HIDE DEF source
<1>3. Written(setting, table, written)
  BY <1>1, <1>2, RenderWrites
<1> HIDE DEF written
<1>4. Found(setting, written)
  BY <1>1, <1>3, WrittenIsFound
<1>5. written # None
  BY <1>3, DocumentAssumption DEF Written
<1> QED
  BY <1>3, <1>4, <1>5 DEF written, source

LEMMA DocStep == DocInv /\ [Next]_vars => DocInv'
<1> SUFFICES ASSUME DocInv, [Next]_vars PROVE DocInv'
  OBVIOUS
<1>0. /\ setting \in Settings /\ up \in BOOLEAN /\ users \in UserTables
      /\ file = None => setting.template /\ ~up
      /\ file # None => Found(setting, file)
      /\ up => Written(setting, users, file)
      /\ Found(setting, core)
  BY DEF DocInv
<1>1. ASSUME NEW table \in UserTables, setting' = setting, core' = core, up' = TRUE,
             users' = table, file' = Render(setting, table, Source(setting, file))
      PROVE  DocInv'
  <2>1. /\ Written(setting, table, file') /\ Found(setting, file') /\ file' # None
    BY <1>1, FileWritten
  <2> QED
    BY <1>0, <1>1, <2>1 DEF DocInv
<1>2. CASE Start
  <2>1. Found(setting, Existing(setting, file))
    BY <1>0, BaseFound DEF Existing
  <2>2. Load(setting, Existing(setting, file)) \in UserTables
    BY <1>0, <2>1, FoundIsDocument, LoadTyped
  <2> QED
    BY <1>1, <1>2, <2>2 DEF Start
<1>3. CASE Stop
  BY <1>0, <1>3, NoUsersTyped DEF Stop, DocInv
<1>4. ASSUME NEW u \in Users, NEW creds \in Creds, AddUser(u, creds) PROVE DocInv'
  <2>1. [users EXCEPT ![u] = creds] \in UserTables
    BY <1>0 DEF UserTables
  <2> QED
    BY <1>0, <1>1, <1>4, <2>1 DEF AddUser, WriteUsers
<1>5. ASSUME NEW u \in Users, RemoveUser(u) \/ \E g \in Goroutines : DisableUser(u, g)
      PROVE  DocInv'
  <2>1. [users EXCEPT ![u] = None] \in UserTables
    BY <1>0 DEF UserTables
  <2> QED
    BY <1>0, <1>1, <1>5, <2>1 DEF RemoveUser, DisableUser, WriteUsers
<1>6. CASE Reload
  BY <1>0, <1>6 DEF Reload, DocInv
<1>7. CASE UNCHANGED <<setting, up, users, file, core>>
  BY <1>0, <1>7 DEF DocInv
<1>8. ASSUME NEW u \in Users, NEW protocol \in setting.protocols, NEW secret \in setting.secrets
      PROVE  [protocol |-> protocol, secret |-> IF secret THEN Key(u) ELSE None] \in Creds
  <2>1. protocol \in Names \cup {None} /\ secret \in BOOLEAN
    BY <1>0, SettingFacts
  <2>2. Key(u) \in Ids
    BY DEF Ids
  <2> QED
    BY <2>1, <2>2 DEF Creds
<1>9. ASSUME NEW u \in Users, NEW protocol \in setting.protocols, NEW secret \in setting.secrets,
             AddUser(u, [protocol |-> protocol, secret |-> IF secret THEN Key(u) ELSE None])
      PROVE  DocInv'
  BY <1>4, <1>8, <1>9
<1> QED
  BY <1>2, <1>3, <1>5, <1>6, <1>7, <1>9
  DEF Next, Connect, Close, Subscribe, KillList, KillListFails, KillerEnds, Kill, vars

THEOREM DocumentsKept == Spec => []DocInv
BY DocInit, DocStep, PTL DEF Spec

-----------------------------------------------------------------------------
(* The killers                                                             *)

(* What a killer should still close is on its list.                        *)
DueListed(g) ==
  killers[g] # None =>
    /\ killers[g] \in Killers
    /\ killers[g].phase = "asleep" => killers[g].due = {}
    /\ killers[g].phase = "killing" => killers[g].due \cap Open \subseteq killers[g].todo

KillInv ==
  /\ killers \in [Goroutines -> Killers \cup {None}]
  /\ \A g \in Goroutines : DueListed(g)

LEMMA KillInit == Init => KillInv
BY DEF Init, KillInv, DueListed

(* A connection that the core named, or sends through its user's marker, is
   listed as that user's.                                                  *)
LEMMA KnownIsListed ==
  ASSUME NEW u \in Users, NEW c \in Open, conns[c].owner = u,
         conns[c].named \/ conns[c].chain = UserTag(u)
  PROVE  c \in Listed(u)
<1>1. u # None
  BY ConnectionsAssumption
<1>2. Hints(conns[c]).metadata = u \/ Hints(conns[c]).metadata = None
  BY DEF Hints
<1>3. CASE Hints(conns[c]).metadata = u
  BY <1>1, <1>3 DEF Listed, Resolve
<1>4. CASE Hints(conns[c]).metadata = None
  <2>1. conns[c].chain = UserTag(u)
    BY <1>1, <1>4 DEF Hints
  <2>2. Hints(conns[c]).marker = u
    BY <2>1 DEF Hints, UserTag, IsUserTag
  <2> QED
    BY <1>1, <1>4, <2>2 DEF Listed, Resolve
<1> QED
  BY <1>2, <1>3, <1>4

(* A killer that a step leaves alone, while no connection it is after is
   opened, keeps what is due on the list.                                  *)
LEMMA StaysListed ==
  ASSUME NEW g \in Goroutines, DueListed(g), killers'[g] = killers[g],
         killers[g] # None => killers[g].due \cap Open' \subseteq Open
  PROVE  DueListed(g)'
BY DEF DueListed

LEMMA KillStep == KillInv /\ [Next]_vars => KillInv'
<1> SUFFICES ASSUME KillInv, [Next]_vars PROVE KillInv'
  OBVIOUS
<1> USE ConnectionsAssumption
<1>0. /\ killers \in [Goroutines -> Killers \cup {None}]
      /\ \A g \in Goroutines : DueListed(g)
  BY DEF KillInv
<1>1. CASE UNCHANGED <<killers, conns>>
  BY <1>0, <1>1, StaysListed DEF KillInv, Open
<1>2. CASE Stop
  BY <1>2 DEF Stop, KillInv, DueListed
<1>3. ASSUME NEW u \in Users, NEW g \in Goroutines, DisableUser(u, g) PROVE KillInv'
  <2> DEFINE killer == [user |-> u, phase |-> "asleep", todo |-> {}, due |-> {}]
  <2>1. killer \in Killers /\ killer.phase = "asleep" /\ killer.due = {}
    BY DEF Killers
  <2>2. killers' = [killers EXCEPT ![g] = killer] /\ conns' = conns
    BY <1>3 DEF DisableUser
  <2> HIDE DEF killer
  <2>3. DueListed(g)'
    BY <1>0, <2>1, <2>2 DEF DueListed
  <2>4. \A h \in Goroutines \ {g} : DueListed(h)'
    BY <1>0, <2>2, StaysListed DEF Open
  <2> QED
    BY <1>0, <2>1, <2>2, <2>3, <2>4 DEF KillInv
<1>4. ASSUME NEW c \in ConnIds, NEW a \in Addresses, Connect(c, a) PROVE KillInv'
  <2>1. /\ killers' = killers
        /\ \A g \in Goroutines : killers[g] # None => c \notin killers[g].todo \cup killers[g].due
    BY <1>4 DEF Connect
  <2>2. \A d \in ConnIds \ {c} : conns'[d] = conns[d]
    BY <1>4 DEF Connect
  <2>3. Open' \subseteq Open \cup {c}
    BY <2>2 DEF Open
  <2> QED
    BY <1>0, <2>1, <2>3, StaysListed DEF KillInv
<1>5. ASSUME NEW c \in ConnIds, Close(c) PROVE KillInv'
  <2>1. killers' = killers /\ Open' \subseteq Open
    BY <1>5 DEF Close, Open
  <2> QED
    BY <1>0, <2>1, StaysListed DEF KillInv
<1>6. ASSUME NEW g \in Goroutines, KillList(g) PROVE KillInv'
  <2> DEFINE u == killers[g].user
             due == {c \in Open : /\ conns[c].owner = u
                                  /\ conns[c].named \/ conns[c].chain = UserTag(u)}
             killer == [user |-> u, phase |-> "killing", todo |-> Listed(u), due |-> due]
  <2>1. u \in Users
    BY <1>0, <1>6 DEF KillList, Killers
  <2>2. killers' = [killers EXCEPT ![g] = killer] /\ conns' = conns
    BY <1>6 DEF KillList
  <2> HIDE DEF u
  <2>3. due \subseteq Listed(u)
    BY <2>1, KnownIsListed
  <2>4. Listed(u) \subseteq ConnIds /\ due \subseteq ConnIds
    BY DEF Listed, Open
  <2>5. /\ killer \in Killers /\ killer.phase = "killing"
        /\ killer.due \subseteq killer.todo
    BY <2>1, <2>3, <2>4 DEF Killers
  <2> HIDE DEF killer, due
  <2>6. DueListed(g)'
    BY <1>0, <2>2, <2>5 DEF DueListed
  <2>7. \A h \in Goroutines \ {g} : DueListed(h)'
    BY <1>0, <2>2, StaysListed DEF Open
  <2> QED
    BY <1>0, <2>2, <2>5, <2>6, <2>7 DEF KillInv
<1>7. ASSUME NEW g \in Goroutines, KillListFails(g) \/ KillerEnds(g) PROVE KillInv'
  <2>1. killers' = [killers EXCEPT ![g] = None] /\ conns' = conns
    BY <1>7 DEF KillListFails, KillerEnds
  <2>2. DueListed(g)'
    BY <1>0, <2>1 DEF DueListed
  <2>3. \A h \in Goroutines \ {g} : DueListed(h)'
    BY <1>0, <2>1, StaysListed DEF Open
  <2> QED
    BY <1>0, <2>1, <2>2, <2>3 DEF KillInv
<1>8. ASSUME NEW g \in Goroutines, NEW c \in ConnIds, NEW killed \in BOOLEAN, Kill(g, c, killed)
      PROVE  KillInv'
  <2> DEFINE killer == [killers[g] EXCEPT !.todo = AfterKill(@, c, killed), !.due = @ \ {c}]
  <2>1. killers[g] \in Killers /\ DueListed(g)
    BY <1>0, <1>8 DEF Kill
  <2>2. /\ killer \in Killers /\ killer.phase = killers[g].phase
        /\ killer.todo = killers[g].todo \ {c} /\ killer.due = killers[g].due \ {c}
    BY <2>1 DEF Killers, AfterKill
  <2>3. killers' = [killers EXCEPT ![g] = killer]
    BY <1>0, <1>8 DEF Kill
  <2>4. Open' \subseteq Open
    BY <1>8 DEF Kill, Open
  <2> HIDE DEF killer
  <2>5. DueListed(g)'
    BY <1>0, <1>8, <2>1, <2>2, <2>3, <2>4 DEF DueListed, Kill
  <2>6. \A h \in Goroutines \ {g} : DueListed(h)'
    BY <1>0, <2>3, <2>4, StaysListed
  <2> QED
    BY <1>0, <2>2, <2>3, <2>5, <2>6 DEF KillInv
<1>9. CASE Next /\ ~UNCHANGED <<killers, conns>>
  BY <1>2, <1>3, <1>4, <1>5, <1>6, <1>7, <1>8, <1>9
  DEF Next, Start, AddUser, RemoveUser, Reload, Subscribe
<1> QED
  BY <1>1, <1>9 DEF vars

LEMMA KillerEndsThorough ==
  ASSUME KillInv, [Next]_vars, NEW g \in Goroutines, killers[g] # None, killers'[g] = None, up'
  PROVE  killers[g].due \cap Open = {}
<1> USE ConnectionsAssumption
<1>1. killers \in [Goroutines -> Killers \cup {None}] /\ DueListed(g)
  BY DEF KillInv
<1>2. ASSUME NEW u \in Users, NEW h \in Goroutines, DisableUser(u, h) PROVE FALSE
  BY <1>1, <1>2 DEF DisableUser, Killers
<1>3. ASSUME NEW h \in Goroutines, KillList(h) PROVE FALSE
  <2> DEFINE killer == [user |-> killers[h].user, phase |-> "killing",
                        todo |-> Listed(killers[h].user),
                        due |-> {c \in Open : /\ conns[c].owner = killers[h].user
                                              /\ \/ conns[c].named
                                                 \/ conns[c].chain = UserTag(killers[h].user)}]
  <2>1. killers[h].user \in Users
    BY <1>1, <1>3 DEF KillList, Killers
  <2>2. killer \in Killers
    BY <2>1 DEF Killers, Listed, Open
  <2>3. killers' = [killers EXCEPT ![h] = killer]
    BY <1>3 DEF KillList
  <2> HIDE DEF killer
  <2> QED
    BY <1>1, <2>2, <2>3
<1>4. ASSUME NEW h \in Goroutines, KillListFails(h) PROVE killers[g].due \cap Open = {}
  BY <1>1, <1>4 DEF KillListFails, DueListed
<1>5. ASSUME NEW h \in Goroutines, KillerEnds(h) PROVE killers[g].due \cap Open = {}
  BY <1>1, <1>5 DEF KillerEnds, DueListed
<1>6. ASSUME NEW h \in Goroutines, NEW c \in ConnIds, NEW killed \in BOOLEAN, Kill(h, c, killed)
      PROVE  FALSE
  <2> DEFINE killer == [killers[h] EXCEPT !.todo = AfterKill(@, c, killed), !.due = @ \ {c}]
  <2>1. killers[h] \in Killers
    BY <1>1, <1>6 DEF Kill
  <2>2. killer \in Killers
    BY <2>1 DEF Killers, AfterKill
  <2>3. killers' = [killers EXCEPT ![h] = killer]
    BY <1>1, <1>6 DEF Kill
  <2> HIDE DEF killer
  <2> QED
    BY <1>1, <2>2, <2>3
<1>7. CASE UNCHANGED killers
  BY <1>7
<1>8. CASE Stop
  BY <1>8 DEF Stop
<1> QED
  BY <1>2, <1>3, <1>4, <1>5, <1>6, <1>7, <1>8
  DEF Next, Start, AddUser, RemoveUser, Reload, Subscribe, Connect, Close, vars

(* A killer ends with none of the connections open that were its user's, and
   known to be, when it listed them, except where the core refused.        *)
THEOREM KillersAreThorough == Spec => KillerThorough
<1>1. KillInv /\ [Next]_vars
        => [\A g \in Goroutines :
              (killers[g] # None /\ killers'[g] = None /\ up')
                => killers[g].due \cap Open = {}]_vars
  BY KillerEndsThorough
<1> QED
  BY <1>1, KillInit, KillStep, PTL DEF Spec, KillerThorough

-----------------------------------------------------------------------------
(* The connections                                                         *)

(* A connection that goes through a marker goes through its owner's.       *)
ConnInv ==
  /\ conns \in [ConnIds -> Conns \cup {None}]
  /\ \A c \in Open : IsUserTag(conns[c].chain) => conns[c].chain.id = conns[c].owner
  /\ ipmap \in [Addresses -> Users \cup {None}]

LEMMA ConnInit == Init => ConnInv
BY DEF Init, ConnInv, Open

LEMMA ConnectionOpened ==
  ASSUME DocInv, ConnInv, NEW c \in ConnIds, NEW a \in Addresses, Connect(c, a)
  PROVE  ConnInv'
<1>1. setting \in Settings /\ Found(setting, core)
  BY DEF DocInv
<1>2. PICK k \in DOMAIN core.inbounds : \E entry \in UserEntries(setting, core.inbounds[k]) :
        /\ entry.secret # None
        /\ \E chain \in Chains(core, entry.name, core.inbounds[k].tag),
              named \in {FALSE, entry.name # None} :
             conns' = [conns EXCEPT ![c] =
                         [owner |-> IF entry.name # None THEN entry.name ELSE entry.secret,
                          address |-> a, named |-> named, chain |-> chain]]
  BY DEF Connect
<1>3. PICK entry \in UserEntries(setting, core.inbounds[k]) :
        /\ entry.secret # None
        /\ \E chain \in Chains(core, entry.name, core.inbounds[k].tag),
              named \in {FALSE, entry.name # None} :
             conns' = [conns EXCEPT ![c] =
                         [owner |-> IF entry.name # None THEN entry.name ELSE entry.secret,
                          address |-> a, named |-> named, chain |-> chain]]
  BY <1>2
<1> DEFINE owner == IF entry.name # None THEN entry.name ELSE entry.secret
<1>4. PICK chain \in Chains(core, entry.name, core.inbounds[k].tag),
           named \in {FALSE, entry.name # None} :
        conns' = [conns EXCEPT ![c] =
                    [owner |-> owner, address |-> a, named |-> named, chain |-> chain]]
  BY <1>3
<1>5. core.inbounds[k] \in Inbounds
  BY <1>1, FoundIsDocument, LenProperties DEF Documents
<1>6. entry \in Entries
  BY <1>5, UserEntriesTyped
<1>7. owner \in Ids
  BY <1>3, <1>6 DEF Entries
<1>8. chain \in Tags /\ (IsUserTag(chain) => entry.name # None /\ chain.id = entry.name)
  BY <1>1, ChainIsOwners
<1>9. IsUserTag(chain) => chain.id = owner
  BY <1>8
<1> HIDE DEF owner
<1> DEFINE conn == [owner |-> owner, address |-> a, named |-> named, chain |-> chain]
<1>10. conn \in Conns
  <2>1. named \in BOOLEAN
    OBVIOUS
  <2> QED
    BY <1>7, <1>8, <2>1 DEF Conns
<1>11. conn.chain = chain /\ conn.owner = owner
  OBVIOUS
<1> HIDE DEF conn
<1>12. conns' = [conns EXCEPT ![c] = conn] /\ ipmap' = ipmap
  BY <1>4 DEF Connect, conn
<1>13. conns' \in [ConnIds -> Conns \cup {None}]
  BY <1>10, <1>12 DEF ConnInv
<1>14. \A d \in Open' : IsUserTag(conns'[d].chain) => conns'[d].chain.id = conns'[d].owner
  <2> SUFFICES ASSUME NEW d \in Open', IsUserTag(conns'[d].chain)
               PROVE  conns'[d].chain.id = conns'[d].owner
    OBVIOUS
  <2>1. CASE d = c
    <3>1. conns'[d] = conn
      BY <1>12, <2>1 DEF ConnInv
    <3> QED
      BY <1>9, <1>11, <3>1
  <2>2. CASE d # c
    <3>1. conns'[d] = conns[d] /\ d \in Open
      BY <1>12, <2>2 DEF Open, ConnInv
    <3> QED
      BY <3>1 DEF ConnInv
  <2> QED
    BY <2>1, <2>2
<1> QED
  BY <1>12, <1>13, <1>14 DEF ConnInv

LEMMA ConnStep == DocInv /\ ConnInv /\ [Next]_vars => ConnInv'
<1> SUFFICES ASSUME DocInv, ConnInv, [Next]_vars PROVE ConnInv'
  OBVIOUS
<1>1. CASE UNCHANGED <<conns, ipmap>>
  BY <1>1 DEF ConnInv, Open
<1>2. CASE Stop
  BY <1>2 DEF Stop, ConnInv, Open
<1>3. ASSUME NEW c \in ConnIds, ipmap' = ipmap, conns' = [conns EXCEPT ![c] = None]
      PROVE  ConnInv'
  <2>1. /\ conns' \in [ConnIds -> Conns \cup {None}]
        /\ \A d \in Open' : d \in Open /\ conns'[d] = conns[d]
    BY <1>3 DEF ConnInv, Open
  <2> QED
    BY <1>3, <2>1 DEF ConnInv
<1>4. ASSUME NEW u \in Users, NEW a \in Addresses, Subscribe(u, a) PROVE ConnInv'
  <2>1. ipmap' = [ipmap EXCEPT ![a] = u] /\ conns' = conns
    BY <1>4 DEF Subscribe
  <2> QED
    BY <2>1 DEF ConnInv, Open
<1>5. ASSUME NEW g \in Goroutines, NEW c \in ConnIds, NEW killed \in BOOLEAN, Kill(g, c, killed)
      PROVE  ConnInv'
  BY <1>1, <1>3, <1>5 DEF Kill
<1>6. ASSUME NEW c \in ConnIds, Close(c) PROVE ConnInv'
  BY <1>3, <1>6 DEF Close
<1> QED
  BY <1>1, <1>2, <1>4, <1>5, <1>6, ConnectionOpened
  DEF Next, Start, AddUser, RemoveUser, DisableUser, WriteUsers, Reload, KillList,
      KillListFails, KillerEnds, vars

(* What a connection is put down to, if the core names its user or sends it
   through a marker.                                                       *)
LEMMA AttributionFollows == ConnInv => AttributionExact
<1> SUFFICES ASSUME ConnInv, NEW c \in Open, conns[c].named \/ IsUserTag(conns[c].chain)
             PROVE  Resolve(Hints(conns[c])) = conns[c].owner
  BY DEF AttributionExact, Billed, Listed
<1>1. conns[c] \in Conns
  BY DEF ConnInv, Open
<1>2. conns[c].owner # None
  BY <1>1, DocumentAssumption DEF Conns
<1>3. CASE conns[c].named
  BY <1>2, <1>3 DEF Hints, Resolve
<1>4. CASE ~conns[c].named
  <2>1. conns[c].chain.id = conns[c].owner
    BY <1>4 DEF ConnInv
  <2> QED
    BY <1>2, <1>4, <2>1 DEF Hints, Resolve
<1> QED
  BY <1>3, <1>4

(* A connection is put down to the user it belongs to whenever the core says
   who that is or sends it through a marker.                               *)
THEOREM AttributionIsExact == Spec => []AttributionExact
BY DocInit, DocStep, ConnInit, ConnStep, AttributionFollows, PTL DEF Spec

-----------------------------------------------------------------------------
(* What follows for the document                                           *)

(* Every variable keeps its type, and a marker in the file is a copy of an
   outbound that goes out directly.                                        *)
THEOREM TypeCorrect == Spec => []TypeOK
<1>1. DocInv /\ ConnInv /\ KillInv => TypeOK
  <2> SUFFICES ASSUME DocInv, ConnInv, KillInv PROVE TypeOK
    OBVIOUS
  <2>1. /\ setting \in Settings /\ up \in BOOLEAN /\ users \in UserTables
        /\ file \in Documents \cup {None} /\ core \in Documents
    BY FoundIsDocument DEF DocInv
  <2>2. /\ conns \in [ConnIds -> Conns \cup {None}]
        /\ ipmap \in [Addresses -> Users \cup {None}]
        /\ killers \in [Goroutines -> Killers \cup {None}]
    BY DEF ConnInv, KillInv
  <2>3. ASSUME up, NEW k \in DOMAIN file.outbounds, IsUserTag(file.outbounds[k].tag)
        PROVE  file.outbounds[k].type = "direct"
    <3>1. PICK ids \in SUBSET Ids, tags \in SUBSET Names : Marked(setting, file, ids, tags)
      BY <2>3 DEF DocInv, Written
    <3>2. k \in MarkedOutbounds(file)
      BY <2>3 DEF MarkedOutbounds
    <3> QED
      BY <2>1, <3>1, <3>2, MarksOf
  <2> QED
    BY <2>1, <2>2, <2>3 DEF TypeOK
<1> QED
  BY <1>1, DocInit, DocStep, ConnInit, ConnStep, KillInit, KillStep, PTL DEF Spec

(* The inbounds of a file that was written: the base's, with the users of the
   table where the adapter manages them.                                   *)
LEMMA InboundsWritten ==
  ASSUME NEW s \in Settings, NEW table \in UserTables, NEW doc, Written(s, table, doc)
  PROVE  /\ DOMAIN doc.inbounds = DOMAIN s.base.inbounds
         /\ \A k \in DOMAIN s.base.inbounds :
              /\ s.base.inbounds[k] \in Inbounds
              /\ doc.inbounds[k] = RenderInbound(s, table, s.base.inbounds[k])
<1>1. \A k \in DOMAIN s.base.inbounds : s.base.inbounds[k] \in Inbounds
  BY SettingFacts, LenProperties
<1> QED
  BY <1>1 DEF Written, InboundsOf

(* What was written is what a restart would read.                          *)
THEOREM FileRoundTrips == Spec => []RoundTrip
<1>1. DocInv => RoundTrip
  <2> SUFFICES ASSUME DocInv, up PROVE RoundTrip
    BY DEF RoundTrip
  <2>1. setting \in Settings /\ users \in UserTables /\ Written(setting, users, file)
    BY DEF DocInv
  <2>2. file \in Documents
    BY <2>1 DEF Written
  <2>3. \A k \in DOMAIN file.inbounds : Managed(setting, file.inbounds[k]) =>
          UserEntries(setting, file.inbounds[k])
            = EntriesFor(setting, users, file.inbounds[k].type)
    BY <2>1, InboundsWritten, InboundRendered
  <2>4. \A id \in Ids : Load(setting, file)[id] =
          IF /\ users[id] # None
             /\ \E k \in DOMAIN file.inbounds : /\ file.inbounds[k].type = Protocol(users[id])
                                                /\ Managed(setting, file.inbounds[k])
          THEN [protocol |-> Protocol(users[id]), secret |-> Entry(setting, id, users[id]).secret]
          ELSE None
    BY <2>1, <2>2, <2>3, LoadedFromRendered
  <2>5. Load(setting, file) = [id \in Ids |-> Load(setting, file)[id]]
    BY DEF Load
  <2>6. \A id \in Ids : Entry(setting, id, users[id]).secret =
          IF users[id].secret = None /\ setting.variant # "singbox" THEN id ELSE users[id].secret
    BY DEF Entry
  <2> QED
    BY <2>4, <2>5, <2>6 DEF RoundTrip, Protocol
<1> QED
  BY <1>1, DocInit, DocStep, PTL DEF Spec

(* A subscription link opens a door that is there.                         *)
THEOREM LinksWork == Spec => []LinkWorks
<1>1. DocInv => LinkWorks
  <2> SUFFICES ASSUME DocInv, up PROVE LinkWorks
    BY DEF LinkWorks
  <2>1. setting \in Settings /\ users \in UserTables /\ Written(setting, users, file)
    BY DEF DocInv
  <2>2. ASSUME NEW u \in Users, users[u] # None,
               users[u].protocol \in {None, "vless", "vmess", "trojan", "shadowsocks"},
               setting.variant = "singbox" => users[u].secret # None /\ users[u].protocol # "vmess",
               NEW k \in DOMAIN file.inbounds,
               file.inbounds[k].type = Link(setting, u, users[u]).protocol,
               setting.filter \in {None, file.inbounds[k].tag}
        PROVE  \E list \in {file.inbounds[k].users, file.inbounds[k].clients} \ {NoList} :
                 \E entry \in list : entry.secret = Link(setting, u, users[u]).secret
    <3> DEFINE link == Link(setting, u, users[u])
               base == setting.base.inbounds[k]
               entries == EntriesFor(setting, users, base.type)
    <3>1. /\ base \in Inbounds /\ file.inbounds[k] = RenderInbound(setting, users, base)
      BY <2>1, InboundsWritten
    <3>2. link.protocol = Protocol(users[u]) /\ link.protocol \in ManagedProtocols
      BY <2>2, DocumentAssumption
      DEF Link, SingboxLink, XrayLink, Protocol, ManagedProtocols
    <3>3. file.inbounds[k].type = base.type
      BY <2>1, <3>1, InboundRendered
    <3>4. Managed(setting, file.inbounds[k])
      BY <2>2, <3>2, DocumentAssumption DEF Managed
    <3>5. /\ file.inbounds[k].users = entries \/ file.inbounds[k].clients = entries
          /\ entries # NoList
      BY <2>1, <3>1, <3>4, InboundRendered
    <3>6. Entry(setting, u, users[u]) \in entries
      <4>1. u \in Ids
        BY DEF Ids
      <4>2. base.type = Protocol(users[u])
        BY <2>2, <3>2, <3>3
      <4> QED
        BY <2>1, <2>2, <4>1, <4>2, UserHasEntry
    <3>7. Entry(setting, u, users[u]).secret = link.secret
      BY <2>2 DEF Entry, Link, SingboxLink, XrayLink, LinkSecret
    <3> HIDE DEF link, entries
    <3> QED
      BY <3>5, <3>6, <3>7 DEF link
  <2> QED
    BY <2>2 DEF LinkWorks
<1> QED
  BY <1>1, DocInit, DocStep, PTL DEF Spec

(* The panel's writes leave the administrator's part of the document alone. *)
THEOREM AdministratorsPartKept == Spec => []ForeignKept
<1>1. DocInv => ForeignKept
  <2> SUFFICES ASSUME DocInv, up PROVE ForeignKept
    BY DEF ForeignKept
  <2> DEFINE base == setting.base
  <2>1. setting \in Settings /\ users \in UserTables /\ Written(setting, users, file)
    BY DEF DocInv
  <2>2. PICK ids \in SUBSET Ids, tags \in SUBSET Names : Marked(setting, file, ids, tags)
    BY <2>1 DEF Written
  <2>3. /\ DOMAIN file.inbounds = DOMAIN base.inbounds
        /\ \A k \in DOMAIN base.inbounds :
             /\ base.inbounds[k] \in Inbounds
             /\ file.inbounds[k] = RenderInbound(setting, users, base.inbounds[k])
    BY <2>1, InboundsWritten
  <2>4. ASSUME NEW k \in DOMAIN base.inbounds
        PROVE  /\ file.inbounds[k].tag = base.inbounds[k].tag
               /\ file.inbounds[k].type = base.inbounds[k].type
               /\ (\/ setting.filter \notin {None, base.inbounds[k].tag}
                   \/ IF setting.variant = "singbox" THEN base.inbounds[k].type = None
                      ELSE base.inbounds[k].type
                             \notin {"vless", "vmess", "trojan", "shadowsocks"})
                     => file.inbounds[k] = base.inbounds[k]
               /\ base.inbounds[k].clients # NoList /\ base.inbounds[k].users = NoList
                  /\ setting.variant # "singbox" => file.inbounds[k].users = NoList
    <3>1. (\/ setting.filter \notin {None, base.inbounds[k].tag}
           \/ IF setting.variant = "singbox" THEN base.inbounds[k].type = None
              ELSE base.inbounds[k].type \notin {"vless", "vmess", "trojan", "shadowsocks"})
            => ~Managed(setting, base.inbounds[k])
      BY DEF Managed, ManagedProtocols
    <3>2. /\ base.inbounds[k] \in Inbounds
          /\ file.inbounds[k] = RenderInbound(setting, users, base.inbounds[k])
      BY <2>3
    <3> QED
      BY <2>1, <3>1, <3>2, InboundRendered
  <2>5. /\ DOMAIN base.outbounds \subseteq DOMAIN file.outbounds
        /\ \A k \in DOMAIN file.outbounds :
             IF k \in DOMAIN base.outbounds THEN file.outbounds[k] = base.outbounds[k]
             ELSE IsUserTag(file.outbounds[k].tag)
    <3> DEFINE outs == Len(base.outbounds)
               n == Cardinality(ids)
    <3>1. /\ outs \in Nat /\ n \in Nat
          /\ DOMAIN base.outbounds = 1..outs /\ DOMAIN file.outbounds = 1..(outs + n)
          /\ \A k \in 1..outs : file.outbounds[k] = base.outbounds[k]
      BY <2>1, <2>2, MarkedParts
    <3>2. \A k \in 1..n : file.outbounds[outs + k]
                            = [tag |-> UserTag(SetToSeq(ids)[k]), type |-> "direct"]
      BY <2>1, <2>2, MarkedParts
    <3>3. \A k \in 1..n : IsUserTag(file.outbounds[outs + k].tag)
      <4>1. \A id : IsUserTag([tag |-> UserTag(id), type |-> "direct"].tag)
        BY DEF IsUserTag, UserTag
      <4> HIDE DEF outs, n
      <4> QED
        BY <3>2, <4>1
    <3> HIDE DEF outs, n
    <3>4. \A k \in 1..(outs + n) :
            ~(k \in 1..outs) => k - outs \in 1..n /\ k = outs + (k - outs)
      BY <3>1
    <3>5. \A k \in 1..(outs + n) : ~(k \in 1..outs) => IsUserTag(file.outbounds[k].tag)
      BY <3>3, <3>4
    <3> QED
      BY <3>1, <3>5
  <2>6. /\ DOMAIN base.rules \subseteq DOMAIN file.rules
        /\ \A k \in DOMAIN file.rules :
             IF k \in DOMAIN base.rules THEN file.rules[k] = base.rules[k]
             ELSE IsUserTag(file.rules[k].outbound)
    <3> DEFINE rules == Len(base.rules)
               n == Cardinality(ids)
    <3>1. /\ rules \in Nat /\ n \in Nat
          /\ DOMAIN base.rules = 1..rules /\ DOMAIN file.rules = 1..(rules + n)
          /\ \A k \in 1..rules : file.rules[k] = base.rules[k]
      BY <2>1, <2>2, MarkedParts
    <3>2. \A k \in 1..n : file.rules[rules + k] = UserRule(SetToSeq(ids)[k], tags)
      BY <2>1, <2>2, MarkedParts
    <3>3. \A k \in 1..n : IsUserTag(file.rules[rules + k].outbound)
      <4>1. \A id : IsUserTag(UserRule(id, tags).outbound)
        BY DEF IsUserTag, UserTag, UserRule
      <4> HIDE DEF rules, n
      <4> QED
        BY <3>2, <4>1
    <3> HIDE DEF rules, n
    <3>4. \A k \in 1..(rules + n) :
            ~(k \in 1..rules) => k - rules \in 1..n /\ k = rules + (k - rules)
      BY <3>1
    <3>5. \A k \in 1..(rules + n) : ~(k \in 1..rules) => IsUserTag(file.rules[k].outbound)
      BY <3>3, <3>4
    <3> QED
      BY <3>1, <3>5
  <2> QED
    BY <2>3, <2>4, <2>5, <2>6 DEF ForeignKept
<1> QED
  BY <1>1, DocInit, DocStep, PTL DEF Spec

(* Outbounds and rules mark the same users, each once, and exactly the users
   there are, where there is an outbound to copy.                          *)
THEOREM MarkersAreExact == Spec => []MarkersExact
<1>1. DocInv => MarkersExact
  <2> SUFFICES ASSUME DocInv, up, setting.variant = "singbox" PROVE MarkersExact
    BY DEF MarkersExact
  <2> DEFINE marked == MarkedOutbounds(file)
             ruled == MarkedRules(file)
  <2>1. setting \in Settings /\ users \in UserTables /\ Written(setting, users, file)
    BY DEF DocInv
  <2>2. PICK ids \in SUBSET Ids, tags \in SUBSET Names :
          /\ Marked(setting, file, ids, tags)
          /\ Present(users) # {} /\ HasDirect(setting.base) => ids = Present(users)
          /\ Present(users) = {} /\ setting.template => ids = {}
    BY <2>1 DEF Written
  <2>3. /\ \A k \in marked : file.outbounds[k].tag.id \in ids
        /\ \A k \in ruled : SendsOneOf(file.rules[k], ids)
    BY <2>1, <2>2, MarksOf
  <2>4. /\ \A k, l \in marked : file.outbounds[k].tag = file.outbounds[l].tag => k = l
        /\ \A k, l \in ruled : file.rules[k].outbound = file.rules[l].outbound => k = l
    BY <2>1, <2>2, MarksOf
  <2>5. /\ {file.outbounds[k].tag.id : k \in marked} = ids
        /\ {file.rules[k].outbound.id : k \in ruled} = ids
    BY <2>1, <2>2, MarksOf
  <2> HIDE DEF marked, ruled
  <2>6. /\ Present(users) # {} => ids = Present(users) \/ ~HasDirect(setting.base)
        /\ Present(users) = {} => (ids # {} => ~setting.template)
    BY <2>2
  <2> QED
    BY <2>3, <2>4, <2>5, <2>6
    DEF MarkersExact, HasDirect, SendsOneOf, marked, ruled, MarkedOutbounds, MarkedRules
<1> QED
  BY <1>1, DocInit, DocStep, PTL DEF Spec

\* No other entry of the document is known by the same name.
KnownAlone(s, doc, k, entry) ==
  \A l \in DOMAIN doc.inbounds :
    \A other \in UserEntries(s, doc.inbounds[l]) :
      IdOf(other) = IdOf(entry) => <<other, l>> = <<entry, k>>

(* The entry of a managed inbound that nothing else in the document is known
   by survives being loaded and written again, with its secret, in every
   managed inbound of that type.                                           *)
LEMMA EntrySurvives ==
  ASSUME NEW s, NEW doc \in Documents, NEW k \in DOMAIN doc.inbounds, NEW id \in Ids,
         NEW entry \in UserEntries(s, doc.inbounds[k]),
         IdOf(entry) = id, entry.secret # None, KnownAlone(s, doc, k, entry),
         Managed(s, doc.inbounds[k]),
         NEW inbound \in Inbounds, Managed(s, inbound), inbound.type = doc.inbounds[k].type
  PROVE  LET rendered == RenderInbound(s, Load(s, doc), inbound)
         IN \E e \in UserEntries(s, rendered) : e.secret = entry.secret
<1> DEFINE own == doc.inbounds[k]
           table == Load(s, doc)
           rendered == RenderInbound(s, table, inbound)
<1>1. own \in Inbounds
  BY LenProperties DEF Documents
<1>2. entry \in Entries
  BY <1>1, UserEntriesTyped
<1>3. table \in UserTables
  BY LoadTyped
<1>4. k \in Hits(s, doc, id)
  BY DEF Hits
<1>5. PICK l \in Hits(s, doc, id) : SaysOf(s, doc.inbounds[l], id, table[id])
  BY <1>4, LoadedIsAnEntry
<1>6. l \in DOMAIN doc.inbounds
  BY DEF Hits
<1>7. table[id] = [protocol |-> own.type, secret |-> entry.secret]
  BY <1>5, <1>6 DEF KnownAlone, SaysOf
<1>8. table[id] # None
  BY <1>2, <1>1, <1>7, DocumentAssumption DEF Creds, Inbounds, Entries
<1>9. own.type # None
  BY DocumentAssumption DEF Managed, ManagedProtocols
<1>10. Protocol(table[id]) = inbound.type
  BY <1>7, <1>9 DEF Protocol
<1>11. Entry(s, id, table[id]).secret = entry.secret
  BY <1>7 DEF Entry
<1>12. UserEntries(s, rendered) = EntriesFor(s, table, inbound.type)
  BY <1>3, InboundRendered
<1> HIDE DEF table, own, rendered
<1>13. Entry(s, id, table[id]) \in EntriesFor(s, table, inbound.type)
  BY <1>3, <1>8, <1>10, UserHasEntry
<1> QED
  BY <1>11, <1>12, <1>13 DEF table, rendered

(* An inbound the adapter does not manage is the base's own.               *)
LEMMA UnmanagedIsBase ==
  ASSUME NEW s \in Settings, NEW doc, Based(s, doc), NEW k \in DOMAIN doc.inbounds,
         ~Managed(s, doc.inbounds[k])
  PROVE  k \in DOMAIN s.base.inbounds /\ doc.inbounds[k] = s.base.inbounds[k]
<1>1. k \in DOMAIN s.base.inbounds /\ s.base.inbounds[k] \in Inbounds
  BY SettingFacts, LenProperties DEF Based, SameInbounds
<1>2. CASE doc.inbounds[k] = s.base.inbounds[k]
  BY <1>1, <1>2
<1>3. ASSUME NEW table \in UserTables, doc.inbounds[k] = RenderInbound(s, table, s.base.inbounds[k])
      PROVE  doc.inbounds[k] = s.base.inbounds[k]
  BY <1>1, <1>3, InboundRendered
<1> QED
  BY <1>1, <1>2, <1>3 DEF Based, SameInbounds

(* A start locks nobody out of an inbound that what is written over still
   has.                                                                    *)
THEOREM NobodyIsLockedOut == Spec => NobodyLockedOut
<1>1. DocInv /\ [Next]_vars => [StartKeepsSecrets]_vars
  <2> SUFFICES ASSUME DocInv, Next, ~up, up' PROVE StartKeepsSecrets
    BY DEF StartKeepsSecrets
  <2> DEFINE found == Existing(setting, file)
             table == Load(setting, found)
  <2>1. setting \in Settings /\ Found(setting, found)
    BY BaseFound DEF DocInv, Existing
  <2>2. Start
    BY DEF Next, Stop, AddUser, RemoveUser, DisableUser, WriteUsers, Reload, Connect, Close,
           Subscribe, KillList, KillListFails, KillerEnds, Kill
  <2>3. /\ file' = Render(setting, table, Source(setting, file))
        /\ setting' = setting
    BY <2>2 DEF Start
  <2>4. found \in Documents /\ table \in UserTables
    BY <2>1, FoundIsDocument, LoadTyped
  <2>5. found = IF file # None THEN file ELSE setting.base
    BY DEF Existing
  <2> HIDE DEF table, found
  <2>6. Written(setting, table, file')
    BY <2>3, <2>4, FileWritten
  <2>7. /\ DOMAIN file'.inbounds = DOMAIN setting.base.inbounds
        /\ \A l \in DOMAIN file'.inbounds :
             /\ setting.base.inbounds[l] \in Inbounds
             /\ file'.inbounds[l] = RenderInbound(setting, table, setting.base.inbounds[l])
    BY <2>1, <2>4, <2>6, InboundsWritten
  <2>8. ASSUME NEW k \in DOMAIN found.inbounds, NEW entry \in UserEntries(setting, found.inbounds[k]),
               entry.secret # None,
               ~\E l \in DOMAIN found.inbounds : \E other \in UserEntries(setting, found.inbounds[l]) :
                  <<other, l>> # <<entry, k>> /\ IdOf(other) = IdOf(entry),
               Managed(setting, found.inbounds[k]),
               NEW l \in DOMAIN file'.inbounds, file'.inbounds[l].type = found.inbounds[k].type,
               Managed(setting, file'.inbounds[l])
        PROVE  \E e \in UserEntries(setting, file'.inbounds[l]) : e.secret = entry.secret
    <3> DEFINE inbound == setting.base.inbounds[l]
    <3>1. KnownAlone(setting, found, k, entry)
      BY <2>8 DEF KnownAlone
    <3>2. entry \in Entries
      BY <2>4, UserEntriesTyped, LenProperties DEF Documents
    <3>3. IdOf(entry) \in Ids
      BY <2>8, <3>2 DEF IdOf, Entries
    <3>4. inbound \in Inbounds /\ file'.inbounds[l] = RenderInbound(setting, table, inbound)
      BY <2>7
    <3>5. Managed(setting, inbound) /\ inbound.type = found.inbounds[k].type
      BY <2>4, <2>8, <3>4, InboundRendered
    <3> HIDE DEF inbound
    <3>6. \E e \in UserEntries(setting, RenderInbound(setting, Load(setting, found), inbound)) :
            e.secret = entry.secret
      BY <2>4, <2>8, <3>1, <3>3, <3>4, <3>5, EntrySurvives
    <3> QED
      BY <3>4, <3>6 DEF table
  <2>9. ASSUME NEW k \in DOMAIN found.inbounds, NEW entry \in UserEntries(setting, found.inbounds[k]),
               ~Managed(setting, found.inbounds[k]), ~setting.template
        PROVE  \E e \in UserEntries(setting, file'.inbounds[k]) : e.secret = entry.secret
    <3>1. k \in DOMAIN setting.base.inbounds /\ found.inbounds[k] = setting.base.inbounds[k]
      BY <2>1, <2>9, FoundWithoutTemplate, UnmanagedIsBase
    <3>2. file'.inbounds[k] = found.inbounds[k]
      BY <2>7, <2>9, <3>1 DEF RenderInbound
    <3> QED
      BY <3>2
  <2> QED
    BY <2>3, <2>5, <2>8, <2>9 DEF StartKeepsSecrets, IdOf
<1> QED
  BY <1>1, DocInit, DocStep, PTL DEF Spec, NobodyLockedOut
=============================================================================
