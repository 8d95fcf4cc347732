----------------------- MODULE TrafficAccountingProofs -----------------------
(***************************************************************************)
(* TrafficAccounting for every set of users and handlers, every bound and  *)
(* every set of faults: its types, that nobody is overbilled, and that the *)
(* count is exact as long as no fault comes in between.                    *)
(***************************************************************************)
EXTENDS TrafficAccounting, TLAPS

(* What was recorded was sent; and whatever the poll still holds to subtract
   from (last) or to add (shot), adding it up never exceeds what was sent.
   The counter can only fall behind: a restart of the core loses bytes.    *)
NothingCountedTwice(u) ==
  /\ recorded[u] <= sent[u]
  /\ last[u] # None => recorded[u] + counter[u] <= sent[u] + last[u]
  /\ u \in pending => recorded[u] + counter[u] <= sent[u] + shot[u]
  /\ u \in pending /\ last[u] # None => recorded[u] + shot[u] <= sent[u] + last[u]

(* A row, and a copy of it on its way back, holds no more than was recorded. *)
RowsBehind ==
  /\ \A u \in Users : used[u] <= recorded[u]
  /\ \A h \in Handlers : held[h] # None => held[h].used <= recorded[held[h].user]

IInv ==
  /\ TypeOK
  /\ \A u \in Users : NothingCountedTwice(u)
  /\ RowsBehind

-----------------------------------------------------------------------------
(* What a poll adds is no negative number, and nothing for a counter that
   went back (traffic_service.go pollTraffic).                             *)
LEMMA DeltaFact ==
  ASSUME TypeOK, NEW u \in Users, last[u] # None
  PROVE  /\ Delta(u) \in Nat
         /\ last[u] \in Nat
         /\ shot[u] \in Nat
         /\ Delta(u) = 0 \/ Delta(u) = shot[u] - last[u]
<1>1. last[u] \in Nat /\ shot[u] \in Nat
  BY DEF TypeOK
<1> QED BY <1>1 DEF Delta

(* A row a handler has read has a user and a traffic.                      *)
LEMMA HeldFact ==
  ASSUME TypeOK, NEW h \in Handlers, held[h] # None
  PROVE  held[h].user \in Users /\ held[h].used \in Nat
BY DEF TypeOK

(* The counters and the memory of the poll keep their types.               *)
LEMMA TypeStep == TypeOK /\ [Next]_vars => TypeOK'
<1> SUFFICES ASSUME TypeOK, [Next]_vars PROVE TypeOK'
  OBVIOUS
<1>1. ASSUME NEW u \in Users, Send(u) PROVE TypeOK'
  BY <1>1 DEF TypeOK, Send, pollVars, storeVars
<1>2. ASSUME NEW u \in Users, Baseline(u) PROVE TypeOK'
  BY <1>2 DEF TypeOK, Baseline, coreVars, storeVars
<1>3. ASSUME NEW u \in Users, AddDelta(u) PROVE TypeOK'
  <2>1. Delta(u) \in Nat /\ shot[u] \in Nat
    BY <1>3, DeltaFact DEF AddDelta
  <2>2. last' \in [Users -> Nat \cup {None}] /\ pending' \subseteq Users
    BY <1>3, <2>1 DEF TypeOK, AddDelta
  <2>3. used' \in [Users -> Nat] /\ recorded' \in [Users -> Nat]
    BY <1>3, <2>1 DEF TypeOK, AddDelta
  <2> QED BY <1>3, <2>2, <2>3 DEF TypeOK, AddDelta, coreVars
<1>4. ASSUME NEW u \in Users, CreateUser(u) \/ DeleteUser(u) PROVE TypeOK'
  <2>1. used' \in [Users -> Nat] /\ rows' \subseteq Users
    BY <1>4 DEF TypeOK, CreateUser, DeleteUser
  <2> QED BY <1>4, <2>1 DEF TypeOK, CreateUser, DeleteUser, coreVars, pollVars
<1>5. ASSUME NEW h \in Handlers, NEW u \in Users, ReadRow(h, u) PROVE TypeOK'
  BY <1>5 DEF TypeOK, ReadRow, coreVars, pollVars, storeVars
<1>6. ASSUME NEW h \in Handlers, WriteRow(h) PROVE TypeOK'
  <2>1. held[h].user \in Users /\ held[h].used \in Nat
    BY <1>6, HeldFact DEF WriteRow
  <2> QED BY <1>6, <2>1 DEF TypeOK, WriteRow, coreVars, pollVars
<1>7. CASE CoreRestart
  BY <1>7 DEF TypeOK, CoreRestart, pollVars, storeVars
<1>8. CASE QueryTraffic
  BY <1>8 DEF TypeOK, QueryTraffic, coreVars, storeVars
<1>9. CASE PanelRestart
  BY <1>9 DEF TypeOK, PanelRestart, coreVars, storeVars
<1>10. CASE UNCHANGED vars
  BY <1>10 DEF TypeOK, vars
<1> QED
  BY <1>1, <1>2, <1>3, <1>4, <1>5, <1>6, <1>7, <1>8, <1>9, <1>10 DEF Next

-----------------------------------------------------------------------------
(* No byte is counted twice: a poll takes over the counter it has read, and
   what it adds leads exactly there.                                       *)
LEMMA CountStep ==
  TypeOK /\ (\A u \in Users : NothingCountedTwice(u)) /\ [Next]_vars
    => \A u \in Users : NothingCountedTwice(u)'
<1> USE DEF NothingCountedTwice
<1> SUFFICES ASSUME TypeOK, \A u \in Users : NothingCountedTwice(u), [Next]_vars,
                    NEW v \in Users
             PROVE  NothingCountedTwice(v)'
  OBVIOUS
<1>0. /\ sent[v] \in Nat /\ counter[v] \in Nat /\ shot[v] \in Nat /\ recorded[v] \in Nat
      /\ last[v] \in Nat \cup {None}
  BY DEF TypeOK
<1>1. ASSUME NEW u \in Users, Send(u) PROVE NothingCountedTwice(v)'
  <2>1. CASE u = v
    <3>1. sent'[v] = sent[v] + 1 /\ counter'[v] = counter[v] + 1
      BY <1>1, <2>1 DEF TypeOK, Send
    <3> QED BY <1>0, <1>1, <3>1 DEF Send, pollVars, storeVars
  <2>2. CASE u # v
    <3>1. sent'[v] = sent[v] /\ counter'[v] = counter[v]
      BY <1>1, <2>2 DEF TypeOK, Send
    <3> QED BY <1>1, <3>1 DEF Send, pollVars, storeVars
  <2> QED BY <2>1, <2>2
<1>2. ASSUME NEW u \in Users, Baseline(u) PROVE NothingCountedTwice(v)'
  <2>1. CASE u = v
    BY <1>0, <1>2, <2>1 DEF TypeOK, Baseline, coreVars, storeVars
  <2>2. CASE u # v
    BY <1>2, <2>2 DEF TypeOK, Baseline, coreVars, storeVars
  <2> QED BY <2>1, <2>2
<1>3. ASSUME NEW u \in Users, AddDelta(u) PROVE NothingCountedTwice(v)'
  <2>1. CASE u = v
    <3>1. /\ Delta(v) \in Nat
          /\ last[v] \in Nat
          /\ Delta(v) = 0 \/ Delta(v) = shot[v] - last[v]
      BY <1>3, <2>1, DeltaFact DEF AddDelta
    <3>2. last'[v] = shot[v] /\ v \notin pending' /\ v \in pending /\ last[v] # None
      BY <1>3, <2>1 DEF TypeOK, AddDelta
    <3>3. recorded'[v] = recorded[v] \/ recorded'[v] = recorded[v] + Delta(v)
      BY <1>3, <2>1 DEF TypeOK, AddDelta
    <3>4. sent' = sent /\ counter' = counter
      BY <1>3 DEF AddDelta, coreVars
    <3> QED BY <1>0, <3>1, <3>2, <3>3, <3>4
  <2>2. CASE u # v
    <3>1. recorded'[v] = recorded[v] /\ last'[v] = last[v] /\ shot'[v] = shot[v]
      BY <1>3, <2>2 DEF TypeOK, AddDelta
    <3>2. sent' = sent /\ counter' = counter /\ pending' \subseteq pending
      BY <1>3 DEF AddDelta, coreVars
    <3> QED BY <3>1, <3>2
  <2> QED BY <2>1, <2>2
<1>4. ASSUME NEW u \in Users, CreateUser(u) \/ DeleteUser(u) PROVE NothingCountedTwice(v)'
  BY <1>4 DEF CreateUser, DeleteUser, coreVars, pollVars
<1>5. ASSUME NEW h \in Handlers, WriteRow(h) \/ \E u \in Users : ReadRow(h, u)
      PROVE  NothingCountedTwice(v)'
  BY <1>5 DEF WriteRow, ReadRow, coreVars, pollVars, storeVars
<1>6. CASE CoreRestart
  <2>1. counter'[v] = 0
    BY <1>6 DEF CoreRestart
  <2> QED BY <1>0, <1>6, <2>1 DEF CoreRestart, pollVars, storeVars
<1>7. CASE QueryTraffic
  BY <1>0, <1>7 DEF QueryTraffic, coreVars, storeVars
<1>8. CASE PanelRestart
  BY <1>8 DEF PanelRestart, coreVars, storeVars
<1>9. CASE UNCHANGED vars
  BY <1>9 DEF vars
<1> QED BY <1>1, <1>2, <1>3, <1>4, <1>5, <1>6, <1>7, <1>8, <1>9 DEF Next

(* Rows only gain what is recorded with them; copies written back are older. *)
LEMMA RowsStep == TypeOK /\ RowsBehind /\ [Next]_vars => RowsBehind'
<1> USE DEF RowsBehind
<1> SUFFICES ASSUME TypeOK, RowsBehind, [Next]_vars PROVE RowsBehind'
  OBVIOUS
<1>1. ASSUME NEW u \in Users, AddDelta(u) PROVE RowsBehind'
  <2>1. Delta(u) \in Nat
    BY <1>1, DeltaFact DEF AddDelta
  <2>2. \A v \in Users : recorded'[v] \in Nat /\ recorded'[v] >= recorded[v]
    BY <1>1, <2>1 DEF TypeOK, AddDelta
  <2>3. \A v \in Users : used'[v] <= recorded'[v]
    BY <1>1, <2>1 DEF TypeOK, AddDelta
  <2>4. ASSUME NEW h \in Handlers, held'[h] # None
        PROVE  held'[h].used <= recorded'[held'[h].user]
    <3>1. held' = held
      BY <1>1 DEF AddDelta
    <3>2. held[h].user \in Users /\ held[h].used \in Nat
      BY <2>4, <3>1, HeldFact
    <3>3. recorded[held[h].user] \in Nat /\ held[h].used <= recorded[held[h].user]
      BY <2>4, <3>1, <3>2 DEF TypeOK
    <3> QED BY <2>2, <3>1, <3>2, <3>3
  <2> QED BY <2>3, <2>4
<1>2. ASSUME NEW h \in Handlers, NEW u \in Users, ReadRow(h, u) PROVE RowsBehind'
  BY <1>2 DEF TypeOK, ReadRow, storeVars
<1>3. ASSUME NEW h \in Handlers, WriteRow(h) PROVE RowsBehind'
  <2>1. held[h].user \in Users /\ held[h].used \in Nat /\ held[h].used <= recorded[held[h].user]
    BY <1>3, HeldFact DEF WriteRow
  <2> QED BY <1>3, <2>1 DEF TypeOK, WriteRow
<1>4. ASSUME NEW u \in Users, CreateUser(u) PROVE RowsBehind'
  BY <1>4 DEF TypeOK, CreateUser
<1>5. ASSUME NEW u \in Users, DeleteUser(u) PROVE RowsBehind'
  BY <1>5 DEF TypeOK, DeleteUser
<1>6. ASSUME NEW u \in Users, Send(u) \/ Baseline(u) PROVE RowsBehind'
  BY <1>6 DEF Send, Baseline, storeVars
<1>7. CASE CoreRestart \/ QueryTraffic
  BY <1>7 DEF CoreRestart, QueryTraffic, storeVars
<1>8. CASE PanelRestart
  BY <1>8 DEF PanelRestart, storeVars
<1>9. CASE UNCHANGED vars
  BY <1>9 DEF vars
<1> QED BY <1>1, <1>2, <1>3, <1>4, <1>5, <1>6, <1>7, <1>8, <1>9 DEF Next

-----------------------------------------------------------------------------
(* The inductive invariant.                                                *)
LEMMA Inductive == Spec => []IInv
<1>1. Init => IInv
  BY ConstantsAssumption DEF Init, IInv, TypeOK, NothingCountedTwice, RowsBehind
<1>2. IInv /\ [Next]_vars => IInv'
  BY TypeStep, CountStep, RowsStep DEF IInv
<1> QED BY <1>1, <1>2, PTL DEF Spec

(* Every variable keeps its type (all of TrafficAccounting).               *)
THEOREM TypeCorrect == Spec => []TypeOK
BY Inductive, PTL DEF IInv

(* Nobody is charged more than was sent, whatever restarts and writes come
   between (traffic_service.go pollTraffic, store.go AddTraffic, Update).  *)
THEOREM NobodyOverbilled == Spec => []NeverOverbilled
<1>1. IInv => NeverOverbilled
  <2> SUFFICES ASSUME IInv, NEW u \in rows PROVE used[u] <= sent[u]
    BY DEF NeverOverbilled
  <2>1. u \in Users /\ used[u] \in Nat /\ recorded[u] \in Nat /\ sent[u] \in Nat
    BY DEF IInv, TypeOK
  <2>2. used[u] <= recorded[u] /\ recorded[u] <= sent[u]
    BY <2>1 DEF IInv, NothingCountedTwice, RowsBehind
  <2> QED BY <2>1, <2>2
<1> QED BY <1>1, Inductive, PTL

-----------------------------------------------------------------------------
(* While nothing has gone wrong: a row is empty before the first reading,
   then it holds what the counter moved; and what is read only goes up.    *)
ExactFor(u) ==
  /\ last[u] = None => used[u] = 0
  /\ last[u] # None => base[u] # None /\ used[u] = last[u] - base[u] /\ last[u] <= counter[u]
  /\ u \in pending => shot[u] <= counter[u]
  /\ u \in pending /\ last[u] # None => last[u] <= shot[u]

ExactInv == calm => \A u \in Users : ExactFor(u)

LEMMA ExactInit == Init => ExactInv
BY DEF Init, ExactInv, ExactFor

LEMMA ExactStep == TypeOK /\ ExactInv /\ [Next]_vars => ExactInv'
<1> SUFFICES ASSUME TypeOK, ExactInv, [Next]_vars, calm', NEW v \in Users
             PROVE  ExactFor(v)'
  BY DEF ExactInv
<1>0. /\ sent[v] \in Nat /\ counter[v] \in Nat /\ shot[v] \in Nat /\ used[v] \in Nat
      /\ last[v] \in Nat \cup {None} /\ base[v] \in Nat \cup {None}
  BY DEF TypeOK
<1>1. ASSUME NEW u \in Users, Send(u) PROVE ExactFor(v)'
  <2>1. ExactFor(v)
    BY <1>1 DEF Send, ExactInv
  <2>2. counter'[v] = counter[v] \/ counter'[v] = counter[v] + 1
    BY <1>1 DEF TypeOK, Send
  <2> QED
    BY <1>0, <1>1, <2>1, <2>2 DEF ExactFor, Send, pollVars, storeVars
<1>2. ASSUME NEW u \in Users, Baseline(u) PROVE ExactFor(v)'
  <2>1. ExactFor(v) /\ UNCHANGED <<counter, used>>
    BY <1>2 DEF Baseline, ExactInv, coreVars, storeVars
  <2>2. CASE u = v
    <3>1. last'[v] = shot[v] /\ base'[v] = shot[v] /\ v \notin pending' /\ last[v] = None
      BY <1>2, <2>2 DEF TypeOK, Baseline
    <3>2. v \in pending
      BY <1>2, <2>2 DEF Baseline
    <3> QED
      BY <1>0, <2>1, <3>1, <3>2, ConstantsAssumption DEF ExactFor
  <2>3. CASE u # v
    <3>1. UNCHANGED <<last[v], base[v], shot[v]>> /\ pending' \subseteq pending
      BY <1>2, <2>3 DEF TypeOK, Baseline
    <3> QED
      BY <2>1, <3>1 DEF ExactFor
  <2> QED
    BY <2>2, <2>3
<1>3. ASSUME NEW u \in Users, AddDelta(u) PROVE ExactFor(v)'
  <2>1. calm
    BY <1>3 DEF AddDelta
  <2>2. ExactFor(v) /\ UNCHANGED <<counter, base>>
    BY <1>3, <2>1 DEF AddDelta, ExactInv, coreVars
  <2>3. CASE u = v
    <3>1. last'[v] = shot[v] /\ v \notin pending' /\ v \in pending /\ last[v] # None
      BY <1>3, <2>3 DEF TypeOK, AddDelta
    <3>2. used'[v] = used[v] + Delta(v)
      BY <1>3, <2>3 DEF TypeOK, AddDelta
    <3>3. Delta(v) = shot[v] - last[v]
      BY <1>0, <2>2, <3>1 DEF Delta, ExactFor
    <3> QED
      BY <1>0, <2>2, <3>1, <3>2, <3>3, ConstantsAssumption DEF ExactFor
  <2>4. CASE u # v
    <3>1. UNCHANGED <<last[v], used[v], shot[v]>> /\ pending' \subseteq pending
      BY <1>3, <2>4 DEF TypeOK, AddDelta
    <3> QED
      BY <2>2, <3>1 DEF ExactFor
  <2> QED
    BY <2>3, <2>4
<1>4. ASSUME NEW h \in Handlers, NEW u \in Users, ReadRow(h, u) PROVE ExactFor(v)'
  BY <1>4 DEF ReadRow, ExactInv, ExactFor, coreVars, pollVars, storeVars
<1>5. CASE QueryTraffic
  <2>1. ExactFor(v) /\ UNCHANGED <<counter, last, base, used>> /\ shot' = counter
    BY <1>5 DEF QueryTraffic, ExactInv, coreVars, storeVars
  <2> QED
    BY <1>0, <2>1 DEF ExactFor
<1>6. CASE UNCHANGED vars
  BY <1>6 DEF vars, ExactInv, ExactFor
<1>7. CASE \/ \E u \in Users : CreateUser(u) \/ DeleteUser(u)
           \/ \E h \in Handlers : WriteRow(h)
           \/ CoreRestart \/ PanelRestart
  BY <1>7 DEF CreateUser, DeleteUser, WriteRow, CoreRestart, PanelRestart
<1> QED
  BY <1>1, <1>2, <1>3, <1>4, <1>5, <1>6, <1>7 DEF Next

(* As long as nothing restarts, fails or writes rows back, the row holds
   exactly what the counter moved since it was first seen.                 *)
THEOREM CountIsExact == Spec => []ExactSinceBaseline
<1>1. ExactInv => ExactSinceBaseline
  BY DEF ExactInv, ExactFor, ExactSinceBaseline
<1> QED
  BY <1>1, ExactInit, ExactStep, TypeCorrect, PTL DEF Spec
=============================================================================
