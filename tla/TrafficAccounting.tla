------------------------- MODULE TrafficAccounting -------------------------
(***************************************************************************)
(* How the bytes a user sends become the traffic stored in the user's row. *)
(* The core counts them since its own start; TrafficService polls the      *)
(* counters, keeps the last value it saw of each and adds the difference   *)
(* to the row; handlers and the lifecycle goroutine read whole rows and    *)
(* write them back.  Upload and download are counted alike and modelled as *)
(* one number; one core is modelled, lastTraffic being keyed by core.      *)
(***************************************************************************)
EXTENDS Integers

CONSTANTS
  Users,     \* user IDs
  Handlers,  \* goroutines that read a row and write it back: UpdateUser, SetEnabled, disableUser
  None,      \* nothing seen, nothing held
  Faults,    \* the failures this instance allows
  Churn,     \* TRUE when users are deleted and created again
  MaxSent    \* bound: bytes each user sends

FaultKinds == {"panel", "core", "store"}

ASSUME ConstantsAssumption ==
  /\ None \notin Nat
  /\ None \notin [user : Users, used : Nat]
  /\ Faults \subseteq FaultKinds
  /\ Churn \in BOOLEAN
  /\ MaxSent \in Nat

VARIABLES
  sent,      \* bytes sent by each user so far (history)
  counter,   \* the core's counter of each user
  last,      \* TrafficService.lastTraffic
  pending,   \* the users of the running poll that are not processed yet
  shot,      \* the counters the running poll has read and not processed
  rows,      \* the users that have a row
  used,      \* the traffic in each row; 0 where there is none
  held,      \* the row each handler has read and will write back
  recorded,  \* bytes ever added to a row of each user (history)
  base,      \* the first counter value seen of each user (history)
  calm       \* no restart, failure or other writer so far (history)

vars == <<sent, counter, last, pending, shot, rows, used, held, recorded, base, calm>>

coreVars == <<sent, counter>>
pollVars == <<last, pending, shot, base>>
storeVars == <<rows, used, recorded>>

-----------------------------------------------------------------------------
(* The core                                                                  *)

Send(u) ==
  /\ sent[u] < MaxSent
  /\ sent' = [sent EXCEPT ![u] = @ + 1]
  /\ counter' = [counter EXCEPT ![u] = @ + 1]
  /\ UNCHANGED <<pollVars, storeVars, held, calm>>

\* A restart of the core, and a reload that builds it anew.
CoreRestart ==
  /\ "core" \in Faults
  /\ counter' = [u \in Users |-> 0]
  /\ calm' = FALSE
  /\ UNCHANGED <<sent, pollVars, storeVars, held>>

-----------------------------------------------------------------------------
(* pollTraffic, one poll at a time under TrafficService.mu                   *)

\* QueryTraffic answers with the counters of all users, except perhaps of
\* those who have sent nothing since the core started.
QueryTraffic ==
  /\ pending = {}
  /\ \E idle \in SUBSET {u \in Users : counter[u] = 0} :
       pending' = Users \ idle
  /\ shot' = counter
  /\ UNCHANGED <<coreVars, last, base, storeVars, held, calm>>

\* Mutant of Baseline: a counter seen for the first time counts from zero.
BaselineCredited(u) ==
  /\ u \in pending
  /\ last[u] = None
  /\ last' = [last EXCEPT ![u] = shot[u]]
  /\ base' = [base EXCEPT ![u] = shot[u]]
  /\ pending' = pending \ {u}
  /\ shot' = [shot EXCEPT ![u] = 0]
  /\ used' = [used EXCEPT ![u] = @ + shot[u]]
  /\ recorded' = [recorded EXCEPT ![u] = @ + shot[u]]
  /\ UNCHANGED <<coreVars, rows, held, calm>>

\* The counter of a user seen for the first time only becomes the baseline.
Baseline(u) ==
  /\ u \in pending
  /\ last[u] = None
  /\ last' = [last EXCEPT ![u] = shot[u]]
  /\ base' = [base EXCEPT ![u] = shot[u]]
  /\ pending' = pending \ {u}
  /\ shot' = [shot EXCEPT ![u] = 0]
  /\ UNCHANGED <<coreVars, storeVars, held, calm>>

\* Mutants of Delta: no clipping at zero; the speed (a poll every two
\* seconds) in place of the bytes.
DeltaSigned(u) == shot[u] - last[u]
DeltaPerSecond(u) == IF shot[u] < last[u] THEN 0 ELSE (shot[u] - last[u]) \div 2

\* A counter that went back adds nothing.
Delta(u) == IF shot[u] < last[u] THEN 0 ELSE shot[u] - last[u]

\* lastTraffic moves on before AddTraffic, whose failure is only logged; a
\* missing row is no failure.
AddDelta(u) ==
  /\ u \in pending
  /\ last[u] # None
  /\ last' = [last EXCEPT ![u] = shot[u]]
  /\ pending' = pending \ {u}
  /\ shot' = [shot EXCEPT ![u] = 0]
  /\ \/ /\ u \in rows
        /\ used' = [used EXCEPT ![u] = @ + Delta(u)]
        /\ recorded' = [recorded EXCEPT ![u] = @ + Delta(u)]
        /\ UNCHANGED calm
     \/ /\ u \notin rows \/ "store" \in Faults
        /\ calm' = FALSE
        /\ UNCHANGED <<used, recorded>>
  /\ UNCHANGED <<coreVars, base, rows, held>>

\* The panel stops and starts again: what it kept in memory is gone.
PanelRestart ==
  /\ "panel" \in Faults
  /\ last' = [u \in Users |-> None]
  /\ base' = [u \in Users |-> None]
  /\ pending' = {}
  /\ shot' = [u \in Users |-> 0]
  /\ held' = [h \in Handlers |-> None]
  /\ calm' = FALSE
  /\ UNCHANGED <<coreVars, storeVars>>

-----------------------------------------------------------------------------
(* The store and those who write to it                                       *)

\* GetByID or List: the handler holds a copy of the whole row ...
ReadRow(h, u) ==
  /\ held[h] = None
  /\ u \in rows
  /\ held' = [held EXCEPT ![h] = [user |-> u, used |-> used[u]]]
  /\ UNCHANGED <<coreVars, pollVars, storeVars, calm>>

\* ... and Update writes every column of it, the traffic included.
WriteRow(h) ==
  /\ held[h] # None
  /\ held' = [held EXCEPT ![h] = None]
  /\ used' = IF held[h].user \in rows
               THEN [used EXCEPT ![held[h].user] = held[h].used]
               ELSE used
  /\ calm' = FALSE
  /\ UNCHANGED <<coreVars, pollVars, rows, recorded>>

CreateUser(u) ==
  /\ Churn
  /\ u \notin rows
  /\ rows' = rows \cup {u}
  /\ calm' = FALSE
  /\ UNCHANGED <<coreVars, pollVars, used, recorded, held>>

DeleteUser(u) ==
  /\ Churn
  /\ u \in rows
  /\ rows' = rows \ {u}
  /\ used' = [used EXCEPT ![u] = 0]
  /\ calm' = FALSE
  /\ UNCHANGED <<coreVars, pollVars, recorded, held>>

-----------------------------------------------------------------------------
Init ==
  /\ sent = [u \in Users |-> 0]
  /\ counter = [u \in Users |-> 0]
  /\ last = [u \in Users |-> None]
  /\ pending = {}
  /\ shot = [u \in Users |-> 0]
  /\ rows = Users
  /\ used = [u \in Users |-> 0]
  /\ held = [h \in Handlers |-> None]
  /\ recorded = [u \in Users |-> 0]
  /\ base = [u \in Users |-> None]
  /\ calm = TRUE

Next ==
  \/ \E u \in Users : Send(u) \/ Baseline(u) \/ AddDelta(u) \/ CreateUser(u) \/ DeleteUser(u)
  \/ \E h \in Handlers : WriteRow(h) \/ \E u \in Users : ReadRow(h, u)
  \/ CoreRestart \/ QueryTraffic \/ PanelRestart

Spec == Init /\ [][Next]_vars

(***************************************************************************)
(* The ticker of TrafficService.Start goes on, and a poll that has its     *)
(* answer processes every user.                                            *)
(***************************************************************************)
FairSpec ==
  /\ Spec
  /\ WF_vars(QueryTraffic)
  /\ \A u \in Users : WF_vars(Baseline(u) \/ AddDelta(u))

-----------------------------------------------------------------------------
TypeOK ==
  /\ sent \in [Users -> Nat]
  /\ counter \in [Users -> Nat]
  /\ last \in [Users -> Nat \cup {None}]
  /\ pending \subseteq Users
  /\ shot \in [Users -> Nat]
  /\ rows \subseteq Users
  /\ used \in [Users -> Nat]
  /\ held \in [Handlers -> [user : Users, used : Nat] \cup {None}]
  /\ recorded \in [Users -> Nat]
  /\ base \in [Users -> Nat \cup {None}]
  /\ calm \in BOOLEAN

(* A user is never charged more than the bytes sent under that ID, whatever
   restarts, failed writes, rows written back late and users created anew
   come between (traffic_service.go pollTraffic, store.go Update).         *)
NeverOverbilled == \A u \in rows : used[u] <= sent[u]

(* As long as nothing restarts, fails or writes rows back, the row holds
   exactly what the counter moved since it was first seen (pollTraffic).   *)
ExactSinceBaseline ==
  calm => \A u \in Users : last[u] # None => used[u] = last[u] - base[u]

(* ... and if it stays so, every byte but those of the baseline gets there
   once the user stops sending (TrafficService.Start).                     *)
EventuallyCounted ==
  []calm => \A u \in Users :
    <>[](sent[u] > 0 => base[u] # None /\ used[u] + base[u] = sent[u])

(* The comment on UserStore.AddTraffic: traffic is added incrementally so
   that concurrent reads and writes do not overwrite it.                   *)
StoredNeverDecreases ==
  [][\A u \in rows \cap rows' : used'[u] >= used[u]]_vars
=============================================================================
