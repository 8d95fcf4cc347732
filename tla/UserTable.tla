----------------------------- MODULE UserTable -----------------------------
(***************************************************************************)
(* What a config-patching adapter promises: it publishes tables of users,  *)
(* and the core serves a table that was published, the last one in the     *)
(* end.  CoreSync implements it.                                           *)
(***************************************************************************)
CONSTANTS Users, Creds, NoCreds, Nothing

VARIABLES
  published,  \* the last table written for the core
  reading,    \* the table the core has read and not yet served
  served      \* the table the core serves

vars == <<published, reading, served>>

Tables == [Users -> Creds \cup {NoCreds}]

NoUsers == [u \in Users |-> NoCreds]

Init ==
  /\ published \in Tables
  /\ reading = Nothing
  /\ served = published

\* A table can differ from the previous one in several users: those whose
\* call failed are published with the next one that succeeds.
Publish ==
  /\ published' \in Tables
  /\ UNCHANGED <<reading, served>>

Read ==
  /\ reading = Nothing
  /\ reading' = published
  /\ UNCHANGED <<published, served>>

Serve ==
  /\ reading # Nothing
  /\ reading' = Nothing
  /\ served' = reading
  /\ UNCHANGED published

GiveUp ==
  /\ reading' = Nothing
  /\ UNCHANGED <<published, served>>

\* The core starts anew, perhaps with nothing it can load.
Restart ==
  /\ reading' = Nothing
  /\ served' \in {published, NoUsers}
  /\ UNCHANGED published

Next == Publish \/ Read \/ Serve \/ GiveUp \/ Restart

Spec == Init /\ [][Next]_vars

Loading == WF_vars(Read /\ served # published) /\ WF_vars(Serve)
=============================================================================
