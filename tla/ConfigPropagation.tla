-------------------------- MODULE ConfigPropagation --------------------------
(***************************************************************************)
(* What the runtime configuration promises its readers: the active         *)
(* configuration is one the database had, it is never replaced by an older *)
(* one, and it follows the last change; until a session of PostgreSQL that *)
(* guards an activation is lost: from then on nothing is promised.         *)
(***************************************************************************)
EXTENDS Naturals

CONSTANT MaxChanges   \* bound on the changes of the database

VARIABLES
  db,      \* the number of configuration changes committed so far
  active,  \* the change up to which the active configuration is up to date
  broken   \* a session was lost

vars == <<db, active, broken>>

Init == db = 0 /\ active = 0 /\ ~broken

Change == db < MaxChanges /\ db' = db + 1 /\ UNCHANGED <<active, broken>>

\* One activation may catch up with any number of changes.
Activate == active' \in (active + 1) .. db /\ UNCHANGED <<db, broken>>

Lose == broken' /\ UNCHANGED <<db, active>>

Next == (~broken /\ (Change \/ Activate \/ Lose)) \/ (broken /\ broken')

Spec == Init /\ [][Next]_vars /\ WF_vars(~broken /\ Activate)
=============================================================================
