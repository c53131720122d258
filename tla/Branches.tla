------------------------------ MODULE Branches ------------------------------
(***************************************************************************)
(* What the harness promises of a fork: every branch is started at most    *)
(* once, is told which branch it is at most once, only while it is alive,  *)
(* and never told to be another branch; and a branch is reported READY     *)
(* only if it was told.                                                    *)
(***************************************************************************)
EXTENDS Naturals

CONSTANTS Branch,
          None    \* not a branch

VARIABLES life,   \* new, alive or over
          told,   \* the branch it was told to be
          report  \* what the harness noted of it

vars == <<life, told, report>>

Init ==
  /\ life = [b \in Branch |-> "new"]
  /\ told = [b \in Branch |-> None]
  /\ report = [b \in Branch |-> None]

Start(b) ==
  /\ life[b] = "new"
  /\ life' = [life EXCEPT ![b] = "alive"]
  /\ UNCHANGED <<told, report>>

Tell(b) ==
  /\ life[b] = "alive" /\ told[b] = None
  /\ told' = [told EXCEPT ![b] = b]
  /\ UNCHANGED <<life, report>>

Note(b, r) ==
  /\ report[b] = None /\ life[b] # "new"
  /\ r = "READY" => told[b] = b
  /\ report' = [report EXCEPT ![b] = r]
  /\ UNCHANGED <<life, told>>

(* One branch ends, or several at once. *)
Stop ==
  /\ life' \in [Branch -> {"new", "alive", "over"}]
  /\ \A b \in Branch : life'[b] # life[b] => life[b] = "alive" /\ life'[b] = "over"
  /\ UNCHANGED <<told, report>>

Next ==
  \/ \E b \in Branch : Start(b) \/ Tell(b) \/ \E r \in {"READY", "ERR"} : Note(b, r)
  \/ Stop

Spec == Init /\ [][Next]_vars
=============================================================================
