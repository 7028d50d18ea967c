---------------------------- MODULE ExclusiveGate ----------------------------
(***************************************************************************)
(* What a request gate kept on a branch promises, whoever runs it and      *)
(* however its state is kept: at most one attempt holds the gate, an       *)
(* attempt that has held it never holds it again, and a request leaves     *)
(* only while its attempt holds the gate, once.                            *)
(* (docs/revocable-continuous-acquisition-implementation.md, "Two-phase    *)
(* request gate"; discovery's ledger is another one.)                      *)
(***************************************************************************)
CONSTANT Attempt

VARIABLES
  holder,  \* the attempts that hold the gate
  used,    \* the attempts that have ever held it
  sent     \* the attempts whose request has left

vars == <<holder, used, sent>>

\* The gate may have been in use before, and left in the hands of an attempt.
Init ==
  /\ \A x, y \in holder : x = y
  /\ holder \subseteq used /\ used \subseteq Attempt
  /\ sent = {}

\* The attempt had the gate to itself from the start.
Acquire(x) ==
  /\ holder = {}
  /\ x \notin used
  /\ holder' = {x}
  /\ used' = used \cup {x}
  /\ UNCHANGED sent

Send(x) ==
  /\ x \in holder
  /\ x \notin sent
  /\ sent' = sent \cup {x}
  /\ UNCHANGED <<holder, used>>

\* The attempt is over, by its own closing or by a recovery.
Release(x) ==
  /\ x \in holder
  /\ holder' = {}
  /\ UNCHANGED <<used, sent>>

Next == \E x \in Attempt : Acquire(x) \/ Send(x) \/ Release(x)

Spec == Init /\ [][Next]_vars
=============================================================================
