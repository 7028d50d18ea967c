----------------------------- MODULE MCCollection -----------------------------
(***************************************************************************)
(* Small instances of Collection for TLC.                                  *)
(***************************************************************************)
EXTENDS Collection

CONSTANTS l1, l2, l3, v1, v2, m1, m2, m3, empty, closed, other, broken

\* Three pages of vacancies, the first two with the same, and one of each other
\* kind.
KindOf == [p \in Page |->
  CASE p = empty -> "NO_RECORDS" [] p = closed -> "CLOSED_EMPTY" [] p = other -> "OTHER_EMPTY"
    [] p = broken -> "UNREADABLE" [] OTHER -> "LISTED"]
Listed == [p \in Page |->
  CASE p \in {m1, m2} -> {v1} [] p = m3 -> {v2} [] OTHER -> {}]

\* A query approved page by page, one page that may lead to others, and the
\* same page planned twice.
Plans == {[safety |-> TRUE, plan |-> <<l1, l2, l3>>], [safety |-> TRUE, plan |-> <<l1>>],
          [safety |-> FALSE, plan |-> <<l1>>], [safety |-> FALSE, plan |-> <<l1, l1>>]}

Known == {[known |-> FALSE, requests |-> <<>>],
          [known |-> TRUE, requests |-> << <<l1, m1>> >>]}
=============================================================================
