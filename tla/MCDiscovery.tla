----------------------------- MODULE MCDiscovery -----------------------------
(***************************************************************************)
(* Small instances of Discovery for TLC.                                   *)
(***************************************************************************)
EXTENDS Discovery, TLC

CONSTANTS x1, x2, x3, s1, s2, u1, u2, o1

\* The first two runs share a scope; the third has its own, with another target
\* of the same organization.
Scopes == [x \in Run |-> IF x = x3 THEN s2 ELSE s1]
Targets == [s \in Scope |-> IF s = s1 THEN {u1} ELSE {u2}]

\* A run whose only request, of u1, met with a network failure at t.
Failure(x, t) ==
  LET commit(stage, requests) == [run |-> x, stage |-> stage, started |-> t, requests |-> requests]
      request(sent, status) == [organization |-> o1, url |-> u1, at |-> t, sent |-> sent,
                                status |-> status, seen |-> t] IN
  << commit("STARTED", <<>>),
     commit("RESERVED", <<request(FALSE, "OPEN")>>),
     commit("SEND_ENTERED", <<request(TRUE, "OPEN")>>),
     commit("OBSERVED", <<request(TRUE, "NETWORK_FAILURE")>>) >>

\* Nothing yet, or two network failures in a row of one organization.
AnyPast == {[branch |-> <<>>, clock |-> 2],
            [branch |-> Failure(x1, 0) \o Failure(x2, 1), clock |-> 2]}

RootSymmetry == Permutations(Root)
=============================================================================
