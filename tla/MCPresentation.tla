---------------------------- MODULE MCPresentation ----------------------------
(***************************************************************************)
(* A small instance of Presentation for TLC.                               *)
(***************************************************************************)
EXTENDS Presentation, TLC

CONSTANTS r1, r2, c1, c2, v1, v2, p1, p2, o1, o2, o3, none, x1, x2

Sovs == c1 :> v1 @@ c2 :> v2
\* The third opportunity is the second with a composition that is not projected.
Positions == o1 :> p1 @@ o2 :> p2 @@ o3 :> p2
Bindings == o1 :> {v1} @@ o2 :> {v2} @@ o3 :> {v2}
Contents == o1 :> x1 @@ o2 :> x2 @@ o3 :> x2

Recalls == c1 :> 1 @@ c2 :> 2

Assessed(o, r, e) == [opportunity |-> o, relevance |-> r, eligibility |-> e]
TheAssessments == {Assessed(o, "RELEVANT", "ELIGIBLE") : o \in {o2, o3}}

Decided(c, o, r, e, s) ==
  [candidate |-> c, opportunity |-> o,
   meaning |-> [content |-> Contents[o], recall |-> "RETAINED", relevance |-> r,
                eligibility |-> e, status |-> s]]

\* The first position has no history, one that agrees or one that does not.
Shown == Decided(c1, o1, "RELEVANT", "ELIGIBLE", "DISPLAY")
Hidden == Decided(c1, o1, "NOT_RELEVANT", "NONE", "NOT_DISPLAY")
Branches == {{}, {Shown}, {Shown, Hidden}}

\* The first run publishes.  The second retains one outcome and may lose its
\* race.
RaceNext ==
  \/ Publish(r1) \/ Course(r1)
  \/ \E r \in Run \ {r1} :
       \/ Begin(r) \/ Push(r) \/ (Finish(r) /\ run[r].produced)
       \/ (Drop(r) /\ ~FastForward(r))
       \/ (Retain(r) /\ ~run[r].produced)

RaceSpec == Init /\ [][RaceNext]_vars
=============================================================================
