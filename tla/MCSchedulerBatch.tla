--------------------------- MODULE MCSchedulerBatch ---------------------------
(***************************************************************************)
(* Small instances of SchedulerBatch for TLC.                              *)
(***************************************************************************)
EXTENDS SchedulerBatch, TLC, SequencesExt

CONSTANTS r1, r2, a1, a2, a3, e1, e2, b0, b1

\* A pair and a single target.
PairAndOne == [e \in Endpoint |-> IF e = e1 THEN <<a1, a2>> ELSE <<a3>>]

\* An execution of batch b that has requested the authorizations of as, each at
\* its time, after commit n.
Requested(n, b, as, times) ==
  LET x == [batch |-> b, auths |-> Range(as)] IN
  <<[kind |-> "INTENT", execution |-> x]>> \o
  FlattenSeq([i \in DOMAIN as |->
    << [kind |-> "RESERVE", auth |-> as[i]],
       [kind |-> "COMPLETE", attempt |-> n + 2 * i, at |-> times[i]] >>])

Outcome(b, as, attempts) ==
  <<[kind |-> "OUTCOME", execution |-> [batch |-> b, auths |-> Range(as)],
     attempts |-> attempts]>>

RevokedOf(a) == <<[kind |-> "REVOKE", auth |-> a]>>

\* Only the pair is left.
SingleRevoked == RevokedOf(a3)

\* The single target has been requested; its outcome has not been committed.
\* It is all that is left.
SingleLost == RevokedOf(a1) \o RevokedOf(a2) \o Requested(2, b0, <<a3>>, <<1>>)

\* b0 has requested the pair, its second target a while after its first; when
\* only the first could be requested again b1 did so.  Neither has a manifest,
\* and only the pair is left.
PairHalved ==
  Requested(0, b0, <<a1, a2>>, <<0, 1>>) \o Outcome(b0, <<a1, a2>>, {2, 4})
    \o Requested(6, b1, <<a1>>, <<1>>) \o Outcome(b1, <<a1>>, {8}) \o RevokedOf(a3)

\* One run of b0 has requested the pair; another, which selected once the second
\* target was revoked, the first target again.  Both died.
PairTwice ==
  Requested(0, b0, <<a1, a2>>, <<0, 0>>) \o Outcome(b0, <<a1, a2>>, {2, 4})
    \o RevokedOf(a2) \o RevokedOf(a3)
    \o Requested(8, b0, <<a1>>, <<1>>) \o Outcome(b0, <<a1>>, {10})

AnyPast == {[branch |-> SingleRevoked, clock |-> 1],
            [branch |-> SingleLost, clock |-> 1],
            [branch |-> PairHalved, clock |-> 1],
            [branch |-> PairTwice, clock |-> 1]}

RunnerSymmetry == Permutations(Runner)
=============================================================================
