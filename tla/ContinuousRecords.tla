-------------------------- MODULE ContinuousRecords --------------------------
(***************************************************************************)
(* The continuous-acquisition ledger: the append-only history of grants,   *)
(* revocations, request reservations and their closings that is kept,      *)
(* together with the registry of source versions, on one branch of a git   *)
(* repository, and the rule by which each record is admitted after the     *)
(* records before it (lib/application/source-admission/                    *)
(* continuous-acquisition.ts).                                             *)
(*                                                                         *)
(* A history is the sequence of the branch's commits.  A commit hash       *)
(* identifies everything below it, so a branch head is the history itself  *)
(* and two heads are equal exactly when their histories are.  The module   *)
(* is constant-level and says nothing of who appends.                      *)
(***************************************************************************)
EXTENDS Integers, Sequences

CONSTANTS
  Authorization,  \* authorization ids, each a hash of one exact scope
  Source,         \* source definitions, each with the versions bound to it
  Target,         \* exact request targets (url and method)
  SourceOf,       \* the source an authorization is bound to
  TargetOf,       \* the target an authorization permits; several may share one
  Executor,       \* production runs
  MaxAttempts,    \* requests one run makes at most (its plan and budget)
  Interval,       \* the request intervals an issue command may ask for
  MinInterval,    \* the shortest interval the approved scope admits
  ApprovedFrom    \* the time from which the approved scope is effective

ASSUME SourceOfAssumption == SourceOf \in [Authorization -> Source]
ASSUME TargetOfAssumption == TargetOf \in [Authorization -> Target]
ASSUME MaxAttemptsAssumption == MaxAttempts \in Nat \ {0}
ASSUME IntervalAssumption == Interval \subseteq Nat \ {0}
ASSUME ScopeAssumption == MinInterval \in Nat \ {0} /\ ApprovedFrom \in Nat

\* The k-th request of run e draws a fresh attempt id and a fresh holder id
\* together, so one pair stands for both.
Attempt == Executor \X (1 .. MaxAttempts)

Time == Nat

GrantCommit   == [kind : {"GRANT"}, auth : Authorization, binding : Nat,
                  interval : Interval, from : Time]
RevokeCommit  == [kind : {"REVOKE"}, auth : Authorization, at : Time]
ReserveCommit == [kind : {"RESERVE"}, auth : Authorization, attempt : Attempt,
                  target : Target, at : Time, interval : Interval]
CloseCommit   == [kind : {"COMPLETE"}, attempt : Attempt, target : Target,
                  at : Time, interval : Interval, outcome : {"SUCCESS", "FAILED"}]
RecoverCommit == [kind : {"RECOVER"}, attempt : Attempt, target : Target,
                  at : Time, interval : Interval, outcome : {"FENCED_UNKNOWN"}]
\* A new revision of a source's definition, endpoint, admission or allowlist
\* entry.  usable tells whether the versions then current resolve to an
\* enabled, approved and consistently bound context.
VersionCommit == [kind : {"VERSION"}, source : Source, usable : BOOLEAN]
\* A run's request intent or its outcome: a commit of the same branch that
\* holds no record.
RunCommit     == [kind : {"INTENT", "OUTCOME"}, run : Executor]

RecordCommit == GrantCommit \cup RevokeCommit \cup ReserveCommit
                  \cup CloseCommit \cup RecoverCommit
Commit == RecordCommit \cup VersionCommit \cup RunCommit
History == Seq(Commit)

Closing == {"COMPLETE", "RECOVER"}
RecordKind == {"GRANT", "REVOKE", "RESERVE"} \cup Closing

\* The greatest member of a set of positions: none if the set is empty.
Last(S) == {i \in S : \A j \in S : j <= i}

\* currentContinuousGrant: the last grant of an authorization governs it.
GrantsOf(h, a) == {i \in DOMAIN h : h[i].kind = "GRANT" /\ h[i].auth = a}
CurrentGrant(h, a) == Last(GrantsOf(h, a))

Revoked(h, a) == \E i \in DOMAIN h : h[i].kind = "REVOKE" /\ h[i].auth = a

IsClosed(h, x) == \E i \in DOMAIN h : h[i].kind \in Closing /\ h[i].attempt = x

\* pendingContinuousAttempt: the reservations nothing has closed; the code's
\* pending attempt is the first of them.
Open(h) == {i \in DOMAIN h : h[i].kind = "RESERVE" /\ ~IsClosed(h, h[i].attempt)}
Pending(h) == {i \in Open(h) : \A j \in Open(h) : i <= j}

\* Variant: a failed request does not count for the cadence.
ClosingsOfSuccess(h, t) ==
  {i \in DOMAIN h : h[i].kind \in Closing /\ h[i].target = t /\ h[i].outcome # "FAILED"}

\* The records that carry an "at"; a grant keeps its time in its envelope.
Timed(h) == {i \in DOMAIN h : h[i].kind \in RecordKind \ {"GRANT"}}
ClosingsOf(h, t) == {i \in DOMAIN h : h[i].kind \in Closing /\ h[i].target = t}

\* resolveContinuousSourceContext: the current versions of a source, named by
\* the commit that made the last of them (0 for those the history starts from),
\* and whether they form a usable context.
VersionsOf(h, s) == {i \in DOMAIN h : h[i].kind = "VERSION" /\ h[i].source = s}
IsBinding(h, s, n) ==
  IF VersionsOf(h, s) = {} THEN n = 0 ELSE n \in Last(VersionsOf(h, s))
Usable(h, s) == \A i \in Last(VersionsOf(h, s)) : h[i].usable

-----------------------------------------------------------------------------
(***************************************************************************)
(* The rule of each kind of record.  It refers to the records alone and is *)
(* what replayContinuousRecords checks again on every load.                *)
(***************************************************************************)

\* A grant with the payload of the current one is the same record again, and
\* the command that asked for it commits nothing.
SamePayload(c, d) ==
  c.binding = d.binding /\ c.interval = d.interval /\ c.from = d.from

GrantRule(h, c) ==
  /\ c \in GrantCommit
  /\ c.interval >= MinInterval /\ c.from >= ApprovedFrom
  /\ ~Revoked(h, c.auth)
  /\ \A i \in CurrentGrant(h, c.auth) : ~SamePayload(c, h[i])
  /\ Open(h) = {}

\* Variant: a revocation that does not look for a pending attempt.
RevokeRuleUnguarded(h, c) ==
  /\ c \in RevokeCommit
  /\ GrantsOf(h, c.auth) # {}
  /\ ~Revoked(h, c.auth)

\* Of the earlier records' times a revocation's is compared with none.
RevokeRule(h, c) ==
  /\ c \in RevokeCommit
  /\ GrantsOf(h, c.auth) # {}
  /\ ~Revoked(h, c.auth)
  /\ Open(h) = {}

\* Variant: only the interval granted now counts, not the one the closed
\* attempt was reserved under.
CadenceOfGrant(h, c) ==
  \A i \in Last(ClosingsOf(h, c.target)) : c.at >= h[i].at + c.interval

\* A reservation is as late as the last timed record and, after the last
\* closing of the same target, later by the longer of two intervals: the one
\* granted now and the one the closed attempt was reserved under.
Cadence(h, c) ==
  \A i \in Last(ClosingsOf(h, c.target)) :
    c.at >= h[i].at + (IF c.interval > h[i].interval THEN c.interval ELSE h[i].interval)

ReserveRule(h, c) ==
  /\ c \in ReserveCommit
  /\ c.target = TargetOf[c.auth]
  /\ ~Revoked(h, c.auth)
  /\ \A i \in Last(Timed(h)) : h[i].at <= c.at
  /\ \E i \in CurrentGrant(h, c.auth) : /\ h[i].from <= c.at
                                        /\ h[i].interval = c.interval
  /\ Open(h) = {}
  /\ \A i \in DOMAIN h : h[i].kind = "RESERVE" => h[i].attempt # c.attempt
  /\ Cadence(h, c)

\* COMPLETE with the response's status, RECOVER with a verified fencing; the
\* closing repeats what its reservation says.
CloseRule(h, c) ==
  /\ c \in CloseCommit \cup RecoverCommit
  /\ \E i \in Pending(h) : /\ h[i].attempt = c.attempt
                           /\ h[i].at <= c.at
                           /\ h[i].target = c.target
                           /\ h[i].interval = c.interval

RecordRule(h, c) ==
  GrantRule(h, c) \/ RevokeRule(h, c) \/ ReserveRule(h, c) \/ CloseRule(h, c)

(***************************************************************************)
(* What a command checks besides, against the versions current on its own  *)
(* checkout.  A recovery's fencing is checked by whoever commands it.      *)
(***************************************************************************)
IssueAllowed(h, c) ==
  /\ GrantRule(h, c)
  /\ Usable(h, SourceOf[c.auth])
  /\ IsBinding(h, SourceOf[c.auth], c.binding)

ReserveAllowed(h, c) ==
  /\ ReserveRule(h, c)
  /\ Usable(h, SourceOf[c.auth])
  /\ \A i \in CurrentGrant(h, c.auth) :
       IsBinding(h, SourceOf[c.auth], h[i].binding)

VersionAllowed(h, c) == c \in VersionCommit /\ Open(h) = {}

\* replayContinuousRecords accepts the records of a history.
Replayable(h) ==
  \A n \in DOMAIN h : h[n].kind \in RecordKind => RecordRule(SubSeq(h, 1, n - 1), h[n])
=============================================================================
