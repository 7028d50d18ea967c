--------------------------- MODULE DiscoveryLedger ---------------------------
(***************************************************************************)
(* The ledger source discovery keeps on a git branch of its own, and what  *)
(* is read off it before a request: which reservations are unresolved,     *)
(* which scopes are revoked, how long an organization or a target is to be *)
(* left alone (lib/source-discovery/discovery-budget.ts, discovery-root.ts *)
(* constructor and assertRepositoryGate).                                  *)
(*                                                                         *)
(* A commit carries the whole budget of one run; its candidates and        *)
(* observations are left out.  A run's budget is the sequence of its       *)
(* requests: they follow one another, so their events have only one order. *)
(* The module is constant-level.                                           *)
(***************************************************************************)
EXTENDS Naturals, Sequences, FiniteSets

CONSTANTS
  Run,           \* run ids
  Scope,         \* approved scopes (by hash)
  ScopeOf,       \* ScopeOf[x]: the scope run x is created with
  Organization,
  Url,
  ExactUrls,     \* ExactUrls[s]: the urls scope s names
  Day,           \* the first interval after a network failure
  Cooldown,      \* the interval after any other observation, at least a day
  Runtime,       \* how long a run may make requests, less than a day
  MaxRequests, MaxOrganizations, MaxEndpoints, RetryLimit

ASSUME ScopeAssumption ==
  /\ ScopeOf \in [Run -> Scope]
  /\ ExactUrls \in [Scope -> SUBSET Url]
ASSUME BudgetAssumption ==
  /\ Day \in Nat \ {0} /\ Cooldown \in Nat /\ Cooldown >= Day
  /\ Runtime \in 1 .. Day
  /\ {MaxRequests, MaxOrganizations, MaxEndpoints, RetryLimit} \subseteq Nat

\* A success, a redirect or a refusal count alike.
Observed == {"NETWORK_FAILURE", "OTHER"}

\* A request: reserved at a time, sent or not, and observed at a later time,
\* or still open.
Request == [organization : Organization, url : Url, at : Nat, sent : BOOLEAN,
            status : Observed \cup {"OPEN"}, seen : Nat]

Stage == {"STARTED", "PRE_SEND_DENIED", "RESERVED", "SEND_ENTERED", "OBSERVED",
          "RESPONSE_BUDGET_EXCEEDED_UNRESOLVED", "REVOKED"}

Commit == [run : Run, stage : Stage, started : Nat, requests : Seq(Request)]

\* The last commit of x, which is catalog.current("RUN"), and its first.
LastOf(h, x) ==
  h[CHOOSE i \in DOMAIN h : h[i].run = x /\ \A j \in i + 1 .. Len(h) : h[j].run # x]
FirstOf(h, x) ==
  CHOOSE i \in DOMAIN h : h[i].run = x /\ \A j \in 1 .. i - 1 : h[j].run # x
Known(h) == {h[i].run : i \in DOMAIN h}
RequestsOf(h, x) == LastOf(h, x).requests

\* Variant: only the newest commit is looked at.
RevokedScopeNow(h, s) ==
  h # <<>> /\ h[Len(h)].stage = "REVOKED" /\ ScopeOf[h[Len(h)].run] = s

RevokedScope(h, s) ==
  \E x \in Known(h) : ScopeOf[x] = s /\ LastOf(h, x).stage = "REVOKED"

\* The requests of the ledger, as pairs of a run and a position.
Entries(h) == UNION {{<<x, i>> : i \in DOMAIN RequestsOf(h, x)} : x \in Known(h)}
Entry(h, e) == RequestsOf(h, e[1])[e[2]]

Unresolved(h) == {e \in Entries(h) : Entry(h, e).status = "OPEN"}
Attempts(h) == Entries(h) \ Unresolved(h)

\* The pairs of entries in the order the constructor meets them, run by run.
LedgerOrder(h) ==
  {p \in Entries(h) \X Entries(h) :
     LET e == p[1]  f == p[2] IN
       \/ FirstOf(h, e[1]) < FirstOf(h, f[1])
       \/ e[1] = f[1] /\ e[2] <= f[2]}

\* By the time they were observed; those of one time, which the code puts in
\* the order of their hashes, in that of the ledger.
TimeOrder(h) ==
  {p \in Entries(h) \X Entries(h) :
     LET e == p[1]  f == p[2] IN
       \/ Entry(h, e).seen < Entry(h, f).seen
       \/ Entry(h, e).seen = Entry(h, f).seen /\ p \in LedgerOrder(h)}

\* The network failures in a row that end with f, among A in the given order.
InARow(h, A, order, f) ==
  Cardinality({e \in A :
    /\ <<e, f>> \in order
    /\ \A g \in A : <<e, g>> \in order /\ <<g, f>> \in order =>
         Entry(h, g).status = "NETWORK_FAILURE"})

\* Twice the interval with each failure, a week at most: 2 ^ (n - 1) < 7 as long
\* as n < 4.
Doubled(n) == IF n < 4 THEN 2 ^ (n - 1) * Day ELSE 7 * Day

\* Variant: every interval is a day.
IntervalOfADay(n) == IF n = 0 THEN Cooldown ELSE Day

IntervalAfter(n) == IF n = 0 THEN Cooldown ELSE Doubled(n)

\* The cooldowns a run is created with, from the branch h before it: failures
\* are counted by organization, the result holds for the target as well.
CooledDown(h, o, u, t) ==
  \A f \in Attempts(h) :
    LET org == Entry(h, f).organization
        A == {e \in Attempts(h) : Entry(h, e).organization = org} IN
      org = o \/ Entry(h, f).url = u =>
        t >= Entry(h, f).seen + IntervalAfter(InARow(h, A, LedgerOrder(h), f))

\* assertRepositoryGate leaves the attempts of its own run to the budget.
AllRested(h, x, o, u, t) ==
  LET A == {e \in Attempts(h) :
              e[1] # x /\ (Entry(h, e).organization = o \/ Entry(h, e).url = u)} IN
    \A f \in A : t >= Entry(h, f).seen + IntervalAfter(InARow(h, A, TimeOrder(h), f))

\* Variant: only the run's own reservations count as unresolved.
GateOwn(h, x, o, u, t) ==
  /\ ~RevokedScope(h, ScopeOf[x])
  /\ \A e \in Unresolved(h) : e[1] # x
  /\ AllRested(h, x, o, u, t)

\* assertRepositoryGate
Gate(h, x, o, u, t) ==
  /\ ~RevokedScope(h, ScopeOf[x])
  /\ Unresolved(h) = {}
  /\ AllRested(h, x, o, u, t)

InWindow(started, t) == started <= t /\ t < started + Runtime

\* DiscoveryBudget.reserve, for a run that has made the requests of q.
Reservable(h, x, started, q, o, u, t) ==
  LET targets == {[organization |-> q[i].organization, url |-> q[i].url] : i \in DOMAIN q} IN
  /\ InWindow(started, t)
  /\ u \in ExactUrls[ScopeOf[x]]
  /\ CooledDown(SubSeq(h, 1, FirstOf(h, x) - 1), o, u, t)
  /\ \A i \in DOMAIN q :
       /\ q[i].status # "OPEN"
       /\ q[i].organization = o /\ q[i].url = u =>
            t >= q[i].seen + (IF q[i].status = "NETWORK_FAILURE" THEN Day ELSE Cooldown)
  /\ Len(q) < MaxRequests
  /\ Cardinality({p.organization : p \in targets} \cup {o}) <= MaxOrganizations
  /\ Cardinality({p.url : p \in {p \in targets : p.organization = o}} \cup {u}) <= MaxEndpoints
  /\ Cardinality({i \in DOMAIN q : q[i].url = u}) <= RetryLimit

-----------------------------------------------------------------------------
(* What every ledger is to be like.                                        *)

\* One reservation at most has no observation.
SettledButOne(h) == \A e, f \in Unresolved(h) : e = f

\* After the revocation of its scope a run records refusals and revocations only,
\* and the run that was revoked itself nothing but that.
Silenced(h) ==
  \A i, j \in DOMAIN h :
    i < j /\ h[i].stage = "REVOKED" /\ ScopeOf[h[i].run] = ScopeOf[h[j].run] =>
      h[j].stage \in (IF h[i].run = h[j].run THEN {"REVOKED"} ELSE {"PRE_SEND_DENIED", "REVOKED"})

\* Nothing is observed before it is reserved, nor after the time t.
Timed(h, t) == \A e \in Entries(h) : Entry(h, e).at <= Entry(h, e).seen /\ Entry(h, e).seen <= t

Near(h, e, f) ==
  Entry(h, e).url = Entry(h, f).url \/ Entry(h, e).organization = Entry(h, f).organization

\* Request e had been observed for a day when f was reserved.
Before(h, e, f) == Entry(h, e).status # "OPEN" /\ Entry(h, e).seen + Day <= Entry(h, f).at

\* Two requests of a target or an organization by different runs never overlap.
Spaced(h) ==
  \A e, f \in Entries(h) : e[1] # f[1] /\ Near(h, e, f) => Before(h, e, f) \/ Before(h, f, e)

Rest == <<Day, 2 * Day, 4 * Day, 7 * Day>>

\* The observations by other runs of the target or organization f requests.
Others(h, f) == {g \in Attempts(h) : g[1] # f[1] /\ Near(h, g, f)}

\* After each observation the longer is rested the more network failures there
\* have been in a row.
Rested(h) ==
  \A f \in Entries(h) : \A e \in Others(h, f) :
    LET n == InARow(h, Others(h, f), TimeOrder(h), e) IN
      n > 0 /\ Entry(h, e).seen <= Entry(h, f).at =>
        Entry(h, f).at >= Entry(h, e).seen + Rest[IF n < 4 THEN n ELSE 4]
=============================================================================
