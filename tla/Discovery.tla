------------------------------ MODULE Discovery ------------------------------
(***************************************************************************)
(* Source discovery (lib/source-discovery/discovery-root.ts,               *)
(* git-discovery-store.ts): roots that request directory pages under an    *)
(* approved scope, several of them at a time, each reserving, sending and  *)
(* observing on the head it knows of the ledger's branch.                  *)
(*                                                                         *)
(* A call runs without interruption from one await to the next, and what   *)
(* it commits is accepted if the head is the root's (update-ref with an    *)
(* old value): so each stretch between two awaits is one action.           *)
(***************************************************************************)
EXTENDS DiscoveryLedger

CONSTANTS
  Root,         \* processes that hold a DiscoveryRoot
  NoRun,
  Pasts,        \* ledgers earlier runs may have left, each with the time by now
  MaxTime,      \* bound: the clock stops here
  MaxCommits,   \* bound: commits added to the ledger
  MaxIncidents  \* bound: crashes, and commits that fail for no reason of the ledger's

\* A request of a run by its position in the budget.
Reservation == Run \X (1 .. MaxRequests)

ASSUME NoRunAssumption == NoRun \notin Run
ASSUME BoundAssumption == {MaxTime, MaxCommits, MaxIncidents} \subseteq Nat
ASSUME PastsAssumption ==
  /\ Pasts \subseteq [branch : Seq(Commit), clock : 0 .. MaxTime]
  /\ \A past \in Pasts :
       /\ SettledButOne(past.branch) /\ Silenced(past.branch)
       /\ Entries(past.branch) \subseteq Reservation
       /\ Timed(past.branch, past.clock) /\ Spaced(past.branch) /\ Rested(past.branch)

VARIABLES
  branch,    \* the ledger's commits
  root,      \* root[p]: the DiscoveryRoot of process p
  wire,      \* the requests that have left: run, position in its budget, time
  clock,
  used       \* commits and incidents so far

vars == <<branch, root, wire, clock, used>>

\* A root waits for its caller, for the name of its target's host to be
\* resolved, to send, or for the response; a halted root does nothing more.
RootState == {"none", "ready", "preparing", "sending", "waiting", "halted"}

NoRoot == [pc |-> "none", run |-> NoRun, head |-> 0, started |-> 0, requests |-> <<>>]

Init ==
  /\ \E past \in Pasts : branch = past.branch /\ clock = past.clock
  /\ root = [p \in Root |-> NoRoot]
  /\ wire = {}
  /\ used = [commits |-> 0, incidents |-> 0]

At(p, s) == root[p].pc = s
View(p) == SubSeq(branch, 1, root[p].head)
Moved(p) == Len(branch) # root[p].head

Record(t, stage) ==
  [run |-> t.run, stage |-> stage, started |-> t.started, requests |-> t.requests]

Count(commits, n) ==
  /\ used.commits + commits <= MaxCommits /\ used.incidents + n <= MaxIncidents
  /\ used' = [commits |-> used.commits + commits, incidents |-> used.incidents + n]

Put(t, stage) == branch' = Append(branch, Record(t, stage))

\* persist: the root, now t, commits its budget; if the commit is not accepted,
\* or not known to be, it is halted with the budget it has.
Persist(p, t, stage) ==
  \/ /\ ~Moved(p)
     /\ Put(t, stage)
     /\ Count(1, 0)
     /\ root' = [root EXCEPT ![p] = [t EXCEPT !.head = Len(branch) + 1]]
  \/ /\ Moved(p)
     /\ root' = [root EXCEPT ![p] = [t EXCEPT !.pc = "halted"]]
     /\ UNCHANGED <<branch, used>>
  \/ /\ ~Moved(p)
     /\ \/ UNCHANGED branch /\ Count(0, 1)
        \/ Put(t, stage) /\ Count(1, 1)
     /\ root' = [root EXCEPT ![p] = [t EXCEPT !.pc = "halted"]]

\* The last request of p's run, and its budget with that request changed.
Position(p) == Len(root[p].requests)
Changed(p, request) == [root[p].requests EXCEPT ![Position(p)] = request]
Pending(p) == root[p].requests[Position(p)]

\* new DiscoveryRoot, its STARTED record accepted; otherwise the constructor
\* throws and there is no root.
Create(p) ==
  /\ At(p, "none")
  /\ Unresolved(branch) = {}
  /\ \E x \in Run \ Known(branch) :
       LET t == [pc |-> "ready", run |-> x, head |-> Len(branch) + 1, started |-> clock,
                 requests |-> <<>>] IN
         /\ ~RevokedScope(branch, ScopeOf[x])
         /\ Put(t, "STARTED")
         /\ Count(1, 0)
         /\ root' = [root EXCEPT ![p] = t]
  /\ UNCHANGED <<wire, clock>>

\* The root of run x at the head, with the given requests of its budget.
Restored(x, requests) ==
  LET last == LastOf(branch, x) IN
    [pc |-> IF last.stage \in {"REVOKED", "RESPONSE_BUDGET_EXCEEDED_UNRESOLVED"}
              THEN "halted" ELSE "ready",
     run |-> x, head |-> Len(branch), started |-> last.started, requests |-> requests]

\* Variant: the restored run has its whole budget again.
RestoreRenewed(p) ==
  /\ At(p, "none")
  /\ \E x \in Known(branch) : root' = [root EXCEPT ![p] = Restored(x, <<>>)]
  /\ UNCHANGED <<branch, wire, clock, used>>

\* DiscoveryRoot.restore at the head.  An older commit makes the root that was
\* restored before the others moved on.
Restore(p) ==
  /\ At(p, "none")
  /\ \E x \in Known(branch) : root' = [root EXCEPT ![p] = Restored(x, RequestsOf(branch, x))]
  /\ UNCHANGED <<branch, wire, clock, used>>

\* What discoverInput finds before it reserves.
MayReserve(p, o, u) ==
  /\ Gate(View(p), root[p].run, o, u, clock)
  /\ Reservable(View(p), root[p].run, root[p].started, root[p].requests, o, u, clock)

\* discoverInput up to the resolution of the host name.
Reserve(p) ==
  /\ At(p, "ready")
  /\ \E o \in Organization, u \in Url :
       /\ MayReserve(p, o, u)
       /\ Persist(p, [root[p] EXCEPT
            !.pc = "preparing",
            !.requests = Append(@, [organization |-> o, url |-> u, at |-> clock, sent |-> FALSE,
                                    status |-> "OPEN", seen |-> clock])], "RESERVED")
  /\ UNCHANGED <<wire, clock>>

Deny(p) ==
  /\ At(p, "ready")
  /\ \E o \in Organization, u \in Url : ~MayReserve(p, o, u)
  /\ Persist(p, root[p], "PRE_SEND_DENIED")
  /\ UNCHANGED <<wire, clock>>

\* The root about to send, and its budget saying so.
Entering(p) ==
  [root[p] EXCEPT !.pc = "sending", !.requests = Changed(p, [Pending(p) EXCEPT !.sent = TRUE])]

\* Variant: the request is sent although its commit is refused.
EnterSendUnheeded(p) ==
  /\ At(p, "preparing")
  /\ InWindow(root[p].started, clock)
  /\ \/ Persist(p, Entering(p), "SEND_ENTERED")
     \/ Moved(p) /\ root' = [root EXCEPT ![p] = Entering(p)] /\ UNCHANGED <<branch, used>>
  /\ UNCHANGED <<wire, clock>>

\* markSent, once the name is resolved and the time is not over.
EnterSend(p) ==
  /\ At(p, "preparing")
  /\ InWindow(root[p].started, clock)
  /\ Persist(p, Entering(p), "SEND_ENTERED")
  /\ UNCHANGED <<wire, clock>>

\* finish, with the status of the request just observed.
Observe(p, status) ==
  Persist(p, [root[p] EXCEPT
      !.pc = "ready",
      !.requests = Changed(p, [Pending(p) EXCEPT !.status = status, !.seen = clock])],
    "OBSERVED")

\* The name is not resolved to public addresses, or too late.
RefuseSend(p) ==
  /\ At(p, "preparing")
  /\ Observe(p, "OTHER")
  /\ UNCHANGED <<wire, clock>>

Send(p) ==
  /\ At(p, "sending")
  /\ wire' = wire \cup {[run |-> root[p].run, position |-> Position(p), at |-> clock, by |-> p]}
  /\ root' = [root EXCEPT ![p].pc = "waiting"]
  /\ UNCHANGED <<branch, clock, used>>

Answer(p) ==
  /\ At(p, "waiting")
  /\ \E status \in Observed : Observe(p, status)
  /\ UNCHANGED <<wire, clock>>

\* The response is larger than the budget has room for: it stays unobserved.
Overrun(p) ==
  /\ At(p, "waiting")
  /\ Persist(p, [root[p] EXCEPT !.pc = "halted"], "RESPONSE_BUDGET_EXCEEDED_UNRESOLVED")
  /\ UNCHANGED <<wire, clock>>

\* revoke, which may also be called while the root waits.
Revoke(p) ==
  /\ root[p].pc \in {"ready", "preparing", "waiting", "halted"}
  /\ Persist(p, [root[p] EXCEPT !.pc = "halted"], "REVOKED")
  /\ UNCHANGED <<wire, clock>>

\* The process ends; nobody waits for its response.
Crash(p) ==
  /\ ~At(p, "none")
  /\ Count(0, 1)
  /\ root' = [root EXCEPT ![p] = NoRoot]
  /\ UNCHANGED <<branch, wire, clock>>

Tick ==
  /\ clock < MaxTime
  /\ clock' = clock + 1
  /\ UNCHANGED <<branch, root, wire, used>>

Step(p) ==
  \/ Create(p) \/ Restore(p)
  \/ Reserve(p) \/ Deny(p) \/ EnterSend(p) \/ RefuseSend(p) \/ Send(p)
  \/ Answer(p) \/ Overrun(p) \/ Revoke(p)
  \/ Crash(p)

Next == (\E p \in Root : Step(p)) \/ Tick

Spec == Init /\ [][Next]_vars
-----------------------------------------------------------------------------
(* What is to be checked.                                                  *)

\* Every variable has its type, and a root knows no more of the ledger than
\* there is; unless it is halted its budget is the last of its run it knows.
TypeOK ==
  /\ branch \in Seq(Commit)
  /\ clock \in 0 .. MaxTime
  /\ used \in [commits : 0 .. MaxCommits, incidents : 0 .. MaxIncidents]
  /\ wire \subseteq [run : Run, position : Nat, at : 0 .. MaxTime, by : Root]
  /\ \A p \in Root :
       /\ root[p].pc \in RootState
       /\ root[p].head \in 0 .. Len(branch)
       /\ ~At(p, "none") => root[p].run \in Run
       /\ root[p].pc \notin {"none", "halted"} =>
            root[p].requests = RequestsOf(View(p), root[p].run)

\* Whatever roots work on the ledger, restored or new, and whichever of them
\* die, at most one reservation has no observation: nobody requests anything
\* while it is unknown what became of another request.
OneUnresolved == Cardinality(Unresolved(branch)) <= 1

\* A request leaves only after the ledger says so, and leaves once, although a
\* run may be restored by several processes and after a crash.
SentOnce ==
  /\ \A w \in wire :
       /\ w.run \in Known(branch)
       /\ w.position \in DOMAIN RequestsOf(branch, w.run)
       /\ RequestsOf(branch, w.run)[w.position].sent
  /\ \A v, w \in wire : v.run = w.run /\ v.position = w.position => v = w

\* After the revocation of its scope no run starts, reserves, sends or observes,
\* in whichever process it is (an operator revokes through a root of its own); the
\* run revoked is not even refused anything.
RevokedSilent == Silenced(branch)

\* A target and its organization are left alone for a day at least after each
\* observation, and the longer the more network failures there have been in a row
\* (a day, two, four, then a week), by all runs but the one that requested it, which
\* counts visits of its own.
BacksOff == Spaced(branch) /\ Rested(branch)

\* The gate the ledger implements: an unresolved reservation holds it.
Turn == INSTANCE ExclusiveGate WITH
  Attempt <- Reservation,
  holder <- Unresolved(branch),
  used <- Entries(branch),
  sent <- {<<w.run, w.position>> : w \in wire}

\* Every behaviour of the roots, those that share a run, crashes and commits of
\* which nobody knows what became included, is one of the exclusive gate: no
\* reservation is lost or made twice, and a request leaves while its reservation is
\* the only one unresolved.
TakesTurns == Turn!Spec
=============================================================================
