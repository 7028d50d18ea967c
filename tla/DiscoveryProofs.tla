---------------------------- MODULE DiscoveryProofs ----------------------------
(***************************************************************************)
(* Theorems about Discovery, for any runs, scopes, targets, limits and     *)
(* roots.                                                                  *)
(*                                                                         *)
(* A commit is accepted only on the head its root knows.  So it is enough  *)
(* that each root is right about the ledger it knows, a prefix of the      *)
(* branch, and that the budget it holds would fit the branch if the branch *)
(* has not moved: a root whose commit failed holds a budget nobody else    *)
(* has seen, and may still commit it by a revocation.                      *)
(***************************************************************************)
EXTENDS Discovery, FiniteSetTheorems, TLAPS

Openings(q) == {i \in DOMAIN q : q[i].status = "OPEN"}

\* Budget q may become that of run x on h: there is one opening at most.
Fits(h, x, q) ==
  \A i \in Openings(q) :
    /\ \A j \in Openings(q) : j = i
    /\ \A y \in Known(h) \ {x} : Openings(RequestsOf(h, y)) = {}

\* Budget r has the requests of q, and what was sent of them.
Carried(q, r) == Len(q) <= Len(r) /\ \A i \in DOMAIN q : q[i].sent => r[i].sent

\* Some run of scope s has been revoked.
Revoking(h, s) == \E i \in DOMAIN h : h[i].stage = "REVOKED" /\ ScopeOf[h[i].run] = s

Locals == [pc : RootState, run : Run \cup {NoRun}, head : Nat, started : Nat,
           requests : Seq(Request)]

Live(t) == t.pc \in {"ready", "preparing", "sending", "waiting"}
Busy(t) == t.pc \in {"preparing", "sending", "waiting"}

\* What the root t, with branch h, is right about.
Knowing(h, t) ==
  LET view == SubSeq(h, 1, t.head) IN
  /\ t.head <= Len(h)
  /\ t.pc # "none" =>
       /\ t.run \in Run /\ t.run \in Known(view)
       /\ t.head = Len(h) =>
            Fits(h, t.run, t.requests) /\ Carried(RequestsOf(h, t.run), t.requests)
  /\ Live(t) =>
       /\ t.requests = RequestsOf(view, t.run)
       /\ LastOf(view, t.run).stage # "REVOKED"
       /\ Carried(t.requests, RequestsOf(h, t.run))
  /\ Busy(t) =>
       /\ t.requests # <<>>
       /\ t.requests[Len(t.requests)].status = "OPEN"
       /\ t.pc # "preparing" => t.requests[Len(t.requests)].sent
       /\ ~Revoking(view, ScopeOf[t.run])

\* A ledger, and what has left is in it.
Sound(h) == h \in Seq(Commit) /\ SettledButOne(h) /\ Silenced(h)
Told(h) ==
  \A w \in wire :
    /\ w.run \in Known(h) /\ w.position \in DOMAIN RequestsOf(h, w.run)
    /\ RequestsOf(h, w.run)[w.position].sent

\* A request is one root's to send, and nobody's once it has left.
Sole ==
  /\ \A p, q \in Root :
       /\ Busy(root[p]) /\ Busy(root[q]) /\ root[p].run = root[q].run
       /\ Position(p) = Position(q)
       => p = q
  /\ \A p \in Root, w \in wire :
       root[p].pc \in {"preparing", "sending"} /\ w.run = root[p].run => w.position # Position(p)
  /\ \A v, w \in wire : v.run = w.run /\ v.position = w.position => v = w

Bounds ==
  /\ clock \in 0 .. MaxTime
  /\ used \in [commits : 0 .. MaxCommits, incidents : 0 .. MaxIncidents]
  /\ wire \subseteq [run : Run, position : Nat, at : 0 .. MaxTime, by : Root]

IInv ==
  /\ Bounds
  /\ Sound(branch) /\ Told(branch) /\ Sole
  /\ root \in [Root -> Locals]
  /\ \A p \in Root : Knowing(branch, root[p])

-----------------------------------------------------------------------------
(* Ledgers and their prefixes.                                             *)

LEMMA Prefix ==
  ASSUME NEW h \in Seq(Commit), NEW n \in Nat, n <= Len(h)
  PROVE  /\ SubSeq(h, 1, n) \in Seq(Commit)
         /\ Len(SubSeq(h, 1, n)) = n /\ DOMAIN SubSeq(h, 1, n) = 1 .. n
         /\ \A i \in 1 .. n : SubSeq(h, 1, n)[i] = h[i]
         /\ DOMAIN h = 1 .. Len(h) /\ Len(h) \in Nat
         /\ \A i \in 1 .. Len(h) : h[i] \in Commit
OBVIOUS

LEMMA Longer ==
  ASSUME NEW h \in Seq(Commit), NEW c \in Commit
  PROVE  /\ Append(h, c) \in Seq(Commit)
         /\ Len(Append(h, c)) = Len(h) + 1 /\ Len(h) \in Nat
         /\ DOMAIN h = 1 .. Len(h) /\ DOMAIN Append(h, c) = 1 .. Len(h) + 1
         /\ \A i \in 1 .. Len(h) : Append(h, c)[i] = h[i] /\ h[i] \in Commit
         /\ Append(h, c)[Len(h) + 1] = c
OBVIOUS

LEMMA PrefixStays ==
  ASSUME NEW h \in Seq(Commit), NEW c \in Commit, NEW n \in Nat, n <= Len(h)
  PROVE  SubSeq(Append(h, c), 1, n) = SubSeq(h, 1, n)
<1>1. /\ SubSeq(h, 1, n) \in Seq(Commit) /\ Len(SubSeq(h, 1, n)) = n
      /\ \A i \in 1 .. n : SubSeq(h, 1, n)[i] = h[i]
  BY Prefix
<1>2. n <= Len(Append(h, c)) /\ Append(h, c) \in Seq(Commit)
  BY Longer
<1>3. /\ SubSeq(Append(h, c), 1, n) \in Seq(Commit) /\ Len(SubSeq(Append(h, c), 1, n)) = n
      /\ \A i \in 1 .. n : SubSeq(Append(h, c), 1, n)[i] = Append(h, c)[i]
  BY <1>2, Prefix
<1>4. \A i \in 1 .. n : Append(h, c)[i] = h[i]
  BY Longer
<1> QED
  BY <1>1, <1>3, <1>4

LEMMA WholePrefix ==
  ASSUME NEW h \in Seq(Commit)
  PROVE  SubSeq(h, 1, Len(h)) = h
<1>1. Len(h) \in Nat /\ Len(h) <= Len(h)
  OBVIOUS
<1>2. /\ SubSeq(h, 1, Len(h)) \in Seq(Commit) /\ Len(SubSeq(h, 1, Len(h))) = Len(h)
      /\ \A i \in 1 .. Len(h) : SubSeq(h, 1, Len(h))[i] = h[i]
  BY <1>1, Prefix
<1> QED
  BY <1>2

\* A nonempty set of positions has a last one: of the intervals that begin at its
\* members one is minimal.
LEMMA LastPosition ==
  ASSUME NEW n \in Nat, NEW T, T \subseteq 1 .. n, T # {}
  PROVE  \E k \in T : \A j \in T : j <= k
<1> DEFINE F == {k .. n : k \in T}
<1>1. IsFiniteSet(1 .. n)
  BY FS_Interval
<1>2. F \subseteq SUBSET (1 .. n) /\ F # {}
  <2>1. \A k \in T : k .. n \subseteq 1 .. n
    OBVIOUS
  <2>2. PICK k \in T : TRUE
    OBVIOUS
  <2>3. k .. n \in F
    OBVIOUS
  <2> QED
    BY <2>1, <2>3, Zenon
<1>3. IsWellFoundedOn(StrictSubsetOrdering(1 .. n), SUBSET (1 .. n))
  BY <1>1, FS_StrictSubsetOrderingWellFounded, FS_FiniteSubsetsOfFinite
<1>4. \E x \in F : \A y \in F : ~(<<y, x>> \in StrictSubsetOrdering(1 .. n))
  <2> HIDE DEF F
  <2> QED
    BY <1>2, <1>3, WFMin
<1>5. PICK k \in T : \A j \in T : ~(<<j .. n, k .. n>> \in StrictSubsetOrdering(1 .. n))
  BY <1>4
<1>6. ASSUME NEW j \in T, j > k PROVE FALSE
  <2>1. j .. n \subseteq k .. n /\ k \in k .. n /\ k \notin j .. n
    BY <1>6
  <2>2. j .. n \in SUBSET (1 .. n) /\ k .. n \in SUBSET (1 .. n)
    OBVIOUS
  <2> QED
    BY <1>5, <2>1, <2>2 DEF StrictSubsetOrdering
<1>7. \A j \in T : j \in Nat /\ k \in Nat
  OBVIOUS
<1> QED
  BY <1>6, <1>7

\* i is the position of the last commit of x.
IsLast(h, x, i) == i \in DOMAIN h /\ h[i].run = x /\ \A j \in i + 1 .. Len(h) : h[j].run # x

LEMMA LastExists ==
  ASSUME NEW h \in Seq(Commit), NEW x \in Known(h)
  PROVE  \E i \in DOMAIN h : IsLast(h, x, i)
<1> DEFINE T == {i \in DOMAIN h : h[i].run = x}
<1>1. T \subseteq 1 .. Len(h) /\ T # {} /\ Len(h) \in Nat
  BY DEF Known
<1>2. PICK k \in T : \A j \in T : j <= k
  BY <1>1, LastPosition
<1>3. \A j \in k + 1 .. Len(h) : h[j].run # x
  <2> SUFFICES ASSUME NEW j \in k + 1 .. Len(h), h[j].run = x PROVE FALSE
    OBVIOUS
  <2>1. j \in T /\ j > k
    BY <1>1
  <2> QED
    BY <1>1, <1>2, <2>1
<1> QED
  BY <1>3 DEF IsLast

LEMMA LastIs ==
  ASSUME NEW h \in Seq(Commit), NEW x, NEW i, IsLast(h, x, i)
  PROVE  LastOf(h, x) = h[i]
<1> DEFINE P(k) == h[k].run = x /\ \A j \in k + 1 .. Len(h) : h[j].run # x
<1>1. i \in 1 .. Len(h) /\ Len(h) \in Nat /\ DOMAIN h = 1 .. Len(h) /\ P(i)
  BY DEF IsLast
<1>2. \A k \in DOMAIN h : P(k) => k = i
  <2> SUFFICES ASSUME NEW k \in 1 .. Len(h), P(k), k # i PROVE FALSE
    BY <1>1
  <2>1. k < i \/ i < k
    BY <1>1
  <2> QED
    BY <1>1, <2>1
<1>3. (CHOOSE k \in DOMAIN h : P(k)) = i
  <2> HIDE DEF P
  <2> QED
    BY <1>1, <1>2
<1> QED
  BY <1>3 DEF LastOf

LEMMA LastType ==
  ASSUME NEW h \in Seq(Commit), NEW x \in Known(h)
  PROVE  /\ LastOf(h, x) \in Commit /\ LastOf(h, x).run = x
         /\ RequestsOf(h, x) \in Seq(Request)
         /\ x \in Run
<1>1. PICK i \in DOMAIN h : IsLast(h, x, i)
  BY LastExists
<1>2. LastOf(h, x) = h[i] /\ h[i].run = x /\ h[i] \in Commit
  BY <1>1, LastIs DEF IsLast
<1> QED
  BY <1>2 DEF RequestsOf, Commit

\* One more commit is the last of its run, and the others keep theirs.
LEMMA LastLonger ==
  ASSUME NEW h \in Seq(Commit), NEW c \in Commit
  PROVE  /\ Known(Append(h, c)) = Known(h) \cup {c.run}
         /\ LastOf(Append(h, c), c.run) = c
         /\ RequestsOf(Append(h, c), c.run) = c.requests
         /\ \A x \in Known(h) \ {c.run} :
              /\ LastOf(Append(h, c), x) = LastOf(h, x)
              /\ RequestsOf(Append(h, c), x) = RequestsOf(h, x)
<1> DEFINE g == Append(h, c)
           n == Len(h)
<1>1. /\ g \in Seq(Commit) /\ Len(g) = n + 1 /\ n \in Nat
      /\ DOMAIN h = 1 .. n /\ DOMAIN g = 1 .. n + 1
      /\ \A i \in 1 .. n : g[i] = h[i]
      /\ g[n + 1] = c
  BY Longer
<1> HIDE DEF g, n
<1>2. Known(g) = Known(h) \cup {c.run}
  <2>1. \A i \in 1 .. n + 1 : i \in 1 .. n \/ i = n + 1
    BY <1>1
  <2>2. 1 .. n \subseteq 1 .. n + 1 /\ n + 1 \in 1 .. n + 1
    BY <1>1
  <2> QED
    BY <1>1, <2>1, <2>2 DEF Known
<1>3. LastOf(g, c.run) = c
  <2>1. IsLast(g, c.run, n + 1)
    BY <1>1 DEF IsLast
  <2> QED
    BY <1>1, <2>1, LastIs
<1>4. \A x \in Known(h) \ {c.run} : LastOf(g, x) = LastOf(h, x)
  <2> TAKE x \in Known(h) \ {c.run}
  <2>1. PICK i \in DOMAIN h : IsLast(h, x, i)
    BY LastExists
  <2>2. IsLast(g, x, i)
    <3>1. i \in 1 .. n /\ h[i].run = x /\ \A j \in i + 1 .. n : h[j].run # x
      BY <1>1, <2>1 DEF IsLast, n
    <3>2. \A j \in i + 1 .. n + 1 : g[j].run # x
      <4> TAKE j \in i + 1 .. n + 1
      <4>1. (j \in 1 .. n /\ j \in i + 1 .. n) \/ j = n + 1
        BY <1>1, <3>1
      <4> QED
        BY <1>1, <3>1, <4>1
    <3> QED
      BY <1>1, <3>1, <3>2 DEF IsLast
  <2> QED
    BY <1>1, <2>1, <2>2, LastIs
<1> QED
  BY <1>2, <1>3, <1>4 DEF g, RequestsOf

LEMMA KnownPrefix ==
  ASSUME NEW h \in Seq(Commit), NEW n \in Nat, n <= Len(h)
  PROVE  Known(SubSeq(h, 1, n)) \subseteq Known(h)
<1>1. /\ DOMAIN SubSeq(h, 1, n) = 1 .. n /\ \A i \in 1 .. n : SubSeq(h, 1, n)[i] = h[i]
      /\ DOMAIN h = 1 .. Len(h) /\ 1 .. n \subseteq 1 .. Len(h)
  BY Prefix
<1> QED
  BY <1>1 DEF Known

-----------------------------------------------------------------------------
(* Openings and revocations of a ledger.                                   *)

\* An entry without observation is an opening of the budget of its run.
LEMMA Opened ==
  ASSUME NEW h
  PROVE  \A e : e \in Unresolved(h) <=>
           \E x \in Known(h) : \E i \in Openings(RequestsOf(h, x)) : e = <<x, i>>
<1>1. \A x, i : Entry(h, <<x, i>>) = RequestsOf(h, x)[i]
  BY DEF Entry
<1>2. \A e : e \in Entries(h) <=>
        \E x \in Known(h) : \E i \in DOMAIN RequestsOf(h, x) : e = <<x, i>>
  BY DEF Entries
<1> QED
  BY <1>1, <1>2 DEF Unresolved, Openings

LEMMA SettledButOneIs ==
  ASSUME NEW h
  PROVE  SettledButOne(h) <=>
           \A x, y \in Known(h) : \A i \in Openings(RequestsOf(h, x)),
                                     j \in Openings(RequestsOf(h, y)) : x = y /\ i = j
<1>1. ASSUME SettledButOne(h), NEW x \in Known(h), NEW y \in Known(h),
             NEW i \in Openings(RequestsOf(h, x)), NEW j \in Openings(RequestsOf(h, y))
      PROVE  x = y /\ i = j
  <2>1. <<x, i>> \in Unresolved(h) /\ <<y, j>> \in Unresolved(h)
    BY Opened
  <2>2. <<x, i>> = <<y, j>>
    BY <1>1, <2>1, Zenon DEF SettledButOne
  <2> QED
    BY <2>2
<1>2. ASSUME \A x, y \in Known(h) : \A i \in Openings(RequestsOf(h, x)),
                                        j \in Openings(RequestsOf(h, y)) : x = y /\ i = j,
             NEW e \in Unresolved(h), NEW f \in Unresolved(h)
      PROVE  e = f
  <2>1. PICK x \in Known(h) : \E i \in Openings(RequestsOf(h, x)) : e = <<x, i>>
    BY Opened
  <2>2. PICK y \in Known(h) : \E j \in Openings(RequestsOf(h, y)) : f = <<y, j>>
    BY Opened
  <2> QED
    BY <1>2, <2>1, <2>2
<1> QED
  BY <1>1, <1>2 DEF SettledButOne

\* A commit whose budget fits leaves one opening at most.
LEMMA SettledLonger ==
  ASSUME NEW h \in Seq(Commit), NEW c \in Commit, SettledButOne(h), Fits(h, c.run, c.requests)
  PROVE  SettledButOne(Append(h, c))
<1> DEFINE g == Append(h, c)
           O(x) == Openings(RequestsOf(g, x))
<1>1. /\ Known(g) = Known(h) \cup {c.run} /\ O(c.run) = Openings(c.requests)
      /\ \A x \in Known(h) \ {c.run} : O(x) = Openings(RequestsOf(h, x))
  BY LastLonger
<1> HIDE DEF g, O
<1>2. \A x, y \in Known(g) : \A i \in O(x), j \in O(y) : x = y /\ i = j
  <2> SUFFICES ASSUME NEW x \in Known(g), NEW y \in Known(g), NEW i \in O(x), NEW j \in O(y)
               PROVE  x = y /\ i = j
    OBVIOUS
  <2>1. CASE x # c.run /\ y # c.run
    BY <1>1, <2>1, SettledButOneIs
  <2>2. CASE x = c.run \/ y = c.run
    BY <1>1, <2>2 DEF Fits
  <2> QED
    BY <2>1, <2>2
<1> QED
  BY <1>2, SettledButOneIs DEF g, O

LEMMA FitsNothingOpen ==
  ASSUME NEW h, NEW x, Unresolved(h) = {}
  PROVE  \A y \in Known(h) : Openings(RequestsOf(h, y)) = {}
BY Opened

\* The budget a settled ledger has of a run fits.
LEMMA OwnFits ==
  ASSUME NEW h, NEW x \in Known(h), SettledButOne(h)
  PROVE  Fits(h, x, RequestsOf(h, x))
<1>1. \A y \in Known(h) : \A i \in Openings(RequestsOf(h, x)), j \in Openings(RequestsOf(h, y)) :
        x = y /\ i = j
  BY SettledButOneIs
<1> QED
  BY <1>1 DEF Fits

\* What fits instead of a budget with the same openings or fewer.
LEMMA FewerFits ==
  ASSUME NEW h, NEW x, NEW q, NEW r, Fits(h, x, q), Openings(r) \subseteq Openings(q)
  PROVE  Fits(h, x, r)
BY DEF Fits

LEMMA CarriedAlong ==
  ASSUME NEW q \in Seq(Request), NEW r \in Seq(Request), NEW s \in Seq(Request)
  PROVE  /\ Carried(q, q)
         /\ Carried(q, r) /\ Carried(r, s) => Carried(q, s)
<1>1. DOMAIN q = 1 .. Len(q) /\ DOMAIN r = 1 .. Len(r) /\ DOMAIN s = 1 .. Len(s)
      /\ {Len(q), Len(r), Len(s)} \subseteq Nat
  OBVIOUS
<1>2. Carried(q, q)
  BY <1>1 DEF Carried
<1>3. ASSUME Carried(q, r), Carried(r, s) PROVE Carried(q, s)
  <2>1. Len(q) <= Len(s)
    BY <1>1, <1>3 DEF Carried
  <2>2. \A i \in DOMAIN q : i \in DOMAIN r
    BY <1>1, <1>3 DEF Carried
  <2> QED
    BY <1>3, <2>1, <2>2 DEF Carried
<1> QED
  BY <1>2, <1>3

\* A scope is revoked once its revocation has been recorded: a run that was revoked
\* records nothing else.
LEMMA RevokedFound ==
  ASSUME NEW h \in Seq(Commit), Silenced(h), NEW s, ~RevokedScope(h, s)
  PROVE  ~Revoking(h, s)
<1> SUFFICES ASSUME NEW i \in DOMAIN h, h[i].stage = "REVOKED", ScopeOf[h[i].run] = s
             PROVE  FALSE
  BY DEF Revoking
<1>1. h[i].run \in Known(h)
  BY DEF Known
<1>2. PICK k \in DOMAIN h : IsLast(h, h[i].run, k)
  BY <1>1, LastExists
<1>3. LastOf(h, h[i].run) = h[k] /\ h[k].run = h[i].run
  BY <1>2, LastIs DEF IsLast
<1>4. i <= k
  BY <1>2 DEF IsLast
<1>5. h[k].stage = "REVOKED"
  <2>1. i = k \/ i < k
    BY <1>4
  <2> QED
    BY <1>3, <2>1 DEF Silenced
<1> QED
  BY <1>1, <1>3, <1>5 DEF RevokedScope

\* What a run may record without breaking a silence.
MayRecord(h, c) ==
  \/ c.stage = "REVOKED"
  \/ ~Revoking(h, ScopeOf[c.run])
  \/ c.stage = "PRE_SEND_DENIED" /\ c.run \in Known(h) /\ LastOf(h, c.run).stage # "REVOKED"

LEMMA SilencedLonger ==
  ASSUME NEW h \in Seq(Commit), NEW c \in Commit, Silenced(h), MayRecord(h, c)
  PROVE  Silenced(Append(h, c))
<1> DEFINE g == Append(h, c)
           n == Len(h)
<1>1. /\ n \in Nat /\ DOMAIN h = 1 .. n /\ DOMAIN g = 1 .. n + 1
      /\ \A i \in 1 .. n : g[i] = h[i]
      /\ g[n + 1] = c
  BY Longer
<1> HIDE DEF g, n
<1>2. ASSUME NEW i \in 1 .. n, h[i].stage = "REVOKED", ScopeOf[h[i].run] = ScopeOf[c.run]
      PROVE  c.stage \in (IF h[i].run = c.run THEN {"REVOKED"} ELSE {"PRE_SEND_DENIED", "REVOKED"})
  <2>1. Revoking(h, ScopeOf[c.run])
    BY <1>1, <1>2 DEF Revoking
  <2>2. CASE h[i].run = c.run /\ c.run \in Known(h) /\ LastOf(h, c.run).stage # "REVOKED"
    <3>1. PICK k \in DOMAIN h : IsLast(h, c.run, k)
      BY <2>2, LastExists
    <3>2. LastOf(h, c.run) = h[k] /\ h[k].run = c.run /\ k \in 1 .. n
          /\ \A j \in k + 1 .. n : h[j].run # c.run
      BY <1>1, <3>1, LastIs DEF IsLast, n
    <3>3. i < k \/ i = k
      BY <1>1, <2>2, <3>2
    <3> QED
      BY <1>1, <1>2, <2>2, <3>2, <3>3 DEF Silenced
  <2> QED
    BY <2>1, <2>2 DEF MayRecord
<1>3. \A i, j \in 1 .. n + 1 : i < j => i \in 1 .. n /\ (j \in 1 .. n \/ j = n + 1)
  BY <1>1
<1> QED
  BY <1>1, <1>2, <1>3 DEF Silenced, g
-----------------------------------------------------------------------------
(* What a commit does to what the roots know.                              *)

\* Commit c may be the next of its run.
Follows(h, c) ==
  /\ Fits(h, c.run, c.requests)
  /\ c.run \in Known(h) => Carried(RequestsOf(h, c.run), c.requests)
  /\ MayRecord(h, c)

LEMMA SoundLonger ==
  ASSUME NEW h, Sound(h), NEW c \in Commit, Follows(h, c)
  PROVE  Sound(Append(h, c))
<1>1. h \in Seq(Commit) /\ SettledButOne(h) /\ Silenced(h)
  BY DEF Sound
<1>2. Fits(h, c.run, c.requests) /\ MayRecord(h, c)
  BY DEF Follows
<1>3. Append(h, c) \in Seq(Commit)
  BY <1>1, Longer
<1> QED
  BY <1>1, <1>2, <1>3, SettledLonger, SilencedLonger DEF Sound

LEMMA CarriedLonger ==
  ASSUME NEW h \in Seq(Commit), NEW c \in Commit, Follows(h, c), NEW x \in Known(h)
  PROVE  Carried(RequestsOf(h, x), RequestsOf(Append(h, c), x))
<1>1. RequestsOf(h, x) \in Seq(Request)
  BY LastType
<1>2. Carried(RequestsOf(h, x), RequestsOf(h, x))
  BY <1>1, CarriedAlong
<1>3. CASE x = c.run
  BY <1>3, LastLonger DEF Follows
<1>4. CASE x # c.run
  BY <1>2, <1>4, LastLonger
<1> QED
  BY <1>3, <1>4

LEMMA ToldLonger ==
  ASSUME NEW h \in Seq(Commit), NEW c \in Commit, Follows(h, c), Told(h)
  PROVE  Told(Append(h, c))
<1> DEFINE g == Append(h, c)
<1> SUFFICES ASSUME NEW w \in wire
             PROVE  /\ w.run \in Known(g) /\ w.position \in DOMAIN RequestsOf(g, w.run)
                    /\ RequestsOf(g, w.run)[w.position].sent
  BY DEF Told
<1>1. /\ w.run \in Known(h) /\ w.position \in DOMAIN RequestsOf(h, w.run)
      /\ RequestsOf(h, w.run)[w.position].sent
  BY DEF Told
<1>2. w.run \in Known(g) /\ g \in Seq(Commit)
  BY <1>1, LastLonger, Longer
<1>3. RequestsOf(h, w.run) \in Seq(Request) /\ RequestsOf(g, w.run) \in Seq(Request)
  BY <1>1, <1>2, LastType
<1>4. Carried(RequestsOf(h, w.run), RequestsOf(g, w.run))
  BY <1>1, CarriedLonger
<1> HIDE DEF g
<1> QED
  BY <1>1, <1>2, <1>3, <1>4 DEF Carried

\* What a root knows is not touched by the commit of another.
LEMMA OthersKnow ==
  ASSUME NEW h \in Seq(Commit), NEW c \in Commit, Follows(h, c),
         NEW t \in Locals, Knowing(h, t)
  PROVE  Knowing(Append(h, c), t)
<1> DEFINE g == Append(h, c)
<1>1. t.head \in Nat /\ t.head <= Len(h) /\ t.requests \in Seq(Request)
  BY DEF Locals, Knowing
<1>2. SubSeq(g, 1, t.head) = SubSeq(h, 1, t.head)
  BY <1>1, PrefixStays
<1>3. Len(g) = Len(h) + 1 /\ Len(h) \in Nat /\ g \in Seq(Commit)
  BY Longer
<1>4. t.head <= Len(g) /\ t.head # Len(g)
  BY <1>1, <1>3
<1>5. ASSUME Live(t) PROVE Carried(t.requests, RequestsOf(g, t.run))
  <2>1. Carried(t.requests, RequestsOf(h, t.run))
    BY <1>5 DEF Knowing
  <2>2. t.run \in Known(h)
    BY <1>1, <1>5, KnownPrefix DEF Knowing, Live
  <2>3. t.run \in Known(g)
    BY <2>2, LastLonger
  <2>4. RequestsOf(h, t.run) \in Seq(Request) /\ RequestsOf(g, t.run) \in Seq(Request)
    BY <1>3, <2>2, <2>3, LastType
  <2> QED
    BY <1>1, <2>1, <2>2, <2>4, CarriedLonger, CarriedAlong
<1> HIDE DEF g
<1> QED
  BY <1>2, <1>4, <1>5 DEF Knowing, g

\* The root whose commit is accepted knows it.
LEMMA OwnKnows ==
  ASSUME NEW h, Sound(h), NEW c \in Commit, Follows(h, c),
         NEW t \in Locals, t.head = Len(h) + 1, t.run = c.run, t.requests = c.requests,
         Live(t) => c.stage # "REVOKED",
         Busy(t) => /\ t.requests # <<>> /\ t.requests[Len(t.requests)].status = "OPEN"
                    /\ t.pc # "preparing" => t.requests[Len(t.requests)].sent
                    /\ ~Revoking(h, ScopeOf[c.run])
  PROVE  Knowing(Append(h, c), t)
<1> DEFINE g == Append(h, c)
<1>1. h \in Seq(Commit)
  BY DEF Sound
<1>2. Len(g) = Len(h) + 1 /\ g \in Seq(Commit)
  BY <1>1, Longer
<1>3. SubSeq(g, 1, t.head) = g
  BY <1>2, WholePrefix
<1>4. /\ c.run \in Known(g) /\ c.run \in Run
      /\ LastOf(g, c.run) = c /\ RequestsOf(g, c.run) = t.requests
  BY <1>1, LastLonger DEF Commit
<1>5. t.requests \in Seq(Request)
  BY DEF Locals
<1>6. Carried(t.requests, t.requests)
  BY <1>5, CarriedAlong
<1>7. Fits(g, t.run, t.requests)
  <2>1. SettledButOne(g)
    BY SoundLonger DEF Sound
  <2> QED
    BY <1>4, <2>1, OwnFits
<1>8. ~Revoking(h, ScopeOf[c.run]) /\ c.stage # "REVOKED" => ~Revoking(g, ScopeOf[c.run])
  <2>1. \A i \in DOMAIN g : (i \in DOMAIN h /\ g[i] = h[i]) \/ g[i] = c
    BY <1>1, Longer
  <2> QED
    BY <2>1 DEF Revoking
<1>9. Busy(t) => Live(t)
  BY DEF Busy, Live
<1>10. t.head <= Len(g)
  BY <1>2, <1>1
<1> HIDE DEF g
<1> QED
  BY <1>3, <1>4, <1>6, <1>7, <1>8, <1>9, <1>10 DEF Knowing, g

\* A root that gives up knows what it knew.
LEMMA HaltedKnows ==
  ASSUME NEW h \in Seq(Commit), NEW t \in Locals, t.pc = "halted",
         t.head <= Len(h), t.run \in Run, t.run \in Known(SubSeq(h, 1, t.head)),
         t.head = Len(h) => Fits(h, t.run, t.requests) /\ Carried(RequestsOf(h, t.run), t.requests)
  PROVE  Knowing(h, t)
BY DEF Knowing, Live, Busy

\* A root changes and no request leaves.
LEMMA SoleStill ==
  ASSUME Sole, root \in [Root -> Locals], NEW p \in Root, NEW t \in Locals,
         root' = [root EXCEPT ![p] = t], wire' = wire,
         Busy(t) =>
           \/ /\ \A q \in Root : Busy(root[q]) /\ root[q].run = t.run =>
                                   Position(q) # Len(t.requests)
              /\ \A w \in wire : w.run = t.run => w.position # Len(t.requests)
           \/ /\ root[p].pc = "preparing" /\ root[p].run = t.run
              /\ Position(p) = Len(t.requests)
  PROVE  Sole'
<1>1. /\ root'[p] = t /\ \A q \in Root \ {p} : root'[q] = root[q]
  OBVIOUS
<1>2. ASSUME NEW q \in Root, q # p, Busy(t), Busy(root[q]), root[q].run = t.run
      PROVE  Len(root[q].requests) # Len(t.requests)
  BY <1>2 DEF Sole, Position, Busy
<1>3. ASSUME t.pc \in {"preparing", "sending"}, NEW w \in wire, w.run = t.run
      PROVE  w.position # Len(t.requests)
  BY <1>3 DEF Sole, Position, Busy
<1>4. \A q, r \in Root :
        /\ Busy(root'[q]) /\ Busy(root'[r]) /\ root'[q].run = root'[r].run
        /\ Len(root'[q].requests) = Len(root'[r].requests)
        => q = r
  <2> SUFFICES ASSUME NEW q \in Root, NEW r \in Root, q # r,
                      Busy(root'[q]), Busy(root'[r]), root'[q].run = root'[r].run,
                      Len(root'[q].requests) = Len(root'[r].requests)
               PROVE  FALSE
    OBVIOUS
  <2>1. CASE q = p
    BY <1>1, <1>2, <2>1
  <2>2. CASE r = p
    BY <1>1, <1>2, <2>2
  <2>3. CASE q # p /\ r # p
    BY <1>1, <2>3 DEF Sole, Position
  <2> QED
    BY <2>1, <2>2, <2>3
<1>5. \A q \in Root, w \in wire :
        root'[q].pc \in {"preparing", "sending"} /\ w.run = root'[q].run =>
          w.position # Len(root'[q].requests)
  <2> SUFFICES ASSUME NEW q \in Root, NEW w \in wire,
                      root'[q].pc \in {"preparing", "sending"}, w.run = root'[q].run
               PROVE  w.position # Len(root'[q].requests)
    OBVIOUS
  <2>1. CASE q = p
    BY <1>1, <1>3, <2>1
  <2>2. CASE q # p
    BY <1>1, <2>2 DEF Sole, Position
  <2> QED
    BY <2>1, <2>2
<1>6. \A v, w \in wire : v.run = w.run /\ v.position = w.position => v = w
  BY DEF Sole
<1> QED
  BY <1>4, <1>5, <1>6 DEF Sole, Position, Busy
-----------------------------------------------------------------------------
(* The steps.                                                              *)

LEMMA Counted ==
  ASSUME Bounds, NEW m \in {0, 1}, NEW n \in {0, 1}, Count(m, n),
         clock' = clock \/ clock' \in 0 .. MaxTime, wire' = wire
  PROVE  Bounds'
<1>1. used'.commits \in 0 .. MaxCommits /\ used'.incidents \in 0 .. MaxIncidents
  BY BoundAssumption DEF Bounds, Count
<1>2. used' = [commits |-> used'.commits, incidents |-> used'.incidents]
  BY DEF Count
<1> QED
  BY <1>1, <1>2 DEF Bounds

\* The root unmoved has the whole branch in view.
LEMMA Unmoved ==
  ASSUME IInv, NEW p \in Root, ~Moved(p)
  PROVE  View(p) = branch /\ SubSeq(branch, 1, root[p].head) = branch /\ root[p].head = Len(branch)
BY WholePrefix DEF IInv, Sound, Moved, View

LEMMA Altered ==
  ASSUME NEW t \in Locals, NEW pc \in RootState, NEW n \in Nat
  PROVE  /\ LET u == [t EXCEPT !.pc = pc] IN
              /\ u \in Locals /\ u.pc = pc /\ u.run = t.run
              /\ u.head = t.head /\ u.started = t.started /\ u.requests = t.requests
         /\ LET u == [t EXCEPT !.head = n] IN
              /\ u \in Locals /\ u.pc = t.pc /\ u.run = t.run
              /\ u.head = n /\ u.started = t.started /\ u.requests = t.requests
BY DEF Locals

\* A root persists the budget it has made, t.
LEMMA PersistInv ==
  ASSUME IInv, NEW p \in Root, NEW t \in Locals, NEW stage \in Stage, Persist(p, t, stage),
         UNCHANGED <<wire, clock>>,
         root[p].pc # "none", t.run = root[p].run, t.head = root[p].head,
         t.pc \in {"ready", "preparing", "sending", "halted"},
         ~Moved(p) =>
           /\ Follows(branch, Record(t, stage))
           /\ Carried(RequestsOf(branch, t.run), t.requests)
           /\ Live(t) => stage # "REVOKED"
           /\ Busy(t) =>
                /\ t.requests # <<>> /\ t.requests[Len(t.requests)].status = "OPEN"
                /\ t.pc # "preparing" => t.requests[Len(t.requests)].sent
                /\ ~Revoking(branch, ScopeOf[t.run])
                /\ \/ Len(t.requests) > Len(RequestsOf(branch, t.run))
                   \/ root[p].pc = "preparing" /\ Position(p) = Len(t.requests)
  PROVE  IInv'
<1> DEFINE c == Record(t, stage)
           halted == [t EXCEPT !.pc = "halted"]
           ahead == [t EXCEPT !.head = Len(branch) + 1]
<1>1. /\ Sound(branch) /\ branch \in Seq(Commit) /\ Len(branch) \in Nat
      /\ Told(branch) /\ Sole /\ Bounds /\ root \in [Root -> Locals]
      /\ \A q \in Root : Knowing(branch, root[q])
  BY DEF IInv, Sound
<1>2. /\ t.run \in Run /\ t.run \in Known(SubSeq(branch, 1, root[p].head)) /\ t.run \in Known(branch)
      /\ root[p].head \in Nat /\ root[p].head <= Len(branch)
  <2>1. /\ t.run \in Run /\ t.run \in Known(SubSeq(branch, 1, root[p].head))
        /\ root[p].head <= Len(branch)
    BY <1>1 DEF Knowing
  <2>2. root[p].head \in Nat
    BY <1>1 DEF Locals
  <2> QED
    BY <1>1, <2>1, <2>2, KnownPrefix
<1>3. c \in Commit /\ c.run = t.run /\ c.requests = t.requests /\ c.stage = stage
  BY <1>2 DEF Record, Commit, Locals
<1>4. /\ halted \in Locals /\ halted.pc = "halted" /\ halted.head = t.head /\ halted.run = t.run
      /\ halted.requests = t.requests
      /\ ahead \in Locals /\ ahead.head = Len(branch) + 1 /\ ahead.run = t.run
      /\ ahead.requests = t.requests /\ ahead.pc = t.pc
  <2>1. "halted" \in RootState
    BY DEF RootState
  <2>2. Len(branch) + 1 \in Nat
    BY <1>1
  <2> QED
    BY <2>1, <2>2, Altered
\* Whether or not the commit is made, a halted root knows what is so.
<1>5. ASSUME root' = [root EXCEPT ![p] = halted],
             branch' = branch \/ (~Moved(p) /\ branch' = Append(branch, c))
      PROVE  Sole' /\ root' \in [Root -> Locals] /\ Sound(branch') /\ Told(branch')
             /\ \A q \in Root : Knowing(branch', root'[q])
  <2>1. Sole' /\ root' \in [Root -> Locals]
    <3>1. ~Busy(halted)
      BY <1>4 DEF Busy
    <3> HIDE DEF halted
    <3> QED
      BY <1>1, <1>4, <1>5, <3>1, SoleStill
  <2>2. Knowing(branch, halted)
    <3>1. halted.head = Len(branch) =>
            Fits(branch, t.run, t.requests) /\ Carried(RequestsOf(branch, t.run), t.requests)
      BY <1>3, <1>4 DEF Moved, Follows
    <3> HIDE DEF halted
    <3> QED
      BY <1>1, <1>2, <1>4, <3>1, HaltedKnows
  <2>3. \A q \in Root : root'[q] \in Locals /\ Knowing(branch, root'[q])
    <3> HIDE DEF halted
    <3> QED
      BY <1>1, <1>4, <1>5, <2>2
  <2>4. CASE branch' = branch
    BY <1>1, <2>1, <2>3, <2>4
  <2>5. CASE ~Moved(p) /\ branch' = Append(branch, c)
    <3> HIDE DEF c, halted
    <3> QED
      BY <1>1, <1>3, <2>1, <2>3, <2>5, SoundLonger, ToldLonger, OthersKnow DEF c
  <2> QED
    BY <1>5, <2>4, <2>5
<1>6. ASSUME ~Moved(p), root' = [root EXCEPT ![p] = ahead], branch' = Append(branch, c)
      PROVE  Sole' /\ root' \in [Root -> Locals] /\ Sound(branch') /\ Told(branch')
             /\ \A q \in Root : Knowing(branch', root'[q])
  <2>0. Follows(branch, c)
    BY <1>6
  <2>1. Sound(branch') /\ Told(branch')
    <3> HIDE DEF c
    <3> QED
      BY <1>1, <1>3, <1>6, <2>0, SoundLonger, ToldLonger
  <2>2. Knowing(branch', ahead)
    <3>1. Live(ahead) => c.stage # "REVOKED"
      BY <1>3, <1>4, <1>6 DEF Live
    <3>2. Busy(ahead) =>
            /\ ahead.requests # <<>> /\ ahead.requests[Len(ahead.requests)].status = "OPEN"
            /\ ahead.pc # "preparing" => ahead.requests[Len(ahead.requests)].sent
            /\ ~Revoking(branch, ScopeOf[c.run])
      BY <1>3, <1>4, <1>6 DEF Busy
    <3> HIDE DEF c, ahead
    <3> QED
      BY <1>1, <1>3, <1>4, <1>6, <2>0, <3>1, <3>2, OwnKnows
  <2>3. \A q \in Root \ {p} : root'[q] = root[q] /\ Knowing(branch', root'[q])
    <3> HIDE DEF c, ahead
    <3> QED
      BY <1>1, <1>3, <1>6, <2>0, OthersKnow
  <2>4. Sole'
    <3> SUFFICES ASSUME Busy(t)
                 PROVE
           \/ /\ \A q \in Root : Busy(root[q]) /\ root[q].run = ahead.run =>
                                   Position(q) # Len(ahead.requests)
              /\ \A w \in wire : w.run = ahead.run => w.position # Len(ahead.requests)
           \/ /\ root[p].pc = "preparing" /\ root[p].run = ahead.run
              /\ Position(p) = Len(ahead.requests)
      <4>1. Busy(ahead) <=> Busy(t)
        BY <1>4 DEF Busy
      <4> HIDE DEF ahead
      <4> QED
        BY <1>1, <1>4, <1>6, <4>1, SoleStill
    <3>1. RequestsOf(branch, t.run) \in Seq(Request) /\ t.requests \in Seq(Request)
      BY <1>1, <1>2, LastType DEF Locals
    <3>2. CASE Len(t.requests) > Len(RequestsOf(branch, t.run))
      <4>1. \A q \in Root : Busy(root[q]) /\ root[q].run = t.run =>
              Len(root[q].requests) <= Len(RequestsOf(branch, t.run)) /\ Len(root[q].requests) \in Nat
        BY <1>1 DEF Knowing, Live, Busy, Carried, Locals
      <4>2. \A w \in wire : w.run = t.run =>
              w.position \in Nat /\ w.position <= Len(RequestsOf(branch, t.run))
        BY <1>1, <3>1 DEF Told
      <4>3. Len(t.requests) \in Nat /\ Len(RequestsOf(branch, t.run)) \in Nat
        BY <3>1
      <4> QED
        BY <1>4, <3>2, <4>1, <4>2, <4>3 DEF Position
    <3>3. CASE root[p].pc = "preparing" /\ Position(p) = Len(t.requests)
      BY <1>4, <3>3
    <3> QED
      BY <1>6, <3>2, <3>3
  <2>5. root' \in [Root -> Locals] /\ root'[p] = ahead
    <3> HIDE DEF ahead
    <3> QED
      BY <1>1, <1>4, <1>6
  <2> QED
    BY <2>1, <2>2, <2>3, <2>4, <2>5
<1>7. Bounds'
  <2>1. CASE UNCHANGED used
    BY <1>1, <2>1 DEF Bounds
  <2>2. CASE Count(1, 0) \/ Count(0, 1) \/ Count(1, 1)
    BY <1>1, <2>2, Counted
  <2> QED
    BY <2>1, <2>2 DEF Persist
<1>8. \/ root' = [root EXCEPT ![p] = halted] /\ (branch' = branch \/ (~Moved(p) /\ branch' = Append(branch, c)))
      \/ ~Moved(p) /\ root' = [root EXCEPT ![p] = ahead] /\ branch' = Append(branch, c)
  BY DEF Persist, Put
<1>9. wire' = wire
  OBVIOUS
<1> HIDE DEF c, halted, ahead
<1> QED
  BY <1>5, <1>6, <1>7, <1>8, <1>9 DEF IInv, Told

LEMMA RootKnows ==
  ASSUME IInv, NEW p \in Root
  PROVE  /\ root[p] \in Locals /\ Knowing(branch, root[p])
         /\ root[p].pc \in RootState /\ root[p].requests \in Seq(Request) /\ root[p].head \in Nat
         /\ branch \in Seq(Commit) /\ SettledButOne(branch) /\ Silenced(branch)
         /\ root \in [Root -> Locals] /\ clock \in Nat
BY DEF IInv, Sound, Locals, Bounds

\* What a root that has not been overtaken knows of the whole ledger.
LEMMA LiveKnows ==
  ASSUME IInv, NEW p \in Root, Live(root[p]), ~Moved(p)
  PROVE  LET t == root[p] IN
         /\ View(p) = branch
         /\ t.run \in Known(branch) /\ t.requests = RequestsOf(branch, t.run)
         /\ LastOf(branch, t.run).stage # "REVOKED"
         /\ Fits(branch, t.run, t.requests) /\ Carried(t.requests, t.requests)
         /\ Busy(t) => /\ t.requests # <<>> /\ t.requests[Len(t.requests)].status = "OPEN"
                       /\ t.pc # "preparing" => t.requests[Len(t.requests)].sent
                       /\ ~Revoking(branch, ScopeOf[t.run])
<1>1. SubSeq(branch, 1, root[p].head) = branch /\ View(p) = branch
  BY Unmoved
<1>2. Knowing(branch, root[p]) /\ branch \in Seq(Commit) /\ SettledButOne(branch)
  BY RootKnows
<1>3. root[p].requests \in Seq(Request) /\ root[p].pc # "none"
  BY RootKnows DEF Live
<1>4. Carried(root[p].requests, root[p].requests)
  BY <1>3, CarriedAlong
<1>5. /\ root[p].run \in Known(branch)
      /\ root[p].requests = RequestsOf(branch, root[p].run)
      /\ LastOf(branch, root[p].run).stage # "REVOKED"
  BY <1>1, <1>2, <1>3 DEF Knowing
<1>6. Fits(branch, root[p].run, root[p].requests)
  BY <1>2, <1>5, OwnFits
<1> QED
  BY <1>1, <1>2, <1>4, <1>5, <1>6 DEF Knowing

\* One more request than a settled budget has.
LEMMA OneMore ==
  ASSUME NEW q \in Seq(Request), Openings(q) = {}, NEW r \in Request
  PROVE  LET s == Append(q, r) IN
         /\ s \in Seq(Request) /\ s # <<>> /\ Len(s) = Len(q) + 1 /\ Len(q) \in Nat
         /\ s[Len(s)] = r
         /\ Openings(s) \subseteq {Len(s)}
         /\ Carried(q, s)
<1> DEFINE s == Append(q, r)
<1>1. /\ s \in Seq(Request) /\ Len(s) = Len(q) + 1 /\ Len(q) \in Nat
      /\ DOMAIN q = 1 .. Len(q) /\ DOMAIN s = 1 .. Len(q) + 1
      /\ \A i \in 1 .. Len(q) : s[i] = q[i]
      /\ s[Len(q) + 1] = r
  OBVIOUS
<1>2. s # <<>>
  BY <1>1
<1> HIDE DEF s
<1>3. Openings(s) \subseteq {Len(s)}
  <2> SUFFICES ASSUME NEW i \in 1 .. Len(q), s[i].status = "OPEN" PROVE FALSE
    BY <1>1 DEF Openings
  <2> QED
    BY <1>1 DEF Openings
<1>4. Carried(q, s)
  BY <1>1 DEF Carried
<1> QED
  BY <1>1, <1>2, <1>3, <1>4 DEF s

\* The open request of a budget is replaced by another.
LEMMA Replacement ==
  ASSUME NEW q \in Seq(Request), q # <<>>, q[Len(q)].status = "OPEN",
         NEW r \in Request, q[Len(q)].sent => r.sent
  PROVE  LET s == [q EXCEPT ![Len(q)] = r] IN
         /\ s \in Seq(Request) /\ s # <<>> /\ Len(s) = Len(q) /\ Len(q) \in Nat
         /\ s[Len(s)] = r
         /\ Openings(s) \subseteq Openings(q)
         /\ Carried(q, s)
<1> DEFINE s == [q EXCEPT ![Len(q)] = r]
<1>1. /\ s \in Seq(Request) /\ Len(s) = Len(q) /\ Len(q) \in Nat /\ Len(q) \in DOMAIN q
      /\ DOMAIN s = DOMAIN q /\ DOMAIN q = 1 .. Len(q)
      /\ s[Len(q)] = r /\ \A i \in DOMAIN q : i # Len(q) => s[i] = q[i]
  OBVIOUS
<1> HIDE DEF s
<1>2. s # <<>>
  BY <1>1
<1>3. Openings(s) \subseteq Openings(q)
  BY <1>1 DEF Openings
<1>4. Carried(q, s)
  BY <1>1 DEF Carried
<1> QED
  BY <1>1, <1>2, <1>3, <1>4 DEF s

LEMMA ReserveInv ==
  ASSUME IInv, NEW p \in Root, Reserve(p)
  PROVE  IInv'
<1>1. PICK o \in Organization, u \in Url :
        /\ MayReserve(p, o, u)
        /\ Persist(p, [root[p] EXCEPT
             !.pc = "preparing",
             !.requests = Append(@, [organization |-> o, url |-> u, at |-> clock, sent |-> FALSE,
                                     status |-> "OPEN", seen |-> clock])], "RESERVED")
  BY Zenon DEF Reserve
<1> DEFINE q == root[p].requests
           r == [organization |-> o, url |-> u, at |-> clock, sent |-> FALSE,
                 status |-> "OPEN", seen |-> clock]
           t == [root[p] EXCEPT !.pc = "preparing", !.requests = Append(@, r)]
           x == root[p].run
<1>2. root[p].pc = "ready" /\ UNCHANGED <<wire, clock>>
  BY DEF Reserve, At
<1>3. r \in Request /\ q \in Seq(Request) /\ root[p] \in Locals
  BY RootKnows DEF Request
<1>4. Append(q, r) \in Seq(Request)
  BY <1>3
<1>5. /\ t \in Locals /\ t.pc = "preparing" /\ t.run = x /\ t.head = root[p].head
      /\ t.requests = Append(q, r) /\ t.started = root[p].started
  <2> HIDE DEF r
  <2> QED
    BY <1>3, <1>4 DEF Locals, RootState
<1>6. Persist(p, t, "RESERVED")
  BY <1>1
<1>7. ASSUME ~Moved(p)
      PROVE  /\ Follows(branch, Record(t, "RESERVED"))
             /\ Carried(RequestsOf(branch, x), Append(q, r))
             /\ Append(q, r) # <<>> /\ Append(q, r)[Len(Append(q, r))].status = "OPEN"
             /\ ~Revoking(branch, ScopeOf[x])
             /\ Len(Append(q, r)) > Len(RequestsOf(branch, x))
  <2>1. /\ View(p) = branch /\ x \in Known(branch) /\ q = RequestsOf(branch, x)
    BY <1>2, <1>7, LiveKnows DEF Live
  <2>2. Unresolved(branch) = {} /\ ~RevokedScope(branch, ScopeOf[x])
    BY <1>1, <2>1 DEF MayReserve, Gate
  <2>3. ~Revoking(branch, ScopeOf[x])
    BY <2>2, RevokedFound, RootKnows
  <2>4. \A y \in Known(branch) : Openings(RequestsOf(branch, y)) = {}
    BY <2>2, FitsNothingOpen
  <2>5. Openings(q) = {}
    BY <2>1, <2>4
  <2>6. /\ Append(q, r) # <<>> /\ Len(Append(q, r)) = Len(q) + 1 /\ Len(q) \in Nat
        /\ Append(q, r)[Len(Append(q, r))] = r
        /\ Openings(Append(q, r)) \subseteq {Len(Append(q, r))}
        /\ Carried(q, Append(q, r))
    <3> HIDE DEF q, r
    <3> QED
      BY <1>3, <2>5, OneMore
  <2>7. Fits(branch, x, Append(q, r))
    <3> HIDE DEF q, r, x
    <3> QED
      BY <2>4, <2>6 DEF Fits
  <2>8. /\ Record(t, "RESERVED").run = x /\ Record(t, "RESERVED").requests = Append(q, r)
        /\ Record(t, "RESERVED").stage = "RESERVED"
    <3> HIDE DEF t, r, q
    <3> QED
      BY <1>5 DEF Record
  <2>9. Follows(branch, Record(t, "RESERVED"))
    <3> HIDE DEF t, q, r, x
    <3> QED
      BY <2>1, <2>3, <2>6, <2>7, <2>8 DEF Follows, MayRecord
  <2>10. r.status = "OPEN"
    OBVIOUS
  <2> HIDE DEF t, q, r, x
  <2> QED
    BY <2>1, <2>3, <2>6, <2>9, <2>10
<1>8. "RESERVED" \in Stage
  BY DEF Stage
<1> HIDE DEF t, q, r
<1> QED
  BY <1>2, <1>5, <1>6, <1>7, <1>8, PersistInv DEF Busy, Live

LEMMA DenyInv ==
  ASSUME IInv, NEW p \in Root, Deny(p)
  PROVE  IInv'
<1> DEFINE t == root[p]
           c == Record(t, "PRE_SEND_DENIED")
<1>1. t.pc = "ready" /\ UNCHANGED <<wire, clock>> /\ Persist(p, t, "PRE_SEND_DENIED")
  BY DEF Deny, At
<1>2. t \in Locals
  BY RootKnows
<1>3. ASSUME ~Moved(p)
      PROVE  Follows(branch, c) /\ Carried(RequestsOf(branch, t.run), t.requests)
  <2>1. /\ t.run \in Known(branch) /\ t.requests = RequestsOf(branch, t.run)
        /\ LastOf(branch, t.run).stage # "REVOKED"
        /\ Fits(branch, t.run, t.requests) /\ Carried(t.requests, t.requests)
    BY <1>1, <1>3, LiveKnows DEF Live
  <2>2. c.run = t.run /\ c.requests = t.requests /\ c.stage = "PRE_SEND_DENIED"
    BY DEF Record
  <2> HIDE DEF c, t
  <2> QED
    BY <2>1, <2>2 DEF Follows, MayRecord
<1>4. "PRE_SEND_DENIED" \in Stage
  BY DEF Stage
<1> HIDE DEF t
<1> QED
  BY <1>1, <1>2, <1>3, <1>4, PersistInv DEF Busy, Live, t

\* A busy root replaces its pending request, in a commit that is no revocation.
LEMMA ReplaceInv ==
  ASSUME IInv, NEW p \in Root, Busy(root[p]),
         NEW t \in Locals, NEW stage \in Stage, Persist(p, t, stage), stage # "REVOKED",
         UNCHANGED <<wire, clock>>,
         t.run = root[p].run, t.head = root[p].head, t.pc \in {"ready", "sending"},
         NEW r \in Request, Pending(p).sent => r.sent, t.requests = Changed(p, r),
         t.pc = "sending" => root[p].pc = "preparing" /\ r.status = "OPEN" /\ r.sent
  PROVE  IInv'
<1> DEFINE q == root[p].requests
           x == root[p].run
           s == [q EXCEPT ![Len(q)] = r]
           c == Record(t, stage)
<1>1. q \in Seq(Request) /\ Knowing(branch, root[p])
  BY RootKnows
<1>2. q # <<>> /\ q[Len(q)].status = "OPEN" /\ t.requests = s /\ (q[Len(q)].sent => r.sent)
  BY <1>1 DEF Knowing, Changed, Pending, Position
<1>3. /\ s # <<>> /\ Len(s) = Len(q) /\ s[Len(s)] = r
      /\ Openings(s) \subseteq Openings(q) /\ Carried(q, s)
  <2> HIDE DEF q
  <2> QED
    BY <1>1, <1>2, Replacement
<1>4. ASSUME ~Moved(p)
      PROVE  /\ Follows(branch, c) /\ Carried(RequestsOf(branch, x), s)
             /\ ~Revoking(branch, ScopeOf[x])
  <2>1. /\ q = RequestsOf(branch, x) /\ Fits(branch, x, q) /\ ~Revoking(branch, ScopeOf[x])
    BY <1>4, LiveKnows DEF Live, Busy
  <2>2. c.run = x /\ c.requests = s
    BY <1>2 DEF Record
  <2> HIDE DEF c, q, x, s
  <2> QED
    BY <1>3, <2>1, <2>2, FewerFits DEF Follows, MayRecord
<1>5. t.run = x /\ Position(p) = Len(q) /\ root[p].pc # "none"
  BY DEF Position, Busy
<1> HIDE DEF q, s, x, c
<1> QED
  BY <1>2, <1>3, <1>4, <1>5, PersistInv DEF Busy, Live, c, x

LEMMA EnterSendInv ==
  ASSUME IInv, NEW p \in Root, EnterSend(p)
  PROVE  IInv'
<1> DEFINE t == Entering(p)
           r == [Pending(p) EXCEPT !.sent = TRUE]
<1>1. /\ root[p].pc = "preparing" /\ UNCHANGED <<wire, clock>> /\ Persist(p, t, "SEND_ENTERED")
  BY DEF EnterSend, At
<1>2. /\ root[p] \in Locals /\ root[p].requests \in Seq(Request)
      /\ root[p].requests # <<>> /\ Pending(p).status = "OPEN"
  BY <1>1, RootKnows DEF Knowing, Busy, Pending, Position
<1>3. Pending(p) \in Request
  BY <1>2 DEF Pending, Position
<1>4. r \in Request /\ r.sent /\ r.status = "OPEN"
  BY <1>2, <1>3 DEF Request
<1>5. Changed(p, r) \in Seq(Request)
  <2> HIDE DEF r
  <2> QED
    BY <1>2, <1>4 DEF Changed, Position
<1>6. /\ t \in Locals /\ t.pc = "sending" /\ t.run = root[p].run /\ t.head = root[p].head
      /\ t.requests = Changed(p, r)
  BY <1>2, <1>5 DEF Locals, RootState, Entering
<1>7. "SEND_ENTERED" \in Stage /\ "SEND_ENTERED" # "REVOKED"
  BY DEF Stage
<1>8. Busy(root[p])
  BY <1>1 DEF Busy
<1> HIDE DEF t, r
<1> QED
  BY <1>1, <1>4, <1>6, <1>7, <1>8, ReplaceInv

LEMMA ObserveInv ==
  ASSUME IInv, NEW p \in Root, Busy(root[p]), NEW status \in Observed, Observe(p, status),
         UNCHANGED <<wire, clock>>
  PROVE  IInv'
<1> DEFINE r == [Pending(p) EXCEPT !.status = status, !.seen = clock]
           t == [root[p] EXCEPT !.pc = "ready", !.requests = Changed(p, r)]
<1>1. Persist(p, t, "OBSERVED")
  BY DEF Observe
<1>2. /\ root[p] \in Locals /\ root[p].requests \in Seq(Request)
      /\ root[p].requests # <<>> /\ clock \in Nat
  BY RootKnows DEF Knowing
<1>3. Pending(p) \in Request
  BY <1>2 DEF Pending, Position
<1>4. r \in Request /\ r.sent = Pending(p).sent
  BY <1>2, <1>3 DEF Request
<1>5. Changed(p, r) \in Seq(Request)
  <2> HIDE DEF r
  <2> QED
    BY <1>2, <1>4 DEF Changed, Position
<1>6. /\ t \in Locals /\ t.pc = "ready" /\ t.run = root[p].run /\ t.head = root[p].head
      /\ t.requests = Changed(p, r)
  <2> HIDE DEF r
  <2> QED
    BY <1>2, <1>5 DEF Locals, RootState
<1>7. "OBSERVED" \in Stage /\ "OBSERVED" # "REVOKED"
  BY DEF Stage
<1> HIDE DEF t, r
<1> QED
  BY <1>1, <1>4, <1>6, <1>7, ReplaceInv

LEMMA RefuseSendInv ==
  ASSUME IInv, NEW p \in Root, RefuseSend(p)
  PROVE  IInv'
BY ObserveInv DEF RefuseSend, At, Busy, Observed

LEMMA AnswerInv ==
  ASSUME IInv, NEW p \in Root, Answer(p)
  PROVE  IInv'
<1>1. PICK status \in Observed : Observe(p, status)
  BY DEF Answer
<1> QED
  BY <1>1, ObserveInv DEF Answer, At, Busy

\* A root that halts while it commits the budget it has.
LEMMA HaltInv ==
  ASSUME IInv, NEW p \in Root, NEW stage \in Stage,
         Persist(p, [root[p] EXCEPT !.pc = "halted"], stage), UNCHANGED <<wire, clock>>,
         root[p].pc # "none", stage = "REVOKED" \/ Busy(root[p])
  PROVE  IInv'
<1> DEFINE t == [root[p] EXCEPT !.pc = "halted"]
           c == Record(t, stage)
<1>1. "halted" \in RootState /\ 0 \in Nat /\ root[p] \in Locals
  BY RootKnows DEF RootState
<1>2. /\ t \in Locals /\ t.pc = "halted" /\ t.run = root[p].run /\ t.head = root[p].head
      /\ t.requests = root[p].requests
  BY <1>1, Altered
<1>3. ASSUME ~Moved(p)
      PROVE  Follows(branch, c) /\ Carried(RequestsOf(branch, t.run), t.requests)
  <2>1. /\ Fits(branch, t.run, t.requests) /\ Carried(RequestsOf(branch, t.run), t.requests)
    BY <1>2, <1>3, RootKnows, Unmoved DEF Knowing
  <2>2. stage = "REVOKED" \/ ~Revoking(branch, ScopeOf[t.run])
    BY <1>2, <1>3, LiveKnows DEF Live, Busy
  <2>3. c.run = t.run /\ c.requests = t.requests /\ c.stage = stage
    BY DEF Record
  <2> HIDE DEF c, t
  <2> QED
    BY <2>1, <2>2, <2>3 DEF Follows, MayRecord
<1>4. Persist(p, t, stage)
  OBVIOUS
<1> HIDE DEF t
<1> QED
  BY <1>2, <1>3, <1>4, PersistInv DEF Busy, Live

LEMMA OverrunInv ==
  ASSUME IInv, NEW p \in Root, Overrun(p)
  PROVE  IInv'
<1>1. "RESPONSE_BUDGET_EXCEEDED_UNRESOLVED" \in Stage
  BY DEF Stage
<1> QED
  BY <1>1, HaltInv DEF Overrun, At, Busy

LEMMA RevokeInv ==
  ASSUME IInv, NEW p \in Root, Revoke(p)
  PROVE  IInv'
<1>1. "REVOKED" \in Stage
  BY DEF Stage
<1> QED
  BY <1>1, HaltInv DEF Revoke

LEMMA CreateInv ==
  ASSUME IInv, NEW p \in Root, Create(p)
  PROVE  IInv'
<1>1. PICK x \in Run \ Known(branch) :
        LET t == [pc |-> "ready", run |-> x, head |-> Len(branch) + 1, started |-> clock,
                  requests |-> <<>>] IN
          /\ ~RevokedScope(branch, ScopeOf[x])
          /\ Put(t, "STARTED")
          /\ Count(1, 0)
          /\ root' = [root EXCEPT ![p] = t]
  BY DEF Create
<1> DEFINE t == [pc |-> "ready", run |-> x, head |-> Len(branch) + 1, started |-> clock,
                 requests |-> <<>>]
           c == Record(t, "STARTED")
<1>2. /\ UNCHANGED <<wire, clock>> /\ Unresolved(branch) = {} /\ ~RevokedScope(branch, ScopeOf[x])
      /\ branch' = Append(branch, c) /\ Count(1, 0) /\ root' = [root EXCEPT ![p] = t]
  BY <1>1 DEF Create, Put
<1>3. /\ branch \in Seq(Commit) /\ Sound(branch) /\ Told(branch) /\ Sole /\ Bounds
      /\ root \in [Root -> Locals] /\ clock \in Nat /\ Len(branch) \in Nat
      /\ \A q \in Root : Knowing(branch, root[q])
  BY RootKnows DEF IInv
<1>4. <<>> \in Seq(Request) /\ Openings(<<>>) = {}
  BY DEF Openings
<1>5. t \in Locals /\ c \in Commit /\ ~Busy(t)
  BY <1>3, <1>4 DEF Locals, RootState, Record, Commit, Stage, Busy
<1>6. c.run = x /\ c.requests = <<>> /\ c.stage = "STARTED"
  BY DEF Record
<1>7. Follows(branch, c)
  <2>1. ~Revoking(branch, ScopeOf[x])
    BY <1>2, RevokedFound, RootKnows
  <2> HIDE DEF c
  <2> QED
    BY <1>4, <1>6, <2>1 DEF Follows, Fits, MayRecord
<1>8. t.head = Len(branch) + 1 /\ t.run = c.run /\ t.requests = c.requests
  BY DEF Record
<1> HIDE DEF t, c
<1>9. Sound(branch') /\ Told(branch')
  BY <1>2, <1>3, <1>5, <1>7, SoundLonger, ToldLonger
<1>10. Knowing(branch', t)
  BY <1>2, <1>3, <1>5, <1>6, <1>7, <1>8, OwnKnows
<1>11. root' \in [Root -> Locals] /\ \A q \in Root : Knowing(branch', root'[q])
  BY <1>2, <1>3, <1>5, <1>7, <1>10, OthersKnow
<1>12. Sole'
  BY <1>2, <1>3, <1>5, SoleStill
<1>13. Bounds'
  BY <1>2, <1>3, Counted
<1> QED
  BY <1>2, <1>9, <1>11, <1>12, <1>13 DEF IInv, Told

LEMMA RestoreInv ==
  ASSUME IInv, NEW p \in Root, Restore(p)
  PROVE  IInv'
<1>1. PICK x \in Known(branch) : root' = [root EXCEPT ![p] = Restored(x, RequestsOf(branch, x))]
  BY DEF Restore
<1>2. UNCHANGED <<branch, wire, clock, used>>
  BY DEF Restore
<1> DEFINE t == Restored(x, RequestsOf(branch, x))
<1>3. /\ branch \in Seq(Commit) /\ Sound(branch) /\ Told(branch) /\ Sole /\ Bounds
      /\ root \in [Root -> Locals] /\ Len(branch) \in Nat /\ SettledButOne(branch)
      /\ \A q \in Root : Knowing(branch, root[q])
  BY RootKnows DEF IInv
<1>4. x \in Run /\ RequestsOf(branch, x) \in Seq(Request) /\ LastOf(branch, x) \in Commit
  BY <1>3, LastType
<1>5. /\ t \in Locals /\ t.pc \in {"ready", "halted"} /\ t.run = x /\ t.head = Len(branch)
      /\ t.requests = RequestsOf(branch, x)
      /\ t.pc = "ready" => LastOf(branch, x).stage # "REVOKED"
  BY <1>3, <1>4 DEF Restored, Locals, RootState, Commit
<1> HIDE DEF t
<1>6. ~Busy(t)
  BY <1>5 DEF Busy
<1>7. SubSeq(branch, 1, t.head) = branch
  BY <1>3, <1>5, WholePrefix
<1>8. Knowing(branch, t)
  <2>1. Fits(branch, x, RequestsOf(branch, x))
    BY <1>3, OwnFits
  <2>2. Carried(RequestsOf(branch, x), RequestsOf(branch, x))
    BY <1>4, CarriedAlong
  <2>3. t.head <= Len(branch) /\ (Live(t) => t.pc = "ready")
    BY <1>3, <1>5 DEF Live
  <2>4. LastOf(SubSeq(branch, 1, t.head), t.run) = LastOf(branch, x)
        /\ RequestsOf(SubSeq(branch, 1, t.head), t.run) = t.requests
        /\ t.run \in Known(SubSeq(branch, 1, t.head)) /\ t.run \in Run
    BY <1>4, <1>5, <1>7
  <2>5. /\ Fits(branch, t.run, t.requests) /\ Carried(RequestsOf(branch, t.run), t.requests)
        /\ Carried(t.requests, RequestsOf(branch, t.run))
    BY <1>5, <2>1, <2>2
  <2> QED
    BY <1>5, <1>6, <2>3, <2>4, <2>5 DEF Knowing
<1>9. root' = [root EXCEPT ![p] = t]
  BY <1>1 DEF t
<1>10. root' \in [Root -> Locals] /\ \A q \in Root : Knowing(branch, root'[q])
  BY <1>3, <1>5, <1>8, <1>9
<1>11. Sole'
  BY <1>2, <1>3, <1>5, <1>6, <1>9, SoleStill
<1> QED
  BY <1>2, <1>3, <1>10, <1>11 DEF IInv, Told, Bounds

LEMMA SendInv ==
  ASSUME IInv, NEW p \in Root, Send(p)
  PROVE  IInv'
<1> DEFINE w == [run |-> root[p].run, position |-> Position(p), at |-> clock, by |-> p]
           t == [root[p] EXCEPT !.pc = "waiting"]
<1>1. /\ root[p].pc = "sending" /\ wire' = wire \cup {w} /\ root' = [root EXCEPT ![p] = t]
      /\ UNCHANGED <<branch, clock, used>>
  BY DEF Send, At
<1>2. /\ branch \in Seq(Commit) /\ Sound(branch) /\ Told(branch) /\ Sole /\ Bounds
      /\ root \in [Root -> Locals] /\ root[p] \in Locals
      /\ \A q \in Root : Knowing(branch, root[q])
  BY RootKnows DEF IInv
<1>3. "waiting" \in RootState /\ 0 \in Nat
  BY DEF RootState
<1>4. /\ t \in Locals /\ t.pc = "waiting" /\ t.run = root[p].run /\ t.head = root[p].head
      /\ t.requests = root[p].requests
  BY <1>2, <1>3, Altered
<1>5. /\ w.run = root[p].run /\ w.position = Len(root[p].requests)
      /\ w \in [run : Run, position : Nat, at : 0 .. MaxTime, by : Root]
  BY <1>1, <1>2 DEF Position, Bounds, Knowing, Locals
<1> HIDE DEF t, w
<1>6. Knowing(branch, t)
  BY <1>1, <1>2, <1>4 DEF Knowing, Live, Busy
<1>7. root' \in [Root -> Locals] /\ \A q \in Root : Knowing(branch, root'[q])
  BY <1>1, <1>2, <1>4, <1>6
<1>8. \A v \in wire' : /\ v.run \in Known(branch) /\ v.position \in DOMAIN RequestsOf(branch, v.run)
                       /\ RequestsOf(branch, v.run)[v.position].sent
  <2>1. /\ root[p].requests # <<>> /\ root[p].requests[Len(root[p].requests)].sent
        /\ Carried(root[p].requests, RequestsOf(branch, root[p].run))
        /\ root[p].run \in Known(SubSeq(branch, 1, root[p].head))
        /\ root[p].head <= Len(branch)
    BY <1>1, <1>2 DEF Knowing, Live, Busy
  <2>2. root[p].requests \in Seq(Request) /\ root[p].head \in Nat
    BY RootKnows
  <2>3. root[p].run \in Known(branch)
    BY <1>2, <2>1, <2>2, KnownPrefix
  <2>4. RequestsOf(branch, root[p].run) \in Seq(Request)
    BY <1>2, <2>3, LastType
  <2>5. /\ Len(root[p].requests) \in DOMAIN root[p].requests
        /\ Len(root[p].requests) \in DOMAIN RequestsOf(branch, root[p].run)
    BY <2>1, <2>2, <2>4 DEF Carried
  <2> QED
    BY <1>1, <1>2, <1>5, <2>1, <2>3, <2>5 DEF Told, Carried
<1>9. Sole'
  <2>1. /\ root'[p] = t /\ \A q \in Root \ {p} : root'[q] = root[q]
    BY <1>1, <1>2
  <2>2. \A q \in Root : /\ Busy(root'[q]) = Busy(root[q]) /\ root'[q].run = root[q].run
                        /\ root'[q].requests = root[q].requests
                        /\ root'[q].pc \in {"preparing", "sending"} =>
                             q # p /\ root[q].pc \in {"preparing", "sending"}
    BY <1>1, <1>4, <2>1 DEF Busy
  <2>3. \A q, r \in Root :
          /\ Busy(root'[q]) /\ Busy(root'[r]) /\ root'[q].run = root'[r].run
          /\ Len(root'[q].requests) = Len(root'[r].requests)
          => q = r
    BY <1>2, <2>2 DEF Sole, Position
  <2>4. \A q \in Root, v \in wire' :
          root'[q].pc \in {"preparing", "sending"} /\ v.run = root'[q].run =>
            v.position # Len(root'[q].requests)
    BY <1>1, <1>2, <1>5, <2>2 DEF Sole, Position, Busy
  <2>5. \A u, v \in wire' : u.run = v.run /\ u.position = v.position => u = v
    BY <1>1, <1>2, <1>5 DEF Sole, Position
  <2> QED
    BY <2>3, <2>4, <2>5 DEF Sole, Position, Busy
<1> QED
  BY <1>1, <1>2, <1>5, <1>7, <1>8, <1>9 DEF IInv, Told, Bounds

LEMMA CrashInv ==
  ASSUME IInv, NEW p \in Root, Crash(p)
  PROVE  IInv'
<1>1. /\ Count(0, 1) /\ root' = [root EXCEPT ![p] = NoRoot] /\ UNCHANGED <<branch, wire, clock>>
  BY DEF Crash
<1>2. /\ branch \in Seq(Commit) /\ Sound(branch) /\ Told(branch) /\ Sole /\ Bounds
      /\ root \in [Root -> Locals] /\ Len(branch) \in Nat
      /\ \A q \in Root : Knowing(branch, root[q])
  BY RootKnows DEF IInv
<1>3. NoRoot \in Locals /\ ~Busy(NoRoot) /\ Knowing(branch, NoRoot)
  <2>1. /\ NoRoot.pc = "none" /\ NoRoot.head = 0 /\ NoRoot.run = NoRun /\ NoRoot.started = 0
        /\ NoRoot.requests = <<>> /\ NoRoot \in Locals
    BY DEF NoRoot, Locals, RootState
  <2> QED
    BY <1>2, <2>1 DEF Knowing, Live, Busy
<1>4. root' \in [Root -> Locals] /\ \A q \in Root : Knowing(branch, root'[q])
  BY <1>1, <1>2, <1>3
<1>5. Sole'
  BY <1>1, <1>2, <1>3, SoleStill
<1>6. Bounds'
  BY <1>1, <1>2, Counted
<1> QED
  BY <1>1, <1>2, <1>4, <1>5, <1>6 DEF IInv, Told

LEMMA TickInv ==
  ASSUME IInv, Tick
  PROVE  IInv'
<1>1. clock' \in 0 .. MaxTime
  BY BoundAssumption DEF IInv, Bounds, Tick
<1> QED
  BY <1>1 DEF IInv, Bounds, Tick, Told, Sole, Position

LEMMA StutterInv ==
  ASSUME IInv, UNCHANGED vars
  PROVE  IInv'
BY DEF IInv, Bounds, Told, Sole, Position, vars

LEMMA InitInv ==
  ASSUME Init
  PROVE  IInv
<1>1. PICK past \in Pasts : branch = past.branch /\ clock = past.clock
  BY DEF Init
<1>2. Sound(branch) /\ clock \in 0 .. MaxTime
  BY <1>1, PastsAssumption DEF Sound
<1>3. /\ NoRoot.pc = "none" /\ NoRoot.head = 0 /\ NoRoot.run = NoRun
      /\ NoRoot.requests = <<>> /\ NoRoot \in Locals
  BY DEF NoRoot, Locals, RootState
<1>4. ~Busy(NoRoot) /\ Knowing(branch, NoRoot)
  <2>1. Len(branch) \in Nat
    BY <1>2 DEF Sound
  <2> QED
    BY <1>3, <2>1 DEF Knowing, Live, Busy
<1>5. root \in [Root -> Locals] /\ \A p \in Root : root[p] = NoRoot
  BY <1>3 DEF Init
<1>6. Bounds /\ Told(branch) /\ Sole
  BY <1>2, <1>3, <1>4, <1>5, BoundAssumption DEF Init, Bounds, Told, Sole
<1> QED
  BY <1>2, <1>4, <1>5, <1>6 DEF IInv

THEOREM Invariant == Spec => []IInv
<1>1. Init => IInv
  BY InitInv
<1>2. IInv /\ [Next]_vars => IInv'
  <2> SUFFICES ASSUME IInv, [Next]_vars PROVE IInv'
    OBVIOUS
  <2>1. ASSUME NEW p \in Root, Step(p) PROVE IInv'
    <3>1. CASE Create(p)
      BY <3>1, CreateInv
    <3>2. CASE Restore(p)
      BY <3>2, RestoreInv
    <3>3. CASE Reserve(p)
      BY <3>3, ReserveInv
    <3>4. CASE Deny(p)
      BY <3>4, DenyInv
    <3>5. CASE EnterSend(p)
      BY <3>5, EnterSendInv
    <3>6. CASE RefuseSend(p)
      BY <3>6, RefuseSendInv
    <3>7. CASE Send(p)
      BY <3>7, SendInv
    <3>8. CASE Answer(p)
      BY <3>8, AnswerInv
    <3>9. CASE Overrun(p)
      BY <3>9, OverrunInv
    <3>10. CASE Revoke(p)
      BY <3>10, RevokeInv
    <3>11. CASE Crash(p)
      BY <3>11, CrashInv
    <3> QED
      BY <2>1, <3>1, <3>2, <3>3, <3>4, <3>5, <3>6, <3>7, <3>8, <3>9, <3>10, <3>11 DEF Step
  <2>2. CASE Tick
    BY <2>2, TickInv
  <2>3. CASE UNCHANGED vars
    BY <2>3, StutterInv
  <2> QED
    BY <2>1, <2>2, <2>3 DEF Next
<1> QED
  BY <1>1, <1>2, PTL DEF Spec

-----------------------------------------------------------------------------
(* What follows.                                                           *)

\* Every variable has its type, and the budget of every root at work is the last
\* its run has in what the root knows of the ledger.
THEOREM Types == Spec => []TypeOK
<1>1. IInv => TypeOK
  <2> SUFFICES ASSUME IInv PROVE TypeOK
    OBVIOUS
  <2>1. branch \in Seq(Commit) /\ Bounds
    BY RootKnows DEF IInv, Sound
  <2>2. ASSUME NEW p \in Root
        PROVE  /\ root[p].pc \in RootState
               /\ root[p].head \in 0 .. Len(branch)
               /\ ~At(p, "none") => root[p].run \in Run
               /\ root[p].pc \notin {"none", "halted"} =>
                    root[p].requests = RequestsOf(View(p), root[p].run)
    <3>1. /\ root[p] \in Locals /\ Knowing(branch, root[p]) /\ root[p].pc \in RootState
          /\ root[p].head \in Nat
      BY RootKnows
    <3>2. root[p].pc \notin {"none", "halted"} => Live(root[p])
      BY <3>1 DEF RootState, Live
    <3> QED
      BY <2>1, <3>1, <3>2 DEF Knowing, At, View
  <2> QED
    BY <2>1, <2>2 DEF TypeOK, Bounds
<1> QED
  BY <1>1, Invariant, PTL

\* At most one reservation is unresolved, whatever roots work on the ledger.
THEOREM OneAtATime == Spec => []OneUnresolved
<1>1. IInv => OneUnresolved
  <2> SUFFICES ASSUME IInv PROVE OneUnresolved
    OBVIOUS
  <2>1. \A e, f \in Unresolved(branch) : e = f
    BY DEF IInv, Sound, SettledButOne
  <2>2. CASE Unresolved(branch) = {}
    BY <2>2, FS_EmptySet DEF OneUnresolved
  <2>3. CASE Unresolved(branch) # {}
    <3>1. PICK e \in Unresolved(branch) : TRUE
      BY <2>3
    <3>2. Unresolved(branch) = {e}
      BY <2>1
    <3> QED
      BY <3>2, FS_Singleton DEF OneUnresolved
  <2> QED
    BY <2>2, <2>3
<1> QED
  BY <1>1, Invariant, PTL

\* A request leaves once, and only after the ledger says so.
THEOREM SendsOnce == Spec => []SentOnce
<1>1. IInv => SentOnce
  BY DEF IInv, Told, Sole, SentOnce
<1> QED
  BY <1>1, Invariant, PTL

\* After the revocation of its scope a run has no more to record than refusals.
THEOREM Silence == Spec => []RevokedSilent
<1>1. IInv => RevokedSilent
  BY DEF IInv, Sound, RevokedSilent
<1> QED
  BY <1>1, Invariant, PTL
-----------------------------------------------------------------------------
(* Rows of failures.  What the ledger says of two requests depends on the  *)
(* requests themselves and on the order in which their runs began, and     *)
(* neither changes.  So a row of failures that ended before a request was  *)
(* reserved is counted alike ever after.                                   *)

\* Budget entries r and s tell the same but for whether they were sent.
Like(r, s) ==
  /\ r.organization = s.organization /\ r.url = s.url /\ r.at = s.at
  /\ r.status = s.status /\ r.seen = s.seen

\* The runs of h began in g when they did in h.
Continues(h, g) ==
  /\ h \in Seq(Commit) /\ g \in Seq(Commit) /\ Known(h) \subseteq Known(g)
  /\ \A x \in Known(h) : FirstOf(g, x) = FirstOf(h, x)

LEMMA EntriesAre ==
  ASSUME NEW h
  PROVE  /\ \A e : e \in Entries(h) <=>
              \E x \in Known(h) : \E i \in DOMAIN RequestsOf(h, x) : e = <<x, i>>
         /\ \A x, i : Entry(h, <<x, i>>) = RequestsOf(h, x)[i]
         /\ \A e \in Entries(h) : e[1] \in Known(h)
BY DEF Entries, Entry

LEMMA EntryType ==
  ASSUME NEW h \in Seq(Commit), NEW e \in Entries(h)
  PROVE  Entry(h, e) \in Request
<1>1. PICK x \in Known(h) : \E i \in DOMAIN RequestsOf(h, x) : e = <<x, i>>
  BY EntriesAre
<1>2. RequestsOf(h, x) \in Seq(Request)
  BY LastType
<1> QED
  BY <1>1, <1>2, EntriesAre

\* A finite set has an image that is finite.
LEMMA FiniteImage ==
  ASSUME NEW S, NEW f, IsFiniteSet(S)
  PROVE  IsFiniteSet({f[i] : i \in S})
<1> DEFINE T == {f[i] : i \in S}
           g == [i \in S |-> f[i]]
<1>1. g \in Surjection(S, T)
  BY DEF Surjection
<1> QED
  BY <1>1, FS_Surjection

LEMMA EntriesFinite ==
  ASSUME NEW h \in Seq(Commit)
  PROVE  IsFiniteSet(Entries(h))
<1>1. IsFiniteSet(Known(h))
  <2> DEFINE f == [i \in 1 .. Len(h) |-> h[i].run]
  <2>1. IsFiniteSet(1 .. Len(h)) /\ DOMAIN h = 1 .. Len(h)
    BY FS_Interval
  <2>2. IsFiniteSet({f[i] : i \in 1 .. Len(h)})
    <3> HIDE DEF f
    <3> QED
      BY <2>1, FiniteImage
  <2>3. Known(h) = {f[i] : i \in 1 .. Len(h)}
    BY <2>1 DEF Known
  <2> QED
    BY <2>2, <2>3
<1>2. ASSUME NEW x \in Known(h) PROVE IsFiniteSet({<<x, i>> : i \in DOMAIN RequestsOf(h, x)})
  <2> DEFINE D == DOMAIN RequestsOf(h, x)
             f == [i \in D |-> <<x, i>>]
  <2>1. RequestsOf(h, x) \in Seq(Request)
    BY LastType
  <2>2. D = 1 .. Len(RequestsOf(h, x)) /\ Len(RequestsOf(h, x)) \in Nat
    BY <2>1
  <2>3. IsFiniteSet(D)
    BY <2>2, FS_Interval
  <2>4. IsFiniteSet({f[i] : i \in D})
    <3> HIDE DEF f, D
    <3> QED
      BY <2>3, FiniteImage
  <2>5. {<<x, i>> : i \in D} = {f[i] : i \in D}
    <3> HIDE DEF D
    <3> QED
      OBVIOUS
  <2> QED
    BY <2>4, <2>5
<1> DEFINE F == [x \in Known(h) |-> {<<x, i>> : i \in DOMAIN RequestsOf(h, x)}]
<1>3. IsFiniteSet({F[x] : x \in Known(h)})
  <2> HIDE DEF F
  <2> QED
    BY <1>1, FiniteImage
<1>4. \A T \in {F[x] : x \in Known(h)} : IsFiniteSet(T)
  BY <1>2
<1>5. Entries(h) = UNION {F[x] : x \in Known(h)}
  BY DEF Entries
<1> HIDE DEF F
<1> QED
  BY <1>3, <1>4, <1>5, FS_UNION

LEMMA RowIsNat ==
  ASSUME NEW h \in Seq(Commit), NEW A, A \subseteq Entries(h), NEW order, NEW e
  PROVE  InARow(h, A, order, e) \in Nat
<1> DEFINE R == {d \in A : /\ <<d, e>> \in order
                           /\ \A g \in A : <<d, g>> \in order /\ <<g, e>> \in order =>
                                Entry(h, g).status = "NETWORK_FAILURE"}
<1>1. IsFiniteSet(R)
  <2>1. R \subseteq Entries(h)
    OBVIOUS
  <2> HIDE DEF R
  <2> QED
    BY <2>1, EntriesFinite, FS_Subset
<1>2. Cardinality(R) \in Nat
  <2> HIDE DEF R
  <2> QED
    BY <1>1, FS_CardinalityType
<1> QED
  BY <1>2 DEF InARow

\* The interval after n failures is that of the table, a day at least.
LEMMA Intervals ==
  ASSUME NEW n \in Nat
  PROVE  /\ IntervalAfter(n) \in Nat /\ IntervalAfter(n) >= Day
         /\ n > 0 => IntervalAfter(n) = Rest[IF n < 4 THEN n ELSE 4]
<1>1. Day \in Nat /\ Day > 0 /\ Cooldown \in Nat /\ Cooldown >= Day
  BY BudgetAssumption
<1>2. n = 0 \/ n = 1 \/ n = 2 \/ n = 3 \/ n >= 4
  OBVIOUS
<1>3. 2 ^ 0 = 1 /\ 2 ^ 1 = 2 /\ 2 ^ 2 = 4
  BY Z3
<1>4. CASE n = 0
  BY <1>1, <1>4 DEF IntervalAfter
<1>5. CASE n = 1
  <2>1. n - 1 = 0
    BY <1>5
  <2>2. IntervalAfter(n) = 2 ^ 0 * Day
    BY <1>5, <2>1 DEF IntervalAfter, Doubled
  <2> QED
    BY <1>1, <1>3, <1>5, <2>2 DEF Rest
<1>6. CASE n = 2
  <2>1. n - 1 = 1
    BY <1>6
  <2>2. IntervalAfter(n) = 2 ^ 1 * Day
    BY <1>6, <2>1 DEF IntervalAfter, Doubled
  <2> QED
    BY <1>1, <1>3, <1>6, <2>2 DEF Rest
<1>7. CASE n = 3
  <2>1. n - 1 = 2
    BY <1>7
  <2>2. IntervalAfter(n) = 2 ^ 2 * Day
    BY <1>7, <2>1 DEF IntervalAfter, Doubled
  <2> QED
    BY <1>1, <1>3, <1>7, <2>2 DEF Rest
<1>8. CASE n >= 4
  BY <1>1, <1>8 DEF IntervalAfter, Doubled, Rest
<1> QED
  BY <1>2, <1>4, <1>5, <1>6, <1>7, <1>8

\* A run's first commit is its first when the ledger is longer, too.
LEMMA FirstLonger ==
  ASSUME NEW h \in Seq(Commit), NEW c \in Commit
  PROVE  Continues(h, Append(h, c))
<1> DEFINE g == Append(h, c)
           n == Len(h)
<1>1. /\ n \in Nat /\ DOMAIN h = 1 .. n /\ DOMAIN g = 1 .. n + 1
      /\ \A i \in 1 .. n : g[i] = h[i]
      /\ g \in Seq(Commit)
  BY Longer
<1>2. Known(h) \subseteq Known(g)
  BY LastLonger
<1> HIDE DEF g
<1>3. ASSUME NEW x \in Known(h) PROVE FirstOf(g, x) = FirstOf(h, x)
  <2> DEFINE T == {n + 1 - i : i \in {j \in 1 .. n : h[j].run = x}}
             P(k, i) == k[i].run = x /\ \A j \in 1 .. i - 1 : k[j].run # x
  <2>1. T \subseteq 1 .. n /\ T # {}
    BY <1>1 DEF Known
  <2>2. PICK m \in T : \A j \in T : j <= m
    <3> HIDE DEF T
    <3> QED
      BY <1>1, <2>1, LastPosition
  <2>3. PICK k \in 1 .. n : h[k].run = x /\ m = n + 1 - k
    BY <2>2
  <2>4. \A j \in 1 .. n : h[j].run = x => j >= k
    <3> TAKE j \in 1 .. n
    <3> HAVE h[j].run = x
    <3>1. n + 1 - j \in T
      OBVIOUS
    <3>2. n + 1 - j <= m
      BY <2>2, <3>1
    <3> QED
      BY <1>1, <2>3, <3>2
  <2>5. P(h, k) /\ P(g, k)
    <3>1. \A j \in 1 .. k - 1 : j \in 1 .. n /\ ~(j >= k)
      BY <1>1
    <3> QED
      BY <1>1, <2>3, <2>4, <3>1
  <2>6. \A i \in 1 .. n : P(h, i) => i = k
    <3> TAKE i \in 1 .. n
    <3> HAVE P(h, i)
    <3>1. i >= k
      BY <2>4
    <3>2. ~(k \in 1 .. i - 1)
      BY <2>3
    <3> QED
      BY <1>1, <3>1, <3>2
  <2>7. \A i \in 1 .. n + 1 : P(g, i) => i = k
    <3> TAKE i \in 1 .. n + 1
    <3> HAVE P(g, i)
    <3>1. ~(k \in 1 .. i - 1)
      BY <2>3, <1>1
    <3>2. ~(i \in 1 .. k - 1)
      BY <2>5
    <3> QED
      BY <1>1, <3>1, <3>2
  <2>8. (CHOOSE i \in DOMAIN h : P(h, i)) = k
    <3> HIDE DEF P
    <3> QED
      BY <1>1, <2>5, <2>6
  <2>9. (CHOOSE i \in DOMAIN g : P(g, i)) = k
    <3>1. k \in 1 .. n + 1
      BY <1>1
    <3> HIDE DEF P
    <3> QED
      BY <1>1, <2>5, <2>7, <3>1
  <2> QED
    BY <2>8, <2>9 DEF FirstOf
<1> QED
  BY <1>1, <1>2, <1>3 DEF Continues, g

\* Two requests that are observed when they were are in the order they were in.
LEMMA OrderKept ==
  ASSUME NEW h, NEW g, Continues(h, g),
         NEW d \in Entries(h), NEW e \in Entries(h), d \in Entries(g), e \in Entries(g),
         Entry(g, d).seen = Entry(h, d).seen, Entry(g, e).seen = Entry(h, e).seen
  PROVE  <<d, e>> \in TimeOrder(g) <=> <<d, e>> \in TimeOrder(h)
<1>1. FirstOf(g, d[1]) = FirstOf(h, d[1]) /\ FirstOf(g, e[1]) = FirstOf(h, e[1])
  BY EntriesAre DEF Continues
<1>2. <<d, e>> \in LedgerOrder(g) <=> <<d, e>> \in LedgerOrder(h)
  BY <1>1 DEF LedgerOrder
<1> QED
  BY <1>2 DEF TimeOrder

\* A row that ends with e is the same among B in g as among A in h, if those that B
\* has in addition come after e.
LEMMA RowKept ==
  ASSUME NEW h, NEW g, Continues(h, g), NEW A, NEW B,
         A \subseteq B, A \subseteq Entries(h), B \subseteq Entries(g), NEW e \in A,
         \A d \in A : Entry(g, d).seen = Entry(h, d).seen /\ Entry(g, d).status = Entry(h, d).status,
         \A d \in B \ A : <<d, e>> \notin TimeOrder(g)
  PROVE  InARow(g, B, TimeOrder(g), e) = InARow(h, A, TimeOrder(h), e)
<1>1. \A d, f \in A : <<d, f>> \in TimeOrder(g) <=> <<d, f>> \in TimeOrder(h)
  BY OrderKept
<1> DEFINE R(k, S, d) == /\ <<d, e>> \in TimeOrder(k)
                         /\ \A f \in S : <<d, f>> \in TimeOrder(k) /\ <<f, e>> \in TimeOrder(k) =>
                              Entry(k, f).status = "NETWORK_FAILURE"
<1>2. {d \in B : R(g, B, d)} = {d \in A : R(h, A, d)}
  BY <1>1
<1> QED
  BY <1>2 DEF InARow
-----------------------------------------------------------------------------
(* What one commit does to the requests of a ledger: nothing, one more, or *)
(* the observation of the one that was open.                               *)

\* The open request r may have become s.
Settles(r, s) ==
  /\ r.status = "OPEN"
  /\ s.organization = r.organization /\ s.url = r.url /\ s.at = r.at
  /\ s.status = "OPEN" => s.seen = r.seen

\* Budget q is that of run x on h, or what its root made of it by the time t.
Extends(h, x, q, t) ==
  LET o == RequestsOf(h, x)
      last == q[Len(q)] IN
  \/ q = o
  \/ /\ q # <<>> /\ \A i \in 1 .. Len(q) - 1 : q[i] = o[i]
     /\ last.at <= last.seen /\ last.seen <= t
     /\ \/ /\ Len(q) = Len(o) + 1 /\ Len(q) <= MaxRequests
           /\ last.status = "OPEN"
           /\ Unresolved(h) = {}
           /\ AllRested(h, x, last.organization, last.url, last.at)
        \/ /\ Len(q) = Len(o)
           /\ Settles(o[Len(o)], last)

Same(h, g) ==
  Entries(g) = Entries(h) /\ \A e \in Entries(h) : Like(Entry(g, e), Entry(h, e))

Gained(h, g, n, t) ==
  /\ n \in Reservation /\ n \notin Entries(h) /\ Entries(g) = Entries(h) \cup {n}
  /\ \A e \in Entries(h) : Like(Entry(g, e), Entry(h, e))
  /\ Unresolved(h) = {}
  /\ LET r == Entry(g, n) IN
       /\ r.status = "OPEN" /\ r.at <= r.seen /\ r.seen <= t
       /\ AllRested(h, n[1], r.organization, r.url, r.at)

Answered(h, g, n, t) ==
  /\ n \in Unresolved(h) /\ Entries(g) = Entries(h)
  /\ \A e \in Entries(h) \ {n} : Like(Entry(g, e), Entry(h, e))
  /\ LET r == Entry(g, n) IN
       /\ Settles(Entry(h, n), r) /\ r.status # "OPEN" /\ r.at <= r.seen /\ r.seen <= t

\* A ledger at the time t.
Orderly(h, t) == Entries(h) \subseteq Reservation /\ Timed(h, t) /\ Spaced(h) /\ Rested(h)

\* The entries of a ledger with one more commit.
LEMMA EntriesLonger ==
  ASSUME NEW h \in Seq(Commit), NEW c \in Commit
  PROVE  LET g == Append(h, c) IN
         /\ \A e : e \in Entries(g) <=>
              \/ e \in Entries(h) /\ e[1] # c.run
              \/ \E i \in DOMAIN c.requests : e = <<c.run, i>>
         /\ \A e \in Entries(h) : e[1] # c.run => Entry(g, e) = Entry(h, e)
         /\ \A i \in DOMAIN c.requests : Entry(g, <<c.run, i>>) = c.requests[i]
<1> DEFINE g == Append(h, c)
<1>1. /\ Known(g) = Known(h) \cup {c.run}
      /\ RequestsOf(g, c.run) = c.requests
      /\ \A x \in Known(h) \ {c.run} : RequestsOf(g, x) = RequestsOf(h, x)
  BY LastLonger
<1> HIDE DEF g
<1>2. /\ \A e : e \in Entries(g) <=>
           \E x \in Known(g) : \E i \in DOMAIN RequestsOf(g, x) : e = <<x, i>>
      /\ \A e : e \in Entries(h) <=>
           \E x \in Known(h) : \E i \in DOMAIN RequestsOf(h, x) : e = <<x, i>>
      /\ \A x, i : Entry(g, <<x, i>>) = RequestsOf(g, x)[i]
      /\ \A x, i : Entry(h, <<x, i>>) = RequestsOf(h, x)[i]
  BY EntriesAre
<1>3. \A e : e \in Entries(g) <=>
        \/ e \in Entries(h) /\ e[1] # c.run
        \/ \E i \in DOMAIN c.requests : e = <<c.run, i>>
  <2> TAKE e
  <2>1. ASSUME e \in Entries(g)
        PROVE  \/ e \in Entries(h) /\ e[1] # c.run
               \/ \E i \in DOMAIN c.requests : e = <<c.run, i>>
    <3>1. PICK x \in Known(g) : \E i \in DOMAIN RequestsOf(g, x) : e = <<x, i>>
      BY <1>2, <2>1
    <3>2. CASE x = c.run
      BY <1>1, <3>1, <3>2
    <3>3. CASE x # c.run
      BY <1>1, <1>2, <3>1, <3>3
    <3> QED
      BY <3>2, <3>3
  <2>2. ASSUME e \in Entries(h), e[1] # c.run PROVE e \in Entries(g)
    <3>1. PICK x \in Known(h) : \E i \in DOMAIN RequestsOf(h, x) : e = <<x, i>>
      BY <1>2, <2>2
    <3>2. x # c.run
      BY <2>2, <3>1
    <3> QED
      BY <1>1, <1>2, <3>1, <3>2
  <2>3. ASSUME NEW i \in DOMAIN c.requests, e = <<c.run, i>> PROVE e \in Entries(g)
    BY <1>1, <1>2, <2>3
  <2> QED
    BY <2>1, <2>2, <2>3
<1>4. \A e \in Entries(h) : e[1] # c.run => Entry(g, e) = Entry(h, e)
  <2> TAKE e \in Entries(h)
  <2> HAVE e[1] # c.run
  <2>1. PICK x \in Known(h) : \E i \in DOMAIN RequestsOf(h, x) : e = <<x, i>>
    BY <1>2
  <2> QED
    BY <1>1, <1>2, <2>1
<1>5. \A i \in DOMAIN c.requests : Entry(g, <<c.run, i>>) = c.requests[i]
  BY <1>1, <1>2
<1> QED
  BY <1>3, <1>4, <1>5 DEF g

LEMMA LikeSelf == \A r : Like(r, r)
BY DEF Like

\* A new run's first commit has no requests.
LEMMA FreshSame ==
  ASSUME NEW h \in Seq(Commit), NEW c \in Commit, c.run \notin Known(h), c.requests = <<>>
  PROVE  Same(h, Append(h, c))
<1> DEFINE g == Append(h, c)
<1>1. \A e \in Entries(h) : e[1] # c.run
  BY EntriesAre
<1>2. DOMAIN c.requests = {}
  OBVIOUS
<1>3. /\ \A e : e \in Entries(g) <=>
           \/ e \in Entries(h) /\ e[1] # c.run
           \/ \E i \in DOMAIN c.requests : e = <<c.run, i>>
      /\ \A e \in Entries(h) : e[1] # c.run => Entry(g, e) = Entry(h, e)
  BY EntriesLonger
<1> HIDE DEF g
<1>4. \A e : e \in Entries(g) <=> e \in Entries(h)
  BY <1>1, <1>2, <1>3
<1>5. Entries(g) = Entries(h)
  BY <1>4
<1>6. \A e \in Entries(h) : Entry(g, e) = Entry(h, e)
  BY <1>1, <1>3
<1> QED
  BY <1>5, <1>6, LikeSelf DEF Same, g

\* A commit with a budget that extends the run's does one of the three.
LEMMA CommitEffect ==
  ASSUME NEW h \in Seq(Commit), NEW c \in Commit, c.run \in Known(h), NEW t \in Nat,
         Extends(h, c.run, c.requests, t)
  PROVE  LET g == Append(h, c)
             n == <<c.run, Len(c.requests)>> IN
         Same(h, g) \/ Gained(h, g, n, t) \/ Answered(h, g, n, t)
<1> DEFINE g == Append(h, c)
           x == c.run
           o == RequestsOf(h, x)
           q == c.requests
           n == <<x, Len(q)>>
           last == q[Len(q)]
<1>1. /\ o \in Seq(Request) /\ q \in Seq(Request) /\ x \in Run
      /\ DOMAIN o = 1 .. Len(o) /\ DOMAIN q = 1 .. Len(q) /\ Len(o) \in Nat /\ Len(q) \in Nat
  <2>1. o \in Seq(Request) /\ q \in Seq(Request) /\ x \in Run
    BY LastType DEF Commit
  <2> QED
    BY <2>1
<1>2. /\ \A e : e \in Entries(g) <=>
           \/ e \in Entries(h) /\ e[1] # x
           \/ \E i \in DOMAIN q : e = <<x, i>>
      /\ \A e \in Entries(h) : e[1] # x => Entry(g, e) = Entry(h, e)
      /\ \A i \in DOMAIN q : Entry(g, <<x, i>>) = q[i]
  BY EntriesLonger
<1>3. /\ \A e \in Entries(h) : e[1] # x \/ \E i \in DOMAIN o : e = <<x, i>>
      /\ \A i \in DOMAIN o : <<x, i>> \in Entries(h) /\ Entry(h, <<x, i>>) = o[i]
      /\ \A i : <<x, i>> \in Entries(h) => i \in DOMAIN o
  <2>1. \A e : e \in Entries(h) <=>
          \E y \in Known(h) : \E i \in DOMAIN RequestsOf(h, y) : e = <<y, i>>
    BY EntriesAre
  <2>2. \A y, i : Entry(h, <<y, i>>) = RequestsOf(h, y)[i]
    BY EntriesAre
  <2>3. x \in Known(h)
    OBVIOUS
  <2> HIDE DEF x
  <2> QED
    BY <2>1, <2>2, <2>3 DEF o
<1>4. \/ q = o
      \/ /\ q # <<>> /\ \A i \in 1 .. Len(q) - 1 : q[i] = o[i]
         /\ last.at <= last.seen /\ last.seen <= t
         /\ \/ /\ Len(q) = Len(o) + 1 /\ Len(q) <= MaxRequests
               /\ last.status = "OPEN"
               /\ Unresolved(h) = {}
               /\ AllRested(h, x, last.organization, last.url, last.at)
            \/ /\ Len(q) = Len(o)
               /\ Settles(o[Len(o)], last)
  BY DEF Extends
<1> HIDE DEF g, o, q, x
<1>5. ASSUME DOMAIN q = DOMAIN o PROVE Entries(g) = Entries(h)
  <2>1. ASSUME NEW e \in Entries(g) PROVE e \in Entries(h)
    <3>1. CASE \E i \in DOMAIN q : e = <<x, i>>
      BY <1>3, <1>5, <3>1
    <3> QED
      BY <1>2, <3>1
  <2>2. ASSUME NEW e \in Entries(h) PROVE e \in Entries(g)
    <3>1. CASE \E i \in DOMAIN o : e = <<x, i>>
      <4>1. PICK i \in DOMAIN q : e = <<x, i>>
        BY <1>5, <3>1
      <4> QED
        BY <1>2, <4>1
    <3>2. CASE e[1] # x
      BY <1>2, <3>2
    <3> QED
      BY <1>3, <3>1, <3>2
  <2> QED
    BY <2>1, <2>2
<1>6. CASE q = o
  <2>1. Entries(g) = Entries(h)
    BY <1>6, <1>5
  <2>2. \A e \in Entries(h) : Entry(g, e) = Entry(h, e)
    BY <1>2, <1>3, <1>6
  <2> QED
    BY <2>1, <2>2, LikeSelf DEF Same, g, q, x
<1>7. ASSUME q # <<>>, \A i \in 1 .. Len(q) - 1 : q[i] = o[i],
             last.at <= last.seen, last.seen <= t,
             Len(q) = Len(o) + 1, Len(q) <= MaxRequests, last.status = "OPEN",
             Unresolved(h) = {}, AllRested(h, x, last.organization, last.url, last.at)
      PROVE  Gained(h, g, n, t)
  <2>1. \A i : i \in DOMAIN q <=> i \in DOMAIN o \/ i = Len(q)
    BY <1>1, <1>7
  <2>2. \A i \in DOMAIN o : q[i] = o[i]
    BY <1>1, <1>7
  <2>3. Len(q) \in DOMAIN q /\ ~(Len(q) \in DOMAIN o)
    BY <1>1, <1>7
  <2>4. n \notin Entries(h) /\ n[1] = x
    BY <1>3, <2>3
  <2>5. Entries(g) = Entries(h) \cup {n}
    BY <1>2, <1>3, <2>1
  <2>6. \A e \in Entries(h) : Entry(g, e) = Entry(h, e)
    BY <1>2, <1>3, <2>1, <2>2
  <2>7. Entry(g, n) = last
    BY <1>2, <2>3
  <2>8. n \in Reservation
    BY <1>1, <1>7 DEF Reservation
  <2> QED
    BY <1>7, <2>4, <2>5, <2>6, <2>7, <2>8, LikeSelf DEF Gained
<1>8. ASSUME q # <<>>, \A i \in 1 .. Len(q) - 1 : q[i] = o[i],
             last.at <= last.seen, last.seen <= t,
             Len(q) = Len(o), Settles(o[Len(o)], last)
      PROVE  Same(h, g) \/ Answered(h, g, n, t)
  <2>1. DOMAIN q = DOMAIN o /\ Len(q) \in DOMAIN q
    BY <1>1, <1>8
  <2>2. \A i \in DOMAIN o : i # Len(q) => q[i] = o[i]
    BY <1>1, <1>8
  <2>3. Entries(g) = Entries(h)
    BY <1>5, <2>1
  <2>4. n \in Entries(h) /\ Entry(h, n) = o[Len(q)] /\ Entry(g, n) = last
    BY <1>2, <1>3, <2>1
  <2>5. \A e \in Entries(h) \ {n} : Entry(g, e) = Entry(h, e)
    <3> TAKE e \in Entries(h) \ {n}
    <3>1. CASE e[1] # x
      BY <1>2, <3>1
    <3>2. CASE e[1] = x
      <4>1. PICK i \in DOMAIN o : e = <<x, i>>
        BY <1>3, <3>2
      <4>2. i # Len(q)
        BY <4>1
      <4> QED
        BY <1>2, <1>3, <2>1, <2>2, <4>1, <4>2
    <3> QED
      BY <3>1, <3>2
  <2>6. CASE last.status = "OPEN"
    <3>1. Like(last, o[Len(q)])
      BY <1>8, <2>6 DEF Like, Settles
    <3> QED
      BY <2>3, <2>4, <2>5, <3>1, LikeSelf DEF Same
  <2>7. CASE last.status # "OPEN"
    <3>1. n \in Unresolved(h)
      BY <1>8, <2>4 DEF Unresolved, Settles
    <3> QED
      BY <1>8, <2>3, <2>4, <2>5, <2>7, <3>1, LikeSelf DEF Answered
  <2> QED
    BY <2>6, <2>7
<1> QED
  BY <1>4, <1>6, <1>7, <1>8 DEF g, q, x
LEMMA LikeKept ==
  ASSUME NEW h, NEW g, NEW e, NEW f, Like(Entry(g, e), Entry(h, e)), Like(Entry(g, f), Entry(h, f))
  PROVE  /\ Near(g, e, f) <=> Near(h, e, f)
         /\ Before(g, e, f) <=> Before(h, e, f)
BY DEF Like, Near, Before

\* The observations near f are the same where no requests and no observations are
\* added near it, and so are their rows.
LEMMA RestedStays ==
  ASSUME NEW h, NEW g, Continues(h, g), Rested(h),
         NEW f \in Entries(h), Entry(g, f).at = Entry(h, f).at,
         Entries(h) \subseteq Entries(g),
         Others(h, f) \subseteq Others(g, f),
         \A e \in Others(h, f) : Like(Entry(g, e), Entry(h, e)),
         \A d \in Others(g, f) \ Others(h, f) : Entry(g, d).seen > Entry(g, f).at,
         NEW e \in Others(g, f), Entry(g, e).seen <= Entry(g, f).at
  PROVE  LET n == InARow(g, Others(g, f), TimeOrder(g), e) IN
           n > 0 => Entry(g, f).at >= Entry(g, e).seen + Rest[IF n < 4 THEN n ELSE 4]
<1>1. Others(h, f) \subseteq Entries(h) /\ Others(g, f) \subseteq Entries(g)
  BY DEF Others, Attempts
<1>2. /\ h \in Seq(Commit) /\ g \in Seq(Commit)
      /\ \A d \in Entries(g) : Entry(g, d).seen \in Nat /\ Entry(g, d).at \in Nat
  BY EntryType DEF Continues, Request
<1>3. e \in Others(h, f)
  <2> SUFFICES ASSUME e \notin Others(h, f) PROVE FALSE
    OBVIOUS
  <2>1. Entry(g, e).seen > Entry(g, f).at
    OBVIOUS
  <2> QED
    BY <1>1, <1>2, <2>1
<1>4. \A d \in Others(g, f) \ Others(h, f) : <<d, e>> \notin TimeOrder(g)
  <2> TAKE d \in Others(g, f) \ Others(h, f)
  <2>1. Entry(g, d).seen > Entry(g, f).at
    OBVIOUS
  <2>2. Entry(g, d).seen > Entry(g, e).seen
    BY <1>1, <1>2, <2>1
  <2> QED
    BY <1>1, <1>2, <2>2 DEF TimeOrder
<1>5. InARow(g, Others(g, f), TimeOrder(g), e) = InARow(h, Others(h, f), TimeOrder(h), e)
  BY <1>1, <1>3, <1>4, RowKept DEF Like
<1>6. Entry(g, e).seen = Entry(h, e).seen
  BY <1>3 DEF Like
<1> QED
  BY <1>3, <1>5, <1>6 DEF Rested

LEMMA OrderlySame ==
  ASSUME NEW h, NEW g, Continues(h, g), NEW t, Orderly(h, t), Same(h, g)
  PROVE  Orderly(g, t)
<1>1. Entries(g) = Entries(h) /\ \A e \in Entries(h) : Like(Entry(g, e), Entry(h, e))
  BY DEF Same
<1>2. Timed(g, t) /\ Entries(g) \subseteq Reservation
  BY <1>1 DEF Orderly, Timed, Like
<1>3. Spaced(g)
  BY <1>1, LikeKept DEF Orderly, Spaced
<1>4. \A f \in Entries(h) : Others(g, f) = Others(h, f) /\ Others(h, f) \subseteq Entries(h)
  <2> TAKE f \in Entries(h)
  <2>1. \A e \in Entries(h) : Near(g, e, f) <=> Near(h, e, f)
    BY <1>1, LikeKept
  <2>2. Attempts(g) = Attempts(h) /\ Attempts(h) \subseteq Entries(h)
    BY <1>1 DEF Attempts, Unresolved, Like
  <2> QED
    BY <2>1, <2>2 DEF Others
<1>5. Rested(g)
  <2> SUFFICES ASSUME NEW f \in Entries(g), NEW e \in Others(g, f),
                      Entry(g, e).seen <= Entry(g, f).at
               PROVE  LET n == InARow(g, Others(g, f), TimeOrder(g), e) IN
                        n > 0 => Entry(g, f).at >= Entry(g, e).seen + Rest[IF n < 4 THEN n ELSE 4]
    BY DEF Rested
  <2>1. Rested(h) /\ f \in Entries(h) /\ Entry(g, f).at = Entry(h, f).at
    BY <1>1 DEF Orderly, Like
  <2>2. Others(h, f) = Others(g, f) /\ \A d \in Others(h, f) : Like(Entry(g, d), Entry(h, d))
    BY <1>1, <1>4, <2>1
  <2> QED
    BY <1>1, <2>1, <2>2, RestedStays
<1> QED
  BY <1>2, <1>3, <1>5 DEF Orderly

\* What was rested at when a request was reserved.
LEMMA RestedFor ==
  ASSUME NEW h \in Seq(Commit), NEW x, NEW o, NEW u, NEW t, AllRested(h, x, o, u, t),
         NEW A, A = {e \in Attempts(h) : e[1] # x /\ (Entry(h, e).organization = o \/ Entry(h, e).url = u)},
         NEW e \in A, t \in Nat
  PROVE  /\ t >= Entry(h, e).seen + Day
         /\ LET n == InARow(h, A, TimeOrder(h), e) IN
              n > 0 => t >= Entry(h, e).seen + Rest[IF n < 4 THEN n ELSE 4]
<1> DEFINE n == InARow(h, A, TimeOrder(h), e)
<1>1. A \subseteq Entries(h)
  BY DEF Attempts
<1>2. n \in Nat
  BY <1>1, RowIsNat
<1>3. t >= Entry(h, e).seen + IntervalAfter(n)
  BY DEF AllRested
<1>4. Entry(h, e).seen \in Nat
  BY <1>1, EntryType DEF Request
<1> HIDE DEF n
<1>5. /\ IntervalAfter(n) \in Nat /\ IntervalAfter(n) >= Day /\ Day \in Nat
      /\ n > 0 => IntervalAfter(n) = Rest[IF n < 4 THEN n ELSE 4]
  BY <1>2, Intervals, BudgetAssumption
<1>6. t >= Entry(h, e).seen + Day
  BY <1>3, <1>4, <1>5
<1> QED
  BY <1>3, <1>5, <1>6 DEF n

\* The request gained has been rested for; it is nobody's observation yet.
LEMMA OrderlyGained ==
  ASSUME NEW h, NEW g, Continues(h, g), NEW t, Orderly(h, t), NEW n, Gained(h, g, n, t)
  PROVE  Orderly(g, t)
<1> DEFINE r == Entry(g, n)
<1>1. /\ n \in Reservation /\ n \notin Entries(h) /\ Entries(g) = Entries(h) \cup {n}
      /\ \A e \in Entries(h) : Like(Entry(g, e), Entry(h, e))
      /\ Unresolved(h) = {}
      /\ r.status = "OPEN" /\ r.at <= r.seen /\ r.seen <= t
      /\ AllRested(h, n[1], r.organization, r.url, r.at)
  BY DEF Gained
<1>2. h \in Seq(Commit) /\ g \in Seq(Commit) /\ r \in Request /\ r.at \in Nat
  BY <1>1, EntryType DEF Continues, Request
<1> HIDE DEF r
<1>3. Attempts(h) = Entries(h) /\ Attempts(g) = Entries(h)
  <2>1. Attempts(h) = Entries(h)
    BY <1>1 DEF Attempts
  <2>2. \A e \in Entries(h) : Entry(g, e).status # "OPEN"
    BY <1>1 DEF Unresolved, Like
  <2> QED
    BY <1>1, <2>1, <2>2 DEF Attempts, Unresolved, r
<1>4. \A f \in Entries(h) : Others(g, f) = Others(h, f) /\ Others(h, f) \subseteq Entries(h)
  <2> TAKE f \in Entries(h)
  <2>1. \A e \in Entries(h) : Near(g, e, f) <=> Near(h, e, f)
    BY <1>1, LikeKept
  <2> QED
    BY <1>3, <2>1 DEF Others
<1> DEFINE A == {e \in Attempts(h) : e[1] # n[1] /\
                   (Entry(h, e).organization = r.organization \/ Entry(h, e).url = r.url)}
<1>5. Others(g, n) = A
  BY <1>1, <1>3 DEF Others, Near, Like, r
<1>6. \A e \in A :
        /\ r.at >= Entry(h, e).seen + Day
        /\ LET k == InARow(h, A, TimeOrder(h), e) IN
             k > 0 => r.at >= Entry(h, e).seen + Rest[IF k < 4 THEN k ELSE 4]
  BY <1>1, <1>2, RestedFor
<1> HIDE DEF A
<1>7. Timed(g, t) /\ Entries(g) \subseteq Reservation
  BY <1>1 DEF Orderly, Timed, Like, r
<1>8. Spaced(g)
  <2> SUFFICES ASSUME NEW e \in Entries(g), NEW f \in Entries(g), e[1] # f[1], Near(g, e, f)
               PROVE  Before(g, e, f) \/ Before(g, f, e)
    BY DEF Spaced
  <2>1. ASSUME NEW d \in Entries(h), d[1] # n[1], Near(g, d, n) PROVE Before(g, d, n)
    <3>1. d \in A
      BY <1>3, <1>5, <2>1 DEF Others
    <3>2. Entry(g, d).status # "OPEN" /\ Entry(g, d).seen = Entry(h, d).seen
      BY <1>1, <2>1 DEF Unresolved, Like
    <3> QED
      BY <1>2, <1>6, <3>1, <3>2 DEF Before, r
  <2>2. CASE e \in Entries(h) /\ f \in Entries(h)
    BY <1>1, <2>2, LikeKept DEF Orderly, Spaced
  <2>3. CASE e = n
    <3>1. f \in Entries(h) /\ Near(g, f, n) /\ f[1] # n[1]
      BY <1>1, <2>3 DEF Near
    <3> QED
      BY <2>1, <2>3, <3>1
  <2>4. CASE f = n
    BY <1>1, <2>1, <2>4
  <2> QED
    BY <1>1, <2>2, <2>3, <2>4
<1>9. Rested(g)
  <2> SUFFICES ASSUME NEW f \in Entries(g), NEW e \in Others(g, f),
                      Entry(g, e).seen <= Entry(g, f).at
               PROVE  LET k == InARow(g, Others(g, f), TimeOrder(g), e) IN
                        k > 0 => Entry(g, f).at >= Entry(g, e).seen + Rest[IF k < 4 THEN k ELSE 4]
    BY DEF Rested
  <2>1. CASE f \in Entries(h)
    <3>1. Rested(h) /\ Entry(g, f).at = Entry(h, f).at /\ Entries(h) \subseteq Entries(g)
      BY <1>1, <2>1 DEF Orderly, Like
    <3>2. Others(h, f) = Others(g, f) /\ \A d \in Others(h, f) : Like(Entry(g, d), Entry(h, d))
      BY <1>1, <1>4, <2>1
    <3> QED
      BY <2>1, <3>1, <3>2, RestedStays
  <2>2. CASE f = n
    <3>1. e \in A /\ A \subseteq Entries(h) /\ A \subseteq Entries(g)
      BY <1>1, <1>3, <1>5, <2>2 DEF A
    <3>2. \A d \in A : Entry(g, d).seen = Entry(h, d).seen /\ Entry(g, d).status = Entry(h, d).status
      BY <1>1, <3>1 DEF Like
    <3>3. InARow(g, A, TimeOrder(g), e) = InARow(h, A, TimeOrder(h), e)
      BY <3>1, <3>2, RowKept
    <3>4. Entry(g, e).seen = Entry(h, e).seen /\ Entry(g, f).at = r.at /\ Others(g, f) = A
      BY <1>5, <2>2, <3>1, <3>2 DEF r
    <3> QED
      BY <1>6, <3>1, <3>3, <3>4
  <2> QED
    BY <1>1, <2>1, <2>2
<1> QED
  BY <1>7, <1>8, <1>9 DEF Orderly

\* What is observed now is observed after everything near it was reserved.
LEMMA OrderlyAnswered ==
  ASSUME NEW h, NEW g, Continues(h, g), NEW t, Orderly(h, t), NEW n, Answered(h, g, n, t)
  PROVE  Orderly(g, t)
<1> DEFINE r == Entry(g, n)
<1>1. /\ n \in Unresolved(h) /\ n \in Entries(h) /\ Entries(g) = Entries(h)
      /\ \A e \in Entries(h) \ {n} : Like(Entry(g, e), Entry(h, e))
      /\ Entry(h, n).status = "OPEN"
      /\ r.organization = Entry(h, n).organization /\ r.url = Entry(h, n).url
      /\ r.at = Entry(h, n).at
      /\ r.status # "OPEN" /\ r.at <= r.seen /\ r.seen <= t
  BY DEF Answered, Settles, Unresolved
<1>2. /\ h \in Seq(Commit) /\ g \in Seq(Commit) /\ r.at \in Nat /\ r.seen \in Nat
      /\ \A e \in Entries(h) : Entry(h, e).at \in Nat /\ Entry(h, e).seen \in Nat
      /\ Day \in Nat /\ Day > 0
  BY <1>1, EntryType, BudgetAssumption DEF Continues, Request
<1>3. /\ \A e, f \in Entries(h) : Near(g, e, f) <=> Near(h, e, f)
      /\ \A e \in Entries(h) : Entry(g, e).at = Entry(h, e).at
  BY <1>1 DEF Near, Like
<1>4. Attempts(g) = Attempts(h) \cup {n} /\ n \notin Attempts(h) /\ Attempts(h) \subseteq Entries(h)
  BY <1>1 DEF Attempts, Unresolved, Like
<1>5. Timed(g, t) /\ Entries(g) \subseteq Reservation
  BY <1>1 DEF Orderly, Timed, Like
<1> HIDE DEF r
<1>6. Spaced(g)
  <2> SUFFICES ASSUME NEW e \in Entries(h), NEW f \in Entries(h), e[1] # f[1], Near(g, e, f)
               PROVE  Before(g, e, f) \/ Before(g, f, e)
    BY <1>1 DEF Spaced
  <2>1. Before(h, e, f) \/ Before(h, f, e)
    BY <1>3 DEF Orderly, Spaced
  <2>2. \A a, b \in Entries(h) : Before(h, a, b) => Before(g, a, b)
    BY <1>1, <1>3 DEF Before, Like
  <2> QED
    BY <2>1, <2>2
<1>7. Rested(g)
  <2> SUFFICES ASSUME NEW f \in Entries(h), NEW e \in Others(g, f),
                      Entry(g, e).seen <= Entry(g, f).at
               PROVE  LET k == InARow(g, Others(g, f), TimeOrder(g), e) IN
                        k > 0 => Entry(g, f).at >= Entry(g, e).seen + Rest[IF k < 4 THEN k ELSE 4]
    BY <1>1 DEF Rested
  <2>1. Rested(h) /\ Entry(g, f).at = Entry(h, f).at
    BY <1>3 DEF Orderly
  <2>2. Others(h, f) \subseteq Others(g, f) /\ Others(g, f) \subseteq Others(h, f) \cup {n}
    BY <1>3, <1>4 DEF Others
  <2>3. \A d \in Others(h, f) : Like(Entry(g, d), Entry(h, d))
    BY <1>1, <1>4 DEF Others
  <2>4. \A d \in Others(g, f) \ Others(h, f) : Entry(g, d).seen > Entry(g, f).at
    <3> TAKE d \in Others(g, f) \ Others(h, f)
    <3>1. d = n /\ n[1] # f[1] /\ Near(h, n, f)
      BY <1>1, <1>3, <2>2 DEF Others
    <3>2. Before(h, n, f) \/ Before(h, f, n)
      BY <1>1, <3>1 DEF Orderly, Spaced
    <3>3. Entry(h, f).seen + Day <= Entry(h, n).at
      BY <1>1, <3>2 DEF Before
    <3>4. Entry(h, f).at <= Entry(h, f).seen
      BY DEF Orderly, Timed
    <3> QED
      BY <1>1, <1>2, <2>1, <3>1, <3>3, <3>4 DEF r
  <2> QED
    BY <1>1, <2>1, <2>2, <2>3, <2>4, RestedStays
<1> QED
  BY <1>5, <1>6, <1>7 DEF Orderly
-----------------------------------------------------------------------------
(* What the roots hold keeps a ledger orderly, and takes turns at it.      *)

\* The budget of a root on the head, halted or not, extends the ledger's.  A root
\* at work waits for an open request, which nobody else is about to close: a halted
\* root that could was the one at work on it.
KInv ==
  /\ Orderly(branch, clock)
  /\ \A p \in Root :
       root[p].pc # "none" /\ root[p].head = Len(branch) =>
         Extends(branch, root[p].run, root[p].requests, clock)
  /\ \A p \in Root : Busy(root[p]) =>
       /\ Position(p) \in DOMAIN RequestsOf(branch, root[p].run)
       /\ RequestsOf(branch, root[p].run)[Position(p)].status = "OPEN"
  /\ \A p, q \in Root :
       /\ root[q].pc = "halted" /\ root[q].head = Len(branch)
       /\ root[q].requests # RequestsOf(branch, root[q].run)
       /\ Busy(root[p]) /\ root[p].run = root[q].run
       => Position(p) # Position(q)

\* Root p, on the head, may commit the budget of t: it extends the ledger's, and no
\* other root is at work on the request it changes.
Passes(p, t) ==
  /\ Extends(branch, t.run, t.requests, clock)
  /\ t.requests # RequestsOf(branch, t.run) =>
       \A q \in Root \ {p} : Busy(root[q]) /\ root[q].run = t.run => Position(q) # Len(t.requests)
  /\ Busy(t) => t.requests # <<>> /\ t.requests[Len(t.requests)].status = "OPEN"

LEMMA ExtendsLater ==
  ASSUME NEW h \in Seq(Commit), NEW x \in Known(h), NEW q \in Seq(Request), NEW t \in Nat,
         NEW u \in Nat, t <= u, Extends(h, x, q, t)
  PROVE  Extends(h, x, q, u)
<1> DEFINE last == q[Len(q)]
<1>1. q # <<>> => last.seen \in Nat
  <2>1. q # <<>> => last \in Request
    OBVIOUS
  <2> QED
    BY <2>1 DEF Request
<1>2. last.seen <= t /\ q # <<>> => last.seen <= u
  BY <1>1
<1> QED
  BY <1>2 DEF Extends

LEMMA OrderlyLater ==
  ASSUME NEW h \in Seq(Commit), NEW t \in Nat, NEW u \in Nat, t <= u, Orderly(h, t)
  PROVE  Orderly(h, u)
<1>1. \A e \in Entries(h) : Entry(h, e).seen \in Nat
  BY EntryType DEF Request
<1>2. Timed(h, u)
  BY <1>1 DEF Orderly, Timed
<1> QED
  BY <1>2 DEF Orderly

\* One of three things happens to the ledger, and each is a step of the gate.
LEMMA EffectIsTurn ==
  ASSUME NEW n, NEW t,
         Same(branch, branch') \/ Gained(branch, branch', n, t) \/ Answered(branch, branch', n, t),
         SettledButOne(branch), Entries(branch) \subseteq Reservation, wire' = wire
  PROVE  [Turn!Next]_Turn!vars
<1> DEFINE sent == {<<w.run, w.position>> : w \in wire}
<1>1. sent' = sent
  OBVIOUS
<1>2. CASE Same(branch, branch')
  <2>1. Entries(branch') = Entries(branch) /\ Unresolved(branch') = Unresolved(branch)
    BY <1>2 DEF Same, Like, Unresolved
  <2> QED
    BY <1>1, <2>1 DEF Turn!vars
<1>3. CASE Gained(branch, branch', n, t)
  <2>1. /\ n \in Reservation /\ n \notin Entries(branch) /\ Entries(branch') = Entries(branch) \cup {n}
        /\ Unresolved(branch) = {} /\ Entry(branch', n).status = "OPEN"
        /\ \A e \in Entries(branch) : Like(Entry(branch', e), Entry(branch, e))
    BY <1>3 DEF Gained
  <2>2. Unresolved(branch') = {n}
    BY <2>1 DEF Unresolved, Like
  <2>3. Turn!Acquire(n)
    BY <1>1, <2>1, <2>2 DEF Turn!Acquire
  <2> QED
    BY <2>1, <2>3 DEF Turn!Next
<1>4. CASE Answered(branch, branch', n, t)
  <2>1. /\ n \in Unresolved(branch) /\ Entries(branch') = Entries(branch)
        /\ Entry(branch', n).status # "OPEN"
        /\ \A e \in Entries(branch) \ {n} : Like(Entry(branch', e), Entry(branch, e))
    BY <1>4 DEF Answered
  <2>2. Unresolved(branch) = {n} /\ n \in Reservation
    BY <2>1 DEF SettledButOne, Unresolved
  <2>3. Unresolved(branch') = {}
    BY <2>1, <2>2 DEF Unresolved, Like
  <2>4. Turn!Release(n)
    BY <1>1, <2>1, <2>3 DEF Turn!Release
  <2> QED
    BY <2>2, <2>4 DEF Turn!Next
<1> QED
  BY <1>2, <1>3, <1>4

\* The commit of a budget that passes.
LEMMA CommitTurns ==
  ASSUME IInv, KInv, NEW p \in Root, NEW t \in Locals, NEW stage \in Stage,
         t.run \in Known(branch), Passes(p, t), Put(t, stage), UNCHANGED <<wire, clock>>
  PROVE  /\ Orderly(branch', clock') /\ [Turn!Next]_Turn!vars
         /\ RequestsOf(branch', t.run) = t.requests
         /\ \A x \in Known(branch) \ {t.run} : RequestsOf(branch', x) = RequestsOf(branch, x)
<1> DEFINE c == Record(t, stage)
           n == <<t.run, Len(t.requests)>>
<1>1. branch \in Seq(Commit) /\ SettledButOne(branch) /\ clock \in Nat
  BY RootKnows
<1>2. c \in Commit /\ c.run = t.run /\ c.requests = t.requests /\ branch' = Append(branch, c)
  <2>1. t.run \in Run
    BY <1>1, LastType
  <2> QED
    BY <2>1 DEF Record, Commit, Locals, Put
<1>3. Extends(branch, c.run, c.requests, clock)
  BY <1>2 DEF Passes
<1> HIDE DEF c
<1>4. \/ Same(branch, branch') \/ Gained(branch, branch', n, clock)
      \/ Answered(branch, branch', n, clock)
  BY <1>1, <1>2, <1>3, CommitEffect
<1> HIDE DEF n
<1>5. Continues(branch, branch')
  BY <1>1, <1>2, FirstLonger
<1>6. Orderly(branch, clock) /\ Entries(branch) \subseteq Reservation
  BY DEF KInv, Orderly
<1>7. Orderly(branch', clock')
  BY <1>4, <1>5, <1>6, OrderlySame, OrderlyGained, OrderlyAnswered
<1>8. [Turn!Next]_Turn!vars
  BY <1>1, <1>4, <1>6, EffectIsTurn
<1>9. /\ RequestsOf(branch', t.run) = t.requests
      /\ \A x \in Known(branch) \ {t.run} : RequestsOf(branch', x) = RequestsOf(branch, x)
  BY <1>1, <1>2, LastLonger
<1> QED
  BY <1>7, <1>8, <1>9

\* An open request stays so when a budget that passes is committed by another root.
LEMMA OthersStayOpen ==
  ASSUME IInv, KInv, NEW p \in Root, NEW t \in Locals, Passes(p, t),
         NEW q \in Root, q # p, Busy(root[q]), root[q].run = t.run,
         t.run \in Known(branch)
  PROVE  Position(q) \in DOMAIN t.requests /\ t.requests[Position(q)].status = "OPEN"
<1> DEFINE o == RequestsOf(branch, t.run)
           r == t.requests
           k == Position(q)
           last == r[Len(r)]
<1>1. o \in Seq(Request) /\ r \in Seq(Request)
  BY RootKnows, LastType DEF Locals
<1>2. k \in DOMAIN o /\ o[k].status = "OPEN" /\ <<t.run, k>> \in Unresolved(branch)
  <2>1. k \in DOMAIN o /\ o[k].status = "OPEN"
    BY DEF KInv
  <2>2. k \in Openings(o)
    BY <2>1 DEF Openings
  <2> QED
    BY <2>1, <2>2, Opened
<1>3. r # o => k # Len(r)
  BY DEF Passes
<1>4. \/ r = o
      \/ /\ \A i \in 1 .. Len(r) - 1 : r[i] = o[i]
         /\ (Len(r) = Len(o) + 1 /\ Unresolved(branch) = {}) \/ Len(r) = Len(o)
  BY DEF Passes, Extends
<1> HIDE DEF o, r, k
<1>5. r # o => k \in 1 .. Len(r) - 1 /\ Len(r) = Len(o)
  BY <1>1, <1>2, <1>3, <1>4
<1>6. r # o => k \in DOMAIN r /\ r[k] = o[k]
  BY <1>1, <1>4, <1>5
<1> QED
  BY <1>2, <1>6 DEF o, r, k

\* A root persists a budget that passes.
LEMMA PersistTurns ==
  ASSUME IInv, KInv, NEW p \in Root, NEW t \in Locals, NEW stage \in Stage, Persist(p, t, stage),
         UNCHANGED <<wire, clock>>,
         root[p].pc # "none", t.run = root[p].run, t.head = root[p].head, t.pc # "none",
         ~Moved(p) => Passes(p, t)
  PROVE  KInv' /\ [Turn!Next]_Turn!vars
<1> DEFINE halted == [t EXCEPT !.pc = "halted"]
           ahead == [t EXCEPT !.head = Len(branch) + 1]
<1>1. /\ branch \in Seq(Commit) /\ Len(branch) \in Nat /\ root \in [Root -> Locals]
      /\ \A q \in Root : /\ root[q].head <= Len(branch) /\ root[q].head \in Nat
                         /\ root[q].pc # "none" => root[q].run \in Known(branch)
  <2>1. branch \in Seq(Commit) /\ Len(branch) \in Nat /\ root \in [Root -> Locals]
    BY RootKnows
  <2>2. \A q \in Root : /\ root[q].head <= Len(branch) /\ root[q].head \in Nat
                        /\ root[q].pc # "none" => root[q].run \in Known(SubSeq(branch, 1, root[q].head))
    BY RootKnows DEF Knowing
  <2> QED
    BY <2>1, <2>2, KnownPrefix
<1>2. /\ halted \in Locals /\ halted.pc = "halted" /\ halted.head = t.head /\ halted.run = t.run
      /\ halted.requests = t.requests
      /\ ahead \in Locals /\ ahead.head = Len(branch) + 1 /\ ahead.run = t.run
      /\ ahead.requests = t.requests /\ ahead.pc = t.pc
  <2>1. "halted" \in RootState
    BY DEF RootState
  <2>2. Len(branch) + 1 \in Nat
    BY <1>1
  <2> QED
    BY <2>1, <2>2, Altered
<1>3. /\ Orderly(branch, clock)
      /\ \A q \in Root : root[q].pc # "none" /\ root[q].head = Len(branch) =>
           Extends(branch, root[q].run, root[q].requests, clock)
      /\ \A q \in Root : Busy(root[q]) =>
           /\ Position(q) \in DOMAIN RequestsOf(branch, root[q].run)
           /\ RequestsOf(branch, root[q].run)[Position(q)].status = "OPEN"
      /\ \A q, s \in Root :
           /\ root[s].pc = "halted" /\ root[s].head = Len(branch)
           /\ root[s].requests # RequestsOf(branch, root[s].run)
           /\ Busy(root[q]) /\ root[q].run = root[s].run
           => Len(root[q].requests) # Len(root[s].requests)
  BY DEF KInv, Position
<1>4. ~Busy(halted)
  BY <1>2 DEF Busy
<1> HIDE DEF halted, ahead
\* Without a commit: the root, if it is on the head, holds what it failed to commit.
<1>5. ASSUME branch' = branch, root' = [root EXCEPT ![p] = halted]
      PROVE  KInv' /\ [Turn!Next]_Turn!vars
  <2>1. root'[p] = halted /\ \A q \in Root \ {p} : root'[q] = root[q]
    BY <1>1, <1>5
  <2>2. \A q \in Root : root'[q].pc # "none" /\ root'[q].head = Len(branch) =>
          Extends(branch, root'[q].run, root'[q].requests, clock)
    <3>1. halted.head = Len(branch) => Extends(branch, halted.run, halted.requests, clock)
      BY <1>2 DEF Passes, Moved
    <3> QED
      BY <1>3, <2>1, <3>1
  <2>3. \A q \in Root : Busy(root'[q]) =>
          /\ Len(root'[q].requests) \in DOMAIN RequestsOf(branch, root'[q].run)
          /\ RequestsOf(branch, root'[q].run)[Len(root'[q].requests)].status = "OPEN"
    BY <1>3, <1>4, <2>1 DEF Position
  <2>4. \A q, s \in Root :
          /\ root'[s].pc = "halted" /\ root'[s].head = Len(branch)
          /\ root'[s].requests # RequestsOf(branch, root'[s].run)
          /\ Busy(root'[q]) /\ root'[q].run = root'[s].run
          => Len(root'[q].requests) # Len(root'[s].requests)
    <3> SUFFICES ASSUME NEW q \in Root, NEW s \in Root,
                        root'[s].pc = "halted", root'[s].head = Len(branch),
                        root'[s].requests # RequestsOf(branch, root'[s].run),
                        Busy(root'[q]), root'[q].run = root'[s].run
                 PROVE  Len(root'[q].requests) # Len(root'[s].requests)
      OBVIOUS
    <3>1. q # p /\ root'[q] = root[q]
      BY <1>4, <2>1
    <3>2. CASE s # p
      BY <1>3, <2>1, <3>1, <3>2
    <3>3. CASE s = p
      <4>1. ~Moved(p) /\ t.requests # RequestsOf(branch, t.run) /\ root[q].run = t.run
        BY <1>2, <2>1, <3>1, <3>3 DEF Moved
      <4>2. Position(q) # Len(t.requests)
        BY <3>1, <4>1 DEF Passes
      <4> QED
        BY <1>2, <2>1, <3>1, <3>3, <4>2 DEF Position
    <3> QED
      BY <3>2, <3>3
  <2>5. KInv'
    BY <1>3, <1>5, <2>2, <2>3, <2>4 DEF KInv, Position
  <2>6. UNCHANGED Turn!vars
    BY <1>5 DEF Turn!vars
  <2> QED
    BY <2>5, <2>6
\* With one, the head moves on, and only the root that made it may know.
<1>6. ASSUME ~Moved(p), Put(t, stage), NEW u, u = halted \/ u = ahead,
             root' = [root EXCEPT ![p] = u]
      PROVE  KInv' /\ [Turn!Next]_Turn!vars
  <2>1. root'[p] = u /\ \A q \in Root \ {p} : root'[q] = root[q]
    BY <1>1, <1>6
  <2>2. /\ Orderly(branch', clock') /\ [Turn!Next]_Turn!vars
        /\ RequestsOf(branch', t.run) = t.requests
        /\ \A x \in Known(branch) \ {t.run} : RequestsOf(branch', x) = RequestsOf(branch, x)
    BY <1>1, <1>6, CommitTurns
  <2>3. Len(branch') = Len(branch) + 1
    BY <1>1, <1>6 DEF Put
  <2>4. \A q \in Root : root'[q].head = Len(branch') =>
          root'[q].requests = RequestsOf(branch', root'[q].run)
    BY <1>1, <1>2, <1>6, <2>1, <2>2, <2>3
  <2>5. \A q \in Root : Busy(root'[q]) =>
          /\ Len(root'[q].requests) \in DOMAIN RequestsOf(branch', root'[q].run)
          /\ RequestsOf(branch', root'[q].run)[Len(root'[q].requests)].status = "OPEN"
    <3> SUFFICES ASSUME NEW q \in Root, Busy(root'[q])
                 PROVE  /\ Len(root'[q].requests) \in DOMAIN RequestsOf(branch', root'[q].run)
                        /\ RequestsOf(branch', root'[q].run)[Len(root'[q].requests)].status = "OPEN"
      OBVIOUS
    <3>1. CASE q = p
      <4>1. u = ahead /\ Busy(t)
        BY <1>2, <1>4, <1>6, <2>1, <3>1 DEF Busy
      <4>2. t.requests # <<>> /\ t.requests[Len(t.requests)].status = "OPEN" /\ t.requests \in Seq(Request)
        BY <1>6, <4>1 DEF Passes, Locals
      <4>3. Len(t.requests) \in DOMAIN t.requests
        BY <4>2
      <4> QED
        BY <1>2, <2>1, <2>2, <3>1, <4>1, <4>2, <4>3
    <3>2. CASE q # p /\ root[q].run = t.run
      <4>1. Busy(root[q]) /\ root'[q] = root[q] /\ t.run \in Known(branch)
        BY <1>1, <2>1, <3>2
      <4>2. Position(q) \in DOMAIN t.requests /\ t.requests[Position(q)].status = "OPEN"
        BY <1>6, <3>2, <4>1, OthersStayOpen
      <4> QED
        BY <2>2, <3>2, <4>1, <4>2 DEF Position
    <3>3. CASE q # p /\ root[q].run # t.run
      <4>1. Busy(root[q]) /\ root'[q] = root[q] /\ root[q].pc # "none"
        BY <2>1, <3>3 DEF Busy
      <4>2. RequestsOf(branch', root[q].run) = RequestsOf(branch, root[q].run)
        BY <1>1, <2>2, <3>3, <4>1
      <4> QED
        BY <1>3, <4>1, <4>2 DEF Position
    <3> QED
      BY <3>1, <3>2, <3>3
  <2>6. \A q \in Root : root'[q].head = Len(branch') =>
          Extends(branch', root'[q].run, root'[q].requests, clock')
    BY <2>4 DEF Extends
  <2> QED
    BY <2>2, <2>4, <2>5, <2>6 DEF KInv, Position
<1> QED
  BY <1>5, <1>6 DEF Persist, halted, ahead
LEMMA ReserveTurns ==
  ASSUME IInv, KInv, NEW p \in Root, Reserve(p)
  PROVE  KInv' /\ [Turn!Next]_Turn!vars
<1>1. PICK o \in Organization, u \in Url :
        /\ MayReserve(p, o, u)
        /\ Persist(p, [root[p] EXCEPT
             !.pc = "preparing",
             !.requests = Append(@, [organization |-> o, url |-> u, at |-> clock, sent |-> FALSE,
                                     status |-> "OPEN", seen |-> clock])], "RESERVED")
  BY Zenon DEF Reserve
<1> DEFINE q == root[p].requests
           r == [organization |-> o, url |-> u, at |-> clock, sent |-> FALSE,
                 status |-> "OPEN", seen |-> clock]
           t == [root[p] EXCEPT !.pc = "preparing", !.requests = Append(@, r)]
           x == root[p].run
<1>2. root[p].pc = "ready" /\ UNCHANGED <<wire, clock>>
  BY DEF Reserve, At
<1>3. r \in Request /\ q \in Seq(Request) /\ root[p] \in Locals /\ clock \in Nat
  BY RootKnows DEF Request
<1>4. Append(q, r) \in Seq(Request)
  BY <1>3
<1>5. /\ t \in Locals /\ t.pc = "preparing" /\ t.run = x /\ t.head = root[p].head
      /\ t.requests = Append(q, r)
  <2> HIDE DEF r
  <2> QED
    BY <1>3, <1>4 DEF Locals, RootState
<1>6. Persist(p, t, "RESERVED")
  BY <1>1
<1>7. ASSUME ~Moved(p)
      PROVE  Passes(p, t)
  <2>1. View(p) = branch /\ x \in Known(branch) /\ q = RequestsOf(branch, x)
    BY <1>2, <1>7, LiveKnows DEF Live
  <2>2. /\ Unresolved(branch) = {} /\ AllRested(branch, x, o, u, clock)
        /\ Len(q) < MaxRequests
    BY <1>1, <2>1 DEF MayReserve, Gate, Reservable
  <2>3. r.organization = o /\ r.url = u /\ r.at = clock /\ r.seen = clock /\ r.status = "OPEN"
    OBVIOUS
  <2> HIDE DEF r
  <2>4. /\ Len(t.requests) = Len(q) + 1 /\ Len(q) \in Nat /\ t.requests # <<>>
        /\ t.requests[Len(t.requests)] = r
        /\ \A i \in 1 .. Len(t.requests) - 1 : t.requests[i] = q[i]
    <3> HIDE DEF q, t
    <3> QED
      BY <1>3, <1>5
  <2>5. Len(t.requests) <= MaxRequests
    BY <2>2, <2>4, BudgetAssumption
  <2>6. Extends(branch, t.run, t.requests, clock)
    <3> HIDE DEF q, t, x
    <3> QED
      BY <1>3, <1>5, <2>1, <2>2, <2>3, <2>4, <2>5 DEF Extends
  <2>7. \A s \in Root : Busy(root[s]) /\ root[s].run = t.run => Position(s) # Len(t.requests)
    <3>1. \A s \in Root : Busy(root[s]) => Position(s) \in DOMAIN RequestsOf(branch, root[s].run)
      BY DEF KInv
    <3>2. ~(Len(t.requests) \in DOMAIN q)
      <4> HIDE DEF q, t
      <4> QED
        BY <1>3, <2>4
    <3> HIDE DEF q, t
    <3> QED
      BY <1>5, <2>1, <3>1, <3>2
  <2> HIDE DEF t
  <2> QED
    BY <2>3, <2>4, <2>6, <2>7 DEF Passes
<1>8. "RESERVED" \in Stage
  BY DEF Stage
<1> HIDE DEF t, q, r
<1> QED
  BY <1>2, <1>5, <1>6, <1>7, <1>8, PersistTurns

\* The budget of a root at work or ready is the ledger's.
LEMMA UnchangedPasses ==
  ASSUME IInv, KInv, NEW p \in Root, NEW t, root[p].pc # "none", ~Moved(p),
         t.run = root[p].run, t.requests = root[p].requests, ~Busy(t)
  PROVE  Passes(p, t)
<1>1. Extends(branch, t.run, t.requests, clock)
  BY Unmoved DEF KInv
<1>2. ASSUME t.requests # RequestsOf(branch, t.run), NEW q \in Root \ {p},
             Busy(root[q]), root[q].run = t.run
      PROVE  Position(q) # Len(t.requests)
  <2>1. root[p].pc = "halted"
    <3>1. ~Live(root[p])
      BY <1>2, LiveKnows
    <3> QED
      BY <3>1, RootKnows DEF RootState, Live
  <2>2. root[p].head = Len(branch)
    BY Unmoved
  <2> QED
    BY <1>2, <2>1, <2>2 DEF KInv, Position
<1> QED
  BY <1>1, <1>2 DEF Passes

LEMMA DenyTurns ==
  ASSUME IInv, KInv, NEW p \in Root, Deny(p)
  PROVE  KInv' /\ [Turn!Next]_Turn!vars
<1>1. root[p].pc = "ready" /\ UNCHANGED <<wire, clock>> /\ Persist(p, root[p], "PRE_SEND_DENIED")
  BY DEF Deny, At
<1>2. "PRE_SEND_DENIED" \in Stage /\ root[p] \in Locals /\ ~Busy(root[p])
  BY <1>1, RootKnows DEF Stage, Busy
<1>3. ~Moved(p) => Passes(p, root[p])
  BY <1>1, <1>2, UnchangedPasses
<1> QED
  BY <1>1, <1>2, <1>3, PersistTurns

LEMMA HaltTurns ==
  ASSUME IInv, KInv, NEW p \in Root, NEW stage \in Stage,
         Persist(p, [root[p] EXCEPT !.pc = "halted"], stage), UNCHANGED <<wire, clock>>,
         root[p].pc # "none"
  PROVE  KInv' /\ [Turn!Next]_Turn!vars
<1> DEFINE t == [root[p] EXCEPT !.pc = "halted"]
<1>1. "halted" \in RootState /\ 0 \in Nat /\ root[p] \in Locals
  BY RootKnows DEF RootState
<1>2. /\ t \in Locals /\ t.pc = "halted" /\ t.run = root[p].run /\ t.head = root[p].head
      /\ t.requests = root[p].requests
  BY <1>1, Altered
<1>3. Persist(p, t, stage)
  OBVIOUS
<1> HIDE DEF t
<1>4. ~Moved(p) => Passes(p, t)
  BY <1>2, UnchangedPasses DEF Busy
<1> QED
  BY <1>2, <1>3, <1>4, PersistTurns

\* A root at work replaces its open request.
LEMMA ReplaceTurns ==
  ASSUME IInv, KInv, NEW p \in Root, Busy(root[p]),
         NEW t \in Locals, NEW stage \in Stage, Persist(p, t, stage), UNCHANGED <<wire, clock>>,
         t.run = root[p].run, t.head = root[p].head, t.pc # "none",
         NEW r \in Request, t.requests = Changed(p, r), Settles(Pending(p), r),
         ~Moved(p) => r.at <= r.seen /\ r.seen <= clock,
         Busy(t) => r.status = "OPEN"
  PROVE  KInv' /\ [Turn!Next]_Turn!vars
<1> DEFINE q == root[p].requests
           s == [q EXCEPT ![Len(q)] = r]
<1>1. q \in Seq(Request) /\ Knowing(branch, root[p]) /\ root[p].pc # "none"
  BY RootKnows DEF Busy
<1>2. q # <<>> /\ t.requests = s /\ Pending(p) = q[Len(q)] /\ Position(p) = Len(q)
  BY <1>1 DEF Knowing, Changed, Pending, Position
<1>3. /\ Len(s) = Len(q) /\ Len(q) \in Nat /\ s # <<>> /\ s[Len(s)] = r
      /\ \A i \in 1 .. Len(s) - 1 : s[i] = q[i]
  <2> HIDE DEF q
  <2>1. /\ s \in Seq(Request) /\ Len(s) = Len(q) /\ Len(q) \in Nat /\ Len(q) \in DOMAIN q
        /\ DOMAIN q = 1 .. Len(q) /\ DOMAIN s = DOMAIN q
        /\ s[Len(q)] = r /\ \A i \in DOMAIN q : i # Len(q) => s[i] = q[i]
    BY <1>1, <1>2
  <2> HIDE DEF s
  <2>2. s # <<>>
    BY <2>1
  <2> QED
    BY <2>1, <2>2
<1>4. ASSUME ~Moved(p)
      PROVE  Passes(p, t)
  <2>1. q = RequestsOf(branch, t.run)
    BY <1>4, LiveKnows DEF Live, Busy
  <2>2. Extends(branch, t.run, t.requests, clock)
    <3> HIDE DEF q, s
    <3> QED
      BY <1>2, <1>3, <1>4, <2>1 DEF Extends
  <2>3. \A o \in Root \ {p} : Busy(root[o]) /\ root[o].run = t.run => Position(o) # Len(t.requests)
    <3>1. Sole
      BY DEF IInv
    <3> HIDE DEF q, s
    <3> QED
      BY <1>2, <1>3, <3>1 DEF Sole
  <2>4. t.requests # <<>> /\ t.requests[Len(t.requests)] = r
    BY <1>2, <1>3
  <2> QED
    BY <2>2, <2>3, <2>4 DEF Passes
<1> HIDE DEF q, s
<1> QED
  BY <1>1, <1>4, PersistTurns

\* The request a root at work waits for was reserved before now.
LEMMA PendingIs ==
  ASSUME IInv, KInv, NEW p \in Root, Busy(root[p])
  PROVE  /\ root[p] \in Locals /\ root[p].requests \in Seq(Request) /\ root[p].requests # <<>>
         /\ Pending(p) \in Request /\ Pending(p).status = "OPEN" /\ clock \in Nat
         /\ \A r \in Request : Changed(p, r) \in Seq(Request)
         /\ ~Moved(p) => Pending(p).at <= Pending(p).seen /\ Pending(p).seen <= clock
<1>1. /\ root[p] \in Locals /\ root[p].requests \in Seq(Request) /\ root[p].requests # <<>>
      /\ Pending(p).status = "OPEN" /\ clock \in Nat
  BY RootKnows DEF Knowing, Pending, Position
<1>2. Pending(p) \in Request
  BY <1>1 DEF Pending, Position
<1>3. \A r \in Request : Changed(p, r) \in Seq(Request)
  BY <1>1 DEF Changed, Position
<1>4. ASSUME ~Moved(p) PROVE Pending(p).at <= Pending(p).seen /\ Pending(p).seen <= clock
  <2>1. root[p].run \in Known(branch) /\ root[p].requests = RequestsOf(branch, root[p].run)
    BY <1>4, LiveKnows DEF Live, Busy
  <2>2. Position(p) \in DOMAIN RequestsOf(branch, root[p].run)
    BY DEF KInv
  <2>3. /\ <<root[p].run, Position(p)>> \in Entries(branch)
        /\ Entry(branch, <<root[p].run, Position(p)>>) = Pending(p)
    BY <2>1, <2>2, EntriesAre DEF Pending
  <2> QED
    BY <2>3 DEF KInv, Orderly, Timed
<1> QED
  BY <1>1, <1>2, <1>3, <1>4
LEMMA EnterSendTurns ==
  ASSUME IInv, KInv, NEW p \in Root, EnterSend(p)
  PROVE  KInv' /\ [Turn!Next]_Turn!vars
<1> DEFINE t == Entering(p)
           r == [Pending(p) EXCEPT !.sent = TRUE]
<1>1. /\ root[p].pc = "preparing" /\ UNCHANGED <<wire, clock>> /\ Persist(p, t, "SEND_ENTERED")
      /\ Busy(root[p])
  BY DEF EnterSend, At, Busy
<1>2. /\ root[p] \in Locals /\ Pending(p) \in Request /\ Pending(p).status = "OPEN"
      /\ \A s \in Request : Changed(p, s) \in Seq(Request)
      /\ ~Moved(p) => Pending(p).at <= Pending(p).seen /\ Pending(p).seen <= clock
  BY <1>1, PendingIs
<1>3. /\ r \in Request /\ Settles(Pending(p), r) /\ r.status = "OPEN"
      /\ r.at = Pending(p).at /\ r.seen = Pending(p).seen
  BY <1>2 DEF Request, Settles
<1>4. Changed(p, r) \in Seq(Request)
  BY <1>2, <1>3
<1>5. /\ t \in Locals /\ t.pc = "sending" /\ t.run = root[p].run /\ t.head = root[p].head
      /\ t.requests = Changed(p, r)
  BY <1>2, <1>4 DEF Locals, RootState, Entering
<1>6. "SEND_ENTERED" \in Stage
  BY DEF Stage
<1> HIDE DEF t, r
<1> QED
  BY <1>1, <1>2, <1>3, <1>5, <1>6, ReplaceTurns

LEMMA ObserveTurns ==
  ASSUME IInv, KInv, NEW p \in Root, Busy(root[p]), NEW status \in Observed, Observe(p, status),
         UNCHANGED <<wire, clock>>
  PROVE  KInv' /\ [Turn!Next]_Turn!vars
<1> DEFINE r == [Pending(p) EXCEPT !.status = status, !.seen = clock]
           t == [root[p] EXCEPT !.pc = "ready", !.requests = Changed(p, r)]
<1>1. Persist(p, t, "OBSERVED")
  BY DEF Observe
<1>2. /\ root[p] \in Locals /\ Pending(p) \in Request /\ Pending(p).status = "OPEN" /\ clock \in Nat
      /\ \A s \in Request : Changed(p, s) \in Seq(Request)
      /\ ~Moved(p) => Pending(p).at <= Pending(p).seen /\ Pending(p).seen <= clock
  BY PendingIs
<1>3. /\ r \in Request /\ Settles(Pending(p), r)
      /\ r.at = Pending(p).at /\ r.seen = clock
  BY <1>2 DEF Request, Settles, Observed
<1>4. Changed(p, r) \in Seq(Request)
  BY <1>2, <1>3
<1>5. /\ t \in Locals /\ t.pc = "ready" /\ t.run = root[p].run /\ t.head = root[p].head
      /\ t.requests = Changed(p, r)
  <2> HIDE DEF r
  <2> QED
    BY <1>2, <1>4 DEF Locals, RootState
<1>6. ~Moved(p) => r.at <= r.seen /\ r.seen <= clock
  <2>1. Pending(p).at \in Nat /\ Pending(p).seen \in Nat
    BY <1>2 DEF Request
  <2> HIDE DEF r
  <2> QED
    BY <1>2, <1>3, <2>1
<1>7. "OBSERVED" \in Stage /\ ~Busy(t) /\ t.pc # "none"
  BY <1>5 DEF Stage, Busy
<1> HIDE DEF t, r
<1> QED
  BY <1>1, <1>3, <1>5, <1>6, <1>7, ReplaceTurns

\* The commit of a root that begins.
LEMMA CreateTurns ==
  ASSUME IInv, KInv, NEW p \in Root, Create(p)
  PROVE  KInv' /\ [Turn!Next]_Turn!vars
<1>1. PICK x \in Run \ Known(branch) :
        LET t == [pc |-> "ready", run |-> x, head |-> Len(branch) + 1, started |-> clock,
                  requests |-> <<>>] IN
          /\ Put(t, "STARTED")
          /\ root' = [root EXCEPT ![p] = t]
  BY DEF Create
<1> DEFINE t == [pc |-> "ready", run |-> x, head |-> Len(branch) + 1, started |-> clock,
                 requests |-> <<>>]
           c == Record(t, "STARTED")
<1>2. UNCHANGED <<wire, clock>> /\ branch' = Append(branch, c) /\ root' = [root EXCEPT ![p] = t]
  BY <1>1 DEF Create, Put
<1>3. /\ branch \in Seq(Commit) /\ SettledButOne(branch) /\ root \in [Root -> Locals] /\ clock \in Nat
      /\ Len(branch) \in Nat
      /\ \A q \in Root : /\ root[q].head <= Len(branch) /\ root[q].head \in Nat
                         /\ root[q].pc # "none" => root[q].run \in Known(branch)
  <2>1. \A q \in Root : /\ root[q].head <= Len(branch) /\ root[q].head \in Nat
                        /\ root[q].pc # "none" => root[q].run \in Known(SubSeq(branch, 1, root[q].head))
    BY RootKnows DEF Knowing
  <2>2. branch \in Seq(Commit) /\ SettledButOne(branch) /\ root \in [Root -> Locals] /\ clock \in Nat
    BY RootKnows
  <2> QED
    BY <2>1, <2>2, KnownPrefix
<1>4. <<>> \in Seq(Request)
  OBVIOUS
<1>5. c \in Commit /\ c.run = x /\ c.requests = <<>>
  BY <1>3, <1>4 DEF Record, Commit, Stage
<1>6. t.head = Len(branch) + 1 /\ t.run = x /\ t.requests = <<>> /\ t.pc = "ready" /\ ~Busy(t)
  BY DEF Busy
<1> HIDE DEF t, c
<1>7. Continues(branch, branch') /\ Same(branch, branch')
  BY <1>2, <1>3, <1>5, FirstLonger, FreshSame
<1>8. Orderly(branch', clock') /\ [Turn!Next]_Turn!vars
  <2>1. Orderly(branch', clock)
    BY <1>7, OrderlySame DEF KInv
  <2>2. Entries(branch) \subseteq Reservation
    BY DEF KInv, Orderly
  <2> QED
    BY <1>2, <1>3, <1>7, <2>1, <2>2, EffectIsTurn
<1>9. /\ RequestsOf(branch', x) = <<>> /\ Len(branch') = Len(branch) + 1
      /\ \A y \in Known(branch) : RequestsOf(branch', y) = RequestsOf(branch, y)
  BY <1>2, <1>3, <1>5, LastLonger, Longer
<1>10. root'[p] = t /\ \A q \in Root \ {p} : root'[q] = root[q]
  BY <1>2, <1>3
<1>11. \A q \in Root : root'[q].head = Len(branch') =>
         root'[q].requests = RequestsOf(branch', root'[q].run)
  BY <1>3, <1>6, <1>9, <1>10
<1>12. \A q \in Root : Busy(root'[q]) =>
         /\ Len(root'[q].requests) \in DOMAIN RequestsOf(branch', root'[q].run)
         /\ RequestsOf(branch', root'[q].run)[Len(root'[q].requests)].status = "OPEN"
  <2> SUFFICES ASSUME NEW q \in Root, Busy(root'[q])
               PROVE  /\ Len(root'[q].requests) \in DOMAIN RequestsOf(branch', root'[q].run)
                      /\ RequestsOf(branch', root'[q].run)[Len(root'[q].requests)].status = "OPEN"
    OBVIOUS
  <2>1. q # p /\ root'[q] = root[q] /\ Busy(root[q]) /\ root[q].pc # "none"
    BY <1>6, <1>10 DEF Busy
  <2>2. RequestsOf(branch', root[q].run) = RequestsOf(branch, root[q].run)
    BY <1>3, <1>9, <2>1
  <2> QED
    BY <2>1, <2>2 DEF KInv, Position
<1>13. \A q \in Root : root'[q].head = Len(branch') =>
         Extends(branch', root'[q].run, root'[q].requests, clock')
  BY <1>11 DEF Extends
<1> QED
  BY <1>8, <1>11, <1>12, <1>13 DEF KInv, Position

\* The roots change, the ledger and what they are at work on does not.
LEMMA RootTurns ==
  ASSUME IInv, KInv, NEW p \in Root, NEW t,
         UNCHANGED <<branch, clock>>, root' = [root EXCEPT ![p] = t],
         t.pc # "none" /\ t.head = Len(branch) => t.requests = RequestsOf(branch, t.run),
         \/ ~Busy(t)
         \/ Busy(root[p]) /\ t.run = root[p].run /\ t.requests = root[p].requests
  PROVE  KInv'
<1>1. root \in [Root -> Locals] /\ root'[p] = t /\ \A q \in Root \ {p} : root'[q] = root[q]
  BY RootKnows
<1>2. \A q \in Root : root'[q].pc # "none" /\ root'[q].head = Len(branch) =>
        Extends(branch, root'[q].run, root'[q].requests, clock)
  <2>1. t.pc # "none" /\ t.head = Len(branch) => Extends(branch, t.run, t.requests, clock)
    BY DEF Extends
  <2> QED
    BY <1>1, <2>1 DEF KInv
<1>3. \A q \in Root : Busy(root'[q]) =>
        Busy(root[q]) /\ root'[q].run = root[q].run /\ root'[q].requests = root[q].requests
  BY <1>1
<1>4. \A q \in Root : Busy(root'[q]) =>
        /\ Len(root'[q].requests) \in DOMAIN RequestsOf(branch, root'[q].run)
        /\ RequestsOf(branch, root'[q].run)[Len(root'[q].requests)].status = "OPEN"
  BY <1>3 DEF KInv, Position
<1>5. \A q, s \in Root :
        /\ root'[s].pc = "halted" /\ root'[s].head = Len(branch)
        /\ root'[s].requests # RequestsOf(branch, root'[s].run)
        /\ Busy(root'[q]) /\ root'[q].run = root'[s].run
        => Len(root'[q].requests) # Len(root'[s].requests)
  <2>1. \A s \in Root : /\ root'[s].pc = "halted" /\ root'[s].head = Len(branch)
                        /\ root'[s].requests # RequestsOf(branch, root'[s].run)
                        => root'[s] = root[s]
    BY <1>1
  <2> QED
    BY <1>3, <2>1 DEF KInv, Position
<1> QED
  BY <1>2, <1>4, <1>5 DEF KInv, Position

LEMMA RestoreTurns ==
  ASSUME IInv, KInv, NEW p \in Root, Restore(p)
  PROVE  KInv' /\ [Turn!Next]_Turn!vars
<1>1. PICK x \in Known(branch) : root' = [root EXCEPT ![p] = Restored(x, RequestsOf(branch, x))]
  BY DEF Restore
<1>2. UNCHANGED <<branch, wire, clock>>
  BY DEF Restore
<1> DEFINE t == Restored(x, RequestsOf(branch, x))
<1>3. t.run = x /\ t.requests = RequestsOf(branch, x) /\ ~Busy(t)
  BY DEF Restored, Busy
<1> HIDE DEF t
<1>4. KInv'
  BY <1>1, <1>2, <1>3, RootTurns DEF t
<1>5. UNCHANGED Turn!vars
  BY <1>2 DEF Turn!vars
<1> QED
  BY <1>4, <1>5

LEMMA CrashTurns ==
  ASSUME IInv, KInv, NEW p \in Root, Crash(p)
  PROVE  KInv' /\ [Turn!Next]_Turn!vars
<1>1. root' = [root EXCEPT ![p] = NoRoot] /\ UNCHANGED <<branch, wire, clock>>
  BY DEF Crash
<1>2. NoRoot.pc = "none" /\ ~Busy(NoRoot)
  BY DEF NoRoot, Busy
<1>3. KInv'
  BY <1>1, <1>2, RootTurns
<1>4. UNCHANGED Turn!vars
  BY <1>1 DEF Turn!vars
<1> QED
  BY <1>3, <1>4

\* The request leaves while its reservation is the one unresolved.
LEMMA SendTurns ==
  ASSUME IInv, KInv, NEW p \in Root, Send(p)
  PROVE  KInv' /\ [Turn!Next]_Turn!vars
<1> DEFINE w == [run |-> root[p].run, position |-> Position(p), at |-> clock, by |-> p]
           t == [root[p] EXCEPT !.pc = "waiting"]
           n == <<root[p].run, Position(p)>>
<1>1. /\ root[p].pc = "sending" /\ wire' = wire \cup {w} /\ root' = [root EXCEPT ![p] = t]
      /\ UNCHANGED <<branch, clock, used>>
  BY DEF Send, At
<1>2. root[p] \in Locals /\ "waiting" \in RootState /\ 0 \in Nat
  BY RootKnows DEF RootState
<1>3. /\ t.pc = "waiting" /\ t.run = root[p].run /\ t.head = root[p].head
      /\ t.requests = root[p].requests
  BY <1>2, Altered
<1>4. w.run = root[p].run /\ w.position = Position(p)
  OBVIOUS
<1> HIDE DEF t, w
<1>5. root[p].head = Len(branch) => root[p].requests = RequestsOf(branch, root[p].run)
  <2>1. root[p].head = Len(branch) => ~Moved(p)
    BY DEF Moved
  <2> QED
    BY <1>1, <2>1, LiveKnows DEF Live
<1>6. KInv'
  BY <1>1, <1>3, <1>5, RootTurns DEF Busy
<1>7. n \in Unresolved(branch) /\ n \in Reservation
  <2>1. /\ Position(p) \in DOMAIN RequestsOf(branch, root[p].run)
        /\ RequestsOf(branch, root[p].run)[Position(p)].status = "OPEN"
    BY <1>1 DEF KInv, Busy
  <2>2. root[p].run \in Known(branch)
    <3>1. Knowing(branch, root[p]) /\ branch \in Seq(Commit) /\ root[p].head \in Nat
      BY RootKnows
    <3> QED
      BY <1>1, <3>1, KnownPrefix DEF Knowing
  <2>3. n \in Unresolved(branch)
    BY <2>1, <2>2, Opened DEF Openings
  <2> QED
    BY <2>3 DEF KInv, Orderly, Unresolved
<1>8. n \notin {<<v.run, v.position>> : v \in wire}
  <2>1. \A v \in wire : v.run = root[p].run => v.position # Position(p)
    BY <1>1 DEF IInv, Sole
  <2> QED
    BY <2>1
<1>9. {<<v.run, v.position>> : v \in wire'} = {<<v.run, v.position>> : v \in wire} \cup {n}
  BY <1>1, <1>4
<1> HIDE DEF n
<1>10. \E m \in Reservation : Turn!Send(m)
  BY <1>1, <1>7, <1>8, <1>9 DEF Turn!Send
<1>11. Turn!Next
  BY <1>10 DEF Turn!Next
<1> QED
  BY <1>6, <1>11

LEMMA TickTurns ==
  ASSUME IInv, KInv, Tick
  PROVE  KInv' /\ [Turn!Next]_Turn!vars
<1>1. /\ clock \in Nat /\ clock' \in Nat /\ clock <= clock' /\ UNCHANGED <<branch, root, wire>>
  BY RootKnows DEF IInv, Bounds, Tick
<1>2. Orderly(branch, clock')
  BY <1>1, OrderlyLater DEF KInv, IInv, Sound
<1>3. \A p \in Root : root[p].pc # "none" /\ root[p].head = Len(branch) =>
        Extends(branch, root[p].run, root[p].requests, clock')
  <2> SUFFICES ASSUME NEW p \in Root, root[p].pc # "none", root[p].head = Len(branch)
               PROVE  Extends(branch, root[p].run, root[p].requests, clock')
    OBVIOUS
  <2>1. branch \in Seq(Commit) /\ root[p].requests \in Seq(Request) /\ Knowing(branch, root[p])
    BY RootKnows
  <2>2. root[p].run \in Known(branch)
    BY <2>1, WholePrefix DEF Knowing
  <2>3. Extends(branch, root[p].run, root[p].requests, clock)
    BY DEF KInv
  <2> QED
    BY <1>1, <2>1, <2>2, <2>3, ExtendsLater
<1>4. KInv'
  BY <1>1, <1>2, <1>3 DEF KInv, Position
<1>5. UNCHANGED Turn!vars
  BY <1>1 DEF Turn!vars
<1> QED
  BY <1>4, <1>5

LEMMA InitTurns ==
  ASSUME Init
  PROVE  KInv /\ Turn!Init
<1>1. PICK past \in Pasts : branch = past.branch /\ clock = past.clock
  BY DEF Init
<1>2. Orderly(branch, clock) /\ SettledButOne(branch)
  BY <1>1, PastsAssumption DEF Orderly
<1>3. \A p \in Root : root[p].pc = "none" /\ ~Busy(root[p])
  BY DEF Init, NoRoot, Busy
<1>4. KInv
  BY <1>2, <1>3 DEF KInv
<1>5. Turn!Init
  BY <1>2 DEF Turn!Init, SettledButOne, Orderly, Unresolved, Init
<1> QED
  BY <1>4, <1>5

LEMMA NextTurns ==
  ASSUME IInv, KInv, [Next]_vars
  PROVE  KInv' /\ [Turn!Next]_Turn!vars
<1>1. ASSUME NEW p \in Root, Step(p) PROVE KInv' /\ [Turn!Next]_Turn!vars
  <2>1. CASE Create(p)
    BY <2>1, CreateTurns
  <2>2. CASE Restore(p)
    BY <2>2, RestoreTurns
  <2>3. CASE Reserve(p)
    BY <2>3, ReserveTurns
  <2>4. CASE Deny(p)
    BY <2>4, DenyTurns
  <2>5. CASE EnterSend(p)
    BY <2>5, EnterSendTurns
  <2>6. CASE RefuseSend(p)
    BY <2>6, ObserveTurns DEF RefuseSend, At, Busy, Observed
  <2>7. CASE Send(p)
    BY <2>7, SendTurns
  <2>8. CASE Answer(p)
    <3>1. PICK status \in Observed : Observe(p, status)
      BY <2>8 DEF Answer
    <3> QED
      BY <2>8, <3>1, ObserveTurns DEF Answer, At, Busy
  <2>9. CASE Overrun(p)
    BY <2>9, HaltTurns DEF Overrun, At, Stage
  <2>10. CASE Revoke(p)
    BY <2>10, HaltTurns DEF Revoke, Stage
  <2>11. CASE Crash(p)
    BY <2>11, CrashTurns
  <2> QED
    BY <1>1, <2>1, <2>2, <2>3, <2>4, <2>5, <2>6, <2>7, <2>8, <2>9, <2>10, <2>11 DEF Step
<1>2. CASE Tick
  BY <1>2, TickTurns
<1>3. CASE UNCHANGED vars
  <2>1. KInv'
    BY <1>3 DEF KInv, Position, vars
  <2>2. UNCHANGED Turn!vars
    BY <1>3 DEF Turn!vars, vars
  <2> QED
    BY <2>1, <2>2
<1> QED
  BY <1>1, <1>2, <1>3 DEF Next

\* A target and its organization are left alone after each observation, the longer
\* the more failures there have been in a row, by all runs but the one that requested
\* it (assertRepositoryGate).
THEOREM BackingOff == Spec => []BacksOff
<1>1. Init => KInv
  BY InitTurns
<1>2. IInv /\ KInv /\ [Next]_vars => KInv'
  BY NextTurns
<1>3. KInv => BacksOff
  BY DEF KInv, Orderly, BacksOff
<1> QED
  BY <1>1, <1>2, <1>3, Invariant, PTL DEF Spec

\* The roots take turns: a request holds the ledger's gate from its reservation to
\* its observation, it leaves while it does, once, and no reservation is made twice
\* or forgotten (persist, assertRepositoryGate).
THEOREM TakingTurns == Spec => TakesTurns
<1>1. Init => KInv /\ Turn!Init
  BY InitTurns
<1>2. IInv /\ KInv /\ [Next]_vars => KInv' /\ [Turn!Next]_Turn!vars
  BY NextTurns
<1> QED
  BY <1>1, <1>2, Invariant, PTL DEF Spec, TakesTurns, Turn!Spec
=============================================================================
