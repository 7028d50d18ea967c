-------------------------- MODULE SchedulerBatchProofs --------------------------
(***************************************************************************)
(* Theorems about SchedulerBatch, for any authorizations, plans, batches,  *)
(* runners and bounds.                                                     *)
(*                                                                         *)
(* A push succeeds only on the head its process knows, so it is enough     *)
(* that every process is right about the branch as its own checkout has    *)
(* it: what it has captured is answered and unbound there, and where it is *)
(* about to append a manifest nothing is unsettled there.  A checkout is a *)
(* prefix of the branch, and what others append does not touch a prefix.   *)
(*                                                                         *)
(* What a run seals agrees because a group is in one place at a time: left *)
(* to do, being executed, committed or deferred.  The recovered outcomes   *)
(* are exempt, for the branch may hold overlapping ones.                   *)
(***************************************************************************)
EXTENDS SchedulerBatch, TLAPS

Locals == [pc : RunState, batch : Batch \cup {NoBatch}, base : Nat,
           recovered : SUBSET SUBSET Authorization, committed : SUBSET SUBSET Authorization,
           deferred : SUBSET Authorization, todo : SUBSET SUBSET Authorization, group : SUBSET Authorization,
           next : Nat, captured : SUBSET Nat, again : BOOLEAN, conflict : BOOLEAN]

Inside(g) == \E e \in Endpoint : g \subseteq Planned(e)

\* The locals t have their types, with the branch h.
Typed(h, t) ==
  /\ t \in Locals
  /\ t.pc = "idle" <=> t.batch = NoBatch
  /\ t.base <= Len(h)
  /\ \A g \in t.todo \cup ({t.group} \ {{}}) : Inside(g)
  /\ t.captured \subseteq 1 .. t.base

\* States in which a batch run holds captured attempts it may yet bind.
Capturing == {"declaring", "collecting", "reserved", "answered", "concluding"}

\* What the process with locals t relies on is so in its checkout of h.
Relied(h, t) ==
  LET view == SubSeq(h, 1, t.base) IN
  /\ t.pc \in Capturing =>
       \A n \in t.captured :
         n \in Completed(view) /\ n \notin Bound(view) /\ h[n].auth \in t.group
  /\ t.pc \in {"reserved", "answered"} => t.base > 0 /\ h[t.base].auth \in t.group
  /\ t.pc = "appending" => MayManifest(view, t.batch, t.committed)

Sound(h) == h \in Seq(Commit) /\ ClosesEarlier(h) /\ BindsOnce(h) /\ ManifestsStand(h)

Inv ==
  /\ Sound(branch)
  /\ clock \in 0 .. MaxTime
  /\ DOMAIN run = Runner
  /\ \A r \in Runner : Typed(branch, run[r]) /\ Relied(branch, run[r])

-----------------------------------------------------------------------------
(* Branches and their prefixes.                                            *)

\* A prefix has its length and its commits.
LEMMA Prefix ==
  ASSUME NEW h \in Seq(Commit), NEW n \in 0 .. Len(h)
  PROVE  /\ SubSeq(h, 1, n) \in Seq(Commit)
         /\ Len(SubSeq(h, 1, n)) = n
         /\ DOMAIN SubSeq(h, 1, n) = 1 .. n
         /\ \A i \in 1 .. n : SubSeq(h, 1, n)[i] = h[i]
         /\ DOMAIN h = 1 .. Len(h) /\ Len(h) \in Nat
         /\ \A i \in 1 .. Len(h) : h[i] \in Commit
OBVIOUS

\* The branch after one more commit.
LEMMA Longer ==
  ASSUME NEW h \in Seq(Commit), NEW c \in Commit
  PROVE  /\ Append(h, c) \in Seq(Commit)
         /\ Len(Append(h, c)) = Len(h) + 1 /\ Len(h) \in Nat
         /\ DOMAIN h = 1 .. Len(h)
         /\ DOMAIN Append(h, c) = 1 .. Len(h) + 1
         /\ \A i \in 1 .. Len(h) : Append(h, c)[i] = h[i] /\ h[i] \in Commit
         /\ Append(h, c)[Len(h) + 1] = c
OBVIOUS

\* What others append does not touch a prefix.
LEMMA PrefixStays ==
  ASSUME NEW h \in Seq(Commit), NEW c \in Commit, NEW n \in 0 .. Len(h)
  PROVE  SubSeq(Append(h, c), 1, n) = SubSeq(h, 1, n)
<1>1. /\ SubSeq(h, 1, n) \in Seq(Commit) /\ Len(SubSeq(h, 1, n)) = n
      /\ \A i \in 1 .. n : SubSeq(h, 1, n)[i] = h[i]
  BY Prefix
<1>2. n \in 0 .. Len(Append(h, c)) /\ Append(h, c) \in Seq(Commit)
  BY Longer
<1>3. /\ SubSeq(Append(h, c), 1, n) \in Seq(Commit) /\ Len(SubSeq(Append(h, c), 1, n)) = n
      /\ \A i \in 1 .. n : SubSeq(Append(h, c), 1, n)[i] = Append(h, c)[i]
  BY <1>2, Prefix
<1>4. \A i \in 1 .. n : Append(h, c)[i] = h[i]
  BY Longer
<1> QED
  BY <1>1, <1>3, <1>4

LEMMA WholePrefix ==
  ASSUME NEW h \in Seq(Commit)
  PROVE  SubSeq(h, 1, Len(h)) = h
<1>1. Len(h) \in 0 .. Len(h)
  OBVIOUS
<1>2. /\ SubSeq(h, 1, Len(h)) \in Seq(Commit) /\ Len(SubSeq(h, 1, Len(h))) = Len(h)
      /\ \A i \in 1 .. Len(h) : SubSeq(h, 1, Len(h))[i] = h[i]
  BY <1>1, Prefix
<1> QED
  BY <1>2

\* The commits of a kind, after one more.
LEMMA OfLonger ==
  ASSUME NEW h \in Seq(Commit), NEW c \in Commit, NEW kind
  PROVE  /\ Of(Append(h, c), kind)
              = Of(h, kind) \cup (IF c.kind = kind THEN {Len(h) + 1} ELSE {})
         /\ Of(h, kind) \subseteq 1 .. Len(h)
BY Longer DEF Of

LEMMA CompletedLonger ==
  ASSUME NEW h \in Seq(Commit), NEW c \in Commit
  PROVE  Completed(Append(h, c))
           = Completed(h) \cup (IF c.kind = "COMPLETE" THEN {c.attempt} ELSE {})
<1>1. \A i \in Of(h, "COMPLETE") : Append(h, c)[i] = h[i]
  BY Longer, OfLonger
<1>2. Append(h, c)[Len(h) + 1] = c
  BY Longer
<1>3. Of(Append(h, c), "COMPLETE")
        = Of(h, "COMPLETE") \cup (IF c.kind = "COMPLETE" THEN {Len(h) + 1} ELSE {})
  BY OfLonger
<1> QED
  BY <1>1, <1>2, <1>3 DEF Completed

LEMMA BoundLonger ==
  ASSUME NEW h \in Seq(Commit), NEW c \in Commit
  PROVE  Bound(Append(h, c))
           = Bound(h) \cup (IF c.kind = "OUTCOME" THEN c.attempts ELSE {})
<1>1. \A i \in Of(h, "OUTCOME") : Append(h, c)[i] = h[i]
  BY Longer, OfLonger
<1>2. Append(h, c)[Len(h) + 1] = c
  BY Longer
<1>3. Of(Append(h, c), "OUTCOME")
        = Of(h, "OUTCOME") \cup (IF c.kind = "OUTCOME" THEN {Len(h) + 1} ELSE {})
  BY OfLonger
<1>4. ASSUME NEW n
      PROVE  n \in Bound(Append(h, c)) <=>
               n \in Bound(h) \/ (c.kind = "OUTCOME" /\ n \in c.attempts)
  <2>1. n \in Bound(Append(h, c)) <=>
          \E i \in Of(Append(h, c), "OUTCOME") : n \in Append(h, c)[i].attempts
    BY DEF Bound
  <2>2. n \in Bound(h) <=> \E i \in Of(h, "OUTCOME") : n \in h[i].attempts
    BY DEF Bound
  <2> QED
    BY <1>1, <1>2, <1>3, <2>1, <2>2
<1> QED
  BY <1>4

\* Attempts that have been completed are earlier commits.
LEMMA CompletedEarlier ==
  ASSUME NEW h \in Seq(Commit), ClosesEarlier(h)
  PROVE  \A n \in Completed(h) : n \in 1 .. Len(h) - 1
<1>1. DOMAIN h = 1 .. Len(h) /\ Len(h) \in Nat
  OBVIOUS
<1>2. \A i \in Of(h, "COMPLETE") : i \in 1 .. Len(h) /\ h[i].attempt \in 1 .. i - 1
  BY <1>1 DEF ClosesEarlier, Closings, Of
<1> QED
  BY <1>1, <1>2 DEF Completed

\* A prefix is closed by closings of the whole.
LEMMA PrefixCloses ==
  ASSUME NEW h \in Seq(Commit), NEW n \in 0 .. Len(h), ClosesEarlier(h)
  PROVE  /\ ClosesEarlier(SubSeq(h, 1, n))
         /\ \A m \in Completed(SubSeq(h, 1, n)) : m \in 1 .. n - 1
<1>1. /\ SubSeq(h, 1, n) \in Seq(Commit) /\ Len(SubSeq(h, 1, n)) = n
      /\ DOMAIN SubSeq(h, 1, n) = 1 .. n /\ DOMAIN h = 1 .. Len(h)
      /\ \A i \in 1 .. n : SubSeq(h, 1, n)[i] = h[i]
  BY Prefix
<1>2. \A i \in Closings(SubSeq(h, 1, n)) :
        i \in 1 .. n /\ i \in Closings(h) /\ SubSeq(h, 1, n)[i] = h[i]
  BY <1>1 DEF Closings, Of
<1>3. ClosesEarlier(SubSeq(h, 1, n))
  BY <1>2 DEF ClosesEarlier
<1> QED
  BY <1>1, <1>3, CompletedEarlier

\* What an outcome binds are commits of the branch.
LEMMA AttemptsWithin ==
  ASSUME NEW h, Sound(h)
  PROVE  \A i \in Of(h, "OUTCOME") : h[i].attempts \subseteq 1 .. Len(h)
<1>1. h \in Seq(Commit) /\ DOMAIN h = 1 .. Len(h) /\ Len(h) \in Nat
  BY DEF Sound
<1>2. ASSUME NEW i \in Of(h, "OUTCOME") PROVE h[i].attempts \subseteq 1 .. Len(h)
  <2>1. i \in 1 .. Len(h) /\ i - 1 \in 0 .. Len(h)
    BY <1>1 DEF Of
  <2>2. \A m \in Completed(SubSeq(h, 1, i - 1)) : m \in 1 .. i - 2
    BY <1>1, <2>1, PrefixCloses DEF Sound
  <2>3. h[i].attempts \subseteq Completed(SubSeq(h, 1, i - 1))
    BY DEF Sound, BindsOnce
  <2> QED
    BY <1>1, <2>1, <2>2, <2>3
<1> QED
  BY <1>2

\* Closings stay behind what they close.
LEMMA ClosesLonger ==
  ASSUME NEW h \in Seq(Commit), NEW c \in Commit, ClosesEarlier(h),
         c.kind \in {"COMPLETE", "RECOVER"} => c.attempt \in 1 .. Len(h)
  PROVE  ClosesEarlier(Append(h, c))
<1>1. ASSUME NEW i \in Closings(Append(h, c)) PROVE Append(h, c)[i].attempt \in 1 .. i - 1
  <2>1. i \in Closings(h) \/ (i = Len(h) + 1 /\ c.kind \in {"COMPLETE", "RECOVER"})
    BY OfLonger DEF Closings
  <2>2. CASE i \in Closings(h)
    <3>1. i \in 1 .. Len(h)
      BY <2>2, OfLonger DEF Closings
    <3> QED
      BY <2>2, <3>1, Longer DEF ClosesEarlier
  <2>3. CASE i = Len(h) + 1 /\ c.kind \in {"COMPLETE", "RECOVER"}
    BY <2>3, Longer
  <2> QED
    BY <2>1, <2>2, <2>3
<1> QED
  BY <1>1 DEF ClosesEarlier

\* A new outcome may bind what is answered and unbound.
LEMMA BindsLonger ==
  ASSUME NEW h \in Seq(Commit), NEW c \in Commit, BindsOnce(h),
         c.kind = "OUTCOME" =>
           /\ OutcomesOf(h, c.execution) = {}
           /\ \A n \in c.attempts : /\ n \in 1 .. Len(h)
                                    /\ n \in Completed(h) /\ n \notin Bound(h)
                                    /\ h[n].auth \in c.execution.auths,
         \A i \in Of(h, "OUTCOME") : h[i].attempts \subseteq 1 .. Len(h)
  PROVE  BindsOnce(Append(h, c))
<1> DEFINE g == Append(h, c)
<1>1. /\ Len(h) \in Nat /\ g[Len(h) + 1] = c
      /\ \A i \in 1 .. Len(h) : g[i] = h[i]
      /\ Of(g, "OUTCOME") = Of(h, "OUTCOME") \cup (IF c.kind = "OUTCOME" THEN {Len(h) + 1} ELSE {})
      /\ Of(h, "OUTCOME") \subseteq 1 .. Len(h)
  BY Longer, OfLonger
<1>2. \A n \in 0 .. Len(h) : SubSeq(g, 1, n) = SubSeq(h, 1, n)
  BY PrefixStays
<1>3. SubSeq(g, 1, Len(h)) = h
  BY <1>1, <1>2, WholePrefix
<1> HIDE DEF g
<1>4. ASSUME NEW i \in Of(h, "OUTCOME"), c.kind = "OUTCOME"
      PROVE  c.attempts \cap h[i].attempts = {} /\ c.execution # h[i].execution
  BY <1>4 DEF Bound, OutcomesOf
<1>5. ASSUME NEW i \in Of(g, "OUTCOME")
      PROVE  /\ g[i].attempts \subseteq Completed(SubSeq(g, 1, i - 1))
             /\ \A n \in g[i].attempts : g[n].auth \in g[i].execution.auths
             /\ \A j \in Of(g, "OUTCOME") : j # i =>
                  /\ g[i].attempts \cap g[j].attempts = {}
                  /\ g[i].execution # g[j].execution
  <2>1. CASE i \in Of(h, "OUTCOME")
    <3>1. i \in 1 .. Len(h) /\ g[i] = h[i] /\ SubSeq(g, 1, i - 1) = SubSeq(h, 1, i - 1)
      BY <1>1, <1>2, <2>1
    <3>2. g[i].attempts \subseteq Completed(SubSeq(g, 1, i - 1))
      BY <2>1, <3>1 DEF BindsOnce
    <3>3. \A n \in g[i].attempts : g[n].auth \in g[i].execution.auths
      BY <1>1, <2>1, <3>1 DEF BindsOnce
    <3>4. ASSUME NEW j \in Of(g, "OUTCOME"), j # i
          PROVE  g[i].attempts \cap g[j].attempts = {} /\ g[i].execution # g[j].execution
      <4>1. CASE j \in Of(h, "OUTCOME")
        BY <1>1, <2>1, <3>1, <3>4, <4>1 DEF BindsOnce
      <4>2. CASE j = Len(h) + 1 /\ c.kind = "OUTCOME"
        BY <1>1, <1>4, <2>1, <3>1, <4>2
      <4> QED
        BY <1>1, <4>1, <4>2
    <3> QED
      BY <3>2, <3>3, <3>4
  <2>2. CASE i = Len(h) + 1 /\ c.kind = "OUTCOME"
    <3>1. g[i] = c /\ SubSeq(g, 1, i - 1) = h
      BY <1>1, <1>3, <2>2
    <3>2. \A n \in c.attempts : n \in Completed(h) /\ g[n].auth \in c.execution.auths
      BY <1>1, <2>2
    <3>3. ASSUME NEW j \in Of(g, "OUTCOME"), j # i
          PROVE  c.attempts \cap g[j].attempts = {} /\ c.execution # g[j].execution
      <4>1. j \in Of(h, "OUTCOME") /\ g[j] = h[j]
        BY <1>1, <2>2, <3>3
      <4> QED
        BY <1>4, <2>2, <4>1
    <3> QED
      BY <3>1, <3>2, <3>3
  <2> QED
    BY <1>1, <2>1, <2>2
<1>6. BindsOnce(g)
  BY <1>5 DEF BindsOnce
<1> QED
  BY <1>6 DEF g

\* A new manifest stands on what is settled below it.
LEMMA ManifestsLonger ==
  ASSUME NEW h \in Seq(Commit), NEW c \in Commit, ManifestsStand(h),
         c.kind = "MANIFEST" => MayManifest(h, c.batch, c.executions)
  PROVE  ManifestsStand(Append(h, c))
<1>1. ASSUME NEW n \in Of(Append(h, c), "MANIFEST")
      PROVE  MayManifest(SubSeq(Append(h, c), 1, n - 1), Append(h, c)[n].batch,
                         Append(h, c)[n].executions)
  <2>1. CASE n \in Of(h, "MANIFEST")
    <3>1. n \in 1 .. Len(h) /\ Append(h, c)[n] = h[n] /\ n - 1 \in 0 .. Len(h)
      BY <2>1, OfLonger, Longer
    <3>2. SubSeq(Append(h, c), 1, n - 1) = SubSeq(h, 1, n - 1)
      BY <3>1, PrefixStays
    <3> QED
      BY <2>1, <3>1, <3>2 DEF ManifestsStand
  <2>2. CASE n = Len(h) + 1 /\ c.kind = "MANIFEST"
    <3>1. Append(h, c)[n] = c /\ n - 1 = Len(h) /\ Len(h) \in 0 .. Len(h)
      BY <2>2, Longer
    <3>2. SubSeq(Append(h, c), 1, n - 1) = h
      BY <3>1, PrefixStays, WholePrefix
    <3> QED
      BY <2>2, <3>1, <3>2
  <2> QED
    BY <2>1, <2>2, OfLonger
<1> QED
  BY <1>1 DEF ManifestsStand

-----------------------------------------------------------------------------
(* Processes.                                                              *)

\* A commit of somebody's takes nothing from what the others rely on.
LEMMA ReliedStays ==
  ASSUME NEW h \in Seq(Commit), NEW c \in Commit, NEW t,
         Typed(h, t), Relied(h, t)
  PROVE  Typed(Append(h, c), t) /\ Relied(Append(h, c), t)
<1>1. /\ t.base \in 0 .. Len(h) /\ Len(Append(h, c)) = Len(h) + 1 /\ Len(h) \in Nat
      /\ t.captured \subseteq 1 .. t.base
  BY Longer DEF Typed, Locals
<1>2. SubSeq(Append(h, c), 1, t.base) = SubSeq(h, 1, t.base)
  BY <1>1, PrefixStays
<1>3. \A n \in 1 .. t.base : Append(h, c)[n] = h[n]
  BY <1>1, Longer
<1>4. Typed(Append(h, c), t)
  BY <1>1 DEF Typed
<1>5. Relied(Append(h, c), t)
  <2> DEFINE view == SubSeq(h, 1, t.base)
  <2>1. SubSeq(Append(h, c), 1, t.base) = view
    BY <1>2
  <2> HIDE DEF view
  <2>2. t.pc \in Capturing =>
          \A n \in t.captured :
            n \in Completed(view) /\ n \notin Bound(view) /\ Append(h, c)[n].auth \in t.group
    BY <1>1, <1>3 DEF Relied, view
  <2>3. t.pc \in {"reserved", "answered"} => t.base > 0 /\ Append(h, c)[t.base].auth \in t.group
    BY <1>1, <1>3 DEF Relied
  <2>4. t.pc = "appending" => MayManifest(view, t.batch, t.committed)
    BY DEF Relied, view
  <2> QED
    BY <2>1, <2>2, <2>3, <2>4 DEF Relied
<1> QED
  BY <1>4, <1>5

\* A step of process r that leaves the branch alone.
LEMMA OwnStep ==
  ASSUME Inv, NEW r \in Runner, NEW t, Become(r, t), UNCHANGED <<branch, clock>>,
         Typed(branch, t), Relied(branch, t)
  PROVE  Inv'
<1>1. DOMAIN run' = Runner /\ \A q \in Runner : run'[q] = IF q = r THEN t ELSE run[q]
  BY DEF Inv, Become
<1> QED
  BY <1>1 DEF Inv

\* A step of process r that appends commit c.
LEMMA OwnCommit ==
  ASSUME Inv, NEW r \in Runner, NEW t, NEW c \in Commit, Become(r, t), UNCHANGED clock,
         branch' = Append(branch, c), Sound(Append(branch, c)),
         Typed(Append(branch, c), t), Relied(Append(branch, c), t)
  PROVE  Inv'
<1>1. DOMAIN run' = Runner /\ \A q \in Runner : run'[q] = IF q = r THEN t ELSE run[q]
  BY DEF Inv, Become
<1>2. \A q \in Runner : Typed(Append(branch, c), run[q]) /\ Relied(Append(branch, c), run[q])
  BY ReliedStays DEF Inv, Sound
<1> QED
  BY <1>1, <1>2 DEF Inv

\* A step of nobody's that appends commit c.
LEMMA OthersCommit ==
  ASSUME Inv, NEW c \in Commit, UNCHANGED <<run, clock>>,
         branch' = Append(branch, c), Sound(Append(branch, c))
  PROVE  Inv'
<1>1. \A q \in Runner : Typed(Append(branch, c), run[q]) /\ Relied(Append(branch, c), run[q])
  BY ReliedStays DEF Inv, Sound
<1> QED
  BY <1>1 DEF Inv

\* A commit that neither binds nor seals.
LEMMA SoundPlain ==
  ASSUME NEW h, Sound(h), NEW c \in Commit, c.kind \notin {"OUTCOME", "MANIFEST"},
         c.kind \in {"COMPLETE", "RECOVER"} => c.attempt \in 1 .. Len(h)
  PROVE  Sound(Append(h, c))
<1>1. h \in Seq(Commit) /\ Append(h, c) \in Seq(Commit)
  BY Longer DEF Sound
<1>2. ClosesEarlier(Append(h, c))
  BY <1>1, ClosesLonger DEF Sound
<1>3. BindsOnce(Append(h, c))
  BY <1>1, AttemptsWithin, BindsLonger DEF Sound
<1>4. ManifestsStand(Append(h, c))
  BY <1>1, ManifestsLonger DEF Sound
<1> QED
  BY <1>1, <1>2, <1>3, <1>4 DEF Sound

\* An outcome that binds what is answered and unbound.
LEMMA SoundOutcome ==
  ASSUME NEW h, Sound(h), NEW c \in OutcomeCommit,
         OutcomesOf(h, c.execution) = {},
         \A n \in c.attempts :
           n \in Completed(h) /\ n \notin Bound(h) /\ h[n].auth \in c.execution.auths
  PROVE  Sound(Append(h, c))
<1>1. h \in Seq(Commit) /\ c \in Commit /\ Append(h, c) \in Seq(Commit) /\ c.kind = "OUTCOME"
  BY Longer DEF Sound, Commit, OutcomeCommit
<1>2. ClosesEarlier(Append(h, c))
  BY <1>1, ClosesLonger DEF Sound
<1>3. \A n \in c.attempts : n \in 1 .. Len(h)
  BY <1>1, CompletedEarlier DEF Sound
<1>4. BindsOnce(Append(h, c))
  BY <1>1, <1>3, AttemptsWithin, BindsLonger DEF Sound
<1>5. ManifestsStand(Append(h, c))
  BY <1>1, ManifestsLonger DEF Sound
<1> QED
  BY <1>1, <1>2, <1>4, <1>5 DEF Sound

LEMMA SoundManifest ==
  ASSUME NEW h, Sound(h), NEW c \in ManifestCommit, MayManifest(h, c.batch, c.executions)
  PROVE  Sound(Append(h, c))
<1>1. h \in Seq(Commit) /\ c \in Commit /\ Append(h, c) \in Seq(Commit) /\ c.kind = "MANIFEST"
  BY Longer DEF Sound, Commit, ManifestCommit
<1>2. ClosesEarlier(Append(h, c))
  BY <1>1, ClosesLonger DEF Sound
<1>3. BindsOnce(Append(h, c))
  BY <1>1, AttemptsWithin, BindsLonger DEF Sound
<1>4. ManifestsStand(Append(h, c))
  BY <1>1, ManifestsLonger DEF Sound
<1> QED
  BY <1>1, <1>2, <1>3, <1>4 DEF Sound

\* The locals of a process.
LEMMA LocalsOf ==
  ASSUME Inv, NEW r \in Runner
  PROVE  /\ run[r] \in Locals
         /\ Typed(branch, run[r]) /\ Relied(branch, run[r])
         /\ run[r].pc # "idle" => run[r].batch \in Batch
         /\ run[r].base \in 0 .. Len(branch)
         /\ branch \in Seq(Commit) /\ Len(branch) \in Nat
BY NoBatchAssumption DEF Inv, Typed, Locals, Sound

\* Locals on which nothing rests.
LEMMA Resting ==
  ASSUME NEW t \in Locals, t.pc \notin Capturing \cup {"appending"},
         t.pc = "idle" <=> t.batch = NoBatch,
         t.base <= Len(branch), t.captured \subseteq 1 .. t.base,
         \A g \in t.todo \cup ({t.group} \ {{}}) : Inside(g)
  PROVE  Typed(branch, t) /\ Relied(branch, t)
BY DEF Typed, Relied, Capturing

\* A batch run ends.
LEMMA EndInv ==
  ASSUME Inv, NEW r \in Runner, End(r), UNCHANGED <<branch, clock>>
  PROVE  Inv'
<1> DEFINE t == Blank(NoBatch)
<1>1. t \in Locals
  BY DEF Blank, Locals, RunState
<1>2. /\ t.pc = "idle" /\ t.batch = NoBatch /\ t.base = 0 /\ t.captured = {}
      /\ t.todo = {} /\ t.group = {}
  BY DEF Blank
<1>3. Typed(branch, t) /\ Relied(branch, t)
  <2> HIDE DEF t
  <2>1. Len(branch) \in Nat
    BY LocalsOf
  <2> QED
    BY <1>1, <1>2, <2>1, Resting DEF Capturing
<1>4. Become(r, t)
  BY DEF End
<1> QED
  BY <1>3, <1>4, OwnStep

\* The locals between two groups.
LEMMA BetweenTyped ==
  ASSUME Inv, NEW r \in Runner, run[r].pc # "idle"
  PROVE  /\ Between(r) \in Locals
         /\ Between(r).pc = "choosing" /\ Between(r).batch = run[r].batch
         /\ Between(r).base = 0 /\ Between(r).captured = {}
         /\ Between(r).todo = run[r].todo /\ Between(r).group = {}
         /\ Between(r).committed = run[r].committed
         /\ Between(r).deferred = run[r].deferred
<1>1. run[r] \in Locals /\ run[r].batch \in Batch
  BY LocalsOf
<1> QED
  BY <1>1 DEF Between, Blank, Locals, RunState

\* A batch run goes on to its next group, with what it has committed and
\* deferred by then.
LEMMA BetweenInv ==
  ASSUME Inv, NEW r \in Runner, run[r].pc # "idle", UNCHANGED <<branch, clock>>,
         NEW committed \in SUBSET SUBSET Authorization, NEW deferred \in SUBSET Authorization,
         NEW todo \in SUBSET SUBSET Authorization, \A g \in todo : Inside(g),
         Become(r, [Between(r) EXCEPT !.committed = committed, !.deferred = deferred,
                                      !.todo = todo])
  PROVE  Inv'
<1> DEFINE t == [Between(r) EXCEPT !.committed = committed, !.deferred = deferred, !.todo = todo]
<1>1. run[r].batch \in Batch /\ Len(branch) \in Nat
  BY LocalsOf
<1>2. /\ t \in Locals /\ t.pc = "choosing" /\ t.batch = run[r].batch /\ t.base = 0
      /\ t.captured = {} /\ t.todo = todo /\ t.group = {}
  <2>1. Between(r) \in Locals
    BY BetweenTyped
  <2>2. t \in Locals
    BY <2>1 DEF Locals
  <2>3. /\ t.pc = Between(r).pc /\ t.batch = Between(r).batch /\ t.base = Between(r).base
        /\ t.captured = Between(r).captured /\ t.group = Between(r).group /\ t.todo = todo
    BY <2>1 DEF Locals
  <2> QED
    BY <2>2, <2>3, BetweenTyped
<1>3. Become(r, t)
  OBVIOUS
<1> HIDE DEF t
<1>4. Typed(branch, t) /\ Relied(branch, t)
  BY <1>1, <1>2, Resting, NoBatchAssumption DEF Capturing
<1> QED
  BY <1>3, <1>4, OwnStep

\* The run fails.
LEMMA FailingInv ==
  ASSUME Inv, NEW r \in Runner, run[r].pc # "idle", UNCHANGED <<branch, clock>>,
         NEW conflict \in BOOLEAN, Failing(r, conflict)
  PROVE  Inv'
<1> DEFINE t == [Between(r) EXCEPT !.pc = "failed", !.group = run[r].group,
                                   !.again = run[r].again, !.conflict = conflict]
<1>1. /\ run[r].batch \in Batch /\ Len(branch) \in Nat
      /\ run[r] \in Locals /\ Typed(branch, run[r])
  BY LocalsOf
<1>2. /\ t \in Locals /\ t.pc = "failed" /\ t.batch = run[r].batch /\ t.base = 0
      /\ t.captured = {} /\ t.todo = run[r].todo /\ t.group = run[r].group
  BY <1>1, BetweenTyped DEF Locals, RunState
<1>3. Become(r, t)
  BY DEF Failing
<1> HIDE DEF t
<1>4. Typed(branch, t) /\ Relied(branch, t)
  BY <1>1, <1>2, Resting, NoBatchAssumption DEF Capturing, Typed
<1> QED
  BY <1>3, <1>4, OwnStep

-----------------------------------------------------------------------------
(* One step each: selection, groups, the execution, its failure.           *)

LEMMA StartBatchInv ==
  ASSUME Inv, NEW r \in Runner, StartBatch(r)
  PROVE  Inv'
<1>1. PICK b \in Batch :
        Become(r, [Blank(b) EXCEPT !.pc = "selecting", !.base = Len(branch),
                                   !.recovered = Recovered(branch, b),
                                   !.committed = Recovered(branch, b)])
  BY DEF StartBatch
<1> DEFINE t == [Blank(b) EXCEPT !.pc = "selecting", !.base = Len(branch),
                                 !.recovered = Recovered(branch, b),
                                 !.committed = Recovered(branch, b)]
<1>2. branch \in Seq(Commit) /\ Len(branch) \in Nat /\ DOMAIN branch = 1 .. Len(branch)
  BY LocalsOf
<1>3. Recovered(branch, b) \in SUBSET SUBSET Authorization
  <2>1. ASSUME NEW i \in Of(branch, "OUTCOME") PROVE branch[i].execution \in Execution
    <3>1. branch[i] \in Commit /\ branch[i].kind = "OUTCOME"
      BY <1>2 DEF Of
    <3> QED
      BY <3>1 DEF Commit, IntentCommit, ReserveCommit, CloseCommit, OutcomeCommit, RevokeCommit,
        ManifestCommit
  <2> QED
    BY <2>1 DEF Recovered, Execution
<1>4. t \in Locals
  BY <1>2, <1>3 DEF Blank, Locals, RunState
<1>5. /\ t.pc = "selecting" /\ t.batch = b /\ t.base = Len(branch) /\ t.captured = {}
      /\ t.todo = {} /\ t.group = {}
  BY DEF Blank
<1>6. Become(r, t) /\ UNCHANGED <<branch, clock>>
  BY <1>1 DEF StartBatch
<1> HIDE DEF t
<1>7. Typed(branch, t) /\ Relied(branch, t)
  BY <1>2, <1>4, <1>5, Resting, NoBatchAssumption DEF Capturing
<1> QED
  BY <1>6, <1>7, OwnStep

\* Authorizations are grouped by endpoints.
LEMMA GroupsInside ==
  ASSUME NEW S \in SUBSET Authorization
  PROVE  Groups(S) \in SUBSET SUBSET Authorization /\ \A g \in Groups(S) : Inside(g)
BY DEF Groups, Inside

LEMMA SelectInv ==
  ASSUME Inv, NEW r \in Runner, Select(r)
  PROVE  Inv'
<1>1. /\ Become(r, [Between(r) EXCEPT !.deferred = NewlyDeferred(r),
                                      !.todo = Groups(Eligible(branch, clock))])
      /\ UNCHANGED <<branch, clock>> /\ run[r].pc # "idle"
  BY DEF Select, At
<1>2. /\ NewlyDeferred(r) \in SUBSET Authorization
      /\ Eligible(branch, clock) \in SUBSET Authorization
  BY DEF NewlyDeferred, Deferred, Eligible
<1>3. Between(r) \in Locals /\ Between(r).committed = run[r].committed
  BY <1>1, BetweenTyped
<1>4. run[r].committed \in SUBSET SUBSET Authorization
  BY LocalsOf DEF Locals
<1> DEFINE todo == Groups(Eligible(branch, clock))
<1>5. todo \in SUBSET SUBSET Authorization /\ \A g \in todo : Inside(g)
  BY <1>2, GroupsInside
<1>6. Become(r, [Between(r) EXCEPT !.committed = run[r].committed,
                                   !.deferred = NewlyDeferred(r), !.todo = todo])
  BY <1>1, <1>3 DEF Locals
<1> HIDE DEF todo
<1> QED
  BY <1>1, <1>2, <1>4, <1>5, <1>6, BetweenInv

\* A group is passed over.
LEMMA PassInv ==
  ASSUME Inv, NEW r \in Runner, SkipRecovered(r) \/ DeferUnadapted(r)
  PROVE  Inv'
<1>1. /\ run[r].pc = "choosing" /\ UNCHANGED <<branch, clock>>
      /\ run[r].todo # {} /\ NextGroup(r) \in run[r].todo
  BY DEF SkipRecovered, DeferUnadapted, Choosing, NextGroup, At
<1>2. /\ run[r] \in Locals /\ Typed(branch, run[r]) /\ run[r].batch \in Batch
      /\ Len(branch) \in Nat
  BY <1>1, LocalsOf
<1>3. NextGroup(r) \in SUBSET Authorization
  BY <1>1, <1>2 DEF Locals
<1>4. PICK t : /\ Become(r, t)
               /\ \/ t = [run[r] EXCEPT !.todo = @ \ {NextGroup(r)}]
                  \/ t = [run[r] EXCEPT !.todo = @ \ {NextGroup(r)},
                                        !.deferred = @ \cup NextGroup(r)]
  BY DEF SkipRecovered, DeferUnadapted
<1>5. /\ t \in Locals /\ t.pc = "choosing" /\ t.batch = run[r].batch /\ t.base = run[r].base
      /\ t.captured = run[r].captured /\ t.todo \subseteq run[r].todo
      /\ t.group = run[r].group
  <2>1. /\ run[r].todo \ {NextGroup(r)} \in SUBSET SUBSET Authorization
        /\ run[r].deferred \cup NextGroup(r) \in SUBSET Authorization
    BY <1>2, <1>3 DEF Locals
  <2>2. CASE t = [run[r] EXCEPT !.todo = @ \ {NextGroup(r)}]
    BY <1>1, <1>2, <2>1, <2>2 DEF Locals
  <2>3. CASE t = [run[r] EXCEPT !.todo = @ \ {NextGroup(r)}, !.deferred = @ \cup NextGroup(r)]
    <3>1. t \in Locals
      BY <1>2, <2>1, <2>3 DEF Locals
    <3> QED
      BY <1>1, <1>2, <2>3, <3>1 DEF Locals
  <2> QED
    BY <1>4, <2>2, <2>3
<1>6. Typed(branch, t) /\ Relied(branch, t)
  BY <1>2, <1>5, Resting, NoBatchAssumption DEF Typed, Capturing
<1> QED
  BY <1>1, <1>4, <1>6, OwnStep

\* The locals after a clone.
LEMMA ClonedTyped ==
  ASSUME Inv, NEW r \in Runner, run[r].pc # "idle", NEW g \in SUBSET Authorization,
         g = {} \/ Inside(g), NEW again \in BOOLEAN
  PROVE  LET t == [Cloned(r, g) EXCEPT !.again = again] IN
           Typed(branch, t) /\ Relied(branch, t)
<1> DEFINE t == [Cloned(r, g) EXCEPT !.again = again]
<1>1. /\ run[r] \in Locals /\ Typed(branch, run[r]) /\ run[r].batch \in Batch
      /\ Len(branch) \in Nat
  BY LocalsOf
<1>2. PICK pc \in {"collecting", "declaring"} :
        Cloned(r, g) = [run[r] EXCEPT !.pc = pc, !.base = Len(branch), !.todo = @ \ {g},
                                      !.group = g, !.next = 1, !.captured = {}]
  BY Zenon DEF Cloned
<1>3. /\ t \in Locals /\ t.pc \in {"collecting", "declaring"}
      /\ t.batch = run[r].batch /\ t.base = Len(branch)
      /\ t.captured = {} /\ t.todo \subseteq run[r].todo /\ t.group = g
  <2> DEFINE u == Cloned(r, g)
  <2>1. run[r].todo \ {g} \in SUBSET SUBSET Authorization
    BY <1>1 DEF Locals
  <2>2. u \in Locals
    <3> DEFINE todo == run[r].todo \ {g}
               n == Len(branch)
    <3>1. todo \in SUBSET SUBSET Authorization /\ n \in Nat
      BY <1>1, <2>1
    <3>2. pc \in RunState
      BY DEF RunState, Executing
    <3>3. u = [run[r] EXCEPT !.pc = pc, !.base = n, !.todo = todo, !.group = g, !.next = 1,
                             !.captured = {}]
      BY <1>2, Zenon
    <3> HIDE DEF todo, n, u
    <3> QED
      BY <1>1, <3>1, <3>2, <3>3 DEF Locals
  <2>3. /\ u.pc = pc /\ u.batch = run[r].batch /\ u.base = Len(branch)
        /\ u.captured = {} /\ u.todo = run[r].todo \ {g} /\ u.group = g
    BY <1>1, <1>2 DEF Locals
  <2> HIDE DEF u
  <2>4. t = [u EXCEPT !.again = again]
    BY DEF u
  <2>5. t \in Locals
    BY <2>2, <2>4 DEF Locals
  <2>6. /\ t.pc = u.pc /\ t.batch = u.batch /\ t.base = u.base
        /\ t.captured = u.captured /\ t.todo = u.todo /\ t.group = u.group
    BY <2>2, <2>4 DEF Locals
  <2> QED
    BY <2>3, <2>5, <2>6
<1> HIDE DEF t
<1>4. Typed(branch, t)
  BY <1>1, <1>3, NoBatchAssumption DEF Typed
<1>5. Relied(branch, t)
  BY <1>3 DEF Relied
<1> QED
  BY <1>4, <1>5 DEF t

LEMMA ExecuteInv ==
  ASSUME Inv, NEW r \in Runner, Execute(r) \/ ExecuteAgain(r)
  PROVE  Inv'
<1>1. run[r].pc # "idle" /\ UNCHANGED <<branch, clock>>
  BY DEF Execute, ExecuteAgain, Choosing, At
<1>2. run[r] \in Locals /\ Typed(branch, run[r])
  BY LocalsOf
<1>3. CASE Execute(r)
  <2>1. NextGroup(r) \in run[r].todo /\ Become(r, Cloned(r, NextGroup(r)))
    BY <1>3 DEF Execute, Choosing, NextGroup
  <2>2. NextGroup(r) \in SUBSET Authorization /\ Inside(NextGroup(r))
    BY <1>2, <2>1 DEF Typed, Locals
  <2>3. Cloned(r, NextGroup(r)) = [Cloned(r, NextGroup(r)) EXCEPT !.again = run[r].again]
    BY <1>2 DEF Cloned, Locals
  <2>4. run[r].again \in BOOLEAN
    BY <1>2 DEF Locals
  <2>5. Typed(branch, Cloned(r, NextGroup(r))) /\ Relied(branch, Cloned(r, NextGroup(r)))
    BY <1>1, <2>2, <2>3, <2>4, ClonedTyped
  <2> QED
    BY <1>1, <2>1, <2>5, OwnStep
<1>4. CASE ExecuteAgain(r)
  <2>1. Become(r, [Cloned(r, run[r].group) EXCEPT !.again = TRUE])
    BY <1>4 DEF ExecuteAgain
  <2>2. run[r].group \in SUBSET Authorization /\ (run[r].group = {} \/ Inside(run[r].group))
    BY <1>2 DEF Typed, Locals
  <2> DEFINE t == [Cloned(r, run[r].group) EXCEPT !.again = TRUE]
  <2>3. Typed(branch, t) /\ Relied(branch, t)
    BY <1>1, <2>2, ClonedTyped
  <2> HIDE DEF t
  <2>4. Become(r, t)
    BY <2>1 DEF t
  <2> QED
    BY <1>1, <2>3, <2>4, OwnStep
<1> QED
  BY <1>3, <1>4

\* A process that only changes its state, into one in which it relies on no
\* more than before.
LEMMA MoveInv ==
  ASSUME Inv, NEW r \in Runner, run[r].pc # "idle", UNCHANGED <<branch, clock>>,
         NEW s \in RunState, s # "idle", NEW again \in BOOLEAN,
         Become(r, [run[r] EXCEPT !.pc = s, !.again = again]),
         s \in Capturing => run[r].pc \in Capturing,
         s \in {"reserved", "answered"} => run[r].pc \in {"reserved", "answered"},
         s # "appending"
  PROVE  Inv'
<1> DEFINE t == [run[r] EXCEPT !.pc = s, !.again = again]
<1>1. run[r] \in Locals /\ Typed(branch, run[r]) /\ Relied(branch, run[r])
      /\ run[r].batch \in Batch
  BY LocalsOf
<1>2. /\ t \in Locals /\ t.pc = s /\ t.batch = run[r].batch /\ t.base = run[r].base
      /\ t.captured = run[r].captured /\ t.todo = run[r].todo /\ t.group = run[r].group
  BY <1>1 DEF Locals
<1>3. Become(r, t)
  OBVIOUS
<1> HIDE DEF t
<1>4. Typed(branch, t)
  BY <1>1, <1>2, NoBatchAssumption DEF Typed
<1>5. Relied(branch, t)
  BY <1>1, <1>2 DEF Relied
<1> QED
  BY <1>3, <1>4, <1>5, OwnStep

\* The same, of the state only.
LEMMA StateInv ==
  ASSUME Inv, NEW r \in Runner, run[r].pc # "idle", UNCHANGED <<branch, clock>>,
         NEW s \in RunState, s # "idle",
         Become(r, [run[r] EXCEPT !.pc = s]),
         s \in Capturing => run[r].pc \in Capturing,
         s \in {"reserved", "answered"} => run[r].pc \in {"reserved", "answered"},
         s # "appending"
  PROVE  Inv'
<1>1. run[r] \in Locals
  BY LocalsOf
<1>2. run[r].again \in BOOLEAN
  BY <1>1 DEF Locals
<1>3. [run[r] EXCEPT !.pc = s] = [run[r] EXCEPT !.pc = s, !.again = run[r].again]
  BY <1>1 DEF Locals
<1> QED
  BY <1>2, <1>3, MoveInv

\* What a process at the head has captured, it has captured on the branch.
LEMMA AtHead ==
  ASSUME Inv, NEW r \in Runner, run[r].pc \in Capturing, ~Moved(r)
  PROVE  /\ run[r].base = Len(branch) /\ SubSeq(branch, 1, run[r].base) = branch
         /\ View(r) = branch
         /\ \A n \in run[r].captured :
              /\ n \in 1 .. Len(branch) /\ n \in Completed(branch) /\ n \notin Bound(branch)
              /\ branch[n].auth \in run[r].group
<1>1. branch \in Seq(Commit) /\ run[r].base = Len(branch)
  BY LocalsOf DEF Moved
<1>2. SubSeq(branch, 1, run[r].base) = branch
  BY <1>1, WholePrefix
<1>3. Relied(branch, run[r]) /\ Typed(branch, run[r])
  BY LocalsOf
<1> QED
  BY <1>1, <1>2, <1>3 DEF Relied, Typed, View

\* What outcomes have bound was closed before them.
LEMMA BoundEarlier ==
  ASSUME NEW h, Sound(h)
  PROVE  \A n \in Bound(h) : n \in 1 .. Len(h) - 1
<1>1. h \in Seq(Commit) /\ DOMAIN h = 1 .. Len(h) /\ Len(h) \in Nat
  BY DEF Sound
<1>2. ASSUME NEW i \in Of(h, "OUTCOME") PROVE \A n \in h[i].attempts : n \in 1 .. Len(h) - 1
  <2>1. i \in 1 .. Len(h) /\ i - 1 \in 0 .. Len(h)
    BY <1>1 DEF Of
  <2>2. \A m \in Completed(SubSeq(h, 1, i - 1)) : m \in 1 .. i - 2
    BY <1>1, <2>1, PrefixCloses DEF Sound
  <2>3. h[i].attempts \subseteq Completed(SubSeq(h, 1, i - 1))
    BY DEF Sound, BindsOnce
  <2> QED
    BY <1>1, <2>1, <2>2, <2>3
<1> QED
  BY <1>2 DEF Bound

\* The commits a run pushes.
LEMMA StagedCommits ==
  ASSUME Inv, NEW r \in Runner
  PROVE  /\ At(r, "declaring") => Staged(r) \in IntentCommit /\ Staged(r).kind = "INTENT"
         /\ At(r, "collecting") /\ Target(r) \in run[r].group =>
              /\ Staged(r) \in ReserveCommit /\ Staged(r).kind = "RESERVE"
              /\ Staged(r).auth = Target(r)
         /\ At(r, "answered") =>
              /\ Staged(r) \in CloseCommit /\ Staged(r).kind = "COMPLETE"
              /\ Staged(r).attempt = run[r].base
         /\ At(r, "concluding") =>
              /\ Staged(r) \in OutcomeCommit
              /\ Staged(r).execution = Current(r) /\ Staged(r).attempts = run[r].captured
<1>1. run[r] \in Locals /\ (run[r].pc # "idle" => run[r].batch \in Batch)
  BY LocalsOf
<1>2. clock \in Nat
  BY BoundAssumption DEF Inv
<1>3. run[r].pc # "idle" => Current(r) \in Execution
  BY <1>1 DEF Current, Execution, Locals
<1>4. CASE At(r, "declaring")
  BY <1>3, <1>4 DEF At, Staged, IntentCommit
<1>5. CASE At(r, "collecting") /\ Target(r) \in run[r].group
  <2>1. Target(r) \in Authorization
    BY <1>1, <1>5 DEF Locals
  <2> QED
    BY <1>5, <2>1 DEF At, Staged, ReserveCommit
<1>6. CASE At(r, "answered")
  <2>1. run[r].base \in Nat
    BY <1>1 DEF Locals
  <2> QED
    BY <1>2, <1>6, <2>1 DEF At, Staged, CloseCommit, Attempt
<1>7. CASE At(r, "concluding")
  <2>1. run[r].captured \in SUBSET Nat
    BY <1>1 DEF Locals
  <2> QED
    BY <1>3, <1>7, <2>1 DEF At, Staged, OutcomeCommit
<1> QED
  BY <1>4, <1>5, <1>6, <1>7 DEF At

\* A push of r's that takes effect: r's checkout is the branch again.
LEMMA ProceedInv ==
  ASSUME Inv, NEW r \in Runner, run[r].pc \in Capturing, ~Moved(r), UNCHANGED clock,
         NEW c \in Commit, branch' = Append(branch, c), Sound(Append(branch, c)),
         NEW s \in {"collecting", "reserved", "confirming"}, Proceed(r, s),
         s # "confirming" => c.kind # "OUTCOME",
         s = "reserved" => c.auth \in run[r].group
  PROVE  Inv'
<1> DEFINE h == Append(branch, c)
           t == [run[r] EXCEPT !.pc = s, !.base = Len(branch) + 1]
<1>1. /\ run[r] \in Locals /\ Typed(branch, run[r]) /\ run[r].batch \in Batch
      /\ branch \in Seq(Commit) /\ Len(branch) \in Nat
  BY LocalsOf DEF Capturing
<1>2. /\ h \in Seq(Commit) /\ Len(h) = Len(branch) + 1 /\ h[Len(branch) + 1] = c
      /\ \A i \in 1 .. Len(branch) : h[i] = branch[i]
  BY <1>1, Longer
<1>3. SubSeq(h, 1, Len(branch) + 1) = h
  BY <1>2, WholePrefix
<1>4. /\ t \in Locals /\ t.pc = s /\ t.batch = run[r].batch /\ t.base = Len(branch) + 1
      /\ t.captured = run[r].captured /\ t.todo = run[r].todo /\ t.group = run[r].group
  <2> DEFINE base == Len(branch) + 1
  <2>1. s \in RunState /\ base \in Nat
    BY <1>1 DEF RunState, Executing
  <2>2. t = [run[r] EXCEPT !.pc = s, !.base = base] /\ base = Len(branch) + 1
    OBVIOUS
  <2> HIDE DEF t, base
  <2>3. t \in Locals
    BY <1>1, <2>1, <2>2 DEF Locals
  <2> QED
    BY <1>1, <2>2, <2>3 DEF Locals
<1>5. Become(r, t)
  BY DEF Proceed
<1>6. \A n \in run[r].captured :
        /\ n \in 1 .. Len(branch) /\ n \in Completed(branch) /\ n \notin Bound(branch)
        /\ branch[n].auth \in run[r].group
  BY AtHead
<1> HIDE DEF t
<1>7. Typed(h, t)
  BY <1>1, <1>2, <1>4, <1>6, NoBatchAssumption DEF Typed
<1>8. Relied(h, t)
  <2>1. s # "confirming" =>
          \A n \in t.captured : n \in Completed(h) /\ n \notin Bound(h) /\ h[n].auth \in t.group
    BY <1>1, <1>2, <1>4, <1>6, CompletedLonger, BoundLonger
  <2>2. s = "reserved" => t.base > 0 /\ h[t.base].auth \in t.group
    BY <1>1, <1>2, <1>4
  <2> HIDE DEF h
  <2> QED
    BY <1>3, <1>4, <2>1, <2>2 DEF Relied, Capturing
<1> QED
  BY <1>5, <1>7, <1>8, OwnCommit

\* Pushes of an intent, a reservation, an outcome.
LEMMA PushInv ==
  ASSUME Inv, NEW r \in Runner, PushIntent(r) \/ PushReserve(r) \/ PushOutcome(r)
  PROVE  Inv'
<1>1. Sound(branch) /\ branch \in Seq(Commit)
  BY DEF Inv, Sound
<1>2. CASE PushIntent(r)
  <2>1. /\ At(r, "declaring") /\ ~Moved(r) /\ branch' = Append(branch, Staged(r))
        /\ Proceed(r, "collecting") /\ UNCHANGED clock
    BY <1>2 DEF PushIntent, Accept
  <2>2. Staged(r) \in Commit /\ Staged(r).kind = "INTENT"
    BY <2>1, StagedCommits DEF Commit
  <2>3. Sound(Append(branch, Staged(r)))
    BY <1>1, <2>2, SoundPlain
  <2> QED
    BY <2>1, <2>2, <2>3, ProceedInv DEF At, Capturing
<1>3. CASE PushReserve(r)
  <2>1. /\ At(r, "collecting") /\ ~Moved(r) /\ branch' = Append(branch, Staged(r))
        /\ Proceed(r, "reserved") /\ UNCHANGED clock
        /\ Target(r) \in run[r].group
    BY <1>3 DEF PushReserve, Accept, MayReserve
  <2>2. Staged(r) \in Commit /\ Staged(r).kind = "RESERVE" /\ Staged(r).auth \in run[r].group
    BY <2>1, StagedCommits DEF Commit
  <2>3. Sound(Append(branch, Staged(r)))
    BY <1>1, <2>2, SoundPlain
  <2> QED
    BY <2>1, <2>2, <2>3, ProceedInv DEF At, Capturing
<1>4. CASE PushOutcome(r)
  <2>1. /\ At(r, "concluding") /\ ~Moved(r) /\ branch' = Append(branch, Staged(r))
        /\ OutcomesOf(View(r), Current(r)) = {}
        /\ Proceed(r, "confirming") /\ UNCHANGED clock
    BY <1>4 DEF PushOutcome, Accept
  <2>2. /\ Staged(r) \in OutcomeCommit /\ Staged(r) \in Commit
        /\ Staged(r).execution = Current(r) /\ Staged(r).attempts = run[r].captured
    BY <2>1, StagedCommits DEF Commit
  <2>3. run[r].pc \in Capturing
    BY <2>1 DEF At, Capturing
  <2>4. /\ View(r) = branch
        /\ \A n \in run[r].captured :
             /\ n \in Completed(branch) /\ n \notin Bound(branch)
             /\ branch[n].auth \in run[r].group
    BY <2>1, <2>3, AtHead
  <2>5. Current(r).auths = run[r].group
    BY DEF Current
  <2>6. Sound(Append(branch, Staged(r)))
    BY <1>1, <2>1, <2>2, <2>4, <2>5, SoundOutcome
  <2> QED
    BY <2>1, <2>2, <2>3, <2>6, ProceedInv
<1> QED
  BY <1>2, <1>3, <1>4

\* An answer is closed: its attempt joins those captured.
LEMMA PushCloseInv ==
  ASSUME Inv, NEW r \in Runner, PushClose(r)
  PROVE  Inv'
<1> DEFINE c == Staged(r)
           h == Append(branch, c)
           t == [run[r] EXCEPT !.pc = "collecting", !.base = Len(branch) + 1, !.next = @ + 1,
                               !.captured = @ \cup {Attempt(r)}]
<1>1. /\ At(r, "answered") /\ run[r].pc = "answered" /\ ~Moved(r) /\ branch' = h
      /\ Become(r, t) /\ UNCHANGED clock
  BY DEF PushClose, Accept, At
<1>2. /\ run[r] \in Locals /\ Typed(branch, run[r]) /\ Relied(branch, run[r])
      /\ run[r].batch \in Batch
      /\ branch \in Seq(Commit) /\ Len(branch) \in Nat
  BY <1>1, LocalsOf
<1>3. c \in Commit /\ c.kind = "COMPLETE" /\ c.attempt = run[r].base
  BY <1>1, StagedCommits DEF Commit
<1>4. /\ run[r].base = Len(branch) /\ run[r].base > 0 /\ branch[run[r].base].auth \in run[r].group
      /\ \A n \in run[r].captured :
           /\ n \in 1 .. Len(branch) /\ n \in Completed(branch) /\ n \notin Bound(branch)
           /\ branch[n].auth \in run[r].group
  BY <1>1, <1>2, AtHead DEF Capturing, Relied
<1>5. Sound(branch) /\ Sound(h)
  BY <1>2, <1>3, <1>4, SoundPlain DEF Inv
<1>6. /\ Len(h) = Len(branch) + 1 /\ h \in Seq(Commit)
      /\ \A i \in 1 .. Len(branch) : h[i] = branch[i]
      /\ SubSeq(h, 1, Len(branch) + 1) = h
  BY <1>2, <1>3, Longer, WholePrefix
<1>7. Completed(h) = Completed(branch) \cup {run[r].base} /\ Bound(h) = Bound(branch)
  BY <1>2, <1>3, CompletedLonger, BoundLonger
<1>8. run[r].base \notin Bound(branch)
  BY <1>2, <1>4, <1>5, BoundEarlier
<1>9. /\ t \in Locals /\ t.pc = "collecting" /\ t.batch = run[r].batch
      /\ t.base = Len(branch) + 1 /\ t.captured = run[r].captured \cup {run[r].base}
      /\ t.todo = run[r].todo /\ t.group = run[r].group
  <2> DEFINE base == Len(branch) + 1
             next == run[r].next + 1
             captured == run[r].captured \cup {Attempt(r)}
  <2>1. captured \in SUBSET Nat /\ next \in Nat /\ base \in Nat
    BY <1>2 DEF Attempt, Locals
  <2>2. "collecting" \in RunState
    BY DEF RunState, Executing
  <2>3. t = [run[r] EXCEPT !.pc = "collecting", !.base = base, !.next = next,
                           !.captured = captured]
    OBVIOUS
  <2>4. base = Len(branch) + 1 /\ captured = run[r].captured \cup {run[r].base}
    BY DEF Attempt
  <2> HIDE DEF t, base, next, captured
  <2>5. t \in Locals
    BY <1>2, <2>1, <2>2, <2>3 DEF Locals
  <2> QED
    BY <1>2, <2>3, <2>4, <2>5 DEF Locals
<1> HIDE DEF t, h, c
<1>10. Typed(h, t)
  BY <1>2, <1>4, <1>6, <1>9, NoBatchAssumption DEF Typed
<1>11. Relied(h, t)
  <2>1. \A n \in t.captured : n \in Completed(h) /\ n \notin Bound(h) /\ h[n].auth \in t.group
    BY <1>2, <1>4, <1>6, <1>7, <1>8, <1>9
  <2> QED
    BY <1>6, <1>9, <2>1 DEF Relied
<1>12. branch' = Append(branch, c) /\ h = Append(branch, c)
  BY <1>1 DEF h
<1> QED
  BY <1>1, <1>3, <1>5, <1>10, <1>11, <1>12, OwnCommit

\* A step within the execution that neither commits nor fails.
LEMMA WithinInv ==
  ASSUME Inv, NEW r \in Runner,
         Send(r) \/ Conclude(r) \/ (Deny(r) /\ run[r].captured # {}) \/ FinishGroups(r)
  PROVE  Inv'
<1>1. UNCHANGED <<branch, clock>> /\ run[r].pc # "idle"
  BY DEF Send, Conclude, Deny, FinishGroups, At
<1>2. CASE Send(r)
  <2>1. run[r].pc = "reserved" /\ Become(r, [run[r] EXCEPT !.pc = "answered"])
    BY <1>2 DEF Send, At
  <2> QED
    BY <1>1, <2>1, StateInv DEF RunState, Executing, Capturing
<1>3. CASE Conclude(r) \/ (Deny(r) /\ run[r].captured # {})
  <2>1. run[r].pc = "collecting" /\ Become(r, [run[r] EXCEPT !.pc = "concluding"])
    BY <1>3 DEF Conclude, Deny, At
  <2> QED
    BY <1>1, <2>1, StateInv DEF RunState, Executing, Capturing
<1>4. CASE FinishGroups(r)
  <2>1. Become(r, [run[r] EXCEPT !.pc = "resolving"])
    BY <1>4 DEF FinishGroups
  <2> QED
    BY <1>1, <2>1, StateInv DEF RunState, Capturing
<1> QED
  BY <1>2, <1>3, <1>4

\* The execution fails.
LEMMA FailureInv ==
  ASSUME Inv, NEW r \in Runner,
         \/ FindMoved(r) \/ FailSend(r) \/ (Deny(r) /\ run[r].captured = {}) \/ Collide(r)
         \/ LosePush(r) \/ FailPush(r) \/ FailConfirm(r)
  PROVE  Inv'
<1>1. UNCHANGED <<branch, clock>> /\ run[r].pc # "idle"
  BY DEF FindMoved, FailSend, Deny, Collide, LosePush, FailPush, FailConfirm, Pushing, At
<1>2. PICK conflict \in BOOLEAN : Failing(r, conflict)
  <2>1. CASE FindMoved(r)
    BY <2>1 DEF FindMoved
  <2>2. CASE FailSend(r) \/ (Deny(r) /\ run[r].captured = {}) \/ Collide(r) \/ FailConfirm(r)
    BY <2>2 DEF FailSend, Deny, Collide, FailConfirm
  <2>3. CASE LosePush(r)
    <3>1. PICK lost \in BOOLEAN : Failing(r, lost \/ Captures(r))
      BY <2>3 DEF LosePush
    <3> QED
      BY <3>1
  <2>4. CASE FailPush(r)
    <3>1. Failing(r, Captures(r))
      BY <2>4 DEF FailPush
    <3>2. Captures(r) \in BOOLEAN
      BY DEF Captures, At
    <3> QED
      BY <3>1, <3>2
  <2> QED
    BY <2>1, <2>2, <2>3, <2>4
<1> QED
  BY <1>1, <1>2, FailingInv

\* A push takes effect whose run does not learn of it.
LEMMA LoseAckInv ==
  ASSUME Inv, NEW r \in Runner, LoseAck(r)
  PROVE  Inv'
<1> DEFINE c == Staged(r)
<1>1. /\ run[r].pc \in {"declaring", "collecting", "answered"} /\ ~Moved(r)
      /\ branch' = Append(branch, c) /\ UNCHANGED clock
      /\ At(r, "collecting") => Target(r) \in run[r].group
      /\ Failing(r, Captures(r))
  BY DEF LoseAck, Pushing, Accept, MayReserve, At
<1>2. /\ run[r] \in Locals /\ Typed(branch, run[r]) /\ Relied(branch, run[r])
      /\ run[r].batch \in Batch /\ branch \in Seq(Commit) /\ Len(branch) \in Nat
  BY <1>1, LocalsOf
<1>3. run[r].base = Len(branch)
  BY <1>1 DEF Moved
<1>4. /\ c \in Commit /\ c.kind \notin {"OUTCOME", "MANIFEST"}
      /\ c.kind \in {"COMPLETE", "RECOVER"} => c.attempt \in 1 .. Len(branch)
  <2>1. CASE At(r, "declaring")
    BY <2>1, StagedCommits DEF Commit
  <2>2. CASE At(r, "collecting")
    BY <1>1, <2>2, StagedCommits DEF Commit
  <2>3. CASE At(r, "answered")
    <3>1. run[r].base > 0
      BY <1>2, <2>3 DEF Relied, At
    <3> QED
      BY <1>2, <1>3, <2>3, <3>1, StagedCommits DEF Commit
  <2> QED
    BY <1>1, <2>1, <2>2, <2>3 DEF At
<1>5. Sound(Append(branch, c))
  BY <1>4, SoundPlain DEF Inv
<1>6. PICK conflict \in BOOLEAN : Failing(r, conflict)
  <2>1. Captures(r) \in BOOLEAN
    BY DEF Captures, At
  <2> QED
    BY <1>1, <2>1
<1> DEFINE t == [Between(r) EXCEPT !.pc = "failed", !.group = run[r].group,
                                   !.again = run[r].again, !.conflict = conflict]
<1>7. /\ t \in Locals /\ t.pc = "failed" /\ t.batch = run[r].batch /\ t.base = 0
      /\ t.captured = {} /\ t.todo = run[r].todo /\ t.group = run[r].group
  <2> HIDE DEF c
  <2>1. /\ run[r].pc # "idle" /\ Between(r) \in Locals /\ run[r].group \in SUBSET Authorization
        /\ run[r].again \in BOOLEAN /\ "failed" \in RunState
    BY <1>1, <1>2, BetweenTyped DEF Locals, RunState
  <2>2. t \in Locals
    BY <2>1 DEF Locals
  <2>3. /\ t.pc = "failed" /\ t.batch = Between(r).batch /\ t.base = Between(r).base
        /\ t.captured = Between(r).captured /\ t.todo = Between(r).todo /\ t.group = run[r].group
    BY <2>1 DEF Locals
  <2> HIDE DEF t
  <2> QED
    BY <2>1, <2>2, <2>3, BetweenTyped
<1>8. Become(r, t)
  BY <1>6 DEF Failing
<1> HIDE DEF t, c
<1>9. Typed(branch, t) /\ Relied(branch, t)
  BY <1>2, <1>7, Resting, NoBatchAssumption DEF Capturing, Typed
<1>10. Typed(Append(branch, c), t) /\ Relied(Append(branch, c), t)
  BY <1>2, <1>4, <1>9, ReliedStays
<1> QED
  BY <1>1, <1>4, <1>5, <1>8, <1>10, OwnCommit

\* A group is done with: committed, or deferred for one of its authorizations.
LEMMA SettledGroupInv ==
  ASSUME Inv, NEW r \in Runner,
         Confirm(r) \/ DeferBlocked(r) \/ (FindOutcome(r) /\ OutcomesOf(branch, Current(r)) # {})
  PROVE  Inv'
<1>1. UNCHANGED <<branch, clock>> /\ run[r].pc # "idle"
  BY DEF Confirm, DeferBlocked, FindOutcome, At
<1>2. /\ run[r] \in Locals /\ Typed(branch, run[r])
      /\ Between(r) \in Locals /\ Between(r).todo = run[r].todo
      /\ Between(r).committed = run[r].committed /\ Between(r).deferred = run[r].deferred
  BY <1>1, LocalsOf, BetweenTyped
<1>3. /\ run[r].todo \in SUBSET SUBSET Authorization /\ \A g \in run[r].todo : Inside(g)
      /\ run[r].deferred \in SUBSET Authorization
      /\ run[r].committed \in SUBSET SUBSET Authorization
      /\ run[r].committed \cup {run[r].group} \in SUBSET SUBSET Authorization
  BY <1>2 DEF Typed, Locals
<1>4. CASE Confirm(r) \/ (FindOutcome(r) /\ OutcomesOf(branch, Current(r)) # {})
  <2>1. Become(r, [Between(r) EXCEPT !.committed = @ \cup {run[r].group}])
    BY <1>4 DEF Confirm, FindOutcome
  <2> DEFINE committed == run[r].committed \cup {run[r].group}
             deferred == run[r].deferred
             todo == run[r].todo
  <2>2. Become(r, [Between(r) EXCEPT !.committed = committed, !.deferred = deferred,
                                     !.todo = todo])
    BY <1>2, <2>1 DEF Locals
  <2>3. /\ committed \in SUBSET SUBSET Authorization /\ deferred \in SUBSET Authorization
        /\ todo \in SUBSET SUBSET Authorization /\ \A g \in todo : Inside(g)
    BY <1>3
  <2> HIDE DEF committed, deferred, todo
  <2> QED
    BY <1>1, <2>2, <2>3, BetweenInv
<1>5. CASE DeferBlocked(r)
  <2>1. PICK a \in Authorization : Become(r, [Between(r) EXCEPT !.deferred = @ \cup {a}])
    BY <1>5 DEF DeferBlocked, Deferred
  <2> DEFINE committed == run[r].committed
             deferred == run[r].deferred \cup {a}
             todo == run[r].todo
  <2>2. Become(r, [Between(r) EXCEPT !.committed = committed, !.deferred = deferred,
                                     !.todo = todo])
    BY <1>2, <2>1 DEF Locals
  <2>3. /\ committed \in SUBSET SUBSET Authorization /\ deferred \in SUBSET Authorization
        /\ todo \in SUBSET SUBSET Authorization /\ \A g \in todo : Inside(g)
    BY <1>3
  <2> HIDE DEF committed, deferred, todo
  <2> QED
    BY <1>1, <2>2, <2>3, BetweenInv
<1> QED
  BY <1>4, <1>5

\* After a conflict the run ends, or reads the state again.
LEMMA ConflictStep ==
  ASSUME NEW r \in Runner, Conflict(r)
  PROVE  End(r) \/ Become(r, [run[r] EXCEPT !.pc = "resolving", !.again = TRUE])
BY DEF Conflict

\* The manifest is sealed for the head its state was read at.
LEMMA ResolveInv ==
  ASSUME Inv, NEW r \in Runner, Resolve(r)
  PROVE  Inv'
<1> DEFINE t == [run[r] EXCEPT !.pc = "appending", !.base = Len(branch)]
<1>1. /\ run[r].pc # "idle" /\ UNCHANGED <<branch, clock>> /\ Become(r, t)
      /\ ~Unsettled(branch) /\ ManifestsOf(branch, run[r].batch) = {} /\ Resolved(r)
  BY DEF Resolve, At
<1>2. /\ run[r] \in Locals /\ Typed(branch, run[r]) /\ run[r].batch \in Batch
      /\ run[r].base \in 0 .. Len(branch) /\ branch \in Seq(Commit) /\ Len(branch) \in Nat
  BY <1>1, LocalsOf
<1>3. /\ t \in Locals /\ t.pc = "appending" /\ t.batch = run[r].batch
      /\ t.base = Len(branch) /\ t.captured = run[r].captured /\ t.todo = run[r].todo
      /\ t.group = run[r].group /\ t.committed = run[r].committed
  <2> DEFINE base == Len(branch)
  <2>1. "appending" \in RunState /\ base \in Nat
    BY <1>2 DEF RunState
  <2>2. t = [run[r] EXCEPT !.pc = "appending", !.base = base] /\ base = Len(branch)
    OBVIOUS
  <2> HIDE DEF t, base
  <2>3. t \in Locals
    BY <1>2, <2>1, <2>2 DEF Locals
  <2> QED
    BY <1>2, <2>2, <2>3 DEF Locals
<1> HIDE DEF t
<1>4. Typed(branch, t)
  BY <1>2, <1>3, NoBatchAssumption DEF Typed
<1>5. MayManifest(branch, t.batch, t.committed)
  BY <1>1, <1>3 DEF MayManifest, Resolved
<1>6. SubSeq(branch, 1, t.base) = branch
  BY <1>2, <1>3, WholePrefix
<1>7. Relied(branch, t)
  BY <1>3, <1>5, <1>6 DEF Relied, Capturing
<1> QED
  BY <1>1, <1>4, <1>7, OwnStep

\* The manifest is accepted only there, learnt of or not.
LEMMA SealInv ==
  ASSUME Inv, NEW r \in Runner, run[r].pc = "appending", ~Moved(r), UNCHANGED clock,
         branch' = Append(branch, Manifest(r)),
         \/ End(r)
         \/ Become(r, [run[r] EXCEPT !.pc = "resolving", !.again = TRUE])
  PROVE  Inv'
<1>1. /\ run[r] \in Locals /\ Typed(branch, run[r]) /\ Relied(branch, run[r])
      /\ run[r].batch \in Batch /\ branch \in Seq(Commit) /\ Len(branch) \in Nat
      /\ run[r].base = Len(branch)
  BY LocalsOf DEF Moved
<1>2. MayManifest(branch, run[r].batch, run[r].committed)
  <2>1. SubSeq(branch, 1, run[r].base) = branch
    BY <1>1, WholePrefix
  <2> QED
    BY <1>1, <2>1 DEF Relied
<1> DEFINE c == Manifest(r)
           h == Append(branch, c)
<1>3. c \in ManifestCommit /\ c \in Commit /\ c.batch = run[r].batch /\ c.executions = run[r].committed
  BY <1>1 DEF Manifest, ManifestCommit, Commit, Locals
<1>4. branch' = Append(branch, c)
  OBVIOUS
<1> HIDE DEF c
<1>5. Sound(h)
  BY <1>2, <1>3, SoundManifest DEF Inv
<1>6. CASE End(r)
  <2> DEFINE t == Blank(NoBatch)
  <2>1. t \in Locals
    BY DEF Blank, Locals, RunState
  <2>2. /\ t.pc = "idle" /\ t.batch = NoBatch /\ t.base = 0 /\ t.captured = {}
        /\ t.todo = {} /\ t.group = {}
    BY DEF Blank
  <2>3. Become(r, t)
    BY <1>6 DEF End
  <2> HIDE DEF t
  <2>4. Typed(branch, t) /\ Relied(branch, t)
    BY <1>1, <2>1, <2>2, Resting DEF Capturing
  <2>5. Typed(h, t) /\ Relied(h, t)
    BY <1>1, <1>3, <2>4, ReliedStays
  <2> QED
    BY <1>3, <1>4, <1>5, <2>3, <2>5, OwnCommit
<1>7. CASE Become(r, [run[r] EXCEPT !.pc = "resolving", !.again = TRUE])
  <2> DEFINE t == [run[r] EXCEPT !.pc = "resolving", !.again = TRUE]
  <2>1. /\ t \in Locals /\ t.pc = "resolving" /\ t.batch = run[r].batch
        /\ t.base = run[r].base /\ t.captured = run[r].captured
        /\ t.todo = run[r].todo /\ t.group = run[r].group
    BY <1>1 DEF Locals, RunState
  <2>2. Become(r, t)
    BY <1>7
  <2> HIDE DEF t
  <2>3. Typed(branch, t) /\ Relied(branch, t)
    BY <1>1, <2>1, Resting, NoBatchAssumption DEF Capturing, Typed
  <2>4. Typed(h, t) /\ Relied(h, t)
    BY <1>1, <1>3, <2>3, ReliedStays
  <2> QED
    BY <1>3, <1>4, <1>5, <2>2, <2>4, OwnCommit
<1> QED
  BY <1>6, <1>7

LEMMA ManifestInv ==
  ASSUME Inv, NEW r \in Runner, AppendManifest(r) \/ LoseManifest(r) \/ FailManifest(r)
  PROVE  Inv'
<1>1. run[r].pc = "appending" /\ UNCHANGED clock
  BY DEF AppendManifest, LoseManifest, FailManifest, At
<1>2. CASE AppendManifest(r)
  BY <1>1, <1>2, SealInv DEF AppendManifest
<1>3. ASSUME UNCHANGED branch, End(r) \/ Conflict(r) PROVE Inv'
  <2>1. CASE End(r)
    BY <1>1, <1>3, <2>1, EndInv
  <2>2. CASE Become(r, [run[r] EXCEPT !.pc = "resolving", !.again = TRUE])
    BY <1>1, <1>3, <2>2, MoveInv DEF RunState, Capturing
  <2> QED
    BY <1>3, <2>1, <2>2, ConflictStep
<1>4. CASE LoseManifest(r)
  BY <1>3, <1>4 DEF LoseManifest
<1>5. CASE FailManifest(r)
  <2>1. ~Moved(r) /\ Conflict(r) /\ (branch' = branch \/ branch' = Append(branch, Manifest(r)))
    BY <1>5 DEF FailManifest
  <2> QED
    BY <1>1, <1>3, <2>1, ConflictStep, SealInv
<1> QED
  BY <1>2, <1>4, <1>5

-----------------------------------------------------------------------------
(* The environment, and every step.                                        *)

LEMMA EnvironmentInv ==
  ASSUME Inv, Revoke \/ Recover \/ RecordLoss \/ Tick
  PROVE  Inv'
<1>1. Sound(branch) /\ branch \in Seq(Commit) /\ DOMAIN branch = 1 .. Len(branch)
      /\ clock \in 0 .. MaxTime /\ MaxTime \in Nat
  BY BoundAssumption DEF Inv, Sound
<1>2. CASE Revoke
  <2>1. PICK c \in RevokeCommit : branch' = Append(branch, c)
    BY <1>2 DEF Revoke, RevokeCommit
  <2>2. c \in Commit /\ c.kind = "REVOKE"
    BY DEF Commit, RevokeCommit
  <2>3. UNCHANGED <<run, clock>>
    BY <1>2 DEF Revoke
  <2> QED
    BY <1>1, <2>1, <2>2, <2>3, SoundPlain, OthersCommit
<1>3. CASE Recover
  <2>1. PICK i \in Open(branch) :
          branch' = Append(branch, [kind |-> "RECOVER", attempt |-> i, at |-> clock])
    BY <1>3 DEF Recover
  <2>2. i \in 1 .. Len(branch)
    BY <1>1 DEF Open, Of
  <2> DEFINE c == [kind |-> "RECOVER", attempt |-> i, at |-> clock]
  <2>3. c \in Commit /\ c.kind = "RECOVER" /\ c.attempt = i
    BY <1>1, <2>2 DEF Commit, CloseCommit
  <2>4. UNCHANGED <<run, clock>> /\ branch' = Append(branch, c)
    BY <1>3, <2>1 DEF Recover
  <2> HIDE DEF c
  <2> QED
    BY <1>1, <2>2, <2>3, <2>4, SoundPlain, OthersCommit
<1>4. CASE RecordLoss
  <2>1. PICK x \in Execution, i \in Of(branch, "RESERVE") :
          /\ LossRecoverable(branch, x, i)
          /\ branch' = Append(branch, [kind |-> "OUTCOME", execution |-> x, attempts |-> {i}])
    BY <1>4 DEF RecordLoss
  <2> DEFINE c == [kind |-> "OUTCOME", execution |-> x, attempts |-> {i}]
  <2>2. c \in OutcomeCommit /\ c \in Commit /\ c.execution = x /\ c.attempts = {i}
    BY <1>1, <2>1 DEF OutcomeCommit, Commit, Of
  <2>3. /\ OutcomesOf(branch, x) = {} /\ i \in Completed(branch) /\ i \notin Bound(branch)
        /\ branch[i].auth \in x.auths
    BY <2>1 DEF LossRecoverable
  <2>4. UNCHANGED <<run, clock>> /\ branch' = Append(branch, c)
    BY <1>4, <2>1 DEF RecordLoss
  <2> HIDE DEF c
  <2>5. Sound(Append(branch, c))
    BY <1>1, <2>2, <2>3, SoundOutcome
  <2> QED
    BY <2>2, <2>4, <2>5, OthersCommit
<1>5. CASE Tick
  <2>1. clock' \in 0 .. MaxTime /\ UNCHANGED <<branch, run>>
    BY <1>1, <1>5 DEF Tick
  <2> QED
    BY <2>1 DEF Inv
<1> QED
  BY <1>2, <1>3, <1>4, <1>5

LEMMA InitInv == Init => Inv
<1> SUFFICES ASSUME Init PROVE Inv
  OBVIOUS
<1>1. Sound(branch) /\ clock \in 0 .. MaxTime
  BY PastsAssumption DEF Init, Sound
<1>2. ASSUME NEW r \in Runner PROVE Typed(branch, run[r]) /\ Relied(branch, run[r])
  <2> DEFINE t == Blank(NoBatch)
  <2>1. t \in Locals
    BY DEF Blank, Locals, RunState
  <2>2. /\ t.pc = "idle" /\ t.batch = NoBatch /\ t.base = 0 /\ t.captured = {}
        /\ t.todo = {} /\ t.group = {}
    BY DEF Blank
  <2>3. run[r] = t
    BY <1>2 DEF Init
  <2> HIDE DEF t
  <2>4. Len(branch) \in Nat
    BY <1>1 DEF Sound
  <2> QED
    BY <2>1, <2>2, <2>3, <2>4, Resting DEF Capturing
<1> QED
  BY <1>1, <1>2 DEF Inv, Init

LEMMA StepInv ==
  ASSUME Inv, [Next]_vars
  PROVE  Inv'
<1>1. ASSUME NEW r \in Runner, Step(r) PROVE Inv'
  <2>1. CASE RefuseSelection(r) \/ RefusePartial(r) \/ RefuseAgain(r) \/ GiveUp(r)
             \/ RefuseFailed(r) \/ EndUnresolved(r)
    BY <2>1, EndInv DEF RefuseSelection, RefusePartial, RefuseAgain, GiveUp, RefuseFailed,
      EndUnresolved
  <2>2. CASE FindOutcome(r) /\ OutcomesOf(branch, Current(r)) = {}
    <3>1. /\ run[r].pc # "idle" /\ UNCHANGED <<branch, clock>>
          /\ Become(r, [run[r] EXCEPT !.pc = "refreshing"])
      BY <2>2 DEF FindOutcome, At
    <3> QED
      BY <3>1, StateInv DEF RunState, Capturing
  <2>3. CASE Select(r) \/ SkipRecovered(r) \/ DeferUnadapted(r) \/ Execute(r) \/ ExecuteAgain(r)
    BY <2>3, SelectInv, PassInv, ExecuteInv
  <2>4. CASE PushIntent(r) \/ PushReserve(r) \/ PushClose(r) \/ PushOutcome(r)
    BY <2>4, PushInv, PushCloseInv
  <2>5. CASE \/ Send(r) \/ Conclude(r) \/ Deny(r) \/ FinishGroups(r)
             \/ FindMoved(r) \/ FailSend(r) \/ Collide(r)
             \/ LosePush(r) \/ FailPush(r) \/ FailConfirm(r) \/ LoseAck(r)
    BY <2>5, WithinInv, FailureInv, LoseAckInv
  <2>6. CASE \/ Confirm(r) \/ DeferBlocked(r)
             \/ FindOutcome(r) /\ OutcomesOf(branch, Current(r)) # {}
    BY <2>6, SettledGroupInv
  <2>7. CASE Resolve(r) \/ AppendManifest(r) \/ LoseManifest(r) \/ FailManifest(r)
    BY <2>7, ResolveInv, ManifestInv
  <2> QED
    BY <1>1, <2>1, <2>2, <2>3, <2>4, <2>5, <2>6, <2>7 DEF Step
<1>2. ASSUME NEW r \in Runner, StartBatch(r) \/ Crash(r) PROVE Inv'
  BY <1>2, StartBatchInv, EndInv DEF Crash
<1>3. CASE UNCHANGED vars
  BY <1>3 DEF vars, Inv
<1> QED
  BY <1>1, <1>2, <1>3, EnvironmentInv DEF Next

LEMMA InvHolds == Spec => []Inv
BY InitInv, StepInv, PTL DEF Spec

-----------------------------------------------------------------------------
\* No request is accounted for twice, whichever batches and processes execute
\* the same authorizations and whatever their pushes come to
\* (source-execution-outcome.ts, readSourceExecutionOutcomes).
THEOREM RequestsBoundOnce == Spec => []BoundOnce
<1>1. Inv => BoundOnce
  BY DEF Inv, Sound, BoundOnce
<1> QED
  BY <1>1, InvHolds, PTL

\* A manifest stands only on a branch on which nothing is unsettled, its
\* executions have their outcomes, and its batch has no other
\* (production-scheduler-batch.ts and scheduler-batch-manifest.ts).
THEOREM ManifestsAreSettled == Spec => []ManifestSettled
<1>1. Inv => ManifestSettled
  BY DEF Inv, Sound, ManifestSettled
<1> QED
  BY <1>1, InvHolds, PTL

-----------------------------------------------------------------------------
(* What the bounds count, and the types.                                   *)

UsedOK == used \in [starts : 0 .. MaxStarts, executions : 0 .. MaxExecutions,
                    incidents : 0 .. MaxIncidents]

\* A step leaves the counters alone, or counts one thing that was within its
\* bound.
Counts == (UNCHANGED used) \/ Start \/ Incident

LEMMA StepCounts ==
  ASSUME NEW r \in Runner, Step(r)
  PROVE  Counts
<1>1. CASE Select(r) \/ RefuseSelection(r) \/ SkipRecovered(r) \/ RefusePartial(r)
           \/ DeferUnadapted(r) \/ Execute(r)
  BY <1>1 DEF Counts, Select, RefuseSelection, SkipRecovered, RefusePartial, DeferUnadapted, Execute
<1>2. CASE PushIntent(r) \/ PushReserve(r) \/ Send(r) \/ FindMoved(r) \/ FailSend(r)
           \/ PushClose(r)
  BY <1>2 DEF Counts, PushIntent, PushReserve, Send, FindMoved, FailSend, PushClose
<1>3. CASE Conclude(r) \/ Deny(r) \/ PushOutcome(r) \/ Collide(r)
  BY <1>3 DEF Counts, Conclude, Deny, PushOutcome, Collide
<1>4. CASE LosePush(r) \/ FailPush(r) \/ LoseAck(r) \/ Confirm(r) \/ FailConfirm(r)
  BY <1>4 DEF Counts, LosePush, FailPush, LoseAck, Confirm, FailConfirm
<1>5. CASE FindOutcome(r) \/ ExecuteAgain(r) \/ RefuseAgain(r) \/ GiveUp(r)
           \/ DeferBlocked(r) \/ RefuseFailed(r)
  BY <1>5 DEF Counts, FindOutcome, ExecuteAgain, RefuseAgain, GiveUp, DeferBlocked, RefuseFailed
<1>6. CASE FinishGroups(r) \/ Resolve(r) \/ EndUnresolved(r)
           \/ AppendManifest(r) \/ LoseManifest(r) \/ FailManifest(r)
  BY <1>6 DEF Counts, FinishGroups, Resolve, EndUnresolved, AppendManifest, LoseManifest,
    FailManifest
<1> QED
  BY <1>1, <1>2, <1>3, <1>4, <1>5, <1>6 DEF Step

LEMMA UsedStep ==
  ASSUME UsedOK, [Next]_vars
  PROVE  UsedOK'
<1>1. {MaxStarts, MaxExecutions, MaxIncidents} \subseteq Nat
  BY BoundAssumption
<1>2. CASE Counts
  BY <1>1, <1>2 DEF Counts, UsedOK, Start, Incident
<1>3. ASSUME NEW r \in Runner, StartBatch(r) PROVE UsedOK'
  <2>1. used.starts < MaxStarts /\ used' = [used EXCEPT !.starts = @ + 1]
    BY <1>3 DEF StartBatch
  <2> QED
    BY <1>1, <2>1 DEF UsedOK
<1>4. CASE Revoke \/ Recover \/ RecordLoss \/ Tick \/ UNCHANGED vars
  BY <1>2, <1>4 DEF Counts, Revoke, Recover, RecordLoss, Tick, vars
<1>5. ASSUME NEW r \in Runner, Crash(r) PROVE UsedOK'
  BY <1>2, <1>5 DEF Counts, Crash
<1> QED
  BY <1>2, <1>3, <1>4, <1>5, StepCounts DEF Next

-----------------------------------------------------------------------------
(* What a run makes of its groups.                                         *)

\* States in which a batch run has taken a group off those left.
Active == Executing \cup {"failed", "refreshing"}

\* What the process with locals t makes of its groups agrees, with the branch h.
Agree(h, t) ==
  /\ t.recovered \subseteq t.committed
  /\ \A g \in t.committed : OutcomesOf(h, [batch |-> t.batch, auths |-> g]) # {}
  /\ (UNION t.committed) \cap t.deferred = {}
  /\ \A f \in t.committed \ t.recovered, g \in t.committed : f # g => f \cap g = {}
  /\ Apart(t.todo)
  /\ \A g \in t.todo : /\ g \cap t.deferred = {}
                       /\ \A f \in t.committed \ t.recovered : f \cap g = {}
  /\ t.pc \in Active =>
       /\ t.group \cap t.deferred = {}
       /\ \A g \in t.todo \cup t.committed : g \cap t.group = {}
  /\ t.pc = "confirming" => OutcomesOf(h, [batch |-> t.batch, auths |-> t.group]) # {}
  /\ t.pc = "selecting" => t.committed = t.recovered /\ t.todo = {} /\ t.deferred = {}

Agrees == \A r \in Runner : Agree(branch, run[r])

\* The branch stays or grows by a commit.
Grows == branch' = branch \/ \E c : branch' = Append(branch, c)

\* Outcomes stay.
LEMMA OutcomesStay ==
  ASSUME NEW h \in Seq(Commit), NEW c, NEW x
  PROVE  OutcomesOf(h, x) \subseteq OutcomesOf(Append(h, c), x)
<1>1. /\ DOMAIN h = 1 .. Len(h) /\ Len(h) \in Nat
      /\ DOMAIN Append(h, c) = 1 .. Len(h) + 1
      /\ \A i \in 1 .. Len(h) : Append(h, c)[i] = h[i]
  OBVIOUS
<1> QED
  BY <1>1 DEF OutcomesOf, Of

\* What a process makes of its groups, it still does when the branch has grown.
LEMMA AgreeStays ==
  ASSUME Inv, NEW t, Agree(branch, t), Grows
  PROVE  Agree(branch', t)
<1>1. \A x : OutcomesOf(branch, x) \subseteq OutcomesOf(branch', x)
  <2>1. branch \in Seq(Commit)
    BY DEF Inv, Sound
  <2> QED
    BY <2>1, OutcomesStay DEF Grows
<1> QED
  BY <1>1 DEF Agree

\* A step of process r.
LEMMA OwnAgrees ==
  ASSUME Inv, Agrees, NEW r \in Runner, NEW t, Become(r, t), Grows, Agree(branch', t)
  PROVE  Agrees'
<1>1. \A q \in Runner : run'[q] = IF q = r THEN t ELSE run[q]
  BY DEF Inv, Become
<1>2. \A q \in Runner : Agree(branch', run[q])
  BY AgreeStays DEF Agrees
<1> QED
  BY <1>1, <1>2 DEF Agrees

\* Locals t with the groups of s, busy with a group only as s was.
Alike(t, s) ==
  /\ t.batch = s.batch /\ t.recovered = s.recovered /\ t.committed = s.committed
  /\ t.deferred = s.deferred /\ t.todo = s.todo
  /\ t.pc \in Active => s.pc \in Active /\ t.group = s.group

\* A step of process r that leaves its groups as they are.
LEMMA AlikeAgrees ==
  ASSUME Inv, Agrees, NEW r \in Runner, NEW t, Become(r, t), Grows, Alike(t, run[r]),
         t.pc # "selecting",
         t.pc = "confirming" =>
           OutcomesOf(branch', [batch |-> t.batch, auths |-> t.group]) # {}
  PROVE  Agrees'
<1>1. Agree(branch', run[r])
  BY AgreeStays DEF Agrees
<1>2. Agree(branch', t)
  BY <1>1 DEF Agree, Alike
<1> QED
  BY <1>2, OwnAgrees

LEMMA EndAgrees ==
  ASSUME Inv, Agrees, NEW r \in Runner, End(r), Grows
  PROVE  Agrees'
<1> DEFINE t == Blank(NoBatch)
<1>1. /\ t.pc = "idle" /\ t.recovered = {} /\ t.committed = {} /\ t.deferred = {}
      /\ t.todo = {}
  BY DEF Blank
<1>2. Become(r, t)
  BY DEF End
<1> HIDE DEF t
<1>3. Agree(branch', t)
  BY <1>1 DEF Agree, Apart, Active, Executing
<1> QED
  BY <1>2, <1>3, OwnAgrees

\* The recovered outcomes are there.
LEMMA StartAgrees ==
  ASSUME Inv, Agrees, NEW r \in Runner, StartBatch(r)
  PROVE  Agrees'
<1>1. PICK b \in Batch :
        Become(r, [Blank(b) EXCEPT !.pc = "selecting", !.base = Len(branch),
                                   !.recovered = Recovered(branch, b),
                                   !.committed = Recovered(branch, b)])
  BY DEF StartBatch
<1> DEFINE t == [Blank(b) EXCEPT !.pc = "selecting", !.base = Len(branch),
                                 !.recovered = Recovered(branch, b),
                                 !.committed = Recovered(branch, b)]
<1>2. /\ t.pc = "selecting" /\ t.batch = b /\ t.recovered = Recovered(branch, b)
      /\ t.committed = Recovered(branch, b) /\ t.deferred = {} /\ t.todo = {}
  BY DEF Blank
<1>3. Become(r, t) /\ branch' = branch
  BY <1>1 DEF StartBatch
<1> HIDE DEF t
<1>4. ASSUME NEW g \in Recovered(branch, b)
      PROVE  OutcomesOf(branch, [batch |-> b, auths |-> g]) # {}
  <2>1. PICK i \in Of(branch, "OUTCOME") :
          branch[i].execution.batch = b /\ branch[i].execution.auths = g
    BY <1>4 DEF Recovered
  <2>2. branch[i].execution \in Execution
    <3>1. branch[i] \in Commit /\ branch[i].kind = "OUTCOME"
      BY <2>1 DEF Of, Inv, Sound
    <3> QED
      BY <3>1 DEF Commit, IntentCommit, ReserveCommit, CloseCommit, OutcomeCommit, RevokeCommit,
        ManifestCommit
  <2>3. branch[i].execution = [batch |-> b, auths |-> g]
    BY <2>1, <2>2 DEF Execution
  <2> QED
    BY <2>1, <2>3 DEF OutcomesOf
<1>5. Agree(branch', t)
  BY <1>2, <1>3, <1>4 DEF Agree, Apart, Active, Executing
<1> QED
  BY <1>3, <1>5, OwnAgrees DEF Grows

\* Groups are of different endpoints.
LEMMA GroupsApart ==
  ASSUME NEW S
  PROVE  Apart(Groups(S)) /\ \A g \in Groups(S) : g \subseteq S
<1>1. ASSUME NEW g \in Groups(S), NEW f \in Groups(S), g # f PROVE g \cap f = {}
  <2>1. PICK d \in Endpoint : g = S \cap Planned(d)
    BY DEF Groups
  <2>2. PICK e \in Endpoint : f = S \cap Planned(e)
    BY DEF Groups
  <2>3. Planned(d) \cap Planned(e) = {}
    BY <1>1, <2>1, <2>2, PlanAssumption
  <2> QED
    BY <2>1, <2>2, <2>3
<1>2. \A g \in Groups(S) : g \subseteq S
  BY DEF Groups
<1> QED
  BY <1>1, <1>2 DEF Apart

\* What is selected is not deferred, and what has been recovered is not either.
LEMMA SelectAgrees ==
  ASSUME Inv, Agrees, NEW r \in Runner, Select(r)
  PROVE  Agrees'
<1> DEFINE t == [Between(r) EXCEPT !.deferred = NewlyDeferred(r),
                                   !.todo = Groups(Eligible(branch, clock))]
<1>1. Become(r, t) /\ branch' = branch /\ run[r].pc = "selecting"
  BY DEF Select, At
<1>2. /\ t.pc = "choosing" /\ t.batch = run[r].batch /\ t.recovered = run[r].recovered
      /\ t.committed = run[r].committed /\ t.deferred = NewlyDeferred(r)
      /\ t.todo = Groups(Eligible(branch, clock))
  BY DEF Between, Blank
<1> HIDE DEF t
<1>3. Agree(branch, run[r]) /\ run[r].committed = run[r].recovered
  BY <1>1 DEF Agrees, Agree
<1>4. Eligible(branch, clock) \cap NewlyDeferred(r) = {}
  BY DEF Eligible, NewlyDeferred, Deferred
<1>5. \A g \in t.todo : g \cap t.deferred = {}
  BY <1>2, <1>4, GroupsApart
<1>6. (UNION t.committed) \cap t.deferred = {}
  BY <1>2, <1>3 DEF NewlyDeferred, RecoveredAuths
<1>7. Apart(t.todo)
  BY <1>2, GroupsApart
<1>8. Agree(branch, t)
  BY <1>2, <1>3, <1>5, <1>6, <1>7 DEF Agree, Active, Executing
<1> QED
  BY <1>1, <1>8, OwnAgrees DEF Grows

\* A group is passed over.
LEMMA PassAgrees ==
  ASSUME Inv, Agrees, NEW r \in Runner, SkipRecovered(r) \/ DeferUnadapted(r)
  PROVE  Agrees'
<1>1. /\ run[r].pc = "choosing" /\ branch' = branch /\ NextGroup(r) \in run[r].todo
      /\ run[r] \in Locals /\ Agree(branch, run[r])
  BY LocalsOf DEF SkipRecovered, DeferUnadapted, Choosing, NextGroup, At, Agrees
<1> DEFINE g == NextGroup(r)
<1>2. PICK deferred :
        /\ deferred = run[r].deferred
             \/ (deferred = run[r].deferred \cup g /\ g \cap RecoveredAuths(r) = {})
        /\ Become(r, [run[r] EXCEPT !.todo = @ \ {g}, !.deferred = deferred])
  <2>1. CASE SkipRecovered(r)
    <3>1. [run[r] EXCEPT !.todo = @ \ {g}]
            = [run[r] EXCEPT !.todo = @ \ {g}, !.deferred = run[r].deferred]
      BY <1>1 DEF Locals
    <3>2. Become(r, [run[r] EXCEPT !.todo = @ \ {g}, !.deferred = run[r].deferred])
      BY <2>1, <3>1 DEF SkipRecovered
    <3> QED
      BY <3>2, Zenon
  <2>2. CASE DeferUnadapted(r)
    BY <2>2 DEF DeferUnadapted
  <2> QED
    BY <2>1, <2>2
<1> DEFINE t == [run[r] EXCEPT !.todo = @ \ {g}, !.deferred = deferred]
<1>3. /\ t.pc = "choosing" /\ t.batch = run[r].batch /\ t.recovered = run[r].recovered
      /\ t.committed = run[r].committed /\ t.deferred = deferred
      /\ t.todo = run[r].todo \ {g}
  BY <1>1 DEF Locals
<1>4. Become(r, t)
  BY <1>2
<1>5. (UNION run[r].committed) \cap deferred = {}
  <2>1. ASSUME g \cap RecoveredAuths(r) = {}, NEW f \in run[r].committed PROVE f \cap g = {}
    BY <1>1, <2>1 DEF Agree, RecoveredAuths
  <2>2. (UNION run[r].committed) \cap run[r].deferred = {}
    BY <1>1 DEF Agree
  <2> QED
    BY <1>2, <2>1, <2>2
<1>6. \A f \in run[r].todo \ {g} : f \cap deferred = {}
  BY <1>1, <1>2 DEF Agree, Apart
<1> HIDE DEF t, g
<1>7. Agree(branch, t)
  BY <1>1, <1>3, <1>5, <1>6 DEF Agree, Apart, Active, Executing
<1> QED
  BY <1>1, <1>4, <1>7, OwnAgrees DEF Grows

\* A group is executed that none of the outcomes is of.
LEMMA ExecuteAgrees ==
  ASSUME Inv, Agrees, NEW r \in Runner, Execute(r) \/ ExecuteAgain(r)
  PROVE  Agrees'
<1>1. run[r] \in Locals /\ Agree(branch, run[r]) /\ branch' = branch
  BY LocalsOf DEF Execute, ExecuteAgain, Agrees
<1>2. PICK g, again : /\ Become(r, [Cloned(r, g) EXCEPT !.again = again])
                      /\ \/ Execute(r) /\ g = NextGroup(r)
                         \/ ExecuteAgain(r) /\ g = run[r].group
  <2>1. CASE Execute(r)
    <3>1. Cloned(r, NextGroup(r)) = [Cloned(r, NextGroup(r)) EXCEPT !.again = run[r].again]
      BY <1>1 DEF Cloned, Locals
    <3>2. Become(r, [Cloned(r, NextGroup(r)) EXCEPT !.again = run[r].again])
      BY <2>1, <3>1 DEF Execute
    <3> QED
      BY <2>1, <3>2, Zenon
  <2>2. CASE ExecuteAgain(r)
    BY <2>2 DEF ExecuteAgain
  <2> QED
    BY <2>1, <2>2
<1> DEFINE t == [Cloned(r, g) EXCEPT !.again = again]
<1>3. /\ t.pc \in {"collecting", "declaring"}
      /\ t.batch = run[r].batch /\ t.recovered = run[r].recovered
      /\ t.committed = run[r].committed /\ t.deferred = run[r].deferred
      /\ t.todo = run[r].todo \ {g} /\ t.group = g
  BY <1>1 DEF Cloned, Locals
<1>4. Become(r, t)
  BY <1>2
<1> HIDE DEF t
<1>5. g \cap run[r].deferred = {} /\ \A f \in (run[r].todo \ {g}) \cup run[r].committed : f \cap g = {}
  <2>1. CASE Execute(r) /\ g = NextGroup(r)
    <3>1. g \in run[r].todo /\ g \cap RecoveredAuths(r) = {}
      BY <2>1 DEF Execute, Choosing, NextGroup
    <3> QED
      BY <1>1, <3>1 DEF Agree, Apart, RecoveredAuths
  <2>2. CASE ExecuteAgain(r) /\ g = run[r].group
    <3>1. run[r].pc \in Active
      BY <2>2 DEF ExecuteAgain, At, Active
    <3> QED
      BY <1>1, <2>2, <3>1 DEF Agree
  <2> QED
    BY <1>2, <2>1, <2>2
<1>6. Agree(branch, t)
  BY <1>1, <1>3, <1>5 DEF Agree, Apart
<1> QED
  BY <1>1, <1>4, <1>6, OwnAgrees DEF Grows

\* The process goes on with its groups as they are.
LEMMA MoveAgrees ==
  ASSUME Inv, Agrees, NEW r \in Runner, Grows, NEW s, NEW base,
         Become(r, [run[r] EXCEPT !.pc = s, !.base = base]),
         s \in Active => run[r].pc \in Active, s # "selecting",
         s = "confirming" => OutcomesOf(branch', Current(r)) # {}
  PROVE  Agrees'
<1> DEFINE t == [run[r] EXCEPT !.pc = s, !.base = base]
<1>1. run[r] \in Locals
  BY LocalsOf
<1>2. t.pc = s /\ t.group = run[r].group /\ t.batch = run[r].batch /\ Alike(t, run[r])
  BY <1>1 DEF Locals, Alike
<1>3. Become(r, t)
  OBVIOUS
<1> HIDE DEF t
<1>4. t.pc = "confirming" =>
        OutcomesOf(branch', [batch |-> t.batch, auths |-> t.group]) # {}
  BY <1>2 DEF Current
<1> QED
  BY <1>2, <1>3, <1>4, AlikeAgrees

\* The same, of the state only.
LEMMA StateAgrees ==
  ASSUME Inv, Agrees, NEW r \in Runner, branch' = branch, NEW s,
         Become(r, [run[r] EXCEPT !.pc = s]),
         s \in Active => run[r].pc \in Active, s \notin {"selecting", "confirming"}
  PROVE  Agrees'
<1>1. run[r] \in Locals
  BY LocalsOf
<1>2. [run[r] EXCEPT !.pc = s] = [run[r] EXCEPT !.pc = s, !.base = run[r].base]
  BY <1>1 DEF Locals
<1> QED
  BY <1>2, MoveAgrees DEF Grows

\* Steps within the execution, and after the last group.
LEMMA WithinAgrees ==
  ASSUME Inv, Agrees, NEW r \in Runner,
         \/ Send(r) \/ Conclude(r) \/ (Deny(r) /\ run[r].captured # {})
         \/ (FindOutcome(r) /\ OutcomesOf(branch, Current(r)) = {})
         \/ FinishGroups(r) \/ Resolve(r)
  PROVE  Agrees'
<1>1. branch' = branch
  BY DEF Send, Conclude, Deny, FindOutcome, FinishGroups, Resolve
<1>2. CASE Send(r)
  BY <1>1, <1>2, StateAgrees DEF Send, At, Active, Executing
<1>3. CASE Conclude(r) \/ (Deny(r) /\ run[r].captured # {})
  <2>1. run[r].pc = "collecting" /\ Become(r, [run[r] EXCEPT !.pc = "concluding"])
    BY <1>3 DEF Conclude, Deny, At
  <2> QED
    BY <1>1, <2>1, StateAgrees DEF Active, Executing
<1>4. CASE FindOutcome(r) /\ OutcomesOf(branch, Current(r)) = {}
  BY <1>1, <1>4, StateAgrees DEF FindOutcome, At, Active, Executing
<1>5. CASE FinishGroups(r)
  BY <1>1, <1>5, StateAgrees DEF FinishGroups, Active, Executing
<1>6. CASE Resolve(r)
  <2>1. PICK s, base : /\ Become(r, [run[r] EXCEPT !.pc = s, !.base = base])
                       /\ s = "appending"
    BY <1>6 DEF Resolve
  <2>2. Grows /\ s \notin Active /\ s \notin {"selecting", "confirming"}
    BY <1>1, <2>1 DEF Grows, Active, Executing
  <2> QED
    BY <2>1, <2>2, MoveAgrees
<1> QED
  BY <1>2, <1>3, <1>4, <1>5, <1>6

\* Pushes; the outcome of a group is there once its run is about to confirm it.
LEMMA PushAgrees ==
  ASSUME Inv, Agrees, NEW r \in Runner,
         PushIntent(r) \/ PushReserve(r) \/ PushClose(r) \/ PushOutcome(r)
  PROVE  Agrees'
<1>1. branch' = Append(branch, Staged(r)) /\ Grows /\ run[r].pc \in Active
  BY DEF PushIntent, PushReserve, PushClose, PushOutcome, Accept, Grows, At, Active, Executing
<1>2. CASE PushIntent(r) \/ PushReserve(r)
  <2>1. PICK s \in {"collecting", "reserved"} :
          Become(r, [run[r] EXCEPT !.pc = s, !.base = Len(branch) + 1])
    BY <1>2 DEF PushIntent, PushReserve, Proceed
  <2> QED
    BY <1>1, <2>1, MoveAgrees
<1>3. CASE PushOutcome(r)
  <2>1. Become(r, [run[r] EXCEPT !.pc = "confirming", !.base = Len(branch) + 1])
    BY <1>3 DEF PushOutcome, Proceed
  <2>2. OutcomesOf(branch', Current(r)) # {}
    <3>1. branch \in Seq(Commit)
      BY LocalsOf
    <3>2. Staged(r) \in OutcomeCommit /\ Staged(r).execution = Current(r)
      BY <1>3, StagedCommits DEF PushOutcome
    <3>3. /\ Len(branch) + 1 \in DOMAIN branch'
          /\ branch'[Len(branch) + 1] = Staged(r) /\ Staged(r).kind = "OUTCOME"
      BY <1>1, <3>1, <3>2, Longer DEF Commit, OutcomeCommit
    <3> QED
      BY <3>2, <3>3 DEF OutcomesOf, Of
  <2> QED
    BY <1>1, <2>1, <2>2, MoveAgrees
<1>4. CASE PushClose(r)
  <2> DEFINE t == [run[r] EXCEPT !.pc = "collecting", !.base = Len(branch) + 1, !.next = @ + 1,
                                 !.captured = @ \cup {Attempt(r)}]
  <2>1. Become(r, t)
    BY <1>4 DEF PushClose
  <2>2. run[r] \in Locals
    BY LocalsOf
  <2>3. t.pc = "collecting" /\ Alike(t, run[r])
    BY <1>1, <2>2 DEF Locals, Alike
  <2> HIDE DEF t
  <2> QED
    BY <1>1, <2>1, <2>3, AlikeAgrees
<1> QED
  BY <1>2, <1>3, <1>4

\* The execution fails; its run keeps the group.
LEMMA FailureAgrees ==
  ASSUME Inv, Agrees, NEW r \in Runner,
         \/ FindMoved(r) \/ FailSend(r) \/ (Deny(r) /\ run[r].captured = {}) \/ Collide(r)
         \/ LosePush(r) \/ FailPush(r) \/ LoseAck(r) \/ FailConfirm(r)
  PROVE  Agrees'
<1>1. Grows
  BY DEF Grows, FindMoved, FailSend, Deny, Collide, LosePush, FailPush, LoseAck, Accept, FailConfirm
<1>2. run[r].pc \in Active
  BY DEF FindMoved, FailSend, Deny, Collide, LosePush, FailPush, LoseAck, Pushing, FailConfirm, At,
    Active, Executing
<1>3. PICK conflict : Failing(r, conflict)
  BY DEF FindMoved, FailSend, Deny, Collide, LosePush, FailPush, LoseAck, FailConfirm
<1> DEFINE t == [Between(r) EXCEPT !.pc = "failed", !.group = run[r].group,
                                   !.again = run[r].again, !.conflict = conflict]
<1>4. t.pc = "failed" /\ Alike(t, run[r])
  BY <1>2 DEF Between, Blank, Alike
<1>5. Become(r, t)
  BY <1>3 DEF Failing
<1> HIDE DEF t
<1> QED
  BY <1>1, <1>4, <1>5, AlikeAgrees

\* A group is done with: committed, or deferred for one of its authorizations.
LEMMA SettledAgrees ==
  ASSUME Inv, Agrees, NEW r \in Runner,
         Confirm(r) \/ DeferBlocked(r) \/ (FindOutcome(r) /\ OutcomesOf(branch, Current(r)) # {})
  PROVE  Agrees'
<1>1. branch' = branch /\ run[r].pc \in Active /\ Agree(branch, run[r])
  BY DEF Confirm, DeferBlocked, FindOutcome, At, Active, Executing, Agrees
<1>2. CASE Confirm(r) \/ (FindOutcome(r) /\ OutcomesOf(branch, Current(r)) # {})
  <2> DEFINE t == [Between(r) EXCEPT !.committed = @ \cup {run[r].group}]
  <2>1. Become(r, t)
    BY <1>2 DEF Confirm, FindOutcome
  <2>2. /\ t.pc = "choosing" /\ t.batch = run[r].batch /\ t.recovered = run[r].recovered
        /\ t.committed = run[r].committed \cup {run[r].group}
        /\ t.deferred = run[r].deferred /\ t.todo = run[r].todo
    BY DEF Between, Blank
  <2> HIDE DEF t
  <2>3. OutcomesOf(branch, [batch |-> run[r].batch, auths |-> run[r].group]) # {}
    BY <1>1, <1>2 DEF Confirm, At, Agree, Current
  <2>4. Agree(branch, t)
    BY <1>1, <2>2, <2>3 DEF Agree, Active, Executing
  <2> QED
    BY <1>1, <2>1, <2>4, OwnAgrees DEF Grows
<1>3. CASE DeferBlocked(r)
  <2>1. PICK a \in run[r].group : Become(r, [Between(r) EXCEPT !.deferred = @ \cup {a}])
    BY <1>3 DEF DeferBlocked
  <2> DEFINE t == [Between(r) EXCEPT !.deferred = @ \cup {a}]
  <2>2. /\ t.pc = "choosing" /\ t.batch = run[r].batch /\ t.recovered = run[r].recovered
        /\ t.committed = run[r].committed
        /\ t.deferred = run[r].deferred \cup {a} /\ t.todo = run[r].todo
    BY DEF Between, Blank
  <2>3. Become(r, t)
    BY <2>1
  <2> HIDE DEF t
  <2>4. Agree(branch, t)
    BY <1>1, <2>1, <2>2 DEF Agree, Active, Executing
  <2> QED
    BY <1>1, <2>3, <2>4, OwnAgrees DEF Grows
<1> QED
  BY <1>2, <1>3

\* The manifest is tried.
LEMMA ManifestAgrees ==
  ASSUME Inv, Agrees, NEW r \in Runner, AppendManifest(r) \/ LoseManifest(r) \/ FailManifest(r)
  PROVE  Agrees'
<1>1. Grows
  BY DEF Grows, AppendManifest, LoseManifest, FailManifest
<1>2. CASE End(r)
  BY <1>1, <1>2, EndAgrees
<1>3. CASE Become(r, [run[r] EXCEPT !.pc = "resolving", !.again = TRUE])
  <2> DEFINE t == [run[r] EXCEPT !.pc = "resolving", !.again = TRUE]
  <2>1. run[r] \in Locals
    BY LocalsOf
  <2>2. t.pc = "resolving" /\ Alike(t, run[r])
    BY <2>1 DEF Locals, Alike, Active, Executing
  <2>3. Become(r, t)
    BY <1>3
  <2> HIDE DEF t
  <2> QED
    BY <1>1, <2>2, <2>3, AlikeAgrees
<1>4. End(r) \/ Conflict(r)
  BY DEF AppendManifest, LoseManifest, FailManifest
<1> QED
  BY <1>2, <1>3, <1>4, ConflictStep

LEMMA InitAgrees == Init => Agrees
<1> SUFFICES ASSUME Init, NEW r \in Runner PROVE Agree(branch, run[r])
  BY DEF Agrees
<1>1. /\ run[r].pc = "idle" /\ run[r].recovered = {} /\ run[r].committed = {}
      /\ run[r].deferred = {} /\ run[r].todo = {}
  BY DEF Init, Blank
<1> QED
  BY <1>1 DEF Agree, Apart, Active, Executing

LEMMA NextAgrees ==
  ASSUME Inv, Agrees, [Next]_vars
  PROVE  Agrees'
<1>1. ASSUME NEW r \in Runner, Step(r) PROVE Agrees'
  <2>1. CASE RefuseSelection(r) \/ RefusePartial(r) \/ RefuseAgain(r) \/ GiveUp(r)
             \/ RefuseFailed(r) \/ EndUnresolved(r)
    BY <2>1, EndAgrees DEF RefuseSelection, RefusePartial, RefuseAgain, GiveUp, RefuseFailed,
      EndUnresolved, Grows
  <2>2. CASE Select(r) \/ SkipRecovered(r) \/ DeferUnadapted(r) \/ Execute(r) \/ ExecuteAgain(r)
    BY <2>2, SelectAgrees, PassAgrees, ExecuteAgrees
  <2>3. CASE PushIntent(r) \/ PushReserve(r) \/ PushClose(r) \/ PushOutcome(r)
    BY <2>3, PushAgrees
  <2>4. CASE \/ Send(r) \/ Conclude(r) \/ Deny(r) \/ FinishGroups(r) \/ Resolve(r)
             \/ FindMoved(r) \/ FailSend(r) \/ Collide(r)
             \/ LosePush(r) \/ FailPush(r) \/ FailConfirm(r) \/ LoseAck(r)
    BY <2>4, WithinAgrees, FailureAgrees
  <2>5. CASE Confirm(r) \/ DeferBlocked(r) \/ FindOutcome(r)
    BY <2>5, SettledAgrees, WithinAgrees
  <2>6. CASE AppendManifest(r) \/ LoseManifest(r) \/ FailManifest(r)
    BY <2>6, ManifestAgrees
  <2> QED
    BY <1>1, <2>1, <2>2, <2>3, <2>4, <2>5, <2>6 DEF Step
<1>2. ASSUME NEW r \in Runner, StartBatch(r) \/ Crash(r) PROVE Agrees'
  BY <1>2, StartAgrees, EndAgrees DEF Crash, Grows
<1>3. CASE Revoke \/ Recover \/ RecordLoss \/ Tick \/ UNCHANGED vars
  <2>1. UNCHANGED run /\ Grows
    BY <1>3 DEF Revoke, Recover, RecordLoss, Tick, vars, Grows
  <2> QED
    BY <2>1, AgreeStays DEF Agrees
<1> QED
  BY <1>1, <1>2, <1>3 DEF Next

LEMMA AgreesHolds == Spec => []Agrees
BY InitAgrees, InitInv, NextAgrees, StepInv, PTL DEF Spec

-----------------------------------------------------------------------------
\* Every variable has its type and a run is inside its batch and its checkout.
THEOREM Types == Spec => []TypeOK
<1>1. Init => UsedOK
  BY BoundAssumption DEF Init, UsedOK
<1>2. UsedOK /\ [Next]_vars => UsedOK'
  BY UsedStep
<1>3. Inv /\ UsedOK => TypeOK
  <2> SUFFICES ASSUME Inv, UsedOK PROVE TypeOK
    OBVIOUS
  <2>1. branch \in Seq(Commit) /\ clock \in 0 .. MaxTime
    BY DEF Inv, Sound
  <2>2. ASSUME NEW r \in Runner
        PROVE  /\ run[r].pc \in RunState /\ run[r].recovered \subseteq SUBSET Authorization
               /\ run[r].batch \in (IF At(r, "idle") THEN {NoBatch} ELSE Batch)
               /\ run[r].base \in 0 .. Len(branch)
               /\ run[r].committed \subseteq SUBSET Authorization
               /\ run[r].deferred \subseteq Authorization
               /\ \A g \in run[r].todo \cup ({run[r].group} \ {{}}) :
                    \E e \in Endpoint : g \subseteq Planned(e)
               /\ run[r].captured \subseteq 1 .. Len(branch)
    <3>1. run[r] \in Locals /\ Typed(branch, run[r]) /\ run[r].base \in 0 .. Len(branch)
          /\ Len(branch) \in Nat /\ (run[r].pc # "idle" => run[r].batch \in Batch)
      BY LocalsOf
    <3>2. run[r].captured \subseteq 1 .. Len(branch)
      BY <3>1 DEF Typed
    <3> QED
      BY <3>1, <3>2 DEF Typed, Locals, At, Inside
  <2> QED
    BY <2>1, <2>2 DEF TypeOK, UsedOK
<1> QED
  BY <1>1, <1>2, <1>3, InvHolds, PTL DEF Spec

\* What a run is about to seal agrees with the branch and with itself: only
\* outcomes it found when it started can occur twice in it
\* (production-scheduler-batch.ts; scheduler-batch-manifest.ts,
\* assertSchedulerBatchManifest).
THEOREM SealsAgree == Spec => []SealAgrees
<1>1. Agrees => SealAgrees
  <2> SUFFICES ASSUME Agrees, NEW r \in Runner
               PROVE  /\ Resolved(r) /\ (UNION run[r].committed) \cap run[r].deferred = {}
                      /\ Apart(run[r].recovered) => Apart(run[r].committed)
    BY DEF SealAgrees
  <2>1. Agree(branch, run[r])
    BY DEF Agrees
  <2> QED
    BY <2>1 DEF Agree, Resolved, Apart
<1> QED
  BY <1>1, AgreesHolds, PTL
=============================================================================
