-------------------------- MODULE PullRelay_proofs --------------------------
(***************************************************************************)
(* RetryLimit of PullRelay, for any number of loops, sessions, targets and *)
(* players: what two loops that pass the test of one target at once can    *)
(* do to its retries.  Only three fields of the record w matter: the       *)
(* targets, the calls of PullerRelay::Pull and which targets were raced    *)
(* for.  All steps but two are quiet there, and the invariant counts, for  *)
(* a target, the loops between the test and the increment.                 *)
(***************************************************************************)
EXTENDS PullRelay, FiniteSetTheorems, TLAPS

Fields == {"session", "target", "call", "relays", "came", "raced", "bad"}
CallFields == {"relay", "client", "target", "at", "seen"}

Shape(v) ==
  /\ Fields \subseteq DOMAIN v
  /\ DOMAIN v.target = Targets
  /\ \A t \in Targets : "retry" \in DOMAIN v.target[t] /\ v.target[t].retry \in Nat
  /\ DOMAIN v.call = 1 .. Loops
  /\ \A l \in 1 .. Loops : v.call[l] # None => CallFields \subseteq DOMAIN v.call[l]

\* The loops that have tested the retries of a target and not counted.
Counting(v, t) == {l \in 1 .. Loops : v.call[l] # None /\ v.call[l].at = "count" /\ v.call[l].target = t}

\* What each of them has seen was below the limit, and if no two met it is what is there.
TargetOK(v, t) ==
  /\ v.target[t].retry + Cardinality(Counting(v, t)) <= MaxRetry[t] + Loops - 1
  /\ \A l \in Counting(v, t) : v.call[l].seen \in Nat /\ v.call[l].seen < MaxRetry[t]
  /\ t \notin v.raced =>
       /\ v.target[t].retry <= MaxRetry[t]
       /\ \A l, k \in Counting(v, t) : l = k
       /\ \A l \in Counting(v, t) : v.call[l].seen = v.target[t].retry

LimitOK(v) == Shape(v) /\ \A t \in Targets : TargetOK(v, t)

\* A step that leaves the retries alone, and in whose calls nobody begins to count.
Quiet(v, n) ==
  /\ Fields \subseteq DOMAIN n
  /\ DOMAIN n.target = Targets
  /\ \A t \in Targets : "retry" \in DOMAIN n.target[t] /\ n.target[t].retry = v.target[t].retry
  /\ v.raced \subseteq n.raced
  /\ DOMAIN n.call = 1 .. Loops
  /\ \A l \in 1 .. Loops :
       \/ n.call[l] = v.call[l]
       \/ n.call[l] = None
       \/ CallFields \subseteq DOMAIN n.call[l] /\ n.call[l].at \in {"go", "name"}

\* A step that touches none of the three.
Same(v, n) ==
  /\ DOMAIN n = DOMAIN v /\ n.target = v.target /\ n.call = v.call /\ n.raced = v.raced

-----------------------------------------------------------------------------
(* Constants.                                                              *)

LEMMA Limits == /\ Loops \in Nat /\ Loops >= 1
                /\ \A t \in Targets : MaxRetry[t] \in Nat
  BY RelayAssumption DEF Targets

\* The loops that count are at most all of them, and fewer without one of them.
LEMMA CountingFinite ==
  ASSUME NEW v, NEW t
  PROVE  /\ IsFiniteSet(Counting(v, t)) /\ Cardinality(Counting(v, t)) \in Nat
         /\ Cardinality(Counting(v, t)) <= Loops
<1> DEFINE all == 1 .. Loops
<1>1. IsFiniteSet(all) /\ Cardinality(all) = Loops
  <2>1. Cardinality(all) = IF 1 > Loops THEN 0 ELSE Loops - 1 + 1
    BY FS_Interval, Limits
  <2> QED BY <2>1, FS_Interval, Limits
<1>2. Counting(v, t) \subseteq all
  BY DEF Counting
<1> QED BY <1>1, <1>2, FS_Subset, FS_CardinalityType

\* Quiet steps keep the invariant.
LEMMA QuietKeeps ==
  ASSUME NEW v, NEW n, LimitOK(v), Quiet(v, n)
  PROVE  LimitOK(n)
<1>1. Shape(n)
  BY DEF LimitOK, Shape, Quiet
<1>2. ASSUME NEW t \in Targets PROVE TargetOK(n, t)
  <2>1. \A l \in Counting(n, t) : l \in Counting(v, t) /\ n.call[l] = v.call[l]
    BY DEF Quiet, Counting
  <2>2. Cardinality(Counting(n, t)) <= Cardinality(Counting(v, t))
    <3>1. Counting(n, t) \subseteq Counting(v, t)
      BY <2>1
    <3> QED BY <3>1, CountingFinite, FS_Subset
  <2>3. /\ n.target[t].retry = v.target[t].retry /\ v.target[t].retry \in Nat
        /\ t \notin n.raced => t \notin v.raced
    BY DEF Quiet, LimitOK, Shape
  <2>4. TargetOK(v, t)
    BY DEF LimitOK
  <2>5. Cardinality(Counting(n, t)) \in Nat /\ Cardinality(Counting(v, t)) \in Nat
    BY CountingFinite
  <2>6. MaxRetry[t] \in Nat /\ Loops \in Nat
    BY Limits
  <2>7. n.target[t].retry + Cardinality(Counting(n, t)) <= MaxRetry[t] + Loops - 1
    BY <2>2, <2>3, <2>4, <2>5, <2>6 DEF TargetOK
  <2> QED BY <2>1, <2>3, <2>4, <2>7 DEF TargetOK
<1> QED BY <1>1, <1>2 DEF LimitOK

LEMMA SameIsQuiet ==
  ASSUME NEW u, NEW v, NEW n, Quiet(u, v), Same(v, n)
  PROVE  Quiet(u, n)
BY DEF Quiet, Same

LEMMA ShapeIsQuiet ==
  ASSUME NEW v, Shape(v)
  PROVE  Quiet(v, v)
BY DEF Quiet, Shape

-----------------------------------------------------------------------------
(* The operators of the model.                                             *)

LEMMA BadIsQuiet ==
  ASSUME NEW v, NEW r, NEW what, Fields \subseteq DOMAIN v
  PROVE  Same(v, Bad(v, r, what))
BY DEF Bad, Same, Fields

LEMMA DropClientSame ==
  ASSUME NEW v, NEW r, NEW p, NEW loop, Fields \subseteq DOMAIN v
  PROVE  Same(v, DropClient(v, r, p, loop))
BY DEF DropClient, Bad, Same, Fields

LEMMA DeletePullerSame ==
  ASSUME NEW v, NEW r, NEW p, NEW loop, Fields \subseteq DOMAIN v
  PROVE  Same(v, DeletePuller(v, r, p, loop))
<1> DEFINE f == [v EXCEPT !.relays[r].pullers[p].freed = TRUE]
<1>1. Same(v, f)
  BY DEF Same, Fields
<1> HIDE DEF f
<1>2. Same(f, DropClient(f, r, p, loop))
  BY <1>1, DropClientSame DEF Same
<1> QED BY <1>1, <1>2 DEF DeletePuller, Same, f

LEMMA ClearPullerSame ==
  ASSUME NEW v, NEW r, NEW loop, Fields \subseteq DOMAIN v
  PROVE  Same(v, ClearPuller(v, r, loop))
<1> DEFINE p == v.relays[r].puller
           cleared == [v EXCEPT !.relays[r].puller = 0]
           queued == [cleared EXCEPT !.relays[r].deletes = @ \cup {p}]
           deleted == DeletePuller(cleared, r, p, loop)
<1>1. Same(v, cleared)
  BY DEF Same, Fields
<1>4. ClearPuller(v, r, loop) \in {v, deleted, queued}
  BY DEF ClearPuller
<1> HIDE DEF cleared
<1>2. Same(cleared, deleted)
  <2>1. Fields \subseteq DOMAIN cleared
    BY <1>1 DEF Same
  <2> QED BY <2>1, DeletePullerSame
<1>3. Same(cleared, queued)
  BY <1>1 DEF Same, Fields
<1> HIDE DEF queued, deleted
<1> QED BY <1>1, <1>2, <1>3, <1>4 DEF Same

LEMMA ReleaseSame ==
  ASSUME NEW v, NEW s, NEW loop, Fields \subseteq DOMAIN v
  PROVE  Same(v, Release(v, s, loop))
<1> DEFINE gone == [v EXCEPT !.session[s].freed = TRUE]
           r == v.session[s].pull
           c == ClearPuller(gone, r, loop)
           freed == [c EXCEPT !.relays[r].freed = TRUE]
<1>1. Same(v, gone)
  BY DEF Same, Fields
<1>2. Same(gone, c)
  BY <1>1, ClearPullerSame DEF Same
<1>3. Release(v, s, loop) \in {v, gone, freed}
  BY DEF Release
<1> HIDE DEF gone, c
<1>4. Same(c, freed)
  BY <1>1, <1>2 DEF Same, Fields
<1> HIDE DEF freed
<1> QED BY <1>1, <1>2, <1>3, <1>4 DEF Same

LEMMA CloseSessionSame ==
  ASSUME NEW v, NEW s, NEW loop, Fields \subseteq DOMAIN v
  PROVE  Same(v, CloseSession(v, s, loop))
<1> DEFINE closed == [v EXCEPT !.session[s].listed = FALSE]
<1>1. Same(v, closed)
  BY DEF Same, Fields
<1>2. CloseSession(v, s, loop) \in {v, Release(closed, s, loop)}
  BY DEF CloseSession
<1> HIDE DEF closed
<1>3. Same(closed, Release(closed, s, loop))
  BY <1>1, ReleaseSame DEF Same
<1> QED BY <1>1, <1>2, <1>3 DEF Same

LEMMA PullerPullSame ==
  ASSUME NEW v, NEW r, NEW p, NEW t, NEW loop, Fields \subseteq DOMAIN v
  PROVE  Same(v, PullerPull(v, r, p, t, loop))
<1> DEFINE d == DropClient(v, r, p, loop)
           fresh == [puller |-> p, target |-> t, url |-> v.target[t].stream, met |-> FALSE, orphan |-> FALSE,
                     st |-> IF v.relays[r].pullers[p].loop = loop THEN "connecting" ELSE "new"]
           n == [d EXCEPT !.relays[r].clients = Append(@, fresh),
                          !.relays[r].pullers[p].client = Len(v.relays[r].clients) + 1]
<1>1. PullerPull(v, r, p, t, loop) \in {Bad(v, r, "puller"), n}
  BY DEF PullerPull
<1>2. Same(v, d)
  BY DropClientSame
<1> HIDE DEF d, fresh
<1>3. Same(d, n)
  BY <1>2 DEF Same, Fields
<1> HIDE DEF n
<1> QED BY <1>1, <1>2, <1>3, BadIsQuiet DEF Same

LEMMA GetPullerSame ==
  ASSUME NEW v, NEW r, Fields \subseteq DOMAIN v, NEW n \in GetPuller(v, r)
  PROVE  Same(v, n)
BY DEF GetPuller, Same, Fields

\* The end of a call takes it from its loop.
LEMMA EndedQuiet ==
  ASSUME NEW u, NEW v, Shape(u), Quiet(u, v), NEW loop, NEW n \in Ended(v, loop)
  PROVE  Quiet(u, n)
<1> DEFINE r == v.call[loop].relay
           c == v.call[loop].client
           over == [v EXCEPT !.call[loop] = None]
           closed == [over EXCEPT !.relays[r].clients[c].st = "closed"]
<1>1. Quiet(u, over)
  BY DEF Quiet, Fields
<1>2. n \in {over, Bad(over, r, "client"), closed}
  BY DEF Ended
<1> HIDE DEF over
<1>3. Same(over, closed)
  BY <1>1 DEF Same, Quiet, Fields
<1>4. Same(over, Bad(over, r, "client"))
  BY <1>1, BadIsQuiet DEF Quiet
<1> HIDE DEF closed
<1> QED BY <1>1, <1>2, <1>3, <1>4, SameIsQuiet

\* What a call does next on its own loop, where nothing counts.
LEMMA MovedQuiet ==
  ASSUME NEW u, NEW v, Shape(u), Quiet(u, v), NEW loop,
         loop \in 1 .. Loops => CallFields \subseteq DOMAIN v.call[loop],
         NEW at \in {"go", "name"}
  PROVE  Quiet(u, [v EXCEPT !.call[loop].at = at])
BY DEF Quiet, Fields, CallFields

\* The next target is chosen, or there is none.
LEMMA NextTargetQuiet ==
  ASSUME NEW u, NEW v, Shape(u), Quiet(u, v), NEW r, NEW loop,
         loop \in 1 .. Loops => CallFields \subseteq DOMAIN v.call[loop],
         NEW n \in NextTarget(v, r, loop)
  PROVE  Quiet(u, n)
<1> DEFINE pulls == Pulls[v.relays[r].session]
           idx == v.relays[r].idx + 1
           t == pulls[idx]
           moved == [v EXCEPT !.relays[r].idx = idx, !.call[loop].at = "go"]
           aimed == [moved EXCEPT !.relays[r].target = t, !.call[loop].target = t]
           chosen == ClearPuller(aimed, r, loop)
           named == [chosen EXCEPT !.call[loop].at = "name"]
           cleared == ClearPuller(moved, r, loop)
           over == CloseSession(cleared, v.relays[r].session, loop)
<1>1. n \in {over, named} \/ n \in GetPuller(chosen, r)
  BY DEF NextTarget
<1>2. /\ Quiet(u, moved)
      /\ loop \in 1 .. Loops => CallFields \subseteq DOMAIN moved.call[loop] /\ moved.call[loop].at = "go"
  BY DEF Quiet, Fields, CallFields
<1> HIDE DEF moved, t
<1>3. /\ Quiet(u, aimed)
      /\ loop \in 1 .. Loops => CallFields \subseteq DOMAIN aimed.call[loop] /\ aimed.call[loop].at = "go"
  BY <1>2 DEF Quiet, Fields, CallFields
<1> HIDE DEF aimed
<1>4. Same(aimed, chosen) /\ Quiet(u, chosen)
  <2>1. Fields \subseteq DOMAIN aimed
    BY <1>3 DEF Quiet
  <2>2. Same(aimed, chosen)
    BY <2>1, ClearPullerSame
  <2> QED BY <1>3, <2>2, SameIsQuiet
<1>5. loop \in 1 .. Loops => CallFields \subseteq DOMAIN chosen.call[loop]
  BY <1>3, <1>4 DEF Same
<1> HIDE DEF chosen
<1>6. Quiet(u, named)
  BY <1>4, <1>5, MovedQuiet
<1>7. ASSUME n \in GetPuller(chosen, r) PROVE Quiet(u, n)
  BY <1>4, <1>7, GetPullerSame, SameIsQuiet DEF Quiet
<1>8. Same(moved, cleared) /\ Quiet(u, cleared)
  <2>1. Fields \subseteq DOMAIN moved
    BY <1>2 DEF Quiet
  <2>2. Same(moved, cleared)
    BY <2>1, ClearPullerSame
  <2> QED BY <1>2, <2>2, SameIsQuiet
<1> HIDE DEF cleared
<1>9. Quiet(u, over)
  BY <1>8, CloseSessionSame, SameIsQuiet DEF Quiet
<1> HIDE DEF over, named
<1> QED BY <1>1, <1>6, <1>7, <1>9

\* A call that passes the test of a target counts with the others there; if there are
\* others, they are raced.
LEMMA PullKeeps ==
  ASSUME NEW u, NEW v, LimitOK(u), Same(u, v), NEW r, NEW loop, NEW client, NEW n \in Pull(v, r, loop, client)
  PROVE  LimitOK(n)
<1> DEFINE t == v.relays[r].target
           others == {l \in 1 .. Loops \ {loop} : v.call[l] # None}
           met == {x \in Targets : \E l \in others : v.call[l].relay = r \/ (v.call[l].target = t /\ x = t)}
           call == [relay |-> r, client |-> client, target |-> t, at |-> "go", seen |-> 0]
           begun == [v EXCEPT !.raced = @ \cup met, !.call[loop] = call]
           counts == [begun EXCEPT !.call[loop].at = "count", !.call[loop].seen = v.target[t].retry]
<1>1. Shape(u) /\ Quiet(u, v) /\ LimitOK(v)
  BY SameIsQuiet, ShapeIsQuiet, QuietKeeps DEF LimitOK
<1>2. /\ Quiet(v, begun)
      /\ loop \in 1 .. Loops => begun.call[loop] = call
  BY <1>1 DEF Quiet, LimitOK, Shape, Fields, CallFields
<1>3. begun.target = v.target /\ begun.raced = v.raced \cup met /\ DOMAIN begun = DOMAIN v
      /\ begun.call = [v.call EXCEPT ![loop] = call]
  BY <1>1 DEF LimitOK, Shape, Fields
<1>4. \/ n \in Ended(begun, loop)
      \/ n \in NextTarget(begun, r, loop)
      \/ t # 0 /\ v.target[t].retry < MaxRetry[t] /\ n = counts
  BY DEF Pull
<1>5. CASE n \in Ended(begun, loop)
  <2>1. Quiet(v, n)
    BY <1>1, <1>2, <1>5, EndedQuiet DEF LimitOK
  <2> QED BY <1>1, <2>1, QuietKeeps
<1>6. CASE n \in NextTarget(begun, r, loop)
  <2>1. loop \in 1 .. Loops => CallFields \subseteq DOMAIN begun.call[loop]
    BY <1>2 DEF CallFields
  <2> HIDE DEF begun
  <2>2. Quiet(v, n)
    BY <1>1, <1>2, <1>6, <2>1, NextTargetQuiet DEF LimitOK
  <2> QED BY <1>1, <2>2, QuietKeeps
<1>7. CASE v.target[t].retry < MaxRetry[t] /\ n = counts
  <2> HIDE DEF begun
  <2>1. /\ n.target = v.target /\ n.raced = v.raced \cup met /\ DOMAIN n = DOMAIN v
        /\ DOMAIN n.call = 1 .. Loops
        /\ \A l \in 1 .. Loops : l # loop => n.call[l] = v.call[l]
    BY <1>1, <1>3, <1>7 DEF LimitOK, Shape, Fields
  <2>2. ASSUME loop \in 1 .. Loops
        PROVE  /\ CallFields \subseteq DOMAIN n.call[loop] /\ n.call[loop].target = t
               /\ n.call[loop].seen = v.target[t].retry
    <3>1. "call" \in DOMAIN begun /\ loop \in DOMAIN begun.call /\ begun.call[loop] = call
      BY <1>1, <1>2, <1>3, <2>2 DEF LimitOK, Shape, Fields
    <3>2. n.call[loop] = [begun.call[loop] EXCEPT !.at = "count", !.seen = v.target[t].retry]
      BY <1>7, <3>1
    <3> QED BY <3>1, <3>2 DEF CallFields
  <2>3. Shape(n)
    BY <1>1, <2>1, <2>2 DEF LimitOK, Shape
  <2>4. ASSUME NEW x \in Targets PROVE TargetOK(n, x)
    <3>1. TargetOK(v, x) /\ n.target[x].retry = v.target[x].retry /\ n.target[x].retry \in Nat
      BY <1>1, <2>1 DEF LimitOK, Shape
    <3>2. MaxRetry[x] \in Nat /\ Loops \in Nat
      BY Limits
    <3>3. \A l \in Counting(n, x) : (l # loop => l \in Counting(v, x) /\ n.call[l] = v.call[l])
                                    /\ (l = loop => loop \in 1 .. Loops /\ x = t)
      BY <2>1, <2>2 DEF Counting
    <3>4. CASE x = t
      <4>1. n.target[x].retry + Cardinality(Counting(n, x)) <= MaxRetry[x] + Loops - 1
        <5>1. Cardinality(Counting(n, x)) \in Nat /\ Cardinality(Counting(n, x)) <= Loops
          BY CountingFinite
        <5> QED BY <1>7, <3>1, <3>2, <3>4, <5>1
      <4>2. \A l \in Counting(n, x) : n.call[l].seen \in Nat /\ n.call[l].seen < MaxRetry[x]
        BY <1>7, <2>2, <3>1, <3>3, <3>4 DEF TargetOK
      <4>3. ASSUME x \notin n.raced
            PROVE  /\ \A l \in Counting(n, x) : l = loop
                   /\ x \notin v.raced
        <5>1. x \notin met /\ x \notin v.raced
          BY <2>1, <4>3
        <5>2. \A l \in Counting(v, x) : l = loop
          <6> SUFFICES ASSUME NEW l \in Counting(v, x), l # loop PROVE FALSE
            OBVIOUS
          <6>1. l \in others /\ v.call[l].target = t
            BY <3>4 DEF Counting
          <6> QED BY <3>4, <5>1, <6>1
        <5> QED BY <3>3, <5>1, <5>2
      <4>4. x \notin n.raced =>
              /\ n.target[x].retry <= MaxRetry[x]
              /\ \A l, k \in Counting(n, x) : l = k
              /\ \A l \in Counting(n, x) : n.call[l].seen = n.target[x].retry
        BY <2>2, <3>1, <3>3, <3>4, <4>3 DEF TargetOK
      <4> QED BY <4>1, <4>2, <4>4 DEF TargetOK
    <3>5. CASE x # t
      <4>1. \A l \in Counting(n, x) : l \in Counting(v, x) /\ n.call[l] = v.call[l]
        BY <3>3, <3>5
      <4>2. Cardinality(Counting(n, x)) <= Cardinality(Counting(v, x))
        <5>1. Counting(n, x) \subseteq Counting(v, x)
          BY <4>1
        <5> QED BY <5>1, CountingFinite, FS_Subset
      <4>3. Cardinality(Counting(n, x)) \in Nat /\ Cardinality(Counting(v, x)) \in Nat
        BY CountingFinite
      <4>4. n.target[x].retry + Cardinality(Counting(n, x)) <= MaxRetry[x] + Loops - 1
        BY <3>1, <3>2, <4>2, <4>3 DEF TargetOK
      <4>5. x \notin n.raced => x \notin v.raced
        BY <2>1
      <4> QED BY <3>1, <4>1, <4>4, <4>5 DEF TargetOK
    <3> QED BY <3>4, <3>5
  <2> QED BY <2>3, <2>4 DEF LimitOK
<1> QED BY <1>4, <1>5, <1>6, <1>7

LEMMA OnPullCloseKeeps ==
  ASSUME NEW u, NEW v, LimitOK(u), Same(u, v), NEW r, NEW p, NEW client,
         NEW n \in OnPullClose(v, r, p, client)
  PROVE  LimitOK(n)
<1> DEFINE loop == v.relays[r].pullers[p].loop
<1>1. n \in {Bad(v, r, "puller"), Bad(v, r, "relay"), Bad(v, r, "session")} \/ n \in Pull(v, r, loop, client)
  BY DEF OnPullClose
<1>2. Quiet(u, v) /\ Fields \subseteq DOMAIN v
  <2>1. Quiet(u, u)
    BY ShapeIsQuiet DEF LimitOK
  <2>2. Quiet(u, v)
    BY <2>1, SameIsQuiet
  <2> QED BY <2>2 DEF Quiet
<1>3. ASSUME NEW what, n = Bad(v, r, what) PROVE LimitOK(n)
  <2>1. Quiet(u, n)
    BY <1>2, <1>3, BadIsQuiet, SameIsQuiet
  <2> QED BY <2>1, QuietKeeps
<1> HIDE DEF loop
<1> QED BY <1>1, <1>3, PullKeeps

-----------------------------------------------------------------------------
(* The steps.                                                              *)

LEMMA InitLimit == Init => LimitOK(w)
<1> SUFFICES ASSUME Init PROVE LimitOK(w)
  OBVIOUS
<1>1. Shape(w)
  BY DEF Init, Shape, Fields
<1>2. ASSUME NEW t \in Targets PROVE TargetOK(w, t)
  <2>1. w.target[t].retry = 0 /\ Counting(w, t) = {}
    BY <1>2 DEF Init, Counting
  <2>2. Cardinality(Counting(w, t)) = 0
    BY <2>1, FS_EmptySet
  <2> QED BY <2>1, <2>2, Limits DEF TargetOK
<1> QED BY <1>1, <1>2 DEF LimitOK

LEMMA StartKeeps ==
  ASSUME NEW u, NEW v, LimitOK(u), Same(u, v), NEW r, NEW loop, NEW n \in StartPullStream(v, r, loop)
  PROVE  LimitOK(n)
<1> DEFINE started == [v EXCEPT !.relays[r].starts = @ + 1]
           over == CloseSession(started, v.relays[r].session, loop)
<1>1. n = over \/ n \in Pull(started, r, loop, 0)
  BY DEF StartPullStream
<1>2. Fields \subseteq DOMAIN v
  BY DEF LimitOK, Shape, Same
<1>3. Same(u, started) /\ Fields \subseteq DOMAIN started
  BY <1>2 DEF Same, Fields
<1> HIDE DEF started
<1>4. Same(started, over)
  BY <1>3, CloseSessionSame
<1>5. Quiet(u, over)
  <2>1. Quiet(u, started)
    BY <1>3, ShapeIsQuiet, SameIsQuiet DEF LimitOK
  <2> QED BY <1>4, <2>1, SameIsQuiet
<1> HIDE DEF over
<1> QED BY <1>1, <1>3, <1>5, PullKeeps, QuietKeeps

\* The two accesses of the increment.
LEMMA CountKeeps ==
  ASSUME LimitOK(w), NEW loop \in 1 .. Loops, Count(loop)
  PROVE  LimitOK(w')
<1> DEFINE call == w.call[loop]
           t == call.target
<1>1. call # None /\ call.at = "count" /\ Shape(w)
  BY DEF Count, LimitOK
<1>2. CASE w.relays[call.relay].freed
  <2>1. w' = Bad(w, call.relay, "relay")
    BY <1>2 DEF Count
  <2>2. Quiet(w, w')
    BY <1>1, <2>1, BadIsQuiet, ShapeIsQuiet, SameIsQuiet DEF Shape
  <2> QED BY <2>2, QuietKeeps
<1>3. CASE ~w.relays[call.relay].freed
  <2>1. PICK x \in {call.seen, w.target[t].retry} :
          w' = [w EXCEPT !.target[t].retry = x + 1, !.call[loop].at = "go"]
    BY <1>3 DEF Count
  <2>2. /\ Fields \subseteq DOMAIN w' /\ w'.raced = w.raced
        /\ DOMAIN w'.target = Targets /\ DOMAIN w'.call = 1 .. Loops
        /\ \A y \in Targets : w'.target[y] = IF y = t THEN [w.target[y] EXCEPT !.retry = x + 1] ELSE w.target[y]
        /\ \A l \in 1 .. Loops : w'.call[l] = IF l = loop THEN [w.call[l] EXCEPT !.at = "go"] ELSE w.call[l]
    BY <1>1, <2>1 DEF Shape, Fields
  <2>3. CallFields \subseteq DOMAIN w'.call[loop] /\ w'.call[loop].at = "go"
    BY <1>1, <2>2 DEF Shape, CallFields
  <2>4. ASSUME NEW y \in Targets
        PROVE  /\ "retry" \in DOMAIN w'.target[y] /\ w'.target[y].retry \in Nat
               /\ TargetOK(w', y)
    <3>1. /\ TargetOK(w, y) /\ w.target[y].retry \in Nat /\ "retry" \in DOMAIN w.target[y]
          /\ MaxRetry[y] \in Nat /\ Loops \in Nat
      BY Limits DEF LimitOK, Shape
    <3>2. \A l \in Counting(w', y) : l \in Counting(w, y) /\ l # loop /\ w'.call[l] = w.call[l]
      BY <2>2, <2>3 DEF Counting
    <3>3. /\ IsFiniteSet(Counting(w, y)) /\ IsFiniteSet(Counting(w', y))
          /\ Cardinality(Counting(w', y)) \in Nat /\ Cardinality(Counting(w, y)) \in Nat
      BY CountingFinite
    <3>4. CASE y # t
      <4>1. w'.target[y] = w.target[y]
        BY <2>2, <3>4
      <4>2. Cardinality(Counting(w', y)) <= Cardinality(Counting(w, y))
        <5>1. Counting(w', y) \subseteq Counting(w, y)
          BY <3>2
        <5> QED BY <3>3, <5>1, FS_Subset
      <4>3. w'.target[y].retry + Cardinality(Counting(w', y)) <= MaxRetry[y] + Loops - 1
        BY <3>1, <3>3, <4>1, <4>2 DEF TargetOK
      <4> QED BY <2>2, <3>1, <3>2, <4>1, <4>3 DEF TargetOK
    <3>5. CASE y = t
      <4>1. loop \in Counting(w, y)
        BY <1>1, <3>5 DEF Counting
      <4>2. /\ Cardinality(Counting(w', y)) <= Cardinality(Counting(w, y)) - 1
            /\ Cardinality(Counting(w, y)) <= Loops
        <5>1. Counting(w', y) \subseteq Counting(w, y) \ {loop}
          BY <3>2
        <5>2. /\ IsFiniteSet(Counting(w, y) \ {loop})
              /\ Cardinality(Counting(w, y) \ {loop}) = Cardinality(Counting(w, y)) - 1
          BY <3>3, <4>1, FS_RemoveElement
        <5>3. Cardinality(Counting(w', y)) <= Cardinality(Counting(w, y) \ {loop})
          BY <5>1, <5>2, FS_Subset
        <5> QED BY <5>2, <5>3, CountingFinite
      <4>3. call.seen \in Nat /\ call.seen < MaxRetry[y]
        BY <3>1, <4>1 DEF TargetOK
      <4>4. w'.target[y].retry = x + 1 /\ "retry" \in DOMAIN w'.target[y] /\ x \in Nat
        BY <2>2, <3>1, <3>5, <4>3
      <4>5. w'.target[y].retry + Cardinality(Counting(w', y)) <= MaxRetry[y] + Loops - 1
        <5>1. CASE x = w.target[y].retry
          BY <3>1, <3>3, <4>2, <4>4, <5>1 DEF TargetOK
        <5>2. CASE x = call.seen
          BY <3>1, <3>3, <4>2, <4>3, <4>4, <5>2
        <5> QED BY <3>5, <5>1, <5>2
      <4>6. ASSUME y \notin w.raced PROVE Counting(w', y) = {} /\ x + 1 <= MaxRetry[y]
        <5>1. \A l \in Counting(w, y) : l = loop
          BY <3>1, <4>1, <4>6 DEF TargetOK
        <5>2. call.seen = w.target[y].retry
          BY <3>1, <4>1, <4>6 DEF TargetOK
        <5>3. x = call.seen
          BY <3>5, <5>2
        <5> QED BY <3>1, <3>2, <4>3, <5>1, <5>3
      <4>7. y \notin w'.raced =>
              /\ w'.target[y].retry <= MaxRetry[y]
              /\ \A l, k \in Counting(w', y) : l = k
              /\ \A l \in Counting(w', y) : w'.call[l].seen = w'.target[y].retry
        BY <2>2, <4>4, <4>6
      <4>8. \A l \in Counting(w', y) : w'.call[l].seen \in Nat /\ w'.call[l].seen < MaxRetry[y]
        BY <3>1, <3>2 DEF TargetOK
      <4> QED BY <4>4, <4>5, <4>7, <4>8 DEF TargetOK
    <3> QED BY <3>4, <3>5
  <2>5. Shape(w')
    BY <1>1, <2>2, <2>3, <2>4 DEF Shape
  <2> QED BY <2>4, <2>5 DEF LimitOK
<1> QED BY <1>2, <1>3

LEMMA NameKeeps ==
  ASSUME LimitOK(w), NEW loop \in 1 .. Loops, Name(loop)
  PROVE  LimitOK(w')
<1> DEFINE call == w.call[loop]
           r == call.relay
           t == call.target
           s == w.relays[r].session
           named == [w EXCEPT !.target[t].stream = s, !.call[loop].at = "go"]
<1>1. call # None /\ Shape(w) /\ Quiet(w, w)
  BY ShapeIsQuiet DEF Name, LimitOK
<1>2. w' = Bad(w, r, "relay") \/ w' \in GetPuller(named, r)
  BY DEF Name
<1>3. Quiet(w, named)
  <2>1. CallFields \subseteq DOMAIN call
    BY <1>1 DEF Shape
  <2>2. /\ Fields \subseteq DOMAIN named /\ named.raced = w.raced
        /\ DOMAIN named.target = Targets /\ DOMAIN named.call = 1 .. Loops
        /\ \A y \in Targets : named.target[y] = IF y = t THEN [w.target[y] EXCEPT !.stream = s] ELSE w.target[y]
        /\ \A l \in 1 .. Loops : named.call[l] = IF l = loop THEN [w.call[l] EXCEPT !.at = "go"] ELSE w.call[l]
    BY <1>1 DEF Shape, Fields
  <2> HIDE DEF named
  <2>3. \A y \in Targets : "retry" \in DOMAIN named.target[y] /\ named.target[y].retry = w.target[y].retry
    BY <1>1, <2>2 DEF Shape
  <2>4. CallFields \subseteq DOMAIN named.call[loop] /\ named.call[loop].at = "go"
    BY <2>1, <2>2 DEF CallFields
  <2> QED BY <2>2, <2>3, <2>4 DEF Quiet
<1> HIDE DEF named
<1>4. ASSUME w' \in GetPuller(named, r) PROVE Quiet(w, w')
  <2>1. Same(named, w')
    BY <1>3, <1>4, GetPullerSame DEF Quiet
  <2> QED BY <1>3, <2>1, SameIsQuiet
<1>5. ASSUME w' = Bad(w, r, "relay") PROVE Quiet(w, w')
  BY <1>1, <1>5, BadIsQuiet, SameIsQuiet DEF Shape
<1> QED BY <1>2, <1>4, <1>5, QuietKeeps

LEMMA GoKeeps ==
  ASSUME LimitOK(w), NEW loop \in 1 .. Loops, Go(loop)
  PROVE  LimitOK(w')
<1> DEFINE r == w.call[loop].relay
           t == w.call[loop].target
           p == w.relays[r].puller
           pulled == PullerPull(w, r, p, t, loop)
           timed == [w EXCEPT !.relays[r].timers = Append(@, [puller |-> p, target |-> t])]
<1>1. Shape(w) /\ Quiet(w, w) /\ Fields \subseteq DOMAIN w
  BY ShapeIsQuiet DEF LimitOK, Shape
<1>2. w' = Bad(w, r, "relay") \/ w' \in Ended(w, loop) \/ w' \in Ended(pulled, loop) \/ w' \in Ended(timed, loop)
  BY DEF Go
<1>3. Quiet(w, pulled) /\ Quiet(w, timed)
  <2>1. Same(w, pulled)
    BY <1>1, PullerPullSame
  <2>2. Same(w, timed)
    BY <1>1 DEF Same, Fields
  <2> HIDE DEF pulled, timed
  <2> QED BY <1>1, <2>1, <2>2, SameIsQuiet
<1> HIDE DEF pulled, timed
<1>4. ASSUME w' \in Ended(w, loop) \/ w' \in Ended(pulled, loop) \/ w' \in Ended(timed, loop)
      PROVE  Quiet(w, w')
  BY <1>1, <1>3, <1>4, EndedQuiet
<1>5. ASSUME w' = Bad(w, r, "relay") PROVE Quiet(w, w')
  BY <1>1, <1>5, BadIsQuiet, SameIsQuiet
<1> QED BY <1>2, <1>4, <1>5, QuietKeeps

\* The steps that touch nothing of it.
LEMMA OthersKeep ==
  ASSUME LimitOK(w),
         \/ \E p \in Players : Join(p) \/ Leave(p)
         \/ \E s \in Sessions : Timeout(s)
         \/ \E r, p : RunDelete(r, p) \/ Retry(r, p) \/ Connecting(r, p) \/ Connected(r, p) \/ Message(r, p)
  PROVE  LimitOK(w')
<1>1. Shape(w) /\ Quiet(w, w) /\ Fields \subseteq DOMAIN w
  BY ShapeIsQuiet DEF LimitOK, Shape
<1>2. SUFFICES Same(w, w')
  <2>1. ASSUME Same(w, w') PROVE LimitOK(w')
    BY <1>1, <2>1, SameIsQuiet, QuietKeeps
  <2> QED BY <2>1
<1>3. ASSUME NEW p \in Players, Join(p) PROVE Same(w, w')
  BY <1>1, <1>3 DEF Join, Same, Fields
<1>4. ASSUME NEW p \in Players, Leave(p) PROVE Same(w, w')
  <2> DEFINE s == asks[p]
             left == [w EXCEPT !.session[s].players = @ \ {p}]
  <2>1. Same(w, left) /\ Fields \subseteq DOMAIN left
    BY <1>1 DEF Same, Fields
  <2>2. w' = Release(left, s, LoopOf[p])
    BY <1>4 DEF Leave
  <2> HIDE DEF left
  <2>3. Same(left, w')
    BY <2>1, <2>2, ReleaseSame
  <2> QED BY <2>1, <2>3 DEF Same
<1>5. ASSUME NEW s \in Sessions, Timeout(s) PROVE Same(w, w')
  BY <1>1, <1>5, CloseSessionSame DEF Timeout
<1>6. ASSUME NEW r, NEW p, RunDelete(r, p) PROVE Same(w, w')
  <2> DEFINE taken == [w EXCEPT !.relays[r].deletes = @ \ {p}]
             loop == w.relays[r].pullers[p].loop
  <2>1. Same(w, taken) /\ Fields \subseteq DOMAIN taken
    BY <1>1 DEF Same, Fields
  <2>2. w' = DeletePuller(taken, r, p, loop)
    BY <1>6 DEF RunDelete
  <2> HIDE DEF taken
  <2>3. Same(taken, w')
    BY <2>1, <2>2, DeletePullerSame
  <2> QED BY <2>1, <2>3 DEF Same
<1>7. ASSUME NEW r, NEW i, Retry(r, i) PROVE Same(w, w')
  <2> DEFINE timer == w.relays[r].timers[i]
             taken == [w EXCEPT !.relays[r].timers = RemoveAt(@, i)]
             loop == w.relays[r].pullers[timer.puller].loop
  <2>1. Same(w, taken) /\ Fields \subseteq DOMAIN taken
    BY <1>1 DEF Same, Fields
  <2>2. w' = PullerPull(taken, r, timer.puller, timer.target, loop)
    BY <1>7 DEF Retry
  <2> HIDE DEF taken
  <2>3. Same(taken, w')
    BY <2>1, <2>2, PullerPullSame
  <2> QED BY <2>1, <2>3 DEF Same
<1>8. ASSUME NEW r, NEW c, Connecting(r, c) PROVE Same(w, w')
  BY <1>1, <1>8 DEF Connecting, Same, Fields
<1>9. ASSUME NEW r, NEW c, Connected(r, c) PROVE Same(w, w')
  BY <1>1, <1>9, BadIsQuiet DEF Connected, Same, Fields
<1>10. ASSUME NEW r, NEW c, Message(r, c) PROVE Same(w, w')
  BY <1>1, <1>10, BadIsQuiet DEF Message
<1> QED BY <1>3, <1>4, <1>5, <1>6, <1>7, <1>8, <1>9, <1>10

\* The steps that call PullerRelay::Pull.
LEMMA CallsKeep ==
  ASSUME LimitOK(w),
         \/ \E p \in Players : StartPull(p)
         \/ \E r, c : Failed(r, c) \/ Lost(r, c) \/ Playing(r, c)
  PROVE  LimitOK(w')
<1>1. Shape(w) /\ Quiet(w, w) /\ Fields \subseteq DOMAIN w /\ Same(w, w)
  BY ShapeIsQuiet DEF LimitOK, Shape, Same
<1>2. ASSUME NEW p \in Players, StartPull(p) PROVE LimitOK(w')
  <2> DEFINE s == joining[p].session
             relay == [session |-> s, idx |-> 0, target |-> 0, puller |-> 0, starts |-> 0, freed |-> FALSE,
                       pullers |-> <<>>, clients |-> <<>>, timers |-> <<>>, deletes |-> {}]
             fresh == [w EXCEPT !.session[s].pull = Len(w.relays) + 1, !.relays = Append(@, relay)]
             old == joining[p].pull
             next == Len(w.relays) + 1
  <2>1. w' \in StartPullStream(fresh, next, LoopOf[p]) \/ w' \in StartPullStream(w, old, LoopOf[p])
    BY <1>2 DEF StartPull
  <2>2. Same(w, fresh)
    BY <1>1 DEF Same, Fields
  <2> HIDE DEF fresh, old, next
  <2> QED BY <1>1, <2>1, <2>2, StartKeeps
<1>3. ASSUME NEW r, NEW c, OnClose(r, c) PROVE LimitOK(w')
  <2> DEFINE closing == [w EXCEPT !.relays[r].clients[c].st = "closing"]
             p == w.relays[r].clients[c].puller
  <2>1. w' \in OnPullClose(closing, r, p, c)
    BY <1>3 DEF OnClose
  <2>2. Same(w, closing)
    BY <1>1 DEF Same, Fields
  <2> HIDE DEF closing, p
  <2> QED BY <2>1, <2>2, OnPullCloseKeeps
<1>4. ASSUME NEW r, NEW c, Playing(r, c) PROVE LimitOK(w')
  <2> DEFINE p == w.relays[r].clients[c].puller
             s == w.relays[r].session
             pulled == [w EXCEPT !.relays[r].clients[c].st = "playing"]
             found == [pulled EXCEPT !.session[s].published = TRUE]
  <2>1. \/ w' \in {Bad(w, r, "client"), Bad(w, r, "session"), found}
        \/ w' \in OnPullClose(pulled, r, p, 0)
    BY <1>4 DEF Playing, OnPlay
  <2>2. Same(w, pulled)
    BY <1>1 DEF Same, Fields
  <2>3. Same(w, found)
    BY <1>1 DEF Same, Fields
  <2>4. Same(w, Bad(w, r, "client")) /\ Same(w, Bad(w, r, "session"))
    BY <1>1, BadIsQuiet
  <2> HIDE DEF pulled, found, p
  <2>5. ASSUME Same(w, w') PROVE LimitOK(w')
    BY <1>1, <2>5, SameIsQuiet, QuietKeeps
  <2> QED BY <2>1, <2>2, <2>3, <2>4, <2>5, OnPullCloseKeeps
<1> QED BY <1>2, <1>3, <1>4 DEF Failed, Lost

LEMMA LimitInductive == LimitOK(w) /\ [Next]_vars => LimitOK(w)'
<1> SUFFICES ASSUME LimitOK(w), [Next]_vars PROVE LimitOK(w')
  BY DEF LimitOK, Shape, TargetOK, Counting
<1>1. CASE UNCHANGED vars
  BY <1>1 DEF vars
<1>2. CASE Next
  BY <1>2, CountKeeps, NameKeeps, GoKeeps, OthersKeep, CallsKeep DEF Next, LoopStep
<1> QED BY <1>1, <1>2

\* However many loops test and count the retries of one target at once, and however many
\* sessions share it, its retries pass the limit by less than the number of loops, and
\* not at all if no two of them met (PullerRelay::SelectTarget).
THEOREM RetriesInLimit == Spec => []RetryLimit
<1>1. LimitOK(w) => RetryLimit
  <2> SUFFICES ASSUME LimitOK(w), NEW t \in Targets
               PROVE  /\ w.target[t].retry <= MaxRetry[t] + Loops - 1
                      /\ t \notin w.raced => w.target[t].retry <= MaxRetry[t]
    BY DEF RetryLimit
  <2>1. TargetOK(w, t) /\ w.target[t].retry \in Nat /\ Cardinality(Counting(w, t)) \in Nat
    BY CountingFinite DEF LimitOK, Shape
  <2> QED BY <2>1, Limits DEF TargetOK
<1>2. Init => LimitOK(w)
  BY InitLimit
<1>3. LimitOK(w) /\ [Next]_vars => LimitOK(w)'
  BY LimitInductive
<1> QED BY <1>1, <1>2, <1>3, PTL DEF Spec

=============================================================================
