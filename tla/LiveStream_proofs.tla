-------------------------- MODULE LiveStream_proofs --------------------------
(***************************************************************************)
(* The inductive invariant of LiveStream, for any number of players, ring  *)
(* size, batch size, latency and sequence of packets; the safety           *)
(* properties that follow from it; the codec headers every decoder gets;   *)
(* that nothing fetched is stranded; and the step of LiveStream            *)
(* implementing PacketFeed.                                                *)
(***************************************************************************)
EXTENDS LiveStream, TLAPS, WellFoundedInduction

-----------------------------------------------------------------------------
(* Arithmetic modulo the ring's size.                                      *)

\* Division with remainder: the slot of a packet in a ring of N slots.
LEMMA ModDef ==
  ASSUME NEW N \in Nat \ {0}, NEW a \in Nat
  PROVE  a % N \in 0 .. N - 1 /\ a \div N \in Nat /\ a = N * (a \div N) + (a % N)
OBVIOUS

\* A positive multiple of N is at least N.
LEMMA MulStep ==
  ASSUME NEW N \in Nat \ {0}, NEW q \in Int, q >= 1
  PROVE  N * q >= N
BY Z3

\* Two packets less than a ring apart that share a slot are the same packet.
LEMMA ModUnique ==
  ASSUME NEW N \in Nat \ {0}, NEW a \in Nat, NEW b \in Nat,
         a % N = b % N, a <= b, b - a < N
  PROVE  a = b
<1> DEFINE p == a \div N
           q == b \div N
<1>1. /\ p \in Nat /\ q \in Nat /\ a % N \in 0 .. N - 1
      /\ a = N * p + (a % N) /\ b = N * q + (b % N)
  BY ModDef
<1> HIDE DEF p, q
<1>2. b - a = N * (q - p)
  BY <1>1
<1>3. ~(q - p >= 1)
  BY <1>1, <1>2, MulStep
<1>4. p - q \in Int /\ q - p \in Int /\ (q - p < 0 \/ q = p)
  BY <1>1, <1>3
<1>5. CASE q = p
  BY <1>1, <1>5
<1>6. CASE q - p < 0
  <2> DEFINE r == N * (p - q)
  <2>1. r >= N
    BY <1>6, <1>4, <1>1, MulStep
  <2>2. a - b = r
    BY <1>1, <1>4, <1>2
  <2> HIDE DEF r
  <2> QED BY <2>1, <2>2
<1> QED BY <1>4, <1>5, <1>6

\* The remainder of a number given by its quotient and remainder.
LEMMA ModOf ==
  ASSUME NEW N \in Nat \ {0}, NEW q \in Nat, NEW r \in 0 .. N - 1
  PROVE  (N * q + r) % N = r
OBVIOUS

\* The packet a new one overwrites is the one a ring's length before it.
LEMMA ModShift ==
  ASSUME NEW N \in Nat \ {0}, NEW n \in Nat, n >= N
  PROVE  (n - N) % N = n % N
<1> DEFINE q == n \div N
           r == n % N
<1>1. q \in Nat /\ r \in 0 .. N - 1 /\ n = N * q + r
  BY ModDef
<1>2. q >= 1
  BY <1>1
<1>3. n - N = N * (q - 1) + r
  BY <1>1, <1>2
<1> HIDE DEF q, r
<1>4. (N * (q - 1) + r) % N = r
  BY <1>1, <1>2, ModOf
<1> QED BY <1>3, <1>4 DEF r

\* A number below N is its own remainder.
LEMMA ModSmall ==
  ASSUME NEW N \in Nat \ {0}, NEW n \in Nat, n < N
  PROVE  n % N = n
OBVIOUS

-----------------------------------------------------------------------------
(* Least and greatest elements.                                            *)

\* A non-empty set of naturals has a least element, and Min is it.
LEMMA MinProp ==
  ASSUME NEW S, S \subseteq Nat, S # {}
  PROVE  Min(S) \in S /\ \A x \in S : Min(S) <= x
<1> DEFINE R == OpToRel(<, Nat)
<1>1. \A x, y \in Nat : y < x => <<y, x>> \in R
  BY DEF OpToRel
<1>2. IsWellFoundedOn(R, Nat)
  BY NatLessThanWellFounded
<1> HIDE DEF R
<1>3. PICK z \in S : \A y \in S : ~ (<<y, z>> \in R)
  BY <1>2, WFMin
<1>4. ASSUME NEW y \in S PROVE z =< y
  <2>1. z \in Nat /\ y \in Nat /\ ~ (y < z)
    BY <1>1, <1>3
  <2> QED BY <2>1
<1>5. \E y \in S : \A x \in S : y =< x
  BY <1>4
<1> QED BY <1>5 DEF Min

\* A bounded non-empty set of naturals has a greatest element, and Max is it.
LEMMA MaxProp ==
  ASSUME NEW m \in Nat, NEW S, S \subseteq 0 .. m, S # {}
  PROVE  Max(S) \in S /\ \A x \in S : x <= Max(S)
<1> DEFINE T == {m - x : x \in S}
<1>1. T \subseteq Nat /\ T # {}
  <2>1. ASSUME NEW x \in S PROVE m - x \in Nat
    OBVIOUS
  <2> QED BY <2>1
<1>2. Min(T) \in T /\ \A x \in T : Min(T) <= x
  BY <1>1, MinProp
<1>3. PICK z \in S : Min(T) = m - z
  BY <1>2
<1>4. ASSUME NEW x \in S PROVE z >= x
  <2>1. m - x \in T /\ m - z <= m - x
    BY <1>2, <1>3
  <2> QED BY <2>1
<1> QED BY <1>4 DEF Max

-----------------------------------------------------------------------------
(* The lookups of the stream.                                              *)

\* GetGopByLatency returns the index of a listed GOP, or None.
LEMMA GopByLatencyType ==
  ASSUME TypeOK
  PROVE  GopByLatency = None \/ \E g \in gops : g.index = GopByLatency
<1> DEFINE recent == {g \in gops : \A h \in gops : h.index >= g.index =>
                        lastest_timestamp - h.timestamp <= ContentLatency}
           S == {g.index : g \in recent}
<1>1. CASE recent = {}
  BY <1>1 DEF GopByLatency
<1>2. CASE recent # {}
  <2>0. gops \in SUBSET [index : Nat, timestamp : Nat]
    BY DEF TypeOK
  <2>1. S \subseteq Nat /\ S # {}
    BY <1>2, <2>0
  <2>2. Min(S) \in S
    BY <2>1, MinProp
  <2>3. GopByLatency = Min(S)
    BY <1>2 DEF GopByLatency
  <2> QED BY <2>2, <2>3
<1> QED BY <1>1, <1>2

\* A kind of header that was published is found, whatever the index asked for.
LEMMA CodecHeaderAtType ==
  ASSUME TypeOK, HeadersPublished, NEW k \in HeaderKinds, NEW idx \in Int
  PROVE  /\ CodecHeaderAt(k, idx) \in Index
         /\ headers[k] # {} => CodecHeaderAt(k, idx) \in headers[k]
<1> DEFINE before == {h \in headers[k] : idx > 0 /\ h <= idx}
<1>0. headers[k] \subseteq 0 .. frame_index /\ frame_index \in Int
  BY DEF TypeOK, HeadersPublished, Index, None
<1>1. CASE headers[k] = {}
  BY <1>1 DEF CodecHeaderAt, Index, None
<1>2. CASE headers[k] # {} /\ before # {}
  <2>1. frame_index \in Nat /\ before \subseteq 0 .. frame_index
    BY <1>0, <1>2
  <2>2. Max(before) \in before
    BY <1>2, <2>1, MaxProp
  <2>3. CodecHeaderAt(k, idx) = Max(before)
    BY <1>2 DEF CodecHeaderAt
  <2> QED BY <2>2, <2>3, <1>0 DEF Index
<1>3. CASE headers[k] # {} /\ before = {}
  <2>1. frame_index \in Nat
    BY <1>0, <1>3
  <2>2. Max(headers[k]) \in headers[k]
    BY <1>0, <1>3, <2>1, MaxProp
  <2>3. CodecHeaderAt(k, idx) = Max(headers[k])
    BY <1>3 DEF CodecHeaderAt
  <2> QED BY <2>2, <2>3, <1>0 DEF Index
<1> QED BY <1>1, <1>2, <1>3

\* LocateGop never finds a header missing: has_x_ is set with the header.
LEMMA LocateFindsHeaders ==
  ASSUME TypeOK, HeadersPublished, NEW k \in HeaderKinds, NEW idx \in Int, headers[k] # {}
  PROVE  CodecHeaderAt(k, idx) # None
<1>1. CodecHeaderAt(k, idx) \in headers[k]
  BY CodecHeaderAtType
<1> QED BY <1>1 DEF TypeOK, None

-----------------------------------------------------------------------------
(* Every step preserves the invariant.                                     *)

\* The steps that only move a thread or touch a connection's flags leave the
\* ring, the lock and every cursor as they are.
Quiet ==
  /\ UNCHANGED <<frame_index, packet_buffer, gops, headers, lock>>
  /\ UNCHANGED <<out_index, out_frames, last_sent>>
  /\ \A u \in Players : pc[u] = "fetch" <=> pc'[u] = "fetch"

\* Such a step keeps the invariant.
LEMMA QuietKeepsInv ==
  ASSUME StreamInv, TypeOK', Quiet
  PROVE  StreamInv'
<1>1. RingHoldsWindow'
  BY DEF StreamInv, RingHoldsWindow, Quiet, Slot
<1>2. RingLocked' /\ HeadersPublished'
  BY DEF StreamInv, RingLocked, HeadersPublished, Quiet
<1>3. GopsAreKeyFrames'
  BY DEF StreamInv, GopsAreKeyFrames, Quiet, Slot
<1>4. FetchPosition'
  BY DEF StreamInv, FetchPosition, Quiet
<1>5. PlayersInOrder' /\ GapsAreSkips' /\ JoinsAtKeyFrame'
  BY DEF StreamInv, PlayersInOrder, GapsAreSkips, JoinsAtKeyFrame, Quiet
<1> QED BY <1>1, <1>2, <1>3, <1>4, <1>5 DEF StreamInv

\* The handlers that only move a thread are such steps.
LEMMA QuietSteps ==
  ASSUME StreamInv,
         \/ ActiveAllPlayers \/ AllWoken
         \/ \E u \in Players :
              \/ Active(u) \/ AddPlayer(u) \/ ActiveSelf(u) \/ RunActive(u) \/ WriteComplete(u)
              \/ PostTooEarly(u) \/ PostHttpHeader(u) \/ PostFrames(u) \/ Deactive(u)
              \/ GetNothingNew(u) \/ LocateGopFails(u) \/ PushRefused(u) \/ NothingToSend(u)
  PROVE  TypeOK' /\ Quiet
<1> USE DEF streamVars, cursorVars, connVars, viewVars
<1>0. TypeOK
  BY DEF StreamInv
<1>1. ASSUME ActiveAllPlayers PROVE TypeOK' /\ Quiet
  BY <1>0, <1>1 DEF ActiveAllPlayers, TypeOK, Quiet
<1>2. ASSUME NEW u \in Players, Active(u) PROVE TypeOK' /\ Quiet
  <2>1. CASE active[u]
    BY <1>0, <1>2, <2>1 DEF Active, TypeOK, Quiet
  <2>2. CASE ~active[u] /\ u \in Local
    <3>1. pc[u] # "fetch"
      BY <1>2, <2>2 DEF Active, PublisherLoopFree
    <3> QED BY <1>0, <1>2, <2>2, <3>1 DEF Active, TypeOK, Quiet
  <2>3. CASE ~active[u] /\ u \notin Local
    <3>1. /\ queued' = [queued EXCEPT ![u] = queued[u] + 1]
          /\ to_wake' = to_wake \ {u}
          /\ UNCHANGED <<streamVars, lock, publisher, pc, cursorVars, active, sending,
                         http_header_sent, viewVars>>
      BY <1>2, <2>3 DEF Active
    <3>2. queued' \in [Players -> Nat] /\ to_wake' \in SUBSET Players
      BY <1>0, <3>1 DEF TypeOK
    <3>3. Quiet
      BY <3>1 DEF Quiet
    <3>4. TypeOK'
      BY <1>0, <3>1, <3>2 DEF TypeOK
    <3> QED BY <3>3, <3>4
  <2> QED BY <2>1, <2>2, <2>3
<1>3. ASSUME AllWoken PROVE TypeOK' /\ Quiet
  BY <1>0, <1>3 DEF AllWoken, TypeOK, Quiet
<1>4. ASSUME NEW u \in Players, AddPlayer(u) PROVE TypeOK' /\ Quiet
  BY <1>0, <1>4 DEF AddPlayer, TypeOK, Quiet
<1>5. ASSUME NEW u \in Players, ActiveSelf(u) PROVE TypeOK' /\ Quiet
  BY <1>0, <1>5 DEF ActiveSelf, TypeOK, Quiet
<1>6. ASSUME NEW u \in Players, RunActive(u) PROVE TypeOK' /\ Quiet
  BY <1>0, <1>6 DEF RunActive, HasTask, TypeOK, Quiet
<1>7. ASSUME NEW u \in Players, WriteComplete(u) PROVE TypeOK' /\ Quiet
  BY <1>0, <1>7 DEF WriteComplete, PostAgain, TypeOK, Quiet
<1>8. ASSUME NEW u \in Players, PostTooEarly(u) PROVE TypeOK' /\ Quiet
  BY <1>0, <1>8 DEF PostTooEarly, TypeOK, Quiet
<1>9. ASSUME NEW u \in Players, PostHttpHeader(u) PROVE TypeOK' /\ Quiet
  BY <1>0, <1>9 DEF PostHttpHeader, Send, TypeOK, Quiet
<1>10. ASSUME NEW u \in Players, PostFrames(u) PROVE TypeOK' /\ Quiet
  BY <1>0, <1>10 DEF PostFrames, TypeOK, Quiet
<1>11. ASSUME NEW u \in Players, Deactive(u) PROVE TypeOK' /\ Quiet
  BY <1>0, <1>11 DEF Deactive, TypeOK, Quiet
<1>12. ASSUME NEW u \in Players, GetNothingNew(u) PROVE TypeOK' /\ Quiet
  BY <1>0, <1>12 DEF GetNothingNew, TypeOK, Quiet
<1>13. ASSUME NEW u \in Players, LocateGopFails(u) PROVE TypeOK' /\ Quiet
  BY <1>0, <1>13 DEF LocateGopFails, MayGet, TypeOK, Quiet
<1>14. ASSUME NEW u \in Players, PushRefused(u) PROVE TypeOK' /\ Quiet
  BY <1>0, <1>14 DEF PushRefused, TypeOK, Quiet
<1>15. ASSUME NEW u \in Players, NothingToSend(u) PROVE TypeOK' /\ Quiet
  BY <1>0, <1>15 DEF NothingToSend, TypeOK, Quiet
<1> QED BY <1>1, <1>2, <1>3, <1>4, <1>5, <1>6, <1>7, <1>8, <1>9, <1>10, <1>11, <1>12, <1>13, <1>14, <1>15

\* Pushing a pending header moves no cursor either.
LEMMA PushHeaderStep ==
  ASSUME StreamInv, NEW u \in Players, PushHeader(u)
  PROVE  StreamInv'
<1> USE DEF streamVars, cursorVars, connVars, viewVars
<1> DEFINE k == FirstPending(u)
<1>0. TypeOK
  BY DEF StreamInv
<1>1. k \in HeaderKinds
  BY DEF FirstPending, HeaderKinds
<1>2. Quiet
  BY <1>0 DEF PushHeader, TypeOK, Quiet
<1>3. pending' \in [Players -> [HeaderKinds -> Index]]
  BY <1>0, <1>1 DEF PushHeader, TypeOK, Index
<1>4. decoder' \in [Players -> [HeaderKinds -> Index]]
  BY <1>0, <1>1 DEF PushHeader, TypeOK
<1>5. TypeOK'
  BY <1>0, <1>3, <1>4 DEF PushHeader, Send, TypeOK
<1> QED BY <1>2, <1>5, QuietKeepsInv

\* What GetFrames copies is pushed as one batch, whose last packet is the one
\* under the cursor.
LEMMA PushFramesStep ==
  ASSUME StreamInv, NEW u \in Players, PushFrames(u)
  PROVE  StreamInv'
<1> USE DEF streamVars, cursorVars, connVars, viewVars
<1> DEFINE out       == out_frames[u]
           inband(k) == {i \in 1 .. Len(out) : out[i].kind = k}
<1>0. TypeOK
  BY DEF StreamInv
<1>1. /\ out \in Seq(Packet) /\ out # <<>> /\ Len(out) \in Nat /\ Len(out) >= 1
      /\ \A i \in 1 .. Len(out) : out[i] \in Packet /\ out[i].index \in Nat
  <2>1. out \in Seq(Packet) /\ out # <<>>
    BY <1>0 DEF PushFrames, TypeOK
  <2>2. Len(out) \in Nat /\ Len(out) >= 1
    BY <2>1
  <2>3. \A i \in 1 .. Len(out) : out[i] \in Packet
    BY <2>1
  <2>4. \A p \in Packet : p.index \in Nat
    BY DEF Packet
  <2> HIDE DEF out
  <2> QED BY <2>1, <2>2, <2>3, <2>4
<1>2. out[Len(out)].index = out_index[u]
  <2>1. out[Len(out)].index = out_index[u] - (Len(out) - Len(out))
    BY <1>1 DEF StreamInv, PlayersInOrder
  <2>2. out_index[u] \in Int
    BY <1>0 DEF TypeOK, Index, None
  <2> QED BY <1>1, <2>1, <2>2
<1>3. last_sent' = [last_sent EXCEPT ![u] = out_index[u]]
  BY <1>2 DEF PushFrames
<1>4. TypeOK'
  <2>1. ASSUME NEW k \in HeaderKinds, inband(k) # {}
        PROVE  out[Max(inband(k))].index \in Index
    <3>1. inband(k) \subseteq 0 .. Len(out)
      OBVIOUS
    <3>2. Max(inband(k)) \in inband(k)
      BY <1>1, <2>1, <3>1, MaxProp
    <3> QED BY <1>1, <3>2 DEF Index
  <2>2. decoder' = [decoder EXCEPT ![u] = [k \in HeaderKinds |->
                      IF inband(k) = {} THEN decoder[u][k] ELSE out[Max(inband(k))].index]]
    BY <1>0 DEF PushFrames, TypeOK
  <2>3. decoder' \in [Players -> [HeaderKinds -> Index]]
    <3> DEFINE now == [k \in HeaderKinds |->
                      IF inband(k) = {} THEN decoder[u][k] ELSE out[Max(inband(k))].index]
    <3>1. decoder \in [Players -> [HeaderKinds -> Index]]
      BY <1>0 DEF TypeOK
    <3>2. \A k \in HeaderKinds :
            (IF inband(k) = {} THEN decoder[u][k] ELSE out[Max(inband(k))].index) \in Index
      BY <2>1, <3>1
    <3> HIDE DEF inband
    <3>3. now \in [HeaderKinds -> Index]
      BY <3>2
    <3> HIDE DEF now
    <3> QED BY <2>2, <3>1, <3>3 DEF now
  <2>4. last_sent' \in [Players -> Index]
    BY <1>0, <1>3 DEF TypeOK
  <2>5. out_frames' \in [Players -> Seq(Packet)]
    BY <1>0 DEF PushFrames, TypeOK
  <2> QED BY <1>0, <2>3, <2>4, <2>5 DEF PushFrames, Send, TypeOK
<1>5. /\ UNCHANGED <<frame_index, packet_buffer, gops, headers, lock, out_index>>
      /\ out_frames' = [out_frames EXCEPT ![u] = <<>>]
      /\ pc' = [pc EXCEPT ![u] = "idle"] /\ pc[u] = "push"
  BY DEF PushFrames
<1>6. RingHoldsWindow'
  BY <1>5 DEF StreamInv, RingHoldsWindow, Slot
<1>7. RingLocked' /\ HeadersPublished'
  BY <1>0, <1>5 DEF StreamInv, RingLocked, HeadersPublished, TypeOK
<1>8. GopsAreKeyFrames'
  BY <1>5 DEF StreamInv, GopsAreKeyFrames, Slot
<1>9. /\ last_sent'[u] = out_index'[u] /\ out_frames'[u] = <<>> /\ pc'[u] # "fetch"
      /\ \A v \in Players : v # u =>
           /\ last_sent'[v] = last_sent[v] /\ out_frames'[v] = out_frames[v]
           /\ pc'[v] = pc[v] /\ out_index'[v] = out_index[v]
  BY <1>0, <1>3, <1>5 DEF TypeOK
<1>10. FetchPosition'
  BY <1>0, <1>5, <1>9 DEF StreamInv, FetchPosition
<1>11. PlayersInOrder'
  <2>1. frame_index \in Int /\ \A v \in Players : out_index[v] \in Int
    BY <1>0 DEF TypeOK, Index, None
  <2>2. Len(<<>>) = 0
    OBVIOUS
  <2> QED BY <1>0, <1>5, <1>9, <2>1, <2>2 DEF StreamInv, PlayersInOrder
<1>12. GapsAreSkips' /\ JoinsAtKeyFrame'
  BY <1>0, <1>5, <1>9 DEF StreamInv, GapsAreSkips, JoinsAtKeyFrame
<1> QED BY <1>4, <1>6, <1>7, <1>8, <1>10, <1>11, <1>12 DEF StreamInv

\* GetFrames takes the lock with the cursor where it was, or before a GOP.
LEMMA EnterFetch ==
  ASSUME StreamInv, TypeOK', NEW u \in Players, NEW c \in Index,
         lock = Free, pc[u] = "get", out_frames[u] = <<>>,
         lock' = u, pc' = [pc EXCEPT ![u] = "fetch"],
         out_index' = [out_index EXCEPT ![u] = c],
         UNCHANGED <<frame_index, packet_buffer, gops, headers, out_frames, last_sent>>,
         last_sent[u] <= c, c <= frame_index,
         \/ last_sent[u] # None /\ c = last_sent[u]
         \/ \E g \in gops : g.index = c + 1
  PROVE  StreamInv'
<1>0. TypeOK
  BY DEF StreamInv
<1>1. RingHoldsWindow'
  BY DEF StreamInv, RingHoldsWindow, Slot
<1>2. GopsAreKeyFrames' /\ HeadersPublished'
  BY DEF StreamInv, GopsAreKeyFrames, HeadersPublished, Slot
<1>3. /\ out_index'[u] = c /\ pc'[u] = "fetch" /\ out_frames'[u] = <<>>
      /\ \A v \in Players : v # u => out_index'[v] = out_index[v] /\ pc'[v] = pc[v]
  BY <1>0 DEF TypeOK
<1>4. RingLocked'
  BY <1>3, StreamAssumption DEF StreamInv, RingLocked
<1>5. FetchPosition'
  BY <1>3 DEF StreamInv, FetchPosition
<1>6. PlayersInOrder'
  <2>1. Len(<<>>) = 0
    OBVIOUS
  <2> QED BY <1>3, <2>1 DEF StreamInv, PlayersInOrder
<1>7. GapsAreSkips' /\ JoinsAtKeyFrame'
  BY DEF StreamInv, GapsAreSkips, JoinsAtKeyFrame
<1> QED BY <1>1, <1>2, <1>4, <1>5, <1>6, <1>7 DEF StreamInv

\* LocateGop puts the cursor before a listed GOP.
LEMMA LocateGopStep ==
  ASSUME StreamInv, NEW u \in Players, LocateGop(u)
  PROVE  StreamInv'
<1> USE DEF streamVars, cursorVars, connVars, viewVars
<1> DEFINE idx    == GopByLatency
           wanted == {k \in HeaderKinds : wait[u][k] /\ headers[k] # {}}
           found  == {k \in wanted : CodecHeaderAt(k, idx) # None}
<1>0. TypeOK /\ HeadersPublished
  BY DEF StreamInv
<1>1. PICK g \in gops : g.index = idx
  BY <1>0, GopByLatencyType DEF LocateGop
<1>2. g.index \in Nat /\ g.index <= frame_index
  <2>1. gops \in SUBSET [index : Nat, timestamp : Nat]
    BY <1>0 DEF TypeOK
  <2>2. g.index <= frame_index
    BY DEF StreamInv, GopsAreKeyFrames
  <2> QED BY <2>1, <2>2
<1>3. wanted = found
  <2>1. idx \in Int
    BY <1>1, <1>2
  <2>2. \A k \in HeaderKinds : headers[k] # {} => CodecHeaderAt(k, idx) # None
    BY <1>0, <2>1, LocateFindsHeaders
  <2> HIDE DEF idx
  <2> QED BY <2>2
<1>4. /\ lock = Free /\ pc[u] = "get" /\ out_frames[u] = <<>> /\ out_index[u] < 0
      /\ lock' = u /\ pc' = [pc EXCEPT ![u] = "fetch"]
      /\ out_index' = [out_index EXCEPT ![u] = idx - 1]
      /\ UNCHANGED <<frame_index, packet_buffer, gops, headers, out_frames, last_sent>>
  BY <1>0, <1>3 DEF LocateGop, MayGet, CursorBefore, TypeOK
<1>5. idx - 1 \in Index
  BY <1>1, <1>2 DEF Index, None
<1>6. TypeOK'
  <2> DEFINE at(old) == [k \in HeaderKinds |->
                           IF k \in found THEN CodecHeaderAt(k, idx) ELSE old[k]]
  <2>1. ASSUME NEW old \in [HeaderKinds -> Index] PROVE at(old) \in [HeaderKinds -> Index]
    <3>1. \A k \in HeaderKinds : CodecHeaderAt(k, idx) \in Index
      BY <1>0, <1>1, <1>2, CodecHeaderAtType
    <3> HIDE DEF idx, found
    <3> QED BY <3>1
  <2>2. /\ pending' = [pending EXCEPT ![u] = at(pending[u])]
        /\ header_index' = [header_index EXCEPT ![u] = at(header_index[u])]
    BY <1>0 DEF LocateGop, TypeOK
  <2>3. /\ pending' \in [Players -> [HeaderKinds -> Index]]
        /\ header_index' \in [Players -> [HeaderKinds -> Index]]
    <3> HIDE DEF at
    <3> QED BY <1>0, <2>1, <2>2 DEF TypeOK
  <2>4. wait' \in [Players -> [HeaderKinds -> BOOLEAN]]
    <3> DEFINE now == [k \in HeaderKinds |-> wanted = found \/ k \in wanted \ found]
    <3>1. wait' = [wait EXCEPT ![u] = now]
      BY DEF LocateGop
    <3>2. now \in [HeaderKinds -> BOOLEAN]
      OBVIOUS
    <3> HIDE DEF now
    <3> QED BY <1>0, <3>1, <3>2 DEF TypeOK
  <2>5. out_index' \in [Players -> Index] /\ lock' \in Players \cup {Free}
    BY <1>0, <1>4, <1>5 DEF TypeOK
  <2> QED BY <1>0, <1>4, <2>3, <2>4, <2>5 DEF LocateGop, TypeOK
<1>7. last_sent[u] <= idx - 1
  <2>1. last_sent[u] \in Int /\ out_index[u] \in Int /\ last_sent[u] <= out_index[u]
    BY <1>0 DEF TypeOK, Index, None, StreamInv, PlayersInOrder
  <2> QED BY <1>1, <1>2, <1>4, <2>1
<1>8. idx - 1 <= frame_index
  BY <1>0, <1>1, <1>2 DEF TypeOK, Index, None
<1>9. g.index = (idx - 1) + 1
  BY <1>1, <1>2
<1> HIDE DEF idx
<1> QED BY <1>4, <1>5, <1>6, <1>7, <1>8, <1>9, EnterFetch

\* SkipFrame puts the cursor before a later GOP.
LEMMA SkipFrameStep ==
  ASSUME StreamInv, NEW u \in Players, SkipFrame(u)
  PROVE  StreamInv'
<1> USE DEF streamVars, cursorVars, connVars, viewVars
<1> DEFINE idx   == GopByLatency
           newer == {k \in HeaderKinds : CodecHeaderAt(k, idx) > header_index[u][k]}
<1>0. TypeOK /\ HeadersPublished
  BY DEF StreamInv
<1>1. /\ lock = Free /\ pc[u] = "get" /\ out_frames[u] = <<>> /\ out_index[u] >= 0
      /\ idx > out_index[u]
      /\ lock' = u /\ pc' = [pc EXCEPT ![u] = "fetch"]
      /\ out_index' = [out_index EXCEPT ![u] = idx - 1]
      /\ UNCHANGED <<frame_index, packet_buffer, gops, headers, out_frames, last_sent>>
  BY DEF SkipFrame, MayGet, CursorBefore, GopAhead
<1>2. out_index[u] \in Int /\ last_sent[u] \in Int /\ last_sent[u] <= out_index[u]
  BY <1>0 DEF TypeOK, Index, None, StreamInv, PlayersInOrder
<1>3. PICK g \in gops : g.index = idx
  BY <1>0, <1>1, <1>2, GopByLatencyType DEF None
<1>4. g.index \in Nat /\ g.index <= frame_index
  <2>1. gops \in SUBSET [index : Nat, timestamp : Nat]
    BY <1>0 DEF TypeOK
  <2>2. g.index <= frame_index
    BY DEF StreamInv, GopsAreKeyFrames
  <2> QED BY <2>1, <2>2
<1>5. idx - 1 \in Index
  BY <1>3, <1>4 DEF Index, None
<1>6. TypeOK'
  <2> DEFINE at(old) == [k \in HeaderKinds |->
                           IF k \in newer THEN CodecHeaderAt(k, idx) ELSE old[k]]
  <2>1. ASSUME NEW old \in [HeaderKinds -> Index] PROVE at(old) \in [HeaderKinds -> Index]
    <3>1. \A k \in HeaderKinds : CodecHeaderAt(k, idx) \in Index
      BY <1>0, <1>3, <1>4, CodecHeaderAtType
    <3> HIDE DEF idx, newer
    <3> QED BY <3>1
  <2>2. /\ pending' = [pending EXCEPT ![u] = at(pending[u])]
        /\ header_index' = [header_index EXCEPT ![u] = at(header_index[u])]
    BY <1>0 DEF SkipFrame, TypeOK
  <2>3. /\ pending' \in [Players -> [HeaderKinds -> Index]]
        /\ header_index' \in [Players -> [HeaderKinds -> Index]]
    <3> HIDE DEF at
    <3> QED BY <1>0, <2>1, <2>2 DEF TypeOK
  <2>4. out_index' \in [Players -> Index] /\ lock' \in Players \cup {Free}
    BY <1>0, <1>1, <1>5 DEF TypeOK
  <2> QED BY <1>0, <1>1, <2>3, <2>4 DEF SkipFrame, TypeOK
<1>7. last_sent[u] <= idx - 1 /\ idx - 1 <= frame_index /\ g.index = (idx - 1) + 1
  <2>1. frame_index \in Int
    BY <1>0 DEF TypeOK, Index, None
  <2> HIDE DEF idx
  <2> QED BY <1>1, <1>2, <1>3, <1>4, <2>1
<1> HIDE DEF idx
<1> QED BY <1>1, <1>5, <1>6, <1>7, EnterFetch

\* A reader that stays resumes after the last frame it was sent.
LEMMA StayInPlaceStep ==
  ASSUME StreamInv, NEW u \in Players, StayInPlace(u)
  PROVE  StreamInv'
<1> USE DEF streamVars, cursorVars, connVars, viewVars
<1>0. TypeOK
  BY DEF StreamInv
<1>1. /\ lock = Free /\ pc[u] = "get" /\ out_frames[u] = <<>> /\ out_index[u] >= 0
      /\ lock' = u /\ pc' = [pc EXCEPT ![u] = "fetch"]
      /\ UNCHANGED <<frame_index, packet_buffer, gops, headers, out_frames, last_sent>>
      /\ UNCHANGED out_index
  BY DEF StayInPlace, MayGet
<1>2. TypeOK'
  BY <1>0 DEF StayInPlace, TypeOK
<1>3. out_index' = [out_index EXCEPT ![u] = out_index[u]] /\ out_index[u] \in Index
  BY <1>0, <1>1 DEF TypeOK
<1>4. last_sent[u] # None /\ out_index[u] = last_sent[u]
  BY <1>1 DEF StreamInv, FetchPosition, None
<1>5. last_sent[u] <= out_index[u] /\ out_index[u] <= frame_index
  BY DEF StreamInv, PlayersInOrder
<1> QED BY <1>1, <1>2, <1>3, <1>4, <1>5, EnterFetch

\* A slot at or below the head of the stream holds a packet of the window.
LEMMA SlotInWindow ==
  ASSUME StreamInv, NEW n \in Nat, n <= frame_index
  PROVE  /\ Slot(n) \in 0 .. BufferSize - 1
         /\ packet_buffer[Slot(n)] \in Packet
         /\ packet_buffer[Slot(n)].index \in Nat
         /\ Slot(packet_buffer[Slot(n)].index) = Slot(n)
         /\ frame_index - BufferSize < packet_buffer[Slot(n)].index
         /\ packet_buffer[Slot(n)].index <= frame_index
<1> DEFINE i == Slot(n)
<1>0. BufferSize \in Nat \ {0} /\ frame_index \in Int
  BY StreamAssumption DEF StreamInv, TypeOK, Index, None
<1>1. i \in 0 .. BufferSize - 1 /\ i <= n
  <2>1. /\ n % BufferSize \in 0 .. BufferSize - 1 /\ n \div BufferSize \in Nat
        /\ n = BufferSize * (n \div BufferSize) + (n % BufferSize)
    BY <1>0, ModDef
  <2>2. BufferSize * (n \div BufferSize) >= 0
    BY <1>0, <2>1
  <2> QED BY <1>0, <2>1, <2>2 DEF Slot
<1>2. ~ (i > frame_index)
  BY <1>0, <1>1
<1> HIDE DEF i
<1>3. packet_buffer[i] \in Packet /\ Slot(packet_buffer[i].index) = i
      /\ frame_index - BufferSize < packet_buffer[i].index
      /\ packet_buffer[i].index <= frame_index
  BY <1>1, <1>2 DEF StreamInv, RingHoldsWindow
<1>4. packet_buffer[i].index \in Nat
  BY <1>3 DEF Packet
<1> QED BY <1>1, <1>3, <1>4 DEF i

\* Two packets of one window that share a slot are one packet.
LEMMA SlotUnique ==
  ASSUME NEW a \in Nat, NEW b \in Nat, Slot(a) = Slot(b), a <= b, b - a < BufferSize
  PROVE  a = b
BY StreamAssumption, ModUnique DEF Slot

\* Having located a GOP, GetNextFrame copies at least one packet.
LEMMA LocatedCanFetch ==
  ASSUME StreamInv, NEW u \in Players, pc[u] = "fetch", out_frames[u] = <<>>,
         NEW g \in gops, g.index = out_index[u] + 1
  PROVE  CanFetch(u)
<1>1. g.index \in Nat /\ g.index <= frame_index
  <2>1. gops \in SUBSET [index : Nat, timestamp : Nat]
    BY DEF StreamInv, TypeOK
  <2>2. g.index <= frame_index
    BY DEF StreamInv, GopsAreKeyFrames
  <2> QED BY <2>1, <2>2
<1>2. packet_buffer[Slot(g.index)] # NoPacket
  BY <1>1, SlotInWindow, NoPacketAssumption
<1>3. Len(out_frames[u]) < BatchSize
  <2>1. Len(<<>>) = 0
    OBVIOUS
  <2> QED BY <2>1, StreamAssumption
<1> QED BY <1>1, <1>2, <1>3 DEF CanFetch

\* GetFrames releases the lock with the cursor on the last frame it copied.
LEMMA GotFramesStep ==
  ASSUME StreamInv, NEW u \in Players, GotFrames(u)
  PROVE  StreamInv'
<1> USE DEF streamVars, cursorVars, connVars, viewVars
<1>0. TypeOK
  BY DEF StreamInv
<1>1. /\ pc[u] = "fetch" /\ ~CanFetch(u) /\ lock' = Free
      /\ pc' = [pc EXCEPT ![u] = "push"]
      /\ UNCHANGED <<frame_index, packet_buffer, gops, headers, out_index, out_frames, last_sent>>
  BY DEF GotFrames, Unlock
<1>2. TypeOK'
  <2>1. lock' \in Players \cup {Free}
    BY <1>1
  <2> QED BY <1>0, <2>1 DEF GotFrames, TypeOK
<1>3. pc'[u] = "push" /\ \A v \in Players : v # u => pc'[v] = pc[v]
  BY <1>0, <1>1 DEF TypeOK
<1>4. RingHoldsWindow'
  BY <1>1 DEF StreamInv, RingHoldsWindow, Slot
<1>5. RingLocked'
  BY <1>1, <1>3, StreamAssumption DEF StreamInv, RingLocked
<1>6. GopsAreKeyFrames' /\ HeadersPublished'
  BY <1>1 DEF StreamInv, GopsAreKeyFrames, HeadersPublished, Slot
<1>7. out_frames[u] = <<>> => out_index[u] = last_sent[u]
  BY <1>1, LocatedCanFetch DEF StreamInv, FetchPosition
<1>8. FetchPosition'
  BY <1>1, <1>3, <1>7 DEF StreamInv, FetchPosition
<1>9. PlayersInOrder' /\ GapsAreSkips' /\ JoinsAtKeyFrame'
  BY <1>1 DEF StreamInv, PlayersInOrder, GapsAreSkips, JoinsAtKeyFrame
<1> QED BY <1>2, <1>4, <1>5, <1>6, <1>8, <1>9 DEF StreamInv

\* One turn of GetNextFrame: the packet under the next slot is at or ahead of
\* the cursor's next, and exactly the next one from the second turn on.
LEMMA GetNextFrameStep ==
  ASSUME StreamInv, NEW u \in Players, GetNextFrame(u)
  PROVE  StreamInv'
<1> USE DEF streamVars, cursorVars, connVars, viewVars
<1> DEFINE next == out_index[u] + 1
           pkt  == packet_buffer[Slot(next)]
           out  == out_frames[u]
           N    == BufferSize
<1>0. TypeOK
  BY DEF StreamInv
<1>1. /\ pc[u] = "fetch" /\ next <= frame_index
      /\ out_frames' = [out_frames EXCEPT ![u] = Append(out, pkt)]
      /\ out_index' = [out_index EXCEPT ![u] = pkt.index]
      /\ UNCHANGED <<frame_index, packet_buffer, gops, headers, lock, pc, last_sent>>
  BY DEF GetNextFrame, CanFetch
<1>2. /\ next \in Nat /\ out_index[u] \in Int /\ last_sent[u] \in Int /\ last_sent[u] >= -1
      /\ out \in Seq(Packet) /\ frame_index \in Int /\ N \in Nat \ {0}
  BY <1>0, StreamAssumption DEF TypeOK, Index, None
<1>3. /\ pkt \in Packet /\ pkt.index \in Nat /\ Slot(pkt.index) = Slot(next)
      /\ frame_index - N < pkt.index /\ pkt.index <= frame_index
  BY <1>1, <1>2, SlotInWindow
<1> HIDE DEF pkt
<1>4. next <= pkt.index
  <2> SUFFICES ASSUME pkt.index < next PROVE FALSE
    BY <1>2, <1>3
  <2>1. pkt.index <= next /\ next - pkt.index < N
    BY <1>1, <1>2, <1>3
  <2> HIDE DEF next
  <2> QED BY <1>2, <1>3, <2>1, SlotUnique
<1>5. next > frame_index - N => pkt.index = next
  <2> SUFFICES ASSUME next > frame_index - N PROVE pkt.index = next
    OBVIOUS
  <2>1. pkt.index - next < N
    BY <1>2, <1>3
  <2> HIDE DEF next
  <2> QED BY <1>2, <1>3, <1>4, <2>1, SlotUnique
<1>6. out # <<>> => pkt.index = next
  <2> SUFFICES ASSUME out # <<>> PROVE pkt.index = next
    OBVIOUS
  <2>1. frame_index - N < out_index[u]
    BY <1>1 DEF StreamInv, FetchPosition
  <2> QED BY <1>2, <1>5, <2>1
<1>7. /\ out_index'[u] = pkt.index /\ out_frames'[u] = Append(out, pkt)
      /\ \A v \in Players : v # u =>
           out_index'[v] = out_index[v] /\ out_frames'[v] = out_frames[v]
  BY <1>0, <1>1 DEF TypeOK
<1>8. /\ Len(Append(out, pkt)) = Len(out) + 1 /\ Len(out) \in Nat /\ Append(out, pkt) # <<>>
      /\ \A i \in 1 .. Len(out) : Append(out, pkt)[i] = out[i]
      /\ Append(out, pkt)[Len(out) + 1] = pkt
      /\ Append(out, pkt) \in Seq(Packet)
  BY SMTT(30), <1>2, <1>3
<1>9. TypeOK'
  <2>1. out_index' \in [Players -> Index]
    BY <1>0, <1>1, <1>3 DEF TypeOK, Index
  <2>2. out_frames' \in [Players -> Seq(Packet)]
    BY <1>0, <1>1, <1>8 DEF TypeOK
  <2>3. pkt.timestamp \in Nat
    BY <1>3 DEF Packet
  <2>4. out_timestamp' \in [Players -> Nat]
    BY <1>0, <2>3 DEF GetNextFrame, TypeOK, pkt
  <2>5. lost' \in [Players -> BOOLEAN]
    <3>1. lost' = [lost EXCEPT ![u] = lost[u] \/ pkt.index # next]
      BY DEF GetNextFrame, pkt
    <3>2. (lost[u] \/ pkt.index # next) \in BOOLEAN
      OBVIOUS
    <3> QED BY <1>0, <3>1, <3>2 DEF TypeOK
  <2> QED BY <1>0, <2>1, <2>2, <2>4, <2>5 DEF GetNextFrame, TypeOK
<1>10. RingHoldsWindow' /\ RingLocked'
  BY <1>1 DEF StreamInv, RingHoldsWindow, RingLocked, Slot
<1>11. GopsAreKeyFrames' /\ HeadersPublished'
  BY <1>1 DEF StreamInv, GopsAreKeyFrames, HeadersPublished, Slot
<1>12. FetchPosition'
  BY <1>1, <1>3, <1>7, <1>8 DEF StreamInv, FetchPosition
<1>13. out_frames'[u][1] = IF out = <<>> THEN pkt ELSE out[1]
  <2>1. CASE out = <<>>
    <3>1. Len(out) = 0
      BY <2>1
    <3> QED BY <1>7, <1>8, <2>1, <3>1
  <2>2. CASE out # <<>>
    <3>1. 1 \in 1 .. Len(out)
      BY <1>2, <2>2
    <3> QED BY <1>7, <1>8, <2>2, <3>1
  <2> QED BY <2>1, <2>2
<1>14. PlayersInOrder'
  <2>1. /\ last_sent[u] <= out_index[u]
        /\ \A i \in 1 .. Len(out) : out[i].index = out_index[u] - (Len(out) - i)
        /\ out # <<>> => last_sent[u] < out[1].index
    BY DEF StreamInv, PlayersInOrder
  <2>2. last_sent'[u] <= out_index'[u] /\ out_index'[u] <= frame_index'
    BY <1>1, <1>2, <1>3, <1>4, <1>7, <2>1
  <2>3. ASSUME NEW i \in 1 .. Len(out_frames'[u])
        PROVE  out_frames'[u][i].index = out_index'[u] - (Len(out_frames'[u]) - i)
    <3>1. CASE i = Len(out) + 1
      BY <1>3, <1>7, <1>8, <3>1
    <3>2. CASE i # Len(out) + 1
      <4>1. i \in 1 .. Len(out)
        BY <1>7, <1>8, <2>3, <3>2
      <4>2. Append(out, pkt)[i].index = out_index[u] - (Len(out) - i)
        BY <1>8, <2>1, <4>1
      <4>3. out # <<>>
        BY <1>8, <4>1
      <4>4. pkt.index = out_index[u] + 1
        BY <1>6, <4>3
      <4>5. /\ out_frames'[u][i] = Append(out, pkt)[i] /\ out_index'[u] = out_index[u] + 1
            /\ Len(out_frames'[u]) = Len(out) + 1
        BY <1>7, <1>8, <4>4
      <4>6. \A c, l, j \in Int : (c + 1) - ((l + 1) - j) = c - (l - j)
        OBVIOUS
      <4>7. (out_index[u] + 1) - ((Len(out) + 1) - i) = out_index[u] - (Len(out) - i)
        <5>1. i \in Int /\ Len(out) \in Int /\ out_index[u] \in Int
          BY <1>2, <1>8, <4>1
        <5> HIDE DEF out
        <5> QED BY <4>6, <5>1
      <4> HIDE DEF out
      <4> QED BY <4>2, <4>5, <4>7
    <3> QED BY <3>1, <3>2
  <2>4. last_sent'[u] < out_frames'[u][1].index
    BY <1>1, <1>2, <1>3, <1>4, <1>13, <2>1
  <2>5. ASSUME NEW v \in Players
        PROVE  /\ last_sent'[v] <= out_index'[v] /\ out_index'[v] <= frame_index'
               /\ \A i \in 1 .. Len(out_frames'[v]) :
                    out_frames'[v][i].index = out_index'[v] - (Len(out_frames'[v]) - i)
               /\ out_frames'[v] # <<>> => last_sent'[v] < out_frames'[v][1].index
    <3>1. CASE v = u
      BY <2>2, <2>3, <2>4, <3>1
    <3>2. CASE v # u
      BY <1>1, <1>7, <3>2 DEF StreamInv, PlayersInOrder
    <3> QED BY <3>1, <3>2
  <2> HIDE DEF out
  <2> QED BY <2>5 DEF PlayersInOrder
<1>15. ASSUME out = <<>>, NEW g \in gops, g.index = next
       PROVE  \/ IsKeyFrame(pkt.kind)
              \/ g.index = 0 /\ pkt.index = N
  <2>1. CASE g.index = 0 /\ frame_index = N
    <3>1. Slot(pkt.index) = Slot(N) /\ N \in Nat
      <4>1. Slot(0) = 0 /\ Slot(N) = 0
        BY <1>2, ModSmall, ModShift DEF Slot
      <4> QED BY <1>2, <1>3, <1>15, <2>1, <4>1
    <3>2. pkt.index <= N /\ N - pkt.index < N
      BY <1>2, <1>3, <2>1
    <3> HIDE DEF N
    <3> QED BY <1>3, <2>1, <3>1, <3>2, SlotUnique DEF N
  <2>2. CASE ~(g.index = 0 /\ frame_index = N)
    BY <1>15, <2>2 DEF StreamInv, GopsAreKeyFrames, pkt
  <2> QED BY <2>1, <2>2
<1>16. CASE out # <<>>
  <2>1. out_frames'[u][1] = out[1]
    BY <1>13, <1>16
  <2>2. GapsAreSkips'
    BY <1>1, <1>7, <1>16, <2>1 DEF StreamInv, GapsAreSkips
  <2>3. JoinsAtKeyFrame'
    BY <1>1, <1>7, <1>16, <2>1 DEF StreamInv, JoinsAtKeyFrame
  <2> QED BY <1>9, <1>10, <1>11, <1>12, <1>14, <2>2, <2>3 DEF StreamInv
<1>17. CASE out = <<>>
  <2>1. out_frames'[u][1] = pkt
    BY <1>13, <1>17
  <2>2. \/ last_sent[u] # None /\ out_index[u] = last_sent[u]
        \/ \E g \in gops : g.index = next
    BY <1>1, <1>17 DEF StreamInv, FetchPosition
  <2>3. last_sent[u] <= out_index[u]
    BY DEF StreamInv, PlayersInOrder
  <2>4. last_sent[u] # None =>
          \/ pkt.index = last_sent[u] + 1
          \/ IsKeyFrame(pkt.kind)
          \/ last_sent[u] + 1 <= frame_index - N
    <3>1. CASE out_index[u] = last_sent[u]
      BY <1>2, <1>5, <3>1
    <3>2. CASE \E g \in gops : g.index = next
      <4>1. last_sent[u] # None => next # 0
        BY <1>2, <2>3 DEF None
      <4> QED BY <1>15, <1>17, <3>2, <4>1
    <3> QED BY <2>2, <3>1, <3>2
  <2>5. last_sent[u] = None => IsKeyFrame(pkt.kind) \/ pkt.index = N
    BY <1>15, <1>17, <2>2
  <2>6. GapsAreSkips'
    BY <1>1, <1>7, <2>1, <2>4 DEF StreamInv, GapsAreSkips
  <2>7. JoinsAtKeyFrame'
    BY <1>1, <1>7, <2>1, <2>5 DEF StreamInv, JoinsAtKeyFrame
  <2> QED BY <1>9, <1>10, <1>11, <1>12, <1>14, <2>6, <2>7 DEF StreamInv
<1> QED BY <1>16, <1>17

\* A new packet takes the slot of the one a ring's length before it, which is
\* the one that leaves the window, and nobody is reading.
LEMMA AddPacketStep ==
  ASSUME StreamInv, NEW kind \in Kinds, NEW ts \in Nat, AddPacket(kind, ts)
  PROVE  StreamInv'
<1> USE DEF streamVars, cursorVars, connVars, viewVars
<1> DEFINE n     == frame_index + 1
           N     == BufferSize
           stamp == IF kind \in HeaderKinds THEN 0 ELSE ts
           pkt   == [index |-> n, kind |-> kind, timestamp |-> stamp]
           item  == [index |-> n, timestamp |-> stamp]
<1>0. TypeOK
  BY DEF StreamInv
<1>1. /\ n \in Nat /\ frame_index \in Int /\ frame_index < n /\ N \in Nat \ {0}
      /\ frame_index \in Index
      /\ stamp \in Nat /\ kind \in AllKinds /\ gops \in SUBSET [index : Nat, timestamp : Nat]
  BY <1>0, StreamAssumption DEF TypeOK, Index, None
<1>2. /\ lock = Free /\ UNCHANGED <<lock, pc, out_index, out_frames, last_sent>>
      /\ frame_index' = n
      /\ packet_buffer' = [packet_buffer EXCEPT ![Slot(n)] = pkt]
      /\ gops' = ClearExpriedGop(IF IsKeyFrame(kind) THEN gops \cup {item} ELSE gops, n - N)
      /\ headers' = [k \in HeaderKinds |-> IF k = kind THEN headers[k] \cup {n} ELSE headers[k]]
  BY DEF AddPacket
<1>3. pkt \in Packet /\ pkt.index = n /\ pkt.kind = kind /\ item \in [index : Nat, timestamp : Nat]
  BY <1>1 DEF Packet
<1>4. Slot(n) \in 0 .. N - 1 /\ Slot(n) <= n
  <2>1. /\ n % N \in 0 .. N - 1 /\ n \div N \in Nat /\ n = N * (n \div N) + (n % N)
    BY <1>1, ModDef
  <2>2. N * (n \div N) >= 0
    BY <1>1, <2>1
  <2> QED BY <1>1, <2>1, <2>2 DEF Slot
<1> HIDE DEF pkt, item, stamp
<1>5. /\ packet_buffer'[Slot(n)] = pkt
      /\ \A i \in 0 .. N - 1 : i # Slot(n) => packet_buffer'[i] = packet_buffer[i]
  BY <1>0, <1>2, <1>4 DEF TypeOK
<1>6. \A g \in gops' : (g = item /\ IsKeyFrame(kind)) \/ g \in gops
  BY <1>2 DEF ClearExpriedGop
<1>7. \A g \in gops' : n - N > 0 => g.index > n - N
  BY <1>2 DEF ClearExpriedGop
<1>8. TypeOK'
  <2>1. packet_buffer' \in [0 .. N - 1 -> Packet \cup {NoPacket}]
    BY <1>0, <1>2, <1>3 DEF TypeOK
  <2>2. gops' \in SUBSET [index : Nat, timestamp : Nat]
    BY <1>1, <1>3, <1>6
  <2>3. headers' \in [HeaderKinds -> SUBSET Nat]
    BY <1>0, <1>1, <1>2 DEF TypeOK
  <2>4. frame_index' \in Index
    BY <1>1, <1>2 DEF Index
  <2>5. lastest_timestamp' \in Nat
    BY <1>1 DEF AddPacket, stamp
  <2>6. ready' \in BOOLEAN
    <3>1. ready' = (ready \/ IsKeyFrame(kind))
      BY DEF AddPacket
    <3> QED BY <1>0, <3>1 DEF TypeOK
  <2>7. publisher' \in {"idle", "added", "waking"}
    BY DEF AddPacket
  <2> QED BY <1>0, <2>1, <2>2, <2>3, <2>4, <2>5, <2>6, <2>7 DEF AddPacket, TypeOK
<1>9. \A u \in Players : pc[u] # "fetch"
  BY <1>2, StreamAssumption DEF StreamInv, RingLocked
<1>10. RingHoldsWindow'
  <2>1. ASSUME NEW i \in 0 .. N - 1, i # Slot(n), i > n
        PROVE  packet_buffer'[i] = NoPacket
    <3>1. i > frame_index
      BY <1>1, <2>1
    <3> QED BY <1>5, <2>1, <3>1 DEF StreamInv, RingHoldsWindow
  <2>2. ASSUME NEW i \in 0 .. N - 1, i # Slot(n), ~ (i > n)
        PROVE  /\ packet_buffer'[i] \in Packet /\ Slot(packet_buffer'[i].index) = i
               /\ n - N < packet_buffer'[i].index /\ packet_buffer'[i].index <= n
    <3>1. i # n
      <4> SUFFICES ASSUME i = n PROVE FALSE
        OBVIOUS
      <4>1. n < N
        BY <1>1
      <4> HIDE DEF n, N
      <4> QED BY <1>1, <2>2, <4>1, ModSmall DEF Slot, N
    <3>2. ~ (i > frame_index)
      BY <1>1, <2>2, <3>1
    <3> DEFINE p == packet_buffer[i]
    <3>3. /\ p \in Packet /\ Slot(p.index) = i
          /\ frame_index - N < p.index /\ p.index <= frame_index
      BY <3>2 DEF StreamInv, RingHoldsWindow
    <3>4. p.index \in Nat
      BY <3>3 DEF Packet
    <3>5. p.index # n - N
      <4> SUFFICES ASSUME p.index = n - N PROVE FALSE
        OBVIOUS
      <4>1. n >= N
        BY <1>1, <3>4
      <4>2. Slot(n - N) = Slot(n)
        <5> HIDE DEF n
        <5> QED BY <1>1, <4>1, ModShift DEF Slot
      <4> QED BY <2>2, <3>3, <4>2
    <3> HIDE DEF p
    <3>6. n - N < p.index /\ p.index <= n
      BY <1>1, <3>3, <3>4, <3>5
    <3>7. packet_buffer'[i] = p
      BY <1>5, <2>2 DEF p
    <3> QED BY <3>3, <3>6, <3>7
  <2>3. /\ packet_buffer'[Slot(n)] \in Packet /\ Slot(packet_buffer'[Slot(n)].index) = Slot(n)
        /\ n - N < packet_buffer'[Slot(n)].index /\ packet_buffer'[Slot(n)].index <= n
    BY <1>1, <1>3, <1>5
  <2>4. ~ (Slot(n) > n)
    BY <1>1, <1>4
  <2>5. ASSUME NEW i \in 0 .. N - 1
        PROVE  IF i > n
                 THEN packet_buffer'[i] = NoPacket
                 ELSE /\ packet_buffer'[i] \in Packet /\ Slot(packet_buffer'[i].index) = i
                      /\ n - N < packet_buffer'[i].index /\ packet_buffer'[i].index <= n
    <3>1. CASE i = Slot(n)
      BY <2>3, <2>4, <3>1
    <3>2. CASE i # Slot(n)
      BY <2>1, <2>2, <3>2
    <3> QED BY <3>1, <3>2
  <2>6. \A x : Slot(x)' = Slot(x)
    BY DEF Slot
  <2> QED BY <1>2, <2>5 DEF RingHoldsWindow, Slot
<1>11. RingLocked'
  BY <1>2 DEF StreamInv, RingLocked
<1>12. HeadersPublished'
  <2>1. ASSUME NEW k \in HeaderKinds PROVE headers'[k] \subseteq 0 .. n
    <3>1. headers[k] \subseteq 0 .. frame_index
      BY DEF StreamInv, HeadersPublished
    <3>2. 0 .. frame_index \subseteq 0 .. n /\ n \in 0 .. n
      BY <1>1
    <3> HIDE DEF n
    <3> QED BY <1>2, <3>1, <3>2
  <2> QED BY <1>2, <2>1 DEF HeadersPublished
<1>13. GopsAreKeyFrames'
  <2>1. ASSUME NEW g \in gops'
        PROVE  /\ g.index <= n
               /\ \/ g.index = 0 /\ n = N
                  \/ /\ n - N < g.index
                     /\ packet_buffer'[Slot(g.index)].index = g.index
                     /\ IsKeyFrame(packet_buffer'[Slot(g.index)].kind)
    <3>1. CASE g = item /\ IsKeyFrame(kind)
      <4>1. g.index = n
        BY <3>1 DEF item
      <4> QED BY <1>1, <1>3, <1>5, <3>1, <4>1
    <3>2. CASE g \in gops
      <4>1. g.index \in Nat /\ g.index <= frame_index
        <5>1. g.index <= frame_index
          BY <3>2 DEF StreamInv, GopsAreKeyFrames
        <5> QED BY <1>1, <3>2, <5>1
      <4>2. CASE g.index = 0 /\ ~ (n - N < 0)
        <5>1. n = N
          BY <1>1, <1>7, <2>1, <4>2
        <5> QED BY <1>1, <4>1, <4>2, <5>1
      <4>3. CASE ~ (g.index = 0 /\ ~ (n - N < 0))
        <5>1. n - N < g.index
          BY <1>1, <1>7, <2>1, <4>1, <4>3
        <5>2. ~ (g.index = 0 /\ frame_index = N)
          BY <1>1, <5>1
        <5>3. /\ packet_buffer[Slot(g.index)].index = g.index
              /\ IsKeyFrame(packet_buffer[Slot(g.index)].kind)
          BY <3>2, <5>2 DEF StreamInv, GopsAreKeyFrames
        <5>4. Slot(g.index) # Slot(n)
          <6>1. g.index <= n /\ n - g.index < N /\ g.index # n
            BY <1>1, <4>1, <5>1
          <6> HIDE DEF n
          <6> QED BY <1>1, <4>1, <6>1, SlotUnique
        <5>5. Slot(g.index) \in 0 .. N - 1
          BY <4>1, SlotInWindow
        <5>6. packet_buffer'[Slot(g.index)] = packet_buffer[Slot(g.index)]
          BY <1>5, <5>4, <5>5
        <5> QED BY <1>1, <4>1, <5>1, <5>3, <5>6
      <4> QED BY <4>2, <4>3
    <3> QED BY <1>6, <2>1, <3>1, <3>2
  <2> QED BY <1>2, <2>1 DEF GopsAreKeyFrames, Slot
<1>14. FetchPosition'
  BY <1>2, <1>9 DEF StreamInv, FetchPosition
<1>15. PlayersInOrder'
  <2>1. \A u \in Players : out_index[u] \in Int /\ out_index[u] <= frame_index
    BY <1>0 DEF TypeOK, Index, None, StreamInv, PlayersInOrder
  <2>2. \A u \in Players : out_index[u] <= n
    BY <1>1, <2>1
  <2> HIDE DEF n
  <2> QED BY <1>2, <2>2 DEF StreamInv, PlayersInOrder
<1>16. GapsAreSkips'
  <2>1. \A u \in Players : last_sent[u] \in Int
    BY <1>0 DEF TypeOK, Index, None
  <2>2. \A u \in Players : last_sent[u] + 1 <= frame_index - N => last_sent[u] + 1 <= n - N
    BY <1>1, <2>1
  <2> HIDE DEF n
  <2> QED BY <1>2, <2>2 DEF StreamInv, GapsAreSkips
<1>17. JoinsAtKeyFrame'
  BY <1>2 DEF StreamInv, JoinsAtKeyFrame
<1> QED BY <1>8, <1>10, <1>11, <1>12, <1>13, <1>14, <1>15, <1>16, <1>17 DEF StreamInv

\* The stream before its first packet.
LEMMA InitInv == Init => StreamInv
<1> SUFFICES ASSUME Init PROVE StreamInv
  OBVIOUS
<1>0. BufferSize \in Nat \ {0} /\ Free \notin Players
  BY StreamAssumption
<1>1. TypeOK
  <2>1. last_sent \in [Players -> Index] /\ out_index \in [Players -> Index] /\ frame_index \in Index
    BY DEF Init, Index, None
  <2>2. out_frames \in [Players -> Seq(Packet)]
    <3>1. <<>> \in Seq(Packet)
      OBVIOUS
    <3> QED BY <3>1 DEF Init
  <2>3. /\ pending \in [Players -> [HeaderKinds -> Index]]
        /\ decoder \in [Players -> [HeaderKinds -> Index]]
        /\ header_index \in [Players -> [HeaderKinds -> Index]]
    BY DEF Init, Index, None
  <2>4. packet_buffer \in [0 .. BufferSize - 1 -> Packet \cup {NoPacket}]
    BY DEF Init
  <2>5. /\ wait \in [Players -> [HeaderKinds -> BOOLEAN]]
        /\ headers \in [HeaderKinds -> SUBSET Nat]
    BY DEF Init
  <2> QED BY <2>1, <2>2, <2>3, <2>4, <2>5 DEF Init, TypeOK
<1>2. RingHoldsWindow
  BY <1>0 DEF Init, RingHoldsWindow
<1>3. RingLocked
  BY <1>0 DEF Init, RingLocked
<1>4. HeadersPublished /\ GopsAreKeyFrames
  BY DEF Init, HeadersPublished, GopsAreKeyFrames
<1>5. FetchPosition
  BY DEF Init, FetchPosition, None
<1>6. PlayersInOrder
  <2>1. Len(<<>>) = 0
    OBVIOUS
  <2> QED BY <2>1 DEF Init, PlayersInOrder, None
<1>7. GapsAreSkips /\ JoinsAtKeyFrame
  BY DEF Init, GapsAreSkips, JoinsAtKeyFrame
<1> QED BY <1>1, <1>2, <1>3, <1>4, <1>5, <1>6, <1>7 DEF StreamInv

\* Every step of the publisher and of a player.
LEMMA NextInv == StreamInv /\ [Next]_vars => StreamInv'
<1> SUFFICES ASSUME StreamInv, [Next]_vars PROVE StreamInv'
  OBVIOUS
<1>1. ASSUME NEW kind \in Kinds,
             NEW ts \in IF kind \in HeaderKinds THEN {0} ELSE Timestamps,
             AddPacket(kind, ts)
      PROVE  StreamInv'
  <2>1. ts \in Nat
    BY StreamAssumption
  <2> QED BY <1>1, <2>1, AddPacketStep
<1>2. ASSUME \/ ActiveAllPlayers \/ AllWoken
             \/ \E u \in Players :
                  \/ Active(u) \/ AddPlayer(u) \/ ActiveSelf(u) \/ RunActive(u) \/ WriteComplete(u)
                  \/ PostTooEarly(u) \/ PostHttpHeader(u) \/ PostFrames(u) \/ Deactive(u)
                  \/ GetNothingNew(u) \/ LocateGopFails(u) \/ PushRefused(u) \/ NothingToSend(u)
      PROVE  StreamInv'
  BY <1>2, QuietSteps, QuietKeepsInv
<1>3. ASSUME NEW u \in Players, LocateGop(u) \/ SkipFrame(u) \/ StayInPlace(u)
      PROVE  StreamInv'
  BY <1>3, LocateGopStep, SkipFrameStep, StayInPlaceStep
<1>4. ASSUME NEW u \in Players, GetNextFrame(u) \/ GotFrames(u)
      PROVE  StreamInv'
  BY <1>4, GetNextFrameStep, GotFramesStep
<1>5. ASSUME NEW u \in Players, PushHeader(u) \/ PushFrames(u)
      PROVE  StreamInv'
  BY <1>5, PushHeaderStep, PushFramesStep
<1>6. CASE UNCHANGED vars
  <2> USE <1>6 DEF vars, streamVars, cursorVars, connVars, viewVars
  <2>1. TypeOK'
    BY DEF StreamInv, TypeOK
  <2>2. Quiet
    BY DEF Quiet
  <2> QED BY <2>1, <2>2, QuietKeepsInv
<1> QED BY <1>1, <1>2, <1>3, <1>4, <1>5, <1>6 DEF Next, PublisherNext, PlayerNext, HandlerStep

-----------------------------------------------------------------------------
(* What holds of every behaviour.                                          *)

\* The ring, the GOP list and every player's cursor stay consistent, for any
\* number of players and any constants (Stream.cpp, GopMgr.cpp).
THEOREM StreamCorrect == Spec => []StreamInv
<1>1. Init => StreamInv
  BY InitInv
<1>2. StreamInv /\ [Next]_vars => StreamInv'
  BY NextInv
<1> QED BY <1>1, <1>2, PTL DEF Spec

\* Every variable keeps its type.
THEOREM TypeCorrect == Spec => []TypeOK
<1>1. StreamInv => TypeOK
  BY DEF StreamInv
<1> QED BY <1>1, StreamCorrect, PTL

\* No player is ever sent a frame twice or out of order, whatever the ring
\* overwrites and however the cursor skips (Stream.cpp:249-317).
THEOREM OrderCorrect == Spec => []PlayersInOrder
<1>1. StreamInv => PlayersInOrder
  BY DEF StreamInv
<1> QED BY <1>1, StreamCorrect, PTL

\* A player misses frames only by skipping to a key frame or by losing them to
\* the ring (Stream.cpp:145-163).
THEOREM GapsCorrect == Spec => []GapsAreSkips
<1>1. StreamInv => GapsAreSkips
  BY DEF StreamInv
<1> QED BY <1>1, StreamCorrect, PTL

\* A player starts at a key frame, but for the one whose GOP 0 is overwritten
\* as it joins (Stream.cpp:110).
THEOREM JoinCorrect == Spec => []JoinsAtKeyFrame
<1>1. StreamInv => JoinsAtKeyFrame
  BY DEF StreamInv
<1> QED BY <1>1, StreamCorrect, PTL

\* The ring is the window of the last BufferSize packets (Stream.cpp:108).
THEOREM RingCorrect == Spec => [](RingHoldsWindow /\ RingLocked)
<1>1. StreamInv => RingHoldsWindow /\ RingLocked
  BY DEF StreamInv
<1> QED BY <1>1, StreamCorrect, PTL

-----------------------------------------------------------------------------
(* Every decoder is configured.                                            *)

\* LocateGop sets the wait flags again as it clears them.
AlwaysWaiting == \A u \in Players : \A k \in HeaderKinds : wait[u][k]

\* A packet of the ring that is listed among the headers of a kind is of that kind.
HeadersInRing ==
  \A i \in 0 .. BufferSize - 1 : \A k \in HeaderKinds :
    packet_buffer[i] # NoPacket /\ packet_buffer[i].index \in headers[k]
      => packet_buffer[i].kind = k

\* LocateGop or SkipFrame has put the player's cursor on the stream.
Located(u) == out_index[u] >= 0 \/ pc[u] = "fetch"

Batched(u, k, h) ==
  \E i \in 1 .. Len(out_frames[u]) : out_frames[u][i].index = h /\ out_frames[u][i].kind = k

\* What ties a player's decoder to the headers published.  Those up to the cursor
\* are reached by the header the player was last given or last shown, or wait in
\* its batch; those below header_index are never without a header sent or pending;
\* and a pending header replaces nothing newer that was sent in place.
HeaderKept(u, k) ==
  /\ header_index[u][k] <= 0 \/ header_index[u][k] <= frame_index
  /\ Located(u) \/ header_index[u][k] <= 0
  /\ decoder[u][k] <= header_index[u][k] \/ decoder[u][k] <= last_sent[u]
  /\ pending[u][k] # None =>
       /\ pending[u][k] = header_index[u][k]
       /\ \A h \in headers[k] : h <= last_sent[u] => h <= pending[u][k]
  /\ Located(u) =>
       \A h \in headers[k] : h <= header_index[u][k] =>
         decoder[u][k] # None \/ pending[u][k] # None
  /\ ~lost[u] =>
       \A h \in headers[k] :
         /\ h <= last_sent[u] => decoder[u][k] # None
         /\ h <= out_index[u] =>
              decoder[u][k] >= h \/ header_index[u][k] >= h \/ Batched(u, k, h)

DecoderInv ==
  /\ AlwaysWaiting
  /\ HeadersInRing
  /\ \A u \in Players : \A k \in HeaderKinds : HeaderKept(u, k)

\* The newest header found at an index is none of those listed before it.
LEMMA CodecHeaderAtCovers ==
  ASSUME TypeOK, HeadersPublished, NEW k \in HeaderKinds, NEW idx \in Nat,
         NEW h \in headers[k], h <= idx
  PROVE  h <= CodecHeaderAt(k, idx)
<1> DEFINE before == {x \in headers[k] : idx > 0 /\ x <= idx}
<1>0. headers[k] \subseteq 0 .. frame_index /\ frame_index \in Nat
  BY DEF TypeOK, HeadersPublished, Index, None
<1>1. CASE before # {}
  <2>1. before \subseteq 0 .. frame_index
    BY <1>0
  <2>2. Max(before) \in before /\ \A x \in before : x <= Max(before)
    BY <1>0, <1>1, <2>1, MaxProp
  <2>3. CodecHeaderAt(k, idx) = Max(before)
    BY <1>1 DEF CodecHeaderAt
  <2>4. h \in before
    BY <2>2
  <2> QED BY <2>2, <2>3, <2>4
<1>2. CASE before = {}
  <2>1. \A x \in headers[k] : x <= Max(headers[k])
    BY <1>0, MaxProp
  <2>2. CodecHeaderAt(k, idx) = Max(headers[k])
    BY <1>2 DEF CodecHeaderAt
  <2> QED BY <2>1, <2>2
<1> QED BY <1>1, <1>2

\* The indices a player keeps are integers.
LEMMA PlayerTypes ==
  ASSUME TypeOK, NEW u \in Players, NEW k \in HeaderKinds
  PROVE  /\ pending[u][k] \in Index /\ header_index[u][k] \in Index
         /\ decoder[u][k] \in Index /\ frame_index \in Index
         /\ last_sent[u] \in Index /\ out_index[u] \in Index
         /\ headers[k] \subseteq Nat /\ lost[u] \in BOOLEAN
BY DEF TypeOK

\* A step that neither publishes nor moves this player keeps what ties it.
LEMMA UntouchedKept ==
  ASSUME NEW u \in Players, NEW k \in HeaderKinds, HeaderKept(u, k),
         UNCHANGED <<headers, frame_index>>,
         pending'[u] = pending[u], header_index'[u] = header_index[u],
         decoder'[u] = decoder[u], last_sent'[u] = last_sent[u],
         out_index'[u] = out_index[u], out_frames'[u] = out_frames[u],
         lost'[u] = lost[u], Located(u)' <=> Located(u)
  PROVE  HeaderKept(u, k)'
BY DEF HeaderKept, Batched

\* The steps that move no packet and no header.
Idle ==
  /\ UNCHANGED <<headers, frame_index, packet_buffer, wait, pending, header_index, decoder>>
  /\ UNCHANGED <<last_sent, out_index, out_frames, lost>>
  /\ \A u \in Players : Located(u)' <=> Located(u)

\* Such a step changes nothing that configures a decoder.
LEMMA IdleKeepsDecoder ==
  ASSUME DecoderInv, Idle
  PROVE  DecoderInv'
<1>1. AlwaysWaiting' /\ HeadersInRing'
  BY DEF DecoderInv, AlwaysWaiting, HeadersInRing, Idle
<1>2. ASSUME NEW u \in Players, NEW k \in HeaderKinds PROVE HeaderKept(u, k)'
  BY UntouchedKept DEF DecoderInv, Idle
<1> QED BY <1>1, <1>2 DEF DecoderInv

\* All handlers but those that publish, locate, skip, fetch or push.
LEMMA IdleSteps ==
  ASSUME StreamInv,
         \/ ActiveAllPlayers \/ AllWoken
         \/ \E u \in Players :
              \/ Active(u) \/ AddPlayer(u) \/ ActiveSelf(u) \/ RunActive(u) \/ WriteComplete(u)
              \/ PostTooEarly(u) \/ PostHttpHeader(u) \/ PostFrames(u) \/ Deactive(u)
              \/ GetNothingNew(u) \/ LocateGopFails(u) \/ PushRefused(u) \/ NothingToSend(u)
              \/ StayInPlace(u) \/ GotFrames(u)
  PROVE  Idle
<1> USE DEF streamVars, cursorVars, connVars, viewVars
<1>0. /\ UNCHANGED <<headers, frame_index, packet_buffer, wait, pending, header_index, decoder>>
      /\ UNCHANGED <<last_sent, out_index, out_frames, lost>>
  BY DEF ActiveAllPlayers, AllWoken, Active, AddPlayer, ActiveSelf, RunActive, WriteComplete,
         PostTooEarly, PostHttpHeader, PostFrames, Deactive, GetNothingNew, LocateGopFails,
         PushRefused, NothingToSend, StayInPlace, GotFrames
<1>1. TypeOK
  BY DEF StreamInv
<1>2. ASSUME NEW u \in Players, StayInPlace(u) PROVE Idle
  BY <1>0, <1>1, <1>2 DEF StayInPlace, Idle, Located, TypeOK
<1>3. ASSUME NEW u \in Players, GotFrames(u) PROVE Idle
  <2>1. /\ pc[u] = "fetch" /\ ~CanFetch(u) /\ pc' = [pc EXCEPT ![u] = "push"]
        /\ out_index[u] \in Index
    BY <1>1, <1>3 DEF GotFrames, TypeOK
  <2>2. CASE out_frames[u] = <<>>
    <3>1. last_sent[u] # None /\ out_index[u] = last_sent[u]
      BY <2>1, <2>2, LocatedCanFetch DEF StreamInv, FetchPosition
    <3> QED BY <1>0, <1>1, <2>1, <3>1 DEF Idle, Located, TypeOK, Index, None
  <2>3. CASE out_frames[u] # <<>>
    <3> DEFINE out == out_frames[u]
    <3>1. out \in Seq(Packet) /\ Len(out) \in 1 .. Len(out)
      BY <1>1, <2>3 DEF TypeOK
    <3>2. out[Len(out)] \in Packet
      BY <3>1
    <3>3. \A p \in Packet : p.index \in Nat
      BY DEF Packet
    <3>4. out[Len(out)].index = out_index[u] - (Len(out) - Len(out))
      BY <3>1 DEF StreamInv, PlayersInOrder
    <3> HIDE DEF out
    <3>5. out_index[u] >= 0
      BY <2>1, <3>1, <3>2, <3>3, <3>4 DEF Index, None
    <3> QED BY <1>0, <1>1, <2>1, <3>5 DEF Idle, Located, TypeOK
  <2> QED BY <2>2, <2>3
<1>4. ASSUME \/ ActiveAllPlayers \/ AllWoken
             \/ \E u \in Players :
                  \/ Active(u) \/ AddPlayer(u) \/ ActiveSelf(u) \/ RunActive(u) \/ WriteComplete(u)
                  \/ PostTooEarly(u) \/ PostHttpHeader(u) \/ PostFrames(u) \/ Deactive(u)
                  \/ GetNothingNew(u) \/ LocateGopFails(u) \/ PushRefused(u) \/ NothingToSend(u)
      PROVE Idle
  <2>1. Quiet
    BY <1>4, QuietSteps
  <2> QED BY <1>0, <2>1 DEF Quiet, Idle, Located
<1> QED BY <1>2, <1>3, <1>4

\* A published header is newer than everything a player holds.
LEMMA AddPacketDecoder ==
  ASSUME StreamInv, DecoderInv, NEW kind \in Kinds, NEW ts \in Nat, AddPacket(kind, ts)
  PROVE  DecoderInv'
<1> USE DEF streamVars, cursorVars, connVars, viewVars
<1> DEFINE n == frame_index + 1
<1>0. TypeOK
  BY DEF StreamInv
<1>1. /\ frame_index' = n /\ lock = Free
      /\ headers' = [k \in HeaderKinds |-> IF k = kind THEN headers[k] \cup {n} ELSE headers[k]]
      /\ \E t \in {ts, 0} : packet_buffer' = [packet_buffer EXCEPT ![Slot(n)] =
                              [index |-> n, kind |-> kind, timestamp |-> t]]
      /\ UNCHANGED <<wait, pending, header_index, decoder, last_sent, out_index, out_frames>>
      /\ UNCHANGED <<lost, pc>>
  BY DEF AddPacket
<1>2. frame_index \in Index /\ n \in Nat
  BY <1>0 DEF TypeOK, Index, None
<1>3. AlwaysWaiting'
  BY <1>1 DEF DecoderInv, AlwaysWaiting
<1>4. \A k \in HeaderKinds : headers[k] \subseteq 0 .. frame_index
  BY DEF StreamInv, HeadersPublished
<1>5. HeadersInRing'
  <2> SUFFICES ASSUME NEW i \in 0 .. BufferSize - 1, NEW k \in HeaderKinds,
                      packet_buffer'[i] # NoPacket, packet_buffer'[i].index \in headers'[k]
               PROVE  packet_buffer'[i].kind = k
    BY DEF HeadersInRing
  <2>1. PICK t \in {ts, 0} : packet_buffer' = [packet_buffer EXCEPT ![Slot(n)] =
                               [index |-> n, kind |-> kind, timestamp |-> t]]
    BY <1>1
  <2>2. packet_buffer \in [0 .. BufferSize - 1 -> Packet \cup {NoPacket}]
    BY <1>0 DEF TypeOK
  <2>3. CASE i = Slot(n)
    <3>1. packet_buffer'[i].index = n /\ packet_buffer'[i].kind = kind
      BY <2>1, <2>2, <2>3
    <3>2. n \notin headers[k]
      BY <1>2, <1>4 DEF Index, None
    <3> QED BY <1>1, <3>1, <3>2
  <2>4. CASE i # Slot(n)
    <3>1. packet_buffer'[i] = packet_buffer[i]
      BY <2>1, <2>2, <2>4
    <3>2. packet_buffer[i].index <= frame_index
      BY <3>1 DEF StreamInv, RingHoldsWindow
    <3>3. packet_buffer[i] \in Packet
      BY <2>2, <3>1
    <3>4. packet_buffer[i].index \in Nat
      BY <3>3 DEF Packet
    <3>5. packet_buffer[i].index # n
      BY <1>2, <3>2, <3>4 DEF Index, None
    <3>6. packet_buffer[i].index \in headers[k]
      BY <1>1, <3>1, <3>5
    <3> QED BY <3>1, <3>6 DEF DecoderInv, HeadersInRing
  <2> QED BY <2>3, <2>4
<1>6. ASSUME NEW u \in Players, NEW k \in HeaderKinds PROVE HeaderKept(u, k)'
  <2>0. HeaderKept(u, k)
    BY DEF DecoderInv
  <2>1. /\ header_index[u][k] \in Index /\ decoder[u][k] \in Index /\ pending[u][k] \in Index
        /\ last_sent[u] \in Index /\ out_index[u] \in Index /\ headers[k] \subseteq Nat
    BY <1>0, PlayerTypes
  <2>2. last_sent[u] <= out_index[u] /\ out_index[u] <= frame_index
    BY DEF StreamInv, PlayersInOrder
  <2>3. n > last_sent[u] /\ n > out_index[u]
    BY <1>2, <2>1, <2>2 DEF Index, None
  <2>4. headers'[k] \subseteq headers[k] \cup {n}
    BY <1>1
  <2>5. Located(u)' => Located(u) /\ n > header_index[u][k]
    <3>1. pc[u] # "fetch"
      BY <1>1, StreamAssumption DEF StreamInv, RingLocked
    <3>2. header_index[u][k] <= 0 \/ header_index[u][k] <= frame_index
      BY <2>0 DEF HeaderKept
    <3> QED BY <1>1, <1>2, <2>1, <2>2, <3>1, <3>2 DEF Located, Index, None
  <2>6. /\ header_index'[u][k] <= 0 \/ header_index'[u][k] <= frame_index'
        /\ Located(u)' \/ header_index'[u][k] <= 0
    BY <1>1, <1>2, <2>0, <2>1 DEF HeaderKept, Located, Index, None
  <2>7. decoder'[u][k] <= header_index'[u][k] \/ decoder'[u][k] <= last_sent'[u]
    BY <1>1, <2>0 DEF HeaderKept
  <2>8. pending'[u][k] # None =>
          /\ pending'[u][k] = header_index'[u][k]
          /\ \A h \in headers'[k] : h <= last_sent'[u] => h <= pending'[u][k]
    BY <1>1, <1>2, <2>0, <2>1, <2>3, <2>4 DEF HeaderKept, Index, None
  <2>9. Located(u)' =>
          \A h \in headers'[k] : h <= header_index'[u][k] =>
            decoder'[u][k] # None \/ pending'[u][k] # None
    BY <1>1, <1>2, <2>0, <2>1, <2>4, <2>5 DEF HeaderKept, Index, None
  <2>10. ASSUME ~lost[u], NEW h \in headers'[k]
         PROVE  /\ h <= last_sent[u] => decoder[u][k] # None
                /\ h <= out_index[u] =>
                     decoder[u][k] >= h \/ header_index[u][k] >= h \/ Batched(u, k, h)
    <3>1. CASE h = n
      BY <1>2, <2>1, <2>3, <3>1 DEF Index, None
    <3>2. CASE h \in headers[k]
      BY <2>0, <2>10, <3>2 DEF HeaderKept
    <3> QED BY <2>4, <3>1, <3>2
  <2>11. \A h : Batched(u, k, h)' <=> Batched(u, k, h)
    BY <1>1 DEF Batched
  <2> QED BY <1>1, <2>6, <2>7, <2>8, <2>9, <2>10, <2>11 DEF HeaderKept
<1> QED BY <1>3, <1>5, <1>6 DEF DecoderInv

\* LocateGop shows the player the newest header of every kind there is.
LEMMA LocateGopDecoder ==
  ASSUME StreamInv, DecoderInv, NEW u \in Players, LocateGop(u)
  PROVE  DecoderInv'
<1> USE DEF streamVars, cursorVars, connVars, viewVars
<1> DEFINE idx    == GopByLatency
           wanted == {k \in HeaderKinds : wait[u][k] /\ headers[k] # {}}
           found  == {k \in wanted : CodecHeaderAt(k, idx) # None}
<1>0. TypeOK /\ HeadersPublished
  BY DEF StreamInv
<1>1. /\ out_index[u] < 0 /\ idx # None
      /\ out_index' = [out_index EXCEPT ![u] = idx - 1]
      /\ pending' = [pending EXCEPT ![u] = [k \in HeaderKinds |->
                       IF k \in found THEN CodecHeaderAt(k, idx) ELSE pending[u][k]]]
      /\ header_index' = [header_index EXCEPT ![u] = [k \in HeaderKinds |->
                       IF k \in found THEN CodecHeaderAt(k, idx) ELSE header_index[u][k]]]
      /\ wait' = [wait EXCEPT ![u] = [k \in HeaderKinds |->
                       wanted = found \/ k \in wanted \ found]]
      /\ pending[u] = [k \in HeaderKinds |-> pending[u][k]]
      /\ \A k \in HeaderKinds : pending[u][k] = None
      /\ pc[u] = "get" /\ pc'[u] = IF wanted = found THEN "fetch" ELSE "push"
      /\ \A v \in Players : v # u => pc'[v] = pc[v]
      /\ UNCHANGED <<headers, frame_index, packet_buffer, decoder, last_sent, out_frames, lost>>
  BY <1>0 DEF LocateGop, MayGet, NoHeaderPending, CursorBefore, TypeOK
<1>2. idx \in Nat
  <2>1. PICK g \in gops : g.index = idx
    BY <1>0, <1>1, GopByLatencyType
  <2>2. gops \in SUBSET [index : Nat, timestamp : Nat]
    BY <1>0 DEF TypeOK
  <2> QED BY <2>1, <2>2
<1>3. wanted = {k \in HeaderKinds : headers[k] # {}}
  BY DEF DecoderInv, AlwaysWaiting
<1>4. wanted = found
  BY <1>0, <1>2, <1>3, LocateFindsHeaders
<1> HIDE DEF wanted, found, idx
<1>5. AlwaysWaiting' /\ HeadersInRing'
  BY <1>0, <1>1, <1>4 DEF DecoderInv, AlwaysWaiting, HeadersInRing, TypeOK
<1>6. ASSUME NEW v \in Players, v # u, NEW k \in HeaderKinds PROVE HeaderKept(v, k)'
  <2>1. /\ HeaderKept(v, k)
        /\ UNCHANGED <<headers, frame_index>>
        /\ pending'[v] = pending[v] /\ header_index'[v] = header_index[v]
        /\ decoder'[v] = decoder[v] /\ last_sent'[v] = last_sent[v]
        /\ out_index'[v] = out_index[v] /\ out_frames'[v] = out_frames[v]
        /\ lost'[v] = lost[v]
        /\ Located(v)' <=> Located(v)
    BY <1>0, <1>1, <1>6 DEF DecoderInv, TypeOK, Located
  <2> QED BY <2>1, UntouchedKept
<1>7. ASSUME NEW k \in HeaderKinds PROVE HeaderKept(u, k)'
  <2>0. HeaderKept(u, k)
    BY DEF DecoderInv
  <2>1. /\ header_index[u][k] \in Index /\ decoder[u][k] \in Index /\ frame_index \in Index
        /\ last_sent[u] \in Index /\ out_index[u] \in Index /\ headers[k] \subseteq Nat
    BY <1>0, PlayerTypes
  <2>2. last_sent[u] = -1 /\ frame_index \in Int
    BY <1>1, <2>1 DEF StreamInv, PlayersInOrder, Index, None
  <2>3. header_index[u][k] <= 0 /\ Located(u)'
    BY <1>1, <1>4, <2>0, <2>1 DEF HeaderKept, Located, Index, None
  <2>4. out_index'[u] = idx - 1
    BY <1>0, <1>1 DEF TypeOK
  <2>5. CASE headers[k] = {}
    <3>1. header_index'[u][k] = header_index[u][k] /\ pending'[u][k] = None
      BY <1>0, <1>1, <1>3, <1>4, <2>5 DEF TypeOK
    <3> QED BY <1>1, <2>0, <2>5, <2>3, <3>1 DEF HeaderKept
  <2>6. CASE headers[k] # {}
    <3> DEFINE c == CodecHeaderAt(k, idx)
    <3>1. header_index'[u][k] = c /\ pending'[u][k] = c
      BY <1>0, <1>1, <1>3, <1>4, <2>6 DEF TypeOK
    <3>2. c \in headers[k]
      BY <1>0, <1>2, <2>6, CodecHeaderAtType
    <3>3. \A h \in headers[k] : h <= idx => h <= c
      BY <1>0, <1>2, CodecHeaderAtCovers
    <3>4. c \in Nat /\ c <= frame_index
      BY <2>1, <3>2 DEF StreamInv, HeadersPublished, Index, None
    <3> HIDE DEF c
    <3>5. header_index'[u][k] <= 0 \/ header_index'[u][k] <= frame_index'
      BY <1>1, <3>1, <3>4
    <3>6. decoder'[u][k] <= header_index'[u][k] \/ decoder'[u][k] <= last_sent'[u]
      BY <1>1, <2>0, <2>1, <2>2, <2>3, <3>1, <3>4 DEF HeaderKept, Index, None
    <3>7. pending'[u][k] # None /\ pending'[u][k] = header_index'[u][k]
      BY <3>1, <3>4 DEF None
    <3>8. \A h \in headers'[k] :
            /\ ~(h <= last_sent'[u])
            /\ h <= out_index'[u] => header_index'[u][k] >= h
      BY <1>1, <1>2, <2>1, <2>2, <2>4, <3>1, <3>3, <3>4
    <3> QED BY <2>3, <3>5, <3>6, <3>7, <3>8 DEF HeaderKept
  <2> QED BY <2>5, <2>6
<1> QED BY <1>5, <1>6, <1>7 DEF DecoderInv

\* SkipFrame shows the player each header newer than the one it was last shown.
LEMMA SkipFrameDecoder ==
  ASSUME StreamInv, DecoderInv, NEW u \in Players, SkipFrame(u)
  PROVE  DecoderInv'
<1> USE DEF streamVars, cursorVars, connVars, viewVars
<1> DEFINE idx   == GopByLatency
           newer == {k \in HeaderKinds : CodecHeaderAt(k, idx) > header_index[u][k]}
<1>0. TypeOK /\ HeadersPublished
  BY DEF StreamInv
<1>1. /\ out_index[u] >= 0 /\ idx > out_index[u] /\ out_frames[u] = <<>>
      /\ out_index' = [out_index EXCEPT ![u] = idx - 1]
      /\ pending' = [pending EXCEPT ![u] = [k \in HeaderKinds |->
                       IF k \in newer THEN CodecHeaderAt(k, idx) ELSE pending[u][k]]]
      /\ header_index' = [header_index EXCEPT ![u] = [k \in HeaderKinds |->
                       IF k \in newer THEN CodecHeaderAt(k, idx) ELSE header_index[u][k]]]
      /\ \A k \in HeaderKinds : pending[u][k] = None
      /\ pc'[u] = "fetch" /\ \A v \in Players : v # u => pc'[v] = pc[v]
      /\ UNCHANGED <<headers, frame_index, packet_buffer, decoder, last_sent, out_frames, lost, wait>>
  BY <1>0 DEF SkipFrame, MayGet, NoHeaderPending, CursorBefore, GopAhead, TypeOK
<1>2. idx \in Nat
  <2>1. out_index[u] \in Int
    BY <1>0 DEF TypeOK, Index, None
  <2>2. PICK g \in gops : g.index = idx
    BY <1>0, <1>1, <2>1, GopByLatencyType DEF None
  <2>3. gops \in SUBSET [index : Nat, timestamp : Nat]
    BY <1>0 DEF TypeOK
  <2> QED BY <2>2, <2>3
<1>3. \A k \in HeaderKinds : k \in newer <=> CodecHeaderAt(k, idx) > header_index[u][k]
  OBVIOUS
<1> HIDE DEF newer, idx
<1>5. AlwaysWaiting' /\ HeadersInRing'
  BY <1>1 DEF DecoderInv, AlwaysWaiting, HeadersInRing
<1>6. ASSUME NEW v \in Players, v # u, NEW k \in HeaderKinds PROVE HeaderKept(v, k)'
  <2>1. /\ HeaderKept(v, k)
        /\ UNCHANGED <<headers, frame_index>>
        /\ pending'[v] = pending[v] /\ header_index'[v] = header_index[v]
        /\ decoder'[v] = decoder[v] /\ last_sent'[v] = last_sent[v]
        /\ out_index'[v] = out_index[v] /\ out_frames'[v] = out_frames[v]
        /\ lost'[v] = lost[v]
        /\ Located(v)' <=> Located(v)
    BY <1>0, <1>1, <1>6 DEF DecoderInv, TypeOK, Located
  <2> QED BY <2>1, UntouchedKept
<1>7. ASSUME NEW k \in HeaderKinds PROVE HeaderKept(u, k)'
  <2> DEFINE c == CodecHeaderAt(k, idx)
  <2>0. HeaderKept(u, k)
    BY DEF DecoderInv
  <2>1. /\ header_index[u][k] \in Index /\ decoder[u][k] \in Index /\ frame_index \in Index
        /\ last_sent[u] \in Index /\ out_index[u] \in Index /\ headers[k] \subseteq Nat
    BY <1>0, PlayerTypes
  <2>2. last_sent[u] <= out_index[u]
    BY DEF StreamInv, PlayersInOrder
  <2>3. out_index'[u] = idx - 1
    BY <1>0, <1>1 DEF TypeOK
  <2>4. c \in Index /\ \A h \in headers[k] : h <= idx => h <= c
    BY <1>0, <1>2, CodecHeaderAtCovers, CodecHeaderAtType
  <2>5. ~Batched(u, k, 0) /\ \A h : ~Batched(u, k, h)
    <3>1. Len(<<>>) = 0
      OBVIOUS
    <3> QED BY <1>1, <3>1 DEF Batched
  <2>6. Located(u) /\ Located(u)' /\ pending[u][k] = None
    BY <1>1 DEF Located
  <2>7. \A h \in headers[k] : h <= header_index[u][k] => decoder[u][k] # None
    BY <2>0, <2>6 DEF HeaderKept
  <2>8. CASE k \in newer
    <3>1. header_index'[u][k] = c /\ pending'[u][k] = c
      BY <1>0, <1>1, <2>8 DEF TypeOK
    <3>2. c > header_index[u][k]
      BY <1>3, <2>8
    <3>3. headers[k] # {}
      <4>1. CodecHeaderAt(k, idx) # None
        BY <2>1, <3>2 DEF Index, None
      <4> QED BY <4>1 DEF CodecHeaderAt
    <3>4. c \in headers[k]
      BY <1>0, <1>2, <3>3, CodecHeaderAtType
    <3>5. c \in Nat /\ c <= frame_index
      BY <2>1, <3>4 DEF StreamInv, HeadersPublished, Index, None
    <3> HIDE DEF c
    <3>6. header_index'[u][k] <= 0 \/ header_index'[u][k] <= frame_index'
      BY <1>1, <3>1, <3>5
    <3>7. decoder'[u][k] <= header_index'[u][k] \/ decoder'[u][k] <= last_sent'[u]
      BY <1>1, <2>0, <2>1, <3>1, <3>2, <3>5 DEF HeaderKept, Index, None
    <3>8. pending'[u][k] # None /\ pending'[u][k] = header_index'[u][k]
      BY <3>1, <3>5 DEF None
    <3>9. ASSUME NEW h \in headers'[k]
          PROVE  /\ h <= last_sent'[u] => h <= pending'[u][k]
                 /\ h <= out_index'[u] => header_index'[u][k] >= h
      BY <1>1, <1>2, <2>1, <2>2, <2>3, <2>4, <3>1, <3>5, <3>9 DEF Index, None
    <3>10. ~lost'[u] => \A h \in headers'[k] : h <= last_sent'[u] => decoder'[u][k] # None
      BY <1>1, <2>0 DEF HeaderKept
    <3> QED BY <2>6, <3>6, <3>7, <3>8, <3>9, <3>10 DEF HeaderKept
  <2>9. CASE k \notin newer
    <3>1. header_index'[u][k] = header_index[u][k] /\ pending'[u][k] = None
      BY <1>0, <1>1, <2>9 DEF TypeOK
    <3>2. c <= header_index[u][k]
      BY <1>3, <2>1, <2>4, <2>9 DEF Index, None
    <3> HIDE DEF c
    <3>3. \A h \in headers'[k] : h <= out_index'[u] => header_index'[u][k] >= h
      BY <1>1, <1>2, <2>1, <2>3, <2>4, <3>1, <3>2 DEF Index, None
    <3>4. ~lost'[u] => \A h \in headers'[k] : h <= last_sent'[u] => decoder'[u][k] # None
      BY <1>1, <2>0 DEF HeaderKept
    <3>5. \A h \in headers'[k] : h <= header_index'[u][k] => decoder'[u][k] # None
      BY <1>1, <2>7, <3>1
    <3>6. header_index'[u][k] <= 0 \/ header_index'[u][k] <= frame_index'
      BY <1>1, <2>0, <3>1 DEF HeaderKept
    <3>7. decoder'[u][k] <= header_index'[u][k] \/ decoder'[u][k] <= last_sent'[u]
      BY <1>1, <2>0, <3>1 DEF HeaderKept
    <3> QED BY <2>6, <3>1, <3>3, <3>4, <3>5, <3>6, <3>7 DEF HeaderKept
  <2> QED BY <2>8, <2>9
<1> QED BY <1>5, <1>6, <1>7 DEF DecoderInv

\* A header under the cursor joins the batch as a packet of its kind.
LEMMA GetNextFrameDecoder ==
  ASSUME StreamInv, DecoderInv, NEW u \in Players, GetNextFrame(u)
  PROVE  DecoderInv'
<1> USE DEF streamVars, cursorVars, connVars, viewVars
<1> DEFINE n   == out_index[u] + 1
           pkt == packet_buffer[Slot(n)]
           out == out_frames[u]
<1>0. TypeOK
  BY DEF StreamInv
<1>1. /\ pc[u] = "fetch" /\ n <= frame_index
      /\ out_frames' = [out_frames EXCEPT ![u] = Append(out, pkt)]
      /\ out_index' = [out_index EXCEPT ![u] = pkt.index]
      /\ lost' = [lost EXCEPT ![u] = lost[u] \/ pkt.index # n]
      /\ UNCHANGED <<headers, frame_index, packet_buffer, decoder, pending, header_index>>
      /\ UNCHANGED <<last_sent, wait, pc>>
  BY <1>0 DEF GetNextFrame, CanFetch, TypeOK
<1>2. n \in Nat /\ out_index[u] \in Int
  BY <1>0 DEF TypeOK, Index, None
<1>3. Slot(n) \in 0 .. BufferSize - 1 /\ pkt \in Packet /\ pkt # NoPacket
  BY <1>1, <1>2, SlotInWindow, NoPacketAssumption
<1>4. out \in Seq(Packet) /\ Len(out) \in Nat
  BY <1>0 DEF TypeOK
<1>5. AlwaysWaiting' /\ HeadersInRing'
  BY <1>1 DEF DecoderInv, AlwaysWaiting, HeadersInRing
<1>6. ASSUME NEW v \in Players, v # u, NEW k \in HeaderKinds PROVE HeaderKept(v, k)'
  <2>1. /\ HeaderKept(v, k)
        /\ UNCHANGED <<headers, frame_index>>
        /\ pending'[v] = pending[v] /\ header_index'[v] = header_index[v]
        /\ decoder'[v] = decoder[v] /\ last_sent'[v] = last_sent[v]
        /\ out_index'[v] = out_index[v] /\ out_frames'[v] = out_frames[v]
        /\ lost'[v] = lost[v]
        /\ Located(v)' <=> Located(v)
    BY <1>0, <1>1, <1>6 DEF DecoderInv, TypeOK, Located
  <2> QED BY <2>1, UntouchedKept
<1>7. ASSUME NEW k \in HeaderKinds PROVE HeaderKept(u, k)'
  <2>0. HeaderKept(u, k) /\ headers[k] \subseteq Nat
    BY <1>0, PlayerTypes DEF DecoderInv
  <2>1. Located(u) /\ Located(u)'
    BY <1>1 DEF Located
  <2>2. /\ out_frames'[u] = Append(out, pkt) /\ out_index'[u] = pkt.index
        /\ lost'[u] = (lost[u] \/ pkt.index # n)
    BY <1>0, <1>1 DEF TypeOK
  <2>3. pkt.index \in headers[k] => pkt.kind = k
    BY <1>3 DEF DecoderInv, HeadersInRing
  <2> HIDE DEF pkt
  <2>4. ASSUME NEW h, Batched(u, k, h) PROVE Batched(u, k, h)'
    <3>1. PICK i \in 1 .. Len(out) : out[i].index = h /\ out[i].kind = k
      BY <2>4 DEF Batched
    <3> HIDE DEF out
    <3>2. i \in 1 .. Len(Append(out, pkt)) /\ Append(out, pkt)[i] = out[i]
      BY <1>3, <1>4, <3>1
    <3> QED BY <2>2, <3>1, <3>2 DEF Batched
  <2>5. ASSUME NEW h \in headers[k], h = pkt.index PROVE Batched(u, k, h)'
    <3> HIDE DEF out
    <3>1. Len(out) + 1 \in 1 .. Len(Append(out, pkt)) /\ Append(out, pkt)[Len(out) + 1] = pkt
      BY <1>3, <1>4
    <3> QED BY <2>2, <2>3, <2>5, <3>1 DEF Batched
  <2>6. ASSUME ~lost'[u], NEW h \in headers'[k], h <= out_index'[u]
        PROVE  decoder'[u][k] >= h \/ header_index'[u][k] >= h \/ Batched(u, k, h)'
    <3>1. ~lost[u] /\ pkt.index = n /\ h \in headers[k] /\ h \in Nat
      BY <1>1, <2>0, <2>2, <2>6
    <3>2. h <= out_index[u] \/ h = pkt.index
      BY <1>2, <2>2, <2>6, <3>1
    <3>3. CASE h = pkt.index
      BY <2>5, <3>1, <3>3
    <3>4. CASE h <= out_index[u]
      BY <1>1, <2>0, <2>4, <3>1, <3>4 DEF HeaderKept
    <3> QED BY <3>2, <3>3, <3>4
  <2>7. ~lost'[u] => \A h \in headers'[k] : h <= last_sent'[u] => decoder'[u][k] # None
    BY <1>1, <2>0, <2>2 DEF HeaderKept
  <2> QED BY <1>1, <2>0, <2>1, <2>6, <2>7 DEF HeaderKept
<1> QED BY <1>5, <1>6, <1>7 DEF DecoderInv

\* A pending header replaces nothing newer than itself among the frames sent.
LEMMA PushHeaderDecoder ==
  ASSUME StreamInv, DecoderInv, NEW u \in Players, PushHeader(u)
  PROVE  DecoderInv'
<1> USE DEF streamVars, cursorVars, connVars, viewVars
<1> DEFINE f == FirstPending(u)
<1>0. TypeOK
  BY DEF StreamInv
<1>1. f \in HeaderKinds
  BY DEF FirstPending, HeaderKinds
<1>2. pending[u][f] # None
  BY DEF PushHeader, NoHeaderPending, FirstPending, HeaderKinds
<1>3. /\ decoder' = [decoder EXCEPT ![u][f] = pending[u][f]]
      /\ pending' = [pending EXCEPT ![u][f] = None]
      /\ pc' = [pc EXCEPT ![u] = "idle"] /\ pc[u] = "push"
      /\ UNCHANGED <<headers, frame_index, packet_buffer, header_index, last_sent, out_index>>
      /\ UNCHANGED <<out_frames, lost, wait>>
  BY DEF PushHeader
<1> HIDE DEF f
<1>4. \A v \in Players : Located(v)' <=> Located(v)
  BY <1>0, <1>3 DEF TypeOK, Located
<1>5. AlwaysWaiting' /\ HeadersInRing'
  BY <1>3 DEF DecoderInv, AlwaysWaiting, HeadersInRing
<1>6. ASSUME NEW v \in Players, v # u, NEW k \in HeaderKinds PROVE HeaderKept(v, k)'
  <2>1. /\ HeaderKept(v, k)
        /\ UNCHANGED <<headers, frame_index>>
        /\ pending'[v] = pending[v] /\ header_index'[v] = header_index[v]
        /\ decoder'[v] = decoder[v] /\ last_sent'[v] = last_sent[v]
        /\ out_index'[v] = out_index[v] /\ out_frames'[v] = out_frames[v]
        /\ lost'[v] = lost[v]
        /\ Located(v)' <=> Located(v)
    BY <1>0, <1>3, <1>4, <1>6 DEF DecoderInv, TypeOK
  <2> QED BY <2>1, UntouchedKept
<1>7. ASSUME NEW k \in HeaderKinds PROVE HeaderKept(u, k)'
  <2>0. HeaderKept(u, k)
    BY DEF DecoderInv
  <2>1. /\ header_index[u][k] \in Index /\ decoder[u][k] \in Index /\ pending[u][k] \in Index
        /\ last_sent[u] \in Index /\ headers[k] \subseteq Nat
    BY <1>0, PlayerTypes
  <2>2. \A h : Batched(u, k, h)' <=> Batched(u, k, h)
    BY <1>3 DEF Batched
  <2>3. CASE k # f
    <3>1. decoder'[u][k] = decoder[u][k] /\ pending'[u][k] = pending[u][k]
      BY <1>0, <1>3, <2>3 DEF TypeOK
    <3> QED BY <1>3, <1>4, <2>0, <2>2, <3>1 DEF HeaderKept
  <2>4. CASE k = f
    <3>1. decoder'[u][k] = pending[u][k] /\ pending'[u][k] = None
      BY <1>0, <1>1, <1>3, <2>4 DEF TypeOK
    <3>2. /\ pending[u][k] # None /\ pending[u][k] = header_index[u][k]
          /\ \A h \in headers[k] : h <= last_sent[u] => h <= header_index[u][k]
      BY <1>2, <2>0, <2>4 DEF HeaderKept
    <3>3. ASSUME ~lost[u], NEW h \in headers[k], h <= out_index[u]
          PROVE  decoder'[u][k] >= h \/ header_index[u][k] >= h \/ Batched(u, k, h)
      <4>1. decoder[u][k] >= h \/ header_index[u][k] >= h \/ Batched(u, k, h)
        BY <2>0, <3>3 DEF HeaderKept
      <4>2. decoder[u][k] <= header_index[u][k] \/ decoder[u][k] <= last_sent[u]
        BY <2>0 DEF HeaderKept
      <4>3. decoder[u][k] >= h => header_index[u][k] >= h
        BY <2>1, <3>2, <4>2 DEF Index, None
      <4> QED BY <4>1, <4>3
    <3>4. decoder'[u][k] <= header_index'[u][k]
      BY <1>3, <2>1, <3>1, <3>2 DEF Index, None
    <3>5. Located(u)' \/ header_index'[u][k] <= 0
      BY <1>3, <1>4, <2>0 DEF HeaderKept
    <3>6. header_index'[u][k] <= 0 \/ header_index'[u][k] <= frame_index'
      BY <1>3, <2>0 DEF HeaderKept
    <3> QED BY <1>3, <2>2, <3>1, <3>2, <3>3, <3>4, <3>5, <3>6 DEF HeaderKept
  <2> QED BY <2>3, <2>4
<1> QED BY <1>5, <1>6, <1>7 DEF DecoderInv

\* A batch that goes out leaves the last header of each kind it held.
LEMMA PushFramesDecoder ==
  ASSUME StreamInv, DecoderInv, NEW u \in Players, PushFrames(u)
  PROVE  DecoderInv'
<1> USE DEF streamVars, cursorVars, connVars, viewVars
<1> DEFINE out       == out_frames[u]
           inband(k) == {i \in 1 .. Len(out) : out[i].kind = k}
<1>0. TypeOK
  BY DEF StreamInv
<1>1. /\ pc[u] = "push" /\ out # <<>> /\ pc' = [pc EXCEPT ![u] = "idle"]
      /\ \A k \in HeaderKinds : pending[u][k] = None
      /\ last_sent' = [last_sent EXCEPT ![u] = out[Len(out)].index]
      /\ decoder' = [decoder EXCEPT ![u] = [k \in HeaderKinds |->
                       IF inband(k) = {} THEN decoder[u][k] ELSE out[Max(inband(k))].index]]
      /\ out_frames' = [out_frames EXCEPT ![u] = <<>>]
      /\ UNCHANGED <<headers, frame_index, packet_buffer, pending, header_index, out_index>>
      /\ UNCHANGED <<lost, wait>>
  BY <1>0 DEF PushFrames, NoHeaderPending, TypeOK
<1>2. out \in Seq(Packet) /\ Len(out) \in Nat /\ Len(out) >= 1 /\ out_index[u] \in Int
  <2>1. out \in Seq(Packet) /\ out_index[u] \in Int
    BY <1>0 DEF TypeOK, Index, None
  <2> HIDE DEF out
  <2> QED BY <1>1, <2>1
<1>3. /\ \A i \in 1 .. Len(out) : out[i].index = out_index[u] - (Len(out) - i)
      /\ last_sent[u] < out[1].index
  BY <1>1 DEF StreamInv, PlayersInOrder
<1>4. ASSUME NEW k \in HeaderKinds, inband(k) # {}
      PROVE  /\ Max(inband(k)) \in inband(k)
             /\ \A i \in inband(k) : i <= Max(inband(k))
  <2>1. inband(k) \subseteq 0 .. Len(out)
    OBVIOUS
  <2> HIDE DEF inband, out
  <2> QED BY <1>2, <1>4, <2>1, MaxProp
<1>5. \A k \in HeaderKinds : \A i \in inband(k) : i \in 1 .. Len(out) /\ out[i].kind = k
  OBVIOUS
<1>6. \A k \in HeaderKinds : \A h :
        Batched(u, k, h) <=> \E i \in inband(k) : out[i].index = h
  BY DEF Batched
<1>7. AlwaysWaiting' /\ HeadersInRing'
  BY <1>1 DEF DecoderInv, AlwaysWaiting, HeadersInRing
<1>8. ASSUME NEW v \in Players, v # u, NEW k \in HeaderKinds PROVE HeaderKept(v, k)'
  <2>1. /\ HeaderKept(v, k)
        /\ UNCHANGED <<headers, frame_index>>
        /\ pending'[v] = pending[v] /\ header_index'[v] = header_index[v]
        /\ decoder'[v] = decoder[v] /\ last_sent'[v] = last_sent[v]
        /\ out_index'[v] = out_index[v] /\ out_frames'[v] = out_frames[v]
        /\ lost'[v] = lost[v]
        /\ Located(v)' <=> Located(v)
    BY <1>0, <1>1, <1>8 DEF DecoderInv, TypeOK, Located
  <2> QED BY <2>1, UntouchedKept
<1>9. ASSUME NEW k \in HeaderKinds PROVE HeaderKept(u, k)'
  <2> DEFINE m == Max(inband(k))
  <2>0. HeaderKept(u, k) /\ pending[u][k] = None /\ pending'[u][k] = None
    BY <1>1 DEF DecoderInv
  <2>1. /\ header_index[u][k] \in Index /\ decoder[u][k] \in Index
        /\ last_sent[u] \in Index /\ headers[k] \subseteq Nat
    BY <1>0, PlayerTypes
  <2>2. /\ last_sent'[u] = out[Len(out)].index
        /\ decoder'[u][k] = IF inband(k) = {} THEN decoder[u][k] ELSE out[m].index
        /\ pc'[u] = "idle"
    BY <1>0, <1>1 DEF TypeOK
  <2>3. inband(k) # {} =>
          /\ m \in 1 .. Len(out) /\ \A i \in inband(k) : i <= m /\ i \in 1 .. Len(out)
    BY <1>4, <1>5
  <2> HIDE DEF out, inband, m
  <2>4. last_sent'[u] = out_index[u]
    BY <1>2, <1>3, <2>2
  <2>5. \A i \in 1 .. Len(out) : out[i].index > last_sent[u]
    <3>1. 1 \in 1 .. Len(out)
      BY <1>2
    <3>2. last_sent[u] < out_index[u] - (Len(out) - 1)
      BY <1>3, <3>1
    <3> QED BY <1>2, <1>3, <2>1, <3>2 DEF Index, None
  <2>6. inband(k) # {} =>
          /\ decoder'[u][k] \in Int
          /\ decoder'[u][k] <= out_index[u] /\ decoder'[u][k] > last_sent[u]
    <3> SUFFICES ASSUME inband(k) # {}
                 PROVE  /\ out[m].index \in Int
                        /\ out[m].index <= out_index[u] /\ out[m].index > last_sent[u]
      BY <2>2
    <3>1. m \in 1 .. Len(out)
      BY <2>3
    <3>2. out[m].index = out_index[u] - (Len(out) - m) /\ out[m].index > last_sent[u]
      BY <1>3, <2>5, <3>1
    <3> QED BY <1>2, <3>1, <3>2
  <2>7. Located(u) /\ Located(u)'
    <3>1. out_index[u] >= 0
      BY <1>2, <1>3, <2>1, <2>5 DEF Index, None
    <3> QED BY <1>1, <3>1 DEF Located
  <2>8. decoder[u][k] # None => decoder'[u][k] # None
    BY <2>1, <2>2, <2>6 DEF Index, None
  <2>9. decoder[u][k] <= header_index[u][k] \/ decoder[u][k] <= last_sent[u]
    BY <2>0 DEF HeaderKept
  <2>10. decoder'[u][k] <= header_index'[u][k] \/ decoder'[u][k] <= last_sent'[u]
    <3>1. CASE inband(k) = {}
      <4>1. last_sent[u] <= out_index[u]
        BY DEF StreamInv, PlayersInOrder
      <4> QED BY <1>1, <1>2, <2>1, <2>2, <2>4, <2>9, <3>1, <4>1 DEF Index, None
    <3> QED BY <2>4, <2>6, <3>1
  <2>11. \A h \in headers'[k] : h <= header_index'[u][k] => decoder'[u][k] # None
    BY <1>1, <2>0, <2>7, <2>8 DEF HeaderKept
  <2>12. ASSUME ~lost[u], NEW h \in headers[k], h <= out_index[u]
         PROVE  decoder'[u][k] # None /\ (decoder'[u][k] >= h \/ header_index[u][k] >= h)
    <3>0. h \in Nat
      BY <2>1
    <3>1. CASE Batched(u, k, h)
      <4>1. PICK i \in inband(k) : out[i].index = h
        BY <1>6, <3>1
      <4>2. out[m].index >= h
        BY SMTT(30), <1>2, <1>3, <2>3, <4>1
      <4>3. decoder'[u][k] >= h
        BY <2>2, <4>1, <4>2
      <4>4. decoder'[u][k] # None
        BY <2>1, <2>2, <2>6, <4>1 DEF Index, None
      <4> QED BY <4>3, <4>4
    <3>2. CASE ~Batched(u, k, h)
      <4>1. decoder[u][k] >= h \/ header_index[u][k] >= h
        BY <2>0, <2>12, <3>2 DEF HeaderKept
      <4>2. decoder'[u][k] # None
        <5>1. CASE header_index[u][k] >= h
          BY <1>1, <2>11, <3>0, <5>1, <2>1 DEF Index, None
        <5>2. CASE decoder[u][k] >= h
          BY <2>1, <2>8, <3>0, <5>2 DEF None
        <5> QED BY <4>1, <5>1, <5>2
      <4>3. CASE ~(header_index[u][k] >= h)
        <5>1. decoder[u][k] >= h /\ decoder[u][k] <= last_sent[u]
          BY <2>1, <2>9, <3>0, <4>1, <4>3 DEF Index, None
        <5>2. decoder'[u][k] >= h
          BY <2>1, <2>2, <2>6, <3>0, <5>1, <1>2 DEF Index, None
        <5> QED BY <4>2, <5>2
      <4> QED BY <4>2, <4>3
    <3> QED BY <3>1, <3>2
  <2>13. header_index'[u][k] <= 0 \/ header_index'[u][k] <= frame_index'
    BY <1>1, <2>0 DEF HeaderKept
  <2> QED BY <1>1, <2>0, <2>4, <2>7, <2>10, <2>11, <2>12, <2>13 DEF HeaderKept
<1> QED BY <1>7, <1>8, <1>9 DEF DecoderInv

\* No player has joined and nothing is published.
LEMMA InitDecoder == Init => DecoderInv
<1> SUFFICES ASSUME Init PROVE DecoderInv
  OBVIOUS
<1>1. AlwaysWaiting /\ HeadersInRing
  BY DEF Init, AlwaysWaiting, HeadersInRing
<1>2. ASSUME NEW u \in Players, NEW k \in HeaderKinds PROVE HeaderKept(u, k)
  BY DEF Init, HeaderKept, Located, None
<1> QED BY <1>1, <1>2 DEF DecoderInv

\* Every step of the publisher and of a player.
LEMMA NextDecoder == StreamInv /\ DecoderInv /\ [Next]_vars => DecoderInv'
<1> SUFFICES ASSUME StreamInv, DecoderInv, [Next]_vars PROVE DecoderInv'
  OBVIOUS
<1>1. ASSUME NEW kind \in Kinds,
             NEW ts \in IF kind \in HeaderKinds THEN {0} ELSE Timestamps,
             AddPacket(kind, ts)
      PROVE  DecoderInv'
  <2>1. ts \in Nat
    BY StreamAssumption
  <2> QED BY <1>1, <2>1, AddPacketDecoder
<1>2. ASSUME \/ ActiveAllPlayers \/ AllWoken
             \/ \E u \in Players :
                  \/ Active(u) \/ AddPlayer(u) \/ ActiveSelf(u) \/ RunActive(u) \/ WriteComplete(u)
                  \/ PostTooEarly(u) \/ PostHttpHeader(u) \/ PostFrames(u) \/ Deactive(u)
                  \/ GetNothingNew(u) \/ LocateGopFails(u) \/ PushRefused(u) \/ NothingToSend(u)
                  \/ StayInPlace(u) \/ GotFrames(u)
      PROVE  DecoderInv'
  BY <1>2, IdleSteps, IdleKeepsDecoder
<1>3. ASSUME NEW u \in Players, LocateGop(u) \/ SkipFrame(u) PROVE DecoderInv'
  BY <1>3, LocateGopDecoder, SkipFrameDecoder
<1>4. ASSUME NEW u \in Players, GetNextFrame(u) \/ PushHeader(u) \/ PushFrames(u)
      PROVE  DecoderInv'
  BY <1>4, GetNextFrameDecoder, PushHeaderDecoder, PushFramesDecoder
<1>5. CASE UNCHANGED vars
  <2>1. Idle
    BY <1>5 DEF vars, streamVars, cursorVars, connVars, viewVars, Idle, Located
  <2> QED BY <2>1, IdleKeepsDecoder
<1> QED BY <1>1, <1>2, <1>3, <1>4, <1>5 DEF Next, PublisherNext, PlayerNext, HandlerStep

\* The headers up to the last frame sent are below the cursor and out of the batch.
LEMMA DecoderInvConfigures == StreamInv /\ DecoderInv => DecoderConfigured
<1> SUFFICES ASSUME StreamInv, DecoderInv, NEW u \in Players, NEW k \in HeaderKinds, ~lost[u],
                    {h \in headers[k] : h <= last_sent[u]} # {}
             PROVE  /\ decoder[u][k] # None
                    /\ \/ decoder[u][k] >= Max({h \in headers[k] : h <= last_sent[u]})
                       \/ header_index[u][k] >= Max({h \in headers[k] : h <= last_sent[u]})
  BY DEF DecoderConfigured
<1> DEFINE before == {h \in headers[k] : h <= last_sent[u]}
           out    == out_frames[u]
<1>0. TypeOK
  BY DEF StreamInv
<1>1. /\ frame_index \in Index /\ last_sent[u] \in Index /\ out_index[u] \in Index
      /\ out \in Seq(Packet) /\ Len(out) \in Nat
  BY <1>0 DEF TypeOK
<1>2. headers[k] \subseteq 0 .. frame_index
  BY DEF StreamInv, HeadersPublished
<1>3. Max(before) \in before
  <2>1. frame_index \in Nat /\ before \subseteq 0 .. frame_index /\ before # {}
    BY <1>1, <1>2 DEF Index, None
  <2> HIDE DEF before
  <2> QED BY <2>1, MaxProp
<1>4. Max(before) \in headers[k] /\ Max(before) <= last_sent[u] /\ Max(before) \in Nat
  <2>1. \A x \in before : x \in headers[k] /\ x <= last_sent[u] /\ x \in Nat
    BY <1>0, PlayerTypes
  <2> HIDE DEF before
  <2> QED BY <1>3, <2>1
<1> HIDE DEF before
<1>5. last_sent[u] <= out_index[u]
  BY DEF StreamInv, PlayersInOrder
<1>6. ~Batched(u, k, Max(before))
  <2> SUFFICES ASSUME NEW i \in 1 .. Len(out), out[i].index = Max(before) PROVE FALSE
    BY DEF Batched
  <2>1. out # <<>>
    BY <1>1
  <2>2. /\ \A j \in 1 .. Len(out) : out[j].index = out_index[u] - (Len(out) - j)
        /\ last_sent[u] < out[1].index
    BY <2>1 DEF StreamInv, PlayersInOrder
  <2> HIDE DEF out
  <2>3. 1 \in 1 .. Len(out)
    BY <1>1
  <2>4. last_sent[u] < out_index[u] - (Len(out) - 1) /\ Max(before) = out_index[u] - (Len(out) - i)
    BY <2>2, <2>3
  <2> QED BY <1>1, <1>4, <2>4 DEF Index, None
<1>7. HeaderKept(u, k)
  BY DEF DecoderInv
<1>8. Max(before) <= out_index[u]
  BY <1>1, <1>4, <1>5 DEF Index, None
<1> QED BY <1>4, <1>6, <1>7, <1>8 DEF HeaderKept, before

\* A player that never lost packets to the ring can decode all it was sent, for
\* any number of players, any constants and any sequence of headers and skips
\* (LocateGop and SkipFrame, Stream.cpp:189-300).
THEOREM DecodersConfigured == Spec => []DecoderConfigured
<1>1. Init => DecoderInv
  BY InitDecoder
<1>2. StreamInv /\ DecoderInv /\ [Next]_vars => DecoderInv'
  BY NextDecoder
<1>3. StreamInv /\ DecoderInv => DecoderConfigured
  BY DecoderInvConfigures
<1> QED BY <1>1, <1>2, <1>3, StreamCorrect, PTL DEF Spec

-----------------------------------------------------------------------------
(* Nothing fetched is stranded.                                            *)

\* The stream is ready and has a codec header: PostFrames goes past its first tests.
Open == ready /\ HasMedia

Fetched(u) == out_frames[u] # <<>> \/ ~NoHeaderPending(u)

\* A player fetches from an open stream only, holds nothing before its first post
\* and after NothingToSend, and lets go of the loop with something fetched only
\* while a write is in flight.
FetchedKept(u) ==
  /\ Fetched(u) \/ pc[u] \in {"get", "fetch", "push"} => Open
  /\ Fetched(u) => pc[u] \notin {"absent", "joined", "deactive"}
  /\ Fetched(u) /\ pc[u] = "idle" => sending[u]

AllFetchedKept == \A u \in Players : FetchedKept(u)

\* Once open, a stream stays open.
LEMMA OpenStays == TypeOK /\ Open /\ [Next]_vars => Open'
<1> SUFFICES ASSUME TypeOK, Open, [Next]_vars PROVE Open'
  OBVIOUS
<1> USE DEF streamVars, cursorVars, connVars, viewVars
<1>1. ASSUME NEW kind, NEW ts, AddPacket(kind, ts) PROVE Open'
  BY <1>1 DEF AddPacket, Open, HasMedia, TypeOK
<1>2. ASSUME UNCHANGED <<ready, headers>> PROVE Open'
  BY <1>2 DEF Open, HasMedia
<1>3. CASE \E kind \in Kinds : \E ts \in IF kind \in HeaderKinds THEN {0} ELSE Timestamps :
             AddPacket(kind, ts)
  BY <1>1, <1>3
<1>4. CASE ~\E kind \in Kinds : \E ts \in IF kind \in HeaderKinds THEN {0} ELSE Timestamps :
             AddPacket(kind, ts)
  <2>1. UNCHANGED <<ready, headers>>
    BY ZenonT(30), <1>4 DEF Next, PublisherNext, PlayerNext, HandlerStep, vars, ActiveAllPlayers,
         Active, AllWoken, AddPlayer, ActiveSelf, RunActive, WriteComplete, PostTooEarly,
         PostHttpHeader, PostFrames, Deactive, GetNothingNew, LocateGopFails, LocateGop,
         SkipFrame, StayInPlace, GetNextFrame, GotFrames, PushHeader, PushFrames,
         PushRefused, NothingToSend
  <2> QED BY <2>1, <1>2
<1> QED BY <1>3, <1>4

\* The player whose loop takes the step.
LEMMA OwnStepKept ==
  ASSUME TypeOK, NEW u \in Players, FetchedKept(u), PlayerNext(u), Open => Open'
  PROVE  FetchedKept(u)'
<1> USE DEF streamVars, cursorVars, connVars, viewVars
<1>1. ASSUME UNCHANGED <<out_frames, pending>> PROVE Fetched(u)' <=> Fetched(u)
  BY <1>1 DEF Fetched, NoHeaderPending
<1>2. CASE AddPlayer(u) \/ ActiveSelf(u) \/ RunActive(u) \/ WriteComplete(u)
  BY <1>1, <1>2 DEF AddPlayer, ActiveSelf, RunActive, WriteComplete, PostAgain, FetchedKept, TypeOK
<1>3. CASE PostTooEarly(u) \/ PostFrames(u) \/ Deactive(u) \/ PostHttpHeader(u)
  BY <1>1, <1>3 DEF PostTooEarly, PostFrames, Deactive, PostHttpHeader, Send, FetchedKept, Open, TypeOK
<1>4. CASE GetNothingNew(u) \/ LocateGopFails(u) \/ StayInPlace(u) \/ GotFrames(u)
  BY <1>1, <1>4 DEF GetNothingNew, LocateGopFails, StayInPlace, GotFrames, MayGet, FetchedKept, TypeOK
<1>5. CASE LocateGop(u) \/ SkipFrame(u) \/ GetNextFrame(u)
  <2>1. pc[u] \in {"get", "fetch"} /\ pc'[u] \in {"fetch", "push"}
    BY <1>5 DEF LocateGop, SkipFrame, GetNextFrame, MayGet, TypeOK
  <2> QED BY <2>1 DEF FetchedKept
<1>6. CASE PushHeader(u) \/ PushFrames(u)
  <2>1. pc[u] = "push" /\ pc'[u] = "idle" /\ sending'[u]
    BY <1>6 DEF PushHeader, PushFrames, Send, TypeOK
  <2> QED BY <2>1 DEF FetchedKept
<1>7. CASE PushRefused(u)
  BY <1>1, <1>7 DEF PushRefused, FetchedKept, TypeOK
<1>8. CASE NothingToSend(u)
  BY <1>1, <1>8 DEF NothingToSend, FetchedKept, Fetched, TypeOK
<1> QED BY <1>2, <1>3, <1>4, <1>5, <1>6, <1>7, <1>8 DEF PlayerNext, HandlerStep

\* A step that leaves a player what it fetched, its write and its place.
LEMMA OtherStepKept ==
  ASSUME NEW v \in Players, FetchedKept(v), Open => Open',
         out_frames'[v] = out_frames[v], pending'[v] = pending[v],
         sending'[v] = sending[v], pc'[v] = pc[v]
  PROVE  FetchedKept(v)'
<1>1. Fetched(v)' <=> Fetched(v)
  BY DEF Fetched, NoHeaderPending
<1> QED BY <1>1 DEF FetchedKept

\* Every step, of the publisher, of the player or of another.
LEMMA FetchedKeptNext ==
  ASSUME TypeOK, AllFetchedKept, [Next]_vars
  PROVE  AllFetchedKept'
<1> USE DEF streamVars, cursorVars, connVars, viewVars
<1>1. Open => Open'
  BY OpenStays
<1>2. CASE PublisherNext
  <2>1. ASSUME NEW u \in Players, Active(u), NEW v \in Players PROVE FetchedKept(v)'
    <3>1. CASE UNCHANGED pc
      <4>1. /\ out_frames'[v] = out_frames[v] /\ pending'[v] = pending[v]
            /\ sending'[v] = sending[v] /\ pc'[v] = pc[v] /\ FetchedKept(v)
        BY <2>1, <3>1 DEF Active, AllFetchedKept
      <4> QED BY <1>1, <4>1, OtherStepKept
    <3>2. CASE pc' = [pc EXCEPT ![u] = "post"] /\ ~UNCHANGED pc
      <4>1. u \in Local /\ PublisherLoopFree
        BY <2>1, <3>2 DEF Active
      <4>2. pc[u] \in {"absent", "idle"}
        BY <4>1 DEF PublisherLoopFree
      <4>3. Fetched(v)' <=> Fetched(v)
        BY <2>1 DEF Active, Fetched, NoHeaderPending
      <4> QED BY <1>1, <2>1, <3>2, <4>2, <4>3 DEF AllFetchedKept, FetchedKept, TypeOK, Active
    <3> QED BY <2>1, <3>1, <3>2 DEF Active
  <2>2. CASE \/ \E kind \in Kinds : \E ts \in IF kind \in HeaderKinds THEN {0} ELSE Timestamps :
                  AddPacket(kind, ts)
             \/ ActiveAllPlayers \/ AllWoken
    <3>1. UNCHANGED <<out_frames, pending, sending, pc>>
      BY <2>2 DEF AddPacket, ActiveAllPlayers, AllWoken
    <3>2. ASSUME NEW v \in Players PROVE FetchedKept(v)'
      <4>1. /\ out_frames'[v] = out_frames[v] /\ pending'[v] = pending[v]
            /\ sending'[v] = sending[v] /\ pc'[v] = pc[v] /\ FetchedKept(v)
        BY <3>1 DEF AllFetchedKept
      <4> QED BY <1>1, <4>1, OtherStepKept
    <3> QED BY <3>2 DEF AllFetchedKept
  <2> QED BY <1>2, <2>1, <2>2 DEF PublisherNext, AllFetchedKept
<1>3. ASSUME NEW u \in Players, PlayerNext(u), NEW v \in Players PROVE FetchedKept(v)'
  <2>1. CASE v = u
    BY <1>1, <1>3, <2>1, OwnStepKept DEF AllFetchedKept
  <2>2. CASE v # u
    <3>1. /\ out_frames'[v] = out_frames[v] /\ pending'[v] = pending[v]
          /\ sending'[v] = sending[v] /\ pc'[v] = pc[v] /\ FetchedKept(v)
      BY ZenonT(30), <1>3, <2>2 DEF TypeOK, PlayerNext, HandlerStep, AddPlayer, ActiveSelf, RunActive,
         WriteComplete, PostAgain, PostTooEarly, PostHttpHeader, PostFrames, Deactive, Send,
         GetNothingNew, LocateGopFails, LocateGop, SkipFrame, StayInPlace, GetNextFrame,
         GotFrames, PushHeader, PushFrames, PushRefused, NothingToSend, AllFetchedKept
    <3> QED BY <1>1, <3>1, OtherStepKept
  <2> QED BY <2>1, <2>2
<1>4. CASE UNCHANGED vars
  <2>1. ASSUME NEW v \in Players PROVE FetchedKept(v)'
    <3>1. /\ out_frames'[v] = out_frames[v] /\ pending'[v] = pending[v]
          /\ sending'[v] = sending[v] /\ pc'[v] = pc[v] /\ FetchedKept(v)
      BY <1>4 DEF vars, AllFetchedKept
    <3> QED BY <1>1, <3>1, OtherStepKept
  <2> QED BY <2>1 DEF AllFetchedKept
<1> QED BY <1>2, <1>3, <1>4 DEF Next, AllFetchedKept

\* What a player fetched and could not push always waits for a write in flight,
\* whose completion posts again, for any players and any interleaving (PushFrame
\* returning false, RtmpPlayerUser.cpp:73): the safety half of PlayersServed.
THEOREM NothingEverStranded == Spec => [](RingLocked /\ NothingStranded)
<1>1. Init => AllFetchedKept
  BY DEF Init, AllFetchedKept, FetchedKept, Fetched, NoHeaderPending
<1>2. TypeOK /\ AllFetchedKept /\ [Next]_vars => AllFetchedKept'
  BY FetchedKeptNext
<1>3. AllFetchedKept => NothingStranded
  BY DEF AllFetchedKept, FetchedKept, Fetched, NothingStranded
<1>4. StreamInv => TypeOK /\ RingLocked
  BY DEF StreamInv
<1> QED BY <1>1, <1>2, <1>3, <1>4, StreamCorrect, PTL DEF Spec

-----------------------------------------------------------------------------
(* The stream implements the feed.                                         *)

\* PostFrames looks at the stream only once it is ready, and it stays ready.
ReadyToGet == \A u \in Players : pc[u] \in {"get", "fetch", "push"} => ready

\* No step sends a player past PostFrames' tests on a stream that is not ready.
LEMMA ReadyToGetNext == TypeOK /\ ReadyToGet /\ [Next]_vars => ReadyToGet'
<1> SUFFICES ASSUME TypeOK, ReadyToGet, [Next]_vars PROVE ReadyToGet'
  OBVIOUS
<1> USE DEF streamVars, cursorVars, connVars, viewVars
<1>1. ready => ready'
  BY ZenonT(30) DEF Next, PublisherNext, PlayerNext, HandlerStep, vars, AddPacket, ActiveAllPlayers,
         Active, AllWoken, AddPlayer, ActiveSelf, RunActive, WriteComplete, PostTooEarly,
         PostHttpHeader, PostFrames, Deactive, GetNothingNew, LocateGopFails, LocateGop,
         SkipFrame, StayInPlace, GetNextFrame, GotFrames, PushHeader, PushFrames,
         PushRefused, NothingToSend
<1>2. ASSUME NEW u \in Players, PlayerNext(u), NEW v \in Players,
             pc'[v] \in {"get", "fetch", "push"}
      PROVE  pc[v] \in {"get", "fetch", "push"} \/ ready
  <2>1. CASE v # u
    <3>1. pc'[v] = pc[v]
      BY <1>2, <2>1 DEF TypeOK, PlayerNext, HandlerStep, AddPlayer, ActiveSelf, RunActive,
         WriteComplete, PostAgain, PostTooEarly, PostHttpHeader, PostFrames, Deactive,
         GetNothingNew, LocateGopFails, LocateGop, SkipFrame, StayInPlace, GetNextFrame,
         GotFrames, PushHeader, PushFrames, PushRefused, NothingToSend
    <3> QED BY <1>2, <3>1
  <2>2. CASE v = u
    BY <1>2, <2>2 DEF TypeOK, PlayerNext, HandlerStep, AddPlayer, ActiveSelf, RunActive,
         WriteComplete, PostAgain, PostTooEarly, PostHttpHeader, PostFrames, Deactive,
         GetNothingNew, LocateGopFails, LocateGop, SkipFrame, StayInPlace, GetNextFrame,
         GotFrames, PushHeader, PushFrames, PushRefused, NothingToSend, MayGet
  <2> QED BY <2>1, <2>2
<1>3. CASE PublisherNext
  <2>1. \A v \in Players : pc'[v] = pc[v] \/ pc'[v] = "post"
    BY <1>3 DEF TypeOK, PublisherNext, AddPacket, ActiveAllPlayers, Active, AllWoken
  <2> QED BY <1>1, <2>1 DEF ReadyToGet
<1>4. CASE \E u \in Players : PlayerNext(u)
  BY <1>1, <1>2, <1>4 DEF ReadyToGet
<1>5. CASE UNCHANGED vars
  BY <1>5 DEF ReadyToGet, vars
<1> QED BY <1>3, <1>4, <1>5 DEF Next

\* Every batch a player pushes moves it forward among the published packets.
LEMMA FeedNext ==
  ASSUME StreamInv, ReadyToGet, [Next]_vars
  PROVE  [Feed!Next]_(Feed!feedVars)
<1> USE DEF streamVars, cursorVars, connVars, viewVars
<1>1. ASSUME NEW kind, NEW ts, AddPacket(kind, ts) PROVE Feed!Publish
  <2>1. ready \in BOOLEAN /\ ready' = (ready \/ IsKeyFrame(kind))
    BY <1>1 DEF AddPacket, StreamInv, TypeOK
  <2>2. ready' \in {ready, TRUE}
    BY <2>1
  <2> QED BY <1>1, <2>2 DEF AddPacket, Feed!Publish
<1>2. ASSUME NEW u \in Players, PushFrames(u) PROVE Feed!Send(u)
  <2> DEFINE out == out_frames[u]
  <2>1. ready /\ out # <<>> /\ UNCHANGED <<frame_index, ready>>
    BY <1>2 DEF ReadyToGet, PushFrames
  <2>2. last_sent' = [last_sent EXCEPT ![u] = out[Len(out)].index]
    BY <1>2 DEF PushFrames
  <2>3. /\ out \in Seq(Packet) /\ last_sent[u] \in Int /\ out_index[u] \in Int
        /\ frame_index \in Int
    BY DEF StreamInv, TypeOK, Index, None
  <2>4. Len(out) \in Nat /\ 1 \in 1 .. Len(out) /\ Len(out) \in 1 .. Len(out)
    BY <2>1, <2>3
  <2>5. /\ \A i \in 1 .. Len(out) : out[i].index = out_index[u] - (Len(out) - i)
        /\ last_sent[u] < out[1].index /\ out_index[u] <= frame_index
    BY <2>1 DEF StreamInv, PlayersInOrder
  <2>6. /\ out[Len(out)].index = out_index[u] - (Len(out) - Len(out))
        /\ out[1].index = out_index[u] - (Len(out) - 1)
    BY <2>4, <2>5
  <2> HIDE DEF out
  <2>7. out[Len(out)].index = out_index[u]
    BY <2>3, <2>4, <2>6
  <2>8. last_sent[u] + 1 <= out_index[u]
    BY <2>3, <2>4, <2>5, <2>6
  <2>9. out_index[u] \in last_sent[u] + 1 .. frame_index
    BY <2>3, <2>5, <2>8
  <2> QED BY <2>1, <2>2, <2>7, <2>9 DEF Feed!Send
<1>3. CASE \E kind \in Kinds : \E ts \in IF kind \in HeaderKinds THEN {0} ELSE Timestamps :
             AddPacket(kind, ts)
  BY <1>1, <1>3 DEF Feed!Next
<1>4. CASE \E u \in Players : PushFrames(u)
  BY <1>2, <1>4 DEF Feed!Next
<1>5. CASE /\ ~\E kind \in Kinds : \E ts \in IF kind \in HeaderKinds THEN {0} ELSE Timestamps :
                 AddPacket(kind, ts)
           /\ ~\E u \in Players : PushFrames(u)
  <2>1. UNCHANGED <<frame_index, ready, last_sent>>
    BY ZenonT(30), <1>5 DEF Next, PublisherNext, PlayerNext, HandlerStep, vars, ActiveAllPlayers,
         Active, AllWoken, AddPlayer, ActiveSelf, RunActive, WriteComplete, PostTooEarly,
         PostHttpHeader, PostFrames, Deactive, GetNothingNew, LocateGopFails, LocateGop,
         SkipFrame, StayInPlace, GetNextFrame, GotFrames, PushHeader, PushRefused,
         NothingToSend
  <2> QED BY <2>1 DEF Feed!feedVars
<1> QED BY <1>3, <1>4, <1>5

\* For any constants, a live stream with its players is a packet feed: whatever
\* the threads interleave, each player is sent an increasing subsequence of the
\* published packets, and nothing before a key frame made the stream ready.
THEOREM StreamIsFeed == Spec => FeedSpec
<1>1. Init => Feed!Init
  BY DEF Init, Feed!Init, None
<1>2. Init => ReadyToGet
  BY DEF Init, ReadyToGet
<1>3. StreamInv => TypeOK
  BY DEF StreamInv
<1>4. TypeOK /\ ReadyToGet /\ [Next]_vars => ReadyToGet'
  BY ReadyToGetNext
<1>5. StreamInv /\ ReadyToGet /\ [Next]_vars => [Feed!Next]_(Feed!feedVars)
  BY FeedNext
<1>6. Spec => []StreamInv
  BY StreamCorrect
<1> QED BY <1>1, <1>2, <1>3, <1>4, <1>5, <1>6, PTL DEF Spec, FeedSpec, Feed!Spec

=============================================================================
