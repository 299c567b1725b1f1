-------------------------- MODULE HlsWindow_proofs --------------------------
(***************************************************************************)
(* Proofs that the playlist lists what is there and only moves on, and     *)
(* that a client is sent the fragment it asked for: PlaylistReliable and   *)
(* ServedAsAsked of HlsWindow, for any clients, any sizes and any packets. *)
(*                                                                         *)
(* Everything is told by sequence numbers.  The window holds the fragments *)
(* Base + 1 up to Newest, in order (SeqOK); the playlist ends with the     *)
(* newest one, or the one before it while AppendFragment is under way      *)
(* (ListOK).  Base never goes back, so that what a client holds either is  *)
(* still in the window, unchanged, or has left it for good and then is no  *)
(* longer listed (ReaderOK).                                               *)
(***************************************************************************)
EXTENDS HlsWindow, FiniteSetTheorems, SequenceTheorems, TLAPS

\* Fragments being filled, and the number of the newest one that is full.
Filling == IF current = None THEN 0 ELSE 1
Newest == fragment_seq_no - 1 - Filling
\* The number before the first one in the window.
Base == Newest - Len(fragments)

\* Where AppendFragment is, and what it still has to do.
StepOK ==
  /\ pc \in {"shrink", "list", "start"} => current = None /\ fragment_seq_no < MaxFragments
  /\ pc = "encode" => current # None
  /\ pc = "shrink" => Len(fragments) <= WindowSize + 1
  /\ pc # "shrink" => Len(fragments) <= WindowSize
  /\ pc \in {"shrink", "list"} => Len(fragments) >= 1

\* The window is the last so many fragments.
SeqOK ==
  /\ Base >= -1
  /\ \A i \in 1 .. Len(fragments) : fragment[fragments[i]].seq = Base + i
  /\ current # None => fragment[current].seq = fragment_seq_no - 1

\* Each object that was ever used is in one place, and there are few of them.
PlaceOK ==
  /\ \A i, j \in 1 .. Len(free_fragments) :
       free_fragments[i] = free_fragments[j] => i = j
  /\ Range(fragments) \cap Range(free_fragments) = {}
  /\ current \notin Range(fragments) \cup Range(free_fragments)
  /\ \A o \in Objects : fragment[o].name # 0 <=>
       o \in Range(fragments) \cup Range(free_fragments) \cup {current}
  /\ Len(fragments) + Len(free_fragments) + Filling <= WindowSize + 1
  /\ Len(fragments) + Len(free_fragments) + Filling <= fragment_seq_no

\* The playlist is one fragment behind until it is written again.
Behind == IF pc \in {"shrink", "list"} THEN 1 ELSE 0
ListOK ==
  playlist # <<>> =>
    /\ MinListed <= WindowSize /\ MinListed <= Len(fragments)
    /\ Len(playlist) = ListSize \/ Len(playlist) >= Len(fragments) - Behind
    /\ IF pc = "list" THEN Newest - Len(playlist) >= Base
                      ELSE Newest - Behind - Len(playlist) >= Base
    /\ \A i \in 1 .. Len(playlist) :
         /\ playlist[i].seq = Newest - Behind - Len(playlist) + i
         /\ \A j \in 1 .. Len(fragments) :
              playlist[i].seq = Base + j => playlist[i] = EntryOf(fragments[j])

\* What a client that nothing has spoiled holds of the window.
Clean(r) == r \notin moved /\ r \notin mistaken
Holds(r) ==
  LET f == fragment[held[r]]
  IN  /\ held[r] \in Range(fragments)
      /\ f.seq = want[r].seq
      /\ request[r] \in {"header", "sent"} => announced[r] = f.count
      /\ request[r] = "sent" => body[r] = [seq |-> f.seq, count |-> f.count]
ClientOK(r) ==
  /\ request[r] = "found" /\ r \notin moved =>
       /\ place[r] \in 1 .. Len(fragments)
       /\ r \notin mistaken => fragment[fragments[place[r]]].seq = want[r].seq
  /\ request[r] \in {"copied", "header", "sent"} =>
       /\ held[r] \in Objects
       /\ Clean(r) => want[r].seq <= Base \/ Holds(r)
ReaderOK == \A r \in Readers : ClientOK(r)

HlsInv == TypeOK /\ StepOK /\ SeqOK /\ PlaceOK /\ ListOK /\ ReaderOK

-----------------------------------------------------------------------------
(* Sequences and objects.                                                  *)

\* The members of a sequence are its elements.
LEMMA RangeIs ==
  ASSUME NEW S, NEW s \in Seq(S)
  PROVE  /\ Range(s) = {s[i] : i \in 1 .. Len(s)} /\ Range(s) \subseteq S
         /\ Len(s) \in Nat /\ \A i \in 1 .. Len(s) : s[i] \in S
         /\ s # <<>> <=> Len(s) > 0
  BY DEF Range

\* AppendFragment and the free list put an object at the end.
LEMMA AppendIs ==
  ASSUME NEW S, NEW s \in Seq(S), NEW e \in S
  PROVE  /\ Append(s, e) \in Seq(S) /\ Len(Append(s, e)) = Len(s) + 1
         /\ \A i \in 1 .. Len(s) : Append(s, e)[i] = s[i]
         /\ Append(s, e)[Len(s) + 1] = e
         /\ Range(Append(s, e)) = Range(s) \cup {e}
<1> DEFINE a == Append(s, e)
<1>1. a \in Seq(S) /\ Len(a) = Len(s) + 1 /\ Len(s) \in Nat
  OBVIOUS
<1>2. (\A i \in 1 .. Len(s) : a[i] = s[i]) /\ a[Len(s) + 1] = e
  OBVIOUS
<1> HIDE DEF a
<1>3. (1 .. Len(a)) = (1 .. Len(s)) \cup {Len(s) + 1}
  BY <1>1
<1>4. Range(a) = {a[i] : i \in 1 .. Len(a)} /\ Range(s) = {s[i] : i \in 1 .. Len(s)}
  BY <1>1, RangeIs
<1>5. Range(a) = Range(s) \cup {e}
  BY <1>2, <1>3, <1>4
<1> QED BY <1>1, <1>2, <1>5 DEF a

\* The first one leaves (Shrink, GetIdleFragment).
LEMMA TailIs ==
  ASSUME NEW S, NEW s \in Seq(S), s # <<>>
  PROVE  /\ Tail(s) \in Seq(S) /\ Len(Tail(s)) = Len(s) - 1 /\ Len(s) \in Nat \ {0}
         /\ \A i \in 1 .. Len(s) - 1 : Tail(s)[i] = s[i + 1]
         /\ Head(s) = s[1] /\ Head(s) \in S
         /\ Range(s) = Range(Tail(s)) \cup {s[1]}
<1> DEFINE a == Tail(s)
<1>1. a \in Seq(S) /\ Len(a) = Len(s) - 1 /\ Len(s) \in Nat \ {0} /\ Head(s) = s[1] /\ Head(s) \in S
  OBVIOUS
<1>2. \A i \in 1 .. Len(s) - 1 : a[i] = s[i + 1]
  OBVIOUS
<1> HIDE DEF a
<1>3. Range(a) = {a[i] : i \in 1 .. Len(a)} /\ Range(s) = {s[i] : i \in 1 .. Len(s)}
  BY <1>1, RangeIs
<1>4. \A i \in 1 .. Len(s) - 1 : i + 1 \in 1 .. Len(s)
  BY <1>1
<1>5. \A i \in 1 .. Len(s) : i = 1 \/ (i - 1 \in 1 .. Len(s) - 1 /\ (i - 1) + 1 = i)
  BY <1>1
<1>6. 1 \in 1 .. Len(s)
  BY <1>1
<1>7. Range(a) \subseteq Range(s) /\ s[1] \in Range(s)
  BY <1>1, <1>2, <1>3, <1>4, <1>6
<1>8. Range(s) \subseteq Range(a) \cup {s[1]}
  <2> SUFFICES ASSUME NEW i \in 1 .. Len(s)
               PROVE  s[i] \in Range(a) \cup {s[1]}
    BY <1>3
  <2>1. i = 1 \/ s[i] = a[i - 1]
    BY <1>2, <1>5
  <2> QED BY <2>1, <1>1, <1>3, <1>5
<1> QED BY <1>1, <1>2, <1>7, <1>8 DEF a

\* What Shrink cuts off and keeps, for none and for one.
LEMMA CutIs ==
  ASSUME NEW S, NEW s \in Seq(S), s # <<>>, NEW t \in Seq(S)
  PROVE  /\ SubSeq(s, 1, 0) = <<>> /\ SubSeq(s, 1, Len(s)) = s
         /\ SubSeq(s, 1, 1) = <<s[1]>> /\ SubSeq(s, 2, Len(s)) = Tail(s)
         /\ t \o <<>> = t /\ t \o <<s[1]>> = Append(t, s[1])
         /\ Range(<<>>) = {} /\ Range(<<s[1]>>) = {s[1]}
<1>1. Len(s) \in Nat \ {0} /\ s[1] \in S
  OBVIOUS
<1>2. SubSeq(s, 1, 0) = <<>>
  OBVIOUS
<1>3. SubSeq(s, 1, Len(s)) = s
  OBVIOUS
<1>4. SubSeq(s, 1, 1) = <<s[1]>>
  <2> DEFINE a == SubSeq(s, 1, 1)
             b == <<s[1]>>
  <2>1. a \in Seq(S) /\ Len(a) = 1 /\ a[1] = s[1]
    BY <1>1
  <2>2. b \in Seq(S) /\ Len(b) = 1 /\ b[1] = s[1]
    BY <1>1
  <2> HIDE DEF a, b
  <2>3. \A i \in 1 .. Len(a) : a[i] = b[i]
    BY <2>1, <2>2
  <2>4. a = b
    BY <2>1, <2>2, <2>3, SeqEqual
  <2> QED BY <2>4 DEF a, b
<1>5. SubSeq(s, 2, Len(s)) = Tail(s)
  BY <1>1
<1>6. t \o <<>> = t
  OBVIOUS
<1>7. t \o <<s[1]>> = Append(t, s[1])
  BY <1>1
<1>8. Range(<<>>) = {} /\ Range(<<s[1]>>) = {s[1]}
  BY DEF Range
<1> QED BY <1>2, <1>3, <1>4, <1>5, <1>6, <1>7, <1>8

\* Fragment::Reset leaves the name.
FragmentState == [seq : Nat, name : Nat, start : Nat \cup {-1}, duration : Nat, count : Nat]
\* Reset keeps an object's name (Fragment::Reset).
LEMMA ResetIs ==
  ASSUME NEW f \in FragmentState
  PROVE  Reset(f) \in FragmentState /\ Reset(f).name = f.name
BY DEF Reset, FragmentState

\* A sequence names no more objects than it is long.
LEMMA RangeSize ==
  ASSUME NEW s \in Seq(Objects)
  PROVE  IsFiniteSet(Range(s)) /\ Cardinality(Range(s)) <= Len(s)
<1>1. Len(s) \in Nat /\ s \in [1 .. Len(s) -> Range(s)]
  BY RangeIs DEF Range
<1>2. s \in Surjection(1 .. Len(s), Range(s))
  BY <1>1, RangeIs DEF Surjection
<1>3. ExistsSurjection(1 .. Len(s), Range(s))
  BY <1>2 DEF ExistsSurjection
<1>4. IsFiniteSet(1 .. Len(s)) /\ Cardinality(1 .. Len(s)) = Len(s)
  BY <1>1, FS_Interval
<1>5. IsFiniteSet(Range(s))
  BY <1>2, <1>4, FS_Surjection
<1> QED BY <1>1, <1>3, <1>5, FS_SurjCardinalityBound

\* The objects in use are at most those in the window, on the free list and at
\* hand, so that there is one more to start a fragment with.
Used == {o \in Objects : fragment[o].name # 0}
\* Every object in use is listed, free, or the one being filled.
LEMMA UsedSize ==
  ASSUME HlsInv
  PROVE  /\ IsFiniteSet(Used)
         /\ Cardinality(Used) <= Len(fragments) + Len(free_fragments) + Filling
<1> DEFINE A == Range(fragments)
           B == Range(free_fragments)
           C == {current} \ {None}
<1>1. fragments \in Seq(Objects) /\ free_fragments \in Seq(Objects)
  BY DEF HlsInv, TypeOK
<1>2. /\ IsFiniteSet(A) /\ Cardinality(A) <= Len(fragments) /\ Len(fragments) \in Nat
      /\ IsFiniteSet(B) /\ Cardinality(B) <= Len(free_fragments) /\ Len(free_fragments) \in Nat
  BY <1>1, RangeSize, RangeIs
<1>3. IsFiniteSet(C) /\ Cardinality(C) = Filling /\ Filling \in Nat
  <2>1. CASE current = None
    BY <2>1, FS_EmptySet DEF Filling
  <2>2. CASE current # None
    <3>1. C = {current}
      BY <2>2
    <3> QED BY <3>1, <2>2, FS_Singleton DEF Filling
  <2> QED BY <2>1, <2>2
<1>4. None \notin Objects
  BY HlsAssumption DEF Objects
<1>5. Used \subseteq (A \cup B) \cup C
  BY <1>4 DEF HlsInv, PlaceOK, Used
<1> HIDE DEF A, B, C
<1>6. IsFiniteSet(A \cup B) /\ Cardinality(A \cup B) <= Cardinality(A) + Cardinality(B)
  <2>1. /\ IsFiniteSet(A \cup B)
        /\ Cardinality(A \cup B) = Cardinality(A) + Cardinality(B) - Cardinality(A \cap B)
    BY <1>2, FS_Union
  <2>2. IsFiniteSet(A \cap B)
    <3>1. A \cap B \in SUBSET A
      OBVIOUS
    <3> QED BY <3>1, <1>2, FS_Subset
  <2> QED BY <2>1, <2>2, <1>2, FS_CardinalityType
<1> DEFINE D == A \cup B
<1>7. IsFiniteSet(D) /\ Cardinality(D) <= Cardinality(A) + Cardinality(B)
  BY <1>6
<1>8. Used \in SUBSET (D \cup C)
  BY <1>5
<1> HIDE DEF D
<1>9. IsFiniteSet(D \cup C) /\ Cardinality(D \cup C) <= Cardinality(D) + Cardinality(C)
  <2>1. /\ IsFiniteSet(D \cup C)
        /\ Cardinality(D \cup C) = Cardinality(D) + Cardinality(C) - Cardinality(D \cap C)
    BY <1>3, <1>7, FS_Union
  <2>2. IsFiniteSet(D \cap C)
    <3>1. D \cap C \in SUBSET D
      OBVIOUS
    <3> QED BY <3>1, <1>7, FS_Subset
  <2> QED BY <2>1, <2>2, <1>3, <1>7, FS_CardinalityType
<1>10. IsFiniteSet(Used) /\ Cardinality(Used) <= Cardinality(D \cup C)
  BY <1>8, <1>9, FS_Subset
<1>11. /\ Cardinality(A) \in Nat /\ Cardinality(B) \in Nat /\ Cardinality(D) \in Nat
       /\ Cardinality(D \cup C) \in Nat /\ Cardinality(Used) \in Nat
  BY <1>2, <1>7, <1>9, <1>10, FS_CardinalityType
<1> QED BY <1>2, <1>3, <1>7, <1>9, <1>10, <1>11

\* GetIdleFragment finds an object that was never used when none is free.
LEMMA IdleObject ==
  ASSUME HlsInv, fragment_seq_no < MaxFragments
  PROVE  \E x \in Objects : fragment[x].name = 0
<1>1. SUFFICES ASSUME \A x \in Objects : fragment[x].name # 0
               PROVE  FALSE
  OBVIOUS
<1>2. Used = Objects
  BY <1>1 DEF Used
<1>3. Cardinality(Objects) = MaxFragments
  BY FS_Interval, HlsAssumption DEF Objects
<1>4. /\ Len(fragments) \in Nat /\ Len(free_fragments) \in Nat /\ Filling \in Nat
      /\ fragment_seq_no \in Nat
      /\ Len(fragments) + Len(free_fragments) + Filling <= fragment_seq_no
  BY DEF HlsInv, TypeOK, PlaceOK, Filling
<1> QED BY <1>2, <1>3, <1>4, UsedSize, HlsAssumption

-----------------------------------------------------------------------------
(* Steps of the publisher's thread.                                        *)

\* Numbers and types that every step needs.
LEMMA Basics ==
  ASSUME HlsInv
  PROVE  /\ fragments \in Seq(Objects) /\ Len(fragments) \in Nat
         /\ free_fragments \in Seq(Objects) /\ Len(free_fragments) \in Nat
         /\ playlist \in Seq(Entry) /\ Len(playlist) \in Nat
         /\ fragment_seq_no \in 0 .. MaxFragments
         /\ Filling \in {0, 1} /\ Newest \in Int /\ Base \in Int
         /\ Behind \in {0, 1}
         /\ None \notin Objects /\ Objects \subseteq Nat
         /\ WindowSize \in Nat \ {0} /\ ListSize \in Nat \ {0} /\ MinListed \in Nat \ {0}
         /\ MaxFragments \in Nat
<1>1. TypeOK
  BY DEF HlsInv
<1>2. fragments \in Seq(Objects) /\ free_fragments \in Seq(Objects) /\ playlist \in Seq(Entry)
  BY <1>1 DEF TypeOK
<1>3. Len(fragments) \in Nat /\ Len(free_fragments) \in Nat /\ Len(playlist) \in Nat
  BY <1>2
<1>4. fragment_seq_no \in 0 .. MaxFragments /\ MaxFragments \in Nat
  BY <1>1, HlsAssumption DEF TypeOK
<1>5. Filling \in {0, 1} /\ Behind \in {0, 1}
  BY DEF Filling, Behind
<1>6. Newest \in Int /\ Base \in Int
  BY <1>3, <1>4, <1>5 DEF Newest, Base
<1>7. None \notin Objects /\ Objects \subseteq Nat
  BY HlsAssumption DEF Objects
<1> QED BY <1>2, <1>3, <1>4, <1>5, <1>6, <1>7, HlsAssumption

\* What is in the window is an object.
LEMMA Members ==
  ASSUME HlsInv
  PROVE  /\ \A i \in 1 .. Len(fragments) :
              fragments[i] \in Objects /\ fragments[i] \in Range(fragments)
         /\ \A i \in 1 .. Len(free_fragments) : free_fragments[i] \in Range(free_fragments)
         /\ Range(fragments) \subseteq Objects /\ Range(free_fragments) \subseteq Objects
BY SMTT(30), Basics, RangeIs

\* What a client holds stays or has left for good, as long as the window only loses
\* its oldest, and references are spoiled when places change.
LEMMA ReadersKept ==
  ASSUME HlsInv, UNCHANGED readerVars, Base' \in Int, Base <= Base',
         \A o \in Range(fragments) :
           \/ o \in Range(fragments)' /\ fragment'[o] = fragment[o]
           \/ fragment[o].seq <= Base',
         moved \subseteq moved',
         \/ Referring \subseteq moved'
         \/ \A i \in 1 .. Len(fragments) :
              /\ i \in 1 .. Len(fragments') /\ fragments'[i] = fragments[i]
              /\ fragment'[fragments[i]] = fragment[fragments[i]]
  PROVE  ReaderOK'
<1>1. ReaderOK /\ TypeOK
  BY DEF HlsInv
<1>2. /\ request' = request /\ want' = want /\ place' = place /\ held' = held
      /\ announced' = announced /\ body' = body /\ mistaken' = mistaken
  BY DEF readerVars
<1> SUFFICES ASSUME NEW r \in Readers
             PROVE  /\ request[r] = "found" /\ r \notin moved' =>
                         /\ place[r] \in 1 .. Len(fragments')
                         /\ r \notin mistaken =>
                              fragment'[fragments'[place[r]]].seq = want[r].seq
                    /\ request[r] \in {"copied", "header", "sent"} =>
                         /\ held[r] \in Objects
                         /\ Clean(r)' => want[r].seq <= Base' \/ Holds(r)'
  BY <1>2 DEF ReaderOK, ClientOK
<1>3. ASSUME request[r] = "found", r \notin moved'
      PROVE  /\ place[r] \in 1 .. Len(fragments')
             /\ r \notin mistaken => fragment'[fragments'[place[r]]].seq = want[r].seq
  <2>1. r \in Referring /\ r \notin moved
    BY <1>3 DEF Referring
  <2>2. /\ place[r] \in 1 .. Len(fragments)
        /\ r \notin mistaken => fragment[fragments[place[r]]].seq = want[r].seq
    BY <1>1, <1>3, <2>1 DEF ReaderOK, ClientOK
  <2> QED BY <1>3, <2>1, <2>2
<1>4. ASSUME request[r] \in {"copied", "header", "sent"}
      PROVE  held[r] \in Objects /\ (Clean(r)' => want[r].seq <= Base' \/ Holds(r)')
  <2>1. held[r] \in Objects /\ (Clean(r) => want[r].seq <= Base \/ Holds(r))
    BY <1>1, <1>4 DEF ReaderOK, ClientOK
  <2>2. Clean(r)' => Clean(r)
    BY <1>2 DEF Clean
  <2>3. want[r].seq \in Nat /\ Base \in Int
    BY <1>1, Basics DEF TypeOK, Entry
  <2>4. CASE Holds(r)
    <3>1. CASE held[r] \in Range(fragments)' /\ fragment'[held[r]] = fragment[held[r]]
      BY <2>1, <2>4, <3>1, <1>2 DEF Holds
    <3>2. CASE fragment[held[r]].seq <= Base'
      BY <2>1, <2>4, <3>2 DEF Holds
    <3> QED BY <2>4, <3>1, <3>2 DEF Holds
  <2>5. CASE want[r].seq <= Base
    BY <2>1, <2>3, <2>5
  <2> QED BY <2>1, <2>2, <2>4, <2>5
<1> QED BY <1>3, <1>4

\* A packet for the fragment at hand, or for the first one, moves nothing.
LEMMA OnPacketStep ==
  ASSUME HlsInv, NEW kind \in Kinds, NEW d \in Dts, OnPacket(kind, d)
  PROVE  HlsInv'
<1>1. TypeOK /\ StepOK /\ SeqOK /\ PlaceOK /\ ListOK /\ ReaderOK
  BY DEF HlsInv
<1>2. /\ UNCHANGED <<current, fragment_seq_no, now, fragment>>
      /\ UNCHANGED <<fragments, capacity, free_fragments, playlist>>
      /\ UNCHANGED <<request, want, place, held, announced, body, mistaken, moved>>
      /\ pc = "idle" /\ packet' = [kind |-> kind, dts |-> d]
      /\ pc' = IF current = None THEN "start" ELSE "encode"
      /\ current = None => fragment_seq_no < MaxFragments
  BY DEF OnPacket, windowVars, readerVars
<1>3. TypeOK'
  BY <1>1, <1>2 DEF TypeOK
<1>4. StepOK'
  BY <1>1, <1>2 DEF StepOK
<1>5. Filling' = Filling /\ Newest' = Newest /\ Base' = Base /\ Behind' = Behind /\ Behind = 0
  BY <1>2 DEF Filling, Newest, Base, Behind
<1>6. SeqOK' /\ PlaceOK'
  BY <1>1, <1>2, <1>5 DEF SeqOK, PlaceOK
<1>7. ListOK'
  BY <1>1, <1>2, <1>5 DEF ListOK, EntryOf
<1>8. ReaderOK'
  BY <1>1, <1>2, <1>5 DEF ReaderOK, ClientOK, Clean, Holds
<1> QED BY <1>3, <1>4, <1>6, <1>7, <1>8 DEF HlsInv

\* The fragment at hand becomes the newest of the window.
LEMMA AppendFragmentStep ==
  ASSUME HlsInv, NEW kind \in Kinds, NEW d \in Dts, AppendFragment(kind, d)
  PROVE  HlsInv'
<1>1. TypeOK /\ StepOK /\ SeqOK /\ PlaceOK /\ ListOK /\ ReaderOK
  BY DEF HlsInv
<1> DEFINE g == Append(fragments, current)
<1>2. /\ UNCHANGED <<fragment_seq_no, now, fragment, free_fragments, playlist>>
      /\ UNCHANGED readerVars
      /\ pc = "idle" /\ pc' = "shrink" /\ packet' = [kind |-> kind, dts |-> d]
      /\ current # None /\ current' = None /\ fragment_seq_no < MaxFragments
      /\ fragments' = g
      /\ \/ capacity' = capacity /\ moved' = moved
         \/ capacity' \in {1, 2 * capacity} /\ moved' = moved \cup Referring
  BY DEF AppendFragment
<1>3. current \in Objects
  BY <1>1, <1>2 DEF TypeOK
<1>4. /\ g \in Seq(Objects) /\ Len(g) = Len(fragments) + 1
      /\ \A i \in 1 .. Len(fragments) : g[i] = fragments[i]
      /\ g[Len(fragments) + 1] = current
      /\ Range(g) = Range(fragments) \cup {current}
  BY <1>3, Basics, AppendIs
<1> HIDE DEF g
<1>5. /\ Filling = 1 /\ Filling' = 0 /\ Newest' = Newest + 1 /\ Base' = Base
      /\ Behind = 0 /\ Behind' = 1
  BY SMTT(30), <1>2, <1>4, Basics DEF Filling, Newest, Base, Behind
<1>6. \A i \in 1 .. Len(g) : i \in 1 .. Len(fragments) \/ i = Len(fragments) + 1
  BY <1>4, Basics
<1>7. TypeOK'
  <2>1. capacity' \in Nat /\ moved' \in SUBSET Readers
    BY <1>1, <1>2 DEF TypeOK, Referring
  <2> QED BY <1>1, <1>2, <1>4, <2>1 DEF TypeOK, readerVars
<1>8. StepOK'
  BY <1>1, <1>2, <1>4, Basics DEF StepOK
<1>9. SeqOK'
  <2>1. fragment[current].seq = Base + (Len(fragments) + 1)
    BY <1>1, <1>2, <1>5, Basics DEF SeqOK, Newest, Base
  <2> QED BY <1>1, <1>2, <1>4, <1>5, <1>6, <2>1 DEF SeqOK
<1>10. PlaceOK'
  <2>1. None \notin Range(g) \cup Range(free_fragments)
    BY <1>4, Members, Basics, <1>3
  <2>2. Range(g) \cap Range(free_fragments) = {}
    BY <1>1, <1>4 DEF PlaceOK
  <2>3. \A o \in Objects :
          fragment[o].name # 0 <=> o \in Range(g) \cup Range(free_fragments) \cup {None}
    BY <1>1, <1>4, Basics DEF PlaceOK
  <2>4. /\ Len(g) + Len(free_fragments) + 0 <= WindowSize + 1
        /\ Len(g) + Len(free_fragments) + 0 <= fragment_seq_no
    BY <1>1, <1>4, <1>5, Basics DEF PlaceOK
  <2>5. \A i, j \in 1 .. Len(free_fragments) : free_fragments[i] = free_fragments[j] => i = j
    BY <1>1 DEF PlaceOK
  <2> QED BY <1>2, <1>5, <2>1, <2>2, <2>3, <2>4, <2>5 DEF PlaceOK
<1>11. ListOK'
  <2>1. ASSUME playlist # <<>>, NEW i \in 1 .. Len(playlist)
        PROVE  playlist[i].seq = Newest - Len(playlist) + i
    BY <1>1, <1>5, <2>1, Basics DEF ListOK
  <2>2. ASSUME playlist # <<>>, NEW i \in 1 .. Len(playlist), NEW j \in 1 .. Len(g),
               playlist[i].seq = Base + j
        PROVE  playlist[i] = EntryOf(g[j])
    <3>1. playlist[i].seq <= Newest
      BY <2>1, <2>2, Basics
    <3>2. j \in 1 .. Len(fragments)
      BY SMTT(30), <1>4, <2>2, <3>1, Basics DEF Base
    <3> QED BY <1>1, <1>4, <2>2, <3>2 DEF ListOK
  <2>3. pc' # "list" /\ UNCHANGED <<playlist, fragment>>
    BY <1>2
  <2>4. \A o : EntryOf(o)' = EntryOf(o)
    BY <2>3 DEF EntryOf
  <2>5. playlist # <<>> =>
          /\ MinListed <= WindowSize /\ MinListed <= Len(g)
          /\ Len(playlist) = ListSize \/ Len(playlist) >= Len(g) - 1
          /\ Newest - Len(playlist) >= Base
    BY <1>1, <1>2, <1>4, <1>5, Basics DEF ListOK
  <2>6. Newest' - Behind' = Newest
    BY <1>5, Basics
  <2>7. playlist' = playlist /\ pc' # "list" /\ fragments' = g /\ Base' = Base
    BY <1>2, <1>5, <2>3
  <2>8. \A i \in 1 .. Len(playlist) : playlist # <<>> =>
          playlist'[i].seq = Newest' - Behind' - Len(playlist) + i
    BY <2>1, <2>6, <2>7
  <2>9. \A i \in 1 .. Len(playlist), j \in 1 .. Len(g) : playlist # <<>> =>
          (playlist'[i].seq = Base + j => playlist'[i] = EntryOf(fragments[j])')
    BY <2>2, <2>4, <2>7
  <2>10. playlist # <<>> =>
          /\ Len(playlist) = ListSize \/ Len(playlist) >= Len(g) - Behind'
          /\ Newest' - Behind' - Len(playlist) >= Base
    BY <1>5, <2>5, <2>6
  <2> QED BY <2>5, <2>7, <2>8, <2>9, <2>10 DEF ListOK
<1>12. ReaderOK'
  <2>1. Range(fragments)' = Range(g)
    BY <1>2
  <2>2. \A i \in 1 .. Len(fragments) :
          /\ i \in 1 .. Len(fragments') /\ fragments'[i] = fragments[i]
          /\ fragment'[fragments[i]] = fragment[fragments[i]]
    BY SMTT(30), <1>2, <1>4, Basics
  <2> QED BY SMTT(30), <1>2, <1>4, <1>5, <2>1, <2>2, Basics, ReadersKept
<1> QED BY <1>7, <1>8, <1>9, <1>10, <1>11, <1>12 DEF HlsInv

\* The oldest fragment is reset and goes to the free list when there are too many.
LEMMA ShrinkStep == ASSUME HlsInv, Shrink PROVE HlsInv'
<1>1. TypeOK /\ StepOK /\ SeqOK /\ PlaceOK /\ ListOK /\ ReaderOK
  BY DEF HlsInv
<1>2. /\ UNCHANGED <<packet, current, fragment_seq_no, now, capacity, playlist>>
      /\ UNCHANGED readerVars
      /\ pc = "shrink" /\ pc' = "list"
  BY DEF Shrink
<1>3. current = None /\ Len(fragments) \in 1 .. WindowSize + 1
  BY <1>1, <1>2, Basics DEF StepOK
<1> DEFINE n == Excess(fragments)
<1>s. /\ fragments' = SubSeq(fragments, n + 1, Len(fragments))
      /\ free_fragments' = free_fragments \o SubSeq(fragments, 1, n)
      /\ fragment' = [o \in Objects |-> IF o \in Range(SubSeq(fragments, 1, n))
                                           THEN Reset(fragment[o]) ELSE fragment[o]]
      /\ moved' = IF n = 0 THEN moved ELSE moved \cup Referring
  BY DEF Shrink
<1>c. /\ SubSeq(fragments, 1, 0) = <<>> /\ SubSeq(fragments, 1, Len(fragments)) = fragments
      /\ SubSeq(fragments, 1, 1) = <<fragments[1]>>
      /\ SubSeq(fragments, 2, Len(fragments)) = Tail(fragments)
      /\ free_fragments \o <<>> = free_fragments
      /\ free_fragments \o <<fragments[1]>> = Append(free_fragments, fragments[1])
      /\ Range(<<>>) = {} /\ Range(<<fragments[1]>>) = {fragments[1]}
      /\ fragments # <<>>
  <2>1. fragments # <<>>
    BY <1>3, Basics
  <2> QED BY <2>1, Basics, CutIs
<1>m. \A o \in Objects : fragment[o] \in FragmentState
  BY <1>1 DEF TypeOK, FragmentState
<1>4. CASE Len(fragments) <= WindowSize
  <2>1. n = 0
    BY <1>4 DEF Excess
  <2>2. n + 1 = 1
    BY <2>1
  <2> HIDE DEF n
  <2>5. /\ fragments' = fragments /\ free_fragments' = free_fragments /\ moved' = moved
        /\ fragment' = [o \in Objects |-> fragment[o]]
    BY <2>1, <2>2, <1>s, <1>c
  <2>6. fragment' = fragment
    BY <1>1, <2>5 DEF TypeOK
  <2>7. TypeOK'
    BY <1>1, <1>2, <2>5, <2>6 DEF TypeOK, readerVars
  <2>8. StepOK'
    BY <1>1, <1>2, <1>4, <2>5, Basics DEF StepOK
  <2>9. Filling' = Filling /\ Newest' = Newest /\ Base' = Base /\ Behind' = Behind /\ Behind = 1
    BY <1>2, <2>5 DEF Filling, Newest, Base, Behind
  <2>10. SeqOK' /\ PlaceOK'
    BY <1>1, <1>2, <2>5, <2>6, <2>9 DEF SeqOK, PlaceOK
  <2>11. ListOK'
    <3>1. \A o : EntryOf(o)' = EntryOf(o)
      BY <2>6 DEF EntryOf
    <3>2. playlist # <<>> => Newest - Len(playlist) >= Base
      BY <1>1, <1>2, <2>9, Basics DEF ListOK
    <3> QED BY <1>1, <1>2, <2>5, <2>9, <3>1, <3>2 DEF ListOK
  <2>12. ReaderOK'
    BY <1>1, <1>2, <2>5, <2>6, <2>9 DEF ReaderOK, ClientOK, Clean, Holds, readerVars
  <2> QED BY <2>7, <2>8, <2>10, <2>11, <2>12 DEF HlsInv
<1>5. CASE Len(fragments) = WindowSize + 1
  <2> DEFINE g == Tail(fragments)
             x == fragments[1]
             h == Append(free_fragments, x)
  <2>1. n = 1 /\ fragments # <<>>
    BY SMTT(30), <1>3, <1>5, <1>c, Basics DEF Excess
  <2>2. n + 1 = 2
    BY <2>1
  <2> HIDE DEF n
  <2>5. /\ fragments' = g /\ free_fragments' = h /\ moved' = moved \cup Referring
        /\ fragment' = [o \in Objects |-> IF o = x THEN Reset(fragment[o]) ELSE fragment[o]]
    BY <2>1, <2>2, <1>s, <1>c
  <2>6. /\ g \in Seq(Objects) /\ Len(g) = Len(fragments) - 1 /\ x \in Objects
        /\ \A i \in 1 .. Len(fragments) - 1 : g[i] = fragments[i + 1]
        /\ Range(fragments) = Range(g) \cup {x}
    BY <2>1, Basics, TailIs
  <2>7. /\ h \in Seq(Objects) /\ Len(h) = Len(free_fragments) + 1
        /\ \A i \in 1 .. Len(free_fragments) : h[i] = free_fragments[i]
        /\ h[Len(free_fragments) + 1] = x
        /\ Range(h) = Range(free_fragments) \cup {x}
    BY <2>6, Basics, AppendIs
  <2> HIDE DEF g, h
  <2>8. x = fragments[1] /\ 1 \in 1 .. Len(fragments) /\ x \in Range(fragments)
    BY <1>3, Basics, Members
  <2> HIDE DEF x
  <2>9. /\ Filling = 0 /\ Filling' = 0 /\ Newest' = Newest /\ Base' = Base + 1
        /\ Behind = 1 /\ Behind' = 1
    BY <1>2, <1>3, <2>5, <2>6, Basics DEF Filling, Newest, Base, Behind
  <2>n. Len(fragments) \in Nat \ {0} /\ Len(free_fragments) \in Nat /\ Base \in Int
    BY <1>3, Basics
  <2>10. \A i \in 1 .. Len(g) : i + 1 \in 1 .. Len(fragments) /\ i + 1 # 1 /\ g[i] = fragments[i + 1]
    BY <2>6, <2>n
  <2>11. \A i \in 1 .. Len(fragments) : i # 1 => fragments[i] # x
    <3> SUFFICES ASSUME NEW i \in 1 .. Len(fragments), i # 1, fragments[i] = x
                 PROVE  FALSE
      OBVIOUS
    <3>1. fragment[fragments[i]].seq = Base + i /\ fragment[fragments[1]].seq = Base + 1
      BY <1>1, <2>8 DEF SeqOK
    <3>2. Base + i # Base + 1
      BY <2>n
    <3> QED BY <3>1, <3>2, <2>8
  <2>12. x \notin Range(g)
    <3>1. Range(g) = {g[i] : i \in 1 .. Len(g)}
      BY <2>6, RangeIs
    <3> QED BY <2>10, <2>11, <3>1
  <2>13. \A o \in Range(g) : o \in Objects /\ o # x /\ fragment'[o] = fragment[o]
    BY <2>5, <2>6, <2>12, Members
  <2>14. \A i \in 1 .. Len(g) : g[i] \in Range(g)
    BY <2>6, RangeIs
  <2>15. TypeOK'
    <3>1. fragment' \in [Objects -> [seq : Nat, name : Nat, start : Nat \cup {-1},
                                     duration : Nat, count : Nat]]
      BY <1>m, <2>5, ResetIs DEF FragmentState
    <3>2. moved' \in SUBSET Readers
      BY <1>1, <2>5 DEF TypeOK, Referring
    <3> QED BY <1>1, <1>2, <2>5, <2>6, <2>7, <3>1, <3>2 DEF TypeOK, readerVars
  <2>16. StepOK'
    BY SMTT(30), <1>1, <1>2, <1>5, <2>5, <2>6, Basics DEF StepOK
  <2>17. SeqOK'
    <3>1. ASSUME NEW i \in 1 .. Len(g)
          PROVE  fragment'[g[i]].seq = Base + 1 + i
      <4>1. fragment[fragments[i + 1]].seq = Base + (i + 1)
        BY <1>1, <2>10 DEF SeqOK
      <4>2. fragment'[g[i]] = fragment[fragments[i + 1]]
        BY <2>10, <2>13, <2>14
      <4> QED BY <4>1, <4>2, <2>n
    <3> QED BY SMTT(30), <1>1, <1>2, <1>3, <2>5, <2>9, <3>1, Basics DEF SeqOK
  <2>18. PlaceOK'
    <3>1. \A i \in 1 .. Len(h) : i \in 1 .. Len(free_fragments) \/ i = Len(free_fragments) + 1
      BY <2>7, Basics
    <3>2. \A i \in 1 .. Len(free_fragments) : free_fragments[i] # x
      BY <1>1, <2>8, Members DEF PlaceOK
    <3>3. \A i, j \in 1 .. Len(h) : h[i] = h[j] => i = j
      BY <1>1, <2>7, <3>1, <3>2 DEF PlaceOK
    <3>4. \A o \in Objects : fragment'[o].name = fragment[o].name
      BY <1>m, <2>5, ResetIs
    <3>5. Range(g) \cap Range(h) = {} /\ current \notin Range(g) \cup Range(h)
      BY <1>1, <2>6, <2>7, <2>8, <2>12 DEF PlaceOK
    <3>6. \A o \in Objects : fragment'[o].name # 0 <=> o \in Range(g) \cup Range(h) \cup {current}
      BY <1>1, <2>6, <2>7, <3>4 DEF PlaceOK
    <3>7. /\ Len(g) + Len(h) + 0 <= WindowSize + 1 /\ Len(g) + Len(h) + 0 <= fragment_seq_no
      BY <1>1, <2>6, <2>7, <2>9, Basics DEF PlaceOK
    <3> QED BY <1>2, <2>5, <2>9, <3>3, <3>5, <3>6, <3>7 DEF PlaceOK
  <2>19. ListOK'
    <3>1. ASSUME playlist # <<>>, NEW i \in 1 .. Len(playlist), NEW j \in 1 .. Len(g),
                 playlist[i].seq = Base + 1 + j
          PROVE  playlist[i] = EntryOf(fragments[j])'
      <4>1. playlist[i].seq = Base + (j + 1)
        BY <3>1, Basics
      <4>2. playlist[i] = EntryOf(fragments[j + 1])
        BY <1>1, <2>10, <3>1, <4>1 DEF ListOK
      <4>3. fragment'[g[j]] = fragment[g[j]] /\ fragments'[j] = g[j]
        BY <2>5, <2>13, <2>14
      <4> QED BY <2>10, <4>2, <4>3 DEF EntryOf
    <3>2. playlist # <<>> =>
            /\ MinListed <= WindowSize
            /\ Len(playlist) = ListSize \/ Len(playlist) >= Len(fragments) - 1
            /\ Newest - 1 - Len(playlist) >= Base
            /\ \A i \in 1 .. Len(playlist) : playlist[i].seq = Newest - 1 - Len(playlist) + i
      BY <1>1, <1>2, <2>9, Basics DEF ListOK
    <3>3. playlist # <<>> =>
            /\ MinListed <= WindowSize /\ MinListed <= Len(g)
            /\ Len(playlist) = ListSize \/ Len(playlist) >= Len(g) - 1
            /\ Newest - Len(playlist) >= Base + 1
      BY SMTT(30), <1>5, <2>6, <3>2, Basics
    <3> QED BY <1>2, <2>5, <2>9, <3>1, <3>2, <3>3 DEF ListOK
  <2>20. ReaderOK'
    <3>1. Range(fragments)' = Range(g)
      BY <2>5
    <3>2. fragment[x].seq = Base + 1
      BY <1>1, <2>8 DEF SeqOK
    <3>3. Base' \in Int /\ Base <= Base' /\ fragment[x].seq <= Base'
      BY <2>9, <3>2, Basics
    <3> QED BY <1>2, <2>5, <2>6, <2>13, <3>1, <3>3, ReadersKept
  <2> QED BY <2>15, <2>16, <2>17, <2>18, <2>19, <2>20 DEF HlsInv
<1> QED BY <1>3, <1>4, <1>5, Basics

\* A playlist is the newest fragments, at most ListSize of them (UpdatePlayList).
LEMMA ListedIs ==
  ASSUME HlsInv, Len(fragments) >= MinListed
  PROVE  LET p == Listed(fragments)
         IN  /\ p \in Seq(Entry) /\ p # <<>>
             /\ Len(p) \in 1 .. Len(fragments)
             /\ Len(p) = ListSize \/ Len(p) = Len(fragments)
             /\ Len(p) <= ListSize
             /\ \A i \in 1 .. Len(p) :
                  LET k == Len(fragments) - Len(p) + i
                  IN  k \in 1 .. Len(fragments) /\ p[i] = EntryOf(fragments[k])
<1> DEFINE first == IF Len(fragments) > ListSize THEN Len(fragments) - ListSize ELSE 0
           m == Len(fragments) - first
           p == Listed(fragments)
<1>1. /\ first \in Nat /\ m \in 1 .. Len(fragments) /\ first = Len(fragments) - m
      /\ m = ListSize \/ m = Len(fragments)
      /\ m <= ListSize
  BY Basics
<1>2. p = [i \in 1 .. m |-> EntryOf(fragments[first + i])]
  BY DEF Listed
<1> HIDE DEF first, m, p
<1>3. \A i \in 1 .. m : first + i \in 1 .. Len(fragments)
  BY <1>1, Basics
<1>4. \A i \in 1 .. m : EntryOf(fragments[first + i]) \in Entry
  <2> TAKE i \in 1 .. m
  <2>1. fragments[first + i] \in Objects
    BY <1>3, Members
  <2> QED BY <2>1 DEF HlsInv, TypeOK, EntryOf, Entry
<1>5. p \in Seq(Entry) /\ Len(p) = m
  BY <1>1, <1>2, <1>4, Basics
<1>6. p # <<>>
  BY <1>1, <1>5
<1> QED BY <1>1, <1>2, <1>3, <1>5, <1>6 DEF p

\* The new playlist ends with the newest fragment.
LEMMA UpdatePlayListStep == ASSUME HlsInv, UpdatePlayList PROVE HlsInv'
<1>1. TypeOK /\ StepOK /\ SeqOK /\ PlaceOK /\ ListOK /\ ReaderOK
  BY DEF HlsInv
<1>2. /\ UNCHANGED <<packet, current, fragment_seq_no, now, fragment>>
      /\ UNCHANGED <<fragments, capacity, free_fragments, moved>>
      /\ UNCHANGED readerVars
      /\ pc = "list" /\ pc' = "start"
      /\ playlist' = IF LongEnough(fragments) THEN Listed(fragments) ELSE playlist
  BY DEF UpdatePlayList
<1>3. LongEnough(fragments) <=> Len(fragments) >= MinListed
  BY DEF LongEnough
<1>4. /\ Filling' = Filling /\ Newest' = Newest /\ Base' = Base /\ Behind' = 0
      /\ Len(fragments) <= WindowSize /\ Newest = Base + Len(fragments)
  BY <1>1, <1>2, Basics DEF Filling, Newest, Base, Behind, StepOK
<1>5. playlist' \in Seq(Entry)
  BY <1>2, <1>3, Basics, ListedIs
<1>6. TypeOK'
  BY <1>1, <1>2, <1>5 DEF TypeOK, readerVars
<1>7. StepOK'
  BY <1>1, <1>2 DEF StepOK
<1>8. SeqOK' /\ PlaceOK'
  BY <1>1, <1>2, <1>4 DEF SeqOK, PlaceOK
<1>9. ReaderOK'
  BY <1>1, <1>2, <1>4 DEF ReaderOK, ClientOK, Clean, Holds, readerVars
<1>10. ListOK'
  <2>1. CASE ~LongEnough(fragments)
    BY <1>1, <1>2, <1>3, <2>1, Basics DEF ListOK
  <2>2. CASE LongEnough(fragments)
    <3> DEFINE p == Listed(fragments)
    <3>1. /\ Len(p) \in 1 .. Len(fragments) /\ (Len(p) = ListSize \/ Len(p) = Len(fragments))
          /\ \A i \in 1 .. Len(p) :
               LET k == Len(fragments) - Len(p) + i
               IN  k \in 1 .. Len(fragments) /\ p[i] = EntryOf(fragments[k])
      BY <1>3, <2>2, ListedIs
    <3>n. /\ Len(p) \in 1 .. Len(fragments) /\ (Len(p) = ListSize \/ Len(p) = Len(fragments))
          /\ Newest \in Int /\ Base \in Int /\ Len(fragments) \in Nat
          /\ Newest = Base + Len(fragments) /\ MinListed <= Len(fragments)
          /\ Len(fragments) <= WindowSize /\ MinListed \in Nat /\ WindowSize \in Nat
      BY <1>3, <1>4, <2>2, <3>1, Basics
    <3>2. playlist' = p
      BY <1>2, <2>2
    <3> HIDE DEF p
    <3>3. /\ MinListed <= WindowSize /\ MinListed <= Len(fragments)
          /\ Len(p) = ListSize \/ Len(p) >= Len(fragments) - 0
          /\ Newest - 0 - Len(p) >= Base
      BY <3>n
    <3>4. ASSUME NEW i \in 1 .. Len(p)
          PROVE  p[i].seq = Newest - 0 - Len(p) + i
      <4>1. p[i] = EntryOf(fragments[Len(fragments) - Len(p) + i])
        BY <3>1
      <4>2. p[i].seq = Base + (Len(fragments) - Len(p) + i)
        BY <1>1, <3>1, <4>1 DEF SeqOK, EntryOf
      <4> QED BY <3>n, <4>2
    <3>5. ASSUME NEW i \in 1 .. Len(p), NEW j \in 1 .. Len(fragments), p[i].seq = Base + j
          PROVE  p[i] = EntryOf(fragments[j])
      <4>1. p[i].seq = Base + (Len(fragments) - Len(p) + i)
        BY <3>n, <3>4
      <4>2. j = Len(fragments) - Len(p) + i
        BY <3>n, <3>5, <4>1
      <4> QED BY <3>1, <4>2
    <3>6. \A o : EntryOf(o)' = EntryOf(o)
      BY <1>2 DEF EntryOf
    <3> QED BY <1>2, <1>4, <3>2, <3>3, <3>4, <3>5, <3>6 DEF ListOK
  <2> QED BY <2>1, <2>2
<1> QED BY <1>6, <1>7, <1>8, <1>9, <1>10 DEF HlsInv

\* What is written into an object that is not in the window changes nothing of the
\* window, the playlist or what clients hold of it.
LEMMA WindowKept ==
  ASSUME HlsInv, UNCHANGED readerVars, UNCHANGED <<fragments, playlist, moved>>,
         Newest' = Newest, Behind = 0, Behind' = 0, pc' # "list",
         \A o \in Range(fragments) : fragment'[o] = fragment[o]
  PROVE  /\ Base' = Base
         /\ \A i \in 1 .. Len(fragments') : fragment'[fragments'[i]].seq = Base' + i
         /\ ListOK' /\ ReaderOK'
<1>1. TypeOK /\ SeqOK /\ ListOK
  BY DEF HlsInv
<1>2. Base' = Base /\ Base \in Int
  BY Basics DEF Base
<1>3. \A i \in 1 .. Len(fragments) :
        /\ fragment'[fragments[i]] = fragment[fragments[i]]
        /\ EntryOf(fragments[i])' = EntryOf(fragments[i])
  BY Members DEF EntryOf
<1>4. \A i \in 1 .. Len(fragments') : fragment'[fragments'[i]].seq = Base' + i
  BY <1>1, <1>2, <1>3 DEF SeqOK
<1>5. ListOK'
  <2>1. pc # "list"
    BY DEF Behind
  <2> QED BY <1>1, <1>2, <1>3, <2>1 DEF ListOK
<1>6. ReaderOK'
  <2>1. \A o \in Range(fragments) : o \in Range(fragments)' /\ fragment'[o] = fragment[o]
    OBVIOUS
  <2>2. \A i \in 1 .. Len(fragments) :
          /\ i \in 1 .. Len(fragments') /\ fragments'[i] = fragments[i]
          /\ fragment'[fragments[i]] = fragment[fragments[i]]
    BY <1>3
  <2> QED BY <1>2, <2>1, <2>2, ReadersKept
<1> QED BY <1>2, <1>4, <1>5, <1>6

\* An object that is in no other place is numbered and filled.
LEMMA StartFragmentStep ==
  ASSUME HlsInv, NEW t, StartFragment(t)
  PROVE  HlsInv'
<1>1. TypeOK /\ StepOK /\ SeqOK /\ PlaceOK /\ ListOK /\ ReaderOK
  BY DEF HlsInv
<1> DEFINE o == IF free_fragments = <<>> THEN CHOOSE x \in Objects : fragment[x].name = 0
                                         ELSE Head(free_fragments)
           h == IF free_fragments = <<>> THEN <<>> ELSE Tail(free_fragments)
<1>2. /\ UNCHANGED <<packet, fragments, capacity, playlist, moved>>
      /\ UNCHANGED readerVars
      /\ pc = "start" /\ pc' = "encode"
      /\ now' = t /\ t \in {now, now + 1} /\ t > 0
      /\ current' = o /\ free_fragments' = h
      /\ fragment' = [fragment EXCEPT ![o] = Fresh(@, t)]
      /\ fragment_seq_no' = fragment_seq_no + 1
  BY DEF StartFragment, Taken
<1>3. current = None /\ fragment_seq_no < MaxFragments
  BY <1>1, <1>2 DEF StepOK
<1>4. /\ o \in Objects /\ h \in Seq(Objects)
      /\ o \notin Range(fragments) /\ o \notin Range(h) /\ Range(h) \subseteq Range(free_fragments)
      /\ Range(free_fragments) \subseteq Range(h) \cup {o}
      /\ \A i, j \in 1 .. Len(h) : h[i] = h[j] => i = j
      /\ Len(h) \in Nat
      /\ Len(h) + 1 = Len(free_fragments) \/ (Len(h) = 0 /\ Len(free_fragments) = 0)
  <2>1. CASE free_fragments = <<>>
    <3>1. \E x \in Objects : fragment[x].name = 0
      BY <1>3, IdleObject
    <3>2. o \in Objects /\ fragment[o].name = 0
      BY <2>1, <3>1
    <3>3. h = <<>> /\ h \in Seq(Objects) /\ Len(h) = 0
      BY <2>1
    <3>4. Range(h) = {} /\ Range(free_fragments) = {}
      BY <2>1, <3>3 DEF Range
    <3>5. o \notin Range(fragments)
      BY <1>1, <3>2 DEF PlaceOK
    <3> QED BY <2>1, <3>2, <3>3, <3>4, <3>5
  <2>2. CASE free_fragments # <<>>
    <3>1. /\ h \in Seq(Objects) /\ Len(h) = Len(free_fragments) - 1
          /\ Len(free_fragments) \in Nat \ {0}
          /\ \A i \in 1 .. Len(free_fragments) - 1 : h[i] = free_fragments[i + 1]
          /\ o = free_fragments[1] /\ o \in Objects
          /\ Range(free_fragments) = Range(h) \cup {o}
      BY <2>2, Basics, TailIs
    <3> HIDE DEF o, h
    <3>2. o \notin Range(fragments)
      BY <1>1, <3>1 DEF PlaceOK
    <3>3. \A i \in 1 .. Len(h) : /\ i + 1 \in 1 .. Len(free_fragments) /\ i + 1 # 1
                                 /\ h[i] = free_fragments[i + 1]
      BY <3>1
    <3>4. \A i \in 1 .. Len(h) : h[i] # o
      BY <1>1, <3>1, <3>3 DEF PlaceOK
    <3>5. Range(h) = {h[i] : i \in 1 .. Len(h)}
      BY <3>1, RangeIs
    <3>6. \A i, j \in 1 .. Len(h) : h[i] = h[j] => i = j
      <4> SUFFICES ASSUME NEW i \in 1 .. Len(h), NEW j \in 1 .. Len(h), h[i] = h[j]
                   PROVE  i = j
        OBVIOUS
      <4>1. i + 1 = j + 1
        BY <1>1, <3>3 DEF PlaceOK
      <4> QED BY <4>1
    <3> QED BY <3>1, <3>2, <3>4, <3>5, <3>6
  <2> QED BY <2>1, <2>2
<1> HIDE DEF o, h
<1>5. /\ t \in Nat /\ t # 0
      /\ Fresh(fragment[o], t) \in FragmentState
      /\ Fresh(fragment[o], t).name = t /\ Fresh(fragment[o], t).seq = fragment_seq_no
  <2>1. fragment[o] \in FragmentState
    BY <1>1, <1>4 DEF TypeOK, FragmentState
  <2>2. t \in Nat /\ t # 0 /\ fragment_seq_no \in Nat
    BY <1>1, <1>2, Basics DEF TypeOK
  <2> QED BY <2>1, <2>2, ResetIs DEF Fresh, FragmentState
<1>6. /\ fragment' \in [Objects -> FragmentState]
      /\ fragment'[o].name = t /\ fragment'[o].seq = fragment_seq_no
      /\ \A x \in Objects : x # o => fragment'[x] = fragment[x]
  BY <1>1, <1>2, <1>4, <1>5 DEF TypeOK, FragmentState
<1>7. Filling = 0 /\ Filling' = 1 /\ Newest' = Newest /\ Behind = 0 /\ Behind' = 0
  <2>1. o # None
    BY <1>4, Basics
  <2> QED BY <1>2, <1>3, <2>1, Basics DEF Filling, Newest, Behind
<1>8. \A x \in Range(fragments) : fragment'[x] = fragment[x]
  BY <1>4, <1>6, Members
<1>9. /\ Base' = Base /\ ListOK' /\ ReaderOK'
      /\ \A i \in 1 .. Len(fragments') : fragment'[fragments'[i]].seq = Base' + i
  BY <1>2, <1>7, <1>8, WindowKept
<1>10. TypeOK'
  <2>1. /\ current' \in Objects \cup {None} /\ fragment_seq_no' \in 0 .. MaxFragments
        /\ now' \in Nat /\ free_fragments' \in Seq(Objects)
    BY <1>2, <1>3, <1>4, <1>5, Basics
  <2>2. fragment' \in [Objects -> [seq : Nat, name : Nat, start : Nat \cup {-1},
                                   duration : Nat, count : Nat]]
    BY <1>6 DEF FragmentState
  <2> QED BY <1>1, <1>2, <2>1, <2>2 DEF TypeOK, readerVars
<1>11. StepOK'
  BY <1>1, <1>2, <1>4, Basics DEF StepOK
<1>12. SeqOK'
  BY <1>1, <1>2, <1>6, <1>9, Basics DEF SeqOK
<1>13. PlaceOK'
  <2>1. Range(fragments) \cap Range(h) = {} /\ o \notin Range(fragments) \cup Range(h)
    BY <1>1, <1>4 DEF PlaceOK
  <2>2. \A x \in Objects : fragment'[x].name # 0 <=> x \in Range(fragments) \cup Range(h) \cup {o}
    <3> TAKE x \in Objects
    <3>1. CASE x = o
      BY <1>5, <1>6, <3>1
    <3>2. CASE x # o
      <4>1. fragment'[x].name = fragment[x].name /\ x # None
        BY <1>6, <3>2, Basics
      <4> QED BY <1>1, <1>3, <1>4, <3>2, <4>1 DEF PlaceOK
    <3> QED BY <3>1, <3>2
  <2>3. /\ Len(fragments) + Len(h) + 1 <= WindowSize + 1
        /\ Len(fragments) + Len(h) + 1 <= fragment_seq_no + 1
    BY SMTT(30), <1>1, <1>2, <1>4, <1>7, Basics DEF PlaceOK, StepOK
  <2> QED BY <1>2, <1>4, <1>7, <2>1, <2>2, <2>3 DEF PlaceOK
<1> QED BY <1>9, <1>10, <1>11, <1>12, <1>13 DEF HlsInv

\* AppendTimeStamp and Write leave the name and the number.
LEMMA WrittenIs ==
  ASSUME NEW f \in FragmentState, NEW d \in Nat
  PROVE  /\ Written(f, d) \in FragmentState
         /\ Written(f, d).name = f.name /\ Written(f, d).seq = f.seq
<1>1. /\ f.start \in Nat \cup {-1} /\ f.count \in Nat /\ f.duration \in Nat
      /\ f.seq \in Nat /\ f.name \in Nat
  BY DEF FragmentState
<1> DEFINE s == IF f.start = -1 \/ d < f.start THEN d ELSE f.start
           u == Duration(f.start, d)
<1>2. s \in Nat \cup {-1} /\ u \in Nat /\ f.count + 1 \in Nat
  BY <1>1 DEF Duration
<1>3. Written(f, d) = [f EXCEPT !.start = s, !.duration = u, !.count = f.count + 1]
  BY DEF Written
<1> HIDE DEF s, u
<1> QED BY <1>1, <1>2, <1>3 DEF FragmentState

\* A packet is written into the fragment at hand.
LEMMA EncodeStep == ASSUME HlsInv, Encode PROVE HlsInv'
<1>1. TypeOK /\ StepOK /\ SeqOK /\ PlaceOK /\ ListOK /\ ReaderOK
  BY DEF HlsInv
<1>2. /\ UNCHANGED <<current, fragment_seq_no, now, fragments, capacity, free_fragments>>
      /\ UNCHANGED <<playlist, moved>>
      /\ UNCHANGED readerVars
      /\ pc = "encode" /\ pc' = "idle" /\ packet' = NoPacket
      /\ fragment' = IF packet.kind = "header" THEN fragment
                     ELSE [fragment EXCEPT ![current] = Written(@, packet.dts)]
  BY DEF Encode, windowVars
<1>3. current \in Objects /\ current \notin Range(fragments)
  BY <1>1, <1>2 DEF StepOK, TypeOK, PlaceOK
<1>4. /\ fragment' \in [Objects -> FragmentState]
      /\ \A x \in Objects : fragment'[x].name = fragment[x].name /\ fragment'[x].seq = fragment[x].seq
      /\ \A x \in Objects : x # current => fragment'[x] = fragment[x]
  <2>1. fragment \in [Objects -> FragmentState]
    BY <1>1 DEF TypeOK, FragmentState
  <2>2. packet.dts \in Nat
    <3>1. packet.dts \in Dts \cup {0}
      BY <1>1 DEF TypeOK
    <3>2. 0 \in Nat /\ \A x \in Dts : x \in Nat
      BY HlsAssumption
    <3> QED BY <3>1, <3>2, Zenon
  <2> DEFINE e == Written(fragment[current], packet.dts)
  <2>3. e \in FragmentState /\ e.name = fragment[current].name /\ e.seq = fragment[current].seq
    BY <1>3, <2>1, <2>2, WrittenIs
  <2>4. fragment' = IF packet.kind = "header" THEN fragment ELSE [fragment EXCEPT ![current] = e]
    BY <1>2
  <2> HIDE DEF e
  <2> QED BY <1>3, <2>1, <2>3, <2>4
<1>5. /\ Filling' = Filling /\ Newest' = Newest /\ Behind = 0 /\ Behind' = 0
  BY <1>2 DEF Filling, Newest, Behind
<1>6. \A x \in Range(fragments) : fragment'[x] = fragment[x]
  BY <1>3, <1>4, Members
<1>7. /\ Base' = Base /\ ListOK' /\ ReaderOK'
      /\ \A i \in 1 .. Len(fragments') : fragment'[fragments'[i]].seq = Base' + i
  <2>1. pc' # "list"
    BY <1>2
  <2> QED BY <1>2, <1>5, <1>6, <2>1, WindowKept
<1>8. TypeOK'
  <2>1. packet' \in [kind : Kinds, dts : Dts \cup {0}]
    BY <1>2 DEF NoPacket, Kinds
  <2>2. fragment' \in [Objects -> [seq : Nat, name : Nat, start : Nat \cup {-1},
                                   duration : Nat, count : Nat]]
    BY <1>4 DEF FragmentState
  <2> QED BY <1>1, <1>2, <2>1, <2>2 DEF TypeOK, readerVars
<1>9. StepOK'
  BY <1>1, <1>2 DEF StepOK
<1>10. SeqOK'
  <2>1. Base' >= -1
    BY <1>1, <1>7 DEF SeqOK
  <2>2. fragment'[current].seq = fragment_seq_no - 1
    BY <1>1, <1>2, <1>3, <1>4 DEF SeqOK, StepOK
  <2> QED BY <1>2, <1>7, <2>1, <2>2 DEF SeqOK
<1>11. PlaceOK'
  BY <1>1, <1>2, <1>4, <1>5 DEF PlaceOK
<1> QED BY <1>7, <1>8, <1>9, <1>10, <1>11 DEF HlsInv

-----------------------------------------------------------------------------
(* Steps of the clients.                                                   *)

\* The part of TypeOK that is about clients.
ReaderTypes ==
  /\ request \in [Readers -> {"idle", "listed", "found", "copied", "header", "sent",
                              "unanswered"}]
  /\ want \in [Readers -> Entry]
  /\ place \in [Readers -> Nat]
  /\ held \in [Readers -> Objects \cup {None}]
  /\ announced \in [Readers -> Nat]
  /\ body \in [Readers -> Bytes]
  /\ moved \in SUBSET Readers /\ mistaken \in SUBSET Readers

\* What a client does leaves the window, the playlist and the other clients alone.
LEMMA OneClient ==
  ASSUME HlsInv, NEW r \in Readers, UNCHANGED <<muxerVars, fragment, windowVars>>,
         ReaderTypes', ClientOK(r)',
         \A q \in Readers \ {r} :
           /\ request'[q] = request[q] /\ want'[q] = want[q] /\ place'[q] = place[q]
           /\ held'[q] = held[q] /\ announced'[q] = announced[q] /\ body'[q] = body[q]
           /\ q \in moved' <=> q \in moved
           /\ q \in mistaken' <=> q \in mistaken
  PROVE  HlsInv'
<1>1. TypeOK /\ StepOK /\ SeqOK /\ PlaceOK /\ ListOK /\ ReaderOK
  BY DEF HlsInv
<1>2. /\ UNCHANGED <<pc, packet, current, fragment_seq_no, now, fragment>>
      /\ UNCHANGED <<fragments, capacity, free_fragments, playlist>>
  BY DEF muxerVars, windowVars
<1>3. TypeOK'
  BY <1>1, <1>2 DEF TypeOK, ReaderTypes
<1>4. Filling' = Filling /\ Newest' = Newest /\ Base' = Base /\ Behind' = Behind
  BY <1>2 DEF Filling, Newest, Base, Behind
<1>5. StepOK' /\ SeqOK' /\ PlaceOK'
  BY <1>1, <1>2, <1>4 DEF StepOK, SeqOK, PlaceOK
<1>6. ListOK'
  BY <1>1, <1>2, <1>4 DEF ListOK, EntryOf
<1>7. ASSUME NEW q \in Readers \ {r} PROVE ClientOK(q)'
  BY <1>1, <1>2, <1>4 DEF ReaderOK, ClientOK, Clean, Holds
<1> QED BY <1>1, <1>3, <1>5, <1>6, <1>7 DEF HlsInv, ReaderOK

\* A client asks for a playlist and picks an entry of it.
LEMMA GetPlayListStep ==
  ASSUME HlsInv, NEW r \in Readers, GetPlayList(r)
  PROVE  HlsInv'
<1>1. TypeOK /\ ReaderTypes
  BY DEF HlsInv, TypeOK, ReaderTypes
<1>2. PICK i \in 1 .. Len(playlist) : want' = [want EXCEPT ![r] = playlist[i]]
  BY DEF GetPlayList
<1>3. playlist[i] \in Entry
  BY Basics
<1>4. /\ UNCHANGED <<muxerVars, fragment, windowVars>>
      /\ UNCHANGED <<place, held, announced, body, moved, mistaken>>
      /\ request' = [request EXCEPT ![r] = "listed"]
  BY DEF GetPlayList
<1>5. ReaderTypes'
  BY <1>1, <1>2, <1>3, <1>4 DEF ReaderTypes
<1>6. request'[r] = "listed"
  BY <1>1, <1>4 DEF ReaderTypes
<1>7. ClientOK(r)'
  BY <1>6 DEF ClientOK
<1> QED BY <1>1, <1>2, <1>4, <1>5, <1>7, OneClient DEF ReaderTypes

\* The reference is to the fragment of that name, or to another one (mistaken).
LEMMA GetFragmentByNameStep ==
  ASSUME HlsInv, NEW r \in Readers, GetFragmentByName(r)
  PROVE  HlsInv'
<1>1. TypeOK /\ ReaderTypes
  BY DEF HlsInv, TypeOK, ReaderTypes
<1>2. PICK i \in Named(want[r].name) :
        /\ place' = [place EXCEPT ![r] = i]
        /\ mistaken' = IF fragment[fragments[i]].seq = want[r].seq THEN mistaken
                       ELSE mistaken \cup {r}
  BY DEF GetFragmentByName
<1>3. i \in 1 .. Len(fragments) /\ i \in Nat
  BY Basics DEF Named
<1>4. /\ UNCHANGED <<muxerVars, fragment, windowVars>>
      /\ UNCHANGED <<want, held, announced, body, moved>>
      /\ request' = [request EXCEPT ![r] = "found"]
  BY DEF GetFragmentByName
<1>5. ReaderTypes'
  BY <1>1, <1>2, <1>3, <1>4 DEF ReaderTypes
<1>6. request'[r] = "found" /\ place'[r] = i
  BY <1>1, <1>2, <1>4 DEF ReaderTypes
<1>7. ClientOK(r)'
  BY <1>2, <1>3, <1>4, <1>6 DEF ClientOK, windowVars
<1> QED BY <1>1, <1>2, <1>4, <1>5, <1>7, OneClient DEF ReaderTypes

\* A request for a fragment that has left the window changes no fragment.
LEMMA NotFoundStep ==
  ASSUME HlsInv, NEW r \in Readers, NotFound(r)
  PROVE  HlsInv'
<1>1. TypeOK /\ ReaderTypes
  BY DEF HlsInv, TypeOK, ReaderTypes
<1>2. /\ UNCHANGED <<muxerVars, fragment, windowVars>>
      /\ UNCHANGED <<want, place, held, announced, body, moved, mistaken>>
      /\ request' = [request EXCEPT ![r] = "unanswered"]
  BY DEF NotFound
<1>3. ReaderTypes' /\ request'[r] = "unanswered"
  BY <1>1, <1>2 DEF ReaderTypes
<1>4. ClientOK(r)'
  BY <1>3 DEF ClientOK
<1> QED BY <1>1, <1>2, <1>3, <1>4, OneClient DEF ReaderTypes

\* Without a move in between, what lies at the place is what was found there.
LEMMA GetFragmentStep ==
  ASSUME HlsInv, NEW r \in Readers, GetFragment(r)
  PROVE  HlsInv'
<1>1. TypeOK /\ ReaderTypes /\ ReaderOK
  BY DEF HlsInv, TypeOK, ReaderTypes
<1>2. PICK o \in IF r \in moved THEN Range(fragments) \cup {None} ELSE {fragments[place[r]]} :
        /\ held' = [held EXCEPT ![r] = o]
        /\ request' = [request EXCEPT ![r] = IF o = None THEN "unanswered" ELSE "copied"]
  BY DEF GetFragment
<1>3. /\ UNCHANGED <<muxerVars, fragment, windowVars>>
      /\ UNCHANGED <<want, place, announced, body, moved, mistaken>>
      /\ request[r] = "found"
  BY DEF GetFragment
<1>4. r \notin moved =>
        /\ place[r] \in 1 .. Len(fragments) /\ o = fragments[place[r]]
        /\ o \in Objects /\ o \in Range(fragments)
        /\ r \notin mistaken => fragment[o].seq = want[r].seq
  BY <1>1, <1>2, <1>3, Members DEF ReaderOK, ClientOK
<1>5. o \in Objects \cup {None}
  BY <1>2, <1>4, Members
<1>6. ReaderTypes' /\ held'[r] = o /\ request'[r] \in {"unanswered", "copied"}
  BY <1>1, <1>2, <1>3, <1>5 DEF ReaderTypes
<1>7. request'[r] = "copied" => o \in Objects
  BY <1>1, <1>2, <1>5 DEF ReaderTypes
<1>8. Clean(r)' /\ request'[r] = "copied" => Holds(r)'
  BY <1>3, <1>4, <1>6 DEF Clean, Holds, windowVars
<1>9. ClientOK(r)'
  BY <1>6, <1>7, <1>8 DEF ClientOK
<1> QED BY <1>1, <1>2, <1>3, <1>6, <1>9, OneClient DEF ReaderTypes

\* The header announces what the fragment has.
LEMMA PostRequestStep ==
  ASSUME HlsInv, NEW r \in Readers, PostRequest(r)
  PROVE  HlsInv'
<1>1. TypeOK /\ ReaderTypes /\ ReaderOK
  BY DEF HlsInv, TypeOK, ReaderTypes
<1>2. /\ UNCHANGED <<muxerVars, fragment, windowVars>>
      /\ UNCHANGED <<want, place, held, body, moved, mistaken>>
      /\ request[r] = "copied" /\ request' = [request EXCEPT ![r] = "header"]
      /\ announced' = [announced EXCEPT ![r] = fragment[held[r]].count]
  BY DEF PostRequest
<1>3. held[r] \in Objects /\ (Clean(r) => want[r].seq <= Base \/ Holds(r))
  BY <1>1, <1>2 DEF ReaderOK, ClientOK
<1>4. fragment[held[r]].count \in Nat
  BY <1>1, <1>3 DEF TypeOK
<1>5. ReaderTypes' /\ announced'[r] = fragment[held[r]].count /\ request'[r] = "header"
  BY <1>1, <1>2, <1>4 DEF ReaderTypes
<1>6. Base' = Base /\ (Clean(r)' <=> Clean(r))
  BY <1>2 DEF Base, Newest, Filling, Clean, muxerVars, windowVars
<1>7. Holds(r) => Holds(r)'
  BY <1>2, <1>5 DEF Holds, windowVars
<1>8. ClientOK(r)'
  BY <1>2, <1>3, <1>5, <1>6, <1>7 DEF ClientOK
<1> QED BY <1>1, <1>2, <1>5, <1>8, OneClient DEF ReaderTypes

\* The body is what the fragment has then, which is the same as before.
LEMMA WriteCompleteStep ==
  ASSUME HlsInv, NEW r \in Readers, WriteComplete(r)
  PROVE  HlsInv'
<1>1. TypeOK /\ ReaderTypes /\ ReaderOK
  BY DEF HlsInv, TypeOK, ReaderTypes
<1> DEFINE b == [seq |-> fragment[held[r]].seq, count |-> fragment[held[r]].count]
<1>2. /\ UNCHANGED <<muxerVars, fragment, windowVars>>
      /\ UNCHANGED <<want, place, held, announced, moved, mistaken>>
      /\ request[r] = "header" /\ request' = [request EXCEPT ![r] = "sent"]
      /\ body' = [body EXCEPT ![r] = b]
  BY DEF WriteComplete
<1>3. held[r] \in Objects /\ (Clean(r) => want[r].seq <= Base \/ Holds(r))
  BY <1>1, <1>2 DEF ReaderOK, ClientOK
<1>4. b \in Bytes
  BY <1>1, <1>3 DEF TypeOK, Bytes
<1>5. ReaderTypes' /\ body'[r] = b /\ request'[r] = "sent"
  BY <1>1, <1>2, <1>4 DEF ReaderTypes
<1>6. Base' = Base /\ (Clean(r)' <=> Clean(r))
  BY <1>2 DEF Base, Newest, Filling, Clean, muxerVars, windowVars
<1>7. Holds(r) => Holds(r)'
  BY <1>2, <1>5 DEF Holds, windowVars
<1>8. ClientOK(r)'
  BY <1>2, <1>3, <1>5, <1>6, <1>7 DEF ClientOK
<1> QED BY <1>1, <1>2, <1>5, <1>8, OneClient DEF ReaderTypes

\* The client turns to its next request.
LEMMA NextRequestStep ==
  ASSUME HlsInv, NEW r \in Readers, NextRequest(r)
  PROVE  HlsInv'
<1>1. TypeOK /\ ReaderTypes
  BY DEF HlsInv, TypeOK, ReaderTypes
<1>2. /\ UNCHANGED <<muxerVars, fragment, windowVars>>
      /\ request' = [request EXCEPT ![r] = "idle"]
      /\ want' = [want EXCEPT ![r] = NoEntry] /\ place' = [place EXCEPT ![r] = 0]
      /\ held' = [held EXCEPT ![r] = None] /\ announced' = [announced EXCEPT ![r] = 0]
      /\ body' = [body EXCEPT ![r] = NoBytes]
      /\ moved' = moved \ {r} /\ mistaken' = mistaken \ {r}
  BY DEF NextRequest
<1>3. NoEntry \in Entry /\ NoBytes \in Bytes
  BY DEF NoEntry, Entry, NoBytes, Bytes
<1>4. ReaderTypes' /\ request'[r] = "idle"
  BY <1>1, <1>2, <1>3 DEF ReaderTypes
<1>5. ClientOK(r)'
  BY <1>4 DEF ClientOK
<1> QED BY <1>1, <1>2, <1>4, <1>5, OneClient DEF ReaderTypes

-----------------------------------------------------------------------------
(* The invariant.                                                          *)

\* The muxer before its first packet.
LEMMA InitOK == Init => HlsInv
<1> SUFFICES ASSUME Init PROVE HlsInv
  OBVIOUS
<1>1. Range(fragments) = {} /\ Range(free_fragments) = {} /\ Len(fragments) = 0 /\ Len(free_fragments) = 0
  BY DEF Init, Range
<1>2. TypeOK
  <2>1. NoEntry \in Entry /\ NoBytes \in Bytes /\ None \in Objects \cup {None}
    BY DEF NoEntry, Entry, NoBytes, Bytes
  <2>2. packet \in [kind : Kinds, dts : Dts \cup {0}]
    BY DEF Init, NoPacket, Kinds
  <2>3. fragment_seq_no \in 0 .. MaxFragments
    BY HlsAssumption DEF Init
  <2> QED BY <2>1, <2>2, <2>3 DEF Init, TypeOK
<1>3. Filling = 0 /\ Newest = -1 /\ Base = -1
  BY <1>1 DEF Init, Filling, Newest, Base
<1>4. StepOK
  BY <1>1, HlsAssumption DEF Init, StepOK
<1>5. SeqOK
  BY <1>1, <1>3 DEF Init, SeqOK
<1>6. PlaceOK
  <2>1. None \notin Objects
    BY HlsAssumption DEF Objects
  <2> QED BY <1>1, <1>3, <2>1, HlsAssumption DEF Init, PlaceOK
<1>7. ListOK /\ ReaderOK
  BY DEF Init, ListOK, ReaderOK, ClientOK
<1> QED BY <1>2, <1>4, <1>5, <1>6, <1>7 DEF HlsInv

\* Every step of the muxer and of a client keeps the invariant.
LEMMA NextOK == HlsInv /\ [Next]_vars => HlsInv'
<1> SUFFICES ASSUME HlsInv, [Next]_vars PROVE HlsInv'
  OBVIOUS
<1>1. ASSUME NEW kind \in Kinds, NEW d \in Dts, OnPacket(kind, d) \/ AppendFragment(kind, d)
      PROVE  HlsInv'
  BY <1>1, OnPacketStep, AppendFragmentStep
<1>2. CASE Shrink
  BY <1>2, ShrinkStep
<1>3. CASE UpdatePlayList
  BY <1>3, UpdatePlayListStep
<1>4. CASE Encode
  BY <1>4, EncodeStep
<1>5. ASSUME NEW t \in {now, now + 1}, StartFragment(t)
      PROVE  HlsInv'
  BY <1>5, StartFragmentStep
<1>6. ASSUME NEW r \in Readers,
             \/ GetPlayList(r) \/ GetFragmentByName(r) \/ NotFound(r) \/ GetFragment(r)
             \/ PostRequest(r) \/ WriteComplete(r) \/ NextRequest(r)
      PROVE  HlsInv'
  BY <1>6, GetPlayListStep, GetFragmentByNameStep, NotFoundStep, GetFragmentStep,
     PostRequestStep, WriteCompleteStep, NextRequestStep
<1>7. CASE UNCHANGED vars
  <2>1. /\ UNCHANGED <<pc, packet, current, fragment_seq_no, now, fragment>>
        /\ UNCHANGED <<fragments, capacity, free_fragments, playlist>>
        /\ UNCHANGED <<request, want, place, held, announced, body, mistaken, moved>>
    BY <1>7 DEF vars, muxerVars, windowVars, readerVars
  <2>2. TypeOK /\ StepOK /\ SeqOK /\ PlaceOK /\ ListOK /\ ReaderOK
    BY DEF HlsInv
  <2>3. Filling' = Filling /\ Newest' = Newest /\ Base' = Base /\ Behind' = Behind
    BY <2>1 DEF Filling, Newest, Base, Behind
  <2>4. TypeOK'
    BY <2>1, <2>2 DEF TypeOK
  <2>5. StepOK' /\ SeqOK' /\ PlaceOK'
    BY <2>1, <2>2, <2>3 DEF StepOK, SeqOK, PlaceOK
  <2>6. ListOK' /\ ReaderOK'
    BY <2>1, <2>2, <2>3 DEF ListOK, EntryOf, ReaderOK, ClientOK, Clean, Holds
  <2> QED BY <2>4, <2>5, <2>6 DEF HlsInv
<1> QED BY <1>1, <1>2, <1>3, <1>4, <1>5, <1>6, <1>7 DEF Next

\* Fragments, playlist and clients are consistent whatever the packets and the
\* clients do, told by sequence numbers (FragmentWindow::AppendFragment, Shrink,
\* UpdatePlayList, GetIdleFragment, GetFragmentByName).
THEOREM WindowCorrect == Spec => []HlsInv
<1>1. Init => HlsInv
  BY InitOK
<1>2. HlsInv /\ [Next]_vars => HlsInv'
  BY NextOK
<1> QED BY <1>1, <1>2, PTL DEF Spec

-----------------------------------------------------------------------------
(* What follows from it.                                                   *)

\* The window and the free list together name no object twice.
LEMMA RecycledOK == HlsInv => FragmentsRecycled
<1> SUFFICES ASSUME HlsInv PROVE FragmentsRecycled
  OBVIOUS
<1>1. TypeOK /\ StepOK /\ SeqOK /\ PlaceOK
  BY DEF HlsInv
<1> DEFINE all == fragments \o free_fragments
           n == Len(fragments)
           m == Len(free_fragments)
<1>2. /\ all \in Seq(Objects) /\ Len(all) = n + m /\ n \in Nat /\ m \in Nat
      /\ \A i \in 1 .. n + m : all[i] = IF i <= n THEN fragments[i] ELSE free_fragments[i - n]
  BY Basics, ConcatProperties
<1> HIDE DEF all
<1>3. \A i, j \in 1 .. n : fragments[i] = fragments[j] => i = j
  <2> SUFFICES ASSUME NEW i \in 1 .. n, NEW j \in 1 .. n, fragments[i] = fragments[j]
               PROVE  i = j
    OBVIOUS
  <2>1. Base + i = Base + j
    BY <1>1 DEF SeqOK
  <2> QED BY <2>1, Basics
<1>4. \A i \in 1 .. n + m : \/ i \in 1 .. n /\ all[i] = fragments[i] /\ all[i] \in Range(fragments)
                            \/ /\ i - n \in 1 .. m /\ ~(i \in 1 .. n)
                               /\ all[i] = free_fragments[i - n] /\ all[i] \in Range(free_fragments)
  <2> TAKE i \in 1 .. n + m
  <2>1. CASE i <= n
    <3>1. i \in 1 .. n /\ all[i] = fragments[i]
      BY <1>2, <2>1
    <3> QED BY <3>1, Members
  <2>2. CASE ~(i <= n)
    <3>1. i - n \in 1 .. m /\ all[i] = free_fragments[i - n] /\ ~(i \in 1 .. n)
      BY <1>2, <2>2
    <3> QED BY <3>1, Members
  <2> QED BY <2>1, <2>2
<1>5. \A i, j \in 1 .. n + m : all[i] = all[j] => i = j
  <2> SUFFICES ASSUME NEW i \in 1 .. n + m, NEW j \in 1 .. n + m, all[i] = all[j]
               PROVE  i = j
    OBVIOUS
  <2>1. CASE i \in 1 .. n /\ j \in 1 .. n
    BY <1>3, <1>4, <2>1
  <2>2. CASE ~(i \in 1 .. n) /\ ~(j \in 1 .. n)
    <3>1. /\ i - n \in 1 .. m /\ j - n \in 1 .. m
          /\ free_fragments[i - n] = free_fragments[j - n]
      BY <1>4, <2>2
    <3>2. i - n = j - n
      BY <1>1, <3>1 DEF PlaceOK
    <3> QED BY <1>2, <3>2
  <2>3. CASE (i \in 1 .. n) # (j \in 1 .. n)
    BY <1>1, <1>4, <2>3 DEF PlaceOK
  <2> QED BY <2>1, <2>2, <2>3
<1>6. Cardinality(Range(all)) = Len(all)
  <2>1. Range(all) = {all[i] : i \in 1 .. n + m} /\ all \in [1 .. n + m -> Objects]
    BY <1>2, RangeIs
  <2>2. all \in [1 .. n + m -> Range(all)]
    BY <2>1
  <2>3. all \in Bijection(1 .. n + m, Range(all))
    BY <1>2, <1>5, <2>1, <2>2 DEF Bijection, Injection, IsInjective, Surjection
  <2>4. ExistsBijection(1 .. n + m, Range(all))
    BY <2>3 DEF ExistsBijection
  <2>5. IsFiniteSet(1 .. n + m) /\ Cardinality(1 .. n + m) = n + m
    BY <1>2, FS_Interval
  <2> QED BY <1>2, <2>4, <2>5, FS_Bijection
<1>7. current \notin Range(all)
  <2>1. Range(all) = {all[i] : i \in 1 .. n + m}
    BY <1>2, RangeIs
  <2> QED BY <1>1, <1>4, <2>1 DEF PlaceOK
<1>8. \A i \in 2 .. n : fragment[fragments[i]].seq = fragment[fragments[i - 1]].seq + 1
  <2> TAKE i \in 2 .. n
  <2>1. i \in 1 .. n /\ i - 1 \in 1 .. n
    BY <1>2
  <2>2. fragment[fragments[i]].seq = Base + i /\ fragment[fragments[i - 1]].seq = Base + (i - 1)
    BY <1>1, <2>1 DEF SeqOK
  <2> QED BY <2>2, Basics
<1>9. Cardinality({o \in Objects : fragment[o].name # 0}) <= WindowSize + 1
  <2>1. n + m + Filling <= WindowSize + 1
    BY <1>1 DEF PlaceOK
  <2>2. Cardinality(Used) \in Nat /\ Cardinality(Used) <= n + m + Filling
    BY UsedSize, FS_CardinalityType
  <2>3. Cardinality(Used) <= WindowSize + 1
    BY <1>2, <2>1, <2>2, Basics
  <2> QED BY <2>3 DEF Used
<1> QED BY <1>6, <1>7, <1>8, <1>9 DEF FragmentsRecycled, all

\* An entry of the playlist is at its place in the window.
LEMMA EntryPlace ==
  ASSUME HlsInv, NEW i \in 1 .. Len(playlist), i # 1 \/ pc # "list"
  PROVE  \E j \in 1 .. Len(fragments) :
           playlist[i].seq = Base + j /\ playlist[i] = EntryOf(fragments[j])
<1>1. ListOK /\ playlist # <<>>
  BY Basics DEF HlsInv
<1>2. /\ playlist[i].seq = Newest - Behind - Len(playlist) + i
      /\ IF pc = "list" THEN Newest - Len(playlist) >= Base
                        ELSE Newest - Behind - Len(playlist) >= Base
      /\ \A j \in 1 .. Len(fragments) :
           playlist[i].seq = Base + j => playlist[i] = EntryOf(fragments[j])
  BY <1>1 DEF ListOK
<1>3. /\ Newest \in Int /\ Base \in Int /\ Newest = Base + Len(fragments)
      /\ Behind \in {0, 1} /\ Len(fragments) \in Nat /\ Len(playlist) \in Nat
  BY Basics DEF Base
<1> DEFINE j == playlist[i].seq - Base
<1>4. j \in 1 .. Len(fragments) /\ playlist[i].seq = Base + j
  BY SMTT(30), <1>2, <1>3
<1> QED BY <1>2, <1>4

\* A listed entry is a fragment of the window, but for the oldest before the list is renewed.
LEMMA ServedOK == HlsInv => PlaylistServed
<1> SUFFICES ASSUME HlsInv, NEW i \in 1 .. Len(playlist)
             PROVE  \/ \E j \in 1 .. Len(fragments) : EntryOf(fragments[j]) = playlist[i]
                    \/ i = 1 /\ pc = "list"
  BY DEF PlaylistServed
<1>1. CASE i = 1 /\ pc = "list"
  BY <1>1
<1>2. CASE i # 1 \/ pc # "list"
  <2>1. PICK j \in 1 .. Len(fragments) : playlist[i] = EntryOf(fragments[j])
    BY <1>2, EntryPlace
  <2> QED BY <2>1
<1> QED BY <1>1, <1>2

\* UpdatePlayList is the only step that writes the playlist, and the new one ends
\* one fragment further.
LEMMA AdvanceStep ==
  ASSUME HlsInv, [Next]_vars, playlist' # playlist, playlist # <<>>
  PROVE  /\ playlist'[Len(playlist')].seq = playlist[Len(playlist)].seq + 1
         /\ playlist'[1].seq >= playlist[1].seq
         /\ \A i \in 1 .. Len(playlist), j \in 1 .. Len(playlist') :
              playlist[i].seq = playlist'[j].seq => playlist[i] = playlist'[j]
<1>1. ListOK /\ SeqOK
  BY DEF HlsInv
<1>2. UpdatePlayList
  BY DEF Next, vars, windowVars, OnPacket, AppendFragment, Shrink, Encode, StartFragment,
     GetPlayList, GetFragmentByName, NotFound, GetFragment, PostRequest, WriteComplete, NextRequest
<1> DEFINE p == Listed(fragments)
<1>3. pc = "list" /\ playlist' = p /\ Len(fragments) >= MinListed
  BY <1>2 DEF UpdatePlayList, LongEnough
<1>4. /\ Len(p) \in 1 .. Len(fragments) /\ Len(p) <= ListSize
      /\ \A i \in 1 .. Len(p) :
           LET k == Len(fragments) - Len(p) + i
           IN  k \in 1 .. Len(fragments) /\ p[i] = EntryOf(fragments[k])
  BY <1>3, ListedIs
<1> HIDE DEF p
<1>5. /\ Newest \in Int /\ Base \in Int /\ Newest = Base + Len(fragments) /\ Behind = 1
      /\ Len(fragments) \in Nat /\ Len(playlist) \in Nat \ {0} /\ ListSize \in Nat
  BY <1>3, Basics DEF Base, Behind
<1>6. \A j \in 1 .. Len(p) : p[j].seq = Newest - Len(p) + j
  <2> TAKE j \in 1 .. Len(p)
  <2> DEFINE k == Len(fragments) - Len(p) + j
  <2>1. k \in 1 .. Len(fragments) /\ p[j] = EntryOf(fragments[k])
    BY <1>4
  <2>2. k = Len(fragments) - Len(p) + j
    OBVIOUS
  <2> HIDE DEF k
  <2>3. p[j].seq = Base + k
    BY <1>1, <2>1 DEF SeqOK, EntryOf
  <2> QED BY <1>4, <1>5, <2>2, <2>3
<1>7. /\ \A i \in 1 .. Len(playlist) : playlist[i].seq = Newest - 1 - Len(playlist) + i
      /\ Len(playlist) = ListSize \/ Len(playlist) >= Len(fragments) - 1
  BY <1>1, <1>5 DEF ListOK
<1>8. p[Len(p)].seq = playlist[Len(playlist)].seq + 1
  <2>1. Len(p) \in 1 .. Len(p) /\ Len(playlist) \in 1 .. Len(playlist)
    BY <1>4, <1>5
  <2>2. /\ p[Len(p)].seq = Newest - Len(p) + Len(p)
        /\ playlist[Len(playlist)].seq = Newest - 1 - Len(playlist) + Len(playlist)
    BY <1>6, <1>7, <2>1
  <2> QED BY <1>4, <1>5, <2>2
<1>9. p[1].seq >= playlist[1].seq
  <2>1. p[1].seq = Newest - Len(p) + 1 /\ playlist[1].seq = Newest - 1 - Len(playlist) + 1
    BY <1>4, <1>5, <1>6, <1>7
  <2>2. Len(p) <= Len(playlist) + 1
    BY <1>4, <1>5, <1>7
  <2> QED BY <1>4, <1>5, <2>1, <2>2
<1>10. ASSUME NEW i \in 1 .. Len(playlist), NEW j \in 1 .. Len(p), playlist[i].seq = p[j].seq
       PROVE  playlist[i] = p[j]
  <2> DEFINE k == Len(fragments) - Len(p) + j
  <2>1. k \in 1 .. Len(fragments) /\ p[j] = EntryOf(fragments[k])
    BY <1>4
  <2>2. playlist[i].seq = Base + k
    BY <1>4, <1>5, <1>6, <1>10
  <2> HIDE DEF k
  <2>3. playlist[i] = EntryOf(fragments[k])
    BY <1>1, <2>1, <2>2, <1>5 DEF ListOK
  <2> QED BY <2>1, <2>3
<1> QED BY <1>3, <1>8, <1>9, <1>10

\* What a client that polls relies on: each fragment object is in one place and
\* there are at most WindowSize + 1 of them, what the playlist lists is in the window
\* as it is listed (but for its oldest entry while AppendFragment is between Shrink
\* and UpdatePlayList), and a new playlist goes one fragment further and changes
\* nothing that the one before listed.
THEOREM PlaylistCorrect == Spec => PlaylistReliable
<1>1. HlsInv => TypeOK /\ FragmentsRecycled /\ PlaylistServed
  BY RecycledOK, ServedOK DEF HlsInv
<1>2. HlsInv /\ [Next]_vars =>
        [playlist' # playlist /\ playlist # <<>> =>
           /\ playlist'[Len(playlist')].seq = playlist[Len(playlist)].seq + 1
           /\ playlist'[1].seq >= playlist[1].seq
           /\ \A i \in 1 .. Len(playlist), j \in 1 .. Len(playlist') :
                playlist[i].seq = playlist'[j].seq => playlist[i] = playlist'[j]]_vars
  BY AdvanceStep
<1>3. Spec => [](TypeOK /\ FragmentsRecycled /\ PlaylistServed)
  BY <1>1, WindowCorrect, PTL
<1>4. Spec => PlaylistAdvances
  BY <1>2, WindowCorrect, PTL DEF Spec, PlaylistAdvances
<1> QED BY <1>3, <1>4 DEF PlaylistReliable

\* What the invariant says of an answer whose entry is still listed.
LEMMA AskedOK == HlsInv => ServedAsAsked
<1> SUFFICES ASSUME HlsInv, NEW r \in Readers, request[r] = "sent",
                    want[r] \in Range(playlist), ~(pc = "list" /\ want[r] = playlist[1]),
                    Clean(r)
             PROVE  /\ body[r].seq = want[r].seq
                    /\ announced[r] = body[r].count
                    /\ \A j \in 1 .. Len(fragments) :
                         fragment[fragments[j]].seq = want[r].seq =>
                           body[r].count = fragment[fragments[j]].count
  BY DEF ServedAsAsked, Clean
<1>1. PICK i \in 1 .. Len(playlist) : want[r] = playlist[i]
  <2>1. Range(playlist) = {playlist[i] : i \in 1 .. Len(playlist)}
    BY Basics, RangeIs
  <2> QED BY <2>1
<1>2. PICK k \in 1 .. Len(fragments) : want[r].seq = Base + k
  BY <1>1, EntryPlace
<1>3. ~(want[r].seq <= Base)
  BY <1>2, Basics
<1>4. Holds(r)
  BY <1>3 DEF HlsInv, ReaderOK, ClientOK
<1> DEFINE f == fragment[held[r]]
<1>5. /\ held[r] \in Range(fragments) /\ f.seq = want[r].seq /\ announced[r] = f.count
      /\ body[r] = [seq |-> f.seq, count |-> f.count]
  BY <1>4 DEF Holds
<1>6. PICK l \in 1 .. Len(fragments) : held[r] = fragments[l]
  <2>1. Range(fragments) = {fragments[l] : l \in 1 .. Len(fragments)}
    BY Basics, RangeIs
  <2> QED BY <1>5, <2>1
<1>7. ASSUME NEW j \in 1 .. Len(fragments), fragment[fragments[j]].seq = want[r].seq
      PROVE  body[r].count = fragment[fragments[j]].count
  <2>1. Base + j = Base + l
    BY <1>5, <1>6, <1>7 DEF HlsInv, SeqOK
  <2>2. j = l
    BY <2>1, Basics
  <2> QED BY <1>5, <1>6, <2>2
<1> QED BY <1>5, <1>7

\* A client is sent the whole fragment it asked for, and of the length the header
\* announced, as long as the playlist lists it, unless the vector moved between
\* GetFragmentByName and the copy, or two fragments share a name.
THEOREM ServedCorrect == Spec => []ServedAsAsked
<1>1. HlsInv => ServedAsAsked
  BY AskedOK
<1> QED BY <1>1, WindowCorrect, PTL
=============================================================================
