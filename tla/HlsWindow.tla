----------------------------- MODULE HlsWindow -----------------------------
(***************************************************************************)
(* The HLS side of a stream: the publisher's thread cuts packets into      *)
(* fragments, keeps a window of them and writes the playlist               *)
(* (mmedia/hls/HLSMuxer.cpp, FragmentWindow.cpp, Fragment.cpp), while HTTP *)
(* connections on other threads fetch the playlist and the fragments it    *)
(* lists (LiveService::OnRequest, HttpContext::PostRequest).               *)
(*                                                                         *)
(* Fragment objects are recycled: one that leaves the window is reset, put *)
(* on the free list and filled again, whoever still holds it.  lock_       *)
(* guards each call of the window and not what the caller does with its    *)
(* result.                                                                 *)
(*                                                                         *)
(* The bytes of a fragment are abstracted to the sequence number they were *)
(* written under and how many packets they hold; its buffer is taken to be *)
(* large enough never to be replaced.                                      *)
(***************************************************************************)
EXTENDS Integers, Sequences, FiniteSets, Functions

CONSTANTS
  Readers,       \* HTTP connections that play over HLS
  WindowSize,    \* window_size_ (5)
  ListSize,      \* fragments a playlist shows at most (5)
  MinListed,     \* fragments before there is a playlist (3)
  MinFragment,   \* min_fragment_size_ (3000 ms)
  MaxFragment,   \* max_fragment_size_ (12000 ms)
  Dts,           \* timestamps of packets
  MaxFragments,  \* bound: fragments started
  MaxPackets,    \* bound: packets in one fragment
  None

ASSUME HlsAssumption ==
  /\ WindowSize \in Nat \ {0} /\ ListSize \in Nat \ {0} /\ MinListed \in Nat \ {0}
  /\ MinFragment \in Nat \ {0} /\ MaxFragment \in Nat
  /\ Dts \subseteq Nat
  /\ MaxFragments \in Nat /\ MaxPackets \in Nat
  /\ None \notin Nat

VARIABLES
  \* HLSMuxer, on the publisher's thread: where OnPacket is, the packet at hand,
  \* current_fragment_, fragment_seq_no_ and the clock that names fragments.
  pc, packet, current, fragment_seq_no, now,
  \* Fragment objects.
  fragment,
  \* FragmentWindow: fragments_ and the capacity of that vector, free_fragments_,
  \* playlist_.
  fragments, capacity, free_fragments, playlist,
  \* Readers: where each request is, the playlist entry it asks for, the place of
  \* the reference GetFragmentByName returned, the fragment copied from it, the
  \* length announced in the header and the body sent.
  request, want, place, held, announced, body,
  \* History: readers whose reference the window moved under them, and those that
  \* were given another fragment of the same name.
  moved, mistaken

muxerVars == <<pc, packet, current, fragment_seq_no, now>>
windowVars == <<fragments, capacity, free_fragments, playlist>>
readerVars == <<request, want, place, held, announced, body, mistaken>>
vars == <<muxerVars, fragment, windowVars, readerVars, moved>>

Kinds == {"header", "key", "inter"}
Objects == 1 .. MaxFragments
Entry == [seq : Nat, name : Nat, duration : Nat]
Bytes == [seq : Nat, count : Nat]

NoPacket == [kind |-> "inter", dts |-> 0]
NoEntry == [seq |-> 0, name |-> 0, duration |-> 0]
NoBytes == [seq |-> 0, count |-> 0]

TypeOK ==
  /\ pc \in {"idle", "shrink", "list", "start", "encode"}
  /\ packet \in [kind : Kinds, dts : Dts \cup {0}]
  /\ current \in Objects \cup {None}
  /\ fragment_seq_no \in 0 .. MaxFragments
  /\ now \in Nat
  /\ fragment \in [Objects -> [seq : Nat, name : Nat, start : Nat \cup {-1},
                               duration : Nat, count : Nat]]
  /\ fragments \in Seq(Objects) /\ free_fragments \in Seq(Objects)
  /\ capacity \in Nat
  /\ playlist \in Seq(Entry)
  /\ request \in [Readers -> {"idle", "listed", "found", "copied", "header", "sent",
                              "unanswered"}]
  /\ want \in [Readers -> Entry]
  /\ place \in [Readers -> Nat]
  /\ held \in [Readers -> Objects \cup {None}]
  /\ announced \in [Readers -> Nat]
  /\ body \in [Readers -> Bytes]
  /\ moved \in SUBSET Readers /\ mistaken \in SUBSET Readers

Init ==
  /\ pc = "idle" /\ packet = NoPacket
  /\ current = None /\ fragment_seq_no = 0 /\ now = 0
  /\ fragment = [o \in Objects |->
       [seq |-> 0, name |-> 0, start |-> -1, duration |-> 0, count |-> 0]]
  /\ fragments = <<>> /\ capacity = 0 /\ free_fragments = <<>> /\ playlist = <<>>
  /\ request = [r \in Readers |-> "idle"]
  /\ want = [r \in Readers |-> NoEntry]
  /\ place = [r \in Readers |-> 0]
  /\ held = [r \in Readers |-> None]
  /\ announced = [r \in Readers |-> 0]
  /\ body = [r \in Readers |-> NoBytes]
  /\ moved = {} /\ mistaken = {}

\* Readers that hold a reference into fragments_, outside the lock.
Referring == {r \in Readers : request[r] = "found"}

-----------------------------------------------------------------------------
(* The publisher's thread: HLSMuxer::OnPacket.                             *)

\* A video codec header has the key-frame flag as well.
IsKeyFrame(kind) == kind \in {"key", "header"}

Full(kind) ==
  \/ IsKeyFrame(kind) /\ fragment[current].duration >= MinFragment
  \/ fragment[current].duration > MaxFragment

\* The packet goes into the fragment at hand.
OnPacket(kind, d) ==
  /\ pc = "idle"
  /\ current # None => ~Full(kind) /\ fragment[current].count < MaxPackets
  /\ current = None => fragment_seq_no < MaxFragments
  /\ packet' = [kind |-> kind, dts |-> d]
  /\ pc' = IF current = None THEN "start" ELSE "encode"
  /\ UNCHANGED <<current, fragment_seq_no, now, fragment, windowVars, readerVars, moved>>

\* The fragment at hand is full: AppendFragment adds it to the vector, which is
\* reallocated when its capacity is used up.
AppendFragment(kind, d) ==
  /\ pc = "idle" /\ current # None /\ Full(kind)
  /\ fragment_seq_no < MaxFragments
  /\ packet' = [kind |-> kind, dts |-> d]
  /\ fragments' = Append(fragments, current)
  /\ current' = None
  /\ IF Len(fragments) < capacity THEN UNCHANGED <<capacity, moved>>
     ELSE /\ capacity' = IF capacity = 0 THEN 1 ELSE 2 * capacity
          /\ moved' = moved \cup Referring
  /\ pc' = "shrink"
  /\ UNCHANGED <<fragment_seq_no, now, fragment, free_fragments, playlist, readerVars>>

\* Mutant of Excess: the window is one fragment too large.
ExcessButOne(s) == IF Len(s) <= WindowSize + 1 THEN 0 ELSE Len(s) - WindowSize - 1
Excess(s) == IF Len(s) <= WindowSize THEN 0 ELSE Len(s) - WindowSize

\* Fragment::Reset.
Reset(f) == [f EXCEPT !.seq = 0, !.start = -1, !.duration = 0, !.count = 0]

Shrink ==
  LET n == Excess(fragments)
      out == SubSeq(fragments, 1, n)
  IN  /\ pc = "shrink"
      /\ fragments' = SubSeq(fragments, n + 1, Len(fragments))
      /\ free_fragments' = free_fragments \o out
      /\ fragment' = [o \in Objects |-> IF o \in Range(out) THEN Reset(fragment[o])
                                                            ELSE fragment[o]]
      /\ moved' = IF n = 0 THEN moved ELSE moved \cup Referring
      /\ pc' = "list"
      /\ UNCHANGED <<packet, current, fragment_seq_no, now, capacity, playlist, readerVars>>

EntryOf(o) ==
  [seq |-> fragment[o].seq, name |-> fragment[o].name, duration |-> fragment[o].duration]

\* The newest fragments, at most ListSize of them.
Listed(s) ==
  LET first == IF Len(s) > ListSize THEN Len(s) - ListSize ELSE 0
  IN  [i \in 1 .. Len(s) - first |-> EntryOf(s[first + i])]

LongEnough(s) == Len(s) >= MinListed
UpdatePlayList ==
  /\ pc = "list"
  /\ playlist' = IF LongEnough(fragments) THEN Listed(fragments) ELSE playlist
  /\ pc' = "start"
  /\ UNCHANGED <<packet, current, fragment_seq_no, now, fragment, fragments, capacity,
                 free_fragments, readerVars, moved>>

\* An idle fragment is reset, named and numbered.
Fresh(f, t) == [Reset(f) EXCEPT !.name = t, !.seq = fragment_seq_no]

\* GetIdleFragment, Reset, and the fragment's name: the time it is started at, in
\* milliseconds, which may be that of the one before.
\* Mutant of Taken: the fragment stays on the free list.
NotTaken(s) == s
Taken(s) == Tail(s)
StartFragment(t) ==
  LET o == IF free_fragments = <<>>
             THEN CHOOSE x \in Objects : fragment[x].name = 0
             ELSE Head(free_fragments)
  IN  /\ pc = "start"
      /\ t \in {now, now + 1} /\ t > 0
      /\ now' = t
      /\ current' = o
      /\ free_fragments' = IF free_fragments = <<>> THEN <<>> ELSE Taken(free_fragments)
      /\ fragment' = [fragment EXCEPT ![o] = Fresh(@, t)]
      /\ fragment_seq_no' = fragment_seq_no + 1
      /\ pc' = "encode"
      /\ UNCHANGED <<packet, fragments, capacity, playlist, readerVars, moved>>

\* Encode: a codec header only configures the encoder; any other packet adds its
\* timestamp (AppendTimeStamp) and its bytes (Write).
Duration(start, d) == IF start = -1 \/ d < start THEN 0 ELSE d - start
\* The fragment f with one more packet, of timestamp d.
Written(f, d) ==
  [f EXCEPT !.start = IF f.start = -1 \/ d < f.start THEN d ELSE f.start,
            !.duration = Duration(f.start, d),
            !.count = @ + 1]
Encode ==
  /\ pc = "encode"
  /\ fragment' = IF packet.kind = "header" THEN fragment
                 ELSE [fragment EXCEPT ![current] = Written(@, packet.dts)]
  /\ pc' = "idle"
  /\ packet' = NoPacket
  /\ UNCHANGED <<current, fragment_seq_no, now, windowVars, readerVars, moved>>

-----------------------------------------------------------------------------
(* The readers' threads: LiveService::OnRequest and HttpContext.           *)

\* The playlist is served, and the client picks one of its fragments.
GetPlayList(r) ==
  /\ request[r] = "idle"
  /\ \E i \in 1 .. Len(playlist) : want' = [want EXCEPT ![r] = playlist[i]]
  /\ request' = [request EXCEPT ![r] = "listed"]
  /\ UNCHANGED <<muxerVars, fragment, windowVars, place, held, announced, body,
                 moved, mistaken>>

\* The places of the fragments that bear a name.
Named(name) == {i \in 1 .. Len(fragments) : fragment[fragments[i]].name = name}

\* GetFragmentByName, under lock_, returns a reference to the first of them.
GetFragmentByName(r) ==
  /\ request[r] = "listed" /\ Named(want[r].name) # {}
  /\ \E i \in Named(want[r].name) :
       /\ \A j \in Named(want[r].name) : i <= j
       /\ place' = [place EXCEPT ![r] = i]
       /\ mistaken' = IF fragment[fragments[i]].seq = want[r].seq THEN mistaken
                      ELSE mistaken \cup {r}
  /\ request' = [request EXCEPT ![r] = "found"]
  /\ UNCHANGED <<muxerVars, fragment, windowVars, want, held, announced, body, moved>>

\* Without a fragment of that name, nothing is answered.
NotFound(r) ==
  /\ request[r] = "listed" /\ Named(want[r].name) = {}
  /\ request' = [request EXCEPT ![r] = "unanswered"]
  /\ UNCHANGED <<muxerVars, fragment, windowVars, want, place, held, announced, body,
                 moved, mistaken>>

\* GetFragment copies the pointer after lock_ was released: what lies there by
\* then, or anything when the vector moved.
GetFragment(r) ==
  /\ request[r] = "found"
  /\ \E o \in IF r \in moved THEN Range(fragments) \cup {None} ELSE {fragments[place[r]]} :
       /\ held' = [held EXCEPT ![r] = o]
       /\ request' = [request EXCEPT ![r] = IF o = None THEN "unanswered" ELSE "copied"]
  /\ UNCHANGED <<muxerVars, fragment, windowVars, want, place, announced, body,
                 moved, mistaken>>

\* The header goes out with the size the fragment has now ...
PostRequest(r) ==
  /\ request[r] = "copied"
  /\ announced' = [announced EXCEPT ![r] = fragment[held[r]].count]
  /\ request' = [request EXCEPT ![r] = "header"]
  /\ UNCHANGED <<muxerVars, fragment, windowVars, want, place, held, body,
                 moved, mistaken>>

\* ... and the body, once the header is written, as it is by then.
WriteComplete(r) ==
  /\ request[r] = "header"
  /\ body' = [body EXCEPT ![r] =
       [seq |-> fragment[held[r]].seq, count |-> fragment[held[r]].count]]
  /\ request' = [request EXCEPT ![r] = "sent"]
  /\ UNCHANGED <<muxerVars, fragment, windowVars, want, place, held, announced, moved,
                 mistaken>>

\* The client comes back for another fragment; one that got no answer has to
\* open a new connection.
NextRequest(r) ==
  /\ request[r] \in {"sent", "unanswered"}
  /\ request' = [request EXCEPT ![r] = "idle"]
  /\ want' = [want EXCEPT ![r] = NoEntry]
  /\ place' = [place EXCEPT ![r] = 0]
  /\ held' = [held EXCEPT ![r] = None]
  /\ announced' = [announced EXCEPT ![r] = 0]
  /\ body' = [body EXCEPT ![r] = NoBytes]
  /\ moved' = moved \ {r} /\ mistaken' = mistaken \ {r}
  /\ UNCHANGED <<muxerVars, fragment, windowVars>>

-----------------------------------------------------------------------------
Next ==
  \/ \E kind \in Kinds, d \in Dts : OnPacket(kind, d) \/ AppendFragment(kind, d)
  \/ Shrink \/ UpdatePlayList \/ Encode
  \/ \E t \in {now, now + 1} : StartFragment(t)
  \/ \E r \in Readers :
       \/ GetPlayList(r) \/ GetFragmentByName(r) \/ NotFound(r) \/ GetFragment(r)
       \/ PostRequest(r) \/ WriteComplete(r) \/ NextRequest(r)

Spec == Init /\ [][Next]_vars

-----------------------------------------------------------------------------
(* Properties.                                                             *)

\* A fragment object is in one place: being filled, in the window, or free; so
\* that filling one never writes into another that is listed.  The window holds
\* the newest fragments in the order they were started, and recycling keeps the
\* objects down to a window and one more (Shrink and GetIdleFragment).
FragmentsRecycled ==
  LET all == fragments \o free_fragments
  IN  /\ Cardinality(Range(all)) = Len(all) /\ current \notin Range(all)
      /\ \A i \in 2 .. Len(fragments) :
           fragment[fragments[i]].seq = fragment[fragments[i - 1]].seq + 1
      /\ Cardinality({o \in Objects : fragment[o].name # 0}) <= WindowSize + 1

\* Every entry of the playlist is in the window, with the name and the duration
\* it is listed with.  The one exception is the oldest, while AppendFragment has
\* shrunk the window and not yet written the new playlist: lock_ is released in
\* between (FragmentWindow.cpp:29-30).
PlaylistServed ==
  \A i \in 1 .. Len(playlist) :
    \/ \E j \in 1 .. Len(fragments) : EntryOf(fragments[j]) = playlist[i]
    \/ i = 1 /\ pc = "list"

\* What a client is sent is the whole fragment that it asked for, and of the length
\* the header announced, as long as the playlist lists that fragment: whatever
\* goes on in the window meanwhile.  (Between Shrink and UpdatePlayList the oldest
\* entry does not count, as before.)  Two things spoil even that: the vector moved between
\* lookup and copy, since GetFragmentByName returns a reference
\* (FragmentWindow.cpp:53), or two fragments were started within one millisecond
\* and share a name (Fragment.cpp:83).
ServedAsAsked ==
  \A r \in Readers : request[r] = "sent" =>
    \/ want[r] \notin Range(playlist) \/ (pc = "list" /\ want[r] = playlist[1])
    \/ r \in moved \/ r \in mistaken
    \/ /\ body[r].seq = want[r].seq
       /\ announced[r] = body[r].count
       /\ \A j \in 1 .. Len(fragments) :
            fragment[fragments[j]].seq = want[r].seq =>
              body[r].count = fragment[fragments[j]].count

\* From one playlist to the next, the newest fragment is the successor of the one
\* before, and a fragment that both list has the same name and duration in both:
\* a client that polls never sees the list go back, skip or change.
PlaylistAdvances ==
  [][playlist' # playlist /\ playlist # <<>> =>
       /\ playlist'[Len(playlist')].seq = playlist[Len(playlist)].seq + 1
       /\ playlist'[1].seq >= playlist[1].seq
       /\ \A i \in 1 .. Len(playlist), j \in 1 .. Len(playlist') :
            playlist[i].seq = playlist'[j].seq => playlist[i] = playlist'[j]]_vars

\* What a client that polls can rely on: objects that are in one place, a playlist
\* whose entries are there, and playlists that only move on (AppendFragment,
\* Shrink, UpdatePlayList and GetIdleFragment).
PlaylistReliable ==
  /\ [](TypeOK /\ FragmentsRecycled /\ PlaylistServed)
  /\ PlaylistAdvances

=============================================================================
