----------------------------- MODULE PullRelay -----------------------------
(***************************************************************************)
(* Pulling a stream from another server when a player finds no publisher:  *)
(* live/relay/PullerRelay.cpp, live/relay/pull/RtmpPuller.cpp,             *)
(* RtmpClient.cpp and TcpClient.cpp, with the part of Session.cpp and      *)
(* LiveService.cpp that starts and ends it.                                *)
(*                                                                         *)
(* A relay tries the targets of the application in turn, each again after  *)
(* an interval until its retries are used up.  Relays, pullers and clients *)
(* are raw pointers: the model keeps every object that was ever made, with *)
(* whether it was deleted.  The targets are shared by the relays of all    *)
(* loops, and no lock is taken: PullerRelay::Pull is a call in steps,      *)
(* which end where it has tested what another loop may write.  The fields  *)
(* of one relay are read and written in one step, and an attempt that      *)
(* fails at once fails in a later step.  What goes wrong for good is       *)
(* recorded in w.bad, and nothing happens any more.                        *)
(***************************************************************************)
EXTENDS Naturals, Sequences, FiniteSets, SequencesExt

CONSTANTS
  Sessions,    \* stream names
  Players,     \* players, each with the loop of its connection; bound: each joins once
  LoopOf,
  Scenarios,   \* bound: which stream each player asks for, None for no stream
  Loops,       \* number of loops
  MaxRetry,    \* max_retry of each target
  Interval,    \* whether a target has an interval
  Pulls,       \* per session: the targets of its application, in order
  None

Targets == 1 .. Len(MaxRetry)

ASSUME RelayAssumption ==
  /\ Loops \in Nat \ {0} /\ LoopOf \in [Players -> 1 .. Loops]
  /\ MaxRetry \in Seq(Nat) /\ Len(Interval) = Len(MaxRetry)
  /\ Pulls \in [Sessions -> Seq(Targets)]
  /\ None \notin Sessions

VARIABLES
  w,       \* sessions, targets, calls of PullerRelay::Pull and all objects
  asks,    \* the scenario
  joining  \* per player: the session and the pull_ that AddPlayer has read

vars == <<w, asks, joining>>

\* What a relay calls that is gone.
Bad(v, r, what) == [v EXCEPT !.bad = [relay |-> r, object |-> what]]

-----------------------------------------------------------------------------
(* Deleting.  Pullers, clients and retries are kept with the relay that    *)
(* made them.                                                              *)

\* ~RtmpPuller deletes the client.  The loop keeps a TcpClient that is connecting, and
\* its context one that ever connected: their callbacks are bound to the deleted client.
\* In its own close callback a TcpClient goes when OnClose is not over.  ~TcpClient of
\* one that is not closed, or on another loop, ends the program.
DropClient(v, r, p, loop) ==
  LET c == v.relays[r].pullers[p].client
      client == v.relays[r].clients[c]
  IN IF c = 0 THEN v
     ELSE IF client.met \/ client.st = "connecting"
     THEN [v EXCEPT !.relays[r].clients[c].orphan = TRUE]
     ELSE IF client.st = "closing" THEN [v EXCEPT !.relays[r].clients[c].st = "gone"]
     ELSE IF client.st = "new" \/ loop # v.relays[r].pullers[p].loop THEN Bad(v, r, "client")
     ELSE v
DeletePuller(v, r, p, loop) ==
  DropClient([v EXCEPT !.relays[r].pullers[p].freed = TRUE], r, p, loop)

ClearPuller(v, r, loop) ==
  LET p == v.relays[r].puller
      cleared == [v EXCEPT !.relays[r].puller = 0]
  IN IF p = 0 THEN v
     ELSE IF v.relays[r].pullers[p].loop = loop THEN DeletePuller(cleared, r, p, loop)
     ELSE [cleared EXCEPT !.relays[r].deletes = @ \cup {p}]

\* The last reference to a session is gone: ~Session deletes the relay it knows.
Release(v, s, loop) ==
  LET ss == v.session[s]
      gone == [v EXCEPT !.session[s].freed = TRUE]
  IN IF ss.listed \/ ss.players # {} \/ ss.published \/ ss.freed THEN v
     ELSE IF ss.pull = 0 THEN gone
     ELSE [ClearPuller(gone, ss.pull, loop) EXCEPT !.relays[ss.pull].freed = TRUE]

\* LiveService::CloseSession and Session::Clear: the connections of its users are
\* closed and leave one by one; a publisher that was pulled has a player's
\* type, so publisher_ stays set.
CloseSession(v, s, loop) ==
  IF ~v.session[s].listed THEN v
  ELSE Release([v EXCEPT !.session[s].listed = FALSE], s, loop)

-----------------------------------------------------------------------------
(* PullerRelay and RtmpPuller.                                             *)

\* RtmpPuller::Pull: the address is made of the name that the target has now, and
\* TcpClient::Connect runs at once on the puller's own loop.
PullerPull(v, r, p, t, loop) ==
  LET dropped == DropClient(v, r, p, loop)
      fresh == [puller |-> p, target |-> t, url |-> v.target[t].stream, met |-> FALSE, orphan |-> FALSE,
                st |-> IF v.relays[r].pullers[p].loop = loop THEN "connecting" ELSE "new"]
  IN IF v.relays[r].pullers[p].freed THEN Bad(v, r, "puller")
     ELSE [dropped EXCEPT !.relays[r].clients = Append(@, fresh),
                          !.relays[r].pullers[p].client = Len(v.relays[r].clients) + 1]

\* GetNextLoop turns round without a lock, for every connection: any loop may be next.
GetPuller(v, r) ==
  {[v EXCEPT !.relays[r].pullers = Append(@, [loop |-> next, client |-> 0, freed |-> FALSE]),
             !.relays[r].puller = Len(v.relays[r].pullers) + 1] : next \in 1 .. Loops}

\* A call of Pull is over on its loop.  TcpConnection::OnClose goes on with
\* Event::Close, on the object itself: whatever happens if that is gone.
Ended(v, loop) ==
  LET r == v.call[loop].relay
      c == v.call[loop].client
      over == [v EXCEPT !.call[loop] = None]
  IN IF c = 0 THEN {over}
     ELSE IF v.relays[r].clients[c].st = "gone" THEN {over, Bad(over, r, "client")}
     ELSE {[over EXCEPT !.relays[r].clients[c].st = "closed"]}

\* Mutants of NextTarget: the last target is tried for ever; the session is left open
\* when all targets were tried.
SelectForever(v, r, loop) ==
  LET pulls == Pulls[v.relays[r].session]
      idx == IF v.relays[r].idx < Len(pulls) THEN v.relays[r].idx + 1 ELSE Len(pulls)
      moved == [v EXCEPT !.relays[r].idx = idx, !.call[loop].at = "go"]
      chosen == ClearPuller([moved EXCEPT !.relays[r].target = pulls[idx],
                                          !.call[loop].target = pulls[idx]], r, loop)
  IN IF v.target[pulls[idx]].stream = None THEN {[chosen EXCEPT !.call[loop].at = "name"]}
     ELSE GetPuller(chosen, r)
SelectQuietly(v, r, loop) ==
  LET pulls == Pulls[v.relays[r].session]
      idx == v.relays[r].idx + 1
      moved == [v EXCEPT !.relays[r].idx = idx, !.call[loop].at = "go"]
      chosen == ClearPuller([moved EXCEPT !.relays[r].target = pulls[idx],
                                          !.call[loop].target = pulls[idx]], r, loop)
  IN IF idx > Len(pulls) THEN {ClearPuller(moved, r, loop)}
     ELSE IF v.target[pulls[idx]].stream = None THEN {[chosen EXCEPT !.call[loop].at = "name"]}
     ELSE GetPuller(chosen, r)
\* SelectTarget, when the retries of its target are used up: the test of the target's
\* name, which is empty until a session of the application writes its own.
NextTarget(v, r, loop) ==
  LET pulls == Pulls[v.relays[r].session]
      idx == v.relays[r].idx + 1
      moved == [v EXCEPT !.relays[r].idx = idx, !.call[loop].at = "go"]
      chosen == ClearPuller([moved EXCEPT !.relays[r].target = pulls[idx],
                                          !.call[loop].target = pulls[idx]], r, loop)
  IN IF idx > Len(pulls) THEN {CloseSession(ClearPuller(moved, r, loop), v.relays[r].session, loop)}
     ELSE IF v.target[pulls[idx]].stream = None THEN {[chosen EXCEPT !.call[loop].at = "name"]}
     ELSE GetPuller(chosen, r)

\* PullerRelay::Pull up to a test of the shared target; client is the one whose close
\* callback this is, or 0.
Pull(v, r, loop, client) ==
  LET t == v.relays[r].target
      others == {l \in 1 .. Loops \ {loop} : v.call[l] # None}
      met == {u \in Targets : \E l \in others : v.call[l].relay = r \/ (v.call[l].target = t /\ u = t)}
      begun == [v EXCEPT !.raced = @ \cup met,
                         !.call[loop] = [relay |-> r, client |-> client, target |-> t, at |-> "go", seen |-> 0]]
  IN IF v.session[v.relays[r].session].published THEN Ended(begun, loop)
     ELSE IF t # 0 /\ v.target[t].retry < MaxRetry[t]
     THEN {[begun EXCEPT !.call[loop].at = "count", !.call[loop].seen = v.target[t].retry]}
     ELSE NextTarget(begun, r, loop)

\* RtmpPuller's close callback, PullerRelay::OnPullClose.
OnPullClose(v, r, p, client) ==
  IF v.relays[r].pullers[p].freed THEN {Bad(v, r, "puller")}
  ELSE IF v.relays[r].freed THEN {Bad(v, r, "relay")}
  ELSE IF v.session[v.relays[r].session].freed THEN {Bad(v, r, "session")}
  ELSE Pull(v, r, v.relays[r].pullers[p].loop, client)

StartPullStream(v, r, loop) ==
  LET started == [v EXCEPT !.relays[r].starts = @ + 1]
      s == v.relays[r].session
  IN IF Pulls[s] = <<>> THEN {CloseSession(started, s, loop)} ELSE Pull(started, r, loop, 0)

-----------------------------------------------------------------------------
(* Steps.                                                                  *)

\* Sessions are made when they are asked for.
Init ==
  /\ asks \in Scenarios
  /\ w = [session |-> [s \in Sessions |-> [listed |-> \E p \in Players : asks[p] = s, players |-> {},
                                           published |-> FALSE, pull |-> 0, freed |-> FALSE]],
          target |-> [t \in Targets |-> [retry |-> 0, stream |-> None]],
          call |-> [l \in 1 .. Loops |-> None],
          relays |-> <<>>, came |-> {}, raced |-> {}, bad |-> None]
  /\ joining = [p \in Players |-> None]

Good == w.bad = None
Relays == 1 .. Len(w.relays)
Clients(r) == 1 .. Len(w.relays[r].clients)

\* A loop runs one handler at a time.
Idle(loop) == w.call[loop] = None /\ \A p \in Players : LoopOf[p] = loop => joining[p] = None
HomeOf(r, c) == w.relays[r].pullers[w.relays[r].clients[c].puller].loop

\* Session::AddPlayer up to the tests of publisher_ and pull_, which take no lock.
Join(p) ==
  LET s == asks[p]
  IN /\ Good /\ Idle(LoopOf[p]) /\ s # None
     /\ p \notin w.came /\ w.session[s].listed
     /\ w' = [w EXCEPT !.session[s].players = @ \cup {p}, !.came = @ \cup {p}]
     /\ joining' = [joining EXCEPT ![p] =
          IF w.session[s].published THEN @ ELSE [session |-> s, pull |-> w.session[s].pull]]
     /\ UNCHANGED asks

\* ... and from there on, with a relay of its own if it read none.
StartPull(p) ==
  /\ Good /\ joining[p] # None
  /\ LET s == joining[p].session
         fresh == [w EXCEPT !.session[s].pull = Len(w.relays) + 1,
                            !.relays = Append(@, [session |-> s, idx |-> 0, target |-> 0, puller |-> 0,
                                                  starts |-> 0, freed |-> FALSE, pullers |-> <<>>,
                                                  clients |-> <<>>, timers |-> <<>>, deletes |-> {}])]
     IN w' \in IF joining[p].pull = 0
               THEN StartPullStream(fresh, Len(w.relays) + 1, LoopOf[p])
               ELSE StartPullStream(w, joining[p].pull, LoopOf[p])
  /\ joining' = [joining EXCEPT ![p] = None]
  /\ UNCHANGED asks

\* SelectTarget's retry ++ on the target that passed its test: a load and a store.
Count(loop) ==
  LET call == w.call[loop]
  IN /\ Good /\ call # None /\ call.at = "count"
     /\ \E n \in {call.seen, w.target[call.target].retry} :
          w' = IF w.relays[call.relay].freed THEN Bad(w, call.relay, "relay")
               ELSE [w EXCEPT !.target[call.target].retry = n + 1, !.call[loop].at = "go"]
     /\ UNCHANGED <<asks, joining>>

\* SelectTarget's write of the session's name into a target that had none, and the
\* puller for it.
Name(loop) ==
  LET call == w.call[loop]
      r == call.relay
      named == [w EXCEPT !.target[call.target].stream = w.relays[r].session, !.call[loop].at = "go"]
  IN /\ Good /\ call # None /\ call.at = "name"
     /\ w' \in IF w.relays[r].freed THEN {Bad(w, r, "relay")} ELSE GetPuller(named, r)
     /\ UNCHANGED <<asks, joining>>

\* The rest of PullerRelay::Pull; a retry is scheduled with the raw puller.
\* Mutant: a retry is made at once and scheduled, too.
GoTwice(loop) ==
  LET call == w.call[loop]
      r == call.relay
      p == w.relays[r].puller
      scheduled == [puller |-> p, target |-> call.target]
  IN /\ Good /\ call # None /\ call.at = "go"
     /\ w' \in IF w.relays[r].freed THEN {Bad(w, r, "relay")}
               ELSE IF p = 0 THEN Ended(w, loop)
               ELSE Ended([PullerPull(w, r, p, call.target, loop) EXCEPT
                             !.relays[r].timers = Append(@, scheduled)], loop)
     /\ UNCHANGED <<asks, joining>>
Go(loop) ==
  LET call == w.call[loop]
      r == call.relay
      p == w.relays[r].puller
      scheduled == [puller |-> p, target |-> call.target]
  IN /\ Good /\ call # None /\ call.at = "go"
     /\ w' \in IF w.relays[r].freed THEN {Bad(w, r, "relay")}
               ELSE IF p = 0 THEN Ended(w, loop)
               ELSE IF w.target[call.target].retry = 0 \/ ~Interval[call.target]
               THEN Ended(PullerPull(w, r, p, call.target, loop), loop)
               ELSE Ended([w EXCEPT !.relays[r].timers = Append(@, scheduled)], loop)
     /\ UNCHANGED <<asks, joining>>

\* A player's connection ends.
Leave(p) ==
  LET s == asks[p]
  IN /\ Good /\ Idle(LoopOf[p]) /\ s # None /\ p \in w.session[s].players
     /\ w' = Release([w EXCEPT !.session[s].players = @ \ {p}], s, LoopOf[p])
     /\ UNCHANGED <<asks, joining>>

\* LiveService::OnTimer for a session without data for 20 seconds.
Timeout(s) ==
  /\ Good /\ w.session[s].listed
  /\ w' = CloseSession(w, s, 0)
  /\ UNCHANGED <<asks, joining>>

\* A queued ClearPuller; what was queued before it has run.
RunDelete(r, p) ==
  LET loop == w.relays[r].pullers[p].loop
  IN /\ Good /\ p \in w.relays[r].deletes /\ Idle(loop)
     /\ \A c \in Clients(r) : w.relays[r].clients[c].puller = p => w.relays[r].clients[c].st # "new"
     /\ w' = DeletePuller([w EXCEPT !.relays[r].deletes = @ \ {p}], r, p, loop)
     /\ UNCHANGED <<asks, joining>>

\* A scheduled retry.
Retry(r, i) ==
  LET timer == w.relays[r].timers[i]
      loop == w.relays[r].pullers[timer.puller].loop
  IN /\ Good /\ Idle(loop)
     /\ w' = PullerPull([w EXCEPT !.relays[r].timers = RemoveAt(@, i)], r, timer.puller, timer.target, loop)
     /\ UNCHANGED <<asks, joining>>

\* A queued TcpClient::ConnectInLoop.
Connecting(r, c) ==
  /\ Good /\ w.relays[r].clients[c].st = "new" /\ Idle(HomeOf(r, c))
  /\ w' = [w EXCEPT !.relays[r].clients[c].st = "connecting"]
  /\ UNCHANGED <<asks, joining>>

\* UpdateConnectionStatus calls RtmpClient::OnConnection, which makes the context that
\* keeps the connection.
Connected(r, c) ==
  /\ Good /\ w.relays[r].clients[c].st = "connecting" /\ Idle(HomeOf(r, c))
  /\ w' = IF w.relays[r].clients[c].orphan THEN Bad(w, r, "client")
          ELSE [w EXCEPT !.relays[r].clients[c].st = "connected", !.relays[r].clients[c].met = TRUE]
  /\ UNCHANGED <<asks, joining>>

\* The server answers play with the name of the stream that was asked for, if the
\* handshake ever completes (RtmpHandShake.cpp:357-362 leaves the repository's client
\* in it): RtmpPuller::OnPlay.
OnPlay(v, r, c) ==
  LET client == v.relays[r].clients[c]
      s == v.relays[r].session
      pulled == [v EXCEPT !.relays[r].clients[c].st = "playing"]
  IN IF v.session[s].freed THEN {Bad(v, r, "session")}
     ELSE IF client.url # s THEN OnPullClose(pulled, r, client.puller, 0)
     ELSE {[pulled EXCEPT !.session[s].published = TRUE]}
Playing(r, c) ==
  /\ Good /\ w.relays[r].clients[c].st = "connected" /\ Idle(HomeOf(r, c))
  /\ w' \in IF w.relays[r].clients[c].orphan THEN {Bad(w, r, "client")} ELSE OnPlay(w, r, c)
  /\ UNCHANGED <<asks, joining>>

\* A message on a connection that plays goes through the client; what it adds to the
\* stream is LiveStream's.
Message(r, c) ==
  LET client == w.relays[r].clients[c]
  IN /\ Good /\ client.st = "playing" /\ client.orphan /\ Idle(HomeOf(r, c))
     /\ w' = Bad(w, r, "client")
     /\ UNCHANGED <<asks, joining>>

\* TcpClient::OnClose takes the connection from the loop and calls the puller, for an
\* attempt that fails ...
OnClose(r, c) ==
  /\ Good /\ Idle(HomeOf(r, c))
  /\ w' \in OnPullClose([w EXCEPT !.relays[r].clients[c].st = "closing"], r,
                        w.relays[r].clients[c].puller, c)
  /\ UNCHANGED <<asks, joining>>
Failed(r, c) == w.relays[r].clients[c].st = "connecting" /\ OnClose(r, c)

\* ... or a connection that is lost.
Lost(r, c) == w.relays[r].clients[c].st \in {"connected", "playing"} /\ OnClose(r, c)

\* What runs by itself; the system ends every attempt to connect.
LoopStep ==
  \/ \E p \in Players : StartPull(p)
  \/ \E loop \in 1 .. Loops : Count(loop) \/ Name(loop) \/ Go(loop)
  \/ \E r \in Relays :
       \/ \E p \in w.relays[r].deletes : RunDelete(r, p)
       \/ \E i \in 1 .. Len(w.relays[r].timers) : Retry(r, i)
       \/ \E c \in Clients(r) : Connecting(r, c) \/ Connected(r, c) \/ Failed(r, c)

Next ==
  \/ LoopStep
  \/ \E r \in Relays : \E c \in Clients(r) : Playing(r, c) \/ Message(r, c) \/ Lost(r, c)
  \/ \E p \in Players : Join(p) \/ Leave(p)
  \/ \E s \in Sessions : Timeout(s)

Spec == Init /\ [][Next]_vars

\* The loops run what is theirs; servers, players and the timeout of a session owe
\* nothing.
FairSpec == Spec /\ WF_vars(LoopStep)

-----------------------------------------------------------------------------
(* Properties.                                                             *)

RelaysOf(s) == {r \in Relays : w.relays[r].session = s}

\* A client that never connected, of a relay that went on to the next target or tries
\* again without an interval, is deleted inside its own close callback.
DeletedItself(relay, c) ==
  LET client == relay.clients[c]
      last == \A d \in 1 .. Len(relay.clients) : d > c => relay.clients[d].target # client.target
  IN /\ ~client.met /\ client.st \notin {"new", "connecting"}
     /\ IF last THEN relay.idx > Len(Pulls[relay.session]) \/ relay.target # client.target
        ELSE ~Interval[client.target]

\* No relay was started twice, no other stream was pulled from the targets before, no
\* attempt deleted itself, and the session has not ended.
Simple(s) ==
  /\ w.session[s].listed
  /\ \A r \in RelaysOf(s) :
       /\ w.relays[r].starts <= 1
       /\ \A c \in Clients(r) : w.relays[r].clients[c].url = s /\ ~DeletedItself(w.relays[r], c)

\* No callback, retry or connection outlives the object it points to while no player
\* asked again, the session is open and no attempt deleted itself: a retry after the
\* interval, a target that is left after its connection was lost, and two relays that
\* two players started at once are safe.  A player that comes later restarts the relay,
\* a stream that the target does not play leaves its connection open, the end of the
\* session deletes the relay under a connection attempt, and an attempt that failed
\* goes on to the next target from its own close callback: only then is a deleted
\* object called, and it is one of that session (Session.cpp:177-184,
\* RtmpPuller.cpp:25-29, 85-98, PullerRelay.cpp:65-80, 116, TcpConnection.cpp:42-54).
CallsLiveObjects ==
  /\ ~Good => ~Simple(w.relays[w.bad.relay].session)
  /\ \A s \in Sessions : Simple(s) =>
       \A r \in RelaysOf(s) :
         /\ \A i \in 1 .. Len(w.relays[r].timers) :
              ~w.relays[r].pullers[w.relays[r].timers[i].puller].freed
         /\ \A c \in Clients(r) :
              /\ w.relays[r].clients[c].st # "gone"
              /\ w.relays[r].clients[c].st \notin {"closing", "closed"} => ~w.relays[r].clients[c].orphan

\* How often a target was tried, or will be.
Tries(r, t) == {c \in Clients(r) : w.relays[r].clients[c].target = t}
Waits(r, t) == {i \in 1 .. Len(w.relays[r].timers) : w.relays[r].timers[i].target = t}
Attempts(t) ==
  Cardinality(UNION {{r} \X Tries(r, t) : r \in Relays}) + Cardinality(UNION {{r} \X Waits(r, t) : r \in Relays})

\* The retries of a target are bounded over all sessions of the application, though the
\* test and the increment take no lock: every loop may pass the test once more before
\* the first has counted.
RetryLimit ==
  \A t \in Targets :
    /\ w.target[t].retry <= MaxRetry[t] + Loops - 1
    /\ t \notin w.raced => w.target[t].retry <= MaxRetry[t]

\* So are the attempts, if no two loops met there or in one relay: every relay tries
\* the target once and max_retry further attempts are shared.
RetriesBounded ==
  /\ RetryLimit
  /\ \A t \in Targets \ w.raced : Attempts(t) <= MaxRetry[t] + Len(w.relays)

\* A player that waits for a stream is not left alone: the relay finds a publisher, or
\* reaches a server (whose answer nothing bounds: no timeout watches the connection),
\* or the session is closed, whatever fails on the way.  (A publisher whose connection
\* is lost stays set, and the relay does not try again: the session then ends by its
\* timeout.)
PullSettles ==
  \A s \in Sessions :
    w.session[s].players # {} ~>
      \/ w.session[s].published
      \/ \E r \in RelaysOf(s) : \E c \in Clients(r) : w.relays[r].clients[c].st = "connected"
      \/ ~w.session[s].listed
      \/ w.session[s].players = {}
      \/ ~Good

=============================================================================
