---------------------------- MODULE LiveSession ----------------------------
(***************************************************************************)
(* The sessions of one stream name: who publishes, who plays, and how a    *)
(* session and its users are closed (live/LiveService.cpp,                 *)
(* live/Session.cpp, live/user/User.cpp).                                  *)
(*                                                                         *)
(* Every client connection is served on the thread of its event loop; the  *)
(* clients in Shared have one loop in common, every other client has its   *)
(* own.  The main thread runs LiveService::OnTimer.  A connection may make *)
(* several requests, each of which creates a user that replaces the one in *)
(* the connection's context.  A user closed from a foreign thread is       *)
(* closed by a task queued on its loop, but one closed on its own thread   *)
(* is closed inline, under whatever locks the caller holds.                *)
(*                                                                         *)
(* No pull target is configured: a player that finds no publisher closes   *)
(* the session.                                                            *)
(***************************************************************************)
EXTENDS Naturals, FiniteSets

CONSTANTS
  Clients,      \* connections to the server
  HttpClients,  \* those that come over HTTP; the others come over RTMP
  Shared,       \* those served by one and the same event loop
  Repeaters,    \* bound: those that make more than one request ...
  MaxRequests,  \* ... and how many those make at most
  MaxSessions,  \* bound: Session objects created
  Timer,        \* the main thread
  None, Free    \* no user or session; a lock nobody holds

ASSUME SessionAssumption ==
  /\ HttpClients \subseteq Clients /\ Shared \subseteq Clients /\ Repeaters \subseteq Clients
  /\ MaxRequests \in Nat \ {0} /\ MaxSessions \in Nat
  /\ Timer \notin Clients
  /\ None \notin Clients \X (1 .. MaxRequests) /\ None \notin Nat
  /\ Free \notin Clients \cup {Timer}

Threads == Clients \cup {Timer}
Sessions == 1 .. MaxSessions
Users == Clients \X (1 .. MaxRequests)

VARIABLES
  \* LiveService: sessions_ at the stream's name, its lock_, and how many Session
  \* objects there have been.
  registry, service_lock, created,
  \* Session: publisher_, players_, lock_, and what IsTimeout sees: no packet for
  \* 20 s, and stream_idle_time since a player left.
  publisher, players, lock, silent, idle_long,
  \* User: its session, its type and destroyed_.
  session_of, kind, destroyed,
  \* Connections: open ones, those with a ForceClose task queued, the user in
  \* the context, and how many requests were made.
  open, closing, context, requests,
  \* Threads: where each one is, the session it clears, the users left to close,
  \* and the user whose CloseUser awaits the session's lock.
  pc, work, todo, leaving,
  \* History: sessions that were cleared, users that entered such a session, and
  \* publishers removed by the CloseUser of another user.
  cleared, late, dropped

serviceVars == <<registry, service_lock, created>>
sessionVars == <<publisher, players, lock, silent, idle_long>>
userVars == <<session_of, kind, destroyed>>
connVars == <<open, closing, context, requests>>
threadVars == <<pc, work, todo, leaving>>
historyVars == <<cleared, late, dropped>>
vars == <<serviceVars, sessionVars, userVars, connVars, threadVars, historyVars>>

TypeOK ==
  /\ registry \in Sessions \cup {None}
  /\ service_lock \in {Timer, Free}
  /\ created \in 0 .. MaxSessions
  /\ publisher \in [Sessions -> Users \cup {None}]
  /\ players \in [Sessions -> SUBSET Users]
  /\ lock \in [Sessions -> Threads \cup {Free}]
  /\ silent \in SUBSET Sessions /\ idle_long \in SUBSET Sessions
  /\ session_of \in [Users -> Sessions \cup {None}]
  /\ kind \in [Users -> {"none", "publish", "play"}]
  /\ destroyed \in SUBSET Users
  /\ open \in SUBSET Clients /\ closing \in SUBSET Clients
  /\ context \in [Clients -> Users \cup {None}]
  /\ requests \in [Clients -> 0 .. MaxRequests]
  /\ pc \in [Threads -> {"idle", "set_publisher", "closing_old", "add_player",
                         "check_publisher", "close_session", "clear", "clearing"}]
  /\ work \in [Threads -> Sessions \cup {None}]
  /\ todo \in [Threads -> SUBSET Users]
  /\ leaving \in [Threads -> Users \cup {None}]
  /\ cleared \in SUBSET Sessions /\ late \in SUBSET Users /\ dropped \in SUBSET Users

Init ==
  /\ registry = None /\ service_lock = Free /\ created = 0
  /\ publisher = [s \in Sessions |-> None]
  /\ players = [s \in Sessions |-> {}]
  /\ lock = [s \in Sessions |-> Free]
  /\ silent = {} /\ idle_long = {}
  /\ session_of = [u \in Users |-> None]
  /\ kind = [u \in Users |-> "none"]
  /\ destroyed = {}
  /\ open = Clients /\ closing = {}
  /\ context = [c \in Clients |-> None]
  /\ requests = [c \in Clients |-> 0]
  /\ pc = [t \in Threads |-> "idle"]
  /\ work = [t \in Threads |-> None]
  /\ todo = [t \in Threads |-> {}]
  /\ leaving = [t \in Threads |-> None]
  /\ cleared = {} /\ late = {} /\ dropped = {}

-----------------------------------------------------------------------------
(* Threads and connections.                                                *)

Conn(u) == u[1]

\* The user of the request that a client's thread is serving.
Current(c) == <<c, requests[c]>>

Mates(t) == IF t \in Shared THEN Shared ELSE {t}

\* The thread is in no call: it may take up a new event of connection c.
AtRest(t) == pc[t] = "idle" /\ leaving[t] = None
LoopFree(c) == \A d \in Mates(c) : AtRest(d)

\* A thread goes on with the call it is in.
At(t, place) == pc[t] = place /\ leaving[t] = None

\* TcpConnection::OnClose of connection d on thread t: OnConnectionDestroy calls
\* CloseUser for the user in the context, whose first step is the exchange on
\* destroyed_; that user then waits for its session's lock.  gone is the set of
\* users destroyed up to here.
\* Mutant of OnClose: the exchange is forgotten.
OnCloseTwice(t, d, gone) ==
  /\ open' = open \ {d}
  /\ context' = [context EXCEPT ![d] = None]
  /\ closing' = closing \ {d}
  /\ destroyed' = gone
  /\ leaving' = [leaving EXCEPT ![t] = context[d]]
OnClose(t, d, gone) ==
  LET q == IF context[d] \in gone THEN None ELSE context[d] IN
  /\ open' = open \ {d}
  /\ context' = [context EXCEPT ![d] = None]
  /\ closing' = closing \ {d}
  /\ destroyed' = gone \cup ({q} \ {None})
  /\ leaving' = [leaving EXCEPT ![t] = q]

\* TcpConnection::ForceClose from a foreign thread: a task for d's loop, which
\* finds nothing to do when d was closed before.
\* Mutant of ForceClose: the task is not queued.
NoForceClose(d) == closing
ForceClose(d) == IF d \in open THEN closing \cup {d} ELSE closing

\* User::Close, for a user on whose destroyed_ thread t won the exchange: the
\* connection is closed inline on its own thread, else by a task for its loop.
CloseConn(t, u) ==
  LET d == Conn(u) IN
  IF d \in open /\ d \in Mates(t)
    THEN OnClose(t, d, destroyed \cup {u})
    ELSE /\ closing' = ForceClose(d)
         /\ destroyed' = destroyed \cup {u}
         /\ UNCHANGED <<open, context, leaving>>

\* The peer closes, a read fails, or the idle timeout fires.
PeerClose(c) ==
  /\ c \in open /\ LoopFree(c)
  /\ OnClose(c, c, destroyed)
  /\ UNCHANGED <<serviceVars, sessionVars, session_of, kind, requests, pc, work,
                 todo, historyVars>>

\* The task queued by ForceClose.
RunClose(c) == c \in closing /\ PeerClose(c)

\* Session::CloseUser after the exchange.  A publisher's leaving resets
\* publisher_, whoever that is by now.
RemovePlayer(S, u) == S \ {u}
CloseUser(t) ==
  LET u == leaving[t]
      s == session_of[u]
  IN  /\ u # None
      /\ lock[s] = Free
      /\ IF kind[u] = "publish"
           THEN /\ publisher' = [publisher EXCEPT ![s] = None]
                /\ dropped' = dropped \cup ({publisher[s]} \ {u, None})
                /\ UNCHANGED <<players, idle_long>>
           ELSE /\ players' = [players EXCEPT ![s] = RemovePlayer(@, u)]
                /\ idle_long' = idle_long \ {s}
                /\ UNCHANGED <<publisher, dropped>>
      /\ leaving' = [leaving EXCEPT ![t] = None]
      /\ UNCHANGED <<serviceVars, lock, silent, userVars, connVars, pc, work, todo,
                     cleared, late>>

-----------------------------------------------------------------------------
(* Requests.                                                               *)

MayRequest(c) ==
  c \in open /\ LoopFree(c) /\ requests[c] < IF c \in Repeaters THEN MaxRequests ELSE 1

\* CreateSession returns session s, which is the registered one or a new one.
CreateSession(s) ==
  /\ service_lock = Free
  /\ IF registry # None THEN s = registry /\ UNCHANGED <<registry, created>>
     ELSE s = created + 1 /\ registry' = s /\ created' = s
  /\ UNCHANGED service_lock

\* OnPublish, OnPlay and OnRequest: a session, a new user in it, and that user
\* in the connection's context.
CreateUser(c, s, k) ==
  LET u == <<c, requests[c] + 1>> IN
  /\ MayRequest(c)
  /\ CreateSession(s)
  /\ requests' = [requests EXCEPT ![c] = @ + 1]
  /\ session_of' = [session_of EXCEPT ![u] = s]
  /\ kind' = [kind EXCEPT ![u] = k]
  /\ context' = [context EXCEPT ![c] = u]

OnPublish(c, s) ==
  /\ c \notin HttpClients
  /\ CreateUser(c, s, "publish")
  /\ pc' = [pc EXCEPT ![c] = "set_publisher"]
  /\ UNCHANGED <<sessionVars, destroyed, open, closing, work, todo, leaving, historyVars>>

OnPlay(c, s) ==
  /\ CreateUser(c, s, "play")
  /\ pc' = [pc EXCEPT ![c] = "add_player"]
  /\ UNCHANGED <<sessionVars, destroyed, open, closing, work, todo, leaving, historyVars>>

\* A request for a playlist or a fragment creates the session and no user.
OnFileRequest(c, s) ==
  /\ c \in HttpClients /\ MayRequest(c)
  /\ CreateSession(s)
  /\ requests' = [requests EXCEPT ![c] = @ + 1]
  /\ UNCHANGED <<sessionVars, userVars, open, closing, context, threadVars, historyVars>>

\* A packet from a connection goes to the stream of the user in its context,
\* whatever that user's type is.
OnRecv(c) ==
  /\ c \in open /\ LoopFree(c) /\ context[c] # None
  /\ session_of[context[c]] \in silent
  /\ silent' = silent \ {session_of[context[c]]}
  /\ UNCHANGED <<serviceVars, publisher, players, lock, idle_long, userVars, connVars,
                 threadVars, historyVars>>

\* User u becomes part of session s, which may have been cleared already.
Enters(u, s) == late' = IF s \in cleared THEN late \cup {u} ELSE late

-----------------------------------------------------------------------------
(* Publishing.                                                             *)

\* SetPublisher, when no publisher has to be closed.
\* Mutant of MustClose: the old publisher is not closed.
NeverClose(p) == FALSE
MustClose(p) == p # None /\ p \notin destroyed
SetPublisher(c) ==
  LET u == Current(c)
      s == session_of[u]
  IN  /\ At(c, "set_publisher") /\ lock[s] = Free
      /\ ~MustClose(publisher[s])
      /\ publisher' = [publisher EXCEPT ![s] = u]
      /\ pc' = [pc EXCEPT ![c] = "idle"]
      /\ Enters(u, s)
      /\ UNCHANGED <<serviceVars, players, lock, silent, idle_long, userVars, connVars,
                     work, todo, leaving, cleared, dropped>>

\* SetPublisher closes the publisher it replaces, with lock_ held.
CloseOldPublisher(c) ==
  LET s == session_of[Current(c)] IN
  /\ At(c, "set_publisher") /\ lock[s] = Free
  /\ MustClose(publisher[s])
  /\ lock' = [lock EXCEPT ![s] = c]
  /\ CloseConn(c, publisher[s])
  /\ pc' = [pc EXCEPT ![c] = "closing_old"]
  /\ UNCHANGED <<serviceVars, publisher, players, silent, idle_long, session_of, kind,
                 requests, work, todo, historyVars>>

ReplacePublisher(c) ==
  LET u == Current(c)
      s == session_of[u]
  IN  /\ At(c, "closing_old")
      /\ publisher' = [publisher EXCEPT ![s] = u]
      /\ lock' = [lock EXCEPT ![s] = Free]
      /\ pc' = [pc EXCEPT ![c] = "idle"]
      /\ Enters(u, s)
      /\ UNCHANGED <<serviceVars, players, silent, idle_long, userVars, connVars,
                     work, todo, leaving, cleared, dropped>>

-----------------------------------------------------------------------------
(* Playing, and closing a session.                                         *)

AddPlayer(c) ==
  LET u == Current(c)
      s == session_of[u]
  IN  /\ At(c, "add_player") /\ lock[s] = Free
      /\ players' = [players EXCEPT ![s] = @ \cup {u}]
      /\ pc' = [pc EXCEPT ![c] = "check_publisher"]
      /\ Enters(u, s)
      /\ UNCHANGED <<serviceVars, publisher, lock, silent, idle_long, userVars, connVars,
                     work, todo, leaving, cleared, dropped>>

\* AddPlayer reads publisher_ without the lock; StartPullStream has no target.
CheckPublisher(c) ==
  /\ At(c, "check_publisher")
  /\ pc' = [pc EXCEPT ![c] =
       IF publisher[session_of[Current(c)]] = None THEN "close_session" ELSE "idle"]
  /\ UNCHANGED <<serviceVars, sessionVars, userVars, connVars, work, todo, leaving, historyVars>>

\* CloseSession goes by the name, and takes whichever session is registered.
CloseSession(c) ==
  /\ At(c, "close_session") /\ service_lock = Free
  /\ registry' = None
  /\ work' = [work EXCEPT ![c] = registry]
  /\ pc' = [pc EXCEPT ![c] = IF registry = None THEN "idle" ELSE "clear"]
  /\ UNCHANGED <<service_lock, created, sessionVars, userVars, connVars, todo, leaving,
                 historyVars>>

\* Session::Clear takes lock_ ...
Clear(t) ==
  LET s == work[t] IN
  /\ At(t, "clear") /\ lock[s] = Free
  /\ lock' = [lock EXCEPT ![s] = t]
  /\ todo' = [todo EXCEPT ![t] = ({publisher[s]} \ {None}) \cup players[s]]
  /\ pc' = [pc EXCEPT ![t] = "clearing"]
  /\ UNCHANGED <<serviceVars, publisher, players, silent, idle_long, userVars, connVars,
                 work, leaving, historyVars>>

\* ... closes its users, the publisher first (CloseUserNoLock) ...
Unclosed(s, u) == u \notin destroyed
CloseUserNoLock(t, u) ==
  LET s == work[t] IN
  /\ At(t, "clearing") /\ u \in todo[t]
  /\ publisher[s] \in todo[t] => u = publisher[s]
  /\ todo' = [todo EXCEPT ![t] = @ \ {u}]
  /\ IF Unclosed(s, u)
       THEN /\ CloseConn(t, u)
            /\ publisher' = [publisher EXCEPT ![s] = IF @ = u THEN None ELSE @]
            /\ idle_long' = IF kind[u] = "play" THEN idle_long \ {s} ELSE idle_long
       ELSE UNCHANGED <<publisher, idle_long, open, closing, context, destroyed, leaving>>
  /\ UNCHANGED <<serviceVars, players, lock, silent, session_of, kind, requests, pc, work,
                 historyVars>>

\* ... and empties players_.  OnTimer then erases the session and returns.
ClearEnd(t) ==
  LET s == work[t] IN
  /\ At(t, "clearing") /\ todo[t] = {}
  /\ players' = [players EXCEPT ![s] = {}]
  /\ lock' = [lock EXCEPT ![s] = Free]
  /\ cleared' = cleared \cup {s}
  /\ work' = [work EXCEPT ![t] = None]
  /\ pc' = [pc EXCEPT ![t] = "idle"]
  /\ IF t = Timer THEN registry' = None /\ service_lock' = Free
                  ELSE UNCHANGED <<registry, service_lock>>
  /\ UNCHANGED <<created, publisher, silent, idle_long, userVars, connVars, todo, leaving,
                 late, dropped>>

-----------------------------------------------------------------------------
(* Timeouts.                                                               *)

\* No thread is between finding a session and entering it: those calls take far
\* less than the times that IsTimeout compares with.
Undisturbed(s) == ~ \E c \in Clients : pc[c] # "idle" /\ session_of[Current(c)] = s

GoSilent(s) ==
  /\ s \in 1 .. created \ silent /\ Undisturbed(s)
  /\ silent' = silent \cup {s}
  /\ UNCHANGED <<serviceVars, publisher, players, lock, idle_long, userVars, connVars,
                 threadVars, historyVars>>

IdleLong(s) ==
  /\ s \in 1 .. created \ idle_long /\ Undisturbed(s)
  /\ idle_long' = idle_long \cup {s}
  /\ UNCHANGED <<serviceVars, publisher, players, lock, silent, userVars, connVars,
                 threadVars, historyVars>>

IsTimeout(s) == s \in silent \/ (players[s] = {} /\ s \in idle_long)

\* OnTimer holds the service's lock while it clears a session.
OnTimer ==
  /\ At(Timer, "idle") /\ service_lock = Free
  /\ registry # None /\ IsTimeout(registry)
  /\ service_lock' = Timer
  /\ work' = [work EXCEPT ![Timer] = registry]
  /\ pc' = [pc EXCEPT ![Timer] = "clear"]
  /\ UNCHANGED <<registry, created, sessionVars, userVars, connVars, todo, leaving, historyVars>>

-----------------------------------------------------------------------------
\* What a thread does once it is in a call.
CallStep(t) ==
  \/ Clear(t) \/ (\E u \in Users : CloseUserNoLock(t, u)) \/ ClearEnd(t)
  \/ CloseUser(t)
  \/ /\ t \in Clients
     /\ \/ SetPublisher(t) \/ CloseOldPublisher(t) \/ ReplacePublisher(t)
        \/ AddPlayer(t) \/ CheckPublisher(t) \/ CloseSession(t)

Next ==
  \/ \E c \in Clients :
       \/ \E s \in Sessions : OnPublish(c, s) \/ OnPlay(c, s) \/ OnFileRequest(c, s)
       \/ OnRecv(c) \/ PeerClose(c) \/ RunClose(c)
  \/ \E t \in Threads : CallStep(t)
  \/ OnTimer
  \/ \E s \in Sessions : GoSilent(s) \/ IdleLong(s)

Spec == Init /\ [][Next]_vars

\* Every thread goes on with the call it is in, every loop runs its tasks, and
\* the main thread keeps calling OnTimer.
Fairness ==
  /\ \A t \in Threads : WF_vars(CallStep(t))
  /\ \A c \in Clients : WF_vars(RunClose(c))
  /\ WF_vars(OnTimer)

FairSpec == Spec /\ Fairness

-----------------------------------------------------------------------------
(* Properties.                                                             *)

Live(u) == session_of[u] # None /\ u \notin destroyed

\* u is its session's publisher or one of its players.
Tracked(u) ==
  LET s == session_of[u] IN
  IF kind[u] = "publish" THEN publisher[s] = u ELSE u \in players[s]

\* The connection made another request after u's: u is no longer in its context.
Replaced(u) == \E v \in Users : Conn(v) = Conn(u) /\ v[2] > u[2] /\ session_of[v] # None

\* A connection that is open and served is known to its session, which will close
\* it when a publisher takes over or the session ends.  The one exception: the
\* CloseUser of a publisher that was already being closed resets publisher_
\* although the next one has been set meanwhile (Session.cpp:128-142).
NobodyForgotten ==
  \A c \in open :
    AtRest(c) /\ context[c] # None /\ Live(context[c]) =>
      Tracked(context[c]) \/ context[c] \in dropped

\* A connection that is closed has left its session: neither publisher_ nor
\* players_ keeps its user, outside the call that removes it.  The exception is a
\* user whose connection made another request later: nobody ever removes it
\* before the session ends (OnConnectionDestroy, LiveService.cpp:110).
NoGhosts ==
  \A u \in Users :
    session_of[u] # None /\ Conn(u) \notin open /\ LoopFree(Conn(u)) /\ Tracked(u) =>
      Replaced(u) \/ (u \in destroyed /\ lock[session_of[u]] # Free)

\* The users of a session that is no longer registered are being closed, but for
\* those that had found the session before it was closed and entered it after it
\* was cleared (OnPublish and OnPlay, LiveService.cpp:139-154, 165-180): these
\* stay, out of reach of every timeout and of every later client.
OrphansCameLate ==
  \A u \in Users :
    Live(u) /\ Tracked(u) /\ session_of[u] # registry =>
      \/ u \in late
      \/ \E t \in Threads : /\ work[t] = session_of[u]
                            /\ pc[t] = "clear" \/ u \in todo[t]

\* A session and its users agree on who is in it (SetPublisher, AddPlayer, CloseUser
\* and Clear), but for the three ways of coming apart that the parts name.
SessionsConsistent == TypeOK /\ NobodyForgotten /\ NoGhosts /\ OrphansCameLate

\* A thread that waits for a lock_ it holds itself.
SelfDeadlock(t) == leaving[t] # None /\ lock[session_of[leaving[t]]] = t

\* lock_ is not recursive, and users are closed with it held.  A thread comes back
\* to a lock it holds only when it closes, inline, a connection that made a second
\* request: the context then holds another user than the one that is closed
\* (SetPublisher and CloseUserNoLock; OnConnectionDestroy).
RelockNeedsSecondRequest ==
  \A t \in Threads : SelfDeadlock(t) =>
    \E n \in 1 .. leaving[t][2] - 1 :
      /\ <<Conn(leaving[t]), n>> \in destroyed
      /\ session_of[<<Conn(leaving[t]), n>>] = session_of[leaving[t]]

Stuck == \E t \in Threads : SelfDeadlock(t)

\* A user that anybody destroyed has its connection closed, on whichever loop that
\* connection lives (User::Close and ForceClose), unless a thread is stuck: time and
\* again there is no such connection left.  (A destroyed user stays destroyed, a
\* closed connection closed, and there are MaxRequests users to a client.)
DestroyedIsClosed ==
  []<>((\A u \in destroyed : Conn(u) \notin open) \/ Stuck)

\* A session that stays silent is closed (OnTimer), unless a thread is stuck.
SilentSessionEnds ==
  []<>(registry \notin silent \/ Stuck)

\* What is to be closed gets closed: users one by one, and whole sessions (CloseUser
\* and ForceClose; OnTimer).
ClosingEnds == DestroyedIsClosed /\ SilentSessionEnds

=============================================================================
