------------------------- MODULE LiveSession_proofs -------------------------
(***************************************************************************)
(* Proof that a session and its users agree on who is in it, and that a    *)
(* thread comes back to a lock_ it holds only through a connection that    *)
(* made a second request: SessionsConsistent and RelockNeedsSecondRequest  *)
(* of LiveSession, for any clients, loops, requests and sessions.          *)
(*                                                                         *)
(* Neither is inductive.  They hold because of what a thread in the middle *)
(* of a call stands for: a request that has found its session but not      *)
(* entered it (CallsOK), a user that waits for the lock to leave           *)
(* (ThreadsOK), and the users that the holder of lock_ has closed or is    *)
(* going to close (UnderLock).                                             *)
(***************************************************************************)
EXTENDS LiveSession, TLAPS

\* The calls in which a request has a user that is not part of its session yet,
\* and those in which a session is being cleared.
Entering == {"set_publisher", "closing_old", "add_player"}
Clearing == {"clear", "clearing"}

\* Requests are numbered, and the context holds the user of the last one that made
\* a user; a user that is not in the context was replaced or closed.
UsersOK ==
  /\ \A u \in Users : session_of[u] # None =>
       /\ u[2] <= requests[Conn(u)]
       /\ session_of[u] <= created
       /\ context[Conn(u)] = u \/ Replaced(u) \/ u \in destroyed
  /\ \A u \in destroyed : session_of[u] # None
  /\ \A c \in Clients : context[c] # None =>
       /\ Conn(context[c]) = c /\ c \in open
       /\ session_of[context[c]] # None /\ ~Replaced(context[c])

\* A session's members are users of that session.
MembersOK ==
  \A s \in Sessions :
    /\ publisher[s] # None => session_of[publisher[s]] = s /\ kind[publisher[s]] = "publish"
    /\ \A u \in players[s] : session_of[u] = s /\ kind[u] # "publish"

\* A user that has not entered its session is nobody's member, and closed only by
\* its own thread, which closes the old publisher and then never gets any further.
AboutToEnter(c) ==
  /\ requests[c] # 0 /\ session_of[Current(c)] # None
  /\ kind[Current(c)] = "publish" <=> pc[c] # "add_player"
  /\ context[c] \in {None, Current(c)}
  /\ ~Tracked(Current(c)) /\ \A t \in Threads : Current(c) \notin todo[t]
  /\ Current(c) \in destroyed => pc[c] = "closing_old" /\ leaving[c] = Current(c)
CallsOK == \A c \in Clients : pc[c] \in Entering => AboutToEnter(c)

\* A loop serves one call at a time, and closes the connections of its own clients
\* only; OnTimer holds the service's lock for as long as it clears a session.
ThreadsOK ==
  /\ \A t \in Threads :
       /\ leaving[t] # None => leaving[t] \in destroyed /\ Conn(leaving[t]) \in Mates(t)
       /\ pc[t] \in Clearing <=> work[t] # None
       /\ todo[t] # {} => pc[t] = "clearing"
       /\ \A u \in todo[t] : session_of[u] = work[t]
  /\ \A c, d \in Shared : c = d \/ AtRest(c) \/ AtRest(d)
  /\ pc[Timer] \in Clearing \cup {"idle"}
  /\ service_lock = Timer <=> work[Timer] # None
  /\ work[Timer] # None => work[Timer] = registry

\* Who holds a session's lock_ between two steps.
Holds(t, s) ==
  \/ pc[t] = "closing_old" /\ session_of[Current(t)] = s
  \/ pc[t] = "clearing" /\ work[t] = s
LocksOK == \A s \in Sessions, t \in Threads : lock[s] = t <=> Holds(t, s)

\* What the holder found in the session stays until it is closed.
UnderLock ==
  \A t \in Threads :
    /\ pc[t] = "closing_old" => publisher[session_of[Current(t)]] \in destroyed
    /\ pc[t] = "clearing" =>
         /\ publisher[work[t]] \in todo[t] \cup destroyed \cup {None}
         /\ players[work[t]] \subseteq todo[t] \cup destroyed

\* NobodyForgotten, in the middle of a call too once the user has entered.
Kept ==
  \A c \in Clients :
    context[c] # None /\ Live(context[c]) /\ pc[c] \notin Entering =>
      Tracked(context[c]) \/ context[c] \in dropped

\* A closed user that is still a member waits for the lock, or whoever holds the
\* lock is about to remove it.
OnTheWayOut(u) ==
  \/ \E t \in Threads : leaving[t] = u
  \/ \E t \in Threads : pc[t] = "clearing" /\ work[t] = session_of[u] /\ kind[u] # "publish"
  \/ \E t \in Threads : pc[t] = "closing_old" /\ session_of[Current(t)] = session_of[u]
                        /\ kind[u] = "publish"
GoneLeave == \A u \in destroyed : Tracked(u) => OnTheWayOut(u)

\* A session is registered, being cleared, or cleared.
SessionsKnown ==
  /\ registry # None => registry <= created
  /\ \A s \in 1 .. created : s = registry \/ s \in cleared \/ \E t \in Threads : work[t] = s

\* RelockNeedsSecondRequest, with the earlier user named.
Earlier(u) == \E v \in destroyed : /\ Conn(v) = Conn(u) /\ v[2] < u[2]
                                   /\ session_of[v] = session_of[u]
RelocksOK == \A t \in Threads : SelfDeadlock(t) => Earlier(leaving[t])

SessionInv ==
  /\ TypeOK /\ UsersOK /\ MembersOK /\ CallsOK /\ ThreadsOK /\ LocksOK /\ UnderLock
  /\ Kept /\ GoneLeave /\ SessionsKnown /\ OrphansCameLate /\ RelocksOK

-----------------------------------------------------------------------------
(* Users, and the loops that serve them.                                   *)

\* A user is its connection and the number of the request (OnPublish and OnPlay).
LEMMA UserPairs ==
  /\ \A u \in Users : Conn(u) \in Clients /\ u[2] \in 1 .. MaxRequests /\ u # None
                      /\ u = <<Conn(u), u[2]>>
  /\ \A c \in Clients, n \in 1 .. MaxRequests :
       <<c, n>> \in Users /\ Conn(<<c, n>>) = c /\ <<c, n>>[2] = n
BY SessionAssumption DEF Users, Conn

\* What the constants are not: no user, session or thread is None or Free.
LEMMA ConstantFacts ==
  /\ None \notin Sessions /\ None \notin Users /\ None \notin Nat
  /\ Timer \notin Clients /\ Free \notin Threads /\ Timer \in Threads
  /\ Clients \subseteq Threads /\ Shared \subseteq Clients
  /\ MaxRequests \in Nat /\ MaxSessions \in Nat /\ Sessions \subseteq Nat
BY SessionAssumption DEF Sessions, Users, Threads

\* The thread of a connection serves the connections of its loop (EventLoop).
LEMMA MatesFacts ==
  /\ \A t \in Threads : t \in Mates(t)
  /\ \A t \in Threads : \A d \in Mates(t) : t \in Mates(d)
  /\ \A c \in Clients : Mates(c) \subseteq Clients
BY SessionAssumption DEF Mates, Threads

\* The user of the request that is being served.
LEMMA CurrentUser ==
  ASSUME TypeOK, CallsOK, NEW c \in Clients, pc[c] \in Entering
  PROVE  /\ Current(c) \in Users /\ Conn(Current(c)) = c
         /\ session_of[Current(c)] \in Sessions
<1>1. requests[c] \in 1 .. MaxRequests
  <2>1. requests[c] \in 0 .. MaxRequests /\ requests[c] # 0
    BY DEF TypeOK, CallsOK, AboutToEnter
  <2> QED BY <2>1, ConstantFacts
<1>2. Current(c) \in Users /\ Conn(Current(c)) = c
  BY <1>1, UserPairs DEF Current
<1>3. session_of[Current(c)] # None
  BY DEF CallsOK, AboutToEnter
<1> QED BY <1>2, <1>3 DEF TypeOK

\* A loop that serves a call leaves the other connections alone.
LEMMA OneCall ==
  ASSUME ThreadsOK, NEW t \in Threads, ~AtRest(t), NEW d \in Mates(t)
  PROVE  d = t \/ AtRest(d)
BY SessionAssumption DEF ThreadsOK, Mates

-----------------------------------------------------------------------------
(* Closing a connection.                                                   *)

\* Thread t destroys the users D and closes connections, or has their loops do it;
\* user q, if there is one, then waits to leave its session.
Closes(t, D, q) ==
  /\ D \in SUBSET Users /\ \A u \in D : session_of[u] # None
  /\ q \in (D \ destroyed) \cup {None}
  /\ q # None => Conn(q) \in Mates(t) /\ q = context[Conn(q)]
  /\ destroyed' = destroyed \cup D
  /\ leaving' = [leaving EXCEPT ![t] = q]
  /\ open' \in SUBSET Clients /\ closing' \in SUBSET Clients
  /\ context' \in [Clients -> Users \cup {None}]
  /\ \A c \in Clients :
       \/ context'[c] = context[c] /\ (c \in open <=> c \in open')
       \/ /\ context'[c] = None /\ c \notin open'
          /\ context[c] \in destroyed \cup D \cup {None}

\* OnClose, with the user that was in the context.
LEMMA ClosedConn ==
  ASSUME SessionInv, NEW t \in Threads, NEW d \in Mates(t), d \in open,
         NEW D \in SUBSET Users, \A u \in D : session_of[u] # None,
         NEW q \in Users \cup {None},
         q = IF context[d] \in destroyed \cup D THEN None ELSE context[d],
         open' = open \ {d}, closing' = closing \ {d},
         context' = [context EXCEPT ![d] = None],
         destroyed' = destroyed \cup D \cup ({q} \ {None}),
         leaving' = [leaving EXCEPT ![t] = q]
  PROVE  Closes(t, D \cup ({q} \ {None}), q)
<1>0. TypeOK /\ UsersOK
  BY DEF SessionInv
<1>1. d \in Clients
  BY <1>0 DEF TypeOK
<1>2. context \in [Clients -> Users \cup {None}] /\ open \in SUBSET Clients
      /\ closing \in SUBSET Clients
  BY <1>0 DEF TypeOK
<1>3. q # None => Conn(q) = d /\ q = context[d] /\ session_of[q] # None /\ q \notin destroyed
  BY <1>0, <1>1 DEF UsersOK
<1>4. context[d] \in destroyed \cup (D \cup ({q} \ {None})) \cup {None}
  OBVIOUS
<1> QED BY <1>1, <1>2, <1>3, <1>4 DEF Closes

\* The call that closes user u (User::Close), and the user that waits to leave.
LEMMA CloseConnCloses ==
  ASSUME SessionInv, NEW t \in Threads, leaving[t] = None,
         NEW u \in Users, session_of[u] # None, CloseConn(t, u)
  PROVE  \E q \in Users \cup {None} :
           /\ Closes(t, {u} \cup ({q} \ {None}), q)
           /\ q # None => Conn(q) = Conn(u) /\ u[2] < q[2]
<1>0. TypeOK /\ UsersOK
  BY DEF SessionInv
<1>1. CASE Conn(u) \in open /\ Conn(u) \in Mates(t)
  <2>1. OnClose(t, Conn(u), destroyed \cup {u})
    BY <1>1 DEF CloseConn
  <2>2. PICK q \in Users \cup {None} :
          q = IF context[Conn(u)] \in destroyed \cup {u} THEN None ELSE context[Conn(u)]
    <3>1. context[Conn(u)] \in Users \cup {None}
      BY <1>0, UserPairs DEF TypeOK
    <3> QED BY <3>1
  <2>4. Closes(t, {u} \cup ({q} \ {None}), q)
    BY <1>1, <2>1, <2>2, ClosedConn DEF OnClose
  <2>3. ASSUME q # None PROVE Conn(q) = Conn(u) /\ u[2] < q[2]
    <3>1. Conn(u) \in Clients
      BY UserPairs
    <3>2. q = context[Conn(u)] /\ q # u /\ q \in Users
      BY <2>2, <2>3
    <3>3. Conn(q) = Conn(u) /\ ~Replaced(q)
      BY <1>0, <2>3, <3>1, <3>2 DEF UsersOK
    <3>4. ~(u[2] > q[2])
      BY <3>3 DEF Replaced
    <3>5. u[2] \in Nat /\ q[2] \in Nat
      BY <3>2, UserPairs, ConstantFacts
    <3>6. u[2] # q[2]
      BY <3>2, <3>3, UserPairs
    <3> QED BY <3>3, <3>4, <3>5, <3>6
  <2> QED BY <2>3, <2>4
<1>2. CASE ~(Conn(u) \in open /\ Conn(u) \in Mates(t))
  <2>1. /\ closing' = ForceClose(Conn(u)) /\ destroyed' = destroyed \cup {u}
        /\ UNCHANGED <<open, context, leaving>>
    BY <1>2 DEF CloseConn
  <2>2. closing' \in SUBSET Clients
    BY <1>0, <2>1 DEF TypeOK, ForceClose
  <2>3. leaving' = [leaving EXCEPT ![t] = None]
    BY <1>0, <2>1 DEF TypeOK
  <2>4. context' \in [Clients -> Users \cup {None}] /\ open' \in SUBSET Clients
    BY <1>0, <2>1 DEF TypeOK
  <2>5. Closes(t, {u}, None)
    BY <2>1, <2>2, <2>3, <2>4 DEF Closes
  <2> QED BY <2>5
<1> QED BY <1>1, <1>2

\* The users destroyed leave the context, and the others keep their place in it.
LEMMA ClosesKeepsUsers ==
  ASSUME SessionInv, NEW t \in Threads, NEW D, NEW q, Closes(t, D, q),
         UNCHANGED <<session_of, requests, created>>
  PROVE  UsersOK'
<1>0. TypeOK /\ UsersOK
  BY DEF SessionInv
<1>1. \A u \in Users : Replaced(u)' <=> Replaced(u)
  BY DEF Replaced
<1>2. ASSUME NEW u \in Users, session_of[u] # None
      PROVE  context'[Conn(u)] = u \/ Replaced(u) \/ u \in destroyed'
  BY <1>0, <1>2, UserPairs DEF UsersOK, Closes
<1>3. ASSUME NEW c \in Clients, context'[c] # None
      PROVE  /\ Conn(context'[c]) = c /\ c \in open'
             /\ session_of[context'[c]] # None /\ ~Replaced(context'[c])
  BY <1>0, <1>3 DEF UsersOK, Closes
<1>4. \A u \in destroyed' : session_of[u] # None
  BY <1>0 DEF UsersOK, Closes
<1>5. \A c \in Clients : context'[c] # None => context'[c] \in Users
  BY DEF Closes
<1> QED BY <1>0, <1>1, <1>2, <1>3, <1>4, <1>5 DEF UsersOK

\* Closing keeps the types.
LEMMA ClosesTypes ==
  ASSUME TypeOK, NEW t \in Threads, NEW D, NEW q \in Users \cup {None}, Closes(t, D, q)
  PROVE  /\ destroyed' \in SUBSET Users /\ open' \in SUBSET Clients
         /\ closing' \in SUBSET Clients /\ context' \in [Clients -> Users \cup {None}]
         /\ leaving' \in [Threads -> Users \cup {None}]
BY DEF TypeOK, Closes

-----------------------------------------------------------------------------
(* The steps of the connections.                                           *)

\* A connection that closes on its own loop (PeerClose) has its user wait to leave.
LEMMA PeerCloseKeeps ==
  ASSUME SessionInv, NEW c \in Clients, PeerClose(c)
  PROVE  SessionInv'
<1>0. /\ TypeOK /\ UsersOK /\ MembersOK /\ CallsOK /\ ThreadsOK /\ LocksOK /\ UnderLock
      /\ Kept /\ GoneLeave /\ SessionsKnown /\ OrphansCameLate /\ RelocksOK
  BY DEF SessionInv
<1> USE DEF serviceVars, sessionVars, historyVars
<1>1. c \in Threads /\ c \in Mates(c) /\ AtRest(c)
  BY ConstantFacts, MatesFacts DEF PeerClose, LoopFree
<1>2. PICK q \in Users \cup {None} :
        q = IF context[c] \in destroyed \cup {} THEN None ELSE context[c]
  <2>1. context[c] \in Users \cup {None}
    BY <1>0 DEF TypeOK
  <2> QED BY <2>1
<1>3. Closes(c, {} \cup ({q} \ {None}), q)
  <2>1. {} \in SUBSET Users /\ \A u \in {} : session_of[u] # None
    OBVIOUS
  <2>2. /\ c \in open /\ open' = open \ {c} /\ closing' = closing \ {c}
        /\ context' = [context EXCEPT ![c] = None]
        /\ destroyed' = destroyed \cup {} \cup ({q} \ {None})
        /\ leaving' = [leaving EXCEPT ![c] = q]
    BY <1>2 DEF PeerClose, OnClose
  <2> QED BY <1>1, <1>2, <2>1, <2>2, ClosedConn
<1> DEFINE D == {} \cup ({q} \ {None})
<1> HIDE DEF D
<1>4. Closes(c, D, q)
  BY <1>3 DEF D
<1>5. /\ UNCHANGED <<registry, service_lock, created, publisher, players, lock, silent, idle_long>>
      /\ UNCHANGED <<session_of, kind, requests, pc, work, todo, cleared, late, dropped>>
  BY DEF PeerClose
<1>6. TypeOK'
  BY <1>0, <1>1, <1>4, <1>5, ClosesTypes DEF TypeOK
<1>7. UsersOK'
  BY <1>1, <1>4, <1>5, ClosesKeepsUsers
<1>8. /\ \A u \in Users : u \in destroyed' <=> u \in destroyed \/ u = q
      /\ \A t \in Threads : leaving'[t] = IF t = c THEN q ELSE leaving[t]
      /\ \A d \in Clients : context'[d] \in {context[d], None}
      /\ q # None => Conn(q) = c /\ q \in destroyed'
      /\ leaving[c] = None /\ pc[c] = "idle"
  <2>1. \A u \in Users : u \in destroyed' <=> u \in destroyed \/ u = q
    BY <1>4, ConstantFacts DEF Closes, D
  <2>2. \A t \in Threads : leaving'[t] = IF t = c THEN q ELSE leaving[t]
    BY <1>0, <1>4 DEF Closes, TypeOK
  <2>3. \A d \in Clients : context'[d] \in {context[d], None}
    BY <1>4 DEF Closes
  <2>4. q # None => Conn(q) = c
    BY <1>0, <1>2 DEF UsersOK
  <2>5. q # None => q \in destroyed'
    BY <1>4 DEF Closes, D
  <2>6. leaving[c] = None /\ pc[c] = "idle"
    BY <1>1 DEF AtRest
  <2> QED BY <2>1, <2>2, <2>3, <2>4, <2>5, <2>6
<1>9. MembersOK' /\ SessionsKnown'
  BY <1>0, <1>5 DEF MembersOK, SessionsKnown
<1>10. CallsOK'
  <2> SUFFICES ASSUME NEW d \in Clients, pc'[d] \in Entering
               PROVE  AboutToEnter(d)'
    BY DEF CallsOK
  <2>1. Current(d)' = Current(d) /\ Current(d) \in Users /\ Conn(Current(d)) = d
    BY <1>0, <1>5, CurrentUser DEF Current
  <2>2. d # c /\ d \in Threads
    BY <1>5, <1>8, ConstantFacts DEF Entering
  <2>3. Tracked(Current(d))' <=> Tracked(Current(d))
    BY <1>5, <2>1 DEF Tracked
  <2>4. AboutToEnter(d)
    BY <1>0, <1>5 DEF CallsOK
  <2>5. Current(d) \in destroyed' => pc[d] = "closing_old" /\ leaving'[d] = Current(d)
    BY <1>8, <2>1, <2>2, <2>4, ConstantFacts DEF AboutToEnter
  <2>6. context'[d] \in {None, Current(d)}
    BY <1>8, <2>4 DEF AboutToEnter
  <2> QED BY <1>5, <2>1, <2>3, <2>4, <2>5, <2>6 DEF AboutToEnter
<1>11. ThreadsOK'
  <2>1. ASSUME NEW t \in Threads
        PROVE  /\ leaving'[t] # None => leaving'[t] \in destroyed' /\ Conn(leaving'[t]) \in Mates(t)
               /\ pc'[t] \in Clearing <=> work'[t] # None
               /\ todo'[t] # {} => pc'[t] = "clearing"
               /\ \A u \in todo'[t] : session_of'[u] = work'[t]
    BY <1>0, <1>1, <1>4, <1>5, <1>8, <2>1 DEF ThreadsOK, Closes
  <2>2. ASSUME NEW d \in Shared, NEW e \in Shared PROVE d = e \/ AtRest(d)' \/ AtRest(e)'
    <3>1. d \in Threads /\ e \in Threads
      BY ConstantFacts
    <3>2. CASE c \in Shared
      BY <1>5, <1>8, <3>1, <3>2 DEF PeerClose, LoopFree, Mates, AtRest
    <3>3. CASE c \notin Shared
      BY <1>0, <1>5, <1>8, <3>1, <3>3 DEF ThreadsOK, AtRest
    <3> QED BY <3>2, <3>3
  <2>3. /\ pc'[Timer] \in Clearing \cup {"idle"}
        /\ service_lock' = Timer <=> work'[Timer] # None
        /\ work'[Timer] # None => work'[Timer] = registry'
    BY <1>0, <1>5 DEF ThreadsOK
  <2> QED BY <2>1, <2>2, <2>3 DEF ThreadsOK
<1>12. \A t \in Threads : Current(t)' = Current(t)
  BY <1>5 DEF Current
<1>13. LocksOK'
  BY <1>0, <1>5, <1>12 DEF LocksOK, Holds
<1>14. UnderLock'
  BY <1>0, <1>4, <1>5, <1>12 DEF UnderLock, Closes
<1>15. Kept'
  <2>1. \A d \in Clients : context'[d] # None => context'[d] = context[d] /\ context[d] \in Users
    BY <1>0, <1>8 DEF TypeOK
  <2> QED BY <1>0, <1>5, <1>8, <2>1 DEF Kept, Live, Tracked
<1>16. GoneLeave'
  <2> SUFFICES ASSUME NEW u \in destroyed', Tracked(u)' PROVE OnTheWayOut(u)'
    BY DEF GoneLeave
  <2>1. u \in Users /\ Tracked(u)
    BY <1>5, <1>6 DEF TypeOK, Tracked
  <2>2. CASE u = q
    BY <1>1, <1>8, <2>2 DEF OnTheWayOut
  <2>3. CASE u # q
    <3>1. OnTheWayOut(u)
      BY <1>0, <1>8, <2>1, <2>3 DEF GoneLeave
    <3> QED BY <1>5, <1>8, <1>12, <2>1, <3>1, UserPairs DEF OnTheWayOut
  <2> QED BY <2>2, <2>3
<1>17. OrphansCameLate'
  BY <1>0, <1>5, <1>8 DEF OrphansCameLate, Live, Tracked
<1>18. RelocksOK'
  <2> SUFFICES ASSUME NEW t \in Threads, SelfDeadlock(t)' PROVE Earlier(leaving[t])'
    BY DEF RelocksOK
  <2>1. t # c /\ leaving'[t] = leaving[t] /\ leaving[t] # None
    <3>1. session_of[q] \in Sessions \/ q = None
      BY <1>0, <1>4, <1>6 DEF UsersOK, Closes, D, TypeOK
    <3>2. q # None => lock[session_of[q]] # c
      BY <1>0, <1>1, <1>8, <3>1 DEF LocksOK, Holds
    <3> QED BY <1>5, <1>8, <3>2 DEF SelfDeadlock
  <2>2. Earlier(leaving[t])
    BY <1>0, <1>5, <2>1 DEF RelocksOK, SelfDeadlock
  <2> QED BY <1>4, <1>5, <2>1, <2>2 DEF Earlier, Closes
<1> QED BY <1>6, <1>7, <1>9, <1>10, <1>11, <1>13, <1>14, <1>15, <1>16, <1>17, <1>18 DEF SessionInv

\* A user that leaves is no longer its session's member, and nobody else's place
\* changes but that of a publisher which then counts as dropped.
LEMMA CloseUserKeeps ==
  ASSUME SessionInv, NEW t \in Threads, CloseUser(t)
  PROVE  SessionInv'
<1>0. /\ TypeOK /\ UsersOK /\ MembersOK /\ CallsOK /\ ThreadsOK /\ LocksOK /\ UnderLock
      /\ Kept /\ GoneLeave /\ SessionsKnown /\ OrphansCameLate /\ RelocksOK
  BY DEF SessionInv
<1>1. PICK u \in Users : u = leaving[t]
  BY <1>0 DEF CloseUser, TypeOK
<1>2. u \in destroyed /\ session_of[u] # None
  BY <1>0, <1>1, ConstantFacts DEF UsersOK, ThreadsOK
<1>3. PICK s \in Sessions : s = session_of[u]
  BY <1>0, <1>2 DEF TypeOK
<1>4. /\ UNCHANGED <<registry, service_lock, created, lock, silent, session_of, kind, destroyed>>
      /\ UNCHANGED <<open, closing, context, requests, pc, work, todo, cleared, late>>
      /\ leaving' = [leaving EXCEPT ![t] = None]
      /\ lock[s] = Free
  BY <1>1, <1>3 DEF CloseUser, serviceVars, userVars, connVars
<1>5. /\ publisher' \in [Sessions -> Users \cup {None}] /\ players' \in [Sessions -> SUBSET Users]
      /\ dropped \subseteq dropped' /\ dropped' \in SUBSET Users /\ idle_long' \in SUBSET Sessions
      /\ \A x \in Sessions :
           /\ x # s => publisher'[x] = publisher[x] /\ players'[x] = players[x]
           /\ publisher'[x] # None => publisher'[x] = publisher[x]
           /\ players'[x] \subseteq players[x]
  <2>1. CASE kind[u] = "publish"
    BY <1>0, <1>1, <1>3, <2>1 DEF CloseUser, TypeOK
  <2>2. CASE kind[u] # "publish"
    BY <1>0, <1>1, <1>3, <2>2 DEF CloseUser, RemovePlayer, TypeOK
  <2> QED BY <2>1, <2>2
<1>6. \A v \in Users, x \in Sessions :
        /\ publisher[x] = v => publisher'[x] = v \/ v = u \/ v \in dropped'
        /\ v \in players[x] => v \in players'[x] \/ v = u
  <2>1. CASE kind[u] = "publish"
    BY <1>0, <1>1, <1>3, <2>1, UserPairs DEF CloseUser, TypeOK
  <2>2. CASE kind[u] # "publish"
    BY <1>0, <1>1, <1>3, <2>2 DEF CloseUser, RemovePlayer, TypeOK
  <2> QED BY <2>1, <2>2
<1>7. ~Tracked(u)'
  <2>1. CASE kind[u] = "publish"
    BY <1>0, <1>1, <1>3, <1>4, <2>1, UserPairs DEF CloseUser, Tracked, TypeOK
  <2>2. CASE kind[u] # "publish"
    BY <1>0, <1>1, <1>3, <1>4, <2>2 DEF CloseUser, RemovePlayer, Tracked, TypeOK
  <2> QED BY <2>1, <2>2
<1>8. \A v \in Users : session_of[v] # None =>
        /\ Tracked(v)' => Tracked(v)
        /\ Tracked(v) => Tracked(v)' \/ v = u \/ v \in dropped'
  <2> SUFFICES ASSUME NEW v \in Users, session_of[v] # None
               PROVE  /\ Tracked(v)' => Tracked(v)
                      /\ Tracked(v) => Tracked(v)' \/ v = u \/ v \in dropped'
    OBVIOUS
  <2>1. session_of[v] \in Sessions
    BY <1>0 DEF TypeOK
  <2> QED BY <1>4, <1>5, <1>6, <2>1, UserPairs DEF Tracked
<1>9. \A r \in Threads : /\ Current(r)' = Current(r)
                         /\ leaving'[r] = IF r = t THEN None ELSE leaving[r]
                         /\ lock[s] # r
  BY <1>0, <1>4, ConstantFacts DEF Current, TypeOK
<1>10. TypeOK'
  BY <1>0, <1>4, <1>5 DEF TypeOK
<1>11. UsersOK'
  BY <1>0, <1>4 DEF UsersOK, Replaced
<1>12. MembersOK'
  BY <1>0, <1>4, <1>5 DEF MembersOK
<1>13. CallsOK'
  <2> SUFFICES ASSUME NEW d \in Clients, pc'[d] \in Entering
               PROVE  AboutToEnter(d)'
    BY DEF CallsOK
  <2>0. d \in Threads
    BY ConstantFacts
  <2>1. Current(d)' = Current(d) /\ Current(d) \in Users /\ Conn(Current(d)) = d
    BY <1>0, <1>4, <1>9, <2>0, CurrentUser
  <2>2. AboutToEnter(d)
    BY <1>0, <1>4 DEF CallsOK
  <2>3. ~Tracked(Current(d))'
    <3>1. session_of[Current(d)] \in Sessions
      BY <1>0, <1>4, CurrentUser
    <3> QED BY <1>4, <1>5, <2>1, <2>2, <3>1, UserPairs DEF Tracked, AboutToEnter
  <2>4. Current(d) \in destroyed => pc[d] = "closing_old" /\ leaving'[d] = Current(d)
    <3> SUFFICES ASSUME Current(d) \in destroyed
                 PROVE  pc[d] = "closing_old" /\ leaving'[d] = Current(d)
      OBVIOUS
    <3>1. pc[d] = "closing_old" /\ leaving[d] = Current(d)
      BY <2>2 DEF AboutToEnter
    <3>2. d # t
      BY <1>0, <1>1, <1>3, <1>9, <2>0, <3>1 DEF LocksOK, Holds
    <3> QED BY <1>9, <2>0, <3>1, <3>2
  <2> QED BY <1>4, <2>1, <2>2, <2>3, <2>4 DEF AboutToEnter
<1>14. ThreadsOK'
  BY <1>0, <1>4, <1>9, ConstantFacts DEF ThreadsOK, AtRest
<1>15. LocksOK'
  BY <1>0, <1>4, <1>9 DEF LocksOK, Holds
<1>16. UnderLock'
  <2>1. ASSUME NEW r \in Threads, pc[r] = "closing_old"
        PROVE  publisher'[session_of[Current(r)]] = publisher[session_of[Current(r)]]
    <3>1. session_of[Current(r)] \in Sessions
      BY <1>0, <2>1, CurrentUser DEF Entering, ThreadsOK, Threads, Clearing
    <3>2. session_of[Current(r)] # s
      BY <1>0, <1>9, <2>1 DEF LocksOK, Holds
    <3> QED BY <1>5, <3>1, <3>2
  <2>2. ASSUME NEW r \in Threads, pc[r] = "clearing"
        PROVE  publisher'[work[r]] = publisher[work[r]] /\ players'[work[r]] = players[work[r]]
    <3>1. work[r] \in Sessions
      BY <1>0, <2>2 DEF ThreadsOK, Clearing, TypeOK
    <3>2. work[r] # s
      BY <1>0, <1>9, <2>2 DEF LocksOK, Holds
    <3> QED BY <1>5, <3>1, <3>2
  <2> QED BY <1>0, <1>4, <1>9, <2>1, <2>2 DEF UnderLock
<1>17. Kept'
  <2>1. \A d \in Clients : context[d] # None => context[d] \in Users /\ session_of[context[d]] # None
    BY <1>0 DEF TypeOK, UsersOK
  <2> QED BY <1>0, <1>2, <1>4, <1>5, <1>8, <2>1 DEF Kept, Live
<1>18. GoneLeave'
  <2> SUFFICES ASSUME NEW v \in destroyed, Tracked(v)' PROVE OnTheWayOut(v)'
    BY <1>4 DEF GoneLeave
  <2>1. v \in Users /\ session_of[v] # None
    BY <1>0 DEF TypeOK, UsersOK
  <2>2. v # u /\ Tracked(v)
    BY <1>7, <1>8, <2>1
  <2>3. OnTheWayOut(v)
    BY <1>0, <2>2 DEF GoneLeave
  <2> QED BY <1>1, <1>4, <1>9, <2>2, <2>3 DEF OnTheWayOut
<1>19. SessionsKnown'
  BY <1>0, <1>4 DEF SessionsKnown
<1>20. OrphansCameLate'
  BY <1>0, <1>4, <1>8 DEF OrphansCameLate, Live
<1>21. RelocksOK'
  BY <1>0, <1>4, <1>9 DEF RelocksOK, SelfDeadlock, Earlier
<1> QED BY <1>10, <1>11, <1>12, <1>13, <1>14, <1>15, <1>16, <1>17, <1>18, <1>19, <1>20, <1>21
        DEF SessionInv

\* Packets and the passing of time change what IsTimeout sees, and nothing else.
LEMMA TimesKeep ==
  ASSUME SessionInv,
         \/ \E c \in Clients : OnRecv(c)
         \/ \E s \in Sessions : GoSilent(s) \/ IdleLong(s)
  PROVE  SessionInv'
<1>0. /\ TypeOK /\ UsersOK /\ MembersOK /\ CallsOK /\ ThreadsOK /\ LocksOK /\ UnderLock
      /\ Kept /\ GoneLeave /\ SessionsKnown /\ OrphansCameLate /\ RelocksOK
  BY DEF SessionInv
<1>1. /\ silent' \in SUBSET Sessions /\ idle_long' \in SUBSET Sessions
      /\ UNCHANGED <<serviceVars, publisher, players, lock, userVars, connVars, threadVars, historyVars>>
  <2>1. ASSUME NEW c \in Clients, OnRecv(c)
        PROVE  /\ silent' \in SUBSET Sessions /\ idle_long' \in SUBSET Sessions
               /\ UNCHANGED <<serviceVars, publisher, players, lock, userVars, connVars,
                              threadVars, historyVars>>
    BY <1>0, <2>1 DEF OnRecv, TypeOK
  <2>2. ASSUME NEW s \in Sessions, GoSilent(s) \/ IdleLong(s)
        PROVE  /\ silent' \in SUBSET Sessions /\ idle_long' \in SUBSET Sessions
               /\ UNCHANGED <<serviceVars, publisher, players, lock, userVars, connVars,
                              threadVars, historyVars>>
    BY <1>0, <2>2 DEF GoSilent, IdleLong, TypeOK
  <2> QED BY <2>1, <2>2
<1> USE <1>1 DEF serviceVars, userVars, connVars, threadVars, historyVars
<1>2. TypeOK'
  BY <1>0 DEF TypeOK
<1>3. UsersOK' /\ MembersOK' /\ SessionsKnown'
  BY <1>0 DEF UsersOK, MembersOK, SessionsKnown, Replaced
<1>4. CallsOK' /\ LocksOK' /\ UnderLock'
  BY <1>0 DEF CallsOK, AboutToEnter, LocksOK, Holds, UnderLock, Current, Tracked
<1>5. ThreadsOK'
  BY <1>0 DEF ThreadsOK, AtRest
<1>6. Kept'
  BY <1>0 DEF Kept, Live, Tracked
<1>7. GoneLeave'
  BY <1>0 DEF GoneLeave, Tracked, OnTheWayOut, Current
<1>8. OrphansCameLate'
  BY <1>0 DEF OrphansCameLate, Live, Tracked
<1>9. RelocksOK'
  BY <1>0 DEF RelocksOK, SelfDeadlock, Earlier
<1> QED BY <1>2, <1>3, <1>4, <1>5, <1>6, <1>7, <1>8, <1>9 DEF SessionInv

-----------------------------------------------------------------------------
(* Requests.                                                               *)

\* The session that CreateSession returns is registered; no session gets lost.
LEMMA CreatedSession ==
  ASSUME TypeOK, SessionsKnown, UNCHANGED <<cleared, work>>,
         NEW s \in Sessions, CreateSession(s)
  PROVE  /\ registry' = s /\ service_lock' = service_lock /\ service_lock # Timer
         /\ registry' \in Sessions /\ created' \in 0 .. MaxSessions
         /\ created <= created' /\ s <= created'
         /\ registry # None => registry' = registry
         /\ SessionsKnown'
<1>1. /\ created \in Nat /\ created \in 0 .. MaxSessions /\ s \in Nat /\ s \in 1 .. MaxSessions
      /\ MaxSessions \in Nat /\ None \notin Nat /\ service_lock \in {Timer, Free}
  BY ConstantFacts DEF TypeOK, Sessions
<1>2. Timer # Free
  BY ConstantFacts
<1>3. CASE registry # None
  <2>1. registry' = s /\ s = registry /\ created' = created /\ service_lock' = service_lock
    BY <1>3 DEF CreateSession
  <2>2. s <= created
    BY <1>3, <2>1 DEF SessionsKnown
  <2> QED BY <1>1, <1>2, <1>3, <2>1, <2>2 DEF SessionsKnown, CreateSession
<1>4. CASE registry = None
  <2>1. /\ registry' = s /\ s = created + 1 /\ created' = s /\ service_lock' = service_lock
        /\ service_lock = Free
    BY <1>4 DEF CreateSession
  <2>2. \A x \in 1 .. created' : x = registry' \/ x \in cleared \/ \E t \in Threads : work[t] = x
    <3>1. \A x \in 1 .. created' : x = s \/ x \in 1 .. created
      BY <1>1, <2>1
    <3>2. \A x \in 1 .. created : x # None
      BY <1>1
    <3> QED BY <1>4, <2>1, <3>1, <3>2 DEF SessionsKnown
  <2> QED BY <1>1, <1>2, <1>4, <2>1, <2>2 DEF SessionsKnown
<1> QED BY <1>3, <1>4

\* A request for a file makes no user: only the number of requests goes up.
LEMMA FileRequestKeeps ==
  ASSUME SessionInv, NEW c \in Clients, NEW s \in Sessions, OnFileRequest(c, s)
  PROVE  SessionInv'
<1>0. /\ TypeOK /\ UsersOK /\ MembersOK /\ CallsOK /\ ThreadsOK /\ LocksOK /\ UnderLock
      /\ Kept /\ GoneLeave /\ SessionsKnown /\ OrphansCameLate /\ RelocksOK
  BY DEF SessionInv
<1>1. /\ UNCHANGED <<publisher, players, lock, silent, idle_long, session_of, kind, destroyed>>
      /\ UNCHANGED <<open, closing, context, pc, work, todo, leaving, cleared, late, dropped>>
      /\ requests' = [requests EXCEPT ![c] = @ + 1]
      /\ CreateSession(s) /\ MayRequest(c)
  BY DEF OnFileRequest, sessionVars, userVars, threadVars, historyVars
<1>2. /\ registry' = s /\ service_lock' = service_lock /\ service_lock # Timer
      /\ registry' \in Sessions /\ created' \in 0 .. MaxSessions
      /\ created <= created' /\ s <= created'
      /\ registry # None => registry' = registry
      /\ SessionsKnown'
  BY <1>0, <1>1, CreatedSession
<1>3. AtRest(c)
  BY <1>1, MatesFacts, ConstantFacts DEF MayRequest, LoopFree
<1>4. /\ requests' \in [Clients -> 0 .. MaxRequests]
      /\ \A d \in Clients : requests[d] \in Nat /\ requests'[d] \in Nat /\ requests[d] <= requests'[d]
      /\ \A d \in Clients : d # c => requests'[d] = requests[d]
  <2>1. requests[c] \in 0 .. MaxRequests /\ requests[c] + 1 <= MaxRequests
    BY <1>0, <1>1, SessionAssumption DEF MayRequest, TypeOK
  <2> QED BY <1>0, <1>1, <2>1, ConstantFacts DEF TypeOK
<1>5. \A t \in Threads : pc[t] \in Entering => t \in Clients /\ t # c
  BY <1>0, <1>3 DEF ThreadsOK, Threads, AtRest, Entering, Clearing
<1>6. \A t \in Threads : pc[t] \in Entering => Current(t)' = Current(t)
  BY <1>4, <1>5 DEF Current
<1>7. TypeOK'
  BY <1>0, <1>1, <1>2, <1>4 DEF TypeOK
<1>8. UsersOK'
  <2>0. created \in Nat /\ created' \in Nat
    BY <1>0, <1>2, ConstantFacts DEF TypeOK
  <2>a. \A u \in Users : u[2] \in Nat
    BY UserPairs, ConstantFacts
  <2>b. \A u \in Users : session_of[u] # None => session_of[u] \in Nat
    BY <1>0, ConstantFacts DEF TypeOK
  <2>1. \A u \in Users : session_of[u] # None =>
          u[2] \in Nat /\ session_of[u] \in Nat /\ created \in Nat /\ created' \in Nat
    BY <2>0, <2>a, <2>b
  <2>2. \A u \in Users : session_of[u] # None =>
          u[2] <= requests'[Conn(u)] /\ session_of[u] <= created'
    BY <1>0, <1>2, <1>4, <2>1, UserPairs DEF UsersOK
  <2> QED BY <1>0, <1>1, <2>2 DEF UsersOK, Replaced
<1>9. MembersOK'
  BY <1>0, <1>1 DEF MembersOK
<1>10. CallsOK'
  <2> SUFFICES ASSUME NEW d \in Clients, pc'[d] \in Entering PROVE AboutToEnter(d)'
    BY DEF CallsOK
  <2>1. d \in Threads /\ d # c /\ Current(d)' = Current(d) /\ AboutToEnter(d)
    BY <1>0, <1>1, <1>5, <1>6, ConstantFacts DEF CallsOK
  <2> QED BY <1>1, <1>4, <2>1 DEF AboutToEnter, Tracked
<1>11. ThreadsOK'
  <2>1. work[Timer] = None
    BY <1>0, <1>2 DEF ThreadsOK
  <2> QED BY <1>0, <1>1, <1>2, <2>1 DEF ThreadsOK, AtRest
<1>12. LocksOK'
  BY <1>0, <1>1, <1>6 DEF LocksOK, Holds, Entering
<1>13. UnderLock'
  BY <1>0, <1>1, <1>6 DEF UnderLock, Entering
<1>14. Kept'
  BY <1>0, <1>1 DEF Kept, Live, Tracked
<1>15. GoneLeave'
  BY <1>0, <1>1, <1>6 DEF GoneLeave, Tracked, OnTheWayOut, Entering
<1>16. OrphansCameLate'
  BY <1>0, <1>1, <1>2 DEF OrphansCameLate, Live, Tracked
<1>17. RelocksOK'
  BY <1>0, <1>1 DEF RelocksOK, SelfDeadlock, Earlier
<1> QED BY <1>2, <1>7, <1>8, <1>9, <1>10, <1>11, <1>12, <1>13, <1>14, <1>15, <1>16, <1>17
        DEF SessionInv

\* A request for the stream makes the session's next user, which nobody knows yet.
LEMMA CreateUserKeeps ==
  ASSUME SessionInv, NEW c \in Clients, NEW s \in Sessions, OnPublish(c, s) \/ OnPlay(c, s)
  PROVE  SessionInv'
<1>0. /\ TypeOK /\ UsersOK /\ MembersOK /\ CallsOK /\ ThreadsOK /\ LocksOK /\ UnderLock
      /\ Kept /\ GoneLeave /\ SessionsKnown /\ OrphansCameLate /\ RelocksOK
  BY DEF SessionInv
<1>1. PICK k \in {"publish", "play"} :
        /\ CreateUser(c, s, k)
        /\ pc' = [pc EXCEPT ![c] = IF k = "publish" THEN "set_publisher" ELSE "add_player"]
        /\ UNCHANGED <<sessionVars, destroyed, open, closing, work, todo, leaving, historyVars>>
  BY DEF OnPublish, OnPlay
<1>2. PICK u : u = <<c, requests[c] + 1>>
  OBVIOUS
<1>3. /\ UNCHANGED <<publisher, players, lock, silent, idle_long, destroyed>>
      /\ UNCHANGED <<open, closing, work, todo, leaving, cleared, late, dropped>>
      /\ requests' = [requests EXCEPT ![c] = @ + 1]
      /\ session_of' = [session_of EXCEPT ![u] = s]
      /\ kind' = [kind EXCEPT ![u] = k]
      /\ context' = [context EXCEPT ![c] = u]
      /\ CreateSession(s) /\ MayRequest(c)
  BY <1>1, <1>2 DEF CreateUser, sessionVars, historyVars
<1>4. /\ registry' = s /\ service_lock' = service_lock /\ service_lock # Timer
      /\ registry' \in Sessions /\ created' \in 0 .. MaxSessions
      /\ created <= created' /\ s <= created'
      /\ registry # None => registry' = registry
      /\ SessionsKnown'
  BY <1>0, <1>3, CreatedSession
<1>5. AtRest(c) /\ c \in open
  BY <1>3, MatesFacts, ConstantFacts DEF MayRequest, LoopFree
<1>6. /\ requests' \in [Clients -> 0 .. MaxRequests]
      /\ \A d \in Clients : requests[d] \in Nat /\ requests'[d] \in Nat /\ requests[d] <= requests'[d]
      /\ \A d \in Clients : d # c => requests'[d] = requests[d]
      /\ requests'[c] = requests[c] + 1
      /\ requests[c] + 1 \in 1 .. MaxRequests
  <2>1. requests[c] \in 0 .. MaxRequests /\ requests[c] + 1 <= MaxRequests
    BY <1>0, <1>3, SessionAssumption DEF MayRequest, TypeOK
  <2> QED BY <1>0, <1>3, <2>1, ConstantFacts DEF TypeOK
<1>7. /\ u \in Users /\ Conn(u) = c /\ u[2] = requests[c] + 1 /\ u # None
  BY <1>2, <1>6, UserPairs
<1>8. session_of[u] = None /\ u \notin destroyed
  BY <1>0, <1>6, <1>7 DEF UsersOK
<1>9. /\ \A v \in Users : v # u => session_of'[v] = session_of[v] /\ kind'[v] = kind[v]
      /\ session_of'[u] = s /\ kind'[u] = k
      /\ \A d \in Clients : d # c => context'[d] = context[d]
      /\ context'[c] = u
  BY <1>0, <1>3, <1>7 DEF TypeOK
<1>10. \A t \in Threads : /\ t # c => pc'[t] = pc[t]
                          /\ pc[t] \in Entering => t \in Clients /\ t # c
  BY <1>0, <1>1, <1>5 DEF ThreadsOK, Threads, AtRest, Entering, Clearing, TypeOK
<1>11. c \in Threads /\ pc'[c] \in Entering \ {"closing_old"} /\ pc[c] = "idle" /\ Current(c)' = u
  <2>1. c \in Threads /\ pc[c] = "idle"
    BY <1>5, ConstantFacts DEF AtRest
  <2>2. pc'[c] \in Entering \ {"closing_old"}
    BY <1>0, <1>1, <2>1 DEF Entering, TypeOK
  <2> QED BY <1>2, <1>6, <2>1, <2>2 DEF Current
<1>12. \A t \in Threads : pc[t] \in Entering => Current(t)' = Current(t) /\ Current(t) \in Users
                                                /\ Conn(Current(t)) = t /\ Current(t) # u
  <2> SUFFICES ASSUME NEW t \in Threads, pc[t] \in Entering
               PROVE  Current(t)' = Current(t) /\ Current(t) \in Users
                      /\ Conn(Current(t)) = t /\ Current(t) # u
    OBVIOUS
  <2>1. t \in Clients /\ t # c
    BY <1>10
  <2>2. Current(t) \in Users /\ Conn(Current(t)) = t
    BY <1>0, <2>1, CurrentUser
  <2> QED BY <1>6, <1>7, <2>1, <2>2 DEF Current
<1>13. \A v \in Users : v # u => /\ Tracked(v)' <=> Tracked(v)
                                 /\ Live(v)' <=> Live(v)
  BY <1>3, <1>9 DEF Tracked, Live
<1>14. /\ \A x \in Sessions : publisher[x] # u /\ u \notin players[x]
       /\ \A t \in Threads : u \notin todo[t] /\ leaving[t] # u
  <2>1. \A x \in Sessions : publisher[x] # u /\ u \notin players[x]
    BY <1>0, <1>7, <1>8, ConstantFacts DEF MembersOK
  <2>2. \A t \in Threads : u \notin todo[t]
    BY <1>0, <1>8 DEF ThreadsOK, Clearing
  <2>3. \A t \in Threads : leaving[t] # u
    BY <1>0, <1>7, <1>8 DEF ThreadsOK
  <2> QED BY <2>1, <2>2, <2>3
<1>15. TypeOK'
  <2>1. pc' \in [Threads -> {"idle", "set_publisher", "closing_old", "add_player",
                             "check_publisher", "close_session", "clear", "clearing"}]
    BY <1>0, <1>1 DEF TypeOK
  <2>2. /\ session_of' \in [Users -> Sessions \cup {None}]
        /\ kind' \in [Users -> {"none", "publish", "play"}]
        /\ context' \in [Clients -> Users \cup {None}]
    BY <1>0, <1>1, <1>3, <1>7 DEF TypeOK
  <2> QED BY <1>0, <1>3, <1>4, <1>6, <2>1, <2>2 DEF TypeOK
<1>16. UsersOK'
  <2>1. \A v \in Users : v[2] \in Nat /\ Conn(v) \in Clients
    BY UserPairs, ConstantFacts
  <2>2. created \in Nat /\ created' \in Nat /\ s \in Nat
    BY <1>0, <1>4, ConstantFacts DEF TypeOK
  <2>3. \A v \in Users : Replaced(v) => Replaced(v)'
    BY <1>8, <1>9 DEF Replaced
  <2>4. \A v \in Users : Conn(v) = c /\ session_of[v] # None => v[2] <= requests[c]
    BY <1>0 DEF UsersOK
  <2>5. \A v \in Users : v # u /\ Conn(v) = c /\ session_of[v] # None => Replaced(v)'
    BY <1>4, <1>6, <1>7, <1>9, <2>1, <2>4, ConstantFacts DEF Replaced
  <2>6. ASSUME NEW v \in Users, session_of'[v] # None
        PROVE  /\ v[2] <= requests'[Conn(v)] /\ session_of'[v] <= created'
               /\ context'[Conn(v)] = v \/ Replaced(v)' \/ v \in destroyed'
    <3>1. CASE v = u
      BY <1>4, <1>6, <1>7, <1>9, <3>1
    <3>2. CASE v # u
      <4>1. session_of'[v] = session_of[v] /\ session_of[v] \in Nat
        <5>1. session_of'[v] = session_of[v]
          BY <1>9, <3>2
        <5>2. session_of[v] \in Sessions \cup {None}
          BY <1>0 DEF TypeOK
        <5> QED BY <2>6, <5>1, <5>2, ConstantFacts
      <4>2. /\ v[2] <= requests[Conn(v)] /\ session_of[v] <= created
            /\ context[Conn(v)] = v \/ Replaced(v) \/ v \in destroyed
        BY <1>0, <2>6, <4>1 DEF UsersOK
      <4>3. v[2] <= requests'[Conn(v)] /\ session_of'[v] <= created'
        BY <1>4, <1>6, <2>1, <2>2, <4>1, <4>2
      <4>4. context'[Conn(v)] = v \/ Replaced(v)' \/ v \in destroyed'
        BY <1>3, <1>9, <2>1, <2>3, <2>5, <2>6, <3>2, <4>1, <4>2
      <4> QED BY <4>3, <4>4
    <3> QED BY <3>1, <3>2
  <2>7. \A v \in destroyed' : session_of'[v] # None
    BY <1>0, <1>3, <1>8, <1>9 DEF UsersOK, TypeOK
  <2>8. ASSUME NEW d \in Clients, context'[d] # None
        PROVE  /\ Conn(context'[d]) = d /\ d \in open'
               /\ session_of'[context'[d]] # None /\ ~Replaced(context[d])'
    <3>1. CASE d = c
      <4>1. context'[d] = u
        BY <1>9, <3>1
      <4>2. ASSUME NEW v \in Users, Conn(v) = c, v[2] > u[2] PROVE session_of'[v] = None
        <5>1. v # u /\ ~(v[2] <= requests[c])
          BY <1>6, <1>7, <2>1, <4>2
        <5> QED BY <1>9, <2>4, <4>2, <5>1
      <4>3. ~Replaced(context[d])'
        BY <1>7, <4>1, <4>2 DEF Replaced
      <4> QED BY <1>3, <1>4, <1>5, <1>7, <1>9, <3>1, <4>1, <4>3, ConstantFacts
    <3>2. CASE d # c
      <4>1. context'[d] = context[d] /\ context[d] \in Users /\ Conn(context[d]) = d
            /\ session_of[context[d]] # None /\ ~Replaced(context[d]) /\ d \in open
        BY <1>0, <1>9, <2>8, <3>2 DEF UsersOK, TypeOK
      <4>2. context[d] # u
        BY <1>7, <3>2, <4>1
      <4>3. ~Replaced(context[d])'
        BY <1>7, <1>9, <3>2, <4>1 DEF Replaced
      <4> QED BY <1>3, <1>9, <4>1, <4>2, <4>3
    <3> QED BY <3>1, <3>2
  <2> QED BY <2>6, <2>7, <2>8 DEF UsersOK
<1>17. MembersOK'
  <2>1. \A x \in Sessions : publisher[x] \in Users \cup {None} /\ players[x] \subseteq Users
    BY <1>0 DEF TypeOK
  <2> QED BY <1>0, <1>3, <1>9, <1>14, <2>1 DEF MembersOK
<1>18. CallsOK'
  <2> SUFFICES ASSUME NEW d \in Clients, pc'[d] \in Entering PROVE AboutToEnter(d)'
    BY DEF CallsOK
  <2>1. CASE d = c
    <3>1. ~Tracked(u)'
      BY <1>3, <1>9, <1>14 DEF Tracked
    <3>2. kind'[u] = "publish" <=> pc'[c] # "add_player"
      BY <1>0, <1>1, <1>9, <1>11 DEF TypeOK
    <3> QED BY <1>3, <1>6, <1>8, <1>9, <1>11, <1>14, <2>1, <3>1, <3>2, ConstantFacts
            DEF AboutToEnter, Tracked
  <2>2. CASE d # c
    <3>1. d \in Threads /\ pc'[d] = pc[d]
      BY <1>10, <2>2, ConstantFacts
    <3>2. Current(d)' = Current(d) /\ Current(d) \in Users /\ Current(d) # u /\ AboutToEnter(d)
      BY <1>0, <1>12, <3>1 DEF CallsOK
    <3> QED BY <1>3, <1>6, <1>9, <2>2, <3>1, <3>2 DEF AboutToEnter, Tracked
  <2> QED BY <2>1, <2>2
<1>19. ThreadsOK'
  <2>1. \A t \in Threads : pc'[t] \in Clearing <=> pc[t] \in Clearing
    BY <1>10, <1>11 DEF Entering, Clearing
  <2>2. work[Timer] = None /\ Timer # c
    BY <1>0, <1>4, ConstantFacts DEF ThreadsOK
  <2>3. ASSUME NEW d \in Shared, NEW e \in Shared PROVE d = e \/ AtRest(d)' \/ AtRest(e)'
    <3>1. d \in Threads /\ e \in Threads
      BY ConstantFacts
    <3>2. CASE c \in Shared
      BY <1>3, <1>10, <3>1, <3>2 DEF MayRequest, LoopFree, Mates, AtRest
    <3>3. CASE c \notin Shared
      BY <1>0, <1>3, <1>10, <3>1, <3>3 DEF ThreadsOK, AtRest
    <3> QED BY <3>2, <3>3
  <2>4. ASSUME NEW t \in Threads
        PROVE  /\ leaving'[t] # None => leaving'[t] \in destroyed' /\ Conn(leaving'[t]) \in Mates(t)
               /\ pc'[t] \in Clearing <=> work'[t] # None
               /\ todo'[t] # {} => pc'[t] = "clearing"
               /\ \A v \in todo'[t] : session_of'[v] = work'[t]
    <3>1. todo[t] # {} => t # c
      BY <1>0, <1>11 DEF ThreadsOK
    <3>2. todo[t] \subseteq Users
      BY <1>0 DEF TypeOK
    <3> QED BY <1>0, <1>3, <1>9, <1>10, <1>14, <2>1, <3>1, <3>2 DEF ThreadsOK
  <2>5. pc'[Timer] \in Clearing \cup {"idle"}
    BY <1>0, <1>10, <2>2, ConstantFacts DEF ThreadsOK
  <2> QED BY <1>3, <1>4, <2>2, <2>3, <2>4, <2>5 DEF ThreadsOK
<1>20. \A t \in Threads : /\ pc'[t] = "closing_old" <=> pc[t] = "closing_old"
                          /\ pc'[t] = "clearing" <=> pc[t] = "clearing"
                          /\ pc[t] = "closing_old" => session_of'[Current(t)'] = session_of[Current(t)]
  <2>1. \A t \in Threads : /\ pc'[t] = "closing_old" <=> pc[t] = "closing_old"
                           /\ pc'[t] = "clearing" <=> pc[t] = "clearing"
    BY <1>10, <1>11 DEF Entering
  <2>2. \A t \in Threads : pc[t] = "closing_old" => session_of'[Current(t)'] = session_of[Current(t)]
    BY <1>9, <1>12 DEF Entering
  <2> QED BY <2>1, <2>2
<1>21. LocksOK'
  BY <1>0, <1>3, <1>20 DEF LocksOK, Holds
<1>22. UnderLock'
  BY <1>0, <1>3, <1>20 DEF UnderLock
<1>23. Kept'
  <2>1. \A d \in Clients : d # c /\ context[d] # None => context[d] \in Users /\ context[d] # u
    BY <1>0, <1>7 DEF TypeOK, UsersOK
  <2>2. \A d \in Clients : d # c => pc'[d] = pc[d] /\ context'[d] = context[d]
    BY <1>9, <1>10, ConstantFacts
  <2>3. ASSUME NEW d \in Clients, d # c, context[d] # None
        PROVE  /\ Live(context[d])' <=> Live(context[d])
               /\ Tracked(context[d])' <=> Tracked(context[d])
    BY <1>3, <1>9, <2>1, <2>2, <2>3 DEF Live, Tracked
  <2> QED BY <1>0, <1>3, <1>11, <2>2, <2>3 DEF Kept
<1>24. GoneLeave'
  <2> SUFFICES ASSUME NEW v \in destroyed, Tracked(v)' PROVE OnTheWayOut(v)'
    BY <1>3 DEF GoneLeave
  <2>1. v \in Users /\ v # u /\ Tracked(v)
    BY <1>0, <1>8, <1>13 DEF TypeOK
  <2>2. OnTheWayOut(v)
    BY <1>0, <2>1 DEF GoneLeave
  <2> QED BY <1>3, <1>9, <1>20, <2>1, <2>2 DEF OnTheWayOut
<1>25. OrphansCameLate'
  <2> SUFFICES ASSUME NEW v \in Users, Live(v)', Tracked(v)', session_of'[v] # registry'
               PROVE  \/ v \in late'
                      \/ \E t \in Threads : work'[t] = session_of'[v] /\ (pc'[t] = "clear" \/ v \in todo'[t])
    BY DEF OrphansCameLate
  <2>1. v # u
    BY <1>4, <1>9
  <2>2. Live(v) /\ Tracked(v) /\ session_of[v] # registry
    BY <1>4, <1>9, <1>13, <2>1 DEF Live
  <2>3. \A t \in Threads : pc[t] = "clear" => pc'[t] = "clear"
    BY <1>10, <1>11
  <2> QED BY <1>0, <1>3, <1>9, <2>1, <2>2, <2>3 DEF OrphansCameLate
<1>26. RelocksOK'
  <2> SUFFICES ASSUME NEW t \in Threads, SelfDeadlock(t)' PROVE Earlier(leaving[t])'
    BY DEF RelocksOK
  <2>1. leaving[t] \in Users /\ leaving'[t] = leaving[t] /\ leaving[t] # u
    BY <1>0, <1>3, <1>14 DEF SelfDeadlock, TypeOK
  <2>2. SelfDeadlock(t)
    BY <1>3, <1>9, <2>1 DEF SelfDeadlock
  <2>3. Earlier(leaving[t])
    BY <1>0, <2>2 DEF RelocksOK
  <2> QED BY <1>0, <1>3, <1>8, <1>9, <2>1, <2>3 DEF Earlier, TypeOK
<1> QED BY <1>4, <1>15, <1>16, <1>17, <1>18, <1>19, <1>21, <1>22, <1>23, <1>24, <1>25, <1>26
        DEF SessionInv

-----------------------------------------------------------------------------
(* A user enters its session.                                              *)

\* SetPublisher, AddPlayer, and the end of SetPublisher once the old publisher is
\* closed: the session has the user of the current request, and its lock is free.
Entered(c, u, s) ==
  /\ pc[c] \in Entering /\ leaving[c] = None /\ u = Current(c) /\ s = session_of[u]
  /\ UNCHANGED <<serviceVars, silent, idle_long, userVars, connVars, work, todo, leaving>>
  /\ UNCHANGED <<cleared, dropped>>
  /\ late' = IF s \in cleared THEN late \cup {u} ELSE late
  /\ \E p \in {"idle", "check_publisher"} : pc' = [pc EXCEPT ![c] = p]
  /\ lock' \in [Sessions -> Threads \cup {Free}]
  /\ \A x \in Sessions : lock'[x] = IF x = s THEN Free ELSE lock[x]
  /\ lock[s] \in {Free, c}
  /\ IF kind[u] = "publish"
       THEN publisher' = [publisher EXCEPT ![s] = u] /\ publisher[s] \in destroyed \cup {None}
            /\ UNCHANGED players
       ELSE players' = [players EXCEPT ![s] = @ \cup {u}] /\ UNCHANGED publisher

\* The three steps in which a user enters are of that form.
LEMMA EnteringSteps ==
  ASSUME SessionInv, NEW c \in Clients, SetPublisher(c) \/ ReplacePublisher(c) \/ AddPlayer(c)
  PROVE  \E u \in Users, s \in Sessions : Entered(c, u, s)
<1>0. TypeOK /\ CallsOK /\ LocksOK /\ UnderLock
  BY DEF SessionInv
<1> USE DEF sessionVars, At, Enters
<1>1. pc[c] \in Entering /\ leaving[c] = None
  BY DEF SetPublisher, ReplacePublisher, AddPlayer, Entering
<1>2. PICK u \in Users : u = Current(c)
  BY <1>0, <1>1, CurrentUser
<1>3. PICK s \in Sessions : s = session_of[u]
  BY <1>0, <1>1, <1>2, CurrentUser
<1>4. c \in Threads /\ (kind[u] = "publish" <=> pc[c] # "add_player")
  BY <1>0, <1>1, <1>2, ConstantFacts DEF CallsOK, AboutToEnter
<1>5. CASE SetPublisher(c)
  <2>1. /\ UNCHANGED <<serviceVars, silent, idle_long, userVars, connVars, work, todo, leaving>>
        /\ UNCHANGED <<cleared, dropped, lock, players>>
        /\ late' = IF s \in cleared THEN late \cup {u} ELSE late
        /\ pc' = [pc EXCEPT ![c] = "idle"] /\ pc[c] = "set_publisher"
        /\ lock[s] = Free /\ ~MustClose(publisher[s])
        /\ publisher' = [publisher EXCEPT ![s] = u]
    BY <1>2, <1>3, <1>5 DEF SetPublisher
  <2>2. publisher[s] \in destroyed \cup {None} /\ kind[u] = "publish"
    BY <1>4, <2>1 DEF MustClose
  <2>3. lock' \in [Sessions -> Threads \cup {Free}]
        /\ \A x \in Sessions : lock'[x] = IF x = s THEN Free ELSE lock[x]
    BY <1>0, <2>1 DEF TypeOK
  <2> QED BY <1>1, <1>2, <1>3, <2>1, <2>2, <2>3 DEF Entered
<1>6. CASE ReplacePublisher(c)
  <2>1. /\ UNCHANGED <<serviceVars, silent, idle_long, userVars, connVars, work, todo, leaving>>
        /\ UNCHANGED <<cleared, dropped, players>>
        /\ late' = IF s \in cleared THEN late \cup {u} ELSE late
        /\ pc' = [pc EXCEPT ![c] = "idle"] /\ pc[c] = "closing_old"
        /\ lock' = [lock EXCEPT ![s] = Free]
        /\ publisher' = [publisher EXCEPT ![s] = u]
    BY <1>2, <1>3, <1>6 DEF ReplacePublisher
  <2>2. publisher[s] \in destroyed \cup {None} /\ kind[u] = "publish"
    BY <1>0, <1>2, <1>3, <1>4, <2>1 DEF UnderLock
  <2>3. lock' \in [Sessions -> Threads \cup {Free}]
        /\ \A x \in Sessions : lock'[x] = IF x = s THEN Free ELSE lock[x]
    BY <1>0, <2>1 DEF TypeOK
  <2>4. lock[s] = c
    BY <1>0, <1>2, <1>3, <1>4, <2>1 DEF LocksOK, Holds
  <2> QED BY <1>1, <1>2, <1>3, <2>1, <2>2, <2>3, <2>4 DEF Entered
<1>7. CASE AddPlayer(c)
  <2>1. /\ UNCHANGED <<serviceVars, silent, idle_long, userVars, connVars, work, todo, leaving>>
        /\ UNCHANGED <<cleared, dropped, lock, publisher>>
        /\ late' = IF s \in cleared THEN late \cup {u} ELSE late
        /\ pc' = [pc EXCEPT ![c] = "check_publisher"] /\ pc[c] = "add_player"
        /\ lock[s] = Free
        /\ players' = [players EXCEPT ![s] = @ \cup {u}]
    BY <1>2, <1>3, <1>7 DEF AddPlayer
  <2>2. kind[u] # "publish"
    BY <1>4, <2>1
  <2>3. lock' \in [Sessions -> Threads \cup {Free}]
        /\ \A x \in Sessions : lock'[x] = IF x = s THEN Free ELSE lock[x]
    BY <1>0, <2>1 DEF TypeOK
  <2> QED BY <1>1, <1>2, <1>3, <2>1, <2>2, <2>3 DEF Entered
<1> QED BY <1>5, <1>6, <1>7

\* An entering user is a member of its session, and a late one if that was cleared.
LEMMA EnteredKeeps ==
  ASSUME SessionInv, NEW c \in Clients, NEW u \in Users, NEW s \in Sessions, Entered(c, u, s)
  PROVE  SessionInv'
<1>0. /\ TypeOK /\ UsersOK /\ MembersOK /\ CallsOK /\ ThreadsOK /\ LocksOK /\ UnderLock
      /\ Kept /\ GoneLeave /\ SessionsKnown /\ OrphansCameLate /\ RelocksOK
  BY DEF SessionInv
<1>1. /\ pc[c] \in Entering /\ leaving[c] = None /\ u = Current(c) /\ s = session_of[u]
      /\ UNCHANGED <<registry, service_lock, created, silent, idle_long, session_of, kind, destroyed>>
      /\ UNCHANGED <<open, closing, context, requests, work, todo, leaving, cleared, dropped>>
      /\ late' = IF s \in cleared THEN late \cup {u} ELSE late
      /\ lock' \in [Sessions -> Threads \cup {Free}]
      /\ \A x \in Sessions : lock'[x] = IF x = s THEN Free ELSE lock[x]
      /\ lock[s] \in {Free, c}
  BY DEF Entered, serviceVars, userVars, connVars
<1>2. c \in Threads /\ Conn(u) = c /\ AboutToEnter(c) /\ u \notin destroyed
  BY <1>0, <1>1, CurrentUser, ConstantFacts DEF CallsOK, AboutToEnter
<1>3. /\ pc' \in [Threads -> {"idle", "set_publisher", "closing_old", "add_player",
                              "check_publisher", "close_session", "clear", "clearing"}]
      /\ pc'[c] \notin Entering \cup Clearing
      /\ \A t \in Threads : t # c => pc'[t] = pc[t]
  <2>1. PICK p \in {"idle", "check_publisher"} : pc' = [pc EXCEPT ![c] = p]
    BY DEF Entered
  <2> QED BY <1>0, <1>2, <2>1 DEF TypeOK, Entering, Clearing
<1>4. /\ publisher' \in [Sessions -> Users \cup {None}] /\ players' \in [Sessions -> SUBSET Users]
      /\ \A x \in Sessions :
           /\ x # s => publisher'[x] = publisher[x] /\ players'[x] = players[x]
           /\ publisher'[x] = publisher[x]
              \/ (publisher'[x] = u /\ kind[u] = "publish" /\ publisher[x] \in destroyed \cup {None})
           /\ players[x] \subseteq players'[x]
           /\ players'[x] \subseteq players[x] \cup {u}
           /\ kind[u] = "publish" => players'[x] = players[x]
  <2>0. publisher \in [Sessions -> Users \cup {None}] /\ players \in [Sessions -> SUBSET Users]
    BY <1>0 DEF TypeOK
  <2>1. CASE kind[u] = "publish"
    <3>1. /\ publisher' = [publisher EXCEPT ![s] = u] /\ publisher[s] \in destroyed \cup {None}
          /\ players' = players
      BY <2>1 DEF Entered
    <3>2. \A x \in Sessions : publisher'[x] = (IF x = s THEN u ELSE publisher[x])
                               /\ players'[x] = players[x]
      BY <2>0, <3>1
    <3>3. publisher' \in [Sessions -> Users \cup {None}] /\ players' \in [Sessions -> SUBSET Users]
      BY <2>0, <3>1
    <3>4. \A x \in Sessions :
            publisher'[x] = u => publisher'[x] = publisher[x] \/ publisher[x] \in destroyed \cup {None}
      BY <3>1, <3>2
    <3> QED BY <2>1, <3>2, <3>3, <3>4
  <2>2. CASE kind[u] # "publish"
    <3>1. players' = [players EXCEPT ![s] = players[s] \cup {u}] /\ publisher' = publisher
      BY <2>2 DEF Entered
    <3>2. \A x \in Sessions : publisher'[x] = publisher[x]
            /\ players'[x] = (IF x = s THEN players[s] \cup {u} ELSE players[x])
      BY <2>0, <3>1
    <3>3. publisher' \in [Sessions -> Users \cup {None}] /\ players' \in [Sessions -> SUBSET Users]
      BY <2>0, <3>1
    <3> QED BY <2>2, <3>2, <3>3
  <2> QED BY <2>1, <2>2
<1>5. Tracked(u)'
  <2>1. CASE kind[u] = "publish"
    BY <1>0, <1>1, <2>1 DEF Entered, TypeOK, Tracked
  <2>2. CASE kind[u] # "publish"
    BY <1>0, <1>1, <2>2 DEF Entered, TypeOK, Tracked
  <2> QED BY <2>1, <2>2
<1>6. \A v \in Users : v # u /\ session_of[v] # None =>
        /\ Tracked(v)' => Tracked(v)
        /\ Tracked(v) => Tracked(v)' \/ v \in destroyed
  <2> SUFFICES ASSUME NEW v \in Users, v # u, session_of[v] # None
               PROVE  /\ Tracked(v)' => Tracked(v)
                      /\ Tracked(v) => Tracked(v)' \/ v \in destroyed
    OBVIOUS
  <2>1. session_of[v] \in Sessions /\ v # None
    BY <1>0, UserPairs DEF TypeOK
  <2> QED BY <1>1, <1>4, <2>1 DEF Tracked
<1>7. \A t \in Threads : /\ Current(t)' = Current(t)
                         /\ pc'[t] \in Entering => pc[t] \in Entering /\ t # c
  BY <1>1, <1>3 DEF Current
<1>8. TypeOK'
  BY <1>0, <1>1, <1>3, <1>4 DEF TypeOK
<1>9. UsersOK' /\ SessionsKnown'
  BY <1>0, <1>1 DEF UsersOK, SessionsKnown, Replaced
<1>10. MembersOK'
  <2>1. ASSUME NEW x \in Sessions, publisher'[x] # None
        PROVE  session_of[publisher'[x]] = x /\ kind[publisher'[x]] = "publish"
    <3>1. CASE publisher'[x] = publisher[x]
      BY <1>0, <2>1, <3>1 DEF MembersOK
    <3>2. CASE publisher'[x] # publisher[x]
      BY <1>1, <1>4, <3>2
    <3> QED BY <3>1, <3>2
  <2>2. ASSUME NEW x \in Sessions, NEW v \in players'[x]
        PROVE  session_of[v] = x /\ kind[v] # "publish"
    <3>1. CASE v \in players[x]
      BY <1>0, <3>1 DEF MembersOK
    <3>2. CASE v \notin players[x]
      BY <1>1, <1>4, <2>2, <3>2
    <3> QED BY <3>1, <3>2
  <2> QED BY <1>1, <2>1, <2>2 DEF MembersOK
<1>11. CallsOK'
  <2> SUFFICES ASSUME NEW d \in Clients, pc'[d] \in Entering PROVE AboutToEnter(d)'
    BY DEF CallsOK
  <2>1. d \in Threads /\ d # c /\ pc'[d] = pc[d] /\ AboutToEnter(d)
    BY <1>0, <1>3, <1>7, ConstantFacts DEF CallsOK
  <2>2. /\ Current(d)' = Current(d) /\ Current(d) \in Users /\ Current(d) # u
        /\ session_of[Current(d)] # None
    BY <1>0, <1>2, <1>7, <2>1, CurrentUser, ConstantFacts
  <2>3. ~Tracked(Current(d))'
    <3>1. PICK v \in Users : v = Current(d)
      BY <2>2
    <3>2. ~Tracked(v)'
      BY <1>6, <2>1, <2>2, <3>1 DEF AboutToEnter
    <3> QED BY <2>2, <3>1, <3>2 DEF Tracked
  <2> QED BY <1>1, <2>1, <2>2, <2>3 DEF AboutToEnter
<1>12. ThreadsOK'
  <2>1. \A t \in Threads : /\ pc'[t] \in Clearing <=> pc[t] \in Clearing
                           /\ pc'[t] = "clearing" <=> pc[t] = "clearing"
    BY <1>1, <1>3 DEF Entering, Clearing
  <2>2. \A t \in Threads : AtRest(t) => AtRest(t)'
    BY <1>1, <1>3 DEF AtRest, Entering
  <2>3. Timer # c
    BY ConstantFacts
  <2>4. pc'[Timer] \in Clearing \cup {"idle"}
    BY <1>0, <1>3, <2>3, ConstantFacts DEF ThreadsOK
  <2>5. \A d, e \in Shared : d = e \/ AtRest(d)' \/ AtRest(e)'
    BY <1>0, <2>2, ConstantFacts DEF ThreadsOK
  <2> QED BY <1>0, <1>1, <2>1, <2>4, <2>5 DEF ThreadsOK
<1>13. \A t \in Threads, x \in Sessions : Holds(t, x)' <=> Holds(t, x) /\ t # c
  BY <1>1, <1>3, <1>7 DEF Holds, Entering, Clearing
<1>14. LocksOK'
  <2> SUFFICES ASSUME NEW x \in Sessions, NEW t \in Threads
               PROVE  lock'[x] = t <=> Holds(t, x)'
    BY DEF LocksOK
  <2>1. lock[x] = t <=> Holds(t, x)
    BY <1>0 DEF LocksOK
  <2>2. Holds(c, x) => x = s
    BY <1>1 DEF Holds, Entering
  <2> QED BY <1>1, <1>13, <2>1, <2>2, ConstantFacts
<1>15. \A t \in Threads : Holds(t, s) => t = c
  BY <1>0, <1>1, ConstantFacts DEF LocksOK
<1>16. UnderLock'
  <2> SUFFICES ASSUME NEW t \in Threads
               PROVE  /\ pc'[t] = "closing_old" => publisher'[session_of'[Current(t)']] \in destroyed'
                      /\ pc'[t] = "clearing" =>
                           /\ publisher'[work'[t]] \in todo'[t] \cup destroyed' \cup {None}
                           /\ players'[work'[t]] \subseteq todo'[t] \cup destroyed'
    BY DEF UnderLock
  <2>1. CASE t = c
    BY <1>3, <2>1 DEF Entering, Clearing
  <2>2. CASE t # c /\ pc[t] = "closing_old"
    <3>1. session_of[Current(t)] \in Sessions
      BY <1>0, <2>2, CurrentUser DEF Entering, ThreadsOK, Threads, Clearing
    <3>2. session_of[Current(t)] # s
      BY <1>15, <2>2 DEF Holds
    <3> QED BY <1>0, <1>1, <1>3, <1>4, <1>7, <2>2, <3>1, <3>2 DEF UnderLock
  <2>3. CASE t # c /\ pc[t] = "clearing"
    <3>1. work[t] \in Sessions
      BY <1>0, <2>3 DEF ThreadsOK, Clearing, TypeOK
    <3>2. work[t] # s
      BY <1>15, <2>3 DEF Holds
    <3> QED BY <1>0, <1>1, <1>3, <1>4, <2>3, <3>1, <3>2 DEF UnderLock
  <2> QED BY <1>3, <2>1, <2>2, <2>3
<1>17. Kept'
  <2> SUFFICES ASSUME NEW d \in Clients, context[d] # None, Live(context[d]), pc'[d] \notin Entering
               PROVE  Tracked(context[d])' \/ context[d] \in dropped
    BY <1>1 DEF Kept, Live
  <2>1. PICK v \in Users : v = context[d]
    BY <1>0 DEF TypeOK
  <2>2. CASE v = u
    BY <1>1, <1>5, <2>1, <2>2
  <2>3. CASE v # u
    <3>1. d # c
      BY <1>1, <1>2, <2>1, <2>3 DEF AboutToEnter
    <3>2. Tracked(v) \/ v \in dropped
      BY <1>0, <1>3, <2>1, <3>1, ConstantFacts DEF Kept
    <3>3. session_of[v] # None /\ v \notin destroyed
      BY <2>1 DEF Live
    <3>4. Tracked(v)' \/ v \in dropped
      BY <1>6, <2>3, <3>2, <3>3
    <3> QED BY <1>1, <2>1, <3>4 DEF Tracked
  <2> QED BY <2>2, <2>3
<1>18. GoneLeave'
  <2> SUFFICES ASSUME NEW v \in destroyed, Tracked(v)' PROVE OnTheWayOut(v)'
    BY <1>1 DEF GoneLeave
  <2>1. v \in Users /\ v # u /\ session_of[v] # None /\ v # None
    BY <1>0, <1>2, UserPairs DEF TypeOK, UsersOK
  <2>2. OnTheWayOut(v)
    BY <1>0, <1>6, <2>1 DEF GoneLeave
  <2>3. ASSUME pc[c] = "closing_old", session_of[v] = s, kind[v] = "publish" PROVE FALSE
    <3>1. kind[u] = "publish"
      BY <1>1, <1>2, <2>3 DEF AboutToEnter
    <3>2. publisher'[s] = u
      BY <1>0, <3>1 DEF Entered, TypeOK
    <3> QED BY <1>1, <2>1, <2>3, <3>2 DEF Tracked
  <2> QED BY <1>1, <1>3, <1>7, <2>2, <2>3 DEF OnTheWayOut, Entering
<1>19. OrphansCameLate'
  <2> SUFFICES ASSUME NEW v \in Users, Live(v), Tracked(v)', session_of[v] # registry
               PROVE  \/ v \in late'
                      \/ \E t \in Threads : work[t] = session_of[v] /\ (pc'[t] = "clear" \/ v \in todo[t])
    BY <1>1 DEF OrphansCameLate, Live
  <2>1. CASE v = u
    <3>1. CASE s \in cleared
      BY <1>1, <2>1, <3>1
    <3>2. CASE s \notin cleared
      <4>1. s \in 1 .. created
        <5>1. created \in Nat /\ s \in 1 .. MaxSessions /\ MaxSessions \in Nat
          BY <1>0, ConstantFacts DEF TypeOK, Sessions
        <5>2. s <= created
          BY <1>0, <1>1, <2>1 DEF UsersOK, Live
        <5> QED BY <5>1, <5>2
      <4>2. PICK t \in Threads : work[t] = s
        BY <1>0, <1>1, <2>1, <3>2, <4>1 DEF SessionsKnown
      <4>3. pc[t] \in Clearing
        BY <1>0, <1>1, <2>1, <4>2, ConstantFacts DEF ThreadsOK
      <4>4. t # c
        BY <1>1, <4>3 DEF Entering, Clearing
      <4>5. pc[t] # "clearing"
        BY <1>15, <4>2, <4>4 DEF Holds
      <4> QED BY <1>1, <1>3, <2>1, <4>2, <4>3, <4>4, <4>5 DEF Clearing
    <3> QED BY <3>1, <3>2
  <2>2. CASE v # u
    <3>1. Tracked(v)
      BY <1>6, <2>2 DEF Live
    <3>2. \A t \in Threads : pc[t] = "clear" => pc'[t] = "clear"
      BY <1>1, <1>3 DEF Entering
    <3> QED BY <1>0, <1>1, <3>1, <3>2 DEF OrphansCameLate
  <2> QED BY <2>1, <2>2
<1>20. RelocksOK'
  <2> SUFFICES ASSUME NEW t \in Threads, SelfDeadlock(t)' PROVE Earlier(leaving[t])
    BY <1>1 DEF RelocksOK, Earlier
  <2>1. leaving[t] \in destroyed /\ leaving[t] # None
    BY <1>0, <1>1 DEF SelfDeadlock, ThreadsOK
  <2>2. session_of[leaving[t]] \in Sessions
    BY <1>0, <2>1 DEF UsersOK, TypeOK
  <2>3. SelfDeadlock(t)
    BY <1>1, <2>1, <2>2, ConstantFacts DEF SelfDeadlock
  <2> QED BY <1>0, <2>3 DEF RelocksOK
<1> QED BY <1>8, <1>9, <1>10, <1>11, <1>12, <1>14, <1>16, <1>17, <1>18, <1>19, <1>20
        DEF SessionInv

-----------------------------------------------------------------------------
(* Closing a session.                                                      *)

\* CheckPublisher, CloseSession and OnTimer move a thread that is not in a session,
\* and may take the registered session for it to clear.
Taken(t, p) ==
  /\ pc[t] \notin Entering \cup Clearing
  /\ UNCHANGED <<created, sessionVars, userVars, connVars, todo, leaving, historyVars>>
  /\ pc' = [pc EXCEPT ![t] = p]
  /\ p = "idle" \/ (t \in Clients /\ pc[t] # "idle") \/ (t = Timer /\ p = "clear")
  /\ IF p # "clear"
       THEN /\ UNCHANGED <<service_lock, work>>
            /\ registry' = registry
       ELSE /\ registry # None /\ work' = [work EXCEPT ![t] = registry]
            /\ IF t = Timer THEN service_lock' = Timer /\ UNCHANGED registry
                            ELSE registry' = None /\ UNCHANGED service_lock
                                 /\ service_lock = Free

\* The three steps that look for a session to clear are of that form.
LEMMA TakingSteps ==
  ASSUME SessionInv, NEW t \in Threads,
         \/ t \in Clients /\ (CheckPublisher(t) \/ CloseSession(t))
         \/ t = Timer /\ OnTimer
  PROVE  \E p \in {"idle", "close_session", "clear"} : Taken(t, p)
<1>0. TypeOK /\ ThreadsOK
  BY DEF SessionInv
<1> USE DEF At, AtRest, Entering, Clearing
<1>1. CASE t \in Clients /\ CheckPublisher(t)
  <2>1. PICK p \in {"idle", "close_session"} : pc' = [pc EXCEPT ![t] = p]
    BY <1>1 DEF CheckPublisher
  <2>2. /\ pc[t] = "check_publisher"
        /\ UNCHANGED <<created, sessionVars, userVars, connVars, todo, leaving, historyVars>>
        /\ UNCHANGED <<registry, service_lock, work>>
    BY <1>1 DEF CheckPublisher, serviceVars
  <2>3. Taken(t, p)
    BY <1>1, <2>1, <2>2 DEF Taken
  <2> QED BY <2>3
<1>2. CASE t \in Clients /\ CloseSession(t)
  <2>1. t # Timer /\ work[t] = None /\ pc[t] = "close_session"
    BY <1>0, <1>2, ConstantFacts DEF CloseSession, ThreadsOK
  <2>2. work = [work EXCEPT ![t] = None]
    BY <1>0, <2>1 DEF TypeOK
  <2>3. PICK p \in {"idle", "clear"} :
          pc' = [pc EXCEPT ![t] = p] /\ (p = "idle" <=> registry = None)
    BY <1>2 DEF CloseSession
  <2>4. /\ UNCHANGED <<created, sessionVars, userVars, connVars, todo, leaving, historyVars>>
        /\ registry' = None /\ work' = [work EXCEPT ![t] = registry]
        /\ UNCHANGED service_lock /\ service_lock = Free
    BY <1>2 DEF CloseSession
  <2>5. Taken(t, p)
    BY <1>2, <2>1, <2>2, <2>3, <2>4 DEF Taken
  <2> QED BY <2>5
<1>3. CASE t = Timer /\ OnTimer
  <2>1. Taken(t, "clear")
    BY <1>3 DEF OnTimer, Taken
  <2> QED BY <2>1
<1> QED BY <1>1, <1>2, <1>3

\* A session that is taken to be cleared is no longer lost.
LEMMA TakenKeeps ==
  ASSUME SessionInv, NEW t \in Threads, NEW p \in {"idle", "close_session", "clear"}, Taken(t, p)
  PROVE  SessionInv'
<1>0. /\ TypeOK /\ UsersOK /\ MembersOK /\ CallsOK /\ ThreadsOK /\ LocksOK /\ UnderLock
      /\ Kept /\ GoneLeave /\ SessionsKnown /\ OrphansCameLate /\ RelocksOK
  BY DEF SessionInv
<1>1. /\ pc[t] \notin Entering \cup Clearing
      /\ UNCHANGED <<created, publisher, players, lock, silent, idle_long, session_of, kind>>
      /\ UNCHANGED <<destroyed, open, closing, context, requests, todo, leaving>>
      /\ UNCHANGED <<cleared, late, dropped>>
  BY DEF Taken, sessionVars, userVars, connVars, historyVars
<1>2. /\ pc' = [pc EXCEPT ![t] = p]
      /\ p = "idle" \/ (t \in Clients /\ pc[t] # "idle") \/ (t = Timer /\ p = "clear")
      /\ IF p # "clear"
           THEN /\ UNCHANGED <<service_lock, work>>
                /\ registry' = registry
           ELSE /\ registry # None /\ work' = [work EXCEPT ![t] = registry]
                /\ IF t = Timer THEN service_lock' = Timer /\ UNCHANGED registry
                                ELSE registry' = None /\ UNCHANGED service_lock
                                     /\ service_lock = Free
  BY DEF Taken
<1>3. /\ pc'[t] = p
      /\ \A r \in Threads : r # t => pc'[r] = pc[r] /\ work'[r] = work[r]
      /\ work[t] = None
      /\ work'[t] = IF p = "clear" THEN registry ELSE None
      /\ registry' = registry \/ (registry' = None /\ work'[t] = registry)
  <2>1. work[t] = None
    BY <1>0, <1>1 DEF ThreadsOK
  <2> QED BY <1>0, <1>2, <2>1 DEF TypeOK
<1>4. TypeOK'
  <2>1. pc' \in [Threads -> {"idle", "set_publisher", "closing_old", "add_player",
                             "check_publisher", "close_session", "clear", "clearing"}]
    BY <1>0, <1>2 DEF TypeOK
  <2>2. work' \in [Threads -> Sessions \cup {None}] /\ service_lock' \in {Timer, Free}
        /\ registry' \in Sessions \cup {None}
    BY <1>0, <1>2 DEF TypeOK
  <2> QED BY <1>0, <1>1, <2>1, <2>2 DEF TypeOK
<1>5. UsersOK' /\ MembersOK'
  BY <1>0, <1>1 DEF UsersOK, MembersOK, Replaced
<1>6. \A r \in Threads : /\ Current(r)' = Current(r)
                         /\ pc'[r] \in Entering <=> pc[r] \in Entering
                         /\ pc'[r] = "clearing" <=> pc[r] = "clearing"
                         /\ pc'[r] = "closing_old" <=> pc[r] = "closing_old"
                         /\ pc[r] = "clear" => pc'[r] = "clear"
  BY <1>1, <1>3 DEF Current, Entering, Clearing
<1>7. \A r \in Threads : work[r] # None => work'[r] = work[r] /\ r # t
  BY <1>3
<1>8. CallsOK'
  <2> SUFFICES ASSUME NEW d \in Clients, pc'[d] \in Entering PROVE AboutToEnter(d)'
    BY DEF CallsOK
  <2>1. d \in Threads /\ d # t /\ pc'[d] = pc[d] /\ Current(d)' = Current(d) /\ AboutToEnter(d)
    BY <1>0, <1>1, <1>3, <1>6, ConstantFacts DEF CallsOK
  <2> QED BY <1>1, <2>1 DEF AboutToEnter, Tracked
<1>9. ThreadsOK'
  <2>1. ASSUME NEW r \in Threads
        PROVE  /\ leaving'[r] # None => leaving'[r] \in destroyed' /\ Conn(leaving'[r]) \in Mates(r)
               /\ pc'[r] \in Clearing <=> work'[r] # None
               /\ todo'[r] # {} => pc'[r] = "clearing"
               /\ \A v \in todo'[r] : session_of'[v] = work'[r]
    <3>1. pc'[r] \in Clearing <=> work'[r] # None
      BY <1>0, <1>2, <1>3 DEF ThreadsOK, Clearing
    <3>2. todo[r] # {} => pc'[r] = "clearing" /\ work'[r] = work[r]
      BY <1>0, <1>3, <1>6, <1>7 DEF ThreadsOK, Clearing
    <3> QED BY <1>0, <1>1, <3>1, <3>2 DEF ThreadsOK
  <2>2. \A d \in Shared : AtRest(d) => AtRest(d)'
    <3>1. ASSUME NEW d \in Shared, AtRest(d) PROVE AtRest(d)'
      <4>1. d \in Threads /\ d # Timer
        BY ConstantFacts
      <4>2. CASE d = t
        BY <1>1, <1>2, <1>3, <3>1, <4>1, <4>2 DEF AtRest
      <4>3. CASE d # t
        BY <1>1, <1>3, <3>1, <4>1, <4>3 DEF AtRest
      <4> QED BY <4>2, <4>3
    <3> QED BY <3>1
  <2>3. \A d, e \in Shared : d = e \/ AtRest(d)' \/ AtRest(e)'
    BY <1>0, <2>2 DEF ThreadsOK
  <2>4. pc'[Timer] \in Clearing \cup {"idle"}
    <3>1. CASE t = Timer
      BY <1>2, <1>3, <3>1, ConstantFacts DEF Clearing
    <3>2. CASE t # Timer
      BY <1>0, <1>3, <3>2, ConstantFacts DEF ThreadsOK
    <3> QED BY <3>1, <3>2
  <2>5. /\ service_lock' = Timer <=> work'[Timer] # None
        /\ work'[Timer] # None => work'[Timer] = registry'
    <3>1. CASE t = Timer
      BY <1>0, <1>2, <1>3, <3>1 DEF ThreadsOK
    <3>2. CASE t # Timer
      <4>1. work'[Timer] = work[Timer] /\ service_lock' = service_lock
        BY <1>2, <1>3, <3>2, ConstantFacts
      <4>2. work[Timer] # None => registry' = registry
        BY <1>0, <1>2, <3>2, ConstantFacts DEF ThreadsOK
      <4> QED BY <1>0, <4>1, <4>2 DEF ThreadsOK
    <3> QED BY <3>1, <3>2
  <2> QED BY <2>1, <2>3, <2>4, <2>5 DEF ThreadsOK
<1>10. \A r \in Threads, x \in Sessions : Holds(r, x)' <=> Holds(r, x)
  BY <1>0, <1>1, <1>3, <1>6 DEF Holds, Clearing, Entering
<1>11. LocksOK'
  BY <1>0, <1>1, <1>10 DEF LocksOK
<1>12. UnderLock'
  <2>1. \A r \in Threads : pc'[r] = "clearing" => work'[r] = work[r]
    BY <1>1, <1>3 , <1>6 DEF Clearing
  <2> QED BY <1>0, <1>1, <1>6, <2>1 DEF UnderLock
<1>13. Kept'
  BY <1>0, <1>1, <1>6, ConstantFacts DEF Kept, Live, Tracked
<1>14. GoneLeave'
  <2> SUFFICES ASSUME NEW v \in destroyed, Tracked(v) PROVE OnTheWayOut(v)'
    BY <1>1 DEF GoneLeave, Tracked
  <2>1. OnTheWayOut(v)
    BY <1>0 DEF GoneLeave
  <2>2. \A r \in Threads : pc[r] = "clearing" => work'[r] = work[r]
    BY <1>1, <1>3 DEF Clearing
  <2> QED BY <1>1, <1>6, <2>1, <2>2 DEF OnTheWayOut
<1>15. SessionsKnown'
  <2>1. registry' # None => registry' <= created'
    BY <1>0, <1>1, <1>3 DEF SessionsKnown
  <2>2. ASSUME NEW x \in 1 .. created, x # registry', x \notin cleared
        PROVE  \E r \in Threads : work'[r] = x
    <3>1. x # None
      BY <1>0, ConstantFacts DEF TypeOK
    <3> QED BY <1>0, <1>3, <1>7, <2>2, <3>1 DEF SessionsKnown
  <2> QED BY <1>1, <2>1, <2>2 DEF SessionsKnown
<1>16. OrphansCameLate'
  <2> SUFFICES ASSUME NEW v \in Users, Live(v), Tracked(v), session_of[v] # registry'
               PROVE  \/ v \in late
                      \/ \E r \in Threads : work'[r] = session_of[v] /\ (pc'[r] = "clear" \/ v \in todo[r])
    BY <1>1 DEF OrphansCameLate, Live, Tracked
  <2>1. CASE session_of[v] = registry
    <3>1. work'[t] = registry /\ p = "clear"
      BY <1>3, <2>1 DEF Live
    <3> QED BY <1>3, <2>1, <3>1
  <2>2. CASE session_of[v] # registry
    BY <1>0, <1>1, <1>6, <1>7, <2>2 DEF OrphansCameLate, Live
  <2> QED BY <2>1, <2>2
<1>17. RelocksOK'
  BY <1>0, <1>1 DEF RelocksOK, SelfDeadlock, Earlier
<1> QED BY <1>4, <1>5, <1>8, <1>9, <1>11, <1>12, <1>13, <1>14, <1>15, <1>16, <1>17
        DEF SessionInv

\* Thread t closes user u of session s with its lock held: for the publisher that
\* takes over (SetPublisher), or to clear the session (CloseUserNoLock).  q is the
\* user that t then waits for to leave, if the connection was closed inline.
Evicts(t, u, s, q) ==
  /\ leaving[t] = None /\ session_of[u] = s
  /\ Closes(t, {u} \cup ({q} \ {None}), q)
  /\ q # None => Conn(q) = Conn(u) /\ u[2] < q[2]
  /\ UNCHANGED <<serviceVars, players, silent, session_of, kind, requests, work, historyVars>>
  /\ idle_long' \in SUBSET Sessions
  /\ todo' = [todo EXCEPT ![t] = @ \ {u}]
  /\ publisher' \in [Sessions -> Users \cup {None}]
  /\ \A x \in Sessions : publisher'[x] = publisher[x] \/ (publisher'[x] = None /\ publisher[x] = u)
  /\ \/ /\ pc[t] = "clearing" /\ work[t] = s /\ u \in todo[t]
        /\ u \in destroyed \/ publisher'[s] # u
        /\ UNCHANGED <<pc, lock>>
     \/ /\ pc[t] = "set_publisher" /\ pc' = [pc EXCEPT ![t] = "closing_old"]
        /\ session_of[Current(t)] = s /\ publisher[s] = u /\ UNCHANGED publisher
        /\ lock[s] = Free /\ lock' = [lock EXCEPT ![s] = t]

\* CloseOldPublisher and CloseUserNoLock are of that form.
LEMMA EvictingSteps ==
  ASSUME SessionInv, NEW t \in Threads,
         \/ t \in Clients /\ CloseOldPublisher(t)
         \/ \E u \in Users : CloseUserNoLock(t, u)
  PROVE  \E u \in Users, s \in Sessions, q \in Users \cup {None} : Evicts(t, u, s, q)
<1>0. TypeOK /\ UsersOK /\ MembersOK /\ CallsOK /\ ThreadsOK
  BY DEF SessionInv
<1> USE DEF At
<1>1. CASE t \in Clients /\ CloseOldPublisher(t)
  <2>1. pc[t] = "set_publisher" /\ leaving[t] = None
    BY <1>1 DEF CloseOldPublisher
  <2>2. PICK s \in Sessions : s = session_of[Current(t)]
    BY <1>0, <1>1, <2>1, CurrentUser DEF Entering
  <2>3. PICK u \in Users : u = publisher[s]
    BY <1>0, <1>1, <2>2 DEF CloseOldPublisher, MustClose, TypeOK
  <2>4. session_of[u] = s /\ s # None
    BY <1>0, <2>3, UserPairs, ConstantFacts DEF MembersOK
  <2>5. /\ CloseConn(t, u)
        /\ lock[s] = Free /\ lock' = [lock EXCEPT ![s] = t]
        /\ pc' = [pc EXCEPT ![t] = "closing_old"]
        /\ UNCHANGED <<serviceVars, publisher, players, silent, idle_long, session_of, kind>>
        /\ UNCHANGED <<requests, work, todo, historyVars>>
    <3>1. CloseConn(t, publisher[s])
      BY <1>1, <2>2 DEF CloseOldPublisher
    <3>2. CloseConn(t, u)
      BY <2>3, <3>1 DEF CloseConn, OnClose, ForceClose
    <3> QED BY <1>1, <2>2, <3>2 DEF CloseOldPublisher
  <2>6. PICK q \in Users \cup {None} :
          /\ Closes(t, {u} \cup ({q} \ {None}), q)
          /\ q # None => Conn(q) = Conn(u) /\ u[2] < q[2]
    BY <2>1, <2>4, <2>5, CloseConnCloses
  <2>7. todo' = [todo EXCEPT ![t] = @ \ {u}]
    <3>1. todo[t] = {}
      BY <1>0, <2>1 DEF ThreadsOK
    <3> QED BY <1>0, <2>5, <3>1 DEF TypeOK
  <2>8. publisher' \in [Sessions -> Users \cup {None}] /\ idle_long' \in SUBSET Sessions
    BY <1>0, <2>5 DEF TypeOK
  <2>9. Evicts(t, u, s, q)
    BY <2>1, <2>2, <2>3, <2>4, <2>5, <2>6, <2>7, <2>8 DEF Evicts
  <2> QED BY <2>9
<1>2. ASSUME NEW u \in Users, CloseUserNoLock(t, u)
      PROVE  \E s \in Sessions, q \in Users \cup {None} : Evicts(t, u, s, q)
  <2>1. pc[t] = "clearing" /\ leaving[t] = None /\ u \in todo[t]
    BY <1>2 DEF CloseUserNoLock
  <2>2. PICK s \in Sessions : s = work[t]
    BY <1>0, <2>1 DEF ThreadsOK, Clearing, TypeOK
  <2>3. session_of[u] = s /\ s # None
    BY <1>0, <2>1, <2>2, ConstantFacts DEF ThreadsOK
  <2>4. /\ UNCHANGED <<serviceVars, players, lock, silent, session_of, kind, requests, pc, work>>
        /\ UNCHANGED historyVars
        /\ todo' = [todo EXCEPT ![t] = @ \ {u}]
    BY <1>2 DEF CloseUserNoLock
  <2>5. CASE Unclosed(s, u)
    <3>1. /\ CloseConn(t, u)
          /\ publisher' = [publisher EXCEPT ![s] = IF @ = u THEN None ELSE @]
          /\ idle_long' = IF kind[u] = "play" THEN idle_long \ {s} ELSE idle_long
      BY <1>2, <2>2, <2>5 DEF CloseUserNoLock
    <3>2. PICK q \in Users \cup {None} :
            /\ Closes(t, {u} \cup ({q} \ {None}), q)
            /\ q # None => Conn(q) = Conn(u) /\ u[2] < q[2]
      BY <2>1, <2>3, <3>1, CloseConnCloses
    <3>3. /\ publisher' \in [Sessions -> Users \cup {None}] /\ idle_long' \in SUBSET Sessions
          /\ \A x \in Sessions :
               publisher'[x] = publisher[x] \/ (publisher'[x] = None /\ publisher[x] = u)
          /\ publisher'[s] # u
      BY <1>0, <3>1, UserPairs DEF TypeOK
    <3>4. Evicts(t, u, s, q)
      BY <2>1, <2>2, <2>3, <2>4, <3>2, <3>3 DEF Evicts
    <3> QED BY <3>4
  <2>6. CASE ~Unclosed(s, u)
    <3>1. UNCHANGED <<publisher, idle_long, open, closing, context, destroyed, leaving>>
      BY <1>2, <2>2, <2>6 DEF CloseUserNoLock
    <3>2. u \in destroyed
      BY <2>6 DEF Unclosed
    <3>3. /\ open' \in SUBSET Clients /\ closing' \in SUBSET Clients
          /\ context' \in [Clients -> Users \cup {None}]
          /\ publisher' \in [Sessions -> Users \cup {None}] /\ idle_long' \in SUBSET Sessions
          /\ leaving' = [leaving EXCEPT ![t] = None]
      BY <1>0, <2>1, <3>1 DEF TypeOK
    <3>4. Closes(t, {u} \cup ({None} \ {None}), None)
      BY <2>3, <3>1, <3>2, <3>3 DEF Closes
    <3>5. Evicts(t, u, s, None)
      BY <2>1, <2>2, <2>3, <2>4, <3>1, <3>2, <3>3, <3>4 DEF Evicts
    <3> QED BY <3>5
  <2> QED BY <2>5, <2>6
<1> QED BY <1>1, <1>2

\* A user that is closed with the lock held is on its way out of the session.
LEMMA EvictedKeeps ==
  ASSUME SessionInv, NEW t \in Threads, NEW u \in Users, NEW s \in Sessions,
         NEW q \in Users \cup {None}, Evicts(t, u, s, q)
  PROVE  SessionInv'
<1>0. /\ TypeOK /\ UsersOK /\ MembersOK /\ CallsOK /\ ThreadsOK /\ LocksOK /\ UnderLock
      /\ Kept /\ GoneLeave /\ SessionsKnown /\ OrphansCameLate /\ RelocksOK
  BY DEF SessionInv
<1> DEFINE D == {u} \cup ({q} \ {None})
<1>1. Closes(t, D, q)
  BY DEF Evicts
<1>2. /\ leaving[t] = None /\ session_of[u] = s /\ s # None /\ u # None
      /\ q # None => Conn(q) = Conn(u) /\ u[2] < q[2]
      /\ UNCHANGED <<registry, service_lock, created, players, silent, session_of, kind>>
      /\ UNCHANGED <<requests, work, cleared, late, dropped>>
      /\ idle_long' \in SUBSET Sessions
      /\ publisher' \in [Sessions -> Users \cup {None}]
      /\ \A x \in Sessions : publisher'[x] = publisher[x] \/ (publisher'[x] = None /\ publisher[x] = u)
  BY UserPairs, ConstantFacts DEF Evicts, serviceVars, historyVars
<1>3. /\ todo' \in [Threads -> SUBSET Users]
      /\ \A r \in Threads : todo'[r] = IF r = t THEN todo[t] \ {u} ELSE todo[r]
  <2>1. todo' = [todo EXCEPT ![t] = todo[t] \ {u}]
    BY DEF Evicts
  <2> QED BY <1>0, <2>1 DEF TypeOK
<1>4. \/ /\ pc[t] = "clearing" /\ work[t] = s /\ u \in todo[t]
         /\ u \in destroyed \/ publisher'[s] # u
         /\ UNCHANGED <<pc, lock>>
      \/ /\ pc[t] = "set_publisher" /\ pc' = [pc EXCEPT ![t] = "closing_old"]
         /\ session_of[Current(t)] = s /\ publisher[s] = u /\ UNCHANGED publisher
         /\ lock[s] = Free /\ lock' = [lock EXCEPT ![s] = t]
  BY DEF Evicts
<1>5. /\ pc' \in [Threads -> {"idle", "set_publisher", "closing_old", "add_player",
                              "check_publisher", "close_session", "clear", "clearing"}]
      /\ lock' \in [Sessions -> Threads \cup {Free}]
      /\ \A r \in Threads : r # t => pc'[r] = pc[r]
      /\ \/ pc[t] = "clearing" /\ pc'[t] = "clearing"
         \/ pc[t] = "set_publisher" /\ pc'[t] = "closing_old"
      /\ \A x \in Sessions : x # s => lock'[x] = lock[x]
      /\ lock'[s] = t /\ lock[s] \in {t, Free}
  <2>1. CASE pc[t] = "clearing"
    <3>1. UNCHANGED <<pc, lock>> /\ work[t] = s
      BY <1>4, <2>1
    <3>2. lock[s] = t
      BY <1>0, <2>1, <3>1 DEF LocksOK, Holds
    <3> QED BY <1>0, <2>1, <3>1, <3>2 DEF TypeOK
  <2>2. CASE pc[t] # "clearing"
    BY <1>0, <1>4, <2>2 DEF TypeOK
  <2> QED BY <2>1, <2>2
<1>6. /\ destroyed' \in SUBSET Users /\ open' \in SUBSET Clients
      /\ closing' \in SUBSET Clients /\ context' \in [Clients -> Users \cup {None}]
      /\ leaving' \in [Threads -> Users \cup {None}]
  BY <1>0, <1>1, ClosesTypes
<1>7. /\ destroyed \subseteq destroyed' /\ u \in destroyed'
      /\ \A v \in Users : v \in destroyed' => v \in destroyed \/ v = u \/ v = q
      /\ \A r \in Threads : leaving'[r] = IF r = t THEN q ELSE leaving[r]
      /\ \A d \in Clients : context'[d] \in {context[d], None}
      /\ q # None => Conn(q) \in Mates(t) /\ q \in destroyed' /\ session_of[q] # None
  BY <1>0, <1>1 DEF Closes, TypeOK
<1> HIDE DEF D
<1>8. TypeOK'
  BY <1>0, <1>2, <1>3, <1>5, <1>6 DEF TypeOK
<1>9. UsersOK'
  BY <1>1, <1>2, ClosesKeepsUsers
<1>10. MembersOK' /\ SessionsKnown'
  <2>1. MembersOK'
    BY <1>0, <1>2 DEF MembersOK
  <2>2. SessionsKnown'
    BY <1>0, <1>2 DEF SessionsKnown
  <2> QED BY <2>1, <2>2
<1>11. \A r \in Threads : Current(r)' = Current(r) /\ (pc'[r] \in Entering <=> pc[r] \in Entering)
  BY <1>2, <1>5 DEF Current, Entering
<1>12. \A v \in Users : session_of[v] # None =>
         /\ Tracked(v)' => Tracked(v)
         /\ Tracked(v) => Tracked(v)' \/ v = u
  <2> SUFFICES ASSUME NEW v \in Users, session_of[v] # None
               PROVE  /\ Tracked(v)' => Tracked(v)
                      /\ Tracked(v) => Tracked(v)' \/ v = u
    OBVIOUS
  <2>1. session_of[v] \in Sessions /\ v # None
    BY <1>0, UserPairs DEF TypeOK
  <2> QED BY <1>2, <2>1 DEF Tracked
<1>13. pc[t] = "set_publisher" => Tracked(u) /\ kind[u] = "publish"
  BY <1>0, <1>2, <1>4 DEF MembersOK, Tracked
<1>14. CallsOK'
  <2> SUFFICES ASSUME NEW d \in Clients, pc'[d] \in Entering PROVE AboutToEnter(d)'
    BY DEF CallsOK
  <2>1. /\ d \in Threads /\ pc[d] \in Entering /\ Current(d)' = Current(d) /\ AboutToEnter(d)
        /\ Current(d) \in Users /\ Conn(Current(d)) = d /\ session_of[Current(d)] # None
    BY <1>0, <1>11, CurrentUser, ConstantFacts DEF CallsOK
  <2>2. PICK v \in Users : v = Current(d)
    BY <2>1
  <2>3. v # u
    <3>1. ~Tracked(v) /\ \A r \in Threads : v \notin todo[r]
      BY <2>1, <2>2 DEF AboutToEnter, Tracked
    <3> QED BY <1>4, <1>13, <3>1
  <2>4. ~Tracked(v)'
    BY <1>12, <2>1, <2>2 DEF AboutToEnter, Tracked
  <2>5. v \in destroyed' => pc'[d] = "closing_old" /\ leaving'[d] = v
    <3>1. CASE v \in destroyed
      <4>1. pc[d] = "closing_old" /\ leaving[d] = v
        BY <2>1, <2>2, <3>1 DEF AboutToEnter
      <4>2. d # t
        BY <1>5, <4>1
      <4> QED BY <1>5, <1>7, <2>1, <4>1, <4>2
    <3>2. CASE v = q
      <4>1. d \in Mates(t)
        BY <1>7, <2>1, <2>2, <3>2, UserPairs
      <4>2. ~AtRest(t) /\ ~AtRest(d)
        BY <1>5, <2>1 DEF AtRest, Entering
      <4>3. d = t
        BY <1>0, <4>1, <4>2, OneCall
      <4> QED BY <1>5, <1>7, <2>1, <3>2, <4>3 DEF Entering
    <3> QED BY <1>7, <2>3, <3>1, <3>2
  <2>6. todo'[t] \subseteq todo[t] /\ \A r \in Threads : v \notin todo'[r]
    BY <1>3, <2>1, <2>2 DEF AboutToEnter
  <2>7. context'[d] \in {None, v}
    BY <1>7, <2>1, <2>2 DEF AboutToEnter
  <2>8. kind[v] = "publish" <=> pc'[d] # "add_player"
    BY <1>5, <2>1, <2>2 DEF AboutToEnter
  <2>9. ~Tracked(Current(d))'
    BY <2>1, <2>2, <2>4 DEF Tracked
  <2> QED BY <1>2, <2>1, <2>2, <2>5, <2>6, <2>7, <2>8, <2>9 DEF AboutToEnter
<1>15. ThreadsOK'
  <2>1. ASSUME NEW r \in Threads
        PROVE  /\ leaving'[r] # None => leaving'[r] \in destroyed' /\ Conn(leaving'[r]) \in Mates(r)
               /\ pc'[r] \in Clearing <=> work'[r] # None
               /\ todo'[r] # {} => pc'[r] = "clearing"
               /\ \A v \in todo'[r] : session_of'[v] = work'[r]
    <3>1. leaving'[r] # None => leaving'[r] \in destroyed' /\ Conn(leaving'[r]) \in Mates(r)
      BY <1>0, <1>7 DEF ThreadsOK
    <3>2. (pc'[r] \in Clearing <=> pc[r] \in Clearing) /\ (pc[r] = "clearing" => pc'[r] = "clearing")
      BY <1>5 DEF Clearing
    <3>3. todo'[r] \subseteq todo[r]
      BY <1>3
    <3> QED BY <1>0, <1>2, <3>1, <3>2, <3>3 DEF ThreadsOK
  <2>2. \A d \in Threads : AtRest(d) => AtRest(d)'
    BY <1>5, <1>7 DEF AtRest
  <2>3. \A d, e \in Shared : d = e \/ AtRest(d)' \/ AtRest(e)'
    BY <1>0, <2>2, ConstantFacts DEF ThreadsOK
  <2>4. pc'[Timer] \in Clearing \cup {"idle"}
    <3>1. pc[Timer] \in Clearing \cup {"idle"} /\ Timer \in Threads
      BY <1>0, ConstantFacts DEF ThreadsOK
    <3> QED BY <1>5, <3>1 DEF Clearing
  <2> QED BY <1>0, <1>2, <2>1, <2>3, <2>4 DEF ThreadsOK
<1>16. \A r \in Threads, x \in Sessions : Holds(r, x)' <=> Holds(r, x) \/ (r = t /\ x = s)
  <2> SUFFICES ASSUME NEW r \in Threads, NEW x \in Sessions
               PROVE  Holds(r, x)' <=> Holds(r, x) \/ (r = t /\ x = s)
    OBVIOUS
  <2>1. CASE r # t
    BY <1>2, <1>5, <1>11, <2>1 DEF Holds
  <2>2. CASE r = t
    <3>1. Current(t)' = Current(t)
      BY <1>11
    <3>2. CASE pc[t] = "clearing"
      BY <1>2, <1>4, <1>5, <2>2, <3>2 DEF Holds
    <3>3. CASE pc[t] = "set_publisher"
      BY <1>2, <1>4, <1>5, <2>2, <3>1, <3>3 DEF Holds
    <3> QED BY <1>5, <3>2, <3>3
  <2> QED BY <2>1, <2>2
<1>17. LocksOK'
  <2> SUFFICES ASSUME NEW x \in Sessions, NEW r \in Threads PROVE lock'[x] = r <=> Holds(r, x)'
    BY DEF LocksOK
  <2>1. lock[x] = r <=> Holds(r, x)
    BY <1>0 DEF LocksOK
  <2> QED BY <1>5, <1>16, <2>1, ConstantFacts
<1>18. \A r \in Threads : r # t => ~Holds(r, s)
  BY <1>0, <1>5, ConstantFacts DEF LocksOK
<1>19. UnderLock'
  <2> SUFFICES ASSUME NEW r \in Threads
               PROVE  /\ pc'[r] = "closing_old" => publisher'[session_of'[Current(r)']] \in destroyed'
                      /\ pc'[r] = "clearing" =>
                           /\ publisher'[work'[r]] \in todo'[r] \cup destroyed' \cup {None}
                           /\ players'[work'[r]] \subseteq todo'[r] \cup destroyed'
    BY DEF UnderLock
  <2>1. CASE r = t /\ pc[t] = "set_publisher"
    BY <1>2, <1>4, <1>5, <1>7, <1>11, <2>1
  <2>2. CASE r = t /\ pc[t] = "clearing"
    <3>1. publisher[s] \in todo[t] \cup destroyed \cup {None} /\ players[s] \subseteq todo[t] \cup destroyed
      BY <1>0, <1>4, <2>2 DEF UnderLock
    <3>2. publisher'[s] \in todo'[t] \cup destroyed' \cup {None}
      BY <1>2, <1>3, <1>7, <3>1
    <3>3. players[s] \subseteq todo'[t] \cup destroyed'
      BY <1>3, <1>7, <3>1
    <3> QED BY <1>2, <1>4, <1>5, <2>2, <3>2, <3>3
  <2>3. CASE r # t /\ pc[r] = "closing_old"
    <3>1. session_of[Current(r)] \in Sessions
      BY <1>0, <2>3, CurrentUser DEF Entering, ThreadsOK, Threads, Clearing
    <3>2. session_of[Current(r)] # s
      BY <1>18, <2>3 DEF Holds
    <3>3. publisher'[session_of[Current(r)]] = publisher[session_of[Current(r)]]
      BY <1>0, <1>2, <3>1, <3>2 DEF MembersOK
    <3> QED BY <1>0, <1>2, <1>5, <1>7, <1>11, <2>3, <3>3 DEF UnderLock
  <2>4. CASE r # t /\ pc[r] = "clearing"
    <3>1. work[r] \in Sessions
      BY <1>0, <2>4 DEF ThreadsOK, Clearing, TypeOK
    <3>2. publisher[work[r]] \in todo[r] \cup destroyed \cup {None}
          /\ players[work[r]] \subseteq todo[r] \cup destroyed
      BY <1>0, <2>4 DEF UnderLock
    <3>3. publisher'[work[r]] \in {publisher[work[r]], None} /\ todo'[r] = todo[r]
      BY <1>2, <1>3, <2>4, <3>1
    <3> QED BY <1>2, <1>5, <1>7, <2>4, <3>2, <3>3
  <2> QED BY <1>5, <2>1, <2>2, <2>3, <2>4
<1>20. Kept'
  <2> SUFFICES ASSUME NEW d \in Clients, context'[d] # None, Live(context[d])', pc'[d] \notin Entering
               PROVE  Tracked(context[d])' \/ context'[d] \in dropped
    BY <1>2 DEF Kept
  <2>1. PICK v \in Users : v = context[d] /\ v = context'[d]
    BY <1>0, <1>7 DEF TypeOK
  <2>2. session_of[v] # None /\ v \notin destroyed' /\ v \notin destroyed /\ v # u
    BY <1>2, <1>7, <2>1 DEF Live
  <2>3. Tracked(v) \/ v \in dropped
    BY <1>0, <1>11, <2>1, <2>2, UserPairs, ConstantFacts DEF Kept, Live
  <2>4. Tracked(v)' \/ v \in dropped
    BY <1>12, <2>2, <2>3
  <2> QED BY <2>1, <2>4 DEF Tracked
<1>21. GoneLeave'
  <2> SUFFICES ASSUME NEW v \in destroyed', Tracked(v)' PROVE OnTheWayOut(v)'
    BY DEF GoneLeave
  <2>1. v \in Users
    BY <1>6
  <2>2. CASE v \in destroyed
    <3>1. session_of[v] # None
      BY <1>0, <2>2 DEF UsersOK
    <3>2. OnTheWayOut(v)
      BY <1>0, <1>12, <2>1, <2>2, <3>1 DEF GoneLeave
    <3>3. \A r \in Threads : leaving[r] = v => leaving'[r] = v
      BY <1>2, <1>7, <2>1, UserPairs
    <3>4. \A r \in Threads : /\ pc[r] = "clearing" => pc'[r] = "clearing"
                             /\ pc[r] = "closing_old" => pc'[r] = "closing_old"
      BY <1>5
    <3> QED BY <1>2, <1>11, <3>2, <3>3, <3>4 DEF OnTheWayOut
  <2>3. CASE v = q
    BY <1>7, <2>3 DEF OnTheWayOut
  <2>4. CASE v = u /\ u \notin destroyed
    <3>1. CASE pc[t] = "clearing"
      <4>1. kind[u] # "publish"
        BY <1>2, <1>4, <2>4, <3>1 DEF Tracked
      <4> QED BY <1>2, <1>4, <1>5, <2>4, <3>1, <4>1 DEF OnTheWayOut
    <3>2. CASE pc[t] = "set_publisher"
      BY <1>2, <1>4, <1>5, <1>11, <1>13, <2>4, <3>2 DEF OnTheWayOut
    <3> QED BY <1>5, <3>1, <3>2
  <2> QED BY <1>7, <2>1, <2>2, <2>3, <2>4
<1>22. OrphansCameLate'
  <2> SUFFICES ASSUME NEW v \in Users, Live(v)', Tracked(v)', session_of[v] # registry
               PROVE  \/ v \in late
                      \/ \E r \in Threads : work[r] = session_of[v] /\ (pc'[r] = "clear" \/ v \in todo'[r])
    BY <1>2 DEF OrphansCameLate
  <2>1. session_of[v] # None /\ v \notin destroyed' /\ v \notin destroyed /\ v # u
    BY <1>2, <1>7 DEF Live
  <2>2. Live(v) /\ Tracked(v)
    BY <1>12, <2>1 DEF Live
  <2>3. \A r \in Threads : /\ pc[r] = "clear" => pc'[r] = "clear"
                           /\ v \in todo[r] => v \in todo'[r]
    BY <1>3, <1>5, <2>1
  <2> QED BY <1>0, <2>2, <2>3 DEF OrphansCameLate
<1>23. RelocksOK'
  <2> SUFFICES ASSUME NEW r \in Threads, SelfDeadlock(r)' PROVE Earlier(leaving[r])'
    BY DEF RelocksOK
  <2>1. PICK v \in Users : v = leaving'[r]
    BY <1>6 DEF SelfDeadlock
  <2>2. v \in destroyed' /\ session_of[v] \in Sessions /\ lock'[session_of[v]] = r
    <3>1. v \in destroyed'
      BY <1>15, <2>1, UserPairs DEF ThreadsOK
    <3>2. session_of'[v] \in Sessions
      BY <1>8, <1>9, <3>1 DEF UsersOK, TypeOK
    <3> QED BY <1>2, <2>1, <3>1, <3>2 DEF SelfDeadlock
  <2>3. CASE r = t
    <3>1. v = q
      BY <1>7, <2>1, <2>3
    <3>2. session_of[v] = s
      <4>1. PICK x \in Sessions : x = session_of[v]
        BY <2>2
      <4>2. lock'[x] = t
        BY <2>2, <2>3, <4>1
      <4>3. x # s => lock[x] = t
        BY <1>5, <4>2
      <4>4. x # s => Holds(t, x)
        BY <1>0, <4>3 DEF LocksOK
      <4> QED BY <1>4, <4>1, <4>4 DEF Holds
    <3>3. Conn(u) = Conn(v) /\ u[2] < v[2]
      BY <1>2, <2>1, <3>1, UserPairs
    <3> QED BY <1>2, <1>7, <2>1, <3>2, <3>3 DEF Earlier
  <2>4. CASE r # t
    <3>1. leaving[r] = v /\ lock[session_of[v]] = r
      BY <1>5, <1>7, <2>1, <2>2, <2>4
    <3>2. SelfDeadlock(r)
      BY <2>1, <3>1, UserPairs DEF SelfDeadlock
    <3>3. Earlier(leaving[r])
      BY <1>0, <3>2 DEF RelocksOK
    <3> QED BY <1>2, <1>7, <2>1, <3>1, <3>3 DEF Earlier
  <2> QED BY <2>3, <2>4
<1> QED BY <1>8, <1>9, <1>10, <1>14, <1>15, <1>17, <1>19, <1>20, <1>21, <1>22, <1>23
        DEF SessionInv

\* Clear takes the lock, and from then on knows whom to close.
LEMMA ClearKeeps ==
  ASSUME SessionInv, NEW t \in Threads, Clear(t)
  PROVE  SessionInv'
<1>0. /\ TypeOK /\ UsersOK /\ MembersOK /\ CallsOK /\ ThreadsOK /\ LocksOK /\ UnderLock
      /\ Kept /\ GoneLeave /\ SessionsKnown /\ OrphansCameLate /\ RelocksOK
  BY DEF SessionInv
<1>1. pc[t] = "clear" /\ leaving[t] = None
  BY DEF Clear, At
<1>2. PICK s \in Sessions : s = work[t]
  BY <1>0, <1>1 DEF ThreadsOK, Clearing, TypeOK
<1>3. /\ UNCHANGED <<registry, service_lock, created, publisher, players, silent, idle_long>>
      /\ UNCHANGED <<session_of, kind, destroyed, open, closing, context, requests>>
      /\ UNCHANGED <<work, leaving, cleared, late, dropped>>
      /\ lock[s] = Free /\ lock' = [lock EXCEPT ![s] = t]
      /\ todo' = [todo EXCEPT ![t] = ({publisher[s]} \ {None}) \cup players[s]]
      /\ pc' = [pc EXCEPT ![t] = "clearing"]
  BY <1>2 DEF Clear, serviceVars, userVars, connVars, historyVars
<1>4. /\ \A r \in Threads : pc'[r] = IF r = t THEN "clearing" ELSE pc[r]
      /\ \A r \in Threads : r # t => todo'[r] = todo[r]
      /\ todo'[t] = ({publisher[s]} \ {None}) \cup players[s]
      /\ \A x \in Sessions : lock'[x] = IF x = s THEN t ELSE lock[x]
  BY <1>0, <1>3 DEF TypeOK
<1>5. todo'[t] \subseteq Users /\ \A v \in todo'[t] : session_of[v] = s /\ Tracked(v)
  <2>1. todo'[t] \subseteq Users
    BY <1>0, <1>4 DEF TypeOK
  <2>2. \A v \in todo'[t] : session_of[v] = s
    BY <1>0, <1>4 DEF MembersOK
  <2>3. ASSUME NEW v \in todo'[t] PROVE Tracked(v)
    <3>1. CASE v = publisher[s] /\ v # None
      <4>1. session_of[v] = s /\ kind[v] = "publish"
        BY <1>0, <3>1 DEF MembersOK
      <4> QED BY <3>1, <4>1 DEF Tracked
    <3>2. CASE v \in players[s]
      <4>1. session_of[v] = s /\ kind[v] # "publish"
        BY <1>0, <3>2 DEF MembersOK
      <4> QED BY <3>2, <4>1 DEF Tracked
    <3> QED BY <1>4, <2>3, <3>1, <3>2
  <2> QED BY <2>1, <2>2, <2>3
<1>6. \A r \in Threads : /\ Current(r)' = Current(r)
                         /\ pc'[r] \in Entering <=> pc[r] \in Entering
                         /\ pc'[r] \in Clearing <=> pc[r] \in Clearing
                         /\ pc'[r] = "closing_old" <=> pc[r] = "closing_old"
                         /\ pc[r] = "clearing" => pc'[r] = "clearing"
  BY <1>1, <1>3, <1>4 DEF Current, Entering, Clearing
<1>7. TypeOK'
  <2>1. /\ pc' \in [Threads -> {"idle", "set_publisher", "closing_old", "add_player",
                                "check_publisher", "close_session", "clear", "clearing"}]
        /\ lock' \in [Sessions -> Threads \cup {Free}]
    BY <1>0, <1>3 DEF TypeOK
  <2>2. todo' \in [Threads -> SUBSET Users]
    <3>1. ({publisher[s]} \ {None}) \cup players[s] \in SUBSET Users
      BY <1>4, <1>5
    <3> QED BY <1>0, <1>3, <3>1 DEF TypeOK
  <2> QED BY <1>0, <1>3, <2>1, <2>2 DEF TypeOK
<1>8. UsersOK' /\ MembersOK' /\ SessionsKnown'
  BY <1>0, <1>3 DEF UsersOK, MembersOK, SessionsKnown, Replaced
<1>9. CallsOK'
  <2> SUFFICES ASSUME NEW d \in Clients, pc'[d] \in Entering PROVE AboutToEnter(d)'
    BY DEF CallsOK
  <2>1. d \in Threads /\ d # t /\ pc'[d] = pc[d] /\ Current(d)' = Current(d) /\ AboutToEnter(d)
    BY <1>0, <1>1, <1>4, <1>6, ConstantFacts DEF CallsOK, Entering
  <2>2. PICK v : v = Current(d)
    OBVIOUS
  <2>3. ~Tracked(v)
    BY <2>1, <2>2 DEF AboutToEnter, Tracked
  <2>4. \A r \in Threads : v \notin todo'[r]
    BY <1>4, <1>5, <2>1, <2>2, <2>3 DEF AboutToEnter
  <2> QED BY <1>3, <2>1, <2>2, <2>4 DEF AboutToEnter, Tracked
<1>10. ThreadsOK'
  <2>1. ASSUME NEW r \in Threads
        PROVE  /\ leaving'[r] # None => leaving'[r] \in destroyed' /\ Conn(leaving'[r]) \in Mates(r)
               /\ pc'[r] \in Clearing <=> work'[r] # None
               /\ todo'[r] # {} => pc'[r] = "clearing"
               /\ \A v \in todo'[r] : session_of'[v] = work'[r]
    BY <1>0, <1>2, <1>3, <1>4, <1>5, <1>6 DEF ThreadsOK
  <2>2. \A d \in Threads : AtRest(d) => AtRest(d)'
    BY <1>1, <1>3, <1>4 DEF AtRest
  <2>3. \A d, e \in Shared : d = e \/ AtRest(d)' \/ AtRest(e)'
    BY <1>0, <2>2, ConstantFacts DEF ThreadsOK
  <2>4. pc'[Timer] \in Clearing \cup {"idle"}
    BY <1>0, <1>4, ConstantFacts DEF ThreadsOK, Clearing
  <2> QED BY <1>0, <1>3, <2>1, <2>3, <2>4 DEF ThreadsOK
<1>11. \A r \in Threads, x \in Sessions : Holds(r, x)' <=> Holds(r, x) \/ (r = t /\ x = s)
  <2> SUFFICES ASSUME NEW r \in Threads, NEW x \in Sessions
               PROVE  Holds(r, x)' <=> Holds(r, x) \/ (r = t /\ x = s)
    OBVIOUS
  <2>1. CASE r # t
    BY <1>3, <1>4, <1>6, <2>1 DEF Holds
  <2>2. CASE r = t
    BY <1>1, <1>2, <1>3, <1>4, <2>2 DEF Holds
  <2> QED BY <2>1, <2>2
<1>12. LocksOK'
  <2> SUFFICES ASSUME NEW x \in Sessions, NEW r \in Threads PROVE lock'[x] = r <=> Holds(r, x)'
    BY DEF LocksOK
  <2>1. lock[x] = r <=> Holds(r, x)
    BY <1>0 DEF LocksOK
  <2> QED BY <1>3, <1>4, <1>11, <2>1, ConstantFacts
<1>13. UnderLock'
  <2> SUFFICES ASSUME NEW r \in Threads
               PROVE  /\ pc'[r] = "closing_old" => publisher'[session_of'[Current(r)']] \in destroyed'
                      /\ pc'[r] = "clearing" =>
                           /\ publisher'[work'[r]] \in todo'[r] \cup destroyed' \cup {None}
                           /\ players'[work'[r]] \subseteq todo'[r] \cup destroyed'
    BY DEF UnderLock
  <2>1. CASE r = t
    BY <1>2, <1>3, <1>4, <2>1
  <2>2. CASE r # t
    BY <1>0, <1>3, <1>4, <1>6, <2>2 DEF UnderLock
  <2> QED BY <2>1, <2>2
<1>14. Kept'
  BY <1>0, <1>3, <1>6, ConstantFacts DEF Kept, Live, Tracked
<1>15. GoneLeave'
  BY <1>0, <1>3, <1>6 DEF GoneLeave, OnTheWayOut, Tracked
<1>16. OrphansCameLate'
  <2> SUFFICES ASSUME NEW v \in Users, Live(v), Tracked(v), session_of[v] # registry, v \notin late
               PROVE  \E r \in Threads : work[r] = session_of[v] /\ (pc'[r] = "clear" \/ v \in todo'[r])
    BY <1>3 DEF OrphansCameLate, Live, Tracked
  <2>1. PICK r \in Threads : work[r] = session_of[v] /\ (pc[r] = "clear" \/ v \in todo[r])
    BY <1>0 DEF OrphansCameLate
  <2>2. CASE r = t
    <3>1. session_of[v] = s
      BY <1>2, <2>1, <2>2
    <3>2. v \in todo'[t]
      BY <1>4, <3>1, UserPairs DEF Tracked
    <3> QED BY <1>2, <3>1, <3>2
  <2>3. CASE r # t
    BY <1>4, <2>1, <2>3
  <2> QED BY <2>2, <2>3
<1>17. RelocksOK'
  <2> SUFFICES ASSUME NEW r \in Threads, SelfDeadlock(r)' PROVE Earlier(leaving[r])
    BY <1>3 DEF RelocksOK, Earlier
  <2>1. leaving[r] \in destroyed /\ leaving[r] # None
    BY <1>0, <1>3 DEF SelfDeadlock, ThreadsOK
  <2>2. session_of[leaving[r]] \in Sessions
    BY <1>0, <2>1 DEF UsersOK, TypeOK
  <2>3. r # t
    BY <1>1, <2>1
  <2>4. SelfDeadlock(r)
    BY <1>3, <1>4, <2>1, <2>2, <2>3 DEF SelfDeadlock
  <2> QED BY <1>0, <2>4 DEF RelocksOK
<1> QED BY <1>7, <1>8, <1>9, <1>10, <1>12, <1>13, <1>14, <1>15, <1>16, <1>17 DEF SessionInv

\* By the end of Clear everybody that was a member is closed.
LEMMA ClearEndKeeps ==
  ASSUME SessionInv, NEW t \in Threads, ClearEnd(t)
  PROVE  SessionInv'
<1>0. /\ TypeOK /\ UsersOK /\ MembersOK /\ CallsOK /\ ThreadsOK /\ LocksOK /\ UnderLock
      /\ Kept /\ GoneLeave /\ SessionsKnown /\ OrphansCameLate /\ RelocksOK
  BY DEF SessionInv
<1>1. pc[t] = "clearing" /\ leaving[t] = None /\ todo[t] = {}
  BY DEF ClearEnd, At
<1>2. PICK s \in Sessions : s = work[t]
  BY <1>0, <1>1 DEF ThreadsOK, Clearing, TypeOK
<1>3. /\ UNCHANGED <<created, publisher, silent, idle_long, session_of, kind, destroyed>>
      /\ UNCHANGED <<open, closing, context, requests, todo, leaving, late, dropped>>
      /\ players' = [players EXCEPT ![s] = {}]
      /\ lock' = [lock EXCEPT ![s] = Free]
      /\ cleared' = cleared \cup {s}
      /\ work' = [work EXCEPT ![t] = None]
      /\ pc' = [pc EXCEPT ![t] = "idle"]
      /\ IF t = Timer THEN registry' = None /\ service_lock' = Free
                      ELSE UNCHANGED <<registry, service_lock>>
  BY <1>2 DEF ClearEnd, userVars, connVars
<1>4. /\ \A r \in Threads : /\ pc'[r] = IF r = t THEN "idle" ELSE pc[r]
                            /\ work'[r] = IF r = t THEN None ELSE work[r]
      /\ \A x \in Sessions : /\ lock'[x] = IF x = s THEN Free ELSE lock[x]
                             /\ players'[x] = IF x = s THEN {} ELSE players[x]
  BY <1>0, <1>3 DEF TypeOK
<1>5. \A r \in Threads : /\ Current(r)' = Current(r)
                         /\ pc'[r] \in Entering <=> pc[r] \in Entering
                         /\ pc'[r] = "closing_old" <=> pc[r] = "closing_old"
  BY <1>1, <1>3, <1>4 DEF Current, Entering
<1>6. \A v \in Users : Tracked(v) /\ session_of[v] = s => v \in destroyed
  BY <1>0, <1>1, <1>2, UserPairs DEF UnderLock, Tracked
<1>7. \A v \in Users : session_of[v] # None =>
        /\ Tracked(v)' => Tracked(v)
        /\ Tracked(v) => Tracked(v)' \/ v \in destroyed
        /\ Tracked(v)' /\ session_of[v] = s => kind[v] = "publish"
  <2> SUFFICES ASSUME NEW v \in Users, session_of[v] # None
               PROVE  /\ Tracked(v)' => Tracked(v)
                      /\ Tracked(v) => Tracked(v)' \/ v \in destroyed
                      /\ Tracked(v)' /\ session_of[v] = s => kind[v] = "publish"
    OBVIOUS
  <2>1. session_of[v] \in Sessions
    BY <1>0 DEF TypeOK
  <2> QED BY <1>3, <1>4, <1>6, <2>1 DEF Tracked
<1>8. TypeOK'
  <2>1. /\ pc' \in [Threads -> {"idle", "set_publisher", "closing_old", "add_player",
                                "check_publisher", "close_session", "clear", "clearing"}]
        /\ lock' \in [Sessions -> Threads \cup {Free}]
        /\ players' \in [Sessions -> SUBSET Users] /\ work' \in [Threads -> Sessions \cup {None}]
    BY <1>0, <1>3 DEF TypeOK
  <2>2. cleared' \in SUBSET Sessions /\ registry' \in Sessions \cup {None}
        /\ service_lock' \in {Timer, Free}
    BY <1>0, <1>3 DEF TypeOK
  <2> QED BY <1>0, <1>3, <2>1, <2>2 DEF TypeOK
<1>9. UsersOK' /\ MembersOK'
  <2>1. UsersOK'
    BY <1>0, <1>3 DEF UsersOK, Replaced
  <2>2. MembersOK'
    BY <1>0, <1>3, <1>4 DEF MembersOK
  <2> QED BY <2>1, <2>2
<1>10. CallsOK'
  <2> SUFFICES ASSUME NEW d \in Clients, pc'[d] \in Entering PROVE AboutToEnter(d)'
    BY DEF CallsOK
  <2>1. d \in Threads /\ d # t /\ pc'[d] = pc[d] /\ Current(d)' = Current(d) /\ AboutToEnter(d)
        /\ Current(d) \in Users
    BY <1>0, <1>1, <1>4, <1>5, CurrentUser, ConstantFacts DEF CallsOK, Entering
  <2>2. PICK v \in Users : v = Current(d)
    BY <2>1
  <2>3. ~Tracked(v)'
    BY <1>7, <2>1, <2>2 DEF AboutToEnter
  <2>4. ~Tracked(Current(d))'
    BY <2>1, <2>2, <2>3 DEF Tracked
  <2> QED BY <1>3, <2>1, <2>4 DEF AboutToEnter
<1>11. ThreadsOK'
  <2>1. ASSUME NEW r \in Threads
        PROVE  /\ leaving'[r] # None => leaving'[r] \in destroyed' /\ Conn(leaving'[r]) \in Mates(r)
               /\ pc'[r] \in Clearing <=> work'[r] # None
               /\ todo'[r] # {} => pc'[r] = "clearing"
               /\ \A v \in todo'[r] : session_of'[v] = work'[r]
    BY <1>0, <1>1, <1>3, <1>4 DEF ThreadsOK, Clearing
  <2>2. \A d \in Threads : AtRest(d) => AtRest(d)'
    BY <1>3, <1>4 DEF AtRest
  <2>3. \A d, e \in Shared : d = e \/ AtRest(d)' \/ AtRest(e)'
    BY <1>0, <2>2, ConstantFacts DEF ThreadsOK
  <2>4. pc'[Timer] \in Clearing \cup {"idle"}
    BY <1>0, <1>4, ConstantFacts DEF ThreadsOK, Clearing
  <2>5. /\ service_lock' = Timer <=> work'[Timer] # None
        /\ work'[Timer] # None => work'[Timer] = registry'
    BY <1>0, <1>3, <1>4, ConstantFacts DEF ThreadsOK
  <2> QED BY <2>1, <2>3, <2>4, <2>5 DEF ThreadsOK
<1>12. \A r \in Threads, x \in Sessions : Holds(r, x)' <=> Holds(r, x) /\ r # t
  BY <1>1, <1>3, <1>4, <1>5 DEF Holds
<1>13. LocksOK'
  <2> SUFFICES ASSUME NEW x \in Sessions, NEW r \in Threads PROVE lock'[x] = r <=> Holds(r, x)'
    BY DEF LocksOK
  <2>1. lock[x] = r <=> Holds(r, x)
    BY <1>0 DEF LocksOK
  <2>2. Holds(t, x) <=> x = s
    BY <1>1, <1>2 DEF Holds
  <2>3. lock[s] = t
    BY <1>0, <1>1, <1>2 DEF LocksOK, Holds
  <2> QED BY <1>4, <1>12, <2>1, <2>2, <2>3, ConstantFacts
<1>14. \A r \in Threads : Holds(r, s) => r = t
  <2>1. lock[s] = t
    BY <1>0, <1>1, <1>2 DEF LocksOK, Holds
  <2> QED BY <1>0, <2>1 DEF LocksOK
<1>15. UnderLock'
  <2> SUFFICES ASSUME NEW r \in Threads
               PROVE  /\ pc'[r] = "closing_old" => publisher'[session_of'[Current(r)']] \in destroyed'
                      /\ pc'[r] = "clearing" =>
                           /\ publisher'[work'[r]] \in todo'[r] \cup destroyed' \cup {None}
                           /\ players'[work'[r]] \subseteq todo'[r] \cup destroyed'
    BY DEF UnderLock
  <2>1. pc'[r] = "clearing" => work[r] \in Sessions /\ work[r] # s /\ r # t /\ pc[r] = "clearing"
    BY <1>0, <1>4, <1>14 DEF ThreadsOK, Clearing, TypeOK, Holds
  <2> QED BY <1>0, <1>3, <1>4, <1>5, <2>1 DEF UnderLock
<1>16. Kept'
  <2> SUFFICES ASSUME NEW d \in Clients, context[d] # None, Live(context[d]), pc'[d] \notin Entering
               PROVE  Tracked(context[d])' \/ context[d] \in dropped
    BY <1>3 DEF Kept, Live
  <2>1. PICK v \in Users : v = context[d]
    BY <1>0 DEF TypeOK
  <2>2. Tracked(v) \/ v \in dropped
    BY <1>0, <1>5, <2>1, ConstantFacts DEF Kept
  <2>3. Tracked(v)' \/ v \in dropped
    BY <1>7, <2>1, <2>2 DEF Live
  <2> QED BY <1>3, <2>1, <2>3 DEF Tracked
<1>17. GoneLeave'
  <2> SUFFICES ASSUME NEW v \in destroyed, Tracked(v)' PROVE OnTheWayOut(v)'
    BY <1>3 DEF GoneLeave
  <2>1. v \in Users /\ session_of[v] # None
    BY <1>0 DEF TypeOK, UsersOK
  <2>2. OnTheWayOut(v) /\ (session_of[v] = s => kind[v] = "publish")
    BY <1>0, <1>7, <2>1 DEF GoneLeave
  <2> QED BY <1>2, <1>3, <1>4, <1>5, <2>2 DEF OnTheWayOut
<1>18. SessionsKnown'
  <2>1. \A x \in 1 .. created : x # None
    BY <1>0, ConstantFacts DEF TypeOK
  <2>2. t = Timer => registry = s
    BY <1>0, <1>2, ConstantFacts DEF ThreadsOK
  <2>3. \A x \in 1 .. created : x = registry' \/ x \in cleared' \/ \E r \in Threads : work'[r] = x
    BY <1>0, <1>2, <1>3, <1>4, <2>1, <2>2 DEF SessionsKnown
  <2> QED BY <1>0, <1>3, <2>3 DEF SessionsKnown
<1>19. OrphansCameLate'
  <2> SUFFICES ASSUME NEW v \in Users, Live(v), Tracked(v)', session_of[v] # registry'
               PROVE  \/ v \in late
                      \/ \E r \in Threads : work'[r] = session_of[v] /\ (pc'[r] = "clear" \/ v \in todo[r])
    BY <1>3 DEF OrphansCameLate, Live
  <2>1. Tracked(v) /\ session_of[v] # s
    BY <1>6, <1>7 DEF Live
  <2>2. session_of[v] # registry
    BY <1>0, <1>2, <1>3, <2>1, ConstantFacts DEF ThreadsOK
  <2>3. CASE v \in late
    BY <2>3
  <2>4. CASE v \notin late
    <3>1. PICK r \in Threads : work[r] = session_of[v] /\ (pc[r] = "clear" \/ v \in todo[r])
      BY <1>0, <2>1, <2>2, <2>4 DEF OrphansCameLate
    <3> QED BY <1>2, <1>4, <2>1, <3>1
  <2> QED BY <2>3, <2>4
<1>20. RelocksOK'
  <2> SUFFICES ASSUME NEW r \in Threads, SelfDeadlock(r)' PROVE Earlier(leaving[r])
    BY <1>3 DEF RelocksOK, Earlier
  <2>1. leaving[r] \in destroyed /\ leaving[r] # None
    BY <1>0, <1>3 DEF SelfDeadlock, ThreadsOK
  <2>2. session_of[leaving[r]] \in Sessions
    BY <1>0, <2>1 DEF UsersOK, TypeOK
  <2>3. SelfDeadlock(r)
    BY <1>3, <1>4, <2>1, <2>2, ConstantFacts DEF SelfDeadlock
  <2> QED BY <1>0, <2>3 DEF RelocksOK
<1> QED BY <1>8, <1>9, <1>10, <1>11, <1>13, <1>15, <1>16, <1>17, <1>18, <1>19, <1>20
        DEF SessionInv

-----------------------------------------------------------------------------
(* The theorems.                                                           *)

\* The service starts without sessions, users or calls.
LEMMA InitOK == Init => SessionInv
<1> SUFFICES ASSUME Init PROVE SessionInv
  OBVIOUS
<1>1. TypeOK
  BY ConstantFacts DEF Init, TypeOK
<1>a. UsersOK
  BY DEF Init, UsersOK
<1>b. MembersOK
  BY DEF Init, MembersOK
<1>c. CallsOK
  BY ConstantFacts DEF Init, CallsOK, Entering
<1>d. Kept /\ GoneLeave
  BY DEF Init, Kept, GoneLeave
<1>e. OrphansCameLate
  BY DEF Init, OrphansCameLate, Live
<1>2. UsersOK /\ MembersOK /\ CallsOK /\ Kept /\ OrphansCameLate /\ GoneLeave
  BY <1>a, <1>b, <1>c, <1>d, <1>e
<1>3. ThreadsOK
  BY ConstantFacts DEF Init, ThreadsOK, Clearing, AtRest
<1>4. LocksOK /\ UnderLock
  BY ConstantFacts DEF Init, LocksOK, Holds, UnderLock
<1>5. SessionsKnown /\ RelocksOK
  BY DEF Init, SessionsKnown, RelocksOK, SelfDeadlock
<1> QED BY <1>1, <1>2, <1>3, <1>4, <1>5 DEF SessionInv

\* One lemma per kind of step, all of them above.
LEMMA NextOK == SessionInv /\ [Next]_vars => SessionInv'
<1> SUFFICES ASSUME SessionInv, [Next]_vars PROVE SessionInv'
  OBVIOUS
<1>1. CASE Next
  <2>1. ASSUME NEW c \in Clients, NEW s \in Sessions,
               OnPublish(c, s) \/ OnPlay(c, s) \/ OnFileRequest(c, s)
        PROVE  SessionInv'
    BY <2>1, CreateUserKeeps, FileRequestKeeps
  <2>2. ASSUME NEW c \in Clients, OnRecv(c) PROVE SessionInv'
    BY <2>2, TimesKeep
  <2>3. ASSUME NEW c \in Clients, PeerClose(c) \/ RunClose(c) PROVE SessionInv'
    BY <2>3, PeerCloseKeeps DEF RunClose
  <2>4. ASSUME NEW s \in Sessions, GoSilent(s) \/ IdleLong(s) PROVE SessionInv'
    BY <2>4, TimesKeep
  <2>5. ASSUME OnTimer PROVE SessionInv'
    <3>1. Timer \in Threads
      BY ConstantFacts
    <3> QED BY <2>5, <3>1, TakingSteps, TakenKeeps
  <2>6. ASSUME NEW t \in Threads, CallStep(t) PROVE SessionInv'
    <3>1. CASE Clear(t) \/ ClearEnd(t) \/ CloseUser(t)
      BY <3>1, ClearKeeps, ClearEndKeeps, CloseUserKeeps
    <3>2. CASE \/ t \in Clients /\ CloseOldPublisher(t)
               \/ \E u \in Users : CloseUserNoLock(t, u)
      BY <3>2, EvictingSteps, EvictedKeeps
    <3>3. CASE t \in Clients /\ (SetPublisher(t) \/ ReplacePublisher(t) \/ AddPlayer(t))
      BY <3>3, EnteringSteps, EnteredKeeps
    <3>4. CASE t \in Clients /\ (CheckPublisher(t) \/ CloseSession(t))
      BY <3>4, TakingSteps, TakenKeeps
    <3> QED BY <2>6, <3>1, <3>2, <3>3, <3>4 DEF CallStep
  <2> QED BY <1>1, <2>1, <2>2, <2>3, <2>4, <2>5, <2>6 DEF Next
<1>2. CASE UNCHANGED vars
  <2> USE <1>2 DEF vars, serviceVars, sessionVars, userVars, connVars, threadVars, historyVars
  <2>0. /\ TypeOK /\ UsersOK /\ MembersOK /\ CallsOK /\ ThreadsOK /\ LocksOK /\ UnderLock
        /\ Kept /\ GoneLeave /\ SessionsKnown /\ OrphansCameLate /\ RelocksOK
    BY DEF SessionInv
  <2>1. TypeOK' /\ UsersOK' /\ MembersOK' /\ SessionsKnown'
    BY <2>0 DEF TypeOK, UsersOK, MembersOK, SessionsKnown, Replaced
  <2>2. CallsOK' /\ ThreadsOK' /\ LocksOK' /\ UnderLock'
    BY <2>0 DEF CallsOK, AboutToEnter, ThreadsOK, AtRest, LocksOK, Holds, UnderLock, Current, Tracked
  <2>3. Kept' /\ GoneLeave' /\ OrphansCameLate' /\ RelocksOK'
    BY <2>0 DEF Kept, GoneLeave, OnTheWayOut, OrphansCameLate, RelocksOK, SelfDeadlock, Earlier,
                Live, Tracked, Current
  <2> QED BY <2>1, <2>2, <2>3 DEF SessionInv
<1> QED BY <1>1, <1>2

\* The inductive invariant holds in every reachable state.
THEOREM InvAlways == Spec => []SessionInv
<1>1. Init => SessionInv
  BY InitOK
<1>2. SessionInv /\ [Next]_vars => SessionInv'
  BY NextOK
<1> QED BY <1>1, <1>2, PTL DEF Spec

\* A closed user that is at rest and still a member waits for a lock that is taken.
LEMMA InvConsistent == SessionInv => SessionsConsistent
<1> SUFFICES ASSUME SessionInv PROVE SessionsConsistent
  OBVIOUS
<1>0. /\ TypeOK /\ UsersOK /\ CallsOK /\ ThreadsOK /\ LocksOK /\ Kept /\ GoneLeave /\ OrphansCameLate
  BY DEF SessionInv
<1>1. NobodyForgotten
  BY <1>0 DEF NobodyForgotten, Kept, AtRest, Entering, TypeOK
<1>2. NoGhosts
  <2> SUFFICES ASSUME NEW u \in Users, session_of[u] # None, Conn(u) \notin open, LoopFree(Conn(u)),
                      Tracked(u), ~Replaced(u)
               PROVE  u \in destroyed /\ lock[session_of[u]] # Free
    BY DEF NoGhosts
  <2>1. session_of[u] \in Sessions /\ Conn(u) \in Clients /\ u # None
    BY <1>0, UserPairs DEF TypeOK
  <2>2. u \in destroyed
    BY <1>0, <2>1 DEF UsersOK
  <2>3. OnTheWayOut(u)
    BY <1>0, <2>2 DEF GoneLeave
  <2>4. \A t \in Threads : leaving[t] # u
    <3> SUFFICES ASSUME NEW t \in Threads, leaving[t] = u PROVE FALSE
      OBVIOUS
    <3>1. Conn(u) \in Mates(t)
      BY <1>0, <2>1 DEF ThreadsOK
    <3>2. t \in Mates(Conn(u))
      BY <3>1, MatesFacts
    <3> QED BY <2>1, <3>2 DEF LoopFree, AtRest
  <2>5. PICK t \in Threads : Holds(t, session_of[u])
    BY <2>3, <2>4 DEF OnTheWayOut, Holds
  <2>6. lock[session_of[u]] = t
    BY <1>0, <2>1, <2>5 DEF LocksOK
  <2> QED BY <2>2, <2>6, ConstantFacts
<1> QED BY <1>0, <1>1, <1>2 DEF SessionsConsistent

\* The earlier user of RelocksOK is the one with the earlier number.
LEMMA InvRelocks == SessionInv => RelockNeedsSecondRequest
<1> SUFFICES ASSUME SessionInv, NEW t \in Threads, SelfDeadlock(t)
             PROVE  \E n \in 1 .. leaving[t][2] - 1 :
                      /\ <<Conn(leaving[t]), n>> \in destroyed
                      /\ session_of[<<Conn(leaving[t]), n>>] = session_of[leaving[t]]
  BY DEF RelockNeedsSecondRequest
<1>0. TypeOK /\ RelocksOK
  BY DEF SessionInv
<1>1. PICK u \in Users : u = leaving[t]
  BY <1>0 DEF SelfDeadlock, TypeOK
<1>2. PICK v \in destroyed : Conn(v) = Conn(u) /\ v[2] < u[2] /\ session_of[v] = session_of[u]
  BY <1>0, <1>1 DEF RelocksOK, Earlier
<1>3. v \in Users
  BY <1>0 DEF TypeOK
<1>4. v = <<Conn(u), v[2]>> /\ v[2] \in 1 .. MaxRequests /\ u[2] \in 1 .. MaxRequests
  BY <1>2, <1>3, UserPairs
<1>5. v[2] \in 1 .. u[2] - 1
  BY <1>2, <1>4, ConstantFacts
<1> QED BY <1>1, <1>2, <1>4, <1>5

\* A session and its users agree on who is in it: an open connection that is served
\* is its session's member, a closed one has left, and the users of a session that
\* is gone are being closed, but for those that came late (Session.cpp:89-210,
\* LiveService.cpp:61-180).
THEOREM SessionsAlwaysConsistent == Spec => []SessionsConsistent
<1>1. SessionInv => SessionsConsistent
  BY InvConsistent
<1> QED BY <1>1, InvAlways, PTL

\* A thread that closes users under lock_ comes back to that lock only through a
\* connection that made a second request (Session.cpp:112-126, LiveService.cpp:110).
THEOREM RelockAlwaysNeedsSecondRequest == Spec => []RelockNeedsSecondRequest
<1>1. SessionInv => RelockNeedsSecondRequest
  BY InvRelocks
<1> QED BY <1>1, InvAlways, PTL

=============================================================================
