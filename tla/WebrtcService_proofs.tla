------------------------ MODULE WebrtcService_proofs ------------------------
(***************************************************************************)
(* The inductive invariant of WebrtcService, for any users, addresses,     *)
(* frames and sizes: what is handed to SendPacket leaves once and in       *)
(* order, what the socket has to send is held, a NACK is answered with the *)
(* packet it names, and a stream starts as a decoder needs it.             *)
(***************************************************************************)
EXTENDS WebrtcService, SequenceTheorems, FiniteSetTheorems, FunctionTheorems,
        WellFoundedInduction, TLAPS

-----------------------------------------------------------------------------
(* The invariant.                                                          *)

IsSeq(q) == \E S : q \in Seq(S)

\* The n numbers after m: packets are numbered in the order of SendPacket's calls.
After(m, n) == [i \in 1 .. n |-> m + i]

SrvRec == [sending : BOOLEAN, outs : Seq(Nat), held : Seq(Nat), waiting : Seq(Nat), tasks : Nat,
           buffer : Seq(Nat), writing : BOOLEAN, edge : BOOLEAN]

\* Whatever the socket has to send is held, and so is what a queued task will add.
Holds(s) == Range(s.buffer) \subseteq Range(s.held) /\ Range(s.outs) \subseteq Range(s.held)

\* A server that does not send has nothing to send, and a queued task finds the buffer empty.
Idle(s) == /\ s.tasks <= 1
           /\ s.tasks = 1 => s.sending /\ s.buffer = <<>>
           /\ ~s.sending => s.buffer = <<>> /\ s.waiting = <<>>

\* What is still to leave, in order.
Pending(s) == s.buffer \o (IF s.tasks = 1 THEN s.outs ELSE <<>>) \o s.waiting

ServerOK ==
  /\ srv \in SrvRec /\ wire \in Seq(Nat) /\ IsSeq(handed) /\ stray \in BOOLEAN
  /\ Holds(srv)
  /\ ~stray => Idle(srv) /\ wire \o Pending(srv) = After(0, Len(handed))

CallsOK == IsSeq(calls) /\ \A i \in 1 .. Len(calls) : IsSeq(calls[i])

\* What RtpMuxer has sent, and what of it the cache has.
Frames == 0 .. Len(Kinds)
Packets == Nat \X Frames
UserRec == [st : {"new", "answered", "known"}, addr : Addrs \cup {None}, dtls : Nat,
            dtls_done : BOOLEAN, again : BOOLEAN, muxer : BOOLEAN, seq : Nat, sps : BOOLEAN,
            sentsps : BOOLEAN, pos : Nat, cache : [0 .. QueueSize - 1 -> {<<>>} \cup Packets],
            log : Seq(Packets), out : Seq(Packets), reports : Nat]

Coded(v) ==
  /\ v \in UserRec
  /\ v.seq = Len(v.log)
  /\ \A i \in 1 .. Len(v.log) : v.log[i][1] = i
  /\ \A i \in 1 .. Len(v.log) : i + QueueSize > Len(v.log) => v.cache[i % QueueSize] = v.log[i]

\* A stream that starts as a decoder needs it.
Primed(v) ==
  /\ v.log # <<>>
  /\ \/ v.log[1][2] = 0 /\ Len(v.log) > 1 /\ Kinds[v.log[2][2]] = "key"
     \/ v.log[1][2] # 0 /\ Kinds[v.log[1][2]] = "full"

\* Until its muxer first has a frame, a user has sent nothing.
Fresh(v) == v.log = <<>> /\ ~v.sentsps

\* A user u whose record is v, when the user in its handshake is i and m frames are made.
UserFits(v, u, i, m) ==
  /\ Coded(v)
  /\ v.dtls \in 0 .. 2 /\ v.pos \in 0 .. m
  /\ ~v.muxer => v.pos = 0 /\ Fresh(v)
  /\ v.muxer => v.dtls = 2
  /\ v.dtls = 2 /\ ~v.muxer => i = u
  /\ i = u => v.dtls = 2
  /\ i = u /\ v.muxer => v.again
  /\ ~v.again => IF v.pos = 0 THEN Fresh(v) ELSE Primed(v)

UsersOK == DOMAIN user = Users /\ \A u \in Users : UserFits(user[u], u, init, made)

\* What TypeOK says beside the server.
RestOK ==
  /\ users \in [Addrs -> Users \cup {None}] /\ init \in Users \cup {None}
  /\ made \in 0 .. Len(Kinds) /\ push \subseteq Users /\ in \in 0 .. MaxIn /\ down \in BOOLEAN

WebrtcInv == RestOK /\ ServerOK /\ CallsOK /\ UsersOK

-----------------------------------------------------------------------------
(* Sequences.                                                              *)

\* A function on 1 .. n is a sequence of length n.
LEMMA FunctionIsSeq ==
  ASSUME NEW n \in Nat, NEW f, f = [i \in 1 .. n |-> f[i]]
  PROVE  IsSeq(f) /\ Len(f) = n
<1> DEFINE S == {f[i] : i \in 1 .. n}
<1>1. f \in [1 .. n -> S]
  OBVIOUS
<1> HIDE DEF S
<1>2. f \in Seq(S)
  BY <1>1, SeqDef
<1>3. Len(f) = n
  BY <1>1, <1>2, LenProperties
<1> QED BY <1>2, <1>3 DEF IsSeq

\* Two sequences, one after the other.
LEMMA ConcatIsSeq ==
  ASSUME NEW p, NEW q, IsSeq(p), IsSeq(q)
  PROVE  IsSeq(p \o q) /\ Len(p \o q) = Len(p) + Len(q) /\ Len(p) \in Nat /\ Len(q) \in Nat
<1>1. PICK S : p \in Seq(S)
  BY DEF IsSeq
<1>2. PICK T : q \in Seq(T)
  BY DEF IsSeq
<1>3. p \in Seq(S \cup T) /\ q \in Seq(S \cup T)
  BY <1>1, <1>2
<1>4. p \o q \in Seq(S \cup T) /\ Len(p \o q) = Len(p) + Len(q)
  BY <1>3
<1> QED BY <1>3, <1>4 DEF IsSeq

\* The numbers after m, as a sequence.
LEMMA AfterIs ==
  ASSUME NEW m \in Nat, NEW n \in Nat
  PROVE  After(m, n) \in Seq(Nat) /\ Len(After(m, n)) = n
BY DEF After

\* The next n numbers follow the first m.
LEMMA AfterAfter ==
  ASSUME NEW m \in Nat, NEW n \in Nat
  PROVE  After(0, m) \o After(m, n) = After(0, m + n)
<1> DEFINE a == After(0, m) \o After(m, n)
           b == After(0, m + n)
<1>1. /\ After(0, m) \in Seq(Nat) /\ Len(After(0, m)) = m
      /\ After(m, n) \in Seq(Nat) /\ Len(After(m, n)) = n
      /\ b \in Seq(Nat) /\ Len(b) = m + n
  BY AfterIs
<1>2. /\ a \in Seq(Nat) /\ Len(a) = m + n
      /\ \A i \in 1 .. m + n : a[i] = IF i <= m THEN After(0, m)[i] ELSE After(m, n)[i - m]
  <2> DEFINE p == After(0, m)
             q == After(m, n)
  <2>1. p \in Seq(Nat) /\ Len(p) = m /\ q \in Seq(Nat) /\ Len(q) = n
    BY <1>1
  <2> HIDE DEF p, q
  <2>2. /\ p \o q \in Seq(Nat) /\ Len(p \o q) = Len(p) + Len(q)
        /\ \A i \in 1 .. Len(p) + Len(q) : (p \o q)[i] = IF i <= Len(p) THEN p[i] ELSE q[i - Len(p)]
    BY <2>1, ConcatProperties
  <2>3. /\ p \o q \in Seq(Nat) /\ Len(p \o q) = m + n
        /\ \A i \in 1 .. m + n : (p \o q)[i] = IF i <= m THEN p[i] ELSE q[i - m]
    BY <2>1, <2>2
  <2> QED BY <2>3 DEF p, q
<1>3. \A i \in 1 .. m + n : b[i] = i
  BY DEF After
<1> HIDE DEF a, b
<1>4. ASSUME NEW i \in 1 .. m + n PROVE a[i] = i
  <2>1. CASE i <= m
    <3>1. After(0, m)[i] = i
      BY <2>1 DEF After
    <3> QED BY <1>2, <2>1, <3>1
  <2>2. CASE ~(i <= m)
    <3>1. i - m \in 1 .. n
      BY <2>2
    <3>2. After(m, n)[i - m] = i
      BY <3>1 DEF After
    <3> QED BY <1>2, <2>2, <3>2
  <2> QED BY <2>1, <2>2
<1>5. a = b
  BY <1>1, <1>2, <1>3, <1>4, SeqEqual
<1> QED BY <1>5 DEF a, b

\* The first n of a sequence and the rest.
LEMMA Cut ==
  ASSUME NEW q \in Seq(Nat), NEW n \in 0 .. Len(q)
  PROVE  LET a == SubSeq(q, 1, n)
             b == SubSeq(q, n + 1, Len(q))
         IN  /\ a \in Seq(Nat) /\ b \in Seq(Nat) /\ a \o b = q
             /\ Len(b) = Len(q) - n /\ Range(b) \subseteq Range(q)
<1> DEFINE a == SubSeq(q, 1, n)
           b == SubSeq(q, n + 1, Len(q))
<1>0. Len(q) \in Nat /\ DOMAIN q = 1 .. Len(q) /\ \A i \in 1 .. Len(q) : q[i] \in Nat
  OBVIOUS
<1>1. a \in Seq(Nat) /\ Len(a) = n /\ \A i \in 1 .. n : a[i] = q[i]
  <2>1. \A i \in 1 .. n : q[i] \in Nat
    BY <1>0
  <2>2. /\ a \in Seq(Nat) /\ Len(a) = IF 1 <= n THEN n - 1 + 1 ELSE 0
        /\ \A i \in 1 .. n - 1 + 1 : a[i] = q[1 + i - 1]
    BY <2>1, SubSeqProperties
  <2> HIDE DEF a
  <2> QED BY <2>2
<1>2. /\ b \in Seq(Nat) /\ Len(b) = Len(q) - n
      /\ \A i \in 1 .. Len(q) - n : b[i] = q[n + i] /\ n + i \in 1 .. Len(q)
  <2>1. \A i \in n + 1 .. Len(q) : q[i] \in Nat
    BY <1>0
  <2>2. /\ b \in Seq(Nat) /\ Len(b) = IF n + 1 <= Len(q) THEN Len(q) - (n + 1) + 1 ELSE 0
        /\ \A i \in 1 .. Len(q) - (n + 1) + 1 : b[i] = q[n + 1 + i - 1]
    BY <1>0, <2>1, SubSeqProperties
  <2> HIDE DEF a, b
  <2>3. Len(b) = Len(q) - n
    <3> DEFINE m == Len(q)
    <3>1. m \in Nat /\ n \in 0 .. m
      BY <1>0
    <3> HIDE DEF m
    <3>2. (IF n + 1 <= m THEN m - (n + 1) + 1 ELSE 0) = m - n
      BY <3>1
    <3> QED BY <2>2, <3>2 DEF m
  <2>4. ASSUME NEW i \in 1 .. Len(q) - n PROVE b[i] = q[n + i] /\ n + i \in 1 .. Len(q)
    <3>1. i \in 1 .. Len(q) - (n + 1) + 1 /\ n + 1 + i - 1 = n + i /\ n + i \in 1 .. Len(q)
      BY <1>0
    <3> QED BY <2>2, <3>1
  <2> QED BY <2>2, <2>3, <2>4
<1> HIDE DEF a, b
<1>3. /\ a \o b \in Seq(Nat) /\ Len(a \o b) = n + (Len(q) - n)
      /\ \A i \in 1 .. n + (Len(q) - n) : (a \o b)[i] = IF i <= n THEN a[i] ELSE b[i - n]
  BY <1>1, <1>2, ConcatProperties, SMTT(30)
<1>4. ASSUME NEW i \in 1 .. Len(q) PROVE (a \o b)[i] = q[i]
  <2>1. i \in 1 .. n + (Len(q) - n)
    BY <1>0
  <2>2. CASE i <= n
    BY <1>1, <1>3, <2>1, <2>2
  <2>3. CASE ~(i <= n)
    <3>1. i - n \in 1 .. Len(q) - n /\ n + (i - n) = i
      BY <1>0, <2>3
    <3>2. b[i - n] = q[i]
      BY <1>2, <3>1
    <3> QED BY <1>3, <2>1, <2>3, <3>2
  <2> QED BY <2>2, <2>3
<1>5. a \o b = q
  <2>1. Len(a \o b) = Len(q)
    BY <1>0, <1>3
  <2> QED BY <1>3, <1>4, <2>1, SeqEqual
<1>6. Range(b) \subseteq Range(q)
  <2> SUFFICES ASSUME NEW x \in Range(b) PROVE x \in Range(q)
    OBVIOUS
  <2>1. PICK i \in 1 .. Len(q) - n : x = b[i]
    BY <1>2 DEF Range
  <2>2. x = q[n + i] /\ n + i \in DOMAIN q
    BY <1>0, <1>2, <2>1
  <2> QED BY <2>2 DEF Range
<1> QED BY <1>1, <1>2, <1>5, <1>6 DEF a, b

\* What two sequences have, together.
LEMMA ConcatRange ==
  ASSUME NEW p \in Seq(Nat), NEW q \in Seq(Nat)
  PROVE  p \o q \in Seq(Nat) /\ Range(p \o q) = Range(p) \cup Range(q)
<1> DEFINE c == p \o q
           m == Len(p)
<1>1. /\ c \in Seq(Nat) /\ Len(c) = m + Len(q) /\ m \in Nat /\ Len(q) \in Nat
      /\ \A i \in 1 .. m + Len(q) : c[i] = IF i <= m THEN p[i] ELSE q[i - m]
  BY ConcatProperties
<1>2. /\ Range(c) = {c[i] : i \in 1 .. m + Len(q)} /\ Range(p) = {p[i] : i \in 1 .. m}
      /\ Range(q) = {q[i] : i \in 1 .. Len(q)}
  <2>1. DOMAIN c = 1 .. Len(c) /\ DOMAIN p = 1 .. m /\ DOMAIN q = 1 .. Len(q)
    BY <1>1
  <2> HIDE DEF c, m
  <2> QED BY <1>1, <2>1 DEF Range
<1> HIDE DEF c, m
<1>3. ASSUME NEW x \in Range(c) PROVE x \in Range(p) \cup Range(q)
  <2>1. PICK i \in 1 .. m + Len(q) : x = c[i]
    BY <1>2
  <2>2. CASE i <= m
    <3>1. i \in 1 .. m /\ x = p[i]
      BY <1>1, <2>1, <2>2
    <3> QED BY <1>2, <3>1
  <2>3. CASE ~(i <= m)
    <3>1. i - m \in 1 .. Len(q) /\ x = q[i - m]
      BY <1>1, <2>1, <2>3
    <3> QED BY <1>2, <3>1
  <2> QED BY <2>2, <2>3
<1>4. ASSUME NEW x \in Range(p) PROVE x \in Range(c)
  <2>1. PICK i \in 1 .. m : x = p[i]
    BY <1>2
  <2>2. i \in 1 .. m + Len(q) /\ c[i] = x
    BY <1>1, <2>1
  <2> QED BY <1>2, <2>2
<1>5. ASSUME NEW x \in Range(q) PROVE x \in Range(c)
  <2>1. PICK i \in 1 .. Len(q) : x = q[i]
    BY <1>2
  <2>2. m + i \in 1 .. m + Len(q) /\ ~(m + i <= m) /\ (m + i) - m = i
    BY <1>1
  <2>3. c[m + i] = x
    BY <1>1, <2>1, <2>2
  <2> QED BY <1>2, <2>2, <2>3
<1>6. Range(c) = Range(p) \cup Range(q)
  BY <1>3, <1>4, <1>5
<1> QED BY <1>1, <1>6 DEF c

-----------------------------------------------------------------------------
(* WebrtcServer and UdpSocket.                                             *)

\* Appending, without what the provers know of \o.
Cat(p, q) == p \o q

\* Sequences in a row, grouped from the left or from the right.
LEMMA CatGroups ==
  \A S : \A p, q, r \in Seq(S) : Cat(Cat(p, q), r) = Cat(p, Cat(q, r))
BY ConcatAssociative, Zenon DEF Cat

\* The same of packets' numbers.
LEMMA Grouping ==
  /\ \A p, q, r \in Seq(Nat) : Cat(Cat(p, q), r) = Cat(p, Cat(q, r))
  /\ \A p, q \in Seq(Nat) : Cat(p, q) \in Seq(Nat)
<1>1. \A p, q, r \in Seq(Nat) : Cat(Cat(p, q), r) = Cat(p, Cat(q, r))
  BY CatGroups
<1>2. \A p, q \in Seq(Nat) : Cat(p, q) \in Seq(Nat)
  BY DEF Cat
<1> QED BY <1>1, <1>2

\* Nothing before or after a sequence.
LEMMA ConcatFacts ==
  /\ \A q \in Seq(Nat) : q \o <<>> = q /\ <<>> \o q = q
  /\ \A p, q \in Seq(Nat) : p \o q \in Seq(Nat)
  /\ <<>> \in Seq(Nat) /\ Range(<<>>) = {}
<1>1. \A q \in Seq(Nat) : q \o <<>> = q /\ <<>> \o q = q
  BY ConcatEmptySeq
<1>3. \A p, q \in Seq(Nat) : p \o q \in Seq(Nat)
  OBVIOUS
<1>4. <<>> \in Seq(Nat) /\ Range(<<>>) = {}
  BY DEF Range
<1> QED BY <1>1, <1>3, <1>4

\* UdpSocket::SendInLoop appends the list to the socket's buffer (UdpSocket.cpp).
LEMMA SendInLoopKeeps ==
  ASSUME NEW s \in SrvRec, Holds(s)
  PROVE  LET n == SendInLoop(s)
         IN  /\ n \in SrvRec /\ Holds(n)
             /\ n.buffer = s.buffer \o s.outs
             /\ n.sending = s.sending /\ n.tasks = s.tasks /\ n.waiting = s.waiting
             /\ n.outs = s.outs /\ n.held = s.held
<1> DEFINE b == s.buffer \o s.outs
           e == [s EXCEPT !.buffer = b, !.writing = TRUE, !.edge = TRUE]
<1>1. /\ s.buffer \in Seq(Nat) /\ s.outs \in Seq(Nat) /\ s.held \in Seq(Nat)
  BY DEF SrvRec
<1>2. b \in Seq(Nat) /\ Range(b) = Range(s.buffer) \cup Range(s.outs)
  BY <1>1, ConcatRange
<1>3. CASE b = <<>>
  <2>1. s.buffer = <<>>
    BY <1>1, <1>3, ConcatSimplifications
  <2> QED BY <1>3, <2>1 DEF SendInLoop
<1>4. CASE b # <<>>
  <2> HIDE DEF b
  <2>1. /\ e \in SrvRec /\ e.buffer = b /\ e.held = s.held /\ e.outs = s.outs
        /\ e.sending = s.sending /\ e.tasks = s.tasks /\ e.waiting = s.waiting
    BY <1>2 DEF SrvRec
  <2> HIDE DEF e
  <2>2. Holds(e)
    BY <1>2, <2>1 DEF Holds
  <2>3. SendInLoop(s) = e
    BY <1>4 DEF SendInLoop, b, e
  <2> QED BY <2>1, <2>2, <2>3 DEF b
<1> QED BY <1>3, <1>4

\* A list handed to SendPacket comes after all that is still to leave.
LEMMA SendPacketKeeps ==
  ASSUME NEW s \in SrvRec, Holds(s), NEW list \in Seq(Nat), NEW inLoop \in BOOLEAN
  PROVE  LET n == SendPacket(s, list, inLoop)
         IN  /\ n \in SrvRec /\ Holds(n)
             /\ Idle(s) => Idle(n) /\ Pending(n) = Pending(s) \o list
<1>1. /\ s.buffer \in Seq(Nat) /\ s.outs \in Seq(Nat) /\ s.held \in Seq(Nat) /\ s.waiting \in Seq(Nat)
      /\ s.tasks \in Nat /\ s.sending \in BOOLEAN
  BY DEF SrvRec
<1>2. CASE s.sending
  <2> DEFINE x == s.waiting \o list
             n == [s EXCEPT !.waiting = x]
  <2>1. x \in Seq(Nat)
    BY <1>1
  <2> HIDE DEF x
  <2>2. /\ n \in SrvRec /\ n.buffer = s.buffer /\ n.outs = s.outs /\ n.held = s.held
        /\ n.waiting = x /\ n.tasks = s.tasks /\ n.sending = s.sending
    BY <2>1 DEF SrvRec
  <2> HIDE DEF n
  <2>3. Holds(n)
    BY <2>2 DEF Holds
  <2>4. Idle(s) => Idle(n)
    BY <1>2, <2>2 DEF Idle
  <2>5. Pending(n) = Pending(s) \o list
    <3> DEFINE tk == IF s.tasks = 1 THEN s.outs ELSE <<>>
    <3>1. tk \in Seq(Nat)
      BY <1>1, ConcatFacts
    <3> HIDE DEF tk
    <3>2. (s.buffer \o tk) \in Seq(Nat)
      BY <1>1, <3>1
    <3>3. (s.buffer \o tk) \o (s.waiting \o list) = ((s.buffer \o tk) \o s.waiting) \o list
      <4> DEFINE a == s.buffer \o tk
                 b == s.waiting
      <4>1. a \in Seq(Nat) /\ b \in Seq(Nat) /\ list \in Seq(Nat)
        BY <1>1, <3>2
      <4> HIDE DEF a, b
      <4>2. Cat(a, Cat(b, list)) = Cat(Cat(a, b), list)
        BY <4>1, Grouping
      <4> QED BY <4>2 DEF a, b, Cat
    <3>4. Pending(s) = (s.buffer \o tk) \o s.waiting /\ Pending(n) = (s.buffer \o tk) \o x
      BY <2>2 DEF Pending, tk
    <3> QED BY <3>3, <3>4 DEF x
  <2>6. SendPacket(s, list, inLoop) = n
    BY <1>2 DEF SendPacket, n, x
  <2> QED BY <2>2, <2>3, <2>4, <2>5, <2>6
<1>3. CASE ~s.sending /\ list = <<>>
  <2> DEFINE n == [s EXCEPT !.outs = <<>>]
  <2>1. /\ n \in SrvRec /\ n.buffer = s.buffer /\ n.outs = <<>> /\ n.held = s.held
        /\ n.waiting = s.waiting /\ n.tasks = s.tasks /\ n.sending = s.sending
    BY ConcatFacts DEF SrvRec
  <2> HIDE DEF n
  <2>2. Holds(n)
    BY <2>1, ConcatFacts DEF Holds
  <2>3. ASSUME Idle(s) PROVE Idle(n) /\ Pending(n) = Pending(s) \o list
    <3>1. s.tasks # 1
      BY <1>3, <2>3 DEF Idle
    <3>2. Pending(s) = (s.buffer \o <<>>) \o s.waiting /\ Pending(n) = Pending(s)
      BY <2>1, <3>1 DEF Pending
    <3>3. Pending(s) \in Seq(Nat)
      BY <1>1, <3>2, ConcatFacts
    <3>4. Pending(s) \o list = Pending(s)
      BY <1>3, <3>3, ConcatFacts
    <3> QED BY <2>1, <2>3, <3>2, <3>4 DEF Idle
  <2>4. SendPacket(s, list, inLoop) = n
    BY <1>3 DEF SendPacket, n
  <2> QED BY <2>1, <2>2, <2>3, <2>4
<1>4. CASE ~s.sending /\ list # <<>>
  <2> DEFINE h == s.held \o list
             m == [s EXCEPT !.outs = list, !.held = h, !.sending = TRUE]
  <2>1. h \in Seq(Nat) /\ Range(h) = Range(s.held) \cup Range(list)
    BY <1>1, ConcatRange
  <2> HIDE DEF h
  <2>2. /\ m \in SrvRec /\ m.buffer = s.buffer /\ m.outs = list /\ m.held = h
        /\ m.waiting = s.waiting /\ m.tasks = s.tasks /\ m.sending = TRUE
    BY <2>1 DEF SrvRec
  <2> HIDE DEF m
  <2>3. Holds(m)
    BY <2>1, <2>2 DEF Holds
  <2>4. Idle(s) => /\ s.tasks = 0 /\ s.buffer = <<>> /\ s.waiting = <<>>
                   /\ Pending(s) = <<>> /\ Pending(s) \o list = list
    <3> SUFFICES ASSUME Idle(s)
                 PROVE  /\ s.tasks = 0 /\ s.buffer = <<>> /\ s.waiting = <<>>
                        /\ Pending(s) = <<>> /\ Pending(s) \o list = list
      OBVIOUS
    <3>1. s.tasks = 0 /\ s.buffer = <<>> /\ s.waiting = <<>>
      BY <1>1, <1>4 DEF Idle
    <3>2. Pending(s) = (<<>> \o <<>>) \o <<>>
      BY <3>1 DEF Pending
    <3> QED BY <3>1, <3>2, ConcatFacts
  <2>5. SendPacket(s, list, inLoop) = UdpSend(m, inLoop)
    BY <1>4 DEF SendPacket, m, h
  <2>6. CASE inLoop
    <3> DEFINE n == SendInLoop(m)
    <3>1. /\ n \in SrvRec /\ Holds(n) /\ n.buffer = m.buffer \o m.outs
          /\ n.sending = m.sending /\ n.tasks = m.tasks /\ n.waiting = m.waiting
      BY <2>2, <2>3, SendInLoopKeeps
    <3> HIDE DEF n
    <3>2. ASSUME Idle(s) PROVE Idle(n) /\ Pending(n) = Pending(s) \o list
      <4>0. n.buffer = <<>> \o list
        BY <2>2, <2>4, <3>1, <3>2
      <4>1. n.tasks = 0 /\ n.sending /\ n.waiting = <<>> /\ n.buffer = list
        BY <2>2, <2>4, <3>1, <3>2, <4>0, ConcatFacts
      <4>2. Pending(n) = (list \o <<>>) \o <<>>
        BY <4>1 DEF Pending
      <4> QED BY <2>4, <3>2, <4>1, <4>2, ConcatFacts DEF Idle
    <3> QED BY <2>5, <2>6, <3>1, <3>2 DEF UdpSend, n
  <2>7. CASE ~inLoop
    <3> DEFINE n == [m EXCEPT !.tasks = m.tasks + 1]
    <3>1. /\ n \in SrvRec /\ n.buffer = m.buffer /\ n.outs = m.outs /\ n.held = m.held
          /\ n.waiting = m.waiting /\ n.tasks = m.tasks + 1 /\ n.sending = m.sending
      <4>1. m.tasks + 1 \in Nat
        BY <1>1, <2>2
      <4> QED BY <2>2, <4>1 DEF SrvRec
    <3> HIDE DEF n
    <3>2. Holds(n)
      BY <2>3, <3>1 DEF Holds
    <3>3. ASSUME Idle(s) PROVE Idle(n) /\ Pending(n) = Pending(s) \o list
      <4>1. n.tasks = 1 /\ n.sending /\ n.waiting = <<>> /\ n.buffer = <<>> /\ n.outs = list
        BY <2>2, <2>4, <3>1, <3>3
      <4>2. Pending(n) = (<<>> \o list) \o <<>>
        BY <4>1 DEF Pending
      <4> QED BY <2>4, <3>3, <4>1, <4>2, ConcatFacts DEF Idle
    <3>4. SendPacket(s, list, inLoop) = n
      BY <2>5, <2>7 DEF UdpSend, n
    <3> QED BY <3>1, <3>2, <3>3, <3>4
  <2> QED BY <2>6, <2>7
<1> QED BY <1>1, <1>2, <1>3, <1>4

\* A write-complete on an empty buffer sends what has waited, in its order.
LEMMA WriteCompleteKeeps ==
  ASSUME NEW s \in SrvRec, s.buffer = <<>>
  PROVE  LET n == WriteComplete(s)
         IN  /\ n \in SrvRec /\ Holds(n)
             /\ Idle(s) /\ s.tasks = 0 => Idle(n) /\ Pending(n) = Pending(s)
<1> DEFINE m == [s EXCEPT !.sending = FALSE, !.held = <<>>, !.outs = <<>>]
<1>1. s.waiting \in Seq(Nat) /\ s.tasks \in Nat
  BY DEF SrvRec
<1>2. /\ m \in SrvRec /\ m.buffer = <<>> /\ m.outs = <<>> /\ m.held = <<>> /\ ~m.sending
      /\ m.waiting = s.waiting /\ m.tasks = s.tasks
  BY ConcatFacts DEF SrvRec
<1>3. WriteComplete(s) = OnSend(m)
  BY DEF WriteComplete
<1>4. s.tasks = 0 => Pending(s) = s.waiting
  <2>1. ASSUME s.tasks = 0 PROVE Pending(s) = (<<>> \o <<>>) \o s.waiting
    BY <2>1 DEF Pending
  <2> QED BY <1>1, <2>1, ConcatFacts
<1> HIDE DEF m
<1>5. CASE s.waiting = <<>>
  <2>1. OnSend(m) = m
    BY <1>2, <1>5 DEF OnSend
  <2>2. Holds(m)
    BY <1>2, ConcatFacts DEF Holds
  <2>3. ASSUME s.tasks = 0 PROVE Idle(m) /\ Pending(m) = s.waiting
    <3>1. Pending(m) = (<<>> \o <<>>) \o <<>>
      BY <1>2, <1>5, <2>3 DEF Pending
    <3> QED BY <1>2, <1>5, <2>3, <3>1, ConcatFacts DEF Idle
  <2> QED BY <1>2, <1>3, <1>4, <2>1, <2>2, <2>3
<1>6. CASE s.waiting # <<>>
  <2> DEFINE k == [m EXCEPT !.outs = m.waiting, !.held = m.held \o m.waiting, !.waiting = <<>>,
                            !.sending = TRUE]
             n == SendInLoop(k)
  <2>1. m.held \o m.waiting = s.waiting
    BY <1>1, <1>2, ConcatFacts
  <2>2. /\ k \in SrvRec /\ k.buffer = <<>> /\ k.outs = s.waiting /\ k.held = s.waiting /\ k.sending
        /\ k.waiting = <<>> /\ k.tasks = s.tasks
    BY <1>1, <1>2, <2>1, ConcatFacts DEF SrvRec
  <2>3. OnSend(m) = n
    BY <1>2, <1>6 DEF OnSend
  <2> HIDE DEF k
  <2>4. Holds(k)
    BY <2>2, ConcatFacts DEF Holds
  <2>5. /\ n \in SrvRec /\ Holds(n) /\ n.buffer = k.buffer \o k.outs
        /\ n.sending = k.sending /\ n.tasks = k.tasks /\ n.waiting = k.waiting
    BY <2>2, <2>4, SendInLoopKeeps
  <2> HIDE DEF n
  <2>6. n.buffer = s.waiting
    BY <1>1, <2>2, <2>5, ConcatFacts
  <2>7. ASSUME s.tasks = 0 PROVE Idle(n) /\ Pending(n) = s.waiting
    <3>1. Pending(n) = (s.waiting \o <<>>) \o <<>>
      BY <2>2, <2>5, <2>6, <2>7 DEF Pending
    <3>2. Pending(n) = s.waiting
      BY <1>1, <3>1, ConcatFacts
    <3> QED BY <2>2, <2>5, <2>7, <3>2 DEF Idle
  <2> QED BY <1>3, <1>4, <2>3, <2>5, <2>7
<1> QED BY <1>5, <1>6

\* What is still to leave is a sequence of packets' numbers.
LEMMA PendingIs ==
  ASSUME NEW s \in SrvRec
  PROVE  Pending(s) \in Seq(Nat)
<1> DEFINE tk == IF s.tasks = 1 THEN s.outs ELSE <<>>
<1>1. s.buffer \in Seq(Nat) /\ s.outs \in Seq(Nat) /\ s.waiting \in Seq(Nat)
  BY DEF SrvRec
<1>2. tk \in Seq(Nat)
  BY <1>1, ConcatFacts
<1>3. Pending(s) = (s.buffer \o tk) \o s.waiting
  BY DEF Pending
<1> HIDE DEF tk
<1> QED BY <1>1, <1>2, <1>3, ConcatFacts

\* Five sequences in two groupings.
LEMMA Regroup ==
  ASSUME NEW p \in Seq(Nat), NEW q \in Seq(Nat), NEW r \in Seq(Nat), NEW s \in Seq(Nat),
         NEW t \in Seq(Nat)
  PROVE  Cat(Cat(p, q), Cat(Cat(r, s), t)) = Cat(p, Cat(Cat(Cat(q, r), s), t))
<1>1. Cat(q, r) \in Seq(Nat) /\ Cat(s, t) \in Seq(Nat) /\ Cat(r, Cat(s, t)) \in Seq(Nat)
  BY Grouping
<1>2. Cat(Cat(r, s), t) = Cat(r, Cat(s, t))
  BY Grouping
<1>3. Cat(Cat(Cat(q, r), s), t) = Cat(Cat(q, r), Cat(s, t))
  BY <1>1, Grouping
<1>4. Cat(Cat(q, r), Cat(s, t)) = Cat(q, Cat(r, Cat(s, t)))
  BY <1>1, Grouping
<1>5. Cat(Cat(p, q), Cat(r, Cat(s, t))) = Cat(p, Cat(q, Cat(r, Cat(s, t))))
  BY <1>1, Grouping
<1> QED BY <1>2, <1>3, <1>4, <1>5

-----------------------------------------------------------------------------
(* Folding the frames of a batch.                                          *)

\* Induction on naturals, by a set.
LEMMA SetInduction ==
  ASSUME NEW S, 0 \in S, \A k \in Nat : k \in S => k + 1 \in S
  PROVE  Nat \subseteq S
<1> SUFFICES ASSUME NEW n \in Nat, n \notin S PROVE FALSE
  OBVIOUS
<1> DEFINE R == OpToRel(<, Nat)
           T == Nat \ S
<1>1. \A x, y \in Nat : y < x => <<y, x>> \in R
  BY DEF OpToRel
<1>2. IsWellFoundedOn(R, Nat)
  BY NatLessThanWellFounded
<1> HIDE DEF R
<1>3. PICK z \in T : \A y \in T : ~ (<<y, z>> \in R)
  BY <1>2, WFMin
<1>4. z # 0 /\ z - 1 \in Nat
  BY <1>3
<1>5. z \in Nat /\ z \notin S /\ z - 1 < z
  BY <1>3, <1>4
<1>6. <<z - 1, z>> \in R
  BY <1>1, <1>4, <1>5
<1>7. z - 1 \in S
  BY <1>3, <1>4, <1>6
<1>8. (z - 1) + 1 \in S
  BY <1>4, <1>7
<1> QED BY <1>4, <1>5, <1>8


\* What FoldLeft's iteration does on a set of positions.
Step(iter, base, q, s) ==
  IF s = {} THEN base ELSE EncodeVideo(iter[s \ {Max(s)}], q[Max(s)])
Iterates(iter, base, q, D) == iter = [s \in SUBSET D |-> Step(iter, base, q, s)]

\* FoldLeft iterates over the sets of positions.
LEMMA FoldIs ==
  ASSUME NEW base, NEW q
  PROVE FoldLeft(EncodeVideo, base, q)
          = (CHOOSE iter : Iterates(iter, base, q, DOMAIN q))[DOMAIN q]
BY DEF FoldLeft, MapThenFoldSet, Iterates, Step

\* A bounded set of positions has a greatest one, and Max is it.
LEMMA MaxProp ==
  ASSUME NEW m \in Nat, NEW S, S \subseteq 1 .. m, S # {}
  PROVE  Max(S) \in S /\ \A x \in S : x <= Max(S)
<1> DEFINE T == {n \in Nat : (\E x \in S : x <= n) => \E x \in S : \A y \in S : y <= n => y <= x}
<1>1. 0 \in T
  OBVIOUS
<1>2. ASSUME NEW n \in Nat, n \in T PROVE n + 1 \in T
  <2>1. CASE n + 1 \in S
    <3>1. \A y \in S : y <= n + 1 => y <= n + 1
      OBVIOUS
    <3> QED BY <2>1, <3>1
  <2>2. CASE n + 1 \notin S
    <3>1. \A y \in S : y <= n + 1 => y <= n
      BY <2>2
    <3>2. \A y \in S : y <= n => y <= n + 1
      OBVIOUS
    <3> QED BY <1>2, <3>1, <3>2
  <2> QED BY <2>1, <2>2
<1> HIDE DEF T
<1>3. m \in T
  BY <1>1, <1>2, SetInduction
<1>4. \A x \in S : x \in Nat /\ x <= m
  OBVIOUS
<1>5. PICK x \in S : \A y \in S : y <= m => y <= x
  BY <1>3, <1>4 DEF T
<1>6. \E z \in S : \A y \in S : y <= z
  BY <1>4, <1>5
<1> QED BY <1>6 DEF Max

\* There is such an iteration, over any number of positions.
LEMMA IterExists ==
  ASSUME NEW base, NEW q, NEW m \in Nat
  PROVE  \E iter : Iterates(iter, base, q, 1 .. m)
<1> DEFINE T == {n \in Nat : \E iter : Iterates(iter, base, q, 1 .. n)}
<1>1. 0 \in T
  <2> DEFINE e == [s \in SUBSET (1 .. 0) |-> base]
  <2>1. e = [s \in SUBSET (1 .. 0) |-> Step(e, base, q, s)]
    <3>1. ASSUME NEW s \in SUBSET (1 .. 0) PROVE base = Step(e, base, q, s)
      BY DEF Step
    <3> QED BY <3>1
  <2> QED BY <2>1 DEF Iterates
<1>2. ASSUME NEW n \in Nat, n \in T PROVE n + 1 \in T
  <2>1. PICK iter : Iterates(iter, base, q, 1 .. n)
    BY <1>2
  <2> DEFINE D == 1 .. n + 1
             e == [s \in SUBSET D |-> IF n + 1 \in s THEN EncodeVideo(iter[s \ {n + 1}], q[n + 1])
                                      ELSE iter[s]]
  <2>2. ASSUME NEW s \in SUBSET D PROVE e[s] = Step(e, base, q, s)
    <3>1. CASE n + 1 \in s
      <4>1. Max(s) = n + 1
        <5>1. Max(s) \in s /\ \A x \in s : x <= Max(s)
          BY <3>1, MaxProp, n + 1 \in Nat
        <5>2. n + 1 <= Max(s) /\ Max(s) \in 1 .. n + 1
          BY <3>1, <5>1
        <5> QED BY <5>2
      <4>2. s \ {n + 1} \in SUBSET D /\ n + 1 \notin s \ {n + 1}
        OBVIOUS
      <4>3. e[s \ {n + 1}] = iter[s \ {n + 1}]
        BY <4>2
      <4>4. e[s] = EncodeVideo(iter[s \ {n + 1}], q[n + 1])
        BY <3>1
      <4> HIDE DEF e
      <4> QED BY <3>1, <4>1, <4>3, <4>4 DEF Step
    <3>2. CASE n + 1 \notin s
      <4>1. s \in SUBSET (1 .. n)
        BY <3>2
      <4>2. e[s] = iter[s] /\ iter[s] = Step(iter, base, q, s)
        BY <2>1, <3>2, <4>1 DEF Iterates
      <4>3. s # {} => e[s \ {Max(s)}] = iter[s \ {Max(s)}]
        BY <3>2
      <4> HIDE DEF e
      <4> QED BY <4>2, <4>3 DEF Step
    <3> QED BY <3>1, <3>2
  <2>3. e = [s \in SUBSET D |-> Step(e, base, q, s)]
    <3> DEFINE f == [s \in SUBSET D |-> Step(e, base, q, s)]
    <3>1. \A s \in SUBSET D : e[s] = f[s]
      BY <2>2
    <3> QED BY <3>1
  <2> HIDE DEF e
  <2>4. Iterates(e, base, q, 1 .. n + 1)
    BY <2>3 DEF Iterates
  <2> QED BY <2>4
<1> HIDE DEF T
<1>3. m \in T
  BY <1>1, <1>2, SetInduction
<1> QED BY <1>3 DEF T

\* Encoding a list of frames (Encode).
EncodeAll(base, q) == FoldLeft(EncodeVideo, base, q)

\* FoldLeft, one frame after the other.
LEMMA FoldSteps ==
  ASSUME NEW base, NEW q, NEW m \in Nat, DOMAIN q = 1 .. m
  PROVE  \E g : /\ g[0] = base
                /\ \A k \in 0 .. m - 1 : g[k + 1] = EncodeVideo(g[k], q[k + 1])
                /\ EncodeAll(base, q) = g[m]
<1> DEFINE iter == CHOOSE iter : Iterates(iter, base, q, 1 .. m)
           g == [k \in 0 .. m |-> iter[1 .. k]]
<1>1. Iterates(iter, base, q, 1 .. m)
  BY IterExists
<1>2. EncodeAll(base, q) = iter[1 .. m]
  BY FoldIs DEF EncodeAll
<1> HIDE DEF iter
<1>3. \A s \in SUBSET (1 .. m) : iter[s] = Step(iter, base, q, s)
  BY <1>1 DEF Iterates
<1>4. g[0] = base
  <2>1. 1 .. 0 = {} /\ {} \in SUBSET (1 .. m)
    OBVIOUS
  <2>2. iter[{}] = base
    BY <1>3, <2>1 DEF Step
  <2> QED BY <2>1, <2>2
<1>5. ASSUME NEW k \in 0 .. m - 1 PROVE g[k + 1] = EncodeVideo(g[k], q[k + 1])
  <2> DEFINE s == 1 .. k + 1
  <2>1. s \in SUBSET (1 .. m) /\ s # {} /\ k + 1 \in Nat /\ k \in 0 .. m /\ k + 1 \in 0 .. m
    OBVIOUS
  <2>2. Max(s) \in s /\ \A x \in s : x <= Max(s)
    BY <2>1, MaxProp
  <2>3. Max(s) = k + 1
    <3>1. k + 1 <= Max(s) /\ Max(s) \in 1 .. k + 1
      BY <2>2
    <3> QED BY <3>1
  <2>4. s \ {k + 1} = 1 .. k
    OBVIOUS
  <2>5. g[k + 1] = iter[s] /\ g[k] = iter[1 .. k]
    BY <2>1
  <2> HIDE DEF s, g
  <2>6. iter[s] = EncodeVideo(iter[s \ {k + 1}], q[k + 1])
    BY <1>3, <2>1, <2>3 DEF Step
  <2> QED BY <2>4, <2>5, <2>6
<1>6. EncodeAll(base, q) = g[m]
  BY <1>2
<1> QED BY <1>4, <1>5, <1>6

-----------------------------------------------------------------------------
(* Division with remainder.                                                *)

\* Division with remainder.
LEMMA ModDef ==
  ASSUME NEW N \in Nat \ {0}, NEW a \in Nat
  PROVE  a % N \in 0 .. N - 1 /\ a \div N \in Nat /\ a = N * (a \div N) + (a % N)
OBVIOUS

\* A positive multiple of N is at least N.
LEMMA MulStep ==
  ASSUME NEW N \in Nat \ {0}, NEW q \in Int, q >= 1
  PROVE  N * q >= N
BY Z3

\* Two packets less than a ring apart that share a slot are the same packet.
LEMMA ModUnique ==
  ASSUME NEW N \in Nat \ {0}, NEW a \in Nat, NEW b \in Nat,
         a % N = b % N, a <= b, b - a < N
  PROVE  a = b
<1> DEFINE p == a \div N
           q == b \div N
<1>1. /\ p \in Nat /\ q \in Nat /\ a % N \in 0 .. N - 1
      /\ a = N * p + (a % N) /\ b = N * q + (b % N)
  BY ModDef
<1> HIDE DEF p, q
<1>2. b - a = N * (q - p)
  BY <1>1
<1>3. ~(q - p >= 1)
  BY <1>1, <1>2, MulStep
<1>4. p - q \in Int /\ q - p \in Int /\ (q - p < 0 \/ q = p)
  BY <1>1, <1>3
<1>5. CASE q = p
  BY <1>1, <1>5
<1>6. CASE q - p < 0
  <2> DEFINE r == N * (p - q)
  <2>1. r >= N
    BY <1>6, <1>4, <1>1, MulStep
  <2>2. a - b = r
    BY <1>1, <1>4, <1>2
  <2> HIDE DEF r
  <2> QED BY <2>1, <2>2
<1> QED BY <1>4, <1>5, <1>6

\* The remainder of a number given by its quotient and remainder.
LEMMA ModOf ==
  ASSUME NEW N \in Nat \ {0}, NEW q \in Nat, NEW r \in 0 .. N - 1
  PROVE  (N * q + r) % N = r
OBVIOUS

-----------------------------------------------------------------------------
(* RtpMuxer and the cache of what it sent.                                 *)

\* What encoding leaves alone.
SameUser(v, n) ==
  /\ n.pos = v.pos /\ n.dtls = v.dtls /\ n.muxer = v.muxer /\ n.again = v.again /\ n.sps = v.sps

\* What is assumed of the constants.
LEMMA Sizes ==
  /\ QueueSize \in Nat \ {0} /\ SeqNums \in Nat \ {0} /\ SeqNums > QueueSize
  /\ Kinds \in Seq({"key", "full", "inter", "b"}) /\ Len(Kinds) \in Nat
  /\ 0 \in Frames /\ \A i \in 1 .. Len(Kinds) : i \in Frames
<1>1. Kinds \in Seq({"key", "full", "inter", "b"}) /\ Len(Kinds) \in Nat
  BY WebrtcAssumption
<1>2. QueueSize \in Nat \ {0} /\ SeqNums \in Nat \ {0} /\ SeqNums > QueueSize
  BY WebrtcAssumption
<1> QED BY <1>1, <1>2 DEF Frames

\* A packet is numbered next, remembered and put where the cache looks for it
\* (RtpMuxer::EncodeVideo, WebrtcPlayerUser::AddVideo).
LEMMA PacketizeKeeps ==
  ASSUME NEW v, Coded(v), NEW f \in Frames
  PROVE  LET n == Packetize(v, f)
         IN  /\ Coded(n) /\ SameUser(v, n) /\ n.sentsps = v.sentsps
             /\ Len(n.log) = Len(v.log) + 1 /\ Len(v.log) \in Nat
             /\ n.log[Len(v.log) + 1][2] = f
             /\ \A i \in 1 .. Len(v.log) : n.log[i] = v.log[i]
<1> DEFINE p == <<v.seq + 1, f>>
           l == Append(v.log, p)
           k == p[1] % QueueSize
           c == [v.cache EXCEPT ![k] = p]
           x == Append(v.out, p)
           n == [v EXCEPT !.seq = v.seq + 1, !.log = l, !.cache = c, !.out = x]
<1>1. /\ v \in UserRec /\ v.seq \in Nat /\ v.log \in Seq(Packets) /\ v.out \in Seq(Packets)
      /\ v.cache \in [0 .. QueueSize - 1 -> {<<>>} \cup Packets]
      /\ v.seq = Len(v.log)
  BY DEF Coded, UserRec
<1>2. v.seq + 1 \in Nat /\ p \in Packets /\ p[1] = v.seq + 1 /\ p[2] = f
  BY <1>1 DEF Packets
<1>3. k \in 0 .. QueueSize - 1
  BY <1>2, Sizes, ModDef
<1> HIDE DEF p, k
<1>4. /\ l \in Seq(Packets) /\ Len(l) = Len(v.log) + 1 /\ l[Len(v.log) + 1] = p
      /\ \A i \in 1 .. Len(v.log) : l[i] = v.log[i]
  BY <1>1, <1>2, AppendProperties
<1>5. x \in Seq(Packets)
  BY <1>1, <1>2, AppendProperties
<1>6. /\ c \in [0 .. QueueSize - 1 -> {<<>>} \cup Packets] /\ c[k] = p
      /\ \A j \in 0 .. QueueSize - 1 : j # k => c[j] = v.cache[j]
  BY <1>1, <1>2, <1>3
<1>7. Packetize(v, f) = n
  BY DEF Packetize, p, k
<1> HIDE DEF l, c, x
<1>8. /\ n \in UserRec /\ SameUser(v, n) /\ n.sentsps = v.sentsps
      /\ n.seq = v.seq + 1 /\ n.log = l /\ n.cache = c
  BY <1>1, <1>2, <1>4, <1>5, <1>6 DEF UserRec, SameUser
<1> HIDE DEF n
<1>9. n.seq = Len(n.log)
  BY <1>1, <1>4, <1>8
<1>10. ASSUME NEW i \in 1 .. Len(n.log) PROVE n.log[i][1] = i
  <2>1. CASE i \in 1 .. Len(v.log)
    BY <1>4, <1>8, <2>1 DEF Coded
  <2>2. CASE i = Len(v.log) + 1
    BY <1>1, <1>2, <1>4, <1>8, <2>2
  <2> QED BY <1>1, <1>4, <1>8, <2>1, <2>2
<1>11. ASSUME NEW i \in 1 .. Len(n.log), i + QueueSize > Len(n.log)
       PROVE  n.cache[i % QueueSize] = n.log[i]
  <2>1. CASE i = Len(v.log) + 1
    <3>1. i % QueueSize = k
      BY <1>1, <1>2, <2>1 DEF k
    <3> QED BY <1>4, <1>6, <1>8, <2>1, <3>1
  <2>2. CASE i # Len(v.log) + 1
    <3>1. i \in 1 .. Len(v.log) /\ i + QueueSize > Len(v.log) /\ i \in Nat
      BY <1>1, <1>4, <1>8, <1>11, <2>2, Sizes
    <3>2. v.cache[i % QueueSize] = v.log[i]
      BY <3>1 DEF Coded
    <3>3. i % QueueSize \in 0 .. QueueSize - 1
      BY <3>1, Sizes, ModDef
    <3>4. i % QueueSize # k
      <4> SUFFICES ASSUME i % QueueSize = k PROVE FALSE
        OBVIOUS
      <4>1. i % QueueSize = (v.seq + 1) % QueueSize
        BY <1>2 DEF k
      <4>2. i <= v.seq + 1 /\ (v.seq + 1) - i < QueueSize
        BY <1>1, <1>4, <1>8, <1>11, <3>1, Sizes
      <4>3. i = v.seq + 1
        BY <1>2, <3>1, <4>1, <4>2, Sizes, ModUnique
      <4> QED BY <1>1, <2>2, <4>3
    <3> QED BY <1>4, <1>6, <1>8, <3>1, <3>2, <3>3, <3>4
  <2> QED BY <2>1, <2>2
<1>12. Coded(n)
  BY <1>8, <1>9, <1>10, <1>11 DEF Coded
<1> QED BY <1>1, <1>2, <1>4, <1>7, <1>8, <1>12

\* A stream that is primed stays so when a packet follows.
LEMMA PrimedStays ==
  ASSUME NEW v, Coded(v), NEW f \in Frames, Primed(v)
  PROVE  Primed(Packetize(v, f))
<1> DEFINE n == Packetize(v, f)
<1>1. /\ Len(n.log) = Len(v.log) + 1 /\ Len(v.log) \in Nat
      /\ \A i \in 1 .. Len(v.log) : n.log[i] = v.log[i]
      /\ n.log \in Seq(Packets) /\ v.log \in Seq(Packets)
  <2>1. /\ Coded(n) /\ Len(n.log) = Len(v.log) + 1 /\ Len(v.log) \in Nat
        /\ \A i \in 1 .. Len(v.log) : n.log[i] = v.log[i]
    BY PacketizeKeeps
  <2> HIDE DEF n
  <2> QED BY <2>1 DEF Coded, UserRec
<1> HIDE DEF n
<1>2. Len(v.log) >= 1 /\ n.log # <<>>
  BY <1>1 DEF Primed
<1>3. n.log[1] = v.log[1] /\ (Len(v.log) > 1 => n.log[2] = v.log[2])
  BY <1>1, <1>2
<1>4. Len(v.log) > 1 => Len(n.log) > 1
  BY <1>1
<1> QED BY <1>2, <1>3, <1>4 DEF Primed, n

\* Sending SPS and PPS is noted.
LEMMA NoteSps ==
  ASSUME NEW v, Coded(v)
  PROVE  LET n == [v EXCEPT !.sentsps = TRUE]
         IN  Coded(n) /\ SameUser(v, n) /\ n.log = v.log /\ (Primed(v) => Primed(n))
<1> DEFINE n == [v EXCEPT !.sentsps = TRUE]
<1>1. /\ n \in UserRec /\ SameUser(v, n)
      /\ n.log = v.log /\ n.seq = v.seq /\ n.cache = v.cache
  BY DEF Coded, UserRec, SameUser
<1> HIDE DEF n
<1> QED BY <1>1 DEF Coded, Primed, n

\* A frame keeps the cache and a primed stream; the first frame, which is one a decoder
\* can start with, primes it (RtpMuxer::EncodeVideo).
LEMMA EncodeVideoKeeps ==
  ASSUME NEW v, Coded(v), NEW i \in 1 .. Len(Kinds)
  PROVE  LET n == EncodeVideo(v, i)
         IN  /\ Coded(n) /\ SameUser(v, n)
             /\ Primed(v) => Primed(n)
             /\ Fresh(v) /\ v.sps /\ Kinds[i] \in {"key", "full"} => Primed(n)
<1> DEFINE a == Packetize(v, 0)
           ps == [a EXCEPT !.sentsps = TRUE]
           s == [v EXCEPT !.sentsps = TRUE]
<1>1. i \in Frames /\ 0 \in Frames /\ i # 0
  BY Sizes
<1>2. Coded(s) /\ SameUser(v, s) /\ s.log = v.log /\ (Primed(v) => Primed(s))
  BY NoteSps
<1>3. /\ Coded(a) /\ SameUser(v, a) /\ Len(a.log) = Len(v.log) + 1 /\ Len(v.log) \in Nat
      /\ a.log[Len(v.log) + 1][2] = 0 /\ (Primed(v) => Primed(a))
  BY <1>1, PacketizeKeeps, PrimedStays
<1> HIDE DEF a
<1>4. Coded(ps) /\ SameUser(a, ps) /\ ps.log = a.log /\ (Primed(a) => Primed(ps))
  BY <1>3, NoteSps
<1> HIDE DEF ps, s
<1>5. SameUser(v, ps)
  BY <1>3, <1>4 DEF SameUser
<1>6. CASE Kinds[i] = "b"
  BY <1>6 DEF EncodeVideo, SameUser
<1>7. CASE Kinds[i] = "key" /\ ~v.sentsps /\ v.sps
  <2> DEFINE n == Packetize(ps, i)
  <2>1. EncodeVideo(v, i) = n
    BY <1>7 DEF EncodeVideo, ps, a
  <2>2. /\ Coded(n) /\ SameUser(ps, n) /\ (Primed(ps) => Primed(n))
        /\ Len(n.log) = Len(ps.log) + 1 /\ n.log[Len(ps.log) + 1][2] = i
        /\ \A j \in 1 .. Len(ps.log) : n.log[j] = ps.log[j]
    BY <1>1, <1>4, PacketizeKeeps, PrimedStays
  <2> HIDE DEF n
  <2>3. ASSUME v.log = <<>> PROVE Primed(n)
    <3>1. Len(v.log) = 0
      BY <2>3
    <3>2. Len(ps.log) = 1 /\ ps.log[1][2] = 0
      BY <1>3, <1>4, <3>1
    <3>3. Len(n.log) = 2 /\ n.log[1][2] = 0 /\ n.log[2][2] = i
      BY <2>2, <3>2
    <3>4. n.log # <<>>
      BY <3>3
    <3> QED BY <1>7, <3>3, <3>4 DEF Primed
  <2>4. SameUser(v, n)
    BY <1>5, <2>2 DEF SameUser
  <2> QED BY <1>3, <1>4, <2>1, <2>2, <2>3, <2>4 DEF Fresh
<1>8. CASE Kinds[i] = "key" /\ ~v.sentsps /\ ~v.sps
  <2> DEFINE n == Packetize(s, i)
  <2>1. EncodeVideo(v, i) = n
    BY <1>8 DEF EncodeVideo, s
  <2>2. Coded(n) /\ SameUser(s, n) /\ (Primed(s) => Primed(n))
    BY <1>1, <1>2, PacketizeKeeps, PrimedStays
  <2> HIDE DEF n
  <2>3. SameUser(v, n)
    BY <1>2, <2>2 DEF SameUser
  <2> QED BY <1>2, <1>8, <2>1, <2>2, <2>3
<1>9. CASE Kinds[i] = "full"
  <2> DEFINE n == Packetize(s, i)
  <2>1. EncodeVideo(v, i) = n
    BY <1>9 DEF EncodeVideo, s
  <2>2. /\ Coded(n) /\ SameUser(s, n) /\ (Primed(s) => Primed(n))
        /\ Len(n.log) = Len(s.log) + 1 /\ n.log[Len(s.log) + 1][2] = i
    BY <1>1, <1>2, PacketizeKeeps, PrimedStays
  <2> HIDE DEF n
  <2>3. ASSUME v.log = <<>> PROVE Primed(n)
    <3>1. Len(s.log) = 0
      BY <1>2, <2>3
    <3>2. Len(n.log) = 1 /\ n.log[1][2] = i
      BY <2>2, <3>1
    <3>3. n.log # <<>>
      BY <3>2
    <3> QED BY <1>1, <1>9, <3>2, <3>3 DEF Primed
  <2>4. SameUser(v, n)
    BY <1>2, <2>2 DEF SameUser
  <2> QED BY <1>2, <2>1, <2>2, <2>3, <2>4 DEF Fresh
<1>10. CASE Kinds[i] \notin {"b", "full"} /\ ~(Kinds[i] = "key" /\ ~v.sentsps)
  <2> DEFINE n == Packetize(v, i)
  <2>1. EncodeVideo(v, i) = n
    BY <1>10 DEF EncodeVideo
  <2>2. Coded(n) /\ SameUser(v, n) /\ (Primed(v) => Primed(n))
    BY <1>1, PacketizeKeeps, PrimedStays
  <2> HIDE DEF n
  <2> QED BY <1>10, <2>1, <2>2 DEF Fresh
<1>11. v.sps \in BOOLEAN /\ v.sentsps \in BOOLEAN
  BY DEF Coded, UserRec
<1> QED BY <1>6, <1>7, <1>8, <1>9, <1>10, <1>11

\* Where a user starts to encode: behind what it had, or at the key frame it locates
\* (Stream::GetFrames).
LEMMA LocateKeeps ==
  ASSUME NEW v, Coded(v), NEW from \in Nat \ {0}
  PROVE  LET w == Locate(v, from)
         IN  /\ Coded(w) /\ w.log = v.log /\ w.sentsps = v.sentsps
             /\ w.dtls = v.dtls /\ w.muxer = v.muxer /\ w.again = v.again
             /\ w.pos = IF v.pos = 0 THEN from - 1 ELSE v.pos
             /\ v.pos = 0 => w.sps
<1> DEFINE w == [v EXCEPT !.pos = from - 1, !.sps = TRUE]
<1>1. CASE v.pos # 0
  BY <1>1 DEF Locate
<1>2. CASE v.pos = 0
  <2>1. from - 1 \in Nat
    OBVIOUS
  <2>2. /\ w \in UserRec /\ w.log = v.log /\ w.sentsps = v.sentsps /\ w.seq = v.seq
        /\ w.dtls = v.dtls /\ w.muxer = v.muxer /\ w.again = v.again /\ w.cache = v.cache
        /\ w.pos = from - 1 /\ w.sps
    BY <2>1 DEF Coded, UserRec
  <2>3. Locate(v, from) = w
    BY <1>2 DEF Locate
  <2> HIDE DEF w
  <2>4. Coded(w)
    BY <2>2 DEF Coded
  <2> QED BY <1>2, <2>2, <2>3, <2>4
<1> QED BY <1>1, <1>2

\* A user that is sent the frames made since keeps its cache, and its stream starts as
\* a decoder needs it.
LEMMA EncodeKeeps ==
  ASSUME NEW v, Coded(v), made \in 0 .. Len(Kinds), v.pos \in 0 .. made, NEW from \in 1 .. made,
         v.pos = 0 => Kinds[from] \in {"key", "full"}
  PROVE  LET n == Encode(v, from)
         IN  /\ Coded(n) /\ n.pos = made
             /\ n.dtls = v.dtls /\ n.muxer = v.muxer /\ n.again = v.again
             /\ v.pos # 0 /\ Primed(v) => Primed(n)
             /\ v.pos = 0 /\ Fresh(v) => Primed(n)
<1> DEFINE w == Locate(v, from)
           m == made - w.pos
           q == [i \in 1 .. m |-> w.pos + i]
           e == EncodeAll(w, q)
           n == [e EXCEPT !.pos = made]
<1>0. made \in Nat /\ from \in Nat \ {0} /\ Len(Kinds) \in Nat /\ made <= Len(Kinds)
  BY Sizes
<1>1. /\ Coded(w) /\ w.log = v.log /\ w.sentsps = v.sentsps
      /\ w.dtls = v.dtls /\ w.muxer = v.muxer /\ w.again = v.again
      /\ w.pos = IF v.pos = 0 THEN from - 1 ELSE v.pos
      /\ v.pos = 0 => w.sps
  BY <1>0, LocateKeeps
<1>2. Encode(v, from) = n
  BY DEF Encode, EncodeAll
<1> HIDE DEF w
<1>3. /\ w.pos \in Nat /\ w.pos <= made /\ m \in Nat
      /\ v.pos = 0 => m >= 1 /\ w.pos + 1 = from
  BY <1>0, <1>1
<1>4. \A k \in 1 .. m : q[k] = w.pos + k /\ q[k] \in 1 .. Len(Kinds)
  BY <1>0, <1>3
<1>5. DOMAIN q = 1 .. m
  OBVIOUS
<1> HIDE DEF q, m
<1>6. PICK g : /\ g[0] = w
               /\ \A k \in 0 .. m - 1 : g[k + 1] = EncodeVideo(g[k], q[k + 1])
               /\ EncodeAll(w, q) = g[m]
  BY <1>3, <1>5, FoldSteps
<1> DEFINE Good(x, k) == /\ Coded(x) /\ SameUser(w, x)
                         /\ Primed(w) => Primed(x)
                         /\ v.pos = 0 /\ Fresh(v) /\ k # 0 => Primed(x)
           T == {k \in Nat : k <= m => Good(g[k], k)}
<1>7. 0 \in T
  BY <1>1, <1>6 DEF SameUser
<1>8. ASSUME NEW k \in Nat, k \in T PROVE k + 1 \in T
  <2> SUFFICES ASSUME k + 1 <= m PROVE Good(g[k + 1], k + 1)
    OBVIOUS
  <2>1. k <= m /\ k \in 0 .. m - 1 /\ k + 1 \in 1 .. m /\ k + 1 # 0
    BY <1>3
  <2>2. Good(g[k], k)
    BY <1>8, <2>1
  <2>3. q[k + 1] = w.pos + (k + 1) /\ q[k + 1] \in 1 .. Len(Kinds)
    BY <1>4, <2>1
  <2> DEFINE x == g[k]
             y == g[k + 1]
             i == q[k + 1]
  <2>4. y = EncodeVideo(x, i)
    BY <1>6, <2>1
  <2>5. /\ Coded(x) /\ SameUser(w, x) /\ (Primed(w) => Primed(x))
        /\ (v.pos = 0 /\ Fresh(v) /\ k # 0 => Primed(x))
    BY <2>2
  <2>6. k = 0 => x = w /\ i = w.pos + 1
    BY <1>6, <2>3
  <2> HIDE DEF x, y, i, T
  <2>7. /\ Coded(y) /\ SameUser(x, y) /\ (Primed(x) => Primed(y))
        /\ (Fresh(x) /\ x.sps /\ Kinds[i] \in {"key", "full"} => Primed(y))
    BY <2>3, <2>4, <2>5, EncodeVideoKeeps DEF i
  <2>8. SameUser(w, y)
    BY <2>5, <2>7 DEF SameUser
  <2>9. ASSUME v.pos = 0, Fresh(v) PROVE Primed(y)
    <3>1. CASE k # 0
      BY <2>5, <2>7, <2>9, <3>1
    <3>2. CASE k = 0
      <4>1. x = w /\ i = from
        BY <1>3, <2>6, <2>9, <3>2
      <4>2. Fresh(x) /\ x.sps
        BY <1>1, <2>9, <4>1 DEF Fresh
      <4> QED BY <2>7, <2>9, <4>1, <4>2
    <3> QED BY <3>1, <3>2
  <2> QED BY <2>5, <2>7, <2>8, <2>9 DEF y
<1>9. m \in T
  <2> HIDE DEF T
  <2> QED BY <1>3, <1>7, <1>8, SetInduction
<1>10. e = g[m]
  BY <1>6
<1>11. Good(e, m)
  BY <1>3, <1>9, <1>10
<1>12. /\ Coded(e) /\ SameUser(w, e) /\ (Primed(w) => Primed(e))
       /\ (v.pos = 0 /\ Fresh(v) => Primed(e))
  BY <1>3, <1>11
<1> HIDE DEF e, T, Good
<1>13. /\ n \in UserRec /\ n.pos = made /\ n.dtls = e.dtls /\ n.muxer = e.muxer
       /\ n.again = e.again /\ n.log = e.log /\ n.seq = e.seq /\ n.cache = e.cache
  BY <1>0, <1>12 DEF Coded, UserRec
<1> HIDE DEF n
<1>14. Coded(n) /\ (Primed(e) => Primed(n))
  BY <1>12, <1>13 DEF Coded, Primed
<1>15. n.dtls = v.dtls /\ n.muxer = v.muxer /\ n.again = v.again
  BY <1>1, <1>12, <1>13 DEF SameUser
<1>16. Primed(v) => Primed(w)
  BY <1>1 DEF Primed
<1> QED BY <1>2, <1>12, <1>13, <1>14, <1>15, <1>16


(* The server's steps.                                                     *)

\* Packets handed to SendPacket come after all that was handed before.
LEMMA HandKeeps ==
  ASSUME ServerOK, NEW packets, IsSeq(packets), NEW inLoop \in BOOLEAN, Hand(packets, inLoop)
  PROVE  ServerOK'
<1> DEFINE list == [i \in 1 .. Len(packets) |-> Len(handed) + i]
           n == SendPacket(srv, list, inLoop)
           h == Len(handed)
           k == Len(packets)
<1>1. /\ srv \in SrvRec /\ wire \in Seq(Nat) /\ IsSeq(handed) /\ stray \in BOOLEAN /\ Holds(srv)
      /\ ~stray => Idle(srv) /\ wire \o Pending(srv) = After(0, h)
  BY DEF ServerOK
<1>2. /\ IsSeq(handed \o packets) /\ Len(handed \o packets) = h + k
      /\ h \in Nat /\ k \in Nat
  BY <1>1, ConcatIsSeq
<1>3. handed' = handed \o packets /\ srv' = n /\ wire' = wire /\ stray' = stray
  BY DEF Hand
<1>4. list = After(h, k)
  BY DEF After
<1> HIDE DEF list, h, k
<1>5. list \in Seq(Nat)
  BY <1>2, <1>4, AfterIs
<1>6. /\ n \in SrvRec /\ Holds(n)
      /\ Idle(srv) => Idle(n) /\ Pending(n) = Pending(srv) \o list
  BY <1>1, <1>5, SendPacketKeeps
<1> HIDE DEF n
<1>7. Len(handed') = h + k
  BY <1>2, <1>3
<1>8. ASSUME ~stray' PROVE Idle(srv)' /\ wire' \o Pending(srv)' = After(0, Len(handed'))
  <2>1. ~stray /\ Idle(srv) /\ wire \o Pending(srv) = After(0, h)
    BY <1>1, <1>3, <1>8
  <2>2. Idle(n) /\ Pending(n) = Pending(srv) \o list
    BY <1>6, <2>1
  <2>3. Pending(srv) \in Seq(Nat)
    BY <1>1, PendingIs
  <2>4. wire \o (Pending(srv) \o list) = (wire \o Pending(srv)) \o list
    <3>1. Cat(wire, Cat(Pending(srv), list)) = Cat(Cat(wire, Pending(srv)), list)
      BY <1>1, <1>5, <2>3, Grouping
    <3> QED BY <3>1 DEF Cat
  <2>5. wire \o Pending(n) = After(0, h + k)
    BY <1>2, <1>4, <2>1, <2>2, <2>4, AfterAfter
  <2>6. Idle(srv') /\ wire' \o Pending(srv') = After(0, Len(handed'))
    BY <1>3, <1>7, <2>2, <2>5
  <2> QED BY <2>6 DEF Idle, Pending
<1>9. Holds(srv)'
  BY <1>3, <1>6 DEF Holds
<1> QED BY <1>1, <1>2, <1>3, <1>6, <1>8, <1>9 DEF ServerOK

\* A queued Send runs: its list, captured by reference, goes to the socket's buffer.
LEMMA RunTaskKeeps ==
  ASSUME ServerOK, RunTask
  PROVE  ServerOK'
<1> DEFINE m == [srv EXCEPT !.tasks = srv.tasks - 1]
           n == SendInLoop(m)
<1>1. /\ srv \in SrvRec /\ wire \in Seq(Nat) /\ IsSeq(handed) /\ stray \in BOOLEAN /\ Holds(srv)
      /\ ~stray => Idle(srv) /\ wire \o Pending(srv) = After(0, Len(handed))
  BY DEF ServerOK
<1>2. srv' = n /\ handed' = handed /\ wire' = wire /\ stray' = stray /\ srv.tasks > 0
  BY DEF RunTask
<1>3. srv.tasks \in Nat /\ srv.tasks - 1 \in Nat /\ srv.outs \in Seq(Nat) /\ srv.waiting \in Seq(Nat)
  BY <1>1, <1>2 DEF SrvRec
<1>4. /\ m \in SrvRec /\ m.buffer = srv.buffer /\ m.outs = srv.outs /\ m.held = srv.held
      /\ m.waiting = srv.waiting /\ m.tasks = srv.tasks - 1 /\ m.sending = srv.sending
  BY <1>1, <1>3 DEF SrvRec
<1> HIDE DEF m
<1>5. Holds(m)
  BY <1>1, <1>4 DEF Holds
<1>6. /\ n \in SrvRec /\ Holds(n) /\ n.buffer = m.buffer \o m.outs
      /\ n.sending = m.sending /\ n.tasks = m.tasks /\ n.waiting = m.waiting
  BY <1>4, <1>5, SendInLoopKeeps
<1> HIDE DEF n
<1>7. ASSUME ~stray' PROVE Idle(srv)' /\ wire' \o Pending(srv)' = After(0, Len(handed'))
  <2>1. Idle(srv) /\ wire \o Pending(srv) = After(0, Len(handed))
    BY <1>1, <1>2, <1>7
  <2>2. srv.tasks = 1 /\ srv.sending /\ srv.buffer = <<>>
    BY <1>2, <1>3, <2>1 DEF Idle
  <2>3. n.tasks = 0 /\ n.sending /\ n.buffer = <<>> \o srv.outs /\ n.waiting = srv.waiting
    BY <1>4, <1>6, <2>2
  <2>4. Idle(n)
    BY <2>3 DEF Idle
  <2>5. Pending(srv) = (<<>> \o srv.outs) \o srv.waiting
    BY <2>2 DEF Pending
  <2>6. Pending(n) = ((<<>> \o srv.outs) \o <<>>) \o srv.waiting
    BY <2>3 DEF Pending
  <2>7. (<<>> \o srv.outs) \o <<>> = <<>> \o srv.outs
    BY <1>3, ConcatFacts
  <2>8. Idle(srv') /\ wire' \o Pending(srv') = After(0, Len(handed'))
    BY <1>2, <2>1, <2>4, <2>5, <2>6, <2>7
  <2> QED BY <2>8 DEF Idle, Pending
<1>8. Holds(srv)'
  BY <1>2, <1>6 DEF Holds
<1> QED BY <1>1, <1>2, <1>6, <1>7, <1>8 DEF ServerOK

\* The socket's datagrams leave in order; what is not yet written stays held, and with
\* the last of them the server goes on with what waits, unless a task is queued.
LEMMA OnWriteKeeps ==
  ASSUME ServerOK, NEW n \in 0 .. Len(srv.buffer), OnWrite(n)
  PROVE  ServerOK'
<1> DEFINE a == SubSeq(srv.buffer, 1, n)
           b == SubSeq(srv.buffer, n + 1, Len(srv.buffer))
           r == [srv EXCEPT !.buffer = b, !.edge = FALSE]
           e == [r EXCEPT !.edge = TRUE]
<1>1. /\ srv \in SrvRec /\ wire \in Seq(Nat) /\ IsSeq(handed) /\ stray \in BOOLEAN /\ Holds(srv)
      /\ ~stray => Idle(srv) /\ wire \o Pending(srv) = After(0, Len(handed))
  BY DEF ServerOK
<1>2. /\ srv' = IF r.buffer = <<>> THEN WriteComplete(r) ELSE e
      /\ handed' = handed /\ wire' = wire \o a
      /\ stray' = (stray \/ (n = Len(srv.buffer) /\ srv.tasks > 0))
  BY DEF OnWrite
<1>3. /\ srv.buffer \in Seq(Nat) /\ srv.outs \in Seq(Nat) /\ srv.waiting \in Seq(Nat)
      /\ srv.tasks \in Nat /\ srv.sending \in BOOLEAN
  BY <1>1 DEF SrvRec
<1>4. /\ a \in Seq(Nat) /\ b \in Seq(Nat) /\ a \o b = srv.buffer
      /\ Len(b) = Len(srv.buffer) - n /\ Range(b) \subseteq Range(srv.buffer)
  BY <1>3, Cut
<1> HIDE DEF a, b
<1>5. /\ r \in SrvRec /\ r.buffer = b /\ r.outs = srv.outs /\ r.held = srv.held
      /\ r.waiting = srv.waiting /\ r.tasks = srv.tasks /\ r.sending = srv.sending
  BY <1>1, <1>4 DEF SrvRec
<1>6. /\ e \in SrvRec /\ e.buffer = b /\ e.outs = srv.outs /\ e.held = srv.held
      /\ e.waiting = srv.waiting /\ e.tasks = srv.tasks /\ e.sending = srv.sending
  BY <1>1, <1>4 DEF SrvRec
<1> HIDE DEF r, e
<1>7. stray' \in BOOLEAN /\ wire' \in Seq(Nat) /\ IsSeq(handed')
  BY <1>1, <1>2, <1>4, ConcatFacts
<1>8. ASSUME NEW x \in SrvRec, x.buffer = b, x.outs = srv.outs, x.waiting = srv.waiting,
             x.tasks = srv.tasks, ~stray
      PROVE  wire' \o Pending(x) = After(0, Len(handed))
  <2> DEFINE tk == IF srv.tasks = 1 THEN srv.outs ELSE <<>>
             y == srv.waiting
             p == srv.buffer
  <2>1. tk \in Seq(Nat) /\ y \in Seq(Nat)
    BY <1>3, ConcatFacts
  <2>2. Pending(srv) = (p \o tk) \o y /\ Pending(x) = (b \o tk) \o y /\ p = a \o b
    BY <1>4, <1>8 DEF Pending
  <2> HIDE DEF tk, y, p
  <2>3. wire \in Seq(Nat) /\ a \in Seq(Nat) /\ b \in Seq(Nat)
    BY <1>1, <1>4
  <2>4. (wire \o a) \o ((b \o tk) \o y) = wire \o (((a \o b) \o tk) \o y)
    <3>1. Cat(Cat(wire, a), Cat(Cat(b, tk), y)) = Cat(wire, Cat(Cat(Cat(a, b), tk), y))
      BY <2>1, <2>3, Regroup
    <3> QED BY <3>1 DEF Cat
  <2>5. wire \o Pending(srv) = After(0, Len(handed))
    BY <1>1, <1>8
  <2> QED BY <1>2, <2>2, <2>4, <2>5
<1>9. CASE b = <<>>
  <2> DEFINE w == WriteComplete(r)
  <2>1. /\ w \in SrvRec /\ Holds(w)
        /\ Idle(r) /\ r.tasks = 0 => Idle(w) /\ Pending(w) = Pending(r)
    BY <1>5, <1>9, WriteCompleteKeeps
  <2>2. srv' = w
    BY <1>2, <1>5, <1>9
  <2> HIDE DEF w
  <2>3. ASSUME ~stray' PROVE Idle(srv)' /\ wire' \o Pending(srv)' = After(0, Len(handed'))
    <3>1. Len(srv.buffer) \in Nat /\ Len(b) = 0
      BY <1>3, <1>9
    <3>2. n = Len(srv.buffer)
      BY <1>4, <3>1
    <3>3. ~stray /\ srv.tasks = 0
      <4>1. ~stray /\ ~(srv.tasks > 0)
        BY <1>2, <2>3, <3>2, Zenon
      <4> QED BY <1>3, <4>1
    <3>4. Idle(srv)
      BY <1>1, <3>3
    <3>5. Idle(r) /\ r.tasks = 0
      BY <1>5, <1>9, <3>3, <3>4 DEF Idle
    <3>6. wire' \o Pending(r) = After(0, Len(handed))
      BY <1>5, <1>8, <3>3
    <3>7. Idle(srv') /\ wire' \o Pending(srv') = After(0, Len(handed'))
      BY <1>2, <2>1, <2>2, <3>5, <3>6
    <3> QED BY <3>7 DEF Idle, Pending
  <2>4. Holds(srv)'
    BY <2>1, <2>2 DEF Holds
  <2> QED BY <1>7, <2>1, <2>2, <2>3, <2>4 DEF ServerOK
<1>10. CASE b # <<>>
  <2>1. srv' = e
    BY <1>2, <1>5, <1>10
  <2>2. Holds(e)
    BY <1>1, <1>4, <1>6 DEF Holds
  <2>3. ASSUME ~stray' PROVE Idle(srv)' /\ wire' \o Pending(srv)' = After(0, Len(handed'))
    <3>1. ~stray /\ Idle(srv)
      BY <1>1, <1>2, <2>3
    <3>2. srv.buffer # <<>>
      <4>1. ASSUME srv.buffer = <<>> PROVE FALSE
        <5>1. Len(b) = 0 - n /\ n = 0
          BY <1>4, <4>1
        <5> QED BY <1>4, <1>10, <5>1, EmptySeq
      <4> QED BY <4>1
    <3>3. Idle(e)
      BY <1>6, <3>1, <3>2 DEF Idle
    <3>4. wire' \o Pending(e) = After(0, Len(handed))
      BY <1>6, <1>8, <3>1
    <3>5. Idle(srv') /\ wire' \o Pending(srv') = After(0, Len(handed'))
      BY <1>2, <2>1, <3>3, <3>4
    <3> QED BY <3>5 DEF Idle, Pending
  <2>4. Holds(srv)'
    BY <2>1, <2>2 DEF Holds
  <2> QED BY <1>6, <1>7, <2>1, <2>3, <2>4 DEF ServerOK
<1> QED BY <1>9, <1>10

-----------------------------------------------------------------------------
(* The users' steps.                                                       *)

\* A list of one element is a sequence.
LEMMA OneIsSeq == \A x : IsSeq(<<x>>)
<1> SUFFICES ASSUME NEW x PROVE IsSeq(<<x>>)
  OBVIOUS
<1>1. <<x>> \in Seq({x})
  OBVIOUS
<1> QED BY <1>1 DEF IsSeq

\* What a user's record must be concerns neither its state, address, flags nor report count.
LEMMA SameFits ==
  ASSUME NEW v, NEW u, NEW i, NEW m, UserFits(v, u, i, m), NEW n, n \in UserRec,
         n.dtls = v.dtls, n.again = v.again, n.muxer = v.muxer, n.seq = v.seq,
         n.sentsps = v.sentsps, n.pos = v.pos, n.cache = v.cache, n.log = v.log
  PROVE  UserFits(n, u, i, m)
<1>1. Coded(n)
  BY DEF UserFits, Coded
<1>2. (Fresh(v) => Fresh(n)) /\ (Primed(v) => Primed(n))
  BY DEF Fresh, Primed
<1> QED BY <1>1, <1>2 DEF UserFits

\* A step of one user: the others' records stay, and stay right.
LEMMA OneUser ==
  ASSUME UsersOK, NEW u \in Users, NEW n, user' = [user EXCEPT ![u] = n], made' = made,
         UserFits(n, u, init', made),
         \A w \in Users \ {u} : init' = w => init = w,
         \A w \in Users \ {u} : init = w => init' = w
  PROVE  UsersOK'
<1>1. DOMAIN user' = Users /\ user'[u] = n /\ \A w \in Users \ {u} : user'[w] = user[w]
  BY DEF UsersOK
<1>2. ASSUME NEW w \in Users PROVE UserFits(user'[w], w, init', made')
  <2>1. CASE w = u
    BY <1>1, <2>1
  <2>2. CASE w # u
    <3>1. UserFits(user[w], w, init, made)
      BY DEF UsersOK
    <3>2. user'[w] = user[w] /\ (init' = w <=> init = w)
      BY <1>1, <2>2
    <3> DEFINE v == user[w]
    <3>3. v = user'[w]
      BY <3>2
    <3> HIDE DEF v
    <3>4. UserFits(v, w, init', made)
      BY <3>1, <3>2 DEF UserFits, v
    <3> QED BY <3>3, <3>4
  <2> QED BY <2>1, <2>2
<1>3. DOMAIN user' = Users /\ \A w \in Users : UserFits(user'[w], w, init', made')
  BY <1>1, <1>2
<1> QED BY <1>3 DEF UsersOK, UserFits, Coded, Fresh, Primed

\* The offer is answered, and its user made known (WebrtcService.cpp OnRequest).
LEMMA OnRequestKeeps ==
  ASSUME WebrtcInv, NEW u \in Users, NEW x \in {"answered", "known"},
         user' = [user EXCEPT ![u].st = x],
         UNCHANGED <<users, made, push, calls, net, in, init, down>>
  PROVE  WebrtcInv'
<1> DEFINE v == user[u]
           n == [v EXCEPT !.st = x]
<1>1. UsersOK /\ UserFits(v, u, init, made) /\ u \in DOMAIN user
  BY DEF WebrtcInv, UsersOK
<1>2. v \in UserRec
  BY <1>1 DEF UserFits, Coded
<1> HIDE DEF v
<1>3. /\ n \in UserRec /\ n.dtls = v.dtls /\ n.again = v.again /\ n.muxer = v.muxer
      /\ n.seq = v.seq /\ n.sentsps = v.sentsps /\ n.pos = v.pos /\ n.cache = v.cache
      /\ n.log = v.log
  BY <1>2 DEF UserRec
<1>4. user' = [user EXCEPT ![u] = n]
  BY <1>1 DEF v
<1> HIDE DEF n
<1>5. UserFits(n, u, init, made)
  BY <1>1, <1>3, SameFits
<1>6. UsersOK'
  BY <1>1, <1>4, <1>5, OneUser
<1> QED BY <1>6 DEF WebrtcInv, RestOK, ServerOK, CallsOK, net, Idle, Pending, Holds

\* A STUN request binds the user to the address it came from (OnStun).
LEMMA OnStunKeeps ==
  ASSUME WebrtcInv, NEW u \in Users, NEW a \in Addrs, OnStun(u, a)
  PROVE  WebrtcInv'
<1>1. UsersOK /\ UserFits(user[u], u, init, made) /\ u \in DOMAIN user
  BY DEF WebrtcInv, UsersOK
<1>2. /\ UNCHANGED <<made, push, calls, init, down>> /\ in' \in 0 .. MaxIn
      /\ RestOK /\ ServerOK /\ CallsOK
  BY WebrtcAssumption DEF WebrtcInv, OnStun, Receive, RestOK
<1>3. CASE user[u].st = "answered"
  <2>1. UNCHANGED <<user, users, net>>
    BY <1>3 DEF OnStun
  <2> QED BY <1>1, <1>2, <2>1 DEF WebrtcInv, UsersOK, RestOK, ServerOK, CallsOK, net, Idle, Pending, Holds, UserFits, Coded, Fresh, Primed
<1>4. CASE user[u].st # "answered"
  <2> DEFINE v == user[u]
             n == [v EXCEPT !.addr = a]
  <2>1. /\ user' = [user EXCEPT ![u].addr = a] /\ Hand(<<<<"stun", u, 0, 0>>>>, TRUE)
        /\ users' = IF users[a] = None THEN [users EXCEPT ![a] = u] ELSE users
    BY <1>4 DEF OnStun
  <2>2. v \in UserRec
    BY <1>1 DEF UserFits, Coded
  <2>3. user' = [user EXCEPT ![u] = n]
    BY <1>1, <2>1
  <2> HIDE DEF v
  <2>4. /\ n \in UserRec /\ n.dtls = v.dtls /\ n.again = v.again /\ n.muxer = v.muxer
        /\ n.seq = v.seq /\ n.sentsps = v.sentsps /\ n.pos = v.pos /\ n.cache = v.cache
        /\ n.log = v.log
    BY <2>2 DEF UserRec
  <2> HIDE DEF n
  <2>5. UserFits(n, u, init, made)
    BY <1>1, <2>4, SameFits DEF v
  <2>6. UsersOK'
    BY <1>1, <1>2, <2>3, <2>5, OneUser
  <2>7. ServerOK'
    BY <1>2, <2>1, OneIsSeq, HandKeeps
  <2>8. users' \in [Addrs -> Users \cup {None}]
    BY <1>2, <2>1 DEF RestOK
  <2>9. RestOK' /\ CallsOK'
    BY <1>2, <2>8 DEF RestOK, CallsOK
  <2> QED BY <2>6, <2>7, <2>9 DEF WebrtcInv
<1> QED BY <1>3, <1>4

\* The first record of a handshake is answered; any later one ends it (OnDtls).
LEMMA OnDtlsKeeps ==
  ASSUME WebrtcInv, NEW a \in Addrs, OnDtls(a)
  PROVE  WebrtcInv'
<1> DEFINE u == users[a]
           v == user[u]
           n1 == [v EXCEPT !.dtls = 1]
           n2 == [v EXCEPT !.dtls = 2, !.dtls_done = TRUE, !.again = (v.dtls = 2)]
<1>1. /\ u \in Users /\ UsersOK /\ RestOK /\ ServerOK /\ CallsOK /\ init = None
      /\ UNCHANGED <<users, made, push, calls, down>> /\ in' \in 0 .. MaxIn
  BY WebrtcAssumption DEF WebrtcInv, OnDtls, Receive, RestOK
<1>2. UserFits(v, u, init, made) /\ u \in DOMAIN user /\ v \in UserRec
  BY <1>1 DEF UsersOK, UserFits, Coded
<1>3. \A w \in Users : w # None
  BY WebrtcAssumption
<1>4. ASSUME ServerOK', UsersOK', init' \in Users \cup {None} PROVE WebrtcInv'
  <2>1. RestOK' /\ CallsOK'
    BY <1>1, <1>4 DEF RestOK, CallsOK
  <2> QED BY <1>4, <2>1 DEF WebrtcInv
<1>5. CASE v.dtls = 0
  <2>1. /\ user' = [user EXCEPT ![u].dtls = 1] /\ init' = init
        /\ Hand(<<<<"dtls", u, 0, 0>>>>, TRUE)
    BY <1>5 DEF OnDtls
  <2>2. user' = [user EXCEPT ![u] = n1]
    BY <1>2, <2>1
  <2> HIDE DEF v, u
  <2>3. /\ n1 \in UserRec /\ n1.dtls = 1 /\ n1.again = v.again /\ n1.muxer = v.muxer
        /\ n1.seq = v.seq /\ n1.sentsps = v.sentsps /\ n1.pos = v.pos /\ n1.cache = v.cache
        /\ n1.log = v.log
    BY <1>2 DEF UserRec
  <2> HIDE DEF n1
  <2>4. Coded(n1) /\ (Fresh(v) => Fresh(n1)) /\ ~v.muxer
    BY <1>2, <1>5, <2>3 DEF UserFits, Coded, Fresh
  <2>5. UserFits(n1, u, init', made)
    BY <1>1, <1>2, <1>3, <2>1, <2>3, <2>4 DEF UserFits
  <2>6. UsersOK'
    BY <1>1, <2>1, <2>2, <2>5, OneUser
  <2>7. ServerOK'
    BY <1>1, <2>1, OneIsSeq, HandKeeps
  <2> QED BY <1>1, <1>4, <2>1, <2>6, <2>7 DEF RestOK
<1>6. CASE v.dtls # 0
  <2>1. /\ user' = [user EXCEPT ![u].dtls = 2, ![u].dtls_done = TRUE, ![u].again = (user[u].dtls = 2)]
        /\ init' = u
        /\ IF v.dtls = 1 THEN Hand(<<<<"dtls", u, 1, 0>>>>, TRUE) ELSE UNCHANGED net
    BY <1>6 DEF OnDtls
  <2>2. user' = [user EXCEPT ![u] = n2]
    BY <1>2, <2>1
  <2> HIDE DEF v, u
  <2>3. /\ n2 \in UserRec /\ n2.dtls = 2 /\ n2.again = (v.dtls = 2) /\ n2.muxer = v.muxer
        /\ n2.seq = v.seq /\ n2.sentsps = v.sentsps /\ n2.pos = v.pos /\ n2.cache = v.cache
        /\ n2.log = v.log
    BY <1>2 DEF UserRec
  <2> HIDE DEF n2
  <2>4. Coded(n2) /\ (Fresh(v) => Fresh(n2))
    BY <1>2, <2>3 DEF UserFits, Coded, Fresh
  <2>5. UserFits(n2, u, init', made)
    <3>1. v.dtls \in 0 .. 2 /\ n2.dtls \in 0 .. 2 /\ n2.pos \in 0 .. made
      BY <1>2, <2>3 DEF UserFits
    <3>2. ~n2.muxer => n2.pos = 0 /\ Fresh(n2)
      BY <1>2, <2>3, <2>4 DEF UserFits
    <3>3. n2.muxer => n2.again
      BY <1>2, <2>3 DEF UserFits
    <3>4. ~n2.again => n2.pos = 0 /\ Fresh(n2)
      BY <3>2, <3>3
    <3> QED BY <2>1, <2>3, <2>4, <3>1, <3>2, <3>3, <3>4 DEF UserFits
  <2>6. UsersOK'
    BY <1>1, <1>3, <2>1, <2>2, <2>5, OneUser
  <2>7. ServerOK'
    <3>1. CASE v.dtls = 1
      BY <1>1, <2>1, <3>1, OneIsSeq, HandKeeps
    <3>2. CASE v.dtls # 1
      <4>1. UNCHANGED net
        BY <2>1, <3>2
      <4> QED BY <1>1, <4>1 DEF ServerOK, net, Idle, Pending, Holds
    <3> QED BY <3>1, <3>2
  <2> QED BY <1>1, <1>4, <2>1, <2>6, <2>7
<1> QED BY <1>5, <1>6

\* The muxer starts over, also when DTLS ended before (OnDtlsHandshakeDone).
LEMMA InitMuxerKeeps ==
  ASSUME WebrtcInv, InitMuxer
  PROVE  WebrtcInv'
<1> DEFINE u == init
           v == user[u]
           n == [v EXCEPT !.muxer = TRUE, !.seq = 0, !.sps = FALSE, !.log = <<>>]
<1>1. /\ u \in Users /\ UsersOK /\ RestOK /\ ServerOK /\ CallsOK /\ init' = None
      /\ UNCHANGED <<users, made, push, calls, net, in, down>>
  BY DEF WebrtcInv, InitMuxer, RestOK
<1>2. UserFits(v, u, init, made) /\ u \in DOMAIN user /\ v \in UserRec /\ v.dtls = 2
  BY <1>1 DEF UsersOK, UserFits, Coded
<1>3. \A w \in Users : w # None
  BY WebrtcAssumption
<1>4. user' = [user EXCEPT ![u] = n]
  BY <1>2 DEF InitMuxer
<1> HIDE DEF v
<1>5. /\ n \in UserRec /\ n.dtls = v.dtls /\ n.again = v.again /\ n.muxer = TRUE
      /\ n.seq = 0 /\ n.sentsps = v.sentsps /\ n.pos = v.pos /\ n.log = <<>>
  <2>1. <<>> \in Seq(Packets) /\ 0 \in Nat
    OBVIOUS
  <2> QED BY <1>2, <2>1 DEF UserRec
<1> HIDE DEF n
<1>6. Coded(n)
  BY <1>5 DEF Coded
<1>7. ~v.again => v.pos = 0 /\ Fresh(n)
  BY <1>2, <1>5 DEF UserFits, Fresh
<1>8. UserFits(n, u, init', made)
  BY <1>1, <1>2, <1>3, <1>5, <1>6, <1>7 DEF UserFits
<1>9. \A w \in Users \ {u} : (init' = w => init = w) /\ (init = w => init' = w)
  BY <1>1, <1>3
<1> HIDE DEF u
<1>10. UsersOK'
  BY <1>1, <1>4, <1>8, <1>9, OneUser
<1>11. RestOK' /\ CallsOK'
  BY <1>1 DEF RestOK, CallsOK
<1>12. ServerOK'
  BY <1>1 DEF ServerOK, net, Idle, Pending, Holds
<1> QED BY <1>10, <1>11, <1>12 DEF WebrtcInv

\* Stream::AddPacket: one frame more, to be pushed to everybody known by an address.
LEMMA AddPacketKeeps ==
  ASSUME WebrtcInv, AddPacket
  PROVE  WebrtcInv'
<1>1. /\ UsersOK /\ RestOK /\ ServerOK /\ CallsOK
      /\ UNCHANGED <<user, users, calls, net, in, init, down>>
      /\ made' = made + 1 /\ made < Len(Kinds) /\ push' = {users[a] : a \in Addrs} \ {None}
  BY DEF WebrtcInv, AddPacket
<1>2. made \in Nat /\ made' \in 0 .. Len(Kinds) /\ push' \subseteq Users
  BY <1>1, Sizes DEF RestOK
<1>3. RestOK' /\ CallsOK'
  BY <1>1, <1>2 DEF RestOK, CallsOK
<1>4. ServerOK'
  BY <1>1 DEF ServerOK, net, Idle, Pending, Holds
<1>5. ASSUME NEW w \in Users PROVE UserFits(user'[w], w, init', made')
  <2> DEFINE v == user[w]
  <2>1. UserFits(v, w, init, made) /\ v = user'[w]
    BY <1>1 DEF UsersOK
  <2> HIDE DEF v
  <2>2. v.pos \in 0 .. made + 1
    BY <1>2, <2>1 DEF UserFits
  <2>3. UserFits(v, w, init', made')
    BY <1>1, <2>1, <2>2 DEF UserFits
  <2> QED BY <2>1, <2>3
<1>6. DOMAIN user' = Users
  BY <1>1 DEF UsersOK
<1>7. UsersOK'
  <2>1. DOMAIN user' = Users /\ \A w \in Users : UserFits(user'[w], w, init', made')
    BY <1>5, <1>6
  <2> QED BY <2>1 DEF UsersOK, UserFits, Coded, Fresh, Primed
<1> QED BY <1>3, <1>4, <1>7 DEF WebrtcInv

\* A user is pushed to: it encodes what it has not had (WebrtcPlayerUser::PostFrames).
LEMMA PostFramesKeeps ==
  ASSUME WebrtcInv, NEW u \in Users, PostFrames(u)
  PROVE  WebrtcInv'
<1>1. /\ UsersOK /\ RestOK /\ ServerOK /\ CallsOK
      /\ UNCHANGED <<users, made, net, in, init>> /\ push' \subseteq Users
  BY DEF WebrtcInv, PostFrames, RestOK
<1>2. ServerOK'
  BY <1>1 DEF ServerOK, net, Idle, Pending, Holds
<1>3. ASSUME UsersOK', CallsOK', down' \in BOOLEAN PROVE WebrtcInv'
  <2>1. RestOK'
    BY <1>1, <1>3 DEF RestOK
  <2> QED BY <1>2, <1>3, <2>1 DEF WebrtcInv
<1>4. CASE UNCHANGED <<user, calls>> /\ down' \in BOOLEAN
  <2>1. UsersOK' /\ CallsOK'
    BY <1>1, <1>4 DEF UsersOK, UserFits, Coded, Fresh, Primed, CallsOK
  <2> QED BY <1>3, <1>4, <2>1
<1>5. CASE ~(UNCHANGED <<user, calls>> /\ down' \in BOOLEAN)
  <2> DEFINE x == user[u]
             v0 == [x EXCEPT !.out = <<>>]
  <2>1. down \in BOOLEAN
    BY <1>1 DEF RestOK
  <2>2. x.muxer
    BY <1>5, <2>1 DEF PostFrames
  <2>3. PICK from \in IF x.pos = 0 THEN {i \in 1 .. made : Kinds[i] \in {"key", "full"}} ELSE {made} :
          LET v == Encode(v0, from)
              rtp == [i \in 1 .. Len(v.out) |-> <<"rtp", u, v.out[i][1] % SeqNums, v.out[i][2]>>]
              sr == <<<<"sr", u, 0, 0>>>>
          IN /\ UNCHANGED down
             /\ IF rtp = <<>> THEN calls' = <<>> /\ user' = [user EXCEPT ![u] = v]
                ELSE \E report \in BOOLEAN :
                       /\ v.reports = 0 => report
                       /\ report => v.reports < MaxReports
                       /\ calls' = IF report THEN <<rtp, sr>> ELSE <<rtp>>
                       /\ user' = [user EXCEPT ![u] = [v EXCEPT !.out = <<>>,
                                      !.reports = IF report THEN @ + 1 ELSE @]]
    BY <1>5, <2>1 DEF PostFrames
  <2> DEFINE v == Encode(v0, from)
             rtp == [i \in 1 .. Len(v.out) |-> <<"rtp", u, v.out[i][1] % SeqNums, v.out[i][2]>>]
             sr == <<<<"sr", u, 0, 0>>>>
  <2>4. UserFits(x, u, init, made) /\ x \in UserRec /\ Coded(x)
    BY <1>1 DEF UsersOK, UserFits, Coded
  <2>5. made \in 0 .. Len(Kinds) /\ made \in Nat
    BY <1>1, Sizes DEF RestOK
  <2>6. x.dtls = 2 /\ x.pos \in 0 .. made /\ (init = u => x.again)
    BY <2>2, <2>4 DEF UserFits
  <2> HIDE DEF x
  <2>7. /\ v0 \in UserRec /\ v0.dtls = x.dtls /\ v0.again = x.again /\ v0.muxer = x.muxer
        /\ v0.seq = x.seq /\ v0.sentsps = x.sentsps /\ v0.pos = x.pos /\ v0.cache = x.cache
        /\ v0.log = x.log
    <3>1. <<>> \in Seq(Packets)
      OBVIOUS
    <3> QED BY <2>4, <3>1 DEF UserRec
  <2>8. from \in 1 .. made /\ (x.pos = 0 => Kinds[from] \in {"key", "full"})
    <3>1. CASE x.pos = 0
      BY <2>3, <3>1
    <3>2. CASE x.pos # 0
      <4>1. from = made
        BY <2>3, <3>2
      <4> QED BY <2>5, <2>6, <3>2, <4>1
    <3> QED BY <3>1, <3>2
  <2> HIDE DEF v0
  <2>9. Coded(v0) /\ (Fresh(x) => Fresh(v0)) /\ (Primed(x) => Primed(v0))
    BY <2>4, <2>7 DEF Coded, Fresh, Primed
  <2>10. /\ Coded(v) /\ v.pos = made /\ v.dtls = 2 /\ v.muxer /\ v.again = x.again
         /\ x.pos # 0 /\ Primed(x) => Primed(v)
         /\ x.pos = 0 /\ Fresh(x) => Primed(v)
    <3>1. /\ Coded(v) /\ v.pos = made
          /\ v.dtls = v0.dtls /\ v.muxer = v0.muxer /\ v.again = v0.again
          /\ v0.pos # 0 /\ Primed(v0) => Primed(v)
          /\ v0.pos = 0 /\ Fresh(v0) => Primed(v)
      BY <2>5, <2>6, <2>7, <2>8, <2>9, EncodeKeeps
    <3> HIDE DEF v
    <3> QED BY <2>2, <2>6, <2>7, <2>9, <3>1
  <2> HIDE DEF v
  <2>11. ~v.again => Primed(v)
    BY <2>4, <2>10 DEF UserFits
  <2>12. v.pos # 0
    BY <2>5, <2>8, <2>10
  <2>13. UserFits(v, u, init, made)
    BY <2>5, <2>6, <2>10, <2>11, <2>12 DEF UserFits
  <2>14. v \in UserRec /\ v.out \in Seq(Packets) /\ v.reports \in Nat
    BY <2>10 DEF Coded, UserRec
  <2>15. IsSeq(rtp) /\ IsSeq(sr)
    <3>1. Len(v.out) \in Nat
      BY <2>14
    <3> HIDE DEF sr
    <3>2. IsSeq(rtp)
      BY <3>1, FunctionIsSeq
    <3>3. IsSeq(sr)
      BY OneIsSeq DEF sr
    <3> QED BY <3>2, <3>3
  <2>16. CASE calls' = <<>> /\ user' = [user EXCEPT ![u] = v]
    <3>1. UsersOK'
      BY <1>1, <2>13, <2>16, OneUser
    <3>2. CallsOK'
      <4>1. <<>> \in Seq({}) /\ Len(<<>>) = 0
        OBVIOUS
      <4> QED BY <2>16, <4>1 DEF CallsOK, IsSeq
    <3> QED BY <1>3, <2>1, <2>3, <3>1, <3>2
  <2>17. ASSUME NEW report \in BOOLEAN,
                calls' = IF report THEN <<rtp, sr>> ELSE <<rtp>>,
                user' = [user EXCEPT ![u] = [v EXCEPT !.out = <<>>,
                                      !.reports = IF report THEN @ + 1 ELSE @]]
         PROVE  WebrtcInv'
    <3> DEFINE k == IF report THEN v.reports + 1 ELSE v.reports
               n == [v EXCEPT !.out = <<>>, !.reports = k]
    <3> HIDE DEF rtp, sr
    <3>1. user' = [user EXCEPT ![u] = n]
      BY <2>17
    <3>2. k \in Nat /\ <<>> \in Seq(Packets)
      BY <2>14
    <3> HIDE DEF k
    <3>3. /\ n \in UserRec /\ n.dtls = v.dtls /\ n.again = v.again /\ n.muxer = v.muxer
          /\ n.seq = v.seq /\ n.sentsps = v.sentsps /\ n.pos = v.pos /\ n.cache = v.cache
          /\ n.log = v.log
      BY <2>14, <3>2 DEF UserRec
    <3> HIDE DEF n
    <3>4. UserFits(n, u, init, made)
      BY <2>13, <3>3, SameFits
    <3>5. UsersOK'
      BY <1>1, <3>1, <3>4, OneUser
    <3>6. CallsOK'
      <4>1. /\ <<rtp, sr>> \in Seq({rtp, sr}) /\ Len(<<rtp, sr>>) = 2
            /\ <<rtp, sr>>[1] = rtp /\ <<rtp, sr>>[2] = sr
        OBVIOUS
      <4>2. <<rtp>> \in Seq({rtp}) /\ Len(<<rtp>>) = 1 /\ <<rtp>>[1] = rtp
        OBVIOUS
      <4>3. IsSeq(<<rtp, sr>>) /\ IsSeq(<<rtp>>)
        BY <4>1, <4>2 DEF IsSeq
      <4>4. CASE report
        <5>1. calls' = <<rtp, sr>>
          BY <2>17, <4>4
        <5>2. \A i \in 1 .. 2 : i = 1 \/ i = 2
          OBVIOUS
        <5>3. \A i \in 1 .. Len(calls') : IsSeq(calls'[i])
          BY <2>15, <4>1, <5>1, <5>2
        <5>4. IsSeq(calls')
          BY <4>3, <5>1
        <5> QED BY <5>3, <5>4 DEF CallsOK, IsSeq
      <4>5. CASE ~report
        <5>1. calls' = <<rtp>>
          BY <2>17, <4>5
        <5>2. \A i \in 1 .. 1 : i = 1
          OBVIOUS
        <5>3. \A i \in 1 .. Len(calls') : IsSeq(calls'[i])
          BY <2>15, <4>2, <5>1, <5>2
        <5>4. IsSeq(calls')
          BY <4>3, <5>1
        <5> QED BY <5>3, <5>4 DEF CallsOK, IsSeq
      <4> QED BY <4>4, <4>5
    <3> QED BY <1>3, <2>1, <2>3, <3>5, <3>6
  <2> QED
    <3> HIDE DEF rtp, sr
    <3>1. CASE rtp = <<>>
      BY <2>3, <2>16, <3>1 DEF v, rtp, sr
    <3>2. CASE rtp # <<>>
      BY <2>3, <2>17, <3>2 DEF v, rtp, sr
    <3> QED BY <3>1, <3>2
<1> QED BY <1>4, <1>5

\* The next of PostFrames' calls of SendPacket.
LEMMA SubmitKeeps ==
  ASSUME WebrtcInv, Submit
  PROVE  WebrtcInv'
<1>1. /\ UsersOK /\ RestOK /\ ServerOK /\ CallsOK /\ calls # <<>>
      /\ Hand(Head(calls), FALSE) /\ calls' = Tail(calls)
      /\ UNCHANGED <<user, users, made, push, in, init, down>>
  BY DEF WebrtcInv, Submit
<1>2. PICK S : calls \in Seq(S)
  BY <1>1 DEF CallsOK, IsSeq
<1>3. /\ Tail(calls) \in Seq(S) /\ Len(calls) \in Nat /\ Len(calls) >= 1
      /\ Head(calls) = calls[1] /\ Len(Tail(calls)) = Len(calls) - 1
      /\ \A i \in 1 .. Len(calls) - 1 : Tail(calls)[i] = calls[i + 1]
  BY <1>1, <1>2, HeadTailProperties, EmptySeq
<1>4. IsSeq(Head(calls))
  BY <1>1, <1>3 DEF CallsOK
<1>5. ServerOK'
  BY <1>1, <1>4, HandKeeps
<1>6. CallsOK'
  <2>1. ASSUME NEW i \in 1 .. Len(Tail(calls)) PROVE IsSeq(Tail(calls)[i])
    <3>1. i \in 1 .. Len(calls) - 1 /\ i + 1 \in 1 .. Len(calls)
      BY <1>3
    <3> QED BY <1>1, <1>3, <3>1 DEF CallsOK
  <2>2. IsSeq(calls') /\ \A i \in 1 .. Len(calls') : IsSeq(calls'[i])
    BY <1>1, <1>3, <2>1 DEF IsSeq
  <2> QED BY <2>2 DEF CallsOK, IsSeq
<1>7. RestOK' /\ UsersOK'
  BY <1>1 DEF RestOK, UsersOK, UserFits, Coded, Fresh, Primed
<1> QED BY <1>5, <1>6, <1>7 DEF WebrtcInv

\* A NACK's bitmask has 16 bits.
LEMMA BitsFinite == IsFiniteSet(1 .. 16)
<1>1. 1 \in Int /\ 16 \in Int
  OBVIOUS
<1> QED BY <1>1, FS_Interval

\* What a NACK names and the cache has is sent again (OnRtcp, ProcessRtpfb).
LEMMA OnRtcpKeeps ==
  ASSUME WebrtcInv, NEW a \in Addrs, NEW pid \in 0 .. SeqNums - 1, NEW blp \in SUBSET Blp,
         OnRtcp(a, DecodeNack(pid, blp))
  PROVE  WebrtcInv'
<1> DEFINE u == users[a]
           lost == DecodeNack(pid, blp)
           found == {i \in DOMAIN lost : GetVideo(user[u], lost[i]) # <<>>}
           order == SetToSortSeq(found, <)
           Again(m) == <<"again", u, m, GetVideo(user[u], m)[2]>>
           list == [i \in 1 .. Cardinality(found) |-> Again(lost[order[i]])]
<1>1. /\ UsersOK /\ RestOK /\ ServerOK /\ CallsOK
      /\ UNCHANGED <<user, users, made, push, calls, init, down>> /\ in' \in 0 .. MaxIn
  <2> HIDE DEF list, found, order, Again, lost
  <2>1. UsersOK /\ RestOK /\ ServerOK /\ CallsOK
    BY DEF WebrtcInv
  <2>2. UNCHANGED <<user, users, made, push, calls, init, down>> /\ in < MaxIn /\ in' = in + 1
    BY DEF OnRtcp, Receive
  <2>3. in' \in 0 .. MaxIn
    BY <2>1, <2>2, WebrtcAssumption DEF RestOK
  <2> QED BY <2>1, <2>2, <2>3
<1>2. IF found = {} THEN UNCHANGED net ELSE Hand(list, TRUE)
  BY DEF OnRtcp
<1>3. Cardinality(found) \in Nat
  <2>1. IsFiniteSet(blp)
    <3> HIDE DEF list, found, order, Again, lost
    <3>1. blp \subseteq 1 .. 16
      BY WebrtcAssumption
    <3>2. IsFiniteSet(1 .. 16)
      BY BitsFinite
    <3> QED BY <3>1, <3>2, FS_Subset
  <2>2. Cardinality(blp) \in Nat
    BY <2>1, FS_CardinalityType
  <2>3. DOMAIN lost = 1 .. Cardinality(blp) + 1
    BY DEF DecodeNack
  <2>4. IsFiniteSet(1 .. Cardinality(blp) + 1)
    BY <2>2, FS_Interval
  <2> HIDE DEF lost
  <2>5. found \subseteq 1 .. Cardinality(blp) + 1
    BY <2>3
  <2> HIDE DEF found
  <2> QED BY <2>4, <2>5, FS_Subset, FS_CardinalityType
<1> HIDE DEF found, lost, order, Again
<1>4. IsSeq(list)
  BY <1>3, FunctionIsSeq
<1> HIDE DEF list
<1>5. ServerOK'
  <2>1. CASE found = {}
    BY <1>1, <1>2, <2>1 DEF ServerOK, net, Idle, Pending, Holds
  <2>2. CASE found # {}
    BY <1>1, <1>2, <1>4, <2>2, HandKeeps
  <2> QED BY <2>1, <2>2
<1>6. RestOK' /\ UsersOK' /\ CallsOK'
  BY <1>1 DEF RestOK, UsersOK, CallsOK, UserFits, Coded, Fresh, Primed
<1> QED BY <1>5, <1>6 DEF WebrtcInv

\* The server's own steps leave the users alone.
LEMMA ServerSteps ==
  ASSUME WebrtcInv, ServerOK', UNCHANGED <<user, users, made, push, calls, in, init, down>>
  PROVE  WebrtcInv'
BY DEF WebrtcInv, RestOK, UsersOK, CallsOK, UserFits, Coded, Fresh, Primed

-----------------------------------------------------------------------------
(* The theorems.                                                           *)

\* An idle server and users without a muxer satisfy the invariant.
LEMMA InitKeeps == Init => WebrtcInv
<1> SUFFICES ASSUME Init PROVE WebrtcInv
  OBVIOUS
<1>1. ServerOK
  <2> DEFINE s == srv
  <2>1. /\ s = [sending |-> FALSE, outs |-> <<>>, held |-> <<>>, waiting |-> <<>>, tasks |-> 0,
                buffer |-> <<>>, writing |-> FALSE, edge |-> FALSE]
        /\ wire = <<>> /\ handed = <<>> /\ stray = FALSE
    BY DEF Init
  <2>2. <<>> \in Seq(Nat) /\ 0 \in Nat /\ Len(<<>>) = 0
    OBVIOUS
  <2>3. s \in SrvRec
    BY <2>1, <2>2 DEF SrvRec
  <2>4. Holds(s) /\ Idle(s)
    BY <2>1 DEF Holds, Idle
  <2>5. Pending(s) = (<<>> \o <<>>) \o <<>>
    BY <2>1 DEF Pending
  <2>6. wire \o Pending(s) = <<>>
    BY <2>1, <2>5, ConcatFacts
  <2>7. After(0, 0) = <<>>
    <3>1. After(0, 0) \in Seq(Nat) /\ Len(After(0, 0)) = 0
      BY AfterIs
    <3> QED BY <3>1, EmptySeq
  <2>8. IsSeq(handed)
    BY <2>1, <2>2 DEF IsSeq
  <2> QED BY <2>1, <2>2, <2>3, <2>4, <2>6, <2>7, <2>8 DEF ServerOK
<1>2. RestOK
  <2>1. /\ users = [a \in Addrs |-> None] /\ made = 0 /\ push = {} /\ in = 0 /\ init = None
        /\ down = FALSE
    BY DEF Init
  <2>2. 0 \in 0 .. Len(Kinds) /\ 0 \in 0 .. MaxIn
    BY Sizes, WebrtcAssumption
  <2> QED BY <2>1, <2>2 DEF RestOK
<1>3. CallsOK
  <2>1. calls = <<>> /\ <<>> \in Seq({}) /\ Len(<<>>) = 0
    BY DEF Init
  <2> QED BY <2>1 DEF CallsOK, IsSeq
<1>4. UsersOK
  <2>1. NewUser \in UserRec
    <3>1. [i \in 0 .. QueueSize - 1 |-> <<>>] \in [0 .. QueueSize - 1 -> {<<>>} \cup Packets]
      OBVIOUS
    <3>2. <<>> \in Seq(Packets)
      OBVIOUS
    <3> QED BY <3>1, <3>2 DEF NewUser, UserRec
  <2>2. /\ NewUser.dtls = 0 /\ NewUser.pos = 0 /\ ~NewUser.muxer /\ NewUser.log = <<>>
        /\ ~NewUser.sentsps /\ NewUser.seq = 0
    BY DEF NewUser
  <2>3. user = [u \in Users |-> NewUser] /\ init = None /\ made = 0
    BY DEF Init
  <2> DEFINE v == NewUser
  <2>4. Coded(v) /\ Fresh(v)
    BY <2>1, <2>2 DEF Coded, Fresh
  <2>5. ASSUME NEW u \in Users PROVE UserFits(v, u, init, made)
    BY <2>2, <2>3, <2>4, WebrtcAssumption DEF UserFits
  <2> QED BY <2>3, <2>5 DEF UsersOK
<1> QED BY <1>1, <1>2, <1>3, <1>4 DEF WebrtcInv

\* Every step keeps it: each handler by its own lemma, the rest by what they leave alone.
LEMMA NextKeeps == WebrtcInv /\ [Next]_vars => WebrtcInv'
<1> SUFFICES ASSUME WebrtcInv, [Next]_vars PROVE WebrtcInv'
  OBVIOUS
<1>0. ServerOK
  BY DEF WebrtcInv
<1>1. ASSUME NEW u \in Users, OnRequest(u) PROVE WebrtcInv'
  BY <1>1, OnRequestKeeps DEF OnRequest
<1>2. ASSUME NEW u \in Users, Register(u) PROVE WebrtcInv'
  BY <1>2, OnRequestKeeps DEF Register
<1>3. ASSUME NEW u \in Users, PostFrames(u) PROVE WebrtcInv'
  BY <1>3, PostFramesKeeps
<1>4. ASSUME NEW u \in Users, NEW a \in Addrs, OnStun(u, a) PROVE WebrtcInv'
  BY <1>4, OnStunKeeps
<1>5. ASSUME NEW a \in Addrs, OnDtls(a) PROVE WebrtcInv'
  BY <1>5, OnDtlsKeeps
<1>6. ASSUME NEW a \in Addrs, NEW pid \in 0 .. SeqNums - 1, NEW blp \in SUBSET Blp,
             OnRtcp(a, DecodeNack(pid, blp))
      PROVE  WebrtcInv'
  BY <1>6, OnRtcpKeeps
<1>7. ASSUME InitMuxer PROVE WebrtcInv'
  BY <1>7, InitMuxerKeeps
<1>8. ASSUME AddPacket PROVE WebrtcInv'
  BY <1>8, AddPacketKeeps
<1>9. ASSUME Submit PROVE WebrtcInv'
  BY <1>9, SubmitKeeps
<1>10. ASSUME RunTask PROVE WebrtcInv'
  <2>1. ServerOK'
    BY <1>0, <1>10, RunTaskKeeps
  <2>2. UNCHANGED <<user, users, made, push, calls, in, init, down>>
    BY <1>10 DEF RunTask
  <2> QED BY <2>1, <2>2, ServerSteps
<1>11. ASSUME NEW n \in 0 .. Len(srv.buffer), OnWrite(n) PROVE WebrtcInv'
  <2>1. ServerOK'
    BY <1>0, <1>11, OnWriteKeeps
  <2>2. UNCHANGED <<user, users, made, push, calls, in, init, down>>
    BY <1>11 DEF OnWrite
  <2> QED BY <2>1, <2>2, ServerSteps
<1>12. Len(srv.buffer) \in Nat /\ (srv.buffer = <<>> => Len(srv.buffer) = 0)
  BY <1>0 DEF ServerOK, SrvRec
<1>13. ASSUME Write \/ WriteSome \/ StrayWrite PROVE WebrtcInv'
  <2>1. CASE Write
    BY <1>11, <1>12, <2>1 DEF Write
  <2>2. CASE WriteSome
    <3>1. PICK n \in 0 .. Len(srv.buffer) - 1 : OnWrite(n)
      BY <2>2 DEF WriteSome
    <3>2. n \in 0 .. Len(srv.buffer)
      BY <1>12
    <3> QED BY <1>11, <3>1, <3>2
  <2>3. CASE StrayWrite
    <3>1. 0 \in 0 .. Len(srv.buffer) /\ OnWrite(0)
      BY <1>12, <2>3 DEF StrayWrite
    <3> QED BY <1>11, <3>1
  <2> QED BY <1>13, <2>1, <2>2, <2>3
<1>14. ASSUME UNCHANGED vars PROVE WebrtcInv'
  <2>1. UNCHANGED <<user, users, made, push, calls, in, init, down>> /\ UNCHANGED net
    BY <1>14 DEF vars, net
  <2>2. ServerOK'
    BY <1>0, <2>1 DEF ServerOK, net, Idle, Pending, Holds
  <2> QED BY <2>1, <2>2, ServerSteps
<1> QED BY <1>1, <1>2, <1>3, <1>4, <1>5, <1>6, <1>7, <1>8, <1>9, <1>10, <1>13, <1>14 DEF Next

\* What the invariant says holds in every reachable state.
THEOREM Invariant == Spec => []WebrtcInv
<1>1. Init => WebrtcInv
  BY InitKeeps
<1>2. WebrtcInv /\ [Next]_vars => WebrtcInv'
  BY NextKeeps
<1> QED BY <1>1, <1>2, PTL DEF Spec

\* Every packet handed to SendPacket, from whichever thread, leaves once and in the order
\* of the calls, unless a write-complete came while a Send task was queued.
THEOREM InOrder == Spec => []LeavesOnceInOrder
<1>1. WebrtcInv => LeavesOnceInOrder
  <2> SUFFICES ASSUME WebrtcInv, ~stray
               PROVE  /\ srv.tasks <= 1 /\ (srv.tasks = 1 => srv.sending)
                      /\ wire \o srv.buffer \o (IF srv.tasks = 1 THEN srv.outs ELSE <<>>) \o srv.waiting
                           = [i \in 1 .. Len(handed) |-> i]
    BY DEF LeavesOnceInOrder
  <2> DEFINE tk == IF srv.tasks = 1 THEN srv.outs ELSE <<>>
             y == srv.waiting
             p == srv.buffer
  <2>1. /\ srv \in SrvRec /\ wire \in Seq(Nat) /\ IsSeq(handed)
        /\ Idle(srv) /\ wire \o Pending(srv) = After(0, Len(handed))
    BY DEF WebrtcInv, ServerOK
  <2>2. y \in Seq(Nat) /\ p \in Seq(Nat) /\ tk \in Seq(Nat)
    BY <2>1, ConcatFacts DEF SrvRec
  <2>3. Pending(srv) = (p \o tk) \o y
    BY DEF Pending
  <2>4. Len(handed) \in Nat
    BY <2>1 DEF IsSeq
  <2>5. After(0, Len(handed)) = [i \in 1 .. Len(handed) |-> i]
    BY <2>4 DEF After
  <2>6. srv.tasks <= 1 /\ (srv.tasks = 1 => srv.sending)
    BY <2>1 DEF Idle
  <2> HIDE DEF tk, y, p
  <2>7. ((wire \o p) \o tk) \o y = wire \o ((p \o tk) \o y)
    <3>1. Cat(Cat(Cat(wire, p), tk), y) = Cat(Cat(wire, p), Cat(tk, y))
      BY <2>1, <2>2, Grouping
    <3>2. Cat(Cat(wire, p), Cat(tk, y)) = Cat(wire, Cat(p, Cat(tk, y)))
      BY <2>1, <2>2, Grouping
    <3>3. Cat(p, Cat(tk, y)) = Cat(Cat(p, tk), y)
      BY <2>2, Grouping
    <3>4. Cat(Cat(Cat(wire, p), tk), y) = Cat(wire, Cat(Cat(p, tk), y))
      BY <3>1, <3>2, <3>3
    <3> QED BY <3>4 DEF Cat
  <2>8. ((wire \o p) \o tk) \o y = [i \in 1 .. Len(handed) |-> i]
    BY <2>1, <2>3, <2>5, <2>7
  <2> QED BY <2>6, <2>8 DEF tk, y, p
<1> QED BY <1>1, Invariant, PTL

\* Whatever the socket has still to send is held, whichever callbacks came between.
THEOREM Held == Spec => []BufferHeld
<1>1. WebrtcInv => BufferHeld
  <2> SUFFICES ASSUME WebrtcInv PROVE BufferHeld
    OBVIOUS
  <2>1. /\ srv.tasks \in Nat /\ srv.sending \in BOOLEAN /\ srv.writing \in BOOLEAN
        /\ srv.edge \in BOOLEAN /\ stray \in BOOLEAN /\ down \in BOOLEAN
    BY DEF WebrtcInv, ServerOK, RestOK, SrvRec
  <2>2. {srv.sending, srv.writing, srv.edge, stray, down} \subseteq BOOLEAN
    BY <2>1
  <2>3. TypeOK
    BY <2>1, <2>2 DEF TypeOK, WebrtcInv, RestOK
  <2>4. Range(srv.buffer) \subseteq Range(srv.held)
    BY DEF WebrtcInv, ServerOK, Holds
  <2> QED BY <2>3, <2>4 DEF BufferHeld
<1> QED BY <1>1, Invariant, PTL

\* A stream starts with SPS and PPS and a key frame, unless DTLS ended twice.
THEOREM Primes == Spec => []DecoderPrimed
<1>1. WebrtcInv => DecoderPrimed
  <2> SUFFICES ASSUME WebrtcInv, NEW u \in Users, user[u].log # <<>>, ~user[u].again
               PROVE  LET log == user[u].log
                      IN \/ log[1][2] = 0 /\ Len(log) > 1 /\ Kinds[log[2][2]] = "key"
                         \/ log[1][2] # 0 /\ Kinds[log[1][2]] = "full"
    BY DEF DecoderPrimed
  <2>1. UserFits(user[u], u, init, made)
    BY DEF WebrtcInv, UsersOK
  <2>2. Primed(user[u])
    BY <2>1 DEF UserFits, Fresh
  <2> QED BY <2>2 DEF Primed
<1> QED BY <1>1, Invariant, PTL

\* The cache answers a NACK with the packet it names while the sequence number fits 16
\* bits, and with nothing from then on: every slot has been taken by a greater number.
LEMMA CacheAnswers ==
  ASSUME NEW v, Coded(v), NEW i \in DOMAIN v.log, i + QueueSize > Len(v.log)
  PROVE  LET p == v.log[i]
             q == GetVideo(v, p[1] % SeqNums)
         IN IF p[1] < SeqNums THEN q = p ELSE q = <<>>
<1> DEFINE N == QueueSize
           L == Len(v.log)
           n == i % SeqNums
           s == n % N
<1>0. /\ N \in Nat \ {0} /\ SeqNums \in Nat \ {0} /\ SeqNums > N /\ L \in Nat
      /\ i \in 1 .. L /\ i \in Nat /\ i <= L /\ v.log \in Seq(Packets)
  BY Sizes DEF Coded, UserRec
<1>1. v.log[i][1] = i /\ v.log[i] # <<>>
  <2>1. v.log[i] \in Packets
    BY <1>0
  <2> QED BY <1>0, <2>1 DEF Coded, Packets
<1> DEFINE d == i \div SeqNums
           e == SeqNums * d
<1> HIDE DEF N, L, s
<1>2. n \in 0 .. SeqNums - 1 /\ n \in Nat /\ d \in Nat /\ i = e + n
  <2>1. SeqNums \in Nat \ {0} /\ i \in Nat
    BY <1>0
  <2>2. /\ i % SeqNums \in 0 .. SeqNums - 1 /\ i \div SeqNums \in Nat
        /\ i = SeqNums * (i \div SeqNums) + (i % SeqNums)
    BY ONLY <2>1, ModDef, Zenon
  <2> HIDE DEF n, d
  <2>3. n \in 0 .. SeqNums - 1 /\ d \in Nat /\ i = e + n
    BY <2>2, Zenon DEF n, d, e
  <2>4. n \in Nat
    BY <2>3
  <2> QED BY <2>3, <2>4
<1> HIDE DEF d
<1>5. s \in 0 .. N - 1
  <2> HIDE DEF n, e
  <2> QED BY <1>0, <1>2, ModDef DEF s
<1>3. CASE i < SeqNums
  <2>1. n = i
    <3> HIDE DEF e
    <3> QED BY <1>0, <1>3
  <2>2. v.cache[i % QueueSize] = v.log[i]
    BY <1>0 DEF Coded, L
  <2> HIDE DEF n
  <2>3. GetVideo(v, n) = v.log[i]
    BY <1>1, <2>1, <2>2 DEF GetVideo
  <2> QED BY <1>1, <1>3, <2>3 DEF n
<1>4. CASE ~(i < SeqNums)
  <2> HIDE DEF n, e
  <2>1. s \in 0 .. N - 1 /\ L > N /\ n < L
    BY <1>0, <1>2, <1>4, <1>5
  <2> DEFINE k == (L - s) \div N
             r == (L - s) % N
             j == N * k + s
  <2>2. L - s \in Nat
    BY <1>0, <2>1
  <2>3. k \in Nat /\ r \in 0 .. N - 1 /\ L - s = N * k + r
    BY <1>0, <2>2, ModDef
  <2>4. j % N = s
    <3> HIDE DEF k
    <3> QED BY <1>0, <2>1, <2>3, ModOf
  <2> DEFINE t == N * k
  <2>5. t \in Int
    <3> HIDE DEF k
    <3> QED BY <1>0, <2>3
  <2>6. L - s = t + r
    BY <2>3
  <2>7. j = t + s
    OBVIOUS
  <2> HIDE DEF t, k, r, j, N, L
  <2>8. j = L - r /\ j > L - N /\ j <= L
    BY <1>0, <2>1, <2>3, <2>5, <2>6, <2>7
  <2>9. j \in 1 .. L
    BY <1>0, <2>1, <2>5, <2>7, <2>3, <2>8
  <2>10. v.cache[s] = v.log[j] /\ v.log[j][1] = j
    <3>1. j + QueueSize > Len(v.log) /\ j \in 1 .. Len(v.log)
      BY <1>0, <2>3, <2>8, <2>9 DEF N, L
    <3> QED BY <2>4, <3>1 DEF Coded, N
  <2>11. j # n
    <3>1. n <= i - SeqNums
      <4>3. d # 0
        <5> SUFFICES ASSUME d = 0 PROVE FALSE
          OBVIOUS
        <5>1. e = 0
          BY <1>0 DEF e
        <5> QED BY <1>0, <1>2, <1>4, <5>1
      <4>4. e >= SeqNums
        BY <1>0, <1>2, <4>3, MulStep DEF e
      <4>5. e \in Int
        BY <1>0, <1>2 DEF e
      <4> QED BY <1>0, <1>2, <4>4, <4>5
    <3>2. n < L - N
      BY <1>0, <1>2, <3>1
    <3> QED BY <1>0, <1>2, <2>1, <2>8, <2>9, <3>2
  <2>12. GetVideo(v, n) = <<>>
    BY <2>10, <2>11 DEF GetVideo, s, N
  <2> QED BY <1>1, <1>4, <2>12 DEF n
<1> QED BY <1>3, <1>4

\* A receiver that reports one of the last QueueSize packets of its stream lost is sent
\* that packet, never another; from sequence number 2^16 on it gets nothing at all.
THEOREM Answers == Spec => []NackAnswered
<1>1. WebrtcInv => NackAnswered
  BY CacheAnswers DEF NackAnswered, WebrtcInv, UsersOK, UserFits
<1> QED BY <1>1, Invariant, PTL
=============================================================================
