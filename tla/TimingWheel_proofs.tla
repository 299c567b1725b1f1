------------------------- MODULE TimingWheel_proofs -------------------------
(***************************************************************************)
(* Proofs about TimingWheel.                                               *)
(*                                                                         *)
(* The invariant follows each element of the second and of the minute      *)
(* wheel by the tick at which it will fire (DueAt), which no turn of a     *)
(* wheel changes: an element moves a slot forward as a tick passes, and    *)
(* what leaves the minute wheel goes to the slot of the second wheel with  *)
(* the same tick.  Each element is due by its entry's delay, and an armed  *)
(* entry keeps one that is due exactly then (HasElement).                  *)
(***************************************************************************)
EXTENDS TimingWheel, TLAPS

-----------------------------------------------------------------------------
(* Division with remainder.                                                *)

\* A number by its quotient and remainder.
LEMMA ModDef ==
  ASSUME NEW N \in Nat \ {0}, NEW a \in Nat
  PROVE  a % N \in 0 .. N - 1 /\ a \div N \in Nat /\ a = N * (a \div N) + (a % N)
OBVIOUS

\* A positive multiple of N is at least N.
LEMMA MulStep ==
  ASSUME NEW N \in Nat \ {0}, NEW q \in Int, q >= 1
  PROVE  N * q >= N
BY Z3

\* The remainder of a number given by its quotient and remainder.
LEMMA ModOf ==
  ASSUME NEW N \in Nat \ {0}, NEW q \in Nat, NEW r \in 0 .. N - 1
  PROVE  (N * q + r) % N = r
OBVIOUS

\* A number below N is its own remainder.
LEMMA ModSmall ==
  ASSUME NEW N \in Nat \ {0}, NEW n \in Nat, n < N
  PROVE  n % N = n
OBVIOUS

-----------------------------------------------------------------------------
(* Delays, levels and slots.                                               *)

\* What is assumed of the constants.
LEMMA WheelFacts ==
  /\ kTimingMinute \in Nat \ {0} /\ kTimingHour \in Nat \ {0} /\ kTimingDay \in Nat \ {0}
  /\ kTimingMinute < kTimingHour /\ kTimingHour < kTimingDay
  /\ kTimingHour % kTimingMinute = 0 /\ kTimingDay % kTimingMinute = 0
  /\ MaxDays \in Nat \ {0} /\ Second \in Nat \ {0}
  /\ MaxIdle \in 1 .. kTimingMinute - 1
  /\ Delays \subseteq Nat
  /\ Timers \cap Tickers = {} /\ Timers \cap Conns = {} /\ Tickers \cap Conns = {}
  /\ Direct \notin Nat /\ Never \notin [tick : Nat, delay : Nat, now : Nat]
  /\ Never \notin [after : Nat, delay : Nat, waited : Nat]
BY WheelAssumption

\* A quotient is at least one when the divisor fits, and less than that of a
\* greater multiple of the divisor.
LEMMA QuotientFacts ==
  ASSUME NEW N \in Nat \ {0}, NEW d \in Nat
  PROVE  /\ d >= N => d \div N >= 1
         /\ \A k \in Nat : d < N * k => d \div N < k
<1> DEFINE q == d \div N
<1>1. q \in Nat /\ d % N \in 0 .. N - 1 /\ d = N * q + (d % N)
  BY ModDef
<1> HIDE DEF q
<1>2. d >= N => q >= 1
  BY <1>1
<1>3. ASSUME NEW k \in Nat, d < N * k PROVE q < k
  <2>1. SUFFICES ASSUME q - k >= 0 PROVE FALSE
    BY <1>1
  <2> DEFINE r == N * (q - k)
  <2>2. r = N * q - N * k
    BY <1>1
  <2>3. r >= 0
    <3>1. q = k => r = 0
      OBVIOUS
    <3>2. q - k \in Int /\ (q - k >= 1 => r >= N)
      BY <1>1, MulStep
    <3> QED BY <2>1, <3>1, <3>2, <1>1
  <2> HIDE DEF r
  <2> QED BY <2>2, <2>3, <1>1, <1>3
<1> QED BY <1>2, <1>3 DEF q

\* The wheels have slots, numbered from 0.
LEMMA SlotsFacts ==
  /\ \A level \in Levels : Slots(level) \subseteq Nat /\ 0 \in Slots(level)
  /\ \A level \in Levels : \A i \in Slots(level) : \A j \in 0 .. i : j \in Slots(level)
  /\ Slots("second") = 0 .. kTimingMinute - 1
  /\ Slots("minute") = 0 .. (kTimingHour \div kTimingMinute) - 1
  /\ Slots("hour") = 0 .. (kTimingDay \div kTimingHour) - 1
  /\ Slots("day") = 0 .. MaxDays - 1
<1>1. kTimingHour \div kTimingMinute \in Nat \ {0} /\ kTimingDay \div kTimingHour \in Nat \ {0}
  BY WheelFacts, QuotientFacts, ModDef
<1>2. /\ Slots("second") = 0 .. kTimingMinute - 1
      /\ Slots("minute") = 0 .. (kTimingHour \div kTimingMinute) - 1
      /\ Slots("hour") = 0 .. (kTimingDay \div kTimingHour) - 1
      /\ Slots("day") = 0 .. MaxDays - 1
  BY DEF Slots
<1> QED BY <1>1, <1>2, WheelFacts DEF Levels

\* Where InsertEntry puts an entry, by its delay.
LEMMA SecondDelay ==
  ASSUME NEW d \in Nat, d < kTimingMinute
  PROVE  /\ Level(d) = "second" /\ SlotOf(d) = d - 1 /\ Rest(d) = Direct /\ ~TooFar(d)
         /\ d > 0 => SlotOf(d) \in Slots("second")
         /\ \A level \in Levels : d = 0 => SlotOf(d) \notin Slots(level)
<1>1. Level(d) = "second" /\ SlotOf(d) = d - 1 /\ Rest(d) = Direct
  BY WheelFacts DEF Level, SlotOf, Rest, SecondSlot
<1>2. d \div kTimingDay < 1
  BY WheelFacts, QuotientFacts
<1>3. d \div kTimingDay \in Nat
  BY WheelFacts, ModDef
<1> QED BY <1>1, <1>2, <1>3, WheelFacts, SlotsFacts DEF TooFar

\* A delay of minutes goes to the minute wheel, and slot and rest make it up again.
LEMMA MinuteDelay ==
  ASSUME NEW d \in Nat, kTimingMinute <= d, d < kTimingHour
  PROVE  /\ Level(d) = "minute" /\ SlotOf(d) \in Slots("minute") /\ ~TooFar(d)
         /\ Rest(d) = d % kTimingMinute /\ Rest(d) \in 0 .. kTimingMinute - 1
         /\ kTimingMinute * (SlotOf(d) + 1) + Rest(d) = d
<1>1. Level(d) = "minute" /\ SlotOf(d) = (d \div kTimingMinute) - 1 /\ Rest(d) = d % kTimingMinute
  BY WheelFacts DEF Level, SlotOf, Rest, Unit
<1>2. d \div kTimingDay < 1 /\ d \div kTimingDay \in Nat
  BY WheelFacts, QuotientFacts, ModDef
<1>3. /\ d \div kTimingMinute \in Nat /\ d % kTimingMinute \in 0 .. kTimingMinute - 1
      /\ d = kTimingMinute * (d \div kTimingMinute) + (d % kTimingMinute)
  BY WheelFacts, ModDef
<1>4. d \div kTimingMinute >= 1
  BY WheelFacts, QuotientFacts
<1>5. /\ kTimingHour \div kTimingMinute \in Nat
      /\ kTimingHour = kTimingMinute * (kTimingHour \div kTimingMinute) + (kTimingHour % kTimingMinute)
  BY WheelFacts, ModDef
<1>6. d \div kTimingMinute < kTimingHour \div kTimingMinute
  BY <1>5, WheelFacts, QuotientFacts
<1>7. SlotOf(d) + 1 = d \div kTimingMinute
  BY <1>1, <1>3
<1>8. SlotOf(d) \in Slots("minute")
  BY <1>1, <1>3, <1>4, <1>5, <1>6, SlotsFacts
<1>9. kTimingMinute * (SlotOf(d) + 1) + Rest(d) = d
  BY <1>1, <1>3, <1>7
<1> QED BY <1>1, <1>2, <1>3, <1>8, <1>9, WheelFacts DEF TooFar

\* A delay of hours or days that InsertEntry takes has a slot in its wheel.
LEMMA CoarseDelay ==
  ASSUME NEW d \in Nat, kTimingHour <= d, ~TooFar(d)
  PROVE  /\ Level(d) \in {"hour", "day"} /\ SlotOf(d) \in Slots(Level(d)) /\ Rest(d) \in Nat
<1>1. CASE d < kTimingDay
  <2>1. Level(d) = "hour" /\ SlotOf(d) = (d \div kTimingHour) - 1 /\ Rest(d) = d % kTimingHour
    BY <1>1, WheelFacts DEF Level, SlotOf, Rest, Unit
  <2>2. d \div kTimingHour \in Nat /\ d % kTimingHour \in 0 .. kTimingHour - 1
    BY WheelFacts, ModDef
  <2>7. d \div kTimingHour >= 1
    BY WheelFacts, QuotientFacts
  <2> DEFINE h == kTimingDay \div kTimingHour
             k == d \div kTimingHour
  <2>3. h \in Nat /\ kTimingDay % kTimingHour \in 0 .. kTimingHour - 1
        /\ kTimingDay = kTimingHour * h + (kTimingDay % kTimingHour)
    BY WheelFacts, ModDef
  <2>4. kTimingHour * (h + 1) = kTimingHour * h + kTimingHour
    BY <2>3, WheelFacts
  <2>5. k < h + 1
    <3> HIDE DEF h
    <3>1. d < kTimingHour * (h + 1) /\ h + 1 \in Nat
      BY <2>3, <2>4, <1>1, WheelFacts
    <3> QED BY <3>1, WheelFacts, QuotientFacts DEF k
  <2>6. k - 1 \in 0 .. h - 1
    BY <2>2, <2>3, <2>5, <2>7
  <2>8. SlotOf(d) \in 0 .. h - 1
    BY <2>1, <2>6
  <2>9. SlotOf(d) \in Slots("hour")
    BY <2>8, SlotsFacts
  <2> HIDE DEF h, k
  <2> QED BY <2>1, <2>2, <2>9
<1>2. CASE ~(d < kTimingDay)
  <2>1. Level(d) = "day" /\ SlotOf(d) = (d \div kTimingDay) - 1 /\ Rest(d) = d % kTimingDay
    BY <1>2, WheelFacts DEF Level, SlotOf, Rest, Unit
  <2>2. d \div kTimingDay \in Nat /\ d % kTimingDay \in 0 .. kTimingDay - 1
    BY WheelFacts, ModDef
  <2>3. d \div kTimingDay >= 1
    BY <1>2, WheelFacts, QuotientFacts
  <2> QED BY <2>1, <2>2, <2>3, WheelFacts, SlotsFacts DEF TooFar
<1> QED BY <1>1, <1>2

-----------------------------------------------------------------------------
(* The wheels: turning them and putting elements in.                       *)

IsWheels(w) ==
  DOMAIN w = Levels /\ \A level \in Levels : w[level] \in [Slots(level) -> SUBSET Element]

\* PopUp moves each slot of one wheel one place forward.
LEMMA RotatedFacts ==
  ASSUME NEW w, IsWheels(w), NEW level \in Levels
  PROVE  /\ IsWheels(Rotated(w, level))
         /\ \A l \in Levels : \A i \in Slots(l) : \A x :
              x \in Rotated(w, level)[l][i] <=>
                IF l = level THEN i + 1 \in Slots(level) /\ x \in w[level][i + 1]
                             ELSE x \in w[l][i]
<1> DEFINE turned == [i \in Slots(level) |-> IF i + 1 \in Slots(level) THEN w[level][i + 1] ELSE {}]
           r == Rotated(w, level)
<1>1. DOMAIN r = Levels /\ \A l \in Levels : r[l] = IF l = level THEN turned ELSE w[l]
  BY DEF Rotated, IsWheels
<1>2. turned \in [Slots(level) -> SUBSET Element]
  BY DEF IsWheels
<1>3. \A i \in Slots(level) : \A x : x \in turned[i] <=> i + 1 \in Slots(level) /\ x \in w[level][i + 1]
  OBVIOUS
<1> HIDE DEF turned, r
<1>4. IsWheels(r)
  BY <1>1, <1>2 DEF IsWheels
<1>5. \A l \in Levels : \A i \in Slots(l) : \A x :
        x \in r[l][i] <=> IF l = level THEN i + 1 \in Slots(level) /\ x \in w[level][i + 1]
                                       ELSE x \in w[l][i]
  BY <1>1, <1>3
<1> QED BY <1>4, <1>5 DEF r

\* The element that InsertEntry(d, e) makes.
ElementOf(e, d) == [entry |-> e, rest |-> Rest(d)]

\* x is put into a slot when the entries of a set are inserted.
PutInto(x, entries, level, i) ==
  \E y \in entries : /\ ~TooFar(y[2]) /\ Level(y[2]) = level /\ SlotOf(y[2]) = i
                     /\ x = ElementOf(y[1], y[2])

\* InsertEntry adds the elements it makes and takes nothing away.
LEMMA InsertedFacts ==
  ASSUME NEW w, IsWheels(w), NEW entries \in SUBSET (Entries \X Nat)
  PROVE  /\ IsWheels(Inserted(w, entries))
         /\ \A l \in Levels : \A i \in Slots(l) : \A x :
              x \in Inserted(w, entries)[l][i] <=> x \in w[l][i] \/ PutInto(x, entries, l, i)
<1> DEFINE new(l, i) == {[entry |-> y[1], rest |-> Rest(y[2])] :
                           y \in {z \in entries : ~TooFar(z[2]) /\ Level(z[2]) = l /\ SlotOf(z[2]) = i}}
           r == Inserted(w, entries)
<1>1. r = [l \in Levels |-> [i \in Slots(l) |-> w[l][i] \cup new(l, i)]]
  BY DEF Inserted
<1>2. \A l \in Levels : \A i \in Slots(l) : \A x : x \in new(l, i) <=> PutInto(x, entries, l, i)
  BY DEF PutInto, ElementOf
<1>3. ASSUME NEW d \in Nat PROVE Rest(d) \in Nat \cup {Direct}
  <2>1. CASE d < kTimingMinute
    BY <2>1, SecondDelay
  <2>2. CASE ~(d < kTimingMinute)
    <3>1. /\ d % kTimingMinute \in Nat /\ d % kTimingHour \in Nat /\ d % kTimingDay \in Nat
      BY WheelFacts, ModDef
    <3>2. Rest(d) = d % Unit(Level(d)) /\ Level(d) \in {"minute", "hour", "day"}
      BY <2>2, WheelFacts DEF Rest, Level
    <3> QED BY <3>1, <3>2 DEF Unit
  <2> QED BY <2>1, <2>2
<1>4. \A l \in Levels : \A i \in Slots(l) : new(l, i) \subseteq Element
  BY <1>3 DEF Element
<1> HIDE DEF new, r
<1>5. \A l \in Levels : \A i \in Slots(l) : r[l][i] = w[l][i] \cup new(l, i)
  BY <1>1
<1>6. \A l \in Levels : \A i \in Slots(l) : r[l][i] \in SUBSET Element
  BY <1>4, <1>5 DEF IsWheels
<1>7. IsWheels(r)
  BY <1>1, <1>6 DEF IsWheels
<1> QED BY <1>2, <1>5, <1>7 DEF r

\* The elements of the wheels have the right type.
LEMMA WheelElement ==
  ASSUME NEW w, IsWheels(w), NEW level \in Levels, NEW i \in Slots(level), NEW x \in w[level][i]
  PROVE  x.entry \in Entries /\ x.rest \in Nat \cup {Direct} /\ x = [entry |-> x.entry, rest |-> x.rest]
BY DEF IsWheels, Element

-----------------------------------------------------------------------------
(* The inductive invariant.                                                *)

Armings == [tick : Nat, delay : Nat, now : Nat]
Firings == [after : Nat, delay : Nat, waited : Nat]

IsArmed(a) == a \in [Entries -> Armings \cup {Never}]

\* The tick at which the minute wheel turned last.
LastMinute(t) == t - (t % kTimingMinute)

\* The tick at which an element of the second wheel fires, or one of the minute wheel
\* will, at tick t and with the minute wheel last turned at tick m.
DueAt(level, i, rest, t, m) ==
  IF level = "second" THEN t + i + 1 ELSE m + kTimingMinute * (i + 1) + rest

\* An element fires by its entry's delay; one that came through the minute wheel up to
\* a minute before.
InTime(arming, d) ==
  /\ d <= arming.tick + arming.delay
  /\ arming.delay >= kTimingMinute => d >= arming.tick + arming.delay - kTimingMinute

\* An element of a wheel references an entry that is armed; it is in the second or the
\* minute wheel in time, and holds what is left of its entry's delay there.
ElementOK(x, level, i, a, t, m) ==
  /\ a[x.entry] # Never
  /\ level = "second" => x.rest = Direct /\ a[x.entry].delay < kTimingHour
  /\ level = "minute" => /\ kTimingMinute <= a[x.entry].delay /\ a[x.entry].delay < kTimingHour
                         /\ x.rest = a[x.entry].delay % kTimingMinute
  /\ level \in {"hour", "day"} => a[x.entry].delay >= kTimingHour
  /\ level \in {"second", "minute"} => InTime(a[x.entry], DueAt(level, i, x.rest, t, m))

ElementsOK(w, a, t, m) ==
  \A level \in Levels : \A i \in Slots(level) : \A x \in w[level][i] : ElementOK(x, level, i, a, t, m)

\* An entry that is armed has an element: for a delay below a minute one that fires
\* when the delay is over, for an hour or more the one that stays where it was put.
HasElement(e, w, a, t) ==
  /\ a[e].delay < kTimingMinute =>
       \E i \in Slots("second") : /\ t + i + 1 = a[e].tick + a[e].delay
                                  /\ [entry |-> e, rest |-> Direct] \in w["second"][i]
  /\ kTimingMinute <= a[e].delay /\ a[e].delay < kTimingHour =>
       \E level \in {"second", "minute"} : \E i \in Slots(level) : \E x \in w[level][i] : x.entry = e
  /\ kTimingHour <= a[e].delay =>
       \E x \in w[Level(a[e].delay)][SlotOf(a[e].delay)] : x.entry = e

\* The entry that was lost when something was put outside the wheels.
Lost(e, a, b) == b /\ a[e].delay < kTimingHour /\ a[e].delay % kTimingMinute = 0

ArmedWait(w, a, t, b) ==
  \A e \in Entries : a[e] # Never => HasElement(e, w, a, t) \/ Lost(e, a, b)

\* When entries were armed, in ticks and by the clock: at tick t, time n, with the
\* last tick at time l.
ArmingOK(e, arming, t, l, n) ==
  /\ arming.tick <= t /\ arming.now <= n /\ ~TooFar(arming.delay)
  /\ e \in Conns => arming.delay = MaxIdle
  /\ arming.tick < t => l - arming.now >= (t - arming.tick - 1) * Second
ArmingsOK(a, t, l, n) == \A e \in Entries : a[e] # Never => ArmingOK(e, a[e], t, l, n)

FiringsOK(f) ==
  /\ f \in [Entries -> Firings \cup {Never}]
  /\ \A e \in Entries : f[e] # Never =>
       /\ f[e].delay < kTimingMinute => f[e].after = f[e].delay
       /\ f[e].delay \in 1 .. kTimingMinute - 1 => f[e].waited >= (f[e].delay - 1) * Second
       /\ kTimingMinute < f[e].delay /\ f[e].delay < kTimingHour =>
            f[e].after \in f[e].delay - kTimingMinute .. f[e].delay

\* A connection that timed out is closed.
TimeoutsClose(f, c) ==
  c \in SUBSET Conns /\ \A e \in Conns : f[e] # Never => e \in c

BreaksOK(a, b) ==
  b \in BOOLEAN /\ (b => \E e \in Entries : a[e] # Never /\ a[e].delay % kTimingMinute = 0)

\* The state of the wheel at tick t, with the minute wheel last turned at tick m, the
\* last tick at time l and the clock at n.
StateOK(w, a, f, c, b, t, m, l, n) ==
  /\ IsWheels(w) /\ IsArmed(a)
  /\ ElementsOK(w, a, t, m)
  /\ ArmedWait(w, a, t, b)
  /\ ArmingsOK(a, t, l, n)
  /\ FiringsOK(f) /\ TimeoutsClose(f, c) /\ BreaksOK(a, b)

WheelInv ==
  /\ now \in Nat /\ last_ts \in Nat /\ tick \in Nat /\ last_ts <= now
  /\ StateOK(wheels, armed, fired, closed, broken, tick, LastMinute(tick), last_ts, now)

-----------------------------------------------------------------------------
(* Arming entries.                                                         *)

Rearmed(a, entries, delay, t, n) ==
  [e \in Entries |-> IF e \in entries THEN [tick |-> t, delay |-> delay[e], now |-> n] ELSE a[e]]

WithDelay(entries, delay) == {<<e, delay[e]>> : e \in entries}

\* Entries are armed and inserted while the minute wheel is at most a minute behind.
LEMMA ArmKeeps ==
  ASSUME NEW w, NEW a, NEW f, NEW c, NEW t \in Nat, NEW m \in Nat, NEW l \in Nat, NEW n \in Nat,
         t - m \in 0 .. kTimingMinute,
         StateOK(w, a, f, c, FALSE, t, m, l, n),
         NEW entries \in SUBSET Entries, NEW delay \in [entries -> Nat],
         \A e \in entries : ~TooFar(delay[e]) /\ (e \in Conns => delay[e] = MaxIdle),
         \A e \in entries :
           a[e] = Never \/ (a[e].delay = delay[e] /\ delay[e] < kTimingMinute),
         NEW w2, NEW a2, NEW b2,
         w2 = Inserted(w, WithDelay(entries, delay)),
         a2 = Rearmed(a, entries, delay, t, n),
         b2 \in BOOLEAN, b2 <=> \E e \in entries : delay[e] = 0
  PROVE  StateOK(w2, a2, f, c, b2, t, m, l, n)
<1>0. /\ IsWheels(w) /\ IsArmed(a) /\ ElementsOK(w, a, t, m) /\ ArmedWait(w, a, t, FALSE)
      /\ ArmingsOK(a, t, l, n) /\ FiringsOK(f) /\ TimeoutsClose(f, c)
  BY DEF StateOK
<1> DEFINE pairs == WithDelay(entries, delay)
<1>1. pairs \in SUBSET (Entries \X Nat)
  BY DEF WithDelay
<1>2. \A x, level, i : PutInto(x, pairs, level, i) <=>
        \E e \in entries : /\ Level(delay[e]) = level /\ SlotOf(delay[e]) = i
                           /\ x = ElementOf(e, delay[e])
  <2>1. \A y : y \in pairs <=> \E e \in entries : y = <<e, delay[e]>>
    BY DEF WithDelay
  <2>2. \A e \in entries : <<e, delay[e]>>[1] = e /\ <<e, delay[e]>>[2] = delay[e]
    OBVIOUS
  <2>3. SUFFICES ASSUME NEW x, NEW level, NEW i
        PROVE  PutInto(x, pairs, level, i) <=>
                 \E e \in entries : /\ Level(delay[e]) = level /\ SlotOf(delay[e]) = i
                                    /\ x = ElementOf(e, delay[e])
    OBVIOUS
  <2> HIDE DEF pairs
  <2>4. ASSUME PutInto(x, pairs, level, i)
        PROVE  \E e \in entries : /\ Level(delay[e]) = level /\ SlotOf(delay[e]) = i
                                  /\ x = ElementOf(e, delay[e])
    <3>1. PICK y \in pairs : /\ Level(y[2]) = level /\ SlotOf(y[2]) = i
                             /\ x = ElementOf(y[1], y[2])
      BY <2>4 DEF PutInto
    <3>2. PICK e \in entries : y = <<e, delay[e]>>
      BY <2>1
    <3> QED BY <3>1, <3>2, <2>2
  <2>5. ASSUME NEW e \in entries, Level(delay[e]) = level, SlotOf(delay[e]) = i, x = ElementOf(e, delay[e])
        PROVE  PutInto(x, pairs, level, i)
    <3>1. PICK y : y = <<e, delay[e]>>
      OBVIOUS
    <3>2. y \in pairs /\ y[1] = e /\ y[2] = delay[e]
      BY <2>1, <2>2, <3>1
    <3> QED BY <2>5, <3>2 DEF PutInto
  <2> QED BY <2>4, <2>5
<1> HIDE DEF pairs
<1>3. /\ IsWheels(w2)
      /\ \A level \in Levels : \A i \in Slots(level) : \A x :
           x \in w2[level][i] <=>
             \/ x \in w[level][i]
             \/ \E e \in entries : /\ Level(delay[e]) = level /\ SlotOf(delay[e]) = i
                                   /\ x = ElementOf(e, delay[e])
  <2>1. w2 = Inserted(w, pairs)
    BY DEF pairs
  <2>2. /\ IsWheels(Inserted(w, pairs))
        /\ \A level \in Levels : \A i \in Slots(level) : \A x :
             x \in Inserted(w, pairs)[level][i] <=> x \in w[level][i] \/ PutInto(x, pairs, level, i)
    BY <1>0, <1>1, InsertedFacts
  <2> QED BY <1>2, <2>1, <2>2
<1>4. \A e \in Entries :
        a2[e] = IF e \in entries THEN [tick |-> t, delay |-> delay[e], now |-> n] ELSE a[e]
  BY DEF Rearmed
<1>5. IsArmed(a2)
  BY <1>0 DEF IsArmed, Rearmed, Armings
<1>6. \A e \in entries : a2[e] # Never /\ a2[e].tick = t /\ a2[e].delay = delay[e] /\ a2[e].now = n
  <2>1. \A e \in entries : [tick |-> t, delay |-> delay[e], now |-> n] \in [tick : Nat, delay : Nat, now : Nat]
    OBVIOUS
  <2> SUFFICES ASSUME NEW e \in entries
               PROVE  a2[e] # Never /\ a2[e].tick = t /\ a2[e].delay = delay[e] /\ a2[e].now = n
    OBVIOUS
  <2>2. a2[e] = [tick |-> t, delay |-> delay[e], now |-> n]
    BY <1>4
  <2>3. a2[e] # Never
    BY <2>1, <2>2, WheelFacts
  <2> QED BY <2>2, <2>3
<1>7. \A e \in Entries : a[e] # Never =>
        a[e].tick \in Nat /\ a[e].delay \in Nat /\ a[e].now \in Nat
  BY <1>0 DEF IsArmed, Armings
<1>8. ASSUME NEW level \in Levels, NEW i \in Slots(level), NEW x \in w[level][i]
      PROVE  ElementOK(x, level, i, a2, t, m)
  <2>1. ElementOK(x, level, i, a, t, m) /\ x.entry \in Entries /\ x.rest \in Nat \cup {Direct}
    BY <1>0, <1>8, WheelElement DEF ElementsOK
  <2>2. CASE x.entry \notin entries
    <3>1. a2[x.entry] = a[x.entry]
      BY <2>1, <2>2, <1>4
    <3> QED BY <3>1, <2>1 DEF ElementOK
  <2>3. CASE x.entry \in entries
    <3>1. /\ a[x.entry] # Never /\ a[x.entry].delay = delay[x.entry] /\ delay[x.entry] < kTimingMinute
          /\ a[x.entry].tick <= t /\ a[x.entry].tick \in Nat /\ delay[x.entry] \in Nat
      BY <1>0, <2>1, <2>3, <1>7 DEF ElementOK, ArmingsOK, ArmingOK
    <3>2. level = "second"
      BY <2>1, <3>1, WheelFacts DEF ElementOK, Levels
    <3>3. i \in Nat
      BY SlotsFacts
    <3>4. InTime(a2[x.entry], DueAt(level, i, x.rest, t, m))
      BY <2>1, <2>3, <3>1, <3>2, <3>3, <1>6, WheelFacts DEF ElementOK, InTime, DueAt
    <3> QED BY <2>1, <2>3, <3>1, <3>2, <3>4, <1>6, WheelFacts DEF ElementOK
  <2> QED BY <2>2, <2>3
<1>9. ASSUME NEW e \in entries, NEW level \in Levels, NEW i \in Slots(level),
             Level(delay[e]) = level, SlotOf(delay[e]) = i
      PROVE  ElementOK(ElementOf(e, delay[e]), level, i, a2, t, m)
  <2> DEFINE d == delay[e]
             x == ElementOf(e, d)
  <2>1. x.entry = e /\ x.rest = Rest(d) /\ d \in Nat /\ ~TooFar(d)
    BY DEF ElementOf
  <2>2. a2[e] # Never /\ a2[e].tick = t /\ a2[e].delay = d
    BY <1>6
  <2> HIDE DEF x, d
  <2>3. CASE d < kTimingMinute
    <3>1. level = "second" /\ i = d - 1 /\ Rest(d) = Direct
      BY <1>9, <2>1, <2>3, SecondDelay DEF d
    <3>2. InTime(a2[e], DueAt(level, i, Rest(d), t, m))
      BY <2>1, <2>2, <2>3, <3>1, WheelFacts DEF InTime, DueAt
    <3> QED BY <2>1, <2>2, <2>3, <3>1, <3>2, WheelFacts DEF ElementOK, x, d
  <2>4. CASE kTimingMinute <= d /\ d < kTimingHour
    <3>1. /\ level = "minute" /\ Rest(d) = d % kTimingMinute
          /\ kTimingMinute * (i + 1) + Rest(d) = d
      BY <1>9, <2>1, <2>4, MinuteDelay DEF d
    <3>2. DueAt(level, i, Rest(d), t, m) = m + (kTimingMinute * (i + 1) + Rest(d))
      <4> DEFINE q == kTimingMinute * (i + 1)
      <4>1. q \in Int /\ Rest(d) \in Int
        BY SMTT(30), <2>1, <2>4, WheelFacts, SlotsFacts, MinuteDelay
      <4>2. DueAt(level, i, Rest(d), t, m) = m + q + Rest(d)
        BY <3>1 DEF DueAt
      <4> HIDE DEF q
      <4>3. DueAt(level, i, Rest(d), t, m) = m + (q + Rest(d))
        BY <4>1, <4>2
      <4> QED BY <4>3 DEF q
    <3>3. InTime(a2[e], DueAt(level, i, Rest(d), t, m))
      BY <2>1, <2>2, <3>1, <3>2, WheelFacts DEF InTime
    <3> QED BY <2>1, <2>2, <2>4, <3>1, <3>3 DEF ElementOK, x, d
  <2>5. CASE kTimingHour <= d
    <3>1. level \in {"hour", "day"}
      BY <1>9, <2>1, <2>5, CoarseDelay DEF d
    <3> QED BY <2>1, <2>2, <2>5, <3>1 DEF ElementOK, x, d
  <2> QED BY <2>1, <2>3, <2>4, <2>5, WheelFacts
<1>10. ElementsOK(w2, a2, t, m)
  BY <1>3, <1>8, <1>9 DEF ElementsOK
<1>11. ASSUME NEW e \in Entries, e \notin entries, a2[e] # Never
       PROVE  HasElement(e, w2, a2, t)
  <2>1. a2[e] = a[e] /\ HasElement(e, w, a, t) /\ ~TooFar(a[e].delay) /\ a[e].delay \in Nat
    BY <1>0, <1>4, <1>7, <1>11 DEF ArmedWait, Lost, ArmingsOK, ArmingOK
  <2>2. a[e].delay >= kTimingHour => Level(a[e].delay) \in Levels /\ SlotOf(a[e].delay) \in Slots(Level(a[e].delay))
    BY <2>1, CoarseDelay DEF Levels
  <2>3. "second" \in Levels /\ "minute" \in Levels
    BY DEF Levels
  <2> QED BY <2>1, <2>2, <2>3, <1>3 DEF HasElement
<1>12. ASSUME NEW e \in entries
       PROVE  HasElement(e, w2, a2, t) \/ Lost(e, a2, b2)
  <2> DEFINE d == delay[e]
  <2>1. a2[e] # Never /\ a2[e].tick = t /\ a2[e].delay = d /\ d \in Nat /\ ~TooFar(d)
    BY <1>6
  <2>2. ASSUME Level(d) \in Levels, SlotOf(d) \in Slots(Level(d))
        PROVE  ElementOf(e, d) \in w2[Level(d)][SlotOf(d)]
    BY <1>3, <2>2
  <2> HIDE DEF d
  <2>3. "second" \in Levels /\ "minute" \in Levels /\ "hour" \in Levels /\ "day" \in Levels
    BY DEF Levels
  <2>4. CASE d = 0
    <3>1. b2 /\ 0 % kTimingMinute = 0
      BY <2>4, WheelFacts DEF d
    <3> QED BY <3>1, <2>1, <2>4, WheelFacts DEF Lost
  <2>5. CASE 0 < d /\ d < kTimingMinute
    <3>1. [entry |-> e, rest |-> Direct] \in w2["second"][d - 1] /\ d - 1 \in Slots("second")
      BY <2>1, <2>2, <2>3, <2>5, SecondDelay DEF ElementOf
    <3>2. t + (d - 1) + 1 = a2[e].tick + a2[e].delay
      BY <2>1
    <3> QED BY <3>1, <3>2, <2>1, <2>5, WheelFacts DEF HasElement
  <2>6. CASE kTimingMinute <= d /\ d < kTimingHour
    <3>1. ElementOf(e, d) \in w2["minute"][SlotOf(d)] /\ SlotOf(d) \in Slots("minute")
      BY <2>1, <2>2, <2>3, <2>6, MinuteDelay
    <3>2. ElementOf(e, d).entry = e
      BY DEF ElementOf
    <3> QED BY <3>1, <3>2, <2>1, <2>6, WheelFacts DEF HasElement
  <2>7. CASE kTimingHour <= d
    <3>1. ElementOf(e, d) \in w2[Level(d)][SlotOf(d)]
      BY <2>1, <2>2, <2>3, <2>7, CoarseDelay
    <3>2. ElementOf(e, d).entry = e
      BY DEF ElementOf
    <3> QED BY <3>1, <3>2, <2>1, <2>7, WheelFacts DEF HasElement
  <2> QED BY <2>1, <2>4, <2>5, <2>6, <2>7, WheelFacts
<1>13. ArmedWait(w2, a2, t, b2)
  BY <1>11, <1>12 DEF ArmedWait
<1>14. ArmingsOK(a2, t, l, n)
  <2> SUFFICES ASSUME NEW e \in Entries, a2[e] # Never
               PROVE  ArmingOK(e, a2[e], t, l, n)
    BY DEF ArmingsOK
  <2>1. CASE e \in entries
    BY <1>6, <2>1 DEF ArmingOK
  <2>2. CASE e \notin entries
    <3>1. a2[e] = a[e]
      BY <1>4, <2>2
    <3> QED BY <1>0, <3>1 DEF ArmingsOK, ArmingOK
  <2> QED BY <2>1, <2>2
<1>15. BreaksOK(a2, b2)
  <2>1. 0 % kTimingMinute = 0
    BY WheelFacts
  <2> QED BY <2>1, <1>6 DEF BreaksOK
<1> QED BY <1>0, <1>3, <1>5, <1>10, <1>13, <1>14, <1>15 DEF StateOK

-----------------------------------------------------------------------------
(* A tick: the second wheel turns and what is not held elsewhere fires.    *)

\* One tick more is one second more.
LEMMA OneMore ==
  ASSUME NEW k \in Int, NEW S \in Int
  PROVE  (k + 1) * S = k * S + S
OBVIOUS

\* The state after entries have fired, before those of RunEvery are armed again.
Unarmed(a, due) == [e \in Entries |-> IF e \in due THEN Never ELSE a[e]]
FiringOf(e, f, a, due, t, n) ==
  IF e \notin due THEN f[e]
  ELSE [after |-> t - a[e].tick, delay |-> a[e].delay, waited |-> n - a[e].now]
WithFired(f, a, due, t, n) == [e \in Entries |-> FiringOf(e, f, a, due, t, n)]

\* v are the wheels w after the second wheel has turned.
IsTurned(v, w) ==
  /\ IsWheels(v)
  /\ \A level \in Levels : \A i \in Slots(level) : \A x :
       x \in v[level][i] <=>
         IF level = "second" THEN i + 1 \in Slots(level) /\ x \in w[level][i + 1]
                             ELSE x \in w[level][i]

\* The entries whose last reference was in the front slot.
AreDue(due, v, w) ==
  \A e : e \in due <=> (\E x \in w["second"][0] : x.entry = e) /\ ~Referenced(v, e)

\* The second wheel turns: what fires is due at this tick, and what stays is a slot nearer.
LEMMA SecondsTurn ==
  ASSUME NEW w, NEW a, NEW f, NEW c, NEW t \in Nat, NEW m \in Nat, NEW l \in Nat, NEW n \in Nat,
         t - m \in 0 .. kTimingMinute - 1, n - l >= Second,
         StateOK(w, a, f, c, FALSE, t, m, l, n),
         NEW w1, IsTurned(w1, w), NEW due, AreDue(due, w1, w)
  PROVE  /\ StateOK(w1, Unarmed(a, due), WithFired(f, a, due, t + 1, n), c \cup (due \cap Conns), FALSE, t + 1, m, n, n)
         /\ due \in SUBSET Entries
         /\ \A e \in due : a[e] # Never /\ a[e].delay \in Nat \ {0} /\ ~TooFar(a[e].delay)
<1> USE DEF IsTurned, AreDue
<1>20. PICK a1, f1 : a1 = Unarmed(a, due) /\ f1 = WithFired(f, a, due, t + 1, n)
  OBVIOUS
<1>0. /\ IsWheels(w) /\ IsArmed(a) /\ ElementsOK(w, a, t, m) /\ ArmedWait(w, a, t, FALSE)
      /\ ArmingsOK(a, t, l, n) /\ FiringsOK(f) /\ TimeoutsClose(f, c)
  BY DEF StateOK
<1>1. /\ "second" \in Levels /\ "minute" \in Levels
      /\ \A level \in Levels : Slots(level) \subseteq Nat
      /\ 0 \in Slots("second")
      /\ \A i \in Slots("second") : i > 0 => i - 1 \in Slots("second")
  BY SlotsFacts, WheelFacts DEF Levels
<1>2. \A e \in Entries : a[e] # Never =>
        a[e].tick \in Nat /\ a[e].delay \in Nat /\ a[e].now \in Nat
  BY <1>0 DEF IsArmed, Armings
<1>3. \A e \in due : e \in Entries /\ a[e] # Never
  BY <1>0, <1>1, WheelElement DEF ElementsOK, ElementOK
<1>4. \A e \in Entries : a1[e] = IF e \in due THEN Never ELSE a[e]
  BY <1>20 DEF Unarmed
<1>5. IsArmed(a1)
  BY <1>0, <1>20 DEF IsArmed, Unarmed
\* What is still in the wheels keeps its time.
<1>6. ASSUME NEW level \in Levels, NEW i \in Slots(level), NEW x \in w1[level][i]
      PROVE  ElementOK(x, level, i, a1, t + 1, m)
  <2>1. x.entry \notin due /\ x.entry \in Entries
    BY <1>6, WheelElement DEF Referenced
  <2>2. a1[x.entry] = a[x.entry]
    BY <2>1, <1>4
  <2>3. CASE level = "second"
    <3>1. i + 1 \in Slots(level) /\ x \in w[level][i + 1] /\ i \in Nat
      BY <1>1, <1>6, <2>3
    <3>2. ElementOK(x, level, i + 1, a, t, m)
      BY <3>1, <1>0 DEF ElementsOK
    <3>3. DueAt(level, i + 1, x.rest, t, m) = DueAt(level, i, x.rest, t + 1, m)
      BY <2>3, <3>1 DEF DueAt
    <3> QED BY <3>2, <3>3, <2>2 DEF ElementOK
  <2>4. CASE level # "second"
    <3>1. ElementOK(x, level, i, a, t, m)
      BY <1>0, <1>6, <2>4 DEF ElementsOK
    <3>2. DueAt(level, i, x.rest, t, m) = DueAt(level, i, x.rest, t + 1, m)
      BY <2>4 DEF DueAt
    <3> QED BY <3>1, <3>2, <2>2 DEF ElementOK
  <2> QED BY <2>3, <2>4
<1>7. ElementsOK(w1, a1, t + 1, m)
  BY <1>6 DEF ElementsOK
\* An entry with less than a minute's delay that is in the front slot and not due has
\* no element left to fire later than this one.
<1>8. ASSUME NEW e \in Entries, a1[e] # Never
      PROVE  HasElement(e, w1, a1, t + 1)
  <2>1. e \notin due /\ a1[e] = a[e] /\ a[e] # Never
    BY <1>4, <1>8
  <2>2. HasElement(e, w, a, t) /\ ~TooFar(a[e].delay) /\ a[e].delay \in Nat /\ a[e].tick \in Nat
    BY <1>0, <1>2, <2>1 DEF ArmedWait, Lost, ArmingsOK, ArmingOK
  <2>3. ASSUME a[e].delay < kTimingMinute
        PROVE  \E i \in Slots("second") : /\ t + 1 + i + 1 = a[e].tick + a[e].delay
                                          /\ [entry |-> e, rest |-> Direct] \in w1["second"][i]
    <3>1. PICK i \in Slots("second") : /\ t + i + 1 = a[e].tick + a[e].delay
                                       /\ [entry |-> e, rest |-> Direct] \in w["second"][i]
      BY <2>2, <2>3 DEF HasElement
    <3>2. CASE i = 0
      <4>1. Referenced(w1, e)
        BY <2>1, <3>1, <3>2
      <4>2. PICK level \in Levels : \E j \in Slots(level) : \E x \in w1[level][j] : x.entry = e
        BY <4>1 DEF Referenced
      <4>7. PICK j \in Slots(level) : \E x \in w1[level][j] : x.entry = e
        BY <4>2
      <4>3. PICK x \in w1[level][j] : x.entry = e
        BY <4>7
      <4>4. ElementOK(x, level, j, a1, t + 1, m) /\ j \in Nat
        BY <1>1, <1>6, <4>3
      <4>5. level = "second"
        BY <4>3, <4>4, <2>1, <2>2, <2>3, WheelFacts DEF ElementOK, Levels
      <4>6. t + 1 + j + 1 <= a[e].tick + a[e].delay
        BY <4>3, <4>4, <4>5, <2>1 DEF ElementOK, InTime, DueAt
      <4> QED BY <4>4, <4>6, <3>1, <3>2, <2>2
    <3>3. CASE i > 0
      <4>1. i \in Nat /\ i - 1 \in Slots("second") /\ (i - 1) + 1 = i
        BY <3>3, <1>1
      <4>2. [entry |-> e, rest |-> Direct] \in w1["second"][i - 1]
        BY <4>1, <3>1, <1>1
      <4>3. t + 1 + (i - 1) + 1 = a[e].tick + a[e].delay
        BY <4>1, <3>1
      <4> QED BY <4>1, <4>2, <4>3
    <3> QED BY <3>2, <3>3, <1>1
  <2>4. ASSUME kTimingMinute <= a[e].delay, a[e].delay < kTimingHour
        PROVE  \E level \in {"second", "minute"} : \E i \in Slots(level) :
                 \E x \in w1[level][i] : x.entry = e
    <3>1. PICK level \in {"second", "minute"} : \E i \in Slots(level) : \E x \in w[level][i] : x.entry = e
      BY <2>2, <2>4 DEF HasElement
    <3>6. PICK i \in Slots(level) : \E x \in w[level][i] : x.entry = e
      BY <3>1
    <3>2. PICK x \in w[level][i] : x.entry = e
      BY <3>6
    <3>3. CASE level = "minute"
      BY <3>2, <3>3, <1>1
    <3>4. CASE level = "second" /\ i > 0
      <4>1. i - 1 \in Slots("second") /\ (i - 1) + 1 = i
        BY <3>4, <1>1
      <4>2. x \in w1["second"][i - 1]
        BY <4>1, <3>2, <3>4, <1>1
      <4> QED BY <4>1, <4>2, <3>2
    <3>5. CASE level = "second" /\ i = 0
      <4>1. Referenced(w1, e)
        BY <2>1, <3>2, <3>5
      <4>2. PICK k \in Levels : \E j \in Slots(k) : \E y \in w1[k][j] : y.entry = e
        BY <4>1 DEF Referenced
      <4>6. PICK j \in Slots(k) : \E y \in w1[k][j] : y.entry = e
        BY <4>2
      <4>3. PICK y \in w1[k][j] : y.entry = e
        BY <4>6
      <4>4. ElementOK(y, k, j, a1, t + 1, m)
        BY <1>6, <4>3
      <4>5. k \in {"second", "minute"}
        BY <4>3, <4>4, <2>1, <2>2, <2>4, WheelFacts DEF ElementOK, Levels
      <4> QED BY <4>3, <4>5
    <3> QED BY <3>3, <3>4, <3>5, <1>1
  <2>5. ASSUME kTimingHour <= a[e].delay
        PROVE  \E x \in w1[Level(a[e].delay)][SlotOf(a[e].delay)] : x.entry = e
    <3>1. /\ Level(a[e].delay) \in Levels /\ Level(a[e].delay) # "second"
          /\ SlotOf(a[e].delay) \in Slots(Level(a[e].delay))
      BY <2>2, <2>5, CoarseDelay DEF Levels
    <3> QED BY <3>1, <2>2, <2>5 DEF HasElement
  <2> QED BY <2>1, <2>3, <2>4, <2>5 DEF HasElement
<1>9. ArmedWait(w1, a1, t + 1, FALSE)
  BY <1>8 DEF ArmedWait
\* By the clock: one tick more is at least a second more.
<1>10. ASSUME NEW e \in Entries, a[e] # Never
       PROVE  n - a[e].now >= (t - a[e].tick) * Second
  <2>1. /\ a[e].tick \in Nat /\ a[e].now \in Nat /\ a[e].tick <= t /\ a[e].now <= n
        /\ a[e].tick < t => l - a[e].now >= (t - a[e].tick - 1) * Second
    BY <1>0, <1>2, <1>10 DEF ArmingsOK, ArmingOK
  <2>2. CASE a[e].tick = t
    BY <2>1, <2>2, WheelFacts
  <2>3. CASE a[e].tick < t
    <3> DEFINE k == t - a[e].tick - 1
    <3>1. k \in Int /\ (k + 1) * Second = k * Second + Second /\ k + 1 = t - a[e].tick
      BY <2>1, OneMore, WheelFacts
    <3>2. k * Second \in Int /\ Second \in Int
      BY <3>1, WheelFacts
    <3> HIDE DEF k
    <3>3. l - a[e].now >= k * Second
      BY <2>1, <2>3 DEF k
    <3>4. n - a[e].now >= k * Second + Second
      BY <3>2, <3>3, <2>1
    <3> QED BY <3>1, <3>4
  <2>4. a[e].tick = t \/ a[e].tick < t
    BY <2>1
  <2> QED BY <2>2, <2>3, <2>4, Zenon
<1>11. ArmingsOK(a1, t + 1, n, n)
  <2> SUFFICES ASSUME NEW e \in Entries, a1[e] # Never
               PROVE  ArmingOK(e, a1[e], t + 1, n, n)
    BY DEF ArmingsOK
  <2>1. a1[e] = a[e] /\ a[e] # Never
    BY <1>4
  <2>2. a[e].tick \in Nat /\ (t + 1) - a[e].tick - 1 = t - a[e].tick
    BY <1>2, <2>1
  <2> QED BY <1>0, <1>10, <2>1, <2>2 DEF ArmingsOK, ArmingOK
\* What fires, fires in time.
<1>12. ASSUME NEW e \in due
       PROVE  /\ a[e].delay < kTimingHour /\ a[e].delay > 0 /\ t + 1 <= a[e].tick + a[e].delay
              /\ a[e].delay < kTimingMinute => t + 1 = a[e].tick + a[e].delay
              /\ a[e].delay >= kTimingMinute => t + 1 >= a[e].tick + a[e].delay - kTimingMinute
  <2>1. PICK x \in w["second"][0] : x.entry = e
    OBVIOUS
  <2>2. ElementOK(x, "second", 0, a, t, m) /\ e \in Entries
    BY <2>1, <1>0, <1>1, <1>3 DEF ElementsOK
  <2>3. a[e].tick \in Nat /\ a[e].delay \in Nat /\ a[e] # Never /\ a[e].tick <= t
    BY <1>0, <1>2, <1>3 DEF ArmingsOK, ArmingOK
  <2>4. /\ a[e].delay < kTimingHour /\ t + 1 <= a[e].tick + a[e].delay
        /\ a[e].delay >= kTimingMinute => t + 1 >= a[e].tick + a[e].delay - kTimingMinute
    BY <2>1, <2>2, <2>3, <1>1, WheelFacts DEF ElementOK, InTime, DueAt
  <2>5. ASSUME a[e].delay < kTimingMinute PROVE t + 1 = a[e].tick + a[e].delay
    <3>1. HasElement(e, w, a, t)
      BY <1>0, <2>2, <2>3 DEF ArmedWait, Lost
    <3>2. PICK i \in Slots("second") : /\ t + i + 1 = a[e].tick + a[e].delay
                                       /\ [entry |-> e, rest |-> Direct] \in w["second"][i]
      BY <3>1, <2>5 DEF HasElement
    <3>3. ASSUME i > 0 PROVE FALSE
      <4>1. i \in Nat /\ i - 1 \in Slots("second") /\ (i - 1) + 1 = i
        BY <3>3, <1>1
      <4>2. [entry |-> e, rest |-> Direct] \in w1["second"][i - 1]
        BY <4>1, <3>2, <1>1
      <4>3. Referenced(w1, e)
        BY <4>1, <4>2, <1>1 DEF Referenced
      <4> QED BY <4>3
    <3> QED BY <3>2, <3>3, <1>1, <2>3
  <2> QED BY <2>3, <2>4, <2>5, WheelFacts
<1>13. \A e \in Entries :
         /\ e \notin due => f1[e] = f[e]
         /\ e \in due => f1[e] = [after |-> (t + 1) - a[e].tick, delay |-> a[e].delay,
                                  waited |-> n - a[e].now]
  <2>1. \A e \in Entries : f1[e] = FiringOf(e, f, a, due, t + 1, n)
    BY <1>20 DEF WithFired
  <2> SUFFICES ASSUME NEW e \in Entries
               PROVE  /\ e \notin due => f1[e] = f[e]
                      /\ e \in due => f1[e] = [after |-> (t + 1) - a[e].tick, delay |-> a[e].delay,
                                               waited |-> n - a[e].now]
    OBVIOUS
  <2>2. f1[e] = FiringOf(e, f, a, due, t + 1, n)
    BY <2>1
  <2>3. ASSUME e \notin due PROVE f1[e] = f[e]
    BY <2>2, <2>3 DEF FiringOf
  <2>4. ASSUME e \in due
        PROVE  f1[e] = [after |-> (t + 1) - a[e].tick, delay |-> a[e].delay, waited |-> n - a[e].now]
    BY <2>2, <2>4, Zenon DEF FiringOf
  <2> QED BY <2>3, <2>4
<1>14. ASSUME NEW e \in due
       PROVE  /\ f1[e] \in Firings
              /\ f1[e].delay < kTimingMinute => f1[e].after = f1[e].delay
              /\ f1[e].delay \in 1 .. kTimingMinute - 1 => f1[e].waited >= (f1[e].delay - 1) * Second
              /\ kTimingMinute < f1[e].delay /\ f1[e].delay < kTimingHour =>
                   f1[e].after \in f1[e].delay - kTimingMinute .. f1[e].delay
  <2>1. /\ e \in Entries /\ a[e] # Never
        /\ a[e].tick \in Nat /\ a[e].delay \in Nat /\ a[e].now \in Nat /\ a[e].tick <= t /\ a[e].now <= n
    BY <1>0, <1>2, <1>3 DEF ArmingsOK, ArmingOK
  <2>2. f1[e] = [after |-> (t + 1) - a[e].tick, delay |-> a[e].delay, waited |-> n - a[e].now]
    BY <1>13, <2>1
  <2>3. n - a[e].now >= (t - a[e].tick) * Second
    BY <1>10, <2>1
  <2>4. f1[e].after = (t + 1) - a[e].tick /\ f1[e].delay = a[e].delay /\ f1[e].waited = n - a[e].now
    BY <2>2
  <2>5. f1[e] \in Firings
    BY <2>1, <2>2 DEF Firings
  <2>6. a[e].delay < kTimingMinute => t - a[e].tick = a[e].delay - 1
    BY <1>12, <2>1
  <2>7. a[e].delay < kTimingMinute => f1[e].waited >= (f1[e].delay - 1) * Second
    BY <2>3, <2>4, <2>6
  <2> QED BY <1>12, <2>1, <2>4, <2>5, <2>7, WheelFacts
<1>15. FiringsOK(f1)
  <2>1. f1 \in [Entries -> Firings \cup {Never}]
    <3>1. \A e \in Entries : f1[e] \in Firings \cup {Never}
      BY <1>0, <1>13, <1>14 DEF FiringsOK
    <3> QED BY <1>20, <3>1 DEF WithFired
  <2>2. \A e \in Entries : e \notin due => f1[e] = f[e]
    BY <1>13
  <2> QED BY <1>0, <1>14, <2>1, <2>2 DEF FiringsOK
<1>16. TimeoutsClose(f1, c \cup (due \cap Conns))
  <2>1. \A e \in Conns : e \in Entries
    BY DEF Entries
  <2> QED BY <1>0, <1>13, <2>1 DEF TimeoutsClose
<1>17. BreaksOK(a1, FALSE)
  BY DEF BreaksOK
<1>18. StateOK(w1, a1, f1, c \cup (due \cap Conns), FALSE, t + 1, m, n, n)
  BY <1>5, <1>7, <1>9, <1>11, <1>15, <1>16, <1>17 DEF StateOK
<1>19. \A e \in due : a[e] # Never /\ a[e].delay \in Nat \ {0} /\ ~TooFar(a[e].delay)
  BY <1>0, <1>2, <1>3, <1>12 DEF ArmingsOK, ArmingOK
<1> QED BY <1>3, <1>18, <1>19, <1>20

-----------------------------------------------------------------------------
(* Every minute: the minute wheel turns and its entries go to the second.  *)

\* What the wrappers of a slot insert again, with the rest of their entries' delays.
Unwrapped(popped) == {<<x.entry, x.rest>> : x \in popped}

\* The minute wheel turns: its front slot's entries go to the second wheel and fire
\* when they were to, unless nothing is left of their delay.
LEMMA MinutesTurn ==
  ASSUME NEW w, NEW a, NEW f, NEW c, NEW m \in Nat, NEW l \in Nat, NEW n \in Nat,
         NEW t, t = m + kTimingMinute,
         StateOK(w, a, f, c, FALSE, t, m, l, n),
         NEW w1, w1 = Inserted(Rotated(w, "minute"), Unwrapped(w["minute"][0])),
         NEW b1, b1 \in BOOLEAN, b1 <=> \E x \in w["minute"][0] : x.rest = 0
  PROVE  StateOK(w1, a, f, c, b1, t, t, l, n)
<1>0. /\ IsWheels(w) /\ IsArmed(a) /\ ElementsOK(w, a, t, m) /\ ArmedWait(w, a, t, FALSE)
      /\ ArmingsOK(a, t, l, n) /\ FiringsOK(f) /\ TimeoutsClose(f, c)
  BY DEF StateOK
<1>1. /\ "second" \in Levels /\ "minute" \in Levels
      /\ \A level \in Levels : Slots(level) \subseteq Nat
      /\ 0 \in Slots("minute")
      /\ \A i \in Slots("minute") : i > 0 => i - 1 \in Slots("minute")
      /\ t \in Nat
  BY SlotsFacts, WheelFacts DEF Levels
<1>2. \A e \in Entries : a[e] # Never =>
        a[e].tick \in Nat /\ a[e].delay \in Nat /\ a[e].now \in Nat
  BY <1>0 DEF IsArmed, Armings
<1> DEFINE popped == w["minute"][0]
           again == Unwrapped(popped)
\* A wrapper of the minute wheel holds less than a minute.
<1>3. ASSUME NEW i \in Slots("minute"), NEW x \in w["minute"][i]
      PROVE  /\ ElementOK(x, "minute", i, a, t, m)
             /\ x.entry \in Entries /\ a[x.entry] # Never
             /\ a[x.entry].delay \in Nat /\ a[x.entry].tick \in Nat
             /\ x.rest \in Nat /\ x.rest < kTimingMinute /\ x.rest = a[x.entry].delay % kTimingMinute
  <2>1. ElementOK(x, "minute", i, a, t, m) /\ x.entry \in Entries
    BY <1>0, <1>1, WheelElement DEF ElementsOK
  <2>2. /\ a[x.entry] # Never /\ x.rest = a[x.entry].delay % kTimingMinute
        /\ a[x.entry].delay \in Nat /\ a[x.entry].tick \in Nat
    BY <2>1, <1>2 DEF ElementOK
  <2>3. a[x.entry].delay % kTimingMinute \in 0 .. kTimingMinute - 1
    BY <2>2, WheelFacts, ModDef
  <2> QED BY <2>1, <2>2, <2>3, WheelFacts
<1>4. \A y : y \in again <=> \E x \in popped : y = <<x.entry, x.rest>>
  BY DEF Unwrapped
<1>5. again \in SUBSET (Entries \X Nat)
  <2> SUFFICES ASSUME NEW y \in again PROVE y \in Entries \X Nat
    OBVIOUS
  <2>1. PICK x \in popped : y = <<x.entry, x.rest>>
    BY <1>4
  <2>2. x.entry \in Entries /\ x.rest \in Nat
    BY <1>1, <1>3
  <2> QED BY <2>1, <2>2
<1>6. /\ IsWheels(Rotated(w, "minute"))
      /\ \A level \in Levels : \A i \in Slots(level) : \A x :
           x \in Rotated(w, "minute")[level][i] <=>
             IF level = "minute" THEN i + 1 \in Slots("minute") /\ x \in w["minute"][i + 1]
                                 ELSE x \in w[level][i]
  BY <1>0, <1>1, RotatedFacts
<1>7. /\ IsWheels(w1)
      /\ \A level \in Levels : \A i \in Slots(level) : \A x :
           x \in w1[level][i] <=>
             x \in Rotated(w, "minute")[level][i] \/ PutInto(x, again, level, i)
  <2>1. PICK r : r = Rotated(w, "minute")
    OBVIOUS
  <2>2. w1 = Inserted(r, again)
    BY <2>1
  <2> HIDE DEF again
  <2>3. /\ IsWheels(Inserted(r, again))
        /\ \A level \in Levels : \A i \in Slots(level) : \A x :
             x \in Inserted(r, again)[level][i] <=> x \in r[level][i] \/ PutInto(x, again, level, i)
    BY <1>5, <1>6, <2>1, InsertedFacts
  <2> QED BY <2>1, <2>2, <2>3
\* What is put back goes into the second wheel, to fire when it was to.
<1>8. ASSUME NEW x \in popped, x.rest > 0
      PROVE  /\ [entry |-> x.entry, rest |-> Direct] \in w1["second"][x.rest - 1]
             /\ x.rest - 1 \in Slots("second")
  <2>1. PICK y : y = <<x.entry, x.rest>>
    OBVIOUS
  <2>2. y \in again /\ y[1] = x.entry /\ y[2] = x.rest
    BY <1>4, <2>1
  <2>3. x.rest \in Nat /\ x.rest < kTimingMinute
    BY <1>1, <1>3
  <2>4. /\ Level(x.rest) = "second" /\ SlotOf(x.rest) = x.rest - 1 /\ Rest(x.rest) = Direct
        /\ ~TooFar(x.rest) /\ x.rest - 1 \in Slots("second")
    BY <1>8, <2>3, SecondDelay
  <2>5. PICK z : z = [entry |-> x.entry, rest |-> Direct]
    OBVIOUS
  <2>6. z = ElementOf(y[1], y[2])
    BY <2>2, <2>4, <2>5 DEF ElementOf
  <2> HIDE DEF again, popped
  <2>7. PutInto(z, again, "second", x.rest - 1)
    BY <2>2, <2>4, <2>6 DEF PutInto
  <2>8. z \in w1["second"][x.rest - 1]
    BY <1>1, <1>7, <2>4, <2>7
  <2> QED BY <2>4, <2>5, <2>8
<1>9. ASSUME NEW level \in Levels, NEW i \in Slots(level), NEW z, PutInto(z, again, level, i)
      PROVE  ElementOK(z, level, i, a, t, t)
  <2>1. PICK y \in again : /\ ~TooFar(y[2]) /\ Level(y[2]) = level /\ SlotOf(y[2]) = i
                           /\ z = ElementOf(y[1], y[2])
    BY <1>9 DEF PutInto
  <2>2. PICK x \in popped : y = <<x.entry, x.rest>>
    BY <1>4
  <2>3. y[1] = x.entry /\ y[2] = x.rest
    BY <2>2
  <2>4. /\ ElementOK(x, "minute", 0, a, t, m) /\ x.rest \in Nat /\ x.rest < kTimingMinute
        /\ a[x.entry] # Never /\ a[x.entry].delay \in Nat /\ a[x.entry].tick \in Nat
    BY <1>1, <1>3
  <2>5. level = "second" /\ i = x.rest - 1 /\ Rest(x.rest) = Direct
    BY <2>1, <2>3, <2>4, SecondDelay
  <2>6. z.entry = x.entry /\ z.rest = Direct
    BY <2>1, <2>3, <2>5 DEF ElementOf
  <2>7. DueAt("minute", 0, x.rest, t, m) = t + x.rest
    BY <2>4, WheelFacts DEF DueAt
  <2>8. DueAt(level, i, z.rest, t, t) = t + x.rest
    BY <2>4, <2>5, <1>1 DEF DueAt
  <2>9. /\ a[x.entry] # Never /\ a[x.entry].delay < kTimingHour /\ InTime(a[x.entry], t + x.rest)
    BY <2>4, <2>7 DEF ElementOK
  <2> QED BY <2>5, <2>6, <2>8, <2>9 DEF ElementOK
<1>10. ASSUME NEW level \in Levels, NEW i \in Slots(level), NEW x \in Rotated(w, "minute")[level][i]
       PROVE  ElementOK(x, level, i, a, t, t)
  <2>1. CASE level = "minute"
    <3>1. i + 1 \in Slots("minute") /\ x \in w["minute"][i + 1] /\ i \in Nat
      BY <1>1, <1>6, <1>10, <2>1
    <3>2. ElementOK(x, "minute", i + 1, a, t, m) /\ x.rest \in Nat
      BY <3>1, <1>3
    <3> DEFINE q == kTimingMinute * (i + 1)
               q1 == kTimingMinute * (i + 1 + 1)
    <3>3. q1 = q + kTimingMinute /\ q \in Int
      BY <3>1, WheelFacts
    <3>4. /\ DueAt("minute", i + 1, x.rest, t, m) = m + q1 + x.rest
          /\ DueAt("minute", i, x.rest, t, t) = t + q + x.rest
      BY DEF DueAt
    <3> HIDE DEF q, q1
    <3>5. DueAt("minute", i + 1, x.rest, t, m) = DueAt("minute", i, x.rest, t, t)
      BY <3>2, <3>3, <3>4, WheelFacts
    <3> QED BY <2>1, <3>2, <3>5 DEF ElementOK
  <2>2. CASE level # "minute"
    <3>1. ElementOK(x, level, i, a, t, m)
      BY <1>0, <1>6, <1>10, <2>2 DEF ElementsOK
    <3>2. level = "second" => DueAt(level, i, x.rest, t, m) = DueAt(level, i, x.rest, t, t)
      BY DEF DueAt
    <3> QED BY <2>2, <3>1, <3>2 DEF ElementOK
  <2> QED BY <2>1, <2>2
<1>11. ElementsOK(w1, a, t, t)
  <2> HIDE DEF again
  <2> QED BY <1>7, <1>9, <1>10 DEF ElementsOK
\* What was not in the front slot is still there.
<1>12. ASSUME NEW level \in Levels, NEW i \in Slots(level), NEW x \in w[level][i], level # "minute"
       PROVE  x \in w1[level][i]
  BY <1>6, <1>7, <1>12
<1>13. ASSUME NEW i \in Slots("minute"), NEW x \in w["minute"][i], i > 0
       PROVE  i - 1 \in Slots("minute") /\ x \in w1["minute"][i - 1]
  <2>1. i \in Nat /\ i - 1 \in Slots("minute") /\ (i - 1) + 1 = i
    BY <1>1, <1>13
  <2>2. x \in Rotated(w, "minute")["minute"][i - 1]
    BY <1>1, <1>6, <2>1
  <2> QED BY <1>1, <1>7, <2>1, <2>2
<1>14. ASSUME NEW e \in Entries, a[e] # Never
       PROVE  HasElement(e, w1, a, t) \/ Lost(e, a, b1)
  <2>1. HasElement(e, w, a, t) /\ ~TooFar(a[e].delay) /\ a[e].delay \in Nat /\ a[e].tick \in Nat
    BY <1>0, <1>2, <1>14 DEF ArmedWait, Lost, ArmingsOK, ArmingOK
  <2>2. CASE a[e].delay < kTimingMinute
    <3>1. PICK i \in Slots("second") : /\ t + i + 1 = a[e].tick + a[e].delay
                                       /\ [entry |-> e, rest |-> Direct] \in w["second"][i]
      BY <2>1, <2>2 DEF HasElement
    <3>2. [entry |-> e, rest |-> Direct] \in w1["second"][i]
      BY <3>1, <1>1, <1>12
    <3> QED BY <3>1, <3>2, <2>1, <2>2, WheelFacts DEF HasElement
  <2>3. CASE kTimingMinute <= a[e].delay /\ a[e].delay < kTimingHour
    <3>1. PICK level \in {"second", "minute"} : \E i \in Slots(level) : \E x \in w[level][i] : x.entry = e
      BY <2>1, <2>3 DEF HasElement
    <3>2. PICK i \in Slots(level) : \E x \in w[level][i] : x.entry = e
      BY <3>1
    <3>3. PICK x \in w[level][i] : x.entry = e
      BY <3>2
    <3>4. ASSUME NEW k \in {"second", "minute"}, NEW j \in Slots(k), NEW y \in w1[k][j], y.entry = e
          PROVE  HasElement(e, w1, a, t)
      BY <2>1, <2>3, <3>4, WheelFacts DEF HasElement
    <3>5. CASE level = "second"
      BY <3>3, <3>4, <3>5, <1>1, <1>12
    <3>6. CASE level = "minute" /\ i > 0
      BY <3>3, <3>4, <3>6, <1>13
    <3>7. CASE level = "minute" /\ i = 0 /\ x.rest > 0
      <4>1. PICK z : z = [entry |-> x.entry, rest |-> Direct]
        OBVIOUS
      <4>2. z.entry = e /\ z \in w1["second"][x.rest - 1] /\ x.rest - 1 \in Slots("second")
        BY <4>1, <3>3, <3>7, <1>8
      <4> QED BY <4>2, <3>4
    <3>8. CASE level = "minute" /\ i = 0 /\ x.rest = 0
      <4>1. b1 /\ a[e].delay % kTimingMinute = 0
        BY <3>3, <3>8, <1>1, <1>3
      <4> QED BY <4>1, <2>3 DEF Lost
    <3>9. level = "minute" => x.rest \in Nat /\ i \in Nat
      BY <3>3, <1>1, <1>3
    <3> QED BY <3>5, <3>6, <3>7, <3>8, <3>9
  <2>4. CASE kTimingHour <= a[e].delay
    <3>1. /\ Level(a[e].delay) \in Levels /\ Level(a[e].delay) # "minute"
          /\ SlotOf(a[e].delay) \in Slots(Level(a[e].delay))
      BY <2>1, <2>4, CoarseDelay DEF Levels
    <3>2. PICK x \in w[Level(a[e].delay)][SlotOf(a[e].delay)] : x.entry = e
      BY <2>1, <2>4 DEF HasElement
    <3>3. x \in w1[Level(a[e].delay)][SlotOf(a[e].delay)]
      BY <3>1, <3>2, <1>12
    <3> QED BY <3>2, <3>3, <2>1, <2>4, WheelFacts DEF HasElement
  <2> QED BY <2>1, <2>2, <2>3, <2>4, WheelFacts
<1>15. ArmedWait(w1, a, t, b1)
  BY <1>14 DEF ArmedWait
<1>16. BreaksOK(a, b1)
  <2>1. ASSUME NEW x \in popped, x.rest = 0
        PROVE  \E e \in Entries : a[e] # Never /\ a[e].delay % kTimingMinute = 0
    BY <2>1, <1>1, <1>3
  <2> QED BY <2>1 DEF BreaksOK
<1> QED BY <1>0, <1>7, <1>11, <1>15, <1>16 DEF StateOK

-----------------------------------------------------------------------------
(* PopUp and OnTimer.                                                      *)

\* Inserting no entry changes nothing.
LEMMA InsertedNothing ==
  ASSUME NEW w, NEW entries
  PROVE  Inserted(Inserted(w, entries), {}) = Inserted(w, entries)
<1> DEFINE new(l, i) == {[entry |-> y[1], rest |-> Rest(y[2])] :
                           y \in {z \in entries : ~TooFar(z[2]) /\ Level(z[2]) = l /\ SlotOf(z[2]) = i}}
           none(l, i) == {[entry |-> y[1], rest |-> Rest(y[2])] :
                           y \in {z \in {} : ~TooFar(z[2]) /\ Level(z[2]) = l /\ SlotOf(z[2]) = i}}
           r == Inserted(w, entries)
<1>1. r = [l \in Levels |-> [i \in Slots(l) |-> w[l][i] \cup new(l, i)]]
  BY DEF Inserted
<1>2. Inserted(r, {}) = [l \in Levels |-> [i \in Slots(l) |-> r[l][i] \cup none(l, i)]]
  BY DEF Inserted
<1>3. \A l, i : none(l, i) = {}
  OBVIOUS
<1> HIDE DEF new, none, r
<1>4. \A l \in Levels : r[l] = [i \in Slots(l) |-> w[l][i] \cup new(l, i)]
  BY <1>1
<1>5. \A l \in Levels : [i \in Slots(l) |-> r[l][i] \cup none(l, i)] = r[l]
  <2> SUFFICES ASSUME NEW l \in Levels
               PROVE  [i \in Slots(l) |-> r[l][i] \cup none(l, i)] = r[l]
    OBVIOUS
  <2>1. \A i \in Slots(l) : r[l][i] \cup none(l, i) = r[l][i]
    BY <1>3
  <2>2. r[l] = [i \in Slots(l) |-> r[l][i]]
    BY <1>4
  <2> QED BY <2>1, <2>2
<1>6. Inserted(r, {}) = [l \in Levels |-> r[l]]
  BY <1>2, <1>5
<1>7. r = [l \in Levels |-> r[l]]
  BY <1>1
<1> QED BY <1>6, <1>7 DEF r

\* PopUp of the second wheel, with RunEvery's entries armed again.
LEMMA PopSeconds ==
  ASSUME NEW s, NEW t \in Nat, NEW m \in Nat, NEW l \in Nat, NEW n \in Nat,
         n = now, t - m \in 0 .. kTimingMinute - 1, n - l >= Second, s.broken = FALSE,
         StateOK(s.wheels, s.armed, s.fired, s.closed, FALSE, t, m, l, n),
         NEW q, q = PopUp(s, "second", t + 1)
  PROVE  /\ StateOK(q.wheels, q.armed, q.fired, q.closed, FALSE, t + 1, m, n, n)
         /\ q.broken = FALSE
<1> DEFINE popped == s.wheels["second"][0]
           again  == {<<x.entry, x.rest>> : x \in {y \in popped : y.rest # Direct}}
           w1     == Inserted(Rotated(s.wheels, "second"), again)
           due    == Released(popped, w1)
           ticks  == {<<e, s.armed[e].delay>> : e \in due \cap Tickers}
           a1     == Unarmed(s.armed, due)
           f1     == WithFired(s.fired, s.armed, due, t + 1, n)
           delay  == [e \in due \cap Tickers |-> s.armed[e].delay]
<1>1. /\ q.wheels = Inserted(w1, ticks)
      /\ q.closed = s.closed \cup TimedOut(due)
      /\ q.broken = (s.broken \/ Breaks(again) \/ Breaks(ticks))
      /\ q.fired = [e \in Entries |-> IF e \notin due THEN s.fired[e] ELSE
                     [after |-> (t + 1) - s.armed[e].tick, delay |-> s.armed[e].delay,
                      waited |-> now - s.armed[e].now]]
      /\ q.armed = [e \in Entries |->
                     CASE e \in due \cap Tickers -> Armed(s.armed[e].delay, t + 1)
                       [] e \in due \ Tickers    -> Never
                       [] e \notin due           -> s.armed[e]]
  BY Zenon DEF PopUp
<1>2. /\ IsWheels(s.wheels) /\ IsArmed(s.armed) /\ ElementsOK(s.wheels, s.armed, t, m)
  BY DEF StateOK
<1>3. "second" \in Levels /\ 0 \in Slots("second")
  BY SlotsFacts DEF Levels
<1>4. \A x \in popped : x.rest = Direct
  BY <1>2, <1>3 DEF ElementsOK, ElementOK
<1>5. again = {}
  BY <1>4
<1>6. /\ IsWheels(w1)
      /\ \A level \in Levels : \A i \in Slots(level) : \A x :
           x \in w1[level][i] <=>
             IF level = "second" THEN i + 1 \in Slots(level) /\ x \in s.wheels[level][i + 1]
                                 ELSE x \in s.wheels[level][i]
  <2>1. PICK r : r = Rotated(s.wheels, "second")
    OBVIOUS
  <2>2. /\ IsWheels(r)
        /\ \A level \in Levels : \A i \in Slots(level) : \A x :
             x \in r[level][i] <=>
               IF level = "second" THEN i + 1 \in Slots("second") /\ x \in s.wheels["second"][i + 1]
                                   ELSE x \in s.wheels[level][i]
    BY <1>2, <1>3, <2>1, RotatedFacts
  <2>3. {} \in SUBSET (Entries \X Nat)
    OBVIOUS
  <2>4. \A x, level, i : ~PutInto(x, {}, level, i)
    BY DEF PutInto
  <2>5. /\ IsWheels(Inserted(r, {}))
        /\ \A level \in Levels : \A i \in Slots(level) : \A x :
             x \in Inserted(r, {})[level][i] <=> x \in r[level][i] \/ PutInto(x, {}, level, i)
    BY <2>2, <2>3, InsertedFacts
  <2>6. w1 = Inserted(r, {})
    BY <1>5, <2>1
  <2> HIDE DEF w1
  <2> QED BY <2>2, <2>4, <2>5, <2>6
<1>7. \A e : e \in due <=> (\E x \in popped : x.entry = e) /\ ~Referenced(w1, e)
  <2> HIDE DEF w1, popped
  <2> QED BY <1>4 DEF Released
<1> HIDE DEF w1, due, again
<1>8. /\ StateOK(w1, a1, f1, s.closed \cup (due \cap Conns), FALSE, t + 1, m, n, n)
      /\ due \in SUBSET Entries
      /\ \A e \in due : s.armed[e] # Never /\ s.armed[e].delay \in Nat \ {0} /\ ~TooFar(s.armed[e].delay)
  <2>1. a1 = Unarmed(s.armed, due) /\ f1 = WithFired(s.fired, s.armed, due, t + 1, n)
    BY DEF a1, f1
  <2>2. PICK w, a, f, c, v, d, u, g : /\ w = s.wheels /\ a = s.armed /\ f = s.fired /\ c = s.closed
                                      /\ v = w1 /\ d = due /\ u = a1 /\ g = f1
    OBVIOUS
  <2> HIDE DEF a1, f1, popped
  <2>3. /\ StateOK(w, a, f, c, FALSE, t, m, l, n) /\ IsWheels(v)
        /\ u = Unarmed(a, d) /\ g = WithFired(f, a, d, t + 1, n)
    BY <1>6, <2>1, <2>2
  <2>4. IsTurned(v, w)
    BY <1>6, <2>2 DEF IsTurned
  <2>5. AreDue(d, v, w)
    BY <1>7, <2>2 DEF AreDue, popped
  <2>6. /\ StateOK(v, Unarmed(a, d), WithFired(f, a, d, t + 1, n), c \cup (d \cap Conns), FALSE, t + 1, m, n, n)
        /\ d \in SUBSET Entries
        /\ \A e \in d : a[e] # Never /\ a[e].delay \in Nat \ {0} /\ ~TooFar(a[e].delay)
    BY <2>3, <2>4, <2>5, SecondsTurn
  <2> QED BY <2>2, <2>3, <2>6
<1>9. /\ due \cap Tickers \in SUBSET Entries
      /\ delay \in [due \cap Tickers -> Nat]
      /\ \A e \in due \cap Tickers : /\ delay[e] \in Nat \ {0} /\ ~TooFar(delay[e])
                                     /\ e \notin Conns /\ a1[e] = Never
  BY <1>8, WheelFacts DEF Unarmed
<1>10. ticks = WithDelay(due \cap Tickers, delay)
  BY DEF WithDelay
<1>11. q.armed = Rearmed(a1, due \cap Tickers, delay, t + 1, n)
  <2>1. \A e \in Entries :
          (CASE e \in due \cap Tickers -> Armed(s.armed[e].delay, t + 1)
             [] e \in due \ Tickers    -> Never
             [] e \notin due           -> s.armed[e])
          = IF e \in due \cap Tickers THEN [tick |-> t + 1, delay |-> delay[e], now |-> n] ELSE a1[e]
    BY DEF Armed, Unarmed
  <2> HIDE DEF delay, a1
  <2> QED BY ZenonT(30), <1>1, <2>1 DEF Rearmed
<1>12. q.fired = f1
  BY <1>1 DEF WithFired, FiringOf
<1>13. ~Breaks(again) /\ ~Breaks(ticks)
  <2>1. \A x \in ticks : x[2] # 0
    BY <1>8
  <2> QED BY <1>5, <2>1 DEF Breaks
<1>14. q.broken = FALSE
  BY <1>1, <1>13
<1>15. q.closed = s.closed \cup (due \cap Conns)
  BY <1>1 DEF TimedOut
<1> HIDE DEF a1, f1, delay, ticks
<1>16. (t + 1) - m \in 0 .. kTimingMinute /\ t + 1 \in Nat
  BY WheelFacts
<1>17. StateOK(Inserted(w1, ticks), q.armed, f1, s.closed \cup (due \cap Conns), FALSE, t + 1, m, n, n)
  <2>1. PICK a, c, E, T, v, u : /\ a = a1 /\ c = s.closed \cup (due \cap Conns) /\ E = due \cap Tickers
                                /\ T = t + 1 /\ v = Inserted(w1, ticks) /\ u = q.armed
    OBVIOUS
  <2>2. /\ StateOK(w1, a, f1, c, FALSE, T, m, n, n) /\ T \in Nat /\ T - m \in 0 .. kTimingMinute
        /\ E \in SUBSET Entries /\ delay \in [E -> Nat]
        /\ v = Inserted(w1, WithDelay(E, delay)) /\ u = Rearmed(a, E, delay, T, n)
    BY <1>8, <1>9, <1>10, <1>11, <1>16, <2>1
  <2>3. /\ \A e \in E : ~TooFar(delay[e]) /\ (e \in Conns => delay[e] = MaxIdle)
        /\ \A e \in E : a[e] = Never \/ (a[e].delay = delay[e] /\ delay[e] < kTimingMinute)
        /\ FALSE <=> \E e \in E : delay[e] = 0
    BY <1>9, <2>1
  <2>4. FALSE \in BOOLEAN
    OBVIOUS
  <2>5. StateOK(v, u, f1, c, FALSE, T, m, n, n)
    BY ZenonT(30), <2>2, <2>3, <2>4, ArmKeeps
  <2> QED BY <2>1, <2>5
<1> QED BY <1>1, <1>12, <1>14, <1>15, <1>17

\* PopUp of the minute wheel; nothing fires.
LEMMA PopMinutes ==
  ASSUME NEW s, NEW t \in Nat, NEW m \in Nat, NEW l \in Nat, NEW n \in Nat,
         t = m + kTimingMinute, s.broken = FALSE,
         StateOK(s.wheels, s.armed, s.fired, s.closed, FALSE, t, m, l, n),
         NEW q, q = PopUp(s, "minute", t)
  PROVE  StateOK(q.wheels, q.armed, q.fired, q.closed, q.broken, t, t, l, n)
<1> DEFINE popped == s.wheels["minute"][0]
           again  == {<<x.entry, x.rest>> : x \in {y \in popped : y.rest # Direct}}
           w1     == Inserted(Rotated(s.wheels, "minute"), again)
           due    == Released(popped, w1)
           ticks  == {<<e, s.armed[e].delay>> : e \in due \cap Tickers}
           b1     == Breaks(again)
<1>1. /\ q.wheels = Inserted(w1, ticks)
      /\ q.closed = s.closed \cup TimedOut(due)
      /\ q.broken = (s.broken \/ Breaks(again) \/ Breaks(ticks))
      /\ q.fired = [e \in Entries |-> IF e \notin due THEN s.fired[e] ELSE
                     [after |-> t - s.armed[e].tick, delay |-> s.armed[e].delay,
                      waited |-> now - s.armed[e].now]]
      /\ q.armed = [e \in Entries |->
                     CASE e \in due \cap Tickers -> Armed(s.armed[e].delay, t)
                       [] e \in due \ Tickers    -> Never
                       [] e \notin due           -> s.armed[e]]
  BY Zenon DEF PopUp
<1>2. /\ IsWheels(s.wheels) /\ IsArmed(s.armed) /\ ElementsOK(s.wheels, s.armed, t, m)
      /\ FiringsOK(s.fired)
  BY DEF StateOK
<1>3. "minute" \in Levels /\ 0 \in Slots("minute")
  BY SlotsFacts DEF Levels
<1>4. \A x \in popped : x.rest # Direct
  <2> SUFFICES ASSUME NEW x \in popped PROVE x.rest # Direct
    OBVIOUS
  <2>1. ElementOK(x, "minute", 0, s.armed, t, m) /\ x.entry \in Entries
    BY <1>2, <1>3, WheelElement DEF ElementsOK
  <2>2. s.armed[x.entry].delay \in Nat /\ x.rest = s.armed[x.entry].delay % kTimingMinute
    BY <1>2, <2>1 DEF ElementOK, IsArmed, Armings
  <2>3. s.armed[x.entry].delay % kTimingMinute \in 0 .. kTimingMinute - 1
    BY <2>2, WheelFacts, ModDef
  <2> QED BY <2>2, <2>3, WheelFacts
<1>5. again = Unwrapped(popped)
  BY <1>4 DEF Unwrapped
<1>6. due = {}
  BY <1>4 DEF Released
<1>7. ticks = {}
  BY <1>6
<1>8. q.wheels = w1
  <2>1. q.wheels = Inserted(w1, {})
    BY <1>1, <1>7
  <2> QED BY <2>1, InsertedNothing
<1>9. q.fired = s.fired
  <2>1. s.fired = [e \in Entries |-> s.fired[e]]
    BY <1>2 DEF FiringsOK
  <2> HIDE DEF due
  <2> QED BY <1>1, <1>6, <2>1
<1>10. q.armed = s.armed
  <2>1. s.armed = [e \in Entries |-> s.armed[e]]
    BY <1>2 DEF IsArmed
  <2> HIDE DEF due
  <2>2. \A e \in Entries :
          (CASE e \in due \cap Tickers -> Armed(s.armed[e].delay, t)
             [] e \in due \ Tickers    -> Never
             [] e \notin due           -> s.armed[e]) = s.armed[e]
    BY <1>6
  <2> QED BY <1>1, <2>1, <2>2
<1>11. q.closed = s.closed
  BY <1>1, <1>6 DEF TimedOut
<1>12. q.broken = b1 /\ b1 \in BOOLEAN
  <2>1. Breaks(ticks) = FALSE
    BY <1>7 DEF Breaks
  <2>2. b1 \in BOOLEAN
    BY DEF Breaks
  <2> HIDE DEF b1
  <2>3. q.broken = (FALSE \/ b1 \/ FALSE)
    BY <1>1, <2>1 DEF b1
  <2> QED BY <2>2, <2>3
<1>13. b1 <=> \E x \in popped : x.rest = 0
  <2>1. \A y : y \in again <=> \E x \in popped : y = <<x.entry, x.rest>>
    BY <1>5 DEF Unwrapped
  <2>2. ASSUME NEW y \in again, y[2] = 0 PROVE \E x \in popped : x.rest = 0
    BY <2>1, <2>2
  <2>3. ASSUME NEW x \in popped, x.rest = 0 PROVE \E y \in again : y[2] = 0
    <3>1. PICK y : y = <<x.entry, x.rest>>
      OBVIOUS
    <3>2. y \in again /\ y[2] = 0
      BY <2>1, <2>3, <3>1
    <3> QED BY <3>2
  <2> HIDE DEF again
  <2> QED BY <2>2, <2>3 DEF Breaks
<1>14. StateOK(q.wheels, q.armed, q.fired, q.closed, q.broken, t, t, l, n)
  <2>1. PICK w, a, f, c, v, b : /\ w = s.wheels /\ a = s.armed /\ f = s.fired /\ c = s.closed
                                /\ v = w1 /\ b = b1
    OBVIOUS
  <2>2. v = Inserted(Rotated(w, "minute"), Unwrapped(w["minute"][0]))
    BY <1>5, <2>1
  <2> HIDE DEF b1, w1, again
  <2>3. StateOK(w, a, f, c, FALSE, t, m, l, n) /\ b \in BOOLEAN
    BY <1>12, <2>1
  <2>4. b <=> \E x \in w["minute"][0] : x.rest = 0
    BY <1>13, <2>1
  <2>5. StateOK(v, a, f, c, b, t, t, l, n)
    BY <2>2, <2>3, <2>4, MinutesTurn
  <2> QED BY <1>8, <1>9, <1>10, <1>11, <1>12, <2>1, <2>5
<1> QED BY <1>14

\* The hours and the days are multiples of a minute: no other wheel than that of the
\* minutes ever turns.
LEMMA OnlyMinutesTurn ==
  ASSUME NEW t \in Nat
  PROVE  CoarseWheel(t) = IF t % kTimingMinute = 0 THEN {"minute"} ELSE {}
<1>1. ASSUME NEW N \in Nat \ {0}, N % kTimingMinute = 0, t % N = 0
      PROVE  t % kTimingMinute = 0
  <2> DEFINE h == N \div kTimingMinute
             k == t \div N
  <2>1. h \in Nat /\ N = kTimingMinute * h + 0
    BY <1>1, WheelFacts, ModDef
  <2>2. k \in Nat /\ t = N * k + 0
    BY <1>1, ModDef
  <2> HIDE DEF h, k
  <2>3. N = kTimingMinute * h /\ t = N * k
    BY <2>1, <2>2, WheelFacts
  <2>4. (kTimingMinute * h) * k = kTimingMinute * (h * k)
    BY <2>1, <2>2, WheelFacts
  <2>5. h * k \in Nat
    BY <2>1, <2>2
  <2>6. PICK j \in Nat : t = kTimingMinute * j + 0
    <3>1. t = kTimingMinute * (h * k)
      BY <2>3, <2>4
    <3>2. t = kTimingMinute * (h * k) + 0
      BY <3>1
    <3> QED BY <2>5, <3>2
  <2>7. 0 \in 0 .. kTimingMinute - 1
    BY WheelFacts
  <2> QED BY <2>6, <2>7, WheelFacts, ModOf
<1>2. t % kTimingHour = 0 => t % kTimingMinute = 0
  BY <1>1, WheelFacts
<1>3. t % kTimingDay = 0 => t % kTimingMinute = 0
  BY <1>1, WheelFacts
<1> QED BY <1>2, <1>3 DEF CoarseWheel

\* The minute wheel turned last at the last whole minute.
LEMMA MinuteOfTick ==
  ASSUME NEW t \in Nat
  PROVE  /\ LastMinute(t) \in Nat /\ t - LastMinute(t) \in 0 .. kTimingMinute - 1
         /\ (t + 1) % kTimingMinute = 0 =>
              t + 1 = LastMinute(t) + kTimingMinute /\ LastMinute(t + 1) = t + 1
         /\ (t + 1) % kTimingMinute # 0 => LastMinute(t + 1) = LastMinute(t)
<1> DEFINE k == t \div kTimingMinute
           r == t % kTimingMinute
<1>1. k \in Nat /\ r \in 0 .. kTimingMinute - 1 /\ t = kTimingMinute * k + r
  BY WheelFacts, ModDef
<1> DEFINE p == kTimingMinute * k
<1>2. p \in Nat
  BY <1>1, WheelFacts
<1>3. LastMinute(t) = p
  <2>1. LastMinute(t) = t - r
    BY DEF LastMinute
  <2> HIDE DEF p, r, k
  <2>2. t = p + r
    BY <1>1 DEF p
  <2> QED BY <1>1, <1>2, <2>1, <2>2
<1>4. CASE r + 1 < kTimingMinute
  <2>1. t + 1 = kTimingMinute * k + (r + 1) /\ r + 1 \in 0 .. kTimingMinute - 1
    <3> HIDE DEF k, r
    <3>1. t = p + r
      BY <1>1
    <3> HIDE DEF p
    <3>2. t + 1 = p + (r + 1) /\ r + 1 \in 0 .. kTimingMinute - 1
      BY <1>1, <1>2, <1>4, <3>1, WheelFacts
    <3> QED BY <3>2 DEF p
  <2> HIDE DEF k, r
  <2>2. (t + 1) % kTimingMinute = r + 1
    BY <1>1, <2>1, WheelFacts, ModOf
  <2> HIDE DEF p
  <2>3. LastMinute(t + 1) = p /\ (t + 1) % kTimingMinute # 0
    <3>1. t + 1 = p + (r + 1)
      BY <2>1 DEF p
    <3> QED BY <1>1, <1>2, <2>2, <3>1 DEF LastMinute
  <2>4. t = p + r
    BY <1>1 DEF p
  <2> QED BY <1>1, <1>2, <1>3, <2>3, <2>4
<1>5. CASE ~(r + 1 < kTimingMinute)
  <2>1. r + 1 = kTimingMinute
    BY <1>1, <1>5, WheelFacts
  <2> HIDE DEF k, r
  <2>2. kTimingMinute * (k + 1) = p + kTimingMinute
    BY <1>1, WheelFacts
  <2>3. t + 1 = p + kTimingMinute
    BY <1>1, <2>1, WheelFacts
  <2>4. t + 1 = kTimingMinute * (k + 1) + 0 /\ k + 1 \in Nat /\ 0 \in 0 .. kTimingMinute - 1
    BY <1>1, <1>2, <2>2, <2>3, WheelFacts
  <2>5. (t + 1) % kTimingMinute = 0
    BY <2>4, WheelFacts, ModOf
  <2> HIDE DEF p
  <2>6. LastMinute(t + 1) = t + 1
    BY <2>5 DEF LastMinute
  <2> QED BY <1>1, <1>2, <1>3, <2>1, <2>3, <2>5, <2>6, WheelFacts
<1> QED BY <1>4, <1>5

\* OnTimer as a whole: the second wheel, and every minute the minute wheel after it.
LEMMA OnTimerKeeps == WheelInv /\ OnTimer => WheelInv'
<1> SUFFICES ASSUME WheelInv, OnTimer PROVE WheelInv'
  OBVIOUS
<1>1. PICK t, m, l, n, s, q :
        /\ t = tick /\ m = LastMinute(tick) /\ l = last_ts /\ n = now
        /\ s = [wheels |-> wheels, armed |-> armed, fired |-> fired, closed |-> closed, broken |-> broken]
        /\ q = PopUp(s, "second", t + 1)
  OBVIOUS
<1>2. /\ s.wheels = wheels /\ s.armed = armed /\ s.fired = fired /\ s.closed = closed
      /\ s.broken = broken
  BY <1>1
<1>3. /\ t \in Nat /\ l \in Nat /\ n \in Nat /\ l <= n /\ m = LastMinute(t)
      /\ StateOK(s.wheels, s.armed, s.fired, s.closed, s.broken, t, m, l, n)
  BY <1>1, <1>2 DEF WheelInv
<1>4. s.broken = FALSE /\ n - l >= Second
  <2>1. s.broken \in BOOLEAN
    BY <1>3 DEF StateOK, BreaksOK
  <2> QED BY <1>1, <1>2, <2>1 DEF OnTimer, SecondPassed
<1>5. /\ m \in Nat /\ t - m \in 0 .. kTimingMinute - 1
      /\ (t + 1) % kTimingMinute = 0 => t + 1 = m + kTimingMinute /\ LastMinute(t + 1) = t + 1
      /\ (t + 1) % kTimingMinute # 0 => LastMinute(t + 1) = m
  BY <1>3, MinuteOfTick
<1>6. /\ StateOK(q.wheels, q.armed, q.fired, q.closed, FALSE, t + 1, m, n, n)
      /\ q.broken = FALSE
  <2>1. /\ StateOK(s.wheels, s.armed, s.fired, s.closed, FALSE, t, m, l, n)
        /\ t \in Nat /\ m \in Nat /\ l \in Nat /\ n \in Nat
    BY <1>3, <1>4, <1>5
  <2>2. n = now /\ q = PopUp(s, "second", t + 1)
    BY <1>1
  <2> QED BY <2>1, <2>2, <1>4, <1>5, PopSeconds
<1>7. PICK q2 : q2 = IF CoarseWheel(t + 1) = {} THEN q
                     ELSE PopUp(q, CHOOSE level \in CoarseWheel(t + 1) : TRUE, t + 1)
  OBVIOUS
<1>8. /\ last_ts' = now /\ tick' = t + 1 /\ now' = now
      /\ wheels' = q2.wheels /\ closed' = q2.closed /\ broken' = q2.broken
      /\ fired' = q2.fired /\ armed' = q2.armed
  BY <1>1, <1>7 DEF OnTimer
<1>9. StateOK(q2.wheels, q2.armed, q2.fired, q2.closed, q2.broken, t + 1, LastMinute(t + 1), n, n)
  <2>1. CASE (t + 1) % kTimingMinute = 0
    <3>1. CoarseWheel(t + 1) = {"minute"}
      BY <1>3, <2>1, OnlyMinutesTurn
    <3>2. q2 = PopUp(q, "minute", t + 1)
      BY <1>7, <3>1
    <3>3. PICK u : u = t + 1
      OBVIOUS
    <3>4. u \in Nat /\ u = m + kTimingMinute /\ LastMinute(u) = u /\ q2 = PopUp(q, "minute", u)
      BY <1>3, <1>5, <2>1, <3>2, <3>3
    <3>5. StateOK(q.wheels, q.armed, q.fired, q.closed, FALSE, u, m, n, n)
      BY <1>6, <3>3
    <3>6. StateOK(q2.wheels, q2.armed, q2.fired, q2.closed, q2.broken, u, u, n, n)
      BY <1>3, <1>5, <1>6, <3>4, <3>5, PopMinutes
    <3> QED BY <3>3, <3>4, <3>6
  <2>2. CASE (t + 1) % kTimingMinute # 0
    <3>1. CoarseWheel(t + 1) = {}
      BY <1>3, <2>2, OnlyMinutesTurn
    <3>2. q2 = q /\ LastMinute(t + 1) = m
      BY <1>5, <1>7, <2>2, <3>1
    <3> QED BY <1>6, <3>2
  <2> QED BY <2>1, <2>2
<1>10. LastMinute(tick)' = LastMinute(t + 1)
  BY <1>8 DEF LastMinute
<1> QED BY <1>1, <1>3, <1>8, <1>9, <1>10 DEF WheelInv

\* Insert, called for an entry that is not in the wheels, or for a connection.
LEMMA InsertKeeps ==
  ASSUME WheelInv, ~broken, NEW e \in Entries, NEW d \in Nat, Insert(e, d),
         ~TooFar(d), e \in Conns => d = MaxIdle,
         armed[e] = Never \/ (armed[e].delay = d /\ d < kTimingMinute)
  PROVE  WheelInv'
<1>1. PICK w, a, f, c, t, m, l, n, w2, a2, b2, E, delay :
        /\ w = wheels /\ a = armed /\ f = fired /\ c = closed
        /\ t = tick /\ m = LastMinute(tick) /\ l = last_ts /\ n = now
        /\ w2 = wheels' /\ a2 = armed' /\ b2 = broken'
        /\ E = {e} /\ delay = [x \in {e} |-> d]
  OBVIOUS
<1>2. broken = FALSE
  BY DEF WheelInv, StateOK, BreaksOK
<1>3. /\ t \in Nat /\ l \in Nat /\ n \in Nat /\ m = LastMinute(t)
      /\ StateOK(w, a, f, c, FALSE, t, m, l, n)
  BY <1>1, <1>2 DEF WheelInv
<1>4. m \in Nat /\ t - m \in 0 .. kTimingMinute
  BY <1>3, MinuteOfTick, WheelFacts
<1>5. E \in SUBSET Entries /\ delay \in [E -> Nat] /\ delay[e] = d
  BY <1>1
<1>6. WithDelay(E, delay) = {<<e, d>>}
  BY <1>1 DEF WithDelay
<1>7. w2 = Inserted(w, WithDelay(E, delay))
  BY <1>1, <1>6 DEF Insert
<1>8. a2 = Rearmed(a, E, delay, t, n)
  <2>1. a \in [Entries -> Armings \cup {Never}]
    BY <1>3 DEF StateOK, IsArmed
  <2>2. a2 = [a EXCEPT ![e] = [tick |-> t, delay |-> d, now |-> n]]
    BY <1>1 DEF Insert, Armed
  <2>3. a2 = [x \in Entries |-> IF x = e THEN [tick |-> t, delay |-> d, now |-> n] ELSE a[x]]
    BY <2>1, <2>2
  <2>4. Rearmed(a, E, delay, t, n)
          = [x \in Entries |-> IF x = e THEN [tick |-> t, delay |-> d, now |-> n] ELSE a[x]]
    BY <1>1, <1>5 DEF Rearmed
  <2> QED BY <2>3, <2>4
<1>9. /\ \A x \in E : ~TooFar(delay[x]) /\ (x \in Conns => delay[x] = MaxIdle)
      /\ \A x \in E : a[x] = Never \/ (a[x].delay = delay[x] /\ delay[x] < kTimingMinute)
  BY <1>1, <1>5
<1>10. b2 \in BOOLEAN /\ (b2 <=> \E x \in E : delay[x] = 0)
  <2>1. Breaks({<<e, d>>}) \in BOOLEAN /\ (Breaks({<<e, d>>}) <=> d = 0)
    BY DEF Breaks
  <2>2. b2 = Breaks({<<e, d>>})
    BY <1>1 DEF Insert
  <2> QED BY <1>1, <1>5, <2>1, <2>2
<1>11. StateOK(w2, a2, f, c, b2, t, m, l, n)
  BY ZenonT(30), <1>3, <1>4, <1>5, <1>7, <1>8, <1>9, <1>10, ArmKeeps
<1>12. UNCHANGED <<now, last_ts, tick, closed, fired>>
  BY DEF Insert
<1>13. LastMinute(tick)' = LastMinute(tick)
  BY <1>12 DEF LastMinute
<1> QED BY <1>1, <1>3, <1>11, <1>12, <1>13 DEF WheelInv

\* A connection's idle timeout is a delay for the second wheel.
LEMMA ConnFacts ==
  /\ MaxIdle \in Nat /\ MaxIdle < kTimingMinute /\ ~TooFar(MaxIdle)
  /\ Timers \subseteq Entries /\ Tickers \subseteq Entries /\ Conns \subseteq Entries
<1>1. MaxIdle \in Nat /\ MaxIdle < kTimingMinute
  BY WheelFacts
<1> QED BY <1>1, SecondDelay DEF Entries

\* Every step keeps the invariant.
LEMMA StepKeeps == WheelInv /\ [Next]_vars => WheelInv'
<1> SUFFICES ASSUME WheelInv, [Next]_vars PROVE WheelInv'
  OBVIOUS
\* The clock, the firings and the connections, with the wheels as they are.
<1>1. ASSUME UNCHANGED <<wheels, armed, broken, tick>>, now' \in Nat, last_ts' \in Nat,
             now' >= now, last_ts' >= last_ts, last_ts' <= now',
             FiringsOK(fired'), TimeoutsClose(fired', closed')
      PROVE  WheelInv'
  <2>1. PICK w, a, b, t, m, l, n, l2, n2, f2, c2 :
          /\ w = wheels /\ a = armed /\ b = broken /\ t = tick /\ m = LastMinute(tick)
          /\ l = last_ts /\ n = now /\ l2 = last_ts' /\ n2 = now' /\ f2 = fired' /\ c2 = closed'
    OBVIOUS
  <2>2. /\ IsWheels(w) /\ IsArmed(a) /\ ElementsOK(w, a, t, m) /\ ArmedWait(w, a, t, b)
        /\ ArmingsOK(a, t, l, n) /\ BreaksOK(a, b)
        /\ l \in Nat /\ n \in Nat /\ t \in Nat
    BY <2>1 DEF WheelInv, StateOK
  <2>3. l2 \in Nat /\ n2 \in Nat /\ n2 >= n /\ l2 >= l
    BY <1>1, <2>1
  <2>4. ArmingsOK(a, t, l2, n2)
    <3> SUFFICES ASSUME NEW e \in Entries, a[e] # Never PROVE ArmingOK(e, a[e], t, l2, n2)
      BY DEF ArmingsOK
    <3>1. ArmingOK(e, a[e], t, l, n) /\ a[e].tick \in Nat /\ a[e].now \in Nat
      BY <2>2 DEF ArmingsOK, IsArmed, Armings
    <3> DEFINE r == (t - a[e].tick - 1) * Second
    <3>2. r \in Int
      BY <2>2, <3>1, WheelFacts
    <3>3. /\ a[e].tick <= t /\ a[e].now <= n /\ ~TooFar(a[e].delay)
          /\ e \in Conns => a[e].delay = MaxIdle
          /\ a[e].tick < t => l - a[e].now >= r
      BY <3>1 DEF ArmingOK
    <3> HIDE DEF r
    <3>4. /\ a[e].tick <= t /\ a[e].now <= n2 /\ ~TooFar(a[e].delay)
          /\ e \in Conns => a[e].delay = MaxIdle
          /\ a[e].tick < t => l2 - a[e].now >= r
      BY <2>2, <2>3, <3>1, <3>2, <3>3
    <3> QED BY <3>4 DEF ArmingOK, r
  <2>5. StateOK(w, a, f2, c2, b, t, m, l2, n2)
    BY <1>1, <2>1, <2>2, <2>4 DEF StateOK
  <2>6. LastMinute(tick)' = LastMinute(tick)
    BY <1>1 DEF LastMinute
  <2> QED BY <1>1, <2>1, <2>2, <2>3, <2>5, <2>6 DEF WheelInv
<1>2. /\ now \in Nat /\ last_ts \in Nat /\ last_ts <= now /\ FiringsOK(fired)
      /\ TimeoutsClose(fired, closed) /\ IsArmed(armed)
  BY DEF WheelInv, StateOK
<1>3. CASE Elapse
  BY <1>1, <1>2, <1>3 DEF Elapse
<1>4. CASE FirstOnTimer
  BY <1>1, <1>2, <1>4 DEF FirstOnTimer
<1>5. CASE OnTimer
  BY <1>5, OnTimerKeeps
<1>6. ASSUME NEW e \in Timers, NEW d \in Delays, RunAfter(e, d)
      PROVE  WheelInv'
  BY <1>6, InsertKeeps, ConnFacts, WheelFacts DEF RunAfter
<1>7. ASSUME NEW e \in Timers, NEW d \in Delays, RunAfterTooFar(e, d)
      PROVE  WheelInv'
  <2>1. d \in Nat /\ e \in Entries /\ e \notin Conns /\ TooFar(d)
    BY <1>7, ConnFacts, WheelFacts DEF RunAfterTooFar
  <2>2. d >= kTimingHour
    <3>1. d < kTimingHour => ~TooFar(d)
      BY <2>1, SecondDelay, MinuteDelay, WheelFacts
    <3> QED BY <2>1, <3>1, WheelFacts
  <2>3. PICK r : r = [after |-> 0, delay |-> d, waited |-> 0]
    OBVIOUS
  <2>4. r \in Firings /\ r.delay = d /\ fired' = [fired EXCEPT ![e] = r]
    BY <1>7, <2>1, <2>3 DEF RunAfterTooFar, Firings
  <2>5. FiringsOK(fired')
    <3>1. fired' \in [Entries -> Firings \cup {Never}]
      BY <1>2, <2>4 DEF FiringsOK
    <3>2. \A x \in Entries : fired'[x] = IF x = e THEN r ELSE fired[x]
      BY <1>2, <2>4 DEF FiringsOK
    <3> QED BY <1>2, <2>1, <2>2, <2>4, <3>1, <3>2, WheelFacts DEF FiringsOK
  <2>6. TimeoutsClose(fired', closed')
    <3>1. \A x \in Conns : fired'[x] = fired[x]
      BY <1>2, <2>1, <2>4, ConnFacts DEF FiringsOK
    <3>2. closed' = closed
      BY <1>7 DEF RunAfterTooFar
    <3> QED BY <1>2, <3>1, <3>2 DEF TimeoutsClose
  <2> QED BY <1>1, <1>2, <1>7, <2>5, <2>6 DEF RunAfterTooFar
<1>8. ASSUME NEW e \in Tickers, NEW d \in Delays, RunEvery(e, d)
      PROVE  WheelInv'
  BY <1>8, InsertKeeps, ConnFacts, WheelFacts DEF RunEvery
<1>9. ASSUME NEW c \in Conns, EnableCheckIdleTimeout(c)
      PROVE  WheelInv'
  BY <1>9, InsertKeeps, ConnFacts DEF EnableCheckIdleTimeout
<1>10. ASSUME NEW c \in Conns, ExtendLife(c)
       PROVE  WheelInv'
  <2>1. armed[c] = Never \/ armed[c].delay = MaxIdle
    BY ConnFacts DEF WheelInv, StateOK, ArmingsOK, ArmingOK
  <2> QED BY <1>10, <2>1, InsertKeeps, ConnFacts DEF ExtendLife
<1>11. ASSUME NEW c \in Conns, OnClose(c)
       PROVE  WheelInv'
  <2>1. TimeoutsClose(fired', closed')
    BY <1>2, <1>11 DEF TimeoutsClose, OnClose
  <2> QED BY <1>1, <1>2, <1>11, <2>1 DEF OnClose
<1>12. CASE UNCHANGED vars
  BY <1>1, <1>2, <1>12 DEF vars
<1> QED BY <1>3, <1>4, <1>5, <1>6, <1>7, <1>8, <1>9, <1>10, <1>11, <1>12 DEF Next

-----------------------------------------------------------------------------
(* The theorems.                                                           *)

\* The invariant holds of the empty wheels.
LEMMA InitKeeps == Init => WheelInv
<1> SUFFICES ASSUME Init PROVE WheelInv
  OBVIOUS
<1>1. IsWheels(wheels) /\ \A level \in Levels : \A i \in Slots(level) : wheels[level][i] = {}
  BY DEF Init, IsWheels
<1>2. /\ IsArmed(armed) /\ FiringsOK(fired)
      /\ \A e \in Entries : armed[e] = Never /\ fired[e] = Never
  BY DEF Init, IsArmed, FiringsOK
<1>3. TimeoutsClose(fired, closed) /\ BreaksOK(armed, broken)
  BY <1>2, ConnFacts DEF Init, TimeoutsClose, BreaksOK
<1>4. /\ ElementsOK(wheels, armed, tick, LastMinute(tick)) /\ ArmedWait(wheels, armed, tick, broken)
      /\ ArmingsOK(armed, tick, last_ts, now)
  BY <1>1, <1>2 DEF ElementsOK, ArmedWait, ArmingsOK
<1> QED BY <1>1, <1>2, <1>3, <1>4 DEF Init, WheelInv, StateOK

\* The inductive invariant, for any entries and delays, and any sizes of the wheels
\* in which hours and days are whole minutes.
THEOREM WheelCorrect == Spec => []WheelInv
<1>1. Init => WheelInv
  BY InitKeeps
<1>2. WheelInv /\ [Next]_vars => WheelInv'
  BY StepKeeps
<1> QED BY <1>1, <1>2, PTL DEF Spec

\* What the invariant says of the properties.
LEMMA InvTypes == WheelInv => TypeOK
<1> SUFFICES ASSUME WheelInv PROVE TypeOK
  OBVIOUS
<1> QED BY DEF WheelInv, StateOK, IsWheels, IsArmed, Armings, FiringsOK, Firings, TimeoutsClose,
           BreaksOK, TypeOK

\* FiresOnTime says what the invariant keeps of the last firings.
LEMMA InvFiresOnTime == WheelInv => FiresOnTime
<1> SUFFICES ASSUME WheelInv PROVE FiresOnTime
  OBVIOUS
<1>1. FiringsOK(fired)
  BY DEF WheelInv, StateOK
<1>2. FiresOnTick
  BY <1>1 DEF FiringsOK, FiresOnTick, HasFired
<1>3. LessThanASecondEarly
  BY <1>1 DEF FiringsOK, LessThanASecondEarly, HasFired
<1> QED BY <1>2, <1>3, InvTypes DEF FiresOnTime

\* What has an element that is not popped yet is not overdue.
LEMMA InvMinuteWheel == WheelInv => MinuteWheelInTime
<1> SUFFICES ASSUME WheelInv PROVE MinuteWheelInTime
  OBVIOUS
<1>1. PICK w, a, t, m : w = wheels /\ a = armed /\ t = tick /\ m = LastMinute(tick)
  OBVIOUS
<1>2. /\ t \in Nat /\ m = LastMinute(t) /\ IsArmed(a) /\ ElementsOK(w, a, t, m)
      /\ ArmedWait(w, a, t, broken) /\ FiringsOK(fired) /\ BreaksOK(a, broken)
  BY <1>1 DEF WheelInv, StateOK
<1>3. m \in Nat /\ t - m \in 0 .. kTimingMinute - 1
  BY <1>2, MinuteOfTick
<1>4. NothingOverdue
  <2> SUFFICES ASSUME NEW e \in Entries, a[e] # Never, a[e].delay < kTimingHour, broken = FALSE
               PROVE  t - a[e].tick < a[e].delay
    BY <1>1, <1>2 DEF NothingOverdue, BreaksOK
  <2>1. HasElement(e, w, a, t) /\ a[e].delay \in Nat /\ a[e].tick \in Nat
    BY <1>2 DEF ArmedWait, Lost, IsArmed, Armings
  <2>2. CASE a[e].delay < kTimingMinute
    <3>1. PICK i \in Slots("second") : t + i + 1 = a[e].tick + a[e].delay
      BY <2>1, <2>2 DEF HasElement
    <3>2. i \in Nat
      BY SlotsFacts DEF Levels
    <3> QED BY <3>1, <3>2, <2>1, <1>2
  <2>3. CASE kTimingMinute <= a[e].delay
    <3>1. PICK level \in {"second", "minute"} : \E i \in Slots(level) : \E x \in w[level][i] : x.entry = e
      BY <2>1, <2>3 DEF HasElement
    <3>2. PICK i \in Slots(level) : \E x \in w[level][i] : x.entry = e
      BY <3>1
    <3>3. PICK x \in w[level][i] : x.entry = e
      BY <3>2
    <3>4. ElementOK(x, level, i, a, t, m) /\ i \in Nat
      BY <3>3, <1>2, SlotsFacts DEF ElementsOK, Levels
    <3>5. DueAt(level, i, x.rest, t, m) <= a[e].tick + a[e].delay
      BY <3>3, <3>4 DEF ElementOK, InTime
    <3>6. CASE level = "second"
      BY <3>4, <3>5, <3>6, <2>1, <1>2 DEF DueAt
    <3>7. CASE level = "minute"
      <4>1. x.rest = a[e].delay % kTimingMinute
        BY <3>3, <3>4, <3>7 DEF ElementOK
      <4>2. x.rest \in 0 .. kTimingMinute - 1
        BY <4>1, <2>1, WheelFacts, ModDef
      <4> DEFINE q == kTimingMinute * (i + 1)
      <4>3. q >= kTimingMinute /\ q \in Int
        BY <3>4, WheelFacts, MulStep
      <4>4. DueAt(level, i, x.rest, t, m) = m + q + x.rest
        BY <3>7 DEF DueAt
      <4> HIDE DEF q
      <4> QED BY <4>2, <4>3, <4>4, <3>5, <2>1, <1>2, <1>3, WheelFacts
    <3> QED BY <3>6, <3>7
  <2> QED BY <2>1, <2>2, <2>3, WheelFacts
<1>5. MinuteAtMostEarly
  BY <1>2 DEF FiringsOK, MinuteAtMostEarly, HasFired
<1>6. OnlyWholeMinutesBreak
  BY <1>1, <1>2 DEF BreaksOK, OnlyWholeMinutesBreak
<1> QED BY <1>4, <1>5, <1>6 DEF MinuteWheelInTime

\* An open connection is armed, with a delay that no breaking of the wheels loses.
LEMMA InvOpenIsTimed == WheelInv => OpenIsTimed
<1> SUFFICES ASSUME WheelInv, NEW c \in Conns, armed[c] # Never \/ fired[c] # Never, c \notin closed
             PROVE  Referenced(wheels, c)
  BY DEF OpenIsTimed
<1>1. PICK w, a, t : w = wheels /\ a = armed /\ t = tick
  OBVIOUS
<1>2. ArmedWait(w, a, t, broken) /\ ArmingsOK(a, t, last_ts, now) /\ TimeoutsClose(fired, closed)
  BY <1>1 DEF WheelInv, StateOK
<1>3. a[c] # Never
  BY <1>1, <1>2 DEF TimeoutsClose
<1>4. a[c].delay = MaxIdle
  BY <1>2, <1>3, ConnFacts DEF ArmingsOK, ArmingOK
<1>5. MaxIdle % kTimingMinute = MaxIdle
  BY ConnFacts, WheelFacts, ModSmall
<1>6. HasElement(c, w, a, t)
  BY <1>2, <1>3, <1>4, <1>5, ConnFacts, WheelFacts DEF ArmedWait, Lost
<1>7. PICK i \in Slots("second") : [entry |-> c, rest |-> Direct] \in w["second"][i]
  BY <1>4, <1>6, ConnFacts DEF HasElement
<1>8. Referenced(w, c)
  <2>1. PICK x : x = [entry |-> c, rest |-> Direct]
    OBVIOUS
  <2>2. x \in w["second"][i] /\ x.entry = c
    BY <1>7, <2>1
  <2>3. "second" \in Levels
    BY DEF Levels
  <2> QED BY <2>2, <2>3 DEF Referenced
<1> QED BY <1>1, <1>8

\* Every entry with a delay below a minute fires after exactly that many ticks, and
\* less than a second early by the clock (InsertSecondEntry, PopUp and OnTimer).
THEOREM AlwaysOnTime == Spec => []FiresOnTime
<1>1. WheelInv => FiresOnTime
  BY InvFiresOnTime
<1> QED BY <1>1, WheelCorrect, PTL

\* A delay of minutes is over at most a minute early and never late; only whole minutes
\* break the wheels; and hours and days are never over (InsertEntry and OnTimer).
THEOREM MinutesAlwaysInTime == Spec => []MinuteWheelInTime
<1>1. WheelInv => MinuteWheelInTime
  BY InvMinuteWheel
<1> QED BY <1>1, WheelCorrect, PTL

\* A connection that is open is in the wheel (EnableCheckIdleTimeout, ExtendLife).
THEOREM OpenAlwaysTimed == Spec => []OpenIsTimed
<1>1. WheelInv => OpenIsTimed
  BY InvOpenIsTimed
<1> QED BY <1>1, WheelCorrect, PTL

=============================================================================
