---------------------------- MODULE TimingWheel ----------------------------
(***************************************************************************)
(* The timing wheel of an event loop (network/net/TimingWheel.cpp) with    *)
(* what hangs on it: one-shot timers (RunAfter), periodic ones (RunEvery)  *)
(* and the idle timeout of TCP connections (TcpConnection::ExtendLife).    *)
(*                                                                         *)
(* Four wheels of slots hold references to entries.  An entry fires when   *)
(* its last reference goes: its destructor runs the callback, so the same  *)
(* TimeoutEntry put into one slot more is a connection's life extended.    *)
(* A delay of a minute or more goes to a coarser wheel wrapped in a        *)
(* CallbackEntry that, when popped, inserts the entry again with the rest  *)
(* of the delay; such a wrapper is an element whose rest is not Direct.    *)
(*                                                                         *)
(* All of this runs on the loop's own thread.                              *)
(***************************************************************************)
EXTENDS Integers, FiniteSets

CONSTANTS
  Timers,         \* entries of RunAfter
  Tickers,        \* entries of RunEvery
  Conns,          \* TimeoutEntry of each connection
  kTimingMinute,  \* ticks in a minute (60), and slots of the second wheel
  kTimingHour,    \* 3600
  kTimingDay,     \* 86400
  MaxDays,        \* slots of the day wheel (30)
  Second,         \* least time between two ticks (1000 ms)
  MaxIdle,        \* max_idle_time_ (30), less than a minute
  Delays,         \* delays given to RunAfter and RunEvery, in seconds
  MaxNow,         \* bound: the clock
  Direct, Never   \* an element without a rest; an entry not armed, or not fired

Entries == Timers \cup Tickers \cup Conns

ASSUME WheelAssumption ==
  /\ kTimingMinute \in Nat \ {0} /\ kTimingHour \in Nat /\ kTimingDay \in Nat
  /\ kTimingMinute < kTimingHour /\ kTimingHour < kTimingDay
  /\ kTimingHour % kTimingMinute = 0 /\ kTimingDay % kTimingMinute = 0
  /\ MaxDays \in Nat \ {0}
  /\ Second \in Nat \ {0}
  /\ MaxIdle \in 1 .. kTimingMinute - 1
  /\ Delays \subseteq Nat
  /\ MaxNow \in Nat
  /\ Timers \cap Tickers = {} /\ Timers \cap Conns = {} /\ Tickers \cap Conns = {}
  /\ Direct \notin Nat /\ Never \notin [tick : Nat, delay : Nat, now : Nat]
  /\ Never \notin [after : Nat, delay : Nat, waited : Nat]

VARIABLES
  now,      \* the clock OnTimer is called with
  last_ts,  \* 0 until OnTimer is first called
  tick,
  wheels,   \* per wheel and slot, the elements that reference an entry
  closed,   \* connections that are closed
  broken,   \* an element was put outside its wheel, which is undefined
  armed,    \* history: when an entry was last inserted, and with which delay
  fired     \* history: how long after that it last fired

vars == <<now, last_ts, tick, wheels, closed, broken, armed, fired>>

Levels == {"second", "minute", "hour", "day"}

Slots(level) ==
  CASE level = "second" -> 0 .. kTimingMinute - 1
    [] level = "minute" -> 0 .. (kTimingHour \div kTimingMinute) - 1
    [] level = "hour"   -> 0 .. (kTimingDay \div kTimingHour) - 1
    [] level = "day"    -> 0 .. MaxDays - 1

Element == [entry : Entries, rest : Nat \cup {Direct}]

TypeOK ==
  /\ now \in Nat /\ last_ts \in Nat /\ tick \in Nat
  /\ DOMAIN wheels = Levels
  /\ \A level \in Levels : wheels[level] \in [Slots(level) -> SUBSET Element]
  /\ closed \in SUBSET Conns
  /\ broken \in BOOLEAN
  /\ armed \in [Entries -> [tick : Nat, delay : Nat, now : Nat] \cup {Never}]
  /\ fired \in [Entries -> [after : Nat, delay : Nat, waited : Nat] \cup {Never}]

Init ==
  /\ now = 1
  /\ last_ts = 0
  /\ tick = 0
  /\ wheels = [level \in Levels |-> [i \in Slots(level) |-> {}]]
  /\ closed = {}
  /\ broken = FALSE
  /\ armed = [e \in Entries |-> Never]
  /\ fired = [e \in Entries |-> Never]

-----------------------------------------------------------------------------
(* InsertEntry.                                                            *)

SecondSlot(delay) == delay - 1

TooFar(delay) == delay \div kTimingDay > MaxDays

Level(delay) ==
  CASE delay < kTimingMinute -> "second"
    [] kTimingMinute <= delay /\ delay < kTimingHour -> "minute"
    [] kTimingHour <= delay /\ delay < kTimingDay -> "hour"
    [] kTimingDay <= delay -> "day"

Unit(level) ==
  CASE level = "minute" -> kTimingMinute
    [] level = "hour"   -> kTimingHour
    [] level = "day"    -> kTimingDay

SlotOf(delay) ==
  IF Level(delay) = "second" THEN SecondSlot(delay)
                             ELSE (delay \div Unit(Level(delay))) - 1

Rest(delay) ==
  IF Level(delay) = "second" THEN Direct ELSE delay % Unit(Level(delay))

\* The wheels after InsertEntry(d, e) for each <<e, d>> of a set.
Inserted(w, entries) ==
  [level \in Levels |-> [i \in Slots(level) |->
     w[level][i] \cup {[entry |-> x[1], rest |-> Rest(x[2])] :
       x \in {y \in entries : ~TooFar(y[2]) /\ Level(y[2]) = level /\ SlotOf(y[2]) = i}}]]

\* With delay 0 the entry is released, but the code goes on to put a null
\* pointer into slot delay - 1 of the second wheel, which lies before the first.
Breaks(entries) == \E x \in entries : x[2] = 0

Armed(delay, t) == [tick |-> t, delay |-> delay, now |-> now]

-----------------------------------------------------------------------------
(* PopUp: a wheel's front slot is emptied and its references dropped.      *)

Rotated(w, level) ==
  [w EXCEPT ![level] = [i \in Slots(level) |->
     IF i + 1 \in Slots(level) THEN @[i + 1] ELSE {}]]

Referenced(w, e) ==
  \E level \in Levels : \E i \in Slots(level) : \E x \in w[level][i] : x.entry = e

\* Mutant of Released: an entry goes with the first slot that held it.
ReleasedAtOnce(popped, w) == {x.entry : x \in {y \in popped : y.rest = Direct}}
Released(popped, w) ==
  {e \in {x.entry : x \in {y \in popped : y.rest = Direct}} : ~Referenced(w, e)}

\* One PopUp at the given tick, from state [wheels, armed, fired, closed, broken]
\* to the next: wrappers insert their entries again, entries without a reference
\* left fire, RunEvery's callback inserts a new entry, and a TimeoutEntry closes
\* its connection.

\* Mutant of TimedOut: OnTimeout only logs.
OnlyLogged(entries) == {}
TimedOut(entries) == entries \cap Conns

PopUp(s, level, t) ==
  LET popped == s.wheels[level][0]
      again  == {<<x.entry, x.rest>> : x \in {y \in popped : y.rest # Direct}}
      w      == Inserted(Rotated(s.wheels, level), again)
      due    == Released(popped, w)
      ticks  == {<<e, s.armed[e].delay>> : e \in due \cap Tickers}
  IN  [wheels |-> Inserted(w, ticks),
       closed |-> s.closed \cup TimedOut(due),
       broken |-> s.broken \/ Breaks(again) \/ Breaks(ticks),
       fired  |-> [e \in Entries |-> IF e \notin due THEN s.fired[e] ELSE
                     [after |-> t - s.armed[e].tick, delay |-> s.armed[e].delay,
                      waited |-> now - s.armed[e].now]],
       armed  |-> [e \in Entries |->
                     CASE e \in due \cap Tickers -> Armed(s.armed[e].delay, t)
                       [] e \in due \ Tickers    -> Never
                       [] e \notin due           -> s.armed[e]]]

\* The coarser wheel that turns at a tick, if any: the tests are chained with
\* else, so that the first that holds is the only one.
\* Mutant of CoarseWheel: the minute wheel turns every hour.
MinutesEveryHour(t) == IF t % kTimingHour = 0 THEN {"minute"} ELSE {}
CoarseWheel(t) ==
  IF t % kTimingMinute = 0 THEN {"minute"}
  ELSE IF t % kTimingHour = 0 THEN {"hour"}
  ELSE IF t % kTimingDay = 0 THEN {"day"} ELSE {}

-----------------------------------------------------------------------------
(* Actions.                                                                *)

\* Time passes between two rounds of the loop.
Elapse ==
  /\ ~broken /\ now < MaxNow
  /\ now' = now + 1
  /\ UNCHANGED <<last_ts, tick, wheels, closed, broken, armed, fired>>

\* The first call of OnTimer; like every call within a second it does no more.
FirstOnTimer ==
  /\ ~broken /\ last_ts = 0
  /\ last_ts' = now
  /\ UNCHANGED <<now, tick, wheels, closed, broken, armed, fired>>

\* A second has passed since the last tick.
SecondPassed == last_ts # 0 /\ now - last_ts >= Second

OnTimer ==
  LET t  == tick + 1
      s  == PopUp([wheels |-> wheels, armed |-> armed, fired |-> fired,
                   closed |-> closed, broken |-> broken], "second", t)
      s2 == IF CoarseWheel(t) = {} THEN s
            ELSE PopUp(s, CHOOSE level \in CoarseWheel(t) : TRUE, t)
  IN  /\ ~broken /\ SecondPassed
      /\ last_ts' = now
      /\ tick' = t
      /\ wheels' = s2.wheels
      /\ closed' = s2.closed
      /\ broken' = s2.broken
      /\ fired' = s2.fired
      /\ armed' = s2.armed
      /\ UNCHANGED now

\* Arms an entry with a delay.
Insert(e, delay) ==
  /\ wheels' = Inserted(wheels, {<<e, delay>>})
  /\ broken' = Breaks({<<e, delay>>})
  /\ armed' = [armed EXCEPT ![e] = Armed(delay, tick)]
  /\ UNCHANGED <<now, last_ts, tick, closed, fired>>

\* RunAfter; a timer's name is used for one timer.
RunAfter(e, delay) ==
  /\ ~broken /\ armed[e] = Never /\ fired[e] = Never /\ ~TooFar(delay)
  /\ Insert(e, delay)

\* InsertEntry refuses a delay beyond the day wheel, which drops the last
\* reference to the entry: it fires at once.
RunAfterTooFar(e, delay) ==
  /\ ~broken /\ armed[e] = Never /\ fired[e] = Never /\ TooFar(delay)
  /\ fired' = [fired EXCEPT ![e] = [after |-> 0, delay |-> delay, waited |-> 0]]
  /\ UNCHANGED <<now, last_ts, tick, wheels, closed, broken, armed>>

\* (With a delay too far RunEvery would call itself without end.)
RunEvery(e, delay) ==
  /\ ~broken /\ armed[e] = Never /\ ~TooFar(delay)
  /\ Insert(e, delay)

\* TcpServer::OnAccept enables the idle timeout of a new connection.
EnableCheckIdleTimeout(c) ==
  /\ ~broken /\ armed[c] = Never /\ c \notin closed
  /\ Insert(c, MaxIdle)

\* OnRead or OnWrite: the entry goes into one slot more while it is alive.
ExtendLife(c) ==
  /\ ~broken /\ c \notin closed /\ Referenced(wheels, c)
  /\ Insert(c, MaxIdle)

\* The peer closes, or a read or write fails; the entry stays in the wheel.
OnClose(c) ==
  /\ ~broken /\ armed[c] # Never /\ c \notin closed
  /\ closed' = closed \cup {c}
  /\ UNCHANGED <<now, last_ts, tick, wheels, broken, armed, fired>>

Next ==
  \/ Elapse \/ FirstOnTimer \/ OnTimer
  \/ \E e \in Timers, delay \in Delays : RunAfter(e, delay) \/ RunAfterTooFar(e, delay)
  \/ \E e \in Tickers, delay \in Delays : RunEvery(e, delay)
  \/ \E c \in Conns : EnableCheckIdleTimeout(c) \/ ExtendLife(c) \/ OnClose(c)

Spec == Init /\ [][Next]_vars

-----------------------------------------------------------------------------
(* Properties.                                                             *)

HasFired(e) == fired[e] # Never

\* An entry whose delay is below a minute fires exactly that many ticks after it
\* was last inserted: a connection times out MaxIdle ticks after its last read
\* or write, however often its life was extended, and no timer is lost or run
\* ahead by the rotation (InsertSecondEntry and PopUp, TimingWheel.cpp:29, 111).
FiresOnTick ==
  \A e \in Entries : HasFired(e) /\ fired[e].delay < kTimingMinute =>
    fired[e].after = fired[e].delay

\* In time by the clock, such an entry fires less than a second early: ticks are
\* at least a second apart, but the one under way counts in full
\* (OnTimer, TimingWheel.cpp:94).
LessThanASecondEarly ==
  \A e \in Entries : HasFired(e) /\ fired[e].delay \in 1 .. kTimingMinute - 1 =>
    fired[e].waited >= (fired[e].delay - 1) * Second

\* The two together, for a delay of less than a minute (InsertSecondEntry, PopUp and
\* OnTimer), in wheels of the right type.
FiresOnTime == TypeOK /\ FiresOnTick /\ LessThanASecondEarly

\* An entry of the minute wheel, too, fires by its delay: nothing that waits in
\* the second or the minute wheel is overdue (OnTimer, TimingWheel.cpp:99-101).
NothingOverdue ==
  \A e \in Entries : armed[e] # Never /\ armed[e].delay < kTimingHour =>
    broken \/ tick - armed[e].tick < armed[e].delay

\* And at most a minute early, since the minute wheel turns on the wheel's own
\* minutes and not a minute after the entry came (InsertMinuteEntry).
MinuteAtMostEarly ==
  \A e \in Entries :
    HasFired(e) /\ kTimingMinute < fired[e].delay /\ fired[e].delay < kTimingHour =>
      fired[e].after \in fired[e].delay - kTimingMinute .. fired[e].delay

\* Something is written outside a wheel only for an entry whose delay is a whole
\* number of minutes: its wrapper inserts it again with a rest of 0, which is
\* released and then used all the same (TimingWheel.cpp:69-73).  A delay of 0 from
\* the caller would do the same.
OnlyWholeMinutesBreak ==
  broken => \E e \in Entries : armed[e] # Never /\ armed[e].delay % kTimingMinute = 0

\* What becomes of a delay of a minute or more, below an hour: fired within a minute
\* before it is due, never late, but for a whole number of minutes, with which the
\* wheels fail (InsertEntry and OnTimer, TimingWheel.cpp:65-107).
MinuteWheelInTime ==
  NothingOverdue /\ MinuteAtMostEarly /\ OnlyWholeMinutesBreak

\* "Schedules a callback function to run after a specified delay" (TimingWheel.h:92): an
\* entry of any delay has fired when as many seconds have passed, those of an hour or
\* a day as well, whose wheels are said to turn every hour ("每小时触发一次") and every
\* day (TimingWheel.cpp:103, 105).
DelaysEnd ==
  \A e \in Entries : armed[e] # Never =>
    broken \/ tick - armed[e].tick <= armed[e].delay

\* A connection that is open is in the wheel, so that it will time out should it
\* fall silent (EnableCheckIdleTimeout and ExtendLife, TcpConnection.cpp:287).
OpenIsTimed ==
  \A c \in Conns : armed[c] # Never \/ fired[c] # Never =>
    c \in closed \/ Referenced(wheels, c)

=============================================================================
