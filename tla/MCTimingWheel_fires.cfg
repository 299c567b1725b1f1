\* A timer, a periodic timer and a connection on the second and minute wheels.
SPECIFICATION Spec
CONSTANTS
  t1 = t1
  r1 = r1
  c1 = c1
  Timers = {t1}
  Tickers = {r1}
  Conns = {c1}
  kTimingMinute = 3
  kTimingHour = 6
  kTimingDay = 12
  MaxDays = 1
  Second = 1
  MaxIdle = 2
  Delays = {2, 3, 5, 7, 40}
  MaxNow = 7
  Direct = Direct
  Never = Never
INVARIANTS FiresOnTime MinuteWheelInTime OpenIsTimed
CHECK_DEADLOCK FALSE
