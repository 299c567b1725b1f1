\* A timer of more than an hour.
SPECIFICATION Spec
CONSTANTS
  t1 = t1
  r1 = r1
  c1 = c1
  Timers = {t1}
  Tickers = {}
  Conns = {}
  kTimingMinute = 3
  kTimingHour = 6
  kTimingDay = 12
  MaxDays = 1
  Second = 1
  MaxIdle = 2
  Delays = {7}
  MaxNow = 10
  Direct = Direct
  Never = Never
INVARIANT DelaysEnd
CHECK_DEADLOCK FALSE
