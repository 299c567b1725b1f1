\* Two loops whose tasks may go to each other; the pipe holds two writes.
SPECIFICATION FairSpec
CONSTANTS
  l1 = l1
  l2 = l2
  Loops = {l1, l2}
  ForwardLoops = {l1, l2}
  PipeSize = 2
  MaxTasks = 3
  Free = Free
INVARIANT TasksSafe
PROPERTIES TaskRuns QuitEndsLoop
CHECK_DEADLOCK FALSE
