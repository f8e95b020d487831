SPECIFICATION FairSpec
CONSTANTS
  NoTask = NoTask
  w1 = w1  w2 = w2  w3 = w3  q1 = q1  q2 = q2  r1 = r1  r2 = r2  c1 = c1
  Workers <- MCWorkers
  Spare <- MCSpare
  Tasks <- MCTasks
  Multi <- MCMulti
  Units <- MCUnits
  Columns <- MCColumns
  Needs <- MCNeeds
  ReadOf <- MCReadOf
  Panics = {q2}
  Stops = TRUE
INVARIANTS TypeOK NoIdleSleeper TakenOnce
CHECK_DEADLOCK FALSE
PROPERTIES TaskServed WorkersExit
