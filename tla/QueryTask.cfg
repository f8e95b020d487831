SPECIFICATION FairSpec
CONSTANTS
  w1 = w1  w2 = w2  w3 = w3
  Threads <- MCThreads
  Queries <- MCQueries
INVARIANTS TypeOK AnswerComplete AnswerSize EachPartitionOnce ReferencedAlive MergesBalanced CanceledOnlyByPanic
PROPERTIES Promise QueryResolves
CHECK_DEADLOCK FALSE
