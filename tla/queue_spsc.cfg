\* The pipeline's use: one producer and one consumer; the counters wrap at 4.
CONSTANTS
  Producers = {p1}
  Consumers = {c1}
  N = 2
  CounterMod = 4
  Items = 9
SPECIFICATION FairSpec
INVARIANTS TypeOK SizeIsDistance EachSentOnce NoStrandedWaiter
PROPERTIES ImplementsFifo AllDelivered
