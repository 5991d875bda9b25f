CONSTANTS
  Producers = {p1}
  Consumers = {c1, c2}
  N = 1
  CounterMod = 2
  Items = 2
SPECIFICATION TimedSpec
PROPERTIES AllDelivered
