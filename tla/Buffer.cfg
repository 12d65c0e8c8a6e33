\* Two producers and one consumer on two slots; two values of rand().
CONSTANTS
  BUFFER_SIZE = 2
  Producers = {p1, p2}
  Consumers = {c1}
  Items = {7, 8}
  NoThread = NoThread
SPECIFICATION FairSpec
INVARIANTS SemWaitNeverBlocks
PROPERTIES ImplementsQueue Terminates
