\* As in the program: as many threads as the barrier waits for.
CONSTANTS
  Threads = {t1, t2, t3, t4, t5}
  N = 5
SPECIFICATION FairSpec
INVARIANTS NoLostBroadcast
PROPERTIES ImplementsRendezvous EveryoneKeepsPassing
