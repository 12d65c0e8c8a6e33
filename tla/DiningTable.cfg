\* The table of five philosophers of the program itself.
SPECIFICATION FairSpec
INVARIANTS ForksExclusive NoLostSignal HungryOnlyIfBlocked TestOrderIrrelevant
PROPERTIES SomebodyEats
