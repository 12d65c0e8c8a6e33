\* One student more than there are chairs.
CONSTANTS
  NUM_STUDENTS = 4
  NUM_TA_CHAIRS = 3
SPECIFICATION FairSpec
INVARIANTS StudentStays OneAtATime NapOnlyIfNobodyWaits
PROPERTIES EveryoneSeatedIsHelped
