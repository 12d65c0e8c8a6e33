\* What the comment in return_forks hopes for: no philosopher starves.
SPECIFICATION FairSpec
PROPERTIES NobodyStarves
