\* Three students, two chairs.
CONSTANTS
  NUM_STUDENTS = 3
  NUM_TA_CHAIRS = 2
SPECIFICATION CountSpec
INVARIANTS NoNegativeChairs
