\* Three users of three licenses.
CONSTANTS
  MAX_RESOURCES = 3
  Users = {u1, u2, u3}
  NoUser = NoUser
SPECIFICATION FairSpec
INVARIANTS LicensesConserved NeverRefused UnitsConserved
PROPERTIES TurnIsServed
