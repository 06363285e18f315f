SPECIFICATION Spec
CONSTANTS
  Users = {u1, u2}
  Nobody = Nobody
  MaxSends = 6
INVARIANTS
  MenuFitsUser
  SettledAgrees
  SubmitCredited
PROPERTY
  ExitCompletes
