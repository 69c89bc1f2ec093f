CONSTANTS
  Users = {u1, u2}
  Empty = Empty
  NoUser = NoUser
  None = None
  MaxLines = 2
SPECIFICATION Spec
INVARIANTS
  UserChecked
