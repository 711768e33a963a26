\* Administrator rotation by itself: two removals that count before either writes.
SPECIFICATION RotationSpec
CONSTANTS
  Admin = {a1, a2, a3}
  NoAdmin = NoAdmin
  MinimumAdmins = 2
  Required = {2}
  RotationCall = {c1, c2}
PROPERTY MinimumKept
CHECK_DEADLOCK FALSE
