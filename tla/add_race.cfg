CONSTANTS
  plain = plain
  proxied = proxied
  again = again
  i1 = i1
  i2 = i2
  i3 = i3
  i4 = i4
  i5 = i5
  skill = skill
  t1 = t1
  t2 = t2
  Requests = {plain, proxied, again}
  Asked <- MCAsked
  Overlay <- MCOverlay
  Paths = {skill}
  Given <- MCGiven
  Inodes = {i1, i2, i3, i4, i5}
  Partial = Partial
  None = None
SPECIFICATION Spec
INVARIANTS
  OnlyValidated
CHECK_DEADLOCK FALSE
