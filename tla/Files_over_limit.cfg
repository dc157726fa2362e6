SPECIFICATION MCSpec
CONSTANTS
  ann = ann
  eve = eve
  root = root
  f0 = f0
  f1 = f1
  f2 = f2
  p = p
  q = q
  g = g
  Users = {ann, eve, root}
  Admins = {root}
  Files = {f0, f1, f2}
  Stored = {f0}
  Requests = {p, q, g}
  Asks <- MCAsks
  Leaving = {ann}
  Local = TRUE
  Nobody = Nobody
  NoRow = NoRow
  NoAsk = NoAsk
  NoFile = NoFile
  NoToken = NoToken
  Earlier = Earlier
  NoPart = NoPart
  Sends <- MCSends
  Peek = 8
  Magic = 4
  Limit = 9
INVARIANT
  TooLargeIsRefused
CHECK_DEADLOCK FALSE
