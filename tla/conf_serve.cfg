SPECIFICATION Spec
CONSTANTS
  a1 = a1  a2 = a2  d1 = d1  d2 = d2  t1 = t1  g1 = g1  g2 = g2  g3 = g3
  s1 = s1  s2 = s2  r1 = r1  p1 = p1  p2 = p2  p3 = p3
  coordinator = coordinator  worker = worker  tokens = tokens  steps = steps  spawn = spawn
  deny = deny  egress = egress  x = x  y = y
  None = None
  Unset = Unset
  Agents = {a1, a2}
  Admins = {d1, d2}
  Tools = {t1}
  GPOs = {g1, g2, g3}
  Policies = {p1, p2, p3}
  Types = {coordinator, worker}
  Part <- Apart
  Levels = {0, 2}
  Keys = {tokens, steps, spawn}
  SealedKeys = {tokens, steps}
  QuotaKey = tokens
  Values = {0, 1, 2, 3}
  Lists = {deny, egress}
  Items = {x, y}
  Deny = deny
  Egress = egress
  Defaults <- KeyDefaults
  Listed <- InOrder
  GPOAttrs <- Instructions
  Draft <- Drafts
  Existing <- Known
  Versions <- Edited
  Files <- EditedFiles
  FirstPolicy <- Policies1
  FirstFile <- Files1
  Services = {s1, s2}
  Askers = {s1}
  Refs = {r1}
  MaxRequests = 3
INVARIANTS TypeOK CreatedOnce HighestWins SealedAsStrict ShownIsUsed CredentialsKept
CHECK_DEADLOCK FALSE
