\* One account, two administrators, one call at a time on either of two replicas.
CONSTANTS
  rd = rd
  wr = wr
  Addresses = {u1}
  Presets = {"team"}
  Edits = {"disable", "root", "delete"}
  Editors = {a1, a2}
  Setters = {s1}
  Calls = {c1}
  Replicas = {p1, p2}
  Tools = {rd, wr}
  Catalogs <- MCCatalogs
  Policies <- MCPolicies
  BasicAuth = TRUE
  MaxEdits = 3
  MaxChanges = 3
  MaxHeld = 1
SPECIFICATION AccessSpec
SYMMETRY Symmetry
CHECK_DEADLOCK FALSE
PROPERTIES KillSwitchHolds TeamRunsReadOnly DisabledToolIsOut PlatformAccountsGuarded
