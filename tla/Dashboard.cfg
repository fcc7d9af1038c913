SPECIFICATION DashboardSpec
CONSTANTS
  Clients = {c1}
  Keys = {k1}
  Slots = {r1, r2}
  NoClient = NoClient
  NoKey = NoKey
  Fields <- LinkColumns
  MaxFaults = 1
  Served <- DashboardOps
  Tabs = {t1, t2}
  Emails = {seed_email, own_email}
  Passwords = {seed_password, own_password}
  SeedEmail = seed_email
  SeedPassword = seed_password
  Missing = Missing
  Malformed = Malformed
  MaxErrors = 1
  Period = 4
  Threshold = 12
  Timeout = 3
  Lag = 6
SYMMETRY Symmetry
INVARIANTS LogExplainsState AnsweredIsLogged AnsweredAsApplied
           OnlineIsRecent OfflineIsEarned
PROPERTIES DefaultPasswordStaysGone
CHECK_DEADLOCK FALSE
