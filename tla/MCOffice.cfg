\* Two of everything that races, one of what it races about.
SPECIFICATION OfficeSpec
CONSTANTS
  c1 = c1
  c2 = c2
  Hosts = {h1}
  Keys = {k1}
  Calls = {c1, c2}
  MaxAppointments = 2
  LastTime = 2
  Rule <- MCRule
  Notice = 1
  Hours <- MCHours
  Midnight <- MCMidnight
  Utc <- MCUtc
  NoHost = NoHost
  NoKey = NoKey
  NoCall = NoCall
  Callers = {c1, c2}
  Starts = {2, 3}
  Mailed = {"reminder"}
  ReminderLead = 1
  LastHour = 3
  MaxDeaths = 1
  Users = {u1, u2}
  Invites = {i1}
  TeamCalls = {c1, c2}
  MaxToken = 2
  MaxTeamDeaths = 1
  Attempts = {c1, c2}
  Threshold = 2
  MaxGuesses = 7
  ToolCalls = {t1, t2}
  SameKey = {t1, t2}
  Undoers = {c1, c2}
  MaxToolDeaths = 1
  PayEvents = {e1, e2}
  Deliveries = {c1, c2}
  Payers = {y1}
  MaxClaims = 2
  Mailboxes = {m1, m2}
  SendingBoxes = {m1, m2}
  GrantCalls = {c1, c2}
  MaxGrantCalls = 4
  NoMailbox = NoMailbox
  Digests = {d1}
  Gates = {g1, g2}
  Checks = {k1}
  Reviewers = {c1, c2}
  NoDigest = NoDigest
SYMMETRY Actors
INVARIANTS
  BookingHolds
  AppointmentHolds
  SignInHolds
  ToolCallsHold
  
  SecurityHolds
PROPERTIES
  TeamHolds
  PaymentsHold
CHECK_DEADLOCK FALSE
