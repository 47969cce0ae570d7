\* Two of everything that races, one of what it races about.
SPECIFICATION FormsSpec
CONSTANTS
  c1 = c1
  c2 = c2
  w1 = w1
  w2 = w2
  Words = {w1, w2}
  Edits = {c1, c2}
  Replies = {r1}
  MaxRequests = 2
  Submissions <- MCSubmissions
  Filers = {c1, c2}
  MaxIds = 2
  NoSid = NoSid
  NoOne = NoOne
  Knocks = {c1, c2}
  Visitors = {v1}
  PerVisitor = 2
  PerForm = 1
  MaxKey = 1
  Prices = {1, 2, 3}
  Figures = {0, 2, 4}
  Requesters = {c1, c2}
  SmallestPrice = 1
  LargestPrice = 2
  Amounts = {1, 2}
  MaxAnswers = 3
  Questions = 2
  Imports = {c1, c2}
  FileEmails = {e1}
  FilePhones = {p1}
  NoValue = NoValue
  RowCount = 2
  MaxContacts = 5
  Batch = 2
  Contacts = {k1, k2, k3}
  Singles = {t1}
  Rosters = {d1}
  Mergers = {c1, c2}
  MaxMerges = 2
  MaxEdits = 1
  MaxStops = 1
  Nobody = Nobody
  Stages = {s1, s2, s3}
  Deals = {d1}
  Admins = {c1, c2}
  Writers = {c1, c2}
  MaxChanges = 3
  NoStage = NoStage
  NoOpp = NoOpp
  k1 = k1
  k2 = k2
  s1 = s1
  s2 = s2
SYMMETRY Actors
INVARIANTS
  WebFormHolds
  LeadsHold
  LimitsHold
  AnswersHold
  ImportHolds
  MergeHolds
  
PROPERTIES
  FiguresHold
CHECK_DEADLOCK FALSE
