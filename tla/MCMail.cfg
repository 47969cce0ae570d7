\* Two approvals of a message and one of a note; two letters, two polls, one person.
SPECIFICATION LettersSpec
CONSTANTS
  Approvals = {a1, a2}
  Subjects = {m1, m2}
  InternalMessages = {m2}
  Workers = {w1}
  Operators = {o1}
  Reconcilers = {r1}
  NoSubject = NoSubject
  NoApproval = NoApproval
  Letters = {l1, l2}
  Convs = {c1, c2}
  Threads = {t1}
  Polls = {p1, p2}
  People = {h1}
  MaxTurns = 1
  MaxMailFaults = 1
  NoConv = NoConv
  NoLetter = NoLetter
  NoThread = NoThread
  l1 = l1
  l2 = l2
  c1 = c1
PROPERTIES
  UnknownResolves
  
CHECK_DEADLOCK FALSE
