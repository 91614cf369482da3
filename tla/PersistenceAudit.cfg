\* All the calls may have been made, hence no deadlock check.
SPECIFICATION FairAuditSpec
CONSTANTS
  c1 = c1
  c2 = c2
  whatsapp = whatsapp
  telegram = telegram
  memory = memory
  s1 = s1
  s2 = s2
  a = a
  b = b
  Blob = Blob
  Chats = {c1, c2}
  Agents = {whatsapp, telegram}
  AgentOf <- Channel
  Memories = {memory}
  Skills = {s1, s2}
  Facts = {a, b}
  Requests <- SomeCalls
  Disks <- OneSkill
  MaxFacts = 2
  MaxEvents = 2
  MaxCalls = 2
  MaxMishaps = 2
CHECK_DEADLOCK FALSE
INVARIANTS
  AuditTrue
PROPERTIES
  NothingLost
  LearningEnds
