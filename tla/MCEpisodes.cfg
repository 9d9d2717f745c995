CONSTANTS
  c1 = c1
  c2 = c2
  c3 = c3
  r1 = r1
  r2 = r2
  b1 = b1
  b2 = b2
  Absent = Absent
  Torn = Torn
  NoCall = NoCall
  Calls = {c1, c2, c3}
  Refs = {r1, r2}
  CampaignRefs = {r1}
  Bytes = {b1, b2}
  MaxOutput = 2
  MaxSent = 2
  MaxSteps = 3
  MaxRounds = 1
  Operations = {"create", "edit", "pause", "resume", "complete", "block", "clear"}
SPECIFICATION EpisodesSpec
CHECK_DEADLOCK FALSE
INVARIANTS HealthyIsWhole EpisodeTellsTruth
PROPERTIES ReadsServed RegisterSpec EventuallyReadable RunnersSettle
