SPECIFICATION FairSpec
CONSTANTS
  Campaign <- AllCampaigns
INVARIANTS
  AnswerTellsTheFault
  LinesAtRest
  NoBusContention
PROPERTIES
  AskedIsRun
