SPECIFICATION Spec
CONSTANTS
  Campaign <- PassElsewhere
INVARIANTS
  AnswerTellsTheFault
