SPECIFICATION FairSpec
CONSTANTS
  Docs = {"main.ns", "lib.ns"}
  Texts = {"wrong", "broken", "wide"}
  Parses <- ParsesIn
  TypeErrors <- TypeErrorsIn
  VerifyErrors <- VerifyErrorsIn
  VerifyFindings <- VerifyFindingsIn
  Lines <- LinesOf
  Positions <- Places
  MaxMessages = 3
INVARIANTS AnswersFit
PROPERTIES CatchesUp EndsOnExit
