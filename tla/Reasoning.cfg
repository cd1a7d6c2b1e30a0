SPECIFICATION FairSpec
CONSTANTS
  flow = flow
  vibration = vibration
  sop = sop
  hist = hist
  fake = fake
  Sensors = {flow, vibration}
  Sops = {sop}
  Histories = {hist}
  Invented = {fake}
  FullSignature = 2
  Answers <- MC_Answers
  Raises = TRUE
  MaxReadings = 2
  MaxQuestions = 1
  Retrieve <- MC_Retrieve
  MaxSignatureWaits = 2
  MaxEvidenceWaits = 1
  MaxToolRounds = 2
  Calls <- MC_Calls
  Texts <- MC_Texts
  MaxLines = 4
INVARIANT ReasoningTypeOK
INVARIANT CitesOnlyWhatWasShown
INVARIANT PlanningIsVisible
INVARIANT RecommendedIsWhatWasWritten
PROPERTY InvestigationSpec
PROPERTY HandlersEnd
PROPERTY DiagnosedIsPlannedOrLogged
CHECK_DEADLOCK FALSE
