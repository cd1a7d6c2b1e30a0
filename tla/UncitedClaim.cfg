SPECIFICATION Spec
CONSTANTS
  flow = flow
  vibration = vibration
  sop = sop
  hist = hist
  fake = fake
  Sensors = {flow, vibration}
  Sops = {sop}
  Histories = {hist}
  Invented = {fake}
  FullSignature = 2
  Answers <- MC_Answers
  Raises = FALSE
  MaxReadings = 1
  MaxQuestions = 0
  Retrieve <- MC_Retrieve
  MaxSignatureWaits = 2
  MaxEvidenceWaits = 1
  MaxToolRounds = 2
  Calls <- MC_Calls
  Texts <- MC_Texts
  MaxLines = 4
INVARIANT UncitedClaimNeverRecorded
CHECK_DEADLOCK FALSE
