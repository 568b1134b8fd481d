CONSTANTS
  Configs <- MCConfigs
  KeyFiles <- MCKeyFiles
  Host <- MCHost
  Requests <- MCRequests
  Shipped = 2
  GpuBuild = TRUE
  MaxStarts = 2
  MaxTime = 1
SPECIFICATION Spec
INVARIANTS TokensStayVerifiable AttestedVerifies
PROPERTIES NonePassesBelowTheServersFloors TokensAnswerAChallenge
CHECK_DEADLOCK FALSE
