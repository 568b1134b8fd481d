SPECIFICATION FairSpec
CONSTANTS
  Groups <- Architectures
  Endpoint <- Attests
  Bundle <- GpuAndSwitches
  Published <- TwoSets
  HasDisk = TRUE
  ShortLived = FALSE
  TokenLife = 1
  Backdated = 2
  MaxTime = 2
INVARIANTS TypeOK ReportsTheBundle GenuineNeverInvalid
PROPERTIES GenuineEndsInAVerdict
