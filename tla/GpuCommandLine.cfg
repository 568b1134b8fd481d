SPECIFICATION FairSpec
CONSTANTS
  Groups <- Architectures
  Endpoint <- Attests
  Bundle <- GpuAndSwitches
  Published <- TwoSets
  HasDisk = TRUE
  ShortLived = TRUE
  TokenLife = 1
  Backdated = 2
  MaxTime = 2
PROPERTIES GenuineEndsInAVerdict
