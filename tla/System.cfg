CONSTANTS
  Threshold = 2
  HealthyTicks = 2
  MaxFailures = 2
SPECIFICATION FairSpec

  
  
PROPERTIES
  
  OneInterface
  
  WifiKeepsTrying
