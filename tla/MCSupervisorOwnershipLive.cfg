CONSTANTS
  s1 = s1
  s2 = s2
  s3 = s3
  k1 = k1
  k2 = k2
  sock1 = sock1
  sock2 = sock2
  dir1 = dir1
  dir2 = dir2
  SocketPath = {sock1}
  DescriptorDir = {dir1, dir2}
  Supervisor <- MCPair
  Coordinator <- MCCoordinator
  SocketOf <- MCSocketOfPair
  DescriptorOf <- MCDescriptorOfPair
  Reusable = {k1}
  MaxCrashes = 2
  MaxStalls = 1
  MaxStops = 1
SPECIFICATION LiveSpec
PROPERTIES
  StartupSettles
  EventuallyAdmitted
CHECK_DEADLOCK FALSE
