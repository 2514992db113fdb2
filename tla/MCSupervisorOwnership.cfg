CONSTANTS
  s1 = s1
  s2 = s2
  s3 = s3
  k1 = k1
  k2 = k2
  sock1 = sock1
  sock2 = sock2
  dir1 = dir1
  dir2 = dir2
  SocketPath = {sock1, sock2}
  DescriptorDir = {dir1, dir2}
  Supervisor <- MCSupervisor
  Coordinator <- MCCoordinator
  SocketOf <- MCSocketOf
  DescriptorOf <- MCDescriptorOf
  Reusable = {s1}
  MaxCrashes = 1
  MaxStalls = 1
  MaxStops = 1
SYMMETRY MCSymmetry
SPECIFICATION Spec
INVARIANTS
  OInv
  OneOwner
  AdmissionUnbroken
PROPERTIES
  FenceRespected
CHECK_DEADLOCK FALSE
