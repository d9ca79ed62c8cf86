\* A one-shot sandbox with an arbitrary supervisor.
SPECIFICATION Spec
CONSTANTS
  Requests <- MCRequests
  Expected <- MCExpected
  Exchanges = 2
  PeerRequests = 1
  Buffer = 1
PROPERTIES ControlFrameIsReadable ShotReachesItsEnd
