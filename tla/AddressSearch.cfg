SPECIFICATION FairSpec
CONSTANTS
  NumCores = 4
  ThreadCap = 3
  Key <- MCKey
  Target <- MCTarget
  Exact <- MCExact
  Folded <- MCFolded
  Unverifiable = {"broken"}
  Request <- MCRequest
INVARIANTS
  StopsAfterAnnouncement
  AnnouncementsComplete
  CongratsUnlessAllQuit
PROPERTIES
  SearchSafety
  Termination
  FindReleasesCaller
