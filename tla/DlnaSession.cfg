SPECIFICATION Spec
CONSTANTS
  Files <- MCFiles
  None = None
  NoToken = NoToken
  Targets <- MCTargets
  Bitrates = {96}
  Covered <- MCCovered
  MaxRuns = 2
  Signing = TRUE
  TTL = 1
  MaxClock = 1
  Playlists <- MCPlaylists
  MaxPage = 1
  Root <- MCRoot
  Real <- MCReal
  Agents <- MCAgents
  Styles <- MCStyles
  PageCount = 2
INVARIANTS TypeOK TreeCoherent PagesAddUp LinksPlay FreshListing SuccessIsStored
PROPERTIES SourceKept
CHECK_DEADLOCK FALSE
