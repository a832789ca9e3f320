SPECIFICATION Spec
CONSTANTS
  MaxFaults = 1
  Polls = 2
  Platform = "linux"
  Scenarios <- MCScenarios
  Fragments <- MCFragments
  Routines <- MCRoutines
  Overrides <- MCOverrides
  FVMs = 2
  FSteps = 2
  MaxFrames = 2
  Label <- MCLabel
  Deferred <- MCDeferred
  Clients = {c1}
  LiveRuns = 2
  LiveLines = 2
  Trees <- MCWideTrees
  MaxChanges = 1
  Tries = 2
  Endpoints = 2
  Images = {1, 2}
  Hours = 1
  TTL = 0
  Width = 1280
  Coords <- MCCoords
  Turns = 1
  BVMs <- MCVMs
  Deploys <- MCDeploys
  Revs = 3
  Strays = {1}
  Refs <- MCRefs
  Ports = {1, 2, 3}
  Waits = 2
INVARIANT NoStranger
CHECK_DEADLOCK FALSE
