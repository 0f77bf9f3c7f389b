SPECIFICATION FairSpec
CONSTANTS
  file = file
  folder = folder
  Selection <- TheSelection
  Archives <- TheArchives
  Jobs = {j1}
  Nothing = Nothing
  Starts = {s1}
  NoStart = NoStart
  Conns = {1, 2, 3}
  Sessions = {x, y}
  Entered = Entered
  MaxFetches = 1
  Habits <- Calm
INVARIANTS
  PageTypeOK
  DisplayedIsJoined
  NothingLeaks
  
  NoStreamForgotten
PROPERTIES
  
  PageSettles
  CameraSwitchedOff
