CONSTANTS
  v1 = v1
  v2 = v2
  Client <- TwoViewers
  Key <- Keys
  Suggested <- SuggestedCodes
  KeyMaps <- TwoKeyMaps
  NoKeyMap = NoKeyMap
  MaxHeld = 3
  NoClient = NoClient
  MayPoint <- TwoViewers
  Masks = {{}, {"left"}, {"left", "right"}, {"up"}}
  Widths = {1, 2}
  MaxX = 1
  Scale = 2
  Margin = 1
  ClickTime = 0
  MaxClicks = 2
  MaxLeft = 3
SPECIFICATION InputSpec
SYMMETRY Symmetry
INVARIANTS
  InputIsKnown
  ModifiersAreRestored
  NothingStaysDown
PROPERTIES
  DragsAreWhole
CONSTRAINT FewLeft
