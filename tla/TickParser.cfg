CONSTANTS
  SamplingResolution = 3
  MaxFrames = 7
  DiffBufferCount = 2
  SyncThreshold = 4
  AdjustmentInertia = 4
SPECIFICATION Spec
INVARIANTS AssertionsHold OneSelectionPerTick
PROPERTIES SelectedHasHeadroom
