CONSTANTS
  SamplingResolution = 4
  MaxFrames = 40
  DiffBufferCount = 2
  SyncThreshold = 4
  AdjustmentInertia = 4
  SubSamples = 16
  MaxDrift = 2
  MaxJitter = 4
SPECIFICATION ClockSpec
PROPERTIES
  OneSelectionPerSecond
  SelectedIsClean
  InternalClockFollows
  SelectsAllFrames
