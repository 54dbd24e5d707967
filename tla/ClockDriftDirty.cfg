CONSTANTS
  SamplingResolution = 3
  MaxFrames = 6
  DiffBufferCount = 2
  SyncThreshold = 4
  AdjustmentInertia = 4
  SubSamples = 8
  MaxDrift = 0
  MaxJitter = 1
SPECIFICATION ClockSpec
PROPERTIES SelectedIsClean
