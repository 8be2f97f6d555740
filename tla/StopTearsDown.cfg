CONSTANTS
  Runs = {1, 2}
  Stops = {s}
  None = None
SPECIFICATION Spec
PROPERTY StopTearsDown
