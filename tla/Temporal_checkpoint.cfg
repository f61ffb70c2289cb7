SPECIFICATION Spec
CONSTANTS
  TickWriter = {1}
  Status = {"on", "off"}
  Wanted = {"on"}
  FillerAdds = {0, 1}
  Sinces = {2}
  MaxTickPatches = 3
INVARIANT CheckpointTicksAreClosed
CHECK_DEADLOCK FALSE
