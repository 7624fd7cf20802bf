CONSTANTS
  Geometries <- ThinGeometries
  Images <- ThinImages
  Scales = {0}
  Streams <- ThinStreams
SPECIFICATION Spec
INVARIANT NeverPanics
CHECK_DEADLOCK FALSE
