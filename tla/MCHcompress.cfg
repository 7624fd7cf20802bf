CONSTANTS
  Geometries <- MCGeometries
  Images <- MCImages
  Scales = {0, 3}
  Streams <- MCStreams
SPECIFICATION Spec
INVARIANTS
  PlanesAccumulate
  PixelsAreRestored
CHECK_DEADLOCK FALSE
