SPECIFICATION MeshSpec
CONSTANTS
  MaxLevel = 2
  MaxEps = 9
  MaxFlow = 2
PROPERTIES
  NoFlip
  MeshSettles
