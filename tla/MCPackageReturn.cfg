CONSTANTS
  w1 = w1
  x1 = x1
  sys = sys
  Sources = {w1}
  ExportPaths = {x1}
  PathOf <- MCPathOf
  Systems = {sys}
  SystemOf <- MCSystemOf
  Bytes = {d1, d2}
  Plans = {plan}
  Builds = {b1}
  MaxBuilds = 1
  MaxOutside = 3
SPECIFICATION PackageSpec
PROPERTIES UnownedFilesAreRefused
CHECK_DEADLOCK FALSE
