SPECIFICATION MCSpec
CONSTANTS
  AllowedRoots <- Roots
  TmpName <- TmpNames
  LineText <- TextsOfLines
  Spaces = {"", " "}
INVARIANTS
  PatchTypeOK
  ChunksInOrder
  UpdateMeansPatch
  ParsesWhatWasMeant
  PatchIsAPrefix
  FailedHunkKeepsFiles
  OnlyInRoots
CHECK_DEADLOCK FALSE
