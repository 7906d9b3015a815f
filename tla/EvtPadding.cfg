CONSTANTS
  Image <- MCImage
  Heads <- MCHeads
  Parent = 1
  Children <- MCChildren
  Replacements <- MCReplacements
  PatchShorter = TRUE
  EVT_ENTRY_MAX = 1
  MaxPatches = 1
  MaxRuns = 1
SPECIFICATION EvtSpec
INVARIANT DoesTheEditedLines
CHECK_DEADLOCK FALSE
