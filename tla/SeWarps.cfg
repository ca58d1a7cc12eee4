SPECIFICATION KnSpec
CONSTANTS
  KnCases <- WideSe
  KnWarp = 2
INVARIANT SeLayerExact
CHECK_DEADLOCK FALSE
