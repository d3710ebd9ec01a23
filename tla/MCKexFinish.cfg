CONSTANTS
  MaxKex <- MCMaxKex
  Names <- MCNames
  Curves <- MCCurves
  NoId = NoId
SPECIFICATION Spec
INVARIANT FinishedKexHasKeys
