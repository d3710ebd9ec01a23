CONSTANTS
  MaxKex <- MCMaxKex
  Names <- MCNames
  Curves <- MCCurves
  NoId = NoId
SPECIFICATION Spec
INVARIANTS SessionIdBinding
