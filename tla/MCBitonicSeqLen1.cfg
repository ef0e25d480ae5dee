\* len 1 (roundup64(1) = 1): spec.md says the sort completes trivially.
CONSTANTS
  N = 1
  InitArrays <- MCInitArrays

SPECIFICATION Spec

INVARIANT AccessesInBounds
