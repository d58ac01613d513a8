\* Files of up to three lines, and domains and parameters added by the API.
CONSTANTS
  Lines <- MCLines
  MaxLines = 3
  CurPaths <- MCCurPaths
  Names <- MCNames
  Keys <- MCKeys
  Vals <- MCVals
SPECIFICATION Spec
INVARIANT RoundTrip
