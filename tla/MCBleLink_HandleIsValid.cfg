CONSTANTS
  MaxLinks = 2
  MaxChunks = 1
SPECIFICATION Spec
INVARIANT HandleIsValid
