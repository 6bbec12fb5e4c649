CONSTANTS
  Unlisted <- MCUnlisted
  Argcs <- MCArgcs
  Overrides <- MCOverrides
SPECIFICATION Spec
INVARIANTS
  ForwardedCanBeShared
