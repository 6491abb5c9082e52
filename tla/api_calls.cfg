SPECIFICATION CallsSpec
CONSTANTS
  Apis <- MCApis
  Arguments <- MCArguments
INVARIANTS CallsTypes CallsAreUnderstood
