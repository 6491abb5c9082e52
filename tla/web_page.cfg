SPECIFICATION PageSpec
CONSTANTS
  Parent <- MCParent
  Documents <- MCDocuments
  Options <- MCOptions
  Selectors <- MCSelectors
  Awaited <- MCAwaited
  Targets <- MCTargets
  Texts <- MCTexts
  Lower <- MCLower
  Changing = {3}
  Timeout = 1
  Interval = 1
  MaxLate = 1
  MaxValue = 1
INVARIANTS PageTypes SnapshotIsExact ActsAsShown
PROPERTIES WaitAnswers
