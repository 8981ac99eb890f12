SPECIFICATION EditingSpec
CONSTANTS
  removed = removed
  none = none
  Keys <- MCKeys
  FormEdits <- MCFormEdits
  RawEdits <- MCRawEdits
  Files <- MCFiles
  Old <- MCOld
  Removed = removed
  NoPage = none
  MaxEdits = 3
INVARIANTS CustomKeysSurvive AppliedIsRendered WhatIsSavedOpens OpeningChangesNothing
