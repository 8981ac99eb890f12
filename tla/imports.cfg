SPECIFICATION Spec
CONSTANTS
  TemplateContents <- FewContents
  ListContents <- Lists
  Shelves <- TwoShelves
  NewName <- Third
  None = None
  Limits <- ImportLimits
PROPERTY AllOrNothing
PROPERTY UnaskedStays
PROPERTY RestoreIsWhole
CHECK_DEADLOCK FALSE
