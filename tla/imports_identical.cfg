SPECIFICATION Spec
CONSTANTS
  TemplateContents <- ManyContents
  ListContents <- Lists
  Shelves <- TwoShelves
  NewName <- Third
  None = None
  Limits <- ImportLimits
PROPERTY IdenticalReadsTheSame
CHECK_DEADLOCK FALSE
