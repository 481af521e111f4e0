SPECIFICATION FairSpec
CONSTANTS
  first = first
  second = second
  small = small
  page = page
  sheet = sheet
  Moves = {first, second, small}
  Blueprint <- MCBlueprint
  FilesOf <- MCFilesOf
  SingleMove = small
  Splittable = 1
  MaxRepairs = 1
  AutoRetryLimit = 1
  FrontierMax = 1
  CapOriginal = 2
  MaxAnswers = 1
  MaxFaults = 1
CHECK_DEADLOCK FALSE
  
PROPERTIES BuildEnds
