SPECIFICATION FairSpec
CONSTANTS
  Devices = {phone, laptop}
  Gestures = {{"draft"}, {"messages"}}
  Migrated = {}
  None = None
  Fast = {laptop}
  Lead = 1
  MayShrink = FALSE
  MaxEdits = 2
  MaxDeletes = 1
  MaxFaults = 1
INVARIANTS NothingMissed NothingStranded DeleteSticks
PROPERTIES Converges
