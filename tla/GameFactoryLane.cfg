SPECIFICATION Spec
CONSTANTS
  Tasks = {t}
  Instances = {i, j}
  None = None
  MaxAttempts = 2
  MaxCommands = 1
  MaxFaults = 2
  Stalls = FALSE
INVARIANTS SecurityWins EndedIsDead EffectOnce
