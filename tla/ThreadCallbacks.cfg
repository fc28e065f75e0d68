\* Whether callback runs come to an end.
SPECIFICATION FairSpec
CONSTANTS
  Runs = {r1, r2}
  Callbacks = {1, 2}
  NoRun = NoRun
  NoCallback = 0
  Workers = {w1}
  MaxMishaps = 0
PROPERTY
  CallbackRunsStop
