\* Claims, callbacks and the ends of runs in one thread, with one crash or failed
\* enqueue and one late run at a time; it never stops.
SPECIFICATION Spec
CONSTANTS
  Runs = {r1, r2, r3}
  Callbacks = {1, 2}
  NoRun = NoRun
  NoCallback = 0
  Workers = {w1, w2}
  MaxMishaps = 1
CONSTRAINT OneLate
SYMMETRY SlotSymmetry
VIEW LiveSlots
INVARIANTS
  TypeOK
  
  PendingIsWatched
PROPERTY
  ConsumedWasShown
