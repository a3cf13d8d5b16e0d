SPECIFICATION Spec
CONSTANTS
  Machine = {m1}
  Delay <- Delays
  Jitter = {0, 1}
  Nil = Nil
  MaxFaults = 1
INVARIANTS HoldsOncePerServer TimelyIsTagged
PROPERTIES NoticedSoon
