\* Two files of every kind, two tries of a retry unit, as many faults, one restart; two
\* timer callbacks; the gate turns one of the files away now and again.
SPECIFICATION FairSpec
CONSTANTS
  Files = {f1, f2}
  Ticks = {t1, t2}
  Refusable = {f1}
  Attempts = 2
  MaxNonce = 1  MaxFaults = 2  MaxCrashes = 1
INVARIANTS OneAtATime DoneIsSettled
PROPERTY VerdictLands
