SPECIFICATION Spec
CONSTANTS
  Client = {c1, c2}
  Nobody = Nobody
  Blank = Blank
  Nothing = Nothing
  Failed = Failed
  MaxFd = 3
  MaxWorker = 3
  Mode <- HastyMode
SYMMETRY ClientSymmetry
INVARIANT
  EachClientHasItsWorker
