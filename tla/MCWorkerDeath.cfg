SPECIFICATION Spec
CONSTANTS
  Client = {c1, c2, c3}
  Nobody = Nobody
  Blank = Blank
  Nothing = Nothing
  Failed = Failed
  MaxFd = 2
  MaxWorker = 3
  Mode <- RoughMode
SYMMETRY ClientSymmetry
INVARIANT
  ServerSurvivesClients
