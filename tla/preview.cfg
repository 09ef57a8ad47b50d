SPECIFICATION Spec
CONSTANTS
  Loads = {l1, l2}
  Rules = {movies, shows}
  Nothing = Nothing
  TTL = 2
  MaxTime = 3
SYMMETRY PreviewSymmetry
INVARIANTS TypeOK FreshReply SwitchedOffIsGone MissingWasOff
