SPECIFICATION Spec
CONSTANTS
  Requests = {a, b}
  Tokens = {t1, t2}
  Credentials = {c1, c2}
  Secrets = {s1, s2}
  None = None
INVARIANTS TypeOK BasicHasUser MfaHasSecret
PROPERTIES EndedStaysEnded ChangesNeedSession ImplementsSigning
SYMMETRY Symmetry
