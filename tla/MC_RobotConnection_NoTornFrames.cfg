SPECIFICATION Spec
CONSTANTS
  c1 = c1
  c2 = c2
  t1 = t1
  t2 = t2
  None = None
  Conns = {c1, c2}
  Callers = {t1, t2}
  LoginShapes <- FullLogin
  FirstSeq = 2
  SeqModulus = 3
  MaxMessages = 3
  MaxRequests = 2
INVARIANTS
  NoTornFrames
