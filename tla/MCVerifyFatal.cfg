SPECIFICATION Spec
CONSTANTS
  IoUs = {u1, u2, u3}
  Threads = {t1, t2}
  Jobs <- MCFatal
INVARIANT FatalReported
