\* The same threads and constructors: a call reaches a pointer the
\* communicator never wrote, or NULL.
CONSTANTS
  b1 = b1
  b2 = b2
  Biz <- MCBiz
  Admin = Admin
  Closer = Closer
  NoThread = NoThread
  Garbage = Garbage
  MaxThreads = 2
  NetThread = {0, 1, 3}
  CtorKinds = {"conf", "default"}
SPECIFICATION Spec
INVARIANT NoBadDeref
