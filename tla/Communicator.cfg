\* Two business threads, the admin thread and a closer, calling in any
\* order, on a communicator made by either constructor.
CONSTANTS
  b1 = b1
  b2 = b2
  Biz <- MCBiz
  Admin = Admin
  Closer = Closer
  NoThread = NoThread
  Garbage = Garbage
  MaxThreads = 2
  NetThread = {0, 1, 3}
  CtorKinds = {"conf", "default"}
SPECIFICATION Spec
INVARIANT TypeOK MutexExclusive EpollCreatedOnce EpollMatchesThreadNum
