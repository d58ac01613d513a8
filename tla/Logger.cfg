\* One writer, two pool threads, a configuring thread and the group's
\* owner; three lines and three setupThread/unSetupThread calls.  A
\* statement's LoggerBuffer: a limit of 4, initial lengths below, at and
\* above it, two operator<< pieces of up to 5 characters each.
CONSTANTS
  w1 = w1
  p1 = p1
  p2 = p2
  Writers <- MCWriters
  Pool <- MCPool
  Conf = Conf
  Owner = Owner
  MaxMsgs = 3
  MaxConf = 3
  MAX_BUFFER_LENGTH = 4
  BufferLens = {1, 3, 4, 5}
  MaxPut = 5
SPECIFICATION Spec
\* Once the group is destroyed and every line written, every thread has
\* ended: the program stops there.  A thread stuck before that is caught
\* by the two liveness properties.
CHECK_DEADLOCK FALSE
INVARIANT TypeOK NoLossNoDup LoggerBufferWrites
PROPERTY BufferedEventuallyLogged GroupStops
