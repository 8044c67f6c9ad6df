SPECIFICATION Spec
CONSTANTS
  Threads = {t1, t2, t3}
  NoThread = NoThread
  Events = {event}
  Notifs = {notif}
  Timers = {timer}
  Mutexes = {mutex}
SYMMETRY Symmetry
CHECK_DEADLOCK FALSE
INVARIANT
  MutexNotLost
