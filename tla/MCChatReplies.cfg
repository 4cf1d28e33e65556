SPECIFICATION FairSpec
CONSTANTS
  WsRun = {w1}
  HttpRun = {h1, h2}
  MaxSeq = 1
  Task = {t1, t2}
  NoRun = NoRun
  MaxEvents = 4
  MaxFaults = 1
INVARIANTS ShownOnceBeforeTheEnd OneWatchdog RepliesAccounted
PROPERTY StoredIsAnnounced
CHECK_DEADLOCK FALSE
