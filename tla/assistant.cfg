CONSTANTS
  describe = describe
  ahp = ahp
  download = download
  transform = transform
  x = x
  y = y
  r1 = r1
  None = None
  Tools = {describe, ahp, download, transform}
  High <- MCHigh
  Args = {x, y}
  Valid <- MCValid
  Quoting <- MCQuoting
  OfflineCall <- MCOffline
  Requests = {r1}
  MaxRounds = 2
  MaxAnswer = 2
SPECIFICATION FairSpec
INVARIANTS
  EachCallOnce
  SettledIsSettled
PROPERTIES
  MessageEnds
