SPECIFICATION Spec
CONSTANTS
  VALIDITY_DAYS = 3
  EXPIRY_SLACK_DAYS = 1
  MaxDay = 4
  MaxPair = 2
  MaxConn = 1
  Missing = Missing
  Torn = Torn
  None = None
INVARIANTS TypeOK KeyErrorNeedsCut ServedInDate ServedIsKept
PROPERTIES CtrlCCutsNoAnswer StopsOnCtrlC
