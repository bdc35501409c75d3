SPECIFICATION FairSpec
CONSTANTS
  Processes = {p1}
  Devices = {}
  Payloads = {a, b}
  MaxCalls = 4
  MaxChanges = 0
  MaxRestarts = 0
  Occurs = {"edit"}
PROPERTIES
  EveryApprovalEnds
CHECK_DEADLOCK FALSE
