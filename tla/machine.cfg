SPECIFICATION Spec
CONSTANTS
  Path = {p1, p2, p3}
  PathCapacity = 2
  Byte = 2
  Session = {1, 5}
  Daemons = {"pathtracelogger", "commandlistener", "inject", "sniff"}
  Lines = {1}
  ScriptRuns = 3
  Packets = 4
  Plans <- MCPlans
INVARIANTS TypeOK ListWithinCount UnloadIsSafe
PROPERTIES ImplementsLedger DaemonsEnd
CHECK_DEADLOCK FALSE
