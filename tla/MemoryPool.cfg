SPECIFICATION Spec
CONSTANTS
  Clients <- MCClients
  MaxExt = 2
INVARIANTS FreePagesKnown GentleClientsSafe
CHECK_DEADLOCK FALSE
