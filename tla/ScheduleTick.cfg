SPECIFICATION FairSpec
CONSTANTS
  Events = {"report", "poll", "once"}
  Setup <- MCSetup
  Editable = {"report"}
  Cursors = {1, 5}
  Counters = {0, 3}
  SecondsPerMinute = 2
  MaxMinute = 5
  MaxEdits = 2
  MaxFaults = 1
INVARIANTS CatchUpExact
PROPERTIES OncePerMinute OnTheBeat Drains
CHECK_DEADLOCK FALSE
