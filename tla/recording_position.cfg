\* A recording of a monitor that knows its position.
SPECIFICATION Spec
CONSTANTS
  Nems = {1, 2}
  Missing = Missing
  Invocations <- LocatedMonitor
INVARIANT EachMeasurementConverted
CHECK_DEADLOCK FALSE
