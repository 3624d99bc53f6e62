\* All recordings of up to three frames, both tools, both formats, whole or torn.
SPECIFICATION FairSpec
CONSTANTS
  Nems = {1, 2}
  Missing = Missing
  Invocations <- MCInvocations
INVARIANTS TypeOK RowsTellRecording ConvertsConvertible
PROPERTY Ends
CHECK_DEADLOCK FALSE
