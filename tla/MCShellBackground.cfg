SPECIFICATION Spec
CONSTANTS
  Commands <- MCCommands
  MaxPid = 6
  MaxJobs = 2
PROPERTIES AmpersandReturns
