CONSTANTS
  NoName = ""
  Comb = Comb
  Name <- MCName
  Edge <- MCEdge
  Domain <- MCDomain
  InputPorts <- MCInputPorts
  OutputPorts <- MCOutputPorts
  Temporaries <- MCTemporaries
  Processes <- MCProcesses
  Instances <- MCInstances
  MixedDrivers = TRUE
  MaxMembers = 2
SPECIFICATION Spec
INVARIANTS
  EmittedAsWritten
