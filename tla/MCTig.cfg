CONSTANTS
  NoName = ""
  Comb = Comb
  Name <- MCName
  Edge <- MCEdge
  Domain <- MCDomain
  InputPorts <- MCInputPorts
  OutputPorts <- MCOutputPorts
  Temporaries <- MCTemporaries
  Processes <- MCProcesses
  Instances <- MCInstances
  MixedDrivers = FALSE
  MaxMembers = 4
SPECIFICATION Spec
INVARIANTS
  TigTypeOK
  InputsAligned
  ReferencesResolve
  MappedNameIsCarried
  OneCarrier
  DriversAreLayered
  EmittedAsWritten
  InstanceInputsInOrder
  ReadersAreConnected
