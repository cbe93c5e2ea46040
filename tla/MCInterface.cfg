CONSTANTS
  Null = Null
  Voltages <- MCVoltages
  Configs <- MCConfigs
  NucaBanks = 2
  WireLists <- MCWireLists
  Builds <- MCBuilds
  NucaCaches <- MCNucaCaches
  NucaRuns <- MCNucaRuns
  NucaPicks <- MCNucaPicks

SPECIFICATION Spec

INVARIANTS
  ResultsAsAsked
  Answered
  OwnParameters
  ParametersFit
  GateStatesCounted
  WiresRight
  NucaRight
