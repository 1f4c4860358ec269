CONSTANTS
  Builds <- MCBuilds
  Layout <- MCLayout
  MaxMoment = 2
  MaxSaves = 2
SPECIFICATION Spec
INVARIANTS
  SoundInStep
  AcceptedIsOneSave
  CompleteFileRestores
  MachineInStep
