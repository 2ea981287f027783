CONSTANTS
    Cores <- MCCores
    Tuples <- MCTuples
    Programs <- MCPrograms
    MaxTxns <- MCMaxTxns
    MaxTick = 3
    CoreIds = 8
    NumIds = 8
    ReadOnlyEpochMultiplier = 1
SPECIFICATION Spec
INVARIANTS SiloTypeOK NoLockCycle Serializable EpochsAreSerial
