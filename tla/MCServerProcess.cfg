CONSTANTS
    Cap = 4
    Limit = 9
    N = 2
    Clients = {k1, k2, k3}
    Faults = 2
    SequenceMask = 1
    Times = 5
    Setbacks = 2
    Restarts = 1
    k1 = k1
    k2 = k2
    k3 = k3
SPECIFICATION ProcessSpec
INVARIANTS ProcessTypeOK ReaderSeesStream WriterKeepsOff StartedIsReady NoneDropped IdsUnique
PROPERTIES IsByteQueue ServerStartAndStopEnd
CHECK_DEADLOCK FALSE
