SPECIFICATION SpecI2C
CONSTANTS
    MaxObjects = 2
    Tasks = {t1, t2}
    Devices = {d1}
    Registers = {r1, r2}
    Values = {v1, v2}
    None = None
    Done = Done
    Failed = Failed
INVARIANT Inv
PROPERTY IsRegisterFile
