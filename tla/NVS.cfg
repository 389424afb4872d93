SPECIFICATION SpecNVS
CONSTANTS
    Tasks = {t1, t2}
    Keys = {k1, k2}
    Values = {1, 2}
    Objects = {o1, o2}
    None = None
    Done = Done
    Failed = Failed
    NotFound = NotFound
    TooLong = TooLong
SYMMETRY Symmetry
INVARIANT LengthStaysTrue
PROPERTY IsKeyStore
