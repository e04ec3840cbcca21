CONSTANTS
    c1 = c1  c2 = c2  c3 = c3
    Conn = {c1, c2, c3}
    DrainTime = 2
    AdminDelay = 1
    ExitTime = 1
    StopTimeout = 7
SYMMETRY Symmetry
SPECIFICATION Spec
INVARIANT TypeOK
INVARIANT CleanQuit
INVARIANT NeverKilled
INVARIANT ScriptOutlivesEnvoy
