SPECIFICATION Spec
CONSTANTS
    c1 = c1  c2 = c2  s1 = s1  s2 = s2
    Cpu = {c1, c2}  Source = {s1}
    Limits = {2}  Incs = {1}  Window = 2  TickMod = 8  Retries = 2
    Boot = 7  MaxTime = 3  MaxLag = 1  MaxElem = 2
SYMMETRY CpuSymmetry
INVARIANTS TypeOK CountExact BurstBound
PROPERTIES AdmittedWithinLimit DropJustified ChecksAreAtomic
