SPECIFICATION Spec
CONSTANTS
    None = None  Hollow = Hollow
    MaxLoads = 1  MaxFaults = 0  MaxDeaths = 0
INVARIANT UnloadRemoves
