SPECIFICATION Spec
CONSTANTS
    None = None  Hollow = Hollow
    MaxLoads = 3  MaxFaults = 3  MaxDeaths = 1
INVARIANTS TypeOK HandlerNeverLost OldStaysPinned AllOrNothing NoStaleValidation
