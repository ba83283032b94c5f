SPECIFICATION Spec
CONSTANTS
    Service <- MCService  Default <- MCDefault
    Socket <- MCSocket  InitOpen <- MCInitOpen
    Files <- MCFiles  InitFile <- MCInitFile
    Admin = {a1}  Cidr = {"src"}  EditPort = {80}
    CliTrust = {"cli"}  Keep = {22}
    Table = {"t1", "t2"}  InitKernel <- MCInitKernel  None = None
    MaxChanges = 1  MaxEdits = 2  MaxHups = 1  MaxFaults = 1

PROPERTY ReloadTakesEffect
CHECK_DEADLOCK FALSE
