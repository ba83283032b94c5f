SPECIFICATION FairSpec
CONSTANTS
    Ip = {1, 2, 3, 4}  Capacity = 3  InitKernel = {1, 2}
    Lists = {{2, 3}, {3, 4}, {}}
    Wants <- MCWants  InitWant <- MCInitWant
    MaxReloads = 1  MaxFaults = 1
INVARIANTS TypeOK OldOrUnion ReconcileRestores
PROPERTIES AllOrNothing RuntimeSettles
