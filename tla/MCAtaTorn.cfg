SPECIFICATION Spec
CONSTANTS
    CPS = 2
    Word = 8
    ATA_TIMEOUT = 1
    Ops = {"ata_probe"}
    NBlocks = 1
    MaxSlack = 1
INVARIANT NoEarlyTimeout
