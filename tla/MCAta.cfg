SPECIFICATION FairSpec
CONSTANTS
    CPS = 2
    Word = 8
    ATA_TIMEOUT = 1
    Ops = {"ata_read", "ata_write", "atapi_read", "ata_probe"}
    NBlocks = 2
    MaxSlack = 1
INVARIANTS WaitBounded
PROPERTIES SuccessMeansAnswered OperationEnds
