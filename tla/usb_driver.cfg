SPECIFICATION FairSpec
CONSTANTS
    Requests <- MCRequests
    MaxRequests = 3
    MaxFaults = 1
INVARIANTS TypeOK ReplyExact SetupReady AddressAgrees InterruptWhole
PROPERTIES WriteExact TransferEnds
