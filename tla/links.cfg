SPECIFICATION FairSpec
CONSTANTS
  Batches <- LinkBatches
  Pools <- LinkPools
  Concurrency = 2
  MaxDelay = 2
  Remarks <- LinkRemarks
  MaxLinks = 4
  Width = 4
  MaxPeers = 2
CHECK_DEADLOCK FALSE
INVARIANTS
    
    PickedTunnel
    PositionsAgree
    SniffsPoolOnly
    
PROPERTIES
    ProbeReturns
