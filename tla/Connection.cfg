CONSTANTS
  HelloUnits = 2
  KeyUnits = 2
  SyncUnits = 2
  Nonce = {n1, n2}
  Network = {"net1", "net2"}
  Secret <- MCSecret
  Setups <- NearSetups
SPECIFICATION FairSpec
INVARIANTS NothingSentEarly QueueIsAgreed RejectedForCause
PROPERTIES HandshakeCompletes
CHECK_DEADLOCK FALSE
