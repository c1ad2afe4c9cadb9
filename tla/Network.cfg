SPECIFICATION Spec
CONSTANTS
  Inputs = {"left", "zero"}
  Undecodable = {"zero"}
  Capacity = 3
  MaxFrame = 3
  MaxEpoch = 3
  MaxPending = 2
  MaxSent = 2
  Origins = {o1, o2}
  Sessions = {s1, s2}
  KeyIds = {k1}
  KeyOf <- OneKey
  MaxOrigins = 1
  ClockSkew = 1
  SessionTimeout = 2
  Rate = 2
  PacketCost = 2
  Burst = 1
  RequireEstablished = FALSE
  Window = 2
  MaxSequence = 2
  MaxTime = 3
  MaxAccepted = 2
  k1 = k1
  peer = peer
  Anyone = Anyone
  MaxRules = 1
  RequireConfidentialTransport = TRUE
  Peers <- Peer
  Roles = {"Player", "Operator"}
  Nonces = {1, 2}
  Entities = {1, 2}
  Keys <- RootKeys
  Validity <- KeyValidity
  MaxKeys = 2
  HelloSkew = 1
  SessionLifetime = 2
  MaxReplayEntries = 2
  RuleBook <- TwoRules
  Batches <- BothEntities
  Transports <- Tls
  MaxSessionTime = 2
  MaxHellos = 2
  MaxChanges = 2
SYMMETRY Interchangeable
INVARIANTS
  
  
  HandshakeAgreement
  ExecutedIsEntitled
  DecodedIsWritten
PROPERTIES
  
  SessionBoundsAcceptance
