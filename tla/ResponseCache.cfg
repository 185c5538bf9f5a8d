SPECIFICATION Spec
CONSTANTS
  HttpClients = {h1}
  GrpcClients = {g1}
  StringIds = {h1}
  Queries <- TwoChains
  HttpAsks <- Readings
  GrpcAsks <- Rounded
  CacheableMethods <- StaticMethods
  TTL = 1
  MaxDelay = 1
INVARIANTS
  HitAnswersQuery
  HitIsRecent
