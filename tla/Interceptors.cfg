SPECIFICATION Spec
CONSTANTS
  all = all
  some = some
  fetch = fetch
  http = http
  again = again
  xhr = xhr
  source = source
  connect = connect
  addRequest = addRequest
  fetchKey = fetchKey
  response = response
  None = None
  Interceptor <- AllInterceptors
  Batch <- Batches
  Source <- source
  Unsupported <- UnsupportedOnes
  Key <- Keys
  Setup <- Setups
  Event <- Events
  MaxListeners <- AddedListeners
INVARIANTS
  TypeOK
  AppliedWhileOwned
  RelaysFollowListeners
  HeardOnce
PROPERTY FailedApplyChangesNothing
