\* An api and a site server of two versions, one request and one stream at once, two
\* connections of the listener, and a backoff that reaches its end at the third failure.
SPECIFICATION FairSpec
CONSTANTS
  Services = {api, serve}
  Apis = {api}
  Nobody = Nobody
  Newest = 2
  Connections = {c1, c2}
  NoConnection = NoConnection
  ReconnectMin = 1
  ReconnectMax = 4
  EndsAreQuick = TRUE
  MaxRequests = 1
INVARIANTS
  ServiceTypeOK
  StartsAreSafe
  
PROPERTIES
  ListensAgain
CHECK_DEADLOCK FALSE
