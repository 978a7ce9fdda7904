\* One peer besides the service, transitions 0, 1 and 2, a second websocket for
\* a reconnect or a resume, and two sequenced events.
SPECIFICATION Spec
CONSTANTS
  Self = self
  Users = {self, peer}
  Ids <- MCIds
  MaxLinks = 2
  MaxSeq = 2
  None = None
INVARIANTS
    
    ReadyMatchesRuntime
PROPERTIES
    AdoptedOnExecute
    HeartbeatsEnd
    AttemptsReturn
