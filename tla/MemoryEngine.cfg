SPECIFICATION EngineSpec
CONSTANTS
  Senders = {s1, s2}
  Receivers = {r1}
  MayCancel = {s2}
  NoPayload = NoPayload
  Engines = {e1}
  Clients = {c1, c2}
  Main = c1
  None = None
INVARIANTS
  WaiterIsWoken
  NoServedConnEscapes
PROPERTIES
  RecvReturns
  PipeIsQueue
  DialedIsAccepted
CHECK_DEADLOCK FALSE
