CONSTANTS
  Calls = {c1, c2}
  Channels = {n1, n2}
  Closable = {n1}
  Message = c1
  Channel = n1
SPECIFICATION DeliverySpec
INVARIANTS FailuresReported NoSendAfterClose LossReported
PROPERTIES EverybodyReturns ImplementsManager
