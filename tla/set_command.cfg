SPECIFICATION Spec
CONSTANTS
  Err = Err
  None = None
  Garbled = Garbled
  Nobody = Nobody
  MaxNumber = 4
  Senders = {g, h}
  HostSenders = {h}
  Receivers = {r1, r2}
  HostReceivers = {r2}
  OpKinds = {"demo", "clear", "get", "remove", "set"}
  MaxMessages = 1
  MaxLinks = 3
  MaxFailures = 1
INVARIANT ReadsBack
CHECK_DEADLOCK FALSE
