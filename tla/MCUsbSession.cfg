CONSTANTS
  stream = stream
  send = send
  reboot = reboot
  Caller = {stream, send, reboot}
  Opener = Opener
  Kind <- EachKind
  None = None
  MaxOut = 1
SPECIFICATION FairSpec
INVARIANTS OpenIsAtPrompt ResponseIsOwn DeadlineIsOwn
PROPERTY CallsReturn
