SPECIFICATION ChannelSpec
CONSTANTS
  Attempt = {1, 2}
  OddStatic = {"initiator", "responder"}
  MaxFailed = 3
  Words = 3
  Bits = 3
  MaxCounter = 10
  UsizeMod = 16
CHECK_DEADLOCK FALSE
INVARIANTS WindowExact PartnersAgree NoMixedHandshake SealedOnce
PROPERTIES ImplementsOnceDelivery
