CONSTANTS
  pkt0 = pkt0
  pkt1 = pkt1
  pkt2 = pkt2
  pkt3 = pkt3
  Channels = {0, 1}
  kFrameDataSize = 5
  kPrimaryHeaderSize = 2
  kMaxPacket = 7
  CountMod = 3
  QueueLimit = 2
  Offers <- MCOffers
  AirLimit = 1
SYMMETRY Symmetry
SPECIFICATION Spec
PROPERTIES ImplementsLink LossesCounted
