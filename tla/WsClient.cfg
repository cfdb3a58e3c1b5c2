\* Two frame sizes against an inbound queue of two; four sends, so that one is
\* under way, one queued and one posted while a fourth comes.
SPECIFICATION FairSpec
CONSTANTS
  MaxSends = 4
  MaxReceived = 4
  FrameSizes = {1, 2}
  InboundCap = 2
INVARIANTS TypeOK OneWriteAtATime CloseAlone InboundInOrder
PROPERTIES ImplementsChannel ImplementsFairChannel StopReturns
