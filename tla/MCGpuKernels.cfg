SPECIFICATION Spec
CONSTANTS
  Temp = 2
  Room = 2
  Slots = 2
  Warp = 2
  Tile = 2
  FlashBlock = 2
  Streams <- AllStreams
INVARIANTS OrderForeseen ResultForeseen StraysForeseen DivergenceForeseen
