CONSTANTS
  MaxRx = 3
  Faults = {"line", "xmodem"}
SPECIFICATION FairSpec
INVARIANTS
  DoneMeansFlashed
  NoMisplacedImage
PROPERTIES
  EveryRunEnds
