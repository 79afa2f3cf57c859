CONSTANTS
  r250 = r250
  r500 = r500
  p1 = p1
  p2 = p2
  NoRate = NoRate
  NoPid = NoPid
  Rates = {r250, r500}
  FdMode = TRUE
  ListenSupported = TRUE
  CanRate = r500
  VehicleRate = r250
  Configs <- SoundConfigs
  FbWait = 2
  Pids = {p1, p2}
  Stress = {}
SPECIFICATION FairSpec
INVARIANTS
  NoGuessedTransmit
  NoInheritedMute
  MuteIsWarned
  CanUpAtLaunch
  RestartApplies
PROPERTIES
  HandsOff
  EventuallyHeard
