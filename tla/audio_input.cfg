SPECIFICATION Spec
CONSTANTS
  Client = {c1}
  Devices <- ShippedDevices
  Streams <- ShippedStreams
  Routes <- ShippedRoutes
  Percent = {0}
  InitialMixer <- ShippedMixer
  MissingCtls = {}
  MaxRaces = 0
INVARIANTS ConnectedDeviceEnabled
