SPECIFICATION Spec
CONSTANTS
  Client = {c1, c2}
  Devices <- RoutedDevices
  Streams <- RoutedStreams
  Routes <- RoutedRoutes
  Percent = {0, 100}
  InitialMixer <- RoutedMixer
  MissingCtls = {"absent"}
  MaxRaces = 1
SYMMETRY Clients
INVARIANTS RoutesExact StreamsExact
