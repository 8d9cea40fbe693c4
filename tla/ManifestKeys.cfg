\* A table of three packages and manifests of up to four lines.
SPECIFICATION WatchedSpec
CONSTANTS
  MaxLogEvents = 2
  LogSequenceModulus = 4
  MaxInterrupts = 1
  CountModulus = 2
  Irqs = {1}
  MaxHalDevices = 2
  DeviceClasses = {"LTE"}
  Codenames = {"lumia-710", "lumia-950"}
  MaxFiles = 1
  PathHeads = {"a"}
  HashHeads = {"h"}
  Rests = {0}
  MaxPackages = 3
  Manifests <- MCManifests
  Calls = {"install_bapp"}
  ClientDevices = {}
  MaxRaised = 0
  MayInstall <- MCMayInstall
PROPERTIES InstalledUnderItsId
