\* Four hosts, each on small tables of its own.
SPECIFICATION WatchedSpec
CONSTANTS
  MaxLogEvents = 2
  LogSequenceModulus = 4
  MaxInterrupts = 2
  CountModulus = 3
  Irqs = {1, 2, 3}
  MaxHalDevices = 4
  DeviceClasses = {"CAMERA", "LTE"}
  Codenames = {"lumia-710", "lumia-520", "lumia-950", "other"}
  MaxFiles = 2
  PathHeads = {"a", "b", "c"}
  HashHeads = {"g", "h"}
  Rests = {0, 1}
  MaxPackages = 3
  Manifests <- MCManifests
  Calls = {"register_interrupt", "raise_interrupt", "hal_register", "hal_write", "install_lumia_hal", "add_file", "move_file_to_trash", "archive_file", "check_file_integrity", "install_bapp"}
  ClientDevices <- MCDevices
  MaxRaised = 4
  MayInstall <- MCMayInstall
INVARIANTS TypeOK FilesAsAdded DevicesUnique InterruptsCounted ProfilesAnswer
PROPERTIES PackagesAreTable ProfileWholeUnlessFull
