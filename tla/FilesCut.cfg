\* One path and hashes longer than their buffer.
SPECIFICATION WatchedSpec
CONSTANTS
  MaxLogEvents = 2
  LogSequenceModulus = 4
  MaxInterrupts = 1
  CountModulus = 2
  Irqs = {1}
  MaxHalDevices = 2
  DeviceClasses = {"LTE"}
  Codenames = {"lumia-710", "lumia-950"}
  MaxFiles = 3
  PathHeads = {"a"}
  HashHeads = {"g", "h"}
  Rests = {0, 1}
  MaxPackages = 1
  Manifests = {}
  Calls = {"add_file", "move_file_to_trash", "archive_file", "check_file_integrity"}
  ClientDevices = {}
  MaxRaised = 0
  MayInstall <- MCMayInstall
INVARIANTS AddedContentValidates
