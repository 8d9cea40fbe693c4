\* Boots and shutdowns only.
SPECIFICATION Spec
CONSTANTS
  MaxApps = 4
  MaxTiles = 4
  MaxFeatures = 5
  MaxNotifications = 2
  MaxContacts = 1
  MaxMessages = 2
  DefaultFeatures <- MCFeatures
  DefaultApps <- MCApps
  DeveloperTools = {"log-viewer"}
  DeveloperMode = FALSE
  ClientApps = {"phone", "log-viewer", "game", "chess"}
  Contacts = {"ann"}
  Calls = {"boot", "shutdown"}
PROPERTIES BootEndsBooted
