\* A catalog of three features and two apps; tables that fill up half-way through a boot; and the C++ services with the same capacities.
SPECIFICATION NativeSpec
CONSTANTS
  MaxApps = 4
  MaxTiles = 4
  MaxFeatures = 5
  MaxNotifications = 3
  MaxContacts = 1
  MaxMessages = 3
  DefaultFeatures <- MCFeatures
  DefaultApps <- MCApps
  DeveloperTools = {"log-viewer"}
  DeveloperMode = FALSE
  ClientApps = {"phone", "log-viewer", "game", "chess"}
  Contacts = {"ann"}
  Calls = {"boot", "shutdown", "install_app", "launch_app", "evaluate_store_removal", "push_notification", "add_contact", "send_message"}
  ServiceApps = {"", "phone", "store", "game", "chess", "notes"}
  ServiceNames = {"", "ann"}
  Titles = {"t", "u"}
  Badges = {0, 3}
INVARIANTS TypeOK CatalogWholeWhenBooted AppsInstalledOnce RecordsNumbered
PROPERTIES ServicesAreTables
