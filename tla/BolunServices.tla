---------------------------- MODULE BolunServices ----------------------------
(***************************************************************************)
(* The C++ services of src/kernel/cpp/: AppManager, TileService,            *)
(* NotificationCenter, PeopleHub and MessagingService.  Each owns a vector  *)
(* of records and takes its texts uncut; each has the capacity of the       *)
(* kernel's table of the same kind, but calls nothing of the kernel.        *)
(*                                                                          *)
(* Of an app the title stands for all that is replaced with it, of a tile   *)
(* the badge; a notification and a message are their sequence numbers.      *)
(* Everything a service pushes is unread and delivered for good.            *)
(***************************************************************************)
EXTENDS BolunTypes, SequencesExt, FiniteSetsExt

CONSTANTS ServiceApps,   \* the identifiers of apps; "" is the empty one
          ServiceNames,  \* the names of contacts, the empty one among them
          Titles, Badges

VARIABLES apps_, tiles_, items_, next_item_sequence_, contacts_,
          messages_, next_message_sequence_,
          accepted       \* what the last call returned

serviceVars == <<apps_, tiles_, items_, next_item_sequence_, contacts_,
                 messages_, next_message_sequence_>>

AppRecord == [app_id : ServiceApps \ {""}, title : Titles]
TileRecord == [app_id : ServiceApps \ {""}, badge : Badges]

ServicesInit ==
  /\ apps_ = <<>> /\ tiles_ = <<>> /\ contacts_ = <<>>
  /\ items_ = <<>> /\ next_item_sequence_ = 1
  /\ messages_ = <<>> /\ next_message_sequence_ = 1
  /\ accepted = TRUE

-----------------------------------------------------------------------------
\* Where std::find_if may stop.
Positions(records, app_id) == {r \in DOMAIN records : records[r].app_id = app_id}

\* (mutant) the record of the app is not looked for
StoredAgain(records, record) == Append(records, record)

\* The body that install and pin share: replace the record of the app or append one.
Stored(records, record) ==
  IF Positions(records, record.app_id) = {} THEN Append(records, record)
  ELSE [records EXCEPT ![Min(Positions(records, record.app_id))] = record]

\* AppManager::install
AppInstall(app_id, title) ==
  /\ accepted' = (app_id # "" /\ Len(apps_) < MaxApps)
  /\ apps_' = IF accepted' THEN Stored(apps_, [app_id |-> app_id, title |-> title])
                           ELSE apps_
  /\ UNCHANGED <<tiles_, items_, next_item_sequence_, contacts_,
                 messages_, next_message_sequence_>>

\* AppManager::find
AppFind(app_id) ==
  /\ accepted' = (Positions(apps_, app_id) # {})
  /\ UNCHANGED serviceVars

\* TileService::pin, with the tile's own badge
TilePin(app_id, badge) ==
  /\ accepted' = (app_id # "" /\ Len(tiles_) < MaxTiles)
  /\ tiles_' = IF accepted' THEN Stored(tiles_, [app_id |-> app_id, badge |-> badge])
                            ELSE tiles_
  /\ UNCHANGED <<apps_, items_, next_item_sequence_, contacts_,
                 messages_, next_message_sequence_>>

\* TileService::set_badge, also in a full table
SetBadge(app_id, badge) ==
  /\ accepted' = (Positions(tiles_, app_id) # {})
  /\ tiles_' = IF accepted'
                 THEN [tiles_ EXCEPT ![Min(Positions(tiles_, app_id))].badge = badge]
                 ELSE tiles_
  /\ UNCHANGED <<apps_, items_, next_item_sequence_, contacts_,
                 messages_, next_message_sequence_>>

-----------------------------------------------------------------------------
\* NotificationCenter::push; a notification without a title is refused.
NotificationPush(titled) ==
  /\ accepted' = (titled /\ Len(items_) < MaxNotifications)
  /\ IF accepted'
       THEN /\ items_' = Append(items_, next_item_sequence_)
            /\ next_item_sequence_' = next_item_sequence_ + 1
       ELSE UNCHANGED <<items_, next_item_sequence_>>
  /\ UNCHANGED <<apps_, tiles_, contacts_, messages_, next_message_sequence_>>

\* PeopleHub::add; a contact is its name, and may be added twice.
PeopleAdd(name) ==
  /\ accepted' = (name # "" /\ Len(contacts_) < MaxContacts)
  /\ contacts_' = IF accepted' THEN Append(contacts_, name) ELSE contacts_
  /\ UNCHANGED <<apps_, tiles_, items_, next_item_sequence_,
                 messages_, next_message_sequence_>>

\* MessagingService::send; sender and recipient have to be there.
MessageSend(addressed) ==
  /\ accepted' = (addressed /\ Len(messages_) < MaxMessages)
  /\ IF accepted'
       THEN /\ messages_' = Append(messages_, next_message_sequence_)
            /\ next_message_sequence_' = next_message_sequence_ + 1
       ELSE UNCHANGED <<messages_, next_message_sequence_>>
  /\ UNCHANGED <<apps_, tiles_, items_, next_item_sequence_, contacts_>>

AppManagerNext ==
  \/ \E app_id \in ServiceApps, title \in Titles : AppInstall(app_id, title)
  \/ \E app_id \in ServiceApps : AppFind(app_id)

TileServiceNext ==
  \E app_id \in ServiceApps, badge \in Badges : TilePin(app_id, badge) \/ SetBadge(app_id, badge)

RecordServicesNext ==
  \/ \E titled \in BOOLEAN : NotificationPush(titled)
  \/ \E name \in ServiceNames : PeopleAdd(name)
  \/ \E addressed \in BOOLEAN : MessageSend(addressed)

ServicesNext == AppManagerNext \/ TileServiceNext \/ RecordServicesNext

ServicesSpec == ServicesInit /\ [][ServicesNext]_<<serviceVars, accepted>>

-----------------------------------------------------------------------------
TableOf(records) ==
  [app_id \in {records[r].app_id : r \in DOMAIN records} |->
     records[Min(Positions(records, app_id))]]

AppTable == INSTANCE KeyedTable WITH
              Keys <- ServiceApps, Capacity <- MaxApps,
              entries <- TableOf(apps_), size <- Len(apps_)

TileTable == INSTANCE KeyedTable WITH
               Keys <- ServiceApps, Capacity <- MaxTiles,
               entries <- TableOf(tiles_), size <- Len(tiles_)

(***************************************************************************)
(* Refinement: apps and tiles are tables with one entry for each app, that  *)
(* an install or a pin adds or replaces, in any order and also when such a  *)
(* table is full and refuses; only the badge of a tile can change in a full *)
(* table.  Notifications and messages are numbered without gaps.            *)
(***************************************************************************)
ServiceRecordsNumbered ==
  /\ \A n \in DOMAIN items_ : items_[n] = n
  /\ next_item_sequence_ = Len(items_) + 1
  /\ \A m \in DOMAIN messages_ : messages_[m] = m
  /\ next_message_sequence_ = Len(messages_) + 1

ServicesAreTables ==
  /\ AppTable!TSpec
  /\ TileTable!TAmendSpec
  /\ []ServiceRecordsNumbered
=============================================================================
