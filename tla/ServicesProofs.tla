---------------------------- MODULE ServicesProofs ----------------------------
(***************************************************************************)
(* The C++ services keep tables with one entry for each app, for every      *)
(* capacity and whatever apps, titles and badges there are: each step of a  *)
(* service is a step of KeyedTable or leaves the table alone, and what is   *)
(* only appended is numbered without gaps.                                  *)
(***************************************************************************)
EXTENDS BolunServices, OperatorLemmas

-----------------------------------------------------------------------------
(* Tables whose records have different identifiers.  The vector of a service  *)
(* stays one, since a record is searched for before it is stored.             *)

Ids(records) == {records[r].app_id : r \in DOMAIN records}

OneForEach(records) ==
  \A r, s \in DOMAIN records : records[r].app_id = records[s].app_id => r = s

\* The record of an app is found wherever it is.
LEMMA Lookup ==
  ASSUME NEW S, NEW records \in Seq(S), OneForEach(records)
  PROVE  /\ DOMAIN TableOf(records) = Ids(records)
         /\ \A r \in DOMAIN records :
              /\ Min(Positions(records, records[r].app_id)) = r
              /\ TableOf(records)[records[r].app_id] = records[r]
<1>1. \A r \in DOMAIN records : r \in Nat
  OBVIOUS
<1>2. ASSUME NEW r \in DOMAIN records
      PROVE  Min(Positions(records, records[r].app_id)) = r
  <2>1. Positions(records, records[r].app_id) = {r}
    BY DEF OneForEach, Positions
  <2>2. Min({r}) = r
    BY <1>1 DEF Min
  <2> QED BY <2>1, <2>2
<1>3. ASSUME NEW r \in DOMAIN records
      PROVE  TableOf(records)[records[r].app_id] = records[r]
  <2>1. records[r].app_id \in Ids(records)
    BY DEF Ids
  <2> QED BY <1>2, <2>1 DEF TableOf, Ids
<1> QED BY <1>2, <1>3 DEF TableOf, Ids

\* There are as many records as identifiers.
LEMMA RecordsCounted ==
  ASSUME NEW S, NEW records \in Seq(S), OneForEach(records)
  PROVE  Cardinality(Ids(records)) = Len(records)
<1> DEFINE f == [r \in 1..Len(records) |-> records[r].app_id]
<1>1. Len(records) \in Nat /\ DOMAIN records = 1..Len(records)
  OBVIOUS
<1>2. f \in Bijection(1..Len(records), Ids(records))
  BY <1>1 DEF Bijection, Injection, Surjection, IsInjective, Ids, OneForEach
<1> QED BY <1>1, <1>2, FS_CountingElements DEF ExistsBijection

\* Storing a record adds its identifier and changes no other record.
LEMMA StoredKeepsOthers ==
  ASSUME NEW S, NEW records \in Seq(S), NEW record \in S, OneForEach(records)
  PROVE  /\ Stored(records, record) \in Seq(S)
         /\ OneForEach(Stored(records, record))
         /\ Ids(Stored(records, record)) = Ids(records) \cup {record.app_id}
         /\ \A other \in Ids(records) \ {record.app_id} :
              TableOf(Stored(records, record))[other] = TableOf(records)[other]
<1> DEFINE new == Stored(records, record)
           n == Len(records)
<1>1. n \in Nat /\ DOMAIN records = 1..n
  OBVIOUS
<1>2. CASE Positions(records, record.app_id) = {}
  <2>1. new = Append(records, record)
    BY <1>2 DEF Stored
  <2>2. /\ new \in Seq(S) /\ DOMAIN new = 1..n + 1 /\ new[n + 1] = record
        /\ \A r \in 1..n : new[r] = records[r]
    BY <1>1, <2>1
  <2> HIDE DEF new, n
  <2>3. \A r \in 1..n : records[r].app_id # record.app_id
    BY <1>1, <1>2 DEF Positions
  <2>4. OneForEach(new)
    BY <1>1, <2>2, <2>3 DEF OneForEach
  <2>5. Ids(new) = Ids(records) \cup {record.app_id}
    BY <1>1, <2>2 DEF Ids
  <2>6. ASSUME NEW other \in Ids(records) PROVE TableOf(new)[other] = TableOf(records)[other]
    <3>1. PICK r \in 1..n : other = records[r].app_id
      BY <1>1 DEF Ids
    <3>2. r \in DOMAIN new /\ r \in DOMAIN records /\ new[r] = records[r]
      BY <1>1, <2>2
    <3>3. TableOf(records)[other] = records[r]
      BY <3>1, <3>2, Lookup
    <3>4. TableOf(new)[other] = new[r]
      BY <2>2, <2>4, <3>1, <3>2, Lookup
    <3> QED BY <3>2, <3>3, <3>4
  <2> QED BY <2>2, <2>4, <2>5, <2>6 DEF new
<1>3. CASE Positions(records, record.app_id) # {}
  <2>1. PICK p \in DOMAIN records : records[p].app_id = record.app_id
    BY <1>3 DEF Positions
  <2>2. new = [records EXCEPT ![p] = record]
    <3>1. Min(Positions(records, record.app_id)) = p
      BY <2>1, Lookup
    <3> QED BY <1>3, <3>1 DEF Stored
  <2>3. /\ new \in Seq(S) /\ DOMAIN new = DOMAIN records /\ new[p] = record
        /\ \A r \in DOMAIN records : /\ r # p => new[r] = records[r]
                                     /\ new[r].app_id = records[r].app_id
    BY <2>1, <2>2
  <2> HIDE DEF new
  <2>4. OneForEach(new)
    BY <2>3 DEF OneForEach
  <2>5. Ids(new) = Ids(records) \cup {record.app_id}
    BY <2>1, <2>3 DEF Ids
  <2>6. ASSUME NEW other \in Ids(records), other # record.app_id
        PROVE  TableOf(new)[other] = TableOf(records)[other]
    <3>1. PICK r \in DOMAIN records : other = records[r].app_id
      BY DEF Ids
    <3>2. r # p /\ new[r] = records[r]
      BY <2>1, <2>3, <2>6, <3>1
    <3>3. TableOf(records)[other] = records[r]
      BY <3>1, Lookup
    <3>4. TableOf(new)[other] = new[r]
      BY <2>3, <2>4, <3>1, Lookup
    <3> QED BY <3>2, <3>3, <3>4
  <2> QED BY <2>3, <2>4, <2>5, <2>6 DEF new
<1> QED BY <1>2, <1>3

-----------------------------------------------------------------------------
(* The invariant: the vectors hold records of different apps, and what is      *)
(* appended is numbered.                                                       *)

AppRecords == [app_id : ServiceApps, title : Titles]
TileRecords == [app_id : ServiceApps, badge : Badges]

ServicesInv ==
  /\ apps_ \in Seq(AppRecords) /\ OneForEach(apps_)
  /\ tiles_ \in Seq(TileRecords) /\ OneForEach(tiles_)
  /\ items_ \in Seq(Nat) /\ messages_ \in Seq(Nat)
  /\ ServiceRecordsNumbered

LEMMA AppsStep ==
  ASSUME ServicesInv, [ServicesNext]_<<serviceVars, accepted>>
  PROVE  /\ apps_' \in Seq(AppRecords) /\ OneForEach(apps_')
         /\ \/ UNCHANGED apps_
            \/ \E app_id \in ServiceApps :
                 /\ Len(apps_) < MaxApps
                 /\ Ids(apps_') = Ids(apps_) \cup {app_id}
                 /\ \A other \in Ids(apps_) \ {app_id} :
                      TableOf(apps_')[other] = TableOf(apps_)[other]
<1>1. CASE UNCHANGED apps_
  BY <1>1 DEF ServicesInv
<1>2. CASE \E app_id \in ServiceApps, title \in Titles : AppInstall(app_id, title)
  <2>1. PICK app_id \in ServiceApps, title \in Titles : AppInstall(app_id, title)
    BY <1>2
  <2> DEFINE record == [app_id |-> app_id, title |-> title]
  <2>2. record \in AppRecords /\ record.app_id = app_id
    BY DEF AppRecords
  <2> HIDE DEF record
  <2>3. CASE Len(apps_) < MaxApps /\ apps_' = Stored(apps_, record)
    <3>1. /\ apps_' \in Seq(AppRecords) /\ OneForEach(apps_')
          /\ Ids(apps_') = Ids(apps_) \cup {app_id}
          /\ \A other \in Ids(apps_) \ {app_id} :
               TableOf(apps_')[other] = TableOf(apps_)[other]
      BY <2>2, <2>3, StoredKeepsOthers DEF ServicesInv
    <3> QED BY <2>3, <3>1
  <2> QED BY <1>1, <2>1, <2>3 DEF AppInstall, record
<1>3. UNCHANGED apps_ \/ \E app_id \in ServiceApps, title \in Titles : AppInstall(app_id, title)
  BY DEF ServicesNext, AppManagerNext, AppFind, TileServiceNext, TilePin, SetBadge,
         RecordServicesNext, NotificationPush, PeopleAdd, MessageSend, serviceVars
<1> QED BY <1>1, <1>2, <1>3

LEMMA TilesStep ==
  ASSUME ServicesInv, [ServicesNext]_<<serviceVars, accepted>>
  PROVE  /\ tiles_' \in Seq(TileRecords) /\ OneForEach(tiles_')
         /\ \/ UNCHANGED tiles_
            \/ \E app_id \in ServiceApps :
                 /\ Len(tiles_) < MaxTiles
                 /\ Ids(tiles_') = Ids(tiles_) \cup {app_id}
                 /\ \A other \in Ids(tiles_) \ {app_id} :
                      TableOf(tiles_')[other] = TableOf(tiles_)[other]
            \/ \E app_id \in ServiceApps :
                 /\ app_id \in Ids(tiles_)
                 /\ Len(tiles_') = Len(tiles_)
                 /\ Ids(tiles_') = Ids(tiles_)
                 /\ \A other \in Ids(tiles_) \ {app_id} :
                      TableOf(tiles_')[other] = TableOf(tiles_)[other]
<1>1. CASE UNCHANGED tiles_
  BY <1>1 DEF ServicesInv
<1>2. ASSUME NEW app_id \in ServiceApps, NEW badge \in Badges, TilePin(app_id, badge),
             ~UNCHANGED tiles_
      PROVE  /\ tiles_' \in Seq(TileRecords) /\ OneForEach(tiles_')
             /\ Len(tiles_) < MaxTiles
             /\ Ids(tiles_') = Ids(tiles_) \cup {app_id}
             /\ \A other \in Ids(tiles_) \ {app_id} :
                  TableOf(tiles_')[other] = TableOf(tiles_)[other]
  <2> DEFINE record == [app_id |-> app_id, badge |-> badge]
  <2>1. record \in TileRecords /\ record.app_id = app_id
    BY DEF TileRecords
  <2>2. Len(tiles_) < MaxTiles /\ tiles_' = Stored(tiles_, record)
    BY <1>2 DEF TilePin
  <2> HIDE DEF record
  <2> QED BY <2>1, <2>2, StoredKeepsOthers DEF ServicesInv
<1>3. ASSUME NEW app_id \in ServiceApps, NEW badge \in Badges, SetBadge(app_id, badge),
             ~UNCHANGED tiles_
      PROVE  /\ tiles_' \in Seq(TileRecords) /\ OneForEach(tiles_')
             /\ app_id \in Ids(tiles_)
             /\ Len(tiles_') = Len(tiles_)
             /\ Ids(tiles_') = Ids(tiles_)
             /\ \A other \in Ids(tiles_) \ {app_id} :
                  TableOf(tiles_')[other] = TableOf(tiles_)[other]
  <2> DEFINE p == Min(Positions(tiles_, app_id))
             record == [app_id |-> app_id, badge |-> badge]
  <2>1. tiles_ \in Seq(TileRecords) /\ OneForEach(tiles_)
    BY DEF ServicesInv
  <2>2. /\ Positions(tiles_, app_id) # {}
        /\ tiles_' = [tiles_ EXCEPT ![p].badge = badge]
    BY <1>3 DEF SetBadge
  <2>3. p \in DOMAIN tiles_ /\ tiles_[p].app_id = app_id
    <3>1. PICK q \in DOMAIN tiles_ : tiles_[q].app_id = app_id
      BY <2>2 DEF Positions
    <3>2. p = q
      BY <2>1, <3>1, Lookup
    <3> QED BY <3>1, <3>2
  <2> HIDE DEF p
  <2>4. tiles_' = [tiles_ EXCEPT ![p] = record]
    <3>1. [tiles_[p] EXCEPT !.badge = badge] = record
      <4>1. tiles_[p] \in TileRecords
        BY <2>1, <2>3
      <4> QED BY <2>3, <4>1 DEF TileRecords
    <3>2. tiles_' = [tiles_ EXCEPT ![p] = [tiles_[p] EXCEPT !.badge = badge]]
      BY <2>2
    <3> QED BY <3>1, <3>2
  <2>5. record \in TileRecords /\ record.app_id = app_id
    BY DEF TileRecords
  <2> HIDE DEF record
  <2>6. /\ tiles_' = Stored(tiles_, record)
        /\ Len(tiles_') = Len(tiles_)
        /\ app_id \in Ids(tiles_)
    <3>1. Positions(tiles_, record.app_id) # {} /\ Min(Positions(tiles_, record.app_id)) = p
      BY <2>2, <2>5 DEF p
    <3>2. Len(tiles_') = Len(tiles_)
      BY <2>1, <2>3, <2>4, <2>5
    <3> QED BY <2>3, <2>4, <3>1, <3>2 DEF Stored, Ids
  <2>7. /\ tiles_' \in Seq(TileRecords) /\ OneForEach(tiles_')
        /\ Ids(tiles_') = Ids(tiles_) \cup {app_id}
        /\ \A other \in Ids(tiles_) \ {app_id} :
             TableOf(tiles_')[other] = TableOf(tiles_)[other]
    <3>1. /\ Stored(tiles_, record) \in Seq(TileRecords) /\ OneForEach(Stored(tiles_, record))
          /\ Ids(Stored(tiles_, record)) = Ids(tiles_) \cup {record.app_id}
          /\ \A other \in Ids(tiles_) \ {record.app_id} :
               TableOf(Stored(tiles_, record))[other] = TableOf(tiles_)[other]
      BY <2>1, <2>5, StoredKeepsOthers
    <3> QED BY <2>5, <2>6, <3>1
  <2> QED BY <2>6, <2>7
<1>4. \/ UNCHANGED tiles_
      \/ \E app_id \in ServiceApps, badge \in Badges : TilePin(app_id, badge)
      \/ \E app_id \in ServiceApps, badge \in Badges : SetBadge(app_id, badge)
  BY DEF ServicesNext, AppManagerNext, AppInstall, AppFind, TileServiceNext,
         RecordServicesNext, NotificationPush, PeopleAdd, MessageSend, serviceVars
<1> QED BY <1>1, <1>2, <1>3, <1>4

Numbered(s) == \A n \in DOMAIN s : s[n] = n

LEMMA NumberAppended ==
  ASSUME NEW s \in Seq(Nat), Numbered(s)
  PROVE  /\ Append(s, Len(s) + 1) \in Seq(Nat)
         /\ Len(Append(s, Len(s) + 1)) = Len(s) + 1
         /\ Numbered(Append(s, Len(s) + 1))
BY DEF Numbered

LEMMA NumbersStep ==
  ASSUME ServicesInv, [ServicesNext]_<<serviceVars, accepted>>
  PROVE  items_' \in Seq(Nat) /\ messages_' \in Seq(Nat) /\ ServiceRecordsNumbered'
<1>0. items_ \in Seq(Nat) /\ messages_ \in Seq(Nat) /\ ServiceRecordsNumbered
  BY DEF ServicesInv
<1>1. \/ UNCHANGED <<items_, next_item_sequence_>>
      \/ /\ items_' = Append(items_, next_item_sequence_)
         /\ next_item_sequence_' = next_item_sequence_ + 1
  BY DEF ServicesNext, AppManagerNext, AppInstall, AppFind, TileServiceNext, TilePin, SetBadge,
         RecordServicesNext, NotificationPush, PeopleAdd, MessageSend, serviceVars
<1>2. \/ UNCHANGED <<messages_, next_message_sequence_>>
      \/ /\ messages_' = Append(messages_, next_message_sequence_)
         /\ next_message_sequence_' = next_message_sequence_ + 1
  BY DEF ServicesNext, AppManagerNext, AppInstall, AppFind, TileServiceNext, TilePin, SetBadge,
         RecordServicesNext, NotificationPush, PeopleAdd, MessageSend, serviceVars
<1>3. items_' \in Seq(Nat) /\ next_item_sequence_' = Len(items_') + 1 /\ Numbered(items_')
  <2>0. Numbered(items_) /\ next_item_sequence_ = Len(items_) + 1
    BY <1>0 DEF ServiceRecordsNumbered, Numbered
  <2>1. CASE UNCHANGED <<items_, next_item_sequence_>>
    BY <1>0, <2>0, <2>1
  <2>2. CASE /\ items_' = Append(items_, next_item_sequence_)
             /\ next_item_sequence_' = next_item_sequence_ + 1
    BY <1>0, <2>0, <2>2, NumberAppended
  <2> QED BY <1>1, <2>1, <2>2
<1>4. /\ messages_' \in Seq(Nat) /\ next_message_sequence_' = Len(messages_') + 1
      /\ Numbered(messages_')
  <2>0. Numbered(messages_) /\ next_message_sequence_ = Len(messages_) + 1
    BY <1>0 DEF ServiceRecordsNumbered, Numbered
  <2>1. CASE UNCHANGED <<messages_, next_message_sequence_>>
    BY <1>0, <2>0, <2>1
  <2>2. CASE /\ messages_' = Append(messages_, next_message_sequence_)
             /\ next_message_sequence_' = next_message_sequence_ + 1
    BY <1>0, <2>0, <2>2, NumberAppended
  <2> QED BY <1>2, <2>1, <2>2
<1> QED BY <1>3, <1>4 DEF ServiceRecordsNumbered, Numbered

LEMMA ServicesStep ==
  ASSUME ServicesInv, [ServicesNext]_<<serviceVars, accepted>>
  PROVE  ServicesInv'
BY AppsStep, TilesStep, NumbersStep DEF ServicesInv

-----------------------------------------------------------------------------
(* The refinement. *)

LEMMA AppTableStep ==
  ASSUME ServicesInv, [ServicesNext]_<<serviceVars, accepted>>
  PROVE  [\E key \in ServiceApps : AppTable!Put(key)]_(AppTable!tableVars)
<1>1. CASE UNCHANGED apps_
  <2>1. UNCHANGED <<TableOf(apps_), Len(apps_)>>
    BY <1>1 DEF TableOf, Positions
  <2> QED BY <2>1 DEF AppTable!tableVars
<1>2. ASSUME NEW app_id \in ServiceApps,
             Len(apps_) < MaxApps,
             Ids(apps_') = Ids(apps_) \cup {app_id},
             \A other \in Ids(apps_) \ {app_id} :
               TableOf(apps_')[other] = TableOf(apps_)[other]
      PROVE  AppTable!Put(app_id)
  <2>1. DOMAIN TableOf(apps_) = Ids(apps_)
    BY Lookup DEF ServicesInv
  <2>2. DOMAIN TableOf(apps_') = Ids(apps_') /\ Cardinality(Ids(apps_')) = Len(apps_')
    BY AppsStep, Lookup, RecordsCounted
  <2>3. TableOf(apps_)' = TableOf(apps_')
    BY DEF TableOf, Positions
  <2>4. DOMAIN TableOf(apps_)' = DOMAIN TableOf(apps_) \cup {app_id}
    BY <1>2, <2>1, <2>2, <2>3
  <2>5. \A other \in DOMAIN TableOf(apps_) \ {app_id} :
          TableOf(apps_)'[other] = TableOf(apps_)[other]
    BY <1>2, <2>1, <2>3
  <2>6. Len(apps_)' = Cardinality(DOMAIN TableOf(apps_)')
    BY <2>2, <2>3
  <2> QED BY <1>2, <2>4, <2>5, <2>6 DEF AppTable!Put, AppTable!OthersKept, AppTable!Cardinality, Cardinality
<1> QED BY <1>1, <1>2, AppsStep

LEMMA TileTableStep ==
  ASSUME ServicesInv, [ServicesNext]_<<serviceVars, accepted>>
  PROVE  [\E key \in ServiceApps : TileTable!Put(key) \/ TileTable!Amend(key)]_(TileTable!tableVars)
<1>0. /\ DOMAIN TableOf(tiles_) = Ids(tiles_)
      /\ DOMAIN TableOf(tiles_') = Ids(tiles_')
      /\ Cardinality(Ids(tiles_')) = Len(tiles_')
      /\ TableOf(tiles_)' = TableOf(tiles_')
  <2>1. DOMAIN TableOf(tiles_) = Ids(tiles_)
    BY Lookup DEF ServicesInv
  <2>2. DOMAIN TableOf(tiles_') = Ids(tiles_') /\ Cardinality(Ids(tiles_')) = Len(tiles_')
    BY TilesStep, Lookup, RecordsCounted
  <2>3. TableOf(tiles_)' = TableOf(tiles_')
    BY DEF TableOf, Positions
  <2> QED BY <2>1, <2>2, <2>3
<1>1. CASE UNCHANGED tiles_
  <2>1. UNCHANGED <<TableOf(tiles_), Len(tiles_)>>
    BY <1>1 DEF TableOf, Positions
  <2> QED BY <2>1 DEF TileTable!tableVars
<1>2. ASSUME NEW app_id \in ServiceApps,
             Len(tiles_) < MaxTiles,
             Ids(tiles_') = Ids(tiles_) \cup {app_id},
             \A other \in Ids(tiles_) \ {app_id} :
               TableOf(tiles_')[other] = TableOf(tiles_)[other]
      PROVE  TileTable!Put(app_id)
  <2>1. DOMAIN TableOf(tiles_)' = DOMAIN TableOf(tiles_) \cup {app_id}
    BY <1>0, <1>2
  <2>2. \A other \in DOMAIN TableOf(tiles_) \ {app_id} :
          TableOf(tiles_)'[other] = TableOf(tiles_)[other]
    BY <1>0, <1>2
  <2>3. Len(tiles_)' = Cardinality(DOMAIN TableOf(tiles_)')
    BY <1>0
  <2> QED BY <1>2, <2>1, <2>2, <2>3 DEF TileTable!Put, TileTable!OthersKept, TileTable!Cardinality, Cardinality
<1>3. ASSUME NEW app_id \in ServiceApps,
             app_id \in Ids(tiles_), Len(tiles_') = Len(tiles_),
             Ids(tiles_') = Ids(tiles_),
             \A other \in Ids(tiles_) \ {app_id} :
               TableOf(tiles_')[other] = TableOf(tiles_)[other]
      PROVE  TileTable!Amend(app_id)
  <2>1. app_id \in DOMAIN TableOf(tiles_) /\ DOMAIN TableOf(tiles_)' = DOMAIN TableOf(tiles_)
    BY <1>0, <1>3
  <2>2. \A other \in DOMAIN TableOf(tiles_) \ {app_id} :
          TableOf(tiles_)'[other] = TableOf(tiles_)[other]
    BY <1>0, <1>3
  <2>3. UNCHANGED Len(tiles_)
    BY <1>3
  <2> QED BY <2>1, <2>2, <2>3 DEF TileTable!Amend, TileTable!OthersKept
<1> QED BY <1>1, <1>2, <1>3, TilesStep

LEMMA ServicesStart ==
  ASSUME ServicesInit
  PROVE  ServicesInv /\ AppTable!TInit /\ TileTable!TInit
<1>1. apps_ = <<>> /\ tiles_ = <<>>
  BY DEF ServicesInit
<1>2. ServiceRecordsNumbered /\ items_ \in Seq(Nat) /\ messages_ \in Seq(Nat)
  BY DEF ServicesInit, ServiceRecordsNumbered
<1>3. \A S : <<>> \in Seq(S) /\ DOMAIN <<>> = {} /\ Len(<<>>) = 0
  OBVIOUS
<1>4. OneForEach(<<>>) /\ DOMAIN TableOf(<<>>) = {}
  BY DEF OneForEach, TableOf
<1>5. apps_ \in Seq(AppRecords) /\ tiles_ \in Seq(TileRecords)
  BY <1>1, <1>3
<1> QED BY <1>1, <1>2, <1>3, <1>4, <1>5 DEF ServicesInv, AppTable!TInit, TileTable!TInit

\* The app manager's vector and the tile service's implement a keyed table, and
\* notifications and messages are numbered without gaps (ServicesAreTables), for
\* every capacity of the containers of src/kernel/cpp.
THEOREM ServicesImplementTables == ServicesSpec => ServicesAreTables
<1>1. ServicesInit => ServicesInv /\ AppTable!TInit /\ TileTable!TInit
  BY ServicesStart
<1>2. ServicesInv /\ [ServicesNext]_<<serviceVars, accepted>> => ServicesInv'
  BY ServicesStep
<1>3. ServicesInv /\ [ServicesNext]_<<serviceVars, accepted>>
        => /\ [\E key \in ServiceApps : AppTable!Put(key)]_(AppTable!tableVars)
           /\ [\E key \in ServiceApps : TileTable!Put(key) \/ TileTable!Amend(key)]_(TileTable!tableVars)
  BY AppTableStep, TileTableStep
<1>4. ServicesInv => ServiceRecordsNumbered
  BY DEF ServicesInv
<1> QED BY <1>1, <1>2, <1>3, <1>4, PTL DEF ServicesSpec, ServicesAreTables, AppTable!TSpec, TileTable!TAmendSpec
=============================================================================
