------------------------------ MODULE BolunTypes ------------------------------
(***************************************************************************)
(* The capacities of include/bolun/bolun_types.h, which the kernel's tables *)
(* and the containers of the C++ services share.                            *)
(***************************************************************************)
EXTENDS Naturals

CONSTANTS MaxApps, MaxTiles, MaxFeatures, MaxNotifications, MaxContacts, MaxMessages

ASSUME CapacityAssumption ==
  {MaxApps, MaxTiles, MaxFeatures, MaxNotifications, MaxContacts, MaxMessages}
    \subseteq Nat \ {0}
=============================================================================
