------------------------------- MODULE MCNative -------------------------------
(***************************************************************************)
(* The two native libraries of src/kernel/ for the model checker: a host    *)
(* uses the kernel object, or one of the C++ services (or the three that    *)
(* only append), which share nothing but their capacities.                  *)
(***************************************************************************)
EXTENDS MCKernel, BolunServices

VARIABLE host

NativeInit ==
  /\ host \in {"kernel", "apps", "tiles", "records"}
  /\ Init
  /\ ServicesInit

NativeNext ==
  /\ UNCHANGED host
  /\ \/ host = "kernel" /\ Next /\ UNCHANGED <<serviceVars, accepted>>
     \/ host = "apps" /\ AppManagerNext /\ UNCHANGED vars
     \/ host = "tiles" /\ TileServiceNext /\ UNCHANGED vars
     \/ host = "records" /\ RecordServicesNext /\ UNCHANGED vars

NativeSpec == NativeInit /\ [][NativeNext]_<<host, vars, serviceVars, accepted>>
=============================================================================
