------------------------------- MODULE MCKernel -------------------------------
(***************************************************************************)
(* A small catalog for the model checker.  As in the code, two copies of    *)
(* the feature table do not fit into the kernel's, the apps leave room for  *)
(* a few more, and one of them is a developer tool.                         *)
(***************************************************************************)
EXTENDS KernelProperties

MCFeatures == <<"scheduler", "ipc", "timers">>
MCApps == <<"phone", "store", "log-viewer">>
=============================================================================
