---------------------------- MODULE BolunResult ----------------------------
(***************************************************************************)
(* The status code every call of the C API returns                         *)
(* (include/bolun/bolun_result.h).  `result' is the code the last call      *)
(* returned: a caller sees nothing else of a call that fails, so a refused  *)
(* call is a step that changes only `result'.                               *)
(***************************************************************************)
VARIABLE result

ResultCode ==
  {"OK", "INVALID_ARGUMENT", "NOT_BOOTED", "NOT_FOUND", "FULL", "INTERNAL"}

\* The call runs to its last return statement.
Succeed == result' = "OK"

\* The call takes an early return with `code'.
FailWith(code) == result' = code
=============================================================================
