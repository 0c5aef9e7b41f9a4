------------------------------ MODULE MCStartup ------------------------------
(***************************************************************************)
(* Environments for Startup.                                               *)
(***************************************************************************)
EXTENDS Startup

\* Any list, flag, interval and REDIS_DB; the rest set properly, unset or bad.
AnyEnvironment ==
  [name \in ToSet(Variables) |->
     CASE name \in Lists -> {"unset", "bad", "empty", "listed"}
       [] name = "POLLING_STATIC_STATE_VARIABLES" -> {"unset", "bad", "true", "false"}
       [] name = "SLACK_REPORTING_URL" -> {"unset"}
       [] name \in {"STATE_POLLING_INTERVAL", "SLOT_SYNC_INTERVAL", "BLOCK_INTERVAL",
                    "REDIS_DB"} -> {"unset", "bad", "negative", "zero", "positive"}
       [] OTHER -> {"unset", "bad", "positive"}]
=============================================================================
