---------------------------- MODULE CommandLoop ----------------------------
(***************************************************************************)
(* What the client's README says of its two modes: commands are executed   *)
(* one at a time and in order; each ends in a result or a failure; a       *)
(* result, also that of an error of the PLC, needs a request that was      *)
(* sent; the terminal goes on after a failure, a script does not.          *)
(***************************************************************************)
VARIABLES
  script,  \* commands come from a script
  at,      \* "idle", "busy" with a command that was sent, or "over"
  result   \* of the last command: "none" while it is not known

vars == <<script, at, result>>

Init == script \in BOOLEAN /\ at = "idle" /\ result = "none"

Begin ==
  /\ at = "idle" /\ at' = "busy" /\ result' = "none"
  /\ UNCHANGED script

Report ==
  /\ at = "busy" /\ at' = "idle"
  /\ result' \in {"ok", "plc_error"}
  /\ UNCHANGED script

Fail ==
  /\ at \in {"idle", "busy"}
  /\ at' = IF script THEN "over" ELSE "idle"
  /\ result' = "fail"
  /\ UNCHANGED script

\* The input ends, or the process is killed while it sends.
Leave ==
  /\ at = "idle" /\ at' = "over"
  /\ result' \in {result, "none"}
  /\ UNCHANGED script

Next == Begin \/ Report \/ Fail \/ Leave

Spec == Init /\ [][Next]_vars
=============================================================================
