----------------------------- MODULE MCServices -----------------------------
(* What runs beside the node: providing, the keystore and IPNS publishing,    *)
(* the C and Rust bindings, and telemetry.  Small instances side by side,     *)
(* `part` says which one this behaviour is about.                             *)
EXTENDS Provider, Keys, Bindings, Telemetry

VARIABLE part

\* Two roots that share a child.
MCOnceLinks ==
  [n \in {"x", "y", "z", "w"} |->
     CASE n = "x" -> {"y", "z"} [] n = "y" -> {"z"} [] n = "w" -> {"y"} [] OTHER -> {}]

vars == <<pvars, kvars, fvars, telvars, task, part>>

Init ==
  /\ part \in {"node", "alert", "once", "ask", "keys", "bindings", "telemetry", "wait"}
  /\ ProviderInit /\ (part # "node" => pdisk.orphans = 0 /\ ~pdisk.base)
  /\ KeysInit /\ BindingsInit
  /\ TelInit /\ (part # "telemetry" => tdisk.uuid = 0)

ProviderPart ==
  \/ part = "node" /\ ProviderNodeNext /\ UNCHANGED <<palert, ponce, pask>>
  \/ part = "alert" /\ AlertPolls /\ UNCHANGED <<pnodevars, ponce, pask>>
  \/ part = "once" /\ OnceNext /\ UNCHANGED <<pnodevars, palert, pask>>
  \/ part = "ask" /\ pask.topic = "none" /\ Asks /\ UNCHANGED <<pnodevars, palert, ponce>>

TelemetryPart ==
  \/ part = "telemetry" /\ TelNext /\ UNCHANGED task
  \/ part = "wait" /\ task.topic = "none" /\ AsksTelemetry /\ UNCHANGED telvars

Next ==
  /\ UNCHANGED part
  /\ \/ ProviderPart /\ UNCHANGED <<kvars, fvars, telvars, task>>
     \/ part = "keys" /\ KeysNext /\ UNCHANGED <<pvars, fvars, telvars, task>>
     \/ part = "bindings" /\ BindingsNext /\ UNCHANGED <<pvars, kvars, telvars, task>>
     \/ TelemetryPart /\ UNCHANGED <<pvars, kvars, fvars>>

Spec == Init /\ [][Next]_vars
=============================================================================
