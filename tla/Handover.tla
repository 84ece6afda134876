------------------------------ MODULE Handover ------------------------------
(***************************************************************************)
(* What lending the chat GPU promises its users: generation is diverted    *)
(* before the backend goes and comes back only to a backend that serves.   *)
(* scripts/gpu-lease.py implements it with the lease file (module          *)
(* GpuLease); the proxy reads the file as the route.                       *)
(***************************************************************************)
VARIABLES
  route,  \* where the proxy sends new generation requests: "local", "fallback"
  chat,   \* the local backend: "serving", "coming" (active, not serving), "off"
  boot    \* which boot of the machine this is

Init == route = "local" /\ chat = "serving"

Divert == route = "local" /\ route' = "fallback" /\ UNCHANGED <<chat, boot>>

Stop == route = "fallback" /\ chat' = "off" /\ UNCHANGED <<route, boot>>

Start == chat = "off" /\ chat' = "coming" /\ UNCHANGED <<route, boot>>

\* Active, it starts or stops serving on its own.
Wavers == chat # "off" /\ chat' \in {"coming", "serving"} /\ UNCHANGED <<route, boot>>

Return == route = "fallback" /\ chat = "serving" /\ route' = "local" /\ UNCHANGED <<chat, boot>>

\* The only other way back: the machine restarts and the backend with it.
Reboot == boot' # boot /\ route' = "local" /\ chat' = "coming"

Next == Divert \/ Stop \/ Start \/ Wavers \/ Return \/ Reboot

Spec == Init /\ [][Next]_<<route, chat, boot>>
=============================================================================
