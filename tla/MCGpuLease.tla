----------------------------- MODULE MCGpuLease -----------------------------
(* Model-checking instances of GpuLease: which acquire commands are issued. *)
EXTENDS GpuLease

CONSTANTS bench, comfyMode   \* a job's holder name and ComfyUI mode's

ask(holder, kind, forced, onRelease) ==
  [holder |-> holder, kind |-> kind, forced |-> forced, onRelease |-> onRelease]

\* A fixed job with a cleanup of its own, an idle session and ComfyUI mode.
AllAsks == {ask(bench, "fixed", TRUE, TRUE), ask(bench, "idle", FALSE, TRUE),
            ask(comfyMode, "sticky", TRUE, FALSE)}
=============================================================================
