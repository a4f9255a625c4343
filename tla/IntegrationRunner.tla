------------------------- MODULE IntegrationRunner -------------------------
(***************************************************************************)
(* The integration scenario over the binding: integration_full_runner.go.  *)
(*                                                                         *)
(* One goroutine runs a script of calls on a client of its own             *)
(* (RunIntegrationFullScenario) or on one it is given                      *)
(* (RunIntegrationFullScenarioWithClient), stops at the first error and    *)
(* closes a client it made on every path.  Envelopes are protected with an *)
(* inline or a managed key.  The key access plan decides which, and the    *)
(* library may still demand a managed key when the inline one is tried:    *)
(* the runner knows that by the text of the error, which reaches it        *)
(* through the per-thread message of NativeBinding.                        *)
(*                                                                         *)
(* Requests and what the summary says are left out.                        *)
(***************************************************************************)
EXTENDS NativeBinding

CONSTANT Runner    \* the goroutine that runs the scenario

ASSUME RunnerAssumption == Runner \in Goroutines /\ "managed" \in Kinds

VARIABLES
    phase,         \* "start", "creating", "running", "closing" or "over"
    client, owned, \* the client of the scenario, and whether it was made here
    step,          \* the call of the script that is next or pending
    asked,         \* the key source of the pending call, or "none"
    managed,       \* useManagedEnvelopeKeys
    protectedWith, \* the key source the envelope was protected with, or "none"
    demanded       \* the library has refused the inline key for want of a managed one

runnerVars == <<phase, client, owned, step, asked, managed, protectedWith, demanded>>

-----------------------------------------------------------------------------

\* The calls in their order.  Neighbours that differ only in their requests are one
\* step: "discover" stands for the eight calls from capabilities to the TDF's
\* key_access_plan, "signature" for signing and verifying a detached one, "tdf" for the
\* three calls on a TDF, "record" for artifact_register and evidence.
Script ==
    <<"discover", "envelope_key_access_plan", "signature",
      "protect_bytes_with_envelope", "access_bytes_with_envelope",
      "rewrap_bytes_with_envelope", "tdf", "record">>

EnvelopeCalls ==
    {"protect_bytes_with_envelope", "access_bytes_with_envelope",
     "rewrap_bytes_with_envelope"}

At(call) == step <= Len(Script) /\ Script[step] = call

\* The key source of a call: TDF is always managed, other calls need none.
Source ==
    IF Script[step] \in EnvelopeCalls THEN IF managed THEN "managed" ELSE "inline"
    ELSE IF At("tdf") THEN "managed" ELSE "keyless"

\* key_transport of the envelope's plan: no guidance, no mode, or a mode.
Guidance == {"nil", "", "local_provided", "wrapped_key_reference"}

UsesManagedKeyTransport(mode) == mode \notin {"nil", "", "local_provided"}

RequiresLostText(r) == FALSE

\* The error says that a managed key reference is required.
RequiresManagedEnvelopeKey(r) == r.what = "native" /\ r.message.kind = "managed"

LeakingEnd == "over"

\* The deferred Close, if the client was made here.
End == IF owned THEN "closing" ELSE "over"

-----------------------------------------------------------------------------

\* The manifest is read, a client is made with its keys; or it is unreadable.
RunScenario ==
    /\ phase = "start"
    /\ \/ /\ phase' = "over"
          /\ UNCHANGED <<vars, client, owned>>
       \/ \E c \in Clients :
             /\ NewClient(Runner, c) \/ NewClientRefused(Runner, c)
             /\ phase' = "creating" /\ client' = c /\ owned' = TRUE
    /\ UNCHANGED <<step, asked, managed, protectedWith, demanded>>

\* The caller passes a client, and may go on using it.
RunWithClient ==
    /\ phase = "start"
    /\ \E c \in Clients : handle[c] # "unmade" /\ client' = c
    /\ phase' = "running"
    /\ UNCHANGED <<vars, owned, step, asked, managed, protectedWith, demanded>>

Created ==
    /\ phase = "creating" /\ pc[Runner] = "idle"
    /\ phase' = IF result[Runner] = Plain("ok") THEN "running" ELSE "over"
    /\ UNCHANGED <<vars, client, owned, step, asked, managed, protectedWith, demanded>>

Invoke ==
    /\ phase = "running" /\ asked = "none" /\ step <= Len(Script)
    /\ Call(Runner, client)
    /\ asked' = Source
    /\ UNCHANGED <<phase, client, owned, step, managed, protectedWith, demanded>>

Answered == phase = "running" /\ asked # "none" /\ pc[Runner] = "idle"

\* A call succeeded; the plan for the envelope says where its key comes from.
Advance ==
    /\ Answered /\ result[Runner] = Plain("ok")
    /\ step' = step + 1 /\ asked' = "none"
    /\ IF At("envelope_key_access_plan")
       THEN \E mode \in Guidance : managed' = UsesManagedKeyTransport(mode)
       ELSE UNCHANGED managed
    /\ protectedWith' = IF At("protect_bytes_with_envelope") THEN asked ELSE protectedWith
    /\ UNCHANGED <<vars, phase, client, owned, demanded>>

Refused ==
    /\ At("protect_bytes_with_envelope") /\ asked = "inline"
    /\ RequiresManagedEnvelopeKey(result[Runner])

ThisCallOnly == FALSE
FallsBack == TRUE

\* The inline key was refused: managed keys from here on, beginning with this call.
FallBack ==
    /\ Answered /\ Refused
    /\ Call(Runner, client)
    /\ managed' = FallsBack
    /\ asked' = "managed"
    /\ UNCHANGED <<phase, client, owned, step, protectedWith, demanded>>

\* A fixture key or an artifact cannot be decoded, or a call failed for good.
GiveUp ==
    /\ phase = "running" /\ pc[Runner] = "idle"
    /\ asked # "none" /\ result[Runner] # Plain("ok") => ~Refused
    /\ phase' = End /\ asked' = "none"
    /\ UNCHANGED <<vars, client, owned, step, managed, protectedWith, demanded>>

Summarise ==
    /\ phase = "running" /\ step > Len(Script)
    /\ phase' = End
    /\ UNCHANGED <<vars, client, owned, step, asked, managed, protectedWith, demanded>>

CloseOwned ==
    /\ phase = "closing" /\ asked = "none"
    /\ Close(Runner, client)
    /\ asked' = "close"
    /\ UNCHANGED <<phase, client, owned, step, managed, protectedWith, demanded>>

Closed ==
    /\ phase = "closing" /\ asked = "close" /\ pc[Runner] = "idle"
    /\ phase' = "over" /\ asked' = "none"
    /\ UNCHANGED <<vars, client, owned, step, managed, protectedWith, demanded>>

\* The binding works on the runner's pending call.
BindingStep ==
    /\ Continue(Runner)
    /\ demanded' = \/ demanded
                   \/ /\ At("protect_bytes_with_envelope") /\ asked = "inline"
                      /\ pc'[Runner] = "message"
                      /\ slot'[thread[Runner]].kind = "managed"
    /\ UNCHANGED <<phase, client, owned, step, asked, managed, protectedWith>>

\* What the other goroutines of the process do with their clients, or with the one
\* the runner was given.  A client it made is its own.  They are not followed further
\* than the scenario.
Others ==
    /\ phase # "over"
    /\ \/ \E g \in Goroutines \ {Runner} :
             Continue(g) \/ \E c \in Clients : ~(owned /\ c = client) /\ Use(g, c)
       \/ ChangeFile
    /\ UNCHANGED runnerVars

RunnerInit ==
    /\ Init
    /\ phase = "start" /\ client = NoClient /\ owned = FALSE
    /\ step = 1 /\ asked = "none"
    /\ managed = FALSE /\ protectedWith = "none" /\ demanded = FALSE

RunnerNext ==
    \/ RunScenario \/ RunWithClient \/ Created \/ Invoke \/ Advance \/ FallBack
    \/ GiveUp \/ Summarise \/ CloseOwned \/ Closed \/ BindingStep \/ Others

RunnerSpec == RunnerInit /\ [][RunnerNext]_<<vars, runnerVars>>

-----------------------------------------------------------------------------
(* Properties *)

\* Whatever the plan and the library say, every envelope is opened and rewrapped with
\* the kind of key it was protected with, and nothing is opened before.
KeysMatch ==
    /\ asked \in {"inline", "managed"}
    /\ At("access_bytes_with_envelope") \/ At("rewrap_bytes_with_envelope")
    => asked = protectedWith

\* A library that demands a managed key gets one: the demand is not mistaken for
\* another error, provided the runner is locked to its thread.
DemandHeard == Runner \in locked /\ demanded /\ asked = "none" => managed

\* A client the scenario made is freed on every path out of it.
ClientReleased == phase = "over" /\ owned => native[client] # "live"
=============================================================================
