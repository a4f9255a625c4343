---------------------- MODULE IntegrationRunnerProofs ----------------------
(***************************************************************************)
(* The scenario is one use of the binding among others, so that what holds *)
(* of the binding holds while it runs; and what holds of the scenario      *)
(* itself, for any number of goroutines and clients around it.             *)
(***************************************************************************)
EXTENDS IntegrationRunner, NativeBindingProofs

-----------------------------------------------------------------------------
(* The invariant *)

\* Where the scenario stands, and what the runner is then doing with the binding.
Control ==
    /\ phase \in {"start", "creating", "running", "closing", "over"}
    /\ asked \in {"none", "keyless", "inline", "managed", "close"}
    /\ step \in 1..9 /\ managed \in BOOLEAN /\ demanded \in BOOLEAN /\ owned \in BOOLEAN
    /\ phase \in {"creating", "running", "closing"} \/ owned => client \in Clients
    /\ phase \in {"creating", "closing"} => owned
    /\ phase = "start" => ~owned
    /\ phase \in {"start", "creating", "over"} => asked = "none"
    /\ phase = "running" => asked # "close" /\ (asked # "none" => step <= 8)
    /\ phase = "closing" => asked \in {"none", "close"}
    /\ phase # "creating" /\ asked = "none" => pc[Runner] = "idle"
    /\ pc[Runner] # "idle" =>
        /\ on[Runner] = client
        /\ phase = "creating" => op[Runner] = "new"
        /\ phase = "running" => op[Runner] = "call"
        /\ phase = "closing" => op[Runner] = "close"

\* The key source is settled when the envelope is protected.
Settled ==
    /\ phase = "running" /\ asked # "none" /\ step = 4 => asked \in {"inline", "managed"}
    /\ asked \in {"inline", "managed"} /\ step \in 4..6
        => asked = IF managed THEN "managed" ELSE "inline"
    /\ step \in 5..6 => protectedWith = IF managed THEN "managed" ELSE "inline"

\* A demand that has not been met is on its way to the runner, or before it.
Pressing ==
    /\ demanded => step >= 4
    /\ Runner \in locked /\ demanded /\ ~managed =>
          /\ phase = "running" /\ step = 4 /\ asked = "inline"
          /\ \/ pc[Runner] = "message" /\ slot[Home[Runner]].kind = "managed"
             \/ pc[Runner] = "idle" /\ RequiresManagedEnvelopeKey(result[Runner])

LiveClient == handle[client] = "set" /\ native[client] = "live"

\* A client the scenario made is nobody else's, and lives until the scenario frees it.
Belongs ==
    owned =>
        /\ \A g \in Goroutines \ {Runner} : pc[g] # "idle" => on[g] # client
        /\ phase = "creating" /\ pc[Runner] = "idle" =>
              IF result[Runner] = Plain("ok") THEN LiveClient ELSE native[client] # "live"
        /\ phase = "running" => LiveClient
        /\ phase = "closing" =>
              IF asked = "none" \/ pc[Runner] \in {"closing", "free"}
              THEN LiveClient ELSE native[client] # "live"
        /\ phase = "over" => native[client] # "live"

RInv == BInv /\ Control /\ Settled /\ Pressing /\ Belongs

-----------------------------------------------------------------------------
(* A use of the binding *)

\* Whatever the scenario does, it does what a goroutine may do with the binding.
LEMMA StepUsesBinding ==
    ASSUME Control, RunnerNext PROVE [Next]_vars
<1> USE RunnerAssumption DEF Next, Use, Control
<1>1. CASE RunScenario
    BY <1>1 DEF RunScenario
<1>2. CASE Invoke
    BY <1>2 DEF Invoke
<1>3. CASE FallBack
    BY <1>3 DEF FallBack, Answered
<1>4. CASE CloseOwned
    BY <1>4 DEF CloseOwned
<1>5. CASE BindingStep
    BY <1>5 DEF BindingStep
<1>6. CASE Others
    BY <1>6 DEF Others
<1>7. CASE RunWithClient \/ Created \/ Advance \/ GiveUp \/ Summarise \/ Closed
    BY <1>7 DEF RunWithClient, Created, Advance, GiveUp, Summarise, Closed
<1> QED BY <1>1, <1>2, <1>3, <1>4, <1>5, <1>6, <1>7 DEF RunnerNext

LEMMA BindingKept ==
    ASSUME RInv, RunnerNext PROVE BInv'
BY StepUsesBinding, NextBInv DEF RInv

-----------------------------------------------------------------------------
(* What a goroutine leaves alone *)

\* A goroutine that continues its operation on one client changes no other client, no other
\* goroutine and no message that a locked one will read.
LEMMA OtherContinues ==
    ASSUME BInv, NEW g \in Goroutines, Continue(g)
    PROVE  /\ \A h \in Goroutines \ {g} :
                 /\ pc'[h] = pc[h] /\ op'[h] = op[h] /\ on'[h] = on[h]
                 /\ result'[h] = result[h]
                 /\ h \in locked => slot'[Home[h]] = slot[Home[h]]
           /\ pc[g] # "idle" /\ (pc'[g] # "idle" => on'[g] = on[g] /\ op'[g] = op[g])
           /\ \A c \in Clients \ {on[g]} : handle'[c] = handle[c] /\ native'[c] = native[c]
           /\ locked' = locked
<1> USE BindingAssumption DEF BInv, TypeOK, Labelled, libraryVars, clientVars, history
<1>1. CASE LoadLibrary(g)
    BY <1>1 DEF LoadLibrary, Finish
<1>2. CASE Check(g)
    BY <1>2 DEF Check, Finish
<1>3. CASE Enter(g)
    BY <1>3 DEF Enter
<1>4. CASE Succeed(g)
    BY <1>4 DEF Succeed, Finish
<1>5. ASSUME NEW k \in Kinds, Fail(g, k)
      PROVE  /\ \A h \in Goroutines \ {g} : h \in locked => thread[g] # Home[h]
             /\ slot' = [slot EXCEPT ![thread[g]] = [by |-> g, use |-> uses[g], kind |-> k]]
             /\ pc' = [pc EXCEPT ![g] = "message"] /\ pc[g] = "inside"
             /\ UNCHANGED <<libraryVars, clientVars, op, on, result>>
    BY <1>5 DEF Fail, Apart
<1>6. CASE Message(g)
    <2>1. PICK t \in MessageThread(g) :
              /\ \E r : Finish(g, r)
              /\ slot' \in {slot, [slot EXCEPT ![t] = Empty]}
        BY <1>6 DEF Message
    <2>2. \A h \in Goroutines \ {g} : h \in locked => t # Home[h]
        BY <2>1 DEF MessageThread, Available
    <2>3. pc[g] = "message" /\ UNCHANGED <<libraryVars, clientVars>>
        BY <1>6 DEF Message
    <2> QED BY <2>1, <2>2, <2>3 DEF Finish
<1>7. CASE CloseCheck(g)
    BY <1>7 DEF CloseCheck, Finish
<1>8. CASE Free(g)
    BY <1>8 DEF Free
<1>9. CASE Forget(g)
    BY <1>9 DEF Forget, Finish
<1> QED BY <1>1, <1>2, <1>3, <1>4, <1>5, <1>6, <1>7, <1>8, <1>9 DEF Continue

\* A goroutine that begins an operation changes only where it is itself.
LEMMA OtherBegins ==
    ASSUME BInv, NEW g \in Goroutines, NEW c \in Clients, Use(g, c)
    PROVE  /\ \A h \in Goroutines \ {g} :
                 pc'[h] = pc[h] /\ op'[h] = op[h] /\ on'[h] = on[h] /\ result'[h] = result[h]
           /\ pc'[g] # "idle" => on'[g] = c
           /\ pc[g] = "idle"
           /\ UNCHANGED <<handle, native, slot, locked>>
BY DEF BInv, TypeOK, Use, NewClientRefused, NewClient, Call, Close, Begin, libraryVars, clientVars

-----------------------------------------------------------------------------
(* The script *)

LEMMA ScriptFacts ==
    ASSUME step \in 1..9
    PROVE  /\ Len(Script) = 8
           /\ At("protect_bytes_with_envelope") <=> step = 4
           /\ At("envelope_key_access_plan") <=> step = 2
           /\ At("access_bytes_with_envelope") <=> step = 5
           /\ At("rewrap_bytes_with_envelope") <=> step = 6
           /\ step <= 8 => Source \in {"keyless", "inline", "managed"}
           /\ step \in 4..6 => Source = IF managed THEN "managed" ELSE "inline"
<1>1. Len(Script) = 8
    BY DEF Script
<1>2. step \in {1, 2, 3, 4, 5, 6, 7, 8, 9}
    OBVIOUS
<1>3. step <= 8 => (Script[step] \in EnvelopeCalls <=> step \in 4..6)
    BY <1>2 DEF Script, EnvelopeCalls
<1>4. /\ At("protect_bytes_with_envelope") <=> step = 4
      /\ At("envelope_key_access_plan") <=> step = 2
      /\ At("access_bytes_with_envelope") <=> step = 5
      /\ At("rewrap_bytes_with_envelope") <=> step = 6
    BY <1>1, <1>2 DEF At, Script
<1> QED BY <1>1, <1>3, <1>4 DEF Source

-----------------------------------------------------------------------------
(* One lemma per action *)

LEMMA RunScenarioKeeps ==
    ASSUME RInv, RunScenario
    PROVE  Control' /\ Settled' /\ Pressing' /\ Belongs'
<1> USE RunnerAssumption DEF RInv, RunScenario, Control
<1>1. CASE phase' = "over" /\ UNCHANGED <<vars, client, owned>>
    BY <1>1 DEF vars, libraryVars, clientVars, goroutineVars, Settled, Pressing, Belongs
<1>2. ASSUME NEW c \in Clients, NewClient(Runner, c) \/ NewClientRefused(Runner, c),
             phase' = "creating", client' = c, owned' = TRUE
      PROVE  Control' /\ Settled' /\ Pressing' /\ Belongs'
    <2>1. Use(Runner, c)
        BY <1>2 DEF Use
    <2>2. Control'
        BY <1>2 DEF NewClient, NewClientRefused, Begin, BInv, TypeOK
    <2>3. Settled' /\ Pressing'
        <3>1. locked' = locked /\ ~ (Runner \in locked /\ demanded /\ ~managed)
            BY <1>2 DEF Pressing, NewClient, NewClientRefused, libraryVars
        <3> QED BY <3>1 DEF Settled, Pressing
    <2>4. \A g \in Goroutines \ {Runner} : pc[g] # "idle" => on[g] # c
        BY <1>2 DEF NewClient, NewClientRefused, BInv, Labelled, Made, Unused, TypeOK,
                    Operations
    <2>5. handle[c] = "unmade" /\ native'[c] = "none"
        BY <1>2 DEF NewClient, NewClientRefused, clientVars, BInv, Unused
    <2>6. pc'[Runner] = "idle" => result'[Runner] = Plain("unavailable")
        BY <1>2 DEF NewClient, NewClientRefused, Begin, BInv, TypeOK
    <2>7. Plain("unavailable") # Plain("ok")
        BY DEF Plain
    <2>8. \A g \in Goroutines \ {Runner} : pc'[g] = pc[g] /\ on'[g] = on[g]
        BY <2>1, OtherBegins
    <2> QED BY <1>2, <2>2, <2>3, <2>4, <2>5, <2>6, <2>7, <2>8 DEF Belongs
<1> QED BY <1>1, <1>2

LEMMA RunWithClientKeeps ==
    ASSUME RInv, RunWithClient
    PROVE  Control' /\ Settled' /\ Pressing' /\ Belongs'
<1> USE RunnerAssumption DEF RInv, RunWithClient
<1>1. UNCHANGED <<pc, op, on, handle, native, slot, result, locked>>
    BY DEF vars, libraryVars, clientVars, goroutineVars
<1>2. asked' = "none" /\ Control'
    BY <1>1 DEF Control
<1>3. Settled'
    BY <1>2 DEF Settled
<1>4. Pressing'
    BY <1>1 DEF Pressing
<1>5. Belongs'
    BY <1>1 DEF Belongs, LiveClient, Control
<1> QED BY <1>2, <1>3, <1>4, <1>5

LEMMA CreatedKeeps ==
    ASSUME RInv, Created
    PROVE  Control' /\ Settled' /\ Pressing' /\ Belongs'
<1> USE RunnerAssumption DEF RInv, Created
<1>1. UNCHANGED <<pc, op, on, handle, native, slot, result, locked>>
    BY DEF vars, libraryVars, clientVars, goroutineVars
<1>2. asked' = "none" /\ Control'
    BY <1>1 DEF Control
<1>3. Settled'
    BY <1>2 DEF Settled
<1>4. Pressing'
    BY <1>1 DEF Pressing
<1>5. Belongs'
    BY <1>1 DEF Belongs, LiveClient, Control
<1> QED BY <1>2, <1>3, <1>4, <1>5

LEMMA InvokeKeeps ==
    ASSUME RInv, Invoke
    PROVE  Control' /\ Settled' /\ Pressing' /\ Belongs'
<1> USE RunnerAssumption DEF RInv, Invoke
<1>1. client \in Clients /\ step \in 1..9 /\ Use(Runner, client)
    BY DEF Control, Use
<1>2. /\ pc'[Runner] = "check" /\ op'[Runner] = "call" /\ on'[Runner] = client
      /\ UNCHANGED <<handle, native>>
    BY DEF Call, Begin, clientVars, BInv, TypeOK
<1>3. Control'
    BY <1>1, <1>2, ScriptFacts DEF Control
<1>4. Settled'
    BY <1>1, ScriptFacts DEF Settled
<1>5. Pressing'
    BY DEF Pressing, Call, libraryVars
<1>6. Belongs'
    BY <1>1, <1>2, OtherBegins DEF Belongs, LiveClient
<1> QED BY <1>3, <1>4, <1>5, <1>6

LEMMA AdvanceKeeps ==
    ASSUME RInv, Advance
    PROVE  Control' /\ Settled' /\ Pressing' /\ Belongs'
<1> USE RunnerAssumption DEF RInv, Advance, Answered
<1>1. UNCHANGED <<pc, op, on, handle, native, slot, result, locked>>
    BY DEF vars, libraryVars, clientVars, goroutineVars
<1>2. step \in 1..8 /\ asked' = "none"
    BY DEF Control
<1>3. managed' \in BOOLEAN /\ (step # 2 => managed' = managed)
    BY <1>2, ScriptFacts DEF UsesManagedKeyTransport, Control
<1>4. Control'
    BY <1>1, <1>2, <1>3 DEF Control
<1>5. Settled'
    BY <1>2, <1>3, ScriptFacts DEF Settled
<1>6. Pressing'
    <2>1. result[Runner].what # "native"
        BY DEF Plain
    <2> QED BY <1>1, <1>2, <1>3, <2>1 DEF Pressing, RequiresManagedEnvelopeKey
<1>7. Belongs'
    BY <1>1 DEF Belongs, LiveClient
<1> QED BY <1>4, <1>5, <1>6, <1>7

LEMMA FallBackKeeps ==
    ASSUME RInv, FallBack
    PROVE  Control' /\ Settled' /\ Pressing' /\ Belongs'
<1> USE RunnerAssumption DEF RInv, FallBack, Answered
<1>1. client \in Clients /\ step \in 1..9 /\ Use(Runner, client)
    BY DEF Control, Use
<1>2. /\ pc'[Runner] = "check" /\ op'[Runner] = "call" /\ on'[Runner] = client
      /\ UNCHANGED <<handle, native>>
    BY DEF Call, Begin, clientVars, BInv, TypeOK
<1>3. Control'
    BY <1>1, <1>2 DEF Control, FallsBack
<1>4. Settled' /\ Pressing'
    BY <1>1, ScriptFacts DEF Settled, Pressing, FallsBack, Refused
<1>5. Belongs'
    BY <1>1, <1>2, OtherBegins DEF Belongs, LiveClient
<1> QED BY <1>3, <1>4, <1>5

LEMMA GiveUpKeeps ==
    ASSUME RInv, GiveUp
    PROVE  Control' /\ Settled' /\ Pressing' /\ Belongs'
<1> USE RunnerAssumption DEF RInv, GiveUp
<1>1. UNCHANGED <<pc, op, on, handle, native, slot, result, locked>>
    BY DEF vars, libraryVars, clientVars, goroutineVars
<1>2. ~ (Runner \in locked /\ demanded /\ ~managed)
    BY ScriptFacts DEF Pressing, Control, Refused, RequiresManagedEnvelopeKey, Plain
<1>3. Control'
    BY <1>1 DEF Control, End
<1>4. Settled' /\ Pressing'
    BY <1>1, <1>2 DEF Settled, Pressing
<1>5. Belongs'
    BY <1>1 DEF Belongs, LiveClient, End, Control
<1> QED BY <1>3, <1>4, <1>5

LEMMA SummariseKeeps ==
    ASSUME RInv, Summarise
    PROVE  Control' /\ Settled' /\ Pressing' /\ Belongs'
<1> USE RunnerAssumption DEF RInv, Summarise
<1>1. UNCHANGED <<pc, op, on, handle, native, slot, result, locked>>
    BY DEF vars, libraryVars, clientVars, goroutineVars
<1>2. step = 9 /\ asked = "none"
    <2>1. step \in 1..9 /\ Len(Script) = 8
        BY ScriptFacts DEF Control
    <2> QED BY <2>1 DEF Control
<1>3. Control'
    BY <1>1, <1>2 DEF Control, End
<1>4. Settled' /\ Pressing'
    BY <1>1, <1>2 DEF Settled, Pressing
<1>5. Belongs'
    BY <1>1, <1>2 DEF Belongs, LiveClient, End, Control
<1> QED BY <1>3, <1>4, <1>5

LEMMA CloseOwnedKeeps ==
    ASSUME RInv, CloseOwned
    PROVE  Control' /\ Settled' /\ Pressing' /\ Belongs'
<1> USE RunnerAssumption DEF RInv, CloseOwned
<1>1. client \in Clients /\ owned /\ Use(Runner, client)
    BY DEF Control, Use
<1>2. /\ pc'[Runner] = "closing" /\ op'[Runner] = "close" /\ on'[Runner] = client
      /\ UNCHANGED <<handle, native>>
    BY DEF Close, Begin, clientVars, BInv, TypeOK
<1>3. Control' /\ Settled'
    BY <1>1, <1>2 DEF Control, Settled
<1>4. Pressing'
    BY DEF Pressing, Close, libraryVars
<1>5. Belongs'
    BY <1>1, <1>2, OtherBegins DEF Belongs, LiveClient
<1> QED BY <1>3, <1>4, <1>5

LEMMA ClosedKeeps ==
    ASSUME RInv, Closed
    PROVE  Control' /\ Settled' /\ Pressing' /\ Belongs'
<1> USE RunnerAssumption DEF RInv, Closed
<1>1. UNCHANGED <<pc, op, on, handle, native, slot, result, locked>>
    BY DEF vars, libraryVars, clientVars, goroutineVars
<1>2. asked' = "none" /\ Control'
    BY <1>1 DEF Control
<1>3. Settled'
    BY <1>2 DEF Settled
<1>4. Pressing'
    BY <1>1 DEF Pressing
<1>5. Belongs'
    BY <1>1 DEF Belongs, LiveClient, Control
<1> QED BY <1>2, <1>3, <1>4, <1>5

\* What the others do does not reach the runner, nor a client it made.
LEMMA OthersKeeps ==
    ASSUME RInv, Others
    PROVE  Control' /\ Settled' /\ Pressing' /\ Belongs'
<1> USE RunnerAssumption DEF RInv, Others, runnerVars
<1> DEFINE Untouched ==
      /\ pc'[Runner] = pc[Runner] /\ op'[Runner] = op[Runner] /\ on'[Runner] = on[Runner]
      /\ result'[Runner] = result[Runner] /\ locked' = locked
      /\ Runner \in locked => slot'[Home[Runner]] = slot[Home[Runner]]
      /\ owned => /\ handle'[client] = handle[client] /\ native'[client] = native[client]
                  /\ \A g \in Goroutines \ {Runner} : pc'[g] # "idle" => on'[g] # client
<1>1. Untouched
    <2>1. ASSUME NEW g \in Goroutines \ {Runner}, Continue(g) PROVE Untouched
        <3>1. owned => on[g] # client /\ client \in Clients
            BY <2>1, OtherContinues DEF Belongs, Control
        <3> QED BY <2>1, <3>1, OtherContinues DEF Belongs
    <2>2. ASSUME NEW g \in Goroutines \ {Runner}, NEW c \in Clients,
                 ~ (owned /\ c = client), Use(g, c) PROVE Untouched
        BY <2>2, OtherBegins DEF Belongs
    <2>3. CASE ChangeFile
        BY <2>3 DEF ChangeFile, clientVars, goroutineVars, Belongs
    <2> QED BY <2>1, <2>2, <2>3
<1>2. Control' /\ Settled'
    BY <1>1 DEF Control, Settled
<1>3. Pressing'
    BY <1>1 DEF Pressing
<1>4. Belongs'
    BY <1>1 DEF Belongs, LiveClient
<1> QED BY <1>2, <1>3, <1>4

\* The binding works on the runner's call: a client it made is live once it was made, and
\* freed when it is closed; a message is its own.
LEMMA BindingStepKeeps ==
    ASSUME RInv, BindingStep
    PROVE  Control' /\ Settled' /\ Pressing' /\ Belongs'
<1> USE RunnerAssumption, BindingAssumption DEF RInv, BindingStep
<1>1. /\ pc[Runner] # "idle" /\ locked' = locked
      /\ pc'[Runner] # "idle" => on'[Runner] = on[Runner] /\ op'[Runner] = op[Runner]
      /\ \A g \in Goroutines \ {Runner} : pc'[g] = pc[g] /\ on'[g] = on[g]
      /\ phase \in {"creating", "running", "closing"} /\ on[Runner] = client
      /\ client \in Clients
    BY OtherContinues DEF Control
<1>2. Control' /\ Settled'
    BY <1>1 DEF Control, Settled
<1>3. Pressing'
    <2>1. demanded' => step >= 4
        <3>1. step \in 1..9 /\ (demanded => step >= 4)
            BY DEF Pressing, Control
        <3>2. At("protect_bytes_with_envelope") => step = 4
            BY <3>1, ScriptFacts
        <3>3. demanded' => demanded \/ At("protect_bytes_with_envelope")
            BY ZenonT(30)
        <3>4. step = 4 => step >= 4
            OBVIOUS
        <3> HIDE DEF RInv, BindingStep
        <3> QED BY <3>1, <3>2, <3>3, <3>4
    <2>2. SUFFICES ASSUME Runner \in locked, demanded', ~managed
          PROVE  /\ phase = "running" /\ step = 4 /\ asked = "inline"
                 /\ \/ pc'[Runner] = "message" /\ slot'[Home[Runner]].kind = "managed"
                    \/ pc'[Runner] = "idle" /\ RequiresManagedEnvelopeKey(result'[Runner])
        BY <1>1, <2>1 DEF Pressing, RequiresManagedEnvelopeKey
    <2>3. CASE demanded
        <3>1. /\ phase = "running" /\ step = 4 /\ asked = "inline"
              /\ pc[Runner] = "message" /\ slot[Home[Runner]].kind = "managed"
            BY <1>1, <2>2, <2>3 DEF Pressing
        <3>2. Message(Runner)
            BY <3>1 DEF Continue, LoadLibrary, Check, Enter, Succeed, Fail, CloseCheck,
                        Free, Forget
        <3>3. slot[Home[Runner]] # Empty
            BY <2>2, <3>1 DEF BInv, Kept, Messages, Empty
        <3>4. pc'[Runner] = "idle" /\ result'[Runner] = Native(slot[Home[Runner]])
            BY <2>2, <3>2, <3>3 DEF Message, MessageThread, Available, Finish, BInv, TypeOK
        <3> QED BY <3>1, <3>4 DEF Native, RequiresManagedEnvelopeKey
    <2>4. CASE ~demanded
        <3>1. /\ At("protect_bytes_with_envelope") /\ asked = "inline"
              /\ pc'[Runner] = "message" /\ slot'[thread[Runner]].kind = "managed"
            BY <2>2, <2>4
        <3>2. pc[Runner] = "inside"
            BY <1>1, <3>1 DEF Continue, LoadLibrary, Check, Enter, Succeed, Fail, Message,
                        CloseCheck, Free, Forget, Finish, BInv, TypeOK
        <3>3. thread[Runner] = Home[Runner]
            BY <2>2, <3>2 DEF BInv, Apart
        <3>4. phase = "running" /\ step = 4
            BY <1>1, <3>1, ScriptFacts DEF Control
        <3> QED BY <3>1, <3>3, <3>4
    <2> QED BY <2>3, <2>4
<1>4. ASSUME owned PROVE Belongs'
    <2>1. \A g \in Goroutines \ {Runner} : pc'[g] # "idle" => on'[g] # client
        BY <1>1, <1>4 DEF Belongs
    <2>2. CASE phase = "creating"
        <3>1. /\ op[Runner] = "new" /\ handle[client] = "unmade" /\ native[client] = "none"
              /\ pc[Runner] \in {"load", "enter", "inside", "message"}
            BY <1>1, <2>2 DEF Control, BInv, Made, Unused, Labelled, TypeOK
        <3>2. CASE LoadLibrary(Runner)
            <4>1. native'[client] = "none"
                BY <3>1, <3>2 DEF LoadLibrary, clientVars
            <4>2. pc'[Runner] = "idle" => result'[Runner] = Plain("no library")
                BY <3>2 DEF LoadLibrary, Finish, BInv, TypeOK
            <4>3. Plain("no library") # Plain("ok")
                BY DEF Plain
            <4> QED BY <2>1, <2>2, <4>1, <4>2, <4>3 DEF Belongs
        <3>3. CASE Enter(Runner)
            BY <1>1, <2>1, <2>2, <3>1, <3>3 DEF Enter, clientVars, Belongs, BInv, TypeOK
        <3>4. CASE Succeed(Runner)
            BY <1>1, <2>1, <2>2, <3>1, <3>4
               DEF Succeed, Finish, Belongs, LiveClient, BInv, TypeOK
        <3>5. ASSUME NEW k \in Kinds, Fail(Runner, k) PROVE Belongs'
            BY <1>1, <2>1, <2>2, <3>1, <3>5 DEF Fail, clientVars, Belongs, BInv, TypeOK
        <3>6. CASE Message(Runner)
            BY <1>1, <2>1, <2>2, <3>1, <3>6
               DEF Message, Finish, Plain, Native, clientVars, Belongs, BInv, TypeOK
        <3> QED BY <3>1, <3>2, <3>3, <3>4, <3>5, <3>6
                DEF Continue, Check, CloseCheck, Free, Forget
    <2>3. CASE phase = "running"
        <3>1. op[Runner] = "call" /\ LiveClient
            BY <1>1, <1>4, <2>3 DEF Control, Belongs
        <3>2. UNCHANGED <<handle, native>>
            BY <3>1 DEF Continue, LoadLibrary, Check, Enter, Succeed, Fail, Message,
                        CloseCheck, Free, Forget, clientVars, BInv, Labelled
        <3> QED BY <2>1, <2>3, <3>1, <3>2 DEF Belongs, LiveClient
    <2>4. CASE phase = "closing"
        <3>1. /\ op[Runner] = "close" /\ asked = "close"
              /\ pc[Runner] \in {"closing", "free", "forget"}
            BY <1>1, <2>4 DEF Control, BInv, Labelled, TypeOK
        <3>2. CASE CloseCheck(Runner)
            BY <1>1, <1>4, <2>1, <2>4, <3>1, <3>2
               DEF CloseCheck, Checked, clientVars, Belongs, LiveClient, BInv, TypeOK
        <3>3. CASE Free(Runner)
            BY <1>1, <1>4, <2>1, <2>4, <3>1, <3>3 DEF Free, Belongs, LiveClient, BInv, TypeOK
        <3>4. CASE Forget(Runner)
            BY <1>1, <1>4, <2>1, <2>4, <3>1, <3>4
               DEF Forget, Finish, Belongs, LiveClient, BInv, TypeOK
        <3> QED BY <3>1, <3>2, <3>3, <3>4
                DEF Continue, LoadLibrary, Check, Enter, Succeed, Fail, Message
    <2> QED BY <1>1, <2>2, <2>3, <2>4
<1>5. ~owned => Belongs'
    BY DEF Belongs
<1> QED BY <1>2, <1>3, <1>4, <1>5

LEMMA InitRInv == RunnerInit => RInv
<1> SUFFICES ASSUME RunnerInit PROVE RInv
    OBVIOUS
<1> USE RunnerAssumption DEF RunnerInit
<1>1. BInv
    BY InitBInv
<1>2. pc[Runner] = "idle"
    BY DEF Init
<1>3. step \in 1..9 /\ managed \in BOOLEAN /\ demanded \in BOOLEAN /\ owned \in BOOLEAN
    <2>1. step \in 1..9
        OBVIOUS
    <2>2. managed \in BOOLEAN /\ demanded \in BOOLEAN /\ owned \in BOOLEAN
        OBVIOUS
    <2> QED BY <2>1, <2>2
<1>4. Control
    BY <1>2, <1>3 DEF Control
<1>5. Settled /\ Pressing /\ Belongs
    BY DEF Settled, Pressing, Belongs
<1> QED BY <1>1, <1>4, <1>5 DEF RInv

LEMMA NextRInv == RInv /\ [RunnerNext]_<<vars, runnerVars>> => RInv'
<1>1. ASSUME RInv, RunnerNext PROVE RInv'
    <2>1. BInv'
        BY <1>1, BindingKept
    <2>2. Control' /\ Settled' /\ Pressing' /\ Belongs'
        BY <1>1, RunScenarioKeeps, RunWithClientKeeps, CreatedKeeps, InvokeKeeps,
           AdvanceKeeps, FallBackKeeps, GiveUpKeeps, SummariseKeeps, CloseOwnedKeeps,
           ClosedKeeps, BindingStepKeeps, OthersKeeps DEF RunnerNext
    <2> QED BY <2>1, <2>2 DEF RInv
<1>2. ASSUME RInv, UNCHANGED <<vars, runnerVars>> PROVE RInv'
    <2>1. BInv'
        BY <1>2, NextBInv DEF RInv
    <2> QED BY <1>2, <2>1 DEF RInv, Control, Settled, Pressing, Belongs, LiveClient, vars,
                runnerVars, libraryVars, clientVars, goroutineVars
<1> QED BY <1>1, <1>2

LEMMA ScenarioInductive == RunnerSpec => []RInv
BY InitRInv, NextRInv, PTL DEF RunnerSpec

-----------------------------------------------------------------------------
(* What follows *)

\* A process in which a scenario runs is a process that uses the binding: whatever is
\* proved of Spec holds while it runs.
THEOREM ScenarioUsesBinding == RunnerSpec => Spec
<1>1. RunnerInit => Init
    BY DEF RunnerInit
<1>2. RInv /\ [RunnerNext]_<<vars, runnerVars>> => [Next]_vars
    BY StepUsesBinding DEF RInv
<1> QED BY <1>1, <1>2, ScenarioInductive, PTL DEF RunnerSpec, Spec

\* An envelope is opened and rewrapped with the kind of key it was protected with, whatever
\* the plan says and the library demands.
THEOREM EnvelopeKeysMatch == RunnerSpec => []KeysMatch
<1>1. RInv => KeysMatch
    BY ScriptFacts DEF RInv, Control, Settled, KeysMatch
<1> QED BY <1>1, ScenarioInductive, PTL

\* A runner that is locked to its thread hears the library's demand for a managed key.
THEOREM DemandsAreHeard == RunnerSpec => []DemandHeard
<1>1. RInv => DemandHeard
    BY DEF RInv, Control, Pressing, DemandHeard
<1> QED BY <1>1, ScenarioInductive, PTL

\* A client that the scenario made is freed on every path out of it.
THEOREM ScenarioReleasesClient == RunnerSpec => []ClientReleased
<1>1. RInv => ClientReleased
    BY DEF RInv, Belongs, ClientReleased
<1> QED BY <1>1, ScenarioInductive, PTL
=============================================================================
