--------------------------- MODULE NativeBinding ---------------------------
(***************************************************************************)
(* The Go client over the native SDK library: client.go and its bindings   *)
(* (binding_cgo.go, binding_windows.go, binding_stub.go,                   *)
(* binding_rustbindings_nocgo.go).                                         *)
(*                                                                         *)
(* A client holds a handle of the library.  Call looks at the handle, then *)
(* passes it to a native function; when that fails, its message is fetched *)
(* by a second native call from a slot the library keeps per OS thread.    *)
(* Close frees the handle and then forgets it.  Nothing is locked, and the *)
(* Go scheduler may run each native call of a goroutine on another thread  *)
(* unless the caller has locked the goroutine to its thread.  On Windows   *)
(* the library itself is looked for once per process.                      *)
(*                                                                         *)
(* The payloads, the JSON around them and the native strings (each is      *)
(* copied and freed where it is returned) are left out.  Whether a message *)
(* stays in its slot once it has been read is the library's business: both *)
(* are allowed.  Definitions used nowhere are mutated forms of the next.   *)
(***************************************************************************)
EXTENDS Integers, FiniteSets, Sequences

CONSTANTS
    Goroutines, Clients, Threads,
    Home,         \* Home[g]: the OS thread of g if the caller locks it
    Kinds,        \* what a native function may fail with
    Candidates,   \* how many places are searched for the Windows library
    MaxUses,      \* MaxUses[g], a bound: operations that g begins
    MaxChanges    \* bound: changes of the files searched

ASSUME BindingAssumption ==
    /\ Home \in [Goroutines -> Threads]
    /\ \A g, h \in Goroutines : Home[g] = Home[h] => g = h
    /\ MaxUses \in [Goroutines -> Nat] /\ Candidates \in Nat /\ MaxChanges \in Nat

VARIABLES
    build,        \* which of the four bindings was compiled in
    locked,       \* goroutines whose callers hold runtime.LockOSThread
    \* the Windows library
    files,        \* what is at each candidate path
    library,      \* 0 before the first search, -1 when it failed, else the candidate
    changes,
    \* clients
    handle,       \* the handle field: "unmade" (no client), "set" or "nil"
    native,       \* what is behind it: "none", "live" or "freed"
    from,         \* the library a client was made with
    \* goroutines
    pc, op, on,   \* where it is in which operation on which client
    thread,       \* where its native call runs, Home[g] outside one
    result, uses,  \* how its last operation ended, how many it has begun
    slot,         \* the message the library keeps for each thread
    \* what the properties ask about
    misused,      \* clients whose handle was passed on after it was freed or forgotten
    raced         \* clients that were being closed while somebody else used them

libraryVars == <<build, locked, files, library, changes>>
clientVars == <<handle, native, from>>
goroutineVars == <<pc, op, on, thread, result, uses, slot>>
history == <<misused, raced>>
vars == <<libraryVars, clientVars, goroutineVars, history>>

-----------------------------------------------------------------------------

Builds == {"stub", "nocgo", "cgo", "windows"}
Contents == {"absent", "broken", "good"}
Operations == {"none", "new", "call", "close"}

\* A message says which operation of which goroutine left it.
Messages == [by : Goroutines, use : Nat, kind : Kinds]
Empty == [by |-> "nobody"]
NoClient == "no client"

Plain(what) == [what |-> what]
Native(message) == [what |-> "native", message |-> message]
Results ==
    [what : {"ok", "pending", "unavailable", "no library", "not initialized", "unknown"}]
    \cup [what : {"native"}, message : Messages]

Inside == {g \in Goroutines : pc[g] = "inside"}

\* The threads on which a native call of g can start now.
Available(g) ==
    IF g \in locked THEN {Home[g]}
    ELSE Threads \ ({thread[h] : h \in Inside} \cup {Home[h] : h \in locked})

AnyThread(g) == Threads

\* The threads on which the message of a failed call of g can be asked for.
MessageThread(g) == Available(g)

\* Somebody else is at work on client c, or at work closing it.
Busy(g, c) == \E h \in Goroutines \ {g} : pc[h] # "idle" /\ on[h] = c
Closing(g, c) == \E h \in Goroutines \ {g} : pc[h] # "idle" /\ on[h] = c /\ op[h] = "close"

Finish(g, r) ==
    /\ pc' = [pc EXCEPT ![g] = "idle"]
    /\ op' = [op EXCEPT ![g] = "none"]
    /\ on' = [on EXCEPT ![g] = NoClient]
    /\ result' = [result EXCEPT ![g] = r]

Begin(g, c, what, label) ==
    /\ pc[g] = "idle" /\ uses[g] < MaxUses[g]
    /\ uses' = [uses EXCEPT ![g] = @ + 1]
    /\ pc' = [pc EXCEPT ![g] = label]
    /\ op' = [op EXCEPT ![g] = what]
    /\ on' = [on EXCEPT ![g] = c]
    /\ result' = [result EXCEPT ![g] = Plain("pending")]
    /\ raced' = IF \/ what = "close" /\ Busy(g, c)
                   \/ Closing(g, c)
                THEN raced \cup {c} ELSE raced

-----------------------------------------------------------------------------
(* NewClient *)

\* No binding was compiled in: every client is refused.
NewClientRefused(g, c) ==
    /\ build \in {"stub", "nocgo"}
    /\ pc[g] = "idle" /\ handle[c] = "unmade"
    /\ result' = [result EXCEPT ![g] = Plain("unavailable")]
    /\ UNCHANGED <<libraryVars, clientVars, pc, op, on, thread, uses, slot, history>>

NewClient(g, c) ==
    /\ build \in {"cgo", "windows"}
    /\ handle[c] = "unmade"
    /\ \A h \in Goroutines : ~(op[h] = "new" /\ on[h] = c)
    /\ Begin(g, c, "new", IF build = "windows" THEN "load" ELSE "enter")
    /\ UNCHANGED <<libraryVars, clientVars, thread, slot, misused>>

\* resolve takes the first candidate there is, whatever it contains.
FirstPresent ==
    {p \in 1..Candidates : files[p] # "absent"
                           /\ \A q \in 1..(p - 1) : files[q] = "absent"}

NeverLoaded == FALSE

\* windowsRustLibraryOnce has run.
Loaded == library # 0

\* The error of the search is kept beside the library.
SearchFailed(l) == l = -1

\* sync.Once: a first caller searches and loads, the others wait and share what it
\* found, also when that was an error.
LoadLibrary(g) ==
    /\ pc[g] = "load"
    /\ library' = IF Loaded THEN library
                  ELSE IF \E p \in FirstPresent : files[p] = "good"
                  THEN CHOOSE p \in FirstPresent : TRUE ELSE -1
    /\ IF SearchFailed(library')
       THEN Finish(g, Plain("no library"))
       ELSE pc' = [pc EXCEPT ![g] = "enter"] /\ UNCHANGED <<op, on, result>>
    /\ UNCHANGED <<build, locked, files, changes, clientVars, thread, uses, slot,
                   history>>

-----------------------------------------------------------------------------
(* Call *)

Unchecked(c) == handle[c] # "unmade"

\* "Rust SDK handle is not initialized"
Checked(c) == handle[c] = "set"

\* A method of the client that returned from NewClient.
Call(g, c) ==
    /\ handle[c] # "unmade"
    /\ Begin(g, c, "call", "check")
    /\ UNCHANGED <<libraryVars, clientVars, thread, slot, misused>>

Check(g) ==
    /\ pc[g] = "check"
    /\ IF Checked(on[g])
       THEN pc' = [pc EXCEPT ![g] = "enter"] /\ UNCHANGED <<op, on, result>>
       ELSE Finish(g, Plain("not initialized"))
    /\ UNCHANGED <<libraryVars, clientVars, thread, uses, slot, history>>

\* The handle is read again and passed on, on whatever thread.
Enter(g) ==
    /\ pc[g] = "enter"
    /\ \E t \in Available(g) : thread' = [thread EXCEPT ![g] = t]
    /\ pc' = [pc EXCEPT ![g] = "inside"]
    /\ misused' = IF op[g] = "call" /\ (handle[on[g]] # "set" \/ native[on[g]] # "live")
                  THEN misused \cup {on[g]} ELSE misused
    /\ UNCHANGED <<libraryVars, clientVars, op, on, result, uses, slot, raced>>

\* The native function succeeds: a client is made or a result copied.
Succeed(g) ==
    /\ pc[g] = "inside"
    /\ Finish(g, Plain("ok"))
    /\ IF op[g] = "new"
       THEN /\ handle' = [handle EXCEPT ![on[g]] = "set"]
            /\ native' = [native EXCEPT ![on[g]] = "live"]
            /\ from' = [from EXCEPT ![on[g]] = library]
       ELSE UNCHANGED clientVars
    /\ thread' = [thread EXCEPT ![g] = Home[g]]
    /\ UNCHANGED <<libraryVars, uses, slot, history>>

\* It fails, and leaves its message with the thread it ran on.
Fail(g, k) ==
    /\ pc[g] = "inside"
    /\ slot' = [slot EXCEPT ![thread[g]] = [by |-> g, use |-> uses[g], kind |-> k]]
    /\ pc' = [pc EXCEPT ![g] = "message"]
    /\ thread' = [thread EXCEPT ![g] = Home[g]]
    /\ UNCHANGED <<libraryVars, clientVars, op, on, result, uses, history>>

\* lastRustError, a native call of its own.
Message(g) ==
    /\ pc[g] = "message"
    /\ \E t \in MessageThread(g) :
        /\ Finish(g, IF slot[t] = Empty THEN Plain("unknown") ELSE Native(slot[t]))
        /\ slot' \in {slot, [slot EXCEPT ![t] = Empty]}
    /\ UNCHANGED <<libraryVars, clientVars, thread, uses, history>>

-----------------------------------------------------------------------------
(* Close *)

Close(g, c) ==
    /\ handle[c] # "unmade"
    /\ Begin(g, c, "close", "closing")
    /\ UNCHANGED <<libraryVars, clientVars, thread, slot, misused>>

CloseCheck(g) ==
    /\ pc[g] = "closing"
    /\ IF Checked(on[g])
       THEN pc' = [pc EXCEPT ![g] = "free"] /\ UNCHANGED <<op, on, result>>
       ELSE Finish(g, Plain("ok"))
    /\ UNCHANGED <<libraryVars, clientVars, thread, uses, slot, history>>

\* client_free.  Freeing what is freed, forgotten or in use is a misuse.
Free(g) ==
    /\ pc[g] = "free"
    /\ pc' = [pc EXCEPT ![g] = "forget"]
    /\ native' = [native EXCEPT ![on[g]] = "freed"]
    /\ misused' = IF \/ handle[on[g]] # "set" \/ native[on[g]] # "live"
                     \/ \E h \in Inside : on[h] = on[g] /\ op[h] = "call"
                  THEN misused \cup {on[g]} ELSE misused
    /\ UNCHANGED <<libraryVars, handle, from, op, on, thread, result, uses, slot, raced>>

HandleKept == "set"
HandleForgotten == "nil"

Forget(g) ==
    /\ pc[g] = "forget"
    /\ handle' = [handle EXCEPT ![on[g]] = HandleForgotten]
    /\ Finish(g, Plain("ok"))
    /\ UNCHANGED <<libraryVars, native, from, thread, uses, slot, history>>

-----------------------------------------------------------------------------

\* Somebody installs, damages or removes a library file.
ChangeFile ==
    /\ build = "windows"
    /\ changes < MaxChanges
    /\ changes' = changes + 1
    /\ \E p \in 1..Candidates : \E k \in Contents \ {files[p]} :
           files' = [files EXCEPT ![p] = k]
    /\ UNCHANGED <<build, locked, library, clientVars, goroutineVars, history>>

\* What a goroutine's own code does in an operation it has begun.
Continue(g) ==
    \/ LoadLibrary(g) \/ Check(g) \/ Enter(g) \/ Succeed(g) \/ \E k \in Kinds : Fail(g, k)
    \/ Message(g) \/ CloseCheck(g) \/ Free(g) \/ Forget(g)

Use(g, c) == NewClientRefused(g, c) \/ NewClient(g, c) \/ Call(g, c) \/ Close(g, c)

Init ==
    /\ build \in Builds
    /\ locked \in SUBSET Goroutines
    /\ files \in IF build = "windows" THEN [1..Candidates -> Contents]
                 ELSE {[p \in 1..Candidates |-> "absent"]}
    /\ library = 0 /\ changes = 0
    /\ handle = [c \in Clients |-> "unmade"]
    /\ native = [c \in Clients |-> "none"]
    /\ from = [c \in Clients |-> 0]
    /\ pc = [g \in Goroutines |-> "idle"]
    /\ op = [g \in Goroutines |-> "none"]
    /\ on = [g \in Goroutines |-> NoClient]
    /\ thread = Home
    /\ result = [g \in Goroutines |-> Plain("ok")]
    /\ uses = [g \in Goroutines |-> 0]
    /\ slot = [t \in Threads |-> Empty]
    /\ misused = {} /\ raced = {}

Next ==
    \/ \E g \in Goroutines : Continue(g) \/ \E c \in Clients : Use(g, c)
    \/ ChangeFile

Spec == Init /\ [][Next]_vars

-----------------------------------------------------------------------------
(* Properties *)

\* Type invariant.
TypeOK ==
    /\ build \in Builds /\ locked \in SUBSET Goroutines
    /\ files \in [1..Candidates -> Contents]
    /\ library \in {-1, 0} \cup 1..Candidates
    /\ changes \in Nat
    /\ handle \in [Clients -> {"unmade", "set", "nil"}]
    /\ native \in [Clients -> {"none", "live", "freed"}]
    /\ from \in [Clients -> 0..Candidates]
    /\ pc \in [Goroutines -> {"idle", "load", "check", "enter", "inside", "message",
                              "closing", "free", "forget"}]
    /\ op \in [Goroutines -> Operations]
    /\ on \in [Goroutines -> Clients \cup {NoClient}]
    /\ thread \in [Goroutines -> Threads]
    /\ result \in [Goroutines -> Results]
    /\ uses \in [Goroutines -> Nat]
    /\ slot \in [Threads -> Messages \cup {Empty}]
    /\ misused \in SUBSET Clients /\ raced \in SUBSET Clients

\* A handle is never passed to the library after it was freed, freed twice, freed while
\* in use or passed as null, unless the client was closed while somebody else
\* was using it: Close before, after or twice is safe, and so are concurrent
\* calls.  Nothing in the binding prevents the race itself.
MisuseNeedsRace == misused \subseteq raced

\* A goroutine that its caller locked to its OS thread gets the message of its own
\* call, however the others' uses fail in between.
OwnMessage ==
    \A g \in locked :
        result[g].what = "native" =>
            result[g].message.by = g /\ result[g].message.use = uses[g]

\* All clients of a process are of one library, the one found first, whatever becomes
\* of the files; a handle of one library is never passed to another.
OneLibrary ==
    \A c \in Clients : handle[c] # "unmade" /\ build = "windows" => from[c] = library
=============================================================================
