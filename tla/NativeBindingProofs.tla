------------------------ MODULE NativeBindingProofs ------------------------
(***************************************************************************)
(* What holds of the Go binding for any number of goroutines, clients,     *)
(* threads and places to search for the library, in each of its builds.    *)
(***************************************************************************)
EXTENDS NativeBinding, TLAPS

-----------------------------------------------------------------------------
(* The invariant *)

\* Which operation is at which label, and on a client.
Labelled ==
    \A g \in Goroutines :
        /\ pc[g] = "idle" => op[g] = "none"
        /\ pc[g] # "idle" => on[g] \in Clients
        /\ pc[g] = "load" => op[g] = "new" /\ build = "windows"
        /\ pc[g] = "check" => op[g] = "call"
        /\ pc[g] \in {"enter", "inside", "message"} => op[g] \in {"new", "call"}
        /\ pc[g] \in {"closing", "free", "forget"} => op[g] = "close"

\* A client is made once, and used only then.
Made ==
    \A g \in Goroutines :
        /\ op[g] \in {"call", "close"} => handle[on[g]] # "unmade"
        /\ op[g] = "new" => handle[on[g]] = "unmade"
        /\ \A h \in Goroutines : op[g] = "new" /\ op[h] = "new" /\ on[g] = on[h] => g = h

\* The library is there before a native function runs.
Found ==
    /\ build # "windows" => library = 0
    /\ build = "windows" =>
        /\ \A g \in Goroutines :
              op[g] = "new" /\ pc[g] \in {"enter", "inside"} => library \in 1..Candidates
        /\ \A c \in Clients :
              handle[c] # "unmade" => library \in 1..Candidates /\ from[c] = library

\* Whoever closes a client that is not raced is alone with it.
Alone ==
    \A g, h \in Goroutines :
        g # h /\ pc[g] # "idle" /\ pc[h] # "idle" /\ on[g] = on[h] /\ op[g] = "close"
            => on[g] \in raced

\* What handle and memory of such a client are.
Sound ==
    /\ \A c \in Clients \ raced :
          handle[c] = "set" =>
              native[c] = "live" \/ \E g \in Goroutines : pc[g] = "forget" /\ on[g] = c
    /\ \A g \in Goroutines : on[g] \notin raced =>
          /\ pc[g] = "enter" /\ op[g] = "call" => handle[on[g]] = "set"
          /\ pc[g] = "free" => handle[on[g]] = "set"

\* Nobody else runs on the thread of a locked goroutine, so the message of its failed call
\* is still there.
Apart ==
    \A g \in Goroutines :
        /\ g \in locked /\ pc[g] = "inside" => thread[g] = Home[g]
        /\ \A h \in locked : g # h /\ pc[g] = "inside" => thread[g] # Home[h]

Kept ==
    \A g \in locked : pc[g] = "message" =>
        /\ slot[Home[g]] \in Messages
        /\ slot[Home[g]].by = g /\ slot[Home[g]].use = uses[g]

\* A client that was not made has no memory, and without a binding nothing is begun.
Unused ==
    /\ \A c \in Clients : handle[c] = "unmade" => native[c] = "none"
    /\ build \in {"stub", "nocgo"} =>
        /\ \A g \in Goroutines : pc[g] = "idle"
        /\ \A c \in Clients : handle[c] = "unmade"

BInv ==
    /\ TypeOK /\ Labelled /\ Made /\ Found /\ Alone /\ Sound /\ MisuseNeedsRace
    /\ Apart /\ Kept /\ OwnMessage /\ Unused

-----------------------------------------------------------------------------
(* Results *)

\* How an operation can end without a message of the library.
LEMMA PlainResults ==
    /\ Plain("ok") \in Results /\ Plain("pending") \in Results
    /\ Plain("unavailable") \in Results /\ Plain("no library") \in Results
    /\ Plain("not initialized") \in Results /\ Plain("unknown") \in Results
BY DEF Plain, Results

\* How it can end with one.
LEMMA NativeResults ==
    ASSUME NEW m \in Messages PROVE Native(m) \in Results
BY DEF Native, Results

\* Where an operation ends, is refused or goes on, results keep their type.
LEMMA ResultsTyped ==
    ASSUME TypeOK, NEW g \in Goroutines, NEW r \in Results,
           result' = [result EXCEPT ![g] = r]
    PROVE  result' \in [Goroutines -> Results]
BY DEF TypeOK

-----------------------------------------------------------------------------
(* One lemma per action *)

\* An operation that ends without having touched anything.  The library may have been
\* looked for meanwhile, without success.
LEMMA EndKeeps ==
    ASSUME BInv, NEW g \in Goroutines, NEW r \in Results, Finish(g, r), r.what # "native",
           pc[g] \in {"load", "check", "closing"},
           library' = library \/ (build = "windows" /\ library = 0 /\ library' = -1),
           UNCHANGED <<build, locked, files, changes, clientVars, thread, uses, slot, history>>
    PROVE  BInv'
<1> USE BindingAssumption DEF BInv, Finish, clientVars, history
<1>1. TypeOK'
    <2>1. result' \in [Goroutines -> Results]
        BY ResultsTyped
    <2> QED BY <2>1 DEF TypeOK, Operations
<1>2. Labelled'
    BY DEF Labelled, TypeOK
<1>3. Made'
    BY DEF Made, TypeOK, Labelled
<1>4. Found'
    BY DEF Found, TypeOK, Labelled, Made
<1>5. Alone'
    BY DEF Alone, TypeOK, Labelled
<1>6. Sound'
    BY DEF Sound, TypeOK, Labelled, Alone, MisuseNeedsRace, Made
<1>7. MisuseNeedsRace'
    BY DEF MisuseNeedsRace, TypeOK, Labelled, Alone, Sound, Made
<1>8. Apart'
    BY DEF Apart, TypeOK, Labelled
<1>9. Kept'
    BY DEF Kept, TypeOK, Apart, Messages, Labelled
<1>10. OwnMessage'
    BY DEF OwnMessage, TypeOK, Kept, Apart, MessageThread, Available, Labelled, Messages, Empty
<1>11. Unused'
    BY DEF Unused, TypeOK, Labelled, Made
<1> QED BY <1>1, <1>2, <1>3, <1>4, <1>5, <1>6, <1>7, <1>8, <1>9, <1>10, <1>11

\* Nothing but the result changes.
LEMMA NewClientRefusedKeeps ==
    ASSUME BInv, NEW g \in Goroutines, NEW c \in Clients, NewClientRefused(g, c)
    PROVE  BInv'
<1> USE BindingAssumption DEF BInv, NewClientRefused, Plain, libraryVars, clientVars, history
<1>1. TypeOK'
    <2>1. result' \in [Goroutines -> Results]
        BY ResultsTyped, PlainResults
    <2> QED BY <2>1 DEF TypeOK, Operations
<1>2. Labelled'
    BY DEF Labelled, TypeOK
<1>3. Made'
    BY DEF Made, TypeOK, Labelled
<1>4. Found'
    BY DEF Found, TypeOK, Labelled, Made
<1>5. Alone'
    BY DEF Alone, TypeOK, Labelled, Busy, Closing
<1>6. Sound'
    BY DEF Sound, TypeOK, Labelled, Alone, MisuseNeedsRace, Made, Busy, Closing
<1>7. MisuseNeedsRace'
    BY DEF MisuseNeedsRace, TypeOK, Labelled, Alone, Sound, Made
<1>8. Apart'
    BY DEF Apart, TypeOK, Labelled
<1>9. Kept'
    BY DEF Kept, TypeOK, Apart, Messages, Labelled
<1>10. OwnMessage'
    BY DEF OwnMessage, TypeOK, Kept, Apart, MessageThread, Available, Labelled, Messages, Empty
<1>11. Unused'
    BY DEF Unused, TypeOK, Labelled, Made
<1> QED BY <1>1, <1>2, <1>3, <1>4, <1>5, <1>6, <1>7, <1>8, <1>9, <1>10, <1>11

\* The client is not made yet, and nobody else is making it.
LEMMA NewClientKeeps ==
    ASSUME BInv, NEW g \in Goroutines, NEW c \in Clients, NewClient(g, c)
    PROVE  BInv'
<1> USE BindingAssumption DEF BInv, NewClient, Begin, Plain, libraryVars, clientVars, history
<1>1. TypeOK'
    <2>1. result' \in [Goroutines -> Results]
        BY ResultsTyped, PlainResults
    <2> QED BY <2>1 DEF TypeOK, Operations
<1>2. Labelled'
    BY DEF Labelled, TypeOK
<1>3. Made'
    BY DEF Made, TypeOK, Labelled
<1>4. Found'
    BY DEF Found, TypeOK, Labelled, Made
<1>5. Alone'
    BY DEF Alone, TypeOK, Labelled, Made, Busy, Closing
<1>6. Sound'
    BY DEF Sound, TypeOK, Labelled, Alone, MisuseNeedsRace, Made, Busy, Closing
<1>7. MisuseNeedsRace'
    BY DEF MisuseNeedsRace, TypeOK, Labelled, Alone, Sound, Made
<1>8. Apart'
    BY DEF Apart, TypeOK, Labelled
<1>9. Kept'
    BY DEF Kept, TypeOK, Apart, Messages, Labelled
<1>10. OwnMessage'
    BY DEF OwnMessage, TypeOK, Kept, Apart, MessageThread, Available, Labelled, Messages, Empty
<1>11. Unused'
    BY DEF Unused, TypeOK, Labelled, Made
<1> QED BY <1>1, <1>2, <1>3, <1>4, <1>5, <1>6, <1>7, <1>8, <1>9, <1>10, <1>11

\* The library is found once and for all, or the operation ends.
LEMMA LoadLibraryKeeps ==
    ASSUME BInv, NEW g \in Goroutines, LoadLibrary(g)
    PROVE  BInv'
<1> USE BindingAssumption DEF BInv, libraryVars, clientVars, history
<1>1. /\ build = "windows" /\ pc[g] = "load" /\ op[g] = "new" /\ on[g] \in Clients
      /\ library' \in {-1} \cup 1..Candidates
      /\ library # 0 => library' = library
      /\ UNCHANGED <<build, locked, files, changes, clientVars, thread, uses, slot, history>>
    <2>1. library' \in {-1} \cup 1..Candidates
        BY DEF LoadLibrary, Loaded, FirstPresent, TypeOK
    <2> QED BY <2>1 DEF LoadLibrary, Loaded, Labelled
<1>2. CASE library' = -1
    <2>1. Finish(g, Plain("no library"))
        BY <1>1, <1>2 DEF LoadLibrary, SearchFailed
    <2>2. Plain("no library") \in Results /\ Plain("no library").what # "native"
        BY PlainResults DEF Plain
    <2>3. library' = library \/ (build = "windows" /\ library = 0 /\ library' = -1)
        BY <1>1, <1>2
    <2> HIDE DEF BInv
    <2> QED BY <1>1, <2>1, <2>2, <2>3, EndKeeps
<1>3. CASE ~(library' = -1)
    <2> HIDE DEF BInv
    <2>1. pc' = [pc EXCEPT ![g] = "enter"] /\ UNCHANGED <<op, on, result>>
        BY <1>1, <1>3 DEF LoadLibrary, SearchFailed
    <2> USE <1>1, <1>3, <2>1 DEF BInv
    <2>2. TypeOK'
        BY DEF TypeOK
    <2>3. Labelled'
        BY DEF Labelled, TypeOK
    <2>4. Made'
        BY DEF Made, TypeOK, Labelled
    <2>5. Found'
        BY DEF Found, TypeOK, Labelled, Made
    <2>6. Alone'
        BY DEF Alone, TypeOK, Labelled
    <2>7. Sound'
        BY DEF Sound, TypeOK, Labelled, Alone, MisuseNeedsRace, Made
    <2>8. MisuseNeedsRace'
        BY DEF MisuseNeedsRace, TypeOK, Labelled, Alone, Sound, Made
    <2>9. Apart'
        BY DEF Apart, TypeOK, Labelled
    <2>10. Kept'
        BY DEF Kept, TypeOK, Apart, Messages, Labelled
    <2>11. OwnMessage'
        BY DEF OwnMessage, TypeOK, Kept, Apart, MessageThread, Available, Labelled, Messages, Empty
    <2>12. Unused'
        BY DEF Unused, TypeOK, Labelled, Made
    <2> QED BY <2>2, <2>3, <2>4, <2>5, <2>6, <2>7, <2>8, <2>9, <2>10, <2>11, <2>12
<1> QED BY <1>2, <1>3

\* A call on a client that is being closed races.
LEMMA CallKeeps ==
    ASSUME BInv, NEW g \in Goroutines, NEW c \in Clients, Call(g, c)
    PROVE  BInv'
<1> USE BindingAssumption DEF BInv, Call, Begin, Plain, libraryVars, clientVars, history
<1>1. TypeOK'
    <2>1. result' \in [Goroutines -> Results]
        BY ResultsTyped, PlainResults
    <2> QED BY <2>1 DEF TypeOK, Operations
<1>2. Labelled'
    BY DEF Labelled, TypeOK
<1>3. Made'
    BY DEF Made, TypeOK, Labelled
<1>4. Found'
    BY DEF Found, TypeOK, Labelled, Made
<1>5. Alone'
    BY DEF Alone, TypeOK, Labelled, Busy, Closing
<1>6. Sound'
    BY DEF Sound, TypeOK, Labelled, Alone, MisuseNeedsRace, Made, Busy, Closing
<1>7. MisuseNeedsRace'
    BY DEF MisuseNeedsRace, TypeOK, Labelled, Alone, Sound, Made
<1>8. Apart'
    BY DEF Apart, TypeOK, Labelled
<1>9. Kept'
    BY DEF Kept, TypeOK, Apart, Messages, Labelled
<1>10. OwnMessage'
    BY DEF OwnMessage, TypeOK, Kept, Apart, MessageThread, Available, Labelled, Messages, Empty
<1>11. Unused'
    BY DEF Unused, TypeOK, Labelled, Made
<1> QED BY <1>1, <1>2, <1>3, <1>4, <1>5, <1>6, <1>7, <1>8, <1>9, <1>10, <1>11

\* The handle is there, or the operation ends.
LEMMA CheckKeeps ==
    ASSUME BInv, NEW g \in Goroutines, Check(g)
    PROVE  BInv'
<1> USE BindingAssumption DEF BInv, libraryVars, clientVars, history
<1>1. /\ pc[g] = "check" /\ op[g] = "call" /\ on[g] \in Clients
      /\ UNCHANGED <<libraryVars, clientVars, thread, uses, slot, history>>
    BY DEF Check, Labelled
<1>2. CASE handle[on[g]] # "set"
    <2>1. Finish(g, Plain("not initialized"))
        BY <1>1, <1>2 DEF Check, Checked
    <2>2. Plain("not initialized") \in Results /\ Plain("not initialized").what # "native"
        BY PlainResults DEF Plain
    <2> QED BY <1>1, <2>1, <2>2, EndKeeps
<1>3. CASE ~(handle[on[g]] # "set")
    <2> HIDE DEF BInv
    <2>1. pc' = [pc EXCEPT ![g] = "enter"] /\ UNCHANGED <<op, on, result>>
        BY <1>1, <1>3 DEF Check, Checked
    <2> USE <1>1, <1>3, <2>1 DEF BInv
    <2>2. TypeOK'
        BY DEF TypeOK
    <2>3. Labelled'
        BY DEF Labelled, TypeOK
    <2>4. Made'
        BY DEF Made, TypeOK, Labelled
    <2>5. Found'
        BY DEF Found, TypeOK, Labelled, Made
    <2>6. Alone'
        BY DEF Alone, TypeOK, Labelled
    <2>7. Sound'
        BY DEF Sound, TypeOK, Labelled, Alone, MisuseNeedsRace, Made
    <2>8. MisuseNeedsRace'
        BY DEF MisuseNeedsRace, TypeOK, Labelled, Alone, Sound, Made
    <2>9. Apart'
        BY DEF Apart, TypeOK, Labelled
    <2>10. Kept'
        BY DEF Kept, TypeOK, Apart, Messages, Labelled
    <2>11. OwnMessage'
        BY DEF OwnMessage, TypeOK, Kept, Apart, MessageThread, Available, Labelled, Messages, Empty
    <2>12. Unused'
        BY DEF Unused, TypeOK, Labelled, Made
    <2> QED BY <2>2, <2>3, <2>4, <2>5, <2>6, <2>7, <2>8, <2>9, <2>10, <2>11, <2>12
<1> QED BY <1>2, <1>3

\* The thread is nobody else's home.  A client that is not raced has its handle still.
LEMMA EnterKeeps ==
    ASSUME BInv, NEW g \in Goroutines, Enter(g)
    PROVE  BInv'
<1> USE BindingAssumption DEF BInv, Enter, Available, Inside, libraryVars, clientVars, history
<1>1. TypeOK'
    BY DEF TypeOK, Labelled
<1>2. Labelled'
    BY DEF Labelled, TypeOK
<1>3. Made'
    BY DEF Made, TypeOK, Labelled
<1>4. Found'
    BY DEF Found, TypeOK, Labelled, Made
<1>5. Alone'
    BY DEF Alone, TypeOK, Labelled
<1>6. Sound'
    BY DEF Sound, TypeOK, Labelled, Alone, MisuseNeedsRace, Made
<1>7. MisuseNeedsRace'
    <2>1. ASSUME op[g] = "call", on[g] \notin raced
          PROVE  handle[on[g]] = "set" /\ native[on[g]] = "live"
        <3>1. handle[on[g]] = "set" /\ on[g] \in Clients
            BY <2>1 DEF Sound, Labelled
        <3>2. ~ \E h \in Goroutines : pc[h] = "forget" /\ on[h] = on[g]
            BY <2>1 DEF Alone, Labelled
        <3> QED BY <2>1, <3>1, <3>2 DEF Sound
    <2> QED BY <2>1 DEF MisuseNeedsRace
<1>8. Apart'
    BY DEF Apart, TypeOK, Labelled
<1>9. Kept'
    BY DEF Kept, TypeOK, Apart, Messages, Labelled
<1>10. OwnMessage'
    BY DEF OwnMessage, TypeOK, Kept, Apart, MessageThread, Available, Labelled, Messages, Empty
<1>11. Unused'
    BY DEF Unused, TypeOK, Labelled, Made
<1> QED BY <1>1, <1>2, <1>3, <1>4, <1>5, <1>6, <1>7, <1>8, <1>9, <1>10, <1>11

\* A client that is made has a live handle and the library that was found.
LEMMA SucceedKeeps ==
    ASSUME BInv, NEW g \in Goroutines, Succeed(g)
    PROVE  BInv'
<1> USE BindingAssumption DEF BInv, Succeed, Finish, Plain, libraryVars, clientVars, history
<1>1. TypeOK'
    <2>1. result' \in [Goroutines -> Results]
        BY ResultsTyped, PlainResults
    <2>2. op[g] = "new" => library \in 0..Candidates
        BY DEF Found, TypeOK, Builds
    <2> QED BY <2>1, <2>2 DEF TypeOK, Operations
<1>2. Labelled'
    BY DEF Labelled, TypeOK
<1>3. Made'
    BY DEF Made, TypeOK, Labelled
<1>4. Found'
    BY DEF Found, TypeOK, Labelled, Made
<1>5. Alone'
    BY DEF Alone, TypeOK, Labelled
<1>6. Sound'
    <2>1. CASE op[g] = "new"
        <3>1. \A h \in Goroutines : on[h] = on[g] /\ h # g => pc[h] = "idle"
            BY <2>1 DEF Made, Labelled, TypeOK, Operations
        <3>2. on[g] \in Clients /\ handle'[on[g]] = "set" /\ native'[on[g]] = "live"
            BY <2>1 DEF Labelled, TypeOK
        <3>3. \A c \in Clients \ {on[g]} : handle'[c] = handle[c] /\ native'[c] = native[c]
            BY <2>1 DEF TypeOK
        <3>4. \A h \in Goroutines \ {g} : pc'[h] = pc[h] /\ on'[h] = on[h] /\ op'[h] = op[h]
            BY DEF TypeOK
        <3> HIDE DEF Succeed, Finish
        <3>5. pc[g] = "inside" /\ pc'[g] = "idle" /\ raced' = raced
            BY DEF Succeed, Finish, TypeOK
        <3>6. ASSUME NEW c \in Clients \ raced', handle'[c] = "set"
              PROVE  native'[c] = "live" \/ \E h \in Goroutines : pc'[h] = "forget" /\ on'[h] = c
            BY <3>2, <3>3, <3>4, <3>5, <3>6 DEF Sound
        <3>7. ASSUME NEW h \in Goroutines, on'[h] \notin raced'
              PROVE  /\ pc'[h] = "enter" /\ op'[h] = "call" => handle'[on'[h]] = "set"
                     /\ pc'[h] = "free" => handle'[on'[h]] = "set"
            BY <3>1, <3>3, <3>4, <3>5, <3>7 DEF Sound, Labelled
        <3> QED BY <3>6, <3>7 DEF Sound
    <2>2. CASE op[g] # "new"
        BY <2>2 DEF Sound, Labelled, TypeOK
    <2> QED BY <2>1, <2>2
<1>7. MisuseNeedsRace'
    BY DEF MisuseNeedsRace, TypeOK, Labelled, Alone, Sound, Made
<1>8. Apart'
    BY DEF Apart, TypeOK, Labelled
<1>9. Kept'
    BY DEF Kept, TypeOK, Apart, Messages, Labelled
<1>10. OwnMessage'
    BY DEF OwnMessage, TypeOK, Kept, Apart, MessageThread, Available, Labelled, Messages, Empty
<1>11. Unused'
    BY DEF Unused, TypeOK, Labelled, Made
<1> QED BY <1>1, <1>2, <1>3, <1>4, <1>5, <1>6, <1>7, <1>8, <1>9, <1>10, <1>11

\* The message is left on the goroutine's own thread.
LEMMA FailKeeps ==
    ASSUME BInv, NEW g \in Goroutines, NEW k \in Kinds, Fail(g, k)
    PROVE  BInv'
<1> USE BindingAssumption DEF BInv, Fail, libraryVars, clientVars, history
<1>1. TypeOK'
    <2>1. [by |-> g, use |-> uses[g], kind |-> k] \in Messages
        BY DEF TypeOK, Messages
    <2> QED BY <2>1 DEF TypeOK
<1>2. Labelled'
    BY DEF Labelled, TypeOK
<1>3. Made'
    BY DEF Made, TypeOK, Labelled
<1>4. Found'
    BY DEF Found, TypeOK, Labelled, Made
<1>5. Alone'
    BY DEF Alone, TypeOK, Labelled
<1>6. Sound'
    BY DEF Sound, TypeOK, Labelled, Alone, MisuseNeedsRace, Made
<1>7. MisuseNeedsRace'
    BY DEF MisuseNeedsRace, TypeOK, Labelled, Alone, Sound, Made
<1>8. Apart'
    BY DEF Apart, TypeOK, Labelled
<1>9. Kept'
    BY DEF Kept, TypeOK, Apart, Messages, Labelled
<1>10. OwnMessage'
    BY DEF OwnMessage, TypeOK, Kept, Apart, MessageThread, Available, Labelled, Messages, Empty
<1>11. Unused'
    BY DEF Unused, TypeOK, Labelled, Made
<1> QED BY <1>1, <1>2, <1>3, <1>4, <1>5, <1>6, <1>7, <1>8, <1>9, <1>10, <1>11

\* Reading a message empties no slot that a locked goroutine will read.
LEMMA MessageKeeps ==
    ASSUME BInv, NEW g \in Goroutines, Message(g)
    PROVE  BInv'
<1> USE BindingAssumption DEF BInv, Message, Finish, Plain, Native, libraryVars, clientVars, history
<1>1. TypeOK'
    <2>1. PICK t \in Threads :
              /\ Finish(g, IF slot[t] = Empty THEN Plain("unknown") ELSE Native(slot[t]))
              /\ slot' \in {slot, [slot EXCEPT ![t] = Empty]}
        BY DEF TypeOK, MessageThread, Available
    <2>2. slot' \in [Threads -> Messages \cup {Empty}]
        BY <2>1 DEF TypeOK
    <2>3. (IF slot[t] = Empty THEN Plain("unknown") ELSE Native(slot[t])) \in Results
        BY PlainResults, NativeResults DEF TypeOK
    <2>4. result' \in [Goroutines -> Results]
        BY <2>1, <2>3, ResultsTyped DEF Finish
    <2> QED BY <2>1, <2>2, <2>4 DEF TypeOK, Finish, Operations
<1>2. Labelled'
    BY DEF Labelled, TypeOK
<1>3. Made'
    BY DEF Made, TypeOK, Labelled
<1>4. Found'
    BY DEF Found, TypeOK, Labelled, Made
<1>5. Alone'
    BY DEF Alone, TypeOK, Labelled
<1>6. Sound'
    BY DEF Sound, TypeOK, Labelled, Alone, MisuseNeedsRace, Made
<1>7. MisuseNeedsRace'
    BY DEF MisuseNeedsRace, TypeOK, Labelled, Alone, Sound, Made
<1>8. Apart'
    BY DEF Apart, TypeOK, Labelled
<1>9. Kept'
    <2>1. PICK t \in MessageThread(g) : slot' \in {slot, [slot EXCEPT ![t] = Empty]}
        OBVIOUS
    <2>2. ASSUME NEW h \in locked, pc'[h] = "message"
          PROVE  h # g /\ h \in Goroutines /\ t # Home[h]
        BY <2>1, <2>2 DEF MessageThread, Available, TypeOK
    <2>3. ASSUME NEW h \in locked, pc'[h] = "message" PROVE slot'[Home[h]] = slot[Home[h]]
        <3>1. t # Home[h] /\ Home[h] \in Threads
            BY <2>2, <2>3 DEF TypeOK
        <3>2. slot' = slot \/ slot' = [slot EXCEPT ![t] = Empty]
            BY <2>1
        <3> QED BY <3>1, <3>2 DEF TypeOK
    <2> QED BY <2>2, <2>3 DEF Kept, TypeOK
<1>10. OwnMessage'
    BY DEF OwnMessage, TypeOK, Kept, Apart, MessageThread, Available, Labelled, Messages, Empty
<1>11. Unused'
    BY DEF Unused, TypeOK, Labelled, Made
<1> QED BY <1>1, <1>2, <1>3, <1>4, <1>5, <1>6, <1>7, <1>8, <1>9, <1>10, <1>11

\* A client on which somebody else is at work becomes raced.
LEMMA CloseKeeps ==
    ASSUME BInv, NEW g \in Goroutines, NEW c \in Clients, Close(g, c)
    PROVE  BInv'
<1> USE BindingAssumption DEF BInv, Close, Begin, Plain, libraryVars, clientVars, history
<1>1. TypeOK'
    <2>1. result' \in [Goroutines -> Results]
        BY ResultsTyped, PlainResults
    <2> QED BY <2>1 DEF TypeOK, Operations
<1>2. Labelled'
    BY DEF Labelled, TypeOK
<1>3. Made'
    BY DEF Made, TypeOK, Labelled
<1>4. Found'
    BY DEF Found, TypeOK, Labelled, Made
<1>5. Alone'
    BY DEF Alone, TypeOK, Labelled, Busy, Closing
<1>6. Sound'
    BY DEF Sound, TypeOK, Labelled, Alone, MisuseNeedsRace, Made, Busy, Closing
<1>7. MisuseNeedsRace'
    BY DEF MisuseNeedsRace, TypeOK, Labelled, Alone, Sound, Made
<1>8. Apart'
    BY DEF Apart, TypeOK, Labelled
<1>9. Kept'
    BY DEF Kept, TypeOK, Apart, Messages, Labelled
<1>10. OwnMessage'
    BY DEF OwnMessage, TypeOK, Kept, Apart, MessageThread, Available, Labelled, Messages, Empty
<1>11. Unused'
    BY DEF Unused, TypeOK, Labelled, Made
<1> QED BY <1>1, <1>2, <1>3, <1>4, <1>5, <1>6, <1>7, <1>8, <1>9, <1>10, <1>11

\* The handle is there, or the operation ends.
LEMMA CloseCheckKeeps ==
    ASSUME BInv, NEW g \in Goroutines, CloseCheck(g)
    PROVE  BInv'
<1> USE BindingAssumption DEF BInv, libraryVars, clientVars, history
<1>1. /\ pc[g] = "closing" /\ op[g] = "close" /\ on[g] \in Clients
      /\ UNCHANGED <<libraryVars, clientVars, thread, uses, slot, history>>
    BY DEF CloseCheck, Labelled
<1>2. CASE handle[on[g]] # "set"
    <2>1. Finish(g, Plain("ok"))
        BY <1>1, <1>2 DEF CloseCheck, Checked
    <2>2. Plain("ok") \in Results /\ Plain("ok").what # "native"
        BY PlainResults DEF Plain
    <2> QED BY <1>1, <2>1, <2>2, EndKeeps
<1>3. CASE ~(handle[on[g]] # "set")
    <2> HIDE DEF BInv
    <2>1. pc' = [pc EXCEPT ![g] = "free"] /\ UNCHANGED <<op, on, result>>
        BY <1>1, <1>3 DEF CloseCheck, Checked
    <2> USE <1>1, <1>3, <2>1 DEF BInv
    <2>2. TypeOK'
        BY DEF TypeOK
    <2>3. Labelled'
        BY DEF Labelled, TypeOK
    <2>4. Made'
        BY DEF Made, TypeOK, Labelled
    <2>5. Found'
        BY DEF Found, TypeOK, Labelled, Made
    <2>6. Alone'
        BY DEF Alone, TypeOK, Labelled
    <2>7. Sound'
        BY DEF Sound, TypeOK, Labelled, Alone, MisuseNeedsRace, Made
    <2>8. MisuseNeedsRace'
        BY DEF MisuseNeedsRace, TypeOK, Labelled, Alone, Sound, Made
    <2>9. Apart'
        BY DEF Apart, TypeOK, Labelled
    <2>10. Kept'
        BY DEF Kept, TypeOK, Apart, Messages, Labelled
    <2>11. OwnMessage'
        BY DEF OwnMessage, TypeOK, Kept, Apart, MessageThread, Available, Labelled, Messages, Empty
    <2>12. Unused'
        BY DEF Unused, TypeOK, Labelled, Made
    <2> QED BY <2>2, <2>3, <2>4, <2>5, <2>6, <2>7, <2>8, <2>9, <2>10, <2>11, <2>12
<1> QED BY <1>2, <1>3

\* Whoever frees a client that is not raced is alone with it.
LEMMA FreeKeeps ==
    ASSUME BInv, NEW g \in Goroutines, Free(g)
    PROVE  BInv'
<1> USE BindingAssumption DEF BInv, Free, Inside, libraryVars, clientVars, history
<1>1. TypeOK'
    BY DEF TypeOK, Labelled
<1>2. Labelled'
    BY DEF Labelled, TypeOK
<1>3. Made'
    BY DEF Made, TypeOK, Labelled
<1>4. Found'
    BY DEF Found, TypeOK, Labelled, Made
<1>5. Alone'
    BY DEF Alone, TypeOK, Labelled
<1>6. Sound'
    BY DEF Sound, TypeOK, Labelled, Alone, MisuseNeedsRace, Made
<1>7. MisuseNeedsRace'
    <2>1. ASSUME on[g] \notin raced
          PROVE  /\ handle[on[g]] = "set" /\ native[on[g]] = "live"
                 /\ ~ \E h \in Goroutines : pc[h] = "inside" /\ on[h] = on[g] /\ op[h] = "call"
        <3>1. handle[on[g]] = "set" /\ on[g] \in Clients /\ op[g] = "close"
            BY <2>1 DEF Sound, Labelled
        <3>2. ~ \E h \in Goroutines : h # g /\ pc[h] # "idle" /\ on[h] = on[g]
            BY <2>1, <3>1 DEF Alone
        <3>3. native[on[g]] = "live"
            BY <2>1, <3>1, <3>2 DEF Sound
        <3> QED BY <3>1, <3>2, <3>3
    <2> QED BY <2>1 DEF MisuseNeedsRace, Inside
<1>8. Apart'
    BY DEF Apart, TypeOK, Labelled
<1>9. Kept'
    BY DEF Kept, TypeOK, Apart, Messages, Labelled
<1>10. OwnMessage'
    BY DEF OwnMessage, TypeOK, Kept, Apart, MessageThread, Available, Labelled, Messages, Empty
<1>11. Unused'
    BY DEF Unused, TypeOK, Labelled, Made
<1> QED BY <1>1, <1>2, <1>3, <1>4, <1>5, <1>6, <1>7, <1>8, <1>9, <1>10, <1>11

\* The handle is forgotten after its memory.
LEMMA ForgetKeeps ==
    ASSUME BInv, NEW g \in Goroutines, Forget(g)
    PROVE  BInv'
<1> USE BindingAssumption DEF BInv, Forget, Finish, Plain, HandleForgotten, libraryVars, clientVars, history
<1>1. TypeOK'
    <2>1. result' \in [Goroutines -> Results]
        BY ResultsTyped, PlainResults
    <2> QED BY <2>1 DEF TypeOK, Operations
<1>2. Labelled'
    BY DEF Labelled, TypeOK
<1>3. Made'
    BY DEF Made, TypeOK, Labelled
<1>4. Found'
    BY DEF Found, TypeOK, Labelled, Made
<1>5. Alone'
    BY DEF Alone, TypeOK, Labelled
<1>6. Sound'
    BY DEF Sound, TypeOK, Labelled, Alone, MisuseNeedsRace, Made
<1>7. MisuseNeedsRace'
    BY DEF MisuseNeedsRace, TypeOK, Labelled, Alone, Sound, Made
<1>8. Apart'
    BY DEF Apart, TypeOK, Labelled
<1>9. Kept'
    BY DEF Kept, TypeOK, Apart, Messages, Labelled
<1>10. OwnMessage'
    BY DEF OwnMessage, TypeOK, Kept, Apart, MessageThread, Available, Labelled, Messages, Empty
<1>11. Unused'
    BY DEF Unused, TypeOK, Labelled, Made
<1> QED BY <1>1, <1>2, <1>3, <1>4, <1>5, <1>6, <1>7, <1>8, <1>9, <1>10, <1>11

\* The search reads the files once.
LEMMA ChangeFileKeeps ==
    ASSUME BInv, ChangeFile PROVE BInv'
<1> USE BindingAssumption DEF BInv, ChangeFile, clientVars, goroutineVars, history
<1>1. TypeOK'
    BY DEF TypeOK
<1>2. Labelled' /\ Made' /\ Found' /\ Alone' /\ Sound'
    BY DEF Labelled, Made, Found, Alone, Sound
<1>3. MisuseNeedsRace' /\ Apart' /\ Kept' /\ OwnMessage' /\ Unused'
    BY DEF MisuseNeedsRace, Apart, Kept, OwnMessage, Unused
<1> QED BY <1>1, <1>2, <1>3

LEMMA InitBInv == Init => BInv
<1> SUFFICES ASSUME Init PROVE BInv
    OBVIOUS
<1> USE BindingAssumption DEF Init
<1>1. TypeOK
    <2>1. files \in [1..Candidates -> Contents]
        BY DEF Contents
    <2>2. 0 \in 0..Candidates
        OBVIOUS
    <2>3. result \in [Goroutines -> Results]
        <3>1. Plain("ok") \in Results
            BY PlainResults
        <3> QED BY <3>1
    <2>4. /\ build \in Builds /\ locked \in SUBSET Goroutines
          /\ library \in {-1, 0} /\ changes \in Nat
          /\ from \in [Clients -> 0..Candidates]
          /\ misused \in SUBSET Clients /\ raced \in SUBSET Clients
        BY <2>2
    <2> QED BY <2>1, <2>3, <2>4 DEF TypeOK, Operations
<1>2. Labelled /\ Made /\ Found /\ Alone /\ Sound
    BY DEF Labelled, Made, Found, Alone, Sound
<1>3. MisuseNeedsRace /\ Apart /\ Kept /\ OwnMessage /\ Unused
    BY DEF MisuseNeedsRace, Apart, Kept, OwnMessage, Unused, Plain
<1> QED BY <1>1, <1>2, <1>3 DEF BInv

LEMMA NextBInv == BInv /\ [Next]_vars => BInv'
<1> SUFFICES ASSUME BInv, [Next]_vars PROVE BInv'
    OBVIOUS
<1>1. ASSUME NEW g \in Goroutines, NEW c \in Clients, Use(g, c) PROVE BInv'
    BY <1>1, NewClientRefusedKeeps, NewClientKeeps, CallKeeps, CloseKeeps DEF Use
<1>2. ASSUME NEW g \in Goroutines, Continue(g) PROVE BInv'
    BY <1>2, LoadLibraryKeeps, CheckKeeps, EnterKeeps, SucceedKeeps, FailKeeps,
       MessageKeeps, CloseCheckKeeps, FreeKeeps, ForgetKeeps DEF Continue
<1>3. CASE UNCHANGED vars
    <2> USE <1>3 DEF BInv, vars, libraryVars, clientVars, goroutineVars, history
    <2>1. TypeOK' /\ Labelled' /\ Made' /\ Found' /\ Alone' /\ Sound'
        BY DEF TypeOK, Labelled, Made, Found, Alone, Sound
    <2>2. MisuseNeedsRace' /\ Apart' /\ Kept' /\ OwnMessage' /\ Unused'
        BY DEF MisuseNeedsRace, Apart, Kept, OwnMessage, Unused
    <2> QED BY <2>1, <2>2
<1> QED BY <1>1, <1>2, <1>3, ChangeFileKeeps DEF Next

LEMMA Inductive == Spec => []BInv
BY InitBInv, NextBInv, PTL DEF Spec

-----------------------------------------------------------------------------
(* What follows *)

\* Clients, goroutines, threads and the library's slots keep their shape.
THEOREM BindingTypeCorrect == Spec => []TypeOK
<1>1. BInv => TypeOK
    BY DEF BInv
<1> QED BY <1>1, Inductive, PTL

\* However many goroutines share a client, its handle is misused only if somebody closed
\* the client while another was using it.
THEOREM HandlesAreSafeWithoutRaces == Spec => []MisuseNeedsRace
<1>1. BInv => MisuseNeedsRace
    BY DEF BInv
<1> QED BY <1>1, Inductive, PTL

\* A goroutine that is locked to its thread reads the message of its own failed call.
THEOREM LockedGoroutinesReadTheirMessage == Spec => []OwnMessage
<1>1. BInv => OwnMessage
    BY DEF BInv
<1> QED BY <1>1, Inductive, PTL

\* Every client of a process on Windows is of the library that was found first.
THEOREM ClientsShareOneLibrary == Spec => []OneLibrary
<1>1. BInv => OneLibrary
    BY DEF BInv, Found, OneLibrary
<1> QED BY <1>1, Inductive, PTL
=============================================================================
