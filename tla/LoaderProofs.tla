---------------------------- MODULE LoaderProofs ----------------------------
(***************************************************************************)
(* Proofs about Loader, for any number of copies, callers and naps.        *)
(***************************************************************************)
EXTENDS Loader, TLAPS

(* A program is started only on the way from instantiate() to waitForCall, *)
(* and the script is asked for exactly while load() waits for it: a late   *)
(* onload finds nothing to resume.                                         *)
BeforeRun == {"idle", "runtime", "fetching", "streaming", "buffering"}

StartedOnce ==
  \A c \in Copies :
    /\ instances[c] \in {0, 1}
    /\ step[c] \in BeforeRun => instances[c] = 0
    /\ script[c] = "requested" => step[c] = "runtime"

CallIsRegistered == meshpktCall # Nil => registered[meshpktCall]

LoaderInv == TypeOK /\ ApiIsLive /\ StartedOnce /\ CallIsRegistered

-----------------------------------------------------------------------------
LEMMA LoaderInit == Init => LoaderInv
  <1> SUFFICES ASSUME Init PROVE LoaderInv
    OBVIOUS
  <1>1. /\ step = [c \in Copies |-> "idle"]
        /\ api = [c \in Copies |-> Nil]
        /\ failure = [c \in Copies |-> Nil]
    BY DEF Init
  <1>2. TypeOK
    <2>1. /\ 0 \in 0 .. MaxCalls
          /\ 0 \in 0 .. Deadline
          /\ 0 \in Nat
      BY LoaderAssumption
    <2>2. /\ calls \in [Copies -> 0 .. MaxCalls]
          /\ instances \in [Copies -> Nat]
          /\ waited \in [Copies -> 0 .. Deadline]
      BY <2>1 DEF Init
    <2>3. /\ step \in [Copies -> Steps]
          /\ script \in [Copies -> {"none", "requested", "done"}]
          /\ api \in [Copies -> Copies \union {Nil}]
          /\ failure \in [Copies -> Errors \union {Nil}]
      BY DEF Init, Steps
    <2>4. /\ Go \in BOOLEAN
          /\ meshpktCall \in Copies \union {Nil}
          /\ registered \in [Copies -> BOOLEAN]
          /\ rested \in [Copies -> BOOLEAN]
      BY DEF Init
    <2>5. QED
      BY <2>2, <2>3, <2>4 DEF TypeOK
  <1>3. ApiIsLive
    <2>1. ASSUME NEW c \in Copies
          PROVE  step[c] = "idle" /\ api[c] = Nil /\ failure[c] = Nil
      BY <1>1
    <2>2. QED
      BY <2>1 DEF ApiIsLive
  <1>4. StartedOnce
    BY DEF Init, StartedOnce
  <1>5. CallIsRegistered
    BY DEF Init, CallIsRegistered
  <1>6. QED
    BY <1>2, <1>3, <1>4, <1>5 DEF LoaderInv

(* The ways a step changes how far one copy is: go on, settle with an API  *)
(* or settle with an error.                                                *)
Settles(c, s, call, error) ==
  /\ step' = [step EXCEPT ![c] = s]
  /\ api' = [api EXCEPT ![c] = call]
  /\ failure' = [failure EXCEPT ![c] = error]

Outcome(s, call, error) ==
  \/ s \in Steps \ {"idle", "ready", "failed"} /\ call = Nil /\ error = Nil
  \/ s = "ready" /\ call \in Copies /\ error = Nil
  \/ s = "failed" /\ call = Nil /\ error \in Errors

(* From a copy that has not settled, each of the three is an outcome.      *)
LEMMA UnsettledHasNothing ==
  ASSUME LoaderInv, NEW c \in Copies, step[c] \notin {"ready", "failed"}
  PROVE  api[c] = Nil /\ failure[c] = Nil
  BY DEF LoaderInv, ApiIsLive

LEMMA GoesOnSettles ==
  ASSUME LoaderInv, NEW c \in Copies, step[c] \notin {"ready", "failed"},
         NEW s \in Steps \ {"idle", "ready", "failed"}, GoesOn(c, s)
  PROVE  Settles(c, s, Nil, Nil) /\ Outcome(s, Nil, Nil)
  <1>1. api[c] = Nil /\ failure[c] = Nil
    BY UnsettledHasNothing
  <1>2. api = [api EXCEPT ![c] = Nil] /\ failure = [failure EXCEPT ![c] = Nil]
    BY <1>1 DEF LoaderInv, TypeOK
  <1>3. QED
    BY <1>2 DEF GoesOn, goto, Settles, Outcome

LEMMA RejectSettles ==
  ASSUME LoaderInv, NEW c \in Copies, step[c] \notin {"ready", "failed"},
         NEW error \in Errors, Reject(c, error)
  PROVE  Settles(c, "failed", Nil, error) /\ Outcome("failed", Nil, error)
  <1>1. api[c] = Nil
    BY UnsettledHasNothing
  <1>2. api = [api EXCEPT ![c] = Nil]
    BY <1>1 DEF LoaderInv, TypeOK
  <1>3. QED
    BY <1>2 DEF Reject, goto, Settles, Outcome

LEMMA ResolveSettles ==
  ASSUME LoaderInv, NEW c \in Copies, step[c] \notin {"ready", "failed"},
         NEW call \in Copies, Resolve(c, call)
  PROVE  Settles(c, "ready", call, Nil) /\ Outcome("ready", call, Nil)
  <1>1. failure[c] = Nil
    BY UnsettledHasNothing
  <1>2. failure = [failure EXCEPT ![c] = Nil]
    BY <1>1 DEF LoaderInv, TypeOK
  <1>3. QED
    BY <1>2 DEF Resolve, goto, Settles, Outcome

(* What the branches of one round of waitForCall come to. *)
LEMMA PollSettles ==
  ASSUME LoaderInv, NEW c \in Copies, step[c] \notin {"ready", "failed"},
         NEW call \in Copies \union {Nil}, Poll(c, call)
  PROVE  \E s \in {"polling", "ready", "failed"}, api1 \in {call, Nil}, error \in Errors \union {Nil} :
           Settles(c, s, api1, error) /\ Outcome(s, api1, error)
  <1>1. CASE waited[c] >= Deadline
    <2>1. Reject(c, "CallNotRegistered")
      BY <1>1 DEF Poll
    <2>2. "CallNotRegistered" \in Errors
      BY DEF Errors
    <2>3. QED
      BY <2>1, <2>2, RejectSettles
  <1>2. CASE ~(waited[c] >= Deadline) /\ call # Nil
    <2>1. Resolve(c, call) /\ call \in Copies
      BY <1>2 DEF Poll
    <2>2. QED
      BY <2>1, ResolveSettles
  <1>3. CASE ~(waited[c] >= Deadline) /\ call = Nil
    <2>1. GoesOn(c, "polling")
      BY <1>3 DEF Poll
    <2>2. "polling" \in Steps \ {"idle", "ready", "failed"}
      BY DEF Steps
    <2>3. QED
      BY <2>1, <2>2, GoesOnSettles
  <1>4. QED
    BY <1>1, <1>2, <1>3

LEMMA InstantiateSettles ==
  ASSUME LoaderInv, NEW c \in Copies, step[c] \notin {"ready", "failed"}, Instantiate(c)
  PROVE  \E s \in {"fetching", "buffering"} : Settles(c, s, Nil, Nil) /\ Outcome(s, Nil, Nil)
  <1>1. PICK s \in {"fetching", "buffering"} : GoesOn(c, s)
    BY DEF Instantiate
  <1>2. s \in Steps \ {"idle", "ready", "failed"}
    BY DEF Steps
  <1>3. QED
    BY <1>1, <1>2, GoesOnSettles

-----------------------------------------------------------------------------
(* A copy that settles, or goes on, keeps the invariant when its program   *)
(* is started in time and the call it gets is registered.                  *)
LEMMA SettlingKeepsApi ==
  ASSUME LoaderInv, NEW c \in Copies, NEW s, NEW call, NEW error,
         Settles(c, s, call, error), Outcome(s, call, error),
         registered' \in [Copies -> BOOLEAN],
         \A d \in Copies : registered[d] => registered'[d],
         call # Nil => registered'[call]
  PROVE  /\ ApiIsLive'
         /\ step' \in [Copies -> Steps]
         /\ api' \in [Copies -> Copies \union {Nil}]
         /\ failure' \in [Copies -> Errors \union {Nil}]
  <1>1. /\ s \in Steps
        /\ call \in Copies \union {Nil}
        /\ error \in Errors \union {Nil}
    BY DEF Outcome, Steps
  <1>2. /\ step' \in [Copies -> Steps]
        /\ api' \in [Copies -> Copies \union {Nil}]
        /\ failure' \in [Copies -> Errors \union {Nil}]
    BY <1>1 DEF Settles, LoaderInv, TypeOK
  <1>3. Nil \notin Errors
    BY DEF Errors, Nil
  <1>4. Nil \notin Copies
    BY LoaderAssumption
  <1>5. QED
    BY <1>2, <1>3, <1>4 DEF Settles, Outcome, LoaderInv, TypeOK, ApiIsLive, Steps

-----------------------------------------------------------------------------
(* Each action keeps the invariant.                                        *)
LEMMA LoadKeepsInv ==
  ASSUME LoaderInv, NEW c \in Copies, Load(c)
  PROVE  LoaderInv'
  <1>1. CASE Cached(c)
    <2>1. UNCHANGED <<Go, meshpktCall, step, script, instances, registered, waited, rested,
                      api, failure>>
      BY <1>1 DEF Load
    <2>2. calls' \in [Copies -> 0 .. MaxCalls]
      BY LoaderAssumption DEF Load, LoaderInv, TypeOK
    <2>3. QED
      BY <2>1, <2>2 DEF LoaderInv, TypeOK, ApiIsLive, StartedOnce, CallIsRegistered
  <1>2. CASE ~Cached(c)
    <2>1. step[c] = "idle" /\ step[c] \notin {"ready", "failed"}
      BY <1>2 DEF Cached
    <2>2. calls' \in [Copies -> 0 .. MaxCalls]
      BY LoaderAssumption DEF Load, LoaderInv, TypeOK
    <2>3. \E s \in {"runtime", "fetching", "buffering"} :
            /\ Settles(c, s, Nil, Nil) /\ Outcome(s, Nil, Nil)
            /\ \/ script' = script
               \/ s = "runtime" /\ script' = [script EXCEPT ![c] = "requested"]
      <3>1. CASE Go
        <4>1. Instantiate(c) /\ script' = script
          BY <1>2, <3>1 DEF Load
        <4>2. QED
          BY <4>1, <2>1, InstantiateSettles
      <3>2. CASE ~Go
        <4>1. GoesOn(c, "runtime") /\ script' = [script EXCEPT ![c] = "requested"]
          BY <1>2, <3>2 DEF Load
        <4>2. "runtime" \in Steps \ {"idle", "ready", "failed"}
          BY DEF Steps
        <4>3. QED
          BY <4>1, <4>2, <2>1, GoesOnSettles
      <3>3. QED
        BY <3>1, <3>2
    <2>4. PICK s \in {"runtime", "fetching", "buffering"} :
            /\ Settles(c, s, Nil, Nil) /\ Outcome(s, Nil, Nil)
            /\ \/ script' = script
               \/ s = "runtime" /\ script' = [script EXCEPT ![c] = "requested"]
      BY <2>3
    <2>5. UNCHANGED <<Go, meshpktCall, instances, registered, waited, rested>>
      BY DEF Load
    <2>6. /\ ApiIsLive'
          /\ step' \in [Copies -> Steps]
          /\ api' \in [Copies -> Copies \union {Nil}]
          /\ failure' \in [Copies -> Errors \union {Nil}]
      <3>1. registered' \in [Copies -> BOOLEAN]
        BY <2>5 DEF LoaderInv, TypeOK
      <3>2. QED
        BY <2>4, <2>5, <3>1, SettlingKeepsApi
    <2>7. script' \in [Copies -> {"none", "requested", "done"}]
      BY <2>4 DEF LoaderInv, TypeOK
    <2>8. TypeOK'
      BY <2>2, <2>5, <2>6, <2>7 DEF LoaderInv, TypeOK
    <2>9. StartedOnce'
      BY <2>1, <2>4, <2>5 DEF LoaderInv, TypeOK, StartedOnce, Settles, BeforeRun
    <2>10. CallIsRegistered'
      BY <2>5 DEF LoaderInv, CallIsRegistered
    <2>11. QED
      BY <2>6, <2>8, <2>9, <2>10 DEF LoaderInv
  <1>3. QED
    BY <1>1, <1>2

(* A step that starts no program and only decides how c goes on.           *)
LEMMA AnswerKeepsInv ==
  ASSUME LoaderInv, NEW c \in Copies, step[c] \in BeforeRun,
         NEW s \in {"fetching", "streaming", "buffering", "failed"},
         NEW error \in Errors \union {Nil},
         Settles(c, s, Nil, error), Outcome(s, Nil, error),
         Go' \in BOOLEAN,
         script' = script \/ script' = [script EXCEPT ![c] = "done"],
         script'[c] # "requested",
         UNCHANGED <<meshpktCall, calls, instances, registered, waited, rested>>
  PROVE  LoaderInv'
  <1>1. registered' \in [Copies -> BOOLEAN]
    BY DEF LoaderInv, TypeOK
  <1>2. /\ ApiIsLive'
        /\ step' \in [Copies -> Steps]
        /\ api' \in [Copies -> Copies \union {Nil}]
        /\ failure' \in [Copies -> Errors \union {Nil}]
    BY <1>1, SettlingKeepsApi
  <1>3. script' \in [Copies -> {"none", "requested", "done"}]
    BY DEF LoaderInv, TypeOK
  <1>4. TypeOK'
    BY <1>2, <1>3 DEF LoaderInv, TypeOK
  <1>5. StartedOnce'
    BY DEF LoaderInv, TypeOK, StartedOnce, Settles, BeforeRun
  <1>6. CallIsRegistered'
    BY DEF LoaderInv, CallIsRegistered
  <1>7. QED
    BY <1>2, <1>4, <1>5, <1>6 DEF LoaderInv

LEMMA ScriptLoadedKeepsInv ==
  ASSUME LoaderInv, NEW c \in Copies, ScriptLoaded(c)
  PROVE  LoaderInv'
  <1>1. step[c] = "runtime" /\ step[c] \in BeforeRun /\ step[c] \notin {"ready", "failed"}
    BY DEF ScriptLoaded, LoaderInv, StartedOnce, BeforeRun
  <1>2. /\ Go' \in BOOLEAN
        /\ script' = [script EXCEPT ![c] = "done"]
        /\ script'[c] # "requested"
        /\ UNCHANGED <<meshpktCall, calls, instances, registered, waited, rested>>
    BY DEF ScriptLoaded, LoaderInv, TypeOK
  <1>3. CASE Go'
    <2>1. Instantiate(c)
      BY <1>3 DEF ScriptLoaded, Loaded
    <2>2. PICK s \in {"fetching", "buffering"} : Settles(c, s, Nil, Nil) /\ Outcome(s, Nil, Nil)
      BY <2>1, <1>1, InstantiateSettles
    <2>3. QED
      BY <2>2, <1>1, <1>2, AnswerKeepsInv
  <1>4. CASE ~Go'
    <2>1. Reject(c, "GoNotRegistered")
      BY <1>4 DEF ScriptLoaded, Loaded
    <2>2. "GoNotRegistered" \in Errors
      BY DEF Errors
    <2>3. Settles(c, "failed", Nil, "GoNotRegistered") /\ Outcome("failed", Nil, "GoNotRegistered")
      BY <2>1, <2>2, <1>1, RejectSettles
    <2>4. QED
      BY <2>2, <2>3, <1>1, <1>2, AnswerKeepsInv
  <1>5. QED
    BY <1>3, <1>4

LEMMA ScriptFailedKeepsInv ==
  ASSUME LoaderInv, NEW c \in Copies, ScriptFailed(c)
  PROVE  LoaderInv'
  <1>1. step[c] = "runtime" /\ step[c] \in BeforeRun /\ step[c] \notin {"ready", "failed"}
    BY DEF ScriptFailed, LoaderInv, StartedOnce, BeforeRun
  <1>2. /\ Go' \in BOOLEAN
        /\ script' = [script EXCEPT ![c] = "done"]
        /\ script'[c] # "requested"
        /\ UNCHANGED <<meshpktCall, calls, instances, registered, waited, rested>>
    BY DEF ScriptFailed, LoaderInv, TypeOK
  <1>3. Reject(c, "RuntimeNotLoaded") /\ "RuntimeNotLoaded" \in Errors
    BY DEF ScriptFailed, Errors
  <1>4. Settles(c, "failed", Nil, "RuntimeNotLoaded") /\ Outcome("failed", Nil, "RuntimeNotLoaded")
    BY <1>3, <1>1, RejectSettles
  <1>5. QED
    BY <1>1, <1>2, <1>3, <1>4, AnswerKeepsInv

(* The answers to fetch and to the compilation, when no program starts.    *)
LEMMA NoRunKeepsInv ==
  ASSUME LoaderInv, NEW c \in Copies, step[c] \in {"fetching", "streaming", "buffering"},
         NEW s \in {"streaming", "buffering"}, NEW error \in Errors,
         GoesOn(c, s) \/ Reject(c, error),
         UNCHANGED <<Go, meshpktCall, calls, script, instances, registered, waited, rested>>
  PROVE  LoaderInv'
  <1>1. /\ step[c] \in BeforeRun
        /\ step[c] \notin {"ready", "failed"}
        /\ s \in Steps \ {"idle", "ready", "failed"}
    BY DEF BeforeRun, Steps
  <1>2. Go' \in BOOLEAN /\ script' = script /\ script'[c] # "requested"
    BY DEF LoaderInv, TypeOK, StartedOnce
  <1>3. CASE GoesOn(c, s)
    <2>1. Settles(c, s, Nil, Nil) /\ Outcome(s, Nil, Nil)
      BY <1>1, <1>3, GoesOnSettles
    <2>2. QED
      BY <2>1, <1>1, <1>2, AnswerKeepsInv
  <1>4. CASE Reject(c, error)
    <2>1. Settles(c, "failed", Nil, error) /\ Outcome("failed", Nil, error)
      BY <1>1, <1>4, RejectSettles
    <2>2. QED
      BY <2>1, <1>1, <1>2, AnswerKeepsInv
  <1>5. QED
    BY <1>3, <1>4

LEMMA FetchedKeepsInv ==
  ASSUME LoaderInv, NEW c \in Copies, Fetched(c)
  PROVE  LoaderInv'
  <1>1. "WasmNotFetched" \in Errors
    BY DEF Errors
  <1>2. QED
    BY <1>1, NoRunKeepsInv DEF Fetched

LEMMA RunKeepsInv ==
  ASSUME LoaderInv, NEW c \in Copies, step[c] \in {"streaming", "buffering"}, Run(c)
  PROVE  LoaderInv'
  <1>1. step[c] \notin {"ready", "failed"} /\ instances[c] = 0
    BY DEF LoaderInv, StartedOnce, BeforeRun
  <1>2. /\ registered' \in [Copies -> BOOLEAN]
        /\ \A d \in Copies : registered[d] => registered'[d]
        /\ meshpktCall' \in Copies \union {Nil}
        /\ CallIsRegistered'
    <2>1. CASE meshpktCall' = c /\ registered' = [registered EXCEPT ![c] = TRUE]
      BY <2>1 DEF LoaderInv, TypeOK, CallIsRegistered
    <2>2. CASE UNCHANGED <<meshpktCall, registered>>
      BY <2>2 DEF LoaderInv, TypeOK, CallIsRegistered
    <2>3. QED
      BY <2>1, <2>2 DEF Run
  <1>3. /\ instances' = [instances EXCEPT ![c] = 1]
        /\ UNCHANGED <<Go, calls, script, waited, rested>>
    BY <1>1 DEF Run, LoaderInv, TypeOK
  <1>4. Poll(c, meshpktCall')
    BY DEF Run
  <1>5. PICK s \in {"polling", "ready", "failed"}, api1 \in {meshpktCall', Nil},
             error \in Errors \union {Nil} :
          Settles(c, s, api1, error) /\ Outcome(s, api1, error)
    BY <1>1, <1>2, <1>4, PollSettles
  <1>6. api1 # Nil => registered'[api1]
    BY <1>2 DEF CallIsRegistered
  <1>7. /\ ApiIsLive'
        /\ step' \in [Copies -> Steps]
        /\ api' \in [Copies -> Copies \union {Nil}]
        /\ failure' \in [Copies -> Errors \union {Nil}]
    BY <1>2, <1>5, <1>6, SettlingKeepsApi
  <1>8. TypeOK'
    BY <1>2, <1>3, <1>7 DEF LoaderInv, TypeOK
  <1>9. StartedOnce'
    BY <1>3, <1>5 DEF LoaderInv, TypeOK, StartedOnce, Settles, BeforeRun
  <1>10. QED
    BY <1>2, <1>7, <1>8, <1>9 DEF LoaderInv

LEMMA StreamedKeepsInv ==
  ASSUME LoaderInv, NEW c \in Copies, Streamed(c)
  PROVE  LoaderInv'
  <1>1. step[c] \in {"streaming", "buffering"} /\ "WasmNotCompiled" \in Errors
    BY DEF Streamed, Errors
  <1>2. CASE Run(c)
    BY <1>1, <1>2, RunKeepsInv
  <1>3. CASE ~Run(c)
    BY <1>1, <1>3, NoRunKeepsInv DEF Streamed
  <1>4. QED
    BY <1>2, <1>3

LEMMA BufferedKeepsInv ==
  ASSUME LoaderInv, NEW c \in Copies, Buffered(c)
  PROVE  LoaderInv'
  <1>1. step[c] \in {"streaming", "buffering"} /\ "WasmNotCompiled" \in Errors
    BY DEF Buffered, Errors
  <1>2. CASE Run(c)
    BY <1>1, <1>2, RunKeepsInv
  <1>3. CASE ~Run(c)
    BY <1>1, <1>3, NoRunKeepsInv DEF Buffered
  <1>4. QED
    BY <1>2, <1>3

LEMMA RegisterKeepsInv ==
  ASSUME LoaderInv, NEW c \in Copies, Register(c)
  PROVE  LoaderInv'
  BY DEF Register, LoaderInv, TypeOK, ApiIsLive, StartedOnce, CallIsRegistered

LEMMA TickKeepsInv ==
  ASSUME LoaderInv, Tick
  PROVE  LoaderInv'
  <1>1. waited' \in [Copies -> 0 .. Deadline]
    BY LoaderAssumption DEF Tick, LoaderInv, TypeOK
  <1>2. rested' \in [Copies -> BOOLEAN]
    BY DEF Tick, LoaderInv, TypeOK
  <1>3. UNCHANGED <<Go, meshpktCall, calls, step, script, instances, registered, api, failure>>
    BY DEF Tick
  <1>4. QED
    BY <1>1, <1>2, <1>3 DEF LoaderInv, TypeOK, ApiIsLive, StartedOnce, CallIsRegistered

LEMMA WakeKeepsInv ==
  ASSUME LoaderInv, NEW c \in Copies, Wake(c)
  PROVE  LoaderInv'
  <1>1. step[c] = "polling" /\ step[c] \notin {"ready", "failed"}
    BY DEF Wake
  <1>2. /\ rested' \in [Copies -> BOOLEAN]
        /\ UNCHANGED <<Go, meshpktCall, calls, script, instances, registered, waited>>
        /\ registered' \in [Copies -> BOOLEAN]
        /\ meshpktCall \in Copies \union {Nil}
    BY DEF Wake, LoaderInv, TypeOK
  <1>3. Poll(c, meshpktCall)
    BY DEF Wake
  <1>4. PICK s \in {"polling", "ready", "failed"}, api1 \in {meshpktCall, Nil},
             error \in Errors \union {Nil} :
          Settles(c, s, api1, error) /\ Outcome(s, api1, error)
    BY <1>1, <1>2, <1>3, PollSettles
  <1>5. api1 # Nil => registered'[api1]
    BY <1>2 DEF LoaderInv, CallIsRegistered
  <1>6. /\ ApiIsLive'
        /\ step' \in [Copies -> Steps]
        /\ api' \in [Copies -> Copies \union {Nil}]
        /\ failure' \in [Copies -> Errors \union {Nil}]
    BY <1>2, <1>4, <1>5, SettlingKeepsApi
  <1>7. TypeOK'
    BY <1>2, <1>6 DEF LoaderInv, TypeOK
  <1>8. StartedOnce'
    BY <1>1, <1>2, <1>4 DEF LoaderInv, TypeOK, StartedOnce, Settles, BeforeRun
  <1>9. CallIsRegistered'
    BY <1>2 DEF LoaderInv, CallIsRegistered
  <1>10. QED
    BY <1>6, <1>7, <1>8, <1>9 DEF LoaderInv

-----------------------------------------------------------------------------
LEMMA StepKeepsInv == LoaderInv /\ [Next]_vars => LoaderInv'
  <1> SUFFICES ASSUME LoaderInv, [Next]_vars PROVE LoaderInv'
    OBVIOUS
  <1>1. CASE Tick
    BY <1>1, TickKeepsInv
  <1>2. ASSUME NEW c \in Copies, Load(c) PROVE LoaderInv'
    BY <1>2, LoadKeepsInv
  <1>3. ASSUME NEW c \in Copies, ScriptLoaded(c) PROVE LoaderInv'
    BY <1>3, ScriptLoadedKeepsInv
  <1>4. ASSUME NEW c \in Copies, ScriptFailed(c) PROVE LoaderInv'
    BY <1>4, ScriptFailedKeepsInv
  <1>5. ASSUME NEW c \in Copies, Fetched(c) PROVE LoaderInv'
    BY <1>5, FetchedKeepsInv
  <1>6. ASSUME NEW c \in Copies, Streamed(c) PROVE LoaderInv'
    BY <1>6, StreamedKeepsInv
  <1>7. ASSUME NEW c \in Copies, Buffered(c) PROVE LoaderInv'
    BY <1>7, BufferedKeepsInv
  <1>8. ASSUME NEW c \in Copies, Register(c) PROVE LoaderInv'
    BY <1>8, RegisterKeepsInv
  <1>9. ASSUME NEW c \in Copies, Wake(c) PROVE LoaderInv'
    BY <1>9, WakeKeepsInv
  <1>10. CASE UNCHANGED vars
    BY <1>10 DEF vars, LoaderInv, TypeOK, ApiIsLive, StartedOnce, CallIsRegistered
  <1>11. QED
    BY <1>1, <1>2, <1>3, <1>4, <1>5, <1>6, <1>7, <1>8, <1>9, <1>10 DEF Next

(* The variables keep their types. *)
THEOREM LoaderTypeCorrect == Spec => []TypeOK
  <1>1. LoaderInv => TypeOK
    BY DEF LoaderInv
  <1>2. QED
    BY LoaderInit, StepKeepsInv, <1>1, PTL DEF Spec

(* A copy starts at most one program, however often and whenever load() is *)
(* called.                                                                 *)
THEOREM StartsOnce == Spec => []OneInstance
  <1>1. ASSUME LoaderInv PROVE OneInstance
    <2>1. ASSUME NEW c \in Copies PROVE instances[c] <= 1
      <3>1. instances[c] = 0 \/ instances[c] = 1
        BY <1>1 DEF LoaderInv, StartedOnce
      <3>2. QED
        BY <3>1
    <2>2. QED
      BY <2>1 DEF OneInstance
  <1>2. QED
    BY LoaderInit, StepKeepsInv, <1>1, PTL DEF Spec

(* Whoever has waited for load() has an API whose program is registered,   *)
(* or an error, and never both or neither.                                 *)
THEOREM HandsOutLiveApi == Spec => []ApiIsLive
  <1>1. LoaderInv => ApiIsLive
    BY DEF LoaderInv
  <1>2. QED
    BY LoaderInit, StepKeepsInv, <1>1, PTL DEF Spec
=============================================================================
