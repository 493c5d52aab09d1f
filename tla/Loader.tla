------------------------------- MODULE Loader -------------------------------
(***************************************************************************)
(* js/src/index.ts: load(), which brings up the WebAssembly build of the   *)
(* library once and hands out its API.                                     *)
(*                                                                         *)
(* A page may hold several copies of the package (two bundles, or an ESM   *)
(* and a bundled one).  Each copy has its own apiReady and runtimeReady,   *)
(* and all share globalThis.Go and globalThis.meshpktCall.  JavaScript     *)
(* runs from one await to the next without interruption, so an action is   *)
(* what happens between two awaits.  The network answers, the Go program   *)
(* that registers meshpktCall and the timers are the environment.          *)
(*                                                                         *)
(* Once globalThis.Go is set nothing unsets it: lines 148-150, which look  *)
(* at it again after the await, cannot fail and have no action here.       *)
(***************************************************************************)
EXTENDS Naturals

CONSTANTS
  Copies,    \* the copies of the package on the page
  MaxCalls,  \* bound: calls of load() per copy
  Deadline   \* waitForCall gives up after so many naps; 1000 of 10 ms in the code

Nil == "nil"  \* undefined

ASSUME LoaderAssumption ==
  /\ Nil \notin Copies
  /\ MaxCalls \in Nat \ {0}
  /\ Deadline \in Nat \ {0}

VARIABLES
  Go,            \* whether globalThis.Go is set
  meshpktCall,   \* the copy whose instance globalThis.meshpktCall calls, or Nil
  calls,         \* calls[c]: how often load() was called
  step,          \* step[c]: the await the body of load() is at, or how it ended
  script,        \* script[c]: the state of the request for wasm_exec.js
  instances,     \* instances[c]: how many programs c has started
  registered,    \* registered[c]: its program has set globalThis.meshpktCall
  waited,        \* waited[c]: how long waitForCall has waited, in naps, up to Deadline
  rested,        \* rested[c]: the nap of waitForCall has been long enough
  api,           \* api[c]: the copy whose instance the API calls, or Nil
  failure        \* failure[c]: the error apiReady was rejected with, or Nil

vars == <<Go, meshpktCall, calls, step, script, instances, registered, waited, rested,
          api, failure>>

Steps == {"idle", "runtime", "fetching", "streaming", "buffering", "polling",
          "ready", "failed"}

Errors == {"RuntimeNotLoaded", "GoNotRegistered", "WasmNotFetched", "WasmNotCompiled",
           "CallNotRegistered"}

Init ==
  /\ Go = FALSE
  /\ meshpktCall = Nil
  /\ calls = [c \in Copies |-> 0]
  /\ step = [c \in Copies |-> "idle"]
  /\ script = [c \in Copies |-> "none"]
  /\ instances = [c \in Copies |-> 0]
  /\ registered = [c \in Copies |-> FALSE]
  /\ waited = [c \in Copies |-> 0]
  /\ rested = [c \in Copies |-> FALSE]
  /\ api = [c \in Copies |-> Nil]
  /\ failure = [c \in Copies |-> Nil]

-----------------------------------------------------------------------------
goto(c, s) == step' = [step EXCEPT ![c] = s]

Reject(c, error) ==
  /\ goto(c, "failed")
  /\ failure' = [failure EXCEPT ![c] = error]
  /\ UNCHANGED api

Resolve(c, call) ==
  /\ goto(c, "ready")
  /\ api' = [api EXCEPT ![c] = call]
  /\ UNCHANGED failure

GoesOn(c, s) == goto(c, s) /\ UNCHANGED <<api, failure>>

(* Where instantiate() starts: at fetch, or at readFile for a file URL or  *)
(* where there is no fetch.                                                *)
Instantiate(c) == \E s \in {"fetching", "buffering"} : GoesOn(c, s)

(* The promise of the first call is kept whatever becomes of it.  (Bad...: *)
(* mistakes not made, the first to keep what load() has resolved to.)      *)
BadCached(c) == step[c] = "ready"
Cached(c) == step[c] # "idle"

(* load(): the first call runs up to its first await. *)
Load(c) ==
  /\ calls[c] < MaxCalls
  /\ calls' = [calls EXCEPT ![c] = @ + 1]
  /\ IF Cached(c) THEN UNCHANGED <<step, script, api, failure>>
     ELSE IF Go THEN Instantiate(c) /\ UNCHANGED script
     ELSE GoesOn(c, "runtime") /\ script' = [script EXCEPT ![c] = "requested"]
  /\ UNCHANGED <<Go, meshpktCall, instances, registered, waited, rested>>

(* What onload does, or the then of import(). *)
BadLoaded(c, there) == IF there THEN Instantiate(c) ELSE Reject(c, "undefined")
Loaded(c, there) ==
  IF there THEN Instantiate(c) ELSE Reject(c, "GoNotRegistered")

(* wasm_exec.js was run: it sets globalThis.Go, unless it is another file. *)
ScriptLoaded(c) ==
  /\ script[c] = "requested"
  /\ script' = [script EXCEPT ![c] = "done"]
  /\ Go' \in {Go, TRUE}
  /\ Loaded(c, Go')
  /\ UNCHANGED <<meshpktCall, calls, instances, registered, waited, rested>>

ScriptFailed(c) ==
  /\ script[c] = "requested"
  /\ script' = [script EXCEPT ![c] = "done"]
  /\ Reject(c, "RuntimeNotLoaded")
  /\ UNCHANGED <<Go, meshpktCall, calls, instances, registered, waited, rested>>

(* The response is there: ok, not ok, or fetch was rejected. *)
Fetched(c) ==
  /\ step[c] = "fetching"
  /\ GoesOn(c, "streaming") \/ Reject(c, "WasmNotFetched")
  /\ UNCHANGED <<Go, meshpktCall, calls, script, instances, registered, waited, rested>>

(* One round of the loop in waitForCall, given the meshpktCall it sees.    *)
(* The deadline is looked at first.                                        *)
BadPollHopeful(c, call) ==
  IF waited[c] < Deadline /\ call = Nil THEN GoesOn(c, "polling") ELSE Resolve(c, call)
BadPollForEver(c, call) ==
  IF call # Nil THEN Resolve(c, call) ELSE GoesOn(c, "polling")
Poll(c, call) ==
  IF waited[c] >= Deadline THEN Reject(c, "CallNotRegistered")
  ELSE IF call # Nil THEN Resolve(c, call)
  ELSE GoesOn(c, "polling")

(* go.run(instance) and the first round of waitForCall.  The program may   *)
(* register its call before go.run returns, later or, when it stops early, *)
(* never: nobody looks at the promise of go.run.                           *)
Run(c) ==
  /\ instances' = [instances EXCEPT ![c] = @ + 1]
  /\ \/ /\ meshpktCall' = c
        /\ registered' = [registered EXCEPT ![c] = TRUE]
     \/ UNCHANGED <<meshpktCall, registered>>
  /\ Poll(c, meshpktCall')
  /\ UNCHANGED <<Go, calls, script, waited, rested>>

(* Compiling the response fails, or is not possible while it streams. *)
Streamed(c) ==
  /\ step[c] = "streaming"
  /\ \/ Run(c)
     \/ /\ GoesOn(c, "buffering")
        /\ UNCHANGED <<Go, meshpktCall, calls, script, instances, registered, waited, rested>>

Buffered(c) ==
  /\ step[c] = "buffering"
  /\ \/ Run(c)
     \/ /\ Reject(c, "WasmNotCompiled")
        /\ UNCHANGED <<Go, meshpktCall, calls, script, instances, registered, waited, rested>>

(* main() of a program that has started sets globalThis.meshpktCall. *)
Register(c) ==
  /\ instances[c] > 0
  /\ ~registered[c]
  /\ registered' = [registered EXCEPT ![c] = TRUE]
  /\ meshpktCall' = c
  /\ UNCHANGED <<Go, calls, step, script, instances, waited, rested, api, failure>>

(* The time of one nap passes. *)
Tick ==
  /\ \E c \in Copies : step[c] = "polling" /\ waited[c] < Deadline
  /\ waited' = [c \in Copies |->
                  IF step[c] = "polling" /\ waited[c] < Deadline
                  THEN waited[c] + 1 ELSE waited[c]]
  /\ rested' = [c \in Copies |-> rested[c] \/ step[c] = "polling"]
  /\ UNCHANGED <<Go, meshpktCall, calls, step, script, instances, registered, api, failure>>

(* A timer fires at the end of its nap or any time after it. *)
Wake(c) ==
  /\ step[c] = "polling"
  /\ rested[c]
  /\ rested' = [rested EXCEPT ![c] = FALSE]
  /\ Poll(c, meshpktCall)
  /\ UNCHANGED <<Go, meshpktCall, calls, script, instances, registered, waited>>

Next ==
  \/ Tick
  \/ \E c \in Copies :
       \/ Load(c)
       \/ ScriptLoaded(c) \/ ScriptFailed(c)
       \/ Fetched(c) \/ Streamed(c) \/ Buffered(c)
       \/ Register(c)
       \/ Wake(c)

(* The host answers each request in some way and fires its timers, and     *)
(* time passes.  Nobody has to call load(), and no program to register.    *)
Fairness ==
  /\ WF_vars(Tick)
  /\ \A c \in Copies :
       /\ WF_vars(ScriptLoaded(c) \/ ScriptFailed(c))
       /\ WF_vars(Fetched(c) \/ Streamed(c) \/ Buffered(c))
       /\ WF_vars(Wake(c))

Spec == Init /\ [][Next]_vars
FairSpec == Spec /\ Fairness

-----------------------------------------------------------------------------
TypeOK ==
  /\ Go \in BOOLEAN
  /\ meshpktCall \in Copies \union {Nil}
  /\ calls \in [Copies -> 0 .. MaxCalls]
  /\ step \in [Copies -> Steps]
  /\ script \in [Copies -> {"none", "requested", "done"}]
  /\ instances \in [Copies -> Nat]
  /\ registered \in [Copies -> BOOLEAN]
  /\ waited \in [Copies -> 0 .. Deadline]
  /\ rested \in [Copies -> BOOLEAN]
  /\ api \in [Copies -> Copies \union {Nil}]
  /\ failure \in [Copies -> Errors \union {Nil}]

(* However many callers overlap, and whatever fails, a copy starts at most *)
(* one program: "Call it once; subsequent calls return the same promise"   *)
(* (load, index.ts:134-161).                                               *)
OneInstance == \A c \in Copies : instances[c] <= 1

(* An API that is handed out calls a program that is there, though maybe   *)
(* the program of another copy; a rejected one calls nothing.  Everybody   *)
(* who is waiting on a copy gets one of the two (waitForCall and buildAPI, *)
(* index.ts:111-132).                                                      *)
ApiIsLive ==
  \A c \in Copies :
    /\ step[c] = "ready"  <=> api[c] # Nil
    /\ step[c] = "failed" <=> failure[c] # Nil
    /\ api[c] # Nil => registered[api[c]]

(* Whoever calls load() gets an API or an error: no step waits for         *)
(* something that may never come, not even for a program that stops before *)
(* it registers (the rejections of loadTinyGoRuntime and the deadline of   *)
(* waitForCall).                                                           *)
LoadSettles ==
  \A c \in Copies : calls[c] > 0 ~> step[c] \in {"ready", "failed"}

(* "meshpktCall was not registered by the WASM module" (index.ts:119) is   *)
(* said only when it was not.                                              *)
NotRegisteredIsTrue ==
  [][\A c \in Copies :
       step[c] = "polling" /\ failure'[c] = "CallNotRegistered" => meshpktCall = Nil]_vars
=============================================================================
