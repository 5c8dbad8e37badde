---------------------------- MODULE ScriptSandbox ----------------------------
(***************************************************************************)
(* ScriptDeliveryService.ExecuteDeliveryScript (script_delivery_service.go)*)
(* in time.  A fresh goja VM runs the script's top level, then onDeliver.  *)
(* A timer goroutine armed with time.AfterFunc(10 s) calls vm.Interrupt,   *)
(* which goja honours at the next JavaScript instruction.  Host functions  *)
(* (AuraLogic.http.get/post/request -> doHTTPRequest) are Go code: while   *)
(* one blocks in client.Do, up to the HTTP client's 30 s timeout, the      *)
(* interrupt waits.                                                        *)
(*                                                                         *)
(* Time is counted in units of 10 s.  The script is any operator program:  *)
(* at each JavaScript step it may compute (time passes), call http, throw, *)
(* or return one of Results.                                               *)
(***************************************************************************)
EXTENDS Naturals, DeliveryResult

CONSTANTS
    Results,      \* values onDeliver may return (JSValue records)
    MaxCalls,     \* bound on the script's http calls
    Budget,       \* the 10 s execution budget, in time units
    HttpTimeout   \* the HTTP client's 30 s timeout, in time units

ASSUME Budget \in Nat \ {0} /\ HttpTimeout \in Nat /\ MaxCalls \in Nat

VARIABLES
    now,          \* elapsed time since ExecuteDeliveryScript started
    interrupted,  \* the timer has called vm.Interrupt
    pc,           \* "start", "top" (RunString), "call" (onDeliver), "http", "done"
    resume,       \* the JavaScript phase an http call returns to
    callEnd,      \* when the http call in flight returns
    calls,        \* http calls made so far
    outcome,      \* what ExecuteDeliveryScript returned
    doneAt        \* when it returned

vars == <<now, interrupted, pc, resume, callEnd, calls, outcome, doneAt>>

NoOutcome == Outcome("pending", "none", 0)
JSPhases  == {"top", "call"}
\* The latest ExecuteDeliveryScript can return: an http call started at the
\* budget at the latest ends by the client's timeout.
Horizon   == Budget + HttpTimeout

TypeOK ==
    /\ now \in 0..Horizon
    /\ interrupted \in BOOLEAN
    /\ pc \in {"start", "http", "done"} \cup JSPhases
    /\ resume \in JSPhases
    /\ callEnd \in 0..Horizon
    /\ calls \in 0..MaxCalls
    /\ doneAt \in 0..Horizon

Init ==
    /\ now = 0
    /\ interrupted = FALSE
    /\ pc = "start"
    /\ resume = "top"
    /\ callEnd = 0
    /\ calls = 0
    /\ outcome = NoOutcome
    /\ doneAt = 0

Finish(o) ==
    /\ pc' = "done"
    /\ outcome' = o
    /\ doneAt' = now

-----------------------------------------------------------------------------

\* An inventory without a script: an error before the VM exists.  Otherwise
\* goja.New, the timer, registerAPIs and RunString begin.
Start ==
    /\ pc = "start"
    /\ \/ Finish(Outcome("no_script", "none", 0))
       \/ pc' = "top" /\ UNCHANGED <<outcome, doneAt>>
    /\ UNCHANGED <<now, interrupted, resume, callEnd, calls>>

\* Mutant: an HTTP client without a timeout, facing a server that answers
\* late.
CallHttpNoTimeout(phase) ==
    /\ calls < MaxCalls
    /\ calls' = calls + 1
    /\ pc' = "http"
    /\ resume' = phase
    /\ callEnd' \in now..(now + 2 * HttpTimeout)
    /\ UNCHANGED <<outcome, doneAt>>

\* doHTTPRequest: URL parsing and the SSRF check answer at once; otherwise
\* client.Do blocks until the response or the client's timeout.
CallHttp(phase) ==
    /\ calls < MaxCalls
    /\ calls' = calls + 1
    /\ pc' = "http"
    /\ resume' = phase
    /\ callEnd' \in now..(now + HttpTimeout)
    /\ UNCHANGED <<outcome, doneAt>>

\* RunString: the top level runs, calling host functions, and ends by
\* throwing (a syntax or runtime error) or completing; then the lookup of
\* onDeliver.
TopLevelStep ==
    /\ pc = "top"
    /\ ~interrupted
    /\ \/ CallHttp("top")
       \/ Finish(Outcome("script_error", "none", 0)) /\ UNCHANGED <<resume, callEnd, calls>>
       \/ Finish(Outcome("no_callback", "none", 0)) /\ UNCHANGED <<resume, callEnd, calls>>
       \/ pc' = "call" /\ UNCHANGED <<resume, callEnd, calls, outcome, doneAt>>
    /\ UNCHANGED <<now, interrupted>>

\* onDeliver(order, config): host calls, a throw, or a return value that
\* parseDeliveryResult validates.
OnDeliverStep ==
    /\ pc = "call"
    /\ ~interrupted
    /\ \/ CallHttp("call")
       \/ Finish(Outcome("script_error", "none", 0)) /\ UNCHANGED <<resume, callEnd, calls>>
       \/ \E v \in Results :
            Finish(ParseDeliveryResult(v)) /\ UNCHANGED <<resume, callEnd, calls>>
    /\ UNCHANGED <<now, interrupted>>

\* The next JavaScript instruction after vm.Interrupt throws
\* InterruptedError out of RunString or onDeliver.
Interrupted ==
    /\ pc \in JSPhases
    /\ interrupted
    /\ Finish(Outcome("timeout", "none", 0))
    /\ UNCHANGED <<now, interrupted, resume, callEnd, calls>>

\* The response, or the client's timeout error, is handed to the script as
\* data.
HttpReturns ==
    /\ pc = "http"
    /\ now >= callEnd
    /\ pc' = resume
    /\ UNCHANGED <<now, interrupted, resume, callEnd, calls, outcome, doneAt>>

\* Mutant: the timer is stopped right after it is armed (timer.Stop()
\* without defer), so it never fires.
TimerFiresNever ==
    /\ FALSE
    /\ UNCHANGED vars

\* The AfterFunc goroutine at 10 s; defer timer.Stop() stops it once the
\* function has returned.
TimerFires ==
    /\ ~interrupted
    /\ now >= Budget
    /\ pc # "done"
    /\ interrupted' = TRUE
    /\ UNCHANGED <<now, pc, resume, callEnd, calls, outcome, doneAt>>

\* Time passes while JavaScript computes or client.Do blocks; it does not
\* pass the budget before the timer has fired.
Tick ==
    /\ now < Budget \/ interrupted
    /\ \/ pc \in JSPhases /\ ~interrupted
       \/ pc = "http" /\ now < callEnd
    /\ now' = now + 1
    /\ UNCHANGED <<interrupted, pc, resume, callEnd, calls, outcome, doneAt>>

Next ==
    \/ Start \/ TopLevelStep \/ OnDeliverStep \/ Interrupted \/ HttpReturns
    \/ TimerFires \/ Tick

Spec == Init /\ [][Next]_vars

\* The clock runs, the timer goroutine is scheduled, goja checks the flag
\* on every instruction and the HTTP client's timeout ends every call.  The
\* script itself may loop forever: no fairness for its own steps.
FairSpec ==
    /\ Spec
    /\ WF_vars(Start) /\ WF_vars(Tick) /\ WF_vars(TimerFires)
    /\ WF_vars(Interrupted) /\ WF_vars(HttpReturns)

-----------------------------------------------------------------------------
(* Properties.                                                             *)

\* ExecuteDeliveryScript returns, whatever the script does: an endless loop
\* is interrupted, a blocked http call ends at the client's timeout.
ExecutionTerminates == <>(pc = "done")

=============================================================================
