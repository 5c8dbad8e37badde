---------------------------- MODULE SmsDelayQueue ----------------------------
(***************************************************************************)
(* SMSService (script_delivery_service.go): SendVerificationCode and       *)
(* ProcessDelayedSMS for one recipient.  SendVerificationCode asks         *)
(* checkMessageRateLimit, then either sends (incrMessageRateCounters, then *)
(* sendDirect) or, over the limit, adds the payload to the Redis sorted    *)
(* set sms:delayed ("delay") or refuses ("cancel").  ProcessDelayedSMS     *)
(* wakes every 30 s, reads at most 50 members with score <= now, and for   *)
(* each one calls ZRem (result ignored), skips it if it is older than 10   *)
(* minutes by the now read before the loop, and otherwise sends it.        *)
(*                                                                         *)
(* The rate-limit helpers are not under src/: they are modelled as a       *)
(* counter read by the check and incremented by the increment.  Every code *)
(* is a distinct payload, so a distinct member of the sorted set.          *)
(***************************************************************************)
EXTENDS Naturals, FiniteSets, FiniteSetsExt

CONSTANTS
    Codes,        \* one SendVerificationCode call per code, for one recipient
    Drainers,     \* processes running ProcessDelayedSMS against one Redis
    Limit,        \* the SMS rate limit for the recipient's window
    Batch,        \* Count: 50 of ZRangeByScore
    SendCap       \* sends of one code are counted up to SendCap

ASSUME Limit \in Nat /\ Batch \in Nat \ {0} /\ SendCap \in Nat \ {0}

VARIABLES
    counter,      \* the recipient's rate counter in the current window
    exceedAction, \* SMSRateLimit.ExceedAction, read on every call
    spc,          \* [Codes -> "idle" | "checked" | "done"]: the sender
    delayed,      \* members of sms:delayed
    expired,      \* codes created more than 10 minutes ago
    sends,        \* [Codes -> 0..SendCap]: provider calls made for the code
    dpc,          \* [Drainers -> "wait" | "loop" | "exited"]
    batch,        \* [Drainers -> members read by ZRangeByScore, not yet handled]
    stale,        \* [Drainers -> codes expired by the now read before the loop]
    cancelled     \* ctx cancelled

vars == <<counter, exceedAction, spc, delayed, expired, sends, dpc, batch,
          stale, cancelled>>

TypeOK ==
    /\ counter \in Nat
    /\ exceedAction \in {"delay", "cancel"}
    /\ spc \in [Codes -> {"idle", "checked", "done"}]
    /\ delayed \subseteq Codes /\ expired \subseteq Codes
    /\ sends \in [Codes -> 0..SendCap]
    /\ dpc \in [Drainers -> {"wait", "loop", "exited"}]
    /\ \A d \in Drainers : batch[d] \subseteq Codes /\ Cardinality(batch[d]) <= Batch
    /\ cancelled \in BOOLEAN

Init ==
    /\ counter = 0
    /\ exceedAction \in {"delay", "cancel"}
    /\ spc = [c \in Codes |-> "idle"]
    /\ delayed = {}
    /\ expired = {}
    /\ sends = [c \in Codes |-> 0]
    /\ dpc = [d \in Drainers |-> "wait"]
    /\ batch = [d \in Drainers |-> {}]
    /\ stale = [d \in Drainers |-> {}]
    /\ cancelled = FALSE

\* sendDirect: one provider call, whatever its result (logged in sms_logs).
Send(c) == sends' = [sends EXCEPT ![c] = IF @ < SendCap THEN @ + 1 ELSE @]

-----------------------------------------------------------------------------
(* SendVerificationCode.                                                   *)

\* checkMessageRateLimit; over the limit, ZAdd to sms:delayed or refuse.
CheckRateLimit(c) ==
    /\ spc[c] = "idle"
    /\ IF counter >= Limit
       THEN /\ spc' = [spc EXCEPT ![c] = "done"]
            /\ delayed' = IF exceedAction = "delay" THEN delayed \cup {c} ELSE delayed
       ELSE /\ spc' = [spc EXCEPT ![c] = "checked"]
            /\ UNCHANGED delayed
    /\ UNCHANGED <<counter, exceedAction, expired, sends, dpc, batch, stale, cancelled>>

\* incrMessageRateCounters, then sendDirect.
IncrAndSend(c) ==
    /\ spc[c] = "checked"
    /\ counter' = counter + 1
    /\ Send(c)
    /\ spc' = [spc EXCEPT ![c] = "done"]
    /\ UNCHANGED <<exceedAction, delayed, expired, dpc, batch, stale, cancelled>>

-----------------------------------------------------------------------------
(* ProcessDelayedSMS.                                                      *)

\* Mutant: ZRangeByScore without Count.
ZRangeNoCount(d) ==
    /\ dpc[d] = "wait"
    /\ ~cancelled
    /\ \/ UNCHANGED <<dpc, batch, stale>>
       \/ /\ delayed # {}
          /\ batch' = [batch EXCEPT ![d] = delayed]
          /\ stale' = [stale EXCEPT ![d] = expired]
          /\ dpc' = [dpc EXCEPT ![d] = "loop"]
    /\ UNCHANGED <<counter, exceedAction, spc, delayed, expired, sends, cancelled>>

\* Mutant: a failed range returns from the loop instead of continuing.
ZRangeReturnsOnError(d) ==
    /\ dpc[d] = "wait"
    /\ ~cancelled
    /\ \/ /\ dpc' = [dpc EXCEPT ![d] = "exited"]
          /\ UNCHANGED <<batch, stale>>
       \/ /\ delayed # {}
          /\ \E b \in SUBSET delayed :
               /\ Cardinality(b) = Min({Batch, Cardinality(delayed)})
               /\ batch' = [batch EXCEPT ![d] = b]
          /\ stale' = [stale EXCEPT ![d] = expired]
          /\ dpc' = [dpc EXCEPT ![d] = "loop"]
    /\ UNCHANGED <<counter, exceedAction, spc, delayed, expired, sends, cancelled>>

\* After 30 s: now, then ZRangeByScore(-inf, now, Count: 50).  An error or
\* an empty result waits for the next round.
ZRange(d) ==
    /\ dpc[d] = "wait"
    /\ ~cancelled
    /\ \/ UNCHANGED <<dpc, batch, stale>>                      \* error or empty
       \/ /\ delayed # {}
          /\ \E b \in SUBSET delayed :
               /\ Cardinality(b) = Min({Batch, Cardinality(delayed)})
               /\ batch' = [batch EXCEPT ![d] = b]
          /\ stale' = [stale EXCEPT ![d] = expired]
          /\ dpc' = [dpc EXCEPT ![d] = "loop"]
    /\ UNCHANGED <<counter, exceedAction, spc, delayed, expired, sends, cancelled>>

\* One member: ZRem (its result ignored), the age check against the now
\* read before the range, sendDirect.
Handle(d) ==
    /\ dpc[d] = "loop"
    /\ \E c \in batch[d] :
         /\ batch' = [batch EXCEPT ![d] = @ \ {c}]
         /\ delayed' = delayed \ {c}
         /\ IF c \in stale[d] THEN UNCHANGED sends ELSE Send(c)
    /\ dpc' = [dpc EXCEPT ![d] = IF batch'[d] = {} THEN "wait" ELSE "loop"]
    /\ UNCHANGED <<counter, exceedAction, spc, expired, stale, cancelled>>

\* select on ctx.Done().
DrainerExit(d) ==
    /\ dpc[d] = "wait"
    /\ cancelled
    /\ dpc' = [dpc EXCEPT ![d] = "exited"]
    /\ UNCHANGED <<counter, exceedAction, spc, delayed, expired, sends, batch, stale, cancelled>>

-----------------------------------------------------------------------------
(* Environment.                                                            *)

\* Ten minutes pass for a code that has been requested.
Expire(c) ==
    /\ spc[c] = "done"
    /\ c \notin expired
    /\ expired' = expired \cup {c}
    /\ UNCHANGED <<counter, exceedAction, spc, delayed, sends, dpc, batch, stale, cancelled>>

\* An administrator switches ExceedAction.
ConfigChange ==
    /\ exceedAction' = IF exceedAction = "delay" THEN "cancel" ELSE "delay"
    /\ UNCHANGED <<counter, spc, delayed, expired, sends, dpc, batch, stale, cancelled>>

Shutdown ==
    /\ ~cancelled
    /\ cancelled' = TRUE
    /\ UNCHANGED <<counter, exceedAction, spc, delayed, expired, sends, dpc, batch, stale>>

Next ==
    \/ \E c \in Codes : CheckRateLimit(c) \/ IncrAndSend(c) \/ Expire(c)
    \/ \E d \in Drainers : ZRange(d) \/ Handle(d) \/ DrainerExit(d)
    \/ ConfigChange \/ Shutdown

Spec == Init /\ [][Next]_vars

\* The loop is scheduled every 30 s and Redis errors are transient: a range
\* that would find members eventually does.
FairSpec ==
    /\ Spec
    /\ \A d \in Drainers :
         /\ WF_vars(Handle(d)) /\ WF_vars(DrainerExit(d))
         /\ SF_vars(ZRange(d) /\ batch'[d] # {})

-----------------------------------------------------------------------------
(* Properties.                                                             *)

\* "ProcessDelayedSMS ... moves ready items from the delayed set and sends
\* them": a delayed code reaches the provider at most once.  Not checked by
\* a run: with one drainer it holds by Handle's ZRem alone, and with two
\* drainers ProcessDelayedSMS breaks it (ZRem's result is ignored).
DelayedSentOnce == \A c \in Codes : sends[c] <= 1

\* A code put in sms:delayed eventually leaves it, sent or skipped as
\* expired, unless the process shuts down.
DelayedDrained ==
    \A c \in Codes : c \in delayed ~> (c \notin delayed \/ cancelled)

\* "Check rate limit": no more codes go out directly than the limit allows.
DirectSendsWithinLimit == counter <= Limit

=============================================================================
