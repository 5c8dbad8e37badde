--------------------------- MODULE TicketAutoClose ---------------------------
(***************************************************************************)
(* TicketAutoCloseService (ticket_auto_close_service.go): a goroutine that *)
(* at start-up and on every tick reads AutoCloseHours afresh, queries at   *)
(* most 100 tickets in an active status whose last_message_at is older     *)
(* than the cutoff, and closes each one in a transaction: a conditional    *)
(* UPDATE ... WHERE status IN (open, processing, resolved), a system       *)
(* message, and unread_count_user + 1 with last_message_at = now.         *)
(*                                                                         *)
(* Competing with it: users replying and admins changing the status        *)
(* (ticket service, outside src/, modelled from the spec).                 *)
(***************************************************************************)
EXTENDS Naturals, FiniteSets, FiniteSetsExt

CONSTANTS
    Tickets,      \* ticket ids
    Sweepers,     \* service instances running closeLoop against one database
    BatchLimit,   \* Limit(100) of the query
    MaxReplies    \* bound on user replies

ASSUME BatchLimit \in Nat \ {0} /\ MaxReplies \in Nat

VARIABLES
    status,       \* tickets.status
    stale,        \* last_message_at < now - AutoCloseHours
    unread,       \* tickets.unread_count_user
    notices,      \* number of "automatically closed" system messages of the ticket
    closedBy,     \* history: who closed the ticket ("none", "auto", "admin")
    enabled,      \* cfg.Ticket.AutoCloseHours > 0 (hot-reloadable)
    sweeper,      \* [Sweepers -> [pc, batch]]: closeLoop goroutine
    tickReady,    \* [Sweepers -> BOOLEAN]: ticker.C holds an undelivered tick
    stopClosed,   \* [Sweepers -> BOOLEAN]: stopChan closed by Stop
    replies       \* number of user replies so far

vars == <<status, stale, unread, notices, closedBy, enabled, sweeper,
          tickReady, stopClosed, replies>>
ticketVars == <<status, stale, unread, notices, closedBy>>

ActiveStatuses == {"open", "processing", "resolved"}
TicketStatus   == ActiveStatuses \cup {"closed"}
SweeperPC      == {"query", "close", "idle", "exited"}

TypeOK ==
    /\ status \in [Tickets -> TicketStatus]
    /\ stale \in [Tickets -> BOOLEAN]
    /\ unread \in [Tickets -> Nat]
    /\ notices \in [Tickets -> Nat]
    /\ closedBy \in [Tickets -> {"none", "auto", "admin"}]
    /\ enabled \in BOOLEAN
    /\ \A s \in Sweepers : sweeper[s].pc \in SweeperPC /\ sweeper[s].batch \subseteq Tickets
                            /\ Cardinality(sweeper[s].batch) <= BatchLimit
    /\ tickReady \in [Sweepers -> BOOLEAN]
    /\ stopClosed \in [Sweepers -> BOOLEAN]
    /\ replies \in 0..MaxReplies

Init ==
    /\ status \in [Tickets -> ActiveStatuses]
    /\ stale = [t \in Tickets |-> FALSE]
    /\ unread = [t \in Tickets |-> 0]
    /\ notices = [t \in Tickets |-> 0]
    /\ closedBy = [t \in Tickets |-> "none"]
    /\ enabled \in BOOLEAN
    \* closeLoop calls closeInactiveTickets once right after Start
    /\ sweeper = [s \in Sweepers |-> [pc |-> "query", batch |-> {}]]
    /\ tickReady = [s \in Sweepers |-> FALSE]
    /\ stopClosed = [s \in Sweepers |-> FALSE]
    /\ replies = 0

-----------------------------------------------------------------------------
(* The environment: time, configuration, users and admins.                 *)

\* No message for AutoCloseHours: last_message_at falls behind the cutoff.
TimePasses(t) ==
    /\ status[t] \in ActiveStatuses
    /\ ~stale[t]
    /\ stale' = [stale EXCEPT ![t] = TRUE]
    /\ UNCHANGED <<status, unread, notices, closedBy, enabled, sweeper,
                   tickReady, stopClosed, replies>>

\* An administrator edits AutoCloseHours (0 or negative disables the sweep).
ConfigChange ==
    /\ enabled' = ~enabled
    /\ UNCHANGED <<ticketVars, sweeper, tickReady, stopClosed, replies>>

\* A user replies to an active ticket: last_message_at = now.
UserReply(t) ==
    /\ replies < MaxReplies
    /\ status[t] \in ActiveStatuses
    /\ stale' = [stale EXCEPT ![t] = FALSE]
    /\ replies' = replies + 1
    /\ UNCHANGED <<status, unread, notices, closedBy, enabled, sweeper,
                   tickReady, stopClosed>>

\* An admin moves an active ticket to another status, closing included.
AdminSetStatus(t) ==
    /\ status[t] \in ActiveStatuses
    /\ \E st \in TicketStatus \ {status[t]} :
         /\ status' = [status EXCEPT ![t] = st]
         /\ closedBy' = IF st = "closed" THEN [closedBy EXCEPT ![t] = "admin"] ELSE closedBy
    /\ UNCHANGED <<stale, unread, notices, enabled, sweeper, tickReady, stopClosed, replies>>

-----------------------------------------------------------------------------
(* closeLoop, closeInactiveTickets and closeTicket.                        *)

AfterTicket(rest) == IF rest = {} THEN "idle" ELSE "close"

\* Mutant: the early return tests hours >= 0 instead of hours <= 0.
QueryInactiveInvertedGuard(s) ==
    LET due == {t \in Tickets : status[t] \in ActiveStatuses /\ stale[t]}
    IN /\ sweeper[s].pc = "query"
       /\ \/ /\ enabled
             /\ sweeper' = [sweeper EXCEPT ![s].pc = "idle"]
          \/ /\ ~enabled
             /\ \E b \in SUBSET due :
                  /\ Cardinality(b) = Min({BatchLimit, Cardinality(due)})
                  /\ sweeper' = [sweeper EXCEPT ![s].batch = b, ![s].pc = AfterTicket(b)]
       /\ UNCHANGED <<ticketVars, enabled, tickReady, stopClosed, replies>>

\* Mutant: the query without its Limit(100).
QueryInactiveNoLimit(s) ==
    LET due == {t \in Tickets : status[t] \in ActiveStatuses /\ stale[t]}
    IN /\ sweeper[s].pc = "query"
       /\ \/ /\ ~enabled
             /\ sweeper' = [sweeper EXCEPT ![s].pc = "idle"]
          \/ /\ enabled
             /\ sweeper' = [sweeper EXCEPT ![s].batch = due, ![s].pc = AfterTicket(due)]
       /\ UNCHANGED <<ticketVars, enabled, tickReady, stopClosed, replies>>

\* closeInactiveTickets: hours <= 0 returns; otherwise the staleness query,
\* whose error or empty result also ends the tick.
QueryInactive(s) ==
    LET due == {t \in Tickets : status[t] \in ActiveStatuses /\ stale[t]}
    IN /\ sweeper[s].pc = "query"
       /\ \/ /\ ~enabled
             /\ sweeper' = [sweeper EXCEPT ![s].pc = "idle"]
          \/ /\ enabled
             /\ sweeper' = [sweeper EXCEPT ![s].pc = "idle"]   \* query error
          \/ /\ enabled
             /\ \E b \in SUBSET due :
                  /\ Cardinality(b) = Min({BatchLimit, Cardinality(due)})
                  /\ sweeper' = [sweeper EXCEPT ![s].batch = b, ![s].pc = AfterTicket(b)]
       /\ UNCHANGED <<ticketVars, enabled, tickReady, stopClosed, replies>>

\* Mutant: RowsAffected == 0 does not return; the notice is written anyway.
CloseTicketIgnoresRows(s) ==
    /\ sweeper[s].pc = "close"
    /\ \E t \in sweeper[s].batch :
         LET rest == sweeper[s].batch \ {t} IN
         /\ sweeper' = [sweeper EXCEPT ![s].batch = rest, ![s].pc = AfterTicket(rest)]
         /\ status' = [status EXCEPT ![t] = "closed"]
         /\ closedBy' = IF status[t] \in ActiveStatuses
                        THEN [closedBy EXCEPT ![t] = "auto"] ELSE closedBy
         /\ notices' = [notices EXCEPT ![t] = @ + 1]
         /\ unread' = [unread EXCEPT ![t] = @ + 1]
         /\ stale' = [stale EXCEPT ![t] = FALSE]
    /\ UNCHANGED <<enabled, tickReady, stopClosed, replies>>

\* closeTicket: one transaction. The UPDATE re-checks the status only, not
\* last_message_at; zero rows affected commits nothing; an error rolls back.
CloseTicket(s) ==
    /\ sweeper[s].pc = "close"
    /\ \E t \in sweeper[s].batch :
         LET rest == sweeper[s].batch \ {t} IN
         /\ sweeper' = [sweeper EXCEPT ![s].batch = rest, ![s].pc = AfterTicket(rest)]
         /\ \/ /\ status[t] \in ActiveStatuses
               /\ status' = [status EXCEPT ![t] = "closed"]
               /\ closedBy' = [closedBy EXCEPT ![t] = "auto"]
               /\ notices' = [notices EXCEPT ![t] = @ + 1]
               /\ unread' = [unread EXCEPT ![t] = @ + 1]
               /\ stale' = [stale EXCEPT ![t] = FALSE]
            \/ /\ status[t] \notin ActiveStatuses
               /\ UNCHANGED ticketVars
            \/ UNCHANGED ticketVars                         \* rolled back
    /\ UNCHANGED <<enabled, tickReady, stopClosed, replies>>

TickerFires(s) ==
    /\ sweeper[s].pc # "exited"
    /\ ~tickReady[s]
    /\ tickReady' = [tickReady EXCEPT ![s] = TRUE]
    /\ UNCHANGED <<ticketVars, enabled, sweeper, stopClosed, replies>>

\* select in closeLoop: the tick case and the stop case.
SelectTick(s) ==
    /\ sweeper[s].pc = "idle"
    /\ tickReady[s]
    /\ tickReady' = [tickReady EXCEPT ![s] = FALSE]
    /\ sweeper' = [sweeper EXCEPT ![s].pc = "query"]
    /\ UNCHANGED <<ticketVars, enabled, stopClosed, replies>>

SelectStop(s) ==
    /\ sweeper[s].pc = "idle"
    /\ stopClosed[s]
    /\ sweeper' = [sweeper EXCEPT ![s].pc = "exited"]
    /\ UNCHANGED <<ticketVars, enabled, tickReady, stopClosed, replies>>

Stop(s) ==
    /\ ~stopClosed[s]
    /\ stopClosed' = [stopClosed EXCEPT ![s] = TRUE]
    /\ UNCHANGED <<ticketVars, enabled, sweeper, tickReady, replies>>

-----------------------------------------------------------------------------

SweeperStep(s) ==
    QueryInactive(s) \/ CloseTicket(s) \/ SelectTick(s) \/ SelectStop(s)

Next ==
    \/ ConfigChange
    \/ \E t \in Tickets : TimePasses(t) \/ UserReply(t) \/ AdminSetStatus(t)
    \/ \E s \in Sweepers : SweeperStep(s) \/ TickerFires(s) \/ Stop(s)

Spec == Init /\ [][Next]_vars

\* The goroutine keeps running and ticks keep coming; a query or a transaction
\* tried again and again eventually succeeds (errors are transient).
FairSpec ==
    /\ Spec
    /\ \A s \in Sweepers :
         /\ WF_vars(SweeperStep(s))
         /\ WF_vars(TickerFires(s))
         /\ SF_vars(QueryInactive(s) /\ sweeper'[s].batch # {})
         /\ \A t \in Tickets : SF_vars(CloseTicket(s) /\ closedBy'[t] = "auto")

-----------------------------------------------------------------------------
(* Properties.                                                             *)

\* A ticket carries the "automatically closed" notice exactly when the sweep
\* closed it, and then once: a ticket an admin closed, or another instance
\* closed, while it sat in the sweep's batch gets no notice (closeTicket's
\* RowsAffected == 0 return, line 137).
NoticeMatchesAutoClose ==
    \A t \in Tickets : notices[t] = IF closedBy[t] = "auto" THEN 1 ELSE 0

\* A ticket left without messages past the cutoff is eventually closed,
\* unless it gets a new message or the sweep is disabled or stopped.
IdleTicketEventuallyClosed ==
    \A t \in Tickets :
        (stale[t] /\ status[t] \in ActiveStatuses)
            ~> (status[t] = "closed" \/ ~stale[t] \/ ~enabled
                \/ \A s \in Sweepers : stopClosed[s])

\* Spec 4.5: the sweep closes a ticket only when its last message is older
\* than the cutoff; a user who has just replied keeps the ticket open.
ClosesOnlyIdleTickets ==
    [][\A t \in Tickets :
          (closedBy[t] # "auto" /\ closedBy'[t] = "auto") => stale[t]]_vars

=============================================================================
