------------------------ MODULE NotificationDelivery ------------------------
(***************************************************************************)
(* One notification on its Telegram channel (worker.tasks): the message is *)
(* sent outside any transaction, under a lease of five minutes in the      *)
(* TelegramDelivery row.  The in-app row is already committed, and         *)
(* NotificationEmail is the other channel, queued independently.           *)
(*                                                                         *)
(* The broker's messages are acknowledged late: a worker that dies gives   *)
(* its message back.  TelegramLink says how the user's chat comes and      *)
(* goes; here it is `reachable` or not.                                    *)
(***************************************************************************)
EXTENDS Integers

CONSTANTS
    Workers,
    Kinds,       \* notifications that may be delivered: see PreferenceField
    MaxRetries,  \* max_retries of the task
    MaxDuplicates, \* bound: broker messages delivered again
    MaxDeaths    \* bound: workers that die

ASSUME DeliveryAssumption ==
    MaxRetries \in Nat /\ MaxDuplicates \in Nat /\ MaxDeaths \in Nat

VARIABLES
    kind,       \* the notification's type, with the task's status if it has one
    wanted,     \* preference fields that are on, in an enabled preference row
    reachable,  \* the user has an enabled connection and is still authorized
    delivery,   \* TelegramDelivery.status, "none" before the row exists
    fresh,      \* its updated_at is less than five minutes old
    queue,      \* queue[r]: broker messages on their r-th retry
    parked,     \* parked[r]: those that wait out a lease first
    at,         \* at[w]: what Telegram worker w does
    retry,      \* retry[w]: the retry its message is on
    (* History. *)
    messages,   \* Telegram messages that arrived
    lapses,     \* leases that ran out before the delivery ended
    unheard,    \* arrivals (at Telegram, at the broker) whose answer was lost
    spent,      \* a message was used up while the delivery was processing
    duplicates, deaths

user == <<kind, wanted, reachable>>
telegram == <<delivery, fresh, queue, parked, at, retry>>
history == <<messages, lapses, unheard, spent, duplicates, deaths>>

vars == <<user, telegram, history>>

Tries == 0..MaxRetries

\* _telegram_preference_field: a task's notification that says failed or blocked
\* counts as a failure, and some types have no Telegram alert.
PreferenceField(k) ==
    CASE k = "task_completed" -> "task_completed"
      [] k \in {"task_failed", "task_blocked", "workflow_failed"} -> "task_failed"
      [] k \in {"research_completed", "website_changed", "approval_requested",
                "monitor_failed"} -> k
      [] OTHER -> "none"

Add(jobs, r) == [jobs EXCEPT ![r] = @ + 1]
Remove(jobs, r) == [jobs EXCEPT ![r] = @ - 1]

Init ==
    /\ kind \in Kinds
    /\ wanted \in {{}, {PreferenceField(k) : k \in Kinds} \ {"none"}}
    /\ reachable \in BOOLEAN
    /\ delivery = "none" /\ fresh = FALSE
    /\ queue = [r \in Tries |-> 0] /\ parked = [r \in Tries |-> 0]
    /\ at = [w \in Workers |-> "publish"] /\ retry = [w \in Workers |-> 0]
    /\ messages = 0 /\ lapses = 0 /\ unheard = 0
    /\ spent = FALSE /\ duplicates = 0 /\ deaths = 0

-----------------------------------------------------------------------------
(* enqueue_notification_deliveries.                                        *)

Begun == \A w \in Workers : at[w] # "publish"

(* The channel is queued, or an error of the broker marks the delivery as  *)
(* failed, whether or not the broker took the message after all.           *)
Enqueue ==
    /\ ~Begun
    /\ at' = [w \in Workers |-> "idle"]
    /\ \/ queue' = Add(queue, 0) /\ UNCHANGED <<delivery, unheard>>
       \/ /\ delivery' = "failed"
          /\ \/ UNCHANGED <<queue, unheard>>
             \/ queue' = Add(queue, 0) /\ unheard' = unheard + 1
    /\ UNCHANGED <<user, fresh, parked, retry, messages, lapses, spent, duplicates, deaths>>

-----------------------------------------------------------------------------
(* dispatch_notification_telegram.                                         *)

\* Mutant of Busy: the lease is not looked at.
BusyNever == FALSE

\* Another worker owns a fresh lease, or this is the message of one that died.
Busy == delivery = "processing" /\ fresh

\* Mutant of Take: a busy delivery ends the message.
TakeOnce(w) ==
    /\ at[w] = "idle"
    /\ \E r \in Tries :
          /\ queue[r] > 0
          /\ queue' = Remove(queue, r)
          /\ retry' = [retry EXCEPT ![w] = r]
          /\ \/ /\ delivery \in {"sent", "skipped"} \/ Busy
                /\ UNCHANGED <<delivery, fresh, at>>
             \/ /\ delivery \notin {"sent", "skipped"} /\ ~Busy
                /\ delivery' = "processing" /\ fresh' = TRUE
                /\ at' = [at EXCEPT ![w] = "send"]
    /\ UNCHANGED <<user, parked, history>>

(* The transaction on the delivery's row decides what a message is worth:  *)
(* nothing once the delivery has ended; another try when the lease is over *)
(* while somebody has it; the end when the user does not want it (any      *)
(* more); and otherwise the lease.                                         *)
Take(w) ==
    /\ at[w] = "idle"
    /\ \E r \in Tries :
          /\ queue[r] > 0
          /\ queue' = Remove(queue, r)
          /\ \/ /\ delivery \in {"sent", "skipped"}
                /\ UNCHANGED <<delivery, fresh, parked, at, retry, spent>>
             \/ /\ Busy
                /\ IF r < MaxRetries
                   THEN parked' = Add(parked, r + 1) /\ UNCHANGED spent
                   ELSE spent' = TRUE /\ UNCHANGED parked
                /\ UNCHANGED <<delivery, fresh, at, retry>>
             \/ /\ delivery \notin {"sent", "skipped"} /\ ~Busy
                /\ ~reachable \/ PreferenceField(kind) \notin wanted
                /\ delivery' = "skipped"
                /\ UNCHANGED <<fresh, parked, at, retry, spent>>
             \/ /\ delivery \notin {"sent", "skipped"} /\ ~Busy
                /\ reachable /\ PreferenceField(kind) \in wanted
                /\ delivery' = "processing" /\ fresh' = TRUE
                /\ at' = [at EXCEPT ![w] = "send"]
                /\ retry' = [retry EXCEPT ![w] = r]
                /\ UNCHANGED <<parked, spent>>
    /\ UNCHANGED <<user, messages, lapses, unheard, duplicates, deaths>>

(* send_telegram_message: the message arrives and the answer too, or not;  *)
(* it does not arrive; or the chat is refused for good.  An error of       *)
(* another kind (a cut-off answer) ends the task and nothing is recorded.  *)
Send(w) ==
    /\ at[w] = "send"
    /\ \E outcome \in {"record", "fail", "reject", "idle"} :
          /\ at' = [at EXCEPT ![w] = outcome]
          /\ \/ /\ outcome = "record"
                /\ messages' = messages + 1
                /\ UNCHANGED <<unheard, spent>>
             \/ /\ outcome \in {"fail", "idle"}
                /\ messages' = messages + 1 /\ unheard' = unheard + 1
                /\ spent' = (spent \/ outcome = "idle")
             \/ /\ outcome \in {"fail", "reject"}
                /\ UNCHANGED <<messages, unheard, spent>>
    /\ UNCHANGED <<user, delivery, fresh, queue, parked, retry, lapses, duplicates, deaths>>

\* The message is acknowledged.
Done(w) == at' = [at EXCEPT ![w] = "idle"]

(* The end is written without a look at the row.                           *)
RecordSent(w) ==
    /\ at[w] = "record"
    /\ delivery' = "sent"
    /\ Done(w)
    /\ UNCHANGED <<user, fresh, queue, parked, retry, history>>

RecordFailure(w) ==
    /\ at[w] = "fail"
    /\ delivery' = "failed"
    /\ queue' = IF retry[w] < MaxRetries THEN Add(queue, retry[w] + 1) ELSE queue
    /\ Done(w)
    /\ UNCHANGED <<user, fresh, parked, retry, history>>

(* A chat that refuses the bot is disabled, in a write of its own.         *)
DisableConnection(w) ==
    /\ at[w] = "reject"
    /\ reachable' = FALSE
    /\ at' = [at EXCEPT ![w] = "rejected"]
    /\ UNCHANGED <<kind, wanted, delivery, fresh, queue, parked, retry, history>>

RecordRejection(w) ==
    /\ at[w] = "rejected"
    /\ delivery' = "failed"
    /\ Done(w)
    /\ UNCHANGED <<user, fresh, queue, parked, retry, history>>

(* dispatch_telegram_test goes to the same chat and may find it refuses.   *)
TestMessage ==
    /\ Begun /\ reachable
    /\ reachable' = FALSE
    /\ UNCHANGED <<kind, wanted, telegram, history>>

(* The user connects, disconnects, joins or leaves.                        *)
ChangeConnection ==
    /\ reachable' = ~reachable
    /\ UNCHANGED <<kind, wanted, telegram, history>>

(* Five minutes go by: every lease is old, and what waited for it is back. *)
FiveMinutes ==
    /\ fresh \/ \E r \in Tries : parked[r] > 0
    /\ lapses' = IF Busy THEN lapses + 1 ELSE lapses
    /\ fresh' = FALSE
    /\ queue' = [r \in Tries |-> queue[r] + parked[r]]
    /\ parked' = [r \in Tries |-> 0]
    /\ UNCHANGED <<user, delivery, at, retry, messages, unheard, spent, duplicates, deaths>>

(* reject_on_worker_lost: the message of a worker that dies comes back.    *)
Die(w) ==
    /\ at[w] \in {"send", "record", "fail", "reject", "rejected"}
    /\ deaths < MaxDeaths
    /\ deaths' = deaths + 1
    /\ queue' = Add(queue, retry[w])
    /\ Done(w)
    /\ UNCHANGED <<user, delivery, fresh, parked, retry, messages, lapses, unheard, spent,
                   duplicates>>

(* The broker delivers a message a second time.                            *)
Duplicate ==
    /\ duplicates < MaxDuplicates
    /\ duplicates' = duplicates + 1
    /\ \/ \E r \in Tries : queue[r] > 0 /\ queue' = Add(queue, r)
       \/ \E w \in Workers :
            at[w] \in {"send", "record", "fail"} /\ queue' = Add(queue, retry[w])
    /\ UNCHANGED <<user, delivery, fresh, parked, at, retry, messages, lapses, unheard, spent,
                   deaths>>

-----------------------------------------------------------------------------
WorkerStep(w) ==
    Take(w) \/ Send(w) \/ RecordSent(w) \/ RecordFailure(w) \/ DisableConnection(w)
        \/ RecordRejection(w)

Next ==
    \/ Enqueue
    \/ \E w \in Workers : WorkerStep(w) \/ Die(w)
    \/ TestMessage \/ ChangeConnection \/ FiveMinutes \/ Duplicate

Spec == Init /\ [][Next]_vars

(* Workers go on, Telegram answers within its timeout, and time passes.    *)
Fairness == WF_vars(FiveMinutes) /\ \A w \in Workers : WF_vars(WorkerStep(w))

LiveSpec == Spec /\ Fairness

-----------------------------------------------------------------------------
TypeOK ==
    /\ kind \in Kinds /\ reachable \in BOOLEAN
    /\ delivery \in {"none", "processing", "sent", "skipped", "failed"}
    /\ fresh \in BOOLEAN
    /\ queue \in [Tries -> Nat] /\ parked \in [Tries -> Nat]
    /\ at \in [Workers -> {"publish", "idle", "send", "record", "fail", "reject", "rejected"}]
    /\ retry \in [Workers -> Tries]
    /\ {messages, lapses, unheard, duplicates, deaths} \subseteq Nat
    /\ spent \in BOOLEAN

\* "TelegramDelivery prevents routine duplicate sends": whatever is retried,
\* duplicated or overwritten late, each message more than one is explained by a
\* lease that ran out or by an answer that was lost.
NoRoutineDuplicate == messages <= 1 + lapses + unheard

\* "A late-ack replay after a worker crash [is retried] after the lease can be
\* reclaimed": a delivery a worker died on does not stay processing, unless its
\* message was on its last retry or ended in an exception nobody catches.
DeliverySettles == delivery = "processing" ~> delivery # "processing" \/ spent
=============================================================================
