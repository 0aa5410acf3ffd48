------------------------- MODULE NotificationEmail --------------------------
(***************************************************************************)
(* One notification's e-mail (worker.dispatch_notification_email): it is   *)
(* sent inside a transaction that has the notification's row locked, and   *)
(* the marker email_sent_at commits with it.  The broker's messages are    *)
(* acknowledged early, and an exception queues the next try.               *)
(***************************************************************************)
EXTENDS Integers

CONSTANTS
    MaxRetries,    \* max_retries of the task
    MaxDuplicates, \* bound: broker messages delivered again
    MaxDeaths      \* bound: workers that die

EmailAssumption ==
    MaxRetries \in Nat /\ MaxDuplicates \in Nat /\ MaxDeaths \in Nat

VARIABLES
    marked,     \* Notification.email_sent_at is set
    letters,    \* letters[r]: broker messages on their r-th retry
    mailer,     \* where the worker that has the row locked stands
    tries,      \* the retry its message is on
    (* History. *)
    emails,     \* e-mails that left
    undone,     \* those whose marker was rolled back or whose answer was lost
    again, losses

vars == <<marked, letters, mailer, tries, emails, undone, again, losses>>

Tries == 0..MaxRetries

Add(jobs, r) == [jobs EXCEPT ![r] = @ + 1]

(* enqueue_notification_deliveries queued the e-mail, or the broker's      *)
(* error was swallowed and there is none.                                  *)
Init ==
    /\ marked = FALSE
    /\ \E queued \in 0..1 : letters = [r \in Tries |-> IF r = 0 THEN queued ELSE 0]
    /\ mailer = "idle" /\ tries = 0
    /\ emails = 0 /\ undone = 0 /\ again = 0 /\ losses = 0

(* A worker takes a message and locks the row; a marked one ends it.       *)
Open ==
    /\ mailer = "idle"
    /\ \E r \in Tries :
          /\ letters[r] > 0
          /\ letters' = [letters EXCEPT ![r] = @ - 1]
          /\ IF marked
             THEN UNCHANGED <<mailer, tries>>
             ELSE mailer' = "send" /\ tries' = r
    /\ UNCHANGED <<marked, emails, undone, again, losses>>

\* An exception rolls the transaction back and queues the next try.
Retry ==
    /\ mailer' = "idle" /\ tries' = 0
    /\ letters' = IF tries < MaxRetries THEN Add(letters, tries + 1) ELSE letters
    /\ UNCHANGED marked

(* send_mail returns, or raises with the e-mail gone or not.               *)
Send ==
    /\ mailer = "send"
    /\ \/ /\ emails' = emails + 1 /\ mailer' = "commit"
          /\ UNCHANGED <<marked, letters, tries, undone>>
       \/ Retry /\ UNCHANGED <<emails, undone>>
       \/ Retry /\ emails' = emails + 1 /\ undone' = undone + 1
    /\ UNCHANGED <<again, losses>>

(* The marker commits with the end of the transaction, or does not.        *)
Commit ==
    /\ mailer = "commit"
    /\ \/ /\ marked' = TRUE /\ mailer' = "idle" /\ tries' = 0
          /\ UNCHANGED <<letters, undone>>
       \/ Retry /\ undone' = undone + 1
    /\ UNCHANGED <<emails, again, losses>>

(* A worker that dies takes its message with it.                           *)
Die ==
    /\ mailer # "idle"
    /\ losses < MaxDeaths
    /\ losses' = losses + 1
    /\ mailer' = "idle" /\ tries' = 0
    /\ undone' = IF mailer = "commit" THEN undone + 1 ELSE undone
    /\ UNCHANGED <<marked, letters, emails, again>>

(* The broker delivers a message a second time.                            *)
Duplicate ==
    /\ again < MaxDuplicates
    /\ again' = again + 1
    /\ \/ \E r \in Tries : letters[r] > 0 /\ letters' = Add(letters, r)
       \/ mailer # "idle" /\ letters' = Add(letters, tries)
    /\ UNCHANGED <<marked, mailer, tries, emails, undone, losses>>

Next == Open \/ Send \/ Commit \/ Die \/ Duplicate

Spec == Init /\ [][Next]_vars

-----------------------------------------------------------------------------
TypeOK ==
    /\ marked \in BOOLEAN
    /\ letters \in [Tries -> Nat]
    /\ mailer \in {"idle", "send", "commit"} /\ tries \in Tries
    /\ {emails, undone, again, losses} \subseteq Nat

\* email_sent_at keeps an e-mail from leaving twice: one more than one is
\* explained by a marker that was rolled back or an answer that was lost.
NoSecondEmail == emails <= 1 + undone
=============================================================================
