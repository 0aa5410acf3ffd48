--------------------------- MODULE OutsideProofs ---------------------------
(***************************************************************************)
(* What the application does outside it, for any workers, retries, users,  *)
(* chats, sites, crawls, models, pages and calls.                          *)
(*                                                                         *)
(* Telegram: there is one permission to send.  The row gives it away with  *)
(* the lease, the worker that takes it either sends or brings it back with *)
(* a failure, and a second one comes only from a lease that ran out or an  *)
(* answer that was lost (PermissionsCounted).                              *)
(*                                                                         *)
(* E-mail: a copy is marked, about to be marked, or counted as undone, and *)
(* nobody sends once the row is marked (LettersCounted).                   *)
(*                                                                         *)
(* Links: while a request has its user's row locked, every live session of *)
(* that user is one it is about to cancel (LockFinds); a session that a    *)
(* webhook holds is still pending (HookHolds), and one from before a       *)
(* disconnect never is (PastIsOver).                                       *)
(*                                                                         *)
(* Crawls: the queue goes down the site level by level, behind what was    *)
(* recorded (DepthsGrow), so an address that was seen was recorded no      *)
(* deeper than whoever leads to it; and what a sitemap or a page leads to  *)
(* is recorded, in hand or in the queue (SourcesOK, LinksFound).           *)
(*                                                                         *)
(* Pages: the two counters of the parser count the open elements that they *)
(* stand for (CountersOK), and what is kept is what they let through       *)
(* (SeenOK).                                                               *)
(*                                                                         *)
(* Model calls: a row of the log ends the call or is the first failure of  *)
(* two attempts (LogOK), and the adapter has all that was sent (StreamOK). *)
(*                                                                         *)
(* The browser: its promise says how many launches and processes there are *)
(* (PromiseCounts).  The sandbox: where a call is says what became of its  *)
(* container (CallOK).                                                     *)
(***************************************************************************)
EXTENDS MCOutside, FiniteSetTheorems, SequenceTheorems, TLAPS

\* A worker that may still send, or that has not sent and will write the row failed.
Acting == {"send", "fail", "reject", "rejected"}
Active == {w \in Workers : at[w] \in Acting}

\* Whoever takes a message next may have the lease.
Available == delivery \notin {"sent", "skipped"} /\ ~Busy
Leases == IF Available THEN 1 ELSE 0

\* Messages that arrived, that may arrive, and that the next lease may bring.
PermissionsCounted ==
    /\ IsFiniteSet(Active)
    /\ messages + Cardinality(Active) + Leases <= 1 + lapses + unheard

\* Until the notification is queued nobody works on it.
QueuedFirst ==
    \/ Begun
    \/ delivery = "none" /\ \A w \in Workers : at[w] = "publish"

DeliveryInvariant == TypeOK /\ PermissionsCounted /\ QueuedFirst
-----------------------------------------------------------------------------
\* A worker that becomes active is one more, and one that is no longer is one less.
LEMMA ActiveStep ==
    ASSUME IsFiniteSet(Active), NEW w \in Workers,
           \A v \in Workers \ {w} : at'[v] = at[v]
    PROVE  /\ IsFiniteSet(Active') /\ Cardinality(Active') \in Nat
           /\ Cardinality(Active') = Cardinality(Active)
                + (IF at'[w] \in Acting THEN 1 ELSE 0) - (IF at[w] \in Acting THEN 1 ELSE 0)
<1>1. w \in Active <=> at[w] \in Acting
  BY DEF Active
<1>2. CASE at'[w] \in Acting
  <2>1. Active' = Active \cup {w}
    BY <1>2 DEF Active
  <2>. QED
    BY <1>1, <1>2, <2>1, FS_AddElement, FS_CardinalityType
<1>3. CASE at'[w] \notin Acting
  <2>1. Active' = Active \ {w}
    BY <1>3 DEF Active
  <2>. QED
    BY <1>1, <1>3, <2>1, FS_RemoveElement, FS_CardinalityType
<1>. QED
  BY <1>2, <1>3

\* What a worker does is all that changes.
LEMMA OneMoves ==
    ASSUME TypeOK, NEW w \in Workers, NEW p, at' = [at EXCEPT ![w] = p]
    PROVE  at'[w] = p /\ \A v \in Workers \ {w} : at'[v] = at[v]
BY DEF TypeOK

\* The broker's messages, taken and given back.
LEMMA QueueType ==
    ASSUME NEW jobs \in [Tries -> Nat], NEW r \in Tries
    PROVE  /\ Add(jobs, r) \in [Tries -> Nat]
           /\ jobs[r] > 0 => Remove(jobs, r) \in [Tries -> Nat]
BY DEF Add, Remove

\* Retries are counted from 0 to the maximum.
LEMMA NextTry ==
    ASSUME DeliveryAssumption, NEW r \in Tries
    PROVE  0 \in Tries /\ (r < MaxRetries => r + 1 \in Tries)
BY DEF DeliveryAssumption, Tries

\* At first nothing was enqueued, and nobody may send.
LEMMA InitDelivery == Init => DeliveryInvariant
<1>. SUFFICES ASSUME Init PROVE DeliveryInvariant
  OBVIOUS
<1>1. TypeOK
  <2>1. 0 \in Tries
    BY DeliveryAssumption DEF Tries, DeliveryAssumption
  <2>2. fresh \in BOOLEAN /\ spent \in BOOLEAN /\ reachable \in BOOLEAN
    BY DEF Init
  <2>3. {messages, lapses, unheard, duplicates, deaths} \subseteq Nat
    BY DEF Init
  <2>. QED
    BY <2>1, <2>2, <2>3 DEF Init, TypeOK
<1>2. PermissionsCounted
  <2>1. Active = {}
    BY DEF Init, Active, Acting
  <2>2. IsFiniteSet(Active) /\ Cardinality(Active) = 0
    BY <2>1, FS_EmptySet
  <2>. QED
    BY <2>2 DEF Init, PermissionsCounted, Leases
<1>3. QueuedFirst
  BY DEF Init, QueuedFirst
<1>. QED
  BY <1>1, <1>2, <1>3 DEF DeliveryInvariant

\* A step of a worker that was not waiting for the first message.
LEMMA WorkersFollow ==
    ASSUME TypeOK, QueuedFirst, NEW w \in Workers, at[w] # "publish",
           NEW p, p # "publish", at' = [at EXCEPT ![w] = p]
    PROVE  QueuedFirst'
<1>1. Begun
  BY DEF QueuedFirst
<1>2. Begun'
  BY <1>1, OneMoves DEF Begun
<1>. QED
  BY <1>2 DEF QueuedFirst

\* A step that leaves the workers and the row alone.
LEMMA OthersFollow ==
    ASSUME PermissionsCounted, QueuedFirst,
           UNCHANGED <<at, delivery, fresh, messages, lapses, unheard>>
    PROVE  PermissionsCounted' /\ QueuedFirst'
<1>1. Active' = Active
  BY DEF Active
<1>2. Leases' = Leases
  BY DEF Leases, Available, Busy
<1>3. PermissionsCounted'
  BY <1>1, <1>2 DEF PermissionsCounted
<1>4. QueuedFirst'
  BY DEF QueuedFirst, Begun
<1>. QED
  BY <1>3, <1>4
-----------------------------------------------------------------------------
\* Every action keeps the account.
LEMMA StepDelivery == DeliveryInvariant /\ [Next]_vars => DeliveryInvariant'
<1>. SUFFICES ASSUME TypeOK, PermissionsCounted, QueuedFirst, [Next]_vars
              PROVE  TypeOK' /\ PermissionsCounted' /\ QueuedFirst'
  BY DEF DeliveryInvariant
<1>. DEFINE Kept == TypeOK' /\ PermissionsCounted' /\ QueuedFirst'
<1>0. /\ IsFiniteSet(Active) /\ Cardinality(Active) \in Nat
      /\ messages \in Nat /\ lapses \in Nat /\ unheard \in Nat
      /\ Leases \in {0, 1} /\ Leases' \in {0, 1}
      /\ messages + Cardinality(Active) + Leases <= 1 + lapses + unheard
  BY FS_CardinalityType DEF PermissionsCounted, TypeOK, Leases
<1>1. CASE UNCHANGED vars
  <2>1. TypeOK'
    BY <1>1 DEF TypeOK, vars, user, telegram, history
  <2>. QED
    BY <1>1, <2>1, OthersFollow DEF vars, user, telegram, history
<1>2. CASE Enqueue
  <2>1. TypeOK'
    <3>1. 0 \in Tries
      BY DeliveryAssumption DEF Tries, DeliveryAssumption
    <3>2. queue' \in [Tries -> Nat]
      BY <1>2, <3>1, QueueType DEF Enqueue, TypeOK
    <3>3. delivery' \in {"none", "processing", "sent", "skipped", "failed"} /\ unheard' \in Nat
      BY <1>0, <1>2 DEF Enqueue, TypeOK
    <3>. QED
      BY <1>2, <3>2, <3>3 DEF Enqueue, TypeOK, user
  <2>2. PermissionsCounted'
    <3>1. Active' = {}
      BY <1>2 DEF Enqueue, Active, Acting
    <3>2. IsFiniteSet(Active') /\ Cardinality(Active') = 0
      BY <3>1, FS_EmptySet
    <3>3. Leases = 1
      BY <1>2 DEF Enqueue, QueuedFirst, Leases, Available, Busy
    <3>4. messages' = messages /\ lapses' = lapses
      BY <1>2 DEF Enqueue
    <3>5. unheard' = unheard \/ unheard' = unheard + 1
      BY <1>2 DEF Enqueue
    <3>6. messages' + 0 + Leases' <= 1 + lapses' + unheard'
      BY <1>0, <3>3, <3>4, <3>5
    <3>. QED
      BY <3>2, <3>6 DEF PermissionsCounted
  <2>3. QueuedFirst'
    <3>1. at' = [w \in Workers |-> "idle"]
      BY <1>2 DEF Enqueue
    <3>. QED
      BY <3>1 DEF QueuedFirst, Begun
  <2>. QED
    BY <2>1, <2>2, <2>3
<1>3. ASSUME NEW w \in Workers, Take(w) PROVE Kept
  <2>. PICK r \in Tries : queue[r] > 0 /\ queue' = Remove(queue, r)
    /\ \/ /\ UNCHANGED <<delivery, fresh, parked, at, retry, spent>>
       \/ /\ IF r < MaxRetries
             THEN parked' = Add(parked, r + 1) /\ UNCHANGED spent
             ELSE spent' = TRUE /\ UNCHANGED parked
          /\ UNCHANGED <<delivery, fresh, at, retry>>
       \/ /\ Available /\ delivery' = "skipped"
          /\ UNCHANGED <<fresh, parked, at, retry, spent>>
       \/ /\ Available /\ delivery' = "processing" /\ fresh' = TRUE
          /\ at' = [at EXCEPT ![w] = "send"]
          /\ retry' = [retry EXCEPT ![w] = r]
          /\ UNCHANGED <<parked, spent>>
    BY <1>3 DEF Take, Available
  <2>1. UNCHANGED <<user, messages, lapses, unheard, duplicates, deaths>> /\ at[w] = "idle"
    BY <1>3 DEF Take
  <2>2. TypeOK'
    <3>1. queue' \in [Tries -> Nat]
      BY QueueType DEF TypeOK
    <3>2. parked' \in [Tries -> Nat]
      BY QueueType, NextTry, DeliveryAssumption DEF TypeOK
    <3>3. spent' \in BOOLEAN /\ fresh' \in BOOLEAN
      BY DEF TypeOK
    <3>. QED
      BY <2>1, <3>1, <3>2, <3>3 DEF TypeOK, user
  <2>3. CASE UNCHANGED <<delivery, fresh, at>>
    BY <2>1, <2>2, <2>3, OthersFollow
  <2>4. CASE Available /\ delivery' = "skipped" /\ UNCHANGED at
    <3>1. Active' = Active /\ Leases = 1 /\ Leases' = 0
      BY <2>4 DEF Active, Leases, Available
    <3>2. PermissionsCounted'
      BY <1>0, <2>1, <3>1 DEF PermissionsCounted
    <3>3. QueuedFirst'
      BY <2>1, <2>4 DEF QueuedFirst, Begun
    <3>. QED
      BY <2>2, <3>2, <3>3
  <2>5. CASE /\ Available /\ delivery' = "processing" /\ fresh' = TRUE
             /\ at' = [at EXCEPT ![w] = "send"]
    <3>1. Leases = 1 /\ Leases' = 0
      BY <2>5 DEF Leases, Available, Busy
    <3>2. at'[w] \in Acting /\ at[w] \notin Acting /\ \A v \in Workers \ {w} : at'[v] = at[v]
      BY <2>1, <2>5, OneMoves DEF Acting
    <3>3. IsFiniteSet(Active') /\ Cardinality(Active') = Cardinality(Active) + 1
      BY <1>0, <3>2, ActiveStep
    <3>4. PermissionsCounted'
      BY <1>0, <2>1, <3>1, <3>3 DEF PermissionsCounted
    <3>5. QueuedFirst'
      BY <2>1, <2>5, WorkersFollow
    <3>. QED
      BY <2>2, <3>4, <3>5
  <2>. QED
    BY <2>3, <2>4, <2>5
<1>4. ASSUME NEW w \in Workers, Send(w) PROVE Kept
  <2>. PICK outcome \in {"record", "fail", "reject", "idle"} :
          /\ at' = [at EXCEPT ![w] = outcome]
          /\ \/ /\ outcome = "record"
                /\ messages' = messages + 1
                /\ UNCHANGED <<unheard, spent>>
             \/ /\ outcome \in {"fail", "idle"}
                /\ messages' = messages + 1 /\ unheard' = unheard + 1
                /\ spent' = (spent \/ outcome = "idle")
             \/ /\ outcome \in {"fail", "reject"}
                /\ UNCHANGED <<messages, unheard, spent>>
    BY <1>4 DEF Send
  <2>1. /\ at[w] = "send"
        /\ UNCHANGED <<user, delivery, fresh, queue, parked, retry, lapses, duplicates, deaths>>
    BY <1>4 DEF Send
  <2>2. TypeOK'
    <3>1. spent' \in BOOLEAN
      BY DEF TypeOK
    <3>2. messages' \in Nat /\ unheard' \in Nat
      BY <1>0
    <3>. QED
      BY <2>1, <3>1, <3>2 DEF TypeOK, user
  <2>3. /\ IsFiniteSet(Active') /\ Cardinality(Active') \in Nat
        /\ Cardinality(Active') = Cardinality(Active)
             + (IF outcome \in {"fail", "reject"} THEN 1 ELSE 0) - 1
    <3>1. /\ at[w] \in Acting /\ (at'[w] \in Acting <=> outcome \in {"fail", "reject"})
          /\ \A v \in Workers \ {w} : at'[v] = at[v]
      BY <2>1, OneMoves DEF Acting
    <3>. QED
      BY <1>0, <3>1, ActiveStep
  <2>4. Leases' = Leases
    BY <2>1 DEF Leases, Available, Busy
  <2>5. PermissionsCounted'
    BY <1>0, <2>1, <2>3, <2>4 DEF PermissionsCounted
  <2>6. QueuedFirst'
    BY <2>1, WorkersFollow
  <2>. QED
    BY <2>2, <2>5, <2>6
\* The saves after a send, and a death, end a worker's part.
<1>5. ASSUME NEW w \in Workers, at[w] = "record" \/ at[w] \in Acting,
             at' = [at EXCEPT ![w] = "idle"],
             queue' \in [Tries -> Nat],
             \/ delivery' = "sent" \/ delivery' = delivery
             \/ delivery' = "failed" /\ at[w] \in Acting,
             deaths' \in Nat,
             UNCHANGED <<user, fresh, parked, retry, messages, lapses, unheard, spent, duplicates>>
      PROVE  Kept
  <2>1. TypeOK'
    BY <1>5 DEF TypeOK, user
  <2>2. /\ IsFiniteSet(Active') /\ Cardinality(Active') \in Nat
        /\ Cardinality(Active') = Cardinality(Active) - (IF at[w] \in Acting THEN 1 ELSE 0)
    <3>1. at'[w] \notin Acting /\ \A v \in Workers \ {w} : at'[v] = at[v]
      BY <1>5, OneMoves DEF Acting
    <3>. QED
      BY <1>0, <3>1, ActiveStep
  <2>3. Leases' <= Leases \/ at[w] \in Acting
    BY <1>0, <1>5 DEF Leases, Available, Busy
  <2>4. PermissionsCounted'
    BY <1>0, <1>5, <2>2, <2>3 DEF PermissionsCounted
  <2>5. QueuedFirst'
    BY <1>5, WorkersFollow DEF Acting
  <2>. QED
    BY <2>1, <2>4, <2>5
<1>6. ASSUME NEW w \in Workers, RecordSent(w) PROVE Kept
  <2>1. queue' \in [Tries -> Nat] /\ deaths' \in Nat
    BY <1>6 DEF RecordSent, TypeOK, history
  <2>. QED
    BY <1>5, <1>6, <2>1 DEF RecordSent, Done, user, history
<1>7. ASSUME NEW w \in Workers, RecordFailure(w) PROVE Kept
  <2>1. retry[w] \in Tries /\ deaths' \in Nat
    BY <1>7 DEF RecordFailure, TypeOK, history
  <2>2. queue' \in [Tries -> Nat]
    BY <1>7, <2>1, QueueType, NextTry, DeliveryAssumption DEF RecordFailure, TypeOK
  <2>. QED
    BY <1>5, <1>7, <2>1, <2>2 DEF RecordFailure, Done, user, history, Acting
<1>8. ASSUME NEW w \in Workers, DisableConnection(w) PROVE Kept
  <2>1. TypeOK'
    BY <1>8 DEF DisableConnection, TypeOK, history
  <2>2. IsFiniteSet(Active') /\ Cardinality(Active') = Cardinality(Active)
    <3>1. /\ at'[w] \in Acting /\ at[w] \in Acting
          /\ \A v \in Workers \ {w} : at'[v] = at[v]
      BY <1>8, OneMoves DEF DisableConnection, Acting
    <3>. QED
      BY <1>0, <3>1, ActiveStep
  <2>3. Leases' = Leases
    BY <1>8 DEF DisableConnection, Leases, Available, Busy
  <2>4. PermissionsCounted'
    BY <1>0, <1>8, <2>2, <2>3 DEF DisableConnection, PermissionsCounted, history
  <2>5. QueuedFirst'
    BY <1>8, WorkersFollow DEF DisableConnection
  <2>. QED
    BY <2>1, <2>4, <2>5
<1>9. ASSUME NEW w \in Workers, RecordRejection(w) PROVE Kept
  <2>1. queue' \in [Tries -> Nat] /\ deaths' \in Nat
    BY <1>9 DEF RecordRejection, TypeOK, history
  <2>. QED
    BY <1>5, <1>9, <2>1 DEF RecordRejection, Done, user, history, Acting
<1>10. ASSUME NEW w \in Workers, Die(w) PROVE Kept
  <2>1. queue' \in [Tries -> Nat] /\ deaths' \in Nat
    BY <1>10, QueueType DEF Die, TypeOK
  <2>2. at[w] = "record" \/ at[w] \in Acting
    BY <1>10 DEF Die, Acting
  <2>. QED
    BY <1>5, <1>10, <2>1, <2>2 DEF Die, Done, user
<1>11. CASE TestMessage \/ ChangeConnection
  <2>1. TypeOK'
    BY <1>11 DEF TestMessage, ChangeConnection, TypeOK, telegram, history
  <2>. QED
    BY <1>11, <2>1, OthersFollow DEF TestMessage, ChangeConnection, telegram, history
<1>12. CASE FiveMinutes
  <2>1. TypeOK'
    <3>1. queue' \in [Tries -> Nat] /\ parked' \in [Tries -> Nat]
      BY <1>12 DEF FiveMinutes, TypeOK
    <3>2. fresh' \in BOOLEAN
      BY <1>12 DEF FiveMinutes
    <3>3. lapses' \in Nat
      BY <1>0, <1>12 DEF FiveMinutes
    <3>. QED
      BY <1>12, <3>1, <3>2, <3>3 DEF FiveMinutes, TypeOK, user
  <2>2. Active' = Active
    BY <1>12 DEF FiveMinutes, Active
  <2>3. /\ messages' = messages /\ unheard' = unheard
        /\ \/ lapses' = lapses /\ Leases' = Leases
           \/ lapses' = lapses + 1 /\ Leases = 0
    BY <1>12 DEF FiveMinutes, Leases, Available, Busy
  <2>4. PermissionsCounted'
    BY <1>0, <2>2, <2>3 DEF PermissionsCounted
  <2>5. QueuedFirst'
    BY <1>12 DEF FiveMinutes, QueuedFirst, Begun
  <2>. QED
    BY <2>1, <2>4, <2>5
<1>13. CASE Duplicate
  <2>1. TypeOK'
    <3>1. queue' \in [Tries -> Nat]
      BY <1>13, QueueType DEF Duplicate, TypeOK
    <3>. QED
      BY <1>13, <3>1 DEF Duplicate, TypeOK, user
  <2>. QED
    BY <1>13, <2>1, OthersFollow DEF Duplicate
<1>. QED
  BY <1>1, <1>2, <1>3, <1>4, <1>6, <1>7, <1>8, <1>9, <1>10, <1>11, <1>12, <1>13
    DEF Next, WorkerStep

\* What has been counted bounds what arrived.
LEMMA CountedIsBounded == DeliveryInvariant => NoRoutineDuplicate
<1>. SUFFICES ASSUME TypeOK, PermissionsCounted PROVE NoRoutineDuplicate
  BY DEF DeliveryInvariant
<1>1. Cardinality(Active) \in Nat /\ Leases \in {0, 1}
  BY FS_CardinalityType DEF PermissionsCounted, Leases
<1>. QED
  BY <1>1 DEF PermissionsCounted, TypeOK, NoRoutineDuplicate

-----------------------------------------------------------------------------
(* The e-mail.                                                             *)

LettersCounted ==
    /\ emails = undone + (IF marked THEN 1 ELSE 0) + (IF mailer = "commit" THEN 1 ELSE 0)
    /\ marked => mailer = "idle"

EmailInvariant == Email!TypeOK /\ LettersCounted

\* A message taken from the queue or added to it leaves it a queue.
LEMMA LettersType ==
    ASSUME letters \in [Email!Tries -> Nat], NEW r \in Email!Tries
    PROVE  /\ Email!Add(letters, r) \in [Email!Tries -> Nat]
           /\ letters[r] > 0 => [letters EXCEPT ![r] = @ - 1] \in [Email!Tries -> Nat]
BY DEF Email!Add

\* At first no e-mail was sent.
LEMMA InitEmail == Email!Init => EmailInvariant
<1> SUFFICES ASSUME Email!Init PROVE EmailInvariant
  OBVIOUS
<1>1. letters \in [Email!Tries -> Nat]
  <2>1. PICK queued \in 0..1 : letters = [r \in Email!Tries |-> IF r = 0 THEN queued ELSE 0]
    BY DEF Email!Init
  <2> QED
    BY <2>1
<1>2. 0 \in Email!Tries
  BY ChannelsAssumption DEF Email!Tries, Email!EmailAssumption
<1>3. Email!TypeOK
  <2>1. emails \in Nat /\ undone \in Nat /\ again \in Nat /\ losses \in Nat
    BY DEF Email!Init
  <2>2. marked \in BOOLEAN /\ mailer \in {"idle", "send", "commit"} /\ tries \in Email!Tries
    BY <1>2 DEF Email!Init
  <2> QED
    BY <1>1, <2>1, <2>2 DEF Email!TypeOK
<1>4. LettersCounted
  BY DEF Email!Init, LettersCounted
<1> QED
  BY <1>3, <1>4 DEF EmailInvariant

\* A retry puts a letter back, or ends, and leaves the marker alone.
LEMMA RetryKeeps ==
    ASSUME Email!TypeOK, Email!Retry
    PROVE  letters' \in [Email!Tries -> Nat] /\ mailer' = "idle" /\ tries' \in Email!Tries
           /\ marked' = marked
<1>1. tries < MaxRetries => tries + 1 \in Email!Tries
  BY ChannelsAssumption DEF Email!TypeOK, Email!Tries, Email!EmailAssumption
<1>2. 0 \in Email!Tries
  BY ChannelsAssumption DEF Email!Tries, Email!EmailAssumption
<1> QED
  BY <1>1, <1>2, LettersType DEF Email!TypeOK, Email!Retry

\* Every step of the e-mail task keeps the count.
LEMMA StepEmail == EmailInvariant /\ [Email!Next]_emailvars => EmailInvariant'
<1> SUFFICES ASSUME Email!TypeOK, LettersCounted, [Email!Next]_emailvars PROVE EmailInvariant'
  BY DEF EmailInvariant
<1> USE DEF EmailInvariant
<1>0. 0 \in Email!Tries
  BY ChannelsAssumption DEF Email!Tries, Email!EmailAssumption
<1>1. CASE UNCHANGED emailvars
  BY <1>1 DEF emailvars, Email!TypeOK, LettersCounted
<1>2. CASE Email!Open
  <2>1. PICK r \in Email!Tries :
           /\ letters[r] > 0 /\ letters' = [letters EXCEPT ![r] = @ - 1]
           /\ IF marked THEN UNCHANGED <<mailer, tries>> ELSE mailer' = "send" /\ tries' = r
    BY <1>2 DEF Email!Open
  <2>2. letters' \in [Email!Tries -> Nat]
    BY <2>1, LettersType DEF Email!TypeOK
  <2> QED
    BY <1>2, <2>1, <2>2 DEF Email!Open, Email!TypeOK, LettersCounted
<1>3. CASE Email!Send
  BY <1>3, RetryKeeps DEF Email!Send, Email!TypeOK, LettersCounted
<1>4. CASE Email!Commit
  <2>1. CASE /\ marked' = TRUE /\ mailer' = "idle" /\ tries' = 0 /\ UNCHANGED <<letters, undone>>
    BY <1>0, <1>4, <2>1 DEF Email!Commit, Email!TypeOK, LettersCounted
  <2>2. CASE Email!Retry /\ undone' = undone + 1
    <3>1. letters' \in [Email!Tries -> Nat] /\ tries' \in Email!Tries
      BY <2>2, RetryKeeps
    <3> QED
      BY <1>4, <2>2, <3>1 DEF Email!Commit, Email!Retry, Email!TypeOK, LettersCounted
  <2> QED
    BY <1>4, <2>1, <2>2 DEF Email!Commit
<1>5. CASE Email!Die
  BY <1>0, <1>5 DEF Email!Die, Email!TypeOK, LettersCounted
<1>6. CASE Email!Duplicate
  <2>1. letters' \in [Email!Tries -> Nat]
    BY <1>6, LettersType DEF Email!Duplicate, Email!TypeOK
  <2> QED
    BY <1>6, <2>1 DEF Email!Duplicate, Email!TypeOK, LettersCounted
<1> QED
  BY <1>1, <1>2, <1>3, <1>4, <1>5, <1>6 DEF Email!Next

-----------------------------------------------------------------------------
(* The links.                                                              *)

\* Who has a user's row locked found all live sessions of the user, and nobody else
\* has the row.
LockFinds ==
    /\ \A r \in Requests : linking[r] # None => Link!Live(linking[r]) \subseteq replaced[r]
    /\ \A q, r \in Requests : linking[q] # None /\ linking[q] = linking[r] => q = r

\* A session has an owner from its creation on.
BornOwned == \A s \in Sessions : session[s] # "unborn" <=> owner[s] # None

HookHolds == \A s \in Sessions : hook[s] # None => session[s] = "pending"

\* A session from before a disconnect was used or is deleted.
PastIsOver == \A s \in outdated : session[s] \in {"linked", "deleted"}

\* Without a connection there is no session that made it.
MadeByOne == \A u \in Users : connection[u] = None <=> madeBy[u] = None

LinkInvariant ==
    /\ Link!TypeOK /\ LockFinds /\ BornOwned /\ HookHolds /\ PastIsOver /\ MadeByOne
    /\ Link!OneLiveLink /\ Link!ConnectedByOwnLink

\* At first nobody is connected.
LEMMA InitLink == Link!Init => LinkInvariant
BY ChannelsAssumption DEF Link!Init, LinkInvariant, Link!TypeOK, LockFinds, BornOwned, HookHolds,
  PastIsOver, MadeByOne, Link!OneLiveLink, Link!ConnectedByOwnLink, Link!Live, Link!SessionStates,
  Link!LinkAssumption, Link!Others

\* What a session is to its user does not change but for the session that is new.
LEMMA StepLinkTypes == LinkInvariant /\ [Link!Next]_linkvars => Link!TypeOK'
<1> SUFFICES ASSUME Link!TypeOK, BornOwned, HookHolds, [Link!Next]_linkvars PROVE Link!TypeOK'
  BY DEF LinkInvariant
<1> USE DEF Link!TypeOK, Link!SessionStates
<1>1. CASE UNCHANGED linkvars
  BY <1>1 DEF linkvars
<1>2. ASSUME NEW r \in Requests, NEW u \in Users, Link!OpenLink(r, u) PROVE Link!TypeOK'
  BY <1>2 DEF Link!OpenLink, Link!Live, Link!rows
<1>3. ASSUME NEW r \in Requests, Link!CommitLink(r) PROVE Link!TypeOK'
  BY <1>3, ChannelsAssumption DEF Link!CommitLink, Link!LinkAssumption
<1>4. ASSUME NEW s \in Sessions, Link!Expire(s) PROVE Link!TypeOK'
  BY <1>4 DEF Link!Expire
<1>5. ASSUME NEW s \in Sessions, NEW chat \in Chats, Link!TakeToken(s, chat) PROVE Link!TypeOK'
  BY <1>5 DEF Link!TakeToken
<1>6. ASSUME NEW s \in Sessions, Link!Connect(s) PROVE Link!TypeOK'
  <2>1. owner[s] \in Users /\ hook[s] \in Chats
    BY <1>6 DEF Link!Connect, HookHolds, BornOwned
  <2> QED
    BY <1>6, <2>1 DEF Link!Connect
<1>7. ASSUME NEW u \in Users, Link!OpenDisconnect(u) PROVE Link!TypeOK'
  BY <1>7 DEF Link!OpenDisconnect, Link!rows
<1>8. ASSUME NEW u \in Users, Link!CommitDisconnect(u) PROVE Link!TypeOK'
  BY <1>8 DEF Link!CommitDisconnect
<1>9. ASSUME NEW u \in Users, Link!BreakDeadlock(u) PROVE Link!TypeOK'
  BY <1>9 DEF Link!BreakDeadlock, Link!rows
<1>10. ASSUME NEW u \in Users, Link!ReadPreferences(u) \/ Link!LeaveWorkspace(u) PROVE Link!TypeOK'
  BY <1>10 DEF Link!ReadPreferences, Link!LeaveWorkspace
<1> QED
  BY <1>1, <1>2, <1>3, <1>4, <1>5, <1>6, <1>7, <1>8, <1>9, <1>10
    DEF Link!Next, Link!WebhookStep, Link!UserStep

\* Each link request, webhook and disconnect keeps what holds of sessions and connections.
LEMMA StepLink == LinkInvariant /\ [Link!Next]_linkvars => LinkInvariant'
<1> SUFFICES ASSUME LinkInvariant, [Link!Next]_linkvars, Link!TypeOK' PROVE LinkInvariant'
  BY StepLinkTypes
<1> DEFINE Sessional == LockFinds /\ BornOwned /\ HookHolds /\ PastIsOver
           Connected == MadeByOne /\ Link!ConnectedByOwnLink
<1> USE DEF LinkInvariant, Link!TypeOK
<1>1. CASE UNCHANGED linkvars
  BY <1>1 DEF linkvars, LockFinds, BornOwned, HookHolds, PastIsOver, MadeByOne, Link!OneLiveLink,
    Link!ConnectedByOwnLink, Link!Live, Link!Others
<1>2. ASSUME NEW r \in Requests, NEW u \in Users, Link!OpenLink(r, u) PROVE LinkInvariant'
  <2>1. LockFinds'
    BY <1>2 DEF Link!OpenLink, Link!rows, LockFinds, Link!Live
  <2>2. (BornOwned /\ HookHolds /\ PastIsOver /\ MadeByOne)'
    BY <1>2 DEF Link!OpenLink, Link!rows, BornOwned, HookHolds, PastIsOver, MadeByOne
  <2>3. (Link!OneLiveLink /\ Link!ConnectedByOwnLink)'
    BY <1>2 DEF Link!OpenLink, Link!rows, Link!OneLiveLink, Link!ConnectedByOwnLink, Link!Live,
      Link!Others
  <2> QED
    BY <2>1, <2>2, <2>3
<1>3. ASSUME NEW r \in Requests, Link!CommitLink(r) PROVE LinkInvariant'
  <2>0. PICK u \in Users : u = linking[r]
    BY <1>3 DEF Link!CommitLink
  <2>1. PICK new \in Sessions :
          /\ session[new] = "unborn"
          /\ session' = [s \in Sessions |->
                IF s = new THEN "pending"
                ELSE IF s \in replaced[r] /\ session[s] = "pending" THEN "cancelled"
                ELSE session[s]]
          /\ owner' = [owner EXCEPT ![new] = linking[r]]
    BY <1>3 DEF Link!CommitLink
  <2>2. owner[new] = None
    BY <2>1 DEF BornOwned
    <2>3. Link!Live(u)' \subseteq {new}
    <3>1. Link!Live(u) \subseteq replaced[r]
      BY <1>3, <2>0 DEF Link!CommitLink, LockFinds
    <3>2. \A s \in Sessions \ {new} : owner[s] = u /\ session[s] = "pending" => s \in replaced[r]
      BY <3>1 DEF Link!Live
    <3>3. \A s \in Sessions \ {new} : ~(owner'[s] = u /\ session'[s] = "pending")
      BY <2>1, <3>2
    <3> QED
      BY <3>3 DEF Link!Live
  <2>4. \A v \in Users \ {u} : Link!Live(v)' \subseteq Link!Live(v)
    BY <2>0, <2>1, <2>2 DEF Link!Live
  <2>5. LockFinds'
    BY <1>3, <2>0, <2>4 DEF Link!CommitLink, LockFinds
  <2>6. BornOwned' /\ HookHolds'
    BY <1>3, <2>0, <2>1, ChannelsAssumption DEF Link!CommitLink, BornOwned, HookHolds,
      Link!LinkAssumption
  <2>7. PastIsOver' /\ MadeByOne'
    BY <1>3, <2>1 DEF Link!CommitLink, PastIsOver, MadeByOne
  <2>8. Link!OneLiveLink'
    <3> SUFFICES ASSUME NEW v \in Users PROVE (\A s, t \in Link!Live(v) : s = t)'
      BY DEF Link!OneLiveLink
    <3>1. \A s, t \in Link!Live(v) : s = t
      BY DEF Link!OneLiveLink
    <3> QED
      BY <2>3, <2>4, <3>1
  <2>9. Link!ConnectedByOwnLink'
    BY <1>3, <2>1 DEF Link!CommitLink, Link!ConnectedByOwnLink, Link!Others
  <2> QED
    BY <2>5, <2>6, <2>7, <2>8, <2>9
<1>4. ASSUME NEW s \in Sessions, Link!Expire(s) PROVE LinkInvariant'
  <2>1. \A u \in Users : Link!Live(u)' \subseteq Link!Live(u)
    BY <1>4 DEF Link!Expire, Link!Live
  <2>2. LockFinds' /\ Link!OneLiveLink'
    BY <1>4, <2>1 DEF Link!Expire, LockFinds, Link!OneLiveLink
  <2>3. (BornOwned /\ HookHolds /\ PastIsOver /\ MadeByOne)'
    BY <1>4 DEF Link!Expire, BornOwned, HookHolds, PastIsOver, MadeByOne
  <2>4. Link!ConnectedByOwnLink'
    BY <1>4 DEF Link!Expire, Link!ConnectedByOwnLink, Link!Others
  <2> QED
    BY <2>2, <2>3, <2>4
<1>5. ASSUME NEW s \in Sessions, NEW chat \in Chats, Link!TakeToken(s, chat) PROVE LinkInvariant'
  <2>1. \A u \in Users : Link!Live(u)' \subseteq Link!Live(u)
    BY <1>5 DEF Link!TakeToken, Link!Live
  <2>2. LockFinds' /\ Link!OneLiveLink'
    BY <1>5, <2>1 DEF Link!TakeToken, LockFinds, Link!OneLiveLink
  <2>3. (BornOwned /\ HookHolds /\ PastIsOver /\ MadeByOne)'
    BY <1>5 DEF Link!TakeToken, BornOwned, HookHolds, PastIsOver, MadeByOne
  <2>4. Link!ConnectedByOwnLink'
    BY <1>5 DEF Link!TakeToken, Link!ConnectedByOwnLink, Link!Others
  <2> QED
    BY <2>2, <2>3, <2>4
<1>6. ASSUME NEW s \in Sessions, Link!Connect(s) PROVE LinkInvariant'
  <2>0. session[s] = "pending" /\ owner[s] \in Users /\ hook[s] \in Chats /\ s \notin outdated
    BY <1>6 DEF Link!Connect, HookHolds, BornOwned, PastIsOver
  <2>1. \A u \in Users : Link!Live(u)' \subseteq Link!Live(u)
    BY <1>6 DEF Link!Connect, Link!Live
  <2>2. LockFinds' /\ Link!OneLiveLink'
    BY <1>6, <2>1 DEF Link!Connect, LockFinds, Link!OneLiveLink
  <2>3. (BornOwned /\ HookHolds /\ PastIsOver)'
    BY <1>6, <2>0 DEF Link!Connect, BornOwned, HookHolds, PastIsOver
  <2>4. MadeByOne'
    BY <1>6, <2>0, ChannelsAssumption DEF Link!Connect, MadeByOne, Link!LinkAssumption
  <2>5. Link!ConnectedByOwnLink'
    <3>1. CASE UNCHANGED <<connection, madeBy>>
      BY <1>6, <2>0, <3>1 DEF Link!Connect, Link!ConnectedByOwnLink, Link!Others
    <3>2. CASE /\ Link!Others(owner[s], hook[s]) = {}
               /\ connection' = [connection EXCEPT ![owner[s]] = hook[s]]
               /\ session' = [session EXCEPT ![s] = "linked"]
               /\ madeBy' = [madeBy EXCEPT ![owner[s]] = s]
      <4> SUFFICES ASSUME NEW u \in Users, connection'[u] # None
                   PROVE  /\ madeBy'[u] \in Sessions \ outdated
                          /\ owner[madeBy'[u]] = u /\ session'[madeBy'[u]] = "linked"
                          /\ \A v \in Users \ {u} : connection'[v] # connection'[u]
                          /\ \A v \in Users \ {u} : madeBy'[v] # madeBy'[u]
        BY <1>6 DEF Link!Connect, Link!ConnectedByOwnLink, Link!Others
      <4>1. \A v \in Users : connection[v] # None =>
               /\ madeBy[v] \in Sessions \ outdated /\ owner[madeBy[v]] = v
               /\ session[madeBy[v]] = "linked"
               /\ \A x \in Users \ {v} : connection[x] # connection[v] /\ madeBy[x] # madeBy[v]
        BY DEF Link!ConnectedByOwnLink, Link!Others
      <4>2. \A v \in Users \ {owner[s]} : connection[v] # hook[s]
        BY <3>2 DEF Link!Others
      <4>3. \A v \in Users : madeBy[v] # s
        BY <2>0, <4>1, ChannelsAssumption DEF MadeByOne, Link!LinkAssumption
      <4>4. CASE u = owner[s]
        BY <2>0, <3>2, <4>2, <4>3, <4>4
      <4>5. CASE u # owner[s]
        BY <2>0, <3>2, <4>1, <4>2, <4>3, <4>5
      <4> QED
        BY <4>4, <4>5
    <3> QED
      BY <1>6, <3>1, <3>2 DEF Link!Connect
  <2> QED
    BY <2>2, <2>3, <2>4, <2>5
<1>7. ASSUME NEW u \in Users, Link!OpenDisconnect(u) PROVE LinkInvariant'
  BY <1>7 DEF Link!OpenDisconnect, Link!rows, LockFinds, BornOwned, HookHolds, PastIsOver,
    MadeByOne, Link!OneLiveLink, Link!ConnectedByOwnLink, Link!Live, Link!Others
<1>8. ASSUME NEW u \in Users, Link!CommitDisconnect(u) PROVE LinkInvariant'
  <2>0. \A s \in Sessions : owner[s] = u => hook[s] = None
    BY <1>8 DEF Link!CommitDisconnect, Link!Held
  <2>1. \A v \in Users : Link!Live(v)' \subseteq Link!Live(v)
    BY <1>8 DEF Link!CommitDisconnect, Link!Live
  <2>2. LockFinds' /\ Link!OneLiveLink'
    BY <1>8, <2>1 DEF Link!CommitDisconnect, LockFinds, Link!OneLiveLink
  <2>3. HookHolds'
    BY <1>8, <2>0 DEF Link!CommitDisconnect, HookHolds
  <2>4. BornOwned' /\ PastIsOver'
    BY <1>8, ChannelsAssumption DEF Link!CommitDisconnect, BornOwned, PastIsOver, Link!LinkAssumption
  <2>5. MadeByOne'
    BY <1>8 DEF Link!CommitDisconnect, MadeByOne
  <2>6. Link!ConnectedByOwnLink'
    <3> SUFFICES ASSUME NEW v \in Users, connection'[v] # None
                 PROVE  /\ madeBy'[v] \in Sessions \ outdated'
                        /\ owner[madeBy'[v]] = v /\ session'[madeBy'[v]] = "linked"
                        /\ \A x \in Users \ {v} : connection'[x] # connection'[v]
                        /\ \A x \in Users \ {v} : madeBy'[x] # madeBy'[v]
      BY <1>8 DEF Link!CommitDisconnect, Link!ConnectedByOwnLink, Link!Others
    <3>1. v # u /\ connection'[v] = connection[v] /\ madeBy'[v] = madeBy[v]
      BY <1>8 DEF Link!CommitDisconnect
    <3>2. /\ madeBy[v] \in Sessions \ outdated /\ owner[madeBy[v]] = v
          /\ session[madeBy[v]] = "linked"
          /\ \A x \in Users \ {v} : connection[x] # connection[v] /\ madeBy[x] # madeBy[v]
      BY <3>1 DEF Link!ConnectedByOwnLink, Link!Others
    <3> QED
      BY <1>8, <3>1, <3>2, ChannelsAssumption DEF Link!CommitDisconnect, Link!LinkAssumption
  <2> QED
    BY <2>2, <2>3, <2>4, <2>5, <2>6
<1>9. ASSUME NEW u \in Users, Link!BreakDeadlock(u) PROVE LinkInvariant'
  BY <1>9 DEF Link!BreakDeadlock, Link!rows, LockFinds, BornOwned, HookHolds, PastIsOver,
    MadeByOne, Link!OneLiveLink, Link!ConnectedByOwnLink, Link!Live, Link!Others
<1>10. ASSUME NEW u \in Users, Link!ReadPreferences(u) \/ Link!LeaveWorkspace(u)
       PROVE  LinkInvariant'
  BY <1>10 DEF Link!ReadPreferences, Link!LeaveWorkspace, LockFinds, BornOwned, HookHolds,
    PastIsOver, MadeByOne, Link!OneLiveLink, Link!ConnectedByOwnLink, Link!Live, Link!Others
<1> QED
  BY <1>1, <1>2, <1>3, <1>4, <1>5, <1>6, <1>7, <1>8, <1>9, <1>10
    DEF Link!Next, Link!WebhookStep, Link!UserStep

-----------------------------------------------------------------------------
(* A crawl's pages, the entry in hand and the queue, as data: `done` are records of *)
(* pages, `hand` is {} or an entry, `rest` the queue.                               *)

\* Depths only grow, by one at most in the queue, and stay within the limit.
DepthsGrow(done, hand, rest) ==
    /\ \A i \in DOMAIN done : \A j \in DOMAIN rest : done[i].depth <= rest[j][2]
    /\ \A i, j \in DOMAIN rest : /\ i < j => rest[i][2] <= rest[j][2]
                                 /\ rest[j][2] <= rest[i][2] + 1
    /\ \A j \in DOMAIN rest : rest[j][2] <= MaxDepth
    /\ \A e \in hand : /\ \A i \in DOMAIN done : done[i].depth <= e[2]
                       /\ \A j \in DOMAIN rest : e[2] <= rest[j][2] /\ rest[j][2] <= e[2] + 1
                       /\ e[2] <= MaxDepth

\* What is known has one record or is in hand, and nothing else does.
KnownOnce(done, hand, known) ==
    /\ \A i \in DOMAIN done : done[i].asked \in known
    /\ \A e \in hand : e[1] \in known /\ \A i \in DOMAIN done : done[i].asked # e[1]
    /\ \A url \in known : \/ \E i \in DOMAIN done : done[i].asked = url
                          \/ \E e \in hand : e[1] = url
    /\ \A i, j \in DOMAIN done : done[i].asked = done[j].asked => i = j

\* An address that is visited, or will be, at this depth or above.
Found(url, depth, done, hand, rest) ==
    \/ \E i \in DOMAIN done : done[i].asked = url /\ done[i].depth <= depth
    \/ \E e \in hand : e[1] = url /\ e[2] <= depth
    \/ \E j \in DOMAIN rest : rest[j][1] = url /\ rest[j][2] <= depth

Addresses == DOMAIN site.links
Entries == Addresses \X Nat
Records == [asked : Addresses, depth : Nat, result : {"refused", "failed", "read"},
            url : Addresses, duplicate : BOOLEAN, original : Addresses]

CrawlTypes ==
    /\ site \in Sites /\ crawling \in [Crawls -> W!Points]
    /\ unread \in [Crawls -> Seq(Seq(Addresses))] /\ listed \in [Crawls -> SUBSET Addresses]
    /\ frontier \in [Crawls -> Seq(Entries)] /\ seen \in [Crawls -> SUBSET Addresses]
    /\ pages \in [Crawls -> Seq(Records)] /\ visiting \in [Crawls -> Entries]
    /\ hops \in [Crawls -> Seq(Addresses \cup {Elsewhere})]
    /\ cached \subseteq Addresses \X (Addresses \cup {Elsewhere})

Hand(c) == IF crawling[c] \in {"slot", "fetch"} THEN {visiting[c]} ELSE {}
FoundBy(c, url, depth) == Found(url, depth, pages[c], Hand(c), frontier[c])

BeginsOK(c) ==
    /\ crawling[c] = "new" => frontier[c] = <<>> /\ listed[c] = {}
    /\ crawling[c] \in {"new", "sitemap"} =>
          /\ pages[c] = <<>> /\ seen[c] = {} /\ \A j \in DOMAIN frontier[c] : frontier[c][j][2] = 0

SourcesOK(c) ==
    crawling[c] \notin {"new", "refused"} =>
        \A url \in listed[c] \cup {site.start} : FoundBy(c, url, 0)

LinksFound(c) ==
    \A i \in DOMAIN pages[c] :
        LET p == pages[c][i] IN
        p.result = "read" /\ ~p.duplicate /\ p.depth < MaxDepth =>
            \A n \in DOMAIN site.links[p.url] : FoundBy(c, site.links[p.url][n], p.depth + 1)

DuplicatesOK(c) ==
    \A i \in DOMAIN pages[c] : pages[c][i].duplicate =>
        \E j \in 1..i - 1 : /\ pages[c][j].url = pages[c][i].original /\ ~pages[c][j].duplicate
                            /\ site.text[pages[c][i].original] = site.text[pages[c][i].url]

CrawlOK(c) ==
    /\ DepthsGrow(pages[c], Hand(c), frontier[c]) /\ KnownOnce(pages[c], Hand(c), seen[c])
    /\ BeginsOK(c) /\ SourcesOK(c) /\ LinksFound(c) /\ DuplicatesOK(c)

CrawlInvariant == CrawlTypes /\ \A c \in Crawls : CrawlOK(c)
-----------------------------------------------------------------------------
\* The depths of the entries and of the records are natural numbers.
LEMMA DepthsAreNat ==
    /\ MaxDepth \in Nat
    /\ \A rest \in Seq(Entries) : \A j \in DOMAIN rest : rest[j] \in Entries /\ rest[j][2] \in Nat
    /\ \A done \in Seq(Records) : \A i \in DOMAIN done :
          done[i] \in Records /\ done[i].depth \in Nat
<1>1. MaxDepth \in Nat
  BY OutsideAssumption DEF W!CrawlAssumption
<1>2. ASSUME NEW rest \in Seq(Entries), NEW j \in DOMAIN rest
      PROVE  rest[j] \in Entries /\ rest[j][2] \in Nat
  <2>1. rest[j] \in Entries
    OBVIOUS
  <2> QED
    BY <2>1 DEF Entries
<1>3. ASSUME NEW done \in Seq(Records), NEW i \in DOMAIN done
      PROVE  done[i] \in Records /\ done[i].depth \in Nat
  <2>1. done[i] \in Records
    OBVIOUS
  <2> QED
    BY <2>1 DEF Records
<1> QED
  BY <1>1, <1>2, <1>3

\* The next entry is passed over when it is known, and is in hand when it is not.
LEMMA TakeEntry ==
    ASSUME NEW done \in Seq(Records), NEW rest \in Seq(Entries), NEW known, rest # <<>>,
           DepthsGrow(done, {}, rest), KnownOnce(done, {}, known)
    PROVE  LET e == Head(rest)
               more == Tail(rest)
           IN  /\ e \in Entries /\ more \in Seq(Entries) /\ e[2] <= MaxDepth
               /\ e[1] \in known =>
                     /\ DepthsGrow(done, {}, more) /\ KnownOnce(done, {}, known)
                     /\ \A url \in Addresses : \A depth \in Nat :
                           Found(url, depth, done, {}, rest) => Found(url, depth, done, {}, more)
               /\ e[1] \notin known =>
                     /\ DepthsGrow(done, {e}, more) /\ KnownOnce(done, {e}, known \cup {e[1]})
                     /\ \A url \in Addresses : \A depth \in Nat :
                           Found(url, depth, done, {}, rest) => Found(url, depth, done, {e}, more)
<1> DEFINE e == Head(rest)
           more == Tail(rest)
<1>1. /\ e = rest[1] /\ e \in Entries /\ more \in Seq(Entries) /\ 1 \in DOMAIN rest
      /\ \A j \in DOMAIN more : j + 1 \in DOMAIN rest /\ more[j] = rest[j + 1] /\ 1 < j + 1
      /\ \A j \in DOMAIN rest : j = 1 \/ (j - 1 \in DOMAIN more /\ more[j - 1] = rest[j])
      /\ \A i, j \in DOMAIN more : i < j => i + 1 < j + 1
  OBVIOUS
<1>2. /\ \A j \in DOMAIN rest : rest[j][2] \in Nat
      /\ \A i \in DOMAIN done : done[i].depth \in Nat
      /\ MaxDepth \in Nat
  BY DepthsAreNat
<1> HIDE DEF e, more
<1>3. DepthsGrow(done, {}, more)
  BY <1>1 DEF DepthsGrow
<1>4. e[2] <= MaxDepth
  BY <1>1 DEF DepthsGrow
<1>5. ASSUME e[1] \in known, NEW url \in Addresses, NEW depth \in Nat,
             Found(url, depth, done, {}, rest)
      PROVE  Found(url, depth, done, {}, more)
  <2>1. CASE \E i \in DOMAIN done : done[i].asked = url /\ done[i].depth <= depth
    BY <2>1 DEF Found
  <2>2. ASSUME NEW j \in DOMAIN rest, rest[j][1] = url, rest[j][2] <= depth
        PROVE  Found(url, depth, done, {}, more)
    <3>1. CASE j = 1
      <4>1. PICK i \in DOMAIN done : done[i].asked = url
        BY <1>1, <1>5, <2>2, <3>1 DEF KnownOnce
      <4>2. done[i].depth <= rest[1][2]
        BY <1>1 DEF DepthsGrow
      <4> QED
        BY <1>1, <1>2, <2>2, <3>1, <4>1, <4>2 DEF Found
    <3>2. CASE j # 1
      BY <1>1, <2>2, <3>2 DEF Found
    <3> QED
      BY <3>1, <3>2
  <2> QED
    BY <1>5, <2>1, <2>2 DEF Found
<1>6. ASSUME e[1] \notin known
      PROVE  DepthsGrow(done, {e}, more) /\ KnownOnce(done, {e}, known \cup {e[1]})
  <2>1. \A i \in DOMAIN done : done[i].depth <= e[2]
    BY <1>1 DEF DepthsGrow
  <2>2. \A j \in DOMAIN more : e[2] <= more[j][2] /\ more[j][2] <= e[2] + 1
    BY <1>1 DEF DepthsGrow
  <2>3. DepthsGrow(done, {e}, more)
    BY <1>3, <1>4, <2>1, <2>2 DEF DepthsGrow
  <2>4. KnownOnce(done, {e}, known \cup {e[1]})
    BY <1>6 DEF KnownOnce
  <2> QED
    BY <2>3, <2>4
<1>7. ASSUME NEW url \in Addresses, NEW depth \in Nat, Found(url, depth, done, {}, rest)
      PROVE  Found(url, depth, done, {e}, more)
  BY <1>1, <1>7 DEF Found
<1>8. KnownOnce(done, {}, known)
  OBVIOUS
<1> QED
  BY <1>1, <1>3, <1>4, <1>5, <1>6, <1>7, <1>8 DEF e, more

\* The entry in hand becomes a record.
LEMMA PutPage ==
    ASSUME NEW done \in Seq(Records), NEW rest \in Seq(Entries), NEW known, NEW e \in Entries,
           DepthsGrow(done, {e}, rest), KnownOnce(done, {e}, known),
           NEW r \in Records, r.asked = e[1], r.depth = e[2]
    PROVE  /\ DepthsGrow(Append(done, r), {}, rest) /\ KnownOnce(Append(done, r), {}, known)
           /\ \A url \in Addresses : \A depth \in Nat :
                 Found(url, depth, done, {e}, rest) => Found(url, depth, Append(done, r), {}, rest)
<1> DEFINE more == Append(done, r)
           last == Len(done) + 1
<1>1. /\ more[last] = r /\ DOMAIN more = DOMAIN done \cup {last} /\ last \notin DOMAIN done
      /\ \A i \in DOMAIN done : more[i] = done[i]
  OBVIOUS
<1> HIDE DEF more, last
<1>2. DepthsGrow(more, {}, rest)
  BY <1>1 DEF DepthsGrow
<1>3. KnownOnce(more, {}, known)
  <2>1. \A i \in DOMAIN more : more[i].asked \in known
    BY <1>1 DEF KnownOnce
  <2>2. \A url \in known : \E i \in DOMAIN more : more[i].asked = url
    <3> TAKE url \in known
    <3>1. CASE e[1] = url
      BY <1>1, <3>1
    <3>2. CASE \E i \in DOMAIN done : done[i].asked = url
      BY <1>1, <3>2
    <3> QED
      BY <3>1, <3>2 DEF KnownOnce
  <2>3. \A i, j \in DOMAIN more : more[i].asked = more[j].asked => i = j
    BY <1>1 DEF KnownOnce
  <2> QED
    BY <2>1, <2>2, <2>3 DEF KnownOnce
<1>4. ASSUME NEW url \in Addresses, NEW depth \in Nat, Found(url, depth, done, {e}, rest)
      PROVE  Found(url, depth, more, {}, rest)
  <2>1. CASE \E i \in DOMAIN done : done[i].asked = url /\ done[i].depth <= depth
    BY <1>1, <2>1 DEF Found
  <2>2. CASE e[1] = url /\ e[2] <= depth
    BY <1>1, <2>2 DEF Found
  <2>3. CASE \E j \in DOMAIN rest : rest[j][1] = url /\ rest[j][2] <= depth
    BY <2>3 DEF Found
  <2> QED
    BY <1>4, <2>1, <2>2, <2>3 DEF Found
<1> QED
  BY <1>2, <1>3, <1>4 DEF more

\* Entries one level below the one in hand go to the end of the queue.
LEMMA AddEntries ==
    ASSUME NEW done \in Seq(Records), NEW rest \in Seq(Entries), NEW e \in Entries,
           DepthsGrow(done, {e}, rest), e[2] < MaxDepth,
           NEW new \in Seq(Entries), \A n \in DOMAIN new : new[n][2] = e[2] + 1
    PROVE  /\ DepthsGrow(done, {e}, rest \o new)
           /\ \A url \in Addresses : \A depth \in Nat :
                 Found(url, depth, done, {e}, rest) => Found(url, depth, done, {e}, rest \o new)
           /\ \A n \in DOMAIN new : Found(new[n][1], e[2] + 1, done, {e}, rest \o new)
<1> DEFINE more == rest \o new
<1>9. more \in Seq(Entries) /\ Len(more) = Len(rest) + Len(new)
  OBVIOUS
<1>10. \A j \in 1..Len(more) : more[j] = IF j <= Len(rest) THEN rest[j] ELSE new[j - Len(rest)]
  OBVIOUS
<1> HIDE DEF more
<1>11. /\ DOMAIN more = 1..Len(more) /\ DOMAIN rest = 1..Len(rest) /\ DOMAIN new = 1..Len(new)
       /\ Len(rest) \in Nat /\ Len(new) \in Nat /\ DOMAIN more \subseteq Nat
  BY <1>9
<1>1. /\ \A j \in DOMAIN rest : j \in DOMAIN more /\ more[j] = rest[j]
      /\ \A n \in DOMAIN new : n + Len(rest) \in DOMAIN more /\ more[n + Len(rest)] = new[n]
      /\ \A j \in DOMAIN more :
            \/ j \in DOMAIN rest /\ j <= Len(rest)
            \/ j - Len(rest) \in DOMAIN new /\ more[j] = new[j - Len(rest)] /\ j > Len(rest)
  <2>4. \A j \in DOMAIN rest : j \in DOMAIN more /\ more[j] = rest[j]
    BY <1>9, <1>10, <1>11
  <2>5. \A n \in DOMAIN new : n + Len(rest) \in DOMAIN more /\ more[n + Len(rest)] = new[n]
    BY <1>9, <1>10, <1>11
  <2>6. \A j \in DOMAIN more :
            \/ j \in DOMAIN rest /\ j <= Len(rest)
            \/ j - Len(rest) \in DOMAIN new /\ more[j] = new[j - Len(rest)] /\ j > Len(rest)
    BY <1>9, <1>10, <1>11
  <2> QED
    BY <2>4, <2>5, <2>6
<1>2. /\ \A j \in DOMAIN rest : rest[j][2] \in Nat
      /\ \A i \in DOMAIN done : done[i].depth \in Nat
      /\ e[2] \in Nat /\ MaxDepth \in Nat /\ Len(rest) \in Nat
  BY DepthsAreNat DEF Entries
<1>3. \A j \in DOMAIN more : /\ e[2] <= more[j][2] /\ more[j][2] <= e[2] + 1
                             /\ more[j][2] \in Nat /\ (j > Len(rest) => more[j][2] = e[2] + 1)
  <2> TAKE j \in DOMAIN more
  <2>1. CASE j \in DOMAIN rest /\ j <= Len(rest)
    <3>1. e[2] <= rest[j][2] /\ rest[j][2] <= e[2] + 1
      BY <2>1 DEF DepthsGrow
    <3> QED
      BY <1>1, <1>2, <1>11, <2>1, <3>1
  <2>2. CASE j - Len(rest) \in DOMAIN new /\ more[j] = new[j - Len(rest)] /\ j > Len(rest)
    <3>1. more[j][2] = e[2] + 1
      BY <2>2
    <3> QED
      BY <1>2, <3>1
  <2> QED
    BY <1>1, <2>1, <2>2
<1>4. \A i, j \in DOMAIN more : i < j => more[i][2] <= more[j][2]
  <2> SUFFICES ASSUME NEW i \in DOMAIN more, NEW j \in DOMAIN more, i < j
               PROVE  more[i][2] <= more[j][2]
    OBVIOUS
  <2>1. CASE j > Len(rest)
    BY <1>3, <2>1
  <2>2. CASE j <= Len(rest)
    <3>1. i \in DOMAIN rest /\ j \in DOMAIN rest
      BY <1>1, <1>2, <1>11, <2>2
    <3> QED
      BY <1>1, <3>1 DEF DepthsGrow
  <2> QED
    BY <1>2, <1>11, <2>1, <2>2
<1>5. \A i, j \in DOMAIN more : more[j][2] <= more[i][2] + 1
  BY <1>2, <1>3
<1>6. DepthsGrow(done, {e}, more)
  <2>1. \A i \in DOMAIN done : done[i].depth <= e[2]
    BY DEF DepthsGrow
  <2>2. \A i \in DOMAIN done : \A j \in DOMAIN more : done[i].depth <= more[j][2]
    BY <1>2, <1>3, <2>1
  <2>3. \A j \in DOMAIN more : more[j][2] <= MaxDepth
    BY <1>2, <1>3
  <2> QED
    BY <1>2, <1>3, <1>4, <1>5, <2>1, <2>2, <2>3 DEF DepthsGrow
<1>7. ASSUME NEW url \in Addresses, NEW depth \in Nat, Found(url, depth, done, {e}, rest)
      PROVE  Found(url, depth, done, {e}, more)
  BY <1>1, <1>7 DEF Found
<1>8. \A n \in DOMAIN new : Found(new[n][1], e[2] + 1, done, {e}, more)
  <2> TAKE n \in DOMAIN new
  <2>1. n + Len(rest) \in DOMAIN more /\ more[n + Len(rest)] = new[n] /\ new[n][2] <= e[2] + 1
    BY <1>1, <1>2
  <2> QED
    BY <2>1 DEF Found
<1> QED
  BY <1>6, <1>7, <1>8 DEF more

\* What a site is made of.
LEMMA SiteTypes ==
    ASSUME CrawlTypes
    PROVE  /\ site.start \in Addresses /\ site.sitemaps \in Seq(Seq(Addresses))
           /\ site.links \in [Addresses -> Seq(Addresses)]
           /\ site.moved \in [Addresses -> Addresses \cup {Elsewhere}]
<1>1. W!IsSite(site)
  BY OutsideAssumption DEF W!CrawlAssumption, CrawlTypes
<1> QED
  BY <1>1 DEF W!IsSite, Addresses

\* A crawl that has not begun knows nothing.
LEMMA InitCrawl == W!Init => CrawlInvariant
<1> SUFFICES ASSUME W!Init PROVE CrawlInvariant
  OBVIOUS
<1>1. CrawlTypes
  <2>1. site \in Sites
    BY DEF W!Init
  <2>2. W!IsSite(site)
    BY <2>1, OutsideAssumption DEF W!CrawlAssumption
  <2>3. site.start \in Addresses
    BY <2>2 DEF W!IsSite, Addresses
  <2> QED
    BY <2>1, <2>3 DEF W!Init, CrawlTypes, W!Points, Entries
<1>2. ASSUME NEW c \in Crawls PROVE CrawlOK(c)
  <2>1. /\ pages[c] = <<>> /\ frontier[c] = <<>> /\ seen[c] = {} /\ listed[c] = {}
        /\ Hand(c) = {} /\ crawling[c] = "new"
    BY DEF W!Init, Hand
  <2> QED
    BY <2>1 DEF CrawlOK, DepthsGrow, KnownOnce, BeginsOK, SourcesOK, LinksFound, DuplicatesOK
<1> QED
  BY <1>1, <1>2 DEF CrawlInvariant

\* A crawl's own part of the state is untouched by what another crawl does.
Same(c) ==
    /\ crawling'[c] = crawling[c] /\ frontier'[c] = frontier[c] /\ seen'[c] = seen[c]
    /\ pages'[c] = pages[c] /\ visiting'[c] = visiting[c] /\ listed'[c] = listed[c]

\* A crawl of which nothing changed keeps what holds of it.
LEMMA SameCrawl ==
    ASSUME CrawlInvariant, NEW c \in Crawls, Same(c), site' = site
    PROVE  CrawlOK(c)'
<1>1. CrawlOK(c)
  BY DEF CrawlInvariant
<1>2. Hand(c)' = Hand(c)
  BY DEF Hand, Same
<1>3. /\ DepthsGrow(pages[c], Hand(c), frontier[c])' /\ KnownOnce(pages[c], Hand(c), seen[c])'
      /\ BeginsOK(c)' /\ DuplicatesOK(c)'
  <2>1. DepthsGrow(pages[c], Hand(c), frontier[c])'
    BY <1>1, <1>2 DEF Same, CrawlOK, DepthsGrow
  <2>2. KnownOnce(pages[c], Hand(c), seen[c])'
    BY <1>1, <1>2 DEF Same, CrawlOK, KnownOnce
  <2>3. BeginsOK(c)'
    BY <1>1, <1>2 DEF Same, CrawlOK, BeginsOK
  <2>4. DuplicatesOK(c)'
    BY <1>1, <1>2 DEF Same, CrawlOK, DuplicatesOK
  <2> QED
    BY <2>1, <2>2, <2>3, <2>4
<1>4. SourcesOK(c)' /\ LinksFound(c)'
  <2>1. SourcesOK(c)'
    BY <1>1, <1>2 DEF Same, CrawlOK, SourcesOK, FoundBy, Found
  <2>2. LinksFound(c)'
    BY <1>1, <1>2 DEF Same, CrawlOK, LinksFound, FoundBy, Found
  <2> QED
    BY <2>1, <2>2
<1> QED
  BY <1>3, <1>4 DEF CrawlOK

\* The record of an entry whose page was refused or failed.
LEMMA NoTextIsRecord ==
    ASSUME NEW e \in Entries, NEW outcome \in {"refused", "failed"}
    PROVE  /\ W!NoText(e, outcome) \in Records
           /\ W!NoText(e, outcome).asked = e[1] /\ W!NoText(e, outcome).depth = e[2]
           /\ W!NoText(e, outcome).result = outcome /\ ~W!NoText(e, outcome).duplicate
BY DEF W!NoText, Records, Entries

\* What a crawl's page in hand may land on.
LEMMA Landing ==
    ASSUME CrawlTypes, NEW c \in Crawls, W!Read(c)
    PROVE  \E url \in Addresses \cup {Elsewhere} :
              /\ cached' = cached \cup {<<visiting[c][1], url>>}
              /\ \/ url # Elsewhere /\ url \in Addresses /\ W!Record(c, url)
                 \/ /\ url = Elsewhere /\ UNCHANGED frontier
                    /\ pages' = [pages EXCEPT ![c] = Append(@, W!NoText(visiting[c], "failed"))]
<1>1. PICK url \in IF W!Cached(c) = {} THEN {W!Address(c)} ELSE {x[2] : x \in W!Cached(c)} :
          /\ cached' = cached \cup {<<visiting[c][1], url>>}
          /\ \/ url # Elsewhere /\ W!Record(c, url)
             \/ /\ url = Elsewhere /\ UNCHANGED frontier
                /\ pages' = [pages EXCEPT ![c] = Append(@, W!NoText(visiting[c], "failed"))]
  BY DEF W!Read
<1>2. url \in Addresses \cup {Elsewhere}
  <2>1. CASE W!Cached(c) = {}
    <3>1. url = W!Address(c) /\ visiting[c] \in Entries /\ hops[c] \in Seq(Addresses \cup {Elsewhere})
      BY <1>1, <2>1 DEF CrawlTypes
    <3>2. CASE hops[c] = <<>>
      BY <3>1, <3>2 DEF W!Address, Entries
    <3>3. CASE hops[c] # <<>>
      <4>1. hops[c][Len(hops[c])] \in Addresses \cup {Elsewhere}
        BY <3>1, <3>3
      <4> QED
        BY <3>1, <3>3, <4>1 DEF W!Address, W!Last
    <3> QED
      BY <3>2, <3>3
  <2>2. CASE W!Cached(c) # {}
    BY <1>1, <2>2 DEF W!Cached, CrawlTypes
  <2> QED
    BY <2>1, <2>2
<1> QED
  BY <1>1, <1>2

\* The links that a page adds to the queue are entries one level below it.
LEMMA LinkEntries ==
    ASSUME CrawlTypes, NEW c \in Crawls, NEW url \in Addresses, NEW depth \in Nat,
           NEW order \in W!InOrder(W!Unseen(c, url))
    PROVE  LET new == [i \in DOMAIN order |-> <<site.links[url][order[i]], depth + 1>>]
           IN  /\ new \in Seq(Entries) /\ \A n \in DOMAIN new : new[n][2] = depth + 1
               /\ \A n \in DOMAIN site.links[url] :
                     \/ site.links[url][n] \in seen[c]
                     \/ \E i \in DOMAIN new : new[i][1] = site.links[url][n]
<1> DEFINE new == [i \in DOMAIN order |-> <<site.links[url][order[i]], depth + 1>>]
           unseen == W!Unseen(c, url)
<1>1. site.links[url] \in Seq(Addresses) /\ unseen \subseteq 1..Len(site.links[url])
  BY SiteTypes DEF W!Unseen
<1>2. Len(site.links[url]) \in Nat
  BY <1>1
<1>3. IsFiniteSet(unseen)
  <2>1. IsFiniteSet(1..Len(site.links[url]))
    BY <1>2, FS_Interval
  <2> QED
    BY <1>1, <2>1, FS_Subset
<1>4. Cardinality(unseen) \in Nat
  BY <1>3, FS_CardinalityType
<1>5. order \in [1..Cardinality(unseen) -> unseen] /\ W!ToSet(order) = unseen
  BY DEF W!InOrder, W!Cardinality, Cardinality
<1>6. order \in Seq(unseen) /\ DOMAIN order = 1..Len(order)
  BY <1>4, <1>5
<1> HIDE DEF unseen
<1>7. \A i \in DOMAIN order : order[i] \in DOMAIN site.links[url]
  <2>1. DOMAIN site.links[url] = 1..Len(site.links[url])
    BY <1>1
  <2>2. \A i \in DOMAIN order : order[i] \in unseen
    BY <1>5
  <2> QED
    BY <1>1, <2>1, <2>2
<1>8. \A i \in DOMAIN order : site.links[url][order[i]] \in Addresses
  BY <1>1, <1>7
<1>9. new \in [1..Len(order) -> Entries]
  BY <1>6, <1>8 DEF Entries
<1>10. new \in Seq(Entries) /\ DOMAIN new = DOMAIN order
  BY <1>6, <1>9
<1>11. ASSUME NEW n \in DOMAIN site.links[url], site.links[url][n] \notin seen[c]
       PROVE  \E i \in DOMAIN new : new[i][1] = site.links[url][n]
  <2>1. n \in unseen
    BY <1>11 DEF unseen, W!Unseen
  <2>2. PICK i \in DOMAIN order : order[i] = n
    BY <1>5, <2>1 DEF W!ToSet
  <2> QED
    BY <1>10, <2>2
<1> QED
  BY <1>10, <1>11

\* The addresses of a sitemap are entries of depth 0.
LEMMA SitemapEntries ==
    ASSUME NEW urls \in Seq(Addresses)
    PROVE  LET new == [i \in DOMAIN urls |-> <<urls[i], 0>>]
           IN  new \in Seq(Entries) /\ DOMAIN new = DOMAIN urls
<1> DEFINE new == [i \in DOMAIN urls |-> <<urls[i], 0>>]
<1>1. DOMAIN urls = 1..Len(urls) /\ Len(urls) \in Nat /\ \A i \in DOMAIN urls : urls[i] \in Addresses
  OBVIOUS
<1>2. new \in [1..Len(urls) -> Entries]
  BY <1>1 DEF Entries
<1> QED
  BY <1>1, <1>2

\* The record of a page that was read, and the queue with its links.
LEMMA RecordTypes ==
    ASSUME CrawlTypes, NEW c \in Crawls, NEW url \in Addresses, W!Record(c, url)
    PROVE  /\ frontier' \in [Crawls -> Seq(Entries)] /\ pages' \in [Crawls -> Seq(Records)]
           /\ \E r \in Records :
                 /\ pages' = [pages EXCEPT ![c] = Append(@, r)]
                 /\ r.asked = visiting[c][1] /\ r.depth = visiting[c][2] /\ r.url = url
                 /\ r.duplicate = (W!SameText(c, url) # {})
                 /\ r.duplicate => \E s \in W!SameText(c, url) : r.original = s.url
           /\ \/ ~W!Follows(visiting[c][2], W!SameText(c, url) = {}) /\ UNCHANGED frontier
              \/ /\ W!Follows(visiting[c][2], W!SameText(c, url) = {})
                 /\ \E order \in W!InOrder(W!Unseen(c, url)) :
                       frontier' = [frontier EXCEPT ![c] = @ \o
                          [i \in DOMAIN order |->
                             <<site.links[url][order[i]], visiting[c][2] + 1>>]]
<1> DEFINE same == W!SameText(c, url)
           original == IF same = {} THEN url ELSE (CHOOSE s \in same : TRUE).url
           r == [asked |-> visiting[c][1], depth |-> visiting[c][2], result |-> "read", url |-> url,
                 duplicate |-> same # {}, original |-> original]
<1>1. visiting[c] \in Entries /\ pages[c] \in Seq(Records)
  BY DEF CrawlTypes
<1>2. same \subseteq Records
  BY <1>1 DEF W!SameText, W!Originals, W!ToSet
<1>3. same # {} => original \in {s.url : s \in same}
  OBVIOUS
<1>4. original \in Addresses
  BY <1>2, <1>3 DEF Records
<1> HIDE DEF same, original
<1>5. r \in Records
  BY <1>1, <1>4 DEF Records, Entries
<1>6. pages' = [pages EXCEPT ![c] = Append(@, r)]
  BY DEF W!Record, same, original
<1>7. r.duplicate => \E s \in same : r.original = s.url
  BY <1>3
<1>8. \/ ~W!Follows(visiting[c][2], same = {}) /\ UNCHANGED frontier
      \/ /\ W!Follows(visiting[c][2], same = {})
         /\ \E order \in W!InOrder(W!Unseen(c, url)) :
               frontier' = [frontier EXCEPT ![c] = @ \o
                  [i \in DOMAIN order |-> <<site.links[url][order[i]], visiting[c][2] + 1>>]]
  BY DEF W!Record, W!Enqueued, same
<1>9. frontier' \in [Crawls -> Seq(Entries)]
  <2>1. CASE UNCHANGED frontier
    BY <2>1 DEF CrawlTypes
  <2>2. ASSUME NEW order \in W!InOrder(W!Unseen(c, url)),
               frontier' = [frontier EXCEPT ![c] = @ \o
                  [i \in DOMAIN order |-> <<site.links[url][order[i]], visiting[c][2] + 1>>]]
        PROVE  frontier' \in [Crawls -> Seq(Entries)]
    <3> DEFINE new == [i \in DOMAIN order |-> <<site.links[url][order[i]], visiting[c][2] + 1>>]
    <3>1. new \in Seq(Entries)
      <4>1. visiting[c][2] \in Nat
        BY <1>1 DEF Entries
      <4>2. \A depth \in Nat :
               [i \in DOMAIN order |-> <<site.links[url][order[i]], depth + 1>>] \in Seq(Entries)
        BY LinkEntries
      <4> QED
        BY <4>1, <4>2
    <3> HIDE DEF new
    <3>2. frontier[c] \o new \in Seq(Entries)
      BY <3>1 DEF CrawlTypes
    <3> QED
      BY <2>2, <3>2 DEF CrawlTypes, new
  <2> QED
    BY <1>8, <2>1, <2>2
<1>10. pages' \in [Crawls -> Seq(Records)]
  <2>1. Append(pages[c], r) \in Seq(Records)
    BY <1>1, <1>5
  <2> QED
    BY <1>6, <2>1 DEF CrawlTypes
<1>11. /\ r.asked = visiting[c][1] /\ r.depth = visiting[c][2] /\ r.url = url
       /\ r.duplicate = (same # {})
  OBVIOUS
<1> HIDE DEF r
<1> QED
  BY <1>5, <1>6, <1>7, <1>8, <1>9, <1>10, <1>11 DEF same

\* Every step of a crawl keeps the types.
LEMMA StepTypes ==
    ASSUME CrawlTypes, NEW c \in Crawls, W!CrawlStep(c)
    PROVE  CrawlTypes'
<1> USE DEF CrawlTypes
<1>0. Addresses' = Addresses /\ Entries' = Entries /\ Records' = Records
  BY DEF W!CrawlStep, W!Begin, W!ReadSitemap, W!StartWalk, W!Visit, W!End, W!TakeSlot, W!Redirect,
    W!FetchFails, W!Read, Addresses, Entries, Records
<1> USE <1>0
<1>1. CASE W!Begin(c)
  <2>1. <<site.start, 0>> \in Entries /\ site.sitemaps \in Seq(Seq(Addresses))
    BY SiteTypes DEF Entries
  <2>2. CASE /\ frontier' = [frontier EXCEPT ![c] = <<<<site.start, 0>>>>]
             /\ unread' = [unread EXCEPT ![c] = site.sitemaps]
             /\ W!GoTo(c, "sitemap")
    BY <1>1, <2>1, <2>2 DEF W!Begin, W!GoTo, W!Points
  <2>3. CASE W!GoTo(c, "refused") /\ UNCHANGED <<unread, frontier>>
    BY <1>1, <2>3 DEF W!Begin, W!GoTo, W!Points
  <2> QED
    BY <1>1, <2>2, <2>3 DEF W!Begin
<1>2. CASE W!ReadSitemap(c)
  <2>1. PICK urls \in {Head(unread[c]), <<>>} :
           /\ frontier' = [frontier EXCEPT ![c] = @ \o [i \in DOMAIN urls |-> <<urls[i], 0>>]]
           /\ listed' = [listed EXCEPT ![c] = @ \union W!ToSet(urls)]
    BY <1>2 DEF W!ReadSitemap
  <2>5. unread[c] \in Seq(Seq(Addresses)) /\ unread[c] # <<>>
    BY <1>2 DEF W!ReadSitemap
  <2>6. Head(unread[c]) \in Seq(Addresses) /\ Tail(unread[c]) \in Seq(Seq(Addresses))
    BY <2>5
  <2>2. urls \in Seq(Addresses) /\ Tail(unread[c]) \in Seq(Seq(Addresses))
    <3>1. <<>> \in Seq(Addresses)
      OBVIOUS
    <3>2. urls = Head(unread[c]) \/ urls = <<>>
      BY <2>1
    <3> QED
      BY <2>6, <3>1, <3>2
  <2>7. W!ToSet(urls) \subseteq Addresses
    BY <2>2 DEF W!ToSet
  <2>3. [i \in DOMAIN urls |-> <<urls[i], 0>>] \in Seq(Entries) /\ W!ToSet(urls) \subseteq Addresses
    BY <2>2, <2>7, SitemapEntries
  <2>4. frontier[c] \o [i \in DOMAIN urls |-> <<urls[i], 0>>] \in Seq(Entries)
    BY <2>3
  <2> QED
    BY <1>2, <2>1, <2>2, <2>3, <2>4 DEF W!ReadSitemap
<1>3. CASE W!StartWalk(c) \/ W!End(c)
  BY <1>3 DEF W!StartWalk, W!End, W!GoTo, W!Points, W!outset
<1>4. CASE W!Visit(c)
  <2>1. Head(frontier[c]) \in Entries /\ Tail(frontier[c]) \in Seq(Entries)
    BY <1>4 DEF W!Visit
  <2>2. Append(pages[c], W!NoText(Head(frontier[c]), "refused")) \in Seq(Records)
    BY <2>1, NoTextIsRecord
  <2>3. pages' \in [Crawls -> Seq(Records)]
    BY <1>4, <2>2 DEF W!Visit
  <2>4. /\ frontier' \in [Crawls -> Seq(Entries)] /\ seen' \in [Crawls -> SUBSET Addresses]
    BY <1>4, <2>1 DEF W!Visit, Entries
  <2>5. /\ crawling' \in [Crawls -> W!Points] /\ visiting' \in [Crawls -> Entries]
        /\ hops' \in [Crawls -> Seq(Addresses \cup {Elsewhere})]
    <3>1. CASE UNCHANGED <<crawling, visiting, hops>>
      BY <3>1
    <3>2. CASE /\ W!GoTo(c, "slot") /\ visiting' = [visiting EXCEPT ![c] = Head(frontier[c])]
               /\ hops' = [hops EXCEPT ![c] = <<>>]
      BY <2>1, <3>2 DEF W!GoTo, W!Points
    <3> QED
      BY <1>4, <3>1, <3>2 DEF W!Visit
  <2> QED
    BY <1>4, <2>3, <2>4, <2>5 DEF W!Visit, W!outset
<1>5. CASE W!TakeSlot(c)
  <2>1. Append(pages[c], W!NoText(visiting[c], "failed")) \in Seq(Records)
    BY NoTextIsRecord
  <2>2. pages' \in [Crawls -> Seq(Records)]
    BY <1>5, <2>1 DEF W!TakeSlot
  <2>3. crawling' \in [Crawls -> W!Points]
    BY <1>5 DEF W!TakeSlot, W!GoTo, W!Points
  <2> QED
    BY <1>5, <2>2, <2>3 DEF W!TakeSlot, W!outset
<1>6. CASE W!Redirect(c)
  <2>1. W!Address(c) \in Addresses \cup {Elsewhere}
    <3>1. CASE hops[c] = <<>>
      BY <3>1 DEF W!Address, Entries
    <3>2. CASE hops[c] # <<>>
      <4>1. hops[c][Len(hops[c])] \in Addresses \cup {Elsewhere}
        BY <3>2
      <4> QED
        BY <3>2, <4>1 DEF W!Address, W!Last
    <3> QED
      BY <3>1, <3>2
  <2>2. site.moved[W!Address(c)] \in Addresses \cup {Elsewhere}
    BY <1>6, <2>1, SiteTypes DEF W!Redirect, W!Moves
  <2>3. Append(hops[c], site.moved[W!Address(c)]) \in Seq(Addresses \cup {Elsewhere})
    BY <2>2
  <2> QED
    BY <1>6, <2>3 DEF W!Redirect, W!outset
<1>7. CASE W!FetchFails(c)
  <2>1. Append(pages[c], W!NoText(visiting[c], "failed")) \in Seq(Records)
    BY NoTextIsRecord
  <2> QED
    BY <1>7, <2>1 DEF W!FetchFails, W!GoTo, W!Points, W!outset
<1>8. CASE W!Read(c)
  <2>1. PICK url \in Addresses \cup {Elsewhere} :
           /\ cached' = cached \cup {<<visiting[c][1], url>>}
           /\ \/ url # Elsewhere /\ url \in Addresses /\ W!Record(c, url)
              \/ /\ url = Elsewhere /\ UNCHANGED frontier
                 /\ pages' = [pages EXCEPT ![c] = Append(@, W!NoText(visiting[c], "failed"))]
    BY <1>8, Landing
  <2>2. cached' \subseteq Addresses \X (Addresses \cup {Elsewhere})
    BY <2>1 DEF Entries
  <2>3. /\ crawling' \in [Crawls -> W!Points]
        /\ UNCHANGED <<site, unread, listed, seen, visiting, hops>>
    BY <1>8 DEF W!Read, W!GoTo, W!Points, W!outset
  <2>4. frontier' \in [Crawls -> Seq(Entries)] /\ pages' \in [Crawls -> Seq(Records)]
    <3>1. CASE /\ url = Elsewhere /\ UNCHANGED frontier
               /\ pages' = [pages EXCEPT ![c] = Append(@, W!NoText(visiting[c], "failed"))]
      <4>1. Append(pages[c], W!NoText(visiting[c], "failed")) \in Seq(Records)
        BY NoTextIsRecord
      <4> QED
        BY <3>1, <4>1
    <3>2. CASE url \in Addresses /\ W!Record(c, url)
      BY <3>2, RecordTypes
    <3> QED
      BY <2>1, <3>1, <3>2
  <2> QED
    BY <2>2, <2>3, <2>4
<1> QED
  BY <1>1, <1>2, <1>3, <1>4, <1>5, <1>6, <1>7, <1>8 DEF W!CrawlStep

\* A step of one crawl leaves the site and the other crawls alone.
LEMMA OneCrawl ==
    ASSUME CrawlTypes, NEW c \in Crawls, W!CrawlStep(c)
    PROVE  site' = site /\ \A d \in Crawls \ {c} : Same(d)
<1> USE DEF CrawlTypes, Same
<1>1. CASE W!Begin(c) \/ W!ReadSitemap(c)
  BY <1>1 DEF W!Begin, W!ReadSitemap, W!GoTo
<1>5. CASE W!StartWalk(c) \/ W!End(c)
  BY <1>5 DEF W!StartWalk, W!End, W!GoTo, W!outset
<1>2. CASE W!Visit(c)
  BY <1>2 DEF W!Visit, W!GoTo, W!outset
<1>3. CASE W!TakeSlot(c)
  BY <1>3 DEF W!TakeSlot, W!GoTo, W!outset
<1>6. CASE W!Redirect(c)
  BY <1>6 DEF W!Redirect, W!outset
<1>7. CASE W!FetchFails(c)
  BY <1>7 DEF W!FetchFails, W!GoTo, W!outset
<1>4. CASE W!Read(c)
  BY <1>4 DEF W!Read, W!Record, W!GoTo, W!outset
<1> QED
  BY <1>1, <1>2, <1>3, <1>4, <1>5, <1>6, <1>7 DEF W!CrawlStep

\* A crawl that has begun keeps what it has found, whatever it records: what is proved of
\* the pages, the entry in hand and the queue after a step gives the rest.
LEMMA CrawlAdvances ==
    ASSUME CrawlInvariant, CrawlTypes', NEW c \in Crawls, site' = site, listed' = listed,
           crawling[c] \notin {"new", "refused"}, crawling'[c] \notin {"new", "sitemap"},
           DepthsGrow(pages[c], Hand(c), frontier[c])', KnownOnce(pages[c], Hand(c), seen[c])',
           \A url \in Addresses : \A depth \in Nat :
              FoundBy(c, url, depth) => FoundBy(c, url, depth)',
           \/ pages'[c] = pages[c]
           \/ \E r \in Records :
                 /\ pages'[c] = Append(pages[c], r)
                 /\ r.result = "read" /\ ~r.duplicate /\ r.depth < MaxDepth =>
                       \A n \in DOMAIN site.links[r.url] :
                          FoundBy(c, site.links[r.url][n], r.depth + 1)'
                 /\ r.duplicate => \E j \in DOMAIN pages[c] :
                       /\ pages[c][j].url = r.original /\ ~pages[c][j].duplicate
                       /\ site.text[r.original] = site.text[r.url]
    PROVE  CrawlOK(c)'
<1>1. CrawlTypes /\ CrawlOK(c)
  BY DEF CrawlInvariant
<1>2. BeginsOK(c)'
  BY DEF BeginsOK
<1>3. SourcesOK(c)'
  <2>1. listed[c] \cup {site.start} \subseteq Addresses
    BY <1>1, SiteTypes DEF CrawlTypes
  <2>2. \A url \in listed[c] \cup {site.start} : FoundBy(c, url, 0)'
    BY <1>1, <2>1 DEF CrawlOK, SourcesOK
  <2> QED
    BY <2>2 DEF SourcesOK
<1>4. pages[c] \in Seq(Records) /\ DOMAIN pages[c] = 1..Len(pages[c]) /\ Len(pages[c]) \in Nat
  BY <1>1 DEF CrawlTypes
<1>5. ASSUME NEW i \in DOMAIN pages[c], pages[c][i].result = "read", ~pages[c][i].duplicate,
             pages[c][i].depth < MaxDepth, NEW n \in DOMAIN site.links[pages[c][i].url]
      PROVE  FoundBy(c, site.links[pages[c][i].url][n], pages[c][i].depth + 1)'
  <2> DEFINE p == pages[c][i]
  <2>1. p \in Records
    BY <1>4
  <2>2. p.url \in Addresses /\ p.depth + 1 \in Nat
    BY <2>1 DEF Records
  <2>3. site.links[p.url] \in Seq(Addresses)
    BY <1>1, <2>2, SiteTypes
  <2>4. site.links[p.url][n] \in Addresses
    BY <2>3
  <2>5. FoundBy(c, site.links[p.url][n], p.depth + 1)
    <3>1. LinksFound(c)
      BY <1>1 DEF CrawlOK
    <3> QED
      BY <1>5, <3>1 DEF LinksFound
  <2>6. pages'[c][i] = pages[c][i]
    BY <1>4
  <2> HIDE DEF p
  <2>7. ASSUME NEW url \in Addresses, NEW depth \in Nat,
               url = site.links[p.url][n], depth = p.depth + 1
        PROVE  FoundBy(c, url, depth)'
    BY <2>5, <2>7
  <2>8. site.links[p.url][n]' = site.links[p.url][n] /\ (p.depth + 1)' = p.depth + 1
    BY <2>6 DEF p
  <2>9. FoundBy(c, site.links[p.url][n], p.depth + 1)'
    BY <2>2, <2>4, <2>7, <2>8
  <2> QED
    BY <2>9 DEF p
<1>6. ASSUME NEW i \in DOMAIN pages[c], pages[c][i].duplicate
      PROVE  \E j \in 1..i - 1 : /\ pages[c][j].url = pages[c][i].original
                                 /\ ~pages[c][j].duplicate
                                 /\ site.text[pages[c][i].original] = site.text[pages[c][i].url]
  BY <1>1, <1>6 DEF CrawlOK, DuplicatesOK
<1>7. CASE pages'[c] = pages[c]
  <2>1. LinksFound(c)'
    BY <1>5, <1>7 DEF LinksFound
  <2>2. DuplicatesOK(c)'
    BY <1>6, <1>7 DEF DuplicatesOK
  <2> QED
    BY <1>2, <1>3, <2>1, <2>2 DEF CrawlOK
<1>8. ASSUME NEW r \in Records, pages'[c] = Append(pages[c], r),
             r.result = "read" /\ ~r.duplicate /\ r.depth < MaxDepth =>
                \A n \in DOMAIN site.links[r.url] : FoundBy(c, site.links[r.url][n], r.depth + 1)',
             r.duplicate => \E j \in DOMAIN pages[c] :
                /\ pages[c][j].url = r.original /\ ~pages[c][j].duplicate
                /\ site.text[r.original] = site.text[r.url]
      PROVE  CrawlOK(c)'
  <2>1. /\ DOMAIN pages'[c] = DOMAIN pages[c] \cup {Len(pages[c]) + 1}
        /\ pages'[c][Len(pages[c]) + 1] = r
        /\ \A i \in DOMAIN pages[c] : pages'[c][i] = pages[c][i]
    BY <1>4, <1>8
  <2>2. LinksFound(c)'
    <3> SUFFICES ASSUME NEW i \in DOMAIN pages'[c], pages'[c][i].result = "read",
                        ~pages'[c][i].duplicate, pages'[c][i].depth < MaxDepth,
                        NEW n \in DOMAIN site.links[pages'[c][i].url]
                 PROVE  FoundBy(c, site.links[pages[c][i].url][n], pages[c][i].depth + 1)'
      BY DEF LinksFound
    <3>1. CASE i \in DOMAIN pages[c]
      BY <1>5, <2>1, <3>1
    <3>2. CASE i = Len(pages[c]) + 1
      BY <1>8, <2>1, <3>2
    <3> QED
      BY <2>1, <3>1, <3>2
  <2>3. DuplicatesOK(c)'
    <3> SUFFICES ASSUME NEW i \in DOMAIN pages'[c], pages'[c][i].duplicate
                 PROVE  \E j \in 1..i - 1 :
                           /\ pages'[c][j].url = pages'[c][i].original /\ ~pages'[c][j].duplicate
                           /\ site.text[pages'[c][i].original] = site.text[pages'[c][i].url]
      BY DEF DuplicatesOK
    <3>1. CASE i \in DOMAIN pages[c]
      <4>1. PICK j \in 1..i - 1 :
               /\ pages[c][j].url = pages[c][i].original /\ ~pages[c][j].duplicate
               /\ site.text[pages[c][i].original] = site.text[pages[c][i].url]
        BY <1>6, <2>1, <3>1
      <4>2. j \in DOMAIN pages[c]
        BY <1>4, <3>1
      <4> QED
        BY <2>1, <3>1, <4>1, <4>2
    <3>2. CASE i = Len(pages[c]) + 1
      <4>1. PICK j \in DOMAIN pages[c] :
               /\ pages[c][j].url = r.original /\ ~pages[c][j].duplicate
               /\ site.text[r.original] = site.text[r.url]
        BY <1>8, <2>1, <3>2
      <4>2. j \in 1..i - 1
        BY <1>4, <3>2
      <4> QED
        BY <2>1, <3>2, <4>1, <4>2
    <3> QED
      BY <2>1, <3>1, <3>2
  <2> QED
    BY <1>2, <1>3, <2>2, <2>3 DEF CrawlOK
<1> QED
  BY <1>7, <1>8

\* The start of a crawl and its sitemaps put entries of depth 0 in the queue.
LEMMA StepBegin == ASSUME CrawlInvariant, NEW c \in Crawls, W!Begin(c) PROVE CrawlOK(c)'
<1>1. CrawlTypes /\ CrawlOK(c) /\ CrawlTypes'
  BY StepTypes DEF CrawlInvariant, W!CrawlStep
<1>2. /\ crawling[c] = "new" /\ pages[c] = <<>> /\ seen[c] = {} /\ frontier[c] = <<>>
      /\ listed[c] = {} /\ UNCHANGED <<site, listed, seen, pages, visiting>>
      /\ \/ crawling'[c] = "sitemap" /\ frontier'[c] = <<<<site.start, 0>>>>
         \/ crawling'[c] = "refused" /\ frontier'[c] = <<>>
  BY <1>1 DEF W!Begin, W!GoTo, CrawlOK, BeginsOK, CrawlTypes
<1>3. Hand(c)' = {}
  BY <1>2 DEF Hand
<1>4. KnownOnce(pages[c], Hand(c), seen[c])' /\ LinksFound(c)' /\ DuplicatesOK(c)'
  BY <1>2, <1>3 DEF KnownOnce, LinksFound, DuplicatesOK
<1>5. CASE crawling'[c] = "sitemap" /\ frontier'[c] = <<<<site.start, 0>>>>
  <2>1. DOMAIN frontier'[c] = {1} /\ frontier'[c][1] = <<site.start, 0>>
    BY <1>5
  <2>2. DepthsGrow(pages[c], Hand(c), frontier[c])' /\ BeginsOK(c)'
    BY <1>2, <1>3, <1>5, <2>1, DepthsAreNat DEF DepthsGrow, BeginsOK
  <2>3. SourcesOK(c)'
    BY <1>2, <2>1 DEF SourcesOK, FoundBy, Found
  <2> QED
    BY <1>4, <2>2, <2>3 DEF CrawlOK
<1>6. CASE crawling'[c] = "refused" /\ frontier'[c] = <<>>
  <2>1. DepthsGrow(pages[c], Hand(c), frontier[c])' /\ BeginsOK(c)' /\ SourcesOK(c)'
    BY <1>2, <1>3, <1>6 DEF DepthsGrow, BeginsOK, SourcesOK
  <2> QED
    BY <1>4, <2>1 DEF CrawlOK
<1> QED
  BY <1>2, <1>5, <1>6

\* The addresses of a sitemap go to the queue before anything is visited.
LEMMA StepSitemap == ASSUME CrawlInvariant, NEW c \in Crawls, W!ReadSitemap(c) PROVE CrawlOK(c)'
<1>1. CrawlTypes /\ CrawlOK(c) /\ CrawlTypes'
  BY StepTypes DEF CrawlInvariant, W!CrawlStep
<1>2. PICK urls \in {Head(unread[c]), <<>>} :
           /\ frontier' = [frontier EXCEPT ![c] = @ \o [i \in DOMAIN urls |-> <<urls[i], 0>>]]
           /\ listed' = [listed EXCEPT ![c] = @ \union W!ToSet(urls)]
  BY DEF W!ReadSitemap
<1>3. urls \in Seq(Addresses)
  <2>1. unread[c] \in Seq(Seq(Addresses)) /\ unread[c] # <<>>
    BY <1>1 DEF CrawlTypes, W!ReadSitemap
  <2>2. Head(unread[c]) \in Seq(Addresses) /\ <<>> \in Seq(Addresses)
    BY <2>1
  <2>3. urls = Head(unread[c]) \/ urls = <<>>
    BY <1>2
  <2> QED
    BY <2>2, <2>3
<1> DEFINE new == [i \in DOMAIN urls |-> <<urls[i], 0>>]
           rest == frontier[c]
<1>4. new \in Seq(Entries) /\ DOMAIN new = DOMAIN urls /\ rest \in Seq(Entries)
  BY <1>1, <1>3, SitemapEntries DEF CrawlTypes
<1>5. \A n \in DOMAIN new : new[n][2] = 0
  OBVIOUS
<1>6. /\ crawling[c] = "sitemap" /\ pages[c] = <<>> /\ seen[c] = {}
      /\ UNCHANGED <<site, crawling, seen, pages, visiting>>
      /\ \A j \in DOMAIN rest : rest[j][2] = 0
      /\ \A url \in listed[c] \cup {site.start} : FoundBy(c, url, 0)
  BY <1>1 DEF W!ReadSitemap, CrawlOK, BeginsOK, SourcesOK
<1>7. /\ \A url \in W!ToSet(urls) : \E n \in DOMAIN new : new[n][1] = url
      /\ listed'[c] = listed[c] \cup W!ToSet(urls) /\ frontier'[c] = rest \o new
  BY <1>1, <1>2 DEF W!ToSet, CrawlTypes
<1> HIDE DEF new, rest
<1>8. /\ \A j \in DOMAIN frontier'[c] : frontier'[c][j][2] = 0
      /\ \A j \in DOMAIN rest : j \in DOMAIN frontier'[c] /\ frontier'[c][j] = rest[j]
      /\ \A n \in DOMAIN new :
            n + Len(rest) \in DOMAIN frontier'[c] /\ frontier'[c][n + Len(rest)] = new[n]
  <2> DEFINE more == rest \o new
  <2>1. more \in Seq(Entries) /\ Len(more) = Len(rest) + Len(new)
    BY <1>4
  <2>2. \A j \in 1..Len(more) : more[j] = IF j <= Len(rest) THEN rest[j] ELSE new[j - Len(rest)]
    BY <1>4
  <2>3. /\ DOMAIN rest = 1..Len(rest) /\ DOMAIN new = 1..Len(new)
        /\ Len(rest) \in Nat /\ Len(new) \in Nat
    BY <1>4
  <2>4. frontier'[c] = more
    BY <1>7
  <2> HIDE DEF more
  <2>5. DOMAIN more = 1..Len(more)
    BY <2>1
  <2>6. \A j \in DOMAIN more : more[j][2] = 0
    <3> TAKE j \in DOMAIN more
    <3>1. CASE j <= Len(rest)
      <4>1. j \in DOMAIN rest /\ more[j] = rest[j]
        BY <2>1, <2>2, <2>3, <2>5, <3>1
      <4> QED
        BY <1>6, <4>1
    <3>2. CASE j > Len(rest)
      <4>1. j - Len(rest) \in DOMAIN new /\ more[j] = new[j - Len(rest)]
        BY <2>1, <2>2, <2>3, <2>5, <3>2
      <4> QED
        BY <1>5, <4>1
    <3> QED
      BY <2>1, <2>3, <2>5, <3>1, <3>2
  <2>7. \A j \in DOMAIN rest : j \in DOMAIN more /\ more[j] = rest[j]
    BY <2>1, <2>2, <2>3, <2>5
  <2>8. \A n \in DOMAIN new : n + Len(rest) \in DOMAIN more /\ more[n + Len(rest)] = new[n]
    BY <2>1, <2>2, <2>3, <2>5
  <2> QED
    BY <2>4, <2>6, <2>7, <2>8
<1>9. Hand(c)' = {} /\ Hand(c) = {}
  BY <1>6 DEF Hand
<1>10. DepthsGrow(pages[c], Hand(c), frontier[c])'
  BY <1>6, <1>8, <1>9, DepthsAreNat DEF DepthsGrow
<1>11. /\ KnownOnce(pages[c], Hand(c), seen[c])' /\ BeginsOK(c)' /\ LinksFound(c)'
       /\ DuplicatesOK(c)'
  BY <1>6, <1>8, <1>9 DEF KnownOnce, BeginsOK, LinksFound, DuplicatesOK
<1>12. SourcesOK(c)'
  <2>1. ASSUME NEW url, FoundBy(c, url, 0) PROVE FoundBy(c, url, 0)'
    <3>1. PICK j \in DOMAIN rest : rest[j][1] = url /\ rest[j][2] <= 0
      BY <1>6, <1>9, <2>1 DEF FoundBy, Found, rest
    <3> QED
      BY <1>8, <3>1 DEF FoundBy, Found
  <2>2. ASSUME NEW n \in DOMAIN new PROVE FoundBy(c, new[n][1], 0)'
    <3>1. /\ n + Len(rest) \in DOMAIN frontier'[c] /\ frontier'[c][n + Len(rest)][1] = new[n][1]
          /\ frontier'[c][n + Len(rest)][2] = 0
      BY <1>8
    <3> QED
      BY <3>1 DEF FoundBy, Found
  <2>3. \A url \in listed'[c] \cup {site.start} : FoundBy(c, url, 0)'
    BY <1>6, <1>7, <2>1, <2>2
  <2> QED
    BY <1>6, <2>3 DEF SourcesOK
<1> QED
  BY <1>10, <1>11, <1>12 DEF CrawlOK

\* A step that records nothing, takes nothing in hand and leaves the queue.
LEMMA StepStill ==
    ASSUME CrawlInvariant, NEW c \in Crawls,
           \/ W!StartWalk(c) \/ W!End(c) \/ W!Redirect(c)
           \/ W!TakeSlot(c) /\ UNCHANGED pages
    PROVE  CrawlOK(c)'
<1>1. CrawlTypes /\ CrawlOK(c) /\ CrawlTypes'
  BY StepTypes DEF CrawlInvariant, W!CrawlStep
<1>2. /\ UNCHANGED <<site, listed, frontier, seen, pages, visiting>>
      /\ crawling[c] \in {"sitemap", "next", "slot", "fetch"}
      /\ crawling'[c] \in {"next", "done", "slot", "fetch"}
      /\ crawling'[c] \in {"slot", "fetch"} <=> crawling[c] \in {"slot", "fetch"}
  <2>1. CASE W!StartWalk(c) \/ W!End(c)
    BY <1>1, <2>1 DEF W!StartWalk, W!End, W!GoTo, W!outset, CrawlTypes
  <2>2. CASE W!Redirect(c)
    BY <1>1, <2>2 DEF W!Redirect, W!outset, CrawlTypes
  <2>3. CASE W!TakeSlot(c) /\ UNCHANGED pages
    <3>1. pages' # [pages EXCEPT ![c] = Append(@, W!NoText(visiting[c], "failed"))]
      <4>1. pages[c] \in Seq(Records)
        BY <1>1 DEF CrawlTypes
      <4>2. Append(pages[c], W!NoText(visiting[c], "failed")) # pages[c]
        BY <4>1
      <4> QED
        BY <1>1, <2>3, <4>2 DEF CrawlTypes
    <3> QED
      BY <1>1, <2>3, <3>1 DEF W!TakeSlot, W!GoTo, W!outset, CrawlTypes
  <2> QED
    BY <2>1, <2>2, <2>3
<1>3. Hand(c)' = Hand(c)
  BY <1>2 DEF Hand
<1>4. \A url, depth : FoundBy(c, url, depth) => FoundBy(c, url, depth)'
  BY <1>2, <1>3 DEF FoundBy, Found
<1>5. DepthsGrow(pages[c], Hand(c), frontier[c])' /\ KnownOnce(pages[c], Hand(c), seen[c])'
  BY <1>1, <1>2, <1>3 DEF CrawlOK, DepthsGrow, KnownOnce
<1>6. crawling[c] \notin {"new", "refused"} /\ crawling'[c] \notin {"new", "sitemap"}
  BY <1>2
<1> QED
  BY <1>1, <1>2, <1>4, <1>5, <1>6, CrawlAdvances

\* The page in hand is recorded, with the links that it adds to the queue.
LEMMA HandIsRecorded ==
    ASSUME CrawlInvariant, CrawlTypes', NEW c \in Crawls,
           crawling[c] \in {"slot", "fetch"}, crawling'[c] = "next", UNCHANGED <<site, listed, seen>>,
           DepthsGrow(pages[c], {visiting[c]}, frontier'[c]),
           \A url \in Addresses : \A depth \in Nat :
              Found(url, depth, pages[c], {visiting[c]}, frontier[c]) =>
              Found(url, depth, pages[c], {visiting[c]}, frontier'[c]),
           NEW r \in Records, r.asked = visiting[c][1], r.depth = visiting[c][2],
           pages'[c] = Append(pages[c], r),
           r.result = "read" /\ ~r.duplicate /\ r.depth < MaxDepth =>
              \A n \in DOMAIN site.links[r.url] :
                 Found(site.links[r.url][n], r.depth + 1, pages[c], {visiting[c]}, frontier'[c]),
           r.duplicate => \E j \in DOMAIN pages[c] :
              /\ pages[c][j].url = r.original /\ ~pages[c][j].duplicate
              /\ site.text[r.original] = site.text[r.url]
    PROVE  CrawlOK(c)'
<1>1. CrawlTypes /\ CrawlOK(c)
  BY DEF CrawlInvariant
<1>2. Hand(c) = {visiting[c]} /\ Hand(c)' = {}
  BY DEF Hand
<1>3. /\ pages[c] \in Seq(Records) /\ visiting[c] \in Entries
      /\ frontier[c] \in Seq(Entries) /\ frontier'[c] \in Seq(Entries)
  <2>1. frontier'[c] \in Seq(Entries)
    <3>1. Entries' = Entries
      BY DEF Entries, Addresses
    <3> QED
      BY <3>1 DEF CrawlTypes
  <2> QED
    BY <1>1, <2>1 DEF CrawlTypes
<1>4. KnownOnce(pages[c], {visiting[c]}, seen[c])
  BY <1>1, <1>2 DEF CrawlOK
<1>5. /\ DepthsGrow(pages'[c], {}, frontier'[c]) /\ KnownOnce(pages'[c], {}, seen[c])
      /\ \A url \in Addresses : \A depth \in Nat :
            Found(url, depth, pages[c], {visiting[c]}, frontier'[c]) =>
            Found(url, depth, pages'[c], {}, frontier'[c])
  <2> DEFINE rest == frontier'[c]
             more == Append(pages[c], r)
  <2>1. /\ DepthsGrow(pages[c], {visiting[c]}, rest) /\ rest \in Seq(Entries)
        /\ pages'[c] = more
    BY <1>3
  <2> HIDE DEF rest
  <2>2. /\ DepthsGrow(more, {}, rest) /\ KnownOnce(more, {}, seen[c])
        /\ \A url \in Addresses : \A depth \in Nat :
              Found(url, depth, pages[c], {visiting[c]}, rest) => Found(url, depth, more, {}, rest)
    BY <1>3, <1>4, <2>1, PutPage
  <2> QED
    BY <2>1, <2>2 DEF rest
<1>6. DepthsGrow(pages[c], Hand(c), frontier[c])' /\ KnownOnce(pages[c], Hand(c), seen[c])'
  BY <1>2, <1>5 DEF DepthsGrow, KnownOnce
<1>7. \A url \in Addresses : \A depth \in Nat : FoundBy(c, url, depth) => FoundBy(c, url, depth)'
  <2> TAKE url \in Addresses
  <2> TAKE depth \in Nat
  <2> HAVE FoundBy(c, url, depth)
  <2>1. Found(url, depth, pages'[c], {}, frontier'[c])
    BY <1>2, <1>5 DEF FoundBy
  <2> QED
    BY <1>2, <2>1 DEF FoundBy, Found
<1>8. r.result = "read" /\ ~r.duplicate /\ r.depth < MaxDepth =>
         \A n \in DOMAIN site.links[r.url] : FoundBy(c, site.links[r.url][n], r.depth + 1)'
  <2> SUFFICES ASSUME r.result = "read", ~r.duplicate, r.depth < MaxDepth,
                      NEW n \in DOMAIN site.links[r.url]
               PROVE  FoundBy(c, site.links[r.url][n], r.depth + 1)'
    OBVIOUS
  <2> DEFINE url == site.links[r.url][n]
             depth == r.depth + 1
  <2>1. r.url \in Addresses /\ depth \in Nat
    BY DEF Records
  <2>2. url \in Addresses
    BY <1>1, <2>1, SiteTypes
  <2>3. Found(url, depth, pages[c], {visiting[c]}, frontier'[c])
    OBVIOUS
  <2>4. url' = url
    OBVIOUS
  <2> HIDE DEF url, depth
  <2>5. Found(url, depth, pages'[c], {}, frontier'[c])
    BY <1>5, <2>1, <2>2, <2>3
  <2> QED
    BY <1>2, <2>5 DEF FoundBy, Found, url, depth
<1> QED
  BY <1>6, <1>7, <1>8, CrawlAdvances

\* A page that failed is recorded, and leads nowhere.
LEMMA StepFails ==
    ASSUME CrawlInvariant, NEW c \in Crawls, W!CrawlStep(c),
           crawling[c] \in {"slot", "fetch"}, crawling'[c] = "next",
           UNCHANGED <<site, listed, seen, frontier>>,
           pages' = [pages EXCEPT ![c] = Append(@, W!NoText(visiting[c], "failed"))]
    PROVE  CrawlOK(c)'
<1>1. CrawlTypes /\ CrawlOK(c) /\ CrawlTypes'
  BY StepTypes DEF CrawlInvariant
<1> DEFINE r == W!NoText(visiting[c], "failed")
<1>2. /\ r \in Records /\ r.asked = visiting[c][1] /\ r.depth = visiting[c][2]
      /\ r.result = "failed" /\ ~r.duplicate
  BY <1>1, NoTextIsRecord DEF CrawlTypes
<1>3. pages'[c] = Append(pages[c], r)
  BY <1>1 DEF CrawlTypes
<1> HIDE DEF r
<1>4. DepthsGrow(pages[c], {visiting[c]}, frontier'[c])
  BY <1>1 DEF CrawlOK, Hand
<1> QED
  BY <1>1, <1>2, <1>3, <1>4, HandIsRecorded

\* The next entry is passed over, refused or taken in hand.
LEMMA StepVisit == ASSUME CrawlInvariant, NEW c \in Crawls, W!Visit(c) PROVE CrawlOK(c)'
<1>1. CrawlTypes /\ CrawlOK(c) /\ CrawlTypes'
  BY StepTypes DEF CrawlInvariant, W!CrawlStep
<1> DEFINE e == Head(frontier[c])
           rest == Tail(frontier[c])
           r == W!NoText(e, "refused")
<1>2. /\ crawling[c] = "next" /\ frontier[c] # <<>> /\ Hand(c) = {}
      /\ pages[c] \in Seq(Records) /\ frontier[c] \in Seq(Entries)
      /\ UNCHANGED <<site, listed>> /\ frontier'[c] = rest /\ seen'[c] = seen[c] \cup {e[1]}
  BY <1>1 DEF W!Visit, W!outset, Hand, CrawlTypes
<1>3. /\ DepthsGrow(pages[c], {}, frontier[c]) /\ KnownOnce(pages[c], {}, seen[c])
  BY <1>1, <1>2 DEF CrawlOK
<1>4. /\ e \in Entries /\ rest \in Seq(Entries) /\ e[2] <= MaxDepth
      /\ e[1] \in seen[c] =>
            /\ DepthsGrow(pages[c], {}, rest) /\ KnownOnce(pages[c], {}, seen[c])
            /\ \A url \in Addresses : \A depth \in Nat :
                  Found(url, depth, pages[c], {}, frontier[c]) => Found(url, depth, pages[c], {}, rest)
      /\ e[1] \notin seen[c] =>
            /\ DepthsGrow(pages[c], {e}, rest) /\ KnownOnce(pages[c], {e}, seen[c] \cup {e[1]})
            /\ \A url \in Addresses : \A depth \in Nat :
                  Found(url, depth, pages[c], {}, frontier[c]) => Found(url, depth, pages[c], {e}, rest)
  BY <1>2, <1>3, TakeEntry
<1> HIDE DEF rest
<1>5. CASE e[1] \in seen[c]
  <2>1. UNCHANGED <<crawling, visiting, pages>> /\ seen'[c] = seen[c]
    BY <1>2, <1>5 DEF W!Visit, W!Fresh
  <2>2. Hand(c)' = {} /\ crawling'[c] = "next"
    BY <1>2, <2>1 DEF Hand
  <2>3. DepthsGrow(pages[c], Hand(c), frontier[c])' /\ KnownOnce(pages[c], Hand(c), seen[c])'
    BY <1>2, <1>4, <1>5, <2>1, <2>2 DEF DepthsGrow, KnownOnce
  <2>4. \A url \in Addresses : \A depth \in Nat : FoundBy(c, url, depth) => FoundBy(c, url, depth)'
    BY <1>2, <1>4, <1>5, <2>1, <2>2 DEF FoundBy, Found
  <2> QED
    BY <1>1, <1>2, <2>1, <2>2, <2>3, <2>4, CrawlAdvances
<1>6. CASE e[1] \notin seen[c] /\ W!Allows(policy[c], e[1])
  <2>1. UNCHANGED pages /\ crawling'[c] = "slot" /\ visiting'[c] = e
    BY <1>1, <1>4, <1>6 DEF W!Visit, W!Fresh, W!GoTo, CrawlTypes
  <2>2. Hand(c)' = {e}
    BY <2>1 DEF Hand
  <2> HIDE DEF e
  <2>3. DepthsGrow(pages[c], Hand(c), frontier[c])'
    BY <1>2, <1>4, <1>6, <2>1, <2>2 DEF DepthsGrow
  <2>5. KnownOnce(pages[c], Hand(c), seen[c])'
    BY <1>2, <1>4, <1>6, <2>1, <2>2 DEF KnownOnce
  <2>4. \A url \in Addresses : \A depth \in Nat : FoundBy(c, url, depth) => FoundBy(c, url, depth)'
    BY <1>2, <1>4, <1>6, <2>1, <2>2 DEF FoundBy, Found
  <2>6. crawling[c] \notin {"new", "refused"} /\ crawling'[c] \notin {"new", "sitemap"}
    BY <1>2, <2>1
  <2>7. site' = site /\ listed' = listed /\ pages'[c] = pages[c]
    BY <1>2, <2>1
  <2> QED
    BY <1>1, <2>3, <2>4, <2>5, <2>6, <2>7, CrawlAdvances
<1>7. CASE e[1] \notin seen[c] /\ ~W!Allows(policy[c], e[1])
  <2>1. UNCHANGED <<crawling, visiting>> /\ pages'[c] = Append(pages[c], r)
    BY <1>1, <1>4, <1>7 DEF W!Visit, W!Fresh, CrawlTypes
  <2>2. Hand(c)' = {}
    BY <1>2, <2>1 DEF Hand
  <2>3. r \in Records /\ r.asked = e[1] /\ r.depth = e[2] /\ r.result = "refused" /\ ~r.duplicate
    BY <1>4, NoTextIsRecord
  <2> DEFINE more == Append(pages[c], r)
             known == seen[c] \cup {e[1]}
  <2> HIDE DEF e, r
  <2>4. /\ DepthsGrow(pages[c], {e}, rest) /\ KnownOnce(pages[c], {e}, known)
    BY <1>4, <1>7
  <2> HIDE DEF known
  <2>5. /\ DepthsGrow(more, {}, rest) /\ KnownOnce(more, {}, known)
        /\ \A url \in Addresses : \A depth \in Nat :
              Found(url, depth, pages[c], {e}, rest) => Found(url, depth, more, {}, rest)
    BY <1>2, <1>4, <2>3, <2>4, PutPage
  <2>6. pages'[c] = more /\ seen'[c] = known
    BY <1>2, <2>1 DEF known, r, e
  <2> HIDE DEF more
  <2>7. DepthsGrow(pages[c], Hand(c), frontier[c])'
    BY <1>2, <2>2, <2>5, <2>6 DEF DepthsGrow
  <2>8. KnownOnce(pages[c], Hand(c), seen[c])'
    BY <1>2, <2>2, <2>5, <2>6 DEF KnownOnce
  <2>9. \A url \in Addresses : \A depth \in Nat : FoundBy(c, url, depth) => FoundBy(c, url, depth)'
    <3> TAKE url \in Addresses
    <3> TAKE depth \in Nat
    <3> HAVE FoundBy(c, url, depth)
    <3>1. Found(url, depth, more, {}, rest)
      BY <1>2, <1>4, <1>7, <2>5 DEF FoundBy
    <3> QED
      BY <1>2, <2>2, <2>6, <3>1 DEF FoundBy, Found
  <2>10. crawling[c] \notin {"new", "refused"} /\ crawling'[c] \notin {"new", "sitemap"}
    BY <1>2, <2>1
  <2>11. site' = site /\ listed' = listed
    BY <1>2
  <2>12. pages'[c] = Append(pages[c], r)
    BY <2>6 DEF more
  <2>13. r.result # "read" /\ ~r.duplicate
    BY <2>3
  <2> QED
    BY <1>1, <2>3, <2>7, <2>8, <2>9, <2>10, <2>11, <2>12, <2>13, CrawlAdvances
<1> QED
  BY <1>5, <1>6, <1>7

\* What a page on the host adds to the queue: links not seen, one level below it.
LEMMA LinksQueued ==
    ASSUME CrawlInvariant, NEW c \in Crawls, crawling[c] = "fetch", NEW url \in Addresses,
           NEW order \in W!InOrder(W!Unseen(c, url)), visiting[c][2] < MaxDepth,
           frontier' = [frontier EXCEPT ![c] = @ \o
              [i \in DOMAIN order |-> <<site.links[url][order[i]], visiting[c][2] + 1>>]]
    PROVE  /\ DepthsGrow(pages[c], {visiting[c]}, frontier'[c])
           /\ \A a \in Addresses : \A depth \in Nat :
                 Found(a, depth, pages[c], {visiting[c]}, frontier[c]) =>
                 Found(a, depth, pages[c], {visiting[c]}, frontier'[c])
           /\ \A n \in DOMAIN site.links[url] :
                 Found(site.links[url][n], visiting[c][2] + 1, pages[c], {visiting[c]}, frontier'[c])
<1> DEFINE e == visiting[c]
           new == [i \in DOMAIN order |-> <<site.links[url][order[i]], e[2] + 1>>]
           more == frontier[c] \o new
<1>1. CrawlTypes /\ CrawlOK(c)
  BY DEF CrawlInvariant
<1>2. /\ pages[c] \in Seq(Records) /\ frontier[c] \in Seq(Entries) /\ e \in Entries
      /\ Hand(c) = {e}
  BY <1>1 DEF CrawlTypes, Hand
<1>3. DepthsGrow(pages[c], {e}, frontier[c]) /\ KnownOnce(pages[c], {e}, seen[c])
  BY <1>1, <1>2 DEF CrawlOK
<1>4. e[2] \in Nat /\ e[2] < MaxDepth
  BY <1>2 DEF Entries
<1>5. /\ new \in Seq(Entries) /\ \A n \in DOMAIN new : new[n][2] = e[2] + 1
      /\ \A n \in DOMAIN site.links[url] :
            \/ site.links[url][n] \in seen[c]
            \/ \E i \in DOMAIN new : new[i][1] = site.links[url][n]
  <2> DEFINE depth == e[2]
  <2>1. depth \in Nat
    BY <1>4
  <2> HIDE DEF depth
  <2>2. LET those == [i \in DOMAIN order |-> <<site.links[url][order[i]], depth + 1>>]
        IN  /\ those \in Seq(Entries) /\ \A n \in DOMAIN those : those[n][2] = depth + 1
            /\ \A n \in DOMAIN site.links[url] :
                  \/ site.links[url][n] \in seen[c]
                  \/ \E i \in DOMAIN those : those[i][1] = site.links[url][n]
    BY <1>1, <2>1, LinkEntries
  <2> QED
    BY <2>2 DEF depth
<1>6. frontier'[c] = more
  BY <1>1 DEF CrawlTypes
<1> HIDE DEF e, new
<1>7. /\ DepthsGrow(pages[c], {e}, more)
      /\ \A a \in Addresses : \A depth \in Nat :
            Found(a, depth, pages[c], {e}, frontier[c]) => Found(a, depth, pages[c], {e}, more)
      /\ \A n \in DOMAIN new : Found(new[n][1], e[2] + 1, pages[c], {e}, more)
  BY <1>2, <1>3, <1>4, <1>5, AddEntries
<1> HIDE DEF more
<1>8. ASSUME NEW n \in DOMAIN site.links[url]
      PROVE  Found(site.links[url][n], e[2] + 1, pages[c], {e}, more)
  <2>1. CASE \E i \in DOMAIN new : new[i][1] = site.links[url][n]
    BY <1>7, <2>1
  <2>2. CASE site.links[url][n] \in seen[c]
    <3>1. CASE e[1] = site.links[url][n]
      BY <1>4, <3>1 DEF Found
    <3>2. ASSUME NEW i \in DOMAIN pages[c], pages[c][i].asked = site.links[url][n]
          PROVE  Found(site.links[url][n], e[2] + 1, pages[c], {e}, more)
      <4>1. pages[c][i].depth <= e[2] /\ pages[c][i].depth \in Nat
        BY <1>2, <1>3, DepthsAreNat DEF DepthsGrow
      <4>2. pages[c][i].depth <= e[2] + 1
        BY <1>4, <4>1
      <4> QED
        BY <3>2, <4>2 DEF Found
    <3> QED
      BY <1>3, <2>2, <3>1, <3>2 DEF KnownOnce
  <2> QED
    BY <1>5, <2>1, <2>2
<1> QED
  BY <1>6, <1>7, <1>8 DEF e

\* A page that was read is recorded, with its links in the queue if they are followed.
LEMMA StepRead == ASSUME CrawlInvariant, NEW c \in Crawls, W!Read(c) PROVE CrawlOK(c)'
<1>1. CrawlTypes /\ CrawlOK(c) /\ CrawlTypes'
  BY StepTypes DEF CrawlInvariant, W!CrawlStep
<1>2. /\ crawling[c] = "fetch" /\ crawling'[c] = "next" /\ UNCHANGED <<site, listed, seen>>
  BY <1>1 DEF W!Read, W!GoTo, W!outset, CrawlTypes
<1>3. DepthsGrow(pages[c], {visiting[c]}, frontier[c])
  BY <1>1, <1>2 DEF CrawlOK, Hand
<1>4. PICK url \in Addresses \cup {Elsewhere} :
          \/ url # Elsewhere /\ url \in Addresses /\ W!Record(c, url)
          \/ /\ url = Elsewhere /\ UNCHANGED frontier
             /\ pages' = [pages EXCEPT ![c] = Append(@, W!NoText(visiting[c], "failed"))]
  BY <1>1, Landing
<1>5. CASE /\ url = Elsewhere /\ UNCHANGED frontier
           /\ pages' = [pages EXCEPT ![c] = Append(@, W!NoText(visiting[c], "failed"))]
  BY <1>2, <1>5, StepFails DEF W!CrawlStep
<1>6. CASE url \in Addresses /\ W!Record(c, url)
  <2> DEFINE same == W!SameText(c, url)
  <2>1. PICK r \in Records :
           /\ pages' = [pages EXCEPT ![c] = Append(@, r)]
           /\ r.asked = visiting[c][1] /\ r.depth = visiting[c][2] /\ r.url = url
           /\ r.duplicate = (same # {})
           /\ r.duplicate => \E s \in same : r.original = s.url
    BY <1>1, <1>6, RecordTypes
  <2>2. pages'[c] = Append(pages[c], r)
    BY <1>1, <2>1 DEF CrawlTypes
  <2>3. \/ ~W!Follows(visiting[c][2], same = {}) /\ UNCHANGED frontier
        \/ /\ W!Follows(visiting[c][2], same = {})
           /\ \E order \in W!InOrder(W!Unseen(c, url)) :
                 frontier' = [frontier EXCEPT ![c] = @ \o
                    [i \in DOMAIN order |-> <<site.links[url][order[i]], visiting[c][2] + 1>>]]
    BY <1>1, <1>6, RecordTypes
  <2>4. r.duplicate => \E j \in DOMAIN pages[c] :
           /\ pages[c][j].url = r.original /\ ~pages[c][j].duplicate
           /\ site.text[r.original] = site.text[r.url]
    BY <2>1 DEF W!SameText, W!Originals, W!ToSet
  <2> HIDE DEF same
  <2>5. CASE ~W!Follows(visiting[c][2], same = {}) /\ UNCHANGED frontier
    <3>1. ~(~r.duplicate /\ r.depth < MaxDepth)
      BY <2>1, <2>5 DEF W!Follows
    <3>2. DepthsGrow(pages[c], {visiting[c]}, frontier'[c])
      BY <1>3, <2>5
    <3>3. \A a \in Addresses : \A depth \in Nat :
             Found(a, depth, pages[c], {visiting[c]}, frontier[c]) =>
             Found(a, depth, pages[c], {visiting[c]}, frontier'[c])
      BY <2>5
    <3> QED
      BY <1>1, <1>2, <2>1, <2>2, <2>4, <3>1, <3>2, <3>3, HandIsRecorded
  <2>6. ASSUME W!Follows(visiting[c][2], same = {}), NEW order \in W!InOrder(W!Unseen(c, url)),
               frontier' = [frontier EXCEPT ![c] = @ \o
                  [i \in DOMAIN order |-> <<site.links[url][order[i]], visiting[c][2] + 1>>]]
        PROVE  CrawlOK(c)'
    <3>1. visiting[c][2] < MaxDepth
      BY <2>6 DEF W!Follows
    <3>2. /\ DepthsGrow(pages[c], {visiting[c]}, frontier'[c])
          /\ \A a \in Addresses : \A depth \in Nat :
                Found(a, depth, pages[c], {visiting[c]}, frontier[c]) =>
                Found(a, depth, pages[c], {visiting[c]}, frontier'[c])
          /\ \A n \in DOMAIN site.links[url] :
                Found(site.links[url][n], visiting[c][2] + 1, pages[c], {visiting[c]}, frontier'[c])
      BY <1>2, <1>6, <2>6, <3>1, LinksQueued
    <3>3. \A n \in DOMAIN site.links[r.url] :
             Found(site.links[r.url][n], r.depth + 1, pages[c], {visiting[c]}, frontier'[c])
      BY <2>1, <3>2
    <3> QED
      BY <1>1, <1>2, <2>1, <2>2, <2>4, <3>2, <3>3, HandIsRecorded
  <2> QED
    BY <2>3, <2>5, <2>6
<1> QED
  BY <1>4, <1>5, <1>6

\* Every step of the crawls keeps what holds of them.
LEMMA StepCrawl == CrawlInvariant /\ [W!Next]_crawlvars => CrawlInvariant'
<1> SUFFICES ASSUME CrawlInvariant, [W!Next]_crawlvars PROVE CrawlInvariant'
  OBVIOUS
<1>1. CASE UNCHANGED <<site, crawling, unread, listed, frontier, seen, pages, visiting, hops, cached>>
  <2>1. CrawlTypes'
    BY <1>1 DEF CrawlInvariant, CrawlTypes, Addresses, Entries, Records
  <2>2. \A c \in Crawls : CrawlOK(c)'
    BY <1>1, SameCrawl DEF Same
  <2> QED
    BY <2>1, <2>2 DEF CrawlInvariant
<1>2. ASSUME NEW c \in Crawls, W!CrawlStep(c) PROVE CrawlInvariant'
  <2>1. CrawlTypes'
    BY <1>2, StepTypes DEF CrawlInvariant
  <2>2. \A d \in Crawls \ {c} : CrawlOK(d)'
    BY <1>2, OneCrawl, SameCrawl DEF CrawlInvariant
  <2>3. CrawlOK(c)'
    <3>1. CASE W!Begin(c) \/ W!ReadSitemap(c) \/ W!Visit(c) \/ W!Read(c)
      BY <3>1, StepBegin, StepSitemap, StepVisit, StepRead
    <3>2. CASE W!StartWalk(c) \/ W!End(c) \/ W!Redirect(c)
      BY <3>2, StepStill
    <3>3. CASE W!TakeSlot(c)
      <4>1. CASE UNCHANGED pages
        BY <3>3, <4>1, StepStill
      <4>2. CASE /\ pages' = [pages EXCEPT ![c] = Append(@, W!NoText(visiting[c], "failed"))]
                 /\ W!GoTo(c, "next")
        <5>1. /\ crawling[c] \in {"slot", "fetch"} /\ crawling'[c] = "next"
              /\ UNCHANGED <<site, listed, seen, frontier>>
          BY <3>3, <4>2 DEF W!TakeSlot, W!GoTo, W!outset, CrawlInvariant, CrawlTypes
        <5> QED
          BY <1>2, <4>2, <5>1, StepFails
      <4> QED
        BY <3>3, <4>1, <4>2 DEF W!TakeSlot
    <3>4. CASE W!FetchFails(c)
      <4>1. /\ crawling[c] \in {"slot", "fetch"} /\ crawling'[c] = "next"
            /\ UNCHANGED <<site, listed, seen, frontier>>
            /\ pages' = [pages EXCEPT ![c] = Append(@, W!NoText(visiting[c], "failed"))]
        BY <3>4 DEF W!FetchFails, W!GoTo, W!outset, CrawlInvariant, CrawlTypes
      <4> QED
        BY <1>2, <4>1, StepFails
    <3> QED
      BY <1>2, <3>1, <3>2, <3>3, <3>4 DEF W!CrawlStep
  <2> QED
    BY <2>1, <2>2, <2>3 DEF CrawlInvariant
<1>3. CASE W!SlotExpires \/ W!RobotsExpires
  BY <1>1, <1>3 DEF W!SlotExpires, W!RobotsExpires, W!outset
<1>4. CASE UNCHANGED crawlvars
  BY <1>1, <1>4 DEF crawlvars
<1> QED
  BY <1>2, <1>3, <1>4 DEF W!Next

\* Every crawl that keeps the invariant is whole.
LEMMA CrawlReads == CrawlInvariant => CrawlIsWhole
<1> SUFFICES ASSUME CrawlInvariant, NEW c \in Crawls
             PROVE  /\ \A i \in DOMAIN pages[c] :
                          LET p == pages[c][i] IN
                          /\ W!Recorded(c, p.asked) = {i}
                          /\ p.duplicate => \E j \in 1..i - 1 :
                                /\ pages[c][j].url = p.original /\ ~pages[c][j].duplicate
                                /\ site.text[p.original] = site.text[p.url]
                    /\ crawling[c] = "done" /\ frontier[c] = <<>> =>
                          /\ \A url \in listed[c] \union {site.start} :
                                \E i \in W!Recorded(c, url) : pages[c][i].depth = 0
                          /\ \A p \in W!Originals(c) : p.depth < MaxDepth =>
                                \A url \in W!ToSet(site.links[p.url]) :
                                   \E i \in W!Recorded(c, url) : pages[c][i].depth <= p.depth + 1
  BY DEF CrawlIsWhole, W!PagesOnce, W!CrawlIsComplete
<1>1. CrawlOK(c) /\ pages[c] \in Seq(Records)
  BY DEF CrawlInvariant, CrawlTypes
<1>2. ASSUME NEW i \in DOMAIN pages[c]
      PROVE  /\ W!Recorded(c, pages[c][i].asked) = {i}
             /\ pages[c][i].duplicate => \E j \in 1..i - 1 :
                   /\ pages[c][j].url = pages[c][i].original /\ ~pages[c][j].duplicate
                   /\ site.text[pages[c][i].original] = site.text[pages[c][i].url]
  <2>1. W!Recorded(c, pages[c][i].asked) = {i}
    BY <1>1 DEF CrawlOK, KnownOnce, W!Recorded
  <2> QED
    BY <1>1, <2>1 DEF CrawlOK, DuplicatesOK
<1>3. ASSUME crawling[c] = "done", frontier[c] = <<>>, NEW url, NEW depth, FoundBy(c, url, depth)
      PROVE  \E i \in W!Recorded(c, url) : pages[c][i].depth <= depth
  BY <1>3 DEF FoundBy, Found, Hand, W!Recorded
<1>4. ASSUME crawling[c] = "done", frontier[c] = <<>>
      PROVE  /\ \A url \in listed[c] \union {site.start} :
                   \E i \in W!Recorded(c, url) : pages[c][i].depth = 0
             /\ \A p \in W!Originals(c) : p.depth < MaxDepth =>
                   \A url \in W!ToSet(site.links[p.url]) :
                      \E i \in W!Recorded(c, url) : pages[c][i].depth <= p.depth + 1
  <2>1. ASSUME NEW url \in listed[c] \union {site.start}
        PROVE  \E i \in W!Recorded(c, url) : pages[c][i].depth = 0
    <3>1. FoundBy(c, url, 0)
      BY <1>1, <1>4 DEF CrawlOK, SourcesOK
    <3>2. PICK i \in W!Recorded(c, url) : pages[c][i].depth <= 0
      BY <1>3, <1>4, <3>1
    <3>3. pages[c][i].depth \in Nat
      BY <1>1, DepthsAreNat DEF W!Recorded
    <3> QED
      BY <3>2, <3>3
  <2>2. ASSUME NEW p \in W!Originals(c), p.depth < MaxDepth, NEW url \in W!ToSet(site.links[p.url])
        PROVE  \E i \in W!Recorded(c, url) : pages[c][i].depth <= p.depth + 1
    <3>1. PICK i \in DOMAIN pages[c] : p = pages[c][i] /\ p.result = "read" /\ ~p.duplicate
      BY DEF W!Originals, W!ToSet
    <3>2. PICK n \in DOMAIN site.links[p.url] : url = site.links[p.url][n]
      BY DEF W!ToSet
    <3>4. LinksFound(c)
      BY <1>1 DEF CrawlOK
    <3>5. ASSUME NEW m \in DOMAIN site.links[pages[c][i].url]
          PROVE  FoundBy(c, site.links[pages[c][i].url][m], pages[c][i].depth + 1)
      BY <2>2, <3>1, <3>4 DEF LinksFound
    <3>3. FoundBy(c, url, p.depth + 1)
      BY <3>1, <3>2, <3>5
    <3> QED
      BY <1>3, <1>4, <3>3
  <2> QED
    BY <2>1, <2>2
<1> QED
  BY <1>2, <1>4

-----------------------------------------------------------------------------
\* What holds of the parser: each counter is that of open elements, a heading under way
\* is one of them, and what is kept are texts that were read, in order.
IgnoredAt == {i \in DOMAIN open : open[i] \in Ignored}
Clear(i) == \A j \in 1..i : open[j] \notin Ignored
PreferredAt == {i \in DOMAIN open : open[i] \in Preferred /\ Clear(i)}

CountersOK ==
    /\ open \in Seq(P!Tags)
    /\ IsFiniteSet(IgnoredAt) /\ ignoredDepth = Cardinality(IgnoredAt)
    /\ IsFiniteSet(PreferredAt) /\ preferredDepth = Cardinality(PreferredAt)
    /\ heading # P!Nothing => \E i \in DOMAIN open : open[i] = heading /\ Clear(i)

Read(part) ==
    /\ part \in Seq(Nat) /\ \A i \in DOMAIN part : part[i] < tokens
    /\ \A i, j \in DOMAIN part : i < j => part[i] < part[j]

LinksOK ==
    /\ link \in P!Tags \cup {P!Nothing}
    /\ linkText \in Seq(Nat) /\ P!ToSet(linkText) \subseteq P!ToSet(all)
    /\ links \in Seq((P!Tags \cup {P!Nothing}) \X Seq(Nat))
    /\ \A i \in DOMAIN links : P!ToSet(links[i][2]) \subseteq P!ToSet(all)

SeenOK ==
    /\ P!ToSet(all) = {v[1] : v \in visible}
    /\ P!ToSet(main) = {v[1] : v \in P!Inside(Preferred)}

TextsOK == tokens \in Nat /\ Read(all) /\ Read(main) /\ LinksOK /\ SeenOK

PageInvariant == CountersOK /\ TextsOK

\* The texts of a part: none of an empty one, and one more with each that is added.
LEMMA NoTexts == P!ToSet(<<>>) = {}
BY DEF P!ToSet

\* The texts of a part that gets one more.
LEMMA OneText ==
    ASSUME NEW part \in Seq(Nat), NEW text \in Nat
    PROVE  P!ToSet(Append(part, text)) = P!ToSet(part) \cup {text}
<1> DEFINE longer == Append(part, text)
<1>1. /\ DOMAIN longer = DOMAIN part \cup {Len(part) + 1} /\ longer[Len(part) + 1] = text
      /\ \A i \in DOMAIN part : longer[i] = part[i]
  OBVIOUS
<1> HIDE DEF longer
<1>2. P!ToSet(longer) = P!ToSet(part) \cup {text}
  BY <1>1 DEF P!ToSet
<1> QED
  BY <1>2 DEF longer

\* The texts of a set of them, with one more.
LEMMA OneSeen ==
    ASSUME NEW texts, NEW text, NEW elements
    PROVE  {v[1] : v \in texts \cup {<<text, elements>>}} = {v[1] : v \in texts} \cup {text}
<1>1. <<text, elements>>[1] = text
  OBVIOUS
<1>2. \A x : x \in {v[1] : v \in texts \cup {<<text, elements>>}} <=>
             x \in {v[1] : v \in texts} \cup {text}
  BY <1>1
<1> QED
  BY <1>2

\* A parser that has read nothing counts nothing.
LEMMA InitPage == P!Init => PageInvariant
<1> SUFFICES ASSUME P!Init PROVE PageInvariant
  OBVIOUS
<1>1. IgnoredAt = {} /\ PreferredAt = {}
  BY DEF P!Init, IgnoredAt, PreferredAt
<1>2. CountersOK
  BY <1>1, FS_EmptySet DEF P!Init, CountersOK
<1>3. TextsOK
  BY DEF P!Init, TextsOK, LinksOK, SeenOK, Read, P!ToSet, P!Inside
<1> QED
  BY <1>2, <1>3 DEF PageInvariant

\* A counter is 0 exactly when none of its elements is open.
LEMMA CountersZero ==
    ASSUME CountersOK
    PROVE  /\ ignoredDepth \in Nat /\ preferredDepth \in Nat
           /\ ignoredDepth = 0 <=> P!ToSet(open) \cap Ignored = {}
           /\ ignoredDepth = 0 =>
                 (preferredDepth > 0 <=> P!ToSet(open) \cap Preferred # {})
<1>1. ignoredDepth \in Nat /\ preferredDepth \in Nat
  BY FS_CardinalityType DEF CountersOK
<1>2. ignoredDepth = 0 <=> IgnoredAt = {}
  BY FS_EmptySet DEF CountersOK
<1>3. preferredDepth = 0 <=> PreferredAt = {}
  BY FS_EmptySet DEF CountersOK
<1>4. IgnoredAt = {} <=> P!ToSet(open) \cap Ignored = {}
  BY DEF IgnoredAt, P!ToSet
<1>5. IgnoredAt = {} => (PreferredAt = {} <=> P!ToSet(open) \cap Preferred = {})
  <2> SUFFICES ASSUME IgnoredAt = {} PROVE PreferredAt = {} <=> P!ToSet(open) \cap Preferred = {}
    OBVIOUS
  <2>1. \A i \in DOMAIN open : Clear(i)
    BY DEF IgnoredAt, Clear, CountersOK
  <2> QED
    BY <2>1 DEF PreferredAt, P!ToSet
<1> QED
  BY <1>1, <1>2, <1>3, <1>4, <1>5

\* An element is opened: a counter that is not 0 elsewhere goes up by one.
LEMMA Opened ==
    ASSUME CountersOK, NEW tag \in P!Tags, open' = Append(open, tag), NEW n, n = Len(open) + 1
    PROVE  /\ open' \in Seq(P!Tags) /\ DOMAIN open' = DOMAIN open \cup {n}
           /\ n \notin DOMAIN open /\ open'[n] = tag
           /\ \A i \in DOMAIN open : open'[i] = open[i] /\ (Clear(i)' <=> Clear(i))
           /\ IgnoredAt' = IgnoredAt \cup (IF tag \in Ignored THEN {n} ELSE {})
           /\ Clear(n)' <=> ignoredDepth = 0 /\ tag \notin Ignored
           /\ PreferredAt' = PreferredAt \cup
                 (IF tag \in Preferred /\ ignoredDepth = 0 THEN {n} ELSE {})
<1>1. open \in Seq(P!Tags)
  BY DEF CountersOK
<1>2. /\ open' \in Seq(P!Tags) /\ DOMAIN open' = DOMAIN open \cup {n}
      /\ n \notin DOMAIN open /\ open'[n] = tag
      /\ \A i \in DOMAIN open : open'[i] = open[i]
  BY <1>1
<1>3. \A i \in DOMAIN open : Clear(i)' <=> Clear(i)
  BY <1>1, <1>2 DEF Clear
<1>4. IgnoredAt' = IgnoredAt \cup (IF tag \in Ignored THEN {n} ELSE {})
  BY <1>2 DEF IgnoredAt
<1>5. Clear(n)' <=> ignoredDepth = 0 /\ tag \notin Ignored
  <2>1. ignoredDepth = 0 <=> \A i \in DOMAIN open : open[i] \notin Ignored
    BY CountersZero DEF P!ToSet
  <2>2. 1..n = DOMAIN open \cup {n}
    BY <1>1
  <2> QED
    BY <1>2, <2>1, <2>2 DEF Clear
<1>6. PreferredAt' = PreferredAt \cup
         (IF tag \in Preferred /\ ignoredDepth = 0 THEN {n} ELSE {})
  <2>1. tag \in Preferred => tag \notin Ignored
    BY OutsideAssumption DEF P!PageAssumption
  <2> QED
    BY <1>2, <1>3, <1>5, <2>1 DEF PreferredAt
<1> QED
  BY <1>2, <1>3, <1>4, <1>5, <1>6

\* The element opened last is closed.
LEMMA Closed ==
    ASSUME CountersOK, open # <<>>, open' = P!Front(open)
    PROVE  LET n == Len(open)
               tag == P!Last(open)
           IN  /\ open' \in Seq(P!Tags) /\ n \in DOMAIN open /\ open[n] = tag /\ tag \in P!Tags
               /\ DOMAIN open' = DOMAIN open \ {n}
               /\ \A i \in DOMAIN open' : open'[i] = open[i] /\ (Clear(i)' <=> Clear(i))
               /\ IgnoredAt' = IgnoredAt \ {n} /\ (n \in IgnoredAt <=> tag \in Ignored)
               /\ PreferredAt' = PreferredAt \ {n}
               /\ n \in PreferredAt <=> tag \in Preferred /\ ignoredDepth = 0
               /\ Clear(n) <=> ignoredDepth = 0
<1> DEFINE n == Len(open)
<1>1. open \in Seq(P!Tags) /\ n \in Nat \ {0} /\ DOMAIN open = 1..n
  BY DEF CountersOK
<1>2. /\ open' \in Seq(P!Tags) /\ n \in DOMAIN open /\ open[n] = P!Last(open)
      /\ P!Last(open) \in P!Tags
      /\ DOMAIN open' = 1..(n - 1) /\ \A i \in 1..(n - 1) : open'[i] = open[i]
  BY <1>1 DEF P!Front, P!Last
<1>3. DOMAIN open' = DOMAIN open \ {n}
  BY <1>1, <1>2
<1>4. \A i \in DOMAIN open' : Clear(i)' <=> Clear(i)
  BY <1>1, <1>2 DEF Clear
<1>5. Clear(n) <=> ignoredDepth = 0
  BY <1>1, CountersZero DEF Clear, P!ToSet
<1>6. n \in PreferredAt <=> P!Last(open) \in Preferred /\ ignoredDepth = 0
  BY <1>2, <1>5 DEF PreferredAt
<1>7. IgnoredAt' = IgnoredAt \ {n} /\ PreferredAt' = PreferredAt \ {n}
  BY <1>1, <1>2, <1>3, <1>4 DEF IgnoredAt, PreferredAt
<1>8. n \in IgnoredAt <=> P!Last(open) \in Ignored
  BY <1>2 DEF IgnoredAt
<1> QED
  BY <1>2, <1>3, <1>4, <1>5, <1>6, <1>7, <1>8

\* The text of this token is kept, or is not.
LEMMA TextKept ==
    ASSUME NEW part, Read(part), tokens \in Nat, NEW keep \in BOOLEAN,
           NEW kept, kept = IF keep THEN Append(part, tokens) ELSE part,
           tokens' = tokens + 1
    PROVE  /\ kept \in Seq(Nat) /\ \A i \in DOMAIN kept : kept[i] < tokens'
           /\ \A i, j \in DOMAIN kept : i < j => kept[i] < kept[j]
           /\ P!ToSet(kept) = P!ToSet(part) \cup (IF keep THEN {tokens} ELSE {})
<1>1. part \in Seq(Nat) /\ \A i \in DOMAIN part : part[i] < tokens /\ part[i] \in Nat
  BY DEF Read
<1>2. CASE ~keep
  BY <1>1, <1>2 DEF Read
<1>3. CASE keep
  <2>1. /\ kept \in Seq(Nat) /\ Len(kept) = Len(part) + 1 /\ kept[Len(kept)] = tokens
        /\ \A i \in 1..Len(part) : kept[i] = part[i]
    BY <1>1, <1>3
  <2>2. DOMAIN kept = DOMAIN part \cup {Len(kept)} /\ DOMAIN part = 1..Len(part)
    BY <1>1, <2>1
  <2>3. \A i, j \in DOMAIN kept : i < j => kept[i] < kept[j]
    BY <1>1, <2>1, <2>2 DEF Read
  <2>4. P!ToSet(kept) = P!ToSet(part) \cup {tokens}
    BY <2>1, <2>2 DEF P!ToSet
  <2> QED
    BY <1>1, <1>3, <2>1, <2>2, <2>3, <2>4
<1> QED
  BY <1>2, <1>3

\* Every tag and text keeps what holds of the parser.
LEMMA StepPage == PageInvariant /\ [P!Next]_pagevars => PageInvariant'
<1> SUFFICES ASSUME CountersOK, TextsOK, [P!Next]_pagevars PROVE CountersOK' /\ TextsOK'
  BY DEF PageInvariant
<1>0. tokens \in Nat /\ ignoredDepth \in Nat /\ preferredDepth \in Nat
  BY CountersZero DEF TextsOK
<1>1. CASE UNCHANGED pagevars
  <2>1. CountersOK'
    BY <1>1 DEF pagevars, CountersOK, IgnoredAt, PreferredAt, Clear
  <2>2. TextsOK'
    BY <1>1 DEF pagevars, TextsOK, LinksOK, SeenOK, Read, P!Inside
  <2> QED
    BY <2>1, <2>2
<1>2. ASSUME NEW tag \in P!Tags, P!Start(tag) PROVE CountersOK' /\ TextsOK'
  <2> DEFINE n == Len(open) + 1
  <2>0. open' = Append(open, tag)
    BY <1>2 DEF P!Start
  <2>1. IsFiniteSet(IgnoredAt') /\ ignoredDepth' = Cardinality(IgnoredAt')
    <3>1. CASE tag \in Ignored
      <4>1. IgnoredAt' = IgnoredAt \cup {n} /\ n \notin IgnoredAt
        BY <2>0, <3>1, Opened DEF IgnoredAt
      <4> QED
        BY <1>0, <1>2, <3>1, <4>1, FS_AddElement DEF P!Start, CountersOK
    <3>2. CASE tag \notin Ignored
      <4>1. IgnoredAt' = IgnoredAt
        BY <2>0, <3>2, Opened
      <4> QED
        BY <1>2, <3>2, <4>1 DEF P!Start, CountersOK
    <3> QED
      BY <3>1, <3>2
  <2>2. IsFiniteSet(PreferredAt') /\ preferredDepth' = Cardinality(PreferredAt')
    <3>1. CASE tag \in Preferred /\ ignoredDepth = 0
      <4>1. PreferredAt' = PreferredAt \cup {n} /\ n \notin PreferredAt
        BY <2>0, <3>1, Opened DEF PreferredAt
      <4> QED
        BY <1>0, <1>2, <3>1, <4>1, FS_AddElement DEF P!Start, P!StartPreferred, CountersOK
    <3>2. CASE ~(tag \in Preferred /\ ignoredDepth = 0)
      <4>1. PreferredAt' = PreferredAt
        BY <2>0, <3>2, Opened
      <4> QED
        BY <1>2, <3>2, <4>1 DEF P!Start, P!StartPreferred, CountersOK
    <3> QED
      BY <3>1, <3>2
  <2>3. heading' # P!Nothing => \E i \in DOMAIN open' : open'[i] = heading' /\ Clear(i)'
    <3>1. CASE heading' = heading
      BY <2>0, <3>1, Opened DEF CountersOK
    <3>2. CASE P!Shown(tag) /\ heading' = tag
      BY <2>0, <3>2, Opened DEF P!Shown
    <3> QED
      BY <1>2, <3>1, <3>2 DEF P!Start
  <2>4. CountersOK'
    BY <2>0, <2>1, <2>2, <2>3, Opened DEF CountersOK
  <2>5. /\ tokens' = tokens + 1 /\ UNCHANGED <<visible, all, main, links>>
        /\ \/ UNCHANGED <<link, linkText>>
           \/ link' = tag /\ linkText' = <<>>
    BY <1>2 DEF P!Start, P!Token
  <2>6. TextsOK'
    <3>1. Read(all)' /\ Read(main)'
      BY <1>0, <2>5 DEF TextsOK, Read
    <3>2. LinksOK'
      <4>1. link' \in P!Tags \cup {P!Nothing}
        BY <2>5 DEF TextsOK, LinksOK
      <4>2. linkText' \in Seq(Nat) /\ P!ToSet(linkText') \subseteq P!ToSet(all')
        <5>1. CASE linkText' = linkText
          BY <2>5, <5>1 DEF TextsOK, LinksOK
        <5>2. CASE linkText' = <<>>
          BY <5>2, NoTexts
        <5> QED
          BY <2>5, <5>1, <5>2
      <4> QED
        BY <2>5, <4>1, <4>2 DEF TextsOK, LinksOK
    <3>3. SeenOK'
      BY <2>5 DEF TextsOK, SeenOK, P!Inside
    <3> QED
      BY <1>0, <2>5, <3>1, <3>2, <3>3 DEF TextsOK
  <2> QED
    BY <2>4, <2>6
<1>3. ASSUME NEW tag \in P!Tags, P!End(tag) PROVE CountersOK' /\ TextsOK'
  <2> DEFINE n == Len(open)
  <2>0. /\ open # <<>> /\ tag = P!Last(open) /\ open' = P!Front(open)
        /\ tokens' = tokens + 1 /\ UNCHANGED <<visible, all, main>>
    BY <1>3 DEF P!End, P!Token
  <2>a. /\ open' \in Seq(P!Tags) /\ n \in DOMAIN open /\ open[n] = tag /\ tag \in P!Tags
        /\ DOMAIN open' = DOMAIN open \ {n}
        /\ \A i \in DOMAIN open' : open'[i] = open[i] /\ (Clear(i)' <=> Clear(i))
        /\ IgnoredAt' = IgnoredAt \ {n} /\ (n \in IgnoredAt <=> tag \in Ignored)
        /\ PreferredAt' = PreferredAt \ {n}
        /\ n \in PreferredAt <=> tag \in Preferred /\ ignoredDepth = 0
        /\ Clear(n) <=> ignoredDepth = 0
    BY <2>0, Closed
  <2>1. IsFiniteSet(IgnoredAt') /\ ignoredDepth' = Cardinality(IgnoredAt')
    <3>1. CASE tag \in Ignored
      BY <1>0, <1>3, <2>a, <3>1, FS_RemoveElement DEF P!End, CountersOK
    <3>2. CASE tag \notin Ignored
      <4>1. IgnoredAt' = IgnoredAt
        BY <2>a, <3>2
      <4> QED
        BY <1>3, <3>2, <4>1 DEF P!End, CountersOK
    <3> QED
      BY <3>1, <3>2
  <2>2. IsFiniteSet(PreferredAt') /\ preferredDepth' = Cardinality(PreferredAt')
    <3>1. CASE tag \in Preferred /\ ignoredDepth = 0
      BY <1>0, <1>3, <2>a, <3>1, FS_RemoveElement DEF P!End, CountersOK
    <3>2. CASE ~(tag \in Preferred /\ ignoredDepth = 0)
      <4>1. PreferredAt' = PreferredAt
        BY <2>a, <3>2
      <4> QED
        BY <1>3, <3>2, <4>1 DEF P!End, CountersOK
    <3> QED
      BY <3>1, <3>2
  <2>3. heading' # P!Nothing => \E i \in DOMAIN open' : open'[i] = heading' /\ Clear(i)'
    <3> SUFFICES ASSUME heading' # P!Nothing
                 PROVE  \E i \in DOMAIN open' : open'[i] = heading' /\ Clear(i)'
      OBVIOUS
    <3>1. heading' = heading /\ ~(P!Shown(tag) /\ tag = heading)
      BY <1>3 DEF P!End, P!EndHeading
    <3>2. PICK i \in DOMAIN open : open[i] = heading /\ Clear(i)
      BY <3>1 DEF CountersOK
    <3>3. i # n
      <4> SUFFICES ASSUME i = n PROVE FALSE
        OBVIOUS
      <4>1. tag = heading /\ ignoredDepth = 0
        BY <2>a, <3>2
      <4>2. tag \notin Ignored
        BY <2>a, <4>1, CountersZero DEF P!ToSet
      <4> QED
        BY <3>1, <4>1, <4>2 DEF P!Shown
    <3> QED
      BY <2>a, <3>1, <3>2, <3>3
  <2>4. CountersOK'
    BY <2>a, <2>1, <2>2, <2>3 DEF CountersOK
  <2>5. Read(all)' /\ Read(main)'
    BY <1>0, <2>0 DEF TextsOK, Read
  <2>6. \/ UNCHANGED <<link, linkText, links>>
        \/ /\ link' = P!Nothing /\ linkText' = <<>>
           /\ links' = links \/ links' = Append(links, <<link, linkText>>)
    BY <1>3 DEF P!End, P!EndLink
  <2>7. /\ link' \in P!Tags \cup {P!Nothing}
        /\ linkText' \in Seq(Nat) /\ P!ToSet(linkText') \subseteq P!ToSet(all)
    <3>1. link' \in P!Tags \cup {P!Nothing}
      BY <2>6 DEF TextsOK, LinksOK
    <3>2. CASE linkText' = linkText
      BY <3>1, <3>2 DEF TextsOK, LinksOK
    <3>3. CASE linkText' = <<>>
      BY <3>1, <3>3, NoTexts
    <3> QED
      BY <2>6, <3>2, <3>3
  <2>8. /\ links' \in Seq((P!Tags \cup {P!Nothing}) \X Seq(Nat))
        /\ \A i \in DOMAIN links' : P!ToSet(links'[i][2]) \subseteq P!ToSet(all)
    <3>1. CASE links' = links
      BY <3>1 DEF TextsOK, LinksOK
    <3>2. CASE links' = Append(links, <<link, linkText>>)
      <4>1. /\ links \in Seq((P!Tags \cup {P!Nothing}) \X Seq(Nat))
            /\ <<link, linkText>> \in (P!Tags \cup {P!Nothing}) \X Seq(Nat)
        BY DEF TextsOK, LinksOK
      <4>2. /\ links' \in Seq((P!Tags \cup {P!Nothing}) \X Seq(Nat))
            /\ \A i \in DOMAIN links' :
                  \/ i \in DOMAIN links /\ links'[i] = links[i]
                  \/ links'[i] = <<link, linkText>>
        BY <3>2, <4>1
      <4>3. <<link, linkText>>[2] = linkText
        OBVIOUS
      <4>4. ASSUME NEW i \in DOMAIN links' PROVE P!ToSet(links'[i][2]) \subseteq P!ToSet(all)
        <5>1. CASE i \in DOMAIN links /\ links'[i] = links[i]
          BY <5>1 DEF TextsOK, LinksOK
        <5>2. CASE links'[i] = <<link, linkText>>
          BY <4>3, <5>2 DEF TextsOK, LinksOK
        <5> QED
          BY <4>2, <5>1, <5>2
      <4> QED
        BY <4>2, <4>4
    <3> QED
      BY <2>6, <3>1, <3>2
  <2>9. LinksOK'
    BY <2>0, <2>7, <2>8 DEF LinksOK
  <2>10. SeenOK'
    BY <2>0 DEF TextsOK, SeenOK, P!Inside
  <2>11. TextsOK'
    BY <1>0, <2>0, <2>5, <2>9, <2>10 DEF TextsOK
  <2> QED
    BY <2>4, <2>11
<1>4. CASE P!Text
  <2>1. /\ tokens' = tokens + 1
        /\ UNCHANGED <<open, ignoredDepth, preferredDepth, heading, link, links>>
    BY <1>4 DEF P!Text, P!Token
  <2>2. CountersOK'
    BY <2>1 DEF CountersOK, IgnoredAt, PreferredAt, Clear
  <2> DEFINE shown == ignoredDepth = 0
             inMain == shown /\ preferredDepth > 0
             linked == shown /\ link # P!Nothing
  <2>3. /\ all' = IF shown THEN Append(all, tokens) ELSE all
        /\ main' = IF inMain THEN Append(main, tokens) ELSE main
        /\ linkText' = IF linked THEN Append(linkText, tokens) ELSE linkText
    BY <1>4 DEF P!Text
  <2>4. visible' = IF shown THEN visible \cup {<<tokens, P!ToSet(open)>>} ELSE visible
    BY <1>4, CountersZero DEF P!Text
  <2>5. /\ Read(all)' /\ Read(main)'
        /\ P!ToSet(all') = P!ToSet(all) \cup (IF shown THEN {tokens} ELSE {})
        /\ P!ToSet(main') = P!ToSet(main) \cup (IF inMain THEN {tokens} ELSE {})
    <3>1. Read(all) /\ Read(main)
      BY DEF TextsOK
    <3>2. shown \in BOOLEAN /\ inMain \in BOOLEAN
      OBVIOUS
    <3> HIDE DEF shown, inMain
    <3>3. /\ all' \in Seq(Nat) /\ \A i \in DOMAIN all' : all'[i] < tokens'
          /\ \A i, j \in DOMAIN all' : i < j => all'[i] < all'[j]
          /\ P!ToSet(all') = P!ToSet(all) \cup (IF shown THEN {tokens} ELSE {})
      BY <1>0, <2>1, <2>3, <3>1, <3>2, TextKept
    <3>4. /\ main' \in Seq(Nat) /\ \A i \in DOMAIN main' : main'[i] < tokens'
          /\ \A i, j \in DOMAIN main' : i < j => main'[i] < main'[j]
          /\ P!ToSet(main') = P!ToSet(main) \cup (IF inMain THEN {tokens} ELSE {})
      BY <1>0, <2>1, <2>3, <3>1, <3>2, TextKept
    <3> QED
      BY <3>3, <3>4 DEF Read
  <2>6. P!ToSet(all') = {v[1] : v \in visible'}
    <3>1. P!ToSet(all) = {v[1] : v \in visible}
      BY DEF TextsOK, SeenOK
    <3> HIDE DEF shown
    <3>2. CASE shown
      <4>1. visible' = visible \cup {<<tokens, P!ToSet(open)>>}
        BY <2>4, <3>2
      <4>2. {v[1] : v \in visible \cup {<<tokens, P!ToSet(open)>>}} =
               {v[1] : v \in visible} \cup {tokens}
        BY OneSeen
      <4>3. {v[1] : v \in visible'} = {v[1] : v \in visible} \cup {tokens}
        BY <4>1, <4>2, Zenon
      <4>4. P!ToSet(all') = P!ToSet(all) \cup {tokens}
        BY <2>5, <3>2
      <4> QED
        BY <3>1, <4>3, <4>4
    <3>3. CASE ~shown
      BY <2>4, <2>5, <3>1, <3>3
    <3> QED
      BY <3>2, <3>3
  <2>7. P!ToSet(main') = {v[1] : v \in P!Inside(Preferred)'}
    <3>1. P!Inside(Preferred)' = P!Inside(Preferred) \cup
             (IF inMain THEN {<<tokens, P!ToSet(open)>>} ELSE {})
      BY <2>4, CountersZero DEF P!Inside
    <3>2. P!ToSet(main) = {v[1] : v \in P!Inside(Preferred)}
      BY DEF TextsOK, SeenOK
    <3> HIDE DEF inMain
    <3>3. CASE inMain
      <4>1. P!Inside(Preferred)' = P!Inside(Preferred) \cup {<<tokens, P!ToSet(open)>>}
        BY <3>1, <3>3
      <4> DEFINE before == P!Inside(Preferred)
      <4>2. {v[1] : v \in before \cup {<<tokens, P!ToSet(open)>>}} =
               {v[1] : v \in before} \cup {tokens}
        BY OneSeen
      <4>3. {v[1] : v \in P!Inside(Preferred)'} = {v[1] : v \in before} \cup {tokens}
        BY <4>1, <4>2, Zenon
      <4>4. P!ToSet(main') = P!ToSet(main) \cup {tokens}
        BY <2>5, <3>3
      <4> QED
        BY <3>2, <4>3, <4>4
    <3>4. CASE ~inMain
      <4>1. P!Inside(Preferred)' = P!Inside(Preferred)
        BY <3>1, <3>4
      <4> QED
        BY <2>5, <3>2, <3>4, <4>1
    <3> QED
      BY <3>3, <3>4
  <2>8. linkText' \in Seq(Nat) /\ P!ToSet(linkText') \subseteq P!ToSet(all')
    <3>1. CASE ~linked
      BY <2>3, <2>5, <3>1 DEF TextsOK, LinksOK
    <3>2. CASE linked
      <4>1. linkText \in Seq(Nat) /\ P!ToSet(linkText) \subseteq P!ToSet(all)
        BY DEF TextsOK, LinksOK
      <4>2. linkText' \in Seq(Nat) /\ P!ToSet(linkText') = P!ToSet(linkText) \cup {tokens}
        BY <1>0, <2>3, <3>2, <4>1, OneText
      <4> QED
        BY <2>5, <3>2, <4>1, <4>2
    <3> QED
      BY <3>1, <3>2
  <2>9. LinksOK'
    BY <2>1, <2>5, <2>8 DEF TextsOK, LinksOK
  <2>10. TextsOK'
    <3>1. SeenOK'
      BY <2>6, <2>7 DEF SeenOK
    <3> QED
      BY <1>0, <2>1, <2>5, <2>9, <3>1 DEF TextsOK
  <2> QED
    BY <2>2, <2>10
<1> QED
  BY <1>1, <1>2, <1>3, <1>4 DEF P!Next

\* What the counters and the texts say of the page.
LEMMA PageReads == PageInvariant => P!TextIsVisible
<1> SUFFICES ASSUME CountersOK, TextsOK PROVE P!TextIsVisible
  BY DEF PageInvariant
<1>1. P!Lists(all, visible) /\ P!Lists(main, P!Inside(Preferred))
  BY DEF TextsOK, SeenOK, Read, P!Lists
<1>2. main # <<>> <=> P!Inside(Preferred) # {}
  <2>1. main # <<>> <=> P!ToSet(main) # {}
    <3>1. main \in Seq(Nat)
      BY DEF TextsOK, Read
    <3>2. main # <<>> => main[1] \in P!ToSet(main)
      BY <3>1 DEF P!ToSet
    <3> QED
      BY <3>2, NoTexts
  <2> QED
    BY <2>1 DEF TextsOK, SeenOK
<1>3. open = <<>> => ignoredDepth = 0 /\ preferredDepth = 0 /\ heading = P!Nothing
  <2> SUFFICES ASSUME open = <<>>
               PROVE  ignoredDepth = 0 /\ preferredDepth = 0 /\ heading = P!Nothing
    OBVIOUS
  <2>1. IgnoredAt = {} /\ PreferredAt = {}
    BY DEF IgnoredAt, PreferredAt
  <2> QED
    BY <2>1, FS_EmptySet DEF CountersOK
<1>4. \A i \in DOMAIN links : P!ToSet(links[i][2]) \subseteq P!ToSet(all)
  BY DEF TextsOK, LinksOK
<1> QED
  BY <1>1, <1>2, <1>3, <1>4 DEF P!TextIsVisible, P!ReadableText

-----------------------------------------------------------------------------
\* What holds of a model call: what its log tells of each phase, and how far the caller
\* of a stream is behind the adapter.  The adapter has all that was sent.
LogOK ==
    /\ log \in Seq(R!Rows)
    /\ phase \in {"new", "stream"} => log = <<>>
    /\ phase = "attempt" => \/ log = <<>>
                            \/ Len(log) = 1 /\ log[1].status # "success" /\ ~log[1].fallback_used
    /\ phase # "over" => answer = "waiting"
    /\ R!CallIsLogged

StreamOK ==
    /\ accumulated = sent /\ sent \in [Indexes -> Seq(Nat)]
    /\ sent = R!NoCalls => taken = R!NoCalls
    /\ finished => taken = sent

RouterInvariant ==
    /\ phase \in {"new", "attempt", "stream", "over"}
    /\ asked \in Models \cup {Unknown} /\ fallback \in Models \cup {Unknown, "none"}
    /\ phase # "new" /\ asked = Unknown => phase = "over"
    /\ tried \in Models \cup {Unknown}
    /\ usage \in BOOLEAN
    /\ LogOK /\ StreamOK

\* A call that has not begun has no row and no fragment.
LEMMA InitRouter == R!Init => RouterInvariant
<1> SUFFICES ASSUME R!Init PROVE RouterInvariant
  OBVIOUS
<1>1. LogOK
  BY DEF R!Init, LogOK, R!CallIsLogged, R!Successes, R!Failures
<1>2. StreamOK
  BY DEF R!Init, StreamOK, R!NoCalls
<1> QED
  BY <1>1, <1>2 DEF R!Init, RouterInvariant

\* A row more: the first, or the second after a failure.
LEMMA OneRow ==
    ASSUME RouterInvariant, phase \in {"attempt", "stream"},
           NEW outcome \in {"success"} \cup R!Failures, NEW counted \in BOOLEAN, log' = Append(log, R!Row(outcome, counted))
    PROVE  /\ log' \in Seq(R!Rows) /\ Len(log') = Len(log) + 1 /\ Len(log) \in {0, 1}
           /\ log'[Len(log')] = R!Row(outcome, counted)
           /\ R!Successes' = IF outcome = "success" THEN {Len(log')} ELSE {}
           /\ \A n \in DOMAIN log' : log'[n].fallback_used = (n = 2)
<1>1. R!Row(outcome, counted) \in R!Rows
  BY DEF R!Row, R!Rows, RouterInvariant
<1>2. log \in Seq(R!Rows) /\ Len(log) \in {0, 1}
  BY DEF RouterInvariant, LogOK
<1>3. log' \in Seq(R!Rows) /\ Len(log') = Len(log) + 1 /\ log'[Len(log')] = R!Row(outcome, counted)
  BY <1>1, <1>2
<1>4. \A n \in 1..Len(log) : log'[n] = log[n] /\ log[n].status # "success" /\ ~log[n].fallback_used
  BY <1>1, <1>2 DEF RouterInvariant, LogOK
<1>5. log # <<>> <=> Len(log) = 1
  BY <1>2
<1>6. /\ R!Row(outcome, counted).status = outcome
      /\ R!Row(outcome, counted).fallback_used = (Len(log) = 1)
  BY <1>5 DEF R!Row
<1>7. \A n \in DOMAIN log' : n \in 1..Len(log) \/ n = Len(log')
  BY <1>2, <1>3
<1>8. \A n \in DOMAIN log' : log'[n].fallback_used = (n = 2)
  <2> SUFFICES ASSUME NEW n \in DOMAIN log' PROVE log'[n].fallback_used = (n = 2)
    OBVIOUS
  <2>1. CASE n \in 1..Len(log)
    <3>1. ~log[n].fallback_used /\ log[n] \in R!Rows /\ n = 1
      BY <1>2, <1>4, <2>1
    <3> QED
      BY <1>4, <2>1, <3>1 DEF R!Rows
  <2>2. CASE n = Len(log')
    BY <1>2, <1>3, <1>6, <2>2
  <2> QED
    BY <1>7, <2>1, <2>2
<1>9. R!Successes' = IF outcome = "success" THEN {Len(log')} ELSE {}
  <2>1. \A n \in DOMAIN log' : log'[n].status = "success" <=> n = Len(log') /\ outcome = "success"
    BY <1>2, <1>3, <1>4, <1>6, <1>7
  <2>2. Len(log') \in DOMAIN log'
    BY <1>2, <1>3
  <2> QED
    BY <2>1, <2>2 DEF R!Successes
<1> QED
  BY <1>2, <1>3, <1>8, <1>9

\* A call that ends with a row has told its caller what the row says.
LEMMA RowEnds ==
    ASSUME RouterInvariant, phase \in {"attempt", "stream"},
           NEW outcome \in {"success"} \cup R!Failures, NEW counted \in BOOLEAN,
           log' = Append(log, R!Row(outcome, counted)), UNCHANGED <<asked, tried>>,
           phase' = "over", answer' = IF outcome = "success" THEN "answered" ELSE outcome
    PROVE  LogOK'
<1>1. /\ log' \in Seq(R!Rows) /\ Len(log') \in {1, 2}
      /\ log'[Len(log')] = R!Row(outcome, counted)
      /\ R!Successes' = IF outcome = "success" THEN {Len(log')} ELSE {}
      /\ \A n \in DOMAIN log' : log'[n].fallback_used = (n = 2)
  BY OneRow
<1>2. R!Row(outcome, counted).status = outcome /\ R!Row(outcome, counted).model = tried
  BY DEF R!Row
<1>3. answer' = "answered" <=> outcome = "success"
  BY DEF R!Failures
<1>4. answer' # "answered" => answer' = outcome
  BY <1>3
<1>5. log' # <<>> /\ Len(log') <= 2
  BY <1>1
<1>6. R!CallIsLogged'
  <2>1. CASE outcome = "success"
    BY <1>1, <1>2, <1>5, <2>1 DEF R!CallIsLogged, R!Failures
  <2>2. CASE outcome # "success"
    BY <1>1, <1>2, <1>3, <1>5, <2>2 DEF R!CallIsLogged
  <2> QED
    BY <2>1, <2>2
<1> QED
  BY <1>1, <1>6 DEF LogOK

\* Every step of a call keeps what holds of its log and its stream.
LEMMA StepRouter == RouterInvariant /\ [R!Next]_routervars => RouterInvariant'
<1> SUFFICES ASSUME RouterInvariant, [R!Next]_routervars PROVE RouterInvariant'
  OBVIOUS
<1>0. R!RouterAssumption
  BY OutsideAssumption
<1>1. CASE UNCHANGED routervars
  BY <1>1 DEF routervars, RouterInvariant, LogOK, StreamOK, R!CallIsLogged, R!Successes
<1>2. CASE R!Negotiate
  <2>1. UNCHANGED <<asked, fallback, tried, log, sent, accumulated, taken, usage, finished>>
    BY <1>2 DEF R!Negotiate, R!streamvars
  <2>2. log = <<>>
    BY <1>2 DEF R!Negotiate, RouterInvariant, LogOK
  <2>3. LogOK'
    BY <1>2, <2>1, <2>2 DEF R!Negotiate, R!End, RouterInvariant, LogOK, R!CallIsLogged,
      R!Successes, R!Failures
  <2>4. StreamOK'
    BY <2>1 DEF RouterInvariant, StreamOK
  <2> QED
    BY <1>0, <1>2, <2>1, <2>3, <2>4 DEF R!Negotiate, R!End, RouterInvariant, R!RouterAssumption
<1>3. CASE R!Answered
  <2>1. /\ UNCHANGED <<asked, fallback, tried, sent, accumulated, taken, finished>>
        /\ log' = Append(log, R!Row("success", TRUE)) /\ phase' = "over" /\ answer' = "answered"
        /\ usage' = TRUE
    BY <1>3 DEF R!Answered, R!End
  <2>2. LogOK'
    BY <1>3, <2>1, RowEnds DEF R!Answered
  <2>3. StreamOK'
    BY <2>1 DEF RouterInvariant, StreamOK
  <2> QED
    BY <2>1, <2>2, <2>3 DEF RouterInvariant
<1>4. CASE R!AttemptFails
  <2>1. PICK failure \in R!Failures :
           /\ log' = Append(log, R!Row(failure, FALSE))
           /\ \/ R!Retried /\ tried' = fallback /\ UNCHANGED <<phase, answer>>
              \/ ~R!Retried /\ phase' = "over" /\ answer' = failure /\ UNCHANGED tried
    BY <1>4 DEF R!AttemptFails, R!End
  <2>2. UNCHANGED <<asked, fallback, sent, accumulated, taken, usage, finished>> /\ phase = "attempt"
    BY <1>4 DEF R!AttemptFails, R!streamvars
  <2>3. /\ log' \in Seq(R!Rows) /\ Len(log') = Len(log) + 1 /\ Len(log) \in {0, 1}
        /\ log'[Len(log')] = R!Row(failure, FALSE) /\ R!Successes' = {}
        /\ \A n \in DOMAIN log' : log'[n].fallback_used = (n = 2)
    BY <2>1, <2>2, OneRow DEF R!Failures
  <2>4. R!Row(failure, FALSE).status = failure /\ failure # "success" /\ failure # "answered"
    BY DEF R!Row, R!Failures
  <2>5. LogOK'
    <3>1. CASE R!Retried
      <4>1. Len(log') = 1 /\ 1 \in DOMAIN log' /\ log'[1].fallback_used = FALSE
        <5>1. Len(log') = 1 /\ 1 \in DOMAIN log'
          BY <2>3, <3>1 DEF R!Retried
        <5>2. (1 = 2) = FALSE
          OBVIOUS
        <5>3. log'[1].fallback_used = (1 = 2)
          BY <2>3, <5>1
        <5> QED
          BY <5>1, <5>2, <5>3
      <4>2. phase' = "attempt" /\ answer' = "waiting"
        BY <2>1, <2>2, <3>1 DEF RouterInvariant, LogOK
      <4> QED
        <5>1. log'[1].status # "success"
          BY <2>3, <2>4, <4>1
        <5>2. R!CallIsLogged'
          BY <2>3, <4>1, <4>2 DEF R!CallIsLogged, R!Failures
        <5> QED
          BY <2>3, <4>1, <4>2, <5>1, <5>2 DEF LogOK
    <3>2. CASE ~R!Retried
      BY <2>1, <2>2, <2>4, <3>2, RowEnds
    <3> QED
      BY <3>1, <3>2
  <2>6. StreamOK'
    BY <2>2 DEF RouterInvariant, StreamOK
  <2> QED
    BY <2>1, <2>2, <2>5, <2>6 DEF RouterInvariant, R!Retried
<1>5. CASE R!Raise \/ R!Abandon
  <2>1. /\ UNCHANGED <<asked, fallback, tried, log, sent, accumulated, taken, usage, finished>>
        /\ phase \in {"attempt", "stream"} /\ phase' = "over"
        /\ answer' \in {"raised", "abandoned"}
    BY <1>5 DEF R!Raise, R!Abandon, R!End, R!streamvars
  <2>2. LogOK'
    BY <2>1 DEF RouterInvariant, LogOK, R!CallIsLogged, R!Successes, R!Failures
  <2>3. StreamOK'
    BY <2>1 DEF RouterInvariant, StreamOK
  <2> QED
    BY <2>1, <2>2, <2>3 DEF RouterInvariant
<1>6. CASE R!Event
  <2>1. PICK fragments \in {{}} \union {{i} : i \in Indexes},
             text \in BOOLEAN, finish \in BOOLEAN, counted \in BOOLEAN :
          /\ finished => fragments = {} /\ ~text /\ ~finish
          /\ sent' = [i \in Indexes |->
                IF i \in fragments THEN Append(sent[i], Len(sent[i]) + 1) ELSE sent[i]]
          /\ accumulated' = [i \in Indexes |->
                IF i \in fragments THEN Append(accumulated[i], Len(sent[i]) + 1)
                                   ELSE accumulated[i]]
          /\ taken' = IF text \/ finish \/ counted THEN R!Surfaced(accumulated') ELSE taken
          /\ usage' = (usage \/ counted) /\ finished' = (finished \/ finish)
    BY <1>6 DEF R!Event
  <2>2. UNCHANGED <<phase, asked, fallback, tried, answer, log>>
    BY <1>6 DEF R!Event
  <2>3. LogOK'
    BY <2>2 DEF RouterInvariant, LogOK, R!CallIsLogged, R!Successes
  <2>4. accumulated' = sent' /\ sent' \in [Indexes -> Seq(Nat)]
    BY <2>1 DEF RouterInvariant, StreamOK
  <2>5. sent' = R!NoCalls => sent = R!NoCalls
    <3> SUFFICES ASSUME sent' = R!NoCalls PROVE \A i \in Indexes : sent[i] = <<>>
      BY DEF RouterInvariant, StreamOK, R!NoCalls
    <3> TAKE i \in Indexes
    <3>1. sent'[i] = <<>> /\ sent[i] \in Seq(Nat)
      BY DEF RouterInvariant, StreamOK, R!NoCalls
    <3>2. Append(sent[i], Len(sent[i]) + 1) # <<>>
      BY <3>1
    <3> QED
      BY <2>1, <3>1, <3>2
  <2>6. sent' = R!NoCalls => taken' = R!NoCalls
    BY <2>1, <2>4, <2>5 DEF R!Surfaced, RouterInvariant, StreamOK
  <2>7. finished' => taken' = sent'
    <3>1. CASE finished
      <4>1. sent' = sent
        BY <2>1, <3>1 DEF RouterInvariant, StreamOK
      <4> QED
        BY <2>1, <2>4, <3>1, <4>1 DEF R!Surfaced, RouterInvariant, StreamOK
    <3>2. CASE ~finished
      BY <2>1, <2>4, <2>6, <3>2 DEF R!Surfaced
    <3> QED
      BY <3>1, <3>2
  <2> QED
    BY <2>1, <2>2, <2>3, <2>4, <2>6, <2>7 DEF RouterInvariant, StreamOK
<1>7. CASE R!StreamEnds
  <2>1. /\ UNCHANGED <<asked, fallback, tried, sent, accumulated, taken, usage, finished>>
        /\ log' = Append(log, R!Row("success", usage)) /\ phase' = "over" /\ answer' = "answered"
        /\ phase = "stream"
    BY <1>7 DEF R!StreamEnds, R!End, R!streamvars
  <2>2. LogOK'
    BY <2>1, RowEnds DEF RouterInvariant
  <2>3. StreamOK'
    BY <2>1 DEF RouterInvariant, StreamOK
  <2> QED
    BY <2>1, <2>2, <2>3 DEF RouterInvariant
<1>8. CASE R!StreamFails
  <2>1. PICK failure \in R!Failures :
           log' = Append(log, R!Row(failure, FALSE)) /\ phase' = "over" /\ answer' = failure
    BY <1>8 DEF R!StreamFails, R!End
  <2>2. /\ UNCHANGED <<asked, fallback, tried, sent, accumulated, taken, usage, finished>>
        /\ phase = "stream"
    BY <1>8 DEF R!StreamFails, R!streamvars
  <2>5. LogOK'
    BY <2>1, <2>2, RowEnds DEF R!Failures
  <2>6. StreamOK'
    BY <2>2 DEF RouterInvariant, StreamOK
  <2> QED
    BY <2>1, <2>2, <2>5, <2>6 DEF RouterInvariant
<1> QED
  BY <1>1, <1>2, <1>3, <1>4, <1>5, <1>6, <1>7, <1>8 DEF R!Next

-----------------------------------------------------------------------------
\* What holds of the browser: the promise says how many launches and processes there
\* are, and a context is that of a request that has not ended.
PromiseCounts ==
    /\ promise = "none" => starting = 0 /\ processes = 0
    /\ promise = "pending" => starting = 1 /\ processes = 0
    /\ promise = "resolved" => starting = 0 /\ processes \in {0, 1}

ContextsUsed == \A p \in contexts \ unset : step[p] \in {"setup", "loading", "reading"}

BrowserInvariant ==
    /\ promise \in {"none", "pending", "resolved"} /\ step \in [Pages -> B!Steps]
    /\ contexts \subseteq Pages /\ PromiseCounts /\ ContextsUsed

\* At first no browser was asked for.
LEMMA InitBrowser == B!Init => BrowserInvariant
BY DEF B!Init, BrowserInvariant, PromiseCounts, ContextsUsed, B!Steps

\* Every step of the browser service keeps what its promise says.
LEMMA StepBrowser == BrowserInvariant /\ [B!Next]_browservars => BrowserInvariant'
<1> SUFFICES ASSUME BrowserInvariant, [B!Next]_browservars PROVE BrowserInvariant'
  OBVIOUS
<1> USE DEF BrowserInvariant, PromiseCounts, ContextsUsed, B!Steps, B!GoTo, B!Close
<1>1. CASE UNCHANGED browservars
  BY <1>1 DEF browservars
<1>2. CASE B!Launched
  BY <1>2 DEF B!Launched
<1>3. CASE B!LaunchFails
  BY <1>3 DEF B!LaunchFails
<1>4. CASE B!BrowserDies
  BY <1>4 DEF B!BrowserDies
<1>5. ASSUME NEW p \in Pages, B!Receive(p) PROVE BrowserInvariant'
  BY <1>5 DEF B!Receive, B!Launch
<1>6. ASSUME NEW p \in Pages, B!OpenContext(p) PROVE BrowserInvariant'
  BY <1>6 DEF B!OpenContext
<1>7. ASSUME NEW p \in Pages, B!SetUp(p) PROVE BrowserInvariant'
  BY <1>7 DEF B!SetUp
<1>8. ASSUME NEW p \in Pages, B!Request(p) PROVE BrowserInvariant'
  BY <1>8 DEF B!Request
<1>9. ASSUME NEW p \in Pages, B!Loaded(p) PROVE BrowserInvariant'
  BY <1>9 DEF B!Loaded
<1>10. ASSUME NEW p \in Pages, B!Answer(p) PROVE BrowserInvariant'
  BY <1>10 DEF B!Answer
<1> QED
  BY <1>1, <1>2, <1>3, <1>4, <1>5, <1>6, <1>7, <1>8, <1>9, <1>10 DEF B!Next, B!PageStep

-----------------------------------------------------------------------------
\* What holds of a call of execute_code: until the daemon was asked for a container
\* there is none, until there is output nothing is reported, and an exit status that a
\* call goes by is that of code that has ended and was not killed.
CallOK(c) ==
    /\ ask[c] \in {"new", "image", "create"} => container[c] = "none"
    /\ ask[c] \in {"new", "image", "create", "start", "wait"} => ~timedOut[c]
    /\ ask[c] = "kill" => timedOut[c]
    /\ ask[c] \in {"new", "image", "create", "start", "wait", "kill", "logs"} => result[c] = "none"
    /\ container[c] = "exited" /\ ~timedOut[c] => status[c] \in {0, 1}
    /\ ask[c] = "logs" /\ ~timedOut[c] =>
          container[c] = "exited" /\ exitCode[c] = status[c]
    /\ result[c] \in {"success", "failed"} => container[c] \in {"exited", "removed"}
    /\ result[c] = "success" => status[c] = 0
    /\ result[c] = "failed" => status[c] = 1
    /\ ask[c] = "over" /\ container[c] \notin {"none", "removed"} =>
          \E request \in {"create", "remove", "over"} : <<c, request>> \in trouble

SandboxInvariant == S!TypeOK /\ \A c \in Calls : CallOK(c)

\* At first no container was asked for.
LEMMA InitSandbox == S!Init => SandboxInvariant
BY DEF S!Init, SandboxInvariant, S!TypeOK, CallOK, S!DockerCalls, S!NoStatus

\* A step of one call leaves the others as they were.
LEMMA OneCall ==
    ASSUME \A c \in Calls : CallOK(c), NEW c \in Calls, CallOK(c)',
           \A d \in Calls \ {c} :
              /\ ask'[d] = ask[d] /\ container'[d] = container[d] /\ status'[d] = status[d]
              /\ timedOut'[d] = timedOut[d] /\ exitCode'[d] = exitCode[d]
              /\ result'[d] = result[d],
           trouble \subseteq trouble'
    PROVE  \A d \in Calls : CallOK(d)'
<1> SUFFICES ASSUME NEW d \in Calls, d # c PROVE CallOK(d)'
  OBVIOUS
<1>1. CallOK(d)
  OBVIOUS
<1> QED
  BY <1>1 DEF CallOK

\* Every step of the calls keeps what holds of them.
LEMMA StepSandbox == SandboxInvariant /\ [S!Next]_sandboxvars => SandboxInvariant'
<1> SUFFICES ASSUME S!TypeOK, \A c \in Calls : CallOK(c), [S!Next]_sandboxvars
             PROVE  S!TypeOK' /\ \A c \in Calls : CallOK(c)'
  BY DEF SandboxInvariant
<1>1. CASE UNCHANGED sandboxvars
  BY <1>1 DEF sandboxvars, S!TypeOK, CallOK
<1>2. ASSUME NEW c \in Calls,
             \/ S!Begin(c) \/ S!EnsureImage(c) \/ S!Create(c) \/ S!Start(c) \/ S!CodeEnds(c)
             \/ S!Wait(c) \/ S!Kill(c) \/ S!Logs(c) \/ S!Remove(c) \/ S!WorkerDies(c)
      PROVE  S!TypeOK' /\ \A d \in Calls : CallOK(d)'
  <2> DEFINE Others ==
        /\ trouble \subseteq trouble'
        /\ \A d \in Calls \ {c} :
              /\ ask'[d] = ask[d] /\ container'[d] = container[d] /\ status'[d] = status[d]
              /\ timedOut'[d] = timedOut[d] /\ exitCode'[d] = exitCode[d]
              /\ result'[d] = result[d]
  <2> SUFFICES S!TypeOK' /\ Others /\ CallOK(c)'
    BY OneCall
  <2>0. CallOK(c)
    OBVIOUS
  <2> USE DEF S!DockerCalls, S!NoStatus, S!Killed, S!GoTo, S!Trouble, S!Report, S!Fail,
              S!Finally
  <2>1. CASE S!Begin(c)
    BY <2>0, <2>1 DEF S!Begin, S!TypeOK, CallOK
  <2>2. CASE S!EnsureImage(c)
    BY <2>0, <2>2 DEF S!EnsureImage, S!TypeOK, CallOK
  <2>3. CASE S!Create(c)
    BY <2>0, <2>3 DEF S!Create, S!TypeOK, CallOK
  <2>4. CASE S!Start(c)
    BY <2>0, <2>4 DEF S!Start, S!TypeOK, CallOK
  <2>5. CASE S!CodeEnds(c)
    BY <2>0, <2>5 DEF S!CodeEnds, S!TypeOK, CallOK
  <2>6. CASE S!Wait(c)
    <3>0. UNCHANGED <<container, status>>
      BY <2>6 DEF S!Wait
    <3>1. CASE /\ container[c] = "exited" /\ exitCode' = [exitCode EXCEPT ![c] = status[c]]
               /\ S!GoTo(c, "logs") /\ UNCHANGED <<timedOut, result, trouble>>
      <4>1. status[c] \in {0, 1}
        BY <2>0, <2>6, <3>1 DEF S!Wait, CallOK
      <4> QED
        BY <2>0, <2>6, <3>0, <3>1, <4>1 DEF S!Wait, S!TypeOK, CallOK
    <3>2. CASE /\ timedOut' = [timedOut EXCEPT ![c] = TRUE]
               /\ S!GoTo(c, "kill") /\ UNCHANGED <<exitCode, result, trouble>>
      BY <2>0, <2>6, <3>0, <3>2 DEF S!Wait, S!TypeOK, CallOK
    <3>3. CASE S!Finally(c) /\ S!Fail(c) /\ UNCHANGED <<timedOut, exitCode>>
      BY <2>0, <2>6, <3>0, <3>3 DEF S!Wait, S!TypeOK, CallOK
    <3> QED
      BY <2>6, <3>1, <3>2, <3>3 DEF S!Wait
  <2>7. CASE S!Kill(c)
    BY <2>0, <2>7 DEF S!Kill, S!TypeOK, CallOK
  <2>8. CASE S!Logs(c)
    BY <2>0, <2>8 DEF S!Logs, S!Judged, S!TypeOK, CallOK
  <2>9. CASE S!Remove(c)
    BY <2>0, <2>9 DEF S!Remove, S!TypeOK, CallOK
  <2>10. CASE S!WorkerDies(c)
    BY <2>0, <2>10 DEF S!WorkerDies, S!TypeOK, CallOK
  <2> QED
    BY <1>2, <2>1, <2>2, <2>3, <2>4, <2>5, <2>6, <2>7, <2>8, <2>9, <2>10
<1> QED
  BY <1>1, <1>2 DEF S!Next

-----------------------------------------------------------------------------
\* A step of the instance is a step of the component it is about.
LEMMA OneComponent == [MCNext]_mcvars =>
    /\ [Next]_vars /\ [Link!Next]_linkvars /\ [Email!Next]_emailvars
    /\ [W!Next]_crawlvars /\ [R!Next]_routervars /\ [B!Next]_browservars
    /\ [S!Next]_sandboxvars /\ [P!Next]_pagevars
BY DEF MCNext, mcvars, notificationvars, webvars, OnDelivery, OnLink, OnEmail, OnCrawler, OnRouter,
    OnBrowser, OnSandbox, OnPage

\* "TelegramDelivery prevents routine duplicate sends" (dispatch_notification_telegram),
\* and email_sent_at a second e-mail: for any number of workers, retries, repeated
\* messages and deaths, a copy beyond the first is explained by a lease that ran out, an
\* answer that was lost or a marker that was rolled back.
THEOREM CopiesExplained == MCSpec => []NoUnexplainedCopy
<1>1. DeliveryInvariant /\ EmailInvariant => NoUnexplainedCopy
  <2> SUFFICES ASSUME DeliveryInvariant, EmailInvariant PROVE NoUnexplainedCopy
    OBVIOUS
  <2>1. emails <= 1 + undone
    BY DEF EmailInvariant, LettersCounted, Email!TypeOK
  <2> QED
    BY <2>1, CountedIsBounded DEF NoUnexplainedCopy, Email!NoSecondEmail
<1>2. MCInit => DeliveryInvariant /\ EmailInvariant
  BY InitDelivery, InitEmail DEF MCInit
<1> QED
  BY <1>1, <1>2, StepDelivery, StepEmail, OneComponent, PTL DEF MCSpec

\* Whatever link requests, webhooks and disconnects overlap, a user has one live link at
\* most; a connected chat is nobody else's, and was connected by a session of the user's
\* own that nothing had cancelled, replaced, expired or deleted (core.telegram_views).
THEOREM OwnLinksConnect == MCSpec => []ConnectedByOwnLink
<1>1. LinkInvariant => ConnectedByOwnLink
  BY DEF LinkInvariant, ConnectedByOwnLink
<1>2. MCInit => LinkInvariant
  BY InitLink DEF MCInit
<1> QED
  BY <1>1, <1>2, StepLink, OneComponent, PTL DEF MCSpec

\* However long and tangled a site is, and whatever fails: a crawl has one record of each
\* address it asked for, a duplicate points to the page it repeats, and a crawl that ends
\* with nothing left in its queue has recorded every page that its sitemaps, its start and
\* the links of its pages lead to, at the depth they lead to or above (crawl_website).
THEOREM CrawlsAreWhole == MCSpec => []CrawlIsWhole
<1>1. MCInit => CrawlInvariant
  BY InitCrawl DEF MCInit
<1> QED
  BY <1>1, StepCrawl, CrawlReads, OneComponent, PTL DEF MCSpec

\* For any document: the parser keeps the texts that lie in no ignored element, each once
\* and in order, and apart those of a main element; the text of a link is among them, and
\* at the end of the document nothing is counted as open (_ReadableHTMLParser).
THEOREM VisibleTextIsRead == MCSpec => []TextIsVisible
<1>1. MCInit => PageInvariant
  BY InitPage DEF MCInit
<1>2. PageInvariant => TextIsVisible
  BY PageReads DEF TextIsVisible
<1> QED
  BY <1>1, <1>2, StepPage, OneComponent, PTL DEF MCSpec

\* For any models and adapters: one successful row exactly when the caller got an answer,
\* two attempts at most, and whole tool calls once the finish reason was sent
\* (ModelRouter.generate, _generate_stream).
THEOREM CallsAreWhole == MCSpec => []CallIsWhole
<1>1. MCInit => RouterInvariant
  BY InitRouter DEF MCInit
<1>2. RouterInvariant => CallIsWhole
  BY DEF RouterInvariant, LogOK, StreamOK, CallIsWhole, R!ToolCallsAreWhole
<1> QED
  BY <1>1, <1>2, StepRouter, OneComponent, PTL DEF MCSpec

\* Whatever requests, launches, deaths and failures overlap: one Chromium at most, no
\* context without a request, and no container after its call (browser, run_python).
THEOREM NothingStaysRunning == MCSpec => []NothingIsLeftRunning
<1>1. MCInit => BrowserInvariant /\ SandboxInvariant
  BY InitBrowser, InitSandbox DEF MCInit
<1>2. BrowserInvariant => B!BrowserIsShared
  BY DEF BrowserInvariant, PromiseCounts, ContextsUsed, B!BrowserIsShared, B!Ended
<1>3. SandboxInvariant => S!SandboxIsClean
  BY DEF SandboxInvariant, CallOK, S!SandboxIsClean
<1>4. BrowserInvariant /\ SandboxInvariant => NothingIsLeftRunning
  BY <1>2, <1>3 DEF NothingIsLeftRunning
<1> QED
  BY <1>1, <1>4, StepBrowser, StepSandbox, OneComponent, PTL DEF MCSpec
=============================================================================
