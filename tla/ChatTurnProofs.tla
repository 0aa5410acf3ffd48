--------------------------- MODULE ChatTurnProofs ---------------------------
(***************************************************************************)
(* Theorems about ChatTurn for every number of turns and calls, every      *)
(* configuration and every bound.                                          *)
(***************************************************************************)
EXTENDS ChatTurn, TLAPS

-----------------------------------------------------------------------------
(* The inductive invariant: what the lock on an assistant message buys.    *)

\* What the proofs need to know of the variables' types.
Shape ==
    /\ log \in Seq(Seq(Calls))
    /\ home \in [Calls -> Nat]
    /\ request \in [Calls -> Standings]
    /\ outputs \in [Calls -> Nat] /\ refusals \in [Calls -> Nat]
    /\ executed \in [Calls -> Nat] /\ lost \in [Calls -> Nat]
    /\ pc \in [Turns -> Stages]
    /\ at \in [Turns -> Nat]
    /\ todo \in [Turns -> Seq(Calls)]
    /\ config \in [Turns -> Configs \cup {None}]

\* A call belongs to one message, and a turn walks the calls of the message it
\* advances.
Belongs ==
    /\ \A m \in DOMAIN log : \A i \in DOMAIN log[m] : home[log[m][i]] = m
    /\ \A t \in Turns : \A i \in DOMAIN todo[t] : home[todo[t][i]] = at[t] /\ at[t] # 0

\* A turn in a transaction has a call at hand; a running turn has a configuration.
Position ==
    \A t \in Turns :
        /\ pc[t] \in Locking => todo[t] # <<>> /\ Head(todo[t]) \in ToolCalls
        /\ pc[t] # "idle" => config[t] \in Configs

\* The lock: no two turns resolve calls of the same message.
LockHeld ==
    \A t, u \in Turns :
        pc[t] \in Locking /\ pc[u] \in Locking /\ at[t] = at[u] => t = u

\* The call a transaction is about has no result yet, and may run.
Entitled ==
    \A t \in Turns : pc[t] \in Locking =>
        /\ outputs[Head(todo[t])] = 0 /\ refusals[Head(todo[t])] = 0
        /\ \/ request[Head(todo[t])] = "approved"
           \/ request[Head(todo[t])] = "open" /\ Head(todo[t]) \in UnattendedCalls

\* Turn t has run call c and not yet stored what it returned.
Unstored(t, c) == pc[t] = "store" /\ Head(todo[t]) = c

\* Every run of a call is stored, lost, or about to be stored.
Accounted(c) ==
    /\ outputs[c] + refusals[c] <= 1
    /\ (\E t \in Turns : Unstored(t, c)) => executed[c] = lost[c] + 1
    /\ (\A t \in Turns : ~Unstored(t, c)) => executed[c] = lost[c] + outputs[c]

RunsAccounted == \A c \in Calls : Accounted(c)

\* Nobody is asked about a tool that is not attached.
OnlyToolsAsked == \A c \in MissingCalls : request[c] = "open"

TurnInv ==
    /\ Shape /\ Belongs /\ Position /\ LockHeld /\ Entitled
    /\ RunsAccounted /\ OnlyToolsAsked

-----------------------------------------------------------------------------
(* Facts about sequences of calls.                                         *)
LEMMA HeadOfCalls ==
    ASSUME NEW s \in Seq(Calls), s # <<>>
    PROVE  Head(s) \in Calls /\ Head(s) = s[1] /\ 1 \in DOMAIN s
OBVIOUS

\* What is left of the calls after the first.
LEMMA TailOfCalls ==
    ASSUME NEW s \in Seq(Calls), s # <<>>
    PROVE  /\ Tail(s) \in Seq(Calls)
           /\ \A i \in DOMAIN Tail(s) : i + 1 \in DOMAIN s /\ Tail(s)[i] = s[i + 1]
OBVIOUS

\* A message brings calls that were not there before.
LEMMA BatchIsFresh ==
    ASSUME NEW fresh \in SUBSET Calls, NEW batch \in Batches(fresh)
    PROVE  batch \in Seq(Calls) /\ \A i \in DOMAIN batch : batch[i] \in fresh
<1>1. PICK n \in 1..MaxBatch : batch \in [1..n -> fresh]
  BY DEF Batches
<1>2. n \in Nat
  BY <1>1, ConstantsAssumption
<1>. QED
  BY <1>1, <1>2

\* Two turns in transactions are about different calls.
LEMMA DifferentCalls ==
    ASSUME TurnInv, NEW t \in Turns, NEW u \in Turns, t # u,
           pc[t] \in Locking, pc[u] \in Locking
    PROVE  Head(todo[t]) # Head(todo[u])
<1>1. /\ todo[t] \in Seq(Calls) /\ todo[t] # <<>>
      /\ todo[u] \in Seq(Calls) /\ todo[u] # <<>>
  BY DEF TurnInv, Shape, Position
<1>2. /\ home[Head(todo[t])] = at[t]
      /\ home[Head(todo[u])] = at[u]
  BY <1>1, HeadOfCalls DEF TurnInv, Belongs
<1>3. at[t] # at[u]
  BY DEF TurnInv, LockHeld
<1>. QED
  BY <1>2, <1>3

\* No other turn's transaction is about the call a turn resolves.
LEMMA NobodyElse ==
    ASSUME TurnInv, NEW t \in Turns, NEW u \in Turns, NEW c \in Calls,
           Resolving(t, c), pc[u] \in Locking
    PROVE  t # u /\ at[u] # at[t] /\ Head(todo[u]) # c /\ home[c] = at[t]
<1>1. t # u /\ at[u] # at[t]
  BY DEF Resolving, Unlocked, Locking
<1>2. /\ todo[t] \in Seq(Calls) /\ todo[t] # <<>> /\ Head(todo[t]) = c
      /\ todo[u] \in Seq(Calls) /\ todo[u] # <<>>
  BY DEF TurnInv, Shape, Position, Resolving
<1>3. /\ home[Head(todo[t])] = at[t]
      /\ home[Head(todo[u])] = at[u]
  BY <1>2, HeadOfCalls DEF TurnInv, Belongs
<1>. QED
  BY <1>1, <1>2, <1>3

\* What the permission check lets run alone, some configuration lets run alone.
LEMMA AutoIsUnattended ==
    ASSUME NEW t \in Turns, NEW c \in ToolCalls, config[t] \in Configs,
           NEW org \in OrgEffects, NEW standing \in BOOLEAN,
           Decision(t, c, org, standing) = "auto"
    PROVE  c \in UnattendedCalls
BY DEF Decision, PermissionDecision, StandingConsent, UnattendedCalls

-----------------------------------------------------------------------------
LEMMA InitTurnInv == Init => TurnInv
<1>. SUFFICES ASSUME Init PROVE TurnInv
  OBVIOUS
<1>1. Shape
  BY DEF Init, Shape, Standings, Stages
<1>2. Belongs
  BY DEF Init, Belongs
<1>3. Position /\ LockHeld /\ Entitled
  BY DEF Init, Position, LockHeld, Entitled, Locking
<1>4. RunsAccounted
  BY DEF Init, RunsAccounted, Accounted, Unstored
<1>5. OnlyToolsAsked
  BY DEF Init, OnlyToolsAsked, Calls
<1>. QED
  BY <1>1, <1>2, <1>3, <1>4, <1>5 DEF TurnInv

\* A step of turn t that ends outside a transaction, did not leave one with a run
\* to account for, and changes nothing about requests, results and runs.
LEMMA StepOutside ==
    ASSUME TurnInv, NEW t \in Turns, NEW stage \in Stages \ Locking,
           pc' = [pc EXCEPT ![t] = stage], pc[t] # "store",
           Shape', Belongs',
           UNCHANGED <<request, outputs, refusals, executed, lost>>,
           \A u \in Turns \ {t} : todo'[u] = todo[u] /\ at'[u] = at[u] /\ config'[u] = config[u],
           stage # "idle" => config'[t] \in Configs
    PROVE  TurnInv'
<1>1. /\ pc \in [Turns -> Stages]
      /\ pc'[t] = stage /\ \A u \in Turns \ {t} : pc'[u] = pc[u]
  BY DEF TurnInv, Shape
<1>2. Position'
  BY <1>1 DEF TurnInv, Position
<1>3. LockHeld'
  BY <1>1 DEF TurnInv, LockHeld
<1>4. Entitled'
  BY <1>1 DEF TurnInv, Entitled
<1>5. \A c \in Calls, u \in Turns : Unstored(u, c)' <=> Unstored(u, c)
  BY <1>1 DEF Unstored, Locking
<1>6. RunsAccounted'
  BY <1>5 DEF TurnInv, RunsAccounted, Accounted
<1>7. OnlyToolsAsked'
  BY DEF TurnInv, OnlyToolsAsked
<1>. QED
  BY <1>2, <1>3, <1>4, <1>6, <1>7 DEF TurnInv

\* Where the calls belong stands while no message is written and only t moves, to
\* calls of the message it advances.
LEMMA BelongsStands ==
    ASSUME Belongs, NEW t \in Turns, UNCHANGED <<log, home>>,
           \A u \in Turns \ {t} : todo'[u] = todo[u] /\ at'[u] = at[u],
           \A i \in DOMAIN todo'[t] : home[todo'[t][i]] = at'[t] /\ at'[t] # 0
    PROVE  Belongs'
<1>1. ASSUME NEW u \in Turns, NEW i \in DOMAIN todo'[u]
      PROVE  home'[todo'[u][i]] = at'[u] /\ at'[u] # 0
  <2>1. CASE u = t
    BY <1>1, <2>1
  <2>2. CASE u # t
    <3>1. todo'[u] = todo[u] /\ at'[u] = at[u] /\ i \in DOMAIN todo[u]
      BY <1>1, <2>2
    <3>. QED
      BY <3>1 DEF Belongs
  <2>. QED
    BY <2>1, <2>2
<1>2. ASSUME NEW m \in DOMAIN log', NEW i \in DOMAIN log'[m] PROVE home'[log'[m][i]] = m
  BY <1>2 DEF Belongs
<1>. QED
  BY <1>1, <1>2 DEF Belongs

\* Such a step that writes no message either, and leaves t with calls of one
\* message to walk, or with none.
LEMMA StepQuiet ==
    ASSUME TurnInv, NEW t \in Turns, NEW stage \in Stages \ Locking,
           pc' = [pc EXCEPT ![t] = stage], pc[t] # "store",
           todo' \in [Turns -> Seq(Calls)], at' \in [Turns -> Nat],
           config' \in [Turns -> Configs \cup {None}],
           \A u \in Turns \ {t} : todo'[u] = todo[u] /\ at'[u] = at[u] /\ config'[u] = config[u],
           \A i \in DOMAIN todo'[t] : home[todo'[t][i]] = at'[t] /\ at'[t] # 0,
           UNCHANGED <<log, home, request, outputs, refusals, executed, lost>>,
           stage # "idle" => config'[t] \in Configs
    PROVE  TurnInv'
<1>1. Shape'
  BY DEF TurnInv, Shape
<1>2. Belongs'
  BY BelongsStands DEF TurnInv
<1>. QED
  BY <1>1, <1>2, StepOutside

\* A turn that ends outside a transaction.
LEMMA StepLeave ==
    ASSUME TurnInv, NEW t \in Turns, Leave(t), pc[t] # "store",
           UNCHANGED <<log, home, request, outputs, refusals, executed, lost>>
    PROVE  TurnInv'
<1>1. "idle" \in Stages \ Locking /\ <<>> \in Seq(Calls)
  BY DEF Stages, Locking
<1>2. /\ todo \in [Turns -> Seq(Calls)] /\ at \in [Turns -> Nat]
      /\ config \in [Turns -> Configs \cup {None}]
  BY DEF TurnInv, Shape
<1>3. /\ pc' = [pc EXCEPT ![t] = "idle"]
      /\ todo' \in [Turns -> Seq(Calls)] /\ at' \in [Turns -> Nat]
      /\ config' \in [Turns -> Configs \cup {None}]
      /\ \A u \in Turns \ {t} : todo'[u] = todo[u] /\ at'[u] = at[u] /\ config'[u] = config[u]
      /\ \A i \in DOMAIN todo'[t] : home[todo'[t][i]] = at'[t] /\ at'[t] # 0
  BY <1>1, <1>2 DEF Leave, Goto
<1>. QED
  BY <1>1, <1>3, StepQuiet

\* A turn that moves on with the calls it has.
LEMMA StepOn ==
    ASSUME TurnInv, NEW t \in Turns, NEW stage \in Stages \ Locking,
           pc' = [pc EXCEPT ![t] = stage], pc[t] \notin {"store", "idle"},
           UNCHANGED <<log, home, request, outputs, refusals, executed, lost, todo, at, config>>
    PROVE  TurnInv'
<1>1. /\ Shape' /\ Belongs'
      /\ config[t] \in Configs
  BY DEF TurnInv, Shape, Belongs, Position
<1>. QED
  BY <1>1, StepOutside

\* A call that a step does not touch.
LEMMA OtherCall ==
    ASSUME RunsAccounted, NEW d \in Calls,
           \A u \in Turns : Unstored(u, d)' <=> Unstored(u, d),
           outputs'[d] = outputs[d], refusals'[d] = refusals[d],
           executed'[d] = executed[d], lost'[d] = lost[d]
    PROVE  Accounted(d)'
<1>1. Accounted(d)
  BY DEF RunsAccounted
<1>. QED
  BY <1>1 DEF Accounted

\* What is left of a walk after its first call.
LEMMA WalkOn ==
    ASSUME TurnInv, NEW t \in Turns, todo[t] # <<>>
    PROVE  /\ Tail(todo[t]) \in Seq(Calls)
           /\ \A i \in DOMAIN Tail(todo[t]) :
                 home[Tail(todo[t])[i]] = at[t] /\ at[t] # 0
<1>1. todo[t] \in Seq(Calls)
  BY DEF TurnInv, Shape
<1>2. /\ Tail(todo[t]) \in Seq(Calls)
      /\ \A i \in DOMAIN Tail(todo[t]) :
            i + 1 \in DOMAIN todo[t] /\ Tail(todo[t])[i] = todo[t][i + 1]
  BY <1>1, TailOfCalls
<1>. QED
  BY <1>2 DEF TurnInv, Belongs

\* A turn enters the transaction about a call that has no result and may run.
LEMMA StepEntering ==
    ASSUME TurnInv, NEW t \in Turns, NEW c \in ToolCalls, Resolving(t, c), ~Answered(c),
           request[c] = "approved" \/ (request[c] = "open" /\ c \in UnattendedCalls),
           pc' = [pc EXCEPT ![t] = "execute"],
           UNCHANGED <<log, home, request, outputs, refusals, executed, lost, todo, at, config>>
    PROVE  TurnInv'
<1>0. c \in Calls
  BY DEF Calls
<1>1. /\ pc \in [Turns -> Stages] /\ pc[t] = "call" /\ pc'[t] = "execute"
      /\ \A u \in Turns \ {t} : pc'[u] = pc[u]
      /\ todo[t] # <<>> /\ Head(todo[t]) = c
  BY DEF TurnInv, Shape, Resolving
<1>2. Shape' /\ Belongs' /\ OnlyToolsAsked'
  <2>1. pc' \in [Turns -> Stages]
    BY DEF TurnInv, Shape, Stages
  <2>2. Shape'
    BY <2>1 DEF TurnInv, Shape
  <2>3. Belongs'
    BY DEF TurnInv, Belongs
  <2>4. OnlyToolsAsked'
    BY DEF TurnInv, OnlyToolsAsked
  <2>. QED
    BY <2>2, <2>3, <2>4
<1>3. Position'
  BY <1>1 DEF TurnInv, Position
<1>4. LockHeld'
  BY <1>0, <1>1, NobodyElse DEF TurnInv, LockHeld
<1>5. outputs[c] = 0 /\ refusals[c] = 0
  BY <1>0 DEF Answered, TurnInv, Shape
<1>6. Entitled'
  BY <1>1, <1>5 DEF TurnInv, Entitled
<1>7. \A d \in Calls, u \in Turns : Unstored(u, d)' <=> Unstored(u, d)
  BY <1>1 DEF Unstored
<1>8. RunsAccounted'
  BY <1>7 DEF TurnInv, RunsAccounted, Accounted
<1>. QED
  BY <1>2, <1>3, <1>4, <1>6, <1>8 DEF TurnInv

-----------------------------------------------------------------------------
(* One step per action.                                                    *)
LEMMA StepTurnInv == TurnInv /\ [Next]_vars => TurnInv'
<1>. SUFFICES ASSUME TurnInv, [Next]_vars PROVE TurnInv'
  OBVIOUS
<1>0. /\ pc \in [Turns -> Stages] /\ at \in [Turns -> Nat] /\ log \in Seq(Seq(Calls))
      /\ todo \in [Turns -> Seq(Calls)] /\ config \in [Turns -> Configs \cup {None}]
      /\ Stages \ Locking = {"idle", "loop", "history", "stream", "call", "check"}
  BY DEF TurnInv, Shape, Stages, Locking
<1>1. ASSUME NEW t \in Turns, NEW left, Enter(t, left) PROVE TurnInv'
  <2>1. PICK loaded \in Configs : config' = [config EXCEPT ![t] = loaded]
    BY <1>1 DEF Enter, LoadConfig
  <2>2. /\ pc' = [pc EXCEPT ![t] = "loop"] /\ pc[t] = "idle"
        /\ UNCHANGED <<log, home, request, outputs, refusals, executed, lost, todo, at>>
    BY <1>1 DEF Enter, Goto, conversation, results
  <2>3. /\ config' \in [Turns -> Configs \cup {None}] /\ config'[t] \in Configs
        /\ \A u \in Turns \ {t} : config'[u] = config[u]
    BY <1>0, <2>1
  <2>4. Shape' /\ Belongs'
    BY <1>0, <2>2, <2>3 DEF TurnInv, Shape, Belongs
  <2>. QED
    BY <1>0, <2>2, <2>3, <2>4, StepOutside
<1>2. ASSUME NEW t \in Turns, FindOpen(t) PROVE TurnInv'
  <2>1. /\ pc[t] = "loop"
        /\ UNCHANGED <<log, home, request, outputs, refusals, executed, lost, config>>
    BY <1>2 DEF FindOpen, conversation, results, history
  <2>2. ASSUME NEW m \in DOMAIN log,
               at' = [at EXCEPT ![t] = m], todo' = [todo EXCEPT ![t] = log[m]],
               Goto(t, "call")
        PROVE  TurnInv'
    <3>1. m \in Nat /\ m # 0 /\ log[m] \in Seq(Calls)
      BY <1>0
    <3>2. \A i \in DOMAIN log[m] : home[log[m][i]] = m
      BY DEF TurnInv, Belongs
    <3>3. config'[t] \in Configs
      BY <2>1 DEF TurnInv, Position
    <3>4. /\ pc' = [pc EXCEPT ![t] = "call"]
          /\ todo' \in [Turns -> Seq(Calls)] /\ at' \in [Turns -> Nat]
          /\ \A u \in Turns \ {t} : todo'[u] = todo[u] /\ at'[u] = at[u] /\ config'[u] = config[u]
          /\ \A i \in DOMAIN todo'[t] : home[todo'[t][i]] = at'[t] /\ at'[t] # 0
      BY <1>0, <2>1, <2>2, <3>1, <3>2 DEF Goto
    <3>. QED
      BY <1>0, <2>1, <3>3, <3>4, StepQuiet
  <2>3. ASSUME Goto(t, "history"), UNCHANGED <<at, todo>> PROVE TurnInv'
    BY <1>0, <2>1, <2>3, StepOn DEF Goto
  <2>. QED
    BY <1>2, <2>2, <2>3 DEF FindOpen
<1>3. ASSUME NEW t \in Turns, ReadHistory(t) PROVE TurnInv'
  BY <1>0, <1>3, StepOn DEF ReadHistory, Goto, conversation, results, local, history
<1>4. ASSUME NEW t \in Turns, ModelAnswers(t) PROVE TurnInv'
  <2>1. /\ pc[t] = "stream" /\ log' = Append(log, <<>>)
        /\ UNCHANGED <<home, request, outputs, refusals, executed, lost>>
        /\ pc' = [pc EXCEPT ![t] = "idle"]
        /\ at' = [at EXCEPT ![t] = 0] /\ todo' = [todo EXCEPT ![t] = <<>>]
        /\ config' = [config EXCEPT ![t] = None]
    BY <1>4 DEF ModelAnswers, Leave, Goto, results, history
  <2>2. /\ log' \in Seq(Seq(Calls))
        /\ \A m \in DOMAIN log' : (m \in DOMAIN log /\ log'[m] = log[m]) \/ log'[m] = <<>>
    BY <1>0, <2>1
  <2>3. Shape'
    BY <1>0, <2>1, <2>2 DEF TurnInv, Shape
  <2>4. Belongs'
    BY <1>0, <2>1, <2>2 DEF TurnInv, Belongs
  <2>. QED
    BY <1>0, <2>1, <2>3, <2>4, StepOutside
<1>5. ASSUME NEW t \in Turns, ModelCalls(t) PROVE TurnInv'
  <2>1. PICK batch \in Batches({c \in Calls : home[c] = 0}) :
            /\ log' = Append(log, batch)
            /\ home' = [c \in Calls |->
                   IF \E i \in DOMAIN batch : batch[i] = c THEN Len(log) + 1 ELSE home[c]]
            /\ todo' = [todo EXCEPT ![t] = batch]
    BY <1>5 DEF ModelCalls
  <2>2. /\ pc[t] = "stream" /\ pc' = [pc EXCEPT ![t] = "call"]
        /\ at' = [at EXCEPT ![t] = Len(log) + 1]
        /\ UNCHANGED <<request, outputs, refusals, executed, lost, config>>
    BY <1>5 DEF ModelCalls, Goto, results, history
  <2>3. batch \in Seq(Calls) /\ \A i \in DOMAIN batch : batch[i] \in Calls /\ home[batch[i]] = 0
    BY ONLY <2>1, BatchIsFresh
  <2>4. /\ Len(log) + 1 \in Nat /\ Len(log) + 1 # 0
        /\ log' \in Seq(Seq(Calls))
        /\ \A m \in DOMAIN log' : \/ m \in DOMAIN log /\ log'[m] = log[m] /\ m # 0
                                  \/ m = Len(log) + 1 /\ log'[m] = batch
        /\ \A m \in DOMAIN log : log[m] \in Seq(Calls) /\ m # 0
    BY <1>0, <2>1, <2>3
  <2>5. home' \in [Calls -> Nat] /\ \A c \in Calls : home[c] # 0 => home'[c] = home[c]
    <3>1. home \in [Calls -> Nat]
      BY DEF TurnInv, Shape
    <3>. QED
      BY <2>1, <2>3, <2>4, <3>1
  <2>6. \A i \in DOMAIN batch : home'[batch[i]] = Len(log) + 1
    BY <2>1, <2>3
  <2>7. Shape'
    BY <1>0, <2>1, <2>2, <2>3, <2>4, <2>5 DEF TurnInv, Shape, Stages
  <2>8. \A m \in DOMAIN log' : \A i \in DOMAIN log'[m] : home'[log'[m][i]] = m
    <3>1. ASSUME NEW m \in DOMAIN log, NEW i \in DOMAIN log[m] PROVE home'[log[m][i]] = m
      <4>1. log[m][i] \in Calls /\ home[log[m][i]] = m /\ m # 0
        BY <2>4 DEF TurnInv, Belongs
      <4>. QED
        BY <4>1, <2>5
    <3>. QED
      BY <2>4, <2>6, <3>1
  <2>9. \A u \in Turns : \A i \in DOMAIN todo'[u] : home'[todo'[u][i]] = at'[u] /\ at'[u] # 0
    <3>1. ASSUME NEW u \in Turns \ {t}, NEW i \in DOMAIN todo[u]
          PROVE  home'[todo[u][i]] = at[u] /\ at[u] # 0
      <4>1. todo[u][i] \in Calls /\ home[todo[u][i]] = at[u] /\ at[u] # 0
        BY <1>0 DEF TurnInv, Belongs
      <4>. QED
        BY <4>1, <2>5
    <3>2. /\ todo'[t] = batch /\ at'[t] = Len(log) + 1
          /\ \A u \in Turns \ {t} : todo'[u] = todo[u] /\ at'[u] = at[u]
      BY <1>0, <2>1, <2>2
    <3>. QED
      BY <2>4, <2>6, <3>1, <3>2
  <2>10. config[t] \in Configs
    BY <2>2 DEF TurnInv, Position
  <2>11. \A u \in Turns \ {t} : todo'[u] = todo[u] /\ at'[u] = at[u] /\ config'[u] = config[u]
    BY <1>0, <2>1, <2>2
  <2>. QED
    BY <1>0, <2>2, <2>7, <2>8, <2>9, <2>10, <2>11, StepOutside DEF Belongs
<1>6. ASSUME NEW t \in Turns, GiveUp(t) PROVE TurnInv'
  BY <1>6, StepLeave DEF GiveUp, conversation, results, history
<1>7. ASSUME NEW t \in Turns, CloseMessage(t) PROVE TurnInv'
  <2>1. /\ pc[t] = "check"
        /\ UNCHANGED <<log, home, request, outputs, refusals, executed, lost>>
    BY <1>7 DEF CloseMessage, results, history
  <2>2. CASE Leave(t)
    BY <2>1, <2>2, StepLeave
  <2>3. CASE Goto(t, "loop") /\ UNCHANGED local
    BY <1>0, <2>1, <2>3, StepOn DEF Goto, local
  <2>. QED
    BY <1>7, <2>2, <2>3 DEF CloseMessage
<1>8. ASSUME NEW t \in Turns, EndWalk(t) PROVE TurnInv'
  BY <1>0, <1>8, StepOn DEF EndWalk, Goto, conversation, results, local, history
<1>9. ASSUME NEW t \in Turns, SkipAnswered(t) PROVE TurnInv'
  <2>1. /\ pc[t] = "call" /\ todo[t] # <<>>
        /\ pc' = [pc EXCEPT ![t] = "call"] /\ todo' = [todo EXCEPT ![t] = Tail(todo[t])]
        /\ UNCHANGED <<log, home, request, outputs, refusals, executed, lost, at, config>>
    BY <1>9 DEF SkipAnswered, Resolving, NextCall, Goto, conversation, results, history
  <2>2. /\ Tail(todo[t]) \in Seq(Calls)
        /\ \A i \in DOMAIN Tail(todo[t]) : home[Tail(todo[t])[i]] = at[t] /\ at[t] # 0
    BY <2>1, WalkOn
  <2>3. config'[t] \in Configs
    BY <2>1 DEF TurnInv, Position
  <2>4. /\ todo' \in [Turns -> Seq(Calls)]
        /\ \A u \in Turns \ {t} : todo'[u] = todo[u]
        /\ \A i \in DOMAIN todo'[t] : home[todo'[t][i]] = at'[t] /\ at'[t] # 0
    BY <1>0, <2>1, <2>2
  <2>. QED
    BY <1>0, <2>1, <2>3, <2>4, StepQuiet
<1>10. ASSUME NEW t \in Turns, StopAtPending(t) PROVE TurnInv'
  BY <1>0, <1>10, StepOn
  DEF StopAtPending, Resolving, Goto, conversation, results, local, history
<1>11. ASSUME NEW t \in Turns, TakeApproved(t) PROVE TurnInv'
  <2>1. PICK c \in Calls : Resolving(t, c) /\ ~Answered(c) /\ request[c] = "approved"
    BY <1>11 DEF TakeApproved
  <2>2. c \in ToolCalls
    BY <2>1 DEF TurnInv, OnlyToolsAsked, Calls
  <2>. QED
    BY <1>11, <2>1, <2>2, StepEntering DEF TakeApproved, Goto, conversation, results, history
<1>12. ASSUME NEW t \in Turns, TakeUnattended(t) PROVE TurnInv'
  <2>1. PICK c \in ToolCalls, org \in OrgEffects \ {"deny"}, standing \in BOOLEAN :
            /\ Resolving(t, c) /\ ~Answered(c) /\ request[c] = "open"
            /\ Decision(t, c, org, standing) = "auto"
    BY <1>12 DEF TakeUnattended
  <2>2. config[t] \in Configs
    BY <2>1 DEF Resolving, TurnInv, Position
  <2>3. c \in UnattendedCalls
    BY <2>1, <2>2, AutoIsUnattended
  <2>. QED
    BY <1>12, <2>1, <2>3, StepEntering DEF TakeUnattended, Goto, conversation, results, history
<1>13. ASSUME NEW t \in Turns, RecordRefusal(t) PROVE TurnInv'
  <2>1. PICK c \in Calls :
            Resolving(t, c) /\ ~Answered(c) /\ refusals' = [refusals EXCEPT ![c] = @ + 1]
    BY <1>13 DEF RecordRefusal
  <2>2. /\ pc[t] = "call" /\ todo[t] # <<>>
        /\ pc' = [pc EXCEPT ![t] = "call"] /\ todo' = [todo EXCEPT ![t] = Tail(todo[t])]
        /\ UNCHANGED <<log, home, request, outputs, executed, lost, at, config>>
    BY <1>13, <2>1 DEF RecordRefusal, Resolving, NextCall, Goto, conversation, history
  <2>3. /\ pc' = pc /\ \A u \in Turns : u # t => todo'[u] = todo[u]
    BY <1>0, <2>2
  <2>4. /\ Tail(todo[t]) \in Seq(Calls)
        /\ \A i \in DOMAIN Tail(todo[t]) : home[Tail(todo[t])[i]] = at[t] /\ at[t] # 0
    BY <2>2, WalkOn
  <2>5. /\ outputs[c] = 0 /\ refusals[c] = 0 /\ refusals' \in [Calls -> Nat]
        /\ refusals'[c] = 1 /\ \A d \in Calls : d # c => refusals'[d] = refusals[d]
    BY <2>1 DEF Answered, TurnInv, Shape
  <2>6. Shape' /\ Belongs'
    <3>1. todo' \in [Turns -> Seq(Calls)] /\ todo'[t] = Tail(todo[t])
      BY <1>0, <2>2, <2>4
    <3>2. Shape'
      BY ONLY TurnInv, <2>2, <2>3, <2>5, <3>1 DEF TurnInv, Shape
    <3>3. \A i \in DOMAIN todo'[t] : home[todo'[t][i]] = at'[t] /\ at'[t] # 0
      BY <2>2, <2>4, <3>1
    <3>. QED
      BY <2>2, <2>3, <3>2, <3>3, BelongsStands DEF TurnInv
  <2>7. \A u \in Turns : pc[u] \in Locking => u # t /\ Head(todo[u]) # c
    BY <2>1, NobodyElse
  <2>8. Position' /\ LockHeld'
    BY <2>2, <2>3, <2>7 DEF TurnInv, Position, LockHeld
  <2>9. Entitled'
    <3>1. ASSUME NEW u \in Turns, pc[u] \in Locking
          PROVE  Head(todo[u]) \in Calls /\ todo'[u] = todo[u] /\ Head(todo[u]) # c
      BY <2>3, <2>7, <3>1 DEF TurnInv, Position, Calls
    <3>2. ASSUME NEW u \in Turns, pc[u] \in Locking
          PROVE  /\ outputs'[Head(todo'[u])] = 0 /\ refusals'[Head(todo'[u])] = 0
                 /\ \/ request'[Head(todo'[u])] = "approved"
                    \/ /\ request'[Head(todo'[u])] = "open"
                       /\ Head(todo'[u]) \in UnattendedCalls
      <4>1. /\ outputs[Head(todo[u])] = 0 /\ refusals[Head(todo[u])] = 0
            /\ \/ request[Head(todo[u])] = "approved"
               \/ request[Head(todo[u])] = "open" /\ Head(todo[u]) \in UnattendedCalls
        BY <3>2 DEF TurnInv, Entitled
      <4>. QED
        BY <2>2, <2>5, <3>1, <3>2, <4>1 DEF TurnInv
    <3>. QED
      BY <2>3, <3>2 DEF Entitled
  <2>10. \A d \in Calls, u \in Turns : Unstored(u, d)' <=> Unstored(u, d)
    BY <2>2, <2>3 DEF Unstored
  <2>11. \A u \in Turns : ~Unstored(u, c)
    BY <2>7 DEF Unstored, Locking
  <2>12. Accounted(c)'
    <3>1. executed[c] = lost[c] + outputs[c] /\ \A u \in Turns : ~Unstored(u, c)'
      BY <2>1, <2>10, <2>11 DEF TurnInv, RunsAccounted, Accounted
    <3>2. outputs'[c] + refusals'[c] <= 1 /\ executed'[c] = lost'[c] + outputs'[c]
      BY <2>2, <2>5, <3>1
    <3>. QED
      BY <3>1, <3>2 DEF Accounted
  <2>13. RunsAccounted'
    BY <2>2, <2>5, <2>10, <2>12, OtherCall DEF TurnInv, RunsAccounted
  <2>14. OnlyToolsAsked'
    BY <2>2 DEF TurnInv, OnlyToolsAsked
  <2>. QED
    BY <2>6, <2>8, <2>9, <2>13, <2>14 DEF TurnInv
<1>14. ASSUME NEW t \in Turns, RequestApproval(t) PROVE TurnInv'
  <2>1. PICK c \in ToolCalls :
            Resolving(t, c) /\ ~Answered(c) /\ request' = [request EXCEPT ![c] = "pending"]
    BY <1>14 DEF RequestApproval
  <2>2. /\ pc[t] = "call" /\ pc' = [pc EXCEPT ![t] = "check"]
        /\ UNCHANGED <<log, home, outputs, refusals, executed, lost, at, config, todo>>
    BY <1>14, <2>1 DEF RequestApproval, Resolving, Goto, results, local, history
  <2>3. /\ c \in Calls /\ request' \in [Calls -> Standings]
        /\ \A d \in Calls : d # c => request'[d] = request[d]
    BY <2>1 DEF TurnInv, Shape, Standings, Calls
  <2>4. /\ pc' \in [Turns -> Stages] /\ pc'[t] \notin Locking /\ pc'[t] # "store"
        /\ \A u \in Turns \ {t} : pc'[u] = pc[u]
    BY <1>0, <2>2 DEF Stages, Locking
  <2>5. Shape' /\ Belongs'
    BY <2>2, <2>3, <2>4 DEF TurnInv, Shape, Belongs
  <2>6. Position' /\ LockHeld'
    BY <2>2, <2>4 DEF TurnInv, Position, LockHeld
  <2>7. Entitled'
    <3>1. ASSUME NEW u \in Turns, pc'[u] \in Locking
          PROVE  u # t /\ Head(todo[u]) \in Calls /\ Head(todo[u]) # c
      BY <2>1, <2>3, <2>4, <3>1, NobodyElse DEF TurnInv, Position, Calls
    <3>. QED
      BY <2>2, <2>3, <2>4, <3>1 DEF TurnInv, Entitled
  <2>8. \A d \in Calls, u \in Turns : Unstored(u, d)' <=> Unstored(u, d)
    BY <2>2, <2>4 DEF Unstored
  <2>9. RunsAccounted'
    BY <2>2, <2>8 DEF TurnInv, RunsAccounted, Accounted
  <2>10. OnlyToolsAsked'
    BY <2>1, <2>3, ConstantsAssumption DEF TurnInv, OnlyToolsAsked, Calls
  <2>. QED
    BY <2>5, <2>6, <2>7, <2>9, <2>10 DEF TurnInv
<1>15. ASSUME NEW t \in Turns, ExecuteTool(t) PROVE TurnInv'
  <2>1. PICK c \in Calls : c = Head(todo[t])
    BY <1>15 DEF TurnInv, Position, ExecuteTool, Locking, Calls
  <2>2. /\ pc[t] = "execute" /\ pc' = [pc EXCEPT ![t] = "store"]
        /\ executed' = [executed EXCEPT ![c] = @ + 1]
        /\ UNCHANGED <<log, home, request, outputs, refusals, lost, at, config, todo>>
    BY <1>15, <2>1 DEF ExecuteTool, Goto, conversation, results, local
  <2>3. outputs[c] = 0 /\ refusals[c] = 0
    BY <2>1, <2>2 DEF TurnInv, Entitled, Locking
  <2>4. /\ pc' \in [Turns -> Stages] /\ pc'[t] = "store"
        /\ \A u \in Turns : u # t => pc'[u] = pc[u]
    BY <1>0, <2>2 DEF Stages
  <2>5. /\ executed' \in [Calls -> Nat] /\ executed'[c] = executed[c] + 1
        /\ \A d \in Calls : d # c => executed'[d] = executed[d]
    BY <2>2 DEF TurnInv, Shape
  <2>6. Shape' /\ Belongs' /\ OnlyToolsAsked'
    <3>1. Shape'
      BY ONLY TurnInv, <2>2, <2>4, <2>5 DEF TurnInv, Shape
    <3>2. Belongs'
      BY ONLY TurnInv, <2>2 DEF TurnInv, Belongs
    <3>3. OnlyToolsAsked'
      BY ONLY TurnInv, <2>2 DEF TurnInv, OnlyToolsAsked
    <3>. QED
      BY <3>1, <3>2, <3>3
  <2>7. \A u \in Turns : pc'[u] \in Locking <=> pc[u] \in Locking
    BY <2>2, <2>4 DEF Locking
  <2>8. Position' /\ LockHeld' /\ Entitled'
    BY <2>2, <2>4, <2>7 DEF TurnInv, Position, LockHeld, Entitled
  <2>9. \A u \in Turns : ~Unstored(u, c)
    BY <2>1, <2>2, DifferentCalls DEF Unstored, Locking
  <2>10. \A d \in Calls : d # c => \A u \in Turns : Unstored(u, d)' <=> Unstored(u, d)
    BY <2>1, <2>2, <2>4 DEF Unstored
  <2>11. Accounted(c)'
    <3>1. Unstored(t, c)'
      BY <2>1, <2>2, <2>4 DEF Unstored
    <3>2. executed[c] = lost[c] + outputs[c] /\ lost[c] \in Nat
      BY <2>9 DEF TurnInv, RunsAccounted, Accounted, Shape
    <3>3. outputs'[c] + refusals'[c] <= 1 /\ executed'[c] = lost'[c] + 1
      BY <2>2, <2>3, <2>5, <3>2
    <3>. QED
      BY <3>1, <3>3 DEF Accounted
  <2>12. RunsAccounted'
    BY <2>2, <2>5, <2>10, <2>11, OtherCall DEF TurnInv, RunsAccounted
  <2>. QED
    BY <2>6, <2>8, <2>12 DEF TurnInv
<1>16. ASSUME NEW t \in Turns, StoreResult(t) PROVE TurnInv'
  <2>1. PICK c \in Calls : c = Head(todo[t])
    BY <1>16 DEF TurnInv, Position, StoreResult, Locking, Calls
  <2>2. /\ pc[t] = "store" /\ pc' = [pc EXCEPT ![t] = "call"]
        /\ outputs' = [outputs EXCEPT ![c] = @ + 1]
        /\ todo' = [todo EXCEPT ![t] = Tail(todo[t])]
        /\ UNCHANGED <<log, home, request, executed, refusals, lost, at, config>>
    BY <1>16, <2>1 DEF StoreResult, NextCall, Goto, conversation, history
  <2>3. /\ outputs[c] = 0 /\ refusals[c] = 0 /\ todo[t] # <<>>
        /\ executed[c] = lost[c] + 1
    BY <2>1, <2>2 DEF TurnInv, Position, Entitled, Locking, RunsAccounted, Accounted, Unstored
  <2>4. /\ pc' \in [Turns -> Stages] /\ pc'[t] = "call"
        /\ \A u \in Turns : u # t => pc'[u] = pc[u] /\ todo'[u] = todo[u]
    BY <1>0, <2>2 DEF Stages
  <2>5. /\ outputs' \in [Calls -> Nat] /\ outputs'[c] = 1
        /\ \A d \in Calls : d # c => outputs'[d] = outputs[d]
    BY <2>2, <2>3 DEF TurnInv, Shape
  <2>6. /\ Tail(todo[t]) \in Seq(Calls)
        /\ \A i \in DOMAIN Tail(todo[t]) : home[Tail(todo[t])[i]] = at[t] /\ at[t] # 0
    BY <2>3, WalkOn
  <2>7. /\ todo' \in [Turns -> Seq(Calls)] /\ todo'[t] = Tail(todo[t])
    BY <1>0, <2>2, <2>6
  <2>8. Shape' /\ OnlyToolsAsked'
    BY <2>2, <2>4, <2>5, <2>7 DEF TurnInv, Shape, OnlyToolsAsked
  <2>9. Belongs'
    BY <2>2, <2>4, <2>6, <2>7 DEF TurnInv, Belongs
  <2>10. Position' /\ LockHeld'
    BY <2>2, <2>4 DEF TurnInv, Position, LockHeld, Locking
  <2>11. \A u \in Turns : u # t /\ pc[u] \in Locking =>
            Head(todo[u]) # c /\ Head(todo[u]) \in Calls
    BY <2>1, <2>2, DifferentCalls DEF Locking, TurnInv, Position, Calls
  <2>12. Entitled'
    BY <2>2, <2>4, <2>5, <2>11 DEF TurnInv, Entitled, Locking
  <2>13. \A u \in Turns : ~Unstored(u, c)'
    BY <2>4, <2>11 DEF Unstored, Locking
  <2>14. \A d \in Calls : d # c => \A u \in Turns : Unstored(u, d)' <=> Unstored(u, d)
    BY <2>1, <2>2, <2>4 DEF Unstored
  <2>15. Accounted(c)'
    <3>1. outputs'[c] + refusals'[c] <= 1 /\ executed'[c] = lost'[c] + outputs'[c]
      BY <2>2, <2>3, <2>5
    <3>. QED
      BY <2>13, <3>1 DEF Accounted
  <2>16. RunsAccounted'
    BY <2>2, <2>5, <2>14, <2>15, OtherCall DEF TurnInv, RunsAccounted
  <2>. QED
    BY <2>8, <2>9, <2>10, <2>12, <2>16 DEF TurnInv
<1>17. ASSUME NEW t \in Turns, Break(t) PROVE TurnInv'
  <2>1. Leave(t) /\ UNCHANGED <<log, home, request, outputs, refusals, executed>>
    BY <1>17 DEF Break, conversation, results
  <2>2. CASE pc[t] # "store"
    BY <1>17, <2>1, <2>2, StepLeave DEF Break
  <2>3. CASE pc[t] = "store"
    <3>1. PICK c \in Calls : c = Head(todo[t])
      BY <2>3 DEF TurnInv, Position, Locking, Calls
    <3>2. /\ pc' = [pc EXCEPT ![t] = "idle"]
          /\ todo' = [todo EXCEPT ![t] = <<>>] /\ at' = [at EXCEPT ![t] = 0]
          /\ config' = [config EXCEPT ![t] = None]
          /\ lost' = [lost EXCEPT ![c] = @ + 1]
      BY <1>17, <2>1, <2>3, <3>1 DEF Break, Leave, Goto
    <3>3. /\ outputs[c] = 0 /\ refusals[c] = 0
          /\ executed[c] = lost[c] + 1
      BY <2>3, <3>1 DEF TurnInv, Entitled, Locking, RunsAccounted, Accounted, Unstored
    <3>4. /\ pc' \in [Turns -> Stages] /\ pc'[t] = "idle" /\ todo'[t] = <<>>
          /\ todo' \in [Turns -> Seq(Calls)] /\ at' \in [Turns -> Nat]
          /\ config' \in [Turns -> Configs \cup {None}]
      BY <1>0, <3>2 DEF Stages
    <3>5. \A u \in Turns : u # t => /\ pc'[u] = pc[u] /\ todo'[u] = todo[u]
                                    /\ at'[u] = at[u] /\ config'[u] = config[u]
      BY <1>0, <3>2
    <3>6. /\ lost' \in [Calls -> Nat] /\ lost'[c] = lost[c] + 1
          /\ \A d \in Calls : d # c => lost'[d] = lost[d]
      BY <3>2 DEF TurnInv, Shape
    <3>7. Shape' /\ OnlyToolsAsked'
      BY <2>1, <3>4, <3>6 DEF TurnInv, Shape, OnlyToolsAsked
    <3>8. Belongs'
      <4>1. DOMAIN todo'[t] = {}
        BY <3>4
      <4>. QED
        BY <2>1, <3>5, <4>1 DEF TurnInv, Belongs
    <3>9. Position' /\ LockHeld'
      <4>1. pc'[t] \notin Locking
        BY <3>4 DEF Locking
      <4>2. Position'
        BY ONLY TurnInv, <3>4, <3>5, <4>1 DEF TurnInv, Position
      <4>3. LockHeld'
        BY ONLY TurnInv, <3>5, <4>1 DEF TurnInv, LockHeld
      <4>. QED
        BY <4>2, <4>3
    <3>10. Entitled'
      BY <2>1, <3>4, <3>5 DEF TurnInv, Entitled, Locking
    <3>11. \A u \in Turns : ~Unstored(u, c)'
      BY <2>3, <3>1, <3>4, <3>5, DifferentCalls DEF Unstored, Locking
    <3>12. \A d \in Calls : d # c => \A u \in Turns : Unstored(u, d)' <=> Unstored(u, d)
      BY <2>3, <3>1, <3>4, <3>5 DEF Unstored
    <3>13. Accounted(c)'
      <4>1. outputs'[c] + refusals'[c] <= 1 /\ executed'[c] = lost'[c] + outputs'[c]
        BY <2>1, <3>3, <3>6 DEF TurnInv, Shape
      <4>. QED
        BY <3>11, <4>1 DEF Accounted
    <3>14. RunsAccounted'
      BY <2>1, <3>6, <3>12, <3>13, OtherCall DEF TurnInv, RunsAccounted
    <3>. QED
      BY <3>7, <3>8, <3>9, <3>10, <3>14 DEF TurnInv
  <2>. QED
    BY <2>2, <2>3
<1>18. ASSUME NEW c \in Calls, Decide(c) PROVE TurnInv'
  <2>1. /\ request[c] = "pending"
        /\ UNCHANGED <<log, home, outputs, refusals, pc, at, todo, config, executed, lost>>
        /\ request' \in [Calls -> Standings]
        /\ \A d \in Calls : d # c => request'[d] = request[d]
    BY <1>18 DEF Decide, conversation, results, local, history, TurnInv, Shape, Standings
  <2>2. Shape' /\ Belongs' /\ Position' /\ LockHeld'
    BY <2>1 DEF TurnInv, Shape, Belongs, Position, LockHeld
  <2>3. Entitled'
    <3>1. ASSUME NEW u \in Turns, pc[u] \in Locking
          PROVE  Head(todo[u]) \in Calls /\ Head(todo[u]) # c
      BY <2>1, <3>1 DEF TurnInv, Position, Entitled, Calls
    <3>. QED
      BY <2>1, <3>1 DEF TurnInv, Entitled
  <2>4. RunsAccounted'
    BY <2>1 DEF TurnInv, RunsAccounted, Accounted, Unstored
  <2>5. OnlyToolsAsked'
    BY <2>1 DEF TurnInv, OnlyToolsAsked, Calls
  <2>. QED
    BY <2>2, <2>3, <2>4, <2>5 DEF TurnInv
<1>19. ASSUME UNCHANGED vars PROVE TurnInv'
  BY <1>19
  DEF vars, conversation, results, local, history, TurnInv, Shape, Belongs, Position, LockHeld,
      Entitled, RunsAccounted, Accounted, OnlyToolsAsked, Unstored
<1>20. ASSUME NEW t \in Turns, TurnStep(t) PROVE TurnInv'
  BY <1>2, <1>3, <1>4, <1>5, <1>6, <1>7, <1>8, <1>9, <1>10, <1>11, <1>12, <1>13, <1>14, <1>15,
     <1>16, <1>20 DEF TurnStep
<1>21. ASSUME NEW t \in Turns, Begin(t) \/ Opening(t) \/ Regenerate(t) PROVE TurnInv'
  BY <1>1, <1>21 DEF Begin, Opening, Regenerate
<1>. QED
  BY <1>17, <1>18, <1>19, <1>20, <1>21 DEF Next

-----------------------------------------------------------------------------
\* Under any number of concurrent turns, resumes and cut-offs, the lock on the
\* assistant message gives each call one result, and no run beyond it that a
\* rollback does not explain (_resolve_one_tool_call).
THEOREM EachCallResolvedOnce == Spec => []ResolvedOnce
<1>1. TurnInv => ResolvedOnce
  <2>. SUFFICES ASSUME TurnInv, NEW c \in Calls
                PROVE  outputs[c] + refusals[c] <= 1 /\ executed[c] <= 1 + lost[c]
    BY DEF ResolvedOnce
  <2>1. /\ outputs[c] \in Nat /\ refusals[c] \in Nat /\ lost[c] \in Nat
        /\ outputs[c] + refusals[c] <= 1
    BY DEF TurnInv, Shape, RunsAccounted, Accounted
  <2>2. executed[c] = lost[c] + 1 \/ executed[c] = lost[c] + outputs[c]
    BY DEF TurnInv, RunsAccounted, Accounted
  <2>. QED
    BY <2>1, <2>2
<1>. QED
  BY <1>1, InitTurnInv, StepTurnInv, PTL DEF Spec

-----------------------------------------------------------------------------
(* The gate that chat and the task engine both promise.                    *)

\* The variables of the gate, as the conversation's rows give them.
GateVars == <<[c \in ToolCalls |-> request[c]], [c \in ToolCalls |-> outputs[c]]>>

\* A step that touches neither the requests nor the results is none of the gate's.
LEMMA GateStutters ==
    ASSUME UNCHANGED <<request, outputs>>
    PROVE  UNCHANGED GateVars
BY DEF GateVars

LEMMA GateInit == Init => Gate!Init
<1>. SUFFICES ASSUME Init PROVE Gate!Init
  OBVIOUS
<1>1. ToolCalls \subseteq Calls
  BY DEF Calls
<1>. QED
  BY <1>1 DEF Init, Gate!Init

LEMMA GateStep ==
    ASSUME TurnInv, [Next]_vars
    PROVE  [Gate!Next]_GateVars
<1>0. ToolCalls \subseteq Calls /\ request \in [Calls -> Standings] /\ outputs \in [Calls -> Nat]
  BY DEF Calls, TurnInv, Shape
<1>1. ASSUME NEW t \in Turns, RequestApproval(t) PROVE Gate!Next
  <2>1. PICK c \in ToolCalls : /\ ~Answered(c) /\ request[c] = "open"
                               /\ request' = [request EXCEPT ![c] = "pending"]
    BY <1>1 DEF RequestApproval
  <2>2. outputs[c] = 0 /\ outputs' = outputs
    BY <1>0, <1>1, <2>1 DEF RequestApproval, results, Answered, TurnInv, Shape
  <2>3. [d \in ToolCalls |-> request[d]]' =
            [[d \in ToolCalls |-> request[d]] EXCEPT ![c] = "pending"]
    BY <1>0, <2>1
  <2>4. Gate!Request(c)
    BY <2>1, <2>2, <2>3 DEF Gate!Request
  <2>. QED
    BY <2>1, <2>4 DEF Gate!Next
<1>2. ASSUME NEW c \in Calls, Decide(c) PROVE Gate!Next
  <2>1. /\ request[c] = "pending" /\ outputs' = outputs
        /\ \E decision \in {"approved", "denied"} :
              request' = [request EXCEPT ![c] = decision]
    BY <1>2 DEF Decide, results
  <2>2. c \in ToolCalls
    BY <2>1 DEF Calls, TurnInv, OnlyToolsAsked
  <2>3. PICK decision \in {"approved", "denied"} : request' = [request EXCEPT ![c] = decision]
    BY <2>1
  <2>4. [d \in ToolCalls |-> request[d]]' =
            [[d \in ToolCalls |-> request[d]] EXCEPT ![c] = decision]
    BY <1>0, <2>2, <2>3
  <2>5. Gate!Settle(c)
    BY <2>1, <2>2, <2>4 DEF Gate!Settle
  <2>. QED
    BY <2>2, <2>5 DEF Gate!Next
<1>3. ASSUME NEW t \in Turns, StoreResult(t) PROVE Gate!Next
  <2>1. PICK c \in ToolCalls : c = Head(todo[t])
    BY <1>3 DEF TurnInv, Position, StoreResult, Locking
  <2>2. /\ pc[t] = "store" /\ request' = request
        /\ outputs' = [outputs EXCEPT ![c] = @ + 1]
    BY <1>3, <2>1 DEF StoreResult
  <2>3. /\ outputs[c] = 0
        /\ request[c] = "approved" \/ (request[c] = "open" /\ c \in UnattendedCalls)
    BY <2>1, <2>2 DEF TurnInv, Entitled, Locking
  <2>4. [d \in ToolCalls |-> outputs[d]]' = [[d \in ToolCalls |-> outputs[d]] EXCEPT ![c] = 1]
    <3>1. outputs'[c] = 1 /\ \A d \in ToolCalls : d # c => outputs'[d] = outputs[d]
      BY <1>0, <2>2, <2>3
    <3>. QED
      BY <3>1
  <2>5. Gate!Run(c)
    BY <2>1, <2>2, <2>3, <2>4 DEF Gate!Run
  <2>. QED
    BY <2>1, <2>5 DEF Gate!Next
<1>4. ASSUME NEW t \in Turns, Begin(t) \/ Opening(t) \/ Regenerate(t) \/ Break(t) PROVE UNCHANGED GateVars
  BY <1>4, GateStutters DEF Begin, Opening, Regenerate, Enter, Break, results
<1>5. ASSUME NEW t \in Turns, TurnStep(t), ~RequestApproval(t), ~StoreResult(t)
      PROVE  UNCHANGED GateVars
  BY <1>5, GateStutters
  DEF TurnStep, FindOpen, ReadHistory, ModelAnswers, ModelCalls, GiveUp, CloseMessage, EndWalk,
      SkipAnswered, StopAtPending, TakeApproved, RecordRefusal, TakeUnattended, ExecuteTool, results
<1>6. ASSUME UNCHANGED vars PROVE UNCHANGED GateVars
  BY <1>6, GateStutters DEF vars, results
<1>. QED
  BY <1>1, <1>2, <1>3, <1>4, <1>5, <1>6 DEF Next

\* Whatever turns run at once, resume, regenerate or are cut off, chat asks for a
\* call at most once, lets only an approval or a configuration run it, and stores
\* one result of it (_resolve_one_tool_call and decide_approval_request).
THEOREM ChatImplementsGate == Spec => GateSpec
<1>. QED
  BY GateInit, InitTurnInv, StepTurnInv, GateStep, PTL DEF Spec, GateSpec, Gate!Spec, GateVars

-----------------------------------------------------------------------------
(* Whole histories.  A turn looks at the latest message with calls only:   *)
(* an open message has to be that one, so no other turn may add a message  *)
(* behind it, and no regeneration may leave it out.                        *)

\* One turn at a time.
Alone == \A t, u \in Turns : pc[t] # "idle" /\ pc[u] # "idle" => t = u

\* The messages no regeneration has left out.
Kept == DOMAIN log \ forked

\* A kept message with an open call is the latest one with calls.
OpenIsLatest ==
    \A m \in Kept : ~Resolved(m) => \A n \in DOMAIN log : n > m => log[n] = <<>>

\* Past the search, until the model has answered, no kept message is open.
NothingOpen ==
    \A t \in Turns : pc[t] \in {"history", "stream"} => \A m \in Kept : Resolved(m)

WholeInv ==
    /\ skipped \in [Turns -> SUBSET forked]
    /\ ~overlapped => Alone /\ OpenIsLatest /\ NothingOpen

\* Results are never taken away, and a stored message keeps its calls.
LEMMA ResultsStay ==
    ASSUME TurnInv, [Next]_vars
    PROVE  \A c \in Calls : Answered(c) => Answered(c)'
<1>1. ASSUME NEW t \in Turns, RecordRefusal(t)
      PROVE  \A c \in Calls : Answered(c) => Answered(c)'
  <2>1. outputs \in [Calls -> Nat] /\ refusals \in [Calls -> Nat]
    BY DEF TurnInv, Shape
  <2>2. PICK c \in Calls : refusals' = [refusals EXCEPT ![c] = @ + 1]
    BY <1>1 DEF RecordRefusal
  <2>3. outputs' = outputs
    BY <1>1 DEF RecordRefusal
  <2> QED
    BY ONLY <2>1, <2>2, <2>3 DEF Answered
<1>2. ASSUME NEW t \in Turns, StoreResult(t)
      PROVE  \A c \in Calls : Answered(c) => Answered(c)'
  <2>1. outputs \in [Calls -> Nat] /\ refusals \in [Calls -> Nat]
    BY DEF TurnInv, Shape
  <2>2. outputs' = [outputs EXCEPT ![Head(todo[t])] = @ + 1] /\ refusals' = refusals
    BY <1>2 DEF StoreResult
  <2> QED
    BY ONLY <2>1, <2>2 DEF Answered
<1>3. CASE UNCHANGED results
  BY <1>3 DEF results, Answered
<1>. QED
  BY <1>1, <1>2, <1>3
  DEF Next, TurnStep, Begin, Opening, Regenerate, Enter, FindOpen, ReadHistory,
      ModelAnswers, ModelCalls, GiveUp, CloseMessage, EndWalk, SkipAnswered,
      StopAtPending, TakeApproved, RequestApproval, TakeUnattended, ExecuteTool,
      Break, Decide, vars

\* A resolved message stays resolved: results are never taken back.
LEMMA ResolvedStays ==
    ASSUME TurnInv, [Next]_vars, NEW m \in DOMAIN log, log'[m] = log[m], Resolved(m)
    PROVE  Resolved(m)'
<1>1. \A i \in DOMAIN log[m] : log[m][i] \in Calls
  BY DEF TurnInv, Shape
<1>. QED
  BY <1>1, ResultsStay DEF Resolved

\* A step that stores no message, and begins and searches nothing.
LEMMA WholeKept ==
    ASSUME TurnInv, WholeInv, [Next]_vars,
           UNCHANGED <<log, forked, overlapped>>,
           skipped' \in [Turns -> SUBSET forked],
           \A t \in Turns :
               /\ pc'[t] # "idle" => pc[t] # "idle"
               /\ pc'[t] \in {"history", "stream"} => pc[t] \in {"history", "stream"}
    PROVE  WholeInv'
<1>1. \A m \in DOMAIN log : Resolved(m) => Resolved(m)'
  BY ResolvedStays
<1>2. Alone => Alone'
  BY DEF Alone
<1>3. OpenIsLatest => OpenIsLatest'
  BY <1>1 DEF OpenIsLatest, Kept
<1>4. NothingOpen => NothingOpen'
  BY <1>1 DEF NothingOpen, Kept
<1>. QED
  BY <1>2, <1>3, <1>4 DEF WholeInv

\* A search that finds no open message leaves none behind.
LEMMA SearchIsComplete ==
    ASSUME TurnInv, OpenIsLatest, NEW t \in Turns, skipped[t] \subseteq forked,
           \A m \in DOMAIN log : ~Unresolved(t, m)
    PROVE  \A m \in Kept : Resolved(m)
<1>. SUFFICES ASSUME NEW m \in Kept, ~Resolved(m) PROVE FALSE
  OBVIOUS
<1>1. log[m] # <<>>
  BY DEF Resolved
<1>2. m \in Visible(t)
  BY <1>1 DEF Visible, Kept
<1>3. \A n \in Visible(t) : n <= m
  BY DEF OpenIsLatest, Visible, Kept, TurnInv, Shape
<1>. QED
  BY <1>2, <1>3 DEF Unresolved, Visible

LEMMA StepWholeInv ==
    ASSUME TurnInv, WholeInv, [Next]_vars PROVE WholeInv'
<1>. USE DEF TurnInv, Shape
<1>1. ASSUME NEW t \in Turns, NEW left, Enter(t, left) PROVE WholeInv'
  <2>1. /\ UNCHANGED <<log, outputs, refusals>>
        /\ forked' = forked \cup left
        /\ skipped' = [skipped EXCEPT ![t] = left]
        /\ pc[t] = "idle" /\ pc' = [pc EXCEPT ![t] = "loop"]
        /\ overlapped' = (overlapped \/ \E u \in Turns : pc[u] # "idle")
    BY <1>1 DEF Enter, Goto, conversation, results
  <2>2. skipped' \in [Turns -> SUBSET forked']
    BY <2>1 DEF WholeInv
  <2>3. ASSUME ~overlapped' PROVE Alone' /\ OpenIsLatest' /\ NothingOpen'
    <3>1. ~overlapped /\ \A u \in Turns : pc[u] = "idle"
      BY <2>1, <2>3
    <3>2. Alone' /\ NothingOpen'
      BY <2>1, <3>1 DEF Alone, NothingOpen
    <3>3. OpenIsLatest'
      BY <2>1, <3>1 DEF WholeInv, OpenIsLatest, Kept, Resolved, Answered
    <3>. QED
      BY <3>2, <3>3
  <2>. QED
    BY <2>2, <2>3 DEF WholeInv
<1>2. ASSUME NEW t \in Turns, FindOpen(t) PROVE WholeInv'
  <2>1. /\ UNCHANGED <<log, outputs, refusals, forked, overlapped, skipped>>
        /\ pc[t] = "loop"
        /\ \A u \in Turns : u # t => pc'[u] = pc[u]
        /\ pc'[t] \in {"history", "stream"} => \A m \in DOMAIN log : ~Unresolved(t, m)
    BY <1>2 DEF FindOpen, Goto, conversation, results, history
  <2>2. ASSUME ~overlapped PROVE Alone' /\ OpenIsLatest' /\ NothingOpen'
    <3>1. Alone' /\ OpenIsLatest'
      BY <2>1, <2>2 DEF WholeInv, Alone, OpenIsLatest, Kept, Resolved, Answered
    <3>2. ASSUME NEW u \in Turns, pc'[u] \in {"history", "stream"}
          PROVE  \A m \in Kept : Resolved(m)
      <4>1. CASE u = t
        BY <2>1, <2>2, <3>2, <4>1, SearchIsComplete DEF WholeInv
      <4>2. CASE u # t
        BY <2>1, <2>2, <3>2, <4>2 DEF WholeInv, NothingOpen
      <4>. QED
        BY <4>1, <4>2
    <3>3. NothingOpen'
      BY <2>1, <3>2 DEF NothingOpen, Kept, Resolved, Answered
    <3>. QED
      BY <3>1, <3>3
  <2>. QED
    BY <2>1, <2>2 DEF WholeInv
<1>3. ASSUME NEW t \in Turns, ModelAnswers(t) \/ ModelCalls(t) PROVE WholeInv'
  <2>1. /\ pc[t] = "stream" /\ pc'[t] \notin {"history", "stream"}
        /\ \A u \in Turns : u # t => pc'[u] = pc[u]
        /\ UNCHANGED <<outputs, refusals, forked, overlapped>>
        /\ skipped' \in [Turns -> SUBSET forked']
    BY <1>3 DEF WholeInv, ModelAnswers, ModelCalls, Leave, Goto, results, history
  <2>2. /\ DOMAIN log' = DOMAIN log \cup {Len(log) + 1}
        /\ \A m \in DOMAIN log : log'[m] = log[m] /\ m < Len(log) + 1
    <3>1. \E message \in Seq(Calls) : log' = Append(log, message)
      <4>1. CASE ModelAnswers(t)
        <5>1. <<>> \in Seq(Calls)
          OBVIOUS
        <5>. QED
          BY <4>1, <5>1 DEF ModelAnswers
      <4>2. CASE ModelCalls(t)
        <5>1. PICK batch \in Batches({c \in Calls : home[c] = 0}) : log' = Append(log, batch)
          BY <4>2 DEF ModelCalls
        <5>2. batch \in Seq(Calls)
          BY <5>1, BatchIsFresh
        <5>. QED
          BY <5>1, <5>2
      <4>. QED
        BY <1>3, <4>1, <4>2
    <3>2. PICK message \in Seq(Calls) : log' = Append(log, message)
      BY <3>1
    <3>3. DOMAIN log = 1..Len(log) /\ Len(log) \in Nat
      OBVIOUS
    <3>4. Len(log') = Len(log) + 1 /\ DOMAIN log' = 1..(Len(log) + 1)
      BY <3>2
    <3>5. \A m \in DOMAIN log : log'[m] = log[m]
      BY <3>2
    <3>. QED
      BY <3>3, <3>4, <3>5
  <2>3. ASSUME ~overlapped PROVE Alone' /\ OpenIsLatest' /\ NothingOpen'
    <3>1. \A u \in Turns : u # t => pc[u] = "idle"
      BY <2>1, <2>3 DEF WholeInv, Alone
    <3>2. Alone' /\ NothingOpen'
      BY <2>1, <3>1 DEF Alone, NothingOpen
    <3>3. \A m \in Kept : Resolved(m)
      BY <2>1, <2>3 DEF WholeInv, NothingOpen
    <3>4. \A m \in Kept : Resolved(m)'
      BY <2>2, <3>3, ResolvedStays DEF Kept
    <3>5. \A n \in DOMAIN log' : n <= Len(log) + 1
      BY <2>2
    <3>6. OpenIsLatest'
      BY <2>1, <2>2, <3>4, <3>5 DEF OpenIsLatest, Kept
    <3>. QED
      BY <3>2, <3>6
  <2>. QED
    BY <2>1, <2>3 DEF WholeInv
<1>4. ASSUME NEW t \in Turns,
             TurnStep(t) \/ Break(t), ~FindOpen(t), ~ModelAnswers(t), ~ModelCalls(t)
      PROVE  /\ UNCHANGED <<log, forked, overlapped>>
             /\ skipped' \in [Turns -> SUBSET forked]
             /\ \A u \in Turns :
                  /\ pc'[u] # "idle" => pc[u] # "idle"
                  /\ pc'[u] \in {"history", "stream"} => pc[u] \in {"history", "stream"}
  BY <1>4
  DEF TurnStep, ReadHistory, GiveUp, CloseMessage, EndWalk, SkipAnswered,
      StopAtPending, TakeApproved, RecordRefusal, RequestApproval, TakeUnattended,
      ExecuteTool, StoreResult, Break, Goto, NextCall, Leave, Resolving,
      conversation, local, history, WholeInv
<1>5. ASSUME (\E c \in Calls : Decide(c)) \/ UNCHANGED vars PROVE WholeInv'
  <2>1. UNCHANGED <<log, forked, overlapped, skipped, pc>>
    BY <1>5 DEF Decide, vars, conversation, local, history
  <2>. QED
    BY <2>1, WholeKept DEF WholeInv
<1>. HIDE DEF TurnInv, Shape
<1>6. ASSUME NEW t \in Turns,
             TurnStep(t) \/ Break(t), ~FindOpen(t), ~ModelAnswers(t), ~ModelCalls(t)
      PROVE  WholeInv'
  BY <1>4, <1>6, WholeKept
<1>7. ASSUME NEW t \in Turns, Begin(t) \/ Opening(t) \/ Regenerate(t) PROVE WholeInv'
  BY <1>1, <1>7 DEF Begin, Opening, Regenerate
<1>. QED
  BY <1>2, <1>3, <1>5, <1>6, <1>7 DEF Next

\* The model is never asked with an open call in its history, for every number
\* of turns and messages, as long as turns come one at a time; messages that a
\* regeneration has left out are excepted.
THEOREM HistoriesAreWhole == Spec => HistoryIsWhole
<1>1. Init => WholeInv
  BY DEF Init, WholeInv, Alone, OpenIsLatest, NothingOpen, Kept
<1>2. TurnInv /\ WholeInv /\ [Next]_vars => WholeInv'
  BY StepWholeInv
<1>3. TurnInv /\ WholeInv =>
        [\A t \in Turns :
            pc[t] = "history" /\ pc'[t] = "stream" /\ ~overlapped =>
                \A m \in DOMAIN log \ (skipped[t] \cup forked) : Resolved(m)]_vars
  BY DEF WholeInv, NothingOpen, Kept
<1>. QED
  BY <1>1, <1>2, <1>3, InitTurnInv, StepTurnInv, PTL DEF Spec, HistoryIsWhole
=============================================================================
