---------------------------- MODULE ModelRouter -----------------------------
(***************************************************************************)
(* One call of a model through the router (ai.model_router.router) and the *)
(* DeepSeek adapter: generate, with one attempt on the fallback model, or  *)
(* generate_stream, whose tool calls come in fragments that the adapter    *)
(* puts together and the caller (ai.chat_orchestrator) takes from the      *)
(* chunks.  Every attempt writes a row of the model_calls log.             *)
(*                                                                         *)
(* The n-th fragment of a tool call is the number n; a tool call is whole  *)
(* when it is the sequence of all its fragments.                           *)
(***************************************************************************)
EXTENDS Integers, Sequences

CONSTANTS
    Models,         \* the models the adapter knows
    Unknown,        \* a name it does not know
    ToolModels,     \* those that can call tools
    Indexes,        \* positions of tool calls in one answer
    MaxEvents       \* bound: events of one stream

RouterAssumption == Unknown \notin Models /\ ToolModels \subseteq Models /\ MaxEvents \in Nat

VARIABLES
    phase,          \* what the call does next
    asked,          \* the model asked for
    fallback,       \* the fallback model, or "none"
    tried,          \* the model of the attempt under way
    answer,         \* what the caller has got
    log,            \* the rows of model_calls, in order
    sent,           \* sent[i]: fragments the provider has sent of tool call i
    accumulated,    \* accumulated[i]: the adapter's slot i
    taken,          \* the tool calls the caller holds
    usage,          \* the caller's and the log's usage is known
    finished,       \* the event with finish_reason was sent
    events

routervars == <<phase, asked, fallback, tried, answer, log, sent, accumulated, taken, usage,
                finished, events>>
streamvars == <<sent, accumulated, taken, usage, finished, events>>

NoCalls == [i \in Indexes |-> <<>>]
Failures == {"error", "rate_limited"}
Answers == {"waiting", "answered", "capability", "raised", "abandoned"} \union Failures

Init ==
    /\ phase = "new"
    /\ asked \in Models \union {Unknown} /\ fallback \in Models \union {Unknown, "none"}
    /\ tried = asked /\ answer = "waiting" /\ log = <<>>
    /\ sent = NoCalls /\ accumulated = NoCalls /\ taken = NoCalls
    /\ usage = FALSE /\ finished = FALSE /\ events = 0

Row(status, counted) ==
    [model |-> tried, status |-> status, fallback_used |-> log # <<>>, usage |-> counted]

\* The call is over for its caller.
End(result) == phase' = "over" /\ answer' = result

(* _negotiate: an unknown model is an adapter error, before the first      *)
(* attempt; then the attempt is made, or the stream is opened.             *)
Negotiate ==
    /\ phase = "new"
    /\ \E tools \in BOOLEAN, streaming \in BOOLEAN :
          \/ asked = Unknown /\ End("error")
          \/ asked # Unknown /\ tools /\ asked \notin ToolModels /\ End("capability")
          \/ /\ asked \in (IF tools THEN ToolModels ELSE Models)
             /\ phase' = (IF streaming THEN "stream" ELSE "attempt") /\ UNCHANGED answer
    /\ UNCHANGED <<asked, fallback, tried, log, streamvars>>

(* generate: the attempt is answered ...                                   *)
Answered ==
    /\ phase = "attempt"
    /\ log' = Append(log, Row("success", TRUE)) /\ usage' = TRUE
    /\ End("answered")
    /\ UNCHANGED <<asked, fallback, tried, sent, accumulated, taken, finished, events>>

\* The first failure goes on with the fallback model, which is not negotiated.
Retried == fallback # "none" /\ Len(log) = 0

(* ... or fails, by the network, the provider or its rate limit.           *)
AttemptFails ==
    /\ phase = "attempt"
    /\ \E failure \in Failures :
          /\ log' = Append(log, Row(failure, FALSE))
          /\ IF Retried THEN tried' = fallback /\ UNCHANGED <<phase, answer>>
                        ELSE End(failure) /\ UNCHANGED tried
    /\ UNCHANGED <<asked, fallback, streamvars>>

(* A read that times out in the middle, or an answer that is no JSON, is   *)
(* no adapter error: nothing catches it and nothing is logged.             *)
Raise ==
    /\ phase \in {"attempt", "stream"}
    /\ End("raised")
    /\ UNCHANGED <<asked, fallback, tried, log, streamvars>>
-----------------------------------------------------------------------------
\* Mutant of Surfaced: what the caller has got it keeps.
SurfacedOnce(calls) == IF taken # NoCalls THEN taken ELSE calls

\* The caller replaces the tool calls it holds by those of the chunk, if any.
Surfaced(calls) == IF calls # NoCalls THEN calls ELSE taken

(* _generate_stream: an event carries a fragment, text, the finish reason  *)
(* or the usage.  A chunk reaches the caller unless the event has nothing  *)
(* but a fragment.                                                         *)
Event ==
    /\ phase = "stream" /\ events < MaxEvents /\ events' = events + 1
    /\ \E fragments \in {{}} \union {{i} : i \in Indexes},
          text \in BOOLEAN, finish \in BOOLEAN, counted \in BOOLEAN :
          /\ finished => fragments = {} /\ ~text /\ ~finish
          /\ sent' = [i \in Indexes |->
                IF i \in fragments THEN Append(sent[i], Len(sent[i]) + 1) ELSE sent[i]]
          /\ accumulated' = [i \in Indexes |->
                IF i \in fragments THEN Append(accumulated[i], Len(sent[i]) + 1)
                                   ELSE accumulated[i]]
          /\ taken' = IF text \/ finish \/ counted THEN Surfaced(accumulated') ELSE taken
          /\ usage' = (usage \/ counted)
          /\ finished' = (finished \/ finish)
    /\ UNCHANGED <<phase, asked, fallback, tried, answer, log>>

(* The stream ends, or breaks off with an adapter error; there is no       *)
(* fallback.                                                               *)
StreamEnds ==
    /\ phase = "stream"
    /\ log' = Append(log, Row("success", usage)) /\ End("answered")
    /\ UNCHANGED <<asked, fallback, tried, streamvars>>

StreamFails ==
    /\ phase = "stream" /\ events = 0
    /\ \E failure \in Failures : log' = Append(log, Row(failure, FALSE)) /\ End(failure)
    /\ UNCHANGED <<asked, fallback, tried, streamvars>>

(* The caller closes the generator: its client has gone.                   *)
Abandon ==
    /\ phase = "stream" /\ events > 0
    /\ End("abandoned")
    /\ UNCHANGED <<asked, fallback, tried, log, streamvars>>

Next ==
    \/ Negotiate \/ Answered \/ AttemptFails \/ Raise
    \/ Event \/ StreamEnds \/ StreamFails \/ Abandon

Spec == Init /\ [][Next]_routervars
-----------------------------------------------------------------------------
Rows == [model : Models \union {Unknown}, status : {"success"} \union Failures,
         fallback_used : BOOLEAN, usage : BOOLEAN]

TypeOK ==
    /\ phase \in {"new", "attempt", "stream", "over"} /\ answer \in Answers
    /\ log \in Seq(Rows) /\ {sent, accumulated, taken} \subseteq [Indexes -> Seq(Nat)]

Successes == {n \in DOMAIN log : log[n].status = "success"}

\* The log tells what the caller was told: an answer has one successful row, the
\* last, which names the model that gave it, and a failure has none; at most two
\* attempts are made, each of them logged (ModelRouter.generate).
CallIsLogged ==
    /\ Len(log) <= 2
    /\ answer = "answered" => Successes = {Len(log)} /\ log[Len(log)].model = tried
    /\ answer # "answered" => Successes = {}
    /\ answer \in Failures => \/ asked = Unknown /\ log = <<>>
                              \/ log # <<>> /\ log[Len(log)].status = answer
    /\ \A n \in DOMAIN log : log[n].fallback_used = (n = 2)

\* Whatever text and usage arrive between the fragments, in whatever order of the
\* tool calls: once the finish reason was sent the caller holds every tool call
\* whole, so that no tool runs with a part of its arguments (_generate_stream).
ToolCallsAreWhole == finished => taken = sent
=============================================================================
