------------------------------- MODULE Sandbox ------------------------------
(***************************************************************************)
(* Code a coworker runs (ai.sandbox.run_python, called by the tool         *)
(* execute_code): every call asks the Docker daemon for the image, for a   *)
(* container, to start it, to wait for it, to kill it when it takes too    *)
(* long, for its output, and to remove it.  Each of these requests can     *)
(* fail, and its answer can be lost although the daemon has done it; the   *)
(* code ends whenever it likes, and the worker may die.                    *)
(***************************************************************************)
EXTENDS Integers, FiniteSets

CONSTANTS
    Calls           \* calls of execute_code

VARIABLES
    ask,            \* ask[c]: the request call c makes next, or "over"
    container,      \* container[c]: what the daemon has for the call
    status,         \* status[c]: the exit status of its code
    timedOut,       \* timedOut[c]
    exitCode,       \* exitCode[c]: what the call knows of it
    result,         \* result[c]: what the tool reports
    trouble         \* history: <<c, request>>: requests that failed

sandboxvars == <<ask, container, status, timedOut, exitCode, result, trouble>>

DockerCalls == {"new", "image", "create", "start", "wait", "kill", "logs", "remove", "over"}
NoStatus == -1       \* no exit status
Killed == 137

Init ==
    /\ ask = [c \in Calls |-> "new"]
    /\ container = [c \in Calls |-> "none"]
    /\ status = [c \in Calls |-> NoStatus]
    /\ timedOut = [c \in Calls |-> FALSE]
    /\ exitCode = [c \in Calls |-> NoStatus]
    /\ result = [c \in Calls |-> "none"]
    /\ trouble = {}

GoTo(c, next) == ask' = [ask EXCEPT ![c] = next]
Trouble(c) == trouble' = trouble \union {<<c, ask[c]>>}

\* What the tool reports; a container whose id is known is removed after that.
Report(c, what) == result' = [result EXCEPT ![c] = what]

\* A SandboxError is reported, any other exception is raised to the engine.
Fail(c) == Trouble(c) /\ \E what \in {"error", "raised"} : Report(c, what)

(* The code is refused: empty, too long, in another language.              *)
Begin(c) ==
    /\ ask[c] = "new"
    /\ \/ GoTo(c, "image") /\ UNCHANGED result
       \/ GoTo(c, "over") /\ Report(c, "error")
    /\ UNCHANGED <<container, status, timedOut, exitCode, trouble>>

(* _ensure_image: it is there, or pulled, or not to be had.                *)
EnsureImage(c) ==
    /\ ask[c] = "image"
    /\ \/ GoTo(c, "create") /\ UNCHANGED <<result, trouble>>
       \/ GoTo(c, "over") /\ Fail(c)
    /\ UNCHANGED <<container, status, timedOut, exitCode>>

(* Before the container's id has arrived nothing can be removed.           *)
Create(c) ==
    /\ ask[c] = "create"
    /\ \/ /\ container' = [container EXCEPT ![c] = "created"]
          /\ GoTo(c, "start") /\ UNCHANGED <<result, trouble>>
       \/ /\ \E there \in {"none", "created"} : container' = [container EXCEPT ![c] = there]
          /\ GoTo(c, "over") /\ Fail(c)
    /\ UNCHANGED <<status, timedOut, exitCode>>

\* finally: whatever failed, the container is removed.
Finally(c) == GoTo(c, "remove")

Start(c) ==
    /\ ask[c] = "start"
    /\ \/ /\ container' = [container EXCEPT ![c] = "running"]
          /\ GoTo(c, "wait") /\ UNCHANGED <<result, trouble>>
       \/ /\ \E there \in {"created", "running"} : container' = [container EXCEPT ![c] = there]
          /\ Finally(c) /\ Fail(c)
    /\ UNCHANGED <<status, timedOut, exitCode>>

CodeEnds(c) ==
    /\ container[c] = "running"
    /\ container' = [container EXCEPT ![c] = "exited"]
    /\ \E with \in {0, 1} : status' = [status EXCEPT ![c] = with]
    /\ UNCHANGED <<ask, timedOut, exitCode, result, trouble>>

(* The status is known; or the time is up, or the daemon unreachable; or   *)
(* it answers with an error.                                               *)
Wait(c) ==
    /\ ask[c] = "wait"
    /\ \/ /\ container[c] = "exited" /\ exitCode' = [exitCode EXCEPT ![c] = status[c]]
          /\ GoTo(c, "logs") /\ UNCHANGED <<timedOut, result, trouble>>
       \/ /\ timedOut' = [timedOut EXCEPT ![c] = TRUE]
          /\ GoTo(c, "kill") /\ UNCHANGED <<exitCode, result, trouble>>
       \/ /\ Finally(c) /\ Fail(c)
          /\ UNCHANGED <<timedOut, exitCode>>
    /\ UNCHANGED <<container, status>>

(* A container that has ended cannot be killed; the failure is ignored.    *)
Kill(c) ==
    /\ ask[c] = "kill"
    /\ \/ /\ container[c] = "running"
          /\ container' = [container EXCEPT ![c] = "exited"]
          /\ status' = [status EXCEPT ![c] = Killed]
          /\ GoTo(c, "logs") /\ UNCHANGED <<result, trouble>>
       \/ UNCHANGED <<container, status, result>> /\ GoTo(c, "logs") /\ Trouble(c)
       \/ UNCHANGED <<container, status>> /\ Finally(c) /\ Trouble(c) /\ Report(c, "raised")
    /\ UNCHANGED <<timedOut, exitCode>>

\* _execute_code: what the tool reports of a call that has its output.
Judged(c) ==
    IF timedOut[c] THEN "timeout" ELSE IF exitCode[c] \notin {0, NoStatus} THEN "failed" ELSE "success"

(* The output; a read of it that takes too long is no SandboxError.        *)
Logs(c) ==
    /\ ask[c] = "logs" /\ Finally(c)
    /\ \/ Report(c, Judged(c)) /\ UNCHANGED trouble
       \/ Fail(c)
    /\ UNCHANGED <<container, status, timedOut, exitCode>>

(* By force, running or not; a SandboxError is ignored, any other replaces *)
(* the report.                                                             *)
Remove(c) ==
    /\ ask[c] = "remove" /\ GoTo(c, "over")
    /\ \/ container' = [container EXCEPT ![c] = "removed"] /\ UNCHANGED <<result, trouble>>
       \/ /\ container' \in {container, [container EXCEPT ![c] = "removed"]}
          /\ Report(c, result[c]) \/ Report(c, "raised")
          /\ Trouble(c)
    /\ UNCHANGED <<status, timedOut, exitCode>>

WorkerDies(c) ==
    /\ ask[c] \notin {"new", "over"} /\ GoTo(c, "over")
    /\ Report(c, "died")
    /\ trouble' = trouble \union {<<c, "over">>}
    /\ UNCHANGED <<container, status, timedOut, exitCode>>

Next ==
    \E c \in Calls :
       \/ Begin(c) \/ EnsureImage(c) \/ Create(c) \/ Start(c) \/ CodeEnds(c) \/ Wait(c)
       \/ Kill(c) \/ Logs(c) \/ Remove(c) \/ WorkerDies(c)

Spec == Init /\ [][Next]_sandboxvars
-----------------------------------------------------------------------------
TypeOK ==
    /\ ask \in [Calls -> DockerCalls]
    /\ container \in [Calls -> {"none", "created", "running", "exited", "removed"}]
    /\ status \in [Calls -> {NoStatus, 0, 1, Killed}] /\ exitCode \in [Calls -> {NoStatus, 0, 1}]
    /\ timedOut \in [Calls -> BOOLEAN]
    /\ result \in [Calls -> {"none", "error", "raised", "success", "failed", "timeout", "died"}]
    /\ trouble \subseteq Calls \X DockerCalls

\* Wherever a request fails, a call that is over has left no container, but for one
\* whose id never arrived, one the daemon did not remove, and one whose worker died;
\* and what it reports as a success, or a failure, is code that ended so by itself
\* (run_python, _execute_code).
SandboxIsClean ==
    \A c \in Calls :
       /\ ask[c] = "over" /\ container[c] \notin {"none", "removed"} =>
             \E request \in {"create", "remove", "over"} : <<c, request>> \in trouble
       /\ result[c] = "success" => status[c] = 0
       /\ result[c] = "failed" => status[c] = 1
=============================================================================
