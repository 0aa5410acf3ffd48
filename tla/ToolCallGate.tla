---------------------------- MODULE ToolCallGate ----------------------------
(***************************************************************************)
(* What an execution path promises about tool calls: a call asks for       *)
(* approval at most once, one human decision settles the request for good, *)
(* a refused call never runs, an asked call runs only once approved, and   *)
(* no call runs twice.                                                     *)
(***************************************************************************)
EXTENDS Naturals

CONSTANTS
    ToolCalls,   \* identifiers of the tool calls a model may emit
    Unattended   \* the calls some configuration lets run without a request

VARIABLES
    gate,        \* gate[c] is the standing of the request for call c
    runs         \* runs[c] is how often call c ran

Standings == {"open", "pending", "approved", "denied"}

Init ==
    /\ gate = [c \in ToolCalls |-> "open"]
    /\ runs = [c \in ToolCalls |-> 0]

Request(c) ==
    /\ gate[c] = "open"
    /\ runs[c] = 0
    /\ gate' = [gate EXCEPT ![c] = "pending"]
    /\ UNCHANGED runs

Settle(c) ==
    /\ gate[c] = "pending"
    /\ \E decision \in {"approved", "denied"} :
          gate' = [gate EXCEPT ![c] = decision]
    /\ UNCHANGED runs

Run(c) ==
    /\ gate[c] = "approved" \/ (gate[c] = "open" /\ c \in Unattended)
    /\ runs[c] = 0
    /\ runs' = [runs EXCEPT ![c] = 1]
    /\ UNCHANGED gate

Next == \E c \in ToolCalls : Request(c) \/ Settle(c) \/ Run(c)

Spec == Init /\ [][Next]_<<gate, runs>>
=============================================================================
