------------------------------ MODULE RpcCalls ------------------------------
(***************************************************************************)
(* What the gateway's RPC promises its callers: each call settles at most  *)
(* once, and one that resolves does so with the answer the broker computed *)
(* for it, after it computed it.  A rejection says nothing about whether   *)
(* the request runs: it may have run before, or run later.                 *)
(***************************************************************************)
CONSTANTS
  Call,      \* remote calls
  NoAnswer   \* result of a call that is not resolved

VARIABLES
  status,    \* status[c]: the promise of call c
  result,    \* result[c]: the call whose answer resolved c
  executed   \* calls the broker has run

vars == <<status, result, executed>>

Status == {"new", "waiting", "resolved", "rejected"}

TypeOK ==
  /\ status \in [Call -> Status]
  /\ result \in [Call -> Call \cup {NoAnswer}]
  /\ executed \subseteq Call

Init ==
  /\ status = [c \in Call |-> "new"]
  /\ result = [c \in Call |-> NoAnswer]
  /\ executed = {}

Start(c) ==
  /\ status[c] = "new"
  /\ status' = [status EXCEPT ![c] = "waiting"]
  /\ UNCHANGED <<result, executed>>

Execute(c) ==
  /\ status[c] # "new"
  /\ executed' = executed \cup {c}
  /\ UNCHANGED <<status, result>>

Resolve(c) ==
  /\ status[c] = "waiting" /\ c \in executed
  /\ status' = [status EXCEPT ![c] = "resolved"]
  /\ result' = [result EXCEPT ![c] = c]
  /\ UNCHANGED executed

\* One call times out or cannot be sent; a shutdown rejects all that wait.
Reject(C) ==
  /\ \A c \in C : status[c] = "waiting"
  /\ status' = [c \in Call |-> IF c \in C THEN "rejected" ELSE status[c]]
  /\ UNCHANGED <<result, executed>>

Next ==
  \/ \E c \in Call : Start(c) \/ Execute(c) \/ Resolve(c)
  \/ \E C \in SUBSET Call : Reject(C)

Spec == Init /\ [][Next]_vars
=============================================================================
