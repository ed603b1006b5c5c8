--------------------------- MODULE AtomicCounter ---------------------------
(***************************************************************************)
(* What safe_access_counter promises ("thread-safe", counter.h): an        *)
(* atomic, durable counter.  A request takes effect in one indivisible     *)
(* step between its call and its return; an increment that took effect     *)
(* survives a crash, one that did not is forgotten with its caller.        *)
(***************************************************************************)
EXTENDS Integers

CONSTANT Threads

VARIABLES
  value,      \* the counter
  stored,     \* FALSE until the counter has a value that survives a crash
  status,     \* of each thread: "idle", "read", "increment" or "done"
  result      \* of each thread that is done

vars == <<value, stored, status, result>>

Idle == [t \in Threads |-> "idle"]
NoResult == [t \in Threads |-> 0]

Init ==
  /\ value \in Int /\ stored \in BOOLEAN
  /\ status = Idle /\ result = NoResult

Call(t, operation) ==
  /\ status[t] = "idle"
  /\ status' = [status EXCEPT ![t] = operation]
  /\ UNCHANGED <<value, stored, result>>

Read(t) ==
  /\ status[t] = "read"
  /\ status' = [status EXCEPT ![t] = "done"]
  /\ result' = [result EXCEPT ![t] = value]
  /\ UNCHANGED <<value, stored>>

Increment(t) ==
  /\ status[t] = "increment"
  /\ value' = value + 1
  /\ stored' = TRUE
  /\ status' = [status EXCEPT ![t] = "done"]
  /\ result' = [result EXCEPT ![t] = value']

Return(t) ==
  /\ status[t] = "done"
  /\ status' = [status EXCEPT ![t] = "idle"]
  /\ result' = [result EXCEPT ![t] = 0]
  /\ UNCHANGED <<value, stored>>

\* The process ends, or starts: a stored value is kept.
Restart ==
  /\ status' = Idle /\ result' = NoResult
  /\ value' \in Int
  /\ stored => stored' /\ value' = value

Next ==
  \/ \E t \in Threads :
       \/ Call(t, "read") \/ Call(t, "increment")
       \/ Read(t) \/ Increment(t)
       \/ Return(t)
  \/ Restart

Spec == Init /\ [][Next]_vars
=============================================================================
