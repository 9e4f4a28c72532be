------------------------------- MODULE KeySet -------------------------------
(***************************************************************************)
(* What LayoutTree promises its callers: a linearizable set of keys.  A    *)
(* call takes effect at one moment between its invocation and its return.  *)
(***************************************************************************)
CONSTANTS Caller, KeyDomain

VARIABLES
  keys,        \* the keys in the set
  call         \* the call each thread is in, with its result

Idle == [op |-> "none", key |-> 0, res |-> "none"]

KeySetInit ==
  /\ keys = {}
  /\ call = [t \in Caller |-> Idle]

Invoke(t, op, k) ==
  /\ call[t] = Idle
  /\ call' = [call EXCEPT ![t] = [op |-> op, key |-> k, res |-> "none"]]
  /\ UNCHANGED keys

(* search and remove report whether the key was there, insert whether not. *)
Outcome(op, present) ==
  IF present = (op # "insert") THEN "true" ELSE "false"

TakeEffect(t) ==
  /\ call[t].op # "none" /\ call[t].res = "none"
  /\ call' = [call EXCEPT ![t].res =
                Outcome(call[t].op, call[t].key \in keys)]
  /\ keys' = CASE call[t].op = "insert" -> keys \cup {call[t].key}
               [] call[t].op = "remove" -> keys \ {call[t].key}
               [] call[t].op = "search" -> keys

Return(t) ==
  /\ call[t].res # "none"
  /\ call' = [call EXCEPT ![t] = Idle]
  /\ UNCHANGED keys

KeySetNext ==
  \E t \in Caller :
    \/ \E op \in {"search", "insert", "remove"}, k \in KeyDomain :
         Invoke(t, op, k)
    \/ TakeEffect(t)
    \/ Return(t)

KeySetSpec == KeySetInit /\ [][KeySetNext]_<<keys, call>>
=============================================================================
