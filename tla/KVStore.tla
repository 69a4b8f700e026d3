------------------------------ MODULE KVStore ------------------------------
(***************************************************************************)
(* Abstract specification of what a Database handle promises for its       *)
(* single-record operations (spec.md 4.4, 4.5, 8): every call either takes *)
(* effect atomically on the committed store and reports the result the     *)
(* store gives at that moment, or fails and leaves the store untouched.    *)
(* A client has at most one call outstanding (calls are synchronous).      *)
(***************************************************************************)
EXTENDS KVTypes

VARIABLES kv, pending, resp

vars == <<kv, pending, resp>>

Init ==
  /\ kv = [k \in Keys |-> NoRecord]
  /\ pending = [c \in Clients |-> NoOp]
  /\ resp = [c \in Clients |-> NoOp]

Invoke(c, r) ==
  /\ pending[c] = NoOp
  /\ pending' = [pending EXCEPT ![c] = r]
  /\ UNCHANGED <<kv, resp>>

Apply(c) ==
  LET r == pending[c] IN
  /\ r # NoOp
  /\ kv' = StoreEffect(r, kv)
  /\ resp' = [resp EXCEPT ![c] = StoreResult(r, kv)]
  /\ pending' = [pending EXCEPT ![c] = NoOp]

Fail(c) ==
  /\ pending[c] # NoOp
  /\ \E f \in Failures : resp' = [resp EXCEPT ![c] = f]
  /\ pending' = [pending EXCEPT ![c] = NoOp]
  /\ UNCHANGED kv

Next ==
  \E c \in Clients :
    \/ \E r \in Requests \cup LegacyRequests : Invoke(c, r)
    \/ Apply(c)
    \/ Fail(c)

Spec == Init /\ [][Next]_vars

=============================================================================
