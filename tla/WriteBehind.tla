----------------------------- MODULE WriteBehind -----------------------------
(***************************************************************************)
(* What a write-behind store promises of each key.  Operations are given   *)
(* version numbers as they are accepted; the durable state of the key is   *)
(* always that of some accepted operation and only moves forward, except   *)
(* for keys gone astray.  XunStore implements it, and says when a key may  *)
(* go astray.                                                              *)
(***************************************************************************)
EXTENDS Naturals

CONSTANT Keys

VARIABLES accepted,   \* the number of operations accepted on each key
          durable,    \* the operation the durable state of the key reflects
          astray      \* the keys that may also go back

wbVars == <<accepted, durable, astray>>

WBInit ==
  /\ accepted = [k \in Keys |-> 0] /\ durable = [k \in Keys |-> 0]
  /\ astray = {}

Accept(k) ==
  /\ accepted' = [accepted EXCEPT ![k] = @ + 1]
  /\ UNCHANGED <<durable, astray>>

Persist(k) ==
  /\ \E n \in 0..accepted[k] :
        /\ k \in astray \/ durable[k] <= n
        /\ durable' = [durable EXCEPT ![k] = n]
  /\ UNCHANGED <<accepted, astray>>

GoAstray(K) == astray' = astray \union K /\ UNCHANGED <<accepted, durable>>

WBNext == \/ \E k \in Keys : Accept(k) \/ Persist(k)
          \/ \E K \in SUBSET Keys : GoAstray(K)

WBSpec == WBInit /\ [][WBNext]_wbVars
=============================================================================
