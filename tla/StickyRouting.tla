---------------------------- MODULE StickyRouting ----------------------------
(***************************************************************************)
(* What ADR 0002 (in src/docs/adr/0001-persistent-key-runtime-state-and-   *)
(* stickiness.md) and the head of src/src/pool.rs promise of the active    *)
(* key: it is left only while it is not healthy, and never for a key that  *)
(* is cooling down.                                                        *)
(***************************************************************************)
CONSTANT Key
VARIABLES phase, active

Lifecycle == INSTANCE KeyLifecycle

Init == Lifecycle!Init /\ active \in Key

KeyStep == Lifecycle!Next /\ UNCHANGED active

MoveActive(k) ==
  /\ phase[active] # "healthy"
  /\ phase[k] # "cooling"
  /\ active' = k
  /\ UNCHANGED phase

Next == KeyStep \/ \E k \in Key : MoveActive(k)

Spec == Init /\ [][Next]_<<phase, active>>
=============================================================================
