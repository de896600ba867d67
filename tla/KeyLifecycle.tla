----------------------------- MODULE KeyLifecycle -----------------------------
(***************************************************************************)
(* What the pool promises of one key: the life cycle KeyPhase documents    *)
(* (src/src/pool.rs).  It says nothing of requests, locks or clocks.       *)
(***************************************************************************)
CONSTANT Key
VARIABLE phase

Phase == {"healthy", "cooling", "half_open", "probing"}

Init == phase = [k \in Key |-> "healthy"]

Enter(k, p) == phase' = [phase EXCEPT ![k] = p]

\* A confirmed 429; one that asks for no delay leaves the key probe-eligible.
RateLimit(k) == Enter(k, "cooling") \/ Enter(k, "half_open")

\* A usable answer proves the quota available.
Heal(k) == Enter(k, "healthy")

\* Only an elapsed cooldown may be probed, and only when nobody probes it.
StartProbe(k) == phase[k] = "half_open" /\ Enter(k, "probing")

ReleaseProbe(k) == phase[k] = "probing" /\ Enter(k, "half_open")

\* Time passes: cooldowns elapse, and nothing else happens.
Elapse(ks) ==
  /\ \A k \in ks : phase[k] = "cooling"
  /\ phase' = [k \in Key |-> IF k \in ks THEN "half_open" ELSE phase[k]]

Next ==
  \/ \E k \in Key : RateLimit(k) \/ Heal(k) \/ StartProbe(k) \/ ReleaseProbe(k)
  \/ \E ks \in SUBSET Key : Elapse(ks)

Spec == Init /\ [][Next]_phase
=============================================================================
