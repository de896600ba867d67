------------------------------ MODULE MCKeyPool ------------------------------
(***************************************************************************)
(* KeyPool instantiated for TLC.                                           *)
(***************************************************************************)
EXTENDS KeyPool

\* The code between two awaits, and the slowness of the clock.  The behaviours
\* of CoarseSpec are those of Spec in which a request runs from one await to
\* the next undisturbed, and no cooldown elapses meanwhile: what goes wrong
\* here does so without any race of threads.
Synchronous(r) == pc[r] \notin {"idle", "send"}
CoarseNext ==
  \/ Tick /\ \A r \in Request : ~Synchronous(r)
  \/ \E r \in Request :
       /\ \A s \in Request \ {r} : ~Synchronous(s)
       /\ Arrive(r) \/ SendChat(r)
CoarseSpec == Init /\ [][CoarseNext]_vars
=============================================================================
