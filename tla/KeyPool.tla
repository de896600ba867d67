------------------------------- MODULE KeyPool -------------------------------
(***************************************************************************)
(* The sticky key pool of src/src/pool.rs, driven by the concurrent        *)
(* requests of ClineUpstream::send_chat (src/src/upstream.rs).             *)
(*                                                                         *)
(* A request selects a key, sends, and either ends or, after a confirmed   *)
(* effective 429, cools the key down and tries another one.  Every access  *)
(* to shared memory in the code is a step of its own here: the atomic      *)
(* `active' index is loaded, compared and exchanged without a lock, and    *)
(* each key has its own mutex, so steps of different requests interleave   *)
(* between them.                                                           *)
(***************************************************************************)
EXTENDS Integers, FiniteSets

CONSTANTS
  KeyCount,   \* number of enabled keys; a key is its position, from 0
  Request,    \* request slots: a slot that ends may serve another request
  Cooldowns,  \* cooldown durations a 429 may carry, after the 366 day cap
  MaxTime     \* last value of the clock

ASSUME KeyCountAssumption == KeyCount \in Nat \ {0}
ASSUME CooldownsAssumption == Cooldowns \subseteq Nat
ASSUME MaxTimeAssumption == MaxTime \in Nat

Key == 0 .. KeyCount - 1

\* `None' as a cooldown deadline: it lies in nobody's future.
NoDeadline == -1

VARIABLES
  now,          \* the monotonic clock
  until,        \* until[k]: cooldown deadline of k, NoDeadline when healthy
  probing,      \* keys whose probe_in_flight flag is set
  active,       \* the sticky index
  dirty,        \* a permit is stored in the Notify of the state writer
  pc,           \* where each request is
  attempted,    \* keys each logical request has used
  seen,         \* the value of active its current select loaded
  at,           \* the instant its current call captured as `now'
  offset,       \* position of its scan, relative to `seen' or `target'
  wide,         \* requests on the second pass of select (allow_probed)
  target,       \* the key it selected last
  lease         \* requests that hold the ProbeLease of their target

poolVars == <<until, probing, active, dirty>>
scanVars == <<seen, at, offset, wide>>
localVars == <<attempted, scanVars, target, lease>>
vars == <<now, poolVars, pc, localVars>>

PC == {"idle", "select", "scan", "switch", "send", "advance", "candidates",
       "promote", "notify", "notifySuccess", "drop", "dropRetry"}

TypeOK ==
  /\ now \in Nat
  /\ until \in [Key -> Nat \cup {NoDeadline}]
  /\ probing \subseteq Key
  /\ active \in Key
  /\ dirty \in BOOLEAN
  /\ pc \in [Request -> PC]
  /\ attempted \in [Request -> SUBSET Key]
  /\ seen \in [Request -> Key]
  /\ at \in [Request -> Nat]
  /\ offset \in [Request -> Key]
  /\ wide \subseteq Request
  /\ target \in [Request -> Key]
  /\ lease \subseteq Request

-----------------------------------------------------------------------------
(* The phase of a key, read off its runtime as snapshots() does.           *)

Cooling(k, t) == until[k] > t
HalfOpen(k, t) == until[k] # NoDeadline /\ until[k] <= t

PhaseOf(k) ==
  CASE until[k] = NoDeadline                 -> "healthy"
    [] Cooling(k, now)                       -> "cooling"
    [] HalfOpen(k, now) /\ k \in probing    -> "probing"
    [] HalfOpen(k, now) /\ k \notin probing -> "half_open"

\* The key `o' places after `k' in configured order.
Ring(k, o) == (k + o) % KeyCount

Candidate(r) == Ring(seen[r], offset[r])
Successor(r) == Ring(target[r], offset[r])

-----------------------------------------------------------------------------
Init ==
  /\ now = 0
  /\ until = [k \in Key |-> NoDeadline]
  /\ probing = {}
  /\ active = 0
  /\ dirty = FALSE
  /\ pc = [r \in Request |-> "idle"]
  /\ attempted = [r \in Request |-> {}]
  /\ seen = [r \in Request |-> 0]
  /\ at = [r \in Request |-> 0]
  /\ offset = [r \in Request |-> 0]
  /\ wide = {}
  /\ target = [r \in Request |-> 0]
  /\ lease = {}

Tick ==
  /\ now < MaxTime
  /\ now' = now + 1
  /\ UNCHANGED <<poolVars, pc, localVars>>

Goto(r, label) == pc' = [pc EXCEPT ![r] = label]

\* select, or mark_http_429, returns and its locals die.
ForgetScan(r) ==
  /\ seen' = [seen EXCEPT ![r] = 0]
  /\ at' = [at EXCEPT ![r] = 0]
  /\ offset' = [offset EXCEPT ![r] = 0]
  /\ wide' = wide \ {r}

\* send_chat returns to its caller.
Return(r) ==
  /\ Goto(r, "idle")
  /\ ForgetScan(r)
  /\ attempted' = [attempted EXCEPT ![r] = {}]
  /\ target' = [target EXCEPT ![r] = 0]
  /\ lease' = lease \ {r}

\* send_chat is called with an empty set of attempted keys.
Arrive(r) ==
  /\ pc[r] = "idle"
  /\ Goto(r, "select")
  /\ UNCHANGED <<now, poolVars, localVars>>

-----------------------------------------------------------------------------
(* KeyPool::select and KeyPool::scan                                       *)

SelectStart(r) ==
  /\ pc[r] = "select"
  /\ seen' = [seen EXCEPT ![r] = active]
  /\ at' = [at EXCEPT ![r] = now]
  /\ offset' = [offset EXCEPT ![r] = 0]
  /\ wide' = wide \ {r}
  /\ Goto(r, "scan")
  /\ UNCHANGED <<now, poolVars, attempted, target, lease>>

\* Mutant: keys under probe are refused on both passes.
SkipsAnyProbed(r, k) ==
  k \in attempted[r] \/ Cooling(k, at[r]) \/ (HalfOpen(k, at[r]) /\ k \in probing)

\* What makes scan pass over a key.
Skips(r, k) ==
  \/ k \in attempted[r]
  \/ Cooling(k, at[r])
  \/ HalfOpen(k, at[r]) /\ k \in probing /\ r \notin wide

\* Mutant: one place too many.
ScanSkipPastEnd(r) ==
  /\ pc[r] = "scan"
  /\ offset[r] + 1 <= KeyCount
  /\ Skips(r, Candidate(r))
  /\ offset' = [offset EXCEPT ![r] = @ + 1]
  /\ UNCHANGED <<now, poolVars, pc, attempted, seen, at, wide, target, lease>>

ScanSkip(r) ==
  /\ pc[r] = "scan"
  /\ offset[r] + 1 < KeyCount
  /\ Skips(r, Candidate(r))
  /\ offset' = [offset EXCEPT ![r] = @ + 1]
  /\ UNCHANGED <<now, poolVars, pc, attempted, seen, at, wide, target, lease>>

\* The first pass found nothing: scan again, allowing keys under probe.
ScanWiden(r) ==
  /\ pc[r] = "scan"
  /\ offset[r] + 1 = KeyCount
  /\ r \notin wide
  /\ Skips(r, Candidate(r))
  /\ wide' = wide \cup {r}
  /\ offset' = [offset EXCEPT ![r] = 0]
  /\ UNCHANGED <<now, poolVars, pc, attempted, seen, at, target, lease>>

\* Both passes found nothing: select is None and the request is answered
\* AllRateLimited.
ScanReject(r) ==
  /\ pc[r] = "scan"
  /\ offset[r] + 1 = KeyCount
  /\ r \in wide
  /\ Skips(r, Candidate(r))
  /\ Return(r)
  /\ UNCHANGED <<now, poolVars>>

\* Mutant: only the last key is remembered.
AttemptOnlyLast(r, k) == attempted' = [attempted EXCEPT ![r] = {k}]

\* send_chat records the key as tried.
Attempt(r, k) == attempted' = [attempted EXCEPT ![r] = @ \cup {k}]

\* Under the key's lock: take it, as its probe if it is half open and no
\* probe is in flight.
ScanTake(r) ==
  LET k == Candidate(r)
      isProbe == HalfOpen(k, at[r]) /\ k \notin probing
  IN  /\ pc[r] = "scan"
      /\ ~Skips(r, k)
      /\ \/ isProbe /\ probing' = probing \cup {k} /\ lease' = lease \cup {r}
         \/ ~isProbe /\ UNCHANGED <<probing, lease>>
      /\ target' = [target EXCEPT ![r] = k]
      /\ Attempt(r, k)
      /\ \/ k # seen[r] /\ Goto(r, "switch") /\ UNCHANGED scanVars
         \/ k = seen[r] /\ Goto(r, "send") /\ ForgetScan(r)
      /\ UNCHANGED <<now, until, active, dirty>>

\* set_active: the compare-and-exchange may lose, and nobody looks.
SetActive(from, to) == active' = IF active = from THEN to ELSE active

SelectSwitch(r) ==
  /\ pc[r] = "switch"
  /\ SetActive(seen[r], target[r])
  /\ Goto(r, "send")
  /\ ForgetScan(r)
  /\ UNCHANGED <<now, until, probing, dirty, attempted, target, lease>>

-----------------------------------------------------------------------------
(* The answer to one attempt                                               *)

\* Mutant: the lease is never dropped.
LeaveWithoutDrop(r) == Return(r)

\* The lease, when held, is dropped as the request leaves the iteration.
Leave(r) ==
  IF r \in lease
    THEN Goto(r, "drop") /\ UNCHANGED localVars
    ELSE Return(r)

\* Mutant: an early return without the lease.
EndKeepingProbe(r) ==
  pc[r] = "send" /\ Return(r) /\ UNCHANGED <<now, poolVars>>

\* A transport error, an answer that is neither 2xx nor an effective 429, or
\* the client going away: no verdict on the key's quota.
EndWithoutVerdict(r) ==
  /\ pc[r] = "send"
  /\ Leave(r)
  /\ UNCHANGED <<now, poolVars>>

\* Mutant: the probe flag stays.
SetCooldownOnly(k, deadline) ==
  until' = [until EXCEPT ![k] = deadline] /\ UNCHANGED probing

\* Both verdicts, under the key's lock, set the deadline and close the probe.
SetCooldown(k, deadline) ==
  until' = [until EXCEPT ![k] = deadline] /\ probing' = probing \ {k}

\* mark_success, the part under the key's lock, then notify_one
MarkSuccess(r) ==
  /\ pc[r] = "send"
  /\ SetCooldown(target[r], NoDeadline)
  /\ Goto(r, "notifySuccess")
  /\ UNCHANGED <<now, active, dirty, localVars>>

NotifySuccess(r) ==
  /\ pc[r] = "notifySuccess"
  /\ dirty' = TRUE
  /\ Leave(r)
  /\ UNCHANGED <<now, until, probing, active>>

\* mark_http_429, the part under the key's lock
MarkHttp429(r, cooldown) ==
  /\ pc[r] = "send"
  /\ at' = [at EXCEPT ![r] = now]
  /\ SetCooldown(target[r], now + cooldown)
  /\ Goto(r, "advance")
  /\ UNCHANGED <<now, active, dirty,
                 attempted, seen, offset, wide, target, lease>>

\* advance_if_active: only the active key's rejection moves the active index.
AdvanceIfActive(r) ==
  /\ pc[r] = "advance"
  /\ IF active = target[r] /\ KeyCount > 1
       THEN Goto(r, "candidates") /\ offset' = [offset EXCEPT ![r] = 1]
       ELSE Goto(r, "notify") /\ UNCHANGED offset
  /\ UNCHANGED <<now, poolVars, attempted, seen, at, wide, target, lease>>

\* Mutant: cooling keys are promoted.
EligibleUnlessProbed(r, k) == k \notin probing

EligibleForAdvance(r, k) == ~Cooling(k, at[r]) /\ k \notin probing

AdvanceScan(r) ==
  /\ pc[r] = "candidates"
  /\ \/ /\ EligibleForAdvance(r, Successor(r))
        /\ Goto(r, "promote")
        /\ UNCHANGED offset
     \/ /\ ~EligibleForAdvance(r, Successor(r))
        /\ offset[r] + 1 < KeyCount
        /\ offset' = [offset EXCEPT ![r] = @ + 1]
        /\ UNCHANGED pc
     \/ /\ ~EligibleForAdvance(r, Successor(r))
        /\ offset[r] + 1 = KeyCount
        /\ Goto(r, "notify")
        /\ UNCHANGED offset
  /\ UNCHANGED <<now, poolVars, attempted, seen, at, wide, target, lease>>

AdvanceSet(r) ==
  /\ pc[r] = "promote"
  /\ SetActive(target[r], Successor(r))
  /\ Goto(r, "notify")
  /\ UNCHANGED <<now, until, probing, dirty, localVars>>

AllAttempted(r) == Cardinality(attempted[r]) >= KeyCount

\* notify_one, then AllRateLimited when every key was tried, else the next
\* iteration of the loop.
NotifyDirty(r) ==
  /\ pc[r] = "notify"
  /\ dirty' = TRUE
  /\ \/ AllAttempted(r) /\ Leave(r)
     \/ /\ ~AllAttempted(r)
        /\ Goto(r, IF r \in lease THEN "dropRetry" ELSE "select")
        /\ ForgetScan(r)
        /\ UNCHANGED <<attempted, target, lease>>
  /\ UNCHANGED <<now, until, probing, active>>

\* Drop for ProbeLease: release_probe clears the flag whoever set it.
ReleaseProbe(k) == probing' = probing \ {k}

DropLease(r) ==
  /\ pc[r] \in {"drop", "dropRetry"}
  /\ ReleaseProbe(target[r])
  /\ \/ pc[r] = "drop" /\ Return(r)
     \/ /\ pc[r] = "dropRetry"
        /\ Goto(r, "select")
        /\ lease' = lease \ {r}
        /\ UNCHANGED <<attempted, seen, at, offset, wide, target>>
  /\ UNCHANGED <<now, until, active, dirty>>

-----------------------------------------------------------------------------
Select(r) ==
  SelectStart(r) \/ ScanSkip(r) \/ ScanWiden(r) \/ ScanReject(r)
    \/ ScanTake(r) \/ SelectSwitch(r)

Answer(r) ==
  EndWithoutVerdict(r) \/ MarkSuccess(r) \/ NotifySuccess(r)
    \/ \E c \in Cooldowns : MarkHttp429(r, c)

Advance(r) == AdvanceIfActive(r) \/ AdvanceScan(r) \/ AdvanceSet(r)

\* The steps of send_chat once it has been called.
SendChat(r) ==
  Select(r) \/ Answer(r) \/ Advance(r) \/ NotifyDirty(r) \/ DropLease(r)

Next == Tick \/ \E r \in Request : Arrive(r) \/ SendChat(r)

Spec == Init /\ [][Next]_vars

\* The runtime schedules every task, and the HTTP client's read timeout, which
\* the configuration requires to be positive, ends every wait for an answer.
\* Neither requests nor the clock are obliged to come.
FairSpec == Spec /\ \A r \in Request : WF_vars(SendChat(r))

-----------------------------------------------------------------------------
(* Properties                                                              *)

\* The request owns the probe lease of k: from scan, which sets the flag, to
\* the drop of ProbeLease.
Leases(r, k) ==
  r \in lease /\ target[r] = k /\ pc[r] \notin {"idle", "select", "scan"}

\* No cancelled, failed or finished request leaves a key's probe flag behind:
\* a set flag always has an owner that will clear it ("can never strand a key
\* outside single-flight probing", the comment on ProbeLease).
NoStrandedProbe ==
  \A k \in probing : \E r \in Request : Leases(r, k)

\* The flag is set on elapsed cooldowns only.  advance_if_active refuses a
\* flagged key without looking at its cooldown, so a flag left on a healthy
\* key would hide it from failover.
OnlyHalfOpenProbed == \A k \in probing : HalfOpen(k, now)

\* Each key follows the documented life cycle, however many requests race.
phase == [k \in Key |-> PhaseOf(k)]
Lifecycle == INSTANCE KeyLifecycle
FollowsLifecycle == Lifecycle!Spec

\* One request at a time, the pool is the strictly sticky router of ADR 0002.
Sticky == INSTANCE StickyRouting
FollowsStickyRouting == Sticky!Spec

\* Every call of send_chat returns: failover tries finitely many keys.
Terminates == \A r \in Request : pc[r] # "idle" ~> pc[r] = "idle"

\* A probe never stays in flight for ever.
ProbeReleased == \A k \in Key : k \in probing ~> k \notin probing

\* ADR 0002, decision 4, and the head of pool.rs: "at most one in-flight probe
\* per key".
SingleFlightProbe ==
  \A k \in Key : \A r, s \in Request :
    Leases(r, k) /\ pc[r] = "send" /\ Leases(s, k) /\ pc[s] = "send" => r = s

-----------------------------------------------------------------------------
(* The inductive strengthening of the invariants                           *)

\* A lease is held between the selection of its key and its drop.
LeaseLifetime == \A r \in lease : pc[r] \notin {"idle", "select", "scan"}

\* The instant a request captured is never ahead of the clock.
CapturedInPast == \A r \in Request : at[r] <= now

IInv ==
  /\ TypeOK
  /\ LeaseLifetime
  /\ CapturedInPast
  /\ NoStrandedProbe
  /\ OnlyHalfOpenProbed

=============================================================================
