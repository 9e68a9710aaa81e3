---------------------------- MODULE RateGovernor ----------------------------
(***************************************************************************)
(* Token buckets (app/security/rate_governor.py): an acquisition pays the   *)
(* global bucket and then its key's, sleeping outside the bucket's lock     *)
(* until its tokens should be there; the key's policy may change meanwhile. *)
(***************************************************************************)
EXTENDS Naturals, Sequences, FiniteSetsExt

CONSTANTS
  Callers,         \* coroutines that acquire for the one key, at cost 1
  GlobalPolicy, KeyPolicy,  \* [rate, burst]: tokens a tick, most tokens held
  Policies,        \* what set_policy may assign to the key
  MaxTime, MaxBuckets, MaxGrants  \* bounds

VARIABLES
  mem,   \* now; buckets: the global one, then each the key ever had; current:
         \* the key's or 0; policy: of the key; changes: calls of set_policy
  proc,  \* a caller's bucket (0: none), when it wakes, the changes it has seen
  hist   \* grants: when each bucket granted; made: the changes it was made
         \* after; stale: did a caller get a bucket older than its request

vars == <<mem, proc, hist>>

Idle == [bucket |-> 0, wake |-> 0, seen |-> 0]

Init ==
  /\ mem = [now |-> 0, current |-> 0, policy |-> KeyPolicy, changes |-> 0,
            buckets |-> <<[policy |-> GlobalPolicy, tokens |-> GlobalPolicy.burst, at |-> 0]>>]
  /\ proc = [c \in Callers |-> Idle]
  /\ hist = [grants |-> << <<>> >>, made |-> <<0>>, stale |-> FALSE]

\* Mutant: the refill is not capped by the burst.
RefillUncapped(b) ==
  [b EXCEPT !.tokens = @ + (mem.now - b.at) * b.policy.rate, !.at = mem.now]

Refill(b) ==
  [b EXCEPT !.tokens = Min({b.policy.burst, @ + (mem.now - b.at) * b.policy.rate}), !.at = mem.now]

Room == MapThenSumSet(LAMBDA i : Len(hist.grants[i]), DOMAIN hist.grants) < MaxGrants

Acquire(c) ==
  /\ proc[c] = Idle /\ Room
  /\ proc' = [proc EXCEPT ![c] = [bucket |-> 1, wake |-> mem.now, seen |-> mem.changes]]
  /\ UNCHANGED <<mem, hist>>

\* One turn of a bucket's loop: the missing part of a token takes a tick.
Sleeps(c) ==
  LET i == proc[c].bucket
      b == Refill(mem.buckets[i])
  IN /\ i > 0 /\ proc[c].wake <= mem.now /\ b.tokens < 1
     /\ mem' = [mem EXCEPT !.buckets[i] = b]
     /\ proc' = [proc EXCEPT ![c].wake = mem.now + 1] /\ UNCHANGED hist

Deduct(c) ==
  LET i == proc[c].bucket
      b == Refill(mem.buckets[i])
  IN /\ i > 0 /\ proc[c].wake <= mem.now /\ b.tokens >= 1 /\ Room
     /\ mem' = [mem EXCEPT !.buckets[i] = [b EXCEPT !.tokens = @ - 1]]

\* The global bucket is paid; 0 marks that the key's is looked up next.
PayGlobal(c) ==
  /\ proc[c].bucket = 1 /\ Deduct(c)
  /\ proc' = [proc EXCEPT ![c] = [@ EXCEPT !.bucket = 0, !.wake = mem.now + 1]]
  /\ hist' = [hist EXCEPT !.grants[1] = Append(@, mem.now)]

\* _bucket: found, or made with the key's policy under the map's lock.
FindBucket(c) ==
  /\ proc[c].bucket = 0 /\ proc[c] # Idle
  /\ \/ /\ mem.current # 0
        /\ proc' = [proc EXCEPT ![c].bucket = mem.current, ![c].wake = mem.now]
        /\ UNCHANGED <<mem, hist>>
     \/ /\ mem.current = 0 /\ Len(mem.buckets) < MaxBuckets
        /\ mem' = [mem EXCEPT !.current = Len(mem.buckets) + 1,
             !.buckets = Append(@, [policy |-> mem.policy, tokens |-> mem.policy.burst, at |-> mem.now])]
        /\ proc' = [proc EXCEPT ![c].bucket = Len(mem.buckets) + 1, ![c].wake = mem.now]
        /\ hist' = [hist EXCEPT !.grants = Append(@, <<>>), !.made = Append(@, mem.changes)]

PayKey(c) ==
  LET i == proc[c].bucket IN
  /\ i > 1 /\ Deduct(c)
  /\ proc' = [proc EXCEPT ![c] = Idle]
  /\ hist' = [hist EXCEPT !.grants[i] = Append(@, mem.now),
                          !.stale = @ \/ hist.made[i] < proc[c].seen]

\* Those who sleep on the old bucket stay with it.
SetPolicy(p) ==
  /\ mem.changes < MaxBuckets - 1 /\ p # mem.policy
  /\ mem' = [mem EXCEPT !.policy = p, !.current = 0, !.changes = @ + 1] /\ UNCHANGED <<proc, hist>>

\* A cancelled caller gives nothing back.
Cancelled(c) ==
  /\ proc[c].bucket > 0 /\ proc[c].wake > mem.now
  /\ proc' = [proc EXCEPT ![c] = Idle] /\ UNCHANGED <<mem, hist>>

Tick == mem.now < MaxTime /\ mem' = [mem EXCEPT !.now = @ + 1] /\ UNCHANGED <<proc, hist>>

Next ==
  \/ \E c \in Callers : \/ Acquire(c) \/ Sleeps(c) \/ PayGlobal(c)
                        \/ FindBucket(c) \/ PayKey(c) \/ Cancelled(c)
  \/ \E p \in Policies : SetPolicy(p)
  \/ Tick

Spec == Init /\ [][Next]_vars

------------------------------------------------------------------------------

\* No bucket, the global one or any the key ever had, grants more in any window
\* than its burst and what the window refills, whoever wakes in which order.
RateConforms ==
  \A i \in DOMAIN hist.grants : \A j, k \in DOMAIN hist.grants[i] :
    LET g == hist.grants[i] p == mem.buckets[i].policy IN
    j <= k => k - j + 1 <= p.burst + p.rate * (g[k] - g[j])

\* A policy holds for every acquisition that begins after it was assigned.
NewPolicyHolds == ~hist.stale
=============================================================================
