---------------------------- MODULE RateLimiter ----------------------------
(***************************************************************************)
(* One limiter of failed attempts: entries with a failure count and a      *)
(* remaining wait, most recently used first.  The list alone stands for    *)
(* the code's map and list, which always hold the same entries; each       *)
(* operator is one method, run under the limiter's mutex.                  *)
(***************************************************************************)
EXTENDS Naturals, Sequences

CONSTANTS
  MaxEntries,      \* at most this many keys are remembered
  FreeAttempts,    \* failures before the first wait
  BaseDelay,       \* the first wait, doubled by each further failure
  MaxDelay,        \* the longest wait
  FailureCeiling   \* the count stops here (1 << 30 in the code)

ASSUME LimiterAssumption ==
  /\ {MaxEntries, FreeAttempts, BaseDelay, MaxDelay} \subseteq Nat \ {0}
  /\ FailureCeiling \in Nat /\ FailureCeiling > FreeAttempts

Known(entries, key) == \E k \in DOMAIN entries : entries[k].key = key
PositionOf(entries, key) == CHOOSE k \in DOMAIN entries : entries[k].key = key
EntryOf(entries, key) == entries[PositionOf(entries, key)]
TakeOut(entries, p) == SubSeq(entries, 1, p - 1) \o SubSeq(entries, p + 1, Len(entries))
Without(entries, key) == TakeOut(entries, PositionOf(entries, key))

\* Looking a key up makes it the most recently used.
MoveToFront(entries, key) == <<EntryOf(entries, key)>> \o Without(entries, key)
Allow(entries, key) == Known(entries, key) => EntryOf(entries, key).wait = 0
AfterAllow(entries, key) ==
  IF Known(entries, key) THEN MoveToFront(entries, key) ELSE entries

\* Mutant: nothing is evicted.
insertLocked_NoEviction(entries, key) == <<[key |-> key, failures |-> 0, wait |-> 0]>> \o entries

\* A new key takes the place of the least recently used one when full.
insertLocked(entries, key) ==
  LET room == IF Len(entries) >= MaxEntries THEN SubSeq(entries, 1, Len(entries) - 1) ELSE entries
  IN  <<[key |-> key, failures |-> 0, wait |-> 0]>> \o room

\* The loop that doubles the delay while it is below the limit.
Doubled[shift \in Nat] ==
  IF shift = 0 THEN BaseDelay
  ELSE LET d == Doubled[shift - 1] IN IF d < MaxDelay THEN 2 * d ELSE d
Delay(failures) ==
  LET d == Doubled[failures - FreeAttempts - 1]
  IN  IF d > MaxDelay THEN MaxDelay ELSE d

RecordFailure(entries, key) ==
  LET found == IF Known(entries, key) THEN MoveToFront(entries, key)
                                      ELSE insertLocked(entries, key)
      n == IF found[1].failures < FailureCeiling THEN found[1].failures + 1
                                                 ELSE found[1].failures
  IN  [found EXCEPT ![1].failures = n,
                    ![1].wait = IF n <= FreeAttempts THEN @ ELSE Delay(n)]

RecordSuccess(entries, key) ==
  IF Known(entries, key) THEN Without(entries, key) ELSE entries

\* A unit of time passes for every entry.
Elapse(entries) ==
  [k \in DOMAIN entries |-> [entries[k] EXCEPT !.wait = IF @ = 0 THEN 0 ELSE @ - 1]]

\* What an attempt under one key or two does, one key after the other.
Each(op(_, _), entries, keys) ==
  IF Len(keys) = 1 THEN op(entries, keys[1]) ELSE op(op(entries, keys[1]), keys[2])
AllowAll(entries, keys) == \A k \in DOMAIN keys : Allow(entries, keys[k])
Asked(entries, keys) == IF Allow(entries, keys[1]) THEN keys ELSE <<keys[1]>>
AfterAllowAll(entries, keys) == Each(AfterAllow, entries, Asked(entries, keys))
FailAll(entries, keys) == Each(RecordFailure, entries, keys)
SucceedAll(entries, keys) == Each(RecordSuccess, entries, keys)
=============================================================================
