----------------------------- MODULE RateLimiter -----------------------------
(***************************************************************************)
(* class RateLimiter of src/server/ac_server.py.  Every request is handled *)
(* by a thread of its own; allow() reads the clock before it takes the     *)
(* lock, so the time a thread works with may be old by the time it changes *)
(* the buckets, and threads enter in any order.  Time is counted in ticks; *)
(* Lag bounds how long a thread may wait for the lock.                     *)
(***************************************************************************)
EXTENDS Integers, Sequences, FiniteSets, Functions

CONSTANTS
    Key,         \* source addresses
    Thread,      \* handler threads
    limit, window,
    Lag,         \* bound: ticks between the read of the clock and the lock
    MaxTime,     \* bound: ticks explored
    Budget       \* bound: key -> requests explored

ASSUME LimiterAssumption ==
    /\ limit \in Nat \ {0} /\ window \in Nat \ {0}
    /\ Lag \in Nat /\ MaxTime \in Nat /\ Budget \in [Key -> Nat]
    /\ "none" \notin Key

VARIABLES
    clock,         \* time.time()
    _buckets,      \* key -> [window_start, count], for the keys it has
    _last_prune,
    thread,        \* thread -> [key, now] while inside allow(), or NoCall
    asked,         \* history: key -> the ticks at which its requests arrived
    admitted,      \* history: key -> the ticks at which requests were let through
    denied         \* history: keys some request of which was turned down

limiterVars == <<clock, _buckets, _last_prune, thread, asked, admitted, denied>>

NoCall == [key |-> "none", now |-> 0]
Time == 0 .. MaxTime

\* now = time.time()
Arrive(t, k) ==
    /\ thread[t] = NoCall
    /\ Len(asked[k]) < Budget[k]
    /\ thread' = [thread EXCEPT ![t] = [key |-> k, now |-> clock]]
    /\ asked' = [asked EXCEPT ![k] = Append(@, clock)]
    /\ UNCHANGED <<clock, _buckets, _last_prune, admitted, denied>>

BucketReopened(k, now) ==   \* variant: the window slides with every request
    IF k \in DOMAIN _buckets /\ now - _buckets[k].window_start < window
    THEN [window_start |-> now, count |-> _buckets[k].count + 1]
    ELSE [window_start |-> now, count |-> 1]

BucketUncounted(k, now) ==   \* variant: the count is not written back
    IF k \in DOMAIN _buckets /\ now - _buckets[k].window_start < window
    THEN _buckets[k]
    ELSE [window_start |-> now, count |-> 1]

\* The bucket of a request: the stored one, or a new one when there is none or
\* its window has elapsed; counted up either way.
Bucket(k, now) ==
    IF k \in DOMAIN _buckets /\ now - _buckets[k].window_start < window
    THEN [_buckets[k] EXCEPT !.count = @ + 1]
    ELSE [window_start |-> now, count |-> 1]

PruneNone(b, now) == b   \* variant: nothing is dropped

\* Drops the buckets whose window has elapsed.
_prune(b, now) == Restrict(b, {k \in DOMAIN b : now - b[k].window_start < window})

\* allow() under the lock
allow(t) ==
    LET k == thread[t].key
        now == thread[t].now
        b == Bucket(k, now)
        stored == [j \in DOMAIN _buckets \cup {k} |-> IF j = k THEN b ELSE _buckets[j]]
        due == now - _last_prune >= window
    IN  /\ thread[t] # NoCall
        /\ thread' = [thread EXCEPT ![t] = NoCall]
        /\ _buckets' = IF due THEN _prune(stored, now) ELSE stored
        /\ _last_prune' = IF due THEN now ELSE _last_prune
        /\ \/ /\ b.count <= limit
              /\ admitted' = [admitted EXCEPT ![k] = Append(@, clock)]
              /\ UNCHANGED denied
           \/ /\ b.count > limit
              /\ denied' = denied \cup {k}
              /\ UNCHANGED admitted
        /\ UNCHANGED <<clock, asked>>

Tick ==
    /\ clock < MaxTime
    /\ \A t \in Thread : thread[t] # NoCall => clock - thread[t].now < Lag
    /\ clock' = clock + 1
    /\ UNCHANGED <<_buckets, _last_prune, thread, asked, admitted, denied>>

LimiterInit ==
    /\ clock = 0 /\ _last_prune = 0
    /\ _buckets = [k \in {} |-> NoCall]
    /\ thread = [t \in Thread |-> NoCall]
    /\ asked = [k \in Key |-> <<>>]
    /\ admitted = [k \in Key |-> <<>>]
    /\ denied = {}

LimiterNext ==
    \/ Tick
    \/ \E t \in Thread : allow(t) \/ \E k \in Key : Arrive(t, k)

LimiterSpec == LimiterInit /\ [][LimiterNext]_limiterVars

-----------------------------------------------------------------------------
\* Every variable keeps its type; the last prune is never in the future.
LimiterTypeOK ==
    /\ clock \in Time /\ _last_prune \in 0 .. clock
    /\ DOMAIN _buckets \subseteq Key
    /\ \A k \in DOMAIN _buckets :
         _buckets[k].window_start \in 0 .. clock /\ _buckets[k].count \in Nat \ {0}
    /\ thread \in [Thread -> {NoCall} \cup [key : Key, now : 0 .. clock]]
    /\ asked \in [Key -> Seq(0 .. clock)]
    /\ admitted \in [Key -> Seq(0 .. clock)]
    /\ denied \subseteq Key

\* How many of the ticks in the sequence s are among the n ticks from i on.
Within(s, i, n) == Cardinality({j \in DOMAIN s : i <= s[j] /\ s[j] < i + n})

\* "at most `limit` requests per `window` seconds", with the "brief double-rate
\* burst right at the boundary" its comment grants: no span of a window, less
\* the time threads may wait for the lock, sees more than two limits admitted.
\* Neither pruning nor a thread with an old clock reading re-opens a window.  And a
\* client is turned down only for what it did itself: some window, stretched by the
\* time threads may wait, in which more than `limit` of its requests came.
LimitHolds ==
    /\ \A k \in Key, i \in Time : Within(admitted[k], i, window - Lag) <= 2 * limit
    /\ \A k \in denied : \E i \in Time : Within(asked[k], i, window + Lag) > limit

\* Buckets do not pile up: none is older than a window before the last prune,
\* which itself is repeated by the first request a window later.  Every variable
\* has its type.
BucketsRecent ==
    /\ LimiterTypeOK
    /\ \A k \in DOMAIN _buckets : _buckets[k].window_start > _last_prune - window
=============================================================================
