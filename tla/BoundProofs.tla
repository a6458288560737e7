---------------------------- MODULE BoundProofs ----------------------------
(******************************************************************************)
(* Tables and counts with a bound: the server's rate limiter for every limit, *)
(* window, lag and number of clients and threads, and the daemon's watch over *)
(* processes for every number of processes and size of the tables.            *)
(******************************************************************************)
EXTENDS RateLimiter, ProcessWatch, FiniteSetTheorems, TLAPS

-----------------------------------------------------------------------------
(* RateLimiter                                                               *)
\* A bucket, as _Bucket has it.
Bucketed == [window_start : Nat, count : Nat \ {0}]

\* The threads inside allow(): finitely many, and none that waited for longer than Lag.
InAllow(k) == {t \in Thread : thread[t] # NoCall /\ thread[t].key = k}
\* A thread inside allow() came at most Lag ago.
Waiting ==
    /\ IsFiniteSet({t \in Thread : thread[t] # NoCall})
    /\ \A t \in Thread : thread[t] # NoCall => clock - thread[t].now <= Lag

\* The buckets, and that none began in the future.
Stored ==
    /\ _buckets \in [DOMAIN _buckets -> Bucketed]
    /\ \A k \in DOMAIN _buckets : _buckets[k].window_start <= clock

\* The places of s that hold one of the ticks from x up to, but not including, y.
Span(s, x, y) == {j \in DOMAIN s : x <= s[j] /\ s[j] < y}

\* How many of the first q requests in s came in the n ticks from i on.
FirstWithin(s, q, i, n) == Cardinality({j \in 1 .. q : i <= s[j] /\ s[j] < i + n})

(* The requests let through for one client fall into three parts: the ones after *)
(* q were counted in the latest bucket, which began at b; those between p and q   *)
(* in the one before; the ones up to p earlier still.  A bucket lets `limit' of   *)
(* them through, and what the latest one lets through comes at least a window,    *)
(* less the time a thread may wait, after what was let through before the         *)
(* previous one began (e).                                                        *)
Split(s, c, p, q, e, b) ==
    /\ p <= q /\ q <= Len(s) /\ q - p <= limit /\ Len(s) - q <= limit
    /\ \A j \in 1 .. p : s[j] <= e
    /\ \A j \in q + 1 .. Len(s) : s[j] >= e + (window - Lag)
    /\ \A j \in 1 .. q : s[j] <= b + Lag
    /\ c >= e + (window - Lag)
    /\ \A i \in Int : FirstWithin(s, q, i, window - Lag) <= 2 * limit
\* The parts for the client k: the latest is counted by its bucket.
Parts(k, p, q, e, b) ==
    /\ Split(admitted[k], clock, p, q, e, b)
    /\ k \in DOMAIN _buckets =>
         /\ b = _buckets[k].window_start
         /\ Len(admitted[k]) - q = IF _buckets[k].count <= limit THEN _buckets[k].count ELSE limit
    /\ k \notin DOMAIN _buckets => clock >= b + window
\* Every client has such parts.
Admissions == \A k \in Key : \E p, q \in Nat, e, b \in Int : Parts(k, p, q, e, b)

\* The requests counted in a bucket, and the threads that may yet be, are different
\* requests of the client, of about the time of the bucket.
Came(k, x, y) == Cardinality(Span(asked[k], x, y))
\* The requests inside allow() that came in this span.
ToCome(k, x, y) == Cardinality({t \in InAllow(k) : x <= thread[t].now /\ thread[t].now < y})
\* They are among those that were asked.
Arrivals == \A k \in Key : \A x, y \in Int : ToCome(k, x, y) <= Came(k, x, y)
\* A bucket has counted, and has yet to count, requests of its own time.
Counted ==
    \A k \in DOMAIN _buckets :
        LET b == _buckets[k]
        IN  b.count + ToCome(k, b.window_start - Lag, b.window_start + window)
              <= Came(k, b.window_start - Lag, b.window_start + window)

\* The two halves of LimitHolds, the second for what a bucket holds now.
TwoLimits == \A k \in Key, i \in Time : Within(admitted[k], i, window - Lag) <= 2 * limit
\* A bucket that refuses had more requests than the limit.
FullWithReason ==
    \A k \in DOMAIN _buckets :
        _buckets[k].count > limit => \E i \in Time : Within(asked[k], i, window + Lag) > limit

\* The inductive invariant of RateLimiter.
LimiterInv == LimiterTypeOK /\ Waiting /\ Stored /\ Admissions /\ Arrivals /\ Counted /\ LimitHolds

-----------------------------------------------------------------------------
\* Part of an initial segment of a sequence is finite and not longer than it.
LEMMA SegmentSize ==
  ASSUME NEW a \in Nat, NEW n \in Nat, a <= n, NEW S, \A j \in S : j \in Nat /\ a < j /\ j <= n
  PROVE  IsFiniteSet(S) /\ Cardinality(S) \in Nat /\ Cardinality(S) <= n - a
<1> DEFINE m == a + 1
           T == m .. n
<1>1. m \in Int /\ n \in Int
  OBVIOUS
<1> HIDE DEF m
<1>2. IsFiniteSet(T) /\ Cardinality(T) = IF m > n THEN 0 ELSE n - m + 1
  BY <1>1, FS_Interval
<1>3. S \subseteq T
  BY DEF m
<1>4. Cardinality(T) = n - a
  BY <1>2 DEF m
<1> HIDE DEF T
<1>5. IsFiniteSet(S) /\ Cardinality(S) <= Cardinality(T)
  BY <1>2, <1>3, FS_Subset
<1>6. Cardinality(S) \in Nat
  BY <1>5, FS_CardinalityType
<1> QED
  BY <1>4, <1>5, <1>6

\* Requests that follow do not change what came before.
LEMMA FirstWithinSame ==
  ASSUME NEW s, NEW r, NEW q, \A j \in 1 .. q : r[j] = s[j], NEW i, NEW w
  PROVE  FirstWithin(r, q, i, w) = FirstWithin(s, q, i, w)
<1>1. {j \in 1 .. q : i <= r[j] /\ r[j] < i + w} = {j \in 1 .. q : i <= s[j] /\ s[j] < i + w}
  OBVIOUS
<1> QED
  BY <1>1 DEF FirstWithin

\* From the three parts of the history follows that no span of a window, less the lag,
\* sees more than two limits.
LEMMA SplitGivesLimit ==
  ASSUME NEW s \in Seq(Int), NEW c \in Int, NEW p \in Nat, NEW q \in Nat, NEW e \in Int, NEW b \in Int,
         Split(s, c, p, q, e, b), NEW i \in Int
  PROVE  Within(s, i, window - Lag) <= 2 * limit
<1> DEFINE w == window - Lag
           S == {j \in DOMAIN s : i <= s[j] /\ s[j] < i + w}
<1>0. DOMAIN s = 1 .. Len(s) /\ Len(s) \in Nat /\ \A j \in 1 .. Len(s) : s[j] \in Int
  OBVIOUS
<1>1. w \in Int /\ limit \in Nat
  BY LimiterAssumption
<1>2. /\ p <= q /\ q <= Len(s) /\ q - p <= limit /\ Len(s) - q <= limit
      /\ \A j \in 1 .. p : s[j] <= e
      /\ \A j \in q + 1 .. Len(s) : s[j] >= e + w
      /\ FirstWithin(s, q, i, w) <= 2 * limit
  BY DEF Split
<1>3. Within(s, i, window - Lag) = Cardinality(S)
  BY DEF Within
<1> HIDE DEF w
<1>4. CASE \E j \in S : j > q
  <2>1. PICK j \in S : j > q
    BY <1>4
  <2>2. i > e
    BY <1>0, <1>1, <1>2, <2>1, SMTT(30)
  <2>3. \A k \in S : k \in Nat /\ p < k /\ k <= Len(s)
    BY <1>0, <1>2, <2>2, SMTT(30)
  <2>4. Cardinality(S) <= Len(s) - p /\ Cardinality(S) \in Nat
    <3> HIDE DEF S
    <3> QED
      BY <1>0, <1>2, <2>3, SegmentSize, SMTT(30)
  <2> QED
    BY <1>0, <1>1, <1>2, <1>3, <2>4, SMTT(30)
<1>5. CASE ~ \E j \in S : j > q
  <2>1. S = {j \in 1 .. q : i <= s[j] /\ s[j] < i + w}
    BY <1>0, <1>2, <1>5, SMTT(30)
  <2> QED
    BY <1>2, <1>3, <2>1, Zenon DEF FirstWithin
<1> QED
  BY <1>4, <1>5

\* One more request is let through under the latest bucket.
LEMMA SplitGrows ==
  ASSUME NEW s \in Seq(Int), NEW c \in Int, NEW p \in Nat, NEW q \in Nat, NEW e \in Int, NEW b \in Int,
         Split(s, c, p, q, e, b), Len(s) - q < limit
  PROVE  Split(Append(s, c), c, p, q, e, b)
<1> DEFINE r == Append(s, c)
           n == Len(s)
<1>1. n \in Nat /\ Len(r) = n + 1 /\ r[n + 1] = c /\ \A j \in 1 .. n : r[j] = s[j]
  OBVIOUS
<1>2. q <= n
  BY DEF Split
<1> HIDE DEF r
<1>3. \A j \in 1 .. q : r[j] = s[j]
  BY <1>1, <1>2
<1>4. \A i \in Int : FirstWithin(r, q, i, window - Lag) <= 2 * limit
  BY <1>3, FirstWithinSame, SMTT(30) DEF Split
<1>5. \A j \in q + 1 .. Len(r) : r[j] >= e + (window - Lag)
  <2>1. (\A j \in q + 1 .. n : s[j] >= e + (window - Lag)) /\ c >= e + (window - Lag)
    BY DEF Split
  <2>2. \A j \in q + 1 .. Len(r) : j = n + 1 \/ (j \in q + 1 .. n /\ j \in 1 .. n)
    BY <1>1, <1>2
  <2> QED
    BY <1>1, <2>1, <2>2, Zenon
<1>6. p <= q /\ q <= Len(r) /\ q - p <= limit /\ Len(r) - q <= limit
  BY <1>1, <1>2, LimiterAssumption DEF Split
<1>7. (\A j \in 1 .. p : r[j] <= e) /\ (\A j \in 1 .. q : r[j] <= b + Lag)
  <2>1. (\A j \in 1 .. p : s[j] <= e) /\ (\A j \in 1 .. q : s[j] <= b + Lag)
    BY DEF Split
  <2>2. \A j \in 1 .. p : j \in 1 .. q
    BY <1>6
  <2> QED
    BY <1>3, <2>1, <2>2, Zenon
<1>8. Split(r, c, p, q, e, b)
  BY <1>4, <1>5, <1>6, <1>7 DEF Split
<1> QED
  BY <1>8 DEF r

\* A request opens a new bucket at `now', a window or more after the latest one.
LEMMA SplitShifts ==
  ASSUME NEW s \in Seq(Int), NEW c \in Int, NEW p \in Nat, NEW q \in Nat, NEW e \in Int, NEW b \in Int,
         Split(s, c, p, q, e, b), \A j \in 1 .. Len(s) : s[j] <= c,
         NEW now \in Int, c - now <= Lag, c >= b + window
  PROVE  Split(Append(s, c), c, q, Len(s), b + Lag, now)
<1> DEFINE r == Append(s, c)
           n == Len(s)
           f == b + Lag
<1>1. n \in Nat /\ Len(r) = n + 1 /\ r[n + 1] = c /\ (\A j \in 1 .. n : r[j] = s[j] /\ s[j] \in Int)
  OBVIOUS
<1>2. q <= n /\ n - q <= limit /\ f \in Int /\ limit \in Nat \ {0} /\ window \in Nat /\ Lag \in Nat
  BY LimiterAssumption DEF Split
<1> HIDE DEF r
<1>3. \A j \in 1 .. q : r[j] <= f
  <2>1. \A j \in 1 .. q : s[j] <= f
    BY DEF Split
  <2>2. \A j \in 1 .. q : j \in 1 .. n
    BY <1>1, <1>2
  <2> QED
    BY <1>1, <2>1, <2>2
<1>4. \A j \in 1 .. n : r[j] <= now + Lag
  BY <1>1, <1>2, SMTT(30)
<1>5. c >= f + (window - Lag)
  BY <1>2
<1>6. \A j \in n + 1 .. Len(r) : r[j] >= f + (window - Lag)
  BY <1>1, <1>5
<1>7. \A i \in Int : FirstWithin(r, n, i, window - Lag) <= 2 * limit
  <2> SUFFICES ASSUME NEW i \in Int PROVE FirstWithin(r, n, i, window - Lag) <= 2 * limit
    OBVIOUS
  <2>1. Within(s, i, window - Lag) <= 2 * limit
    BY SplitGivesLimit
  <2>2. DOMAIN s = 1 .. n
    OBVIOUS
  <2>3. Within(s, i, window - Lag) = FirstWithin(s, n, i, window - Lag)
    BY <2>2 DEF Within, FirstWithin
  <2>4. FirstWithin(r, n, i, window - Lag) = FirstWithin(s, n, i, window - Lag)
    <3> HIDE DEF n
    <3> QED
      BY <1>1, FirstWithinSame, SMTT(30)
  <2> QED
    BY <2>1, <2>3, <2>4
<1>8. n <= Len(r) /\ Len(r) - n <= limit
  BY <1>1, <1>2
<1> HIDE DEF n, f
<1>9. Split(r, c, q, n, f, now)
  BY <1>2, <1>3, <1>4, <1>5, <1>6, <1>7, <1>8 DEF Split
<1> QED
  BY <1>9 DEF r, n, f

\* A longer sequence has no fewer of its ticks in a span, and exactly one more when
\* the new one is in it.
LEMMA WithinAppend ==
  ASSUME NEW s \in Seq(Int), NEW c \in Int, NEW x \in Int, NEW y \in Int
  PROVE  /\ IsFiniteSet(Span(s, x, y)) /\ Cardinality(Span(s, x, y)) \in Nat
         /\ Cardinality(Span(Append(s, c), x, y)) =
              IF x <= c /\ c < y THEN Cardinality(Span(s, x, y)) + 1 ELSE Cardinality(Span(s, x, y))
<1> DEFINE S == Span(s, x, y)
           r == Append(s, c)
           R == Span(r, x, y)
           n == Len(s)
<1>1. /\ n \in Nat /\ DOMAIN s = 1 .. n /\ DOMAIN r = 1 .. n + 1 /\ r[n + 1] = c
      /\ \A j \in 1 .. n : r[j] = s[j] /\ s[j] \in Int
  OBVIOUS
<1>2. \A j \in S : j \in Nat /\ 0 < j /\ j <= n
  BY <1>1 DEF Span
<1>3. IsFiniteSet(S) /\ Cardinality(S) \in Nat
  <2> HIDE DEF S
  <2> QED
    BY <1>1, <1>2, SegmentSize
<1>4. R = IF x <= c /\ c < y THEN S \cup {n + 1} ELSE S
  BY <1>1 DEF Span
<1>5. n + 1 \notin S
  BY <1>1 DEF Span
<1>6. Cardinality(S \cup {n + 1}) = Cardinality(S) + 1
  BY <1>3, <1>5, FS_AddElement, Zenon
<1> HIDE DEF S, R
<1>7. Cardinality(R) = IF x <= c /\ c < y THEN Cardinality(S) + 1 ELSE Cardinality(S)
  BY <1>4, <1>6
<1> QED
  BY <1>3, <1>7 DEF S, R

-----------------------------------------------------------------------------
\* Nobody has asked when the server starts.
LEMMA LimiterInitInv == LimiterInit => LimiterInv
<1> SUFFICES ASSUME LimiterInit PROVE LimiterInv
  OBVIOUS
<1>0. IsFiniteSet({}) /\ Cardinality({}) = 0
  BY FS_EmptySet
<1>1. DOMAIN _buckets = {} /\ _buckets \in [DOMAIN _buckets -> Bucketed]
  BY DEF LimiterInit
<1>2. \A t \in Thread : thread[t] = NoCall
  BY DEF LimiterInit
<1>3. LimiterTypeOK
  BY <1>1, LimiterAssumption DEF LimiterInit, LimiterTypeOK, Time
<1>4. Waiting
  <2>1. {t \in Thread : thread[t] # NoCall} = {}
    BY <1>2
  <2> QED
    BY <1>0, <1>2, <2>1 DEF Waiting
<1>5. Stored /\ Counted
  BY <1>1 DEF Stored, Counted
<1>6. ASSUME NEW k \in Key PROVE \E p, q \in Nat, e, b \in Int : Parts(k, p, q, e, b)
  <2>1. admitted[k] = <<>> /\ Len(admitted[k]) = 0 /\ clock = 0
    BY DEF LimiterInit
  <2>2. ASSUME NEW i \in Int PROVE FirstWithin(admitted[k], 0, i, window - Lag) <= 2 * limit
    <3>1. {j \in 1 .. 0 : i <= admitted[k][j] /\ admitted[k][j] < i + (window - Lag)} = {}
      OBVIOUS
    <3> QED
      BY <1>0, <3>1, LimiterAssumption DEF FirstWithin
  <2>3. Parts(k, 0, 0, Lag - window, - window)
    BY <1>1, <2>1, <2>2, LimiterAssumption DEF Parts, Split
  <2>4. Lag - window \in Int /\ - window \in Int
    BY LimiterAssumption
  <2> QED
    BY <2>3, <2>4, Zenon
<1>7. ASSUME NEW k \in Key, NEW x \in Int, NEW y \in Int PROVE ToCome(k, x, y) <= Came(k, x, y)
  <2>1. InAllow(k) = {} /\ asked[k] = <<>> /\ DOMAIN asked[k] = {}
    BY <1>2 DEF InAllow, LimiterInit
  <2> DEFINE S == {t \in InAllow(k) : x <= thread[t].now /\ thread[t].now < y}
             T == Span(asked[k], x, y)
  <2>2. S = {} /\ T = {}
    BY <2>1 DEF Span
  <2>3. ToCome(k, x, y) = Cardinality(S) /\ Came(k, x, y) = Cardinality(T)
    BY DEF ToCome, Came
  <2> QED
    BY <1>0, <2>2, <2>3, SMTT(30)
<1>8. ASSUME NEW k \in Key, NEW i \in Time PROVE Within(admitted[k], i, window - Lag) <= 2 * limit
  <2>1. admitted[k] = <<>> /\ DOMAIN admitted[k] = {}
    BY DEF LimiterInit
  <2> DEFINE S == {j \in DOMAIN admitted[k] : i <= admitted[k][j] /\ admitted[k][j] < i + (window - Lag)}
  <2>2. S = {}
    BY <2>1
  <2>3. Within(admitted[k], i, window - Lag) = Cardinality(S)
    BY DEF Within
  <2>4. 0 <= 2 * limit
    BY LimiterAssumption
  <2> HIDE DEF S
  <2> QED
    BY <1>0, <2>2, <2>3, <2>4, Zenon
<1>9. LimitHolds
  BY <1>8 DEF LimitHolds, LimiterInit
<1> QED
  BY <1>3, <1>4, <1>5, <1>6, <1>7, <1>9 DEF LimiterInv, Admissions, Arrivals

\* The threads of a client inside allow() are finitely many.
LEMMA InAllowFinite ==
  ASSUME Waiting, NEW k, NEW x \in Int, NEW y \in Int
  PROVE  /\ IsFiniteSet({t \in InAllow(k) : x <= thread[t].now /\ thread[t].now < y})
         /\ ToCome(k, x, y) \in Nat
<1> DEFINE S == {t \in InAllow(k) : x <= thread[t].now /\ thread[t].now < y}
           T == {t \in Thread : thread[t] # NoCall}
<1>1. S \subseteq T /\ IsFiniteSet(T)
  BY DEF InAllow, Waiting
<1>2. ToCome(k, x, y) = Cardinality(S)
  BY DEF ToCome
<1> HIDE DEF S, T
<1>3. IsFiniteSet(S)
  BY <1>1, FS_Subset
<1>4. Cardinality(S) \in Nat
  BY <1>3, FS_CardinalityType
<1> QED
  BY <1>2, <1>3, <1>4 DEF S

\* A history of ticks up to now is one of ticks up to any later time.
LEMMA LongerTime ==
  ASSUME NEW c \in Int, NEW S, 0 .. c \subseteq S, NEW s \in Seq(0 .. c)
  PROVE  s \in Seq(S)
  OBVIOUS

\* The history of a client is finite.
LEMMA CameFinite ==
  ASSUME LimiterTypeOK, NEW k \in Key, NEW x \in Int, NEW y \in Int
  PROVE  Came(k, x, y) \in Nat
<1>1. asked[k] \in Seq(Int)
  BY LongerTime DEF LimiterTypeOK, Time
<1> QED
  BY <1>1, WithinAppend, Zenon DEF Came

\* A request that arrives is one more that came and one more that may be counted.
LEMMA ArriveCounts ==
  ASSUME LimiterTypeOK, Waiting, NEW t \in Thread, NEW k \in Key, Arrive(t, k),
         NEW x \in Int, NEW y \in Int
  PROVE  /\ x <= clock /\ clock < y =>
              ToCome(k, x, y)' = ToCome(k, x, y) + 1 /\ Came(k, x, y)' = Came(k, x, y) + 1
         /\ ~(x <= clock /\ clock < y) =>
              ToCome(k, x, y)' = ToCome(k, x, y) /\ Came(k, x, y)' = Came(k, x, y)
         /\ \A j \in Key : j # k => ToCome(j, x, y)' = ToCome(j, x, y) /\ Came(j, x, y)' = Came(j, x, y)
<1> DEFINE S(j) == {u \in InAllow(j) : x <= thread[u].now /\ thread[u].now < y}
<1>1. /\ thread[t] = NoCall
      /\ thread' = [thread EXCEPT ![t] = [key |-> k, now |-> clock]]
      /\ asked' = [asked EXCEPT ![k] = Append(@, clock)]
      /\ UNCHANGED clock
  BY DEF Arrive
<1>2. thread'[t] = [key |-> k, now |-> clock] /\ \A u \in Thread : u # t => thread'[u] = thread[u]
  BY <1>1 DEF LimiterTypeOK
<1>3. thread'[t] # NoCall /\ clock \in Int
  BY <1>2, LimiterAssumption DEF NoCall, LimiterTypeOK, Time
<1>4. \A j \in Key : j # k => S(j)' = S(j)
  BY <1>1, <1>2, <1>3 DEF InAllow
<1>5. t \notin S(k) /\ S(k)' = IF x <= clock /\ clock < y THEN S(k) \cup {t} ELSE S(k)
  BY <1>1, <1>2, <1>3 DEF InAllow
<1>6. \A j \in Key : ToCome(j, x, y) = Cardinality(S(j)) /\ ToCome(j, x, y)' = Cardinality(S(j)')
  BY DEF ToCome
<1>7. IsFiniteSet(S(k))
  BY InAllowFinite, Zenon
<1> HIDE DEF S
<1>8. Cardinality(S(k) \cup {t}) = Cardinality(S(k)) + 1
  BY <1>5, <1>7, FS_AddElement, SMTT(30)
<1>9. /\ x <= clock /\ clock < y => ToCome(k, x, y)' = ToCome(k, x, y) + 1
      /\ ~(x <= clock /\ clock < y) => ToCome(k, x, y)' = ToCome(k, x, y)
      /\ \A j \in Key : j # k => ToCome(j, x, y)' = ToCome(j, x, y)
  BY <1>4, <1>5, <1>6, <1>8
<1>10. asked'[k] = Append(asked[k], clock) /\ asked[k] \in Seq(Int)
       /\ \A j \in Key : j # k => asked'[j] = asked[j]
  BY <1>1, <1>3, LongerTime DEF LimiterTypeOK
<1>11. \A j \in Key : j # k => Came(j, x, y)' = Came(j, x, y)
  BY <1>10 DEF Came
<1>12. Came(k, x, y)' = IF x <= clock /\ clock < y THEN Came(k, x, y) + 1 ELSE Came(k, x, y)
  <2>1. Came(k, x, y)' = Cardinality(Span(Append(asked[k], clock), x, y))
    BY <1>10 DEF Came, Span
  <2>2. /\ Cardinality(Span(Append(asked[k], clock), x, y)) =
             IF x <= clock /\ clock < y THEN Cardinality(Span(asked[k], x, y)) + 1
             ELSE Cardinality(Span(asked[k], x, y))
    BY <1>3, <1>10, WithinAppend, ZenonT(60)
  <2> QED
    BY <2>1, <2>2 DEF Came
<1> QED
  BY <1>9, <1>11, <1>12

\* A request that is handled is one fewer that may be counted.
LEMMA AllowCounts ==
  ASSUME LimiterTypeOK, Waiting, NEW t \in Thread, allow(t), NEW x \in Int, NEW y \in Int,
         NEW k, k = thread[t].key, NEW now, now = thread[t].now
  PROVE  /\ x <= now /\ now < y => ToCome(k, x, y)' = ToCome(k, x, y) - 1
         /\ ~(x <= now /\ now < y) => ToCome(k, x, y)' = ToCome(k, x, y)
         /\ \A j \in Key : j # k => ToCome(j, x, y)' = ToCome(j, x, y)
<1> DEFINE S(j) == {u \in InAllow(j) : x <= thread[u].now /\ thread[u].now < y}
<1>1. thread[t] # NoCall /\ thread' = [thread EXCEPT ![t] = NoCall]
  BY DEF allow
<1>2. thread'[t] = NoCall /\ \A u \in Thread : u # t => thread'[u] = thread[u]
  BY <1>1 DEF LimiterTypeOK
<1>3. \A j \in Key : j # k => S(j)' = S(j)
  BY <1>1, <1>2 DEF InAllow
<1>4. S(k)' = S(k) \ {t}
  BY <1>1, <1>2 DEF InAllow
<1>5. t \in S(k) <=> x <= now /\ now < y
  BY <1>1 DEF InAllow
<1>6. \A j : ToCome(j, x, y) = Cardinality(S(j))
  BY DEF ToCome
<1>7. ToCome(k, x, y)' = Cardinality(S(k) \ {t}) /\ \A j \in Key : j # k => ToCome(j, x, y)' = Cardinality(S(j))
  BY <1>2, <1>3, <1>4, Zenon DEF ToCome, InAllow
<1>8. IsFiniteSet(S(k)) /\ Cardinality(S(k)) \in Nat
  BY <1>6, InAllowFinite, ZenonT(60)
<1> HIDE DEF S
<1>9. /\ IsFiniteSet(S(k) \ {t})
      /\ Cardinality(S(k) \ {t}) = IF t \in S(k) THEN Cardinality(S(k)) - 1 ELSE Cardinality(S(k))
  BY <1>8, FS_RemoveElement, SMTT(30)
<1> QED
  BY <1>5, <1>6, <1>7, <1>8, <1>9

-----------------------------------------------------------------------------
\* What was turned down stays justified as more requests come.
LEMMA DeniedKept ==
  ASSUME LimiterTypeOK, NEW k \in Key, NEW i \in Time, Within(asked[k], i, window + Lag) > limit,
         NEW c \in Int
  PROVE  Within(Append(asked[k], c), i, window + Lag) > limit
<1> DEFINE y == i + (window + Lag)
           m == Cardinality(Span(asked[k], i, y))
           n == Cardinality(Span(Append(asked[k], c), i, y))
<1>1. asked[k] \in Seq(Int) /\ i \in Int /\ y \in Int
  BY LongerTime, LimiterAssumption DEF LimiterTypeOK, Time
<1>2. Within(asked[k], i, window + Lag) = m /\ Within(Append(asked[k], c), i, window + Lag) = n
  BY DEF Within, Span
<1> HIDE DEF y
<1>3. m \in Nat /\ n = IF i <= c /\ c < y THEN m + 1 ELSE m
  BY <1>1, WithinAppend, ZenonT(60)
<1> HIDE DEF m, n
<1> QED
  BY <1>2, <1>3, LimiterAssumption

\* now = time.time()
LEMMA ArriveInv == ASSUME LimiterInv, NEW t \in Thread, NEW k \in Key, Arrive(t, k) PROVE LimiterInv'
<1>0. LimiterTypeOK /\ Waiting /\ Stored
  BY DEF LimiterInv
<1>1. /\ thread[t] = NoCall
      /\ thread' = [thread EXCEPT ![t] = [key |-> k, now |-> clock]]
      /\ asked' = [asked EXCEPT ![k] = Append(@, clock)]
      /\ UNCHANGED <<clock, _buckets, _last_prune, admitted, denied>>
  BY DEF Arrive
<1>2. clock \in Nat /\ clock \in 0 .. clock
  BY <1>0 DEF LimiterTypeOK, Time
<1>3. /\ thread' \in [Thread -> {NoCall} \cup [key : Key, now : 0 .. clock]]
      /\ asked' \in [Key -> Seq(0 .. clock)]
  BY <1>0, <1>1, <1>2 DEF LimiterTypeOK
<1>4. LimiterTypeOK'
  BY <1>0, <1>1, <1>3, SMTT(30) DEF LimiterTypeOK
<1>5. Waiting'
  <2> DEFINE T == {u \in Thread : thread[u] # NoCall}
  <2>1. T' = T \cup {t}
    BY <1>0, <1>1, LimiterAssumption DEF LimiterTypeOK, NoCall
  <2>2. IsFiniteSet(T)
    BY <1>0 DEF Waiting
  <2> HIDE DEF T
  <2>3. IsFiniteSet(T')
    BY <2>1, <2>2, FS_AddElement
  <2>4. \A u \in Thread : thread'[u] # NoCall => clock - thread'[u].now <= Lag
    BY <1>0, <1>1, <1>2, LimiterAssumption DEF LimiterTypeOK, Waiting
  <2> QED
    BY <1>1, <2>3, <2>4, SMTT(30) DEF Waiting, T
<1>6. Stored'
  BY <1>0, <1>1 DEF Stored
<1>7. Admissions'
  <2> SUFFICES ASSUME NEW j \in Key PROVE \E p, q \in Nat, e, b \in Int : Parts(j, p, q, e, b)'
    BY Zenon DEF Admissions
  <2>1. PICK p \in Nat, q \in Nat, e \in Int, b \in Int : Parts(j, p, q, e, b)
    BY Zenon DEF LimiterInv, Admissions
  <2>2. Parts(j, p, q, e, b)'
    BY <1>1, <2>1 DEF Parts
  <2> QED
    BY <2>2, SMTT(30)
<1>8. \A j \in Key, x, y \in Int :
         \/ ToCome(j, x, y)' = ToCome(j, x, y) /\ Came(j, x, y)' = Came(j, x, y)
         \/ ToCome(j, x, y)' = ToCome(j, x, y) + 1 /\ Came(j, x, y)' = Came(j, x, y) + 1
  <2> TAKE j \in Key, x, y \in Int
  <2> QED
    BY <1>0, ArriveCounts, ZenonT(60)
<1>9. Arrivals'
  <2> SUFFICES ASSUME NEW j \in Key, NEW x \in Int, NEW y \in Int
               PROVE  ToCome(j, x, y)' <= Came(j, x, y)'
    BY DEF Arrivals
  <2>1. ToCome(j, x, y) <= Came(j, x, y)
    BY DEF LimiterInv, Arrivals
  <2>2. ToCome(j, x, y) \in Nat /\ Came(j, x, y) \in Nat
    BY <1>0, InAllowFinite, CameFinite, Zenon
  <2>3. \/ ToCome(j, x, y)' = ToCome(j, x, y) /\ Came(j, x, y)' = Came(j, x, y)
        \/ ToCome(j, x, y)' = ToCome(j, x, y) + 1 /\ Came(j, x, y)' = Came(j, x, y) + 1
    BY <1>8, Zenon
  <2> QED
    BY <2>1, <2>2, <2>3
<1>10. Counted'
  <2> SUFFICES ASSUME NEW j \in DOMAIN _buckets, NEW x, x = _buckets[j].window_start - Lag,
                      NEW y, y = _buckets[j].window_start + window
               PROVE  _buckets[j].count + ToCome(j, x, y)' <= Came(j, x, y)'
    BY <1>1 DEF Counted
  <2>0. j \in Key /\ x \in Int /\ y \in Int /\ _buckets[j].count \in Nat
    BY <1>0, LimiterAssumption, SMTT(30) DEF LimiterTypeOK, Stored, Bucketed
  <2>1. _buckets[j].count + ToCome(j, x, y) <= Came(j, x, y)
    BY DEF LimiterInv, Counted
  <2>2. ToCome(j, x, y) \in Nat /\ Came(j, x, y) \in Nat
    BY <1>0, <2>0, InAllowFinite, CameFinite, Zenon
  <2>3. \/ ToCome(j, x, y)' = ToCome(j, x, y) /\ Came(j, x, y)' = Came(j, x, y)
        \/ ToCome(j, x, y)' = ToCome(j, x, y) + 1 /\ Came(j, x, y)' = Came(j, x, y) + 1
    BY <1>8, <2>0, Zenon
  <2> QED
    BY <2>0, <2>1, <2>2, <2>3
<1>11. LimitHolds'
  <2> SUFFICES ASSUME NEW j \in denied PROVE \E i \in Time : Within(asked'[j], i, window + Lag) > limit
    BY <1>1 DEF LimitHolds, LimiterInv
  <2>1. PICK i \in Time : Within(asked[j], i, window + Lag) > limit
    BY DEF LimiterInv, LimitHolds
  <2>2. j \in Key
    BY <1>0 DEF LimiterTypeOK
  <2>3. Within(Append(asked[j], clock), i, window + Lag) > limit
    BY <1>0, <1>2, <2>1, <2>2, DeniedKept, SMTT(30)
  <2>4. asked'[j] = asked[j] \/ asked'[j] = Append(asked[j], clock)
    BY <1>0, <1>1, <2>2, Zenon DEF LimiterTypeOK
  <2> QED
    BY <2>1, <2>3, <2>4, Zenon
<1> QED
  BY <1>4, <1>5, <1>6, <1>7, <1>9, <1>10, <1>11 DEF LimiterInv

\* Time passes.
LEMMA TickInv == LimiterInv /\ Tick => LimiterInv'
<1> SUFFICES ASSUME LimiterInv, Tick PROVE LimiterInv'
  OBVIOUS
<1>0. LimiterTypeOK /\ Waiting /\ Stored
  BY DEF LimiterInv
<1>1. /\ clock < MaxTime /\ clock' = clock + 1
      /\ \A t \in Thread : thread[t] # NoCall => clock - thread[t].now < Lag
      /\ UNCHANGED <<_buckets, _last_prune, thread, asked, admitted, denied>>
  BY DEF Tick
<1>2. clock \in Nat /\ clock' \in Time
  BY <1>0, <1>1, LimiterAssumption DEF LimiterTypeOK, Time
<1>3. 0 .. clock \subseteq 0 .. clock'
  BY <1>1, <1>2
<1>4. ASSUME NEW s \in Seq(0 .. clock) PROVE s \in Seq(0 .. clock')
  <2> DEFINE T == 0 .. clock'
  <2>1. 0 .. clock \subseteq T
    BY <1>3
  <2> HIDE DEF T
  <2>2. s \in Seq(T)
    BY <1>2, <1>4, <2>1, LongerTime
  <2> QED
    BY <2>2 DEF T
<1>5. /\ thread' \in [Thread -> {NoCall} \cup [key : Key, now : 0 .. clock']]
      /\ asked' \in [Key -> Seq(0 .. clock')] /\ admitted' \in [Key -> Seq(0 .. clock')]
  BY <1>0, <1>1, <1>3, <1>4 DEF LimiterTypeOK
<1>6. LimiterTypeOK'
  BY <1>0, <1>1, <1>2, <1>3, <1>5 DEF LimiterTypeOK
<1>7. Waiting'
  <2>1. \A t \in Thread : thread[t] # NoCall => thread[t].now \in Nat
    BY <1>0 DEF LimiterTypeOK
  <2> QED
    BY <1>0, <1>1, <1>2, <2>1, LimiterAssumption DEF Waiting
<1>8. Stored'
  BY <1>0, <1>1, <1>2 DEF Stored, Bucketed
<1>9. Admissions'
  <2> SUFFICES ASSUME NEW k \in Key PROVE \E p, q \in Nat, e, b \in Int : Parts(k, p, q, e, b)'
    BY DEF Admissions
  <2>1. PICK p \in Nat, q \in Nat, e \in Int, b \in Int : Parts(k, p, q, e, b)
    BY Zenon DEF LimiterInv, Admissions
  <2>2. Parts(k, p, q, e, b)'
    BY <1>1, <1>2, <2>1, LimiterAssumption DEF Parts, Split
  <2> QED
    BY <2>2
<1>10. Arrivals' /\ Counted'
  BY <1>1, Zenon DEF LimiterInv, Arrivals, Counted, ToCome, Came, InAllow
<1>11. LimitHolds'
  BY <1>1 DEF LimiterInv, LimitHolds
<1> QED
  BY <1>6, <1>7, <1>8, <1>9, <1>10, <1>11 DEF LimiterInv

\* What allow() leaves in the table: the client's bucket, which is never pruned, and of
\* the others those that it keeps as they are; one that it drops has run out.
LEMMA AllowBuckets ==
  ASSUME LimiterInv, NEW t \in Thread, allow(t), NEW k, k = thread[t].key, NEW now, now = thread[t].now
  PROVE  /\ k \in Key /\ now \in 0 .. clock /\ clock - now <= Lag
         /\ Bucket(k, now) \in Bucketed /\ Bucket(k, now).window_start <= clock
         /\ now - Bucket(k, now).window_start < window
         /\ _buckets' \in [DOMAIN _buckets' -> Bucketed]
         /\ DOMAIN _buckets' \subseteq DOMAIN _buckets \cup {k}
         /\ k \in DOMAIN _buckets' /\ _buckets'[k] = Bucket(k, now)
         /\ \A j \in DOMAIN _buckets' : j # k => _buckets'[j] = _buckets[j]
         /\ \A j \in DOMAIN _buckets \ DOMAIN _buckets' : now - _buckets[j].window_start >= window
         /\ _last_prune' \in {_last_prune, now}
         /\ _last_prune' # _last_prune => \A j \in DOMAIN _buckets' : now - _buckets'[j].window_start < window
<1> DEFINE b == Bucket(k, now)
           stored == [j \in DOMAIN _buckets \cup {k} |-> IF j = k THEN b ELSE _buckets[j]]
           due == now - _last_prune >= window
<1>0. LimiterTypeOK /\ Waiting /\ Stored
  BY ZenonT(60) DEF LimiterInv
<1>1. /\ thread[t] # NoCall
      /\ _buckets' = IF due THEN _prune(stored, now) ELSE stored
      /\ _last_prune' = IF due THEN now ELSE _last_prune
  BY DEF allow
<1>2. k \in Key /\ now \in 0 .. clock /\ clock - now <= Lag /\ clock \in Nat /\ now \in Nat
  BY <1>0, <1>1 DEF LimiterTypeOK, Waiting, Time
<1>3. b \in Bucketed /\ b.window_start <= clock /\ now - b.window_start < window
  <2>1. CASE k \in DOMAIN _buckets /\ now - _buckets[k].window_start < window
    <3>1. _buckets[k] \in Bucketed /\ _buckets[k].window_start <= clock
      BY <1>0, <2>1 DEF Stored
    <3>2. b = [_buckets[k] EXCEPT !.count = _buckets[k].count + 1]
      BY <2>1 DEF Bucket
    <3> QED
      BY <2>1, <3>1, <3>2 DEF Bucketed
  <2>2. CASE ~(k \in DOMAIN _buckets /\ now - _buckets[k].window_start < window)
    BY <1>2, <2>2, LimiterAssumption DEF Bucket, Bucketed
  <2> QED
    BY <2>1, <2>2
<1> HIDE DEF b
<1>4. stored \in [DOMAIN _buckets \cup {k} -> Bucketed]
  BY <1>0, <1>3, Zenon DEF Stored
<1>5. CASE due
  <2> DEFINE D == {j \in DOMAIN stored : now - stored[j].window_start < window}
  <2>1. _buckets' = [j \in D |-> stored[j]] /\ DOMAIN _buckets' = D
    BY <1>1, <1>5 DEF _prune, Restrict
  <2>2. D \subseteq DOMAIN _buckets \cup {k} /\ k \in D
    BY <1>3
  <2>3. \A j \in D : stored[j] \in Bucketed
    BY <1>4
  <2>4. \A j \in D : j # k => stored[j] = _buckets[j]
    BY <2>2
  <2>5. \A j \in DOMAIN _buckets \ D : now - _buckets[j].window_start >= window
    <3> SUFFICES ASSUME NEW j \in DOMAIN _buckets, ~(now - _buckets[j].window_start >= window) PROVE j \in D
      OBVIOUS
    <3>1. j # k => stored[j] = _buckets[j] /\ _buckets[j].window_start \in Nat
      BY <1>0 DEF Stored, Bucketed
    <3> QED
      BY <1>2, <2>2, <3>1, LimiterAssumption
  <2>6. stored[k] = b
    OBVIOUS
  <2>7. _last_prune' = now
    BY <1>1, <1>5
  <2>8. \A j \in D : now - stored[j].window_start < window
    BY Zenon
  <2> HIDE DEF D, stored
  <2> QED
    BY <1>2, <1>3, <2>1, <2>2, <2>3, <2>4, <2>5, <2>6, <2>7, <2>8, ZenonT(60) DEF b
<1>6. CASE ~due
  <2>1. _buckets' = stored /\ _last_prune' = _last_prune
    BY <1>1, <1>6
  <2> QED
    BY <1>2, <1>3, <1>4, <2>1 DEF b
<1> QED
  BY <1>5, <1>6

\* The parts of the history of a client whose request is counted.
LEMMA AllowParts ==
  ASSUME LimiterInv, NEW t \in Thread, allow(t), NEW k, k = thread[t].key
  PROVE  \E p, q \in Nat, e, b \in Int : Parts(k, p, q, e, b)'
<1> DEFINE now == thread[t].now
           B == Bucket(k, now)
           s == admitted[k]
           W == window - Lag
<1>0. LimiterTypeOK /\ Waiting /\ Stored
  BY DEF LimiterInv
<1>1. /\ k \in Key /\ now \in 0 .. clock /\ clock - now <= Lag
      /\ B \in Bucketed /\ now - B.window_start < window
      /\ k \in DOMAIN _buckets' /\ _buckets'[k] = B
  BY AllowBuckets, SMTT(30)
<1>2. /\ UNCHANGED clock
      /\ \/ B.count <= limit /\ admitted' = [admitted EXCEPT ![k] = Append(@, clock)]
         \/ B.count > limit /\ admitted' = admitted
  BY Zenon DEF allow
<1>3. s \in Seq(0 .. clock) /\ clock \in Nat /\ Len(s) \in Nat /\ \A j \in 1 .. Len(s) : s[j] \in 0 .. clock
  BY <1>0, <1>1, SMTT(30) DEF LimiterTypeOK, Time
<1>4. \/ B.count <= limit /\ admitted'[k] = Append(s, clock)
      \/ B.count > limit /\ admitted'[k] = s
  BY <1>0, <1>1, <1>2 DEF LimiterTypeOK
<1>5. PICK p \in Nat, q \in Nat, e \in Int, b \in Int : Parts(k, p, q, e, b)
  BY <1>1, Zenon DEF LimiterInv, Admissions
<1>6. s \in Seq(Int) /\ now \in Int /\ B.count \in Nat \ {0}
  BY <1>1, <1>3, LongerTime DEF Bucketed
<1>7. Split(s, clock, p, q, e, b)
  BY <1>5 DEF Parts
<1>8. CASE k \in DOMAIN _buckets /\ now - _buckets[k].window_start < window
  <2>1. /\ B.window_start = b
        /\ B.count = _buckets[k].count + 1
        /\ Len(s) - q = IF _buckets[k].count <= limit THEN _buckets[k].count ELSE limit
        /\ _buckets[k].count \in Nat
    BY <1>0, <1>5, <1>8 DEF Bucket, Parts, Stored, Bucketed
  <2> HIDE DEF B, s, now
  <2>2. CASE B.count <= limit
    <3>1. Len(s) - q < limit /\ Len(s) + 1 - q = B.count
      BY <1>3, <2>1, <2>2, LimiterAssumption, SMTT(30)
    <3>2. admitted'[k] = Append(s, clock) /\ Len(Append(s, clock)) = Len(s) + 1
      BY <1>3, <1>4, <1>6, <2>2, LimiterAssumption
    <3>3. Split(Append(s, clock), clock, p, q, e, b)
      BY <1>3, <1>6, <1>7, <3>1, SplitGrows, SMTT(30)
    <3>4. Parts(k, p, q, e, b)'
      BY <1>1, <1>2, <2>1, <2>2, <3>1, <3>2, <3>3, SMTT(30) DEF Parts, s
    <3> QED
      BY <3>4, Zenon
  <2>3. CASE B.count > limit
    <3>1. Len(s) - q = limit /\ ~(B.count <= limit)
      BY <1>3, <1>6, <2>1, <2>3, LimiterAssumption, SMTT(30)
    <3>2. admitted'[k] = s
      BY <1>4, <3>1, SMTT(30)
    <3>3. Parts(k, p, q, e, b)'
      BY <1>1, <1>2, <1>7, <2>1, <3>1, <3>2 DEF Parts, s
    <3> QED
      BY <3>3
  <2> QED
    BY <1>6, <2>2, <2>3, LimiterAssumption
<1>9. CASE ~(k \in DOMAIN _buckets /\ now - _buckets[k].window_start < window)
  <2>1. B.window_start = now /\ B.count = 1
    BY <1>9 DEF Bucket
  <2>2. clock >= b + window
    <3>1. CASE k \in DOMAIN _buckets
      <4>1. b = _buckets[k].window_start /\ b \in Nat /\ ~(now - b < window)
        BY <1>0, <1>5, <1>9, <3>1, Zenon DEF Parts, Stored, Bucketed
      <4> QED
        <5>1. now \in Int /\ now <= clock /\ clock \in Int /\ window \in Int
          BY <1>1, <1>3, LimiterAssumption
        <5> HIDE DEF now
        <5> QED
          BY <4>1, <5>1
    <3>2. CASE k \notin DOMAIN _buckets
      BY <1>5, <3>2, ZenonT(60) DEF Parts
    <3> QED
      BY <3>1, <3>2
  <2>3. admitted'[k] = Append(s, clock) /\ Len(Append(s, clock)) = Len(s) + 1
    BY <1>3, <1>4, <1>6, <2>1, LimiterAssumption
  <2> HIDE DEF B, s, now
  <2>4. PICK m \in Int : m = now
    BY <1>6
  <2>5. PICK n \in Nat : n = Len(s)
    BY <1>3
  <2>6. Split(Append(s, clock), clock, q, n, b + Lag, m)
    <3>1. (\A j \in 1 .. Len(s) : s[j] <= clock) /\ clock \in Int /\ clock - m <= Lag
      BY <1>1, <1>3, <2>4
    <3> QED
      BY <1>6, <1>7, <2>2, <2>5, <3>1, SplitShifts
  <2>7. Len(Append(s, clock)) - n = 1 /\ b + Lag \in Int
    BY <2>3, <2>5, LimiterAssumption
  <2>8. PICK f \in Int : f = b + Lag
    BY <2>7, ZenonT(60)
  <2>9. Parts(k, q, n, f, m)'
    BY <1>1, <1>2, <2>1, <2>3, <2>4, <2>6, <2>7, <2>8, LimiterAssumption DEF Parts, s
  <2> QED
    BY <2>9, SMTT(30)
<1> QED
  BY <1>8, <1>9, Zenon

\* The parts of the history bound what any span sees.
LEMMA AdmissionsGiveLimit == Admissions /\ LimiterTypeOK => TwoLimits
<1> SUFFICES ASSUME Admissions, LimiterTypeOK, NEW j \in Key, NEW i \in Time
             PROVE  Within(admitted[j], i, window - Lag) <= 2 * limit
  BY DEF TwoLimits
<1>1. PICK p \in Nat, q \in Nat, e \in Int, b \in Int : Split(admitted[j], clock, p, q, e, b)
  BY Zenon DEF Admissions, Parts
<1>2. admitted[j] \in Seq(Int) /\ clock \in Int /\ i \in Int
  BY LongerTime DEF LimiterTypeOK, Time
<1> QED
  BY <1>1, <1>2, SplitGivesLimit

\* The requests counted in a client's bucket came in its window, stretched by the lag.
LEMMA AllowCounted == ASSUME LimiterInv, NEW t \in Thread, allow(t) PROVE Arrivals' /\ Counted'
<1>0. LimiterTypeOK /\ Waiting /\ Stored
  BY DEF LimiterInv
<1>1. PICK k1, now1 : k1 = thread[t].key /\ now1 = thread[t].now
  OBVIOUS
<1>2. /\ k1 \in Key /\ now1 \in 0 .. clock /\ clock - now1 <= Lag /\ now1 \in Int /\ clock \in Nat
      /\ DOMAIN _buckets' \subseteq DOMAIN _buckets \cup {k1}
      /\ k1 \in DOMAIN _buckets' /\ _buckets'[k1] = Bucket(k1, now1)
      /\ \A j \in DOMAIN _buckets' : j # k1 => _buckets'[j] = _buckets[j]
  <2>1. clock \in Nat /\ \A n \in 0 .. clock : n \in Int
    BY <1>0 DEF LimiterTypeOK, Time
  <2> QED
    BY <1>1, <2>1, AllowBuckets
<1>3. UNCHANGED <<asked, clock>>
  BY DEF allow
<1>4. \A j : \A x, y \in Int : Came(j, x, y)' = Came(j, x, y)
  BY <1>3 DEF Came
<1>5. ASSUME NEW x \in Int, NEW y \in Int
      PROVE  /\ x <= now1 /\ now1 < y => ToCome(k1, x, y)' = ToCome(k1, x, y) - 1
             /\ ~(x <= now1 /\ now1 < y) => ToCome(k1, x, y)' = ToCome(k1, x, y)
             /\ \A j \in Key : j # k1 => ToCome(j, x, y)' = ToCome(j, x, y)
  BY <1>0, <1>1, AllowCounts
<1>6. ASSUME NEW j \in Key, NEW x \in Int, NEW y \in Int
      PROVE  ToCome(j, x, y) \in Nat /\ Came(j, x, y) \in Nat /\ ToCome(j, x, y) <= Came(j, x, y)
  BY <1>0, InAllowFinite, CameFinite, Zenon DEF LimiterInv, Arrivals
<1>8. Arrivals'
  <2> SUFFICES ASSUME NEW j \in Key, NEW x \in Int, NEW y \in Int
               PROVE  ToCome(j, x, y)' <= Came(j, x, y)'
    BY DEF Arrivals
  <2>1. ToCome(j, x, y)' = ToCome(j, x, y) - 1 \/ ToCome(j, x, y)' = ToCome(j, x, y)
    <3>1. CASE j = k1
      BY <1>5, <3>1
    <3>2. CASE j # k1
      BY <1>5, <3>2
    <3> QED
      BY <3>1, <3>2
  <2> QED
    BY <1>4, <1>6, <2>1
<1>9. Counted'
  <2> SUFFICES ASSUME NEW j \in DOMAIN _buckets', NEW x, x = _buckets'[j].window_start - Lag,
                      NEW y, y = _buckets'[j].window_start + window
               PROVE  _buckets'[j].count + ToCome(j, x, y)' <= Came(j, x, y)'
    BY DEF Counted
  <2>0. _buckets' \in [DOMAIN _buckets' -> Bucketed]
    BY AllowBuckets
  <2>1. j \in Key /\ x \in Int /\ y \in Int /\ _buckets'[j].count \in Nat /\ _buckets'[j].window_start \in Nat
    <3>1. j \in Key
      BY <1>0, <1>2 DEF LimiterTypeOK
    <3>2. _buckets'[j].count \in Nat /\ _buckets'[j].window_start \in Nat
      BY <2>0 DEF Bucketed
    <3> QED
      BY <3>1, <3>2, LimiterAssumption
  <2>2. CASE j # k1
    <3>1. j \in DOMAIN _buckets /\ _buckets'[j] = _buckets[j]
      BY <1>2, <2>2, Zenon
    <3>2. _buckets[j].count + ToCome(j, x, y) <= Came(j, x, y)
      BY <3>1, Zenon DEF LimiterInv, Counted
    <3>3. ToCome(j, x, y)' = ToCome(j, x, y) /\ Came(j, x, y)' = Came(j, x, y)
      BY <1>4, <1>5, <2>1, <2>2, ZenonT(60)
    <3> QED
      BY <3>1, <3>2, <3>3
  <2>3. CASE j = k1 /\ k1 \in DOMAIN _buckets /\ now1 - _buckets[k1].window_start < window
    <3>1. /\ _buckets'[j].window_start = _buckets[k1].window_start
          /\ _buckets'[j].count = _buckets[k1].count + 1
          /\ _buckets[k1].count \in Nat /\ _buckets[k1].window_start \in Nat
          /\ _buckets[k1].window_start <= clock
      BY <1>0, <1>2, <2>3, Zenon DEF Bucket, Stored, Bucketed
    <3>2. _buckets[k1].count + ToCome(j, x, y) <= Came(j, x, y)
      BY <2>3, <3>1 DEF LimiterInv, Counted
    <3>3. x <= now1 /\ now1 < y
      BY <1>2, <2>3, <3>1, LimiterAssumption
    <3>4. ToCome(j, x, y)' = ToCome(j, x, y) - 1 /\ Came(j, x, y)' = Came(j, x, y)
      BY <1>4, <1>5, <2>1, <2>3, <3>3
    <3>5. ToCome(j, x, y) \in Nat /\ Came(j, x, y) \in Nat
      BY <1>6, <2>1
    <3> QED
      BY <3>1, <3>2, <3>4, <3>5
  <2>4. CASE j = k1 /\ ~(k1 \in DOMAIN _buckets /\ now1 - _buckets[k1].window_start < window)
    <3>1. _buckets'[j].window_start = now1 /\ _buckets'[j].count = 1
      BY <1>2, <2>4 DEF Bucket
    <3>2. x <= now1 /\ now1 < y
      BY <1>2, <3>1, LimiterAssumption
    <3>3. ToCome(j, x, y)' = ToCome(j, x, y) - 1 /\ Came(j, x, y)' = Came(j, x, y)
      BY <1>4, <1>5, <2>1, <2>4, <3>2
    <3>4. ToCome(j, x, y) \in Nat /\ Came(j, x, y) \in Nat /\ ToCome(j, x, y) <= Came(j, x, y)
      BY <1>6, <2>1
    <3> QED
      BY <3>1, <3>3, <3>4
  <2> QED
    BY <2>2, <2>3, <2>4, Zenon
<1> QED
  BY <1>8, <1>9

\* A request is turned down only when its bucket holds more than the limit, and these
\* came in the window of the bucket, stretched by the lag.
LEMMA OverLimit == LimiterTypeOK /\ Waiting /\ Stored /\ Counted => FullWithReason
<1> SUFFICES ASSUME LimiterTypeOK, Waiting, Stored, Counted,
                    NEW k \in DOMAIN _buckets, _buckets[k].count > limit
             PROVE  \E i \in Time : Within(asked[k], i, window + Lag) > limit
  BY DEF FullWithReason
<1> DEFINE b == _buckets[k]
           x == b.window_start - Lag
           y == b.window_start + window
           s == asked[k]
           i == IF x < 0 THEN 0 ELSE x
           T == {j \in DOMAIN s : i <= s[j] /\ s[j] < i + (window + Lag)}
<1>1. k \in Key /\ b \in Bucketed /\ b.window_start <= clock /\ clock \in Time
  BY DEF LimiterTypeOK, Stored
<1>2. b.window_start \in Nat /\ b.count \in Nat /\ x \in Int /\ y \in Int
  BY <1>1, LimiterAssumption DEF Bucketed
<1>3. s \in Seq(0 .. clock) /\ Len(s) \in Nat /\ DOMAIN s = 1 .. Len(s) /\ (\A j \in DOMAIN s : s[j] \in Nat)
  BY <1>1 DEF LimiterTypeOK, Time
<1>4. b.count + ToCome(k, x, y) <= Came(k, x, y)
  BY DEF Counted
<1>5. ToCome(k, x, y) \in Nat /\ Came(k, x, y) \in Nat /\ Came(k, x, y) = Cardinality(Span(s, x, y))
  BY <1>1, <1>2, InAllowFinite, CameFinite, Zenon DEF Came
<1>6. i \in Time
  BY <1>1, <1>2, LimiterAssumption DEF Time
<1>7. Span(s, x, y) \subseteq T
  <2>1. /\ i \in Int /\ x <= i /\ (i = x \/ i = 0) /\ y = x + (window + Lag)
        /\ window \in Nat /\ Lag \in Nat
    BY <1>2, LimiterAssumption
  <2>2. \A v \in Nat : x <= v /\ v < y => i <= v /\ v < i + (window + Lag)
    <3> HIDE DEF i, x, y
    <3> QED
      BY <1>2, <2>1
  <2> QED
    BY <1>3, <2>2, Zenon DEF Span
<1>8. \A j \in T : j \in Nat /\ 0 < j /\ j <= Len(s)
  BY <1>3
<1>9. Within(s, i, window + Lag) = Cardinality(T)
  BY DEF Within
<1> HIDE DEF T, b, x, y, i, s
<1>10. IsFiniteSet(T) /\ Cardinality(T) \in Nat
  BY <1>3, <1>8, SegmentSize
<1>11. Cardinality(Span(s, x, y)) <= Cardinality(T)
  BY <1>7, <1>10, FS_Subset
<1>12. Cardinality(T) > limit
  BY <1>2, <1>4, <1>5, <1>10, <1>11, LimiterAssumption DEF b
<1> QED
  BY <1>6, <1>9, <1>12 DEF s

\* allow() under the lock
LEMMA AllowInv == ASSUME LimiterInv, NEW t \in Thread, allow(t) PROVE LimiterInv'
<1>0. LimiterTypeOK /\ Waiting /\ Stored
  BY DEF LimiterInv
<1>1. PICK k1, now1 : k1 = thread[t].key /\ now1 = thread[t].now
  OBVIOUS
<1>2. /\ k1 \in Key /\ now1 \in 0 .. clock /\ clock \in Nat
      /\ DOMAIN _buckets' \subseteq DOMAIN _buckets \cup {k1}
      /\ k1 \in DOMAIN _buckets' /\ _buckets'[k1] = Bucket(k1, now1)
      /\ Bucket(k1, now1) \in Bucketed /\ Bucket(k1, now1).window_start <= clock
      /\ \A j \in DOMAIN _buckets' : j # k1 => _buckets'[j] = _buckets[j]
      /\ \A j \in DOMAIN _buckets \ DOMAIN _buckets' : now1 - _buckets[j].window_start >= window
      /\ _buckets' \in [DOMAIN _buckets' -> Bucketed]
      /\ _last_prune' \in {_last_prune, now1}
  <2>1. clock \in Nat
    BY <1>0 DEF LimiterTypeOK, Time
  <2> QED
    BY <1>1, <2>1, AllowBuckets
<1>3. /\ UNCHANGED <<asked, clock>>
      /\ thread' = [thread EXCEPT ![t] = NoCall]
      /\ \/ admitted' = [admitted EXCEPT ![k1] = Append(@, clock)] /\ denied' = denied
         \/ /\ admitted' = admitted /\ denied' = denied \cup {k1}
            /\ Bucket(k1, now1).count > limit
  BY <1>1 DEF allow
<1>4. \A j \in DOMAIN _buckets' : _buckets'[j].window_start \in 0 .. clock /\ _buckets'[j].count \in Nat \ {0}
  <2> SUFFICES ASSUME NEW j \in DOMAIN _buckets'
               PROVE  _buckets'[j].window_start \in 0 .. clock /\ _buckets'[j].count \in Nat \ {0}
    OBVIOUS
  <2>1. CASE j = k1
    BY <1>2, <2>1 DEF Bucketed
  <2>2. CASE j # k1
    BY <1>0, <1>2, <2>2, Zenon DEF LimiterTypeOK
  <2> QED
    BY <2>1, <2>2
<1>5. thread' \in [Thread -> {NoCall} \cup [key : Key, now : 0 .. clock]]
  BY <1>0, <1>3 DEF LimiterTypeOK
<1>6. admitted' \in [Key -> Seq(0 .. clock)]
  <2>1. admitted \in [Key -> Seq(0 .. clock)] /\ clock \in 0 .. clock
    BY <1>0, <1>2 DEF LimiterTypeOK
  <2>2. Append(admitted[k1], clock) \in Seq(0 .. clock)
    BY <1>2, <2>1
  <2> QED
    BY <1>2, <1>3, <2>1, <2>2, Zenon
<1>7. LimiterTypeOK'
  BY <1>0, <1>2, <1>3, <1>4, <1>5, <1>6, Zenon DEF LimiterTypeOK
<1>8. Waiting'
  <2> DEFINE T == {u \in Thread : thread[u] # NoCall}
  <2>1. thread' = [thread EXCEPT ![t] = NoCall]
    BY Zenon DEF allow
  <2>2. T' \subseteq T /\ IsFiniteSet(T)
    BY <1>0, <2>1 DEF LimiterTypeOK, Waiting
  <2> HIDE DEF T
  <2>3. IsFiniteSet(T')
    BY <2>2, FS_Subset, Zenon
  <2>4. \A u \in Thread : thread'[u] # NoCall => clock - thread'[u].now <= Lag
    BY <1>0, <2>1 DEF LimiterTypeOK, Waiting
  <2> QED
    BY <1>3, <2>3, <2>4, Zenon DEF Waiting, T
<1>9. Stored'
  BY <1>2, <1>3, <1>4 DEF Stored
<1>10. Arrivals' /\ Counted'
  BY AllowCounted
<1>11. Admissions'
  <2> SUFFICES ASSUME NEW j \in Key PROVE \E p, q \in Nat, e, b \in Int : Parts(j, p, q, e, b)'
    BY DEF Admissions
  <2>1. CASE j = k1
    BY <1>1, <2>1, AllowParts, Zenon
  <2>2. CASE j # k1
    <3>1. PICK p \in Nat, q \in Nat, e \in Int, b \in Int : Parts(j, p, q, e, b)
      BY DEF LimiterInv, Admissions
    <3>2. admitted'[j] = admitted[j]
      BY <1>0, <1>2, <1>3, <2>2 DEF LimiterTypeOK
    <3>3. CASE j \in DOMAIN _buckets'
      <4>1. j \in DOMAIN _buckets /\ _buckets'[j] = _buckets[j]
        BY <1>2, <2>2, <3>3, ZenonT(60)
      <4>2. Parts(j, p, q, e, b)'
        BY <1>3, <3>1, <3>2, <3>3, <4>1 DEF Parts
      <4> QED
        BY <4>2
    <3>4. CASE j \notin DOMAIN _buckets'
      <4>1. clock >= b + window
        <5>1. CASE j \in DOMAIN _buckets
          <6>1. b = _buckets[j].window_start
            BY <3>1, <5>1 DEF Parts
          <6>2. now1 - _buckets[j].window_start >= window
            BY <1>2, <3>4, <5>1, Zenon
          <6>3. now1 \in Int /\ now1 <= clock /\ clock \in Int /\ window \in Int
            BY <1>2, LimiterAssumption
          <6> QED
            BY <6>1, <6>2, <6>3
        <5>2. CASE j \notin DOMAIN _buckets
          BY <3>1, <5>2, Zenon DEF Parts
        <5> QED
          BY <5>1, <5>2
      <4>2. Parts(j, p, q, e, b)'
        BY <1>3, <3>1, <3>2, <3>4, <4>1, Zenon DEF Parts
      <4> QED
        BY <4>2
    <3> QED
      BY <3>3, <3>4
  <2> QED
    BY <2>1, <2>2
<1>12. LimitHolds'
  <2>1. (Admissions /\ LimiterTypeOK => TwoLimits)'
    BY AdmissionsGiveLimit, PTL
  <2>2. (LimiterTypeOK /\ Waiting /\ Stored /\ Counted => FullWithReason)'
    BY OverLimit, PTL
  <2>3. \A j \in DOMAIN _buckets' :
           _buckets'[j].count > limit => \E i \in Time : Within(asked'[j], i, window + Lag) > limit
    BY <1>7, <1>8, <1>9, <1>10, <2>2 DEF FullWithReason
  <2>4. ASSUME NEW j \in denied' PROVE \E i \in Time : Within(asked'[j], i, window + Lag) > limit
    <3>1. CASE j \in denied
      BY <1>3, <3>1 DEF LimiterInv, LimitHolds
    <3>2. CASE j \notin denied
      <4>1. j = k1 /\ Bucket(k1, now1).count > limit
        BY <1>3, <2>4, <3>2
      <4> QED
        BY <1>2, <2>3, <4>1
    <3> QED
      BY <3>1, <3>2, Zenon
  <2> QED
    BY <1>7, <1>11, <2>1, <2>4 DEF LimitHolds, TwoLimits
<1> QED
  BY <1>7, <1>8, <1>9, <1>10, <1>11, <1>12 DEF LimiterInv

\* Every step keeps the invariant.
LEMMA LimiterNextInv == LimiterInv /\ [LimiterNext]_limiterVars => LimiterInv'
<1> SUFFICES ASSUME LimiterInv, [LimiterNext]_limiterVars PROVE LimiterInv'
  BY ZenonT(60)
<1>1. CASE UNCHANGED limiterVars
  <2>1. UNCHANGED <<clock, _buckets, _last_prune, thread, asked, admitted, denied>>
    BY <1>1 DEF limiterVars
  <2>2. Admissions'
    BY <2>1, ZenonT(60) DEF LimiterInv, Admissions, Parts
  <2> QED
    BY <2>1, <2>2 DEF LimiterInv, LimiterTypeOK, Waiting, Stored, Arrivals, Counted, ToCome, Came, InAllow, LimitHolds
<1> QED
  BY <1>1, TickInv, AllowInv, ArriveInv DEF LimiterNext

\* The invariant holds throughout.
LEMMA LimiterInvariant == LimiterSpec => []LimiterInv
  BY LimiterInitInv, LimiterNextInv, PTL DEF LimiterSpec

-----------------------------------------------------------------------------
\* No span of a window, less the time threads may wait for the lock, sees more than two
\* limits let through, and a client is turned down only for requests of its own, whatever
\* the limit, the window and the order in which threads get the lock.
THEOREM LimitAlways == LimiterSpec => []LimitHolds
<1>1. LimiterInv => LimitHolds
  BY DEF LimiterInv
<1> QED
  BY <1>1, LimiterInvariant, PTL

\* The table of buckets is pruned of everything that is a window old, provided that no
\* thread waits for the lock as long as a window.
THEOREM BucketsRecentAlways ==
  ASSUME Lag < window
  PROVE  LimiterSpec => []BucketsRecent
<1> DEFINE Recent == \A k \in DOMAIN _buckets : _buckets[k].window_start > _last_prune - window
<1>1. LimiterInit => Recent
  BY SMTT(30) DEF LimiterInit
<1>2. ASSUME LimiterInv, Recent, [LimiterNext]_limiterVars PROVE Recent'
  <2>1. CASE UNCHANGED <<_buckets, _last_prune>>
    BY <1>2, <2>1
  <2>2. ASSUME NEW t \in Thread, allow(t) PROVE Recent'
    <3>1. PICK k1, now1 : k1 = thread[t].key /\ now1 = thread[t].now
      OBVIOUS
    <3>2. /\ k1 \in Key /\ now1 \in 0 .. clock /\ clock - now1 <= Lag
          /\ k1 \in DOMAIN _buckets' /\ _buckets'[k1] = Bucket(k1, now1)
          /\ DOMAIN _buckets' \subseteq DOMAIN _buckets \cup {k1}
          /\ Bucket(k1, now1) \in Bucketed
          /\ \A j \in DOMAIN _buckets' : j # k1 => _buckets'[j] = _buckets[j]
          /\ _buckets' \in [DOMAIN _buckets' -> Bucketed]
          /\ _last_prune' \in {_last_prune, now1}
          /\ _last_prune' # _last_prune => \A j \in DOMAIN _buckets' : now1 - _buckets'[j].window_start < window
      BY <1>2, <2>2, <3>1, AllowBuckets
    <3>3. now1 \in Nat /\ _last_prune \in 0 .. clock /\ clock \in Nat
      BY <1>2, <3>2 DEF LimiterInv, LimiterTypeOK, Time
    <3> SUFFICES ASSUME NEW j \in DOMAIN _buckets' PROVE _buckets'[j].window_start > _last_prune' - window
      OBVIOUS
    <3>4. _buckets'[j].window_start \in Nat
      BY <3>2 DEF Bucketed
    <3>5. CASE _last_prune' # _last_prune
      BY <3>2, <3>3, <3>4, <3>5, LimiterAssumption
    <3>6. CASE _last_prune' = _last_prune /\ j # k1
      BY <1>2, <3>2, <3>6
    <3>7. CASE _last_prune' = _last_prune /\ j = k1
      <4>1. \/ k1 \in DOMAIN _buckets /\ _buckets'[k1].window_start = _buckets[k1].window_start
            \/ _buckets'[k1].window_start = now1
        <5>1. CASE k1 \in DOMAIN _buckets /\ now1 - _buckets[k1].window_start < window
          <6>1. _buckets[k1] \in Bucketed
            BY <1>2, <5>1 DEF LimiterInv, Stored
          <6>2. [_buckets[k1] EXCEPT !.count = @ + 1].window_start = _buckets[k1].window_start
            BY <6>1 DEF Bucketed
          <6> QED
            BY <3>2, <5>1, <6>2 DEF Bucket
        <5>2. CASE ~(k1 \in DOMAIN _buckets /\ now1 - _buckets[k1].window_start < window)
          BY <3>2, <5>2 DEF Bucket
        <5> QED
          BY <5>1, <5>2
      <4>2. now1 > _last_prune - window
        BY <3>2, <3>3, LimiterAssumption
      <4> QED
        BY <1>2, <3>7, <4>1, <4>2
    <3> QED
      BY <3>5, <3>6, <3>7
  <2> QED
    BY <1>2, <2>1, <2>2, Zenon DEF LimiterNext, limiterVars, Tick, Arrive
<1>3. LimiterInv /\ Recent => BucketsRecent
  BY DEF LimiterInv, BucketsRecent
<1> HIDE DEF Recent
<1> QED
  BY <1>1, <1>2, <1>3, LimiterInvariant, PTL DEF LimiterSpec

-----------------------------------------------------------------------------
(* ProcessWatch                                                              *)
\* A slot of the table.
Entry == [count : 0 .. MaxCount, owner : Proc]

\* A table is a function, and its entries together with the numbers that a check
\* has yet to look at fit into the slots: all of them came from one list.
WatchSlots ==
    /\ IsFiniteSet(listed) /\ Cardinality(listed) <= AC_MAX_PROTS
    /\ table \in [DOMAIN table -> Entry]
    /\ IsFiniteSet(DOMAIN table \cup pl)
    /\ Cardinality(DOMAIN table \cup pl) <= AC_MAX_PROTS

\* No two running processes have the same number; only running ones are listed.
Numbers ==
    /\ \A p \in Proc : life[p] = "running" => pidof[p] \in Pid
    /\ \A p, q \in Proc : life[p] = "running" /\ life[q] = "running" /\ pidof[p] = pidof[q] => p = q
    /\ \A p \in listed : life[p] = "running"

\* A process that was warned of since it was registered is marked, unless it is no
\* longer registered; then the check that is under way does not get to it.
Marks ==
    \A p \in Proc :
        /\ warned[p] # "twice"
        /\ life[p] = "unborn" => warned[p] = "never"
        /\ warned[p] = "once" /\ life[p] = "running" =>
             \/ Known(pidof[p])
             \/ p \notin listed /\ pidof[p] \notin pl

\* The inductive invariant of ProcessWatch.
WatchInv == WatchTypeOK /\ WatchSlots /\ Numbers /\ Marks

-----------------------------------------------------------------------------
\* A subset of a finite set is finite and no larger.
LEMMA SmallerSet ==
  ASSUME NEW S, NEW T, IsFiniteSet(S), T \subseteq S
  PROVE  /\ IsFiniteSet(T) /\ Cardinality(T) \in Nat /\ Cardinality(S) \in Nat
         /\ Cardinality(T) <= Cardinality(S)
  BY FS_Subset, FS_CardinalityType

\* A set that can be mapped onto another one is not smaller (the numbers of the
\* registered processes).
LEMMA ImageSize ==
  ASSUME NEW S \in SUBSET Proc, IsFiniteSet(S), pidof \in [Proc -> Pid \cup {NULL}]
  PROVE  /\ IsFiniteSet({pidof[p] : p \in S})
         /\ Cardinality({pidof[p] : p \in S}) <= Cardinality(S)
<1> DEFINE T == {pidof[p] : p \in S}
           f == [p \in S |-> pidof[p]]
<1>1. f \in Surjection(S, T)
  BY DEF Surjection
<1> QED
  BY <1>1, FS_Surjection

\* While the check has numbers to look at, those without an entry find a free slot.
LEMMA FreeSlot ==
  ASSUME WatchTypeOK, WatchSlots, NEW k \in pl, ~Known(k)
  PROVE  Room
<1>1. DOMAIN table \cup {k} \subseteq DOMAIN table \cup pl
  OBVIOUS
<1>2. Cardinality(DOMAIN table \cup {k}) <= AC_MAX_PROTS /\ IsFiniteSet(DOMAIN table)
      /\ Cardinality(DOMAIN table \cup {k}) \in Nat
  BY <1>1, SmallerSet, WatchAssumption DEF WatchSlots
<1>3. Cardinality(DOMAIN table \cup {k}) = Cardinality(DOMAIN table) + 1
  BY <1>2, FS_AddElement, Zenon DEF Known
<1> QED
  BY <1>2, <1>3, FS_CardinalityType, WatchAssumption DEF Room

\* Nothing is registered and nothing watched when the daemon starts.
LEMMA WatchInitInv == WatchInit => WatchInv
<1> SUFFICES ASSUME WatchInit PROVE WatchInv
  OBVIOUS
<1>1. Cardinality({}) = 0 /\ IsFiniteSet({})
  BY FS_EmptySet
<1>2. table = [k \in {} |-> NULL] /\ DOMAIN table = {} /\ pl = {}
  BY DEF WatchInit
<1>3. WatchTypeOK
  BY <1>1, <1>2, WatchAssumption DEF WatchInit, WatchTypeOK, Values, BaselineChecks, EnvironChecks
<1>4. WatchSlots
  BY <1>1, <1>2, WatchAssumption DEF WatchInit, WatchSlots
<1>5. Numbers /\ Marks
  BY DEF WatchInit, Numbers, Marks
<1> QED
  BY <1>3, <1>4, <1>5 DEF WatchInv

\* A process starts, changes, exits or is registered or given up.
LEMMA ProcessInv ==
  ASSUME WatchInv, NEW p \in Proc,
         (\E k \in Pid : Spawn(p, k)) \/ Remap(p) \/ Exit(p) \/ Protect(p) \/ Unprotect(p)
  PROVE  WatchInv'
<1>1. UNCHANGED <<check, table, at, pl>> /\ alert' = NULL
  BY Zenon DEF Spawn, Remap, Exit, Protect, Unprotect
<1>2. /\ life' \in [Proc -> {"unborn", "running", "gone"}]
      /\ pidof' \in [Proc -> Pid \cup {NULL}]
      /\ listed' \subseteq Proc
      /\ warned' \in [Proc -> {"never", "once", "earlier", "twice"}]
  <2> USE DEF WatchInv, WatchTypeOK
  <2>1. CASE \E k \in Pid : Spawn(p, k)
    BY <2>1, ZenonT(60) DEF Spawn
  <2>2. CASE Remap(p)
    BY <2>2, ZenonT(60) DEF Remap
  <2>3. CASE Exit(p)
    BY <2>3, ZenonT(60) DEF Exit
  <2>4. CASE Protect(p)
    BY <2>4, ZenonT(60) DEF Protect
  <2>5. CASE Unprotect(p)
    BY <2>5, ZenonT(60) DEF Unprotect
  <2> QED
    BY <2>1, <2>2, <2>3, <2>4, <2>5, Zenon
<1>3. shown' \in [Proc -> Values']
  BY <1>1 DEF WatchInv, WatchTypeOK, Spawn, Remap, Exit, Protect, Unprotect, Values
<1>4. WatchTypeOK'
  BY <1>1, <1>2, <1>3 DEF WatchInv, WatchTypeOK
<1>5. IsFiniteSet(listed') /\ Cardinality(listed') <= AC_MAX_PROTS
  <2>1. listed' \subseteq listed \/ (listed' = listed \cup {p} /\ Cardinality(listed) < AC_MAX_PROTS)
    BY DEF Spawn, Remap, Exit, Protect, Unprotect
  <2>2. CASE listed' \subseteq listed
    BY <2>2, SmallerSet, WatchAssumption DEF WatchInv, WatchSlots
  <2>3. CASE listed' = listed \cup {p} /\ Cardinality(listed) < AC_MAX_PROTS
    <3>1. IsFiniteSet(listed) /\ Cardinality(listed) \in Nat
      BY FS_CardinalityType DEF WatchInv, WatchSlots
    <3>2. /\ IsFiniteSet(listed \cup {p})
          /\ Cardinality(listed \cup {p}) = IF p \in listed THEN Cardinality(listed) ELSE Cardinality(listed) + 1
      BY <3>1, FS_AddElement
    <3> QED
      BY <2>3, <3>1, <3>2, WatchAssumption
  <2> QED
    BY <2>1, <2>2, <2>3, Zenon
<1>6. WatchSlots'
  BY <1>1, <1>5 DEF WatchInv, WatchSlots
<1>7. Numbers'
  <2>1. ASSUME NEW k \in Pid, Spawn(p, k) PROVE Numbers'
    BY <2>1, ZenonT(60) DEF WatchInv, WatchTypeOK, Numbers, Spawn, Running
  <2>2. ASSUME Exit(p) PROVE Numbers'
    BY <2>2, ZenonT(60) DEF WatchInv, WatchTypeOK, Numbers, Exit
  <2>3. ASSUME Remap(p) \/ Protect(p) \/ Unprotect(p) PROVE Numbers'
    BY <2>3 DEF WatchInv, WatchTypeOK, Numbers, Remap, Protect, Unprotect
  <2> QED
    BY <2>1, <2>2, <2>3, Zenon
<1>8. Marks'
  <2>1. ASSUME NEW k \in Pid, Spawn(p, k) PROVE Marks'
    BY <1>1, <2>1, ZenonT(60) DEF WatchInv, WatchTypeOK, Marks, Spawn, Known
  <2>2. ASSUME Exit(p) \/ Remap(p) \/ Unprotect(p) PROVE Marks'
    <3>1. UNCHANGED <<pidof, warned>> /\ listed' \subseteq listed
          /\ \A q \in Proc : (life'[q] = "running" => life[q] = "running")
                             /\ (life'[q] = "unborn" => life[q] = "unborn")
      BY <2>2, ZenonT(60) DEF WatchInv, WatchTypeOK, Exit, Remap, Unprotect
    <3>2. SUFFICES ASSUME NEW q \in Proc, warned[q] = "once", life'[q] = "running",
                          ~Known(pidof[q]), q \in listed \/ pidof[q] \in pl
                   PROVE  FALSE
      BY <1>1, <3>1 DEF WatchInv, Marks, Known
    <3> QED
      BY <3>1, <3>2, Zenon DEF WatchInv, Marks
  <2>3. ASSUME Protect(p) PROVE Marks'
    BY <1>1, <2>3, ZenonT(60) DEF WatchInv, WatchTypeOK, Marks, Protect, Known
  <2> QED
    BY <2>1, <2>2, <2>3
<1> QED
  BY <1>4, <1>6, <1>7, <1>8, Zenon DEF WatchInv

\* The start of a check: what is listed is what there is to look at, and what is not
\* listed is forgotten.
LEMMA ListInv == WatchInv /\ List => WatchInv'
<1> SUFFICES ASSUME WatchInv, List PROVE WatchInv'
  OBVIOUS
<1> DEFINE pids == {pidof[p] : p \in listed}
<1>1. /\ at' = "busy" /\ pl' = pids /\ alert' = NULL
      /\ UNCHANGED <<life, pidof, listed, shown, check, warned>>
      /\ table' = [k \in DOMAIN table \cap pids |-> table[k]]
  BY DEF List, ForgetStale, Restrict, kernel
<1>2. DOMAIN table' = DOMAIN table \cap pids
  BY <1>1
<1>3. pids \subseteq Pid
  BY DEF WatchInv, WatchTypeOK, Numbers
<1>4. /\ IsFiniteSet(pids) /\ Cardinality(pids) <= AC_MAX_PROTS
  <2>1. listed \in SUBSET Proc /\ IsFiniteSet(listed) /\ pidof \in [Proc -> Pid \cup {NULL}]
    BY DEF WatchInv, WatchTypeOK, WatchSlots
  <2>2. IsFiniteSet(pids) /\ Cardinality(pids) <= Cardinality(listed)
    BY <2>1, ImageSize
  <2>3. Cardinality(pids) \in Nat /\ Cardinality(listed) \in Nat
    BY <2>1, <2>2, FS_CardinalityType
  <2> QED
    BY <2>2, <2>3, WatchAssumption DEF WatchInv, WatchSlots
<1>5. DOMAIN table' \cup pl' = pids
  BY <1>1, <1>2
<1>6. WatchSlots'
  BY <1>1, <1>2, <1>4, <1>5, Zenon DEF WatchInv, WatchSlots
<1>7. Cardinality(DOMAIN table') <= AC_MAX_PROTS
  BY <1>2, <1>4, SmallerSet, FS_CardinalityType, WatchAssumption
<1>8. \A k \in DOMAIN table' : table'[k] \in Entry
  BY <1>1, <1>2, Zenon DEF WatchInv, WatchSlots
<1>9. WatchTypeOK'
  BY <1>1, <1>2, <1>3, <1>7, <1>8, Zenon DEF WatchInv, WatchTypeOK, Values, Entry
<1>10. Numbers'
  BY <1>1 DEF WatchInv, Numbers
<1>11. Marks'
  <2> SUFFICES ASSUME NEW p \in Proc, warned[p] = "once", life[p] = "running"
               PROVE  pidof[p] \in DOMAIN table' \/ (p \notin listed /\ pidof[p] \notin pids)
    BY <1>1 DEF WatchInv, Marks, Known
  <2>1. CASE p \in listed
    BY <1>2, <2>1 DEF WatchInv, Marks, Known
  <2>2. CASE p \notin listed
    BY <2>2 DEF WatchInv, WatchTypeOK, Numbers
  <2> QED
    BY <2>1, <2>2, Zenon
<1> QED
  BY <1>6, <1>9, <1>10, <1>11, Zenon DEF WatchInv

\* The invariant after a step in which the check has looked at k, kept the table or
\* entered k into a free slot or rewritten its entry, and warned of what it marked.
LEMMA LookedInv ==
  ASSUME WatchInv, NEW k \in pl, pl' = pl \ {k}, UNCHANGED <<life, pidof, listed, shown, check, at>>,
         DOMAIN table' \subseteq DOMAIN table \cup {k}, DOMAIN table \subseteq DOMAIN table',
         table' \in [DOMAIN table' -> Entry],
         alert' \in Proc \cup {NULL},
         \/ UNCHANGED warned
         \/ /\ k \in DOMAIN table'
            /\ \E p \in Running(k) : ~Known(k) /\ Warn(p)
  PROVE  WatchInv'
<1>1. DOMAIN table' \cup pl' \subseteq DOMAIN table \cup pl
  OBVIOUS
<1>2. /\ IsFiniteSet(DOMAIN table' \cup pl') /\ Cardinality(DOMAIN table' \cup pl') <= AC_MAX_PROTS
      /\ Cardinality(DOMAIN table' \cup pl') \in Nat
  BY <1>1, SmallerSet, WatchAssumption DEF WatchInv, WatchSlots
<1>3. WatchSlots'
  BY <1>2 DEF WatchInv, WatchSlots
<1>4. Cardinality(DOMAIN table') <= AC_MAX_PROTS
  BY <1>2, SmallerSet, WatchAssumption
<1>5. warned' \in [Proc -> {"never", "once", "earlier", "twice"}]
  BY Zenon DEF WatchInv, WatchTypeOK, Warn, Running
<1>6. WatchTypeOK'
  BY <1>4, <1>5, Zenon DEF WatchInv, WatchTypeOK, Values, Entry
<1>7. Numbers'
  BY DEF WatchInv, Numbers
<1>8. Marks'
  <2>1. CASE UNCHANGED warned
    BY <2>1, Zenon DEF WatchInv, Marks, Known
  <2>2. ASSUME k \in DOMAIN table', NEW p \in Running(k), ~Known(k), Warn(p) PROVE Marks'
    <3>1. p \in Proc /\ pidof[p] = k /\ life[p] = "running"
      BY <2>2 DEF Running
    <3>2. warned[p] # "once"
      BY <2>2, <3>1, Zenon DEF WatchInv, Marks
    <3>3. warned' = [warned EXCEPT ![p] = "once"]
      BY <2>2, <3>2, Zenon DEF Warn
    <3>4. \A q \in Proc : q # p => warned'[q] = warned[q]
      BY <3>3, Zenon DEF WatchInv, WatchTypeOK
    <3>5. warned'[p] = "once"
      BY <3>1, <3>3 DEF WatchInv, WatchTypeOK
    <3> QED
      BY <2>2, <3>1, <3>4, <3>5, Zenon DEF WatchInv, Marks, Known
  <2> QED
    BY <2>1, <2>2, Zenon
<1> QED
  BY <1>3, <1>6, <1>7, <1>8 DEF WatchInv

\* A step of a baseline check on a number of the list.
LEMMA BaselineInv == ASSUME WatchInv, NEW k \in Pid, Baseline(k) PROVE WatchInv'
<1>1. k \in pl /\ pl' = pl \ {k} /\ UNCHANGED <<life, pidof, listed, shown, check, at, warned>>
      /\ check \in BaselineChecks
  BY DEF Baseline, kernel
<1>2. PICK p \in Running(k) : (Known(k) /\ Compare(k, p)) \/ (~Known(k) /\ Record(k, p))
  BY Zenon DEF Baseline
<1>3. p \in Proc /\ shown[p] \in 0 .. MaxCount
  BY <1>1 DEF Running, WatchInv, WatchTypeOK, Values, BaselineChecks, EnvironChecks
<1>4. CASE Known(k) /\ Compare(k, p)
  <2>1. table' = [table EXCEPT ![k].count = shown[p]] /\ alert' \in {p, NULL}
    BY <1>4 DEF Compare
  <2>2. table \in [DOMAIN table -> Entry] /\ k \in DOMAIN table
    BY <1>4 DEF WatchInv, WatchSlots, Known
  <2>3. [table[k] EXCEPT !.count = shown[p]] \in Entry
    BY <1>3, <2>2 DEF Entry
  <2>4. table' \in [DOMAIN table -> Entry]
    BY <2>1, <2>2, <2>3, Zenon
  <2> QED
    BY <1>1, <1>3, <2>1, <2>4, LookedInv
<1>5. CASE ~Known(k) /\ Record(k, p)
  <2>1. table' = [j \in DOMAIN table \cup {k} |-> IF j = k THEN [count |-> shown[p], owner |-> p] ELSE table[j]]
        /\ alert' = NULL
    BY <1>1, <1>5, FreeSlot DEF Record, With, WatchInv
  <2>2. table' \in [DOMAIN table \cup {k} -> Entry]
    BY <1>3, <2>1 DEF WatchInv, WatchSlots, Entry
  <2> QED
    BY <1>1, <2>1, <2>2, LookedInv, Zenon
<1> QED
  BY <1>2, <1>4, <1>5

\* Marking a number without an entry finds a free slot.
LEMMA Marked ==
  ASSUME WatchInv, NEW k \in pl, ~Known(k), NEW p \in Proc, Mark(k, p)
  PROVE  table' \in [DOMAIN table \cup {k} -> Entry]
<1>1. table' = [j \in DOMAIN table \cup {k} |-> IF j = k THEN [count |-> 0, owner |-> p] ELSE table[j]]
  BY FreeSlot DEF Mark, With, WatchInv
<1> QED
  BY <1>1, WatchAssumption DEF WatchInv, WatchSlots, Entry

\* A step of a check that warns once.
LEMMA EnvironInv == ASSUME WatchInv, NEW k \in Pid, Environ(k) PROVE WatchInv'
<1>1. k \in pl /\ pl' = pl \ {k} /\ UNCHANGED <<life, pidof, listed, shown, check, at>>
  BY Zenon DEF Environ, kernel
<1>2. CASE NoWarning /\ UNCHANGED table
  BY <1>1, <1>2, LookedInv DEF NoWarning, WatchInv, WatchSlots
<1>3. CASE ~Known(k) /\ \E p \in Running(k) : (Warn(p) \/ NoWarning) /\ Mark(k, p)
  <2>1. PICK p \in Running(k) : (Warn(p) \/ NoWarning) /\ Mark(k, p)
    BY <1>3, Zenon
  <2>2. table' \in [DOMAIN table \cup {k} -> Entry] /\ p \in Proc
    <3>1. p \in Proc
      BY <2>1, Zenon DEF Running
    <3> QED
      BY <1>1, <1>3, <2>1, <3>1, Marked, Zenon
  <2>3. alert' \in Proc \cup {NULL} /\ (UNCHANGED warned \/ Warn(p))
    BY <2>1, <2>2 DEF Warn, NoWarning
  <2> QED
    BY <1>1, <1>3, <2>2, <2>3, LookedInv
<1>4. \/ NoWarning /\ UNCHANGED table
      \/ ~Known(k) /\ \E p \in Running(k) : (Warn(p) \/ NoWarning) /\ Mark(k, p)
  BY DEF Environ, Preload, VkLayers
<1> QED
  BY <1>2, <1>3, <1>4, Zenon

\* Every step keeps the invariant.
LEMMA WatchNextInv == WatchInv /\ [WatchNext]_watchVars => WatchInv'
<1> SUFFICES ASSUME WatchInv, [WatchNext]_watchVars PROVE WatchInv'
  OBVIOUS
<1>1. ASSUME NEW p \in Proc,
             (\E k \in Pid : Spawn(p, k)) \/ Remap(p) \/ Exit(p) \/ Protect(p) \/ Unprotect(p)
      PROVE  WatchInv'
  BY <1>1, ProcessInv
<1>2. CASE List
  BY <1>2, ListInv, Zenon
<1>3. CASE Done
  BY <1>3, ZenonT(60) DEF WatchInv, WatchTypeOK, Values, WatchSlots, Numbers, Marks, Known, Done, kernel
<1>4. ASSUME NEW k \in Pid, Skip(k) PROVE WatchInv'
  BY <1>4, LookedInv DEF WatchInv, WatchSlots, Skip, kernel
<1>5. ASSUME NEW k \in Pid, Baseline(k) \/ Environ(k) PROVE WatchInv'
  BY <1>5, BaselineInv, EnvironInv, Zenon
<1>6. CASE UNCHANGED watchVars
  BY <1>6 DEF WatchInv, WatchTypeOK, Values, WatchSlots, Numbers, Marks, Known, watchVars, kernel
<1> QED
  BY <1>1, <1>2, <1>3, <1>4, <1>5, <1>6 DEF WatchNext, Look

\* The invariant holds throughout.
LEMMA WatchInvariant == WatchSpec => []WatchInv
  BY WatchInitInv, WatchNextInv, PTL DEF WatchSpec

-----------------------------------------------------------------------------
\* No registered process goes unwatched for want of a slot, whatever the size of the
\* tables: the forgetting before the loop leaves room for what is listed.
THEOREM RoomAlways == WatchSpec => []RoomForListed
<1>1. WatchInv => RoomForListed
  BY FreeSlot, Zenon DEF WatchInv, RoomForListed
<1> QED
  BY <1>1, WatchInvariant, PTL

\* A process is warned of at most once while it stays registered.
THEOREM WarnedOnceAlways == WatchSpec => []WarnedOnce
<1>1. WatchInv => WarnedOnce
  BY DEF WatchInv, Marks, WarnedOnce
<1> QED
  BY <1>1, WatchInvariant, PTL

\* Growth of a watched process stays on record until a check logs it.
THEOREM GrowthKept == WatchSpec => GrowthNotAbsorbed
<1>1. ASSUME WatchInv, [WatchNext]_watchVars
      PROVE  [\A p \in Proc : Grown(p) /\ UNCHANGED kernel => Grown(p)' \/ alert' = p]_watchVars
  <2> SUFFICES ASSUME WatchNext, NEW p \in Proc, Grown(p), UNCHANGED kernel, alert' # p
               PROVE  Grown(p)'
    BY <1>1
  <2> DEFINE n == pidof[p]
  <2>1. /\ p \in listed /\ life[p] = "running" /\ n \in Pid
        /\ n \in DOMAIN table /\ check \in BaselineChecks
        /\ UNCHANGED <<life, pidof, listed, shown>>
    BY <1>1 DEF WatchInv, Numbers, Grown, Known, kernel
  <2>2. SUFFICES check' = check /\ n \in DOMAIN table' /\ table'[n] = table[n]
    BY <2>1 DEF Grown, Known
  <2>3. CASE List
    <3>1. check' = check /\ table' = [k \in DOMAIN table \cap {pidof[q] : q \in listed} |-> table[k]]
      BY <2>3, Zenon DEF List, ForgetStale, Restrict
    <3> QED
      BY <2>1, <3>1
  <2>4. ASSUME NEW k \in Pid, Baseline(k) PROVE check' = check /\ n \in DOMAIN table' /\ table'[n] = table[n]
    <3>1. PICK q \in Running(k) : (Known(k) /\ Compare(k, q)) \/ (~Known(k) /\ Record(k, q))
      BY <2>4 DEF Baseline
    <3>2. check' = check
      BY <2>4 DEF Baseline
    <3>3. CASE k = n
      <4>1. q = p
        BY <1>1, <2>1, <3>1, <3>3, Zenon DEF WatchInv, Numbers, Running
      <4> QED
        BY <2>1, <3>1, <3>3, <4>1, Zenon DEF Grown, Known, Compare
    <3>4. CASE k # n
      <4>1. CASE Compare(k, q)
        BY <1>1, <2>1, <3>2, <3>4, <4>1, Zenon DEF Compare, WatchInv, WatchSlots
      <4>2. CASE Record(k, q)
        BY <1>1, <2>1, <3>2, <3>4, <4>2, Zenon DEF Record, With
      <4> QED
        BY <3>1, <4>1, <4>2
    <3> QED
      BY <3>3, <3>4
  <2>5. ASSUME NEW k \in Pid, Environ(k) PROVE FALSE
    BY <2>1, <2>5, Zenon DEF Environ, BaselineChecks, EnvironChecks
  <2>6. CASE Done \/ \E k \in Pid : Skip(k)
    BY <2>1, <2>6, Zenon DEF Done, Skip
  <2>7. ASSUME NEW q \in Proc,
               (\E k \in Pid : Spawn(q, k)) \/ Remap(q) \/ Exit(q) \/ Protect(q) \/ Unprotect(q)
        PROVE  check' = check /\ n \in DOMAIN table' /\ table'[n] = table[n]
    BY <2>1, <2>7 DEF Spawn, Remap, Exit, Protect, Unprotect
  <2> QED
    BY <2>3, <2>4, <2>5, <2>6, <2>7, Zenon DEF WatchNext, Look
<1> QED
  BY <1>1, WatchInvariant, PTL DEF WatchSpec, GrowthNotAbsorbed
=============================================================================
