-------------------------- MODULE MonitorLoopProofs --------------------------
(***************************************************************************)
(* The safety properties of MonitorLoop for every size of the queue and of *)
(* a batch, every timeout and number of checks.                            *)
(***************************************************************************)
EXTENDS MonitorLoop, FiniteSetTheorems, TLAPS

\* What the queue holds.
Event == {"alert", "info"}

\* The seconds that one report may take: a timeout for the resolver, for each address,
\* for each write and for the answer.
ReportMax == AC_REPORT_TIMEOUT_SEC * (1 + AC_RESOLVE_MAX + MaxWrites + 1)

\* What the report under way has yet to do after its current wait.
Stages ==
    IF rep.at = "resolve" THEN AC_RESOLVE_MAX + MaxWrites + 1
    ELSE IF rep.at = "connect" THEN rep.n + MaxWrites
    ELSE IF rep.at = "write" THEN MaxWrites - rep.writes
    ELSE 0
\* The seconds that the report under way may still take.
ReportLeft ==
    IF rep.at = "none" THEN 0
    ELSE AC_REPORT_TIMEOUT_SEC - rep.spent + AC_REPORT_TIMEOUT_SEC * Stages

\* The checks that are due, and the reports that a round of all of them may make.
Due == {c \in Check : next[c] = 0}
CheckReports == Cardinality(Check) * MaxFindings

\* The reports that the loop may yet start before it polls again, and its sleep.
ToReport ==
    IF at = "log" THEN Len(el) + 1 - i + CheckReports
    ELSE IF at = "checks" THEN left + Cardinality(Due) * MaxFindings
    ELSE 0
\* The sleep to come before the next poll.
ToSleep ==
    IF at \in {"log", "checks"} THEN 1
    ELSE IF at = "sleep" THEN 1 - slept
    ELSE 0

\* The report client keeps to its timeouts and counts.
ReportOK ==
    /\ rep.spent <= AC_REPORT_TIMEOUT_SEC
    /\ rep.at = "connect" => rep.n >= 1
    /\ rep.at = "write" => rep.writes < MaxWrites

\* The batch and the position in it.
LoopOK ==
    /\ batch \in [{"daemon"} -> Seq(Event)]
    /\ at = "log" => i <= Len(el) + 1
    /\ at \in {"top", "log", "sleep"} => left = 0

\* Whatever time has passed since the last poll, what is left fits into the bound.
GapInv == gap + ReportLeft + ReportMax * ToReport + ToSleep <= GapMax

\* The inductive invariant for PollGapBounded.
LoopInv == TypeOK /\ ReportOK /\ LoopOK /\ GapInv

\* With a server that answers at once time passes only in sleep(1), and a check that is
\* due is run before the next sleep.
TimeInv ==
    ~set.hung =>
        /\ gap <= 1
        /\ at \in {"log", "checks"} => gap = 0
        /\ at = "sleep" => gap = slept
        /\ at = "sleep" \/ gap = 1 => \A c \in Check : next[c] >= 1
        /\ \A c \in Check : next[c] <= Interval /\ since[c] + next[c] <= Interval + gap

\* At most one event of others is pending; the rest are the resolver's.
OneAlert(s) == \A j, k \in DOMAIN s : s[j] = "alert" /\ s[k] = "alert" => j = k
\* No event of others is in s.
NoAlert(s) == \A j \in DOMAIN s : s[j] # "alert"
\* Whether the batch still holds one to be reported.
AlertLeft == IF at = "log" /\ \E j \in i .. Len(el) : el[j] = "alert" THEN 1 ELSE 0
\* The reports that this turn of the loop may still make.
OwnReports ==
    IF at = "log" THEN AlertLeft + CheckReports
    ELSE IF at = "checks" THEN left + Cardinality(Due) * MaxFindings
    ELSE 0
\* Whether the exit of the resolver child is still to come.
Resolving == IF rep.at = "resolve" THEN 1 ELSE 0
\* The events that one turn of the loop may see.
Pending == 3 + 2 * CheckReports
\* With a server that answers, what is pending fits into one turn.
QueueInv ==
    ~set.hung =>
        /\ given_up = 0
        /\ OneAlert(queue) /\ OneAlert(el)
        /\ at \in {"log", "checks"} \/ (at = "sleep" /\ slept = 0) => NoAlert(queue)
        /\ Len(queue) + 2 * OwnReports + Resolving + ToSleep <= Pending

-----------------------------------------------------------------------------
\* The bounds are natural numbers.
LEMMA Bounds ==
    /\ AC_RING_SIZE \in Nat \ {0} /\ AC_MAX_EVENTS \in Nat \ {0}
    /\ AC_REPORT_TIMEOUT_SEC \in Nat \ {0} /\ AC_RESOLVE_MAX \in Nat \ {0}
    /\ MaxWrites \in Nat \ {0} /\ Interval \in Nat \ {0} /\ MaxFindings \in Nat
BY LoopAssumption

\* One report takes a timeout and those of its stages, the loop's turn a report for every
\* event of the batch and every finding.
LEMMA Costs ==
    /\ Cardinality(Check) \in Nat /\ CheckReports \in Nat /\ ReportMax \in Nat
    /\ ReportMax = AC_REPORT_TIMEOUT_SEC
                    + AC_REPORT_TIMEOUT_SEC * (AC_RESOLVE_MAX + MaxWrites + 1)
    /\ GapMax = ReportMax * (AC_MAX_EVENTS + CheckReports) + 1
<1>2. Cardinality(Check) \in Nat
  BY LoopAssumption, FS_CardinalityType
<1>3. CheckReports \in Nat
  BY Bounds, <1>2 DEF CheckReports
<1>4. /\ ReportMax \in Nat
      /\ ReportMax = AC_REPORT_TIMEOUT_SEC
                    + AC_REPORT_TIMEOUT_SEC * (AC_RESOLVE_MAX + MaxWrites + 1)
  BY Bounds DEF ReportMax
<1>5. GapMax = (AC_MAX_EVENTS + CheckReports) * ReportMax + 1
  BY DEF GapMax, CheckReports, ReportMax
<1>6. (AC_MAX_EVENTS + CheckReports) * ReportMax = ReportMax * (AC_MAX_EVENTS + CheckReports)
  BY Bounds, <1>3, <1>4
<1> QED BY <1>2, <1>3, <1>4, <1>5, <1>6

\* The counts among them.
LEMMA Counts == CheckReports \in Nat /\ ReportMax \in Nat /\ Cardinality(Check) \in Nat
BY Costs

\* A product grows with its factor, by the other factor for each one more.
LEMMA Times ==
    ASSUME NEW t \in Nat
    PROVE  /\ \A x, y \in Nat : x <= y => t * x <= t * y
           /\ \A x \in Nat : t * (x + 1) = t * x + t
           /\ \A x \in Nat : t * x \in Nat
<1>1. \A x, y \in Nat : x <= y => t * x <= t * y
  <2>1. SUFFICES ASSUME NEW x \in Nat, NEW d \in Nat
                 PROVE  t * x <= t * (x + d)
    <3>1. ASSUME NEW x \in Nat, NEW y \in Nat, x <= y PROVE t * x <= t * y
      <4>1. y - x \in Nat /\ y = x + (y - x)
        BY <3>1
      <4> QED BY <4>1, <2>1
    <3> QED BY <3>1
  <2>2. t * d \in Nat /\ t * (x + d) = t * x + t * d /\ t * x \in Nat
    OBVIOUS
  <2> QED BY <2>2
<1> QED BY <1>1

\* One product less by a factor: the reports of one check.
LEMMA OneLess ==
    ASSUME NEW d \in Nat, NEW f \in Nat, d >= 1
    PROVE  (d - 1) * f + f = d * f /\ (d - 1) * f \in Nat
OBVIOUS

-----------------------------------------------------------------------------
(* The kernel's queue.                                                       *)

\* Putting an event keeps the queue's type and bound and leaves the batch alone.
LEMMA PutType ==
    ASSUME queue \in Seq(Event), Len(queue) <= AC_RING_SIZE, given_up \in Nat,
           NEW e \in Event, Put(e)
    PROVE  /\ queue' \in Seq(Event) /\ Len(queue') <= AC_RING_SIZE
           /\ given_up' \in Nat /\ UNCHANGED batch
<1> DEFINE S == Event
<1> HIDE DEF S
<1>1. CASE K!PutFree(e)
  <2>1. queue \in Seq(S) /\ e \in S
    BY DEF S
  <2>2. queue' = Append(queue, e) /\ Len(queue) < AC_RING_SIZE
    BY <1>1 DEF K!PutFree
  <2>3. queue' \in Seq(S) /\ Len(queue') = Len(queue) + 1
    BY <2>1, <2>2
  <2> QED BY <1>1, <2>2, <2>3, Bounds DEF S, K!PutFree
<1>2. CASE K!PutFull(e)
  <2>1. queue \in Seq(S) /\ e \in S
    BY DEF S
  <2>2. queue' = Append(Tail(queue), e) /\ Len(queue) = AC_RING_SIZE
    BY <1>2 DEF K!PutFull
  <2>3. Tail(queue) \in Seq(S) /\ Len(Tail(queue)) = Len(queue) - 1
    BY <2>1, <2>2, Bounds
  <2>4. queue' \in Seq(S) /\ Len(queue') = AC_RING_SIZE
    BY <2>1, <2>2, <2>3, Bounds
  <2> QED BY <1>2, <2>4, Bounds DEF S, K!PutFull
<1> QED BY <1>1, <1>2 DEF Put

\* So do the resolver's events.
LEMMA ResolverType ==
    ASSUME queue \in Seq(Event), Len(queue) <= AC_RING_SIZE, given_up \in Nat, Resolver
    PROVE  /\ queue' \in Seq(Event) /\ Len(queue') <= AC_RING_SIZE
           /\ given_up' \in Nat /\ UNCHANGED batch
<1>1. CASE set.self /\ Put("info")
  <2>1. "info" \in Event
    BY DEF Event
  <2> QED BY <1>1, <2>1, PutType
<1>2. CASE UNCHANGED kernel
  BY <1>2 DEF kernel
<1> QED BY <1>1, <1>2 DEF Resolver

-----------------------------------------------------------------------------
(* The measures of what is left.                                             *)

\* The measures are natural numbers, and bounded.
LeftOK == ReportLeft \in Nat /\ ToReport \in Nat /\ ToSleep \in Nat
MeasuresOK ==
    /\ LeftOK /\ Stages \in Nat
    /\ ReportMax * ToReport \in Nat
    /\ IsFiniteSet(Due) /\ Cardinality(Due) \in Nat
    /\ Cardinality(Due) * MaxFindings \in Nat
    /\ Cardinality(Due) * MaxFindings <= CheckReports

\* They are natural numbers, and the checks that are due are some of all.
LEMMA Measured == TypeOK /\ ReportOK /\ LoopOK => MeasuresOK
<1> SUFFICES ASSUME TypeOK, ReportOK, LoopOK PROVE MeasuresOK
  OBVIOUS
<1> USE Bounds
<1>1. Stages \in Nat
  BY SMTT(30) DEF Stages, TypeOK, ReportOK
<1>2. AC_REPORT_TIMEOUT_SEC * Stages \in Nat
  BY <1>1, Times
<1>3. ReportLeft \in Nat
  BY <1>2, SMTT(30) DEF ReportLeft, TypeOK, ReportOK
<1>4. IsFiniteSet(Due) /\ Cardinality(Due) <= Cardinality(Check)
  BY LoopAssumption, FS_Subset DEF Due
<1>5. Cardinality(Due) \in Nat
  BY <1>4, FS_CardinalityType
<1>6. /\ Cardinality(Due) * MaxFindings \in Nat
      /\ Cardinality(Due) * MaxFindings <= CheckReports
  <2>1. MaxFindings * Cardinality(Due) <= MaxFindings * Cardinality(Check)
    BY <1>4, <1>5, Costs, Times
  <2>2. /\ MaxFindings * Cardinality(Due) = Cardinality(Due) * MaxFindings
        /\ MaxFindings * Cardinality(Check) = Cardinality(Check) * MaxFindings
        /\ Cardinality(Due) * MaxFindings \in Nat
    BY <1>5, Costs
  <2> QED BY <2>1, <2>2 DEF CheckReports
<1>7. ToReport \in Nat
  <2>1. Len(el) \in Nat /\ i \in Nat /\ left \in Nat
    BY DEF TypeOK
  <2>2. at = "log" => Len(el) + 1 - i \in Nat
    BY <2>1 DEF LoopOK
  <2>3. PICK d \in Nat : d = Cardinality(Due) * MaxFindings
    BY <1>6
  <2> QED BY <2>1, <2>2, <2>3, Counts DEF ToReport
<1>8. ToSleep \in Nat
  BY DEF ToSleep, TypeOK
<1>9. ReportMax * ToReport \in Nat
  BY <1>7, Costs, Times
<1> QED BY <1>1, <1>3, <1>4, <1>5, <1>6, <1>7, <1>8, <1>9, SMTT(30) DEF MeasuresOK, LeftOK

\* A step within a report that leaves no more to do keeps the bound.
LEMMA SameTurn ==
    ASSUME LoopInv, TypeOK', ReportOK', UNCHANGED <<at, i, left, next, slept, gap, batch>>,
           ReportLeft' <= ReportLeft
    PROVE  LoopInv'
<1>1. MeasuresOK /\ GapInv
  BY Measured DEF LoopInv
<1>2. LoopOK'
  BY DEF LoopInv, LoopOK, el
<1>3. MeasuresOK'
  <2>1. (TypeOK /\ ReportOK /\ LoopOK => MeasuresOK)'
    BY Measured, PTL
  <2> QED BY <2>1, <1>2
<1>4. ToReport' = ToReport /\ ToSleep' = ToSleep
  BY DEF ToReport, ToSleep, Due, el
<1>5. ReportMax \in Nat /\ gap \in Nat /\ GapMax \in Int
  <2>1. AC_MAX_EVENTS + CheckReports \in Nat
    BY Bounds, Costs
  <2>2. ReportMax * (AC_MAX_EVENTS + CheckReports) \in Nat
    BY <2>1, Costs, Times
  <2>3. GapMax \in Int
    BY <2>2, Costs
  <2> QED BY <2>3, Costs DEF LoopInv, TypeOK
<1>6. GapInv'
  <2>1. ReportMax * ToReport' = ReportMax * ToReport
    BY <1>4
  <2>2. ReportLeft \in Nat /\ ReportLeft' \in Nat /\ ToSleep \in Nat /\ ReportMax * ToReport \in Nat
    BY <1>1, <1>3 DEF MeasuresOK, LeftOK
  <2> QED BY <1>1, <1>4, <1>5, <2>1, <2>2 DEF GapInv
<1> QED BY <1>2, <1>6 DEF LoopInv

\* Less of the report's stages is left when it moves on: a new wait costs a stage.
LEMMA StageDone ==
    ASSUME NEW spent \in Nat, NEW s \in Nat, NEW r \in Nat,
           spent <= AC_REPORT_TIMEOUT_SEC, r + 1 <= s
    PROVE  AC_REPORT_TIMEOUT_SEC - 0 + AC_REPORT_TIMEOUT_SEC * r
             <= AC_REPORT_TIMEOUT_SEC - spent + AC_REPORT_TIMEOUT_SEC * s
<1> DEFINE t == AC_REPORT_TIMEOUT_SEC
<1>1. t \in Nat
  BY Bounds
<1> HIDE DEF t
<1>2. t * (r + 1) <= t * s /\ t * (r + 1) = t * r + t /\ t * r \in Nat /\ t * s \in Nat
  BY <1>1, Times
<1> QED BY <1>1, <1>2 DEF t

\* A report under way.
RepType == [at : {"none", "resolve", "connect", "write", "read"},
            n : 0 .. AC_RESOLVE_MAX, writes : 0 .. MaxWrites, spent : Nat]

\* Updating fields within their sets keeps a record within its set.
LEMMA Updated ==
    ASSUME NEW A, NEW N, NEW W, NEW S, NEW r \in [at : A, n : N, writes : W, spent : S],
           NEW a \in A, NEW x \in N, NEW w \in W, NEW s \in S
    PROVE  /\ [r EXCEPT !.n = x] \in [at : A, n : N, writes : W, spent : S]
           /\ [r EXCEPT !.n = x, !.spent = s] \in [at : A, n : N, writes : W, spent : S]
           /\ [r EXCEPT !.at = a, !.spent = s] \in [at : A, n : N, writes : W, spent : S]
           /\ [r EXCEPT !.writes = w, !.spent = s] \in [at : A, n : N, writes : W, spent : S]
           /\ [r EXCEPT !.spent = s] \in [at : A, n : N, writes : W, spent : S]
BY Zenon

\* The fields of the report and their types.
LEMMA Fields ==
    ASSUME TypeOK
    PROVE  /\ rep \in RepType
           /\ rep.at \in {"none", "resolve", "connect", "write", "read"}
           /\ rep.n \in 0 .. AC_RESOLVE_MAX /\ rep.writes \in 0 .. MaxWrites /\ rep.spent \in Nat
BY DEF TypeOK, RepType

\* What the report client's steps leave alone keeps its type.
LEMMA TypeKept ==
    ASSUME TypeOK, Reporting, UNCHANGED <<batch, rest>>,
           queue' \in Seq(Event) /\ Len(queue') <= AC_RING_SIZE /\ given_up' \in Nat,
           rep' \in RepType
    PROVE  TypeOK'
BY SMTT(30) DEF TypeOK, Reporting, rest, timing, el, Event, RepType

\* The resolver's child delivers an address.
LEMMA ResolveOneInv == LoopInv /\ ResolveOne => LoopInv'
<1> SUFFICES ASSUME LoopInv, ResolveOne PROVE LoopInv'
  OBVIOUS
<1>0. TypeOK /\ ReportOK /\ queue \in Seq(Event)
  BY DEF LoopInv, TypeOK, Event
<1>1. rep' \in RepType
  <2>1. rep.n + 1 \in 0 .. AC_RESOLVE_MAX
    BY <1>0, Fields, Bounds, SMTT(30) DEF ResolveOne
  <2> QED BY <1>0, <2>1, Fields, Updated, Zenon DEF RepType, ResolveOne
<1>2. rep'.at = "resolve" /\ rep'.spent = rep.spent
  BY <1>0, Fields DEF ResolveOne, RepType
<1>3. ReportOK'
  BY <1>0, <1>2 DEF ReportOK
<1>4. TypeOK'
  BY <1>0, <1>1, TypeKept, Zenon DEF TypeOK, Reporting, kernel, ResolveOne
<1>5. ReportLeft' = ReportLeft
  BY <1>2 DEF ResolveOne, ReportLeft, Stages
<1>6. ReportLeft' <= ReportLeft
  BY <1>5, Measured DEF LoopInv, MeasuresOK, LeftOK
<1> QED BY <1>3, <1>4, <1>6, SameTurn DEF ResolveOne, kernel, rest, timing

\* The report is over.
LEMMA OverInv ==
    ASSUME LoopInv, Reporting, rep' = NoReport,
           queue' \in Seq(Event) /\ Len(queue') <= AC_RING_SIZE /\ given_up' \in Nat,
           UNCHANGED <<batch, rest>>
    PROVE  LoopInv'
<1>1. rep' \in RepType /\ rep'.at = "none" /\ rep'.spent = 0
  BY Bounds DEF NoReport, RepType
<1>2. TypeOK'
  BY <1>1, TypeKept DEF LoopInv
<1>3. ReportOK'
  BY <1>1, Bounds DEF ReportOK
<1>4. ReportLeft' = 0
  BY <1>1 DEF ReportLeft
<1>5. ReportLeft' <= ReportLeft
  BY <1>4, Measured DEF LoopInv, MeasuresOK, LeftOK
<1> QED BY <1>2, <1>3, <1>5, SameTurn DEF rest, timing

\* The report moves on to a wait with less behind it.
LEMMA OnInv ==
    ASSUME LoopInv, Reporting, rep' \in RepType, rep'.at # "none", rep'.spent = 0,
           queue' \in Seq(Event) /\ Len(queue') <= AC_RING_SIZE /\ given_up' \in Nat,
           ReportOK', Stages' + 1 <= Stages, UNCHANGED <<batch, rest>>
    PROVE  LoopInv'
<1>0. TypeOK'
  BY TypeKept DEF LoopInv
<1>1. MeasuresOK
  BY Measured DEF LoopInv
<1>2. LoopOK'
  BY DEF LoopInv, LoopOK, el, rest, timing
<1>3. MeasuresOK'
  <2>1. (TypeOK /\ ReportOK /\ LoopOK => MeasuresOK)'
    BY Measured, PTL
  <2> QED BY <2>1, <1>0, <1>2
<1>4. PICK s \in Nat, r \in Nat, x \in Nat : s = Stages /\ r = Stages' /\ x = rep.spent
  BY <1>1, <1>3, Zenon DEF MeasuresOK, LeftOK, LoopInv, TypeOK
<1>5. x <= AC_REPORT_TIMEOUT_SEC
  BY <1>4 DEF LoopInv, ReportOK
<1>6. AC_REPORT_TIMEOUT_SEC - 0 + AC_REPORT_TIMEOUT_SEC * r
             <= AC_REPORT_TIMEOUT_SEC - x + AC_REPORT_TIMEOUT_SEC * s
  BY <1>4, <1>5, StageDone, Zenon
<1>7. ReportLeft' <= ReportLeft
  BY <1>4, <1>6 DEF ReportLeft, Reporting
<1> QED BY <1>0, <1>7, SameTurn DEF rest, timing

\* The resolver is done.
LEMMA ResolveEndInv == LoopInv /\ ResolveEnd => LoopInv'
<1> SUFFICES ASSUME LoopInv, ResolveEnd PROVE LoopInv'
  OBVIOUS
<1>0. TypeOK /\ ReportOK
  BY DEF LoopInv
<1>1. queue' \in Seq(Event) /\ Len(queue') <= AC_RING_SIZE /\ given_up' \in Nat /\ UNCHANGED batch
  BY ResolverType DEF LoopInv, TypeOK, ResolveEnd, Event
<1>2. CASE rep.n = 0
  BY <1>1, <1>2, OverInv DEF ResolveEnd, Reporting
<1>3. CASE rep.n # 0
  <2>1. rep' \in RepType
    BY <1>0, <1>3, Fields, Updated, Zenon DEF ResolveEnd, RepType
  <2>2. rep'.at = "connect" /\ rep'.spent = 0 /\ rep'.n = rep.n
    BY <1>0, <1>3, Fields DEF ResolveEnd, RepType
  <2>3. ReportOK'
    BY <1>0, <1>3, <2>2, Fields, Bounds DEF ReportOK
  <2>4. Stages' + 1 <= Stages
    BY <1>0, <1>3, <2>2, Fields, Bounds DEF ResolveEnd, Stages
  <2> QED BY <1>1, <2>1, <2>2, <2>3, <2>4, OnInv, SMTT(30) DEF ResolveEnd, Reporting
<1> QED BY <1>2, <1>3

\* The steps of the connection.
LEMMA ConnectInv ==
    LoopInv /\ (Connected \/ ConnectFails \/ WriteSome \/ WriteRest \/ ReportEnd) => LoopInv'
<1> SUFFICES ASSUME LoopInv, Connected \/ ConnectFails \/ WriteSome \/ WriteRest \/ ReportEnd
             PROVE LoopInv'
  OBVIOUS
<1>0. /\ TypeOK /\ ReportOK
      /\ queue \in Seq(Event) /\ Len(queue) <= AC_RING_SIZE /\ given_up \in Nat
  BY DEF LoopInv, TypeOK, Event
<1>1. CASE Connected
  <2>1. rep' \in RepType /\ rep'.at = "write" /\ rep'.spent = 0 /\ rep'.writes = 0
    BY <1>1, Bounds DEF Connected, NoReport, RepType
  <2>3. ReportOK'
    BY <2>1, Bounds DEF ReportOK
  <2>4. Stages' + 1 <= Stages
    BY <1>0, <1>1, <2>1, Fields, Bounds, SMTT(30) DEF Connected, Stages, ReportOK
  <2> QED BY <1>0, <1>1, <2>1, <2>3, <2>4, OnInv, SMTT(30) DEF Connected, Reporting, kernel
<1>2. CASE ConnectFails /\ rep.n = 1
  BY <1>0, <1>2, OverInv DEF ConnectFails, Reporting, kernel
<1>3. CASE ConnectFails /\ rep.n # 1
  <2>0. rep.n - 1 \in 0 .. AC_RESOLVE_MAX
    BY <1>0, <1>3, Fields, Bounds, SMTT(30) DEF ConnectFails, ReportOK
  <2>1. rep' \in RepType
    BY <1>0, <1>3, <2>0, Fields, Updated, Zenon DEF ConnectFails, RepType
  <2>2. rep'.at = "connect" /\ rep'.spent = 0 /\ rep'.n = rep.n - 1
    BY <1>0, <1>3, Fields DEF ConnectFails, RepType
  <2>3. ReportOK'
    BY <1>0, <1>3, <2>2, Fields, Bounds, SMTT(30) DEF ReportOK, ConnectFails
  <2>4. Stages' + 1 <= Stages
    <3>1. Stages = rep.n + MaxWrites
      BY <1>3 DEF ConnectFails, Stages
    <3>2. Stages' = rep'.n + MaxWrites
      BY <2>2 DEF Stages
    <3> QED BY <1>0, <2>2, <3>1, <3>2, Fields, Bounds, SMTT(30)
  <2> QED BY <1>0, <1>3, <2>1, <2>2, <2>3, <2>4, OnInv DEF ConnectFails, Reporting, kernel
<1>4. CASE WriteSome
  <2>0. rep.writes + 1 \in 0 .. MaxWrites
    BY <1>0, <1>4, Fields, Bounds, SMTT(30) DEF WriteSome
  <2>1. rep' \in RepType
    BY <1>0, <1>4, <2>0, Fields, Updated, Zenon DEF WriteSome, RepType
  <2>2. rep'.at = "write" /\ rep'.spent = 0 /\ rep'.writes = rep.writes + 1
    BY <1>0, <1>4, Fields DEF WriteSome, RepType
  <2>3. ReportOK'
    BY <1>0, <1>4, <2>2, Fields, Bounds, SMTT(30) DEF ReportOK, WriteSome
  <2>4. Stages' + 1 <= Stages
    <3>1. Stages = MaxWrites - rep.writes
      BY <1>4 DEF WriteSome, Stages
    <3>2. Stages' = MaxWrites - rep'.writes
      BY <2>2 DEF Stages
    <3> QED BY <1>0, <2>2, <3>1, <3>2, Fields, Bounds, SMTT(30)
  <2> QED BY <1>0, <1>4, <2>1, <2>2, <2>3, <2>4, OnInv DEF WriteSome, Reporting, kernel
<1>5. CASE WriteRest
  <2>1. rep' \in RepType /\ rep'.at = "read" /\ rep'.spent = 0
    BY <1>5, Bounds DEF WriteRest, NoReport, RepType
  <2>3. ReportOK'
    BY <2>1, Bounds DEF ReportOK
  <2>4. Stages' + 1 <= Stages
    BY <1>0, <1>5, <2>1, Fields, Bounds, SMTT(30) DEF WriteRest, Stages, ReportOK
  <2> QED BY <1>0, <1>5, <2>1, <2>3, <2>4, OnInv DEF WriteRest, Reporting, kernel
<1>6. CASE ReportEnd
  BY <1>0, <1>6, OverInv DEF ReportEnd, Reporting, kernel
<1> QED BY <1>1, <1>2, <1>3, <1>4, <1>5, <1>6, SMTT(30)

-----------------------------------------------------------------------------
(* The loop.                                                                 *)

\* logmsg() starts a report or does nothing.
LEMMA ReportStarts ==
    ASSUME TypeOK, ReportOK, ~Reporting, Report
    PROVE  /\ queue' \in Seq(Event) /\ Len(queue') <= AC_RING_SIZE /\ given_up' \in Nat
           /\ UNCHANGED batch
           /\ rep' \in RepType /\ ReportOK'
           /\ ReportLeft' \in Nat /\ ReportLeft' <= ReportMax /\ ReportLeft = 0
           /\ rep'.at \in {"none", "resolve"}
<1>0. queue \in Seq(Event) /\ Len(queue) <= AC_RING_SIZE /\ given_up \in Nat
  BY DEF TypeOK, Event
<1>1. CASE set.url /\ rep' = [NoReport EXCEPT !.at = "resolve"] /\ Resolver
  <2>1. /\ queue' \in Seq(Event) /\ Len(queue') <= AC_RING_SIZE /\ given_up' \in Nat
        /\ UNCHANGED batch
    BY <1>0, <1>1, ResolverType
  <2>2. rep' \in RepType /\ rep'.at = "resolve" /\ rep'.spent = 0
    BY <1>1, Bounds DEF NoReport, RepType
  <2>3. ReportOK'
    BY <2>2, Bounds DEF ReportOK
  <2>4. Stages' = AC_RESOLVE_MAX + MaxWrites + 1
    BY <2>2 DEF Stages
  <2>5. ReportLeft' = ReportMax
    BY <2>2, <2>4, Costs, Bounds DEF ReportLeft
  <2>6. ReportMax \in Nat
    BY Costs
  <2> QED BY <2>1, <2>2, <2>3, <2>5, <2>6 DEF ReportLeft, Reporting
<1>2. CASE UNCHANGED <<rep, kernel>>
  <2>1. rep' \in RepType /\ ReportOK' /\ rep'.at = "none"
    BY <1>2, Fields DEF ReportOK, Reporting
  <2>2. ReportLeft' = 0 /\ ReportLeft = 0
    BY <1>2 DEF ReportLeft, Reporting
  <2>3. ReportMax \in Nat
    BY Costs
  <2> QED BY <1>0, <1>2, <2>1, <2>2, <2>3 DEF kernel
<1> QED BY <1>1, <1>2 DEF Report

\* One report more or less to start.
LEMMA OneReport ==
    ASSUME NEW g \in Nat, NEW a \in Nat, NEW b \in Nat, NEW x \in Nat, NEW y \in Nat,
           NEW z \in Nat, y + 1 <= x, b <= ReportMax,
           g + a + ReportMax * x + z <= GapMax
    PROVE  g + b + ReportMax * y + z <= GapMax
<1> DEFINE t == ReportMax
<1> DEFINE m == GapMax
<1>1. t \in Nat /\ b <= t
  BY Costs
<1>2. m \in Int
  <2>1. AC_MAX_EVENTS + CheckReports \in Nat
    BY Bounds, Costs
  <2>2. ReportMax * (AC_MAX_EVENTS + CheckReports) \in Nat
    BY <2>1, Costs, Times
  <2> QED BY <2>2, Costs
<1>3. g + a + t * x + z <= m
  OBVIOUS
<1> HIDE DEF t, m
<1>4. t * (y + 1) <= t * x /\ t * (y + 1) = t * y + t /\ t * y \in Nat /\ t * x \in Nat
  BY <1>1, Times
<1>5. g + b + t * y + z <= m
  BY <1>1, <1>2, <1>3, <1>4
<1> QED BY <1>5 DEF t, m

\* No more reports than before to start, and no more to wait for.
LEMMA NoMore ==
    ASSUME NEW g \in Nat, NEW h \in Nat, NEW a \in Nat, NEW b \in Nat, NEW x \in Nat, NEW y \in Nat,
           NEW z \in Nat, NEW w \in Nat, y <= x, h + b + w <= g + a + z,
           g + a + ReportMax * x + z <= GapMax
    PROVE  h + b + ReportMax * y + w <= GapMax
<1> DEFINE t == ReportMax
<1> DEFINE m == GapMax
<1>1. t \in Nat
  BY Costs
<1>2. m \in Int
  <2>1. AC_MAX_EVENTS + CheckReports \in Nat
    BY Bounds, Costs
  <2>2. ReportMax * (AC_MAX_EVENTS + CheckReports) \in Nat
    BY <2>1, Costs, Times
  <2> QED BY <2>2, Costs
<1>3. g + a + t * x + z <= m
  OBVIOUS
<1> HIDE DEF t, m
<1>4. t * y <= t * x /\ t * y \in Nat /\ t * x \in Nat
  BY <1>1, Times
<1>5. h + b + t * y + w <= m
  BY <1>2, <1>3, <1>4
<1> QED BY <1>5 DEF t, m

\* The bound is kept when nothing more is left than before.
LEMMA GapKept ==
    ASSUME LoopInv, TypeOK', ReportOK', LoopOK', ToReport' <= ToReport,
           gap' + ReportLeft' + ToSleep' <= gap + ReportLeft + ToSleep
    PROVE  LoopInv'
<1>1. MeasuresOK /\ gap \in Nat /\ GapInv
  BY Measured, Zenon DEF LoopInv, TypeOK
<1>2. MeasuresOK' /\ gap' \in Nat
  <2>1. (TypeOK /\ ReportOK /\ LoopOK => MeasuresOK)'
    BY Measured, PTL
  <2> QED BY <2>1, SMTT(30) DEF TypeOK
<1>3. PICK g \in Nat, h \in Nat, a \in Nat, b \in Nat, x \in Nat, y \in Nat, z \in Nat, w \in Nat :
        /\ g = gap /\ h = gap' /\ a = ReportLeft /\ b = ReportLeft'
        /\ x = ToReport /\ y = ToReport' /\ z = ToSleep /\ w = ToSleep'
  BY <1>1, <1>2 DEF MeasuresOK, LeftOK
<1>4. h + b + ReportMax * y + w <= GapMax
  <2>1. y <= x /\ h + b + w <= g + a + z /\ g + a + ReportMax * x + z <= GapMax
    BY <1>1, <1>3, Zenon DEF GapInv
  <2> QED BY <2>1, NoMore
<1> QED BY <1>3, <1>4 DEF LoopInv, GapInv

\* It is kept when one of the reports to start is started.
LEMMA GapReport ==
    ASSUME LoopInv, TypeOK', ReportOK', LoopOK', ToReport' + 1 <= ToReport,
           gap' = gap, ToSleep' = ToSleep, ReportLeft' <= ReportMax
    PROVE  LoopInv'
<1>1. MeasuresOK /\ gap \in Nat /\ GapInv
  BY Measured, SMTT(30) DEF LoopInv, TypeOK
<1>2. MeasuresOK'
  <2>1. (TypeOK /\ ReportOK /\ LoopOK => MeasuresOK)'
    BY Measured, PTL
  <2> QED BY <2>1
<1>3. PICK g \in Nat, a \in Nat, b \in Nat, x \in Nat, y \in Nat, z \in Nat :
        /\ g = gap /\ a = ReportLeft /\ b = ReportLeft'
        /\ x = ToReport /\ y = ToReport' /\ z = ToSleep
  BY <1>1, <1>2 DEF MeasuresOK, LeftOK
<1>4. g + b + ReportMax * y + z <= GapMax
  <2>1. y + 1 <= x /\ b <= ReportMax /\ g + a + ReportMax * x + z <= GapMax
    BY <1>1, <1>3, Zenon DEF GapInv
  <2> QED BY <2>1, OneReport, Zenon
<1> QED BY <1>3, <1>4 DEF LoopInv, GapInv

\* AC_IOCTL_GET_EVENTS moves the oldest events into el, the rest stay.
LEMMA TakeType ==
    ASSUME queue \in Seq(Event), Len(queue) <= AC_RING_SIZE, given_up \in Nat,
           batch \in [{"daemon"} -> Seq(Event)], K!Take("daemon")
    PROVE  /\ queue' \in Seq(Event) /\ Len(queue') <= AC_RING_SIZE /\ given_up' = given_up
           /\ batch' \in [{"daemon"} -> Seq(Event)]
           /\ el' \in Seq(Event) /\ Len(el') <= AC_MAX_EVENTS
           /\ Len(queue) <= AC_MAX_EVENTS => el' = queue /\ queue' = <<>>
<1> DEFINE n == K!Smaller(Len(queue), AC_MAX_EVENTS)
<1> DEFINE S == Event
<1>1. queue \in Seq(S) /\ Len(queue) \in Nat
  OBVIOUS
<1>2. n \in 0 .. Len(queue) /\ n <= AC_MAX_EVENTS /\ (Len(queue) <= AC_MAX_EVENTS => n = Len(queue))
  BY <1>1, Bounds DEF K!Smaller
<1>3. /\ batch' = [batch EXCEPT !["daemon"] = SubSeq(queue, 1, n)]
      /\ queue' = SubSeq(queue, n + 1, Len(queue)) /\ given_up' = given_up
  BY DEF K!Take
<1> HIDE DEF n, S
<1>4. SubSeq(queue, 1, n) \in Seq(S) /\ Len(SubSeq(queue, 1, n)) = n
  BY <1>1, <1>2
<1>5. queue' \in Seq(S) /\ Len(queue') = Len(queue) - n
  BY <1>1, <1>2, <1>3
<1>6. el' = SubSeq(queue, 1, n) /\ batch' \in [{"daemon"} -> Seq(S)]
  BY <1>3, <1>4 DEF el, S
<1>7. ASSUME n = Len(queue) PROVE el' = queue /\ queue' = <<>>
  <2>1. SubSeq(queue, 1, Len(queue)) = queue
    BY <1>1
  <2>2. Len(queue') = 0
    BY <1>1, <1>5, <1>7
  <2>3. queue' = <<>>
    BY <1>5, <2>2
  <2> QED BY <1>6, <1>7, <2>1, <2>3
<1> QED BY <1>1, <1>2, <1>3, <1>4, <1>5, <1>6, <1>7, Bounds DEF S

\* The top of the loop: the bound starts anew.
LEMMA PollInv == LoopInv /\ Poll => LoopInv'
<1> SUFFICES ASSUME LoopInv, Poll PROVE LoopInv'
  OBVIOUS
<1>0. TypeOK /\ ReportOK /\ LoopOK /\ ~Reporting
  BY DEF LoopInv, TypeOK, Poll
<1>1. /\ queue' \in Seq(Event) /\ Len(queue') <= AC_RING_SIZE /\ given_up' = given_up
      /\ batch' \in [{"daemon"} -> Seq(Event)]
      /\ el' \in Seq(Event) /\ Len(el') <= AC_MAX_EVENTS
  BY <1>0, TakeType DEF TypeOK, LoopOK, Poll, Event
<1>2. next' \in [Check -> Nat]
  <2>1. \A c \in Check : Later(next[c]) \in Nat
    BY <1>0 DEF Later, TypeOK
  <2> QED BY <2>1 DEF Poll
<1>3. TypeOK'
  <2>1. rep' = rep /\ at' = "log" /\ i' = 1 /\ gap' = 0
    BY DEF Poll
  <2> QED BY <1>0, <1>1, <1>2, <2>1, Bounds, SMTT(30) DEF TypeOK, Poll, Event, Reporting
<1>4. ReportOK'
  BY <1>0 DEF ReportOK, Poll
<1>5. left = 0
  BY <1>0 DEF Poll, LoopOK
<1>6. LoopOK'
  <2>1. Len(el') \in Nat
    BY <1>1
  <2> QED BY <1>1, <1>5, <2>1 DEF LoopOK, Poll
<1>7. GapInv'
  <2>1. gap' = 0 /\ ReportLeft' = 0 /\ ToSleep' = 1
    BY <1>0 DEF Poll, ReportLeft, Reporting, ToSleep
  <2>2. ToReport' = Len(el') + CheckReports /\ Len(el') \in Nat
    BY <1>1, Costs DEF Poll, ToReport
  <2>3. PICK y \in Nat : y = ToReport'
    BY <2>2, Costs
  <2>4. y <= AC_MAX_EVENTS + CheckReports
    BY <1>1, <2>2, <2>3, Costs, Bounds
  <2>5. AC_MAX_EVENTS + CheckReports \in Nat
    BY Costs, Bounds
  <2>6. /\ ReportMax * y <= ReportMax * (AC_MAX_EVENTS + CheckReports)
        /\ ReportMax * y \in Nat /\ ReportMax * (AC_MAX_EVENTS + CheckReports) \in Nat
    BY <2>4, <2>5, Costs, Times
  <2> QED BY <2>1, <2>3, <2>6, Costs, SMTT(30) DEF GapInv
<1> QED BY <1>3, <1>4, <1>6, <1>7 DEF LoopInv

\* A step that leaves the report and the kernel's queue alone.
LEMMA QuietInv ==
    ASSUME LoopInv, UNCHANGED <<queue, given_up, rep>>, TypeOK', LoopOK',
           ToReport' <= ToReport, gap' + ToSleep' <= gap + ToSleep
    PROVE  LoopInv'
<1>1. ReportOK' /\ ReportLeft' = ReportLeft
  BY DEF LoopInv, ReportOK, ReportLeft, Stages
<1>2. MeasuresOK /\ gap \in Nat
  BY Measured, SMTT(30) DEF LoopInv, TypeOK
<1>3. MeasuresOK' /\ gap' \in Nat
  <2>1. (TypeOK /\ ReportOK /\ LoopOK => MeasuresOK)'
    BY Measured, PTL
  <2> QED BY <1>1, <2>1 DEF TypeOK
<1>4. gap' + ReportLeft' + ToSleep' <= gap + ReportLeft + ToSleep
  <2>1. LeftOK /\ LeftOK'
    BY <1>2, <1>3 DEF MeasuresOK
  <2>2. PICK a \in Nat, x \in Nat, y \in Nat, g \in Nat, h \in Nat :
          a = ReportLeft /\ x = ToSleep /\ y = ToSleep' /\ g = gap /\ h = gap'
    BY <1>2, <1>3, <2>1 DEF LeftOK
  <2>3. h + y <= g + x
    BY <2>2, Zenon
  <2>4. h + a + y <= g + a + x
    BY <2>3
  <2> QED BY <1>1, <2>2, <2>4, Zenon
<1> QED BY <1>1, <1>4, GapKept

\* The steps of the loop that neither report nor take events.
LEMMA LeaveInv == LoopInv /\ (Leave \/ Wake \/ ChecksDone \/ Signal) => LoopInv'
<1> SUFFICES ASSUME LoopInv, Leave \/ Wake \/ ChecksDone \/ Signal PROVE LoopInv'
  OBVIOUS
<1>0. TypeOK /\ LoopOK /\ MeasuresOK /\ LeftOK
  BY Measured DEF LoopInv, MeasuresOK
<1>1. CASE Leave
  <2>1. TypeOK'
    BY <1>0, <1>1 DEF TypeOK, Leave, kernel, timing, el, Reporting
  <2>2. LoopOK' /\ UNCHANGED <<queue, given_up, rep>>
    BY <1>0, <1>1 DEF LoopOK, Leave, kernel, timing, el
  <2>3. ToReport' = 0 /\ ToSleep' = 0 /\ gap' = gap
    BY <1>1 DEF ToReport, ToSleep, Leave, timing
  <2>4. ToReport' <= ToReport /\ gap' + ToSleep' <= gap + ToSleep
    BY <1>0, <2>3, SMTT(30) DEF LeftOK, TypeOK
  <2> QED BY <2>1, <2>2, <2>4, QuietInv, SMTT(30)
<1>2. CASE Wake
  <2>1. TypeOK'
    BY <1>0, <1>2 DEF TypeOK, Wake, kernel, timing, el, Reporting
  <2>2. LoopOK' /\ UNCHANGED <<queue, given_up, rep>>
    BY <1>0, <1>2 DEF LoopOK, Wake, kernel, timing, el
  <2>3. ToReport' = 0 /\ ToSleep' = 0 /\ gap' = gap
    BY <1>2, SMTT(30) DEF ToReport, ToSleep, Wake, timing
  <2>4. ToReport' <= ToReport /\ gap' + ToSleep' <= gap + ToSleep
    BY <1>0, <2>3 DEF LeftOK, TypeOK
  <2> QED BY <2>1, <2>2, <2>4, QuietInv
<1>3. CASE ChecksDone
  <2>1. TypeOK'
    BY <1>0, <1>3 DEF TypeOK, ChecksDone, kernel, timing, el, Reporting
  <2>2. LoopOK' /\ UNCHANGED <<queue, given_up, rep>>
    BY <1>0, <1>3 DEF LoopOK, ChecksDone, kernel, timing, el
  <2>3. ToReport' = 0 /\ ToSleep' = 1 /\ ToSleep = 1 /\ gap' = gap
    BY <1>3 DEF ToReport, ToSleep, ChecksDone, timing
  <2>4. ToReport' <= ToReport /\ gap' + ToSleep' <= gap + ToSleep
    BY <1>0, <2>3, SMTT(30) DEF LeftOK, TypeOK
  <2> QED BY <2>1, <2>2, <2>4, QuietInv
<1>4. CASE Signal
  <2>0. g_stop' \in BOOLEAN
    BY <1>4 DEF Signal
  <2>1. TypeOK'
    BY <1>0, <1>4, <2>0, SMTT(30) DEF TypeOK, Signal, kernel, timing, el, Reporting
  <2>2. LoopOK' /\ UNCHANGED <<queue, given_up, rep>>
    BY <1>0, <1>4 DEF LoopOK, Signal, kernel, timing, el
  <2>3. ToReport' = ToReport /\ ToSleep' = ToSleep /\ gap' = gap
    BY <1>4 DEF ToReport, ToSleep, Signal, kernel, timing, Due, el
  <2>4. ToReport' <= ToReport /\ gap' + ToSleep' <= gap + ToSleep
    BY <1>0, <2>3 DEF LeftOK, TypeOK
  <2> QED BY <2>1, <2>2, <2>4, QuietInv
<1> QED BY <1>1, <1>2, <1>3, <1>4

\* An event that raises no alert.
LEMMA LogInfoInv == LoopInv /\ LogInfo => LoopInv'
<1> SUFFICES ASSUME LoopInv, LogInfo PROVE LoopInv'
  OBVIOUS
<1>0. TypeOK /\ LoopOK /\ MeasuresOK /\ LeftOK /\ Len(el) \in Nat
  BY Measured, SMTT(30) DEF LoopInv, TypeOK, MeasuresOK
<1>1. TypeOK'
  <2>1. i' \in 1 .. AC_MAX_EVENTS + 1 /\ el' = el
    BY <1>0, Bounds, SMTT(30) DEF TypeOK, LogInfo, kernel, el
  <2> QED BY <1>0, <2>1, SMTT(30) DEF TypeOK, LogInfo, kernel, timing, Reporting
<1>2. LoopOK' /\ UNCHANGED <<queue, given_up, rep>>
  BY <1>0, Bounds DEF LoopOK, LogInfo, kernel, timing, el, TypeOK
<1>3. ToReport' + 1 = ToReport /\ ToSleep' = ToSleep /\ gap' = gap
  <2>1. el' = el /\ i' = i + 1 /\ at = "log" /\ at' = "log" /\ gap' = gap /\ i \in Nat
    BY <1>0, Bounds DEF LogInfo, kernel, timing, el, TypeOK
  <2>2. ToReport = Len(el) + 1 - i + CheckReports /\ ToReport' = Len(el) + 1 - (i + 1) + CheckReports
    BY <2>1 DEF ToReport
  <2> QED BY <1>0, <2>1, <2>2, Counts, SMTT(30) DEF ToSleep
<1>4. MeasuresOK'
  <2>1. (TypeOK /\ ReportOK /\ LoopOK => MeasuresOK)'
    BY Measured, PTL
  <2>2. ReportOK'
    BY <1>2 DEF LoopInv, ReportOK
  <2> QED BY <2>1, <2>2, <1>1, <1>2
<1>5. ToReport' <= ToReport /\ gap' + ToSleep' <= gap + ToSleep
  <2>1. LeftOK'
    BY <1>4 DEF MeasuresOK
  <2>2. gap \in Nat
    BY <1>0 DEF TypeOK
  <2>3. ToReport' \in Nat /\ ToReport \in Nat /\ ToSleep \in Nat
    BY <1>0, <2>1 DEF LeftOK
  <2>4. ToReport' <= ToReport
    <3>1. PICK x \in Nat, y \in Nat : x = ToReport /\ y = ToReport'
      BY <2>3
    <3>2. y + 1 = x
      BY <1>3, <3>1, Zenon
    <3>3. y <= x
      BY <3>2
    <3> QED BY <3>1, <3>3
  <2> QED BY <1>3, <2>2, <2>3, <2>4
<1> QED BY <1>1, <1>2, <1>5, QuietInv, SMTT(30)

\* An event that raises an alert is reported.
LEMMA LogAlertInv == LoopInv /\ LogAlert => LoopInv'
<1> SUFFICES ASSUME LoopInv, LogAlert PROVE LoopInv'
  OBVIOUS
<1>0. TypeOK /\ ReportOK /\ LoopOK /\ MeasuresOK /\ LeftOK /\ Len(el) \in Nat
  BY Measured, SMTT(30) DEF LoopInv, TypeOK, MeasuresOK
<1>1. /\ queue' \in Seq(Event) /\ Len(queue') <= AC_RING_SIZE /\ given_up' \in Nat
      /\ UNCHANGED batch
      /\ rep' \in RepType /\ ReportOK'
      /\ ReportLeft' \in Nat /\ ReportLeft' <= ReportMax
  BY <1>0, ReportStarts DEF LogAlert
<1>2. TypeOK'
  <2>1. i' \in 1 .. AC_MAX_EVENTS + 1 /\ at = "log" /\ at' = "log" /\ el' = el
    BY <1>0, <1>1, Bounds DEF TypeOK, LogAlert, el
  <2> QED BY <1>0, <1>1, <2>1, SMTT(30) DEF TypeOK, LogAlert, timing, Reporting, Event, RepType
<1>3. LoopOK'
  BY <1>0, <1>1, Bounds DEF LoopOK, LogAlert, timing, el, TypeOK
<1>4. ToReport' + 1 = ToReport /\ ToSleep' = ToSleep /\ gap' = gap
  <2>1. el' = el /\ i' = i + 1 /\ at = "log" /\ at' = "log" /\ gap' = gap /\ i \in Nat
    BY <1>0, <1>1, Bounds DEF LogAlert, timing, el, TypeOK
  <2>2. ToReport = Len(el) + 1 - i + CheckReports /\ ToReport' = Len(el) + 1 - (i + 1) + CheckReports
    BY <2>1 DEF ToReport
  <2> QED BY <1>0, <2>1, <2>2, Counts, SMTT(30) DEF ToSleep
<1>5. ToReport' + 1 <= ToReport
  BY <1>0, <1>4, SMTT(30) DEF LeftOK
<1> QED BY <1>1, <1>2, <1>3, <1>4, <1>5, GapReport, SMTT(30)

\* A finding of a check is reported.
LEMMA FindingInv == LoopInv /\ Finding => LoopInv'
<1> SUFFICES ASSUME LoopInv, Finding PROVE LoopInv'
  OBVIOUS
<1>0. TypeOK /\ ReportOK /\ LoopOK /\ MeasuresOK /\ LeftOK
  BY Measured DEF LoopInv, MeasuresOK
<1>1. /\ queue' \in Seq(Event) /\ Len(queue') <= AC_RING_SIZE /\ given_up' \in Nat
      /\ UNCHANGED batch
      /\ rep' \in RepType /\ ReportOK'
      /\ ReportLeft' \in Nat /\ ReportLeft' <= ReportMax
  BY <1>0, ReportStarts, SMTT(30) DEF Finding
<1>2. TypeOK'
  BY <1>0, <1>1, Bounds, SMTT(30) DEF TypeOK, Finding, timing, el, Reporting, Event, RepType
<1>3. LoopOK'
  BY <1>0, <1>1, Bounds DEF LoopOK, Finding, timing, el, TypeOK
<1>4. ToReport' + 1 = ToReport /\ ToSleep' = ToSleep /\ gap' = gap
  <2>1. Due' = Due
    BY DEF Due, Finding
  <2>2. left \in Nat /\ left' = left - 1 /\ Cardinality(Due) * MaxFindings \in Nat
    BY <1>0, Bounds DEF TypeOK, MeasuresOK, Finding
  <2>3. /\ ToReport = left + Cardinality(Due) * MaxFindings
        /\ ToReport' = left' + Cardinality(Due) * MaxFindings
    BY <2>1 DEF ToReport, Finding
  <2> QED BY <2>2, <2>3 DEF ToSleep, Finding, timing
<1>5. ToReport' + 1 <= ToReport
  BY <1>0, <1>4 DEF LeftOK
<1> QED BY <1>1, <1>2, <1>3, <1>4, <1>5, GapReport

\* The batch is done.
LEMMA LogDoneInv == LoopInv /\ LogDone => LoopInv'
<1> SUFFICES ASSUME LoopInv, LogDone PROVE LoopInv'
  OBVIOUS
<1>0. TypeOK /\ LoopOK /\ MeasuresOK /\ LeftOK /\ Len(el) \in Nat
  BY Measured DEF LoopInv, TypeOK, MeasuresOK
<1>1. batch' \in [{"daemon"} -> Seq(Event)] /\ el' = <<>> /\ UNCHANGED <<queue, given_up>>
  BY <1>0 DEF LogDone, K!Return, LoopOK, el, Event
<1>2. TypeOK'
  <2>1. el' \in Seq(Event) /\ Len(el') = 0 /\ i' \in 1 .. AC_MAX_EVENTS + 1 /\ at' = "checks"
    BY <1>1, Bounds DEF LogDone
  <2> QED BY <1>0, <1>1, <2>1, Bounds DEF TypeOK, LogDone, timing, Reporting, Event
<1>3. LoopOK'
  BY <1>0, <1>1 DEF LoopOK, LogDone
<1>4. ToSleep' = ToSleep /\ gap' = gap /\ rep' = rep
  BY DEF ToSleep, LogDone, timing
<1>5. ToReport' <= ToReport
  <2>1. Due' = Due /\ left' = 0
    BY <1>0 DEF Due, LogDone, LoopOK
  <2>2. ToReport = Len(el) + 1 - i + CheckReports /\ Len(el) + 1 - i \in Nat
    BY <1>0 DEF ToReport, LogDone, LoopOK, TypeOK
  <2>3. ToReport' = 0 + Cardinality(Due) * MaxFindings
    BY <2>1 DEF ToReport, LogDone
  <2>4. PICK d \in Nat, x \in Nat : d = Cardinality(Due) * MaxFindings /\ x = Len(el) + 1 - i
    BY <1>0, <2>2 DEF MeasuresOK
  <2>5. d <= CheckReports
    BY <1>0, <2>4 DEF MeasuresOK
  <2> QED BY <2>2, <2>3, <2>4, <2>5, Counts
<1>6. gap' + ToSleep' <= gap + ToSleep
  BY <1>0, <1>4 DEF LeftOK, TypeOK
<1> QED BY <1>1, <1>2, <1>3, <1>4, <1>5, <1>6, QuietInv, SMTT(30)

\* A check that is due runs: its findings are those that were counted for it.
LEMMA RunCheckLess == ASSUME LoopInv, NEW c \in Check, RunCheck(c) PROVE ToReport' <= ToReport
<1>0. TypeOK /\ MeasuresOK
  BY Measured DEF LoopInv
<1>1. Due' = Due \ {c} /\ c \in Due
  BY <1>0, Bounds, SMTT(30) DEF Due, RunCheck, TypeOK
<1>2. PICK d \in Nat : d = Cardinality(Due)
  BY <1>0 DEF MeasuresOK
<1>3. IsFiniteSet(Due)
  BY <1>0 DEF MeasuresOK
<1>4. Cardinality(Due \ {c}) = d - 1
  BY <1>1, <1>2, <1>3, FS_RemoveElement
<1>5. d >= 1
  <2>1. Due \ {c} \subseteq Due
    OBVIOUS
  <2>2. IsFiniteSet(Due \ {c})
    BY <1>3, <2>1, FS_Subset
  <2>3. Cardinality(Due \ {c}) \in Nat
    BY <2>2, FS_CardinalityType
  <2> QED BY <1>4, <2>3
<1>6. (d - 1) * MaxFindings + MaxFindings = d * MaxFindings /\ (d - 1) * MaxFindings \in Nat
  BY <1>5, Bounds, OneLess
<1>7. PICK x \in Nat, y \in Nat : x = d * MaxFindings /\ y = (d - 1) * MaxFindings /\ y + MaxFindings = x
  BY <1>6, Bounds
<1>8. ToReport = 0 + x /\ ToReport' = left' + y /\ left' \in 0 .. MaxFindings
  BY <1>1, <1>2, <1>4, <1>7 DEF ToReport, RunCheck
<1>9. PICK l \in 0 .. MaxFindings : l = left'
  BY <1>8
<1>10. l + y <= x
  BY <1>7, Bounds
<1> QED BY <1>7, <1>8, <1>9, <1>10

\* So the bound is kept.
LEMMA RunCheckInv == ASSUME LoopInv, NEW c \in Check, RunCheck(c) PROVE LoopInv'
<1>0. TypeOK /\ LoopOK /\ MeasuresOK /\ LeftOK
  BY Measured DEF LoopInv, MeasuresOK
<1>1. TypeOK'
  <2>1. next' \in [Check -> Nat] /\ since' \in [Check -> Nat]
    BY <1>0, Bounds, SMTT(30) DEF TypeOK, RunCheck
  <2> QED BY <1>0, <2>1 DEF TypeOK, RunCheck, kernel, el, Reporting
<1>2. LoopOK' /\ UNCHANGED <<queue, given_up, rep>>
  BY <1>0 DEF LoopOK, RunCheck, kernel, el
<1>3. ToSleep' = ToSleep /\ gap' = gap
  BY DEF ToSleep, RunCheck
<1>4. ToReport' <= ToReport
  BY RunCheckLess
<1>5. gap' + ToSleep' <= gap + ToSleep
  BY <1>0, <1>3 DEF LeftOK, TypeOK
<1> QED BY <1>1, <1>2, <1>3, <1>4, <1>5, QuietInv, SMTT(30)

\* SIGPIPE ends everything.
LEMMA WriteBrokenInv == LoopInv /\ WriteBroken => LoopInv'
<1> SUFFICES ASSUME LoopInv, WriteBroken PROVE LoopInv'
  OBVIOUS
<1>0. TypeOK /\ ReportOK /\ LoopOK /\ LeftOK
  BY Measured DEF LoopInv, MeasuresOK
<1>1. rep' \in RepType /\ rep'.at = "none" /\ rep'.spent = 0
  BY Bounds DEF NoReport, RepType, WriteBroken
<1>2. ReportOK'
  BY <1>1, Bounds, SMTT(30) DEF ReportOK
<1>3. TypeOK'
  BY <1>0, <1>1 DEF TypeOK, WriteBroken, kernel, timing, el, Reporting, RepType
<1>4. LoopOK'
  BY <1>0 DEF LoopOK, WriteBroken, kernel, el
<1>5. ReportLeft' = 0 /\ ToReport' = 0 /\ ToSleep' = 0 /\ gap' = gap
  BY <1>1 DEF ReportLeft, ToReport, ToSleep, WriteBroken, timing
<1>6. ToReport' <= ToReport /\ gap' + ReportLeft' + ToSleep' <= gap + ReportLeft + ToSleep
  BY <1>0, <1>5 DEF LeftOK, TypeOK
<1> QED BY <1>2, <1>3, <1>4, <1>6, GapKept

\* The events of others.
LEMMA ArrivalType ==
    ASSUME queue \in Seq(Event), Len(queue) <= AC_RING_SIZE, given_up \in Nat, Arrival
    PROVE  /\ queue' \in Seq(Event) /\ Len(queue') <= AC_RING_SIZE
           /\ given_up' \in Nat /\ UNCHANGED batch
<1>1. CASE UNCHANGED kernel
  BY <1>1 DEF kernel
<1>2. CASE \E e \in Arriving : Put(e)
  <2>1. PICK e \in Arriving : Put(e)
    BY <1>2
  <2>2. e \in Event
    BY LoopAssumption DEF Event
  <2> QED BY <2>1, <2>2, PutType
<1> QED BY <1>1, <1>2 DEF Arrival

\* A second passes: as much less is left of the wait.
LEMMA SecondInv == LoopInv /\ Second => LoopInv'
<1> SUFFICES ASSUME LoopInv, Second PROVE LoopInv'
  OBVIOUS
<1>0. TypeOK /\ ReportOK /\ LoopOK /\ LeftOK /\ MeasuresOK /\ gap \in Nat
  BY Measured DEF LoopInv, MeasuresOK, TypeOK
<1>1. /\ queue' \in Seq(Event) /\ Len(queue') <= AC_RING_SIZE /\ given_up' \in Nat
      /\ UNCHANGED batch
  BY <1>0, ArrivalType DEF Second, TypeOK, Event
<1>2. since' \in [Check -> Nat] /\ gap' = gap + 1 /\ el' = el
  BY <1>0, <1>1, SMTT(30) DEF Second, TypeOK, el
<1>3. LoopOK' /\ ToReport' = ToReport
  BY <1>0, <1>1, <1>2 DEF Second, LoopOK, ToReport, Due
<1>4. ToReport' <= ToReport
  BY <1>0, <1>3 DEF LeftOK
<1>5. CASE /\ Reporting /\ Bounded
           /\ rep' = [rep EXCEPT !.spent = @ + 1]
           /\ UNCHANGED slept
  <2>1. rep.spent + 1 \in Nat
    BY <1>0, Fields
  <2>2. rep' \in RepType
    BY <1>0, <1>5, <2>1, Fields, Updated, Zenon DEF RepType
  <2>3. /\ rep'.at = rep.at /\ rep'.n = rep.n /\ rep'.writes = rep.writes
        /\ rep'.spent = rep.spent + 1
    BY <1>0, <1>5, Fields DEF RepType
  <2>4. TypeOK'
    BY <1>0, <1>1, <1>2, <1>5, <2>2, <2>3, SMTT(30) DEF TypeOK, Second, Reporting, Event, RepType
  <2>5. ReportOK'
    BY <1>0, <1>5, <2>3, Fields, Bounds DEF ReportOK, Bounded
  <2>6. ToSleep' = ToSleep
    BY <1>5 DEF ToSleep, Second
  <2>7. ReportLeft' = ReportLeft - 1
    <3>1. Stages' = Stages
      BY <2>3 DEF Stages
    <3>2. PICK p \in Nat : p = AC_REPORT_TIMEOUT_SEC * Stages
      BY <1>0, Bounds, Times DEF MeasuresOK
    <3>3. PICK x \in Nat : x = rep.spent
      BY <1>0, Fields
    <3>4. ReportLeft = AC_REPORT_TIMEOUT_SEC - x + p
      BY <1>5, <3>2, <3>3 DEF ReportLeft, Reporting
    <3>5. ReportLeft' = AC_REPORT_TIMEOUT_SEC - (x + 1) + p
      BY <1>5, <2>3, <3>1, <3>2, <3>3 DEF ReportLeft, Reporting
    <3> QED BY <3>4, <3>5, Bounds
  <2>8. gap' + ReportLeft' + ToSleep' <= gap + ReportLeft + ToSleep
    BY <1>0, <1>2, <2>6, <2>7 DEF LeftOK
  <2> QED BY <1>3, <1>4, <2>4, <2>5, <2>8, GapKept
<1>6. CASE at = "sleep" /\ slept = 0 /\ slept' = 1 /\ UNCHANGED rep
  <2>1. TypeOK'
    BY <1>0, <1>1, <1>2, <1>6, SMTT(30) DEF TypeOK, Second, Reporting, Event
  <2>2. ReportOK' /\ ReportLeft' = ReportLeft
    BY <1>0, <1>6 DEF ReportOK, ReportLeft, Stages
  <2>3. ToSleep = 1 /\ ToSleep' = 0
    BY <1>6 DEF ToSleep, Second
  <2>4. gap' + ReportLeft' + ToSleep' <= gap + ReportLeft + ToSleep
    BY <1>0, <1>2, <2>2, <2>3 DEF LeftOK
  <2> QED BY <1>3, <1>4, <2>1, <2>2, <2>4, GapKept, SMTT(30)
<1> QED BY <1>5, <1>6, SMTT(30) DEF Second

-----------------------------------------------------------------------------
\* The start.
LEMMA LoopInitInv == Init => LoopInv
<1> SUFFICES ASSUME Init PROVE LoopInv
  OBVIOUS
<1>1. queue = <<>> /\ given_up = 0 /\ batch \in [{"daemon"} -> Seq(Event)] /\ el = <<>>
  BY DEF Init, K!Init, el
<1>2. rep \in RepType /\ rep.at = "none" /\ rep.spent = 0
  BY Bounds DEF Init, NoReport, RepType
<1>3. g_stop \in BOOLEAN /\ set \in Settings
  BY Zenon DEF Init
<1>4. queue \in Seq(Event) /\ Len(queue) = 0 /\ el \in Seq(Event) /\ Len(el) = 0
  BY <1>1
<1>5. next \in [Check -> Nat] /\ since \in [Check -> Nat]
  BY DEF Init
<1>6. TypeOK
  BY <1>1, <1>2, <1>3, <1>4, <1>5, Bounds, SMTT(30) DEF Init, TypeOK, RepType, Reporting, Event
<1>7. ReportOK /\ LoopOK
  BY <1>1, <1>2, Bounds DEF Init, ReportOK, LoopOK
<1>8. GapInv
  <2>1. gap = 0 /\ ReportLeft = 0 /\ ToReport = 0 /\ ToSleep = 0
    BY <1>2 DEF Init, ReportLeft, ToReport, ToSleep
  <2>2. AC_MAX_EVENTS + CheckReports \in Nat
    BY Bounds, Counts
  <2>3. ReportMax * (AC_MAX_EVENTS + CheckReports) \in Nat
    BY <2>2, Counts, Times
  <2>4. ReportMax * 0 = 0
    BY Counts
  <2> QED BY <2>1, <2>3, <2>4, Costs DEF GapInv
<1> QED BY <1>6, <1>7, <1>8 DEF LoopInv

\* Every step keeps the invariant.
LEMMA LoopNextInv == LoopInv /\ [Next]_vars => LoopInv'
<1> SUFFICES ASSUME LoopInv, [Next]_vars PROVE LoopInv'
  OBVIOUS
<1>1. CASE ac_report
  BY <1>1, ResolveOneInv, ResolveEndInv, ConnectInv, WriteBrokenInv DEF ac_report
<1>2. CASE Loop
  BY <1>2, PollInv, LeaveInv, LogInfoInv, LogAlertInv, LogDoneInv, RunCheckInv, FindingInv, SMTT(30) DEF Loop
<1>3. CASE Signal
  BY <1>3, LeaveInv
<1>4. CASE Second
  BY <1>4, SecondInv
<1>5. CASE UNCHANGED vars
  <2>1. TypeOK' /\ LoopOK' /\ UNCHANGED <<queue, given_up, rep>>
    BY <1>5 DEF vars, kernel, timing, LoopInv, TypeOK, LoopOK, el, Reporting
  <2>2. ToReport' = ToReport /\ ToSleep' = ToSleep /\ gap' = gap
    BY <1>5, SMTT(30) DEF vars, kernel, timing, ToReport, ToSleep, Due, el
  <2>3. LeftOK /\ gap \in Nat
    BY Measured DEF LoopInv, MeasuresOK, TypeOK
  <2>4. ToReport' <= ToReport /\ gap' + ToSleep' <= gap + ToSleep
    BY <2>2, <2>3 DEF LeftOK
  <2> QED BY <2>1, <2>4, QuietInv, SMTT(30)
<1> QED BY <1>1, <1>2, <1>3, <1>4, <1>5 DEF Next

\* The invariant holds throughout.
LEMMA LoopInvariant == Spec => []LoopInv
BY LoopInitInv, LoopNextInv, PTL DEF Spec

\* The daemon is back at AC_IOCTL_GET_EVENTS after GapMax seconds at the latest, however the
\* server and the name service behave: every wait of ac_report() has a timeout, the addresses,
\* the writes and the alerts of one turn of cmd_start()'s loop are bounded, and the sum of what
\* has passed and what is left never grows.
THEOREM PollGapAlways == Spec => []PollGapBounded
<1>1. LoopInv => PollGapBounded
  <2> SUFFICES ASSUME LoopInv PROVE PollGapBounded
    BY SMTT(30)
  <2>1. MeasuresOK /\ gap \in Nat /\ TypeOK /\ GapInv
    BY Measured DEF LoopInv, TypeOK
  <2>2. PICK a \in Nat, p \in Nat, z \in Nat :
          a = ReportLeft /\ p = ReportMax * ToReport /\ z = ToSleep
    BY <2>1 DEF MeasuresOK, LeftOK
  <2>3. PICK m \in Int : m = GapMax
    <3>1. AC_MAX_EVENTS + CheckReports \in Nat
      BY Bounds, Counts
    <3>2. ReportMax * (AC_MAX_EVENTS + CheckReports) \in Nat
      BY <3>1, Counts, Times
    <3> QED BY <3>2, Costs
  <2>4. gap + a + p + z <= m
    BY <2>1, <2>2, <2>3 DEF GapInv
  <2>5. gap <= m
    BY <2>1, <2>4, SMTT(30)
  <2> QED BY <2>1, <2>3, <2>5 DEF PollGapBounded
<1> QED BY <1>1, LoopInvariant, PTL

-----------------------------------------------------------------------------
(* A server that answers at once.                                            *)

\* A step that leaves the clocks alone.
LEMMA SameTime ==
    ASSUME TimeInv, UNCHANGED <<at, slept, gap, next, since, set>>
    PROVE  TimeInv'
BY DEF TimeInv

\* Every step keeps the times of the checks.
LEMMA TimeNextInv == LoopInv /\ TimeInv /\ [Next]_vars => TimeInv'
<1> SUFFICES ASSUME LoopInv, TimeInv, [Next]_vars PROVE TimeInv'
  OBVIOUS
<1>0. /\ gap \in Nat /\ slept \in 0 .. 1
      /\ next \in [Check -> Nat] /\ since \in [Check -> Nat] /\ Interval \in Nat \ {0}
      /\ Reporting => at \in {"log", "checks"}
  BY Bounds DEF LoopInv, TypeOK
<1>1. CASE ac_report
  <2>1. CASE WriteBroken
    BY <1>0, <2>1 DEF WriteBroken, TimeInv, timing
  <2>2. CASE ~WriteBroken
    <3>1. UNCHANGED rest
      BY <1>1, <2>2 DEF ac_report, ResolveOne, ResolveEnd, Connected, ConnectFails, WriteSome,
                        WriteRest, ReportEnd
    <3> QED BY <3>1, SameTime DEF rest, timing
  <2> QED BY <2>1, <2>2
<1>2. CASE Poll
  <2> SUFFICES ASSUME ~set.hung
               PROVE  /\ gap' <= 1 /\ gap' = 0
                      /\ \A c \in Check : next'[c] <= Interval /\ since'[c] + next'[c] <= Interval + gap'
    BY <1>2 DEF TimeInv, Poll
  <2>1. gap' = 0 /\ since' = since /\ \A c \in Check : next'[c] = Later(next[c])
    BY <1>2 DEF Poll
  <2>2. gap = 0 \/ (gap = 1 /\ \A c \in Check : next[c] >= 1)
    BY <1>0, <1>2 DEF TimeInv, Poll
  <2>3. ASSUME NEW c \in Check
        PROVE  next'[c] <= Interval /\ since'[c] + next'[c] <= Interval + gap'
    <3>1. next[c] \in Nat /\ since[c] \in Nat
      BY <1>0
    <3>2. next[c] <= Interval /\ since[c] + next[c] <= Interval + gap
      BY DEF TimeInv
    <3>3. Later(next[c]) = next[c] - gap
      BY <1>0, <2>2, <3>1 DEF Later
    <3> QED BY <1>0, <2>1, <2>2, <3>1, <3>2, <3>3
  <2> QED BY <2>1, <2>3, SMTT(30)
<1>3. CASE LogInfo \/ LogAlert \/ Finding \/ Signal
  BY <1>3, SameTime DEF LogInfo, LogAlert, Finding, Signal, timing
<1>4. CASE Leave
  BY <1>0, <1>4 DEF Leave, TimeInv, timing
<1>5. CASE LogDone
  BY <1>0, <1>5 DEF LogDone, TimeInv, timing
<1>6. ASSUME NEW c \in Check, RunCheck(c) PROVE TimeInv'
  <2>1. /\ next' = [next EXCEPT ![c] = Interval] /\ since' = [since EXCEPT ![c] = 0]
        /\ at = "checks" /\ at' = "checks" /\ UNCHANGED <<gap, slept, set>>
    BY <1>6 DEF RunCheck
  <2> QED BY <1>0, <2>1 DEF TimeInv
<1>7. CASE ChecksDone
  <2>1. /\ at = "checks" /\ at' = "sleep" /\ slept' = 0 /\ UNCHANGED <<gap, next, since, set>>
        /\ \A c \in Check : next[c] > 0
    BY <1>7 DEF ChecksDone
  <2> QED BY <1>0, <2>1 DEF TimeInv
<1>8. CASE Wake
  <2>1. /\ at = "sleep" /\ at' = "top" /\ UNCHANGED <<gap, next, since, set>>
    BY <1>8, SMTT(30) DEF Wake
  <2> QED BY <1>0, <2>1 DEF TimeInv
<1>9. CASE Second
  <2> SUFFICES ASSUME ~set.hung PROVE TimeInv'
    BY <1>9 DEF TimeInv, Second
  <2>1. /\ at = "sleep" /\ slept = 0 /\ slept' = 1 /\ gap' = gap + 1 /\ UNCHANGED <<at, next, set>>
        /\ since' = [c \in Check |-> IF since[c] > Interval THEN since[c] ELSE since[c] + 1]
    BY <1>9, SMTT(30) DEF Second
  <2>2. gap = 0 /\ \A c \in Check : next[c] >= 1
    BY <2>1 DEF TimeInv
  <2>3. ASSUME NEW c \in Check PROVE since'[c] + next'[c] <= Interval + gap'
    <3>1. next[c] \in Nat /\ since[c] \in Nat /\ next[c] >= 1 /\ since[c] + next[c] <= Interval + gap
      BY <1>0, <2>2 DEF TimeInv
    <3>2. since'[c] = since[c] + 1
      BY <1>0, <2>1, <2>2, <3>1
    <3> QED BY <1>0, <2>1, <3>1, <3>2, SMTT(30)
  <2> QED BY <2>1, <2>2, <2>3 DEF TimeInv
<1>10. CASE UNCHANGED vars
  BY <1>10, SameTime DEF vars, timing
<1> QED BY <1>1, <1>2, <1>3, <1>4, <1>5, <1>6, <1>7, <1>8, <1>9, <1>10, SMTT(30) DEF Next, Loop

\* While the server answers at once no check starts later than its interval: time passes only in
\* sleep(1), the loop never sleeps with a check due, and the due time is counted from the same
\* reading of the clock that decided the check was due (cmd_start).
THEOREM ChecksOnTimeAlways == Spec => []ChecksOnTime
<1>1. Init => TimeInv
  BY Bounds DEF Init, TimeInv
<1>2. Spec => []TimeInv
  BY <1>1, LoopInvariant, TimeNextInv, PTL DEF Spec
<1>3. LoopInv /\ TimeInv => ChecksOnTime
  <2> SUFFICES ASSUME LoopInv, TimeInv, ~set.hung, NEW c \in Check PROVE since[c] <= Interval
    BY DEF ChecksOnTime
  <2>1. /\ gap \in Nat /\ slept \in 0 .. 1 /\ next[c] \in Nat /\ since[c] \in Nat /\ Interval \in Nat
        /\ at \in {"top", "log", "checks", "sleep", "stopped", "killed"}
    BY Bounds DEF LoopInv, TypeOK
  <2> QED BY <2>1 DEF TimeInv
<1> QED BY <1>2, <1>3, LoopInvariant, PTL

-----------------------------------------------------------------------------
\* The reports of this turn, counted over the alerts alone.
LEMMA OwnType ==
    LoopInv => /\ OwnReports \in Nat /\ AlertLeft \in 0 .. 1
               /\ Len(queue) \in Nat /\ Len(el) \in Nat /\ ToSleep \in Nat
<1> SUFFICES ASSUME LoopInv
             PROVE  /\ OwnReports \in Nat /\ AlertLeft \in 0 .. 1
                    /\ Len(queue) \in Nat /\ Len(el) \in Nat /\ ToSleep \in Nat
  OBVIOUS
<1>1. AlertLeft \in 0 .. 1
  BY DEF AlertLeft
<1>2. PICK d \in Nat : d = Cardinality(Due) * MaxFindings
  BY Measured DEF LoopInv, MeasuresOK
<1>3. left \in Nat
  BY Bounds DEF LoopInv, TypeOK
<1>4. OwnReports \in Nat
  BY <1>1, <1>2, <1>3, Counts, SMTT(30) DEF OwnReports
<1>5. Len(queue) \in Nat /\ Len(el) \in Nat
  BY DEF LoopInv, TypeOK
<1>6. ToSleep \in Nat
  BY Measured, SMTT(30) DEF LoopInv, MeasuresOK, LeftOK
<1> QED BY <1>1, <1>4, <1>5, <1>6

\* The queue with one event more.
LEMMA Appended ==
    ASSUME NEW s \in Seq(Event), NEW e \in Event
    PROVE  /\ Len(Append(s, e)) = Len(s) + 1
           /\ NoAlert(s) /\ e = "info" => NoAlert(Append(s, e))
           /\ OneAlert(s) /\ e = "info" => OneAlert(Append(s, e))
           /\ NoAlert(s) => OneAlert(Append(s, e))
<1> DEFINE t == Append(s, e)
<1>1. /\ Len(t) = Len(s) + 1 /\ Len(s) \in Nat /\ DOMAIN t = 1 .. Len(s) + 1 /\ DOMAIN s = 1 .. Len(s)
      /\ t[Len(s) + 1] = e /\ \A j \in 1 .. Len(s) : t[j] = s[j]
  OBVIOUS
<1> HIDE DEF t
<1>2. \A j \in DOMAIN t : j \in DOMAIN s \/ j = Len(s) + 1
  BY <1>1
<1>3. NoAlert(s) /\ e = "info" => NoAlert(t)
  BY <1>1, <1>2 DEF NoAlert
<1>4. OneAlert(s) /\ e = "info" => OneAlert(t)
  BY <1>1, <1>2 DEF OneAlert
<1>5. NoAlert(s) => OneAlert(t)
  BY <1>1, <1>2 DEF NoAlert, OneAlert
<1> QED BY <1>1, <1>3, <1>4, <1>5 DEF t

\* With room in the queue, the resolver's event is put at its end and nothing is given up.
LEMMA ResolverAdds ==
    ASSUME queue \in Seq(Event), Len(queue) < AC_RING_SIZE, OneAlert(queue), Resolver
    PROVE  /\ given_up' = given_up /\ batch' = batch
           /\ OneAlert(queue') /\ (NoAlert(queue) => NoAlert(queue'))
           /\ Len(queue') \in {Len(queue), Len(queue) + 1}
<1>1. CASE Put("info")
  <2>1. Len(queue) \in Nat /\ "info" \in Event
    BY DEF Event
  <2>2. queue' = Append(queue, "info") /\ given_up' = given_up /\ batch' = batch
    BY <1>1, <2>1, Bounds DEF Put, K!PutFree, K!PutFull
  <2> QED BY <2>1, <2>2, Appended
<1>2. CASE UNCHANGED kernel
  BY <1>2 DEF kernel
<1> QED BY <1>1, <1>2 DEF Resolver

\* A step that leaves the queue and the batch alone and adds no report.
LEMMA SameQueue ==
    ASSUME LoopInv, LoopInv', QueueInv, UNCHANGED <<queue, given_up, set>>,
           OneAlert(el) => OneAlert(el'),
           at' \in {"log", "checks"} \/ (at' = "sleep" /\ slept' = 0)
               => at \in {"log", "checks"} \/ (at = "sleep" /\ slept = 0),
           OwnReports' <= OwnReports, Resolving' <= Resolving, ToSleep' <= ToSleep
    PROVE  QueueInv'
<1>1. /\ OwnReports \in Nat /\ Len(queue) \in Nat /\ ToSleep \in Nat
      /\ Resolving \in 0 .. 1 /\ Resolving' \in 0 .. 1
  BY OwnType DEF Resolving
<1>2. OwnReports' \in Nat /\ ToSleep' \in Nat
  <2>1. (LoopInv => /\ OwnReports \in Nat /\ AlertLeft \in 0 .. 1
               /\ Len(queue) \in Nat /\ Len(el) \in Nat /\ ToSleep \in Nat)'
    BY OwnType, PTL
  <2> QED BY <2>1
<1>3. ASSUME ~set.hung
      PROVE  Len(queue') + 2 * OwnReports' + Resolving' + ToSleep' <= Pending
  <2>1. Len(queue) + 2 * OwnReports + Resolving + ToSleep <= Pending
    BY <1>3 DEF QueueInv
  <2>2. PICK a \in Nat, x \in Nat, y \in Nat, u \in Nat, v \in Nat, z \in Nat, w \in Nat :
          /\ a = Len(queue) /\ x = OwnReports /\ y = OwnReports' /\ u = Resolving /\ v = Resolving'
          /\ z = ToSleep /\ w = ToSleep'
    BY <1>1, <1>2
  <2>3. Pending \in Nat
    BY Counts, SMTT(30) DEF Pending
  <2>4. a + 2 * y + v + w <= a + 2 * x + u + z
    BY <2>2, SMTT(30)
  <2>5. a + 2 * x + u + z <= Pending
    BY <2>1, <2>2
  <2>6. a + 2 * y + v + w <= Pending
    BY <2>3, <2>4, <2>5
  <2> QED BY <2>2, <2>6, SMTT(30)
<1> QED BY <1>3 DEF QueueInv

\* One turn's events fit into a batch and into the queue.
Rate == Pending <= AC_MAX_EVENTS /\ Pending <= AC_RING_SIZE

\* The arithmetic of one event more for one less to come.
LEMMA OneMore ==
    ASSUME NEW q \in Nat, NEW l \in Nat, NEW x \in Nat, NEW y \in Nat, NEW u \in Nat, NEW v \in Nat,
           NEW z \in Nat, NEW p \in Nat, NEW n \in Nat, q + 2 * x + u + z <= p, p <= n,
           2 * y + v + 1 <= 2 * x + u
    PROVE  q < n /\ (l \in {q, q + 1} => l + 2 * y + v + z <= p)
OBVIOUS

\* The types that it takes, now and after a step.
LEMMA LoadType ==
    ASSUME LoopInv, LoopInv'
    PROVE  /\ OwnReports \in Nat /\ OwnReports' \in Nat
           /\ Len(queue) \in Nat /\ Len(queue') \in Nat
           /\ ToSleep \in Nat /\ ToSleep' \in Nat
           /\ Resolving \in Nat /\ Resolving' \in Nat /\ Pending \in Nat
<1>1. (LoopInv => /\ OwnReports \in Nat /\ AlertLeft \in 0 .. 1
               /\ Len(queue) \in Nat /\ Len(el) \in Nat /\ ToSleep \in Nat)'
    BY OwnType, PTL
<1>2. Resolving \in Nat /\ Resolving' \in Nat /\ Pending \in Nat
  BY Counts, SMTT(30) DEF Resolving, Pending
<1> QED BY <1>1, <1>2, OwnType

\* A step that may put the resolver's event, in return for one that was to come.
LEMMA ResolverStep ==
    ASSUME Rate, LoopInv, LoopInv', QueueInv, Resolver, UNCHANGED <<at, slept, set>>,
           2 * OwnReports' + Resolving' + 1 <= 2 * OwnReports + Resolving
    PROVE  QueueInv'
<1> SUFFICES ASSUME ~set.hung
             PROVE  /\ given_up' = 0 /\ OneAlert(queue') /\ OneAlert(el')
                    /\ at \in {"log", "checks"} \/ (at = "sleep" /\ slept = 0) => NoAlert(queue')
                    /\ Len(queue') + 2 * OwnReports' + Resolving' + ToSleep' <= Pending
  BY SMTT(30) DEF QueueInv
<1>1. /\ Len(queue) + 2 * OwnReports + Resolving + ToSleep <= Pending
      /\ Pending <= AC_RING_SIZE /\ AC_RING_SIZE \in Nat
  BY Bounds, SMTT(30) DEF QueueInv, Rate
<1>2. /\ Len(queue) < AC_RING_SIZE
      /\ Len(queue') \in {Len(queue), Len(queue) + 1}
            => Len(queue') + 2 * OwnReports' + Resolving' + ToSleep <= Pending
  BY <1>1, LoadType, OneMore, Zenon
<1>3. queue \in Seq(Event) /\ OneAlert(queue) /\ OneAlert(el) /\ given_up = 0
  BY DEF QueueInv, LoopInv, TypeOK, Event
<1>4. /\ given_up' = given_up /\ batch' = batch
      /\ OneAlert(queue') /\ (NoAlert(queue) => NoAlert(queue'))
      /\ Len(queue') \in {Len(queue), Len(queue) + 1}
  BY <1>2, <1>3, ResolverAdds
<1>5. ToSleep' = ToSleep /\ el' = el
  BY <1>4 DEF ToSleep, el
<1> QED BY <1>2, <1>3, <1>4, <1>5, SMTT(30) DEF QueueInv

\* A report takes the two events that were counted for it.
LEMMA ReportStep ==
    ASSUME Rate, LoopInv, LoopInv', QueueInv, Report, ~Reporting, UNCHANGED <<at, slept, set>>,
           OwnReports' + 1 <= OwnReports
    PROVE  QueueInv'
<1>1. Resolving = 0
  BY DEF Resolving, Reporting
<1>2. PICK x \in Nat, y \in Nat : x = OwnReports /\ y = OwnReports'
  BY LoadType
<1>3. y + 1 <= x
  BY <1>2, Zenon
<1>4. y <= x /\ 2 * y + 1 + 1 <= 2 * x + 0
  BY <1>3
<1>5. CASE rep' = [NoReport EXCEPT !.at = "resolve"] /\ Resolver
  <2>1. Resolving' = 1
    BY <1>5 DEF Resolving, NoReport
  <2>2. 2 * OwnReports' + Resolving' + 1 <= 2 * OwnReports + Resolving
    BY <1>1, <1>2, <1>4, <2>1, Zenon
  <2> QED BY <1>5, <2>2, ResolverStep
<1>6. CASE UNCHANGED <<rep, kernel>>
  <2>1. Resolving' = Resolving /\ UNCHANGED <<queue, given_up>> /\ el' = el
    BY <1>6 DEF Resolving, kernel, el
  <2>2. ToSleep' = ToSleep
    BY DEF ToSleep
  <2>3. OwnReports' <= OwnReports
    BY <1>2, <1>4
  <2>4. Resolving' <= Resolving /\ ToSleep' <= ToSleep
    BY <1>1, <2>1, <2>2, OwnType, SMTT(30)
  <2> QED BY <2>1, <2>3, <2>4, SameQueue, SMTT(30)
<1> QED BY <1>5, <1>6 DEF Report

\* A report's own steps.
LEMMA ReportQueue ==
    ASSUME Rate, LoopInv, LoopInv', QueueInv, ac_report
    PROVE  QueueInv'
<1>0. OwnReports \in Nat /\ ToSleep \in Nat
  BY OwnType
<1>1. CASE WriteBroken
  <2>1. OwnReports' = 0 /\ Resolving' = 0 /\ ToSleep' = 0 /\ Resolving = 0
    BY <1>1 DEF WriteBroken, OwnReports, Resolving, ToSleep, NoReport
  <2>2. OwnReports' <= OwnReports /\ Resolving' <= Resolving /\ ToSleep' <= ToSleep
    BY <1>0, <2>1
  <2> QED BY <1>1, <2>2, SameQueue, SMTT(30) DEF WriteBroken, kernel, el
<1>2. CASE ResolveEnd
  <2>1. OwnReports' = OwnReports
    BY <1>2, ResolverType DEF ResolveEnd, rest, OwnReports, AlertLeft, Due, el, LoopInv, TypeOK, Event
  <2>2. Resolving = 1 /\ Resolving' = 0
    <3>1. rep'.at # "resolve"
      BY <1>2, Fields DEF ResolveEnd, NoReport, LoopInv, RepType
    <3> QED BY <1>2, <3>1 DEF Resolving, ResolveEnd
  <2>3. 2 * OwnReports' + Resolving' + 1 <= 2 * OwnReports + Resolving
    BY <1>0, <2>1, <2>2, SMTT(30)
  <2> QED BY <1>2, <2>3, ResolverStep DEF ResolveEnd, rest, timing
<1>3. CASE ResolveOne \/ Connected \/ ConnectFails \/ WriteSome \/ WriteRest \/ ReportEnd
  <2>1. UNCHANGED <<kernel, rest>>
    BY <1>3 DEF ResolveOne, Connected, ConnectFails, WriteSome, WriteRest, ReportEnd
  <2>2. UNCHANGED <<queue, given_up, batch, at, i, left, next, slept, set>> /\ el' = el
    BY <2>1, SMTT(30) DEF kernel, rest, timing, el
  <2>3. OwnReports' = OwnReports /\ ToSleep' = ToSleep
    BY <2>2 DEF OwnReports, AlertLeft, Due, ToSleep
  <2>4. Resolving' <= Resolving
    <3>1. rep'.at = "resolve" => rep.at = "resolve"
      <4>1. rep \in RepType
        BY Fields DEF LoopInv
      <4>2. CASE ResolveOne
        BY <4>2 DEF ResolveOne
      <4>3. CASE ConnectFails \/ WriteSome
        <5>1. CASE rep' = NoReport
          BY <5>1 DEF NoReport
        <5>2. CASE rep' = [rep EXCEPT !.n = @ - 1, !.spent = 0]
          BY <4>1, <5>2 DEF RepType
        <5>3. CASE rep' = [rep EXCEPT !.writes = @ + 1, !.spent = 0]
          BY <4>1, <5>3 DEF RepType
        <5> QED BY <4>3, <5>1, <5>2, <5>3, SMTT(30) DEF ConnectFails, WriteSome
      <4>4. CASE Connected \/ WriteRest \/ ReportEnd
        BY <4>4 DEF Connected, WriteRest, ReportEnd, NoReport
      <4> QED BY <1>3, <4>2, <4>3, <4>4, SMTT(30)
    <3> QED BY <3>1 DEF Resolving
  <2>5. OwnReports' <= OwnReports /\ ToSleep' <= ToSleep
    BY <1>0, <2>3, SMTT(30)
  <2> QED BY <2>2, <2>4, <2>5, SameQueue
<1> QED BY <1>1, <1>2, <1>3 DEF ac_report

\* The loop's steps that take no event and put none.
LEMMA QuietQueue ==
    ASSUME LoopInv, LoopInv', QueueInv,
           Leave \/ Wake \/ ChecksDone \/ Signal \/ LogInfo \/ LogDone \/ (\E c \in Check : RunCheck(c))
    PROVE  QueueInv'
<1>0. /\ OwnReports \in Nat /\ ToSleep \in Nat /\ OwnReports' \in Nat /\ Len(el) \in Nat
      /\ slept \in 0 .. 1 /\ AlertLeft \in 0 .. 1 /\ i \in Nat
  <2>1. slept \in 0 .. 1 /\ i \in Nat
    BY Bounds, SMTT(30) DEF LoopInv, TypeOK
  <2> QED BY <2>1, OwnType, LoadType, SMTT(30)
<1>1. CASE Leave \/ Wake
  <2>1. OwnReports' = 0 /\ ToSleep' = 0 /\ rep' = rep /\ el' = el /\ at' \in {"top", "stopped"}
    BY <1>1 DEF Leave, Wake, OwnReports, ToSleep, kernel, el
  <2>2. OwnReports' <= OwnReports /\ ToSleep' <= ToSleep /\ Resolving' <= Resolving
    BY <1>0, <2>1, SMTT(30) DEF Resolving
  <2> QED BY <1>1, <2>1, <2>2, SameQueue, SMTT(30) DEF Leave, Wake, kernel
<1>2. CASE ChecksDone
  <2>1. OwnReports' = 0 /\ ToSleep' = 1 /\ ToSleep = 1 /\ rep' = rep /\ el' = el /\ at = "checks"
    BY <1>2 DEF ChecksDone, OwnReports, ToSleep, kernel, el
  <2>2. OwnReports' <= OwnReports /\ ToSleep' <= ToSleep /\ Resolving' <= Resolving
    BY <1>0, <2>1, SMTT(30) DEF Resolving
  <2> QED BY <1>2, <2>1, <2>2, SameQueue, SMTT(30) DEF ChecksDone, kernel
<1>3. CASE Signal
  <2>1. UNCHANGED <<queue, given_up, batch, at, i, left, next, rep, slept, set>> /\ el' = el
    BY <1>3, SMTT(30) DEF Signal, kernel, timing, el
  <2>2. OwnReports' = OwnReports /\ ToSleep' = ToSleep /\ Resolving' = Resolving
    BY <2>1 DEF OwnReports, AlertLeft, Due, ToSleep, Resolving
  <2>3. OwnReports' <= OwnReports /\ ToSleep' <= ToSleep /\ Resolving' <= Resolving
    BY <1>0, <2>2, SMTT(30) DEF Resolving
  <2> QED BY <2>1, <2>3, SameQueue, SMTT(30)
<1>4. CASE LogInfo
  <2>1. UNCHANGED <<queue, given_up, batch, at, left, next, rep, slept, set>> /\ el' = el
        /\ at = "log" /\ i' = i + 1
    BY <1>4 DEF LogInfo, kernel, timing, el
  <2>2. ToSleep' = ToSleep /\ Resolving' = Resolving
    BY <2>1 DEF ToSleep, Resolving
  <2>3. AlertLeft' <= AlertLeft /\ AlertLeft' \in 0 .. 1
    <3>1. \A j \in i + 1 .. Len(el) : j \in i .. Len(el)
      BY <1>0
    <3> QED BY <2>1, <3>1 DEF AlertLeft
  <2>4. OwnReports = AlertLeft + CheckReports /\ OwnReports' = AlertLeft' + CheckReports
    BY <2>1 DEF OwnReports
  <2>5. OwnReports' <= OwnReports
    <3>1. PICK x \in Nat, y \in Nat, n \in Nat : x = AlertLeft /\ y = AlertLeft' /\ n = CheckReports
      BY <1>0, <2>3, Counts
    <3>2. y <= x
      BY <2>3, <3>1
    <3>3. y + n <= x + n
      BY <3>2
    <3> QED BY <2>4, <3>1, <3>3, Zenon
  <2>6. ToSleep' <= ToSleep /\ Resolving' <= Resolving
    BY <1>0, <2>2, SMTT(30) DEF Resolving
  <2> QED BY <2>1, <2>5, <2>6, SameQueue, SMTT(30)
<1>5. CASE LogDone
  <2>1. /\ UNCHANGED <<queue, given_up, left, next, rep, slept, set>>
        /\ at = "log" /\ at' = "checks"
        /\ batch' = [batch EXCEPT !["daemon"] = <<>>]
    BY <1>5 DEF LogDone, K!Return, timing
  <2>2. ToSleep' = ToSleep /\ Resolving' = Resolving
    BY <2>1 DEF ToSleep, Resolving
  <2>3. OneAlert(el')
    <3>1. el' = <<>>
      BY <2>1, SMTT(30) DEF el, LoopInv, LoopOK
    <3> QED BY <3>1, SMTT(30) DEF OneAlert
  <2>4. left' = 0 /\ Due' = Due
    BY <2>1 DEF LoopInv, LoopOK, Due
  <2>5. PICK d \in Nat : d = Cardinality(Due) * MaxFindings /\ d <= CheckReports
    BY Measured, SMTT(30) DEF LoopInv, MeasuresOK
  <2>6. OwnReports = AlertLeft + CheckReports /\ OwnReports' = 0 + d
    BY <2>1, <2>4, <2>5, SMTT(30) DEF OwnReports
  <2>7. OwnReports' <= OwnReports
    BY <1>0, <2>5, <2>6, Counts, SMTT(30)
  <2>8. ToSleep' <= ToSleep /\ Resolving' <= Resolving
    BY <1>0, <2>2, SMTT(30) DEF Resolving
  <2> QED BY <2>1, <2>3, <2>7, <2>8, SameQueue, SMTT(30)
<1>6. ASSUME NEW c \in Check, RunCheck(c) PROVE QueueInv'
  <2>1. UNCHANGED <<queue, given_up, batch, at, i, rep, slept, set>> /\ el' = el /\ at = "checks"
    BY <1>6 DEF RunCheck, kernel, el
  <2>2. ToSleep' = ToSleep /\ Resolving' = Resolving
    BY <2>1, SMTT(30) DEF ToSleep, Resolving
  <2>3. OwnReports = ToReport /\ OwnReports' = ToReport'
    BY <2>1 DEF OwnReports, ToReport
  <2>4. OwnReports' <= OwnReports
    BY <1>6, <2>3, RunCheckLess, SMTT(30)
  <2>5. ToSleep' <= ToSleep /\ Resolving' <= Resolving
    BY <1>0, <2>2 DEF Resolving
  <2> QED BY <2>1, <2>4, <2>5, SameQueue, SMTT(30)
<1> QED BY <1>1, <1>2, <1>3, <1>4, <1>5, <1>6, SMTT(30)

\* The events raise at most one alert, so at most one report is left after each.
LEMMA LogAlertQueue ==
    ASSUME Rate, LoopInv, LoopInv', QueueInv, LogAlert
    PROVE  QueueInv'
<1> SUFFICES ASSUME ~set.hung PROVE QueueInv'
  BY DEF QueueInv, LogAlert
<1>1. /\ at = "log" /\ at' = "log" /\ i' = i + 1 /\ UNCHANGED <<slept, set>> /\ ~Reporting /\ Report
      /\ i <= Len(el) /\ el[i] = "alert"
  BY DEF LogAlert, timing
<1>2. el' = el /\ Len(el) \in Nat /\ i \in 1 .. Len(el) /\ DOMAIN el = 1 .. Len(el)
  <2>1. batch' = batch
    BY <1>1, ReportStarts DEF LoopInv
  <2>2. el' = el
    BY <2>1, SMTT(30) DEF el
  <2>3. el \in Seq(Event) /\ i \in Nat /\ i >= 1
    BY Bounds DEF LoopInv, TypeOK, Event
  <2> QED BY <1>1, <2>2, <2>3
<1>3. OneAlert(el)
  BY DEF QueueInv
<1>4. ASSUME NEW j \in i + 1 .. Len(el) PROVE el[j] # "alert"
  <2>1. j \in 1 .. Len(el) /\ j # i
    BY <1>2
  <2> QED BY <1>1, <1>2, <1>3, <2>1, SMTT(30) DEF OneAlert
<1>5. AlertLeft' = 0
  BY <1>1, <1>2, <1>4 DEF AlertLeft
<1>6. AlertLeft = 1
  <2>1. i \in i .. Len(el)
    BY <1>2
  <2> QED BY <1>1, <2>1 DEF AlertLeft
<1>7. OwnReports' + 1 <= OwnReports
  BY <1>1, <1>5, <1>6, Counts, SMTT(30) DEF OwnReports
<1> QED BY <1>1, <1>7, ReportStep, SMTT(30)

\* A finding's report is one of those that were counted.
LEMMA FindingQueue ==
    ASSUME Rate, LoopInv, LoopInv', QueueInv, Finding
    PROVE  QueueInv'
<1>1. /\ at = "checks" /\ at' = "checks" /\ UNCHANGED <<slept, set, next>> /\ ~Reporting /\ Report
      /\ left' = left - 1 /\ left \in Nat /\ left > 0
  BY Bounds DEF Finding, timing, LoopInv, TypeOK
<1>2. PICK d \in Nat : d = Cardinality(Due) * MaxFindings
  BY Measured DEF LoopInv, MeasuresOK
<1>3. Due' = Due
  BY <1>1 DEF Due
<1>4. OwnReports = left + d /\ OwnReports' = left - 1 + d
  BY <1>1, <1>2, <1>3, SMTT(30) DEF OwnReports
<1>5. OwnReports' + 1 <= OwnReports
  BY <1>1, <1>2, <1>4, SMTT(30)
<1> QED BY <1>1, <1>5, ReportStep, SMTT(30)

\* At the top of the loop the batch takes all that is pending.
LEMMA PollQueue ==
    ASSUME Rate, LoopInv, LoopInv', QueueInv, Poll
    PROVE  QueueInv'
<1> SUFFICES ASSUME ~set.hung PROVE QueueInv'
  BY SMTT(30) DEF QueueInv, Poll
<1>1. /\ at = "top" /\ at' = "log" /\ i' = 1 /\ K!Take("daemon")
      /\ UNCHANGED <<rep, set>> /\ ~Reporting
  BY DEF Poll, LoopInv, TypeOK
<1>2. Len(queue) <= AC_MAX_EVENTS
  <2>1. Len(queue) + 2 * OwnReports + Resolving + ToSleep <= Pending /\ Pending <= AC_MAX_EVENTS
    BY DEF QueueInv, Rate
  <2>2. PICK q \in Nat, x \in Nat, u \in Nat, z \in Nat, p \in Nat :
          q = Len(queue) /\ x = OwnReports /\ u = Resolving /\ z = ToSleep /\ p = Pending
    BY LoadType, SMTT(30)
  <2>3. q + 2 * x + u + z <= p /\ p <= AC_MAX_EVENTS
    BY <2>1, <2>2
  <2>4. q <= AC_MAX_EVENTS
    BY <2>3, Bounds, SMTT(30)
  <2> QED BY <2>2, <2>4
<1>3. el' = queue /\ queue' = <<>> /\ given_up' = given_up
  BY <1>1, <1>2, TakeType, SMTT(30) DEF LoopInv, TypeOK, LoopOK, Event
<1>4. given_up' = 0 /\ OneAlert(el') /\ OneAlert(queue') /\ NoAlert(queue')
  BY <1>3, SMTT(30) DEF QueueInv, OneAlert, NoAlert
<1>5. /\ Len(queue') = 0 /\ Resolving' = 0 /\ ToSleep' = 1 /\ AlertLeft' \in 0 .. 1
      /\ OwnReports' = AlertLeft' + CheckReports
  BY <1>1, <1>3 DEF Resolving, ToSleep, AlertLeft, OwnReports, Reporting
<1>6. Len(queue') + 2 * OwnReports' + Resolving' + ToSleep' <= Pending
  <2>1. PICK a \in 0 .. 1, n \in Nat : a = AlertLeft' /\ n = CheckReports
    BY <1>5, Counts
  <2>2. 0 + 2 * (a + n) + 0 + 1 <= 3 + 2 * n
    BY SMTT(30)
  <2> QED BY <1>5, <2>1, <2>2, Zenon DEF Pending
<1> QED BY <1>4, <1>6, SMTT(30) DEF QueueInv

\* A second of sleep brings one event of others.
LEMMA SecondQueue ==
    ASSUME Rate, LoopInv, LoopInv', QueueInv, Second
    PROVE  QueueInv'
<1> SUFFICES ASSUME ~set.hung PROVE QueueInv'
  BY DEF QueueInv, Second
<1>1. /\ at = "sleep" /\ at' = "sleep" /\ slept = 0 /\ slept' = 1
      /\ UNCHANGED <<rep, set>> /\ Arrival
  BY SMTT(30) DEF Second
<1>2. /\ given_up = 0 /\ OneAlert(queue) /\ NoAlert(queue) /\ OneAlert(el)
      /\ queue \in Seq(Event) /\ Len(queue) \in Nat
  BY <1>1 DEF QueueInv, LoopInv, TypeOK, Event
<1>3. OwnReports = 0 /\ OwnReports' = 0 /\ ToSleep = 1 /\ ToSleep' = 0 /\ Resolving' = Resolving
  BY <1>1 DEF OwnReports, ToSleep, Resolving
<1>4. Len(queue) + Resolving + 1 <= Pending /\ Pending \in Nat /\ Resolving \in Nat
  BY <1>2, <1>3, LoadType, SMTT(30) DEF QueueInv
<1>5. Len(queue) < AC_RING_SIZE
  BY <1>2, <1>4, Bounds, SMTT(30) DEF Rate
<1>6. /\ given_up' = 0 /\ batch' = batch /\ OneAlert(queue')
      /\ Len(queue') \in {Len(queue), Len(queue) + 1}
  <2>1. CASE UNCHANGED kernel
    BY <1>2, <2>1, SMTT(30) DEF kernel
  <2>2. CASE \E e \in Arriving : Put(e)
    <3>1. PICK e \in Arriving : Put(e)
      BY <2>2, SMTT(30)
    <3>2. e \in Event
      BY LoopAssumption, SMTT(30) DEF Event
    <3>3. queue' = Append(queue, e) /\ given_up' = given_up /\ batch' = batch
      BY <1>2, <1>5, <3>1, Bounds, SMTT(30) DEF Put, K!PutFree, K!PutFull
    <3> QED BY <1>2, <3>2, <3>3, Appended, SMTT(30)
  <2> QED BY <1>1, <2>1, <2>2, SMTT(30) DEF Arrival
<1>7. Len(queue') + 2 * OwnReports' + Resolving' + ToSleep' <= Pending
  BY <1>2, <1>3, <1>4, <1>6, SMTT(30)
<1>8. el' = el
  BY <1>6 DEF el
<1> QED BY <1>1, <1>2, <1>6, <1>7, <1>8, SMTT(30) DEF QueueInv

\* While the server answers at once the kernel's queue gives up no event, the resolver's own
\* included, if one turn of the loop's events fit: the one that arrives in a second, the two of
\* the report it may cause and two for every finding of the checks.
THEOREM NothingDroppedAlways == ASSUME Rate PROVE Spec => []NothingDropped
<1>1. Init => QueueInv
  <2> SUFFICES ASSUME Init PROVE QueueInv
    BY SMTT(30)
  <2>1. queue = <<>> /\ given_up = 0 /\ el = <<>> /\ at = "top" /\ rep.at = "none"
    BY DEF Init, K!Init, el, NoReport
  <2>2. Len(queue) = 0 /\ OwnReports = 0 /\ Resolving = 0 /\ ToSleep = 0
    BY <2>1 DEF OwnReports, Resolving, ToSleep
  <2>3. Len(queue) + 2 * OwnReports + Resolving + ToSleep <= Pending
    BY <2>2, Counts DEF Pending
  <2>4. OneAlert(queue) /\ OneAlert(el)
    BY <2>1 DEF OneAlert
  <2> QED BY <2>1, <2>3, <2>4 DEF QueueInv
<1>2. LoopInv /\ LoopInv' /\ QueueInv /\ [Next]_vars => QueueInv'
  <2> SUFFICES ASSUME LoopInv, LoopInv', QueueInv, [Next]_vars PROVE QueueInv'
    BY SMTT(30)
  <2>1. CASE UNCHANGED vars
    <3>1. UNCHANGED <<queue, given_up, batch, at, i, left, next, rep, slept, set>>
      BY <2>1 DEF vars, kernel, timing
    <3> QED BY <3>1, SMTT(30) DEF QueueInv, OwnReports, AlertLeft, Due, ToSleep, Resolving, el, OneAlert, NoAlert
  <2> QED BY <2>1, ReportQueue, QuietQueue, LogAlertQueue, FindingQueue, PollQueue, SecondQueue, SMTT(30)
          DEF Next, Loop
<1>3. Spec => []QueueInv
  BY <1>1, <1>2, LoopInvariant, PTL DEF Spec
<1>4. QueueInv => NothingDropped
  BY DEF QueueInv, NothingDropped
<1> QED BY <1>3, <1>4, PTL
=============================================================================
