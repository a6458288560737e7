--------------------------- MODULE HandoverProofs ---------------------------
(*********************************************************************************)
(* What is handed over arrives as it is: the answers of the server, the snapshot *)
(* of an open file, the text of a report and the digest of a range, for every    *)
(* size, number of callers and input.                                            *)
(*********************************************************************************)
EXTENDS BanServer, FdSnapshot, ReportText, StreamHash, TLAPS

-----------------------------------------------------------------------------
(* BanServer, for every set of requests and kinds and every number of crashes *)
\* The write lock belongs to the transaction under way.
LockHeld ==
    /\ writer \in Request \cup {None}
    /\ \A r \in Request : at[r] = "txn" <=> writer = r

\* A request that has not come to its answer has changed nothing and received
\* nothing; what its handler decided to answer is already true; while it is
\* handled the current ban is one that it may answer with.
Handled ==
    \A r \in Request :
        /\ at[r] \in {"new", "head", "body", "db", "txn"} => r \notin changed
        /\ at[r] # "done" => reply[r] = 0
        /\ InFlight(r) => ban \in possible[r]
        /\ at[r] = "txn" => got[r] \in possible[r]
        /\ at[r] = "reply" =>
             /\ code[r] = 201 => r \in reports
             /\ code[r] = 200 /\ kind[r].op \in Writes => r \in changed
             /\ code[r] \in {400, 401, 404, 429, 500} => r \notin changed
             /\ code[r] = 200 => got[r] \in possible[r]

\* The inductive invariant of BanServer.
ServerInv == AnswerMatchesStore /\ StatusWasTrue /\ LockHeld /\ Handled

\* Nothing has been accepted when the server starts for the first time.
LEMMA ServerInitInv == Init => ServerInv
  BY ServerAssumption DEF Init, ServerInv, AnswerMatchesStore, TypeOK, StatusWasTrue, LockHeld,
     Handled, Banned, Status, InFlight

USE DEF Banned, Status

\* A handler that refuses a request before it has touched the store keeps the
\* invariant.
LEMMA AnswerInv ==
  ASSUME ServerInv, NEW r \in Request,
         at[r] \in {"head", "body", "db"},
         NEW c \in {400, 401, 404, 429, 500},
         Answer(r, c),
         UNCHANGED <<server, kind, open, got, reply, store, crashes>>
  PROVE  ServerInv'
<1>1. AnswerMatchesStore'
  BY DEF ServerInv, AnswerMatchesStore, TypeOK, LockHeld, Handled, Answer, store
<1>2. StatusWasTrue'
  BY DEF ServerInv, StatusWasTrue, store
<1>3. LockHeld'
  BY DEF ServerInv, LockHeld, AnswerMatchesStore, TypeOK, Answer, store
<1>4. Handled'
  BY DEF ServerInv, Handled, AnswerMatchesStore, TypeOK, Answer, store, InFlight
<1> QED
  BY <1>1, <1>2, <1>3, <1>4 DEF ServerInv

\* A handler that goes on, or gives up, has decided on nothing.
LEMMA GotoInv ==
  ASSUME ServerInv, NEW r \in Request,
         at[r] \in {"head", "body"},
         NEW l \in {"body", "db", "done"},
         Advance(r, l),
         open' \subseteq open,
         UNCHANGED <<server, kind, got, reply, store, crashes>>
  PROVE  ServerInv'
<1>1. AnswerMatchesStore'
  BY DEF ServerInv, AnswerMatchesStore, TypeOK, LockHeld, Handled, Advance, store
<1>2. StatusWasTrue'
  BY DEF ServerInv, StatusWasTrue, store
<1>3. LockHeld'
  BY DEF ServerInv, LockHeld, AnswerMatchesStore, TypeOK, Advance, store
<1>4. Handled'
  BY DEF ServerInv, Handled, AnswerMatchesStore, TypeOK, Advance, store, InFlight
<1> QED
  BY <1>1, <1>2, <1>3, <1>4 DEF ServerInv

\* Accepting a connection starts the record of the bans it may be told of.
LEMMA AcceptInv ==
  ASSUME ServerInv, NEW r \in Request, Accept(r)
  PROVE  ServerInv'
<1> USE DEF Accept
<1>1. AnswerMatchesStore'
  BY DEF AnswerMatchesStore, TypeOK, LockHeld, ServerInv
<1>2. StatusWasTrue'
  BY DEF StatusWasTrue, Handled, AnswerMatchesStore, TypeOK, ServerInv
<1>3. LockHeld'
  BY DEF LockHeld, AnswerMatchesStore, TypeOK, ServerInv
<1>4. Handled'
  BY DEF Handled, AnswerMatchesStore, TypeOK, InFlight, ServerInv
<1> QED
  BY <1>1, <1>2, <1>3, <1>4 DEF ServerInv

\* Before the store is reached: only refusals are decided.
LEMMA FrontInv ==
  ASSUME ServerInv, NEW r \in Request,
         Dispatch(r) \/ HeadFails(r) \/ Body(r) \/ StatementFails(r)
  PROVE  ServerInv'
<1>1. CASE Dispatch(r)
  BY <1>1, AnswerInv, GotoInv DEF Dispatch
<1>2. CASE HeadFails(r)
  BY <1>2, GotoInv DEF HeadFails
<1>3. CASE Body(r)
  BY <1>3, AnswerInv, GotoInv DEF Body
<1>4. CASE StatementFails(r)
  BY <1>4, AnswerInv DEF StatementFails
<1> QED
  BY <1>1, <1>2, <1>3, <1>4

\* A read and the first statement of a write see the ban of this moment.
LEMMA SeesInv ==
  ASSUME ServerInv, NEW r \in Request, Read(r) \/ BeginTxn(r)
  PROVE  ServerInv'
<1> USE DEF InFlight, store
<1>1. CASE Read(r)
  <2>1. AnswerMatchesStore'
    BY <1>1 DEF Read, Answer, AnswerMatchesStore, TypeOK, LockHeld, ServerInv
  <2>2. StatusWasTrue'
    BY <1>1 DEF Read, Answer, StatusWasTrue, Handled, AnswerMatchesStore, TypeOK, ServerInv
  <2>3. LockHeld'
    BY <1>1 DEF Read, Answer, LockHeld, AnswerMatchesStore, TypeOK, ServerInv
  <2>4. Handled'
    BY <1>1 DEF Read, Answer, Handled, AnswerMatchesStore, TypeOK, Reads, Writes, ServerInv
  <2> QED
    BY <2>1, <2>2, <2>3, <2>4 DEF ServerInv
<1>2. CASE BeginTxn(r)
  <2>1. AnswerMatchesStore'
    BY <1>2 DEF BeginTxn, Advance, AnswerMatchesStore, TypeOK, LockHeld, ServerInv
  <2>2. StatusWasTrue'
    BY <1>2 DEF BeginTxn, Advance, StatusWasTrue, Handled, AnswerMatchesStore, TypeOK, ServerInv
  <2>3. LockHeld'
    BY <1>2, ServerAssumption DEF BeginTxn, Advance, LockHeld, AnswerMatchesStore, TypeOK, ServerInv
  <2>4. Handled'
    BY <1>2 DEF BeginTxn, Advance, Handled, AnswerMatchesStore, TypeOK, ServerInv
  <2> QED
    BY <2>1, <2>2, <2>3, <2>4 DEF ServerInv
<1> QED
  BY <1>1, <1>2 DEF ServerInv

\* The commit makes the answer true before it is decided on; a rollback leaves no
\* trace.  Whoever is being handled may answer with the new ban from now on.
LEMMA TransactionInv ==
  ASSUME ServerInv, NEW r \in Request, Commit(r) \/ CommitFails(r)
  PROVE  ServerInv'
<1> USE DEF InFlight
<1>1. CASE Commit(r)
  <2> USE <1>1 DEF Commit, CommitEffect, Answer
  <2>0. ban' \in Banned /\ possible' \in [Request -> SUBSET Banned]
    BY DEF AnswerMatchesStore, TypeOK, ServerInv
  <2>1. AnswerMatchesStore'
    BY <2>0, ServerAssumption, SMTT(30) DEF AnswerMatchesStore, TypeOK, LockHeld, Handled, ServerInv
  <2>2. StatusWasTrue'
    BY DEF StatusWasTrue, AnswerMatchesStore, TypeOK, ServerInv
  <2>3. LockHeld'
    BY ServerAssumption DEF LockHeld, AnswerMatchesStore, TypeOK, ServerInv
  <2>4. Handled'
    BY <2>0 DEF Handled, AnswerMatchesStore, TypeOK, LockHeld, Writes, ServerInv
  <2> QED
    BY <2>1, <2>2, <2>3, <2>4 DEF ServerInv
<1>2. CASE CommitFails(r)
  <2> USE <1>2 DEF CommitFails, Answer
  <2>1. AnswerMatchesStore'
    BY ServerAssumption DEF AnswerMatchesStore, TypeOK, LockHeld, ServerInv
  <2>2. StatusWasTrue'
    BY DEF StatusWasTrue, ServerInv
  <2>3. LockHeld'
    BY ServerAssumption DEF LockHeld, AnswerMatchesStore, TypeOK, ServerInv
  <2>4. Handled'
    BY DEF Handled, AnswerMatchesStore, TypeOK, ServerInv
  <2> QED
    BY <2>1, <2>2, <2>3, <2>4 DEF ServerInv
<1> QED
  BY <1>1, <1>2 DEF ServerInv

\* What the client receives is what the handler decided on, or nothing.
LEMMA SendInv ==
  ASSUME ServerInv, NEW r \in Request, Send(r)
  PROVE  ServerInv'
<1> USE DEF InFlight, Send, Advance, store
<1>1. AnswerMatchesStore'
  BY DEF AnswerMatchesStore, TypeOK, LockHeld, Handled, ServerInv
<1>2. StatusWasTrue'
  BY DEF StatusWasTrue, Handled, AnswerMatchesStore, TypeOK, ServerInv
<1>3. LockHeld'
  BY DEF LockHeld, AnswerMatchesStore, TypeOK, ServerInv
<1>4. Handled'
  BY DEF Handled, AnswerMatchesStore, TypeOK, ServerInv
<1> QED
  BY <1>1, <1>2, <1>3, <1>4 DEF ServerInv

\* Kill, restart and shutdown: what was committed stays, what was under way has
\* answered nothing.
LEMMA ProcessInv ==
  ASSUME ServerInv,
         \/ \E r \in Request : Watchdog(r)
         \/ Sigterm \/ StopServing \/ Close \/ Crash \/ Start
  PROVE  ServerInv'
<1> USE DEF InFlight
<1>1. CASE Crash
  <2> USE <1>1 DEF Crash
  <2>1. AnswerMatchesStore'
    BY ServerAssumption DEF AnswerMatchesStore, TypeOK, ServerInv
  <2>2. StatusWasTrue'
    BY DEF StatusWasTrue, ServerInv
  <2>3. LockHeld'
    BY ServerAssumption DEF LockHeld, AnswerMatchesStore, TypeOK, ServerInv
  <2>4. Handled'
    BY DEF Handled, AnswerMatchesStore, TypeOK, ServerInv
  <2> QED
    BY <2>1, <2>2, <2>3, <2>4 DEF ServerInv
<1>2. CASE \/ \E r \in Request : Watchdog(r)
           \/ Sigterm \/ StopServing \/ Close \/ Start
  <2>1. /\ server' \in {"up", "stopping", "closing", "down"} /\ open' \subseteq Request
        /\ UNCHANGED <<kind, at, code, got, reply, store, crashes>>
    BY <1>2 DEF Watchdog, Sigterm, StopServing, Close, Start, AnswerMatchesStore, TypeOK, ServerInv
  <2> QED
    BY <2>1 DEF AnswerMatchesStore, TypeOK, StatusWasTrue, LockHeld, Handled, store, ServerInv
<1> QED
  BY <1>1, <1>2 DEF ServerInv

\* Every step of the server keeps the invariant.
LEMMA ServerStepInv == ServerInv /\ [Next]_vars => ServerInv'
<1> SUFFICES ASSUME ServerInv, [Next]_vars PROVE ServerInv'
  OBVIOUS
<1>1. CASE UNCHANGED vars
  BY <1>1 DEF vars, store, ServerInv, AnswerMatchesStore, TypeOK, StatusWasTrue, LockHeld,
     Handled, InFlight
<1>2. CASE Next
  BY <1>2, AcceptInv, FrontInv, SeesInv, TransactionInv, SendInv, ProcessInv
     DEF Next, Handle, Runs
<1> QED
  BY <1>1, <1>2

\* An answer is never ahead of the store and never contradicts it: 201 and 200 are
\* received for what is committed, refusals for what left no trace, through
\* crashes, restarts and shutdowns and for any number of concurrent requests.
THEOREM AnswersAreTrue == Spec => []AnswerMatchesStore
<1>1. ServerInv => AnswerMatchesStore
  BY DEF ServerInv
<1> QED
  BY <1>1, ServerInitInv, ServerStepInv, PTL DEF Spec

\* GET /banned and was_banned of POST /unban are linearizable, for any number of
\* concurrent requests.
THEOREM StatusLinearizable == Spec => []StatusWasTrue
<1>1. ServerInv => StatusWasTrue
  BY DEF ServerInv
<1> QED
  BY <1>1, ServerInitInv, ServerStepInv, PTL DEF Spec

HIDE DEF Banned, Status

-----------------------------------------------------------------------------
(* FdSnapshot: GET reads inside the array of the last BEGIN and nothing leaks *)
Places == {"user", "slow", "recheck", "publish", "unlock", "build", "copy"}
\* The locals of a thread.
ThreadState == [at : Places, kind : Kind, of : Source \cup {NULL}, st : State \cup {NULL}]

\* A thread at rest is one.
LEMMA CalmType == Calm \in ThreadState
BY DEF Calm, ThreadState, Places, Kind

\* The other conjuncts of the invariant, of a step that changes nothing but threads
\* and the allocation lock, and takes no thread out of "publish".
LEMMA ThreadStep ==
    ASSUME SnapshotInv, UNCHANGED <<opened, private_data, states, buffers, snap, last>>,
           th' \in [Thread -> ThreadState], alloc_lock' \in Thread \cup {NULL},
           ThreadsKnow',
           ~opened => \A t \in Thread : th'[t].at = "user",
           \A t \in Thread : alloc_lock = t /\ th[t].at = "publish" =>
               alloc_lock' = t /\ th'[t].at = "publish" /\ th'[t].st = th[t].st
    PROVE  SnapshotInv'
<1>1. SnapshotTypeOK'
  BY Zenon DEF GetReadsLastBegin, SnapshotTypeOK, ThreadState, Places, SnapshotInv
<1>2. GetReadsLastBegin'
  BY <1>1, Zenon DEF GetReadsLastBegin, SnapshotInv
<1>3. AllReachable'
  BY DEF AllReachable, SnapshotInv
<1> QED
  BY <1>2, <1>3, Zenon DEF SnapshotInv

\* Nothing is allocated before the file is opened.
LEMMA SnapshotInitInv == SnapshotInit => SnapshotInv
<1> SUFFICES ASSUME SnapshotInit PROVE SnapshotInv
  OBVIOUS
<1> USE SnapshotAssumption DEF SnapshotInit
<1>1. SnapshotTypeOK
  <2>1. th \in [Thread -> ThreadState]
    BY CalmType
  <2>2. Zeroed \in [Kind -> [arr : Buffer \cup {NULL}, n : 0 .. Cap, truncated : BOOLEAN]]
    BY DEF Zeroed, NoSnap
  <2>3. snap \in [State -> [Kind -> [arr : Buffer \cup {NULL}, n : 0 .. Cap,
                                   truncated : BOOLEAN]]]
    BY <2>2
  <2> QED
    BY <2>1, <2>3, Zenon DEF SnapshotTypeOK, ThreadState, Places
<1>2. ThreadsKnow
  BY Zenon DEF ThreadsKnow, Calm
<1> QED
  BY <1>1, <1>2 DEF SnapshotInv, GetReadsLastBegin, AllReachable, Calm

\* A file that is opened has no state.
LEMMA OpenFileInv ==
    ASSUME SnapshotInv, OpenFile
    PROVE  SnapshotInv'
BY Zenon DEF SnapshotInv, OpenFile, GetReadsLastBegin, SnapshotTypeOK, AllReachable, ThreadsKnow

\* The fast path: a state that it finds is the file's.
LEMMA BeginFastInv ==
    ASSUME SnapshotInv, NEW t \in Thread, NEW k \in Kind, NEW of \in Source, BeginFast(t, k, of)
    PROVE  SnapshotInv'
<1> USE SnapshotAssumption
<1> DEFINE new == [Calm EXCEPT !.kind = k, !.of = of, !.st = private_data,
                               !.at = IF private_data = NULL THEN "slow" ELSE "build"]
<1>1. /\ new \in ThreadState
      /\ new.at = (IF private_data = NULL THEN "slow" ELSE "build")
      /\ new.of = of /\ new.st = private_data
  BY Zenon DEF ThreadState, Places, Calm, GetReadsLastBegin, SnapshotTypeOK, SnapshotInv
<1>2. /\ th \in [Thread -> ThreadState] /\ th[t].at = "user" /\ opened
      /\ th' = [th EXCEPT ![t] = new]
      /\ alloc_lock' = alloc_lock
      /\ UNCHANGED <<opened, private_data, states, buffers, snap, last>>
  BY Zenon DEF BeginFast, InUser, GetReadsLastBegin, SnapshotTypeOK, ThreadState, Places, SnapshotInv
<1> HIDE DEF new
<1>3. th' \in [Thread -> ThreadState]
  BY <1>1, <1>2, Zenon
<1>4. ThreadsKnow'
  BY <1>1, <1>2 DEF ThreadsKnow, SnapshotInv
<1>5. alloc_lock' \in Thread \cup {NULL}
  BY <1>2, Zenon DEF GetReadsLastBegin, SnapshotTypeOK, SnapshotInv
<1> QED
  BY <1>1, <1>2, <1>3, <1>4, <1>5, ThreadStep DEF SnapshotInv

\* The slow path takes the lock when nobody has it.
LEMMA SlowLockInv ==
    ASSUME SnapshotInv, NEW t \in Thread, SlowLock(t)
    PROVE  SnapshotInv'
<1> USE SnapshotAssumption
<1>1. th \in [Thread -> ThreadState]
  BY DEF GetReadsLastBegin, SnapshotTypeOK, ThreadState, Places, SnapshotInv
<1>2. th' \in [Thread -> ThreadState] /\ th'[t].at = "recheck" /\ th'[t].st = th[t].st
      /\ th'[t].of = th[t].of /\ \A u \in Thread \ {t} : th'[u] = th[u]
  BY <1>1, ZenonT(60) DEF SlowLock, Goto, ThreadState, Places
<1>3. ThreadsKnow'
  BY <1>2 DEF ThreadsKnow, SlowLock, SnapshotInv
<1> QED
  BY <1>2, <1>3, ThreadStep, Zenon DEF SlowLock, SnapshotInv

\* The second look, under the lock: a state is allocated only if there is none.
LEMMA SlowRecheckInv ==
    ASSUME SnapshotInv, NEW t \in Thread, SlowRecheck(t)
    PROVE  SnapshotInv'
<1> USE SnapshotAssumption
<1>1. /\ th \in [Thread -> ThreadState] /\ th[t].at = "recheck" /\ alloc_lock = t
      /\ opened /\ th[t].of \in Source /\ th[t].st = NULL
      /\ \A u \in Thread \ {t} : th[u].at \notin {"recheck", "publish", "unlock"}
  BY DEF SlowRecheck, GetReadsLastBegin, SnapshotTypeOK, ThreadState, Places, ThreadsKnow,
      SnapshotInv
<1>2. CASE /\ th' = [th EXCEPT ![t].st = private_data, ![t].at = "unlock"]
           /\ UNCHANGED <<opened, private_data, alloc_lock, states, buffers, snap, last>>
  <2>1. th' \in [Thread -> ThreadState] /\ th'[t].at = "unlock" /\ th'[t].st = private_data
        /\ th'[t].of = th[t].of /\ \A u \in Thread \ {t} : th'[u] = th[u]
    BY <1>1, <1>2 DEF ThreadState, Places, GetReadsLastBegin, SnapshotTypeOK, SnapshotInv
  <2>2. ThreadsKnow'
    BY <1>1, <1>2, <2>1 DEF ThreadsKnow, SnapshotInv
  <2> QED
    BY <1>1, <1>2, <2>1, <2>2, ThreadStep DEF SnapshotInv
<1>3. CASE Goto(t, "unlock") /\ UNCHANGED <<opened, private_data, alloc_lock, states, buffers, snap, last>>
  <2>1. th' \in [Thread -> ThreadState] /\ th'[t].at = "unlock" /\ th'[t].st = th[t].st
        /\ th'[t].of = th[t].of /\ \A u \in Thread \ {t} : th'[u] = th[u]
    BY <1>1, <1>3 DEF ThreadState, Places, Goto
  <2>2. ThreadsKnow'
    BY <1>1, <1>3, <2>1 DEF ThreadsKnow, SnapshotInv
  <2> QED
    BY <1>1, <1>3, <2>1, <2>2, ThreadStep DEF SnapshotInv
<1>4. ASSUME private_data = NULL, NEW s \in State \ states,
             states' = states \cup {s}, snap' = [snap EXCEPT ![s] = Zeroed],
             th' = [th EXCEPT ![t].st = s, ![t].at = "publish"],
             UNCHANGED <<opened, private_data, alloc_lock, buffers, last>>
      PROVE  SnapshotInv'
  <2>1. th' \in [Thread -> ThreadState] /\ th'[t].at = "publish" /\ th'[t].st = s
        /\ th'[t].of = th[t].of /\ \A u \in Thread \ {t} : th'[u] = th[u]
    BY <1>1, <1>4 DEF ThreadState, Places
  <2>2. Zeroed \in [Kind -> [arr : Buffer \cup {NULL}, n : 0 .. Cap, truncated : BOOLEAN]]
    BY DEF Zeroed, NoSnap
  <2>3. snap'[s] = Zeroed
    BY <1>4 DEF GetReadsLastBegin, SnapshotTypeOK, SnapshotInv
  <2>4. SnapshotTypeOK'
    BY <1>4, <2>1, <2>2 DEF GetReadsLastBegin, SnapshotTypeOK, ThreadState, Places, SnapshotInv
  <2>5. GetReadsLastBegin'
    BY <1>4, <2>4 DEF GetReadsLastBegin, SnapshotInv
  <2>6. AllReachable'
    BY <1>1, <1>4, <2>1 DEF AllReachable, SnapshotInv
  <2>7. ThreadsKnow'
    BY <1>1, <1>4, <2>1, <2>3 DEF ThreadsKnow, SnapshotInv
  <2> QED
    BY <1>1, <1>4, <2>5, <2>6, <2>7 DEF SnapshotInv
<1> QED
  BY <1>2, <1>3, <1>4, Zenon DEF SlowRecheck, SnapshotInv

\* The state that is published is the one just allocated: nothing is built in it yet.
LEMMA SlowPublishInv ==
    ASSUME SnapshotInv, NEW t \in Thread, SlowPublish(t)
    PROVE  SnapshotInv'
<1> USE SnapshotAssumption
<1> DEFINE s == th[t].st
<1>1. /\ th \in [Thread -> ThreadState] /\ th[t].at = "publish" /\ alloc_lock = t
      /\ opened /\ th[t].of \in Source /\ private_data = NULL
      /\ s \in states /\ s \in State /\ s # NULL /\ snap[s] = Zeroed
      /\ \A u \in Thread \ {t} : th[u].at \notin {"recheck", "publish", "unlock", "build"}
  BY DEF SlowPublish, GetReadsLastBegin, SnapshotTypeOK, ThreadState, Places, ThreadsKnow,
      SnapshotInv
<1>2. /\ th' \in [Thread -> ThreadState] /\ th'[t].at = "unlock" /\ th'[t].st = s
      /\ th'[t].of = th[t].of /\ \A u \in Thread \ {t} : th'[u] = th[u]
      /\ private_data' = s /\ UNCHANGED <<opened, alloc_lock, states, buffers, snap, last>>
  BY <1>1, ZenonT(60) DEF SlowPublish, Goto, ThreadState, Places
<1>3. \A k \in Kind : snap[s][k].arr = NULL /\ snap[s][k].n = 0
  BY <1>1 DEF Zeroed, NoSnap
<1>4. SnapshotTypeOK'
  BY <1>1, <1>2, Zenon DEF GetReadsLastBegin, SnapshotTypeOK, ThreadState, Places, SnapshotInv
<1>5. \A k \in Kind : last[k] = NULL
  BY <1>1 DEF GetReadsLastBegin, SnapshotInv
<1>6. GetReadsLastBegin'
  BY <1>2, <1>3, <1>4, <1>5, Zenon DEF GetReadsLastBegin, SnapshotInv
<1>7. AllReachable'
  <2>1. NULL \notin states
    BY Zenon DEF GetReadsLastBegin, SnapshotTypeOK, SnapshotInv
  <2>2. \A x \in states : x = s
    BY <1>1, <2>1 DEF AllReachable, SnapshotInv
  <2>3. \A b \in Buffer : buffers[b] = NULL
    BY <1>1, Zenon DEF AllReachable, SnapshotInv
  <2> QED
    BY <1>2, <2>2, <2>3, Zenon DEF AllReachable, SnapshotInv
<1>8. ThreadsKnow'
  BY <1>1, <1>2 DEF ThreadsKnow, SnapshotInv
<1> QED
  BY <1>1, <1>2, <1>3, <1>6, <1>7, <1>8, Zenon DEF SnapshotInv

\* The lock is given back, and the thread goes on with the file's state or returns.
LEMMA SlowUnlockInv ==
    ASSUME SnapshotInv, NEW t \in Thread, SlowUnlock(t)
    PROVE  SnapshotInv'
<1> USE SnapshotAssumption
<1>1. /\ th \in [Thread -> ThreadState] /\ th[t].at = "unlock" /\ alloc_lock = t
      /\ opened /\ th[t].of \in Source /\ th[t].st \in {private_data, NULL}
      /\ \A u \in Thread \ {t} : th[u].at \notin {"recheck", "publish", "unlock"}
  BY DEF SlowUnlock, GetReadsLastBegin, SnapshotTypeOK, ThreadState, Places, ThreadsKnow,
      SnapshotInv
<1>2. /\ th' \in [Thread -> ThreadState] /\ \A u \in Thread \ {t} : th'[u] = th[u]
      /\ \/ /\ th'[t].at = "build" /\ th'[t].st = th[t].st /\ th[t].st # NULL
            /\ th'[t].of = th[t].of
         \/ th'[t].at = "user"
      /\ alloc_lock' = NULL /\ UNCHANGED <<opened, private_data, states, buffers, snap, last>>
  <2>1. CASE th[t].st # NULL /\ Goto(t, "build")
    <3>1. th' = [th EXCEPT ![t].at = "build"]
      BY <2>1, Zenon DEF Goto
    <3>2. th[t] \in ThreadState
      BY <1>1, Zenon
    <3>3. [th[t] EXCEPT !.at = "build"] \in ThreadState
      BY <3>2, ZenonT(60) DEF ThreadState, Places
    <3>4. th'[t] = [th[t] EXCEPT !.at = "build"] /\ \A u \in Thread \ {t} : th'[u] = th[u]
      BY <1>1, <3>1, Zenon
    <3>5. th' \in [Thread -> ThreadState]
      BY <1>1, <3>1, <3>3, Zenon
    <3>6. th'[t].at = "build" /\ th'[t].st = th[t].st /\ th'[t].of = th[t].of
      BY <3>2, <3>4, ZenonT(60) DEF ThreadState
    <3> QED
      BY <2>1, <3>4, <3>5, <3>6, Zenon DEF SlowUnlock
  <2>2. CASE Done(t)
    <3>1. th' = [th EXCEPT ![t] = Calm] /\ Calm.at = "user"
      BY <2>2, Zenon DEF Done, Calm
    <3> QED
      BY <1>1, <3>1, CalmType DEF SlowUnlock
  <2> QED
    BY <2>1, <2>2, Zenon DEF SlowUnlock
<1>3. ThreadsKnow'
  BY <1>1, <1>2 DEF ThreadsKnow, SnapshotInv
<1> QED
  BY <1>1, <1>2, <1>3, ThreadStep, Zenon DEF SnapshotInv

\* GET changes nothing but where its thread is.
LEMMA GetInv ==
    ASSUME SnapshotInv, NEW t \in Thread, NEW k \in Kind, NEW i \in 0 .. Cap - 1, Get(t, k, i)
    PROVE  SnapshotInv'
<1> USE SnapshotAssumption
<1>1. th \in [Thread -> ThreadState] /\ th[t].at = "user" /\ opened
  BY DEF Get, InUser, GetReadsLastBegin, SnapshotTypeOK, ThreadState, Places, SnapshotInv
<1>2. /\ th' \in [Thread -> ThreadState] /\ th'[t].at = "copy"
      /\ \A u \in Thread \ {t} : th'[u] = th[u]
      /\ UNCHANGED <<opened, private_data, alloc_lock, states, buffers, snap, last>>
  BY <1>1, ZenonT(60) DEF Get, Goto, ThreadState, Places
<1>3. ThreadsKnow' /\ alloc_lock' \in Thread \cup {NULL}
  <2>1. alloc_lock \in Thread \cup {NULL} /\ ThreadsKnow
    BY Zenon DEF GetReadsLastBegin, SnapshotTypeOK, SnapshotInv
  <2> QED BY <1>1, <1>2, <2>1 DEF ThreadsKnow
<1> QED
  BY <1>1, <1>2, <1>3, ThreadStep, Zenon DEF SnapshotInv

\* Nor does the copy to user space.
LEMMA SnapCopyInv ==
    ASSUME SnapshotInv, NEW t \in Thread, Copy(t)
    PROVE  SnapshotInv'
<1> USE SnapshotAssumption
<1>1. th \in [Thread -> ThreadState] /\ th[t].at = "copy" /\ opened
  BY DEF Copy, GetReadsLastBegin, SnapshotTypeOK, ThreadState, Places, SnapshotInv
<1>2. /\ th' \in [Thread -> ThreadState] /\ th'[t].at = "user"
      /\ \A u \in Thread \ {t} : th'[u] = th[u]
      /\ UNCHANGED <<opened, private_data, alloc_lock, states, buffers, snap, last>>
  <2>1. th' = [th EXCEPT ![t] = Calm] /\ Calm.at = "user"
    BY Zenon DEF Copy, Done, Calm
  <2> QED
    BY <1>1, <2>1, CalmType DEF Copy
<1>3. alloc_lock' \in Thread \cup {NULL} /\ alloc_lock # t
  BY <1>1, <1>2 DEF ThreadsKnow, GetReadsLastBegin, SnapshotTypeOK, SnapshotInv
<1>4. ThreadsKnow'
  BY <1>1, <1>2, <1>3 DEF ThreadsKnow, SnapshotInv
<1> QED
  BY <1>1, <1>2, <1>3, <1>4, ThreadStep, Zenon DEF SnapshotInv

\* What a BEGIN or an END of kind k leaves to be shown: only the file's snapshot of
\* that kind changed, and the new array, if there is one, is nobody else's.
LEMMA KindStep ==
    ASSUME SnapshotInv, private_data # NULL, opened, NEW k \in Kind,
           NEW new \in [arr : Buffer \cup {NULL}, n : 0 .. Cap, truncated : BOOLEAN],
           NEW of \in Source \cup {NULL},
           UNCHANGED <<opened, private_data, alloc_lock, states>>,
           snap' = [snap EXCEPT ![private_data][k] = new],
           last' = [last EXCEPT ![k] = of],
           th' \in [Thread -> ThreadState], ThreadsKnow',
           \A t \in Thread : th'[t].at = "publish" <=> th[t].at = "publish",
           new.arr = NULL => new.n = 0 /\ of = NULL /\ buffers' = Freed(snap[private_data][k].arr),
           new.arr # NULL =>
               /\ Freed(snap[private_data][k].arr)[new.arr] = NULL
               /\ of \in Source
               /\ buffers' = [Freed(snap[private_data][k].arr) EXCEPT
                                 ![new.arr] = [of |-> of, len |-> new.n]]
    PROVE  SnapshotInv'
<1> USE SnapshotAssumption
<1> DEFINE pd == private_data
           old == snap[pd][k].arr
           l == IF k = "vmas" THEN "mods" ELSE "vmas"
           other == snap[pd][l]
<1>1. /\ pd \in State /\ l \in Kind /\ l # k /\ Kind = {k, l}
      /\ old \in Buffer \cup {NULL} /\ other \in [arr : Buffer \cup {NULL}, n : 0 .. Cap, truncated : BOOLEAN]
      /\ buffers \in [Buffer -> [of : Source, len : 0 .. Cap] \cup {NULL}]
  <2>1. /\ snap \in [State -> [Kind -> [arr : Buffer \cup {NULL}, n : 0 .. Cap, truncated : BOOLEAN]]]
        /\ buffers \in [Buffer -> [of : Source, len : 0 .. Cap] \cup {NULL}]
        /\ private_data \in State \cup {NULL}
    BY Zenon DEF GetReadsLastBegin, SnapshotTypeOK, SnapshotInv
  <2>2. l \in Kind /\ l # k /\ Kind = {k, l}
    BY Zenon DEF Kind
  <2>3. pd \in State /\ snap[pd] \in [Kind -> [arr : Buffer \cup {NULL}, n : 0 .. Cap, truncated : BOOLEAN]]
    <3> HIDE DEF l, old, other
    <3> QED BY <2>1, Zenon
  <2>4. \A j \in Kind : snap[pd][j] \in [arr : Buffer \cup {NULL}, n : 0 .. Cap, truncated : BOOLEAN]
    <3> HIDE DEF pd, l, old, other
    <3> QED BY <2>3, Zenon
  <2>5. snap[pd][k].arr \in Buffer \cup {NULL}
    <3> HIDE DEF pd, l, old, other
    <3> QED BY <2>4, Zenon
  <2> QED
    BY <2>1, <2>2, <2>3, <2>4, <2>5, Zenon
<1>2. /\ snap'[pd][k] = new /\ snap'[pd][l] = other
      /\ \A s \in State \ {pd} : snap'[s] = snap[s]
      /\ snap' \in [State -> [Kind -> [arr : Buffer \cup {NULL}, n : 0 .. Cap, truncated : BOOLEAN]]]
  BY <1>1 DEF GetReadsLastBegin, SnapshotTypeOK, SnapshotInv
<1>3. last' \in [Kind -> Source \cup {NULL}] /\ last'[k] = of /\ last'[l] = last[l]
  BY <1>1, Zenon DEF GetReadsLastBegin, SnapshotTypeOK, SnapshotInv
<1>4. /\ other.arr = NULL => other.n = 0 /\ last[l] = NULL
      /\ other.arr # NULL => /\ buffers[other.arr] # NULL /\ buffers[other.arr].len = other.n
                             /\ last[l] # NULL => buffers[other.arr].of = last[l]
                             /\ other.arr # old
  BY <1>1, Zenon DEF GetReadsLastBegin, SnapshotInv
<1>5. \A b \in Buffer : buffers[b] # NULL => b = old \/ b = other.arr
  BY <1>1 DEF AllReachable, SnapshotInv
<1>6. /\ buffers' \in [Buffer -> [of : Source, len : 0 .. Cap] \cup {NULL}]
      /\ \A b \in Buffer : b # new.arr => buffers'[b] = (IF b = old THEN NULL ELSE buffers[b])
      /\ new.arr # NULL => buffers'[new.arr] = [of |-> of, len |-> new.n]
  BY <1>1 DEF Freed
<1>7. other.arr # NULL => other.arr # new.arr
  BY <1>1, <1>4, Zenon DEF Freed
<1>8. other.arr # NULL => buffers'[other.arr] = buffers[other.arr]
  BY <1>1, <1>4, <1>6, <1>7
<1>9. new.arr # NULL => buffers'[new.arr] # NULL /\ buffers'[new.arr].len = new.n /\ buffers'[new.arr].of = of
  BY <1>6
<1> HIDE DEF pd, old, l, other
<1>10. SnapshotTypeOK'
  BY <1>2, <1>3, <1>6, Zenon DEF GetReadsLastBegin, SnapshotTypeOK, ThreadState, Places, SnapshotInv
<1>11. GetReadsLastBegin'
  <2>1. \A j \in Kind : IF snap'[pd][j].arr = NULL THEN snap'[pd][j].n = 0
                        ELSE buffers'[snap'[pd][j].arr] # NULL /\ buffers'[snap'[pd][j].arr].len = snap'[pd][j].n
    BY <1>1, <1>2, <1>4, <1>8, <1>9
  <2>2. \A j \in Kind : last'[j] # NULL =>
           snap'[pd][j].arr # NULL /\ buffers'[snap'[pd][j].arr].of = last'[j]
    BY <1>1, <1>2, <1>3, <1>4, <1>8, <1>9
  <2>3. private_data' = pd /\ pd # NULL
    BY Zenon DEF pd
  <2> QED
    BY <1>10, <2>1, <2>2, <2>3 DEF GetReadsLastBegin
<1>12. AllReachable'
  <2>1. \A s \in states' : s = private_data'
    BY Zenon DEF AllReachable, ThreadsKnow, SnapshotInv
  <2>2. \A b \in Buffer : buffers'[b] # NULL => b = new.arr \/ b = other.arr
    BY <1>5, <1>6
  <2>3. \A b \in Buffer : buffers'[b] # NULL => \E j \in Kind : snap'[pd][j].arr = b
    BY <1>1, <1>2, <2>2, Zenon DEF other
  <2>4. private_data' = pd /\ pd # NULL
    BY Zenon DEF pd
  <2> QED
    BY <2>1, <2>3, <2>4 DEF AllReachable
<1>13. \A i, j \in Kind :
         i # j /\ snap'[pd][i].arr # NULL => snap'[pd][i].arr # snap'[pd][j].arr
  BY <1>1, <1>2, <1>7, ZenonT(60)
<1> QED
  BY <1>11, <1>12, <1>13, ZenonT(60) DEF pd, SnapshotInv

\* A thread that is done with its BEGIN knows nothing any more.
LEMMA BuildReturns ==
    ASSUME SnapshotInv, NEW t \in Thread, th[t].at = "build", Done(t),
           UNCHANGED <<private_data, alloc_lock, states>>,
           private_data # NULL
    PROVE  /\ opened /\ th[t].st = private_data /\ th[t].of \in Source /\ th[t].kind \in Kind
           /\ th' \in [Thread -> ThreadState] /\ ThreadsKnow'
           /\ \A u \in Thread : th'[u].at = "publish" <=> th[u].at = "publish"
<1> USE SnapshotAssumption
<1>1. th \in [Thread -> ThreadState] /\ opened /\ th[t].st = private_data /\ th[t].of \in Source
  BY Zenon DEF GetReadsLastBegin, SnapshotTypeOK, ThreadState, Places, ThreadsKnow, SnapshotInv
<1>2. th' = [th EXCEPT ![t] = Calm] /\ Calm.at = "user"
  BY DEF Done, Calm
<1>3. th' \in [Thread -> ThreadState] /\ th'[t].at = "user" /\ \A u \in Thread \ {t} : th'[u] = th[u]
  BY <1>1, <1>2, CalmType, Zenon
<1>4. alloc_lock # t
  BY <1>1, Zenon DEF ThreadsKnow, SnapshotInv
<1>5. \A u \in Thread : th[u].at # "publish"
  BY Zenon DEF ThreadsKnow, SnapshotInv
<1>6. ThreadsKnow'
  <2>1. alloc_lock # NULL => alloc_lock \in Thread \ {t}
    BY <1>4, Zenon DEF GetReadsLastBegin, SnapshotTypeOK, SnapshotInv
  <2>2. alloc_lock' # NULL => th'[alloc_lock'].at \in {"recheck", "publish", "unlock"}
    BY <1>3, <2>1 DEF ThreadsKnow, SnapshotInv
  <2> QED
    BY <1>3, <1>5, <2>2 DEF ThreadsKnow, SnapshotInv
<1>7. th[t].kind \in Kind
  BY <1>1 DEF ThreadState
<1> QED
  BY <1>1, <1>3, <1>5, <1>6, <1>7, Zenon DEF SnapshotInv

\* A snapshot that cannot be built is empty.
LEMMA BuildFailsInv ==
    ASSUME SnapshotInv, NEW t \in Thread, BuildFails(t)
    PROVE  SnapshotInv'
<1>1. private_data # NULL /\ th[t].at = "build" /\ Done(t)
      /\ UNCHANGED <<opened, private_data, alloc_lock, states>>
  BY Zenon DEF BuildFails, SnapshotInv, ThreadsKnow
<1>2. /\ opened /\ th[t].st = private_data /\ th[t].kind \in Kind
      /\ th' \in [Thread -> ThreadState] /\ ThreadsKnow'
      /\ \A u \in Thread : th'[u].at = "publish" <=> th[u].at = "publish"
  BY <1>1, BuildReturns
<1>3. NoSnap \in [arr : Buffer \cup {NULL}, n : 0 .. Cap, truncated : BOOLEAN]
      /\ NoSnap.arr = NULL /\ NoSnap.n = 0
  BY SnapshotAssumption DEF NoSnap
<1>4. /\ snap' = [snap EXCEPT ![private_data][th[t].kind] = NoSnap]
      /\ last' = [last EXCEPT ![th[t].kind] = NULL]
      /\ buffers' = Freed(snap[private_data][th[t].kind].arr)
  BY <1>2 DEF BuildFails
<1> QED
  BY <1>1, <1>2, <1>3, <1>4, KindStep, Zenon

\* One that can has an array of its own with as many entries as it says.
LEMMA BuildFillsInv ==
    ASSUME SnapshotInv, NEW t \in Thread, BuildFills(t)
    PROVE  SnapshotInv'
<1> DEFINE k == th[t].kind
           free == Freed(snap[private_data][k].arr)
<1>1. private_data # NULL /\ th[t].at = "build" /\ Done(t)
      /\ UNCHANGED <<opened, private_data, alloc_lock, states>>
  BY Zenon DEF BuildFills, SnapshotInv, ThreadsKnow
<1>2. /\ opened /\ th[t].st = private_data /\ k \in Kind /\ th[t].of \in Source
      /\ th' \in [Thread -> ThreadState] /\ ThreadsKnow'
      /\ \A u \in Thread : th'[u].at = "publish" <=> th[u].at = "publish"
  BY <1>1, BuildReturns
<1>3. PICK count \in 0 .. MaxLen, b \in Buffer :
         LET n == IF count < Cap THEN count ELSE Cap
         IN  /\ free[b] = NULL
             /\ buffers' = [free EXCEPT ![b] = [of |-> th[t].of, len |-> n]]
             /\ snap' = [snap EXCEPT ![private_data][k] =
                           [arr |-> b, n |-> n, truncated |-> k = "vmas" /\ count > Cap]]
  BY <1>2, Zenon DEF BuildFills
<1> DEFINE n == IF count < Cap THEN count ELSE Cap
           new == [arr |-> b, n |-> n, truncated |-> k = "vmas" /\ count > Cap]
<1>4. /\ new \in [arr : Buffer \cup {NULL}, n : 0 .. Cap, truncated : BOOLEAN]
      /\ new.arr = b /\ new.n = n /\ b # NULL
  BY SnapshotAssumption
<1>5. /\ free[b] = NULL /\ buffers' = [free EXCEPT ![b] = [of |-> th[t].of, len |-> n]]
      /\ snap' = [snap EXCEPT ![private_data][k] = new]
      /\ last' = [last EXCEPT ![k] = th[t].of]
  BY <1>3, Zenon DEF BuildFills
<1> HIDE DEF new, n, k
<1> QED
  BY <1>1, <1>2, <1>4, <1>5, KindStep, Zenon

\* A snapshot without its array and its count is one.
LEMMA Emptied ==
    ASSUME NEW s \in [arr : Buffer \cup {NULL}, n : 0 .. Cap, truncated : BOOLEAN]
    PROVE  LET new == [s EXCEPT !.arr = NULL, !.n = 0]
           IN  /\ new \in [arr : Buffer \cup {NULL}, n : 0 .. Cap, truncated : BOOLEAN]
               /\ new.arr = NULL /\ new.n = 0
<1> DEFINE less == [s EXCEPT !.arr = NULL]
           new == [less EXCEPT !.n = 0]
<1>1. less \in [arr : Buffer \cup {NULL}, n : 0 .. Cap, truncated : BOOLEAN] /\ less.arr = NULL
  OBVIOUS
<1>2. 0 \in 0 .. Cap
  BY SnapshotAssumption
<1> HIDE DEF less
<1>3. new \in [arr : Buffer \cup {NULL}, n : 0 .. Cap, truncated : BOOLEAN]
  BY <1>1, <1>2
<1>4. new.arr = NULL /\ new.n = 0
  BY <1>1
<1> QED
  BY <1>3, <1>4 DEF less

\* END empties the snapshot with its array.
LEMMA EndInv ==
    ASSUME SnapshotInv, NEW t \in Thread, NEW k \in Kind, End(t, k)
    PROVE  SnapshotInv'
<1> DEFINE s == snap[private_data][k]
           new == [s EXCEPT !.arr = NULL, !.n = 0]
<1>1. /\ private_data # NULL /\ opened /\ UNCHANGED <<opened, private_data, alloc_lock, states, th>>
      /\ last' = [last EXCEPT ![k] = NULL] /\ buffers' = Freed(s.arr)
  BY Zenon DEF End, InUser
<1>2. /\ snap \in [State -> [Kind -> [arr : Buffer \cup {NULL}, n : 0 .. Cap, truncated : BOOLEAN]]]
      /\ private_data \in State /\ th \in [Thread -> ThreadState]
  BY <1>1 DEF SnapshotInv, GetReadsLastBegin, SnapshotTypeOK, ThreadState, Places
<1>3. /\ new \in [arr : Buffer \cup {NULL}, n : 0 .. Cap, truncated : BOOLEAN]
      /\ new.arr = NULL /\ new.n = 0
  <2>1. s \in [arr : Buffer \cup {NULL}, n : 0 .. Cap, truncated : BOOLEAN]
    BY <1>2
  <2> QED
    BY <2>1, Emptied, Zenon
<1>4. snap' = [snap EXCEPT ![private_data][k] = new]
  BY <1>2, Zenon DEF End
<1>5. ThreadsKnow'
  <2>1. \A u \in Thread : th[u].at # "publish"
    BY <1>1, Zenon DEF SnapshotInv, ThreadsKnow
  <2> QED
    BY <1>1, <2>1, Zenon DEF SnapshotInv, ThreadsKnow
<1> HIDE DEF new
<1> QED
  BY <1>1, <1>2, <1>3, <1>4, <1>5, KindStep, Zenon

\* The last close frees the state and both arrays.
LEMMA ReleaseFileInv ==
    ASSUME SnapshotInv, ReleaseFile
    PROVE  SnapshotInv'
<1> USE SnapshotAssumption DEF ReleaseFile
<1>1. alloc_lock = NULL
  BY Zenon DEF ThreadsKnow, GetReadsLastBegin, SnapshotTypeOK, SnapshotInv
<1>2. states' = {}
  BY Zenon DEF AllReachable, SnapshotInv
<1>3. \A b \in Buffer : buffers'[b] = NULL
  BY DEF AllReachable, SnapshotInv
<1>4. SnapshotTypeOK'
  <2>1. Zeroed \in [Kind -> [arr : Buffer \cup {NULL}, n : 0 .. Cap, truncated : BOOLEAN]]
    BY DEF Zeroed, NoSnap
  <2> QED
    BY <1>1, <1>2, <2>1, Zenon DEF GetReadsLastBegin, SnapshotTypeOK, SnapshotInv
<1>5. ThreadsKnow'
  BY <1>1 DEF ThreadsKnow, SnapshotInv
<1> QED
  BY <1>2, <1>3, <1>4, <1>5, SMTT(30) DEF GetReadsLastBegin, AllReachable, SnapshotInv

\* The invariant is inductive.
LEMMA SnapshotStepInv ==
    ASSUME SnapshotInv, [SnapshotNext]_snapshotVars
    PROVE  SnapshotInv'
<1>1. CASE UNCHANGED snapshotVars
  BY <1>1, ZenonT(60) DEF SnapshotInv, GetReadsLastBegin, SnapshotTypeOK, AllReachable, ThreadsKnow, snapshotVars
<1>2. CASE SnapshotNext
  BY <1>2, OpenFileInv, ReleaseFileInv, BeginFastInv, SlowLockInv, SlowRecheckInv,
     SlowPublishInv, SlowUnlockInv, BuildFailsInv, BuildFillsInv, SnapCopyInv, EndInv, GetInv, Zenon
     DEF SnapshotNext, Begin
<1> QED
  BY <1>1, <1>2, SMTT(30)

\* An index that GET accepts is inside the array of the last BEGIN of the file,
\* however many threads share it.
THEOREM GetIsInBounds == SnapshotSpec => []GetReadsLastBegin
<1>1. SnapshotInv => GetReadsLastBegin
  BY DEF SnapshotInv
<1> QED
  BY <1>1, SnapshotInitInv, SnapshotStepInv, PTL DEF SnapshotSpec

\* No state and no array is allocated that the file does not lead to: racing first
\* BEGINs share one state and the last close frees everything.
THEOREM NothingLeaks == SnapshotSpec => []AllReachable
<1>1. SnapshotInv => AllReachable
  BY DEF SnapshotInv
<1> QED
  BY <1>1, SnapshotInitInv, SnapshotStepInv, PTL DEF SnapshotSpec

-----------------------------------------------------------------------------
(* Sequences                                                                 *)
\* Sequences with the same entries are equal.
LEMMA SameEntries ==
  ASSUME NEW S, NEW s \in Seq(S), NEW t \in Seq(S), Len(s) = Len(t),
         \A i \in 1 .. Len(s) : s[i] = t[i]
  PROVE  s = t
OBVIOUS

\* The sequence of length zero.
LEMMA NoEntries ==
  ASSUME NEW S
  PROVE  << >> \in Seq(S) /\ \A s \in Seq(S) : s = << >> <=> Len(s) = 0
OBVIOUS

\* From the first to the last entry is the whole sequence.
LEMMA WholeSubSeq ==
  ASSUME NEW S, NEW s \in Seq(S)
  PROVE  SubSeq(s, 1, Len(s)) = s
OBVIOUS

\* A sequence over a set is one over a larger set.
LEMMA LargerRange ==
  ASSUME NEW S, NEW T, NEW s \in Seq(S), S \subseteq T
  PROVE  s \in Seq(T)
OBVIOUS

\* The entries of two sequences, one after the other.
LEMMA ConcatEntries ==
  ASSUME NEW S, NEW s \in Seq(S), NEW t \in Seq(S)
  PROVE  /\ s \o t \in Seq(S) /\ Len(s \o t) = Len(s) + Len(t)
         /\ \A i \in 1 .. Len(s) + Len(t) :
               (s \o t)[i] = IF i <= Len(s) THEN s[i] ELSE t[i - Len(s)]
OBVIOUS

\* Nothing before or after a sequence.
LEMMA ConcatNothing ==
  ASSUME NEW S, NEW s \in Seq(S)
  PROVE  s \o << >> = s /\ << >> \o s = s
OBVIOUS

\* Three sequences, one after the other.
LEMMA ConcatRegroup ==
  ASSUME NEW S, NEW s \in Seq(S), NEW t \in Seq(S), NEW u \in Seq(S)
  PROVE  (s \o t) \o u = s \o (t \o u)
OBVIOUS

\* A part that ends before it begins is empty.
LEMMA NoSubSeq ==
  ASSUME NEW s, NEW m \in Int, NEW n \in Int, n < m
  PROVE  SubSeq(s, m, n) = << >>
OBVIOUS

\* Two parts that touch are one part.
LEMMA ConcatParts ==
  ASSUME NEW S, NEW s \in Seq(S), NEW m \in 1 .. Len(s) + 1,
         NEW k \in m - 1 .. Len(s), NEW n \in k .. Len(s)
  PROVE  SubSeq(s, m, k) \o SubSeq(s, k + 1, n) = SubSeq(s, m, n)
OBVIOUS

-----------------------------------------------------------------------------
(* ReportText: ac_json_escape() stays inside its buffer and cuts no escape short *)
\* What is written for a byte is one, two or six bytes.
LEMMA EscapedLength ==
    ASSUME NEW b
    PROVE  Len(Escaped(b)) \in {1, 2, 6}
<1>1. CASE b = "quote"
  BY <1>1 DEF Escaped
<1>2. CASE b = "nl"
  BY <1>2 DEF Escaped
<1>3. CASE b = "ctl"
  BY <1>3 DEF Escaped
<1>4. CASE b \notin {"quote", "nl", "ctl"}
  <2>1. Escaped(b) = <<b>>
    BY <1>4 DEF Escaped
  <2> QED
    BY <2>1
<1> QED
  BY <1>1, <1>2, <1>3, <1>4

\* One turn of the loop keeps the index inside the buffer, with the '\0' to come.
LEMMA EscapeWithin ==
    ASSUME WithinBuffer, Escape
    PROVE  WithinBuffer'
<1>1. o \in Nat /\ o + 7 < ESC_LEN /\ ESC_LEN \in Nat
  BY TextAssumption DEF WithinBuffer, Escape, RoomForEscape
<1>2. PICK n \in {1, 2, 6} : o' = o + n
  BY EscapedLength, Zenon DEF Escape
<1> QED
  BY <1>1, <1>2 DEF WithinBuffer

\* ac_json_escape() never writes past the end of its buffer, whatever the text is.
THEOREM EscapeStaysInBuffer == TextSpec => []WithinBuffer
<1>1. TextInit => WithinBuffer
  BY TextAssumption DEF TextInit, WithinBuffer
<1>2. WithinBuffer /\ [TextNext]_textVars => WithinBuffer'
  <2> SUFFICES ASSUME WithinBuffer, [TextNext]_textVars PROVE WithinBuffer'
    OBVIOUS
  <2>1. CASE Escape
    BY <2>1, EscapeWithin
  <2>2. CASE o' = o
    BY <2>2 DEF WithinBuffer
  <2> QED
    BY <2>1, <2>2, Zenon DEF TextNext, Log, SendReport, Parse, ParseEnds, textVars
<1> QED
  BY <1>1, <1>2, PTL DEF TextSpec

\* The "\u" escape is never cut short: snprintf() always finds room for all of it, so
\* the index counts what was really written.
NeverCut == Escape => out' = out \o Escaped(Head(in))

\* This holds of every step, whatever the text and the size of the buffer.
THEOREM EscapeIsWhole == TextSpec => [][NeverCut]_textVars
<1>1. WithinBuffer /\ [TextNext]_textVars => [NeverCut]_textVars
  <2> SUFFICES ASSUME WithinBuffer, Escape PROVE NeverCut
    BY DEF NeverCut
  <2>1. o \in Nat /\ o + 7 < ESC_LEN /\ ESC_LEN \in Nat
    BY TextAssumption DEF WithinBuffer, Escape, RoomForEscape
  <2>2. CASE Head(in) = "ctl"
    <3> DEFINE w == <<"\\", "u", "h", "h", "h", "h">>
    <3>1. Escaped(Head(in)) = w /\ Len(w) = 6
      BY <2>2 DEF Escaped
    <3>2. Len(w) <= ESC_LEN - o - 1
      BY <2>1, <3>1
    <3>3. Cut(w, ESC_LEN - o - 1) = SubSeq(w, 1, Len(w))
      BY <2>1, <3>1, <3>2 DEF Cut
    <3>4. w \in Seq({"\\", "u", "h"})
      OBVIOUS
    <3>5. SubSeq(w, 1, Len(w)) = w
      BY <3>4, WholeSubSeq, Zenon
    <3> QED
      BY <2>2, <3>1, <3>3, <3>5, Zenon DEF NeverCut, Escape
  <2>3. CASE Head(in) # "ctl"
    BY <2>3 DEF NeverCut, Escape
  <2> QED
    BY <2>2, <2>3
<1> QED
  BY <1>1, EscapeStaysInBuffer, PTL DEF TextSpec

-----------------------------------------------------------------------------
(* StreamHash: what is hashed is the range, padded as the algorithm says     *)
-----------------------------------------------------------------------------
(* StreamHash: what has gone into the context is always the beginning of the padded message. *)

\* What has gone into the context so far, and the zero bytes of the padding.
Fed == hashed \o buf \o data
ZeroCount(n) == (BLOCK - ((n + 1 + LENBYTES) % BLOCK)) % BLOCK

\* In every phase what has gone in is the beginning of the padded message.
StreamFlow ==
    /\ phase # "end" => digest = Failed /\ done <= readable
    /\ phase = "read" => len = done /\ Fed = SubSeq(range, 1, done)
    /\ phase \in {"pad", "hex"} => done = size
    /\ phase = "pad" =>
          /\ lenbuf = LenBytes(size)
          /\ Len(Fed) \in size + 1 .. size + 1 + ZeroCount(size)
          /\ Fed = SubSeq(Padded(range), 1, Len(Fed))
    /\ phase = "hex" => Fed = Padded(range)
    /\ digest # Failed => digest = Padded(range) /\ readable = size

\* The inductive invariant of StreamHash.
StreamInv == StreamTypeOK /\ StreamFlow

-----------------------------------------------------------------------------
(* Arithmetic of whole blocks.                                               *)

\* A product with a positive factor is no smaller than the other.
LEMMA OneFactor == ASSUME NEW k \in Int, NEW b \in Nat \ {0}, k >= 1 PROVE b * k >= b
OBVIOUS

\* Quotient and remainder are determined.
LEMMA DivisionUnique ==
    ASSUME NEW b \in Nat \ {0}, NEW k \in Nat, NEW j \in Nat,
           NEW r \in 0 .. b - 1, NEW s \in 0 .. b - 1, b * k + r = b * j + s
    PROVE  k = j /\ r = s
<1>1. b * (k - j) = s - r /\ b * (j - k) = r - s
  OBVIOUS
<1>2. ~(k - j >= 1) /\ ~(j - k >= 1)
  BY <1>1, OneFactor
<1> QED BY <1>2

\* They exist.
LEMMA Division ==
    ASSUME NEW a \in Nat, NEW b \in Nat \ {0}
    PROVE  a = b * (a \div b) + (a % b) /\ a % b \in 0 .. b - 1 /\ a \div b \in Nat
OBVIOUS

\* The remainder of a number that is given by quotient and remainder.
LEMMA RemainderIs ==
    ASSUME NEW b \in Nat \ {0}, NEW k \in Nat, NEW r \in 0 .. b - 1 PROVE (b * k + r) % b = r
<1>1. PICK a \in Nat : a = b * k + r
  OBVIOUS
<1> QED BY <1>1, Division, DivisionUnique

\* One more block is whole blocks still.
LEMMA BlockMore ==
    ASSUME NEW a \in Nat, NEW b \in Nat \ {0}, a % b = 0 PROVE (a + b) % b = 0
<1>0. a = b * (a \div b) + 0 /\ a \div b \in Nat
  BY Division
<1>1. PICK k \in Nat : a = b * k
  BY <1>0, SMTT(30)
<1>2. a + b = b * (k + 1) + 0
  BY <1>1
<1>3. (b * (k + 1) + 0) % b = 0
  BY RemainderIs
<1> QED BY <1>2, <1>3

\* Whole blocks that end with less than a block leave nothing over.
LEMMA NothingOver ==
    ASSUME NEW a \in Nat, NEW b \in Nat \ {0}, NEW r \in 0 .. b - 1, a % b = 0, (a + r) % b = 0
    PROVE  r = 0
<1>0. a = b * (a \div b) + 0 /\ a \div b \in Nat
  BY Division
<1>1. PICK k \in Nat : a = b * k
  BY <1>0
<1>2. (b * k + r) % b = r
  BY RemainderIs
<1> QED BY <1>1, <1>2

\* z zeros after the one bit let a length field of l bytes end a block of b, and no fewer do.
FewestZeros(n, l, b, z) ==
    /\ z \in 0 .. b - 1 /\ (n + 1 + z + l) % b = 0
    /\ \A y \in 0 .. z : (n + 1 + y + l) % b = 0 => y = z

\* The number of zeros is the least that makes the length field end a block: fewer do not
\* bring the buffer to where the field begins.
LEMMA ZerosFit ==
    ASSUME NEW n \in Nat, NEW l \in Nat, NEW b \in Nat \ {0}, l \in 1 .. b - 1,
           NEW z, z = (b - ((n + 1 + l) % b)) % b
    PROVE  FewestZeros(n, l, b, z)
<1> USE DEF FewestZeros
<1>1. PICK k \in Nat, r \in 0 .. b - 1 : n + 1 + l = b * k + r /\ r = (n + 1 + l) % b
  <2>1. n + 1 + l \in Nat
    OBVIOUS
  <2> QED BY <2>1, Division, Zenon
<1>2. CASE r = 0
  <2>1. (b * 1 + 0) % b = 0
    BY RemainderIs
  <2>2. z = 0
    BY <1>1, <1>2, <2>1
  <2> QED BY <1>1, <1>2, <2>2
<1>3. CASE r # 0
  <2>1. (b * 0 + (b - r)) % b = b - r
    BY <1>3, RemainderIs
  <2>2. z = b - r
    BY <1>1, <2>1
  <2>3. n + 1 + z + l = b * (k + 1) + 0
    BY <1>1, <2>2
  <2>4. (n + 1 + z + l) % b = 0
    BY <2>3, RemainderIs, SMTT(30)
  <2>5. ASSUME NEW y \in 0 .. z, (n + 1 + y + l) % b = 0 PROVE y = z
    <3>1. CASE y = z
      BY <3>1
    <3>2. CASE y < z
      <4>1. r + y \in 0 .. b - 1 /\ n + 1 + y + l = b * k + (r + y)
        BY <1>1, <2>2, <3>2
      <4>2. (b * k + (r + y)) % b = r + y
        BY <4>1, RemainderIs, Zenon
      <4> QED BY <1>3, <2>5, <4>1, <4>2
    <3> QED BY <2>2, <3>1, <3>2
  <2> QED BY <1>3, <2>2, <2>4, <2>5
<1> QED BY <1>2, <1>3

\* Two numbers of whole blocks less than two blocks apart are one block apart.
LEMMA OneBlockApart ==
    ASSUME NEW a \in Nat, NEW b \in Nat \ {0}, NEW c \in Nat, c > 0, c < b + b,
           a % b = 0, (a + c) % b = 0
    PROVE  c = b
<1>1. a = b * (a \div b) + 0 /\ a \div b \in Nat
  BY Division
<1>2. a + c \in Nat
  OBVIOUS
<1>3. a + c = b * ((a + c) \div b) + 0 /\ (a + c) \div b \in Nat
  BY <1>2, Division
<1>4. PICK k \in Nat, j \in Nat : a = b * k /\ a + c = b * j
  <2>1. PICK k \in Nat : a = b * k
    BY <1>1
  <2>2. PICK j \in Nat : a + c = b * j
    BY <1>3
  <2> QED BY <2>1, <2>2, Zenon
<1>5. c = b * (j - k)
  BY <1>4
<1>6. j - k >= 1
  BY <1>5
<1>7. ~(j - k - 1 >= 1)
  <2>1. b * (j - k - 1) = c - b
    BY <1>5
  <2> QED BY <2>1, OneFactor
<1>8. j - k = 1
  BY <1>6, <1>7
<1> QED BY <1>5, <1>8

-----------------------------------------------------------------------------
(* Sequences of bytes.  Octets and Cat stay unexpanded where a lemma is cited. *)

\* Bytes, sequences of bytes and their concatenation.
Octet == 0 .. 255
Octets == Seq(Octet)
Cat(x, y) == x \o y

\* c is x, which has m bytes, followed by y, which has n.
Joined(c, x, y, m, n) ==
    /\ Len(c) = m + n
    /\ \A i \in 1 .. m : c[i] = x[i]
    /\ \A j \in 1 .. n : c[m + j] = y[j]

\* Two sequences of the same bytes are equal.
LEMMA SameBytes ==
    ASSUME NEW x \in Octets, NEW y \in Octets, NEW n \in Nat, Len(x) = n, Len(y) = n,
           \A i \in 1 .. n : x[i] = y[i]
    PROVE  x = y
BY SameEntries DEF Octets

\* A length is a number, and the empty sequence is the one of length zero.
LEMMA Lengths ==
    ASSUME NEW x \in Octets
    PROVE  Len(x) \in Nat /\ (x = <<>> <=> Len(x) = 0)
BY NoEntries DEF Octets

\* Concatenation yields bytes.
LEMMA Closed == ASSUME NEW x \in Octets, NEW y \in Octets PROVE Cat(x, y) \in Octets
BY ConcatEntries DEF Octets, Cat

\* Concatenation: where the bytes of the two go.
LEMMA Concat ==
    ASSUME NEW x \in Octets, NEW y \in Octets, NEW m \in Nat, NEW n \in Nat, Len(x) = m, Len(y) = n
    PROVE  Joined(Cat(x, y), x, y, m, n)
<1>1. /\ Len(x \o y) = m + n
      /\ \A i \in 1 .. m + n : (x \o y)[i] = IF i <= m THEN x[i] ELSE y[i - m]
  BY ConcatEntries, Zenon DEF Octets
<1>2. ASSUME NEW j \in 1 .. n PROVE (x \o y)[m + j] = y[j]
  <2>1. PICK i \in 1 .. m + n : i = m + j
    OBVIOUS
  <2>2. (x \o y)[i] = y[i - m] /\ i - m = j
    BY <1>1, <2>1
  <2> QED BY <2>1, <2>2
<1>3. \A i \in 1 .. m : (x \o y)[i] = x[i]
  BY <1>1
<1> QED BY <1>1, <1>2, <1>3, Zenon DEF Cat, Joined

\* It is associative, and the empty sequence is neutral.
LEMMA Assoc ==
    ASSUME NEW x \in Octets, NEW y \in Octets, NEW z \in Octets
    PROVE  Cat(x, Cat(y, z)) = Cat(Cat(x, y), z)
BY ConcatRegroup, SMTT(30) DEF Octets, Cat

\* The empty sequence adds nothing.
LEMMA Neutral == ASSUME NEW x \in Octets PROVE Cat(x, <<>>) = x /\ <<>> \in Octets
BY ConcatNothing DEF Octets, Cat

\* Concatenation, regrouped.
LEMMA Regroup ==
    ASSUME NEW h \in Octets, NEW b \in Octets, NEW u \in Octets, NEW v \in Octets
    PROVE  /\ Cat(Cat(h, Cat(b, u)), v) = Cat(Cat(h, b), Cat(u, v))
           /\ Cat(Cat(h, Cat(b, u)), <<>>) = Cat(h, Cat(b, u))
<1>1. Cat(h, b) \in Octets /\ Cat(b, u) \in Octets
  BY Closed
<1>2. Cat(h, Cat(b, u)) = Cat(Cat(h, b), u)
  BY Assoc
<1>3. Cat(Cat(Cat(h, b), u), v) = Cat(Cat(h, b), Cat(u, v))
  BY <1>1, Assoc
<1>4. Cat(h, Cat(b, u)) \in Octets
  BY <1>1, Closed
<1> QED BY <1>2, <1>3, <1>4, Neutral, Zenon

\* The beginning of a sequence.
LEMMA Beginning ==
    ASSUME NEW m \in Octets, NEW k \in Nat, k <= Len(m)
    PROVE  /\ SubSeq(m, 1, k) \in Octets /\ Len(SubSeq(m, 1, k)) = k
           /\ \A i \in 1 .. k : SubSeq(m, 1, k)[i] = m[i]
BY DEF Octets

\* A sequence is its beginning and the rest.
LEMMA CutOff ==
    ASSUME NEW d \in Octets, NEW n \in Nat, n <= Len(d)
    PROVE  /\ SubSeq(d, n + 1, Len(d)) \in Octets
           /\ Cat(SubSeq(d, 1, n), SubSeq(d, n + 1, Len(d))) = d
<1>1. SubSeq(d, n + 1, Len(d)) \in Octets
  BY DEF Octets
<1>2. 1 \in 1 .. Len(d) + 1 /\ n \in 1 - 1 .. Len(d) /\ Len(d) \in n .. Len(d)
  BY Lengths
<1>3. SubSeq(d, 1, n) \o SubSeq(d, n + 1, Len(d)) = SubSeq(d, 1, Len(d))
  BY <1>2, ConcatParts, Zenon DEF Octets
<1>4. SubSeq(d, 1, Len(d)) = d
  BY WholeSubSeq DEF Octets
<1> QED BY <1>1, <1>3, <1>4, Zenon DEF Cat

\* d is u followed by v, and moving u from the data to the buffer b, or with it to the hashed
\* bytes h, keeps the order.
Shifted(h, b, d, u, v) ==
    /\ u \in Octets /\ v \in Octets
    /\ Cat(Cat(Cat(h, Cat(b, u)), <<>>), v) = Cat(Cat(h, b), d)
    /\ Cat(Cat(h, Cat(b, u)), v) = Cat(Cat(h, b), d)

\* A round of the loop of ac_sha256_update() moves bytes and keeps their order.
LEMMA RoundKeeps ==
    ASSUME NEW h \in Octets, NEW b \in Octets, NEW d \in Octets, NEW n \in Nat, n <= Len(d)
    PROVE  Shifted(h, b, d, SubSeq(d, 1, n), SubSeq(d, n + 1, Len(d)))
<1>1. PICK u \in Octets, v \in Octets : u = SubSeq(d, 1, n) /\ v = SubSeq(d, n + 1, Len(d))
  BY Beginning, CutOff, Zenon
<1>2. Cat(u, v) = d
  BY <1>1, CutOff
<1>3. Shifted(h, b, d, u, v)
  BY <1>2, Regroup DEF Shifted
<1> QED BY <1>1, <1>3

\* The n bytes of d are what follows the first k bytes in m.
Follows(d, m, k, n) == Len(d) = n /\ k + n <= Len(m) /\ \A j \in 1 .. n : d[j] = m[k + j]

\* A beginning of m, followed by what follows it in m, is a beginning of m.
LEMMA BeginningGrows ==
    ASSUME NEW m \in Octets, NEW d \in Octets, NEW k \in Nat, NEW n \in Nat, Follows(d, m, k, n)
    PROVE  Cat(SubSeq(m, 1, k), d) = SubSeq(m, 1, k + n)
<1> USE DEF Follows
<1>0. Len(m) \in Nat
  BY Lengths
<1>1. PICK f \in Octets : /\ f = SubSeq(m, 1, k)
                          /\ Len(f) = k /\ \A i \in 1 .. k : f[i] = m[i]
  <2>1. k <= Len(m)
    BY <1>0
  <2> QED BY <2>1, Beginning, Zenon
<1>2. PICK g \in Octets : /\ g = SubSeq(m, 1, k + n)
                          /\ Len(g) = k + n /\ \A i \in 1 .. k + n : g[i] = m[i]
  <2>1. k + n \in Nat
    OBVIOUS
  <2> QED BY <2>1, Beginning, ZenonT(60)
<1>3. PICK c \in Octets : c = Cat(f, d) /\ Joined(c, f, d, k, n)
  BY <1>1, Concat, Closed, Zenon
<1>4. \A i \in 1 .. k + n : c[i] = g[i]
  <2>1. SUFFICES ASSUME NEW i \in 1 .. k + n PROVE c[i] = g[i]
    BY Zenon
  <2>2. CASE i <= k
    BY <1>1, <1>2, <1>3, <2>2 DEF Joined
  <2>3. CASE i > k
    <3>1. PICK j \in 1 .. n : i = k + j
      <4>1. i - k \in 1 .. n /\ i = k + (i - k)
        BY <2>3
      <4> QED BY <4>1
    <3>2. c[i] = d[j] /\ g[i] = m[k + j]
      BY <1>2, <1>3, <3>1 DEF Joined
    <3> QED BY <3>2
  <2> QED BY <2>2, <2>3
<1>5. c = g
  <2>1. k + n \in Nat
    OBVIOUS
  <2> QED BY <1>2, <1>3, <1>4, <2>1, SameBytes, ZenonT(60) DEF Joined
<1> QED BY <1>1, <1>2, <1>3, <1>5

\* The length field is a field of bytes.
LEMMA LenField ==
    ASSUME NEW n \in Nat
    PROVE  /\ LenBytes(n) \in [1 .. LENBYTES -> Octet] /\ LenBytes(n) \in Octets
           /\ Len(LenBytes(n)) = LENBYTES
<1>1. \A i \in 1 .. LENBYTES : ((n * 8) \div (256 ^ (LENBYTES - i))) % 256 \in Octet
  BY StreamAssumption DEF Octet
<1>2. LenBytes(n) \in [1 .. LENBYTES -> Octet]
  BY <1>1 DEF LenBytes
<1> QED BY <1>2, StreamAssumption DEF Octets

\* The zeros are bytes too.
LEMMA ZeroField ==
    ASSUME NEW n \in Nat
    PROVE  /\ ZeroCount(n) \in Nat /\ Zeros(n) \in Octets /\ Len(Zeros(n)) = ZeroCount(n)
           /\ \A i \in 1 .. ZeroCount(n) : Zeros(n)[i] = 0
<1>1. ZeroCount(n) \in Nat
  BY StreamAssumption, ZerosFit DEF ZeroCount
<1>2. PICK z \in Nat : z = ZeroCount(n)
  BY <1>1
<1>3. Zeros(n) = [i \in 1 .. z |-> 0]
  BY <1>2 DEF Zeros, ZeroCount
<1>4. Zeros(n) \in [1 .. z -> Octet]
  BY <1>3 DEF Octet
<1> QED BY <1>2, <1>3, <1>4 DEF Octets

\* How many zeros there are, for this block and this length field.
LEMMA ZeroLaw ==
    ASSUME NEW n \in Nat
    PROVE  /\ ZeroCount(n) \in Nat /\ (n + 1 + ZeroCount(n) + LENBYTES) % BLOCK = 0
           /\ \A y \in 0 .. ZeroCount(n) : (n + 1 + y + LENBYTES) % BLOCK = 0 => y = ZeroCount(n)
<1>1. BLOCK \in Nat \ {0} /\ LENBYTES \in Nat /\ LENBYTES \in 1 .. BLOCK - 1
  BY StreamAssumption
<1>2. PICK z : z = (BLOCK - ((n + 1 + LENBYTES) % BLOCK)) % BLOCK
  OBVIOUS
<1>3. FewestZeros(n, LENBYTES, BLOCK, z)
  BY <1>1, <1>2, ZerosFit, Zenon
<1>4. z = ZeroCount(n)
  BY <1>2 DEF ZeroCount
<1>5. z \in Nat
  BY <1>1, <1>3 DEF FewestZeros
<1> QED BY <1>3, <1>4, <1>5, Zenon DEF FewestZeros

\* q is m, of n bytes, a one bit, z zeros and the length field.
PaddedForm(q, m, n, z) ==
    /\ Len(q) = n + 1 + z + LENBYTES
    /\ (n + 1 + z + LENBYTES) % BLOCK = 0
    /\ SubSeq(q, 1, n) = m
    /\ q[n + 1] = 128
    /\ \A i \in 1 .. z : q[n + 1 + i] = 0
    /\ \A i \in 1 .. LENBYTES : q[n + 1 + z + i] = LenBytes(n)[i]

\* The padded message: its length is whole blocks, and what stands where.
LEMMA PaddedParts ==
    ASSUME NEW m \in Octets, NEW n \in Nat, n = Len(m), NEW z \in Nat, z = ZeroCount(n)
    PROVE  Padded(m) \in Octets /\ PaddedForm(Padded(m), m, n, z)
<1>1. PICK l \in Octets, e \in Nat : l = LenBytes(n) /\ e = LENBYTES /\ Len(l) = e
  BY LenField, StreamAssumption
<1>2. PICK zs \in Octets : zs = Zeros(n) /\ Len(zs) = z /\ \A i \in 1 .. z : zs[i] = 0
  BY ZeroField
<1>3. PICK one \in Octets : one = <<128>> /\ Len(one) = 1 /\ one[1] = 128
  <2>1. <<128>> \in Octets
    BY DEF Octet, Octets
  <2> QED BY <2>1
<1>4. PICK a \in Octets : a = Cat(m, one) /\ Joined(a, m, one, n, 1)
  <2>1. 1 \in Nat /\ Len(m) = n
    OBVIOUS
  <2>2. Joined(Cat(m, one), m, one, n, 1)
    BY <1>3, <2>1, Concat, ZenonT(60)
  <2> QED BY <2>2, Closed
<1>5. PICK k \in Nat : k = n + 1 /\ Len(a) = k
  BY <1>4 DEF Joined
<1>6. PICK b \in Octets : b = Cat(a, zs) /\ Joined(b, a, zs, k, z)
  BY <1>2, <1>5, Concat, Closed
<1>7. PICK w \in Nat : w = n + 1 + z /\ Len(b) = w
  BY <1>5, <1>6 DEF Joined
<1>8. PICK q \in Octets : q = Cat(b, l) /\ Joined(q, b, l, w, e)
  BY <1>1, <1>7, Concat, Closed
<1>9. q = Padded(m)
  BY <1>1, <1>2, <1>3, <1>4, <1>6, <1>8, Zenon DEF Padded, Cat
<1>10. (n + 1 + z + LENBYTES) % BLOCK = 0
  BY ZeroLaw
<1>11. Len(q) = w + e /\ \A i \in 1 .. w : q[i] = b[i]
  BY <1>8 DEF Joined
<1>12. SubSeq(q, 1, n) = m
  <2>1. \A i \in 1 .. n : q[i] = m[i]
    <3>1. SUFFICES ASSUME NEW i \in 1 .. n PROVE q[i] = m[i]
      OBVIOUS
    <3>2. i \in 1 .. w /\ i \in 1 .. k
      BY <1>5, <1>7, SMTT(30)
    <3>3. q[i] = b[i] /\ b[i] = a[i] /\ a[i] = m[i]
      BY <1>4, <1>6, <1>11, <3>2 DEF Joined
    <3> QED BY <3>3
  <2>2. n <= Len(q)
    BY <1>7, <1>11
  <2>3. PICK p \in Octets : p = SubSeq(q, 1, n)
    BY <2>2, Beginning, Zenon
  <2>4. Len(p) = n /\ \A i \in 1 .. n : p[i] = q[i]
    BY <2>2, <2>3, Beginning
  <2>5. p = m
    <3>1. \A i \in 1 .. n : p[i] = m[i]
      BY <2>1, <2>4, Zenon
    <3> QED BY <2>4, <3>1, SameBytes, Zenon
  <2> QED BY <2>3, <2>5
<1>13. q[n + 1] = 128
  <2>1. a[n + 1] = one[1]
    BY <1>4 DEF Joined
  <2>2. b[n + 1] = a[n + 1] /\ q[n + 1] = b[n + 1]
    BY <1>5, <1>6, <1>7, <1>11, SMTT(30) DEF Joined
  <2> QED BY <1>3, <2>1, <2>2
<1>14. \A i \in 1 .. z : q[n + 1 + i] = 0
  <2>1. SUFFICES ASSUME NEW i \in 1 .. z PROVE q[n + 1 + i] = 0
    OBVIOUS
  <2>2. b[k + i] = zs[i] /\ zs[i] = 0
    BY <1>2, <1>6 DEF Joined
  <2>3. k + i = n + 1 + i /\ k + i \in 1 .. w
    BY <1>5, <1>7
  <2> QED BY <1>11, <2>2, <2>3, Zenon
<1>15. \A i \in 1 .. e : q[n + 1 + z + i] = l[i]
  BY <1>7, <1>8, SMTT(30) DEF Joined
<1>16. Len(q) = n + 1 + z + LENBYTES
  BY <1>1, <1>7, <1>11
<1>17. PaddedForm(q, m, n, z)
  BY <1>1, <1>10, <1>12, <1>13, <1>14, <1>15, <1>16, Zenon DEF PaddedForm
<1> QED BY <1>9, <1>17

-----------------------------------------------------------------------------
(* The steps.                                                                *)

\* What the type invariant says, in the terms of the lemmas above.
LEMMA StreamTypes ==
    ASSUME StreamTypeOK
    PROVE  /\ range \in Octets /\ hashed \in Octets /\ buf \in Octets /\ data \in Octets
           /\ size \in Nat /\ Len(hashed) \in Nat /\ Len(buf) \in Nat /\ Len(data) \in Nat
           /\ BLOCK \in Nat \ {0} /\ LENBYTES \in Nat
           /\ done \in Nat /\ readable \in Nat
<1>1. range \in Seq(Octet)
  <2>1. Byte \subseteq Octet
    BY StreamAssumption DEF Octet
  <2>2. range \in Seq(Byte)
    BY DEF StreamTypeOK
  <2> QED BY <2>1, <2>2, LargerRange, Zenon
<1>2. range \in Octets /\ hashed \in Octets /\ buf \in Octets /\ data \in Octets
  BY <1>1 DEF StreamTypeOK, Octets, Octet
<1>3. size \in Nat /\ Len(hashed) \in Nat /\ Len(buf) \in Nat /\ Len(data) \in Nat
  BY <1>2, Lengths DEF size
<1> QED BY <1>2, <1>3, StreamAssumption DEF StreamTypeOK

\* With nothing left to take, a call of ac_sha256_update() appends to what was fed.
LEMMA UpdateAppends ==
    ASSUME StreamTypeOK, data = <<>>, UNCHANGED <<hashed, buf>>, NEW d, data' = d
    PROVE  Fed' = Cat(Fed, d) /\ Fed = Cat(hashed, buf) /\ Fed \in Octets
<1>1. Cat(hashed, buf) \in Octets
  BY StreamTypes, Closed
<1>2. Fed = Cat(Cat(hashed, buf), <<>>)
  BY DEF Fed, Cat
<1>3. Fed = Cat(hashed, buf)
  BY <1>1, <1>2, Neutral
<1>4. Fed' = Cat(Cat(hashed, buf), d)
  BY DEF Fed, Cat
<1> QED BY <1>1, <1>3, <1>4

\* A round of the loop of ac_sha256_update() changes where the bytes are and not what they are.
LEMMA TakeStep == ASSUME StreamInv, Take PROVE StreamInv'
<1>1. /\ hashed \in Octets /\ buf \in Octets /\ data \in Octets
      /\ Len(hashed) \in Nat /\ Len(buf) \in Nat /\ Len(data) \in Nat /\ BLOCK \in Nat \ {0}
      /\ Len(buf) < BLOCK /\ Len(hashed) % BLOCK = 0
  BY StreamTypes, Zenon DEF StreamTypeOK, StreamInv
<1>2. PICK n \in Nat : n = Least(BLOCK - Len(buf), Len(data))
  BY <1>1 DEF Least
<1>3. n <= Len(data) /\ Len(buf) + n <= BLOCK
  BY <1>1, <1>2 DEF Least
<1>4. PICK u, v : u = SubSeq(data, 1, n) /\ v = SubSeq(data, n + 1, Len(data))
  BY Zenon
<1>5. /\ u \in Octets /\ v \in Octets
      /\ Cat(Cat(Cat(hashed, Cat(buf, u)), <<>>), v) = Cat(Cat(hashed, buf), data)
      /\ Cat(Cat(hashed, Cat(buf, u)), v) = Cat(Cat(hashed, buf), data)
  <2>1. Shifted(hashed, buf, data, u, v)
    BY <1>1, <1>3, <1>4, RoundKeeps, Zenon
  <2> QED BY <2>1 DEF Shifted
<1>6. Len(u) = n
  BY <1>1, <1>3, <1>4, Beginning, Zenon
<1>7. PICK whole \in Octets : whole = Cat(buf, u)
  BY <1>1, <1>5, Closed, Zenon
<1>8. Len(whole) = Len(buf) + n
  <2>1. Joined(whole, buf, u, Len(buf), n)
    BY <1>1, <1>5, <1>6, <1>7, Concat
  <2> QED BY <2>1, Zenon DEF Joined
<1>9. /\ UNCHANGED <<range, readable, done, len, lenbuf, phase, digest>> /\ data' = v
      /\ \/ Len(whole) = BLOCK /\ hashed' = Cat(hashed, whole) /\ buf' = <<>>
         \/ Len(whole) < BLOCK /\ buf' = whole /\ UNCHANGED hashed
  BY <1>2, <1>4, <1>7, Zenon DEF Take, ac_sha256_block, Cat
<1>10. Fed' = Fed
  BY <1>5, <1>7, <1>9, Zenon DEF Fed, Cat
<1>11. StreamFlow'
  BY <1>9, <1>10, Zenon DEF StreamFlow, size, StreamInv
<1>12. hashed' \in Octets /\ buf' \in Octets /\ data' \in Octets
  BY <1>1, <1>5, <1>9, Closed, Neutral, Zenon
<1>13. Len(buf') < BLOCK /\ Len(hashed') % BLOCK = 0
  <2>1. CASE Len(whole) = BLOCK /\ hashed' = Cat(hashed, whole) /\ buf' = <<>>
    <3>1. Joined(hashed', hashed, whole, Len(hashed), BLOCK)
      BY <1>1, <2>1, Concat
    <3>2. Len(hashed') = Len(hashed) + BLOCK
      BY <3>1 DEF Joined
    <3>3. (Len(hashed) + BLOCK) % BLOCK = 0
      BY <1>1, BlockMore
    <3> QED BY <1>1, <2>1, <3>2, <3>3
  <2>2. CASE Len(whole) < BLOCK /\ buf' = whole /\ UNCHANGED hashed
    BY <1>1, <2>2, Zenon
  <2> QED BY <1>9, <2>1, <2>2
<1>14. StreamTypeOK'
  BY <1>9, <1>12, <1>13, SMTT(30) DEF StreamTypeOK, size, Octets, Octet, StreamInv
<1> QED BY <1>11, <1>14 DEF StreamInv

\* A piece of a sequence follows what stands before it.
LEMMA Piece ==
    ASSUME NEW m \in Octets, NEW k \in Nat, NEW n \in Nat, n > 0, k + n <= Len(m)
    PROVE  \E d \in Octets : d = SubSeq(m, k + 1, k + n) /\ Len(d) = n /\ Follows(d, m, k, n)
<1>1. SubSeq(m, k + 1, k + n) \in Octets /\ Len(SubSeq(m, k + 1, k + n)) = n
  BY DEF Octets
<1>2. ASSUME NEW j \in 1 .. n PROVE SubSeq(m, k + 1, k + n)[j] = m[k + j]
  BY SMTT(30) DEF Octets
<1>3. Follows(SubSeq(m, k + 1, k + n), m, k, n)
  BY <1>1, <1>2 DEF Follows
<1> QED BY <1>1, <1>3, Zenon

\* pread() delivers the next bytes of the range.
LEMMA PreadStep == ASSUME StreamInv, Pread PROVE StreamInv'
<1>1. /\ range \in Octets /\ size \in Nat /\ done \in Nat /\ readable \in 0 .. size
      /\ CHUNK \in Nat
  BY StreamTypes, StreamAssumption, Zenon DEF StreamTypeOK, StreamInv
<1>2. PICK r \in 1 .. Least(size - done, CHUNK) :
          /\ done + r <= readable
          /\ Update(SubSeq(range, done + 1, done + r))
          /\ done' = done + r
  BY DEF Pread
<1>3. r \in Nat /\ done + r <= size /\ r > 0
  BY <1>1, <1>2 DEF Least
<1>4. PICK d \in Octets : /\ d = SubSeq(range, done + 1, done + r) /\ Len(d) = r
                          /\ Follows(d, range, done, r)
  BY <1>1, <1>3, Piece, Zenon DEF size
<1>5. /\ phase = "read" /\ data = <<>> /\ data' = d /\ len' = len + r
      /\ UNCHANGED <<range, readable, hashed, buf, lenbuf, phase, digest>>
  BY <1>2, <1>4, Zenon DEF Pread, Update
<1>6. len = done /\ Fed = SubSeq(range, 1, done) /\ digest = Failed
  BY <1>5 DEF StreamFlow, StreamInv
<1>7. Fed' = Cat(SubSeq(range, 1, done), d)
  BY <1>5, <1>6, UpdateAppends DEF StreamInv
<1>8. Fed' = SubSeq(range, 1, done + r)
  BY <1>1, <1>3, <1>4, <1>7, BeginningGrows DEF size
<1>9. StreamFlow'
  BY <1>2, <1>5, <1>6, <1>8 DEF StreamFlow, StreamInv
<1>10. done' \in 0 .. size' /\ len' \in Nat /\ data' \in Seq(0 .. 255)
  <2>1. done' \in 0 .. size' /\ len' \in Nat
    BY <1>1, <1>2, <1>3, <1>5, <1>6 DEF size
  <2>2. data' \in Seq(0 .. 255)
    BY <1>4, <1>5, Zenon DEF Octets, Octet
  <2> QED BY <2>1, <2>2
<1>11. StreamTypeOK'
  BY <1>5, <1>10, SMTT(30) DEF StreamTypeOK, size, StreamInv
<1> QED BY <1>9, <1>11 DEF StreamInv

\* pread() fails.
LEMMA PreadFailsStep == ASSUME StreamInv, PreadFails PROVE StreamInv'
<1>1. /\ UNCHANGED <<range, readable, done, hashed, len, buf, data, lenbuf>>
      /\ phase' = "end" /\ digest' = Failed
  BY DEF PreadFails, ctx
<1>2. StreamTypeOK'
  BY <1>1, Zenon DEF StreamTypeOK, size, StreamInv
<1>3. StreamFlow'
  BY <1>1 DEF StreamFlow, StreamInv
<1> QED BY <1>2, <1>3 DEF StreamInv

\* ac_sha256_final() begins: the whole range has been fed, and its length is taken.
LEMMA FinalStep == ASSUME StreamInv, Final PROVE StreamInv'
<1>1. /\ range \in Octets /\ size \in Nat /\ done = size
      /\ phase = "read" /\ data = <<>> /\ data' = <<128>> /\ len' = len + 1 /\ phase' = "pad"
      /\ lenbuf' = LenBytes(len) /\ UNCHANGED <<range, readable, done, hashed, buf, digest>>
  BY StreamTypes DEF Final, Update, StreamInv
<1>2. len = size /\ Fed = SubSeq(range, 1, size) /\ digest = Failed /\ done <= readable
  BY <1>1 DEF StreamFlow, StreamInv
<1>3. PICK n \in Nat, z \in Nat, m \in Octets :
          n = size /\ z = ZeroCount(n) /\ m = Padded(range)
  BY <1>1, ZeroLaw, PaddedParts, Zenon DEF size
<1>4. /\ Len(m) = n + 1 + z + LENBYTES /\ SubSeq(m, 1, n) = range /\ m[n + 1] = 128
      /\ LENBYTES \in Nat
  <2>1. PaddedForm(m, range, n, z)
    BY <1>1, <1>3, PaddedParts DEF size
  <2> QED BY <2>1, StreamAssumption DEF PaddedForm
<1>5. Fed = SubSeq(m, 1, n)
  <2>1. SubSeq(range, 1, Len(range)) = range
    BY <1>1, WholeSubSeq DEF Octets
  <2> QED BY <1>2, <1>4, <2>1 DEF size
<1>6. PICK d \in Octets : d = <<128>> /\ Follows(d, m, n, 1)
  <2>1. <<128>> \in Octets
    BY DEF Octet, Octets
  <2>2. Follows(<<128>>, m, n, 1)
    BY <1>4 DEF Follows
  <2> QED BY <2>1, <2>2
<1>7. Fed' = Cat(SubSeq(m, 1, n), d)
  BY <1>1, <1>5, <1>6, UpdateAppends DEF StreamInv
<1>8. Fed' = SubSeq(m, 1, n + 1)
  <2>1. 1 \in Nat
    OBVIOUS
  <2> QED BY <1>6, <1>7, <2>1, BeginningGrows
<1>9. Len(Fed') = n + 1
  <2>1. n + 1 \in Nat /\ n + 1 <= Len(m)
    BY <1>4
  <2> QED BY <1>8, <2>1, Beginning
<1>10. StreamFlow'
  <2>1. Len(Fed)' \in size' + 1 .. size' + 1 + ZeroCount(size)'
    BY <1>1, <1>3, <1>9, SMTT(30) DEF size, ZeroCount
  <2>2. Fed' = SubSeq(Padded(range)', 1, Len(Fed)')
    BY <1>1, <1>3, <1>8, <1>9, ZenonT(60) DEF Padded, Zeros, LenBytes
  <2>3. lenbuf' = LenBytes(size)'
    BY <1>1, <1>2, Zenon DEF LenBytes, size
  <2> QED BY <1>1, <1>2, <2>1, <2>2, <2>3, Zenon DEF StreamFlow, size, StreamInv
<1>11. StreamTypeOK'
  <2>0. LenBytes(len) \in [1 .. LENBYTES -> Octet]
    BY <1>1, <1>2, LenField
  <2>1. lenbuf' \in [1 .. LENBYTES -> 0 .. 255] /\ len' \in Nat
    <3>1. len' \in Nat
      BY <1>1, <1>2
    <3> QED BY <1>1, <2>0, <3>1, Zenon DEF Octet
  <2>2. data' \in Seq(0 .. 255)
    BY <1>1
  <2> QED BY <1>1, <2>1, <2>2, Zenon DEF StreamTypeOK, size, StreamInv
<1> QED BY <1>10, <1>11 DEF StreamInv

\* The loop of ac_sha256_final() stops after as many zeros as the padded message has, and the
\* length field follows.
LEMMA PadStep == ASSUME StreamInv, Pad PROVE StreamInv'
<1>1. /\ range \in Octets /\ size \in Nat /\ hashed \in Octets /\ buf \in Octets
      /\ Len(hashed) \in Nat /\ Len(buf) \in Nat /\ BLOCK \in Nat \ {0} /\ LENBYTES \in Nat
      /\ Len(hashed) % BLOCK = 0 /\ Len(buf) < BLOCK /\ LENBYTES \in 1 .. BLOCK - 1
  BY StreamTypes, StreamAssumption, Zenon DEF StreamTypeOK, StreamInv
<1>2. /\ phase = "pad" /\ data = <<>>
      /\ UNCHANGED <<range, readable, done, hashed, buf, lenbuf, digest>>
  BY DEF Pad
<1>3. /\ done = size /\ done <= readable /\ digest = Failed /\ lenbuf = LenBytes(size)
      /\ Len(Fed) \in size + 1 .. size + 1 + ZeroCount(size)
      /\ Fed = SubSeq(Padded(range), 1, Len(Fed))
  BY <1>2 DEF StreamFlow, StreamInv
<1>4. PICK n \in Nat, z \in Nat, m \in Octets :
          n = size /\ z = ZeroCount(n) /\ m = Padded(range)
  BY <1>1, ZeroLaw, PaddedParts, Zenon DEF size
<1>5. PaddedForm(m, range, n, z)
  BY <1>1, <1>4, PaddedParts DEF size
<1>6. Fed = Cat(hashed, buf) /\ \A d : data' = d => Fed' = Cat(Fed, d)
  BY <1>2, UpdateAppends DEF StreamInv
<1>7. Len(Fed) = Len(hashed) + Len(buf)
  <2>1. Joined(Fed, hashed, buf, Len(hashed), Len(buf))
    BY <1>1, <1>6, Concat
  <2> QED BY <2>1, Zenon DEF Joined
<1>8. PICK k \in Nat, y \in 0 .. z : k = Len(Fed) /\ k = n + 1 + y
  <2>1. Len(Fed) - (n + 1) \in 0 .. z /\ Len(Fed) \in Nat
    BY <1>1, <1>3, <1>4
  <2> QED BY <2>1
<1>9. Fed = SubSeq(m, 1, k)
  BY <1>3, <1>4, <1>8
<1>10. CASE Len(buf) # BLOCK - LENBYTES
  <2>1. data' = <<0>> /\ phase' = phase /\ len' = len + 1
    BY <1>10 DEF Pad, Update
  <2>2. y # z
    <3>1. SUFFICES ASSUME y = z PROVE FALSE
      OBVIOUS
    <3>2. (n + 1 + z + LENBYTES) % BLOCK = 0
      BY <1>5 DEF PaddedForm
    <3>3. PICK c \in Nat : c = Len(buf) + LENBYTES
      BY <1>1
    <3>4. Len(hashed) + c = n + 1 + z + LENBYTES
      BY <1>1, <1>7, <1>8, <3>1, <3>3
    <3>5. (Len(hashed) + c) % BLOCK = 0 /\ c > 0 /\ c < BLOCK + BLOCK
      BY <1>1, <3>2, <3>3, <3>4
    <3>6. c = BLOCK
      BY <1>1, <3>5, OneBlockApart
    <3> QED BY <1>1, <1>10, <3>3, <3>6
  <2>3. PICK d \in Octets : d = <<0>> /\ Follows(d, m, k, 1)
    <3>1. <<0>> \in Octets
      BY DEF Octet, Octets
    <3>2. y + 1 \in 1 .. z /\ k + 1 = n + 1 + (y + 1)
      BY <1>8, <2>2
    <3>3. m[k + 1] = 0 /\ Len(m) = n + 1 + z + LENBYTES
      <4>1. PICK i \in 1 .. z : k + 1 = n + 1 + i
        BY <3>2
      <4>2. m[n + 1 + i] = 0 /\ Len(m) = n + 1 + z + LENBYTES
        BY <1>5, Zenon DEF PaddedForm
      <4> QED BY <4>1, <4>2
    <3>4. k + 1 <= Len(m)
      BY <1>1, <3>2, <3>3
    <3>5. Follows(<<0>>, m, k, 1)
      BY <3>3, <3>4 DEF Follows
    <3> QED BY <3>1, <3>5
  <2>4. Fed' = SubSeq(m, 1, k + 1)
    <3>1. 1 \in Nat
      BY Zenon
    <3> QED BY <1>6, <1>9, <2>1, <2>3, <3>1, BeginningGrows
  <2>5. Len(Fed') = k + 1
    <3>1. k + 1 \in Nat /\ k + 1 <= Len(m)
      BY <2>3 DEF Follows
    <3> QED BY <2>4, <3>1, Beginning
  <2>6. StreamFlow'
    <3>1. Len(Fed)' \in size' + 1 .. size' + 1 + ZeroCount(size)'
      BY <1>2, <1>4, <1>8, <2>2, <2>5, SMTT(30) DEF size, ZeroCount
    <3>2. Fed' = SubSeq(Padded(range)', 1, Len(Fed)')
      BY <1>2, <1>4, <2>4, <2>5, ZenonT(60) DEF Padded, Zeros, LenBytes
    <3>3. lenbuf' = LenBytes(size)'
      BY <1>2, <1>3, Zenon DEF LenBytes, size
    <3> QED BY <1>2, <1>3, <2>1, <3>1, <3>2, <3>3, Zenon DEF StreamFlow, size, StreamInv
  <2>7. StreamTypeOK'
    <3>1. data' \in Seq(0 .. 255)
      BY <2>1
    <3>2. len' \in Nat
      BY <2>1 DEF StreamTypeOK, StreamInv
    <3> QED BY <1>2, <2>1, <3>1, <3>2 DEF StreamTypeOK, size, StreamInv
  <2> QED BY <2>6, <2>7 DEF StreamInv
<1>11. CASE Len(buf) = BLOCK - LENBYTES
  <2>1. data' = lenbuf /\ phase' = "hex" /\ len' = len + Len(lenbuf)
    BY <1>11 DEF Pad, Update
  <2>2. y = z
    <3>1. n + 1 + y + LENBYTES = Len(hashed) + BLOCK
      BY <1>1, <1>7, <1>8, <1>11
    <3>2. (Len(hashed) + BLOCK) % BLOCK = 0
      BY <1>1, BlockMore
    <3>3. y \in 0 .. ZeroCount(n)
      BY <1>4
    <3>4. (n + 1 + y + LENBYTES) % BLOCK = 0
      BY <3>1, <3>2, Zenon
    <3> QED BY <1>4, <3>3, <3>4, ZeroLaw
  <2>3. PICK d \in Octets, e \in Nat : d = lenbuf /\ e = LENBYTES /\ Follows(d, m, k, e)
    <3>1. /\ LenBytes(n) \in Octets /\ Len(LenBytes(n)) = LENBYTES
      BY LenField
    <3>2. /\ \A i \in 1 .. LENBYTES : m[k + i] = LenBytes(n)[i]
          /\ Len(m) = k + LENBYTES
      BY <1>5, <1>8, <2>2, ZenonT(60) DEF PaddedForm
    <3>3. k + LENBYTES <= Len(m)
      BY <1>1, <3>2
    <3>4. Follows(LenBytes(n), m, k, LENBYTES)
      BY <3>1, <3>2, <3>3 DEF Follows
    <3> QED BY <1>1, <1>3, <1>4, <3>1, <3>4
  <2>4. Fed' = m
    <3>1. Fed' = SubSeq(m, 1, k + e)
      BY <1>6, <1>9, <2>1, <2>3, BeginningGrows
    <3>2. Len(m) = k + e
      BY <1>5, <1>8, <2>2, <2>3 DEF PaddedForm
    <3>3. SubSeq(m, 1, Len(m)) = m
      BY WholeSubSeq, Zenon DEF Octets
    <3> QED BY <3>1, <3>2, <3>3, Zenon
  <2>5. StreamFlow'
    <3>1. Fed' = Padded(range)'
      BY <1>2, <1>4, <2>4, Zenon DEF Padded, Zeros, LenBytes
    <3> QED BY <1>2, <1>3, <2>1, <3>1, Zenon DEF StreamFlow, size, StreamInv
  <2>6. StreamTypeOK'
    <3>1. data' \in Seq(0 .. 255)
      BY <2>1, <2>3 DEF Octets, Octet
    <3>2. len' \in Nat
      <4>1. Len(lenbuf) \in Nat /\ len \in Nat
        BY <2>3, Lengths DEF StreamTypeOK, StreamInv
      <4> QED BY <2>1, <4>1
    <3> QED BY <1>2, <2>1, <3>1, <3>2, Zenon DEF StreamTypeOK, size, StreamInv
  <2> QED BY <2>5, <2>6 DEF StreamInv
<1> QED BY <1>10, <1>11 DEF StreamInv

\* The digest is taken when the padded message has been compressed to its last block.
LEMMA HexStep == ASSUME StreamInv, Hex PROVE StreamInv'
<1>1. /\ range \in Octets /\ size \in Nat /\ hashed \in Octets /\ buf \in Octets
      /\ Len(hashed) \in Nat /\ Len(buf) \in Nat /\ BLOCK \in Nat \ {0}
      /\ Len(hashed) % BLOCK = 0 /\ Len(buf) < BLOCK /\ readable \in 0 .. size
  BY StreamTypes, Zenon DEF StreamTypeOK, StreamInv
<1>2. /\ phase = "hex" /\ data = <<>> /\ digest' = hashed /\ phase' = "end"
      /\ UNCHANGED <<range, readable, done, hashed, len, buf, data, lenbuf>>
  BY Zenon DEF Hex, ctx
<1>3. done = size /\ done <= readable /\ Fed = Padded(range)
  BY <1>2, Zenon DEF StreamFlow, StreamInv
<1>4. Fed = Cat(hashed, buf)
  BY <1>2, UpdateAppends, Zenon DEF StreamInv
<1>5. Len(Fed) = Len(hashed) + Len(buf)
  <2>1. Joined(Fed, hashed, buf, Len(hashed), Len(buf))
    BY <1>1, <1>4, Concat
  <2> QED BY <2>1, Zenon DEF Joined
<1>6. Len(Fed) % BLOCK = 0
  <2>1. PICK n \in Nat, z \in Nat : n = size /\ z = ZeroCount(n)
    BY <1>1, ZeroLaw, Zenon
  <2>2. PaddedForm(Fed, range, n, z)
    BY <1>1, <1>3, <2>1, PaddedParts DEF size
  <2> QED BY <2>2 DEF PaddedForm
<1>7. Len(buf) = 0
  <2>1. Len(buf) \in 0 .. BLOCK - 1 /\ (Len(hashed) + Len(buf)) % BLOCK = 0
    BY <1>1, <1>5, <1>6
  <2> QED BY <1>1, <2>1, NothingOver, Zenon
<1>8. hashed = Padded(range)
  BY <1>1, <1>3, <1>4, <1>7, Lengths, Neutral
<1>9. readable = size
  BY <1>1, <1>3
<1>10. StreamTypeOK'
  BY <1>2, Zenon DEF StreamTypeOK, size, StreamInv
<1>11. digest' = Padded(range)'
  BY <1>2, <1>8, Zenon DEF Padded, Zeros, LenBytes
<1>12. StreamFlow'
  BY <1>2, <1>9, <1>11 DEF StreamFlow, size, StreamInv
<1> QED BY <1>10, <1>12 DEF StreamInv

\* hash_proc_mem() starts afresh, whatever the last call left.
LEMMA CallStep == ASSUME StreamInv, Call PROVE StreamInv'
<1>1. /\ hashed' = <<>> /\ len' = 0 /\ buf' = <<>> /\ done' = 0 /\ data' = <<>>
      /\ phase' = "read" /\ digest' = Failed /\ lenbuf' = lenbuf
      /\ readable' \in 0 .. Len(range')
  BY DEF Call, ac_sha256_init
<1>2. range' \in Seq(Byte) /\ Len(range') \in Nat
  BY StreamAssumption DEF Call
<1>3. BLOCK \in Nat \ {0}
  BY StreamAssumption
<1>4. Len(hashed') % BLOCK = 0 /\ Len(buf') < BLOCK
  <2>1. (BLOCK * 0 + 0) % BLOCK = 0
    BY <1>3, RemainderIs
  <2> QED BY <1>1, <1>3, <2>1
<1>5. StreamTypeOK'
  BY <1>1, <1>2, <1>4, SMTT(30) DEF StreamTypeOK, size, StreamInv
<1>6. Fed' = SubSeq(range', 1, 0)
  <2>1. Fed' = Cat(Cat(<<>>, <<>>), <<>>)
    BY <1>1 DEF Fed, Cat
  <2>2. Fed' = <<>>
    <3>1. Cat(<<>>, <<>>) = <<>>
      <4>1. <<>> \in Octets
        BY DEF Octets
      <4> QED BY <4>1, Neutral
    <3> QED BY <2>1, <3>1, Zenon
  <2> QED BY <2>2, NoSubSeq
<1>7. StreamFlow'
  BY <1>1, <1>2, <1>6 DEF StreamFlow, StreamInv
<1> QED BY <1>5, <1>7 DEF StreamInv

\* The invariant holds before the first call.
LEMMA StreamStart == StreamInit => StreamInv
<1> SUFFICES ASSUME StreamInit PROVE StreamInv
  OBVIOUS
<1>1. BLOCK \in Nat \ {0}
  BY StreamAssumption
<1>2. (BLOCK * 0 + 0) % BLOCK = 0
  BY <1>1, RemainderIs
<1>3. lenbuf \in [1 .. LENBYTES -> 0 .. 255]
  <2>1. LenBytes(0) \in [1 .. LENBYTES -> Octet]
    BY LenField, Zenon
  <2> QED BY <2>1, SMTT(30) DEF StreamInit, Octet
<1>4. StreamTypeOK
  BY <1>1, <1>2, <1>3, SMTT(30) DEF StreamInit, StreamTypeOK, size
<1>5. StreamFlow
  BY DEF StreamInit, StreamFlow
<1> QED BY <1>4, <1>5 DEF StreamInv

\* It is inductive.
LEMMA StreamStep == StreamInv /\ [StreamNext]_streamVars => StreamInv'
<1> SUFFICES ASSUME StreamInv, [StreamNext]_streamVars PROVE StreamInv'
  OBVIOUS
<1>1. CASE UNCHANGED streamVars
  <2>1. UNCHANGED <<range, readable, done, hashed, len, buf, data, lenbuf, phase, digest>>
    BY <1>1, Zenon DEF streamVars, ctx
  <2>2. StreamTypeOK'
    BY <2>1 DEF StreamInv, StreamTypeOK, size
  <2>3. Fed' = Fed
    BY <2>1 DEF Fed
  <2>4. StreamFlow'
    BY <2>1, <2>3, Zenon DEF StreamInv, StreamFlow, size
  <2> QED BY <2>2, <2>4, Zenon DEF StreamInv
<1> QED BY <1>1, TakeStep, PreadStep, PreadFailsStep, FinalStep, PadStep, HexStep, CallStep
        DEF StreamNext

\* A digest that hash_proc_mem() returns is of the whole range and nothing else: for every
\* size of blocks, pieces, ranges and length fields, and every way pread() cuts the range.
THEOREM DigestAlways == StreamSpec => []DigestIsOfRange
<1>1. StreamInv => DigestIsOfRange
  BY DEF StreamInv, StreamFlow, DigestIsOfRange
<1> QED BY <1>1, StreamStart, StreamStep, PTL DEF StreamSpec
=============================================================================
