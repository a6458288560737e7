------------------------------ MODULE BanServer ------------------------------
(***************************************************************************)
(* src/server/ac_server.py: the request handlers, the SQLite store, the     *)
(* connection watchdog and the shutdown on SIGTERM.  Every accepted         *)
(* connection has a thread and carries one request; threads meet in the     *)
(* store, where one transaction writes at a time and a second one waits     *)
(* for the busy timeout and then fails.  The process may be killed and      *)
(* started again; what was committed survives.                              *)
(*                                                                          *)
(* The store of one client id is modelled, since no statement touches two.  *)
(* Whether the rate limiter turns a request down is left open (RateLimiter  *)
(* models it).                                                              *)
(***************************************************************************)
EXTENDS Integers, FiniteSets

CONSTANTS
    Request,     \* requests of a behaviour
    RequestKind, \* what they may be: [op, key, valid]
    None,
    MaxCrash     \* bound on how often the process is killed

Writes == {"report", "ban", "unban"}
Reads == {"banned", "reports"}

ASSUME ServerAssumption ==
    /\ RequestKind \subseteq [op : Writes \cup Reads \cup {"other"},
                              key : {"report", "admin", "none"}, valid : BOOLEAN]
    /\ None \notin Request /\ MaxCrash \in Nat

VARIABLES
    server,      \* the process: "up", "stopping", "closing" or "down"
    kind,        \* request -> its kind
    at,          \* request -> where its handler is
    open,        \* requests whose connection still works
    code,        \* request -> status the handler decided on
    got,         \* request -> what it read or found in the bans table
    reply,       \* request -> status the client received
    writer,      \* the request whose transaction holds the write lock
    reports,     \* committed: the requests that are rows
    ban,         \* committed: the request that banned the client, "earlier" for a
                 \* ban that the database file came with, or None
    crashes,
    changed,     \* history: requests whose transaction was committed
    possible     \* history: request -> values of ban since it was accepted

store == <<writer, reports, ban, changed, possible>>
vars == <<server, kind, at, open, code, got, reply, store, crashes>>

Tier(op) == IF op = "report" THEN "report" ELSE "admin"
InFlight(r) == at[r] \in {"head", "body", "db", "txn", "reply"}

-----------------------------------------------------------------------------
Accept(r) ==
    /\ server \in {"up", "stopping"}
    /\ at[r] = "new"
    /\ at' = [at EXCEPT ![r] = "head"]
    /\ open' = open \cup {r}
    /\ possible' = [possible EXCEPT ![r] = {ban}]
    /\ UNCHANGED <<server, kind, code, got, reply, writer, reports, ban, changed, crashes>>

\* _send_json(c, ...): the response goes out in Send.
Answer(r, c) ==
    /\ at' = [at EXCEPT ![r] = "reply"]
    /\ code' = [code EXCEPT ![r] = c]

Advance(r, l) ==
    /\ at' = [at EXCEPT ![r] = l]
    /\ UNCHANGED code

\* _authed() with the keys _requires_auth() names for the handler
Authed(r) == kind[r].key = Tier(kind[r].op)

\* The head of the request has arrived: _do_POST(), _do_GET() up to the body.
Dispatch(r) ==
    /\ at[r] = "head"
    /\ \/ Answer(r, 429)
       \/ kind[r].op = "other" /\ Answer(r, 404)
       \/ kind[r].op # "other" /\ ~Authed(r) /\ Answer(r, 401)
       \/ kind[r].op \in Writes /\ Authed(r) /\ Advance(r, "body")
       \/ kind[r].op \in Reads /\ Authed(r) /\ kind[r].valid /\ Advance(r, "db")
       \/ kind[r].op \in Reads /\ Authed(r) /\ ~kind[r].valid /\ Answer(r, 400)
    /\ UNCHANGED <<server, kind, open, got, reply, store, crashes>>

\* The head does not arrive: a read timed out or the connection is gone.
HeadFails(r) ==
    /\ at[r] = "head"
    /\ Advance(r, "done")
    /\ open' = open \ {r}
    /\ UNCHANGED <<server, kind, got, reply, store, crashes>>

\* _require_body_client_id() and the checks of the fields.  A read that times out
\* raises; a connection that was shut down yields what had arrived, or an error.
Body(r) ==
    /\ at[r] = "body"
    /\ \/ kind[r].valid /\ Advance(r, "db")
       \/ (r \notin open \/ ~kind[r].valid) /\ Answer(r, 400)
       \/ r \in open /\ Answer(r, 500)
       \/ r \notin open /\ Advance(r, "done")
    /\ UNCHANGED <<server, kind, open, got, reply, store, crashes>>

ReadUncommitted(r) ==   \* variant: one connection for all threads
    /\ at[r] = "db" /\ kind[r].op \in Reads
    /\ got' = [got EXCEPT ![r] =
                IF writer # None /\ kind[writer].op = "ban" THEN writer ELSE ban]
    /\ Answer(r, 200)
    /\ UNCHANGED <<server, kind, open, reply, store, crashes>>

\* Store.ban_status(), Store.list_reports(): a reader waits for nobody.
Read(r) ==
    /\ at[r] = "db" /\ kind[r].op \in Reads
    /\ got' = [got EXCEPT ![r] = ban]
    /\ Answer(r, 200)
    /\ UNCHANGED <<server, kind, open, reply, store, crashes>>

\* The first statement of add_report(), ban(), unban() takes the write lock.
BeginTxn(r) ==
    /\ at[r] = "db" /\ kind[r].op \in Writes
    /\ writer = None
    /\ writer' = r
    /\ got' = [got EXCEPT ![r] = ban]
    /\ Advance(r, "txn")
    /\ UNCHANGED <<server, kind, open, reply, reports, ban, changed, possible, crashes>>

\* The statement raises: the database is locked by another transaction until the
\* busy timeout, or SQLite reports some other error.
StatementFails(r) ==
    /\ at[r] = "db"
    /\ Answer(r, 500)
    /\ UNCHANGED <<server, kind, open, got, reply, store, crashes>>

\* conn.commit() and the status the handler answers with
CommitEffect(r) ==
    /\ reports' = IF kind[r].op = "report" THEN reports \cup {r} ELSE reports
    /\ ban' = CASE kind[r].op = "ban" -> r
                [] kind[r].op = "unban" -> None
                [] OTHER -> ban
    /\ changed' = changed \cup {r}
    /\ possible' = [q \in Request |-> IF InFlight(q) THEN possible[q] \cup {ban'} ELSE possible[q]]

AnswerFirst(r) ==   \* variant: the answer does not wait for the commit
    /\ at[r] = "txn"
    /\ writer' = None
    /\ Answer(r, IF kind[r].op = "report" THEN 201 ELSE 200)
    /\ \/ CommitEffect(r)
       \/ UNCHANGED <<reports, ban, changed, possible>>
    /\ UNCHANGED <<server, kind, open, got, reply, crashes>>

Commit(r) ==
    /\ at[r] = "txn"
    /\ CommitEffect(r)
    /\ writer' = None
    /\ Answer(r, IF kind[r].op = "report" THEN 201 ELSE 200)
    /\ UNCHANGED <<server, kind, open, got, reply, crashes>>

CommitFails(r) ==   \* an error of the disk; the transaction is rolled back
    /\ at[r] = "txn"
    /\ writer' = None
    /\ Answer(r, 500)
    /\ UNCHANGED <<server, kind, open, got, reply, reports, ban, changed, possible, crashes>>

SendAgain(r) ==   \* variant: a response that fails is followed by a 500
    /\ at[r] = "reply" /\ r \in open
    /\ \E c \in {code[r], 500} : reply' = [reply EXCEPT ![r] = c]
    /\ Advance(r, "done")
    /\ UNCHANGED <<server, kind, open, got, store, crashes>>

\* The response.  When the client is gone the write fails, and _dispatch() ends the
\* request without a second response.
Send(r) ==
    /\ at[r] = "reply"
    /\ \/ r \in open /\ reply' = [reply EXCEPT ![r] = code[r]]
       \/ r \notin open /\ UNCHANGED reply
    /\ Advance(r, "done")
    /\ UNCHANGED <<server, kind, open, got, store, crashes>>

\* _deadline_exceeded() shuts the socket down; so does a client that hangs up.
WatchdogNever(r) ==   \* variant: no watchdog, and the client stays
    /\ FALSE
    /\ UNCHANGED vars

Watchdog(r) ==
    /\ InFlight(r) /\ r \in open
    /\ open' = open \ {r}
    /\ UNCHANGED <<server, kind, at, code, got, reply, store, crashes>>

-----------------------------------------------------------------------------
\* _handle_sigterm(): shutdown() is called on another thread.
Sigterm ==
    /\ server = "up"
    /\ server' = "stopping"
    /\ UNCHANGED <<kind, at, open, code, got, reply, store, crashes>>

\* serve_forever() returns; no connection is accepted from now on.
StopServing ==
    /\ server = "stopping"
    /\ server' = "closing"
    /\ UNCHANGED <<kind, at, open, code, got, reply, store, crashes>>

CloseNow ==   \* variant: server_close() does not join the handler threads
    /\ server = "closing"
    /\ server' = "down"
    /\ UNCHANGED <<kind, at, open, code, got, reply, store, crashes>>

\* server_close() joins every handler thread, and the process ends.
Close ==
    /\ server = "closing"
    /\ \A r \in Request : ~InFlight(r)
    /\ server' = "down"
    /\ UNCHANGED <<kind, at, open, code, got, reply, store, crashes>>

\* The process is killed: its threads and its uncommitted transaction are gone.
Crash ==
    /\ server # "down" /\ crashes < MaxCrash
    /\ crashes' = crashes + 1
    /\ server' = "down"
    /\ at' = [r \in Request |-> IF InFlight(r) THEN "killed" ELSE at[r]]
    /\ open' = {}
    /\ writer' = None
    /\ UNCHANGED <<kind, code, got, reply, reports, ban, changed, possible>>

Start ==
    /\ server = "down"
    /\ server' = "up"
    /\ UNCHANGED <<kind, at, open, code, got, reply, store, crashes>>

Init ==
    /\ server = "up"
    /\ kind \in [Request -> RequestKind]
    /\ at = [r \in Request |-> "new"]
    /\ open = {}
    /\ code = [r \in Request |-> 0] /\ reply = [r \in Request |-> 0]
    /\ got = [r \in Request |-> None]
    /\ writer = None /\ reports = {} /\ ban \in {None, "earlier"}
    /\ crashes = 0 /\ changed = {}
    /\ possible = [r \in Request |-> {}]

\* A step of a thread of the process
Runs(A) == server # "down" /\ A

Handle(r) ==
    \/ Dispatch(r) \/ HeadFails(r) \/ Body(r) \/ Read(r) \/ BeginTxn(r) \/ StatementFails(r)
    \/ Commit(r) \/ CommitFails(r) \/ Send(r)

Next ==
    \/ \E r \in Request : Accept(r) \/ Runs(Handle(r)) \/ Runs(Watchdog(r))
    \/ Sigterm \/ StopServing \/ Close \/ Crash \/ Start

Spec == Init /\ [][Next]_vars

\* The threads of the process run.  A client may be silent for ever: what ends
\* the wait for its bytes is the watchdog, not the client.
Fairness ==
    /\ WF_vars(StopServing) /\ WF_vars(Close)
    /\ \A r \in Request :
         /\ WF_vars(Runs(Watchdog(r)))
         /\ WF_vars(Runs(r \notin open /\ (HeadFails(r) \/ Body(r))))
         /\ WF_vars(Runs(Read(r) \/ BeginTxn(r) \/ StatementFails(r)))
         /\ WF_vars(Runs(Commit(r) \/ CommitFails(r)))
         /\ WF_vars(Runs(Send(r)))

FairSpec == Spec /\ Fairness

-----------------------------------------------------------------------------
Banned == Request \cup {None, "earlier"}
Status == {0, 200, 201, 400, 401, 404, 429, 500}

\* Every variable keeps its type, and the write lock belongs to a transaction.
TypeOK ==
    /\ server \in {"up", "stopping", "closing", "down"}
    /\ kind \in [Request -> RequestKind]
    /\ at \in [Request -> {"new", "head", "body", "db", "txn", "reply", "done", "killed"}]
    /\ open \subseteq Request
    /\ code \in [Request -> Status] /\ reply \in [Request -> Status]
    /\ got \in [Request -> Banned]
    /\ writer # None => at[writer] = "txn"
    /\ reports \subseteq Request /\ ban \in Banned
    /\ crashes \in 0 .. MaxCrash /\ changed \subseteq Request
    /\ possible \in [Request -> SUBSET Banned]

\* "every successful report lands durably in the DB": a client that received 201
\* finds its report there, and one that received 200 for a ban or an unban has
\* it done, through crashes, restarts and shutdowns.  A request that was turned
\* down (bad key, bad body, rate limit, busy store or any other error) has left
\* no trace in the store.  Every variable has its type.
AnswerMatchesStore ==
    /\ TypeOK
    /\ \A r \in Request :
         /\ reply[r] = 201 => r \in reports
         /\ reply[r] = 200 /\ kind[r].op \in Writes => r \in changed
         /\ reply[r] \in {400, 401, 404, 429, 500} => r \notin changed

\* GET /banned and the was_banned of POST /unban are linearizable: the answer is
\* the state of the bans table at some moment while the request was handled.
StatusWasTrue ==
    \A r \in Request : reply[r] = 200 => got[r] \in possible[r]

\* "Drain in-flight requests on shutdown instead of abandoning them": whenever the
\* shutdown comes, an accepted request gets its response unless its connection ends.
AcceptedIsAnswered ==
    \A r \in Request : at[r] = "head" ~> (reply[r] # 0 \/ r \notin open)

\* A shutdown ends though clients keep connections open without completing a
\* request: the watchdog frees each thread that server_close() joins.
ShutdownEnds == server = "stopping" ~> server = "down"
=============================================================================
