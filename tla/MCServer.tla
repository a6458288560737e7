------------------------------ MODULE MCServer ------------------------------
(***************************************************************************)
(* The server and its rate limiter, which share no state, on small sets: a *)
(* behaviour is one of one of them.  The server gets requests of the kinds *)
(* that matter to each other and one of each kind that is turned down; the *)
(* limiter one client under test and another whose requests prune.         *)
(***************************************************************************)
EXTENDS BanServer, RateLimiter, Sequences

CONSTANTS tested, other

VARIABLE part    \* the part the behaviour is of

Kinds == <<[op |-> "report", key |-> "report", valid |-> TRUE],
           [op |-> "ban", key |-> "admin", valid |-> TRUE],
           [op |-> "unban", key |-> "admin", valid |-> TRUE],
           [op |-> "banned", key |-> "admin", valid |-> TRUE],
           [op |-> "ban", key |-> "report", valid |-> TRUE],
           [op |-> "ban", key |-> "admin", valid |-> FALSE],
           [op |-> "reports", key |-> "admin", valid |-> FALSE],
           [op |-> "other", key |-> "none", valid |-> TRUE]>>

AllKinds == {Kinds[i] : i \in DOMAIN Kinds}

\* Requests are interchangeable: one of them has the kind that comes first.
First == CHOOSE r \in Request : TRUE
Mixes == {[r \in Request |-> Kinds[f[r]]] :
            f \in {g \in [Request -> DOMAIN Kinds] : \A r \in Request : g[First] <= g[r]}}

Clients == {tested, other}
Requests == [k \in Clients |-> IF k = tested THEN 5 ELSE 1]

ServerInit ==
    /\ part \in {"server", "limiter"}
    /\ kind \in IF part = "server" THEN Mixes ELSE {[r \in Request |-> Kinds[1]]}
    /\ ban \in IF part = "server" THEN {None, "earlier"} ELSE {None}
    /\ Init /\ LimiterInit

ServerNext ==
    /\ UNCHANGED part
    /\ \/ part = "server" /\ Next /\ UNCHANGED limiterVars
       \/ part = "limiter" /\ LimiterNext /\ UNCHANGED vars

ServerSpec == ServerInit /\ [][ServerNext]_<<vars, limiterVars, part>> /\ Fairness
=============================================================================
