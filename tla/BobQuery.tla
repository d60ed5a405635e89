------------------------------ MODULE BobQuery ------------------------------
(***************************************************************************)
(* A contract query through Bob, across the three timers that meet in it:  *)
(* the adapter polls with one nonce until data, an error or its own        *)
(* deadline; each poll is an HTTP call without a timeout, whose answer     *)
(* must carry the id of the call; and the engine cuts the whole query      *)
(* after BACKEND_TIMEOUT, or aborts it when it resets its slots.           *)
(*                                                                         *)
(* Time is counted in poll intervals.  The nonce of a process starts from  *)
(* the clock, here in the same unit: the code takes microseconds and asks  *)
(* at most twice a second, so one query per unit is the worst case for it. *)
(* Bob itself is external: it keeps a job per nonce, begun when the first  *)
(* request that names it reaches him, and answers "pending" until the job  *)
(* is computed.  An answer says what is so when Bob forms it, which may be *)
(* long before it arrives.                                                 *)
(***************************************************************************)
EXTENDS Integers, BobEnvelope

CONSTANTS
    Deadline,    \* NETWORK_TIMEOUT in polls, 80 in the code
    Cut,         \* BACKEND_TIMEOUT in polls, 100 in the code
    WorkTimes,   \* how many polls Bob may need to compute an answer
    MaxClock,    \* bound: no query starts that could end after it
    MaxRestarts  \* bound: how often the process is restarted

BobParameters ==
    /\ Deadline \in Nat /\ Cut \in Nat /\ Deadline < Cut
    /\ WorkTimes \subseteq Nat /\ MaxClock \in Nat \ {0} /\ MaxRestarts \in Nat

VARIABLES
    clock,      \* the wall clock, which runs on while the process is down
    up,         \* the process runs
    restarts,
    nextNonce,  \* next_nonce
    query,      \* the running query, or NoQuery
    jobs,       \* Bob's jobs by nonce
    last        \* history: how the last finished query ended

bobVars == <<clock, up, restarts, nextNonce, query, jobs, last>>

Instants == 0 .. MaxClock
NoNonce == -1
NoQuery == [nonce |-> NoNonce, started |-> 0, calling |-> FALSE, since |-> 0]
NoJob == [asked |-> -1, work |-> 0]
NoEnd == [how |-> "none", nonce |-> NoNonce, started |-> 0, since |-> 0, computed |-> 0,
          ended |-> 0]

Running == query # NoQuery
Calling == Running /\ query.calling

(* Seeded bug: every process counts its queries from one. *)
InitialNonceOne(now) == 1

InitialNonce(now) == IF now = 0 THEN 1 ELSE now

BobInit ==
    /\ clock = 1 /\ up = TRUE /\ restarts = 0
    /\ nextNonce = InitialNonce(1)
    /\ query = NoQuery
    /\ jobs = [n \in Instants |-> NoJob]
    /\ last = NoEnd

ComputedAt(n) == jobs[n].asked + jobs[n].work

-----------------------------------------------------------------------------
(* The adapter *)

(* The next query of this unit at the earliest: STATUS_QUERY_INTERVAL. *)
StartQuery ==
    /\ up /\ ~Running /\ clock + Cut < MaxClock /\ nextNonce <= clock
    /\ query' = [nonce |-> nextNonce, started |-> clock, calling |-> TRUE, since |-> clock]
    /\ nextNonce' = nextNonce + 1
    /\ last' = NoEnd
    /\ UNCHANGED <<clock, up, restarts, jobs>>

(* The first request of the query reaches Bob; a later one joins the job.  *)
(* One that comes when its query has ended is about a nonce no query uses. *)
BobTakes ==
    /\ Calling /\ jobs[query.nonce] = NoJob
    /\ \E work \in WorkTimes :
          jobs' = [jobs EXCEPT ![query.nonce] = [asked |-> clock, work |-> work]]
    /\ UNCHANGED <<clock, up, restarts, nextNonce, query, last>>

Finish(how, computed) ==
    /\ query' = NoQuery
    /\ last' = [how |-> how, nonce |-> query.nonce, started |-> query.started,
                since |-> query.since, computed |-> computed, ended |-> clock]

(* Seeded bug: the deadline is that of one poll. *)
DeadlinePerPoll(now) == now >= query.since + Deadline

DeadlinePassed(now) == now >= query.started + Deadline

(* Seeded bug: the deadline is checked before the answer is looked at. *)
ConsiderTooLate(n, formed) ==
    CASE DeadlinePassed(clock) -> Finish("timeout", 0)
      [] ~DeadlinePassed(clock) /\ formed >= ComputedAt(n) -> Finish("data", ComputedAt(n))
      [] OTHER -> /\ query' = [query EXCEPT !.calling = FALSE, !.since = clock + 1]
                  /\ UNCHANGED last

(* What extract_result and the loop make of an answer formed then, about   *)
(* job n: what it says, and only then the deadline by the clock of now.    *)
Consider(n, formed) ==
    CASE formed >= ComputedAt(n) -> Finish("data", ComputedAt(n)) \/ Finish("error", 0)
      [] formed < ComputedAt(n) /\ DeadlinePassed(clock) -> Finish("timeout", 0)
      [] OTHER -> /\ query' = [query EXCEPT !.calling = FALSE, !.since = clock + 1]
                  /\ UNCHANGED last

(* The answer to a call is formed after the call, and anything up to now   *)
(* before it comes.                                                        *)
FormedTimes(n) ==
    {t \in 0 .. clock : t >= jobs[n].asked /\ (n = query.nonce => t >= query.since)}

(* The answer comes; a proxy may hand over that to another call of this    *)
(* process.                                                                *)
Answer ==
    /\ Calling
    /\ \E n \in Instants :
          /\ jobs[n] # NoJob
          /\ \E r \in (IF n = query.nonce THEN Answers \cup Failures ELSE Strays),
                 formed \in FormedTimes(n) :
                IF MatchesCall(r) /\ HasResult(r)
                THEN Consider(n, formed) ELSE Finish("error", 0)
    /\ UNCHANGED <<clock, up, restarts, nextNonce, jobs>>

(* The call fails: no connection, no success status, no JSON. *)
CallFails ==
    /\ Calling /\ Finish("error", 0)
    /\ UNCHANGED <<clock, up, restarts, nextNonce, jobs>>

(* The same request once more, with the nonce of the query. *)
WakesUp ==
    /\ Running /\ ~query.calling /\ clock >= query.since
    /\ query' = [query EXCEPT !.calling = TRUE, !.since = clock]
    /\ UNCHANGED <<clock, up, restarts, nextNonce, jobs, last>>

-----------------------------------------------------------------------------
(* The engine and the world *)

CutDue == Running /\ clock >= query.started + Cut

(* The timeout around the task; the HTTP call is dropped with it. *)
CutQuery ==
    /\ CutDue /\ Finish("cut", 0)
    /\ UNCHANGED <<clock, up, restarts, nextNonce, jobs>>

(* reset_slots, or dropping the engine, aborts the task. *)
AbortQuery ==
    /\ Running /\ query' = NoQuery
    /\ UNCHANGED <<clock, up, restarts, nextNonce, jobs, last>>

Kill ==
    /\ up /\ restarts < MaxRestarts
    /\ up' = FALSE /\ query' = NoQuery /\ restarts' = restarts + 1
    /\ UNCHANGED <<clock, nextNonce, jobs, last>>

(* A start takes longer than a unit. *)
Restart ==
    /\ ~up /\ clock + 1 < MaxClock
    /\ up' = TRUE /\ clock' = clock + 1 /\ nextNonce' = InitialNonce(clock + 1)
    /\ UNCHANGED <<restarts, query, jobs, last>>

(* Time does not pass a sleeper's wake-up or the engine's timer. *)
Advance ==
    /\ clock < MaxClock
    /\ Running => \/ query.calling /\ ~CutDue
                  \/ ~query.calling /\ clock < query.since
    /\ clock' = clock + 1
    /\ UNCHANGED <<up, restarts, nextNonce, query, jobs, last>>

BobNext ==
    \/ StartQuery \/ BobTakes \/ Answer \/ CallFails \/ WakesUp
    \/ CutQuery \/ AbortQuery \/ Kill \/ Restart \/ Advance

BobSpec == BobInit /\ [][BobNext]_bobVars

-----------------------------------------------------------------------------
(* Properties *)

(* The data a query returns were computed for it: never what Bob computed  *)
(* before the query began, whatever was asked, aborted, handed to the      *)
(* wrong call or left behind by an earlier process.                        *)
DataIsFresh == last.how = "data" => last.computed >= last.started

(* The adapter gives up first: the engine cuts a query only when its last  *)
(* HTTP call has hung for the whole difference of the two timeouts.        *)
CutBlamesTheCall ==
    last.how = "cut" => last.since <= last.started + Deadline

(* A query never times out before its deadline, and never on an answer Bob *)
(* had ready: when its last call began he was still computing.  So a query *)
(* whose last call took no time at all times out only when Bob, from the   *)
(* start of the query, needs the whole deadline.                           *)
TimeoutBlamesBobOrTheCall ==
    last.how = "timeout" =>
        /\ last.ended >= last.started + Deadline
        /\ ComputedAt(last.nonce) > last.since

=============================================================================
