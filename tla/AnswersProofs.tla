--------------------------- MODULE AnswersProofs ----------------------------
(***************************************************************************)
(* What is concluded of a node's answers, proved for every limit, deadline *)
(* and chain, any number of queries, ticks, slots and responses: one       *)
(* inductive invariant per machine, and their conjunction for the whole.   *)
(* Only one machine moves in a behaviour, so a step of one leaves the      *)
(* invariants of the others as they are.                                   *)
(***************************************************************************)
EXTENDS MCAnswers, SequenceTheorems, FiniteSetTheorems, TLAPS

-----------------------------------------------------------------------------
(* The body of an answer *)

Refusals == {"failed", "too_big", "broken", "not_json"}

BodyTypeOK ==
    /\ outcome \in Refusals \cup {"sent", "reading", "ok"}
    /\ success \in BOOLEAN /\ ended \in BOOLEAN
    /\ declared \in {Undeclared} \cup 0 .. MaxBody
    /\ sent \in Nat /\ offered \in Nat /\ body \in Nat

(* What was sent is in the buffer or on offer, until a chunk is refused.   *)
NothingDropped == outcome # "too_big" => sent = body + offered

BodyInv ==
    /\ BodyTypeOK /\ NothingDropped
    /\ outcome = "reading" => success
    /\ BufferBounded /\ AcceptsOnlyWhole /\ RefusesOnlyTooBig

(* A request begins with an empty buffer. *)
LEMMA BodyInitInv == BodyInit => BodyInv
<1>. SUFFICES ASSUME BodyInit PROVE BodyInv
    OBVIOUS
<1>1. BodyTypeOK  BY DEF BodyInit, BodyTypeOK
<1>2. NothingDropped  BY DEF BodyInit, NothingDropped
<1>3. BufferBounded  BY BodyAssumption DEF BodyInit, BufferBounded
<1>4. outcome \notin {"reading", "ok", "too_big"}  BY DEF BodyInit
<1>. QED  BY <1>1, <1>2, <1>3, <1>4 DEF BodyInv, AcceptsOnlyWhole, RefusesOnlyTooBig

(* A chunk that is taken leaves the buffer within the limit; one that is   *)
(* not shows that more than the limit was sent.                            *)
LEMMA ChunkTaken == BodyInv /\ TakeChunk => BodyInv'
<1>. SUFFICES ASSUME BodyInv, TakeChunk PROVE BodyInv'
    OBVIOUS
<1>. USE BodyAssumption DEF BodyInv, BodyTypeOK, NothingDropped, BufferBounded,
                            AcceptsOnlyWhole, RefusesOnlyTooBig, Refusals, TakeChunk
<1>1. CASE Overflows(offered)
    <2>1. offered > Limit - body  BY <1>1 DEF Overflows
    <2>. QED  BY <1>1, <2>1
<1>2. CASE ~Overflows(offered)
    <2>1. body + offered <= Limit  BY <1>2 DEF Overflows
    <2>. QED  BY <1>2, <2>1
<1>. QED  BY <1>1, <1>2

(* Every step of a request keeps the invariant of its body. *)
LEMMA BodyNextInv == BodyInv /\ [BodyNext]_bodyVars => BodyInv'
<1>. SUFFICES ASSUME BodyInv, [BodyNext]_bodyVars PROVE BodyInv'
    OBVIOUS
<1>. USE BodyAssumption DEF BodyInv, BodyTypeOK, NothingDropped, BufferBounded,
                            AcceptsOnlyWhole, RefusesOnlyTooBig, Refusals, Undeclared
<1>1. CASE RequestFails  BY <1>1 DEF RequestFails
<1>2. ASSUME NEW ok \in BOOLEAN, NEW length \in {Undeclared} \cup 0 .. MaxBody,
             AnswerBegins(ok, length)
      PROVE  BodyInv'
    BY <1>2 DEF AnswerBegins, DeclaredTooBig
<1>3. ASSUME NEW chunk \in 1 .. MaxBody, NEW final \in BOOLEAN, ChunkArrives(chunk, final)
      PROVE  BodyInv'
    BY <1>3 DEF ChunkArrives
<1>4. CASE TakeChunk  BY <1>4, ChunkTaken
<1>5. CASE ReadBreaks  BY <1>5 DEF ReadBreaks
<1>6. ASSUME NEW valid \in BOOLEAN, Parse(valid) PROVE BodyInv'
    BY <1>6 DEF Parse, BodyRead
<1>7. CASE UNCHANGED bodyVars  BY <1>7 DEF bodyVars
<1>. QED  BY <1>1, <1>2, <1>3, <1>4, <1>5, <1>6, <1>7 DEF BodyNext

-----------------------------------------------------------------------------
(* A query through Bob *)

Ends == {"none", "data", "error", "timeout", "cut"}

BobTypeOK ==
    /\ clock \in 0 .. MaxClock /\ up \in BOOLEAN /\ nextNonce \in Nat
    /\ query \in [nonce : Int, started : Nat, calling : BOOLEAN, since : Nat]
    /\ jobs \in [0 .. MaxClock -> [asked : Int, work : Nat]]
    /\ last \in [how : Ends, nonce : Int, started : Nat, since : Nat, computed : Int,
              ended : Nat]

(* A nonce that a process has yet to use has no job: those of the earlier  *)
(* processes are behind the clock, which is where its own count starts.    *)
NoncesAreNew ==
    \A n \in 0 .. MaxClock : jobs[n] # Bob!NoJob => n <= clock /\ (up => n < nextNonce)

(* The nonce of the running query is used up, and its job, if Bob has it   *)
(* yet, is its own: asked for since the query began.  No poll sleeps past  *)
(* the deadline.                                                           *)
QueryHasItsJob ==
    Bob!Running =>
        /\ up
        /\ query.nonce \in 0 .. MaxClock /\ query.nonce <= clock /\ query.nonce < nextNonce
        /\ query.started <= clock
        /\ jobs[query.nonce] # Bob!NoJob => jobs[query.nonce].asked >= query.started
        /\ query.since <= query.started + Deadline
        /\ ~query.calling => clock <= query.since

(* What the end of the last query says is still so. *)
LastIsTrue ==
    /\ last.how = "data" => last.computed >= last.started
    /\ last.how = "cut" => last.since <= last.started + Deadline
    /\ last.how = "timeout" =>
          /\ last.nonce \in 0 .. MaxClock /\ jobs[last.nonce] # Bob!NoJob
          /\ last.ended >= last.started + Deadline
          /\ Bob!ComputedAt(last.nonce) > last.since

BobInv == BobTypeOK /\ NoncesAreNew /\ QueryHasItsJob /\ LastIsTrue

(* The answers to other calls never get past the check of the call. *)
LEMMA StraysAreRefused ==
    \A r \in Bob!Strays : ~Bob!MatchesCall(r)
BY DEF Bob!Strays, Bob!JsonRpc, Bob!Legacy, Bob!MatchesCall, Bob!Envelope

(* Before the first query there are no jobs, and the first nonce is new. *)
LEMMA BobInitInv == Bob!BobInit => BobInv
BY AnswersAssumption DEF Bob!BobParameters, Bob!BobInit, BobInv, BobTypeOK, NoncesAreNew,
    QueryHasItsJob, LastIsTrue, Ends, Bob!Running, Bob!NoQuery, Bob!NoEnd, Bob!NoJob,
    Bob!NoNonce, Bob!Instants, Bob!InitialNonce

(* A query takes a nonce that no job has. *)
LEMMA StartQueryInv == BobInv /\ Bob!StartQuery => BobInv'
<1>. SUFFICES ASSUME BobInv, Bob!StartQuery PROVE BobInv'
    OBVIOUS
<1>. USE AnswersAssumption DEF Bob!BobParameters, BobInv
<1>1. /\ up /\ UNCHANGED <<up, clock, jobs>> /\ nextNonce <= clock /\ nextNonce' = nextNonce + 1
      /\ query' = [nonce |-> nextNonce, started |-> clock, calling |-> TRUE, since |-> clock]
      /\ last' = Bob!NoEnd
    BY DEF Bob!StartQuery
<1>2. nextNonce \in 0 .. MaxClock /\ clock \in Nat  BY <1>1 DEF BobTypeOK
<1>3. jobs[nextNonce] = Bob!NoJob  BY <1>1, <1>2 DEF NoncesAreNew
<1>4. BobTypeOK'
    <2>1. last' \in [how : Ends, nonce : Int, started : Nat, since : Nat, computed : Int,
                     ended : Nat]
        BY <1>1 DEF Bob!NoEnd, Bob!NoNonce, Ends
    <2>2. query' \in [nonce : Int, started : Nat, calling : BOOLEAN, since : Nat]
        BY <1>1, <1>2
    <2>3. clock' \in 0 .. MaxClock /\ nextNonce' \in Nat  BY <1>1, <1>2 DEF BobTypeOK
    <2>4. up' \in BOOLEAN /\ jobs' \in [0 .. MaxClock -> [asked : Int, work : Nat]]
        BY <1>1 DEF BobTypeOK
    <2>. QED  BY <2>1, <2>2, <2>3, <2>4 DEF BobTypeOK
<1>5. NoncesAreNew'  BY <1>1, <1>2 DEF NoncesAreNew
<1>6. QueryHasItsJob'
    <2>1. /\ query'.nonce = nextNonce /\ query'.started = clock /\ query'.since = clock
          /\ query'.calling /\ jobs'[nextNonce] = Bob!NoJob
        BY <1>1, <1>3
    <2>. QED  BY <1>1, <1>2, <2>1 DEF QueryHasItsJob
<1>7. LastIsTrue'  BY <1>1 DEF LastIsTrue, Bob!NoEnd
<1>. QED  BY <1>4, <1>5, <1>6, <1>7

(* Bob leaves every job he has alone; the one he adds is asked for now. *)
LEMMA BobTakesInv == BobInv /\ Bob!BobTakes => BobInv'
<1>. SUFFICES ASSUME BobInv, Bob!BobTakes PROVE BobInv'
    OBVIOUS
<1>. USE AnswersAssumption DEF Bob!BobParameters, BobInv
<1>1. /\ Bob!Running /\ jobs[query.nonce] = Bob!NoJob
      /\ UNCHANGED <<clock, up, nextNonce, query, last>>
    BY DEF Bob!BobTakes, Bob!Calling
<1>2. PICK work \in WorkTimes :
          jobs' = [jobs EXCEPT ![query.nonce] = [asked |-> clock, work |-> work]]
    BY DEF Bob!BobTakes
<1>3. /\ query.nonce \in 0 .. MaxClock /\ clock \in Nat /\ work \in Nat
      /\ query.nonce <= clock /\ query.nonce < nextNonce /\ query.started <= clock
    BY <1>1, <1>2 DEF QueryHasItsJob, BobTypeOK
<1>4. \A n \in 0 .. MaxClock : jobs[n] # Bob!NoJob => jobs'[n] = jobs[n]
    BY <1>1, <1>2, <1>3 DEF BobTypeOK
<1>5. jobs'[query.nonce].asked = clock  BY <1>2, <1>3 DEF BobTypeOK
<1>6. BobTypeOK'  BY <1>1, <1>2, <1>3 DEF BobTypeOK
<1>7. NoncesAreNew'
    <2>1. \A n \in (0 .. MaxClock) \ {query.nonce} : jobs'[n] = jobs[n]
        BY <1>2, <1>3 DEF BobTypeOK
    <2>. QED  BY <1>1, <1>3, <2>1 DEF NoncesAreNew
<1>8. QueryHasItsJob'  BY <1>1, <1>3, <1>5 DEF QueryHasItsJob, Bob!Running
<1>9. LastIsTrue'  BY <1>1, <1>4 DEF LastIsTrue, Bob!ComputedAt
<1>. QED  BY <1>6, <1>7, <1>8, <1>9

(* However a query ends, what its end says was so while it ran. *)
LEMMA FinishInv ==
    ASSUME BobInv, NEW how \in Ends, NEW computed \in Int, Bob!Finish(how, computed),
           UNCHANGED <<clock, up, nextNonce, jobs>>,
           how = "data" => computed >= query.started,
           how = "cut" => query.since <= query.started + Deadline,
           how = "timeout" => /\ query.nonce \in 0 .. MaxClock /\ jobs[query.nonce] # Bob!NoJob
                              /\ clock >= query.started + Deadline
                              /\ Bob!ComputedAt(query.nonce) > query.since
    PROVE  BobInv'
<1>1. query' = Bob!NoQuery /\ last' = [how |-> how, nonce |-> query.nonce, started |-> query.started,
                                       since |-> query.since, computed |-> computed,
                                       ended |-> clock]
    BY DEF Bob!Finish
<1>2. BobTypeOK'  BY <1>1 DEF BobInv, BobTypeOK, Bob!NoQuery, Bob!NoNonce
<1>3. NoncesAreNew'  BY DEF BobInv, NoncesAreNew
<1>4. QueryHasItsJob'  BY <1>1 DEF QueryHasItsJob, Bob!Running
<1>5. LastIsTrue'  BY <1>1 DEF LastIsTrue, Bob!ComputedAt
<1>. QED  BY <1>2, <1>3, <1>4, <1>5 DEF BobInv

(* An answer to the query's own call, whenever it was formed: data that    *)
(* were computed for it, an error, the adapter's deadline, or one more     *)
(* poll before it.                                                         *)
LEMMA ConsiderInv ==
    ASSUME BobInv, Bob!Running, jobs[query.nonce] # Bob!NoJob,
           NEW formed \in Bob!FormedTimes(query.nonce), Bob!Consider(query.nonce, formed),
           UNCHANGED <<clock, up, nextNonce, jobs>>
    PROVE  BobInv'
<1>. USE AnswersAssumption DEF Bob!BobParameters
<1>0. /\ query.nonce \in 0 .. MaxClock /\ clock \in Nat /\ query.started \in Nat
      /\ jobs[query.nonce] \in [asked : Int, work : Nat]
      /\ jobs[query.nonce].asked >= query.started
    BY DEF BobInv, BobTypeOK, QueryHasItsJob
<1>1. /\ Bob!ComputedAt(query.nonce) >= query.started
      /\ Bob!ComputedAt(query.nonce) \in Int
    BY <1>0 DEF Bob!ComputedAt
<1>2. CASE Bob!Finish("data", Bob!ComputedAt(query.nonce))
    BY <1>0, <1>1, <1>2, FinishInv DEF Ends
<1>3. CASE Bob!Finish("error", 0)  BY <1>3, FinishInv DEF Ends
<1>4. CASE /\ formed < Bob!ComputedAt(query.nonce) /\ Bob!DeadlinePassed(clock)
           /\ Bob!Finish("timeout", 0)
    <2>1. /\ clock >= query.started + Deadline
          /\ formed \in Nat /\ formed >= query.since
        BY <1>0, <1>4 DEF Bob!DeadlinePassed, Bob!FormedTimes
    <2>2. Bob!ComputedAt(query.nonce) > query.since
        BY <1>0, <1>1, <1>4, <2>1 DEF BobInv, BobTypeOK
    <2>. QED  BY <1>0, <1>4, <2>1, <2>2, FinishInv DEF Ends
<1>5. CASE /\ ~Bob!DeadlinePassed(clock) /\ UNCHANGED last
           /\ query' = [query EXCEPT !.calling = FALSE, !.since = clock + 1]
    <2>1. clock + 1 <= query.started + Deadline
        BY <1>0, <1>5 DEF Bob!DeadlinePassed
    <2>2. BobTypeOK'
        <3>1. query' = [nonce |-> query.nonce, started |-> query.started,
                        calling |-> FALSE, since |-> clock + 1]
            BY <1>5 DEF BobInv, BobTypeOK
        <3>2. query' \in [nonce : Int, started : Nat, calling : BOOLEAN, since : Nat]
            BY <1>0, <3>1 DEF BobInv, BobTypeOK
        <3>. QED  BY <1>5, <3>2 DEF BobInv, BobTypeOK
    <2>3. NoncesAreNew' /\ LastIsTrue'
        BY <1>5 DEF BobInv, NoncesAreNew, LastIsTrue, Bob!ComputedAt
    <2>4. QueryHasItsJob'
        <3>1. /\ query'.nonce = query.nonce /\ query'.started = query.started
              /\ query'.since = clock + 1
            BY <1>5 DEF BobInv, BobTypeOK
        <3>. QED  BY <1>0, <2>1, <3>1 DEF BobInv, QueryHasItsJob
    <2>. QED  BY <2>2, <2>3, <2>4 DEF BobInv
<1>6. formed \in Int  BY DEF Bob!FormedTimes
<1>. QED  BY <1>0, <1>1, <1>2, <1>3, <1>4, <1>5, <1>6 DEF Bob!Consider

(* An answer to the own call is considered; one to another call is an error. *)
LEMMA AnswerInv == BobInv /\ Bob!Answer => BobInv'
<1>. SUFFICES ASSUME BobInv, Bob!Answer PROVE BobInv'
    OBVIOUS
<1>1. PICK n \in Bob!Instants :
          /\ jobs[n] # Bob!NoJob
          /\ \E r \in (IF n = query.nonce THEN Bob!Answers \cup Bob!Failures ELSE Bob!Strays),
                formed \in Bob!FormedTimes(n) :
                IF Bob!MatchesCall(r) /\ Bob!HasResult(r)
                THEN Bob!Consider(n, formed) ELSE Bob!Finish("error", 0)
    BY DEF Bob!Answer
<1>2. PICK r \in (IF n = query.nonce THEN Bob!Answers \cup Bob!Failures ELSE Bob!Strays),
           formed \in Bob!FormedTimes(n) :
               IF Bob!MatchesCall(r) /\ Bob!HasResult(r)
               THEN Bob!Consider(n, formed) ELSE Bob!Finish("error", 0)
    BY <1>1
<1>3. Bob!Running /\ UNCHANGED <<clock, up, nextNonce, jobs>>  BY DEF Bob!Answer, Bob!Calling
<1>4. CASE n = query.nonce /\ Bob!Consider(n, formed)  BY <1>1, <1>3, <1>4, ConsiderInv
<1>5. CASE Bob!Finish("error", 0)  BY <1>3, <1>5, FinishInv DEF Ends
<1>. QED  BY <1>2, <1>4, <1>5, StraysAreRefused

(* The next poll changes nothing but the call. *)
LEMMA WakesUpInv == BobInv /\ Bob!WakesUp => BobInv'
<1>. SUFFICES ASSUME BobInv, Bob!WakesUp PROVE BobInv'
    OBVIOUS
<1>1. /\ Bob!Running /\ ~query.calling /\ clock >= query.since
      /\ query' = [query EXCEPT !.calling = TRUE, !.since = clock]
      /\ UNCHANGED <<clock, up, nextNonce, jobs, last>>
    BY DEF Bob!WakesUp
<1>2. clock \in Nat /\ query.since \in Nat /\ clock <= query.since
    BY <1>1 DEF BobInv, QueryHasItsJob, BobTypeOK
<1>3. query' = [nonce |-> query.nonce, started |-> query.started,
                calling |-> TRUE, since |-> clock]
    BY <1>1 DEF BobInv, BobTypeOK
<1>4. BobTypeOK'  BY <1>1, <1>2, <1>3 DEF BobInv, BobTypeOK
<1>5. NoncesAreNew' /\ LastIsTrue'
    BY <1>1 DEF BobInv, NoncesAreNew, LastIsTrue, Bob!ComputedAt
<1>6. QueryHasItsJob'  BY <1>1, <1>2, <1>3 DEF BobInv, QueryHasItsJob
<1>. QED  BY <1>4, <1>5, <1>6 DEF BobInv

(* The last call before the cut began before the deadline. *)
LEMMA CutQueryInv == BobInv /\ Bob!CutQuery => BobInv'
<1>. SUFFICES ASSUME BobInv, Bob!CutQuery PROVE BobInv'
    OBVIOUS
<1>1. query.since <= query.started + Deadline
    BY DEF Bob!CutQuery, Bob!CutDue, BobInv, QueryHasItsJob
<1>. QED  BY <1>1, FinishInv DEF Bob!CutQuery, Ends

(* Dropping the query, dying, starting again and letting time pass. *)
LEMMA WorldInv == BobInv /\ (Bob!AbortQuery \/ Bob!Kill \/ Bob!Restart \/ Bob!Advance) => BobInv'
<1>. SUFFICES ASSUME BobInv, Bob!AbortQuery \/ Bob!Kill \/ Bob!Restart \/ Bob!Advance
              PROVE  BobInv'
    OBVIOUS
<1>. USE AnswersAssumption DEF Bob!BobParameters, BobInv
<1>1. CASE Bob!AbortQuery \/ Bob!Kill
    <2>1. /\ query' = Bob!NoQuery /\ UNCHANGED <<clock, nextNonce, jobs, last>>
          /\ up' = up \/ (up /\ up' = FALSE)
        BY <1>1 DEF Bob!AbortQuery, Bob!Kill
    <2>2. BobTypeOK'
        <3>1. query' \in [nonce : Int, started : Nat, calling : BOOLEAN, since : Nat]
            BY <2>1 DEF Bob!NoQuery, Bob!NoNonce
        <3>. QED  BY <2>1, <3>1 DEF BobTypeOK
    <2>3. NoncesAreNew'  BY <2>1 DEF NoncesAreNew
    <2>. QED  BY <2>1, <2>2, <2>3 DEF QueryHasItsJob, Bob!Running, LastIsTrue, Bob!ComputedAt
<1>2. CASE Bob!Restart
    <2>1. /\ ~up /\ up' = TRUE /\ clock' = clock + 1 /\ nextNonce' = clock + 1
          /\ clock + 1 < MaxClock /\ UNCHANGED <<query, jobs, last>> /\ clock \in Nat
        BY <1>2 DEF Bob!Restart, Bob!InitialNonce, BobTypeOK
    <2>2. BobTypeOK'  BY <2>1 DEF BobTypeOK
    <2>3. NoncesAreNew'  BY <2>1 DEF NoncesAreNew
    <2>4. QueryHasItsJob'  BY <2>1 DEF QueryHasItsJob, Bob!Running
    <2>. QED  BY <2>1, <2>2, <2>3, <2>4 DEF LastIsTrue, Bob!ComputedAt
<1>3. CASE Bob!Advance
    <2>1. /\ clock < MaxClock /\ clock' = clock + 1 /\ clock \in Nat
          /\ Bob!Running => query.calling \/ clock < query.since
          /\ UNCHANGED <<up, nextNonce, query, jobs, last>>
        BY <1>3 DEF Bob!Advance, BobTypeOK
    <2>2. BobTypeOK'  BY <2>1 DEF BobTypeOK
    <2>3. NoncesAreNew'  BY <2>1 DEF NoncesAreNew
    <2>4. QueryHasItsJob'
        <3>. SUFFICES ASSUME Bob!Running
                      PROVE  /\ query.started <= clock + 1
                             /\ ~query.calling => clock + 1 <= query.since
            BY <2>1 DEF QueryHasItsJob, Bob!Running
        <3>1. query.started \in Nat /\ query.since \in Nat  BY DEF BobTypeOK
        <3>. QED  BY <2>1, <3>1 DEF QueryHasItsJob
    <2>. QED  BY <2>1, <2>2, <2>3, <2>4 DEF LastIsTrue, Bob!ComputedAt
<1>. QED  BY <1>1, <1>2, <1>3

(* Every step of the adapter, of the engine and of the world. *)
LEMMA BobNextInv == BobInv /\ [Bob!BobNext]_bob => BobInv'
<1>. SUFFICES ASSUME BobInv, [Bob!BobNext]_bob PROVE BobInv'
    OBVIOUS
<1>1. CASE Bob!CallFails
    <2>1. Bob!Finish("error", 0) /\ UNCHANGED <<clock, up, nextNonce, jobs>>
        BY <1>1 DEF Bob!CallFails
    <2>. QED  BY <2>1, FinishInv DEF Ends
<1>2. CASE UNCHANGED bob
    BY <1>2 DEF bob, BobInv, BobTypeOK, NoncesAreNew, QueryHasItsJob, Bob!Running, LastIsTrue,
                Bob!ComputedAt
<1>. QED  BY <1>1, <1>2, StartQueryInv, BobTakesInv, AnswerInv, WakesUpInv, CutQueryInv, WorldInv
          DEF Bob!BobNext

(* What the end of the last query says answers both properties. *)
LEMMA BobIsTrue == BobInv => DataIsFresh /\ TimeoutsBlameTheRightOne
BY DEF BobInv, LastIsTrue, DataIsFresh, TimeoutsBlameTheRightOne, Bob!DataIsFresh,
       Bob!CutBlamesTheCall, Bob!TimeoutBlamesBobOrTheCall

-----------------------------------------------------------------------------
(* A session with a node: checks and broadcasts *)

(* What is known of a tick, and what the node holds of it.                 *)
SessionTypeOK ==
    /\ kind \in Node!Kinds
    /\ truth \in [Checked -> SUBSET (Others \cup {Node!Own})]
    /\ check \in Checked \cup {Node!None}
    /\ presence \in [Checked -> {"unverified", "empty", "nonempty"}]
    /\ inclusion \in [Checked -> {"unverified", "unknown", "included", "missing"}]

(* The three properties of a session carry each other: no conclusion is    *)
(* drawn from anything but evidence.                                       *)
SessionInv ==
    /\ SessionTypeOK
    /\ Node!PresenceIsTrue /\ Node!InclusionIsTrue /\ Node!AcceptedWasSubmitted

(* An evidence is right about a tick if its flag is, and if a list that is *)
(* said to be complete has our transaction exactly when the tick has.      *)
RightAbout(e, tick) ==
    e.ok => /\ e.has <=> truth[tick] # {}
            /\ e.complete => (Node!Digest(Node!Own, tick) \in e.digests <=> Node!Own \in truth[tick])

(* The instance counts as FiniteSets does. *)
LEMMA NodeCounts ==
    \A S : Node!Cardinality(S) = Cardinality(S) /\ (Node!IsFiniteSet(S) <=> IsFiniteSet(S))
BY DEF Node!Cardinality, Cardinality, Node!IsFiniteSet, IsFiniteSet

(* The transactions of a tick are finitely many. *)
LEMMA TruthIsFinite ==
    ASSUME SessionTypeOK, NEW u \in Checked
    PROVE  /\ IsFiniteSet(truth[u]) /\ Cardinality(truth[u]) \in Nat
           /\ Cardinality(truth[u]) = 0 <=> truth[u] = {}
<1>1. IsFiniteSet(Others \cup {Node!Own})
    BY AnswersAssumption, NodeCounts, FS_AddElement DEF Node!SessionParameters
<1>2. truth[u] \in SUBSET (Others \cup {Node!Own})  BY DEF SessionTypeOK
<1>3. IsFiniteSet(truth[u])  BY <1>1, <1>2, FS_Subset
<1>. QED  BY <1>3, FS_CardinalityType, FS_EmptySet

(* An honest list names every transaction of its tick and no other. *)
LEMMA OrdersAreComplete ==
    ASSUME SessionTypeOK, NEW u \in Checked, NEW d \in Node!Orders(u)
    PROVE  /\ d \in Seq({Node!Digest(x, u) : x \in truth[u]})
           /\ DOMAIN d = 1 .. Cardinality(truth[u])
           /\ {d[i] : i \in DOMAIN d} = {Node!Digest(x, u) : x \in truth[u]}
           /\ d = <<>> <=> truth[u] = {}
<1>. DEFINE n == Cardinality(truth[u])
            D == {Node!Digest(x, u) : x \in truth[u]}
            name == [x \in truth[u] |-> Node!Digest(x, u)]
<1>1. IsFiniteSet(truth[u]) /\ n \in Nat /\ (n = 0 <=> truth[u] = {})  BY TruthIsFinite
<1>2. d \in [1 .. n -> D] /\ \A i, j \in 1 .. n : d[i] = d[j] => i = j
    BY NodeCounts DEF Node!Orders
<1>3. d \in Seq(D)  BY <1>1, <1>2, SeqDef
<1>4. ExistsBijection(truth[u], D)
    <2>1. name \in [truth[u] -> D]  OBVIOUS
    <2>2. name \in Injection(truth[u], D)  BY <2>1 DEF Injection, IsInjective, Node!Digest
    <2>3. name \in Surjection(truth[u], D)  BY <2>1 DEF Surjection
    <2>. QED  BY <2>2, <2>3 DEF ExistsBijection, Bijection
<1>5. IsFiniteSet(D) /\ Cardinality(D) = n  BY <1>1, <1>4, FS_Bijection
<1>6. IsFiniteSet(1 .. n) /\ Cardinality(1 .. n) = n  BY <1>1, FS_Interval
<1>7. d \in Injection(1 .. n, D)  BY <1>2 DEF Injection, IsInjective
<1>8. d \in Surjection(1 .. n, D)  BY <1>5, <1>6, <1>7, FS_Injection
<1>9. {d[i] : i \in DOMAIN d} = D  BY <1>2, <1>8 DEF Surjection
<1>10. DOMAIN d = 1 .. n  BY <1>2
<1>11. d = <<>> <=> truth[u] = {}
    <2>1. Len(d) = n  BY <1>1, <1>3, <1>10, LenProperties
    <2>. QED  BY <1>1, <1>3, <2>1, EmptySeq
<1>. QED  BY <1>3, <1>9, <1>10, <1>11

(* An RPC node answers about its tick or says that it has none. *)
LEMMA RpcIsRight ==
    ASSUME SessionTypeOK, NEW tick \in Checked, NEW r \in Node!RpcAnswers(tick)
    PROVE  RightAbout(Node!RpcTickData(r, tick), tick)
<1>. USE DEF RightAbout, Node!RpcTickData, Node!NoEvidence, Node!Presence, Node!Evidence
<1>1. CASE truth[tick] = {} /\ r = [present |-> FALSE, tick |-> Node!None, hashes |-> 0]
    BY <1>1
<1>2. ASSUME NEW u \in Checked,
             r = [present |-> TRUE, tick |-> u, hashes |-> Node!Cardinality(truth[u])]
      PROVE  RightAbout(Node!RpcTickData(r, tick), tick)
    <2>1. CASE u # tick  BY <1>2, <2>1
    <2>2. CASE u = tick
        <3>1. Cardinality(truth[u]) > 0 <=> truth[u] # {}  BY TruthIsFinite
        <3>. QED  BY <1>2, <2>2, <3>1, NodeCounts
    <2>. QED  BY <2>1, <2>2
<1>. QED  BY <1>1, <1>2 DEF Node!RpcAnswers

(* Bob gives no list, and an answer to another call is refused. *)
LEMMA BobIsRight ==
    ASSUME SessionTypeOK, NEW tick \in Checked, NEW e \in Node!BobEvidence(tick)
    PROVE  RightAbout(e, tick)
<1>. USE DEF RightAbout, Node!BobTickData, Node!NoEvidence, Node!Presence, Node!Evidence
<1>1. ASSUME NEW r, NEW shape,
             e = Node!BobTickData(r, [shape |-> shape, transfers |-> Node!Cardinality(truth[tick])])
      PROVE  RightAbout(e, tick)
    <2>1. Node!Cardinality(truth[tick]) > 0 <=> truth[tick] # {}  BY TruthIsFinite, NodeCounts
    <2>. QED  BY <1>1, <2>1
<1>2. ASSUME NEW r \in Node!Strays, NEW result, e = Node!BobTickData(r, result)
      PROVE  RightAbout(e, tick)
    <2>1. ~Node!MatchesCall(r)
        BY DEF Node!Strays, Node!JsonRpc, Node!Legacy, Node!MatchesCall, Node!Envelope
    <2>. QED  BY <1>2, <2>1
<1>3. \/ \E r \in Node!Answers \cup Node!Failures, shape \in {"array", "transfers", "other"} :
            e = Node!BobTickData(r, [shape |-> shape, transfers |-> Node!Cardinality(truth[tick])])
      \/ \E r \in Node!Strays, u \in Checked :
            e = Node!BobTickData(r, [shape |-> "array", transfers |-> Node!Cardinality(truth[u])])
    BY DEF Node!BobEvidence
<1>4. CASE \E r \in Node!Strays, u \in Checked :
            e = Node!BobTickData(r, [shape |-> "array", transfers |-> Node!Cardinality(truth[u])])
    BY <1>2, <1>4, Zenon
<1>. QED  BY <1>1, <1>3, <1>4, Zenon

(* Of an answer about the tick two forms count: without a list, where the  *)
(* flag decides, and with one that is complete, sound and goes with it.    *)
LEMMA TwoFormsCount ==
    ASSUME NEW r, NEW tick,
           /\ Node!About(r, tick) /\ ~r.complete /\ r.digests = <<>>
           => (r.has <=> truth[tick] # {}),
           /\ Node!About(r, tick) /\ r.complete /\ Node!FlagAgrees(r) /\ Node!WellListed(r.digests)
           => /\ r.has <=> truth[tick] # {}
              /\ Node!Digest(Node!Own, tick) \in {r.digests[i] : i \in DOMAIN r.digests}
                     <=> Node!Own \in truth[tick]
    PROVE  RightAbout(Node!QlnTickData(r, tick), tick)
<1>. DEFINE e == Node!QlnTickData(r, tick)
<1>1. CASE Node!About(r, tick) /\ ~r.complete /\ r.digests = <<>>
    <2>1. e = Node!Presence(r.has)  BY <1>1, Zenon DEF Node!QlnTickData
    <2>. QED  BY <1>1, <2>1 DEF RightAbout, Node!Presence, Node!Evidence
<1>2. CASE /\ Node!About(r, tick) /\ r.complete
           /\ Node!FlagAgrees(r) /\ Node!WellListed(r.digests)
    <2>1. e = Node!Evidence(r.has, TRUE, {r.digests[i] : i \in DOMAIN r.digests})
        BY <1>2 DEF Node!QlnTickData
    <2>. QED  BY <1>2, <2>1 DEF RightAbout, Node!Evidence
<1>3. CASE /\ ~(Node!About(r, tick) /\ ~r.complete /\ r.digests = <<>>)
           /\ ~(/\ Node!About(r, tick) /\ r.complete
                /\ Node!FlagAgrees(r) /\ Node!WellListed(r.digests))
    <2>1. e = Node!NoEvidence  BY <1>3 DEF Node!QlnTickData
    <2>. QED  BY <2>1 DEF RightAbout, Node!NoEvidence
<1>. QED  BY <1>1, <1>2, <1>3

(* The whole list of a light node: the flag, the list, and our place in it *)
(* agree with the tick.                                                    *)
LEMMA HonestIsRight ==
    ASSUME SessionTypeOK, NEW u \in Checked, NEW d \in Node!Orders(u)
    PROVE  /\ RightAbout(Node!QlnTickData(Node!Honest(u, d), u), u)
           /\ Node!Digest(Node!Own, u) \in {d[i] : i \in DOMAIN d} <=> Node!Own \in truth[u]
<1>1. {d[i] : i \in DOMAIN d} = {Node!Digest(x, u) : x \in truth[u]}
    BY OrdersAreComplete
<1>2. Node!Digest(Node!Own, u) \in {Node!Digest(x, u) : x \in truth[u]} <=> Node!Own \in truth[u]
    BY DEF Node!Digest
<1>3. RightAbout(Node!QlnTickData(Node!Honest(u, d), u), u)
    BY <1>1, <1>2, TwoFormsCount DEF Node!Honest
<1>. QED  BY <1>1, <1>2, <1>3

(* A damaged list is refused, unless the damage is one entry too many,     *)
(* which hides none of the others.                                         *)
LEMMA DamageIsHarmless ==
    ASSUME SessionTypeOK, NEW u \in Checked, NEW d \in Node!Orders(u),
           NEW bad \in Node!Damaged(d) \ Node!Orders(u)
    PROVE  \/ ~Node!WellListed(bad)
           \/ /\ bad # <<>>
              /\ Node!Digest(Node!Own, u) \in {bad[i] : i \in DOMAIN bad} <=> Node!Own \in truth[u]
<1>. DEFINE D == {Node!Digest(x, u) : x \in truth[u]}
<1>1. /\ d \in Seq(D) /\ d \in Seq(D \cup {Node!Digest("extra", Node!None)})
      /\ DOMAIN d = 1 .. Len(d) /\ Len(d) \in Nat
    <2>1. d \in Seq(D)  BY OrdersAreComplete
    <2>. QED  BY <2>1, SeqMonotonic, LenProperties
<1>2. Node!Digest(Node!Own, u) \in {d[i] : i \in DOMAIN d} <=> Node!Own \in truth[u]
    BY HonestIsRight
<1>3. CASE bad = Append(d, Node!Digest("extra", Node!None))
    <2>1. Node!Digest("extra", Node!None) # Node!Digest(Node!Own, u)
        BY DEF Node!Digest, Node!Own
    <2>2. /\ bad # <<>> /\ bad \in Seq(D \cup {Node!Digest("extra", Node!None)})
          /\ Len(bad) = Len(d) + 1
          /\ \A i \in 1 .. Len(d) : bad[i] = d[i]
          /\ bad[Len(d) + 1] = Node!Digest("extra", Node!None)
        BY <1>1, <1>3, AppendProperties
    <2>3. DOMAIN bad = 1 .. Len(d) + 1  BY <1>1, <2>2, LenProperties
    <2>4. {bad[i] : i \in DOMAIN bad} = {d[i] : i \in DOMAIN d} \cup {Node!Digest("extra", Node!None)}
        BY <1>1, <2>2, <2>3
    <2>. QED  BY <1>2, <2>1, <2>2, <2>4
<1>4. ASSUME NEW i \in DOMAIN d, NEW b \in {Node!Zero, Node!Short}, bad = [d EXCEPT ![i] = b]
      PROVE  ~Node!WellListed(bad)
    <2>1. i \in DOMAIN bad /\ bad[i] = b  BY <1>4
    <2>. QED  BY <2>1 DEF Node!WellListed
<1>5. ASSUME NEW i \in DOMAIN d, NEW j \in DOMAIN d, bad = [d EXCEPT ![i] = d[j]]
      PROVE  ~Node!WellListed(bad)
    <2>1. d = [k \in DOMAIN d |-> d[k]]  BY <1>1
    <2>2. i # j
        <3>1. SUFFICES ASSUME i = j PROVE FALSE
            OBVIOUS
        <3>2. bad = d  BY <1>5, <2>1, <3>1
        <3>. QED  BY <3>2
    <2>3. i \in DOMAIN bad /\ j \in DOMAIN bad /\ bad[i] = bad[j]  BY <1>5, <2>2
    <2>. QED  BY <2>2, <2>3 DEF Node!WellListed
<1>. QED  BY <1>3, <1>4, <1>5 DEF Node!Damaged

(* A light node, whatever tick it answers about and whatever is damaged. *)
LEMMA QlnIsRight ==
    ASSUME SessionTypeOK, NEW tick \in Checked, NEW u \in Checked, NEW r \in Node!QlnAnswers(u)
    PROVE  RightAbout(Node!QlnTickData(r, tick), tick)
<1>1. PICK d \in Node!Orders(u) : r = Node!Honest(u, d) \/ r \in Node!Faulty(Node!Honest(u, d))
    BY DEF Node!QlnAnswers
<1>. DEFINE R(ok, complete, has, digests) ==
                [ok |-> ok, tick |-> u, complete |-> complete, has |-> has, digests |-> digests]
            nonempty == truth[u] # {}
            Right == RightAbout(Node!QlnTickData(r, tick), tick)
<1>2. \/ r = R(TRUE, TRUE, nonempty, d)
      \/ r = R(FALSE, TRUE, nonempty, d)
      \/ r = R(TRUE, TRUE, ~nonempty, d)
      \/ r = R(TRUE, FALSE, nonempty, d)
      \/ r = R(TRUE, TRUE, nonempty, <<>>)
      \/ r = R(TRUE, FALSE, nonempty, <<>>)
      \/ \E bad \in Node!Damaged(d) \ Node!Orders(u) : r = R(TRUE, TRUE, nonempty, bad)
    BY <1>1 DEF Node!Faulty, Node!Honest
<1>3. d = <<>> <=> ~nonempty  BY OrdersAreComplete
<1>4. Node!Digest(Node!Own, u) \in {d[i] : i \in DOMAIN d} <=> Node!Own \in truth[u]
    BY HonestIsRight
<1>5. Node!Digest(Node!Own, u) \notin {<<>>[i] : i \in DOMAIN <<>>}  OBVIOUS
<1>. USE DEF Node!About, Node!FlagAgrees
<1>6. SUFFICES ASSUME u = tick PROVE Right
    <2>1. CASE u # tick
        <3>1. r.tick = u  BY <1>2
        <3>. QED  BY <2>1, <3>1, TwoFormsCount
    <2>. QED  BY <2>1
<1>. HIDE DEF Right
<1>7. ASSUME r.has <=> truth[tick] # {},
             Node!About(r, tick) /\ r.complete /\ Node!FlagAgrees(r) /\ Node!WellListed(r.digests) =>
                 (Node!Digest(Node!Own, tick) \in {r.digests[i] : i \in DOMAIN r.digests}
                      <=> Node!Own \in truth[tick])
      PROVE  Right
    BY <1>7, TwoFormsCount DEF Right
<1>8. ASSUME r.digests = d, r.has <=> truth[tick] # {} PROVE Right
    BY <1>4, <1>6, <1>7, <1>8
<1>14. CASE r = R(TRUE, TRUE, nonempty, d)
    <2>1. r.digests = d /\ (r.has <=> truth[tick] # {})  BY <1>6, <1>14
    <2>. QED  BY <1>8, <2>1
<1>15. CASE r = R(FALSE, TRUE, nonempty, d)
    <2>1. r.digests = d /\ (r.has <=> truth[tick] # {})  BY <1>6, <1>15
    <2>. QED  BY <1>8, <2>1
<1>16. CASE r = R(TRUE, FALSE, nonempty, d)
    <2>1. r.digests = d /\ (r.has <=> truth[tick] # {})  BY <1>6, <1>16
    <2>. QED  BY <1>8, <2>1
<1>9. CASE r = R(TRUE, TRUE, ~nonempty, d)
    <2>1. ~Node!FlagAgrees(r) /\ r.complete  BY <1>3, <1>9
    <2>. QED  BY <2>1, TwoFormsCount DEF Right
<1>10. CASE r = R(TRUE, TRUE, nonempty, <<>>)
    <2>1. r.digests = <<>> /\ (r.has <=> truth[tick] # {})  BY <1>6, <1>10
    <2>2. Node!FlagAgrees(r) => truth[tick] = {}  BY <2>1
    <2>. QED  BY <1>5, <1>7, <2>1, <2>2
<1>11. CASE r = R(TRUE, FALSE, nonempty, <<>>)
    <2>1. ~r.complete /\ (r.has <=> truth[tick] # {})  BY <1>6, <1>11
    <2>. QED  BY <1>7, <2>1
<1>12. ASSUME NEW bad \in Node!Damaged(d) \ Node!Orders(u), r = R(TRUE, TRUE, nonempty, bad)
       PROVE  Right
    <2>1. r.digests = bad /\ (r.has <=> truth[tick] # {})  BY <1>6, <1>12
    <2>2. CASE ~Node!WellListed(bad)  BY <1>7, <2>1, <2>2
    <2>3. CASE Node!Digest(Node!Own, u) \in {bad[i] : i \in DOMAIN bad} <=> Node!Own \in truth[u]
        BY <1>6, <1>7, <2>1, <2>3
    <2>. QED  BY <2>2, <2>3, DamageIsHarmless
<1>. QED  BY <1>2, <1>9, <1>10, <1>11, <1>12, <1>14, <1>15, <1>16

(* Whatever comes of a request about a tick, nothing wrong is believed.    *)
LEMMA EvidenceIsRight ==
    ASSUME SessionTypeOK, NEW tick \in Checked, NEW e \in Node!EvidenceOf(tick)
    PROVE  RightAbout(e, tick)
<1>1. CASE e = Node!NoEvidence  BY <1>1 DEF RightAbout, Node!NoEvidence
<1>2. CASE kind = "rpc" /\ e \in {Node!RpcTickData(r, tick) : r \in Node!RpcAnswers(tick)}
    BY <1>2, RpcIsRight
<1>3. CASE kind = "bob" /\ e \in Node!BobEvidence(tick)  BY <1>3, BobIsRight
<1>4. CASE e \in UNION {{Node!QlnTickData(r, tick) : r \in Node!QlnAnswers(u)} : u \in Checked}
    BY <1>4, QlnIsRight
<1>. QED  BY <1>1, <1>2, <1>3, <1>4 DEF Node!EvidenceOf

(* Nothing is concluded before the first answer. *)
LEMMA SessionInitInv == Node!SessionInit => SessionInv
BY DEF Node!SessionInit, SessionInv, SessionTypeOK, Node!PresenceIsTrue, Node!InclusionIsTrue,
       Node!AcceptedWasSubmitted

(* A check concludes what its evidence is right about. *)
LEMMA HarvestCheckInv == SessionInv /\ Node!HarvestCheck => SessionInv'
<1>. SUFFICES ASSUME SessionInv, Node!HarvestCheck PROVE SessionInv'
    OBVIOUS
<1>1. /\ check \in Checked /\ SessionTypeOK /\ check' = Node!None
      /\ UNCHANGED <<kind, truth, submitted, accepted>>
    BY DEF Node!HarvestCheck, SessionInv, SessionTypeOK, Node!world, Node!sends
<1>2. PICK e \in Node!EvidenceOf(check) :
          IF e.ok
          THEN /\ presence' = [presence EXCEPT ![check] = IF e.has THEN "nonempty" ELSE "empty"]
               /\ inclusion' = [inclusion EXCEPT ![check] =
                     IF check \in kept THEN Node!Inclusion(e, Node!Digest(Node!Own, check))
                     ELSE "unknown"]
               /\ kept' = kept \ {check}
          ELSE UNCHANGED <<presence, inclusion, kept>>
    BY DEF Node!HarvestCheck
<1>3. RightAbout(e, check)  BY <1>1, EvidenceIsRight
<1>4. CASE ~e.ok
    BY <1>1, <1>2, <1>4 DEF SessionInv, SessionTypeOK, Node!PresenceIsTrue,
       Node!InclusionIsTrue, Node!AcceptedWasSubmitted
<1>5. CASE e.ok
    <2>. DEFINE found == IF check \in kept THEN Node!Inclusion(e, Node!Digest(Node!Own, check))
                         ELSE "unknown"
    <2>1. /\ found \in {"unknown", "included", "missing"}
          /\ found = "missing" => Node!Own \notin truth[check]
          /\ found = "included" => Node!Own \in truth[check]
        BY <1>3, <1>5 DEF RightAbout, Node!Inclusion
    <2>2. SessionTypeOK'  BY <1>1, <1>2, <1>5, <2>1 DEF SessionTypeOK
    <2>3. Node!PresenceIsTrue'
        BY <1>1, <1>2, <1>3, <1>5 DEF SessionInv, SessionTypeOK, Node!PresenceIsTrue, RightAbout
    <2>4. Node!InclusionIsTrue'
        BY <1>1, <1>2, <1>5, <2>1 DEF SessionInv, SessionTypeOK, Node!InclusionIsTrue
    <2>. QED  BY <1>1, <2>2, <2>3, <2>4 DEF SessionInv, Node!AcceptedWasSubmitted
<1>. QED  BY <1>4, <1>5

(* A node that did not take a transaction has no answer that counts. *)
LEMMA RefusalsAreSeen ==
    ASSUME NEW yes \in Node!AcceptedBy(FALSE)
    PROVE  ~yes
<1>1. CASE kind = "rpc"
    <2>1. Node!AcceptedBy(FALSE) = {Node!RpcAccepts(r) : r \in [peers : {0, -1}, id : Node!IdForms]}
        BY <1>1 DEF Node!AcceptedBy
    <2>2. \A r \in [peers : {0, -1}, id : Node!IdForms] : ~Node!RpcAccepts(r)
        BY DEF Node!RpcAccepts
    <2>. QED  BY <2>1, <2>2
<1>2. CASE kind = "bob"
    <2>. DEFINE R == Node!Failures \cup Node!Strays
                Ids == Node!IdForms \X Node!IdForms
    <2>1. yes \in {Node!BobAccepts(r, ids) : r \in R, ids \in Ids}
        BY <1>2 DEF Node!AcceptedBy
    <2>2. \A r \in R : ~Node!MatchesCall(r) \/ ~Node!HasResult(r)
        BY DEF Node!Failures, Node!Strays, Node!JsonRpc, Node!Legacy, Node!MatchesCall,
               Node!Envelope, Node!HasResult
    <2>3. \A r \in R, ids \in Ids : ~Node!BobAccepts(r, ids)
        BY <2>2 DEF Node!BobAccepts
    <2>. HIDE DEF R, Ids
    <2>4. \E r \in R, ids \in Ids : yes = Node!BobAccepts(r, ids)  BY <2>1
    <2>. QED  BY <2>3, <2>4
<1>3. CASE kind # "rpc" /\ kind # "bob"
    <2>1. Node!AcceptedBy(FALSE) = {Node!QlnAccepts(r) : r \in [ok : {FALSE}, id : Node!IdForms]}
        BY <1>3 DEF Node!AcceptedBy
    <2>2. \A r \in [ok : {FALSE}, id : Node!IdForms] : ~Node!QlnAccepts(r)
        BY DEF Node!QlnAccepts
    <2>. QED  BY <2>1, <2>2
<1>. QED  BY <1>1, <1>2, <1>3

(* A broadcast counts as accepted only if the node took it. *)
LEMMA BroadcastInv ==
    ASSUME SessionInv, NEW t \in Checked, Node!Broadcast(t) PROVE SessionInv'
<1>1. PICK taken \in BOOLEAN, answered \in BOOLEAN :
          /\ submitted' = IF taken THEN submitted \cup {t} ELSE submitted
          /\ \E yes \in Node!AcceptedBy(taken) :
                accepted' = IF answered /\ yes THEN accepted \cup {t} ELSE accepted
    BY DEF Node!Broadcast
<1>2. PICK yes \in Node!AcceptedBy(taken) :
          accepted' = IF answered /\ yes THEN accepted \cup {t} ELSE accepted
    BY <1>1
<1>3. yes => taken
    <2>1. CASE taken = FALSE  BY <2>1, RefusalsAreSeen
    <2>. QED  BY <2>1
<1>4. accepted' = accepted \/ (t \in submitted' /\ accepted' = accepted \cup {t})
    BY <1>1, <1>2, <1>3
<1>5. Node!AcceptedWasSubmitted'
    BY <1>1, <1>4 DEF SessionInv, Node!AcceptedWasSubmitted
<1>6. UNCHANGED <<kind, truth, kept, check, presence, inclusion>>
    BY DEF Node!Broadcast, Node!world, Node!checks
<1>. QED  BY <1>5, <1>6 DEF SessionInv, SessionTypeOK, Node!PresenceIsTrue, Node!InclusionIsTrue

(* Every step of a session, with each of the three adapters. *)
LEMMA SessionNextInv == SessionInv /\ [Node!SessionNext]_node => SessionInv'
<1>. SUFFICES ASSUME SessionInv, [Node!SessionNext]_node PROVE SessionInv'
    OBVIOUS
<1>1. ASSUME NEW t \in Checked, Node!StartCheck(t) PROVE SessionInv'
    BY <1>1 DEF Node!StartCheck, SessionInv, SessionTypeOK, Node!world, Node!sends,
       Node!PresenceIsTrue, Node!InclusionIsTrue, Node!AcceptedWasSubmitted
<1>2. CASE UNCHANGED node
    BY <1>2 DEF node, SessionInv, SessionTypeOK, Node!PresenceIsTrue, Node!InclusionIsTrue,
       Node!AcceptedWasSubmitted
<1>. QED  BY <1>1, <1>2, HarvestCheckInv, BroadcastInv DEF Node!SessionNext

-----------------------------------------------------------------------------
(* Decoding a provider's status *)

(* The slots that the contract holds for the provider. *)
HeldKeys == {k \in Codec!Keys : held[k] # Codec!NotHeld}

(* What the contract sends for one order of its slots. *)
HonestAnswer(l) ==
    [whole |-> TRUE, count |-> Len(l),
     entries |-> [i \in DOMAIN l |-> Codec!Entry(l[i][1], l[i][2], held[l[i]], 0)]]

(* What the contract holds and where the decoding stands. *)
CodecTypeOK ==
    /\ held \in [Codec!Keys -> Updates \cup {Codec!NotHeld}]
    /\ verdict \in {"waiting", "decoding", "ok", "refused"} /\ damaged \in BOOLEAN
    /\ answer.count \in Nat
    /\ answer = [whole |-> answer.whole, count |-> answer.count, entries |-> answer.entries]

(* Every position of an answer, those past its end included. *)
EntriesOf(a) == {Codec!EntryAt(a, i) : i \in Nat}

(* Until an answer is refused the decoded slots are its first entries, no  *)
(* two of them have the same key, and `seen' are their bits.               *)
DecodedSoFar ==
    verdict # "refused" =>
        /\ slots \in Seq(EntriesOf(answer)) /\ Len(slots) <= answer.count
        /\ verdict = "ok" => Len(slots) = answer.count
        /\ \A i \in 1 .. Len(slots) : slots[i] = Codec!EntryAt(answer, i)
        /\ \A i, j \in 1 .. Len(slots) : Codec!SlotBit(slots[i]) = Codec!SlotBit(slots[j]) => i = j
        /\ seen = {Codec!SlotBit(slots[i]) : i \in 1 .. Len(slots)}

(* Nothing happens before the contract has answered; what it sent stays    *)
(* one of its listings, and is not refused, unless it is damaged.          *)
SentIsListed ==
    /\ verdict = "waiting" => slots = <<>> /\ ~damaged
    /\ ~damaged /\ verdict # "waiting" =>
          /\ verdict # "refused"
          /\ \E l \in Codec!Listings : answer = HonestAnswer(l)

CodecInv == CodecTypeOK /\ DecodedSoFar /\ SentIsListed

(* The instance counts as FiniteSets does. *)
LEMMA CodecCounts == \A S : Codec!Cardinality(S) = Cardinality(S)
BY DEF Codec!Cardinality, Cardinality

(* The slots of a provider fit into one answer. *)
LEMMA HeldKeysFit ==
    /\ IsFiniteSet(HeldKeys) /\ Cardinality(HeldKeys) \in Nat
    /\ Cardinality(HeldKeys) <= MaxSlots
<1>1. /\ Streams \subseteq 0 .. 2 /\ Tiers \subseteq 0 .. 9
      /\ Cardinality(Streams) * Cardinality(Tiers) <= MaxSlots
    BY AnswersAssumption, CodecCounts DEF Codec!CodecParameters
<1>2. IsFiniteSet(0 .. 2) /\ IsFiniteSet(0 .. 9)
    <2>1. \A a, b \in Int : IsFiniteSet(a .. b)  BY FS_Interval
    <2>2. 0 \in Int /\ 2 \in Int /\ 9 \in Int  OBVIOUS
    <2>. QED  BY <2>1, <2>2, Zenon
<1>3. IsFiniteSet(Streams) /\ IsFiniteSet(Tiers)  BY <1>1, <1>2, FS_Subset
<1>4. /\ IsFiniteSet(Streams \X Tiers)
      /\ Cardinality(Streams \X Tiers) = Cardinality(Streams) * Cardinality(Tiers)
    BY <1>3, FS_Product
<1>5. HeldKeys \in SUBSET (Streams \X Tiers)  BY DEF HeldKeys, Codec!Keys
<1>6. /\ IsFiniteSet(HeldKeys) /\ Cardinality(HeldKeys) <= Cardinality(Streams \X Tiers)
    BY <1>4, <1>5, FS_Subset
<1>7. Cardinality(HeldKeys) \in Nat /\ Cardinality(Streams \X Tiers) \in Nat
    BY <1>4, <1>6, FS_CardinalityType
<1>8. MaxSlots \in Nat  BY AnswersAssumption DEF Codec!CodecParameters
<1>. QED  BY <1>1, <1>4, <1>6, <1>7, <1>8

(* A listing has every slot that is held, once. *)
LEMMA ListingsAreComplete ==
    ASSUME NEW l \in Codec!Listings
    PROVE  /\ l \in [1 .. Cardinality(HeldKeys) -> HeldKeys]
           /\ Len(l) = Cardinality(HeldKeys)
           /\ \A i, j \in 1 .. Len(l) : l[i] = l[j] => i = j
           /\ \A k \in HeldKeys : \E i \in 1 .. Len(l) : l[i] = k
<1>. DEFINE n == Cardinality(HeldKeys)
<1>1. n \in Nat /\ IsFiniteSet(HeldKeys)  BY HeldKeysFit
<1>2. /\ l \in [1 .. n -> HeldKeys]
      /\ \A i, j \in 1 .. n : i < j => l[i] # l[j]
    BY CodecCounts DEF Codec!Listings, HeldKeys
<1>3. \A i, j \in 1 .. n : l[i] = l[j] => i = j
    <2>. SUFFICES ASSUME NEW i \in 1 .. n, NEW j \in 1 .. n, l[i] = l[j], i # j PROVE FALSE
        OBVIOUS
    <2>1. i < j \/ j < i  BY <1>1
    <2>. QED  BY <1>2, <2>1
<1>4. l \in Seq(HeldKeys) /\ Len(l) = n
    <2>1. l \in Seq(HeldKeys)  BY <1>1, <1>2, SeqDef
    <2>. QED  BY <1>1, <1>2, <2>1, LenProperties
<1>5. l \in Injection(1 .. n, HeldKeys)  BY <1>2, <1>3 DEF Injection, IsInjective
<1>6. IsFiniteSet(1 .. n) /\ Cardinality(1 .. n) = n  BY <1>1, FS_Interval
<1>7. l \in Surjection(1 .. n, HeldKeys)  BY <1>1, <1>5, <1>6, FS_Injection
<1>. QED  BY <1>2, <1>3, <1>4, <1>7 DEF Surjection

(* The entries of an honest answer name the listed slots in their order,   *)
(* and different bits stand for different slots.                           *)
LEMMA HonestEntries ==
    ASSUME NEW l \in Codec!Listings, answer = HonestAnswer(l)
    PROVE  /\ answer.whole /\ answer.count = Len(l) /\ answer.count \in Nat
           /\ answer.count <= MaxSlots
           /\ \A i \in 1 .. Len(l) :
                 /\ l[i] \in Codec!Keys
                 /\ Codec!EntryAt(answer, i) = Codec!Entry(l[i][1], l[i][2], held[l[i]], 0)
           /\ \A i, j \in 1 .. Len(l) :
                 Codec!SlotBit(Codec!EntryAt(answer, i)) = Codec!SlotBit(Codec!EntryAt(answer, j))
                     => i = j
<1>1. /\ l \in [1 .. Len(l) -> HeldKeys] /\ Len(l) = Cardinality(HeldKeys)
      /\ \A i, j \in 1 .. Len(l) : l[i] = l[j] => i = j
    BY ListingsAreComplete
<1>2. answer.whole /\ answer.count = Len(l) /\ answer.count \in Nat /\ answer.count <= MaxSlots
    BY <1>1, HeldKeysFit DEF HonestAnswer
<1>3. \A i \in 1 .. Len(l) :
          /\ l[i] \in Codec!Keys
          /\ Codec!EntryAt(answer, i) = Codec!Entry(l[i][1], l[i][2], held[l[i]], 0)
    BY <1>1 DEF HonestAnswer, Codec!EntryAt, HeldKeys
<1>4. ASSUME NEW i \in 1 .. Len(l), NEW j \in 1 .. Len(l),
             Codec!SlotBit(Codec!EntryAt(answer, i)) = Codec!SlotBit(Codec!EntryAt(answer, j))
      PROVE  i = j
    <2>1. /\ l[i] \in (0 .. 2) \X (0 .. 9) /\ l[j] \in (0 .. 2) \X (0 .. 9)
        BY <1>3, AnswersAssumption DEF Codec!CodecParameters, Codec!Keys
    <2>2. l[i][1] * 10 + l[i][2] = l[j][1] * 10 + l[j][2]
        BY <1>3, <1>4 DEF Codec!SlotBit, Codec!Entry
    <2>3. l[i][1] = l[j][1] /\ l[i][2] = l[j][2]
        <3>. DEFINE a == l[i][1]  b == l[i][2]  c == l[j][1]  d == l[j][2]
        <3>1. a \in 0 .. 2 /\ c \in 0 .. 2 /\ b \in 0 .. 9 /\ d \in 0 .. 9  BY <2>1
        <3>2. a * 10 + b = c * 10 + d  BY <2>2
        <3>. HIDE DEF a, b, c, d
        <3>3. a = c /\ b = d  BY <3>1, <3>2
        <3>. QED  BY <3>3 DEF a, b, c, d
    <2>4. l[i] = l[j]  BY <2>1, <2>3
    <2>. QED  BY <1>1, <2>4
<1>. QED  BY <1>2, <1>3, <1>4

(* What was sent stays a listing while the contract holds the same slots. *)
LEMMA ListedStays ==
    ASSUME UNCHANGED <<held, answer>>, \E l \in Codec!Listings : answer = HonestAnswer(l)
    PROVE  (\E l \in Codec!Listings : answer = HonestAnswer(l))'
<1>1. Codec!Listings' = Codec!Listings  BY DEF Codec!Listings, Codec!Keys
<1>2. PICK l \in Codec!Listings : answer = HonestAnswer(l)  OBVIOUS
<1>3. HonestAnswer(l)' = HonestAnswer(l)  BY DEF HonestAnswer
<1>. QED  BY <1>1, <1>2, <1>3

(* Nothing is decoded of nothing, whatever the answer. *)
LEMMA NothingDecoded ==
    ASSUME slots = <<>>, seen = {}, verdict # "ok", answer.count \in Nat
    PROVE  DecodedSoFar
<1>1. slots \in Seq(EntriesOf(answer)) /\ Len(slots) = 0  BY EmptySeq
<1>. QED  BY <1>1 DEF DecodedSoFar

(* Nothing has been sent, nothing is decoded. *)
LEMMA CodecInitInv == Codec!CodecInit => CodecInv
<1>. SUFFICES ASSUME Codec!CodecInit PROVE CodecInv
    OBVIOUS
<1>1. /\ answer = [whole |-> TRUE, count |-> 0, entries |-> <<>>] /\ damaged = FALSE
      /\ verdict = "waiting" /\ seen = {} /\ slots = <<>>
      /\ held \in [Codec!Keys -> Updates \cup {Codec!NotHeld}]
    BY DEF Codec!CodecInit, Codec!NoAnswer
<1>. QED  BY <1>1, NothingDecoded DEF CodecInv, CodecTypeOK, SentIsListed

(* The contract sends one of its listings. *)
LEMMA AnswerSentInv == CodecInv /\ Codec!GetProviderStatus => CodecInv'
<1>. SUFFICES ASSUME CodecInv, Codec!GetProviderStatus PROVE CodecInv'
    OBVIOUS
<1>1. PICK l \in Codec!Listings : answer' = HonestAnswer(l)
    BY DEF Codec!GetProviderStatus, HonestAnswer
<1>2. /\ verdict = "waiting" /\ verdict' = "decoding" /\ UNCHANGED <<held, damaged, seen, slots>>
    BY DEF Codec!GetProviderStatus
<1>3. slots = <<>> /\ Len(slots) = 0 /\ seen = {} /\ ~damaged
    <2>1. slots = <<>> /\ ~damaged  BY <1>2 DEF CodecInv, SentIsListed
    <2>2. seen = {Codec!SlotBit(slots[i]) : i \in 1 .. Len(slots)}
        BY <1>2 DEF CodecInv, DecodedSoFar
    <2>. QED  BY <2>1, <2>2
<1>4. Len(l) \in Nat  BY ListingsAreComplete, HeldKeysFit
<1>5. CodecTypeOK'  BY <1>1, <1>2, <1>4 DEF CodecInv, CodecTypeOK, HonestAnswer
<1>6. DecodedSoFar'
    <2>1. slots' \in Seq(EntriesOf(answer)') /\ Len(slots') = 0  BY <1>2, <1>3, EmptySeq
    <2>. QED  BY <1>1, <1>2, <1>3, <1>4, <2>1 DEF DecodedSoFar, HonestAnswer
<1>7. SentIsListed'
    <2>1. l \in Codec!Listings' /\ answer' = HonestAnswer(l)'
        BY <1>1, <1>2 DEF Codec!Listings, HonestAnswer, Codec!Keys
    <2>. QED  BY <1>2, <2>1 DEF SentIsListed
<1>. QED  BY <1>5, <1>6, <1>7 DEF CodecInv

(* Damage comes before the first entry is decoded. *)
LEMMA DamageInv == CodecInv /\ Codec!Damage => CodecInv'
<1>. SUFFICES ASSUME CodecInv, Codec!Damage PROVE CodecInv'
    OBVIOUS
<1>1. /\ verdict = "decoding" /\ slots = <<>> /\ damaged' = TRUE
      /\ answer' \in Codec!Damages(answer) /\ UNCHANGED <<held, verdict, seen, slots>>
    BY DEF Codec!Damage
<1>2. /\ answer'.count \in Nat
      /\ answer' = [whole |-> answer'.whole, count |-> answer'.count, entries |-> answer'.entries]
    <2>1. /\ answer.count \in Nat /\ MaxSlots \in Nat
          /\ answer = [whole |-> answer.whole, count |-> answer.count, entries |-> answer.entries]
        BY AnswersAssumption DEF CodecInv, CodecTypeOK, Codec!CodecParameters
    <2>. QED  BY <1>1, <2>1 DEF Codec!Damages
<1>3. Len(slots) = 0  BY <1>1
<1>4. CodecTypeOK'  BY <1>1, <1>2 DEF CodecInv, CodecTypeOK
<1>5. DecodedSoFar'
    <2>1. seen = {}  BY <1>1, <1>3 DEF CodecInv, DecodedSoFar
    <2>2. slots' \in Seq(EntriesOf(answer)') /\ Len(slots') = 0  BY <1>1, EmptySeq
    <2>. QED  BY <1>1, <1>2, <2>1, <2>2 DEF DecodedSoFar
<1>. QED  BY <1>1, <1>4, <1>5 DEF CodecInv, SentIsListed

(* An entry that is taken continues the prefix; an honest one is taken,    *)
(* because its bit is new.                                                 *)
LEMMA DecodeSlotInv == CodecInv /\ Codec!DecodeSlot => CodecInv'
<1>. SUFFICES ASSUME CodecInv, Codec!DecodeSlot PROVE CodecInv'
    OBVIOUS
<1>. DEFINE n == Len(slots)
            entry == Codec!EntryAt(answer, n + 1)
<1>1. /\ verdict = "decoding" /\ n < answer.count /\ UNCHANGED <<held, answer, damaged>>
      /\ IF Codec!Admissible(entry)
         THEN /\ slots' = Append(slots, entry)
              /\ seen' = seen \cup {Codec!SlotBit(entry)}
              /\ UNCHANGED verdict
         ELSE Codec!Refuse
    BY DEF Codec!DecodeSlot
<1>2. n \in Nat /\ slots \in Seq(EntriesOf(answer)) /\ answer.count \in Nat
    <2>1. slots \in Seq(EntriesOf(answer)) /\ answer.count \in Nat
        BY <1>1 DEF CodecInv, CodecTypeOK, DecodedSoFar
    <2>. QED  BY <2>1, LenProperties
<1>3. /\ \A i \in 1 .. n : slots[i] = Codec!EntryAt(answer, i)
      /\ \A i, j \in 1 .. n : Codec!SlotBit(slots[i]) = Codec!SlotBit(slots[j]) => i = j
      /\ seen = {Codec!SlotBit(slots[i]) : i \in 1 .. n}
    BY <1>1 DEF CodecInv, DecodedSoFar
<1>4. ~damaged => Codec!Admissible(entry)
    <2>. SUFFICES ASSUME ~damaged PROVE Codec!Admissible(entry)
        OBVIOUS
    <2>1. PICK l \in Codec!Listings : answer = HonestAnswer(l)
        BY <1>1 DEF CodecInv, SentIsListed
    <2>2. n + 1 \in 1 .. Len(l)  BY <1>1, <1>2, <2>1, HonestEntries
    <2>3. /\ l[n + 1] \in Streams \X Tiers
          /\ entry = Codec!Entry(l[n + 1][1], l[n + 1][2], held[l[n + 1]], 0)
        BY <2>1, <2>2, HonestEntries DEF Codec!Keys
    <2>4. entry.stream <= 2 /\ entry.tier <= 9 /\ entry.contributed <= 1
        <3>1. /\ entry.stream = l[n + 1][1] /\ entry.tier = l[n + 1][2]
              /\ entry.contributed = 0
            BY <2>3 DEF Codec!Entry
        <3>2. l[n + 1][1] \in 0 .. 2 /\ l[n + 1][2] \in 0 .. 9
            BY <2>3, AnswersAssumption DEF Codec!CodecParameters
        <3>. QED  BY <3>1, <3>2
    <2>5. Codec!SlotBit(entry) \notin seen
        <3>. SUFFICES ASSUME NEW i \in 1 .. n, Codec!SlotBit(entry) = Codec!SlotBit(slots[i])
                      PROVE  FALSE
            BY <1>3
        <3>1. i \in 1 .. Len(l) /\ i # n + 1  BY <1>2, <2>2
        <3>2. Codec!SlotBit(Codec!EntryAt(answer, i)) = Codec!SlotBit(Codec!EntryAt(answer, n + 1))
            BY <1>3
        <3>. QED  BY <2>1, <2>2, <3>1, <3>2, HonestEntries
    <2>. QED  BY <2>4, <2>5 DEF Codec!Admissible
<1>5. CASE Codec!Admissible(entry)
    <2>1. entry \in EntriesOf(answer)  BY <1>2 DEF EntriesOf
    <2>2. /\ slots' \in Seq(EntriesOf(answer)) /\ Len(slots') = n + 1
          /\ \A i \in 1 .. n : slots'[i] = slots[i]
          /\ slots'[n + 1] = entry
        BY <1>1, <1>2, <1>5, <2>1, AppendProperties
    <2>3. /\ seen' = seen \cup {Codec!SlotBit(entry)} /\ Codec!SlotBit(entry) \notin seen
          /\ UNCHANGED <<held, answer, damaged, verdict>>
        BY <1>1, <1>5 DEF Codec!Admissible
    <2>4. \A i \in 1 .. n + 1 : i = n + 1 \/ i \in 1 .. n  BY <1>2
    <2>5. \A i \in 1 .. n : Codec!SlotBit(slots[i]) \in seen  BY <1>3
    <2>6. \A i, j \in 1 .. n + 1 :
              Codec!SlotBit(slots'[i]) = Codec!SlotBit(slots'[j]) => i = j
        BY <1>3, <2>2, <2>3, <2>4, <2>5
    <2>7. seen' = {Codec!SlotBit(slots'[i]) : i \in 1 .. n + 1}
        BY <1>2, <1>3, <2>2, <2>3, <2>4
    <2>8. \A i \in 1 .. n + 1 : slots'[i] = Codec!EntryAt(answer, i)  BY <1>3, <2>2, <2>4
    <2>9. DecodedSoFar'
        BY <1>1, <1>2, <2>2, <2>3, <2>6, <2>7, <2>8
           DEF DecodedSoFar, EntriesOf, Codec!EntryAt, Codec!SlotBit
    <2>10. CodecTypeOK'  BY <2>3 DEF CodecInv, CodecTypeOK
    <2>11. SentIsListed'
        BY <1>1, <2>3, ListedStays DEF CodecInv, SentIsListed
    <2>. QED  BY <2>9, <2>10, <2>11 DEF CodecInv
<1>6. CASE ~Codec!Admissible(entry)
    <2>1. damaged /\ verdict' = "refused" /\ UNCHANGED <<held, answer, damaged>>
        BY <1>1, <1>4, <1>6 DEF Codec!Refuse
    <2>. QED  BY <2>1 DEF CodecInv, CodecTypeOK, DecodedSoFar, SentIsListed
<1>. QED  BY <1>5, <1>6

(* Decoding ends with every entry, or with a size that is wrong. *)
LEMMA DecodeEndsInv == CodecInv /\ Codec!DecodeEnds => CodecInv'
<1>. SUFFICES ASSUME CodecInv, Codec!DecodeEnds PROVE CodecInv'
    OBVIOUS
<1>1. verdict = "decoding" /\ UNCHANGED <<held, answer, damaged>>  BY DEF Codec!DecodeEnds
<1>2. CASE ~Codec!WellSized /\ Codec!Refuse
    <2>1. damaged
        <3>. SUFFICES ASSUME ~damaged PROVE FALSE
            BY DEF CodecInv, CodecTypeOK
        <3>1. PICK l \in Codec!Listings : answer = HonestAnswer(l)
            BY <1>1 DEF CodecInv, SentIsListed
        <3>. QED  BY <1>2, <3>1, HonestEntries DEF Codec!WellSized
    <2>. QED  BY <1>1, <1>2, <2>1 DEF Codec!Refuse, CodecInv, CodecTypeOK, DecodedSoFar, SentIsListed
<1>3. CASE Len(slots) = answer.count /\ verdict' = "ok" /\ UNCHANGED <<seen, slots>>
    <2>1. CodecTypeOK'  BY <1>1, <1>3 DEF CodecInv, CodecTypeOK
    <2>2. DecodedSoFar'
        BY <1>1, <1>3 DEF CodecInv, DecodedSoFar, EntriesOf, Codec!EntryAt, Codec!SlotBit
    <2>3. SentIsListed'
        BY <1>1, <1>3, ListedStays DEF CodecInv, SentIsListed
    <2>. QED  BY <2>1, <2>2, <2>3 DEF CodecInv
<1>. QED  BY <1>2, <1>3 DEF Codec!DecodeEnds

(* Every step of an answer and of its decoding. *)
LEMMA CodecNextInv == CodecInv /\ [Codec!CodecNext]_status => CodecInv'
<1>. SUFFICES ASSUME CodecInv, [Codec!CodecNext]_status PROVE CodecInv'
    OBVIOUS
<1>1. CASE UNCHANGED status
    <2>1. UNCHANGED <<held, answer, damaged, verdict, seen, slots>>  BY <1>1 DEF status
    <2>2. CodecTypeOK'  BY <2>1 DEF CodecInv, CodecTypeOK, Codec!Keys
    <2>3. DecodedSoFar'
        BY <2>1 DEF CodecInv, DecodedSoFar, EntriesOf, Codec!EntryAt, Codec!SlotBit
    <2>4. SentIsListed'  BY <2>1, ListedStays DEF CodecInv, SentIsListed
    <2>. QED  BY <2>2, <2>3, <2>4 DEF CodecInv
<1>2. CASE Codec!CodecDone  BY <1>1, <1>2 DEF Codec!CodecDone, Codec!codecVars, status
<1>. QED  BY <1>1, <1>2, AnswerSentInv, DamageInv, DecodeSlotInv, DecodeEndsInv DEF Codec!CodecNext

(* Looking up the key of a decoded entry finds that entry. *)
LEMMA LookupFinds ==
    ASSUME CodecInv, verdict = "ok", NEW i \in 1 .. Len(slots)
    PROVE  Codec!Slot(<<slots[i].stream, slots[i].tier>>) = slots[i].updated
<1>. DEFINE key == <<slots[i].stream, slots[i].tier>>
            found == {j \in DOMAIN slots : <<slots[j].stream, slots[j].tier>> = key}
<1>1. DOMAIN slots = 1 .. Len(slots) /\ Len(slots) \in Nat
    BY LenProperties DEF CodecInv, DecodedSoFar
<1>2. \A j \in 1 .. Len(slots) : <<slots[j].stream, slots[j].tier>> = key => j = i
    BY DEF CodecInv, DecodedSoFar, Codec!SlotBit
<1>3. found = {i}  BY <1>1, <1>2
<1>4. (CHOOSE k \in found : \A j \in found : k <= j) = i  BY <1>1, <1>3
<1>. QED  BY <1>3, <1>4 DEF Codec!Slot

(* An honest answer is read in full, and every entry is found by its key. *)
LEMMA CodecIsTrue == CodecInv => Codec!HonestStatusIsRead /\ Codec!EveryEntryIsFound
<1>. SUFFICES ASSUME CodecInv PROVE Codec!HonestStatusIsRead /\ Codec!EveryEntryIsFound
    OBVIOUS
<1>1. Codec!EveryEntryIsFound
    BY LookupFinds DEF Codec!EveryEntryIsFound, CodecInv, DecodedSoFar
<1>2. ~damaged => verdict # "refused"  BY DEF CodecInv, SentIsListed
<1>3. ASSUME ~damaged, verdict = "ok", NEW key \in Codec!Keys PROVE Codec!Slot(key) = held[key]
    <2>1. PICK l \in Codec!Listings : answer = HonestAnswer(l)
        BY <1>3 DEF CodecInv, SentIsListed
    <2>2. Len(slots) = Len(l) /\ DOMAIN slots = 1 .. Len(l)
        <3>1. Len(slots) = answer.count /\ slots \in Seq(EntriesOf(answer))
            BY <1>3 DEF CodecInv, DecodedSoFar
        <3>. QED  BY <2>1, <3>1, HonestEntries, LenProperties
    <2>3. \A i \in 1 .. Len(l) :
              /\ slots[i].stream = l[i][1] /\ slots[i].tier = l[i][2]
              /\ slots[i].updated = held[l[i]]
              /\ l[i] \in Codec!Keys /\ l[i] = <<slots[i].stream, slots[i].tier>>
        BY <1>3, <2>1, <2>2, HonestEntries DEF CodecInv, DecodedSoFar, Codec!Entry, Codec!Keys
    <2>4. CASE held[key] = Codec!NotHeld
        <3>1. \A i \in 1 .. Len(l) : l[i] \in HeldKeys  BY ListingsAreComplete
        <3>2. {i \in DOMAIN slots : <<slots[i].stream, slots[i].tier>> = key} = {}
            <4>. SUFFICES ASSUME NEW i \in DOMAIN slots, <<slots[i].stream, slots[i].tier>> = key
                          PROVE  FALSE
                OBVIOUS
            <4>1. i \in 1 .. Len(l) /\ l[i] = key  BY <2>2, <2>3
            <4>. QED  BY <2>4, <3>1, <4>1 DEF HeldKeys
        <3>. QED  BY <2>4, <3>2 DEF Codec!Slot
    <2>5. CASE held[key] # Codec!NotHeld
        <3>1. key \in HeldKeys  BY <1>3, <2>5 DEF HeldKeys
        <3>2. PICK i \in 1 .. Len(l) : l[i] = key  BY <3>1, ListingsAreComplete
        <3>. QED  BY <1>3, <2>2, <2>3, <3>2, LookupFinds
    <2>. QED  BY <2>4, <2>5
<1>. QED  BY <1>1, <1>2, <1>3 DEF Codec!HonestStatusIsRead

-----------------------------------------------------------------------------
(* One status response after the other *)

(* A response as the history keeps it. *)
Responses == [seen : Watch!OptTicks, requested : Watch!Ticks]

(* What a slot looks like until it is frozen: only the state, the latest   *)
(* confirmation and the suspicion ever change.                             *)
Planned ==
    [state : {Watch!Starting(FirstTarget), Watch!Active},
     chain : [first : {FirstTarget}, last : {LastTarget},
              confirmed : Watch!SignedTargets \cup {Watch!NoTick},
              suspicion : Watch!Suspicion, preimage : {LastTarget},
              calls : {Watch!WatchedSlot.chain.calls}],
     restartAt : {0}]

(* A response r says what the evidence e stands for. *)
Says(r, e) ==
    \/ e.kind = "Absent" /\ r.seen = Watch!NoTick
    \/ e.kind = "Foreign" /\ ~Watch!Owned(r) /\ r.seen # Watch!NoTick /\ e.tick = r.seen
    \/ e.kind = "Lag" /\ Watch!Owned(r) /\ e.tick = r.seen + Watch!STREAM_COUNT

(* The latest confirmation is a target that a response acknowledged. *)
Acknowledged(confirmed, h) ==
    confirmed # Watch!NoTick =>
        \E i \in 1 .. Len(h) : Watch!Owned(h[i]) /\ h[i].seen = confirmed

(* No response acknowledged more than the latest confirmation. *)
Watermarked(confirmed, h) ==
    \A i \in 1 .. Len(h) :
        Watch!Owned(h[i]) => confirmed # Watch!NoTick /\ h[i].seen <= confirmed

(* A suspicion of one or two confirmations rests on as many responses with *)
(* no progress since the first of them.                                    *)
Grounded(s, h) ==
    /\ s.confirmations \in 0 .. 2
    /\ s.confirmations = 0 => s = Watch!NoSuspicion
    /\ s.confirmations = 1 =>
          \E i \in 1 .. Len(h) :
              /\ Says(h[i], s.evidence) /\ h[i].requested = s.lastRequested
              /\ \A m \in i + 1 .. Len(h) : ~Watch!Advances(h, m)
    /\ s.confirmations = 2 =>
          \E i, j \in 1 .. Len(h) :
              /\ i < j /\ h[i].requested < h[j].requested
              /\ Watch!SameEvidence(h[i], h[j])
              /\ Says(h[j], s.evidence) /\ h[j].requested = s.lastRequested
              /\ \A m \in i + 1 .. Len(h) : ~Watch!Advances(h, m)

(* A response that is news and tells against the chain. *)
News(h, m) == Watch!Fresh(h, m) /\ Watch!TellsAgainst(h, m)

(* One, and two in a row, with all quiet since.                            *)
OneSaid(h, i) == News(h, i) /\ Watch!QuietBetween(h, i, Len(h) + 1)

TwoSaid(h, i, j) ==
    /\ i < j /\ News(h, i) /\ Watch!QuietBetween(h, i, j)
    /\ Watch!SameEvidence(h[i], h[j]) /\ OneSaid(h, j)

NoRow(h) == \A i, j, k \in 1 .. Len(h) : ~Watch!ThreeInARow(h, i, j, k)

(* What tells against the chain counts: one response is in the suspicion,  *)
(* with two it has two confirmations.                                      *)
Counts(s, h) ==
    /\ \A i \in 1 .. Len(h) :
          OneSaid(h, i) => /\ s.confirmations >= 1
                           /\ Says(h[i], s.evidence) /\ s.lastRequested = h[i].requested
    /\ \A i, j \in 1 .. Len(h) : TwoSaid(h, i, j) => s.confirmations >= 2

(* What the history says for the slot: its suspicion is grounded, what     *)
(* tells against the chain counts, no three in a row do, and a freeze has  *)
(* three responses against the chain.                                      *)
Justified(sl, h) ==
    /\ Watch!IsPlanned(sl) =>
          /\ sl \in Planned
          /\ Acknowledged(sl.chain.confirmed, h) /\ Watermarked(sl.chain.confirmed, h)
          /\ Grounded(sl.chain.suspicion, h)
          /\ Counts(sl.chain.suspicion, h) /\ NoRow(h)
    /\ Watch!Tag(sl) = "Restarting" =>
          \E i, j \in 1 .. Len(h) : Watch!ThreeAgainst(h, i, j, Len(h))

WatchInv == history \in Seq(Responses) /\ Justified(slot, history)

(* Ticks are numbers, and none of them is NoTick. *)
LEMMA WatchConstants ==
    /\ FirstTarget \in Int /\ LastTarget \in Int /\ FirstTarget >= 0
    /\ FirstTarget # Watch!NoTick
    /\ \A t \in Watch!SignedTargets : t \in Int /\ t >= 0 /\ t # Watch!NoTick
    /\ \A t \in Watch!Ticks : t \in Int /\ t >= 0 /\ t # Watch!NoTick
    /\ SeenTicks \subseteq Watch!Ticks /\ RequestTicks \subseteq Watch!Ticks
BY AnswersAssumption DEF Watch!WatchParameters, Watch!Ticks, Watch!NoTick, Watch!SignedTargets

(* A fresh chain is not acknowledged and not suspected. *)
LEMMA WatchInitInv == Watch!WatchInit => WatchInv
<1>. SUFFICES ASSUME Watch!WatchInit PROVE WatchInv
    OBVIOUS
<1>1. slot = Watch!WatchedSlot /\ history = <<>>  BY DEF Watch!WatchInit
<1>2. Watch!NoSuspicion \in Watch!Suspicion
    BY DEF Watch!NoSuspicion, Watch!Suspicion, Watch!NoEvidence, Watch!Evidence, Watch!OptTicks,
           Watch!STATUS_CONFIRMATIONS_REQUIRED
<1>3. /\ slot.state = Watch!Starting(FirstTarget) /\ slot.restartAt = 0
      /\ slot.chain = [first |-> FirstTarget, last |-> LastTarget, confirmed |-> Watch!NoTick,
                       suspicion |-> Watch!NoSuspicion, preimage |-> LastTarget,
                       calls |-> Watch!WatchedSlot.chain.calls]
      /\ slot = [state |-> slot.state, chain |-> slot.chain, restartAt |-> 0]
    BY <1>1 DEF Watch!WatchedSlot, Watch!NoChain
<1>4. slot \in Planned  BY <1>2, <1>3 DEF Planned
<1>5. Watch!Tag(slot) = "Starting"  BY <1>3 DEF Watch!Tag, Watch!Starting, Watch!Waiting
<1>6. history \in Seq(Responses) /\ Len(history) = 0  BY <1>1, EmptySeq
<1>7. Acknowledged(slot.chain.confirmed, history)  BY <1>3 DEF Acknowledged
<1>8. Grounded(slot.chain.suspicion, history)  BY <1>3 DEF Grounded, Watch!NoSuspicion
<1>9. Counts(slot.chain.suspicion, history) /\ NoRow(history)
        /\ Watermarked(slot.chain.confirmed, history)
    BY <1>6 DEF Counts, NoRow, Watermarked
<1>. QED  BY <1>4, <1>5, <1>6, <1>7, <1>8, <1>9 DEF WatchInv, Justified

(* Evidence that agrees comes from responses that say the same. *)
LEMMA AgreementIsSameness ==
    ASSUME NEW a \in Responses, NEW b \in Responses, NEW e, NEW f,
           Says(a, e), Says(b, f), Watch!AgreesWith(e, f)
    PROVE  Watch!SameEvidence(a, b)
BY WatchConstants DEF Responses, Says, Watch!AgreesWith, Watch!SameEvidence, Watch!OptTicks,
   Watch!STREAM_COUNT, Watch!Owned

(* Responses that say the same are evidence that agrees.                   *)
LEMMA SamenessIsAgreement ==
    ASSUME NEW a \in Responses, NEW b \in Responses, NEW e, NEW f,
           Says(a, e), Says(b, f), Watch!SameEvidence(a, b)
    PROVE  Watch!AgreesWith(e, f)
BY WatchConstants DEF Responses, Says, Watch!AgreesWith, Watch!SameEvidence, Watch!OptTicks,
   Watch!STREAM_COUNT, Watch!Owned

(* A further response changes nothing about the earlier ones. *)
LEMMA HistoryGrows ==
    ASSUME NEW h \in Seq(Responses), NEW r \in Responses
    PROVE  LET g == Append(h, r) IN
           /\ g \in Seq(Responses) /\ Len(g) = Len(h) + 1 /\ Len(h) \in Nat
           /\ \A i \in 1 .. Len(h) : g[i] = h[i] /\ g[i] \in Responses
           /\ g[Len(h) + 1] = r
           /\ \A i \in 1 .. Len(h) : Watch!Advances(g, i) <=> Watch!Advances(h, i)
           /\ \A i \in 1 .. Len(h) : News(g, i) <=> News(h, i)
<1>. DEFINE g == Append(h, r)
<1>1. /\ g \in Seq(Responses) /\ Len(g) = Len(h) + 1 /\ Len(h) \in Nat
      /\ \A i \in 1 .. Len(h) : g[i] = h[i] /\ h[i] \in Responses
      /\ g[Len(h) + 1] = r
    BY AppendProperties, LenProperties, ElementOfSeq
<1>. HIDE DEF g
<1>2. ASSUME NEW i \in 1 .. Len(h) PROVE \A j \in 1 .. i - 1 : j \in 1 .. Len(h)
    BY <1>1
<1>3. ASSUME NEW i \in 1 .. Len(h) PROVE Watch!Advances(g, i) <=> Watch!Advances(h, i)
    BY <1>1, <1>2 DEF Watch!Advances
<1>4. ASSUME NEW i \in 1 .. Len(h) PROVE News(g, i) <=> News(h, i)
    <2>1. Watch!Fresh(g, i) <=> Watch!Fresh(h, i)  BY <1>1, <1>2 DEF Watch!Fresh
    <2>2. Watch!TellsAgainst(g, i) <=> Watch!TellsAgainst(h, i)
        BY <1>1, <1>2 DEF Watch!TellsAgainst
    <2>. QED  BY <2>1, <2>2 DEF News
<1>. QED  BY <1>1, <1>3, <1>4 DEF g

(* A response that acknowledges no more than the watermark is no progress. *)
LEMMA NoProgress ==
    ASSUME NEW h \in Seq(Responses), NEW r \in Responses, NEW confirmed,
           Acknowledged(confirmed, h),
           Watch!Owned(r) => confirmed # Watch!NoTick /\ r.seen <= confirmed
    PROVE  ~Watch!Advances(Append(h, r), Len(h) + 1)
<1>. DEFINE g == Append(h, r)
<1>1. /\ Len(h) \in Nat /\ g[Len(h) + 1] = r
      /\ \A i \in 1 .. Len(h) : g[i] = h[i]
    BY HistoryGrows
<1>. HIDE DEF g
<1>2. CASE ~Watch!Owned(r)  BY <1>1, <1>2 DEF Watch!Advances, g
<1>3. CASE Watch!Owned(r)
    <2>1. PICK i \in 1 .. Len(h) : Watch!Owned(h[i]) /\ h[i].seen = confirmed
        BY <1>3 DEF Acknowledged
    <2>2. i \in 1 .. (Len(h) + 1) - 1 /\ Watch!Owned(g[i]) /\ ~(g[i].seen < r.seen)
        <3>1. r.seen \in Int /\ confirmed \in Int
            BY <1>3, <2>1, WatchConstants DEF Watch!Owned
        <3>. QED  BY <1>1, <1>3, <2>1, <3>1
    <2>. QED  BY <1>1, <2>2 DEF Watch!Advances, g
<1>. QED  BY <1>2, <1>3

(* A response that is no progress leaves the witnesses of a suspicion as   *)
(* they are.                                                               *)
LEMMA GroundsStay ==
    ASSUME NEW h \in Seq(Responses), NEW r \in Responses, NEW s, Grounded(s, h),
           s.confirmations > 0 => ~Watch!Advances(Append(h, r), Len(h) + 1)
    PROVE  Grounded(s, Append(h, r))
<1>. DEFINE g == Append(h, r)
<1>1. /\ Len(g) = Len(h) + 1 /\ Len(h) \in Nat
      /\ \A i \in 1 .. Len(h) : g[i] = h[i]
      /\ \A i \in 1 .. Len(h) : Watch!Advances(g, i) <=> Watch!Advances(h, i)
    BY HistoryGrows
<1>2. s.confirmations > 0 => ~Watch!Advances(g, Len(g))  BY <1>1
<1>. HIDE DEF g
<1>3. ASSUME NEW i \in 1 .. Len(h), \A m \in i + 1 .. Len(h) : ~Watch!Advances(h, m),
             s.confirmations > 0
      PROVE  \A m \in i + 1 .. Len(g) : ~Watch!Advances(g, m)
    BY <1>1, <1>2, <1>3
<1>4. \A i \in 1 .. Len(h) : i \in 1 .. Len(g)  BY <1>1
<1>5. ASSUME s.confirmations = 1
      PROVE  \E i \in 1 .. Len(g) :
                 /\ Says(g[i], s.evidence) /\ g[i].requested = s.lastRequested
                 /\ \A m \in i + 1 .. Len(g) : ~Watch!Advances(g, m)
    BY <1>1, <1>3, <1>4, <1>5 DEF Grounded
<1>6. ASSUME s.confirmations = 2
      PROVE  \E i, j \in 1 .. Len(g) :
                 /\ i < j /\ g[i].requested < g[j].requested
                 /\ Watch!SameEvidence(g[i], g[j])
                 /\ Says(g[j], s.evidence) /\ g[j].requested = s.lastRequested
                 /\ \A m \in i + 1 .. Len(g) : ~Watch!Advances(g, m)
    BY <1>1, <1>3, <1>4, <1>6 DEF Grounded
<1>. QED  BY <1>5, <1>6 DEF Grounded, g

(* What a step of the suspicion rests on, before and after. *)
LEMMA ObservationIsGrounded ==
    ASSUME NEW h \in Seq(Responses), NEW r \in Responses, NEW s, NEW e,
           Grounded(s, h), s.lastRequested \in Int, s.lastRequested < r.requested, Says(r, e),
           s.confirmations > 0 => ~Watch!Advances(Append(h, r), Len(h) + 1)
    PROVE  LET g == Append(h, r)
               next == Watch!ObserveEvidence(s, e, r.requested)
           IN  /\ ~Watch!IsConfirmed(next) => Grounded(next, g)
               /\ Watch!IsConfirmed(next) =>
                      \E i, j \in 1 .. Len(g) : Watch!ThreeAgainst(g, i, j, Len(g))
<1>. DEFINE g == Append(h, r)
            next == Watch!ObserveEvidence(s, e, r.requested)
            n == Len(g)
<1>1. /\ n = Len(h) + 1 /\ Len(h) \in Nat /\ g[n] = r
      /\ \A i \in 1 .. Len(h) : g[i] = h[i] /\ h[i] \in Responses
      /\ \A i \in 1 .. Len(h) : Watch!Advances(g, i) <=> Watch!Advances(h, i)
    BY HistoryGrows
<1>2. r.requested \in Int /\ ~(r.requested <= s.lastRequested)
    BY WatchConstants DEF Responses
<1>3. s.confirmations \in 0 .. 2  BY DEF Grounded
<1>4. s.confirmations > 0 => ~Watch!Advances(g, n)  BY <1>1
<1>5. n \in 1 .. n /\ (\A i \in 1 .. Len(h) : i \in 1 .. n /\ i < n)  BY <1>1
<1>. HIDE DEF g, n
<1>6. ASSUME NEW i \in 1 .. Len(h), \A m \in i + 1 .. Len(h) : ~Watch!Advances(h, m),
             s.confirmations > 0
      PROVE  \A m \in i + 1 .. n : ~Watch!Advances(g, m)
    BY <1>1, <1>4, <1>6
<1>7. CASE ~Watch!AgreesWith(s.evidence, e)
    <2>1. next = [evidence |-> e, confirmations |-> 1, lastRequested |-> r.requested]
        BY <1>2, <1>7 DEF Watch!ObserveEvidence, Watch!Outdated, Watch!NewSuspicion
    <2>2. \A m \in n + 1 .. n : ~Watch!Advances(g, m)  BY <1>1
    <2>3. Says(g[n], e) /\ g[n].requested = r.requested  BY <1>1
    <2>4. Grounded(next, g)  BY <1>5, <2>1, <2>2, <2>3 DEF Grounded, n
    <2>5. ~Watch!IsConfirmed(next)
        BY <2>1 DEF Watch!IsConfirmed, Watch!STATUS_CONFIRMATIONS_REQUIRED
    <2>. QED  BY <2>4, <2>5 DEF g
<1>8. CASE Watch!AgreesWith(s.evidence, e)
    <2>1. s.confirmations # 0
        <3>1. SUFFICES ASSUME s = Watch!NoSuspicion PROVE FALSE  BY DEF Grounded
        <3>2. s.evidence.kind = "None"  BY <3>1 DEF Watch!NoSuspicion, Watch!NoEvidence
        <3>. QED  BY <1>8, <3>2 DEF Watch!AgreesWith
    <2>2. next = [evidence |-> e, confirmations |-> s.confirmations + 1,
                  lastRequested |-> r.requested]
        BY <1>2, <1>3, <1>8
           DEF Watch!ObserveEvidence, Watch!Outdated, Watch!MinOf,
               Watch!STATUS_CONFIRMATIONS_REQUIRED
    <2>3. CASE s.confirmations = 1
        <3>1. PICK i \in 1 .. Len(h) :
                  /\ Says(h[i], s.evidence) /\ h[i].requested = s.lastRequested
                  /\ \A m \in i + 1 .. Len(h) : ~Watch!Advances(h, m)
            BY <2>3 DEF Grounded
        <3>2. Watch!SameEvidence(g[i], g[n]) /\ g[i].requested < g[n].requested
            BY <1>1, <1>8, <3>1, AgreementIsSameness
        <3>3. \A m \in n + 1 .. n : ~Watch!Advances(g, m)  BY <1>1
        <3>4. Says(g[n], e) /\ g[n].requested = r.requested  BY <1>1
        <3>5. i \in 1 .. n /\ n \in 1 .. n /\ i < n  BY <1>5
        <3>6. \A m \in i + 1 .. n : ~Watch!Advances(g, m)  BY <1>6, <2>3, <3>1
        <3>7. next.confirmations = 2 /\ next.evidence = e /\ next.lastRequested = r.requested
            BY <2>2, <2>3
        <3>8. Grounded(next, g)  BY <3>2, <3>4, <3>5, <3>6, <3>7 DEF Grounded, n
        <3>9. ~Watch!IsConfirmed(next)
            BY <3>7 DEF Watch!IsConfirmed, Watch!STATUS_CONFIRMATIONS_REQUIRED
        <3>. QED  BY <3>8, <3>9 DEF g
    <2>4. CASE s.confirmations = 2
        <3>1. PICK i \in 1 .. Len(h), j \in 1 .. Len(h) :
                  /\ i < j /\ h[i].requested < h[j].requested
                  /\ Watch!SameEvidence(h[i], h[j])
                  /\ Says(h[j], s.evidence) /\ h[j].requested = s.lastRequested
                  /\ \A m \in i + 1 .. Len(h) : ~Watch!Advances(h, m)
            BY <2>4 DEF Grounded
        <3>2. Watch!SameEvidence(g[j], g[n]) /\ g[j].requested < g[n].requested
            BY <1>1, <1>8, <3>1, AgreementIsSameness
        <3>3. Watch!SameEvidence(g[i], g[j]) /\ g[i].requested < g[j].requested
            BY <1>1, <3>1
        <3>4. i < j /\ j < n /\ i \in 1 .. n /\ j \in 1 .. n  BY <1>5, <3>1
        <3>5. \A m \in i + 1 .. n : ~Watch!Advances(g, m)  BY <1>6, <2>4, <3>1
        <3>6. Watch!ThreeAgainst(g, i, j, n)  BY <3>2, <3>3, <3>4, <3>5 DEF Watch!ThreeAgainst
        <3>7. Watch!IsConfirmed(next)
            BY <2>2, <2>4 DEF Watch!IsConfirmed, Watch!STATUS_CONFIRMATIONS_REQUIRED
        <3>. QED  BY <3>4, <3>6, <3>7 DEF g, n
    <2>. QED  BY <1>3, <2>1, <2>3, <2>4
<1>. QED  BY <1>7, <1>8

(* What a further response leaves of what was said before it.              *)
LEMMA SaidBefore ==
    ASSUME NEW h \in Seq(Responses), NEW r \in Responses, NEW i \in 1 .. Len(h),
           OneSaid(Append(h, r), i)
    PROVE  /\ OneSaid(h, i) /\ r.requested <= h[i].requested
           /\ ~Watch!Advances(Append(h, r), Len(h) + 1)
<1>. DEFINE g == Append(h, r)
<1>1. /\ Len(g) = Len(h) + 1 /\ Len(h) \in Nat /\ g[Len(h) + 1] = r
      /\ \A m \in 1 .. Len(h) : /\ g[m] = h[m]
                                /\ Watch!Advances(g, m) <=> Watch!Advances(h, m)
                                /\ News(g, m) <=> News(h, m)
    BY HistoryGrows
<1>. HIDE DEF g
<1>2. News(g, i) /\ Watch!QuietBetween(g, i, Len(h) + 1 + 1)  BY <1>1 DEF OneSaid, g
<1>3. \A m \in i + 1 .. Len(h) + 1 :
          g[m].requested <= g[i].requested /\ ~Watch!Advances(g, m)
    BY <1>1, <1>2 DEF Watch!QuietBetween
<1>4. Len(h) + 1 \in i + 1 .. Len(h) + 1
      /\ \A m \in i + 1 .. Len(h) : m \in 1 .. Len(h) /\ m \in i + 1 .. Len(h) + 1
    BY <1>1
<1>5. News(h, i)  BY <1>1, <1>2
<1>6. Watch!QuietBetween(h, i, Len(h) + 1)
    BY <1>1, <1>3, <1>4 DEF Watch!QuietBetween
<1>. QED  BY <1>1, <1>3, <1>4, <1>5, <1>6 DEF OneSaid, g

(* The same of a pair before it, and what a pair or a row that ends with   *)
(* it makes of the responses before.                                       *)
LEMMA RowsBefore ==
    ASSUME NEW h \in Seq(Responses), NEW r \in Responses,
           NEW i \in 1 .. Len(h), NEW j \in 1 .. Len(h)
    PROVE  LET g == Append(h, r)
               n == Len(h) + 1
           IN  /\ TwoSaid(g, i, j) => TwoSaid(h, i, j)
               /\ TwoSaid(g, i, n) => OneSaid(h, i) /\ Watch!SameEvidence(h[i], r)
               /\ Watch!ThreeInARow(g, i, j, n) =>
                     /\ TwoSaid(h, i, j) /\ OneSaid(h, j)
                     /\ Watch!SameEvidence(h[j], r) /\ News(g, n)
               /\ \A k \in 1 .. Len(h) :
                     Watch!ThreeInARow(g, i, j, k) => Watch!ThreeInARow(h, i, j, k)
<1>. DEFINE g == Append(h, r)
            n == Len(h) + 1
<1>1. /\ Len(g) = n /\ Len(h) \in Nat /\ g[n] = r
      /\ \A m \in 1 .. Len(h) : /\ g[m] = h[m]
                                /\ Watch!Advances(g, m) <=> Watch!Advances(h, m)
                                /\ News(g, m) <=> News(h, m)
    BY HistoryGrows
<1>. HIDE DEF g
<1>2. ASSUME NEW a \in 1 .. Len(h), NEW b \in 1 .. n
      PROVE  Watch!QuietBetween(g, a, b) <=> Watch!QuietBetween(h, a, b)
    <2>1. \A m \in a + 1 .. b - 1 : m \in 1 .. Len(h)  BY <1>1
    <2>. QED  BY <1>1, <2>1 DEF Watch!QuietBetween
<1>3. /\ i \in 1 .. n /\ j \in 1 .. n /\ n \in 1 .. n
    BY <1>1
<1>4. ASSUME TwoSaid(g, i, j) PROVE TwoSaid(h, i, j)
    <2>1. /\ i < j /\ News(g, i) /\ Watch!QuietBetween(g, i, j)
          /\ Watch!SameEvidence(g[i], g[j]) /\ OneSaid(g, j)
        BY <1>4 DEF TwoSaid
    <2>2. OneSaid(h, j)  BY <2>1, SaidBefore DEF g
    <2>. QED  BY <1>1, <1>2, <1>3, <2>1, <2>2 DEF TwoSaid
<1>5. ASSUME TwoSaid(g, i, n) PROVE OneSaid(h, i) /\ Watch!SameEvidence(h[i], r)
    BY <1>1, <1>2, <1>3, <1>5 DEF TwoSaid, OneSaid, n
<1>6. ASSUME Watch!ThreeInARow(g, i, j, n)
      PROVE  /\ TwoSaid(h, i, j) /\ OneSaid(h, j)
             /\ Watch!SameEvidence(h[j], r) /\ News(g, n)
    <2>1. /\ i < j /\ News(g, i) /\ News(g, j) /\ News(g, n)
          /\ Watch!SameEvidence(g[i], g[j]) /\ Watch!SameEvidence(g[j], g[n])
          /\ Watch!QuietBetween(g, i, j) /\ Watch!QuietBetween(g, j, n)
        BY <1>6 DEF Watch!ThreeInARow, News
    <2>2. OneSaid(h, j)  BY <1>1, <1>2, <1>3, <2>1 DEF OneSaid, n
    <2>3. TwoSaid(h, i, j)  BY <1>1, <1>2, <1>3, <2>1, <2>2 DEF TwoSaid
    <2>. QED  BY <1>1, <2>1, <2>2, <2>3
<1>7. ASSUME NEW k \in 1 .. Len(h), Watch!ThreeInARow(g, i, j, k)
      PROVE  Watch!ThreeInARow(h, i, j, k)
    <2>1. /\ i < j /\ j < k /\ News(g, i) /\ News(g, j) /\ News(g, k)
          /\ Watch!SameEvidence(g[i], g[j]) /\ Watch!SameEvidence(g[j], g[k])
          /\ Watch!QuietBetween(g, i, j) /\ Watch!QuietBetween(g, j, k)
        BY <1>7 DEF Watch!ThreeInARow, News
    <2>2. k \in 1 .. n  BY <1>1
    <2>3. News(h, i) /\ News(h, j) /\ News(h, k)  BY <1>1, <2>1
    <2>. QED  BY <1>1, <1>2, <1>3, <2>1, <2>2, <2>3 DEF Watch!ThreeInARow, News
<1>. QED  BY <1>4, <1>5, <1>6, <1>7 DEF g, n

(* A response that is not news against the chain completes no row, and a   *)
(* suspicion it leaves as it is still counts what was said.                *)
LEMMA OldNewsKeeps ==
    ASSUME NEW h \in Seq(Responses), NEW r \in Responses,
           ~News(Append(h, r), Len(h) + 1), NoRow(h)
    PROVE  /\ NoRow(Append(h, r))
           /\ \A s : Counts(s, h) => Counts(s, Append(h, r))
           /\ \A s : (\A i \in 1 .. Len(h) : ~OneSaid(Append(h, r), i)) =>
                         Counts(s, Append(h, r))
<1>. DEFINE g == Append(h, r)
            n == Len(h) + 1
<1>1. /\ Len(g) = n /\ Len(h) \in Nat
      /\ \A m \in 1 .. Len(h) : g[m] = h[m]
    BY HistoryGrows
<1>. HIDE DEF g
<1>2. ~News(g, n)  BY DEF g, n
<1>3. \A m \in 1 .. Len(g) : m # n => m \in 1 .. Len(h)  BY <1>1
<1>4. ASSUME NEW i \in 1 .. Len(g), OneSaid(g, i) PROVE i \in 1 .. Len(h) /\ OneSaid(h, i)
    <2>1. i # n  BY <1>2, <1>4 DEF OneSaid
    <2>. QED  BY <1>3, <1>4, <2>1, SaidBefore DEF g
<1>5. ASSUME NEW i \in 1 .. Len(g), NEW j \in 1 .. Len(g), TwoSaid(g, i, j)
      PROVE  i \in 1 .. Len(h) /\ j \in 1 .. Len(h) /\ TwoSaid(h, i, j) /\ OneSaid(g, j)
    <2>1. i # n /\ j # n /\ OneSaid(g, j)  BY <1>2, <1>5 DEF TwoSaid, OneSaid
    <2>2. i \in 1 .. Len(h) /\ j \in 1 .. Len(h)  BY <1>3, <2>1
    <2>. QED  BY <1>5, <2>1, <2>2, RowsBefore DEF g
<1>6. NoRow(g)
    <2>. SUFFICES ASSUME NEW i \in 1 .. Len(g), NEW j \in 1 .. Len(g), NEW k \in 1 .. Len(g),
                         Watch!ThreeInARow(g, i, j, k)
                  PROVE  FALSE
        BY DEF NoRow
    <2>1. News(g, i) /\ News(g, j) /\ News(g, k)  BY DEF Watch!ThreeInARow, News
    <2>2. i \in 1 .. Len(h) /\ j \in 1 .. Len(h) /\ k \in 1 .. Len(h)
        BY <1>2, <1>3, <2>1
    <2>3. Watch!ThreeInARow(h, i, j, k)  BY <2>2, RowsBefore DEF g
    <2>. QED  BY <2>2, <2>3 DEF NoRow
<1>7. ASSUME NEW s, Counts(s, h) PROVE Counts(s, g)
    BY <1>1, <1>4, <1>5, <1>7 DEF Counts
<1>8. ASSUME NEW s, \A i \in 1 .. Len(h) : ~OneSaid(g, i) PROVE Counts(s, g)
    BY <1>4, <1>5, <1>8 DEF Counts
<1>. QED  BY <1>6, <1>7, <1>8 DEF g

(* News was requested later than what the suspicion rests on. *)
LEMMA NewsIsLater ==
    ASSUME NEW h \in Seq(Responses), NEW r \in Responses, NEW s,
           Grounded(s, h), News(Append(h, r), Len(h) + 1)
    PROVE  s.lastRequested < r.requested
<1>1. /\ Len(h) \in Nat /\ Append(h, r)[Len(h) + 1] = r
      /\ \A i \in 1 .. Len(h) : Append(h, r)[i] = h[i] /\ h[i] \in Responses
    BY HistoryGrows
<1>2. \A i \in 1 .. Len(h) : h[i].requested < r.requested
    BY <1>1 DEF News, Watch!Fresh
<1>3. r.requested \in Int /\ r.requested >= 0  BY WatchConstants DEF Responses
<1>4. s.confirmations \in 0 .. 2  BY DEF Grounded
<1>5. \A i \in 1 .. Len(h) : h[i].requested \in Int
    BY <1>1, WatchConstants DEF Responses
<1>6. CASE s.confirmations = 0
    BY <1>3, <1>6 DEF Grounded, Watch!NoSuspicion, Watch!NoTick
<1>7. CASE s.confirmations = 1  BY <1>2, <1>3, <1>5, <1>7 DEF Grounded
<1>8. CASE s.confirmations = 2  BY <1>2, <1>3, <1>5, <1>8 DEF Grounded
<1>. QED  BY <1>4, <1>6, <1>7, <1>8

(* A response that is later than the suspicion is counted in the next one, *)
(* and with the third of a row that is confirmed.                          *)
LEMMA LaterAnswersAddUp ==
    ASSUME NEW h \in Seq(Responses), NEW r \in Responses, NEW s, NEW e,
           Grounded(s, h), NoRow(h), Says(r, e),
           Counts(s, h) \/ Watch!Advances(Append(h, r), Len(h) + 1),
           s.lastRequested \in Int, s.lastRequested < r.requested
    PROVE  LET next == Watch!ObserveEvidence(s, e, r.requested) IN
           /\ Counts(next, Append(h, r))
           /\ ~Watch!IsConfirmed(next) => NoRow(Append(h, r))
<1>. DEFINE g == Append(h, r)
            n == Len(h) + 1
            next == Watch!ObserveEvidence(s, e, r.requested)
<1>1. /\ Len(g) = n /\ Len(h) \in Nat /\ g[n] = r /\ n \in 1 .. n
      /\ \A i \in 1 .. Len(h) : g[i] = h[i] /\ h[i] \in Responses
    BY HistoryGrows
<1>. HIDE DEF g
<1>2. \A m \in 1 .. Len(g) : m # n => m \in 1 .. Len(h)  BY <1>1
<1>3. r.requested \in Int /\ ~(r.requested <= s.lastRequested)
    BY WatchConstants DEF Responses
<1>4. s.confirmations \in 0 .. 2  BY DEF Grounded
<1>5. /\ next.evidence = e /\ next.lastRequested = r.requested /\ next.confirmations >= 1
      /\ Watch!AgreesWith(s.evidence, e) => next.confirmations = s.confirmations + 1
    BY <1>3, <1>4 DEF Watch!ObserveEvidence, Watch!Outdated, Watch!NewSuspicion, Watch!MinOf,
                      Watch!STATUS_CONFIRMATIONS_REQUIRED
<1>6. ASSUME NEW i \in 1 .. Len(h), OneSaid(h, i), Watch!SameEvidence(h[i], r)
      PROVE  /\ Counts(s, h) /\ s.confirmations >= 1
             /\ next.confirmations = s.confirmations + 1
    <2>1. ~Watch!Advances(g, n)
        <3>1. CASE Watch!Owned(r)
            <4>1. Watch!Owned(h[i]) /\ h[i].seen = r.seen
                BY <1>6, <3>1, WatchConstants DEF Watch!SameEvidence, Watch!Owned
            <4>2. r.seen \in Int /\ i \in 1 .. n - 1
                BY <1>1, <3>1, WatchConstants DEF Watch!Owned
            <4>. QED  BY <1>1, <4>1, <4>2 DEF Watch!Advances
        <3>2. CASE ~Watch!Owned(r)  BY <1>1, <3>2 DEF Watch!Advances
        <3>. QED  BY <3>1, <3>2
    <2>2. Counts(s, h)  BY <2>1 DEF g, n
    <2>3. s.confirmations >= 1 /\ Says(h[i], s.evidence)  BY <1>6, <2>2 DEF Counts
    <2>4. Watch!AgreesWith(s.evidence, e)  BY <1>1, <1>6, <2>3, SamenessIsAgreement
    <2>. QED  BY <1>5, <2>2, <2>3, <2>4
<1>. HIDE DEF next
<1>7. ASSUME NEW i \in 1 .. Len(h) PROVE ~OneSaid(g, i)
    <2>. SUFFICES ASSUME OneSaid(g, i) PROVE FALSE  OBVIOUS
    <2>1. OneSaid(h, i) /\ r.requested <= h[i].requested /\ ~Watch!Advances(g, n)
        BY SaidBefore DEF g, n
    <2>2. s.lastRequested = h[i].requested  BY <2>1 DEF Counts, g, n
    <2>. QED  BY <1>3, <2>1, <2>2
<1>8. Counts(next, g)
    <2>1. ASSUME NEW i \in 1 .. Len(g), OneSaid(g, i)
          PROVE  /\ next.confirmations >= 1
                 /\ Says(g[i], next.evidence) /\ next.lastRequested = g[i].requested
        <3>1. i = n  BY <1>2, <1>7, <2>1
        <3>. QED  BY <1>1, <1>5, <3>1
    <2>2. ASSUME NEW i \in 1 .. Len(g), NEW j \in 1 .. Len(g), TwoSaid(g, i, j)
          PROVE  next.confirmations >= 2
        <3>1. i < j /\ OneSaid(g, j)  BY <2>2 DEF TwoSaid
        <3>2. j = n  BY <1>2, <1>7, <3>1
        <3>3. i \in 1 .. Len(h)  BY <1>1, <3>1, <3>2
        <3>4. OneSaid(h, i) /\ Watch!SameEvidence(h[i], r)
            BY <2>2, <3>2, <3>3, RowsBefore DEF g, n
        <3>. QED  BY <1>4, <1>6, <3>3, <3>4
    <2>. QED  BY <2>1, <2>2 DEF Counts
<1>9. ASSUME ~Watch!IsConfirmed(next) PROVE NoRow(g)
    <2>. SUFFICES ASSUME NEW i \in 1 .. Len(g), NEW j \in 1 .. Len(g), NEW k \in 1 .. Len(g),
                         Watch!ThreeInARow(g, i, j, k)
                  PROVE  FALSE
        BY DEF NoRow
    <2>1. i < j /\ j < k  BY DEF Watch!ThreeInARow
    <2>2. i \in 1 .. Len(h) /\ j \in 1 .. Len(h)  BY <1>1, <2>1
    <2>3. CASE k \in 1 .. Len(h)
        <3>1. Watch!ThreeInARow(h, i, j, k)  BY <2>2, <2>3, RowsBefore DEF g
        <3>. QED  BY <2>2, <2>3, <3>1 DEF NoRow
    <2>4. CASE k = n
        <3>1. TwoSaid(h, i, j) /\ OneSaid(h, j) /\ Watch!SameEvidence(h[j], r)
            BY <2>2, <2>4, RowsBefore DEF g, n
        <3>2. Counts(s, h) /\ next.confirmations = s.confirmations + 1
            BY <1>6, <2>2, <3>1
        <3>3. s.confirmations >= 2  BY <2>2, <3>1, <3>2 DEF Counts
        <3>. QED  BY <1>4, <1>9, <3>2, <3>3
                  DEF Watch!IsConfirmed, Watch!STATUS_CONFIRMATIONS_REQUIRED
    <2>. QED  BY <1>2, <2>3, <2>4
<1>. QED  BY <1>8, <1>9 DEF g, next

(* What was acknowledged stays so, and a response acknowledges what it saw. *)
LEMMA AcknowledgedStays ==
    ASSUME NEW h \in Seq(Responses), NEW r \in Responses, NEW c
    PROVE  /\ Acknowledged(c, h) => Acknowledged(c, Append(h, r))
           /\ Watch!Owned(r) => Acknowledged(r.seen, Append(h, r))
           /\ Watermarked(c, h) /\ (Watch!Owned(r) => c # Watch!NoTick /\ r.seen <= c) =>
                  Watermarked(c, Append(h, r))
           /\ Watermarked(c, h) /\ Watch!Owned(r)
                 /\ c \in Watch!SignedTargets \cup {Watch!NoTick} /\ ~(r.seen < c) =>
                  Watermarked(r.seen, Append(h, r))
<1>. DEFINE g == Append(h, r)
<1>1. /\ Len(g) = Len(h) + 1 /\ Len(h) \in Nat /\ g[Len(h) + 1] = r
      /\ \A i \in 1 .. Len(h) : g[i] = h[i]
    BY HistoryGrows
<1>. HIDE DEF g
<1>2. Len(h) + 1 \in 1 .. Len(g) /\ \A i \in 1 .. Len(h) : i \in 1 .. Len(g)
    BY <1>1
<1>3. \A m \in 1 .. Len(g) : m # Len(h) + 1 => m \in 1 .. Len(h)  BY <1>1
<1>4. ASSUME Watermarked(c, h), Watch!Owned(r) => c # Watch!NoTick /\ r.seen <= c
      PROVE  Watermarked(c, g)
    BY <1>1, <1>3, <1>4 DEF Watermarked
<1>5. ASSUME Watermarked(c, h), Watch!Owned(r),
             c \in Watch!SignedTargets \cup {Watch!NoTick}, ~(r.seen < c)
      PROVE  Watermarked(r.seen, g)
    <2>1. r.seen \in Int /\ r.seen # Watch!NoTick /\ c \in Int
        BY <1>5, WatchConstants DEF Watch!Owned, Watch!NoTick
    <2>. SUFFICES ASSUME NEW i \in 1 .. Len(g), Watch!Owned(g[i]) PROVE g[i].seen <= r.seen
        BY <2>1 DEF Watermarked
    <2>2. CASE i = Len(h) + 1  BY <1>1, <2>1, <2>2
    <2>3. CASE i # Len(h) + 1
        <3>1. Watch!Owned(h[i]) /\ h[i].seen <= c /\ g[i].seen = h[i].seen
            BY <1>1, <1>3, <1>5, <2>3 DEF Watermarked
        <3>2. h[i].seen \in Int  BY <3>1, WatchConstants DEF Watch!Owned
        <3>. QED  BY <1>5, <2>1, <3>1, <3>2
    <2>. QED  BY <2>2, <2>3
<1>. QED  BY <1>1, <1>2, <1>4, <1>5 DEF Acknowledged, g

(* What is fixed while a chain is planned. *)
LEMMA PlannedSlot ==
    ASSUME NEW sl \in Planned
    PROVE  /\ Watch!IsPlanned(sl) /\ Watch!HasChain(sl) /\ Watch!Tag(sl) \in {"Starting", "Active"}
           /\ Watch!Tag(sl) = "Starting" => sl.state.at = FirstTarget
           /\ sl.chain.suspicion \in Watch!Suspicion
           /\ sl.chain.first = FirstTarget /\ sl.chain.last = LastTarget
           /\ \A t \in Watch!Ticks : Watch!OwnsTarget(sl.chain, t) <=> t \in Watch!SignedTargets
<1>1. /\ sl.state \in {Watch!Starting(FirstTarget), Watch!Active}
      /\ sl.chain.first = FirstTarget /\ sl.chain.last = LastTarget
      /\ sl.chain.suspicion \in Watch!Suspicion
    BY DEF Planned
<1>2. /\ Watch!Tag(sl) \in {"Starting", "Active"}
      /\ Watch!Tag(sl) = "Starting" => sl.state.at = FirstTarget
    BY <1>1 DEF Watch!Tag, Watch!Starting, Watch!Active, Watch!Waiting
<1>3. \A t \in Watch!Ticks : Watch!OwnsTarget(sl.chain, t) <=> t \in Watch!SignedTargets
    BY <1>1, WatchConstants DEF Watch!OwnsTarget, Watch!SignedTargets
<1>. QED  BY <1>1, <1>2, <1>3, WatchConstants DEF Watch!IsPlanned, Watch!HasChain

(* Beyond the latest due target, or the last tick, no target is due. *)
LEMMA NothingDue ==
    ASSUME NEW sl \in Planned, NEW seenTick \in Watch!SignedTargets,
           NEW requested \in Watch!Ticks,
           \/ seenTick >= Watch!LatestTargetBefore(sl.chain, requested)
           \/ Watch!CheckedAdd(seenTick, Watch!STREAM_COUNT) = Watch!NoTick
    PROVE  ~ \E due \in Watch!SignedTargets : seenTick < due /\ due < requested
<1>. SUFFICES ASSUME NEW due \in Watch!SignedTargets, seenTick < due, due < requested
              PROVE  FALSE
    OBVIOUS
<1>1. /\ due \in FirstTarget .. LastTarget /\ (due - FirstTarget) % 3 = 0
      /\ seenTick \in FirstTarget .. LastTarget /\ (seenTick - FirstTarget) % 3 = 0
      /\ FirstTarget \in Int /\ LastTarget \in Int /\ FirstTarget >= 0
      /\ LastTarget <= MaxTick /\ MaxTick \in Int /\ requested \in Int
    BY AnswersAssumption, WatchConstants
       DEF Watch!SignedTargets, Watch!STREAM_COUNT, Watch!WatchParameters, Watch!Ticks
<1>2. CASE seenTick >= Watch!LatestTargetBefore(sl.chain, requested)
    <2>. DEFINE upper == Watch!MinOf(requested - 1, LastTarget)
    <2>1. upper \in Int /\ due <= upper  BY <1>1 DEF Watch!MinOf
    <2>. HIDE DEF upper
    <2>2. Watch!LatestTargetBefore(sl.chain, requested)
              = FirstTarget + ((upper - FirstTarget) \div 3) * 3
        BY <1>1, <2>1, PlannedSlot DEF Watch!LatestTargetBefore, Watch!STREAM_COUNT, upper
    <2>3. FirstTarget + ((upper - FirstTarget) \div 3) * 3 >= due  BY <1>1, <2>1
    <2>. QED  BY <1>1, <1>2, <2>1, <2>2, <2>3
<1>3. CASE Watch!CheckedAdd(seenTick, Watch!STREAM_COUNT) = Watch!NoTick
    <2>1. seenTick + 3 > MaxTick
        BY <1>1, <1>3 DEF Watch!CheckedAdd, Watch!STREAM_COUNT, Watch!NoTick
    <2>. QED  BY <1>1, <2>1
<1>. QED  BY <1>2, <1>3

(* The slot with another suspicion. *)
LEMMA SuspicionReplaced ==
    ASSUME NEW sl \in Planned, NEW next \in Watch!Suspicion
    PROVE  LET t == [sl EXCEPT !.chain.suspicion = next] IN
           /\ t \in Planned /\ t.state = sl.state /\ t.chain.last = sl.chain.last
           /\ t.chain.suspicion = next /\ t.chain.confirmed = sl.chain.confirmed
<1>. DEFINE changed == [sl.chain EXCEPT !.suspicion = next]
            t == [sl EXCEPT !.chain.suspicion = next]
<1>1. t = [sl EXCEPT !.chain = changed]
    BY DEF Planned
<1>2. /\ changed \in [first : {FirstTarget}, last : {LastTarget},
                   confirmed : Watch!SignedTargets \cup {Watch!NoTick},
                   suspicion : Watch!Suspicion, preimage : {LastTarget},
                   calls : {Watch!WatchedSlot.chain.calls}]
      /\ changed.suspicion = next /\ changed.confirmed = sl.chain.confirmed
      /\ changed.last = sl.chain.last
    BY DEF Planned
<1>. HIDE DEF changed
<1>. QED  BY <1>1, <1>2 DEF Planned

(* The next suspicion is one. *)
LEMMA ObservedType ==
    ASSUME NEW s \in Watch!Suspicion, NEW e \in Watch!Evidence, NEW requested \in Watch!Ticks
    PROVE  Watch!ObserveEvidence(s, e, requested) \in Watch!Suspicion
BY DEF Watch!ObserveEvidence, Watch!NewSuspicion, Watch!Suspicion, Watch!OptTicks, Watch!MinOf,
       Watch!STATUS_CONFIRMATIONS_REQUIRED

(* What begin_status_restart leaves is frozen or, past the last tick, ended. *)
LEMMA RestartIsFrozen ==
    ASSUME NEW sl \in Planned, NEW after, NEW observed
    PROVE  LET t == Watch!BeginStatusRestart(sl, after, observed) IN
           Watch!Tag(t) \in {"Restarting", "Drained"} /\ ~Watch!IsPlanned(t)
<1>. DEFINE t == Watch!BeginStatusRestart(sl, after, observed)
            tail == sl.chain.last
            frozen == [sl EXCEPT !.restartAt = tail + Watch!STREAM_COUNT,
                                 !.state = Watch!Restarting(tail, after, observed, "None")]
<1>1. t \in {Watch!ExhaustedSlot, frozen}
    BY PlannedSlot DEF Watch!BeginStatusRestart
<1>2. Watch!Tag(Watch!ExhaustedSlot) = "Drained"
    BY DEF Watch!Tag, Watch!ExhaustedSlot, Watch!Drained, Watch!Waiting
<1>3. Watch!Tag(frozen) = "Restarting"
    BY DEF Watch!Tag, Watch!Restarting, Watch!Waiting, Planned
<1>. HIDE DEF t, frozen
<1>. QED  BY <1>1, <1>2, <1>3 DEF Watch!IsPlanned, t

(* Evidence against the chain keeps it justified, or freezes it on three   *)
(* responses.                                                              *)
LEMMA ObservationKeeps ==
    ASSUME NEW h \in Seq(Responses), NEW r \in Responses, NEW sl \in Planned,
           NEW e \in Watch!Evidence, Says(r, e),
           Acknowledged(sl.chain.confirmed, Append(h, r)),
           Watermarked(sl.chain.confirmed, Append(h, r)),
           Grounded(sl.chain.suspicion, h), NoRow(h),
           Counts(sl.chain.suspicion, h) \/ Watch!Advances(Append(h, r), Len(h) + 1),
           sl.chain.suspicion.confirmations > 0 => ~Watch!Advances(Append(h, r), Len(h) + 1)
    PROVE  Justified(Watch!ObserveStatusEvidence(sl, e, r.requested).slot, Append(h, r))
<1>. DEFINE g == Append(h, r)
            s == sl.chain.suspicion
            next == Watch!ObserveEvidence(s, e, r.requested)
            suspected == [sl EXCEPT !.chain.suspicion = next]
            observed == Watch!ObserveStatusEvidence(sl, e, r.requested)
            absent == e.kind = "Absent"
            after == IF absent THEN r.requested ELSE Watch!SaturatingAdd(r.requested, 1)
            restarted == Watch!BeginStatusRestart(suspected, after, absent)
<1>1. s \in Watch!Suspicion /\ s.lastRequested \in Int /\ r.requested \in Watch!Ticks
      /\ r.requested \in Int
    BY PlannedSlot, WatchConstants DEF Watch!Suspicion, Watch!OptTicks, Watch!NoTick, Responses
<1>2. next \in Watch!Suspicion  BY <1>1, ObservedType
<1>3. /\ suspected \in Planned /\ suspected.chain.suspicion = next
      /\ suspected.chain.confirmed = sl.chain.confirmed
    BY <1>2, SuspicionReplaced
<1>4. /\ r.requested <= s.lastRequested => observed.slot = sl
      /\ ~(r.requested <= s.lastRequested) /\ ~Watch!IsConfirmed(next) => observed.slot = suspected
      /\ ~(r.requested <= s.lastRequested) /\ Watch!IsConfirmed(next) => observed.slot = restarted
    BY PlannedSlot DEF Watch!ObserveStatusEvidence, Watch!Outdated, Watch!Result
<1>5. ASSUME r.requested <= s.lastRequested PROVE Counts(s, g) /\ NoRow(g)
    <2>1. ~News(g, Len(h) + 1)
        <3>1. ~(s.lastRequested < r.requested)  BY <1>1, <1>5
        <3>. QED  BY <3>1, NewsIsLater
    <2>2. s.confirmations > 0
        <3>1. r.requested >= 0  BY <1>1 DEF Watch!Ticks
        <3>2. s # Watch!NoSuspicion
            BY <1>1, <1>5, <3>1 DEF Watch!NoSuspicion, Watch!NoTick
        <3>. QED  BY <3>2 DEF Grounded
    <2>3. Counts(s, h)  BY <2>2
    <2>. QED  BY <2>1, <2>3, OldNewsKeeps
<1>6. ASSUME ~(r.requested <= s.lastRequested)
      PROVE  Counts(next, g) /\ (~Watch!IsConfirmed(next) => NoRow(g))
    <2>1. s.lastRequested < r.requested  BY <1>1, <1>6
    <2>. QED  BY <1>1, <2>1, LaterAnswersAddUp
<1>7. Grounded(s, g)  BY GroundsStay
<1>8. ASSUME ~(r.requested <= s.lastRequested)
      PROVE  /\ ~Watch!IsConfirmed(next) => Grounded(next, g)
             /\ Watch!IsConfirmed(next) =>
                    \E i, j \in 1 .. Len(g) : Watch!ThreeAgainst(g, i, j, Len(g))
    <2>1. s.lastRequested < r.requested  BY <1>1, <1>8
    <2>. QED  BY <1>1, <2>1, ObservationIsGrounded
<1>. HIDE DEF g, s, next, suspected, observed, after, absent
<1>9. Watch!Tag(restarted) \in {"Restarting", "Drained"} /\ ~Watch!IsPlanned(restarted)
    BY <1>3, RestartIsFrozen
<1>10. CASE r.requested <= s.lastRequested
    BY <1>4, <1>5, <1>7, <1>10, PlannedSlot DEF Justified, s, g, observed
<1>. HIDE DEF restarted
<1>11. CASE ~(r.requested <= s.lastRequested) /\ ~Watch!IsConfirmed(next)
    BY <1>3, <1>4, <1>6, <1>8, <1>11, PlannedSlot DEF Justified, g, observed
<1>12. CASE ~(r.requested <= s.lastRequested) /\ Watch!IsConfirmed(next)
    BY <1>4, <1>8, <1>9, <1>12 DEF Justified, g, observed
<1>. QED  BY <1>10, <1>11, <1>12

(* An acknowledgement keeps the chain justified: progress clears what was  *)
(* held against it, and a lag behind the expected target counts against it. *)
LEMMA WatermarkKeeps ==
    ASSUME NEW h \in Seq(Responses), NEW r \in Responses, NEW sl \in Planned,
           Justified(sl, h), Watch!Owned(r)
    PROVE  Justified(Watch!ApplyConfirmationWatermark(sl, r.seen, r.requested).slot,
                     Append(h, r))
<1>. DEFINE g == Append(h, r)
            old == sl.chain
            advanced == old.confirmed # r.seen
            current == IF advanced
                       THEN [old EXCEPT !.confirmed = r.seen, !.suspicion = Watch!NoSuspicion]
                       ELSE old
            calm == [current EXCEPT !.suspicion = Watch!NoSuspicion]
            unsuspected == [sl EXCEPT !.chain = calm]
            moved == [sl EXCEPT !.chain = current]
            late == r.seen + Watch!STREAM_COUNT
            observed == Watch!ObserveStatusEvidence(moved, Watch!Lag(late), r.requested)
            marked == Watch!ApplyConfirmationWatermark(sl, r.seen, r.requested)
            newer == /\ ~(r.seen < old.confirmed)
                     /\ advanced \/ ~(r.requested <= old.suspicion.lastRequested)
<1>1. /\ r.seen \in Watch!SignedTargets /\ r.seen \in Int /\ r.seen >= 0
      /\ r.seen # Watch!NoTick
    BY WatchConstants DEF Watch!Owned
<1>2. /\ Acknowledged(old.confirmed, h) /\ Grounded(old.suspicion, h)
      /\ Acknowledged(old.confirmed, g) /\ Acknowledged(r.seen, g)
    BY PlannedSlot, AcknowledgedStays DEF Justified
<1>3. /\ Watermarked(old.confirmed, h) /\ Counts(old.suspicion, h) /\ NoRow(h)
      /\ old.confirmed \in Watch!SignedTargets \cup {Watch!NoTick} /\ old.confirmed \in Int
    BY PlannedSlot, WatchConstants DEF Justified, Planned, Watch!NoTick
<1>4. /\ ~(r.seen < old.confirmed) => Watermarked(r.seen, g)
      /\ r.seen < old.confirmed => Watermarked(old.confirmed, g)
    BY <1>1, <1>3, AcknowledgedStays DEF Watch!NoTick
<1>5. Watch!NoSuspicion \in Watch!Suspicion /\ \A f : Grounded(Watch!NoSuspicion, f)
    BY DEF Watch!NoSuspicion, Watch!Suspicion, Watch!NoEvidence, Watch!Evidence, Watch!OptTicks,
           Watch!STATUS_CONFIRMATIONS_REQUIRED, Grounded
<1>6. /\ current.confirmed = r.seen /\ calm.confirmed = r.seen
      /\ calm.suspicion = Watch!NoSuspicion
      /\ advanced => current.suspicion = Watch!NoSuspicion
      /\ ~advanced => current = old
      /\ unsuspected \in Planned /\ unsuspected.chain = calm
      /\ moved \in Planned /\ moved.chain = current
    BY <1>1, <1>5 DEF Planned
<1>7. \/ marked = Watch!Result(sl, {}) /\ r.seen < old.confirmed
      \/ /\ marked = Watch!Result(sl, {}) /\ ~(r.seen < old.confirmed)
         /\ ~advanced /\ r.requested <= old.suspicion.lastRequested
      \/ /\ marked = Watch!Result(unsuspected, {}) /\ newer
         /\ r.seen >= Watch!LatestTargetBefore(current, r.requested)
      \/ /\ marked = Watch!Result(moved, {}) /\ newer
         /\ Watch!CheckedAdd(r.seen, Watch!STREAM_COUNT) = Watch!NoTick
      \/ /\ marked = observed /\ newer
         /\ Watch!CheckedAdd(r.seen, Watch!STREAM_COUNT) # Watch!NoTick
    BY PlannedSlot
       DEF Watch!ApplyConfirmationWatermark, Watch!Repeated, Watch!Outdated
<1>8. ASSUME r.seen < old.confirmed \/ ~advanced
      PROVE  ~Watch!Advances(g, Len(h) + 1) /\ Grounded(old.suspicion, g)
    <2>1. old.confirmed # Watch!NoTick /\ r.seen <= old.confirmed
        <3>1. old.confirmed \in Watch!SignedTargets \cup {Watch!NoTick}  BY DEF Planned
        <3>2. old.confirmed \in Int  BY <3>1, WatchConstants DEF Watch!NoTick
        <3>. QED  BY <1>1, <1>8, <3>2 DEF Watch!NoTick
    <2>2. ~Watch!Advances(g, Len(h) + 1)  BY <1>2, <2>1, NoProgress
    <2>. QED  BY <1>2, <2>2, GroundsStay
<1>. HIDE DEF current, calm, unsuspected, moved
<1>9. /\ Grounded(moved.chain.suspicion, h) /\ Grounded(moved.chain.suspicion, g)
      /\ moved.chain.suspicion.confirmations > 0 => ~Watch!Advances(g, Len(h) + 1)
      /\ moved.chain.confirmed = r.seen
    <2>1. CASE advanced
        <3>1. Watch!NoSuspicion.confirmations = 0  BY DEF Watch!NoSuspicion
        <3>. QED  BY <1>5, <1>6, <2>1, <3>1
    <2>2. CASE ~advanced
        <3>1. moved.chain = old  BY <1>6, <2>2
        <3>. QED  BY <1>2, <1>6, <1>8, <2>2, <3>1
    <2>. QED  BY <2>1, <2>2
<1>. HIDE DEF g, marked
<1>10. ASSUME newer, advanced PROVE Watch!Advances(g, Len(h) + 1)
    <2>. SUFFICES ASSUME NEW i \in 1 .. Len(h), Watch!Owned(h[i]) PROVE h[i].seen < r.seen
        BY HistoryGrows DEF Watch!Advances, g
    <2>1. h[i].seen <= old.confirmed /\ h[i].seen \in Int
        BY <1>3, WatchConstants DEF Watermarked, Watch!Owned
    <2>. QED  BY <1>1, <1>3, <1>10, <2>1
<1>11. ASSUME newer PROVE \A i \in 1 .. Len(h) : ~OneSaid(g, i)
    <2>. SUFFICES ASSUME NEW i \in 1 .. Len(h), OneSaid(g, i) PROVE FALSE  OBVIOUS
    <2>1. OneSaid(h, i) /\ r.requested <= h[i].requested /\ ~Watch!Advances(g, Len(h) + 1)
        BY SaidBefore DEF g
    <2>2. ~(r.requested <= old.suspicion.lastRequested)  BY <1>10, <1>11, <2>1
    <2>3. old.suspicion.lastRequested = h[i].requested  BY <1>3, <2>1 DEF Counts
    <2>. QED  BY <2>1, <2>2, <2>3
<1>12. ASSUME newer, Watch!CheckedAdd(r.seen, Watch!STREAM_COUNT) # Watch!NoTick
       PROVE  Justified(observed.slot, g)
    <2>1. Watch!Lag(late) \in Watch!Evidence /\ Says(r, Watch!Lag(late))
        <3>1. late \in Watch!Ticks
            BY <1>1, <1>12, AnswersAssumption
               DEF Watch!CheckedAdd, Watch!STREAM_COUNT, Watch!Ticks, Watch!WatchParameters
        <3>. QED  BY <3>1 DEF Watch!Lag, Watch!Evidence, Watch!OptTicks, Says
    <2>2. Counts(moved.chain.suspicion, h) \/ Watch!Advances(g, Len(h) + 1)
        <3>1. CASE advanced  BY <1>10, <1>12, <3>1
        <3>2. CASE ~advanced
            <4>1. moved.chain = old  BY <1>6, <3>2
            <4>. QED  BY <1>3, <4>1
        <3>. QED  BY <3>1, <3>2
    <2>3. Watermarked(moved.chain.confirmed, g)  BY <1>4, <1>9, <1>12
    <2>. QED  BY <1>2, <1>3, <1>6, <1>9, <2>1, <2>2, <2>3, ObservationKeeps DEF g
<1>13. ASSUME \/ r.seen >= Watch!LatestTargetBefore(current, r.requested)
              \/ Watch!CheckedAdd(r.seen, Watch!STREAM_COUNT) = Watch!NoTick
       PROVE  ~News(g, Len(h) + 1)
    <2>1. r.requested \in Watch!Ticks  BY DEF Responses
    <2>2. ~ \E due \in Watch!SignedTargets : r.seen < due /\ due < r.requested
        BY <1>1, <1>6, <1>13, <2>1, NothingDue
    <2>. QED  BY <2>2, HistoryGrows DEF News, Watch!TellsAgainst, g
<1>14. ASSUME newer, r.seen >= Watch!LatestTargetBefore(current, r.requested)
       PROVE  Justified(unsuspected, g)
    <2>1. NoRow(g) /\ Counts(Watch!NoSuspicion, g)
        BY <1>3, <1>11, <1>13, <1>14, OldNewsKeeps DEF g
    <2>. QED  BY <1>2, <1>4, <1>5, <1>6, <1>14, <2>1, PlannedSlot DEF Justified
<1>15. ASSUME newer, Watch!CheckedAdd(r.seen, Watch!STREAM_COUNT) = Watch!NoTick
       PROVE  Justified(moved, g)
    <2>1. NoRow(g) /\ Counts(moved.chain.suspicion, g)
        BY <1>3, <1>11, <1>13, <1>15, OldNewsKeeps DEF g
    <2>. QED  BY <1>2, <1>4, <1>6, <1>9, <1>15, <2>1, PlannedSlot DEF Justified
<1>16. ASSUME \/ r.seen < old.confirmed
              \/ /\ ~(r.seen < old.confirmed) /\ ~advanced
                 /\ r.requested <= old.suspicion.lastRequested
       PROVE  Justified(sl, g)
    <2>1. ~News(g, Len(h) + 1)
        <3>1. CASE r.seen < old.confirmed
            <4>1. old.confirmed # Watch!NoTick  BY <1>1, <3>1 DEF Watch!NoTick
            <4>2. PICK i \in 1 .. Len(h) : Watch!Owned(h[i]) /\ h[i].seen = old.confirmed
                BY <1>2, <4>1 DEF Acknowledged
            <4>3. i \in 1 .. (Len(h) + 1) - 1 /\ ~(h[i].seen <= r.seen)
                BY <1>1, <1>3, <3>1, <4>2, HistoryGrows
            <4>. QED  BY <4>2, <4>3, HistoryGrows DEF News, Watch!TellsAgainst, g
        <3>2. CASE r.requested <= old.suspicion.lastRequested
            <4>1. old.suspicion.lastRequested \in Int /\ r.requested \in Int
                BY PlannedSlot, WatchConstants
                   DEF Watch!Suspicion, Watch!OptTicks, Watch!NoTick, Responses
            <4>2. ~(old.suspicion.lastRequested < r.requested)  BY <3>2, <4>1
            <4>. QED  BY <1>2, <4>2, NewsIsLater DEF g
        <3>. QED  BY <1>16, <3>1, <3>2
    <2>2. NoRow(g) /\ Counts(old.suspicion, g)  BY <1>3, <2>1, OldNewsKeeps DEF g
    <2>3. Watermarked(old.confirmed, g)  BY <1>4, <1>16
    <2>4. Grounded(old.suspicion, g)  BY <1>8, <1>16
    <2>. QED  BY <1>2, <2>2, <2>3, <2>4, PlannedSlot DEF Justified
<1>. QED
    <2>1. \A x : Watch!Result(x, {}).slot = x  BY DEF Watch!Result
    <2>. HIDE DEF observed, newer, advanced
    <2>2. Justified(marked.slot, g)  BY <1>7, <1>12, <1>14, <1>15, <1>16, <2>1
    <2>. QED  BY <2>2 DEF marked, g

(* apply_status on a planned slot. *)
LEMMA ApplyStatusKeeps ==
    ASSUME NEW h \in Seq(Responses), NEW r \in Responses, NEW sl \in Planned, Justified(sl, h)
    PROVE  Justified(Watch!ApplyStatus(sl, r.seen, r.requested).slot, Append(h, r))
<1>. DEFINE g == Append(h, r)
            owned == Watch!HasChain(sl) /\ r.seen # Watch!NoTick
                        /\ Watch!OwnsTarget(sl.chain, r.seen)
            evidence == IF r.seen = Watch!NoTick THEN Watch!Absent ELSE Watch!Foreign(r.seen)
            activated == [sl EXCEPT !.state = Watch!Active]
            applied == Watch!ApplyStatus(sl, r.seen, r.requested)
<1>1. r.seen \in Watch!Ticks \cup {Watch!NoTick} /\ r.requested \in Watch!Ticks
    BY DEF Responses, Watch!OptTicks
<1>2. owned <=> Watch!Owned(r)
    BY <1>1, PlannedSlot, WatchConstants DEF Watch!Owned
<1>3. /\ Acknowledged(sl.chain.confirmed, h) /\ Grounded(sl.chain.suspicion, h)
      /\ Counts(sl.chain.suspicion, h) /\ NoRow(h)
      /\ Acknowledged(sl.chain.confirmed, g) /\ Watermarked(sl.chain.confirmed, h)
      /\ ~Watch!Owned(r) => Watermarked(sl.chain.confirmed, g)
    BY PlannedSlot, AcknowledgedStays DEF Justified
<1>. HIDE DEF owned
<1>4. CASE Watch!Owned(r)
    <2>1. applied = Watch!ApplyConfirmationWatermark(activated, r.seen, r.requested)
        BY <1>2, <1>4, PlannedSlot DEF Watch!ApplyStatus, owned
    <2>2. activated \in Planned /\ activated.chain = sl.chain  BY DEF Planned
    <2>. HIDE DEF activated
    <2>3. Justified(activated, h)
        BY <1>3, <2>2, PlannedSlot DEF Justified
    <2>. QED  BY <1>4, <2>1, <2>2, <2>3, WatermarkKeeps
<1>5. CASE ~Watch!Owned(r)
    <2>1. ~Watch!Advances(g, Len(h) + 1)  BY <1>3, <1>5, NoProgress
    <2>2. CASE Watch!Tag(sl) = "Starting" /\ r.requested <= sl.state.at
        <3>1. applied = Watch!Result(sl, {})
            BY <1>2, <1>5, <2>2, PlannedSlot DEF Watch!ApplyStatus, owned
        <3>2. applied.slot = sl  BY <3>1 DEF Watch!Result
        <3>3. ~News(g, Len(h) + 1)
            BY <1>1, <1>5, <2>2, HistoryGrows, PlannedSlot, WatchConstants
               DEF News, Watch!TellsAgainst, Watch!Ticks
        <3>4. /\ Grounded(sl.chain.suspicion, g)
              /\ Counts(sl.chain.suspicion, g) /\ NoRow(g)
            BY <1>3, <2>1, <3>3, GroundsStay, OldNewsKeeps
        <3>. QED  BY <1>3, <1>5, <3>2, <3>4, PlannedSlot DEF Justified
    <2>3. CASE ~(Watch!Tag(sl) = "Starting" /\ r.requested <= sl.state.at)
        <3>1. applied = Watch!ObserveStatusEvidence(sl, evidence, r.requested)
            BY <1>2, <1>5, <2>3, PlannedSlot DEF Watch!ApplyStatus, owned
        <3>2. evidence \in Watch!Evidence /\ Says(r, evidence)
            BY <1>1, <1>5 DEF Watch!Evidence, Watch!Absent, Watch!Foreign, Watch!OptTicks, Says
        <3>. HIDE DEF evidence
        <3>. QED  BY <1>3, <1>5, <2>1, <3>1, <3>2, ObservationKeeps
    <2>. QED  BY <2>2, <2>3
<1>. QED  BY <1>4, <1>5

(* Every response keeps the chain justified. *)
LEMMA WatchNextInv == WatchInv /\ [Watch!WatchNext]_chain => WatchInv'
<1>. SUFFICES ASSUME WatchInv, [Watch!WatchNext]_chain PROVE WatchInv'
    OBVIOUS
<1>1. CASE UNCHANGED chain
    BY <1>1 DEF chain, WatchInv, Justified
<1>2. ASSUME NEW seenTick \in SeenTicks \cup {Watch!NoTick}, NEW requested \in RequestTicks,
             Watch!Respond(seenTick, requested)
      PROVE  WatchInv'
    <2>. DEFINE r == [seen |-> seenTick, requested |-> requested]
    <2>1. r \in Responses  BY WatchConstants DEF Responses, Watch!OptTicks
    <2>2. /\ Watch!IsPlanned(slot) /\ history' = Append(history, r)
          /\ slot' = Watch!ApplyStatus(slot, r.seen, r.requested).slot
        BY <1>2 DEF Watch!Respond
    <2>3. history \in Seq(Responses) /\ slot \in Planned /\ Justified(slot, history)
        BY <2>2 DEF WatchInv, Justified
    <2>. HIDE DEF r
    <2>4. Justified(slot', history')  BY <2>1, <2>2, <2>3, ApplyStatusKeeps
    <2>5. history' \in Seq(Responses)  BY <2>1, <2>2, <2>3, HistoryGrows
    <2>. QED  BY <2>4, <2>5 DEF WatchInv, Justified
<1>. QED  BY <1>1, <1>2 DEF Watch!WatchNext

(* A freeze has its three responses, and a planned chain no three in a row. *)
LEMMA FreezesOnEvidence == WatchInv => FrozenExactlyOnEvidence
BY DEF FrozenExactlyOnEvidence, WatchInv, Justified, NoRow,
       Watch!FreezeNeedsThree, Watch!ThreeInARowFreeze

-----------------------------------------------------------------------------
(* All answers *)

(* Every machine is where its own invariant allows. *)
AnswersInv == BodyInv /\ BobInv /\ SessionInv /\ CodecInv /\ WatchInv

(* The step of one machine, and the stutter of the others, keep all five. *)
LEMMA AnswersNextInv ==
    AnswersInv /\ [AnswersNext]_<<moving, bodyVars, bob, node, status, chain>> => AnswersInv'
<1>. SUFFICES ASSUME AnswersInv, [AnswersNext]_<<moving, bodyVars, bob, node, status, chain>>
              PROVE  AnswersInv'
    OBVIOUS
<1>1. [BodyNext]_bodyVars /\ [Bob!BobNext]_bob /\ [Node!SessionNext]_node
      /\ [Codec!CodecNext]_status /\ [Watch!WatchNext]_chain
    BY DEF AnswersNext
<1>. QED  BY <1>1, BodyNextInv, BobNextInv, SessionNextInv, CodecNextInv, WatchNextInv
          DEF AnswersInv

(* The invariants of the five machines hold in every reachable state. *)
THEOREM AnswersInvariant == AnswersSpec => []AnswersInv
<1>1. AnswersInit => AnswersInv
    BY BodyInitInv, BobInitInv, SessionInitInv, CodecInitInv, WatchInitInv
       DEF AnswersInit, AnswersInv
<1>. QED  BY <1>1, AnswersNextInv, PTL DEF AnswersSpec

(* Whatever length is declared and however a body is cut, no answer fills  *)
(* more than the limit, only whole bodies are parsed, and none within the  *)
(* limit is refused as too big.                                            *)
THEOREM LimitAlwaysExact == AnswersSpec => []LimitIsExact
<1>1. AnswersInv => LimitIsExact  BY DEF AnswersInv, BodyInv, LimitIsExact
<1>. QED  BY <1>1, AnswersInvariant, PTL

(* The data a query returns were computed after it began, whatever was     *)
(* asked, aborted, misrouted or left behind by an earlier process.         *)
THEOREM DataAlwaysFresh == AnswersSpec => []DataIsFresh
<1>1. AnswersInv => DataIsFresh  BY BobIsTrue DEF AnswersInv
<1>. QED  BY <1>1, AnswersInvariant, PTL

(* A query times out after its deadline, on a job that was not computed    *)
(* when its last call began, however long each answer is on its way; one   *)
(* the engine cuts had a call that hung since before the deadline.         *)
THEOREM TimeoutsAlwaysBlame == AnswersSpec => []TimeoutsBlameTheRightOne
<1>1. AnswersInv => TimeoutsBlameTheRightOne  BY BobIsTrue DEF AnswersInv
<1>. QED  BY <1>1, AnswersInvariant, PTL

(* No adapter concludes of a tick, of our transaction in it or of a        *)
(* broadcast what is not so, for any ticks and any foreign transactions.   *)
THEOREM ConclusionsAlwaysTrue == AnswersSpec => []ConclusionsAreTrue
<1>1. AnswersInv => ConclusionsAreTrue  BY DEF AnswersInv, SessionInv, ConclusionsAreTrue
<1>. QED  BY <1>1, AnswersInvariant, PTL

(* The decoder of provider_status refuses nothing that the contract sent,  *)
(* finds every slot in it, and lets no accepted entry hide another.        *)
THEOREM StatusAlwaysReadOrRefused == AnswersSpec => []StatusIsReadOrRefused
<1>1. AnswersInv => StatusIsReadOrRefused
    BY CodecIsTrue DEF AnswersInv, StatusIsReadOrRefused
<1>. QED  BY <1>1, AnswersInvariant, PTL

(* After any sequence of status responses a chain is frozen only if three  *)
(* of them, consistent, strictly later and without progress in between,    *)
(* are against it, and three late absences in a row do freeze it.          *)
THEOREM FreezesExactlyOnEvidence == AnswersSpec => []FrozenExactlyOnEvidence
<1>1. AnswersInv => FrozenExactlyOnEvidence  BY FreezesOnEvidence DEF AnswersInv
<1>. QED  BY <1>1, AnswersInvariant, PTL

=============================================================================
