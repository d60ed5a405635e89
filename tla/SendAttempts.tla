---------------------------- MODULE SendAttempts ----------------------------
(***************************************************************************)
(* The attempts to broadcast one planned call, in time: the engine looks   *)
(* at its task once in a poll interval, gives every attempt a timeout by   *)
(* the ticks that are left and their duration, and starts the next one in  *)
(* the cycle that harvests a failure.                                      *)
(*                                                                         *)
(* Cycles are on time and ticks last as long as the node says.  The client *)
(* does not know how much of the current tick is over.  StreamSlot has the *)
(* states of a call; here only the time its attempts take counts.          *)
(***************************************************************************)
EXTENDS Integers

CONSTANTS
    Poll,         \* POLL_INTERVAL, in units of time
    MinAttempt,   \* MIN_BROADCAST_ATTEMPT
    MaxAttempt,   \* MAX_BROADCAST_ATTEMPT
    Durations,    \* how long a tick may last
    MaxLead       \* how many ticks before its target the call may be first sent

AttemptParameters ==
    /\ Poll \in Nat \ {0} /\ MinAttempt \in Nat \ {0} /\ MaxAttempt \in Nat \ {0}
    /\ MinAttempt <= Poll /\ MinAttempt <= MaxAttempt
    /\ Durations \subseteq Nat \ {0} /\ MaxLead \in Nat \ {0}

Larger(a, b) == IF a >= b THEN a ELSE b
Smaller(a, b) == IF a <= b THEN a ELSE b

(* Seeded bug: an attempt gets all the time there is. *)
AttemptTakingAll(lead, duration) ==
    Larger(1, Smaller(MaxAttempt, lead * Larger(1, duration)))

(* broadcast_attempt_timeout *)
AttemptTimeout(lead, duration) ==
    LET remaining == lead * Larger(1, duration)
        budget == Larger(1, remaining - Smaller(remaining, Poll))
    IN  Smaller(Smaller(Larger(budget \div 2, MinAttempt), MaxAttempt), Larger(1, remaining))

VARIABLES
    duration,   \* of a tick
    lead,       \* the ticks between the first cycle and the target
    now,        \* time since the current tick began
    next,       \* when the next cycle comes
    ends,       \* when the running attempt times out, or None
    started,    \* history: how many attempts were started
    outcome     \* "trying", "accepted" or "over"

attemptVars == <<duration, lead, now, next, ends, started, outcome>>

None == -1
Arrival == lead * duration
TicksLeft == lead - now \div duration

AttemptInit ==
    /\ duration \in Durations /\ lead \in 1 .. MaxLead
    /\ now \in 0 .. duration - 1 /\ next = now
    /\ ends = None /\ started = 0 /\ outcome = "trying"

(* Time passes to the next cycle or the end of the running attempt.        *)
Pass ==
    /\ outcome = "trying" /\ now < next
    /\ now' = now + 1
    /\ UNCHANGED <<duration, lead, next, ends, started, outcome>>

(* harvest_broadcasts, expire_calls and dispatch_calls of one cycle; a     *)
(* running attempt may have failed early, or succeeded.                    *)
Cycle ==
    /\ outcome = "trying" /\ now = next
    /\ \/ /\ ends # None /\ outcome' = "accepted"
          /\ UNCHANGED <<ends, started>>
       \/ /\ now >= Arrival /\ outcome' = "over"
          /\ UNCHANGED <<ends, started>>
       \/ /\ now < Arrival /\ UNCHANGED outcome
          /\ \/ ends # None /\ now < ends /\ UNCHANGED <<ends, started>>
             \/ /\ ends' = now + AttemptTimeout(TicksLeft, duration)
                /\ started' = started + 1
    /\ next' = now + Poll
    /\ UNCHANGED <<duration, lead, now>>

AttemptsOver == outcome # "trying" /\ UNCHANGED attemptVars

AttemptNext == Pass \/ Cycle \/ AttemptsOver

AttemptSpec == AttemptInit /\ [][AttemptNext]_attemptVars

-----------------------------------------------------------------------------
(* A call that is first sent three ticks ahead is tried at least twice     *)
(* before its target, even if every attempt hangs until it times out:      *)
(* unless a tick is shorter than two polls.                                *)
HangLeavesAnotherTry ==
    (outcome = "over" /\ lead >= 3 /\ duration >= 2 * Poll) => started >= 2

(* An attempt is given up before the tick after its target begins.         *)
NoAttemptPastTheTarget == ends # None => ends <= Arrival + duration

=============================================================================
