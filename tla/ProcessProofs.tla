--------------------------- MODULE ProcessProofs ----------------------------
(***************************************************************************)
(* The process and its clocks, for all constants: where the seed may be,   *)
(* what an attempt leaves of the time of a call, the epochs of the client  *)
(* against the boundaries of the calendar, and the forms of an endpoint.   *)
(***************************************************************************)
EXTENDS MCProcess, SequenceTheorems, TLAPS

(* What the process is made of.                                            *)
Machines == <<moving, startVars, calendar, attempts>>

-----------------------------------------------------------------------------
(* The seed *)

(* Each place holds the seed in its own part of the start only, and from   *)
(* the lock on until it is wiped it is locked.  A killed process stops as  *)
(* it is.                                                                  *)
SeedInv ==
    /\ copies \in [Places -> {"absent", "live", "wiped"}]
    /\ pc # "killed" =>
          /\ copies["argument"] = "live" => pc = "parsed" /\ source = "argument"
          /\ copies["input"] = "live" => pc = "trim"
          /\ copies["seed"] = "live" => pc = "validate"
          /\ copies["wrapper"] = "live" =>
                pc \in {"lock", "collateral", "configure", "build", "drop_and_run", "drop_and_refuse"}
          /\ copies["wrapper"] = "live" /\ pc # "lock" => locked
          /\ locked => pc \in {"collateral", "configure", "build", "drop_and_run", "drop_and_refuse"}

(* The start moves the seed along its places.                              *)
LEMMA SeedInvHolds == ProcessSpec => []SeedInv
<1>1. ProcessInit => SeedInv
    BY DEF ProcessInit, StartInit, SeedInv, Places
<1>2. ASSUME SeedInv, [ProcessNext]_Machines  PROVE SeedInv'
    <2>1. CASE UNCHANGED startVars
        BY <1>2, <2>1 DEF SeedInv, startVars, seedVars
    <2>. USE <1>2 DEF SeedInv, Places
    <2>2. CASE TakeArgument  BY <2>2 DEF TakeArgument, Goes
    <2>3. CASE ReadInput  BY <2>3 DEF ReadInput
    <2>4. CASE Trim  BY <2>4 DEF Trim, TrimInput, Goes
    <2>5. CASE Validate  BY <2>5 DEF Validate
    <2>6. CASE Lock  BY <2>6 DEF Lock
    <2>7. CASE ValidateCollateral  BY <2>7 DEF ValidateCollateral, seedVars
    <2>8. CASE Configure  BY <2>8 DEF Configure, Goes, seedVars
    <2>9. CASE Build  BY <2>9 DEF Build, seedVars
    <2>10. CASE Drop  BY <2>10 DEF Drop, DropSeed, Dropping
    <2>11. CASE Register  BY <2>11 DEF Register, seedVars
    <2>12. ASSUME NEW k \in DOMAIN Signals, SignalArrives(k)  PROVE SeedInv'
        BY <2>12 DEF SignalArrives, seedVars, Ends
    <2>13. CASE ObserverEnds  BY <2>13 DEF ObserverEnds, seedVars
    <2>14. CASE EngineReturns  BY <2>14 DEF EngineReturns, seedVars
    <2>15. CASE Ended  BY <2>1, <2>15 DEF Ended
    <2>16. StartNext => SeedInv'
        BY <2>2, <2>3, <2>4, <2>5, <2>6, <2>7, <2>8, <2>9, <2>10, <2>11, <2>12, <2>13, <2>14, <2>15
           DEF StartNext
    <2>. QED  BY <2>1, <2>16 DEF ProcessNext, Machines
<1>. QED  BY <1>1, <1>2, PTL DEF ProcessSpec, Machines

(* However the start ends, no copy of the seed that the client made is     *)
(* left, and none was ever unlocked while it was live.                     *)
THEOREM SeedAlwaysKept == ProcessSpec => []SeedIsKept
<1>1. SeedInv => SeedIsKept
    BY DEF SeedInv, SeedIsKept, SeedIsGone, NeverUnlockedBeforeWiped, Places
<1>. QED  BY <1>1, SeedInvHolds, PTL

-----------------------------------------------------------------------------
(* The time of the attempts *)

(* An attempt takes some time, at most what is left, and at most half of   *)
(* what is left beyond a poll where that is more than the least time-out.  *)
LEMMA TimeoutBounds ==
    ASSUME NEW l \in Nat \ {0}, NEW d \in Nat \ {0}
    PROVE  LET t == Attempts!AttemptTimeout(l, d)
           IN  /\ t \in Nat \ {0} /\ t <= l * d
               /\ l * d > Poll => t <= MinAttempt \/ 2 * t <= l * d - Poll
<1>. DEFINE r == l * d
<1>1. r \in Nat \ {0}  OBVIOUS
<1>2. /\ Poll \in Nat \ {0} /\ MinAttempt \in Nat \ {0} /\ MaxAttempt \in Nat \ {0}
    BY ProcessAssumption DEF Attempts!AttemptParameters
<1>3. l * Attempts!Larger(1, d) = r  BY DEF Attempts!Larger
<1>. HIDE DEF r
<1>. QED  BY <1>1, <1>2, <1>3 DEF Attempts!AttemptTimeout, Attempts!Larger, Attempts!Smaller

(* A whole part of a number, and what remains of it.                       *)
LEMMA Division ==
    ASSUME NEW a \in Int, NEW b \in Nat \ {0}
    PROVE  a \div b \in Int /\ b * (a \div b) <= a /\ a < b * (a \div b) + b
OBVIOUS

(* A call with room for more than one attempt.                             *)
Roomy == lead >= 3 /\ duration >= 2 * Poll

(* The running attempt ends in the tick of its target at the latest.  The  *)
(* first one leaves a poll before the target, and the cycle after its end  *)
(* comes within a poll: a call that is over was tried again.               *)
AttemptInv ==
    /\ duration \in Nat \ {0} /\ lead \in Nat \ {0}
    /\ now \in Nat /\ next \in Nat /\ started \in Nat /\ ends \in Int
    /\ outcome \in {"trying", "accepted", "over"}
    /\ ends # -1 => ends <= lead * duration + duration
    /\ started = 0 => outcome = "trying" /\ ends = -1 /\ now = next /\ now < duration
    /\ started = 1 /\ outcome = "trying" => next < ends + Poll
    /\ started = 1 /\ Roomy => ends + Poll <= lead * duration
    /\ outcome = "over" /\ Roomy => started >= 2

(* A new attempt ends in time.                                             *)
LEMMA NewAttempt ==
    ASSUME AttemptInv, now < lead * duration,
           NEW t, t = Attempts!AttemptTimeout(Attempts!TicksLeft, duration)
    PROVE  /\ t \in Nat \ {0} /\ now + t <= lead * duration + duration
           /\ now < duration /\ Roomy => now + t + Poll <= lead * duration
<1>. DEFINE d == duration
            q == now \div d
            l == lead - q
<1>1. d \in Nat \ {0} /\ lead \in Nat \ {0} /\ now \in Nat /\ now < d * lead
    BY DEF AttemptInv
<1>2. Poll \in Nat \ {0} /\ MinAttempt \in Nat \ {0} /\ MinAttempt <= Poll
    BY ProcessAssumption DEF Attempts!AttemptParameters
<1>3. q \in Int /\ d * q <= now /\ now < d * q + d  BY <1>1, Division
<1>4. l \in Nat \ {0} /\ l <= lead
    <2>. HIDE DEF q
    <2>1. q < lead
        <3>. SUFFICES ASSUME q >= lead PROVE FALSE  BY <1>1, <1>3
        <3>1. q - lead \in Nat  BY <1>1, <1>3
        <3>2. \A m \in Nat : d * m >= 0  BY <1>1
        <3>3. d * (q - lead) >= 0  BY <3>1, <3>2
        <3>4. d * (q - lead) = d * q - d * lead  BY <1>1, <1>3
        <3>. QED  BY <1>1, <1>3, <3>3, <3>4
    <2>2. q >= 0
        <3>. SUFFICES ASSUME q <= -1 PROVE FALSE  BY <1>1, <1>3
        <3>1. (-1) - q \in Nat  BY <1>3
        <3>2. \A m \in Nat : d * m >= 0  BY <1>1
        <3>3. d * ((-1) - q) >= 0  BY <3>1, <3>2
        <3>4. d * ((-1) - q) = (-d) - d * q  BY <1>1, <1>3
        <3>. QED  BY <1>1, <1>3, <3>3, <3>4
    <2>. QED  BY <1>1, <1>3, <2>1, <2>2
<1>5. Attempts!TicksLeft = l  BY DEF Attempts!TicksLeft
<1>6. t \in Nat \ {0} /\ t <= l * d /\ (l * d > Poll => t <= MinAttempt \/ 2 * t <= l * d - Poll)
    BY <1>1, <1>4, <1>5, TimeoutBounds
<1>7. l * d = lead * d - d * q  BY <1>1, <1>3
<1>8. now + t <= lead * d + d
    <2>. HIDE DEF l, q
    <2>. QED  BY <1>1, <1>3, <1>4, <1>6, <1>7
<1>9. ASSUME now < d, Roomy  PROVE now + t + Poll <= lead * d
    <2>1. q = 0  BY <1>1, <1>9
    <2>2. l = lead  BY <1>1, <2>1
    <2>3. lead >= 3 /\ d >= 2 * Poll  BY <1>9 DEF Roomy
    <2>4. lead * d >= 3 * d
        <3>1. lead - 3 \in Nat  BY <1>1, <2>3
        <3>2. \A m \in Nat : m * d >= 0  BY <1>1
        <3>3. (lead - 3) * d >= 0  BY <3>1, <3>2
        <3>4. (lead - 3) * d = lead * d - 3 * d  BY <1>1
        <3>. QED  BY <1>1, <3>3, <3>4
    <2>5. lead * d \in Nat  BY <1>1
    <2>. DEFINE all == lead * d
    <2>6. t <= MinAttempt \/ 2 * t <= all - Poll  BY <1>1, <1>2, <1>6, <2>2, <2>3, <2>4
    <2>7. t \in Nat /\ all \in Nat /\ all >= 3 * d  BY <1>6, <2>4, <2>5
    <2>. HIDE DEF all, d
    <2>8. now + t + Poll <= all  BY <1>1, <1>2, <1>9, <2>3, <2>6, <2>7
    <2>. QED  BY <2>8 DEF all
<1>. QED  BY <1>6, <1>8, <1>9

(* The invariant holds whatever the attempts come to.                      *)
LEMMA AttemptInvHolds == ProcessSpec => []AttemptInv
<1>. DEFINE Arrival == lead * duration
<1>0. Poll \in Nat \ {0} /\ Durations \subseteq Nat \ {0} /\ MaxLead \in Nat \ {0}
    BY ProcessAssumption DEF Attempts!AttemptParameters
<1>1. ASSUME ProcessInit PROVE AttemptInv
    <2>1. Attempts!AttemptInit  BY <1>1 DEF ProcessInit
    <2>2. /\ duration \in Nat \ {0} /\ lead \in Nat \ {0} /\ now \in 0 .. duration - 1
          /\ next = now /\ ends = -1 /\ started = 0 /\ outcome = "trying"
        BY <1>0, <2>1 DEF Attempts!AttemptInit, Attempts!None
    <2>. QED  BY <2>2 DEF AttemptInv
<1>2. ASSUME AttemptInv, [ProcessNext]_Machines  PROVE AttemptInv'
    <2>1. CASE UNCHANGED attempts
        BY <1>2, <2>1 DEF AttemptInv, Roomy, attempts
    <2>2. CASE Attempts!Pass
        BY <1>2, <2>2 DEF Attempts!Pass, AttemptInv, Roomy
    <2>3. CASE Attempts!Cycle
        <3>1. /\ duration \in Nat \ {0} /\ lead \in Nat \ {0} /\ now \in Nat /\ next = now
              /\ started \in Nat /\ ends \in Int /\ outcome = "trying"
            BY <1>2, <2>3 DEF Attempts!Cycle, AttemptInv
        <3>2. next' = now + Poll /\ UNCHANGED <<duration, lead, now>>  BY <2>3 DEF Attempts!Cycle
        <3>3. Arrival \in Nat  BY <3>1
        <3>4. CASE ends # -1 /\ outcome' = "accepted" /\ UNCHANGED <<ends, started>>
            BY <1>0, <1>2, <3>1, <3>2, <3>4 DEF AttemptInv, Roomy
        <3>5. CASE now >= Arrival /\ outcome' = "over" /\ UNCHANGED <<ends, started>>
            <4>. HIDE DEF Arrival
            <4>1. duration <= Arrival
                <5>1. lead - 1 \in Nat  BY <3>1
                <5>2. \A m \in Nat : m * duration >= 0  BY <3>1
                <5>3. (lead - 1) * duration >= 0  BY <5>1, <5>2
                <5>4. (lead - 1) * duration = lead * duration - duration  BY <3>1
                <5>. QED  BY <3>1, <5>3, <5>4 DEF Arrival
            <4>2. started # 0  BY <1>2, <3>1, <3>3, <3>5, <4>1 DEF AttemptInv
            <4>3. started = 1 => ~Roomy
                BY <1>0, <1>2, <3>1, <3>3, <3>5 DEF AttemptInv, Arrival
            <4>4. Roomy' = Roomy  BY <3>2 DEF Roomy
            <4>. QED  BY <1>0, <1>2, <3>1, <3>2, <3>5, <4>2, <4>3, <4>4 DEF AttemptInv
        <3>6. CASE /\ now < Arrival /\ UNCHANGED outcome
                   /\ ends # -1 /\ now < ends /\ UNCHANGED <<ends, started>>
            BY <1>0, <1>2, <3>1, <3>2, <3>6 DEF AttemptInv, Roomy
        <3>7. CASE /\ now < Arrival /\ UNCHANGED outcome /\ started' = started + 1
                   /\ ends' = now + Attempts!AttemptTimeout(Attempts!TicksLeft, duration)
            <4>. DEFINE t == Attempts!AttemptTimeout(Attempts!TicksLeft, duration)
            <4>1. t = Attempts!AttemptTimeout(Attempts!TicksLeft, duration)  OBVIOUS
            <4>. HIDE DEF t
            <4>2. /\ t \in Nat \ {0} /\ now + t <= lead * duration + duration
                  /\ now < duration /\ Roomy => now + t + Poll <= lead * duration
                BY <1>2, <3>7, <4>1, NewAttempt
            <4>3. ends' = now + t  BY <3>7, <4>1
            <4>4. Roomy' = Roomy /\ Arrival' = Arrival  BY <3>2 DEF Roomy
            <4>. HIDE DEF Arrival
            <4>. QED
                BY <1>0, <1>2, <3>1, <3>2, <3>3, <3>7, <4>2, <4>3, <4>4 DEF AttemptInv, Arrival
        <3>. QED
            BY <2>3, <3>4, <3>5, <3>6, <3>7 DEF Attempts!Cycle, Attempts!Arrival, Attempts!None
    <2>4. CASE Attempts!AttemptsOver
        BY <2>1, <2>4 DEF Attempts!AttemptsOver, Attempts!attemptVars, attempts
    <2>. QED
        BY <1>2, <2>1, <2>2, <2>3, <2>4 DEF ProcessNext, Machines, Attempts!AttemptNext
<1>. QED  BY <1>1, <1>2, PTL DEF ProcessSpec, Machines

(* Whatever the durations, polls and leads: a hanging attempt leaves time  *)
(* for another one, and none runs on into the tick after its target.       *)
THEOREM HangsAlwaysLeaveTime == ProcessSpec => []HangsLeaveTime
<1>1. AttemptInv => HangsLeaveTime
    BY DEF AttemptInv, Roomy, HangsLeaveTime, Attempts!HangLeavesAnotherTry,
           Attempts!NoAttemptPastTheTarget, Attempts!Arrival, Attempts!None
<1>. QED  BY <1>1, AttemptInvHolds, PTL

-----------------------------------------------------------------------------
(* The calendar *)

(* The calendar's own terms, for short.                                    *)
Until(c) == Calendar!UntilBoundary(c, Day)
Length == Calendar!Week(Day)
Edge(e) == Calendar!Boundary(e)
ReadyTick(first) == Calendar!SaturatingAdd(first, ResumeDelay)

(* The network changed its epochs in time, one after the other, and its    *)
(* tick is no faster than the clock.                                       *)
NetworkInv ==
    /\ clock \in Nat /\ clock <= LastClock /\ clock <= Edge(epoch) + Switch
    /\ epoch \in 1 .. 3 /\ tick \in Nat /\ tick <= clock + epoch + 1
    /\ initial \in [1 .. 3 -> Nat] /\ initial[epoch] <= tick
    /\ \A e \in 1 .. 2 : e < epoch => initial[e] < initial[e + 1]
    /\ changed \in Nat /\ changed <= clock
    /\ epoch > 1 => /\ Edge(epoch - 1) <= changed /\ changed <= Edge(epoch - 1) + Switch
                    /\ tick - initial[epoch] <= clock - changed

(* What the adapter remembers is no earlier than the epoch's first tick.   *)
FallbackInv ==
    /\ fallback \in [epoch : {-1} \cup (1 .. 3), initialTick : Nat]
    /\ fallback.epoch <= epoch
    /\ fallback.epoch # -1 => initial[fallback.epoch] <= fallback.initialTick

(* The phases there may be.                                                *)
Phases == [tag : {"None", "Warmup", "Active", "Draining"}, epoch : {-1} \cup (1 .. 3), ready : Int]

(* No warmup ends before its time; a client that plans was outside of a    *)
(* stop window in its last cycle, and never inside one since it began.     *)
PhaseInv ==
    /\ seenAt \in Nat /\ since \in Nat
    /\ since <= seenAt /\ seenAt <= clock /\ clock <= seenAt + Gap
    /\ phase \in Phases
    /\ phase.tag = "None" => phase.epoch = -1
    /\ phase.tag # "None" => phase.epoch \in 1 .. epoch
    /\ phase.tag = "Warmup" => ReadyTick(initial[phase.epoch]) <= phase.ready
    /\ phase.tag = "Active" =>
          /\ StopLead < Until(seenAt)
          /\ phase.epoch > 1 => Edge(phase.epoch - 1) < seenAt
          /\ \A e \in 1 .. 3 : ~(since <= Edge(e) /\ Edge(e) < clock)
    /\ phase.tag = "Draining" => Edge(phase.epoch) - StopLead <= since /\ since <= Edge(phase.epoch)

CalendarInv == NetworkInv /\ FallbackInv /\ PhaseInv

(* The constants of the calendar.                                          *)
LEMMA Parameters ==
    /\ Day \in Nat \ {0} /\ StopLead \in Nat /\ Gap \in Nat /\ Switch \in Nat /\ StaleFor \in Nat
    /\ LastClock \in Nat /\ MaxTick \in Nat /\ MaxU32 = MaxTick /\ ResumeDelay \in Nat
    /\ Gap <= StopLead + 1 /\ StopLead + Switch + StaleFor < Length
    /\ ResumeDelay > 0 /\ LastClock + ResumeDelay + 4 <= MaxTick
    /\ \A c \in FirstClocks : c \in Nat /\ c <= LastClock /\ c <= Edge(1) + Switch
    /\ Length \in Nat \ {0} /\ Edge(1) \in Nat /\ Edge(1) < Length
    /\ Edge(1) = Calendar!WednesdayNoon(Day)
    /\ Edge(2) = Edge(1) + Length /\ Edge(3) = Edge(1) + 2 * Length
    /\ Edge(0) = Edge(1) - Length /\ Edge(4) = Edge(1) + 3 * Length
<1>1. /\ Day \in Nat \ {0} /\ StopLead \in Nat /\ Gap \in Nat /\ Switch \in Nat /\ StaleFor \in Nat
      /\ LastClock \in Nat /\ FirstClocks \subseteq 0 .. LastClock /\ MaxU32 \in Nat /\ MaxU32 = MaxTick
    BY ProcessAssumption DEF Calendar!CalendarParameters, Calendar!AnswerParameters
<1>2. Length = 7 * Day  BY DEF Length, Calendar!Week
<1>3. Day \div 2 \in Nat /\ Day \div 2 <= Day  BY <1>1
<1>4. Calendar!WednesdayNoon(Day) = 2 * Day + Day \div 2  BY DEF Calendar!WednesdayNoon
<1>. DEFINE noon == Calendar!WednesdayNoon(Day)
<1>5. noon \in Nat /\ noon < Length /\ Length \in Nat \ {0}  BY <1>1, <1>2, <1>3, <1>4
<1>6. /\ Gap <= StopLead + 1 /\ StopLead + Switch + StaleFor < Length
      /\ FirstClocks \subseteq 0 .. noon + Switch
      /\ ResumeDelay \in Nat \ {0} /\ LastClock + ResumeDelay + 4 <= MaxTick
    BY ProcessAssumption DEF Calendar!TimingParameters, Length
<1>8. \A e \in Int : Edge(e) = noon + (e - 1) * Length  BY DEF Edge, Calendar!Boundary, Length
<1>. HIDE DEF noon, Length
<1>9. /\ Edge(0) = noon - Length /\ Edge(1) = noon /\ Edge(2) = noon + Length
      /\ Edge(3) = noon + 2 * Length /\ Edge(4) = noon + 3 * Length
    BY <1>5, <1>8
<1>. QED  BY <1>1, <1>5, <1>6, <1>9 DEF noon

(* A whole part of a number, and what remains of it.                       *)
LEMMA Remainder ==
    ASSUME NEW a \in Int, NEW b \in Nat \ {0}
    PROVE  /\ a \div b \in Int /\ a % b \in Nat /\ a % b < b
           /\ a = (a \div b) * b + (a % b)
<1>1. a \div b \in Int /\ a % b \in Nat /\ a % b < b  OBVIOUS
<1>2. a % b = a - b * (a \div b)  OBVIOUS
<1>3. b * (a \div b) = (a \div b) * b /\ (a \div b) * b \in Int  BY <1>1
<1>. QED  BY <1>1, <1>2, <1>3

(* More weeks are at least a week more.                                    *)
LEMMA WeeksApart ==
    ASSUME NEW k \in Int, NEW m \in Int, NEW w \in Nat \ {0}, k < m
    PROVE  k * w + w <= m * w
<1>1. m - k - 1 \in Nat  OBVIOUS
<1>2. \A n \in Nat : n * w >= 0  OBVIOUS
<1>3. (m - k - 1) * w >= 0  BY <1>1, <1>2
<1>4. (m - k - 1) * w = m * w - k * w - w  OBVIOUS
<1>5. m * w \in Int /\ k * w \in Int  OBVIOUS
<1>. QED  BY <1>3, <1>4, <1>5

(* The time until the boundary leads to one, and to the next.              *)
LEMMA UntilIsToBoundary ==
    ASSUME NEW c \in Nat
    PROVE  /\ Until(c) \in Nat /\ Until(c) < Length
           /\ \E k \in Int : c + Until(c) = Edge(1) + k * Length
<1>. DEFINE noon == Calendar!WednesdayNoon(Day)
            s == c % Length
            q == c \div Length
<1>1. Length \in Nat \ {0} /\ noon = Edge(1) /\ noon \in Nat /\ noon < Length
    BY Parameters
<1>2. q \in Int /\ s \in Nat /\ s < Length /\ c = q * Length + s  BY <1>1, Remainder
<1>3. Until(c) = IF s <= noon THEN noon - s ELSE Length - (s - noon)
    BY DEF Until, Calendar!UntilBoundary, Length
<1>4. (q + 1) * Length = q * Length + Length /\ q * Length \in Int  BY <1>1, <1>2
<1>. HIDE DEF noon, s, q
<1>5. CASE s <= noon
    <2>1. c + Until(c) = Edge(1) + q * Length  BY <1>1, <1>2, <1>3, <1>4, <1>5
    <2>. QED  BY <1>1, <1>2, <1>3, <1>5, <2>1
<1>6. CASE ~(s <= noon)
    <2>1. c + Until(c) = Edge(1) + (q + 1) * Length  BY <1>1, <1>2, <1>3, <1>4, <1>6
    <2>2. q + 1 \in Int  BY <1>2
    <2>3. Until(c) \in Nat /\ Until(c) < Length  BY <1>1, <1>2, <1>3, <1>6
    <2>. QED  BY <2>1, <2>2, <2>3
<1>. QED  BY <1>5, <1>6

(* No boundary comes sooner, and one within a week is the next.            *)
LEMMA NextBoundary ==
    ASSUME NEW c \in Nat, NEW m \in Int, NEW b \in Int, b = Edge(1) + m * Length, c <= b
    PROVE  /\ Until(c) \in Nat /\ Until(c) <= b - c
           /\ b < c + Length => Until(c) = b - c
<1>1. Until(c) \in Nat /\ Until(c) < Length  BY UntilIsToBoundary
<1>2. PICK k \in Int : c + Until(c) = Edge(1) + k * Length  BY UntilIsToBoundary
<1>3. Length \in Nat \ {0} /\ Edge(1) \in Nat  BY Parameters
<1>4. k * Length \in Int /\ m * Length \in Int  BY <1>3
<1>5. ~(m < k)
    <2>. SUFFICES ASSUME m < k PROVE FALSE  OBVIOUS
    <2>1. m * Length + Length <= k * Length  BY <1>3, WeeksApart
    <2>. HIDE DEF Length
    <2>. QED  BY <1>1, <1>2, <1>3, <1>4, <2>1
<1>6. CASE m = k
    BY <1>1, <1>2, <1>3, <1>4, <1>6
<1>7. CASE k < m
    <2>1. k * Length + Length <= m * Length  BY <1>3, <1>7, WeeksApart
    <2>. QED  BY <1>1, <1>2, <1>3, <1>4, <2>1
<1>. QED  BY <1>5, <1>6, <1>7

(* So for the boundaries of the epochs, each with the week before it.      *)
LEMMA EpochEdges ==
    ASSUME NEW c \in Nat, NEW e \in 1 .. 4, c <= Edge(e)
    PROVE  /\ Until(c) \in Nat /\ Until(c) <= Edge(e) - c
           /\ Edge(e - 1) < c => Until(c) = Edge(e) - c
<1>1. Length \in Nat \ {0} /\ Edge(1) \in Nat  BY Parameters
<1>2. Edge(e) = Edge(1) + (e - 1) * Length /\ Edge(e) = Edge(e - 1) + Length /\ Edge(e) \in Int
    <2>1. e = 1 \/ e = 2 \/ e = 3 \/ e = 4  OBVIOUS
    <2>2. /\ Edge(1) = Edge(1) + 0 * Length /\ Edge(2) = Edge(1) + 1 * Length
          /\ Edge(1) = Edge(0) + Length /\ Edge(2) = Edge(1) + Length
          /\ Edge(3) = Edge(2) + Length /\ Edge(4) = Edge(3) + Length
        BY <1>1, Parameters
    <2>3. 1 - 1 = 0 /\ 2 - 1 = 1 /\ 3 - 1 = 2 /\ 4 - 1 = 3  OBVIOUS
    <2>4. CASE e = 1  BY <1>1, <2>2, <2>3, <2>4
    <2>5. CASE e = 2  BY <1>1, <2>2, <2>3, <2>5
    <2>6. CASE e = 3  BY <1>1, <2>2, <2>3, <2>6, Parameters
    <2>7. CASE e = 4  BY <1>1, <2>2, <2>3, <2>7, Parameters
    <2>. QED  BY <2>1, <2>4, <2>5, <2>6, <2>7
<1>3. e - 1 \in Int  OBVIOUS
<1>. DEFINE b == Edge(e)
            a == Edge(e - 1)
<1>4. b \in Int /\ b = Edge(1) + (e - 1) * Length /\ c <= b  BY <1>2
<1>5. a \in Int /\ b = a + Length
    <2>1. e = 1 \/ e = 2 \/ e = 3 \/ e = 4  OBVIOUS
    <2>2. Edge(0) \in Int /\ Edge(2) \in Int /\ Edge(3) \in Int  BY <1>1, Parameters
    <2>. QED  BY <1>1, <2>1, <2>2, Parameters
<1>. HIDE DEF a, b
<1>6. /\ Until(c) \in Nat /\ Until(c) <= b - c
      /\ b < c + Length => Until(c) = b - c
    BY <1>3, <1>4, NextBoundary
<1>7. a < c => b < c + Length  BY <1>1, <1>5
<1>. QED  BY <1>6, <1>7 DEF a, b

(* The stop window, as the lead before the next boundary.                  *)
LEMMA WindowIsLead ==
    ASSUME NEW c \in Nat
    PROVE  Calendar!StopWindow(c, StopLead, Day) <=> Until(c) <= StopLead
<1>1. Until(c) \in Nat /\ Until(c) < Length  BY UntilIsToBoundary
<1>2. StopLead \in Nat /\ Length \in Nat  BY Parameters
<1>3. Calendar!StopWindow(c, StopLead, Day) <=> Until(c) <= Calendar!MinOf(StopLead, Length)
    BY DEF Calendar!StopWindow, Until, Length
<1>. QED  BY <1>1, <1>2, <1>3 DEF Calendar!MinOf


(* What tick metadata does to the phase.                                   *)
LEMMA PhaseMoves ==
    ASSUME NEW ph \in Phases, NEW info, info.epoch \in 1 .. 3, info.tick \in Nat,
           info.initialTick \in Nat, NEW window \in BOOLEAN,
           ph.tag = "None" => ph.epoch = -1,
           NEW n, n = Calendar!UpdateEpochPhase(ph, info, window)
    PROVE  /\ n \in Phases /\ n.tag # "None" /\ n.epoch = info.epoch
           /\ n.tag = "Warmup" => \/ n = ph
                                  \/ n.ready = ReadyTick(info.initialTick)
           /\ n.tag = "Active" => ~window /\ ~(ph.tag = "Draining" /\ ph.epoch = n.epoch)
           /\ n.tag = "Draining" => window \/ (ph.tag = "Draining" /\ ph.epoch = n.epoch)
           /\ n.tag \in {"Active", "Draining"} =>
                 \/ ph.epoch = n.epoch /\ ph.tag \in {"Active", "Draining"}
                 \/ ph.epoch = n.epoch /\ ph.tag = "Warmup" /\ ph.ready <= info.tick
                 \/ ReadyTick(info.initialTick) <= info.tick
<1>. DEFINE e == IF ph.epoch # info.epoch
                 THEN [tag |-> "Warmup", epoch |-> info.epoch, ready |-> ReadyTick(info.initialTick)]
                 ELSE ph
            w == IF e.tag = "Warmup" /\ info.tick >= e.ready
                 THEN [tag |-> "Active", epoch |-> info.epoch, ready |-> -1] ELSE e
<1>1. n = IF w.tag = "Active" /\ window THEN [w EXCEPT !.tag = "Draining"] ELSE w
    BY DEF Calendar!UpdateEpochPhase, Calendar!NoTick, ReadyTick
<1>2. ReadyTick(info.initialTick) \in Int
    BY Parameters DEF ReadyTick, Calendar!SaturatingAdd
<1>3. /\ e \in Phases /\ e.epoch = info.epoch /\ e.tag # "None"
      /\ \/ e = ph /\ ph.epoch = info.epoch
         \/ e.tag = "Warmup" /\ e.ready = ReadyTick(info.initialTick) /\ ph.epoch # info.epoch
    BY <1>2 DEF Phases
<1>. HIDE DEF e
<1>4. /\ w \in Phases /\ w.epoch = info.epoch /\ w.tag # "None"
      /\ w = e \/ (w.tag = "Active" /\ e.tag = "Warmup" /\ e.ready <= info.tick)
      /\ w.tag # "Warmup" \/ w = e
    BY <1>3 DEF Phases
<1>. HIDE DEF w
<1>5. /\ n \in Phases /\ n.epoch = info.epoch /\ n.tag # "None"
      /\ \/ n = w /\ ~(w.tag = "Active" /\ window)
         \/ n.tag = "Draining" /\ w.tag = "Active" /\ window
    BY <1>1, <1>4 DEF Phases
<1>. QED  BY <1>3, <1>4, <1>5

(* An answer that a cycle may get: of the network's epoch, or, for a while *)
(* after a change, of the one before.                                      *)
Sound(info) ==
    /\ info.epoch \in 1 .. epoch /\ info.tick \in Nat /\ info.initialTick \in Nat
    /\ initial[info.epoch] <= info.initialTick
    /\ info.epoch = epoch => info.tick = tick
    /\ info.epoch # epoch => info.epoch = epoch - 1 /\ clock <= changed + StaleFor

(* A later first tick has a later end of the warmup, and none is the first *)
(* tick itself.                                                            *)
LEMMA ReadyTicks ==
    ASSUME NetworkInv
    PROVE  /\ \A a, b \in Nat : a <= b => ReadyTick(a) \in Nat /\ ReadyTick(a) <= ReadyTick(b)
           /\ \A e \in 1 .. epoch : initial[e] \in Nat /\ initial[e] < ReadyTick(initial[e])
<1>1. \A a, b \in Nat : a <= b => ReadyTick(a) \in Nat /\ ReadyTick(a) <= ReadyTick(b)
    BY Parameters DEF ReadyTick, Calendar!SaturatingAdd
<1>2. ASSUME NEW e \in 1 .. epoch  PROVE initial[e] \in Nat /\ initial[e] <= initial[epoch]
    <2>1. epoch = 1 \/ epoch = 2 \/ epoch = 3  BY DEF NetworkInv
    <2>2. e = 1 \/ e = 2 \/ e = 3  BY <2>1
    <2>. QED  BY <2>1, <2>2 DEF NetworkInv
<1>3. initial[epoch] \in Nat /\ initial[epoch] + ResumeDelay <= MaxTick /\ ResumeDelay \in Nat \ {0}
    BY Parameters DEF NetworkInv
<1>4. \A a \in Nat : a <= initial[epoch] => a < ReadyTick(a)
    BY <1>3, Parameters DEF ReadyTick, Calendar!SaturatingAdd
<1>. QED  BY <1>1, <1>2, <1>4


(* The light node's answers are sound once its adapter has seen to the     *)
(* initial tick, and so is what it remembers.                              *)
LEMMA QlnIsSound ==
    ASSUME NetworkInv, FallbackInv, Calendar!ObserveQln, UNCHANGED <<epoch, initial>>
    PROVE  FallbackInv' /\ \E info : Sound(info) /\ Calendar!Enter(info)
<1>1. PICK view \in {<<epoch, tick>>} \cup Calendar!Stale :
         \E first \in {0, initial[epoch]} :
            LET status == Calendar!QlnReport(view, first)
            IN  /\ first # 0 => status.epoch = epoch
                /\ Calendar!Enter(Calendar!QlnTickInfo(status, fallback))
                /\ fallback' = Calendar!QlnFallback(status, fallback)
    BY DEF Calendar!ObserveQln
<1>2. PICK first \in {0, initial[epoch]} :
         LET status == Calendar!QlnReport(view, first)
         IN  /\ first # 0 => status.epoch = epoch
             /\ Calendar!Enter(Calendar!QlnTickInfo(status, fallback))
             /\ fallback' = Calendar!QlnFallback(status, fallback)
    BY <1>1
<1>. DEFINE status == Calendar!QlnReport(view, first)
            info == Calendar!QlnTickInfo(status, fallback)
<1>3. /\ epoch \in 1 .. 3 /\ tick \in Nat /\ initial \in [1 .. 3 -> Nat] /\ initial[epoch] <= tick
      /\ epoch > 1 => initial[epoch - 1] < initial[epoch]
    <2>1. epoch = 1 \/ epoch = 2 \/ epoch = 3  BY DEF NetworkInv
    <2>. QED  BY <2>1 DEF NetworkInv
<1>4. /\ status.epoch = view[1] /\ status.tick = view[2] /\ status.initialTick = first
      /\ DOMAIN status = {"epoch", "tick", "initialTick", "duration"}
    BY DEF Calendar!QlnReport
<1>5. /\ view[1] \in 1 .. epoch /\ view[2] \in Nat /\ initial[view[1]] <= view[2]
      /\ view[1] = epoch => view[2] = tick
      /\ view[1] # epoch => view[1] = epoch - 1 /\ clock <= changed + StaleFor
    <2>1. CASE view = <<epoch, tick>>  BY <1>3, <2>1
    <2>2. CASE view \in Calendar!Stale
        <3>1. view = <<epoch - 1, initial[epoch] - 1>> /\ epoch > 1 /\ clock <= changed + StaleFor
            BY <2>2 DEF Calendar!Stale
        <3>2. view[1] = epoch - 1 /\ view[2] = initial[epoch] - 1  BY <3>1
        <3>3. epoch = 2 \/ epoch = 3  BY <1>3, <3>1
        <3>. QED  BY <1>3, <3>1, <3>2, <3>3
    <2>. QED  BY <2>1, <2>2
<1>6. first # 0 => view[1] = epoch /\ first = initial[epoch]  BY <1>2, <1>4
<1>. DEFINE f == Calendar!QlnFallback(status, fallback)
<1>7. f = IF first # 0 THEN [epoch |-> view[1], initialTick |-> first]
          ELSE IF fallback.epoch # view[1] THEN [epoch |-> view[1], initialTick |-> view[2]]
          ELSE fallback
    BY <1>4 DEF Calendar!QlnFallback
<1>8. /\ info.epoch = view[1] /\ info.tick = view[2] /\ info.initialTick = f.initialTick
    BY <1>4 DEF Calendar!QlnTickInfo, Calendar!QlnReport
<1>9. fallback' = f  BY <1>2
<1>. HIDE DEF f, info, status
<1>10. /\ f \in [epoch : {-1} \cup (1 .. 3), initialTick : Nat] /\ f.epoch = view[1]
       /\ initial[f.epoch] <= f.initialTick
    <2>1. CASE first # 0  BY <1>3, <1>5, <1>6, <1>7, <2>1
    <2>2. CASE first = 0 /\ fallback.epoch # view[1]  BY <1>3, <1>5, <1>7, <2>2
    <2>3. CASE first = 0 /\ fallback.epoch = view[1]
        <3>1. f = fallback  BY <1>7, <2>3
        <3>2. fallback.epoch # -1  BY <1>3, <1>5, <2>3
        <3>. QED  BY <2>3, <3>1, <3>2 DEF FallbackInv
    <2>. QED  BY <2>1, <2>2, <2>3
<1>11. FallbackInv'  BY <1>3, <1>5, <1>9, <1>10 DEF FallbackInv
<1>12. Sound(info)
    <2>1. info.initialTick \in Nat  BY <1>8, <1>10
    <2>. QED  BY <1>5, <1>8, <1>10, <2>1 DEF Sound
<1>. QED  BY <1>2, <1>11, <1>12 DEF info, status

(* A field that Bob's adapter accepts holds the value.                     *)
LEMMA FieldHoldsValue ==
    ASSUME NEW v \in Nat, NEW f \in Calendar!Fields(v)
    PROVE  Calendar!CheckedU32(f) \in {v, -1}
<1>1. MaxU32 \in Nat  BY Parameters
<1>2. Calendar!Unsigned(f) \in {v, MaxU32 + 1, -1}
    BY DEF Calendar!Unsigned, Calendar!Fields, Calendar!None
<1>3. CASE f.form = "number" /\ f.value = MaxU32 + 1
    BY <1>1, <1>3 DEF Calendar!Unsigned, Calendar!CheckedU32, Calendar!None
<1>4. CASE f.form = "missing"
    BY <1>1, <1>4 DEF Calendar!Unsigned, Calendar!CheckedU32, Calendar!None
<1>5. CASE f.form \in {"number", "text"} /\ f.value = v
    BY <1>1, <1>5 DEF Calendar!Unsigned, Calendar!CheckedU32, Calendar!None
<1>. QED  BY <1>3, <1>4, <1>5 DEF Calendar!Fields

(* Bob's answers say what is so or are refused, and RPC nodes' are taken   *)
(* as they are.                                                            *)
LEMMA OthersAreSound ==
    ASSUME NetworkInv, Calendar!ObserveRpc \/ Calendar!ObserveBob
    PROVE  \E info : Sound(info) /\ Calendar!Enter(info)
<1>1. epoch \in 1 .. 3 /\ tick \in Nat /\ initial \in [1 .. 3 -> Nat] /\ initial[epoch] \in Nat
    BY DEF NetworkInv
<1>2. CASE Calendar!ObserveRpc
    <2>. DEFINE info == Calendar!RpcTickInfo(Calendar!RpcReport)
    <2>1. info.epoch = epoch /\ info.tick = tick /\ info.initialTick = initial[epoch]
        BY DEF Calendar!RpcTickInfo, Calendar!RpcReport
    <2>2. Sound(info)
        <3>. HIDE DEF info
        <3>. QED  BY <1>1, <2>1 DEF Sound
    <2>. QED  BY <1>2, <2>2 DEF Calendar!ObserveRpc
<1>3. CASE Calendar!ObserveBob
    <2>1. PICK e \in Calendar!Fields(epoch) :
             \E t \in Calendar!Fields(tick), i \in Calendar!Fields(initial[epoch]) :
                /\ Calendar!BobReport(e, t, i) # Calendar!NoTickInfo
                /\ Calendar!Enter(Calendar!BobReport(e, t, i))
        BY <1>3 DEF Calendar!ObserveBob
    <2>2. PICK t \in Calendar!Fields(tick), i \in Calendar!Fields(initial[epoch]) :
             /\ Calendar!BobReport(e, t, i) # Calendar!NoTickInfo
             /\ Calendar!Enter(Calendar!BobReport(e, t, i))
        BY <2>1
    <2>. DEFINE info == Calendar!BobReport(e, t, i)
    <2>3. /\ info.epoch = Calendar!CheckedU32(e) /\ info.tick = Calendar!CheckedU32(t)
          /\ info.initialTick = Calendar!CheckedU32(i)
          /\ -1 \notin {info.epoch, info.tick, info.initialTick}
        BY <2>2 DEF Calendar!BobReport, Calendar!BobTickInfo, Calendar!NoTickInfo, Calendar!None
    <2>4. info.epoch = epoch /\ info.tick = tick /\ info.initialTick = initial[epoch]
        <3>. HIDE DEF info
        <3>1. epoch \in Nat  BY <1>1
        <3>. QED  BY <1>1, <2>3, <3>1, FieldHoldsValue
    <2>5. Sound(info)
        <3>. HIDE DEF info
        <3>. QED  BY <1>1, <2>4 DEF Sound
    <2>. QED  BY <2>2, <2>5
<1>. QED  BY <1>2, <1>3


(* An answer keeps the phase right, and begins no enrolment too early.     *)
LEMMA EnterKeeps ==
    ASSUME NetworkInv, PhaseInv, NEW info, Sound(info), Calendar!Enter(info),
           UNCHANGED <<clock, epoch, tick, initial, changed>>
    PROVE  /\ PhaseInv'
           /\ \/ phase'.tag \notin {"Active", "Draining"}
              \/ phase.epoch = phase'.epoch /\ phase.tag \in {"Active", "Draining"}
              \/ ReadyTick(initial[phase'.epoch]) <= seen'.tick
<1>. DEFINE window == Calendar!StopWindow(clock, StopLead, Day)
            e == info.epoch
            same == phase'.tag = phase.tag /\ phase'.epoch = phase.epoch
<1>1. /\ clock \in Nat /\ epoch \in 1 .. 3 /\ tick \in Nat /\ changed \in Nat
      /\ changed <= clock /\ clock <= Edge(epoch) + Switch
      /\ initial \in [1 .. 3 -> Nat]
      /\ epoch > 1 => /\ Edge(epoch - 1) <= changed /\ changed <= Edge(epoch - 1) + Switch
                      /\ tick - initial[epoch] <= clock - changed
    BY DEF NetworkInv
<1>2. /\ e \in 1 .. epoch /\ info.tick \in Nat /\ info.initialTick \in Nat
      /\ initial[e] <= info.initialTick
      /\ e = epoch => info.tick = tick
      /\ e # epoch => e = epoch - 1 /\ clock <= changed + StaleFor
    BY DEF Sound
<1>3. /\ seenAt \in Nat /\ since \in Nat /\ since <= seenAt /\ seenAt <= clock
      /\ phase \in Phases
      /\ phase.tag = "None" => phase.epoch = -1
    BY DEF PhaseInv
<1>4. e \in 1 .. 3  BY <1>1, <1>2
<1>5. /\ seen' = info /\ seenAt' = clock /\ since' = IF same THEN since ELSE clock
      /\ phase' = Calendar!UpdateEpochPhase(phase, info, window)
    BY DEF Calendar!Enter
<1>6. window \in BOOLEAN /\ (window <=> Until(clock) <= StopLead) /\ Until(clock) \in Nat
    <2>1. Until(clock) \in Nat  BY <1>1, UntilIsToBoundary
    <2>2. window <=> Until(clock) <= StopLead  BY <1>1, WindowIsLead
    <2>3. window \in BOOLEAN  BY DEF Calendar!StopWindow
    <2>. QED  BY <2>1, <2>2, <2>3
<1>. HIDE DEF window
<1>7. /\ phase' \in Phases /\ phase'.tag # "None" /\ phase'.epoch = e
      /\ phase'.tag = "Warmup" => phase' = phase \/ phase'.ready = ReadyTick(info.initialTick)
      /\ phase'.tag = "Active" => ~window /\ ~(phase.tag = "Draining" /\ phase.epoch = phase'.epoch)
      /\ phase'.tag = "Draining" => window \/ (phase.tag = "Draining" /\ phase.epoch = phase'.epoch)
      /\ phase'.tag \in {"Active", "Draining"} =>
            \/ phase.epoch = phase'.epoch /\ phase.tag \in {"Active", "Draining"}
            \/ phase.epoch = phase'.epoch /\ phase.tag = "Warmup" /\ phase.ready <= info.tick
            \/ ReadyTick(info.initialTick) <= info.tick
    BY <1>2, <1>3, <1>4, <1>5, <1>6, PhaseMoves
<1>8. /\ initial[e] \in Nat /\ initial[e] < ReadyTick(initial[e])
      /\ ReadyTick(initial[e]) \in Nat /\ ReadyTick(info.initialTick) \in Nat
      /\ ReadyTick(initial[e]) <= ReadyTick(info.initialTick)
    BY <1>2, ReadyTicks
<1>9. phase.tag = "Warmup" /\ phase.epoch = e => ReadyTick(initial[e]) <= phase.ready
    BY DEF PhaseInv
<1>10. phase.ready \in Int  BY <1>3 DEF Phases
<1>11. \/ phase'.tag \notin {"Active", "Draining"}
       \/ phase.epoch = e /\ phase.tag \in {"Active", "Draining"}
       \/ ReadyTick(initial[e]) <= info.tick
    BY <1>2, <1>7, <1>8, <1>9, <1>10
<1>12. /\ Edge(0) \in Int /\ Edge(0) < 0 /\ Edge(1) \in Int /\ Edge(2) \in Int /\ Edge(3) \in Int
       /\ Edge(4) \in Int /\ Length \in Nat \ {0}
       /\ Edge(1) = Edge(0) + Length /\ Edge(2) = Edge(1) + Length /\ Edge(3) = Edge(2) + Length
       /\ Edge(4) = Edge(3) + Length
    BY Parameters
<1>. DEFINE before == Edge(e - 1)
            here == Edge(e)
            after == Edge(e + 1)
<1>13. /\ before \in Int /\ here \in Int /\ after \in Int /\ here = before + Length
       /\ after = here + Length /\ (e = 1 => before < 0)
    <2>1. e = 1 \/ e = 2 \/ e = 3  BY <1>4
    <2>. QED  BY <1>12, <2>1
<1>14. Gap \in Nat /\ StopLead \in Nat /\ Switch \in Nat /\ StaleFor \in Nat
       /\ StopLead + Switch + StaleFor < Length
    BY Parameters
<1>. HIDE DEF before, here, after
(* Where the client plans, the boundary its epoch began at is over.        *)
<1>15. ASSUME ReadyTick(initial[e]) <= info.tick  PROVE before < clock
    <2>1. CASE e = epoch
        <3>1. e > 1 => before <= changed /\ tick - initial[e] <= clock - changed
            BY <1>1, <2>1 DEF before
        <3>2. initial[e] < tick  BY <1>1, <1>2, <1>8, <1>15, <2>1
        <3>. QED  BY <1>1, <1>4, <1>8, <1>13, <3>1, <3>2
    <2>2. CASE e # epoch
        <3>1. e = epoch - 1 /\ epoch > 1  BY <1>1, <1>2, <2>2
        <3>2. here <= changed  BY <1>1, <3>1 DEF here
        <3>. QED  BY <1>1, <1>12, <1>13, <3>2
    <2>. QED  BY <2>1, <2>2
<1>16. ASSUME phase.tag = "Active", phase.epoch = e  PROVE before < clock
    <2>1. e > 1 => before < seenAt  BY <1>16 DEF PhaseInv, before
    <2>. QED  BY <1>1, <1>3, <1>4, <1>13, <2>1
(* And a stop window that opens on it is that of its own epoch.            *)
<1>17. ASSUME window, before < clock  PROVE here - StopLead <= clock /\ clock <= here
    <2>1. clock <= here + Switch + StaleFor
        <3>1. CASE e = epoch  BY <1>1, <1>13, <1>14, <3>1 DEF here
        <3>2. CASE e # epoch
            <4>1. e = epoch - 1 /\ epoch > 1 /\ clock <= changed + StaleFor  BY <1>1, <1>2, <3>2
            <4>2. changed <= here + Switch  BY <1>1, <4>1 DEF here
            <4>. QED  BY <1>1, <1>13, <1>14, <4>1, <4>2
        <3>. QED  BY <3>1, <3>2
    <2>2. clock <= here
        <3>. SUFFICES ASSUME here < clock PROVE FALSE  BY <1>1, <1>13
        <3>1. clock <= after  BY <1>1, <1>12, <1>13, <1>14, <2>1
        <3>2. e + 1 \in 1 .. 4 /\ (e + 1) - 1 = e  BY <1>4
        <3>3. Until(clock) = after - clock  BY <1>1, <3>1, <3>2, EpochEdges DEF after, here
        <3>. QED  BY <1>1, <1>6, <1>12, <1>13, <1>14, <1>17, <2>1, <3>3
    <2>3. e \in 1 .. 4  BY <1>4
    <2>4. Until(clock) = here - clock  BY <1>1, <1>17, <2>2, <2>3, EpochEdges DEF here, before
    <2>. QED  BY <1>1, <1>6, <1>13, <1>14, <1>17, <2>2, <2>4
<1>18. PhaseInv'
    <2>1. /\ seenAt' \in Nat /\ since' \in Nat
          /\ since' <= seenAt' /\ seenAt' <= clock' /\ clock' <= seenAt' + Gap
        BY <1>1, <1>3, <1>5, <1>14
    <2>2. phase'.tag # "None" /\ phase' \in Phases /\ phase'.epoch \in 1 .. epoch'
        BY <1>2, <1>7
    <2>3. ASSUME phase'.tag = "Warmup"  PROVE ReadyTick(initial'[phase'.epoch]) <= phase'.ready
        <3>1. CASE phase' = phase  BY <1>7, <1>9, <2>3, <3>1
        <3>2. CASE phase'.ready = ReadyTick(info.initialTick)  BY <1>7, <1>8, <3>2
        <3>. QED  BY <1>7, <2>3, <3>1, <3>2
    <2>4. ASSUME phase'.tag = "Active"
          PROVE  /\ StopLead < Until(seenAt')
                 /\ phase'.epoch > 1 => Edge(phase'.epoch - 1) < seenAt'
                 /\ \A k \in 1 .. 3 : ~(since' <= Edge(k) /\ Edge(k) < clock')
        <3>1. StopLead < Until(seenAt')  BY <1>5, <1>6, <1>7, <1>14, <2>4
        <3>2. before < clock  BY <1>7, <1>11, <1>15, <1>16, <2>4
        <3>3. CASE same
            <4>1. \A k \in 1 .. 3 : ~(since <= Edge(k) /\ Edge(k) < clock)
                BY <2>4, <3>3 DEF PhaseInv
            <4>. QED  BY <1>5, <1>7, <3>1, <3>2, <3>3, <4>1 DEF before
        <3>4. CASE ~same
            <4>1. \A k \in 1 .. 3 : Edge(k) \in Int
                BY <1>12
            <4>. QED  BY <1>1, <1>5, <1>7, <3>1, <3>2, <3>4, <4>1 DEF before
        <3>. QED  BY <3>3, <3>4
    <2>5. ASSUME phase'.tag = "Draining"
          PROVE  Edge(phase'.epoch) - StopLead <= since' /\ since' <= Edge(phase'.epoch)
        <3>1. CASE same
            <4>1. Edge(phase.epoch) - StopLead <= since /\ since <= Edge(phase.epoch)
                BY <2>5, <3>1 DEF PhaseInv
            <4>. QED  BY <1>5, <3>1, <4>1
        <3>2. CASE ~same
            <4>1. window /\ ~(phase.tag = "Draining" /\ phase.epoch = e)  BY <1>7, <2>5, <3>2
            <4>2. before < clock  BY <1>7, <1>11, <1>15, <1>16, <2>5, <4>1
            <4>. QED  BY <1>5, <1>7, <1>17, <3>2, <4>1, <4>2 DEF here
        <3>. QED  BY <3>1, <3>2
    <2>. QED  BY <2>1, <2>2, <2>3, <2>4, <2>5 DEF PhaseInv
<1>. QED  BY <1>5, <1>7, <1>11, <1>18


(* Time goes on for the network: no cycle for as long as there may be none *)
(* does not reach across a boundary.                                       *)
LEMMA AdvanceKeeps ==
    ASSUME CalendarInv, Calendar!Advance
    PROVE  CalendarInv'
<1>1. NetworkInv /\ FallbackInv /\ PhaseInv  BY DEF CalendarInv
<1>2. /\ clock < LastClock /\ clock < Edge(epoch) + Switch /\ clock < seenAt + Gap
      /\ clock' = clock + 1 /\ tick' \in {tick, tick + 1}
      /\ UNCHANGED <<epoch, initial, changed, backend, fallback, phase, seen, seenAt, since>>
    BY DEF Calendar!Advance, Calendar!client, Edge
<1>3. /\ clock \in Nat /\ epoch \in 1 .. 3 /\ tick \in Nat /\ tick <= clock + epoch + 1
      /\ initial \in [1 .. 3 -> Nat] /\ initial[epoch] <= tick /\ changed \in Nat
      /\ changed <= clock
      /\ epoch > 1 => /\ Edge(epoch - 1) <= changed /\ changed <= Edge(epoch - 1) + Switch
                      /\ tick - initial[epoch] <= clock - changed
    BY <1>1 DEF NetworkInv
<1>4. /\ LastClock \in Nat /\ Switch \in Nat /\ Gap \in Nat /\ StopLead \in Nat /\ Gap <= StopLead + 1
      /\ \A e \in 1 .. 3 : Edge(e) \in Int
    <2>1. Edge(1) \in Int /\ Edge(2) \in Int /\ Edge(3) \in Int  BY Parameters
    <2>. QED  BY <2>1, Parameters
<1>5. Edge(epoch) \in Int /\ initial[epoch] \in Nat  BY <1>3, <1>4
<1>6. NetworkInv'
    <2>1. \A e \in 1 .. 2 : e < epoch => initial[e] < initial[e + 1]  BY <1>1 DEF NetworkInv
    <2>2. clock' \in Nat /\ clock' <= LastClock /\ clock' <= Edge(epoch) + Switch
        BY <1>2, <1>3, <1>4, <1>5
    <2>3. tick' \in Nat /\ tick' <= clock' + epoch + 1 /\ initial[epoch] <= tick' /\ changed <= clock'
        BY <1>2, <1>3, <1>5
    <2>4. epoch > 1 => tick' - initial[epoch] <= clock' - changed  BY <1>2, <1>3, <1>5
    <2>. QED  BY <1>2, <1>3, <2>1, <2>2, <2>3, <2>4 DEF NetworkInv
<1>7. FallbackInv'  BY <1>1, <1>2 DEF FallbackInv
<1>8. PhaseInv'
    <2>1. /\ seenAt \in Nat /\ since \in Nat /\ since <= seenAt /\ seenAt <= clock
          /\ clock <= seenAt + Gap
        BY <1>1 DEF PhaseInv
    <2>2. ASSUME phase.tag = "Active", NEW e \in 1 .. 3, since <= Edge(e), Edge(e) < clock + 1
          PROVE  FALSE
        <3>1. StopLead < Until(seenAt) /\ ~(since <= Edge(e) /\ Edge(e) < clock)
            BY <1>1, <2>2 DEF PhaseInv
        <3>2. Edge(e) = clock  BY <1>3, <1>4, <2>2, <3>1
        <3>3. seenAt <= Edge(e)  BY <2>1, <3>2
        <3>4. Until(seenAt) \in Nat /\ Until(seenAt) <= Edge(e) - seenAt  BY <2>1, <3>3, EpochEdges
        <3>. QED  BY <1>2, <1>3, <1>4, <2>1, <3>1, <3>2, <3>4
    <2>3. clock' <= seenAt + Gap /\ seenAt <= clock'  BY <1>2, <1>3, <1>4, <2>1
    <2>4. phase.tag = "Active" => \A e \in 1 .. 3 : ~(since <= Edge(e) /\ Edge(e) < clock')
        BY <1>2, <2>2
    <2>. QED  BY <1>1, <1>2, <2>1, <2>3, <2>4 DEF PhaseInv
<1>. QED  BY <1>6, <1>7, <1>8 DEF CalendarInv

(* The network's next epoch leaves what is known of the earlier ones.      *)
LEMMA ChangeKeeps ==
    ASSUME CalendarInv, Calendar!ChangeEpoch
    PROVE  CalendarInv'
<1>1. NetworkInv /\ FallbackInv /\ PhaseInv  BY DEF CalendarInv
<1>2. /\ Edge(epoch) <= clock /\ epoch + 1 \in 1 .. 3 /\ epoch' = epoch + 1 /\ tick' = tick + 1
      /\ initial' = [initial EXCEPT ![epoch + 1] = tick + 1] /\ changed' = clock
      /\ UNCHANGED <<clock, backend, fallback, phase, seen, seenAt, since>>
    BY DEF Calendar!ChangeEpoch, Calendar!client, Calendar!Epochs, Edge
<1>3. /\ clock \in Nat /\ clock <= LastClock /\ epoch \in 1 .. 2 /\ tick \in Nat
      /\ tick <= clock + epoch + 1 /\ clock <= Edge(epoch) + Switch
      /\ initial \in [1 .. 3 -> Nat] /\ initial[epoch] <= tick
      /\ \A e \in 1 .. 2 : e < epoch => initial[e] < initial[e + 1]
    BY <1>1, <1>2 DEF NetworkInv
<1>4. /\ initial' \in [1 .. 3 -> Nat] /\ initial'[epoch'] = tick'
      /\ \A e \in 1 .. epoch : initial'[e] = initial[e]
    BY <1>2, <1>3
<1>5. Edge(epoch) \in Int /\ Edge(epoch + 1) \in Int /\ Edge(epoch) <= Edge(epoch + 1) /\ Switch \in Nat
    <2>1. epoch = 1 \/ epoch = 2  BY <1>3
    <2>. QED  BY <2>1, Parameters
<1>6. NetworkInv'
    <2>1. clock <= Edge(epoch + 1) + Switch  BY <1>3, <1>5
    <2>2. (epoch + 1) - 1 = epoch  BY <1>3
    <2>3. \A e \in 1 .. 2 : e < epoch' => initial'[e] < initial'[e + 1]
        <3>1. initial[epoch] < initial'[epoch + 1]  BY <1>2, <1>3, <1>4
        <3>2. CASE epoch = 1  BY <1>2, <1>4, <3>1, <3>2
        <3>3. CASE epoch = 2
            <4>1. initial'[1] = initial[1] /\ initial'[2] = initial[2]  BY <1>4, <3>3
            <4>2. initial[1] < initial[2]  BY <1>3, <3>3
            <4>. QED  BY <1>2, <3>1, <3>3, <4>1, <4>2
        <3>. QED  BY <1>3, <3>2, <3>3
    <2>. QED  BY <1>2, <1>3, <1>4, <1>5, <2>1, <2>2, <2>3 DEF NetworkInv
<1>7. FallbackInv'
    <2>1. /\ fallback \in [epoch : {-1} \cup (1 .. 3), initialTick : Nat] /\ fallback.epoch <= epoch
          /\ fallback.epoch # -1 => initial[fallback.epoch] <= fallback.initialTick
        BY <1>1 DEF FallbackInv
    <2>2. fallback.epoch # -1 => fallback.epoch \in 1 .. epoch  BY <1>3, <2>1
    <2>. QED  BY <1>2, <1>3, <1>4, <2>1, <2>2 DEF FallbackInv
<1>8. PhaseInv'
    <2>1. phase.tag # "None" => phase.epoch \in 1 .. epoch /\ phase.epoch \in 1 .. epoch'
        BY <1>1, <1>2, <1>3 DEF PhaseInv
    <2>2. phase.tag = "Warmup" => initial'[phase.epoch] = initial[phase.epoch]  BY <1>4, <2>1
    <2>. QED  BY <1>1, <1>2, <2>1, <2>2 DEF PhaseInv
<1>. QED  BY <1>6, <1>7, <1>8 DEF CalendarInv

(* What one cycle's answer may not do to the phase.                        *)
NotCutShort ==
    \/ phase'.tag \notin {"Active", "Draining"}
    \/ phase.epoch = phase'.epoch /\ phase.tag \in {"Active", "Draining"}
    \/ ReadyTick(initial[phase'.epoch]) <= seen'.tick

(* A cycle with tick metadata, through whichever adapter.                  *)
LEMMA ObserveKeeps ==
    ASSUME CalendarInv, Calendar!Observe
    PROVE  CalendarInv' /\ NotCutShort
<1>1. NetworkInv /\ FallbackInv /\ PhaseInv  BY DEF CalendarInv
<1>2. UNCHANGED <<clock, epoch, tick, initial, changed>>
    BY DEF Calendar!Observe, Calendar!network
<1>3. FallbackInv' /\ \E info : Sound(info) /\ Calendar!Enter(info)
    <2>1. CASE Calendar!ObserveQln  BY <1>1, <1>2, <2>1, QlnIsSound
    <2>2. CASE Calendar!ObserveRpc \/ Calendar!ObserveBob
        <3>1. UNCHANGED fallback  BY <2>2 DEF Calendar!ObserveRpc, Calendar!ObserveBob
        <3>2. FallbackInv'  BY <1>1, <1>2, <3>1 DEF FallbackInv
        <3>. QED  BY <1>1, <2>2, <3>2, OthersAreSound
    <2>. QED  BY <2>1, <2>2 DEF Calendar!Observe
<1>4. PICK info : Sound(info) /\ Calendar!Enter(info)  BY <1>3
<1>5. PhaseInv' /\ NotCutShort  BY <1>1, <1>2, <1>4, EnterKeeps DEF NotCutShort
<1>6. NetworkInv'  BY <1>1, <1>2 DEF NetworkInv
<1>. QED  BY <1>3, <1>5, <1>6 DEF CalendarInv

(* The three parts hold from the start.                                    *)
LEMMA CalendarStarts == ProcessInit => CalendarInv
<1>. SUFFICES ASSUME ProcessInit PROVE CalendarInv  OBVIOUS
<1>1. Calendar!CalendarInit  BY DEF ProcessInit
<1>2. /\ clock \in FirstClocks /\ epoch = 1 /\ tick \in {1, 2} /\ changed = 0
      /\ initial = [e \in 1 .. 3 |-> IF e = 1 THEN 1 ELSE 0]
      /\ fallback = [epoch |-> -1, initialTick |-> 0]
      /\ phase = [tag |-> "None", epoch |-> -1, ready |-> -1]
      /\ seenAt = clock /\ since = clock
    BY <1>1 DEF Calendar!CalendarInit, Calendar!Epochs, Calendar!NoFallback, Calendar!NoPhase,
                Calendar!None, Calendar!NoTick
<1>3. clock \in Nat /\ clock <= LastClock /\ clock <= Edge(1) + Switch /\ Gap \in Nat
    BY <1>2, Parameters
<1>4. NetworkInv  BY <1>2, <1>3 DEF NetworkInv
<1>5. FallbackInv  BY <1>2 DEF FallbackInv
<1>6. PhaseInv  BY <1>2, <1>3 DEF PhaseInv, Phases
<1>. QED  BY <1>4, <1>5, <1>6 DEF CalendarInv

(* Every step of the process keeps the calendar's invariant, and none cuts *)
(* a warmup short.                                                         *)
LEMMA CalendarStep ==
    ASSUME CalendarInv, [ProcessNext]_Machines
    PROVE  CalendarInv' /\ (UNCHANGED calendar \/ NotCutShort)
<1>1. CASE UNCHANGED calendar
    BY <1>1 DEF CalendarInv, NetworkInv, FallbackInv, PhaseInv, calendar
<1>2. CASE Calendar!Advance
    <2>1. UNCHANGED phase  BY <1>2 DEF Calendar!Advance, Calendar!client
    <2>2. NotCutShort  BY <2>1 DEF NotCutShort
    <2>. QED  BY <1>2, <2>2, AdvanceKeeps
<1>3. CASE Calendar!ChangeEpoch
    <2>1. UNCHANGED phase  BY <1>3 DEF Calendar!ChangeEpoch, Calendar!client
    <2>2. NotCutShort  BY <2>1 DEF NotCutShort
    <2>. QED  BY <1>3, <2>2, ChangeKeeps
<1>4. CASE Calendar!Observe  BY <1>4, ObserveKeeps
<1>5. CASE Calendar!CalendarDone
    BY <1>1, <1>5 DEF Calendar!CalendarDone, Calendar!calendarVars, Calendar!network,
                      Calendar!client, calendar
<1>. QED  BY <1>1, <1>2, <1>3, <1>4, <1>5 DEF ProcessNext, Machines, Calendar!CalendarNext

(* The network in its order, the adapter's memory and the phase stay in    *)
(* step, through every cycle and every lack of one.                        *)
THEOREM CalendarInvariant == ProcessSpec => []CalendarInv
<1>1. CalendarInv /\ [ProcessNext]_Machines => CalendarInv'  BY CalendarStep
<1>. QED  BY <1>1, CalendarStarts, PTL DEF ProcessSpec, Machines

(* No stretch of planning reaches across a boundary, and every drain is    *)
(* for the boundary that ends its own epoch: with a cycle in every stop    *)
(* window, and no epoch that begins in the stop window of its end.         *)
THEOREM PlanningAlwaysStops == ProcessSpec => []PlanningStopsAtBoundaries
<1>1. ASSUME CalendarInv  PROVE PlanningStopsAtBoundaries
    <2>1. PhaseInv /\ NetworkInv  BY <1>1 DEF CalendarInv
    <2>2. Calendar!NoPlanningAcrossBoundary
        BY <2>1 DEF PhaseInv, Calendar!NoPlanningAcrossBoundary, Calendar!Epochs, Edge
    <2>3. Calendar!DrainsOwnEnd
        <3>. SUFFICES ASSUME phase.tag = "Draining"
                      PROVE  since \in Edge(phase.epoch) - StopLead .. Edge(phase.epoch)
            BY DEF Calendar!DrainsOwnEnd, Edge
        <3>1. /\ Edge(phase.epoch) - StopLead <= since /\ since <= Edge(phase.epoch)
              /\ phase.epoch \in 1 .. epoch /\ since \in Nat
            BY <2>1 DEF PhaseInv
        <3>2. phase.epoch = 1 \/ phase.epoch = 2 \/ phase.epoch = 3  BY <2>1, <3>1 DEF NetworkInv
        <3>3. Edge(phase.epoch) \in Int /\ StopLead \in Int  BY <3>2, Parameters
        <3>. QED  BY <3>1, <3>3
    <2>. QED  BY <2>2, <2>3 DEF PlanningStopsAtBoundaries
<1>. QED  BY <1>1, CalendarInvariant, PTL

(* Enrolment waits for the configured delay after the true first tick of   *)
(* the epoch, whatever the node leaves out and whichever adapter it is.    *)
THEOREM WarmupNeverCutShort == ProcessSpec => WarmupNotCutShort
<1>. DEFINE A == \/ phase'.tag \notin {"Active", "Draining"}
                 \/ phase.epoch = phase'.epoch /\ phase.tag \in {"Active", "Draining"}
                 \/ seen'.tick >= Calendar!SaturatingAdd(initial[phase'.epoch], ResumeDelay)
<1>1. ASSUME CalendarInv, [ProcessNext]_Machines  PROVE [A]_Calendar!calendarVars
    <2>1. UNCHANGED calendar \/ NotCutShort  BY <1>1, CalendarStep
    <2>2. CASE UNCHANGED calendar
        BY <2>2 DEF calendar, Calendar!calendarVars, Calendar!network, Calendar!client
    <2>3. CASE NotCutShort
        BY <2>3 DEF NotCutShort, ReadyTick
    <2>. QED  BY <2>1, <2>2, <2>3
<1>2. ProcessSpec => [][A]_Calendar!calendarVars
    BY <1>1, CalendarInvariant, PTL DEF ProcessSpec, Machines
<1>. QED  BY <1>2 DEF WarmupNotCutShort, Calendar!WarmupNotCutShort

-----------------------------------------------------------------------------
(* The endpoint *)

(* The empty piece, behind a last slash.                                   *)
Blank == ""

(* The pieces of an endpoint; the provers know of no string that it is one. *)
Piece == STRING \cup {Blank, "v1", "live", "query", "qubic"}

(* The pieces of paths are none of them empty.                             *)
LEMMA Pieces ==
    /\ Blank \in Piece /\ "v1" \in Piece /\ "live" \in Piece /\ "query" \in Piece /\ "qubic" \in Piece
    /\ "v1" # Blank /\ "live" # Blank /\ "query" # Blank /\ "qubic" # Blank
BY Zenon DEF Piece, Blank

(* Tuples of pieces, one by one.                                           *)
LEMMA Tuples ==
    /\ \A x \in Piece : <<x>> \in Seq(Piece) /\ Len(<<x>>) = 1 /\ <<x>>[1] = x /\ <<x>> # <<>>
    /\ \A x, y \in Piece : /\ <<x, y>> \in Seq(Piece) /\ Len(<<x, y>>) = 2
                            /\ <<x, y>>[1] = x /\ <<x, y>>[2] = y /\ <<x, y>> # <<>>
    /\ \A x, y, z \in Piece : /\ <<x, y, z>> \in Seq(Piece) /\ Len(<<x, y, z>>) = 3
                               /\ <<x, y, z>>[1] = x /\ <<x, y, z>>[2] = y /\ <<x, y, z>>[3] = z
OBVIOUS

(* The pieces of an endpoint that are not empty reach up to the last one.  *)
LEMMA TrimmedAt ==
    ASSUME NEW b
    PROVE  LET last == Max({0} \cup {n \in DOMAIN b : b[n] # Blank})
           IN  TrimEnd(b) = IF last = 0 THEN <<Blank>> ELSE SubSeq(b, 1, last)
BY Zenon DEF TrimEnd, Blank

(* Trailing empty pieces are cut, and nothing else.                        *)
LEMMA TrimTo ==
    ASSUME NEW b \in Seq(Piece), NEW c \in Seq(Piece), Len(c) \in 1 .. Len(b),
           \A i \in 1 .. Len(c) : b[i] = c[i], c[Len(c)] # Blank,
           \A i \in Len(c) + 1 .. Len(b) : b[i] = Blank
    PROVE  TrimEnd(b) = c
<1>. DEFINE n == Len(c)
            S == {0} \cup {k \in DOMAIN b : b[k] # Blank}
<1>0. n \in 1 .. Len(b) /\ n \in Int /\ b[n] # Blank /\ DOMAIN b = 1 .. Len(b) /\ Len(b) \in Nat  OBVIOUS
<1>1. n \in S /\ \A k \in S : n >= k  BY <1>0
<1>2. \A x \in S : (\A y \in S : x >= y) => x = n  BY <1>0, <1>1
<1>. HIDE DEF S, n
<1>3. Max(S) = n  BY <1>1, <1>2 DEF Max
<1>4. TrimEnd(b) = SubSeq(b, 1, n)  
    <2>1. TrimEnd(b) = IF Max(S) = 0 THEN <<Blank>> ELSE SubSeq(b, 1, Max(S))  BY TrimmedAt DEF S
    <2>. QED  BY <1>0, <1>3, <2>1 DEF n
<1>5. /\ SubSeq(b, 1, n) \in Seq(Piece) /\ Len(SubSeq(b, 1, n)) = n
      /\ \A i \in 1 .. n : SubSeq(b, 1, n)[i] = b[i]
    <2>1. \A i \in 1 .. n : b[i] \in Piece  BY <1>0
    <2>. QED  BY <1>0, <2>1, SubSeqProperties
<1>6. SubSeq(b, 1, n) = c  BY <1>5, SeqEqual DEF n
<1>. QED  BY <1>4, <1>6

(* A path at the end, piece by piece.                                      *)
LEMMA EndsPiecewise ==
    ASSUME NEW b \in Seq(Piece), NEW path \in Seq(Piece)
    PROVE  EndsWith(b, path) <=> /\ Len(path) < Len(b)
                                 /\ \A i \in 1 .. Len(path) : path[i] = b[Len(b) - Len(path) + i]
<1>. DEFINE m == Len(path)  n == Len(b)
            rp == Reverse(path)  rb == Reverse(b)
<1>0. m \in Nat /\ n \in Nat  OBVIOUS
<1>1. /\ rp = [i \in 1 .. m |-> path[m - i + 1]] /\ rb = [i \in 1 .. n |-> b[n - i + 1]]
      /\ Len(rp) = m /\ Len(rb) = n /\ rp \in Seq(Piece) /\ rb \in Seq(Piece)
    BY <1>0 DEF Reverse
<1>. SUFFICES ASSUME m < n
              PROVE  IsSuffix(path, b) <=> \A i \in 1 .. m : path[i] = b[n - m + i]
    BY <1>0 DEF EndsWith
<1>2. IsSuffix(path, b) <=> SubSeq(rp, 1, m) = SubSeq(rb, 1, m)
    <2>1. IsSuffix(path, b) <=> IsPrefix(rp, rb)  BY DEF IsSuffix
    <2>3. Len(rp) = m /\ Len(rb) = n /\ m <= n  BY <1>0, <1>1
    <2>. HIDE DEF rp, rb
    <2>2. IsPrefix(rp, rb) <=> (Len(rp) <= Len(rb) /\ SubSeq(rp, 1, Len(rp)) = SubSeq(rb, 1, Len(rp)))
        BY DEF IsPrefix
    <2>. HIDE DEF m, n
    <2>. QED  BY <2>1, <2>2, <2>3
<1>3. /\ SubSeq(rp, 1, m) \in Seq(Piece) /\ Len(SubSeq(rp, 1, m)) = m
      /\ \A i \in 1 .. m : SubSeq(rp, 1, m)[i] = path[m - i + 1]
    <2>1. \A i \in 1 .. m : rp[i] = path[m - i + 1] /\ rp[i] \in Piece  BY <1>0, <1>1
    <2>. HIDE DEF rp
    <2>. QED  BY <1>0, <2>1, SubSeqProperties
<1>4. /\ SubSeq(rb, 1, m) \in Seq(Piece) /\ Len(SubSeq(rb, 1, m)) = m
      /\ \A i \in 1 .. m : SubSeq(rb, 1, m)[i] = b[n - i + 1]
    <2>1. \A i \in 1 .. m : rb[i] = b[n - i + 1] /\ rb[i] \in Piece  BY <1>0, <1>1
    <2>. HIDE DEF rb
    <2>. QED  BY <1>0, <2>1, SubSeqProperties
<1>. HIDE DEF rp, rb
<1>5. SubSeq(rp, 1, m) = SubSeq(rb, 1, m) <=> \A i \in 1 .. m : path[m - i + 1] = b[n - i + 1]
    BY <1>3, <1>4, SeqEqual
<1>6. (\A i \in 1 .. m : path[m - i + 1] = b[n - i + 1]) <=> \A i \in 1 .. m : path[i] = b[n - m + i]
    <2>1. ASSUME \A i \in 1 .. m : path[m - i + 1] = b[n - i + 1], NEW i \in 1 .. m
          PROVE  path[i] = b[n - m + i]
        <3>1. m - i + 1 \in 1 .. m /\ m - (m - i + 1) + 1 = i /\ n - (m - i + 1) + 1 = n - m + i
            BY <1>0
        <3>. QED  BY <2>1, <3>1
    <2>2. ASSUME \A i \in 1 .. m : path[i] = b[n - m + i], NEW i \in 1 .. m
          PROVE  path[m - i + 1] = b[n - i + 1]
        <3>1. m - i + 1 \in 1 .. m /\ n - m + (m - i + 1) = n - i + 1  BY <1>0
        <3>. QED  BY <2>2, <3>1
    <2>. QED  BY <2>1, <2>2
<1>. QED  BY <1>2, <1>5, <1>6

(* A base that begins with c, followed by a path of this length.           *)
LEMMA StripTo ==
    ASSUME NEW b \in Seq(Piece), NEW path \in Seq(Piece), NEW c \in Seq(Piece),
           Len(c) >= 1, c[Len(c)] # Blank, Len(b) = Len(c) + Len(path),
           \A i \in 1 .. Len(c) : b[i] = c[i]
    PROVE  Stripped(b, path) = c
<1>. DEFINE d == SubSeq(b, 1, Len(c))
<1>1. Len(c) \in Nat /\ Len(path) \in Nat /\ Len(b) - Len(path) = Len(c)  OBVIOUS
<1>2. /\ d \in Seq(Piece) /\ Len(d) = Len(c) /\ \A i \in 1 .. Len(c) : d[i] = b[i]
    <2>1. \A i \in 1 .. Len(c) : b[i] \in Piece  BY <1>1
    <2>. QED  BY <1>1, <2>1, SubSeqProperties
<1>3. TrimEnd(d) = c
    <2>. HIDE DEF d
    <2>1. Len(c) \in 1 .. Len(d) /\ \A i \in Len(c) + 1 .. Len(d) : d[i] = Blank  BY <1>1, <1>2
    <2>. QED  BY <1>2, <2>1, TrimTo
<1>. QED  BY <1>1, <1>3 DEF Stripped

(* The path that is taken off is the first in the order.                   *)
LEMMA FirstFound ==
    ASSUME NEW base, NEW paths, NEW k \in DOMAIN paths, DOMAIN paths \subseteq Int,
           EndsWith(base, paths[k]), \A j \in DOMAIN paths : j < k => ~EndsWith(base, paths[j])
    PROVE  LET found == {j \in DOMAIN paths : EndsWith(base, paths[j])}
           IN  found # {} /\ (CHOOSE i \in found : \A j \in found : i <= j) = k
<1>. DEFINE found == {j \in DOMAIN paths : EndsWith(base, paths[j])}
<1>1. k \in found /\ \A j \in found : k <= j  OBVIOUS
<1>2. \A i \in found : (\A j \in found : i <= j) => i = k  BY <1>1
<1>. HIDE DEF found
<1>3. (CHOOSE i \in found : \A j \in found : i <= j) = k  BY <1>1, <1>2
<1>. QED  BY <1>1, <1>3 DEF found

(* A root as the operator means it: its last piece is none of a path.      *)
Rooted(r) == r \in Seq(Piece) /\ r # <<>> /\ r[Len(r)] \notin {Blank, "v1", "live", "query", "qubic"}

(* With a scheme, its own or the default.                                  *)
Full(r) == IF HasScheme(r) THEN r ELSE <<"http:", "">> \o r

(* What is behind a root, piece by piece.                                  *)
LEMMA Behind ==
    ASSUME NEW r \in Seq(Piece), NEW p \in Seq(Piece)
    PROVE  /\ r \o p \in Seq(Piece) /\ Len(r \o p) = Len(r) + Len(p)
           /\ \A i \in 1 .. Len(r) : (r \o p)[i] = r[i]
           /\ \A i \in 1 .. Len(p) : (r \o p)[Len(r) + i] = p[i]
<1>1. Len(r) \in Nat /\ Len(p) \in Nat  OBVIOUS
<1>. QED  BY <1>1, ConcatProperties

(* A path and any number of slashes behind it.                             *)
Slashed(p, q) ==
    /\ Len(q) <= Len(p) /\ \A i \in 1 .. Len(q) : p[i] = q[i]
    /\ q = <<>> \/ q[Len(q)] # Blank
    /\ \A i \in Len(q) + 1 .. Len(p) : p[i] = Blank

(* A root followed by pieces of a path and any number of slashes is        *)
(* trimmed to root and path.                                               *)
LEMMA TrimBehind ==
    ASSUME NEW r, Rooted(r), NEW p \in Seq(Piece), NEW q \in Seq(Piece), Slashed(p, q)
    PROVE  TrimEnd(r \o p) = r \o q
<1>0. /\ Len(q) <= Len(p) /\ \A i \in 1 .. Len(q) : p[i] = q[i]
      /\ q = <<>> \/ q[Len(q)] # Blank
      /\ \A i \in Len(q) + 1 .. Len(p) : p[i] = Blank
    BY DEF Slashed
<1>. DEFINE b == r \o p  c == r \o q
<1>1. r \in Seq(Piece) /\ r # <<>> /\ r[Len(r)] # Blank /\ Len(r) \in Nat \ {0}
      /\ Len(p) \in Nat /\ Len(q) \in Nat
    BY DEF Rooted
<1>2. /\ b \in Seq(Piece) /\ Len(b) = Len(r) + Len(p)
      /\ \A i \in 1 .. Len(r) : b[i] = r[i]
      /\ \A i \in 1 .. Len(p) : b[Len(r) + i] = p[i]
    BY <1>1, Behind
<1>3. /\ c \in Seq(Piece) /\ Len(c) = Len(r) + Len(q)
      /\ \A i \in 1 .. Len(r) : c[i] = r[i]
      /\ \A i \in 1 .. Len(q) : c[Len(r) + i] = q[i]
    BY <1>1, Behind
<1>. HIDE DEF b, c
<1>4. Len(c) \in 1 .. Len(b)  BY <1>0, <1>1, <1>2, <1>3
<1>5. ASSUME NEW i \in 1 .. Len(c) PROVE b[i] = c[i]
    <2>1. CASE i <= Len(r)  BY <1>0, <1>1, <1>2, <1>3, <2>1
    <2>2. CASE i > Len(r)
        <3>1. i - Len(r) \in 1 .. Len(q) /\ i = Len(r) + (i - Len(r))  BY <1>0, <1>1, <1>3, <2>2
        <3>2. PICK j \in 1 .. Len(q) : i = Len(r) + j  BY <3>1
        <3>3. j \in 1 .. Len(p)  BY <1>0, <1>1
        <3>. QED  BY <1>0, <1>2, <1>3, <3>2, <3>3
    <2>. QED  BY <1>1, <1>3, <2>1, <2>2
<1>6. c[Len(c)] # Blank
    <2>1. CASE q = <<>>  BY <1>0, <1>1, <1>3, <2>1
    <2>2. CASE q # <<>>  BY <1>0, <1>1, <1>3, <2>2
    <2>. QED  BY <2>1, <2>2
<1>7. ASSUME NEW i \in Len(c) + 1 .. Len(b) PROVE b[i] = Blank
    <2>1. i - Len(r) \in Len(q) + 1 .. Len(p) /\ i = Len(r) + (i - Len(r)) /\ i - Len(r) \in 1 .. Len(p)
        BY <1>0, <1>1, <1>2, <1>3
    <2>. QED  BY <1>0, <1>2, <2>1
<1>8. TrimEnd(b) = c  BY <1>2, <1>3, <1>4, <1>5, <1>6, <1>7, TrimTo
<1>. QED  BY <1>8 DEF b, c

(* A path at the end of root and pieces that are not more than it is that  *)
(* of these pieces.                                                        *)
LEMMA EndsBehind ==
    ASSUME NEW r, Rooted(r), NEW q \in Seq(Piece), NEW path \in Seq(Piece)
    PROVE  /\ Len(path) <= Len(q) => (EndsWith(r \o q, path) <=>
                  \A i \in 1 .. Len(path) : path[i] = q[Len(q) - Len(path) + i])
           /\ (Len(path) > Len(q) /\ path[Len(path) - Len(q)] # r[Len(r)]) => ~EndsWith(r \o q, path)
<1>. DEFINE b == r \o q
<1>1. r \in Seq(Piece) /\ r # <<>> /\ Len(r) \in Nat \ {0} /\ Len(q) \in Nat /\ Len(path) \in Nat
    BY DEF Rooted
<1>2. /\ b \in Seq(Piece) /\ Len(b) = Len(r) + Len(q)
      /\ \A i \in 1 .. Len(r) : b[i] = r[i]
      /\ \A i \in 1 .. Len(q) : b[Len(r) + i] = q[i]
    BY <1>1, Behind
<1>. HIDE DEF b
<1>3. EndsWith(b, path) <=> /\ Len(path) < Len(b)
                            /\ \A i \in 1 .. Len(path) : path[i] = b[Len(b) - Len(path) + i]
    BY <1>2, EndsPiecewise
<1>4. ASSUME Len(path) <= Len(q)
      PROVE  EndsWith(b, path) <=> \A i \in 1 .. Len(path) : path[i] = q[Len(q) - Len(path) + i]
    <2>1. ASSUME NEW i \in 1 .. Len(path)  PROVE b[Len(b) - Len(path) + i] = q[Len(q) - Len(path) + i]
        <3>1. /\ Len(q) - Len(path) + i \in 1 .. Len(q)
              /\ Len(b) - Len(path) + i = Len(r) + (Len(q) - Len(path) + i)
            BY <1>1, <1>2, <1>4
        <3>. QED  BY <1>2, <3>1
    <2>. QED  BY <1>1, <1>2, <1>3, <1>4, <2>1
<1>5. ASSUME Len(path) > Len(q), path[Len(path) - Len(q)] # r[Len(r)]  PROVE ~EndsWith(b, path)
    <2>1. CASE Len(path) < Len(b)
        <3>1. PICK k \in 1 .. Len(path) : k = Len(path) - Len(q)  BY <1>1, <1>5
        <3>2. Len(b) - Len(path) + k = Len(r) /\ Len(r) \in 1 .. Len(r)  BY <1>1, <1>2, <3>1
        <3>3. b[Len(b) - Len(path) + k] = r[Len(r)]  BY <1>2, <3>2
        <3>. QED  BY <1>3, <1>5, <3>1, <3>3
    <2>. QED  BY <1>3, <2>1
<1>. QED  BY <1>4, <1>5 DEF b

(* Normalized is the trimmed base, less the first path that it ends with.  *)
LEMMA NormalizedAt ==
    ASSUME NEW k, NEW e
    PROVE  LET trimmed == TrimEnd(e.base)
               paths == KnownPaths(k)
               found == {j \in DOMAIN paths : EndsWith(trimmed, paths[j])}
               first == CHOOSE i \in found : \A j \in found : i <= j
           IN  NormalizeEndpoint(k, e)
               = Endpoint(Full(IF found = {} THEN trimmed ELSE Stripped(trimmed, paths[first])), e.suffix)
BY Zenon DEF NormalizeEndpoint, Full

(* The first of the backend's paths that a base ends with.                 *)
FirstPath(k, n, base) ==
    /\ DOMAIN KnownPaths(k) \subseteq Int /\ n \in DOMAIN KnownPaths(k)
    /\ \A j \in DOMAIN KnownPaths(k) : j < n => ~EndsWith(base, KnownPaths(k)[j])

(* Normalizing leaves the root, where it is clear which path to take off.  *)
LEMMA NormalizesTo ==
    ASSUME NEW k, NEW r, NEW e,
           \/ /\ TrimEnd(e.base) = r
              /\ \A j \in DOMAIN KnownPaths(k) : ~EndsWith(TrimEnd(e.base), KnownPaths(k)[j])
           \/ \E n : /\ FirstPath(k, n, TrimEnd(e.base)) /\ EndsWith(TrimEnd(e.base), KnownPaths(k)[n])
                    /\ Stripped(TrimEnd(e.base), KnownPaths(k)[n]) = r
    PROVE  NormalizeEndpoint(k, e) = Endpoint(Full(r), e.suffix)
<1>. DEFINE trimmed == TrimEnd(e.base)
            paths == KnownPaths(k)
            found == {j \in DOMAIN paths : EndsWith(trimmed, paths[j])}
            first == CHOOSE i \in found : \A j \in found : i <= j
<1>1. NormalizeEndpoint(k, e)
      = Endpoint(Full(IF found = {} THEN trimmed ELSE Stripped(trimmed, paths[first])), e.suffix)
    BY NormalizedAt, Zenon
<1>2. CASE trimmed = r /\ \A j \in DOMAIN paths : ~EndsWith(trimmed, paths[j])
    <2>1. found = {}  BY <1>2
    <2>. HIDE DEF found, first
    <2>. QED  BY <1>1, <1>2, <2>1
<1>3. ASSUME NEW n, FirstPath(k, n, trimmed), EndsWith(trimmed, paths[n]), Stripped(trimmed, paths[n]) = r
      PROVE  NormalizeEndpoint(k, e) = Endpoint(Full(r), e.suffix)
    <2>0. /\ DOMAIN paths \subseteq Int /\ n \in DOMAIN paths
          /\ \A j \in DOMAIN paths : j < n => ~EndsWith(trimmed, paths[j])
        BY <1>3 DEF FirstPath
    <2>1. found # {} /\ first = n  BY <1>3, <2>0, FirstFound
    <2>. HIDE DEF found, first
    <2>. QED  BY <1>1, <1>3, <2>1
<1>. QED  BY <1>2, <1>3

(* The paths, by backend.                                                  *)
LEMMA PathsOf ==
    /\ KnownPaths("rpc") = <<<<"live", "v1">>, <<"query", "v1">>, <<"v1">>>>
    /\ KnownPaths("bob") = <<<<"qubic">>>>
    /\ KnownPaths("grpc") = <<>>
BY DEF KnownPaths

(* A root that comes with nothing or with slashes.                         *)
LEMMA BareRoot ==
    ASSUME NEW k \in {"rpc", "bob", "grpc"}, NEW r, Rooted(r), NEW e, TrimEnd(e.base) = r
    PROVE  NormalizeEndpoint(k, e) = Endpoint(Full(r), e.suffix)
<1>1. r \in Seq(Piece) /\ Len(r) \in Nat /\ r[Len(r)] \notin {"v1", "qubic"}  BY DEF Rooted
<1>2. ASSUME NEW path \in Seq(Piece), NEW last \in {"v1", "qubic"}, path # <<>>, path[Len(path)] = last
      PROVE  ~EndsWith(r, path)
    <2>. SUFFICES ASSUME EndsWith(r, path) PROVE FALSE  OBVIOUS
    <2>1. PICK n \in Nat \ {0} : n = Len(path)  BY <1>2
    <2>2. \A i \in 1 .. n : path[i] = r[Len(r) - n + i]  BY <1>1, <2>1, EndsPiecewise
    <2>3. n \in 1 .. n /\ Len(r) - n + n = Len(r)  BY <1>1, <2>1
    <2>4. path[n] = r[Len(r)]  BY <2>2, <2>3
    <2>. QED  BY <1>1, <1>2, <2>1, <2>4
<1>3. /\ ~EndsWith(r, <<"live", "v1">>) /\ ~EndsWith(r, <<"query", "v1">>)
      /\ ~EndsWith(r, <<"v1">>) /\ ~EndsWith(r, <<"qubic">>)
    BY <1>2, Pieces, Tuples
<1>. DEFINE paths == KnownPaths(k)
<1>4. DOMAIN paths \subseteq Int /\ \A j \in DOMAIN paths : ~EndsWith(r, paths[j])
    <2>1. CASE k = "rpc"
        <3>1. DOMAIN paths = 1 .. 3  BY <2>1, PathsOf
        <3>2. paths[1] = <<"live", "v1">> /\ paths[2] = <<"query", "v1">> /\ paths[3] = <<"v1">>
            BY <2>1, PathsOf
        <3>3. \A j \in 1 .. 3 : j = 1 \/ j = 2 \/ j = 3  OBVIOUS
        <3>. QED  BY <1>3, <3>1, <3>2, <3>3
    <2>2. CASE k = "bob"
        <3>1. DOMAIN paths = {1} /\ paths[1] = <<"qubic">>  BY <2>2, PathsOf
        <3>. QED  BY <1>3, <3>1
    <2>3. CASE k = "grpc"
        <3>1. DOMAIN paths = {}  BY <2>3, PathsOf
        <3>. QED  BY <3>1
    <2>. QED  BY <2>1, <2>2, <2>3
<1>. QED  BY <1>4, NormalizesTo

(* A root that comes with one of the paths, and with slashes.              *)
LEMMA RootWithPath ==
    ASSUME NEW k, NEW r, Rooted(r), NEW e, NEW p \in Seq(Piece), NEW q \in Seq(Piece), NEW n,
           e.base = r \o p, Slashed(p, q), FirstPath(k, n, r \o q), KnownPaths(k)[n] = q
    PROVE  NormalizeEndpoint(k, e) = Endpoint(Full(r), e.suffix)
<1>1. r \in Seq(Piece) /\ Len(r) \in Nat \ {0} /\ r[Len(r)] # Blank  BY DEF Rooted
<1>2. EndsWith(r \o q, q)
    <2>1. \A i \in 1 .. Len(q) : Len(q) - Len(q) + i = i  OBVIOUS
    <2>2. Len(q) <= Len(q)  OBVIOUS
    <2>. QED  BY <2>1, <2>2, EndsBehind
<1>3. Stripped(r \o q, q) = r
    <2>1. /\ r \o q \in Seq(Piece) /\ Len(r \o q) = Len(r) + Len(q)
          /\ \A i \in 1 .. Len(r) : (r \o q)[i] = r[i]
        BY <1>1, Behind
    <2>2. Len(r) >= 1  BY <1>1
    <2>. QED  BY <1>1, <2>1, <2>2, StripTo
<1>4. TrimEnd(e.base) = r \o q  BY TrimBehind
<1>5. /\ FirstPath(k, n, TrimEnd(e.base)) /\ EndsWith(TrimEnd(e.base), KnownPaths(k)[n])
      /\ Stripped(TrimEnd(e.base), KnownPaths(k)[n]) = r
    BY <1>2, <1>3, <1>4
<1>. QED  BY <1>5, NormalizesTo

(* The forms, by backend.                                                  *)
LEMMA FormsOf ==
    ASSUME NEW r, NEW form
    PROVE  /\ form \in Forms("rpc", r) =>
                  \/ form = r \/ form = r \o <<Blank>> \/ form = r \o <<"v1">>
                  \/ form = r \o <<"live", "v1">> \/ form = r \o <<"query", "v1", Blank>>
           /\ form \in Forms("bob", r) =>
                  \/ form = r \/ form = r \o <<Blank>>
                  \/ form = r \o <<"qubic">> \/ form = r \o <<"qubic", Blank, Blank>>
           /\ form \in Forms("grpc", r) => form = r \/ form = r \o <<Blank>>
<1>1. Forms("rpc", r) = {r} \cup {r \o p : p \in {<<Blank>>, <<"v1">>, <<"live", "v1">>, <<"query", "v1", Blank>>}}
    BY Zenon DEF Forms, Blank
<1>2. Forms("bob", r) = {r} \cup {r \o p : p \in {<<Blank>>, <<"qubic">>, <<"qubic", Blank, Blank>>}}
    BY Zenon DEF Forms, Blank
<1>3. Forms("grpc", r) = {r} \cup {r \o <<Blank>>}
    BY Zenon DEF Forms, Blank
<1>. QED  BY <1>1, <1>2, <1>3

(* Whatever form it comes in, an endpoint is normalized to root and query. *)
LEMMA Normalizes ==
    ASSUME NEW k \in {"rpc", "bob", "grpc"}, NEW r, Rooted(r), NEW e, e.base \in Forms(k, r)
    PROVE  NormalizeEndpoint(k, e) = Endpoint(Full(r), e.suffix)
<1>. DEFINE paths == KnownPaths(k)
<1>0. r \in Seq(Piece) /\ Len(r) \in Nat /\ r[Len(r)] \notin {"live", "query"} 
    BY DEF Rooted
<1>2. ASSUME e.base = r \/ e.base = r \o <<Blank>>
      PROVE  NormalizeEndpoint(k, e) = Endpoint(Full(r), e.suffix)
    <2>1. r \o <<>> = r  BY <1>0, ConcatEmptySeq
    <2>2. <<>> \in Seq(Piece) /\ Slashed(<<>>, <<>>)  BY DEF Slashed
    <2>3. <<Blank>> \in Seq(Piece) /\ Slashed(<<Blank>>, <<>>)
        <3>1. \A i \in Len(<<>>) + 1 .. 1 : i = 1  OBVIOUS
        <3>2. <<Blank>> \in Seq(Piece) /\ Len(<<Blank>>) = 1 /\ <<Blank>>[1] = Blank  BY Pieces, Tuples
        <3>3. \A i \in Len(<<>>) + 1 .. Len(<<Blank>>) : <<Blank>>[i] = Blank  BY <3>1, <3>2
        <3>. QED  BY <3>2, <3>3 DEF Slashed
    <2>4. TrimEnd(e.base) = r
        <3>1. CASE e.base = r
            <4>1. e.base = r \o <<>>  BY <2>1, <3>1
            <4>. QED  BY <2>1, <2>2, <4>1, TrimBehind
        <3>2. CASE e.base = r \o <<Blank>>  BY <2>1, <2>2, <2>3, <3>2, TrimBehind
        <3>. QED  BY <1>2, <3>1, <3>2
    <2>. QED  BY <2>4, BareRoot
<1>3. ASSUME NEW path \in Seq(Piece), NEW q \in Seq(Piece), Len(path) = 2, Len(q) = 1,
             path[1] \in {"live", "query"}
      PROVE  ~EndsWith(r \o q, path)
    <2>1. Len(path) > Len(q) /\ Len(path) - Len(q) = 1  BY <1>3
    <2>2. path[Len(path) - Len(q)] # r[Len(r)]  BY <1>0, <1>3, <2>1
    <2>. QED  BY <2>1, <2>2, EndsBehind
<1>. DEFINE live == <<"live", "v1">>  query == <<"query", "v1">>  v1 == <<"v1">>
<1>4. /\ live \in Seq(Piece) /\ Len(live) = 2 /\ live[1] = "live" /\ live[2] = "v1"
      /\ query \in Seq(Piece) /\ Len(query) = 2 /\ query[1] = "query" /\ query[2] = "v1"
      /\ v1 \in Seq(Piece) /\ Len(v1) = 1 /\ v1[1] = "v1"
    BY Pieces, Tuples
<1>5. CASE k = "rpc"
    <2>1. DOMAIN paths = 1 .. 3 /\ paths[1] = live /\ paths[2] = query /\ paths[3] = v1
        BY <1>5, PathsOf
    <2>. HIDE DEF live, query, v1, paths
    <2>2. ASSUME e.base = r \o v1  PROVE NormalizeEndpoint(k, e) = Endpoint(Full(r), e.suffix)
        <3>1. ~EndsWith(r \o v1, live) /\ ~EndsWith(r \o v1, query)  BY <1>3, <1>4
        <3>2. \A j \in 1 .. 3 : j < 3 => j = 1 \/ j = 2  OBVIOUS
        <3>3. FirstPath(k, 3, r \o v1)  BY <2>1, <3>1, <3>2 DEF FirstPath, paths
        <3>4. Slashed(v1, v1)  BY <1>4, Pieces DEF Slashed
        <3>. QED  BY <1>4, <2>1, <2>2, <3>3, <3>4, RootWithPath DEF paths
    <2>3. ASSUME e.base = r \o live  PROVE NormalizeEndpoint(k, e) = Endpoint(Full(r), e.suffix)
        <3>1. \A j \in 1 .. 3 : ~(j < 1)  OBVIOUS
        <3>2. FirstPath(k, 1, r \o live)  BY <2>1, <3>1 DEF FirstPath, paths
        <3>3. Slashed(live, live)  BY <1>4, Pieces DEF Slashed
        <3>. QED  BY <1>4, <2>1, <2>3, <3>2, <3>3, RootWithPath DEF paths
    <2>4. ASSUME e.base = r \o <<"query", "v1", Blank>>
          PROVE  NormalizeEndpoint(k, e) = Endpoint(Full(r), e.suffix)
        <3>1. ~EndsWith(r \o query, live)
            <4>1. 1 \in 1 .. Len(live) /\ Len(live) <= Len(query) /\ Len(query) - Len(live) + 1 = 1
                BY <1>4
            <4>2. live[1] # query[1]  BY <1>4
            <4>. QED  BY <1>4, <4>1, <4>2, EndsBehind
        <3>2. \A j \in 1 .. 3 : j < 2 => j = 1  OBVIOUS
        <3>3. FirstPath(k, 2, r \o query)  BY <2>1, <3>1, <3>2 DEF FirstPath, paths
        <3>. DEFINE p == <<"query", "v1", Blank>>
        <3>4. p \in Seq(Piece) /\ Len(p) = 3 /\ p[1] = "query" /\ p[2] = "v1" /\ p[3] = Blank
            BY Pieces, Tuples
        <3>. HIDE DEF p
        <3>5. Slashed(p, query)  BY <1>4, <3>4, Pieces DEF Slashed
        <3>6. e.base = r \o p  BY <2>4 DEF p
        <3>. QED  BY <1>4, <2>1, <3>3, <3>4, <3>5, <3>6, RootWithPath DEF paths
    <2>. QED  BY <1>2, <1>5, <2>2, <2>3, <2>4, FormsOf DEF live, v1
<1>6. CASE k = "bob"
    <2>. DEFINE qubic == <<"qubic">>  p == <<"qubic", Blank, Blank>>
    <2>1. DOMAIN paths = {1} /\ paths[1] = qubic  BY <1>6, PathsOf
    <2>2. /\ qubic \in Seq(Piece) /\ Len(qubic) = 1 /\ qubic[1] = "qubic"
          /\ p \in Seq(Piece) /\ Len(p) = 3 /\ p[1] = "qubic" /\ p[2] = Blank /\ p[3] = Blank
        BY Pieces, Tuples
    <2>. HIDE DEF qubic, p, paths
    <2>3. Slashed(qubic, qubic) /\ Slashed(p, qubic)  BY <2>2, Pieces DEF Slashed
    <2>4. FirstPath(k, 1, r \o qubic)  BY <2>1 DEF FirstPath, paths
    <2>5. ASSUME e.base = r \o qubic \/ e.base = r \o p
          PROVE  NormalizeEndpoint(k, e) = Endpoint(Full(r), e.suffix)
        BY <2>1, <2>2, <2>3, <2>4, <2>5, RootWithPath DEF paths
    <2>. QED  BY <1>2, <1>6, <2>5, FormsOf DEF qubic, p
<1>7. CASE k = "grpc"  BY <1>2, <1>7, FormsOf
<1>. QED  BY <1>5, <1>6, <1>7

(* A form is kept until it is normalized, and the result is the meant one. *)
EndpointInv ==
    /\ kind \in {"rpc", "bob", "grpc"} /\ Rooted(root)
    /\ pc \in {"parsed", "trim", "validate", "lock", "collateral", "configure"} =>
          endpoint.base \in Forms(kind, root)
    /\ pc = "build" => endpoint = Endpoint(Full(root), endpoint.suffix)

(* The start gives and keeps the endpoint.                                 *)
LEMMA EndpointInvHolds == ProcessSpec => []EndpointInv
<1>1. ASSUME ProcessInit PROVE EndpointInv
    <2>1. StartInit  BY <1>1 DEF ProcessInit
    <2>2. /\ pc = "parsed" /\ kind \in {"rpc", "bob", "grpc"} /\ root \in Roots
          /\ \E form \in Forms(kind, root), s \in Tails : endpoint = Endpoint(form, s)
        BY <2>1 DEF StartInit
    <2>3. endpoint.base \in Forms(kind, root)  BY <2>2 DEF Endpoint
    <2>4. root \in Seq(STRING) /\ root # <<>> /\ root[Len(root)] \notin {Blank, "v1", "live", "query", "qubic"}
        BY <2>2, RootsAssumption, Zenon DEF Blank
    <2>5. Rooted(root)
        <3>1. STRING \subseteq Piece  BY Zenon DEF Piece
        <3>2. root \in Seq(Piece)  BY <2>4, <3>1, SeqMonotonic
        <3>. QED  BY <2>4, <3>2 DEF Rooted
    <2>. QED  BY <2>2, <2>3, <2>5 DEF EndpointInv
<1>2. ASSUME EndpointInv, [ProcessNext]_<<moving, startVars, calendar, attempts>> PROVE EndpointInv'
    <2>1. CASE UNCHANGED startVars  BY <1>2, <2>1 DEF EndpointInv, startVars, urlVars
    <2>2. CASE Configure
        <3>1. /\ pc = "configure" /\ pc' = "build" /\ kind' = kind /\ root' = root
              /\ endpoint' = NormalizeEndpoint(kind, endpoint)
            BY <2>2 DEF Configure, Goes
        <3>2. endpoint' = Endpoint(Full(root), endpoint.suffix)
            BY <1>2, <3>1, Normalizes DEF EndpointInv
        <3>3. endpoint'.suffix = endpoint.suffix  BY <3>2 DEF Endpoint
        <3>. QED  BY <1>2, <3>1, <3>2, <3>3 DEF EndpointInv
    <2>3. CASE StartNext /\ ~Configure
        <3>1. UNCHANGED urlVars /\ (pc' = "build" => pc = "build")
              /\ (pc' \in {"parsed", "trim", "validate", "lock", "collateral", "configure"} =>
                     pc \in {"parsed", "trim", "validate", "lock", "collateral", "configure"})
            BY <2>3 DEF StartNext, TakeArgument, ReadInput, Trim, TrimInput, Validate, Lock,
                        ValidateCollateral, Build, Drop, DropSeed, Dropping, Goes, Register,
                        SignalArrives, ObserverEnds, EngineReturns, Ended, startVars
        <3>. QED  BY <1>2, <3>1 DEF EndpointInv, urlVars
    <2>. QED  BY <1>2, <2>1, <2>2, <2>3 DEF ProcessNext
<1>. QED  BY <1>1, <1>2, PTL DEF ProcessSpec

(* EveryFormReachesTheApi: with or without an operation path and slashes,  *)
(* for any root and every backend, the operations go to the same URLs.     *)
THEOREM EveryFormAlwaysReachesTheApi == ProcessSpec => []EveryFormReachesTheApi
<1>1. ASSUME EndpointInv PROVE EveryFormReachesTheApi
    <2>. SUFFICES ASSUME pc = "build", NEW op \in Operations
                  PROVE  UrlOf(kind, endpoint, op) = UrlOf(kind, Endpoint(Full(root), endpoint.suffix), op)
        BY Zenon DEF EveryFormReachesTheApi, Full
    <2>. QED  BY <1>1 DEF EndpointInv
<1>. QED  BY <1>1, EndpointInvHolds, PTL

=============================================================================
