--------------------------- MODULE MonitoredProofs ---------------------------
(***************************************************************************)
(* What the counters make of the engine, for all constants: an accepted    *)
(* reveal is counted and keeps its digest until it is checked, and a chain *)
(* is charged with one failure at most.                                    *)
(***************************************************************************)
EXTENDS MonitoredEngine, DeliveryProofs, TickMonitorProofs

USE DEF STREAM_COUNT, StreamIds

-----------------------------------------------------------------------------
(* What the monitor remembers of a reveal *)

(* Its digest is kept, its tick was checked, or it is out of the window.   *)
Remembers(m, t) == t \in m.digests \cup m.checked \/ t < m.oldest

(* A queued check of an accepted target has the digest it will ask for.    *)
DigestsKept(m) == \A t \in m.queued : m.outcomes[t] = "Ok" => t \in m.digests

(* What checking may do: forget no reveal but one that is checked or out   *)
(* of the window, queue nothing, and find ticks empty.                     *)
Checks(n, m) ==
    /\ n.queued \subseteq m.queued /\ n.oldest >= m.oldest
    /\ \A t \in n.queued : t \in m.digests => t \in n.digests
    /\ \A t \in Ticks : Remembers(m, t) => Remembers(n, t)
    /\ \A t \in Ticks : n.outcomes[t] \in {m.outcomes[t], "Empty"}

(* Checking one step after the other is checking.                          *)
LEMMA ChecksTwice ==
  ASSUME NEW k \in Monitor, NEW m \in Monitor, NEW n \in Monitor, Checks(m, k), Checks(n, m)
  PROVE  Checks(n, k)
  <1>1. k.oldest \in Nat /\ m.oldest \in Nat /\ n.oldest \in Nat
    BY NumberFields
  <1> QED BY <1>1 DEF Checks

(* Checking keeps the digests of what is queued.                           *)
LEMMA ChecksKeepDigests ==
  ASSUME NEW m \in Monitor, NEW n \in Monitor, Checks(n, m), DigestsKept(m)
  PROVE  DigestsKept(n)
  <1>1. m.queued \subseteq Ticks
    BY DEF Monitor
  <1> QED BY <1>1 DEF Checks, DigestsKept

(* expire_tick_checks drops what left the window.                          *)
LEMMA ExpireChecks ==
  ASSUME NEW m, NEW V, InOrder(m, V), NEW at \in Ticks
  PROVE  Checks(ExpireTickChecks(m, at), m)
  <1> DEFINE n == ExpireTickChecks(m, at)
             oldest == OldestCheck(m, at)
  <1>1. m \in Monitor /\ m.oldest \in Nat
    BY NumberFields DEF InOrder
  <1>2. oldest \in Int /\ oldest >= m.oldest
    <2>1. at \in Nat /\ SaturatingAdd(CheckDelay, CheckWindow) \in Nat
      BY TickNumbers, MonitorAssumption, DelayedTick
    <2> HIDE DEF oldest
    <2>2. oldest = MaxOf(MaxOf(0, at - SaturatingAdd(CheckDelay, CheckWindow)), m.oldest)
      BY DEF OldestCheck, oldest
    <2> QED BY <1>1, <2>1, <2>2 DEF MaxOf
  <1> HIDE DEF oldest
  <1>3. /\ n.oldest = oldest /\ n.queued = {t \in m.queued : t >= oldest}
        /\ n.checked = {t \in m.checked : t >= oldest}
        /\ n.digests = {t \in m.digests : t >= oldest}
        /\ n.outcomes = m.outcomes
    BY <1>1 DEF ExpireTickChecks, Monitor, oldest
  <1> HIDE DEF n
  <1>4. ASSUME NEW t \in Ticks, Remembers(m, t) PROVE Remembers(n, t)
    <2>1. t \in Nat
      BY TickNumbers
    <2> QED BY <1>1, <1>2, <1>3, <1>4, <2>1 DEF Remembers
  <1>5. Checks(n, m)
    BY <1>2, <1>3, <1>4 DEF Checks
  <1> QED BY <1>5 DEF n

(* harvest_tick_check drops a digest as its target becomes checked.        *)
LEMMA HarvestChecks ==
  ASSUME NEW m, NEW V, InOrder(m, V), NEW result \in CheckResults
  PROVE  Checks(HarvestTickCheck(m, result), m)
  <1> DEFINE n == HarvestTickCheck(m, result)
  <1>1. m \in Monitor /\ m.oldest \in Nat
    BY NumberFields DEF InOrder
  <1>2. \/ /\ n.queued = m.queued /\ n.checked = m.checked /\ n.digests = m.digests
           /\ n.outcomes = m.outcomes /\ n.oldest = m.oldest
        \/ /\ n.queued = m.queued \ {m.check} /\ n.checked = m.checked \cup {m.check}
           /\ n.digests = m.digests \ {m.check} /\ n.oldest = m.oldest
           /\ \/ n.outcomes = m.outcomes
              \/ n.outcomes = [m.outcomes EXCEPT ![m.check] = Outcome(@, "Empty")]
    BY <1>1 DEF HarvestTickCheck, RecordSendOutcome, WithOutcomes, CheckResults, Monitor
  <1>3. m.outcomes \in [Ticks -> Outcomes \cup {"None"}]
    BY <1>1 DEF Monitor
  <1> HIDE DEF n
  <1>4. \A t \in Ticks : n.outcomes[t] \in {m.outcomes[t], "Empty"}
    BY <1>2, <1>3 DEF Outcome
  <1>5. \A t \in Ticks : Remembers(m, t) => Remembers(n, t)
    BY <1>2 DEF Remembers
  <1>6. Checks(n, m)
    BY <1>1, <1>2, <1>4, <1>5 DEF Checks
  <1> QED BY <1>6 DEF n

(* ensure_tick_check moves targets between the collections of the queue.   *)
LEMMA EnsureChecks ==
  ASSUME NEW m, NEW V, InOrder(m, V), NEW at \in Ticks, NEW spaced
  PROVE  Checks(EnsureTickCheck(m, at, spaced), m)
  <1> DEFINE expired == ExpireTickChecks(m, at)
             promoted == PromoteChecks(expired, at)
             n == EnsureTickCheck(m, at, spaced)
  <1>1. Checks(expired, m) /\ InOrder(expired, V) /\ m \in Monitor
    BY ExpireChecks, ExpireOK DEF InOrder
  <1> HIDE DEF expired
  <1>2. InOrder(promoted, V) /\ promoted \in Monitor /\ expired \in Monitor
    BY <1>1, PromoteOK DEF InOrder
  <1>3. /\ promoted.queued = expired.queued /\ promoted.checked = expired.checked
        /\ promoted.digests = expired.digests /\ promoted.outcomes = expired.outcomes
        /\ promoted.oldest = expired.oldest
    <2>1. expired.pending \subseteq expired.queued
      BY <1>1 DEF InOrder, ChecksAgree
    <2> QED BY <1>2, <2>1 DEF PromoteChecks, Monitor
  <1> HIDE DEF promoted
  <1>4. /\ n = expired \/ n = StartNewest(promoted)
    BY DEF EnsureTickCheck, expired, promoted
  <1>5. LET k == StartNewest(promoted)
        IN  /\ k.queued = promoted.queued /\ k.checked = promoted.checked
            /\ k.digests = promoted.digests /\ k.outcomes = promoted.outcomes
            /\ k.oldest = promoted.oldest
    BY <1>2 DEF StartNewest, Monitor
  <1> HIDE DEF n
  <1>6. /\ n.queued = expired.queued /\ n.checked = expired.checked
        /\ n.digests = expired.digests /\ n.outcomes = expired.outcomes
        /\ n.oldest = expired.oldest
    BY <1>3, <1>4, <1>5
  <1>7. Checks(n, m)
    BY <1>1, <1>6 DEF Checks, Remembers
  <1> QED BY <1>7 DEF n

(* The monitor's part of a cycle is checking.                              *)
LEMMA TailChecks ==
  ASSUME NEW m, NEW V, InOrder(m, V), NEW at \in Ticks, NEW result \in CheckResults,
         NEW spaced, NEW planning
  PROVE  Checks(MonitorTail(m, at, result, spaced, planning), m)
  <1> DEFINE expired == ExpireTickChecks(m, at)
             harvested == HarvestTickCheck(expired, result)
             ensured == EnsureTickCheck(harvested, at, spaced)
             W == V \cup Answered(expired, result)
  <1>1. Checks(expired, m) /\ InOrder(expired, V)
    BY ExpireChecks, ExpireOK
  <1> HIDE DEF expired
  <1>2. Checks(harvested, expired) /\ InOrder(harvested, W)
    BY <1>1, HarvestChecks, HarvestOK
  <1> HIDE DEF harvested, W
  <1>3. Checks(ensured, harvested) /\ InOrder(ensured, W)
    BY <1>2, EnsureChecks, EnsureOK
  <1> HIDE DEF ensured
  <1>4. Checks(harvested, m) /\ Checks(ensured, m)
    BY <1>1, <1>2, <1>3, ChecksTwice DEF InOrder
  <1>5. MonitorTail(m, at, result, spaced, planning) = IF planning THEN ensured ELSE harvested
    BY DEF MonitorTail, ensured, harvested, expired
  <1> QED BY <1>4, <1>5

(* What the marks of a step do to the outcomes and to what is remembered.  *)
LEMMA MarksRemembered ==
  ASSUME NEW m, NEW V, InOrder(m, V), DigestsKept(m), NEW left \in SUBSET MonitorMarks,
         \A k \in left : k.mark = "Ok" => Remembers(m, k.target)
  PROVE  LET n == ApplyMarks(m, left)
         IN  /\ DigestsKept(n)
             /\ \A t \in Ticks : \/ Remembers(m, t)
                                 \/ [target |-> t, mark |-> "Digest"] \in left
                                 => Remembers(n, t)
             /\ \A t \in Ticks : \/ m.outcomes[t] # "None"
                                 \/ [target |-> t, mark |-> "Ok"] \in left
                                 => n.outcomes[t] # "None"
             /\ \A t \in Ticks : n.outcomes[t] = "Failed" =>
                    m.outcomes[t] = "Failed" \/ [target |-> t, mark |-> "Failed"] \in left
  <1> DEFINE n == ApplyMarks(m, left)
             marked(t, k) == [target |-> t, mark |-> k] \in left
  <1>1. m \in Monitor /\ m.outcomes \in [Ticks -> Outcomes \cup {"None"}]
        /\ m.queued \subseteq Ticks
    BY DEF InOrder, Monitor
  <1>2. n.outcomes = [t \in Ticks |-> MarkedOutcome(m.outcomes[t], left, t)]
    BY <1>1, ApplyOutcomes
  <1>3. /\ n.oldest = m.oldest /\ n.checked = m.checked
        /\ n.digests = m.digests \cup {k.target : k \in {j \in left : j.mark \in {"Digest"}}}
        /\ n.queued = m.queued \cup {t \in {k.target : k \in {j \in left : j.mark \in {"Ok", "Failed"}}} : MayQueue(m, t)}
    BY <1>1 DEF ApplyMarks, WithOutcomes, Monitor
  <1>4. ASSUME NEW t \in Ticks
        PROVE  /\ m.outcomes[t] # "None" \/ marked(t, "Ok") => n.outcomes[t] # "None"
               /\ n.outcomes[t] = "Failed" => m.outcomes[t] = "Failed" \/ marked(t, "Failed")
               /\ n.outcomes[t] = "Ok" => /\ m.outcomes[t] = "Ok" \/ marked(t, "Ok")
                                          /\ ~marked(t, "Failed")
    <2>1. n.outcomes[t] = MarkedOutcome(m.outcomes[t], left, t)
      BY <1>2
    <2>2. m.outcomes[t] \in Outcomes \cup {"None"}
      BY <1>1
    <2> QED BY <2>1, <2>2 DEF MarkedOutcome, Outcome, TransitionAllowed, Outcomes
  <1>5. \A t \in Ticks : marked(t, "Digest") => t \in n.digests
    BY <1>3
  <1>6. \A k \in left : k = [target |-> k.target, mark |-> k.mark] /\ k.target \in Ticks
    BY DEF MonitorMarks
  <1>7. \A t \in n.queued : t \in Ticks /\ (t \in m.queued \/ (MayQueue(m, t) /\ (marked(t, "Ok") \/ marked(t, "Failed"))))
    BY <1>1, <1>3, <1>6
  <1> HIDE DEF n
  <1>8. DigestsKept(n)
    <2> SUFFICES ASSUME NEW t \in n.queued, n.outcomes[t] = "Ok" PROVE t \in m.digests
      BY <1>3 DEF DigestsKept
    <2>1. t \in Ticks /\ ~marked(t, "Failed") /\ (m.outcomes[t] = "Ok" \/ marked(t, "Ok"))
      BY <1>4, <1>7
    <2>2. CASE marked(t, "Ok")
      <3>1. Remembers(m, t)
        BY <2>2
      <3>2. t \notin m.checked /\ ~(t < m.oldest)
        <4>1. t \in m.queued => t \notin m.checked /\ t >= m.oldest
          BY DEF InOrder, ChecksAgree
        <4>2. t \in Nat /\ m.oldest \in Nat
          BY <1>1, <2>1, NumberFields, TickNumbers
        <4>3. t \in m.queued \/ MayQueue(m, t)
          BY <1>7
        <4>4. t \notin m.checked /\ t >= m.oldest
          BY <4>1, <4>3 DEF MayQueue
        <4> QED BY <4>2, <4>4
      <3> QED BY <3>1, <3>2 DEF Remembers
    <2>3. CASE ~marked(t, "Ok")
      BY <1>7, <2>1, <2>3 DEF DigestsKept
    <2> QED BY <2>2, <2>3
  <1>9. \A t \in Ticks : Remembers(m, t) \/ marked(t, "Digest") => Remembers(n, t)
    BY <1>3, <1>5 DEF Remembers
  <1> QED BY <1>4, <1>8, <1>9 DEF n

-----------------------------------------------------------------------------
(* What a handler reports of a slot *)

Mark(t, kind) == [target |-> t, mark |-> kind]

(* Every accepted reveal and every running one was so before, or the       *)
(* handler reports it.                                                     *)
Tracks(reported, new, slot) ==
    \A c \in new.chain.calls : c.kind = "RevealAndCommit" =>
        /\ c.state = "Accepted" =>
               \/ Mark(c.target, "Ok") \in reported
               \/ \E d \in slot.chain.calls : SameBytes(c, d) /\ d.state = "Accepted"
        /\ c.inflight =>
               \/ Mark(c.target, "Digest") \in reported
               \/ \E d \in slot.chain.calls : SameBytes(c, d) /\ d.inflight

(* What is reported as accepted was running.                               *)
OksWereSent(reported, slot) ==
    \A m \in reported : m.mark = "Ok" =>
        \E d \in slot.chain.calls : d.inflight /\ d.kind = "RevealAndCommit" /\ d.target = m.target

(* The failures a handler reports are one failure: of a target after the   *)
(* chain's first, and no later than a replacement may start.               *)
Charges(reported, new, slot) ==
    \A m \in reported : m.mark = "Failed" =>
        /\ m.target > slot.chain.first
        /\ Tag(new) \in {"Waiting", "Restarting"} => m.target <= new.restartAt
        /\ \A n \in reported : n.mark = "Failed" => n.target = m.target

(* A drain whose terminal reveal failed is not taken up again.             *)
KeepsFailed(new, slot) == TerminalFailed(slot) /\ Tag(new) = "Draining" => TerminalFailed(new)

(* Two handlers in sequence track what they report together.               *)
LEMMA TracksTwice ==
  ASSUME NEW slot, NEW mid, NEW new, NEW r1, NEW r2, Tracks(r1, mid, slot), Tracks(r2, new, mid)
  PROVE  Tracks(r1 \cup r2, new, slot)
  <1> SUFFICES ASSUME NEW c \in new.chain.calls, c.kind = "RevealAndCommit"
               PROVE  /\ c.state = "Accepted" =>
                             \/ Mark(c.target, "Ok") \in r1 \cup r2
                             \/ \E d \in slot.chain.calls : SameBytes(c, d) /\ d.state = "Accepted"
                      /\ c.inflight =>
                             \/ Mark(c.target, "Digest") \in r1 \cup r2
                             \/ \E d \in slot.chain.calls : SameBytes(c, d) /\ d.inflight
    BY DEF Tracks
  <1>1. ASSUME c.state = "Accepted", Mark(c.target, "Ok") \notin r1 \cup r2
        PROVE  \E d \in slot.chain.calls : SameBytes(c, d) /\ d.state = "Accepted"
    <2>1. PICK d \in mid.chain.calls : SameBytes(c, d) /\ d.state = "Accepted"
      BY <1>1 DEF Tracks
    <2> QED BY <1>1, <2>1 DEF Tracks, SameBytes
  <1>2. ASSUME c.inflight, Mark(c.target, "Digest") \notin r1 \cup r2
        PROVE  \E d \in slot.chain.calls : SameBytes(c, d) /\ d.inflight
    <2>1. PICK d \in mid.chain.calls : SameBytes(c, d) /\ d.inflight
      BY <1>2 DEF Tracks
    <2> QED BY <1>2, <2>1 DEF Tracks, SameBytes
  <1> QED BY <1>1, <1>2

(* A handler that leaves calls alone or drops them tracks the rest.        *)
LEMMA FewerCallsTracked ==
  ASSUME NEW slot, NEW new, NEW reported,
         \A c \in new.chain.calls : c \in slot.chain.calls \/ Unsent(c)
  PROVE  Tracks(reported, new, slot)
  BY DEF Tracks, SameBytes, Unsent

(* A slot without a chain has nothing to track.                            *)
LEMMA NoChainTracked ==
  ASSUME NEW slot, NEW new, NEW reported, new.chain = NoChain
  PROVE  Tracks(reported, new, slot)
  BY DEF Tracks, NoChain

(* A terminal reveal comes after the first target of its chain.            *)
LEMMA TerminalAfterFirst ==
  ASSUME NEW slot, NEW s, NEW G, SlotOK(slot, s, G),
         NEW c \in slot.chain.calls, c.kind = "TerminalReveal"
  PROVE  Tag(slot) = "Draining" /\ c.target > slot.chain.first
  <1>1. Tag(slot) = "Draining" /\ slot.chain # NoChain
    BY OneTerminal DEF NoChain
  <1>2. /\ c.target = slot.chain.last + STREAM_COUNT /\ slot.chain.first <= slot.chain.last
        /\ slot.chain.first \in Nat /\ slot.chain.last \in Nat
    BY <1>1, TicksType DEF SlotOK, StateOK, ChainOK
  <1> QED BY <1>1, <1>2

(* harvest_broadcasts reports every acceptance, of calls that were sent,   *)
(* and of failures only the shutdown terminal's.                           *)
LEMMA HarvestReports ==
  ASSUME NEW slot, NEW s \in StreamIds, NEW G, SlotOK(slot, s, G), DeliveryOK(slot, s),
         NEW result
  PROVE  LET r == HarvestBroadcasts(slot, result)
         IN  /\ Tracks(r.marks, r.slot, slot) /\ OksWereSent(r.marks, slot)
             /\ Charges(r.marks, r.slot, slot) /\ KeepsFailed(r.slot, slot)
  <1> DEFINE after(c) == HarvestCall(slot, c, result)
             calls == {after(c) : c \in slot.chain.calls}
             r == HarvestBroadcasts(slot, result)
             new == r.slot
  <1>1. SameChain(new, slot) /\ new.chain.calls = calls
    <2>1. new = [slot EXCEPT !.chain.calls = calls] /\ slot \in ManagedSlot
      BY DEF HarvestBroadcasts, Result, SlotOK
    <2> HIDE DEF calls, r
    <2> QED BY <2>1, RecalledFields DEF SameChain
  <1>2. \A c \in slot.chain.calls :
            /\ c \in PlannedCall /\ TaskOK(slot, c) /\ SameBytes(after(c), c)
            /\ after(c).inflight => c.inflight
            /\ (after(c).state = "Failed" /\ c.state # "Failed") =>
                   c.kind = "TerminalReveal" /\ Tag(slot) = "Draining"
            /\ c.state = "Failed" => after(c).state = "Failed"
    <2>1. \A c \in slot.chain.calls : c.state = "Failed" /\ TaskOK(slot, c) => after(c) = c
      BY DEF HarvestCall, TaskOK
    <2> HIDE DEF after
    <2> QED BY <2>1, CallsDistinct, HarvestCallBytes, HarvestCallTask DEF DeliveryOK, after
  <1>3. \A c \in slot.chain.calls :
            (after(c).state = "Accepted" /\ c.state # "Accepted" /\ c.kind = "RevealAndCommit") =>
                Mark(c.target, "Ok") \in r.marks
    <2> SUFFICES ASSUME NEW c \in slot.chain.calls, after(c).state = "Accepted",
                        c.state # "Accepted", c.kind = "RevealAndCommit"
                 PROVE  Mark(c.target, "Ok") \in r.marks
      OBVIOUS
    <2>1. c.inflight /\ result[c.target] # "pending"
      BY DEF HarvestCall
    <2> QED BY <2>1 DEF HarvestBroadcasts, Result, MarkAll, Mark
  <1>4. \A m \in r.marks : \E c \in slot.chain.calls :
            /\ c.inflight /\ c.state # "Accepted" /\ m.target = c.target
            /\ m.mark = "Failed" => after(c).state = "Failed"
            /\ m.mark = "Ok" => c.kind = "RevealAndCommit"
    BY DEF HarvestBroadcasts, Result, MarkAll
  <1>5. \A c \in calls : \E d \in slot.chain.calls : c = after(d)
    OBVIOUS
  <1>6. \A d \in slot.chain.calls : after(d) \in calls
    OBVIOUS
  <1> HIDE DEF after, calls, r
  <1>7. Tracks(r.marks, new, slot)
    <2> SUFFICES ASSUME NEW d \in slot.chain.calls, d.kind = "RevealAndCommit"
                 PROVE  /\ after(d).state = "Accepted" =>
                               Mark(d.target, "Ok") \in r.marks \/ d.state = "Accepted"
                        /\ after(d).inflight => d.inflight
      BY <1>1, <1>2, <1>5 DEF Tracks, SameBytes
    <2> QED BY <1>2, <1>3
  <1>8. OksWereSent(r.marks, slot)
    BY <1>4 DEF OksWereSent
  <1>9. \A m \in r.marks : m.mark = "Failed" =>
            \E c \in slot.chain.calls : c.kind = "TerminalReveal" /\ m.target = c.target
    <2> SUFFICES ASSUME NEW m \in r.marks, m.mark = "Failed"
                 PROVE  \E c \in slot.chain.calls : c.kind = "TerminalReveal" /\ m.target = c.target
      OBVIOUS
    <2>1. PICK c \in slot.chain.calls : /\ c.inflight /\ after(c).state = "Failed"
                                        /\ m.target = c.target /\ c.state # "Accepted"
      BY <1>4
    <2>2. c.state # "Failed"
      BY <1>2, <2>1 DEF TaskOK
    <2> QED BY <1>2, <2>1, <2>2
  <1>10. Charges(r.marks, new, slot)
    <2> SUFFICES ASSUME NEW m \in r.marks, m.mark = "Failed"
                 PROVE  /\ m.target > slot.chain.first /\ Tag(slot) = "Draining"
                        /\ \A n \in r.marks : n.mark = "Failed" => n.target = m.target
      BY <1>1 DEF Charges, SameChain, Tag
    <2>1. PICK c \in slot.chain.calls : c.kind = "TerminalReveal" /\ m.target = c.target
      BY <1>9
    <2> QED BY <1>9, <2>1, TerminalAfterFirst, OneTerminal
  <1>11. KeepsFailed(new, slot)
    BY <1>1, <1>2, <1>6 DEF KeepsFailed, TerminalFailed, SameBytes
  <1> QED BY <1>7, <1>8, <1>10, <1>11 DEF r

-----------------------------------------------------------------------------
(* How a chain goes on *)

(* A chain that serves and has not been charged.                           *)
Fresh(slot) == IsPlanned(slot) \/ (Tag(slot) = "Draining" /\ ~TerminalFailed(slot))

(* The slot serves the same chain or none, and where it waits for another  *)
(* to start, the tick to start at is kept or past the chain it served.     *)
MovesOn(new, slot) ==
    /\ HasChain(new) => new.chain.first = slot.chain.first
    /\ Fresh(new) => Fresh(slot)
    /\ IsPlanned(new) => IsPlanned(slot)
    /\ Tag(new) \in {"Waiting", "Restarting"} =>
           \/ Tag(slot) \in {"Waiting", "Restarting"} /\ new.restartAt = slot.restartAt
           \/ IsPlanned(slot) /\ new.restartAt >= slot.chain.first

(* Going on twice is going on.                                             *)
LEMMA MovesTwice ==
  ASSUME NEW slot, NEW mid, NEW new, MovesOn(mid, slot), MovesOn(new, mid),
         IsPlanned(mid) => HasChain(mid)
  PROVE  MovesOn(new, slot)
  <1>1. HasChain(new) => new.chain.first = slot.chain.first
    BY DEF MovesOn, HasChain
  <1>2. (Fresh(new) => Fresh(slot)) /\ (IsPlanned(new) => IsPlanned(slot))
    BY DEF MovesOn
  <1>3. ASSUME Tag(new) \in {"Waiting", "Restarting"}, IsPlanned(mid)
        PROVE  IsPlanned(slot) /\ new.restartAt >= slot.chain.first
    <2>1. /\ Tag(mid) \notin {"Waiting", "Restarting"} /\ mid.chain.first = slot.chain.first
          /\ IsPlanned(slot)
      BY <1>3 DEF MovesOn, IsPlanned
    <2>2. new.restartAt >= mid.chain.first
      BY <1>3, <2>1 DEF MovesOn, IsPlanned
    <2> QED BY <1>3, <2>1, <2>2
  <1>4. ASSUME Tag(new) \in {"Waiting", "Restarting"}, ~IsPlanned(mid)
        PROVE  \/ Tag(slot) \in {"Waiting", "Restarting"} /\ new.restartAt = slot.restartAt
               \/ IsPlanned(slot) /\ new.restartAt >= slot.chain.first
    BY <1>4 DEF MovesOn
  <1> QED BY <1>1, <1>2, <1>3, <1>4 DEF MovesOn

(* The same chain in the same state goes on.                               *)
LEMMA SameChainMoves ==
  ASSUME NEW slot, NEW new, SameChain(new, slot), KeepsFailed(new, slot)
  PROVE  MovesOn(new, slot)
  BY DEF SameChain, KeepsFailed, MovesOn, HasChain, Fresh, IsPlanned, Tag

-----------------------------------------------------------------------------
(* What a response reports *)

(* Failures of one target of the chain after its first.                    *)
OneOf(reported, chain) ==
    \A m \in reported : /\ m.mark = "Failed" /\ m.target > chain.first /\ m.target <= chain.last
                        /\ \A n \in reported : n.target = m.target

(* The evidence of a confirmed suspicion names one target at most.         *)
LEMMA ObservedOnce ==
  ASSUME NEW slot, NEW evidence, NEW requested
  PROVE  OneOf(ObserveStatusEvidence(slot, evidence, requested).marks, slot.chain)
  BY DEF ObserveStatusEvidence, Outdated, Result, MarkAll, FinancialFailureTargets, OneOf

(* The watermark of an acknowledged chain lags behind one target at most.  *)
LEMMA LagsOnce ==
  ASSUME NEW slot \in ManagedSlot, NEW confirmed, NEW requested
  PROVE  OneOf(ApplyConfirmationWatermark(slot, confirmed, requested).marks, slot.chain)
  <1> DEFINE old == slot.chain
             chain == IF old.confirmed # confirmed
                      THEN [old EXCEPT !.confirmed = confirmed, !.suspicion = NoSuspicion]
                      ELSE old
             moved == [slot EXCEPT !.chain = chain]
             r == ApplyConfirmationWatermark(slot, confirmed, requested)
             observed == ObserveStatusEvidence(moved, Lag(confirmed + STREAM_COUNT), requested)
  <1>1. moved.chain.first = slot.chain.first /\ moved.chain.last = slot.chain.last
    BY DEF ManagedSlot, Chain
  <1>2. OneOf(observed.marks, moved.chain)
    BY ObservedOnce
  <1>3. r.marks = {} \/ r = observed
    BY DEF ApplyConfirmationWatermark, Repeated, Result
  <1> HIDE DEF moved, observed, r
  <1> QED BY <1>1, <1>2, <1>3 DEF OneOf, r

(* A response reports one failure at most.                                 *)
LEMMA StatusFailsOnce ==
  ASSUME NEW slot \in ManagedSlot, NEW seen, NEW requested
  PROVE  OneOf(ApplyStatus(slot, seen, requested).marks, slot.chain)
  <1> DEFINE activated == [slot EXCEPT !.state = Active]
             evidence == IF seen = NoTick THEN Absent ELSE Foreign(seen)
             r == ApplyStatus(slot, seen, requested)
  <1>1. \/ r.marks = {}
        \/ r = ApplyConfirmationWatermark(activated, seen, requested)
        \/ r = ObserveStatusEvidence(slot, evidence, requested)
    <2>1. Tag(slot) \in SlotTags
      BY DEF ManagedSlot, SlotState, Tag
    <2>2. CASE Tag(slot) \in {"Draining", "Drained", "Waiting", "Restarting"}
      BY <2>2 DEF ApplyStatus, Result, IsPlanned
    <2>3. CASE IsPlanned(slot)
      BY <2>3 DEF ApplyStatus, Result, IsPlanned
    <2> QED BY <2>1, <2>2, <2>3 DEF SlotTags, IsPlanned
  <1>2. activated \in ManagedSlot /\ activated.chain = slot.chain
    BY ActiveType DEF ManagedSlot
  <1> HIDE DEF activated, evidence, r
  <1>3. CASE r.marks = {}
    BY <1>3 DEF OneOf, r
  <1>4. CASE r = ApplyConfirmationWatermark(activated, seen, requested)
    <2>1. OneOf(r.marks, activated.chain)
      BY <1>2, <1>4, LagsOnce
    <2> QED BY <1>2, <2>1 DEF r
  <1>5. CASE r = ObserveStatusEvidence(slot, evidence, requested)
    BY <1>5, ObservedOnce DEF r
  <1> QED BY <1>1, <1>3, <1>4, <1>5

(* apply_status reports one failure as it ends a chain, and no acceptance. *)
LEMMA StatusReported ==
  ASSUME NEW slot, NEW s \in StreamIds, NEW G, SlotOK(slot, s, G),
         NEW seen \in OptTicks, NEW requested \in Ticks
  PROVE  LET r == ApplyStatus(slot, seen, requested)
         IN  /\ Tracks({}, r.slot, slot) /\ \A m \in r.marks : m.mark = "Failed"
             /\ Charges(r.marks, r.slot, slot) /\ KeepsFailed(r.slot, slot)
             /\ MovesOn(r.slot, slot)
             /\ r.marks # {} => IsPlanned(slot)
  <1> DEFINE r == ApplyStatus(slot, seen, requested)
             new == r.slot
  <1>1. StatusShape(new, slot) /\ StatusMarks(r.marks, new, slot, s)
    BY ApplyStatusShape
  <1>2. SlotOK(new, s, G) /\ slot \in ManagedSlot
    BY ApplyStatusOK DEF SlotOK
  <1>3. OneOf(r.marks, slot.chain)
    BY <1>2, StatusFailsOnce
  <1> HIDE DEF r
  <1>4. Tracks({}, new, slot)
    <2>1. new.chain = NoChain \/ new.chain.calls = slot.chain.calls
      BY <1>1, ExhaustedShape DEF StatusShape
    <2> QED BY <2>1, NoChainTracked, FewerCallsTracked
  <1>5. KeepsFailed(new, slot)
    <2>1. Tag(new) = "Draining" => new = slot
      BY <1>1, ExhaustedShape DEF StatusShape
    <2> QED BY <2>1 DEF KeepsFailed
  <1>6. IsPlanned(slot) => /\ slot.chain.first \in Nat /\ slot.chain.last \in Nat
                           /\ slot.chain.first <= slot.chain.last
    BY PlannedChain, TicksType
  <1>7. IsPlanned(slot) /\ Tag(new) \in {"Waiting", "Restarting"} =>
            new.restartAt = slot.chain.last + STREAM_COUNT
    <2> SUFFICES ASSUME IsPlanned(slot), Tag(new) \in {"Waiting", "Restarting"}
                 PROVE  new.restartAt = slot.chain.last + STREAM_COUNT
      OBVIOUS
    <2>1. Tag(new) = "Restarting" /\ new.chain.last = slot.chain.last
      BY <1>1, ExhaustedShape DEF StatusShape, IsPlanned
    <2> QED BY <1>2, <2>1 DEF SlotOK, StateOK
  <1>8. Charges(r.marks, new, slot)
    <2> SUFFICES ASSUME NEW m \in r.marks
                 PROVE  /\ m.target > slot.chain.first
                        /\ Tag(new) \in {"Waiting", "Restarting"} => m.target <= new.restartAt
                        /\ \A n \in r.marks : n.target = m.target
      BY DEF Charges
    <2>1. /\ m.target > slot.chain.first /\ m.target <= slot.chain.last
          /\ \A n \in r.marks : n.target = m.target
      BY <1>3 DEF OneOf
    <2>2. IsPlanned(slot)
      BY <1>1 DEF StatusMarks
    <2>3. m.target \in Int
      <3>1. m.target % STREAM_COUNT = s
        BY <1>1 DEF StatusMarks, OneTarget
      <3>2. r.marks \subseteq Marks
        BY ApplyStatusOK DEF r
      <3>3. m \in Marks
        BY <3>2
      <3>4. m.target \in Ticks
        BY <3>3 DEF Marks
      <3>5. m.target \in Nat
        BY <3>4, TicksType
      <3> QED BY <3>5
    <2>4. Tag(new) \in {"Waiting", "Restarting"} => m.target <= new.restartAt
      BY <1>6, <1>7, <2>1, <2>2, <2>3
    <2> QED BY <2>1, <2>4
  <1>9. MovesOn(new, slot)
    <2>1. CASE IsPlanned(slot)
      <3>1. HasChain(new) => new.chain.first = slot.chain.first
        BY <1>1, <2>1, ExhaustedShape DEF StatusShape, IsPlanned, HasChain, NoChain
      <3>2. Tag(new) \in {"Waiting", "Restarting"} => new.restartAt >= slot.chain.first
        BY <1>6, <1>7, <2>1
      <3> QED BY <2>1, <3>1, <3>2 DEF MovesOn, Fresh
    <2>2. CASE ~IsPlanned(slot)
      BY <1>1, <2>2 DEF StatusShape, MovesOn, Fresh, IsPlanned, HasChain
    <2> QED BY <2>1, <2>2
  <1> QED BY <1>1, <1>3, <1>4, <1>5, <1>8, <1>9 DEF r, OneOf, StatusMarks

-----------------------------------------------------------------------------
(* What expiry reports *)

(* A reveal that is overdue of its own chain comes after its first target. *)
LEMMA OverdueAfterFirst ==
  ASSUME NEW slot, NEW s, NEW G, SlotOK(slot, s, G), IsPlanned(slot) \/ Tag(slot) = "Draining",
         NEW tick, NEW c \in OverdueOwn(slot.chain, tick), c.kind # "FirstCommit"
  PROVE  /\ c.target \in Nat /\ c.target > slot.chain.first
         /\ IsPlanned(slot) => c.target <= slot.chain.last
  <1>1. c \in slot.chain.calls /\ ~Remnant(slot.chain, c)
    BY DEF OverdueOwn
  <1>2. /\ ChainOK(slot.chain, s, G) /\ c.target \in G /\ G \subseteq Ticks
        /\ IsPlanned(slot) => \A t \in G : t <= slot.chain.last
    BY <1>1 DEF SlotOK, StateOK, IsPlanned, ChainOK, CallOK, OpenTail
  <1>3. c.target \in Nat /\ slot.chain.first \in Nat
    BY <1>2, TicksType DEF ChainOK
  <1>4. c.target # slot.chain.first
    BY <1>1, <1>2 DEF ChainOK, CallOK
  <1> QED BY <1>1, <1>2, <1>3, <1>4 DEF Remnant

(* expire_calls charges one target of the chain it ends.                   *)
LEMMA ExpiryChargesOnce ==
  ASSUME NEW slot, NEW s, NEW G, SlotOK(slot, s, G), NEW tick,
         NEW t \in ExpiryFailures(slot, tick)
  PROVE  /\ \A u \in ExpiryFailures(slot, tick) : u = t
         /\ IsPlanned(slot) \/ Tag(slot) = "Draining"
         /\ \E c \in OverdueOwn(slot.chain, tick) : c.target = t /\ c.kind # "FirstCommit"
  <1> DEFINE overdue == OverdueOwn(slot.chain, tick)
             normal == {c \in overdue : c.kind = "RevealAndCommit"}
             attempted == {c \in overdue : /\ c.kind = "TerminalReveal"
                                           /\ c.state \in {"Broadcasting", "Retry"}}
             counted == CASE IsPlanned(slot) -> normal
                          [] Tag(slot) = "Draining" -> IF normal # {} THEN normal ELSE attempted
                          [] OTHER -> {}
  <1>1. ExpiryFailures(slot, tick) = {c.target : c \in {d \in counted : \A e \in counted : d.target <= e.target}}
    BY DEF ExpiryFailures
  <1>2. \A c \in counted : /\ c \in overdue /\ c.kind # "FirstCommit"
                           /\ IsPlanned(slot) \/ Tag(slot) = "Draining"
    BY DEF IsPlanned
  <1> HIDE DEF counted, overdue
  <1>3. \A c \in counted : c.target \in Nat
    BY <1>2, OverdueAfterFirst DEF overdue
  <1>4. ASSUME NEW c \in counted, NEW d \in counted, c.target <= d.target, d.target <= c.target
        PROVE  c.target = d.target
    BY <1>3, <1>4
  <1> QED BY <1>1, <1>2, <1>4 DEF overdue

(* expire_calls reports a failure of the chain it ends, and sends nothing. *)
LEMMA ExpireReports ==
  ASSUME NEW slot, NEW s \in StreamIds, NEW G, SlotOK(slot, s, G), DeliveryOK(slot, s),
         NEW tick \in Ticks
  PROVE  LET r == ExpireCalls(slot, tick)
         IN  /\ Tracks({}, r.slot, slot) /\ \A m \in r.marks : m.mark = "Failed"
             /\ Charges(r.marks, r.slot, slot) /\ KeepsFailed(r.slot, slot)
             /\ MovesOn(r.slot, slot)
  <1> DEFINE r == ExpireCalls(slot, tick)
             new == r.slot
  <1>1. /\ ExpiryShape(new, slot, tick)
        /\ \/ new.chain.calls = Expired(slot.chain.calls, tick)
           \/ new.chain = NoChain
    BY ExpireCallsShape
  <1>2. \A m \in r.marks : m.mark = "Failed" /\ m.target \in ExpiryFailures(slot, tick)
    BY DEF ExpireCalls, Result, MarkAll
  <1>3. \A c \in slot.chain.calls :
            /\ SameBytes(ExpireCall(c, tick), c)
            /\ ExpireCall(c, tick).inflight => c.inflight
            /\ ExpireCall(c, tick).state = "Accepted" => c.state = "Accepted"
            /\ c.state = "Failed" => ExpireCall(c, tick).state = "Failed"
    <2> SUFFICES ASSUME NEW c \in slot.chain.calls
                 PROVE  /\ SameBytes(ExpireCall(c, tick), c)
                        /\ ExpireCall(c, tick).inflight => c.inflight
                        /\ ExpireCall(c, tick).state = "Accepted" => c.state = "Accepted"
                        /\ c.state = "Failed" => ExpireCall(c, tick).state = "Failed"
      OBVIOUS
    <2>1. c \in PlannedCall /\ TaskOK(slot, c)
      BY CallsDistinct DEF DeliveryOK
    <2>2. /\ SameBytes(ExpireCall(c, tick), c)
          /\ ExpireCall(c, tick).inflight => c.inflight
      BY <2>1, ExpireCallBytes, ExpireCallTask
    <2>3. \/ ExpireCall(c, tick).state = c.state
          \/ Overdue(c, tick) /\ ExpireCall(c, tick).state = "Failed"
      BY <2>1 DEF ExpireCall, PlannedCall
    <2>4. ExpireCall(c, tick).state = "Accepted" => c.state = "Accepted"
      BY <2>3
    <2>5. c.state = "Failed" => ExpireCall(c, tick).state = "Failed"
      BY <2>3
    <2> QED BY <2>2, <2>4, <2>5
  <1>4. IsPlanned(slot) \/ Tag(slot) = "Draining" =>
            /\ slot.chain.first \in Nat /\ slot.chain.last \in Nat
            /\ slot.chain.first <= slot.chain.last /\ slot.chain.first # NoTick
    BY TicksType DEF SlotOK, StateOK, IsPlanned, ChainOK
  <1> HIDE DEF r
  <1>5. Tracks({}, new, slot)
    <2>1. CASE new.chain.calls = Expired(slot.chain.calls, tick)
      <3>1. \A c \in new.chain.calls : \E d \in slot.chain.calls : c = ExpireCall(d, tick)
        BY <2>1 DEF Expired
      <3> QED BY <1>3, <3>1 DEF Tracks
    <2> QED BY <1>1, <2>1, NoChainTracked
  <1>6. KeepsFailed(new, slot)
    <2> SUFFICES ASSUME TerminalFailed(slot), Tag(new) = "Draining" PROVE TerminalFailed(new)
      BY DEF KeepsFailed
    <2>1. SameChain(new, slot) /\ Tag(slot) = "Draining"
      BY <1>1, ExhaustedShape DEF ExpiryShape, LostChain, SameChain, Tag, Drained, Waiting
    <2>2. new.chain.calls = Expired(slot.chain.calls, tick)
      BY <1>1, <1>4, <2>1 DEF SameChain, NoChain
    <2>3. PICK t \in slot.chain.calls : t.kind = "TerminalReveal" /\ t.state = "Failed"
      BY DEF TerminalFailed
    <2>4. ExpireCall(t, tick) \in new.chain.calls
      BY <2>2 DEF Expired
    <2> QED BY <1>3, <2>3, <2>4 DEF TerminalFailed, SameBytes
  <1>7. MovesOn(new, slot)
    <2>1. CASE SameChain(new, slot)
      BY <1>6, <2>1, SameChainMoves
    <2>2. CASE IsPlanned(slot) /\ LostChain(new, slot)
      BY <1>4, <2>2, ExhaustedShape DEF LostChain, MovesOn, HasChain, NoChain, Fresh, IsPlanned
    <2>3. CASE new.state = Drained("Failed") /\ new.chain = NoChain
      BY <2>3 DEF MovesOn, HasChain, NoChain, Fresh, IsPlanned, Tag, Drained, Waiting
    <2> QED BY <1>1, <2>1, <2>2, <2>3 DEF ExpiryShape
  <1>8. Charges(r.marks, new, slot)
    <2> SUFFICES ASSUME NEW m \in r.marks
                 PROVE  /\ m.target > slot.chain.first
                        /\ Tag(new) \in {"Waiting", "Restarting"} => m.target <= new.restartAt
                        /\ \A n \in r.marks : n.target = m.target
      BY DEF Charges
    <2>1. /\ \A n \in r.marks : n.target = m.target
          /\ IsPlanned(slot) \/ Tag(slot) = "Draining"
          /\ OverdueOwn(slot.chain, tick) # {}
          /\ m.target \in Nat /\ m.target > slot.chain.first
          /\ IsPlanned(slot) => m.target <= slot.chain.last
      BY <1>2, ExpiryChargesOnce, OverdueAfterFirst
    <2>2. ASSUME Tag(new) \in {"Waiting", "Restarting"} PROVE m.target <= new.restartAt
      <3>1. IsPlanned(slot) /\ new.restartAt = slot.chain.last + STREAM_COUNT
        BY <1>1, <2>1, <2>2, ExhaustedShape
           DEF ExpiryShape, LostChain, IsPlanned, Tag, Drained, Waiting
      <3> QED BY <1>4, <2>1, <3>1
    <2> QED BY <2>1, <2>2
  <1> QED BY <1>2, <1>5, <1>6, <1>7, <1>8 DEF r

-----------------------------------------------------------------------------
(* What sending reports *)

(* dispatch_calls keeps the digest of every reveal it sends, and reports   *)
(* no outcome: nothing it dispatches is given up.                          *)
LEMMA DispatchReports ==
  ASSUME NEW slot, NEW s \in StreamIds, NEW G, SlotOK(slot, s, G), DeliveryOK(slot, s),
         NEW tick \in Ticks, BeforeTarget(slot, tick)
  PROVE  LET r == DispatchCalls(slot, tick)
         IN  /\ Tracks(r.marks, r.slot, slot) /\ \A m \in r.marks : m.mark = "Digest"
             /\ KeepsFailed(r.slot, slot) /\ MovesOn(r.slot, slot)
  <1> DEFINE after(c) == DispatchCall(slot, c, tick)
             calls == {after(c) : c \in slot.chain.calls}
             r == DispatchCalls(slot, tick)
             new == r.slot
  <1>1. SameChain(new, slot)
    BY DispatchServes
  <1>2. new.chain.calls = calls
    <2>1. new = [slot EXCEPT !.chain.calls = calls] /\ slot \in ManagedSlot
      BY DEF DispatchCalls, Result, SlotOK
    <2> HIDE DEF calls, r
    <2> QED BY <2>1, RecalledFields
  <1>3. \A c \in slot.chain.calls : c \in PlannedCall /\ TaskOK(slot, c) /\ ~GivesUp(slot, c)
    BY CallsDistinct DEF DeliveryOK, TaskOK
  <1>4. \A m \in r.marks : m.mark = "Digest"
    BY <1>3 DEF DispatchCalls, Result, MarkAll
  <1>5. ASSUME NEW c \in slot.chain.calls, Sendable(slot, c, tick), c.kind # "FirstCommit"
        PROVE  Mark(c.target, "Digest") \in r.marks
    <2> DEFINE sendable == {d \in slot.chain.calls : Sendable(slot, d, tick)}
               givenUp == {d.target : d \in {e \in sendable : GivesUp(slot, e)}}
               revealed == {d.target : d \in {e \in sendable : e.kind # "FirstCommit"}}
    <2>1. givenUp = {}
      BY <1>3
    <2>2. c.target \in revealed
      BY <1>5
    <2>3. r.marks = MarkAll(revealed \ givenUp, "Digest") \cup MarkAll(givenUp, "Failed")
      BY DEF DispatchCalls, Result
    <2> HIDE DEF revealed, givenUp, r
    <2> QED BY <2>1, <2>2, <2>3 DEF MarkAll, Mark
  <1>6. \A c \in slot.chain.calls :
            /\ SameBytes(after(c), c)
            /\ after(c).state = "Accepted" => c.state = "Accepted"
            /\ after(c).inflight => c.inflight \/ Sendable(slot, c, tick)
            /\ c.state = "Failed" => after(c).state = "Failed"
    <2> SUFFICES ASSUME NEW c \in slot.chain.calls
                 PROVE  /\ SameBytes(after(c), c)
                        /\ after(c).state = "Accepted" => c.state = "Accepted"
                        /\ after(c).inflight => c.inflight \/ Sendable(slot, c, tick)
                        /\ c.state = "Failed" => after(c).state = "Failed"
      OBVIOUS
    <2>1. SameBytes(after(c), c)
      BY <1>3, DispatchCallBytes
    <2>2. CASE ~Sendable(slot, c, tick)
      BY <2>1, <2>2 DEF DispatchCall
    <2>3. CASE Sendable(slot, c, tick) /\ RedundantNow(slot, c, tick)
      <3>1. DispatchCall(slot, c, tick) = [c EXCEPT !.inflight = TRUE, !.redundant = TRUE]
        BY <1>3, <2>3 DEF DispatchCall
      <3>2. after(c).state = c.state
        BY <1>3, <3>1 DEF PlannedCall
      <3> QED BY <2>1, <2>3, <3>2
    <2>4. CASE Sendable(slot, c, tick) /\ ~RedundantNow(slot, c, tick)
      <3>1. DispatchCall(slot, c, tick) = [c EXCEPT !.inflight = TRUE, !.state = "Broadcasting"]
        BY <1>3, <2>4 DEF DispatchCall
      <3>2. after(c).state = "Broadcasting" /\ c.state \in {"Ready", "Retry"}
        BY <1>3, <2>4, <3>1 DEF PlannedCall, Sendable
      <3> QED BY <2>1, <2>4, <3>2
    <2> QED BY <2>2, <2>3, <2>4
  <1>7. \A c \in calls : \E d \in slot.chain.calls : c = after(d)
    OBVIOUS
  <1>8. \A d \in slot.chain.calls : after(d) \in calls
    OBVIOUS
  <1> HIDE DEF after, calls, r
  <1>9. Tracks(r.marks, new, slot)
    <2> SUFFICES ASSUME NEW d \in slot.chain.calls, d.kind = "RevealAndCommit"
                 PROVE  /\ after(d).state = "Accepted" => d.state = "Accepted"
                        /\ after(d).inflight =>
                               Mark(d.target, "Digest") \in r.marks \/ d.inflight
      BY <1>2, <1>6, <1>7 DEF Tracks, SameBytes
    <2> QED BY <1>5, <1>6
  <1>10. KeepsFailed(new, slot)
    BY <1>2, <1>6, <1>8 DEF KeepsFailed, TerminalFailed, SameBytes
  <1> QED BY <1>1, <1>4, <1>9, <1>10, SameChainMoves DEF r

(* A drained state is not served any more.                                 *)
LEMMA DrainedTag ==
  ASSUME NEW slot, NEW o, slot.state = Drained(o)
  PROVE  Tag(slot) = "Drained"
  BY DEF Tag, Drained, Waiting

(* finish_drain, finish_status_restart and prune_calls only drop calls and *)
(* chains, and restart no earlier than planned.                            *)
LEMMA CloseReports ==
  ASSUME NEW slot, NEW s \in StreamIds, NEW G, SlotOK(slot, s, G), DeliveryOK(slot, s),
         NEW tick \in Ticks, BeforeTarget(slot, tick)
  PROVE  LET new == CloseCycle(slot, tick)
         IN  Tracks({}, new, slot) /\ KeepsFailed(new, slot) /\ MovesOn(new, slot)
  <1> DEFINE drained == FinishDrain(slot)
             restarted == FinishStatusRestart(drained, tick)
             new == CloseCycle(slot, tick)
  <1>1. /\ SlotOK(drained, s, G)
        /\ drained = slot \/ (drained.chain = NoChain /\ Tag(drained) = "Drained")
    BY FinishDrainOK, FinishDrainShape, DrainedTag DEF KeepsOK
  <1> HIDE DEF drained
  <1>2. /\ SlotOK(restarted, s, G)
        /\ restarted = drained \/ restarted.chain = NoChain
        /\ Tag(restarted) \in {"Waiting", "Drained"} \/ restarted = drained
    BY <1>1, FinishStatusRestartOK, FinishRestartShape, DrainedTag DEF KeepsOK
  <1> HIDE DEF restarted
  <1>3. /\ SameChain(new, restarted) /\ new.chain.calls \subseteq restarted.chain.calls
        /\ Tag(restarted) = "Draining" => new = restarted
    BY <1>2, PruneShape DEF CloseCycle, restarted, drained
  <1>4. \/ SameChain(new, slot)
        \/ /\ Tag(slot) = "Draining"
           /\ new.chain = NoChain /\ new.state \in {Drained("Accepted"), Drained("Failed")}
        \/ /\ Tag(slot) = "Restarting"
           /\ new.chain = NoChain /\ new.restartAt = slot.restartAt
           /\ Tag(new) = "Waiting" \/ new.state = Drained("NothingToDrain")
    BY CloseCycleServes
  <1> HIDE DEF new
  <1>5. new.chain.calls \subseteq slot.chain.calls
    BY <1>1, <1>2, <1>3 DEF NoChain
  <1>6. Tracks({}, new, slot)
    BY <1>5, FewerCallsTracked
  <1>7. Tag(new) = "Draining" => new = slot
    BY <1>1, <1>2, <1>3 DEF SameChain, Tag
  <1>8. KeepsFailed(new, slot)
    BY <1>7 DEF KeepsFailed
  <1>9. MovesOn(new, slot)
    <2>1. CASE SameChain(new, slot)
      BY <1>8, <2>1, SameChainMoves
    <2>2. CASE Tag(slot) = "Draining" /\ new.chain = NoChain
               /\ new.state \in {Drained("Accepted"), Drained("Failed")}
      <3>1. Tag(new) = "Drained"
        BY <2>2, DrainedTag
      <3> QED BY <2>2, <3>1 DEF MovesOn, HasChain, NoChain, Fresh, IsPlanned
    <2>3. CASE /\ Tag(slot) = "Restarting"
               /\ new.chain = NoChain /\ new.restartAt = slot.restartAt
               /\ Tag(new) = "Waiting" \/ new.state = Drained("NothingToDrain")
      <3>1. Tag(new) \in {"Waiting", "Drained"}
        BY <2>3, DrainedTag
      <3> QED BY <2>3, <3>1 DEF MovesOn, HasChain, NoChain, Fresh, IsPlanned
    <2> QED BY <1>4, <2>1, <2>2, <2>3
  <1> QED BY <1>6, <1>8, <1>9 DEF new

(* A slot in order that is planned serves a chain.                         *)
LEMMA PlannedHasChain ==
  ASSUME NEW slot, NEW s, NEW G, SlotOK(slot, s, G)
  PROVE  IsPlanned(slot) \/ Tag(slot) \in {"Draining", "Restarting"} => HasChain(slot)
  BY HasChainTag DEF IsPlanned

(* The per-slot tail of a cycle tracks what it sends, and charges a chain  *)
(* as it ends it.                                                          *)
LEMMA SendReports ==
  ASSUME NEW slot, NEW s \in StreamIds, NEW G, SlotOK(slot, s, G), DeliveryOK(slot, s),
         NEW tick \in Ticks
  PROVE  LET r == SendSlot(slot, tick)
         IN  /\ Tracks(r.marks, r.slot, slot) /\ \A m \in r.marks : m.mark # "Ok"
             /\ Charges(r.marks, r.slot, slot) /\ MovesOn(r.slot, slot)
  <1> DEFINE expired == ExpireCalls(slot, tick)
             sent == DispatchCalls(expired.slot, tick)
             new == CloseCycle(sent.slot, tick)
             r == SendSlot(slot, tick)
  <1>1. r.slot = new /\ r.marks = expired.marks \cup sent.marks
    BY DEF SendSlot, CloseCycle, Result
  <1>2. /\ SlotOK(expired.slot, s, G) /\ DeliveryOK(expired.slot, s)
        /\ BeforeTarget(expired.slot, tick)
        /\ expired.marks # {} => expired.slot.chain = NoChain
        /\ Tracks({}, expired.slot, slot) /\ \A m \in expired.marks : m.mark = "Failed"
        /\ Charges(expired.marks, expired.slot, slot) /\ MovesOn(expired.slot, slot)
    BY ExpireCallsOK, ExpireServes, ExpireReports DEF BeforeTarget
  <1> HIDE DEF expired
  <1>3. /\ SlotOK(sent.slot, s, G) /\ DeliveryOK(sent.slot, s) /\ BeforeTarget(sent.slot, tick)
        /\ expired.slot.chain.calls = {} => sent.slot = expired.slot /\ sent.marks = {}
        /\ Tracks(sent.marks, sent.slot, expired.slot) /\ \A m \in sent.marks : m.mark = "Digest"
        /\ MovesOn(sent.slot, expired.slot)
    BY <1>2, DispatchCallsOK, DispatchServes, DispatchReports
  <1> HIDE DEF sent
  <1>4. /\ Tracks({}, new, sent.slot) /\ MovesOn(new, sent.slot)
        /\ sent.slot.chain = NoChain => new = sent.slot
    BY <1>3, CloseCycleServes, CloseReports
  <1> HIDE DEF new
  <1>5. Tracks(sent.marks, new, slot)
    <2>1. Tracks({} \cup sent.marks, sent.slot, slot)
      BY <1>2, <1>3, TracksTwice
    <2>2. Tracks(({} \cup sent.marks) \cup {}, new, slot)
      BY <1>4, <2>1, TracksTwice
    <2>3. ({} \cup sent.marks) \cup {} = sent.marks
      OBVIOUS
    <2> QED BY <2>2, <2>3
  <1>6. Tracks(r.marks, new, slot)
    BY <1>1, <1>5 DEF Tracks
  <1>7. MovesOn(new, slot)
    <2>1. MovesOn(sent.slot, slot)
      BY <1>2, <1>3, MovesTwice, PlannedHasChain
    <2> QED BY <1>3, <1>4, <2>1, MovesTwice, PlannedHasChain
  <1>8. Charges(r.marks, new, slot)
    <2>1. expired.marks # {} => new = expired.slot
      BY <1>2, <1>3, <1>4 DEF NoChain
    <2>2. \A m \in r.marks : m.mark = "Failed" => m \in expired.marks
      BY <1>1, <1>3
    <2> QED BY <1>2, <2>1, <2>2 DEF Charges
  <1>9. \A m \in r.marks : m.mark # "Ok"
    BY <1>1, <1>2, <1>3
  <1> HIDE DEF r
  <1>10. /\ Tracks(r.marks, r.slot, slot) /\ \A m \in r.marks : m.mark # "Ok"
         /\ Charges(r.marks, r.slot, slot) /\ MovesOn(r.slot, slot)
    BY <1>1, <1>6, <1>7, <1>8, <1>9
  <1> QED BY <1>10 DEF r

-----------------------------------------------------------------------------
(* What planning reports *)

(* A waiting or frozen slot serves a new chain, no earlier than it waited. *)
Begun(new, slot) ==
    /\ Tag(slot) \in {"Waiting", "Restarting"} /\ Tag(new) = "Starting"
    /\ new.chain.first \in Ticks /\ new.chain.first >= slot.restartAt

(* Planning sends nothing, and lets a chain go on or begins one.           *)
LEMMA PlanReports ==
  ASSUME NEW slot, NEW s, NEW G, SlotOK(slot, s, G), NEW tick, NEW new, PlanShape(new, slot, tick)
  PROVE  /\ Tracks({}, new, slot)
         /\ MovesOn(new, slot) \/ (Replaced(new, slot, tick) /\ Begun(new, slot))
  <1>1. CASE new = slot
    BY <1>1, FewerCallsTracked DEF MovesOn
  <1>2. CASE Replaced(new, slot, tick)
    <2>1. Tracks({}, new, slot)
      BY <1>2, FewerCallsTracked DEF Replaced, Grows
    <2> QED BY <1>2, <2>1 DEF Replaced, Begun, MayStart
  <1>3. CASE Extended(new, slot, tick)
    <2>1. Tracks({}, new, slot)
      BY <1>3, FewerCallsTracked DEF Extended, Extends
    <2> QED BY <1>3, <2>1 DEF Extended, Extends, MovesOn, HasChain, Fresh, IsPlanned, Tag
  <1>4. CASE Missed(new, slot, tick)
    <2>1. slot.chain.first \in Nat /\ slot.chain.last \in Nat /\ slot.chain.first <= slot.chain.last
      BY <1>4, PlannedChain, TicksType DEF Missed
    <2>2. LostChain(new, slot) /\ IsPlanned(slot)
      BY <1>4 DEF Missed
    <2>3. MovesOn(new, slot)
      BY <2>1, <2>2, ExhaustedShape DEF LostChain, MovesOn, HasChain, NoChain, Fresh, IsPlanned
    <2> QED BY <2>2, <2>3, NoChainTracked DEF LostChain
  <1>5. CASE Closed(new, slot)
    <2>1. Tracks({}, new, slot)
      BY <1>5, FewerCallsTracked DEF Closed
    <2> QED BY <1>5, <2>1 DEF Closed, MovesOn, HasChain, Fresh, IsPlanned
  <1>6. CASE Latched(new, slot)
    <2>1. Tracks({}, new, slot)
      BY <1>6, FewerCallsTracked DEF Latched
    <2>2. /\ Tag(new) \in {"Restarting", "Drained"} /\ new.chain = slot.chain
          /\ Tag(new) = "Restarting" => Tag(slot) = "Restarting" /\ new.restartAt = slot.restartAt
      BY <1>6, DrainedTag DEF Latched
    <2> QED BY <2>1, <2>2 DEF MovesOn, HasChain, Fresh, IsPlanned
  <1> QED BY <1>1, <1>2, <1>3, <1>4, <1>5, <1>6 DEF PlanShape

(* extend_chain charges a missed chain with one target: an overdue call,   *)
(* or else the target that was never planned.                              *)
LEMMA MissedCharges ==
  ASSUME NEW slot, NEW s \in StreamIds, NEW G, SlotOK(slot, s, G), DeliveryOK(slot, s),
         IsPlanned(slot), NEW tick \in Ticks, slot.chain.last + STREAM_COUNT <= tick
  PROVE  LET r == ExtendChain(slot, s, tick)
         IN  Charges(r.marks, r.slot, slot) /\ \A m \in r.marks : m.mark = "Failed"
  <1> DEFINE expired == ExpireCalls(slot, tick)
             next == slot.chain.last + STREAM_COUNT
             lost == LoseChain(expired.slot, SaturatingAdd(tick, 1), FALSE)
             both == Result(lost, expired.marks \cup MarkAll({next}, "Failed"))
             r == ExtendChain(slot, s, tick)
  <1>1. /\ slot.chain.first \in Nat /\ slot.chain.last \in Nat
        /\ slot.chain.first <= slot.chain.last /\ HasChain(slot)
    BY PlannedChain, TicksType
  <1>2. CheckedAdd(slot.chain.last, STREAM_COUNT) = next /\ next # NoTick
    BY <1>1, TicksType, MaxTickAssumption DEF CheckedAdd, Ticks, NoTick
  <1>3. /\ SlotOK(expired.slot, s, G) /\ ExpiryShape(expired.slot, slot, tick)
        /\ Charges(expired.marks, expired.slot, slot) /\ \A m \in expired.marks : m.mark = "Failed"
        /\ expired.marks # {} => expired.slot.chain = NoChain
    BY ExpireCallsOK, ExpireCallsShape, ExpireReports, ExpireServes
  <1>4. \/ r = expired /\ ~IsPlanned(expired.slot)
        \/ r = both /\ IsPlanned(expired.slot)
    BY <1>1, <1>2 DEF ExtendChain
  <1> HIDE DEF expired, r
  <1>5. ASSUME ~IsPlanned(expired.slot)
        PROVE  Charges(r.marks, r.slot, slot) /\ \A m \in r.marks : m.mark = "Failed"
    BY <1>3, <1>4, <1>5
  <1>6. ASSUME IsPlanned(expired.slot)
        PROVE  Charges(r.marks, r.slot, slot) /\ \A m \in r.marks : m.mark = "Failed"
    <2>1. expired.marks = {}
      BY <1>3, <1>6, PlannedHasChain DEF HasChain, NoChain
    <2>2. SameChain(expired.slot, slot)
      BY <1>3, <1>6, ExhaustedShape, DrainedTag DEF ExpiryShape, LostChain, IsPlanned
    <2>3. LostChain(lost, expired.slot)
      BY <1>3, <1>6, LoseChainShape
    <2> HIDE DEF lost, next
    <2>4. r.slot = lost /\ r.marks = MarkAll({next}, "Failed")
      <3>1. expired.marks \cup MarkAll({next}, "Failed") = MarkAll({next}, "Failed")
        BY <2>1
      <3>2. r = both
        BY <1>4, <1>6
      <3>3. r = Result(lost, MarkAll({next}, "Failed"))
        BY <3>1, <3>2
      <3> QED BY <3>3 DEF Result
    <2>5. Tag(lost) \in {"Waiting", "Restarting"} => lost.restartAt = slot.chain.last + STREAM_COUNT
      BY <2>2, <2>3, ExhaustedShape DEF LostChain, SameChain
    <2>6. \A m \in r.marks : m.target = next /\ m.mark = "Failed"
      BY <2>4 DEF MarkAll
    <2>7. next > slot.chain.first /\ next <= slot.chain.last + STREAM_COUNT
      BY <1>1 DEF next
    <2>8. Tag(lost) \in {"Waiting", "Restarting"} => next <= lost.restartAt
      BY <2>5, <2>7
    <2> QED BY <2>4, <2>6, <2>7, <2>8 DEF Charges
  <1>7. Charges(r.marks, r.slot, slot) /\ \A m \in r.marks : m.mark = "Failed"
    BY <1>5, <1>6
  <1> QED BY <1>7 DEF r

(* The planning of an active cycle charges one missed target.              *)
LEMMA PlanCharges ==
  ASSUME NEW slot, NEW s \in StreamIds, NEW G, SlotOK(slot, s, G), DeliveryOK(slot, s),
         NEW tick \in Ticks
  PROVE  LET r == PlanSlot(slot, s, tick)
         IN  Charges(r.marks, r.slot, slot) /\ \A m \in r.marks : m.mark = "Failed"
  <1> DEFINE r == PlanSlot(slot, s, tick)
  <1>1. r.marks = {} \/ Missed(r.slot, slot, tick)
    BY PlanSlotShape DEF DeliveryOK
  <1>2. IsPlanned(slot) => r = ExtendChain(slot, s, tick)
    <2>1. IsPlanned(slot) => StartIfReady(slot, s, tick) = Result(slot, {})
      BY DEF StartIfReady, MayStart, IsPlanned
    <2>2. Result(slot, {}).ok /\ Result(slot, {}).slot = slot
      BY DEF Result
    <2> QED BY <2>1, <2>2 DEF PlanSlot
  <1> HIDE DEF r
  <1>3. CASE r.marks = {}
    BY <1>3 DEF Charges, r
  <1>4. CASE Missed(r.slot, slot, tick)
    <2>1. IsPlanned(slot) /\ slot.chain.last + STREAM_COUNT <= tick
      BY <1>4 DEF Missed
    <2>2. r = ExtendChain(slot, s, tick)
      BY <1>2, <2>1
    <2>3. Charges(r.marks, r.slot, slot) /\ \A m \in r.marks : m.mark = "Failed"
      BY <2>1, <2>2, MissedCharges
    <2> QED BY <2>3 DEF r
  <1> QED BY <1>1, <1>3, <1>4

-----------------------------------------------------------------------------
(* What a step reports of a stream *)

(* Calls are tracked, the chain goes on or a new one begins, and a failure *)
(* is charged to the chain.                                                *)
Reports(reported, new, slot) ==
    /\ Tracks(reported, new, slot)
    /\ MovesOn(new, slot) \/ Begun(new, slot)
    /\ Charges(reported, new, slot)

(* A harvest without a response.                                           *)
LEMMA HarvestedReports ==
  ASSUME NEW slot, NEW s \in StreamIds, NEW G, SlotOK(slot, s, G), DeliveryOK(slot, s),
         NEW result
  PROVE  LET r == HarvestBroadcasts(slot, result)
         IN  Reports(r.marks, r.slot, slot) /\ OksWereSent(r.marks, slot)
  <1> DEFINE r == HarvestBroadcasts(slot, result)
  <1>1. /\ Tracks(r.marks, r.slot, slot) /\ OksWereSent(r.marks, slot)
        /\ Charges(r.marks, r.slot, slot) /\ KeepsFailed(r.slot, slot)
        /\ SameChain(r.slot, slot)
    BY HarvestReports, HarvestServes
  <1> HIDE DEF r
  <1>2. MovesOn(r.slot, slot)
    BY <1>1, SameChainMoves
  <1>3. Reports(r.marks, r.slot, slot)
    BY <1>1, <1>2 DEF Reports
  <1> QED BY <1>1, <1>3 DEF r

(* A harvest and the response applied after it.                            *)
LEMMA ResponseReports ==
  ASSUME NEW slot, NEW s \in StreamIds, NEW G, SlotOK(slot, s, G), DeliveryOK(slot, s),
         NEW result, NEW seen \in OptTicks, NEW requested \in Ticks
  PROVE  LET h == HarvestBroadcasts(slot, result)
             r == ApplyStatus(h.slot, seen, requested)
         IN  Reports(h.marks \cup r.marks, r.slot, slot) /\ OksWereSent(h.marks \cup r.marks, slot)
  <1> DEFINE h == HarvestBroadcasts(slot, result)
             r == ApplyStatus(h.slot, seen, requested)
             all == h.marks \cup r.marks
  <1>1. /\ Tracks(h.marks, h.slot, slot) /\ OksWereSent(h.marks, slot)
        /\ Charges(h.marks, h.slot, slot) /\ KeepsFailed(h.slot, slot)
        /\ SameChain(h.slot, slot) /\ SlotOK(h.slot, s, G)
        /\ FailsOnce(h.marks, h.slot, slot, s)
    BY HarvestReports, HarvestServes, HarvestBroadcastsOK
  <1> HIDE DEF h
  <1>2. /\ Tracks({}, r.slot, h.slot) /\ \A m \in r.marks : m.mark = "Failed"
        /\ Charges(r.marks, r.slot, h.slot) /\ MovesOn(r.slot, h.slot)
        /\ r.marks # {} => IsPlanned(h.slot)
    BY <1>1, StatusReported
  <1> HIDE DEF r
  <1>3. OksWereSent(all, slot)
    BY <1>1, <1>2 DEF OksWereSent
  <1>4. Tracks(all, r.slot, slot)
    <2>1. Tracks(h.marks \cup {}, r.slot, slot)
      BY <1>1, <1>2, TracksTwice
    <2> QED BY <2>1 DEF Tracks
  <1>5. MovesOn(r.slot, slot)
    <2>1. MovesOn(h.slot, slot)
      BY <1>1, SameChainMoves
    <2> QED BY <1>1, <1>2, <2>1, MovesTwice, PlannedHasChain
  <1>6. Charges(all, r.slot, slot)
    <2>1. CASE \E m \in h.marks : m.mark = "Failed"
      <3>1. ~IsPlanned(h.slot) /\ r.marks = {}
        BY <1>1, <1>2, <2>1 DEF FailsOnce
      <3>2. Tag(r.slot) \in {"Waiting", "Restarting"} =>
                Tag(h.slot) \in {"Waiting", "Restarting"} /\ r.slot.restartAt = h.slot.restartAt
        BY <1>2, <3>1 DEF MovesOn
      <3>3. all = h.marks
        BY <3>1
      <3> QED BY <1>1, <3>2, <3>3 DEF Charges
    <2>2. CASE \A m \in h.marks : m.mark # "Failed"
      <3>1. h.slot.chain.first = slot.chain.first
        BY <1>1 DEF SameChain
      <3> QED BY <1>2, <2>2, <3>1 DEF Charges
    <2> QED BY <2>1, <2>2
  <1>7. Reports(all, r.slot, slot)
    BY <1>4, <1>5, <1>6 DEF Reports
  <1>8. Reports(h.marks \cup r.marks, r.slot, slot) /\ OksWereSent(h.marks \cup r.marks, slot)
    BY <1>3, <1>7
  <1> QED BY <1>8 DEF r, h

(* Planning and then sending.                                              *)
LEMMA CycleReports ==
  ASSUME NEW slot, NEW s \in StreamIds, NEW G, SlotOK(slot, s, G), DeliveryOK(slot, s),
         NEW tick \in Ticks, NEW mid, NEW H, SlotOK(mid, s, H), PlanShape(mid, slot, tick),
         NEW reported, reported # {} => Missed(mid, slot, tick),
         Charges(reported, mid, slot), \A m \in reported : m.mark = "Failed"
  PROVE  LET r == SendSlot(mid, tick)
         IN  /\ Reports(reported \cup r.marks, r.slot, slot)
             /\ \A m \in reported \cup r.marks : m.mark # "Ok"
  <1> DEFINE r == SendSlot(mid, tick)
             all == reported \cup r.marks
  <1>1. /\ Tracks({}, mid, slot)
        /\ MovesOn(mid, slot) \/ (Replaced(mid, slot, tick) /\ Begun(mid, slot))
    BY PlanReports
  <1>2. DeliveryOK(mid, s)
    BY PlanServes
  <1>3. /\ Tracks(r.marks, r.slot, mid) /\ \A m \in r.marks : m.mark # "Ok"
        /\ Charges(r.marks, r.slot, mid) /\ MovesOn(r.slot, mid)
        /\ SendShape(r.slot, mid, tick)
        /\ \A m \in r.marks : m.mark = "Failed" => OverdueOwn(mid.chain, tick) # {}
        /\ mid.chain = NoChain => r.slot = mid /\ r.marks = {}
    BY <1>2, SendReports, SendServes
  <1> HIDE DEF r
  <1>4. Tracks(all, r.slot, slot)
    <2>1. Tracks({} \cup r.marks, r.slot, slot)
      BY <1>1, <1>3, TracksTwice
    <2> QED BY <2>1 DEF Tracks
  <1>5. MovesOn(r.slot, slot) \/ Begun(r.slot, slot)
    <2>1. CASE MovesOn(mid, slot)
      BY <1>3, <2>1, MovesTwice, PlannedHasChain
    <2>2. CASE Replaced(mid, slot, tick) /\ Begun(mid, slot)
      <3>1. OverdueOwn(mid.chain, tick) = {} /\ Tag(mid) = "Starting"
        BY <2>2, ReplacedOnTime DEF Begun
      <3>2. SameChain(r.slot, mid)
        BY <1>3, <3>1 DEF SendShape
      <3> QED BY <2>2, <3>2 DEF Begun, SameChain, Tag
    <2> QED BY <1>1, <2>1, <2>2
  <1>6. Charges(all, r.slot, slot)
    <2>1. CASE reported # {}
      <3>1. r.slot = mid /\ r.marks = {}
        BY <1>3, <2>1 DEF Missed, LostChain
      <3>2. all = reported
        BY <3>1
      <3> QED BY <3>1, <3>2
    <2>2. CASE reported = {} /\ mid.chain.first = slot.chain.first
      <3>1. all = r.marks
        BY <2>2
      <3> QED BY <1>3, <2>2, <3>1 DEF Charges
    <2>3. CASE reported = {} /\ Replaced(mid, slot, tick)
      <3>1. OverdueOwn(mid.chain, tick) = {}
        BY <2>3, ReplacedOnTime
      <3> QED BY <1>3, <2>3, <3>1 DEF Charges
    <2>4. CASE reported = {} /\ Missed(mid, slot, tick)
      <3>1. r.marks = {}
        BY <1>3, <2>4 DEF Missed, LostChain
      <3> QED BY <2>4, <3>1 DEF Charges
    <2> QED BY <2>1, <2>2, <2>3, <2>4 DEF PlanShape, Extended, Extends, Closed, Latched
  <1>7. Reports(all, r.slot, slot) /\ \A m \in all : m.mark # "Ok"
    BY <1>3, <1>4, <1>5, <1>6 DEF Reports
  <1>8. /\ Reports(reported \cup r.marks, r.slot, slot)
        /\ \A m \in reported \cup r.marks : m.mark # "Ok"
    BY <1>7
  <1> QED BY <1>8 DEF r

-----------------------------------------------------------------------------
(* What a step of the engine reports *)

(* Everything a step reports but the failures of other streams.            *)
Reported(s) == {m \in marks' : m.mark = "Failed" => m.target % STREAM_COUNT = s}

StreamReports(s) ==
    /\ Reports(Reported(s), slots'[s], slots[s])
    /\ FailsOnce(Reported(s), slots'[s], slots[s], s)

(* Every acceptance that is reported is one of a running reveal.           *)
OksAreOwn ==
    \A m \in marks' : m.mark = "Ok" =>
        \E s \in Streams : \E d \in Calls(s) :
            d.inflight /\ d.kind = "RevealAndCommit" /\ d.target = m.target

StepReports == OksAreOwn /\ \A s \in Streams : StreamReports(s)

(* Reports made stream by stream are each of their own stream.             *)
LEMMA OwnReports ==
  ASSUME NEW g, marks' = UNION {g[s] : s \in Streams},
         \A s \in Streams : /\ Reports(g[s], slots'[s], slots[s])
                            /\ FailsOnce(g[s], slots'[s], slots[s], s)
  PROVE  \A s \in Streams : StreamReports(s)
  <1> SUFFICES ASSUME NEW s \in Streams PROVE StreamReports(s)
    OBVIOUS
  <1>1. g[s] \subseteq Reported(s)
    BY DEF FailsOnce, Reported
  <1>2. \A m \in Reported(s) : m.mark = "Failed" => m \in g[s]
    BY DEF FailsOnce, Reported
  <1>3. Tracks(Reported(s), slots'[s], slots[s])
    BY <1>1 DEF Reports, Tracks
  <1>4. Charges(Reported(s), slots'[s], slots[s])
    BY <1>2 DEF Reports, Charges
  <1>5. FailsOnce(Reported(s), slots'[s], slots[s], s)
    BY <1>2 DEF FailsOnce
  <1> QED BY <1>3, <1>4, <1>5 DEF StreamReports, Reports

(* Every harvest reports what it did to each stream.                       *)
LEMMA HarvestStepReports ==
  ASSUME DInv, Harvest
  PROVE  StepReports
  <1>1. /\ pc = "harvest"
        /\ \A s \in Streams : /\ SlotOK(slots[s], s, signed[s]) /\ s \in StreamIds
                              /\ DeliveryOK(slots[s], s)
    BY StreamsType DEF Harvest, HarvestQueryPending, HarvestQueryFailed, HarvestQueryOk,
                       DInv, IInv, SlotsOK, SlotsServe
  <1>2. PICK results \in [InFlight -> TaskResults] :
            \/ HarvestNoStatus(results)
            \/ query # NoQuery /\ \E seen \in StatusReports : HarvestStatus(results, seen)
    BY DEF Harvest, HarvestQueryPending, HarvestQueryFailed, HarvestQueryOk
  <1> DEFINE h(s) == HarvestBroadcasts(slots[s], results)
  <1>3. \A s \in Streams : Harvested(results)[s] = h(s)
    BY DEF Harvested
  <1>4. ASSUME NEW g, marks' = UNION {g[s] : s \in Streams},
               \A s \in Streams : /\ Reports(g[s], slots'[s], slots[s])
                                  /\ OksWereSent(g[s], slots[s])
                                  /\ FailsOnce(g[s], slots'[s], slots[s], s)
        PROVE  StepReports
    <2>1. \A s \in Streams : StreamReports(s)
      BY <1>4, OwnReports
    <2>2. OksAreOwn
      BY <1>4 DEF OksAreOwn, OksWereSent, Calls
    <2> QED BY <2>1, <2>2 DEF StepReports
  <1>5. CASE HarvestNoStatus(results)
    <2> DEFINE g == [s \in Streams |-> h(s).marks]
    <2>1. /\ \A s \in Streams : slots'[s] = h(s).slot /\ g[s] = h(s).marks
          /\ marks' = UNION {g[s] : s \in Streams}
      BY <1>3, <1>5 DEF HarvestNoStatus
    <2>2. \A s \in Streams : /\ Reports(h(s).marks, h(s).slot, slots[s])
                             /\ OksWereSent(h(s).marks, slots[s])
                             /\ FailsOnce(h(s).marks, h(s).slot, slots[s], s)
      BY <1>1, HarvestedReports, HarvestServes
    <2> HIDE DEF g, h
    <2> QED BY <1>4, <2>1, <2>2
  <1>6. CASE query # NoQuery /\ \E seen \in StatusReports : HarvestStatus(results, seen)
    <2>1. PICK seen \in StatusReports : HarvestStatus(results, seen)
      BY <1>6
    <2> DEFINE r(s) == ApplyStatus(h(s).slot, seen[s], query.requested)
               g == [s \in Streams |-> h(s).marks \cup r(s).marks]
    <2>2. /\ \A s \in Streams : slots'[s] = r(s).slot /\ g[s] = h(s).marks \cup r(s).marks
          /\ marks' = UNION {g[s] : s \in Streams}
      BY <1>3, <2>1 DEF HarvestStatus
    <2>3. /\ query.requested \in Ticks
          /\ \A s \in Streams : seen[s] \in OptTicks
      BY <1>6, StatusTicksAssumption DEF DInv, IInv, QueryOK, StatusReports, OptTicks
    <2>4. ASSUME NEW s \in Streams
          PROVE  /\ Reports(h(s).marks \cup r(s).marks, r(s).slot, slots[s])
                 /\ OksWereSent(h(s).marks \cup r(s).marks, slots[s])
                 /\ FailsOnce(h(s).marks \cup r(s).marks, r(s).slot, slots[s], s)
      <3>1. /\ Reports(h(s).marks \cup r(s).marks, r(s).slot, slots[s])
            /\ OksWereSent(h(s).marks \cup r(s).marks, slots[s])
        BY <1>1, <2>3, ResponseReports
      <3>2. /\ SlotOK(h(s).slot, s, signed[s]) /\ DeliveryOK(h(s).slot, s)
            /\ SameChain(h(s).slot, slots[s])
            /\ NoNewTask(h(s).slot, slots[s]) /\ KeepsQueue(h(s).slot, slots[s])
            /\ FailsOnce(h(s).marks, h(s).slot, slots[s], s)
            /\ Tag(slots[s]) = "Drained" => h(s).slot = slots[s]
        BY <1>1, HarvestedServes
      <3> HIDE DEF h
      <3>3. FailsOnce(h(s).marks \cup r(s).marks, r(s).slot, slots[s], s)
        BY <1>1, <2>3, <3>2, ResponseServes
      <3> QED BY <3>1, <3>3
    <2> HIDE DEF g, h, r
    <2> QED BY <1>4, <2>2, <2>4
  <1> QED BY <1>2, <1>5, <1>6

(* What the planning of a cycle charges.                                   *)
LEMMA PlannedCharges ==
  ASSUME DInv, pc = "plan", info.tick \in Ticks, NEW s \in Streams,
         NEW planned \in {DrainPlan, ActivePlan, HoldPlan}
  PROVE  /\ Charges(planned[s].marks, planned[s].slot, slots[s])
         /\ \A m \in planned[s].marks : m.mark = "Failed"
  <1>1. SlotOK(slots[s], s, signed[s]) /\ s \in StreamIds /\ DeliveryOK(slots[s], s)
    BY StreamsType DEF DInv, IInv, SlotsOK, SlotsServe
  <1>2. CASE planned = ActivePlan
    <2>1. planned[s] = PlanSlot(slots[s], s, info.tick)
      BY <1>2 DEF ActivePlan
    <2> QED BY <1>1, <2>1, PlanCharges
  <1>3. CASE planned = DrainPlan
    <2>1. planned[s] = EnterDrain(slots[s], s, DrainReason) /\ DrainReason \in DrainReasons
      BY <1>3 DEF DrainPlan, DrainReason, DrainReasons
    <2>2. planned[s].marks = {}
      BY <1>1, <2>1, EnterDrainOK
    <2> QED BY <2>2 DEF Charges
  <1>4. CASE planned = HoldPlan
    <2>1. planned[s].marks = {}
      BY <1>4 DEF HoldPlan, Result
    <2> QED BY <2>1 DEF Charges
  <1> QED BY <1>2, <1>3, <1>4

(* Every cycle reports what it did to each stream.                         *)
LEMMA CycleStepReports ==
  ASSUME DInv, PlanAndSend
  PROVE  StepReports
  <1>1. pc = "plan" /\ info.tick \in Ticks
    BY CyclePlans
  <1>2. PICK planned \in {DrainPlan, ActivePlan, HoldPlan} :
            /\ \A s \in Streams : PlansSlot(planned[s], s)
            /\ (\E due : PlanThenSend(planned, due)) \/ PlanFails(planned)
    BY CyclePlans
  <1>3. ASSUME NEW s \in Streams
        PROVE  /\ SlotOK(slots[s], s, signed[s]) /\ s \in StreamIds /\ DeliveryOK(slots[s], s)
               /\ PlanShape(planned[s].slot, slots[s], info.tick)
               /\ SlotOK(planned[s].slot, s, signed[s] \cup Targets(planned[s].slot.chain.calls))
               /\ planned[s].marks # {} => Missed(planned[s].slot, slots[s], info.tick)
               /\ OneTarget(planned[s].marks, s)
               /\ \A m \in planned[s].marks : m.mark = "Failed"
               /\ Charges(planned[s].marks, planned[s].slot, slots[s])
    <2>1. SlotOK(slots[s], s, signed[s]) /\ s \in StreamIds /\ DeliveryOK(slots[s], s)
      BY <1>1, StreamsType DEF DInv, IInv, SlotsOK, SlotsServe
    <2>2. PlansSlot(planned[s], s)
      BY <1>2
    <2>3. /\ Charges(planned[s].marks, planned[s].slot, slots[s])
          /\ \A m \in planned[s].marks : m.mark = "Failed"
      BY <1>1, PlannedCharges
    <2> QED BY <2>1, <2>2, <2>3 DEF PlansSlot, PlanOK
  <1>4. ASSUME NEW g, marks' = UNION {g[s] : s \in Streams},
               \A s \in Streams : /\ Reports(g[s], slots'[s], slots[s])
                                  /\ FailsOnce(g[s], slots'[s], slots[s], s)
                                  /\ \A m \in g[s] : m.mark # "Ok"
        PROVE  StepReports
    <2>1. \A s \in Streams : StreamReports(s)
      BY <1>4, OwnReports
    <2>2. OksAreOwn
      BY <1>4 DEF OksAreOwn
    <2> QED BY <2>1, <2>2 DEF StepReports
  <1>5. CASE \E due : PlanThenSend(planned, due)
    <2> DEFINE sent(s) == SendSlot(planned[s].slot, info.tick)
               g == [s \in Streams |-> planned[s].marks \cup sent(s).marks]
    <2>1. \A s \in Streams : slots'[s] = sent(s).slot /\ g[s] = planned[s].marks \cup sent(s).marks
      BY <1>5 DEF PlanThenSend
    <2>2. marks' = UNION {g[s] : s \in Streams}
      BY <1>5 DEF PlanThenSend
    <2>3. ASSUME NEW s \in Streams
          PROVE  /\ Reports(planned[s].marks \cup sent(s).marks, sent(s).slot, slots[s])
                 /\ FailsOnce(planned[s].marks \cup sent(s).marks, sent(s).slot, slots[s], s)
                 /\ \A m \in planned[s].marks \cup sent(s).marks : m.mark # "Ok"
      <3> DEFINE slot == slots[s]
                 mid == planned[s].slot
                 reported == planned[s].marks
                 H == signed[s] \cup Targets(planned[s].slot.chain.calls)
      <3>1. /\ SlotOK(slot, s, signed[s]) /\ s \in StreamIds /\ DeliveryOK(slot, s)
            /\ PlanShape(mid, slot, info.tick) /\ SlotOK(mid, s, H)
            /\ reported # {} => Missed(mid, slot, info.tick)
            /\ OneTarget(reported, s)
            /\ \A m \in reported : m.mark = "Failed"
            /\ Charges(reported, mid, slot)
        BY <1>3
      <3> HIDE DEF slot, mid, reported, H
      <3>2. /\ Reports(reported \cup SendSlot(mid, info.tick).marks, SendSlot(mid, info.tick).slot, slot)
            /\ \A m \in reported \cup SendSlot(mid, info.tick).marks : m.mark # "Ok"
        BY <1>1, <3>1, CycleReports
      <3>3. FailsOnce(reported \cup SendSlot(mid, info.tick).marks,
                      SendSlot(mid, info.tick).slot, slot, s)
        BY <1>1, <3>1, CycleServes
      <3> QED BY <3>2, <3>3 DEF slot, mid, reported
    <2>4. \A s \in Streams : /\ Reports(g[s], slots'[s], slots[s])
                             /\ FailsOnce(g[s], slots'[s], slots[s], s)
                             /\ \A m \in g[s] : m.mark # "Ok"
      <3> HIDE DEF g, sent
      <3> QED BY <2>1, <2>3
    <2> HIDE DEF g, sent
    <2> QED BY <1>4, <2>2, <2>4
  <1>6. CASE PlanFails(planned)
    <2> DEFINE g == [s \in Streams |-> IF Reached(planned, s) THEN planned[s].marks ELSE {}]
    <2>1. /\ marks' = UNION {g[s] : s \in Streams}
          /\ \A s \in Streams : g[s] = IF Reached(planned, s) THEN planned[s].marks ELSE {}
      BY <1>6 DEF PlanFails, PlannedMarks
    <2> HIDE DEF g
    <2>2. \A s \in Streams : slots'[s] = IF Reached(planned, s) THEN planned[s].slot ELSE slots[s]
      BY <1>6 DEF PlanFails, PlannedSlots
    <2>3. ASSUME NEW s \in Streams
          PROVE  /\ Reports(g[s], slots'[s], slots[s])
                 /\ FailsOnce(g[s], slots'[s], slots[s], s)
                 /\ \A m \in g[s] : m.mark # "Ok"
      <3>1. CASE slots'[s] = planned[s].slot /\ g[s] = planned[s].marks
        <4>1. Tracks({}, slots'[s], slots[s]) /\ (MovesOn(slots'[s], slots[s]) \/ Begun(slots'[s], slots[s]))
          BY <1>3, <3>1, PlanReports
        <4>2. Reports(g[s], slots'[s], slots[s])
          BY <1>3, <3>1, <4>1 DEF Reports, Tracks
        <4>3. FailsOnce(g[s], slots'[s], slots[s], s)
          BY <1>1, <1>3, <3>1, PlannedServes DEF CycleEffect
        <4> QED BY <1>3, <3>1, <4>2, <4>3
      <3>2. CASE slots'[s] = slots[s] /\ g[s] = {}
        <4>1. Tracks({}, slots[s], slots[s]) /\ MovesOn(slots[s], slots[s])
          BY FewerCallsTracked DEF MovesOn
        <4> QED BY <3>2, <4>1 DEF Reports, Charges, FailsOnce
      <3> QED BY <2>1, <2>2, <3>1, <3>2
    <2> QED BY <1>4, <2>1, <2>3
  <1> QED BY <1>2, <1>5, <1>6

(* Steps that report nothing, of slots that planning may have touched.     *)
LEMMA SilentReports ==
  ASSUME marks' = {},
         \A s \in Streams : \E G, tick : /\ SlotOK(slots[s], s, G)
                                         /\ PlanShape(slots'[s], slots[s], tick)
  PROVE  StepReports
  <1>1. OksAreOwn
    BY DEF OksAreOwn
  <1>2. ASSUME NEW s \in Streams PROVE StreamReports(s)
    <2>1. Reported(s) = {}
      BY DEF Reported
    <2>2. PICK G, tick : SlotOK(slots[s], s, G) /\ PlanShape(slots'[s], slots[s], tick)
      OBVIOUS
    <2>3. /\ Tracks({}, slots'[s], slots[s])
          /\ MovesOn(slots'[s], slots[s]) \/ Begun(slots'[s], slots[s])
      BY <2>2, PlanReports
    <2> QED BY <2>1, <2>3 DEF StreamReports, Reports, Charges, FailsOnce
  <1> QED BY <1>1, <1>2 DEF StepReports

(* Entering the shutdown drain reports nothing and begins no chain.        *)
LEMMA RequestReports ==
  ASSUME DInv, ObserveRequest
  PROVE  /\ StepReports
         /\ \A s \in Streams : slots'[s].chain.first = slots[s].chain.first
  <1>1. /\ pc = "observe" /\ marks' = {}
        /\ \A s \in Streams : ShutdownPlan[s].ok /\ slots'[s] = ShutdownPlan[s].slot
    BY DEF ObserveRequest, AllOk, PlannedSlots, Reached
  <1>2. ASSUME NEW s \in Streams
        PROVE  /\ SlotOK(slots[s], s, signed[s]) /\ PlanShape(slots'[s], slots[s], 0)
               /\ slots'[s].chain.first = slots[s].chain.first
    <2>1. SlotOK(slots[s], s, signed[s]) /\ s \in StreamIds
      BY <1>1, StreamsType DEF DInv, IInv, SlotsOK
    <2> DEFINE r == EnterDrain(slots[s], s, "Shutdown")
    <2>2. ShutdownPlan[s] = r
      BY DEF ShutdownPlan
    <2>3. r.slot = slots[s] \/ Latched(r.slot, slots[s]) \/ Closed(r.slot, slots[s])
      <3>1. "Shutdown" \in DrainReasons
        BY DEF DrainReasons
      <3> QED BY <2>1, <3>1, EnterDrainShape
    <2> HIDE DEF r
    <2> QED BY <1>1, <2>1, <2>2, <2>3 DEF PlanShape, Latched, Closed
  <1> QED BY <1>1, <1>2, SilentReports

(* Steps that leave the slots alone report nothing.                        *)
LEMMA QuietReports ==
  ASSUME DInv, pc # "exited", slots' = slots, marks' = {}
  PROVE  StepReports
  <1>1. \A s \in Streams : SlotOK(slots[s], s, signed[s]) /\ PlanShape(slots'[s], slots[s], 0)
    BY DEF DInv, IInv, SlotsOK, PlanShape
  <1> QED BY <1>1, SilentReports

-----------------------------------------------------------------------------
(* What a stream is charged *)

(* The targets that the counters hold against the chain starting at f.     *)
InSpan(S, f, t) == t > f /\ \A later \in S : later > f => t <= later

(* Of the failed targets F, every start in S is charged with one at most.  *)
OneCharge(S, F) ==
    \A f \in S : \A t, u \in F : InSpan(S, f, t) /\ InSpan(S, f, u) => t = u

(* The served chain started last, what was not charged to it stands no     *)
(* later than its first target, and a slot that waits for the next chain   *)
(* waits past every start and every failure.                               *)
Bounded(S, F, slot) ==
    /\ HasChain(slot) => slot.chain.first \in S /\ \A f \in S : f <= slot.chain.first
    /\ Tag(slot) \in {"Waiting", "Restarting"} => \A t \in S \cup F : t <= slot.restartAt
    /\ Fresh(slot) => \A t \in F : t <= slot.chain.first

(* The numbers of a slot, and that a chain that serves exists.             *)
LEMMA SlotNumbers ==
  ASSUME NEW slot, NEW s, NEW G, SlotOK(slot, s, G)
  PROVE  /\ slot.restartAt \in Nat
         /\ HasChain(slot) => slot.chain.first \in Ticks /\ slot.chain.first \in Nat
         /\ Fresh(slot) => HasChain(slot)
  <1>1. slot \in ManagedSlot /\ (HasChain(slot) <=> Tag(slot) \notin {"Waiting", "Drained"})
    BY HasChainTag DEF SlotOK
  <1>2. slot.restartAt \in Nat /\ slot.chain.first \in Ticks \cup {NoTick}
    BY <1>1, TicksType DEF ManagedSlot, Chain, OptTicks
  <1>3. HasChain(slot) => slot.chain.first \in Ticks /\ slot.chain.first \in Nat
    BY <1>2, TicksType DEF HasChain
  <1>4. Fresh(slot) => HasChain(slot)
    BY <1>1 DEF Fresh, IsPlanned
  <1> QED BY <1>2, <1>3, <1>4

(* A chain that begins starts past all charges of its stream.              *)
LEMMA BegunCharges ==
  ASSUME NEW S \in SUBSET Ticks, NEW F \in SUBSET Ticks, NEW F2 \in SUBSET F,
         NEW slot, NEW new, NEW s, NEW G, NEW H, SlotOK(slot, s, G), SlotOK(new, s, H),
         Bounded(S, F, slot), OneCharge(S, F), Begun(new, slot)
  PROVE  LET S2 == S \cup ({new.chain.first} \ {NoTick})
         IN  Bounded(S2, F2, new) /\ OneCharge(S2, F2)
  <1> DEFINE first == new.chain.first
             S2 == S \cup {first}
  <1>1. /\ first \in Ticks /\ first \in Nat /\ slot.restartAt \in Nat /\ first >= slot.restartAt
        /\ S \subseteq Nat /\ F \subseteq Nat
    BY SlotNumbers, TicksType DEF Begun
  <1>2. \A t \in S \cup F : t <= first /\ t \in Nat
    <2>1. \A t \in S \cup F : t <= slot.restartAt /\ t \in Nat
      BY <1>1 DEF Begun, Bounded
    <2> QED BY <1>1, <2>1
  <1>3. Tag(new) = "Starting"
    BY DEF Begun
  <1> HIDE DEF first
  <1>4. Bounded(S2, F2, new)
    BY <1>1, <1>2, <1>3 DEF Bounded, first
  <1>5. OneCharge(S2, F2)
    <2> SUFFICES ASSUME NEW f \in S2, NEW t \in F2, NEW u \in F2,
                        InSpan(S2, f, t), InSpan(S2, f, u)
                 PROVE  t = u
      BY DEF OneCharge
    <2>1. f \in S
      BY <1>1, <1>2 DEF InSpan
    <2>2. InSpan(S, f, t) /\ InSpan(S, f, u)
      BY DEF InSpan
    <2> QED BY <2>1, <2>2 DEF OneCharge
  <1>6. S \cup ({first} \ {NoTick}) = S2
    BY <1>1, TicksType
  <1> QED BY <1>4, <1>5, <1>6 DEF first

(* A chain that goes on is charged at most once.                           *)
LEMMA MovesOnCharges ==
  ASSUME NEW S \in SUBSET Ticks, NEW F \in SUBSET Ticks, NEW F2 \in SUBSET Ticks,
         NEW slot, NEW new, NEW s, NEW G, NEW H, SlotOK(slot, s, G), SlotOK(new, s, H),
         Bounded(S, F, slot), OneCharge(S, F), MovesOn(new, slot),
         NEW reported, Charges(reported, new, slot), FailsOnce(reported, new, slot, s),
         \A t \in F2 : t \in F \/ Mark(t, "Failed") \in reported
  PROVE  LET S2 == S \cup ({new.chain.first} \ {NoTick})
         IN  Bounded(S2, F2, new) /\ OneCharge(S2, F2)
  <1> DEFINE first == slot.chain.first
             S2 == S \cup ({new.chain.first} \ {NoTick})
  <1>1. /\ S \subseteq Nat /\ F \subseteq Nat /\ F2 \subseteq Nat
        /\ slot.restartAt \in Nat /\ new.restartAt \in Nat
        /\ HasChain(slot) => first \in Nat
        /\ Fresh(slot) => HasChain(slot)
        /\ Fresh(new) => HasChain(new)
    BY SlotNumbers, TicksType
  <1>2. HasChain(new) => new.chain.first = first /\ HasChain(slot)
    BY DEF MovesOn, HasChain
  <1>3. S2 = S
    BY <1>2 DEF Bounded, HasChain
  <1>4. HasChain(new) => new.chain.first \in S /\ \A f \in S : f <= new.chain.first
    BY <1>2 DEF Bounded
  <1>5. CASE \E m \in reported : m.mark = "Failed"
    <2>1. PICK m \in reported : m.mark = "Failed"
      BY <1>5
    <2>2. /\ Fresh(slot) /\ ~Fresh(new)
      BY <2>1 DEF FailsOnce, Fresh, IsPlanned
    <2>3. /\ m.target > first
          /\ Tag(new) \in {"Waiting", "Restarting"} => m.target <= new.restartAt
          /\ \A k \in reported : k.mark = "Failed" => k.target = m.target
      BY <2>1 DEF Charges
    <2>4. /\ first \in Nat /\ first \in S /\ \A t \in S \cup F : t <= first /\ t \in Nat
      BY <1>1, <2>2 DEF Bounded
    <2>5. \A t \in F2 : t \in F \/ t = m.target
      BY <2>3 DEF Mark
    <2>6. Tag(new) \in {"Waiting", "Restarting"} => \A t \in S \cup F2 : t <= new.restartAt
      <3>1. Tag(new) \in {"Waiting", "Restarting"} => new.restartAt >= first
        BY <2>2 DEF MovesOn, Fresh, IsPlanned
      <3> QED BY <1>1, <2>3, <2>4, <2>5, <3>1
    <2>7. OneCharge(S, F2)
      <3> SUFFICES ASSUME NEW f \in S, NEW t \in F2, NEW u \in F2,
                          InSpan(S, f, t), InSpan(S, f, u)
                   PROVE  t = u
        BY DEF OneCharge
      <3>1. CASE t \in F /\ u \in F
        BY <3>1 DEF OneCharge
      <3>2. CASE t = m.target /\ u = m.target
        BY <3>2
      <3>3. CASE m.target \in {t, u} /\ (t \in F \/ u \in F)
        <4>1. m.target \in Nat /\ InSpan(S, f, m.target) /\ f \in Nat /\ f <= first
          BY <1>1, <2>4, <3>3
        <4>2. f = first
          BY <2>3, <2>4, <4>1 DEF InSpan
        <4> QED BY <1>1, <2>4, <3>3, <4>1, <4>2 DEF InSpan
      <3> QED BY <2>5, <3>1, <3>2, <3>3
    <2>8. Bounded(S, F2, new)
      BY <1>4, <2>2, <2>6 DEF Bounded
    <2> QED BY <1>3, <2>7, <2>8
  <1>6. CASE ~\E m \in reported : m.mark = "Failed"
    <2>1. F2 \subseteq F
      BY <1>6 DEF Mark
    <2>2. OneCharge(S, F2)
      BY <2>1 DEF OneCharge
    <2>3. ASSUME Tag(new) \in {"Waiting", "Restarting"}, NEW t \in S \cup F2
          PROVE  t <= new.restartAt
      <3>1. CASE Tag(slot) \in {"Waiting", "Restarting"} /\ new.restartAt = slot.restartAt
        BY <2>1, <2>3, <3>1 DEF Bounded
      <3>2. CASE IsPlanned(slot) /\ new.restartAt >= first
        <4>1. Fresh(slot) /\ first \in Nat /\ t <= first /\ t \in Nat
          BY <1>1, <2>1, <2>3, <3>2 DEF Bounded, Fresh
        <4> QED BY <1>1, <3>2, <4>1
      <3> QED BY <2>3, <3>1, <3>2 DEF MovesOn
    <2>4. Fresh(new) => \A t \in F2 : t <= new.chain.first
      BY <1>1, <1>2, <2>1 DEF MovesOn, Bounded
    <2>5. Bounded(S, F2, new)
      BY <1>4, <2>3, <2>4 DEF Bounded
    <2> QED BY <1>3, <2>2, <2>5
  <1> QED BY <1>5, <1>6

-----------------------------------------------------------------------------
(* The invariant *)

FailedTicks(m, s) == {t \in Ticks : t % STREAM_COUNT = s /\ m.outcomes[t] = "Failed"}

(* An accepted reveal is counted, a running one is remembered.             *)
RevealsKept(m, slot) ==
    \A c \in slot.chain.calls : c.kind = "RevealAndCommit" =>
        /\ c.state = "Accepted" => m.outcomes[c.target] # "None"
        /\ c.inflight => Remembers(m, c.target)

MonitorOK(m) == (\E V : InOrder(m, V)) /\ DigestsKept(m)

StreamOK(m, S, slot, s) == RevealsKept(m, slot) /\ Bounded(S, FailedTicks(m, s), slot)

MInv ==
    /\ DInv /\ MonitorOK(mon)
    /\ starts \in [Streams -> SUBSET Ticks]
    /\ pc # "exited" => \A s \in Streams : StreamOK(mon, starts[s], slots[s], s)
    /\ \A s \in Streams : OneCharge(starts[s], FailedTicks(mon, s))

(* The monitor after the marks of a step.                                  *)
LEMMA MarkedOK ==
  ASSUME MInv, pc # "exited", StepReports, marks' \subseteq Marks
  PROVE  LET n == ApplyMarks(mon, marks')
         IN  /\ MonitorOK(n)
             /\ \A t \in Ticks : /\ Remembers(mon, t) \/ Mark(t, "Digest") \in marks' =>
                                        Remembers(n, t)
                                 /\ mon.outcomes[t] # "None" \/ Mark(t, "Ok") \in marks' =>
                                        n.outcomes[t] # "None"
                                 /\ n.outcomes[t] = "Failed" =>
                                        mon.outcomes[t] = "Failed" \/ Mark(t, "Failed") \in marks'
  <1> DEFINE n == ApplyMarks(mon, marks')
  <1>1. PICK V : InOrder(mon, V)
    BY DEF MInv, MonitorOK
  <1>2. DigestsKept(mon) /\ marks' \in SUBSET MonitorMarks
    BY DEF MInv, MonitorOK, Marks, MonitorMarks
  <1>3. ASSUME NEW k \in marks', k.mark = "Ok" PROVE Remembers(mon, k.target)
    <2>1. PICK s \in Streams : \E d \in slots[s].chain.calls :
              d.inflight /\ d.kind = "RevealAndCommit" /\ d.target = k.target
      BY <1>3 DEF StepReports, OksAreOwn, Calls
    <2>2. RevealsKept(mon, slots[s])
      BY DEF MInv, StreamOK
    <2> QED BY <2>1, <2>2 DEF RevealsKept
  <1>4. InOrder(n, V)
    BY <1>1, <1>2, ApplyMarksOK
  <1>5. /\ DigestsKept(n)
        /\ \A t \in Ticks : \/ Remembers(mon, t)
                            \/ [target |-> t, mark |-> "Digest"] \in marks'
                            => Remembers(n, t)
        /\ \A t \in Ticks : \/ mon.outcomes[t] # "None"
                            \/ [target |-> t, mark |-> "Ok"] \in marks'
                            => n.outcomes[t] # "None"
        /\ \A t \in Ticks : n.outcomes[t] = "Failed" =>
               mon.outcomes[t] = "Failed" \/ [target |-> t, mark |-> "Failed"] \in marks'
    BY <1>1, <1>2, <1>3, MarksRemembered
  <1> HIDE DEF n
  <1>6. MonitorOK(n)
    BY <1>4, <1>5 DEF MonitorOK
  <1>7. ASSUME NEW t \in Ticks
        PROVE  /\ Remembers(mon, t) \/ Mark(t, "Digest") \in marks' => Remembers(n, t)
               /\ mon.outcomes[t] # "None" \/ Mark(t, "Ok") \in marks' => n.outcomes[t] # "None"
               /\ n.outcomes[t] = "Failed" =>
                      mon.outcomes[t] = "Failed" \/ Mark(t, "Failed") \in marks'
    BY <1>5 DEF Mark
  <1> QED BY <1>6, <1>7 DEF n

(* A step that counts its marks, checks, and records the starts keeps the  *)
(* invariant of every stream.                                              *)
LEMMA StepCounts ==
  ASSUME MInv, pc # "exited", DInv', pc' # "exited", StepReports, RecordStarts(starts),
         MonitorOK(mon'), Checks(mon', ApplyMarks(mon, marks'))
  PROVE  MInv'
  <1> DEFINE n == ApplyMarks(mon, marks')
             F(s) == FailedTicks(mon, s)
             F2(s) == FailedTicks(mon', s)
  <1>1. marks' \subseteq Marks
    BY DEF DInv, IInv, TypeOK
  <1>2. \A t \in Ticks : /\ Remembers(mon, t) \/ Mark(t, "Digest") \in marks' =>
                                Remembers(n, t)
                         /\ mon.outcomes[t] # "None" \/ Mark(t, "Ok") \in marks' =>
                                n.outcomes[t] # "None"
                         /\ n.outcomes[t] = "Failed" =>
                                mon.outcomes[t] = "Failed" \/ Mark(t, "Failed") \in marks'
    BY <1>1, MarkedOK
  <1>3. \A t \in Ticks : /\ Remembers(n, t) => Remembers(mon', t)
                         /\ mon'.outcomes[t] \in {n.outcomes[t], "Empty"}
    BY DEF Checks
  <1> HIDE DEF n
  <1>4. \A t \in Ticks : /\ Remembers(mon, t) \/ Mark(t, "Digest") \in marks' =>
                                Remembers(mon', t)
                         /\ mon.outcomes[t] # "None" \/ Mark(t, "Ok") \in marks' =>
                                mon'.outcomes[t] # "None"
                         /\ mon'.outcomes[t] = "Failed" =>
                                mon.outcomes[t] = "Failed" \/ Mark(t, "Failed") \in marks'
    BY <1>2, <1>3
  <1>5. ASSUME NEW s \in Streams
        PROVE  /\ SlotOK(slots[s], s, signed[s]) /\ SlotOK(slots'[s], s, signed'[s])
               /\ s \in StreamIds
               /\ Reports(Reported(s), slots'[s], slots[s])
               /\ FailsOnce(Reported(s), slots'[s], slots[s], s)
               /\ Bounded(starts[s], F(s), slots[s]) /\ OneCharge(starts[s], F(s))
               /\ RevealsKept(mon, slots[s])
               /\ starts[s] \in SUBSET Ticks
               /\ starts'[s] = starts[s] \cup ({slots'[s].chain.first} \ {NoTick})
    <2>1. SlotOK(slots[s], s, signed[s]) /\ SlotOK(slots'[s], s, signed'[s]) /\ s \in StreamIds
      BY StreamsType DEF MInv, DInv, IInv, SlotsOK
    <2>2. Reports(Reported(s), slots'[s], slots[s]) /\ FailsOnce(Reported(s), slots'[s], slots[s], s)
      BY DEF StepReports, StreamReports
    <2> QED BY <2>1, <2>2 DEF MInv, StreamOK, RecordStarts
  <1>6. ASSUME NEW s \in Streams PROVE RevealsKept(mon', slots'[s])
    <2> SUFFICES ASSUME NEW c \in slots'[s].chain.calls, c.kind = "RevealAndCommit"
                 PROVE  /\ c.state = "Accepted" => mon'.outcomes[c.target] # "None"
                        /\ c.inflight => Remembers(mon', c.target)
      BY DEF RevealsKept
    <2>1. c.target \in Ticks
      BY <1>5 DEF SlotOK, ManagedSlot, Chain, PlannedCall
    <2>2. Tracks(Reported(s), slots'[s], slots[s])
      BY <1>5 DEF Reports
    <2>3. \A d \in slots[s].chain.calls : SameBytes(c, d) =>
              /\ d.state = "Accepted" => mon.outcomes[c.target] # "None"
              /\ d.inflight => Remembers(mon, c.target)
      BY <1>5 DEF RevealsKept, SameBytes
    <2>4. Reported(s) \subseteq marks'
      BY DEF Reported
    <2>5. ASSUME c.state = "Accepted" PROVE mon'.outcomes[c.target] # "None"
      <3>1. mon.outcomes[c.target] # "None" \/ Mark(c.target, "Ok") \in marks'
        BY <2>2, <2>3, <2>4, <2>5 DEF Tracks
      <3> QED BY <1>4, <2>1, <3>1
    <2>6. ASSUME c.inflight PROVE Remembers(mon', c.target)
      <3>1. Remembers(mon, c.target) \/ Mark(c.target, "Digest") \in marks'
        BY <2>2, <2>3, <2>4, <2>6 DEF Tracks
      <3> QED BY <1>4, <2>1, <3>1
    <2> QED BY <2>5, <2>6
  <1>7. ASSUME NEW s \in Streams, NEW t \in F2(s)
        PROVE  t \in F(s) \/ Mark(t, "Failed") \in Reported(s)
    <2>1. t \in Ticks /\ t % STREAM_COUNT = s /\ mon'.outcomes[t] = "Failed"
      BY <1>7 DEF FailedTicks
    <2>2. mon.outcomes[t] = "Failed" \/ Mark(t, "Failed") \in marks'
      BY <1>4, <2>1
    <2> QED BY <2>1, <2>2 DEF FailedTicks, Reported, Mark
  <1>8. ASSUME NEW s \in Streams
        PROVE  Bounded(starts'[s], F2(s), slots'[s]) /\ OneCharge(starts'[s], F2(s))
    <2>1. F(s) \in SUBSET Ticks /\ F2(s) \in SUBSET Ticks
      BY DEF FailedTicks
    <2>2. \A t \in F2(s) : t \in F(s) \/ Mark(t, "Failed") \in Reported(s)
      BY <1>7
    <2> HIDE DEF F, F2
    <2>3. CASE MovesOn(slots'[s], slots[s])
      <3>1. LET S2 == starts[s] \cup ({slots'[s].chain.first} \ {NoTick})
            IN  Bounded(S2, F2(s), slots'[s]) /\ OneCharge(S2, F2(s))
        BY <1>5, <2>1, <2>2, <2>3, MovesOnCharges DEF Reports
      <3> QED BY <1>5, <3>1
    <2>4. CASE Begun(slots'[s], slots[s])
      <3>1. F2(s) \in SUBSET F(s)
        <4>1. \A t \in Ticks : Mark(t, "Failed") \notin Reported(s)
          BY <1>5, <2>4 DEF Begun, FailsOnce, IsPlanned, Mark
        <4> QED BY <2>1, <2>2, <4>1
      <3>2. LET S2 == starts[s] \cup ({slots'[s].chain.first} \ {NoTick})
            IN  Bounded(S2, F2(s), slots'[s]) /\ OneCharge(S2, F2(s))
        BY <1>5, <2>1, <2>4, <3>1, BegunCharges
      <3> QED BY <1>5, <3>2
    <2> QED BY <1>5, <2>3, <2>4 DEF Reports
  <1>9. starts' \in [Streams -> SUBSET Ticks]
    <2>1. \A s \in Streams : slots'[s].chain.first \in Ticks \cup {NoTick}
      BY <1>5 DEF SlotOK, ManagedSlot, Chain, OptTicks
    <2> QED BY <1>5, <2>1 DEF RecordStarts
  <1> QED BY <1>6, <1>8, <1>9 DEF MInv, StreamOK

(* Looking at nothing is checking.                                         *)
LEMMA ChecksNothing ==
  ASSUME NEW m \in Monitor
  PROVE  Checks(m, m)
  BY NumberFields DEF Checks

(* Without marks there is nothing to count.                                *)
LEMMA NothingMarked ==
  ASSUME NEW m \in Monitor
  PROVE  Checks(m, ApplyMarks(m, {}))
  <1> DEFINE n == ApplyMarks(m, {})
  <1>1. m.outcomes \in [Ticks -> Outcomes \cup {"None"}]
    BY DEF Monitor
  <1>2. n.outcomes = m.outcomes
    <2>1. n.outcomes = [t \in Ticks |-> MarkedOutcome(m.outcomes[t], {}, t)]
      BY ApplyOutcomes
    <2> QED BY <1>1, <2>1 DEF MarkedOutcome
  <1>3. /\ n.oldest = m.oldest /\ n.checked = m.checked
        /\ n.digests = m.digests /\ n.queued = m.queued
    BY DEF ApplyMarks, WithOutcomes, Monitor
  <1>4. Checks(m, m)
    BY ChecksNothing
  <1> HIDE DEF n
  <1>5. Checks(m, n)
    BY <1>2, <1>3, <1>4 DEF Checks, Remembers
  <1> QED BY <1>5 DEF n

(* A monitor in order is a monitor.                                        *)
LEMMA MonitorType == ASSUME NEW m, MonitorOK(m) PROVE m \in Monitor
  BY DEF MonitorOK, InOrder

(* A step that leaves the monitor alone and begins no chain.               *)
LEMMA QuietCounts ==
  ASSUME MInv, pc # "exited", DInv', pc' # "exited", StepReports, marks' = {},
         UNCHANGED <<mon, starts>>,
         \A s \in Streams : slots'[s].chain.first = slots[s].chain.first
  PROVE  MInv'
  <1>1. RecordStarts(starts)
    <2>1. \A s \in Streams : starts[s] \cup ({slots[s].chain.first} \ {NoTick}) = starts[s]
      BY DEF MInv, StreamOK, Bounded, HasChain
    <2>2. starts = [s \in Streams |-> starts[s]]
      BY DEF MInv
    <2> QED BY <2>1, <2>2 DEF RecordStarts
  <1>2. MonitorOK(mon') /\ Checks(mon', ApplyMarks(mon, marks'))
    <2>1. MonitorOK(mon) /\ mon \in Monitor
      BY MonitorType DEF MInv
    <2> QED BY <2>1, NothingMarked
  <1> QED BY <1>1, <1>2, StepCounts

(* The engine drops its slots with the run.                                *)
LEMMA LeaveCounts ==
  ASSUME MInv, DInv', pc' = "exited", UNCHANGED <<mon, starts>>
  PROVE  MInv'
  BY DEF MInv

(* A reset forgets chains and failures alike.                              *)
LEMMA ResetCounts ==
  ASSUME MInv, DInv', slots' = [s \in Streams |-> InitSlot],
         mon' = ResetMonitor(mon), starts' = [s \in Streams |-> {}]
  PROVE  MInv'
  <1>1. InOrder(mon', {})
    BY MonitorType, ResetOK DEF MInv
  <1>2. mon'.queued = {} /\ \A t \in Ticks : mon'.outcomes[t] = "None"
    BY DEF ResetMonitor, InitMonitor
  <1>3. MonitorOK(mon')
    BY <1>1, <1>2 DEF MonitorOK, DigestsKept
  <1>4. \A s \in Streams : FailedTicks(mon', s) = {} /\ starts'[s] = {}
    BY <1>2 DEF FailedTicks
  <1>5. ~HasChain(InitSlot) /\ ~Fresh(InitSlot) /\ InitSlot.chain.calls = {}
    BY DEF InitSlot, HasChain, NoChain, Fresh, IsPlanned, Tag, Waiting
  <1>6. \A s \in Streams : StreamOK(mon', starts'[s], slots'[s], s)
    BY <1>4, <1>5 DEF StreamOK, RevealsKept, Bounded
  <1>7. \A s \in Streams : OneCharge(starts'[s], FailedTicks(mon', s))
    BY <1>4 DEF OneCharge
  <1> QED BY <1>3, <1>6, <1>7 DEF MInv

(* Tick metadata.                                                          *)
LEMMA FetchCounts ==
  ASSUME MInv, DInv', MonitoredFetch
  PROVE  MInv'
  <1>1. pc = "head" /\ marks' = {} /\ pc' \in {"harvest", "observe"}
    BY DEF MonitoredFetch, Fetch, TickOk, TickFails
  <1>2. CASE WasReset
    <2>1. slots' = [s \in Streams |-> InitSlot]
      <3>1. PICK i \in TickInfos, w \in StopWindows : TickOk(i, w)
        BY <1>2 DEF MonitoredFetch, Fetch, TickFails, WasReset
      <3>2. phase'.epoch = i.epoch
        BY <3>1, UpdateEpochPhaseOK DEF TickOk, MInv, DInv
      <3> QED BY <1>2, <3>1, <3>2 DEF TickOk, WasReset
    <2> QED BY <1>2, <2>1, ResetCounts DEF MonitoredFetch
  <1>3. CASE ~WasReset
    <2>1. slots' = slots
      <3>1. CASE TickFails
        BY <3>1 DEF TickFails
      <3>2. ASSUME NEW i \in TickInfos, NEW w \in StopWindows, TickOk(i, w)
            PROVE  slots' = slots
        <4>1. phase'.epoch = i.epoch
          BY <3>2, UpdateEpochPhaseOK DEF TickOk, MInv, DInv
        <4> QED BY <1>3, <3>2, <4>1 DEF TickOk, WasReset
      <3> QED BY <3>1, <3>2 DEF MonitoredFetch, Fetch
    <2>2. StepReports
      BY <1>1, <2>1, QuietReports DEF MInv
    <2> QED BY <1>1, <1>3, <2>1, <2>2, QuietCounts DEF MonitoredFetch
  <1> QED BY <1>2, <1>3

(* Harvested outcomes are counted.                                         *)
LEMMA HarvestCounts ==
  ASSUME MInv, DInv', MonitoredHarvest
  PROVE  MInv'
  <1>1. pc = "harvest" /\ pc' = "plan" /\ Harvest
    BY DEF MonitoredHarvest, Harvest, HarvestQueryPending, HarvestQueryFailed, HarvestQueryOk
  <1>2. StepReports /\ marks' \subseteq Marks
    BY <1>1, HarvestStepReports DEF MInv, DInv, IInv, TypeOK
  <1>3. MonitorOK(mon') /\ mon' = ApplyMarks(mon, marks')
    BY <1>1, <1>2, MarkedOK DEF MonitoredHarvest
  <1>4. Checks(mon', ApplyMarks(mon, marks'))
    BY <1>3, MonitorType, ChecksNothing
  <1> QED BY <1>1, <1>2, <1>3, <1>4, StepCounts DEF MonitoredHarvest

(* Lost calls and chains are counted, and the monitor does its part.       *)
LEMMA CycleCounts ==
  ASSUME MInv, DInv', MonitoredPlanAndSend
  PROVE  MInv'
  <1> DEFINE marked == ApplyMarks(mon, marks')
  <1>1. pc = "plan" /\ pc' = "observe" /\ PlanAndSend /\ RecordStarts(starts)
    BY DEF MonitoredPlanAndSend, PlanAndSend, CycleDrain, CycleActive, CycleHold
  <1>2. StepReports /\ marks' \subseteq Marks /\ info.tick \in Ticks
    BY <1>1, CycleStepReports, CyclePlans DEF MInv, DInv, IInv, TypeOK
  <1>3. MonitorOK(marked)
    BY <1>1, <1>2, MarkedOK
  <1>4. \/ mon' = marked
        \/ \E result \in CheckResults, spaced \in BOOLEAN :
               mon' = MonitorTail(marked, info.tick, result, spaced, ~token /\ ~EpochDraining)
    BY AnswerAssumption DEF MonitoredPlanAndSend, CheckResults
  <1> HIDE DEF marked
  <1>5. MonitorOK(mon') /\ Checks(mon', marked)
    <2>1. CASE mon' = marked
      BY <1>3, <2>1, MonitorType, ChecksNothing
    <2>2. ASSUME NEW result \in CheckResults, NEW spaced \in BOOLEAN,
                 mon' = MonitorTail(marked, info.tick, result, spaced, ~token /\ ~EpochDraining)
          PROVE  MonitorOK(mon') /\ Checks(mon', marked)
      <3>1. PICK V : InOrder(marked, V)
        BY <1>3 DEF MonitorOK
      <3>2. InOrder(mon', V \cup Answered(ExpireTickChecks(marked, info.tick), result))
        BY <1>2, <2>2, <3>1, TailOK
      <3>3. Checks(mon', marked)
        BY <1>2, <2>2, <3>1, TailChecks
      <3>4. DigestsKept(mon')
        <4>1. mon' \in Monitor /\ marked \in Monitor /\ DigestsKept(marked)
          BY <1>3, <3>1, <3>2 DEF InOrder, MonitorOK
        <4> QED BY <3>3, <4>1, ChecksKeepDigests
      <3> QED BY <3>2, <3>3, <3>4 DEF MonitorOK
    <2> QED BY <1>4, <2>1, <2>2
  <1>6. Checks(mon', ApplyMarks(mon, marks'))
    BY <1>5 DEF marked
  <1> QED BY <1>1, <1>2, <1>5, <1>6, StepCounts

(* The rest of the loop and the environment leave the counters alone.      *)
LEMMA QuietStepCounts ==
  ASSUME MInv, DInv', MonitoredQuiet
  PROVE  MInv'
  <1>1. CASE ObserveNothing \/ Environment
    <2>1. /\ slots' = slots /\ marks' = {} /\ pc # "exited" /\ pc' # "exited"
      BY <1>1 DEF ObserveNothing, Environment, Signal, ObserverEnds, ObserverPanics, DeadlinePasses
    <2>2. StepReports
      BY <2>1, QuietReports DEF MInv
    <2> QED BY <2>1, <2>2, QuietCounts DEF MonitoredQuiet
  <1>2. CASE ObserveRequest
    <2>1. /\ StepReports /\ \A s \in Streams : slots'[s].chain.first = slots[s].chain.first
      BY <1>2, RequestReports DEF MInv
    <2>2. marks' = {} /\ pc # "exited" /\ pc' # "exited"
      BY <1>2 DEF ObserveRequest
    <2> QED BY <2>1, <2>2, QuietCounts DEF MonitoredQuiet
  <1>3. CASE ObserveError \/ ExitDrained \/ ExitTimedOut \/ Finished
    <2>1. pc' = "exited"
      BY <1>3 DEF ObserveError, ExitDrained, ExitTimedOut, Leave, Finished, vars
    <2> QED BY <2>1, LeaveCounts DEF MonitoredQuiet
  <1> QED BY <1>1, <1>2, <1>3 DEF MonitoredQuiet

(* A retry that becomes due changes no outcome and no digest.              *)
LEMMA RetryCounts ==
  ASSUME MInv, DInv', MonitoredRetryDue
  PROVE  MInv'
  <1>1. PICK r \in mon.ready : mon' = BecomesDue(mon, r)
    BY DEF MonitoredRetryDue
  <1>2. /\ mon'.outcomes = mon.outcomes /\ mon'.digests = mon.digests
        /\ mon'.checked = mon.checked /\ mon'.oldest = mon.oldest /\ mon'.queued = mon.queued
    <2>1. mon \in Monitor
      BY MonitorType DEF MInv
    <2> QED BY <1>1, <2>1 DEF BecomesDue, Monitor
  <1>3. MonitorOK(mon')
    <2>1. PICK V : InOrder(mon, V)
      BY DEF MInv, MonitorOK
    <2>2. InOrder(mon', V)
      BY <1>1, <2>1, DueOK
    <2>3. DigestsKept(mon')
      BY <1>2 DEF MInv, MonitorOK, DigestsKept
    <2> QED BY <2>2, <2>3 DEF MonitorOK
  <1>4. UNCHANGED vars /\ starts' = starts
    BY DEF MonitoredRetryDue
  <1>5. \A s \in Streams : FailedTicks(mon', s) = FailedTicks(mon, s)
    BY <1>2 DEF FailedTicks
  <1>6. \A s \in Streams : RevealsKept(mon, slots[s]) => RevealsKept(mon', slots'[s])
    BY <1>2, <1>4 DEF RevealsKept, Remembers, vars
  <1> QED BY <1>3, <1>4, <1>5, <1>6 DEF MInv, StreamOK, vars

(* Nothing is counted at the start.                                        *)
LEMMA MonitoredStarts == MonitoredInit => MInv
  <1> SUFFICES ASSUME MonitoredInit PROVE MInv
    OBVIOUS
  <1>1. DInv /\ slots = [s \in Streams |-> InitSlot]
    BY InitServes DEF MonitoredInit, Init
  <1>2. /\ mon = InitMonitor /\ starts = [s \in Streams |-> {}]
    BY DEF MonitoredInit
  <1>3. mon = ResetMonitor(InitMonitor) /\ InitMonitor \in Monitor
    BY <1>2, TickNumbers DEF ResetMonitor, InitMonitor, Monitor, OptTicks
  <1>4. MonitorOK(mon)
    <2>1. InOrder(mon, {})
      BY <1>3, ResetOK
    <2>2. mon.queued = {}
      BY <1>2 DEF InitMonitor
    <2> QED BY <2>1, <2>2 DEF MonitorOK, DigestsKept
  <1>5. \A s \in Streams : FailedTicks(mon, s) = {} /\ starts[s] = {}
    BY <1>2 DEF InitMonitor, FailedTicks
  <1>6. ~HasChain(InitSlot) /\ ~Fresh(InitSlot) /\ InitSlot.chain.calls = {}
    BY DEF InitSlot, HasChain, NoChain, Fresh, IsPlanned, Tag, Waiting
  <1>7. \A s \in Streams : StreamOK(mon, starts[s], slots[s], s)
    BY <1>1, <1>5, <1>6 DEF StreamOK, RevealsKept, Bounded
  <1>8. \A s \in Streams : OneCharge(starts[s], FailedTicks(mon, s))
    BY <1>5 DEF OneCharge
  <1> QED BY <1>1, <1>2, <1>4, <1>7, <1>8 DEF MInv

(* Every step of the monitored engine keeps the invariant.                 *)
LEMMA MonitoredPreserved == MInv /\ [MonitoredNext]_monitoredVars => MInv'
  <1> SUFFICES ASSUME MInv, [MonitoredNext]_monitoredVars PROVE MInv'
    OBVIOUS
  <1>1. [Next]_vars
    BY DEF MonitoredNext, MonitoredFetch, MonitoredHarvest, MonitoredPlanAndSend, MonitoredQuiet,
           MonitoredRetryDue, monitoredVars, Next, Loop
  <1>2. DInv'
    BY <1>1, StepServes DEF MInv
  <1>3. CASE MonitoredNext
    BY <1>2, <1>3, FetchCounts, HarvestCounts, CycleCounts, QuietStepCounts, RetryCounts
       DEF MonitoredNext
  <1>4. CASE UNCHANGED monitoredVars
    BY <1>2, <1>4 DEF MInv, monitoredVars, vars
  <1> QED BY <1>3, <1>4

-----------------------------------------------------------------------------
(* The theorems *)

(* The engine and its counters go together in every reachable state.       *)
THEOREM MonitoredInvariant == MonitoredSpec => []MInv
  <1> QED BY MonitoredStarts, MonitoredPreserved, PTL DEF MonitoredSpec

(* An accepted reveal is counted, and its digest is kept for as long as    *)
(* its check is queued.                                                    *)
THEOREM AcceptedRevealsAreCounted == MonitoredSpec => []AcceptedRevealsCounted
  <1>1. ASSUME MInv PROVE AcceptedRevealsCounted
    <2>1. ASSUME NEW s \in Streams, NEW c \in Calls(s),
                 c.kind = "RevealAndCommit", c.state = "Accepted"
          PROVE  mon.outcomes[c.target] # "None"
      <3>1. pc # "exited"
        BY <1>1, <2>1 DEF MInv, DInv, IInv, ExitedEmpty, NoChain, Calls
      <3> QED BY <1>1, <2>1, <3>1 DEF MInv, StreamOK, RevealsKept, Calls
    <2> QED BY <1>1, <2>1 DEF AcceptedRevealsCounted, MInv, MonitorOK, DigestsKept
  <1> QED BY <1>1, MonitoredInvariant, PTL

(* The counters hold at most one failure against a chain.                  *)
THEOREM FailuresAreCountedOnce == MonitoredSpec => []OneFailureCounted
  <1>1. ASSUME MInv PROVE OneFailureCounted
    <2> SUFFICES ASSUME NEW s \in Streams, NEW first \in starts[s]
                 PROVE  Cardinality({t \in Ticks :
                            /\ t % STREAM_COUNT = s /\ t > first
                            /\ \A later \in starts[s] : later > first => t <= later
                            /\ mon.outcomes[t] = "Failed"}) <= 1
      BY DEF OneFailureCounted
    <2> DEFINE failed == {t \in Ticks :
                            /\ t % STREAM_COUNT = s /\ t > first
                            /\ \A later \in starts[s] : later > first => t <= later
                            /\ mon.outcomes[t] = "Failed"}
    <2>1. \A t \in failed : t \in FailedTicks(mon, s) /\ InSpan(starts[s], first, t)
      BY DEF FailedTicks, InSpan
    <2> HIDE DEF failed
    <2>2. \A t, u \in failed : t = u
      BY <1>1, <2>1 DEF MInv, OneCharge
    <2>3. CASE failed = {}
      <3>1. Cardinality(failed) = 0
        BY <2>3, FS_EmptySet
      <3> QED BY <3>1 DEF failed
    <2>4. CASE failed # {}
      <3>1. PICK t : failed = {t}
        BY <2>2, <2>4
      <3>2. Cardinality(failed) = 1
        BY <3>1, FS_Singleton
      <3> QED BY <3>2 DEF failed
    <2> QED BY <2>3, <2>4
  <1> QED BY <1>1, MonitoredInvariant, PTL

=============================================================================
