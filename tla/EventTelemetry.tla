--------------------------- MODULE EventTelemetry ---------------------------
(***************************************************************************)
(* RuntimeEventBus and TelemetryEventRecorder: runtimes publish on buses, a *)
(* recorder keeps the newest events of the bus it is attached to, and a    *)
(* snapshot and timelines are computed from what it kept.  publish calls   *)
(* the listeners of the bus synchronously, in the order they subscribed,   *)
(* and one that throws keeps the event from those after it.                *)
(***************************************************************************)
EXTENDS Integers, FiniteSets, Sequences, Functions

CONSTANTS
    Buses,
    Runtimes,
    BusOf,          \* the bus each runtime publishes on
    Others,         \* listeners beside the recorder, which may throw
    EventStatuses,  \* the statuses that occur
    MaxEvents,      \* the recorder's option maxEvents
    MaxPublished,   \* bound: the events published in a run
    MaxTime,        \* bound: the clock
    None

ASSUME TelemetryAssumption ==
    /\ BusOf \in [Runtimes -> Buses]
    /\ EventStatuses \subseteq {"started", "completed", "failed", "retrying", "warning"}
    /\ MaxEvents \in Nat \ {0} /\ MaxPublished \in Nat /\ MaxTime \in Nat \ {0}
    /\ None \notin Buses
    /\ "recorder" \notin Others

\* An event; its eventId is the number of its publication.
Events == [eventId : 1..MaxPublished, runtimeId : Runtimes,
           status : EventStatuses, timestamp : 1..MaxTime]

VARIABLES
    events,         \* RuntimeEventBus.events of each bus
    listeners,      \* RuntimeEventBus.listeners, in the order of subscription
    subscribed,     \* the recorder's unsubscribe: the bus it would leave, or None
    recorded,       \* TelemetryEventRecorder.events
    published,      \* how many events there have been
    now,            \* the clock that dates the events
    since           \* history: the events already on the recorder's bus when it
                    \* was attached or cleared, or when one was kept from it

recorderVars == <<subscribed, recorded>>
vars == <<events, listeners, subscribed, recorded, published, now, since>>

Init ==
    /\ events = [b \in Buses |-> <<>>]
    /\ listeners = [b \in Buses |-> <<>>]
    /\ subscribed = None
    /\ recorded = <<>>
    /\ published = 0
    /\ now = 1
    /\ since = 0

-----------------------------------------------------------------------------
(* Mistakes: see TreasuryProgram. *)

\* The newest event makes room for the older ones.
MistakePop(s) == IF Len(s) > MaxEvents THEN SubSeq(s, 1, Len(s) - 1) ELSE s

\* attach forgets the subscription it had.
MistakeStaysSubscribed(ls) == ls

\* Newest first.
MistakeDescending(earlier, later) == earlier.timestamp >= later.timestamp

-----------------------------------------------------------------------------
(* Lists. *)

\* The elements of s at the chosen positions, one after another as precedes, a
\* strict total order on these positions, has them.
Listed(s, chosen, precedes) ==
    LET place(i) == Cardinality({j \in chosen : <<j, i>> \in precedes}) + 1
    IN  [k \in 1..Cardinality(chosen) |-> s[CHOOSE i \in chosen : place(i) = k]]

\* filter: the elements at the chosen positions, in the order of the list.
Filtered(s, chosen) == Listed(s, chosen, {p \in chosen \X chosen : p[1] < p[2]})

-----------------------------------------------------------------------------
(* The bus. *)

Delete(s, l) == Filtered(s, {i \in DOMAIN s : s[i] # l})

\* What unsubscribing the recorder leaves of a bus's listeners.
WithoutRecorder(ls) == Delete(ls, "recorder")

\* The listeners that an event reaches when the i-th throws, or none does (0).
Reached(b, i) == IF i = 0 THEN listeners[b] ELSE SubSeq(listeners[b], 1, i)

MayThrow(b) == {0} \cup {i \in DOMAIN listeners[b] : listeners[b][i] \in Others}

-----------------------------------------------------------------------------
(* The recorder. *)

DropOldest(s) == IF Len(s) > MaxEvents THEN Tail(s) ELSE s

Record(s, e) == DropOldest(Append(s, e))

\* One call of record for each subscription the event reaches.
RecordReached(b, i, e) ==
    LET reached == Reached(b, i)
        after[k \in 0..Len(reached)] ==
            IF k = 0 THEN recorded
            ELSE IF reached[k] = "recorder" THEN Record(after[k - 1], e) ELSE after[k - 1]
    IN  after[Len(reached)]

KeptFromRecorder(b, i) ==
    "recorder" \in Range(listeners[b]) \ Range(Reached(b, i))

-----------------------------------------------------------------------------
(* Actions. *)

Publish(r, status) ==
    LET b == BusOf[r]
        e == [eventId |-> published + 1, runtimeId |-> r, status |-> status,
              timestamp |-> now]
    IN  /\ published < MaxPublished
        /\ published' = published + 1
        /\ events' = [events EXCEPT ![b] = Append(@, e)]
        /\ \E i \in MayThrow(b) :
             /\ recorded' = RecordReached(b, i, e)
             /\ since' = IF KeptFromRecorder(b, i) THEN Len(events'[b]) ELSE since
        /\ UNCHANGED <<listeners, subscribed, now>>

\* attach leaves the bus it was attached to; the callback is a new one, so the
\* recorder is called after the listeners that came before.
Attach(b) ==
    /\ listeners' =
         LET left == IF subscribed = None THEN listeners
                     ELSE [listeners EXCEPT ![subscribed] = WithoutRecorder(@)]
         IN  [left EXCEPT ![b] = Append(@, "recorder")]
    /\ subscribed' = b
    /\ since' = Len(events[b])
    /\ UNCHANGED <<events, recorded, published, now>>

Detach ==
    /\ subscribed # None
    /\ listeners' = [listeners EXCEPT ![subscribed] = WithoutRecorder(@)]
    /\ subscribed' = None
    /\ since' = 0
    /\ UNCHANGED <<events, recorded, published, now>>

ClearRecorder ==
    /\ recorded' = <<>>
    /\ since' = IF subscribed = None THEN 0 ELSE Len(events[subscribed])
    /\ UNCHANGED <<events, listeners, subscribed, published, now>>

ClearBus(b) ==
    /\ events' = [events EXCEPT ![b] = <<>>]
    /\ since' = IF b = subscribed THEN 0 ELSE since
    /\ UNCHANGED <<listeners, recorderVars, published, now>>

Subscribe(b, l) ==
    /\ listeners' = [listeners EXCEPT ![b] = IF l \in Range(@) THEN @ ELSE Append(@, l)]
    /\ UNCHANGED <<events, recorderVars, published, now, since>>

Unsubscribe(b, l) ==
    /\ listeners' = [listeners EXCEPT ![b] = Delete(@, l)]
    /\ UNCHANGED <<events, recorderVars, published, now, since>>

\* The clock is the machine's, which may be set back.
SetClock ==
    /\ now' \in 1..MaxTime \ {now}
    /\ UNCHANGED <<events, listeners, recorderVars, published, since>>

Next ==
    \/ \E r \in Runtimes, status \in EventStatuses : Publish(r, status)
    \/ \E b \in Buses :
         \/ Attach(b) \/ ClearBus(b)
         \/ \E l \in Others : Subscribe(b, l) \/ Unsubscribe(b, l)
    \/ Detach \/ ClearRecorder \/ SetClock

Spec == Init /\ [][Next]_vars

-----------------------------------------------------------------------------
(* Snapshot and timelines of a list of events. *)

Count(s, status) == Cardinality({i \in DOMAIN s : s[i].status = status})

\* createTelemetrySnapshot, without the average of the durations.
Snapshot(s) ==
    [totalEvents |-> Len(s), completedEvents |-> Count(s, "completed"),
     failedEvents |-> Count(s, "failed"), warningEvents |-> Count(s, "warning"),
     retryingEvents |-> Count(s, "retrying"),
     latestEvent |-> IF s = <<>> THEN None ELSE s[Len(s)]]

\* The comparison that sorts a timeline.
InSequence(earlier, later) == earlier.timestamp <= later.timestamp

\* Sorting is stable: events that may come in either order stay as they were.
GoesBefore(s, i, j) ==
    /\ InSequence(s[i], s[j])
    /\ InSequence(s[j], s[i]) => i < j

SortByTime(s) ==
    LET all == DOMAIN s
    IN  Listed(s, all, {p \in all \X all : GoesBefore(s, p[1], p[2])})

EventsOf(s, r) == Filtered(s, {i \in DOMAIN s : s[i].runtimeId = r})

\* createTelemetryTimeline: one timeline for each runtime that has events.
Timelines(s) ==
    [r \in {e.runtimeId : e \in Range(s)} |-> SortByTime(EventsOf(s, r))]

-----------------------------------------------------------------------------
(* Properties *)

IsPublishOrder(s) == \A i, j \in DOMAIN s : i < j => s[i].eventId < s[j].eventId

\* The recorder keeps its limit and listens on the bus it would leave, once, and
\* on no other.
TypeOK ==
    /\ events \in [Buses -> Seq(Events)]
    /\ subscribed \in Buses \cup {None}
    /\ recorded \in Seq(Events) /\ Len(recorded) <= MaxEvents
    /\ published \in 0..MaxPublished /\ now \in 1..MaxTime
    /\ since \in 0..MaxPublished
    /\ listeners \in [Buses -> Seq(Others \cup {"recorder"})]
    /\ \A b \in Buses :
         /\ IsInjective(listeners[b])
         /\ "recorder" \in Range(listeners[b]) <=> subscribed = b

\* However often it is attached again, detached and cleared, and to whatever bus,
\* the recorder holds each event once, in the order of publication; and what was
\* published on its bus since it was attached, cleared or robbed of an event by a
\* listener that threw is at its end, without gaps: all of it, or the newest MaxEvents.
TailIsComplete ==
    /\ IsPublishOrder(recorded)
    /\ subscribed # None =>
        LET fresh == SubSeq(events[subscribed], since + 1, Len(events[subscribed]))
            kept  == IF Len(fresh) < MaxEvents THEN Len(fresh) ELSE MaxEvents
        IN  /\ Len(recorded) >= kept
            /\ SubSeq(fresh, Len(fresh) - kept + 1, Len(fresh)) =
               SubSeq(recorded, Len(recorded) - kept + 1, Len(recorded))

\* In the order of the clock, and of publication while it showed the same.
IsTimeline(t) ==
    \A i, j \in DOMAIN t : i < j =>
      \/ t[i].timestamp < t[j].timestamp
      \/ t[i].timestamp = t[j].timestamp /\ t[i].eventId < t[j].eventId

\* The timelines tell each runtime's events by their time, and together what the
\* snapshot counts.  The snapshot's latest event ends its runtime's timeline,
\* unless the clock was set back and an earlier event bears a later time.
TimelinesAgreeWithSnapshot ==
    LET timelines == Timelines(recorded)
        snapshot  == Snapshot(recorded)
    IN  /\ \A r \in DOMAIN timelines :
             /\ IsTimeline(timelines[r])
             /\ Range(timelines[r]) = {e \in Range(recorded) : e.runtimeId = r}
        /\ snapshot.totalEvents =
             SumFunction([r \in DOMAIN timelines |-> Len(timelines[r])])
        /\ snapshot.completedEvents =
             SumFunction([r \in DOMAIN timelines |-> Count(timelines[r], "completed")])
        /\ snapshot.failedEvents =
             SumFunction([r \in DOMAIN timelines |-> Count(timelines[r], "failed")])
        /\ snapshot.latestEvent # None =>
             \E r \in DOMAIN timelines :
               LET last == timelines[r][Len(timelines[r])]
               IN  /\ last.runtimeId = snapshot.latestEvent.runtimeId
                   /\ \/ snapshot.latestEvent = last
                      \/ last.timestamp > snapshot.latestEvent.timestamp
=============================================================================
