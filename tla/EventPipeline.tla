---------------------------- MODULE EventPipeline ----------------------------
(***************************************************************************)
(* From a security event to an alert: the ingestion endpoints, the stream  *)
(* and its consumer group, the detection workers with their sliding        *)
(* windows and the suppression of alerts, and the scenario endpoint of the *)
(* simulator, which detects inline what it also publishes                  *)
(* (backend/app/api/routers/events_router.py and simulator_router.py,      *)
(* services/ingestion, services/detection, workers/detection_worker.py).   *)
(*                                                                         *)
(* The database commits, the stream and the windows (Redis) do not: what a *)
(* request has published, and what an evaluation has recorded in a window, *)
(* stays when its transaction is rolled back.  An alert has the creation   *)
(* time of the event that completed it, so events carry the time they were *)
(* ingested at; suppression compares it with the clock.                    *)
(*                                                                         *)
(* Correlation and response, which follow in the transaction of a message, *)
(* are in Incidents and ResponseActions; here they may fail.  The expiry   *)
(* of an idle window (twice its length) and the wall clock of occurred_at  *)
(* are left out: events carry any times.                                   *)
(***************************************************************************)
EXTENDS Integers, Sequences, FiniteSets, FiniteSetsExt

CONSTANTS
    Event,
    At,             \* of each event: occurred_at
    Worker,         \* detection workers, each a process of its own
    simulator,      \* the request that runs a scenario, in the API's process
    Scenario,       \* the events it injects
    Request,        \* ingestion requests
    Batch,          \* of each, and each of its tries: the events it carries
    Rules,          \* the rules, in the order they are loaded (records, see below)
    ReadCount,      \* messages one xreadgroup returns at most
    MaxTries,       \* bound on the tries of a request
    MaxFaults,      \* bound on Redis errors, failed transactions and crashes
    MaxExpired      \* bound on the ingestions that alerts outlast

(* A rule has a type, `match', `threshold', `distinct_count' or `sequence'; *)
(* window and need, the threshold or the number of steps; and, of each      *)
(* event: key, the value of its group_by field; mark, what is counted of it *)
(* (the event itself, the value of distinct_field, or the first step it     *)
(* matches; the event itself also where it has no value of distinct_field); *)
(* fits, whether it matches at all.                                         *)
RuleType == {"match", "threshold", "distinct_count", "sequence"}

ASSUME RulesAssumption ==
    /\ Rules \in Seq({Rules[i] : i \in DOMAIN Rules})
    /\ \A i \in DOMAIN Rules :
          /\ Rules[i].type \in RuleType
          /\ Rules[i].window \in Nat /\ Rules[i].need \in Nat \ {0}
          /\ {DOMAIN Rules[i].key, DOMAIN Rules[i].mark, DOMAIN Rules[i].fits} = {Event}
          /\ \A e \in Event :
                /\ Rules[i].fits[e] \in BOOLEAN
                /\ Rules[i].type \in {"match", "threshold"} => Rules[i].mark[e] = e
ASSUME EventAssumption == At \in [Event -> Int]
\* An event that a client sends without an event_id is given a new one at each try,
\* so that a retry brings another event.
ASSUME BatchAssumption ==
    Batch \in [Request -> [1 .. MaxTries -> Seq(Event)]] /\ Scenario \in Seq(Event)
\* The events of a scenario are made with ids of their own (event_factory.py).
ASSUME ScenarioAssumption ==
    \A m, n \in DOMAIN Scenario : Scenario[m] = Scenario[n] => m = n
ASSUME ProcessAssumption == simulator \notin Worker
ASSUME BoundAssumption ==
    ReadCount \in Nat \ {0} /\ MaxTries \in Nat /\ MaxFaults \in Nat /\ MaxExpired \in Nat

Process == Worker \cup {simulator}

VARIABLES
    events,         \* committed: the events table
    alerts,         \* committed: the alerts table
    request,        \* of each request: where it is, how many events it has published,
                    \* how many tries it took, when its events were ingested
    publisherUp,    \* EventPublisher._redis_available, of the API's process
    stream,         \* messages: an event and when it was ingested
    delivered,      \* how many of them the consumer group has given out
    acked,          \* message numbers
    processed,      \* message numbers whose transaction has committed
    window,         \* of each rule: the members of its sorted sets
    memory,         \* of each process and rule: the fallback of the windows, entries
                    \* with their places in the order in which they came
    counterUp,      \* of each process: SlidingWindowCounter._redis_available
    proc,           \* of each process: where it is, what it has to go through (message
                    \* numbers; the simulator: events), the rule it is at, the alerts it
                    \* has saved and not committed, when the simulator's event came in
    clock,          \* how many times something was ingested
    expired,        \* ... and how many of these are longer ago than alerts suppress
    faults

ingestVars == <<events, request, publisherUp>>
streamVars == <<stream, delivered, acked, processed>>
countVars == <<window, memory, counterUp>>
timeVars == <<clock, expired>>
vars == <<ingestVars, alerts, streamVars, countVars, proc, timeVars, faults>>

Message == [event : Event, ingested : Nat]

Idle == [pc |-> "idle", inbox |-> << >>, rule |-> 0, draft |-> {}, ingested |-> 0]

Init ==
    /\ events = {}
    /\ alerts = {}
    /\ request = [q \in Request |-> [pc |-> "ready", sent |-> 0, tries |-> 0, ingested |-> 0]]
    /\ publisherUp = TRUE
    /\ stream = << >>
    /\ delivered = 0
    /\ acked = {}
    /\ processed = {}
    /\ window = [i \in DOMAIN Rules |-> {}]
    /\ memory = [p \in Process |-> [i \in DOMAIN Rules |-> {}]]
    /\ counterUp = [p \in Process |-> TRUE]
    /\ proc = [p \in Process |-> [Idle EXCEPT !.inbox = IF p = simulator THEN Scenario ELSE @]]
    /\ clock = 0
    /\ expired = 0
    /\ faults = 0

-----------------------------------------------------------------------------
\* Ingestion

Elements(s) == {s[n] : n \in DOMAIN s}

\* What the request carries, the try it is at; normalize has given the events that came
\* without an event_id a new one.
Payload(q) == Batch[q][request[q].tries]

\* normalize: the fields of an event, and when it came in; a field that does not parse
\* is left out, or gets its default.
Normalize(e, now) == [event |-> e, ingested |-> now]

\* save or save_batch: the rows are flushed, all or none.  A retry
\* of what is stored already fails here on event_id, before it publishes anything.
Save(q) ==
    /\ request[q].pc = "ready"
    /\ request[q].tries < MaxTries
    /\ request' = [request EXCEPT ![q] = [pc |-> "saved", sent |-> 0, tries |-> @.tries + 1,
                                          ingested |-> clock + 1]]
    /\ clock' = clock + 1
    /\ UNCHANGED <<events, alerts, publisherUp, streamVars, countVars, proc, expired, faults>>

\* Defect: an error of Redis goes unnoticed, and publishing goes on after it.
OutcomesKeptUp(message) ==
    {[up |-> publisherUp, sent |-> IF publisherUp THEN <<message>> ELSE << >>]}
    \cup (IF publisherUp /\ faults < MaxFaults
            THEN {[up |-> TRUE, sent |-> << >>]} ELSE {})

\* publish: once Redis has failed a call, whose message may be in the stream all
\* the same, this process publishes nothing any more.
PublishOutcomes(message) ==
    {[up |-> publisherUp, sent |-> IF publisherUp THEN <<message>> ELSE << >>]}
    \cup (IF publisherUp /\ faults < MaxFaults
            THEN {[up |-> FALSE, sent |-> << >>], [up |-> FALSE, sent |-> <<message>>]} ELSE {})

PublishMessage(message) ==
    \E o \in PublishOutcomes(message) :
        /\ stream' = stream \o o.sent
        /\ publisherUp' = o.up
        /\ faults' = IF publisherUp /\ (~o.up \/ o.sent = << >>) THEN faults + 1 ELSE faults

\* publish_batch, one event of it.
Publish(q) ==
    /\ request[q].pc = "saved"
    /\ request[q].sent < Len(Payload(q))
    /\ PublishMessage(Normalize(Payload(q)[request[q].sent + 1], request[q].ingested))
    /\ request' = [request EXCEPT ![q].sent = @ + 1]
    /\ UNCHANGED <<events, alerts, delivered, acked, processed, countVars, proc, timeVars>>

\* get_db_session commits, and 202 is returned.
CommitIngest(q) ==
    /\ request[q].pc = "saved"
    /\ request[q].sent = Len(Payload(q))
    /\ events' = events \cup Elements(Payload(q))
    /\ request' = [request EXCEPT ![q].pc = "accepted"]
    /\ UNCHANGED <<alerts, publisherUp, streamVars, countVars, proc, timeVars, faults>>

\* Any error rolls the rows back, and the client may try again.
FailIngest(q) ==
    /\ request[q].pc = "saved"
    /\ faults < MaxFaults
    /\ faults' = faults + 1
    /\ request' = [request EXCEPT ![q].pc = "ready"]
    /\ UNCHANGED <<events, alerts, publisherUp, streamVars, countVars, proc, timeVars>>

-----------------------------------------------------------------------------
\* Evaluation of an event: DetectionService.process_event

\* The event a process evaluates.
Current(p) ==
    IF p = simulator
      THEN Normalize(Head(proc[p].inbox), proc[p].ingested)
      ELSE stream[Head(proc[p].inbox)]

\* _matches_condition: of a sequence, for any of its steps.
Matches(r, e) == r.fits[e]

\* The next rule after i that the event matches; one past the end if there is none.
NextRule(e, i) ==
    Min({j \in i + 1 .. Len(Rules) : Matches(Rules[j], e)} \cup {Len(Rules) + 1})

\* Where an evaluation is once the rules up to i are done with.
AtRule(state, e, i) ==
    [state EXCEPT !.rule = NextRule(e, i),
                  !.pc = IF NextRule(e, i) > Len(Rules) THEN "evaluated"
                         ELSE IF Rules[NextRule(e, i)].type = "match" THEN "raise"
                         ELSE "record"]

\* Defect: what is recorded of an event is unique to the delivery.
MemberPerDelivery(r, m) ==
    [mark |-> <<r.mark[m.event], m.ingested>>, event |-> m.event]

\* The member of the sorted set for a message; its score is occurred_at.
Member(r, m) == [mark |-> r.mark[m.event], event |-> m.event]

SameKey(r, e, f) == r.key[e] = r.key[f]

Cutoff(r, e) == At[e] - r.window

\* The entries an evaluation counts in the window: zrangebyscore(cutoff, +inf).
Entries(r, e, members) ==
    {m \in members : SameKey(r, e, m.event) /\ At[m.event] >= Cutoff(r, e)}

\* Without a value of distinct_field (an empty distinct_val), and for a threshold, an
\* evaluation counts entries, however many of them have the same mark.
ByEntry(r, e) == r.type # "sequence" /\ r.mark[e] = e

\* What the evaluation of e counts in its window.
Counted(r, e, entries) == IF ByEntry(r, e) THEN entries ELSE {n.mark : n \in entries}

\* The condition of each type of rule over what was counted; the order of the steps of
\* a sequence is not looked at.
Reached(r, counted) == r.type = "match" \/ Cardinality(counted) >= r.need

\* The events an alert names: of a sequence, the last of each step (where several
\* are the last, all of them).
Matched(r, entries, rank) ==
    LET last == {n \in entries : \A o \in entries : o.mark = n.mark => rank[o] <= rank[n]}
    IN  {n.event : n \in IF r.type = "sequence" THEN last ELSE entries}

\* Defect: an alert is suppressed by one of the same event only.
SuppressedByEvent(p, i, e) ==
    \E a \in alerts \cup proc[p].draft :
        /\ a.rule = i /\ a.event = e
        /\ a.ingested > expired

\* is_suppressed: an alert of the rule and key, committed or of this session, created
\* within suppress_for_seconds of now.
Suppressed(p, i, e) ==
    \E a \in alerts \cup proc[p].draft :
        /\ a.rule = i /\ SameKey(Rules[i], a.event, e)
        /\ a.ingested > expired

\* The alert that the rule gives for what was found, unless it is suppressed.
Raised(p, i, m, matched, counted, source) ==
    IF Reached(Rules[i], counted) /\ ~Suppressed(p, i, m.event)
      THEN {[rule |-> i, event |-> m.event, ingested |-> m.ingested, by |-> p,
             matched |-> matched, source |-> source]}
      ELSE {}

\* evaluate has its result; on to the next rule.
Finish(p, matched, counted, source) ==
    LET m == Current(p)
        i == proc[p].rule
        saved == proc[p].draft \cup Raised(p, i, m, matched, counted, source)
    IN  proc' = [proc EXCEPT ![p] = AtRule([proc[p] EXCEPT !.draft = saved], m.event, i)]

\* Defect: an event is counted before it is recorded.
RecordAfterRaise(p) ==
    /\ proc[p].pc = "record"
    /\ counterUp[p]
    /\ LET r == Rules[proc[p].rule]
           m == Current(p)
           entries == Entries(r, m.event, window[proc[p].rule])
       IN  Finish(p, {n.event : n \in entries} \cup {m.event},
                  Counted(r, m.event, entries), "redis")
    /\ window' = [window EXCEPT ![proc[p].rule] = @ \cup {Member(Rules[proc[p].rule], Current(p))}]
    /\ UNCHANGED <<ingestVars, alerts, streamVars, memory, counterUp, timeVars, faults>>

\* zadd
Record(p) ==
    /\ proc[p].pc = "record"
    /\ counterUp[p]
    /\ window' = [window EXCEPT ![proc[p].rule] = @ \cup {Member(Rules[proc[p].rule], Current(p))}]
    /\ proc' = [proc EXCEPT ![p].pc = "trim"]
    /\ UNCHANGED <<ingestVars, alerts, streamVars, memory, counterUp, timeVars, faults>>

\* zremrangebyscore(-inf, cutoff)
Trim(p) ==
    LET r == Rules[proc[p].rule]
        e == Current(p).event
    IN  /\ proc[p].pc = "trim"
        /\ window' = [window EXCEPT ![proc[p].rule] =
              {m \in @ : SameKey(r, e, m.event) => At[m.event] > Cutoff(r, e)}]
        /\ proc' = [proc EXCEPT ![p].pc = "raise"]
        /\ UNCHANGED <<ingestVars, alerts, streamVars, memory, counterUp, timeVars, faults>>

\* zrangebyscore, and the rest of the rule.  A match rule begins here, with the
\* event alone.
Raise(p) ==
    LET r == Rules[proc[p].rule]
        m == Current(p)
        entries == IF r.type = "match" THEN {Member(r, m)}
                   ELSE Entries(r, m.event, window[proc[p].rule])
    IN  /\ proc[p].pc = "raise"
        /\ Finish(p, Matched(r, entries, [n \in entries |-> At[n.event]]),
                  Counted(r, m.event, entries), "redis")
        /\ UNCHANGED <<ingestVars, alerts, streamVars, countVars, timeVars, faults>>

\* The store of the process with the message, without what the cutoff leaves behind.
Kept(r, m, store) ==
    LET new == [mark |-> r.mark[m.event], event |-> m.event,
                place |-> Max({0} \cup {n.place : n \in store}) + 1]
    IN  {n \in store \cup {new} :
            SameKey(r, m.event, n.event) => At[n.event] >= Cutoff(r, m.event)}

\* The memory fallback, in one go: a repeated event counts again, and an entry
\* right at the cutoff is kept.  The last of a step is the one that came last.
CountInMemory(p) ==
    LET r == Rules[proc[p].rule]
        m == Current(p)
        store == Kept(r, m, memory[p][proc[p].rule])
        entries == {n \in store : SameKey(r, m.event, n.event)}
    IN  /\ memory' = [memory EXCEPT ![p][proc[p].rule] = store]
        /\ Finish(p, Matched(r, entries, [n \in entries |-> n.place]),
                  Counted(r, m.event, entries), "memory")

FallBack(p) ==
    /\ proc[p].pc = "record"
    /\ ~counterUp[p]
    /\ CountInMemory(p)
    /\ UNCHANGED <<ingestVars, alerts, streamVars, window, counterUp, timeVars, faults>>

\* A call to Redis fails: from then on the process counts in memory.  What the
\* calls before it did to the window stays, and the failed zadd may have worked.
CounterFails(p) ==
    /\ faults < MaxFaults
    /\ faults' = faults + 1
    /\ counterUp[p]
    /\ \/ proc[p].pc \in {"record", "trim"}
       \/ proc[p].pc = "raise" /\ Rules[proc[p].rule].type # "match"
    /\ counterUp' = [counterUp EXCEPT ![p] = FALSE]
    /\ window' \in {window, [window EXCEPT ![proc[p].rule] =
                                @ \cup {Member(Rules[proc[p].rule], Current(p))}]}
    /\ proc[p].pc # "record" => window' = window
    /\ CountInMemory(p)
    /\ UNCHANGED <<ingestVars, alerts, streamVars, timeVars>>

-----------------------------------------------------------------------------
\* The detection worker

BeginMessage(inbox) ==
    IF inbox = << >> THEN Idle
    ELSE AtRule([Idle EXCEPT !.inbox = inbox], stream[Head(inbox)].event, 0)

\* Defect: as many messages are taken to be given out as were asked for.
ReadPastEnd(w) ==
    /\ proc[w].pc = "idle"
    /\ delivered < Len(stream)
    /\ LET last == Min({delivered + ReadCount, Len(stream)})
       IN  proc' = [proc EXCEPT ![w] =
                 BeginMessage([n \in 1 .. last - delivered |-> delivered + n])]
    /\ delivered' = delivered + ReadCount
    /\ UNCHANGED <<ingestVars, alerts, stream, acked, processed, countVars, timeVars, faults>>

\* xreadgroup with `>': messages that were never given out.
Read(w) ==
    /\ proc[w].pc = "idle"
    /\ delivered < Len(stream)
    /\ LET last == Min({delivered + ReadCount, Len(stream)})
       IN  /\ proc' = [proc EXCEPT ![w] =
                 BeginMessage([n \in 1 .. last - delivered |-> delivered + n])]
           /\ delivered' = last
    /\ UNCHANGED <<ingestVars, alerts, stream, acked, processed, countVars, timeVars, faults>>

\* session.commit()
CommitMessage(w) ==
    /\ proc[w].pc = "evaluated"
    /\ alerts' = alerts \cup proc[w].draft
    /\ processed' = processed \cup {Head(proc[w].inbox)}
    /\ proc' = [proc EXCEPT ![w].pc = "committed"]
    /\ UNCHANGED <<ingestVars, stream, delivered, acked, countVars, timeVars, faults>>

\* Defect: the message is acknowledged without waiting for the commit.
AckEarly(w) ==
    /\ proc[w].pc \in {"evaluated", "committed"}
    /\ acked' = acked \cup {Head(proc[w].inbox)}
    /\ proc' = [proc EXCEPT ![w] = BeginMessage(Tail(@.inbox))]
    /\ UNCHANGED <<ingestVars, alerts, stream, delivered, processed, countVars, timeVars, faults>>

\* xack, and the next message.
Ack(w) ==
    /\ proc[w].pc = "committed"
    /\ acked' = acked \cup {Head(proc[w].inbox)}
    /\ proc' = [proc EXCEPT ![w] = BeginMessage(Tail(@.inbox))]
    /\ UNCHANGED <<ingestVars, alerts, stream, delivered, processed, countVars, timeVars, faults>>

\* Defect: an error ends the loop over the messages, which are not read again.
FailKeepsInbox(w) ==
    /\ faults < MaxFaults
    /\ faults' = faults + 1
    /\ proc[w].pc # "idle"
    /\ proc' = [proc EXCEPT ![w].pc = "stopped", ![w].draft = {}]
    /\ UNCHANGED <<ingestVars, alerts, streamVars, countVars, timeVars>>

\* An error in the transaction of a message, or in its xack, is logged, and the
\* next message follows.  The message stays pending and is not read again.
Fail(w) ==
    /\ faults < MaxFaults
    /\ faults' = faults + 1
    /\ proc[w].pc # "idle"
    /\ proc' = [proc EXCEPT ![w] = BeginMessage(Tail(@.inbox))]
    /\ UNCHANGED <<ingestVars, alerts, streamVars, countVars, timeVars>>

\* The process ends, by a crash or a shutdown, and another is started: the messages
\* it was given are lost with it.
Crash(w) ==
    /\ faults < MaxFaults
    /\ faults' = faults + 1
    /\ proc[w].pc # "idle"
    /\ proc' = [proc EXCEPT ![w] = Idle]
    /\ memory' = [memory EXCEPT ![w] = [i \in DOMAIN Rules |-> {}]]
    /\ counterUp' = [counterUp EXCEPT ![w] = TRUE]
    /\ UNCHANGED <<ingestVars, alerts, streamVars, window, timeVars>>

-----------------------------------------------------------------------------
\* run_scenario_endpoint: one session for all its events

\* normalize, save and publish one of them; the evaluation follows.
Inject ==
    LET state == proc[simulator]
    IN  /\ state.pc = "idle"
        /\ state.inbox # << >>
        /\ clock' = clock + 1
        /\ PublishMessage(Normalize(Head(state.inbox), clock + 1))
        /\ proc' = [proc EXCEPT ![simulator] =
              AtRule([state EXCEPT !.ingested = clock + 1], Head(state.inbox), 0)]
        /\ UNCHANGED <<events, request, alerts, delivered, acked, processed, countVars, expired>>

\* On to the next event, or the commit after the last.
Injected ==
    LET state == proc[simulator]
        rest == Tail(state.inbox)
    IN  /\ state.pc = "evaluated"
        /\ proc' = [proc EXCEPT ![simulator] =
              [state EXCEPT !.pc = "idle", !.inbox = rest, !.rule = 0,
                            !.draft = IF rest = << >> THEN {} ELSE state.draft]]
        /\ alerts' = IF rest = << >> THEN alerts \cup state.draft ELSE alerts
        /\ events' = IF rest = << >> THEN events \cup Elements(Scenario) ELSE events
        /\ UNCHANGED <<request, publisherUp, streamVars, countVars, timeVars, faults>>

\* An error: the session is rolled back, what was published stays.
FailScenario ==
    /\ faults < MaxFaults
    /\ faults' = faults + 1
    /\ proc[simulator].inbox # << >>
    /\ proc' = [proc EXCEPT ![simulator] = Idle]
    /\ UNCHANGED <<ingestVars, alerts, streamVars, countVars, timeVars>>

-----------------------------------------------------------------------------

\* Time passes: the earliest ingestion is now longer ago than alerts suppress.
Elapse ==
    /\ expired < Min({clock, MaxExpired})
    /\ expired' = expired + 1
    /\ UNCHANGED <<ingestVars, alerts, streamVars, countVars, proc, clock, faults>>

Evaluate(p) == Record(p) \/ Trim(p) \/ Raise(p) \/ FallBack(p)

WorkerStep(w) == Read(w) \/ Evaluate(w) \/ CommitMessage(w) \/ Ack(w)

Next ==
    \/ \E q \in Request : Save(q) \/ Publish(q) \/ CommitIngest(q) \/ FailIngest(q)
    \/ \E w \in Worker : WorkerStep(w) \/ Fail(w) \/ Crash(w)
    \/ \E p \in Process : CounterFails(p)
    \/ Inject \/ Evaluate(simulator) \/ Injected \/ FailScenario
    \/ Elapse

Spec == Init /\ [][Next]_vars

\* Each worker keeps running its loop.
FairSpec == Spec /\ \A w \in Worker : WF_vars(WorkerStep(w))

-----------------------------------------------------------------------------
\* Properties

Alert == [rule : DOMAIN Rules, event : Event, ingested : Nat, by : Process,
          matched : SUBSET Event, source : {"redis", "memory"}]

Messages == 1 .. Len(stream)

Mark == {Rules[i].mark[e] : i \in DOMAIN Rules, e \in Event}

TypeOK ==
    /\ events \subseteq Event
    /\ alerts \subseteq Alert
    /\ request \in [Request -> [pc : {"ready", "saved", "accepted"}, sent : Nat,
                                tries : 0 .. MaxTries, ingested : 0 .. clock]]
    /\ \A q \in Request : request[q].pc # "ready" =>
          request[q].tries # 0 /\ request[q].sent <= Len(Payload(q))
    /\ publisherUp \in BOOLEAN
    /\ stream \in Seq(Message)
    /\ delivered \in 0 .. Len(stream)
    /\ acked \subseteq 1 .. delivered /\ processed \subseteq 1 .. delivered
    /\ window \in [DOMAIN Rules -> SUBSET [mark : Mark, event : Event]]
    /\ memory \in [Process -> [DOMAIN Rules -> SUBSET [mark : Mark, event : Event, place : Nat]]]
    /\ counterUp \in [Process -> BOOLEAN]
    /\ \A p \in Process :
          /\ proc[p].pc \in {"idle", "record", "trim", "raise", "evaluated", "committed"}
          /\ proc[p].draft \subseteq Alert
          /\ proc[p].pc \in {"record", "trim", "raise"} => proc[p].rule \in DOMAIN Rules
          /\ p \in Worker => Elements(proc[p].inbox) \subseteq 1 .. delivered
          /\ proc[p].pc # "idle" => proc[p].inbox # << >>
    /\ expired \in 0 .. clock
    /\ faults \in 0 .. MaxFaults

\* An event that is stored is in the stream too, where a worker will find it,
\* unless the publisher of the process has given Redis up: publishing comes first,
\* and a request that fails in between leaves a message without a row, never a row
\* without a message.
StoredIsPublished ==
    publisherUp => \A e \in events : \E n \in Messages : stream[n].event = e

\* A message is acknowledged for what has been committed, never for what a crash
\* can still undo.
AckedIsCommitted == acked \subseteq processed

\* No process is between the window and the commit with an event of this rule.
Quiet(i) ==
    /\ \A n \in 1 .. delivered : Matches(Rules[i], stream[n].event) => n \in processed
    /\ proc[simulator].pc = "idle" /\ proc[simulator].draft = {}

\* Two workers that record events of one key at the same time do not both overlook
\* the threshold: whenever the window of a rule holds what the rule needs, and
\* everything recorded in it was processed to the end, there is an alert.
ThresholdIsAlerted ==
    \A i \in DOMAIN Rules :
        faults = 0 /\ Quiet(i) =>
            \A m \in window[i] :
                LET found == {n \in window[i] : SameKey(Rules[i], m.event, n.event)}
                IN  Reached(Rules[i], {n.mark : n \in found}) =>
                        \E a \in alerts : a.rule = i /\ SameKey(Rules[i], a.event, m.event)

\* Workers cannot see each other's uncommitted alerts, so that one attack may be
\* reported more than once; but each process reports it at most once within the time
\* that alerts suppress, however often the events are delivered and retried.
OneFreshAlertPerProcess ==
    \A a, b \in alerts :
        /\ a.rule = b.rule /\ SameKey(Rules[a.rule], a.event, b.event)
        /\ a.by = b.by
        /\ a.ingested > expired /\ b.ingested > expired
        => a = b

Repeated(e) == \E m, n \in Messages : m # n /\ stream[m].event = e /\ stream[n].event = e

Justified(a) ==
    LET r == Rules[a.rule]
    IN  /\ \A e \in a.matched :
              Matches(r, e) /\ SameKey(r, e, a.event) /\ At[e] >= Cutoff(r, a.event)
        /\ \/ Reached(r, IF ByEntry(r, a.event) THEN a.matched
                         ELSE {r.mark[e] : e \in a.matched})
           \/ /\ a.source = "memory" /\ ByEntry(r, a.event)
              /\ \E e \in a.matched : Repeated(e)

\* What an alert reports is there: events of its key that match its rule, of the
\* time of its window, and as many different events as the rule asks for - or, where
\* the event that completed it has a value of distinct_field, as many different
\* values - although retries publish events again and the simulator has them
\* evaluated twice.  (Where that event has none, a distinct_count rule is content
\* with fewer values than it asks for.  An event without an event_id is another one
\* after a retry.)  Only a process that counts in memory takes a repeated event for
\* two.
AlertIsJustified == \A a \in alerts : Justified(a)

\* Given out, and in nobody's hands any more: committed, failed or lost in a crash.
Settled(n) ==
    /\ n <= delivered
    /\ \A w \in Worker : n \notin Elements(proc[w].inbox)

\* No message waits for ever, neither in the stream nor in the hands of a worker,
\* whatever became of the messages before it: when the publishers, whose tries are
\* bounded, are done, all are settled.
EveryMessageSettles == <>[](\A n \in Messages : Settled(n))

=============================================================================
