------------------------- MODULE EventPipelineProofs -------------------------
(***************************************************************************)
(* Theorems about the event pipeline, for any events, rules and processes, *)
(* any number of faults and any retries:                                   *)
(*                                                                         *)
(*   - AckedIsCommitted: the worker commits before it acknowledges, and    *)
(*     holds on to its place in the inbox in between (Acknowledging);      *)
(*   - StoredIsPublished: what a request or the scenario has gone through  *)
(*     is in the stream before the commit (RequestPublished,               *)
(*     ScenarioPublished);                                                 *)
(*   - OneFreshAlertPerProcess: what a process has saved and not committed *)
(*     counts as well (OneFreshAlert), and is its own (DraftIsOwn).        *)
(*                                                                         *)
(* What a rule finds in a window plays no part in these three (IInv).  It  *)
(* does in the others, whose invariant is WInv:                            *)
(*                                                                         *)
(*   - ThresholdIsAlerted: without faults, what has reached a threshold is *)
(*     alerted, or a process will look at all of it (NotOverlooked); when  *)
(*     everything is acknowledged, none will (InboxesApart), and the alert *)
(*     is committed (DraftIsOfMessage);                                    *)
(*   - AlertIsJustified, of what is saved as well (JustifiedDrafts): the   *)
(*     entries that are counted have the marks of events that match        *)
(*     (WindowsFit, MemoryFits); an event has one entry in a window, and   *)
(*     those in memory are of messages that the process was given, each    *)
(*     once unless it is in the stream twice (MemoryOfWorkers,             *)
(*     MemoryOfSimulator);                                                 *)
(*   - TypeOK, with the windows, the memory and the drafts.                *)
(***************************************************************************)
EXTENDS EventPipeline, FiniteSetTheorems, WellFoundedInduction, TLAPS

State(pcs, inboxes, rules, drafts, times) ==
    [pc : pcs, inbox : inboxes, rule : rules, draft : drafts, ingested : times]

\* A record with the fields of a process, whatever they hold.
IsState(s) == s \in State({s.pc}, {s.inbox}, {s.rule}, {s.draft}, {s.ingested})

\* What the proofs need of the types: TypeOK without the windows, the memory and
\* what is found in them.
ProcessTypes ==
    /\ DOMAIN proc = Process
    /\ \A p \in Process : IsState(proc[p]) /\ proc[p].ingested \in Nat
    /\ \A p \in Process : proc[p].pc # "idle" => proc[p].inbox # << >>
    /\ proc[simulator].inbox \in Seq(Event)
    /\ \A w \in Worker : /\ proc[w].inbox \in Seq(Nat)
                         /\ \A k \in 1 .. Len(proc[w].inbox) :
                               proc[w].inbox[k] \in 1 .. Len(stream)

RequestTypes ==
    /\ request \in [Request -> [pc : {"ready", "saved", "accepted"}, sent : Nat,
                                tries : 0 .. MaxTries, ingested : Nat]]
    /\ \A q \in Request : request[q].pc # "ready" =>
          request[q].tries # 0 /\ request[q].sent <= Len(Payload(q))

Types ==
    /\ clock \in Nat /\ expired \in Nat
    /\ publisherUp \in BOOLEAN
    /\ stream \in Seq(Message)
    /\ delivered \in 0 .. Len(stream)
    /\ \A a \in alerts : a.ingested \in Nat /\ a.by \in Process
    /\ RequestTypes /\ ProcessTypes

\* Between the commit and the acknowledgement the worker is still at the message it
\* has committed.
Acknowledging ==
    \A w \in Worker : proc[w].pc = "committed" => Head(proc[w].inbox) \in processed

\* A process saves alerts under its own name.
DraftIsOwn ==
    \A p \in Process : \A a \in proc[p].draft : a.by = p /\ a.ingested \in Nat

\* OneFreshAlertPerProcess, with what each process has not committed yet.
OneFreshAlert ==
    \A p \in Process : \A a, b \in alerts \cup proc[p].draft :
        /\ a.rule = b.rule /\ SameKey(Rules[a.rule], a.event, b.event)
        /\ a.by = p /\ b.by = p
        /\ a.ingested > expired /\ b.ingested > expired
        => a = b

Published(e) == \E n \in Messages : stream[n].event = e

\* What publish_batch has gone through is in the stream.
RequestPublished ==
    \A q \in Request : request[q].pc = "saved" =>
        \A k \in 1 .. request[q].sent : Published(Payload(q)[k])

\* How many events of the scenario were injected, counting the one under way.
Injections ==
    Len(Scenario) - Len(proc[simulator].inbox) + (IF proc[simulator].pc = "idle" THEN 0 ELSE 1)

\* The simulator has injected the scenario up to where it is.
ScenarioPublished ==
    proc[simulator].inbox # << >> =>
        /\ Len(proc[simulator].inbox) <= Len(Scenario)
        /\ \A k \in 1 .. Len(proc[simulator].inbox) :
              proc[simulator].inbox[k] =
                  Scenario[Len(Scenario) - Len(proc[simulator].inbox) + k]
        /\ publisherUp => \A k \in 1 .. Injections : Published(Scenario[k])

IInv ==
    /\ Types
    /\ AckedIsCommitted /\ Acknowledging
    /\ DraftIsOwn /\ OneFreshAlert
    /\ StoredIsPublished /\ (publisherUp => RequestPublished) /\ ScenarioPublished

-----------------------------------------------------------------------------
\* Lemmas about the operators

LEMMA MinOfTwo ==
    ASSUME NEW m \in Int, NEW n \in Int
    PROVE  Min({m, n}) \in {m, n} /\ Min({m, n}) <= m /\ Min({m, n}) <= n
  <1>1. \E x \in {m, n} : \A y \in {m, n} : x <= y
    OBVIOUS
  <1> QED
    BY <1>1 DEF Min

LEMMA StateOfTypes ==
    ASSUME NEW pcs, NEW inboxes, NEW rules, NEW drafts, NEW times,
           NEW s \in State(pcs, inboxes, rules, drafts, times)
    PROVE  IsState(s)
BY DEF State, IsState

LEMMA IdleState ==
    /\ IsState(Idle)
    /\ Idle.pc = "idle" /\ Idle.inbox = << >> /\ Idle.draft = {} /\ Idle.ingested = 0
    /\ Idle.rule = 0
BY DEF Idle, IsState, State

\* The updates of the record of a process.
Moved(s, rule, pc) == [s EXCEPT !.rule = rule, !.pc = pc]
WithPc(s, pc) == [s EXCEPT !.pc = pc]
WithDraft(s, draft) == [s EXCEPT !.draft = draft]
WithTime(s, time) == [s EXCEPT !.ingested = time]
Restarted(s, inbox, draft) ==
    [s EXCEPT !.pc = "idle", !.inbox = inbox, !.rule = 0, !.draft = draft]

LEMMA MovedState ==
    ASSUME NEW s, IsState(s), NEW rule, NEW pc
    PROVE  LET t == Moved(s, rule, pc)
           IN  /\ IsState(t)
               /\ t.rule = rule
               /\ t.pc = pc /\ t.inbox = s.inbox /\ t.draft = s.draft /\ t.ingested = s.ingested
  <1> DEFINE t == Moved(s, rule, pc)
  <1>1. s \in State({s.pc, pc}, {s.inbox}, {s.rule, rule}, {s.draft}, {s.ingested})
    BY DEF State, IsState
  <1>2. t \in State({s.pc, pc}, {s.inbox}, {s.rule, rule}, {s.draft}, {s.ingested})
    BY <1>1 DEF State, Moved
  <1>3. t.pc = pc /\ t.inbox = s.inbox /\ t.draft = s.draft /\ t.ingested = s.ingested
    BY <1>1 DEF State, Moved
  <1>4. t.rule = rule
    BY <1>1 DEF State, Moved
  <1> QED
    BY <1>2, <1>3, <1>4, StateOfTypes

LEMMA StateWithPc ==
    ASSUME NEW s, IsState(s), NEW pc
    PROVE  LET t == WithPc(s, pc)
           IN  /\ IsState(t)
               /\ t.rule = s.rule
               /\ t.pc = pc /\ t.inbox = s.inbox /\ t.draft = s.draft /\ t.ingested = s.ingested
  <1> DEFINE t == WithPc(s, pc)
  <1>1. s \in State({s.pc, pc}, {s.inbox}, {s.rule}, {s.draft}, {s.ingested})
    BY DEF State, IsState
  <1>2. t \in State({s.pc, pc}, {s.inbox}, {s.rule}, {s.draft}, {s.ingested})
    BY <1>1 DEF State, WithPc
  <1>3. t.pc = pc /\ t.inbox = s.inbox /\ t.draft = s.draft /\ t.ingested = s.ingested
    BY <1>1 DEF State, WithPc
  <1>4. t.rule = s.rule
    BY <1>1 DEF State, WithPc
  <1> QED
    BY <1>2, <1>3, <1>4, StateOfTypes

LEMMA StateWithDraft ==
    ASSUME NEW s, IsState(s), NEW draft
    PROVE  LET t == WithDraft(s, draft)
           IN  /\ IsState(t)
               /\ t.rule = s.rule
               /\ t.pc = s.pc /\ t.inbox = s.inbox /\ t.draft = draft /\ t.ingested = s.ingested
  <1> DEFINE t == WithDraft(s, draft)
  <1>1. s \in State({s.pc}, {s.inbox}, {s.rule}, {s.draft, draft}, {s.ingested})
    BY DEF State, IsState
  <1>2. t \in State({s.pc}, {s.inbox}, {s.rule}, {s.draft, draft}, {s.ingested})
    BY <1>1 DEF State, WithDraft
  <1>3. t.pc = s.pc /\ t.inbox = s.inbox /\ t.draft = draft /\ t.ingested = s.ingested
    BY <1>1 DEF State, WithDraft
  <1>4. t.rule = s.rule
    BY <1>1 DEF State, WithDraft
  <1> QED
    BY <1>2, <1>3, <1>4, StateOfTypes

LEMMA StateWithTime ==
    ASSUME NEW s, IsState(s), NEW time
    PROVE  LET t == WithTime(s, time)
           IN  /\ IsState(t)
               /\ t.rule = s.rule
               /\ t.pc = s.pc /\ t.inbox = s.inbox /\ t.draft = s.draft /\ t.ingested = time
  <1> DEFINE t == WithTime(s, time)
  <1>1. s \in State({s.pc}, {s.inbox}, {s.rule}, {s.draft}, {s.ingested, time})
    BY DEF State, IsState
  <1>2. t \in State({s.pc}, {s.inbox}, {s.rule}, {s.draft}, {s.ingested, time})
    BY <1>1 DEF State, WithTime
  <1>3. t.pc = s.pc /\ t.inbox = s.inbox /\ t.draft = s.draft /\ t.ingested = time
    BY <1>1 DEF State, WithTime
  <1>4. t.rule = s.rule
    BY <1>1 DEF State, WithTime
  <1> QED
    BY <1>2, <1>3, <1>4, StateOfTypes

LEMMA RestartedState ==
    ASSUME NEW s, IsState(s), NEW inbox, NEW draft
    PROVE  LET t == Restarted(s, inbox, draft)
           IN  /\ IsState(t)
               /\ t.rule = 0
               /\ t.pc = "idle" /\ t.inbox = inbox /\ t.draft = draft /\ t.ingested = s.ingested
  <1> DEFINE t == Restarted(s, inbox, draft)
  <1>1. s \in State({s.pc, "idle"}, {s.inbox, inbox}, {s.rule, 0}, {s.draft, draft},
                    {s.ingested})
    BY DEF State, IsState
  <1>2. t \in State({s.pc, "idle"}, {s.inbox, inbox}, {s.rule, 0}, {s.draft, draft},
                    {s.ingested})
    BY <1>1 DEF State, Restarted
  <1>3. t.pc = "idle" /\ t.inbox = inbox
    BY <1>1 DEF State, Restarted
  <1>4. t.draft = draft /\ t.ingested = s.ingested
    BY <1>1 DEF State, Restarted
  <1>6. t.rule = 0
    BY <1>1 DEF State, Restarted
  <1>5. IsState(t)
    BY <1>2, StateOfTypes
  <1> QED
    BY <1>3, <1>4, <1>5, <1>6

\* AtRule moves to another rule, and changes nothing else.
LEMMA AtRuleState ==
    ASSUME NEW s, IsState(s), NEW e, NEW i
    PROVE  /\ IsState(AtRule(s, e, i))
           /\ AtRule(s, e, i).inbox = s.inbox
           /\ AtRule(s, e, i).draft = s.draft
           /\ AtRule(s, e, i).ingested = s.ingested
           /\ AtRule(s, e, i).rule = NextRule(e, i)
           /\ AtRule(s, e, i).pc = IF NextRule(e, i) > Len(Rules) THEN "evaluated"
                                   ELSE IF Rules[NextRule(e, i)].type = "match" THEN "raise"
                                   ELSE "record"
           /\ AtRule(s, e, i).pc \in {"record", "raise", "evaluated"}
  <1> DEFINE next == NextRule(e, i)
             pc == IF next > Len(Rules) THEN "evaluated"
                   ELSE IF Rules[next].type = "match" THEN "raise" ELSE "record"
  <1>1. AtRule(s, e, i) = Moved(s, next, pc)
    BY Zenon DEF AtRule, Moved
  <1>2. pc \in {"record", "raise", "evaluated"}
    OBVIOUS
  <1>3. LET t == Moved(s, next, pc)
        IN  /\ IsState(t) /\ t.rule = next
            /\ t.pc = pc /\ t.inbox = s.inbox /\ t.draft = s.draft /\ t.ingested = s.ingested
    <2> HIDE DEF next, pc
    <2> QED
      BY MovedState
  <1> QED
    BY <1>1, <1>2, <1>3, Zenon

LEMMA BeginMessageState ==
    ASSUME NEW inbox
    PROVE  /\ IsState(BeginMessage(inbox))
           /\ BeginMessage(inbox).inbox = inbox
           /\ BeginMessage(inbox).draft = {}
           /\ BeginMessage(inbox).ingested = 0
           /\ BeginMessage(inbox).pc \in {"idle", "record", "raise", "evaluated"}
           /\ BeginMessage(inbox).pc # "idle" => inbox # << >>
  <1>1. CASE inbox = << >>
    BY <1>1, IdleState DEF BeginMessage
  <1>2. CASE inbox # << >>
    <2> DEFINE s == [Idle EXCEPT !.inbox = inbox]
    <2>1. s \in State({"idle"}, {inbox}, {0}, {{}}, {0}) /\ s.inbox = inbox
                /\ s.draft = {} /\ s.ingested = 0
      BY DEF Idle, State
    <2>2. IsState(s)
      BY <2>1, StateOfTypes
    <2>3. BeginMessage(inbox) = AtRule(s, stream[Head(inbox)].event, 0)
      BY <1>2 DEF BeginMessage
    <2> HIDE DEF s
    <2> QED
      BY <1>2, <2>1, <2>2, <2>3, AtRuleState
  <1> QED
    BY <1>1, <1>2

-----------------------------------------------------------------------------
\* Lemmas about groups of actions

\* The stream only grows, and a publisher that is still up has added the message.
LEMMA PublishedMessage ==
    ASSUME Types, NEW m \in Message, PublishMessage(m)
    PROVE  /\ stream' \in Seq(Message) /\ Len(stream) <= Len(stream')
           /\ \A n \in 1 .. Len(stream) : stream'[n] = stream[n]
           /\ publisherUp' \in BOOLEAN
           /\ publisherUp' => /\ publisherUp
                              /\ \E n \in 1 .. Len(stream') : stream'[n] = m
  <1>1. PICK o \in PublishOutcomes(m) : stream' = stream \o o.sent /\ publisherUp' = o.up
    BY DEF PublishMessage
  <1>2. /\ o.sent = << >> \/ o.sent = <<m>>
        /\ o.up \in BOOLEAN
        /\ o.up => publisherUp /\ o.sent = <<m>>
    <2>1. \/ publisherUp /\ o = [up |-> TRUE, sent |-> <<m>>]
          \/ ~publisherUp /\ o = [up |-> FALSE, sent |-> << >>]
          \/ o = [up |-> FALSE, sent |-> << >>]
          \/ o = [up |-> FALSE, sent |-> <<m>>]
      BY Zenon DEF PublishOutcomes, Types
    <2>2. \/ publisherUp /\ o.up = TRUE /\ o.sent = <<m>>
          \/ o.up = FALSE /\ (o.sent = << >> \/ o.sent = <<m>>)
      BY <2>1
    <2> QED
      BY <2>2
  <1>3. CASE o.sent = << >>
    <2>1. stream' = stream
      BY <1>1, <1>3 DEF Types
    <2> QED
      BY <1>1, <1>2, <1>3, <2>1 DEF Types
  <1>4. CASE o.sent = <<m>>
    <2>1. stream' = Append(stream, m)
      BY <1>1, <1>4 DEF Types
    <2>2. stream' \in Seq(Message) /\ Len(stream') = Len(stream) + 1
          /\ stream'[Len(stream) + 1] = m
          /\ \A n \in 1 .. Len(stream) : stream'[n] = stream[n]
      BY <2>1 DEF Types
    <2> QED
      BY <1>1, <1>2, <2>2 DEF Types
  <1> QED
    BY <1>2, <1>3, <1>4

\* A step of one process: its new record, beside a stream that at most grows.
LEMMA ProcessTypesKept ==
    ASSUME Types, stream' \in Seq(Message), Len(stream) <= Len(stream'),
           NEW p \in Process, NEW new, proc' = [proc EXCEPT ![p] = new],
           IsState(new), new.ingested \in Nat, new.pc # "idle" => new.inbox # << >>,
           p = simulator => new.inbox \in Seq(Event),
           p \in Worker => /\ new.inbox \in Seq(Nat)
                           /\ \A k \in 1 .. Len(new.inbox) :
                                 new.inbox[k] \in 1 .. Len(stream')
    PROVE  ProcessTypes'
  <1>1. proc'[p] = new /\ \A q \in Process : q # p => proc'[q] = proc[q]
    BY DEF Types, ProcessTypes
  <1>2. DOMAIN proc' = Process
    BY DEF Types, ProcessTypes
  <1>3. \A q \in Process :
            /\ IsState(proc'[q]) /\ proc'[q].ingested \in Nat
            /\ proc'[q].pc # "idle" => proc'[q].inbox # << >>
    BY <1>1 DEF Types, ProcessTypes
  <1>4. proc'[simulator].inbox \in Seq(Event)
    BY <1>1 DEF Types, ProcessTypes, Process
  <1>5. ASSUME NEW w \in Worker
        PROVE  /\ proc'[w].inbox \in Seq(Nat)
               /\ \A k \in 1 .. Len(proc'[w].inbox) : proc'[w].inbox[k] \in 1 .. Len(stream')
    <2>1. CASE w = p
      BY <1>1, <2>1
    <2>2. CASE w # p
      <3>1. proc'[w] = proc[w]
        BY <1>1, <2>2 DEF Process
      <3>2. Len(stream) \in Nat /\ Len(stream') \in Nat
        BY DEF Types
      <3>3. /\ proc[w].inbox \in Seq(Nat)
            /\ \A k \in 1 .. Len(proc[w].inbox) : proc[w].inbox[k] \in 1 .. Len(stream)
        BY DEF Types, ProcessTypes
      <3> QED
        BY <3>1, <3>2, <3>3
    <2> QED
      BY <2>1, <2>2
  <1> QED
    BY <1>2, <1>3, <1>4, <1>5 DEF ProcessTypes

LEMMA ProcessTypesUntouched ==
    ASSUME Types, stream' \in Seq(Message), Len(stream) <= Len(stream'), UNCHANGED proc
    PROVE  ProcessTypes'
  <1>1. Len(stream) \in Nat /\ Len(stream') \in Nat
    BY DEF Types
  <1>2. ASSUME NEW w \in Worker, NEW k \in 1 .. Len(proc[w].inbox)
        PROVE  proc[w].inbox[k] \in 1 .. Len(stream')
    <2>1. proc[w].inbox[k] \in 1 .. Len(stream)
      BY <1>2 DEF Types, ProcessTypes
    <2> QED
      BY <1>1, <2>1
  <1> QED
    BY <1>2 DEF Types, ProcessTypes

\* What a step of an evaluation does to the record of its process.
Evaluates(p, new) ==
    /\ proc' = [proc EXCEPT ![p] = new]
    /\ IsState(new) /\ new.inbox = proc[p].inbox /\ new.ingested = proc[p].ingested
    /\ proc[p].pc \in {"record", "trim", "raise"}
    /\ new.pc \in {"record", "trim", "raise", "evaluated"}
    /\ \/ new.draft = proc[p].draft
       \/ \E a : /\ new.draft = proc[p].draft \cup {a}
                 /\ a.by = p /\ a.ingested = Current(p).ingested
                 /\ ~Suppressed(p, a.rule, a.event)

LEMMA FinishStep ==
    ASSUME Types, NEW p \in Process, proc[p].pc \in {"record", "trim", "raise"},
           NEW matched, NEW marks, NEW source, Finish(p, matched, marks, source)
    PROVE  \E new : Evaluates(p, new)
  <1> DEFINE m == Current(p)
             i == proc[p].rule
             raised == Raised(p, i, m, matched, marks, source)
             saved == WithDraft(proc[p], proc[p].draft \cup raised)
             new == AtRule(saved, m.event, i)
  <1>1. proc' = [proc EXCEPT ![p] = new]
    BY Zenon DEF Finish, WithDraft, Types, ProcessTypes
  <1>2. IsState(proc[p])
    BY DEF Types, ProcessTypes
  <1>3. /\ IsState(saved) /\ saved.inbox = proc[p].inbox /\ saved.ingested = proc[p].ingested
        /\ saved.draft = proc[p].draft \cup raised
    BY <1>2, StateWithDraft
  <1>4. \/ raised = {}
        \/ \E a : /\ raised = {a}
                  /\ a.by = p /\ a.ingested = m.ingested
                  /\ ~Suppressed(p, a.rule, a.event)
    <2> DEFINE a == [rule |-> i, event |-> m.event, ingested |-> m.ingested, by |-> p,
                     matched |-> matched, source |-> source]
    <2>1. raised = {} \/ (raised = {a} /\ ~Suppressed(p, i, m.event))
      BY Zenon DEF Raised
    <2>2. a.by = p /\ a.ingested = m.ingested /\ a.rule = i /\ a.event = m.event
      OBVIOUS
    <2> HIDE DEF a, raised, m, i
    <2>3. ~Suppressed(p, i, m.event) => ~Suppressed(p, a.rule, a.event)
      BY <2>2
    <2> QED
      BY <2>1, <2>2, <2>3, Zenon
  <1> HIDE DEF saved, raised
  <1>5. /\ IsState(new) /\ new.inbox = saved.inbox /\ new.ingested = saved.ingested
        /\ new.draft = saved.draft /\ new.pc \in {"record", "raise", "evaluated"}
    BY <1>3, AtRuleState
  <1> HIDE DEF new
  <1>6. \/ new.draft = proc[p].draft
        \/ \E a : /\ new.draft = proc[p].draft \cup {a}
                  /\ a.by = p /\ a.ingested = Current(p).ingested
                  /\ ~Suppressed(p, a.rule, a.event)
    BY <1>3, <1>4, <1>5
  <1> QED
    BY <1>1, <1>3, <1>5, <1>6 DEF Evaluates

\* An evaluation touches the windows, the memory and its own process.
LEMMA EvaluationStep ==
    ASSUME Types, NEW p \in Process, Evaluate(p) \/ CounterFails(p)
    PROVE  /\ \E new : Evaluates(p, new)
           /\ UNCHANGED <<ingestVars, alerts, streamVars, timeVars>>
  <1>1. ASSUME NEW pc \in {"trim", "raise"}, proc[p].pc \in {"record", "trim", "raise"},
               proc' = [proc EXCEPT ![p] = WithPc(proc[p], pc)]
        PROVE  \E new : Evaluates(p, new)
    <2> DEFINE new == WithPc(proc[p], pc)
    <2>1. IsState(proc[p])
      BY DEF Types, ProcessTypes
    <2>2. /\ IsState(new) /\ new.pc = pc /\ new.inbox = proc[p].inbox
          /\ new.draft = proc[p].draft /\ new.ingested = proc[p].ingested
      BY <2>1, StateWithPc
    <2> HIDE DEF new
    <2>3. proc' = [proc EXCEPT ![p] = new]
      BY <1>1 DEF new
    <2>4. Evaluates(p, new)
      BY <1>1, <2>2, <2>3 DEF Evaluates
    <2> QED
      BY <2>4
  <1>2. CASE Record(p)
    <2>1. proc[p].pc = "record" /\ proc' = [proc EXCEPT ![p] = WithPc(proc[p], "trim")]
      BY <1>2, Zenon DEF Record, WithPc, Types, ProcessTypes
    <2> QED
      BY <1>1, <1>2, <2>1 DEF Record
  <1>3. CASE Trim(p)
    <2>1. proc[p].pc = "trim" /\ proc' = [proc EXCEPT ![p] = WithPc(proc[p], "raise")]
      BY <1>3, Zenon DEF Trim, WithPc, Types, ProcessTypes
    <2> QED
      BY <1>1, <1>3, <2>1 DEF Trim
  <1>4. CASE Raise(p)
    BY <1>4, FinishStep DEF Raise
  <1>5. CASE FallBack(p)
    BY <1>5, FinishStep DEF FallBack, CountInMemory
  <1>6. CASE CounterFails(p)
    <2>1. proc[p].pc \in {"record", "trim", "raise"}
      BY <1>6 DEF CounterFails
    <2>2. CountInMemory(p)
      BY <1>6 DEF CounterFails
    <2>3. \E new : Evaluates(p, new)
      BY <2>1, <2>2, FinishStep DEF CountInMemory
    <2> QED
      BY <1>6, <2>3 DEF CounterFails
  <1> QED
    BY <1>2, <1>3, <1>4, <1>5, <1>6 DEF Evaluate

\* What is left of an inbox are messages it had before.
LEMMA TailOfInbox ==
    ASSUME NEW S, NEW s \in Seq(S), s # << >>
    PROVE  /\ Tail(s) \in Seq(S) /\ Len(Tail(s)) = Len(s) - 1 /\ Len(s) \in Nat \ {0}
           /\ Head(s) = s[1] /\ Head(s) \in S
           /\ \A k \in 1 .. Len(Tail(s)) : Tail(s)[k] = s[k + 1]
OBVIOUS

\* A worker goes on with the messages that are left to it, none of them unheard of.
LEMMA NextMessageTypes ==
    ASSUME Types, UNCHANGED stream, NEW w \in Worker,
           NEW inbox \in Seq(Nat), \A k \in 1 .. Len(inbox) : inbox[k] \in 1 .. Len(stream),
           proc' = [proc EXCEPT ![w] = BeginMessage(inbox)]
    PROVE  ProcessTypes'
  <1> DEFINE new == BeginMessage(inbox)
  <1>1. /\ IsState(new) /\ new.inbox = inbox /\ new.ingested = 0
        /\ new.pc # "idle" => inbox # << >>
    BY BeginMessageState
  <1> HIDE DEF new
  <1>2. proc' = [proc EXCEPT ![w] = new]
    BY DEF new
  <1>3. w \in Process /\ w # simulator
    BY ProcessAssumption DEF Process
  <1>4. stream' \in Seq(Message) /\ Len(stream) <= Len(stream')
    BY DEF Types
  <1>5. new.inbox \in Seq(Nat) /\ \A k \in 1 .. Len(new.inbox) : new.inbox[k] \in 1 .. Len(stream')
    BY <1>1
  <1>6. new.ingested \in Nat /\ (new.pc # "idle" => new.inbox # << >>)
    BY <1>1
  <1>7. IsState(new)
    BY <1>1
  <1> QED
    BY <1>2, <1>3, <1>4, <1>5, <1>6, <1>7, ProcessTypesKept

\* Every message that a worker holds is of the stream.
LEMMA InboxOfWorker ==
    ASSUME Types, NEW w \in Worker
    PROVE  /\ proc[w].inbox \in Seq(Nat)
           /\ \A k \in 1 .. Len(proc[w].inbox) : proc[w].inbox[k] \in 1 .. Len(stream)
           /\ proc[w].pc # "idle" => proc[w].inbox # << >>
BY DEF Types, ProcessTypes, Process

\* The time an alert gets is that of a message.
LEMMA CurrentTime ==
    ASSUME Types, NEW p \in Process, proc[p].pc # "idle"
    PROVE  Current(p).ingested \in Nat
  <1>1. CASE p = simulator
    BY <1>1 DEF Current, Normalize, Types, ProcessTypes
  <1>2. CASE p # simulator
    <2>1. p \in Worker
      BY <1>2 DEF Process
    <2>2. Head(proc[p].inbox) \in 1 .. Len(stream)
      BY <2>1, InboxOfWorker, TailOfInbox
    <2>3. stream[Head(proc[p].inbox)] \in Message
      BY <2>2 DEF Types
    <2> QED
      BY <1>2, <2>3 DEF Current, Message
  <1> QED
    BY <1>1, <1>2

-----------------------------------------------------------------------------
\* The types

LEMMA PayloadTypes ==
    ASSUME Types, NEW q \in Request, request[q].pc # "ready"
    PROVE  Payload(q) \in Seq(Event) /\ Len(Payload(q)) \in Nat
  <1>1. request[q].tries \in 1 .. MaxTries
    BY BoundAssumption DEF Types, RequestTypes
  <1>2. Payload(q) \in Seq(Event)
    BY <1>1, BatchAssumption DEF Payload
  <1> QED
    BY <1>2

LEMMA IngestTypes ==
    ASSUME Types, NEW q \in Request,
           Save(q) \/ Publish(q) \/ CommitIngest(q) \/ FailIngest(q)
    PROVE  Types'
  <1>1. /\ request[q] \in [pc : {"ready", "saved", "accepted"}, sent : Nat,
                           tries : 0 .. MaxTries, ingested : Nat]
        /\ request \in [Request -> [pc : {"ready", "saved", "accepted"}, sent : Nat,
                                    tries : 0 .. MaxTries, ingested : Nat]]
        /\ clock \in Nat /\ MaxTries \in Nat
    BY BoundAssumption DEF Types, RequestTypes
  <1>2. CASE Save(q)
    <2> DEFINE tries == request[q].tries + 1
               new == [pc |-> "saved", sent |-> 0, tries |-> tries, ingested |-> clock + 1]
    <2>1. request' = [request EXCEPT ![q] = new] /\ request[q].tries < MaxTries
      BY <1>2, Zenon DEF Save
    <2>2. tries \in 1 .. MaxTries
      BY <1>1, <2>1
    <2>3. Len(Batch[q][tries]) \in Nat
      <3>1. Batch[q][tries] \in Seq(Event)
        BY <2>2, BatchAssumption
      <3> QED
        BY <3>1
    <2> HIDE DEF tries
    <2>4. new \in [pc : {"ready", "saved", "accepted"}, sent : Nat, tries : 0 .. MaxTries,
                   ingested : Nat]
      BY <1>1, <2>2
    <2>5. new.tries = tries /\ new.sent = 0
      OBVIOUS
    <2> HIDE DEF new
    <2>6. ASSUME NEW r \in Request, request'[r].pc # "ready"
          PROVE  request'[r].tries # 0 /\ request'[r].sent <= Len(Payload(r)')
      <3>1. CASE r = q
        <4>1. request'[r] = new /\ Payload(r)' = Batch[q][tries]
          BY <1>1, <2>1, <2>5, <3>1 DEF Payload
        <4> QED
          BY <2>2, <2>3, <2>5, <4>1
      <3>2. CASE r # q
        <4>1. request'[r] = request[r] /\ Payload(r)' = Payload(r)
          BY <1>1, <2>1, <3>2 DEF Payload
        <4> QED
          BY <2>6, <4>1 DEF Types, RequestTypes
      <3> QED
        BY <3>1, <3>2
    <2>7. RequestTypes'
      BY <1>1, <2>1, <2>4, <2>6 DEF RequestTypes
    <2>8. ProcessTypes'
      BY <1>2, ProcessTypesUntouched DEF Save, streamVars, Types
    <2> QED
      BY <1>2, <2>7, <2>8 DEF Save, Types, streamVars
  <1>3. CASE Publish(q)
    <2>0. Payload(q) \in Seq(Event) /\ Len(Payload(q)) \in Nat
      BY <1>3, PayloadTypes DEF Publish
    <2>1. Normalize(Payload(q)[request[q].sent + 1], request[q].ingested) \in Message
      BY <1>1, <1>3, <2>0 DEF Publish, Normalize, Message
    <2>2. /\ stream' \in Seq(Message) /\ Len(stream) <= Len(stream') /\ publisherUp' \in BOOLEAN
      BY <1>3, <2>1, PublishedMessage DEF Publish
    <2>3. RequestTypes'
      <3>1. request' = [request EXCEPT ![q].sent = @ + 1] /\ request[q].sent < Len(Payload(q))
        BY <1>3 DEF Publish
      <3>2. request' \in [Request -> [pc : {"ready", "saved", "accepted"}, sent : Nat,
                                     tries : 0 .. MaxTries, ingested : Nat]]
        <4> DEFINE new == [request[q] EXCEPT !.sent = request[q].sent + 1]
        <4>1. request' = [request EXCEPT ![q] = new]
          BY <3>1, Zenon
        <4>2. new \in [pc : {"ready", "saved", "accepted"}, sent : Nat, tries : 0 .. MaxTries,
                       ingested : Nat]
          <5>1. request[q] \in [pc : {"ready", "saved", "accepted"}, sent : Nat, tries : 0 .. MaxTries,
                                ingested : Nat]
            BY <1>1
          <5>2. request[q].sent + 1 \in Nat
            BY <5>1
          <5> QED
            BY <5>1, <5>2
        <4> HIDE DEF new
        <4> QED
          BY <1>1, <4>1, <4>2
      <3>3. ASSUME NEW r \in Request, request'[r].pc # "ready"
            PROVE  request'[r].tries # 0 /\ request'[r].sent <= Len(Payload(r)')
        <4>1. /\ request'[r].pc = request[r].pc /\ request'[r].tries = request[r].tries
              /\ request'[r].sent = IF r = q THEN request[q].sent + 1 ELSE request[r].sent
          BY <1>1, <3>1
        <4>2. Payload(r)' = Payload(r)
          BY <4>1 DEF Payload
        <4>3. request[r].tries # 0 /\ request[r].sent <= Len(Payload(r))
          BY <3>3, <4>1 DEF Types, RequestTypes
        <4> QED
          BY <1>1, <2>0, <3>1, <4>1, <4>2, <4>3
      <3> QED
        BY <3>2, <3>3 DEF RequestTypes
    <2>4. ProcessTypes'
      BY <1>3, <2>2, ProcessTypesUntouched DEF Publish
    <2>5. delivered \in 0 .. Len(stream')
      BY <2>2 DEF Types
    <2> QED
      BY <1>3, <2>2, <2>3, <2>4, <2>5 DEF Publish, Types, timeVars
  <1>4. CASE CommitIngest(q)
    <2>1. RequestTypes'
      <3>1. request[q].pc = "saved" /\ request' = [request EXCEPT ![q].pc = "accepted"]
        BY <1>4 DEF CommitIngest
      <3>2. ASSUME NEW x \in Request, request'[x].pc # "ready"
            PROVE  request'[x].tries # 0 /\ request'[x].sent <= Len(Payload(x)')
        <4>1. /\ request'[x].tries = request[x].tries /\ request'[x].sent = request[x].sent
              /\ request[x].pc # "ready"
          BY <1>1, <3>1, <3>2
        <4>2. Payload(x)' = Payload(x)
          BY <4>1 DEF Payload
        <4> QED
          BY <4>1, <4>2 DEF Types, RequestTypes
      <3> QED
        BY <1>1, <3>1, <3>2 DEF RequestTypes
    <2>2. ProcessTypes'
      BY <1>4, ProcessTypesUntouched DEF CommitIngest, streamVars, Types
    <2> QED
      BY <1>4, <2>1, <2>2 DEF CommitIngest, Types, streamVars, timeVars
  <1>5. CASE FailIngest(q)
    <2>1. RequestTypes'
      <3>1. request[q].pc = "saved" /\ request' = [request EXCEPT ![q].pc = "ready"]
        BY <1>5 DEF FailIngest
      <3>2. ASSUME NEW x \in Request, request'[x].pc # "ready"
            PROVE  request'[x].tries # 0 /\ request'[x].sent <= Len(Payload(x)')
        <4>1. /\ request'[x].tries = request[x].tries /\ request'[x].sent = request[x].sent
              /\ request[x].pc # "ready"
          BY <1>1, <3>1, <3>2
        <4>2. Payload(x)' = Payload(x)
          BY <4>1 DEF Payload
        <4> QED
          BY <4>1, <4>2 DEF Types, RequestTypes
      <3> QED
        BY <1>1, <3>1, <3>2 DEF RequestTypes
    <2>2. ProcessTypes'
      BY <1>5, ProcessTypesUntouched DEF FailIngest, streamVars, Types
    <2> QED
      BY <1>5, <2>1, <2>2 DEF FailIngest, Types, streamVars, timeVars
  <1> QED
    BY <1>2, <1>3, <1>4, <1>5

LEMMA EvaluationTypes ==
    ASSUME Types, NEW p \in Process, Evaluate(p) \/ CounterFails(p)
    PROVE  Types'
  <1>1. UNCHANGED <<ingestVars, alerts, streamVars, timeVars>>
    BY EvaluationStep
  <1>2. PICK new : Evaluates(p, new)
    BY EvaluationStep
  <1>3. /\ proc' = [proc EXCEPT ![p] = new]
        /\ IsState(new) /\ new.inbox = proc[p].inbox /\ new.ingested = proc[p].ingested
        /\ proc[p].pc # "idle"
    BY <1>2 DEF Evaluates
  <1>4. stream' = stream /\ stream' \in Seq(Message) /\ Len(stream) <= Len(stream')
    BY <1>1 DEF streamVars, Types
  <1>5. proc[p].ingested \in Nat /\ proc[p].inbox # << >>
    BY <1>3 DEF Types, ProcessTypes
  <1>6. p = simulator => new.inbox \in Seq(Event)
    BY <1>3 DEF Types, ProcessTypes
  <1>7. p \in Worker => /\ new.inbox \in Seq(Nat)
                        /\ \A k \in 1 .. Len(new.inbox) : new.inbox[k] \in 1 .. Len(stream')
    BY <1>3, <1>4, InboxOfWorker
  <1>8. ProcessTypes'
    BY <1>3, <1>4, <1>5, <1>6, <1>7, ProcessTypesKept
  <1> QED
    BY <1>1, <1>8 DEF Types, RequestTypes, Payload, ingestVars, streamVars, timeVars

LEMMA WorkerTypes ==
    ASSUME Types, DraftIsOwn, NEW w \in Worker,
           Read(w) \/ CommitMessage(w) \/ Ack(w) \/ Fail(w) \/ Crash(w)
    PROVE  Types'
  <1>1. w \in Process /\ w # simulator /\ DOMAIN proc = Process
    BY ProcessAssumption DEF Process, Types, ProcessTypes
  <1>2. UNCHANGED <<ingestVars, stream, timeVars>>
    BY DEF Read, CommitMessage, Ack, Fail, Crash, streamVars
  <1>3. ASSUME proc[w].pc # "idle"
        PROVE  /\ Tail(proc[w].inbox) \in Seq(Nat)
               /\ \A k \in 1 .. Len(Tail(proc[w].inbox)) :
                     Tail(proc[w].inbox)[k] \in 1 .. Len(stream)
    <2>1. /\ proc[w].inbox \in Seq(Nat) /\ proc[w].inbox # << >>
          /\ \A k \in 1 .. Len(proc[w].inbox) : proc[w].inbox[k] \in 1 .. Len(stream)
      BY <1>3, InboxOfWorker
    <2> DEFINE inbox == proc[w].inbox
    <2>2. /\ Tail(inbox) \in Seq(Nat) /\ Len(Tail(inbox)) = Len(inbox) - 1
          /\ Len(inbox) \in Nat \ {0}
          /\ \A k \in 1 .. Len(Tail(inbox)) : Tail(inbox)[k] = inbox[k + 1]
      BY <2>1, TailOfInbox
    <2>3. ASSUME NEW k \in 1 .. Len(Tail(inbox))
          PROVE  Tail(inbox)[k] \in 1 .. Len(stream)
      <3>1. k + 1 \in 1 .. Len(inbox) /\ Tail(inbox)[k] = inbox[k + 1]
        BY <2>2, <2>3
      <3> QED
        BY <2>1, <3>1
    <2> QED
      BY <2>2, <2>3
  <1>4. stream' \in Seq(Message) /\ Len(stream) <= Len(stream')
    BY <1>2 DEF Types
  <1>5. delivered' \in 0 .. Len(stream') /\ ProcessTypes'
    <2>1. CASE Read(w)
      <3> DEFINE last == Min({delivered + ReadCount, Len(stream)})
                 inbox == [n \in 1 .. last - delivered |-> delivered + n]
      <3>1. /\ delivered \in Nat /\ Len(stream) \in Nat /\ ReadCount \in Nat \ {0}
            /\ delivered < Len(stream)
        BY <2>1, BoundAssumption DEF Read, Types
      <3>2. last \in delivered + 1 .. Len(stream)
        <4>1. delivered + ReadCount \in Int /\ Len(stream) \in Int
          BY <3>1
        <4>2. /\ last \in {delivered + ReadCount, Len(stream)}
              /\ last <= delivered + ReadCount /\ last <= Len(stream)
          BY <4>1, MinOfTwo
        <4> HIDE DEF last
        <4> QED
          BY <3>1, <4>2
      <3>3. /\ proc' = [proc EXCEPT ![w] = BeginMessage(inbox)]
            /\ delivered' = last
        BY <2>1, Zenon DEF Read
      <3> HIDE DEF last
      <3>4. inbox \in Seq(Nat) /\ Len(inbox) = last - delivered
        BY <3>1, <3>2
      <3>5. \A k \in 1 .. Len(inbox) : inbox[k] \in 1 .. Len(stream)
        BY <3>1, <3>2, <3>4
      <3> HIDE DEF inbox
      <3>6. ProcessTypes'
        BY <1>2, <3>3, <3>4, <3>5, NextMessageTypes
      <3> QED
        BY <1>2, <3>1, <3>2, <3>3, <3>6
    <2>2. CASE CommitMessage(w)
      <3> DEFINE new == WithPc(proc[w], "committed")
      <3>1. proc' = [proc EXCEPT ![w] = new] /\ proc[w].pc = "evaluated"
        BY <2>2, Zenon DEF CommitMessage, WithPc
      <3>2. IsState(proc[w]) /\ proc[w].ingested \in Nat
        BY <1>1 DEF Types, ProcessTypes
      <3>3. IsState(new) /\ new.inbox = proc[w].inbox /\ new.ingested = proc[w].ingested
        BY <3>2, StateWithPc
      <3> HIDE DEF new
      <3>4. /\ new.inbox \in Seq(Nat) /\ new.inbox # << >>
            /\ \A k \in 1 .. Len(new.inbox) : new.inbox[k] \in 1 .. Len(stream')
        BY <1>2, <3>1, <3>3, InboxOfWorker
      <3>5. ProcessTypes'
        BY <1>1, <1>4, <3>1, <3>2, <3>3, <3>4, ProcessTypesKept
      <3> QED
        BY <1>2, <2>2, <3>5 DEF CommitMessage, Types
    <2>3. CASE Ack(w) \/ Fail(w)
      <3>1. /\ proc' = [proc EXCEPT ![w] = BeginMessage(Tail(proc[w].inbox))]
            /\ proc[w].pc # "idle" /\ delivered' = delivered
        BY <2>3 DEF Ack, Fail, streamVars
      <3>2. ProcessTypes'
        BY <1>2, <1>3, <3>1, NextMessageTypes
      <3> QED
        BY <1>2, <3>1, <3>2 DEF Types
    <2>4. CASE Crash(w)
      <3>1. proc' = [proc EXCEPT ![w] = Idle] /\ delivered' = delivered
        BY <2>4 DEF Crash, streamVars
      <3>2. Idle.inbox \in Seq(Nat) /\ \A k \in 1 .. Len(Idle.inbox) : FALSE
        BY IdleState
      <3>3. Idle.ingested \in Nat
        BY IdleState
      <3>4. ProcessTypes'
        BY <1>1, <1>4, <3>1, <3>2, <3>3, IdleState, ProcessTypesKept
      <3> QED
        BY <1>2, <3>1, <3>4 DEF Types
    <2> QED
      BY <2>1, <2>2, <2>3, <2>4
  <1>6. \A a \in alerts' : a.ingested \in Nat /\ a.by \in Process
    <2>1. \A a \in proc[w].draft : a.ingested \in Nat /\ a.by \in Process
      BY <1>1 DEF DraftIsOwn
    <2>2. alerts' \subseteq alerts \cup proc[w].draft
      BY DEF Read, CommitMessage, Ack, Fail, Crash
    <2> QED
      BY <2>1, <2>2 DEF Types
  <1> QED
    BY <1>2, <1>4, <1>5, <1>6 DEF Types, RequestTypes, Payload, ingestVars, timeVars

LEMMA ScenarioTypes ==
    ASSUME Types, DraftIsOwn, Inject \/ Injected \/ FailScenario
    PROVE  Types'
  <1> DEFINE state == proc[simulator]
  <1>1. /\ simulator \in Process /\ simulator \notin Worker /\ DOMAIN proc = Process
        /\ IsState(state) /\ state.inbox \in Seq(Event) /\ state.ingested \in Nat
        /\ clock \in Nat /\ stream \in Seq(Message)
    BY ProcessAssumption DEF Process, Types, ProcessTypes
  <1>2. CASE Inject
    <2> DEFINE timed == WithTime(state, clock + 1)
               new == AtRule(timed, Head(state.inbox), 0)
    <2>1. /\ proc' = [proc EXCEPT ![simulator] = new]
          /\ state.inbox # << >> /\ clock' = clock + 1
          /\ PublishMessage(Normalize(Head(state.inbox), clock + 1))
          /\ UNCHANGED <<request, alerts, delivered, expired>>
      BY <1>2, Zenon DEF Inject, WithTime
    <2>2. /\ IsState(timed) /\ timed.inbox = state.inbox /\ timed.ingested = clock + 1
      BY <1>1, StateWithTime
    <2> HIDE DEF timed
    <2>3. IsState(new) /\ new.inbox = state.inbox /\ new.ingested = clock + 1
      BY <2>2, AtRuleState
    <2> HIDE DEF new
    <2>4. Normalize(Head(state.inbox), clock + 1) \in Message
      BY <1>1, <2>1 DEF Normalize, Message
    <2>5. stream' \in Seq(Message) /\ Len(stream) <= Len(stream') /\ publisherUp' \in BOOLEAN
      BY <2>1, <2>4, PublishedMessage
    <2>6. clock + 1 \in Nat
      BY <1>1
    <2>7. ProcessTypes'
      BY <1>1, <2>1, <2>3, <2>5, <2>6, ProcessTypesKept
    <2>8. delivered \in 0 .. Len(stream')
      BY <2>5 DEF Types
    <2> QED
      BY <2>1, <2>5, <2>6, <2>7, <2>8 DEF Types, RequestTypes, Payload
  <1>3. CASE Injected
    <2> DEFINE rest == Tail(state.inbox)
               draft == IF rest = << >> THEN {} ELSE state.draft
               new == Restarted(state, rest, draft)
    <2>1. /\ proc' = [proc EXCEPT ![simulator] = new]
          /\ state.pc = "evaluated"
          /\ alerts' \subseteq alerts \cup state.draft
          /\ UNCHANGED <<request, publisherUp, streamVars, timeVars>>
      BY <1>3, Zenon DEF Injected, Restarted
    <2>2. state.inbox # << >>
      BY <1>1, <2>1 DEF Types, ProcessTypes
    <2>3. rest \in Seq(Event)
      BY <1>1, <2>2, TailOfInbox
    <2> HIDE DEF rest, draft
    <2>4. /\ IsState(new) /\ new.pc = "idle" /\ new.inbox = rest
          /\ new.ingested = state.ingested
      BY <1>1, RestartedState
    <2> HIDE DEF new
    <2>5. stream' \in Seq(Message) /\ Len(stream) <= Len(stream')
      BY <1>1, <2>1 DEF streamVars
    <2>6. ProcessTypes'
      BY <1>1, <2>1, <2>3, <2>4, <2>5, ProcessTypesKept
    <2>7. \A a \in alerts' : a.ingested \in Nat /\ a.by \in Process
      BY <1>1, <2>1 DEF Types, DraftIsOwn
    <2> QED
      BY <2>1, <2>5, <2>6, <2>7 DEF Types, RequestTypes, Payload, streamVars, timeVars
  <1>4. CASE FailScenario
    <2>1. proc' = [proc EXCEPT ![simulator] = Idle]
          /\ UNCHANGED <<ingestVars, alerts, streamVars, timeVars>>
      BY <1>4 DEF FailScenario
    <2>2. stream' \in Seq(Message) /\ Len(stream) <= Len(stream')
      BY <1>1, <2>1 DEF streamVars
    <2>3. Idle.inbox \in Seq(Event) /\ Idle.ingested \in Nat
      BY IdleState
    <2>4. ProcessTypes'
      BY <1>1, <2>1, <2>2, <2>3, IdleState, ProcessTypesKept
    <2> QED
      BY <2>1, <2>4 DEF Types, RequestTypes, Payload, ingestVars, streamVars, timeVars
  <1> QED
    BY <1>2, <1>3, <1>4

LEMMA ElapseTypes ==
    ASSUME Types, Elapse \/ UNCHANGED vars
    PROVE  Types'
  <1>1. ProcessTypes'
    BY ProcessTypesUntouched DEF Elapse, vars, streamVars, Types
  <1> QED
    BY <1>1 DEF Elapse, vars, Types, RequestTypes, Payload, ingestVars, streamVars, timeVars

-----------------------------------------------------------------------------
\* Commit before acknowledgement

LEMMA AckKept ==
    ASSUME Types, AckedIsCommitted, Acknowledging, NEW p \in Process, NEW new,
           proc' = [proc EXCEPT ![p] = new],
           processed \subseteq processed', acked' \subseteq processed',
           p \in Worker /\ new.pc = "committed" => Head(new.inbox) \in processed'
    PROVE  AckedIsCommitted' /\ Acknowledging'
  <1>1. proc'[p] = new /\ \A q \in Process : q # p => proc'[q] = proc[q]
    BY DEF Types, ProcessTypes
  <1>2. ASSUME NEW w \in Worker, proc'[w].pc = "committed"
        PROVE  Head(proc'[w].inbox) \in processed'
    <2>1. CASE w = p
      BY <1>1, <1>2, <2>1
    <2>2. CASE w # p
      BY <1>1, <1>2, <2>2 DEF Acknowledging, Process
    <2> QED
      BY <2>1, <2>2
  <1> QED
    BY <1>2 DEF AckedIsCommitted, Acknowledging

LEMMA AckStep ==
    ASSUME Types, AckedIsCommitted, Acknowledging, [Next]_vars
    PROVE  AckedIsCommitted' /\ Acknowledging'
  <1>1. ASSUME UNCHANGED <<acked, processed, proc>>
        PROVE  AckedIsCommitted' /\ Acknowledging'
    BY <1>1 DEF AckedIsCommitted, Acknowledging
  <1>2. ASSUME NEW q \in Request, Save(q) \/ Publish(q) \/ CommitIngest(q) \/ FailIngest(q)
        PROVE  UNCHANGED <<acked, processed, proc>>
    BY <1>2 DEF Save, Publish, CommitIngest, FailIngest, streamVars
  <1>3. ASSUME NEW p \in Process, Evaluate(p) \/ CounterFails(p)
        PROVE  AckedIsCommitted' /\ Acknowledging'
    <2>1. UNCHANGED <<acked, processed>>
      BY <1>3, EvaluationStep DEF streamVars
    <2>2. PICK new : Evaluates(p, new)
      BY <1>3, EvaluationStep
    <2>3. proc' = [proc EXCEPT ![p] = new] /\ new.pc # "committed"
      BY <2>2 DEF Evaluates
    <2> QED
      BY <2>1, <2>3, AckKept DEF AckedIsCommitted
  <1>4. ASSUME NEW w \in Worker, Read(w) \/ CommitMessage(w) \/ Ack(w) \/ Fail(w) \/ Crash(w)
        PROVE  AckedIsCommitted' /\ Acknowledging'
    <2>1. w \in Process
      BY DEF Process
    <2>2. CASE CommitMessage(w)
      <3> DEFINE new == WithPc(proc[w], "committed")
      <3>1. proc' = [proc EXCEPT ![w] = new]
        BY <2>2, Zenon DEF CommitMessage, WithPc
      <3>2. new.inbox = proc[w].inbox
        BY <2>1, StateWithPc DEF Types, ProcessTypes
      <3> HIDE DEF new
      <3>3. Head(new.inbox) \in processed' /\ processed \subseteq processed' /\ acked' = acked
        BY <2>2, <3>2 DEF CommitMessage
      <3> QED
        BY <2>1, <3>1, <3>3, AckKept DEF AckedIsCommitted
    <2>3. ASSUME NEW inbox, proc' = [proc EXCEPT ![w] = BeginMessage(inbox)],
                 processed' = processed, acked' \subseteq processed
          PROVE  AckedIsCommitted' /\ Acknowledging'
      <3>1. BeginMessage(inbox).pc # "committed"
        BY BeginMessageState
      <3> QED
        BY <2>1, <2>3, <3>1, AckKept
    <2>4. CASE Read(w)
      BY <2>3, <2>4 DEF Read, AckedIsCommitted
    <2>5. CASE Ack(w)
      <3>1. acked' \subseteq processed
        BY <2>5 DEF Ack, AckedIsCommitted, Acknowledging
      <3> QED
        BY <2>3, <2>5, <3>1 DEF Ack
    <2>6. CASE Fail(w)
      BY <2>3, <2>6 DEF Fail, streamVars, AckedIsCommitted
    <2>7. CASE Crash(w)
      BY <2>1, <2>7, IdleState, AckKept DEF Crash, streamVars, AckedIsCommitted
    <2> QED
      BY <1>4, <2>2, <2>4, <2>5, <2>6, <2>7
  <1>5. ASSUME Inject \/ Injected \/ FailScenario
        PROVE  AckedIsCommitted' /\ Acknowledging'
    <2>1. UNCHANGED <<acked, processed>>
      BY <1>5 DEF Inject, Injected, FailScenario, streamVars
    <2>2. \A w \in Worker : proc'[w] = proc[w]
      BY <1>5, ProcessAssumption DEF Inject, Injected, FailScenario, Types, ProcessTypes, Process
    <2> QED
      BY <2>1, <2>2 DEF AckedIsCommitted, Acknowledging
  <1>6. ASSUME Elapse \/ UNCHANGED vars
        PROVE  UNCHANGED <<acked, processed, proc>>
    BY <1>6 DEF Elapse, vars, streamVars
  <1> QED
    BY <1>1, <1>2, <1>3, <1>4, <1>5, <1>6 DEF Next, WorkerStep, Process

-----------------------------------------------------------------------------
\* Alerts within the time that alerts suppress

\* A process commits what it has saved, or drops it.
LEMMA FreshKept ==
    ASSUME Types, DraftIsOwn, OneFreshAlert, NEW p \in Process, NEW new,
           proc' = [proc EXCEPT ![p] = new],
           new.draft \subseteq proc[p].draft,
           alerts' \subseteq alerts \cup proc[p].draft, expired' = expired
    PROVE  DraftIsOwn' /\ OneFreshAlert'
  <1>1. proc'[p] = new /\ \A q \in Process : q # p => proc'[q] = proc[q]
    BY DEF Types, ProcessTypes
  <1>2. DraftIsOwn'
    BY <1>1 DEF DraftIsOwn
  <1>3. ASSUME NEW q \in Process, NEW a \in alerts' \cup proc'[q].draft, a.by = q
        PROVE  a \in alerts \cup proc[q].draft
    BY <1>1, <1>3 DEF DraftIsOwn
  <1>4. OneFreshAlert'
    BY <1>3 DEF OneFreshAlert
  <1> QED
    BY <1>2, <1>4

\* An evaluation saves an alert only if it sees no other of the rule and key.
LEMMA FreshEvaluation ==
    ASSUME Types, DraftIsOwn, OneFreshAlert, NEW p \in Process,
           Evaluate(p) \/ CounterFails(p)
    PROVE  DraftIsOwn' /\ OneFreshAlert'
  <1>1. alerts' = alerts /\ expired' = expired
    BY EvaluationStep DEF timeVars
  <1>2. PICK new : Evaluates(p, new)
    BY EvaluationStep
  <1>3. proc' = [proc EXCEPT ![p] = new] /\ proc[p].pc # "idle"
    BY <1>2 DEF Evaluates
  <1>4. CASE new.draft = proc[p].draft
    BY <1>1, <1>3, <1>4, FreshKept
  <1>5. CASE new.draft # proc[p].draft
    <2>1. PICK c : /\ new.draft = proc[p].draft \cup {c}
                   /\ c.by = p /\ c.ingested = Current(p).ingested
                   /\ ~Suppressed(p, c.rule, c.event)
      BY <1>2, <1>5 DEF Evaluates
    <2>2. c.ingested \in Nat
      BY <1>3, <2>1, CurrentTime
    <2>3. proc'[p] = new /\ \A q \in Process : q # p => proc'[q] = proc[q]
      BY <1>3 DEF Types, ProcessTypes
    <2>4. DraftIsOwn'
      BY <2>1, <2>2, <2>3 DEF DraftIsOwn
    <2>5. ASSUME NEW a \in alerts \cup proc[p].draft,
                 a.rule = c.rule, SameKey(Rules[c.rule], a.event, c.event),
                 a.ingested > expired
          PROVE  FALSE
      BY <2>1, <2>5 DEF Suppressed
    <2>6. ASSUME NEW q \in Process,
                 NEW a \in alerts' \cup proc'[q].draft, NEW b \in alerts' \cup proc'[q].draft,
                 a.rule = b.rule, SameKey(Rules[a.rule], a.event, b.event),
                 a.by = q, b.by = q, a.ingested > expired, b.ingested > expired
          PROVE  a = b
      <3>1. CASE q # p
        BY <1>1, <2>3, <2>6, <3>1 DEF OneFreshAlert
      <3>2. CASE q = p
        <4>1. a \in alerts \cup proc[p].draft \cup {c} /\ b \in alerts \cup proc[p].draft \cup {c}
          BY <1>1, <2>1, <2>3, <2>6, <3>2
        <4>2. CASE a = c /\ b # c
          <5>1. SameKey(Rules[c.rule], b.event, c.event)
            BY <2>6, <4>2 DEF SameKey
          <5> QED
            BY <2>5, <2>6, <4>1, <4>2, <5>1
        <4>3. CASE a # c /\ b = c
          BY <2>5, <2>6, <4>1, <4>3
        <4>4. CASE a # c /\ b # c
          BY <2>6, <3>2, <4>1, <4>4 DEF OneFreshAlert
        <4> QED
          BY <4>2, <4>3, <4>4
      <3> QED
        BY <3>1, <3>2
    <2>7. OneFreshAlert'
      BY <1>1, <2>6 DEF OneFreshAlert
    <2> QED
      BY <2>4, <2>7
  <1> QED
    BY <1>4, <1>5

LEMMA FreshStep ==
    ASSUME Types, DraftIsOwn, OneFreshAlert, [Next]_vars
    PROVE  DraftIsOwn' /\ OneFreshAlert'
  <1>1. ASSUME UNCHANGED <<alerts, proc, expired>>
        PROVE  DraftIsOwn' /\ OneFreshAlert'
    BY <1>1 DEF DraftIsOwn, OneFreshAlert
  <1>2. ASSUME NEW q \in Request, Save(q) \/ Publish(q) \/ CommitIngest(q) \/ FailIngest(q)
        PROVE  UNCHANGED <<alerts, proc, expired>>
    BY <1>2 DEF Save, Publish, CommitIngest, FailIngest, timeVars
  <1>3. ASSUME NEW w \in Worker, Read(w) \/ CommitMessage(w) \/ Ack(w) \/ Fail(w) \/ Crash(w)
        PROVE  DraftIsOwn' /\ OneFreshAlert'
    <2>1. w \in Process /\ expired' = expired
      BY <1>3 DEF Process, Read, CommitMessage, Ack, Fail, Crash, timeVars
    <2>2. CASE CommitMessage(w)
      <3> DEFINE new == WithPc(proc[w], "committed")
      <3>1. proc' = [proc EXCEPT ![w] = new]
        BY <2>2, Zenon DEF CommitMessage, WithPc
      <3>2. new.draft = proc[w].draft
        BY <2>1, StateWithPc DEF Types, ProcessTypes
      <3> HIDE DEF new
      <3> QED
        BY <2>1, <2>2, <3>1, <3>2, FreshKept DEF CommitMessage
    <2>3. CASE Read(w) \/ Ack(w) \/ Fail(w)
      <3>1. PICK inbox : proc' = [proc EXCEPT ![w] = BeginMessage(inbox)]
        BY <2>3, Zenon DEF Read, Ack, Fail
      <3>2. BeginMessage(inbox).draft = {}
        BY BeginMessageState
      <3>3. alerts' = alerts
        BY <2>3 DEF Read, Ack, Fail
      <3> QED
        BY <2>1, <3>1, <3>2, <3>3, FreshKept
    <2>4. CASE Crash(w)
      BY <2>1, <2>4, IdleState, FreshKept DEF Crash
    <2> QED
      BY <1>3, <2>2, <2>3, <2>4
  <1>4. ASSUME Inject \/ Injected \/ FailScenario
        PROVE  DraftIsOwn' /\ OneFreshAlert'
    <2>1. simulator \in Process /\ IsState(proc[simulator])
          /\ expired' = expired
      BY <1>4 DEF Process, Types, ProcessTypes, Inject, Injected, FailScenario, timeVars
    <2>2. CASE Inject
      <3> DEFINE timed == WithTime(proc[simulator], clock + 1)
                 new == AtRule(timed, Head(proc[simulator].inbox), 0)
      <3>1. proc' = [proc EXCEPT ![simulator] = new] /\ alerts' = alerts
        BY <2>2, Zenon DEF Inject, WithTime
      <3>2. IsState(timed) /\ timed.draft = proc[simulator].draft
        BY <2>1, StateWithTime
      <3> HIDE DEF timed
      <3>3. new.draft = proc[simulator].draft
        BY <3>2, AtRuleState
      <3> HIDE DEF new
      <3> QED
        BY <2>1, <3>1, <3>3, FreshKept
    <2>3. CASE Injected
      <3> DEFINE rest == Tail(proc[simulator].inbox)
                 draft == IF rest = << >> THEN {} ELSE proc[simulator].draft
                 new == Restarted(proc[simulator], rest, draft)
      <3>1. /\ proc' = [proc EXCEPT ![simulator] = new]
            /\ alerts' \subseteq alerts \cup proc[simulator].draft
        BY <2>3, Zenon DEF Injected, Restarted
      <3>2. draft \subseteq proc[simulator].draft
        OBVIOUS
      <3> HIDE DEF draft
      <3>3. new.draft = draft
        BY <2>1, RestartedState
      <3> HIDE DEF new
      <3> QED
        BY <2>1, <3>1, <3>2, <3>3, FreshKept
    <2>4. CASE FailScenario
      BY <2>1, <2>4, IdleState, FreshKept DEF FailScenario
    <2> QED
      BY <1>4, <2>2, <2>3, <2>4
  <1>5. CASE Elapse
    <2>1. /\ alerts' = alerts /\ proc' = proc /\ expired \in Nat /\ expired' = expired + 1
      BY <1>5 DEF Elapse, Types
    <2>2. ASSUME NEW p \in Process, NEW a \in alerts \cup proc[p].draft, a.ingested > expired'
          PROVE  a.ingested > expired
      BY <2>1, <2>2 DEF Types, DraftIsOwn
    <2> QED
      BY <2>1, <2>2 DEF DraftIsOwn, OneFreshAlert
  <1>6. CASE UNCHANGED vars
    BY <1>1, <1>6 DEF vars, timeVars
  <1> QED
    BY <1>1, <1>2, <1>3, <1>4, <1>5, <1>6, FreshEvaluation DEF Next, WorkerStep, Process

-----------------------------------------------------------------------------
\* What is stored is in the stream

StreamGrows ==
    /\ stream \in Seq(Message) /\ stream' \in Seq(Message) /\ Len(stream) <= Len(stream')
    /\ \A n \in 1 .. Len(stream) : stream'[n] = stream[n]

LEMMA StillPublished ==
    ASSUME StreamGrows, NEW e, Published(e)
    PROVE  Published(e)'
  <1>1. PICK n \in 1 .. Len(stream) : stream[n].event = e
    BY DEF Published, Messages
  <1>2. n \in 1 .. Len(stream') /\ stream'[n].event = e
    BY <1>1 DEF StreamGrows
  <1> QED
    BY <1>2 DEF Published, Messages

LEMMA EventsKept ==
    ASSUME StreamGrows, StoredIsPublished, publisherUp' => publisherUp, UNCHANGED events
    PROVE  StoredIsPublished'
  <1>1. ASSUME publisherUp', NEW e \in events
        PROVE  Published(e)'
    BY <1>1, StillPublished DEF StoredIsPublished, Published
  <1> QED
    BY <1>1 DEF StoredIsPublished, Published

LEMMA RequestsKept ==
    ASSUME StreamGrows, publisherUp => RequestPublished, publisherUp' => publisherUp,
           UNCHANGED request
    PROVE  publisherUp' => RequestPublished'
  <1>1. \A q \in Request : Payload(q)' = Payload(q)
    BY DEF Payload
  <1>2. \A e : Published(e) => Published(e)'
    BY StillPublished
  <1>3. ASSUME publisherUp', NEW q \in Request, request'[q].pc = "saved",
               NEW k \in 1 .. request'[q].sent
        PROVE  Published(Payload(q)[k])'
    <2>1. PICK e : e = Payload(q)[k]
      OBVIOUS
    <2>2. Published(e)'
      BY <1>2, <1>3, <2>1 DEF RequestPublished
    <2> QED
      BY <1>1, <2>1, <2>2 DEF Published
  <1> QED
    BY <1>3 DEF RequestPublished

LEMMA ScenarioKept ==
    ASSUME StreamGrows, ScenarioPublished, publisherUp' => publisherUp,
           proc'[simulator].inbox = proc[simulator].inbox,
           proc'[simulator].pc = "idle" <=> proc[simulator].pc = "idle"
    PROVE  ScenarioPublished'
  <1>1. Injections' = Injections
    BY DEF Injections
  <1>2. ASSUME publisherUp', proc[simulator].inbox # << >>, NEW k \in 1 .. Injections
        PROVE  Published(Scenario[k])'
    BY <1>2, StillPublished DEF ScenarioPublished
  <1> QED
    BY <1>1, <1>2 DEF ScenarioPublished

Publishing == StoredIsPublished /\ (publisherUp => RequestPublished) /\ ScenarioPublished

LEMMA IngestPublishes ==
    ASSUME Types, Publishing, NEW q \in Request,
           Save(q) \/ Publish(q) \/ CommitIngest(q) \/ FailIngest(q)
    PROVE  Publishing'
  <1>1. /\ request \in [Request -> [pc : {"ready", "saved", "accepted"}, sent : Nat,
                                    tries : 0 .. MaxTries, ingested : Nat]]
        /\ request[q].pc # "ready" => Payload(q) \in Seq(Event) /\ Len(Payload(q)) \in Nat
        /\ request[q].sent \in Nat /\ request[q].ingested \in Nat
        /\ stream \in Seq(Message)
    BY PayloadTypes DEF Types, RequestTypes
  <1>2. CASE Save(q) \/ CommitIngest(q) \/ FailIngest(q)
    <2>1. StreamGrows /\ publisherUp' = publisherUp /\ proc' = proc
      BY <1>1, <1>2 DEF StreamGrows, Save, CommitIngest, FailIngest, streamVars, ingestVars
    <2>2. ScenarioPublished'
      BY <2>1, ScenarioKept DEF Publishing
    <2>3. ASSUME NEW r \in Request, request'[r].pc = "saved"
          PROVE  request'[r].sent = 0 \/ (request[r].pc = "saved" /\ request'[r] = request[r])
      <3>1. \/ request' = [request EXCEPT ![q] = [pc |-> "saved", sent |-> 0,
                                tries |-> request[q].tries + 1, ingested |-> clock + 1]]
            \/ \E pc \in {"accepted", "ready"} : request' = [request EXCEPT ![q].pc = pc]
        BY <1>2, Zenon DEF Save, CommitIngest, FailIngest
      <3>2. CASE request' = [request EXCEPT ![q] = [pc |-> "saved", sent |-> 0,
                                tries |-> request[q].tries + 1, ingested |-> clock + 1]]
        BY <1>1, <2>3, <3>2
      <3>3. CASE \E pc \in {"accepted", "ready"} : request' = [request EXCEPT ![q].pc = pc]
        BY <1>1, <2>3, <3>3
      <3> QED
        BY <3>1, <3>2, <3>3
    <2>4. ASSUME publisherUp', NEW r \in Request, request'[r].pc = "saved",
                 NEW k \in 1 .. request'[r].sent
          PROVE  Published(Payload(r)[k])'
      <3>1. request[r].pc = "saved" /\ request'[r] = request[r] /\ Payload(r)' = Payload(r)
        BY <2>3, <2>4 DEF Payload
      <3>2. Published(Payload(r)[k])
        BY <2>1, <2>4, <3>1 DEF Publishing, RequestPublished
      <3>3. PICK e : e = Payload(r)[k]
        OBVIOUS
      <3>4. Published(e)'
        BY <2>1, <3>2, <3>3, StillPublished
      <3> QED
        BY <3>1, <3>3, <3>4 DEF Published
    <2>5. StoredIsPublished'
      <3>1. CASE CommitIngest(q)
        <4>1. ASSUME publisherUp', NEW e \in Elements(Payload(q))
              PROVE  Published(e)'
          <5>1. PICK k \in 1 .. Len(Payload(q)) : e = Payload(q)[k]
            <6>1. Payload(q) \in Seq(Event)
              BY <1>1, <3>1 DEF CommitIngest
            <6> QED
              BY <4>1, <6>1 DEF Elements
          <5>2. request[q].pc = "saved" /\ request[q].sent = Len(Payload(q))
            BY <3>1 DEF CommitIngest
          <5>3. Published(e)
            BY <2>1, <4>1, <5>1, <5>2 DEF Publishing, RequestPublished
          <5> QED
            BY <2>1, <5>3, StillPublished
        <4>2. ASSUME publisherUp', NEW e \in events
              PROVE  Published(e)'
          BY <2>1, <4>2, StillPublished DEF Publishing, StoredIsPublished, Published
        <4> QED
          BY <3>1, <4>1, <4>2 DEF CommitIngest, StoredIsPublished, Published
      <3>2. CASE Save(q) \/ FailIngest(q)
        BY <2>1, <3>2, EventsKept DEF Save, FailIngest, ingestVars, Publishing
      <3> QED
        BY <1>2, <3>1, <3>2
    <2> QED
      BY <2>2, <2>4, <2>5 DEF Publishing, RequestPublished
  <1>3. CASE Publish(q)
    <2> DEFINE next == request[q].sent + 1
               m == Normalize(Payload(q)[next], request[q].ingested)
    <2>1. /\ request' = [request EXCEPT ![q].sent = @ + 1]
          /\ next \in 1 .. Len(Payload(q)) /\ proc' = proc /\ events' = events
          /\ PublishMessage(m)
      BY <1>1, <1>3 DEF Publish
    <2>2. m \in Message /\ m.event = Payload(q)[next]
      <3>1. Payload(q) \in Seq(Event)
        BY <1>1, <1>3 DEF Publish
      <3> QED
        BY <1>1, <2>1, <3>1 DEF Normalize, Message
    <2> HIDE DEF m
    <2>3. /\ StreamGrows
          /\ publisherUp' => publisherUp /\ \E n \in 1 .. Len(stream') : stream'[n] = m
      BY <1>1, <2>1, <2>2, PublishedMessage DEF StreamGrows
    <2>4. publisherUp' => \E n \in 1 .. Len(stream') : stream'[n].event = Payload(q)[next]
      BY <2>2, <2>3
    <2>5. StoredIsPublished' /\ ScenarioPublished'
      BY <2>1, <2>3, EventsKept, ScenarioKept DEF Publishing
    <2>6. ASSUME publisherUp', NEW r \in Request, request'[r].pc = "saved",
                 NEW k \in 1 .. request'[r].sent
          PROVE  Published(Payload(r)[k])'
      <3>1. request'[r].pc = request[r].pc
            /\ request'[r].sent = IF r = q THEN next ELSE request[r].sent
        BY <1>1, <2>1
      <3>0. Payload(r)' = Payload(r)
        BY <1>1, <2>1 DEF Payload
      <3>2. CASE r = q /\ k = next
        BY <2>4, <2>6, <3>2, <3>0 DEF Published, Messages
      <3>3. CASE ~(r = q /\ k = next)
        <4>1. k \in 1 .. request[r].sent
          BY <1>1, <2>6, <3>1, <3>3
        <4>2. PICK e : e = Payload(r)[k]
          OBVIOUS
        <4>3. Published(e)
          BY <2>3, <2>6, <3>1, <4>1, <4>2 DEF Publishing, RequestPublished
        <4>4. Published(e)'
          BY <2>3, <4>3, StillPublished
        <4> QED
          BY <3>0, <4>2, <4>4 DEF Published
      <3> QED
        BY <3>2, <3>3
    <2> QED
      BY <2>5, <2>6 DEF Publishing, RequestPublished
  <1> QED
    BY <1>2, <1>3

LEMMA ScenarioPublishes ==
    ASSUME Types, Publishing, Inject \/ Injected \/ FailScenario
    PROVE  Publishing'
  <1> DEFINE state == proc[simulator]
  <1>1. /\ DOMAIN proc = Process /\ simulator \in Process
        /\ IsState(state) /\ state.inbox \in Seq(Event)
        /\ clock \in Nat /\ stream \in Seq(Message)
        /\ Scenario \in Seq(Event) /\ Len(Scenario) \in Nat
    BY BatchAssumption DEF Process, Types, ProcessTypes
  <1>2. CASE Inject
    <2> DEFINE timed == WithTime(state, clock + 1)
               new == AtRule(timed, Head(state.inbox), 0)
               m == Normalize(Head(state.inbox), clock + 1)
    <2>1. /\ proc' = [proc EXCEPT ![simulator] = new]
          /\ state.pc = "idle" /\ state.inbox # << >> /\ PublishMessage(m)
          /\ UNCHANGED <<events, request>>
      BY <1>2, Zenon DEF Inject, WithTime
    <2>2. IsState(timed) /\ timed.inbox = state.inbox
      BY <1>1, StateWithTime
    <2> HIDE DEF timed
    <2>3. new.inbox = state.inbox /\ new.pc # "idle"
      BY <2>2, AtRuleState
    <2> HIDE DEF new
    <2>4. proc'[simulator] = new
      BY <1>1, <2>1
    <2>5. m \in Message /\ m.event = state.inbox[1]
      BY <1>1, <2>1 DEF Normalize, Message
    <2> HIDE DEF m
    <2>6. /\ StreamGrows
          /\ publisherUp' => publisherUp /\ \E n \in 1 .. Len(stream') : stream'[n] = m
      BY <1>1, <2>1, <2>5, PublishedMessage DEF StreamGrows
    <2>7. StoredIsPublished' /\ (publisherUp' => RequestPublished')
      BY <2>1, <2>6, EventsKept, RequestsKept DEF Publishing
    <2>8. /\ Len(state.inbox) <= Len(Scenario)
          /\ \A k \in 1 .. Len(state.inbox) :
                state.inbox[k] = Scenario[Len(Scenario) - Len(state.inbox) + k]
          /\ publisherUp => \A k \in 1 .. Injections : Published(Scenario[k])
      BY <2>1, Zenon DEF Publishing, ScenarioPublished
    <2>8a. Len(state.inbox) \in Nat \ {0}
      BY <1>1, <2>1, TailOfInbox
    <2>9. /\ Injections = Len(Scenario) - Len(state.inbox)
          /\ Injections' = Len(Scenario) - Len(state.inbox) + 1
      <3>1. Injections = Len(Scenario) - Len(state.inbox) + 0
        BY <2>1 DEF Injections
      <3>2. Injections' = Len(Scenario) - Len(new.inbox) + 1
        BY <2>3, <2>4 DEF Injections
      <3> QED
        BY <1>1, <2>3, <2>8a, <3>1, <3>2
    <2>10. ASSUME publisherUp', NEW k \in 1 .. Injections'
           PROVE  Published(Scenario[k])'
      <3>1. CASE k \in 1 .. Injections
        BY <2>6, <2>8, <2>10, <3>1, StillPublished
      <3>2. CASE k \notin 1 .. Injections
        <4>1. k = Len(Scenario) - Len(state.inbox) + 1
          <5>1. k \in 1 .. Len(Scenario) - Len(state.inbox) + 1
            BY <2>9, <2>10
          <5>2. k \notin 1 .. Len(Scenario) - Len(state.inbox)
            BY <2>9, <3>2
          <5>3. Len(Scenario) - Len(state.inbox) \in Nat
            BY <1>1, <2>8, <2>8a
          <5> DEFINE injected == Len(Scenario) - Len(state.inbox)
          <5> HIDE DEF injected
          <5>4. k \in 1 .. injected + 1 /\ k \notin 1 .. injected /\ injected \in Nat
            BY <5>1, <5>2, <5>3 DEF injected
          <5>5. k = injected + 1
            BY <5>4
          <5> QED
            BY <5>5 DEF injected
        <4>2. Scenario[k] = m.event
          <5>1. 1 \in 1 .. Len(state.inbox)
            BY <2>8a
          <5>2. state.inbox[1] = Scenario[Len(Scenario) - Len(state.inbox) + 1]
            BY <2>8, <5>1
          <5> QED
            BY <2>5, <4>1, <5>2
        <4> QED
          BY <2>6, <2>10, <4>2 DEF Published, Messages
      <3> QED
        BY <3>1, <3>2
    <2>11. ScenarioPublished'
      BY <2>3, <2>4, <2>8, <2>10 DEF ScenarioPublished
    <2> QED
      BY <2>7, <2>11 DEF Publishing
  <1>3. CASE Injected
    <2> DEFINE rest == Tail(state.inbox)
               draft == IF rest = << >> THEN {} ELSE state.draft
               new == Restarted(state, rest, draft)
    <2>1. /\ proc' = [proc EXCEPT ![simulator] = new] /\ state.pc = "evaluated"
          /\ events' = IF rest = << >> THEN events \cup Elements(Scenario) ELSE events
          /\ UNCHANGED <<request, publisherUp, stream>>
      BY <1>3, Zenon DEF Injected, Restarted, streamVars
    <2>2. /\ Tail(state.inbox) \in Seq(Event) /\ Len(rest) = Len(state.inbox) - 1
          /\ Len(state.inbox) \in Nat \ {0}
          /\ \A k \in 1 .. Len(rest) : rest[k] = state.inbox[k + 1]
      <3>1. state.inbox # << >>
        BY <1>1, <2>1 DEF Types, ProcessTypes
      <3> QED
        BY <1>1, <3>1, TailOfInbox
    <2> HIDE DEF draft
    <2>3. new.inbox = rest /\ new.pc = "idle"
      BY <1>1, RestartedState
    <2> HIDE DEF new, rest
    <2>4. proc'[simulator] = new
      BY <1>1, <2>1
    <2>5. StreamGrows /\ publisherUp' = publisherUp
      BY <1>1, <2>1 DEF StreamGrows
    <2>6. /\ Len(state.inbox) <= Len(Scenario)
          /\ \A k \in 1 .. Len(state.inbox) :
                state.inbox[k] = Scenario[Len(Scenario) - Len(state.inbox) + k]
          /\ publisherUp => \A k \in 1 .. Injections : Published(Scenario[k])
      <3>1. state.inbox # << >>
        BY <1>1, <2>1 DEF Types, ProcessTypes
      <3> QED
        BY <3>1, Zenon DEF Publishing, ScenarioPublished
    <2>7. /\ Injections = Len(Scenario) - Len(state.inbox) + 1
          /\ Injections' = Len(Scenario) - Len(rest)
      BY <2>1, <2>3, <2>4 DEF Injections
    <2>8. Injections' = Injections
      BY <1>1, <2>2, <2>7
    <2>9. publisherUp' => \A k \in 1 .. Injections' : Published(Scenario[k])'
      BY <2>5, <2>6, <2>8, StillPublished
    <2>10. ScenarioPublished'
      <3>1. Len(rest) <= Len(Scenario)
        BY <1>1, <2>2, <2>6
      <3>2. ASSUME NEW k \in 1 .. Len(rest)
            PROVE  rest[k] = Scenario[Len(Scenario) - Len(rest) + k]
        <4>1. k + 1 \in 1 .. Len(state.inbox) /\ rest[k] = state.inbox[k + 1]
          BY <2>2
        <4>2. Len(Scenario) - Len(rest) + k = Len(Scenario) - Len(state.inbox) + (k + 1)
          BY <1>1, <2>2
        <4> QED
          BY <2>6, <4>1, <4>2
      <3> QED
        BY <2>3, <2>4, <2>9, <3>1, <3>2 DEF ScenarioPublished
    <2>11. StoredIsPublished'
      <3>1. CASE rest # << >>
        BY <2>1, <2>5, <3>1, EventsKept DEF Publishing
      <3>2. CASE rest = << >>
        <4>1. Injections = Len(Scenario)
          BY <1>1, <2>2, <2>7, <3>2
        <4>2. ASSUME publisherUp', NEW e \in Elements(Scenario)
              PROVE  Published(e)'
          <5>1. PICK k \in 1 .. Len(Scenario) : e = Scenario[k]
            BY <1>1, <4>2 DEF Elements
          <5>2. Published(e)
            BY <2>5, <2>6, <4>1, <4>2, <5>1
          <5> QED
            BY <2>5, <5>2, StillPublished
        <4>3. ASSUME publisherUp', NEW e \in events
              PROVE  Published(e)'
          BY <2>5, <4>3, StillPublished DEF Publishing, StoredIsPublished, Published
        <4> QED
          BY <2>1, <3>2, <4>2, <4>3 DEF StoredIsPublished, Published
      <3> QED
        BY <3>1, <3>2
    <2>12. publisherUp' => RequestPublished'
      BY <2>1, <2>5, RequestsKept DEF Publishing
    <2> QED
      BY <2>10, <2>11, <2>12 DEF Publishing
  <1>4. CASE FailScenario
    <2>1. StreamGrows /\ UNCHANGED <<events, request, publisherUp>>
      BY <1>1, <1>4 DEF FailScenario, StreamGrows, ingestVars, streamVars
    <2>2. proc'[simulator].inbox = << >>
      BY <1>1, <1>4, IdleState DEF FailScenario
    <2> QED
      BY <2>1, <2>2, EventsKept, RequestsKept DEF Publishing, ScenarioPublished
  <1> QED
    BY <1>2, <1>3, <1>4

LEMMA PublishingStep ==
    ASSUME Types, Publishing, [Next]_vars
    PROVE  Publishing'
  <1>1. ASSUME UNCHANGED <<ingestVars, stream>>,
               proc'[simulator].inbox = proc[simulator].inbox,
               proc'[simulator].pc = "idle" <=> proc[simulator].pc = "idle"
        PROVE  Publishing'
    <2>1. StreamGrows /\ UNCHANGED <<events, request, publisherUp>>
      BY <1>1 DEF StreamGrows, Types, ingestVars
    <2> QED
      BY <1>1, <2>1, EventsKept, RequestsKept, ScenarioKept DEF Publishing
  <1>2. ASSUME NEW p \in Process, Evaluate(p) \/ CounterFails(p)
        PROVE  Publishing'
    <2>1. UNCHANGED <<ingestVars, stream>>
      BY <1>2, EvaluationStep DEF streamVars
    <2>2. PICK new : Evaluates(p, new)
      BY <1>2, EvaluationStep
    <2>3. /\ proc' = [proc EXCEPT ![p] = new] /\ new.inbox = proc[p].inbox
          /\ new.pc # "idle" /\ proc[p].pc # "idle"
      BY <2>2 DEF Evaluates
    <2>4. /\ proc'[simulator].inbox = proc[simulator].inbox
          /\ proc'[simulator].pc = "idle" <=> proc[simulator].pc = "idle"
      BY <2>3 DEF Types, ProcessTypes, Process
    <2> QED
      BY <1>1, <2>1, <2>4
  <1>3. ASSUME NEW w \in Worker, Read(w) \/ CommitMessage(w) \/ Ack(w) \/ Fail(w) \/ Crash(w)
        PROVE  Publishing'
    <2>1. UNCHANGED <<ingestVars, stream>>
      BY <1>3 DEF Read, CommitMessage, Ack, Fail, Crash, streamVars
    <2>2. proc'[simulator] = proc[simulator]
      BY <1>3, ProcessAssumption
         DEF Read, CommitMessage, Ack, Fail, Crash, Types, ProcessTypes, Process
    <2> QED
      BY <1>1, <2>1, <2>2
  <1>4. CASE Elapse \/ UNCHANGED vars
    BY <1>1, <1>4 DEF Elapse, vars, streamVars
  <1> QED
    BY <1>2, <1>3, <1>4, IngestPublishes, ScenarioPublishes DEF Next, WorkerStep, Process

-----------------------------------------------------------------------------

LEMMA InitIInv == Init => IInv
  <1> SUFFICES ASSUME Init PROVE IInv
    OBVIOUS
  <1> DEFINE first(p) == [Idle EXCEPT !.inbox = IF p = simulator THEN Scenario ELSE @]
  <1>1. /\ DOMAIN proc = Process
        /\ \A p \in Process : proc[p] = first(p)
    BY DEF Init
  <1>2. ASSUME NEW p \in Process
        PROVE  /\ IsState(proc[p]) /\ proc[p].pc = "idle"
               /\ proc[p].inbox = IF p = simulator THEN Scenario ELSE << >>
               /\ proc[p].draft = {} /\ proc[p].ingested = 0
    <2> DEFINE inbox == IF p = simulator THEN Scenario ELSE << >>
    <2>1. first(p) = [pc |-> "idle", inbox |-> inbox, rule |-> 0, draft |-> {}, ingested |-> 0]
      BY DEF Idle
    <2> HIDE DEF inbox
    <2>2. proc[p] = [pc |-> "idle", inbox |-> inbox, rule |-> 0, draft |-> {}, ingested |-> 0]
      BY <1>1, <2>1
    <2>3. IsState(proc[p])
      BY <2>2 DEF IsState, State
    <2> QED
      BY <2>2, <2>3 DEF inbox
  <1>3. simulator \in Process /\ simulator \notin Worker /\ Worker \subseteq Process
    BY ProcessAssumption DEF Process
  <1>4. ProcessTypes
    <2>1. proc[simulator].inbox \in Seq(Event)
      BY <1>2, <1>3, BatchAssumption
    <2>2. ASSUME NEW w \in Worker
          PROVE  proc[w].inbox \in Seq(Nat) /\ \A k \in 1 .. Len(proc[w].inbox) : FALSE
      <3>1. proc[w].inbox = << >>
        BY <1>2, <1>3
      <3> QED
        BY <3>1
    <2>3. /\ \A p \in Process : IsState(proc[p]) /\ proc[p].ingested \in Nat
          /\ \A p \in Process : proc[p].pc = "idle"
      BY <1>2
    <2> HIDE DEF first
    <2> QED
      BY <1>1, <2>1, <2>2, <2>3 DEF ProcessTypes
  <1>5. RequestTypes
    BY BoundAssumption DEF Init, RequestTypes
  <1>6. Types
    BY <1>4, <1>5 DEF Init, Types
  <1>7. AckedIsCommitted /\ Acknowledging
    BY <1>2, <1>3 DEF Init, AckedIsCommitted, Acknowledging
  <1>8. DraftIsOwn /\ OneFreshAlert
    BY <1>2 DEF Init, DraftIsOwn, OneFreshAlert
  <1>9. StoredIsPublished /\ (publisherUp => RequestPublished)
    BY DEF Init, StoredIsPublished, RequestPublished
  <1>10. ScenarioPublished
    <2>1. proc[simulator].inbox = Scenario /\ proc[simulator].pc = "idle"
      BY <1>2, <1>3
    <2>2. Injections = 0
      BY <2>1, BatchAssumption DEF Injections
    <2> QED
      BY <2>1, <2>2, BatchAssumption DEF ScenarioPublished
  <1> QED
    BY <1>6, <1>7, <1>8, <1>9, <1>10 DEF IInv

LEMMA NextIInv == IInv /\ [Next]_vars => IInv'
  <1> SUFFICES ASSUME IInv, [Next]_vars PROVE IInv'
    OBVIOUS
  <1>1. Types /\ DraftIsOwn /\ OneFreshAlert /\ AckedIsCommitted /\ Acknowledging /\ Publishing
    BY DEF IInv, Publishing
  <1>2. Types'
    BY <1>1, IngestTypes, EvaluationTypes, WorkerTypes, ScenarioTypes, ElapseTypes
       DEF Next, WorkerStep, Process
  <1>3. AckedIsCommitted' /\ Acknowledging'
    BY <1>1, AckStep
  <1>4. DraftIsOwn' /\ OneFreshAlert'
    BY <1>1, FreshStep
  <1>5. Publishing'
    BY <1>1, PublishingStep
  <1> QED
    BY <1>2, <1>3, <1>4, <1>5 DEF IInv, Publishing

LEMMA SpecIInv == Spec => []IInv
BY InitIInv, NextIInv, PTL DEF Spec

\* A message is acknowledged for what has been committed, whatever crashes, fails
\* or is read by whom (detection_worker: commit, then xack).
THEOREM PipelineAcksCommitted == Spec => []AckedIsCommitted
  <1>1. IInv => AckedIsCommitted
    BY DEF IInv
  <1> QED
    BY <1>1, SpecIInv, PTL

\* A process alerts once of a rule and key within the time that alerts suppress
\* (is_suppressed sees the alerts of its own session).
THEOREM PipelineAlertsOnce == Spec => []OneFreshAlertPerProcess
  <1>1. IInv => OneFreshAlertPerProcess
    <2> SUFFICES ASSUME IInv, NEW a \in alerts, NEW b \in alerts,
                        a.rule = b.rule, SameKey(Rules[a.rule], a.event, b.event),
                        a.by = b.by, a.ingested > expired, b.ingested > expired
                 PROVE  a = b
      BY DEF OneFreshAlertPerProcess
    <2>1. a.by \in Process
      BY DEF IInv, Types
    <2> QED
      BY <2>1 DEF IInv, OneFreshAlert
  <1> QED
    BY <1>1, SpecIInv, PTL

\* What is stored is in the stream, unless the publisher has given Redis up
\* (events_router and run_scenario_endpoint publish before they commit).
THEOREM PipelineStoredIsPublished == Spec => []StoredIsPublished
  <1>1. IInv => StoredIsPublished
    BY DEF IInv
  <1> QED
    BY <1>1, SpecIInv, PTL

-----------------------------------------------------------------------------
\* What rules find in the windows

\* What a process evaluates matches the rule it is at; one that does not count has
\* no window.
AtMatchingRule ==
    \A p \in Process : proc[p].pc \in {"record", "trim", "raise"} =>
        /\ Matches(Rules[proc[p].rule], Current(p).event)
        /\ proc[p].pc # "raise" => Rules[proc[p].rule].type # "match"

\* Entries are of events that match the rule, and have the marks of these.
Fitting(i, entries) ==
    \A n \in entries : n.mark = Rules[i].mark[n.event] /\ Matches(Rules[i], n.event)

WindowsFit ==
    \A i \in DOMAIN Rules :
        /\ Rules[i].type = "match" => window[i] = {}
        /\ Fitting(i, window[i])
        /\ IsFiniteSet(window[i])
        /\ \E latest \in Int : \A n \in window[i] : At[n.event] <= latest

MemoryFits ==
    \A p \in Process : \A i \in DOMAIN Rules :
        /\ Fitting(i, memory[p][i])
        /\ IsFiniteSet(memory[p][i])
        /\ \E last \in Nat : \A n \in memory[p][i] : n.place <= last

\* Nothing is in the hands of two workers, or twice in those of one.  A message in
\* hand is committed only when it is about to be acknowledged.
InboxesApart ==
    /\ \A p \in Process : \A j, k \in 1 .. Len(proc[p].inbox) :
          proc[p].inbox[j] = proc[p].inbox[k] => j = k
    /\ \A v, w \in Worker : \A j \in 1 .. Len(proc[v].inbox), k \in 1 .. Len(proc[w].inbox) :
          proc[v].inbox[j] = proc[w].inbox[k] => v = w
    /\ \A w \in Worker : \A k \in 1 .. Len(proc[w].inbox) :
          proc[w].inbox[k] \in processed => k = 1 /\ proc[w].pc = "committed"

\* What a worker has saved is about the event it has in hand, and is committed
\* before that is let go.
DraftIsOfMessage ==
    \A w \in Worker :
        /\ proc[w].pc = "idle" => proc[w].draft = {}
        /\ proc[w].pc = "committed" => proc[w].draft \subseteq alerts
        /\ \A a \in proc[w].draft : a.event = Current(w).event /\ Matches(Rules[a.rule], a.event)

\* A process is done with an element of its inbox as far as a rule goes.
Past(p, i, x) ==
    \A k \in 1 .. Len(proc[p].inbox) : proc[p].inbox[k] = x =>
        k = 1 /\ proc[p].pc # "idle" /\ proc[p].rule > i

\* What a worker counts in memory are messages it was given, each once.
MemoryOfWorkers ==
    \A w \in Worker : \A i \in DOMAIN Rules : \A n \in memory[w][i] :
        /\ \E k \in 1 .. delivered : stream[k].event = n.event /\ Past(w, i, k)
        /\ \A o \in memory[w][i] : o.event = n.event /\ o # n => Repeated(n.event)

\* What the simulator counts in memory are events of the scenario, each once.
MemoryOfSimulator ==
    \A i \in DOMAIN Rules : \A n \in memory[simulator][i] :
        /\ Past(simulator, i, n.event)
        /\ \A o \in memory[simulator][i] : o.event = n.event => o = n

JustifiedDrafts ==
    \A p \in Process : \A a \in alerts \cup proc[p].draft : Justified(a)

OfKey(i, e) == {n \in window[i] : SameKey(Rules[i], e, n.event)}

\* There is an alert of the rule and key, committed or about to be.
Alerted(i, e) ==
    \E p \in Process : \E a \in alerts \cup proc[p].draft :
        a.rule = i /\ SameKey(Rules[i], a.event, e)

\* A process will look at all that is in the window for the key.
WillLook(i, e, p) ==
    /\ proc[p].rule = i /\ SameKey(Rules[i], Current(p).event, e)
    /\ \/ proc[p].pc = "trim"
       \/ /\ proc[p].pc = "raise"
          /\ \A n \in OfKey(i, e) : At[n.event] >= Cutoff(Rules[i], Current(p).event)

Covered(i, e) == Alerted(i, e) \/ \E p \in Process : WillLook(i, e, p)

\* Without faults, what reaches the threshold of a rule has been alerted, or a
\* process is going to count all of it.
NotOverlooked ==
    faults = 0 =>
        /\ \A p \in Process : counterUp[p]
        /\ \A i \in DOMAIN Rules : \A e \in Event :
              /\ Rules[i].type # "match"
              /\ Reached(Rules[i], {n.mark : n \in OfKey(i, e)})
              => Covered(i, e)

-----------------------------------------------------------------------------
\* Lemmas about rules and entries

LEMMA LeastElement ==
    ASSUME NEW S, S \subseteq Nat, S # {}
    PROVE  \E x \in S : \A y \in S : x <= y
  <1> DEFINE R == OpToRel(<, Nat)
  <1>1. IsWellFoundedOn(R, Nat)
    BY NatLessThanWellFounded
  <1>2. \A x, y \in Nat : y < x => <<y, x>> \in R
    BY Zenon DEF OpToRel
  <1> HIDE DEF R
  <1>3. PICK x \in S : \A y \in S : ~(<<y, x>> \in R)
    BY <1>1, WFMin
  <1>4. \A y \in S : x <= y
    <2> SUFFICES ASSUME NEW y \in S PROVE x <= y
      OBVIOUS
    <2>1. x \in Nat /\ y \in Nat /\ ~(y < x)
      BY <1>2, <1>3
    <2> QED
      BY <2>1
  <1> QED
    BY <1>4

LEMMA GreatestElement ==
    ASSUME NEW b \in Int, NEW S, S \subseteq Int, \A x \in S : x <= b, S # {}
    PROVE  \E x \in S : \A y \in S : y <= x
  <1> DEFINE T == {b - y : y \in S}
  <1>0. \A y \in S : b - y \in Nat
    <2> SUFFICES ASSUME NEW y \in S PROVE b - y \in Nat
      OBVIOUS
    <2>1. y \in Int /\ y <= b
      OBVIOUS
    <2> QED
      BY <2>1
  <1>1. T \subseteq Nat /\ T # {}
    BY <1>0
  <1>2. \E t \in T : \A u \in T : t <= u
    <2> HIDE DEF T
    <2> QED
      BY <1>1, LeastElement
  <1>3. PICK x \in S : \A u \in T : b - x <= u
    BY <1>2
  <1>4. \A y \in S : y <= x
    <2> SUFFICES ASSUME NEW y \in S PROVE y <= x
      OBVIOUS
    <2>1. b - x <= b - y
      BY <1>3
    <2>2. x \in Int /\ y \in Int
      OBVIOUS
    <2> QED
      BY <2>1, <2>2
  <1> QED
    BY <1>4

LEMMA RulesFacts ==
    /\ Len(Rules) \in Nat /\ DOMAIN Rules = 1 .. Len(Rules)
    /\ \A i \in DOMAIN Rules : Rules[i].window \in Nat
    /\ \A i \in DOMAIN Rules : \A e \in Event :
          Rules[i].type \in {"match", "threshold"} => Rules[i].mark[e] = e
BY RulesAssumption

\* The rule that comes next is a later one that the event matches, if it is one.
LEMMA NextRuleFacts ==
    ASSUME NEW e, NEW i \in 0 .. Len(Rules)
    PROVE  LET j == NextRule(e, i)
           IN  /\ j \in Nat /\ j > i
               /\ \/ j \in DOMAIN Rules /\ Matches(Rules[j], e)
                  \/ j > Len(Rules)
  <1> DEFINE S == {j \in i + 1 .. Len(Rules) : Matches(Rules[j], e)} \cup {Len(Rules) + 1}
  <1>1. Len(Rules) \in Nat /\ DOMAIN Rules = 1 .. Len(Rules)
    BY RulesFacts
  <1>2. S \subseteq Nat /\ S # {}
    BY <1>1
  <1>3. NextRule(e, i) \in S
    <2> HIDE DEF S
    <2>1. \E x \in S : \A y \in S : x <= y
      BY <1>2, LeastElement
    <2>2. Min(S) \in S
      BY <2>1 DEF Min
    <2> QED
      BY <2>2 DEF NextRule, S
  <1> QED
    BY <1>1, <1>3

\* At a rule, after the rule i, for an event.
Onward(s, e, i) ==
    /\ s.rule \in Nat /\ s.rule > i /\ s.pc \in {"record", "raise", "evaluated"}
    /\ s.pc # "evaluated" => /\ s.rule \in DOMAIN Rules /\ Matches(Rules[s.rule], e)
                             /\ s.pc = "record" => Rules[s.rule].type # "match"

LEMMA AtRuleFacts ==
    ASSUME NEW s, IsState(s), NEW e, NEW i \in 0 .. Len(Rules)
    PROVE  Onward(AtRule(s, e, i), e, i)
  <1> DEFINE j == NextRule(e, i)
             t == AtRule(s, e, i)
  <1>1. /\ j \in Nat /\ j > i
        /\ \/ j \in DOMAIN Rules /\ Matches(Rules[j], e)
           \/ j > Len(Rules)
    BY NextRuleFacts
  <1>2. /\ t.rule = j
        /\ t.pc = IF j > Len(Rules) THEN "evaluated"
                  ELSE IF Rules[j].type = "match" THEN "raise" ELSE "record"
    BY AtRuleState
  <1> HIDE DEF j, t
  <1>3. Onward(t, e, i)
    BY <1>1, <1>2 DEF Onward
  <1> QED
    BY <1>3 DEF t

LEMMA BeginMessageFacts ==
    ASSUME NEW inbox, inbox # << >>
    PROVE  Onward(BeginMessage(inbox), stream[Head(inbox)].event, 0)
  <1> DEFINE s == [Idle EXCEPT !.inbox = inbox]
  <1>1. s \in State({"idle"}, {inbox}, {0}, {{}}, {0})
    BY DEF Idle, State
  <1>2. IsState(s)
    BY <1>1, StateOfTypes
  <1>3. BeginMessage(inbox) = AtRule(s, stream[Head(inbox)].event, 0)
    BY DEF BeginMessage
  <1>4. 0 \in 0 .. Len(Rules)
    BY RulesFacts
  <1> HIDE DEF s
  <1> QED
    BY <1>2, <1>3, <1>4, AtRuleFacts

\* The event in the hands of a process is one, and stays it as the stream grows.
LEMMA CurrentFacts ==
    ASSUME Types, NEW p \in Process, proc[p].pc # "idle"
    PROVE  Current(p).event \in Event
  <1>1. CASE p = simulator
    <2>1. proc[p].inbox \in Seq(Event) /\ proc[p].inbox # << >>
      BY <1>1 DEF Types, ProcessTypes
    <2> QED
      BY <1>1, <2>1 DEF Current, Normalize
  <1>2. CASE p # simulator
    <2>1. p \in Worker
      BY <1>2 DEF Process
    <2>2. Head(proc[p].inbox) \in 1 .. Len(stream)
      BY <2>1, InboxOfWorker, TailOfInbox
    <2>3. stream[Head(proc[p].inbox)] \in Message
      BY <2>2 DEF Types
    <2> QED
      BY <1>2, <2>3 DEF Current, Message
  <1> QED
    BY <1>1, <1>2

LEMMA CurrentKept ==
    ASSUME Types, StreamGrows, NEW p \in Process, proc[p].pc # "idle",
           proc'[p].inbox = proc[p].inbox, proc'[p].ingested = proc[p].ingested
    PROVE  Current(p)' = Current(p)
  <1>1. CASE p = simulator
    BY <1>1 DEF Current
  <1>2. CASE p # simulator
    <2>1. p \in Worker
      BY <1>2 DEF Process
    <2>2. Head(proc[p].inbox) \in 1 .. Len(stream)
      BY <2>1, InboxOfWorker, TailOfInbox
    <2>3. stream'[Head(proc'[p].inbox)] = stream[Head(proc[p].inbox)]
      BY <2>2 DEF StreamGrows
    <2> QED
      BY <1>2, <2>3 DEF Current
  <1> QED
    BY <1>1, <1>2

\* The result of a rule, and on to the next.
Finished(p, new, matched, marks, source) ==
    /\ proc' = [proc EXCEPT ![p] = new]
    /\ IsState(new) /\ new.inbox = proc[p].inbox /\ new.ingested = proc[p].ingested
    /\ Onward(new, Current(p).event, proc[p].rule)
    /\ new.draft = proc[p].draft
                      \cup Raised(p, proc[p].rule, Current(p), matched, marks, source)

LEMMA FinishFacts ==
    ASSUME Types, NEW p \in Process, proc[p].rule \in DOMAIN Rules,
           NEW matched, NEW marks, NEW source, Finish(p, matched, marks, source)
    PROVE  \E new : Finished(p, new, matched, marks, source)
  <1> DEFINE m == Current(p)
             i == proc[p].rule
             raised == Raised(p, i, m, matched, marks, source)
             saved == WithDraft(proc[p], proc[p].draft \cup raised)
             new == AtRule(saved, m.event, i)
  <1>1. proc' = [proc EXCEPT ![p] = new]
    BY Zenon DEF Finish, WithDraft, Types, ProcessTypes
  <1>2. IsState(proc[p])
    BY DEF Types, ProcessTypes
  <1>3. /\ IsState(saved) /\ saved.inbox = proc[p].inbox /\ saved.ingested = proc[p].ingested
        /\ saved.draft = proc[p].draft \cup raised
    BY <1>2, StateWithDraft
  <1>4. i \in 0 .. Len(Rules)
    BY RulesFacts
  <1> HIDE DEF saved, raised
  <1>5. /\ IsState(new) /\ new.inbox = saved.inbox /\ new.ingested = saved.ingested
        /\ new.draft = saved.draft
    BY <1>3, AtRuleState
  <1>6. Onward(new, m.event, i)
    BY <1>3, <1>4, AtRuleFacts
  <1> HIDE DEF new
  <1>7. Finished(p, new, matched, marks, source)
    BY <1>1, <1>3, <1>5, <1>6 DEF Finished, raised
  <1> QED
    BY <1>7

-----------------------------------------------------------------------------
\* The types, with what is found in the windows

IngestOK ==
    /\ events \subseteq Event
    /\ request \in [Request -> [pc : {"ready", "saved", "accepted"}, sent : Nat,
                                tries : 0 .. MaxTries, ingested : 0 .. clock]]
    /\ expired \in 0 .. clock /\ faults \in 0 .. MaxFaults

WindowsOK ==
    /\ window \in [DOMAIN Rules -> SUBSET [mark : Mark, event : Event]]
    /\ memory \in [Process -> [DOMAIN Rules -> SUBSET [mark : Mark, event : Event, place : Nat]]]
    /\ counterUp \in [Process -> BOOLEAN]

ProcessesOK ==
    /\ alerts \subseteq Alert
    /\ acked \subseteq 1 .. delivered /\ processed \subseteq 1 .. delivered
    /\ \A p \in Process :
          /\ proc[p].pc \in {"idle", "record", "trim", "raise", "evaluated", "committed"}
          /\ proc[p].draft \subseteq Alert
          /\ proc[p].pc \in {"record", "trim", "raise"} => proc[p].rule \in DOMAIN Rules
    /\ \A w \in Worker : \A k \in 1 .. Len(proc[w].inbox) : proc[w].inbox[k] \in 1 .. delivered

LEMMA TypeOKOfParts == Types /\ IngestOK /\ WindowsOK /\ ProcessesOK => TypeOK
  <1> SUFFICES ASSUME Types, IngestOK, WindowsOK, ProcessesOK PROVE TypeOK
    OBVIOUS
  <1>1. \A w \in Worker : Elements(proc[w].inbox) \subseteq 1 .. delivered
    <2> SUFFICES ASSUME NEW w \in Worker PROVE Elements(proc[w].inbox) \subseteq 1 .. delivered
      OBVIOUS
    <2>1. proc[w].inbox \in Seq(Nat)
      BY InboxOfWorker
    <2>2. DOMAIN proc[w].inbox = 1 .. Len(proc[w].inbox)
      BY <2>1
    <2> QED
      BY <2>2 DEF ProcessesOK, Elements
  <1>2. \A p \in Process : proc[p].pc # "idle" => proc[p].inbox # << >>
    BY DEF Types, ProcessTypes
  <1>3. /\ \A q \in Request : request[q].pc # "ready" =>
              request[q].tries # 0 /\ request[q].sent <= Len(Payload(q))
        /\ publisherUp \in BOOLEAN /\ stream \in Seq(Message) /\ delivered \in 0 .. Len(stream)
    BY DEF Types, RequestTypes
  <1> QED
    BY <1>1, <1>2, <1>3 DEF TypeOK, IngestOK, WindowsOK, ProcessesOK

LEMMA IngestOKStep ==
    ASSUME Types, IngestOK, [Next]_vars
    PROVE  IngestOK'
  <1>1. /\ clock \in Nat /\ expired \in Nat /\ expired <= clock /\ faults \in 0 .. MaxFaults
        /\ MaxFaults \in Nat /\ MaxTries \in Nat /\ events \subseteq Event
        /\ request \in [Request -> [pc : {"ready", "saved", "accepted"}, sent : Nat,
                                    tries : 0 .. MaxTries, ingested : 0 .. clock]]
    BY BoundAssumption DEF Types, IngestOK
  <1>2. ASSUME UNCHANGED <<request, clock, expired>>, events' \subseteq Event,
               faults' = faults \/ (faults < MaxFaults /\ faults' = faults + 1)
        PROVE  IngestOK'
    BY <1>1, <1>2 DEF IngestOK
  <1>3. ASSUME NEW m, PublishMessage(m)
        PROVE  faults' = faults \/ (faults < MaxFaults /\ faults' = faults + 1)
    <2>1. PICK o \in PublishOutcomes(m) :
              faults' = IF publisherUp /\ (~o.up \/ o.sent = << >>) THEN faults + 1 ELSE faults
      BY <1>3 DEF PublishMessage
    <2>2. CASE faults < MaxFaults
      BY <2>1, <2>2
    <2>3. CASE ~(faults < MaxFaults)
      <3>1. o = [up |-> publisherUp, sent |-> IF publisherUp THEN <<m>> ELSE << >>]
        BY <2>3, Zenon DEF PublishOutcomes
      <3>2. publisherUp => o.up /\ o.sent = <<m>>
        BY <3>1
      <3>3. <<m>> # << >>
        OBVIOUS
      <3> QED
        BY <2>1, <3>2, <3>3
    <2> QED
      BY <2>2, <2>3
  <1>4. ASSUME NEW q \in Request, Save(q)
        PROVE  IngestOK'
    <2> DEFINE new == [pc |-> "saved", sent |-> 0, tries |-> request[q].tries + 1,
                       ingested |-> clock + 1]
    <2>1. /\ request' = [request EXCEPT ![q] = new] /\ clock' = clock + 1
          /\ request[q].tries < MaxTries
          /\ UNCHANGED <<events, expired, faults>>
      BY <1>4, Zenon DEF Save
    <2>2. /\ request[q].tries \in 0 .. MaxTries
          /\ \A r \in Request : request[r] \in [pc : {"ready", "saved", "accepted"}, sent : Nat,
                                              tries : 0 .. MaxTries, ingested : 0 .. clock + 1]
      <3> SUFFICES ASSUME NEW r \in Request
                   PROVE  /\ request[r].tries \in 0 .. MaxTries
                          /\ request[r] \in [pc : {"ready", "saved", "accepted"}, sent : Nat,
                                             tries : 0 .. MaxTries, ingested : 0 .. clock + 1]
        OBVIOUS
      <3>1. request[r] \in [pc : {"ready", "saved", "accepted"}, sent : Nat,
                            tries : 0 .. MaxTries, ingested : 0 .. clock]
        BY <1>1
      <3>2. 0 .. clock \subseteq 0 .. clock + 1
        BY <1>1
      <3> QED
        BY <3>1, <3>2
    <2>3. new \in [pc : {"ready", "saved", "accepted"}, sent : Nat,
                   tries : 0 .. MaxTries, ingested : 0 .. clock + 1]
      BY <1>1, <2>1, <2>2
    <2> HIDE DEF new
    <2>4. request' \in [Request -> [pc : {"ready", "saved", "accepted"}, sent : Nat,
                                    tries : 0 .. MaxTries, ingested : 0 .. clock']]
      BY <1>1, <2>1, <2>2, <2>3
    <2> QED
      BY <1>1, <2>1, <2>4 DEF IngestOK
  <1>5. ASSUME NEW q \in Request, Publish(q) \/ CommitIngest(q) \/ FailIngest(q)
        PROVE  IngestOK'
    <2>1. faults' = faults \/ (faults < MaxFaults /\ faults' = faults + 1)
      BY <1>3, <1>5 DEF Publish, CommitIngest, FailIngest
    <2>2. events' \subseteq Event
      <3>1. CommitIngest(q) => Elements(Payload(q)) \subseteq Event
        BY PayloadTypes DEF Elements, CommitIngest
      <3> QED
        BY <1>1, <1>5, <3>1 DEF Publish, CommitIngest, FailIngest, ingestVars
    <2>3. UNCHANGED <<clock, expired>>
      BY <1>5 DEF Publish, CommitIngest, FailIngest, timeVars
    <2>4. request' \in [Request -> [pc : {"ready", "saved", "accepted"}, sent : Nat,
                                    tries : 0 .. MaxTries, ingested : 0 .. clock]]
      <3>1. request[q] \in [pc : {"ready", "saved", "accepted"}, sent : Nat,
                            tries : 0 .. MaxTries, ingested : 0 .. clock]
        BY <1>1
      <3>2. \/ request' = [request EXCEPT ![q] = [request[q] EXCEPT !.sent = request[q].sent + 1]]
            \/ request' = [request EXCEPT ![q] = [request[q] EXCEPT !.pc = "accepted"]]
            \/ request' = [request EXCEPT ![q] = [request[q] EXCEPT !.pc = "ready"]]
        BY <1>5, Zenon DEF Publish, CommitIngest, FailIngest
      <3>3. /\ [request[q] EXCEPT !.sent = request[q].sent + 1]
                  \in [pc : {"ready", "saved", "accepted"}, sent : Nat,
                       tries : 0 .. MaxTries, ingested : 0 .. clock]
            /\ [request[q] EXCEPT !.pc = "accepted"]
                  \in [pc : {"ready", "saved", "accepted"}, sent : Nat,
                       tries : 0 .. MaxTries, ingested : 0 .. clock]
            /\ [request[q] EXCEPT !.pc = "ready"]
                  \in [pc : {"ready", "saved", "accepted"}, sent : Nat,
                       tries : 0 .. MaxTries, ingested : 0 .. clock]
        BY <3>1
      <3>4. ASSUME NEW new \in [pc : {"ready", "saved", "accepted"}, sent : Nat,
                                tries : 0 .. MaxTries, ingested : 0 .. clock],
                   request' = [request EXCEPT ![q] = new]
            PROVE  request' \in [Request -> [pc : {"ready", "saved", "accepted"}, sent : Nat,
                                             tries : 0 .. MaxTries, ingested : 0 .. clock]]
        BY <1>1, <3>4
      <3> QED
        BY <3>2, <3>3, <3>4
    <2> QED
      BY <1>1, <2>1, <2>2, <2>3, <2>4 DEF IngestOK
  <1>6. ASSUME NEW p \in Process, Evaluate(p)
        PROVE  IngestOK'
    BY <1>1, <1>2, <1>6
       DEF Evaluate, Record, Trim, Raise, FallBack, ingestVars, timeVars
  <1>7. ASSUME NEW p \in Process, CounterFails(p)
        PROVE  IngestOK'
    BY <1>1, <1>2, <1>7 DEF CounterFails, ingestVars, timeVars
  <1>8. ASSUME NEW w \in Worker, Read(w) \/ CommitMessage(w) \/ Ack(w) \/ Fail(w) \/ Crash(w)
        PROVE  IngestOK'
    BY <1>1, <1>2, <1>8 DEF Read, CommitMessage, Ack, Fail, Crash, ingestVars, timeVars
  <1>9. CASE Inject
    <2>1. /\ clock' = clock + 1 /\ UNCHANGED <<events, request, expired>>
          /\ faults' = faults \/ (faults < MaxFaults /\ faults' = faults + 1)
      BY <1>3, <1>9 DEF Inject
    <2>2. \A r \in Request : request[r] \in [pc : {"ready", "saved", "accepted"}, sent : Nat,
                                             tries : 0 .. MaxTries, ingested : 0 .. clock + 1]
      <3> SUFFICES ASSUME NEW r \in Request
                   PROVE  request[r] \in [pc : {"ready", "saved", "accepted"}, sent : Nat,
                                          tries : 0 .. MaxTries, ingested : 0 .. clock + 1]
        OBVIOUS
      <3>1. request[r] \in [pc : {"ready", "saved", "accepted"}, sent : Nat,
                            tries : 0 .. MaxTries, ingested : 0 .. clock]
        BY <1>1
      <3>2. 0 .. clock \subseteq 0 .. clock + 1
        BY <1>1
      <3> QED
        BY <3>1, <3>2
    <2> QED
      BY <1>1, <2>1, <2>2 DEF IngestOK
  <1>10. CASE Injected
    <2>1. Elements(Scenario) \subseteq Event
      BY BatchAssumption DEF Elements
    <2> QED
      BY <1>1, <1>2, <1>10, <2>1 DEF Injected, timeVars
  <1>11. CASE FailScenario
    BY <1>1, <1>2, <1>11 DEF FailScenario, ingestVars, timeVars
  <1>12. CASE Elapse
    <2>1. expired < Min({clock, MaxExpired}) /\ MaxExpired \in Int /\ clock \in Int
      BY <1>1, <1>12, BoundAssumption DEF Elapse
    <2>2. expired < clock
      <3>1. Min({clock, MaxExpired}) <= clock /\ Min({clock, MaxExpired}) \in {clock, MaxExpired}
        BY <2>1, MinOfTwo
      <3> QED
        BY <1>1, <2>1, <3>1
    <2> QED
      BY <1>1, <1>12, <2>2 DEF Elapse, IngestOK, ingestVars
  <1>13. CASE UNCHANGED vars
    BY <1>1, <1>2, <1>13 DEF vars, ingestVars, timeVars
  <1> QED
    BY <1>4, <1>5, <1>6, <1>7, <1>8, <1>9, <1>10, <1>11, <1>12, <1>13
       DEF Next, WorkerStep, Process

Placed == [mark : Mark, event : Event, place : Nat]

WindowsCounted == WindowsOK /\ WindowsFit /\ MemoryFits

\* What is kept in memory, with a new entry that comes after all others.
LEMMA KeptFacts ==
    ASSUME NEW r, NEW m, m.event \in Event, r.mark[m.event] \in Mark,
           NEW store, store \subseteq Placed, NEW last \in Nat, \A n \in store : n.place <= last
    PROVE  \E new \in Placed :
              /\ new.mark = r.mark[m.event] /\ new.event = m.event
              /\ \A n \in store : n.place < new.place
              /\ new.place <= last + 1
              /\ Kept(r, m, store) =
                    {n \in store \cup {new} :
                        SameKey(r, m.event, n.event) => At[n.event] >= Cutoff(r, m.event)}
  <1> DEFINE places == {0} \cup {n.place : n \in store}
             top == Max(places)
             new == [mark |-> r.mark[m.event], event |-> m.event, place |-> top + 1]
  <1>1. \A n \in store : n.place \in Nat
    BY DEF Placed
  <1>2. places \subseteq Int /\ places # {} /\ last \in Int /\ \A x \in places : x <= last
    BY <1>1
  <1>3. \A n \in store : n.place \in places
    OBVIOUS
  <1>4. places \subseteq Nat
    BY <1>1
  <1> HIDE DEF places
  <1>5. \E x \in places : \A y \in places : y <= x
    BY <1>2, GreatestElement, Zenon
  <1>6. top \in Nat /\ top <= last /\ \A y \in places : y <= top
    <2>1. PICK x \in places : \A y \in places : y <= x
      BY <1>5
    <2>2. \A y \in places : x >= y
      BY <1>4, <2>1
    <2>3. top \in places /\ \A y \in places : top >= y
      BY <2>2 DEF Max
    <2> QED
      BY <1>2, <1>4, <2>3
  <1> HIDE DEF top
  <1>7. new \in Placed /\ new.place = top + 1
    BY <1>6 DEF Placed
  <1>8. \A n \in store : n.place < top + 1
    BY <1>1, <1>3, <1>6
  <1>9. top + 1 <= last + 1
    BY <1>6
  <1>10. new.mark = r.mark[m.event] /\ new.event = m.event
    OBVIOUS
  <1>11. Kept(r, m, store) =
            {n \in store \cup {new} :
                SameKey(r, m.event, n.event) => At[n.event] >= Cutoff(r, m.event)}
    BY DEF Kept, places, top
  <1> HIDE DEF new
  <1> QED
    BY <1>7, <1>8, <1>9, <1>10, <1>11

LEMMA MarkType ==
    ASSUME NEW i \in DOMAIN Rules, NEW e \in Event
    PROVE  Rules[i].mark[e] \in Mark
BY DEF Mark

\* A message that matches a rule that counts is added to its window, or not.
LEMMA AddedToWindow ==
    ASSUME WindowsCounted, NEW i \in DOMAIN Rules, Rules[i].type # "match",
           NEW m, m.event \in Event, Matches(Rules[i], m.event),
           window' \in {window, [window EXCEPT ![i] = @ \cup {Member(Rules[i], m)}]}
    PROVE  /\ window' \in [DOMAIN Rules -> SUBSET [mark : Mark, event : Event]]
           /\ WindowsFit'
  <1>1. CASE window' = window
    BY <1>1 DEF WindowsCounted, WindowsOK, WindowsFit, Fitting
  <1>2. CASE window' = [window EXCEPT ![i] = @ \cup {Member(Rules[i], m)}]
    <2> DEFINE n == Member(Rules[i], m)
    <2>1. n \in [mark : Mark, event : Event] /\ n.mark = Rules[i].mark[n.event]
          /\ Matches(Rules[i], n.event) /\ n.event = m.event
      BY MarkType DEF Member
    <2>2. window \in [DOMAIN Rules -> SUBSET [mark : Mark, event : Event]]
      BY DEF WindowsCounted, WindowsOK
    <2> HIDE DEF n
    <2>3. window' = [window EXCEPT ![i] = window[i] \cup {n}]
      BY <1>2 DEF n
    <2>4. /\ window' \in [DOMAIN Rules -> SUBSET [mark : Mark, event : Event]]
          /\ window'[i] = window[i] \cup {n}
          /\ \A j \in DOMAIN Rules : j # i => window'[j] = window[j]
      BY <2>1, <2>2, <2>3
    <2>5. ASSUME NEW j \in DOMAIN Rules
          PROVE  /\ Rules[j].type = "match" => window'[j] = {}
                 /\ Fitting(j, window'[j])
                 /\ IsFiniteSet(window'[j])
                 /\ \E latest \in Int : \A o \in window'[j] : At[o.event] <= latest
      <3>1. /\ Rules[j].type = "match" => window[j] = {}
            /\ Fitting(j, window[j])
            /\ IsFiniteSet(window[j])
            /\ \E latest \in Int : \A o \in window[j] : At[o.event] <= latest
        BY DEF WindowsCounted, WindowsFit
      <3>2. CASE j # i
        BY <2>4, <3>1, <3>2
      <3>3. CASE j = i
        <4>1. PICK latest \in Int : \A o \in window[i] : At[o.event] <= latest
          BY <3>1, <3>3
        <4>2. At[n.event] \in Int /\ \A o \in window[i] : At[o.event] \in Int
          BY <2>1, <2>2, EventAssumption
        <4>0. IsFiniteSet(window'[i])
          <5>1. IsFiniteSet(window[i])
            BY <3>1, <3>3
          <5>2. IsFiniteSet(window[i] \cup {n})
            BY <5>1, FS_AddElement
          <5> QED
            BY <2>4, <5>2
        <4>3. CASE At[n.event] <= latest
          <5>1. \A o \in window'[i] : At[o.event] <= latest
            BY <2>4, <4>1, <4>3
          <5> QED
            BY <2>1, <2>4, <3>1, <3>3, <4>0, <5>1 DEF Fitting
        <4>4. CASE ~(At[n.event] <= latest)
          <5>1. \A o \in window'[i] : At[o.event] <= At[n.event]
            BY <2>4, <4>1, <4>2, <4>4
          <5> QED
            BY <2>1, <2>4, <3>1, <3>3, <4>0, <4>2, <5>1 DEF Fitting
        <4> QED
          BY <4>3, <4>4
      <3> QED
        BY <3>2, <3>3
    <2>6. WindowsFit'
      BY <2>5 DEF WindowsFit, Fitting
    <2> QED
      BY <2>4, <2>6
  <1> QED
    BY <1>1, <1>2

\* ... or to the memory of a process.
LEMMA AddedToMemory ==
    ASSUME WindowsCounted, NEW p \in Process, NEW i \in DOMAIN Rules,
           NEW m, m.event \in Event, Matches(Rules[i], m.event),
           memory' = [memory EXCEPT ![p][i] = Kept(Rules[i], m, memory[p][i])]
    PROVE  /\ memory' \in [Process -> [DOMAIN Rules -> SUBSET Placed]]
           /\ MemoryFits'
  <1> DEFINE kept == Kept(Rules[i], m, memory[p][i])
  <1>1. memory \in [Process -> [DOMAIN Rules -> SUBSET Placed]]
    BY DEF WindowsCounted, WindowsOK, Placed
  <1>2. PICK last \in Nat : \A n \in memory[p][i] : n.place <= last
    BY DEF WindowsCounted, MemoryFits
  <1>3. PICK new \in Placed :
              /\ new.mark = Rules[i].mark[m.event] /\ new.event = m.event
              /\ new.place <= last + 1
              /\ kept \subseteq memory[p][i] \cup {new}
    <2>1. Rules[i].mark[m.event] \in Mark
      BY MarkType
    <2>2. memory[p][i] \subseteq Placed
      BY <1>1
    <2> QED
      BY <1>2, <2>1, <2>2, KeptFacts
  <1>4. Fitting(i, kept)
    BY <1>3 DEF Fitting, WindowsCounted, MemoryFits
  <1>5. IsFiniteSet(kept)
    <2>1. IsFiniteSet(memory[p][i] \cup {new})
      BY FS_AddElement DEF WindowsCounted, MemoryFits
    <2> QED
      BY <1>3, <2>1, FS_Subset
  <1>6. \A n \in kept : n.place <= last + 1
    BY <1>1, <1>2, <1>3 DEF Placed
  <1> HIDE DEF kept
  <1>7. memory' = [memory EXCEPT ![p] = [memory[p] EXCEPT ![i] = kept]]
    BY Zenon DEF kept
  <1>8. kept \subseteq Placed
    BY <1>1, <1>3
  <1>9. [memory[p] EXCEPT ![i] = kept] \in [DOMAIN Rules -> SUBSET Placed]
    BY <1>1, <1>8
  <1>10. memory' \in [Process -> [DOMAIN Rules -> SUBSET Placed]]
    BY <1>1, <1>7, <1>9
  <1>11. ASSUME NEW q \in Process, NEW j \in DOMAIN Rules
         PROVE  memory'[q][j] = IF q = p /\ j = i THEN kept ELSE memory[q][j]
    BY <1>1, <1>7
  <1>12. ASSUME NEW q \in Process, NEW j \in DOMAIN Rules
         PROVE  /\ Fitting(j, memory'[q][j])
                /\ IsFiniteSet(memory'[q][j])
                /\ \E l \in Nat : \A n \in memory'[q][j] : n.place <= l
    <2>1. CASE q = p /\ j = i
      BY <1>4, <1>5, <1>6, <1>11, <2>1
    <2>2. CASE ~(q = p /\ j = i)
      BY <1>11, <2>2 DEF WindowsCounted, MemoryFits
    <2> QED
      BY <2>1, <2>2
  <1>13. MemoryFits'
    BY <1>12 DEF MemoryFits, Fitting
  <1> QED
    BY <1>10, <1>13

LEMMA WindowStep ==
    ASSUME Types, ProcessesOK, AtMatchingRule, WindowsCounted, [Next]_vars
    PROVE  WindowsCounted'
  <1>1. ASSUME UNCHANGED <<window, memory, counterUp>>
        PROVE  WindowsCounted'
    BY <1>1 DEF WindowsCounted, WindowsOK, WindowsFit, MemoryFits, Fitting
  <1>2. ASSUME NEW p \in Process, proc[p].pc \in {"record", "trim", "raise"}
        PROVE  /\ proc[p].rule \in DOMAIN Rules /\ Current(p).event \in Event
               /\ Matches(Rules[proc[p].rule], Current(p).event)
               /\ proc[p].pc # "raise" => Rules[proc[p].rule].type # "match"
    BY <1>2, CurrentFacts DEF ProcessesOK, AtMatchingRule
  <1>3. WindowsOK /\ WindowsFit /\ MemoryFits
    BY DEF WindowsCounted
  <1>4. ASSUME NEW p \in Process, Record(p)
        PROVE  WindowsCounted'
    <2>1. /\ window' = [window EXCEPT ![proc[p].rule] =
                            @ \cup {Member(Rules[proc[p].rule], Current(p))}]
          /\ proc[p].pc = "record" /\ UNCHANGED <<memory, counterUp>>
      BY <1>4 DEF Record
    <2>2. window' \in [DOMAIN Rules -> SUBSET [mark : Mark, event : Event]] /\ WindowsFit'
      BY <1>2, <2>1, AddedToWindow
    <2> QED
      BY <1>3, <2>1, <2>2 DEF WindowsCounted, WindowsOK, MemoryFits, Fitting
  <1>5. ASSUME NEW p \in Process, Trim(p)
        PROVE  WindowsCounted'
    <2> DEFINE i == proc[p].rule
               left == {m \in window[i] : SameKey(Rules[i], Current(p).event, m.event) =>
                                   At[m.event] > Cutoff(Rules[i], Current(p).event)}
    <2>1. /\ window' = [window EXCEPT ![i] = left]
          /\ proc[p].pc = "trim" /\ UNCHANGED <<memory, counterUp>>
      BY <1>5, Zenon DEF Trim
    <2>2. i \in DOMAIN Rules
      BY <1>2, <2>1
    <2>3. left \subseteq window[i]
      OBVIOUS
    <2> HIDE DEF left, i
    <2>4. /\ window' \in [DOMAIN Rules -> SUBSET [mark : Mark, event : Event]]
          /\ \A j \in DOMAIN Rules : window'[j] \subseteq window[j]
      BY <1>3, <2>1, <2>2, <2>3 DEF WindowsOK
    <2>5. WindowsFit'
      <3> SUFFICES ASSUME NEW j \in DOMAIN Rules
                   PROVE  /\ Rules[j].type = "match" => window'[j] = {}
                          /\ Fitting(j, window'[j])
                          /\ IsFiniteSet(window'[j])
                          /\ \E latest \in Int : \A n \in window'[j] : At[n.event] <= latest
        BY DEF WindowsFit, Fitting
      <3>1. /\ Rules[j].type = "match" => window[j] = {}
            /\ Fitting(j, window[j])
            /\ IsFiniteSet(window[j])
            /\ \E latest \in Int : \A n \in window[j] : At[n.event] <= latest
        BY <1>3 DEF WindowsFit
      <3>2. window'[j] \subseteq window[j]
        BY <2>4
      <3>3. IsFiniteSet(window'[j])
        BY <3>1, <3>2, FS_Subset
      <3> QED
        BY <3>1, <3>2, <3>3 DEF Fitting
    <2> QED
      BY <1>3, <2>1, <2>4, <2>5 DEF WindowsCounted, WindowsOK, MemoryFits, Fitting
  <1>6. ASSUME NEW p \in Process, FallBack(p) \/ CounterFails(p)
        PROVE  WindowsCounted'
    <2> DEFINE i == proc[p].rule
               m == Current(p)
    <2>1. /\ proc[p].pc \in {"record", "trim", "raise"}
          /\ proc[p].pc = "raise" => Rules[i].type # "match"
          /\ window' \in {window, [window EXCEPT ![i] = @ \cup {Member(Rules[i], m)}]}
          /\ counterUp' \in {counterUp, [counterUp EXCEPT ![p] = FALSE]}
          /\ CountInMemory(p)
      BY <1>6 DEF FallBack, CounterFails
    <2>2. i \in DOMAIN Rules /\ m.event \in Event /\ Matches(Rules[i], m.event)
          /\ Rules[i].type # "match"
      BY <1>2, <2>1
    <2>3. memory' = [memory EXCEPT ![p][i] = Kept(Rules[i], m, memory[p][i])]
      BY <2>1 DEF CountInMemory
    <2> HIDE DEF i, m
    <2>4. window' \in [DOMAIN Rules -> SUBSET [mark : Mark, event : Event]] /\ WindowsFit'
      BY <2>1, <2>2, AddedToWindow
    <2>5. memory' \in [Process -> [DOMAIN Rules -> SUBSET Placed]] /\ MemoryFits'
      BY <2>2, <2>3, AddedToMemory
    <2>6. counterUp' \in [Process -> BOOLEAN]
      BY <1>3, <2>1 DEF WindowsOK
    <2> QED
      BY <2>4, <2>5, <2>6 DEF WindowsCounted, WindowsOK, Placed
  <1>7. ASSUME NEW w \in Worker, Crash(w)
        PROVE  WindowsCounted'
    <2> DEFINE none == [i \in DOMAIN Rules |-> {}]
    <2>1. /\ memory' = [memory EXCEPT ![w] = none]
          /\ counterUp' = [counterUp EXCEPT ![w] = TRUE] /\ window' = window
          /\ w \in Process
      BY <1>7 DEF Crash, Process
    <2>2. memory' \in [Process -> [DOMAIN Rules -> SUBSET Placed]]
          /\ \A q \in Process, j \in DOMAIN Rules :
                memory'[q][j] = memory[q][j] \/ memory'[q][j] = {}
      BY <1>3, <2>1 DEF WindowsOK, Placed
    <2>3. ASSUME NEW q \in Process, NEW j \in DOMAIN Rules
          PROVE  /\ Fitting(j, memory'[q][j])
                 /\ IsFiniteSet(memory'[q][j])
                 /\ \E l \in Nat : \A n \in memory'[q][j] : n.place <= l
      <3>1. CASE memory'[q][j] = memory[q][j]
        BY <1>3, <3>1 DEF MemoryFits
      <3>2. CASE memory'[q][j] = {}
        BY <3>2, FS_EmptySet DEF Fitting
      <3> QED
        BY <2>2, <3>1, <3>2
    <2>4. MemoryFits'
      BY <2>3 DEF MemoryFits, Fitting
    <2>5. counterUp' \in [Process -> BOOLEAN]
      BY <1>3, <2>1 DEF WindowsOK
    <2>6. WindowsFit'
      BY <1>3, <2>1 DEF WindowsFit, Fitting
    <2> QED
      BY <1>3, <2>1, <2>2, <2>4, <2>5, <2>6 DEF WindowsCounted, WindowsOK, Placed
  <1>8. ASSUME NEW q \in Request, Save(q) \/ Publish(q) \/ CommitIngest(q) \/ FailIngest(q)
        PROVE  WindowsCounted'
    BY <1>1, <1>8 DEF Save, Publish, CommitIngest, FailIngest, countVars
  <1>9. ASSUME NEW w \in Worker, Read(w) \/ CommitMessage(w) \/ Ack(w) \/ Fail(w)
        PROVE  WindowsCounted'
    BY <1>1, <1>9 DEF Read, CommitMessage, Ack, Fail, countVars
  <1>10. ASSUME Inject \/ Injected \/ FailScenario \/ Elapse \/ UNCHANGED vars
         PROVE  WindowsCounted'
    BY <1>1, <1>10 DEF Inject, Injected, FailScenario, Elapse, vars, countVars
  <1>11. ASSUME NEW p \in Process, Raise(p)
         PROVE  WindowsCounted'
    BY <1>1, <1>11 DEF Raise, countVars
  <1> QED
    BY <1>4, <1>5, <1>6, <1>7, <1>8, <1>9, <1>10, <1>11 DEF Next, WorkerStep, Evaluate, Process

-----------------------------------------------------------------------------
\* Where processes are

\* A process at a rule that the event in its hands matches, or past all rules.
AtRuleOf(s, e) ==
    s.pc \in {"record", "trim", "raise"} =>
        /\ s.rule \in DOMAIN Rules /\ Matches(Rules[s.rule], e)
        /\ s.pc # "raise" => Rules[s.rule].type # "match"

LEMMA OnwardIsAtRule ==
    ASSUME NEW s, NEW e, NEW i, Onward(s, e, i)
    PROVE  AtRuleOf(s, e)
BY DEF Onward, AtRuleOf

\* A step of an evaluation: the rule at hand goes on, or the next one begins.
GoesOn(p, new) ==
    /\ proc' = [proc EXCEPT ![p] = new]
    /\ IsState(new) /\ new.inbox = proc[p].inbox /\ new.ingested = proc[p].ingested
    /\ proc[p].pc \in {"record", "trim", "raise"} /\ proc[p].rule \in DOMAIN Rules
    /\ new.pc \in {"record", "trim", "raise", "evaluated"}
    /\ AtRuleOf(new, Current(p).event)
    /\ new.rule \in Nat /\ new.rule >= proc[p].rule
    /\ new.draft \subseteq Alert /\ proc[p].draft \subseteq new.draft
    /\ \A a \in new.draft \ proc[p].draft :
          a.event = Current(p).event /\ a.rule = proc[p].rule

LEMMA MatchedEvents ==
    ASSUME NEW r, NEW entries, NEW rank
    PROVE  Matched(r, entries, rank) \subseteq {n.event : n \in entries}
BY DEF Matched

LEMMA RaisedTypes ==
    ASSUME Types, NEW p \in Process, proc[p].pc # "idle", proc[p].rule \in DOMAIN Rules,
           NEW matched, matched \subseteq Event, NEW marks, NEW source \in {"redis", "memory"}
    PROVE  Raised(p, proc[p].rule, Current(p), matched, marks, source) \subseteq Alert
  <1> DEFINE a == [rule |-> proc[p].rule, event |-> Current(p).event,
                   ingested |-> Current(p).ingested, by |-> p,
                   matched |-> matched, source |-> source]
  <1>1. Current(p).event \in Event /\ Current(p).ingested \in Nat
    BY CurrentFacts, CurrentTime
  <1>2. a \in Alert
    BY <1>1 DEF Alert
  <1> HIDE DEF a
  <1> QED
    BY <1>2 DEF Raised, a

LEMMA FinishGoesOn ==
    ASSUME Types, ProcessesOK, NEW p \in Process, proc[p].pc \in {"record", "trim", "raise"},
           NEW matched, matched \subseteq Event, NEW marks, NEW source \in {"redis", "memory"},
           Finish(p, matched, marks, source)
    PROVE  \E new : GoesOn(p, new)
  <1>1. proc[p].rule \in DOMAIN Rules /\ proc[p].rule \in Nat /\ proc[p].draft \subseteq Alert
    BY RulesFacts DEF ProcessesOK
  <1>2. PICK new : Finished(p, new, matched, marks, source)
    BY <1>1, FinishFacts
  <1>3. AtRuleOf(new, Current(p).event)
    BY <1>2, OnwardIsAtRule DEF Finished
  <1>4. new.draft \subseteq Alert
    BY <1>1, <1>2, RaisedTypes DEF Finished
  <1>5. \A a \in new.draft \ proc[p].draft :
            a.event = Current(p).event /\ a.rule = proc[p].rule
    BY <1>2 DEF Finished, Raised
  <1>6. GoesOn(p, new)
    BY <1>1, <1>2, <1>3, <1>4, <1>5 DEF Finished, Onward, GoesOn
  <1> QED
    BY <1>6

LEMMA EvaluationGoesOn ==
    ASSUME Types, ProcessesOK, AtMatchingRule, WindowsCounted, NEW p \in Process,
           Evaluate(p) \/ CounterFails(p)
    PROVE  \E new : GoesOn(p, new)
  <1> DEFINE i == proc[p].rule
             r == Rules[i]
             m == Current(p)
  <1>1. proc[p].pc \in {"record", "trim", "raise"}
    BY DEF Evaluate, Record, Trim, Raise, FallBack, CounterFails
  <1>2. /\ i \in DOMAIN Rules /\ i \in Nat /\ m.event \in Event /\ Matches(r, m.event)
        /\ proc[p].pc # "raise" => r.type # "match"
        /\ proc[p].draft \subseteq Alert /\ IsState(proc[p])
    BY <1>1, RulesFacts, CurrentFacts DEF ProcessesOK, AtMatchingRule, Types, ProcessTypes
  <1>3. ASSUME NEW pc \in {"trim", "raise"}, proc[p].pc # "raise",
               proc' = [proc EXCEPT ![p] = WithPc(proc[p], pc)]
        PROVE  \E new : GoesOn(p, new)
    <2> DEFINE new == WithPc(proc[p], pc)
    <2>1. /\ IsState(new) /\ new.pc = pc /\ new.inbox = proc[p].inbox /\ new.rule = i
          /\ new.draft = proc[p].draft /\ new.ingested = proc[p].ingested
      BY <1>2, StateWithPc
    <2>2. proc' = [proc EXCEPT ![p] = new]
      BY <1>3
    <2> HIDE DEF new
    <2>3. AtRuleOf(new, m.event)
      BY <1>2, <1>3, <2>1 DEF AtRuleOf
    <2>4. GoesOn(p, new)
      BY <1>1, <1>2, <2>1, <2>2, <2>3 DEF GoesOn
    <2> QED
      BY <2>4
  <1>4. CASE Record(p)
    <2>1. proc[p].pc = "record" /\ proc' = [proc EXCEPT ![p] = WithPc(proc[p], "trim")]
      BY <1>4, Zenon DEF Record, WithPc
    <2> QED
      BY <1>3, <2>1
  <1>5. CASE Trim(p)
    <2>1. proc[p].pc = "trim" /\ proc' = [proc EXCEPT ![p] = WithPc(proc[p], "raise")]
      BY <1>5, Zenon DEF Trim, WithPc
    <2> QED
      BY <1>3, <2>1
  <1>6. CASE Raise(p)
    <2> DEFINE entries == IF r.type = "match" THEN {Member(r, m)}
                          ELSE Entries(r, m.event, window[i])
               matched == Matched(r, entries, [n \in entries |-> At[n.event]])
    <2>1. Finish(p, matched, Counted(r, m.event, entries), "redis")
      BY <1>6, Zenon DEF Raise
    <2>2. \A n \in entries : n.event \in Event
      <3>1. CASE r.type = "match"
        BY <1>2, <3>1 DEF Member
      <3>2. CASE r.type # "match"
        <4>1. entries \subseteq window[i]
          BY <3>2 DEF Entries
        <4>2. window[i] \subseteq [mark : Mark, event : Event]
          BY <1>2 DEF WindowsCounted, WindowsOK
        <4> QED
          BY <4>1, <4>2
      <3> QED
        BY <3>1, <3>2
    <2> HIDE DEF entries
    <2>3. matched \subseteq Event
      BY <2>2, MatchedEvents
    <2> HIDE DEF matched
    <2> QED
      BY <1>1, <2>1, <2>3, FinishGoesOn
  <1>7. ASSUME CountInMemory(p)
        PROVE  \E new : GoesOn(p, new)
    <2> DEFINE store == Kept(r, m, memory[p][i])
               entries == {n \in store : SameKey(r, m.event, n.event)}
               matched == Matched(r, entries, [n \in entries |-> n.place])
               counted == Counted(r, m.event, entries)
    <2>1. Finish(p, matched, counted, "memory")
      BY <1>7, Zenon DEF CountInMemory
    <2>2. \A n \in store : n.event \in Event
      <3>1. \A n \in memory[p][i] : n.event \in Event
        BY <1>2 DEF WindowsCounted, WindowsOK
      <3>2. \A n \in store : n \in memory[p][i] \/ n.event = m.event
        BY DEF Kept
      <3> QED
        BY <1>2, <3>1, <3>2
    <2> HIDE DEF store
    <2>3. \A n \in entries : n.event \in Event
      BY <2>2
    <2> HIDE DEF entries, counted
    <2>4. matched \subseteq Event
      BY <2>3, MatchedEvents
    <2> HIDE DEF matched
    <2> QED
      BY <1>1, <2>1, <2>4, FinishGoesOn
  <1> QED
    BY <1>4, <1>5, <1>6, <1>7 DEF Evaluate, FallBack, CounterFails

\* The other processes stay where they are.
LEMMA ProcessesKept ==
    ASSUME Types, ProcessesOK, AtMatchingRule, StreamGrows,
           NEW p \in Process, NEW new, proc' = [proc EXCEPT ![p] = new],
           delivered' \in Nat, delivered <= delivered', alerts' \subseteq Alert,
           acked' \subseteq 1 .. delivered', processed' \subseteq 1 .. delivered',
           new.pc \in {"idle", "record", "trim", "raise", "evaluated", "committed"},
           new.draft \subseteq Alert, AtRuleOf(new, Current(p)'.event),
           p \in Worker => \A k \in 1 .. Len(new.inbox) : new.inbox[k] \in 1 .. delivered'
    PROVE  ProcessesOK' /\ AtMatchingRule'
  <1>1. proc'[p] = new /\ \A q \in Process : q # p => proc'[q] = proc[q]
    BY DEF Types, ProcessTypes
  <1>2. \A q \in Process :
          /\ proc'[q].pc \in {"idle", "record", "trim", "raise", "evaluated", "committed"}
          /\ proc'[q].draft \subseteq Alert
          /\ proc'[q].pc \in {"record", "trim", "raise"} => proc'[q].rule \in DOMAIN Rules
    BY <1>1 DEF ProcessesOK, AtRuleOf
  <1>3. ASSUME NEW w \in Worker, NEW k \in 1 .. Len(proc'[w].inbox)
        PROVE  proc'[w].inbox[k] \in 1 .. delivered'
    <2>1. CASE w = p
      BY <1>1, <1>3, <2>1
    <2>2. CASE w # p
      <3>1. proc'[w] = proc[w]
        BY <1>1, <2>2 DEF Process
      <3>2. proc[w].inbox[k] \in 1 .. delivered
        BY <1>3, <3>1 DEF ProcessesOK
      <3>3. delivered \in Nat
        BY DEF Types
      <3> QED
        BY <3>1, <3>2, <3>3
    <2> QED
      BY <2>1, <2>2
  <1>4. ProcessesOK'
    BY <1>2, <1>3 DEF ProcessesOK, Alert
  <1>5. ASSUME NEW q \in Process, proc'[q].pc \in {"record", "trim", "raise"}
        PROVE  /\ Matches(Rules[proc'[q].rule], Current(q)'.event)
               /\ proc'[q].pc # "raise" => Rules[proc'[q].rule].type # "match"
    <2>1. CASE q = p
      BY <1>1, <1>5, <2>1 DEF AtRuleOf
    <2>2. CASE q # p
      <3>1. proc'[q] = proc[q] /\ proc[q].pc # "idle"
        BY <1>1, <1>5, <2>2
      <3>2. Current(q)' = Current(q)
        BY <3>1, CurrentKept
      <3> QED
        BY <1>5, <3>1, <3>2 DEF AtMatchingRule
    <2> QED
      BY <2>1, <2>2
  <1>6. AtMatchingRule'
    BY <1>5 DEF AtMatchingRule, Matches
  <1> QED
    BY <1>4, <1>6

\* ... and nothing is given out or committed.
LEMMA ProcessesKeptHere ==
    ASSUME Types, ProcessesOK, AtMatchingRule, StreamGrows,
           NEW p \in Process, NEW new, proc' = [proc EXCEPT ![p] = new],
           UNCHANGED <<delivered, acked, processed>>, alerts' \subseteq Alert,
           new.pc \in {"idle", "record", "trim", "raise", "evaluated", "committed"},
           new.draft \subseteq Alert, AtRuleOf(new, Current(p)'.event),
           p \in Worker => \A k \in 1 .. Len(new.inbox) : new.inbox[k] \in 1 .. delivered
    PROVE  ProcessesOK' /\ AtMatchingRule'
  <1>1. /\ delivered' \in Nat /\ delivered <= delivered'
        /\ acked' \subseteq 1 .. delivered' /\ processed' \subseteq 1 .. delivered'
    BY DEF Types, ProcessesOK
  <1>2. p \in Worker => \A k \in 1 .. Len(new.inbox) : new.inbox[k] \in 1 .. delivered'
    OBVIOUS
  <1> QED
    BY <1>1, <1>2, ProcessesKept

\* A worker begins with the first message of an inbox.
LEMMA BeginMessageIsAtRule ==
    ASSUME UNCHANGED stream, NEW w \in Worker, NEW inbox,
           proc'[w] = BeginMessage(inbox)
    PROVE  /\ AtRuleOf(BeginMessage(inbox), Current(w)'.event)
           /\ BeginMessage(inbox).pc \in {"idle", "record", "raise", "evaluated"}
  <1>1. /\ BeginMessage(inbox).inbox = inbox
        /\ BeginMessage(inbox).pc \in {"idle", "record", "raise", "evaluated"}
        /\ BeginMessage(inbox).pc # "idle" => inbox # << >>
    BY BeginMessageState
  <1>2. w # simulator
    BY ProcessAssumption
  <1>3. CASE inbox = << >>
    BY <1>1, <1>3 DEF AtRuleOf
  <1>4. CASE inbox # << >>
    <2>1. Current(w)' = stream[Head(inbox)]
      BY <1>1, <1>2 DEF Current
    <2>2. Onward(BeginMessage(inbox), stream[Head(inbox)].event, 0)
      BY <1>4, BeginMessageFacts
    <2> QED
      BY <1>1, <2>1, <2>2, OnwardIsAtRule
  <1> QED
    BY <1>3, <1>4

LEMMA AddedInterval ==
    ASSUME NEW a \in Nat, NEW b \in Nat, NEW k \in 1 .. b - a
    PROVE  a + k \in 1 .. b
OBVIOUS

\* What Read gives out: the messages after those that were given out before.
LEMMA ReadFacts ==
    ASSUME Types, NEW w \in Worker, Read(w)
    PROVE  \E inbox \in Seq(Nat) :
              /\ proc' = [proc EXCEPT ![w] = BeginMessage(inbox)]
              /\ proc[w].pc = "idle"
              /\ delivered' \in Nat /\ delivered < delivered' /\ delivered' <= Len(stream)
              /\ Len(inbox) = delivered' - delivered
              /\ \A n \in 1 .. Len(inbox) : inbox[n] = delivered + n
              /\ UNCHANGED <<ingestVars, alerts, stream, acked, processed, countVars,
                             timeVars, faults>>
  <1> DEFINE last == Min({delivered + ReadCount, Len(stream)})
             inbox == [n \in 1 .. last - delivered |-> delivered + n]
  <1>1. /\ delivered \in Nat /\ Len(stream) \in Nat /\ ReadCount \in Nat \ {0}
        /\ delivered < Len(stream)
    BY BoundAssumption DEF Read, Types
  <1>2. last \in delivered + 1 .. Len(stream)
    <2>1. delivered + ReadCount \in Int /\ Len(stream) \in Int
      BY <1>1
    <2>2. /\ last \in {delivered + ReadCount, Len(stream)}
          /\ last <= delivered + ReadCount /\ last <= Len(stream)
      BY <2>1, MinOfTwo
    <2> HIDE DEF last
    <2> QED
      BY <1>1, <2>2
  <1>3. /\ proc' = [proc EXCEPT ![w] = BeginMessage(inbox)] /\ delivered' = last
        /\ proc[w].pc = "idle"
        /\ UNCHANGED <<ingestVars, alerts, stream, acked, processed, countVars, timeVars, faults>>
    BY Zenon DEF Read
  <1> HIDE DEF last
  <1>4. inbox \in Seq(Nat) /\ Len(inbox) = last - delivered
    BY <1>1, <1>2
  <1>5. \A n \in 1 .. Len(inbox) : inbox[n] = delivered + n
    BY <1>1, <1>2, <1>4
  <1>6. last \in Nat /\ delivered < last /\ last <= Len(stream)
    BY <1>1, <1>2
  <1> HIDE DEF inbox
  <1> QED
    BY <1>3, <1>4, <1>5, <1>6

LEMMA StreamGrowsStep ==
    ASSUME Types, [Next]_vars
    PROVE  StreamGrows
  <1>1. ASSUME UNCHANGED stream PROVE StreamGrows
    BY <1>1 DEF Types, StreamGrows
  <1>2. ASSUME NEW m \in Message, PublishMessage(m) PROVE StreamGrows
    BY <1>2, PublishedMessage DEF Types, StreamGrows
  <1>3. ASSUME NEW q \in Request, Publish(q) PROVE StreamGrows
    <2>1. Normalize(Payload(q)[request[q].sent + 1], request[q].ingested) \in Message
      <3>1. /\ Payload(q) \in Seq(Event)
            /\ request[q].sent \in Nat /\ request[q].ingested \in Nat
            /\ request[q].sent < Len(Payload(q))
        BY <1>3, PayloadTypes DEF Publish, Types, RequestTypes
      <3> QED
        BY <3>1 DEF Normalize, Message
    <2> QED
      BY <1>2, <1>3, <2>1 DEF Publish
  <1>4. ASSUME Inject PROVE StreamGrows
    <2>1. Normalize(Head(proc[simulator].inbox), clock + 1) \in Message
      <3>1. /\ proc[simulator].inbox \in Seq(Event) /\ proc[simulator].inbox # << >>
            /\ clock \in Nat
        BY <1>4 DEF Inject, Types, ProcessTypes
      <3> QED
        BY <3>1 DEF Normalize, Message
    <2> QED
      BY <1>2, <1>4, <2>1 DEF Inject
  <1>5. ASSUME NEW q \in Request, Save(q) \/ CommitIngest(q) \/ FailIngest(q)
        PROVE  UNCHANGED stream
    BY <1>5 DEF Save, CommitIngest, FailIngest, streamVars
  <1>6. ASSUME NEW p \in Process, Evaluate(p) \/ CounterFails(p)
        PROVE  UNCHANGED stream
    BY <1>6, EvaluationStep DEF streamVars
  <1>7. ASSUME NEW w \in Worker, Read(w) \/ CommitMessage(w) \/ Ack(w) \/ Fail(w) \/ Crash(w)
        PROVE  UNCHANGED stream
    BY <1>7 DEF Read, CommitMessage, Ack, Fail, Crash, streamVars
  <1>8. ASSUME Injected \/ FailScenario \/ Elapse \/ UNCHANGED vars
        PROVE  UNCHANGED stream
    BY <1>8 DEF Injected, FailScenario, Elapse, vars, streamVars
  <1> QED
    BY <1>1, <1>3, <1>4, <1>5, <1>6, <1>7, <1>8 DEF Next, WorkerStep, Process

\* Where nothing happens to processes, they stay where they are.
LEMMA ProcessesUntouched ==
    ASSUME Types, ProcessesOK, AtMatchingRule, StreamGrows,
           UNCHANGED <<proc, alerts, delivered, acked, processed>>
    PROVE  ProcessesOK' /\ AtMatchingRule'
  <1>1. ProcessesOK'
    BY DEF ProcessesOK, Alert
  <1>2. ASSUME NEW p \in Process, proc[p].pc \in {"record", "trim", "raise"}
        PROVE  Current(p)' = Current(p)
    BY <1>2, CurrentKept
  <1>3. AtMatchingRule'
    BY <1>2 DEF AtMatchingRule, Matches
  <1> QED
    BY <1>1, <1>3

LEMMA ProcessesStep ==
    ASSUME Types, ProcessesOK, AtMatchingRule, WindowsCounted, [Next]_vars
    PROVE  ProcessesOK' /\ AtMatchingRule'
  <1>0. StreamGrows /\ delivered \in Nat
    BY StreamGrowsStep DEF Types
  <1>00. /\ alerts \subseteq Alert
         /\ acked \subseteq 1 .. delivered /\ processed \subseteq 1 .. delivered
         /\ \A p \in Process : proc[p].draft \subseteq Alert
    BY DEF ProcessesOK
  <1>1. ASSUME NEW p \in Process, Evaluate(p) \/ CounterFails(p)
        PROVE  ProcessesOK' /\ AtMatchingRule'
    <2>1. PICK new : GoesOn(p, new)
      BY <1>1, EvaluationGoesOn
    <2>2. UNCHANGED <<alerts, streamVars>>
      BY <1>1, EvaluationStep
    <2>3. proc' = [proc EXCEPT ![p] = new] /\ proc'[p] = new
      BY <2>1 DEF GoesOn, Types, ProcessTypes
    <2>4. Current(p)' = Current(p)
      BY <1>0, <2>1, <2>3, CurrentKept DEF GoesOn
    <2>5. p \in Worker => \A k \in 1 .. Len(new.inbox) : new.inbox[k] \in 1 .. delivered'
      BY <2>1, <2>2 DEF GoesOn, ProcessesOK, streamVars
    <2>6. /\ UNCHANGED <<delivered, acked, processed>> /\ alerts' \subseteq Alert
          /\ new.pc \in {"idle", "record", "trim", "raise", "evaluated", "committed"}
          /\ new.draft \subseteq Alert /\ AtRuleOf(new, Current(p)'.event)
      BY <1>00, <2>1, <2>2, <2>4 DEF GoesOn, streamVars
    <2>7. p \in Worker => \A k \in 1 .. Len(new.inbox) : new.inbox[k] \in 1 .. delivered
      BY <2>5, <2>6
    <2> QED
      BY <1>0, <2>3, <2>6, <2>7, ProcessesKeptHere
  <1>2. ASSUME NEW w \in Worker, Read(w)
        PROVE  ProcessesOK' /\ AtMatchingRule'
    <2>1. PICK inbox \in Seq(Nat) :
              /\ proc' = [proc EXCEPT ![w] = BeginMessage(inbox)]
              /\ delivered' \in Nat /\ delivered < delivered'
              /\ Len(inbox) = delivered' - delivered
              /\ \A n \in 1 .. Len(inbox) : inbox[n] = delivered + n
              /\ UNCHANGED <<alerts, stream, acked, processed>>
      BY <1>2, ReadFacts
    <2> DEFINE new == BeginMessage(inbox)
    <2>2. w \in Process /\ proc'[w] = new
      BY <2>1 DEF Types, ProcessTypes, Process
    <2>3. AtRuleOf(new, Current(w)'.event) /\ new.pc \in {"idle", "record", "raise", "evaluated"}
      BY <2>1, <2>2, BeginMessageIsAtRule
    <2>4. new.inbox = inbox /\ new.draft = {}
      BY BeginMessageState
    <2>5. ASSUME NEW k \in 1 .. Len(inbox) PROVE inbox[k] \in 1 .. delivered'
      <3>1. inbox[k] = delivered + k
        BY <2>1
      <3>2. k \in 1 .. delivered' - delivered
        BY <2>1
      <3>3. delivered \in Nat /\ delivered' \in Nat
        BY <1>0, <2>1
      <3>4. delivered + k \in 1 .. delivered'
        BY <3>2, <3>3, AddedInterval
      <3> QED
        BY <3>1, <3>4
    <2> HIDE DEF new
    <2>6. acked' \subseteq 1 .. delivered' /\ processed' \subseteq 1 .. delivered'
      BY <1>0, <1>00, <2>1
    <2>7. proc' = [proc EXCEPT ![w] = new]
      BY <2>1 DEF new
    <2>8. /\ delivered' \in Nat /\ delivered <= delivered' /\ alerts' \subseteq Alert
          /\ new.pc \in {"idle", "record", "trim", "raise", "evaluated", "committed"}
          /\ new.draft \subseteq Alert
      BY <1>0, <1>00, <2>1, <2>3, <2>4
    <2>9. \A k \in 1 .. Len(new.inbox) : new.inbox[k] \in 1 .. delivered'
      BY <2>4, <2>5
    <2>10. AtRuleOf(new, Current(w)'.event)
      BY <2>3
    <2> QED
      BY <1>0, <2>2, <2>6, <2>7, <2>8, <2>9, <2>10, ProcessesKept
  <1>3. ASSUME NEW w \in Worker, Ack(w) \/ Fail(w)
        PROVE  ProcessesOK' /\ AtMatchingRule'
    <2> DEFINE inbox == Tail(proc[w].inbox)
               new == BeginMessage(inbox)
    <2>1. /\ proc' = [proc EXCEPT ![w] = new] /\ proc[w].pc # "idle"
          /\ UNCHANGED <<alerts, stream, delivered, processed>>
          /\ acked' \subseteq acked \cup {Head(proc[w].inbox)}
      BY <1>3 DEF Ack, Fail, streamVars
    <2>2. w \in Process /\ proc'[w] = new
      BY <2>1 DEF Types, ProcessTypes, Process
    <2>3. AtRuleOf(new, Current(w)'.event) /\ new.pc \in {"idle", "record", "raise", "evaluated"}
      BY <2>1, <2>2, BeginMessageIsAtRule
    <2>4. new.inbox = inbox /\ new.draft = {}
      BY BeginMessageState
    <2>5. /\ Head(proc[w].inbox) \in 1 .. delivered
          /\ \A k \in 1 .. Len(inbox) : inbox[k] \in 1 .. delivered
      <3> DEFINE s == proc[w].inbox
      <3>1. s \in Seq(Nat) /\ s # << >> /\ \A k \in 1 .. Len(s) : s[k] \in 1 .. delivered
        BY <2>1, InboxOfWorker DEF ProcessesOK
      <3>2. /\ Len(Tail(s)) = Len(s) - 1 /\ Len(s) \in Nat \ {0} /\ Head(s) = s[1]
            /\ \A k \in 1 .. Len(Tail(s)) : Tail(s)[k] = s[k + 1]
        BY <3>1, TailOfInbox
      <3> HIDE DEF s
      <3>3. ASSUME NEW k \in 1 .. Len(Tail(s)) PROVE Tail(s)[k] \in 1 .. delivered
        <4>1. k + 1 \in 1 .. Len(s)
          BY <3>2
        <4> QED
          BY <3>1, <3>2, <4>1
      <3>4. Head(s) \in 1 .. delivered
        BY <3>1, <3>2
      <3> QED
        BY <3>3, <3>4 DEF s
    <2> HIDE DEF new, inbox
    <2>6. /\ acked' \subseteq 1 .. delivered' /\ processed' \subseteq 1 .. delivered'
          /\ delivered' \in Nat /\ delivered <= delivered' /\ alerts' \subseteq Alert
          /\ new.pc \in {"idle", "record", "trim", "raise", "evaluated", "committed"}
          /\ new.draft \subseteq Alert
      BY <1>0, <1>00, <2>1, <2>3, <2>4, <2>5
    <2>7. \A k \in 1 .. Len(new.inbox) : new.inbox[k] \in 1 .. delivered'
      BY <2>1, <2>4, <2>5
    <2>8. AtRuleOf(new, Current(w)'.event)
      BY <2>3
    <2>9. proc' = [proc EXCEPT ![w] = new]
      BY <2>1
    <2> QED
      BY <1>0, <2>2, <2>6, <2>7, <2>8, <2>9, ProcessesKept
  <1>4. ASSUME NEW w \in Worker, CommitMessage(w)
        PROVE  ProcessesOK' /\ AtMatchingRule'
    <2> DEFINE new == WithPc(proc[w], "committed")
    <2>1. /\ proc' = [proc EXCEPT ![w] = new] /\ proc[w].pc = "evaluated"
          /\ alerts' = alerts \cup proc[w].draft
          /\ processed' = processed \cup {Head(proc[w].inbox)}
          /\ UNCHANGED <<stream, delivered, acked>>
      BY <1>4, Zenon DEF CommitMessage, WithPc
    <2>2. w \in Process /\ IsState(proc[w])
      BY DEF Types, ProcessTypes, Process
    <2>3. new.pc = "committed" /\ new.inbox = proc[w].inbox /\ new.draft = proc[w].draft
      BY <2>2, StateWithPc
    <2> HIDE DEF new
    <2>4. AtRuleOf(new, Current(w)'.event)
      BY <2>3 DEF AtRuleOf
    <2>5. /\ \A k \in 1 .. Len(proc[w].inbox) : proc[w].inbox[k] \in 1 .. delivered
          /\ Head(proc[w].inbox) \in 1 .. delivered
      <3>1. /\ proc[w].inbox \in Seq(Nat) /\ proc[w].inbox # << >>
            /\ \A k \in 1 .. Len(proc[w].inbox) : proc[w].inbox[k] \in 1 .. delivered
        BY <2>1, InboxOfWorker DEF ProcessesOK
      <3>2. Len(proc[w].inbox) \in Nat \ {0} /\ Head(proc[w].inbox) = proc[w].inbox[1]
        BY <3>1, TailOfInbox
      <3> QED
        BY <3>1, <3>2
    <2>6. /\ alerts' \subseteq Alert /\ new.draft \subseteq Alert
          /\ acked' \subseteq 1 .. delivered' /\ processed' \subseteq 1 .. delivered'
          /\ delivered' \in Nat /\ delivered <= delivered'
      <3>1. proc[w].draft \subseteq Alert
        BY <1>00, <2>2
      <3>2. alerts' \subseteq Alert /\ new.draft \subseteq Alert
        BY <1>00, <2>1, <2>3, <3>1
      <3>3. acked' \subseteq 1 .. delivered' /\ processed' \subseteq 1 .. delivered'
        BY <1>00, <2>1, <2>5
      <3>4. delivered' \in Nat /\ delivered <= delivered'
        BY <1>0, <2>1
      <3> QED
        BY <3>2, <3>3, <3>4
    <2>7. \A k \in 1 .. Len(new.inbox) : new.inbox[k] \in 1 .. delivered'
      BY <2>1, <2>3, <2>5
    <2>8. proc' = [proc EXCEPT ![w] = new]
      BY <2>1
    <2> QED
      BY <1>0, <2>2, <2>3, <2>4, <2>6, <2>7, <2>8, ProcessesKept
  <1>5. ASSUME NEW w \in Worker, Crash(w)
        PROVE  ProcessesOK' /\ AtMatchingRule'
    <2>1. /\ proc' = [proc EXCEPT ![w] = Idle] /\ w \in Process
          /\ UNCHANGED <<alerts, streamVars>>
      BY <1>5 DEF Crash, Process
    <2>2. AtRuleOf(Idle, Current(w)'.event) /\ \A k \in 1 .. Len(Idle.inbox) : FALSE
      BY IdleState DEF AtRuleOf
    <2>3. UNCHANGED <<delivered, acked, processed>> /\ alerts' \subseteq Alert
      BY <1>00, <2>1 DEF streamVars
    <2>4. Idle.pc = "idle" /\ Idle.draft \subseteq Alert
      BY IdleState
    <2> QED
      BY <1>0, <2>1, <2>2, <2>3, <2>4, ProcessesKeptHere
  <1>6. CASE Inject
    <2> DEFINE state == proc[simulator]
               timed == WithTime(state, clock + 1)
               new == AtRule(timed, Head(state.inbox), 0)
    <2>1. /\ proc' = [proc EXCEPT ![simulator] = new]
          /\ UNCHANGED <<alerts, delivered, acked, processed>>
      BY <1>6, Zenon DEF Inject, WithTime
    <2>2. simulator \in Process /\ simulator \notin Worker /\ IsState(state)
      BY ProcessAssumption DEF Types, ProcessTypes, Process
    <2>3. IsState(timed) /\ timed.inbox = state.inbox /\ timed.draft = state.draft
      BY <2>2, StateWithTime
    <2>4. 0 \in 0 .. Len(Rules)
      BY RulesFacts
    <2> HIDE DEF timed
    <2>5. new.inbox = state.inbox /\ new.draft = state.draft
      BY <2>3, AtRuleState
    <2>6. Onward(new, Head(state.inbox), 0)
      BY <2>3, <2>4, AtRuleFacts
    <2> HIDE DEF new
    <2>7. proc'[simulator] = new
      BY <2>1, <2>2 DEF Types, ProcessTypes
    <2>8. Current(simulator)'.event = Head(state.inbox)
      BY <2>5, <2>7 DEF Current, Normalize
    <2>9. AtRuleOf(new, Current(simulator)'.event)
      BY <2>6, <2>8, OnwardIsAtRule
    <2>10. /\ alerts' \subseteq Alert /\ new.draft \subseteq Alert
           /\ new.pc \in {"idle", "record", "trim", "raise", "evaluated", "committed"}
      BY <1>00, <2>1, <2>2, <2>5, <2>6 DEF Onward
    <2> QED
      BY <1>0, <2>1, <2>2, <2>9, <2>10, ProcessesKeptHere
  <1>7. CASE Injected
    <2> DEFINE state == proc[simulator]
               rest == Tail(state.inbox)
               draft == IF rest = << >> THEN {} ELSE state.draft
               new == Restarted(state, rest, draft)
    <2>1. /\ proc' = [proc EXCEPT ![simulator] = new]
          /\ alerts' \subseteq alerts \cup state.draft
          /\ UNCHANGED streamVars
      BY <1>7, Zenon DEF Injected, Restarted
    <2>2. simulator \in Process /\ simulator \notin Worker /\ IsState(state)
      BY ProcessAssumption DEF Types, ProcessTypes, Process
    <2>3. draft \subseteq Alert
      BY <1>00, <2>2
    <2> HIDE DEF rest, draft
    <2>4. new.pc = "idle" /\ new.draft = draft
      BY <2>2, RestartedState
    <2> HIDE DEF new
    <2>5. AtRuleOf(new, Current(simulator)'.event)
      BY <2>4 DEF AtRuleOf
    <2>6. alerts' \subseteq Alert /\ UNCHANGED <<delivered, acked, processed>>
      BY <1>00, <2>1, <2>2 DEF streamVars
    <2> HIDE DEF state
    <2> QED
      BY <1>0, <2>1, <2>2, <2>3, <2>4, <2>5, <2>6, ProcessesKeptHere
  <1>8. CASE FailScenario
    <2>1. /\ proc' = [proc EXCEPT ![simulator] = Idle]
          /\ UNCHANGED <<alerts, streamVars>>
      BY <1>8 DEF FailScenario
    <2>2. simulator \in Process /\ simulator \notin Worker
      BY ProcessAssumption DEF Process
    <2>3. AtRuleOf(Idle, Current(simulator)'.event)
      BY IdleState DEF AtRuleOf
    <2>4. UNCHANGED <<delivered, acked, processed>> /\ alerts' \subseteq Alert
      BY <1>00, <2>1 DEF streamVars
    <2>5. Idle.pc = "idle" /\ Idle.draft \subseteq Alert
      BY IdleState
    <2> QED
      BY <1>0, <2>1, <2>2, <2>3, <2>4, <2>5, ProcessesKeptHere
  <1>9. ASSUME NEW q \in Request, Save(q) \/ Publish(q) \/ CommitIngest(q) \/ FailIngest(q)
        PROVE  ProcessesOK' /\ AtMatchingRule'
    BY <1>0, <1>9, ProcessesUntouched DEF Save, Publish, CommitIngest, FailIngest, streamVars
  <1>10. CASE Elapse \/ UNCHANGED vars
    BY <1>0, <1>10, ProcessesUntouched DEF Elapse, vars, streamVars
  <1> QED
    BY <1>1, <1>2, <1>3, <1>4, <1>5, <1>6, <1>7, <1>8, <1>9, <1>10 DEF Next, WorkerStep, Process

-----------------------------------------------------------------------------
\* Whose message it is

LEMMA InboxesKept ==
    ASSUME Types, InboxesApart, NEW p \in Process, NEW new, proc' = [proc EXCEPT ![p] = new],
           \A j, k \in 1 .. Len(new.inbox) : new.inbox[j] = new.inbox[k] => j = k,
           p \in Worker =>
               /\ \A v \in Worker \ {p} :
                     \A j \in 1 .. Len(proc[v].inbox), k \in 1 .. Len(new.inbox) :
                        proc[v].inbox[j] # new.inbox[k]
               /\ \A k \in 1 .. Len(new.inbox) :
                     new.inbox[k] \in processed' => k = 1 /\ new.pc = "committed",
           \A v \in Worker \ {p} : \A k \in 1 .. Len(proc[v].inbox) :
               proc[v].inbox[k] \in processed' => proc[v].inbox[k] \in processed
    PROVE  InboxesApart'
  <1>1. proc'[p] = new /\ \A q \in Process : q # p => proc'[q] = proc[q]
    BY DEF Types, ProcessTypes
  <1>2. Worker \subseteq Process
    BY DEF Process
  <1>3. ASSUME NEW q \in Process, NEW j \in 1 .. Len(proc'[q].inbox),
               NEW k \in 1 .. Len(proc'[q].inbox), proc'[q].inbox[j] = proc'[q].inbox[k]
        PROVE  j = k
    BY <1>1, <1>3 DEF InboxesApart
  <1>4. ASSUME NEW v \in Worker, NEW w \in Worker, NEW j \in 1 .. Len(proc'[v].inbox),
               NEW k \in 1 .. Len(proc'[w].inbox), proc'[v].inbox[j] = proc'[w].inbox[k]
        PROVE  v = w
    <2>1. CASE v = p
      BY <1>1, <1>2, <1>4, <2>1
    <2>2. CASE v # p /\ w = p
      BY <1>1, <1>2, <1>4, <2>2
    <2>3. CASE v # p /\ w # p
      BY <1>1, <1>2, <1>4, <2>3 DEF InboxesApart
    <2> QED
      BY <2>1, <2>2, <2>3
  <1>5. ASSUME NEW w \in Worker, NEW k \in 1 .. Len(proc'[w].inbox),
               proc'[w].inbox[k] \in processed'
        PROVE  k = 1 /\ proc'[w].pc = "committed"
    <2>1. CASE w = p
      BY <1>1, <1>5, <2>1
    <2>2. CASE w # p
      BY <1>1, <1>2, <1>5, <2>2 DEF InboxesApart
    <2> QED
      BY <2>1, <2>2
  <1> QED
    BY <1>3, <1>4, <1>5 DEF InboxesApart

\* What is left of an inbox when its head is taken.
LEMMA TailApart ==
    ASSUME NEW S, NEW s \in Seq(S), s # << >>,
           \A j, k \in 1 .. Len(s) : s[j] = s[k] => j = k
    PROVE  /\ \A j, k \in 1 .. Len(Tail(s)) : Tail(s)[j] = Tail(s)[k] => j = k
           /\ \A k \in 1 .. Len(Tail(s)) : \E j \in 2 .. Len(s) : Tail(s)[k] = s[j]
  <1>1. /\ Len(Tail(s)) = Len(s) - 1 /\ Len(s) \in Nat \ {0}
        /\ \A k \in 1 .. Len(Tail(s)) : Tail(s)[k] = s[k + 1]
    BY TailOfInbox
  <1>2. \A k \in 1 .. Len(Tail(s)) : k + 1 \in 2 .. Len(s) /\ k \in Nat
    BY <1>1
  <1>3. \A k \in 2 .. Len(s) : k \in 1 .. Len(s)
    BY <1>1
  <1>4. ASSUME NEW j \in 1 .. Len(Tail(s)), NEW k \in 1 .. Len(Tail(s)), Tail(s)[j] = Tail(s)[k]
        PROVE  j = k
    <2>1. s[j + 1] = s[k + 1] /\ j + 1 \in 1 .. Len(s) /\ k + 1 \in 1 .. Len(s)
      BY <1>1, <1>2, <1>3, <1>4
    <2>2. j + 1 = k + 1
      BY <2>1
    <2> QED
      BY <1>2, <2>2
  <1> QED
    BY <1>1, <1>2, <1>4

LEMMA InboxesStep ==
    ASSUME Types, ProcessesOK, AtMatchingRule, WindowsCounted, InboxesApart, [Next]_vars
    PROVE  InboxesApart'
  <1>0. /\ Worker \subseteq Process /\ simulator \notin Worker /\ simulator \in Process
        /\ delivered \in Nat /\ processed \subseteq 1 .. delivered
    BY ProcessAssumption DEF Process, Types, ProcessesOK
  <1>1. ASSUME NEW p \in Process, NEW new, proc' = [proc EXCEPT ![p] = new],
               new.inbox = proc[p].inbox, processed' = processed, proc[p].pc # "committed"
        PROVE  InboxesApart'
    <2>1. \A j, k \in 1 .. Len(new.inbox) : new.inbox[j] = new.inbox[k] => j = k
      BY <1>1 DEF InboxesApart
    <2>2. p \in Worker =>
               /\ \A v \in Worker \ {p} :
                     \A j \in 1 .. Len(proc[v].inbox), k \in 1 .. Len(new.inbox) :
                        proc[v].inbox[j] # new.inbox[k]
               /\ \A k \in 1 .. Len(new.inbox) :
                     new.inbox[k] \in processed' => k = 1 /\ new.pc = "committed"
      BY <1>1 DEF InboxesApart
    <2> QED
      BY <1>1, <2>1, <2>2, InboxesKept
  <1>2. ASSUME NEW p \in Process, NEW new, proc' = [proc EXCEPT ![p] = new],
               new.inbox = << >>, processed' = processed
        PROVE  InboxesApart'
    <2>1. \A k \in 1 .. Len(new.inbox) : FALSE
      BY <1>2
    <2> QED
      BY <1>2, <2>1, InboxesKept
  <1>3. ASSUME NEW p \in Process, NEW new, proc' = [proc EXCEPT ![p] = new],
               proc[p].pc # "idle", new.inbox = Tail(proc[p].inbox), processed' = processed
        PROVE  InboxesApart'
    <2> DEFINE s == proc[p].inbox
    <2>1. s # << >> /\ (s \in Seq(Nat) \/ s \in Seq(Event))
          /\ \A j, k \in 1 .. Len(s) : s[j] = s[k] => j = k
      BY <1>3, InboxOfWorker DEF Types, ProcessTypes, Process, InboxesApart
    <2>2. p \in Worker => \A k \in 1 .. Len(s) : s[k] \in processed => k = 1
      BY DEF InboxesApart
    <2>3. p \in Worker => \A v \in Worker \ {p} :
                  \A j \in 1 .. Len(proc[v].inbox), k \in 1 .. Len(s) : proc[v].inbox[j] # s[k]
      BY DEF InboxesApart
    <2> HIDE DEF s
    <2>4. /\ \A j, k \in 1 .. Len(Tail(s)) : Tail(s)[j] = Tail(s)[k] => j = k
          /\ \A k \in 1 .. Len(Tail(s)) : \E j \in 2 .. Len(s) : Tail(s)[k] = s[j]
      BY <2>1, TailApart
    <2>5. Len(s) \in Nat
      BY <2>1
    <2>6. \A k \in 1 .. Len(Tail(s)) : \E j \in 1 .. Len(s) : j # 1 /\ Tail(s)[k] = s[j]
      BY <2>4, <2>5
    <2>7. p \in Worker =>
               /\ \A v \in Worker \ {p} :
                     \A j \in 1 .. Len(proc[v].inbox), k \in 1 .. Len(Tail(s)) :
                        proc[v].inbox[j] # Tail(s)[k]
               /\ \A k \in 1 .. Len(Tail(s)) : Tail(s)[k] \notin processed
      BY <2>2, <2>3, <2>6
    <2>8. new.inbox = Tail(s)
      BY <1>3 DEF s
    <2>9. \A j, k \in 1 .. Len(new.inbox) : new.inbox[j] = new.inbox[k] => j = k
      BY <2>4, <2>8
    <2>10. p \in Worker =>
               /\ \A v \in Worker \ {p} :
                     \A j \in 1 .. Len(proc[v].inbox), k \in 1 .. Len(new.inbox) :
                        proc[v].inbox[j] # new.inbox[k]
               /\ \A k \in 1 .. Len(new.inbox) :
                     new.inbox[k] \in processed' => k = 1 /\ new.pc = "committed"
      BY <1>3, <2>7, <2>8
    <2>11. \A v \in Worker \ {p} : \A k \in 1 .. Len(proc[v].inbox) :
               proc[v].inbox[k] \in processed' => proc[v].inbox[k] \in processed
      BY <1>3
    <2>12. p \in Process /\ proc' = [proc EXCEPT ![p] = new]
      BY <1>3
    <2> QED
      BY <2>9, <2>10, <2>11, <2>12, InboxesKept
  <1>4. ASSUME UNCHANGED <<proc, processed>>
        PROVE  InboxesApart'
    BY <1>4 DEF InboxesApart
  <1>5. ASSUME NEW p \in Process, Evaluate(p) \/ CounterFails(p)
        PROVE  InboxesApart'
    <2>1. PICK new : GoesOn(p, new)
      BY <1>5, EvaluationGoesOn
    <2>2. processed' = processed
      BY <1>5, EvaluationStep DEF streamVars
    <2> QED
      BY <1>1, <2>1, <2>2 DEF GoesOn
  <1>6. ASSUME NEW w \in Worker, Read(w)
        PROVE  InboxesApart'
    <2>1. PICK inbox \in Seq(Nat) :
              /\ proc' = [proc EXCEPT ![w] = BeginMessage(inbox)]
              /\ \A n \in 1 .. Len(inbox) : inbox[n] = delivered + n
              /\ processed' = processed
      BY <1>6, ReadFacts
    <2> DEFINE new == BeginMessage(inbox)
    <2>2. new.inbox = inbox
      BY BeginMessageState
    <2>3. proc' = [proc EXCEPT ![w] = new]
      BY <2>1
    <2> HIDE DEF new
    <2>4. ASSUME NEW n \in 1 .. Len(inbox)
          PROVE  inbox[n] = delivered + n /\ n \in Nat /\ inbox[n] > delivered
      <3>1. inbox[n] = delivered + n /\ n \in Nat /\ n >= 1
        BY <2>1, <2>4
      <3> QED
        BY <1>0, <3>1
    <2>5. \A j, k \in 1 .. Len(inbox) : inbox[j] = inbox[k] => j = k
      <3> SUFFICES ASSUME NEW j \in 1 .. Len(inbox), NEW k \in 1 .. Len(inbox),
                          inbox[j] = inbox[k]
                   PROVE  j = k
        OBVIOUS
      <3>1. delivered + j = delivered + k /\ j \in Nat /\ k \in Nat
        BY <2>4
      <3> QED
        BY <1>0, <3>1
    <2>6. \A k \in 1 .. Len(inbox) : inbox[k] \notin 1 .. delivered
      <3> SUFFICES ASSUME NEW k \in 1 .. Len(inbox), inbox[k] \in 1 .. delivered PROVE FALSE
        OBVIOUS
      <3>1. inbox[k] > delivered /\ inbox[k] <= delivered /\ inbox[k] \in Nat
        BY <1>0, <2>4
      <3> QED
        BY <1>0, <3>1
    <2>7. \A v \in Worker : \A j \in 1 .. Len(proc[v].inbox) : proc[v].inbox[j] \in 1 .. delivered
      BY DEF ProcessesOK
    <2>8. \A v \in Worker \ {w} : \A j \in 1 .. Len(proc[v].inbox), k \in 1 .. Len(inbox) :
              proc[v].inbox[j] # inbox[k]
      BY <2>6, <2>7
    <2>9. \A k \in 1 .. Len(inbox) : inbox[k] \notin processed
      BY <1>0, <2>6
    <2>10. \A j, k \in 1 .. Len(new.inbox) : new.inbox[j] = new.inbox[k] => j = k
      BY <2>2, <2>5
    <2>11. /\ \A v \in Worker \ {w} :
                 \A j \in 1 .. Len(proc[v].inbox), k \in 1 .. Len(new.inbox) :
                    proc[v].inbox[j] # new.inbox[k]
           /\ \A k \in 1 .. Len(new.inbox) :
                 new.inbox[k] \in processed' => k = 1 /\ new.pc = "committed"
      BY <2>1, <2>2, <2>8, <2>9
    <2>12. \A v \in Worker \ {w} : \A k \in 1 .. Len(proc[v].inbox) :
               proc[v].inbox[k] \in processed' => proc[v].inbox[k] \in processed
      BY <2>1
    <2>13. w \in Process
      BY <1>0
    <2> QED
      BY <2>3, <2>10, <2>11, <2>12, <2>13, InboxesKept
  <1>7. ASSUME NEW w \in Worker, CommitMessage(w)
        PROVE  InboxesApart'
    <2> DEFINE new == WithPc(proc[w], "committed")
               s == proc[w].inbox
    <2>1. /\ proc' = [proc EXCEPT ![w] = new] /\ proc[w].pc = "evaluated"
          /\ processed' = processed \cup {Head(s)}
      BY <1>7, Zenon DEF CommitMessage, WithPc
    <2>2. new.pc = "committed" /\ new.inbox = s
      BY <1>0, StateWithPc DEF Types, ProcessTypes
    <2>3. /\ Head(s) = s[1] /\ 1 \in 1 .. Len(s)
      <3>1. s \in Seq(Nat) /\ s # << >>
        BY <2>1, InboxOfWorker
      <3>2. Len(s) \in Nat \ {0} /\ Head(s) = s[1]
        BY <3>1, TailOfInbox
      <3> QED
        BY <3>2
    <2> HIDE DEF new
    <2>4. /\ \A j, k \in 1 .. Len(s) : s[j] = s[k] => j = k
          /\ \A v \in Worker \ {w} :
                \A j \in 1 .. Len(proc[v].inbox), k \in 1 .. Len(s) : proc[v].inbox[j] # s[k]
          /\ \A k \in 1 .. Len(s) : s[k] \notin processed
      BY <1>0, <2>1 DEF InboxesApart
    <2>5. \A k \in 1 .. Len(s) : s[k] \in processed' => k = 1
      BY <2>1, <2>3, <2>4
    <2>6. \A v \in Worker \ {w} : \A k \in 1 .. Len(proc[v].inbox) :
               proc[v].inbox[k] \in processed' => proc[v].inbox[k] \in processed
      BY <2>1, <2>3, <2>4
    <2>7. \A j, k \in 1 .. Len(new.inbox) : new.inbox[j] = new.inbox[k] => j = k
      BY <2>2, <2>4
    <2>8. /\ \A v \in Worker \ {w} :
                \A j \in 1 .. Len(proc[v].inbox), k \in 1 .. Len(new.inbox) :
                   proc[v].inbox[j] # new.inbox[k]
          /\ \A k \in 1 .. Len(new.inbox) :
                new.inbox[k] \in processed' => k = 1 /\ new.pc = "committed"
      BY <2>2, <2>4, <2>5
    <2>9. w \in Process /\ proc' = [proc EXCEPT ![w] = new]
      BY <1>0, <2>1
    <2> QED
      BY <2>6, <2>7, <2>8, <2>9, InboxesKept
  <1>8. ASSUME NEW w \in Worker, Ack(w) \/ Fail(w)
        PROVE  InboxesApart'
    <2> DEFINE new == BeginMessage(Tail(proc[w].inbox))
    <2>1. /\ proc' = [proc EXCEPT ![w] = new] /\ proc[w].pc # "idle" /\ processed' = processed
      BY <1>8 DEF Ack, Fail, streamVars
    <2>2. new.inbox = Tail(proc[w].inbox)
      BY BeginMessageState
    <2> HIDE DEF new
    <2> QED
      BY <1>0, <1>3, <2>1, <2>2
  <1>9. ASSUME NEW w \in Worker, Crash(w)
        PROVE  InboxesApart'
    BY <1>0, <1>2, <1>9, IdleState DEF Crash, streamVars
  <1>10. CASE Inject
    <2> DEFINE state == proc[simulator]
               timed == WithTime(state, clock + 1)
               new == AtRule(timed, Head(state.inbox), 0)
    <2>1. proc' = [proc EXCEPT ![simulator] = new] /\ processed' = processed
          /\ state.pc = "idle"
      BY <1>10, Zenon DEF Inject, WithTime
    <2>2. IsState(timed) /\ timed.inbox = state.inbox
      BY <1>0, StateWithTime DEF Types, ProcessTypes
    <2> HIDE DEF timed
    <2>3. new.inbox = state.inbox
      BY <2>2, AtRuleState
    <2> HIDE DEF new
    <2> QED
      BY <1>0, <1>1, <2>1, <2>3
  <1>11. CASE Injected
    <2> DEFINE state == proc[simulator]
               rest == Tail(state.inbox)
               draft == IF rest = << >> THEN {} ELSE state.draft
               new == Restarted(state, rest, draft)
    <2>1. /\ proc' = [proc EXCEPT ![simulator] = new] /\ state.pc = "evaluated"
          /\ processed' = processed
      BY <1>11, Zenon DEF Injected, Restarted, streamVars
    <2>2. IsState(state)
      BY <1>0 DEF Types, ProcessTypes
    <2> HIDE DEF draft
    <2>3. new.inbox = rest
      BY <2>2, RestartedState
    <2> HIDE DEF new
    <2> QED
      BY <1>0, <1>3, <2>1, <2>3
  <1>12. CASE FailScenario
    BY <1>0, <1>2, <1>12, IdleState DEF FailScenario, streamVars
  <1>13. ASSUME NEW q \in Request, Save(q) \/ Publish(q) \/ CommitIngest(q) \/ FailIngest(q)
         PROVE  UNCHANGED <<proc, processed>>
    BY <1>13 DEF Save, Publish, CommitIngest, FailIngest, streamVars
  <1>14. ASSUME Elapse \/ UNCHANGED vars
         PROVE  UNCHANGED <<proc, processed>>
    BY <1>14 DEF Elapse, vars, streamVars
  <1> QED
    BY <1>4, <1>5, <1>6, <1>7, <1>8, <1>9, <1>10, <1>11, <1>12, <1>13, <1>14
       DEF Next, WorkerStep, Process

-----------------------------------------------------------------------------
\* The steps of processes, for the invariants that follow

\* A worker begins with a message, or has none: of those it is given, of those that
\* are left to it, or none after a crash.
Begins(w, new) ==
    /\ proc' = [proc EXCEPT ![w] = new] /\ alerts' = alerts
    /\ new.draft = {}
    /\ new.pc = "idle" \/ Onward(new, Current(w)'.event, 0)
    /\ \/ \A k \in 1 .. Len(new.inbox) : new.inbox[k] \notin 1 .. delivered
       \/ proc[w].pc # "idle" /\ new.inbox = Tail(proc[w].inbox)

Commits(w, new) ==
    /\ proc' = [proc EXCEPT ![w] = new] /\ alerts' = alerts \cup proc[w].draft
    /\ proc[w].pc = "evaluated" /\ new.pc = "committed"
    /\ new.inbox = proc[w].inbox /\ new.rule = proc[w].rule
    /\ new.draft = proc[w].draft /\ new.ingested = proc[w].ingested

Injects(new) ==
    /\ proc' = [proc EXCEPT ![simulator] = new] /\ alerts' = alerts
    /\ proc[simulator].pc = "idle" /\ Onward(new, Current(simulator)'.event, 0)
    /\ new.inbox = proc[simulator].inbox /\ new.draft = proc[simulator].draft

\* The simulator lets its event go, with or without its alerts.
LetsGo(new) ==
    /\ proc' = [proc EXCEPT ![simulator] = new]
    /\ new.pc = "idle"
    /\ \/ proc[simulator].pc = "evaluated" /\ new.inbox = Tail(proc[simulator].inbox)
       \/ new.inbox = << >>
    /\ \/ alerts' = alerts \cup proc[simulator].draft /\ new.draft = {}
       \/ alerts' = alerts /\ new.draft = proc[simulator].draft
       \/ alerts' = alerts /\ new.draft = {} /\ faults' = faults + 1

\* Nothing happens to processes or alerts; a process evaluates; a worker begins or
\* commits; the simulator injects an event or lets it go.
StepForms ==
    \/ UNCHANGED <<proc, alerts, window, memory, counterUp>>
    \/ \E p \in Process : \E new :
          /\ Evaluate(p) \/ CounterFails(p)
          /\ GoesOn(p, new) /\ UNCHANGED <<alerts, streamVars>>
    \/ \E w \in Worker : \E new :
          /\ Read(w) \/ Ack(w) \/ Fail(w) \/ Crash(w)
          /\ Begins(w, new)
    \/ \E w \in Worker : \E new : CommitMessage(w) /\ Commits(w, new)
    \/ \E new : Inject /\ Injects(new)
    \/ \E new : (Injected \/ FailScenario) /\ LetsGo(new)

LEMMA BeginsFacts ==
    ASSUME Types, NEW w \in Worker, NEW inbox,
           proc' = [proc EXCEPT ![w] = BeginMessage(inbox)],
           UNCHANGED <<alerts, stream>>,
           \/ \A k \in 1 .. Len(inbox) : inbox[k] \notin 1 .. delivered
           \/ proc[w].pc # "idle" /\ inbox = Tail(proc[w].inbox)
    PROVE  \E new : Begins(w, new)
  <1> DEFINE new == BeginMessage(inbox)
  <1>1. /\ new.inbox = inbox /\ new.draft = {}
        /\ new.pc # "idle" => inbox # << >>
    BY BeginMessageState
  <1>2. w # simulator /\ w \in Process /\ proc'[w] = new
    BY ProcessAssumption DEF Types, ProcessTypes, Process
  <1>3. Current(w)' = stream[Head(inbox)]
    BY <1>1, <1>2 DEF Current
  <1>4. new.pc = "idle" \/ Onward(new, Current(w)'.event, 0)
    <2>1. CASE inbox = << >>
      BY <1>1, <2>1
    <2>2. CASE inbox # << >>
      BY <1>3, <2>2, BeginMessageFacts
    <2> QED
      BY <2>1, <2>2
  <1>5. proc' = [proc EXCEPT ![w] = new]
    OBVIOUS
  <1> HIDE DEF new
  <1>6. Begins(w, new)
    BY <1>1, <1>4, <1>5 DEF Begins
  <1> QED
    BY <1>6

LEMMA StepsHaveForms ==
    ASSUME Types, ProcessesOK, AtMatchingRule, WindowsCounted, [Next]_vars
    PROVE  StepForms
  <1>0. /\ Worker \subseteq Process /\ simulator \notin Worker /\ simulator \in Process
        /\ delivered \in Nat
    BY ProcessAssumption DEF Process, Types
  <1>1. ASSUME NEW p \in Process, Evaluate(p) \/ CounterFails(p)
        PROVE  StepForms
    <2>1. \E new : GoesOn(p, new)
      BY <1>1, EvaluationGoesOn
    <2>2. UNCHANGED <<alerts, streamVars>>
      BY <1>1, EvaluationStep
    <2> QED
      BY <1>1, <2>1, <2>2 DEF StepForms
  <1>2. ASSUME NEW w \in Worker, Read(w)
        PROVE  StepForms
    <2>1. PICK inbox \in Seq(Nat) :
              /\ proc' = [proc EXCEPT ![w] = BeginMessage(inbox)]
              /\ \A n \in 1 .. Len(inbox) : inbox[n] = delivered + n
              /\ UNCHANGED <<alerts, stream>>
      BY <1>2, ReadFacts
    <2>2. \A k \in 1 .. Len(inbox) : inbox[k] \notin 1 .. delivered
      <3> SUFFICES ASSUME NEW k \in 1 .. Len(inbox), inbox[k] \in 1 .. delivered PROVE FALSE
        OBVIOUS
      <3>1. inbox[k] = delivered + k /\ k \in Nat /\ k >= 1
        BY <2>1
      <3> QED
        BY <1>0, <3>1
    <2>3. \E new : Begins(w, new)
      BY <2>1, <2>2, BeginsFacts
    <2> QED
      BY <1>2, <2>3 DEF StepForms
  <1>3. ASSUME NEW w \in Worker, Ack(w) \/ Fail(w)
        PROVE  StepForms
    <2>1. /\ proc' = [proc EXCEPT ![w] = BeginMessage(Tail(proc[w].inbox))]
          /\ proc[w].pc # "idle" /\ UNCHANGED <<alerts, stream>>
      BY <1>3 DEF Ack, Fail, streamVars
    <2>2. \E new : Begins(w, new)
      BY <2>1, BeginsFacts
    <2> QED
      BY <1>3, <2>2 DEF StepForms
  <1>4. ASSUME NEW w \in Worker, Crash(w)
        PROVE  StepForms
    <2>1. proc' = [proc EXCEPT ![w] = Idle] /\ alerts' = alerts
      BY <1>4 DEF Crash
    <2>2. \A k \in 1 .. Len(Idle.inbox) : FALSE
      BY IdleState
    <2>3. Begins(w, Idle)
      BY <2>1, <2>2, IdleState DEF Begins
    <2> QED
      BY <1>4, <2>3 DEF StepForms
  <1>5. ASSUME NEW w \in Worker, CommitMessage(w)
        PROVE  StepForms
    <2> DEFINE new == WithPc(proc[w], "committed")
    <2>1. /\ proc' = [proc EXCEPT ![w] = new] /\ proc[w].pc = "evaluated"
          /\ alerts' = alerts \cup proc[w].draft
      BY <1>5, Zenon DEF CommitMessage, WithPc
    <2>2. IsState(proc[w])
      BY <1>0 DEF Types, ProcessTypes
    <2>3. /\ new.pc = "committed" /\ new.inbox = proc[w].inbox /\ new.rule = proc[w].rule
          /\ new.draft = proc[w].draft /\ new.ingested = proc[w].ingested
      BY <2>2, StateWithPc
    <2> HIDE DEF new
    <2>4. Commits(w, new)
      BY <2>1, <2>3 DEF Commits
    <2> QED
      BY <1>5, <2>4 DEF StepForms
  <1>6. CASE Inject
    <2> DEFINE state == proc[simulator]
               timed == WithTime(state, clock + 1)
               new == AtRule(timed, Head(state.inbox), 0)
    <2>1. /\ proc' = [proc EXCEPT ![simulator] = new] /\ alerts' = alerts
          /\ state.pc = "idle"
      BY <1>6, Zenon DEF Inject, WithTime
    <2>2. IsState(state)
      BY <1>0 DEF Types, ProcessTypes
    <2>3. IsState(timed) /\ timed.inbox = state.inbox /\ timed.draft = state.draft
      BY <2>2, StateWithTime
    <2>4. 0 \in 0 .. Len(Rules)
      BY RulesFacts
    <2> HIDE DEF timed
    <2>5. new.inbox = state.inbox /\ new.draft = state.draft
      BY <2>3, AtRuleState
    <2>6. Onward(new, Head(state.inbox), 0)
      BY <2>3, <2>4, AtRuleFacts
    <2> HIDE DEF new
    <2>7. proc'[simulator] = new
      BY <1>0, <2>1 DEF Types, ProcessTypes
    <2>8. Current(simulator)'.event = Head(state.inbox)
      BY <2>5, <2>7 DEF Current, Normalize
    <2>9. Injects(new)
      BY <2>1, <2>5, <2>6, <2>8 DEF Injects
    <2> QED
      BY <1>6, <2>9 DEF StepForms
  <1>7. CASE Injected
    <2> DEFINE state == proc[simulator]
               rest == Tail(state.inbox)
               draft == IF rest = << >> THEN {} ELSE state.draft
               new == Restarted(state, rest, draft)
    <2>1. /\ proc' = [proc EXCEPT ![simulator] = new] /\ state.pc = "evaluated"
          /\ alerts' = IF rest = << >> THEN alerts \cup state.draft ELSE alerts
      BY <1>7, Zenon DEF Injected, Restarted
    <2>2. IsState(state)
      BY <1>0 DEF Types, ProcessTypes
    <2>3. \/ alerts' = alerts \cup state.draft /\ draft = {}
          \/ alerts' = alerts /\ draft = state.draft
      BY <2>1
    <2> HIDE DEF draft, rest
    <2>4. new.pc = "idle" /\ new.draft = draft /\ new.inbox = rest
      BY <2>2, RestartedState
    <2> HIDE DEF new
    <2>5. LetsGo(new)
      BY <2>1, <2>3, <2>4 DEF LetsGo, rest
    <2> QED
      BY <1>7, <2>5 DEF StepForms
  <1>8. CASE FailScenario
    <2>1. /\ proc' = [proc EXCEPT ![simulator] = Idle] /\ alerts' = alerts
          /\ faults' = faults + 1
      BY <1>8 DEF FailScenario
    <2>2. LetsGo(Idle)
      BY <2>1, IdleState DEF LetsGo
    <2> QED
      BY <1>8, <2>2 DEF StepForms
  <1>9. ASSUME NEW q \in Request, Save(q) \/ Publish(q) \/ CommitIngest(q) \/ FailIngest(q)
        PROVE  StepForms
    BY <1>9 DEF Save, Publish, CommitIngest, FailIngest, countVars, StepForms
  <1>10. CASE Elapse \/ UNCHANGED vars
    BY <1>10 DEF Elapse, vars, countVars, StepForms
  <1> QED
    BY <1>1, <1>2, <1>3, <1>4, <1>5, <1>6, <1>7, <1>8, <1>9, <1>10 DEF Next, WorkerStep, Process

LEMMA OtherProcesses ==
    ASSUME Types, NEW p \in Process, NEW new, proc' = [proc EXCEPT ![p] = new]
    PROVE  proc'[p] = new /\ \A q \in Process : q # p => proc'[q] = proc[q]
BY DEF Types, ProcessTypes

\* Alerts are only added.
LEMMA AlertsGrow ==
    ASSUME StepForms
    PROVE  alerts \subseteq alerts'
BY DEF StepForms, Begins, Commits, Injects, LetsGo

LEMMA DraftsStep ==
    ASSUME Types, AtMatchingRule, StreamGrows, StepForms, DraftIsOfMessage
    PROVE  DraftIsOfMessage'
  <1>0. Worker \subseteq Process /\ simulator \notin Worker /\ alerts \subseteq alerts'
        /\ simulator \in Process
    BY ProcessAssumption, AlertsGrow DEF Process
  <1> DEFINE OK(w) ==
          /\ proc[w].pc = "idle" => proc[w].draft = {}
          /\ proc[w].pc = "committed" => proc[w].draft \subseteq alerts
          /\ \A a \in proc[w].draft :
                a.event = Current(w).event /\ Matches(Rules[a.rule], a.event)
  <1>1. ASSUME NEW w \in Worker, proc'[w] = proc[w]
        PROVE  OK(w)'
    <2>1. CASE proc[w].pc = "idle"
      BY <1>1, <2>1 DEF DraftIsOfMessage
    <2>2. CASE proc[w].pc # "idle"
      <3>1. Current(w)' = Current(w)
        BY <1>0, <1>1, <2>2, CurrentKept
      <3> QED
        BY <1>0, <1>1, <2>2, <3>1 DEF DraftIsOfMessage, Matches
    <2> QED
      BY <2>1, <2>2
  <1>2. ASSUME NEW w \in Worker, NEW new, GoesOn(w, new)
        PROVE  OK(w)'
    <2>1. proc'[w] = new
      BY <1>0, <1>2, OtherProcesses DEF GoesOn
    <2>2. Current(w)' = Current(w)
      BY <1>0, <1>2, <2>1, CurrentKept DEF GoesOn
    <2>3. ASSUME NEW a \in new.draft
          PROVE  a.event = Current(w).event /\ Matches(Rules[a.rule], a.event)
      <3>1. CASE a \in proc[w].draft
        BY <3>1 DEF DraftIsOfMessage
      <3>2. CASE a \notin proc[w].draft
        BY <1>0, <1>2, <3>2 DEF GoesOn, AtMatchingRule
      <3> QED
        BY <3>1, <3>2
    <2>4. new.pc # "idle" /\ new.pc # "committed"
      BY <1>2 DEF GoesOn
    <2> QED
      BY <2>1, <2>2, <2>3, <2>4 DEF Matches
  <1>3. ASSUME NEW w \in Worker, NEW new, Begins(w, new)
        PROVE  OK(w)'
    BY <1>0, <1>3, OtherProcesses DEF Begins
  <1>4. ASSUME NEW w \in Worker, NEW new, Commits(w, new)
        PROVE  OK(w)'
    <2>1. proc'[w] = new
      BY <1>0, <1>4, OtherProcesses DEF Commits
    <2>2. Current(w)' = Current(w)
      BY <1>0, <1>4, <2>1, CurrentKept DEF Commits
    <2> QED
      BY <1>4, <2>1, <2>2 DEF Commits, DraftIsOfMessage, Matches
  <1>5. ASSUME NEW w \in Worker
        PROVE  OK(w)'
    <2>1. CASE UNCHANGED proc
      BY <1>1, <2>1
    <2>2. ASSUME NEW p \in Process, NEW new, GoesOn(p, new) PROVE OK(w)'
      <3>1. p # w => proc'[w] = proc[w]
        BY <1>0, <2>2, OtherProcesses DEF GoesOn
      <3> HIDE DEF OK
      <3> QED
        BY <1>1, <1>2, <2>2, <3>1
    <2>3. ASSUME NEW p \in Worker, NEW new, Begins(p, new) PROVE OK(w)'
      <3>1. p # w => proc'[w] = proc[w]
        BY <1>0, <2>3, OtherProcesses DEF Begins
      <3> HIDE DEF OK
      <3> QED
        BY <1>1, <1>3, <2>3, <3>1
    <2>4. ASSUME NEW p \in Worker, NEW new, Commits(p, new) PROVE OK(w)'
      <3>1. p # w => proc'[w] = proc[w]
        BY <1>0, <2>4, OtherProcesses DEF Commits
      <3> HIDE DEF OK
      <3> QED
        BY <1>1, <1>4, <2>4, <3>1
    <2>5. ASSUME NEW new, Injects(new) \/ LetsGo(new) PROVE OK(w)'
      <3>1. proc'[w] = proc[w]
        BY <1>0, <2>5, OtherProcesses DEF Injects, LetsGo
      <3> HIDE DEF OK
      <3> QED
        BY <1>1, <3>1
    <2> HIDE DEF OK
    <2> QED
      BY <2>1, <2>2, <2>3, <2>4, <2>5 DEF StepForms
  <1> QED
    BY <1>5 DEF DraftIsOfMessage

\* What a process is done with stays so; it is given nothing that was given out before.
LEMMA PastKept ==
    ASSUME Types, InboxesApart, StepForms, NEW p \in Process, NEW i \in Nat, NEW x,
           p \in Worker => x \in 1 .. delivered, Past(p, i, x)
    PROVE  Past(p, i, x)'
  <1>0. Worker \subseteq Process /\ simulator \notin Worker /\ simulator \in Process
    BY ProcessAssumption DEF Process
  <1>1. ASSUME NEW new, proc' = [proc EXCEPT ![p] = new], new.inbox = proc[p].inbox,
               proc[p].pc = "idle" \/ (new.pc # "idle" /\ new.rule \in Nat /\ proc[p].rule \in Nat
                                       /\ new.rule >= proc[p].rule)
        PROVE  Past(p, i, x)'
    <2>1. proc'[p] = new
      BY <1>1, OtherProcesses
    <2> QED
      BY <1>1, <2>1 DEF Past
  <1>2. ASSUME NEW new, proc' = [proc EXCEPT ![p] = new], proc[p].pc # "idle",
               new.inbox = Tail(proc[p].inbox)
        PROVE  Past(p, i, x)'
    <2> DEFINE s == proc[p].inbox
    <2>1. s # << >> /\ (s \in Seq(Nat) \/ s \in Seq(Event))
      BY <1>2, InboxOfWorker DEF Types, ProcessTypes, Process
    <2>2. \A j, k \in 1 .. Len(s) : s[j] = s[k] => j = k
      BY DEF InboxesApart
    <2>3. \A k \in 1 .. Len(s) : s[k] = x => k = 1
      BY DEF Past
    <2>4. proc'[p] = new /\ new.inbox = Tail(s)
      BY <1>2, OtherProcesses
    <2> HIDE DEF s
    <2>5. \A k \in 1 .. Len(Tail(s)) : \E j \in 2 .. Len(s) : Tail(s)[k] = s[j]
      BY <2>1, <2>2, TailApart
    <2>6. Len(s) \in Nat
      BY <2>1
    <2>7. \A k \in 1 .. Len(Tail(s)) : Tail(s)[k] # x
      BY <2>3, <2>5, <2>6
    <2> QED
      BY <2>4, <2>7 DEF Past
  <1>3. ASSUME NEW new, proc' = [proc EXCEPT ![p] = new],
               \A k \in 1 .. Len(new.inbox) : new.inbox[k] # x
        PROVE  Past(p, i, x)'
    BY <1>3, OtherProcesses DEF Past
  <1>4. ASSUME proc'[p] = proc[p]
        PROVE  Past(p, i, x)'
    BY <1>4 DEF Past
  <1>5. ASSUME NEW q \in Process, NEW new, GoesOn(q, new) PROVE Past(p, i, x)'
    <2>1. CASE q = p
      <3>1. proc[p].rule \in Nat
        BY <1>5, <2>1, RulesFacts DEF GoesOn
      <3> QED
        BY <1>1, <1>5, <2>1, <3>1 DEF GoesOn
    <2>2. CASE q # p
      BY <1>4, <1>5, <2>2, OtherProcesses DEF GoesOn
    <2> QED
      BY <2>1, <2>2
  <1>6. ASSUME NEW q \in Worker, NEW new, Begins(q, new) PROVE Past(p, i, x)'
    <2>1. CASE q = p
      BY <1>2, <1>3, <1>6, <2>1 DEF Begins
    <2>2. CASE q # p
      BY <1>0, <1>4, <1>6, <2>2, OtherProcesses DEF Begins
    <2> QED
      BY <2>1, <2>2
  <1>7. ASSUME NEW q \in Worker, NEW new, Commits(q, new) PROVE Past(p, i, x)'
    <2>1. CASE q = p
      <3>1. proc'[p] = new
        BY <1>0, <1>7, <2>1, OtherProcesses DEF Commits
      <3> QED
        BY <1>7, <2>1, <3>1 DEF Commits, Past
    <2>2. CASE q # p
      BY <1>0, <1>4, <1>7, <2>2, OtherProcesses DEF Commits
    <2> QED
      BY <2>1, <2>2
  <1>8. ASSUME NEW new, Injects(new) PROVE Past(p, i, x)'
    <2>1. CASE p = simulator
      BY <1>1, <1>8, <2>1 DEF Injects
    <2>2. CASE p # simulator
      BY <1>0, <1>4, <1>8, <2>2, OtherProcesses DEF Injects
    <2> QED
      BY <2>1, <2>2
  <1>9. ASSUME NEW new, LetsGo(new) PROVE Past(p, i, x)'
    <2>1. CASE p = simulator
      <3>1. new.inbox = << >> => \A k \in 1 .. Len(new.inbox) : new.inbox[k] # x
        OBVIOUS
      <3> QED
        BY <1>2, <1>3, <1>9, <2>1, <3>1 DEF LetsGo
    <2>2. CASE p # simulator
      BY <1>0, <1>4, <1>9, <2>2, OtherProcesses DEF LetsGo
    <2> QED
      BY <2>1, <2>2
  <1>10. CASE UNCHANGED proc
    BY <1>4, <1>10
  <1> QED
    BY <1>5, <1>6, <1>7, <1>8, <1>9, <1>10 DEF StepForms

LEMMA DeliveredGrows ==
    ASSUME Types, [Next]_vars
    PROVE  delivered' \in Nat /\ delivered <= delivered'
  <1>1. ASSUME UNCHANGED delivered
        PROVE  delivered' \in Nat /\ delivered <= delivered'
    BY <1>1 DEF Types
  <1>2. ASSUME NEW w \in Worker, Read(w)
        PROVE  delivered' \in Nat /\ delivered <= delivered'
    BY <1>2, ReadFacts DEF Types
  <1>3. ASSUME NEW p \in Process, Evaluate(p) \/ CounterFails(p)
        PROVE  UNCHANGED delivered
    BY <1>3, EvaluationStep DEF streamVars
  <1>4. ASSUME NEW w \in Worker, CommitMessage(w) \/ Ack(w) \/ Fail(w) \/ Crash(w)
        PROVE  UNCHANGED delivered
    BY <1>4 DEF CommitMessage, Ack, Fail, Crash, streamVars
  <1>5. ASSUME NEW q \in Request, Save(q) \/ Publish(q) \/ CommitIngest(q) \/ FailIngest(q)
        PROVE  UNCHANGED delivered
    BY <1>5 DEF Save, Publish, CommitIngest, FailIngest, streamVars
  <1>6. ASSUME Inject \/ Injected \/ FailScenario \/ Elapse \/ UNCHANGED vars
        PROVE  UNCHANGED delivered
    BY <1>6 DEF Inject, Injected, FailScenario, Elapse, vars, streamVars
  <1> QED
    BY <1>1, <1>2, <1>3, <1>4, <1>5, <1>6 DEF Next, WorkerStep, Process

\* Counting in memory: the message at hand is added, and is done with.
Counts(p, i, x) ==
    /\ proc[p].pc \in {"record", "trim", "raise"}
    /\ i = proc[p].rule /\ i \in DOMAIN Rules /\ x = Head(proc[p].inbox)
    /\ UNCHANGED streamVars
    /\ memory' = [memory EXCEPT ![p][i] = Kept(Rules[i], Current(p), memory[p][i])]
    /\ Past(p, i, x)'

LEMMA CountsFacts ==
    ASSUME Types, ProcessesOK, AtMatchingRule, WindowsCounted, InboxesApart,
           NEW p \in Process, FallBack(p) \/ CounterFails(p)
    PROVE  \E i, x : Counts(p, i, x)
  <1>0. PICK i : i = proc[p].rule
    OBVIOUS
  <1>00. PICK s : s = proc[p].inbox
    OBVIOUS
  <1>1. proc[p].pc \in {"record", "trim", "raise"} /\ i \in DOMAIN Rules /\ CountInMemory(p)
    BY <1>0 DEF FallBack, CounterFails, ProcessesOK
  <1>2. UNCHANGED streamVars
    BY DEF FallBack, CounterFails
  <1>3. memory' = [memory EXCEPT ![p][i] = Kept(Rules[i], Current(p), memory[p][i])]
    BY <1>0, <1>1, Zenon DEF CountInMemory
  <1>4. \E matched, marks, source : Finish(p, matched, marks, source)
    BY <1>1, Zenon DEF CountInMemory
  <1>5. PICK new : /\ proc' = [proc EXCEPT ![p] = new] /\ new.inbox = s
                   /\ Onward(new, Current(p).event, i)
    BY <1>0, <1>00, <1>1, <1>4, FinishFacts DEF Finished
  <1>6. proc'[p] = new
    BY <1>5, OtherProcesses
  <1>7. s # << >> /\ (s \in Seq(Nat) \/ s \in Seq(Event))
        /\ \A j, k \in 1 .. Len(s) : s[j] = s[k] => j = k
    BY <1>00, <1>1, InboxOfWorker DEF Types, ProcessTypes, Process, InboxesApart
  <1>8. Len(s) \in Nat \ {0} /\ Head(s) = s[1]
    BY <1>7, TailOfInbox
  <1>9. PICK x : x = Head(s)
    OBVIOUS
  <1>10. Past(p, i, x)'
    <2>1. new.pc # "idle" /\ new.rule > i
      BY <1>5 DEF Onward
    <2>2. 1 \in 1 .. Len(s)
      BY <1>8
    <2>3. \A k \in 1 .. Len(s) : s[k] = s[1] => k = 1
      BY <1>7, <2>2
    <2>4. proc'[p].inbox = s /\ proc'[p].pc # "idle" /\ proc'[p].rule > i
      BY <1>5, <1>6, <2>1
    <2> QED
      BY <1>8, <1>9, <2>3, <2>4 DEF Past
  <1>11. Counts(p, i, x)
    BY <1>0, <1>00, <1>1, <1>2, <1>3, <1>9, <1>10 DEF Counts
  <1> QED
    BY <1>11

\* What was given out, but not by the rule at hand: the entry is of another message.
LEMMA CountedEntry ==
    ASSUME Types, ProcessesOK, AtMatchingRule, WindowsCounted,
           NEW p \in Process, NEW i, NEW x, Counts(p, i, x)
    PROVE  /\ \A q \in Process, j \in DOMAIN Rules :
                 q # p \/ j # i => memory'[q][j] = memory[q][j]
           /\ \E new : /\ new.event = Current(p).event
                       /\ memory'[p][i] \subseteq memory[p][i] \cup {new}
  <1>0. PICK m : m = Current(p)
    OBVIOUS
  <1> DEFINE kept == Kept(Rules[i], m, memory[p][i])
  <1>1. /\ memory \in [Process -> [DOMAIN Rules -> SUBSET Placed]]
        /\ i \in DOMAIN Rules
    BY DEF WindowsCounted, WindowsOK, Placed, Counts
  <1>2. memory' = [memory EXCEPT ![p][i] = kept]
    BY <1>0 DEF Counts
  <1>3. PICK last \in Nat : \A n \in memory[p][i] : n.place <= last
    BY <1>1 DEF WindowsCounted, MemoryFits
  <1>4. m.event \in Event /\ memory[p][i] \subseteq Placed
    BY <1>0, <1>1, CurrentFacts DEF Counts
  <1>5. \E new : new.event = m.event /\ kept \subseteq memory[p][i] \cup {new}
    <2>1. Rules[i].mark[m.event] \in Mark
      BY <1>1, <1>4, MarkType
    <2> QED
      BY <1>3, <1>4, <2>1, KeptFacts
  <1> HIDE DEF kept
  <1>6. memory'[p][i] = kept
    BY <1>1, <1>2
  <1>7. ASSUME NEW q \in Process, NEW j \in DOMAIN Rules, q # p \/ j # i
        PROVE  memory'[q][j] = memory[q][j]
    BY <1>1, <1>2, <1>7
  <1> QED
    BY <1>0, <1>5, <1>6, <1>7

\* Memory shrinks or stays, or a process counts in it.
MemoryForms ==
    \/ \A p \in Process, i \in DOMAIN Rules : memory'[p][i] \subseteq memory[p][i]
    \/ \E p \in Process : (FallBack(p) \/ CounterFails(p)) /\ \E i, x : Counts(p, i, x)

LEMMA MemorySteps ==
    ASSUME Types, ProcessesOK, AtMatchingRule, WindowsCounted, InboxesApart, [Next]_vars
    PROVE  MemoryForms
  <1>1. ASSUME UNCHANGED memory PROVE MemoryForms
    BY <1>1 DEF MemoryForms
  <1>2. ASSUME NEW p \in Process, FallBack(p) \/ CounterFails(p) PROVE MemoryForms
    BY <1>2, CountsFacts DEF MemoryForms
  <1>3. ASSUME NEW w \in Worker, Crash(w) PROVE MemoryForms
    <2>1. memory' = [memory EXCEPT ![w] = [i \in DOMAIN Rules |-> {}]]
      BY <1>3 DEF Crash
    <2>2. memory \in [Process -> [DOMAIN Rules -> SUBSET Placed]]
      BY DEF WindowsCounted, WindowsOK, Placed
    <2>3. ASSUME NEW p \in Process, NEW i \in DOMAIN Rules
          PROVE  memory'[p][i] \subseteq memory[p][i]
      <3>1. CASE p = w
        BY <2>1, <2>2, <3>1
      <3>2. CASE p # w
        BY <2>1, <2>2, <3>2
      <3> QED
        BY <3>1, <3>2
    <2> QED
      BY <2>3 DEF MemoryForms
  <1>4. ASSUME NEW p \in Process, Record(p) \/ Trim(p) \/ Raise(p) PROVE UNCHANGED memory
    BY <1>4 DEF Record, Trim, Raise, countVars
  <1>5. ASSUME NEW w \in Worker, Read(w) \/ CommitMessage(w) \/ Ack(w) \/ Fail(w)
        PROVE  UNCHANGED memory
    BY <1>5 DEF Read, CommitMessage, Ack, Fail, countVars
  <1>6. ASSUME NEW q \in Request, Save(q) \/ Publish(q) \/ CommitIngest(q) \/ FailIngest(q)
        PROVE  UNCHANGED memory
    BY <1>6 DEF Save, Publish, CommitIngest, FailIngest, countVars
  <1>7. ASSUME Inject \/ Injected \/ FailScenario \/ Elapse \/ UNCHANGED vars
        PROVE  UNCHANGED memory
    BY <1>7 DEF Inject, Injected, FailScenario, Elapse, vars, countVars
  <1> QED
    BY <1>1, <1>2, <1>3, <1>4, <1>5, <1>6, <1>7 DEF Next, WorkerStep, Evaluate, Process

LEMMA RepeatedKept ==
    ASSUME StreamGrows, NEW e, Repeated(e)
    PROVE  Repeated(e)'
  <1>1. PICK m \in Messages, n \in Messages :
            m # n /\ stream[m].event = e /\ stream[n].event = e
    BY DEF Repeated
  <1>2. m \in 1 .. Len(stream') /\ n \in 1 .. Len(stream')
    BY <1>1 DEF StreamGrows, Messages
  <1>3. stream'[m] = stream[m] /\ stream'[n] = stream[n]
    BY <1>1 DEF StreamGrows, Messages
  <1> QED
    BY <1>1, <1>2, <1>3 DEF Repeated, Messages

\* The message a worker has in hand, and its event.
LEMMA MessageInHand ==
    ASSUME Types, ProcessesOK, NEW w \in Worker, proc[w].pc # "idle"
    PROVE  /\ Head(proc[w].inbox) \in 1 .. delivered /\ Head(proc[w].inbox) \in Messages
           /\ Current(w) = stream[Head(proc[w].inbox)]
           /\ 1 \in 1 .. Len(proc[w].inbox) /\ Head(proc[w].inbox) = proc[w].inbox[1]
  <1>1. /\ proc[w].inbox \in Seq(Nat) /\ proc[w].inbox # << >>
    BY InboxOfWorker
  <1>2. Len(proc[w].inbox) \in Nat \ {0} /\ Head(proc[w].inbox) = proc[w].inbox[1]
    BY <1>1, TailOfInbox
  <1>3. 1 \in 1 .. Len(proc[w].inbox)
    BY <1>2
  <1>4. Head(proc[w].inbox) \in 1 .. delivered
    BY <1>2, <1>3 DEF ProcessesOK
  <1>5. Head(proc[w].inbox) \in Messages
    BY <1>4 DEF Types, Messages
  <1>6. Current(w) = stream[Head(proc[w].inbox)]
    BY ProcessAssumption DEF Current
  <1> QED
    BY <1>2, <1>3, <1>4, <1>5, <1>6

LEMMA MemoryOfWorkersStep ==
    ASSUME Types, ProcessesOK, InboxesApart, WindowsCounted, AtMatchingRule, StreamGrows,
           StepForms, MemoryForms, delivered' \in Nat, delivered <= delivered',
           MemoryOfWorkers
    PROVE  MemoryOfWorkers'
  <1>0. delivered \in Nat /\ Worker \subseteq Process /\ delivered <= Len(stream)
        /\ Len(stream) \in Nat
    BY DEF Types, Process
  <1> DEFINE Given(w, i, e) ==
          \E k \in 1 .. delivered : stream[k].event = e /\ Past(w, i, k)
  <1>1. ASSUME NEW w \in Worker, NEW i \in DOMAIN Rules, NEW e, Given(w, i, e)
        PROVE  Given(w, i, e)'
    <2>1. PICK k \in 1 .. delivered : stream[k].event = e /\ Past(w, i, k)
      BY <1>1
    <2>2. i \in Nat
      BY RulesFacts
    <2>3. Past(w, i, k)'
      BY <1>0, <2>1, <2>2, PastKept
    <2>4. k \in 1 .. delivered' /\ k \in 1 .. Len(stream)
      BY <1>0
    <2>5. stream'[k] = stream[k]
      BY <2>4 DEF StreamGrows
    <2> QED
      BY <2>1, <2>3, <2>4, <2>5
  <1>2. ASSUME NEW w \in Worker, NEW i \in DOMAIN Rules, memory'[w][i] \subseteq memory[w][i],
               NEW n \in memory'[w][i]
        PROVE  /\ Given(w, i, n.event)'
               /\ \A o \in memory'[w][i] : o.event = n.event /\ o # n => Repeated(n.event)'
    <2>1. n \in memory[w][i]
      BY <1>2
    <2>2. Given(w, i, n.event)
      BY <2>1 DEF MemoryOfWorkers
    <2>3. Given(w, i, n.event)'
      <3> HIDE DEF Given
      <3> QED
        BY <1>1, <2>2
    <2>4. \A o \in memory'[w][i] : o.event = n.event /\ o # n => Repeated(n.event)
      BY <1>2, <2>1 DEF MemoryOfWorkers
    <2> QED
      BY <2>3, <2>4, RepeatedKept
  <1>3. ASSUME NEW w \in Worker, NEW i, NEW x, Counts(w, i, x), NEW n \in memory'[w][i]
        PROVE  /\ Given(w, i, n.event)'
               /\ \A o \in memory'[w][i] : o.event = n.event /\ o # n => Repeated(n.event)'
    <2>1. PICK new : /\ new.event = Current(w).event
                     /\ memory'[w][i] \subseteq memory[w][i] \cup {new}
      BY <1>0, <1>3, CountedEntry
    <2>2. /\ i \in DOMAIN Rules /\ proc[w].pc # "idle" /\ x = Head(proc[w].inbox)
          /\ i = proc[w].rule /\ stream' = stream /\ delivered' = delivered /\ Past(w, i, x)'
      BY <1>3 DEF Counts, streamVars
    <2>3. /\ x \in 1 .. delivered /\ x \in Messages /\ Current(w) = stream[x]
          /\ 1 \in 1 .. Len(proc[w].inbox) /\ x = proc[w].inbox[1]
      BY <2>2, MessageInHand
    <2>4. Given(w, i, new.event)'
      BY <2>1, <2>2, <2>3
    <2>5. \A o \in memory[w][i] : Given(w, i, o.event)
      BY <2>2 DEF MemoryOfWorkers
    <2>6. ASSUME NEW o \in memory[w][i], o.event = new.event
          PROVE  Repeated(new.event)
      <3>1. PICK k \in 1 .. delivered : stream[k].event = o.event /\ Past(w, i, k)
        BY <2>5
      <3>2. k # x
        <4> SUFFICES ASSUME k = x PROVE FALSE
          OBVIOUS
        <4>1. proc[w].rule > i
          BY <2>3, <3>1 DEF Past
        <4>2. i \in Nat
          BY <2>2, RulesFacts
        <4> QED
          BY <2>2, <4>1, <4>2
      <3>3. k \in Messages
        BY <1>0 DEF Messages
      <3> QED
        BY <2>1, <2>3, <2>6, <3>1, <3>2, <3>3 DEF Repeated
    <2>7. Given(w, i, n.event)'
      <3>1. CASE n \in memory[w][i]
        <4>1. Given(w, i, n.event)
          BY <2>5, <3>1
        <4> HIDE DEF Given
        <4> QED
          BY <1>1, <2>2, <4>1
      <3>2. CASE n = new
        BY <2>4, <3>2
      <3> QED
        BY <2>1, <3>1, <3>2
    <2>8. ASSUME NEW o \in memory'[w][i], o.event = n.event, o # n
          PROVE  Repeated(n.event)
      <3>1. CASE o \in memory[w][i] /\ n \in memory[w][i]
        BY <2>2, <2>8, <3>1 DEF MemoryOfWorkers
      <3>2. CASE o = new /\ n \in memory[w][i]
        BY <2>6, <2>8, <3>2
      <3>3. CASE o \in memory[w][i] /\ n = new
        BY <2>6, <2>8, <3>3
      <3> QED
        BY <2>1, <2>8, <3>1, <3>2, <3>3
    <2> HIDE DEF Given
    <2> QED
      BY <2>7, <2>8, RepeatedKept
  <1>4. ASSUME NEW w \in Worker, NEW i \in DOMAIN Rules, NEW n \in memory'[w][i]
        PROVE  /\ Given(w, i, n.event)'
               /\ \A o \in memory'[w][i] : o.event = n.event /\ o # n => Repeated(n.event)'
    <2> HIDE DEF Given
    <2>1. CASE memory'[w][i] \subseteq memory[w][i]
      BY <1>2, <1>4, <2>1
    <2>2. CASE \E x : Counts(w, i, x)
      BY <1>3, <1>4, <2>2
    <2>3. ASSUME NEW p \in Process, NEW j, NEW x, Counts(p, j, x)
          PROVE  memory'[w][i] \subseteq memory[w][i] \/ Counts(w, i, x)
      <3>1. w # p \/ i # j => memory'[w][i] = memory[w][i]
        BY <1>0, <2>3, CountedEntry
      <3> QED
        BY <2>3, <3>1
    <2> QED
      BY <1>0, <2>1, <2>2, <2>3 DEF MemoryForms
  <1> QED
    BY <1>4 DEF MemoryOfWorkers

LEMMA MemoryOfSimulatorStep ==
    ASSUME Types, ProcessesOK, InboxesApart, WindowsCounted, AtMatchingRule,
           StepForms, MemoryForms, MemoryOfSimulator
    PROVE  MemoryOfSimulator'
  <1>0. simulator \in Process /\ simulator \notin Worker
    BY ProcessAssumption DEF Process
  <1>1. ASSUME NEW i \in DOMAIN Rules, NEW n \in memory[simulator][i]
        PROVE  Past(simulator, i, n.event)'
    <2>1. Past(simulator, i, n.event) /\ i \in Nat
      BY RulesFacts DEF MemoryOfSimulator
    <2>2. PICK e : e = n.event
      OBVIOUS
    <2>3. Past(simulator, i, e)'
      BY <1>0, <2>1, <2>2, PastKept
    <2> QED
      BY <2>2, <2>3
  <1>2. ASSUME NEW i, NEW x, Counts(simulator, i, x), NEW n \in memory'[simulator][i]
        PROVE  /\ Past(simulator, i, n.event)'
               /\ \A o \in memory'[simulator][i] : o.event = n.event => o = n
    <2>1. PICK new : /\ new.event = Current(simulator).event
                     /\ memory'[simulator][i] \subseteq memory[simulator][i] \cup {new}
      BY <1>0, <1>2, CountedEntry
    <2>2. /\ i \in DOMAIN Rules /\ i \in Nat /\ proc[simulator].pc # "idle"
          /\ x = Head(proc[simulator].inbox)
          /\ i = proc[simulator].rule /\ Past(simulator, i, x)'
      BY <1>2, RulesFacts DEF Counts
    <2>3. proc[simulator].inbox \in Seq(Event) /\ proc[simulator].inbox # << >>
      BY <1>0, <2>2 DEF Types, ProcessTypes
    <2>4. Len(proc[simulator].inbox) \in Nat \ {0} /\ x = proc[simulator].inbox[1]
      BY <2>2, <2>3, TailOfInbox
    <2>5. new.event = x
      BY <2>1, <2>2 DEF Current, Normalize
    <2>6. ASSUME NEW o \in memory[simulator][i] PROVE o.event # x
      <3> SUFFICES ASSUME o.event = x PROVE FALSE
        OBVIOUS
      <3>1. Past(simulator, i, x)
        BY <2>2 DEF MemoryOfSimulator
      <3>2. 1 \in 1 .. Len(proc[simulator].inbox)
        BY <2>4
      <3>3. proc[simulator].rule > i
        BY <2>4, <3>1, <3>2 DEF Past
      <3> QED
        BY <2>2, <3>3
    <2>7. Past(simulator, i, n.event)'
      <3>1. CASE n \in memory[simulator][i]
        BY <1>1, <2>2, <3>1
      <3>2. CASE n = new
        BY <2>2, <2>5, <3>2
      <3> QED
        BY <2>1, <3>1, <3>2
    <2>8. \A o \in memory'[simulator][i] : o.event = n.event => o = n
      BY <2>1, <2>2, <2>5, <2>6 DEF MemoryOfSimulator
    <2> QED
      BY <2>7, <2>8
  <1>3. ASSUME NEW i \in DOMAIN Rules, NEW n \in memory'[simulator][i]
        PROVE  /\ Past(simulator, i, n.event)'
               /\ \A o \in memory'[simulator][i] : o.event = n.event => o = n
    <2>1. CASE memory'[simulator][i] \subseteq memory[simulator][i]
      BY <1>1, <1>3, <2>1 DEF MemoryOfSimulator
    <2>2. CASE \E x : Counts(simulator, i, x)
      BY <1>2, <1>3, <2>2
    <2>3. ASSUME NEW p \in Process, NEW j, NEW x, Counts(p, j, x)
          PROVE  memory'[simulator][i] \subseteq memory[simulator][i] \/ Counts(simulator, i, x)
      <3>1. simulator # p \/ i # j => memory'[simulator][i] = memory[simulator][i]
        BY <1>0, <2>3, CountedEntry
      <3> QED
        BY <2>3, <3>1
    <2> QED
      BY <1>0, <2>1, <2>2, <2>3 DEF MemoryForms
  <1> QED
    BY <1>3 DEF MemoryOfSimulator
-----------------------------------------------------------------------------
\* Alerts are justified

\* Of the entries that are counted, the last of each mark is among those named.
LEMMA MarksOfMatched ==
    ASSUME NEW r, NEW entries, NEW rank, NEW bound \in Int,
           \A n \in entries : rank[n] \in Int /\ rank[n] <= bound,
           \A n \in entries : n.mark = r.mark[n.event]
    PROVE  /\ \A e \in Matched(r, entries, rank) : \E n \in entries : n.mark = r.mark[e]
           /\ \A n \in entries : \E e \in Matched(r, entries, rank) : r.mark[e] = n.mark
  <1> DEFINE last == {n \in entries : \A o \in entries : o.mark = n.mark => rank[o] <= rank[n]}
  <1>1. ASSUME NEW n \in entries
        PROVE  \E l \in last : l.mark = n.mark
    <2> DEFINE S == {rank[o] : o \in {o \in entries : o.mark = n.mark}}
    <2>1. S \subseteq Int /\ S # {} /\ \A x \in S : x <= bound
      OBVIOUS
    <2> HIDE DEF S
    <2>2. \E x \in S : \A y \in S : y <= x
      BY <2>1, GreatestElement
    <2>3. PICK l \in entries : l.mark = n.mark /\ \A y \in S : y <= rank[l]
      BY <2>2 DEF S
    <2>4. l \in last
      BY <2>3 DEF S
    <2> QED
      BY <2>3, <2>4
  <1>2. CASE r.type = "sequence"
    <2>1. Matched(r, entries, rank) = {n.event : n \in last}
      BY <1>2 DEF Matched
    <2>2. \A n \in last : n \in entries
      OBVIOUS
    <2> HIDE DEF last
    <2> QED
      BY <1>1, <2>1, <2>2
  <1>3. CASE r.type # "sequence"
    <2>1. Matched(r, entries, rank) = {n.event : n \in entries}
      BY <1>3 DEF Matched
    <2> QED
      BY <2>1
  <1> QED
    BY <1>2, <1>3

LEMMA MatchedAreCounted ==
    ASSUME NEW r, NEW entries, NEW rank, NEW e \in Matched(r, entries, rank)
    PROVE  \E n \in entries : n.event = e
BY DEF Matched

\* Entries of different events are as many as their events are.
LEMMA EntriesAreEvents ==
    ASSUME NEW entries, IsFiniteSet(entries),
           \A n, o \in entries : n.event = o.event => n = o
    PROVE  Cardinality({n.event : n \in entries}) = Cardinality(entries)
  <1> DEFINE T == {n.event : n \in entries}
             f == [n \in entries |-> n.event]
  <1>1. f \in [entries -> T] /\ DOMAIN f = entries /\ \A n \in entries : f[n] = n.event
    OBVIOUS
  <1>2. \A t \in T : \E n \in entries : f[n] = t
    OBVIOUS
  <1>3. \A n, o \in entries : f[n] = f[o] => n = o
    BY <1>1
  <1> HIDE DEF f, T
  <1>4. f \in Injection(entries, T)
    BY <1>1, <1>3 DEF Injection, IsInjective
  <1>5. f \in Surjection(entries, T)
    BY <1>1, <1>2 DEF Surjection
  <1>6. ExistsBijection(entries, T)
    BY <1>4, <1>5 DEF Bijection, ExistsBijection
  <1>7. Cardinality(T) = Cardinality(entries)
    BY <1>6, FS_Bijection
  <1> QED
    BY <1>7 DEF T

\* Entries are at least as many as their marks.
LEMMA MarksAreEntries ==
    ASSUME NEW r, r.need \in Nat, NEW e, NEW entries, IsFiniteSet(entries),
           Reached(r, {n.mark : n \in entries})
    PROVE  Reached(r, Counted(r, e, entries))
  <1> DEFINE T == {n.mark : n \in entries}
             f == [n \in entries |-> n.mark]
  <1>1. f \in [entries -> T] /\ \A n \in entries : f[n] = n.mark
    OBVIOUS
  <1>2. \A t \in T : \E n \in entries : f[n] = t
    OBVIOUS
  <1> HIDE DEF f
  <1>3. f \in Surjection(entries, T)
    BY <1>1, <1>2 DEF Surjection
  <1>4. Reached(r, T)
    OBVIOUS
  <1>5. Counted(r, e, entries) \in {entries, T}
    BY DEF Counted
  <1> HIDE DEF T
  <1>6. Cardinality(T) <= Cardinality(entries) /\ Cardinality(T) \in Nat
        /\ Cardinality(entries) \in Nat
    BY <1>3, FS_Surjection, FS_CardinalityType
  <1> QED
    BY <1>4, <1>5, <1>6 DEF Reached

LEMMA RaisedAlerts ==
    ASSUME NEW p, NEW i, NEW m, NEW matched, NEW marks, NEW source,
           NEW a \in Raised(p, i, m, matched, marks, source)
    PROVE  /\ a.rule = i /\ a.event = m.event /\ a.matched = matched /\ a.source = source
           /\ Reached(Rules[i], marks)
  <1> DEFINE b == [rule |-> i, event |-> m.event, ingested |-> m.ingested, by |-> p,
                   matched |-> matched, source |-> source]
  <1>1. /\ b.rule = i /\ b.event = m.event /\ b.matched = matched /\ b.source = source
    OBVIOUS
  <1> HIDE DEF b
  <1>2. a = b /\ Reached(Rules[i], marks)
    BY DEF Raised, b
  <1> QED
    BY <1>1, <1>2

\* Entries that an evaluation of e may count, and the alert it makes of them.
Countable(r, e, entries) ==
    \A n \in entries : /\ n.mark = r.mark[n.event]
                       /\ Matches(r, n.event) /\ SameKey(r, e, n.event)
                       /\ At[n.event] >= Cutoff(r, e)

LEMMA JustifiedByCountable ==
    ASSUME NEW i, NEW e, NEW entries, Countable(Rules[i], e, entries),
           NEW rank, NEW bound \in Int,
           \A n \in entries : rank[n] \in Int /\ rank[n] <= bound,
           NEW a, a.rule = i, a.event = e, a.matched = Matched(Rules[i], entries, rank),
           \/ Reached(Rules[i], IF ByEntry(Rules[i], e) THEN {n.event : n \in entries}
                                ELSE {n.mark : n \in entries})
           \/ /\ a.source = "memory" /\ ByEntry(Rules[i], e)
              /\ \E o \in a.matched : Repeated(o)
    PROVE  Justified(a)
  <1>0. PICK r : r = Rules[i]
    OBVIOUS
  <1>1. \A n \in entries : n.mark = r.mark[n.event]
    BY <1>0 DEF Countable
  <1>2. {r.mark[o] : o \in Matched(r, entries, rank)} = {n.mark : n \in entries}
    <2>1. /\ \A o \in Matched(r, entries, rank) : \E n \in entries : n.mark = r.mark[o]
          /\ \A n \in entries : \E o \in Matched(r, entries, rank) : r.mark[o] = n.mark
      BY <1>1, MarksOfMatched
    <2> QED
      BY <2>1
  <1>3. ASSUME NEW o \in Matched(r, entries, rank)
        PROVE  Matches(r, o) /\ SameKey(r, o, e) /\ At[o] >= Cutoff(r, e)
    <2>1. PICK n \in entries : n.event = o
      BY MatchedAreCounted
    <2> QED
      BY <1>0, <2>1 DEF Countable, SameKey
  <1>4. a.matched = Matched(r, entries, rank) /\ Rules[a.rule] = r /\ a.event = e
    BY <1>0
  <1>5. ByEntry(r, e) => Matched(r, entries, rank) = {n.event : n \in entries}
    BY DEF ByEntry, Matched
  <1>6. \/ Reached(r, IF ByEntry(r, e) THEN a.matched ELSE {r.mark[o] : o \in a.matched})
        \/ /\ a.source = "memory" /\ ByEntry(r, e)
           /\ \E o \in a.matched : Repeated(o)
    BY <1>0, <1>2, <1>4, <1>5
  <1> QED
    BY <1>3, <1>4, <1>6 DEF Justified

\* What is new in the drafts is what the rule raised.
LEMMA DraftsAfterFinish ==
    ASSUME Types, NEW p \in Process, proc[p].rule \in DOMAIN Rules,
           NEW matched, NEW marks, NEW source, Finish(p, matched, marks, source),
           NEW q \in Process, NEW a \in proc'[q].draft
    PROVE  \/ a \in proc[q].draft
           \/ a \in Raised(p, proc[p].rule, Current(p), matched, marks, source)
  <1>1. PICK new : Finished(p, new, matched, marks, source)
    BY FinishFacts
  <1>2. proc'[p] = new /\ (q # p => proc'[q] = proc[q])
    BY <1>1, OtherProcesses DEF Finished
  <1> QED
    BY <1>1, <1>2 DEF Finished

LEMMA RaiseJustified ==
    ASSUME Types, ProcessesOK, AtMatchingRule, WindowsCounted, NEW p \in Process, Raise(p),
           NEW q \in Process, NEW a \in proc'[q].draft
    PROVE  a \in proc[q].draft \/ Justified(a)
  <1>0. PICK i, m : i = proc[p].rule /\ m = Current(p)
    OBVIOUS
  <1>1. PICK r : r = Rules[i]
    OBVIOUS
  <1>2. PICK entries : entries = IF r.type = "match" THEN {Member(r, m)}
                                 ELSE Entries(r, m.event, window[i])
    OBVIOUS
  <1>3. PICK rank : rank = [n \in entries |-> At[n.event]]
    OBVIOUS
  <1>4. PICK matched : matched = Matched(r, entries, rank)
    OBVIOUS
  <1>5. PICK counted : counted = Counted(r, m.event, entries)
    OBVIOUS
  <1>6. proc[p].pc = "raise" /\ Finish(p, matched, counted, "redis")
    BY <1>0, <1>1, <1>2, <1>3, <1>4, <1>5, Zenon DEF Raise
  <1>7. /\ i \in DOMAIN Rules /\ m.event \in Event /\ Matches(r, m.event)
        /\ r.window \in Nat
    BY <1>0, <1>1, <1>6, RulesFacts, CurrentFacts DEF ProcessesOK, AtMatchingRule
  <1>8. a \in proc[q].draft \/ a \in Raised(p, i, m, matched, counted, "redis")
    BY <1>0, <1>6, <1>7, DraftsAfterFinish
  <1>9. Countable(r, m.event, entries)
        /\ \E bound \in Int : \A n \in entries : At[n.event] \in Int /\ At[n.event] <= bound
    <2>1. CASE r.type = "match"
      <3>1. entries = {Member(r, m)}
        BY <1>2, <2>1
      <3>2. \A n \in entries : n.mark = r.mark[n.event] /\ n.event = m.event
        BY <3>1 DEF Member
      <3>3. At[m.event] \in Int /\ At[m.event] >= Cutoff(r, m.event)
        BY <1>7, EventAssumption DEF Cutoff
      <3> QED
        BY <1>7, <3>2, <3>3 DEF Countable, SameKey
    <2>2. CASE r.type # "match"
      <3>1. entries = Entries(r, m.event, window[i])
        BY <1>2, <2>2
      <3>2. \A n \in window[i] : n.mark = r.mark[n.event] /\ Matches(r, n.event)
        BY <1>1, <1>7 DEF WindowsCounted, WindowsFit, Fitting
      <3>3. \E latest \in Int : \A n \in window[i] : At[n.event] <= latest
        BY <1>7 DEF WindowsCounted, WindowsFit
      <3>4. \A n \in window[i] : n.event \in Event
        BY <1>7 DEF WindowsCounted, WindowsOK
      <3> QED
        BY <3>1, <3>2, <3>3, <3>4, EventAssumption DEF Countable, Entries
    <2> QED
      BY <2>1, <2>2
  <1>10. ASSUME Reached(r, counted)
         PROVE  Reached(r, IF ByEntry(r, m.event) THEN {n.event : n \in entries}
                           ELSE {n.mark : n \in entries})
    <2>1. CASE r.type = "match"
      BY <2>1 DEF Reached
    <2>2. CASE ~ByEntry(r, m.event)
      BY <1>5, <1>10, <2>2 DEF Counted
    <2>3. CASE r.type # "match" /\ ByEntry(r, m.event)
      <3>1. entries \subseteq window[i]
        BY <1>2, <2>3 DEF Entries
      <3>2. window[i] \subseteq [mark : Mark, event : Event] /\ IsFiniteSet(window[i])
        BY <1>7 DEF WindowsCounted, WindowsOK, WindowsFit
      <3>3. \A n \in entries : n.mark = r.mark[n.event]
        BY <1>9 DEF Countable
      <3>4. \A n, o \in entries : n.event = o.event => n = o
        BY <3>1, <3>2, <3>3
      <3>5. IsFiniteSet(entries)
        BY <3>1, <3>2, FS_Subset
      <3>6. Cardinality({n.event : n \in entries}) = Cardinality(entries)
        BY <3>4, <3>5, EntriesAreEvents
      <3>7. Cardinality(entries) >= r.need
        BY <1>5, <1>10, <2>3 DEF Counted, Reached
      <3> QED
        BY <2>3, <3>6, <3>7 DEF Reached
    <2> QED
      BY <2>1, <2>2, <2>3
  <1>11. ASSUME a \in Raised(p, i, m, matched, counted, "redis")
         PROVE  Justified(a)
    <2>1. /\ a.rule = i /\ a.event = m.event /\ a.matched = matched
          /\ Reached(Rules[i], counted)
      BY <1>11, RaisedAlerts
    <2>2. PICK bound \in Int : \A n \in entries : rank[n] \in Int /\ rank[n] <= bound
      BY <1>3, <1>9
    <2>3. PICK e : e = m.event
      OBVIOUS
    <2> QED
      BY <1>1, <1>4, <1>9, <1>10, <2>1, <2>2, <2>3, JustifiedByCountable
  <1> QED
    BY <1>8, <1>11

LEMMA MemoryJustified ==
    ASSUME Types, ProcessesOK, AtMatchingRule, WindowsCounted, NEW p \in Process,
           FallBack(p) \/ CounterFails(p),
           WindowsCounted', MemoryOfWorkers', MemoryOfSimulator', UNCHANGED stream,
           NEW q \in Process, NEW a \in proc'[q].draft
    PROVE  a \in proc[q].draft \/ Justified(a)
  <1>0. PICK i, m : i = proc[p].rule /\ m = Current(p)
    OBVIOUS
  <1>1. PICK r : r = Rules[i]
    OBVIOUS
  <1>2. PICK store : store = Kept(r, m, memory[p][i])
    OBVIOUS
  <1>3. PICK entries : entries = {n \in store : SameKey(r, m.event, n.event)}
    OBVIOUS
  <1>4. PICK rank : rank = [n \in entries |-> n.place]
    OBVIOUS
  <1>5. PICK matched : matched = Matched(r, entries, rank)
    OBVIOUS
  <1>6. PICK counted : counted = Counted(r, m.event, entries)
    OBVIOUS
  <1>7. /\ proc[p].pc \in {"record", "trim", "raise"}
        /\ memory' = [memory EXCEPT ![p][i] = store]
        /\ Finish(p, matched, counted, "memory")
    <2>1. proc[p].pc \in {"record", "trim", "raise"} /\ CountInMemory(p)
      BY DEF FallBack, CounterFails
    <2> QED
      BY <1>0, <1>1, <1>2, <1>3, <1>4, <1>5, <1>6, <2>1, Zenon DEF CountInMemory
  <1>8. i \in DOMAIN Rules /\ m.event \in Event
    BY <1>0, <1>7, CurrentFacts DEF ProcessesOK
  <1>9. a \in proc[q].draft \/ a \in Raised(p, i, m, matched, counted, "memory")
    BY <1>0, <1>7, <1>8, DraftsAfterFinish
  <1>10. memory'[p][i] = store
    BY <1>7, <1>8 DEF WindowsCounted, WindowsOK
  <1>11. /\ \A n \in store : n.mark = r.mark[n.event] /\ Matches(r, n.event)
         /\ IsFiniteSet(store) /\ \E last \in Nat : \A n \in store : n.place <= last
    BY <1>1, <1>8, <1>10 DEF WindowsCounted, MemoryFits, Fitting, Matches
  <1>12. Countable(r, m.event, entries)
    <2>1. \A n \in store : SameKey(r, m.event, n.event) => At[n.event] >= Cutoff(r, m.event)
      BY <1>2 DEF Kept
    <2> QED
      BY <1>3, <1>11, <2>1 DEF Countable
  <1>13. \A n \in store : n.event \in Event /\ n.place \in Nat
    BY <1>8, <1>10 DEF WindowsCounted, WindowsOK
  <1>14. \E bound \in Int : \A n \in entries : rank[n] \in Int /\ rank[n] <= bound
    <2>1. PICK last \in Nat : \A n \in store : n.place <= last
      BY <1>11
    <2>2. \A n \in entries : rank[n] = n.place /\ n \in store
      BY <1>3, <1>4
    <2>3. \A n \in entries : rank[n] \in Int /\ rank[n] <= last
      BY <1>13, <2>1, <2>2
    <2>4. last \in Int
      OBVIOUS
    <2> QED
      BY <2>3, <2>4
  <1>15. ASSUME Reached(r, counted)
         PROVE  \/ Reached(r, IF ByEntry(r, m.event) THEN {n.event : n \in entries}
                              ELSE {n.mark : n \in entries})
                \/ ByEntry(r, m.event) /\ \E o \in matched : Repeated(o)
    <2>1. CASE ~ByEntry(r, m.event)
      BY <1>6, <1>15, <2>1 DEF Counted
    <2>2. CASE ByEntry(r, m.event) /\ \A n, o \in entries : n.event = o.event => n = o
      <3>1. IsFiniteSet(entries)
        BY <1>3, <1>11, FS_Subset
      <3>2. Cardinality({n.event : n \in entries}) = Cardinality(entries)
        BY <2>2, <3>1, EntriesAreEvents
      <3>3. Reached(r, entries)
        BY <1>6, <1>15, <2>2 DEF Counted
      <3> QED
        BY <2>2, <3>2, <3>3 DEF Reached
    <2>3. ASSUME ByEntry(r, m.event), NEW n \in entries, NEW o \in entries,
                 n.event = o.event, n # o
          PROVE  ByEntry(r, m.event) /\ \E e \in matched : Repeated(e)
      <3>1. n \in memory'[p][i] /\ o \in memory'[p][i]
        BY <1>3, <1>10
      <3>2. p = simulator => n = o
        BY <1>8, <2>3, <3>1 DEF MemoryOfSimulator
      <3>3. p \in Worker
        BY <2>3, <3>2 DEF Process
      <3>4. Repeated(n.event)'
        BY <1>8, <2>3, <3>1, <3>3 DEF MemoryOfWorkers
      <3>5. Repeated(n.event)
        BY <3>4 DEF Repeated, Messages
      <3>6. n.event \in matched
        BY <1>5, <2>3 DEF Matched, ByEntry
      <3> QED
        BY <2>3, <3>5, <3>6
    <2> QED
      BY <2>1, <2>2, <2>3
  <1>16. ASSUME a \in Raised(p, i, m, matched, counted, "memory")
         PROVE  Justified(a)
    <2>1. /\ a.rule = i /\ a.event = m.event /\ a.matched = matched /\ a.source = "memory"
          /\ Reached(r, counted)
      BY <1>1, <1>16, RaisedAlerts
    <2>2. PICK e : e = m.event
      OBVIOUS
    <2>3. \/ Reached(Rules[i], IF ByEntry(Rules[i], e) THEN {n.event : n \in entries}
                               ELSE {n.mark : n \in entries})
          \/ /\ a.source = "memory" /\ ByEntry(Rules[i], e)
             /\ \E o \in a.matched : Repeated(o)
      BY <1>1, <1>15, <2>1, <2>2
    <2>4. PICK bound \in Int : \A n \in entries : rank[n] \in Int /\ rank[n] <= bound
      BY <1>14
    <2> QED
      BY <1>1, <1>5, <1>12, <2>1, <2>2, <2>3, <2>4, JustifiedByCountable
  <1> QED
    BY <1>9, <1>16

LEMMA JustifiedKept ==
    ASSUME StreamGrows, NEW a, Justified(a)
    PROVE  Justified(a)'
  <1>1. \A e : Repeated(e) => Repeated(e)'
    BY RepeatedKept
  <1> QED
    BY <1>1 DEF Justified, Reached, ByEntry, Matches, SameKey, Cutoff

LEMMA JustifiedStep ==
    ASSUME Types, ProcessesOK, AtMatchingRule, WindowsCounted, StreamGrows, StepForms,
           WindowsCounted', MemoryOfWorkers', MemoryOfSimulator', JustifiedDrafts
    PROVE  JustifiedDrafts'
  <1>0. Worker \subseteq Process /\ simulator \in Process
    BY DEF Process
  <1>1. ASSUME NEW p \in Process, NEW a \in (alerts \cup proc[p].draft)
        PROVE  Justified(a)
    BY DEF JustifiedDrafts
  <1>2. ASSUME NEW q \in Process, NEW a \in (alerts \cup proc[q].draft)'
        PROVE  Justified(a) \/ \E p \in Process : a \in alerts \cup proc[p].draft
    <2>1. CASE UNCHANGED <<proc, alerts>>
      BY <1>2, <2>1
    <2>2. ASSUME NEW p \in Process, Evaluate(p) \/ CounterFails(p),
                 UNCHANGED <<alerts, streamVars>>, NEW new, GoesOn(p, new)
          PROVE  Justified(a) \/ a \in alerts \cup proc[q].draft
      <3>1. CASE a \in alerts'
        BY <2>2, <3>1
      <3>2. CASE a \in proc'[q].draft
        <4>1. CASE Raise(p)
          BY <3>2, <4>1, RaiseJustified
        <4>2. CASE FallBack(p) \/ CounterFails(p)
          <5>1. UNCHANGED stream
            BY <2>2 DEF streamVars
          <5> QED
            BY <3>2, <4>2, <5>1, MemoryJustified
        <4>3. ASSUME NEW pc, proc' = [proc EXCEPT ![p] = WithPc(proc[p], pc)]
              PROVE  a \in proc[q].draft
          <5>1. WithPc(proc[p], pc).draft = proc[p].draft
            BY StateWithPc DEF Types, ProcessTypes
          <5>2. \/ q = p /\ proc'[q].draft = WithPc(proc[p], pc).draft
                \/ proc'[q] = proc[q]
            BY <4>3, OtherProcesses
          <5> QED
            BY <3>2, <5>1, <5>2
        <4>4. CASE Record(p) \/ Trim(p)
          <5>1. \E pc : proc' = [proc EXCEPT ![p] = WithPc(proc[p], pc)]
            BY <4>4, Zenon DEF Record, Trim, WithPc
          <5> QED
            BY <4>3, <5>1
        <4> QED
          BY <2>2, <4>1, <4>2, <4>4 DEF Evaluate
      <3> QED
        BY <1>2, <3>1, <3>2
    <2>3. ASSUME NEW w \in Worker, NEW new, Begins(w, new) \/ Commits(w, new)
          PROVE  \E p \in Process : a \in alerts \cup proc[p].draft
      <3>1. proc'[w] = new /\ (q # w => proc'[q] = proc[q])
        <4>1. proc' = [proc EXCEPT ![w] = new]
          BY <2>3 DEF Begins, Commits
        <4> QED
          BY <1>0, <4>1, OtherProcesses
      <3> QED
        BY <1>0, <1>2, <2>3, <3>1 DEF Begins, Commits
    <2>4. ASSUME NEW new, Injects(new) \/ LetsGo(new)
          PROVE  \E p \in Process : a \in alerts \cup proc[p].draft
      <3>1. proc'[simulator] = new /\ (q # simulator => proc'[q] = proc[q])
        BY <1>0, <2>4, OtherProcesses DEF Injects, LetsGo
      <3> QED
        BY <1>0, <1>2, <2>4, <3>1 DEF Injects, LetsGo
    <2> QED
      BY <2>1, <2>2, <2>3, <2>4 DEF StepForms
  <1>3. ASSUME NEW q \in Process, NEW a \in (alerts \cup proc[q].draft)'
        PROVE  Justified(a)'
    BY <1>1, <1>2, <1>3, JustifiedKept
  <1> QED
    BY <1>3 DEF JustifiedDrafts

\* Without a fault, nothing that was alerted is lost: a worker lets its alerts go when
\* they are committed.
LEMMA AlertedKept ==
    ASSUME Types, StepForms, DraftIsOfMessage, faults \in Nat, faults' = 0,
           NEW i, NEW e, Alerted(i, e)
    PROVE  Alerted(i, e)'
  <1>0. Worker \subseteq Process /\ simulator \in Process /\ alerts \subseteq alerts'
        /\ faults' # faults + 1
    BY AlertsGrow DEF Process
  <1>1. PICK p \in Process : \E a \in alerts \cup proc[p].draft :
            a.rule = i /\ SameKey(Rules[i], a.event, e)
    BY DEF Alerted
  <1>11. PICK a \in alerts \cup proc[p].draft : a.rule = i /\ SameKey(Rules[i], a.event, e)
    BY <1>1
  <1>2. a \in alerts' \/ a \in proc'[p].draft
    <2>1. CASE a \in alerts
      BY <1>0, <2>1
    <2>2. CASE a \in proc[p].draft
      <3>1. CASE UNCHANGED proc
        BY <2>2, <3>1
      <3>2. ASSUME NEW q \in Process, NEW new, GoesOn(q, new)
            PROVE  a \in proc'[p].draft
        BY <2>2, <3>2, OtherProcesses DEF GoesOn
      <3>3. ASSUME NEW w \in Worker, NEW new, Read(w) \/ Ack(w) \/ Fail(w) \/ Crash(w),
                   Begins(w, new)
            PROVE  a \in alerts' \/ a \in proc'[p].draft
        <4>1. proc[w].pc \in {"idle", "committed"}
          BY <1>0, <3>3 DEF Read, Ack, Fail, Crash
        <4>2. proc[w].draft \subseteq alerts
          BY <4>1 DEF DraftIsOfMessage
        <4>3. p # w => proc'[p] = proc[p]
          BY <1>0, <3>3, OtherProcesses DEF Begins
        <4> QED
          BY <1>0, <2>2, <4>2, <4>3
      <3>4. ASSUME NEW w \in Worker, NEW new, Commits(w, new)
            PROVE  a \in alerts' \/ a \in proc'[p].draft
        <4>1. p # w => proc'[p] = proc[p]
          BY <1>0, <3>4, OtherProcesses DEF Commits
        <4> QED
          BY <2>2, <3>4, <4>1 DEF Commits
      <3>5. ASSUME NEW new, Injects(new)
            PROVE  a \in proc'[p].draft
        BY <1>0, <2>2, <3>5, OtherProcesses DEF Injects
      <3>6. ASSUME NEW new, LetsGo(new)
            PROVE  a \in alerts' \/ a \in proc'[p].draft
        <4>1. proc'[simulator] = new /\ (p # simulator => proc'[p] = proc[p])
          BY <1>0, <3>6, OtherProcesses DEF LetsGo
        <4> QED
          BY <1>0, <2>2, <3>6, <4>1 DEF LetsGo
      <3> QED
        BY <3>1, <3>2, <3>3, <3>4, <3>5, <3>6 DEF StepForms
    <2> QED
      BY <2>1, <2>2
  <1> QED
    BY <1>11, <1>2 DEF Alerted, SameKey

\* A process that stays where it is will still look, if nothing is added to the key.
LEMMA WillLookKept ==
    ASSUME Types, StreamGrows, NEW i, NEW e, NEW p \in Process, WillLook(i, e, p),
           proc'[p] = proc[p], \A n \in OfKey(i, e)' : n \in OfKey(i, e)
    PROVE  WillLook(i, e, p)'
  <1>1. Current(p)' = Current(p)
    BY CurrentKept DEF WillLook
  <1> QED
    BY <1>1 DEF WillLook, SameKey, Cutoff

\* Where the window stays as it is for the key, and no process steps that was to look
\* at it.
LEMMA StillCovered ==
    ASSUME Types, StreamGrows, StepForms, DraftIsOfMessage, faults \in Nat, faults' = 0,
           NEW i, NEW e, Covered(i, e), \A n \in OfKey(i, e)' : n \in OfKey(i, e),
           \A p \in Process : WillLook(i, e, p) => proc'[p] = proc[p]
    PROVE  Covered(i, e)'
  <1>1. CASE Alerted(i, e)
    BY <1>1, AlertedKept DEF Covered
  <1>2. ASSUME NEW p \in Process, WillLook(i, e, p)
        PROVE  Covered(i, e)'
    BY <1>2, WillLookKept DEF Covered
  <1> QED
    BY <1>1, <1>2 DEF Covered

\* zadd adds to one key.
LEMMA RecordCovers ==
    ASSUME Types, ProcessesOK, WindowsCounted, StreamGrows, StepForms, DraftIsOfMessage,
           faults \in Nat, faults' = 0, NEW p \in Process, Record(p),
           NEW i \in DOMAIN Rules, NEW e,
           Reached(Rules[i], {n.mark : n \in OfKey(i, e)}) => Covered(i, e),
           Reached(Rules[i], {n.mark : n \in OfKey(i, e)'})
    PROVE  Covered(i, e)'
  <1>1. PICK j, m : j = proc[p].rule /\ m = Current(p)
    OBVIOUS
  <1>2. /\ proc[p].pc = "record" /\ j \in DOMAIN Rules
        /\ window' = [window EXCEPT ![j] = @ \cup {Member(Rules[j], m)}]
        /\ proc' = [proc EXCEPT ![p] = WithPc(proc[p], "trim")]
    BY <1>1, Zenon DEF Record, ProcessesOK, WithPc
  <1>3. /\ proc'[p].pc = "trim" /\ proc'[p].rule = j
        /\ proc'[p].inbox = proc[p].inbox /\ proc'[p].ingested = proc[p].ingested
        /\ \A q \in Process : q # p => proc'[q] = proc[q]
    BY <1>1, <1>2, OtherProcesses, StateWithPc DEF Types, ProcessTypes
  <1>4. Current(p)' = m
    BY <1>1, <1>2, <1>3, CurrentKept
  <1>5. CASE i = j /\ SameKey(Rules[i], m.event, e)
    <2>1. WillLook(i, e, p)'
      BY <1>3, <1>4, <1>5 DEF WillLook, SameKey
    <2> QED
      BY <2>1 DEF Covered
  <1>6. CASE ~(i = j /\ SameKey(Rules[i], m.event, e))
    <2>1. window \in [DOMAIN Rules -> SUBSET [mark : Mark, event : Event]]
      BY DEF WindowsCounted, WindowsOK
    <2>2. \A n : n \in OfKey(i, e)' <=> n \in OfKey(i, e)
      <3>1. CASE i # j
        BY <1>2, <2>1, <3>1 DEF OfKey
      <3>2. CASE i = j
        <4>1. ~SameKey(Rules[i], e, Member(Rules[j], m).event)
          BY <1>6, <3>2 DEF Member, SameKey
        <4>2. window'[i] = window[i] \cup {Member(Rules[j], m)}
          BY <1>2, <2>1, <3>2
        <4> QED
          BY <4>1, <4>2 DEF OfKey
      <3> QED
        BY <3>1, <3>2
    <2>3. Covered(i, e)
      <3>1. OfKey(i, e)' = OfKey(i, e)
        BY <2>2
      <3> QED
        BY <3>1
    <2>4. \A q \in Process : WillLook(i, e, q) => proc'[q] = proc[q]
      BY <1>2, <1>3 DEF WillLook
    <2> QED
      BY <2>2, <2>3, <2>4, StillCovered
  <1> QED
    BY <1>5, <1>6

\* zremrangebyscore leaves of its key what the process is going to look at.
LEMMA TrimCovers ==
    ASSUME Types, ProcessesOK, WindowsCounted, StreamGrows, StepForms, DraftIsOfMessage,
           faults \in Nat, faults' = 0, NEW p \in Process, Trim(p),
           NEW i \in DOMAIN Rules, NEW e,
           Reached(Rules[i], {n.mark : n \in OfKey(i, e)}) => Covered(i, e),
           Reached(Rules[i], {n.mark : n \in OfKey(i, e)'})
    PROVE  Covered(i, e)'
  <1>1. PICK j, m : j = proc[p].rule /\ m = Current(p)
    OBVIOUS
  <1>2. /\ proc[p].pc = "trim" /\ j \in DOMAIN Rules
        /\ window' = [window EXCEPT ![j] =
              {n \in @ : SameKey(Rules[j], m.event, n.event) => At[n.event] > Cutoff(Rules[j], m.event)}]
        /\ proc' = [proc EXCEPT ![p] = WithPc(proc[p], "raise")]
    BY <1>1, Zenon DEF Trim, ProcessesOK, WithPc
  <1>3. /\ proc'[p].pc = "raise" /\ proc'[p].rule = j
        /\ proc'[p].inbox = proc[p].inbox /\ proc'[p].ingested = proc[p].ingested
        /\ \A q \in Process : q # p => proc'[q] = proc[q]
    BY <1>1, <1>2, OtherProcesses, StateWithPc DEF Types, ProcessTypes
  <1>4. Current(p)' = m /\ m.event \in Event
    BY <1>1, <1>2, <1>3, CurrentKept, CurrentFacts
  <1>5. /\ window \in [DOMAIN Rules -> SUBSET [mark : Mark, event : Event]]
        /\ \A n \in window[j] : n.event \in Event
    BY <1>2 DEF WindowsCounted, WindowsOK
  <1>6. window'[j] = {n \in window[j] : SameKey(Rules[j], m.event, n.event) =>
                                            At[n.event] > Cutoff(Rules[j], m.event)}
        /\ (i # j => window'[i] = window[i])
    BY <1>2, <1>5
  <1>7. CASE i = j /\ SameKey(Rules[i], m.event, e)
    <2>1. ASSUME NEW n \in OfKey(i, e)'
          PROVE  At[n.event] >= Cutoff(Rules[i], m.event)
      <3>1. n \in window'[j] /\ SameKey(Rules[i], m.event, n.event)
        BY <1>7 DEF OfKey, SameKey
      <3>2. At[n.event] > Cutoff(Rules[i], m.event) /\ n.event \in Event
        BY <1>5, <1>6, <1>7, <3>1
      <3>3. At[n.event] \in Int /\ Cutoff(Rules[i], m.event) \in Int
        BY <1>4, <3>2, EventAssumption, RulesFacts DEF Cutoff
      <3> QED
        BY <3>2, <3>3
    <2>2. WillLook(i, e, p)'
      BY <1>3, <1>4, <1>7, <2>1 DEF WillLook, SameKey, Cutoff
    <2> QED
      BY <2>2 DEF Covered
  <1>8. CASE ~(i = j /\ SameKey(Rules[i], m.event, e))
    <2>1. \A n : n \in OfKey(i, e)' <=> n \in OfKey(i, e)
      <3>1. CASE i # j
        BY <1>6, <3>1 DEF OfKey
      <3>2. CASE i = j
        <4>1. \A n : SameKey(Rules[i], e, n.event) => ~SameKey(Rules[j], m.event, n.event)
          BY <1>8, <3>2 DEF SameKey
        <4> QED
          BY <1>6, <3>2, <4>1 DEF OfKey, SameKey
      <3> QED
        BY <3>1, <3>2
    <2>2. Covered(i, e)
      <3>1. OfKey(i, e)' = OfKey(i, e)
        BY <2>1
      <3> QED
        BY <3>1
    <2>3. \A q \in Process : WillLook(i, e, q) => proc'[q] = proc[q]
      <3>1. ~WillLook(i, e, p)
        BY <1>1, <1>8 DEF WillLook
      <3> QED
        BY <1>3, <3>1
    <2> QED
      BY <2>1, <2>2, <2>3, StillCovered
  <1> QED
    BY <1>7, <1>8

\* zrangebyscore of all of a key ends in an alert, or there is one.
LEMMA RaiseCovers ==
    ASSUME Types, ProcessesOK, WindowsCounted, StreamGrows, StepForms, DraftIsOfMessage,
           faults \in Nat, faults' = 0, NEW p \in Process, Raise(p),
           NEW i \in DOMAIN Rules, NEW e, Rules[i].type # "match",
           Reached(Rules[i], {n.mark : n \in OfKey(i, e)}), Covered(i, e)
    PROVE  Covered(i, e)'
  <1>0. UNCHANGED window
    BY DEF Raise, countVars
  <1>1. CASE Alerted(i, e)
    BY <1>1, AlertedKept DEF Covered
  <1>2. ASSUME NEW q \in Process, q # p, WillLook(i, e, q)
        PROVE  Covered(i, e)'
    <2>1. proc'[q] = proc[q]
      <3>1. proc[p].rule \in DOMAIN Rules /\ proc[p].pc = "raise"
        BY DEF Raise, ProcessesOK
      <3>2. \E matched, marks, source : Finish(p, matched, marks, source)
        BY Zenon DEF Raise
      <3> QED
        BY <1>2, <3>1, <3>2, FinishFacts, OtherProcesses DEF Finished
    <2>2. \A n \in OfKey(i, e)' : n \in OfKey(i, e)
      BY <1>0 DEF OfKey
    <2> QED
      BY <1>2, <2>1, <2>2, WillLookKept DEF Covered
  <1>3. ASSUME WillLook(i, e, p)
        PROVE  Covered(i, e)'
    <2>1. PICK m, r : m = Current(p) /\ r = Rules[i]
      OBVIOUS
    <2>2. PICK entries : entries = Entries(r, m.event, window[i])
      OBVIOUS
    <2>3. PICK matched : matched = Matched(r, entries, [n \in entries |-> At[n.event]])
      OBVIOUS
    <2>4. PICK counted : counted = Counted(r, m.event, entries)
      OBVIOUS
    <2>5. /\ proc[p].rule = i /\ SameKey(r, m.event, e)
          /\ proc[p].pc = "raise" /\ \A n \in OfKey(i, e) : At[n.event] >= Cutoff(r, m.event)
      BY <1>3, <2>1 DEF WillLook, Raise
    <2>6. Finish(p, matched, counted, "redis")
      BY <2>1, <2>2, <2>3, <2>4, <2>5, Zenon DEF Raise
    <2>7. entries = OfKey(i, e)
      BY <2>1, <2>2, <2>5 DEF Entries, OfKey, SameKey
    <2>8. Reached(r, counted)
      <3>1. IsFiniteSet(entries)
        <4>1. entries \subseteq window[i] /\ IsFiniteSet(window[i])
          BY <2>2 DEF Entries, WindowsCounted, WindowsFit
        <4> QED
          BY <4>1, FS_Subset
      <3>2. r.need \in Nat
        BY <2>1, RulesAssumption
      <3>3. Reached(r, {n.mark : n \in entries})
        BY <2>1, <2>7
      <3> QED
        BY <2>4, <3>1, <3>2, <3>3, MarksAreEntries
    <2>9. CASE Suppressed(p, i, m.event)
      <3>1. PICK a \in alerts \cup proc[p].draft : a.rule = i /\ SameKey(Rules[i], a.event, m.event)
        BY <2>9 DEF Suppressed
      <3>2. Alerted(i, e)
        BY <2>1, <2>5, <3>1 DEF Alerted, SameKey
      <3> QED
        BY <3>2, AlertedKept DEF Covered
    <2>10. CASE ~Suppressed(p, i, m.event)
      <3> DEFINE a == [rule |-> i, event |-> m.event, ingested |-> m.ingested, by |-> p,
                       matched |-> matched, source |-> "redis"]
      <3>1. Raised(p, i, m, matched, counted, "redis") = {a}
        BY <2>1, <2>8, <2>10 DEF Raised
      <3>2. a.rule = i /\ a.event = m.event
        OBVIOUS
      <3> HIDE DEF a
      <3>3. PICK new : Finished(p, new, matched, counted, "redis")
        BY <2>5, <2>6, FinishFacts
      <3>4. proc'[p] = new /\ a \in new.draft
        BY <2>1, <2>5, <3>1, <3>3, OtherProcesses DEF Finished
      <3>5. Alerted(i, e)'
        BY <2>1, <2>5, <3>2, <3>4 DEF Alerted, SameKey
      <3> QED
        BY <3>5 DEF Covered
    <2> QED
      BY <2>9, <2>10
  <1> QED
    BY <1>1, <1>2, <1>3 DEF Covered

LEMMA NotOverlookedStep ==
    ASSUME Types, IngestOK, ProcessesOK, WindowsCounted, StreamGrows, StepForms,
           DraftIsOfMessage, NotOverlooked, [Next]_vars
    PROVE  NotOverlooked'
  <1> SUFFICES ASSUME faults' = 0
               PROVE  /\ \A p \in Process : counterUp'[p]
                      /\ \A i \in DOMAIN Rules : \A e \in Event :
                            /\ Rules[i].type # "match"
                            /\ Reached(Rules[i], {n.mark : n \in OfKey(i, e)'})
                            => Covered(i, e)'
    BY DEF NotOverlooked, Covered, Reached
  <1>0. /\ Worker \subseteq Process /\ simulator \in Process /\ simulator \notin Worker
        /\ faults \in Nat /\ faults' # faults + 1
    BY ProcessAssumption, BoundAssumption DEF Process, IngestOK
  <1>1. faults = 0
    <2>1. ASSUME NEW m, PublishMessage(m) PROVE faults' = faults
      BY <1>0, <2>1 DEF PublishMessage
    <2>2. ASSUME NEW q \in Request, Save(q) \/ Publish(q) \/ CommitIngest(q) \/ FailIngest(q)
          PROVE  faults' = faults
      BY <1>0, <2>1, <2>2 DEF Save, Publish, CommitIngest, FailIngest
    <2>3. ASSUME NEW p \in Process, Evaluate(p) \/ CounterFails(p)
          PROVE  faults' = faults
      BY <1>0, <2>3 DEF Evaluate, Record, Trim, Raise, FallBack, CounterFails
    <2>4. ASSUME NEW w \in Worker, Read(w) \/ CommitMessage(w) \/ Ack(w) \/ Fail(w) \/ Crash(w)
          PROVE  faults' = faults
      BY <1>0, <2>4 DEF Read, CommitMessage, Ack, Fail, Crash
    <2>5. ASSUME Inject \/ Injected \/ FailScenario \/ Elapse \/ UNCHANGED vars
          PROVE  faults' = faults
      BY <1>0, <2>1, <2>5 DEF Inject, Injected, FailScenario, Elapse, vars
    <2> QED
      BY <2>2, <2>3, <2>4, <2>5 DEF Next, WorkerStep, Process
  <1>2. /\ \A p \in Process : counterUp[p]
        /\ \A i \in DOMAIN Rules : \A e \in Event :
              /\ Rules[i].type # "match"
              /\ Reached(Rules[i], {n.mark : n \in OfKey(i, e)})
              => Covered(i, e)
    BY <1>1 DEF NotOverlooked, Covered
  <1> DEFINE Goal ==
          /\ \A p \in Process : counterUp'[p]
          /\ \A i \in DOMAIN Rules : \A e \in Event :
                /\ Rules[i].type # "match"
                /\ Reached(Rules[i], {n.mark : n \in OfKey(i, e)'})
                => Covered(i, e)'
  <1>3. ASSUME UNCHANGED <<window, counterUp>>,
               \A p \in Process : proc[p].pc \in {"trim", "raise"} => proc'[p] = proc[p]
        PROVE  Goal
    <2>1. ASSUME NEW i \in DOMAIN Rules, NEW e \in Event, Rules[i].type # "match",
                 Reached(Rules[i], {n.mark : n \in OfKey(i, e)'})
          PROVE  Covered(i, e)'
      <3>1. OfKey(i, e)' = OfKey(i, e)
        BY <1>3 DEF OfKey
      <3>2. Covered(i, e)
        BY <1>2, <2>1, <3>1
      <3>3. \A p \in Process : WillLook(i, e, p) => proc'[p] = proc[p]
        BY <1>3 DEF WillLook
      <3> QED
        BY <1>0, <3>1, <3>2, <3>3, StillCovered
    <2> QED
      BY <1>2, <1>3, <2>1
  <1>4. ASSUME NEW p \in Process, Record(p) PROVE Goal
    <2>1. UNCHANGED counterUp
      BY <1>4 DEF Record
    <2>2. ASSUME NEW i \in DOMAIN Rules, NEW e \in Event, Rules[i].type # "match",
                 Reached(Rules[i], {n.mark : n \in OfKey(i, e)'})
          PROVE  Covered(i, e)'
      BY <1>0, <1>2, <1>4, <2>2, RecordCovers
    <2> QED
      BY <1>2, <2>1, <2>2
  <1>5. ASSUME NEW p \in Process, Trim(p) PROVE Goal
    <2>1. UNCHANGED counterUp
      BY <1>5 DEF Trim
    <2>2. ASSUME NEW i \in DOMAIN Rules, NEW e \in Event, Rules[i].type # "match",
                 Reached(Rules[i], {n.mark : n \in OfKey(i, e)'})
          PROVE  Covered(i, e)'
      BY <1>0, <1>2, <1>5, <2>2, TrimCovers
    <2> QED
      BY <1>2, <2>1, <2>2
  <1>6. ASSUME NEW p \in Process, Raise(p) PROVE Goal
    <2>1. UNCHANGED <<window, counterUp>>
      BY <1>6 DEF Raise, countVars
    <2>2. ASSUME NEW i \in DOMAIN Rules, NEW e \in Event, Rules[i].type # "match",
                 Reached(Rules[i], {n.mark : n \in OfKey(i, e)'})
          PROVE  Covered(i, e)'
      <3>1. OfKey(i, e)' = OfKey(i, e)
        BY <2>1 DEF OfKey
      <3>2. Reached(Rules[i], {n.mark : n \in OfKey(i, e)}) /\ Covered(i, e)
        BY <1>2, <2>2, <3>1
      <3> QED
        BY <1>0, <1>6, <2>2, <3>2, RaiseCovers
    <2> QED
      BY <1>2, <2>1, <2>2
  <1>7. ASSUME NEW p \in Process, FallBack(p) \/ CounterFails(p) PROVE FALSE
    BY <1>0, <1>2, <1>7 DEF FallBack, CounterFails
  <1>8. ASSUME NEW w \in Worker, Read(w) \/ CommitMessage(w) \/ Ack(w) \/ Fail(w) \/ Crash(w)
        PROVE  Goal
    <2>1. /\ proc[w].pc \in {"idle", "evaluated", "committed"}
          /\ \E new : proc' = [proc EXCEPT ![w] = new]
          /\ UNCHANGED <<window, counterUp>>
      <3>1. CASE Read(w)
        BY <3>1, Zenon DEF Read, countVars
      <3>2. CASE CommitMessage(w)
        BY <3>2, Zenon DEF CommitMessage, countVars
      <3>3. CASE Ack(w)
        BY <3>3, Zenon DEF Ack, countVars
      <3>4. CASE Fail(w) \/ Crash(w)
        BY <1>0, <3>4 DEF Fail, Crash
      <3> QED
        BY <1>8, <3>1, <3>2, <3>3, <3>4
    <2>2. \A p \in Process : p # w => proc'[p] = proc[p]
      BY <1>0, <2>1, OtherProcesses
    <2> HIDE DEF Goal
    <2> QED
      BY <1>3, <2>1, <2>2
  <1>9. ASSUME Inject \/ Injected \/ FailScenario
        PROVE  Goal
    <2>1. /\ proc[simulator].pc \in {"idle", "evaluated"}
          /\ \E new : proc' = [proc EXCEPT ![simulator] = new]
          /\ UNCHANGED <<window, counterUp>>
      <3>1. CASE Inject
        BY <3>1, Zenon DEF Inject, countVars
      <3>2. CASE Injected
        BY <3>2, Zenon DEF Injected, countVars
      <3>3. CASE FailScenario
        BY <1>0, <3>3 DEF FailScenario
      <3> QED
        BY <1>9, <3>1, <3>2, <3>3
    <2>2. \A p \in Process : p # simulator => proc'[p] = proc[p]
      BY <1>0, <2>1, OtherProcesses
    <2> HIDE DEF Goal
    <2> QED
      BY <1>3, <2>1, <2>2
  <1>10. ASSUME NEW q \in Request, Save(q) \/ Publish(q) \/ CommitIngest(q) \/ FailIngest(q)
         PROVE  UNCHANGED <<proc, window, counterUp>>
    BY <1>10 DEF Save, Publish, CommitIngest, FailIngest, countVars
  <1>11. ASSUME Elapse \/ UNCHANGED vars
         PROVE  UNCHANGED <<proc, window, counterUp>>
    BY <1>11 DEF Elapse, vars, countVars
  <1>12. ASSUME UNCHANGED <<proc, window, counterUp>>
         PROVE  Goal
    <2> HIDE DEF Goal
    <2> QED
      BY <1>3, <1>12
  <1> HIDE DEF Goal
  <1>13. Goal
    BY <1>4, <1>5, <1>6, <1>7, <1>8, <1>9, <1>10, <1>11, <1>12
       DEF Next, WorkerStep, Evaluate, Process
  <1> QED
    BY <1>13 DEF Goal

\* A window holds events of its rule; where everything that was given out is committed
\* and nobody is at work, nobody is going to look at it, and what was alerted is
\* committed.
LEMMA QuietIsAlerted ==
    ASSUME Types, ProcessesOK, AtMatchingRule, WindowsCounted, InboxesApart,
           DraftIsOfMessage, NotOverlooked
    PROVE  ThresholdIsAlerted
  <1>0. Worker \subseteq Process /\ simulator \in Process /\ simulator \notin Worker
    BY ProcessAssumption DEF Process
  <1> SUFFICES ASSUME NEW i \in DOMAIN Rules, faults = 0, Quiet(i), NEW m \in window[i],
                      Reached(Rules[i], {n.mark : n \in {n \in window[i] :
                                            SameKey(Rules[i], m.event, n.event)}})
               PROVE  \E a \in alerts : a.rule = i /\ SameKey(Rules[i], a.event, m.event)
    BY DEF ThresholdIsAlerted
  <1>1. Rules[i].type # "match" /\ m.event \in Event
    BY DEF WindowsCounted, WindowsOK, WindowsFit
  <1>2. PICK e \in Event : e = m.event
    BY <1>1
  <1>3. Reached(Rules[i], {n.mark : n \in OfKey(i, e)})
    BY <1>2 DEF OfKey
  <1>4. Alerted(i, e) \/ \E p \in Process : WillLook(i, e, p)
    BY <1>1, <1>3 DEF NotOverlooked, Covered
  <1>5. ASSUME NEW w \in Worker, proc[w].pc # "idle", Matches(Rules[i], Current(w).event)
        PROVE  proc[w].pc = "committed"
    <2>1. /\ Head(proc[w].inbox) \in 1 .. delivered
          /\ Current(w) = stream[Head(proc[w].inbox)]
          /\ 1 \in 1 .. Len(proc[w].inbox) /\ Head(proc[w].inbox) = proc[w].inbox[1]
      BY <1>5, MessageInHand
    <2>2. Head(proc[w].inbox) \in processed
      BY <1>5, <2>1 DEF Quiet
    <2> QED
      BY <2>1, <2>2 DEF InboxesApart
  <1>6. ASSUME NEW p \in Process, WillLook(i, e, p)
        PROVE  FALSE
    <2>1. p # simulator
      BY <1>6 DEF WillLook, Quiet
    <2>2. p \in Worker
      BY <2>1 DEF Process
    <2>3. proc[p].pc \in {"trim", "raise"} /\ Matches(Rules[i], Current(p).event)
      BY <1>6 DEF WillLook, AtMatchingRule
    <2> QED
      BY <1>5, <2>2, <2>3
  <1>7. ASSUME NEW p \in Process, NEW a \in proc[p].draft, a.rule = i
        PROVE  a \in alerts
    <2>1. p \in Worker
      BY <1>7 DEF Quiet, Process
    <2>2. Matches(Rules[i], Current(p).event) /\ proc[p].pc # "idle"
      BY <1>7, <2>1 DEF DraftIsOfMessage
    <2> QED
      BY <1>5, <1>7, <2>1, <2>2 DEF DraftIsOfMessage
  <1> QED
    BY <1>2, <1>4, <1>6, <1>7 DEF Alerted

WInv ==
    /\ IngestOK /\ ProcessesOK /\ WindowsCounted /\ AtMatchingRule /\ InboxesApart
    /\ DraftIsOfMessage /\ MemoryOfWorkers /\ MemoryOfSimulator /\ JustifiedDrafts
    /\ NotOverlooked

LEMMA InitWInv == Init => WInv
  <1> SUFFICES ASSUME Init PROVE WInv
    OBVIOUS
  <1>0. /\ Worker \subseteq Process /\ simulator \in Process /\ simulator \notin Worker
        /\ MaxFaults \in Nat /\ MaxTries \in Nat
    BY ProcessAssumption, BoundAssumption DEF Process
  <1> DEFINE first(p) == [Idle EXCEPT !.inbox = IF p = simulator THEN Scenario ELSE @]
  <1>1. \A p \in Process : proc[p] = first(p)
    BY DEF Init
  <1>2. ASSUME NEW p \in Process
        PROVE  /\ proc[p].pc = "idle" /\ proc[p].draft = {}
               /\ proc[p].inbox = IF p = simulator THEN Scenario ELSE << >>
    <2> DEFINE inbox == IF p = simulator THEN Scenario ELSE << >>
    <2>1. first(p) = [pc |-> "idle", inbox |-> inbox, rule |-> 0, draft |-> {}, ingested |-> 0]
      BY DEF Idle
    <2> HIDE DEF inbox
    <2>2. proc[p] = [pc |-> "idle", inbox |-> inbox, rule |-> 0, draft |-> {}, ingested |-> 0]
      BY <1>1, <2>1
    <2> QED
      BY <2>2 DEF inbox
  <1> HIDE DEF first
  <1>3. \A w \in Worker : proc[w].pc = "idle" /\ proc[w].draft = {} /\ Len(proc[w].inbox) = 0
    <2> SUFFICES ASSUME NEW w \in Worker
                 PROVE  proc[w].pc = "idle" /\ proc[w].draft = {} /\ Len(proc[w].inbox) = 0
      OBVIOUS
    <2>1. proc[w].inbox = << >>
      BY <1>0, <1>2
    <2> QED
      BY <1>0, <1>2, <2>1
  <1>4. \A w \in Worker : \A k \in 1 .. Len(proc[w].inbox) : FALSE
    BY <1>3
  <1>5. IngestOK
    BY <1>0 DEF Init, IngestOK
  <1>6. ProcessesOK
    BY <1>2, <1>4 DEF Init, ProcessesOK
  <1>7. AtMatchingRule
    BY <1>2 DEF AtMatchingRule
  <1>8. /\ \A i \in DOMAIN Rules : window[i] = {}
        /\ \A p \in Process : \A i \in DOMAIN Rules : memory[p][i] = {}
    BY DEF Init
  <1>9. WindowsCounted
    <2>1. WindowsOK
      BY DEF Init, WindowsOK
    <2>2. \E latest \in Int : \A n \in {} : At[n.event] <= latest
      OBVIOUS
    <2>3. WindowsFit
      BY <1>8, <2>2, FS_EmptySet DEF WindowsFit, Fitting
    <2>4. \E last \in Nat : \A n \in {} : n.place <= last
      OBVIOUS
    <2>5. MemoryFits
      BY <1>8, <2>4, FS_EmptySet DEF MemoryFits, Fitting
    <2> QED
      BY <2>1, <2>3, <2>5 DEF WindowsCounted
  <1>10. InboxesApart
    <2>1. ASSUME NEW p \in Process, NEW j \in 1 .. Len(proc[p].inbox),
                 NEW k \in 1 .. Len(proc[p].inbox), proc[p].inbox[j] = proc[p].inbox[k]
          PROVE  j = k
      <3>1. p = simulator
        BY <1>4, <2>1 DEF Process
      <3>2. proc[p].inbox = Scenario
        BY <1>2, <3>1
      <3>3. DOMAIN Scenario = 1 .. Len(Scenario)
        BY BatchAssumption
      <3> QED
        BY <2>1, <3>2, <3>3, ScenarioAssumption
    <2> QED
      BY <1>4, <2>1 DEF InboxesApart
  <1>11. DraftIsOfMessage
    BY <1>3 DEF DraftIsOfMessage
  <1>12. MemoryOfWorkers /\ MemoryOfSimulator
    BY <1>0, <1>8 DEF MemoryOfWorkers, MemoryOfSimulator
  <1>13. JustifiedDrafts
    BY <1>2 DEF Init, JustifiedDrafts
  <1>14. NotOverlooked
    <2>1. \A p \in Process : counterUp[p]
      BY DEF Init
    <2>2. ASSUME NEW i \in DOMAIN Rules, NEW e, Rules[i].type # "match"
          PROVE  ~Reached(Rules[i], {n.mark : n \in OfKey(i, e)})
      <3> DEFINE marks == {n.mark : n \in OfKey(i, e)}
      <3>1. marks = {}
        BY <1>8, <2>2 DEF OfKey
      <3> HIDE DEF marks
      <3>2. Cardinality(marks) = 0
        BY <3>1, FS_EmptySet
      <3>3. Rules[i].need \in Nat \ {0}
        BY RulesAssumption
      <3>4. ~Reached(Rules[i], marks)
        BY <2>2, <3>2, <3>3 DEF Reached
      <3> QED
        BY <3>4 DEF marks
    <2> QED
      BY <2>1, <2>2 DEF NotOverlooked
  <1> QED
    BY <1>5, <1>6, <1>7, <1>9, <1>10, <1>11, <1>12, <1>13, <1>14 DEF WInv

LEMMA NextWInv == Types /\ Types' /\ WInv /\ [Next]_vars => WInv'
  <1> SUFFICES ASSUME Types, Types', WInv, [Next]_vars PROVE WInv'
    OBVIOUS
  <1>1. /\ IngestOK /\ ProcessesOK /\ WindowsCounted /\ AtMatchingRule /\ InboxesApart
        /\ DraftIsOfMessage /\ MemoryOfWorkers /\ MemoryOfSimulator /\ JustifiedDrafts
        /\ NotOverlooked
    BY DEF WInv
  <1>2. StreamGrows /\ delivered' \in Nat /\ delivered <= delivered'
    BY StreamGrowsStep, DeliveredGrows
  <1>3. StepForms
    BY <1>1, StepsHaveForms
  <1>4. MemoryForms
    BY <1>1, MemorySteps
  <1>5. IngestOK'
    BY <1>1, IngestOKStep
  <1>6. WindowsCounted'
    BY <1>1, WindowStep
  <1>7. ProcessesOK' /\ AtMatchingRule'
    BY <1>1, ProcessesStep
  <1>8. InboxesApart'
    BY <1>1, InboxesStep
  <1>9. DraftIsOfMessage'
    BY <1>1, <1>2, <1>3, DraftsStep
  <1>10. MemoryOfWorkers'
    BY <1>1, <1>2, <1>3, <1>4, MemoryOfWorkersStep
  <1>11. MemoryOfSimulator'
    BY <1>1, <1>3, <1>4, MemoryOfSimulatorStep
  <1>12. JustifiedDrafts'
    BY <1>1, <1>2, <1>3, <1>6, <1>10, <1>11, JustifiedStep
  <1>13. NotOverlooked'
    BY <1>1, <1>2, <1>3, NotOverlookedStep
  <1> QED
    BY <1>5, <1>6, <1>7, <1>8, <1>9, <1>10, <1>11, <1>12, <1>13 DEF WInv

LEMMA SpecWInv == Spec => [](Types /\ WInv)
  <1>1. IInv => Types
    BY DEF IInv
  <1> QED
    BY <1>1, SpecIInv, InitWInv, NextWInv, PTL DEF Spec

\* Every variable of the pipeline keeps to its type.
THEOREM PipelineTypes == Spec => []TypeOK
  <1>1. Types /\ WInv => TypeOK
    BY TypeOKOfParts DEF WInv, WindowsCounted
  <1> QED
    BY <1>1, SpecWInv, PTL

\* Workers that record events of one key at the same time do not both overlook the
\* threshold (sliding_window: zadd, zremrangebyscore, zrangebyscore).
THEOREM PipelineSeesThresholds == Spec => []ThresholdIsAlerted
  <1>1. Types /\ WInv => ThresholdIsAlerted
    BY QuietIsAlerted DEF WInv
  <1> QED
    BY <1>1, SpecWInv, PTL

\* What an alert reports is there, as much of it as the rule asks for: of events, where
\* the rule counts entries; otherwise of values or steps (rule_evaluator, evaluate).
THEOREM PipelineAlertsAreJustified == Spec => []AlertIsJustified
  <1>1. WInv => AlertIsJustified
    <2>1. simulator \in Process
      BY DEF Process
    <2> QED
      BY <2>1 DEF WInv, JustifiedDrafts, AlertIsJustified
  <1> QED
    BY <1>1, SpecWInv, PTL

=============================================================================
