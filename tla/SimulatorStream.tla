--------------------------- MODULE SimulatorStream ---------------------------
(***************************************************************************)
(* The simulator: a scenario is a stream of stimuli that a scheduler with  *)
(* virtual ticks and a bounded queue gives to one stateful store through   *)
(* the stream driver; afterwards an independent oracle executes the same   *)
(* stream, and the differences are the findings.  A fault mode falsifies   *)
(* receipts on their way, to show that the oracle sees it.  The store is   *)
(* HelperStore, a claim has one event, identities are short names.         *)
(***************************************************************************)
EXTENDS Integers, Sequences, FiniteSets

CONSTANTS MaxCycles,    \* restart-and-retry cycles of a generated chain
          QueueOffers,  \* stimuli of SIM-QUEUE-01, 24 in the code
          QueueTicks,   \* ticks they arrive in, 6 in the code
          QueueLimit    \* its queue_capacity, 8 in the code

ASSUME SimulatorAssumption ==
    /\ {QueueOffers, QueueTicks, QueueLimit} \subseteq Nat \ {0}
    /\ MaxCycles \in 2..4

VARIABLES
    scenario,     \* [case, fault, stimuli, due, capacity, max_events, service]
    loop,         \* where the scheduler's loop is
    tick, scheduled, ready, in_flight,   \* stimuli by their index in the stream
    executed,     \* indices, in the order of execution
    rejected, errors, observations, driver,
    status        \* "none", "Passed", "Failed", "Incomplete"

simVars == <<scenario, loop, tick, scheduled, ready, in_flight, executed, rejected, errors,
             observations, driver, status>>

Cycles == 1..2
Store == INSTANCE HelperStore
    WITH Gens <- 1..2, MaxCredential <- 2, Nonces <- {"r1", "r2", "a1", "a2"}, Newest <- 1, Horizon <- 1

-----------------------------------------------------------------------------
(* Scenarios. *)

Stim(op, does, arg) == [op |-> op, does |-> does, arg |-> arg]
Restart(op) == Stim(op, "Restart", "none")
Retrieve(op, request) == Stim(op, "Retrieve", request)
Acknowledge(op, request) == Stim(op, "Acknowledge", request)
Terminal(op) == Stim(op, "Terminal", "none")
Rearm(op) == Stim(op, "Rearm", "none")

ClaimedChain == <<Stim("arm-1", "Arm", "none"), Stim("offer-1", "Offer", "e1"), Stim("claim-1", "Admit", "e1")>>
FirstAcknowledgedChain == ClaimedChain \o <<Retrieve("retrieve-1", "r1"), Acknowledge("ack-1", "a1")>>
CompleteChain ==
    FirstAcknowledgedChain \o
    <<Terminal("terminal-1"), Rearm("rearm-1"), Stim("arm-2", "Arm", "none"),
      Stim("offer-2", "Offer", "e2"), Stim("claim-2", "Admit", "e2")>>
RevokedChain ==
    ClaimedChain \o <<Stim("revoke-1", "Revoke", "none"), Restart("restart-1"), Retrieve("retrieve-2", "r1")>>
RestartedChain == FirstAcknowledgedChain \o <<Restart("restart-1"), Terminal("terminal-1"), Rearm("rearm-1")>>

Catalog ==
    [CHAIN01 |-> CompleteChain,
     REPLAY01 |-> FirstAcknowledgedChain \o <<Rearm("early-rearm")>>,
     CHAIN02 |-> FirstAcknowledgedChain \o <<Restart("restart-1"), Retrieve("retrieve-1", "r1"), Acknowledge("ack-1", "a1")>>,
     CHAIN03 |-> ClaimedChain \o <<Restart("restart-1"), Stim("claim-1", "Admit", "changed")>>,
     CHAIN04 |-> RevokedChain,
     CHAIN05 |-> ClaimedChain \o <<Restart("restart-1"), Stim("stale-retrieve", "StaleRetrieve", "r1")>>,
     CHAIN06 |-> FirstAcknowledgedChain \o
         <<Rearm("rearm-wait"), Stim("offer-during-rearm", "Offer", "e2"), Stim("claim-during-rearm", "Admit", "e2"),
           Terminal("terminal-1"), Restart("restart-terminal"), Rearm("rearm-1"), Stim("arm-2", "Arm", "none"),
           Stim("claim-after-rearm", "Admit", "e2")>>,
     CHAIN07 |-> RestartedChain,
     CHAIN08 |-> FirstAcknowledgedChain \o <<Terminal("terminal-1"), Stim("omit-rearm", "OmitRearm", "none")>>,
     PROC01 |-> RestartedChain,
     ORACLE01 |-> ClaimedChain, ORACLE02 |-> RestartedChain,
     ORACLE03 |-> RevokedChain, ORACLE04 |-> FirstAcknowledgedChain]

\* FaultMode::for_case
FaultModes == <<"DuplicateAdmission", "LoseAcknowledgment", "ResurrectRevokedGrant", "FalsePublication">>
FaultOf(case) ==
    CASE case = "ORACLE01" -> FaultModes[1] [] case = "ORACLE02" -> FaultModes[2]
      [] case = "ORACLE03" -> FaultModes[3] [] case = "ORACLE04" -> FaultModes[4] [] OTHER -> "None"

\* generated_chain: restarts before or after the retries of a cycle, then a second lifecycle.
RestartIds == <<"restart-0", "restart-1", "restart-2", "restart-3">>
Retries == <<Retrieve("retrieve-1", "r1"), Acknowledge("ack-1", "a1")>>
RetryCycle(k, first) ==
    IF first THEN <<Restart(RestartIds[k])>> \o Retries ELSE Retries \o <<Restart(RestartIds[k])>>
GeneratedChain(order) ==
    LET cycle(k) == IF k \in DOMAIN order THEN RetryCycle(k, order[k]) ELSE <<>>
    IN FirstAcknowledgedChain \o cycle(1) \o cycle(2) \o cycle(3) \o cycle(4) \o
       <<Terminal("terminal-1"), Rearm("rearm-1"), Stim("arm-2", "Arm", "none"), Stim("offer-2", "Offer", "e2"),
         Stim("claim-2", "Admit", "e2"), Retrieve("retrieve-2", "r2"), Acknowledge("ack-2", "a2"),
         Terminal("terminal-2"), Rearm("rearm-2")>>

\* Every stimulus of a chain is due one tick after its parent, the one before it;
\* a run may also be cut short by its limit of events.
ChainOf(case, fault, stimuli) ==
    {[case |-> case, fault |-> fault, stimuli |-> stimuli, due |-> [k \in DOMAIN stimuli |-> k],
      capacity |-> 64, max_events |-> max, service |-> 0] : max \in {2, 1024}}

QueueScenarios ==
    LET offers == [k \in 1..QueueOffers |-> Stim("queue", "Offer", "e1")]
    IN {[case |-> "QUEUE01", fault |-> "None", stimuli |-> offers, due |-> arrivals,
         capacity |-> QueueLimit, max_events |-> 1024, service |-> 2] : arrivals \in [1..QueueOffers -> 1..QueueTicks]}

Scenarios ==
    QueueScenarios
    \cup UNION ({ChainOf(case, FaultOf(case), Catalog[case]) : case \in DOMAIN Catalog}
           \cup {ChainOf("GENERATED", fault, GeneratedChain(order)) :
                     fault \in {"None"} \cup {FaultModes[k] : k \in DOMAIN FaultModes},
                     order \in UNION {[1..n -> BOOLEAN] : n \in 2..MaxCycles}})

Stimulus(k) == scenario.stimuli[k]

-----------------------------------------------------------------------------
(* The driver: its bindings and what it remembers, over the store. *)

NoOp == "none"
NewDriver ==
    [store |-> Store!EmptyStore, generation |-> 1, arm_count |-> 0, offered |-> {}, admissions |-> {},
     claims |-> [g \in Cycles |-> NoOp], grant_installed |-> FALSE, last_retrieve |-> NoOp, revision |-> 0]

Answer(d, outcome) == [driver |-> d, outcome |-> outcome]
Revised(d, outcome) == Answer([d EXCEPT !.revision = @ + 1], outcome)

Credential == 1
Grant == [cred |-> Credential, lease |-> 1, operations |-> "all", revoked |-> FALSE]

\* Mutant: the next cycle keeps the grant of the last one.
NextCycleKeepsGrant(d) == [d EXCEPT !.generation = @ + 1, !.last_retrieve = NoOp]

NextCycle(d) == [d EXCEPT !.generation = @ + 1, !.grant_installed = FALSE, !.last_retrieve = NoOp]

ArmStore(d) ==
    LET cycle == IF d.arm_count > 0 THEN NextCycle(d) ELSE d
    IN Revised([cycle EXCEPT !.store = Store!Registered(@, cycle.generation), !.arm_count = @ + 1], "armed")

\* A repeated operation presents the admission it presented before, with another
\* digest when the event changed.
AdmitEvent(d, op, event) ==
    LET g == d.generation
        before == {a \in d.admissions : a.op = op}
        remembered == IF before = {} THEN [d EXCEPT !.admissions = @ \cup {[op |-> op, event |-> event]}] ELSE d
        granted == IF d.grant_installed THEN d.store ELSE Store!Minted(Store!Admitted(d.store, g, 1), g, Grant)
    IN IF before = {} /\ event \notin d.offered THEN Answer(d, "unauthorized")
       ELSE IF \E a \in before : a.event # event THEN Answer(d, "conflict")
       ELSE IF \E c \in Cycles : d.claims[c] = op THEN Answer(d, "exact_replay")
       ELSE IF ~Store!AdmitOk(d.store, g) THEN Answer(remembered, "conflict")
       ELSE Revised([remembered EXCEPT !.claims[g] = op, !.grant_installed = TRUE, !.store = granted], "admitted")

Admissible(d, operation) ==
    /\ Store!Authentic(d.store, d.generation, Credential)
    /\ Store!Allows(d.store.grants[d.generation].operations, operation)
    /\ Store!Unrevoked(d.store, d.generation)

\* authorize_fresh_use: stale credentials are unauthorized, a closed attempt refuses.
FreshOutcome(d, recorded) ==
    LET g == d.generation
    IN IF ~(0 < d.store.grants[g].lease /\ Store!Current(d.store, g, 0)) THEN "unauthorized"
       ELSE IF Store!Closed(d.store, g) THEN "invalid_transition" ELSE recorded

RetrieveBatch(d, request) ==
    LET g == d.generation
    IN IF ~Admissible(d, "retrieve") THEN Answer(d, "unauthorized")
       ELSE IF Store!RetrieveReplays(d.store, request, g, Credential)
       THEN Answer([d EXCEPT !.last_retrieve = request], "exact_replay")
       ELSE IF Store!RetrieveFresh(d.store, request, g, Credential, 0)
       THEN Revised([d EXCEPT !.last_retrieve = request, !.store = Store!Retrieved(@, request, g, Credential)], "retrieved")
       ELSE Answer(d, FreshOutcome(d, "error"))

AcknowledgeBatch(d, request) ==
    LET g == d.generation
    IN IF d.last_retrieve = NoOp THEN Answer(d, "error")
       ELSE IF ~Admissible(d, "acknowledge") THEN Answer(d, "unauthorized")
       ELSE IF Store!AcknowledgeReplays(d.store, request, g, Credential) THEN Answer(d, "exact_replay")
       ELSE IF Store!AcknowledgeFresh(d.store, request, g, Credential, d.last_retrieve, 1, 0)
       THEN Revised([d EXCEPT !.store = Store!Acknowledged(@, request, g, Credential, d.last_retrieve, 1)], "acknowledged")
       ELSE Answer(d, FreshOutcome(d, "unauthorized"))

JoinOutcome(result) ==
    CASE result = "Rearmed" -> "rearmed" [] result = "AlreadyRearmed" -> "exact_replay"
      [] result = "WaitingForHandled" -> "waiting_for_handled"
      [] result = "WaitingForRecognizedTerminal" -> "waiting_for_terminal" [] OTHER -> "error"

JoinRearm(d) ==
    LET outcome == JoinOutcome(Store!RearmResult(d.store, d.generation))
    IN IF outcome = "rearmed" THEN Revised([d EXCEPT !.store = Store!Rearmed(@, d.generation)], outcome)
       ELSE Answer(d, outcome)

\* StreamDriver::apply; "error" is an Err, after which nothing is observed.
Apply(d, s) ==
    LET g == d.generation
    IN CASE s.does = "Arm" -> ArmStore(d)
         [] s.does = "Offer" -> Revised([d EXCEPT !.offered = @ \cup {s.arg}], "offered")
         [] s.does = "Admit" -> AdmitEvent(d, s.op, s.arg)
         [] s.does = "Retrieve" -> RetrieveBatch(d, s.arg)
         [] s.does = "StaleRetrieve" ->
                LET advanced == [d EXCEPT !.store = Store!Registered(@, g + 1)]
                IN Answer(advanced, IF RetrieveBatch(advanced, s.arg).outcome = "unauthorized" THEN "unauthorized" ELSE "error")
         [] s.does = "Acknowledge" -> AcknowledgeBatch(d, s.arg)
         [] s.does = "Terminal" -> Revised([d EXCEPT !.store = Store!FactRecorded(@, g, "Terminal")], "terminal")
         [] s.does = "Rearm" -> JoinRearm(d)
         [] s.does = "Revoke" ->
                IF Store!RevokeGrantOk(d.store, g, Credential)
                THEN Revised([d EXCEPT !.store = Store!GrantRevoked(@, g)], "revoked") ELSE Answer(d, "error")
         [] s.does = "Restart" -> Answer(d, IF Store!Restorable(d.store) THEN "reopened" ELSE "error")
         [] OTHER -> Answer(d, "inactive")

\* The receipt counts the claims that the store recovers.
Observed(s, d, outcome) ==
    [op |-> s.op, outcome |-> outcome, revision |-> d.revision,
     effects |-> Cardinality({c \in Cycles : d.store.claims[c] # 0})]

-----------------------------------------------------------------------------
(* The oracle. *)

NewOracle ==
    [armed |-> FALSE, claimed |-> FALSE, retrieved |-> FALSE, acknowledged |-> FALSE, terminal |-> FALSE,
     revoked |-> FALSE, offered |-> 0, effects |-> 0, revision |-> 0, results |-> {}, seen |-> {}]

Commits(o, outcome) == [oracle |-> [o EXCEPT !.revision = @ + 1], outcome |-> outcome]
Says(o, outcome) == [oracle |-> o, outcome |-> outcome]

\* The result of the request the oracle has on record, or a new one.
OnRecord(o, request, new) ==
    IF \E r \in o.results : r.request = request
    THEN Says(o, (CHOOSE r \in o.results : r.request = request).result) ELSE new

Keeps(o, request, result) == [o EXCEPT !.results = @ \cup {[request |-> request, result |-> result]}]

ApplyFresh(o, s) ==
    CASE s.does = "Arm" -> Commits([o EXCEPT !.armed = TRUE], "armed")
      [] s.does = "Offer" /\ o.armed -> Commits([o EXCEPT !.offered = @ + 1], "offered")
      [] s.does = "Admit" /\ o.armed /\ ~o.revoked /\ o.offered > 0 ->
             IF o.claimed THEN Says(o, "conflict")
             ELSE Commits([Keeps(o, s.arg, "admitted") EXCEPT !.claimed = TRUE, !.effects = @ + 1], "admitted")
      [] s.does = "Retrieve" /\ o.claimed /\ ~o.revoked ->
             OnRecord(o, s.arg, IF o.acknowledged THEN Says(o, "invalid_transition")
                            ELSE Commits([Keeps(o, s.arg, "retrieved") EXCEPT !.retrieved = TRUE], "retrieved"))
      [] s.does = "Acknowledge" /\ o.retrieved /\ ~o.revoked ->
             OnRecord(o, s.arg, Commits([Keeps(o, s.arg, "acknowledged") EXCEPT !.acknowledged = TRUE], "acknowledged"))
      [] s.does = "Terminal" /\ o.claimed -> Commits([o EXCEPT !.terminal = TRUE], "terminal")
      [] s.does = "Rearm" ->
             IF ~o.acknowledged THEN Says(o, "waiting_for_handled")
             ELSE IF ~o.terminal THEN Says(o, "waiting_for_terminal")
             ELSE Commits([o EXCEPT !.claimed = FALSE, !.retrieved = FALSE, !.acknowledged = FALSE, !.terminal = FALSE], "rearmed")
      [] s.does = "Revoke" -> Commits([o EXCEPT !.revoked = TRUE], "revoked")
      [] s.does = "Restart" -> Says(o, "reopened")
      [] s.does = "OmitRearm" -> Says(o, "inactive")
      [] OTHER -> Says(o, "unauthorized")

OracleApply(o, s) ==
    LET seen == {e \in o.seen : e.op = s.op}
    IN IF seen = {} THEN ApplyFresh([o EXCEPT !.seen = @ \cup {s}], s)
       ELSE Says(o, IF s \in seen THEN "exact_replay" ELSE "conflict")

Expectations ==
    LET after[k \in 0..Len(executed)] ==
            IF k = 0 THEN Says(NewOracle, NoOp) ELSE OracleApply(after[k - 1].oracle, Stimulus(executed[k]))
    IN [k \in DOMAIN executed |->
           [op |-> Stimulus(executed[k]).op, outcome |-> after[k].outcome,
            effects |-> after[k].oracle.effects, revision |-> after[k].oracle.revision]]

\* oracle_findings: the places where the two differ.
Findings ==
    LET expected == Expectations IN {k \in DOMAIN executed : observations[k] # expected[k]}

-----------------------------------------------------------------------------
(* The scheduler. *)

NothingInFlight == [at |-> 0, stimulus |-> 0]
SimInitOf(s) ==
    /\ scenario = s
    /\ loop = "limits" /\ tick = 0 /\ scheduled = DOMAIN scenario.stimuli
    /\ ready = <<>> /\ in_flight = NothingInFlight
    /\ executed = <<>> /\ rejected = {} /\ errors = 0 /\ observations = <<>>
    /\ driver = NewDriver /\ status = "none"

SimInit == \E s \in Scenarios : SimInitOf(s)

StreamEnded == scheduled = {} /\ ready = <<>> /\ in_flight = NothingInFlight
OverLimit == Len(observations) >= scenario.max_events

CheckLimits ==
    /\ loop = "limits"
    /\ loop' = IF StreamEnded \/ OverLimit THEN "judge" ELSE "complete"
    /\ UNCHANGED <<scenario, tick, scheduled, ready, in_flight, executed, rejected, errors, observations, driver, status>>

\* inject_receipt_fault
Injected(s, o) ==
    CASE scenario.fault = "DuplicateAdmission" /\ s.does = "Admit" -> [o EXCEPT !.effects = @ + 1]
      [] scenario.fault = "LoseAcknowledgment" /\ s.does = "Restart" -> [o EXCEPT !.revision = @ - 1]
      [] scenario.fault = "ResurrectRevokedGrant" /\ s.does \in {"Retrieve", "StaleRetrieve"} -> [o EXCEPT !.outcome = "retrieved"]
      [] scenario.fault = "FalsePublication" /\ s.does = "Acknowledge" -> [o EXCEPT !.revision = @ + 1]
      [] OTHER -> o

\* complete_store_step: after an error the stimulus does not complete, and its
\* children wait for ever.
CompleteStoreStep(k) ==
    LET s == Stimulus(k)
        answer == Apply(driver, s)
    IN /\ driver' = answer.driver
       /\ IF answer.outcome = "error"
          THEN errors' = errors + 1 /\ UNCHANGED <<executed, observations>>
          ELSE /\ executed' = Append(executed, k) /\ UNCHANGED errors
               /\ observations' = Append(observations, Injected(s, Observed(s, answer.driver, answer.outcome)))

CompleteInFlight ==
    /\ loop = "complete" /\ loop' = "arrive"
    /\ IF in_flight # NothingInFlight /\ in_flight.at <= tick
       THEN CompleteStoreStep(in_flight.stimulus) /\ in_flight' = NothingInFlight
       ELSE UNCHANGED <<in_flight, driver, executed, observations, errors>>
    /\ UNCHANGED <<scenario, tick, scheduled, ready, rejected, status>>

\* A chain's parent is the operation before it; a retried operation has the name
\* of the first try, so that its children may take that for their parent.
Completed == {Stimulus(executed[k]).op : k \in DOMAIN executed}
ParentReady(k) == scenario.case = "QUEUE01" \/ k = 1 \/ Stimulus(k - 1).op \in Completed

Occupied == Len(ready) + (IF in_flight = NothingInFlight THEN 0 ELSE 1)

\* The stimuli that are due, by tick and place: the first are queued, the rest rejected.
Arrive ==
    /\ loop = "arrive" /\ loop' = "serve"
    /\ LET due == {k \in scheduled : scenario.due[k] <= tick /\ ParentReady(k)}
           before(k) == {l \in due : scenario.due[l] < scenario.due[k] \/ (scenario.due[l] = scenario.due[k] /\ l <= k)}
           room == scenario.capacity - Occupied
           queued == {k \in due : Cardinality(before(k)) <= room}
       IN /\ scheduled' = scheduled \ due
          /\ rejected' = rejected \cup (due \ queued)
          /\ ready' = ready \o [n \in 1..Cardinality(queued) |-> CHOOSE k \in queued : Cardinality(before(k)) = n]
    /\ UNCHANGED <<scenario, tick, in_flight, executed, errors, observations, driver, status>>

\* Without service ticks the queue is emptied, up to the limit of events.
ServeAll ==
    /\ loop = "serve" /\ scenario.service = 0
    /\ IF ready = <<>> THEN loop' = "advance" /\ UNCHANGED <<ready, driver, executed, observations, errors>>
       ELSE /\ ready' = Tail(ready)
            /\ IF OverLimit THEN loop' = "judge" /\ UNCHANGED <<driver, executed, observations, errors>>
               ELSE loop' = loop /\ CompleteStoreStep(ready[1])
    /\ UNCHANGED <<scenario, tick, scheduled, in_flight, rejected, status>>

ServeOne ==
    /\ loop = "serve" /\ scenario.service > 0 /\ loop' = "advance"
    /\ IF in_flight = NothingInFlight /\ ready # <<>>
       THEN in_flight' = [at |-> tick + scenario.service, stimulus |-> ready[1]] /\ ready' = Tail(ready)
       ELSE UNCHANGED <<in_flight, ready>>
    /\ UNCHANGED <<scenario, tick, scheduled, executed, rejected, errors, observations, driver, status>>

NextTicks ==
    {scenario.due[k] : k \in scheduled} \cup (IF in_flight = NothingInFlight THEN {} ELSE {in_flight.at})
    \cup (IF ready = <<>> THEN {} ELSE {tick + 1})

\* Time jumps to the next thing that can happen; a stream that waits for a parent
\* that failed runs into max_virtual_tick.
AdvanceTick ==
    /\ loop = "advance"
    /\ IF NextTicks = {} \/ \A k \in scheduled : scenario.due[k] <= tick /\ errors > 0
       THEN loop' = "judge" /\ UNCHANGED tick
       ELSE /\ loop' = "limits"
            /\ \E next \in NextTicks :
                  /\ \A other \in NextTicks : next <= other
                  /\ tick' = IF next > tick THEN next ELSE tick + 1
    /\ UNCHANGED <<scenario, scheduled, ready, in_flight, executed, rejected, errors, observations, driver, status>>

-----------------------------------------------------------------------------
(* The verdict. *)

OutcomesOf(ops) == {observations[k].outcome : k \in {l \in DOMAIN observations : observations[l].op \in ops}}
AllOps == {observations[k].op : k \in DOMAIN observations}
LastIs(outcome) == observations = <<>> \/ observations[Len(observations)].outcome = outcome
Replays == {k \in DOMAIN observations : observations[k].outcome = "exact_replay"}

\* validate_observations has nothing to say of the case.
CaseMet ==
    CASE scenario.case = "CHAIN01" ->
             "rearmed" \in OutcomesOf(AllOps) /\ observations # <<>> /\ observations[Len(observations)].effects = 2
      [] scenario.case = "CHAIN02" -> Cardinality(Replays) >= 2
      [] scenario.case = "CHAIN03" -> LastIs("conflict")
      [] scenario.case \in {"CHAIN04", "CHAIN05"} -> LastIs("unauthorized")
      [] scenario.case = "CHAIN06" ->
             /\ "waiting_for_terminal" \in OutcomesOf(AllOps)
             /\ "conflict" \in OutcomesOf({"claim-during-rearm"}) /\ "admitted" \in OutcomesOf({"claim-after-rearm"})
      [] scenario.case = "CHAIN07" -> LastIs("rearmed")
      [] scenario.case = "CHAIN08" -> LastIs("inactive")
      [] scenario.case = "REPLAY01" -> "waiting_for_terminal" \in OutcomesOf(AllOps)
      [] OTHER -> TRUE

Short == scenario.case # "QUEUE01" /\ Len(executed) # Len(scenario.stimuli)
NoFindings == CaseMet /\ (scenario.case # "QUEUE01" => Findings = {}) /\ ~Short
StreamCheck == errors = 0 /\ observations # <<>>
FaultCheck == scenario.fault = "None" \/ ~NoFindings

\* run: a limit makes it incomplete, and so does the want of a real child.
Judge ==
    /\ loop = "judge" /\ status = "none"
    /\ status' = IF ~StreamEnded \/ observations = <<>> THEN "Incomplete"
                 ELSE IF CaseMet /\ (scenario.fault # "None" \/ NoFindings) /\ StreamCheck /\ FaultCheck
                         /\ scenario.case # "PROC01"
                 THEN "Passed"
                 ELSE IF scenario.case = "PROC01" THEN "Incomplete" ELSE "Failed"
    /\ UNCHANGED <<scenario, loop, tick, scheduled, ready, in_flight, executed, rejected, errors, observations, driver>>

\* run_process_case judges the base run again, with a child killed before and one
\* after its commit; each reopening finds what SqliteBaseline says, or does not.
RunProcessCase ==
    /\ status # "none" /\ scenario.case \in {"CHAIN07", "PROC01"} /\ scenario.max_events = 1024
    /\ \E reopened \in [{"pre_commit", "post_commit"} -> BOOLEAN] :
          status' = IF NoFindings /\ StreamCheck /\ \A phase \in DOMAIN reopened : reopened[phase] THEN "Passed" ELSE "Failed"
    /\ UNCHANGED <<scenario, loop, tick, scheduled, ready, in_flight, executed, rejected, errors, observations, driver>>

SimNext ==
    \/ CheckLimits \/ CompleteInFlight \/ Arrive \/ ServeAll \/ ServeOne \/ AdvanceTick \/ Judge \/ RunProcessCase

SimSpec == SimInit /\ [][SimNext]_simVars

-----------------------------------------------------------------------------
\* Over every scenario and generated chain, restarts and retries included, the
\* store's receipts are the oracle's, except those a fault mode falsified.
OracleAgrees ==
    LET expected == Expectations
    IN loop = "judge" /\ scenario.case # "QUEUE01" =>
           \A k \in DOMAIN executed : observations[k] = Injected(Stimulus(executed[k]), expected[k])

\* A run that is cut short is never passed; a whole run passes, with no finding
\* unless a fault was injected, and with one, whatever the order of its retries, if
\* it was.
VerdictEarned ==
    status # "none" /\ scenario.case \notin {"CHAIN07", "PROC01"} =>
        IF Len(executed) + Cardinality(rejected) < Len(scenario.stimuli) THEN status # "Passed"
        ELSE /\ status = "Passed"
             /\ scenario.case # "QUEUE01" => (Findings = {} <=> scenario.fault = "None")

\* The queue never holds more than its capacity, with what is in flight; a stimulus
\* is scheduled, queued, in flight, executed or rejected, one of these, and what is
\* executed came in the order of its ticks.
QueueAccounted ==
    LET flying == IF in_flight = NothingInFlight THEN <<>> ELSE <<in_flight.stimulus>>
        line == executed \o flying \o ready
    IN /\ Len(flying \o ready) <= scenario.capacity
       /\ \A k, l \in DOMAIN line : k < l => line[k] # line[l] /\ scenario.due[line[k]] <= scenario.due[line[l]]
       /\ {line[k] : k \in DOMAIN line} \cap (rejected \cup scheduled) = {} /\ rejected \cap scheduled = {}
       /\ errors = 0 /\ loop # "judge" => Len(line) + Cardinality(rejected \cup scheduled) = Len(scenario.stimuli)

\* The simulator neither loses a stimulus nor passes what it has not shown.
SimulatorSound == OracleAgrees /\ VerdictEarned /\ QueueAccounted
=============================================================================
