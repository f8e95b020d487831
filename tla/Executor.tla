------------------------------ MODULE Executor ------------------------------
(***************************************************************************)
(* QueryExecutor (src/engine/execution/executor.rs): the operators of a    *)
(* query plan are grouped into stages, the stages are put in order, and    *)
(* every stage is run, batch by batch if it streams.                       *)
(*                                                                         *)
(* A case is a query on one partition: the query, the values of the        *)
(* columns, and the number of rows.                                        *)
(***************************************************************************)
EXTENDS Planner

CONSTANTS Cases,      \* the cases to run
          BatchSize   \* rows in a batch of a streaming stage (1024)

ASSUME BatchAssumption == BatchSize \in Nat \ {0}

VARIABLES case,       \* the query and its partition
          table,      \* the columns, encoded
          plan,       \* the operators, the buffers, and who feeds whom
          part,       \* QueryExecutor::partition, the stage being built
          stages,     \* the stages found so far
          walk,       \* the topological sort of the stages
          order,      \* the stages in the order they run
          pad,        \* the scratchpad
          pc,         \* where the executor is
          result      \* the columns of the answer

vars == <<case, table, plan, part, stages, walk, order, pad, pc, result>>

------------------------------------------------------------------------------
(* The graph of the operators.                                              *)

Ops == plan.ops

\* producers and consumers of a buffer, in the order of the operators
Producers(b) == SelectSeq([i \in DOMAIN Ops |-> i], LAMBDA i : b \in ToSet(Ops[i].outs))

Consumers(b) == SelectSeq([i \in DOMAIN Ops |-> i], LAMBDA i : b \in ToSet(Ops[i].ins))

\* The operators that feed an operator, directly or not, with itself
Upstream(ops) ==
    LET feeds(S) == {j \in DOMAIN ops : \E i \in S : ToSet(ops[j].outs) \intersect ToSet(ops[i].ins) # {}}
        close[S \in SUBSET DOMAIN ops] == IF feeds(S) \subseteq S THEN S ELSE close[S \union feeds(S)]
    IN  [i \in DOMAIN ops |-> close[{i}]]

StreamingConsumer(b) == \E c \in ToSet(Consumers(b)) : StreamsInput(Ops[c], b)

BlockConsumer(b) == \E c \in ToSet(Consumers(b)) : ~StreamsInput(Ops[c], b)

\* streaming_disabled: some consumers take batches and some do not.  With
\* several streamable outputs the last one decides.
StreamingDisabled(i) ==
    LET outs == SelectSeq(Ops[i].outs, LAMBDA b : StreamsOutput(Ops[i], b))
    IN  outs # <<>> /\ StreamingConsumer(Last(outs)) /\ BlockConsumer(Last(outs))

------------------------------------------------------------------------------
(* partition: group the operators into stages.                              *)

NewStage(visited, stage, first) ==
    [visited |-> visited, stage |-> stage, todo |-> first, ops |-> <<>>, stream |-> FALSE,
     up |-> {}, down |-> {}, waitP |-> <<>>, waitC |-> <<>>, sorting |-> <<>>, entered |-> {},
     sorted |-> <<>>]

Current == Len(stages) + 1

\* Taking producer i into the stage would make a cycle: one of its outputs is
\* consumed by an operator that feeds the stage and is not part of it
CycleByProducer(p, i) ==
    \E b \in ToSet(Ops[i].outs) : \E c \in ToSet(Consumers(b)) : c \in p.up /\ p.stage[c] # Current

\* Fault: a consumer is taken into the stage without a look at its other inputs.
CycleByConsumerFault(p, i) == FALSE

\* The same for a consumer
CycleByConsumer(p, i) ==
    \E b \in ToSet(Ops[i].ins) : \E c \in ToSet(Producers(b)) : c \in p.down /\ p.stage[c] # Current

Take(p, i) ==
    [p EXCEPT !.visited = @ \union {i}, !.todo = Append(@, i), !.stream = @ \/ Allocates(Ops[i])]

OfferProducer(p, i, b) ==
    CASE i \in p.visited \/ ~StreamsOutput(Ops[i], b) \/ StreamingDisabled(i) -> p
      [] i \notin p.visited /\ StreamsOutput(Ops[i], b) /\ ~StreamingDisabled(i) ->
            IF CycleByProducer(p, i) THEN [p EXCEPT !.waitP = Append(@, i)] ELSE Take(p, i)

OfferConsumer(p, i, b) ==
    CASE i \in p.visited \/ ~StreamsInput(Ops[i], b) -> p
      [] i \notin p.visited /\ StreamsInput(Ops[i], b) ->
            IF CycleByConsumer(p, i) THEN [p EXCEPT !.waitC = Append(@, i)] ELSE Take(p, i)

\* The producers the operator at the top of the stack can stream from
OfferProducers(p, current) ==
    FoldLeft(LAMBDA q, b :
                IF StreamsInput(Ops[current], b)
                THEN FoldLeft(LAMBDA r, i : OfferProducer(r, i, b), q, Producers(b))
                ELSE q,
             p, Ops[current].ins)

\* The consumers it can stream to
OfferConsumers(p, current) ==
    FoldLeft(LAMBDA q, b :
                IF StreamsOutput(Ops[current], b) /\ ~StreamingDisabled(current)
                THEN FoldLeft(LAMBDA r, i : OfferConsumer(r, i, b), q, Consumers(b))
                ELSE q,
             p, Ops[current].outs)

\* Operators left out because of a cycle get another chance when there is
\* nothing else to do
Revisit(p) ==
    LET producers == FoldLeft(LAMBDA q, i : IF CycleByProducer(q, i) THEN [q EXCEPT !.waitP = Append(@, i)]
                                            ELSE Take(q, i), [p EXCEPT !.waitP = <<>>], p.waitP)
    IN  IF p.todo # <<>> THEN p
        ELSE FoldLeft(LAMBDA q, i : IF CycleByConsumer(q, i) THEN [q EXCEPT !.waitC = Append(@, i)]
                                    ELSE Take(q, i), [producers EXCEPT !.waitC = <<>>], p.waitC)

\* The operator becomes part of the stage
Entered(p, current) ==
    [p EXCEPT !.todo = Front(@), !.ops = Append(@, current), !.stage[current] = Current,
              !.up = @ \union plan.up[current],
              !.down = @ \union {j \in DOMAIN Ops : current \in plan.up[j]}]

\* One round of the loop over to_visit
VisitOp ==
    /\ pc.at = "partition" /\ part.todo # <<>>
    /\ part' = Revisit(OfferConsumers(OfferProducers(Entered(part, Last(part.todo)), Last(part.todo)),
                                      Last(part.todo)))
    /\ UNCHANGED <<case, table, plan, stages, walk, order, pad, pc, result>>

\* The stage has all its operators: sort them
CloseStage ==
    /\ pc.at = "partition" /\ part.todo = <<>> /\ part.ops # <<>>
    /\ part' = [part EXCEPT !.sorting = part.ops, !.ops = <<>>]
    /\ pc' = [pc EXCEPT !.at = "sort"]
    /\ UNCHANGED <<case, table, plan, stages, walk, order, pad, result>>

\* Fault: an operator that works in place does not wait for the other readers.
PredecessorsFault(i) ==
    FlattenSeq([k \in DOMAIN Ops[i].ins |->
                  SelectSeq(Producers(Ops[i].ins[k]), LAMBDA j : part.stage[j] = Current)])

\* The operators of the stage that have to come before operator i.  No operator
\* produces its own input ("TRIVIAL CYCLE").
Predecessors(i) ==
    LET mine(seq) == SelectSeq(seq, LAMBDA j : part.stage[j] = Current)
        before(b) == mine(Producers(b))
                        \o (IF Mutates(Ops[i], b)
                            THEN SelectSeq(mine(Consumers(b)), LAMBDA j : j # i) ELSE <<>>)
    IN  FlattenSeq([k \in DOMAIN Ops[i].ins |-> before(Ops[i].ins[k])])

\* One round of the topological sort of a stage
SortOp ==
    /\ pc.at = "sort" /\ part.sorting # <<>>
    /\ LET i == Last(part.sorting)
       IN  part' = CASE i \notin part.entered ->
                           [part EXCEPT !.entered = @ \union {i}, !.sorting = @ \o Predecessors(i)]
                     [] i \in part.entered /\ i \notin ToSet(part.sorted) ->
                           [part EXCEPT !.sorting = Front(@), !.sorted = Append(@, i)]
                     [] i \in part.entered /\ i \in ToSet(part.sorted) ->
                           [part EXCEPT !.sorting = Front(@)]
    /\ UNCHANGED <<case, table, plan, stages, walk, order, pad, pc, result>>

\* Whether an operator of the stage hands out batches
Streamable(i) ==
    LET outs == {b \in ToSet(Ops[i].outs) : StreamsOutput(Ops[i], b)}
    IN  (\E b \in outs : StreamingConsumer(b)) /\ ~\E b \in outs : BlockConsumer(b)

\* The stage is complete, and the next one starts with the first operator that
\* is in no stage
PushStage ==
    /\ pc.at = "sort" /\ part.sorting = <<>>
    /\ stages' = Append(stages,
                        [ops |-> [k \in DOMAIN part.sorted |-> [op |-> part.sorted[k],
                                                                streamable |-> Streamable(part.sorted[k])]],
                         stream |-> part.stream
                                      /\ \E i \in ToSet(part.sorted) : IsStreamingProducer(Ops[i])])
    /\ LET left == DOMAIN Ops \ part.visited
       IN  part' = IF left = {} THEN part
                   ELSE NewStage(part.visited \union {Min(left)}, part.stage, <<Min(left)>>)
    /\ pc' = [pc EXCEPT !.at = IF part.visited = DOMAIN Ops THEN "order" ELSE "partition"]
    /\ UNCHANGED <<case, table, plan, walk, order, pad, result>>

------------------------------------------------------------------------------
(* The order of the stages.                                                 *)

OpsOf(s) == {stages[s].ops[k].op : k \in DOMAIN stages[s].ops}

StageOf(i) == CHOOSE s \in DOMAIN stages : i \in OpsOf(s)

\* The stages that have to run before stage s: those that produce its inputs,
\* and those that read what it changes in place
Dependencies(s) ==
    LET producers(i) == UNION {ToSet(Producers(b)) : b \in ToSet(Ops[i].ins)}
        readers(i) == UNION {ToSet(Consumers(b)) : b \in {c \in ToSet(Ops[i].ins) : Mutates(Ops[i], c)}}
    IN  {StageOf(j) : j \in UNION {producers(i) \union readers(i) : i \in OpsOf(s)}} \ {s}

\* visit is called for the next stage that is not committed
StartVisit ==
    /\ pc.at = "order" /\ walk = <<>> /\ Len(order) < Len(stages)
    /\ LET s == Min(DOMAIN stages \ ToSet(order))
       IN  walk' = <<[stage |-> s, left |-> Dependencies(s)]>>
    /\ UNCHANGED <<case, table, plan, part, stages, order, pad, pc, result>>

\* The loop of visit takes the dependencies in the order of a hash set.  One
\* that is being visited further up closes a cycle, which is only logged.
VisitDependency ==
    /\ pc.at = "order" /\ walk # <<>>
    /\ \E s \in Last(walk).left \ ToSet(order) :
          LET rest == [walk EXCEPT ![Len(walk)].left = @ \ {s}]
              open == \E k \in DOMAIN walk : walk[k].stage = s
          IN  /\ walk' = IF open THEN rest
                         ELSE Append(rest, [stage |-> s, left |-> Dependencies(s)])
              /\ pc' = [pc EXCEPT !.cycle = @ \/ open]
    /\ UNCHANGED <<case, table, plan, part, stages, order, pad, result>>

\* All dependencies are done: commit
CommitStage ==
    /\ pc.at = "order" /\ walk # <<>> /\ Last(walk).left \subseteq ToSet(order)
    /\ order' = Append(order, Last(walk).stage)
    /\ walk' = Front(walk)
    /\ UNCHANGED <<case, table, plan, part, stages, pad, pc, result>>

------------------------------------------------------------------------------
(* run: the stages one after the other.                                     *)

Running == stages[order[pc.stage]]

\* init_stage: every operator gets the length of its output buffer
InitStage ==
    LET sizes == {0} \union UNION {{Len(Get(pad, b)) : b \in ToSet(Ops[e.op].ins)} : e \in ToSet(Running.ops)}
        longest == IF \E e \in ToSet(Running.ops) : IsStreamingProducer(Ops[e.op]) THEN case.len
                   ELSE Max(sizes)
        batch == IF Running.stream THEN BatchSize ELSE longest
        size(e) == IF e.streamable THEN batch ELSE OutputLen(Ops[e.op], longest)
    IN  /\ pad' = FoldLeft(LAMBDA q, e : Initialize(Ops[e.op], e.op, size(e), q), pad, Running.ops)
        /\ pc' = [pc EXCEPT !.at = "execute", !.op = 1, !.more = FALSE, !.batch = 1]

\* The first stage can start when all are in order
StartStage ==
    /\ \/ pc.at = "order" /\ walk = <<>> /\ Len(order) = Len(stages)
       \/ pc.at = "finalize"
    /\ pc.stage <= Len(order) /\ pad.fault = "none"
    /\ InitStage
    /\ UNCHANGED <<case, table, plan, part, stages, walk, order, result>>

\* run_stage: the next operator works on the batch
ExecuteOp ==
    /\ pc.at = "execute" /\ pc.op <= Len(Running.ops) /\ pad.fault = "none"
    /\ LET e == Running.ops[pc.op]
       IN  \E after \in {Execute(Ops[e.op], e.op, Running.stream /\ e.streamable, pad, table)} :
              /\ pad' = after
              /\ pc' = [pc EXCEPT !.op = @ + 1,
                                  !.more = @ \/ (HasMore(Ops[e.op], after, e.op) /\ Running.stream)]
    /\ UNCHANGED <<case, table, plan, part, stages, walk, order, result>>

\* run_stage: some operator has more, so there is another batch
NextBatch ==
    /\ pc.at = "execute" /\ pc.op > Len(Running.ops) /\ pc.more /\ pad.fault = "none"
    /\ pc' = [pc EXCEPT !.op = 1, !.more = FALSE, !.batch = @ + 1]
    /\ UNCHANGED <<case, table, plan, part, stages, walk, order, pad, result>>

\* run_stage: finalize, and on to the next stage
FinishStage ==
    /\ pc.at = "execute" /\ pc.op > Len(Running.ops) /\ ~pc.more /\ pad.fault = "none"
    /\ pad' = FoldLeft(LAMBDA q, e : Finalize(Ops[e.op], e.op, q), pad, Running.ops)
    /\ pc' = [pc EXCEPT !.at = "finalize", !.stage = @ + 1]
    /\ UNCHANGED <<case, table, plan, part, stages, walk, order, result>>

\* Columns of different lengths do not make a batch (BatchResult::validate, which
\* run_aggregate calls and run does not)
Ragged(columns) == \E c, d \in ToSet(columns) : Len(c) # Len(d)

\* collect_aliased: the columns of the answer are moved out of the scratchpad,
\* which a pinned buffer refuses
Collect ==
    /\ pc.at = "finalize" /\ pc.stage > Len(order) /\ pad.fault = "none"
    /\ LET columns == [k \in DOMAIN plan.stack |-> Get(pad, plan.stack[k].buf)]
       IN  /\ result' = columns
           /\ pc' = [pc EXCEPT !.at =
                       CASE \E q \in ToSet(plan.stack) : Resolve(pad, q.buf) \in pad.pinned -> "panic"
                         [] case.query.aggregate # <<>> /\ Ragged(columns) -> "invalid"
                         [] OTHER -> "answered"]
    /\ UNCHANGED <<case, table, plan, part, stages, walk, order, pad>>

\* The query ends with an error of an operator
Fail ==
    /\ pad.fault # "none" /\ pc.at \in {"execute", "finalize"}
    /\ pc' = [pc EXCEPT !.at = pad.fault]
    /\ UNCHANGED <<case, table, plan, part, stages, walk, order, pad, result>>

------------------------------------------------------------------------------

\* The columns of a partition, each built from its values and maybe loaded from disk
EncodedTable(columns) ==
    [c \in DOMAIN columns |->
        LET v == columns[c]
            built == IF v.strings THEN BuildStrings(v.values, v.nullable, v.hex, v.worth)
                     ELSE BuildInts(v.values, v.nullable, v.lz4, v.worth)
        IN  IF v.reload THEN Lz4Decode(built, Len(v.values)) ELSE built]

Start == [at |-> "plan", stage |-> 1, op |-> 1, more |-> FALSE, batch |-> 0, cycle |-> FALSE]

\* NormalFormQuery::run and run_aggregate plan the query, one token after the
\* other.  One that cannot be planned ends it with an error, and the planner
\* is dropped.
PlanNext ==
    /\ pc.at = "plan" /\ pc.op <= Len(Tokens(case.query))
    /\ \E planned \in {PlanToken(plan, Tokens(case.query)[pc.op], case.query, table, case.len)} :
          IF planned.fail = "none"
          THEN plan' = planned /\ pc' = [pc EXCEPT !.op = @ + 1]
          ELSE plan' = NewPlanner @@ [up |-> <<>>] /\ pc' = [pc EXCEPT !.at = planned.fail]
    /\ UNCHANGED <<case, table, part, stages, walk, order, pad, result>>

\* Then they have the plan rewritten and its operators partitioned
PlanQuery ==
    /\ pc.at = "plan" /\ pc.op > Len(Tokens(case.query))
    /\ \E planned \in {Prepare(plan)} :
          IF planned.fail = "none"
          THEN /\ plan' = [planned EXCEPT !.up = Upstream(planned.ops)]
               /\ part' = NewStage({1}, [i \in DOMAIN planned.ops |-> 0], <<1>>)
               /\ pad' = NewScratchpad(planned.count, planned.ops)
               /\ pc' = [pc EXCEPT !.at = "partition", !.op = 1]
          ELSE /\ plan' = NewPlanner @@ [up |-> <<>>]
               /\ pc' = [pc EXCEPT !.at = planned.fail]
               /\ UNCHANGED <<part, pad>>
    /\ UNCHANGED <<case, table, stages, walk, order, result>>

Ended == pc.at \in {"answered", "panic", "invalid", "overflow", "type_error", "unsupported"}

\* A query that has ended stays as it is
Rest == Ended /\ UNCHANGED vars

Init ==
    /\ case \in Cases
    /\ table = EncodedTable(case.columns)
    /\ plan = NewPlanner @@ [up |-> <<>>]
    /\ part = NewStage({}, <<>>, <<>>)
    /\ stages = <<>> /\ walk = <<>> /\ order = <<>>
    /\ pad = NewScratchpad(0, <<>>)
    /\ pc = Start
    /\ result = <<>>

Next ==
    \/ PlanNext \/ PlanQuery \/ VisitOp \/ CloseStage \/ SortOp \/ PushStage
    \/ StartVisit \/ VisitDependency \/ CommitStage
    \/ StartStage \/ ExecuteOp \/ NextBatch \/ FinishStage \/ Collect \/ Fail \/ Rest

Spec == Init /\ [][Next]_vars

==============================================================================
