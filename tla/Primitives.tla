----------------------------- MODULE Primitives -----------------------------
(***************************************************************************)
(* The graph primitives behind POST /relay, /federate and /supervise       *)
(* (daemon/primitives/*.py, rpc.py).  A behaviour serves one kind of       *)
(* request: a hand-over of a task to another CLI, a fan-out over at least  *)
(* three CLIs, a vote on their outputs, or the subscriptions to the end of *)
(* a child.  Nothing in the daemon calls tally_votes, on_child_terminal or *)
(* unsubscribe: these are modelled as the library they are.                *)
(***************************************************************************)
EXTENDS Integers, Sequences, FiniteSets

CONSTANTS
    Subscribers,    \* subscriptions to one child
    MaxClis         \* bound on the length of cli_list

ASSUME ClisAssumption == MaxClis \in Nat

VARIABLES
    request,        \* the request being served
    children,       \* what became of each dispatch so far
    childIds,       \* child_task_ids: the positions of the tasks federate has noted
    dispatchErrors, \* the positions in the keys of dispatch_errors
    sourceLog,      \* the children that relay.dispatched events name
    answer,         \* the answer of the endpoint
    ballot,         \* the vote: the outputs, the strategy and what came of it
    callbacks,      \* of a subscription: which outcomes it has a callback for
    registry,       \* the subscriptions of the registry
    due,            \* those the report in progress has yet to call
    fired           \* how often each was called

callVars == <<request, answer>>
childVars == <<children, childIds, dispatchErrors, sourceLog>>
superviseVars == <<callbacks, registry, due, fired>>
primitiveVars == <<callVars, childVars, ballot, superviseVars>>

(***************************************************************************)
(* Requests and their answers.                                             *)
(***************************************************************************)
MinClis == 3

ChildFates == {"runs", "refused", "half"}

Strategies == {"majority", "unanimous", "first_to_finish"}

\* Outputs of the CLIs: "a " is "a" once it is stripped.
BallotTexts == {"", "a", "a ", "b"}

\* rpc.py, the bodies of /relay, /relay/dispatch and /federate, and the state
\* of the source task at the time.
Requests ==
    [kind : {"relay", "source"}, source : {"absent", "running", "ended"},
     complete : BOOLEAN]
    \cup [kind : {"federate"}, clis : 0..MaxClis, known : BOOLEAN]
    \cup [kind : {"vote"}] \cup [kind : {"supervise"}]

NoAnswer == [status |-> 0]

NoBallot == [outputs |-> <<>>, strategy |-> "none"]

PrimitivesInit ==
    /\ request \in Requests
    /\ children = <<>> /\ childIds = <<>> /\ dispatchErrors = {}
    /\ sourceLog = {}
    /\ answer = NoAnswer
    /\ ballot = NoBallot
    /\ callbacks \in [Subscribers -> {"both", "complete", "fail", "none"}]
    /\ request.kind # "supervise" => callbacks = [s \in Subscribers |-> "both"]
    /\ registry = {}
    /\ due = {}
    /\ fired = [s \in Subscribers |-> 0]

Asked(kind) == request.kind = kind /\ answer = NoAnswer

Reply(a) == answer' = a /\ UNCHANGED <<request, ballot, superviseVars>>

(***************************************************************************)
(* dispatch_task for one child: refused before anything is registered, or  *)
(* raised after the handle has been registered, or running.                *)
(***************************************************************************)
DispatchChild(fate) == children' = Append(children, fate)

Ran == {i \in DOMAIN children : children[i] = "runs"}

(***************************************************************************)
(* POST /relay: the child is dispatched before the hand-over is recorded   *)
(* in the log of the source task, if that log is open in this daemon.      *)
(***************************************************************************)
RelayRefused ==
    /\ Asked("relay") /\ children = <<>>
    /\ request.source = "absent" \/ ~request.complete
    /\ Reply([status |-> 400]) /\ UNCHANGED childVars

RelayDispatches ==
    /\ Asked("relay") /\ children = <<>>
    /\ request.source # "absent" /\ request.complete
    /\ \E fate \in ChildFates :
         /\ DispatchChild(fate)
         /\ UNCHANGED <<childIds, dispatchErrors, sourceLog>>
         /\ IF fate = "runs" THEN UNCHANGED <<callVars, ballot, superviseVars>>
            ELSE \E status \in {400, 500} : Reply([status |-> status])

RelayRecords ==
    /\ Asked("relay") /\ children = <<"runs">>
    /\ \E logged \in {"open", "closed", "raises"} :
         /\ sourceLog' = IF logged = "open" THEN {1} ELSE {}
         /\ Reply(IF logged = "raises" THEN [status |-> 500]
                  ELSE [status |-> 200, tasks |-> <<1>>, logOpen |-> logged = "open"])
    /\ UNCHANGED <<children, childIds, dispatchErrors>>

\* POST /relay/dispatch reads the task a cloud relay is to continue.
SourceInfo ==
    /\ Asked("source")
    /\ Reply([status |-> CASE request.source = "absent"  -> 404
                           [] request.source = "running" -> 400
                           [] request.source = "ended"   -> 200])
    /\ UNCHANGED childVars

(***************************************************************************)
(* POST /federate: one dispatch per entry of cli_list; one that raises is  *)
(* noted and the others go on.                                             *)
(***************************************************************************)
FederateRefused ==
    /\ Asked("federate") /\ children = <<>>
    /\ request.clis < MinClis \/ ~request.known
    /\ Reply([status |-> 400]) /\ UNCHANGED childVars

\* Variant: a task that was registered counts as dispatched.
FederateDispatches_Registered ==
    /\ Asked("federate") /\ request.clis >= MinClis /\ request.known
    /\ Len(children) < request.clis
    /\ \E fate \in ChildFates :
         /\ DispatchChild(fate)
         /\ IF fate # "refused"
            THEN childIds' = Append(childIds, Len(children) + 1) /\ UNCHANGED dispatchErrors
            ELSE dispatchErrors' = dispatchErrors \cup {Len(children) + 1} /\ UNCHANGED childIds
    /\ UNCHANGED <<callVars, sourceLog, ballot, superviseVars>>

FederateDispatches ==
    /\ Asked("federate") /\ request.clis >= MinClis /\ request.known
    /\ Len(children) < request.clis
    /\ \E fate \in ChildFates :
         /\ DispatchChild(fate)
         /\ IF fate = "runs"
            THEN childIds' = Append(childIds, Len(children) + 1) /\ UNCHANGED dispatchErrors
            ELSE dispatchErrors' = dispatchErrors \cup {Len(children) + 1} /\ UNCHANGED childIds
    /\ UNCHANGED <<callVars, sourceLog, ballot, superviseVars>>

FederateAnswers ==
    /\ Asked("federate") /\ request.clis >= MinClis /\ request.known
    /\ Len(children) = request.clis
    /\ Reply([status |-> 200, tasks |-> childIds, errors |-> dispatchErrors])
    /\ UNCHANGED childVars

(***************************************************************************)
(* tally_votes over the outputs in the order of the mapping.               *)
(***************************************************************************)
Bucket(text) == IF text = "a " THEN "a" ELSE text

\* What is blank does not count.
Voting(outputs) == {i \in DOMAIN outputs : Bucket(outputs[i]) # ""}

VotesFor(outputs, text) ==
    Cardinality({i \in DOMAIN outputs : Bucket(outputs[i]) = Bucket(text)})

\* Counter.most_common()[0]: of the buckets with most votes, the one seen first.
FirstOfMost(outputs) ==
    CHOOSE i \in Voting(outputs) :
        \A j \in Voting(outputs) :
            LET vi == VotesFor(outputs, outputs[i])
                vj == VotesFor(outputs, outputs[j])
            IN vi > vj \/ (vi = vj /\ i <= j)

\* The output returned is the last one of the winning bucket.
WinningOutput(outputs) ==
    LET win == {i \in Voting(outputs) :
                    Bucket(outputs[i]) = Bucket(outputs[FirstOfMost(outputs)])}
    IN outputs[CHOOSE i \in win : \A j \in win : j <= i]

FirstOutput(outputs) ==
    outputs[CHOOSE i \in Voting(outputs) : \A j \in Voting(outputs) : i <= j]

\* Variant: half of the votes is enough.
IsMajority_Half(votes, total) == 2 * votes >= total

IsMajority(votes, total) == 2 * votes > total

TallyVotes(outputs, strategy) ==
    LET most  == VotesFor(outputs, outputs[FirstOfMost(outputs)])
        total == Cardinality(Voting(outputs))
    IN IF Voting(outputs) = {} THEN [passed |-> FALSE, winner |-> ""]
       ELSE CASE strategy = "first_to_finish" ->
                   [passed |-> TRUE, winner |-> FirstOutput(outputs)]
              [] strategy = "unanimous" ->
                   [passed |-> most = total, winner |-> WinningOutput(outputs)]
              [] strategy = "majority" ->
                   [passed |-> IsMajority(most, total), winner |-> WinningOutput(outputs)]

Vote ==
    /\ Asked("vote")
    /\ \E n \in 0..MaxClis, strategy \in Strategies : \E outputs \in [1..n -> BallotTexts] :
         /\ ballot' = [outputs |-> outputs, strategy |-> strategy]
         /\ answer' = [status |-> 200, outcome |-> TallyVotes(outputs, strategy)]
    /\ UNCHANGED <<request, childVars, superviseVars>>

(***************************************************************************)
(* SuperviseRegistry.  The lock covers the tables; the callbacks run       *)
(* outside of it, from the copy made when the report came in.              *)
(***************************************************************************)
HasCallback(s, outcome) ==
    callbacks[s] \in {"both", IF outcome = "completed" THEN "complete" ELSE "fail"}

Supervising ==
    /\ request.kind = "supervise"
    /\ UNCHANGED <<request, childVars, ballot, callbacks>>

Subscribe(s) ==
    /\ Supervising
    /\ s \notin registry /\ fired[s] = 0 /\ s \notin due
    /\ registry' = registry \cup {s}
    /\ UNCHANGED <<answer, due, fired>>

Unsubscribe(s) ==
    /\ Supervising
    /\ s \in registry
    /\ registry' = registry \ {s}
    /\ UNCHANGED <<answer, due, fired>>

OnChildTerminal(outcome) ==
    /\ Supervising /\ answer = NoAnswer
    /\ due' = {s \in registry : HasCallback(s, outcome)}
    /\ answer' = [status |-> 102, told |-> due', firedOk |-> 0, raised |-> FALSE]
    /\ UNCHANGED <<registry, fired>>

\* Variant: the first callback that raises ends the report.
CallNext_StopsAtError(s) ==
    /\ Supervising /\ s \in due
    /\ fired' = [fired EXCEPT ![s] = @ + 1]
    /\ \/ answer' = [answer EXCEPT !.firedOk = @ + 1] /\ due' = due \ {s}
       \/ answer' = [answer EXCEPT !.raised = TRUE] /\ due' = {}
    /\ UNCHANGED registry

\* A callback that raises is remembered, and the next one is called.
CallNext(s) ==
    /\ Supervising /\ s \in due
    /\ due' = due \ {s}
    /\ fired' = [fired EXCEPT ![s] = @ + 1]
    /\ \/ answer' = [answer EXCEPT !.firedOk = @ + 1]
       \/ answer' = [answer EXCEPT !.raised = TRUE]
    /\ UNCHANGED registry

ReportReturns ==
    /\ Supervising /\ answer.status = 102 /\ due = {}
    /\ answer' = [answer EXCEPT !.status = IF answer.raised THEN 500 ELSE 200]
    /\ UNCHANGED <<registry, due, fired>>

PrimitivesNext ==
    \/ RelayRefused \/ RelayDispatches \/ RelayRecords \/ SourceInfo
    \/ FederateRefused \/ FederateDispatches \/ FederateAnswers
    \/ Vote
    \/ \E s \in Subscribers : Subscribe(s) \/ Unsubscribe(s) \/ CallNext(s)
    \/ \E outcome \in {"completed", "failed", "canceled"} : OnChildTerminal(outcome)
    \/ ReportReturns

PrimitivesSpec == PrimitivesInit /\ [][PrimitivesNext]_primitiveVars

-----------------------------------------------------------------------------
PrimitivesTypeOK ==
    /\ request \in Requests
    /\ children \in Seq(ChildFates) /\ Len(children) <= MaxClis + 1
    /\ childIds \in Seq(1..MaxClis) /\ dispatchErrors \subseteq 1..MaxClis
    /\ sourceLog \subseteq {1}
    /\ answer.status \in {0, 102, 200, 400, 404, 500}
    /\ ballot = NoBallot \/ ballot.strategy \in Strategies
    /\ callbacks \in [Subscribers -> {"both", "complete", "fail", "none"}]
    /\ registry \subseteq Subscribers /\ due \subseteq Subscribers
    /\ fired \in [Subscribers -> 0..1]

\* A vote that passes does not depend on the order in which the outputs came
\* in, except under first_to_finish: any other order of the same outputs elects
\* the same bucket (federate.py, tally_votes).
VoteIgnoresOrder ==
    (request.kind = "vote" /\ answer.status = 200 /\ ballot.strategy # "first_to_finish") =>
    \A order \in [DOMAIN ballot.outputs -> DOMAIN ballot.outputs] :
        (answer.outcome.passed /\ Cardinality({order[i] : i \in DOMAIN order}) = Len(ballot.outputs)) =>
        LET again == TallyVotes([i \in DOMAIN order |-> ballot.outputs[order[i]]],
                                ballot.strategy)
        IN again.passed /\ Bucket(again.winner) = Bucket(answer.outcome.winner)

\* When a report on a child returns or raises, every subscription there was
\* when it came in and that has a callback for the outcome has been called once,
\* whatever the other callbacks raised and whoever unsubscribed meanwhile
\* (supervise.py, on_child_terminal).
EveryoneIsTold ==
    (request.kind = "supervise" /\ answer.status \in {200, 500}) =>
        /\ \A s \in Subscribers : fired[s] = IF s \in answer.told THEN 1 ELSE 0
        /\ (answer.status = 200) = (answer.firedOk = Cardinality(answer.told))

\* The tasks that an answer of /relay or /federate names run, in the order of
\* the CLIs; every other entry of cli_list is among the errors; a relay that was
\* answered is in the log of its source (relay.py, federate.py).
AnswerNamesTheChildren ==
    (request.kind \in {"relay", "federate"} /\ answer.status = 200) =>
        /\ {answer.tasks[i] : i \in DOMAIN answer.tasks} = Ran
        /\ \A i, j \in DOMAIN answer.tasks : i < j => answer.tasks[i] < answer.tasks[j]
        /\ request.kind = "relay" => (1 \in sourceLog) = answer.logOpen
        /\ request.kind = "federate" => answer.errors = (1..request.clis) \ Ran

\* What a graph node is told is so.
PrimitivesAnswerTruly == VoteIgnoresOrder /\ EveryoneIsTold /\ AnswerNamesTheChildren
=============================================================================
