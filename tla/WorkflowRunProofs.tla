--------------------------- MODULE WorkflowRunProofs ---------------------------
(***************************************************************************)
(* What a run of a workflow reports is true, for any set of workflows and  *)
(* any number of deaths.  The invariants that carry it: what the container *)
(* step, the exec step and the request step know of their container, their *)
(* command and their peer, and what the loop and DBOS's records know of    *)
(* the steps and of the answers in the environment.                        *)
(***************************************************************************)
EXTENDS WorkflowRun, TLAPS, WellFoundedInduction

EndedWith(c) == ctr \in {"exited", "removed"} /\ code = c

\* A step that waits has a container that was started; what its variables say of
\* the end of the container is so.
ContainerKnows ==
    /\ pc = "done" <=> result # "none"
    /\ result = "ok" => EndedWith(0)
    /\ result = "exit code" => EndedWith(1)
    /\ result = "timed out" => ctr # "running" \/ "stop" \in failed
    /\ ctr = "exited" => code \in {0, 1}
    /\ pc # "done" /\ ctr = "removed" => code \in {0, 1}
    /\ pc \in {"policy", "pull", "create", "start", "started", "wait"} => exitCode = 0 /\ ~containerErr
    /\ pc = "logs" => exitCode \in {0, 1}
    /\ pc = "logs" /\ exitCode = 1 => EndedWith(1)
    /\ pc = "logs" /\ exitCode = 0 /\ ~containerErr => EndedWith(0)
    /\ pc \in {"policy", "pull", "create", "start", "started", "wait", "stopping", "logs", "done"}
    /\ pc = "stopping" => expired

\* A container that is kept has an exit code when it has ended, and only then.
KeptEnds ==
    ~AutoRemove =>
        /\ ctr \in {"none", "created", "running", "exited"}
        /\ ctr # "exited" => code = NoCode

\* While its time is not up and the wait has not failed, a step whose container is
\* kept knows how that ended.
KeptKnown ==
    ~AutoRemove =>
        /\ pc \in {"policy", "pull", "create"} => ctr = "none"
        /\ pc = "start" => ctr = "created"
        /\ pc = "wait" /\ ~expired => registered
        /\ pc = "logs" /\ ~expired /\ "wait" \notin failed => ~containerErr /\ exitCode = code
        /\ pc = "done" /\ ~expired /\ "wait" \notin failed /\ result \notin {"ok", "no logs"} => ctr \in {"none", "created"} \/ code = 1

ExitKnown == KeptEnds /\ KeptKnown

\* A command that made the step succeed is reaped: nothing can kill it any more.
CommandKnows ==
    /\ xresult = "ok" => status = 0 /\ ~killed /\ proc = "reaped" /\ xpc = "done"
    /\ xresult \in {"none", "ok", "error"}
    /\ RunsAsAsked

\* A peer whose answer was taken is done.
RequestKnows ==
    /\ rresult = "ok" => rpc = "done"
    /\ rresult \in {"none", "ok", "error"}
    /\ rpc = "body" => provider = "http"
    /\ rpc \in {"build", "call", "body", "done"}
    /\ AnswerIsWhole

StepsKnow == ContainerKnows /\ ExitKnown /\ CommandKnows /\ RequestKnows

Shape ==
    /\ plan \in Plans
    /\ at \in Nat \ {0}
    /\ outcome \in Outcomes /\ verdict \in Outcomes
    /\ recorded \in [DOMAIN plan -> Outcomes]
    /\ runs \in [DOMAIN plan -> Nat]

AtStep == phase \in {"step", "running", "returned", "answered"}
InLoop == phase = "next" \/ AtStep

\* The loop is at a step of the workflow, behind which all answers are ok.
PlaceKnown ==
    /\ phase = "event" => at = 1 /\ env = {}
    /\ AtStep => at <= Len(plan)
    /\ InLoop => at <= Len(plan) + 1
    /\ InLoop => \A k \in 1..(at - 1) : recorded[k] = "ok"
    /\ phase \in {"running", "returned"} => recorded[at] = "none"
    /\ phase = "answered" => outcome = recorded[at]

\* The names of the first n steps, and that they are names and all different.
NamesOf(n) == {plan[k].name : k \in 1..n}
DistinctTo(n) ==
    \A k, l \in 1..n : plan[k].name # NoName /\ (plan[k].name = plan[l].name => k = l)

NamesKnown ==
    /\ phase = "next" => env = NamesOf(at - 1) /\ DistinctTo(at - 1)
    /\ AtStep => env = NamesOf(at) /\ DistinctTo(at)

\* Of a step that is answered with ok the last execution is, and the state still has it
\* unless a later step of its kind was executed.
NoneLater(m) ==
    \A n \in DOMAIN plan : n > m /\ Family(plan[n].kind) = Family(plan[m].kind) => runs[n] = 0

StepIsOk(m) ==
    /\ plan[m].kind = "container" => result = "ok"
    /\ plan[m].kind = "exec" => xresult = "ok"
    /\ plan[m].kind \in Requests => rresult = "ok" /\ provider = plan[m].kind

AnswersKnown ==
    /\ \A m \in DOMAIN plan : recorded[m] = "ok" /\ NoneLater(m) => StepIsOk(m)
    /\ phase \in {"running", "returned"} => runs[at] > 0
    /\ phase = "returned" /\ outcome = "ok" => StepIsOk(at)
    /\ phase = "running" /\ Step.kind \in Requests => provider = Step.kind

AllOk == DistinctNames /\ \A m \in DOMAIN plan : recorded[m] = "ok"
SomethingFailed == ~DistinctNames \/ \E m \in DOMAIN plan : recorded[m] = "error"

EndKnown ==
    /\ phase = "over" => outcome # "none"
    /\ phase = "over" /\ outcome = "ok" => AllOk
    /\ phase = "over" /\ outcome = "error" => SomethingFailed
    /\ verdict = "ok" => AllOk
    /\ verdict = "error" => SomethingFailed
    /\ verdict # "none" => phase = "closed"

\* The records have no gaps; each has the answers of those before it, and so has
\* the environment, with nothing yet for the step the loop is at.
RecordKnown ==
    /\ values \in [DOMAIN plan -> Nat]
    /\ snap \in [DOMAIN plan -> [DOMAIN plan -> Nat]]
    /\ \A m \in DOMAIN plan : recorded[m] # "none" =>
          /\ \A k \in 1..(m - 1) : recorded[k] = "ok"
          /\ \A k \in 1..m : snap[m][k] = snap[k][k]
          /\ \A k \in DOMAIN plan : k > m => snap[m][k] = 0
    /\ InLoop => \A k \in 1..(at - 1) : values[k] = snap[k][k]
    /\ InLoop => \A k \in DOMAIN plan : k > at => values[k] = 0
    /\ phase = "event" => \A k \in DOMAIN plan : values[k] = 0
    /\ phase \in {"next", "step", "running"} /\ at \in DOMAIN plan => values[at] = 0
    /\ phase = "answered" => values[at] = snap[at][at]

RunInv ==
    /\ StepsKnow
    /\ Shape /\ PlaceKnown /\ NamesKnown /\ AnswersKnown /\ EndKnown /\ RecordKnown /\ ReadsRecorded

----------------------------------------------------------------------------
LEMMA ContainerStarts == RunInit => ContainerKnows
BY DEF RunInit, Init, ContainerKnows, EndedWith

LEMMA ContainerMoves ==
    ASSUME ContainerKnows, Prepare \/ Launch \/ Await \/ DaemonMay \/ Report \/ Expire
    PROVE  ContainerKnows'
<1>1. CASE Prepare
  <2>1. CASE CheckPolicy
    BY <2>1 DEF ContainerKnows, EndedWith, CheckPolicy, Go, Return
  <2>2. CASE RejectPolicy
    BY <2>2 DEF ContainerKnows, EndedWith, RejectPolicy, Go, Return
  <2>3. CASE PullFails
    BY <2>3 DEF ContainerKnows, EndedWith, PullFails, Go, Return
  <2>4. CASE Pull
    BY <2>4 DEF ContainerKnows, EndedWith, Pull, Go, Return
  <2> QED BY <1>1, <2>1, <2>2, <2>3, <2>4 DEF Prepare
<1>2. CASE Launch
  <2>1. CASE Create
    BY <2>1 DEF ContainerKnows, EndedWith, Create, Go, Return
  <2>2. CASE CreateFails
    BY <2>2 DEF ContainerKnows, EndedWith, CreateFails, Go, Return
  <2>3. CASE Start
    BY <2>3 DEF ContainerKnows, EndedWith, Start, Go, Return
  <2>4. CASE StartFails
    BY <2>4 DEF ContainerKnows, EndedWith, StartFails, Go, Return
  <2> QED BY <1>2, <2>1, <2>2, <2>3, <2>4 DEF Launch
<1>3. CASE Await
  <2>1. CASE Wait
    BY <2>1 DEF ContainerKnows, EndedWith, Wait, Go
  <2>2. CASE StatusComes
    BY <2>2 DEF ContainerKnows, EndedWith, StatusComes, Ended, Go
  <2>3. CASE WaitErrorComes
    BY <2>3 DEF ContainerKnows, EndedWith, WaitErrorComes, Go
  <2>4. CASE TimeoutComes
    BY <2>4 DEF ContainerKnows, EndedWith, TimeoutComes, Go
  <2> QED BY <1>3, <2>1, <2>2, <2>3, <2>4 DEF Await
<1>6. CASE DaemonMay
  <2>1. CASE StopReturns
    <3>1. CASE ctr = "running" /\ ctr' = "exited" /\ code' \in {0, 1}
      BY <2>1, <3>1 DEF ContainerKnows, EndedWith, StopReturns, Go, Return
    <3>2. CASE ctr # "running" /\ UNCHANGED <<ctr, code>>
      BY <2>1, <3>2 DEF ContainerKnows, EndedWith, StopReturns, Go, Return
    <3> QED BY <2>1, <3>1, <3>2 DEF StopReturns
  <2>2. CASE StopFails
    BY <2>2 DEF ContainerKnows, EndedWith, StopFails, Go, Return
  <2>3. CASE WaitFails
    BY <2>3 DEF ContainerKnows, EndedWith, WaitFails, Go
  <2> QED BY <1>6, <2>1, <2>2, <2>3 DEF DaemonMay
<1>4. CASE Report
  BY <1>4 DEF ContainerKnows, EndedWith, Report, LogsFail, Answer, Go, Return
<1>5. CASE Expire
  BY <1>5 DEF ContainerKnows, EndedWith, Expire
<1> QED BY <1>1, <1>2, <1>3, <1>4, <1>5, <1>6

LEMMA ExitStays ==
    ASSUME ContainerKnows, ExitKnown, Prepare \/ Launch \/ Await \/ DaemonMay \/ Report \/ Expire
    PROVE  ExitKnown'
<1> USE DEF ContainerKnows, ExitKnown, KeptEnds, KeptKnown, EndedWith, AutoRemove, NoCode
<1>1. CASE Prepare
  BY <1>1 DEF Prepare, CheckPolicy, RejectPolicy, PullFails, Pull, Go, Return, config
<1>2. CASE Launch
  <2>1. CASE Create
    BY <2>1 DEF Create, Go, config
  <2>2. CASE CreateFails
    BY <2>2 DEF CreateFails, MayFail, Go, Return, config
  <2>3. CASE Start
    BY <2>3 DEF Start, Go, config
  <2>4. CASE StartFails
    BY <2>4 DEF StartFails, MayFail, Go, Return, AutoRemove, config
  <2> QED BY <1>2, <2>1, <2>2, <2>3, <2>4 DEF Launch
<1>3. CASE Await
  <2>1. CASE Wait
    BY <2>1 DEF Wait, Go, config
  <2>2. CASE StatusComes
    BY <2>2 DEF StatusComes, Ended, Go, config
  <2>3. CASE WaitErrorComes
    BY <2>3 DEF WaitErrorComes, Go, config
  <2>4. CASE TimeoutComes
    BY <2>4 DEF TimeoutComes, Go, config
  <2> QED BY <1>3, <2>1, <2>2, <2>3, <2>4 DEF Await
<1>6. CASE DaemonMay
  BY <1>6 DEF DaemonMay, WaitFails, StopReturns, StopFails, Go, Return, config
<1>4. CASE Report
  <2>1. CASE LogsFail
    BY <2>1 DEF LogsFail, Go, Return, config
  <2>2. CASE Answer
    BY <2>2 DEF Answer, Go, Return, config
  <2> QED BY <1>4, <2>1, <2>2 DEF Report
<1>5. CASE Expire
  BY <1>5 DEF Expire, config
<1> QED BY <1>1, <1>2, <1>3, <1>4, <1>5, <1>6

LEMMA DaemonMoves == ASSUME ContainerKnows, ExitKnown, Daemon PROVE ContainerKnows' /\ ExitKnown'
<1>1. ASSUME NEW c \in {0, 1}, Exit(c) PROVE ContainerKnows' /\ ExitKnown'
  <2>1. ContainerKnows'
    BY <1>1 DEF ContainerKnows, EndedWith, Exit
  <2>2. ctr = "running" /\ ctr' = "exited" /\ code' = c /\ UNCHANGED <<setting, expired, pc, exitCode, containerErr, registered, failed, result>>
    BY <1>1 DEF Exit, config
  <2> DEFINE Known == ~expired /\ "wait" \notin failed
  <2>3. ~AutoRemove => code = NoCode /\ ~(pc = "logs" /\ Known) /\ (pc = "done" /\ Known => result \in {"ok", "no logs"})
    <3> SUFFICES ASSUME ~AutoRemove
                 PROVE  code = NoCode /\ ~(pc = "logs" /\ Known) /\ (pc = "done" /\ Known => result \in {"ok", "no logs"})
      OBVIOUS
    <3>1. code = 2 /\ code # 1
      BY <2>2 DEF ExitKnown, KeptEnds, NoCode
    <3>2. ~(pc = "logs" /\ Known)
      <4>1. pc = "logs" => exitCode # 2
        BY DEF ContainerKnows
      <4> QED BY <3>1, <4>1, Zenon DEF ExitKnown, KeptKnown
    <3>3. pc = "done" /\ Known => result \in {"ok", "no logs"}
      BY <2>2, <3>1, Zenon DEF ExitKnown, KeptKnown
    <3> QED BY <3>1, <3>2, <3>3 DEF NoCode
  <2>4. ExitKnown'
    BY <2>2, <2>3 DEF ExitKnown, KeptEnds, KeptKnown, AutoRemove, NoCode
  <2> QED BY <2>1, <2>4
<1>2. CASE Remove
  BY <1>2 DEF ContainerKnows, ExitKnown, KeptEnds, KeptKnown, EndedWith, Remove, AutoRemove, config
<1> QED BY <1>1, <1>2 DEF Daemon

LEMMA CommandMoves ==
    ASSUME CommandKnows, ExecProceeds \/ ExecWorld \/ Deadline \/ Kill
    PROVE  CommandKnows'
<1>1. CASE StartCommand
  BY <1>1 DEF CommandKnows, StartCommand, RunsAsAsked, LookupFails, Credential, Program, lookupUser, lookupGroup
<1>2. CASE PrepareFails
  BY <1>2 DEF CommandKnows, RunsAsAsked, PrepareFails
<1>3. CASE StartChild
  BY <1>3 DEF CommandKnows, RunsAsAsked, StartChild
<1>9. CASE ChildEnds
  BY <1>9 DEF CommandKnows, RunsAsAsked, ChildEnds
<1>6. CASE Deadline
  BY <1>6 DEF CommandKnows, RunsAsAsked, Deadline
<1>7. CASE Reap
  BY <1>7 DEF CommandKnows, RunsAsAsked, Reap
<1>8. CASE CommandAnswers
  BY <1>8 DEF CommandKnows, RunsAsAsked, CommandAnswers
<1>4. ASSUME NEW c \in {0, 1}, CommandExits(c) PROVE CommandKnows'
  BY <1>4 DEF CommandKnows, RunsAsAsked, CommandExits
<1>5. CASE Kill
  BY <1>5 DEF CommandKnows, RunsAsAsked, Kill
<1> QED BY <1>1, <1>2, <1>3, <1>4, <1>5, <1>6, <1>7, <1>8, <1>9 DEF ExecProceeds, ExecWorld

LEMMA RequestMoves ==
    ASSUME RequestKnows, RequestProceeds \/ TimeIsUp \/ Peer
    PROVE  RequestKnows' /\ (rresult = "ok" => UNCHANGED <<rresult, provider>>)
BY DEF RequestKnows, AnswerIsWhole, RequestProceeds, TimeIsUp, Peer, PeerMoves, BuildFails, MockAnswers, Send,
       HeaderComes, BodyRead, CompletionComes, CallFails, RequestReturns

----------------------------------------------------------------------------
LEMMA PlanShape ==
    ASSUME plan \in Plans
    PROVE  /\ Len(plan) \in Nat /\ DOMAIN plan = 1..Len(plan)
           /\ \A m \in DOMAIN plan : plan[m].kind \in Kinds
<1>1. plan \in Seq(Steps)
  BY PlanAssumption
<1>2. \A m \in Steps : m.kind \in Kinds
  BY DEF Steps
<1>3. /\ Len(plan) \in Nat /\ DOMAIN plan = 1..Len(plan)
      /\ \A m \in DOMAIN plan : plan[m] \in Steps
  BY <1>1
<1> QED BY <1>2, <1>3, PlanAssumption

\* What is not executed stays known.
LEMMA ContainerRests == ASSUME ContainerKnows, ExitKnown, UNCHANGED vars PROVE ContainerKnows' /\ ExitKnown'
<1>1. ContainerKnows'
  BY DEF ContainerKnows, EndedWith, vars
<1>2. ExitKnown'
  BY DEF ExitKnown, KeptEnds, KeptKnown, AutoRemove, vars
<1> QED BY <1>1, <1>2

LEMMA CommandRests == ASSUME CommandKnows, UNCHANGED execVars PROVE CommandKnows'
BY DEF CommandKnows, RunsAsAsked, execVars

LEMMA RequestRests == ASSUME RequestKnows, UNCHANGED reqVars PROVE RequestKnows'
BY DEF RequestKnows, AnswerIsWhole, reqVars

LEMMA StepsRest == ASSUME StepsKnow, UNCHANGED stepVars PROVE StepsKnow'
BY ContainerRests, CommandRests, RequestRests DEF StepsKnow, stepVars

LEMMA RunStarts == RunInit => RunInv
<1> SUFFICES ASSUME RunInit PROVE RunInv
  OBVIOUS
<1>1. StepsKnow
  <2>1. ContainerKnows BY ContainerStarts
  <2>2. ExitKnown BY DEF RunInit, Init, ExitKnown, KeptEnds, KeptKnown, NoCode
  <2>3. CommandKnows BY DEF RunInit, ExecInit, CommandKnows, RunsAsAsked
  <2>4. RequestKnows BY DEF RunInit, RequestInit, RequestKnows, AnswerIsWhole
  <2> QED BY <2>1, <2>2, <2>3, <2>4 DEF StepsKnow
<1>2. Shape BY DEF RunInit, Shape, Outcomes, Untouched
<1>3. PlaceKnown /\ NamesKnown BY DEF RunInit, PlaceKnown, NamesKnown, AtStep, InLoop
<1>4. AnswersKnown /\ EndKnown BY DEF RunInit, AnswersKnown, EndKnown
<1>5. RecordKnown BY DEF RunInit, RecordKnown, Untouched, InLoop, AtStep
<1>6. ReadsRecorded BY DEF RunInit, ReadsRecorded
<1> QED BY <1>1, <1>2, <1>3, <1>4, <1>5, <1>6 DEF RunInv

----------------------------------------------------------------------------
(* Numbers *)

\* A set of numbers that is not empty has a least one.
LEMMA LeastExists ==
    ASSUME NEW S, S \subseteq Nat, S # {}
    PROVE  \E m \in S : \A k \in S : m <= k
<1>1. \E m \in S : \A k \in S : ~(<<k, m>> \in OpToRel(<, Nat))
  BY NatLessThanWellFounded, WFMin, Zenon
<1>2. PICK m \in S : \A k \in S : ~(<<k, m>> \in OpToRel(<, Nat))
  BY <1>1
<1>3. ASSUME NEW k \in S PROVE m <= k
  <2>1. <<k, m>> \in Nat \X Nat
    OBVIOUS
  <2>2. ~(k < m)
    BY <1>2, <2>1 DEF OpToRel
  <2> QED BY <2>2
<1> QED BY <1>2, <1>3

----------------------------------------------------------------------------
(* Expressions: what Parse makes of a struct *)

LEMMA FieldsShape ==
    ASSUME NEW fields, AreFields(fields)
    PROVE  /\ Len(fields) \in Nat /\ DOMAIN fields = 1..Len(fields)
           /\ \A k \in DOMAIN fields : IsField(fields[k])
<1>1. fields \in Seq({fields[k] : k \in DOMAIN fields}) /\ \A k \in DOMAIN fields : IsField(fields[k])
  BY DEF AreFields
<1> QED BY <1>1

\* The place Parse stops at is before no field that fails, and one of these unless
\* it is past the last field.
LEMMA StopIsFirst ==
    ASSUME NEW fields, AreFields(fields), NEW failing \in SUBSET DOMAIN fields
    PROVE  /\ Stop(fields, failing) \in failing \union {Len(fields) + 1}
           /\ \A k \in failing : Stop(fields, failing) <= k
<1>1. failing \subseteq Nat /\ \A k \in failing : k <= Len(fields)
  BY FieldsShape
<1>2. \E n \in failing \union {Len(fields) + 1} : \A k \in failing : n <= k
  <2>1. CASE failing = {}
    BY <2>1
  <2>2. CASE failing # {}
    BY <1>1, <2>2, LeastExists, Zenon
  <2> QED BY <2>1, <2>2
<1> QED BY <1>2 DEF Stop

LEMMA StopsNowhere ==
    ASSUME NEW fields, AreFields(fields), NEW failing \in SUBSET DOMAIN fields
    PROVE  Stop(fields, failing) > Len(fields) <=> failing = {}
<1>1. Stop(fields, failing) \in failing \union {Len(fields) + 1} /\ \A k \in failing : Stop(fields, failing) <= k
  BY StopIsFirst
<1>2. Len(fields) \in Nat /\ \A k \in failing : k \in 1..Len(fields)
  BY FieldsShape
<1> QED BY <1>1, <1>2

\* Evaluation touches nothing but the text of a tagged field.
LEMMA EvaluatedField ==
    ASSUME NEW f, IsField(f), NEW data
    PROVE  /\ f.tag = "" => evaluateField(f, data) = f
           /\ f.tag # "" /\ ~Fails(f, data) => Evaluated(f, evaluateField(f, data), data)
<1>1. ASSUME f.tag # "", ~Fails(f, data) PROVE Evaluated(f, evaluateField(f, data), data)
  <2>1. isFieldTypeSupported(f) /\ f.tag \in {"template", "default"}
    BY <1>1 DEF Fails
  <2>2. CASE f.tag = "template"
    <3>1. evaluateField(f, data).text = Filled(f.text, data)
      BY <2>2 DEF evaluateField, IsField
    <3>2. ~TemplateFails(f.text, data)
      BY <1>1, <2>2 DEF Fails
    <3> QED BY <2>1, <2>2, <3>1, <3>2 DEF Evaluated, Filled, TemplateFails
  <2>3. CASE f.tag = "default"
    <3>1. evaluateField(f, data).text = Output(f.text, data)
      BY <2>3 DEF evaluateField, IsField
    <3>2. ~ExpressionFails(f.text, data)
      BY <1>1, <2>3 DEF Fails
    <3>3. ASSUME f.text # <<>>
          PROVE  \E n \in DOMAIN data : f.text = << <<"name", n>> >> /\ Output(f.text, data) = << <<"text", data[n]>> >>
      <4>1. PICK n \in DOMAIN data : f.text = << <<"name", n>> >>
        BY <3>2, <3>3 DEF ExpressionFails
      <4>2. f.text[1][2] = n
        BY <4>1
      <4> QED BY <3>3, <4>1, <4>2 DEF Output
    <3> QED BY <2>1, <2>3, <3>1, <3>3 DEF Evaluated
  <2> QED BY <2>1, <2>2, <2>3
<1> QED BY <1>1 DEF evaluateField

\* What the fields of a struct or behind a pointer become, up to the one that fails.
LEMMA InnerProcessed ==
    ASSUME NEW fields, AreFields(fields), NEW data, NEW j \in DOMAIN fields
    PROVE  LET g == ProcessedInner(fields, data)[j] IN
           /\ g = fields[j] \/ g = evaluateField(fields[j], data)
           /\ (\A k \in DOMAIN fields : ~TaggedFails(fields[k], data)) => g = evaluateField(fields[j], data)
<1> DEFINE failing == {k \in DOMAIN fields : TaggedFails(fields[k], data)}
<1> DEFINE stop == Stop(fields, failing)
<1>1. ProcessedInner(fields, data)[j] = IF j < stop THEN evaluateField(fields[j], data) ELSE fields[j]
  BY DEF ProcessedInner
<1>2. ASSUME failing = {} PROVE j < stop
  <2>1. stop \in failing \union {Len(fields) + 1}
    <3> HIDE DEF failing
    <3>1. failing \in SUBSET DOMAIN fields
      BY DEF failing
    <3> QED BY <3>1, StopIsFirst
  <2>2. stop = Len(fields) + 1
    BY <1>2, <2>1
  <2> HIDE DEF stop
  <2> QED BY <2>2, FieldsShape
<1> HIDE DEF stop
<1> QED BY <1>1, <1>2

\* A field that fails gives cause for it: it is tagged, and no template in a string
\* all names of which the environment has.
HasCause(f, data) == f.tag # "" /\ (f.tag # "template" \/ f.kind # "string" \/ ~(NamesIn(f) \subseteq DOMAIN data))

LEMMA FailsForCause ==
    ASSUME NEW f, NEW data, TaggedFails(f, data)
    PROVE  HasCause(f, data)
<1>1. ASSUME TemplateFails(f.text, data) PROVE ~(NamesIn(f) \subseteq DOMAIN data)
  <2>1. PICK k \in DOMAIN f.text : f.text[k][1] = "braces" /\ f.text[k][2] \notin DOMAIN data
    BY <1>1 DEF TemplateFails
  <2>2. f.text[k][2] \in NamesIn(f)
    BY <2>1 DEF NamesIn
  <2> QED BY <2>1, <2>2
<1> QED BY <1>1 DEF TaggedFails, Fails, HasCause, isFieldTypeSupported, UnfitForMap

\* For every struct and environment, Parse does exactly what the tags say.
LEMMA ParseExact ==
    ASSUME NEW fields, IsStruct(fields), NEW data
    PROVE  Exact(fields, data, Parse(fields, data))
<1> DEFINE failing == {k \in DOMAIN fields : FieldFails(fields[k], data)}
           stop == Stop(fields, failing)
           input == [k \in DOMAIN fields |->
                        IF k <= stop /\ fields[k].kind = "pointer" /\ fields[k].tag = ""
                        THEN Processed(fields[k], data) ELSE fields[k]]
           all == [k \in DOMAIN fields |-> Processed(fields[k], data)]
           r == Parse(fields, data)
<1>1. /\ AreFields(fields)
      /\ Len(fields) \in Nat /\ DOMAIN fields = 1..Len(fields)
      /\ \A k \in DOMAIN fields :
            /\ IsField(fields[k]) /\ AreFields(fields[k].inner)
            /\ \A j \in DOMAIN fields[k].inner : j # 0 /\ IsField(fields[k].inner[j])
  <2>1. AreFields(fields) /\ \A k \in DOMAIN fields : AreFields(fields[k].inner)
    BY DEF IsStruct
  <2>2. ASSUME NEW k \in DOMAIN fields
        PROVE  \A j \in DOMAIN fields[k].inner : j # 0 /\ IsField(fields[k].inner[j])
    BY <2>1, FieldsShape
  <2> QED BY <2>1, <2>2, FieldsShape
<1>2. /\ r.ok <=> failing = {}
      /\ r.input = input
      /\ r.result = IF r.ok THEN all ELSE input
  <2>1. r = [ok |-> stop > Len(fields), input |-> input, result |-> IF stop > Len(fields) THEN all ELSE input]
    BY DEF Parse
  <2>2. stop > Len(fields) <=> failing = {}
    <3>1. failing \in SUBSET DOMAIN fields
      OBVIOUS
    <3> HIDE DEF failing
    <3> QED BY <1>1, <3>1, StopsNowhere
  <2> HIDE DEF r, stop, input, all
  <2> QED BY <2>1, <2>2
<1> HIDE DEF r
\* A field is left, or processed; all are processed without an error, and in the
\* input only what pointers point to.
<1>3. ASSUME NEW k \in DOMAIN fields
      PROVE  /\ \/ r.input[k] = fields[k]
                \/ r.input[k] = Processed(fields[k], data) /\ fields[k].kind = "pointer" /\ fields[k].tag = ""
             /\ r.result[k] = r.input[k] \/ r.result[k] = Processed(fields[k], data)
             /\ r.ok => r.result[k] = Processed(fields[k], data) /\ ~FieldFails(fields[k], data)
  <2>1. /\ \/ input[k] = fields[k]
           \/ input[k] = Processed(fields[k], data) /\ fields[k].kind = "pointer" /\ fields[k].tag = ""
        /\ all[k] = Processed(fields[k], data)
    OBVIOUS
  <2>2. failing = {} => ~FieldFails(fields[k], data)
    OBVIOUS
  <2> HIDE DEF input, all, failing
  <2> QED BY <1>2, <2>1, <2>2
<1>4. ASSUME NEW p \in Places(fields)
      PROVE  LET f == FieldAt(fields, p) IN
             /\ f.tag = "" => FieldAt(r.result, p) = f
             /\ r.ok /\ f.tag # "" => Evaluated(f, FieldAt(r.result, p), data)
             /\ FieldAt(r.input, p) # f => fields[p[1]].kind = "pointer"
  <2>1. ASSUME NEW k \in DOMAIN fields, ~GoneThrough(fields[k]), p = <<k, 0>>
        PROVE  LET f == FieldAt(fields, p) IN
               /\ f.tag = "" => FieldAt(r.result, p) = f
               /\ r.ok /\ f.tag # "" => Evaluated(f, FieldAt(r.result, p), data)
               /\ FieldAt(r.input, p) # f => fields[p[1]].kind = "pointer"
    <3>1. /\ FieldAt(fields, p) = fields[k] /\ FieldAt(r.result, p) = r.result[k] /\ FieldAt(r.input, p) = r.input[k]
          /\ p[1] = k
      BY <2>1 DEF FieldAt
    <3>2. Processed(fields[k], data) = evaluateField(fields[k], data)
      BY <2>1 DEF Processed
    <3>3. r.input[k] = fields[k]
      BY <1>3, <2>1 DEF GoneThrough
    <3>4. fields[k].tag # "" /\ ~FieldFails(fields[k], data) => ~Fails(fields[k], data)
      BY <2>1 DEF FieldFails, TaggedFails
    <3>5. /\ fields[k].tag = "" => evaluateField(fields[k], data) = fields[k]
          /\ fields[k].tag # "" /\ ~Fails(fields[k], data) => Evaluated(fields[k], evaluateField(fields[k], data), data)
      BY <1>1, <2>1, EvaluatedField
    <3> DEFINE f == fields[k]
               g == r.result[k]
    <3> HIDE DEF input, all, failing, stop
    <3>6. /\ g = f \/ g = evaluateField(f, data)
          /\ r.ok => g = evaluateField(f, data) /\ ~FieldFails(f, data)
      BY <1>3, <3>2, <3>3
    <3> HIDE DEF f, g
    <3>7. f.tag = "" => g = f
      BY <3>5, <3>6 DEF f
    <3>8. r.ok /\ f.tag # "" => Evaluated(f, g, data)
      BY <3>4, <3>5, <3>6 DEF f
    <3> QED BY <3>1, <3>3, <3>7, <3>8 DEF f, g
  <2>2. ASSUME NEW k \in DOMAIN fields, GoneThrough(fields[k]), NEW j \in DOMAIN fields[k].inner, p = <<k, j>>
        PROVE  LET f == FieldAt(fields, p) IN
               /\ f.tag = "" => FieldAt(r.result, p) = f
               /\ r.ok /\ f.tag # "" => Evaluated(f, FieldAt(r.result, p), data)
               /\ FieldAt(r.input, p) # f => fields[p[1]].kind = "pointer"
    <3> DEFINE f == fields[k].inner[j]
               g == ProcessedInner(fields[k].inner, data)[j]
    <3>1. /\ FieldAt(fields, p) = f /\ FieldAt(r.result, p) = r.result[k].inner[j] /\ FieldAt(r.input, p) = r.input[k].inner[j]
          /\ p[1] = k
      BY <1>1, <2>2 DEF FieldAt
    <3>2. Processed(fields[k], data).inner[j] = g
      BY <1>1, <2>2 DEF Processed, IsField
    <3>3. /\ g = f \/ g = evaluateField(f, data)
          /\ (\A i \in DOMAIN fields[k].inner : ~TaggedFails(fields[k].inner[i], data)) => g = evaluateField(f, data)
      BY <1>1, <2>2, InnerProcessed
    <3>4. ~FieldFails(fields[k], data) => \A i \in DOMAIN fields[k].inner : ~TaggedFails(fields[k].inner[i], data)
      BY <2>2 DEF FieldFails
    <3>5. /\ f.tag = "" => evaluateField(f, data) = f
          /\ f.tag # "" /\ ~Fails(f, data) => Evaluated(f, evaluateField(f, data), data)
      BY <1>1, <2>2, EvaluatedField
    <3>6. f.tag # "" /\ ~TaggedFails(f, data) => ~Fails(f, data)
      BY DEF TaggedFails
    <3> HIDE DEF g, f
    <3>7. r.input[k].inner[j] = f \/ (r.input[k].inner[j] = g /\ fields[k].kind = "pointer")
      BY <1>3, <2>2, <3>2 DEF f
    <3>8. r.result[k].inner[j] = f \/ r.result[k].inner[j] = g
      BY <1>3, <2>2, <3>2, <3>7
    <3>9. r.ok => r.result[k].inner[j] = g /\ ~FieldFails(fields[k], data)
      BY <1>3, <2>2, <3>2
    <3>10. r.ok => g = evaluateField(f, data) /\ ~TaggedFails(f, data)
      BY <2>2, <3>3, <3>4, <3>9 DEF f
    <3> QED BY <3>1, <3>3, <3>5, <3>6, <3>7, <3>8, <3>9, <3>10
  <2> QED BY <2>1, <2>2 DEF Places
<1>5. ASSUME ~r.ok PROVE \E p \in Places(fields) : HasCause(FieldAt(fields, p), data)
  <2>1. PICK k \in DOMAIN fields : FieldFails(fields[k], data)
    BY <1>2, <1>5
  <2>2. CASE ~GoneThrough(fields[k])
    <3>1. <<k, 0>> \in Places(fields)
      BY <2>2 DEF Places
    <3>2. FieldAt(fields, <<k, 0>>) = fields[k]
      BY DEF FieldAt
    <3>3. TaggedFails(fields[k], data)
      BY <2>1, <2>2 DEF FieldFails
    <3> QED BY <3>1, <3>2, <3>3, FailsForCause
  <2>3. CASE GoneThrough(fields[k])
    <3>1. PICK j \in DOMAIN fields[k].inner : TaggedFails(fields[k].inner[j], data)
      BY <2>1, <2>3 DEF FieldFails
    <3>2. <<k, j>> \in Places(fields)
      BY <2>3, <3>1 DEF Places
    <3>3. FieldAt(fields, <<k, j>>) = fields[k].inner[j]
      BY <1>1, <3>1 DEF FieldAt
    <3> QED BY <3>1, <3>2, <3>3, FailsForCause
  <2> QED BY <2>2, <2>3
<1>6. ~r.ok => r.result = r.input
  <2> HIDE DEF input, all, failing
  <2> QED BY <1>2
<1> HIDE DEF failing, stop, input, all
<1>7. Exact(fields, data, r)
  BY <1>4, <1>5, <1>6 DEF Exact, HasCause
<1> QED BY <1>7 DEF r

----------------------------------------------------------------------------
(* The loop *)

\* A name of the environment is a step's, up to the one the loop is at.
LEMMA NamedStep ==
    ASSUME Shape, PlaceKnown, NamesKnown, AtStep, NEW n \in env
    PROVE  StepNamed(n) \in 1..at
<1>1. \E m \in 1..at : plan[m].name = n
  BY DEF NamesKnown, NamesOf
<1> QED BY <1>1 DEF StepNamed

\* What the environment has is what is on record.
LEMMA EnvironmentOnRecord ==
    ASSUME Shape, PlaceKnown, NamesKnown, RecordKnown, phase \in {"step", "running"}, at \in DOMAIN plan
    PROVE  Environment = OnRecord
<1>1. ASSUME NEW n \in env
      PROVE  values[StepNamed(n)] = IF StepNamed(n) = at THEN 0 ELSE snap[StepNamed(n)][StepNamed(n)]
  <2>1. StepNamed(n) \in 1..at
    BY NamedStep DEF AtStep
  <2>2. CASE StepNamed(n) = at
    BY <2>2 DEF RecordKnown
  <2>3. CASE StepNamed(n) # at
    <3>1. StepNamed(n) \in 1..(at - 1)
      BY <2>1, <2>3 DEF Shape
    <3>2. \A k \in 1..(at - 1) : values[k] = snap[k][k]
      BY DEF RecordKnown, InLoop, AtStep
    <3> QED BY <2>3, <3>1, <3>2
  <2> QED BY <2>2, <2>3
<1> QED BY <1>1 DEF Environment, OnRecord

LEMMA LoopMoves == ASSUME RunInv, Loop \/ Crash PROVE RunInv'
<1> USE DEF RunInv
<1>0. plan' = plan /\ Len(plan) \in Nat /\ DOMAIN plan = 1..Len(plan)
  BY PlanShape DEF Shape, Loop, Crash, WorkflowMissing, RunWorkflow, Validate, ValidateFails, Execute, ParseFails, StepReturns,
     RecordStep, Replay, Proceed, StopAtError, Finish, RecordVerdict, Recover
<1>1. CASE WorkflowMissing
  <2>1. StepsKnow'
    BY <1>1, StepsRest DEF WorkflowMissing
  <2>2. Shape' /\ PlaceKnown'
    BY <1>1, <1>0 DEF WorkflowMissing, Shape, PlaceKnown, AtStep, InLoop, Outcomes, dbos, envVars
  <2>3. NamesKnown'
    BY <1>1, <1>0 DEF WorkflowMissing, Shape, NamesKnown, NamesOf, DistinctTo, AtStep, PlaceKnown, InLoop, envVars
  <2>4. AnswersKnown'
    BY <1>1, <1>0 DEF WorkflowMissing, Shape, AnswersKnown, NoneLater, StepIsOk, PlaceKnown, InLoop, AtStep, dbos, stepVars, vars, execVars, reqVars
  <2>5. EndKnown'
    BY <1>1, <1>0 DEF WorkflowMissing, Shape, EndKnown, AllOk, SomethingFailed, DistinctNames, Outcomes, dbos, PlaceKnown, AtStep, InLoop
  <2>6. RecordKnown' /\ ReadsRecorded'
    BY <1>1, <1>0 DEF WorkflowMissing, Shape, RecordKnown, ReadsRecorded, PlaceKnown, AtStep, InLoop, dbos, envVars
  <2> QED BY <2>1, <2>2, <2>3, <2>4, <2>5, <2>6
<1>2. CASE RunWorkflow
  <2>1. StepsKnow'
    BY <1>2, StepsRest DEF RunWorkflow
  <2>2. Shape' /\ PlaceKnown'
    BY <1>2, <1>0 DEF RunWorkflow, Shape, PlaceKnown, AtStep, InLoop, Outcomes, dbos, envVars
  <2>3. NamesKnown'
    BY <1>2, <1>0 DEF RunWorkflow, Shape, NamesKnown, NamesOf, DistinctTo, AtStep, PlaceKnown, InLoop, envVars
  <2>4. AnswersKnown'
    BY <1>2, <1>0 DEF RunWorkflow, Shape, AnswersKnown, NoneLater, StepIsOk, PlaceKnown, InLoop, AtStep, dbos, stepVars, vars, execVars, reqVars
  <2>5. EndKnown'
    BY <1>2, <1>0 DEF RunWorkflow, Shape, EndKnown, AllOk, SomethingFailed, DistinctNames, Outcomes, dbos, PlaceKnown, AtStep, InLoop
  <2>6. RecordKnown'
    BY <1>2, <1>0 DEF RunWorkflow, Shape, RecordKnown, PlaceKnown, AtStep, InLoop, dbos, envVars
  <2>7. ReadsRecorded'
    BY <1>2 DEF RunWorkflow, ReadsRecorded
  <2> QED BY <2>1, <2>2, <2>3, <2>4, <2>5, <2>6, <2>7
<1>3. CASE Validate
  <2>1. StepsKnow'
    BY <1>3, StepsRest DEF Validate
  <2>2. Shape' /\ PlaceKnown'
    BY <1>3, <1>0 DEF Validate, Shape, PlaceKnown, AtStep, InLoop, Outcomes, dbos, envVars, Refused, Step
  <2>3. NamesKnown'
    BY <1>3, <1>0, SMTT(30) DEF Validate, Shape, NamesKnown, NamesOf, DistinctTo, AtStep, PlaceKnown, InLoop, envVars, Refused, Step
  <2>4. AnswersKnown'
    BY <1>3, <1>0 DEF Validate, Shape, AnswersKnown, NoneLater, StepIsOk, PlaceKnown, InLoop, AtStep, dbos, stepVars, vars, execVars, reqVars, Refused, Step
  <2>5. EndKnown'
    BY <1>3, <1>0 DEF Validate, Shape, EndKnown, AllOk, SomethingFailed, DistinctNames, Outcomes, dbos, PlaceKnown, AtStep, InLoop, Refused, Step
  <2>6. RecordKnown' /\ ReadsRecorded'
    BY <1>3, <1>0 DEF Validate, Shape, RecordKnown, ReadsRecorded, PlaceKnown, AtStep, InLoop, dbos, envVars, Refused, Step
  <2> QED BY <2>1, <2>2, <2>3, <2>4, <2>5, <2>6
<1>4. CASE ValidateFails
  <2>1. StepsKnow'
    BY <1>4, StepsRest DEF ValidateFails
  <2>2. Shape' /\ PlaceKnown'
    BY <1>4, <1>0 DEF ValidateFails, Shape, PlaceKnown, AtStep, InLoop, Outcomes, dbos, envVars, Refused, Step, NamesKnown, NamesOf, DistinctTo
  <2>3. NamesKnown'
    BY <1>4, <1>0 DEF ValidateFails, Shape, NamesKnown, NamesOf, DistinctTo, AtStep, PlaceKnown, InLoop, envVars, Refused, Step
  <2>4. AnswersKnown'
    BY <1>4, <1>0 DEF ValidateFails, Shape, AnswersKnown, NoneLater, StepIsOk, PlaceKnown, InLoop, AtStep, dbos, stepVars, vars, execVars, reqVars, Refused, Step
  <2>5. EndKnown'
    BY <1>4, <1>0, SMTT(30) DEF ValidateFails, Shape, EndKnown, AllOk, SomethingFailed, DistinctNames, Outcomes, dbos, PlaceKnown, AtStep, InLoop, Refused, Step, NamesKnown, NamesOf, DistinctTo
  <2>6. RecordKnown' /\ ReadsRecorded'
    BY <1>4, <1>0 DEF ValidateFails, Shape, RecordKnown, ReadsRecorded, PlaceKnown, AtStep, InLoop, dbos, envVars, Refused, Step
  <2> QED BY <2>1, <2>2, <2>3, <2>4, <2>5, <2>6
<1>5. CASE ParseFails
  <2>1. StepsKnow'
    BY <1>5, StepsRest DEF ParseFails
  <2>2. Shape' /\ PlaceKnown'
    BY <1>5, <1>0 DEF ParseFails, Shape, PlaceKnown, AtStep, InLoop, Outcomes, dbos, envVars
  <2>3. NamesKnown'
    BY <1>5, <1>0 DEF ParseFails, Shape, NamesKnown, NamesOf, DistinctTo, AtStep, PlaceKnown, InLoop, envVars
  <2>4. AnswersKnown'
    BY <1>5, <1>0 DEF ParseFails, Shape, AnswersKnown, NoneLater, StepIsOk, PlaceKnown, InLoop, AtStep, dbos, stepVars, vars, execVars, reqVars
  <2>5. EndKnown'
    BY <1>5, <1>0 DEF ParseFails, Shape, EndKnown, AllOk, SomethingFailed, DistinctNames, Outcomes, dbos, PlaceKnown, AtStep, InLoop
  <2>6. RecordKnown' /\ ReadsRecorded'
    BY <1>5, <1>0 DEF ParseFails, Shape, RecordKnown, ReadsRecorded, PlaceKnown, AtStep, InLoop, dbos, envVars
  <2> QED BY <2>1, <2>2, <2>3, <2>4, <2>5, <2>6
<1>6. CASE RecordStep
  <2>1. StepsKnow'
    BY <1>6, StepsRest DEF RecordStep
  <2>2. Shape' /\ PlaceKnown'
    BY <1>6, <1>0 DEF RecordStep, Shape, PlaceKnown, AtStep, InLoop, Outcomes, dbos, envVars
  <2>3. NamesKnown'
    BY <1>6, <1>0 DEF RecordStep, Shape, NamesKnown, NamesOf, DistinctTo, AtStep, PlaceKnown, InLoop, envVars
  <2>4. AnswersKnown'
    BY <1>6, <1>0 DEF RecordStep, Shape, AnswersKnown, NoneLater, StepIsOk, PlaceKnown, InLoop, AtStep, dbos, stepVars, vars, execVars, reqVars
  <2>5. EndKnown'
    BY <1>6, <1>0 DEF RecordStep, Shape, EndKnown, AllOk, SomethingFailed, DistinctNames, Outcomes, dbos, PlaceKnown, AtStep, InLoop
  <2>6. RecordKnown'
    BY <1>6, <1>0 DEF RecordStep, Shape, RecordKnown, PlaceKnown, AtStep, InLoop, dbos, envVars
  <2>7. ReadsRecorded'
    BY <1>6 DEF RecordStep, ReadsRecorded
  <2> QED BY <2>1, <2>2, <2>3, <2>4, <2>5, <2>6, <2>7
<1>7. CASE Replay
  <2>1. StepsKnow'
    BY <1>7, StepsRest DEF Replay
  <2>2. Shape' /\ PlaceKnown'
    BY <1>7, <1>0 DEF Replay, Shape, PlaceKnown, AtStep, InLoop, Outcomes, dbos, envVars
  <2>3. NamesKnown'
    BY <1>7, <1>0 DEF Replay, Shape, NamesKnown, NamesOf, DistinctTo, AtStep, PlaceKnown, InLoop, envVars
  <2>4. AnswersKnown'
    BY <1>7, <1>0 DEF Replay, Shape, AnswersKnown, NoneLater, StepIsOk, PlaceKnown, InLoop, AtStep, dbos, stepVars, vars, execVars, reqVars
  <2>5. EndKnown'
    BY <1>7, <1>0 DEF Replay, Shape, EndKnown, AllOk, SomethingFailed, DistinctNames, Outcomes, dbos, PlaceKnown, AtStep, InLoop
  <2>6. RecordKnown' /\ ReadsRecorded'
    BY <1>7, <1>0 DEF Replay, Shape, RecordKnown, ReadsRecorded, PlaceKnown, AtStep, InLoop, dbos, envVars
  <2> QED BY <2>1, <2>2, <2>3, <2>4, <2>5, <2>6
<1>8. CASE Proceed
  <2>1. StepsKnow'
    BY <1>8, StepsRest DEF Proceed
  <2>2. Shape' /\ PlaceKnown'
    BY <1>8, <1>0 DEF Proceed, Shape, PlaceKnown, AtStep, InLoop, Outcomes, dbos, envVars
  <2>3. NamesKnown'
    BY <1>8, <1>0 DEF Proceed, Shape, NamesKnown, NamesOf, DistinctTo, AtStep, PlaceKnown, InLoop, envVars
  <2>4. AnswersKnown'
    BY <1>8, <1>0 DEF Proceed, Shape, AnswersKnown, NoneLater, StepIsOk, PlaceKnown, InLoop, AtStep, dbos, stepVars, vars, execVars, reqVars
  <2>5. EndKnown'
    BY <1>8, <1>0 DEF Proceed, Shape, EndKnown, AllOk, SomethingFailed, DistinctNames, Outcomes, dbos, PlaceKnown, AtStep, InLoop
  <2>6. RecordKnown'
    <3>1. /\ at \in DOMAIN plan /\ at \in Nat \ {0} /\ at' = at + 1 /\ phase' = "next"
          /\ UNCHANGED <<values, snap, recorded>>
      BY <1>8, <1>0 DEF Proceed, Shape, PlaceKnown, AtStep, dbos, envVars
    <3>2. \A k \in 1..at : values[k] = snap[k][k]
      <4>1. values[at] = snap[at][at] /\ \A k \in 1..(at - 1) : values[k] = snap[k][k]
        BY <1>8 DEF Proceed, RecordKnown, InLoop, AtStep
      <4> QED BY <3>1, <4>1
    <3>3. \A k \in DOMAIN plan : k > at => values[k] = 0
      BY <1>8 DEF Proceed, RecordKnown, InLoop, AtStep
    <3>4. 1..(at' - 1) = 1..at
      BY <3>1
    <3>5. (\A k \in DOMAIN plan : k > at' => values[k] = 0) /\ (at' \in DOMAIN plan => values[at'] = 0)
      BY <3>1, <3>3, <1>0
    <3> QED BY <1>0, <3>1, <3>2, <3>4, <3>5 DEF RecordKnown, InLoop, AtStep
  <2>7. ReadsRecorded'
    BY <1>8 DEF Proceed, ReadsRecorded
  <2> QED BY <2>1, <2>2, <2>3, <2>4, <2>5, <2>6, <2>7
<1>9. CASE StopAtError
  <2>1. StepsKnow'
    BY <1>9, StepsRest DEF StopAtError
  <2>2. Shape' /\ PlaceKnown'
    BY <1>9, <1>0 DEF StopAtError, Shape, PlaceKnown, AtStep, InLoop, Outcomes, dbos, envVars
  <2>3. NamesKnown'
    BY <1>9, <1>0 DEF StopAtError, Shape, NamesKnown, NamesOf, DistinctTo, AtStep, PlaceKnown, InLoop, envVars
  <2>4. AnswersKnown'
    BY <1>9, <1>0 DEF StopAtError, Shape, AnswersKnown, NoneLater, StepIsOk, PlaceKnown, InLoop, AtStep, dbos, stepVars, vars, execVars, reqVars
  <2>5. EndKnown'
    BY <1>9, <1>0 DEF StopAtError, Shape, EndKnown, AllOk, SomethingFailed, DistinctNames, Outcomes, dbos, PlaceKnown, AtStep, InLoop
  <2>6. RecordKnown' /\ ReadsRecorded'
    BY <1>9, <1>0 DEF StopAtError, Shape, RecordKnown, ReadsRecorded, PlaceKnown, AtStep, InLoop, dbos, envVars
  <2> QED BY <2>1, <2>2, <2>3, <2>4, <2>5, <2>6
<1>10. CASE Finish
  <2>1. StepsKnow'
    BY <1>10, StepsRest DEF Finish
  <2>2. Shape' /\ PlaceKnown'
    BY <1>10, <1>0 DEF Finish, Shape, PlaceKnown, AtStep, InLoop, Outcomes, dbos, envVars, NamesKnown, NamesOf, DistinctTo
  <2>3. NamesKnown'
    BY <1>10, <1>0 DEF Finish, Shape, NamesKnown, NamesOf, DistinctTo, AtStep, PlaceKnown, InLoop, envVars
  <2>4. AnswersKnown'
    BY <1>10, <1>0 DEF Finish, Shape, AnswersKnown, NoneLater, StepIsOk, PlaceKnown, InLoop, AtStep, dbos, stepVars, vars, execVars, reqVars
  <2>5. EndKnown'
    BY <1>10, <1>0 DEF Finish, Shape, EndKnown, AllOk, SomethingFailed, DistinctNames, Outcomes, dbos, PlaceKnown, AtStep, InLoop, NamesKnown, NamesOf, DistinctTo
  <2>6. RecordKnown' /\ ReadsRecorded'
    BY <1>10, <1>0 DEF Finish, Shape, RecordKnown, ReadsRecorded, PlaceKnown, AtStep, InLoop, dbos, envVars
  <2> QED BY <2>1, <2>2, <2>3, <2>4, <2>5, <2>6
<1>11. CASE RecordVerdict
  <2>1. StepsKnow'
    BY <1>11, StepsRest DEF RecordVerdict
  <2>2. Shape' /\ PlaceKnown'
    BY <1>11, <1>0 DEF RecordVerdict, Shape, PlaceKnown, AtStep, InLoop, Outcomes, dbos, envVars
  <2>3. NamesKnown'
    BY <1>11, <1>0 DEF RecordVerdict, Shape, NamesKnown, NamesOf, DistinctTo, AtStep, PlaceKnown, InLoop, envVars
  <2>4. AnswersKnown'
    BY <1>11, <1>0 DEF RecordVerdict, Shape, AnswersKnown, NoneLater, StepIsOk, PlaceKnown, InLoop, AtStep, dbos, stepVars, vars, execVars, reqVars
  <2>5. EndKnown'
    BY <1>11, <1>0 DEF RecordVerdict, Shape, EndKnown, AllOk, SomethingFailed, DistinctNames, Outcomes, dbos, PlaceKnown, AtStep, InLoop
  <2>6. RecordKnown' /\ ReadsRecorded'
    BY <1>11, <1>0 DEF RecordVerdict, Shape, RecordKnown, ReadsRecorded, PlaceKnown, AtStep, InLoop, dbos, envVars
  <2> QED BY <2>1, <2>2, <2>3, <2>4, <2>5, <2>6
<1>12. CASE Recover
  <2>1. StepsKnow'
    BY <1>12, StepsRest DEF Recover
  <2>2. Shape' /\ PlaceKnown'
    BY <1>12, <1>0 DEF Recover, Shape, PlaceKnown, AtStep, InLoop, Outcomes, dbos, envVars, Untouched
  <2>3. NamesKnown'
    BY <1>12, <1>0 DEF Recover, Shape, NamesKnown, NamesOf, DistinctTo, AtStep, PlaceKnown, InLoop, envVars, Untouched
  <2>4. AnswersKnown'
    BY <1>12, <1>0 DEF Recover, Shape, AnswersKnown, NoneLater, StepIsOk, PlaceKnown, InLoop, AtStep, dbos, stepVars, vars, execVars, reqVars, Untouched
  <2>5. EndKnown'
    BY <1>12, <1>0 DEF Recover, Shape, EndKnown, AllOk, SomethingFailed, DistinctNames, Outcomes, dbos, PlaceKnown, AtStep, InLoop, Untouched
  <2>6. RecordKnown' /\ ReadsRecorded'
    BY <1>12, <1>0 DEF Recover, Shape, RecordKnown, ReadsRecorded, PlaceKnown, AtStep, InLoop, dbos, envVars, Untouched
  <2> QED BY <2>1, <2>2, <2>3, <2>4, <2>5, <2>6
<1>13. CASE Crash
  <2>1. StepsKnow'
    BY <1>13, StepsRest DEF Crash
  <2>2. Shape' /\ PlaceKnown'
    BY <1>13, <1>0 DEF Crash, Shape, PlaceKnown, AtStep, InLoop, Outcomes, dbos, envVars
  <2>3. NamesKnown'
    BY <1>13, <1>0 DEF Crash, Shape, NamesKnown, NamesOf, DistinctTo, AtStep, PlaceKnown, InLoop, envVars
  <2>4. AnswersKnown'
    BY <1>13, <1>0 DEF Crash, Shape, AnswersKnown, NoneLater, StepIsOk, PlaceKnown, InLoop, AtStep, dbos, stepVars, vars, execVars, reqVars
  <2>5. EndKnown'
    BY <1>13, <1>0 DEF Crash, Shape, EndKnown, AllOk, SomethingFailed, DistinctNames, Outcomes, dbos, PlaceKnown, AtStep, InLoop
  <2>6. RecordKnown' /\ ReadsRecorded'
    BY <1>13, <1>0 DEF Crash, Shape, RecordKnown, ReadsRecorded, PlaceKnown, AtStep, InLoop, dbos, envVars
  <2> QED BY <2>1, <2>2, <2>3, <2>4, <2>5, <2>6
<1>14. CASE StepReturns
  <2>0. /\ at \in DOMAIN plan /\ Step.kind \in Kinds
        /\ outcome' \in {"ok", "error"}
        /\ outcome' = "ok" => StepIsOk(at)
    <3>1. at \in DOMAIN plan /\ Step.kind \in Kinds
      BY <1>14, <1>0, PlanShape DEF StepReturns, Shape, PlaceKnown, AtStep, Step
    <3>2. CASE Step.kind = "plain"
      <4>1. Answers = {"ok"}
        BY <3>2 DEF Answers, Requests
      <4> QED BY <1>14, <3>1, <3>2, <4>1 DEF StepReturns, StepIsOk, Step, Requests
    <3>3. CASE Step.kind = "exec"
      <4>1. Answers = {xresult} \ {"none"}
        BY <3>3 DEF Answers, Requests
      <4> QED BY <1>14, <3>1, <3>3, <4>1 DEF StepReturns, StepIsOk, Step, StepsKnow, CommandKnows, Requests
    <3>4. CASE Step.kind = "container"
      <4>1. Answers = IF pc # "done" THEN {} ELSE IF result = "ok" THEN {"ok"} ELSE {"error"}
        BY <3>4 DEF Answers, Requests
      <4> QED BY <1>14, <3>1, <3>4, <4>1 DEF StepReturns, StepIsOk, Step, Requests
    <3>5. CASE Step.kind \in Requests
      <4>1. Answers = {rresult} \ {"none"}
        BY <3>5 DEF Answers, Requests
      <4>2. provider = Step.kind
        BY <1>14, <3>1, <3>5 DEF StepReturns, AnswersKnown, Step
      <4> QED BY <1>14, <3>1, <3>5, <4>1, <4>2 DEF StepReturns, StepIsOk, Step, StepsKnow, RequestKnows, Requests
    <3> QED BY <3>1, <3>2, <3>3, <3>4, <3>5 DEF Kinds
  <2>1. StepsKnow'
    BY <1>14, StepsRest DEF StepReturns
  <2>2. Shape' /\ PlaceKnown'
    BY <1>14, <1>0, <2>0 DEF StepReturns, Shape, PlaceKnown, AtStep, InLoop, Outcomes, dbos
  <2>3. NamesKnown'
    BY <1>14, <1>0 DEF StepReturns, Shape, NamesKnown, NamesOf, DistinctTo, AtStep
  <2>4. AnswersKnown'
    BY <1>14, <1>0, <2>0 DEF StepReturns, AnswersKnown, NoneLater, StepIsOk, dbos, stepVars, vars, execVars, reqVars
  <2>5. EndKnown'
    BY <1>14, <1>0 DEF StepReturns, EndKnown, AllOk, SomethingFailed, DistinctNames, dbos
  <2>6. RecordKnown'
    BY <1>14, <1>0, <2>0 DEF StepReturns, Shape, RecordKnown, AtStep, InLoop, dbos
  <2>7. ReadsRecorded'
    BY <1>14 DEF StepReturns, ReadsRecorded
  <2> QED BY <2>1, <2>2, <2>3, <2>4, <2>5, <2>6, <2>7
<1>15. CASE Execute
  <2>0. at \in DOMAIN plan /\ phase = "step" /\ recorded[at] = "none"
    BY <1>15, <1>0 DEF Execute, Shape, PlaceKnown, AtStep
  <2>1. StepsKnow'
    <3>1. ContainerKnows' /\ ExitKnown'
      <4>1. CASE Step.kind = "container"
        BY <1>15, <4>1 DEF Execute, FreshContainer, ContainerKnows, ExitKnown, KeptEnds, KeptKnown, EndedWith, NoCode
      <4>2. CASE Step.kind # "container"
        <5>1. UNCHANGED vars
          BY <1>15, <4>2 DEF Execute, FreshContainer
        <5> QED BY <5>1, ContainerRests DEF StepsKnow
      <4> QED BY <4>1, <4>2
    <3>2. CommandKnows'
      <4>1. CASE Step.kind = "exec"
        BY <1>15, <4>1 DEF Execute, FreshCommand, CommandKnows, RunsAsAsked
      <4>2. CASE Step.kind # "exec"
        BY <1>15, <4>2 DEF Execute, FreshCommand, StepsKnow, CommandKnows, RunsAsAsked, execVars
      <4> QED BY <4>1, <4>2
    <3>3. RequestKnows'
      <4>1. CASE Step.kind \in Requests
        BY <1>15, <4>1 DEF Execute, FreshRequest, Begin, RequestKnows, AnswerIsWhole
      <4>2. CASE Step.kind \notin Requests
        BY <1>15, <4>2 DEF Execute, FreshRequest, StepsKnow, RequestKnows, AnswerIsWhole, reqVars
      <4> QED BY <4>1, <4>2
    <3> QED BY <3>1, <3>2, <3>3 DEF StepsKnow
  <2>2. Shape' /\ PlaceKnown'
    BY <1>15, <1>0, <2>0 DEF Execute, Shape, PlaceKnown, AtStep, InLoop, dbos, envVars
  <2>3. NamesKnown'
    BY <1>15, <1>0 DEF Execute, NamesKnown, NamesOf, DistinctTo, AtStep, envVars
  <2>4. AnswersKnown'
    <3>1. ASSUME NEW m \in DOMAIN plan, recorded[m] = "ok", NoneLater(m)' PROVE StepIsOk(m)'
      <4>0. m < at
        <5>1. \A k \in 1..(m - 1) : recorded[k] = "ok"
          BY <3>1 DEF RecordKnown
        <5>2. m \in Nat /\ at \in Nat \ {0} /\ m # at
          BY <1>0, <2>0, <3>1 DEF Shape
        <5> QED BY <2>0, <5>1, <5>2
      <4>1. runs' = [runs EXCEPT ![at] = @ + 1] /\ runs \in [DOMAIN plan -> Nat]
        BY <1>15 DEF Execute, Shape
      <4>2. Family(plan[m].kind) # Family(Step.kind)
        BY <1>0, <2>0, <3>1, <4>0, <4>1 DEF NoneLater, Step
      <4>6. NoneLater(m)
        BY <1>0, <3>1, <4>1 DEF NoneLater
      <4>7. StepIsOk(m)
        BY <3>1, <4>6 DEF AnswersKnown
      <4>3. plan[m].kind = "container" => UNCHANGED result
        BY <1>15, <4>2 DEF Execute, FreshContainer, vars
      <4>4. plan[m].kind = "exec" => UNCHANGED xresult
        BY <1>15, <4>2 DEF Execute, FreshCommand, execVars
      <4>5. plan[m].kind \in Requests => UNCHANGED <<rresult, provider>>
        BY <1>15, <4>2 DEF Execute, FreshRequest, reqVars, Family, Requests
      <4> QED BY <1>0, <4>3, <4>4, <4>5, <4>7 DEF StepIsOk
    <3>2. Step.kind \in Requests => provider' = Step.kind
      BY <1>15 DEF Execute, FreshRequest, Begin
    <3>3. runs'[at] > 0
      BY <1>15, <2>0 DEF Execute, Shape
    <3> QED BY <1>15, <1>0, <3>1, <3>2, <3>3 DEF Execute, AnswersKnown, Step, dbos
  <2>5. EndKnown'
    BY <1>15, <1>0 DEF Execute, EndKnown, AllOk, SomethingFailed, DistinctNames, dbos
  <2>6. RecordKnown'
    BY <1>15, <1>0 DEF Execute, RecordKnown, InLoop, AtStep, dbos, envVars
  <2>7. ReadsRecorded'
    <3>1. Environment = OnRecord
      BY <2>0, EnvironmentOnRecord
    <3>2. Step' = Step /\ OnRecord' = OnRecord
      BY <1>15 DEF Execute, Step, OnRecord, StepNamed, dbos, envVars
    <3> QED BY <1>15, <3>1, <3>2 DEF Execute, ReadsRecorded
  <2> QED BY <2>1, <2>2, <2>3, <2>4, <2>5, <2>6, <2>7
<1> QED BY <1>1, <1>2, <1>3, <1>4, <1>5, <1>6, <1>7, <1>8, <1>9, <1>10, <1>11, <1>12, <1>13, <1>14, <1>15 DEF Loop

----------------------------------------------------------------------------
(* The steps, while one of them is executed, and the daemon at any time *)

\* Whoever leaves the run alone and does not take an answer back keeps what is
\* known of the answers.
LEMMA RunRests ==
    ASSUME RunInv, UNCHANGED runVars, StepsKnow',
           \A m \in DOMAIN plan : recorded[m] = "ok" /\ NoneLater(m) /\ StepIsOk(m) => StepIsOk(m)',
           phase = "returned" /\ StepIsOk(at) => StepIsOk(at)',
           phase = "running" /\ Step.kind \in Requests => UNCHANGED provider
    PROVE  RunInv'
<1> USE DEF RunInv, runVars, dbos, envVars
<1>1. Shape' /\ PlaceKnown'
  BY DEF Shape, PlaceKnown, AtStep, InLoop
<1>2. NamesKnown'
  BY DEF NamesKnown, NamesOf, DistinctTo, AtStep
<1>3. AnswersKnown'
  BY DEF AnswersKnown, NoneLater, Step
<1>4. EndKnown'
  BY DEF EndKnown, AllOk, SomethingFailed, DistinctNames
<1>5. RecordKnown'
  BY DEF RecordKnown, InLoop, AtStep
<1>6. ReadsRecorded'
  BY DEF ReadsRecorded, Step, OnRecord, StepNamed
<1> QED BY <1>1, <1>2, <1>3, <1>4, <1>5, <1>6

LEMMA StepMoves ==
    ASSUME RunInv,
           \/ ContainerGoesOn(Prepare \/ Launch \/ Await \/ Report) \/ ContainerGoesOn(Expire)
           \/ ContainerGoesOn(DaemonMay)
           \/ CommandGoesOn(ExecProceeds) \/ CommandGoesOn(Deadline) \/ CommandGoesOn(Kill)
           \/ CommandGoesOn(ExecWorld)
           \/ RequestGoesOn(RequestProceeds) \/ RequestGoesOn(TimeIsUp) \/ RequestGoesOn(Peer)
    PROVE  RunInv'
<1>1. phase = "running" /\ recorded[at] = "none" /\ at \in DOMAIN plan
  BY PlanShape DEF RunInv, ContainerGoesOn, CommandGoesOn, RequestGoesOn, Executing, PlaceKnown, Shape, AtStep
<1>2. ASSUME NEW m \in DOMAIN plan, recorded[m] = "ok", NoneLater(m)
      PROVE  Family(plan[m].kind) # Family(Step.kind)
  <2>1. m < at
    <3>1. \A k \in 1..(m - 1) : recorded[k] = "ok"
      BY <1>2 DEF RunInv, RecordKnown
    <3>2. m \in Nat /\ at \in Nat \ {0} /\ m # at
      BY <1>1, <1>2, PlanShape DEF RunInv, Shape
    <3> QED BY <1>1, <3>1, <3>2
  <2>2. runs[at] > 0
    BY <1>1 DEF RunInv, AnswersKnown
  <2> QED BY <1>1, <1>2, <2>1, <2>2 DEF NoneLater, Step
<1>3. CASE \/ ContainerGoesOn(Prepare \/ Launch \/ Await \/ Report)
           \/ ContainerGoesOn(Expire) \/ ContainerGoesOn(DaemonMay)
  <2>1. Step.kind = "container" /\ UNCHANGED <<runVars, execVars, reqVars>>
    BY <1>3 DEF ContainerGoesOn, Executing
  <2>2. StepsKnow'
    <3>1. Prepare \/ Launch \/ Await \/ DaemonMay \/ Report \/ Expire
      BY <1>3 DEF ContainerGoesOn
    <3>2. ContainerKnows' /\ ExitKnown'
      BY <3>1, ContainerMoves, ExitStays DEF RunInv, StepsKnow
    <3> QED BY <2>1, <3>2, CommandRests, RequestRests DEF RunInv, StepsKnow
  <2>3. ASSUME NEW m \in DOMAIN plan, recorded[m] = "ok", NoneLater(m), StepIsOk(m) PROVE StepIsOk(m)'
    BY <1>2, <2>1, <2>3 DEF StepIsOk, runVars, execVars, reqVars, Family
  <2>4. UNCHANGED provider
    BY <2>1 DEF reqVars
  <2> QED BY <1>1, <2>1, <2>2, <2>3, <2>4, RunRests
<1>4. CASE \/ CommandGoesOn(ExecProceeds) \/ CommandGoesOn(Deadline)
           \/ CommandGoesOn(Kill) \/ CommandGoesOn(ExecWorld)
  <2>1. Step.kind = "exec" /\ UNCHANGED <<runVars, vars, reqVars>>
    BY <1>4 DEF CommandGoesOn, Executing
  <2>2. StepsKnow'
    <3>1. ExecProceeds \/ ExecWorld \/ Deadline \/ Kill
      BY <1>4 DEF CommandGoesOn
    <3>2. CommandKnows'
      BY <3>1, CommandMoves DEF RunInv, StepsKnow
    <3> QED BY <2>1, <3>2, ContainerRests, RequestRests DEF RunInv, StepsKnow
  <2>3. ASSUME NEW m \in DOMAIN plan, recorded[m] = "ok", NoneLater(m), StepIsOk(m) PROVE StepIsOk(m)'
    BY <1>2, <2>1, <2>3 DEF StepIsOk, runVars, vars, reqVars, Family
  <2>4. UNCHANGED provider
    BY <2>1 DEF reqVars
  <2> QED BY <1>1, <2>1, <2>2, <2>3, <2>4, RunRests
<1>5. CASE RequestGoesOn(RequestProceeds) \/ RequestGoesOn(TimeIsUp) \/ RequestGoesOn(Peer)
  <2>1. Step.kind \in Requests /\ UNCHANGED <<runVars, vars, execVars>>
    BY <1>5 DEF RequestGoesOn
  <2>2. RequestProceeds \/ TimeIsUp \/ Peer
    BY <1>5 DEF RequestGoesOn
  <2>3. StepsKnow'
    <3>1. RequestKnows'
      BY <2>2, RequestMoves DEF RunInv, StepsKnow
    <3> QED BY <2>1, <3>1, ContainerRests, CommandRests DEF RunInv, StepsKnow
  <2>4. ASSUME NEW m \in DOMAIN plan, recorded[m] = "ok", NoneLater(m), StepIsOk(m) PROVE StepIsOk(m)'
    BY <1>2, <2>1, <2>4 DEF StepIsOk, runVars, vars, execVars, Family, Requests
  <2>5. UNCHANGED provider
    BY <2>2 DEF RequestProceeds, TimeIsUp, Peer, PeerMoves, BuildFails, MockAnswers, Send, HeaderComes, BodyRead, CompletionComes, CallFails
  <2> QED BY <1>1, <2>1, <2>3, <2>4, <2>5, RunRests
<1> QED BY <1>3, <1>4, <1>5

LEMMA StepInv == RunInv /\ [RunNext]_allVars => RunInv'
<1> SUFFICES ASSUME RunInv, [RunNext]_allVars PROVE RunInv'
  OBVIOUS
<1>1. CASE Loop \/ Crash
  BY <1>1, LoopMoves
<1>2. CASE Daemon
  <2>1. ContainerKnows' /\ ExitKnown' /\ UNCHANGED <<runVars, execVars, reqVars, result>>
    BY <1>2, DaemonMoves DEF RunInv, StepsKnow, Daemon, Exit, Remove
  <2>2. StepsKnow'
    BY <2>1, CommandRests, RequestRests DEF RunInv, StepsKnow
  <2>3. UNCHANGED <<plan, xresult, at, result, rresult, provider>>
    BY <2>1 DEF runVars, execVars, reqVars
  <2> QED BY <2>1, <2>2, <2>3, RunRests DEF StepIsOk
<1>3. CASE UNCHANGED allVars
  <2>1. StepsKnow'
    BY <1>3, StepsRest DEF RunInv, allVars
  <2>2. UNCHANGED <<runVars, plan, at, result, xresult, rresult, provider>>
    BY <1>3 DEF allVars, runVars, stepVars, vars, execVars, reqVars
  <2> QED BY <2>1, <2>2, RunRests DEF StepIsOk
<1> QED BY <1>1, <1>2, <1>3, StepMoves DEF RunNext

----------------------------------------------------------------------------
\* Every reachable state has the invariant the theorems below follow from.
LEMMA Knowledge == RunSpec => []RunInv
BY RunStarts, StepInv, PTL DEF RunSpec

\* Whatever times out or dies, and whichever call fails, a step that succeeds, and
\* one that fails with an exit code, tell what became of their container, command
\* or peer, and a container that is said to have timed out is stopped unless that
\* very call failed; a command has the user and the group its step names
\* (step_container.go:237, 250, step_exec.go:149, step_http.go:134, step_llm.go:210).
THEOREM Truthful == RunSpec => []TrueAnswers
<1>1. RunInv => TrueAnswers
  BY DEF RunInv, StepsKnow, TrueAnswers, TrueReport, SucceedsUntouched, ContainerKnows, CommandKnows, RequestKnows, EndedWith
<1> QED BY <1>1, Knowledge, PTL

\* For every configuration, a kept container that ends with 0 in time makes a step
\* that succeeds, or one whose logs cannot be read, as long as the daemon does not
\* fail the wait: with an error on errCh (step_container.go:238-241) or one beside
\* the exit code (244-246) the step fails, whatever the exit code.
THEOREM KeptExits == RunSpec => []KeptExitSucceeds
<1>1. RunInv => KeptExitSucceeds
  <2> SUFFICES ASSUME RunInv, pc = "done", ~AutoRemove, code = 0, ~expired, "wait" \notin failed
               PROVE  result \in {"ok", "no logs"}
    BY DEF KeptExitSucceeds
  <2>1. ctr = "exited" /\ code # 1
    BY DEF RunInv, StepsKnow, ExitKnown, KeptEnds, NoCode
  <2> QED BY <2>1, Zenon DEF RunInv, StepsKnow, ExitKnown, KeptKnown
<1> QED BY <1>1, Knowledge, PTL

\* For every workflow, every use of answers in its fields and any number of
\* deaths, a step is executed with what is on record (workflow.go:35, 43).
THEOREM ReadsWhatIsRecorded == RunSpec => []ReadsRecorded
<1>1. RunInv => ReadsRecorded
  BY DEF RunInv
<1> QED BY <1>1, Knowledge, PTL

\* For every workflow, every struct of fields and any number of deaths, a step is
\* executed with exactly what its fields say of the answers before it
\* (expression.go:15, 48, 172).
THEOREM ParsesExactly == RunSpec => []ParseIsExact
<1>1. ASSUME RunInv PROVE ParseIsExact
  <2>1. ExactOnAll
    BY StructAssumption, ParseExact DEF ExactOnAll
  <2>2. ASSUME phase = "running", Step.kind # "plain" PROVE Exact(Step.spec, Environment, read)
    <3>1. at \in DOMAIN plan
      BY <1>1, <2>2, PlanShape DEF RunInv, Shape, PlaceKnown, AtStep
    <3>2. Environment = OnRecord
      BY <1>1, <2>2, <3>1, EnvironmentOnRecord DEF RunInv
    <3>3. read = Parse(Step.spec, Environment)
      BY <1>1, <2>2, <3>2 DEF RunInv, ReadsRecorded
    <3>4. IsStruct(Step.spec)
      <4>1. plan[at] \in Steps
        BY <1>1, <3>1, PlanAssumption DEF RunInv, Shape
      <4> QED BY <4>1, PlanAssumption DEF Step, Steps
    <3> QED BY <3>3, <3>4, ParseExact
  <2> QED BY <2>1, <2>2 DEF ParseIsExact
<1> QED BY <1>1, Knowledge, PTL

\* For every workflow and any number of deaths, the recorded verdict is true of
\* the recorded answers and of the last container, command and peer (workflow.go:27).
THEOREM TrueVerdict == RunSpec => []VerdictIsTrue
<1>1. ASSUME RunInv PROVE VerdictIsTrue
  <2>1. ASSUME verdict = "ok", NEW m \in DOMAIN plan
        PROVE  recorded[m] = "ok"
    BY <1>1, <2>1 DEF RunInv, EndKnown, AllOk
  <2>4. ASSUME verdict = "ok", NEW m \in DOMAIN plan, LastOfItsKind(m)
        PROVE  /\ plan[m].kind = "container" => code = 0
               /\ plan[m].kind = "exec" => status = 0 /\ ~killed
               /\ plan[m].kind \in Requests \ {"mock"} => peer \in {"whole", "refused"}
    <3>1. NoneLater(m)
      BY <1>1, <2>4, PlanShape DEF NoneLater, LastOfItsKind, RunInv, Shape
    <3>2. StepIsOk(m)
      BY <1>1, <2>1, <2>4, <3>1 DEF RunInv, AnswersKnown
    <3> QED BY <1>1, <3>2 DEF RunInv, StepsKnow, StepIsOk, ContainerKnows, CommandKnows, RequestKnows, AnswerIsWhole, EndedWith
  <2>2. verdict = "error" => SomethingFailed
    BY <1>1 DEF RunInv, EndKnown
  <2>3. verdict = "ok" => DistinctNames
    BY <1>1 DEF RunInv, EndKnown, AllOk
  <2> QED BY <2>1, <2>2, <2>3, <2>4 DEF VerdictIsTrue, SomethingFailed
<1> QED BY <1>1, Knowledge, PTL

\* For every workflow and any number of deaths, a step is executed only behind
\* steps that are recorded as ok and while its own answer is not recorded
\* (workflow.go:35, 43).
THEOREM Ordered == RunSpec => StepsInOrder
<1>1. ASSUME RunInv, [RunNext]_allVars
      PROVE  [\A m \in DOMAIN plan :
                 runs'[m] # runs[m] =>
                     recorded[m] = "none" /\ \A k \in 1..(m - 1) : recorded[k] = "ok"]_allVars
  <2> SUFFICES ASSUME NEW m \in DOMAIN plan, runs'[m] # runs[m]
               PROVE  recorded[m] = "none" /\ \A k \in 1..(m - 1) : recorded[k] = "ok"
    OBVIOUS
  <2>1. Execute
    BY <1>1 DEF RunNext, Loop, Crash, WorkflowMissing, RunWorkflow, Validate, ValidateFails, ParseFails, StepReturns, RecordStep,
       Replay, Proceed, StopAtError, Finish, RecordVerdict, Recover, ContainerGoesOn, CommandGoesOn, RequestGoesOn, Daemon,
       runVars, allVars
  <2>2. m = at
    BY <1>1, <2>1, PlanShape DEF Execute, RunInv, Shape, PlaceKnown, AtStep
  <2> QED BY <1>1, <2>1, <2>2 DEF Execute, RunInv, PlaceKnown, InLoop, AtStep
<1> QED BY <1>1, Knowledge, PTL DEF StepsInOrder, RunSpec

\* What is on record of the steps, and the verdict, are what they were.
RecordsStay ==
    /\ \A m \in DOMAIN plan : recorded[m] # "none" => recorded'[m] = recorded[m] /\ snap'[m] = snap[m]
    /\ verdict # "none" => verdict' = verdict

\* Over all deaths of the program, the answer of a step that is on record, the
\* values recorded with it and a verdict stay as they are: a repeated execution
\* ends at the record (workflow.go:35, 43) and never replaces it.
THEOREM RecordsAreFinal == RunSpec => [][RecordsStay]_allVars
<1>1. ASSUME RunInv, [RunNext]_allVars
      PROVE  [RecordsStay]_allVars
  <2>1. CASE RecordStep
    <3>1. recorded[at] = "none" /\ UNCHANGED verdict
      BY <1>1, <2>1 DEF RecordStep, RunInv, PlaceKnown
    <3> QED BY <1>1, <2>1, <3>1 DEF RecordStep, RecordsStay, RunInv, Shape, RecordKnown
  <2>2. CASE RecordVerdict
    BY <1>1, <2>2 DEF RecordVerdict, RecordsStay, RunInv, EndKnown
  <2>3. CASE ~RecordStep /\ ~RecordVerdict
    <3>1. UNCHANGED <<recorded, snap, verdict>>
      BY <1>1, <2>3 DEF RunNext, Loop, Crash, WorkflowMissing, RunWorkflow, Validate, ValidateFails, Execute, ParseFails,
         StepReturns, Replay, Proceed, StopAtError, Finish, Recover, ContainerGoesOn, CommandGoesOn, RequestGoesOn, Daemon,
         runVars, dbos, allVars
    <3> QED BY <3>1 DEF RecordsStay
  <2> QED BY <2>1, <2>2, <2>3
<1> QED BY <1>1, Knowledge, PTL DEF RunSpec
----------------------------------------------------------------------------
(* How often steps are executed *)

\* Induction up to n, for a set instead of a predicate.
LEMMA UpTo ==
    ASSUME NEW n \in Nat, NEW S, 0 \in S, \A k \in 1..n : k - 1 \in S => k \in S
    PROVE  n \in S
<1> SUFFICES ASSUME n \notin S PROVE FALSE
  OBVIOUS
<1> DEFINE Missing == (0..n) \ S
<1>1. Missing \subseteq Nat /\ Missing # {}
  OBVIOUS
<1>2. PICK m \in Missing : \A k \in Missing : m <= k
  <2> HIDE DEF Missing
  <2> QED BY <1>1, LeastExists, Zenon
<1>3. m \in 1..n /\ m - 1 \in 0..n /\ m - 1 < m
  OBVIOUS
<1> QED BY <1>2, <1>3

\* What a recursive sum is meant to be; Total chooses one, so that it must exist.
IsSum(sum, f, n) ==
    /\ sum \in [0..n -> Nat]
    /\ sum[0] = 0
    /\ \A k \in 1..n : sum[k] = sum[k - 1] + f[k]

LEMMA SumExists ==
    ASSUME NEW n \in Nat, NEW f \in [1..n -> Nat]
    PROVE  \E sum : IsSum(sum, f, n)
<1> DEFINE Summed == {m \in 0..n : \E sum : IsSum(sum, f, m)}
<1>1. 0 \in Summed
  <2>1. IsSum([k \in 0..0 |-> 0], f, 0)
    BY DEF IsSum
  <2> QED BY <2>1
<1>2. ASSUME NEW m \in 1..n, m - 1 \in Summed PROVE m \in Summed
  <2>1. PICK sum : IsSum(sum, f, m - 1)
    BY <1>2
  <2> DEFINE longer == [k \in 0..m |-> IF k = m THEN sum[m - 1] + f[m] ELSE sum[k]]
  <2>2. longer \in [0..m -> Nat] /\ longer[0] = 0
    BY <2>1 DEF IsSum
  <2>3. ASSUME NEW k \in 1..m PROVE longer[k] = longer[k - 1] + f[k]
    <3>1. k \in 0..m /\ k - 1 \in 0..m /\ k - 1 # m /\ (k # m => k \in 1..(m - 1))
      OBVIOUS
    <3> QED BY <2>1, <3>1 DEF IsSum
  <2>4. IsSum(longer, f, m)
    <3> HIDE DEF longer
    <3> QED BY <2>2, <2>3 DEF IsSum
  <2> QED BY <2>4
<1>3. n \in Summed
  <2> HIDE DEF Summed
  <2> QED BY <1>1, <1>2, UpTo, Zenon
<1> QED BY <1>3

LEMMA TotalIsSum ==
    ASSUME NEW n \in Nat, NEW f \in [1..n -> Nat]
    PROVE  \E sum : IsSum(sum, f, n) /\ Total(f, n) = sum[n]
<1> DEFINE Eq(g) == g = [k \in 0..n |-> IF k = 0 THEN 0 ELSE g[k - 1] + f[k]]
<1> DEFINE total == CHOOSE g : Eq(g)
<1>1. PICK sum : IsSum(sum, f, n)
  BY SumExists
<1>2. Eq(sum)
  <2>1. sum = [k \in 0..n |-> sum[k]]
    BY <1>1 DEF IsSum
  <2>2. \A k \in 0..n : sum[k] = IF k = 0 THEN 0 ELSE sum[k - 1] + f[k]
    BY <1>1 DEF IsSum
  <2> QED BY <2>1, <2>2, Zenon
<1>3. Eq(total)
  <2> HIDE DEF Eq
  <2> QED BY <1>2
<1>4. \A k \in 0..n : total[k] = IF k = 0 THEN 0 ELSE total[k - 1] + f[k]
  <2> HIDE DEF total
  <2> QED BY <1>3
<1> DEFINE Same == {k \in 0..n : total[k] = sum[k]}
<1>5. n \in Same
  <2> HIDE DEF total
  <2>1. 0 \in Same
    BY <1>1, <1>4 DEF IsSum
  <2>2. ASSUME NEW k \in 1..n, k - 1 \in Same PROVE k \in Same
    BY <1>1, <1>4, <2>2 DEF IsSum
  <2> HIDE DEF Same
  <2> QED BY <2>1, <2>2, UpTo, Zenon
<1>6. Total(f, n) = total[n]
  BY DEF Total
<1> QED BY <1>1, <1>5, <1>6

LEMMA TotalIsNat ==
    ASSUME NEW n \in Nat, NEW f \in [1..n -> Nat]
    PROVE  Total(f, n) \in Nat
<1>1. PICK sum : IsSum(sum, f, n) /\ Total(f, n) = sum[n]
  BY TotalIsSum
<1> QED BY <1>1 DEF IsSum

LEMMA TotalGrows ==
    ASSUME NEW n \in Nat, NEW f \in [1..n -> Nat], NEW i \in 1..n
    PROVE  Total([f EXCEPT ![i] = @ + 1], n) = Total(f, n) + 1
<1> DEFINE g == [f EXCEPT ![i] = @ + 1]
<1>0. g \in [1..n -> Nat]
  OBVIOUS
<1>1. PICK s : IsSum(s, f, n) /\ Total(f, n) = s[n]
  BY TotalIsSum
<1>2. PICK t : IsSum(t, g, n) /\ Total(g, n) = t[n]
  <2> HIDE DEF g
  <2> QED BY <1>0, TotalIsSum
<1> DEFINE Ahead == {k \in 0..n : t[k] = s[k] + IF k < i THEN 0 ELSE 1}
<1>3. n \in Ahead
  <2>1. 0 \in Ahead
    BY <1>1, <1>2 DEF IsSum
  <2>2. ASSUME NEW k \in 1..n, k - 1 \in Ahead PROVE k \in Ahead
    <3>1. t[k] = t[k - 1] + g[k] /\ s[k] = s[k - 1] + f[k] /\ s[k - 1] \in Nat /\ f[k] \in Nat
      <4> HIDE DEF g
      <4> QED BY <1>1, <1>2 DEF IsSum
    <3>2. t[k - 1] = s[k - 1] + IF k - 1 < i THEN 0 ELSE 1
      BY <2>2
    <3>3. g[k] = f[k] + IF k = i THEN 1 ELSE 0
      OBVIOUS
    <3> QED BY <3>1, <3>2, <3>3, SMTT(30)
  <2> HIDE DEF Ahead
  <2> QED BY <2>1, <2>2, UpTo, Zenon
<1>4. t[n] = s[n] + 1
  BY <1>3
<1> QED BY <1>1, <1>2, <1>4

LEMMA TotalBounded ==
    ASSUME NEW n \in Nat, NEW f \in [1..n -> {0, 1}]
    PROVE  Total(f, n) <= n
<1>0. f \in [1..n -> Nat]
  OBVIOUS
<1>1. PICK s : IsSum(s, f, n) /\ Total(f, n) = s[n]
  BY <1>0, TotalIsSum
<1> DEFINE Below == {k \in 0..n : s[k] <= k}
<1>2. n \in Below
  <2>1. 0 \in Below
    BY <1>1 DEF IsSum
  <2>2. ASSUME NEW k \in 1..n, k - 1 \in Below PROVE k \in Below
    <3>1. s[k] = s[k - 1] + f[k] /\ f[k] \in {0, 1} /\ s[k - 1] \in Nat
      BY <1>1 DEF IsSum
    <3> QED BY <2>2, <3>1
  <2> HIDE DEF Below
  <2> QED BY <2>1, <2>2, UpTo, Zenon
<1> QED BY <1>1, <1>2 DEF IsSum

\* 1 for each step that has a recorded answer.
Settled == [m \in DOMAIN plan |-> IF recorded[m] = "none" THEN 0 ELSE 1]
Unsettled == IF phase \in {"running", "returned"} THEN 1 ELSE 0

\* Every execution is recorded, is the one under way, or died.
RunsCounted ==
    /\ crashes \in Nat
    /\ phase = "returned" => outcome # "none"
    /\ Total(runs, Len(plan)) <= Total(Settled, Len(plan)) + crashes + Unsettled


LEMMA CountShape ==
    ASSUME Shape
    PROVE  /\ Len(plan) \in Nat /\ DOMAIN plan = 1..Len(plan)
           /\ runs \in [1..Len(plan) -> Nat]
           /\ Settled \in [1..Len(plan) -> {0, 1}] /\ Settled \in [1..Len(plan) -> Nat]
           /\ Total(runs, Len(plan)) \in Nat /\ Total(Settled, Len(plan)) \in Nat
<1>1. /\ Len(plan) \in Nat /\ DOMAIN plan = 1..Len(plan)
      /\ runs \in [1..Len(plan) -> Nat]
      /\ Settled \in [1..Len(plan) -> {0, 1}] /\ Settled \in [1..Len(plan) -> Nat]
  BY PlanShape DEF Shape, Settled
<1> QED BY <1>1, TotalIsNat

\* Neither an execution nor a record is added.
LEMMA CountRests ==
    ASSUME RunsCounted, UNCHANGED <<plan, runs, recorded>>,
           crashes' \in Nat, crashes + Unsettled <= crashes' + Unsettled',
           phase' = "returned" => outcome' # "none", Shape
    PROVE  RunsCounted'
<1>1. Settled' = Settled
  BY DEF Settled
<1>2. Total(runs, Len(plan))' = Total(runs, Len(plan)) /\ Total(Settled, Len(plan))' = Total(Settled, Len(plan))
  BY <1>1
<1>3. Unsettled \in Nat /\ Unsettled' \in Nat
  BY DEF Unsettled
<1>4. /\ Total(runs, Len(plan)) \in Nat /\ Total(Settled, Len(plan)) \in Nat
      /\ crashes \in Nat /\ Total(runs, Len(plan)) <= Total(Settled, Len(plan)) + crashes + Unsettled
  BY CountShape DEF RunsCounted
<1>5. Total(runs, Len(plan)) <= Total(Settled, Len(plan)) + crashes' + Unsettled'
  <2>1. PICK c \in Nat, u \in Nat : c = crashes' /\ u = Unsettled'
    BY <1>3
  <2>2. crashes + Unsettled <= c + u
    BY <2>1, Zenon
  <2>3. Total(runs, Len(plan)) <= Total(Settled, Len(plan)) + c + u
    BY <1>3, <1>4, <2>2
  <2> QED BY <2>1, <2>3, Zenon
<1> QED BY <1>2, <1>5 DEF RunsCounted

LEMMA RunsStart == RunInit => RunsCounted
<1> SUFFICES ASSUME RunInit PROVE RunsCounted
  OBVIOUS
<1>1. runs = Settled
  BY DEF RunInit, Untouched, Settled
<1>2. Shape
  BY RunStarts DEF RunInv
<1>3. Total(Settled, Len(plan)) \in Nat
  BY <1>2, CountShape
<1> QED BY <1>1, <1>3 DEF RunInit, RunsCounted, Unsettled

LEMMA RunsMove == RunInv /\ RunsCounted /\ [RunNext]_allVars => RunsCounted'
<1> SUFFICES ASSUME RunInv, RunsCounted, [RunNext]_allVars PROVE RunsCounted'
  OBVIOUS
<1>0. Shape /\ PlaceKnown
  BY DEF RunInv
<1> DEFINE n == Len(plan)
<1>1. CASE Execute
  <2>1. at \in 1..n /\ plan' = plan
    BY <1>0, <1>1, CountShape DEF Execute, PlaceKnown, AtStep, Shape
  <2>2. Total(runs', n) = Total(runs, n) + 1
    BY <1>0, <1>1, <2>1, CountShape, TotalGrows DEF Execute
  <2>3. Settled' = Settled /\ Unsettled = 0 /\ Unsettled' = 1 /\ UNCHANGED crashes /\ phase' # "returned"
    BY <1>1 DEF Execute, Settled, Unsettled, dbos
  <2> QED BY <1>0, <2>1, <2>2, <2>3, CountShape DEF RunsCounted
<1>2. CASE RecordStep
  <2>1. at \in 1..n /\ plan' = plan /\ runs' = runs /\ recorded[at] = "none" /\ outcome # "none"
    BY <1>0, <1>2, CountShape DEF RecordStep, PlaceKnown, AtStep, Shape, RunsCounted
  <2>2. Settled' = [Settled EXCEPT ![at] = @ + 1]
    <3>1. recorded' = [recorded EXCEPT ![at] = outcome] /\ recorded \in [1..n -> Outcomes] /\ DOMAIN plan = 1..n
      BY <1>0, <1>2, CountShape DEF RecordStep, Shape
    <3>2. \A m \in 1..n : recorded'[m] = IF m = at THEN outcome ELSE recorded[m]
      BY <3>1
    <3>3. Settled' = [m \in 1..n |-> IF m = at THEN 1 ELSE Settled[m]]
      BY <2>1, <3>1, <3>2 DEF Settled
    <3>4. Settled[at] = 0
      BY <2>1, <3>1 DEF Settled
    <3>5. Settled \in [1..n -> Nat]
      BY <1>0, CountShape
    <3>6. [Settled EXCEPT ![at] = @ + 1] = [m \in 1..n |-> IF m = at THEN 1 ELSE Settled[m]]
      <4> DEFINE all == [Settled EXCEPT ![at] = @ + 1]
      <4>1. DOMAIN all = 1..n /\ all = [m \in 1..n |-> all[m]] /\ \A m \in 1..n : m # at => all[m] = Settled[m]
        BY <3>5
      <4>2. all[at] = 1
        BY <2>1, <3>4, <3>5
      <4>3. all = [m \in 1..n |-> IF m = at THEN 1 ELSE Settled[m]]
        <5> HIDE DEF all
        <5> QED BY <4>1, <4>2
      <4> QED BY <4>3
    <3> QED BY <3>3, <3>6
  <2>3. Total(Settled', n) = Total(Settled, n) + 1
    BY <1>0, <2>1, <2>2, CountShape, TotalGrows
  <2>4. Unsettled = 1 /\ Unsettled' = 0 /\ UNCHANGED crashes /\ phase' # "returned"
    BY <1>2 DEF RecordStep, Unsettled
  <2> QED BY <1>0, <2>1, <2>3, <2>4, CountShape DEF RunsCounted
<1>3. CASE ParseFails \/ StepReturns
  <2>1. outcome' # "none"
    <3>1. CASE StepReturns
      <4>1. Step.kind \in Kinds
        BY <1>0, <3>1, PlanShape DEF StepReturns, Shape, PlaceKnown, AtStep, Step
      <4> QED BY <3>1, <4>1 DEF StepReturns, Answers, Kinds
    <3> QED BY <1>3, <3>1 DEF ParseFails
  <2>2. UNCHANGED <<plan, runs, recorded, crashes>> /\ Unsettled = 1 /\ Unsettled' = 1
    BY <1>3 DEF ParseFails, StepReturns, Unsettled, dbos
  <2> QED BY <1>0, <2>1, <2>2, CountRests DEF RunsCounted
<1>4. CASE Crash
  <2>1. UNCHANGED <<plan, runs, recorded>> /\ crashes' = crashes + 1 /\ phase' # "returned" /\ Unsettled \in {0, 1} /\ Unsettled' = 0
    BY <1>4 DEF Crash, Unsettled, dbos
  <2> QED BY <1>0, <2>1, CountRests DEF RunsCounted
<1>5. CASE ~(Execute \/ RecordStep \/ ParseFails \/ StepReturns \/ Crash)
  <2>1. UNCHANGED <<plan, runs, recorded, crashes>>
    BY <1>5 DEF RunNext, Loop, WorkflowMissing, RunWorkflow, Validate, ValidateFails, Replay, Proceed, StopAtError, Finish,
       RecordVerdict, Recover, ContainerGoesOn, CommandGoesOn, RequestGoesOn, Daemon, runVars, allVars, dbos
  <2>2. UNCHANGED <<phase, outcome>> \/ ~(phase' \in {"running", "returned"} \/ phase \in {"running", "returned"})
    BY <1>5 DEF RunNext, Loop, WorkflowMissing, RunWorkflow, Validate, ValidateFails, Replay, Proceed, StopAtError, Finish,
       RecordVerdict, Recover, ContainerGoesOn, CommandGoesOn, RequestGoesOn, Daemon, runVars, allVars
  <2>3. Unsettled' = Unsettled /\ Unsettled \in Nat
    BY <2>2 DEF Unsettled
  <2> QED BY <1>0, <2>1, <2>2, <2>3, CountRests DEF RunsCounted
<1> QED BY <1>1, <1>2, <1>3, <1>4, <1>5

\* For every workflow and any number of deaths, every execution of a step beyond its
\* first is due to a death, and no death to more than one (workflow.go:35, 43).
THEOREM RepeatsOnlyAfterCrash == RunSpec => []OneRepeatPerCrash
<1>1. ASSUME RunInv, RunsCounted PROVE OneRepeatPerCrash
  <2>1. Shape
    BY <1>1 DEF RunInv
  <2>2. CASE phase \notin {"running", "returned"}
    <3>1. Total(Settled, Len(plan)) <= Len(plan)
      BY <2>1, CountShape, TotalBounded
    <3> QED BY <1>1, <2>1, <2>2, <3>1, CountShape DEF RunsCounted, Unsettled, OneRepeatPerCrash
  <2>3. CASE phase \in {"running", "returned"}
    <3> DEFINE All == [Settled EXCEPT ![at] = @ + 1]
    <3>1. at \in 1..Len(plan) /\ Settled[at] = 0
      BY <1>1, <2>1, <2>3, CountShape DEF RunInv, PlaceKnown, AtStep, Shape, Settled
    <3>2. All \in [1..Len(plan) -> {0, 1}]
      BY <2>1, <3>1, CountShape
    <3>3. Total(All, Len(plan)) = Total(Settled, Len(plan)) + 1
      BY <2>1, <3>1, CountShape, TotalGrows
    <3>4. Total(All, Len(plan)) <= Len(plan)
      <4> HIDE DEF All
      <4> QED BY <2>1, <3>2, CountShape, TotalBounded
    <3> QED BY <1>1, <2>1, <2>3, <3>3, <3>4, CountShape DEF RunsCounted, Unsettled, OneRepeatPerCrash
  <2> QED BY <2>2, <2>3
<1> QED BY <1>1, Knowledge, RunsStart, RunsMove, PTL DEF RunSpec

----------------------------------------------------------------------------
(* No container outlives a step that ended in time, with its wait answered. *)

\* What Execute knows of its container while its context is not done and the wait
\* has not failed: it has none before it creates one, and waits until it ended.
InTime ==
    /\ pc = "stopping" => expired
    /\ ~expired /\ "wait" \notin failed =>
        /\ pc \in {"policy", "pull", "create"} => ctr = "none"
        /\ pc = "start" => ctr = "created"
        /\ pc = "wait" /\ ~registered => ctr = "removed"
        /\ pc = "logs" => ctr \in {"exited", "removed"}
        /\ NothingRunsOn

LEMMA ContainerInTime ==
    ASSUME InTime, Prepare \/ Launch \/ Await \/ DaemonMay \/ Report \/ Expire
    PROVE  InTime'
<1> USE DEF InTime, NothingRunsOn
<1>1. CASE Prepare
  BY <1>1 DEF Prepare, CheckPolicy, RejectPolicy, PullFails, Pull, Go, Return
<1>2. CASE Launch
  BY <1>2 DEF Launch, Create, CreateFails, Start, StartFails, Go, Return
<1>3. CASE Await
  <2>1. CASE Wait
    BY <2>1 DEF Wait, Go
  <2>2. CASE StatusComes
    BY <2>2 DEF StatusComes, Ended, Go
  <2>3. CASE WaitErrorComes
    BY <2>3 DEF WaitErrorComes, Go
  <2>4. CASE TimeoutComes
    BY <2>4 DEF TimeoutComes, Go
  <2> QED BY <1>3, <2>1, <2>2, <2>3, <2>4 DEF Await
<1>6. CASE DaemonMay
  BY <1>6 DEF DaemonMay, WaitFails, StopReturns, StopFails, Go, Return
<1>4. CASE Report
  BY <1>4 DEF Report, LogsFail, Answer, Go, Return
<1>5. CASE Expire
  BY <1>5 DEF Expire
<1> QED BY <1>1, <1>2, <1>3, <1>4, <1>5, <1>6

LEMMA InTimeMoves == InTime /\ [RunNext]_allVars => InTime'
<1> SUFFICES ASSUME InTime, [RunNext]_allVars PROVE InTime'
  OBVIOUS
<1>1. ASSUME UNCHANGED vars PROVE InTime'
  BY <1>1 DEF InTime, NothingRunsOn, vars
<1>2. CASE Loop \/ Crash
  <2>1. CASE Execute
    <3>1. CASE Step.kind = "container"
      BY <2>1, <3>1 DEF Execute, FreshContainer, InTime, NothingRunsOn
    <3>2. CASE Step.kind # "container"
      BY <1>1, <2>1, <3>2 DEF Execute, FreshContainer
    <3> QED BY <3>1, <3>2
  <2>2. CASE ~Execute
    BY <1>1, <1>2, <2>2 DEF Loop, Crash, WorkflowMissing, RunWorkflow, Validate, ValidateFails, ParseFails, StepReturns,
                            RecordStep, Replay, Proceed, StopAtError, Finish, RecordVerdict, Recover, stepVars
  <2> QED BY <2>1, <2>2
<1>3. CASE ContainerGoesOn(Prepare \/ Launch \/ Await \/ Report) \/ ContainerGoesOn(Expire) \/ ContainerGoesOn(DaemonMay)
  BY <1>3, ContainerInTime DEF ContainerGoesOn
<1>4. CASE Daemon
  BY <1>4 DEF Daemon, Exit, Remove, InTime, NothingRunsOn
<1>5. CASE \/ CommandGoesOn(ExecProceeds) \/ CommandGoesOn(Deadline) \/ CommandGoesOn(Kill) \/ CommandGoesOn(ExecWorld)
           \/ RequestGoesOn(RequestProceeds) \/ RequestGoesOn(TimeIsUp) \/ RequestGoesOn(Peer)
  BY <1>1, <1>5 DEF CommandGoesOn, RequestGoesOn
<1>6. CASE UNCHANGED allVars
  BY <1>1, <1>6 DEF allVars, stepVars
<1> QED BY <1>2, <1>3, <1>4, <1>5, <1>6 DEF RunNext

\* "The container is stopped" (CONTAINER_STEP.md:444-446) can fail only when the
\* timeout struck or the daemon failed the wait (step_container.go:238-241 then takes
\* the error and goes on to the logs of a container that runs).  In all other cases
\* a step that started its container does not return before it has ended, whatever
\* its configuration, in the first execution and in one that repeats a lost one.
THEOREM EndsInTime == RunSpec => [](~expired /\ "wait" \notin failed => NothingRunsOn)
<1>1. RunInit => InTime
  BY DEF RunInit, Init, InTime, NothingRunsOn
<1>2. InTime => (~expired /\ "wait" \notin failed => NothingRunsOn)
  BY DEF InTime
<1>3. QED
  BY <1>1, <1>2, InTimeMoves, PTL DEF RunSpec

----------------------------------------------------------------------------
(* A run implements DurableRun. *)

\* An execution that returned has an answer, and a run that is over with an error
\* has come to a step that failed or is refused, behind steps that did not.
AnswerThere == phase = "returned" => outcome \in {"ok", "error"}

StoppedThere == phase = "over" /\ outcome = "error" => \E m \in DOMAIN plan : Durable!Stopped(m)

LEMMA NamesAccepted ==
    ASSUME RunInv, at \in DOMAIN plan
    PROVE  /\ AtStep => at \in Accepted
           /\ phase = "next" /\ Refused => at \notin Accepted
<1>1. at \in Nat \ {0} /\ at \in 1..at /\ \A k \in 1..(at - 1) : k \in 1..at /\ k # at
  BY DEF RunInv, Shape
<1>2. AtStep => at \in Accepted
  BY <1>1 DEF RunInv, NamesKnown, DistinctTo, Accepted
<1>3. ASSUME phase = "next", Refused PROVE at \notin Accepted
  BY <1>3 DEF RunInv, NamesKnown, NamesOf, Refused, Step, Accepted
<1> QED BY <1>2, <1>3

\* Only these steps make an answer, or an end, or touch the records.
LEMMA AnswersMove ==
    ASSUME RunInv, AnswerThere, StoppedThere, [RunNext]_allVars
    PROVE  AnswerThere' /\ StoppedThere'
<1> USE PlanShape DEF RunInv, Shape
<1>0. DOMAIN recorded = DOMAIN plan
  OBVIOUS
<1>1. CASE StepReturns
  <2>1. Answers \subseteq {"ok", "error"}
    BY <1>1 DEF Answers, StepReturns, StepsKnow, CommandKnows, RequestKnows, Step, PlaceKnown, AtStep, Kinds
  <2> QED BY <1>1, <2>1 DEF StepReturns, AnswerThere, StoppedThere
<1>2. CASE ParseFails
  BY <1>2 DEF ParseFails, AnswerThere, StoppedThere
<1>3. CASE ValidateFails
  <2>1. at \in DOMAIN plan /\ Refused /\ phase = "next" /\ UNCHANGED <<plan, recorded, at>> /\ phase' = "over"
    BY <1>3 DEF ValidateFails, dbos
  <2>2. Durable!Stopped(at)
    BY <1>0, <2>1, NamesAccepted DEF Durable!Stopped, Durable!Reached, Durable!Steps, PlaceKnown, InLoop
  <2>3. Durable!Stopped(at)'
    BY <1>0, <2>1, <2>2 DEF Durable!Stopped, Durable!Reached, Durable!Steps, Accepted
  <2> QED BY <2>1, <2>2, <2>3 DEF AnswerThere, StoppedThere
<1>4. CASE StopAtError
  <2>1. at \in DOMAIN plan /\ recorded[at] = "error" /\ UNCHANGED <<plan, recorded, at>> /\ phase' = "over"
    BY <1>4 DEF StopAtError, dbos, PlaceKnown, AtStep
  <2>2. Durable!Stopped(at)
    BY <1>0, <1>4, <2>1 DEF StopAtError, Durable!Stopped, Durable!Reached, Durable!Steps, PlaceKnown, InLoop, AtStep
  <2>3. Durable!Stopped(at)'
    BY <1>0, <2>1, <2>2 DEF Durable!Stopped, Durable!Reached, Durable!Steps, Accepted
  <2> QED BY <2>1, <2>3 DEF AnswerThere, StoppedThere
<1>5. CASE Finish
  BY <1>5 DEF Finish, AnswerThere, StoppedThere
<1>6. CASE \/ WorkflowMissing \/ RunWorkflow \/ Validate \/ Execute \/ RecordStep \/ Replay \/ Proceed
           \/ RecordVerdict \/ Recover \/ Crash
  BY <1>6 DEF WorkflowMissing, RunWorkflow, Validate, Execute, RecordStep, Replay, Proceed, RecordVerdict, Recover, Crash,
              AnswerThere, StoppedThere
<1>7. ASSUME UNCHANGED runVars PROVE AnswerThere' /\ StoppedThere'
  BY <1>7 DEF runVars, dbos, AnswerThere, StoppedThere, Durable!Stopped, Durable!Reached, Durable!Steps, Accepted
<1> QED BY <1>1, <1>2, <1>3, <1>4, <1>5, <1>6, <1>7
        DEF RunNext, Loop, ContainerGoesOn, CommandGoesOn, RequestGoesOn, Daemon, allVars

LEMMA DurableStep ==
    ASSUME RunInv, AnswerThere, StoppedThere, [RunNext]_allVars
    PROVE  [Durable!Next]_(Durable!vars)
<1> USE PlanShape DEF RunInv, Shape, Durable!Steps
<1>0. DOMAIN recorded = DOMAIN plan
  OBVIOUS
<1>1. ASSUME UNCHANGED <<plan, recorded, verdict, InHand>> PROVE UNCHANGED Durable!vars
  BY <1>1 DEF Durable!vars, Accepted
<1>2. CASE Execute
  <2>1. at \in DOMAIN plan /\ at \in Accepted /\ verdict = "none"
    BY <1>2, NamesAccepted DEF Execute, PlaceKnown, AtStep, EndKnown
  <2>2. Durable!Reached(at)
    BY <1>0, <1>2, <2>1 DEF Execute, Durable!Reached, PlaceKnown, InLoop, AtStep
  <2>3. InHand = 0 /\ InHand' = at /\ UNCHANGED <<plan, recorded, verdict>> /\ recorded[at] = "none"
    BY <1>2 DEF Execute, InHand, dbos
  <2>4. Durable!Begin(at)
    BY <2>1, <2>2, <2>3 DEF Durable!Begin, Accepted
  <2> QED BY <1>0, <2>1, <2>4 DEF Durable!Next
<1>3. CASE RecordStep
  <2>1. InHand = at /\ at # 0 /\ InHand' = 0 /\ UNCHANGED <<plan, verdict>> /\ outcome \in {"ok", "error"}
    BY <1>3 DEF RecordStep, InHand, AnswerThere
  <2>2. Durable!Answer(outcome)
    BY <1>3, <2>1 DEF RecordStep, Durable!Answer, Accepted
  <2> QED BY <2>1, <2>2 DEF Durable!Next
<1>4. CASE Crash
  <2>1. UNCHANGED <<plan, recorded, verdict>> /\ InHand' = 0
    BY <1>4 DEF Crash, dbos, InHand
  <2>2. CASE InHand = 0
    BY <1>1, <2>1, <2>2
  <2>3. CASE InHand # 0
    BY <2>1, <2>3 DEF Durable!Next, Durable!Die, Accepted
  <2> QED BY <2>2, <2>3
<1>5. CASE RecordVerdict
  <2>1. /\ phase = "over" /\ InHand = 0 /\ InHand' = 0 /\ UNCHANGED <<plan, recorded>>
        /\ verdict = "none" /\ verdict' = outcome /\ outcome \in {"ok", "error"}
    BY <1>5 DEF RecordVerdict, InHand, EndKnown, Outcomes
  <2>2. outcome = "ok" => \A m \in DOMAIN recorded : recorded[m] = "ok"
    BY <1>0, <2>1 DEF EndKnown, AllOk
  <2>3. outcome = "error" => \E m \in DOMAIN recorded : Durable!Stopped(m)
    BY <1>0, <2>1 DEF StoppedThere
  <2>4. Durable!End(outcome)
    BY <2>1, <2>2, <2>3 DEF Durable!End, Accepted
  <2> QED BY <2>1, <2>4 DEF Durable!Next
<1>6. CASE \/ WorkflowMissing \/ RunWorkflow \/ Validate \/ ValidateFails \/ ParseFails \/ StepReturns \/ Replay
           \/ Proceed \/ StopAtError \/ Finish \/ Recover
  <2>1. UNCHANGED <<plan, recorded, verdict, InHand>>
    BY <1>6 DEF WorkflowMissing, RunWorkflow, Validate, ValidateFails, ParseFails, StepReturns, Replay, Proceed, StopAtError,
                Finish, Recover, dbos, InHand
  <2> QED BY <1>1, <2>1
<1>7. ASSUME UNCHANGED runVars PROVE UNCHANGED Durable!vars
  BY <1>1, <1>7 DEF runVars, dbos, InHand
<1> QED BY <1>2, <1>3, <1>4, <1>5, <1>6, <1>7
        DEF RunNext, Loop, ContainerGoesOn, CommandGoesOn, RequestGoesOn, Daemon, allVars

\* Behind the loop over the steps, DBOS's replay and the restarts, a run of any
\* workflow, with any number of deaths, is one of DurableRun (workflow.go:16, 27).
THEOREM RunsDurably == RunSpec => ImplementsDurableRun
<1>1. RunInit => AnswerThere /\ StoppedThere
  BY DEF RunInit, AnswerThere, StoppedThere
<1>2. RunInit => Durable!Init
  BY DEF RunInit, Durable!Init, Durable!Steps, Accepted, InHand
<1>3. RunInv /\ AnswerThere /\ StoppedThere /\ [RunNext]_allVars
        => AnswerThere' /\ StoppedThere' /\ [Durable!Next]_(Durable!vars)
  BY AnswersMove, DurableStep
<1>4. QED
  BY <1>1, <1>2, <1>3, Knowledge, PTL DEF RunSpec, ImplementsDurableRun, Durable!Spec
===============================================================================
