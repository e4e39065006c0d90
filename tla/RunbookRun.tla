----------------------------- MODULE RunbookRun -----------------------------
(***************************************************************************)
(* One run of a runbook: the agent pods that execute its automated steps   *)
(* (internal/agent/runner.go) and the operators who tick or cancel it      *)
(* through the API (internal/api/runbook_exec.go), over one row of         *)
(* runbook_executions (internal/chstore/runbook_executions.go).            *)
(*                                                                         *)
(* Every writer reads the whole row, changes its copy and inserts it as    *)
(* the new version; nothing compares versions.  A read, a write, a lock    *)
(* call and the execution of a step are separate steps here.               *)
(***************************************************************************)
EXTENDS Integers, FiniteSets

CONSTANTS
  Agent,      \* agent pods
  Operator,   \* API requests, each handled once
  NoAgent,
  Last,       \* the run has steps 1..Last
  Automated,  \* the steps whose kind is http, javascript or bash
  Faults,     \* may pods crash and store or lock calls fail?
  SlowSteps,  \* may a step outlive the five-minute claim?
  NoRedis,    \* agents that booted without Redis
  MaxRuns     \* bound: executions of one step

ASSUME RunbookAssumption ==
  /\ Last \in Nat \ {0}
  /\ Automated \subseteq 1..Last
  /\ NoAgent \notin Agent /\ NoRedis \subseteq Agent
  /\ Faults \in BOOLEAN /\ SlowSteps \in BOOLEAN
  /\ MaxRuns \in Nat

Step == 1..Last
terminalStep == {"completed", "skipped", "failed"}
StepStatus == {"pending", "running"} \union terminalStep
ExecStatus == {"running", "completed", "failed", "cancelled"}
Row == [status : ExecStatus, states : [Step -> StepStatus]]

VARIABLES
  row,       \* the latest version of the execution
  claim,     \* who holds the lock rb:claim:<id>
  agent,     \* each agent: program counter, step, its copy of the row, result
  request,   \* each operator request: program counter and its copy of the row
  unclaimed, \* history: agents in runStep whose claim ran out or was never in Redis
  ran,       \* history: how often each step was executed
  settled    \* history: steps that have been terminal in some version

vars == <<row, claim, agent, request, unclaimed, ran, settled>>

\* Mutant: the first step an agent could run, whatever comes before it.
firstAutomated(states) ==
  IF \A i \in Automated : states[i] \in terminalStep THEN 0
  ELSE CHOOSE i \in Automated : states[i] \notin terminalStep

\* Index of the first non-terminal step, or 0.
FirstOpen(states, i) ==
  states[i] \notin terminalStep /\ \A j \in 1..(i - 1) : states[j] \in terminalStep

firstActionable(states) ==
  IF \E i \in Step : FirstOpen(states, i) THEN CHOOSE i \in Step : FirstOpen(states, i) ELSE 0

\* Any failed step fails the run; all completed or skipped completes it.
DeriveExecStatus(states) ==
  CASE \E i \in Step : states[i] = "failed" -> "failed"
    [] \A i \in Step : states[i] \in {"completed", "skipped"} -> "completed"
    [] OTHER -> "running"

\* ApplyStepResult on a copy of the row, and the status derived from it.
ApplyStepResult(r, i, s) ==
  LET states == [r.states EXCEPT ![i] = s]
  IN  [status |-> DeriveExecStatus(states), states |-> states]

\* UpsertExecution: the copy becomes the latest version.
UpsertExecution(r) ==
  /\ row' = r
  /\ settled' = settled \union {i \in Step : r.states[i] \in terminalStep}

\* StartExecution: the steps are snapshotted, all pending.
FreshRow == [status |-> "running", states |-> [i \in Step |-> "pending"]]
At(pc) == [pc |-> pc, step |-> 0, copy |-> FreshRow, result |-> "pending"]

-----------------------------------------------------------------------------
Init ==
  /\ row = FreshRow
  /\ claim = NoAgent
  /\ agent = [a \in Agent |-> At("idle")]
  /\ request = [o \in Operator |-> At("new")]
  /\ unclaimed = {}
  /\ ran = [i \in Step |-> 0]
  /\ settled = {}

-----------------------------------------------------------------------------
(* tick and runStep of agent a.                                            *)

\* The poll: running executions whose current step is the agent's to run and
\* not already running.  What it saw is not read again before the claim.
List(a) ==
  /\ agent[a].pc = "idle"
  /\ row.status = "running"
  /\ LET i == firstActionable(row.states)
     IN  /\ i \in Automated /\ row.states[i] # "running"
         /\ agent' = [agent EXCEPT ![a] = [At("claim") EXCEPT !.step = i]]
  /\ UNCHANGED <<row, claim, request, unclaimed, ran, settled>>

\* TryAcquire: the free lock is taken; another owner or an error, which may
\* have left the token in Redis, skips the run.  An agent that booted without
\* Redis is granted every claim until its re-probe finds Redis.
Claim(a) ==
  /\ agent[a].pc = "claim"
  /\ \/ /\ claim = NoAgent
        /\ claim' = a
        /\ agent' = [agent EXCEPT ![a] = [agent[a] EXCEPT !.pc = "markRead"]]
        /\ UNCHANGED unclaimed
     \/ /\ claim # NoAgent \/ Faults
        /\ claim' \in {claim} \union {c \in {a} : claim = NoAgent}
        /\ agent' = [agent EXCEPT ![a] = At("idle")]
        /\ UNCHANGED unclaimed
     \/ /\ a \in NoRedis
        /\ agent' = [agent EXCEPT ![a] = [agent[a] EXCEPT !.pc = "markRead"]]
        /\ unclaimed' = unclaimed \union {a}
        /\ UNCHANGED claim
  /\ UNCHANGED <<row, request, ran, settled>>

\* Mark running: read; on an error the step is executed unmarked.
MarkRead(a) ==
  /\ agent[a].pc = "markRead"
  /\ \/ agent' = [agent EXCEPT ![a] = [agent[a] EXCEPT !.pc = "markWrite", !.copy = row]]
     \/ Faults /\ agent' = [agent EXCEPT ![a] = [agent[a] EXCEPT !.pc = "execute"]]
  /\ UNCHANGED <<row, claim, request, unclaimed, ran, settled>>

\* Mark running: write the copy with the step running; an error is ignored.
MarkWrite(a) ==
  /\ agent[a].pc = "markWrite"
  /\ \/ UpsertExecution([agent[a].copy EXCEPT !.states[agent[a].step] = "running"])
     \/ Faults /\ UNCHANGED <<row, settled>>
  /\ agent' = [agent EXCEPT ![a] = [agent[a] EXCEPT !.pc = "execute", !.copy = FreshRow]]
  /\ UNCHANGED <<claim, request, unclaimed, ran>>

\* The step's side effects happen; it succeeds or fails.
Execute(a) ==
  /\ agent[a].pc = "execute"
  /\ ran[agent[a].step] < MaxRuns
  /\ ran' = [ran EXCEPT ![agent[a].step] = @ + 1]
  /\ \E res \in {"completed", "failed"} :
       agent' = [agent EXCEPT ![a] = [agent[a] EXCEPT !.pc = "resultRead", !.result = res]]
  /\ UNCHANGED <<row, claim, request, unclaimed, settled>>

\* Read the row again; a cancelled run, or an error, drops the result.
ResultRead(a) ==
  /\ agent[a].pc = "resultRead"
  /\ \/ /\ row.status # "cancelled"
        /\ agent' = [agent EXCEPT ![a] = [agent[a] EXCEPT !.pc = "resultWrite", !.copy = row]]
     \/ /\ row.status = "cancelled" \/ Faults
        /\ agent' = [agent EXCEPT ![a] = At("release")]
  /\ UNCHANGED <<row, claim, request, unclaimed, ran, settled>>

ResultWrite(a) ==
  /\ agent[a].pc = "resultWrite"
  /\ \/ UpsertExecution(ApplyStepResult(agent[a].copy, agent[a].step, agent[a].result))
     \/ Faults /\ UNCHANGED <<row, settled>>
  /\ agent' = [agent EXCEPT ![a] = At("release")]
  /\ UNCHANGED <<claim, request, unclaimed, ran>>

\* Mutant: a blind DEL.
ReleaseBlind(a) ==
  /\ agent[a].pc = "release"
  /\ claim' = NoAgent
  /\ agent' = [agent EXCEPT ![a] = At("idle")]
  /\ unclaimed' = unclaimed \ {a}
  /\ UNCHANGED <<row, request, ran, settled>>

\* Release deletes the lock only while the agent's own token is under it.
Release(a) ==
  /\ agent[a].pc = "release"
  /\ claim' = IF claim = a /\ a \notin unclaimed THEN NoAgent ELSE claim
  /\ agent' = [agent EXCEPT ![a] = At("idle")]
  /\ unclaimed' = unclaimed \ {a}
  /\ UNCHANGED <<row, request, ran, settled>>

\* The pod dies at any point and comes back; its claim stays.
Crash(a) ==
  /\ Faults /\ agent[a].pc # "idle"
  /\ agent' = [agent EXCEPT ![a] = At("idle")]
  /\ unclaimed' = unclaimed \ {a}
  /\ UNCHANGED <<row, claim, request, ran, settled>>

\* The claim's TTL runs out: under a token nobody knows any more, or, since
\* nothing refreshes it, under an agent whose step took five minutes.
ClaimExpires ==
  /\ claim # NoAgent
  /\ SlowSteps \/ agent[claim].pc \in {"idle", "claim"} \/ claim \in unclaimed
  /\ claim' = NoAgent
  /\ unclaimed' = unclaimed \union {a \in {claim} : agent[a].pc \notin {"idle", "claim"}}
  /\ UNCHANGED <<row, agent, request, ran, settled>>

-----------------------------------------------------------------------------
(* The API handlers.                                                       *)

\* execStepAction reads the row and refuses a finished run.
TickRead(o) ==
  /\ request[o].pc = "new"
  /\ \E i \in Step, s \in terminalStep :
       request' = [request EXCEPT ![o] =
         IF row.status = "running"
         THEN [pc |-> "tickWrite", step |-> i, copy |-> row, result |-> s]
         ELSE At("done")]
  /\ UNCHANGED <<row, claim, agent, unclaimed, ran, settled>>

TickWrite(o) ==
  /\ request[o].pc = "tickWrite"
  /\ \/ UpsertExecution(ApplyStepResult(request[o].copy, request[o].step, request[o].result))
     \/ Faults /\ UNCHANGED <<row, settled>>
  /\ request' = [request EXCEPT ![o] = At("done")]
  /\ UNCHANGED <<claim, agent, unclaimed, ran>>

CancelRead(o) ==
  /\ request[o].pc = "new"
  /\ request' = [request EXCEPT ![o] = [At("cancelWrite") EXCEPT !.copy = row]]
  /\ UNCHANGED <<row, claim, agent, unclaimed, ran, settled>>

\* Mutant: open steps are cancelled too, a status no reader knows.
CancelWriteSteps(o) ==
  /\ request[o].pc = "cancelWrite"
  /\ UpsertExecution([status |-> "cancelled", states |-> [i \in Step |->
       IF request[o].copy.states[i] \in terminalStep THEN request[o].copy.states[i]
       ELSE "cancelled"]])
  /\ request' = [request EXCEPT ![o] = At("done")]
  /\ UNCHANGED <<claim, agent, unclaimed, ran>>

CancelWrite(o) ==
  /\ request[o].pc = "cancelWrite"
  /\ \/ UpsertExecution([request[o].copy EXCEPT !.status = "cancelled"])
     \/ Faults /\ UNCHANGED <<row, settled>>
  /\ request' = [request EXCEPT ![o] = At("done")]
  /\ UNCHANGED <<claim, agent, unclaimed, ran>>

-----------------------------------------------------------------------------
Next ==
  \/ \E a \in Agent : \/ List(a) \/ Claim(a) \/ MarkRead(a) \/ MarkWrite(a) \/ Execute(a)
                       \/ ResultRead(a) \/ ResultWrite(a) \/ Release(a) \/ Crash(a)
  \/ ClaimExpires
  \/ \E o \in Operator : TickRead(o) \/ TickWrite(o) \/ CancelRead(o) \/ CancelWrite(o)

Spec == Init /\ [][Next]_vars

-----------------------------------------------------------------------------
Control == [pc : {"idle", "claim", "markRead", "markWrite", "execute", "resultRead",
                  "resultWrite", "release", "new", "tickWrite", "cancelWrite", "done"},
            step : 0..Last, copy : Row, result : StepStatus]

TypeOK ==
  /\ row \in Row
  /\ claim \in Agent \union {NoAgent}
  /\ agent \in [Agent -> Control] /\ request \in [Operator -> Control]
  /\ unclaimed \subseteq Agent
  /\ ran \in [Step -> 0..MaxRuns]
  /\ settled \subseteq Step

\* Steps run in order: whatever agents, operators and crashes do, a step is
\* executed only after every earlier step had reached a terminal status, so
\* an automated step never overtakes a manual one.
OrderRespected == \A i \in Step : ran[i] > 0 => \A j \in 1..(i - 1) : j \in settled

\* The claim keeps agents apart: two agents are inside runStep of the run at
\* once only if the claim of one of them ran out under it or came from the
\* fallback lock; crashes, lost answers and the late release of an agent that
\* overstayed its claim never let a second one in.
Inside(a) == agent[a].pc \in {"markRead", "markWrite", "execute", "resultRead", "resultWrite"}
NoConcurrentRun ==
  \A a, b \in Agent \ unclaimed : Inside(a) /\ Inside(b) => a = b

\* Why: an agent inside runStep, or about to release, still has the claim
\* unless it ran out, and only such agents are without it; ...
ClaimHeld ==
  \A a \in Agent : Inside(a) \/ agent[a].pc = "release" => claim = a \/ a \in unclaimed

\* ... and an agent's step was the first open one of a version it read.
SeenSettled ==
  /\ \A i \in Step : row.states[i] \in terminalStep => i \in settled
  /\ \A a \in Agent : Inside(a) \/ agent[a].pc = "claim"
       => /\ agent[a].step \in Step
          /\ \A j \in 1..(agent[a].step - 1) : j \in settled

RunInv == TypeOK /\ ClaimHeld /\ SeenSettled /\ OrderRespected

\* An automated step is executed by one agent pod only, once.
NoDoubleRun == \A i \in Step : ran[i] <= 1

\* Agents share the work of different runs, never that of one run: two steps of
\* a run are not executed at the same time.
OneStepAtATime ==
  \A a, b \in Agent :
    agent[a].pc = "execute" /\ agent[b].pc = "execute" => agent[a].step = agent[b].step

\* A cancelled run is not resurrected.
NoResurrection == [][row.status = "cancelled" => row'.status = "cancelled"]_vars
=============================================================================
