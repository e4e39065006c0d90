-------------------------- MODULE RunbookRunProofs --------------------------
(***************************************************************************)
(* Proofs about RunbookRun for any number of agents, operator requests and *)
(* steps: steps run in order, and the claim keeps agents apart.            *)
(***************************************************************************)
EXTENDS RunbookRun, TLAPS

\* Writing a row keeps its type, and settles what is terminal in it.
LEMMA UpsertSettles ==
  ASSUME TypeOK, SeenSettled, NEW r \in Row, UpsertExecution(r)
  PROVE  /\ row' \in Row /\ settled' \subseteq Step /\ settled \subseteq settled'
         /\ \A i \in Step : row'.states[i] \in terminalStep => i \in settled'
  BY DEF UpsertExecution, TypeOK

\* A row with one step's status replaced is a row.
LEMMA RowWithStep ==
  ASSUME NEW r \in Row, NEW i, NEW s \in StepStatus, NEW e \in ExecStatus
  PROVE  /\ [r EXCEPT !.states[i] = s] \in Row
         /\ [status |-> e, states |-> [r.states EXCEPT ![i] = s]] \in Row
  BY DEF Row

LEMMA DerivedStatus ==
  ASSUME NEW states
  PROVE  DeriveExecStatus(states) \in ExecStatus
  BY DEF DeriveExecStatus, ExecStatus

LEMMA AppliedRow ==
  ASSUME NEW r \in Row, NEW i, NEW s \in StepStatus
  PROVE  ApplyStepResult(r, i, s) \in Row
  BY RowWithStep, DerivedStatus DEF ApplyStepResult

\* A goroutine at rest has the type of any other.
LEMMA AtType ==
  ASSUME NEW pc \in {"idle", "claim", "release", "new", "done", "cancelWrite"}
  PROVE  /\ At(pc) \in Control /\ At(pc).pc = pc
         /\ At(pc).step = 0
         /\ FreshRow \in Row
  <1>1. FreshRow \in Row
    BY DEF FreshRow, Row, StepStatus, ExecStatus
  <1> QED
    BY <1>1, RunbookAssumption DEF At, Control, StepStatus

\* What List returns is the first open step: all before it are terminal.
LEMMA FirstActionable ==
  ASSUME NEW states, firstActionable(states) \in Step
  PROVE  \A j \in 1..(firstActionable(states) - 1) : states[j] \in terminalStep
  <1>1. \E i \in Step : FirstOpen(states, i)
    BY RunbookAssumption DEF firstActionable, Step
  <1>2. FirstOpen(states, firstActionable(states))
    BY <1>1 DEF firstActionable
  <1> QED
    BY <1>2 DEF FirstOpen

LEMMA InitRun == Init => RunInv
  <1> SUFFICES ASSUME Init PROVE RunInv
    OBVIOUS
  <1>1. FreshRow \in Row
    BY AtType
  <1>2. TypeOK
    BY <1>1, AtType, RunbookAssumption DEF Init, TypeOK
  <1>3. \A a \in Agent : agent[a].pc = "idle"
    BY AtType DEF Init
  <1>4. ClaimHeld /\ SeenSettled
    BY <1>3 DEF Init, ClaimHeld, SeenSettled, Inside, FreshRow, terminalStep
  <1>5. OrderRespected
    BY DEF Init, OrderRespected
  <1> QED
    BY <1>2, <1>4, <1>5 DEF RunInv

\* An agent's step that leaves the row alone.
LEMMA AgentMoves ==
  ASSUME RunInv, NEW a \in Agent, NEW c \in Control,
         agent' = [agent EXCEPT ![a] = c],
         UNCHANGED <<row, request, ran, settled>>,
         claim' \in Agent \union {NoAgent}, unclaimed' \subseteq Agent,
         c.pc \in {"claim", "markRead", "markWrite", "execute", "resultRead", "resultWrite"}
           => /\ c.step \in Step
              /\ \A j \in 1..(c.step - 1) : j \in settled,
         c.pc \in {"markRead", "markWrite", "execute", "resultRead", "resultWrite", "release"}
           => claim' = a \/ a \in unclaimed',
         \A b \in Agent \ {a} : /\ claim = b => claim' = b
                                /\ b \in unclaimed => b \in unclaimed'
  PROVE  RunInv'
  <1>1. \A b \in Agent : agent'[b] = IF b = a THEN c ELSE agent[b]
    BY DEF RunInv, TypeOK
  <1>2. TypeOK'
    BY DEF RunInv, TypeOK
  <1>3. ClaimHeld'
    <2> SUFFICES ASSUME NEW b \in Agent, Inside(b)' \/ agent'[b].pc = "release"
                 PROVE  claim' = b \/ b \in unclaimed'
      BY DEF ClaimHeld
    <2>1. CASE b = a
      BY <1>1, <2>1 DEF Inside
    <2>2. CASE b # a
      <3>1. Inside(b) \/ agent[b].pc = "release"
        BY <1>1, <2>2 DEF Inside
      <3> QED
        BY <2>2, <3>1 DEF RunInv, ClaimHeld
    <2> QED
      BY <2>1, <2>2
  <1>4. SeenSettled'
    BY <1>1 DEF RunInv, SeenSettled, Inside
  <1>5. OrderRespected'
    BY DEF RunInv, OrderRespected
  <1> QED
    BY <1>2, <1>3, <1>4, <1>5 DEF RunInv

\* An agent's step that writes row r.
LEMMA AgentWrites ==
  ASSUME RunInv, NEW a \in Agent, NEW c \in Control, NEW r \in Row,
         UpsertExecution(r),
         agent' = [agent EXCEPT ![a] = c],
         UNCHANGED <<claim, request, unclaimed, ran>>,
         Inside(a),
         c.pc \in {"execute", "release"}, c.pc = "execute" => c.step = agent[a].step
  PROVE  RunInv'
  <1>1. \A b \in Agent : agent'[b] = IF b = a THEN c ELSE agent[b]
    BY DEF RunInv, TypeOK
  <1>2. /\ row' \in Row /\ settled' \subseteq Step /\ settled \subseteq settled'
        /\ \A i \in Step : row'.states[i] \in terminalStep => i \in settled'
    BY UpsertSettles DEF RunInv
  <1>3. TypeOK'
    BY <1>2 DEF RunInv, TypeOK
  <1>4. ClaimHeld'
    BY <1>1 DEF RunInv, ClaimHeld, Inside
  <1>5. SeenSettled'
    BY <1>1, <1>2 DEF RunInv, SeenSettled, Inside
  <1>6. OrderRespected'
    BY <1>2 DEF RunInv, OrderRespected
  <1> QED
    BY <1>3, <1>4, <1>5, <1>6 DEF RunInv

\* An operator's request, whether it writes or not.
LEMMA RequestMoves ==
  ASSUME RunInv, NEW o \in Operator, NEW c \in Control,
         request' = [request EXCEPT ![o] = c],
         UNCHANGED <<claim, agent, unclaimed, ran>>,
         UNCHANGED <<row, settled>> \/ \E r \in Row : UpsertExecution(r)
  PROVE  RunInv'
  <1>1. /\ row' \in Row /\ settled' \subseteq Step /\ settled \subseteq settled'
        /\ \A i \in Step : row'.states[i] \in terminalStep => i \in settled'
    <2>1. CASE UNCHANGED <<row, settled>>
      BY <2>1 DEF RunInv, TypeOK, SeenSettled
    <2>2. CASE \E r \in Row : UpsertExecution(r)
      BY <2>2, UpsertSettles DEF RunInv
    <2> QED
      BY <2>1, <2>2
  <1>2. TypeOK'
    BY <1>1 DEF RunInv, TypeOK
  <1>3. ClaimHeld'
    BY DEF RunInv, ClaimHeld, Inside
  <1>4. SeenSettled'
    BY <1>1 DEF RunInv, SeenSettled, Inside
  <1>5. OrderRespected'
    BY <1>1 DEF RunInv, OrderRespected
  <1> QED
    BY <1>2, <1>3, <1>4, <1>5 DEF RunInv

LEMMA ExecuteStep ==
  ASSUME RunInv, NEW a \in Agent, Execute(a)
  PROVE  RunInv'
  <1>1. PICK res \in {"completed", "failed"} :
          agent' = [agent EXCEPT ![a] = [agent[a] EXCEPT !.pc = "resultRead", !.result = res]]
    BY DEF Execute
  <1> DEFINE c == [agent[a] EXCEPT !.pc = "resultRead", !.result = res]
  <1>2. c \in Control /\ c.pc = "resultRead" /\ c.step = agent[a].step
    BY DEF RunInv, TypeOK, Control, StepStatus, terminalStep
  <1> HIDE DEF c
  <1>3. agent' = [agent EXCEPT ![a] = c]
    BY <1>1 DEF c
  <1>4. \A b \in Agent : agent'[b] = IF b = a THEN c ELSE agent[b]
    BY <1>3 DEF RunInv, TypeOK
  <1>5. /\ agent[a].step \in Step
        /\ \A j \in 1..(agent[a].step - 1) : j \in settled
        /\ Inside(a)
    BY DEF Execute, RunInv, SeenSettled, Inside
  <1>6. /\ UNCHANGED <<row, claim, request, unclaimed, settled>>
        /\ ran[agent[a].step] < MaxRuns
        /\ ran' = [ran EXCEPT ![agent[a].step] = ran[agent[a].step] + 1]
    BY DEF Execute
  <1>7. ran' \in [Step -> 0..MaxRuns]
    BY <1>5, <1>6, RunbookAssumption DEF RunInv, TypeOK
  <1>8. TypeOK'
    BY <1>2, <1>3, <1>6, <1>7 DEF RunInv, TypeOK
  <1>9. ClaimHeld'
    BY <1>2, <1>4, <1>5, <1>6 DEF RunInv, ClaimHeld, Inside
  <1>10. SeenSettled'
    BY <1>2, <1>4, <1>5, <1>6 DEF RunInv, SeenSettled, Inside
  <1>11. OrderRespected'
    <2>1. \A i \in Step : i # agent[a].step => ran'[i] = ran[i]
      BY <1>6 DEF RunInv, TypeOK
    <2> QED
      BY <1>5, <1>6, <2>1 DEF RunInv, OrderRespected
  <1> QED
    BY <1>8, <1>9, <1>10, <1>11 DEF RunInv

\* The steps of an agent that leave the row alone.
LEMMA QuietAgentStep ==
  ASSUME RunInv, NEW a \in Agent,
         \/ List(a) \/ Claim(a) \/ MarkRead(a) \/ ResultRead(a) \/ Release(a) \/ Crash(a)
  PROVE  RunInv'
  <1> USE DEF Inside
  <1>1. /\ agent[a] \in Control /\ row \in Row /\ claim \in Agent \union {NoAgent}
        /\ NoAgent \notin Agent
    BY RunbookAssumption DEF RunInv, TypeOK
  <1>2. /\ Inside(a) \/ agent[a].pc = "claim"
             => /\ agent[a].step \in Step
                /\ \A j \in 1..(agent[a].step - 1) : j \in settled
        /\ Inside(a) \/ agent[a].pc = "release" => claim = a \/ a \in unclaimed
        /\ unclaimed \subseteq Agent
    BY DEF RunInv, TypeOK, SeenSettled, ClaimHeld
  <1>3. CASE List(a)
    <2> DEFINE i == firstActionable(row.states)
               c == [At("claim") EXCEPT !.step = i]
    <2>1. /\ i \in Step
          /\ agent' = [agent EXCEPT ![a] = c]
          /\ UNCHANGED <<row, claim, request, unclaimed, ran, settled>>
      BY <1>3, RunbookAssumption DEF List, Step
    <2>2. \A j \in 1..(i - 1) : j \in settled
      <3>1. \A j \in 1..(i - 1) : row.states[j] \in terminalStep
        BY <2>1, FirstActionable
      <3>2. \A j \in 1..(i - 1) : j \in Step
        BY <2>1, RunbookAssumption DEF Step
      <3> QED
        BY <3>1, <3>2 DEF RunInv, SeenSettled
    <2>3. At("claim") \in Control
      BY AtType
    <2>4. c \in Control /\ c.pc = "claim" /\ c.step = i
      BY <2>1, <2>3, AtType, RunbookAssumption DEF Control, Step
    <2> HIDE DEF c, i
    <2> QED
      BY <1>1, <1>2, <2>1, <2>2, <2>4, AgentMoves
  <1>4. CASE Claim(a)
    <2>1. UNCHANGED <<row, request, ran, settled>> /\ agent[a].pc = "claim"
      BY <1>4 DEF Claim
    <2>2. CASE /\ \/ claim = NoAgent /\ claim' = a /\ unclaimed' = unclaimed
                  \/ claim' = claim /\ unclaimed' = unclaimed \union {a}
               /\ agent' = [agent EXCEPT ![a] = [agent[a] EXCEPT !.pc = "markRead"]]
      <3> DEFINE c == [agent[a] EXCEPT !.pc = "markRead"]
      <3>1. c \in Control /\ c.pc = "markRead" /\ c.step = agent[a].step
        BY <1>1 DEF Control
      <3>2. agent' = [agent EXCEPT ![a] = c]
        BY <2>2
      <3> HIDE DEF c
      <3>3. /\ claim' \in Agent \union {NoAgent} /\ unclaimed' \subseteq Agent
            /\ claim' = a \/ a \in unclaimed'
            /\ \A b \in Agent \ {a} : /\ claim = b => claim' = b
                                      /\ b \in unclaimed => b \in unclaimed'
        BY <1>1, <1>2, <2>2
      <3> QED
        BY <1>2, <2>1, <3>1, <3>2, <3>3, AgentMoves
    <2>3. CASE /\ claim' \in {claim} \union {c \in {a} : claim = NoAgent}
               /\ agent' = [agent EXCEPT ![a] = At("idle")] /\ UNCHANGED unclaimed
      BY <1>1, <1>2, <2>1, <2>3, AtType, AgentMoves
    <2> QED
      BY <1>4, <2>2, <2>3 DEF Claim
  <1>5. CASE MarkRead(a)
    <2>1. PICK c : /\ c \in Control /\ c.step = agent[a].step
                   /\ c.pc \in {"markWrite", "execute"}
                   /\ agent' = [agent EXCEPT ![a] = c]
      <3>1. CASE agent' = [agent EXCEPT ![a] = [agent[a] EXCEPT !.pc = "markWrite", !.copy = row]]
        <4> DEFINE d == [agent[a] EXCEPT !.pc = "markWrite", !.copy = row]
        <4>1. d \in Control /\ d.step = agent[a].step /\ d.pc = "markWrite"
          BY <1>1 DEF Control
        <4> QED
          BY <3>1, <4>1
      <3>2. CASE agent' = [agent EXCEPT ![a] = [agent[a] EXCEPT !.pc = "execute"]]
        <4> DEFINE d == [agent[a] EXCEPT !.pc = "execute"]
        <4>1. d \in Control /\ d.step = agent[a].step /\ d.pc = "execute"
          BY <1>1 DEF Control
        <4> QED
          BY <3>2, <4>1
      <3> QED
        BY <1>5, <3>1, <3>2 DEF MarkRead
    <2>2. UNCHANGED <<row, claim, request, unclaimed, ran, settled>> /\ agent[a].pc = "markRead"
      BY <1>5 DEF MarkRead
    <2> QED
      BY <1>1, <1>2, <2>1, <2>2, AgentMoves
  <1>6. CASE ResultRead(a)
    <2>1. UNCHANGED <<row, claim, request, unclaimed, ran, settled>> /\ agent[a].pc = "resultRead"
      BY <1>6 DEF ResultRead
    <2>2. CASE agent' = [agent EXCEPT ![a] = [agent[a] EXCEPT !.pc = "resultWrite", !.copy = row]]
      <3> DEFINE d == [agent[a] EXCEPT !.pc = "resultWrite", !.copy = row]
      <3>1. d \in Control /\ d.step = agent[a].step /\ d.pc = "resultWrite"
        BY <1>1 DEF Control
      <3>2. agent' = [agent EXCEPT ![a] = d]
        BY <2>2
      <3> HIDE DEF d
      <3> QED
        BY <1>1, <1>2, <2>1, <3>1, <3>2, AgentMoves
    <2>3. CASE agent' = [agent EXCEPT ![a] = At("release")]
      BY <1>1, <1>2, <2>1, <2>3, AtType, AgentMoves
    <2> QED
      BY <1>6, <2>2, <2>3 DEF ResultRead
  <1>7. CASE Release(a)
    <2>1. /\ agent' = [agent EXCEPT ![a] = At("idle")]
          /\ claim' = IF claim = a /\ a \notin unclaimed THEN NoAgent ELSE claim
          /\ unclaimed' = unclaimed \ {a}
          /\ UNCHANGED <<row, request, ran, settled>>
      BY <1>7 DEF Release
    <2> QED
      BY <1>1, <1>2, <2>1, AtType, AgentMoves
  <1>8. CASE Crash(a)
    <2>1. /\ agent' = [agent EXCEPT ![a] = At("idle")] /\ unclaimed' = unclaimed \ {a}
          /\ UNCHANGED <<row, claim, request, ran, settled>>
      BY <1>8 DEF Crash
    <2> QED
      BY <1>1, <1>2, <2>1, AtType, AgentMoves
  <1> QED
    BY <1>3, <1>4, <1>5, <1>6, <1>7, <1>8

\* The two steps of an agent that write the row.
LEMMA WritingAgentStep ==
  ASSUME RunInv, NEW a \in Agent, MarkWrite(a) \/ ResultWrite(a)
  PROVE  RunInv'
  <1>1. agent[a] \in Control /\ agent[a].copy \in Row /\ claim \in Agent \union {NoAgent}
    BY DEF RunInv, TypeOK, Control
  <1>2. /\ Inside(a)
        /\ agent[a].step \in Step
        /\ \A j \in 1..(agent[a].step - 1) : j \in settled
        /\ claim = a \/ a \in unclaimed
        /\ unclaimed \subseteq Agent
        /\ UNCHANGED <<claim, request, unclaimed, ran>>
    BY DEF MarkWrite, ResultWrite, RunInv, TypeOK, SeenSettled, ClaimHeld, Inside
  <1>3. PICK c \in Control :
          /\ agent' = [agent EXCEPT ![a] = c]
          /\ c.pc \in {"execute", "release"} /\ (c.pc = "execute" => c.step = agent[a].step)
    <2>1. CASE MarkWrite(a)
      <3> DEFINE d == [agent[a] EXCEPT !.pc = "execute", !.copy = FreshRow]
      <3>1. d \in Control /\ d.step = agent[a].step /\ d.pc = "execute"
        BY <1>1, AtType DEF Control
      <3> QED
        BY <2>1, <3>1 DEF MarkWrite
    <2>2. CASE ResultWrite(a)
      BY <2>2, AtType DEF ResultWrite
    <2> QED
      BY <2>1, <2>2
  <1>4. UNCHANGED <<row, settled>> \/ \E r \in Row : UpsertExecution(r)
    <2>1. [agent[a].copy EXCEPT !.states[agent[a].step] = "running"] \in Row
      <3>1. "running" \in StepStatus /\ "running" \in ExecStatus
        BY DEF StepStatus, ExecStatus
      <3> QED
        BY <1>1, <3>1, RowWithStep
    <2>2. ApplyStepResult(agent[a].copy, agent[a].step, agent[a].result) \in Row
      <3>1. agent[a].result \in StepStatus
        BY <1>1 DEF Control
      <3> QED
        BY <1>1, <3>1, AppliedRow
    <2> QED
      BY <2>1, <2>2 DEF MarkWrite, ResultWrite
  <1>5. CASE UNCHANGED <<row, settled>>
    BY <1>1, <1>2, <1>3, <1>5, AgentMoves
  <1>6. CASE \E r \in Row : UpsertExecution(r)
    BY <1>2, <1>3, <1>6, AgentWrites
  <1> QED
    BY <1>4, <1>5, <1>6

LEMMA RequestStep ==
  ASSUME RunInv, NEW o \in Operator,
         TickRead(o) \/ TickWrite(o) \/ CancelRead(o) \/ CancelWrite(o)
  PROVE  RunInv'
  <1>1. request[o] \in Control /\ request[o].copy \in Row /\ request[o].result \in StepStatus
        /\ row \in Row
    BY DEF RunInv, TypeOK, Control
  <1>2. UNCHANGED <<claim, agent, unclaimed, ran>>
    BY DEF TickRead, TickWrite, CancelRead, CancelWrite
  <1>3. CASE TickRead(o)
    <2>1. PICK i \in Step, s \in terminalStep :
            request' = [request EXCEPT ![o] =
              IF row.status = "running"
              THEN [pc |-> "tickWrite", step |-> i, copy |-> row, result |-> s]
              ELSE At("done")]
      BY <1>3 DEF TickRead
    <2>2. [pc |-> "tickWrite", step |-> i, copy |-> row, result |-> s] \in Control
      BY <1>1, RunbookAssumption DEF Control, StepStatus, Step
    <2>3. PICK c \in Control : request' = [request EXCEPT ![o] = c]
      BY <2>1, <2>2, AtType
    <2>4. UNCHANGED <<row, settled>>
      BY <1>3 DEF TickRead
    <2> QED
      BY <1>2, <2>3, <2>4, RequestMoves
  <1>4. CASE TickWrite(o)
    <2>1. ApplyStepResult(request[o].copy, request[o].step, request[o].result) \in Row
      BY <1>1, AppliedRow
    <2>2. request' = [request EXCEPT ![o] = At("done")]
          /\ (UNCHANGED <<row, settled>> \/ \E r \in Row : UpsertExecution(r))
      BY <1>4, <2>1 DEF TickWrite
    <2> QED
      BY <1>2, <2>2, AtType, RequestMoves
  <1>5. CASE CancelRead(o)
    <2> DEFINE c == [At("cancelWrite") EXCEPT !.copy = row]
    <2>1. c \in Control
      BY <1>1, AtType DEF Control
    <2>2. request' = [request EXCEPT ![o] = c] /\ UNCHANGED <<row, settled>>
      BY <1>5 DEF CancelRead
    <2> HIDE DEF c
    <2> QED
      BY <1>2, <2>1, <2>2, RequestMoves
  <1>6. CASE CancelWrite(o)
    <2>1. [request[o].copy EXCEPT !.status = "cancelled"] \in Row
      BY <1>1 DEF Row, ExecStatus
    <2>2. request' = [request EXCEPT ![o] = At("done")]
          /\ (UNCHANGED <<row, settled>> \/ \E r \in Row : UpsertExecution(r))
      BY <1>6, <2>1 DEF CancelWrite
    <2> QED
      BY <1>2, <2>2, AtType, RequestMoves
  <1> QED
    BY <1>3, <1>4, <1>5, <1>6

\* The claim runs out; an agent inside runStep goes on without it.
LEMMA ExpiryStep ==
  ASSUME RunInv, ClaimExpires
  PROVE  RunInv'
  <1>1. /\ claim \in Agent /\ claim' = NoAgent
        /\ unclaimed' = unclaimed \union {a \in {claim} : agent[a].pc \notin {"idle", "claim"}}
        /\ UNCHANGED <<row, agent, request, ran, settled>>
    BY DEF ClaimExpires, RunInv, TypeOK
  <1>2. TypeOK' /\ SeenSettled' /\ OrderRespected'
    BY <1>1 DEF RunInv, TypeOK, SeenSettled, OrderRespected, Inside
  <1>3. ClaimHeld'
    BY <1>1 DEF RunInv, ClaimHeld, Inside
  <1> QED
    BY <1>2, <1>3 DEF RunInv

LEMMA NextRun == RunInv /\ [Next]_vars => RunInv'
  <1> SUFFICES ASSUME RunInv, [Next]_vars PROVE RunInv'
    OBVIOUS
  <1>1. ASSUME NEW a \in Agent,
               \/ List(a) \/ Claim(a) \/ MarkRead(a) \/ MarkWrite(a) \/ Execute(a)
               \/ ResultRead(a) \/ ResultWrite(a) \/ Release(a) \/ Crash(a)
        PROVE  RunInv'
    BY <1>1, QuietAgentStep, WritingAgentStep, ExecuteStep
  <1>2. CASE UNCHANGED vars
    BY <1>2 DEF vars, RunInv, TypeOK, ClaimHeld, SeenSettled, OrderRespected, Inside
  <1> QED
    BY <1>1, <1>2, RequestStep, ExpiryStep DEF Next

\* The inductive invariant of the run: an agent inside runStep holds the
\* claim or has lost it to its TTL, and works on a step all of whose
\* predecessors have settled.
THEOREM RunbookInvariant == Spec => []RunInv
  BY InitRun, NextRun, PTL DEF Spec

\* Types: copies and rows stay rows of the run, whoever writes them.
THEOREM RunbookTypeOK == Spec => []TypeOK
  <1>1. RunInv => TypeOK
    BY DEF RunInv
  <1> QED
    BY <1>1, RunbookInvariant, PTL

\* Steps run in order, for every number of agents, requests and steps: no
\* automated step overtakes an earlier one that has not settled.
THEOREM RunbookOrder == Spec => []OrderRespected
  <1>1. RunInv => OrderRespected
    BY DEF RunInv
  <1> QED
    BY <1>1, RunbookInvariant, PTL

\* The claim keeps agents out of runStep of the same run, also when steps
\* outlive it, agents crash and answers are lost: of two agents inside, one
\* has overstayed its claim or got it from the fallback lock.
THEOREM RunbookClaim == Spec => []NoConcurrentRun
  <1>1. RunInv => NoConcurrentRun
    BY DEF RunInv, ClaimHeld, NoConcurrentRun
  <1> QED
    BY <1>1, RunbookInvariant, PTL
=============================================================================
