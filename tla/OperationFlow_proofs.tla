------------------------ MODULE OperationFlow_proofs ------------------------
(* Conversations that race over an order: the type invariant, the inductive  *)
(* invariants behind OneActivePerOrder, TruthfulAnswers and                  *)
(* ReviewHandedOver, and that every step is one of the command lifecycle.    *)
EXTENDS OperationFlow, CommandLifecycle_proofs

Run == [node : Nodes, step : Steps, tries : Nat, seen : Nat, operation_id : Operations,
        operation_status : OperationRecordStatus \cup {"absent"}, reasons : BOOLEAN,
        support_case_id : CaseIds \cup {NoCase}, marked : BOOLEAN, persisted : BOOLEAN,
        told : Answers]

RowType == [requires_manual_review : BOOLEAN, support_case_id : CaseIds \cup {NoCase},
            version : Nat]

-----------------------------------------------------------------------------
(* Types. *)

LEMMA CommandsAreOperations == Commands = Operations
BY MessagesTyped DEF Commands

(* What the helpers make of a run. *)
LEMMA RunHelpers ==
  ASSUME NEW r \in Run, NEW node \in Nodes
  PROVE  /\ Enter(r, node) \in Run /\ Raise(r) \in Run
         /\ Enter(r, node).node = node /\ Enter(r, node).step = "read"
         /\ Enter(r, node).told = r.told /\ Enter(r, node).operation_id = r.operation_id
         /\ Raise(r).node = r.node /\ Raise(r).step = "failed"
         /\ Raise(r).told = r.told /\ Raise(r).operation_id = r.operation_id
BY Zenon DEF Enter, Raise, Run, Steps

LEMMA FreshRunType ==
  ASSUME NEW m \in Operations
  PROVE  FreshRun(m) \in Run /\ FreshRun(m).told = "nothing"
<1>1. FreshRun(m).told = "nothing"
  BY DEF FreshRun
<1> QED
  BY <1>1 DEF FreshRun, Run, Nodes, Steps, Answers

LEMMA ContinueType ==
  ASSUME FlowTypeOK, NEW m \in Operations, NEW r \in Run, Continue(m, r) \/ Committed(m, r)
  PROVE  /\ run' \in [Operations -> Run] /\ crashes' \in Nat
         /\ \A n \in Operations : n # m => run'[n] = run[n]
         /\ run'[m] = r \/ run'[m] = Enter(run[m], run[m].node)
         /\ Continue(m, r) => run'[m] = r
<1>1. run \in [Operations -> Run] /\ crashes \in Nat /\ run[m] \in Run /\ run[m].node \in Nodes
  BY DEF FlowTypeOK, Run
<1>2. Enter(run[m], run[m].node) \in Run
  BY <1>1, RunHelpers, Zenon
<1> QED
  BY <1>1, <1>2 DEF Continue, Committed

-----------------------------------------------------------------------------
(* The inductive invariant. *)

(* The nodes of a run that has told the customer nothing yet. *)
Early == {"idle", "evaluate", "confirm", "cancel", "manual", "submit"}

Truth(m) ==
  LET o == run[m].operation_id IN
  /\ run[m].told = "accepted" => delivery[o] # "none"
  /\ run[m].told = "cancelled" => status[o] = "cancelled_by_customer"
  /\ run[m].told = "review" =>
       status[o] \notin {"absent", "pending_confirmation", "cancelled_by_customer"}
  /\ run[m].told = "already" => status[o] \notin {"absent", "pending_confirmation"}

(* A version that is still the one a run has read vouches for the status it  *)
(* has read, and for the case.                                               *)
WriteSafe(m) ==
  LET o == run[m].operation_id IN
  run[m].step = "write" /\ run[m].node # "evaluate" =>
    /\ row[o].version >= run[m].seen
    /\ row[o].version = run[m].seen /\ run[m].node # "attach" =>
         status[o] = "pending_confirmation"
    /\ row[o].version = run[m].seen /\ run[m].node = "attach" =>
         status[o] = "manual_review" /\ row[o].support_case_id = NoCase

RunInv(m) ==
  /\ Truth(m) /\ WriteSafe(m)
  /\ run[m].node \in Early => run[m].told = "nothing"

OpInv(o) ==
  /\ "cancel" \in decided[o] => status[o] = "cancelled_by_customer"
  /\ "manual" \in decided[o] =>
       status[o] \notin {"absent", "pending_confirmation", "cancelled_by_customer"}
  /\ row[o].support_case_id # NoCase => status[o] = "manual_review"
  /\ status[o] = "absent" => row[o].version = 0

OneActive ==
  \A o, p \in Operations :
    OrderOf[o] = OrderOf[p] /\ status[o] \in ACTIVE_STATUSES /\ status[p] \in ACTIVE_STATUSES
      => o = p

FlowInv ==
  /\ FlowTypeOK /\ Agreement /\ OneActive
  /\ \A o \in Operations : OpInv(o) /\ RunInv(o)

-----------------------------------------------------------------------------
(* What a step can do to an operation and to a run. *)

Quiet == UNCHANGED <<delivery, status, row, decided>>

(* Every change of an operation is a new version of its row. *)
OpChanged(o) ==
  /\ row'[o].version > row[o].version
  /\ status'[o] # "absent"
  /\ row'[o].support_case_id # NoCase => status'[o] = "manual_review"
  /\ row[o].support_case_id # NoCase /\ row'[o].support_case_id # row[o].support_case_id =>
       delivery[o] = "failed" /\ delivery'[o] = "undecided"
  /\ status[o] = "absent" => ActiveOn(OrderOf[o]) = {} /\ decided'[o] = decided[o]
  /\ \/ decided'[o] = decided[o]
     \/ /\ decided'[o] = decided[o] \cup {"cancel"} /\ status'[o] = "cancelled_by_customer"
        /\ status[o] = "pending_confirmation"
     \/ /\ decided'[o] = decided[o] \cup {"manual"} /\ status'[o] = "manual_review"
        /\ status[o] = "pending_confirmation"

OpShape(o) ==
  \/ /\ row'[o] = row[o] /\ status'[o] = status[o]
     /\ delivery'[o] = delivery[o] /\ decided'[o] = decided[o]
  \/ /\ OpChanged(o)
     /\ \A p \in Operations : p # o =>
          row'[p] = row[p] /\ status'[p] = status[p] /\ decided'[p] = decided[p]

TruthAfter(told, o) ==
  /\ told = "accepted" => delivery'[o] # "none"
  /\ told = "cancelled" => status'[o] = "cancelled_by_customer"
  /\ told = "review" =>
       status'[o] \notin {"absent", "pending_confirmation", "cancelled_by_customer"}
  /\ told = "already" => status'[o] \notin {"absent", "pending_confirmation"}

RunTo(n, r) ==
  \/ r = run[n]
  \/ r.told = "nothing" /\ (r.step = "write" => r.node = "evaluate")
  \/ /\ r.told = run[n].told /\ r.operation_id = run[n].operation_id
     /\ r.step = "write" => r.node = "evaluate"
     /\ run[n].told = "nothing" \/ r.node \notin Early \/ r.node = run[n].node
  \/ /\ Quiet
     /\ r.told = run[n].told /\ r.operation_id = run[n].operation_id /\ r.node = run[n].node
     /\ r.seen = row[r.operation_id].version
     /\ r.node # "attach" => status[r.operation_id] = "pending_confirmation"
     /\ r.node = "attach" => /\ status[r.operation_id] = "manual_review"
                             /\ row[r.operation_id].support_case_id = NoCase
  \/ TruthAfter(r.told, r.operation_id) /\ r.node \notin Early /\ r.step # "write"

(* The variables that only have a type to keep. *)
RestType ==
  /\ row \in [Operations -> RowType]
  /\ decided \in [Operations -> SUBSET Decisions]
  /\ review \in [Threads -> [count : 0 .. MaxCases, open : BOOLEAN]]
  /\ failed \subseteq CaseIds
  /\ trigger \in [Operations -> CaseIds \cup {NoCase}]
  /\ run \in [Operations -> Run]
  /\ crashes \in Nat

LEMMA TypeParts == FlowTypeOK <=> LifecycleType /\ RestType
BY DEF FlowTypeOK, RestType, Run, RowType

StepGood ==
  /\ RestType' /\ [LifecycleNext]_lifecycle
  /\ \A o \in Operations : OpShape(o) /\ RunTo(o, run'[o])

(* A step of one run: the run ends up at r, or back at the start of its node. *)
LEMMA OneRun ==
  ASSUME FlowTypeOK, NEW m \in Operations, NEW r \in Run, RunTo(m, r),
         Continue(m, r) \/ Committed(m, r)
  PROVE  /\ run' \in [Operations -> Run] /\ crashes' \in Nat
         /\ \A n \in Operations : RunTo(n, run'[n])
<1>1. run[m] \in Run /\ run[m].node \in Nodes
  BY DEF FlowTypeOK, Run
<1>2. RunTo(m, Enter(run[m], run[m].node))
  BY <1>1, RunHelpers DEF RunTo
<1>3. \A n \in Operations : n # m => RunTo(n, run'[n])
  BY ContinueType DEF RunTo
<1> QED
  BY <1>2, <1>3, ContinueType

(* A step of one run that leaves the operations alone. *)
LEMMA QuietRun ==
  ASSUME FlowTypeOK, NEW m \in Operations, NEW r \in Run, RunTo(m, r),
         Continue(m, r) \/ Committed(m, r), Quiet,
         review' \in [Threads -> [count : 0 .. MaxCases, open : BOOLEAN]],
         failed' = failed, trigger' \in [Operations -> CaseIds \cup {NoCase}]
  PROVE  StepGood
<1>1. RestType'
  BY OneRun, TypeParts DEF RestType, Quiet
<1>2. UNCHANGED lifecycle /\ \A o \in Operations : OpShape(o)
  BY DEF Quiet, lifecycle, OpShape
<1> QED
  BY <1>1, <1>2, OneRun DEF StepGood

-----------------------------------------------------------------------------
(* Actions that only move runs. *)

LEMMA RunFacts ==
  ASSUME FlowInv, NEW m \in Operations
  PROVE  /\ FlowTypeOK /\ RestType /\ LifecycleType
         /\ run[m] \in Run /\ run[m].node \in Nodes /\ run[m].operation_id \in Operations
         /\ row[run[m].operation_id] \in RowType
         /\ status[run[m].operation_id] \in OperationRecordStatus \cup {"absent"}
         /\ RunInv(m) /\ OpInv(run[m].operation_id)
         /\ run[m].node \in Early => run[m].told = "nothing"
<1>1. FlowTypeOK /\ RestType /\ LifecycleType
  BY TypeParts DEF FlowInv
<1>2. run[m] \in Run
  BY <1>1 DEF RestType
<1>3. run[m].node \in Nodes /\ run[m].operation_id \in Operations
  BY <1>2 DEF Run
<1> QED
  BY <1>1, <1>2, <1>3 DEF FlowInv, RestType, LifecycleType, RunInv

LEMMA QuietType ==
  ASSUME FlowInv, UNCHANGED <<delivery, status, row, decided, review, failed, trigger>>
  PROVE  /\ Quiet /\ failed' = failed
         /\ review' \in [Threads -> [count : 0 .. MaxCases, open : BOOLEAN]]
         /\ trigger' \in [Operations -> CaseIds \cup {NoCase}]
BY DEF Quiet, FlowInv, FlowTypeOK

LEMMA MessageGood ==
  ASSUME FlowInv, NEW m \in Operations, SendMessage(m)
  PROVE  StepGood
<1>1. /\ FlowTypeOK /\ RestType /\ Quiet
      /\ UNCHANGED <<row, decided, review, failed, trigger, crashes>>
  BY RunFacts DEF SendMessage, Quiet
<1>2. ASSUME NEW n \in Operations PROVE run'[n] \in Run /\ RunTo(n, run'[n])
  <2>1. run[n] \in Run
    BY RunFacts
  <2>2. /\ Enter(FreshRun(n), "evaluate") \in Run
        /\ Enter(FreshRun(n), "evaluate").told = "nothing"
        /\ Enter(FreshRun(n), "evaluate").step = "read"
    BY FreshRunType, RunHelpers DEF Nodes
  <2>3. FreshRun(n) \in Run /\ FreshRun(n).told = "nothing" /\ FreshRun(n).step = "read"
    BY FreshRunType DEF FreshRun
  <2>4. run'[n] \in {Enter(FreshRun(n), "evaluate"), FreshRun(n), run[n]}
    BY DEF SendMessage
  <2> QED
    BY <2>1, <2>2, <2>3, <2>4 DEF RunTo
<1>3. run' \in [Operations -> Run]
  <2>1. run' = [n \in Operations |-> run'[n]]
    BY DEF SendMessage
  <2> QED
    BY <1>2, <2>1
<1>4. RestType'
  BY <1>1, <1>3 DEF RestType
<1>5. UNCHANGED lifecycle /\ \A o \in Operations : OpShape(o)
  BY <1>1 DEF Quiet, lifecycle, OpShape
<1> QED
  BY <1>2, <1>4, <1>5 DEF StepGood

LEMMA RestartGood ==
  ASSUME FlowInv, NEW m \in Operations, Crash(m) \/ Reinvoke(m)
  PROVE  StepGood
<1> DEFINE r == Enter(run[m], run[m].node)
<1>1. r \in Run /\ RunTo(m, r)
  BY RunFacts, RunHelpers, Zenon DEF RunTo
<1>2. Continue(m, r) \/ Committed(m, r)
  BY DEF Crash, Reinvoke, Committed
<1>3. UNCHANGED <<delivery, status, row, decided, review, failed, trigger>>
  BY DEF Crash, Reinvoke
<1> HIDE DEF r
<1> QED
  BY <1>1, <1>2, <1>3, QuietType, QuietRun, RunFacts

LEMMA ResultGood ==
  ASSUME FlowInv, NEW m \in Operations, NEW o \in Operations, run[m].node = "evaluate",
         status'[o] \in OperationRecordStatus
  PROVE  Result(m, o) \in Run /\ RunTo(m, Result(m, o))
<1> DEFINE r == [run[m] EXCEPT !.operation_id = o, !.operation_status = status'[o]]
           s == [r EXCEPT !.told = "already"]
<1>1. run[m] \in Run /\ run[m].told = "nothing"
  BY RunFacts DEF Early
<1>2. r \in Run /\ r.told = "nothing" /\ r.operation_id = o
  BY <1>1, Zenon DEF Run
<1>3. s \in Run /\ s.told = "already" /\ s.operation_id = o
  BY <1>2, Zenon DEF Run, Answers
<1>4. "confirm" \in Nodes /\ "handoff" \in Nodes /\ "handoff" \notin Early
  BY DEF Nodes, Early
<1>5. Result(m, o) = IF status'[o] = "pending_confirmation" THEN Enter(r, "confirm")
                     ELSE Enter(s, "handoff")
  BY DEF Result
<1> HIDE DEF r, s
<1>6. CASE status'[o] = "pending_confirmation"
  <2>1. Enter(r, "confirm") \in Run /\ RunTo(m, Enter(r, "confirm"))
    BY <1>2, <1>4, RunHelpers DEF RunTo
  <2> QED
    BY <1>5, <1>6, <2>1
<1>7. CASE status'[o] # "pending_confirmation"
  <2>1. TruthAfter("already", o)
    BY <1>7 DEF TruthAfter, OperationRecordStatus
  <2>2. Enter(s, "handoff") \in Run /\ RunTo(m, Enter(s, "handoff"))
    BY <1>3, <1>4, <2>1, RunHelpers DEF RunTo
  <2> QED
    BY <1>5, <1>7, <2>2
<1> QED
  BY <1>6, <1>7

LEMMA LookupGood ==
  ASSUME FlowInv, NEW m \in Operations, FindBySourceMessage(m) \/ FindActiveByOrderId(m)
  PROVE  StepGood
<1>1. /\ run[m].node = "evaluate" /\ run[m] \in Run
      /\ UNCHANGED <<delivery, status, row, decided, review, failed, trigger>>
  BY RunFacts DEF FindBySourceMessage, FindActiveByOrderId, At
<1>2. PICK r : Continue(m, r) /\
        \/ \E o \in Operations : r = Result(m, o) /\ status[o] # "absent"
        \/ r = [run[m] EXCEPT !.step = "active"]
        \/ r = [run[m] EXCEPT !.step = "write"]
        \/ r = Raise(run[m])
  <2>1. CASE FindBySourceMessage(m)
    BY <2>1 DEF FindBySourceMessage
  <2>2. CASE FindActiveByOrderId(m)
    <3>1. \A o \in ActiveOn(OrderOf[m]) : o \in Operations /\ status[o] # "absent"
      BY DEF ActiveOn, ACTIVE_STATUSES
    <3> QED
      BY <2>2, <3>1 DEF FindActiveByOrderId
  <2> QED
    BY <2>1, <2>2
<1>3. r \in Run /\ RunTo(m, r)
  <2>1. ASSUME NEW o \in Operations, r = Result(m, o), status[o] # "absent"
        PROVE  r \in Run /\ RunTo(m, r)
    <3>1. status'[o] \in OperationRecordStatus
      BY <1>1, <2>1, RunFacts DEF LifecycleType
    <3> QED
      BY <1>1, <2>1, <3>1, ResultGood
  <2>2. ASSUME NEW step \in {"active", "write"}, r = [run[m] EXCEPT !.step = step]
        PROVE  r \in Run /\ RunTo(m, r)
    <3>1. /\ r \in Run /\ r.told = run[m].told /\ r.node = run[m].node
          /\ r.operation_id = run[m].operation_id
      BY <1>1, <2>2 DEF Run, Steps
    <3> QED
      BY <1>1, <3>1 DEF RunTo
  <2>3. CASE r = Raise(run[m])
    BY <1>1, <2>3, RunFacts, RunHelpers DEF RunTo
  <2> QED
    BY <1>2, <2>1, <2>2, <2>3
<1> QED
  BY <1>1, <1>2, <1>3, QuietType, QuietRun, RunFacts

LEMMA AnswerGood ==
  ASSUME FlowInv, NEW m \in Operations, NEW yes \in BOOLEAN, Answer(m, yes)
  PROVE  StepGood
<1>1. PICK node \in {"cancel", "manual", "submit"} : Continue(m, Enter(run[m], node))
  BY DEF Answer
<1>2. run[m] \in Run /\ run[m].told = "nothing" /\ node \in Nodes
  BY RunFacts DEF Answer, Early, Nodes
<1>3. Enter(run[m], node) \in Run /\ RunTo(m, Enter(run[m], node))
  BY <1>2, RunHelpers DEF RunTo
<1>4. UNCHANGED <<delivery, status, row, decided, review, failed, trigger>>
  BY DEF Answer
<1> QED
  BY <1>1, <1>3, <1>4, QuietType, QuietRun, RunFacts

LEMMA ToldGood ==
  ASSUME FlowInv, NEW m \in Operations, run[m].node \in Decisions,
         NEW s \in OperationRecordStatus \cup {"absent"},
         LET o == run[m].operation_id
         IN IF run[m].node = "cancel" THEN status'[o] = "cancelled_by_customer"
            ELSE status'[o] \notin {"absent", "pending_confirmation", "cancelled_by_customer"}
  PROVE  Told(m, s) \in Run /\ RunTo(m, Told(m, s))
<1> DEFINE t == IF run[m].node = "cancel" THEN "cancelled" ELSE "review"
           r == [run[m] EXCEPT !.operation_status = s, !.reasons = (run[m].node = "manual"),
                               !.told = t]
<1>1. run[m] \in Run
  BY RunFacts
<1>2. r \in Run /\ r.told = t /\ r.operation_id = run[m].operation_id
  BY <1>1, Zenon DEF Run, Answers
<1>3. "handoff" \in Nodes /\ "handoff" \notin Early
  BY DEF Nodes, Early
<1>4. TruthAfter(t, run[m].operation_id)
  BY DEF TruthAfter
<1>5. Told(m, s) = Enter(r, "handoff")
  BY DEF Told
<1> HIDE DEF r, t
<1>6. Enter(r, "handoff") \in Run /\ RunTo(m, Enter(r, "handoff"))
  BY <1>2, <1>3, <1>4, RunHelpers DEF RunTo
<1> QED
  BY <1>5, <1>6

(* A decision that is recorded, or that the status shows, is told truthfully. *)
LEMMA RecordedDecision ==
  ASSUME FlowInv, NEW m \in Operations, run[m].node \in Decisions, status' = status,
         \/ run[m].node \in decided[run[m].operation_id]
         \/ /\ status[run[m].operation_id] # "pending_confirmation"
            /\ AlreadyDecided(run[m].node, status[run[m].operation_id])
  PROVE  /\ Told(m, status[run[m].operation_id]) \in Run
         /\ RunTo(m, Told(m, status[run[m].operation_id]))
<1> DEFINE o == run[m].operation_id
<1>1. OpInv(o) /\ status[o] \in OperationRecordStatus \cup {"absent"}
  BY RunFacts
<1>2. CASE run[m].node = "cancel"
  <2>1. status'[o] = "cancelled_by_customer"
    BY <1>1, <1>2 DEF OpInv, AlreadyDecided
  <2> QED
    BY <1>1, <1>2, <2>1, ToldGood
<1>3. CASE run[m].node = "manual"
  <2>1. status'[o] \notin {"absent", "pending_confirmation", "cancelled_by_customer"}
    BY <1>1, <1>3 DEF OpInv, AlreadyDecided, ACTIVE_STATUSES
  <2> QED
    BY <1>1, <1>3, <2>1, ToldGood
<1> QED
  BY <1>2, <1>3 DEF Decisions

(* A run that raises, goes to a step that writes nothing yet, or notes the   *)
(* version of a row it is about to write.                                    *)
LEMMA SmallMoves ==
  ASSUME FlowInv, NEW m \in Operations
  PROVE  /\ Raise(run[m]) \in Run /\ RunTo(m, Raise(run[m]))
         /\ [run[m] EXCEPT !.step = "change"] \in Run
         /\ RunTo(m, [run[m] EXCEPT !.step = "change"])
         /\ [run[m] EXCEPT !.step = "change", !.tries = @ + 1, !.seen = 0] \in Run
         /\ RunTo(m, [run[m] EXCEPT !.step = "change", !.tries = @ + 1, !.seen = 0])
         /\ [run[m] EXCEPT !.step = "read", !.tries = @ + 1, !.seen = 0] \in Run
         /\ RunTo(m, [run[m] EXCEPT !.step = "read", !.tries = @ + 1, !.seen = 0])
         /\ [run[m] EXCEPT !.step = "read", !.tries = @ + 1] \in Run
         /\ RunTo(m, [run[m] EXCEPT !.step = "read", !.tries = @ + 1])
<1>1. run[m] \in Run /\ run[m].node \in Nodes
  BY RunFacts
<1>2. Raise(run[m]) \in Run /\ RunTo(m, Raise(run[m]))
  BY <1>1, RunHelpers DEF RunTo
<1>3. ASSUME NEW step \in {"change", "read"}, NEW tries \in Nat, NEW seen \in Nat,
             NEW r, r = [run[m] EXCEPT !.step = step, !.tries = tries, !.seen = seen]
      PROVE  r \in Run /\ RunTo(m, r)
  <2>1. /\ r \in Run /\ r.told = run[m].told /\ r.node = run[m].node /\ r.step # "write"
        /\ r.operation_id = run[m].operation_id
    BY <1>1, <1>3, Zenon DEF Run, Steps
  <2> QED
    BY <2>1 DEF RunTo
<1>4. /\ [run[m] EXCEPT !.step = "change"] =
           [run[m] EXCEPT !.step = "change", !.tries = run[m].tries, !.seen = run[m].seen]
      /\ [run[m] EXCEPT !.step = "read", !.tries = @ + 1] =
           [run[m] EXCEPT !.step = "read", !.tries = run[m].tries + 1, !.seen = run[m].seen]
  BY <1>1, Zenon DEF Run
<1>5. run[m].tries \in Nat /\ run[m].tries + 1 \in Nat /\ run[m].seen \in Nat
  BY <1>1 DEF Run
<1> QED
  BY <1>2, <1>3, <1>4, <1>5, Zenon

LEMMA ReadToWrite ==
  ASSUME FlowInv, NEW m \in Operations, Quiet,
         run[m].node # "attach" => status[run[m].operation_id] = "pending_confirmation",
         run[m].node = "attach" =>
           /\ status[run[m].operation_id] = "manual_review"
           /\ row[run[m].operation_id].support_case_id = NoCase
  PROVE  LET r == [run[m] EXCEPT !.step = "write", !.seen = row[run[m].operation_id].version]
         IN r \in Run /\ RunTo(m, r)
<1> DEFINE r == [run[m] EXCEPT !.step = "write", !.seen = row[run[m].operation_id].version]
<1>1. run[m] \in Run /\ row[run[m].operation_id].version \in Nat
  BY RunFacts DEF RowType
<1>2. /\ r \in Run /\ r.told = run[m].told /\ r.node = run[m].node
      /\ r.operation_id = run[m].operation_id /\ r.seen = row[run[m].operation_id].version
  BY <1>1, Zenon DEF Run, Steps
<1> HIDE DEF r
<1>3. RunTo(m, r)
  BY <1>2 DEF RunTo
<1> QED
  BY <1>2, <1>3 DEF r

LEMMA DecisionReadGood ==
  ASSUME FlowInv, NEW m \in Operations, StartDecision(m) \/ ReadForDecision(m)
  PROVE  StepGood
<1> DEFINE o == run[m].operation_id
<1>1. /\ run[m].node \in Decisions /\ run[m].node # "attach"
      /\ UNCHANGED <<delivery, status, row, decided, review, failed, trigger>>
  BY DEF StartDecision, ReadForDecision, Decisions
<1>2. PICK r : Continue(m, r) /\
        \/ r = Raise(run[m])
        \/ /\ r = Told(m, status[o])
           /\ \/ run[m].node \in decided[o]
              \/ status[o] # "pending_confirmation" /\ AlreadyDecided(run[m].node, status[o])
        \/ r = [run[m] EXCEPT !.step = "change"]
        \/ /\ r = [run[m] EXCEPT !.step = "write", !.seen = row[o].version]
           /\ status[o] = "pending_confirmation"
  BY DEF StartDecision, ReadForDecision
<1>3. r \in Run /\ RunTo(m, r)
  BY <1>1, <1>2, SmallMoves, RecordedDecision, ReadToWrite, QuietType, Zenon
<1> QED
  BY <1>1, <1>2, <1>3, QuietType, QuietRun, RunFacts

LEMMA AcceptedGood ==
  ASSUME FlowInv, NEW m \in Operations, delivery'[run[m].operation_id] # "none",
         NEW s \in OperationRecordStatus
  PROVE  Accepted(m, s) \in Run /\ RunTo(m, Accepted(m, s))
<1> DEFINE r == [run[m] EXCEPT !.operation_status = s, !.told = "accepted"]
<1>1. run[m] \in Run
  BY RunFacts
<1>2. r \in Run /\ r.told = "accepted" /\ r.operation_id = run[m].operation_id
  BY <1>1, Zenon DEF Run, Answers
<1>3. "handoff" \in Nodes /\ "handoff" \notin Early
  BY DEF Nodes, Early
<1>4. TruthAfter("accepted", run[m].operation_id)
  BY DEF TruthAfter
<1>5. Accepted(m, s) = Enter(r, "handoff")
  BY DEF Accepted
<1> HIDE DEF r
<1>6. Enter(r, "handoff") \in Run /\ RunTo(m, Enter(r, "handoff"))
  BY <1>2, <1>3, <1>4, RunHelpers DEF RunTo
<1> QED
  BY <1>5, <1>6

LEMMA QueueReadGood ==
  ASSUME FlowInv, NEW m \in Operations, ReadToQueue(m)
  PROVE  StepGood
<1> DEFINE o == run[m].operation_id
<1>1. /\ run[m].node = "submit"
      /\ UNCHANGED <<delivery, status, row, decided, review, failed, trigger>>
  BY DEF ReadToQueue, At
<1>2. PICK r : Continue(m, r) /\
        \/ r = Raise(run[m])
        \/ r = Accepted(m, status[o]) /\ status[o] = "queued"
        \/ /\ r = [run[m] EXCEPT !.step = "write", !.seen = row[o].version]
           /\ status[o] = "pending_confirmation"
  BY DEF ReadToQueue
<1>3. status[o] = "queued" => delivery'[o] # "none" /\ "queued" \in OperationRecordStatus
  BY <1>1, RunFacts DEF FlowInv, Agreement, OperationRecordStatus
<1>4. r \in Run /\ RunTo(m, r)
  BY <1>1, <1>2, <1>3, SmallMoves, AcceptedGood, ReadToWrite, QuietType, Zenon
<1> QED
  BY <1>1, <1>2, <1>4, QuietType, QuietRun, RunFacts

LEMMA AttachReadGood ==
  ASSUME FlowInv, NEW m \in Operations, ReadToAttach(m)
  PROVE  StepGood
<1> DEFINE o == run[m].operation_id
<1>1. /\ run[m].node = "attach"
      /\ UNCHANGED <<delivery, status, row, decided, review, failed, trigger>>
  BY DEF ReadToAttach, At
<1>2. PICK r : Continue(m, r) /\
        \/ r = Raise(run[m]) \/ r = Enter(run[m], "done")
        \/ /\ r = [run[m] EXCEPT !.step = "write", !.seen = row[o].version]
           /\ status[o] = "manual_review" /\ row[o].support_case_id = NoCase
  <2>1. CASE SkipsAttach(m) \/ run[m].tries = MAX_WRITE_ATTEMPTS
    BY <2>1 DEF ReadToAttach
  <2>2. CASE ~(SkipsAttach(m) \/ run[m].tries = MAX_WRITE_ATTEMPTS)
    BY <2>2 DEF ReadToAttach
  <2> QED
    BY <2>1, <2>2
<1>3. Enter(run[m], "done") \in Run /\ RunTo(m, Enter(run[m], "done"))
  BY RunFacts, RunHelpers DEF RunTo, Nodes, Early
<1>4. r \in Run /\ RunTo(m, r)
  BY <1>1, <1>2, <1>3, SmallMoves, ReadToWrite, QuietType, Zenon
<1> QED
  BY <1>1, <1>2, <1>4, QuietType, QuietRun, RunFacts

(* The next or the open review case of a thread. *)
LEMMA ReviewCaseType ==
  ASSUME FlowInv, NEW t \in Threads, UseReviewCase(t)
  PROVE  /\ ReviewCase(t) \in CaseIds
         /\ review' \in [Threads -> [count : 0 .. MaxCases, open : BOOLEAN]]
<1>1. ReviewCase(t) \in CaseIds
  BY DEF UseReviewCase
<1>2. ReviewCase(t)[2] \in 0 .. MaxCases
  BY <1>1 DEF CaseIds
<1> DEFINE new == [count |-> ReviewCase(t)[2], open |-> TRUE]
<1>3. new \in [count : 0 .. MaxCases, open : BOOLEAN]
  BY <1>2
<1>4. /\ review \in [Threads -> [count : 0 .. MaxCases, open : BOOLEAN]]
      /\ review' = [review EXCEPT ![t] = new]
  BY DEF FlowInv, FlowTypeOK, UseReviewCase
<1> HIDE DEF new
<1> QED
  BY <1>1, <1>3, <1>4

LEMMA HandedOverGood ==
  ASSUME FlowInv, NEW m \in Operations, NEW c \in CaseIds \cup {NoCase}
  PROVE  HandedOver(m, c) \in Run /\ RunTo(m, HandedOver(m, c))
<1> DEFINE marked == c \in failed
           r == [run[m] EXCEPT !.support_case_id = c, !.marked = marked, !.persisted = FALSE]
<1>0. HandedOver(m, c) = Enter(r, "attach")
  BY DEF HandedOver
<1>1. run[m] \in Run /\ marked \in BOOLEAN
  BY RunFacts
<1> HIDE DEF marked
<1>2. r \in Run /\ r.told = run[m].told /\ r.operation_id = run[m].operation_id
  BY <1>1, Zenon DEF Run
<1> HIDE DEF r
<1>4. Enter(r, "attach") \in Run /\ RunTo(m, Enter(r, "attach"))
  BY <1>2, RunHelpers DEF RunTo, Nodes, Early
<1> QED
  BY <1>0, <1>4

LEMMA HandoffGood ==
  ASSUME FlowInv, NEW m \in Operations, FinalizeCaseHandoff(m)
  PROVE  StepGood
<1>1. Quiet /\ failed' = failed
  BY DEF FinalizeCaseHandoff, Quiet
<1>2. /\ review \in [Threads -> [count : 0 .. MaxCases, open : BOOLEAN]]
      /\ trigger \in [Operations -> CaseIds \cup {NoCase}] /\ FlowTypeOK
      /\ ThreadOf[m] \in Threads
  BY MessagesTyped DEF FlowInv, FlowTypeOK
<1> DEFINE kept == [run[m] EXCEPT !.persisted = FALSE]
<1>3. Enter(kept, "attach") \in Run /\ RunTo(m, Enter(kept, "attach"))
  <2>1. kept \in Run /\ kept.told = run[m].told /\ kept.operation_id = run[m].operation_id
    BY RunFacts, Zenon DEF Run
  <2> HIDE DEF kept
  <2> QED
    BY <2>1, RunHelpers DEF RunTo, Nodes, Early
<1>4. CASE /\ UNCHANGED <<review, trigger>>
           /\ \/ Continue(m, Enter(kept, "attach"))
              \/ Continue(m, HandedOver(m, NoCase))
              \/ Continue(m, Raise(run[m]))
              \/ Continue(m, HandedOver(m, trigger[m]))
  <2>1. /\ HandedOver(m, NoCase) \in Run /\ RunTo(m, HandedOver(m, NoCase))
        /\ HandedOver(m, trigger[m]) \in Run /\ RunTo(m, HandedOver(m, trigger[m]))
    BY <1>2, HandedOverGood
  <2> HIDE DEF kept
  <2> QED
    BY <1>1, <1>2, <1>3, <1>4, <2>1, SmallMoves, QuietRun, Zenon
<1>5. CASE LET c == ReviewCase(ThreadOf[m])
           IN UseReviewCase(ThreadOf[m]) /\ trigger' = Triggered(m, c)
              /\ Committed(m, HandedOver(m, c))
  <2> DEFINE c == ReviewCase(ThreadOf[m])
  <2>1. c \in CaseIds /\ review' \in [Threads -> [count : 0 .. MaxCases, open : BOOLEAN]]
    BY <1>2, <1>5, ReviewCaseType
  <2> HIDE DEF c
  <2>2. trigger' \in [Operations -> CaseIds \cup {NoCase}]
    BY <1>2, <1>5, <2>1 DEF c, Triggered
  <2>3. HandedOver(m, c) \in Run /\ RunTo(m, HandedOver(m, c)) /\ Committed(m, HandedOver(m, c))
    BY <1>5, <2>1, HandedOverGood DEF c
  <2> QED
    BY <1>1, <1>2, <2>1, <2>2, <2>3, QuietRun
<1> QED
  BY <1>4, <1>5 DEF FinalizeCaseHandoff

LEMMA StaffGood ==
  ASSUME FlowInv, NEW t \in Threads, StaffResolves(t)
  PROVE  StepGood
<1>1. review' \in [Threads -> [count : 0 .. MaxCases, open : BOOLEAN]]
  <2> DEFINE Review_ == [count : 0 .. MaxCases, open : BOOLEAN]
             new == [review[t] EXCEPT !.open = FALSE]
  <2>1. review \in [Threads -> Review_] /\ review' = [review EXCEPT ![t] = new]
    BY DEF StaffResolves, FlowInv, FlowTypeOK
  <2>2. new \in Review_
    BY <2>1, Zenon
  <2> HIDE DEF Review_, new
  <2>3. review' \in [Threads -> Review_]
    BY <2>1, <2>2
  <2> QED
    BY <2>3 DEF Review_
<1>2. /\ FlowTypeOK
      /\ UNCHANGED <<delivery, status, row, decided, failed, trigger, run, crashes>>
  BY DEF StaffResolves, FlowInv
<1>3. RestType'
  BY <1>1, <1>2, TypeParts DEF RestType
<1> QED
  BY <1>2, <1>3 DEF StepGood, lifecycle, OpShape, RunTo

-----------------------------------------------------------------------------
(* Actions that change an operation. *)

LEMMA OneOperation ==
  ASSUME NEW o \in Operations, OpChanged(o),
         \A p \in Operations : p # o =>
           /\ row'[p] = row[p] /\ status'[p] = status[p]
           /\ delivery'[p] = delivery[p] /\ decided'[p] = decided[p]
  PROVE  \A p \in Operations : OpShape(p)
BY DEF OpShape

LEMMA OpFacts ==
  ASSUME FlowInv, NEW o \in Operations
  PROVE  /\ row \in [Operations -> RowType] /\ row[o] \in RowType
         /\ delivery \in [Commands -> Deliveries] /\ o \in Commands
         /\ decided \in [Operations -> SUBSET Decisions]
         /\ OpInv(o)
         /\ status[o] = "pending_confirmation" => delivery[o] = "none"
         /\ delivery[o] = "undecided" => status[o] = "queued"
         /\ delivery[o] = "published" => status[o] \notin {"absent", "manual_review"}
         /\ delivery[o] = "failed" => status[o] = "manual_review"
<1>1. /\ FlowTypeOK /\ RestType /\ LifecycleType /\ Agreement /\ OpInv(o)
  BY TypeParts DEF FlowInv
<1>2. o \in Commands /\ delivery[o] \in Deliveries
  BY <1>1 DEF Commands, LifecycleType
<1> QED
  BY <1>1, <1>2 DEF RestType, LifecycleType, Agreement, Deliveries

LEMMA CreateGood ==
  ASSUME FlowInv, NEW m \in Operations, CreateOperation(m)
  PROVE  StepGood
<1>1. CASE UniqueViolation(m)
  <2> DEFINE r == [run[m] EXCEPT !.step = "read", !.tries = @ + 1]
  <2>1. Continue(m, r) /\ r \in Run /\ RunTo(m, r)
    BY <1>1, SmallMoves, Zenon DEF CreateOperation
  <2>2. UNCHANGED <<delivery, status, row, decided, review, failed, trigger>>
    BY <1>1 DEF CreateOperation
  <2> HIDE DEF r
  <2> QED
    BY <2>1, <2>2, QuietType, QuietRun, RunFacts
<1>2. CASE ~UniqueViolation(m)
  <2> DEFINE new == [requires_manual_review |-> m \in ManualDecisions,
                     support_case_id |-> NoCase, version |-> 1]
  <2>1. /\ status' = WithStatus({m}, "pending_confirmation")
        /\ row' = [row EXCEPT ![m] = new]
        /\ Committed(m, Result(m, m)) /\ run[m].node = "evaluate"
        /\ UNCHANGED <<delivery, decided, review, failed, trigger>>
    BY <1>2 DEF CreateOperation, At
  <2>2. status[m] = "absent" /\ ActiveOn(OrderOf[m]) = {}
    BY <1>2 DEF UniqueViolation
  <2>3. row[m].version = 0
    BY <2>2, OpFacts DEF OpInv
  <2>4. new \in RowType /\ new.version = 1 /\ new.support_case_id = NoCase
    <3> DEFINE manual == m \in ManualDecisions
    <3>1. manual \in BOOLEAN
      OBVIOUS
    <3> HIDE DEF manual
    <3>2. [requires_manual_review |-> manual, support_case_id |-> NoCase, version |-> 1]
            \in RowType
      BY <3>1 DEF RowType
    <3> QED
      BY <3>2 DEF manual
  <2> HIDE DEF new
  <2>5. /\ row' \in [Operations -> RowType] /\ row'[m] = new
        /\ \A p \in Operations : p # m => row'[p] = row[p]
    BY <2>1, <2>4, OpFacts
  <2>6. status'[m] = "pending_confirmation" /\ \A p \in Operations : p # m => status'[p] = status[p]
    BY <2>1 DEF WithStatus
  <2>7. OpChanged(m)
    <3>1. row'[m].version > row[m].version /\ row'[m].support_case_id = NoCase
      BY <2>3, <2>4, <2>5
    <3>2. row[m].support_case_id = NoCase
      BY <2>2, OpFacts DEF OpInv
    <3>3. decided'[m] = decided[m]
      BY <2>1
    <3> QED
      BY <2>2, <2>6, <3>1, <3>2, <3>3 DEF OpChanged
  <2>8. \A p \in Operations : OpShape(p)
    BY <2>1, <2>5, <2>6, <2>7, OneOperation
  <2>9. Result(m, m) \in Run /\ RunTo(m, Result(m, m))
    BY <2>1, <2>6, ResultGood DEF OperationRecordStatus
  <2>10. RestType'
    BY <2>1, <2>5, <2>9, OneRun, RunFacts DEF RestType
  <2>11. LifecycleNext
    BY <2>1, <2>2 DEF LifecycleNext, Record
  <2> QED
    BY <2>1, <2>8, <2>9, <2>10, <2>11, OneRun, RunFacts DEF StepGood
<1> QED
  BY <1>1, <1>2

(* The row of an operation is written by a run that has read it. *)
LEMMA Touched ==
  ASSUME FlowInv, NEW o \in Operations, Touch(o)
  PROVE  /\ row' \in [Operations -> RowType] /\ row'[o].version > row[o].version
         /\ row'[o].support_case_id = row[o].support_case_id
         /\ \A p \in Operations : p # o => row'[p] = row[p]
<1> DEFINE new == [row[o] EXCEPT !.version = @ + 1]
<1>1. row \in [Operations -> RowType] /\ row[o] \in RowType
  BY OpFacts
<1>2. /\ new \in RowType /\ new.version > row[o].version
      /\ new.support_case_id = row[o].support_case_id
  BY <1>1 DEF RowType
<1>3. row' = [row EXCEPT ![o] = new]
  BY DEF Touch
<1> HIDE DEF new
<1> QED
  BY <1>1, <1>2, <1>3

LEMMA DecisionGood ==
  ASSUME FlowInv, NEW m \in Operations, WriteDecision(m)
  PROVE  StepGood
<1> DEFINE o == run[m].operation_id
           node == run[m].node
           to == IF node = "cancel" THEN "cancelled_by_customer" ELSE "manual_review"
<1>0. o \in Operations /\ node \in Decisions /\ node \notin {"evaluate", "attach"}
      /\ FlowTypeOK /\ RestType
  BY RunFacts DEF WriteDecision, Decisions
<1>1. CASE ~Unchanged(m)
  <2>1. Continue(m, AfterConflict(m)) /\ status' = status
    BY <1>1 DEF WriteDecision
  <2>2. UNCHANGED <<delivery, status, row, decided, review, failed, trigger>>
    BY <1>1 DEF WriteDecision
  <2>3. AfterConflict(m) \in Run /\ RunTo(m, AfterConflict(m))
    BY <1>0, <2>1, SmallMoves, RecordedDecision, Zenon DEF AfterConflict
  <2> QED
    BY <2>1, <2>2, <2>3, QuietType, QuietRun, RunFacts
<1>2. CASE Unchanged(m)
  <2>1. /\ status' = WithStatus({o}, to) /\ Touch(o)
        /\ decided' = [decided EXCEPT ![o] = @ \cup {node}]
        /\ Committed(m, Told(m, status'[o]))
        /\ UNCHANGED <<delivery, review, failed, trigger>>
    BY <1>2 DEF WriteDecision
  <2>2. status[o] = "pending_confirmation"
    BY <1>0, <1>2, RunFacts, Zenon DEF WriteDecision, RunInv, WriteSafe, Unchanged
  <2>3. row[o].support_case_id = NoCase
    BY <1>0, <2>2, OpFacts DEF OpInv
  <2>4. status'[o] = to /\ \A p \in Operations : p # o => status'[p] = status[p]
    BY <1>0, <2>1 DEF WithStatus
  <2>5. /\ decided' \in [Operations -> SUBSET Decisions]
        /\ decided'[o] = decided[o] \cup {node}
        /\ \A p \in Operations : p # o => decided'[p] = decided[p]
    BY <1>0, <2>1 DEF RestType
  <2>6. OpChanged(o)
    <3>1. row'[o].version > row[o].version /\ row'[o].support_case_id = NoCase
      BY <1>0, <2>1, <2>3, Touched
    <3>2. CASE node = "cancel"
      BY <2>2, <2>3, <2>4, <2>5, <3>1, <3>2 DEF OpChanged
    <3>3. CASE node = "manual"
      BY <2>2, <2>3, <2>4, <2>5, <3>1, <3>3 DEF OpChanged
    <3> QED
      BY <1>0, <3>2, <3>3 DEF Decisions
  <2>7. \A p \in Operations : OpShape(p)
    <3>1. \A p \in Operations : p # o => row'[p] = row[p] /\ delivery'[p] = delivery[p]
      BY <1>0, <2>1, Touched
    <3> HIDE DEF o
    <3> QED
      BY <1>0, <2>4, <2>5, <2>6, <3>1, OneOperation
  <2>8. Told(m, status'[o]) \in Run /\ RunTo(m, Told(m, status'[o]))
    <3>1. status'[o] \in OperationRecordStatus \cup {"absent"}
      BY <2>4 DEF OperationRecordStatus
    <3>2. CASE node = "cancel"
      BY <1>0, <2>4, <3>1, <3>2, ToldGood
    <3>3. CASE node = "manual"
      BY <1>0, <2>4, <3>1, <3>3, ToldGood
    <3> QED
      BY <1>0, <3>2, <3>3 DEF Decisions
  <2>9. RestType'
    BY <1>0, <2>1, <2>5, <2>8, OneRun, Touched DEF RestType
  <2>10. LifecycleNext
    BY <1>0, <2>1, <2>2, Zenon DEF LifecycleNext, Decline, Review
  <2> QED
    BY <1>0, <2>1, <2>7, <2>8, <2>9, <2>10, OneRun DEF StepGood
<1> QED
  BY <1>1, <1>2

LEMMA QueueGood ==
  ASSUME FlowInv, NEW m \in Operations, QueueOperation(m)
  PROVE  StepGood
<1> DEFINE o == run[m].operation_id
<1>0. /\ o \in Operations /\ run[m].node = "submit" /\ run[m].step = "write"
      /\ FlowTypeOK /\ RestType
  BY RunFacts, Zenon DEF QueueOperation, At
<1>1. CASE ~Unchanged(m)
  BY <1>1, SmallMoves, QuietType, QuietRun, RunFacts, Zenon DEF QueueOperation
<1>2. CASE Unchanged(m)
  <2>1. /\ status' = WithStatus({o}, "queued") /\ Touch(o)
        /\ delivery' = [delivery EXCEPT ![o] = "undecided"]
        /\ Committed(m, Accepted(m, "queued"))
        /\ UNCHANGED <<decided, review, failed, trigger>>
    BY <1>2 DEF QueueOperation
  <2>2. status[o] = "pending_confirmation"
    BY <1>0, <1>2, RunFacts DEF RunInv, WriteSafe, Unchanged
  <2>3. /\ row[o].support_case_id = NoCase /\ delivery[o] = "none"
        /\ delivery \in [Commands -> Deliveries] /\ o \in Commands
    BY <1>0, <2>2, OpFacts DEF OpInv
  <2>4. status'[o] = "queued" /\ \A p \in Operations : p # o => status'[p] = status[p]
    BY <1>0, <2>1 DEF WithStatus
  <2>5. delivery'[o] = "undecided" /\ \A p \in Operations : p # o => delivery'[p] = delivery[p]
    BY <2>1, <2>3, CommandsAreOperations
  <2>6. OpChanged(o)
    <3>1. row'[o].version > row[o].version /\ row'[o].support_case_id = NoCase
      BY <1>0, <2>1, <2>3, Touched
    <3> QED
      BY <2>1, <2>2, <2>3, <2>4, <3>1 DEF OpChanged
  <2>7. \A p \in Operations : OpShape(p)
    BY <1>0, <2>1, <2>4, <2>5, <2>6, Touched, OneOperation, Zenon
  <2>8. Accepted(m, "queued") \in Run /\ RunTo(m, Accepted(m, "queued"))
    BY <2>5, AcceptedGood DEF OperationRecordStatus
  <2>9. RestType'
    BY <1>0, <2>1, <2>8, OneRun, Touched DEF RestType
  <2>10. LifecycleNext
    BY <1>0, <2>1, <2>2, <2>3, Zenon DEF LifecycleNext, Queue
  <2> QED
    BY <1>0, <2>1, <2>7, <2>8, <2>9, <2>10, OneRun DEF StepGood
<1> QED
  BY <1>1, <1>2

(* The review case a failed delivery links. *)
LEMMA LinkedCase ==
  ASSUME FlowInv, NEW o \in Operations, LinkReviewCase(o)
  PROVE  /\ row' \in [Operations -> RowType] /\ row'[o].version > row[o].version
         /\ row'[o].support_case_id \in CaseIds
         /\ \A p \in Operations : p # o => row'[p] = row[p]
         /\ review' \in [Threads -> [count : 0 .. MaxCases, open : BOOLEAN]]
         /\ failed' \subseteq CaseIds
         /\ trigger' \in [Operations -> CaseIds \cup {NoCase}]
<1> DEFINE c == ReviewCase(ThreadOf[o])
           new == [requires_manual_review |-> TRUE, support_case_id |-> c,
                   version |-> row[o].version + 1]
<1>1. /\ row \in [Operations -> RowType] /\ row[o] \in RowType /\ failed \subseteq CaseIds
      /\ trigger \in [Operations -> CaseIds \cup {NoCase}]
  BY OpFacts, TypeParts DEF FlowInv, RestType
<1>2. /\ c \in CaseIds
      /\ review' \in [Threads -> [count : 0 .. MaxCases, open : BOOLEAN]]
  BY MessagesTyped, ReviewCaseType DEF LinkReviewCase
<1>3. /\ row' = [row EXCEPT ![o] = new] /\ failed' = failed \cup {c}
      /\ trigger' = Triggered(o, c)
  BY DEF LinkReviewCase
<1> HIDE DEF c
<1>4. new \in RowType /\ new.version > row[o].version /\ new.support_case_id = c
  BY <1>1, <1>2 DEF RowType
<1> HIDE DEF new
<1>5. trigger' \in [Operations -> CaseIds \cup {NoCase}]
  BY <1>1, <1>2, <1>3 DEF Triggered
<1> QED
  BY <1>1, <1>2, <1>3, <1>4, <1>5, Zenon

LEMMA FallbackGood ==
  ASSUME FlowInv, NEW m \in Operations, NEW c \in CaseIds,
         status'[run[m].operation_id] = "manual_review"
  PROVE  Fallback(m, c) \in Run /\ RunTo(m, Fallback(m, c))
<1> DEFINE marked == c \in failed'
           persisted == review'[c[1]] = [count |-> c[2], open |-> TRUE]
           r == [run[m] EXCEPT !.operation_status = "manual_review", !.support_case_id = c,
                               !.marked = marked, !.persisted = persisted, !.told = "review"]
<1>1. Fallback(m, c) = Enter(r, "handoff")
  BY DEF Fallback
<1>2. run[m] \in Run /\ marked \in BOOLEAN /\ persisted \in BOOLEAN
  BY RunFacts
<1> HIDE DEF marked, persisted
<1>3. r \in Run /\ r.told = "review" /\ r.operation_id = run[m].operation_id
  BY <1>2, Zenon DEF Run, Answers, OperationRecordStatus
<1> HIDE DEF r
<1>4. TruthAfter("review", run[m].operation_id)
  BY DEF TruthAfter
<1>5. Enter(r, "handoff") \in Run /\ RunTo(m, Enter(r, "handoff"))
  BY <1>3, <1>4, RunHelpers DEF RunTo, Nodes, Early
<1> QED
  BY <1>1, <1>5

LEMMA ReviewGood ==
  ASSUME FlowInv, NEW m \in Operations, MoveToProviderManualReview(m)
  PROVE  StepGood
<1> DEFINE o == run[m].operation_id
<1>0. o \in Operations /\ FlowTypeOK /\ RestType /\ row[o] \in RowType
  BY RunFacts
<1>1. CASE status[o] = "pending_confirmation"
  <2> DEFINE c == row'[o].support_case_id
  <2>1. /\ status' = WithStatus({o}, "manual_review") /\ LinkReviewCase(o)
        /\ Committed(m, Fallback(m, c))
        /\ UNCHANGED <<delivery, decided>>
    BY <1>1 DEF MoveToProviderManualReview
  <2>2. row[o].support_case_id = NoCase
    BY <1>0, <1>1, OpFacts DEF OpInv
  <2>3. status'[o] = "manual_review" /\ \A p \in Operations : p # o => status'[p] = status[p]
    BY <1>0, <2>1 DEF WithStatus
  <2>4. OpChanged(o)
    <3>1. row'[o].version > row[o].version
      BY <1>0, <2>1, LinkedCase
    <3> QED
      BY <1>1, <2>1, <2>2, <2>3, <3>1 DEF OpChanged
  <2>5. \A p \in Operations : OpShape(p)
    BY <1>0, <2>1, <2>3, <2>4, LinkedCase, OneOperation, Zenon
  <2>6. c \in CaseIds
    BY <1>0, <2>1, LinkedCase
  <2> HIDE DEF c
  <2>7. Fallback(m, c) \in Run /\ RunTo(m, Fallback(m, c))
    BY <2>3, <2>6, FallbackGood
  <2>8. RestType'
    BY <1>0, <2>1, <2>7, OneRun, LinkedCase DEF RestType
  <2>9. LifecycleNext
    BY <1>0, <1>1, <2>1, Zenon DEF LifecycleNext, Review
  <2> QED
    BY <1>0, <2>1, <2>5, <2>7, <2>8, <2>9, OneRun DEF StepGood
<1>2. CASE status[o] # "pending_confirmation"
  <2>1. /\ UNCHANGED <<delivery, status, row, decided, review, failed, trigger>>
        /\ \/ Continue(m, Raise(run[m]))
           \/ /\ Continue(m, Fallback(m, row[o].support_case_id))
              /\ status[o] = "manual_review" /\ row[o].support_case_id # NoCase
    BY <1>2 DEF MoveToProviderManualReview
  <2>2. row[o].support_case_id # NoCase => row[o].support_case_id \in CaseIds
    BY <1>0 DEF RowType
  <2>3. CASE Continue(m, Raise(run[m]))
    BY <1>0, <2>1, <2>3, SmallMoves, QuietType, QuietRun, Zenon
  <2>4. CASE /\ Continue(m, Fallback(m, row[o].support_case_id))
             /\ status[o] = "manual_review" /\ row[o].support_case_id # NoCase
    <3> DEFINE r == Fallback(m, row[o].support_case_id)
    <3>1. status'[o] = "manual_review"
      BY <2>1, <2>4
    <3>2. r \in Run /\ RunTo(m, r)
      BY <2>2, <2>4, <3>1, FallbackGood
    <3> HIDE DEF r
    <3> QED
      BY <1>0, <2>1, <2>4, <3>2, QuietType, QuietRun DEF r
  <2> QED
    BY <2>1, <2>3, <2>4
<1> QED
  BY <1>1, <1>2

LEMMA AttachGood ==
  ASSUME FlowInv, NEW m \in Operations, AttachSupportCase(m)
  PROVE  StepGood
<1> DEFINE o == run[m].operation_id
<1>0. /\ o \in Operations /\ run[m].node = "attach" /\ run[m].step = "write"
      /\ FlowTypeOK /\ RestType /\ row[o] \in RowType /\ run[m] \in Run
      /\ UNCHANGED <<delivery, status, decided, review, failed, trigger>>
  BY RunFacts DEF AttachSupportCase, At
<1>1. CASE ~Unchanged(m)
  <2> DEFINE r == [run[m] EXCEPT !.step = "read", !.tries = @ + 1, !.seen = 0]
  <2>1. Continue(m, r) /\ r \in Run /\ RunTo(m, r) /\ row' = row
    BY <1>1, SmallMoves, Zenon DEF AttachSupportCase
  <2> HIDE DEF r
  <2> QED
    BY <1>0, <2>1, QuietType, QuietRun
<1>2. CASE Unchanged(m)
  <2> DEFINE new == [row[o] EXCEPT !.support_case_id = run[m].support_case_id,
                                   !.version = @ + 1]
             r == Enter(run[m], "done")
  <2>1. row' = [row EXCEPT ![o] = new] /\ Committed(m, r)
    <3>1. /\ row' = [row EXCEPT ![o].support_case_id = run[m].support_case_id,
                               ![o].version = @ + 1]
          /\ Committed(m, r)
      BY <1>2 DEF AttachSupportCase
    <3>2. row \in [Operations -> RowType]
      BY <1>0 DEF RestType
    <3> HIDE DEF o, r
    <3> QED
      BY <1>0, <3>1, <3>2 DEF RowType
  <2>2. status[o] = "manual_review" /\ row[o].support_case_id = NoCase
    BY <1>0, <1>2, RunFacts DEF RunInv, WriteSafe, Unchanged
  <2>3. new \in RowType /\ new.version > row[o].version
    <3> DEFINE c == run[m].support_case_id
    <3>1. c \in CaseIds \cup {NoCase}
      BY <1>0 DEF Run
    <3> DEFINE v == row[o].version + 1
    <3>2. v \in Nat /\ v > row[o].version
      BY <1>0 DEF RowType
    <3> HIDE DEF o, c, v
    <3>3. /\ [row[o] EXCEPT !.support_case_id = c, !.version = v] \in RowType
          /\ [row[o] EXCEPT !.support_case_id = c, !.version = v].version = v
      BY <1>0, <3>1, <3>2, Zenon DEF RowType
    <3> QED
      BY <3>2, <3>3 DEF c, v
  <2> HIDE DEF new
  <2>4. /\ row' \in [Operations -> RowType] /\ row'[o].version > row[o].version
        /\ \A p \in Operations : p # o => row'[p] = row[p]
    BY <1>0, <2>1, <2>3 DEF RestType
  <2>5. OpChanged(o)
    BY <1>0, <2>2, <2>4 DEF OpChanged
  <2>6. \A p \in Operations : OpShape(p)
    BY <1>0, <2>4, <2>5, OneOperation
  <2>7. r \in Run /\ RunTo(m, r)
    BY <1>0, RunHelpers, Zenon DEF RunTo, Nodes, Early
  <2> HIDE DEF r
  <2>8. RestType'
    BY <1>0, <2>1, <2>4, <2>7, OneRun DEF RestType
  <2>9. UNCHANGED lifecycle
    BY <1>0, Zenon DEF lifecycle
  <2> QED
    BY <1>0, <2>1, <2>6, <2>7, <2>8, <2>9, OneRun DEF StepGood
<1> QED
  BY <1>1, <1>2

LEMMA ProviderGood ==
  ASSUME FlowInv, NEW o \in Operations, ProviderSide(o)
  PROVE  StepGood
<1>0. /\ FlowTypeOK /\ RestType /\ UNCHANGED <<decided, run, crashes>>
      /\ row \in [Operations -> RowType] /\ row[o] \in RowType /\ o \in Commands
      /\ delivery \in [Commands -> Deliveries]
      /\ \A n \in Operations : RunTo(n, run'[n])
  BY RunFacts, OpFacts, Zenon DEF ProviderSide, RunTo
<1>1. CASE /\ Accept(o) \/ Reject(o) \/ Callback(o)
           /\ Touch(o) /\ UNCHANGED <<review, failed, trigger>>
  <2>1. delivery[o] \in {"undecided", "published"}
    BY <1>1 DEF Accept, Reject, Callback
  <2>2. status[o] \notin {"absent", "manual_review"}
    BY <2>1, OpFacts
  <2>3. row[o].support_case_id = NoCase
    BY <2>2, OpFacts DEF OpInv
  <2>4. /\ status'[o] \in {"submitted", "processing", "completed", "rejected"}
        /\ \A p \in Operations : p # o => status'[p] = status[p]
    BY <1>1 DEF Accept, Reject, Callback, WithStatus, Progress
  <2>5. \A p \in Operations : p # o => delivery'[p] = delivery[p]
    BY <1>0, <1>1 DEF Accept, Reject, Callback, Commands
  <2>6. row'[o].version > row[o].version /\ row'[o].support_case_id = NoCase
    BY <1>1, <2>3, Touched
  <2>7. OpChanged(o)
    BY <1>0, <2>2, <2>3, <2>4, <2>6 DEF OpChanged
  <2>8. \A p \in Operations : OpShape(p)
    BY <1>0, <1>1, <2>4, <2>5, <2>7, Touched, OneOperation
  <2>9. RestType'
    BY <1>0, <1>1, Touched DEF RestType
  <2>10. LifecycleNext
    BY <1>0, <1>1 DEF LifecycleNext
  <2> QED
    BY <1>0, <2>8, <2>9, <2>10 DEF StepGood
<1>2. CASE Fail({o}) /\ LinkReviewCase(o)
  <2>1. delivery[o] = "undecided"
    BY <1>2 DEF Fail
  <2>2. status[o] = "queued" /\ row[o].support_case_id = NoCase
    BY <2>1, OpFacts DEF OpInv
  <2>4. status'[o] = "manual_review" /\ \A p \in Operations : p # o => status'[p] = status[p]
    BY <1>2 DEF Fail, WithStatus
  <2>5. \A p \in Operations : p # o => delivery'[p] = delivery[p]
    BY <1>0, <1>2 DEF Fail, Commands
  <2>6. row'[o].version > row[o].version
    BY <1>2, LinkedCase
  <2>7. OpChanged(o)
    BY <1>0, <2>2, <2>4, <2>6 DEF OpChanged
  <2>8. \A p \in Operations : OpShape(p)
    BY <1>0, <1>2, <2>4, <2>5, <2>7, LinkedCase, OneOperation
  <2>9. RestType'
    BY <1>0, <1>2, LinkedCase DEF RestType
  <2>10. LifecycleNext
    BY <1>0, <1>2 DEF LifecycleNext
  <2> QED
    BY <1>0, <2>8, <2>9, <2>10 DEF StepGood
<1>3. CASE /\ Redrive(o)
           /\ row' = [row EXCEPT ![o] = [requires_manual_review |-> FALSE,
                                         support_case_id |-> NoCase,
                                         version |-> @.version + 1]]
           /\ UNCHANGED <<review, failed, trigger>>
  <2> DEFINE new == [requires_manual_review |-> FALSE, support_case_id |-> NoCase,
                     version |-> row[o].version + 1]
  <2>1. row' = [row EXCEPT ![o] = new] /\ delivery[o] = "failed" /\ delivery'[o] = "undecided"
    BY <1>0, <1>3 DEF Redrive
  <2>2. status[o] = "manual_review"
    BY <2>1, OpFacts
  <2>3. /\ new \in RowType /\ new.version > row[o].version
        /\ new.support_case_id = NoCase
    BY <1>0 DEF RowType
  <2> HIDE DEF new
  <2>4. /\ row' \in [Operations -> RowType] /\ row'[o] = new
        /\ \A p \in Operations : p # o => row'[p] = row[p]
    BY <1>0, <2>1, <2>3
  <2>5. status'[o] = "queued" /\ \A p \in Operations : p # o => status'[p] = status[p]
    BY <1>3 DEF Redrive, WithStatus
  <2>6. \A p \in Operations : p # o => delivery'[p] = delivery[p]
    BY <1>0, <1>3 DEF Redrive, Commands
  <2>7. OpChanged(o)
    BY <1>0, <2>1, <2>2, <2>3, <2>4, <2>5 DEF OpChanged
  <2>8. \A p \in Operations : OpShape(p)
    BY <1>0, <2>4, <2>5, <2>6, <2>7, OneOperation
  <2>9. RestType'
    BY <1>0, <1>3, <2>4 DEF RestType
  <2>10. LifecycleNext
    BY <1>0, <1>3 DEF LifecycleNext
  <2> QED
    BY <1>0, <2>8, <2>9, <2>10 DEF StepGood
<1> QED
  BY <1>1, <1>2, <1>3 DEF ProviderSide

LEMMA EveryStepGood == FlowInv /\ [Next]_vars => StepGood
<1> SUFFICES ASSUME FlowInv, [Next]_vars PROVE StepGood
  OBVIOUS
<1>1. CASE UNCHANGED vars
  <2>1. UNCHANGED <<delivery, status, row, decided, review, failed, trigger, run, crashes>>
    BY <1>1 DEF vars, flow
  <2>2. RestType'
    BY <2>1, TypeParts DEF FlowInv, RestType
  <2> QED
    BY <2>1, <2>2, Zenon DEF StepGood, lifecycle, OpShape, RunTo
<1>2. ASSUME NEW m \in Operations, RunStep(m) PROVE StepGood
  BY <1>2, LookupGood, CreateGood, DecisionReadGood, DecisionGood, QueueReadGood, ReviewGood,
     QueueGood, HandoffGood, AttachReadGood, AttachGood DEF RunStep
<1>3. ASSUME NEW m \in Operations,
             SendMessage(m) \/ Crash(m) \/ Reinvoke(m) \/ \E yes \in BOOLEAN : Answer(m, yes)
      PROVE  StepGood
  BY <1>3, MessageGood, RestartGood, AnswerGood
<1> QED
  BY <1>1, <1>2, <1>3, ProviderGood, StaffGood DEF Next

-----------------------------------------------------------------------------
(* Invariance. *)

(* What has been told stays true: no step takes back a cancellation, a       *)
(* confirmation or a command, and only a new operation becomes active.       *)
LEMMA StatusKept ==
  ASSUME FlowInv, StepGood, NEW o \in Operations
  PROVE  /\ delivery[o] # "none" => delivery'[o] # "none"
         /\ status[o] = "cancelled_by_customer" => status'[o] = "cancelled_by_customer"
         /\ status[o] \notin {"absent", "pending_confirmation", "cancelled_by_customer"} =>
              status'[o] \notin {"absent", "pending_confirmation", "cancelled_by_customer"}
         /\ status[o] \notin {"absent", "pending_confirmation"} =>
              status'[o] \notin {"absent", "pending_confirmation"}
         /\ status'[o] \in ACTIVE_STATUSES => status[o] \in ACTIVE_STATUSES \cup {"absent"}
<1>1. OperationStep(o) /\ Agrees(o)
  BY TypeParts, LifecycleShape, Zenon DEF FlowInv, StepGood, Agreement, Agrees
<1>2. CASE delivery[o] = "published" /\ delivery'[o] = "published"
           /\ status'[o] \in Progress(status[o])
  BY <1>2 DEF Progress, ACTIVE_STATUSES
<1> QED
  BY <1>1, <1>2 DEF OperationStep, Agrees, ACTIVE_STATUSES

LEMMA OpInvStep ==
  ASSUME FlowInv, StepGood, NEW o \in Operations
  PROVE  OpInv(o)'
<1>1. OpInv(o) /\ OpShape(o)
  BY DEF FlowInv, StepGood
<1>2. CASE row'[o] = row[o] /\ status'[o] = status[o] /\ decided'[o] = decided[o]
  BY <1>1, <1>2 DEF OpInv
<1>3. CASE OpChanged(o)
  <2>1. "cancel" \in decided'[o] => status'[o] = "cancelled_by_customer"
    BY <1>1, <1>3, StatusKept DEF OpChanged, OpInv
  <2>2. "manual" \in decided'[o] =>
          status'[o] \notin {"absent", "pending_confirmation", "cancelled_by_customer"}
    BY <1>1, <1>3, StatusKept DEF OpChanged, OpInv
  <2> QED
    BY <1>3, <2>1, <2>2 DEF OpChanged, OpInv
<1> QED
  BY <1>1, <1>2, <1>3, Zenon DEF OpShape

LEMMA RunInvStep ==
  ASSUME FlowInv, StepGood, NEW m \in Operations
  PROVE  RunInv(m)'
<1> DEFINE r == run'[m]
           o == run[m].operation_id
<1>1. RunInv(m) /\ RunTo(m, r) /\ o \in Operations /\ r.operation_id \in Operations
  <2>1. run'[m] \in Run
    BY DEF StepGood, RestType
  <2>2. run'[m].operation_id \in Operations
    BY <2>1 DEF Run
  <2> QED
    BY <2>2, RunFacts, Zenon DEF StepGood
<1>2. OpShape(o)
  BY <1>1 DEF StepGood
<1>3. r.told = run[m].told /\ r.operation_id = o => Truth(m)'
  BY <1>1, StatusKept DEF RunInv, Truth
<1>4. CASE r = run[m]
  <2>1. row[o].version \in Nat /\ row'[o].version \in Nat /\ run[m].seen \in Nat
    <3>1. row[o] \in RowType /\ row'[o] \in RowType /\ run[m] \in Run
      BY <1>1, RunFacts DEF StepGood, RestType
    <3> QED
      BY <3>1 DEF RowType, Run
  <2>2. WriteSafe(m)'
    <3>1. CASE row'[o] = row[o] /\ status'[o] = status[o]
      BY <1>1, <1>4, <3>1, Zenon DEF RunInv, WriteSafe
    <3>2. CASE row'[o].version > row[o].version
      <4>1. run[m].step = "write" /\ run[m].node # "evaluate" =>
              row[o].version >= run[m].seen
        BY <1>1 DEF RunInv, WriteSafe
      <4>2. run[m].step = "write" /\ run[m].node # "evaluate" =>
              row'[o].version >= run[m].seen /\ row'[o].version # run[m].seen
        BY <2>1, <3>2, <4>1
      <4> QED
        BY <1>4, <4>2, Zenon DEF WriteSafe
    <3> QED
      BY <1>2, <3>1, <3>2, Zenon DEF OpShape, OpChanged
  <2> QED
    BY <1>1, <1>3, <1>4, <2>2 DEF RunInv
<1>5. CASE r.told = "nothing" /\ (r.step = "write" => r.node = "evaluate")
  BY <1>5 DEF RunInv, Truth, WriteSafe
<1>6. CASE /\ r.told = run[m].told /\ r.operation_id = o
           /\ r.step = "write" => r.node = "evaluate"
           /\ run[m].told = "nothing" \/ r.node \notin Early \/ r.node = run[m].node
  BY <1>1, <1>3, <1>6 DEF RunInv, WriteSafe
<1>7. CASE /\ Quiet
           /\ r.told = run[m].told /\ r.operation_id = o /\ r.node = run[m].node
           /\ r.seen = row[o].version
           /\ r.node # "attach" => status[o] = "pending_confirmation"
           /\ r.node = "attach" => status[o] = "manual_review" /\ row[o].support_case_id = NoCase
  <2>1. row[o].version \in Nat
    BY <1>1, RunFacts DEF RowType
  <2>2. WriteSafe(m)'
    BY <1>7, <2>1 DEF WriteSafe, Quiet
  <2> QED
    BY <1>1, <1>3, <1>7, <2>2 DEF RunInv
<1>8. CASE TruthAfter(r.told, r.operation_id) /\ r.node \notin Early /\ r.step # "write"
  BY <1>8 DEF RunInv, Truth, TruthAfter, WriteSafe
<1> QED
  BY <1>1, <1>4, <1>5, <1>6, <1>7, <1>8, Zenon DEF RunTo

LEMMA OneActiveStep ==
  ASSUME FlowInv, StepGood
  PROVE  OneActive'
<1> SUFFICES ASSUME NEW o \in Operations, NEW p \in Operations, o # p,
                    OrderOf[o] = OrderOf[p], status'[o] \in ACTIVE_STATUSES,
                    status'[p] \in ACTIVE_STATUSES
             PROVE  FALSE
  BY DEF OneActive
<1>1. ASSUME NEW q \in Operations, NEW n \in Operations, q # n, OrderOf[q] = OrderOf[n],
             status'[n] \in ACTIVE_STATUSES, status'[q] \in ACTIVE_STATUSES,
             status[q] = "absent"
      PROVE  FALSE
  <2>1. OpShape(q) /\ status'[q] # status[q]
    BY <1>1 DEF StepGood, ACTIVE_STATUSES
  <2>2. ActiveOn(OrderOf[q]) = {} /\ status'[n] = status[n]
    BY <1>1, <2>1 DEF OpShape, OpChanged
  <2> QED
    BY <1>1, <2>2 DEF ActiveOn
<1>2. status[o] \in ACTIVE_STATUSES /\ status[p] \in ACTIVE_STATUSES
  BY <1>1, StatusKept
<1> QED
  BY <1>2 DEF FlowInv, OneActive

LEMMA FlowInvStep == FlowInv /\ [Next]_vars => FlowInv'
<1> SUFFICES ASSUME FlowInv, [Next]_vars PROVE FlowInv'
  OBVIOUS
<1>1. StepGood
  BY EveryStepGood
<1>2. LifecycleType /\ Agreement /\ [LifecycleNext]_lifecycle
  BY <1>1, TypeParts DEF FlowInv, StepGood
<1>3. LifecycleType' /\ Agreement'
  BY <1>2, TypeOfStep, AgreementKept
<1>4. FlowTypeOK'
  BY <1>1, <1>3 DEF StepGood, FlowTypeOK, RestType, Run, RowType
<1>5. \A o \in Operations : OpInv(o)' /\ RunInv(o)'
  BY <1>1, OpInvStep, RunInvStep
<1>6. OneActive'
  BY <1>1, OneActiveStep
<1> QED
  BY <1>3, <1>4, <1>5, <1>6 DEF FlowInv

LEMMA FlowInvInit == Init => FlowInv
<1> SUFFICES ASSUME Init PROVE FlowInv
  OBVIOUS
<1>1. LifecycleType /\ Agreement
  BY LifecycleStart DEF Init
<1>2. RestType
  <2>1. run \in [Operations -> Run]
    BY FreshRunType DEF Init
  <2>2. row \in [Operations -> RowType]
    BY DEF Init, RowType
  <2>3. review \in [Threads -> [count : 0 .. MaxCases, open : BOOLEAN]]
    BY FlowBounds DEF Init
  <2> QED
    BY <2>1, <2>2, <2>3, Zenon DEF Init, RestType
<1>3. OneActive
  BY DEF Init, OneActive, ACTIVE_STATUSES
<1>4. ASSUME NEW o \in Operations PROVE OpInv(o) /\ RunInv(o)
  <2>1. run[o].told = "nothing" /\ run[o].step = "read"
    BY DEF Init, FreshRun
  <2>2. RunInv(o)
    BY <2>1 DEF RunInv, Truth, WriteSafe
  <2>3. OpInv(o)
    BY DEF Init, OpInv
  <2> QED
    BY <2>2, <2>3
<1> QED
  BY <1>1, <1>2, <1>3, <1>4, TypeParts DEF FlowInv

LEMMA FlowInvariance == Spec => []FlowInv
BY FlowInvInit, FlowInvStep, PTL DEF Spec

(* Rows, runs and review cases keep their types, and a linked case exists    *)
(* (OperationRecord and the state the graph checkpoints).                    *)
THEOREM FlowTypes == Spec => []FlowTypeOK
<1>1. FlowInv => FlowTypeOK
  BY DEF FlowInv
<1> QED
  BY <1>1, FlowInvariance, PTL

(* At most one operation of an order is active, for any number of messages,  *)
(* conversations and crashes: the unique index is checked in the transaction *)
(* that inserts the row, and nothing brings an ended operation back          *)
(* (create_pending_operation).                                               *)
THEOREM OneActiveSafety == Spec => []OneActivePerOrder
<1>1. FlowInv => OneActivePerOrder
  BY DEF FlowInv, OneActive, OneActivePerOrder, ActiveOn
<1> QED
  BY <1>1, FlowInvariance, PTL

(* Every answer stays true of the operation it is about, whichever           *)
(* conversation decided it and however often a run was killed after its      *)
(* commit: a write is only made on the version that was read as pending      *)
(* (_change_from_pending, queue_confirmed_operation, move_to_manual_review). *)
THEOREM AnswerSafety == Spec => []TruthfulAnswers
<1>1. FlowInv => TruthfulAnswers
  BY DEF FlowInv, RunInv, Truth, TruthfulAnswers
<1> QED
  BY <1>1, FlowInvariance, PTL

(* The case of an operation is never replaced: a stale or repeated           *)
(* attach_support_case fails its version check, and only a redrive clears    *)
(* the link.                                                                 *)
THEOREM CaseLinkSafety == Spec => CaseLinkKept
<1>1. FlowInv /\ [Next]_vars =>
        [\A o \in Operations :
           row[o].support_case_id # NoCase /\ row'[o].support_case_id # row[o].support_case_id =>
             delivery[o] = "failed" /\ delivery'[o] = "undecided"]_vars
  BY EveryStepGood, Zenon DEF StepGood, OpShape, OpChanged
<1> QED
  BY <1>1, FlowInvariance, PTL DEF Spec, CaseLinkKept

-----------------------------------------------------------------------------
(* ReviewHandedOver.  An operation that is settled, decided and linked to a  *)
(* case if it is under review, stays settled: only a failed delivery brings  *)
(* it back to review, and it links a case in the same transaction.           *)
Settled(o) ==
  /\ status[o] \notin {"absent", "pending_confirmation"}
  /\ status[o] = "manual_review" => row[o].support_case_id # NoCase

(* A run that has announced a review is on its way to link a case, unless    *)
(* its operation is settled; a run about to write has a case to link.        *)
HandedBy(r, settled) ==
  /\ r.told = "review" =>
       /\ ~r.reasons \/ r.operation_status # "manual_review" => settled
       /\ r.node = "attach" /\ ~r.marked /\ r.reasons => r.support_case_id # NoCase
       /\ r.node = "done" /\ ~r.marked => settled
  /\ r.node = "attach" /\ r.step = "write" => r.support_case_id # NoCase

Handed(m) == HandedBy(run[m], Settled(run[m].operation_id))

ReviewInv == FlowInv /\ \A m \in Operations : Handed(m)

(* The same in the next state. *)
SettledAfter(o) ==
  /\ status'[o] \notin {"absent", "pending_confirmation"}
  /\ status'[o] = "manual_review" => row'[o].support_case_id # NoCase

HandedAfter(r) == HandedBy(r, SettledAfter(r.operation_id))

LEMMA NoCaseIsNone == NoCase \notin CaseIds
<1> SUFFICES ASSUME NEW t \in Threads, NEW n \in 1 .. MaxCases, NoCase = <<t, n>> PROVE FALSE
  BY DEF CaseIds
<1>1. DOMAIN NoCase = 1 .. 1 /\ DOMAIN <<t, n>> = 1 .. 2
  BY DEF NoCase
<1>2. 2 \notin 1 .. 1 /\ 2 \in 1 .. 2
  OBVIOUS
<1> QED
  BY <1>1, <1>2

LEMMA SettledKept ==
  ASSUME ReviewInv, [Next]_vars, NEW o \in Operations, Settled(o)
  PROVE  SettledAfter(o)
<1>1. /\ FlowInv /\ StepGood /\ status[o] \notin {"absent", "pending_confirmation"}
      /\ status'[o] \notin {"absent", "pending_confirmation"}
  BY EveryStepGood, StatusKept DEF ReviewInv, Settled
<1>2. CASE row'[o] = row[o] /\ status'[o] = status[o]
  BY <1>1, <1>2 DEF Settled, SettledAfter
<1>3. CASE status'[o] # "manual_review"
  BY <1>1, <1>3 DEF SettledAfter
<1>4. CASE row'[o].support_case_id # NoCase
  BY <1>1, <1>4 DEF SettledAfter
<1>5. ASSUME NEW p, NEW s, p # o, status' = WithStatus({p}, s) PROVE status'[o] = status[o]
  BY <1>5 DEF WithStatus
<1>6. row \in [Operations -> RowType]
  BY <1>1, TypeParts DEF FlowInv, RestType
<1>7. ASSUME NEW m \in Operations, CreateOperation(m) PROVE SettledAfter(o)
  <2>1. CASE UNCHANGED <<status, row>>
    BY <1>2, <2>1
  <2>2. CASE /\ status' = WithStatus({m}, "pending_confirmation") /\ status[m] = "absent"
             /\ \E new : row' = [row EXCEPT ![m] = new]
    <3>1. m # o
      BY <1>1, <2>2
    <3>2. row'[o] = row[o]
      BY <1>6, <2>2, <3>1
    <3> QED
      BY <1>2, <1>5, <2>2, <3>1, <3>2, Zenon
  <2> QED
    BY <1>7, <2>1, <2>2 DEF CreateOperation, UniqueViolation
<1>8. ASSUME NEW m \in Operations,
             WriteDecision(m) \/ QueueOperation(m) \/ MoveToProviderManualReview(m)
      PROVE  SettledAfter(o)
  <2> DEFINE p == run[m].operation_id
  <2>1. p \in Operations /\ RunInv(m)
    BY <1>1, RunFacts
  <2>2. CASE row' = row /\ status' = status
    BY <1>2, <2>2
  <2>3. CASE ~(row' = row /\ status' = status)
    <3>1. status[p] = "pending_confirmation"
      BY <1>8, <2>1, <2>3 DEF WriteDecision, QueueOperation, MoveToProviderManualReview,
           Unchanged, RunInv, WriteSafe, At, Decisions
    <3>2. p # o
      BY <1>1, <3>1
    <3>3. /\ \E s : status' = WithStatus({p}, s)
          /\ Touch(p) \/ LinkReviewCase(p)
      BY <1>8, <2>3 DEF WriteDecision, QueueOperation, MoveToProviderManualReview
    <3>4. row'[o] = row[o]
      BY <1>6, <3>2, <3>3 DEF Touch, LinkReviewCase
    <3> QED
      BY <1>2, <1>5, <3>2, <3>3, <3>4
  <2> QED
    BY <2>2, <2>3
<1>9. ASSUME NEW m \in Operations, AttachSupportCase(m) PROVE SettledAfter(o)
  <2>1. Handed(m) /\ status' = status /\ run[m].operation_id \in Operations
    BY <1>1, <1>9, RunFacts DEF ReviewInv, AttachSupportCase
  <2>2. run[m].support_case_id # NoCase
    BY <1>9, <2>1 DEF AttachSupportCase, At, Handed, HandedBy
  <2>3. row'[o] = row[o] \/ row'[o].support_case_id = run[m].support_case_id
    BY <1>6, <1>9, <2>1 DEF AttachSupportCase, RowType
  <2> QED
    BY <1>2, <1>4, <2>1, <2>2, <2>3
<1>10. ASSUME NEW p \in Operations, ProviderSide(p) PROVE SettledAfter(o)
  <2>1. CASE p # o
    <3>1. row'[o] = row[o]
      BY <1>6, <1>10, <2>1 DEF ProviderSide, Touch, LinkReviewCase
    <3>2. \E s : status' = WithStatus({p}, s)
      BY <1>10 DEF ProviderSide, Accept, Reject, Callback, Fail, Redrive
    <3> QED
      BY <1>2, <1>5, <2>1, <3>1, <3>2, Zenon
  <2>2. CASE p = o
    <3>1. CASE Fail({o}) /\ LinkReviewCase(o)
      BY <1>1, <1>4, <3>1, LinkedCase, NoCaseIsNone
    <3>2. CASE Accept(o) \/ Reject(o) \/ Callback(o) \/ Redrive(o)
      <4>1. status'[o] # "manual_review"
        BY <3>2 DEF Accept, Reject, Callback, Redrive, WithStatus, Progress
      <4> QED
        BY <1>3, <4>1
    <3> QED
      BY <1>10, <2>2, <3>1, <3>2 DEF ProviderSide
  <2> QED
    BY <2>1, <2>2
<1>11. CASE UNCHANGED <<status, row>>
  BY <1>2, <1>11
<1> QED
  <2>1. ASSUME NEW m \in Operations, RunStep(m) PROVE SettledAfter(o)
    <3>1. CASE \/ FindBySourceMessage(m) \/ FindActiveByOrderId(m) \/ StartDecision(m)
               \/ ReadForDecision(m) \/ ReadToQueue(m) \/ FinalizeCaseHandoff(m)
               \/ ReadToAttach(m)
      BY <1>11, <3>1 DEF FindBySourceMessage, FindActiveByOrderId, StartDecision,
           ReadForDecision, ReadToQueue, FinalizeCaseHandoff, ReadToAttach
    <3> QED
      BY <1>7, <1>8, <1>9, <2>1, <3>1 DEF RunStep
  <2>2. ASSUME NEW m \in Operations,
               SendMessage(m) \/ Crash(m) \/ Reinvoke(m) \/ \E yes \in BOOLEAN : Answer(m, yes)
        PROVE  SettledAfter(o)
    BY <1>11, <2>2 DEF SendMessage, Crash, Reinvoke, Answer
  <2>3. ASSUME NEW t \in Threads, StaffResolves(t) PROVE SettledAfter(o)
    BY <1>11, <2>3 DEF StaffResolves
  <2>4. CASE UNCHANGED vars
    BY <1>11, <2>4 DEF vars, flow
  <2> QED
    BY <1>10, <2>1, <2>2, <2>3, <2>4 DEF Next

LEMMA EnterView ==
  ASSUME NEW r \in Run, NEW node \in Nodes
  PROVE  /\ Enter(r, node) \in Run /\ Enter(r, node).node = node
         /\ Enter(r, node).step = "read" /\ Enter(r, node).told = r.told
         /\ Enter(r, node).operation_id = r.operation_id
         /\ Enter(r, node).operation_status = r.operation_status
         /\ Enter(r, node).reasons = r.reasons /\ Enter(r, node).marked = r.marked
         /\ Enter(r, node).support_case_id = r.support_case_id
BY Zenon DEF Enter, Run, Steps

(* A run that goes on with what it knows, at the same node. *)
SameView(r, q) ==
  /\ r.told = q.told /\ r.operation_id = q.operation_id /\ r.node = q.node
  /\ r.operation_status = q.operation_status /\ r.reasons = q.reasons
  /\ r.marked = q.marked /\ r.support_case_id = q.support_case_id

(* The moves of a run inside its node. *)
LEMMA InsideView ==
  ASSUME NEW q \in Run, NEW step \in Steps, NEW seen \in Nat
  PROVE  /\ [q EXCEPT !.step = step] \in Run
         /\ SameView([q EXCEPT !.step = step], q)
         /\ [q EXCEPT !.step = step, !.seen = seen] \in Run
         /\ SameView([q EXCEPT !.step = step, !.seen = seen], q)
         /\ [q EXCEPT !.step = step, !.tries = @ + 1] \in Run
         /\ SameView([q EXCEPT !.step = step, !.tries = @ + 1], q)
         /\ [q EXCEPT !.step = step, !.tries = @ + 1, !.seen = seen] \in Run
         /\ SameView([q EXCEPT !.step = step, !.tries = @ + 1, !.seen = seen], q)
<1>1. [q EXCEPT !.step = step] \in Run /\ SameView([q EXCEPT !.step = step], q)
  BY DEF Run, SameView
<1>2. /\ [q EXCEPT !.step = step, !.seen = seen] \in Run
      /\ SameView([q EXCEPT !.step = step, !.seen = seen], q)
  BY Zenon DEF Run, SameView
<1>3. \A n \in Nat : /\ [q EXCEPT !.step = step, !.tries = n] \in Run
                     /\ SameView([q EXCEPT !.step = step, !.tries = n], q)
  BY Zenon DEF Run, SameView
<1>4. \A n \in Nat :
        /\ [q EXCEPT !.step = step, !.tries = n, !.seen = seen] \in Run
        /\ SameView([q EXCEPT !.step = step, !.tries = n, !.seen = seen], q)
  BY Zenon DEF Run, SameView
<1>5. q.tries + 1 \in Nat
  BY DEF Run
<1>6. /\ [q EXCEPT !.step = step, !.tries = @ + 1] \in Run
      /\ SameView([q EXCEPT !.step = step, !.tries = @ + 1], q)
  BY <1>3, <1>5, Zenon
<1>7. /\ [q EXCEPT !.step = step, !.tries = @ + 1, !.seen = seen] \in Run
      /\ SameView([q EXCEPT !.step = step, !.tries = @ + 1, !.seen = seen], q)
  BY <1>4, <1>5, Zenon
<1> QED
  BY <1>1, <1>2, <1>6, <1>7, Zenon

LEMMA RaiseView ==
  ASSUME NEW q \in Run
  PROVE  Raise(q) \in Run /\ SameView(Raise(q), q) /\ Raise(q).step = "failed"
<1>1. "failed" \in Steps /\ 0 \in Nat
  BY DEF Steps
<1>2. Raise(q) \in Run /\ SameView(Raise(q), q)
  BY <1>1, InsideView, Zenon DEF Raise
<1> QED
  BY <1>2 DEF Raise, Run

LEMMA HandedKept ==
  ASSUME ReviewInv, [Next]_vars, NEW m \in Operations, NEW r, SameView(r, run[m]),
         r.node = "attach" /\ r.step = "write" => r.support_case_id # NoCase
  PROVE  HandedAfter(r)
<1>1. Handed(m) /\ run[m].operation_id \in Operations
  BY RunFacts DEF ReviewInv
<1>2. Settled(run[m].operation_id) => SettledAfter(r.operation_id)
  BY <1>1, SettledKept DEF SameView
<1> QED
  BY <1>1, <1>2 DEF Handed, HandedBy, HandedAfter, SameView

LEMMA HandedMove ==
  ASSUME ReviewInv, [Next]_vars, NEW m \in Operations, NEW r \in Run, HandedAfter(r),
         Continue(m, r) \/ Committed(m, r)
  PROVE  \A n \in Operations : HandedAfter(run'[n])
<1>1. FlowTypeOK /\ run[m] \in Run /\ run[m].node \in Nodes
  BY RunFacts, Zenon DEF ReviewInv
<1>2. HandedAfter(Enter(run[m], run[m].node))
  <2> DEFINE q == Enter(run[m], run[m].node)
  <2>1. SameView(q, run[m]) /\ q.step # "write"
    BY <1>1, EnterView, Zenon DEF SameView
  <2> HIDE DEF q
  <2>2. HandedAfter(q)
    BY <2>1, HandedKept
  <2> QED
    BY <2>2 DEF q
<1>3. ASSUME NEW n \in Operations, n # m PROVE HandedAfter(run'[n])
  <2>1. run'[n] = run[n]
    BY <1>1, <1>3, ContinueType
  <2>2. run[n].node = "attach" /\ run[n].step = "write" => run[n].support_case_id # NoCase
    BY DEF ReviewInv, Handed, HandedBy
  <2>3. HandedAfter(run[n])
    BY <2>2, HandedKept DEF SameView
  <2> QED
    BY <2>1, <2>3
<1>4. run'[m] = r \/ run'[m] = Enter(run[m], run[m].node)
  BY <1>1, ContinueType
<1> QED
  BY <1>2, <1>3, <1>4, Zenon

(* Nothing is announced yet, or something else than a review. *)
LEMMA HandedOtherwise ==
  ASSUME NEW r, r.told # "review", r.node # "attach"
  PROVE  HandedAfter(r)
BY DEF HandedAfter, HandedBy

LEMMA HandedEarly ==
  ASSUME ReviewInv, [Next]_vars, NEW m \in Operations,
         \/ SendMessage(m) \/ Crash(m) \/ Reinvoke(m) \/ FindBySourceMessage(m)
         \/ FindActiveByOrderId(m) \/ CreateOperation(m) \/ \E yes \in BOOLEAN : Answer(m, yes)
  PROVE  \A n \in Operations : HandedAfter(run'[n])
<1>1. /\ run[m] \in Run /\ run[m].node \in Nodes
      /\ run[m].node \in Early => run[m].told = "nothing"
      /\ \A n \in Operations : run[n] \in Run /\ HandedAfter(run[n])
  <2>1. ASSUME NEW n \in Operations PROVE run[n] \in Run /\ HandedAfter(run[n])
    <3>1. run[n].node = "attach" /\ run[n].step = "write" => run[n].support_case_id # NoCase
      BY Zenon DEF ReviewInv, Handed, HandedBy
    <3> QED
      BY <3>1, HandedKept, RunFacts, Zenon DEF SameView, ReviewInv
  <2> QED
    BY <2>1, RunFacts DEF ReviewInv
<1>2. CASE SendMessage(m)
  <2>1. ASSUME NEW n \in Operations PROVE HandedAfter(run'[n])
    <3>1. run'[n] \in {Enter(FreshRun(n), "evaluate"), FreshRun(n), run[n]}
      BY <1>2 DEF SendMessage
    <3>2. /\ FreshRun(n).told = "nothing" /\ FreshRun(n).node = "idle"
          /\ Enter(FreshRun(n), "evaluate").told = "nothing"
          /\ Enter(FreshRun(n), "evaluate").node = "evaluate"
      BY FreshRunType, EnterView DEF FreshRun, Nodes
    <3>3. HandedAfter(FreshRun(n)) /\ HandedAfter(Enter(FreshRun(n), "evaluate"))
      BY <3>2, HandedOtherwise
    <3> QED
      BY <1>1, <3>1, <3>3
  <2> QED
    BY <2>1
<1>3. ASSUME NEW r \in Run, Continue(m, r) \/ Committed(m, r),
             \/ SameView(r, run[m]) /\ r.node # "attach"
             \/ SameView(r, run[m]) /\ r.step # "write"
             \/ r.told # "review" /\ r.node # "attach"
      PROVE  \A n \in Operations : HandedAfter(run'[n])
  <2>1. HandedAfter(r)
    BY <1>3, HandedKept, HandedOtherwise
  <2> QED
    BY <1>3, <2>1, HandedMove
<1>4. CASE Crash(m) \/ Reinvoke(m)
  <2> DEFINE r == Enter(run[m], run[m].node)
  <2>1. r \in Run /\ SameView(r, run[m]) /\ r.step # "write"
    BY <1>1, EnterView, Zenon DEF SameView
  <2>2. Continue(m, r) \/ Committed(m, r)
    BY <1>4, Zenon DEF Crash, Reinvoke, Committed
  <2> HIDE DEF r
  <2> QED
    BY <1>3, <2>1, <2>2
<1>5. ASSUME NEW o \in Operations, run[m].node = "evaluate", Result(m, o) \in Run,
             Continue(m, Result(m, o)) \/ Committed(m, Result(m, o))
      PROVE  \A n \in Operations : HandedAfter(run'[n])
  <2>1. run[m].told = "nothing"
    BY <1>1, <1>5 DEF Early
  <2>2. Result(m, o).told # "review" /\ Result(m, o).node # "attach"
    BY <1>1, <2>1 DEF Result, Enter, Run
  <2> QED
    BY <1>3, <1>5, <2>2
<1>6. CASE FindBySourceMessage(m) \/ FindActiveByOrderId(m)
  <2>1. run[m].node = "evaluate" /\ run[m].told = "nothing"
    BY <1>1, <1>6 DEF FindBySourceMessage, FindActiveByOrderId, At, Early
  <2>2. \/ \E o \in Operations : Continue(m, Result(m, o)) /\ status[o] # "absent"
        \/ Continue(m, [run[m] EXCEPT !.step = "active"])
        \/ Continue(m, [run[m] EXCEPT !.step = "write"])
        \/ Continue(m, Raise(run[m]))
    BY <1>6 DEF FindBySourceMessage, FindActiveByOrderId, ActiveOn, ACTIVE_STATUSES
  <2>3. ASSUME NEW o \in Operations, Continue(m, Result(m, o)), status[o] # "absent"
        PROVE  \A n \in Operations : HandedAfter(run'[n])
    <3>1. status'[o] \in OperationRecordStatus
      BY <1>6, <2>3, RunFacts
         DEF FindBySourceMessage, FindActiveByOrderId, LifecycleType, ReviewInv
    <3>2. Result(m, o) \in Run
      BY <2>1, <3>1, ResultGood DEF ReviewInv
    <3> QED
      BY <1>5, <2>1, <2>3, <3>2, Zenon
  <2>4. ASSUME NEW r, Continue(m, r),
               \/ r = [run[m] EXCEPT !.step = "active"] \/ r = [run[m] EXCEPT !.step = "write"]
               \/ r = Raise(run[m])
        PROVE  \A n \in Operations : HandedAfter(run'[n])
    <3>1. r \in Run /\ SameView(r, run[m])
      <4>1. "active" \in Steps /\ "write" \in Steps /\ 0 \in Nat
        BY DEF Steps
      <4> QED
        BY <1>1, <2>4, <4>1, InsideView, RaiseView, Zenon
    <3>2. r.node # "attach"
      BY <2>1, <3>1 DEF SameView
    <3> QED
      BY <1>3, <2>4, <3>1, <3>2
  <2> QED
    BY <2>2, <2>3, <2>4
<1>7. CASE CreateOperation(m)
  <2>1. run[m].node = "evaluate" /\ run[m].told = "nothing"
    BY <1>1, <1>7 DEF CreateOperation, At, Early
  <2>2. CASE Continue(m, [run[m] EXCEPT !.step = "read", !.tries = @ + 1])
    <3> DEFINE r == [run[m] EXCEPT !.step = "read", !.tries = @ + 1]
    <3>0. "read" \in Steps /\ 0 \in Nat
      BY DEF Steps
    <3>1. r \in Run /\ SameView(r, run[m])
      BY <1>1, <3>0, InsideView, Zenon
    <3> HIDE DEF r
    <3>2. r.node # "attach"
      BY <2>1, <3>1 DEF SameView
    <3> QED
      BY <1>3, <2>2, <3>1, <3>2, Zenon DEF r
  <2>3. CASE status' = WithStatus({m}, "pending_confirmation") /\ Committed(m, Result(m, m))
    <3>1. status'[m] \in OperationRecordStatus
      BY <2>3 DEF WithStatus, OperationRecordStatus
    <3>2. Result(m, m) \in Run
      BY <2>1, <3>1, ResultGood DEF ReviewInv
    <3> QED
      BY <1>5, <2>1, <2>3, <3>2, Zenon
  <2> QED
    BY <1>7, <2>2, <2>3 DEF CreateOperation
<1>8. ASSUME NEW yes \in BOOLEAN, Answer(m, yes)
      PROVE  \A n \in Operations : HandedAfter(run'[n])
  <2>1. PICK node \in {"cancel", "manual", "submit"} : Continue(m, Enter(run[m], node))
    BY <1>8 DEF Answer
  <2>2. run[m].told = "nothing" /\ node \in Nodes
    BY <1>1, <1>8 DEF Answer, Early, Nodes
  <2>3. /\ Enter(run[m], node) \in Run /\ Enter(run[m], node).told # "review"
        /\ Enter(run[m], node).node # "attach"
    BY <1>1, <2>2, EnterView, Zenon
  <2> QED
    BY <1>3, <2>1, <2>3, Zenon
<1> QED
  BY <1>2, <1>4, <1>6, <1>7, <1>8

(* A run that goes on inside its node, and is not about to link a case. *)
LEMMA HandedOn ==
  ASSUME ReviewInv, [Next]_vars, NEW m \in Operations, NEW r \in Run, SameView(r, run[m]),
         r.step # "write" \/ r.node # "attach", Continue(m, r) \/ Committed(m, r)
  PROVE  \A n \in Operations : HandedAfter(run'[n])
<1>1. HandedAfter(r)
  BY HandedKept
<1> QED
  BY <1>1, HandedMove

(* A review is announced with its reasons, or for a decided operation. *)
LEMMA ToldHanded ==
  ASSUME ReviewInv, NEW m \in Operations, run[m].node \in Decisions,
         NEW s \in OperationRecordStatus \cup {"absent"}, s = status'[run[m].operation_id],
         run[m].node = "manual" => s \notin {"absent", "pending_confirmation"}
  PROVE  Told(m, s) \in Run /\ HandedAfter(Told(m, s))
<1> DEFINE t == IF run[m].node = "cancel" THEN "cancelled" ELSE "review"
           b == run[m].node = "manual"
           r == [run[m] EXCEPT !.operation_status = s, !.reasons = b, !.told = t]
<1>1. Told(m, s) = Enter(r, "handoff")
  BY DEF Told
<1>2. run[m] \in Run /\ b \in BOOLEAN /\ t \in Answers /\ "handoff" \in Nodes
  BY RunFacts DEF ReviewInv, Answers, Nodes
<1>3. t = "review" => b
  BY DEF Decisions
<1>4. b => s \notin {"absent", "pending_confirmation"}
  OBVIOUS
<1> HIDE DEF t, b
<1>5. /\ r \in Run /\ r.told = t /\ r.reasons = b /\ r.operation_status = s
      /\ r.operation_id = run[m].operation_id
  BY <1>2, Zenon DEF Run
<1> HIDE DEF r
<1> DEFINE q == Enter(r, "handoff")
<1>6. /\ q \in Run /\ q.told = t /\ q.reasons = b /\ q.operation_status = s
      /\ q.operation_id = run[m].operation_id /\ q.node = "handoff"
  BY <1>2, <1>5, EnterView
<1> HIDE DEF q
<1>7. HandedAfter(q)
  BY <1>3, <1>4, <1>6 DEF HandedAfter, HandedBy, SettledAfter
<1> QED
  BY <1>1, <1>6, <1>7 DEF q

LEMMA HandedDecision ==
  ASSUME ReviewInv, [Next]_vars, NEW m \in Operations,
         StartDecision(m) \/ ReadForDecision(m) \/ WriteDecision(m)
  PROVE  \A n \in Operations : HandedAfter(run'[n])
<1> DEFINE o == run[m].operation_id
<1>1. /\ run[m] \in Run /\ OpInv(o) /\ o \in Operations /\ row[o].version \in Nat
      /\ status[o] \in OperationRecordStatus \cup {"absent"}
      /\ run[m].node \in Decisions /\ run[m].node # "attach"
  BY RunFacts DEF ReviewInv, StartDecision, ReadForDecision, WriteDecision, Decisions, RowType
<1>2. {"change", "write"} \subseteq Steps /\ 0 \in Nat
  BY DEF Steps
<1>3. ASSUME NEW r, Continue(m, r),
             \/ r = Raise(run[m]) \/ r = [run[m] EXCEPT !.step = "change"]
             \/ r = [run[m] EXCEPT !.step = "write", !.seen = row[o].version]
             \/ r = [run[m] EXCEPT !.step = "change", !.tries = @ + 1, !.seen = 0]
      PROVE  \A n \in Operations : HandedAfter(run'[n])
  <2> DEFINE v == row[o].version
             r1 == [run[m] EXCEPT !.step = "change"]
             r2 == [run[m] EXCEPT !.step = "write", !.seen = v]
             r3 == [run[m] EXCEPT !.step = "change", !.tries = @ + 1, !.seen = 0]
  <2>1. "change" \in Steps /\ "write" \in Steps /\ v \in Nat
    BY <1>1, <1>2
  <2>2. r1 \in Run /\ SameView(r1, run[m])
    BY <1>1, <2>1, InsideView, Zenon
  <2>3. r2 \in Run /\ SameView(r2, run[m])
    BY <1>1, <2>1, InsideView, Zenon
  <2>4. r3 \in Run /\ SameView(r3, run[m])
    BY <1>1, <1>2, <2>1, InsideView, Zenon
  <2>5. r = Raise(run[m]) \/ r = r1 \/ r = r2 \/ r = r3
    BY <1>3
  <2> HIDE DEF r1, r2, r3
  <2>6. r \in Run /\ SameView(r, run[m])
    BY <1>1, <2>2, <2>3, <2>4, <2>5, RaiseView
  <2>7. r.node # "attach"
    BY <1>1, <2>6 DEF SameView
  <2> QED
    BY <1>3, <2>6, <2>7, HandedOn
<1>4. ASSUME status' = status, Continue(m, Told(m, status[o])),
             \/ run[m].node \in decided[o]
             \/ /\ status[o] # "pending_confirmation"
                /\ AlreadyDecided(run[m].node, status[o])
      PROVE  \A n \in Operations : HandedAfter(run'[n])
  <2>1. run[m].node = "manual" => status[o] \notin {"absent", "pending_confirmation"}
    BY <1>1, <1>4 DEF OpInv, AlreadyDecided, ACTIVE_STATUSES
  <2>2. Told(m, status[o]) \in Run /\ HandedAfter(Told(m, status[o]))
    BY <1>1, <1>4, <2>1, ToldHanded, Zenon
  <2> QED
    BY <1>4, <2>2, HandedMove, Zenon
<1>5. CASE StartDecision(m) \/ ReadForDecision(m)
  <2>1. PICK r : Continue(m, r) /\
          \/ r = Raise(run[m])
          \/ /\ r = Told(m, status[o])
             /\ \/ run[m].node \in decided[o]
                \/ status[o] # "pending_confirmation" /\ AlreadyDecided(run[m].node, status[o])
          \/ r = [run[m] EXCEPT !.step = "change"]
          \/ r = [run[m] EXCEPT !.step = "write", !.seen = row[o].version]
    BY <1>5 DEF StartDecision, ReadForDecision
  <2>2. status' = status
    BY <1>5 DEF StartDecision, ReadForDecision
  <2> QED
    BY <1>3, <1>4, <2>1, <2>2, Zenon
<1>6. CASE WriteDecision(m) /\ Unchanged(m)
  <2> DEFINE s == status'[o]
  <2>1. s \in {"cancelled_by_customer", "manual_review"} /\ Committed(m, Told(m, s))
    BY <1>1, <1>6, Zenon DEF WriteDecision, WithStatus
  <2>2. s \in OperationRecordStatus
    BY <2>1 DEF OperationRecordStatus
  <2>3. Told(m, s) \in Run /\ HandedAfter(Told(m, s))
    BY <1>1, <2>1, <2>2, ToldHanded, Zenon
  <2> QED
    BY <2>1, <2>3, HandedMove, Zenon
<1>7. CASE WriteDecision(m) /\ ~Unchanged(m)
  <2>1. /\ status' = status
        /\ \/ Continue(m, Told(m, status[o])) /\ run[m].node \in decided[o]
           \/ Continue(m, [run[m] EXCEPT !.step = "change", !.tries = @ + 1, !.seen = 0])
    BY <1>7 DEF WriteDecision, AfterConflict
  <2> QED
    BY <1>3, <1>4, <2>1, Zenon
<1> QED
  BY <1>5, <1>6, <1>7

LEMMA HandedQueue ==
  ASSUME ReviewInv, [Next]_vars, NEW m \in Operations, ReadToQueue(m) \/ QueueOperation(m)
  PROVE  \A n \in Operations : HandedAfter(run'[n])
<1> DEFINE o == run[m].operation_id
<1>1. /\ run[m] \in Run /\ row[o].version \in Nat /\ run[m].node # "attach"
      /\ status[o] \in OperationRecordStatus \cup {"absent"}
  BY RunFacts DEF ReviewInv, ReadToQueue, QueueOperation, At, RowType
<1>2. "write" \in Steps /\ "handoff" \in Nodes /\ "queued" \in OperationRecordStatus
  BY DEF Steps, Nodes, OperationRecordStatus
<1>3. PICK r : (Continue(m, r) \/ Committed(m, r)) /\
        \/ r = Raise(run[m])
        \/ r = [run[m] EXCEPT !.step = "write", !.seen = row[o].version]
        \/ \E s \in OperationRecordStatus : r = Accepted(m, s)
  BY <1>2 DEF ReadToQueue, QueueOperation
<1>4. ASSUME NEW s \in OperationRecordStatus
      PROVE  Accepted(m, s) \in Run /\ HandedAfter(Accepted(m, s))
  <2> DEFINE r1 == [run[m] EXCEPT !.operation_status = s, !.told = "accepted"]
             q == Enter(r1, "handoff")
  <2>1. r1 \in Run /\ r1.told = "accepted"
    BY <1>1, Zenon DEF Run, Answers
  <2> HIDE DEF r1
  <2>2. q \in Run /\ q.told = "accepted" /\ q.node = "handoff"
    BY <1>2, <2>1, EnterView
  <2>3. Accepted(m, s) = q
    BY DEF Accepted, r1
  <2> HIDE DEF q
  <2>4. HandedAfter(q)
    BY <2>2, HandedOtherwise
  <2> QED
    BY <2>2, <2>3, <2>4
<1>5. CASE r = Raise(run[m]) \/ r = [run[m] EXCEPT !.step = "write", !.seen = row[o].version]
  <2> DEFINE r1 == [run[m] EXCEPT !.step = "write", !.seen = row[o].version]
  <2>0. r1 \in Run /\ SameView(r1, run[m]) /\ (r = Raise(run[m]) \/ r = r1)
    BY <1>1, <1>2, <1>5, InsideView, Zenon
  <2> HIDE DEF r1
  <2>1. r \in Run /\ SameView(r, run[m])
    BY <1>1, <2>0, RaiseView
  <2>2. r.node # "attach"
    BY <1>1, <2>1 DEF SameView
  <2> QED
    BY <1>3, <2>1, <2>2, HandedOn
<1> QED
  BY <1>3, <1>4, <1>5, HandedMove

(* A fallback review is announced with the case that it has linked. *)
LEMMA HandedFallback ==
  ASSUME ReviewInv, [Next]_vars, NEW m \in Operations, MoveToProviderManualReview(m)
  PROVE  \A n \in Operations : HandedAfter(run'[n])
<1> DEFINE o == run[m].operation_id
<1>1. /\ FlowInv /\ run[m] \in Run /\ o \in Operations /\ row[o] \in RowType
      /\ run[m].node # "attach"
  BY RunFacts DEF ReviewInv, MoveToProviderManualReview, At
<1>2. CASE Continue(m, Raise(run[m]))
  <2>1. Raise(run[m]) \in Run /\ SameView(Raise(run[m]), run[m])
    BY <1>1, RaiseView
  <2>2. Raise(run[m]).node # "attach"
    BY <1>1, <2>1 DEF SameView
  <2> QED
    BY <1>2, <2>1, <2>2, HandedOn
<1>3. ASSUME NEW c \in CaseIds, SettledAfter(o), status'[o] = "manual_review",
             Continue(m, Fallback(m, c)) \/ Committed(m, Fallback(m, c))
      PROVE  \A n \in Operations : HandedAfter(run'[n])
  <2> DEFINE f == c \in failed'
             p == review'[c[1]] = [count |-> c[2], open |-> TRUE]
             r1 == [run[m] EXCEPT !.operation_status = "manual_review", !.support_case_id = c,
                                  !.marked = f, !.persisted = p, !.told = "review"]
             q == Enter(r1, "handoff")
  <2>1. f \in BOOLEAN /\ p \in BOOLEAN /\ "review" \in Answers /\ "handoff" \in Nodes
    BY DEF Answers, Nodes
  <2>2. Fallback(m, c) = q
    BY DEF Fallback
  <2> HIDE DEF f, p
  <2>3. r1 \in Run /\ r1.operation_id = o
    BY <1>1, <2>1, Zenon DEF Run, OperationRecordStatus
  <2> HIDE DEF r1
  <2>4. q \in Run /\ q.operation_id = o /\ q.node = "handoff"
    BY <2>1, <2>3, EnterView
  <2> HIDE DEF q
  <2>5. HandedAfter(q)
    BY <1>3, <2>4 DEF HandedAfter, HandedBy
  <2> QED
    BY <1>3, <2>2, <2>4, <2>5, HandedMove, Zenon
<1>4. CASE /\ status' = WithStatus({o}, "manual_review") /\ LinkReviewCase(o)
           /\ Committed(m, Fallback(m, row'[o].support_case_id))
  <2>1. row'[o].support_case_id \in CaseIds /\ status'[o] = "manual_review"
    BY <1>1, <1>4, LinkedCase, Zenon DEF WithStatus
  <2>2. SettledAfter(o)
    BY <2>1, NoCaseIsNone DEF SettledAfter
  <2> QED
    BY <1>3, <1>4, <2>1, <2>2
<1>5. CASE /\ status[o] = "manual_review" /\ row[o].support_case_id # NoCase
           /\ UNCHANGED <<status, row>>
           /\ Continue(m, Fallback(m, row[o].support_case_id))
  <2>1. row[o].support_case_id \in CaseIds
    BY <1>1, <1>5 DEF RowType
  <2>2. SettledAfter(o)
    BY <1>5 DEF SettledAfter
  <2> QED
    BY <1>3, <1>5, <2>1, <2>2, Zenon
<1> QED
  BY <1>2, <1>4, <1>5 DEF MoveToProviderManualReview

(* The case that finalize_case_handoff gives a run, if it has reasons. *)
LEMMA HandedCase ==
  ASSUME ReviewInv, [Next]_vars, NEW m \in Operations, NEW c \in CaseIds \cup {NoCase},
         run[m].reasons => c # NoCase
  PROVE  HandedOver(m, c) \in Run /\ HandedAfter(HandedOver(m, c))
<1> DEFINE f == c \in failed
           r == [run[m] EXCEPT !.support_case_id = c, !.marked = f, !.persisted = FALSE]
           q == Enter(r, "attach")
<1>1. HandedOver(m, c) = q
  BY DEF HandedOver
<1>2. /\ run[m] \in Run /\ f \in BOOLEAN /\ "attach" \in Nodes
      /\ run[m].operation_id \in Operations /\ Handed(m)
  BY RunFacts DEF ReviewInv, Nodes
<1>3. Settled(run[m].operation_id) => SettledAfter(run[m].operation_id)
  BY <1>2, SettledKept
<1> HIDE DEF f
<1>4. /\ r \in Run /\ r.told = run[m].told /\ r.operation_id = run[m].operation_id
      /\ r.operation_status = run[m].operation_status /\ r.reasons = run[m].reasons
      /\ r.support_case_id = c
  BY <1>2, Zenon DEF Run
<1> HIDE DEF r
<1>5. /\ q \in Run /\ q.told = run[m].told /\ q.operation_id = run[m].operation_id
      /\ q.operation_status = run[m].operation_status /\ q.reasons = run[m].reasons
      /\ q.support_case_id = c /\ q.node = "attach" /\ q.step = "read"
  BY <1>2, <1>4, EnterView
<1> HIDE DEF q
<1>6. HandedAfter(q)
  BY <1>2, <1>3, <1>5 DEF Handed, HandedAfter, HandedBy
<1> QED
  BY <1>1, <1>5, <1>6

LEMMA HandedHandoff ==
  ASSUME ReviewInv, [Next]_vars, NEW m \in Operations, FinalizeCaseHandoff(m)
  PROVE  \A n \in Operations : HandedAfter(run'[n])
<1>1. /\ FlowInv /\ run[m] \in Run /\ run[m].node = "handoff" /\ Handed(m)
      /\ trigger[m] \in CaseIds \cup {NoCase} /\ ThreadOf[m] \in Threads
      /\ run[m].operation_id \in Operations
  BY RunFacts, MessagesTyped DEF ReviewInv, FinalizeCaseHandoff, At, RestType
<1>2. CASE /\ run[m].persisted /\ run[m].marked
           /\ Continue(m, Enter([run[m] EXCEPT !.persisted = FALSE], "attach"))
  <2> DEFINE r == [run[m] EXCEPT !.persisted = FALSE]
             q == Enter(r, "attach")
  <2>1. /\ r \in Run /\ r.told = run[m].told /\ r.operation_id = run[m].operation_id
        /\ r.operation_status = run[m].operation_status /\ r.reasons = run[m].reasons
        /\ r.marked /\ "attach" \in Nodes
    BY <1>1, <1>2, Zenon DEF Run, Nodes
  <2> HIDE DEF r
  <2>2. /\ q \in Run /\ q.told = run[m].told /\ q.operation_id = run[m].operation_id
        /\ q.operation_status = run[m].operation_status /\ q.reasons = run[m].reasons
        /\ q.marked /\ q.node = "attach" /\ q.step = "read"
    BY <2>1, EnterView
  <2>3. Settled(run[m].operation_id) => SettledAfter(run[m].operation_id)
    BY <1>1, SettledKept
  <2> HIDE DEF q
  <2>4. HandedAfter(q)
    BY <1>1, <2>2, <2>3 DEF Handed, HandedAfter, HandedBy
  <2> QED
    BY <1>2, <2>2, <2>4, HandedMove DEF q, r
<1>3. CASE Continue(m, Raise(run[m]))
  <2>1. Raise(run[m]) \in Run /\ SameView(Raise(run[m]), run[m]) /\ Raise(run[m]).step = "failed"
    BY <1>1, RaiseView
  <2> QED
    BY <1>3, <2>1, HandedOn, Zenon
<1>4. ASSUME NEW c \in CaseIds \cup {NoCase}, run[m].reasons => c # NoCase,
             Continue(m, HandedOver(m, c)) \/ Committed(m, HandedOver(m, c))
      PROVE  \A n \in Operations : HandedAfter(run'[n])
  BY <1>4, HandedCase, HandedMove, Zenon
<1>5. CASE ~run[m].reasons /\ Continue(m, HandedOver(m, NoCase))
  BY <1>4, <1>5
<1>6. CASE trigger[m] # NoCase /\ Continue(m, HandedOver(m, trigger[m]))
  BY <1>1, <1>4, <1>6
<1>7. CASE /\ UseReviewCase(ThreadOf[m])
           /\ Committed(m, HandedOver(m, ReviewCase(ThreadOf[m])))
  <2>1. ReviewCase(ThreadOf[m]) \in CaseIds
    BY <1>1, <1>7, ReviewCaseType
  <2> QED
    BY <1>4, <1>7, <2>1, NoCaseIsNone
<1> QED
  BY <1>2, <1>3, <1>5, <1>6, <1>7, Zenon DEF FinalizeCaseHandoff

(* A run is done without a link only if it skips a marked case. *)
LEMMA HandedDone ==
  ASSUME ReviewInv, [Next]_vars, NEW m \in Operations,
         run[m].told = "review" /\ ~run[m].marked => SettledAfter(run[m].operation_id)
  PROVE  Enter(run[m], "done") \in Run /\ HandedAfter(Enter(run[m], "done"))
<1> DEFINE q == Enter(run[m], "done")
<1>1. /\ run[m] \in Run /\ Handed(m) /\ run[m].operation_id \in Operations /\ "done" \in Nodes
  BY RunFacts DEF ReviewInv, Nodes
<1>2. /\ q \in Run /\ q.told = run[m].told /\ q.operation_id = run[m].operation_id
      /\ q.operation_status = run[m].operation_status /\ q.reasons = run[m].reasons
      /\ q.marked = run[m].marked /\ q.node = "done"
  BY <1>1, EnterView
<1>3. Settled(run[m].operation_id) => SettledAfter(run[m].operation_id)
  BY <1>1, SettledKept
<1> HIDE DEF q
<1>4. HandedAfter(q)
  BY <1>1, <1>2, <1>3 DEF Handed, HandedAfter, HandedBy
<1> QED
  BY <1>2, <1>4 DEF q

LEMMA HandedAttach ==
  ASSUME ReviewInv, [Next]_vars, NEW m \in Operations, ReadToAttach(m) \/ AttachSupportCase(m)
  PROVE  \A n \in Operations : HandedAfter(run'[n])
<1> DEFINE o == run[m].operation_id
<1>1. /\ FlowInv /\ run[m] \in Run /\ run[m].node = "attach" /\ Handed(m) /\ RunInv(m)
      /\ o \in Operations /\ row[o] \in RowType /\ row[o].version \in Nat
      /\ row \in [Operations -> RowType]
  BY RunFacts DEF ReviewInv, ReadToAttach, AttachSupportCase, At, RowType, RestType
<1>2. CASE Continue(m, Raise(run[m]))
  <2>1. Raise(run[m]) \in Run /\ SameView(Raise(run[m]), run[m]) /\ Raise(run[m]).step = "failed"
    BY <1>1, RaiseView
  <2> QED
    BY <1>2, <2>1, HandedOn
<1>3. ASSUME run[m].told = "review" /\ ~run[m].marked => SettledAfter(o),
             \/ Continue(m, Enter(run[m], "done"))
             \/ Committed(m, Enter(run[m], "done"))
      PROVE  \A n \in Operations : HandedAfter(run'[n])
  BY <1>3, HandedDone, HandedMove, Zenon
<1>4. Settled(o) => SettledAfter(o)
  BY <1>1, SettledKept, Zenon
<1>5. CASE SkipsAttach(m) /\ Continue(m, Enter(run[m], "done"))
  <2>1. run[m].told = "review" /\ ~run[m].marked => Settled(o)
    BY <1>1, <1>5 DEF SkipsAttach, Handed, HandedBy
  <2> QED
    BY <1>3, <1>4, <1>5, <2>1
<1>6. CASE /\ ~SkipsAttach(m) /\ status[o] = "manual_review"
           /\ row[o].support_case_id = run[m].support_case_id
           /\ Continue(m, Enter(run[m], "done"))
  <2>1. Settled(o)
    BY <1>6 DEF SkipsAttach, Settled
  <2> QED
    BY <1>3, <1>4, <1>6, <2>1, Zenon
<1>7. CASE /\ ~SkipsAttach(m)
           /\ Continue(m, [run[m] EXCEPT !.step = "write", !.seen = row[o].version])
  <2> DEFINE r == [run[m] EXCEPT !.step = "write", !.seen = row[o].version]
  <2>1. r \in Run /\ SameView(r, run[m])
    BY <1>1, InsideView, Zenon DEF Steps
  <2> HIDE DEF r
  <2>2. r.support_case_id # NoCase
    BY <1>7, <2>1 DEF SameView, SkipsAttach
  <2>3. HandedAfter(r)
    BY <2>1, <2>2, HandedKept
  <2> QED
    BY <1>7, <2>1, <2>3, HandedMove DEF r
<1>8. CASE ReadToAttach(m)
  <2>1. \/ Continue(m, Raise(run[m]))
        \/ SkipsAttach(m) /\ Continue(m, Enter(run[m], "done"))
        \/ /\ ~SkipsAttach(m) /\ status[o] = "manual_review"
           /\ row[o].support_case_id = run[m].support_case_id
           /\ Continue(m, Enter(run[m], "done"))
        \/ /\ ~SkipsAttach(m)
           /\ Continue(m, [run[m] EXCEPT !.step = "write", !.seen = row[o].version])
    BY <1>8, Zenon DEF ReadToAttach
  <2> QED
    BY <1>2, <1>5, <1>6, <1>7, <2>1
<1>9. CASE AttachSupportCase(m) /\ Unchanged(m)
  <2>1. /\ status' = status /\ Committed(m, Enter(run[m], "done"))
        /\ row' = [row EXCEPT ![o].support_case_id = run[m].support_case_id,
                              ![o].version = @ + 1]
    BY <1>9 DEF AttachSupportCase
  <2>2. status[o] = "manual_review" /\ run[m].support_case_id # NoCase
    BY <1>1, <1>9 DEF AttachSupportCase, At, Unchanged, RunInv, WriteSafe, Handed, HandedBy
  <2>3. row'[o].support_case_id = run[m].support_case_id
    BY <1>1, <2>1 DEF RowType
  <2>4. SettledAfter(o)
    BY <2>1, <2>2, <2>3 DEF SettledAfter
  <2> QED
    BY <1>3, <2>1, <2>4
<1>10. CASE AttachSupportCase(m) /\ ~Unchanged(m)
  <2> DEFINE r == [run[m] EXCEPT !.step = "read", !.tries = @ + 1, !.seen = 0]
  <2>1. Continue(m, r)
    BY <1>10 DEF AttachSupportCase
  <2>2. "read" \in Steps /\ 0 \in Nat
    BY DEF Steps
  <2>3. r \in Run /\ SameView(r, run[m])
    BY <1>1, <2>2, InsideView, Zenon
  <2>4. r.step = "read"
    BY <1>1 DEF Run
  <2> HIDE DEF r
  <2> QED
    BY <2>1, <2>3, <2>4, HandedOn
<1> QED
  BY <1>8, <1>9, <1>10

LEMMA ReviewInvStep == ReviewInv /\ [Next]_vars => ReviewInv'
<1> SUFFICES ASSUME ReviewInv, [Next]_vars PROVE ReviewInv'
  OBVIOUS
<1>1. FlowInv'
  BY FlowInvStep DEF ReviewInv
<1>2. CASE run' = run
  <2> SUFFICES ASSUME NEW n \in Operations PROVE HandedAfter(run'[n])
    BY <1>1, Zenon DEF ReviewInv, Handed, HandedAfter, Settled, SettledAfter
  <2>1. run[n].node = "attach" /\ run[n].step = "write" => run[n].support_case_id # NoCase
    BY DEF ReviewInv, Handed, HandedBy
  <2> QED
    BY <1>2, <2>1, HandedKept DEF SameView
<1>3. ASSUME \A n \in Operations : HandedAfter(run'[n]) PROVE ReviewInv'
  BY <1>1, <1>3, Zenon DEF ReviewInv, Handed, HandedAfter, Settled, SettledAfter
<1>4. ASSUME NEW m \in Operations, RunStep(m) PROVE ReviewInv'
  BY <1>3, <1>4, HandedEarly, HandedDecision, HandedQueue, HandedFallback, HandedHandoff,
     HandedAttach DEF RunStep
<1>5. ASSUME NEW m \in Operations,
             SendMessage(m) \/ Crash(m) \/ Reinvoke(m) \/ \E yes \in BOOLEAN : Answer(m, yes)
      PROVE  ReviewInv'
  BY <1>3, <1>5, HandedEarly
<1>6. CASE (\E o \in Operations : ProviderSide(o)) \/ (\E t \in Threads : StaffResolves(t))
           \/ UNCHANGED vars
  BY <1>2, <1>6, Zenon DEF ProviderSide, StaffResolves, vars, flow
<1> QED
  BY <1>4, <1>5, <1>6 DEF Next

LEMMA ReviewInvInit == Init => ReviewInv
<1> SUFFICES ASSUME Init, NEW m \in Operations PROVE Handed(m)
  BY FlowInvInit DEF ReviewInv
<1>1. run[m] = FreshRun(m)
  BY DEF Init
<1>2. FreshRun(m).told = "nothing" /\ FreshRun(m).node = "idle"
  BY FreshRunType DEF FreshRun
<1> QED
  BY <1>1, <1>2 DEF Handed, HandedBy

(* Whatever races it, dies between its three transactions or is resumed, a   *)
(* conversation that ended by announcing a manual review has left the        *)
(* operation linked to a case, or has skipped a case that the failed         *)
(* delivery had already marked (confirm_manual_operation,                    *)
(* finalize_case_handoff, attach_operation_case).                            *)
THEOREM HandoverSafety == Spec => []ReviewHandedOver
<1>1. ReviewInv => ReviewHandedOver
  BY DEF ReviewInv, ReviewHandedOver, Handed, HandedBy, Settled
<1> QED
  BY <1>1, ReviewInvInit, ReviewInvStep, PTL DEF Spec

-----------------------------------------------------------------------------
(* Whatever conversations, crashes and the Provider side do, the operation   *)
(* and its command go through the lifecycle that the Outbox and the Inbox    *)
(* implement (queue_operation_with_events_and_command,                       *)
(* update_operation_with_events, PostgresProviderQueueFailureCoordinator).   *)
THEOREM FlowRefines == Spec => Lifecycle
<1>1. Init => LifecycleInit
  BY DEF Init
<1>2. FlowInv /\ [Next]_vars => [LifecycleNext]_lifecycle
  BY EveryStepGood DEF StepGood
<1> QED
  BY <1>1, <1>2, FlowInvariance, PTL DEF Spec, Lifecycle
=============================================================================
