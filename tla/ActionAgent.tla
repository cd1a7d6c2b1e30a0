----------------------------- MODULE ActionAgent -----------------------------
(***************************************************************************)
(* agents/action with core/cmms_client.py and the mock CMMS it calls: the  *)
(* execution of an approved recommendation, run by the bus listener, and   *)
(* the resolution poll, a task of its own.                                 *)
(***************************************************************************)
EXTENDS EventBus

CONSTANT Attempts   \* CMMS client: tries of one request (shipped value 4)

ASSUME AttemptsAssumption == Attempts \in Nat \ {0}

VARIABLES
  exec,     \* locals of handle: operation index, try, has one failed
  orders,   \* CMMS: writes accepted per incident and operation
  done,     \* CMMS: which of them a technician resolved
  reference,\* the order a succeeded operation refers to (IncidentActions)
  poll      \* the resolution poll: where it is, with which incident, and
            \* which of its work orders it has still to ask for

NoExec == [op |-> 1, try |-> 1, failed |-> FALSE]
NoPoll == [step |-> "idle", inc |-> NoIncident, todo |-> {}]
Poll == {NoPoll} \cup [step : {"get", "view", "audit", "close"}, inc : Incident,
                       todo : SUBSET OpIndex]

ActionTypeOK ==
  /\ exec \in [op : Nat \ {0}, try : 1..Attempts, failed : BOOLEAN]
  /\ orders \in [Incident \X OpIndex -> Nat]
  /\ done \subseteq Incident \X OpIndex \X Nat
  /\ reference \in [Incident \X OpIndex -> Nat]
  /\ poll \in Poll

ActionInit ==
  /\ exec = NoExec
  /\ orders = [x \in Incident \X OpIndex |-> 0]
  /\ done = {}
  /\ reference = [x \in Incident \X OpIndex |-> 0]
  /\ poll = NoPoll

orderVars == <<orders, done, reference>>

-----------------------------------------------------------------------------
(* handle: the guard reads *)

is_approved(i) == status[i] = "approved"

action_read ==
  /\ at = "action_read"
  /\ IF is_approved(cur.inc) THEN Goto("action_kinds") ELSE HandlerEnds
  /\ UNCHANGED <<queue, storeVars, exec, orderVars, poll>>

\* Faulty variant: the executed kinds are not consulted.
nothing_to_execute_unless_empty(i) == plan[i] = <<>>

\* Something has succeeded before, or nothing maps to the CMMS: no write.
nothing_to_execute(i) == executed_ops(i) # {} \/ plan[i] = <<>>

action_kinds ==
  /\ at = "action_kinds"
  /\ IF nothing_to_execute(cur.inc)
       THEN Goto("action_reconcile")
       ELSE Goto("action_pending")
  /\ UNCHANGED <<queue, storeVars, exec, orderVars, poll>>

action_reconcile ==
  /\ at = "action_reconcile"
  /\ save_action_result(cur.inc, "action_taken")
  /\ HandlerEnds
  /\ UNCHANGED <<queue, exec, orderVars, poll>>

-----------------------------------------------------------------------------
(* _execute_with_retry, for each operation of the plan in turn *)

\* Faulty variant: the call is made without a 'pending' row.
action_pending_unrecorded ==
  /\ at = "action_pending"
  /\ Goto("action_call")
  /\ UNCHANGED <<queue, storeVars, exec, orderVars, poll>>

action_pending ==
  /\ at = "action_pending"
  /\ record_action_execution(cur.inc, exec.op, "pending")
  /\ Goto("action_call")
  /\ UNCHANGED <<queue, exec, orderVars, poll>>

\* The CMMS commits the work order or the reorder.
create_order(i, k) == orders' = [orders EXCEPT ![<<i, k>>] = @ + 1]

\* CmmsClient._request: another try, or CmmsError after the last one.
retry_or_give_up ==
  IF exec.try < Attempts
    THEN exec' = [exec EXCEPT !.try = @ + 1] /\ UNCHANGED <<at, cur>>
    ELSE Goto("action_failed") /\ UNCHANGED exec

call_answered ==
  /\ create_order(cur.inc, exec.op)
  /\ Goto("action_succeeded")
  /\ UNCHANGED exec

\* Committed, but the answer is lost (timeout, reset, 5xx on the way back).
call_answer_lost ==
  /\ "cmms" \in Faults
  /\ create_order(cur.inc, exec.op)
  /\ retry_or_give_up

call_not_received ==
  /\ "cmms" \in Faults
  /\ UNCHANGED orders
  /\ retry_or_give_up

\* A 4xx answer: CmmsError at once.
call_rejected ==
  /\ "cmms" \in Faults
  /\ Goto("action_failed")
  /\ UNCHANGED <<orders, exec>>

action_call ==
  /\ at = "action_call"
  /\ call_answered \/ call_answer_lost \/ call_not_received \/ call_rejected
  /\ UNCHANGED <<queue, storeVars, done, reference, poll>>

\* On to the next operation, or to the result.
next_operation(failed) ==
  /\ exec' = [op |-> exec.op + 1, try |-> 1, failed |-> failed]
  /\ Goto(IF exec.op < Len(plan[cur.inc]) THEN "action_pending" ELSE "action_finish")

\* The row refers to the order of the last answer: the newest.
action_succeeded ==
  /\ at = "action_succeeded"
  /\ record_action_execution(cur.inc, exec.op, "succeeded")
  /\ reference' = [reference EXCEPT ![<<cur.inc, exec.op>>] = orders[<<cur.inc, exec.op>>]]
  /\ next_operation(exec.failed)
  /\ UNCHANGED <<queue, orders, done, poll>>

\* Faulty variant: a failed operation ends the handler with no result.
action_failed_silently ==
  /\ at = "action_failed"
  /\ record_action_execution(cur.inc, exec.op, "failed")
  /\ HandlerEnds
  /\ exec' = NoExec
  /\ UNCHANGED <<queue, orderVars, poll>>

action_failed ==
  /\ at = "action_failed"
  /\ record_action_execution(cur.inc, exec.op, "failed")
  /\ next_operation(TRUE)
  /\ UNCHANGED <<queue, orderVars, poll>>

action_finish ==
  /\ at = "action_finish"
  /\ save_action_result(cur.inc, IF exec.failed THEN "action_failed" ELSE "action_taken")
  /\ HandlerEnds
  /\ exec' = NoExec
  /\ UNCHANGED <<queue, orderVars, poll>>

\* _on_incident_approved logs what handle raises and ends: a database error
\* leaves the incident as it is.  CmmsError is caught inside handle.
action_raises ==
  /\ "handler" \in Faults
  /\ at \in ActionStep \ {"action_call"}
  /\ HandlerEnds
  /\ exec' = NoExec
  /\ UNCHANGED <<queue, storeVars, orderVars, poll>>

ExecutionStep ==
  \/ action_read \/ action_kinds \/ action_reconcile \/ action_pending
  \/ action_call \/ action_succeeded \/ action_failed \/ action_finish
  \/ action_raises

-----------------------------------------------------------------------------
(* The CMMS side and the resolution poll *)

\* A technician resolves one of the orders the CMMS created for an operation,
\* be it the one on record or a duplicate (409 when it is resolved already).
resolve_work_order(i, k) ==
  /\ k <= Len(plan[i])
  /\ plan[i][k] = "work_order"
  /\ \E n \in 1..orders[<<i, k>>] : <<i, k, n>> \notin done /\ done' = done \cup {<<i, k, n>>}
  /\ UNCHANGED <<busVars, storeVars, exec, orders, reference, poll>>

in_flight(i) == at \in ActionStep /\ cur.inc = i

\* The incident's succeeded rows that are work orders, and the succeeded rows
\* whose order is resolved: the order a row refers to, not a duplicate.
work_orders(i) == {k \in executed_ops(i) : k <= Len(plan[i]) /\ plan[i][k] = "work_order"}
is_resolved(i, k) == <<i, k, reference[<<i, k>>]>> \in done
resolved_orders(i) == {k \in executed_ops(i) : is_resolved(i, k)}

\* A pass of _check_resolutions comes to an incident and reads its record.
poll_find(i) ==
  /\ poll.step = "idle"
  /\ status[i] = "action_taken"
  /\ ~in_flight(i)
  /\ work_orders(i) # {}
  /\ poll' = [step |-> "get", inc |-> i, todo |-> work_orders(i)]
  /\ UNCHANGED <<busVars, storeVars, exec, orderVars>>

\* "continue": on to the next work order of the record, if any.
continue_with(rest) ==
  poll' = IF rest = {} THEN NoPoll ELSE [poll EXCEPT !.step = "get", !.todo = rest]

is_next(k) == poll.step = "get" /\ k \in poll.todo /\ \A j \in poll.todo : k <= j

poll_get ==
  /\ \E k \in OpIndex :
       /\ is_next(k)
       /\ IF is_resolved(poll.inc, k)
            THEN poll' = [poll EXCEPT !.step = "view", !.todo = @ \ {k}]
            ELSE continue_with(poll.todo \ {k})
  /\ UNCHANGED <<busVars, storeVars, exec, orderVars>>

\* get_work_order raises CmmsError, its tries spent: logged and skipped.
poll_get_fails ==
  /\ "cmms" \in Faults
  /\ \E k \in OpIndex : is_next(k) /\ continue_with(poll.todo \ {k})
  /\ UNCHANGED <<busVars, storeVars, exec, orderVars>>

\* The status is read again before the loop is closed.
poll_view ==
  /\ poll.step = "view"
  /\ IF status[poll.inc] = "action_taken"
       THEN poll' = [poll EXCEPT !.step = "audit", !.todo = {}]
       ELSE continue_with(poll.todo)
  /\ UNCHANGED <<busVars, storeVars, exec, orderVars>>

\* Faulty variants: no idempotency check; an off-by-one on the audit count.
already_closed_never(i) == FALSE
already_closed_off_by_one(i) == loopClosed[i] >= 0

already_closed(i) == loopClosed[i] > 0

\* close_incident_loop: the audit count, read outside the transaction ...
poll_audit ==
  /\ poll.step = "audit"
  /\ poll' = IF already_closed(poll.inc) THEN NoPoll
               ELSE [poll EXCEPT !.step = "close"]
  /\ UNCHANGED <<busVars, storeVars, exec, orderVars>>

\* ... and the transaction.
poll_close ==
  /\ poll.step = "close"
  /\ close_incident_loop(poll.inc)
  /\ poll' = NoPoll
  /\ UNCHANGED <<busVars, exec, orderVars>>

\* poll_resolutions_forever logs what a pass raises; the next pass starts over.
poll_raises ==
  /\ "handler" \in Faults
  /\ poll.step # "idle"
  /\ poll' = NoPoll
  /\ UNCHANGED <<busVars, storeVars, exec, orderVars>>

PollStep == poll_get \/ poll_get_fails \/ poll_view \/ poll_audit \/ poll_close \/ poll_raises
=============================================================================
