------------------------------ MODULE Approvals ------------------------------
(***************************************************************************)
(* The approval of bookings: an instance of a template moves from step to  *)
(* step as approvers act on it, every step assigned to someone as a task   *)
(* and recorded in a history, until it is closed and the booking gets the  *)
(* outcome.                                                                *)
(*                                                                         *)
(* InitiateWorkflow and ProcessAction are sequences of statements with no  *)
(* transaction around them: a handler is a process whose local state is    *)
(* what it has read, and a crash leaves what it has written.               *)
(***************************************************************************)
EXTENDS Templates, Sequences

CONSTANTS
    User,
    Booking, NoBooking,
    Instance, NoInstance,
    MaxTask,     \* the tasks are numbered 1 .. MaxTask in order of creation
    Request,
    Crashes      \* TRUE: the process may crash

ASSUME ApprovalsAssumption ==
    /\ NoBooking \notin Booking /\ NoInstance \notin Instance
    /\ MaxTask \in Nat
    /\ Crashes \in BOOLEAN

VARIABLES
    users,      \* role and is_active of the staff
    instances,  \* the workflow_instances table
    tasks,      \* the assigned_tasks table
    history,    \* the workflow_history rows of every instance, oldest first
    outcome,    \* the status that the approval gave to every booking
    votes,      \* who acted how at which step, for every booking (history)
    cutShort,   \* instances that a handler left half done (history)
    req         \* the local state of every request in flight

runVars == <<instances, tasks, history, outcome, votes, cutShort>>
vars == <<templateVars, users, runVars, req>>

-------------------------------------------------------------------------------
(***************************************************************************)
(* Rows.                                                                   *)
(***************************************************************************)
Action == {"approve", "reject"}
Closed == {"completed", "rejected"}

\* done is whether completed_at is set.
InstanceRow == [workflow : Workflow, step : Step, done : BOOLEAN,
                status : {"in_progress"} \cup Closed, booking : Booking]

TaskRow == [instance : Instance, step : Step, assignee : User,
            status : {"pending", "completed"}]

HistoryRow == [from : Step, to : Step, action : Action \cup {"submit"}]

Task == 1 .. MaxTask
Running(i) == InTable(instances[i])
IsOpen(i) == Running(i) /\ instances[i].status \notin Closed
TasksOf(i) == {t \in Task : InTable(tasks[t]) /\ tasks[t].instance = i}
Pending(i) == {t \in TasksOf(i) : tasks[t].status = "pending"}

-------------------------------------------------------------------------------
(***************************************************************************)
(* Requests.  pc is the next statement, step the step the instance was     *)
(* read at, next the one it is being moved to.                             *)
(***************************************************************************)
Idle == [pc |-> "idle", instance |-> NoInstance, by |-> "nobody",
         action |-> "submit", step |-> 0, next |-> 0, roles |-> {},
         closing |-> FALSE, task |-> 0, booking |-> NoBooking,
         workflow |-> Seeded]

Quiescent == /\ \A p \in Request : req[p] = Idle
             /\ \A p \in Admin : admin[p] = NoEdit

Starts(p) == req[p] = Idle

At(p, pc) == req[p].pc = pc

\* The statements before which the request has written nothing.
HasWritten(p) == req[p].pc \notin
    {"idle", "first_step", "create_instance", "next_step", "update_step"}
Goto(p, local) == req' = [req EXCEPT ![p] = local]
Advance(p, pc) == Goto(p, [req[p] EXCEPT !.pc = pc])
Return(p) == Goto(p, Idle)

\* The handler gives up on an instance it has written to.
GiveUp(p) ==
    /\ Return(p)
    /\ cutShort' = cutShort \cup {req[p].instance}

MayAct(u, roles) == roles = {} \/ users[u].role \in roles

\* The active holders of the role that have the fewest pending tasks.
FewestTasks(r) ==
    LET load(u) == Cardinality({t \in Task : /\ InTable(tasks[t])
                                             /\ tasks[t].assignee = u
                                             /\ tasks[t].status = "pending"})
        holders == {u \in User : users[u].active /\ users[u].role = r}
    IN  {u \in holders : \A v \in holders : load(u) <= load(v)}

\* The code takes the first role of the list that has a holder.
DetermineAssignee(roles) == UNION {FewestTasks(r) : r \in roles}

\* The next free number, when there is one left.
NewTask(t) == tasks[t] = Unused /\ \A s \in Task : s < t => tasks[s] # Unused

CreateTask(p, step) ==
    \E t \in Task, u \in DetermineAssignee(req[p].roles) :
        /\ NewTask(t)
        /\ tasks' = [tasks EXCEPT ![t] =
              [instance |-> req[p].instance, step |-> step, assignee |-> u,
               status |-> "pending"]]

\* Mistake: the ends of the row are swapped.
CreateHistoryBackwards(p, action) ==
    history' = [history EXCEPT ![req[p].instance] =
        Append(@, [from |-> req[p].next, to |-> req[p].step,
                   action |-> action])]

CreateHistory(p, action) ==
    history' = [history EXCEPT ![req[p].instance] =
        Append(@, [from |-> req[p].step, to |-> req[p].next,
                   action |-> action])]

InsertInstance(p, i) ==
    instances' = [instances EXCEPT ![i] =
        [workflow |-> req[p].workflow, step |-> req[p].next, done |-> FALSE,
         status |-> "in_progress", booking |-> req[p].booking]]

\* The statement sets step and status whatever they have become meanwhile.
SetStep(i, step, status) ==
    instances' = [instances EXCEPT ![i].step = step, ![i].status = status]

\* One status for both outcomes.
SetCompleted(i) ==
    instances' = [instances EXCEPT ![i].status = "completed", ![i].done = TRUE]

\* The pending task that was created last, if there is one.
ActiveTask(i) == {t \in Pending(i) : \A s \in Pending(i) : s <= t}

SetTaskCompleted(t) ==
    tasks' = [tasks EXCEPT ![t].status = "completed"]

-------------------------------------------------------------------------------
(***************************************************************************)
(* InitiateWorkflow.  The identities that are left bound how often.        *)
(***************************************************************************)
Initiate(p, b) ==
    /\ Starts(p) /\ \E i \in Instance : instances[i] = Unused
    /\ \E w \in GetByType("BOOKING_APPROVAL") :
         Goto(p, [Idle EXCEPT !.pc = "first_step", !.booking = b,
                              !.workflow = w])
    /\ UNCHANGED <<templateVars, users, runVars>>

FirstStep(p) ==
    /\ At(p, "first_step")
    /\ LET first == GetFirstActionStep(req[p].workflow)
       IN  \/ \E t \in first :
                Goto(p, [req[p] EXCEPT !.pc = "create_instance",
                            !.step = transitions[t].from,
                            !.next = transitions[t].to,
                            !.roles = transitions[t].roles])
           \/ first = {} /\ Return(p)
    /\ UNCHANGED <<templateVars, users, runVars>>

\* The insert refers to the workflow and to the step.
CreateInstance(p) ==
    /\ At(p, "create_instance")
    /\ LET refers == InTable(workflows[req[p].workflow]) /\ HasStep(req[p].next)
       IN  \/ /\ refers
              /\ \E i \in Instance :
                   /\ instances[i] = Unused
                   /\ InsertInstance(p, i)
                   /\ Goto(p, [req[p] EXCEPT !.pc = "first_task", !.instance = i])
           \/ /\ refers => \A i \in Instance : instances[i] # Unused
              /\ Return(p)
              /\ UNCHANGED instances
    /\ UNCHANGED <<templateVars, users, tasks, history, outcome, votes, cutShort>>

\* Without an active holder of an allowed role the instance stays as it is.
AssignFirst(p) ==
    /\ At(p, "first_task")
    /\ \/ /\ Running(req[p].instance) /\ HasStep(req[p].next)
          /\ CreateTask(p, req[p].next)
          /\ Advance(p, "first_history")
          /\ UNCHANGED cutShort
       \/ /\ \/ DetermineAssignee(req[p].roles) = {}
             \/ ~Running(req[p].instance) \/ ~HasStep(req[p].next)
             \/ \A t \in Task : tasks[t] # Unused
          /\ GiveUp(p)
          /\ UNCHANGED tasks
    /\ UNCHANGED <<templateVars, users, instances, history, outcome, votes>>

\* The row refers to the instance and to both steps.
Recordable(p) == /\ Running(req[p].instance)
                 /\ HasStep(req[p].step) /\ HasStep(req[p].next)

RecordInitiation(p) ==
    /\ At(p, "first_history")
    /\ IF Recordable(p)
       THEN CreateHistory(p, "submit") /\ Return(p) /\ UNCHANGED cutShort
       ELSE GiveUp(p) /\ UNCHANGED history
    /\ UNCHANGED <<templateVars, users, instances, tasks, outcome, votes>>

-------------------------------------------------------------------------------
(***************************************************************************)
(* ProcessAction.  Nothing asks that the task of the step is assigned to   *)
(* whoever acts, or that there is one.                                     *)
(***************************************************************************)
\* Mistake: the check for a closed instance is left out.
ProcessActionUnchecked(p) ==
    /\ Starts(p)
    /\ \E i \in Instance, u \in User, a \in Action :
         /\ users[u].active
         /\ Running(i)
         /\ Goto(p, [Idle EXCEPT !.pc = "next_step", !.instance = i, !.by = u,
                                 !.action = a, !.step = instances[i].step])
    /\ UNCHANGED <<templateVars, users, runVars>>

ProcessAction(p) ==
    /\ Starts(p)
    /\ \E i \in Instance, u \in User, a \in Action :
         /\ users[u].active
         /\ IsOpen(i)
         /\ Goto(p, [Idle EXCEPT !.pc = "next_step", !.instance = i, !.by = u,
                                 !.action = a, !.step = instances[i].step])
    /\ UNCHANGED <<templateVars, users, runVars>>

\* Approving moves along a transition out of the step, unless the step is
\* final; approving the final step or rejecting closes the instance where
\* it is, and a transition only says who may.
NextStep(p) ==
    /\ At(p, "next_step")
    /\ LET s == req[p].step
           out == GetValidTransitions(s)
           closing == req[p].action = "reject" \/ (HasStep(s) /\ steps[s].final)
           plan(next, roles) ==
               /\ MayAct(req[p].by, roles)
               /\ Goto(p, [req[p] EXCEPT !.pc = "update_step", !.next = next,
                               !.roles = roles, !.closing = closing])
       IN  \/ /\ HasStep(s)
              /\ \/ \E t \in out :
                      plan(IF closing THEN s ELSE transitions[t].to,
                           transitions[t].roles)
                 \/ closing /\ out = {} /\ plan(s, {})
           \/ /\ \/ ~HasStep(s)
                 \/ out = {} /\ ~closing
                 \/ \E t \in out : ~MayAct(req[p].by, transitions[t].roles)
              /\ Return(p)
    /\ UNCHANGED <<templateVars, users, runVars>>

NewStatus(p) ==
    IF ~req[p].closing THEN "in_progress"
    ELSE IF req[p].action = "reject" THEN "rejected" ELSE "completed"

UpdateStep(p) ==
    /\ At(p, "update_step")
    /\ LET i == req[p].instance
       IN  IF Running(i) /\ HasStep(req[p].next)
           THEN /\ SetStep(i, req[p].next, NewStatus(p))
                /\ votes' = [votes EXCEPT ![instances[i].booking] =
                                @ \cup {<<i, req[p].step, req[p].action>>}]
                /\ Advance(p, "active_task")
           ELSE Return(p) /\ UNCHANGED <<instances, votes>>
    /\ UNCHANGED <<templateVars, users, tasks, history, outcome, cutShort>>

\* Mistake: the next step is left without a task.
AfterTaskRecord(p) == IF req[p].closing THEN "complete" ELSE "history"

AfterTask(p) == IF req[p].closing THEN "complete" ELSE "new_task"

\* Mistake: without a pending task the handler returns.
GetActiveTaskOrReturn(p) ==
    /\ At(p, "active_task")
    /\ LET active == ActiveTask(req[p].instance)
       IN  \/ active = {} /\ Return(p)
           \/ \E t \in active :
                Goto(p, [req[p] EXCEPT !.pc = "complete_task", !.task = t])
    /\ UNCHANGED <<templateVars, users, runVars>>

GetActiveTask(p) ==
    /\ At(p, "active_task")
    /\ LET active == ActiveTask(req[p].instance)
       IN  \/ active = {} /\ Advance(p, AfterTask(p))
           \/ \E t \in active :
                Goto(p, [req[p] EXCEPT !.pc = "complete_task", !.task = t])
    /\ UNCHANGED <<templateVars, users, runVars>>

CompleteTask(p) ==
    /\ At(p, "complete_task")
    /\ IF InTable(tasks[req[p].task])
       THEN /\ SetTaskCompleted(req[p].task)
            /\ Advance(p, AfterTask(p))
            /\ UNCHANGED cutShort
       ELSE GiveUp(p) /\ UNCHANGED tasks
    /\ UNCHANGED <<templateVars, users, instances, history, outcome, votes>>

CompleteInstance(p) ==
    /\ At(p, "complete")
    /\ LET i == req[p].instance
       IN  IF Running(i)
           THEN /\ SetCompleted(i)
                /\ Goto(p, [req[p] EXCEPT !.pc = "entity",
                                !.booking = instances[i].booking])
                /\ UNCHANGED cutShort
           ELSE GiveUp(p) /\ UNCHANGED instances
    /\ UNCHANGED <<templateVars, users, tasks, history, outcome, votes>>

\* Mistake: whatever closed the instance confirms the booking.
EntityStatusConfirmed(p) == IF req[p].closing THEN "confirmed" ELSE "cancelled"

EntityStatus(p) == IF req[p].action = "approve" THEN "confirmed" ELSE "cancelled"

UpdateEntityStatus(p) ==
    /\ At(p, "entity")
    /\ outcome' = [outcome EXCEPT ![req[p].booking] = EntityStatus(p)]
    /\ Advance(p, "history")
    /\ UNCHANGED <<templateVars, users, instances, tasks, history, votes, cutShort>>

\* The task of the next step goes to those who may lead to it.
AssignNext(p) ==
    /\ At(p, "new_task")
    /\ \/ /\ Running(req[p].instance) /\ HasStep(req[p].next)
          /\ CreateTask(p, req[p].next)
          /\ Advance(p, "history")
          /\ UNCHANGED cutShort
       \/ /\ \/ DetermineAssignee(req[p].roles) = {}
             \/ ~Running(req[p].instance) \/ ~HasStep(req[p].next)
             \/ \A t \in Task : tasks[t] # Unused
          /\ GiveUp(p)
          /\ UNCHANGED tasks
    /\ UNCHANGED <<templateVars, users, instances, history, outcome, votes>>

RecordAction(p) ==
    /\ At(p, "history")
    /\ IF Recordable(p)
       THEN CreateHistory(p, req[p].action) /\ Return(p) /\ UNCHANGED cutShort
       ELSE GiveUp(p) /\ UNCHANGED history
    /\ UNCHANGED <<templateVars, users, instances, tasks, outcome, votes>>

-------------------------------------------------------------------------------
(***************************************************************************)
(* What goes on around the requests: templates and staff are edited, and   *)
(* the process stops.  Deleting a workflow or a step takes the instances   *)
(* that stand on it with their tasks and histories, and out of the other   *)
(* histories the rows that name it (ON DELETE CASCADE).                    *)
(***************************************************************************)
\* Mistake: the tasks are left behind.
InstancesDeletedOnly(goneSteps, goneWorkflows) ==
    /\ instances' = [i \in Instance |->
                       IF /\ Running(i)
                          /\ \/ instances[i].workflow \in goneWorkflows
                             \/ instances[i].step \in goneSteps
                       THEN Deleted ELSE instances[i]]
    /\ history' = [i \in Instance |->
                     IF InTable(instances'[i]) THEN history[i] ELSE <<>>]
    /\ UNCHANGED <<users, tasks, outcome, votes, cutShort, req>>

InstancesDeleted(goneSteps, goneWorkflows) ==
    LET gone == {i \in Instance : /\ Running(i)
                                  /\ \/ instances[i].workflow \in goneWorkflows
                                     \/ instances[i].step \in goneSteps}
        goes(row) == InTable(row) /\ {row.from, row.to} \cap goneSteps # {}
    IN  /\ instances' = [i \in Instance |->
                           IF i \in gone THEN Deleted ELSE instances[i]]
        /\ tasks' = [t \in Task |->
                       IF /\ InTable(tasks[t])
                          /\ \/ tasks[t].instance \in gone
                             \/ tasks[t].step \in goneSteps
                       THEN Deleted ELSE tasks[t]]
        /\ history' = [i \in Instance |->
                         IF i \in gone THEN <<>>
                         ELSE [n \in DOMAIN history[i] |->
                                 IF goes(history[i][n]) THEN Deleted ELSE history[i][n]]]
        /\ UNCHANGED <<users, outcome, votes, cutShort, req>>

EditTemplates(p) ==
    \/ StartEdit(p) /\ UNCHANGED <<users, runVars, req>>
    \/ \E w \in Workflow :
         /\ DeleteWorkflow(p, w)
         /\ InstancesDeleted(GetStepsByWorkflowID(w), {w})
    \/ \E s \in Step :
         /\ DeleteWorkflowStep(p, s)
         /\ InstancesDeleted({s}, {})

FinishEdits(p) == FinishEdit(p) /\ UNCHANGED <<users, runVars, req>>

\* A new role, or the account switched off.
EditStaff ==
    /\ Admin # {} /\ edits < MaxEdits /\ Counted
    /\ \E u \in User :
         \/ \E r \in Role : users' = [users EXCEPT ![u].role = r]
         \/ users' = [users EXCEPT ![u].active = FALSE]
    /\ UNCHANGED <<workflows, steps, transitions, admin, runVars, req>>

Crash ==
    /\ Crashes /\ ~Quiescent
    /\ req' = [p \in Request |-> Idle]
    /\ admin' = [p \in Admin |-> NoEdit]
    /\ cutShort' = cutShort \cup
                     {req[p].instance : p \in {q \in Request : HasWritten(q)}}
    /\ UNCHANGED <<workflows, steps, transitions, edits, users, instances,
                   tasks, history, outcome, votes>>

-------------------------------------------------------------------------------
Init ==
    /\ TemplatesInit
    /\ users \in [User -> [role : Role \cup {NoRole}, active : {TRUE}]]
    /\ instances = [i \in Instance |-> Unused]
    /\ tasks = [t \in Task |-> Unused]
    /\ history = [i \in Instance |-> <<>>]
    /\ outcome = [b \in Booking |-> "pending"]
    /\ votes = [b \in Booking |-> {}]
    /\ cutShort = {}
    /\ req = [p \in Request |-> Idle]

\* The next statement of a handler that is running.
Continue(p) ==
    \/ FirstStep(p) \/ CreateInstance(p) \/ AssignFirst(p) \/ RecordInitiation(p)
    \/ NextStep(p) \/ UpdateStep(p) \/ GetActiveTask(p) \/ CompleteTask(p)
    \/ CompleteInstance(p) \/ UpdateEntityStatus(p) \/ AssignNext(p)
    \/ RecordAction(p)

Next ==
    \/ \E p \in Request, b \in Booking : Initiate(p, b)
    \/ \E p \in Request : ProcessAction(p) \/ Continue(p)
    \/ \E p \in Admin : EditTemplates(p) \/ FinishEdits(p)
    \/ EditStaff
    \/ Crash

Spec == Init /\ [][Next]_vars

\* A handler that was called runs to its end.
FairSpec == Spec /\ \A p \in Request : WF_vars(Continue(p))

-------------------------------------------------------------------------------
(***************************************************************************)
(* Properties.                                                             *)
(***************************************************************************)
\* Every table and every request has its type, and no row refers to a row
\* that is gone, whatever the cascades of a deleted template took.
TypeOK ==
    /\ TemplatesTypeOK
    /\ users \in [User -> [role : Role \cup {NoRole}, active : BOOLEAN]]
    /\ instances \in [Instance -> InstanceRow \cup {Unused, Deleted}]
    /\ tasks \in [Task -> TaskRow \cup {Unused, Deleted}]
    /\ \A i \in Instance :
         /\ Running(i) => /\ InTable(workflows[instances[i].workflow])
                          /\ HasStep(instances[i].step)
         /\ \A n \in DOMAIN history[i] :
              /\ Running(i)
              /\ InTable(history[i][n]) =>
                    /\ history[i][n] \in HistoryRow
                    /\ HasStep(history[i][n].from) /\ HasStep(history[i][n].to)
    /\ \A t \in Task : InTable(tasks[t]) =>
                         Running(tasks[t].instance) /\ HasStep(tasks[t].step)
    /\ outcome \in [Booking -> {"pending", "confirmed", "cancelled"}]
    /\ votes \in [Booking -> SUBSET (Instance \X Step \X Action)]
    /\ cutShort \subseteq Instance

Approved(b, i, s) == <<i, s, "approve">> \in votes[b]

\* However approvals of an instance interleave, and even when a late one
\* moves it back, every step behind the one it stands on was approved; and
\* a booking is confirmed only by an instance approved at every step.
NoStepSkipped ==
    edits = 0 =>
        /\ \A i \in Instance : Running(i) =>
              \A s \in 1 .. instances[i].step - 1 :
                  Approved(instances[i].booking, i, s)
        /\ \A b \in Booking : outcome[b] = "confirmed" =>
              \E i \in Instance : \A s \in 1 .. SeedSteps - 1 : Approved(b, i, s)

\* An instance between two requests is at a step that exactly one person
\* is asked to act on, or is closed and nobody is; unless a handler failed
\* or died while it was working on the instance.
OneTask ==
    Quiescent =>
        \A i \in Instance \ cutShort : Running(i) =>
            IF IsOpen(i)
            THEN \E t \in Task : /\ Pending(i) = {t}
                                 /\ tasks[t].step = instances[i].step
            ELSE Pending(i) = {}

\* The history of such an instance is a trail from the submission to the
\* step it stands on, every row beginning where the one before ended, and
\* the instance is closed exactly when the last row stayed on its step.
TrailLeadsHere ==
    (Quiescent /\ \A s \in Step : steps[s] # Deleted) =>
        \A i \in Instance \ cutShort : Running(i) =>
            LET trail == history[i]
                last == trail[Len(trail)]
            IN  /\ Len(trail) > 0 /\ trail[1].action = "submit"
                /\ \A n \in 2 .. Len(trail) : trail[n].from = trail[n - 1].to
                /\ last.to = instances[i].step
                /\ IsOpen(i) <=> last.from # last.to

\* The handlers one after the other never open a closed instance again,
\* not even after a crash half way through the closing.
ClosedStaysClosed ==
    [][\A i \in Instance : (Running(i) /\ ~IsOpen(i)) => ~IsOpen(i)']_vars

\* Once an instance is closed its booking gets an outcome, whatever other
\* approvers do to the instance, as long as nobody edits the templates.
VerdictReachesBooking ==
    \A i \in Instance, b \in Booking :
        (Running(i) /\ ~IsOpen(i) /\ instances[i].booking = b)
            ~> (outcome[b] # "pending" \/ edits > 0)
===============================================================================
