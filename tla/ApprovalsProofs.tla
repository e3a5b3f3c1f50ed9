--------------------------- MODULE ApprovalsProofs ---------------------------
(***************************************************************************)
(* Theorems about approvals, for any number of templates, steps, staff,    *)
(* instances, tasks and requests in flight.  What holds of an instance     *)
(* between two requests is an invariant only of those that no handler has  *)
(* written to; of the others the request in flight says how far it got.    *)
(***************************************************************************)
EXTENDS Approvals, SequenceTheorems, FiniteSetTheorems, TLAPS

-------------------------------------------------------------------------------
(***************************************************************************)
(* The inductive invariants.                                               *)
(***************************************************************************)
Starting == {"first_step", "create_instance"}
Submitting == {"first_task", "first_history"}
Deciding == {"next_step", "update_step"}
Moving == {"active_task", "complete_task", "complete", "entity", "new_task", "history"}

Local == [pc : {"idle"} \cup Starting \cup Submitting \cup Deciding \cup Moving,
          instance : Instance \cup {NoInstance}, by : User \cup {"nobody"},
          action : Action \cup {"submit"}, step : Step, next : Step,
          roles : SUBSET Role, closing : BOOLEAN, task : 0 .. MaxTask,
          booking : Booking \cup {NoBooking}, workflow : Workflow]

\* What the next statements of a request refer to was there once.
Holds(r, table) ==
    /\ r.pc \in Starting \cup {"entity"} => r.booking \in Booking
    /\ r.pc \in Submitting \cup Deciding \cup Moving =>
          r.instance \in Instance /\ table[r.instance] # Unused
    /\ r.pc \in Deciding \cup Moving => r.action \in Action
    /\ r.pc = "complete_task" => r.task \in Task
    /\ r.pc \in {"complete", "entity"} => r.closing
    /\ r.pc \in Starting \cup Submitting \cup {"new_task"} => ~r.closing

\* An edit of a step does not move it to another workflow.
EditsRead ==
    \A p \in Admin : admin[p].pc = "step" =>
        /\ steps[admin[p].id] # Unused
        /\ HasStep(admin[p].id) => admin[p].row.workflow = steps[admin[p].id].workflow

TypeInv ==
    /\ TypeOK /\ EditsRead
    /\ history \in [Instance -> Seq(HistoryRow \cup {Deleted})]
    /\ req \in [Request -> Local]
    /\ \A p \in Request : Holds(req[p], instances)

\* The templates are the chain of the seed, and no cascade took an instance.
SeedShape ==
    /\ \A p \in Admin : admin[p] = NoEdit
    /\ \A s \in Step : HasStep(s) => /\ steps[s].initial <=> s = 0
                                     /\ steps[s].final <=> s = SeedSteps - 1
    /\ \A t \in Transition : HasTransition(t) =>
          transitions[t].to = transitions[t].from + 1
    /\ \A i \in Instance : instances[i] # Deleted

\* Every step before s was approved.
Behind(i, s) == \A n \in 1 .. s - 1 : Approved(instances[i].booking, i, n)

\* What a request has read of the steps behind stays true: votes only grow.
VoteJustified(r) ==
    /\ r.pc = "create_instance" => r.next = 1
    /\ r.pc \in Deciding => Behind(r.instance, r.step)
    /\ r.pc = "update_step" =>
          IF r.closing THEN r.next = r.step /\ (r.action = "approve" => r.step = SeedSteps - 1)
          ELSE r.next = r.step + 1 /\ r.action = "approve"
    /\ r.pc \in Moving /\ r.closing /\ r.action = "approve" => Behind(r.instance, SeedSteps)
    /\ r.pc = "entity" => r.booking = instances[r.instance].booking

NoneSkipped ==
    /\ \A i \in Instance : Running(i) => Behind(i, instances[i].step)
    /\ \A b \in Booking : outcome[b] = "confirmed" =>
          \E i \in Instance : \A s \in 1 .. SeedSteps - 1 : Approved(b, i, s)

VotesOK == SeedShape /\ NoneSkipped /\ \A p \in Request : VoteJustified(req[p])

\* As long as nobody has edited the templates.
VotesInv == edits = 0 => VotesOK

-------------------------------------------------------------------------------
\* One request at a time.
Serial == \A p, q \in Request : p = q

Halfway(i) == \E p \in Request : HasWritten(p) /\ req[p].instance = i

\* A request acts on an instance that was open and still is, or is gone.
OpenWhenRead ==
    \A p \in Request : req[p].pc \in Deciding =>
        LET i == req[p].instance
        IN  Running(i) => IsOpen(i) /\ instances[i].step = req[p].step

\* A request that has moved an instance knows where to, and whether it
\* closed it.
MovedWhereTo ==
    \A p \in Request : HasWritten(p) =>
        LET i == req[p].instance
        IN  Running(i) => /\ instances[i].step = req[p].next
                          /\ IsOpen(i) <=> ~req[p].closing

Asked(i) == IF IsOpen(i) THEN \E t \in Task : Pending(i) = {t} /\ tasks[t].step = instances[i].step
            ELSE Pending(i) = {}

AskedHalfway(r) ==
    /\ r.pc = "active_task" => \E t \in Task : Pending(r.instance) \subseteq {t}
    /\ r.pc = "complete_task" => Pending(r.instance) \subseteq {r.task}
    /\ r.pc \in {"first_task", "new_task", "complete", "entity"} => Pending(r.instance) = {}
    /\ r.pc \in {"first_history", "history"} => Asked(r.instance)

\* The task that a request is going to complete is one of its instance.
OwnTask ==
    \A p \in Request : (req[p].pc = "complete_task" /\ InTable(tasks[req[p].task])) =>
        tasks[req[p].task].instance = req[p].instance

TasksInv ==
    /\ OpenWhenRead /\ MovedWhereTo /\ OwnTask
    /\ \A i \in Instance \ cutShort : Running(i) /\ ~Halfway(i) => Asked(i)
    /\ \A p \in Request : HasWritten(p) /\ Running(req[p].instance) =>
          req[p].instance \in cutShort \/ AskedHalfway(req[p])

\* A history that begins with the submission and leads to a step.
LeadsTo(trail, s) ==
    /\ Len(trail) > 0 /\ trail[1].action = "submit"
    /\ \A n \in 2 .. Len(trail) : trail[n].from = trail[n - 1].to
    /\ trail[Len(trail)].to = s

Recorded(i) ==
    /\ LeadsTo(history[i], instances[i].step)
    /\ LET last == history[i][Len(history[i])] IN IsOpen(i) <=> last.from # last.to

RecordedHalfway(r) ==
    /\ r.pc \in Submitting => history[r.instance] = <<>>
    /\ r.pc \in Moving => LeadsTo(history[r.instance], r.step)

\* A transition leads elsewhere, and a request that follows one too.
LinksMove == \A t \in Transition : HasTransition(t) => transitions[t].from # transitions[t].to

MovesOn(r) ==
    r.pc \in {"create_instance", "update_step"} \cup Submitting \cup Moving =>
        (r.closing <=> r.step = r.next)

NoStepGone == \A s \in Step : steps[s] # Deleted

TrailInv ==
    /\ LinksMove /\ \A p \in Request : MovesOn(req[p])
    /\ NoStepGone =>
         /\ \A i \in Instance \ cutShort : Running(i) /\ ~Halfway(i) => Recorded(i)
         /\ \A p \in Request : HasWritten(p) /\ Running(req[p].instance) =>
               req[p].instance \in cutShort \/ RecordedHalfway(req[p])

-------------------------------------------------------------------------------
(***************************************************************************)
(* Rows, and the type invariant table by table.                            *)
(***************************************************************************)
LEMMA RowsInTable ==
    /\ \A row \in WorkflowRow \cup StepRow \cup TransitionRow : InTable(row)
    /\ \A row \in InstanceRow \cup TaskRow \cup HistoryRow : InTable(row)
    /\ ~InTable(Unused) /\ ~InTable(Deleted) /\ Unused # Deleted
<1>1. DOMAIN Unused = {"row"} /\ DOMAIN Deleted = {"row"} /\ Unused # Deleted
  BY DEF Unused, Deleted
<1>2. ASSUME NEW row \in WorkflowRow PROVE "type" \in DOMAIN row
  BY DEF WorkflowRow
<1>3. ASSUME NEW row \in StepRow \cup TransitionRow \cup InstanceRow PROVE "workflow" \in DOMAIN row
  BY DEF StepRow, TransitionRow, InstanceRow
<1>4. ASSUME NEW row \in TaskRow PROVE "assignee" \in DOMAIN row
  BY DEF TaskRow
<1>5. ASSUME NEW row \in HistoryRow PROVE "action" \in DOMAIN row
  BY DEF HistoryRow
<1>6. ASSUME NEW row \in WorkflowRow \cup StepRow \cup TransitionRow \cup InstanceRow
                          \cup TaskRow \cup HistoryRow
      PROVE  InTable(row)
  <2>1. DOMAIN row # {"row"}
    BY <1>2, <1>3, <1>4, <1>5
  <2>2. QED
    BY <1>1, <2>1 DEF InTable
<1>7. QED
  BY <1>1, <1>6 DEF InTable

TemplatesInv == TemplatesTypeOK /\ EditsRead

InstancesOK ==
    /\ instances \in [Instance -> InstanceRow \cup {Unused, Deleted}]
    /\ \A i \in Instance : Running(i) => InTable(workflows[instances[i].workflow])
                                         /\ HasStep(instances[i].step)

TasksOK ==
    /\ tasks \in [Task -> TaskRow \cup {Unused, Deleted}]
    /\ \A t \in Task : InTable(tasks[t]) => Running(tasks[t].instance) /\ HasStep(tasks[t].step)

HistoriesOK ==
    /\ history \in [Instance -> Seq(HistoryRow \cup {Deleted})]
    /\ \A i \in Instance : \A n \in DOMAIN history[i] :
          /\ Running(i)
          /\ InTable(history[i][n]) => /\ history[i][n] \in HistoryRow
                                       /\ HasStep(history[i][n].from)
                                       /\ HasStep(history[i][n].to)

OthersOK ==
    /\ users \in [User -> [role : Role \cup {NoRole}, active : BOOLEAN]]
    /\ outcome \in [Booking -> {"pending", "confirmed", "cancelled"}]
    /\ votes \in [Booking -> SUBSET (Instance \X Step \X Action)]
    /\ cutShort \subseteq Instance

RunsInv == InstancesOK /\ TasksOK /\ HistoriesOK /\ OthersOK

RequestsInv == req \in [Request -> Local] /\ \A p \in Request : Holds(req[p], instances)

LEMMA Tables == TypeInv <=> TemplatesInv /\ RunsInv /\ RequestsInv
BY DEF TypeInv, TypeOK, TemplatesInv, RunsInv, RequestsInv, InstancesOK, TasksOK, HistoriesOK, OthersOK

LEMMA TablesNext == TemplatesInv' /\ RunsInv' /\ RequestsInv' => TypeInv'
BY DEF TypeInv, TypeOK, TemplatesInv, RunsInv, RequestsInv, InstancesOK, TasksOK, HistoriesOK, OthersOK

\* Rows that are there, and what an edit in flight will write.
LEMMA TemplateRows ==
    ASSUME TemplatesInv
    PROVE  /\ \A w \in Workflow : InTable(workflows[w]) => workflows[w] \in WorkflowRow
           /\ \A s \in Step : HasStep(s) => steps[s] \in StepRow
           /\ \A t \in Transition : HasTransition(t) => transitions[t] \in TransitionRow
BY DEF TemplatesInv, TemplatesTypeOK, HasStep, HasTransition, InTable

LEMMA EditRows ==
    ASSUME TemplatesInv, NEW p \in Admin
    PROVE  /\ admin[p].pc = "workflow" => admin[p].id \in Workflow /\ admin[p].row \in WorkflowRow
           /\ admin[p].pc = "step" => admin[p].id \in Step /\ admin[p].row \in StepRow
           /\ admin[p].pc = "transition" =>
                 admin[p].id \in Transition /\ admin[p].row \in TransitionRow
<1>1. admin[p] \in Edit \cup {NoEdit}
  BY DEF TemplatesInv, TemplatesTypeOK
<1>2. QED
  BY <1>1 DEF Edit, NoEdit

LEMMA RunRows ==
    ASSUME RunsInv
    PROVE  /\ \A i \in Instance : Running(i) => instances[i] \in InstanceRow
           /\ \A t \in Task : InTable(tasks[t]) => tasks[t] \in TaskRow
           /\ \A i \in Instance : ~Running(i) => history[i] = <<>>
<1>1. ASSUME NEW i \in Instance, ~Running(i) PROVE history[i] = <<>>
  <2>1. history[i] \in Seq(HistoryRow \cup {Deleted}) /\ DOMAIN history[i] = {}
    BY <1>1 DEF RunsInv, HistoriesOK
  <2>2. Len(history[i]) \in Nat /\ DOMAIN history[i] = 1 .. Len(history[i])
    BY <2>1, LenProperties
  <2>3. Len(history[i]) = 0
    <3>1. 1 \notin 1 .. Len(history[i])
      BY <2>1, <2>2
    <3>2. QED
      BY <2>2, <3>1
  <2>4. QED
    BY <2>1, <2>3, EmptySeq
<1>2. QED
  BY <1>1 DEF RunsInv, InstancesOK, TasksOK, Running, InTable

-------------------------------------------------------------------------------
(***************************************************************************)
(* Edits of templates and of staff.                                        *)
(***************************************************************************)
\* Rows that are there remain.
TemplatesGrow ==
    /\ \A w \in Workflow : InTable(workflows[w]) => InTable(workflows'[w])
    /\ \A s \in Step : HasStep(s) => HasStep(s)'

\* A step stays in its workflow, and is not free again.
StepsKeep ==
    \A s \in Step : /\ steps[s] # Unused => steps'[s] # Unused
                    /\ steps[s] # Unused /\ HasStep(s)' =>
                          HasStep(s) /\ steps'[s].workflow = steps[s].workflow

LEMMA EditsKept ==
    ASSUME TemplatesInv, StepsKeep, NEW p \in Admin, Written(p) \/ admin' = admin
    PROVE  admin' \in [Admin -> Edit \cup {NoEdit}] /\ EditsRead'
<1>1. admin' \in [Admin -> Edit \cup {NoEdit}]
      /\ \A q \in Admin : admin'[q] = admin[q] \/ admin'[q] = NoEdit
  BY DEF TemplatesInv, TemplatesTypeOK, Written
<1>2. ASSUME NEW q \in Admin, admin'[q].pc = "step"
      PROVE  /\ steps'[admin'[q].id] # Unused
             /\ HasStep(admin[q].id)' => admin'[q].row.workflow = steps'[admin'[q].id].workflow
             /\ admin'[q] = admin[q]
  <2>1. admin'[q] = admin[q]
    BY <1>1, <1>2 DEF NoEdit
  <2>2. QED
    BY <1>2, <2>1, EditRows DEF TemplatesInv, EditsRead, StepsKeep
<1>3. QED
  BY <1>1, <1>2 DEF EditsRead, HasStep

\* An edit that has read a row and will write one with the same workflow.
LEMMA ReadTyped ==
    ASSUME TemplatesInv, NEW p \in Admin, NEW pc, NEW id, NEW rows, Read(p, pc, id, rows),
           \A row \in rows :
              /\ [pc |-> pc, id |-> id, row |-> row] \in Edit
              /\ pc = "step" => HasStep(id) /\ row.workflow = steps[id].workflow,
           UNCHANGED <<workflows, steps, transitions>>
    PROVE  TemplatesInv' /\ TemplatesGrow
<1>1. PICK row \in rows : admin' = [admin EXCEPT ![p] = [pc |-> pc, id |-> id, row |-> row]]
  BY DEF Read
<1>2. admin' \in [Admin -> Edit \cup {NoEdit}]
  BY <1>1 DEF TemplatesInv, TemplatesTypeOK
<1>3. edits' \in 0 .. MaxEdits
  BY TemplatesAssumption DEF Read, MayEdit, Counted, TemplatesInv, TemplatesTypeOK
<1>4. EditsRead'
  <2>1. ASSUME NEW q \in Admin, admin'[q].pc = "step"
        PROVE  /\ steps[admin'[q].id] # Unused
               /\ HasStep(admin'[q].id) => admin'[q].row.workflow = steps[admin'[q].id].workflow
    <3>1. CASE q = p
      BY <1>1, <2>1, <3>1, RowsInTable DEF TemplatesInv, TemplatesTypeOK, HasStep
    <3>2. CASE q # p
      BY <1>1, <2>1, <3>2 DEF TemplatesInv, TemplatesTypeOK, EditsRead
    <3>3. QED
      BY <3>1, <3>2
  <2>2. QED
    BY <2>1 DEF EditsRead, HasStep
<1>5. QED
  BY <1>2, <1>3, <1>4 DEF TemplatesInv, TemplatesTypeOK, TemplatesGrow, HasStep, HasTransition

LEMMA WorkflowsTyped ==
    ASSUME TemplatesInv, NEW p \in Admin,
           CreateWorkflow(p) \/ UpdateWorkflow(p) \/ DeactivateWorkflow(p) \/ WriteWorkflow(p)
    PROVE  TemplatesInv' /\ TemplatesGrow
<1>1. CASE UpdateWorkflow(p)
  <2>1. PICK w \in Workflow :
          /\ InTable(workflows[w])
          /\ Read(p, "workflow", w, {[workflows[w] EXCEPT !.active = on] : on \in BOOLEAN})
    BY <1>1 DEF UpdateWorkflow
  <2>2. \A row \in {[workflows[w] EXCEPT !.active = on] : on \in BOOLEAN} :
           [pc |-> "workflow", id |-> w, row |-> row] \in Edit
    BY <2>1, TemplateRows DEF WorkflowRow, Edit
  <2>3. QED
    BY <1>1, <2>1, <2>2, ReadTyped DEF UpdateWorkflow
<1>2. ASSUME NEW w \in Workflow, NEW row \in WorkflowRow, edits' \in 0 .. MaxEdits,
             UNCHANGED <<steps, transitions>>, Written(p) \/ admin' = admin,
             workflows' = [workflows EXCEPT ![w] = row] \/ workflows' = workflows
      PROVE  TemplatesInv' /\ TemplatesGrow
  <2>1. /\ workflows' \in [Workflow -> WorkflowRow \cup {Unused, Deleted}]
        /\ \A v \in Workflow : InTable(workflows[v]) => InTable(workflows'[v])
    BY <1>2, RowsInTable DEF TemplatesInv, TemplatesTypeOK
  <2>2. TemplatesGrow /\ StepsKeep
    BY <1>2, <2>1 DEF TemplatesGrow, StepsKeep, HasStep
  <2>3. admin' \in [Admin -> Edit \cup {NoEdit}] /\ EditsRead'
    BY <1>2, <2>2, EditsKept
  <2>4. \A s \in Step : HasStep(s)' => InTable(workflows'[steps'[s].workflow])
    BY <1>2, <2>1, TemplateRows DEF TemplatesInv, TemplatesTypeOK, HasStep, StepRow
  <2>5. \A t \in Transition : HasTransition(t)' =>
           /\ InTable(workflows'[transitions'[t].workflow])
           /\ HasStep(transitions[t].from)' /\ HasStep(transitions[t].to)'
    BY <1>2, <2>1, TemplateRows DEF TemplatesInv, TemplatesTypeOK, HasStep, HasTransition, TransitionRow
  <2>6. QED
    BY <1>2, <2>1, <2>2, <2>3, <2>4, <2>5 DEF TemplatesInv, TemplatesTypeOK
<1>3. edits \in 0 .. MaxEdits /\ MaxEdits \in Nat
  BY TemplatesAssumption DEF TemplatesInv, TemplatesTypeOK
<1>4. CASE CreateWorkflow(p)
  <2>1. PICK w \in Workflow, type \in WorkflowType :
          workflows' = [workflows EXCEPT ![w] = [type |-> type, active |-> TRUE]]
    BY <1>4 DEF CreateWorkflow, InsertWorkflow
  <2>2. [type |-> type, active |-> TRUE] \in WorkflowRow
    BY DEF WorkflowRow
  <2>3. edits' \in 0 .. MaxEdits /\ UNCHANGED <<steps, transitions, admin>>
    BY <1>3, <1>4 DEF CreateWorkflow, MayEdit, Counted
  <2>4. QED
    BY <1>2, <2>1, <2>2, <2>3
<1>5. CASE DeactivateWorkflow(p)
  <2>1. PICK w \in Workflow :
          InTable(workflows[w]) /\ workflows' = [workflows EXCEPT ![w].active = FALSE]
    BY <1>5 DEF DeactivateWorkflow, SwitchOff
  <2>2. [workflows[w] EXCEPT !.active = FALSE] \in WorkflowRow
    BY <2>1, TemplateRows DEF WorkflowRow
  <2>3. edits' \in 0 .. MaxEdits /\ UNCHANGED <<steps, transitions, admin>>
    BY <1>3, <1>5 DEF DeactivateWorkflow, MayEdit, Counted
  <2>4. workflows' = [workflows EXCEPT ![w] = [workflows[w] EXCEPT !.active = FALSE]]
    BY <2>1
  <2>5. QED
    BY <1>2, <2>2, <2>3, <2>4
<1>6. CASE WriteWorkflow(p)
  <2>1. /\ admin[p].pc = "workflow" /\ Written(p) /\ UNCHANGED <<steps, transitions, edits>>
        /\ \/ workflows' = [workflows EXCEPT ![admin[p].id] = admin[p].row]
           \/ workflows' = workflows
    BY <1>6 DEF WriteWorkflow
  <2>2. admin[p].id \in Workflow /\ admin[p].row \in WorkflowRow
    BY <2>1, EditRows
  <2>3. QED
    BY <1>2, <1>3, <2>1, <2>2
<1>7. QED
  BY <1>1, <1>4, <1>5, <1>6

\* One row of the steps is written.
LEMMA StepWritten ==
    ASSUME TemplatesInv, NEW p \in Admin, Written(p) \/ admin' = admin,
           NEW s \in Step, NEW row \in StepRow, steps' = [steps EXCEPT ![s] = row],
           InTable(workflows[row.workflow]),
           steps[s] = Unused \/ (HasStep(s) /\ row.workflow = steps[s].workflow),
           edits' \in 0 .. MaxEdits, UNCHANGED <<workflows, transitions>>
    PROVE  TemplatesInv' /\ TemplatesGrow
<1>1. /\ steps' \in [Step -> StepRow \cup {Unused, Deleted}]
      /\ steps'[s] = row /\ HasStep(s)' /\ \A r \in Step : r # s => steps'[r] = steps[r]
  BY RowsInTable DEF TemplatesInv, TemplatesTypeOK, HasStep
<1>2. TemplatesGrow /\ StepsKeep
  BY <1>1, RowsInTable DEF TemplatesGrow, StepsKeep, HasStep
<1>3. admin' \in [Admin -> Edit \cup {NoEdit}] /\ EditsRead'
  BY <1>2, EditsKept
<1>4. \A r \in Step : HasStep(r)' => InTable(workflows'[steps'[r].workflow])
  BY <1>1 DEF TemplatesInv, TemplatesTypeOK, HasStep
<1>5. \A t \in Transition : HasTransition(t)' =>
         /\ InTable(workflows'[transitions'[t].workflow])
         /\ HasStep(transitions[t].from)' /\ HasStep(transitions[t].to)'
  BY <1>2, TemplateRows
  DEF TemplatesInv, TemplatesTypeOK, HasTransition, TransitionRow, TemplatesGrow, HasStep
<1>6. QED
  BY <1>1, <1>2, <1>3, <1>4, <1>5 DEF TemplatesInv, TemplatesTypeOK

LEMMA StepsTyped ==
    ASSUME TemplatesInv, NEW p \in Admin,
           CreateWorkflowStep(p) \/ UpdateWorkflowStep(p) \/ WriteStep(p)
    PROVE  TemplatesInv' /\ TemplatesGrow
<1>1. CASE UpdateWorkflowStep(p)
  <2>1. PICK s \in Step :
          /\ HasStep(s)
          /\ Read(p, "step", s, {[steps[s] EXCEPT !.order = n] : n \in Step}
                                \cup {[steps[s] EXCEPT !.initial = on] : on \in BOOLEAN}
                                \cup {[steps[s] EXCEPT !.final = on] : on \in BOOLEAN})
    BY <1>1 DEF UpdateWorkflowStep
  <2> DEFINE rows == {[steps[s] EXCEPT !.order = n] : n \in Step}
                     \cup {[steps[s] EXCEPT !.initial = on] : on \in BOOLEAN}
                     \cup {[steps[s] EXCEPT !.final = on] : on \in BOOLEAN}
  <2>2. ASSUME NEW row \in rows
        PROVE  row \in StepRow /\ row.workflow = steps[s].workflow
    BY <2>1, TemplateRows DEF StepRow
  <2>3. \A row \in rows : [pc |-> "step", id |-> s, row |-> row] \in Edit
    BY <2>2 DEF Edit
  <2>4. Read(p, "step", s, rows)
    BY <2>1
  <2> HIDE DEF rows
  <2>5. QED
    BY <1>1, <2>1, <2>2, <2>3, <2>4, ReadTyped DEF UpdateWorkflowStep
<1>3. edits \in 0 .. MaxEdits /\ MaxEdits \in Nat
  BY TemplatesAssumption DEF TemplatesInv, TemplatesTypeOK
<1>4. CASE CreateWorkflowStep(p)
  <2>1. PICK n \in Step, new \in StepRow :
          /\ InTable(workflows[new.workflow]) /\ steps[n] = Unused
          /\ steps' = [steps EXCEPT ![n] = new]
    BY <1>4 DEF CreateWorkflowStep, InsertStep
  <2>2. edits' \in 0 .. MaxEdits /\ UNCHANGED <<workflows, transitions, admin>>
    BY <1>3, <1>4 DEF CreateWorkflowStep, MayEdit, Counted
  <2>3. QED
    BY <2>1, <2>2, StepWritten
<1>5. CASE WriteStep(p)
  <2>1. /\ admin[p].pc = "step" /\ Written(p) /\ UNCHANGED <<workflows, transitions, edits>>
        /\ \/ HasStep(admin[p].id) /\ steps' = [steps EXCEPT ![admin[p].id] = admin[p].row]
           \/ steps' = steps
    BY <1>5 DEF WriteStep
  <2>2. admin[p].id \in Step /\ admin[p].row \in StepRow
    BY <2>1, EditRows
  <2>3. CASE HasStep(admin[p].id) /\ steps' = [steps EXCEPT ![admin[p].id] = admin[p].row]
    <3>1. /\ admin[p].row.workflow = steps[admin[p].id].workflow
          /\ InTable(workflows[admin[p].row.workflow])
      BY <2>1, <2>2, <2>3 DEF TemplatesInv, TemplatesTypeOK, EditsRead
    <3>2. QED
      BY <1>3, <2>1, <2>2, <2>3, <3>1, StepWritten
  <2>4. CASE steps' = steps
    <3>1. TemplatesGrow /\ StepsKeep
      BY <2>1, <2>4 DEF TemplatesGrow, StepsKeep, HasStep
    <3>2. admin' \in [Admin -> Edit \cup {NoEdit}] /\ EditsRead'
      BY <2>1, <3>1, EditsKept
    <3>3. QED
      BY <2>1, <2>4, <3>1, <3>2 DEF TemplatesInv, TemplatesTypeOK, HasStep, HasTransition
  <2>5. QED
    BY <2>1, <2>3, <2>4
<1>6. QED
  BY <1>1, <1>4, <1>5

LEMMA TransitionsTyped ==
    ASSUME TemplatesInv, NEW p \in Admin,
           \/ CreateWorkflowTransition(p) \/ UpdateWorkflowTransition(p)
           \/ DeleteWorkflowTransition(p) \/ WriteTransition(p)
    PROVE  TemplatesInv' /\ TemplatesGrow
<1>1. CASE UpdateWorkflowTransition(p)
  <2>1. PICK t \in Transition :
          /\ HasTransition(t)
          /\ Read(p, "transition", t,
                  {[transitions[t] EXCEPT !.roles = rs] : rs \in SUBSET Role})
    BY <1>1 DEF UpdateWorkflowTransition
  <2>2. \A row \in {[transitions[t] EXCEPT !.roles = rs] : rs \in SUBSET Role} :
           [pc |-> "transition", id |-> t, row |-> row] \in Edit
    BY <2>1, TemplateRows DEF TransitionRow, Edit
  <2>3. QED
    BY <1>1, <2>1, <2>2, ReadTyped DEF UpdateWorkflowTransition
<1>2. ASSUME NEW t \in Transition, NEW row \in TransitionRow \cup {Deleted},
             edits' \in 0 .. MaxEdits,
             UNCHANGED <<workflows, steps>>, Written(p) \/ admin' = admin,
             transitions' = [transitions EXCEPT ![t] = row] \/ transitions' = transitions,
             row \in TransitionRow =>
                 InTable(workflows[row.workflow]) /\ HasStep(row.from) /\ HasStep(row.to)
      PROVE  TemplatesInv' /\ TemplatesGrow
  <2>1. /\ transitions' \in [Transition -> TransitionRow \cup {Unused, Deleted}]
        /\ \A u \in Transition : transitions'[u] = transitions[u] \/ transitions'[u] = row
    BY <1>2 DEF TemplatesInv, TemplatesTypeOK
  <2>2. TemplatesGrow /\ StepsKeep
    BY <1>2 DEF TemplatesGrow, StepsKeep, HasStep
  <2>3. admin' \in [Admin -> Edit \cup {NoEdit}] /\ EditsRead'
    BY <1>2, <2>2, EditsKept
  <2>4. \A u \in Transition : HasTransition(u)' =>
           /\ InTable(workflows'[transitions'[u].workflow])
           /\ HasStep(transitions[u].from)' /\ HasStep(transitions[u].to)'
    BY <1>2, <2>1, RowsInTable DEF TemplatesInv, TemplatesTypeOK, HasStep, HasTransition
  <2>5. QED
    BY <1>2, <2>1, <2>2, <2>3, <2>4 DEF TemplatesInv, TemplatesTypeOK, HasStep
<1>3. edits \in 0 .. MaxEdits /\ MaxEdits \in Nat
  BY TemplatesAssumption DEF TemplatesInv, TemplatesTypeOK
<1>4. CASE CreateWorkflowTransition(p)
  <2>1. PICK t \in Transition, row \in TransitionRow :
          /\ InTable(workflows[row.workflow]) /\ HasStep(row.from) /\ HasStep(row.to)
          /\ transitions' = [transitions EXCEPT ![t] = row]
    BY <1>4 DEF CreateWorkflowTransition, InsertTransition
  <2>2. edits' \in 0 .. MaxEdits /\ UNCHANGED <<workflows, steps, admin>>
    BY <1>3, <1>4 DEF CreateWorkflowTransition, MayEdit, Counted
  <2>3. QED
    BY <1>2, <2>1, <2>2
<1>5. CASE DeleteWorkflowTransition(p)
  <2>1. PICK t \in Transition : transitions' = [transitions EXCEPT ![t] = Deleted]
    BY <1>5 DEF DeleteWorkflowTransition, RemoveTransition
  <2>2. edits' \in 0 .. MaxEdits /\ UNCHANGED <<workflows, steps, admin>>
    BY <1>3, <1>5 DEF DeleteWorkflowTransition, MayEdit, Counted
  <2>3. Deleted \notin TransitionRow
    BY RowsInTable
  <2>4. QED
    BY <1>2, <2>1, <2>2, <2>3
<1>6. CASE WriteTransition(p)
  <2> DEFINE t == admin[p].id
             row == [transitions[t] EXCEPT !.roles = admin[p].row.roles]
  <2>1. /\ admin[p].pc = "transition" /\ Written(p) /\ UNCHANGED <<workflows, steps, edits>>
        /\ \/ HasTransition(t) /\ transitions' = [transitions EXCEPT ![t].roles = admin[p].row.roles]
           \/ transitions' = transitions
    BY <1>6 DEF WriteTransition
  <2>2. t \in Transition /\ admin[p].row.roles \in SUBSET Role
    BY <2>1, EditRows DEF TransitionRow
  <2>3. CASE HasTransition(t) /\ transitions' = [transitions EXCEPT ![t].roles = admin[p].row.roles]
    <3>1. transitions[t] \in TransitionRow
      BY <2>2, <2>3, TemplateRows
    <3>2. /\ row \in TransitionRow /\ row.workflow = transitions[t].workflow
          /\ row.from = transitions[t].from /\ row.to = transitions[t].to
      BY <2>2, <3>1 DEF TransitionRow
    <3>3. InTable(workflows[row.workflow]) /\ HasStep(row.from) /\ HasStep(row.to)
      BY <2>2, <2>3, <3>2 DEF TemplatesInv, TemplatesTypeOK
    <3>4. transitions' = [transitions EXCEPT ![t] = row]
      BY <2>3
    <3> HIDE DEF row, t
    <3>5. QED
      BY <1>2, <1>3, <2>1, <2>2, <3>2, <3>3, <3>4
  <2>4. CASE transitions' = transitions
    <3>1. Deleted \notin TransitionRow
      BY RowsInTable
    <3>2. QED
      BY <1>2, <1>3, <2>1, <2>2, <2>4, <3>1
  <2>5. QED
    BY <2>1, <2>3, <2>4
<1>7. QED
  BY <1>1, <1>4, <1>5, <1>6

\* Deleting steps, and the workflows whose steps they are.
TemplatesKeep(goneSteps, goneWorkflows) ==
    /\ \A w \in Workflow \ goneWorkflows : InTable(workflows[w]) => InTable(workflows'[w])
    /\ \A s \in Step \ goneSteps : HasStep(s) => HasStep(s)'

LEMMA DeletionTyped ==
    ASSUME TemplatesInv, NEW p \in Admin, NEW goneSteps \in SUBSET Step,
           NEW goneWorkflows \in SUBSET Workflow,
           StepsDeleted(goneSteps, goneWorkflows),
           workflows' \in [Workflow -> WorkflowRow \cup {Unused, Deleted}],
           \A w \in Workflow \ goneWorkflows : workflows'[w] = workflows[w],
           \A s \in Step : HasStep(s) /\ steps[s].workflow \in goneWorkflows => s \in goneSteps,
           \A s \in goneSteps : HasStep(s),
           admin' = admin, edits' \in 0 .. MaxEdits
    PROVE  TemplatesInv' /\ TemplatesKeep(goneSteps, goneWorkflows)
<1>1. /\ steps' \in [Step -> StepRow \cup {Unused, Deleted}]
      /\ \A s \in Step : steps'[s] = IF s \in goneSteps THEN Deleted ELSE steps[s]
  BY DEF StepsDeleted, TemplatesInv, TemplatesTypeOK
<1>2. \A s \in Step : HasStep(s)' <=> HasStep(s) /\ s \notin goneSteps
  BY <1>1, RowsInTable DEF HasStep
<1>3. /\ transitions' \in [Transition -> TransitionRow \cup {Unused, Deleted}]
      /\ \A t \in Transition : HasTransition(t)' =>
            /\ HasTransition(t) /\ transitions'[t] = transitions[t]
            /\ transitions[t].from \notin goneSteps /\ transitions[t].to \notin goneSteps
            /\ transitions[t].workflow \notin goneWorkflows
  BY RowsInTable DEF StepsDeleted, TemplatesInv, TemplatesTypeOK, HasTransition
<1>4. TemplatesKeep(goneSteps, goneWorkflows) /\ StepsKeep
  BY <1>1, <1>2, RowsInTable DEF TemplatesKeep, StepsKeep, HasStep
<1>5. admin' \in [Admin -> Edit \cup {NoEdit}] /\ EditsRead'
  BY <1>4, EditsKept
<1>6. \A s \in Step : HasStep(s)' => InTable(workflows'[steps'[s].workflow])
  <2>1. ASSUME NEW s \in Step, HasStep(s)' PROVE InTable(workflows'[steps'[s].workflow])
    <3>1. HasStep(s) /\ s \notin goneSteps /\ steps'[s] = steps[s]
      BY <1>1, <1>2, <2>1
    <3>2. steps[s].workflow \in Workflow \ goneWorkflows
      BY <3>1, TemplateRows DEF StepRow
    <3>3. QED
      BY <3>1, <3>2 DEF TemplatesInv, TemplatesTypeOK
  <2>2. QED
    BY <2>1
<1>7. \A t \in Transition : HasTransition(t)' =>
         /\ InTable(workflows'[transitions'[t].workflow])
         /\ HasStep(transitions[t].from)' /\ HasStep(transitions[t].to)'
  <2>1. ASSUME NEW t \in Transition, HasTransition(t)'
        PROVE  /\ InTable(workflows'[transitions'[t].workflow])
               /\ HasStep(transitions[t].from)' /\ HasStep(transitions[t].to)'
    <3>1. /\ HasTransition(t) /\ transitions'[t] = transitions[t]
          /\ transitions[t] \in TransitionRow
      BY <1>3, <2>1, TemplateRows
    <3>2. /\ transitions[t].from \in Step \ goneSteps /\ transitions[t].to \in Step \ goneSteps
          /\ transitions[t].workflow \in Workflow \ goneWorkflows
      BY <1>3, <2>1, <3>1 DEF TransitionRow
    <3>3. QED
      <4>1. /\ InTable(workflows[transitions[t].workflow])
            /\ HasStep(transitions[t].from) /\ HasStep(transitions[t].to)
        BY <3>1 DEF TemplatesInv, TemplatesTypeOK
      <4>2. InTable(workflows'[transitions'[t].workflow])
        BY <3>1, <3>2, <4>1
      <4>3. HasStep(transitions[t].from)' /\ HasStep(transitions[t].to)'
        BY <1>1, <1>2, <3>1, <3>2, <4>1 DEF HasStep
      <4>4. QED
        BY <4>2, <4>3
  <2>2. QED
    BY <2>1
<1>8. QED
  BY <1>1, <1>3, <1>4, <1>5, <1>6, <1>7 DEF TemplatesInv, TemplatesTypeOK

LEMMA DeleteWorkflowTyped ==
    ASSUME TemplatesInv, NEW p \in Admin, NEW w \in Workflow, DeleteWorkflow(p, w)
    PROVE  TemplatesInv' /\ TemplatesKeep(GetStepsByWorkflowID(w), {w})
<1>1. edits' \in 0 .. MaxEdits /\ admin' = admin
  BY TemplatesAssumption DEF DeleteWorkflow, MayEdit, Counted, TemplatesInv, TemplatesTypeOK
<1>2. /\ StepsDeleted(GetStepsByWorkflowID(w), {w})
      /\ workflows' = [workflows EXCEPT ![w] = Deleted]
  BY DEF DeleteWorkflow, RemoveWorkflow
<1>3. /\ workflows' \in [Workflow -> WorkflowRow \cup {Unused, Deleted}]
      /\ \A v \in Workflow \ {w} : workflows'[v] = workflows[v]
  BY <1>2 DEF TemplatesInv, TemplatesTypeOK
<1>4. /\ GetStepsByWorkflowID(w) \in SUBSET Step
      /\ \A s \in GetStepsByWorkflowID(w) : HasStep(s)
      /\ \A s \in Step : HasStep(s) /\ steps[s].workflow \in {w} => s \in GetStepsByWorkflowID(w)
  BY DEF GetStepsByWorkflowID
<1>5. QED
  BY <1>1, <1>2, <1>3, <1>4, DeletionTyped

LEMMA DeleteStepTyped ==
    ASSUME TemplatesInv, NEW p \in Admin, NEW s \in Step, DeleteWorkflowStep(p, s)
    PROVE  TemplatesInv' /\ TemplatesKeep({s}, {})
<1>1. edits' \in 0 .. MaxEdits /\ admin' = admin /\ workflows' = workflows
  BY TemplatesAssumption DEF DeleteWorkflowStep, MayEdit, Counted, TemplatesInv, TemplatesTypeOK
<1>2. HasStep(s) /\ StepsDeleted({s}, {})
  BY DEF DeleteWorkflowStep, RemoveStep
<1>3. workflows' \in [Workflow -> WorkflowRow \cup {Unused, Deleted}]
  BY <1>1 DEF TemplatesInv, TemplatesTypeOK
<1>4. QED
  BY <1>1, <1>2, <1>3, DeletionTyped

LEMMA EditsTyped ==
    ASSUME TemplatesInv, NEW p \in Admin, StartEdit(p) \/ FinishEdit(p)
    PROVE  TemplatesInv' /\ TemplatesGrow
BY WorkflowsTyped, StepsTyped, TransitionsTyped DEF StartEdit, FinishEdit

-------------------------------------------------------------------------------
(***************************************************************************)
(* The tables of the instances, their tasks and their histories.           *)
(***************************************************************************)
InstancesGrow ==
    \A i \in Instance : /\ Running(i) => Running(i)'
                        /\ instances[i] # Unused => instances'[i] # Unused

LEMMA TasksFollow ==
    ASSUME TasksOK, RunsInv, TemplatesGrow, InstancesGrow, UNCHANGED tasks
    PROVE  TasksOK'
<1>1. ASSUME NEW t \in Task, InTable(tasks[t])
      PROVE  Running(tasks[t].instance)' /\ HasStep(tasks[t].step)'
  <2>1. tasks[t].instance \in Instance /\ tasks[t].step \in Step
    BY <1>1, RunRows DEF TaskRow
  <2>2. QED
    BY <1>1, <2>1 DEF TasksOK, TemplatesGrow, InstancesGrow, Running, HasStep
<1>2. QED
  BY <1>1 DEF TasksOK

LEMMA HistoriesFollow ==
    ASSUME HistoriesOK, TemplatesGrow, InstancesGrow, UNCHANGED history
    PROVE  HistoriesOK'
<1>1. ASSUME NEW i \in Instance, NEW n \in DOMAIN history[i]
      PROVE  /\ Running(i)'
             /\ InTable(history[i][n]) => /\ history[i][n] \in HistoryRow
                                          /\ HasStep(history[i][n].from)'
                                          /\ HasStep(history[i][n].to)'
  <2>1. CASE InTable(history[i][n])
    <3>1. history[i][n] \in HistoryRow /\ HasStep(history[i][n].from) /\ HasStep(history[i][n].to)
      BY <2>1 DEF HistoriesOK
    <3>2. history[i][n].from \in Step /\ history[i][n].to \in Step
      BY <3>1 DEF HistoryRow
    <3>3. QED
      BY <3>1, <3>2 DEF HistoriesOK, TemplatesGrow, InstancesGrow, HasStep
  <2>2. CASE ~InTable(history[i][n])
    BY <2>2 DEF HistoriesOK, InstancesGrow
  <2>3. QED
    BY <2>1, <2>2
<1>2. QED
  BY <1>1 DEF HistoriesOK

LEMMA InstancesFollow ==
    ASSUME InstancesOK, TemplatesGrow, UNCHANGED instances
    PROVE  InstancesOK' /\ InstancesGrow
<1>1. InstancesGrow
  BY DEF InstancesGrow, Running
<1>2. ASSUME NEW i \in Instance, Running(i)
      PROVE  InTable(workflows'[instances[i].workflow]) /\ HasStep(instances[i].step)'
  <2>1. instances[i].workflow \in Workflow /\ instances[i].step \in Step
    BY <1>2 DEF InstancesOK, InstanceRow, Running, InTable
  <2>2. QED
    BY <1>2, <2>1 DEF InstancesOK, TemplatesGrow, HasStep
<1>3. QED
  BY <1>1, <1>2 DEF InstancesOK, Running

\* Whatever an edit that deletes nothing does, the rows stay as they are.
LEMMA RunsFollow ==
    ASSUME RunsInv, TemplatesGrow, UNCHANGED runVars,
           users' \in [User -> [role : Role \cup {NoRole}, active : BOOLEAN]]
    PROVE  RunsInv' /\ InstancesGrow
BY InstancesFollow, TasksFollow, HistoriesFollow DEF RunsInv, OthersOK, runVars

LEMMA InstanceWritten ==
    ASSUME InstancesOK, NEW i \in Instance, NEW row \in InstanceRow,
           instances' = [instances EXCEPT ![i] = row],
           InTable(workflows[row.workflow]), HasStep(row.step), UNCHANGED <<workflows, steps>>
    PROVE  InstancesOK' /\ InstancesGrow
<1>1. /\ instances' \in [Instance -> InstanceRow \cup {Unused, Deleted}]
      /\ instances'[i] = row /\ \A j \in Instance : j # i => instances'[j] = instances[j]
  BY DEF InstancesOK
<1>2. InstancesGrow
  BY <1>1, RowsInTable DEF InstancesGrow, Running
<1>3. \A j \in Instance : Running(j)' => InTable(workflows'[instances'[j].workflow])
                                        /\ HasStep(instances[j].step)'
  BY <1>1 DEF InstancesOK, Running, HasStep
<1>4. QED
  BY <1>1, <1>2, <1>3 DEF InstancesOK

LEMMA TaskWritten ==
    ASSUME TasksOK, NEW t \in Task, NEW row \in TaskRow, tasks' = [tasks EXCEPT ![t] = row],
           Running(row.instance), HasStep(row.step), UNCHANGED <<steps, instances>>
    PROVE  TasksOK'
<1>1. /\ tasks' \in [Task -> TaskRow \cup {Unused, Deleted}]
      /\ tasks'[t] = row /\ \A u \in Task : u # t => tasks'[u] = tasks[u]
  BY DEF TasksOK
<1>2. \A u \in Task : InTable(tasks'[u]) => Running(tasks[u].instance)' /\ HasStep(tasks[u].step)'
  BY <1>1 DEF TasksOK, Running, HasStep
<1>3. QED
  BY <1>1, <1>2 DEF TasksOK

LEMMA HistoryWritten ==
    ASSUME HistoriesOK, NEW i \in Instance, NEW row \in HistoryRow,
           history' = [history EXCEPT ![i] = Append(@, row)],
           Running(i), HasStep(row.from), HasStep(row.to), UNCHANGED <<steps, instances>>
    PROVE  HistoriesOK'
<1>1. history[i] \in Seq(HistoryRow \cup {Deleted}) /\ row \in HistoryRow \cup {Deleted}
  BY DEF HistoriesOK
<1>2. Append(history[i], row) \in Seq(HistoryRow \cup {Deleted})
  BY <1>1, AppendProperties
<1>3. history' \in [Instance -> Seq(HistoryRow \cup {Deleted})]
  BY <1>2 DEF HistoriesOK
<1>4. /\ history'[i] = Append(history[i], row)
      /\ \A j \in Instance : j # i => history'[j] = history[j]
  BY DEF HistoriesOK
<1>5. \A n \in DOMAIN history'[i] :
         history'[i][n] = row \/ (n \in DOMAIN history[i] /\ history'[i][n] = history[i][n])
  BY <1>1, <1>4, AppendProperties, LenProperties
<1>6. ASSUME NEW j \in Instance, NEW n \in DOMAIN history'[j]
      PROVE  /\ Running(j)
             /\ InTable(history'[j][n]) => /\ history'[j][n] \in HistoryRow
                                           /\ HasStep(history'[j][n].from)
                                           /\ HasStep(history'[j][n].to)
  <2>1. CASE j = i
    BY <1>5, <2>1 DEF HistoriesOK
  <2>2. CASE j # i
    BY <1>4, <2>2 DEF HistoriesOK
  <2>3. QED
    BY <2>1, <2>2
<1>7. QED
  BY <1>3, <1>6 DEF HistoriesOK, Running, HasStep

LEMMA RunStep ==
    ASSUME RunsInv, InstancesOK' /\ InstancesGrow, TasksOK' \/ UNCHANGED tasks,
           HistoriesOK' \/ UNCHANGED history, UNCHANGED <<workflows, steps, users>>,
           outcome' \in [Booking -> {"pending", "confirmed", "cancelled"}],
           votes' \in [Booking -> SUBSET (Instance \X Step \X Action)],
           cutShort' \subseteq Instance
    PROVE  RunsInv'
<1>1. TemplatesGrow
  BY DEF TemplatesGrow, HasStep
<1>2. TasksOK' /\ HistoriesOK'
  BY <1>1, TasksFollow, HistoriesFollow DEF RunsInv
<1>3. QED
  BY <1>2 DEF RunsInv, OthersOK

-------------------------------------------------------------------------------
(***************************************************************************)
(* The requests.                                                           *)
(***************************************************************************)
LEMMA IdleHolds == Idle \in Local /\ \A table : Holds(Idle, table)
<1>1. 0 \in Step /\ 0 \in 0 .. MaxTask /\ Seeded \in Workflow
  BY TemplatesAssumption, ApprovalsAssumption DEF Step
<1>2. Idle \in Local
  BY <1>1 DEF Idle, Local
<1>3. Idle.pc \notin Starting \cup Submitting \cup Deciding \cup Moving
  BY DEF Idle, Starting, Submitting, Deciding, Moving
<1>4. QED
  BY <1>2, <1>3 DEF Holds, Moving

LEMMA RequestMoves ==
    ASSUME RequestsInv, InstancesGrow, NEW p \in Request, NEW local \in Local,
           Holds(local, instances'), Goto(p, local)
    PROVE  RequestsInv'
<1>1. /\ req' \in [Request -> Local]
      /\ req'[p] = local /\ \A q \in Request : q # p => req'[q] = req[q]
  BY DEF RequestsInv, Goto
<1>2. ASSUME NEW q \in Request, q # p PROVE Holds(req'[q], instances')
  BY <1>1, <1>2 DEF RequestsInv, Holds, InstancesGrow
<1>3. QED
  BY <1>1, <1>2 DEF RequestsInv

LEMMA RequestReturns ==
    ASSUME RequestsInv, InstancesGrow, NEW p \in Request, Return(p)
    PROVE  RequestsInv'
BY RequestMoves, IdleHolds DEF Return

LEMMA NothingWritten ==
    ASSUME RunsInv, UNCHANGED <<templateVars, users, runVars>>
    PROVE  RunsInv' /\ InstancesGrow
<1>1. TemplatesGrow
  BY DEF TemplatesGrow, HasStep, templateVars
<1>2. QED
  BY <1>1, RunsFollow DEF RunsInv, OthersOK

LEMMA StartsTyped ==
    ASSUME TypeInv, NEW p \in Request,
           (\E b \in Booking : Initiate(p, b)) \/ ProcessAction(p)
    PROVE  RunsInv' /\ RequestsInv'
<1>1. RunsInv' /\ InstancesGrow /\ RequestsInv
  BY NothingWritten, Tables DEF Initiate, ProcessAction
<1>2. ASSUME NEW b \in Booking, Initiate(p, b) PROVE RunsInv' /\ RequestsInv'
  <2>1. PICK w \in Workflow :
          Goto(p, [Idle EXCEPT !.pc = "first_step", !.booking = b, !.workflow = w])
    BY <1>2 DEF Initiate, GetByType
  <2> DEFINE local == [Idle EXCEPT !.pc = "first_step", !.booking = b, !.workflow = w]
  <2>2. local \in Local
    BY IdleHolds DEF Local, Starting
  <2>3. Holds(local, instances')
    BY DEF Holds, Idle, Starting, Submitting, Deciding, Moving
  <2> HIDE DEF local
  <2>4. QED
    BY <1>1, <2>1, <2>2, <2>3, RequestMoves DEF local
<1>3. CASE ProcessAction(p)
  <2>1. PICK i \in Instance, u \in User, a \in Action :
          /\ IsOpen(i)
          /\ Goto(p, [Idle EXCEPT !.pc = "next_step", !.instance = i, !.by = u,
                                  !.action = a, !.step = instances[i].step])
    BY <1>3 DEF ProcessAction
  <2> DEFINE local == [Idle EXCEPT !.pc = "next_step", !.instance = i, !.by = u,
                                   !.action = a, !.step = instances[i].step]
  <2>2. Running(i) /\ instances[i].step \in Step /\ instances[i] # Unused
    BY <2>1, RunRows, Tables DEF IsOpen, InstanceRow, Running, InTable
  <2>3. local \in Local
    BY <2>2, IdleHolds DEF Local, Deciding
  <2>4. Holds(local, instances')
    BY <1>1, <2>2 DEF Holds, Idle, Starting, Submitting, Deciding, Moving, InstancesGrow
  <2> HIDE DEF local
  <2>5. QED
    BY <1>1, <2>1, <2>3, <2>4, RequestMoves DEF local
<1>4. QED
  BY <1>2, <1>3

\* The statements that only read.
LEMMA ReadsTyped ==
    ASSUME TypeInv, NEW p \in Request, FirstStep(p) \/ NextStep(p) \/ GetActiveTask(p)
    PROVE  RunsInv' /\ RequestsInv'
<1>1. RunsInv' /\ InstancesGrow /\ RequestsInv
  BY NothingWritten, Tables DEF FirstStep, NextStep, GetActiveTask
<1>2. req[p] \in Local /\ Holds(req[p], instances)
  BY DEF TypeInv
<1>3. CASE FirstStep(p)
  <2>1. CASE Return(p)
    BY <1>1, <2>1, RequestReturns
  <2>2. ASSUME NEW t \in GetFirstActionStep(req[p].workflow),
               Goto(p, [req[p] EXCEPT !.pc = "create_instance",
                           !.step = transitions[t].from, !.next = transitions[t].to,
                           !.roles = transitions[t].roles])
        PROVE  RequestsInv'
    <3> DEFINE local == [req[p] EXCEPT !.pc = "create_instance",
                           !.step = transitions[t].from, !.next = transitions[t].to,
                           !.roles = transitions[t].roles]
    <3>1. transitions[t] \in TransitionRow
      BY TemplateRows, Tables DEF GetFirstActionStep
    <3>2. local \in Local
      BY <1>2, <3>1 DEF Local, TransitionRow, Starting
    <3>3. Holds(local, instances')
      BY <1>2, <1>3 DEF Holds, FirstStep, At, Local, Starting, Submitting, Deciding, Moving
    <3> HIDE DEF local
    <3>4. QED
      BY <1>1, <2>2, <3>2, <3>3, RequestMoves DEF local
  <2>3. QED
    BY <1>1, <1>3, <2>1, <2>2 DEF FirstStep
<1>4. CASE NextStep(p)
  <2>1. CASE Return(p)
    BY <1>1, <2>1, RequestReturns
  <2>2. ASSUME NEW next \in Step, NEW roles \in SUBSET Role, NEW closing \in BOOLEAN,
               Goto(p, [req[p] EXCEPT !.pc = "update_step", !.next = next,
                               !.roles = roles, !.closing = closing])
        PROVE  RequestsInv'
    <3> DEFINE local == [req[p] EXCEPT !.pc = "update_step", !.next = next,
                               !.roles = roles, !.closing = closing]
    <3>1. local \in Local
      BY <1>2 DEF Local, Deciding
    <3>2. Holds(local, instances')
      BY <1>1, <1>2, <1>4
      DEF Holds, NextStep, At, Local, Starting, Submitting, Deciding, Moving, InstancesGrow
    <3> HIDE DEF local
    <3>3. QED
      BY <1>1, <2>2, <3>1, <3>2, RequestMoves DEF local
  <2>3. ASSUME NEW t \in GetValidTransitions(req[p].step)
        PROVE  transitions[t].to \in Step /\ transitions[t].roles \in SUBSET Role
    <3>1. transitions[t] \in TransitionRow
      BY TemplateRows, Tables DEF GetValidTransitions
    <3>2. QED
      BY <3>1 DEF TransitionRow
  <2>4. req[p].step \in Step
    BY <1>2 DEF Local
  <2> DEFINE closing == req[p].action = "reject" \/ (HasStep(req[p].step) /\ steps[req[p].step].final)
  <2>5. closing \in BOOLEAN
    OBVIOUS
  <2>6. \/ Return(p)
        \/ \E t \in GetValidTransitions(req[p].step) :
              Goto(p, [req[p] EXCEPT !.pc = "update_step",
                          !.next = IF closing THEN req[p].step ELSE transitions[t].to,
                          !.roles = transitions[t].roles, !.closing = closing])
        \/ Goto(p, [req[p] EXCEPT !.pc = "update_step", !.next = req[p].step,
                          !.roles = {}, !.closing = closing])
    BY <1>4, Zenon DEF NextStep
  <2> HIDE DEF closing
  <2>7. QED
    BY <1>1, <2>1, <2>2, <2>3, <2>4, <2>5, <2>6
<1>5. CASE GetActiveTask(p)
  <2>1. CASE Advance(p, AfterTask(p))
    <3> DEFINE local == [req[p] EXCEPT !.pc = AfterTask(p)]
    <3>1. local \in Local
      BY <1>2 DEF Local, AfterTask, Moving
    <3>2. Holds(local, instances')
      BY <1>1, <1>2, <1>5 DEF Holds, GetActiveTask, At, AfterTask, Local,
                              Starting, Submitting, Deciding, Moving, InstancesGrow
    <3> HIDE DEF local
    <3>3. QED
      BY <1>1, <2>1, <3>1, <3>2, RequestMoves DEF local, Advance
  <2>2. ASSUME NEW t \in ActiveTask(req[p].instance),
               Goto(p, [req[p] EXCEPT !.pc = "complete_task", !.task = t])
        PROVE  RequestsInv'
    <3> DEFINE local == [req[p] EXCEPT !.pc = "complete_task", !.task = t]
    <3>1. t \in Task /\ t \in 0 .. MaxTask
      BY ApprovalsAssumption DEF ActiveTask, Pending, TasksOf, Task
    <3>2. local \in Local
      BY <1>2, <3>1 DEF Local, Moving
    <3>3. Holds(local, instances')
      BY <1>1, <1>2, <1>5, <3>1 DEF Holds, GetActiveTask, At, Local,
                                    Starting, Submitting, Deciding, Moving, InstancesGrow
    <3> HIDE DEF local
    <3>4. QED
      BY <1>1, <2>2, <3>2, <3>3, RequestMoves DEF local
  <2>3. QED
    BY <1>1, <1>5, <2>1, <2>2 DEF GetActiveTask
<1>6. QED
  BY <1>3, <1>4, <1>5

\* The statement after this one, where nothing else is remembered.
LEMMA RequestAdvances ==
    ASSUME RequestsInv, InstancesGrow, NEW p \in Request, NEW pc, Advance(p, pc),
           \/ req[p].pc = "first_task" /\ pc = "first_history"
           \/ req[p].pc = "update_step" /\ pc = "active_task"
           \/ req[p].pc = "complete_task" /\ pc = AfterTask(p)
           \/ req[p].pc \in {"entity", "new_task"} /\ pc = "history"
    PROVE  RequestsInv'
<1> DEFINE local == [req[p] EXCEPT !.pc = pc]
<1>1. req[p] \in Local /\ Holds(req[p], instances)
  BY DEF RequestsInv
<1>2. local \in Local
  BY <1>1 DEF Local, AfterTask, Moving, Submitting
<1>3. Holds(local, instances')
  BY <1>1 DEF Holds, AfterTask, Local, Starting, Submitting, Deciding, Moving, InstancesGrow
<1> HIDE DEF local
<1>4. QED
  BY <1>2, <1>3, RequestMoves DEF local, Advance

LEMMA OwnInstance ==
    ASSUME TypeInv, NEW p \in Request, req[p].pc \in Submitting \cup Deciding \cup Moving
    PROVE  /\ req[p].instance \in Instance /\ req[p].step \in Step /\ req[p].next \in Step
           /\ cutShort \cup {req[p].instance} \subseteq Instance
           /\ req[p].pc \in Deciding \cup Moving => req[p].action \in Action
           /\ req[p].closing \in BOOLEAN
BY DEF TypeInv, TypeOK, Holds, Local

LEMMA Unmoved ==
    ASSUME RunsInv, UNCHANGED <<workflows, steps, instances>>
    PROVE  InstancesOK' /\ InstancesGrow
<1>1. TemplatesGrow
  BY DEF TemplatesGrow, HasStep
<1>2. QED
  BY <1>1, InstancesFollow DEF RunsInv

LEMMA CreateInstanceTyped ==
    ASSUME TypeInv, NEW p \in Request, CreateInstance(p)
    PROVE  RunsInv' /\ RequestsInv'
<1>1. /\ req[p].pc = "create_instance" /\ req[p] \in Local /\ Holds(req[p], instances)
      /\ RunsInv /\ RequestsInv
      /\ UNCHANGED <<workflows, steps, users, tasks, history, outcome, votes, cutShort>>
  BY Tables DEF TypeInv, CreateInstance, At, templateVars
<1>2. /\ outcome' \in [Booking -> {"pending", "confirmed", "cancelled"}]
      /\ votes' \in [Booking -> SUBSET (Instance \X Step \X Action)]
      /\ cutShort' \subseteq Instance
  BY <1>1 DEF RunsInv, OthersOK
<1>3. CASE Return(p) /\ UNCHANGED instances
  <2>1. InstancesOK' /\ InstancesGrow
    BY <1>1, <1>3, Unmoved
  <2>2. QED
    BY <1>1, <1>2, <1>3, <2>1, RunStep, RequestReturns
<1>4. ASSUME NEW i \in Instance, InsertInstance(p, i),
             InTable(workflows[req[p].workflow]), HasStep(req[p].next),
             Goto(p, [req[p] EXCEPT !.pc = "first_task", !.instance = i])
      PROVE  RunsInv' /\ RequestsInv'
  <2> DEFINE row == [workflow |-> req[p].workflow, step |-> req[p].next, done |-> FALSE,
                     status |-> "in_progress", booking |-> req[p].booking]
             local == [req[p] EXCEPT !.pc = "first_task", !.instance = i]
  <2>1. row \in InstanceRow
    BY <1>1 DEF Holds, Starting, Local, InstanceRow
  <2>2. row.workflow = req[p].workflow /\ row.step = req[p].next
    OBVIOUS
  <2>3. instances' = [instances EXCEPT ![i] = row]
    BY <1>4 DEF InsertInstance
  <2>4. InstancesOK' /\ InstancesGrow /\ instances'[i] # Unused
    <3>1. instances'[i] = row
      BY <1>1, <2>3 DEF RunsInv, InstancesOK
    <3>2. row # Unused
      BY <2>1, RowsInTable
    <3> HIDE DEF row
    <3>3. QED
      BY <1>1, <1>4, <2>1, <2>2, <2>3, <3>1, <3>2, InstanceWritten DEF RunsInv
  <2>5. local \in Local
    BY <1>1 DEF Local, Submitting
  <2>6. Holds(local, instances')
    BY <1>1, <2>4 DEF Holds, Local, Starting, Submitting, Deciding, Moving
  <2> HIDE DEF local, row
  <2>7. RequestsInv'
    BY <1>1, <1>4, <2>4, <2>5, <2>6, RequestMoves DEF local
  <2>8. QED
    BY <1>1, <1>2, <2>4, <2>7, RunStep
<1>5. QED
  BY <1>3, <1>4 DEF CreateInstance

LEMMA CompleteInstanceTyped ==
    ASSUME TypeInv, NEW p \in Request, CompleteInstance(p)
    PROVE  RunsInv' /\ RequestsInv'
<1> DEFINE i == req[p].instance
<1>1. /\ req[p].pc = "complete" /\ req[p] \in Local /\ Holds(req[p], instances)
      /\ RunsInv /\ RequestsInv
      /\ UNCHANGED <<workflows, steps, users, tasks, history, outcome, votes>>
  BY Tables DEF TypeInv, CompleteInstance, At, templateVars
<1>2. /\ i \in Instance /\ cutShort \cup {i} \subseteq Instance
      /\ req[p].action \in Action
  BY <1>1, OwnInstance DEF Moving
<1>3. /\ outcome' \in [Booking -> {"pending", "confirmed", "cancelled"}]
      /\ votes' \in [Booking -> SUBSET (Instance \X Step \X Action)]
      /\ cutShort \subseteq Instance
  BY <1>1 DEF RunsInv, OthersOK
<1>4. CASE GiveUp(p) /\ UNCHANGED instances
  <2>1. InstancesOK' /\ InstancesGrow
    BY <1>1, <1>4, Unmoved
  <2>2. cutShort' \subseteq Instance /\ Return(p)
    BY <1>2, <1>4 DEF GiveUp
  <2>3. QED
    BY <1>1, <1>3, <2>1, <2>2, RunStep, RequestReturns
<1>5. CASE /\ Running(i) /\ SetCompleted(i) /\ UNCHANGED cutShort
           /\ Goto(p, [req[p] EXCEPT !.pc = "entity", !.booking = instances[i].booking])
  <2> DEFINE row == [instances[i] EXCEPT !.status = "completed", !.done = TRUE]
             local == [req[p] EXCEPT !.pc = "entity", !.booking = instances[i].booking]
  <2>1. instances[i] \in InstanceRow
    BY <1>1, <1>2, <1>5, RunRows
  <2>2. /\ row \in InstanceRow
        /\ row.workflow = instances[i].workflow /\ row.step = instances[i].step
    BY <2>1 DEF InstanceRow, Closed
  <2>3. instances' = [instances EXCEPT ![i] = row]
    BY <1>5 DEF SetCompleted
  <2>4. InTable(workflows[instances[i].workflow]) /\ HasStep(instances[i].step)
    BY <1>1, <1>2, <1>5 DEF RunsInv, InstancesOK
  <2> HIDE DEF row
  <2>5. InstancesOK' /\ InstancesGrow
    BY <1>1, <1>2, <2>2, <2>3, <2>4, InstanceWritten DEF RunsInv
  <2>6. local \in Local
    BY <1>1, <2>1 DEF Local, Moving, InstanceRow
  <2>7. Holds(local, instances')
    BY <1>1, <2>1, <2>5 DEF Holds, Local, Starting, Submitting, Deciding, Moving,
                            InstancesGrow, InstanceRow
  <2> HIDE DEF local
  <2>8. RequestsInv'
    BY <1>1, <1>5, <2>5, <2>6, <2>7, RequestMoves DEF local
  <2>9. QED
    BY <1>1, <1>3, <1>5, <2>5, <2>8, RunStep
<1>6. QED
  BY <1>4, <1>5 DEF CompleteInstance

LEMMA UpdateStepTyped ==
    ASSUME TypeInv, NEW p \in Request, UpdateStep(p)
    PROVE  RunsInv' /\ RequestsInv'
<1> DEFINE i == req[p].instance
<1>1. /\ req[p].pc = "update_step" /\ req[p] \in Local /\ Holds(req[p], instances)
      /\ RunsInv /\ RequestsInv
      /\ UNCHANGED <<workflows, steps, users, tasks, history, outcome, cutShort>>
  BY Tables DEF TypeInv, UpdateStep, At, templateVars
<1>2. /\ i \in Instance /\ req[p].step \in Step /\ req[p].next \in Step
      /\ req[p].action \in Action
  BY <1>1, OwnInstance DEF Deciding
<1>3. /\ outcome' \in [Booking -> {"pending", "confirmed", "cancelled"}]
      /\ votes \in [Booking -> SUBSET (Instance \X Step \X Action)]
      /\ cutShort' \subseteq Instance
  BY <1>1 DEF RunsInv, OthersOK
<1>4. CASE Return(p) /\ UNCHANGED <<instances, votes>>
  <2>1. InstancesOK' /\ InstancesGrow
    BY <1>1, <1>4, Unmoved
  <2>2. QED
    BY <1>1, <1>3, <1>4, <2>1, RunStep, RequestReturns
<1>5. CASE /\ Running(i) /\ HasStep(req[p].next)
           /\ SetStep(i, req[p].next, NewStatus(p))
           /\ votes' = [votes EXCEPT ![instances[i].booking] =
                           @ \cup {<<i, req[p].step, req[p].action>>}]
           /\ Advance(p, "active_task")
  <2> DEFINE row == [instances[i] EXCEPT !.step = req[p].next, !.status = NewStatus(p)]
  <2>1. instances[i] \in InstanceRow
    BY <1>1, <1>2, <1>5, RunRows
  <2>2. row \in InstanceRow /\ row.workflow = instances[i].workflow /\ row.step = req[p].next
    BY <1>2, <2>1 DEF InstanceRow, Closed, NewStatus
  <2>3. instances' = [instances EXCEPT ![i] = row]
    BY <1>5 DEF SetStep
  <2> HIDE DEF row
  <2>4. InTable(workflows[row.workflow]) /\ HasStep(row.step)
    BY <1>1, <1>2, <1>5, <2>2 DEF RunsInv, InstancesOK
  <2>5. InstancesOK' /\ InstancesGrow
    <3>1. InstancesOK /\ UNCHANGED <<workflows, steps>> /\ i \in Instance
      BY <1>1, <1>2 DEF RunsInv
    <3> HIDE DEF i
    <3>2. QED
      BY <3>1, <2>2, <2>3, <2>4, InstanceWritten
  <2>6. votes' \in [Booking -> SUBSET (Instance \X Step \X Action)]
    <3> DEFINE b == instances[i].booking
               cast == votes[b] \cup {<<i, req[p].step, req[p].action>>}
    <3>1. b \in Booking
      BY <2>1 DEF InstanceRow
    <3>2. cast \in SUBSET (Instance \X Step \X Action)
      BY <1>2, <1>3, <3>1
    <3>3. votes' = [votes EXCEPT ![b] = cast]
      BY <1>5
    <3> HIDE DEF cast, b
    <3>4. QED
      BY <1>3, <3>1, <3>2, <3>3
  <2>7. RequestsInv'
    BY <1>1, <1>5, <2>5, RequestAdvances
  <2>8. QED
    BY <1>1, <1>3, <2>5, <2>6, <2>7, RunStep
<1>6. QED
  BY <1>4, <1>5 DEF UpdateStep

\* A task for the instance of the request, to an active holder of a role.
LEMMA TaskCreated ==
    ASSUME TypeInv, NEW p \in Request, NEW step \in Step, CreateTask(p, step),
           req[p].instance \in Instance, Running(req[p].instance), HasStep(step),
           UNCHANGED <<steps, instances>>
    PROVE  TasksOK'
<1>1. DetermineAssignee(req[p].roles) \subseteq User
  BY DEF DetermineAssignee, FewestTasks
<1>2. PICK t \in Task, u \in DetermineAssignee(req[p].roles) :
        tasks' = [tasks EXCEPT ![t] =
            [instance |-> req[p].instance, step |-> step, assignee |-> u, status |-> "pending"]]
  BY DEF CreateTask
<1> DEFINE row == [instance |-> req[p].instance, step |-> step, assignee |-> u,
                   status |-> "pending"]
<1>3. row \in TaskRow /\ row.instance = req[p].instance /\ row.step = step
  BY <1>1 DEF TaskRow
<1>4. tasks' = [tasks EXCEPT ![t] = row]
  BY <1>2
<1> HIDE DEF row
<1>5. QED
  BY <1>3, <1>4, TaskWritten, Tables DEF RunsInv

LEMMA AssignTyped ==
    ASSUME TypeInv, NEW p \in Request, AssignFirst(p) \/ AssignNext(p)
    PROVE  RunsInv' /\ RequestsInv'
<1>1. /\ req[p].pc \in {"first_task", "new_task"} /\ RunsInv /\ RequestsInv
      /\ UNCHANGED <<workflows, steps, users, instances, history, outcome, votes>>
  BY Tables DEF AssignFirst, AssignNext, At, templateVars
<1>2. /\ req[p].instance \in Instance /\ req[p].next \in Step
      /\ cutShort \cup {req[p].instance} \subseteq Instance
  BY <1>1, OwnInstance DEF Submitting, Moving
<1>3. /\ outcome' \in [Booking -> {"pending", "confirmed", "cancelled"}]
      /\ votes' \in [Booking -> SUBSET (Instance \X Step \X Action)]
      /\ cutShort \subseteq Instance
  BY <1>1 DEF RunsInv, OthersOK
<1>4. InstancesOK' /\ InstancesGrow
  BY <1>1, Unmoved
<1>5. CASE GiveUp(p) /\ UNCHANGED tasks
  <2>1. cutShort' \subseteq Instance /\ Return(p)
    BY <1>2, <1>5 DEF GiveUp
  <2>2. QED
    BY <1>1, <1>3, <1>4, <1>5, <2>1, RunStep, RequestReturns
<1>6. CASE /\ Running(req[p].instance) /\ HasStep(req[p].next)
           /\ CreateTask(p, req[p].next) /\ UNCHANGED cutShort
           /\ \/ req[p].pc = "first_task" /\ Advance(p, "first_history")
              \/ req[p].pc = "new_task" /\ Advance(p, "history")
  <2>1. TasksOK'
    BY <1>1, <1>2, <1>6, TaskCreated
  <2>2. RequestsInv'
    BY <1>1, <1>4, <1>6, RequestAdvances
  <2>3. QED
    BY <1>1, <1>3, <1>4, <1>6, <2>1, <2>2, RunStep
<1>7. QED
  BY <1>5, <1>6 DEF AssignFirst, AssignNext, At

LEMMA RecordTyped ==
    ASSUME TypeInv, NEW p \in Request, RecordInitiation(p) \/ RecordAction(p)
    PROVE  RunsInv' /\ RequestsInv'
<1> DEFINE action == IF req[p].pc = "history" THEN req[p].action ELSE "submit"
<1>1. /\ req[p].pc \in {"first_history", "history"} /\ RunsInv /\ RequestsInv
      /\ UNCHANGED <<workflows, steps, users, instances, tasks, outcome, votes>>
  BY Tables DEF RecordInitiation, RecordAction, At, templateVars
<1>2. /\ req[p].instance \in Instance /\ req[p].step \in Step /\ req[p].next \in Step
      /\ cutShort \cup {req[p].instance} \subseteq Instance
      /\ action \in Action \cup {"submit"}
  BY <1>1, OwnInstance DEF Submitting, Moving
<1>3. /\ outcome' \in [Booking -> {"pending", "confirmed", "cancelled"}]
      /\ votes' \in [Booking -> SUBSET (Instance \X Step \X Action)]
      /\ cutShort \subseteq Instance
  BY <1>1 DEF RunsInv, OthersOK
<1>4. InstancesOK' /\ InstancesGrow
  BY <1>1, Unmoved
<1>5. CASE GiveUp(p) /\ UNCHANGED history
  <2>1. cutShort' \subseteq Instance /\ Return(p)
    BY <1>2, <1>5 DEF GiveUp
  <2>2. QED
    BY <1>1, <1>3, <1>4, <1>5, <2>1, RunStep, RequestReturns
<1>6. CASE Recordable(p) /\ CreateHistory(p, action) /\ Return(p) /\ UNCHANGED cutShort
  <2> DEFINE row == [from |-> req[p].step, to |-> req[p].next, action |-> action]
  <2>1. row \in HistoryRow /\ row.from = req[p].step /\ row.to = req[p].next
    BY <1>2 DEF HistoryRow
  <2>2. history' = [history EXCEPT ![req[p].instance] = Append(@, row)]
    BY <1>6 DEF CreateHistory
  <2> HIDE DEF row
  <2>3. HistoriesOK'
    BY <1>1, <1>2, <1>6, <2>1, <2>2, HistoryWritten DEF Recordable, RunsInv
  <2>4. QED
    BY <1>1, <1>3, <1>4, <1>6, <2>3, RunStep, RequestReturns
<1>7. QED
  BY <1>5, <1>6 DEF RecordInitiation, RecordAction, At

LEMMA CompleteTaskTyped ==
    ASSUME TypeInv, NEW p \in Request, CompleteTask(p)
    PROVE  RunsInv' /\ RequestsInv'
<1> DEFINE t == req[p].task
<1>1. /\ req[p].pc = "complete_task" /\ RunsInv /\ RequestsInv
      /\ UNCHANGED <<workflows, steps, users, instances, history, outcome, votes>>
  BY Tables DEF CompleteTask, At, templateVars
<1>2. t \in Task /\ cutShort \cup {req[p].instance} \subseteq Instance
  BY <1>1, OwnInstance DEF Moving, RequestsInv, Holds
<1>3. /\ outcome' \in [Booking -> {"pending", "confirmed", "cancelled"}]
      /\ votes' \in [Booking -> SUBSET (Instance \X Step \X Action)]
      /\ cutShort \subseteq Instance
  BY <1>1 DEF RunsInv, OthersOK
<1>4. InstancesOK' /\ InstancesGrow
  BY <1>1, Unmoved
<1>5. CASE GiveUp(p) /\ UNCHANGED tasks
  <2>1. cutShort' \subseteq Instance /\ Return(p)
    BY <1>2, <1>5 DEF GiveUp
  <2>2. QED
    BY <1>1, <1>3, <1>4, <1>5, <2>1, RunStep, RequestReturns
<1>6. CASE /\ InTable(tasks[t]) /\ SetTaskCompleted(t)
           /\ Advance(p, AfterTask(p)) /\ UNCHANGED cutShort
  <2> DEFINE row == [tasks[t] EXCEPT !.status = "completed"]
  <2>1. tasks[t] \in TaskRow
    BY <1>1, <1>2, <1>6, RunRows
  <2>2. /\ row \in TaskRow
        /\ row.instance = tasks[t].instance /\ row.step = tasks[t].step
    BY <2>1 DEF TaskRow
  <2>3. tasks' = [tasks EXCEPT ![t] = row]
    BY <1>6 DEF SetTaskCompleted
  <2>4. Running(tasks[t].instance) /\ HasStep(tasks[t].step)
    BY <1>1, <1>2, <1>6 DEF RunsInv, TasksOK
  <2> HIDE DEF row
  <2>5. TasksOK'
    BY <1>1, <1>2, <2>2, <2>3, <2>4, TaskWritten DEF RunsInv
  <2>6. RequestsInv'
    BY <1>1, <1>4, <1>6, RequestAdvances
  <2>7. QED
    BY <1>1, <1>3, <1>4, <1>6, <2>5, <2>6, RunStep
<1>7. QED
  BY <1>5, <1>6 DEF CompleteTask

LEMMA UpdateEntityTyped ==
    ASSUME TypeInv, NEW p \in Request, UpdateEntityStatus(p)
    PROVE  RunsInv' /\ RequestsInv'
<1>1. /\ req[p].pc = "entity" /\ Holds(req[p], instances) /\ RunsInv /\ RequestsInv
      /\ UNCHANGED <<workflows, steps, users, instances, tasks, history, votes, cutShort>>
      /\ outcome' = [outcome EXCEPT ![req[p].booking] = EntityStatus(p)]
      /\ Advance(p, "history")
  BY Tables DEF TypeInv, UpdateEntityStatus, At, templateVars
<1>2. /\ votes' \in [Booking -> SUBSET (Instance \X Step \X Action)]
      /\ outcome' \in [Booking -> {"pending", "confirmed", "cancelled"}]
      /\ cutShort' \subseteq Instance
  BY <1>1 DEF RunsInv, OthersOK, EntityStatus
<1>3. InstancesOK' /\ InstancesGrow
  BY <1>1, Unmoved
<1>4. RequestsInv'
  BY <1>1, <1>3, RequestAdvances
<1>5. QED
  BY <1>1, <1>2, <1>3, <1>4, RunStep

LEMMA RequestTyped ==
    ASSUME TypeInv, NEW p \in Request,
           (\E b \in Booking : Initiate(p, b)) \/ ProcessAction(p) \/ Continue(p)
    PROVE  TypeInv'
<1>1. RunsInv' /\ RequestsInv'
  <2>1. CASE (\E b \in Booking : Initiate(p, b)) \/ ProcessAction(p)
    BY <2>1, StartsTyped
  <2>2. CASE Continue(p)
    BY <2>2, ReadsTyped, CreateInstanceTyped, CompleteInstanceTyped, UpdateStepTyped, AssignTyped,
       RecordTyped, CompleteTaskTyped, UpdateEntityTyped DEF Continue
  <2>3. QED
    BY <2>1, <2>2
<1>2. UNCHANGED templateVars
  BY DEF Initiate, ProcessAction, Continue, FirstStep, CreateInstance, AssignFirst, RecordInitiation,
         NextStep, UpdateStep, GetActiveTask, CompleteTask, CompleteInstance, UpdateEntityStatus,
         AssignNext, RecordAction
<1>3. TemplatesInv'
  BY <1>2, Tables DEF TemplatesInv, TemplatesTypeOK, EditsRead, HasStep, HasTransition, templateVars
<1>4. QED
  BY <1>1, <1>3, TablesNext

-------------------------------------------------------------------------------
(***************************************************************************)
(* Around the requests: cascades, edits of the staff, crashes.             *)
(***************************************************************************)
LEMMA FunctionIsSequence ==
    ASSUME NEW S, NEW n \in Nat, NEW f \in [1 .. n -> S]
    PROVE  f \in Seq(S)
OBVIOUS

\* A cascade takes rows, and takes every row that refers to one it takes.
LEMMA CascadeTyped ==
    ASSUME TypeInv, NEW goneSteps \in SUBSET Step, NEW goneWorkflows \in SUBSET Workflow,
           TemplatesKeep(goneSteps, goneWorkflows), InstancesDeleted(goneSteps, goneWorkflows)
    PROVE  RunsInv' /\ RequestsInv'
<1> DEFINE gone == {i \in Instance : /\ Running(i)
                                     /\ \/ instances[i].workflow \in goneWorkflows
                                        \/ instances[i].step \in goneSteps}
           goes(row) == InTable(row) /\ {row.from, row.to} \cap goneSteps # {}
<1>1. /\ instances' = [i \in Instance |-> IF i \in gone THEN Deleted ELSE instances[i]]
      /\ tasks' = [t \in Task |->
                     IF /\ InTable(tasks[t])
                        /\ \/ tasks[t].instance \in gone
                           \/ tasks[t].step \in goneSteps
                     THEN Deleted ELSE tasks[t]]
      /\ history' = [i \in Instance |->
                       IF i \in gone THEN <<>>
                       ELSE [n \in DOMAIN history[i] |->
                               IF goes(history[i][n]) THEN Deleted ELSE history[i][n]]]
      /\ UNCHANGED <<users, outcome, votes, cutShort, req>>
  BY DEF InstancesDeleted
<1>2. RunsInv /\ RequestsInv
  BY Tables
<1>3. /\ instances' \in [Instance -> InstanceRow \cup {Unused, Deleted}]
      /\ \A i \in Instance : /\ Running(i)' <=> Running(i) /\ i \notin gone
                             /\ Running(i)' => instances'[i] = instances[i]
                             /\ instances[i] # Unused => instances'[i] # Unused
  <2> HIDE DEF gone
  <2>1. QED
    BY <1>1, <1>2, RowsInTable DEF RunsInv, InstancesOK, Running
<1>4. InstancesOK'
  <2>1. ASSUME NEW i \in Instance, Running(i)'
        PROVE  /\ InTable(workflows'[instances'[i].workflow])
               /\ HasStep(instances[i].step)'
    <3>1. /\ Running(i) /\ instances'[i] = instances[i] /\ instances[i] \in InstanceRow
          /\ instances[i].workflow \notin goneWorkflows /\ instances[i].step \notin goneSteps
      BY <1>2, <1>3, <2>1, RunRows
    <3>2. instances[i].workflow \in Workflow /\ instances[i].step \in Step
      BY <3>1 DEF InstanceRow
    <3>3. InTable(workflows[instances[i].workflow]) /\ HasStep(instances[i].step)
      BY <1>2, <3>1 DEF RunsInv, InstancesOK
    <3>4. QED
      BY <3>1, <3>2, <3>3 DEF TemplatesKeep, HasStep
  <2>2. QED
    BY <1>3, <2>1 DEF InstancesOK
<1>5. TasksOK'
  <2>1. tasks' \in [Task -> TaskRow \cup {Unused, Deleted}]
    <3> HIDE DEF gone
    <3>1. QED
      BY <1>1, <1>2 DEF RunsInv, TasksOK
  <2>2. ASSUME NEW t \in Task, InTable(tasks'[t])
        PROVE  Running(tasks[t].instance)' /\ HasStep(tasks[t].step)'
    <3>1. /\ InTable(tasks[t]) /\ tasks'[t] = tasks[t]
          /\ tasks[t].instance \notin gone /\ tasks[t].step \notin goneSteps
      <4> HIDE DEF gone
      <4>1. QED
        BY <1>1, <2>2, RowsInTable
    <3>2. tasks[t].instance \in Instance /\ tasks[t].step \in Step
      BY <1>2, <3>1, RunRows DEF TaskRow
    <3>3. Running(tasks[t].instance) /\ HasStep(tasks[t].step)
      BY <1>2, <3>1 DEF RunsInv, TasksOK
    <3> HIDE DEF gone
    <3>4. Running(tasks[t].instance)'
      BY <1>3, <3>1, <3>2, <3>3 DEF Running
    <3>5. HasStep(tasks[t].step)'
      BY <3>1, <3>2, <3>3 DEF TemplatesKeep, HasStep
    <3>6. QED
      BY <3>4, <3>5
  <2>3. QED
    BY <2>1, <2>2 DEF TasksOK
<1>6. HistoriesOK'
  <2> HIDE DEF gone, goes
  <2>1. ASSUME NEW i \in Instance
        PROVE  /\ history'[i] \in Seq(HistoryRow \cup {Deleted})
               /\ \A n \in DOMAIN history'[i] :
                     /\ i \notin gone /\ n \in DOMAIN history[i]
                     /\ InTable(history'[i][n]) =>
                           history'[i][n] = history[i][n] /\ ~goes(history[i][n])
    <3>1. CASE i \in gone
      <4>1. history'[i] = <<>>
        BY <1>1, <3>1
      <4>2. <<>> \in Seq(HistoryRow \cup {Deleted}) /\ DOMAIN <<>> = {}
        OBVIOUS
      <4>3. QED
        BY <4>1, <4>2
    <3>2. CASE i \notin gone
      <4> DEFINE n == Len(history[i])
                 rows == [k \in DOMAIN history[i] |->
                            IF goes(history[i][k]) THEN Deleted ELSE history[i][k]]
      <4>1. /\ n \in Nat /\ DOMAIN history[i] = 1 .. n
            /\ \A k \in 1 .. n : history[i][k] \in HistoryRow \cup {Deleted}
        BY <1>2, LenProperties, ElementOfSeq DEF RunsInv, HistoriesOK
      <4>2. history'[i] = rows
        BY <1>1, <3>2
      <4>3. rows \in [1 .. n -> HistoryRow \cup {Deleted}]
        BY <4>1
      <4>4. rows \in Seq(HistoryRow \cup {Deleted})
        <5> HIDE DEF rows, n
        <5>1. QED
          BY <4>1, <4>3, FunctionIsSequence
      <4>5. \A k \in DOMAIN rows : /\ k \in DOMAIN history[i]
                                   /\ InTable(rows[k]) => /\ rows[k] = history[i][k]
                                                          /\ ~goes(history[i][k])
        BY RowsInTable
      <4> HIDE DEF rows, n
      <4>6. QED
        BY <3>2, <4>2, <4>4, <4>5
    <3>3. QED
      BY <3>1, <3>2
  <2>2. ASSUME NEW i \in Instance, NEW n \in DOMAIN history'[i]
        PROVE  /\ Running(i)'
               /\ InTable(history'[i][n]) => /\ history'[i][n] \in HistoryRow
                                             /\ HasStep(history[i][n].from)'
                                             /\ HasStep(history[i][n].to)'
    <3>1. i \notin gone /\ n \in DOMAIN history[i]
      BY <2>1, <2>2
    <3>2. Running(i)'
      BY <1>2, <1>3, <3>1 DEF RunsInv, HistoriesOK
    <3>3. CASE ~InTable(history'[i][n])
      BY <3>2, <3>3
    <3>4. CASE InTable(history'[i][n])
      <4>1. history'[i][n] = history[i][n] /\ ~goes(history[i][n])
        BY <2>1, <2>2, <3>4
      <4>2. /\ history[i][n] \in HistoryRow /\ InTable(history[i][n])
            /\ HasStep(history[i][n].from) /\ HasStep(history[i][n].to)
        BY <1>2, <3>1, <3>4, <4>1 DEF RunsInv, HistoriesOK
      <4>3. history[i][n].from \in Step \ goneSteps /\ history[i][n].to \in Step \ goneSteps
        BY <4>1, <4>2 DEF goes, HistoryRow
      <4>4. HasStep(history[i][n].from)' /\ HasStep(history[i][n].to)'
        BY <4>1, <4>2, <4>3 DEF TemplatesKeep, HasStep
      <4>5. QED
        BY <3>2, <4>1, <4>2, <4>4
    <3>5. QED
      BY <3>3, <3>4
  <2>3. history' \in [Instance -> Seq(HistoryRow \cup {Deleted})]
    <3>1. history' = [i \in Instance |-> history'[i]]
      BY <1>1
    <3>2. QED
      BY <2>1, <3>1
  <2>4. QED
    BY <2>2, <2>3 DEF HistoriesOK
<1>7. RequestsInv'
  BY <1>1, <1>2, <1>3 DEF RequestsInv, Holds
<1>8. QED
  BY <1>1, <1>2, <1>4, <1>5, <1>6, <1>7 DEF RunsInv, OthersOK

LEMMA EditTyped ==
    ASSUME TypeInv, NEW p \in Admin, EditTemplates(p) \/ FinishEdits(p)
    PROVE  TypeInv'
<1>1. TemplatesInv /\ RunsInv /\ RequestsInv
  BY Tables
<1>2. CASE (StartEdit(p) \/ FinishEdit(p)) /\ UNCHANGED <<users, runVars, req>>
  <2>1. TemplatesInv' /\ TemplatesGrow
    BY <1>1, <1>2, EditsTyped
  <2>2. RunsInv'
    BY <1>1, <1>2, <2>1, RunsFollow DEF RunsInv, OthersOK
  <2>3. RequestsInv'
    BY <1>1, <1>2 DEF RequestsInv, runVars
  <2>4. QED
    BY <2>1, <2>2, <2>3, TablesNext
<1>3. ASSUME NEW w \in Workflow, DeleteWorkflow(p, w),
             InstancesDeleted(GetStepsByWorkflowID(w), {w})
      PROVE  TypeInv'
  <2>1. GetStepsByWorkflowID(w) \in SUBSET Step /\ {w} \in SUBSET Workflow
    BY DEF GetStepsByWorkflowID
  <2>2. QED
    BY <1>1, <1>3, <2>1, DeleteWorkflowTyped, CascadeTyped, TablesNext
<1>4. ASSUME NEW s \in Step, DeleteWorkflowStep(p, s), InstancesDeleted({s}, {})
      PROVE  TypeInv'
  <2>1. {s} \in SUBSET Step /\ {} \in SUBSET Workflow
    OBVIOUS
  <2>2. QED
    BY <1>1, <1>4, <2>1, DeleteStepTyped, CascadeTyped, TablesNext
<1>5. QED
  BY <1>2, <1>3, <1>4 DEF EditTemplates, FinishEdits

LEMMA EditStaffTyped ==
    ASSUME TypeInv, EditStaff
    PROVE  TypeInv'
<1>1. TemplatesInv /\ RunsInv /\ RequestsInv
  BY Tables
<1>2. UNCHANGED <<workflows, steps, transitions, admin, runVars, req>>
  BY DEF EditStaff
<1>3. users' \in [User -> [role : Role \cup {NoRole}, active : BOOLEAN]]
  <2>1. users \in [User -> [role : Role \cup {NoRole}, active : BOOLEAN]]
    BY DEF TypeInv, TypeOK
  <2>2. PICK u \in User : \/ \E r \in Role : users' = [users EXCEPT ![u].role = r]
                          \/ users' = [users EXCEPT ![u].active = FALSE]
    BY DEF EditStaff
  <2>3. CASE users' = [users EXCEPT ![u].active = FALSE]
    BY <2>1, <2>3
  <2>4. ASSUME NEW r \in Role, users' = [users EXCEPT ![u].role = r]
        PROVE  users' \in [User -> [role : Role \cup {NoRole}, active : BOOLEAN]]
    BY <2>1, <2>4
  <2>5. QED
    BY <2>2, <2>3, <2>4
<1>4. edits' \in 0 .. MaxEdits
  BY TemplatesAssumption DEF EditStaff, Counted, TypeInv, TypeOK, TemplatesTypeOK
<1>5. TemplatesInv' /\ TemplatesGrow
  BY <1>1, <1>2, <1>4 DEF TemplatesInv, TemplatesTypeOK, EditsRead, HasStep, HasTransition, TemplatesGrow
<1>6. RunsInv'
  BY <1>1, <1>2, <1>3, <1>5, RunsFollow
<1>7. RequestsInv'
  BY <1>1, <1>2 DEF RequestsInv, runVars
<1>8. QED
  BY <1>5, <1>6, <1>7, TablesNext

LEMMA CrashTyped ==
    ASSUME TypeInv, Crash
    PROVE  TypeInv'
<1>1. TemplatesInv /\ RunsInv /\ RequestsInv
  BY Tables
<1>2. /\ req' = [p \in Request |-> Idle] /\ admin' = [p \in Admin |-> NoEdit]
      /\ cutShort' = cutShort \cup {req[p].instance : p \in {q \in Request : HasWritten(q)}}
      /\ UNCHANGED <<workflows, steps, transitions, edits, users, instances,
                     tasks, history, outcome, votes>>
  BY DEF Crash
<1>3. ASSUME NEW p \in Request, HasWritten(p) PROVE req[p].instance \in Instance
  BY <1>1, <1>3 DEF HasWritten, RequestsInv, Local, Holds, Starting, Submitting, Deciding, Moving
<1>4. cutShort' \subseteq Instance
  BY <1>1, <1>2, <1>3 DEF RunsInv, OthersOK
<1>5. TemplatesInv'
  BY <1>1, <1>2 DEF TemplatesInv, TemplatesTypeOK, EditsRead, HasStep, HasTransition, NoEdit
<1>6. RunsInv'
  BY <1>1, <1>2, <1>4 DEF RunsInv, InstancesOK, TasksOK, HistoriesOK, OthersOK, Running, HasStep
<1>7. RequestsInv'
  BY <1>2, IdleHolds DEF RequestsInv
<1>8. QED
  BY <1>5, <1>6, <1>7, TablesNext

LEMMA InitTyped == Init => TypeInv
<1> SUFFICES ASSUME Init PROVE TypeInv
  OBVIOUS
<1>1. TemplatesInv
  <2>1. /\ workflows = [w \in Workflow |->
                          IF w = Seeded
                          THEN [type |-> "BOOKING_APPROVAL", active |-> TRUE] ELSE Unused]
        /\ steps = [s \in Step |->
                      IF s < SeedSteps
                      THEN [workflow |-> Seeded, order |-> s, initial |-> s = 0,
                            final |-> s = SeedSteps - 1]
                      ELSE Unused]
        /\ admin = [p \in Admin |-> NoEdit] /\ edits = 0
    BY DEF Init, TemplatesInit
  <2>2. workflows \in [Workflow -> WorkflowRow \cup {Unused, Deleted}] /\ InTable(workflows[Seeded])
    BY <2>1, TemplatesAssumption, RowsInTable DEF WorkflowRow, WorkflowType
  <2>3. /\ steps \in [Step -> StepRow \cup {Unused, Deleted}]
        /\ \A s \in Step : /\ HasStep(s) <=> s < SeedSteps
                           /\ HasStep(s) => steps[s].workflow = Seeded
    <3>1. ASSUME NEW s \in Step, s < SeedSteps
          PROVE  steps[s] \in StepRow /\ steps[s].workflow = Seeded
      BY <2>1, <3>1, TemplatesAssumption DEF StepRow
    <3>2. ASSUME NEW s \in Step, ~(s < SeedSteps) PROVE steps[s] = Unused
      BY <2>1, <3>2
    <3>3. QED
      BY <2>1, <3>1, <3>2, RowsInTable DEF HasStep
  <2>4. PICK roles \in [1 .. SeedSteps - 1 -> SUBSET Role \ {{}}] :
          transitions = [t \in Transition |->
                           IF t < SeedSteps
                           THEN [workflow |-> Seeded, from |-> t - 1, to |-> t, roles |-> roles[t]]
                           ELSE Unused]
    BY DEF Init, TemplatesInit
  <2>5. ASSUME NEW t \in Transition, t < SeedSteps
        PROVE  /\ transitions[t] \in TransitionRow /\ transitions[t].workflow = Seeded
               /\ transitions[t].from = t - 1 /\ transitions[t].to = t
               /\ t - 1 \in Step /\ t \in Step
    <3>1. t - 1 \in Step /\ t \in Step /\ t \in 1 .. SeedSteps - 1
      BY <2>5, TemplatesAssumption DEF Transition, Step
    <3>2. QED
      BY <2>4, <2>5, <3>1, TemplatesAssumption DEF TransitionRow
  <2>6. ASSUME NEW t \in Transition, ~(t < SeedSteps) PROVE transitions[t] = Unused
    BY <2>4, <2>6
  <2>7. /\ transitions \in [Transition -> TransitionRow \cup {Unused, Deleted}]
        /\ \A t \in Transition : HasTransition(t) =>
              /\ InTable(workflows[transitions[t].workflow])
              /\ HasStep(transitions[t].from) /\ HasStep(transitions[t].to)
    <3>1. \A t \in Transition : transitions[t] \in TransitionRow \cup {Unused, Deleted}
      BY <2>5, <2>6
    <3>2. ASSUME NEW t \in Transition, HasTransition(t)
          PROVE  /\ InTable(workflows[transitions[t].workflow])
                 /\ HasStep(transitions[t].from) /\ HasStep(transitions[t].to)
      <4>1. t < SeedSteps /\ t \in Nat /\ t - 1 < SeedSteps
        BY <2>6, <3>2, RowsInTable, TemplatesAssumption DEF HasTransition, Transition
      <4>2. QED
        BY <2>2, <2>3, <2>5, <4>1
    <3>3. transitions = [t \in Transition |-> transitions[t]]
      BY <2>4
    <3>4. QED
      BY <3>1, <3>2, <3>3
  <2>8. admin \in [Admin -> Edit \cup {NoEdit}] /\ edits \in 0 .. MaxEdits /\ EditsRead
    BY <2>1, TemplatesAssumption DEF EditsRead, NoEdit
  <2>9. QED
    BY <2>2, <2>3, <2>7, <2>8 DEF TemplatesInv, TemplatesTypeOK
<1>2. RunsInv
  <2>1. <<>> \in Seq(HistoryRow \cup {Deleted}) /\ DOMAIN <<>> = {}
    OBVIOUS
  <2>2. InstancesOK
    BY RowsInTable DEF Init, InstancesOK, Running
  <2>3. TasksOK
    BY RowsInTable DEF Init, TasksOK
  <2>4. HistoriesOK
    BY <2>1 DEF Init, HistoriesOK
  <2>5. OthersOK
    BY DEF Init, OthersOK
  <2>6. QED
    BY <2>2, <2>3, <2>4, <2>5 DEF RunsInv
<1>3. RequestsInv
  BY IdleHolds DEF Init, RequestsInv
<1>4. QED
  BY <1>1, <1>2, <1>3, Tables

LEMMA NextTyped == TypeInv /\ [Next]_vars => TypeInv'
<1> SUFFICES ASSUME TypeInv, [Next]_vars PROVE TypeInv'
  OBVIOUS
<1>1. CASE \E p \in Request, b \in Booking : Initiate(p, b)
  BY <1>1, RequestTyped
<1>2. ASSUME NEW p \in Request, ProcessAction(p) \/ Continue(p)
      PROVE  TypeInv'
  BY <1>2, RequestTyped
<1>3. CASE \E p \in Admin : EditTemplates(p) \/ FinishEdits(p)
  BY <1>3, EditTyped
<1>4. CASE UNCHANGED vars
  BY <1>4 DEF TypeInv, TypeOK, TemplatesTypeOK, EditsRead, Running, HasStep, HasTransition, vars,
              templateVars, runVars
<1>5. QED
  BY <1>1, <1>2, <1>3, <1>4, EditStaffTyped, CrashTyped DEF Next

\* Whatever approvers, template editors and crashes do to each other, every
\* table has its type, and no row of an instance, a task or a history refers
\* to a row that a cascade has taken (InitiateWorkflow, ProcessAction and
\* the deletions of the template administration).
THEOREM ApprovalsTypeCorrect == Spec => []TypeOK
<1>1. TypeInv => TypeOK
  BY DEF TypeInv
<1>2. QED
  BY <1>1, InitTyped, NextTyped, PTL DEF Spec

-------------------------------------------------------------------------------
(***************************************************************************)
(* No step is skipped.  Votes only grow and an instance keeps its booking, *)
(* so that whatever a request has read of the steps behind it stays true.  *)
(***************************************************************************)
Steady ==
    /\ UNCHANGED templateVars
    /\ \A i \in Instance :
          /\ instances'[i] # Deleted
          /\ Running(i) => Running(i)' /\ instances'[i].booking = instances[i].booking
    /\ \A b \in Booking : votes[b] \subseteq votes'[b]

LEMMA BookingOf ==
    ASSUME TypeInv, NEW i \in Instance, Running(i)
    PROVE  instances[i].booking \in Booking /\ instances[i].step \in Step
BY RunRows, Tables DEF InstanceRow

LEMMA BehindStays ==
    ASSUME TypeInv, Steady, NEW i \in Instance, Running(i), NEW s, Behind(i, s)
    PROVE  Behind(i, s)'
<1>1. instances[i].booking \in Booking /\ instances'[i].booking = instances[i].booking
  BY BookingOf DEF Steady
<1>2. ASSUME NEW n \in 1 .. s - 1 PROVE Approved(instances[i].booking, i, n)'
  BY <1>1 DEF Behind, Approved, Steady
<1>3. QED
  BY <1>2 DEF Behind

LEMMA InstanceOf ==
    ASSUME VotesOK, NEW r, Holds(r, instances), r.pc \in Submitting \cup Deciding \cup Moving
    PROVE  r.instance \in Instance /\ Running(r.instance)
BY DEF Holds, VotesOK, SeedShape, Running, InTable

LEMMA JustifiedStays ==
    ASSUME TypeInv, VotesOK, Steady, NEW r, Holds(r, instances), VoteJustified(r)
    PROVE  VoteJustified(r)'
<1>1. r.pc \in Deciding \cup Moving => r.instance \in Instance /\ Running(r.instance)
  BY InstanceOf
<1>2. r.pc \in Deciding => Behind(r.instance, r.step)'
  BY <1>1, BehindStays DEF VoteJustified
<1>3. r.pc \in Moving /\ r.closing /\ r.action = "approve" => Behind(r.instance, SeedSteps)'
  BY <1>1, BehindStays DEF VoteJustified
<1>4. r.pc = "entity" => r.booking = instances'[r.instance].booking
  BY <1>1 DEF VoteJustified, Steady, Moving
<1>5. QED
  BY <1>2, <1>3, <1>4 DEF VoteJustified

\* What a step of one request must show.
LEMMA VotesStep ==
    ASSUME TypeInv, VotesOK, Steady, NoneSkipped', NEW p \in Request, NEW r, Goto(p, r),
           VoteJustified(r)'
    PROVE  VotesOK'
<1>1. SeedShape'
  BY DEF VotesOK, SeedShape, Steady, templateVars, HasStep, HasTransition
<1>2. /\ req'[p] = r
      /\ \A q \in Request : q # p => req'[q] = req[q]
  BY DEF Goto, TypeInv
<1>3. ASSUME NEW q \in Request PROVE VoteJustified(req[q])'
  <2>1. PICK s : s = req'[q]
    OBVIOUS
  <2>2. VoteJustified(s)'
    <3>1. CASE q = p
      BY <1>2, <2>1, <3>1
    <3>2. CASE q # p
      <4>1. s = req[q]
        BY <1>2, <2>1, <3>2
      <4>2. Holds(s, instances) /\ VoteJustified(s)
        BY <4>1 DEF TypeInv, VotesOK
      <4>3. QED
        BY <4>2, JustifiedStays
    <3>3. QED
      BY <3>1, <3>2
  <2>3. QED
    BY <2>1, <2>2 DEF VoteJustified, Behind, Approved
<1>4. QED
  BY <1>1, <1>3 DEF VotesOK

\* A step that moves no instance and gives no booking an outcome.
LEMMA SkippedStays ==
    ASSUME TypeInv, VotesOK, Steady, UNCHANGED outcome,
           \A i \in Instance : Running(i)' =>
              Behind(i, instances[i].step)' \/ (Running(i) /\ instances'[i].step = instances[i].step)
    PROVE  NoneSkipped'
<1>1. ASSUME NEW i \in Instance, Running(i)' PROVE Behind(i, instances[i].step)'
  <2>1. CASE Running(i) /\ instances'[i].step = instances[i].step
    <3>1. PICK s : s = instances[i].step
      OBVIOUS
    <3>2. Behind(i, s)'
      BY <2>1, <3>1, BehindStays DEF VotesOK, NoneSkipped
    <3>3. QED
      BY <2>1, <3>1, <3>2 DEF Behind, Approved
  <2>2. QED
    BY <1>1, <2>1
<1>2. ASSUME NEW b \in Booking, outcome'[b] = "confirmed"
      PROVE  \E i \in Instance : \A s \in 1 .. SeedSteps - 1 : Approved(b, i, s)'
  <2>1. PICK i \in Instance : \A s \in 1 .. SeedSteps - 1 : Approved(b, i, s)
    BY <1>2 DEF VotesOK, NoneSkipped
  <2>2. \A s \in 1 .. SeedSteps - 1 : Approved(b, i, s)'
    BY <2>1 DEF Approved, Steady
  <2>3. QED
    BY <2>2
<1>3. QED
  BY <1>1, <1>2 DEF NoneSkipped

\* Nothing that the votes are about changes.
LEMMA QuietStep ==
    ASSUME TypeInv, VotesOK, UNCHANGED <<templateVars, instances, outcome, votes>>
    PROVE  Steady /\ NoneSkipped'
<1>1. Steady
  BY DEF VotesOK, SeedShape, Steady, Running
<1>2. \A i \in Instance : Running(i)' => Running(i) /\ instances'[i].step = instances[i].step
  BY DEF Running
<1>3. QED
  BY <1>1, <1>2, SkippedStays

LEMMA IdleJustified == VoteJustified(Idle) /\ VoteJustified(Idle)'
BY DEF VoteJustified, Idle, Deciding, Moving

LEMMA ReturnVotes ==
    ASSUME TypeInv, VotesOK, NEW p \in Request, Return(p),
           UNCHANGED <<templateVars, instances, outcome, votes>>
    PROVE  VotesOK'
<1>1. PICK r : r = Idle
  OBVIOUS
<1>2. VoteJustified(r)'
  BY <1>1, IdleJustified DEF VoteJustified, Idle, Behind, Approved
<1>3. QED
  BY <1>1, <1>2, QuietStep, VotesStep DEF Return

\* The statements that act on no instance before they have one.
LEMMA StartVotes ==
    ASSUME TypeInv, VotesOK, NEW p \in Request,
           (\E b \in Booking : Initiate(p, b)) \/ ProcessAction(p)
    PROVE  VotesOK'
<1>1. UNCHANGED <<templateVars, instances, outcome, votes>>
  BY DEF Initiate, ProcessAction, runVars
<1>2. Steady /\ NoneSkipped'
  BY <1>1, QuietStep
<1>3. ASSUME NEW b \in Booking, Initiate(p, b) PROVE VotesOK'
  <2>1. PICK w : Goto(p, [Idle EXCEPT !.pc = "first_step", !.booking = b, !.workflow = w])
    BY <1>3 DEF Initiate
  <2>2. PICK r : r = [Idle EXCEPT !.pc = "first_step", !.booking = b, !.workflow = w]
    OBVIOUS
  <2>3. r.pc = "first_step"
    BY <2>2 DEF Idle
  <2>4. VoteJustified(r)'
    BY <2>3 DEF VoteJustified, Deciding, Moving
  <2>5. QED
    BY <1>2, <2>1, <2>2, <2>4, VotesStep
<1>4. CASE ProcessAction(p)
  <2>1. PICK i \in Instance, u \in User, a \in Action :
          /\ IsOpen(i)
          /\ Goto(p, [Idle EXCEPT !.pc = "next_step", !.instance = i, !.by = u,
                                  !.action = a, !.step = instances[i].step])
    BY <1>4 DEF ProcessAction
  <2>2. PICK r : r = [Idle EXCEPT !.pc = "next_step", !.instance = i, !.by = u,
                                  !.action = a, !.step = instances[i].step]
    OBVIOUS
  <2>3. r.pc = "next_step" /\ r.instance = i /\ r.step = instances[i].step
    BY <2>2 DEF Idle
  <2>4. Behind(i, r.step)'
    BY <1>2, <2>1, <2>3, BehindStays DEF VotesOK, NoneSkipped, IsOpen
  <2>5. VoteJustified(r)'
    BY <2>3, <2>4 DEF VoteJustified, Deciding, Moving
  <2>6. QED
    BY <1>2, <2>1, <2>2, <2>5, VotesStep
<1>5. QED
  BY <1>3, <1>4

\* The first step is numbered 0, and its successor 1.
LEMMA FirstStepVotes ==
    ASSUME TypeInv, VotesOK, NEW p \in Request, FirstStep(p)
    PROVE  VotesOK'
<1>1. UNCHANGED <<templateVars, instances, outcome, votes>>
  BY DEF FirstStep, runVars
<1>2. Steady /\ NoneSkipped' /\ req[p] \in Local
  BY <1>1, QuietStep DEF TypeInv
<1>3. ASSUME NEW t \in GetFirstActionStep(req[p].workflow),
             Goto(p, [req[p] EXCEPT !.pc = "create_instance",
                         !.step = transitions[t].from, !.next = transitions[t].to,
                         !.roles = transitions[t].roles])
      PROVE  VotesOK'
  <2>1. HasTransition(t) /\ steps[transitions[t].from].initial /\ t \in Transition
    BY DEF GetFirstActionStep
  <2>2. HasStep(transitions[t].from) /\ transitions[t].from \in Step
    BY <2>1, TemplateRows, Tables DEF TypeInv, TypeOK, TemplatesTypeOK, TransitionRow
  <2>3. transitions[t].to = 1
    BY <2>1, <2>2 DEF VotesOK, SeedShape
  <2>4. PICK r : r = [req[p] EXCEPT !.pc = "create_instance",
                         !.step = transitions[t].from, !.next = transitions[t].to,
                         !.roles = transitions[t].roles]
    OBVIOUS
  <2>5. r.pc = "create_instance" /\ r.next = 1
    BY <1>2, <2>3, <2>4 DEF Local
  <2>6. VoteJustified(r)'
    BY <2>5 DEF VoteJustified, Deciding, Moving
  <2>7. QED
    BY <1>2, <1>3, <2>4, <2>6, VotesStep
<1>4. QED
  BY <1>1, <1>3, ReturnVotes DEF FirstStep

LEMMA CreateInstanceVotes ==
    ASSUME TypeInv, VotesOK, NEW p \in Request, CreateInstance(p)
    PROVE  VotesOK'
<1>1. /\ req[p].pc = "create_instance" /\ req[p] \in Local /\ req[p].next = 1
      /\ Holds(req[p], instances) /\ UNCHANGED <<templateVars, outcome, votes>>
  BY DEF CreateInstance, At, TypeInv, VotesOK, VoteJustified
<1>2. ASSUME NEW i \in Instance, instances[i] = Unused, InsertInstance(p, i),
             Goto(p, [req[p] EXCEPT !.pc = "first_task", !.instance = i])
      PROVE  VotesOK'
  <2>1. PICK row : row = [workflow |-> req[p].workflow, step |-> req[p].next, done |-> FALSE,
                          status |-> "in_progress", booking |-> req[p].booking]
    OBVIOUS
  <2>2. row \in InstanceRow /\ row.step = 1
    BY <1>1, <2>1 DEF Holds, Starting, Local, InstanceRow
  <2>3. /\ instances'[i] = row
        /\ \A j \in Instance : j # i => instances'[j] = instances[j]
    BY <1>2, <2>1 DEF InsertInstance, TypeInv, TypeOK
  <2>4. Steady
    BY <1>1, <1>2, <2>2, <2>3, RowsInTable DEF Steady, VotesOK, SeedShape, Running
  <2>5. Behind(i, instances[i].step)'
    <3>1. instances'[i].step = 1
      BY <2>2, <2>3
    <3>2. QED
      BY <3>1 DEF Behind
  <2>6. NoneSkipped'
    BY <1>1, <2>3, <2>4, <2>5, SkippedStays DEF Running
  <2>7. PICK r : r = [req[p] EXCEPT !.pc = "first_task", !.instance = i]
    OBVIOUS
  <2>8. r.pc = "first_task"
    BY <1>1, <2>7 DEF Local
  <2>9. VoteJustified(r)'
    BY <2>8 DEF VoteJustified, Deciding, Moving
  <2>10. QED
    BY <1>2, <2>4, <2>6, <2>7, <2>9, VotesStep
<1>3. QED
  BY <1>1, <1>2, ReturnVotes DEF CreateInstance

\* A step leads to its successor, and the last one closes the instance.
LEMMA NextStepVotes ==
    ASSUME TypeInv, VotesOK, NEW p \in Request, NextStep(p)
    PROVE  VotesOK'
<1> DEFINE s == req[p].step
           closing == req[p].action = "reject" \/ (HasStep(s) /\ steps[s].final)
<1>1. /\ UNCHANGED <<templateVars, instances, outcome, votes>>
      /\ req[p].pc = "next_step" /\ req[p] \in Local
      /\ Holds(req[p], instances) /\ VoteJustified(req[p])
  BY DEF NextStep, runVars, At, TypeInv, VotesOK
<1>2. Steady /\ NoneSkipped' /\ s \in Step
  BY <1>1, QuietStep DEF Local
<1>3. ASSUME NEW next, NEW roles,
             IF closing THEN next = s /\ (req[p].action = "approve" => s = SeedSteps - 1)
             ELSE next = s + 1,
             Goto(p, [req[p] EXCEPT !.pc = "update_step", !.next = next,
                             !.roles = roles, !.closing = closing])
      PROVE  VotesOK'
  <2>1. PICK r : r = [req[p] EXCEPT !.pc = "update_step", !.next = next,
                                    !.roles = roles, !.closing = closing]
    OBVIOUS
  <2>2. /\ r.pc = "update_step" /\ r.instance = req[p].instance /\ r.step = s
        /\ r.next = next /\ r.closing = closing /\ r.action = req[p].action
    BY <1>1, <2>1 DEF Local
  <2>3. r.instance \in Instance /\ Running(r.instance) /\ r.action \in Action
    BY <1>1, <2>2, InstanceOf DEF Deciding, Holds
  <2>4. Behind(r.instance, r.step)'
    BY <1>1, <1>2, <2>2, <2>3, BehindStays DEF VoteJustified, Deciding
  <2>5. IF r.closing THEN r.next = r.step /\ (r.action = "approve" => r.step = SeedSteps - 1)
        ELSE r.next = r.step + 1 /\ r.action = "approve"
    BY <1>3, <2>2, <2>3 DEF Action
  <2>6. VoteJustified(r)'
    BY <2>2, <2>4, <2>5 DEF VoteJustified, Deciding, Moving
  <2> HIDE DEF closing
  <2>7. QED
    BY <1>2, <1>3, <2>1, <2>6, VotesStep
<1>4. ASSUME HasStep(s), closing, req[p].action = "approve" PROVE s = SeedSteps - 1
  BY <1>2, <1>4 DEF VotesOK, SeedShape
<1>5. ASSUME NEW t \in GetValidTransitions(s), HasStep(s),
             Goto(p, [req[p] EXCEPT !.pc = "update_step",
                         !.next = IF closing THEN s ELSE transitions[t].to,
                         !.roles = transitions[t].roles, !.closing = closing])
      PROVE  VotesOK'
  <2>1. transitions[t].to = s + 1
    BY DEF GetValidTransitions, VotesOK, SeedShape
  <2> HIDE DEF closing
  <2>2. QED
    BY <1>3, <1>4, <1>5, <2>1
<1>6. CASE /\ closing /\ HasStep(s)
           /\ Goto(p, [req[p] EXCEPT !.pc = "update_step", !.next = s,
                              !.roles = {}, !.closing = closing])
  <2> HIDE DEF closing
  <2>1. QED
    BY <1>3, <1>4, <1>6
<1>7. CASE Return(p)
  BY <1>1, <1>7, ReturnVotes
<1>8. \/ Return(p)
      \/ /\ HasStep(s)
         /\ \E t \in GetValidTransitions(s) :
              Goto(p, [req[p] EXCEPT !.pc = "update_step",
                          !.next = IF closing THEN s ELSE transitions[t].to,
                          !.roles = transitions[t].roles, !.closing = closing])
      \/ /\ closing /\ HasStep(s)
         /\ Goto(p, [req[p] EXCEPT !.pc = "update_step", !.next = s,
                            !.roles = {}, !.closing = closing])
  BY Zenon DEF NextStep
<1> HIDE DEF closing, s
<1>9. QED
  BY <1>5, <1>6, <1>7, <1>8

\* The vote for the step is cast with the move away from it.
LEMMA UpdateStepVotes ==
    ASSUME TypeInv, VotesOK, NEW p \in Request, UpdateStep(p)
    PROVE  VotesOK'
<1>0. PICK i, s, next, action : /\ i = req[p].instance /\ s = req[p].step
                                /\ next = req[p].next /\ action = req[p].action
  OBVIOUS
<1>1. /\ req[p].pc = "update_step" /\ req[p] \in Local
      /\ Holds(req[p], instances) /\ VoteJustified(req[p])
      /\ UNCHANGED <<templateVars, outcome>>
  BY DEF UpdateStep, At, TypeInv, VotesOK
<1>2. /\ i \in Instance /\ Running(i) /\ s \in Step /\ action \in Action
      /\ instances[i] \in InstanceRow
  BY <1>0, <1>1, InstanceOf, RunRows, Tables DEF Deciding, Holds, Local
<1>3. CASE Return(p) /\ UNCHANGED <<instances, votes>>
  BY <1>1, <1>3, ReturnVotes
<1>4. CASE /\ SetStep(i, next, NewStatus(p))
           /\ votes' = [votes EXCEPT ![instances[i].booking] = @ \cup {<<i, s, action>>}]
           /\ Advance(p, "active_task")
  <2>1. PICK row : row = [instances[i] EXCEPT !.step = next, !.status = NewStatus(p)]
    OBVIOUS
  <2>2. PICK b : b = instances[i].booking
    OBVIOUS
  <2>3. /\ row \in InstanceRow /\ row.booking = b /\ row.step = next /\ b \in Booking
    BY <1>0, <1>1, <1>2, <2>1, <2>2 DEF InstanceRow, Local, Closed, NewStatus
  <2>4. /\ instances'[i] = row
        /\ \A j \in Instance : j # i => instances'[j] = instances[j]
    BY <1>2, <1>4, <2>1 DEF SetStep, TypeInv, TypeOK
  <2>5. /\ <<i, s, action>> \in votes'[b]
        /\ \A c \in Booking : votes[c] \subseteq votes'[c]
    BY <1>4, <2>2, <2>3 DEF TypeInv, TypeOK
  <2>6. Steady
    BY <1>1, <2>2, <2>3, <2>4, <2>5, RowsInTable DEF Steady, VotesOK, SeedShape, Running
  <2>7. \A n \in 1 .. s - 1 : Approved(b, i, n)'
    <3>1. Behind(i, s)'
      BY <1>0, <1>1, <1>2, <2>6, BehindStays DEF VoteJustified, Deciding
    <3>2. QED
      BY <2>3, <2>4, <3>1 DEF Behind
  <2>8. action = "approve" => \A n \in 1 .. s : Approved(b, i, n)'
    <3>1. ASSUME action = "approve", NEW n \in 1 .. s PROVE Approved(b, i, n)'
      <4>1. n = s \/ n \in 1 .. s - 1
        BY <1>2 DEF Step
      <4>2. CASE n = s
        BY <2>5, <3>1, <4>2 DEF Approved
      <4>3. QED
        BY <2>7, <4>1, <4>2
    <3>2. QED
      BY <3>1
  <2>9. IF req[p].closing THEN next = s /\ (action = "approve" => s = SeedSteps - 1)
        ELSE next = s + 1 /\ action = "approve"
    BY <1>0, <1>1 DEF VoteJustified
  <2>10. Behind(i, instances[i].step)'
    <3>1. instances'[i].step = next /\ instances'[i].booking = b
      BY <2>3, <2>4
    <3>2. \A n \in 1 .. next - 1 : Approved(b, i, n)'
      <4>1. CASE next = s
        BY <2>7, <4>1
      <4>2. CASE next = s + 1 /\ action = "approve"
        <5>1. next - 1 = s
          BY <1>2, <4>2 DEF Step
        <5>2. QED
          BY <2>8, <4>2, <5>1
      <4>3. QED
        BY <2>9, <4>1, <4>2
    <3>3. QED
      BY <3>1, <3>2 DEF Behind
  <2>11. NoneSkipped'
    BY <1>1, <2>4, <2>6, <2>10, SkippedStays DEF Running
  <2>12. PICK r : r = [req[p] EXCEPT !.pc = "active_task"]
    OBVIOUS
  <2>13. /\ r.pc = "active_task" /\ r.instance = i /\ r.closing = req[p].closing
         /\ r.action = action
    BY <1>0, <1>1, <2>12 DEF Local
  <2>14. r.closing /\ r.action = "approve" => Behind(i, SeedSteps)'
    <3>1. ASSUME req[p].closing, action = "approve" PROVE Behind(i, SeedSteps)'
      <4>1. instances'[i].booking = b
        BY <2>3, <2>4
      <4>2. \A n \in 1 .. SeedSteps - 1 : Approved(b, i, n)'
        BY <2>8, <2>9, <3>1
      <4>3. QED
        BY <4>1, <4>2 DEF Behind
    <3>2. QED
      BY <2>13, <3>1
  <2>15. VoteJustified(r)'
    BY <2>13, <2>14 DEF VoteJustified, Deciding, Moving
  <2>16. QED
    BY <1>4, <2>6, <2>11, <2>12, <2>15, VotesStep DEF Advance
<1>5. QED
  BY <1>0, <1>3, <1>4 DEF UpdateStep

\* A request that goes on with what it knows.
LEMMA AdvanceVotes ==
    ASSUME TypeInv, VotesOK, NEW p \in Request, NEW pc, Advance(p, pc),
           req[p].pc \in Submitting \cup Moving, pc \in Submitting \cup (Moving \ {"entity"}),
           pc \in Moving => req[p].pc \in Moving,
           Steady, NoneSkipped'
    PROVE  VotesOK'
<1>1. req[p] \in Local /\ Holds(req[p], instances) /\ VoteJustified(req[p])
  BY DEF TypeInv, VotesOK
<1>2. PICK r : r = [req[p] EXCEPT !.pc = pc]
  OBVIOUS
<1>3. /\ r.pc = pc /\ r.instance = req[p].instance /\ r.closing = req[p].closing
      /\ r.action = req[p].action
  BY <1>1, <1>2 DEF Local
<1>4. r.instance \in Instance /\ Running(r.instance)
  BY <1>1, <1>3, InstanceOf
<1>5. pc \in Moving /\ r.closing /\ r.action = "approve" => Behind(r.instance, SeedSteps)'
  BY <1>1, <1>3, <1>4, BehindStays DEF VoteJustified
<1>6. VoteJustified(r)'
  BY <1>3, <1>5 DEF VoteJustified, Submitting, Deciding, Moving
<1>7. QED
  BY <1>2, <1>6, VotesStep DEF Advance

\* The tasks and the history, which the votes are not about.
LEMMA RecordVotes ==
    ASSUME TypeInv, VotesOK, NEW p \in Request,
           \/ AssignFirst(p) \/ RecordInitiation(p) \/ GetActiveTask(p) \/ CompleteTask(p)
           \/ AssignNext(p) \/ RecordAction(p)
    PROVE  VotesOK'
<1>1. UNCHANGED <<templateVars, instances, outcome, votes>>
  BY DEF AssignFirst, RecordInitiation, GetActiveTask, CompleteTask, AssignNext, RecordAction, runVars
<1>2. Steady /\ NoneSkipped'
  BY <1>1, QuietStep
<1>3. CASE Return(p)
  BY <1>1, <1>3, ReturnVotes
<1>4. CASE req[p].pc = "first_task" /\ Advance(p, "first_history")
  BY <1>2, <1>4, AdvanceVotes DEF Submitting, Moving
<1>5. CASE req[p].pc = "new_task" /\ Advance(p, "history")
  BY <1>2, <1>5, AdvanceVotes DEF Submitting, Moving
<1>6. CASE req[p].pc \in {"active_task", "complete_task"} /\ Advance(p, AfterTask(p))
  <2>1. AfterTask(p) \in {"complete", "new_task"}
    BY DEF AfterTask
  <2>2. QED
    BY <1>2, <1>6, <2>1, AdvanceVotes DEF Submitting, Moving
<1>7. ASSUME NEW t, req[p].pc = "active_task",
             Goto(p, [req[p] EXCEPT !.pc = "complete_task", !.task = t])
      PROVE  VotesOK'
  <2>1. req[p] \in Local /\ Holds(req[p], instances) /\ VoteJustified(req[p])
    BY DEF TypeInv, VotesOK
  <2>2. PICK r : r = [req[p] EXCEPT !.pc = "complete_task", !.task = t]
    OBVIOUS
  <2>3. /\ r.pc = "complete_task" /\ r.instance = req[p].instance
        /\ r.closing = req[p].closing /\ r.action = req[p].action
    BY <2>1, <2>2 DEF Local
  <2>4. r.instance \in Instance /\ Running(r.instance)
    BY <1>7, <2>1, <2>3, InstanceOf DEF Moving
  <2>5. r.closing /\ r.action = "approve" => Behind(r.instance, SeedSteps)'
    BY <1>2, <1>7, <2>1, <2>3, <2>4, BehindStays DEF VoteJustified, Moving
  <2>6. VoteJustified(r)'
    BY <2>3, <2>5 DEF VoteJustified, Deciding, Moving
  <2>7. QED
    BY <1>2, <1>7, <2>2, <2>6, VotesStep
<1>8. QED
  BY <1>3, <1>4, <1>5, <1>6, <1>7
  DEF AssignFirst, RecordInitiation, GetActiveTask, CompleteTask, AssignNext, RecordAction, At, GiveUp

\* Closing gives the request the booking of its instance.
LEMMA CompleteInstanceVotes ==
    ASSUME TypeInv, VotesOK, NEW p \in Request, CompleteInstance(p)
    PROVE  VotesOK'
<1>0. PICK i : i = req[p].instance
  OBVIOUS
<1>1. /\ req[p].pc = "complete" /\ req[p] \in Local
      /\ Holds(req[p], instances) /\ VoteJustified(req[p])
      /\ UNCHANGED <<templateVars, outcome, votes>>
  BY DEF CompleteInstance, At, TypeInv, VotesOK
<1>2. i \in Instance /\ Running(i) /\ instances[i] \in InstanceRow
  BY <1>0, <1>1, InstanceOf, RunRows, Tables DEF Moving
<1>3. CASE GiveUp(p) /\ UNCHANGED instances
  BY <1>1, <1>3, ReturnVotes DEF GiveUp
<1>4. CASE /\ SetCompleted(i)
           /\ Goto(p, [req[p] EXCEPT !.pc = "entity", !.booking = instances[i].booking])
  <2>1. PICK row : row = [instances[i] EXCEPT !.status = "completed", !.done = TRUE]
    OBVIOUS
  <2>2. /\ row \in InstanceRow
        /\ row.booking = instances[i].booking /\ row.step = instances[i].step
    BY <1>2, <2>1 DEF InstanceRow, Closed
  <2>3. /\ instances'[i] = row
        /\ \A j \in Instance : j # i => instances'[j] = instances[j]
    BY <1>2, <1>4, <2>1 DEF SetCompleted, TypeInv, TypeOK
  <2>4. Steady
    BY <1>1, <2>2, <2>3, RowsInTable DEF Steady, VotesOK, SeedShape, Running
  <2>5. NoneSkipped'
    BY <1>1, <1>2, <2>2, <2>3, <2>4, SkippedStays DEF Running
  <2>6. PICK r : r = [req[p] EXCEPT !.pc = "entity", !.booking = instances[i].booking]
    OBVIOUS
  <2>7. /\ r.pc = "entity" /\ r.instance = i /\ r.closing = req[p].closing
        /\ r.action = req[p].action /\ r.booking = instances[i].booking
    BY <1>0, <1>1, <2>6 DEF Local
  <2>8. r.closing /\ r.action = "approve" => Behind(i, SeedSteps)'
    BY <1>0, <1>1, <1>2, <2>4, <2>7, BehindStays DEF VoteJustified, Moving
  <2>9. r.booking = instances'[r.instance].booking
    BY <2>2, <2>3, <2>7
  <2>10. VoteJustified(r)'
    BY <2>7, <2>8, <2>9 DEF VoteJustified, Deciding, Moving
  <2>11. QED
    BY <1>4, <2>4, <2>5, <2>6, <2>10, VotesStep
<1>5. QED
  BY <1>0, <1>3, <1>4 DEF CompleteInstance

LEMMA UpdateEntityVotes ==
    ASSUME TypeInv, VotesOK, NEW p \in Request, UpdateEntityStatus(p)
    PROVE  VotesOK'
<1>0. PICK i, b : i = req[p].instance /\ b = req[p].booking
  OBVIOUS
<1>1. /\ req[p].pc = "entity" /\ req[p] \in Local
      /\ Holds(req[p], instances) /\ VoteJustified(req[p])
      /\ UNCHANGED <<templateVars, instances, votes>>
      /\ outcome' = [outcome EXCEPT ![b] = EntityStatus(p)]
      /\ Advance(p, "history")
  BY <1>0 DEF UpdateEntityStatus, At, TypeInv, VotesOK
<1>2. /\ i \in Instance /\ Running(i) /\ b = instances[i].booking /\ b \in Booking
      /\ req[p].closing
  BY <1>0, <1>1, InstanceOf, BookingOf DEF Moving, VoteJustified, Holds
<1>3. Steady
  BY <1>1 DEF VotesOK, SeedShape, Steady, Running
<1>4. NoneSkipped'
  <2>1. ASSUME NEW j \in Instance, Running(j)' PROVE Behind(j, instances[j].step)'
    <3>1. Behind(j, instances[j].step)
      BY <1>1, <2>1 DEF VotesOK, NoneSkipped, Running
    <3>2. QED
      BY <1>1, <3>1 DEF Behind, Approved
  <2>2. ASSUME NEW c \in Booking, outcome'[c] = "confirmed"
        PROVE  \E j \in Instance : \A s \in 1 .. SeedSteps - 1 : Approved(c, j, s)'
    <3>1. CASE outcome[c] = "confirmed"
      <4>1. PICK j \in Instance : \A s \in 1 .. SeedSteps - 1 : Approved(c, j, s)
        BY <3>1 DEF VotesOK, NoneSkipped
      <4>2. QED
        BY <1>1, <4>1 DEF Approved
    <3>2. CASE outcome[c] # "confirmed"
      <4>1. c = b /\ req[p].action = "approve"
        BY <1>1, <2>2, <3>2 DEF EntityStatus, TypeInv, TypeOK
      <4>2. Behind(i, SeedSteps)
        BY <1>0, <1>1, <1>2, <4>1 DEF VoteJustified, Moving
      <4>3. \A s \in 1 .. SeedSteps - 1 : Approved(c, i, s)'
        BY <1>1, <1>2, <4>1, <4>2 DEF Behind, Approved
      <4>4. QED
        BY <1>2, <4>3
    <3>3. QED
      BY <3>1, <3>2
  <2>3. QED
    BY <2>1, <2>2 DEF NoneSkipped
<1>5. QED
  BY <1>1, <1>3, <1>4, AdvanceVotes DEF Submitting, Moving

LEMMA CrashVotes ==
    ASSUME TypeInv, VotesOK, Crash
    PROVE  VotesOK'
<1>1. /\ req' = [p \in Request |-> Idle] /\ admin' = [p \in Admin |-> NoEdit]
      /\ UNCHANGED <<workflows, steps, transitions, instances, outcome, votes>>
  BY DEF Crash
<1>2. SeedShape' /\ NoneSkipped'
  BY <1>1 DEF VotesOK, SeedShape, NoneSkipped, Behind, Approved, Running, HasStep, HasTransition
<1>3. \A p \in Request : VoteJustified(req[p])'
  BY <1>1 DEF VoteJustified, Idle, Deciding, Moving
<1>4. QED
  BY <1>2, <1>3 DEF VotesOK

LEMMA InitVotes == Init => VotesOK
<1> SUFFICES ASSUME Init PROVE VotesOK
  OBVIOUS
<1>1. SeedShape
  <2>1. ASSUME NEW s \in Step, HasStep(s)
        PROVE  (steps[s].initial <=> s = 0) /\ (steps[s].final <=> s = SeedSteps - 1)
    BY <2>1, RowsInTable DEF Init, TemplatesInit, HasStep
  <2>2. ASSUME NEW t \in Transition, HasTransition(t)
        PROVE  transitions[t].to = transitions[t].from + 1
    <3>1. PICK roles \in [1 .. SeedSteps - 1 -> SUBSET Role \ {{}}] :
            transitions = [u \in Transition |->
                             IF u < SeedSteps
                             THEN [workflow |-> Seeded, from |-> u - 1, to |-> u, roles |-> roles[u]]
                             ELSE Unused]
      BY DEF Init, TemplatesInit
    <3>2. transitions[t].from = t - 1 /\ transitions[t].to = t
      BY <2>2, <3>1, RowsInTable DEF HasTransition
    <3>3. QED
      BY <3>2, TemplatesAssumption DEF Transition
  <2>3. /\ \A p \in Admin : admin[p] = NoEdit
        /\ \A i \in Instance : instances[i] # Deleted
    BY RowsInTable DEF Init, TemplatesInit
  <2>4. QED
    BY <2>1, <2>2, <2>3 DEF SeedShape
<1>2. NoneSkipped
  BY RowsInTable DEF Init, NoneSkipped, Running
<1>3. \A p \in Request : VoteJustified(req[p])
  BY IdleJustified DEF Init
<1>4. QED
  BY <1>1, <1>2, <1>3 DEF VotesOK

\* Every edit counts, and none is in flight before the first.
LEMMA NoEditYet ==
    ASSUME TypeInv, VotesInv, Next, edits' = 0
    PROVE  /\ VotesOK
           /\ \/ \E p \in Request : \/ \E b \in Booking : Initiate(p, b)
                                    \/ ProcessAction(p) \/ Continue(p)
              \/ Crash
<1>1. edits \in Nat
  BY TemplatesAssumption DEF TypeInv, TypeOK, TemplatesTypeOK
<1>2. ASSUME Counted PROVE FALSE
  BY <1>1, <1>2 DEF Counted
<1>3. ~EditStaff
  BY <1>2 DEF EditStaff
<1>4. ASSUME NEW p \in Admin, EditTemplates(p) PROVE FALSE
  BY <1>2, <1>4 DEF EditTemplates, StartEdit, CreateWorkflow, UpdateWorkflow, DeactivateWorkflow,
     CreateWorkflowStep, UpdateWorkflowStep, CreateWorkflowTransition, UpdateWorkflowTransition,
     DeleteWorkflowTransition, DeleteWorkflow, DeleteWorkflowStep, Read
<1>5. ASSUME NEW p \in Admin, FinishEdits(p) PROVE FALSE
  <2>1. edits = 0
    BY <1>5 DEF FinishEdits, FinishEdit, WriteWorkflow, WriteStep, WriteTransition
  <2>2. admin[p] = NoEdit
    BY <2>1 DEF VotesInv, VotesOK, SeedShape
  <2>3. QED
    BY <1>5, <2>2 DEF NoEdit, FinishEdits, FinishEdit, WriteWorkflow, WriteStep, WriteTransition
<1>6. \/ \E p \in Request : (\E b \in Booking : Initiate(p, b)) \/ ProcessAction(p) \/ Continue(p)
      \/ Crash
  BY <1>3, <1>4, <1>5 DEF Next
<1>7. edits = 0
  BY <1>6 DEF Initiate, ProcessAction, Continue, FirstStep, CreateInstance, AssignFirst,
     RecordInitiation, NextStep, UpdateStep, GetActiveTask, CompleteTask, CompleteInstance,
     UpdateEntityStatus, AssignNext, RecordAction, Crash, templateVars
<1>8. QED
  BY <1>6, <1>7 DEF VotesInv

LEMMA NextVotes == TypeInv /\ VotesInv /\ [Next]_vars => VotesInv'
<1> SUFFICES ASSUME TypeInv, VotesInv, [Next]_vars, edits' = 0 PROVE VotesOK'
  BY DEF VotesInv
<1>1. CASE UNCHANGED vars
  BY <1>1 DEF VotesInv, VotesOK, SeedShape, NoneSkipped, VoteJustified, Behind, Approved, Running,
              HasStep, HasTransition, vars, templateVars, runVars
<1>2. CASE Next
  <2>1. /\ VotesOK
        /\ \/ \E p \in Request : (\E b \in Booking : Initiate(p, b)) \/ ProcessAction(p) \/ Continue(p)
           \/ Crash
    BY <1>2, NoEditYet
  <2>2. ASSUME NEW p \in Request, Continue(p) PROVE VotesOK'
    BY <2>1, <2>2, FirstStepVotes, CreateInstanceVotes, NextStepVotes, UpdateStepVotes, RecordVotes,
       CompleteInstanceVotes, UpdateEntityVotes DEF Continue
  <2>3. QED
    BY <2>1, <2>2, StartVotes, CrashVotes
<1>3. QED
  BY <1>1, <1>2

\* However the approvals of an instance interleave, a late one moving it
\* back included, every step behind the one it stands on was approved, and
\* a booking is confirmed only by an instance that was approved at every
\* step; as long as the templates are the seeded ones (ProcessAction reads
\* the step, and writes it in another statement).
THEOREM NoStepEverSkipped == Spec => []NoStepSkipped
<1>1. VotesInv => NoStepSkipped
  BY DEF VotesInv, VotesOK, NoneSkipped, NoStepSkipped, Behind
<1>2. Init => VotesInv
  BY InitVotes DEF VotesInv
<1>3. QED
  BY <1>1, <1>2, InitTyped, NextTyped, NextVotes, PTL DEF Spec

-------------------------------------------------------------------------------
(***************************************************************************)
(* One request at a time.                                                  *)
(***************************************************************************)
\* No row is written, but a cascade may take some; of an instance that it
\* leaves it leaves the tasks of the step that the instance stands on.
OnlyTaken ==
    /\ \A i \in Instance : Running(i)' => Running(i) /\ instances'[i] = instances[i]
    /\ \A t \in Task : InTable(tasks'[t]) => tasks'[t] = tasks[t]
    /\ \A t \in Task : (/\ InTable(tasks[t]) /\ InTable(instances'[tasks[t].instance])
                        /\ tasks[t].step = instances[tasks[t].instance].step)
                       => tasks'[t] = tasks[t]

LEMMA PendingTaken ==
    ASSUME OnlyTaken, NEW i \in Instance
    PROVE  Pending(i)' \subseteq Pending(i)
BY DEF OnlyTaken, Pending, TasksOf

LEMMA AskedTaken ==
    ASSUME OnlyTaken, NEW i \in Instance, Running(i)', Asked(i)
    PROVE  Asked(i)'
<1>1. Running(i) /\ instances'[i] = instances[i] /\ Pending(i)' \subseteq Pending(i)
  BY PendingTaken DEF OnlyTaken
<1>2. IsOpen(i)' <=> IsOpen(i)
  BY <1>1 DEF IsOpen
<1>3. CASE ~IsOpen(i)
  BY <1>1, <1>2, <1>3 DEF Asked
<1>4. CASE IsOpen(i)
  <2>1. PICK t \in Task : Pending(i) = {t} /\ tasks[t].step = instances[i].step
    BY <1>4 DEF Asked
  <2>2. /\ InTable(tasks[t]) /\ tasks[t].instance = i /\ tasks[t].status = "pending"
    BY <2>1 DEF Pending, TasksOf
  <2>3. tasks'[t] = tasks[t]
    BY <2>1, <2>2 DEF OnlyTaken, Running
  <2>4. t \in Pending(i)'
    BY <2>2, <2>3 DEF Pending, TasksOf
  <2>5. Pending(i)' = {t} /\ tasks'[t].step = instances'[i].step
    BY <1>1, <2>1, <2>3, <2>4
  <2>6. QED
    BY <1>2, <1>4, <2>5 DEF Asked
<1>5. QED
  BY <1>3, <1>4

LEMMA HalfwayTaken ==
    ASSUME OnlyTaken, NEW r, r.instance \in Instance, Running(r.instance)', AskedHalfway(r)
    PROVE  AskedHalfway(r)'
<1>1. Pending(r.instance)' \subseteq Pending(r.instance)
  BY PendingTaken
<1>2. Asked(r.instance) => Asked(r.instance)'
  BY AskedTaken
<1>3. r.pc = "active_task" => \E t \in Task : Pending(r.instance)' \subseteq {t}
  BY <1>1 DEF AskedHalfway
<1>4. QED
  BY <1>1, <1>2, <1>3 DEF AskedHalfway

LEMMA WrittenPc ==
    ASSUME RequestsInv, NEW p \in Request
    PROVE  /\ HasWritten(p) <=> req[p].pc \in Submitting \cup Moving
           /\ req[p].pc \in Submitting \cup Deciding \cup Moving => req[p].instance \in Instance
BY DEF RequestsInv, HasWritten, Holds, Local, Starting, Submitting, Deciding, Moving

\* The requests stay where they are while templates and staff are edited.
LEMMA TakenTasks ==
    ASSUME TypeInv, TasksInv, OnlyTaken, UNCHANGED <<req, cutShort>>
    PROVE  TasksInv'
<1>1. ASSUME NEW p \in Request
      PROVE  /\ HasWritten(p)' <=> HasWritten(p)
             /\ HasWritten(p) <=> req[p].pc \in Submitting \cup Moving
             /\ req[p].pc \in Submitting \cup Deciding \cup Moving => req[p].instance \in Instance
  BY WrittenPc, Tables DEF HasWritten
<1>2. \A i \in Instance : Running(i)' => /\ Running(i) /\ instances'[i] = instances[i]
                                         /\ IsOpen(i)' <=> IsOpen(i)
  BY DEF OnlyTaken, IsOpen
<1>3. OpenWhenRead'
  BY <1>1, <1>2 DEF TasksInv, OpenWhenRead, IsOpen, Running
<1>4. MovedWhereTo'
  <2>1. ASSUME NEW p \in Request, HasWritten(p), Running(req[p].instance)'
        PROVE  /\ instances'[req[p].instance].step = req[p].next
               /\ IsOpen(req[p].instance)' <=> ~req[p].closing
    <3>1. PICK i : i = req[p].instance
      OBVIOUS
    <3>2. /\ i \in Instance /\ Running(i)' /\ req'[p] = req[p]
      BY <1>1, <2>1, <3>1 DEF Running
    <3>3. QED
      BY <1>1, <1>2, <2>1, <3>1, <3>2 DEF TasksInv, MovedWhereTo, IsOpen, Running
  <2>2. QED
    BY <1>1, <2>1 DEF MovedWhereTo, HasWritten
<1>5. \A i \in Instance \ cutShort' : Running(i)' /\ ~Halfway(i)' => Asked(i)'
  <2>1. \A i \in Instance : Halfway(i)' <=> Halfway(i)
    BY DEF Halfway, HasWritten
  <2>2. QED
    BY <1>2, <2>1, AskedTaken DEF TasksInv
<1>6. ASSUME NEW p \in Request, HasWritten(p)', Running(req[p].instance)'
      PROVE  req[p].instance \in cutShort' \/ AskedHalfway(req[p])'
  <2>1. PICK r : r = req[p] /\ r = req'[p]
    OBVIOUS
  <2>2. r.instance \in Instance /\ HasWritten(p) /\ Running(r.instance)'
    BY <1>1, <1>6, <2>1 DEF Running
  <2>3. r.instance \in cutShort \/ AskedHalfway(r)
    BY <1>2, <2>1, <2>2 DEF TasksInv
  <2>4. r.instance \in cutShort' \/ AskedHalfway(r)'
    BY <2>2, <2>3, HalfwayTaken
  <2>5. QED
    BY <2>1, <2>4 DEF AskedHalfway, Asked, Pending, TasksOf, IsOpen, Running
<1>7. OwnTask'
  BY DEF TasksInv, OwnTask, OnlyTaken, TypeInv, Holds
<1>8. QED
  BY <1>3, <1>4, <1>5, <1>6, <1>7 DEF TasksInv

LEMMA CascadeTakes ==
    ASSUME TypeInv, NEW goneSteps, NEW goneWorkflows, InstancesDeleted(goneSteps, goneWorkflows)
    PROVE  OnlyTaken /\ UNCHANGED <<req, cutShort>>
<1> DEFINE gone == {i \in Instance : /\ Running(i)
                                     /\ \/ instances[i].workflow \in goneWorkflows
                                        \/ instances[i].step \in goneSteps}
<1>1. /\ instances' = [i \in Instance |-> IF i \in gone THEN Deleted ELSE instances[i]]
      /\ tasks' = [t \in Task |->
                     IF /\ InTable(tasks[t])
                        /\ \/ tasks[t].instance \in gone
                           \/ tasks[t].step \in goneSteps
                     THEN Deleted ELSE tasks[t]]
      /\ UNCHANGED <<req, cutShort>>
  BY DEF InstancesDeleted
<1>2. \A i \in Instance : Running(i)' =>
         Running(i) /\ i \notin gone /\ instances'[i] = instances[i]
  <2> HIDE DEF gone
  <2>1. QED
    BY <1>1, RowsInTable DEF Running
<1>3. \A t \in Task : InTable(tasks'[t]) => tasks'[t] = tasks[t]
  <2> HIDE DEF gone
  <2>1. QED
    BY <1>1, RowsInTable
<1>4. ASSUME NEW t \in Task, InTable(tasks[t]), InTable(instances'[tasks[t].instance]),
             tasks[t].step = instances[tasks[t].instance].step
      PROVE  tasks'[t] = tasks[t]
  <2>1. PICK i : i = tasks[t].instance
    OBVIOUS
  <2>2. i \in Instance
    BY <1>4, <2>1, RunRows, Tables DEF TaskRow
  <2>3. Running(i) /\ i \notin gone
    BY <1>2, <1>4, <2>1, <2>2 DEF Running
  <2>4. tasks[t].step \notin goneSteps
    BY <1>4, <2>1, <2>2, <2>3
  <2> HIDE DEF gone
  <2>5. QED
    BY <1>1, <2>1, <2>3, <2>4
<1>5. QED
  BY <1>1, <1>2, <1>3, <1>4 DEF OnlyTaken

LEMMA NothingTaken ==
    ASSUME UNCHANGED <<instances, tasks>>
    PROVE  OnlyTaken
BY DEF OnlyTaken, Running

LEMMA EditTasks ==
    ASSUME TypeInv, TasksInv,
           \/ \E p \in Admin : EditTemplates(p) \/ FinishEdits(p)
           \/ EditStaff \/ UNCHANGED vars
    PROVE  TasksInv'
<1>1. CASE UNCHANGED <<instances, tasks, req, cutShort>>
  BY <1>1, NothingTaken, TakenTasks
<1>2. ASSUME NEW goneSteps, NEW goneWorkflows, InstancesDeleted(goneSteps, goneWorkflows)
      PROVE  TasksInv'
  BY <1>2, CascadeTakes, TakenTasks
<1>3. QED
  BY <1>1, <1>2 DEF EditTemplates, FinishEdits, EditStaff, vars, runVars

LEMMA CrashTasks ==
    ASSUME TypeInv, TasksInv, Crash
    PROVE  TasksInv'
<1>1. /\ req' = [p \in Request |-> Idle] /\ UNCHANGED <<instances, tasks>>
      /\ cutShort' = cutShort \cup {req[p].instance : p \in {q \in Request : HasWritten(q)}}
  BY DEF Crash
<1>2. \A p \in Request : req'[p].pc = "idle" /\ ~HasWritten(p)'
  BY <1>1 DEF Idle, HasWritten
<1>3. ASSUME NEW i \in Instance \ cutShort', Running(i)' PROVE Asked(i)'
  <2>1. i \notin cutShort /\ ~Halfway(i) /\ Running(i)
    BY <1>1, <1>3 DEF Halfway, Running
  <2>2. Asked(i)
    BY <2>1 DEF TasksInv
  <2>3. QED
    BY <1>1, <1>3, <2>2, NothingTaken, AskedTaken
<1>4. OpenWhenRead' /\ MovedWhereTo' /\ OwnTask'
  BY <1>2 DEF OpenWhenRead, MovedWhereTo, OwnTask, Deciding
<1>5. QED
  BY <1>2, <1>3, <1>4 DEF TasksInv

\* All that a request writes is rows of its own instance and their tasks.
Elsewhere(i) ==
    /\ \A j \in Instance \ {i} : instances'[j] = instances[j]
    /\ \A t \in Task : /\ InTable(tasks'[t]) /\ tasks'[t].instance # i => tasks'[t] = tasks[t]
                       /\ InTable(tasks[t]) /\ tasks[t].instance # i => tasks'[t] = tasks[t]

LEMMA AskedElsewhere ==
    ASSUME NEW i, Elsewhere(i), NEW j \in Instance \ {i}
    PROVE  /\ Running(j)' <=> Running(j)
           /\ IsOpen(j)' <=> IsOpen(j)
           /\ Pending(j)' = Pending(j)
           /\ Asked(j) => Asked(j)'
<1>1. /\ instances'[j] = instances[j]
      /\ (Running(j)' <=> Running(j)) /\ (IsOpen(j)' <=> IsOpen(j))
  BY DEF Elsewhere, Running, IsOpen
<1>2. \A t \in Task : t \in Pending(j)' <=> t \in Pending(j)
  BY DEF Elsewhere, Pending, TasksOf
<1>3. Pending(j)' = Pending(j) /\ Pending(j) \subseteq Task
  BY <1>2 DEF Pending, TasksOf
<1>4. \A t \in Pending(j) : tasks'[t] = tasks[t]
  BY DEF Elsewhere, Pending, TasksOf
<1>5. QED
  BY <1>1, <1>3, <1>4 DEF Asked

LEMMA Alone ==
    ASSUME Serial, NEW p \in Request
    PROVE  \A q \in Request : q = p
BY DEF Serial

\* What a statement that writes must show of the only request.
LEMMA OwnTasks ==
    ASSUME Serial, TypeInv, TasksInv, NEW p \in Request, NEW i \in Instance, Elsewhere(i),
           UNCHANGED cutShort, HasWritten(p) => req[p].instance = i,
           NEW r, Goto(p, r), r.pc \in {"idle"} \cup Submitting \cup Moving,
           r.pc # "idle" => r.instance = i,
           (r.pc # "idle" /\ Running(i)') =>
               /\ instances'[i].step = r.next
               /\ IsOpen(i)' <=> ~r.closing
               /\ i \in cutShort \/ AskedHalfway(r)',
           (r.pc = "idle" /\ Running(i)' /\ i \notin cutShort) => Asked(i)',
           (r.pc = "complete_task" /\ InTable(tasks'[r.task])) => tasks'[r.task].instance = i
    PROVE  TasksInv'
<1>1. req'[p] = r /\ \A q \in Request : q = p
  BY Alone DEF Goto, TypeInv
<1>2. HasWritten(p)' <=> r.pc # "idle"
  BY <1>1 DEF HasWritten, Submitting, Moving
<1>3. OpenWhenRead'
  <2>1. r.pc \notin Deciding
    BY DEF Submitting, Deciding, Moving
  <2>2. QED
    BY <1>1, <2>1 DEF OpenWhenRead
<1>4. MovedWhereTo' /\ OwnTask'
  BY <1>1, <1>2 DEF MovedWhereTo, OwnTask, Running, IsOpen
<1>5. ASSUME NEW j \in Instance \ cutShort', Running(j)', ~Halfway(j)' PROVE Asked(j)'
  <2>1. CASE j = i
    <3>1. r.pc = "idle"
      BY <1>1, <1>2, <1>5, <2>1 DEF Halfway
    <3>2. QED
      BY <1>5, <2>1, <3>1
  <2>2. CASE j # i
    <3>1. ~Halfway(j) /\ Running(j) /\ j \notin cutShort
      BY <1>1, <1>5, <2>2, AskedElsewhere DEF Halfway
    <3>2. QED
      BY <2>2, <3>1, AskedElsewhere DEF TasksInv
  <2>3. QED
    BY <2>1, <2>2
<1>6. ASSUME NEW q \in Request, HasWritten(q)', Running(req[q].instance)'
      PROVE  req'[q].instance \in cutShort' \/ AskedHalfway(req[q])'
  <2>1. q = p /\ r.pc # "idle" /\ r.instance = i /\ req'[q] = r
    BY <1>1, <1>2, <1>6
  <2>2. Running(i)'
    BY <1>6, <2>1 DEF Running
  <2>3. i \in cutShort' \/ AskedHalfway(r)'
    BY <2>1, <2>2
  <2>4. QED
    BY <2>1, <2>3 DEF AskedHalfway, Asked, Pending, TasksOf, IsOpen, Running
<1>7. QED
  BY <1>3, <1>4, <1>5, <1>6 DEF TasksInv

\* A request that has written nothing yet reads.
LEMMA ReadTasks ==
    ASSUME Serial, TypeInv, TasksInv, NEW p \in Request, ~HasWritten(p),
           UNCHANGED <<instances, tasks, cutShort>>,
           NEW r, Goto(p, r), r.pc \in {"idle"} \cup Starting \cup Deciding,
           r.pc \in Deciding /\ Running(r.instance) =>
               IsOpen(r.instance) /\ instances[r.instance].step = r.step
    PROVE  TasksInv'
<1>1. req'[p] = r /\ \A q \in Request : q = p
  BY Alone DEF Goto, TypeInv
<1>2. ~HasWritten(p)'
  BY <1>1 DEF HasWritten, Starting, Deciding
<1>3. OpenWhenRead' /\ MovedWhereTo' /\ OwnTask'
  BY <1>1, <1>2 DEF OpenWhenRead, MovedWhereTo, OwnTask, Running, IsOpen, Starting, Deciding
<1>4. ASSUME NEW j \in Instance \ cutShort', Running(j)' PROVE Asked(j)'
  <2>1. ~Halfway(j) /\ Running(j) /\ j \notin cutShort
    BY <1>1, <1>4 DEF Halfway, Running
  <2>2. QED
    BY <1>4, <2>1, NothingTaken, AskedTaken DEF TasksInv
<1>5. QED
  BY <1>1, <1>2, <1>3, <1>4 DEF TasksInv

\* A request that gives up leaves its instance cut short.
LEMMA GiveUpTasks ==
    ASSUME Serial, TypeInv, TasksInv, NEW p \in Request, GiveUp(p), UNCHANGED <<instances, tasks>>
    PROVE  TasksInv'
<1>1. /\ req'[p] = Idle /\ \A q \in Request : q = p
      /\ cutShort' = cutShort \cup {req[p].instance}
  BY Alone DEF GiveUp, Return, Goto, TypeInv
<1>2. ~HasWritten(p)' /\ req'[p].pc = "idle"
  BY <1>1 DEF HasWritten, Idle
<1>3. OpenWhenRead' /\ MovedWhereTo' /\ OwnTask'
  BY <1>1, <1>2 DEF OpenWhenRead, MovedWhereTo, OwnTask, Deciding
<1>4. ASSUME NEW j \in Instance \ cutShort', Running(j)' PROVE Asked(j)'
  <2>1. ~Halfway(j) /\ Running(j) /\ j \notin cutShort
    BY <1>1, <1>4 DEF Halfway, Running
  <2>2. QED
    BY <1>4, <2>1, NothingTaken, AskedTaken DEF TasksInv
<1>5. QED
  BY <1>1, <1>2, <1>3, <1>4 DEF TasksInv

LEMMA SameTasks ==
    ASSUME UNCHANGED <<instances, tasks>>, NEW i
    PROVE  /\ Elsewhere(i) /\ Pending(i)' = Pending(i)
           /\ Running(i)' <=> Running(i)
           /\ IsOpen(i)' <=> IsOpen(i)
           /\ Asked(i)' <=> Asked(i)
BY DEF Elsewhere, Pending, TasksOf, Asked, IsOpen, Running

\* What is known of a request that has written.
LEMMA OwnHalfway ==
    ASSUME TypeInv, TasksInv, NEW p \in Request, req[p].pc \in Submitting \cup Moving
    PROVE  /\ HasWritten(p) /\ req[p] \in Local /\ req[p].instance \in Instance
           /\ Running(req[p].instance) =>
                 /\ instances[req[p].instance].step = req[p].next
                 /\ IsOpen(req[p].instance) <=> ~req[p].closing
                 /\ req[p].instance \in cutShort \/ AskedHalfway(req[p])
<1>1. HasWritten(p) /\ req[p].instance \in Instance
  BY WrittenPc, Tables
<1>2. QED
  BY <1>1 DEF TypeInv, TasksInv, MovedWhereTo

LEMMA ReturnEarly ==
    ASSUME Serial, TypeInv, TasksInv, NEW p \in Request, ~HasWritten(p), Return(p),
           UNCHANGED <<instances, tasks, cutShort>>
    PROVE  TasksInv'
<1>1. PICK r : r = Idle
  OBVIOUS
<1>2. r.pc = "idle"
  BY <1>1 DEF Idle
<1>3. QED
  BY <1>1, <1>2, ReadTasks DEF Return, Deciding

LEMMA ReadingTasks ==
    ASSUME Serial, TypeInv, TasksInv, NEW p \in Request,
           \/ \E b \in Booking : Initiate(p, b)
           \/ ProcessAction(p) \/ FirstStep(p) \/ NextStep(p)
    PROVE  TasksInv'
<1>1. /\ UNCHANGED <<instances, tasks, cutShort>> /\ ~HasWritten(p) /\ req[p] \in Local
  <2>1. req[p].pc \in {"idle", "first_step", "next_step"}
    <3>1. Starts(p) => req[p].pc = "idle"
      BY DEF Starts, Idle
    <3>2. Starts(p) \/ At(p, "first_step") \/ At(p, "next_step")
      BY Zenon DEF Initiate, ProcessAction, FirstStep, NextStep
    <3>3. QED
      BY <3>1, <3>2 DEF At
  <2>2. UNCHANGED <<instances, tasks, cutShort>>
    BY DEF Initiate, ProcessAction, FirstStep, NextStep, runVars
  <2>3. QED
    BY <2>1, <2>2 DEF HasWritten, TypeInv
<1>2. CASE Return(p)
  BY <1>1, <1>2, ReturnEarly
<1>3. ASSUME NEW r, Goto(p, r), r.pc \in Starting PROVE TasksInv'
  BY <1>1, <1>3, ReadTasks DEF Starting, Deciding
<1>4. ASSUME NEW b, NEW w, Goto(p, [Idle EXCEPT !.pc = "first_step", !.booking = b, !.workflow = w])
      PROVE  TasksInv'
  <2>1. PICK r : r = [Idle EXCEPT !.pc = "first_step", !.booking = b, !.workflow = w]
    OBVIOUS
  <2>2. r.pc \in Starting
    BY <2>1 DEF Idle, Starting
  <2>3. QED
    BY <1>3, <1>4, <2>1, <2>2
<1>5. ASSUME NEW s, NEW next, NEW roles,
             Goto(p, [req[p] EXCEPT !.pc = "create_instance", !.step = s, !.next = next,
                                    !.roles = roles])
      PROVE  TasksInv'
  <2>1. PICK r : r = [req[p] EXCEPT !.pc = "create_instance", !.step = s, !.next = next,
                                    !.roles = roles]
    OBVIOUS
  <2>2. r.pc \in Starting
    BY <1>1, <2>1 DEF Local, Starting
  <2>3. QED
    BY <1>3, <1>5, <2>1, <2>2
<1>6. ASSUME NEW i, NEW u, NEW a, IsOpen(i),
             Goto(p, [Idle EXCEPT !.pc = "next_step", !.instance = i, !.by = u,
                                  !.action = a, !.step = instances[i].step])
      PROVE  TasksInv'
  <2>1. PICK r : r = [Idle EXCEPT !.pc = "next_step", !.instance = i, !.by = u,
                                  !.action = a, !.step = instances[i].step]
    OBVIOUS
  <2>2. r.pc = "next_step" /\ r.instance = i /\ r.step = instances[i].step
    BY <2>1 DEF Idle
  <2>3. QED
    BY <1>1, <1>6, <2>1, <2>2, ReadTasks DEF Deciding
<1>7. ASSUME NEW next, NEW roles, NEW closing, req[p].pc = "next_step",
             Goto(p, [req[p] EXCEPT !.pc = "update_step", !.next = next,
                             !.roles = roles, !.closing = closing])
      PROVE  TasksInv'
  <2>1. PICK r : r = [req[p] EXCEPT !.pc = "update_step", !.next = next,
                             !.roles = roles, !.closing = closing]
    OBVIOUS
  <2>2. r.pc = "update_step" /\ r.instance = req[p].instance /\ r.step = req[p].step
    BY <1>1, <2>1 DEF Local
  <2>3. Running(r.instance) => IsOpen(r.instance) /\ instances[r.instance].step = r.step
    BY <1>7, <2>2 DEF TasksInv, OpenWhenRead, Deciding
  <2>4. QED
    BY <1>1, <1>7, <2>1, <2>2, <2>3, ReadTasks DEF Deciding
<1>8. CASE \E b \in Booking : Initiate(p, b)
  BY <1>4, <1>8 DEF Initiate
<1>9. CASE ProcessAction(p)
  BY <1>6, <1>9 DEF ProcessAction
<1>10. CASE FirstStep(p)
  BY <1>2, <1>5, <1>10 DEF FirstStep
<1>11. CASE NextStep(p)
  <2>1. \/ Return(p)
        \/ \E next, roles, closing :
              Goto(p, [req[p] EXCEPT !.pc = "update_step", !.next = next,
                              !.roles = roles, !.closing = closing])
    BY <1>11, Zenon DEF NextStep
  <2>2. req[p].pc = "next_step"
    BY <1>11 DEF NextStep, At
  <2>3. QED
    BY <1>2, <1>7, <2>1, <2>2
<1>12. QED
  BY <1>8, <1>9, <1>10, <1>11

LEMMA CreateInstanceTasks ==
    ASSUME Serial, TypeInv, TasksInv, NEW p \in Request, CreateInstance(p)
    PROVE  TasksInv'
<1>1. /\ req[p].pc = "create_instance" /\ req[p] \in Local /\ ~HasWritten(p)
      /\ ~req[p].closing /\ UNCHANGED <<tasks, cutShort>>
  BY DEF CreateInstance, At, TypeInv, HasWritten, Holds, Starting
<1>2. CASE Return(p) /\ UNCHANGED instances
  BY <1>1, <1>2, ReturnEarly
<1>3. ASSUME NEW i \in Instance, instances[i] = Unused, InsertInstance(p, i),
             Goto(p, [req[p] EXCEPT !.pc = "first_task", !.instance = i])
      PROVE  TasksInv'
  <2>1. PICK r : r = [req[p] EXCEPT !.pc = "first_task", !.instance = i]
    OBVIOUS
  <2>2. r.pc = "first_task" /\ r.instance = i /\ r.next = req[p].next /\ ~r.closing
    BY <1>1, <2>1 DEF Local
  <2>3. /\ instances'[i].step = r.next /\ instances'[i].status = "in_progress"
        /\ \A j \in Instance \ {i} : instances'[j] = instances[j]
    BY <1>3, <2>2 DEF InsertInstance, TypeInv, TypeOK
  <2>4. Elsewhere(i)
    BY <1>1, <2>3 DEF Elsewhere
  <2>5. Running(i)' => IsOpen(i)'
    BY <2>3 DEF IsOpen, Closed
  <2>6. Pending(i)' = {}
    <3>1. \A t \in Task : InTable(tasks[t]) => tasks[t].instance # i
      BY <1>3, RowsInTable DEF TypeInv, TypeOK, Running
    <3>2. QED
      BY <1>1, <3>1 DEF Pending, TasksOf
  <2>7. AskedHalfway(r)'
    BY <2>2, <2>6 DEF AskedHalfway
  <2>8. QED
    BY <1>1, <1>3, <2>1, <2>2, <2>3, <2>4, <2>5, <2>7, OwnTasks DEF Submitting
<1>4. QED
  BY <1>2, <1>3 DEF CreateInstance

\* A new task is the only pending one of its instance.
LEMMA AssignTasks ==
    ASSUME Serial, TypeInv, TasksInv, NEW p \in Request, AssignFirst(p) \/ AssignNext(p)
    PROVE  TasksInv'
<1>1. /\ req[p].pc \in {"first_task", "new_task"} /\ UNCHANGED instances
      /\ HasWritten(p) /\ req[p] \in Local /\ req[p].instance \in Instance
      /\ ~req[p].closing
      /\ Running(req[p].instance) =>
            /\ instances[req[p].instance].step = req[p].next
            /\ IsOpen(req[p].instance)
            /\ req[p].instance \in cutShort \/ AskedHalfway(req[p])
  <2>1. req[p].pc \in {"first_task", "new_task"} /\ UNCHANGED instances
    BY DEF AssignFirst, AssignNext, At
  <2>2. ~req[p].closing
    BY <2>1 DEF TypeInv, Holds, Submitting
  <2>3. QED
    BY <2>1, <2>2, OwnHalfway DEF Submitting, Moving
<1>2. CASE GiveUp(p) /\ UNCHANGED tasks
  BY <1>1, <1>2, GiveUpTasks
<1>3. ASSUME NEW pc \in {"first_history", "history"}, Advance(p, pc), UNCHANGED cutShort,
             CreateTask(p, req[p].next)
      PROVE  TasksInv'
  <2>1. PICK i, r : i = req[p].instance /\ r = [req[p] EXCEPT !.pc = pc]
    OBVIOUS
  <2>2. r.pc = pc /\ r.instance = i /\ r.next = req[p].next /\ ~r.closing /\ i \in Instance
    BY <1>1, <2>1 DEF Local
  <2>3. PICK t \in Task, u \in User :
          /\ tasks[t] = Unused
          /\ tasks' = [tasks EXCEPT ![t] = [instance |-> i, step |-> r.next, assignee |-> u,
                                            status |-> "pending"]]
    <3>1. DetermineAssignee(req[p].roles) \subseteq User
      BY DEF DetermineAssignee, FewestTasks
    <3>2. QED
      BY <1>3, <2>1, <2>2, <3>1 DEF CreateTask, NewTask
  <2>4. PICK row : row = [instance |-> i, step |-> r.next, assignee |-> u, status |-> "pending"]
    OBVIOUS
  <2>5. /\ tasks'[t] = row /\ row.instance = i /\ row.step = r.next /\ row.status = "pending"
        /\ \A s \in Task : s # t => tasks'[s] = tasks[s]
    BY <2>3, <2>4 DEF TypeInv, TypeOK
  <2>6. InTable(row) /\ ~InTable(tasks[t])
    <3>1. row \in TaskRow
      BY <1>1, <2>2, <2>4 DEF TaskRow, Local
    <3>2. QED
      BY <2>3, <3>1, RowsInTable
  <2>7. Elsewhere(i)
    BY <1>1, <2>5, <2>6 DEF Elsewhere
  <2>8. /\ Running(i)' <=> Running(i)
        /\ IsOpen(i)' <=> IsOpen(i)
        /\ instances'[i] = instances[i]
    BY <1>1 DEF Running, IsOpen
  <2>9. ASSUME Running(i), i \notin cutShort PROVE AskedHalfway(r)'
    <3>1. Pending(i) = {}
      BY <1>1, <2>1, <2>9 DEF AskedHalfway
    <3>2. Pending(i)' = {t}
      BY <2>5, <2>6, <3>1 DEF Pending, TasksOf
    <3>3. tasks'[t].step = instances'[i].step /\ IsOpen(i)'
      BY <1>1, <2>1, <2>2, <2>5, <2>8, <2>9
    <3>4. Asked(i)'
      BY <3>2, <3>3 DEF Asked
    <3>5. QED
      BY <2>2, <3>4 DEF AskedHalfway
  <2>10. QED
    BY <1>1, <1>3, <2>1, <2>2, <2>7, <2>8, <2>9, OwnTasks DEF Advance, Submitting, Moving
<1>4. QED
  BY <1>2, <1>3 DEF AssignFirst, AssignNext

LEMMA RecordTasks ==
    ASSUME Serial, TypeInv, TasksInv, NEW p \in Request, RecordInitiation(p) \/ RecordAction(p)
    PROVE  TasksInv'
<1>1. /\ req[p].pc \in {"first_history", "history"} /\ UNCHANGED <<instances, tasks>>
  BY DEF RecordInitiation, RecordAction, At
<1>2. CASE GiveUp(p)
  BY <1>1, <1>2, GiveUpTasks
<1>3. CASE Return(p) /\ UNCHANGED cutShort
  <2>1. PICK i, r : i = req[p].instance /\ r = Idle
    OBVIOUS
  <2>2. r.pc = "idle" /\ i \in Instance
    BY <1>1, <2>1, OwnHalfway DEF Idle, Submitting, Moving
  <2>3. Running(i)' /\ i \notin cutShort => Asked(i)'
    BY <1>1, <2>1, OwnHalfway, SameTasks DEF AskedHalfway, Submitting, Moving
  <2>4. QED
    BY <1>1, <1>3, <2>1, <2>2, <2>3, SameTasks, OwnTasks DEF Return
<1>4. QED
  BY <1>2, <1>3 DEF RecordInitiation, RecordAction

\* The step is moved while the task of the old one is still pending.
LEMMA UpdateStepTasks ==
    ASSUME Serial, TypeInv, TasksInv, NEW p \in Request, UpdateStep(p)
    PROVE  TasksInv'
<1>1. /\ req[p].pc = "update_step" /\ req[p] \in Local /\ ~HasWritten(p)
      /\ req[p].instance \in Instance /\ UNCHANGED <<tasks, cutShort>>
  BY DEF UpdateStep, At, TypeInv, HasWritten, Holds, Deciding
<1>2. CASE Return(p) /\ UNCHANGED <<instances, votes>>
  BY <1>1, <1>2, ReturnEarly
<1>3. CASE /\ Running(req[p].instance) /\ Advance(p, "active_task")
           /\ SetStep(req[p].instance, req[p].next, NewStatus(p))
  <2>1. PICK i, r : i = req[p].instance /\ r = [req[p] EXCEPT !.pc = "active_task"]
    OBVIOUS
  <2>2. /\ r.pc = "active_task" /\ r.instance = i /\ r.next = req[p].next
        /\ r.closing = req[p].closing /\ i \in Instance /\ r.closing \in BOOLEAN
    BY <1>1, <2>1 DEF Local
  <2>3. IsOpen(i) /\ ~Halfway(i) /\ instances[i] \in InstanceRow
    BY <1>1, <1>3, <2>1, Alone, RunRows, Tables DEF TasksInv, OpenWhenRead, Deciding, Halfway
  <2>4. PICK row : row = [instances[i] EXCEPT !.step = req[p].next, !.status = NewStatus(p)]
    OBVIOUS
  <2>5. /\ row \in InstanceRow /\ row.step = r.next /\ row.status = NewStatus(p)
    BY <1>1, <2>2, <2>3, <2>4 DEF InstanceRow, Local, Closed, NewStatus
  <2>6. /\ instances'[i] = row /\ \A j \in Instance \ {i} : instances'[j] = instances[j]
    BY <1>3, <2>1, <2>2, <2>4 DEF SetStep, TypeInv, TypeOK
  <2>7. Elsewhere(i)
    BY <1>1, <2>6 DEF Elsewhere
  <2>8. IsOpen(i)' <=> ~r.closing
    BY <2>2, <2>5, <2>6, RowsInTable DEF IsOpen, Running, NewStatus, Closed
  <2>9. i \notin cutShort => AskedHalfway(r)'
    <3>1. ASSUME i \notin cutShort PROVE \E t \in Task : Pending(i)' \subseteq {t}
      <4>1. Asked(i)
        BY <2>2, <2>3, <3>1 DEF TasksInv, IsOpen
      <4>2. \E t \in Task : Pending(i) = {t}
        BY <2>3, <4>1 DEF Asked
      <4>3. Pending(i)' = Pending(i)
        BY <1>1 DEF Pending, TasksOf
      <4>4. QED
        BY <4>2, <4>3
    <3>2. QED
      BY <2>2, <3>1 DEF AskedHalfway
  <2>10. QED
    BY <1>1, <1>3, <2>1, <2>2, <2>5, <2>6, <2>7, <2>8, <2>9, OwnTasks DEF Advance, Moving
<1>4. QED
  BY <1>2, <1>3 DEF UpdateStep

\* The pending task that is newest is the only one.
LEMMA GetActiveTaskTasks ==
    ASSUME Serial, TypeInv, TasksInv, NEW p \in Request, GetActiveTask(p)
    PROVE  TasksInv'
<1>1. req[p].pc = "active_task" /\ UNCHANGED <<instances, tasks, cutShort>>
  BY DEF GetActiveTask, At, runVars
<1>2. PICK i : i = req[p].instance
  OBVIOUS
<1>3. /\ HasWritten(p) /\ req[p] \in Local /\ i \in Instance
      /\ Running(i) => /\ instances[i].step = req[p].next
                       /\ IsOpen(i) <=> ~req[p].closing
      /\ Running(i) /\ i \notin cutShort => \E t \in Task : Pending(i) \subseteq {t}
  BY <1>1, <1>2, OwnHalfway DEF AskedHalfway, Moving
<1>4. CASE ActiveTask(i) = {} /\ Advance(p, AfterTask(p))
  <2>1. PICK r : r = [req[p] EXCEPT !.pc = AfterTask(p)]
    OBVIOUS
  <2>2. /\ r.pc \in {"complete", "new_task"} /\ r.instance = i /\ r.next = req[p].next
        /\ r.closing = req[p].closing
    BY <1>2, <1>3, <2>1 DEF Local, AfterTask
  <2>3. ASSUME Running(i), i \notin cutShort PROVE AskedHalfway(r)'
    <3>1. PICK t \in Task : Pending(i) \subseteq {t}
      BY <1>3, <2>3
    <3>2. t \notin Pending(i)
      <4>1. ASSUME t \in Pending(i) PROVE FALSE
        <5>1. \A s \in Pending(i) : s <= t
          BY <3>1 DEF Task
        <5>2. QED
          BY <1>4, <4>1, <5>1 DEF ActiveTask
      <4>2. QED
        BY <4>1
    <3>3. Pending(i)' = {}
      BY <1>1, <3>1, <3>2, SameTasks
    <3>4. QED
      BY <2>2, <3>3 DEF AskedHalfway
  <2>4. QED
    BY <1>1, <1>2, <1>3, <1>4, <2>1, <2>2, <2>3, SameTasks, OwnTasks DEF Advance, Moving
<1>5. ASSUME NEW t \in ActiveTask(i), Goto(p, [req[p] EXCEPT !.pc = "complete_task", !.task = t])
      PROVE  TasksInv'
  <2>1. PICK r : r = [req[p] EXCEPT !.pc = "complete_task", !.task = t]
    OBVIOUS
  <2>2. /\ r.pc = "complete_task" /\ r.instance = i /\ r.next = req[p].next
        /\ r.closing = req[p].closing /\ r.task = t
    BY <1>2, <1>3, <2>1 DEF Local
  <2>3. ASSUME Running(i), i \notin cutShort PROVE AskedHalfway(r)'
    <3>1. t \in Pending(i)
      BY DEF ActiveTask
    <3>2. Pending(i)' \subseteq {t}
      BY <1>1, <1>3, <2>3, <3>1, SameTasks
    <3>3. QED
      BY <2>2, <3>2 DEF AskedHalfway
  <2>4. tasks'[r.task].instance = i
    BY <1>1, <2>2 DEF ActiveTask, Pending, TasksOf
  <2>5. QED
    BY <1>1, <1>2, <1>3, <1>5, <2>1, <2>2, <2>3, <2>4, SameTasks, OwnTasks DEF Moving
<1>6. QED
  BY <1>2, <1>4, <1>5 DEF GetActiveTask

LEMMA CompleteTaskTasks ==
    ASSUME Serial, TypeInv, TasksInv, NEW p \in Request, CompleteTask(p)
    PROVE  TasksInv'
<1>1. req[p].pc = "complete_task" /\ UNCHANGED instances
  BY DEF CompleteTask, At
<1>2. PICK i, t : i = req[p].instance /\ t = req[p].task
  OBVIOUS
<1>3. /\ HasWritten(p) /\ req[p] \in Local /\ i \in Instance /\ t \in Task
      /\ Running(i) => /\ instances[i].step = req[p].next
                       /\ IsOpen(i) <=> ~req[p].closing
      /\ Running(i) /\ i \notin cutShort => Pending(i) \subseteq {t}
  BY <1>1, <1>2, OwnHalfway DEF AskedHalfway, Moving, TypeInv, Holds
<1>4. CASE GiveUp(p) /\ UNCHANGED tasks
  BY <1>1, <1>4, GiveUpTasks
<1>5. CASE /\ InTable(tasks[t]) /\ SetTaskCompleted(t)
           /\ Advance(p, AfterTask(p)) /\ UNCHANGED cutShort
  <2>1. PICK r, row : /\ r = [req[p] EXCEPT !.pc = AfterTask(p)]
                      /\ row = [tasks[t] EXCEPT !.status = "completed"]
    OBVIOUS
  <2>2. /\ r.pc \in {"complete", "new_task"} /\ r.instance = i /\ r.next = req[p].next
        /\ r.closing = req[p].closing
    BY <1>2, <1>3, <2>1 DEF Local, AfterTask
  <2>3. tasks[t] \in TaskRow
    BY <1>3, <1>5, RunRows, Tables
  <2>4. /\ tasks'[t] = row /\ row.status = "completed" /\ row.instance = tasks[t].instance
        /\ row \in TaskRow /\ \A s \in Task : s # t => tasks'[s] = tasks[s]
    BY <1>3, <1>5, <2>1, <2>3 DEF SetTaskCompleted, TypeInv, TypeOK, TaskRow
  <2>5. tasks[t].instance = i
    BY <1>1, <1>2, <1>5 DEF TasksInv, OwnTask
  <2>6. Elsewhere(i)
    BY <1>1, <2>4, <2>5 DEF Elsewhere
  <2>7. ASSUME Running(i), i \notin cutShort PROVE AskedHalfway(r)'
    <3>1. Pending(i)' = {}
      BY <1>3, <2>4, <2>7 DEF Pending, TasksOf
    <3>2. QED
      BY <2>2, <3>1 DEF AskedHalfway
  <2>8. /\ Running(i)' <=> Running(i)
        /\ IsOpen(i)' <=> IsOpen(i)
        /\ instances'[i] = instances[i]
    BY <1>1 DEF Running, IsOpen
  <2>9. QED
    BY <1>2, <1>3, <1>5, <2>1, <2>2, <2>6, <2>7, <2>8, OwnTasks DEF Advance, Moving
<1>6. QED
  BY <1>2, <1>4, <1>5 DEF CompleteTask

LEMMA CompleteInstanceTasks ==
    ASSUME Serial, TypeInv, TasksInv, NEW p \in Request, CompleteInstance(p)
    PROVE  TasksInv'
<1>1. req[p].pc = "complete" /\ UNCHANGED tasks
  BY DEF CompleteInstance, At
<1>2. PICK i : i = req[p].instance
  OBVIOUS
<1>3. /\ HasWritten(p) /\ req[p] \in Local /\ i \in Instance /\ req[p].closing
      /\ Running(i) => instances[i].step = req[p].next
      /\ Running(i) /\ i \notin cutShort => Pending(i) = {}
  BY <1>1, <1>2, OwnHalfway DEF AskedHalfway, Moving, TypeInv, Holds
<1>4. CASE GiveUp(p) /\ UNCHANGED instances
  BY <1>1, <1>4, GiveUpTasks
<1>5. CASE /\ Running(i) /\ SetCompleted(i) /\ UNCHANGED cutShort
           /\ Goto(p, [req[p] EXCEPT !.pc = "entity", !.booking = instances[i].booking])
  <2>1. PICK r, row :
          /\ r = [req[p] EXCEPT !.pc = "entity", !.booking = instances[i].booking]
          /\ row = [instances[i] EXCEPT !.status = "completed", !.done = TRUE]
    OBVIOUS
  <2>2. r.pc = "entity" /\ r.instance = i /\ r.next = req[p].next /\ r.closing
    BY <1>2, <1>3, <2>1 DEF Local
  <2>3. instances[i] \in InstanceRow
    BY <1>3, <1>5, RunRows, Tables
  <2>4. /\ instances'[i] = row /\ row.status = "completed" /\ row.step = instances[i].step
        /\ \A j \in Instance \ {i} : instances'[j] = instances[j]
    BY <1>3, <1>5, <2>1, <2>3 DEF SetCompleted, TypeInv, TypeOK, InstanceRow
  <2>5. Elsewhere(i)
    BY <1>1, <2>4 DEF Elsewhere
  <2>6. ~IsOpen(i)' /\ instances'[i].step = r.next
    BY <1>3, <1>5, <2>2, <2>4 DEF IsOpen, Closed
  <2>7. i \notin cutShort => AskedHalfway(r)'
    <3>1. Pending(i)' = Pending(i)
      BY <1>1 DEF Pending, TasksOf
    <3>2. QED
      BY <1>3, <1>5, <2>2, <3>1 DEF AskedHalfway
  <2>8. QED
    BY <1>2, <1>3, <1>5, <2>1, <2>2, <2>5, <2>6, <2>7, OwnTasks DEF Moving
<1>6. QED
  BY <1>2, <1>4, <1>5 DEF CompleteInstance

LEMMA UpdateEntityTasks ==
    ASSUME Serial, TypeInv, TasksInv, NEW p \in Request, UpdateEntityStatus(p)
    PROVE  TasksInv'
<1>1. /\ req[p].pc = "entity" /\ UNCHANGED <<instances, tasks, cutShort>>
      /\ Advance(p, "history")
  BY DEF UpdateEntityStatus, At
<1>2. PICK i, r : i = req[p].instance /\ r = [req[p] EXCEPT !.pc = "history"]
  OBVIOUS
<1>3. /\ HasWritten(p) /\ req[p] \in Local /\ i \in Instance /\ req[p].closing
      /\ Running(i) => instances[i].step = req[p].next /\ ~IsOpen(i)
      /\ Running(i) /\ i \notin cutShort => Pending(i) = {}
  BY <1>1, <1>2, OwnHalfway DEF AskedHalfway, Moving, TypeInv, Holds
<1>4. r.pc = "history" /\ r.instance = i /\ r.next = req[p].next /\ r.closing
  BY <1>2, <1>3 DEF Local
<1>5. Running(i) /\ i \notin cutShort => AskedHalfway(r)'
  BY <1>1, <1>3, <1>4, SameTasks DEF AskedHalfway, Asked
<1>6. QED
  BY <1>1, <1>2, <1>3, <1>4, <1>5, SameTasks, OwnTasks DEF Advance, Moving

LEMMA InitTasks == Init => TasksInv
<1> SUFFICES ASSUME Init PROVE TasksInv
  OBVIOUS
<1>1. \A p \in Request : req[p].pc = "idle" /\ ~HasWritten(p)
  BY DEF Init, Idle, HasWritten
<1>2. \A i \in Instance : ~Running(i)
  BY RowsInTable DEF Init, Running
<1>3. QED
  BY <1>1, <1>2 DEF TasksInv, OpenWhenRead, MovedWhereTo, OwnTask, Deciding

LEMMA NextTasks == Serial /\ TypeInv /\ TasksInv /\ [Next]_vars => TasksInv'
<1> SUFFICES ASSUME Serial, TypeInv, TasksInv, [Next]_vars PROVE TasksInv'
  OBVIOUS
<1>1. ASSUME NEW p \in Request,
             (\E b \in Booking : Initiate(p, b)) \/ ProcessAction(p) \/ Continue(p)
      PROVE  TasksInv'
  BY <1>1, ReadingTasks, CreateInstanceTasks, AssignTasks, RecordTasks, UpdateStepTasks,
     GetActiveTaskTasks, CompleteTaskTasks, CompleteInstanceTasks, UpdateEntityTasks DEF Continue
<1>2. QED
  BY <1>1, EditTasks, CrashTasks DEF Next

\* With one approver at a time an open instance has exactly one pending
\* task, the one of its step, and a closed one has none, between any two
\* requests that ended by themselves, whatever is deleted from the
\* templates meanwhile (UpdateStep, Complete and CreateTask are separate
\* statements of ProcessAction).
THEOREM OneTaskAtATime ==
    ASSUME Serial
    PROVE  Spec => []OneTask
<1>1. TypeInv /\ TasksInv => OneTask
  <2> SUFFICES ASSUME TypeInv, TasksInv, Quiescent, NEW i \in Instance \ cutShort, Running(i)
      PROVE  Asked(i)
    BY DEF OneTask, Asked
  <2>1. ~Halfway(i)
    BY DEF Quiescent, Halfway, HasWritten, Idle
  <2>2. QED
    BY <2>1 DEF TasksInv
<1>2. TypeInv /\ TasksInv /\ [Next]_vars => TasksInv'
  BY NextTasks
<1>3. QED
  BY <1>1, <1>2, InitTyped, NextTyped, InitTasks, PTL DEF Spec

LEMMA ClosedStep ==
    ASSUME Serial, TypeInv, TasksInv, [Next]_vars, NEW i \in Instance, Running(i), ~IsOpen(i)
    PROVE  ~IsOpen(i)'
<1>1. CASE instances' = instances
  BY <1>1 DEF IsOpen, Running
<1>2. ASSUME NEW p \in Request, UpdateStep(p) PROVE ~IsOpen(i)'
  <2>1. req[p].pc = "update_step"
    BY <1>2 DEF UpdateStep, At
  <2>2. CASE Running(req[p].instance) /\ SetStep(req[p].instance, req[p].next, NewStatus(p))
    <3>1. IsOpen(req[p].instance)
      BY <2>1, <2>2 DEF TasksInv, OpenWhenRead, Deciding
    <3>2. instances'[i] = instances[i]
      BY <2>2, <3>1 DEF SetStep, TypeInv, TypeOK
    <3>3. QED
      BY <3>2 DEF IsOpen, Running
  <2>3. QED
    BY <1>1, <1>2, <2>2 DEF UpdateStep
<1>3. ASSUME NEW p \in Request, CreateInstance(p) PROVE ~IsOpen(i)'
  <2>1. ASSUME NEW j \in Instance, instances[j] = Unused, InsertInstance(p, j)
        PROVE  instances'[i] = instances[i]
    BY <2>1, RowsInTable DEF InsertInstance, TypeInv, TypeOK, Running
  <2>2. CASE instances'[i] = instances[i]
    BY <2>2 DEF IsOpen, Running
  <2>3. QED
    BY <1>1, <1>3, <2>1, <2>2 DEF CreateInstance
<1>4. ASSUME NEW p \in Request, CompleteInstance(p) PROVE ~IsOpen(i)'
  <2>1. PICK j : j = req[p].instance
    OBVIOUS
  <2>2. CASE Running(j) /\ SetCompleted(j)
    <3>1. CASE i = j
      <4>1. instances[i] \in InstanceRow
        BY RunRows, Tables
      <4>2. instances'[i].status = "completed"
        BY <2>2, <3>1, <4>1 DEF SetCompleted, TypeInv, TypeOK, InstanceRow
      <4>3. QED
        BY <4>2 DEF IsOpen, Closed
    <3>2. CASE i # j
      BY <2>2, <3>2 DEF SetCompleted, TypeInv, TypeOK, IsOpen, Running
    <3>3. QED
      BY <3>1, <3>2
  <2>3. QED
    BY <1>1, <1>4, <2>1, <2>2 DEF CompleteInstance
<1>5. ASSUME NEW goneSteps, NEW goneWorkflows, InstancesDeleted(goneSteps, goneWorkflows)
      PROVE  ~IsOpen(i)'
  BY <1>5, CascadeTakes DEF OnlyTaken, IsOpen
<1>6. ASSUME NEW p \in Request,
             (\E b \in Booking : Initiate(p, b)) \/ ProcessAction(p) \/ Continue(p)
      PROVE  ~IsOpen(i)'
  <2>1. CASE (\E b \in Booking : Initiate(p, b)) \/ ProcessAction(p)
    BY <1>1, <2>1 DEF Initiate, ProcessAction, runVars
  <2>2. CASE Continue(p)
    BY <1>1, <1>2, <1>3, <1>4, <2>2 DEF Continue, FirstStep, AssignFirst, RecordInitiation, NextStep,
       GetActiveTask, CompleteTask, UpdateEntityStatus, AssignNext, RecordAction, runVars
  <2>3. QED
    BY <1>6, <2>1, <2>2
<1>7. ASSUME NEW p \in Admin, EditTemplates(p) \/ FinishEdits(p) PROVE ~IsOpen(i)'
  BY <1>1, <1>5, <1>7 DEF EditTemplates, FinishEdits, runVars
<1>8. CASE EditStaff \/ Crash \/ UNCHANGED vars
  BY <1>1, <1>8 DEF EditStaff, Crash, vars, runVars
<1>9. QED
  BY <1>6, <1>7, <1>8 DEF Next

\* With one approver at a time an instance that is closed is never open
\* again, not even after a crash between the statements that close it
\* (UpdateStep writes the status it has computed from what was read).
THEOREM ClosedStaysClosedAlone ==
    ASSUME Serial
    PROVE  Spec => ClosedStaysClosed
<1>1. TypeInv /\ TasksInv /\ [Next]_vars =>
         [\A i \in Instance : (Running(i) /\ ~IsOpen(i)) => ~IsOpen(i)']_vars
  BY ClosedStep
<1>2. TypeInv /\ TasksInv /\ [Next]_vars => TasksInv'
  BY NextTasks
<1>3. QED
  BY <1>1, <1>2, InitTyped, NextTyped, InitTasks, PTL DEF Spec, ClosedStaysClosed

-------------------------------------------------------------------------------
(***************************************************************************)
(* The history of an instance, one request at a time.                      *)
(***************************************************************************)
LEMMA TrailStarts ==
    ASSUME NEW S, NEW row \in S, row.action = "submit"
    PROVE  /\ LeadsTo(Append(<<>>, row), row.to)
           /\ Append(<<>>, row)[Len(Append(<<>>, row))] = row
<1>1. <<>> \in Seq(S) /\ Len(<<>>) = 0
  BY EmptySeq
<1>2. PICK trail : trail = Append(<<>>, row)
  OBVIOUS
<1>3. Len(trail) = 1 /\ trail[1] = row
  BY <1>1, <1>2, AppendProperties
<1>4. LeadsTo(trail, row.to)
  BY <1>3 DEF LeadsTo
<1>5. QED
  BY <1>2, <1>3, <1>4

LEMMA TrailGrows ==
    ASSUME NEW S, NEW old \in Seq(S), NEW row \in S, LeadsTo(old, row.from)
    PROVE  /\ LeadsTo(Append(old, row), row.to)
           /\ Append(old, row)[Len(Append(old, row))] = row
<1>1. PICK trail : trail = Append(old, row)
  OBVIOUS
<1>2. PICK n : n = Len(old)
  OBVIOUS
<1>3. /\ n \in Nat /\ n > 0 /\ Len(trail) = n + 1 /\ trail[n + 1] = row
      /\ \A k \in 1 .. n : trail[k] = old[k]
  BY <1>1, <1>2, AppendProperties, LenProperties DEF LeadsTo
<1>4. trail[1].action = "submit"
  BY <1>2, <1>3 DEF LeadsTo
<1>5. ASSUME NEW k \in 2 .. n + 1 PROVE trail[k].from = trail[k - 1].to
  <2>1. CASE k = n + 1
    <3>1. k - 1 = n /\ trail[n] = old[n]
      BY <1>3, <2>1
    <3>2. QED
      BY <1>2, <1>3, <2>1, <3>1 DEF LeadsTo
  <2>2. CASE k # n + 1
    <3>1. k \in 2 .. n /\ k \in 1 .. n /\ k - 1 \in 1 .. n
      BY <1>3, <2>2
    <3>2. old[k].from = old[k - 1].to
      BY <1>2, <3>1 DEF LeadsTo
    <3>3. QED
      BY <1>3, <3>1, <3>2
  <2>3. QED
    BY <2>1, <2>2
<1>6. LeadsTo(trail, row.to)
  BY <1>3, <1>4, <1>5 DEF LeadsTo
<1>7. QED
  BY <1>1, <1>3, <1>6

\* A step that is gone does not come back.
LEMMA StepsStayGone ==
    ASSUME TypeInv, NEW p \in Admin, StartEdit(p) \/ FinishEdit(p), NoStepGone'
    PROVE  NoStepGone
<1>1. CASE UNCHANGED steps
  BY <1>1 DEF NoStepGone
<1>2. CASE CreateWorkflowStep(p)
  <2>1. PICK n \in Step, new \in StepRow : steps[n] = Unused /\ steps' = [steps EXCEPT ![n] = new]
    BY <1>2 DEF CreateWorkflowStep, InsertStep
  <2>2. QED
    BY <2>1, RowsInTable DEF NoStepGone, TypeInv, TypeOK, TemplatesTypeOK
<1>3. CASE WriteStep(p)
  <2>1. \/ UNCHANGED steps
        \/ HasStep(admin[p].id) /\ steps' = [steps EXCEPT ![admin[p].id] = admin[p].row]
    BY <1>3 DEF WriteStep
  <2>2. QED
    BY <2>1 DEF NoStepGone, TypeInv, TypeOK, TemplatesTypeOK, HasStep, InTable
<1>4. QED
  BY <1>1, <1>2, <1>3 DEF StartEdit, FinishEdit, CreateWorkflow, UpdateWorkflow, DeactivateWorkflow,
     UpdateWorkflowStep, CreateWorkflowTransition, UpdateWorkflowTransition,
     DeleteWorkflowTransition, WriteWorkflow, WriteTransition

LEMMA LinksKept ==
    ASSUME TypeInv, LinksMove, NEW p \in Admin, StartEdit(p) \/ FinishEdit(p)
    PROVE  LinksMove'
<1>1. CASE UNCHANGED transitions
  BY <1>1 DEF LinksMove, HasTransition
<1>2. CASE CreateWorkflowTransition(p)
  <2>1. PICK t \in Transition, row \in TransitionRow :
          row.from # row.to /\ transitions' = [transitions EXCEPT ![t] = row]
    BY <1>2 DEF CreateWorkflowTransition, InsertTransition
  <2>2. QED
    BY <2>1 DEF LinksMove, HasTransition, TypeInv, TypeOK, TemplatesTypeOK
<1>3. CASE DeleteWorkflowTransition(p)
  <2>1. PICK t \in Transition : transitions' = [transitions EXCEPT ![t] = Deleted]
    BY <1>3 DEF DeleteWorkflowTransition, RemoveTransition
  <2>2. QED
    BY <2>1, RowsInTable DEF LinksMove, HasTransition, TypeInv, TypeOK, TemplatesTypeOK
<1>4. CASE WriteTransition(p)
  <2>1. PICK t : t = admin[p].id
    OBVIOUS
  <2>2. t \in Transition
    BY <1>4, <2>1, EditRows, Tables DEF WriteTransition
  <2>3. CASE HasTransition(t) /\ transitions' = [transitions EXCEPT ![t].roles = admin[p].row.roles]
    <3>1. transitions[t] \in TransitionRow
      BY <2>2, <2>3, TemplateRows, Tables
    <3>2. /\ transitions'[t].from = transitions[t].from /\ transitions'[t].to = transitions[t].to
          /\ \A u \in Transition : u # t => transitions'[u] = transitions[u]
      BY <2>2, <2>3, <3>1 DEF TypeInv, TypeOK, TemplatesTypeOK, TransitionRow
    <3>3. QED
      BY <2>3, <3>2 DEF LinksMove, HasTransition
  <2>4. QED
    BY <1>1, <1>4, <2>1, <2>3 DEF WriteTransition
<1>5. QED
  BY <1>1, <1>2, <1>3, <1>4 DEF StartEdit, FinishEdit, CreateWorkflow, UpdateWorkflow,
     DeactivateWorkflow, CreateWorkflowStep, UpdateWorkflowStep, UpdateWorkflowTransition,
     WriteWorkflow, WriteStep

LEMMA CascadeLinks ==
    ASSUME LinksMove, NEW goneSteps, NEW goneWorkflows, StepsDeleted(goneSteps, goneWorkflows)
    PROVE  /\ LinksMove'
           /\ NoStepGone' => NoStepGone /\ \A s \in Step : s \notin goneSteps
<1>1. LinksMove'
  BY RowsInTable DEF StepsDeleted, LinksMove, HasTransition
<1>2. \A s \in Step : steps'[s] = IF s \in goneSteps THEN Deleted ELSE steps[s]
  BY DEF StepsDeleted
<1>3. QED
  BY <1>1, <1>2 DEF NoStepGone

\* Deleting a workflow that has no step leaves the histories alone.
LEMMA CascadeHistories ==
    ASSUME TypeInv, NEW goneWorkflows, InstancesDeleted({}, goneWorkflows)
    PROVE  \A i \in Instance : Running(i)' => history'[i] = history[i]
<1>1. ASSUME NEW i \in Instance, Running(i)' PROVE history'[i] = history[i]
  <2> DEFINE gone == {j \in Instance : /\ Running(j)
                                       /\ \/ instances[j].workflow \in goneWorkflows
                                          \/ instances[j].step \in {}}
             goes(row) == InTable(row) /\ {row.from, row.to} \cap {} # {}
  <2>1. /\ instances' = [j \in Instance |-> IF j \in gone THEN Deleted ELSE instances[j]]
        /\ history' = [j \in Instance |->
                         IF j \in gone THEN <<>>
                         ELSE [n \in DOMAIN history[j] |->
                                 IF goes(history[j][n]) THEN Deleted ELSE history[j][n]]]
    BY DEF InstancesDeleted
  <2>2. \A row : ~goes(row)
    OBVIOUS
  <2> HIDE DEF gone, goes
  <2>3. i \notin gone
    BY <1>1, <2>1, RowsInTable DEF Running
  <2>4. history'[i] = [n \in DOMAIN history[i] |-> history[i][n]]
    BY <2>1, <2>2, <2>3
  <2>5. history[i] = [n \in DOMAIN history[i] |-> history[i][n]]
    <3>1. history[i] \in [1 .. Len(history[i]) -> HistoryRow \cup {Deleted}]
      BY LenProperties DEF TypeInv
    <3>2. QED
      BY <3>1
  <2>6. QED
    BY <2>4, <2>5
<1>2. QED
  BY <1>1

\* The requests stay where they are, and the histories too.
LEMMA EditTrail ==
    ASSUME TypeInv, TrailInv,
           \/ \E p \in Admin : EditTemplates(p) \/ FinishEdits(p)
           \/ EditStaff \/ UNCHANGED vars
    PROVE  TrailInv'
<1>1. ASSUME UNCHANGED <<req, cutShort>>, LinksMove', NoStepGone' => NoStepGone,
             NoStepGone' => \A i \in Instance : Running(i)' =>
                 Running(i) /\ instances'[i] = instances[i] /\ history'[i] = history[i]
      PROVE  TrailInv'
  <2>1. \A p \in Request : MovesOn(req[p])'
    BY <1>1 DEF TrailInv, MovesOn
  <2>2. ASSUME NoStepGone', NEW i \in Instance \ cutShort', Running(i)', ~Halfway(i)'
        PROVE  Recorded(i)'
    <3>1. /\ Running(i) /\ instances'[i] = instances[i] /\ history'[i] = history[i]
          /\ i \notin cutShort /\ ~Halfway(i) /\ NoStepGone
      BY <1>1, <2>2 DEF Halfway, HasWritten
    <3>2. Recorded(i)
      BY <3>1 DEF TrailInv
    <3>3. QED
      BY <3>1, <3>2 DEF Recorded, LeadsTo, IsOpen, Running
  <2>3. ASSUME NoStepGone', NEW p \in Request, HasWritten(p)', Running(req[p].instance)'
        PROVE  req[p].instance \in cutShort' \/ RecordedHalfway(req[p])'
    <3>1. PICK r : r = req[p] /\ r = req'[p]
      BY <1>1
    <3>2. HasWritten(p) /\ NoStepGone /\ r.instance \in Instance /\ Running(r.instance)'
      BY <1>1, <2>3, <3>1, WrittenPc, Tables DEF HasWritten, Running
    <3>3. Running(r.instance) /\ history'[r.instance] = history[r.instance]
      BY <1>1, <2>3, <3>2
    <3>4. r.instance \in cutShort \/ RecordedHalfway(r)
      BY <3>1, <3>2, <3>3 DEF TrailInv
    <3>5. QED
      BY <1>1, <3>1, <3>3, <3>4 DEF RecordedHalfway, LeadsTo
  <2>4. QED
    BY <1>1, <2>1, <2>2, <2>3 DEF TrailInv
<1>2. CASE UNCHANGED <<runVars, req>> /\ LinksMove' /\ (NoStepGone' => NoStepGone)
  BY <1>1, <1>2 DEF runVars, Running
<1>3. ASSUME NEW p \in Admin, EditTemplates(p) \/ FinishEdits(p) PROVE TrailInv'
  <2>1. CASE (StartEdit(p) \/ FinishEdit(p)) /\ UNCHANGED <<runVars, req>>
    BY <1>2, <2>1, StepsStayGone, LinksKept DEF TrailInv
  <2>2. ASSUME NEW goneSteps \in SUBSET Step, NEW goneWorkflows,
               StepsDeleted(goneSteps, goneWorkflows), InstancesDeleted(goneSteps, goneWorkflows)
        PROVE  TrailInv'
    <3>1. /\ LinksMove'
          /\ NoStepGone' => NoStepGone /\ goneSteps = {}
      BY <2>2, CascadeLinks DEF TrailInv
    <3>2. OnlyTaken /\ UNCHANGED <<req, cutShort>>
      BY <2>2, CascadeTakes
    <3>3. NoStepGone' => \A i \in Instance : Running(i)' => history'[i] = history[i]
      BY <2>2, <3>1, CascadeHistories
    <3>4. QED
      BY <1>1, <3>1, <3>2, <3>3 DEF OnlyTaken
  <2>3. ASSUME NEW w \in Workflow, DeleteWorkflow(p, w),
               InstancesDeleted(GetStepsByWorkflowID(w), {w})
        PROVE  TrailInv'
    <3>1. GetStepsByWorkflowID(w) \in SUBSET Step
      BY DEF GetStepsByWorkflowID
    <3>2. QED
      BY <2>2, <2>3, <3>1 DEF DeleteWorkflow, RemoveWorkflow
  <2>4. ASSUME NEW s \in Step, DeleteWorkflowStep(p, s), InstancesDeleted({s}, {})
        PROVE  TrailInv'
    BY <2>2, <2>4 DEF DeleteWorkflowStep, RemoveStep
  <2>5. QED
    BY <1>3, <2>1, <2>3, <2>4 DEF EditTemplates, FinishEdits
<1>4. CASE EditStaff \/ UNCHANGED vars
  <2>1. UNCHANGED <<runVars, req, steps, transitions>>
    BY <1>4 DEF EditStaff, vars, templateVars
  <2>2. QED
    BY <1>2, <2>1 DEF TrailInv, LinksMove, NoStepGone, HasTransition
<1>5. QED
  BY <1>3, <1>4

LEMMA CrashTrail ==
    ASSUME TypeInv, TrailInv, Crash
    PROVE  TrailInv'
<1>1. /\ req' = [p \in Request |-> Idle] /\ UNCHANGED <<steps, transitions, instances, history>>
      /\ cutShort' = cutShort \cup {req[p].instance : p \in {q \in Request : HasWritten(q)}}
  BY DEF Crash
<1>2. \A p \in Request : req'[p].pc = "idle" /\ ~HasWritten(p)'
  BY <1>1 DEF Idle, HasWritten
<1>3. LinksMove' /\ \A p \in Request : MovesOn(req[p])'
  BY <1>1, <1>2 DEF TrailInv, LinksMove, HasTransition, MovesOn, Submitting, Moving
<1>4. ASSUME NoStepGone', NEW i \in Instance \ cutShort', Running(i)' PROVE Recorded(i)'
  <2>1. i \notin cutShort /\ ~Halfway(i) /\ Running(i) /\ NoStepGone
    BY <1>1, <1>4 DEF Halfway, Running, NoStepGone
  <2>2. Recorded(i)
    BY <2>1 DEF TrailInv
  <2>3. QED
    BY <1>1, <2>2 DEF Recorded, LeadsTo, IsOpen, Running
<1>5. QED
  BY <1>2, <1>3, <1>4 DEF TrailInv

\* What a statement that writes must show of the only request.
LEMMA OwnTrail ==
    ASSUME Serial, TypeInv, TrailInv, NEW p \in Request, NEW i \in Instance,
           UNCHANGED <<steps, transitions, cutShort>>, HasWritten(p) => req[p].instance = i,
           \A j \in Instance \ {i} : instances'[j] = instances[j] /\ history'[j] = history[j],
           NEW r, Goto(p, r), r.pc \in {"idle"} \cup Submitting \cup Moving,
           r.pc # "idle" => r.instance = i, MovesOn(r),
           (NoStepGone /\ Running(i)' /\ i \notin cutShort) =>
               IF r.pc = "idle" THEN Recorded(i)' ELSE RecordedHalfway(r)'
    PROVE  TrailInv'
<1>1. req'[p] = r /\ \A q \in Request : q = p
  BY Alone DEF Goto, TypeInv
<1>2. HasWritten(p)' <=> r.pc # "idle"
  BY <1>1 DEF HasWritten, Submitting, Moving
<1>3. LinksMove' /\ \A q \in Request : MovesOn(req[q])'
  BY <1>1 DEF TrailInv, LinksMove, HasTransition, MovesOn
<1>4. NoStepGone' <=> NoStepGone
  BY DEF NoStepGone
<1>5. ASSUME NoStepGone, NEW j \in Instance \ cutShort', Running(j)', ~Halfway(j)'
      PROVE  Recorded(j)'
  <2>1. CASE j = i
    <3>1. r.pc = "idle"
      BY <1>1, <1>2, <1>5, <2>1 DEF Halfway
    <3>2. QED
      BY <1>5, <2>1, <3>1
  <2>2. CASE j # i
    <3>1. instances'[j] = instances[j] /\ history'[j] = history[j]
      BY <2>2
    <3>2. ~Halfway(j) /\ Running(j) /\ j \notin cutShort
      BY <1>1, <1>5, <2>2, <3>1 DEF Halfway, Running
    <3>3. Recorded(j)
      BY <1>5, <3>2 DEF TrailInv
    <3>4. QED
      BY <3>1, <3>3 DEF Recorded, LeadsTo, IsOpen, Running
  <2>3. QED
    BY <2>1, <2>2
<1>6. ASSUME NoStepGone, NEW q \in Request, HasWritten(q)', Running(req[q].instance)'
      PROVE  req'[q].instance \in cutShort' \/ RecordedHalfway(req[q])'
  <2>1. q = p /\ r.pc # "idle" /\ r.instance = i /\ req'[q] = r
    BY <1>1, <1>2, <1>6
  <2>2. Running(i)'
    BY <1>6, <2>1 DEF Running
  <2>3. i \in cutShort' \/ RecordedHalfway(r)'
    BY <1>6, <2>1, <2>2
  <2>4. QED
    BY <2>1, <2>3 DEF RecordedHalfway
<1>7. QED
  BY <1>3, <1>4, <1>5, <1>6 DEF TrailInv

\* A request that writes nothing, or gives up what it has written.
LEMMA ReadTrail ==
    ASSUME Serial, TypeInv, TrailInv, NEW p \in Request,
           HasWritten(p) => req[p].instance \in cutShort',
           cutShort \subseteq cutShort', UNCHANGED <<steps, transitions, instances, history>>,
           NEW r, Goto(p, r), r.pc \in {"idle"} \cup Starting \cup Deciding, MovesOn(r)
    PROVE  TrailInv'
<1>1. req'[p] = r /\ \A q \in Request : q = p
  BY Alone DEF Goto, TypeInv
<1>2. ~HasWritten(p)'
  BY <1>1 DEF HasWritten, Starting, Deciding
<1>3. LinksMove' /\ \A q \in Request : MovesOn(req[q])'
  BY <1>1 DEF TrailInv, LinksMove, HasTransition, MovesOn
<1>4. ASSUME NoStepGone', NEW j \in Instance \ cutShort', Running(j)' PROVE Recorded(j)'
  <2>1. ~Halfway(j) /\ Running(j) /\ j \notin cutShort /\ NoStepGone
    BY <1>1, <1>4 DEF Halfway, Running, NoStepGone
  <2>2. Recorded(j)
    BY <2>1 DEF TrailInv
  <2>3. QED
    BY <2>2 DEF Recorded, LeadsTo, IsOpen, Running
<1>5. QED
  BY <1>1, <1>2, <1>3, <1>4 DEF TrailInv

\* A request that gives up leaves the instance to cutShort.
LEMMA GiveUpTrail ==
    ASSUME Serial, TypeInv, TrailInv, NEW p \in Request, Return(p),
           HasWritten(p) => GiveUp(p), cutShort \subseteq cutShort',
           UNCHANGED <<steps, transitions, instances, history>>
    PROVE  TrailInv'
<1>1. PICK r : r = Idle
  OBVIOUS
<1>2. r.pc = "idle" /\ Goto(p, r) /\ MovesOn(r)
  BY <1>1 DEF Return, Idle, MovesOn, Submitting, Moving
<1>3. HasWritten(p) => req[p].instance \in cutShort'
  BY DEF GiveUp
<1>4. QED
  BY <1>2, <1>3, ReadTrail

\* The statements between the move of an instance and its record.
LEMMA AdvanceTrail ==
    ASSUME Serial, TypeInv, TrailInv, NEW p \in Request,
           UNCHANGED <<steps, transitions, history, cutShort>>,
           NEW r, Goto(p, r), r.instance = req[p].instance, r.step = req[p].step,
           r.next = req[p].next, r.closing = req[p].closing,
           \/ req[p].pc \in Submitting /\ r.pc \in Submitting
           \/ req[p].pc \in Moving /\ r.pc \in Moving,
           \A j \in Instance : Running(j)' => Running(j),
           \A j \in Instance \ {r.instance} : instances'[j] = instances[j]
    PROVE  TrailInv'
<1>1. /\ HasWritten(p) /\ r.instance \in Instance
      /\ r.pc \in Submitting \cup Moving /\ r.pc # "idle"
      /\ req[p].pc \in Submitting \cup Moving
  BY WrittenPc, Tables DEF Submitting, Moving
<1>2. MovesOn(r)
  BY <1>1 DEF TrailInv, MovesOn
<1>3. ASSUME NoStepGone, Running(r.instance)', r.instance \notin cutShort
      PROVE  RecordedHalfway(r)'
  <2>1. RecordedHalfway(req[p])
    BY <1>1, <1>3 DEF TrailInv
  <2>2. (r.pc \in Submitting => req[p].pc \in Submitting) /\ (r.pc \in Moving => req[p].pc \in Moving)
    BY DEF Submitting, Moving
  <2>3. QED
    BY <2>1, <2>2 DEF RecordedHalfway, LeadsTo
<1>4. PICK i \in Instance : i = r.instance
  BY <1>1
<1>5. QED
  BY <1>1, <1>2, <1>3, <1>4, OwnTrail

\* A request that has written nothing yet reads.
LEMMA ReadingTrail ==
    ASSUME Serial, TypeInv, TrailInv, NEW p \in Request,
           \/ \E b \in Booking : Initiate(p, b)
           \/ ProcessAction(p) \/ FirstStep(p) \/ NextStep(p)
    PROVE  TrailInv'
<1>1. /\ UNCHANGED <<steps, transitions, instances, history, cutShort>>
      /\ ~HasWritten(p) /\ req[p] \in Local /\ Holds(req[p], instances)
  <2>1. req[p].pc \in {"idle", "first_step", "next_step"}
    <3>1. Starts(p) => req[p].pc = "idle"
      BY DEF Starts, Idle
    <3>2. Starts(p) \/ At(p, "first_step") \/ At(p, "next_step")
      BY Zenon DEF Initiate, ProcessAction, FirstStep, NextStep
    <3>3. QED
      BY <3>1, <3>2 DEF At
  <2>2. UNCHANGED <<steps, transitions, instances, history, cutShort>>
    BY DEF Initiate, ProcessAction, FirstStep, NextStep, runVars, templateVars
  <2>3. QED
    BY <2>1, <2>2 DEF HasWritten, TypeInv
<1>2. CASE Return(p)
  BY <1>1, <1>2, GiveUpTrail
<1>3. ASSUME NEW r, Goto(p, r), r.pc \in Starting \cup Deciding, MovesOn(r) PROVE TrailInv'
  BY <1>1, <1>3, ReadTrail
<1>4. CASE \E b \in Booking : Initiate(p, b)
  <2>1. PICK b, w : Goto(p, [Idle EXCEPT !.pc = "first_step", !.booking = b, !.workflow = w])
    BY <1>4 DEF Initiate
  <2>2. PICK r : r = [Idle EXCEPT !.pc = "first_step", !.booking = b, !.workflow = w]
    OBVIOUS
  <2>3. r.pc = "first_step"
    BY <2>2 DEF Idle
  <2>4. QED
    BY <1>3, <2>1, <2>2, <2>3 DEF MovesOn, Starting, Submitting, Moving
<1>5. CASE ProcessAction(p)
  <2>1. PICK i, u, a : Goto(p, [Idle EXCEPT !.pc = "next_step", !.instance = i, !.by = u,
                                            !.action = a, !.step = instances[i].step])
    BY <1>5 DEF ProcessAction
  <2>2. PICK r : r = [Idle EXCEPT !.pc = "next_step", !.instance = i, !.by = u,
                                  !.action = a, !.step = instances[i].step]
    OBVIOUS
  <2>3. r.pc = "next_step"
    BY <2>2 DEF Idle
  <2>4. QED
    BY <1>3, <2>1, <2>2, <2>3 DEF MovesOn, Deciding, Submitting, Moving
<1>6. CASE FirstStep(p)
  <2>1. ~req[p].closing
    BY <1>1, <1>6 DEF FirstStep, At, Holds, Starting
  <2>2. ASSUME NEW t \in GetFirstActionStep(req[p].workflow),
               Goto(p, [req[p] EXCEPT !.pc = "create_instance",
                           !.step = transitions[t].from, !.next = transitions[t].to,
                           !.roles = transitions[t].roles])
        PROVE  TrailInv'
    <3>1. transitions[t].from # transitions[t].to
      BY DEF GetFirstActionStep, TrailInv, LinksMove
    <3>2. PICK r : r = [req[p] EXCEPT !.pc = "create_instance",
                           !.step = transitions[t].from, !.next = transitions[t].to,
                           !.roles = transitions[t].roles]
      OBVIOUS
    <3>3. /\ r.pc = "create_instance" /\ r.step = transitions[t].from
          /\ r.next = transitions[t].to /\ ~r.closing
      BY <1>1, <2>1, <3>2 DEF Local
    <3>4. QED
      BY <1>3, <2>2, <3>1, <3>2, <3>3 DEF MovesOn, Starting
  <2>3. QED
    BY <1>2, <1>6, <2>2 DEF FirstStep
<1>7. CASE NextStep(p)
  <2> DEFINE s == req[p].step
             closing == req[p].action = "reject" \/ (HasStep(s) /\ steps[s].final)
  <2>1. ASSUME NEW next, NEW roles, closing <=> s = next,
               Goto(p, [req[p] EXCEPT !.pc = "update_step", !.next = next,
                               !.roles = roles, !.closing = closing])
        PROVE  TrailInv'
    <3>1. PICK r : r = [req[p] EXCEPT !.pc = "update_step", !.next = next,
                                      !.roles = roles, !.closing = closing]
      OBVIOUS
    <3>2. r.pc = "update_step" /\ r.step = s /\ r.next = next /\ r.closing = closing
      BY <1>1, <3>1 DEF Local
    <3>3. MovesOn(r)
      BY <2>1, <3>2 DEF MovesOn
    <3> HIDE DEF closing
    <3>4. QED
      BY <1>3, <2>1, <3>1, <3>2, <3>3 DEF Deciding
  <2>2. ASSUME NEW t \in GetValidTransitions(s),
               Goto(p, [req[p] EXCEPT !.pc = "update_step",
                           !.next = IF closing THEN s ELSE transitions[t].to,
                           !.roles = transitions[t].roles, !.closing = closing])
        PROVE  TrailInv'
    <3>1. s # transitions[t].to
      BY DEF GetValidTransitions, TrailInv, LinksMove
    <3> HIDE DEF closing, s
    <3>2. QED
      BY <2>1, <2>2, <3>1
  <2>3. CASE /\ closing
             /\ Goto(p, [req[p] EXCEPT !.pc = "update_step", !.next = s,
                                !.roles = {}, !.closing = closing])
    <3> HIDE DEF closing, s
    <3>1. QED
      BY <2>1, <2>3
  <2>4. \/ Return(p)
        \/ \E t \in GetValidTransitions(s) :
             Goto(p, [req[p] EXCEPT !.pc = "update_step",
                         !.next = IF closing THEN s ELSE transitions[t].to,
                         !.roles = transitions[t].roles, !.closing = closing])
        \/ /\ closing
           /\ Goto(p, [req[p] EXCEPT !.pc = "update_step", !.next = s,
                              !.roles = {}, !.closing = closing])
    BY <1>7, Zenon DEF NextStep
  <2> HIDE DEF closing, s
  <2>5. QED
    BY <1>2, <2>2, <2>3, <2>4
<1>8. QED
  BY <1>4, <1>5, <1>6, <1>7

LEMMA CreateInstanceTrail ==
    ASSUME Serial, TypeInv, TrailInv, NEW p \in Request, CreateInstance(p)
    PROVE  TrailInv'
<1>1. /\ req[p].pc = "create_instance" /\ req[p] \in Local /\ ~HasWritten(p)
      /\ UNCHANGED <<steps, transitions, history, cutShort>>
  BY DEF CreateInstance, At, TypeInv, HasWritten, templateVars
<1>2. CASE Return(p) /\ UNCHANGED instances
  BY <1>1, <1>2, GiveUpTrail
<1>3. ASSUME NEW i \in Instance, instances[i] = Unused, InsertInstance(p, i),
             Goto(p, [req[p] EXCEPT !.pc = "first_task", !.instance = i])
      PROVE  TrailInv'
  <2>1. PICK r : r = [req[p] EXCEPT !.pc = "first_task", !.instance = i]
    OBVIOUS
  <2>2. /\ r.pc = "first_task" /\ r.instance = i
        /\ r.step = req[p].step /\ r.next = req[p].next /\ r.closing = req[p].closing
    BY <1>1, <2>1 DEF Local
  <2>3. \A j \in Instance \ {i} : instances'[j] = instances[j]
    BY <1>3 DEF InsertInstance, TypeInv, TypeOK
  <2>4. history[i] = <<>>
    BY <1>3, RowsInTable, RunRows, Tables DEF Running
  <2>5. MovesOn(r)
    BY <1>1, <2>2 DEF TrailInv, MovesOn
  <2>6. RecordedHalfway(r)'
    BY <1>1, <2>2, <2>4 DEF RecordedHalfway, Moving
  <2>7. QED
    BY <1>1, <1>3, <2>1, <2>2, <2>3, <2>5, <2>6, OwnTrail DEF Submitting
<1>4. QED
  BY <1>2, <1>3 DEF CreateInstance

\* The step is moved, and what the history leads to is the step it left.
LEMMA UpdateStepTrail ==
    ASSUME Serial, TypeInv, TasksInv, TrailInv, NEW p \in Request, UpdateStep(p)
    PROVE  TrailInv'
<1>1. /\ req[p].pc = "update_step" /\ req[p] \in Local /\ ~HasWritten(p)
      /\ req[p].instance \in Instance /\ UNCHANGED <<steps, transitions, history, cutShort>>
  BY DEF UpdateStep, At, TypeInv, HasWritten, Holds, Deciding, templateVars
<1>2. CASE Return(p) /\ UNCHANGED <<instances, votes>>
  BY <1>1, <1>2, GiveUpTrail
<1>3. CASE /\ Running(req[p].instance) /\ Advance(p, "active_task")
           /\ SetStep(req[p].instance, req[p].next, NewStatus(p))
  <2>1. PICK i, r : i = req[p].instance /\ r = [req[p] EXCEPT !.pc = "active_task"]
    OBVIOUS
  <2>2. /\ r.pc = "active_task" /\ r.instance = i /\ i \in Instance /\ r.step = req[p].step
        /\ r.next = req[p].next /\ r.closing = req[p].closing
    BY <1>1, <2>1 DEF Local
  <2>3. Running(i) /\ instances[i].step = r.step /\ ~Halfway(i)
    BY <1>1, <1>3, <2>1, <2>2, Alone DEF TasksInv, OpenWhenRead, Deciding, Halfway
  <2>4. \A j \in Instance \ {i} : instances'[j] = instances[j]
    BY <1>3, <2>1 DEF SetStep, TypeInv, TypeOK
  <2>5. MovesOn(r)
    BY <1>1, <2>2 DEF TrailInv, MovesOn
  <2>6. ASSUME NoStepGone, i \notin cutShort PROVE RecordedHalfway(r)'
    <3>1. Recorded(i)
      BY <2>2, <2>3, <2>6 DEF TrailInv
    <3>2. LeadsTo(history[i], r.step)
      BY <2>3, <3>1 DEF Recorded
    <3>3. QED
      BY <1>1, <2>2, <3>2 DEF RecordedHalfway, LeadsTo, Submitting
  <2>7. QED
    BY <1>1, <1>3, <2>1, <2>2, <2>4, <2>5, <2>6, OwnTrail DEF Advance, Moving
<1>4. QED
  BY <1>2, <1>3 DEF UpdateStep

\* The statements on tasks and on the booking.
LEMMA TaskStatementsTrail ==
    ASSUME Serial, TypeInv, TrailInv, NEW p \in Request,
           \/ AssignFirst(p) \/ AssignNext(p) \/ GetActiveTask(p) \/ CompleteTask(p)
           \/ UpdateEntityStatus(p)
    PROVE  TrailInv'
<1>1. /\ UNCHANGED <<steps, transitions, instances, history>> /\ req[p] \in Local
      /\ req[p].pc \in {"first_task", "new_task", "active_task", "complete_task", "entity"}
  BY DEF AssignFirst, AssignNext, GetActiveTask, CompleteTask, UpdateEntityStatus, At, runVars,
         templateVars, TypeInv
<1>2. CASE GiveUp(p)
  BY <1>1, <1>2, GiveUpTrail DEF GiveUp, TypeInv
<1>3. ASSUME NEW r, Goto(p, r), UNCHANGED cutShort, r.instance = req[p].instance,
             r.step = req[p].step, r.next = req[p].next, r.closing = req[p].closing,
             \/ req[p].pc = "first_task" /\ r.pc = "first_history"
             \/ req[p].pc # "first_task" /\ r.pc \in Moving
      PROVE  TrailInv'
  <2>1. \/ req[p].pc \in Submitting /\ r.pc \in Submitting
        \/ req[p].pc \in Moving /\ r.pc \in Moving
    BY <1>1, <1>3 DEF Submitting, Moving
  <2>2. QED
    BY <1>1, <1>3, <2>1, AdvanceTrail DEF Running
<1>4. ASSUME NEW pc, Advance(p, pc), UNCHANGED cutShort,
             \/ req[p].pc = "first_task" /\ pc = "first_history"
             \/ req[p].pc # "first_task" /\ pc \in Moving
      PROVE  TrailInv'
  <2>1. PICK r : r = [req[p] EXCEPT !.pc = pc]
    OBVIOUS
  <2>2. /\ r.pc = pc /\ r.instance = req[p].instance /\ r.step = req[p].step
        /\ r.next = req[p].next /\ r.closing = req[p].closing
    BY <1>1, <2>1 DEF Local
  <2>3. QED
    BY <1>3, <1>4, <2>1, <2>2 DEF Advance
<1>5. CASE AssignFirst(p)
  BY <1>2, <1>4, <1>5 DEF AssignFirst, At
<1>6. CASE AssignNext(p)
  BY <1>2, <1>4, <1>6 DEF AssignNext, At, Moving
<1>7. AfterTask(p) \in Moving
  BY DEF AfterTask, Moving
<1>8. CASE GetActiveTask(p)
  <2>1. UNCHANGED cutShort /\ req[p].pc # "first_task"
    BY <1>8 DEF GetActiveTask, runVars, At
  <2>2. ASSUME NEW t, Goto(p, [req[p] EXCEPT !.pc = "complete_task", !.task = t]) PROVE TrailInv'
    <3>1. PICK r : r = [req[p] EXCEPT !.pc = "complete_task", !.task = t]
      OBVIOUS
    <3>2. /\ r.pc = "complete_task" /\ r.instance = req[p].instance /\ r.step = req[p].step
          /\ r.next = req[p].next /\ r.closing = req[p].closing
      BY <1>1, <3>1 DEF Local
    <3>3. QED
      BY <1>3, <2>1, <2>2, <3>1, <3>2 DEF Moving
  <2>3. QED
    BY <1>4, <1>7, <1>8, <2>1, <2>2 DEF GetActiveTask
<1>9. CASE CompleteTask(p)
  BY <1>2, <1>4, <1>7, <1>9 DEF CompleteTask, At
<1>10. CASE UpdateEntityStatus(p)
  BY <1>4, <1>10 DEF UpdateEntityStatus, At, Moving
<1>11. QED
  BY <1>5, <1>6, <1>8, <1>9, <1>10

LEMMA CompleteInstanceTrail ==
    ASSUME Serial, TypeInv, TrailInv, NEW p \in Request, CompleteInstance(p)
    PROVE  TrailInv'
<1>1. /\ req[p].pc = "complete" /\ req[p] \in Local
      /\ UNCHANGED <<steps, transitions, history>>
  BY DEF CompleteInstance, At, TypeInv, templateVars
<1>2. PICK i : i = req[p].instance
  OBVIOUS
<1>3. CASE GiveUp(p) /\ UNCHANGED instances
  BY <1>1, <1>3, GiveUpTrail DEF GiveUp, TypeInv
<1>4. CASE /\ Running(i) /\ SetCompleted(i) /\ UNCHANGED cutShort
           /\ Goto(p, [req[p] EXCEPT !.pc = "entity", !.booking = instances[i].booking])
  <2>1. PICK r : r = [req[p] EXCEPT !.pc = "entity", !.booking = instances[i].booking]
    OBVIOUS
  <2>2. /\ r.pc = "entity" /\ r.instance = i /\ r.step = req[p].step
        /\ r.next = req[p].next /\ r.closing = req[p].closing
    BY <1>1, <1>2, <2>1 DEF Local
  <2>3. \A j \in Instance \ {i} : instances'[j] = instances[j]
    BY <1>4 DEF SetCompleted, TypeInv, TypeOK
  <2>4. \A j \in Instance : Running(j)' => Running(j)
    BY <1>4, <2>3 DEF Running
  <2>5. QED
    BY <1>1, <1>2, <1>4, <2>1, <2>2, <2>3, <2>4, AdvanceTrail DEF Moving
<1>5. QED
  BY <1>2, <1>3, <1>4 DEF CompleteInstance

\* The row that ends a request leads from the step it left to the one it
\* moved to, which are the same if it closed the instance.
LEMMA RecordTrail ==
    ASSUME Serial, TypeInv, TasksInv, TrailInv, NEW p \in Request,
           RecordInitiation(p) \/ RecordAction(p)
    PROVE  TrailInv'
<1>1. /\ UNCHANGED <<steps, transitions, instances>> /\ req[p] \in Local
      /\ req[p].pc \in {"first_history", "history"}
      /\ req[p].pc \in Submitting \cup Moving
  BY DEF RecordInitiation, RecordAction, At, templateVars, TypeInv, Submitting, Moving
<1>2. CASE GiveUp(p) /\ UNCHANGED history
  BY <1>1, <1>2, GiveUpTrail DEF GiveUp, TypeInv
<1>3. ASSUME NEW action, CreateHistory(p, action), Return(p), UNCHANGED cutShort,
             \/ req[p].pc = "first_history" /\ action = "submit"
             \/ req[p].pc = "history" /\ action = req[p].action
      PROVE  TrailInv'
  <2>1. PICK i, row, r : /\ i = req[p].instance /\ r = Idle
                         /\ row = [from |-> req[p].step, to |-> req[p].next, action |-> action]
    OBVIOUS
  <2>2. /\ r.pc = "idle" /\ i \in Instance /\ HasWritten(p)
        /\ Running(i) => /\ instances[i].step = req[p].next
                         /\ IsOpen(i) <=> ~req[p].closing
    BY <1>1, <2>1, OwnHalfway DEF Idle
  <2>3. row \in HistoryRow /\ row.from = req[p].step /\ row.to = req[p].next /\ row.action = action
    <3>1. action \in Action \cup {"submit"}
      BY <1>1, <1>3 DEF TypeInv, Holds, Moving
    <3>2. QED
      BY <1>1, <2>1, <3>1 DEF HistoryRow, Local
  <2>4. /\ history[i] \in Seq(HistoryRow \cup {Deleted})
        /\ history'[i] = Append(history[i], row)
        /\ \A j \in Instance \ {i} : history'[j] = history[j]
    BY <1>3, <2>1, <2>2 DEF CreateHistory, TypeInv
  <2>5. ASSUME NoStepGone, Running(i), i \notin cutShort PROVE Recorded(i)'
    <3>1. RecordedHalfway(req[p])
      BY <2>1, <2>2, <2>5 DEF TrailInv
    <3>2. /\ LeadsTo(history'[i], row.to)
          /\ history'[i][Len(history'[i])] = row
      <4>1. CASE req[p].pc = "first_history"
        <5>1. history[i] = <<>> /\ row.action = "submit"
          BY <1>3, <2>1, <2>3, <3>1, <4>1 DEF RecordedHalfway, Submitting
        <5>2. QED
          BY <2>3, <2>4, <5>1, TrailStarts
      <4>2. CASE req[p].pc = "history"
        <5>1. LeadsTo(history[i], row.from)
          BY <2>1, <2>3, <3>1, <4>2 DEF RecordedHalfway, Moving
        <5>2. row \in HistoryRow \cup {Deleted}
          BY <2>3
        <5>3. QED
          BY <2>4, <5>1, <5>2, TrailGrows
      <4>3. QED
        BY <1>1, <4>1, <4>2
    <3>3. req[p].closing <=> row.from = row.to
      BY <1>1, <2>3 DEF TrailInv, MovesOn
    <3>4. row.to = instances'[i].step /\ (IsOpen(i)' <=> row.from # row.to)
      BY <1>1, <2>2, <2>3, <2>5, <3>3 DEF IsOpen, Running
    <3>5. QED
      BY <3>2, <3>4 DEF Recorded, LeadsTo, IsOpen, Running
  <2>6. MovesOn(r)
    BY <2>2 DEF MovesOn, Submitting, Moving
  <2>7. Running(i)' => Running(i)
    BY <1>1 DEF Running
  <2>8. QED
    BY <1>1, <1>3, <2>1, <2>2, <2>4, <2>5, <2>6, <2>7, OwnTrail DEF Return
<1>4. QED
  BY <1>2, <1>3 DEF RecordInitiation, RecordAction, At

LEMMA InitTrail == Init => TrailInv
<1> SUFFICES ASSUME Init PROVE TrailInv
  OBVIOUS
<1>1. LinksMove
  <2>1. PICK roles \in [1 .. SeedSteps - 1 -> SUBSET Role \ {{}}] :
          transitions = [u \in Transition |->
                           IF u < SeedSteps
                           THEN [workflow |-> Seeded, from |-> u - 1, to |-> u, roles |-> roles[u]]
                           ELSE Unused]
    BY DEF Init, TemplatesInit
  <2>2. ASSUME NEW t \in Transition, HasTransition(t)
        PROVE  transitions[t].from # transitions[t].to
    <3>1. transitions[t].from = t - 1 /\ transitions[t].to = t
      BY <2>1, <2>2, RowsInTable DEF HasTransition
    <3>2. QED
      BY <3>1, TemplatesAssumption DEF Transition
  <2>3. QED
    BY <2>2 DEF LinksMove
<1>2. \A p \in Request : req[p].pc = "idle" /\ ~HasWritten(p)
  BY DEF Init, Idle, HasWritten
<1>3. \A i \in Instance : ~Running(i)
  BY RowsInTable DEF Init, Running
<1>4. QED
  BY <1>1, <1>2, <1>3 DEF TrailInv, MovesOn, Submitting, Moving

LEMMA NextTrail == Serial /\ TypeInv /\ TasksInv /\ TrailInv /\ [Next]_vars => TrailInv'
<1> SUFFICES ASSUME Serial, TypeInv, TasksInv, TrailInv, [Next]_vars PROVE TrailInv'
  OBVIOUS
<1>1. ASSUME NEW p \in Request,
             (\E b \in Booking : Initiate(p, b)) \/ ProcessAction(p) \/ Continue(p)
      PROVE  TrailInv'
  BY <1>1, ReadingTrail, CreateInstanceTrail, UpdateStepTrail, TaskStatementsTrail,
     CompleteInstanceTrail, RecordTrail DEF Continue
<1>2. QED
  BY <1>1, EditTrail, CrashTrail DEF Next

\* With one approver at a time, and as long as no step is deleted, the
\* history of every instance that no handler left half done is a trail
\* from the submission to the step the instance stands on, closed exactly
\* when the last row stayed on its step (CreateHistory is the last of the
\* statements of InitiateWorkflow and ProcessAction).
THEOREM TrailAlwaysLeadsHere ==
    ASSUME Serial
    PROVE  Spec => []TrailLeadsHere
<1>1. TypeInv /\ TrailInv => TrailLeadsHere
  <2> SUFFICES ASSUME TypeInv, TrailInv, Quiescent, NoStepGone,
                      NEW i \in Instance \ cutShort, Running(i)
      PROVE  Recorded(i)
    BY DEF TrailLeadsHere, Recorded, LeadsTo, NoStepGone
  <2>1. ~Halfway(i)
    BY DEF Quiescent, Halfway, HasWritten, Idle
  <2>2. QED
    BY <2>1 DEF TrailInv
<1>2. TypeInv /\ TasksInv /\ [Next]_vars => TasksInv'
  BY NextTasks
<1>3. TypeInv /\ TasksInv /\ TrailInv /\ [Next]_vars => TrailInv'
  BY NextTrail
<1>4. QED
  BY <1>1, <1>2, <1>3, InitTyped, NextTyped, InitTasks, InitTrail, PTL DEF Spec

-------------------------------------------------------------------------------
(***************************************************************************)
(* The verdict: what is certain of VerdictReachesBooking before anything   *)
(* is assumed about fairness.                                              *)
(***************************************************************************)
\* The statements of a request that has closed i and not written it down yet.
Concluding(r, i) ==
    /\ r.instance = i /\ r.closing
    /\ r.pc \in {"active_task", "complete_task", "complete", "entity"}

HasOutcome(i) == outcome[instances[i].booking] # "pending"

\* A closed instance has given its booking an outcome, or a handler is on
\* its way to do so, unless a handler failed or died on the instance.
VerdictAwaited ==
    \A i \in Instance \ cutShort : (Running(i) /\ ~IsOpen(i)) =>
        HasOutcome(i) \/ \E p \in Request : Concluding(req[p], i)

\* The outcome goes to the booking of the instance.
RightBooking(r) ==
    (r.pc = "entity" /\ Running(r.instance)) => r.booking = instances[r.instance].booking

VerdictInv == VerdictAwaited /\ \A p \in Request : RightBooking(req[p])

\* What a statement must show to leave nobody's verdict behind.
LEMMA OwnVerdict ==
    ASSUME TypeInv, VerdictInv, NEW p \in Request, NEW r, Goto(p, r),
           cutShort \subseteq cutShort', RightBooking(r)',
           \A b \in Booking : outcome[b] # "pending" => outcome'[b] # "pending",
           \A j \in Instance : Running(j)' =>
               \/ instances[j] = Unused
               \/ Running(j) /\ instances'[j].booking = instances[j].booking,
           \A j \in Instance : Running(j)' =>
               \/ IsOpen(j)' \/ Concluding(r, j)
               \/ Running(j) /\ ~IsOpen(j),
           \A j \in Instance : (Concluding(req[p], j) /\ Running(j)') =>
               \/ Concluding(r, j) \/ j \in cutShort'
               \/ outcome'[instances'[j].booking] # "pending"
    PROVE  VerdictInv'
<1>1. req'[p] = r /\ \A q \in Request : q # p => req'[q] = req[q]
  BY DEF Goto, TypeInv
<1>2. ASSUME NEW q \in Request, req'[q].pc = "entity", Running(req[q].instance)'
      PROVE  req'[q].booking = instances'[req'[q].instance].booking
  <2>1. CASE q = p
    BY <1>1, <1>2, <2>1 DEF RightBooking, Running
  <2>2. CASE q # p
    <3>1. PICK s : s = req[q] /\ s = req'[q]
      BY <1>1, <2>2
    <3>2. /\ s.pc = "entity" /\ s.instance \in Instance /\ instances[s.instance] # Unused
          /\ Running(s.instance)'
      BY <1>2, <3>1 DEF TypeInv, Holds, Moving, Running
    <3>3. Running(s.instance) /\ instances'[s.instance].booking = instances[s.instance].booking
      BY <3>2
    <3>4. RightBooking(s)
      BY <3>1 DEF VerdictInv
    <3>5. QED
      BY <3>1, <3>2, <3>3, <3>4 DEF RightBooking
  <2>3. QED
    BY <2>1, <2>2
<1>3. ASSUME NEW i \in Instance \ cutShort', Running(i)', ~IsOpen(i)'
      PROVE  HasOutcome(i)' \/ \E q \in Request : Concluding(req'[q], i)
  <2>1. CASE Concluding(r, i)
    BY <1>1, <2>1
  <2>2. CASE ~Concluding(r, i)
    <3>1. Running(i) /\ ~IsOpen(i) /\ i \notin cutShort
      BY <1>3, <2>2
    <3>2. instances'[i].booking = instances[i].booking /\ instances[i].booking \in Booking
      <4>1. instances[i] \in InstanceRow /\ instances[i] # Unused
        BY <3>1, RunRows, Tables, RowsInTable DEF Running
      <4>2. QED
        BY <1>3, <4>1 DEF InstanceRow
    <3>3. CASE HasOutcome(i)
      BY <3>2, <3>3 DEF HasOutcome
    <3>4. ASSUME NEW q \in Request, Concluding(req[q], i)
          PROVE  HasOutcome(i)' \/ \E s \in Request : Concluding(req'[s], i)
      <4>1. CASE q = p
        BY <1>3, <2>2, <3>4, <4>1 DEF HasOutcome
      <4>2. CASE q # p
        BY <1>1, <3>4, <4>2
      <4>3. QED
        BY <4>1, <4>2
    <3>5. QED
      BY <3>1, <3>3, <3>4 DEF VerdictInv, VerdictAwaited
  <2>3. QED
    BY <2>1, <2>2
<1>4. VerdictAwaited'
  BY <1>3 DEF VerdictAwaited, Concluding
<1>5. \A q \in Request : RightBooking(req[q])'
  BY <1>2 DEF RightBooking, Running
<1>6. QED
  BY <1>4, <1>5 DEF VerdictInv

\* Statements that touch neither instances nor outcomes.
LEMMA QuietVerdict ==
    ASSUME TypeInv, VerdictInv, NEW p \in Request, NEW r, Goto(p, r),
           UNCHANGED <<instances, outcome>>, cutShort \subseteq cutShort',
           r.pc # "entity",
           \A j \in Instance : Concluding(req[p], j) => Concluding(r, j) \/ j \in cutShort'
    PROVE  VerdictInv'
<1>1. RightBooking(r)'
  BY DEF RightBooking
<1>2. \A j \in Instance : /\ Running(j)' <=> Running(j)
                          /\ IsOpen(j)' <=> IsOpen(j)
                          /\ instances'[j].booking = instances[j].booking
  BY DEF Running, IsOpen
<1>3. QED
  BY <1>1, <1>2, OwnVerdict

LEMMA ReturnVerdict ==
    ASSUME TypeInv, VerdictInv, NEW p \in Request, Return(p),
           UNCHANGED <<instances, outcome>>, cutShort \subseteq cutShort',
           \A j \in Instance : Concluding(req[p], j) => j \in cutShort'
    PROVE  VerdictInv'
<1>1. PICK r : r = Idle
  OBVIOUS
<1>2. r.pc # "entity" /\ Goto(p, r)
  BY <1>1 DEF Idle, Return
<1>3. QED
  BY <1>2, QuietVerdict

LEMMA GiveUpVerdict ==
    ASSUME TypeInv, VerdictInv, NEW p \in Request, GiveUp(p), UNCHANGED <<instances, outcome>>
    PROVE  VerdictInv'
<1>1. Return(p) /\ cutShort' = cutShort \cup {req[p].instance}
  BY DEF GiveUp
<1>2. QED
  BY <1>1, ReturnVerdict DEF Concluding

\* The statements of requests that have not closed anything.
LEMMA UndecidedVerdict ==
    ASSUME TypeInv, VerdictInv, NEW p \in Request,
           \/ \E b \in Booking : Initiate(p, b)
           \/ ProcessAction(p) \/ FirstStep(p) \/ NextStep(p) \/ AssignFirst(p) \/ AssignNext(p)
           \/ RecordInitiation(p) \/ RecordAction(p)
    PROVE  VerdictInv'
<1>1. /\ UNCHANGED <<instances, outcome>> /\ req[p] \in Local /\ cutShort \subseteq cutShort'
      /\ \A j \in Instance : ~Concluding(req[p], j)
  <2>1. req[p].pc \in {"idle", "first_step", "next_step", "first_task", "new_task",
                       "first_history", "history"}
    <3>1. Starts(p) => req[p].pc = "idle"
      BY DEF Starts, Idle
    <3>2. \/ Starts(p) \/ At(p, "first_step") \/ At(p, "next_step") \/ At(p, "first_task")
          \/ At(p, "new_task") \/ At(p, "first_history") \/ At(p, "history")
      BY Zenon DEF Initiate, ProcessAction, FirstStep, NextStep, AssignFirst, AssignNext,
                   RecordInitiation, RecordAction
    <3>3. QED
      BY <3>1, <3>2 DEF At
  <2>2. UNCHANGED <<instances, outcome>> /\ cutShort \subseteq cutShort'
    BY DEF Initiate, ProcessAction, FirstStep, NextStep, AssignFirst, AssignNext,
           RecordInitiation, RecordAction, runVars, GiveUp
  <2>3. QED
    BY <2>1, <2>2 DEF Concluding, TypeInv
<1>2. ASSUME NEW r, Goto(p, r), r.pc # "entity" PROVE VerdictInv'
  BY <1>1, <1>2, QuietVerdict
<1>3. CASE Return(p) \/ GiveUp(p)
  BY <1>1, <1>3, ReturnVerdict DEF GiveUp
<1>4. ASSUME NEW pc \in {"first_history", "history"}, Advance(p, pc) PROVE VerdictInv'
  <2>1. PICK r : r = [req[p] EXCEPT !.pc = pc]
    OBVIOUS
  <2>2. r.pc # "entity"
    BY <1>1, <2>1 DEF Local
  <2>3. QED
    BY <1>2, <1>4, <2>1, <2>2 DEF Advance
<1>5. CASE \E b \in Booking : Initiate(p, b)
  <2>1. PICK b, w : Goto(p, [Idle EXCEPT !.pc = "first_step", !.booking = b, !.workflow = w])
    BY <1>5 DEF Initiate
  <2>2. PICK r : r = [Idle EXCEPT !.pc = "first_step", !.booking = b, !.workflow = w]
    OBVIOUS
  <2>3. r.pc # "entity"
    BY <2>2 DEF Idle
  <2>4. QED
    BY <1>2, <2>1, <2>2, <2>3
<1>6. CASE ProcessAction(p)
  <2>1. PICK i, u, a : Goto(p, [Idle EXCEPT !.pc = "next_step", !.instance = i, !.by = u,
                                            !.action = a, !.step = instances[i].step])
    BY <1>6 DEF ProcessAction
  <2>2. PICK r : r = [Idle EXCEPT !.pc = "next_step", !.instance = i, !.by = u,
                                  !.action = a, !.step = instances[i].step]
    OBVIOUS
  <2>3. r.pc # "entity"
    BY <2>2 DEF Idle
  <2>4. QED
    BY <1>2, <2>1, <2>2, <2>3
<1>7. CASE FirstStep(p)
  <2>1. ASSUME NEW s, NEW next, NEW roles,
               Goto(p, [req[p] EXCEPT !.pc = "create_instance", !.step = s, !.next = next,
                                      !.roles = roles])
        PROVE  VerdictInv'
    <3>1. PICK r : r = [req[p] EXCEPT !.pc = "create_instance", !.step = s, !.next = next,
                                      !.roles = roles]
      OBVIOUS
    <3>2. r.pc # "entity"
      BY <1>1, <3>1 DEF Local
    <3>3. QED
      BY <1>2, <2>1, <3>1, <3>2
  <2>2. QED
    BY <1>3, <1>7, <2>1 DEF FirstStep
<1>8. CASE NextStep(p)
  <2>1. ASSUME NEW next, NEW roles, NEW closing,
               Goto(p, [req[p] EXCEPT !.pc = "update_step", !.next = next,
                               !.roles = roles, !.closing = closing])
        PROVE  VerdictInv'
    <3>1. PICK r : r = [req[p] EXCEPT !.pc = "update_step", !.next = next,
                               !.roles = roles, !.closing = closing]
      OBVIOUS
    <3>2. r.pc # "entity"
      BY <1>1, <3>1 DEF Local
    <3>3. QED
      BY <1>2, <2>1, <3>1, <3>2
  <2>2. \/ Return(p)
        \/ \E next, roles, closing :
              Goto(p, [req[p] EXCEPT !.pc = "update_step", !.next = next,
                              !.roles = roles, !.closing = closing])
    BY <1>8, Zenon DEF NextStep
  <2>3. QED
    BY <1>3, <2>1, <2>2
<1>9. CASE AssignFirst(p) \/ AssignNext(p) \/ RecordInitiation(p) \/ RecordAction(p)
  BY <1>3, <1>4, <1>9 DEF AssignFirst, AssignNext, RecordInitiation, RecordAction
<1>10. QED
  BY <1>5, <1>6, <1>7, <1>8, <1>9

LEMMA CreateInstanceVerdict ==
    ASSUME TypeInv, VerdictInv, NEW p \in Request, CreateInstance(p)
    PROVE  VerdictInv'
<1>1. /\ req[p].pc = "create_instance" /\ req[p] \in Local /\ UNCHANGED <<outcome, cutShort>>
      /\ \A j \in Instance : ~Concluding(req[p], j)
  BY DEF CreateInstance, At, TypeInv, Concluding
<1>2. CASE Return(p) /\ UNCHANGED instances
  BY <1>1, <1>2, ReturnVerdict
<1>3. ASSUME NEW i \in Instance, instances[i] = Unused, InsertInstance(p, i),
             Goto(p, [req[p] EXCEPT !.pc = "first_task", !.instance = i])
      PROVE  VerdictInv'
  <2>1. PICK r : r = [req[p] EXCEPT !.pc = "first_task", !.instance = i]
    OBVIOUS
  <2>2. r.pc = "first_task"
    BY <1>1, <2>1 DEF Local
  <2>3. /\ instances'[i].status = "in_progress"
        /\ \A j \in Instance \ {i} : instances'[j] = instances[j]
    BY <1>3 DEF InsertInstance, TypeInv, TypeOK
  <2>4. Running(i)' => IsOpen(i)'
    BY <2>3 DEF IsOpen, Closed
  <2>5. \A j \in Instance \ {i} : /\ Running(j)' <=> Running(j)
                                  /\ IsOpen(j)' <=> IsOpen(j)
    BY <2>3 DEF Running, IsOpen
  <2>6. RightBooking(r)'
    BY <2>2 DEF RightBooking
  <2>7. ASSUME NEW j \in Instance, Running(j)'
        PROVE  /\ \/ instances[j] = Unused
                  \/ Running(j) /\ instances'[j].booking = instances[j].booking
               /\ IsOpen(j)' \/ (Running(j) /\ ~IsOpen(j))
    BY <1>3, <2>3, <2>4, <2>5, <2>7
  <2>8. QED
    BY <1>1, <1>3, <2>1, <2>6, <2>7, OwnVerdict
<1>4. QED
  BY <1>2, <1>3 DEF CreateInstance

\* Whoever closes the instance is the one to conclude it; whoever opens it
\* again leaves nothing to conclude.
LEMMA UpdateStepVerdict ==
    ASSUME TypeInv, VerdictInv, NEW p \in Request, UpdateStep(p)
    PROVE  VerdictInv'
<1>1. /\ req[p].pc = "update_step" /\ req[p] \in Local /\ UNCHANGED <<outcome, cutShort>>
      /\ \A j \in Instance : ~Concluding(req[p], j)
  BY DEF UpdateStep, At, TypeInv, Concluding
<1>2. CASE Return(p) /\ UNCHANGED instances
  BY <1>1, <1>2, ReturnVerdict
<1>3. CASE /\ Running(req[p].instance) /\ Advance(p, "active_task")
           /\ SetStep(req[p].instance, req[p].next, NewStatus(p))
  <2>1. PICK i, r : i = req[p].instance /\ r = [req[p] EXCEPT !.pc = "active_task"]
    OBVIOUS
  <2>2. r.pc = "active_task" /\ r.instance = i /\ r.closing = req[p].closing /\ i \in Instance
    BY <1>1, <2>1, OwnInstance DEF Local, Deciding
  <2>3. PICK row : row = [instances[i] EXCEPT !.step = req[p].next, !.status = NewStatus(p)]
    OBVIOUS
  <2>4. instances[i] \in InstanceRow
    BY <1>3, <2>1, <2>2, RunRows, Tables
  <2>5. row.status = NewStatus(p) /\ row.booking = instances[i].booking
    BY <2>3, <2>4 DEF InstanceRow
  <2>6. /\ instances'[i] = row /\ \A j \in Instance \ {i} : instances'[j] = instances[j]
    BY <1>3, <2>1, <2>2, <2>3 DEF SetStep, TypeInv, TypeOK
  <2>7. Running(i)' => IsOpen(i)' \/ Concluding(r, i)
    BY <2>2, <2>5, <2>6 DEF IsOpen, NewStatus, Closed, Concluding
  <2>8. ASSUME NEW j \in Instance, Running(j)'
        PROVE  /\ Running(j) /\ instances'[j].booking = instances[j].booking
               /\ \/ IsOpen(j)' \/ Concluding(r, j)
                  \/ Running(j) /\ ~IsOpen(j)
    <3>1. CASE j = i
      BY <1>3, <2>1, <2>5, <2>6, <2>7, <2>8, <3>1
    <3>2. CASE j # i
      BY <2>6, <2>8, <3>2 DEF Running, IsOpen
    <3>3. QED
      BY <3>1, <3>2
  <2>9. RightBooking(r)'
    BY <2>2 DEF RightBooking
  <2>10. QED
    BY <1>1, <1>3, <2>1, <2>8, <2>9, OwnVerdict DEF Advance
<1>4. QED
  BY <1>2, <1>3 DEF UpdateStep

LEMMA TaskStatementsVerdict ==
    ASSUME TypeInv, VerdictInv, NEW p \in Request, GetActiveTask(p) \/ CompleteTask(p)
    PROVE  VerdictInv'
<1>1. /\ req[p].pc \in {"active_task", "complete_task"} /\ req[p] \in Local
      /\ UNCHANGED <<instances, outcome>>
  BY DEF GetActiveTask, CompleteTask, At, TypeInv, runVars
<1>2. CASE GiveUp(p)
  BY <1>1, <1>2, GiveUpVerdict
<1>3. CASE Advance(p, AfterTask(p)) /\ UNCHANGED cutShort
  <2>1. PICK r : r = [req[p] EXCEPT !.pc = AfterTask(p)]
    OBVIOUS
  <2>2. /\ r.instance = req[p].instance /\ r.closing = req[p].closing
        /\ r.pc = IF r.closing THEN "complete" ELSE "new_task"
        /\ r.pc # "entity"
    BY <1>1, <2>1 DEF Local, AfterTask
  <2>3. \A j \in Instance : Concluding(req[p], j) => Concluding(r, j)
    BY <2>2 DEF Concluding
  <2>4. QED
    BY <1>1, <1>3, <2>1, <2>2, <2>3, QuietVerdict DEF Advance
<1>4. ASSUME NEW t, Goto(p, [req[p] EXCEPT !.pc = "complete_task", !.task = t]),
             UNCHANGED cutShort
      PROVE  VerdictInv'
  <2>1. PICK r : r = [req[p] EXCEPT !.pc = "complete_task", !.task = t]
    OBVIOUS
  <2>2. r.instance = req[p].instance /\ r.closing = req[p].closing /\ r.pc = "complete_task"
    BY <1>1, <2>1 DEF Local
  <2>3. \A j \in Instance : Concluding(req[p], j) => Concluding(r, j)
    BY <2>2 DEF Concluding
  <2>4. QED
    BY <1>1, <1>4, <2>1, <2>2, <2>3, QuietVerdict
<1>5. QED
  BY <1>2, <1>3, <1>4 DEF GetActiveTask, CompleteTask, runVars

LEMMA CompleteInstanceVerdict ==
    ASSUME TypeInv, VerdictInv, NEW p \in Request, CompleteInstance(p)
    PROVE  VerdictInv'
<1>1. /\ req[p].pc = "complete" /\ req[p] \in Local /\ UNCHANGED outcome /\ req[p].closing
  BY DEF CompleteInstance, At, TypeInv, Holds
<1>2. PICK i : i = req[p].instance
  OBVIOUS
<1>3. CASE GiveUp(p) /\ UNCHANGED instances
  BY <1>1, <1>3, GiveUpVerdict
<1>4. CASE /\ Running(i) /\ SetCompleted(i) /\ UNCHANGED cutShort
           /\ Goto(p, [req[p] EXCEPT !.pc = "entity", !.booking = instances[i].booking])
  <2>1. PICK r, row :
          /\ r = [req[p] EXCEPT !.pc = "entity", !.booking = instances[i].booking]
          /\ row = [instances[i] EXCEPT !.status = "completed", !.done = TRUE]
    OBVIOUS
  <2>2. /\ r.pc = "entity" /\ r.instance = i /\ r.closing /\ r.booking = instances[i].booking
        /\ i \in Instance
    BY <1>1, <1>2, <2>1, OwnInstance DEF Local, Moving
  <2>3. instances[i] \in InstanceRow
    BY <1>4, <2>2, RunRows, Tables
  <2>4. /\ instances'[i] = row /\ row.booking = instances[i].booking
        /\ \A j \in Instance \ {i} : instances'[j] = instances[j]
    BY <1>4, <2>1, <2>2, <2>3 DEF SetCompleted, TypeInv, TypeOK, InstanceRow
  <2>5. RightBooking(r)'
    BY <2>2, <2>4 DEF RightBooking
  <2>6. \A j \in Instance : Concluding(req[p], j) => Concluding(r, j)
    BY <1>1, <1>2, <2>2 DEF Concluding
  <2>7. Concluding(r, i)
    BY <2>2 DEF Concluding
  <2>8. ASSUME NEW j \in Instance, Running(j)'
        PROVE  /\ Running(j) /\ instances'[j].booking = instances[j].booking
               /\ \/ IsOpen(j)' \/ Concluding(r, j)
                  \/ Running(j) /\ ~IsOpen(j)
    <3>1. CASE j = i
      BY <1>4, <2>4, <2>7, <3>1
    <3>2. CASE j # i
      BY <2>4, <2>8, <3>2 DEF Running, IsOpen
    <3>3. QED
      BY <3>1, <3>2
  <2>9. QED
    BY <1>1, <1>4, <2>1, <2>5, <2>6, <2>8, OwnVerdict
<1>5. QED
  BY <1>2, <1>3, <1>4 DEF CompleteInstance

LEMMA UpdateEntityVerdict ==
    ASSUME TypeInv, VerdictInv, NEW p \in Request, UpdateEntityStatus(p)
    PROVE  VerdictInv'
<1>1. /\ req[p].pc = "entity" /\ req[p] \in Local /\ UNCHANGED <<instances, cutShort>>
      /\ Advance(p, "history") /\ req[p].booking \in Booking
      /\ outcome' = [outcome EXCEPT ![req[p].booking] = EntityStatus(p)]
  BY DEF UpdateEntityStatus, At, TypeInv, Holds
<1>2. PICK r : r = [req[p] EXCEPT !.pc = "history"]
  OBVIOUS
<1>3. r.pc = "history"
  BY <1>1, <1>2 DEF Local
<1>4. EntityStatus(p) # "pending"
  BY DEF EntityStatus
<1>5. /\ outcome'[req[p].booking] # "pending"
      /\ \A b \in Booking : outcome[b] # "pending" => outcome'[b] # "pending"
  BY <1>1, <1>4 DEF TypeInv, TypeOK
<1>6. \A j \in Instance : /\ Running(j)' <=> Running(j)
                          /\ IsOpen(j)' <=> IsOpen(j)
                          /\ instances'[j].booking = instances[j].booking
  BY <1>1 DEF Running, IsOpen
<1>7. ASSUME NEW j \in Instance, Concluding(req[p], j), Running(j)'
      PROVE  outcome'[instances'[j].booking] # "pending"
  BY <1>1, <1>5, <1>6, <1>7 DEF VerdictInv, RightBooking, Concluding
<1>8. RightBooking(r)'
  BY <1>3 DEF RightBooking
<1>9. QED
  BY <1>1, <1>2, <1>5, <1>6, <1>7, <1>8, OwnVerdict DEF Advance

\* Edits, whatever their cascades take, and crashes, which mark what they
\* leave half done.
LEMMA AroundVerdict ==
    ASSUME TypeInv, VerdictInv,
           \/ \E p \in Admin : EditTemplates(p) \/ FinishEdits(p)
           \/ EditStaff \/ Crash \/ UNCHANGED vars
    PROVE  VerdictInv'
<1>1. CASE /\ UNCHANGED <<req, cutShort, outcome>>
           /\ \A i \in Instance : Running(i)' => Running(i) /\ instances'[i] = instances[i]
  <2>1. VerdictAwaited'
    BY <1>1 DEF VerdictInv, VerdictAwaited, HasOutcome, IsOpen
  <2>2. ASSUME NEW p \in Request, req'[p].pc = "entity", Running(req[p].instance)'
        PROVE  req'[p].booking = instances'[req'[p].instance].booking
    <3>1. PICK r : r = req[p] /\ r = req'[p]
      BY <1>1
    <3>2. r.instance \in Instance /\ RightBooking(r) /\ r.pc = "entity" /\ Running(r.instance)'
      BY <2>2, <3>1 DEF VerdictInv, TypeInv, Holds, Moving, Running
    <3>3. QED
      BY <1>1, <3>1, <3>2 DEF RightBooking
  <2>3. QED
    BY <2>1, <2>2 DEF VerdictInv, RightBooking
<1>2. ASSUME NEW goneSteps, NEW goneWorkflows, InstancesDeleted(goneSteps, goneWorkflows)
      PROVE  VerdictInv'
  <2>1. UNCHANGED outcome
    BY <1>2 DEF InstancesDeleted
  <2>2. QED
    BY <1>1, <1>2, <2>1, CascadeTakes DEF OnlyTaken
<1>3. ASSUME NEW p \in Admin, EditTemplates(p) \/ FinishEdits(p) PROVE VerdictInv'
  BY <1>1, <1>2, <1>3 DEF EditTemplates, FinishEdits, runVars, Running
<1>4. CASE EditStaff \/ UNCHANGED vars
  BY <1>1, <1>4 DEF EditStaff, vars, runVars, Running
<1>5. CASE Crash
  <2>1. /\ req' = [p \in Request |-> Idle] /\ UNCHANGED <<instances, outcome>>
        /\ cutShort' = cutShort \cup {req[p].instance : p \in {q \in Request : HasWritten(q)}}
    BY <1>5 DEF Crash
  <2>2. ASSUME NEW i \in Instance \ cutShort', Running(i)', ~IsOpen(i)' PROVE HasOutcome(i)'
    <3>1. i \notin cutShort /\ Running(i) /\ ~IsOpen(i)
      BY <2>1, <2>2 DEF Running, IsOpen
    <3>2. \A p \in Request : ~Concluding(req[p], i)
      BY <2>1, <2>2 DEF Concluding, HasWritten
    <3>3. QED
      BY <2>1, <3>1, <3>2 DEF VerdictInv, VerdictAwaited, HasOutcome
  <2>3. \A p \in Request : req'[p].pc = "idle"
    BY <2>1 DEF Idle
  <2>4. QED
    BY <2>2, <2>3 DEF VerdictInv, VerdictAwaited, RightBooking
<1>6. QED
  BY <1>3, <1>4, <1>5

\* In every interleaving, with edits and crashes, a closed instance has
\* given its booking an outcome, or a handler is between the statements
\* that close it (UpdateStep) and that write the outcome
\* (UpdateEntityStatus), unless a handler failed or died on the instance.
THEOREM VerdictNeverForgotten == Spec => []VerdictAwaited
<1>1. Init => VerdictInv
  <2> SUFFICES ASSUME Init PROVE VerdictInv
    OBVIOUS
  <2>1. \A p \in Request : req[p].pc = "idle"
    BY DEF Init, Idle
  <2>2. \A i \in Instance : ~Running(i)
    BY RowsInTable DEF Init, Running
  <2>3. QED
    BY <2>1, <2>2 DEF VerdictInv, VerdictAwaited, RightBooking
<1>2. TypeInv /\ VerdictInv /\ [Next]_vars => VerdictInv'
  <2> SUFFICES ASSUME TypeInv, VerdictInv, [Next]_vars PROVE VerdictInv'
    OBVIOUS
  <2>1. ASSUME NEW p \in Request,
               (\E b \in Booking : Initiate(p, b)) \/ ProcessAction(p) \/ Continue(p)
        PROVE  VerdictInv'
    BY <2>1, UndecidedVerdict, CreateInstanceVerdict, UpdateStepVerdict, TaskStatementsVerdict,
       CompleteInstanceVerdict, UpdateEntityVerdict DEF Continue
  <2>2. QED
    BY <2>1, AroundVerdict DEF Next
<1>3. VerdictInv => VerdictAwaited
  BY DEF VerdictInv
<1>4. QED
  BY <1>1, <1>2, <1>3, InitTyped, NextTyped, PTL DEF Spec
===============================================================================
