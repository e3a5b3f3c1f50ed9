------------------------------ MODULE Templates ------------------------------
(***************************************************************************)
(* The administration of approval templates: the workflows of one          *)
(* organisation, their steps, the transitions between the steps, and the   *)
(* endpoints that edit them.                                               *)
(*                                                                         *)
(* An edit of an existing row is two statements: it reads the row and      *)
(* writes every column back, those that the request does not give as they  *)
(* were read.  Names, descriptions and conditions are left out.            *)
(***************************************************************************)
EXTENDS Integers, FiniteSets

CONSTANTS
    Workflow,     \* identities that workflows can get, never reused
    Seeded,       \* the workflow that is there from the start
    LastStep,     \* the steps are numbered 0 .. LastStep
    SeedSteps,    \* how many of them the seeded workflow has, in a chain
    LastLink,     \* transitions are numbered 1 .. LastLink
    Role, NoRole,
    Admin,        \* the requests that edit templates
    MaxEdits      \* bound: edits of templates and of staff in a behaviour

ASSUME TemplatesAssumption ==
    /\ Seeded \in Workflow
    /\ LastStep \in Nat /\ LastLink \in Nat /\ MaxEdits \in Nat
    /\ SeedSteps \in 2 .. LastStep + 1
    /\ SeedSteps - 1 \in 1 .. LastLink
    /\ NoRole \notin Role

VARIABLES
    workflows,    \* the workflows table
    steps,        \* the workflow_steps table
    transitions,  \* the workflow_transitions table
    admin,        \* the local state of every edit in flight
    edits         \* how many edits were made (bounded)

templateVars == <<workflows, steps, transitions, admin, edits>>

-------------------------------------------------------------------------------
(***************************************************************************)
(* Rows.  A row that was never inserted, or was deleted, is a marker.      *)
(***************************************************************************)
Step == 0 .. LastStep
Transition == 1 .. LastLink

Unused  == [row |-> "unused"]
Deleted == [row |-> "deleted"]
InTable(row) == row \notin {Unused, Deleted}

WorkflowType == {"BOOKING_APPROVAL", "none"}
WorkflowRow == [type : WorkflowType, active : BOOLEAN]

StepRow == [workflow : Workflow, order : Step, initial : BOOLEAN,
            final : BOOLEAN]

\* The roles are those that may trigger the transition, in any order.
TransitionRow == [workflow : Workflow, from : Step, to : Step,
                  roles : SUBSET Role]

HasStep(s) == InTable(steps[s])
HasTransition(t) == InTable(transitions[t])

\* The UNIQUE constraints of the tables.
TypeIsFree(type, w) ==
    type # "none" =>
        \A v \in Workflow \ {w} :
            InTable(workflows[v]) => workflows[v].type # type

OrderIsFree(w, order, s) ==
    \A r \in Step \ {s} :
        HasStep(r) => ~(steps[r].workflow = w /\ steps[r].order = order)

-------------------------------------------------------------------------------
(***************************************************************************)
(* Queries.                                                                *)
(***************************************************************************)
\* The active workflow of the type; UNIQUE leaves one at most.
GetByType(type) ==
    {w \in Workflow : /\ InTable(workflows[w])
                      /\ workflows[w].type = type /\ workflows[w].active}

GetStepsByWorkflowID(w) == {s \in Step : HasStep(s) /\ steps[s].workflow = w}

GetValidTransitions(s) ==
    {t \in Transition : HasTransition(t) /\ transitions[t].from = s}

\* A first transition out of a step flagged initial, into the step of the
\* workflow that comes first among those it can lead to.
GetFirstActionStep(w) ==
    LET leads == {t \in Transition :
                     /\ HasTransition(t)
                     /\ steps[transitions[t].from].initial
                     /\ transitions[t].to \in GetStepsByWorkflowID(w)}
    IN  {t \in leads : \A u \in leads :
            steps[transitions[t].to].order <= steps[transitions[u].to].order}

-------------------------------------------------------------------------------
(***************************************************************************)
(* Edits in flight.  What is going to be written is fixed when the row is  *)
(* read: the columns that the request gives, the others as they were read. *)
(***************************************************************************)
NoEdit == [pc |-> "idle"]

Edit == [pc : {"workflow"}, id : Workflow, row : WorkflowRow]
        \cup [pc : {"step"}, id : Step, row : StepRow]
        \cup [pc : {"transition"}, id : Transition, row : TransitionRow]

MayEdit(p) == admin[p] = NoEdit /\ edits < MaxEdits
Counted == edits' = edits + 1

\* Any of the rows that a request can make of the row it read.
Read(p, pc, id, rows) ==
    /\ MayEdit(p) /\ Counted
    /\ \E row \in rows :
         admin' = [admin EXCEPT ![p] = [pc |-> pc, id |-> id, row |-> row]]

Written(p) == admin' = [admin EXCEPT ![p] = NoEdit]

-------------------------------------------------------------------------------
(***************************************************************************)
(* The statements.  A write finds the row gone when it was deleted since   *)
(* it was read, and then changes nothing.                                  *)
(***************************************************************************)
InsertWorkflow(w, type) ==
    /\ workflows[w] = Unused /\ TypeIsFree(type, w)
    /\ workflows' = [workflows EXCEPT ![w] = [type |-> type, active |-> TRUE]]

InsertStep(s, row) ==
    /\ steps[s] = Unused /\ OrderIsFree(row.workflow, row.order, s)
    /\ steps' = [steps EXCEPT ![s] = row]

InsertTransition(t, row) ==
    /\ transitions[t] = Unused /\ row.from # row.to
    /\ transitions' = [transitions EXCEPT ![t] = row]

WriteWorkflow(p) ==
    /\ admin[p].pc = "workflow"
    /\ workflows' = IF InTable(workflows[admin[p].id])
                    THEN [workflows EXCEPT ![admin[p].id] = admin[p].row]
                    ELSE workflows
    /\ Written(p)
    /\ UNCHANGED <<steps, transitions, edits>>

\* Refused when another step has the order.
WriteStep(p) ==
    /\ admin[p].pc = "step"
    /\ LET s == admin[p].id
           row == admin[p].row
       IN  steps' = IF HasStep(s) /\ OrderIsFree(row.workflow, row.order, s)
                    THEN [steps EXCEPT ![s] = row] ELSE steps
    /\ Written(p)
    /\ UNCHANGED <<workflows, transitions, edits>>

\* The steps it joins are not among the columns that are written.
WriteTransition(p) ==
    /\ admin[p].pc = "transition"
    /\ LET t == admin[p].id
       IN  transitions' =
             IF HasTransition(t)
             THEN [transitions EXCEPT ![t].roles = admin[p].row.roles]
             ELSE transitions
    /\ Written(p)
    /\ UNCHANGED <<workflows, steps, edits>>

SwitchOff(w) ==
    InTable(workflows[w]) /\ workflows' = [workflows EXCEPT ![w].active = FALSE]

\* The tables without these steps, and without any transition that joins
\* one of them or belongs to one of these workflows.
StepsDeleted(gone, owners) ==
    /\ steps' = [s \in Step |-> IF s \in gone THEN Deleted ELSE steps[s]]
    /\ transitions' =
         [t \in Transition |->
            IF /\ HasTransition(t)
               /\ \/ {transitions[t].from, transitions[t].to} \cap gone # {}
                  \/ transitions[t].workflow \in owners
            THEN Deleted ELSE transitions[t]]

RemoveWorkflow(w) ==
    /\ InTable(workflows[w])
    /\ workflows' = [workflows EXCEPT ![w] = Deleted]
    /\ StepsDeleted(GetStepsByWorkflowID(w), {w})

RemoveStep(s) == HasStep(s) /\ StepsDeleted({s}, {})

RemoveTransition(t) ==
    /\ HasTransition(t)
    /\ transitions' = [transitions EXCEPT ![t] = Deleted]

-------------------------------------------------------------------------------
(***************************************************************************)
(* The endpoints.  A row that an insert refers to is looked up first; the  *)
(* insert's foreign key asks for it again, so that the lookup only changes *)
(* the error.  Nothing asks that the two steps of a transition are steps   *)
(* of its workflow.                                                        *)
(***************************************************************************)
CreateWorkflow(p) ==
    /\ MayEdit(p) /\ Counted
    /\ \E w \in Workflow, type \in WorkflowType : InsertWorkflow(w, type)
    /\ UNCHANGED <<steps, transitions, admin>>

UpdateWorkflow(p) ==
    /\ \E w \in Workflow :
         /\ InTable(workflows[w])
         /\ Read(p, "workflow", w,
                 {[workflows[w] EXCEPT !.active = on] : on \in BOOLEAN})
    /\ UNCHANGED <<workflows, steps, transitions>>

DeactivateWorkflow(p) ==
    /\ MayEdit(p) /\ Counted
    /\ \E w \in Workflow : SwitchOff(w)
    /\ UNCHANGED <<steps, transitions, admin>>

DeleteWorkflow(p, w) ==
    MayEdit(p) /\ Counted /\ RemoveWorkflow(w) /\ UNCHANGED admin

CreateWorkflowStep(p) ==
    /\ MayEdit(p) /\ Counted
    /\ \E s \in Step, row \in StepRow :
         InTable(workflows[row.workflow]) /\ InsertStep(s, row)
    /\ UNCHANGED <<workflows, transitions, admin>>

\* One column at a time: giving several is giving them one after the other.
UpdateWorkflowStep(p) ==
    /\ \E s \in Step :
         /\ HasStep(s)
         /\ Read(p, "step", s,
                 {[steps[s] EXCEPT !.order = n] : n \in Step}
                 \cup {[steps[s] EXCEPT !.initial = on] : on \in BOOLEAN}
                 \cup {[steps[s] EXCEPT !.final = on] : on \in BOOLEAN})
    /\ UNCHANGED <<workflows, steps, transitions>>

DeleteWorkflowStep(p, s) ==
    MayEdit(p) /\ Counted /\ RemoveStep(s) /\ UNCHANGED <<workflows, admin>>

CreateWorkflowTransition(p) ==
    /\ MayEdit(p) /\ Counted
    /\ \E t \in Transition, row \in TransitionRow :
         /\ InTable(workflows[row.workflow]) /\ HasStep(row.from) /\ HasStep(row.to)
         /\ InsertTransition(t, row)
    /\ UNCHANGED <<workflows, steps, admin>>

UpdateWorkflowTransition(p) ==
    /\ \E t \in Transition :
         /\ HasTransition(t)
         /\ Read(p, "transition", t,
                 {[transitions[t] EXCEPT !.roles = rs] : rs \in SUBSET Role})
    /\ UNCHANGED <<workflows, steps, transitions>>

DeleteWorkflowTransition(p) ==
    /\ MayEdit(p) /\ Counted
    /\ \E t \in Transition : RemoveTransition(t)
    /\ UNCHANGED <<workflows, steps, admin>>

-------------------------------------------------------------------------------
(***************************************************************************)
(* The seed: one workflow whose steps form a chain, the first of them      *)
(* initial and the last final.                                             *)
(***************************************************************************)
TemplatesInit ==
    /\ workflows = [w \in Workflow |->
                      IF w = Seeded
                      THEN [type |-> "BOOKING_APPROVAL", active |-> TRUE]
                      ELSE Unused]
    /\ steps = [s \in Step |->
                  IF s < SeedSteps
                  THEN [workflow |-> Seeded, order |-> s, initial |-> s = 0,
                        final |-> s = SeedSteps - 1]
                  ELSE Unused]
    /\ \E roles \in [1 .. SeedSteps - 1 -> SUBSET Role \ {{}}] :
         transitions = [t \in Transition |->
                          IF t < SeedSteps
                          THEN [workflow |-> Seeded, from |-> t - 1, to |-> t,
                                roles |-> roles[t]]
                          ELSE Unused]
    /\ admin = [p \in Admin |-> NoEdit]
    /\ edits = 0

\* The edits that touch no row outside these tables, and the statements
\* that finish them.
StartEdit(p) ==
    \/ CreateWorkflow(p) \/ UpdateWorkflow(p) \/ DeactivateWorkflow(p)
    \/ CreateWorkflowStep(p) \/ UpdateWorkflowStep(p)
    \/ CreateWorkflowTransition(p) \/ UpdateWorkflowTransition(p)
    \/ DeleteWorkflowTransition(p)

FinishEdit(p) == WriteWorkflow(p) \/ WriteStep(p) \/ WriteTransition(p)

\* Rows refer to rows that are there, whatever was deleted under them.
TemplatesTypeOK ==
    /\ workflows \in [Workflow -> WorkflowRow \cup {Unused, Deleted}]
    /\ steps \in [Step -> StepRow \cup {Unused, Deleted}]
    /\ transitions \in [Transition -> TransitionRow \cup {Unused, Deleted}]
    /\ \A s \in Step : HasStep(s) => InTable(workflows[steps[s].workflow])
    /\ \A t \in Transition :
         HasTransition(t) =>
             /\ InTable(workflows[transitions[t].workflow])
             /\ HasStep(transitions[t].from) /\ HasStep(transitions[t].to)
    /\ admin \in [Admin -> Edit \cup {NoEdit}]
    /\ edits \in 0 .. MaxEdits
===============================================================================
