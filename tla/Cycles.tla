-------------------------------- MODULE Cycles --------------------------------
(***************************************************************************)
(* The cycles of a project (internal/cycles): which one is active, which   *)
(* one each task is in, and what ending a cycle carries over to the next.  *)
(*                                                                         *)
(* Ending a cycle is one transaction of two updates, each of which looks   *)
(* at the committed board of its own moment, and other requests commit in  *)
(* between.  A row trigger overwrites the cycle of a task that has a       *)
(* parent with the one the parent has at that moment; the order in which   *)
(* an update visits its rows is the database's choice, so the parent may   *)
(* still be in the old cycle.                                              *)
(***************************************************************************)
EXTENDS Steps

VARIABLES
  cycle,     \* tasks.cycle_id, by task: the position of the cycle
  active     \* the one open cycle; 1..active exist

cycleVars == <<cycle, active>>

CyclesInit ==
  /\ cycle = [t \in {} |-> 0]
  /\ active = 1

-----------------------------------------------------------------------------
(* Queries. *)

ListCycles     == 1..active
GetActiveCycle == active
GetCycle(c)    == {c} \cap ListCycles

InsertCycle == active + 1      \* and CloseCycle: the one before is not open any more

\* What an UPDATE that sets the cycle of the tasks in S to next may leave,
\* with tasks_enforce_cycle_cascade at every row.
Restamps(S, table, next) ==
  {after \in [S -> 1..next] :
     \A t \in S :
       LET up == row[t].parent
       IN  IF up = NoTask THEN after[t] = next
           ELSE after[t] \in {table[up], IF up \in S THEN after[up] ELSE table[up]}}

Restamped(table, after) == [t \in DOMAIN table |-> IF t \in DOMAIN after THEN after[t] ELSE table[t]]

OpenIn(table, c) == {t \in DOMAIN table : table[t] = c /\ row[t].state \notin Closed}

\* Every open feature of the cycle and all that is below it.
PartialFeatureSubtrees(c) ==
  UNION {Subtree(f) : f \in {t \in OpenIn(cycle, c) : row[t].type = "feature"}}

MoveNothing(table, from, to) == {table}       \* mutant: the second update is left out

MoveStandaloneNonDone(table, from, to) ==
  {Restamped(table, after) : after \in Restamps(OpenIn(table, from), table, to)}

-----------------------------------------------------------------------------
(* end_cycle.  It takes the cycle lock and the row of the active cycle and *)
(* holds both to the end; what it writes shows when it commits.            *)

EndingCycle == \E p \in Proc : request[p].pc \in {"closing", "ending"}

\* The first update looks for the subtrees to move ...
BeginEndCycle(p) ==
  /\ request[p] = Idle /\ ~ EndingCycle
  /\ Becomes(p, [pc |-> "closing", subtrees |-> PartialFeatureSubtrees(GetActiveCycle)])
  /\ UNCHANGED <<vars, step, cycleVars>>

\* ... waits for their rows, whatever becomes of them meanwhile, and moves
\* those that are left.
MovePartialFeatureSubtrees(p) ==
  /\ request[p].pc = "closing"
  /\ LET left == request[p].subtrees \cap Live
     IN  /\ \A t \in left : ~ KeyHeld(t)
         /\ \E moved \in Restamps(left, cycle, InsertCycle) :
              Becomes(p, [pc |-> "ending", moved |-> moved])
  /\ UNCHANGED <<vars, step, cycleVars>>

\* The second update and the commit; a row that changes after the update
\* looked, and that it does not take, is as good as changed after the commit.
FinishEndCycle(p) ==
  /\ request[p].pc = "ending"
  /\ LET table == Restamped(cycle, request[p].moved)
     IN  /\ \A t \in OpenIn(table, active) : ~ KeyHeld(t)
         /\ cycle' \in MoveStandaloneNonDone(table, active, InsertCycle)
  /\ active' = InsertCycle
  /\ Becomes(p, Idle)
  /\ UNCHANGED <<vars, step>>

(* create: the active cycle is read before the transaction that inserts    *)
(* the row; under a parent the trigger puts the parent's cycle in its      *)
(* place.  The foreign key then waits for whoever is ending that cycle.    *)

BeginCreate(p, ty, parent, a, claim, ses) ==
  /\ request[p] = Idle
  /\ parent \in Live \cup {NoTask}
  /\ Becomes(p, [pc |-> "creating", type |-> ty, parent |-> parent, user |-> a,
                 claim |-> claim, session |-> ses,
                 cycle |-> IF parent = NoTask THEN GetActiveCycle ELSE cycle[parent]])
  /\ UNCHANGED <<vars, step, cycleVars>>

InsertTask(p, t) ==
  /\ request[p].pc = "creating" /\ ~ InUse(t)
  /\ LET r == request[p]
     IN  /\ r.cycle = active => ~ EndingCycle
         /\ Create(t, r.type, r.parent, r.user, r.claim)
         /\ cycle' = [x \in Live' |-> IF x = t THEN r.cycle ELSE cycle[x]]
  /\ UNCHANGED active

\* A board operation's cascades.
CyclesFollow ==
  /\ cycle' = [t \in Live' |-> cycle[t]]
  /\ UNCHANGED active

-----------------------------------------------------------------------------
\* What the first update of the request that is ending the cycle moved.
MovedFirst == UNION {DOMAIN request[p].moved : p \in {q \in Proc : request[q].pc = "ending"}}

\* However other requests commit between the two updates, and whatever order
\* the rows are visited in: the end of a cycle leaves no top-level work behind
\* that is open then, nor an open child of a top-level feature that the first
\* update moved; and nothing moves ahead of its parent.
OpenWorkMovesOn ==
  [][active' # active =>
       \A t \in Live : cycle[t] = active =>
         /\ (row[t].parent = NoTask /\ row[t].state \notin Closed) => cycle'[t] = active'
         /\ (/\ row[t].parent \in MovedFirst /\ row[row[t].parent].parent = NoTask
             /\ cycle[row[t].parent] = active /\ row[t].state \notin Closed) => cycle'[t] = active'
         /\ (cycle'[t] = active' /\ row[t].parent # NoTask) => cycle'[row[t].parent] = active'
    ]_<<vars, cycleVars>>
=============================================================================
