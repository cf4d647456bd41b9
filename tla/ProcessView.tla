----------------------------- MODULE ProcessView -----------------------------
(***************************************************************************)
(* The Apps and Processes pages.  A pass lists the processes of the        *)
(* machine, reads each in turn, files every one under the program that     *)
(* launched it and picks out those of each app and those of the agent      *)
(* itself (src/process_tree.go, src/processes.go, src/agent_cost.go and    *)
(* the two collectProcesses).  The machine does not stand still under a    *)
(* pass: processes start and exit between two reads, and a process id is   *)
(* used again.  Linux gives an orphan to init; Windows leaves it the       *)
(* number of a parent that is gone.                                        *)
(***************************************************************************)
EXTENDS Integers, Sequences, FiniteSets, SequencesExt

CONSTANTS Pids,        \* process ids: 1 is init or System, 2 the agent
          MaxAncestry, \* processMaxAncestry
          MaxForks     \* bound: processes that start after the first four

\* What is assumed of the constants.
ProcessViewAssumption ==
  /\ 1..4 \subseteq Pids /\ Pids \subseteq Nat \ {0}
  /\ MaxAncestry \in Nat /\ MaxAncestry > 1 /\ MaxForks \in Nat

VARIABLES
  windows,  \* the platform
  proc,     \* what runs under each process id
  forks,    \* processes started, which is also the time
  pass,     \* the pass under way: where it is and the rows it has read
  view      \* what the last pass published

vars == <<windows, proc, forks, pass, view>>

Agent == 2
Nothing == 0
Gone == [alive |-> FALSE, born |-> 0, ppid |-> 0, name |-> "", line |-> {}]

\* bash stands for every name of processLauncherBoundaries.
Names == {"bash", "code"}
IsLauncherBoundary(name) == name = "bash"

\* `line` is history: the births of the process and of all it descends from.
Start(p, b, n, up) ==
  [alive |-> TRUE, born |-> b, ppid |-> p, name |-> n, line |-> up \cup {b}]
Live == {p \in Pids : proc[p].alive}
Idle == [at |-> "idle", todo |-> {}, listed |-> <<>>, rows |-> <<>>, handed |-> {}]
NoView == [tree |-> <<>>, apps |-> <<>>, agent |-> {}, handed |-> {}]

Init ==
  /\ windows \in BOOLEAN
  /\ \E n \in [3..4 -> Names] :
       proc = [p \in Pids |-> IF p = 1 THEN Start(0, 1, "bash", {})
                              ELSE IF p = Agent THEN Start(1, 2, "code", {1})
                              ELSE IF p = 3 THEN Start(Agent, 3, n[3], {1, 2})
                              ELSE IF p = 4 THEN Start(3, 4, n[4], 1..3) ELSE Gone]
  /\ forks = 4 /\ pass = Idle /\ view = NoView

-----------------------------------------------------------------------------
(* The machine.                                                             *)

\* Ids that change hands while a pass reads them are remembered.
Hands(p) == IF pass.at = "idle" THEN pass ELSE [pass EXCEPT !.handed = @ \cup {p}]

Fork(p, c, n) ==
  /\ p \in Live /\ c \notin Live /\ forks < 4 + MaxForks
  /\ forks' = forks + 1
  /\ proc' = [proc EXCEPT ![c] = Start(p, forks', n, proc[p].line)]
  /\ pass' = Hands(c) /\ view' = NoView /\ UNCHANGED windows

Exit(c) ==
  /\ c \in Live \ {1, Agent}
  /\ proc' = [p \in Pids |->
       IF p = c THEN Gone
       ELSE IF ~windows /\ proc[p].ppid = c THEN [proc[p] EXCEPT !.ppid = 1] ELSE proc[p]]
  /\ pass' = Hands(c) /\ view' = NoView /\ UNCHANGED <<windows, forks>>

-----------------------------------------------------------------------------
(* Reading.  Windows takes names and parents from one snapshot and opens    *)
(* each process for its creation time afterwards; Linux reads all of a      *)
(* process at once, in the order of the directory.                          *)

List ==
  /\ pass.at = "idle"
  /\ pass' = [Idle EXCEPT !.at = "read", !.todo = Live, !.listed = proc]
  /\ view' = NoView /\ UNCHANGED <<windows, proc, forks>>

Row(p, source, created) ==
  [pid |-> p, ppid |-> source.ppid, name |-> source.name, born |-> source.born,
   line |-> source.line, created |-> created]

Added(p, row) ==
  [q \in DOMAIN pass.rows \cup {p} |-> IF q = p THEN row ELSE pass.rows[q]]

\* A protected or exited Windows process keeps its row without a creation time.
Read(protected) ==
  /\ pass.at = "read" /\ pass.todo # {}
  /\ protected => windows
  /\ LET p == Min(pass.todo)
         created == IF protected \/ ~proc[p].alive THEN Nothing ELSE proc[p].born
     IN pass' = [pass EXCEPT !.todo = @ \ {p},
          !.rows = IF windows THEN Added(p, Row(p, pass.listed[p], created))
                   ELSE IF proc[p].alive THEN Added(p, Row(p, proc[p], proc[p].born)) ELSE @]
  /\ view' = NoView /\ UNCHANGED <<windows, proc, forks>>

-----------------------------------------------------------------------------
(* Building the page from the rows of one pass.                             *)

\* Mutant of WindowsLiveParent: the number is taken for the process.
WindowsLiveParentAnyAge(rows, p) ==
  IF rows[p].ppid \in DOMAIN rows THEN rows[p].ppid ELSE Nothing

\* A parent cannot be younger than its child.
WindowsLiveParent(rows, p) ==
  LET up == rows[p].ppid
  IN IF \/ up \notin DOMAIN rows
        \/ rows[up].created # Nothing /\ rows[p].created # Nothing
           /\ rows[up].created > rows[p].created
     THEN Nothing ELSE up

\* A parent that is not in this pass is none.
Parent(rows, p) ==
  LET up == IF windows THEN WindowsLiveParent(rows, p) ELSE rows[p].ppid
  IN IF up = p \/ up \notin DOMAIN rows THEN Nothing ELSE up

Parents(rows) == [p \in DOMAIN rows |-> Parent(rows, p)]

\* The ancestry from p up, p first, up to a link that would close a loop.
Chain(up, p) ==
  LET walk[n \in 1..MaxAncestry] ==
        IF n = 1 THEN <<p>>
        ELSE LET below == walk[n - 1]
                 q == up[Last(below)]
             IN IF q = Nothing \/ q \in ToSet(below) THEN below ELSE Append(below, q)
  IN walk[MaxAncestry]

\* Coming down from the top, the first that does work of its own.
LauncherIndex(rows, up, p) ==
  LET chain == Chain(up, p)
      own == {i \in DOMAIN chain : ~IsLauncherBoundary(rows[chain[i]].name)}
  IN IF own = {} THEN p ELSE chain[Max(own)]

\* The rows, each with its parent, its number of children and its launcher.
AnnotateProcessTree(rows) ==
  LET up == Parents(rows)
  IN [p \in DOMAIN rows |->
       [row |-> rows[p], parent |-> up[p],
        children |-> Cardinality({q \in DOMAIN rows : up[q] = p}),
        launcher |-> LauncherIndex(rows, up, p)]]

\* One app for every name a launcher has, with the processes it merges.
AggregateByApp(tree) ==
  LET key(p) == tree[tree[p].launcher].row.name
  IN [name \in {key(p) : p \in DOMAIN tree} |-> {p \in DOMAIN tree : key(p) = name}]

\* The agent and every live descendant: what a search down from the agent reaches.
AgentSubtree(tree) ==
  LET K == DOMAIN tree
      down(S) == \A p \in K : tree[p].parent \in S => p \in S
  IN IF Agent \notin K THEN {}
     ELSE {p \in K : \A S \in SUBSET K : Agent \in S /\ down(S) => p \in S}

BuildProcessSet ==
  /\ pass.at = "read" /\ pass.todo = {}
  /\ LET tree == AnnotateProcessTree(pass.rows)
     IN view' = [tree |-> tree, apps |-> AggregateByApp(tree),
                 agent |-> AgentSubtree(tree), handed |-> pass.handed]
  /\ pass' = Idle /\ UNCHANGED <<windows, proc, forks>>

Next ==
  \/ \E p, c \in Pids, n \in Names : Fork(p, c, n)
  \/ \E c \in Pids : Exit(c)
  \/ List
  \/ \E protected \in BOOLEAN : Read(protected)
  \/ BuildProcessSet

Spec == Init /\ [][Next]_vars

-----------------------------------------------------------------------------
(* Properties.                                                              *)

Certain(p) == p \notin view.handed /\ view.tree[p].row.created # Nothing

\* p and all above it, however far up.
Ancestry(tree, p) ==
  LET K == DOMAIN tree
      up(S) == \A q \in S : tree[q].parent # Nothing => tree[q].parent \in S
  IN {a \in K : \A S \in SUBSET K : p \in S /\ up(S) => a \in S}

\* A process is only ever filed under, and counted in the agent's cost by, one
\* it descends from, whatever became of the ids in between: unless an id on the
\* way changed hands while this very pass read it, or its age was not readable
\* (windowsLiveParent, process_tree.go:84-86).
FiledUnderAncestor ==
  \A p \in DOMAIN view.tree :
    LET up == [q \in DOMAIN view.tree |-> view.tree[q].parent]
        line == view.tree[p].row.line
    IN /\ (\A q \in ToSet(Chain(up, p)) : Certain(q)) =>
            view.tree[view.tree[p].launcher].row.born \in line
       /\ p \in view.agent /\ (\A q \in Ancestry(view.tree, p) : Certain(q)) =>
            view.tree[Agent].row.born \in line

\* A shell, a terminal or a service host is shown as an app only for processes
\* that have nothing but such processes above them, loops of ids included, and
\* every process counts in exactly one app (process_tree.go:124-126).
NoShellTakesTheBlame ==
  /\ \A p \in DOMAIN view.tree :
       LET row(q) == view.tree[q].row
           parent == view.tree[p].parent
       IN IsLauncherBoundary(row(view.tree[p].launcher).name) =>
            /\ IsLauncherBoundary(row(p).name)
            /\ parent # Nothing => IsLauncherBoundary(row(parent).name)
  /\ \A p \in DOMAIN view.tree : Cardinality({a \in DOMAIN view.apps : p \in view.apps[a]}) = 1
=============================================================================
