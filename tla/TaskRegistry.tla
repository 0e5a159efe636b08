---------------------------- MODULE TaskRegistry ----------------------------
(***************************************************************************)
(* aiolab.tasks.TaskRegistry: background tasks, owned until their done     *)
(* callback has run, drained or cancelled when the registry is closed.     *)
(*                                                                         *)
(* A task that ends and its _on_done callback are two steps, with the      *)
(* turns of others between them.  gather sees a task after _on_done has,   *)
(* because its own callback was added later; cancel_and_wait only asks     *)
(* whether a task is done.                                                 *)
(***************************************************************************)
EXTENDS Naturals, FiniteSets

CONSTANTS
  Tasks,        \* tasks that may be spawned, by the application or by each other
  Closers,      \* one drain, aclose or __aexit__ call each
  Operations    \* what Closers call: "drain", "aclose", "exit"

\* "exit" is __aexit__ after a body without an exception; with one it is aclose.
ASSUME RegistryAssumption ==
  /\ IsFiniteSet(Tasks)
  /\ Operations \subseteq {"drain", "aclose", "exit"}

VARIABLES
  tasks,       \* _tasks
  closed,      \* _closed
  completed,   \* completed
  failed,      \* failed, the length of errors
  task,        \* per task: "none" before it is spawned, running, or how it ended
  asked,       \* tasks that aclose, or a cancelled gather, has cancelled
  op,          \* per closer: what it called
  pc,          \* per closer: where it is
  awaiting,    \* per closer: the tasks it gathers or awaits
  thrown,      \* closers whose gather is reported as cancelled
  owed         \* history: per call of drain, the tasks that ran when it was made
               \* or were spawned before it returned

registryVars == <<tasks, closed, completed, failed>>
closerVars == <<op, pc, awaiting, thrown>>
vars == <<registryVars, task, asked, closerVars, owed>>

Init ==
  /\ tasks = {}
  /\ closed = FALSE
  /\ completed = 0
  /\ failed = 0
  /\ task = [k \in Tasks |-> "none"]
  /\ asked = {}
  /\ op = [c \in Closers |-> "none"]
  /\ pc = [c \in Closers |-> "idle"]
  /\ awaiting = [c \in Closers |-> {}]
  /\ thrown = {}
  /\ owed = [c \in Closers |-> {}]

Running == {k \in Tasks : task[k] = "running"}
Ended == {k \in Tasks : task[k] \in {"ok", "error", "cancelled"}}

-----------------------------------------------------------------------------
(* spawn, _on_done *)

Accepts == ~closed

Spawn(k) ==
  /\ task[k] = "none"
  /\ Accepts
  /\ task' = [task EXCEPT ![k] = "running"]
  /\ tasks' = tasks \cup {k}
  /\ owed' = [c \in Closers |-> IF pc[c] = "gathering" THEN owed[c] \cup {k} ELSE owed[c]]
  /\ UNCHANGED <<closed, completed, failed, asked, closerVars>>

\* A task may raise or return although it has been cancelled.
TaskEnds(k) ==
  /\ task[k] = "running"
  /\ \E how \in {"ok", "error", "cancelled"} : task' = [task EXCEPT ![k] = how]
  /\ UNCHANGED <<registryVars, asked, closerVars, owed>>

\* Mutant: a cancelled task is counted as failed.
OnDoneCountsCancelled(k) ==
  /\ k \in tasks \cap Ended
  /\ tasks' = tasks \ {k}
  /\ completed' = IF task[k] = "ok" THEN completed + 1 ELSE completed
  /\ failed' = IF task[k] # "ok" THEN failed + 1 ELSE failed
  /\ UNCHANGED <<closed, task, asked, closerVars, owed>>
OnDone(k) ==
  /\ k \in tasks \cap Ended
  /\ tasks' = tasks \ {k}
  /\ completed' = IF task[k] = "ok" THEN completed + 1 ELSE completed
  /\ failed' = IF task[k] = "error" THEN failed + 1 ELSE failed
  /\ UNCHANGED <<closed, task, asked, closerVars, owed>>

-----------------------------------------------------------------------------
(* drain, aclose, __aexit__ *)

Moves(c, state) == pc' = [pc EXCEPT ![c] = state]

\* drain's look at _tasks; __aexit__ closes the registry at once when it is over.
DrainedAfterOne(c) == tasks = {} \/ pc[c] = "gathering"     \* mutant: no loop
Drained(c) == tasks = {}

GatherOrReturn(c, what) ==
  IF Drained(c)
  THEN /\ Moves(c, "returned")
       /\ closed' = (closed \/ what = "exit")
       /\ UNCHANGED awaiting
  ELSE /\ Moves(c, "gathering")
       /\ awaiting' = [awaiting EXCEPT ![c] = tasks]
       /\ UNCHANGED closed

Drain(c, what) ==
  /\ pc[c] = "idle"
  /\ what \in {"drain", "exit"}
  /\ op' = [op EXCEPT ![c] = what]
  /\ owed' = [owed EXCEPT ![c] = tasks]
  /\ GatherOrReturn(c, what)
  /\ UNCHANGED <<tasks, completed, failed, task, asked, thrown>>

Gathered(c) ==
  /\ pc[c] = "gathering"
  /\ awaiting[c] \cap tasks = {}
  /\ c \notin thrown
  /\ GatherOrReturn(c, op[c])
  /\ UNCHANGED <<tasks, completed, failed, task, asked, op, thrown, owed>>

GatherCancelled(c) ==
  /\ pc[c] = "gathering"
  /\ awaiting[c] \cap tasks = {}
  /\ c \in thrown
  /\ Moves(c, "cancelled")
  /\ UNCHANGED <<registryVars, task, asked, op, awaiting, thrown, owed>>

\* Mutants: wait, and do not cancel; cancel, and do not wait.
AcloseWaits(c) ==
  /\ pc[c] = "idle"
  /\ "aclose" \in Operations
  /\ op' = [op EXCEPT ![c] = "aclose"]
  /\ closed' = TRUE
  /\ awaiting' = [awaiting EXCEPT ![c] = tasks \cap Running]
  /\ Moves(c, IF tasks \cap Running = {} THEN "returned" ELSE "unwinding")
  /\ UNCHANGED <<tasks, completed, failed, task, asked, thrown, owed>>
AcloseReturns(c) ==
  /\ pc[c] = "idle"
  /\ "aclose" \in Operations
  /\ op' = [op EXCEPT ![c] = "aclose"]
  /\ closed' = TRUE
  /\ asked' = asked \cup (tasks \cap Running)
  /\ Moves(c, "returned")
  /\ UNCHANGED <<tasks, completed, failed, task, awaiting, thrown, owed>>

\* cancel_and_wait skips the tasks that are done already.
Aclose(c) ==
  /\ pc[c] = "idle"
  /\ "aclose" \in Operations
  /\ op' = [op EXCEPT ![c] = "aclose"]
  /\ closed' = TRUE
  /\ asked' = asked \cup (tasks \cap Running)
  /\ awaiting' = [awaiting EXCEPT ![c] = tasks \cap Running]
  /\ Moves(c, IF tasks \cap Running = {} THEN "returned" ELSE "unwinding")
  /\ UNCHANGED <<tasks, completed, failed, task, thrown, owed>>

Unwound(c) ==
  /\ pc[c] = "unwinding"
  /\ awaiting[c] \subseteq Ended
  /\ Moves(c, "returned")
  /\ UNCHANGED <<registryVars, task, asked, op, awaiting, thrown, owed>>

\* The application cancels a closer: gather cancels what it gathers and
\* reports it when that has ended, cancel_and_wait absorbs it.
Cancel(c) ==
  /\ pc[c] = "gathering"
  /\ c \notin thrown
  /\ thrown' = thrown \cup {c}
  /\ asked' = asked \cup (awaiting[c] \cap Running)
  /\ UNCHANGED <<registryVars, task, op, pc, awaiting, owed>>

LoopStep ==
  \/ \E k \in Tasks : OnDone(k)
  \/ \E c \in Closers : Gathered(c) \/ GatherCancelled(c) \/ Unwound(c)

Next ==
  \/ LoopStep
  \/ \E k \in Tasks : Spawn(k) \/ TaskEnds(k)
  \/ \E c \in Closers : Aclose(c) \/ Cancel(c)
  \/ \E c \in Closers, what \in Operations : Drain(c, what)

Spec == Init /\ [][Next]_vars

-----------------------------------------------------------------------------
(* Properties *)

\* Every variable has its type.
TypeOK ==
  /\ tasks \subseteq Tasks
  /\ closed \in BOOLEAN
  /\ completed \in Nat
  /\ failed \in Nat
  /\ completed + failed <= Cardinality(Tasks)
  /\ task \in [Tasks -> {"none", "running", "ok", "error", "cancelled"}]
  /\ asked \subseteq Tasks
  /\ op \in [Closers -> {"none"} \cup Operations]
  /\ pc \in [Closers -> {"idle", "gathering", "unwinding", "returned", "cancelled"}]
  /\ awaiting \in [Closers -> SUBSET Tasks]
  /\ thrown \subseteq Closers
  /\ owed \in [Closers -> SUBSET Tasks]

\* The books balance: every task spawned is owned, or was counted once, or was
\* cancelled; a task that runs is owned, so that it is not collected mid-flight.
Reconciles ==
  /\ Running \subseteq tasks
  /\ completed = Cardinality({k \in Ended \ tasks : task[k] = "ok"})
  /\ failed = Cardinality({k \in Ended \ tasks : task[k] = "error"})

\* Nothing outlives the scope: once aclose or __aexit__ has returned no task
\* runs, then or later, with other closers and spawns racing it.
NothingOutlives ==
  \A c \in Closers : op[c] \in {"aclose", "exit"} /\ pc[c] = "returned" => Running = {}

\* drain waits "for everything currently running, including tasks they spawn".
DrainMeansAll ==
  \A c \in Closers : op[c] = "drain" /\ pc[c] = "returned" => owed[c] \subseteq Ended \ tasks
=============================================================================
