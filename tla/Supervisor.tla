----------------------------- MODULE Supervisor -----------------------------
(***************************************************************************)
(* MAIN and its children (main.cpp, fork_work, fork_conn): it forks one    *)
(* process per WORK and then CONN, forks again whichever crashes, leaves   *)
(* those that exit with 10 alone, and ends them all when it is told to     *)
(* stop.  server.sh stops it: it sends SIGTERM once a second until MAIN is *)
(* gone.  A signal may come at any point, also just before waitpid.        *)
(***************************************************************************)
EXTENDS Integers

CONSTANTS WorkNum,    \* workers
          MaxCrashes  \* bound: crashes, failed starts and failed forks

ASSUME SupervisorAssumption == WorkNum \in Nat \ {0} /\ MaxCrashes \in Nat

Works == 0 .. WorkNum - 1
CONN == WorkNum
Slots == 0 .. WorkNum

VARIABLES
  main,    \* where MAIN is
  slot,    \* the slot a loop of MAIN is at, or whose process it has reaped
  g_stop,  \* MAIN's flag
  asked,   \* server.sh stop is running
  pid,     \* the table: TRUE where a slot's pid is not -1
  proc,    \* the process forked last for a slot
  term,    \* its g_stop
  inited,  \* a worker's head->inited, in shared memory
  crashes,
  tens     \* history: some process exited with 10 though nobody asked

table == <<pid, slot>>
children == <<proc, term, inited>>
supervisor_vars == <<main, table, g_stop, asked, children, crashes, tens>>

Running == {"starting", "up"}
Exited == {"ten", "crashed"}  \* zombies, by their exit status

SupervisorInit ==
  /\ main = "fork"
  /\ slot = 0
  /\ g_stop = FALSE
  /\ asked = FALSE
  /\ pid = [s \in Slots |-> FALSE]
  /\ proc = [s \in Slots |-> "none"]
  /\ term = [s \in Slots |-> FALSE]
  /\ inited = [w \in Works |-> FALSE]
  /\ crashes = 0
  /\ tens = FALSE

-----------------------------------------------------------------------------
(* MAIN. *)

\* fork_work, fork_conn.  A child inherits g_stop, which a SIGTERM may have
\* set since it was tested.
Fork(s) ==
  /\ pid' = [pid EXCEPT ![s] = ~g_stop]
  /\ IF g_stop THEN UNCHANGED <<proc, term, g_stop>>
     ELSE /\ proc' = [proc EXCEPT ![s] = "starting"]
          /\ g_stop' \in {FALSE, asked}
          /\ term' = [term EXCEPT ![s] = g_stop']

ForkAll ==
  /\ main = "fork"
  /\ Fork(slot)
  /\ slot' = IF slot = CONN THEN 0 ELSE slot + 1
  /\ main' = IF slot = CONN THEN "check" ELSE "fork"
  /\ UNCHANGED <<asked, inited, crashes, tens>>

\* BOOT_LOG(-1) ends MAIN, and only MAIN.
ForkFails ==
  /\ main \in {"fork", "refork"}
  /\ ~g_stop
  /\ crashes < MaxCrashes
  /\ crashes' = crashes + 1
  /\ main' = "exited"
  /\ UNCHANGED <<table, g_stop, asked, children, tens>>

Check ==
  /\ main = "check"
  /\ main' = IF g_stop THEN "kill" ELSE "wait"
  /\ slot' = 0
  /\ UNCHANGED <<g_stop, asked, pid, children, crashes, tens>>

\* waitpid returns a child.
Reap(s) == proc[s] \in Exited /\ proc' = [proc EXCEPT ![s] = "none"]

WaitExited(s) ==
  /\ main = "wait"
  /\ Reap(s)
  /\ IF proc[s] = "ten"
     THEN /\ pid' = [pid EXCEPT ![s] = FALSE]
          /\ main' = "check"
          /\ UNCHANGED slot
     ELSE /\ main' = "refork"
          /\ slot' = s
          /\ UNCHANGED pid
  /\ UNCHANGED <<g_stop, asked, term, inited, crashes, tens>>

\* ... -1: there is no child left.
WaitNoChild ==
  /\ main = "wait"
  /\ \A s \in Slots : proc[s] = "none"
  /\ main' = "check"
  /\ UNCHANGED <<table, g_stop, asked, children, crashes, tens>>

\* mutant: only CONN is forked again
ReforkConn ==
  /\ main = "refork"
  /\ IF slot = CONN THEN Fork(slot)
     ELSE pid' = [pid EXCEPT ![slot] = FALSE] /\ UNCHANGED <<proc, term, g_stop>>
  /\ main' = "check"
  /\ UNCHANGED <<slot, asked, inited, crashes, tens>>

\* mutant: the old pid is kept when the fork is given up because of g_stop
ReforkKeepsPid ==
  /\ main = "refork"
  /\ IF g_stop THEN UNCHANGED <<pid, proc, term, g_stop>> ELSE Fork(slot)
  /\ main' = "check"
  /\ UNCHANGED <<slot, asked, inited, crashes, tens>>

Refork ==
  /\ main = "refork"
  /\ Fork(slot)
  /\ main' = "check"
  /\ UNCHANGED <<slot, asked, inited, crashes, tens>>

\* kill(pid, SIGTERM), slot after slot, CONN last
KillAll ==
  /\ main = "kill"
  /\ term' = [term EXCEPT ![slot] = @ \/ (pid[slot] /\ proc[slot] \in Running)]
  /\ slot' = IF slot = CONN THEN 0 ELSE slot + 1
  /\ main' = IF slot = CONN THEN "drain" ELSE "kill"
  /\ UNCHANGED <<g_stop, asked, pid, proc, inited, crashes, tens>>

DrainExited(s) ==
  /\ main = "drain"
  /\ Reap(s)
  /\ pid' = [pid EXCEPT ![s] = FALSE]
  /\ UNCHANGED <<main, slot, g_stop, asked, term, inited, crashes, tens>>

DrainDone ==
  /\ main = "drain"
  /\ \A s \in Slots : ~pid[s]
  /\ main' = "done"
  /\ UNCHANGED <<table, g_stop, asked, children, crashes, tens>>

-----------------------------------------------------------------------------
(* server.sh stop, and the handler of SIGTERM. *)

Gone == main \in {"done", "exited"}

Stop ==
  /\ ~asked
  /\ asked' = TRUE
  /\ UNCHANGED <<main, table, g_stop, children, crashes, tens>>

SigtermRestarts ==  \* mutant: waitpid goes on after the signal (SA_RESTART)
  /\ asked
  /\ ~Gone
  /\ g_stop' = TRUE
  /\ UNCHANGED <<main, asked, table, children, crashes, tens>>

\* waitpid answers -1 when a signal comes while it waits, not when it came before.
Sigterm ==
  /\ asked
  /\ ~Gone
  /\ g_stop' = TRUE
  /\ main' = IF main = "wait" THEN "check" ELSE main
  /\ UNCHANGED <<asked, table, children, crashes, tens>>

-----------------------------------------------------------------------------
(* The children. *)

\* A worker has started: it sets inited.  CONN waits for all of them.
WorkStarted(w) ==
  /\ proc[w] = "starting"
  /\ proc' = [proc EXCEPT ![w] = "up"]
  /\ inited' = [inited EXCEPT ![w] = TRUE]
  /\ UNCHANGED <<main, table, g_stop, asked, term, crashes, tens>>

ConnStarted ==
  /\ proc[CONN] = "starting"
  /\ \A w \in Works : inited[w]
  /\ proc' = [proc EXCEPT ![CONN] = "up"]
  /\ UNCHANGED <<main, table, g_stop, asked, term, inited, crashes, tens>>

\* A child ends its loop, or CONN its waiting, when it got SIGTERM.
Terminate(s) ==
  /\ term[s]
  /\ proc[s] = "up" \/ (s = CONN /\ proc[s] = "starting")
  /\ proc' = [proc EXCEPT ![s] = "ten"]
  /\ UNCHANGED <<main, table, g_stop, asked, term, inited, crashes, tens>>

\* plugin_init, log_init, bind ... fails.
StartFails(s) ==
  /\ proc[s] = "starting"
  /\ crashes < MaxCrashes
  /\ crashes' = crashes + 1
  /\ proc' = [proc EXCEPT ![s] = "ten"]
  /\ tens' = TRUE
  /\ UNCHANGED <<main, table, g_stop, asked, term, inited>>

Crash(s) ==
  /\ proc[s] \in Running
  /\ crashes < MaxCrashes
  /\ crashes' = crashes + 1
  /\ proc' = [proc EXCEPT ![s] = "crashed"]
  /\ UNCHANGED <<main, table, g_stop, asked, term, inited, tens>>

-----------------------------------------------------------------------------
MainStep ==
  \/ ForkAll \/ Check \/ Refork \/ KillAll \/ DrainDone
  \/ \E s \in Slots : WaitExited(s) \/ DrainExited(s)

ChildStep(s) == Terminate(s) \/ (s \in Works /\ WorkStarted(s)) \/ (s = CONN /\ ConnStarted)

SupervisorNext ==
  \/ MainStep
  \/ WaitNoChild
  \/ ForkFails
  \/ Stop
  \/ Sigterm
  \/ \E s \in Slots : ChildStep(s) \/ StartFails(s) \/ Crash(s)

SupervisorSpec == SupervisorInit /\ [][SupervisorNext]_supervisor_vars

\* The kernel runs every process; the loop of server.sh sends the signal again.
SupervisorFairSpec ==
  /\ SupervisorSpec
  /\ WF_supervisor_vars(MainStep \/ WaitNoChild)
  /\ WF_supervisor_vars(Sigterm)
  /\ \A s \in Slots : WF_supervisor_vars(ChildStep(s))
-----------------------------------------------------------------------------
(***************************************************************************)
(* Properties.                                                             *)
(***************************************************************************)
\* Every variable keeps to its range.
SupervisorTypeOK ==
  /\ main \in {"fork", "check", "wait", "refork", "kill", "drain", "done", "exited"}
  /\ slot \in Slots
  /\ g_stop \in BOOLEAN
  /\ asked \in BOOLEAN
  /\ pid \in [Slots -> BOOLEAN]
  /\ proc \in [Slots -> {"none"} \cup Running \cup Exited]
  /\ term \in [Slots -> BOOLEAN]
  /\ inited \in [Works -> BOOLEAN]
  /\ crashes \in 0 .. MaxCrashes
  /\ tens \in BOOLEAN

\* MAIN's table names the children it has, dead or alive, and no other: none
\* escapes the signals at the end, no signal goes to a pid that is not its
\* child's any more, and when MAIN has stopped none is left.  (A child it has
\* just reaped is about to be replaced.)
KnowsItsChildren ==
  main # "exited" => \A s \in Slots :
    ~(main = "refork" /\ slot = s) => (pid[s] <=> proc[s] # "none")

\* The stop ends, whatever crashes meanwhile and wherever the signals hit.
StopEnds == asked ~> Gone

\* As long as nobody asks MAIN to stop, no process exits with 10 and no fork
\* fails, all processes are up again and again: what crashes is replaced.
Serving ==
  []<>(asked \/ tens \/ main = "exited" \/ \A s \in Slots : proc[s] = "up")
=============================================================================
