------------------------------- MODULE Shutdown -------------------------------
(****************************************************************************)
(* src/shutdown.rs: GracefulShutdown, whose waiters share one receiver, and *)
(* run_with_graceful_shutdown, which has one of its own.                    *)
(****************************************************************************)
EXTENDS Naturals, FiniteSets

CONSTANTS Waiters,         \* tasks in wait(); run's is one of them
          Run              \* the task of run_with_graceful_shutdown

ASSUME ShutdownAssumption == Run \in Waiters

VARIABLES
  waiting,       \* per task: what it does next
  receiver,      \* who holds the mutex on the receiver, or "free"
  message,       \* what the receiver has to receive: nothing, the last message
                 \* (the channel's capacity is one), or that and news of a loss
  signalled      \* run's select has taken ctrl_c

shutdownVars == <<waiting, receiver, message, signalled>>

ShutdownInit ==
  /\ waiting = [w \in Waiters |-> "off"]
  /\ receiver = "free"
  /\ message = 0 /\ signalled = FALSE

InRun == waiting[Run] # "off"
WaitGoto(w, l) == waiting' = [waiting EXCEPT ![w] = l]
SendSignal == message' = IF message = 0 THEN 1 ELSE 2

\* Seeded fault: the wait branch, with its guard, outlives the select.
CtrlCKeepsGuard ==
  /\ InRun /\ ~signalled /\ waiting[Run] \in {"lock", "recv"}
  /\ signalled' = TRUE /\ SendSignal
  /\ WaitGoto(Run, "lock")
  /\ UNCHANGED receiver

\* run has its channel to itself: the others wait only where it does not run.
StartWait(w) ==
  /\ \A v \in Waiters : v = Run \/ w = Run => waiting[v] = "off"
  /\ waiting[w] = "off" /\ (w = Run => message = 0)
  /\ WaitGoto(w, "lock")
  /\ UNCHANGED <<receiver, message, signalled>>

LockReceiver(w) ==
  /\ waiting[w] = "lock" /\ receiver = "free"
  /\ receiver' = w
  /\ WaitGoto(w, "recv")
  /\ UNCHANGED <<message, signalled>>

Recv(w) ==
  /\ waiting[w] = "recv" /\ message > 0
  /\ message' = message - 1
  /\ receiver' = "free"
  /\ WaitGoto(w, "ended")
  /\ UNCHANGED signalled

\* That a message has been missed makes recv return as well.
Trigger ==
  /\ ~InRun
  /\ SendSignal
  /\ UNCHANGED <<waiting, receiver, signalled>>

\* ctrl_c's branch: the other branches are dropped before it runs, the guard
\* of wait with them; then trigger, and the receiver is locked again.
CtrlC ==
  /\ InRun /\ ~signalled /\ waiting[Run] \in {"lock", "recv"}
  /\ signalled' = TRUE /\ SendSignal
  /\ receiver' = "free"
  /\ WaitGoto(Run, "lock")

\* The server's future has ended.
ServerEnded ==
  /\ InRun /\ ~signalled /\ waiting[Run] \in {"lock", "recv"}
  /\ receiver' = "free"
  /\ WaitGoto(Run, "ended")
  /\ UNCHANGED <<message, signalled>>

\* A task gives up waiting: its future is dropped.
WaitDropped(w) ==
  /\ ~InRun /\ waiting[w] \in {"lock", "recv"}
  /\ receiver' = IF receiver = w THEN "free" ELSE receiver
  /\ WaitGoto(w, "ended")
  /\ UNCHANGED <<message, signalled>>

ShutdownNext ==
  \/ \E w \in Waiters :
       StartWait(w) \/ LockReceiver(w) \/ Recv(w) \/ WaitDropped(w)
  \/ Trigger \/ CtrlC \/ ServerEnded

ShutdownSpec == ShutdownInit /\ [][ShutdownNext]_shutdownVars

ShutdownFairness ==
  \A w \in Waiters : WF_shutdownVars(LockReceiver(w)) /\ WF_shutdownVars(Recv(w))

------------------------------------------------------------------------------
\* Property

(* After ctrl_c run ends (shutdown.rs:68), and a trigger gets to a task that*)
(* waits, whichever drops its wait: to one of them, not to each.            *)
ShutdownEnds ==
  /\ signalled ~> waiting[Run] = "ended"
  /\ message > 0 /\ ~InRun
       ~> message = 0 \/ \A w \in Waiters : waiting[w] \in {"off", "ended"}

==============================================================================
