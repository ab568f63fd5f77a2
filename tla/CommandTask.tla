---------------------------- MODULE CommandTask ----------------------------
(***************************************************************************)
(* The main loop, the scheduler's queue and the task that receives         *)
(* commands: schedule_task of src/nodes/common/utilities.cpp,              *)
(* receive_command_task and schedule_command_reception of cli.cpp, and     *)
(* main of src/nodes/examples/cli/main.cpp.                                *)
(*                                                                         *)
(* The queue is the nRF5 SDK's app_scheduler: app_sched_execute calls the  *)
(* handler of the oldest event and frees the event's slot only when the    *)
(* handler has returned.  receive_command_task puts itself into the queue  *)
(* again before it returns, so for a moment it needs two slots.            *)
(*                                                                         *)
(* An application built on the library adds tasks of its own, AppTasks,    *)
(* which interrupt handlers or other tasks schedule, as often as they      *)
(* like: schedule_task does not look whether a task waits already, and a   *)
(* put into a full queue is refused.                                       *)
(***************************************************************************)
EXTENDS Naturals, Sequences, FiniteSets

CONSTANTS
  QueueSize,     \* 5 in core::initialize
  AppTasks,
  Cli            \* receive_command_task

ASSUME QueueAssumption == QueueSize \in Nat \ {0, 1}
ASSUME TaskAssumption  == Cli \notin AppTasks

VARIABLES
  queue,    \* the events, oldest first, the one being handled included
  mode,     \* where main stands
  crowded   \* history: the application has not left two slots at some time

taskVars == <<queue, mode, crowded>>

Tasks == AppTasks \cup {Cli}
Modes == {"boot", "loop", "handler", "reading", "reposting", "returning", "hung"}

\* The head's handler has been called and its slot is still taken.
Handling == mode \notin {"boot", "loop"}
Waiting  == IF Handling THEN Tail(queue) ELSE queue

WaitingAt(t) == {i \in DOMAIN Waiting : Waiting[i] = t}

\* The events of the application that wait; too many leave the reception, which
\* needs two slots, only one.
AppEvents == {i \in DOMAIN Waiting : Waiting[i] # Cli}
Crowded   == Cardinality(AppEvents) + 2 > QueueSize

Put(t) == queue' = IF Len(queue) < QueueSize THEN Append(queue, t) ELSE queue

-----------------------------------------------------------------------------
\* core::initialize has set up the queue.
TaskInit ==
  /\ queue   = <<>>
  /\ mode    = "boot"
  /\ crowded = FALSE

\* An interrupt handler, or the task that runs, schedules an application task.
Schedule(t) ==
  /\ Put(t)
  /\ UNCHANGED mode
  /\ crowded' = (crowded \/ Crowded')

\* Mutant: cli::initialize schedules the reception as well.
BootTwice ==
  /\ mode = "boot"
  /\ queue' = IF Len(queue) + 1 < QueueSize THEN queue \o <<Cli, Cli>> ELSE queue
  /\ mode' = "loop"
  /\ UNCHANGED crowded

\* main ignores the result of its schedule_command_reception.
Boot ==
  /\ mode = "boot"
  /\ Put(Cli)
  /\ mode' = "loop"
  /\ UNCHANGED crowded

\* Mutant: the newest event first.
TakeNewest ==
  /\ mode = "loop"
  /\ queue # <<>>
  /\ queue' = <<queue[Len(queue)]>> \o SubSeq(queue, 1, Len(queue) - 1)
  /\ mode'  = IF queue'[1] = Cli THEN "reading" ELSE "handler"
  /\ UNCHANGED crowded

Take ==
  /\ mode = "loop"
  /\ queue # <<>>
  /\ mode' = IF Head(queue) = Cli THEN "reading" ELSE "handler"
  /\ UNCHANGED <<queue, crowded>>

\* Mutant: the task returns without scheduling itself again.
FinishForGood ==
  /\ mode = "reading"
  /\ mode' = "returning"
  /\ UNCHANGED <<queue, crowded>>

\* process_command returns: somebody has typed a Return.
FinishCommand ==
  /\ mode = "reading"
  /\ mode' = "reposting"
  /\ UNCHANGED <<queue, crowded>>

\* Mutant: the last slot is not used.
RepostOneShort ==
  /\ mode = "reposting"
  /\ queue' = IF Len(queue) + 1 < QueueSize THEN Append(queue, Cli) ELSE queue
  /\ mode'  = IF Len(queue) + 1 < QueueSize THEN "returning" ELSE "hung"
  /\ UNCHANGED crowded

\* receive_command_task never returns if it cannot schedule itself.
Repost ==
  /\ mode = "reposting"
  /\ Put(Cli)
  /\ mode' = IF Len(queue) < QueueSize THEN "returning" ELSE "hung"
  /\ UNCHANGED crowded

FinishHandler ==
  /\ mode = "handler"
  /\ mode' = "returning"
  /\ UNCHANGED <<queue, crowded>>

Release ==
  /\ mode = "returning"
  /\ queue' = Tail(queue)
  /\ mode'  = "loop"
  /\ UNCHANGED crowded

TaskNext ==
  \/ \E t \in AppTasks : Schedule(t)
  \/ Boot
  \/ Take
  \/ FinishCommand
  \/ Repost
  \/ FinishHandler
  \/ Release

TaskSpec == TaskInit /\ [][TaskNext]_taskVars

\* main keeps running and the application's tasks return.  That anybody types
\* a command is not assumed, nor that a task is ever scheduled.
TaskFairness ==
  /\ WF_taskVars(Boot)
  /\ WF_taskVars(Take)
  /\ WF_taskVars(Repost)
  /\ WF_taskVars(FinishHandler)
  /\ WF_taskVars(Release)

TaskFairSpec == TaskSpec /\ TaskFairness

-----------------------------------------------------------------------------
\* The queue holds tasks, never more than it has slots for.
TaskTypeOK ==
  /\ queue \in Seq(Tasks)
  /\ Len(queue) <= QueueSize
  /\ mode \in Modes
  /\ crowded \in BOOLEAN

\* receive_command_task always finds a slot for itself, whatever interrupts
\* schedule while it reads a command, if the application has always left it two.
NeverHangs == ~crowded => mode # "hung"

\* From the first prompt on there is always exactly one command reception: the
\* one that runs, or one that waits.  It is never lost, as it would be if main's
\* own attempt were refused or its own put were, and never doubled, as long as
\* no more than QueueSize - 2 events of the application have waited at a time.
OneReception ==
  ~crowded /\ mode # "boot" =>
    Cardinality(WaitingAt(Cli)) = IF mode \in {"reading", "reposting"} THEN 0 ELSE 1

\* An application task starves, that is an event of it waits and its handler is
\* not called any more, only behind the blocking read of a command, or behind a
\* reception that the application has crowded out and that spins.
StarvesOnlyBehindTheCli ==
  \A t \in AppTasks :
    <>[](WaitingAt(t) # {} /\ ~(mode = "handler" /\ Head(queue) = t)) =>
      <>[](mode = "reading") \/ <>[](crowded /\ mode = "hung")
=============================================================================
