----------------------------- MODULE NodeProofs -----------------------------
(***************************************************************************)
(* Proofs about CommandTask, for every size of the queue and every set of  *)
(* application tasks; about Radio, by itself and as a part of Node; and    *)
(* about Node, whose invariant is put together from those of the two.      *)
(* They hold for any number of operations and restarts, on a cold and on a *)
(* warm chip, and wherever initialize fails.                               *)
(***************************************************************************)
EXTENDS Node, FiniteSetTheorems, SequenceTheorems, TLAPS

(* The tasks. *)

\* The reception does not wait twice.
Single ==
  \A i, j \in DOMAIN Waiting : Waiting[i] = Cli /\ Waiting[j] = Cli => i = j

\* The reception that runs, or that main has still to schedule, does not wait.
Absent ==
  mode \in {"boot", "reading", "reposting"} => \A i \in DOMAIN Waiting : Waiting[i] # Cli

Present ==
  mode \in {"loop", "handler", "returning"} => \E i \in DOMAIN Waiting : Waiting[i] = Cli

Handled == Handling => queue # <<>>

TaskInv == TaskTypeOK /\ Handled /\ Single /\ Absent

-----------------------------------------------------------------------------
(* What a put does to the events that wait.                                *)

LEMMA WaitingType ==
  ASSUME TaskTypeOK, Handled
  PROVE  /\ Waiting \in Seq(Tasks)
         /\ Len(queue) = Len(Waiting) + (IF Handling THEN 1 ELSE 0)
BY DEF TaskTypeOK, Handled, Waiting

LEMMA PutStep ==
  ASSUME TaskTypeOK, Handled, NEW t \in Tasks, Put(t), Handling' = Handling
  PROVE  /\ queue' \in Seq(Tasks) /\ Len(queue') <= QueueSize
         /\ Handled'
         /\ Waiting' = IF Len(queue) < QueueSize THEN Append(Waiting, t) ELSE Waiting
<1>1. /\ queue' \in Seq(Tasks) /\ Len(queue') <= QueueSize
      /\ queue # <<>> => queue' # <<>>
  BY QueueAssumption DEF TaskTypeOK, Put
<1>2. CASE ~Handling
  BY <1>1, <1>2 DEF Put, Waiting, Handled
<1>3. CASE Handling
  <2>1. queue # <<>>
    BY <1>3 DEF Handled
  <2>2. CASE Len(queue) < QueueSize
    <3>1. Tail(Append(queue, t)) = Append(Tail(queue), t)
      BY <2>1 DEF TaskTypeOK
    <3> QED
      BY <1>1, <1>3, <2>1, <2>2, <3>1 DEF Put, Waiting, Handled
  <2>3. CASE ~(Len(queue) < QueueSize)
    BY <1>1, <1>3, <2>1, <2>3 DEF Put, Waiting, Handled
  <2> QED
    BY <2>2, <2>3
<1> QED
  BY <1>2, <1>3

\* A put leaves the reception single, if it is an application task's or if the
\* reception does not wait yet.
LEMMA PutSingle ==
  ASSUME TaskTypeOK, Handled, Single, NEW t \in Tasks, Put(t), Handling' = Handling,
         t # Cli \/ \A i \in DOMAIN Waiting : Waiting[i] # Cli
  PROVE  Single'
<1>1. Waiting \in Seq(Tasks)
  BY WaitingType
<1>2. CASE Waiting' = Append(Waiting, t)
  <2>1. /\ Len(Waiting') = Len(Waiting) + 1
        /\ DOMAIN Waiting' = 1 .. Len(Waiting) + 1
        /\ \A i \in 1 .. Len(Waiting) : Waiting'[i] = Waiting[i]
        /\ Waiting'[Len(Waiting) + 1] = t
    BY <1>1, <1>2
  <2> QED
    BY <1>1, <2>1 DEF Single
<1>3. CASE Waiting' = Waiting
  BY <1>3 DEF Single
<1> QED
  BY <1>2, <1>3, PutStep

-----------------------------------------------------------------------------
LEMMA TaskInvInit == TaskInit => TaskInv
<1> SUFFICES ASSUME TaskInit PROVE TaskInv
  OBVIOUS
<1> USE QueueAssumption DEF TaskInit
<1>1. Waiting = <<>> /\ ~Handling
  BY DEF Waiting, Handling
<1>2. TaskTypeOK
  <2>1. queue \in Seq(Tasks) /\ Len(queue) = 0
    OBVIOUS
  <2>2. 0 <= QueueSize
    OBVIOUS
  <2> QED
    BY <2>1, <2>2 DEF TaskTypeOK, Modes
<1> QED
  BY <1>1, <1>2 DEF TaskInv, Handled, Single, Absent

LEMMA TaskStep == TaskInv /\ [TaskNext]_taskVars => TaskInv'
<1> SUFFICES ASSUME TaskInv, [TaskNext]_taskVars PROVE TaskInv'
  OBVIOUS
<1> USE QueueAssumption, TaskAssumption DEF TaskInv
<1>w. Waiting \in Seq(Tasks)
  BY WaitingType
<1>1. CASE \E t \in AppTasks : Schedule(t)
  <2>1. PICK t \in AppTasks : Schedule(t)
    BY <1>1
  <2>2. t \in Tasks /\ Put(t) /\ mode' = mode /\ Handling' = Handling /\ t # Cli
    BY <2>1 DEF Schedule, Tasks, Handling
  <2>3. crowded' \in BOOLEAN
    BY <2>1 DEF Schedule, Crowded, TaskTypeOK
  <2>4. TaskTypeOK' /\ Handled'
    BY <2>2, <2>3, PutStep DEF TaskTypeOK
  <2>5. Single'
    BY <2>2, PutSingle
  <2>6. Absent'
    BY <1>w, <2>2, PutStep DEF Absent
  <2> QED
    BY <2>4, <2>5, <2>6
<1>2. CASE Boot
  <2>1. /\ Cli \in Tasks /\ Put(Cli) /\ mode = "boot" /\ mode' = "loop"
        /\ Handling' = Handling /\ crowded' = crowded
    BY <1>2 DEF Boot, Tasks, Handling
  <2>2. TaskTypeOK' /\ Handled'
    BY <2>1, PutStep DEF TaskTypeOK, Modes
  <2>3. Single'
    BY <2>1, PutSingle DEF Absent
  <2> QED
    BY <2>1, <2>2, <2>3 DEF Absent
<1>3. CASE Take
  <2>1. queue # <<>> /\ Waiting = queue /\ queue' = queue /\ Waiting' = Tail(queue)
    BY <1>3 DEF Take, Waiting, Handling
  <2>2. TaskTypeOK' /\ Handled'
    BY <1>3 DEF Take, TaskTypeOK, Modes, Handled
  <2>3. \A i \in DOMAIN Waiting' : i + 1 \in DOMAIN Waiting /\ Waiting'[i] = Waiting[i + 1]
    BY <1>w, <2>1
  <2>4. Single'
    BY <1>w, <2>1, <2>3 DEF Single
  <2>5. Absent'
    <3>1. 1 \in DOMAIN Waiting /\ Head(queue) = Waiting[1]
      BY <1>w, <2>1
    <3> QED
      BY <1>3, <1>w, <2>1, <2>3, <3>1 DEF Take, Absent, Single
  <2> QED
    BY <2>2, <2>4, <2>5
<1>4. CASE FinishCommand
  BY <1>4 DEF FinishCommand, TaskTypeOK, Modes, Handled, Handling, Single, Absent, Waiting
<1>5. CASE Repost
  <2>1. Cli \in Tasks /\ Put(Cli) /\ mode = "reposting" /\ mode' \in {"returning", "hung"}
        /\ Handling' = Handling /\ crowded' = crowded
    BY <1>5 DEF Repost, Tasks, Handling
  <2>2. TaskTypeOK' /\ Handled'
    BY <2>1, PutStep DEF TaskTypeOK, Modes
  <2>3. Single'
    BY <2>1, PutSingle DEF Absent
  <2> QED
    BY <2>1, <2>2, <2>3 DEF Absent
<1>6. CASE FinishHandler
  BY <1>6 DEF FinishHandler, TaskTypeOK, Modes, Handled, Handling, Single, Absent, Waiting
<1>7. CASE Release
  <2>1. /\ queue # <<>> /\ queue' = Tail(queue) /\ Waiting' = Waiting /\ mode' = "loop"
        /\ crowded' = crowded
    BY <1>7 DEF Release, Waiting, Handling, Handled
  <2> QED
    BY <2>1 DEF TaskTypeOK, Modes, Handled, Handling, Single, Absent
<1>8. CASE UNCHANGED taskVars
  BY <1>8 DEF taskVars, TaskTypeOK, Handled, Handling, Single, Absent, Waiting
<1> QED
  BY <1>1, <1>2, <1>3, <1>4, <1>5, <1>6, <1>7, <1>8 DEF TaskNext

LEMMA TaskInvariant == TaskSpec => []TaskInv
BY TaskInvInit, TaskStep, PTL DEF TaskSpec

\* The queue is never overrun, for every size and every set of tasks.
THEOREM TypeCorrect == TaskSpec => []TaskTypeOK
<1>1. TaskInv => TaskTypeOK
  BY DEF TaskInv
<1> QED
  BY <1>1, TaskInvariant, PTL

-----------------------------------------------------------------------------
(* The reception.                                                          *)

\* As long as the history says so, the application leaves two slots.
RoomInv == ~crowded => ~Crowded

\* The application's events are finitely many.
LEMMA AppEventsType ==
  ASSUME TaskTypeOK, Handled
  PROVE  /\ IsFiniteSet(DOMAIN Waiting) /\ Cardinality(DOMAIN Waiting) = Len(Waiting)
         /\ IsFiniteSet(AppEvents) /\ Cardinality(AppEvents) \in Nat
<1>1. PICK n \in Nat : n = Len(Waiting) /\ DOMAIN Waiting = 1 .. n
  BY WaitingType
<1>2. IsFiniteSet(1 .. n) /\ Cardinality(1 .. n) = IF 1 > n THEN 0 ELSE n - 1 + 1
  BY FS_Interval
<1>3. IsFiniteSet(AppEvents)
  BY <1>1, <1>2, FS_Subset DEF AppEvents
<1> QED
  BY <1>1, <1>2, <1>3, FS_CardinalityType

\* The reception's own events take no room from it.
LEMMA RoomStep == TaskInv /\ RoomInv /\ [TaskNext]_taskVars => RoomInv'
<1> SUFFICES ASSUME TaskInv, RoomInv, [TaskNext]_taskVars, ~crowded' PROVE ~Crowded'
  BY DEF RoomInv
<1> USE QueueAssumption, TaskAssumption DEF TaskInv
<1>w. Waiting \in Seq(Tasks)
  BY WaitingType
<1>1. CASE \E t \in AppTasks : Schedule(t)
  BY <1>1 DEF Schedule
<1>2. CASE Boot \/ Repost
  <2>1. Cli \in Tasks /\ Put(Cli) /\ Handling' = Handling /\ crowded' = crowded
    BY <1>2 DEF Boot, Repost, Tasks, Handling
  <2>2. AppEvents' = AppEvents
    <3>1. CASE Waiting' = Waiting
      BY <3>1 DEF AppEvents
    <3>2. CASE Waiting' = Append(Waiting, Cli)
      <4>1. /\ DOMAIN Waiting' = 1 .. Len(Waiting) + 1 /\ DOMAIN Waiting = 1 .. Len(Waiting)
            /\ \A i \in 1 .. Len(Waiting) : Waiting'[i] = Waiting[i]
            /\ Waiting'[Len(Waiting) + 1] = Cli
        BY <1>w, <3>2
      <4> QED
        BY <1>w, <4>1 DEF AppEvents
    <3> QED
      BY <2>1, <3>1, <3>2, PutStep
  <2> QED
    BY <2>1, <2>2 DEF RoomInv, Crowded
<1>3. CASE Take
  <2>1. /\ queue # <<>> /\ Waiting = queue /\ Waiting' = Tail(queue)
        /\ crowded' = crowded
    BY <1>3 DEF Take, Waiting, Handling
  <2>2. \A i \in DOMAIN Waiting' : i + 1 \in DOMAIN Waiting /\ Waiting'[i] = Waiting[i + 1]
    BY <1>w, <2>1
  <2>3. DOMAIN Waiting' \subseteq Nat
    BY <1>w, <2>1
  <2>4. PICK f : f = [i \in AppEvents' |-> i + 1]
    OBVIOUS
  <2>5. f \in Injection(AppEvents', AppEvents)
    <3>1. \A i \in AppEvents' : i \in Nat /\ i + 1 \in AppEvents
      BY <2>2, <2>3 DEF AppEvents
    <3> QED
      BY <2>4, <3>1 DEF Injection, IsInjective
  <2>6. IsFiniteSet(AppEvents') /\ Cardinality(AppEvents') <= Cardinality(AppEvents)
    BY <2>5, AppEventsType, FS_Injection
  <2>7. Cardinality(AppEvents') \in Nat
    BY <2>6, FS_CardinalityType
  <2> QED
    BY <2>1, <2>6, <2>7, AppEventsType DEF RoomInv, Crowded
<1>4. CASE FinishCommand \/ FinishHandler \/ Release
  <2>1. Waiting' = Waiting /\ crowded' = crowded
    BY <1>4 DEF FinishCommand, FinishHandler, Release, Waiting, Handling
  <2> QED
    BY <2>1 DEF RoomInv, Crowded, AppEvents
<1>5. CASE UNCHANGED taskVars
  BY <1>5 DEF taskVars, RoomInv, Crowded, AppEvents, Waiting, Handling
<1> QED
  BY <1>1, <1>2, <1>3, <1>4, <1>5 DEF TaskNext

\* Where the reception does not wait, one slot is left for it besides its own.
LEMMA SlotLeft ==
  ASSUME TaskInv, RoomInv, ~crowded, mode \in {"boot", "reading", "reposting"}
  PROVE  Len(queue) < QueueSize
<1> USE QueueAssumption, TaskAssumption DEF TaskInv
<1>1. Waiting \in Seq(Tasks) /\ Len(queue) <= Len(Waiting) + 1
  BY WaitingType
<1>2. AppEvents = DOMAIN Waiting
  BY DEF Absent, AppEvents
<1>3. Cardinality(AppEvents) = Len(Waiting) /\ Cardinality(AppEvents) \in Nat
  BY <1>2, AppEventsType
<1> QED
  BY <1>1, <1>3 DEF RoomInv, Crowded, TaskTypeOK

ReceptionInv == RoomInv /\ (~crowded => mode # "hung" /\ Present)

LEMMA ReceptionStep == TaskInv /\ ReceptionInv /\ [TaskNext]_taskVars => ReceptionInv'
<1> SUFFICES ASSUME TaskInv, ReceptionInv, [TaskNext]_taskVars, ~crowded'
             PROVE  mode' # "hung" /\ Present'
  BY RoomStep DEF ReceptionInv
<1> USE QueueAssumption, TaskAssumption DEF TaskInv, ReceptionInv
<1>c. ~crowded
  BY DEF TaskNext, taskVars, Schedule, Boot, Take, FinishCommand, Repost, FinishHandler,
         Release
<1>w. Waiting \in Seq(Tasks)
  BY WaitingType
<1>1. CASE \E t \in AppTasks : Schedule(t)
  <2>1. PICK t \in AppTasks : Schedule(t)
    BY <1>1
  <2>2. t \in Tasks /\ Put(t) /\ mode' = mode /\ Handling' = Handling
    BY <2>1 DEF Schedule, Tasks, Handling
  <2>3. Present'
    BY <1>c, <1>w, <2>2, PutStep DEF Present
  <2> QED
    BY <1>c, <2>2, <2>3
<1>2. CASE Boot \/ Repost
  <2>1. Cli \in Tasks /\ Put(Cli) /\ Handling' = Handling
    BY <1>2, <1>c, SlotLeft DEF Boot, Repost, Tasks, Handling
  <2>2. Len(queue) < QueueSize /\ mode' \in {"loop", "returning"}
    BY <1>2, <1>c, SlotLeft DEF Boot, Repost
  <2>3. Waiting' = Append(Waiting, Cli)
    BY <2>1, <2>2, PutStep
  <2>4. Len(Waiting) + 1 \in DOMAIN Waiting' /\ Waiting'[Len(Waiting) + 1] = Cli
    BY <1>w, <2>3
  <2> QED
    BY <2>2, <2>4 DEF Present
<1>3. CASE Take
  <2>1. queue # <<>> /\ Waiting = queue /\ Waiting' = Tail(queue)
    BY <1>3 DEF Take, Waiting, Handling
  <2>2. PICK i \in DOMAIN queue : queue[i] = Cli
    BY <1>3, <1>c, <2>1 DEF Take, Present
  <2>3. CASE i = 1
    BY <1>3, <2>1, <2>2, <2>3 DEF Take, Present
  <2>4. CASE i # 1
    <3>1. i - 1 \in DOMAIN Waiting' /\ Waiting'[i - 1] = Cli
      BY <1>w, <2>1, <2>2, <2>4
    <3> QED
      BY <1>3, <3>1 DEF Take, Present
  <2> QED
    BY <2>3, <2>4
<1>4. CASE FinishCommand
  BY <1>4 DEF FinishCommand, Present
<1>5. CASE FinishHandler
  BY <1>5, <1>c DEF FinishHandler, Present, Waiting, Handling
<1>6. CASE Release
  <2>1. Waiting' = Waiting /\ mode' = "loop" /\ mode = "returning"
    BY <1>6 DEF Release, Waiting, Handling
  <2> QED
    BY <1>c, <2>1 DEF Present
<1>7. CASE UNCHANGED taskVars
  BY <1>7, <1>c DEF taskVars, Present, Waiting, Handling
<1> QED
  BY <1>1, <1>2, <1>3, <1>4, <1>5, <1>6, <1>7 DEF TaskNext

LEMMA ReceptionInit == TaskInit => ReceptionInv
<1> SUFFICES ASSUME TaskInit PROVE ReceptionInv
  OBVIOUS
<1>1. AppEvents = {} /\ mode = "boot"
  BY DEF TaskInit, AppEvents, Waiting, Handling
<1>2. Cardinality(AppEvents) = 0
  BY <1>1, FS_EmptySet
<1> QED
  BY <1>1, <1>2, QueueAssumption DEF ReceptionInv, RoomInv, Crowded, Present

LEMMA ReceptionInvariant == TaskSpec => []ReceptionInv
BY ReceptionInit, TaskInvariant, ReceptionStep, PTL DEF TaskSpec

\* Two slots that the application always leaves are enough, for every queue.
THEOREM ReceptionNeverHangs == TaskSpec => []NeverHangs
<1>1. ReceptionInv => NeverHangs
  BY DEF ReceptionInv, NeverHangs
<1> QED
  BY <1>1, ReceptionInvariant, PTL

\* The reception that waits or runs is the only one.
LEMMA ReceptionCounts == TaskInv /\ ReceptionInv => OneReception
<1> SUFFICES ASSUME TaskInv, ReceptionInv, ~crowded, mode # "boot"
             PROVE  Cardinality(WaitingAt(Cli)) =
                      IF mode \in {"reading", "reposting"} THEN 0 ELSE 1
  BY DEF OneReception
<1>1. CASE mode \in {"reading", "reposting"}
  <2>1. WaitingAt(Cli) = {}
    BY <1>1 DEF WaitingAt, TaskInv, Absent
  <2> QED
    BY <1>1, <2>1, FS_EmptySet
<1>2. CASE mode \notin {"reading", "reposting"}
  <2>1. mode \in {"loop", "handler", "returning"}
    BY <1>2 DEF TaskInv, TaskTypeOK, Modes, ReceptionInv
  <2>2. \E i \in DOMAIN Waiting : WaitingAt(Cli) = {i}
    BY <2>1 DEF WaitingAt, ReceptionInv, Present, TaskInv, Single
  <2> QED
    BY <1>2, <2>2, FS_Singleton
<1> QED
  BY <1>1, <1>2

\* With that room the command line is never lost and never doubled.
THEOREM ExactlyOneReception == TaskSpec => []OneReception
BY ReceptionCounts, TaskInvariant, ReceptionInvariant, PTL

-----------------------------------------------------------------------------
(* The radio. *)

BeforeReset == {"start", "irq_enabled"}
Silent      == {"reset", "spi_2m", "initialised", "no_spi", "spi_8m", "callbacks_set"}
Final       == {"ready", "failed"}

\* Where there is an SPI driver.
SpiByStep ==
  /\ step \in {"start", "irq_enabled", "reset", "no_spi"} => spi = "none"
  /\ step \in {"spi_8m", "callbacks_set", "interrupts_set", "ready"} => spi = "8M"

\* Before initialize is over the application does nothing; until the interrupts are
\* enabled no handler runs, except for a warm chip's before the reset.
BootInv ==
  /\ ~listening => step \in {"start", "failed"} /\ ~edge /\ isr = "none"
  /\ ~listening => outstanding = "off" /\ spi = "none"
  /\ step = "start" => ~listening
  /\ step \notin Final =>
       outstanding = "off" /\ \A e \in Radio!Events : callbacks[e] # "application"
  /\ step \in Silent => mask = {} /\ ~edge /\ isr = "none"
  /\ step = "irq_enabled" => isr \in {"none", "entered"}
  /\ step \in BeforeReset /\ ~warm => operation = "off" /\ ~edge /\ isr = "none"

\* What dwt_isr has in hand.
HandlerInv ==
  /\ isr \in {"none", "entered"} => handling = {}
  /\ isr = "callback" => \A e \in Radio!Events : callbacks[e] = "application"
  /\ (\E e \in Radio!Events : callbacks[e] = "application")
       => \A e \in Radio!Events : callbacks[e] = "application"

\* Once the chip has been reset it does one thing at a time, the outstanding one:
\* it works on it, or has finished it with one of its outcomes.
OneAtATime ==
  listening /\ step \notin BeforeReset =>
    /\ operation # "off" => operation = outstanding /\ status = {}
    /\ \A e \in status : e \in Radio!Outcomes(outstanding) /\ status = {e}
    /\ handling \subseteq status

RadioInv ==
  /\ Radio!TypeOK
  /\ SpiByStep
  /\ BootInv
  /\ HandlerInv
  /\ OneAtATime
  /\ Radio!HangsOnlyWithoutSpi
  /\ Radio!NoEventIsForgotten

LEMMA RadioInit == Radio!Init => RadioInv
<1> SUFFICES ASSUME Radio!Init PROVE RadioInv
  OBVIOUS
<1> USE DEF Radio!Init
<1>1. Radio!TypeOK
  <2>1. operation \in Radio!Actions
    BY DEF Radio!Actions
  <2>2. status \in SUBSET Radio!Events
    BY Zenon
  <2>3. mask \in SUBSET Radio!Events
    BY Zenon
  <2>4. callbacks \in [Radio!Events -> {"null", "dummy", "application"}]
    OBVIOUS
  <2>5. outstanding \in Radio!Actions /\ step \in Radio!Steps /\ started \in Nat
    BY DEF Radio!Steps, Radio!Actions
  <2> QED
    BY <2>1, <2>2, <2>3, <2>4, <2>5 DEF Radio!TypeOK
<1>2. SpiByStep /\ BootInv /\ HandlerInv
  BY DEF SpiByStep, BootInv, HandlerInv, Silent, BeforeReset
<1>3. OneAtATime /\ Radio!HangsOnlyWithoutSpi /\ Radio!NoEventIsForgotten
  BY DEF OneAtATime, Radio!HangsOnlyWithoutSpi, Radio!NoEventIsForgotten
<1> QED
  BY <1>1, <1>2, <1>3 DEF RadioInv

LEMMA InitializeStep == RadioInv /\ Radio!Initialize => RadioInv'
<1> SUFFICES ASSUME RadioInv, Radio!Initialize PROVE RadioInv'
  OBVIOUS
<1> USE DEF RadioInv, Radio!MainAt, Radio!chip, Radio!app, Radio!cpu
<1>1. CASE Radio!SetUpIrq
  <2>1. Radio!TypeOK' /\ SpiByStep' /\ HandlerInv' /\ Radio!HangsOnlyWithoutSpi'
    BY <1>1 DEF Radio!SetUpIrq, Radio!TypeOK, Radio!Steps, SpiByStep, HandlerInv, Radio!HangsOnlyWithoutSpi
  <2>2. BootInv'
    BY <1>1 DEF Radio!SetUpIrq, SpiByStep, BootInv, BeforeReset, Silent, Final
  <2>3. OneAtATime' /\ Radio!NoEventIsForgotten'
    BY <1>1 DEF Radio!SetUpIrq, BootInv, OneAtATime, Radio!NoEventIsForgotten, BeforeReset
  <2> QED
    BY <2>1, <2>2, <2>3
<1>2. CASE Radio!ResetChip
  BY <1>2 DEF Radio!ResetChip, Radio!TypeOK, Radio!Steps, Radio!Actions, SpiByStep, BootInv, HandlerInv, OneAtATime,
    Radio!HangsOnlyWithoutSpi, Radio!NoEventIsForgotten, BeforeReset, Silent, Final, Radio!Line
<1>3. CASE Radio!StartSpi
  BY <1>3 DEF Radio!StartSpi, Radio!TypeOK, Radio!Steps, SpiByStep, BootInv, HandlerInv, OneAtATime,
    Radio!HangsOnlyWithoutSpi, Radio!NoEventIsForgotten, BeforeReset, Silent, Final, Radio!Line
<1>4. CASE Radio!InitialiseDriver
  BY <1>4 DEF Radio!InitialiseDriver, Radio!TypeOK, Radio!Steps, SpiByStep, BootInv, HandlerInv, OneAtATime,
    Radio!HangsOnlyWithoutSpi, Radio!NoEventIsForgotten, BeforeReset, Silent, Final, Radio!Line
<1>5. CASE Radio!StopSpi
  BY <1>5 DEF Radio!StopSpi, Radio!TypeOK, Radio!Steps, SpiByStep, BootInv, HandlerInv, OneAtATime,
    Radio!HangsOnlyWithoutSpi, Radio!NoEventIsForgotten, BeforeReset, Silent, Final, Radio!Line
<1>6. CASE Radio!RestartSpi
  BY <1>6 DEF Radio!RestartSpi, Radio!TypeOK, Radio!Steps, SpiByStep, BootInv, HandlerInv, OneAtATime,
    Radio!HangsOnlyWithoutSpi, Radio!NoEventIsForgotten, BeforeReset, Silent, Final, Radio!Line
<1>7. CASE Radio!SetDummyCallbacks
  BY <1>7 DEF Radio!SetDummyCallbacks, Radio!TypeOK, Radio!Steps, SpiByStep, BootInv, HandlerInv, OneAtATime,
    Radio!HangsOnlyWithoutSpi, Radio!NoEventIsForgotten, BeforeReset, Silent, Final, Radio!Line
<1>8. CASE Radio!SetInterrupt
  <2>1. status = {} /\ operation = "off"
    BY <1>8 DEF Radio!SetInterrupt, Radio!TypeOK, OneAtATime, BootInv, BeforeReset, Silent, Final, Radio!Outcomes
  <2>2. edge' = FALSE
    BY <1>8, <2>1 DEF Radio!SetInterrupt, Radio!Sense, Radio!Line
  <2> QED
    <3>1. Radio!TypeOK' /\ Radio!HangsOnlyWithoutSpi'
      BY <1>8, <2>2 DEF Radio!SetInterrupt, Radio!TypeOK, Radio!Steps, Radio!HangsOnlyWithoutSpi
    <3>2. SpiByStep' /\ BootInv' /\ HandlerInv'
      BY <1>8, <2>2 DEF Radio!SetInterrupt, SpiByStep, BootInv, HandlerInv, BeforeReset, Silent, Final
    <3>3. OneAtATime' /\ Radio!NoEventIsForgotten'
      BY <1>8, <2>1 DEF Radio!SetInterrupt, BootInv, OneAtATime, Radio!NoEventIsForgotten, BeforeReset,
        Silent, Radio!Line
    <3> QED
      BY <3>1, <3>2, <3>3
<1>9. CASE Radio!SetAddress
  BY <1>9 DEF Radio!SetAddress, Radio!TypeOK, Radio!Steps, SpiByStep, BootInv, HandlerInv, OneAtATime,
    Radio!HangsOnlyWithoutSpi, Radio!NoEventIsForgotten, BeforeReset, Silent, Final, Radio!Line
<1> QED
  BY <1>1, <1>2, <1>3, <1>4, <1>5, <1>6, <1>7, <1>8, <1>9 DEF Radio!Initialize

LEMMA ApplicationStep ==
  RadioInv /\ (Radio!SetIrqCallbacks \/ Radio!TransmitNow \/ Radio!TransmitDeffered \/ Radio!ReceiveNow)
    => RadioInv'
<1> SUFFICES ASSUME RadioInv, Radio!SetIrqCallbacks \/ Radio!TransmitNow \/ Radio!TransmitDeffered \/ Radio!ReceiveNow
             PROVE  RadioInv'
  OBVIOUS
<1> USE DEF RadioInv, Radio!MainAt, Radio!chip, Radio!app, Radio!cpu
<1>1. CASE Radio!SetIrqCallbacks
  <2>1. Radio!TypeOK' /\ SpiByStep' /\ Radio!HangsOnlyWithoutSpi'
    BY <1>1 DEF Radio!SetIrqCallbacks, Radio!TypeOK, SpiByStep, Radio!HangsOnlyWithoutSpi
  <2>2. BootInv' /\ HandlerInv'
    BY <1>1 DEF Radio!SetIrqCallbacks, Radio!Foreground, BootInv, HandlerInv, BeforeReset, Silent, Final
  <2>3. OneAtATime' /\ Radio!NoEventIsForgotten'
    BY <1>1 DEF Radio!SetIrqCallbacks, OneAtATime, Radio!NoEventIsForgotten
  <2> QED
    BY <2>1, <2>2, <2>3
<1>2. ASSUME NEW op \in Radio!Actions \ {"off"}, NEW accepted \in BOOLEAN, Radio!Start(op, accepted)
      PROVE  RadioInv'
  <2>0. "sent" \in Radio!Events
    BY DEF Radio!Events
  <2>1. step \in Final
    BY <1>2, <2>0 DEF Radio!Start, BootInv
  <2>2. Radio!TypeOK'
    BY <1>2 DEF Radio!Start, Radio!TypeOK
  <2>3. SpiByStep' /\ HandlerInv'
    BY <1>2 DEF Radio!Start, SpiByStep, HandlerInv
  <2>4. BootInv'
    BY <1>2, <2>1 DEF Radio!Start, BootInv, BeforeReset, Silent, Final
  <2>5. OneAtATime'
    <3>1. CASE UNCHANGED <<operation, outstanding>>
      BY <1>2, <3>1 DEF Radio!Start, OneAtATime
    <3>2. CASE operation' = op /\ outstanding' = op
      <4>1. listening /\ step \notin BeforeReset => status = {} /\ handling = {}
        BY <1>2 DEF Radio!Start, OneAtATime, Radio!Outcomes, Radio!TypeOK
      <4> QED
        BY <1>2, <3>2, <4>1 DEF Radio!Start, OneAtATime
    <3> QED
      BY <1>2, <3>1, <3>2 DEF Radio!Start
  <2>6. Radio!HangsOnlyWithoutSpi'
    BY <1>2, <2>1 DEF Radio!Start, Radio!HangsOnlyWithoutSpi, SpiByStep, Final
  <2>7. Radio!NoEventIsForgotten'
    BY <1>2 DEF Radio!Start, Radio!NoEventIsForgotten
  <2> QED
    BY <2>2, <2>3, <2>4, <2>5, <2>6, <2>7
<1> QED
  BY <1>1, <1>2 DEF Radio!TransmitNow, Radio!TransmitDeffered, Radio!ReceiveNow, Radio!Actions

LEMMA FinishStep == RadioInv /\ Radio!Finish => RadioInv'
<1> SUFFICES ASSUME RadioInv, Radio!Finish PROVE RadioInv'
  OBVIOUS
<1> USE DEF RadioInv, Radio!app, Radio!cpu
<1>1. PICK e \in Radio!Outcomes(operation) : status' = status \cup {e} /\ Radio!Sense(status', mask)
  BY DEF Radio!Finish
<1>2. e \in Radio!Events
  BY <1>1 DEF Radio!Outcomes, Radio!Events
<1>3. edge' \in BOOLEAN /\ (edge' => edge \/ (listening /\ Radio!Line(status', mask)))
  BY <1>1 DEF Radio!Sense, Radio!TypeOK
<1>4. Radio!TypeOK'
  BY <1>1, <1>2, <1>3 DEF Radio!Finish, Radio!TypeOK, Radio!Actions
<1>5. SpiByStep' /\ HandlerInv' /\ Radio!HangsOnlyWithoutSpi'
  BY DEF Radio!Finish, SpiByStep, HandlerInv, Radio!HangsOnlyWithoutSpi
<1>6. BootInv'
  BY <1>3 DEF Radio!Finish, BootInv, Radio!Line, BeforeReset, Silent
<1>7. OneAtATime'
  BY <1>1 DEF Radio!Finish, OneAtATime
<1>8. Radio!NoEventIsForgotten'
  <2> SUFFICES ASSUME listening, step # "irq_enabled", Radio!Line(status', mask)
               PROVE  edge' \/ isr = "entered" \/ status' \cap mask \subseteq handling
    BY DEF Radio!Finish, Radio!NoEventIsForgotten
  <2>1. step \notin BeforeReset
    BY DEF BootInv, BeforeReset
  <2>2. status = {}
    BY <2>1 DEF Radio!Finish, OneAtATime
  <2> QED
    BY <1>1, <2>2 DEF Radio!Sense, Radio!Line
<1> QED
  BY <1>4, <1>5, <1>6, <1>7, <1>8

LEMMA IsrStep == RadioInv /\ Radio!Isr => RadioInv'
<1> SUFFICES ASSUME RadioInv, Radio!Isr PROVE RadioInv'
  OBVIOUS
<1> USE DEF RadioInv, Radio!chip, Radio!app, Radio!cpu
<1>1. CASE Radio!IrqEnter
  <2>1. Radio!TypeOK' /\ SpiByStep' /\ HandlerInv' /\ Radio!HangsOnlyWithoutSpi'
    BY <1>1 DEF Radio!IrqEnter, Radio!TypeOK, SpiByStep, HandlerInv, Radio!HangsOnlyWithoutSpi
  <2>2. BootInv'
    BY <1>1 DEF Radio!IrqEnter, BootInv, BeforeReset, Silent
  <2>3. OneAtATime' /\ Radio!NoEventIsForgotten'
    BY <1>1 DEF Radio!IrqEnter, OneAtATime, Radio!NoEventIsForgotten
  <2> QED
    BY <2>1, <2>2, <2>3
<1>2. CASE Radio!ReadStatus
  <2>1. CASE spi = "none"
    <3>1. step = "failed" \/ (step = "irq_enabled" /\ warm)
      BY <1>2, <2>1 DEF Radio!ReadStatus, SpiByStep, BootInv, BeforeReset, Silent, Radio!TypeOK, Radio!Steps
    <3>2. Radio!TypeOK' /\ SpiByStep' /\ HandlerInv' /\ Radio!HangsOnlyWithoutSpi'
      BY <1>2, <2>1, <3>1 DEF Radio!ReadStatus, Radio!TypeOK, SpiByStep, HandlerInv, Radio!HangsOnlyWithoutSpi
    <3>3. BootInv' /\ OneAtATime' /\ Radio!NoEventIsForgotten'
      BY <1>2, <2>1 DEF Radio!ReadStatus, BootInv, BeforeReset, Silent, OneAtATime, Radio!NoEventIsForgotten
    <3> QED
      BY <3>2, <3>3
  <2>2. CASE spi # "none"
    <3>1. Radio!TypeOK' /\ SpiByStep' /\ HandlerInv' /\ Radio!HangsOnlyWithoutSpi'
      BY <1>2, <2>2 DEF Radio!ReadStatus, Radio!TypeOK, SpiByStep, HandlerInv, Radio!HangsOnlyWithoutSpi
    <3>2. BootInv'
      BY <1>2, <2>2 DEF Radio!ReadStatus, BootInv, SpiByStep, BeforeReset, Silent
    <3>3. OneAtATime' /\ Radio!NoEventIsForgotten'
      BY <1>2, <2>2 DEF Radio!ReadStatus, OneAtATime, Radio!NoEventIsForgotten
    <3> QED
      BY <3>1, <3>2, <3>3
  <2> QED
    BY <2>1, <2>2
<1>3. ASSUME NEW e \in Radio!Events, Radio!Handle(e) PROVE RadioInv'
  <2>1. listening /\ step \notin BeforeReset /\ step \notin Silent
    BY <1>3 DEF Radio!Handle, BootInv, BeforeReset, Silent
  <2>2. status = {e} /\ handling = {e} /\ operation = "off"
    BY <1>3, <2>1 DEF Radio!Handle, OneAtATime
  <2>3. status' = {} /\ handling' = {} /\ operation' = "off"
    BY <1>3, <2>2 DEF Radio!Handle
  <2>4. Radio!TypeOK'
    BY <1>3, <2>3 DEF Radio!Handle, Radio!TypeOK, Radio!Actions
  <2>5. SpiByStep' /\ HandlerInv' /\ Radio!HangsOnlyWithoutSpi'
    BY <1>3, <2>3 DEF Radio!Handle, SpiByStep, HandlerInv, Radio!HangsOnlyWithoutSpi
  <2>6. BootInv'
    BY <1>3, <2>1 DEF Radio!Handle, BootInv, BeforeReset
  <2>7. OneAtATime' /\ Radio!NoEventIsForgotten'
    BY <1>3, <2>3 DEF Radio!Handle, OneAtATime, Radio!NoEventIsForgotten
  <2> QED
    BY <2>4, <2>5, <2>6, <2>7
<1>4. CASE Radio!CallbackReturns
  <2>1. Radio!TypeOK' /\ SpiByStep' /\ HandlerInv' /\ Radio!HangsOnlyWithoutSpi'
    BY <1>4 DEF Radio!CallbackReturns, Radio!TypeOK, SpiByStep, HandlerInv, Radio!HangsOnlyWithoutSpi
  <2>2. BootInv' /\ OneAtATime' /\ Radio!NoEventIsForgotten'
    BY <1>4 DEF Radio!CallbackReturns, BootInv, BeforeReset, Silent, OneAtATime, Radio!NoEventIsForgotten
  <2> QED
    BY <2>1, <2>2
<1>5. CASE Radio!IrqExit
  <2>1. Radio!TypeOK' /\ SpiByStep' /\ HandlerInv' /\ Radio!HangsOnlyWithoutSpi'
    BY <1>5 DEF Radio!IrqExit, Radio!TypeOK, SpiByStep, HandlerInv, Radio!HangsOnlyWithoutSpi
  <2>2. BootInv' /\ OneAtATime' /\ Radio!NoEventIsForgotten'
    BY <1>5 DEF Radio!IrqExit, BootInv, BeforeReset, Silent, OneAtATime, Radio!NoEventIsForgotten
  <2> QED
    BY <2>1, <2>2
<1> QED
  BY <1>1, <1>2, <1>3, <1>4, <1>5 DEF Radio!Isr

LEMMA RadioStep == RadioInv /\ [Radio!Next]_Radio!vars => RadioInv'
<1>1. RadioInv /\ UNCHANGED Radio!vars => RadioInv'
  BY DEF RadioInv, Radio!vars, Radio!TypeOK, SpiByStep, BootInv, HandlerInv, OneAtATime,
    Radio!HangsOnlyWithoutSpi, Radio!NoEventIsForgotten, Radio!Line
<1> QED
  BY <1>1, InitializeStep, ApplicationStep, FinishStep, IsrStep DEF Radio!Next

LEMMA RadioInvariant == Radio!Spec => []RadioInv
BY RadioInit, RadioStep, PTL DEF Radio!Spec

\* Type correctness of the radio.
THEOREM RadioTypes == Radio!Spec => []Radio!TypeOK
<1>1. RadioInv => Radio!TypeOK
  BY DEF RadioInv
<1> QED
  BY <1>1, RadioInvariant, PTL

\* An SPI transaction hangs only after a failure of initialize that left no SPI
\* driver, or in the window a warm chip finds before its reset.
THEOREM HangsAreExplained == Radio!Spec => []Radio!HangsOnlyWithoutSpi
<1>1. RadioInv => Radio!HangsOnlyWithoutSpi
  BY DEF RadioInv
<1> QED
  BY <1>1, RadioInvariant, PTL

\* A high line always has somebody who will bring it down.
THEOREM EdgesSuffice == Radio!Spec => []Radio!NoEventIsForgotten
<1>1. RadioInv => Radio!NoEventIsForgotten
  BY DEF RadioInv
<1> QED
  BY <1>1, RadioInvariant, PTL

\* An event that is handled is an outcome of the outstanding operation.
LEMMA HandleFits ==
  ASSUME RadioInv, NEW e \in Radio!Events, Radio!Handle(e)
  PROVE  e \in Radio!Outcomes(outstanding)
<1>1. listening /\ step \notin BeforeReset
  BY DEF Radio!Handle, RadioInv, BootInv, BeforeReset
<1> QED
  BY <1>1 DEF Radio!Handle, RadioInv, OneAtATime

\* Each callback of the application ends the outstanding operation.
THEOREM CallbacksFit == Radio!Spec => Radio!CallbacksFitTheOperation
<1>1. RadioInv /\ [Radio!Next]_Radio!vars =>
        [\A e \in Radio!Events :
           Radio!Handle(e) /\ callbacks[e] = "application" =>
             e \in Radio!Outcomes(outstanding)]_Radio!vars
  BY HandleFits
<1> QED
  BY <1>1, RadioInvariant, PTL DEF Radio!Spec, Radio!CallbacksFitTheOperation

-----------------------------------------------------------------------------
(* The node. *)

\* The example registers no service.
NoServices ==
  /\ services = {}
  /\ uuid_type = <<>> /\ handle = <<>> /\ placed = <<>>

\* What the chip was told before a restart is what Radio assumes of a warm chip.
MaskInv == mask \in {{}, Radio!Events}

NodeInv == RadioInv /\ MaskInv /\ NoServices /\ TaskInv /\ ReceptionInv

\* A step of the components, each of its own or none.
ComponentStep ==
  /\ [Bluetooth!SetupNext]_Bluetooth!setupVars
  /\ [Radio!Next]_Radio!vars
  /\ [TaskNext]_taskVars

\* The initial states of the components.
ComponentInit == Bluetooth!SetupInit /\ Radio!Init /\ TaskInit

\* Only the reset pin and initialize change the mask.
LEMMA MaskStep == MaskInv /\ [Radio!Next]_Radio!vars => MaskInv'
<1> SUFFICES ASSUME MaskInv, [Radio!Next]_Radio!vars PROVE MaskInv'
  OBVIOUS
<1> USE DEF MaskInv, Radio!chip
<1>1. CASE Radio!Initialize
  BY <1>1 DEF Radio!Initialize, Radio!SetUpIrq, Radio!ResetChip, Radio!StartSpi,
    Radio!InitialiseDriver, Radio!StopSpi, Radio!RestartSpi, Radio!SetDummyCallbacks,
    Radio!SetInterrupt, Radio!SetAddress
<1>2. CASE Radio!SetIrqCallbacks \/ Radio!TransmitNow \/ Radio!TransmitDeffered \/ Radio!ReceiveNow
  BY <1>2 DEF Radio!SetIrqCallbacks, Radio!TransmitNow, Radio!TransmitDeffered, Radio!ReceiveNow,
    Radio!Start
<1>3. CASE Radio!Finish \/ Radio!Isr
  BY <1>3 DEF Radio!Finish, Radio!Isr, Radio!IrqEnter, Radio!ReadStatus, Radio!Handle,
    Radio!CallbackReturns, Radio!IrqExit
<1>4. CASE UNCHANGED Radio!vars
  BY <1>4 DEF Radio!vars
<1> QED
  BY <1>1, <1>2, <1>3, <1>4 DEF Radio!Next

\* Every step of the node is a restart or one of its components.
LEMMA NodeSteps == Next => Restart \/ ComponentStep
<1> SUFFICES ASSUME Next, ~Restart PROVE ComponentStep
  OBVIOUS
<1> USE DEF ComponentStep, bluetooth, radio, Bluetooth!setupVars, Radio!vars
<1>1. CASE CoreInitialize
  BY <1>1 DEF CoreInitialize
<1>2. CASE BluetoothInitialize
  BY <1>2 DEF BluetoothInitialize
<1>3. CASE RadioInitialize
  BY <1>3 DEF RadioInitialize, Radio!Next
<1>4. CASE StartReception
  BY <1>4 DEF StartReception, TaskNext
<1>5. CASE Loop
  BY <1>5 DEF Loop, TaskNext
<1>6. CASE ReturnTyped
  BY <1>6 DEF ReturnTyped, TaskNext
<1>7. CASE \E t \in AppTasks : ScheduleTask(t)
  BY <1>7 DEF ScheduleTask, TaskNext
<1>8. CASE UseRadio
  BY <1>8 DEF UseRadio, Radio!Next
<1>9. CASE Interrupt \/ ChipFinishes
  BY <1>9 DEF Interrupt, ChipFinishes, Radio!Next
<1> QED
  BY <1>1, <1>2, <1>3, <1>4, <1>5, <1>6, <1>7, <1>8, <1>9 DEF Next, MainStep

LEMMA NodeInvInit == Init => NodeInv /\ ComponentInit
<1> SUFFICES ASSUME Init PROVE NodeInv /\ ComponentInit
  OBVIOUS
<1>1. RadioInv /\ TaskInv /\ ReceptionInv
  BY RadioInit, TaskInvInit, ReceptionInit DEF Init
<1>2. NoServices
  <2>1. services = {}
    BY RestartAssumption DEF Init, Bluetooth!SetupInit
  <2>2. uuid_type = [s \in {} |-> 0] /\ handle = [s \in {} |-> 0] /\ placed = [s \in {} |-> 0]
    BY <2>1 DEF Init, Bluetooth!SetupInit
  <2> QED
    BY <2>1, <2>2, SMT DEF NoServices
<1>3. MaskInv
  BY DEF Init, Radio!Init, MaskInv
<1> QED
  BY <1>1, <1>2, <1>3 DEF NodeInv, Init, ComponentInit

\* A restart makes every component begin anew, the radio on a warm chip.
LEMMA RestartStep == NodeInv /\ Restart => NodeInv' /\ ComponentInit'
<1> SUFFICES ASSUME NodeInv, Restart PROVE NodeInv' /\ ComponentInit'
  OBVIOUS
<1>1. Radio!Init'
  BY DEF NodeInv, MaskInv, RadioInv, Radio!TypeOK, Radio!Init, Restart
<1>2. TaskInit'
  BY DEF Restart, TaskInit
<1>3. Bluetooth!SetupInit'
  BY RestartAssumption DEF NodeInv, NoServices, Restart, Bluetooth!SetupInit
<1>4. RadioInv' /\ TaskInv' /\ ReceptionInv'
  BY <1>1, <1>2, RadioInit, TaskInvInit, ReceptionInit, PTL
<1>5. MaskInv' /\ NoServices'
  BY DEF NodeInv, MaskInv, NoServices, Restart
<1> QED
  BY <1>1, <1>2, <1>3, <1>4, <1>5 DEF NodeInv, ComponentInit

LEMMA NodeStep == NodeInv /\ [Next]_vars => NodeInv'
<1> SUFFICES ASSUME NodeInv, [Next]_vars PROVE NodeInv'
  OBVIOUS
<1>1. CASE Restart
  BY <1>1, RestartStep
<1>2. CASE ComponentStep
  <2>1. RadioInv' /\ TaskInv' /\ ReceptionInv'
    BY <1>2, RadioStep, TaskStep, ReceptionStep DEF NodeInv, ComponentStep
  <2>2. NoServices'
    <3>1. CASE Bluetooth!InitializeService
      BY <3>1 DEF NodeInv, NoServices, Bluetooth!InitializeService, Bluetooth!attributes
    <3>2. CASE Bluetooth!SetupNext /\ ~Bluetooth!InitializeService
      BY <3>2 DEF NodeInv, NoServices, Bluetooth!SetupNext, Bluetooth!attributes,
        Bluetooth!InitializeStack, Bluetooth!InitializeGap,
        Bluetooth!InitializeConnectionParameters, Bluetooth!InitializeAdvertising,
        Bluetooth!StartAdvertising, Bluetooth!LogAddress
    <3>3. CASE UNCHANGED Bluetooth!setupVars
      BY <3>3 DEF NodeInv, NoServices, Bluetooth!setupVars
    <3> QED
      BY <1>2, <3>1, <3>2, <3>3 DEF ComponentStep
  <2>3. MaskInv'
    BY <1>2, MaskStep DEF NodeInv, ComponentStep
  <2> QED
    BY <2>1, <2>2, <2>3 DEF NodeInv
<1>3. CASE UNCHANGED vars
  BY <1>3, <1>2 DEF vars, ComponentStep, bluetooth, radio, Bluetooth!setupVars, Radio!vars, taskVars
<1> QED
  BY <1>1, <1>2, <1>3, NodeSteps

LEMMA NodeInvariant == Spec => []NodeInv
BY NodeInvInit, NodeStep, PTL DEF Spec

-----------------------------------------------------------------------------
\* Between two restarts a run of the program is one of each of its components, and
\* it begins where they begin: what the model of each promises on its own holds in
\* the node, and a restart is what Radio assumes of a warm chip.
THEOREM NodeIsItsComponents ==
  Spec => ComponentInit /\ [][ComponentStep \/ (Restart /\ ComponentInit')]_vars
<1>1. NodeInv /\ [Next]_vars => [ComponentStep \/ (Restart /\ ComponentInit')]_vars
  BY NodeSteps, RestartStep
<1> QED
  BY <1>1, NodeInvInit, NodeInvariant, PTL DEF Spec

\* A node hangs in an SPI transaction only where Radio says so, for any number of
\* restarts.
THEOREM NodeHangsAreExplained == Spec => []HangsOnlyWithoutSpi
<1>1. NodeInv => HangsOnlyWithoutSpi
  BY DEF NodeInv, RadioInv, HangsOnlyWithoutSpi
<1> QED
  BY <1>1, NodeInvariant, PTL

\* A high line has somebody who will bring it down, also after a restart.
THEOREM NodeEdgesSuffice == Spec => []NoEventIsForgotten
<1>1. NodeInv => NoEventIsForgotten
  BY DEF NodeInv, RadioInv, NoEventIsForgotten
<1> QED
  BY <1>1, NodeInvariant, PTL

\* What the chip was told before a restart gets to no callback after it.
THEOREM NodeCallbacksFit == Spec => CallbacksFitTheOperation
<1>1. NodeInv /\ [Next]_vars =>
        [\A e \in Radio!Events :
           Radio!Handle(e) /\ callbacks[e] = "application" =>
             e \in Radio!Outcomes(outstanding)]_vars
  BY HandleFits DEF NodeInv
<1> QED
  BY <1>1, NodeInvariant, PTL DEF Spec, CallbacksFitTheOperation

\* A node never loses its command line, whatever interrupts schedule while it boots.
THEOREM NodeHasOneReception == Spec => []OneReception
<1>1. NodeInv => OneReception
  BY ReceptionCounts DEF NodeInv
<1> QED
  BY <1>1, NodeInvariant, PTL
=============================================================================
