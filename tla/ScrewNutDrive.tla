--------------------------- MODULE ScrewNutDrive ---------------------------
(***************************************************************************)
(* UDAV/driver/devices/screw_nut_drive.cpp: a screw and nut drive moved by *)
(* a stepper motor. The drive is a QStateMachine fed with events, a timer  *)
(* that polls the motor's controller while something moves, and commands   *)
(* that post events. The controller (OnitexOSM) and the table it moves are *)
(* external: a call to it may be refused, or be obeyed and its answer lost.*)
(***************************************************************************)
EXTENDS Integers, Sequences

CONSTANTS
  MaxSteps,       \* maxDistance_ in steps of the motor
  TicksPerStep,   \* resolution of requested positions, finer than a step
  Coords,         \* positions asked of moveTo(), in ticks
  Distances,      \* distances asked of moveNegative() and movePositive()
  Lowest,         \* bound: moveNegative() knows no limit, its callers stay above
  MaxQueue,       \* bound: events waiting for the state machine
  Fallible        \* the calls to the controller that may fail

ASSUME StepsAssumption == MaxSteps \in Nat /\ MaxSteps >= 2
ASSUME TicksAssumption == TicksPerStep \in Nat \ {0}
ASSUME CoordsAssumption == Coords \subseteq Int /\ Distances \subseteq Nat
ASSUME BoundsAssumption == Lowest \in Int /\ MaxQueue \in Nat

VARIABLES
  state,      \* the active state of machine_, "off" before run()
  queue,      \* events posted to machine_ and not yet processed
  draining,   \* machine_ is going through its queue; nothing else runs
  timer,      \* timer_ is active
  inited,     \* inited_
  pos,        \* pos_, in ticks
  nextPos,    \* nextPos_, in ticks
  phys,       \* where the table is, in steps from the home switch
  dir,        \* direction set in the controller: 1 or -1
  left,       \* steps the motor has yet to make
  homing      \* the controller is looking for the home switch

softVars == <<state, queue, draining, timer, inited, pos, nextPos>>
motorVars == <<dir, left, homing>>
driveVars == <<softVars, phys, motorVars>>

-----------------------------------------------------------------------------
(* The controller.                                                         *)

Calls == {"configure", "isAtHome", "setDirection", "startMovinig", "stopMoving",
          "findHome", "setZeroPosition", "readStepsCounter", "readPosition"}

\* How a call may end: obeyed, obeyed with its answer lost, or refused.
Outcomes(call) == {"ok"} \cup (IF call \in Fallible THEN {"lost", "refused"} ELSE {})
Obeyed(o) == o # "refused"

AtHome == phys <= 0
MotorIdle == left = 0 /\ ~homing

\* The motor makes one step, and stops at the home switch if it looks for it.
MotorStep ==
  /\ \/ homing /\ phys' = phys - 1 /\ homing' = (phys' > 0) /\ UNCHANGED left
     \/ ~homing /\ left > 0 /\ phys' = phys + dir /\ left' = left - 1 /\ UNCHANGED homing
  /\ UNCHANGED <<softVars, dir>>

\* maxDistance_ in ticks.
Limit == MaxSteps * TicksPerStep

StepsForDistance(ticks) == ticks \div TicksPerStep
Magnitude(n) == IF n < 0 THEN -n ELSE n

-----------------------------------------------------------------------------
(* The slots connected to entered() of the states. They post at the end of *)
(* what is still queued: rest.                                             *)

Event(s, r) == [at |-> s, what |-> r]

\* initStarted_(). That the motor could not be started is not noticed.
InitStarted(rest) ==
  \E c \in Outcomes("configure"), h \in Outcomes("isAtHome") :
    \/ /\ c # "ok" \/ h # "ok"
       /\ queue' = Append(rest, Event("initing", "FAILED"))
       /\ UNCHANGED <<timer, motorVars>>
    \/ /\ c = "ok" /\ h = "ok" /\ ~AtHome
       /\ queue' = Append(rest, Event("initing", "SUCCEED"))
       /\ UNCHANGED <<timer, motorVars>>
    \/ /\ c = "ok" /\ h = "ok" /\ AtHome
       /\ \E d \in Outcomes("setDirection") : dir' = IF Obeyed(d) THEN 1 ELSE dir
       /\ \E s \in Outcomes("startMovinig") :
            left' = IF Obeyed(s) THEN MaxSteps \div 2 ELSE left
       /\ timer' = TRUE
       /\ queue' = rest
       /\ UNCHANGED homing

\* Mutation: the timer is started before initFinished_() stops it.
ZeroSearchStarted_Unpolled(rest) ==
  \E d \in Outcomes("setDirection"), f \in Outcomes("findHome") :
    /\ dir' = IF Obeyed(d) THEN -1 ELSE dir
    /\ homing' = (homing \/ (Obeyed(f) /\ ~AtHome))
    /\ timer' = FALSE
    /\ queue' = IF d = "ok" /\ f = "ok"
                  THEN rest ELSE Append(rest, Event("zeroSearching", "FAILED"))
    /\ UNCHANGED left

\* zeroSearchStarted_(), after initFinished_() has stopped the timer.
ZeroSearchStarted(rest) ==
  \E d \in Outcomes("setDirection"), f \in Outcomes("findHome") :
    /\ dir' = IF Obeyed(d) THEN -1 ELSE dir
    /\ homing' = (homing \/ (Obeyed(f) /\ ~AtHome))
    /\ timer' = (d = "ok" /\ f = "ok")
    /\ queue' = IF timer' THEN rest ELSE Append(rest, Event("zeroSearching", "FAILED"))
    /\ UNCHANGED left

\* Mutation: the encoder is not read, the move is taken to have succeeded.
StoppedEntered_NoEncoder(rest) ==
  /\ timer' = FALSE
  /\ pos' = nextPos
  /\ \/ queue' = rest /\ UNCHANGED nextPos
     \/ /\ nextPos' \in {c \in Coords : c <= Limit}
        /\ queue' = Append(rest, Event("stopped", "MOVE"))

\* stoppedEntered_(). A slot connected to movingDone() may ask for the next move
\* at once. No transition takes the failure that is posted.
StoppedEntered(rest) ==
  /\ timer' = FALSE
  /\ \E r \in Outcomes("readPosition") :
       IF r = "ok"
         THEN /\ pos' = phys * TicksPerStep
              /\ \/ nextPos' = pos' /\ queue' = rest
                 \/ /\ nextPos' \in {c \in Coords : c <= Limit}
                    /\ queue' = Append(rest, Event("stopped", "MOVE"))
         ELSE /\ queue' = Append(rest, Event("stopped", "FAILED"))
              /\ UNCHANGED <<pos, nextPos>>

\* Mutation: the distance is not made positive.
MovingStarted_Signed(rest) ==
  LET steps == StepsForDistance(nextPos - pos)
  IN  /\ dir' = IF steps > 0 THEN 1 ELSE -1
      /\ left' = steps
      /\ timer' = TRUE
      /\ queue' = rest

\* movingStarted_()
MovingStarted(rest) ==
  LET dist == nextPos - pos
      steps == StepsForDistance(Magnitude(dist))
  IN  IF steps = 0
        THEN /\ queue' = Append(rest, Event("moving", "SUCCEED"))
             /\ UNCHANGED <<timer, dir, left>>
        ELSE \E d \in Outcomes("setDirection"), s \in Outcomes("startMovinig") :
               /\ dir' = IF Obeyed(d) THEN (IF dist > 0 THEN 1 ELSE -1) ELSE dir
               /\ left' = IF Obeyed(s) THEN steps ELSE left
               /\ IF d = "ok" /\ s = "ok"
                    THEN timer' = TRUE /\ queue' = rest
                    ELSE /\ queue' = Append(rest, Event("moving", "FAILED"))
                         /\ UNCHANGED timer

-----------------------------------------------------------------------------
(* machine_                                                                *)

\* The transitions; each takes only an event posted for its source state.
Transitions ==
  {<<"initing", "SUCCEED", "zeroSearching">>, <<"initing", "FAILED", "failed">>,
   <<"zeroSearching", "SUCCEED", "stopped">>, <<"zeroSearching", "FAILED", "failed">>,
   <<"stopped", "MOVE", "moving">>,
   <<"moving", "SUCCEED", "stopped">>, <<"moving", "FAILED", "failed">>,
   <<"moving", "STOP", "stopped">>}

\* The next event makes machine_ go from its state to target.
Takes(target) ==
  /\ queue # <<>>
  /\ Head(queue).at = state
  /\ <<state, Head(queue).what, target>> \in Transitions

\* Once at work machine_ goes on until no event is left, the events posted by the
\* slots it calls included.
Drains == draining' = (queue' # <<>>)

\* exited() of initing: initFinished_().
LeaveState == inited' = (inited \/ state = "initing")

EntersZeroSearching ==
  /\ Takes("zeroSearching")
  /\ state' = "zeroSearching" /\ LeaveState
  /\ ZeroSearchStarted(Tail(queue))
  /\ Drains
  /\ UNCHANGED <<pos, nextPos, phys>>

EntersStopped ==
  /\ Takes("stopped")
  /\ state' = "stopped" /\ LeaveState
  /\ StoppedEntered(Tail(queue))
  /\ Drains
  /\ UNCHANGED <<phys, motorVars>>

EntersMoving ==
  /\ Takes("moving")
  /\ state' = "moving" /\ LeaveState
  /\ MovingStarted(Tail(queue))
  /\ Drains
  /\ UNCHANGED <<pos, nextPos, phys, homing>>

\* failedEntered_(): nothing is said to the controller.
EntersFailed ==
  /\ Takes("failed")
  /\ state' = "failed" /\ LeaveState
  /\ timer' = FALSE
  /\ queue' = Tail(queue)
  /\ Drains
  /\ UNCHANGED <<pos, nextPos, phys, motorVars>>

\* An event posted for a state that is not active any more, or that no
\* transition waits for.
DropsEvent ==
  /\ queue # <<>>
  /\ \A t \in {"zeroSearching", "stopped", "moving", "failed"} : ~Takes(t)
  /\ queue' = Tail(queue)
  /\ Drains
  /\ UNCHANGED <<state, timer, inited, pos, nextPos, phys, motorVars>>

ProcessEvent ==
  EntersZeroSearching \/ EntersStopped \/ EntersMoving \/ EntersFailed \/ DropsEvent

\* Device::run()
Run ==
  /\ state = "off"
  /\ state' = "initing"
  /\ InitStarted(<<>>)
  /\ Drains
  /\ UNCHANGED <<inited, pos, nextPos, phys>>

-----------------------------------------------------------------------------
(* checkMoving_(), called by the timer between two runs of machine_.       *)

Polls == timer /\ ~draining /\ Len(queue) < MaxQueue

Posts(r) == queue' = Append(queue, Event(state, r))

PollIniting ==
  /\ Polls /\ state = "initing"
  /\ \E h \in Outcomes("isAtHome") :
       \/ h # "ok" /\ Posts("FAILED") /\ UNCHANGED <<inited, left, homing>>
       \/ h = "ok" /\ AtHome /\ UNCHANGED <<queue, inited, left, homing>>
       \/ /\ h = "ok" /\ ~AtHome
          /\ \E s \in Outcomes("stopMoving") :
               /\ left' = IF Obeyed(s) THEN 0 ELSE left
               /\ homing' = (homing /\ ~Obeyed(s))
               /\ Posts(IF s = "ok" THEN "SUCCEED" ELSE "FAILED")
          /\ inited' = TRUE
  /\ UNCHANGED <<state, draining, timer, pos, nextPos, phys, dir>>

\* Mutation: failures are posted for the state of the block below.
PollZeroSearching_OfIniting ==
  /\ Polls /\ state = "zeroSearching"
  /\ \E h \in Outcomes("isAtHome"), z \in Outcomes("setZeroPosition") :
       \/ h = "ok" /\ ~AtHome /\ UNCHANGED <<queue, pos, nextPos>>
       \/ h = "ok" /\ AtHome /\ z = "ok" /\ Posts("SUCCEED") /\ pos' = 0 /\ nextPos' = 0
       \/ /\ h # "ok" \/ (AtHome /\ z # "ok")
          /\ queue' = Append(queue, Event("initing", "FAILED")) /\ UNCHANGED <<pos, nextPos>>
  /\ UNCHANGED <<state, draining, timer, inited, phys, motorVars>>

PollZeroSearching ==
  /\ Polls /\ state = "zeroSearching"
  /\ \E h \in Outcomes("isAtHome"), z \in Outcomes("setZeroPosition") :
       \/ h = "ok" /\ ~AtHome /\ UNCHANGED <<queue, pos, nextPos>>
       \/ h = "ok" /\ AtHome /\ z = "ok" /\ Posts("SUCCEED") /\ pos' = 0 /\ nextPos' = 0
       \/ /\ h # "ok" \/ (AtHome /\ z # "ok")
          /\ Posts("FAILED") /\ UNCHANGED <<pos, nextPos>>
  /\ UNCHANGED <<state, draining, timer, inited, phys, motorVars>>

PollMoving ==
  /\ Polls /\ state = "moving"
  /\ \E r \in Outcomes("readStepsCounter") :
       \/ r # "ok" /\ Posts("FAILED") /\ UNCHANGED pos
       \/ r = "ok" /\ left > 0 /\ UNCHANGED <<queue, pos>>
       \/ r = "ok" /\ left = 0 /\ Posts("SUCCEED") /\ pos' = nextPos
  /\ UNCHANGED <<state, draining, timer, inited, nextPos, phys, motorVars>>

CheckMoving == PollIniting \/ PollZeroSearching \/ PollMoving

-----------------------------------------------------------------------------
(* Commands.                                                               *)

\* Mutation: the check that the drive is stopped is missing.
MoveAllowed_Anytime == inited /\ ~draining /\ Len(queue) < MaxQueue

MoveAllowed == inited /\ state = "stopped" /\ ~draining /\ Len(queue) < MaxQueue

\* What the four commands do once their checks are passed: a second command
\* before the first is processed replaces the target.
Accept(target) ==
  /\ nextPos' = target
  /\ queue' = Append(queue, Event("stopped", "MOVE"))
  /\ UNCHANGED <<state, draining, timer, inited, pos, phys, motorVars>>

GoHome == MoveAllowed /\ Accept(0)

\* No limit: the check is commented out.
MoveNegative(d) == MoveAllowed /\ pos - d >= Lowest /\ Accept(pos - d)

\* Mutation: the distance is compared with the limit, not the position reached.
MovePositive_Distance(d) ==
  MoveAllowed /\ d <= Limit /\ Accept(pos + d)

MovePositive(d) == MoveAllowed /\ pos + d <= Limit /\ Accept(pos + d)

MoveTo(c) == MoveAllowed /\ c <= Limit /\ Accept(c)

\* Mutation: the motor is left to the state machine.
Stop_PostsOnly ==
  /\ inited /\ state = "moving" /\ ~draining /\ Len(queue) < MaxQueue
  /\ Posts("STOP")
  /\ UNCHANGED <<state, draining, timer, inited, pos, nextPos, phys, motorVars>>

\* stop(): the answer of the controller is not looked at.
Stop ==
  /\ inited /\ state = "moving" /\ ~draining /\ Len(queue) < MaxQueue
  /\ \E s \in Outcomes("stopMoving") :
       /\ left' = IF Obeyed(s) THEN 0 ELSE left
       /\ homing' = (homing /\ ~Obeyed(s))
  /\ Posts("STOP")
  /\ UNCHANGED <<state, draining, timer, inited, pos, nextPos, phys, dir>>

Commands ==
  \/ GoHome \/ Stop
  \/ \E d \in Distances : MoveNegative(d) \/ MovePositive(d)
  \/ \E c \in Coords : MoveTo(c)

-----------------------------------------------------------------------------

\* pos_ and nextPos_ are not initialised; nothing reads them before they are set.
Init ==
  /\ state = "off" /\ queue = <<>> /\ draining = FALSE
  /\ timer = FALSE /\ inited = FALSE
  /\ pos = 0 /\ nextPos = 0
  /\ phys \in 0..MaxSteps
  /\ dir \in {1, -1} /\ left = 0 /\ homing = FALSE

Next == Run \/ ProcessEvent \/ CheckMoving \/ Commands \/ MotorStep

Spec == Init /\ [][Next]_driveVars

\* What the timer waits for in the active state has come about.
Arrived ==
  \/ state = "initing" /\ ~AtHome
  \/ state = "zeroSearching" /\ AtHome
  \/ state = "moving" /\ left = 0

\* The event loop processes what is posted, the motor turns, and the timer fires: a
\* check made when there is something to see sees it, or fails. Before that a check may
\* fail, but nothing makes it: the answer may be "not yet" for ever.
Fairness ==
  /\ WF_driveVars(ProcessEvent) /\ WF_driveVars(MotorStep)
  /\ WF_driveVars(Arrived /\ CheckMoving)

FairSpec == Spec /\ Fairness

-----------------------------------------------------------------------------
(* Safety.                                                                 *)

States == {"off", "initing", "zeroSearching", "stopped", "moving", "failed"}
Events == [at : States, what : {"SUCCEED", "FAILED", "MOVE", "STOP"}]

\* Every variable stays within its type; what is asked of the motor is never negative.
TypeOK ==
  /\ state \in States
  /\ queue \in Seq(Events)
  /\ draining \in BOOLEAN /\ timer \in BOOLEAN /\ inited \in BOOLEAN
  /\ pos \in Int
  /\ nextPos \in Int
  /\ phys \in Int
  /\ dir \in {1, -1} /\ left \in Nat /\ homing \in BOOLEAN

\* A drive that says it is stopped stands still: no completion, stop or start
\* left over from an earlier move takes it there, or sets it going there.
StoppedMeansStill == state = "stopped" => MotorIdle

\* pos_, from which every move is calculated, is where the table is.
PositionTrue == state = "stopped" => pos = phys * TicksPerStep

\* The table never passes the limit that the commands check, while the drive has
\* not failed: moves are checked against pos_ and carried out from where it is.
WithinTravel ==
  (state # "failed" /\ ~\E i \in DOMAIN queue : queue[i].what = "FAILED")
    => phys <= MaxSteps

\* A state that waits for the controller has its timer running, or the event
\* that ends it is queued: no state waits for a poll that will not come.
NeverStranded ==
  state \in {"initing", "zeroSearching", "moving"}
    => timer \/ \E i \in DOMAIN queue : queue[i].at = state

\* A move that is reported as completed has arrived, to the step, at the last
\* target accepted.
ArrivesAtTarget ==
  [][(state = "moving" /\ state' = "stopped" /\ Head(queue).what = "SUCCEED")
       => Magnitude(nextPos - phys * TicksPerStep) < TicksPerStep]_driveVars

\* What the two first properties rest on. The events posted for the active state
\* come last in the queue, so that none of them outlives the state;
Queued(q, s, r) == \E i \in DOMAIN q : q[i] = Event(s, r)

Ordered(q, s) == \A i, j \in DOMAIN q : i < j /\ q[i].at = s => q[j].at = s

\* and those that report the end of a motion are posted when it has ended.
ReportsTrue ==
  /\ state = "initing" /\ Queued(queue, state, "SUCCEED") => left = 0
  /\ state = "zeroSearching" /\ Queued(queue, state, "SUCCEED") => ~homing
  /\ state = "moving" /\ (Queued(queue, state, "SUCCEED") \/ Queued(queue, state, "STOP"))
       => left = 0

\* The inductive form of StoppedMeansStill and PositionTrue.
RestInv ==
  /\ Ordered(queue, state)
  /\ ReportsTrue
  /\ homing => phys > 0 /\ state \in {"zeroSearching", "failed"}
  /\ state = "zeroSearching" => left = 0
  /\ state = "off" => queue = <<>> /\ MotorIdle
  /\ StoppedMeansStill
  /\ PositionTrue

-----------------------------------------------------------------------------
(* Liveness.                                                               *)

\* The search for the home switch, and every move, come to an end.
MotionEnds == (state \in {"zeroSearching", "moving"}) ~> (state \in {"stopped", "failed"})

-----------------------------------------------------------------------------
(* What comments of the code say and the code does not do.                 *)

\* screw_nut_drive.cpp:72-75: from the initialisation the drive goes on to the
\* search for zero, or in case of a failure to FAILED.
InitConcludes == (state = "initing") ~> (state # "initing")

=============================================================================
