--------------------------- MODULE MultiAxeDrive ---------------------------
(***************************************************************************)
(* UDAV/driver/devices/multi_axe_screw_nut_drive.cpp: two screws moved by  *)
(* one controller, PhytronMCC2. A QStateMachine, a timer that compares the *)
(* coordinates with the target while the axes move, and commands. Unlike   *)
(* ScrewNutDrive it trusts the controller with the motion: it gives it an  *)
(* absolute position for each axis. The controller is external: a call may *)
(* be refused, or be obeyed and its answer lost.                           *)
(***************************************************************************)
EXTENDS Integers, Sequences

CONSTANTS
  Axes,           \* AXE_X and AXE_Y
  End,            \* where each axis ends, in steps of its motor
  Resolutions,    \* what stepsForMm_ may be after the setters
  Travels,        \* what maxDistance_ may be, the garbage it starts with included, in
                  \* half millimetres
  Coords,         \* positions asked of moveTo(), in half millimetres
  Distances,      \* distances asked of moveNegative() and movePositive(), in the same
  MaxQueue,       \* bound: events waiting for the state machine
  Fallible        \* the calls to the controller that may fail

ASSUME EndAssumption == End \in [Axes -> Nat]
ASSUME ResolutionsAssumption == Resolutions \subseteq Nat \ {0}
ASSUME PositionsAssumption ==
  Travels \subseteq Nat /\ Coords \subseteq Int /\ Distances \subseteq Nat
ASSUME QueueAssumption == MaxQueue \in Nat

VARIABLES
  state,       \* the active state of machine_, "off" before run()
  queue,       \* events posted to machine_ and not yet processed
  draining,    \* machine_ is going through its queue; nothing else runs
  timer,       \* timer_ is active
  inited,      \* inited_
  pos,         \* pos_, by axis
  nextPos,     \* nextPos_, by axis
  stepsForMm,  \* stepsForMm_, by axis
  maxDistance, \* maxDistance_, by axis
  phys,        \* where each axis is, in steps
  goal,        \* where the controller is taking it
  located      \* history: the coordinates were read when the drive last stopped

machineVars == <<state, queue, draining, timer, inited>>
configVars == <<stepsForMm, maxDistance>>
axesVars == <<phys, goal>>
vars == <<machineVars, pos, nextPos, configVars, axesVars, located>>

-----------------------------------------------------------------------------
(* The controller, and the geometry of the screws. pos_ and nextPos_ are   *)
(* numbers with a fraction: they are kept in halves of a step, in which a  *)
(* coordinate read and half a millimetre, asked for, are both whole.       *)

Outcomes(call) == {"ok"} \cup (IF call \in Fallible THEN {"lost", "refused"} ELSE {})
Obeyed(o) == o # "refused"

Halves(c, a) == c * stepsForMm[a]
Coord(a) == 2 * phys[a]
Position == [a \in Axes |-> Coord(a)]

\* stepsForDistance() cuts what is left of a step.
StepsForDistance(n) == IF n >= 0 THEN n \div 2 ELSE -((-n) \div 2)

\* What moveTo() is asked for, by axis.
Targets(t) == [a \in Axes |-> Halves(t[a], a)]

\* almostEqual(p, q, 0.5)
Near(p, q, a) == p - q \in -stepsForMm[a]..stepsForMm[a]

AxisStep(a) ==
  /\ phys[a] # goal[a]
  /\ phys' = [phys EXCEPT ![a] = IF @ < goal[a] THEN @ + 1 ELSE @ - 1]
  /\ UNCHANGED <<machineVars, pos, nextPos, configVars, goal, located>>

\* A command to each axis, each with an outcome of its own: out[a].
Commanded(out, to) == goal' = [a \in Axes |-> IF Obeyed(out[a]) THEN to[a] ELSE goal[a]]
AllOk(out) == \A a \in Axes : out[a] = "ok"

-----------------------------------------------------------------------------
(* The slots connected to entered() of the states; rest is what is queued. *)

Event(s, r) == [at |-> s, what |-> r]

\* Mutation: the result of the settings is not posted when it is bad.
InitStarted_OnlySuccess(rest) ==
  \E c \in Outcomes("configure"), out \in [Axes -> Outcomes("moveToEnd")] :
    /\ queue' = IF c = "ok" THEN Append(rest, Event("initing", "SUCCEED")) ELSE rest
    /\ pos' = [a \in Axes |-> 0] /\ nextPos' = pos'
    /\ Commanded(out, End)
    /\ UNCHANGED timer

\* initStarted_(): the axes are sent to their ends after the outcome was posted,
\* a bad one too, and whether they went is not looked at.
InitStarted(rest) ==
  \E c \in Outcomes("configure"), out \in [Axes -> Outcomes("moveToEnd")] :
    /\ queue' = Append(rest, Event("initing", IF c = "ok" THEN "SUCCEED" ELSE "FAILED"))
    /\ pos' = [a \in Axes |-> 0] /\ nextPos' = pos'
    /\ Commanded(out, End)
    /\ UNCHANGED timer

\* Mutation: the drive takes itself to be where it was going.
StoppedEntered_AtTarget(rest) ==
  /\ timer' = FALSE
  /\ \E r \in Outcomes("curCoord") : located' = (r = "ok")
  /\ pos' = nextPos
  /\ \/ queue' = rest /\ UNCHANGED nextPos
     \/ /\ \E t \in [Axes -> Coords] : nextPos' = Targets(t)
        /\ queue' = Append(rest, Event("stopped", "MOVE"))

\* stoppedEntered_(). movingDone() is emitted whatever happened, and a slot
\* connected to it may ask for the next move at once.
StoppedEntered(rest) ==
  /\ timer' = FALSE
  /\ \E r \in Outcomes("curCoord") :
       LET after == IF r = "ok" THEN rest ELSE Append(rest, Event("stopped", "FAILED"))
       IN  /\ pos' = IF r = "ok" THEN Position ELSE pos
           /\ located' = (r = "ok")
           /\ \/ queue' = after /\ UNCHANGED nextPos
              \/ /\ \E t \in [Axes -> Coords] : nextPos' = Targets(t)
                 /\ queue' = Append(after, Event("stopped", "MOVE"))

\* Mutation: the timer is not started.
MovingStarted_NotPolled(rest) ==
  \E r \in Outcomes("curCoord"), out \in [Axes -> Outcomes("moveTo")] :
    LET after == IF r = "ok" THEN rest ELSE Append(rest, Event("stopped", "FAILED"))
    IN  /\ pos' = IF r = "ok" THEN Position ELSE pos
        /\ Commanded(out, [a \in Axes |-> StepsForDistance(nextPos[a])])
        /\ UNCHANGED timer
        /\ queue' = IF AllOk(out) THEN after ELSE Append(after, Event("moving", "FAILED"))

\* movingStarted_(). Unread coordinates are reported for the stopped state, which
\* is not active any more, and forgotten.
MovingStarted(rest) ==
  \E r \in Outcomes("curCoord"), out \in [Axes -> Outcomes("moveTo")] :
    LET after == IF r = "ok" THEN rest ELSE Append(rest, Event("stopped", "FAILED"))
    IN  /\ pos' = IF r = "ok" THEN Position ELSE pos
        /\ Commanded(out, [a \in Axes |-> StepsForDistance(nextPos[a])])
        /\ timer' = (timer \/ AllOk(out))
        /\ queue' = IF AllOk(out) THEN after ELSE Append(after, Event("moving", "FAILED"))

-----------------------------------------------------------------------------
(* machine_. The search for zero has no transition left to it.             *)

Transitions ==
  {<<"initing", "SUCCEED", "stopped">>, <<"initing", "FAILED", "failed">>,
   <<"stopped", "MOVE", "moving">>,
   <<"moving", "SUCCEED", "stopped">>, <<"moving", "FAILED", "failed">>,
   <<"moving", "STOP", "stopped">>}

Takes(target) ==
  /\ queue # <<>>
  /\ Head(queue).at = state
  /\ <<state, Head(queue).what, target>> \in Transitions

\* machine_ goes on until no event is left.
Drains == draining' = (queue' # <<>>)

\* exited() of initing: initFinished_().
LeaveState == inited' = (inited \/ state = "initing")

EntersStopped ==
  /\ Takes("stopped")
  /\ state' = "stopped" /\ LeaveState
  /\ StoppedEntered(Tail(queue))
  /\ Drains
  /\ UNCHANGED <<configVars, axesVars>>

EntersMoving ==
  /\ Takes("moving")
  /\ state' = "moving" /\ LeaveState
  /\ MovingStarted(Tail(queue))
  /\ Drains
  /\ UNCHANGED <<nextPos, configVars, phys, located>>

\* failedEntered_(): nothing is said to the controller.
EntersFailed ==
  /\ Takes("failed")
  /\ state' = "failed" /\ LeaveState
  /\ timer' = FALSE
  /\ queue' = Tail(queue)
  /\ Drains
  /\ UNCHANGED <<pos, nextPos, configVars, axesVars, located>>

\* An event that no transition of the active state waits for.
DropsEvent ==
  /\ queue # <<>>
  /\ ~Takes("stopped") /\ ~Takes("moving") /\ ~Takes("failed")
  /\ queue' = Tail(queue)
  /\ Drains
  /\ UNCHANGED <<state, timer, inited, pos, nextPos, configVars, axesVars, located>>

ProcessEvent == EntersStopped \/ EntersMoving \/ EntersFailed \/ DropsEvent

\* The setters: stepsForMm_ is worked out again by each of them.
Configure(a) ==
  /\ state = "off"
  /\ \E n \in Resolutions : stepsForMm' = [stepsForMm EXCEPT ![a] = n]
  /\ \E d \in Travels : maxDistance' = [maxDistance EXCEPT ![a] = d]
  /\ UNCHANGED <<machineVars, pos, nextPos, axesVars, located>>

\* Device::run()
Run ==
  /\ state = "off"
  /\ state' = "initing"
  /\ InitStarted(<<>>)
  /\ Drains
  /\ UNCHANGED <<inited, configVars, phys, located>>

-----------------------------------------------------------------------------
(* The timer and the commands, between two runs of machine_.               *)

Idle == ~draining /\ Len(queue) < MaxQueue

Posts(s, r) == queue' = Append(queue, Event(s, r))

\* Mutation: one axis that has arrived is enough.
CheckMoving_AnyAxis ==
  /\ timer /\ Idle /\ state = "moving"
  /\ \E r \in Outcomes("curCoord") :
       \/ r # "ok" /\ Posts("moving", "FAILED") /\ UNCHANGED pos
       \/ /\ r = "ok" /\ \E a \in Axes : Near(Coord(a), nextPos[a], a)
          /\ Posts("moving", "SUCCEED") /\ pos' = Position
       \/ /\ r = "ok" /\ \A a \in Axes : ~Near(Coord(a), nextPos[a], a)
          /\ UNCHANGED <<queue, pos>>
  /\ UNCHANGED <<state, draining, timer, inited, nextPos, configVars, axesVars, located>>

\* checkMoving_(): the drive has arrived when each axis is within half a
\* millimetre of its target; the axes may still be moving.
CheckMoving ==
  /\ timer /\ Idle /\ state = "moving"
  /\ \E r \in Outcomes("curCoord") :
       \/ r # "ok" /\ Posts("moving", "FAILED") /\ UNCHANGED pos
       \/ /\ r = "ok" /\ \A a \in Axes : Near(Coord(a), nextPos[a], a)
          /\ Posts("moving", "SUCCEED") /\ pos' = Position
       \/ /\ r = "ok" /\ \E a \in Axes : ~Near(Coord(a), nextPos[a], a)
          /\ UNCHANGED <<queue, pos>>
  /\ UNCHANGED <<state, draining, timer, inited, nextPos, configVars, axesVars, located>>

\* Mutation: moves are accepted while the drive moves.
MoveAllowed_Anytime == state \in {"stopped", "moving"} /\ Idle

MoveAllowed == state = "stopped" /\ Idle

Accept(target) ==
  /\ nextPos' = target
  /\ Posts("stopped", "MOVE")
  /\ UNCHANGED <<state, draining, timer, inited, pos, configVars, axesVars, located>>

\* The other axis keeps nextPos_: after stop(), the target it did not reach.
AcceptAxis(a, target) == Accept([nextPos EXCEPT ![a] = target])

GoHome == MoveAllowed /\ inited /\ Accept([a \in Axes |-> 0])

\* Mutation: the limit at zero is commented out, as in ScrewNutDrive.
MoveNegative_Unlimited(d, a) ==
  MoveAllowed /\ inited /\ AcceptAxis(a, pos[a] - Halves(d, a))

MoveNegative(d, a) ==
  /\ MoveAllowed /\ inited /\ pos[a] - Halves(d, a) >= 0
  /\ AcceptAxis(a, pos[a] - Halves(d, a))

MovePositive(d, a) ==
  /\ MoveAllowed /\ inited /\ pos[a] + Halves(d, a) <= Halves(maxDistance[a], a)
  /\ AcceptAxis(a, pos[a] + Halves(d, a))

\* Neither limits nor inited_ are checked.
MoveToBoth(t) == MoveAllowed /\ Accept(Targets(t))
MoveTo(c, a) == MoveAllowed /\ AcceptAxis(a, Halves(c, a))

\* stop(): each axis is told, and one that may not have heard fails the drive.
Stop ==
  /\ inited /\ state = "moving" /\ Idle
  /\ \E out \in [Axes -> Outcomes("stop")] :
       /\ Commanded(out, phys)
       /\ Posts("moving", IF AllOk(out) THEN "STOP" ELSE "FAILED")
  /\ UNCHANGED <<state, draining, timer, inited, pos, nextPos, configVars, phys, located>>

Commands ==
  \/ GoHome \/ Stop
  \/ \E a \in Axes :
       \/ \E d \in Distances : MoveNegative(d, a) \/ MovePositive(d, a)
       \/ \E c \in Coords : MoveTo(c, a)
  \/ \E t \in [Axes -> Coords] : MoveToBoth(t)

-----------------------------------------------------------------------------

\* maxDistance_ is not initialised: any value. pos_ and nextPos_ neither, but
\* they are set before they are read.
Init ==
  /\ state = "off" /\ queue = <<>> /\ draining = FALSE /\ timer = FALSE /\ inited = FALSE
  /\ pos = [a \in Axes |-> 0] /\ nextPos = pos
  /\ \E n \in Resolutions : stepsForMm = [a \in Axes |-> n]
  /\ maxDistance \in [Axes -> Travels]
  /\ phys \in [Axes -> {0}] /\ goal = phys
  /\ located = FALSE

Next ==
  \/ Run \/ ProcessEvent \/ CheckMoving \/ Commands
  \/ \E a \in Axes : Configure(a) \/ AxisStep(a)

Spec == Init /\ [][Next]_vars

\* What the timer of a move waits for.
Arrived == \A a \in Axes : Near(Coord(a), nextPos[a], a)

\* The event loop processes what is posted, the motors turn, and the timer fires: a check
\* of axes that have arrived sees it, or fails. Nothing makes an earlier one fail: it may
\* find the axes on their way for ever.
Fairness ==
  /\ WF_vars(ProcessEvent) /\ WF_vars(Arrived /\ CheckMoving)
  /\ \A a \in Axes : WF_vars(AxisStep(a))

FairSpec == Spec /\ Fairness

-----------------------------------------------------------------------------
(* Safety.                                                                 *)

States == {"off", "initing", "stopped", "moving", "failed"}
Events == [at : States, what : {"SUCCEED", "FAILED", "MOVE", "STOP"}]

AboveZero ==
  \A a \in Axes : pos[a] >= 0 /\ nextPos[a] >= 0 /\ phys[a] >= 0 /\ goal[a] >= 0

\* Every variable stays within its type; no axis is sent below zero, unless moveTo() is
\* asked to.
TypeOK ==
  /\ state \in States /\ queue \in Seq(Events)
  /\ draining \in BOOLEAN /\ timer \in BOOLEAN /\ inited \in BOOLEAN /\ located \in BOOLEAN
  /\ pos \in [Axes -> Int] /\ nextPos \in [Axes -> Int]
  /\ stepsForMm \in [Axes -> Resolutions] /\ maxDistance \in [Axes -> Travels]
  /\ phys \in [Axes -> Int] /\ goal \in [Axes -> Int]
  /\ Coords \subseteq Nat => AboveZero

Awaits(s, r) == \E i \in DOMAIN queue : queue[i] = Event(s, r)

\* A state that waits for the controller is polled, or the event that ends it is
\* queued: no failure leaves the drive waiting for a poll that will not come.
NeverStranded ==
  state \in {"initing", "moving"}
    => timer \/ \E i \in DOMAIN queue : queue[i].at = state

\* While the drive moves each axis is on its way to the position last accepted
\* for it, unless a stop or a failure is about to end the move: no command given
\* before the move, and nothing left of the initial travel, sends it elsewhere.
OnItsWay ==
  (state = "moving" /\ ~Awaits("moving", "STOP") /\ ~Awaits("moving", "FAILED"))
    => \A a \in Axes : goal[a] = StepsForDistance(nextPos[a])

\* To half a millimetre, and the part of a step that a target is cut by.
Close(p, q, a) == p - q \in -(stepsForMm[a] + 1)..(stepsForMm[a] + 1)

\* pos_, from which relative moves are calculated and limited, is close to where a
\* stopped axis is, if it could be read and the axis is not on the travel to its
\* end that the initialisation leaves running behind it.
PositionKnown ==
  (state = "stopped" /\ located)
    => \A a \in Axes : goal[a] = End[a] \/ Close(pos[a], Coord(a), a)

\* A move reported as completed has brought both axes to the last target accepted.
ArrivesAtTarget ==
  [][(state = "moving" /\ state' = "stopped" /\ Head(queue).what = "SUCCEED")
       => \A a \in Axes : Near(Coord(a), nextPos[a], a)]_vars

-----------------------------------------------------------------------------
(* Liveness.                                                               *)

\* Every move comes to an end.
MotionEnds == (state = "moving") ~> (state \in {"stopped", "failed"})

=============================================================================
