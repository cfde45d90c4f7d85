------------------------ MODULE MultiAxeDriveProofs ------------------------
(***************************************************************************)
(* Theorems about MultiAxeDrive, for any axes, ends, resolutions, targets  *)
(* and failures of the controller: the drive's types, that it never waits  *)
(* for nothing, that its axes go where they were last sent, have arrived   *)
(* when a move is reported as completed, and are where a stopped drive     *)
(* takes them to be.                                                       *)
(***************************************************************************)
EXTENDS MultiAxeDrive, SequenceTheorems, TLAPS

-----------------------------------------------------------------------------
(* The inductive invariant.                                                *)

Has(q, e) == \E i \in DOMAIN q : q[i] = e
About(q, s) == \E i \in DOMAIN q : q[i].at = s

\* The first event of q that is for the state of e is e.
FirstIs(q, e) ==
  \E i \in DOMAIN q : q[i] = e /\ \A j \in DOMAIN q : j < i => q[j].at # e.at

\* Behind an event for s there are only events for s.
Ordered(q, s) ==
  \A i, j \in DOMAIN q : i < j /\ q[i].at = s => q[j].at = s

\* A state that waits for the controller is polled, or an event that one of its
\* transitions takes is queued: the inductive form of NeverStranded.
Ended(q, s) == \E r \in {"SUCCEED", "FAILED", "STOP"}, t \in {"stopped", "failed"} :
                 <<s, r, t>> \in Transitions /\ Has(q, Event(s, r))
WaitInv == state \in {"initing", "moving"} => timer \/ Ended(queue, state)

\* Until the initialisation is over the axes stand where they are, or go to their ends.
InitInv == state \in {"off", "initing"} => \A a \in Axes : goal[a] \in {phys[a], End[a]}

\* While the drive moves, and does not fail before anything else, each axis goes to its
\* target or stands; a success is only reported when each is near its target.
ArriveInv ==
  state = "moving" =>
    \/ FirstIs(queue, Event("moving", "FAILED"))
    \/ /\ \A a \in Axes : goal[a] \in {phys[a], StepsForDistance(nextPos[a])}
       /\ Awaits("moving", "SUCCEED") => \A a \in Axes : Near(Coord(a), nextPos[a], a)

\* A stop that is reported has been obeyed by every axis.
StopInv ==
  state = "moving" /\ Awaits("moving", "STOP") => \A a \in Axes : goal[a] = phys[a]

\* Once stopped, an axis is, and is taken, close to the position read: the inductive form
\* of PositionKnown.
StillInv ==
  state = "stopped" /\ located =>
    \A a \in Axes : \/ goal[a] = End[a]
                    \/ Close(pos[a], Coord(a), a) /\ Close(pos[a], 2 * goal[a], a)

MultiInv ==
  /\ Ordered(queue, state)
  /\ WaitInv /\ InitInv /\ OnItsWay /\ ArriveInv /\ StopInv /\ StillInv

-----------------------------------------------------------------------------
(* Types.                                                                  *)

Reports == {"SUCCEED", "FAILED", "MOVE", "STOP"}

\* Each event that the code posts is one of Events.
LEMMA EventType ==
  \A s \in States, r \in Reports :
    /\ Event(s, r) \in Events
    /\ \A q \in Seq(Events) : Append(q, Event(s, r)) \in Seq(Events)
<1>1. \A s \in States, r \in Reports : Event(s, r) \in Events
  BY DEF Event, Events, Reports
<1> QED BY <1>1

\* A number of half steps is a whole number of steps and at most half a step, which is
\* cut towards zero.
LEMMA StepsType ==
  ASSUME NEW n \in Int
  PROVE  /\ StepsForDistance(n) \in Int
         /\ n - 2 * StepsForDistance(n) \in -1..1
         /\ n >= 0 => StepsForDistance(n) >= 0
<1>1. \A m \in Nat : m \div 2 \in Nat /\ m - 2 * (m \div 2) \in 0..1
  OBVIOUS
<1>2. CASE n >= 0
  BY <1>2, <1>1 DEF StepsForDistance
<1>3. CASE ~(n >= 0)
  <2>1. -n \in Nat
    BY <1>3
  <2>2. (-n) \div 2 \in Nat /\ (-n) - 2 * ((-n) \div 2) \in 0..1
    BY <2>1, <1>1
  <2> QED BY <1>3, <2>2 DEF StepsForDistance
<1> QED BY <1>2, <1>3

\* What an axis may be sent to is a number of half steps, and none below zero unless it
\* is asked for.
LEMMA TargetsType ==
  ASSUME stepsForMm \in [Axes -> Resolutions]
  PROVE  /\ \A a \in Axes : stepsForMm[a] \in Nat \ {0}
         /\ \A t \in [Axes -> Coords] :
              /\ Targets(t) \in [Axes -> Int]
              /\ Coords \subseteq Nat => \A a \in Axes : Targets(t)[a] >= 0
         /\ \A c \in Coords \cup Distances, a \in Axes :
              Halves(c, a) \in Int /\ (c \in Nat => Halves(c, a) >= 0)
<1>1. \A a \in Axes : stepsForMm[a] \in Nat \ {0}
  BY ResolutionsAssumption
<1>2. \A c \in Coords \cup Distances : c \in Int
  BY PositionsAssumption
<1>3. ASSUME NEW c \in Coords \cup Distances, NEW a \in Axes
      PROVE  Halves(c, a) \in Int /\ (c \in Nat => Halves(c, a) >= 0)
  <2>1. \A i \in Int, r \in Nat : i * r \in Int /\ (i >= 0 => i * r >= 0)
    OBVIOUS
  <2> QED BY <1>1, <1>2, <2>1 DEF Halves
<1>4. ASSUME NEW t \in [Axes -> Coords]
      PROVE  /\ Targets(t) \in [Axes -> Int]
             /\ Coords \subseteq Nat => \A a \in Axes : Targets(t)[a] >= 0
  <2>1. \A a \in Axes : t[a] \in Coords
    OBVIOUS
  <2>2. \A a \in Axes : Halves(t[a], a) \in Int /\ (Coords \subseteq Nat => Halves(t[a], a) >= 0)
    BY <2>1, <1>3
  <2> QED BY <2>2 DEF Targets
<1> QED BY <1>1, <1>3, <1>4

\* The controller is given a position for each axis, and takes those it obeys.
LEMMA CommandedType ==
  ASSUME goal \in [Axes -> Int], NEW out, NEW to \in [Axes -> Int], Commanded(out, to)
  PROVE  /\ goal' \in [Axes -> Int]
         /\ \A a \in Axes : goal'[a] \in {to[a], goal[a]}
BY DEF Commanded

\* The initial values are within the types.
LEMMA TypeInit == Init => TypeOK
<1> SUFFICES ASSUME Init PROVE TypeOK
  OBVIOUS
<1>1. queue \in Seq(Events) /\ state \in States
  BY DEF Init, States
<1>2. draining \in BOOLEAN /\ timer \in BOOLEAN /\ inited \in BOOLEAN /\ located \in BOOLEAN
  BY DEF Init
<1>3. /\ pos = [a \in Axes |-> 0] /\ nextPos = pos
      /\ phys \in [Axes -> {0}] /\ goal = phys
  BY DEF Init
<1>4. stepsForMm \in [Axes -> Resolutions] /\ maxDistance \in [Axes -> Travels]
  BY DEF Init
<1>5. /\ pos \in [Axes -> Int] /\ nextPos \in [Axes -> Int]
      /\ phys \in [Axes -> Int] /\ goal \in [Axes -> Int]
  BY <1>3
<1>6. AboveZero
  <2>1. \A a \in Axes : pos[a] = 0 /\ nextPos[a] = 0 /\ phys[a] = 0 /\ goal[a] = 0
    BY <1>3
  <2>2. ASSUME NEW a \in Axes
        PROVE  pos[a] >= 0 /\ nextPos[a] >= 0 /\ phys[a] >= 0 /\ goal[a] >= 0
    BY <2>1
  <2> QED BY <2>2 DEF AboveZero
<1> QED BY <1>1, <1>2, <1>4, <1>5, <1>6 DEF TypeOK

\* The slots of the states, and what they post.
LEMMA TypeEnters ==
  ASSUME TypeOK, Run \/ ProcessEvent
  PROVE  TypeOK'
<1>ty. /\ queue \in Seq(Events) /\ stepsForMm \in [Axes -> Resolutions]
       /\ pos \in [Axes -> Int] /\ nextPos \in [Axes -> Int]
       /\ phys \in [Axes -> Int] /\ goal \in [Axes -> Int]
       /\ maxDistance \in [Axes -> Travels]
       /\ Coords \subseteq Nat => AboveZero
  BY DEF TypeOK
<1>b. timer \in BOOLEAN /\ inited \in BOOLEAN /\ located \in BOOLEAN
  BY DEF TypeOK
<1>q. \A q \in Seq(Events), s \in States, r \in Reports : Append(q, Event(s, r)) \in Seq(Events)
  BY EventType
<1>t. queue # <<>> => Tail(queue) \in Seq(Events)
  BY <1>ty
<1>s. /\ {"off", "initing", "stopped", "moving", "failed"} \subseteq States
      /\ {"SUCCEED", "FAILED", "MOVE", "STOP"} \subseteq Reports
  BY DEF States, Reports
<1>p. /\ Position \in [Axes -> Int]
      /\ \A a \in Axes : phys[a] >= 0 => Position[a] >= 0
  BY <1>ty DEF Position, Coord
<1>g. /\ [a \in Axes |-> StepsForDistance(nextPos[a])] \in [Axes -> Int]
      /\ \A a \in Axes : nextPos[a] >= 0 => StepsForDistance(nextPos[a]) >= 0
  <2>1. \A a \in Axes : nextPos[a] \in Int
    BY <1>ty
  <2>2. ASSUME NEW a \in Axes
        PROVE  /\ StepsForDistance(nextPos[a]) \in Int
               /\ nextPos[a] >= 0 => StepsForDistance(nextPos[a]) >= 0
    BY <2>1, StepsType
  <2> QED BY <2>2
<1>e. End \in [Axes -> Int] /\ \A a \in Axes : End[a] >= 0
  BY EndAssumption
<1>1. CASE Run
  <2>1. PICK c \in Outcomes("configure"), out \in [Axes -> Outcomes("moveToEnd")] :
          /\ queue' = Append(<<>>, Event("initing", IF c = "ok" THEN "SUCCEED" ELSE "FAILED"))
          /\ pos' = [a \in Axes |-> 0] /\ nextPos' = pos'
          /\ Commanded(out, End)
          /\ UNCHANGED timer
    BY <1>1 DEF Run, InitStarted
  <2>2. queue' \in Seq(Events)
    <3>1. <<>> \in Seq(Events)
      OBVIOUS
    <3> QED BY <2>1, <3>1, <1>q, <1>s
  <2>3. goal' \in [Axes -> Int] /\ \A a \in Axes : goal'[a] \in {End[a], goal[a]}
    BY <2>1, <1>e, <1>ty, CommandedType
  <2>4. state' \in States /\ draining' \in BOOLEAN
    BY <1>1, <1>s DEF Run, Drains
  <2>5. UNCHANGED <<timer, inited, stepsForMm, maxDistance, phys, located>>
    BY <1>1, <2>1 DEF Run, configVars
  <2>6. Coords \subseteq Nat => AboveZero'
    <3>1. \A a \in Axes : pos'[a] = 0 /\ nextPos'[a] = 0 /\ phys'[a] = phys[a]
      BY <2>1, <2>5
    <3>2. ASSUME Coords \subseteq Nat, NEW a \in Axes
          PROVE  pos'[a] >= 0 /\ nextPos'[a] >= 0 /\ phys'[a] >= 0 /\ goal'[a] >= 0
      <4>1. phys[a] >= 0 /\ goal[a] >= 0 /\ End[a] >= 0
        BY <3>2, <1>ty, <1>e DEF AboveZero
      <4>2. goal'[a] \in {End[a], goal[a]}
        BY <2>3
      <4> QED BY <3>1, <4>1, <4>2
    <3> QED BY <3>2 DEF AboveZero
  <2>7. pos' \in [Axes -> Int] /\ nextPos' \in [Axes -> Int]
    BY <2>1
  <2> QED BY <2>2, <2>3, <2>4, <2>5, <2>6, <2>7, <1>ty, <1>b DEF TypeOK
<1>2. CASE EntersStopped
  <2>1. Tail(queue) \in Seq(Events)
    BY <1>2, <1>t DEF EntersStopped, Takes
  <2>2. PICK r \in Outcomes("curCoord") :
       LET after == IF r = "ok" THEN Tail(queue) ELSE Append(Tail(queue), Event("stopped", "FAILED"))
       IN  /\ pos' = IF r = "ok" THEN Position ELSE pos
           /\ located' = (r = "ok")
           /\ \/ queue' = after /\ UNCHANGED nextPos
              \/ /\ \E t \in [Axes -> Coords] : nextPos' = Targets(t)
                 /\ queue' = Append(after, Event("stopped", "MOVE"))
    BY <1>2 DEF EntersStopped, StoppedEntered
  <2>3. queue' \in Seq(Events)
    BY <2>1, <2>2, <1>q, <1>s
  <2>4. pos' \in [Axes -> Int] /\ nextPos' \in [Axes -> Int] /\ located' \in BOOLEAN
    BY <2>2, <1>p, <1>ty, TargetsType
  <2>5. /\ state' \in States /\ draining' \in BOOLEAN /\ inited' \in BOOLEAN /\ timer' \in BOOLEAN
        /\ UNCHANGED <<stepsForMm, maxDistance, phys, goal>>
    BY <1>2, <1>s DEF EntersStopped, StoppedEntered, Drains, LeaveState, configVars, axesVars
  <2>6. Coords \subseteq Nat => AboveZero'
    <3>1. \A a \in Axes : pos'[a] \in {Position[a], pos[a]}
      BY <2>2
    <3>2. nextPos' = nextPos \/ \E t \in [Axes -> Coords] : nextPos' = Targets(t)
      BY <2>2
    <3>3. Coords \subseteq Nat => \A a \in Axes : nextPos'[a] >= 0
      BY <3>2, <1>ty, TargetsType DEF AboveZero
    <3> QED BY <3>1, <3>3, <2>5, <1>p, <1>ty DEF AboveZero
  <2> QED BY <2>3, <2>4, <2>5, <2>6, <1>ty DEF TypeOK
<1>3. CASE EntersMoving
  <2>1. Tail(queue) \in Seq(Events)
    BY <1>3, <1>t DEF EntersMoving, Takes
  <2>2. PICK r \in Outcomes("curCoord"), out \in [Axes -> Outcomes("moveTo")] :
          LET after == IF r = "ok" THEN Tail(queue) ELSE Append(Tail(queue), Event("stopped", "FAILED"))
          IN  /\ pos' = IF r = "ok" THEN Position ELSE pos
              /\ Commanded(out, [a \in Axes |-> StepsForDistance(nextPos[a])])
              /\ timer' = (timer \/ AllOk(out))
              /\ queue' = IF AllOk(out) THEN after ELSE Append(after, Event("moving", "FAILED"))
    BY <1>3 DEF EntersMoving, MovingStarted
  <2>3. queue' \in Seq(Events)
    BY <2>1, <2>2, <1>q, <1>s
  <2>4. /\ goal' \in [Axes -> Int]
        /\ \A a \in Axes : goal'[a] \in {StepsForDistance(nextPos[a]), goal[a]}
    BY <2>2, <1>g, <1>ty, CommandedType
  <2>5. pos' \in [Axes -> Int] /\ \A a \in Axes : pos'[a] \in {Position[a], pos[a]}
    BY <2>2, <1>p, <1>ty
  <2>6. timer' \in BOOLEAN
    BY <2>2
  <2>7. /\ state' \in States /\ draining' \in BOOLEAN /\ inited' \in BOOLEAN
        /\ UNCHANGED <<nextPos, stepsForMm, maxDistance, phys, located>>
    BY <1>3, <1>s DEF EntersMoving, Drains, LeaveState, configVars
  <2>8. Coords \subseteq Nat => AboveZero'
    BY <2>4, <2>5, <2>7, <1>g, <1>p, <1>ty DEF AboveZero
  <2> QED BY <2>3, <2>4, <2>5, <2>6, <2>7, <2>8, <1>ty, <1>b DEF TypeOK
<1>4. CASE EntersFailed
  <2>1. queue' \in Seq(Events) /\ state' \in States
    BY <1>4, <1>t, <1>s DEF EntersFailed, Takes
  <2>2. draining' \in BOOLEAN /\ timer' \in BOOLEAN /\ inited' \in BOOLEAN
    BY <1>4 DEF EntersFailed, Drains, LeaveState
  <2>3. UNCHANGED <<pos, nextPos, configVars, axesVars, located>>
    BY <1>4 DEF EntersFailed
  <2> QED BY <2>1, <2>2, <2>3 DEF TypeOK, AboveZero, configVars, axesVars
<1>5. CASE DropsEvent
  <2>1. queue' \in Seq(Events) /\ draining' \in BOOLEAN
    BY <1>5, <1>t DEF DropsEvent, Drains
  <2>2. UNCHANGED <<state, timer, inited, pos, nextPos, configVars, axesVars, located>>
    BY <1>5 DEF DropsEvent
  <2> QED BY <2>1, <2>2 DEF TypeOK, AboveZero, configVars, axesVars
<1> QED BY <1>1, <1>2, <1>3, <1>4, <1>5 DEF ProcessEvent

\* A command accepted, to a target that is above zero unless moveTo() was asked below it.
LEMMA TypeAccept ==
  ASSUME TypeOK, NEW target \in [Axes -> Int], Accept(target),
         Coords \subseteq Nat => \A a \in Axes : target[a] >= 0
  PROVE  TypeOK'
<1>1. queue' \in Seq(Events)
  BY EventType DEF Accept, Posts, TypeOK, States, Reports
<1>2. nextPos' = target
      /\ UNCHANGED <<state, draining, timer, inited, pos, configVars, axesVars, located>>
  BY DEF Accept
<1>3. Coords \subseteq Nat => AboveZero'
  <2>1. ASSUME Coords \subseteq Nat, NEW a \in Axes
        PROVE  pos'[a] >= 0 /\ nextPos'[a] >= 0 /\ phys'[a] >= 0 /\ goal'[a] >= 0
    BY <1>2, <2>1 DEF TypeOK, AboveZero, axesVars
  <2> QED BY <2>1 DEF AboveZero
<1> QED BY <1>1, <1>2, <1>3 DEF TypeOK, configVars, axesVars

\* The commands.
LEMMA TypeCommands ==
  ASSUME TypeOK, Commands
  PROVE  TypeOK'
<1>ty. /\ queue \in Seq(Events) /\ stepsForMm \in [Axes -> Resolutions]
       /\ pos \in [Axes -> Int] /\ nextPos \in [Axes -> Int]
       /\ phys \in [Axes -> Int] /\ goal \in [Axes -> Int]
       /\ Coords \subseteq Nat => AboveZero
  BY DEF TypeOK
<1>1. CASE GoHome
  <2>1. Accept([a \in Axes |-> 0])
    BY <1>1 DEF GoHome
  <2>2. [a \in Axes |-> 0] \in [Axes -> Int] /\ \A a \in Axes : [b \in Axes |-> 0][a] >= 0
    OBVIOUS
  <2> QED BY <2>1, <2>2, TypeAccept
<1>2. CASE Stop
  <2>1. PICK out \in [Axes -> Outcomes("stop")] :
          /\ Commanded(out, phys)
          /\ Posts("moving", IF AllOk(out) THEN "STOP" ELSE "FAILED")
    BY <1>2 DEF Stop
  <2>2. queue' \in Seq(Events)
    BY <2>1, <1>ty, EventType DEF Posts, States, Reports
  <2>3. goal' \in [Axes -> Int] /\ \A a \in Axes : goal'[a] \in {phys[a], goal[a]}
    BY <2>1, <1>ty, CommandedType
  <2>4. UNCHANGED <<state, draining, timer, inited, pos, nextPos, configVars, phys, located>>
    BY <1>2 DEF Stop
  <2>5. Coords \subseteq Nat => AboveZero'
    <3>1. ASSUME Coords \subseteq Nat, NEW a \in Axes
          PROVE  pos'[a] >= 0 /\ nextPos'[a] >= 0 /\ phys'[a] >= 0 /\ goal'[a] >= 0
      BY <2>3, <2>4, <3>1, <1>ty DEF AboveZero
    <3> QED BY <3>1 DEF AboveZero
  <2> QED BY <2>2, <2>3, <2>4, <2>5 DEF TypeOK, configVars
<1>3. ASSUME NEW a \in Axes, NEW target \in Int, AcceptAxis(a, target),
             Coords \subseteq Nat => target >= 0
      PROVE  TypeOK'
  <2> DEFINE to == [nextPos EXCEPT ![a] = target]
  <2>1. to \in [Axes -> Int] /\ Accept(to)
    BY <1>3, <1>ty DEF AcceptAxis
  <2>2. ASSUME Coords \subseteq Nat, NEW b \in Axes
        PROVE  to[b] >= 0
    <3>1. nextPos[b] >= 0
      BY <2>2, <1>ty DEF AboveZero
    <3>2. to[b] = IF b = a THEN target ELSE nextPos[b]
      BY <1>ty
    <3> QED BY <3>1, <3>2, <2>2, <1>3
  <2> HIDE DEF to
  <2> QED BY <2>1, <2>2, TypeAccept
<1>4. ASSUME NEW a \in Axes, NEW d \in Distances, MoveNegative(d, a)
      PROVE  TypeOK'
  <2>1. Halves(d, a) \in Int /\ pos[a] \in Int
    BY <1>ty, TargetsType
  <2>2. pos[a] - Halves(d, a) >= 0 /\ AcceptAxis(a, pos[a] - Halves(d, a))
    BY <1>4 DEF MoveNegative
  <2>3. pos[a] - Halves(d, a) \in Int
    BY <2>1
  <2> QED BY <2>2, <2>3, <1>3
<1>5. ASSUME NEW a \in Axes, NEW d \in Distances, MovePositive(d, a)
      PROVE  TypeOK'
  <2>1. Halves(d, a) \in Int /\ Halves(d, a) >= 0 /\ pos[a] \in Int
    BY <1>ty, TargetsType, PositionsAssumption
  <2>2. AcceptAxis(a, pos[a] + Halves(d, a))
    BY <1>5 DEF MovePositive
  <2>3. pos[a] + Halves(d, a) \in Int
    BY <2>1
  <2>4. Coords \subseteq Nat => pos[a] + Halves(d, a) >= 0
    <3>1. Coords \subseteq Nat => pos[a] >= 0
      BY <1>ty DEF AboveZero
    <3> QED BY <3>1, <2>1
  <2> QED BY <2>2, <2>3, <2>4, <1>3
<1>6. ASSUME NEW a \in Axes, NEW c \in Coords, MoveTo(c, a)
      PROVE  TypeOK'
  <2>1. Halves(c, a) \in Int /\ (Coords \subseteq Nat => Halves(c, a) >= 0)
    BY <1>ty, TargetsType
  <2>2. AcceptAxis(a, Halves(c, a))
    BY <1>6 DEF MoveTo
  <2> QED BY <2>1, <2>2, <1>3
<1>7. ASSUME NEW t \in [Axes -> Coords], MoveToBoth(t)
      PROVE  TypeOK'
  <2>1. /\ Targets(t) \in [Axes -> Int]
        /\ Coords \subseteq Nat => \A a \in Axes : Targets(t)[a] >= 0
    BY <1>ty, TargetsType
  <2>2. Accept(Targets(t))
    BY <1>7 DEF MoveToBoth
  <2> QED BY <2>1, <2>2, TypeAccept
<1> QED BY <1>1, <1>2, <1>4, <1>5, <1>6, <1>7 DEF Commands

\* The setters, the timer and the motors.
LEMMA TypeOthers ==
  ASSUME TypeOK, CheckMoving \/ \E a \in Axes : Configure(a) \/ AxisStep(a)
  PROVE  TypeOK'
<1>ty. /\ queue \in Seq(Events) /\ stepsForMm \in [Axes -> Resolutions]
       /\ pos \in [Axes -> Int] /\ nextPos \in [Axes -> Int]
       /\ phys \in [Axes -> Int] /\ goal \in [Axes -> Int]
       /\ Coords \subseteq Nat => AboveZero
  BY DEF TypeOK
<1>1. CASE CheckMoving
  <2>1. queue' \in Seq(Events)
    BY <1>1, <1>ty, EventType DEF CheckMoving, Posts, States, Reports
  <2>2. pos' = pos \/ pos' = Position
    BY <1>1 DEF CheckMoving
  <2>3. Position \in [Axes -> Int]
    BY <1>ty DEF Position, Coord
  <2>4. UNCHANGED <<state, draining, timer, inited, nextPos, configVars, axesVars, located>>
    BY <1>1 DEF CheckMoving
  <2>5. Coords \subseteq Nat => AboveZero'
    <3>1. ASSUME Coords \subseteq Nat, NEW a \in Axes
          PROVE  pos'[a] >= 0 /\ nextPos'[a] >= 0 /\ phys'[a] >= 0 /\ goal'[a] >= 0
      <4>1. pos[a] >= 0 /\ nextPos[a] >= 0 /\ phys[a] >= 0 /\ goal[a] >= 0 /\ phys[a] \in Int
        BY <1>ty, <3>1 DEF AboveZero
      <4>2. Position[a] = 2 * phys[a]
        BY DEF Position, Coord
      <4>3. pos'[a] >= 0
        BY <4>1, <4>2, <2>2
      <4> QED BY <4>1, <4>3, <2>4 DEF axesVars
    <3> QED BY <3>1 DEF AboveZero
  <2> QED BY <2>1, <2>2, <2>3, <2>4, <2>5 DEF TypeOK, configVars, axesVars
<1>2. ASSUME NEW a \in Axes, Configure(a)
      PROVE  TypeOK'
  <2>1. stepsForMm' \in [Axes -> Resolutions] /\ maxDistance' \in [Axes -> Travels]
    BY <1>2 DEF Configure, TypeOK
  <2>2. UNCHANGED <<machineVars, pos, nextPos, axesVars, located>>
    BY <1>2 DEF Configure
  <2> QED BY <2>1, <2>2 DEF TypeOK, AboveZero, machineVars, axesVars
<1>3. ASSUME NEW a \in Axes, AxisStep(a)
      PROVE  TypeOK'
  <2>1. UNCHANGED <<machineVars, pos, nextPos, configVars, goal, located>>
    BY <1>3 DEF AxisStep
  <2>2. phys' = [phys EXCEPT ![a] = IF @ < goal[a] THEN @ + 1 ELSE @ - 1] /\ phys[a] # goal[a]
    BY <1>3 DEF AxisStep
  <2>3. phys' \in [Axes -> Int]
    BY <2>2, <1>ty
  <2>4. Coords \subseteq Nat => AboveZero'
    <3>1. ASSUME Coords \subseteq Nat, NEW b \in Axes
          PROVE  pos'[b] >= 0 /\ nextPos'[b] >= 0 /\ phys'[b] >= 0 /\ goal'[b] >= 0
      <4>1. pos[b] >= 0 /\ nextPos[b] >= 0 /\ phys[b] >= 0 /\ goal[b] >= 0
            /\ phys[b] \in Int /\ goal[b] \in Int
        BY <1>ty, <3>1 DEF AboveZero
      <4>2. phys'[b] = IF b = a THEN IF phys[b] < goal[b] THEN phys[b] + 1 ELSE phys[b] - 1
                                ELSE phys[b]
        BY <2>2, <1>ty
      <4>3. phys'[b] >= 0
        BY <4>1, <4>2, <2>2
      <4> QED BY <4>1, <4>3, <2>1
    <3> QED BY <3>1 DEF AboveZero
  <2> QED BY <2>1, <2>3, <2>4 DEF TypeOK, machineVars, configVars
<1> QED BY <1>1, <1>2, <1>3

\* The types are kept by every step.
LEMMA TypeStep == TypeOK /\ [Next]_vars => TypeOK'
<1> SUFFICES ASSUME TypeOK, [Next]_vars PROVE TypeOK'
  OBVIOUS
<1>1. CASE Run \/ ProcessEvent
  BY <1>1, TypeEnters
<1>2. CASE Commands
  BY <1>2, TypeCommands
<1>3. CASE CheckMoving \/ \E a \in Axes : Configure(a) \/ AxisStep(a)
  BY <1>3, TypeOthers
<1>4. CASE UNCHANGED vars
  BY <1>4 DEF vars, machineVars, configVars, axesVars, TypeOK, AboveZero
<1> QED BY <1>1, <1>2, <1>3, <1>4 DEF Next

\* The drive keeps to its types, and sends no axis below zero unless moveTo() is asked to.
THEOREM MultiAxeTypeCorrect == Spec => []TypeOK
<1> QED BY TypeInit, TypeStep, PTL DEF Spec

-----------------------------------------------------------------------------
(* The queue: what posting an event adds, and what taking one leaves.      *)

\* An event posted is the last one.
LEMMA PostedLast ==
  ASSUME NEW q \in Seq(Events), NEW e \in Events
  PROVE  /\ \A x : Has(Append(q, e), x) <=> Has(q, x) \/ x = e
         /\ \A s : About(Append(q, e), s) <=> About(q, s) \/ e.at = s
         /\ \A x : FirstIs(q, x) => FirstIs(Append(q, e), x)
         /\ ~About(q, e.at) => FirstIs(Append(q, e), e)
         /\ \A s : Ordered(q, s) /\ (e.at = s \/ ~About(q, s)) => Ordered(Append(q, e), s)
<1> DEFINE p == Append(q, e)
<1>1. Len(q) \in Nat /\ DOMAIN q = 1..Len(q) /\ DOMAIN p = 1..(Len(q) + 1)
  OBVIOUS
<1>2. p[Len(q) + 1] = e /\ \A i \in 1..Len(q) : p[i] = q[i]
  OBVIOUS
<1>3. \A i \in DOMAIN p : i \in DOMAIN q \/ i = Len(q) + 1
  BY <1>1
<1>4. Len(q) + 1 \in DOMAIN p /\ \A i \in DOMAIN q : i \in DOMAIN p /\ i < Len(q) + 1
  BY <1>1
<1>5. \A i, j \in DOMAIN p : i < j => i \in DOMAIN q
  BY <1>1
<1> HIDE DEF p
<1>6. \A x : Has(p, x) <=> Has(q, x) \/ x = e
  BY <1>1, <1>2, <1>3, <1>4 DEF Has
<1>7. \A s : About(p, s) <=> About(q, s) \/ e.at = s
  BY <1>1, <1>2, <1>3, <1>4 DEF About
<1>8. \A x : FirstIs(q, x) => FirstIs(p, x)
  BY <1>1, <1>2, <1>4, <1>5 DEF FirstIs
<1>9. ~About(q, e.at) => FirstIs(p, e)
  BY <1>1, <1>2, <1>4, <1>5 DEF FirstIs, About
<1>10. ASSUME NEW s, Ordered(q, s), e.at = s \/ ~About(q, s)
       PROVE  Ordered(p, s)
  <2> SUFFICES ASSUME NEW i \in DOMAIN p, NEW j \in DOMAIN p, i < j, p[i].at = s
               PROVE  p[j].at = s
    BY DEF Ordered
  <2>1. i \in DOMAIN q /\ q[i].at = s
    BY <1>1, <1>2, <1>5
  <2>2. e.at = s
    BY <2>1, <1>10 DEF About
  <2> QED BY <2>1, <2>2, <1>1, <1>2, <1>3, <1>10 DEF Ordered
<1> QED BY <1>6, <1>7, <1>8, <1>9, <1>10 DEF p

\* The first event is taken, and the others move up.
LEMMA HeadTaken ==
  ASSUME NEW q \in Seq(Events), q # <<>>
  PROVE  /\ Has(q, Head(q))
         /\ \A x : Has(q, x) => x = Head(q) \/ Has(Tail(q), x)
         /\ \A x : Has(Tail(q), x) => Has(q, x)
         /\ \A x : FirstIs(q, x) => x = Head(q) \/ (Head(q).at # x.at /\ FirstIs(Tail(q), x))
         /\ \A s : Ordered(q, s) => Ordered(Tail(q), s)
         /\ \A s, t : Ordered(q, s) /\ Head(q).at = s /\ t # s
                      => ~About(Tail(q), t) /\ Ordered(Tail(q), t)
<1> DEFINE p == Tail(q)
<1>1. Len(q) \in Nat \ {0} /\ DOMAIN q = 1..Len(q) /\ DOMAIN p = 1..(Len(q) - 1)
  OBVIOUS
<1>2. Head(q) = q[1] /\ \A i \in 1..(Len(q) - 1) : p[i] = q[i + 1]
  OBVIOUS
<1>3. 1 \in DOMAIN q /\ \A i \in DOMAIN p : i + 1 \in DOMAIN q /\ 1 < i + 1 /\ p[i] = q[i + 1]
  BY <1>1, <1>2
<1>4. \A i \in DOMAIN q : i = 1 \/ (i - 1 \in DOMAIN p /\ p[i - 1] = q[i])
  <2> SUFFICES ASSUME NEW i \in DOMAIN q, i # 1
               PROVE  i - 1 \in DOMAIN p /\ p[i - 1] = q[i]
    OBVIOUS
  <2>1. i \in Nat /\ i - 1 \in 1..(Len(q) - 1) /\ (i - 1) + 1 = i
    BY <1>1
  <2> QED BY <2>1, <1>1, <1>2
<1> HIDE DEF p
<1>5. Has(q, Head(q))
  BY <1>2, <1>3 DEF Has
<1>6. \A x : Has(q, x) => x = Head(q) \/ Has(p, x)
  BY <1>2, <1>4 DEF Has
<1>7. \A x : Has(p, x) => Has(q, x)
  BY <1>3 DEF Has
<1>8. ASSUME NEW x, FirstIs(q, x), x # Head(q)
      PROVE  Head(q).at # x.at /\ FirstIs(p, x)
  <2>1. PICK i \in DOMAIN q : q[i] = x /\ \A j \in DOMAIN q : j < i => q[j].at # x.at
    BY <1>8 DEF FirstIs
  <2>2. i # 1 /\ i - 1 \in DOMAIN p /\ p[i - 1] = x /\ i \in Int /\ 1 < i
    BY <2>1, <1>8, <1>2, <1>4, <1>1
  <2>3. ASSUME NEW j \in DOMAIN p, j < i - 1
        PROVE  p[j].at # x.at
    <3>1. j \in Int /\ j + 1 \in DOMAIN q /\ p[j] = q[j + 1]
      BY <1>1, <1>3
    <3> QED BY <3>1, <2>1, <2>2, <2>3
  <2>4. Head(q).at # x.at
    BY <2>1, <2>2, <1>2, <1>3
  <2> QED BY <2>2, <2>3, <2>4 DEF FirstIs
<1>9. ASSUME NEW s, Ordered(q, s), NEW i \in DOMAIN p, NEW j \in DOMAIN p, i < j, p[i].at = s
      PROVE  p[j].at = s
  <2>1. i + 1 \in DOMAIN q /\ j + 1 \in DOMAIN q /\ i + 1 < j + 1
    BY <1>1, <1>3, <1>9
  <2> QED BY <2>1, <1>3, <1>9 DEF Ordered
<1>10. ASSUME NEW s, NEW t, Ordered(q, s), Head(q).at = s, t # s
       PROVE  \A i \in DOMAIN p : p[i].at # t
  <2> SUFFICES ASSUME NEW i \in DOMAIN p PROVE p[i].at = s
    BY <1>10
  <2>1. i + 1 \in DOMAIN q /\ 1 < i + 1 /\ p[i] = q[i + 1]
    BY <1>3
  <2> QED BY <2>1, <1>2, <1>3, <1>10 DEF Ordered
<1>11. \A s : Ordered(q, s) => Ordered(p, s)
  BY <1>9 DEF Ordered
<1>12. \A s, t : Ordered(q, s) /\ Head(q).at = s /\ t # s => ~About(p, t) /\ Ordered(p, t)
  BY <1>10 DEF Ordered, About
<1> QED BY <1>5, <1>6, <1>7, <1>8, <1>11, <1>12 DEF p

-----------------------------------------------------------------------------
(* Distances: an axis that goes where it was sent stays as near as it was. *)

\* x is the coordinate of an axis, y the next one on its way to g, in steps; n, in half
\* steps, is what g was cut from.
LEMMA StepNear ==
  ASSUME NEW n \in Int, NEW x \in Int, NEW r \in Nat \ {0}, NEW y \in Int,
         y = (IF x < StepsForDistance(n) THEN x + 1 ELSE x - 1), x # StepsForDistance(n),
         2 * x - n \in -r..r
  PROVE  2 * y - n \in -r..r
<1>1. /\ StepsForDistance(n) \in Int
      /\ n - 2 * StepsForDistance(n) \in -1..1
  BY StepsType
<1> QED BY <1>1

\* A position taken p, close to where the axis is and to where it goes, stays close.
LEMMA StepClose ==
  ASSUME NEW p \in Int, NEW x \in Int, NEW g \in Int, NEW k \in Nat, NEW y \in Int,
         y = (IF x < g THEN x + 1 ELSE x - 1), x # g,
         p - 2 * x \in -k..k, p - 2 * g \in -k..k
  PROVE  p - 2 * y \in -k..k
OBVIOUS

\* An axis near its target, standing or going there, is close to where it goes.
LEMMA NearClose ==
  ASSUME NEW n \in Int, NEW x \in Int, NEW r \in Nat \ {0}, NEW g,
         g = x \/ g = StepsForDistance(n),
         2 * x - n \in -r..r
  PROVE  2 * x - 2 * g \in -(r + 1)..(r + 1)
<1>1. /\ StepsForDistance(n) \in Int
      /\ n - 2 * StepsForDistance(n) \in -1..1
  BY StepsType
<1>2. CASE g = x
  BY <1>2
<1>3. CASE g = StepsForDistance(n)
  BY <1>1, <1>3
<1> QED BY <1>2, <1>3

-----------------------------------------------------------------------------
(* The steps of machine_.                                                  *)

\* What an event that a transition takes was, and what it leaves for the next state.
LEMMA Taken ==
  ASSUME TypeOK, Ordered(queue, state), NEW t, Takes(t)
  PROVE  /\ queue # <<>> /\ Tail(queue) \in Seq(Events)
         /\ Head(queue) = Event(state, Head(queue).what)
         /\ <<state, Head(queue).what, t>> \in Transitions
         /\ Has(queue, Event(state, Head(queue).what))
         /\ ~About(Tail(queue), t) /\ Ordered(Tail(queue), t)
<1>1. /\ queue # <<>> /\ queue \in Seq(Events)
      /\ Head(queue).at = state /\ <<state, Head(queue).what, t>> \in Transitions
  BY DEF Takes, TypeOK
<1>2. Tail(queue) \in Seq(Events) /\ Head(queue) \in Events
  BY <1>1
<1>3. Head(queue) = Event(state, Head(queue).what)
  BY <1>1, <1>2 DEF Events, Event
<1>4. t # state
  BY <1>1 DEF Transitions
<1> QED BY <1>1, <1>2, <1>3, <1>4, HeadTaken

\* What is posted on entering a state that nothing was about is found first.
LEMMA Posted ==
  ASSUME NEW q \in Seq(Events), NEW s \in States, ~About(q, s), Ordered(q, s),
         NEW u \in States, NEW r \in Reports
  PROVE  /\ Append(q, Event(u, r)) \in Seq(Events)
         /\ u = s => /\ Has(Append(q, Event(u, r)), Event(u, r))
                     /\ FirstIs(Append(q, Event(u, r)), Event(u, r))
                     /\ Ordered(Append(q, Event(u, r)), s)
         /\ u # s => /\ ~About(Append(q, Event(u, r)), s)
                     /\ Ordered(Append(q, Event(u, r)), s)
<1>1. Event(u, r) \in Events /\ Event(u, r).at = u
  BY EventType DEF Event
<1> QED BY <1>1, EventType, PostedLast

\* What waits for the active state tells it from every other.
LEMMA NothingAbout ==
  ASSUME NEW q, NEW s, ~About(q, s)
  PROVE  \A r : ~Has(q, Event(s, r))
BY DEF About, Has, Event

\* The initialisation has posted its outcome when it starts to wait.
LEMMA InvRun ==
  ASSUME TypeOK, MultiInv, Run
  PROVE  MultiInv'
<1>ty. /\ phys \in [Axes -> Int] /\ goal \in [Axes -> Int] /\ End \in [Axes -> Int]
  BY EndAssumption DEF TypeOK
<1>1. state = "off" /\ state' = "initing" /\ phys' = phys
  BY DEF Run
<1>2. PICK c \in Outcomes("configure"), out \in [Axes -> Outcomes("moveToEnd")] :
        /\ queue' = Append(<<>>, Event("initing", IF c = "ok" THEN "SUCCEED" ELSE "FAILED"))
        /\ Commanded(out, End)
  BY DEF Run, InitStarted
<1>3. PICK r \in {"SUCCEED", "FAILED"} : queue' = Append(<<>>, Event("initing", r))
  BY <1>2
<1>4. <<>> \in Seq(Events) /\ ~About(<<>>, "initing") /\ Ordered(<<>>, "initing")
  BY DEF About, Ordered
<1>5. Has(queue', Event("initing", r)) /\ Ordered(queue', "initing")
  <2>1. "initing" \in States /\ r \in Reports
    BY DEF States, Reports
  <2> QED BY <2>1, <1>3, <1>4, Posted
<1>6. Ordered(queue', state')
  BY <1>1, <1>5
<1>7. WaitInv'
  <2>1. \E t \in {"stopped", "failed"} : <<"initing", r, t>> \in Transitions
    BY DEF Transitions
  <2> QED BY <1>1, <1>5, <2>1 DEF WaitInv, Ended
<1>8. InitInv'
  <2>1. \A a \in Axes : goal'[a] \in {End[a], goal[a]}
    BY <1>2, <1>ty, CommandedType
  <2> QED BY <2>1, <1>1 DEF MultiInv, InitInv
<1>9. OnItsWay' /\ ArriveInv' /\ StopInv' /\ StillInv'
  BY <1>1 DEF OnItsWay, ArriveInv, StopInv, StillInv
<1> QED BY <1>6, <1>7, <1>8, <1>9 DEF MultiInv

\* Arriving, stopping and the end of the initialisation leave the axes close to where
\* the drive takes them to be.
LEMMA InvEntersStopped ==
  ASSUME TypeOK, MultiInv, EntersStopped
  PROVE  MultiInv'
<1>ty. /\ phys \in [Axes -> Int] /\ goal \in [Axes -> Int] /\ nextPos \in [Axes -> Int]
       /\ \A a \in Axes : stepsForMm[a] \in Nat \ {0}
  BY ResolutionsAssumption DEF TypeOK
<1>1. Takes("stopped") /\ state' = "stopped" /\ UNCHANGED <<stepsForMm, phys, goal>>
  BY DEF EntersStopped, configVars, axesVars
<1>2. /\ Tail(queue) \in Seq(Events)
      /\ Head(queue) = Event(state, Head(queue).what)
      /\ <<state, Head(queue).what, "stopped">> \in Transitions
      /\ Has(queue, Event(state, Head(queue).what)) /\ queue # <<>>
      /\ ~About(Tail(queue), "stopped") /\ Ordered(Tail(queue), "stopped")
  BY <1>1, Taken DEF MultiInv
<1>3. PICK r \in Outcomes("curCoord") :
        LET after == IF r = "ok" THEN Tail(queue)
                                 ELSE Append(Tail(queue), Event("stopped", "FAILED"))
        IN  /\ pos' = IF r = "ok" THEN Position ELSE pos
            /\ located' = (r = "ok")
            /\ queue' = after \/ queue' = Append(after, Event("stopped", "MOVE"))
  BY DEF EntersStopped, StoppedEntered
<1>4. Ordered(queue', "stopped")
  <2> DEFINE after == IF r = "ok" THEN Tail(queue)
                                  ELSE Append(Tail(queue), Event("stopped", "FAILED"))
  <2>1. "stopped" \in States /\ "FAILED" \in Reports /\ "MOVE" \in Reports
    BY DEF States, Reports
  <2>2. after \in Seq(Events) /\ Ordered(after, "stopped")
    BY <2>1, <1>2, Posted
  <2>3. Ordered(Append(after, Event("stopped", "MOVE")), "stopped")
    <3>1. Event("stopped", "MOVE") \in Events /\ Event("stopped", "MOVE").at = "stopped"
      BY <2>1, EventType DEF Event
    <3> HIDE DEF after
    <3> QED BY <2>2, <3>1, PostedLast
  <2> QED BY <2>2, <2>3, <1>3
<1>5. WaitInv' /\ InitInv' /\ OnItsWay' /\ ArriveInv' /\ StopInv'
  BY <1>1 DEF WaitInv, InitInv, OnItsWay, ArriveInv, StopInv
<1>6. \A a \in Axes : goal[a] = End[a] \/ goal[a] = phys[a]
        \/ (Near(Coord(a), nextPos[a], a) /\ goal[a] = StepsForDistance(nextPos[a]))
  <2>1. \/ state = "initing"
        \/ state = "moving" /\ Head(queue).what = "STOP"
        \/ state = "moving" /\ Head(queue).what = "SUCCEED"
    BY <1>2 DEF Transitions
  <2>2. CASE state = "initing"
    BY <2>2 DEF MultiInv, InitInv
  <2>3. CASE state = "moving" /\ Head(queue).what = "STOP"
    <3>1. Awaits("moving", "STOP")
      BY <2>3, <1>2 DEF Awaits, Has
    <3> QED BY <2>3, <3>1 DEF MultiInv, StopInv
  <2>4. CASE state = "moving" /\ Head(queue).what = "SUCCEED"
    <3>1. Awaits("moving", "SUCCEED")
      BY <2>4, <1>2 DEF Awaits, Has
    <3>2. ~FirstIs(queue, Event("moving", "FAILED"))
      <4>1. Head(queue) # Event("moving", "FAILED") /\ Head(queue).at = "moving"
            /\ Event("moving", "FAILED").at = "moving"
        BY <2>4, <1>2 DEF Event
      <4>2. queue \in Seq(Events)
        BY DEF TypeOK
      <4> QED BY <4>1, <4>2, <1>2, HeadTaken
    <3> QED BY <2>4, <3>1, <3>2 DEF MultiInv, ArriveInv
  <2> QED BY <2>1, <2>2, <2>3, <2>4
<1>7. StillInv'
  <2> SUFFICES ASSUME located', NEW a \in Axes, goal[a] # End[a]
               PROVE  Close(pos[a], Coord(a), a)' /\ Close(pos[a], 2 * goal[a], a)'
    BY <1>1 DEF StillInv
  <2>1. pos'[a] = 2 * phys[a]
    BY <1>3 DEF Position, Coord
  <2>2. stepsForMm[a] \in Nat \ {0} /\ phys[a] \in Int /\ nextPos[a] \in Int /\ goal[a] \in Int
    BY <1>ty
  <2>3. pos'[a] - 2 * phys[a] \in -(stepsForMm[a] + 1)..(stepsForMm[a] + 1)
    BY <2>1, <2>2
  <2>4. pos'[a] - 2 * goal[a] \in -(stepsForMm[a] + 1)..(stepsForMm[a] + 1)
    <3>1. CASE goal[a] = phys[a]
      BY <3>1, <2>3
    <3>2. CASE Near(Coord(a), nextPos[a], a) /\ goal[a] = StepsForDistance(nextPos[a])
      <4>1. 2 * phys[a] - nextPos[a] \in -stepsForMm[a]..stepsForMm[a]
        BY <3>2 DEF Near, Coord
      <4> QED BY <4>1, <3>2, <2>1, <2>2, NearClose
    <3> QED BY <3>1, <3>2, <1>6
  <2> QED BY <2>3, <2>4, <1>1 DEF Close, Coord
<1> QED BY <1>1, <1>4, <1>5, <1>7 DEF MultiInv

\* A move that the controller did not accept has posted its failure, ahead of anything
\* else about it; one it accepted is polled, and the axes go to their targets.
LEMMA InvEntersMoving ==
  ASSUME TypeOK, MultiInv, EntersMoving
  PROVE  MultiInv'
<1>1. Takes("moving") /\ state' = "moving" /\ UNCHANGED <<nextPos, stepsForMm, phys>>
  BY DEF EntersMoving, configVars
<1>2. /\ Tail(queue) \in Seq(Events)
      /\ ~About(Tail(queue), "moving") /\ Ordered(Tail(queue), "moving")
  BY <1>1, Taken DEF MultiInv
<1> DEFINE to == [a \in Axes |-> StepsForDistance(nextPos[a])]
<1>3. PICK r \in Outcomes("curCoord"), out \in [Axes -> Outcomes("moveTo")] :
        LET after == IF r = "ok" THEN Tail(queue)
                                 ELSE Append(Tail(queue), Event("stopped", "FAILED"))
        IN  /\ Commanded(out, to)
            /\ timer' = (timer \/ AllOk(out))
            /\ queue' = IF AllOk(out) THEN after ELSE Append(after, Event("moving", "FAILED"))
  BY DEF EntersMoving, MovingStarted
<1> DEFINE after == IF r = "ok" THEN Tail(queue)
                                ELSE Append(Tail(queue), Event("stopped", "FAILED"))
<1>4. "stopped" \in States /\ "moving" \in States /\ "FAILED" \in Reports
  BY DEF States, Reports
<1>5. after \in Seq(Events) /\ ~About(after, "moving") /\ Ordered(after, "moving")
  BY <1>2, <1>4, Posted
<1>6. /\ timer' = (timer \/ AllOk(out))
      /\ queue' = IF AllOk(out) THEN after ELSE Append(after, Event("moving", "FAILED"))
  BY <1>3
<1>7. AllOk(out) => \A a \in Axes : goal'[a] = StepsForDistance(nextPos[a])
  BY <1>3 DEF AllOk, Commanded, Obeyed
<1> HIDE DEF after, to
<1>8. /\ Ordered(queue', "moving")
      /\ AllOk(out) => ~About(queue', "moving")
      /\ ~AllOk(out) => /\ Has(queue', Event("moving", "FAILED"))
                        /\ FirstIs(queue', Event("moving", "FAILED"))
  BY <1>4, <1>5, <1>6, Posted
<1>9. \/ timer' /\ ~About(queue', "moving")
         /\ \A a \in Axes : goal'[a] = StepsForDistance(nextPos[a])
      \/ Has(queue', Event("moving", "FAILED")) /\ FirstIs(queue', Event("moving", "FAILED"))
  BY <1>6, <1>7, <1>8
<1>10. WaitInv'
  <2>1. <<"moving", "FAILED", "failed">> \in Transitions
    BY DEF Transitions
  <2> QED BY <1>1, <1>9, <2>1 DEF WaitInv, Ended
<1>11. OnItsWay'
  <2>1. Has(queue', Event("moving", "FAILED")) => Awaits("moving", "FAILED")'
    BY DEF Has, Awaits
  <2> QED BY <2>1, <1>1, <1>9 DEF OnItsWay
<1>12. ArriveInv'
  <2>1. ~About(queue', "moving") => ~Awaits("moving", "SUCCEED")'
    BY NothingAbout DEF Has, Awaits
  <2> QED BY <2>1, <1>1, <1>9 DEF ArriveInv
<1>13. StopInv'
  <2> SUFFICES ASSUME Awaits("moving", "STOP")' PROVE FALSE
    BY <1>1 DEF StopInv
  <2>1. Has(queue', Event("moving", "STOP"))
    BY DEF Has, Awaits
  <2>2. ~Has(after, Event("moving", "STOP"))
    BY <1>5, NothingAbout
  <2>3. Event("moving", "FAILED") \in Events /\ Event("moving", "STOP") # Event("moving", "FAILED")
    BY <1>4, EventType DEF Event
  <2> QED BY <1>5, <1>6, <2>1, <2>2, <2>3, PostedLast
<1>14. InitInv' /\ StillInv'
  BY <1>1 DEF InitInv, StillInv
<1> QED BY <1>1, <1>8, <1>10, <1>11, <1>12, <1>13, <1>14 DEF MultiInv

\* Nothing is waited for, and nothing promised, in the failed state.
LEMMA InvEntersFailed ==
  ASSUME TypeOK, MultiInv, EntersFailed
  PROVE  MultiInv'
<1>1. Takes("failed") /\ state' = "failed" /\ queue' = Tail(queue)
  BY DEF EntersFailed
<1>2. Ordered(queue', state')
  BY <1>1, Taken DEF MultiInv
<1> QED BY <1>1, <1>2
        DEF MultiInv, WaitInv, InitInv, OnItsWay, ArriveInv, StopInv, StillInv

-----------------------------------------------------------------------------
(* The steps within a state.                                               *)

\* An event that is dropped was not one that ends the active state.
LEMMA InvDropsEvent ==
  ASSUME TypeOK, MultiInv, DropsEvent
  PROVE  MultiInv'
<1>1. /\ queue # <<>> /\ queue \in Seq(Events) /\ queue' = Tail(queue)
      /\ \A t \in {"stopped", "moving", "failed"} : ~Takes(t)
      /\ UNCHANGED <<state, timer, pos, nextPos, stepsForMm, phys, goal, located>>
  BY DEF DropsEvent, TypeOK, configVars, axesVars
<1>2. \A r, t : <<state, r, t>> \in Transitions /\ Has(queue, Event(state, r))
                => Has(queue', Event(state, r)) /\ Head(queue) # Event(state, r)
  <2> SUFFICES ASSUME NEW r, NEW t, <<state, r, t>> \in Transitions, Has(queue, Event(state, r))
               PROVE  Has(queue', Event(state, r)) /\ Head(queue) # Event(state, r)
    OBVIOUS
  <2>1. t \in {"stopped", "moving", "failed"}
    BY DEF Transitions
  <2>2. Head(queue) # Event(state, r)
    <3>1. Event(state, r).at = state /\ Event(state, r).what = r
      BY DEF Event
    <3>2. ~Takes(t)
      BY <2>1, <1>1
    <3> QED BY <3>1, <3>2, <1>1 DEF Takes
  <2> QED BY <2>2, <1>1, HeadTaken
<1>3. \A x : Has(queue', x) => Has(queue, x)
  BY <1>1, HeadTaken
<1>4. Ordered(queue', state')
  BY <1>1, HeadTaken DEF MultiInv
<1>5. WaitInv'
  BY <1>1, <1>2 DEF MultiInv, WaitInv, Ended
<1>6. \A r : /\ Awaits("moving", r) <=> Has(queue, Event("moving", r))
             /\ Awaits("moving", r)' <=> Has(queue', Event("moving", r))
  BY DEF Has, Awaits
<1>7. /\ <<"moving", "STOP", "stopped">> \in Transitions
      /\ <<"moving", "FAILED", "failed">> \in Transitions
  BY DEF Transitions
<1>8. OnItsWay'
  <2>1. state = "moving" => /\ Awaits("moving", "STOP") => Awaits("moving", "STOP")'
                            /\ Awaits("moving", "FAILED") => Awaits("moving", "FAILED")'
    BY <1>2, <1>6, <1>7
  <2> QED BY <2>1, <1>1 DEF MultiInv, OnItsWay
<1>9. ArriveInv'
  <2> DEFINE failed == Event("moving", "FAILED")
  <2> SUFFICES ASSUME state = "moving"
               PROVE  ArriveInv'
    BY <1>1 DEF ArriveInv
  <2>1. CASE FirstIs(queue, failed)
    <3>1. Has(queue, failed)
      BY <2>1 DEF FirstIs, Has
    <3>2. Head(queue) # failed
      BY <3>1, <1>2, <1>7
    <3>3. FirstIs(queue', failed)
      BY <3>2, <2>1, <1>1, HeadTaken
    <3> QED BY <3>3 DEF ArriveInv
  <2>2. CASE /\ \A a \in Axes : goal[a] \in {phys[a], StepsForDistance(nextPos[a])}
             /\ Awaits("moving", "SUCCEED") => \A a \in Axes : Near(Coord(a), nextPos[a], a)
    BY <2>2, <1>1, <1>3, <1>6 DEF ArriveInv, Near, Coord
  <2> QED BY <2>1, <2>2 DEF MultiInv, ArriveInv
<1>10. StopInv'
  BY <1>1, <1>3, <1>6 DEF MultiInv, StopInv
<1>11. InitInv' /\ StillInv'
  BY <1>1 DEF MultiInv, InitInv, StillInv, Close, Coord
<1> QED BY <1>4, <1>5, <1>8, <1>9, <1>10, <1>11 DEF MultiInv

\* What an event posted for the active state leaves as it was.
LEMMA InvPosts ==
  ASSUME TypeOK, MultiInv, NEW r \in Reports, Posts(state, r),
         UNCHANGED <<state, timer>>
  PROVE  /\ Ordered(queue', state') /\ WaitInv'
         /\ \A what : Awaits("moving", what)' <=>
                        Awaits("moving", what) \/ (state = "moving" /\ what = r)
         /\ FirstIs(queue, Event("moving", "FAILED")) => FirstIs(queue', Event("moving", "FAILED"))
<1>1. /\ queue \in Seq(Events) /\ Event(state, r) \in Events /\ Event(state, r).at = state
      /\ queue' = Append(queue, Event(state, r))
  BY EventType DEF TypeOK, Posts, Event
<1>2. Ordered(queue', state')
  BY <1>1, PostedLast DEF MultiInv
<1>3. \A x : Has(queue', x) <=> Has(queue, x) \/ x = Event(state, r)
  BY <1>1, PostedLast
<1>4. WaitInv'
  BY <1>3 DEF MultiInv, WaitInv, Ended
<1>5. ASSUME NEW what
      PROVE  Awaits("moving", what)' <=> Awaits("moving", what) \/ (state = "moving" /\ what = r)
  <2>1. Event("moving", what) = Event(state, r) <=> state = "moving" /\ what = r
    BY DEF Event
  <2>2. /\ Awaits("moving", what) <=> Has(queue, Event("moving", what))
        /\ Awaits("moving", what)' <=> Has(queue', Event("moving", what))
    BY DEF Has, Awaits
  <2> QED BY <2>1, <2>2, <1>3
<1>6. FirstIs(queue, Event("moving", "FAILED")) => FirstIs(queue', Event("moving", "FAILED"))
  BY <1>1, PostedLast
<1> QED BY <1>2, <1>4, <1>5, <1>6

\* Success is only posted when both axes are near their targets.
LEMMA InvCheckMoving ==
  ASSUME TypeOK, MultiInv, CheckMoving
  PROVE  MultiInv'
<1>1. state = "moving"
      /\ UNCHANGED <<state, timer, nextPos, stepsForMm, phys, goal, located>>
  BY DEF CheckMoving, configVars, axesVars
<1>2. \/ queue' = queue
      \/ Posts("moving", "FAILED")
      \/ Posts("moving", "SUCCEED") /\ \A a \in Axes : Near(Coord(a), nextPos[a], a)
  BY DEF CheckMoving
<1>3. InitInv' /\ StillInv'
  BY <1>1 DEF InitInv, StillInv
<1>4. CASE queue' = queue
  <2>1. Ordered(queue', state') /\ WaitInv'
    BY <1>1, <1>4 DEF MultiInv, WaitInv
  <2>2. OnItsWay' /\ ArriveInv' /\ StopInv'
    BY <1>1, <1>4 DEF MultiInv, OnItsWay, ArriveInv, StopInv, Awaits, Near, Coord
  <2> QED BY <2>1, <2>2, <1>3 DEF MultiInv
<1>5. ASSUME NEW r \in {"FAILED", "SUCCEED"}, Posts("moving", r),
             r = "SUCCEED" => \A a \in Axes : Near(Coord(a), nextPos[a], a)
      PROVE  MultiInv'
  <2>1. /\ Ordered(queue', state') /\ WaitInv'
        /\ \A what : Awaits("moving", what)' <=> Awaits("moving", what) \/ what = r
        /\ FirstIs(queue, Event("moving", "FAILED")) => FirstIs(queue', Event("moving", "FAILED"))
    BY <1>1, <1>5, InvPosts DEF Reports
  <2>2. OnItsWay' /\ StopInv'
    BY <1>1, <1>5, <2>1 DEF MultiInv, OnItsWay, StopInv
  <2>3. ArriveInv'
    BY <1>1, <1>5, <2>1 DEF MultiInv, ArriveInv, Near, Coord
  <2> QED BY <2>1, <2>2, <2>3, <1>3 DEF MultiInv
<1> QED BY <1>2, <1>4, <1>5

\* A stop is posted as one when every axis has been told, and as a failure otherwise.
LEMMA InvStop ==
  ASSUME TypeOK, MultiInv, Stop
  PROVE  MultiInv'
<1>ty. phys \in [Axes -> Int] /\ goal \in [Axes -> Int]
  BY DEF TypeOK
<1>1. /\ state = "moving"
      /\ UNCHANGED <<state, timer, pos, nextPos, stepsForMm, phys, located>>
  BY DEF Stop, configVars
<1>2. PICK out \in [Axes -> Outcomes("stop")] :
        /\ Commanded(out, phys)
        /\ Posts("moving", IF AllOk(out) THEN "STOP" ELSE "FAILED")
  BY DEF Stop
<1> DEFINE r == IF AllOk(out) THEN "STOP" ELSE "FAILED"
<1>3. r \in {"STOP", "FAILED"} /\ Posts("moving", r)
  BY <1>2
<1>4. \A a \in Axes : goal'[a] \in {phys[a], goal[a]}
  BY <1>2, <1>ty, CommandedType
<1>5. r = "STOP" => \A a \in Axes : goal'[a] = phys[a]
  BY <1>2, <1>ty DEF AllOk, Commanded, Obeyed
<1> HIDE DEF r
<1>6. /\ Ordered(queue', state') /\ WaitInv'
      /\ \A what : Awaits("moving", what)' <=> Awaits("moving", what) \/ what = r
      /\ FirstIs(queue, Event("moving", "FAILED")) => FirstIs(queue', Event("moving", "FAILED"))
  BY <1>1, <1>3, InvPosts DEF Reports
<1>7. OnItsWay'
  BY <1>3, <1>6 DEF OnItsWay
<1>8. ArriveInv'
  BY <1>1, <1>3, <1>4, <1>6 DEF MultiInv, ArriveInv, Near, Coord
<1>9. StopInv'
  BY <1>1, <1>4, <1>5, <1>6 DEF MultiInv, StopInv
<1>10. InitInv' /\ StillInv'
  BY <1>1 DEF InitInv, StillInv
<1> QED BY <1>6, <1>7, <1>8, <1>9, <1>10 DEF MultiInv

\* A move is accepted where nothing moves: the target changes, and nothing else.
LEMMA InvAccept ==
  ASSUME TypeOK, MultiInv, state = "stopped", NEW target, Accept(target)
  PROVE  MultiInv'
<1>1. Posts(state, "MOVE") /\ UNCHANGED <<state, timer, pos, stepsForMm, phys, goal, located>>
  BY DEF Accept, configVars, axesVars
<1>2. Ordered(queue', state') /\ WaitInv'
  BY <1>1, InvPosts DEF Reports
<1>3. InitInv' /\ OnItsWay' /\ ArriveInv' /\ StopInv'
  BY <1>1 DEF InitInv, OnItsWay, ArriveInv, StopInv
<1>4. StillInv'
  BY <1>1 DEF MultiInv, StillInv, Close, Coord
<1> QED BY <1>2, <1>3, <1>4 DEF MultiInv

\* An axis takes a step towards where the controller is taking it.
LEMMA InvAxisStep ==
  ASSUME TypeOK, MultiInv, NEW a \in Axes, AxisStep(a)
  PROVE  MultiInv'
<1>ty. /\ phys \in [Axes -> Int] /\ goal \in [Axes -> Int]
       /\ pos \in [Axes -> Int] /\ nextPos \in [Axes -> Int]
       /\ \A b \in Axes : stepsForMm[b] \in Nat \ {0}
  BY ResolutionsAssumption DEF TypeOK
<1>1. UNCHANGED <<queue, state, timer, pos, nextPos, stepsForMm, goal, located>>
  BY DEF AxisStep, machineVars, configVars
<1>2. /\ phys[a] # goal[a] /\ phys' \in [Axes -> Int]
      /\ phys'[a] = IF phys[a] < goal[a] THEN phys[a] + 1 ELSE phys[a] - 1
      /\ \A b \in Axes \ {a} : phys'[b] = phys[b]
  BY <1>ty DEF AxisStep
<1>3. Ordered(queue', state') /\ WaitInv' /\ OnItsWay'
  BY <1>1 DEF MultiInv, WaitInv, OnItsWay, Awaits
<1>4. InitInv'
  BY <1>1, <1>2 DEF MultiInv, InitInv
<1>5. ArriveInv'
  <2> SUFFICES ASSUME state = "moving", ~FirstIs(queue, Event("moving", "FAILED"))
               PROVE  ArriveInv'
    BY <1>1 DEF ArriveInv
  <2>1. /\ \A b \in Axes : goal[b] \in {phys[b], StepsForDistance(nextPos[b])}
        /\ Awaits("moving", "SUCCEED") => \A b \in Axes : Near(Coord(b), nextPos[b], b)
    BY DEF MultiInv, ArriveInv
  <2>2. goal[a] = StepsForDistance(nextPos[a])
    BY <2>1, <1>2
  <2>3. ASSUME Near(Coord(a), nextPos[a], a)
        PROVE  2 * phys'[a] - nextPos[a] \in -stepsForMm[a]..stepsForMm[a]
    <3>1. 2 * phys[a] - nextPos[a] \in -stepsForMm[a]..stepsForMm[a]
      BY <2>3 DEF Near, Coord
    <3>2. /\ nextPos[a] \in Int /\ phys[a] \in Int /\ phys'[a] \in Int
          /\ stepsForMm[a] \in Nat \ {0}
      BY <1>ty, <1>2
    <3> QED BY <3>1, <3>2, <2>2, <1>2, StepNear
  <2>4. \A b \in Axes : goal'[b] \in {phys'[b], StepsForDistance(nextPos'[b])}
    BY <2>1, <2>2, <1>1, <1>2
  <2>5. Awaits("moving", "SUCCEED")' => \A b \in Axes : Near(Coord(b), nextPos[b], b)'
    <3> SUFFICES ASSUME Awaits("moving", "SUCCEED"), NEW b \in Axes
                 PROVE  2 * phys'[b] - nextPos[b] \in -stepsForMm[b]..stepsForMm[b]
      BY <1>1 DEF Awaits, Near, Coord
    <3>1. CASE b = a
      BY <3>1, <2>1, <2>3
    <3>2. CASE b # a
      BY <3>2, <2>1, <1>2 DEF Near, Coord
    <3> QED BY <3>1, <3>2
  <2> QED BY <2>4, <2>5 DEF ArriveInv
<1>6. StopInv'
  <2> SUFFICES ASSUME state = "moving", Awaits("moving", "STOP") PROVE FALSE
    BY <1>1 DEF StopInv, Awaits
  <2> QED BY <1>2 DEF MultiInv, StopInv
<1>7. StillInv'
  <2> SUFFICES ASSUME state = "stopped", located, NEW b \in Axes, goal[b] # End[b]
               PROVE  /\ pos[b] - 2 * phys'[b] \in -(stepsForMm[b] + 1)..(stepsForMm[b] + 1)
                      /\ pos[b] - 2 * goal[b] \in -(stepsForMm[b] + 1)..(stepsForMm[b] + 1)
    BY <1>1 DEF StillInv, Close, Coord
  <2>1. /\ pos[b] - 2 * phys[b] \in -(stepsForMm[b] + 1)..(stepsForMm[b] + 1)
        /\ pos[b] - 2 * goal[b] \in -(stepsForMm[b] + 1)..(stepsForMm[b] + 1)
    BY DEF MultiInv, StillInv, Close, Coord
  <2>2. CASE b = a
    <3>1. /\ pos[a] \in Int /\ phys[a] \in Int /\ goal[a] \in Int /\ phys'[a] \in Int
          /\ stepsForMm[a] + 1 \in Nat
      BY <1>ty, <1>2
    <3> QED BY <3>1, <2>1, <2>2, <1>2, StepClose
  <2>3. CASE b # a
    BY <2>3, <2>1, <1>2
  <2> QED BY <2>2, <2>3
<1> QED BY <1>3, <1>4, <1>5, <1>6, <1>7 DEF MultiInv

-----------------------------------------------------------------------------
(* The theorems.                                                           *)

\* A drive that has not been started satisfies the invariant.
LEMMA InvInit == Init => MultiInv
<1> SUFFICES ASSUME Init PROVE MultiInv
  OBVIOUS
<1>1. state = "off" /\ queue = <<>> /\ goal = phys
  BY DEF Init
<1>2. Ordered(queue, state)
  BY <1>1 DEF Ordered
<1>3. InitInv
  BY <1>1 DEF InitInv
<1> QED BY <1>1, <1>2, <1>3 DEF MultiInv, WaitInv, OnItsWay, ArriveInv, StopInv, StillInv

\* Every step keeps it.
LEMMA InvStep == TypeOK /\ MultiInv /\ [Next]_vars => MultiInv'
<1> SUFFICES ASSUME TypeOK, MultiInv, [Next]_vars PROVE MultiInv'
  OBVIOUS
<1>1. CASE Run
  BY <1>1, InvRun
<1>2. CASE ProcessEvent
  BY <1>2, InvEntersStopped, InvEntersMoving, InvEntersFailed, InvDropsEvent DEF ProcessEvent
<1>3. CASE CheckMoving
  BY <1>3, InvCheckMoving
<1>4. CASE Commands
  <2>1. CASE Stop
    BY <2>1, InvStop
  <2>2. ASSUME NEW target, MoveAllowed, Accept(target)
        PROVE  MultiInv'
    BY <2>2, InvAccept DEF MoveAllowed
  <2>3. ASSUME NEW a \in Axes, NEW d, MoveNegative(d, a) \/ MovePositive(d, a) \/ MoveTo(d, a)
        PROVE  MultiInv'
    BY <2>2, <2>3 DEF MoveNegative, MovePositive, MoveTo, AcceptAxis
  <2>4. CASE GoHome
    BY <2>2, <2>4 DEF GoHome
  <2>5. ASSUME NEW t, MoveToBoth(t) PROVE MultiInv'
    BY <2>2, <2>5 DEF MoveToBoth
  <2> QED BY <1>4, <2>1, <2>3, <2>4, <2>5 DEF Commands
<1>5. ASSUME NEW a \in Axes, AxisStep(a) PROVE MultiInv'
  BY <1>5, InvAxisStep
<1>6. ASSUME NEW a \in Axes, Configure(a) PROVE MultiInv'
  <2>1. /\ state = "off" /\ state' = "off"
        /\ UNCHANGED <<queue, phys, goal>>
    BY <1>6 DEF Configure, machineVars, axesVars
  <2> QED BY <2>1 DEF MultiInv, WaitInv, InitInv, OnItsWay, ArriveInv, StopInv, StillInv
<1>7. CASE UNCHANGED vars
  BY <1>7 DEF vars, machineVars, configVars, axesVars, MultiInv, WaitInv, InitInv, OnItsWay,
     ArriveInv, StopInv, StillInv, Awaits, Close, Near, Coord, StepsForDistance
<1> QED BY <1>1, <1>2, <1>3, <1>4, <1>5, <1>6, <1>7 DEF Next

\* The invariant holds throughout.
LEMMA MultiInvariant == Spec => [](TypeOK /\ MultiInv)
<1>1. TypeOK /\ MultiInv /\ [Next]_vars => (TypeOK /\ MultiInv)'
  BY TypeStep, InvStep
<1>2. Init => TypeOK /\ MultiInv
  BY TypeInit, InvInit
<1> QED BY <1>1, <1>2, PTL DEF Spec

\* No failure of the controller leaves the drive in a state that waits for a poll or an
\* event which will not come.
THEOREM MultiNeverStranded == Spec => []NeverStranded
<1>1. MultiInv => NeverStranded
  BY DEF MultiInv, WaitInv, Ended, Has, Event, NeverStranded
<1> QED BY <1>1, MultiInvariant, PTL

\* A moving axis is on its way to the position last accepted for it, whatever was sent
\* before and whatever other axes were refused.
THEOREM MultiOnItsWay == Spec => []OnItsWay
<1>1. MultiInv => OnItsWay
  BY DEF MultiInv
<1> QED BY <1>1, MultiInvariant, PTL

\* A stopped drive knows where its axes are, to half a millimetre and the part of a step
\* cut from their targets: moves are worked out and limited from there.
THEOREM MultiPositionKnown == Spec => []PositionKnown
<1>1. MultiInv => PositionKnown
  BY DEF MultiInv, StillInv, PositionKnown
<1> QED BY <1>1, MultiInvariant, PTL

\* A move reported as completed has brought every axis to the last target accepted: the
\* report is not from an earlier move, and no axis has gone on since.
THEOREM MultiArrives == Spec => ArrivesAtTarget
<1>1. ASSUME TypeOK, MultiInv, [Next]_vars,
             state = "moving", state' = "stopped", Head(queue).what = "SUCCEED"
      PROVE  \A a \in Axes : Near(Coord(a), nextPos[a], a)
  <2>1. Takes("stopped")
    <3>1. ~(Run \/ EntersMoving \/ EntersFailed \/ DropsEvent \/ CheckMoving \/ UNCHANGED vars)
      BY <1>1 DEF Run, EntersMoving, EntersFailed, DropsEvent, CheckMoving, vars, machineVars
    <3>2. ~Commands
      BY <1>1 DEF Commands, GoHome, Stop, MoveNegative, MovePositive, MoveTo, MoveToBoth,
         MoveAllowed
    <3>3. \A a \in Axes : ~Configure(a) /\ ~AxisStep(a)
      BY <1>1 DEF Configure, AxisStep, machineVars
    <3> QED BY <1>1, <3>1, <3>2, <3>3 DEF Next, ProcessEvent, EntersStopped
  <2>2. /\ queue # <<>> /\ Head(queue) = Event("moving", "SUCCEED")
        /\ Has(queue, Event("moving", "SUCCEED"))
    BY <2>1, <1>1, Taken DEF MultiInv
  <2>3. Awaits("moving", "SUCCEED")
    BY <2>2 DEF Awaits, Has
  <2>4. ~FirstIs(queue, Event("moving", "FAILED"))
    <3>1. /\ Event("moving", "SUCCEED") # Event("moving", "FAILED")
          /\ Event("moving", "SUCCEED").at = Event("moving", "FAILED").at
      BY DEF Event
    <3> QED BY <3>1, <2>2, <1>1, HeadTaken DEF TypeOK
  <2> QED BY <1>1, <2>3, <2>4 DEF MultiInv, ArriveInv
<1>2. TypeOK /\ MultiInv /\ [Next]_vars =>
        [state = "moving" /\ state' = "stopped" /\ Head(queue).what = "SUCCEED"
           => \A a \in Axes : Near(Coord(a), nextPos[a], a)]_vars
  BY <1>1
<1> QED BY <1>2, MultiInvariant, PTL DEF Spec, ArrivesAtTarget

=============================================================================
