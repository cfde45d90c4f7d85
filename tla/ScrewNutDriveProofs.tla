------------------------ MODULE ScrewNutDriveProofs ------------------------
(***************************************************************************)
(* Theorems about ScrewNutDrive, for every length of the screw, resolution *)
(* and set of positions: a stopped drive stands still where it says it is, *)
(* a move reported as completed has arrived, and the table stays on the    *)
(* screw, provided the controller stops when it is told and reads its      *)
(* encoder; and whatever it does, the drive never waits for nothing.       *)
(***************************************************************************)
EXTENDS ScrewNutDrive, SequenceTheorems, TLAPS

-----------------------------------------------------------------------------
(* Types.                                                                  *)

\* Taking an event off the queue and posting one leave a queue of events.
LEMMA QueueTyping ==
  ASSUME queue \in Seq(Events)
  PROVE  /\ queue # <<>> => Tail(queue) \in Seq(Events) /\ Head(queue) \in Events
         /\ \A s \in Seq(Events), at \in States, r \in {"SUCCEED", "FAILED", "MOVE", "STOP"} :
              Append(s, Event(at, r)) \in Seq(Events)
<1>1. \A at \in States, r \in {"SUCCEED", "FAILED", "MOVE", "STOP"} : Event(at, r) \in Events
  BY DEF Event, Events
<1> QED BY <1>1

\* The initial values are within the types.
LEMMA TypeInit == Init => TypeOK
<1> SUFFICES ASSUME Init PROVE TypeOK
  OBVIOUS
<1>1. phys \in Int /\ nextPos \in Int
  BY StepsAssumption DEF Init
<1>2. queue \in Seq(Events)
  BY DEF Init
<1>3. state \in States /\ pos \in Int /\ dir \in {1, -1} /\ left \in Nat
  BY DEF Init, States
<1>4. draining \in BOOLEAN /\ timer \in BOOLEAN /\ inited \in BOOLEAN /\ homing \in BOOLEAN
  BY DEF Init
<1> QED BY <1>1, <1>2, <1>3, <1>4 DEF TypeOK

\* A number of ticks is a whole number of steps, or none.
LEMMA StepsType == \A n \in Int : Magnitude(n) \in Nat /\ StepsForDistance(Magnitude(n)) \in Nat
<1> SUFFICES ASSUME NEW n \in Int PROVE Magnitude(n) \in Nat /\ StepsForDistance(Magnitude(n)) \in Nat
  OBVIOUS
<1>1. Magnitude(n) \in Nat
  BY DEF Magnitude
<1>2. \A m \in Nat : m \div TicksPerStep \in Nat
  BY TicksAssumption, Z3
<1> QED BY <1>1, <1>2 DEF StepsForDistance


\* Each step of the drive, its machine, its timer, its commands and its motor keeps
\* the types.
LEMMA TypeStep == TypeOK /\ [Next]_driveVars => TypeOK'
<1> SUFFICES ASSUME TypeOK, [Next]_driveVars PROVE TypeOK'
  OBVIOUS
<1>q. /\ queue # <<>> => Tail(queue) \in Seq(Events) /\ Head(queue) \in Events
      /\ \A s \in Seq(Events), at \in States, r \in {"SUCCEED", "FAILED", "MOVE", "STOP"} :
           Append(s, Event(at, r)) \in Seq(Events)
  BY QueueTyping DEF TypeOK
<1>s. {"off", "initing", "zeroSearching", "stopped", "moving", "failed"} \subseteq States
  BY DEF States
<1>l. MaxSteps \div 2 \in Nat
  BY StepsAssumption
<1> USE DEF TypeOK
<1>1. CASE Run
  <2>1. queue' \in Seq(Events) /\ timer' \in BOOLEAN
    <3>1. <<>> \in Seq(Events)
      OBVIOUS
    <3> QED BY <1>1, <1>q, <1>s, <3>1 DEF Run, InitStarted
  <2>2. dir' \in {1, -1} /\ left' \in Nat /\ homing' \in BOOLEAN
    BY <1>1, <1>l DEF Run, InitStarted, motorVars
  <2>3. draining' \in BOOLEAN
    BY <1>1 DEF Run, Drains
  <2> QED BY <1>1, <2>1, <2>2, <2>3, <1>s DEF Run
<1>2. CASE ProcessEvent
  <2> USE DEF Drains, LeaveState
  <2>1. CASE EntersZeroSearching
    <3>1. Tail(queue) \in Seq(Events)
      BY <2>1, <1>q DEF EntersZeroSearching, Takes
    <3>2. timer' \in BOOLEAN /\ queue' \in Seq(Events)
      BY <2>1, <3>1, <1>q, <1>s DEF EntersZeroSearching, ZeroSearchStarted
    <3>3. dir' \in {1, -1} /\ homing' \in BOOLEAN /\ left' = left
      BY <2>1 DEF EntersZeroSearching, ZeroSearchStarted
    <3> QED BY <2>1, <3>2, <3>3, <1>s DEF EntersZeroSearching
  <2>2. CASE EntersStopped
    <3>1. Tail(queue) \in Seq(Events)
      BY <2>2, <1>q DEF EntersStopped, Takes
    <3>2. queue' \in Seq(Events) /\ timer' = FALSE
      BY <2>2, <3>1, <1>q, <1>s DEF EntersStopped, StoppedEntered
    <3>3. pos' \in Int /\ nextPos' \in Int
      <4>1. phys * TicksPerStep \in Int
        BY TicksAssumption, Z3
      <4> QED BY <2>2, <4>1, CoordsAssumption DEF EntersStopped, StoppedEntered
    <3> QED BY <2>2, <3>2, <3>3, <1>s DEF EntersStopped, motorVars
  <2>3. CASE EntersMoving
    <3>1. Tail(queue) \in Seq(Events)
      BY <2>3, <1>q DEF EntersMoving, Takes
    <3>2. queue' \in Seq(Events) /\ timer' \in BOOLEAN
      BY <2>3, <3>1, <1>q, <1>s DEF EntersMoving, MovingStarted
    <3>3. dir' \in {1, -1} /\ left' \in Nat
      <4>1. nextPos - pos \in Int
        OBVIOUS
      <4>2. StepsForDistance(Magnitude(nextPos - pos)) \in Nat
        BY <4>1, StepsType
      <4> QED BY <2>3, <4>2 DEF EntersMoving, MovingStarted
    <3> QED BY <2>3, <3>2, <3>3, <1>s DEF EntersMoving
  <2>4. CASE EntersFailed
    BY <2>4, <1>q, <1>s DEF EntersFailed, Takes, motorVars
  <2>5. CASE DropsEvent
    BY <2>5, <1>q DEF DropsEvent, motorVars
  <2> QED BY <1>2, <2>1, <2>2, <2>3, <2>4, <2>5 DEF ProcessEvent
<1>3. CASE CheckMoving
  <2>1. CASE PollIniting
    <3>1. queue' \in Seq(Events) /\ left' \in Nat
      BY <2>1, <1>q DEF PollIniting, Posts
    <3>2. homing' \in BOOLEAN /\ inited' \in BOOLEAN
      BY <2>1, Zenon DEF PollIniting
    <3> QED BY <2>1, <3>1, <3>2 DEF PollIniting
  <2>2. CASE PollZeroSearching
    BY <2>2, <1>q DEF PollZeroSearching, Polls, Posts, motorVars
  <2>3. CASE PollMoving
    BY <2>3, <1>q DEF PollMoving, Polls, Posts, motorVars
  <2> QED BY <1>3, <2>1, <2>2, <2>3 DEF CheckMoving
<1>4. CASE Commands
  <2>0. ASSUME NEW target \in Int, Accept(target) PROVE TypeOK'
    BY <2>0, <1>q, <1>s DEF Accept, motorVars
  <2>1. CASE GoHome
    BY <2>0, <2>1 DEF GoHome
  <2>2. CASE Stop
    <3>1. queue' \in Seq(Events) /\ left' \in Nat
      BY <2>2, <1>q DEF Stop, Posts
    <3>2. homing' \in BOOLEAN
      BY <2>2, Zenon DEF Stop
    <3> QED BY <2>2, <3>1, <3>2 DEF Stop
  <2>3. ASSUME NEW d \in Distances, MoveNegative(d) \/ MovePositive(d) PROVE TypeOK'
    <3>1. pos - d \in Int /\ pos + d \in Int
      BY CoordsAssumption
    <3> QED BY <2>0, <2>3, <3>1 DEF MoveNegative, MovePositive
  <2>4. ASSUME NEW c \in Coords, MoveTo(c) PROVE TypeOK'
    BY <2>0, <2>4, CoordsAssumption DEF MoveTo
  <2> QED BY <1>4, <2>1, <2>2, <2>3, <2>4 DEF Commands
<1>5. CASE MotorStep
  <2>1. phys' \in Int /\ left' \in Nat
    BY <1>5 DEF MotorStep
  <2>2. homing' \in BOOLEAN
    <3>1. (phys' > 0) \in BOOLEAN
      OBVIOUS
    <3> QED BY <1>5, <3>1, Zenon DEF MotorStep
  <2> QED BY <1>5, <2>1, <2>2 DEF MotorStep, softVars
<1>6. CASE UNCHANGED driveVars
  BY <1>6 DEF driveVars, softVars, motorVars
<1> QED BY <1>1, <1>2, <1>3, <1>4, <1>5, <1>6 DEF Next

\* In every run the drive's variables stay within their types: what it asks of the
\* motor is a natural number of steps, whatever order moves and polls come in.
THEOREM DriveTypeCorrect == Spec => []TypeOK
<1>1. Init => TypeOK
  BY TypeInit
<1>2. TypeOK /\ [Next]_driveVars => TypeOK'
  BY TypeStep
<1> QED BY <1>1, <1>2, PTL DEF Spec

-----------------------------------------------------------------------------
(* The queue.                                                              *)

\* Posting for the active state keeps the order, and adds one event.
LEMMA PostKeepsOrder ==
  ASSUME NEW q \in Seq(Events), NEW s \in States, NEW r \in {"SUCCEED", "FAILED", "MOVE", "STOP"},
         Ordered(q, s)
  PROVE  /\ Ordered(Append(q, Event(s, r)), s)
         /\ \A t :
              Queued(Append(q, Event(s, r)), s, t) => t = r \/ Queued(q, s, t)
<1> DEFINE p == Append(q, Event(s, r))
<1>1. /\ Len(p) = Len(q) + 1 /\ p[Len(p)] = Event(s, r)
      /\ DOMAIN p = 1..Len(p) /\ DOMAIN q = 1..Len(q) /\ Len(q) \in Nat
      /\ \A i \in 1..Len(q) : p[i] = q[i]
  OBVIOUS
<1>2. Ordered(p, s)
  <2> SUFFICES ASSUME NEW i \in DOMAIN p, NEW j \in DOMAIN p, i < j, p[i].at = s
               PROVE  p[j].at = s
    BY DEF Ordered
  <2>1. CASE j = Len(p)
    BY <2>1, <1>1 DEF Event
  <2>2. CASE j # Len(p)
    <3>1. i \in DOMAIN q /\ j \in DOMAIN q
      BY <2>2, <1>1
    <3> QED BY <3>1, <1>1 DEF Ordered
  <2> QED BY <2>1, <2>2
<1>3. ASSUME NEW t, Queued(p, s, t) PROVE t = r \/ Queued(q, s, t)
  <2>1. PICK i \in DOMAIN p : p[i] = Event(s, t)
    BY <1>3 DEF Queued
  <2>2. CASE i = Len(p)
    BY <2>1, <2>2, <1>1 DEF Event
  <2>3. CASE i # Len(p)
    <3>1. i \in DOMAIN q
      BY <2>3, <1>1
    <3> QED BY <2>1, <3>1, <1>1 DEF Queued
  <2> QED BY <2>2, <2>3
<1> QED BY <1>2, <1>3

\* Dropping the first event keeps the order, and adds none.
LEMMA DropKeepsOrder ==
  ASSUME NEW q \in Seq(Events), q # <<>>, NEW s, Ordered(q, s)
  PROVE  /\ Ordered(Tail(q), s)
         /\ \A t : Queued(Tail(q), s, t) => Queued(q, s, t)
<1>1. /\ DOMAIN Tail(q) = 1..(Len(q) - 1) /\ DOMAIN q = 1..Len(q) /\ Len(q) \in Nat
      /\ \A i \in 1..(Len(q) - 1) : Tail(q)[i] = q[i + 1]
  OBVIOUS
<1>2. \A i \in DOMAIN Tail(q) : i + 1 \in DOMAIN q /\ Tail(q)[i] = q[i + 1] /\ i \in Int
  BY <1>1
<1>3. Ordered(Tail(q), s)
  <2> SUFFICES ASSUME NEW i \in DOMAIN Tail(q), NEW j \in DOMAIN Tail(q),
                      i < j, Tail(q)[i].at = s
               PROVE  Tail(q)[j].at = s
    BY DEF Ordered
  <2>1. i + 1 < j + 1 /\ q[i + 1].at = s
    BY <1>2
  <2> QED BY <1>2, <2>1 DEF Ordered
<1>4. ASSUME NEW t, Queued(Tail(q), s, t) PROVE Queued(q, s, t)
  BY <1>2, <1>4 DEF Queued
<1> QED BY <1>3, <1>4

\* When a transition is taken the events left over are all of the state left: the
\* state entered finds none of its own, and what its slot posts is the only one.
LEMMA EntryStartsAfresh ==
  ASSUME queue \in Seq(Events), state \in States, Ordered(queue, state), NEW t \in States,
         Takes(t), t # state
  PROVE  /\ queue # <<>> /\ Queued(queue, state, Head(queue).what)
         /\ Tail(queue) \in Seq(Events)
         /\ Ordered(Tail(queue), t)
         /\ \A r : ~Queued(Tail(queue), t, r)
<1>1. queue # <<>> /\ Head(queue).at = state /\ Head(queue) = queue[1]
  BY DEF Takes
<1>2. /\ DOMAIN Tail(queue) = 1..(Len(queue) - 1) /\ DOMAIN queue = 1..Len(queue)
      /\ Len(queue) \in Nat /\ Len(queue) >= 1 /\ Tail(queue) \in Seq(Events)
      /\ \A i \in 1..(Len(queue) - 1) : Tail(queue)[i] = queue[i + 1]
  BY <1>1
<1>3. ASSUME NEW i \in DOMAIN Tail(queue) PROVE Tail(queue)[i].at = state
  <2>1. 1 \in DOMAIN queue /\ i + 1 \in DOMAIN queue /\ 1 < i + 1
    BY <1>2
  <2> QED BY <1>1, <1>2, <2>1 DEF Ordered
<1>4. Head(queue) \in Events
  BY <1>1
<1>5. Head(queue) = Event(state, Head(queue).what)
  BY <1>1, <1>4 DEF Events, Event
<1>6. Queued(queue, state, Head(queue).what)
  <2>1. 1 \in DOMAIN queue
    BY <1>2
  <2> QED BY <1>1, <1>5, <2>1 DEF Queued
<1>7. Ordered(Tail(queue), t)
  BY <1>3 DEF Ordered
<1>8. ASSUME NEW r, Queued(Tail(queue), t, r) PROVE FALSE
  BY <1>3, <1>8 DEF Queued, Event
<1> QED BY <1>1, <1>2, <1>6, <1>7, <1>8

-----------------------------------------------------------------------------
(* The drive at rest, with a controller that stops when it is told to and  *)
(* answers when its encoder is read. Any other call may fail.              *)

Reliable == "stopMoving" \notin Fallible /\ "readPosition" \notin Fallible

\* The calls that do not fail end in one way.
LEMMA ReliableOutcomes ==
  Reliable => /\ \A o \in Outcomes("stopMoving") : o = "ok"
              /\ \A o \in Outcomes("readPosition") : o = "ok"
BY DEF Reliable, Outcomes

\* A drive that has not been started is at rest.
LEMMA RestInit == Init => RestInv
<1> SUFFICES ASSUME Init PROVE RestInv
  OBVIOUS
<1>1. Ordered(queue, state)
  BY DEF Init, Ordered
<1> QED BY <1>1 DEF Init, RestInv, ReportsTrue, StoppedMeansStill, PositionTrue, MotorIdle

\* The start of the machine.
LEMMA RestRun == TypeOK /\ RestInv /\ Run => RestInv'
<1> SUFFICES ASSUME TypeOK, RestInv, Run PROVE RestInv'
  OBVIOUS
<1>1. /\ queue = <<>> /\ left = 0 /\ ~homing
      /\ state' = "initing" /\ phys' = phys
  BY DEF Run, RestInv, MotorIdle
<1>2. <<>> \in Seq(Events) /\ Ordered(<<>>, "initing") /\ \A r : ~Queued(<<>>, "initing", r)
  BY DEF Ordered, Queued
<1>3. \A r \in {"SUCCEED", "FAILED"} : Ordered(Append(<<>>, Event("initing", r)), "initing")
  BY <1>2, PostKeepsOrder DEF States
<1>4. Ordered(queue', "initing")
  BY <1>2, <1>3 DEF Run, InitStarted
<1>5. homing' = FALSE
  BY <1>1 DEF Run, InitStarted, motorVars
<1>6. Queued(queue', "initing", "SUCCEED") => left' = 0
  <2>1. ~Queued(Append(<<>>, Event("initing", "FAILED")), "initing", "SUCCEED")
    BY <1>2, PostKeepsOrder DEF States
  <2> QED BY <1>1, <1>2, <2>1 DEF Run, InitStarted, motorVars
<1> QED BY <1>1, <1>4, <1>5, <1>6 DEF RestInv, ReportsTrue, StoppedMeansStill, PositionTrue

\* Each event that machine_ processes, the entries into states it causes included.
LEMMA RestEnters ==
  ASSUME Reliable, TypeOK, RestInv, ProcessEvent
  PROVE  RestInv'
<1> USE DEF TypeOK
<1>a. ASSUME NEW t \in States, Takes(t), t # state
      PROVE  /\ Tail(queue) \in Seq(Events) /\ Ordered(Tail(queue), t)
             /\ \A r : ~Queued(Tail(queue), t, r)
             /\ queue # <<>> /\ Queued(queue, state, Head(queue).what)
             /\ \A r \in {"SUCCEED", "FAILED", "MOVE", "STOP"} :
                  /\ Ordered(Append(Tail(queue), Event(t, r)), t)
                  /\ \A u :
                       Queued(Append(Tail(queue), Event(t, r)), t, u) => u = r
  <2>1. /\ Tail(queue) \in Seq(Events) /\ Ordered(Tail(queue), t)
        /\ \A r : ~Queued(Tail(queue), t, r)
        /\ queue # <<>> /\ Queued(queue, state, Head(queue).what)
    BY <1>a, EntryStartsAfresh DEF RestInv
  <2>2. ASSUME NEW q \in Seq(Events), Ordered(q, t),
               NEW r \in {"SUCCEED", "FAILED", "MOVE", "STOP"}
        PROVE  /\ Ordered(Append(q, Event(t, r)), t)
               /\ \A u :
                    Queued(Append(q, Event(t, r)), t, u) => u = r \/ Queued(q, t, u)
    BY <2>2, PostKeepsOrder
  <2>3. ASSUME NEW r \in {"SUCCEED", "FAILED", "MOVE", "STOP"}, NEW u
        PROVE  /\ Ordered(Append(Tail(queue), Event(t, r)), t)
               /\ Queued(Append(Tail(queue), Event(t, r)), t, u) => u = r
    <3>1. Ordered(Append(Tail(queue), Event(t, r)), t)
      BY <2>1, <2>2, Zenon
    <3>2. \A v :
            Queued(Append(Tail(queue), Event(t, r)), t, v) => v = r \/ Queued(Tail(queue), t, v)
      BY <2>1, <2>2, Zenon
    <3> QED BY <2>1, <3>1, <3>2
  <2>4. \A r \in {"SUCCEED", "FAILED", "MOVE", "STOP"} :
          /\ Ordered(Append(Tail(queue), Event(t, r)), t)
          /\ \A u :
               Queued(Append(Tail(queue), Event(t, r)), t, u) => u = r
    BY <2>3, Zenon
  <2> QED BY <2>1, <2>4, Zenon
<1>1. CASE EntersZeroSearching
  <2>1. state = "initing" /\ Head(queue).what = "SUCCEED" /\ state' = "zeroSearching" /\ phys' = phys
    BY <1>1 DEF EntersZeroSearching, Takes, Transitions
  <2>2. Takes("zeroSearching") /\ "zeroSearching" \in States
    BY <1>1 DEF EntersZeroSearching, States
  <2>3. left = 0 /\ ~homing
    BY <1>a, <2>1, <2>2 DEF RestInv, ReportsTrue
  <2>4. left' = 0 /\ (homing' => phys > 0)
    BY <1>1, <2>3 DEF EntersZeroSearching, ZeroSearchStarted, AtHome
  <2>5. Ordered(queue', "zeroSearching") /\ ~Queued(queue', "zeroSearching", "SUCCEED")
    BY <1>1, <1>a, <2>1, <2>2 DEF EntersZeroSearching, ZeroSearchStarted
  <2> QED BY <2>1, <2>4, <2>5 DEF RestInv, ReportsTrue, StoppedMeansStill, PositionTrue
<1>2. CASE EntersStopped
  <2>1. state' = "stopped" /\ phys' = phys /\ left' = left /\ homing' = homing
    BY <1>2 DEF EntersStopped, motorVars
  <2>2. \/ state = "zeroSearching" /\ Head(queue).what = "SUCCEED"
        \/ state = "moving" /\ Head(queue).what \in {"SUCCEED", "STOP"}
    BY <1>2 DEF EntersStopped, Takes, Transitions
  <2>3. Takes("stopped") /\ "stopped" \in States /\ state # "stopped"
    BY <1>2, <2>2 DEF EntersStopped, States
  <2>4. left = 0 /\ ~homing
    BY <1>a, <2>2, <2>3 DEF RestInv, ReportsTrue
  <2>5. pos' = phys * TicksPerStep
    BY <1>2, ReliableOutcomes DEF EntersStopped, StoppedEntered
  <2>6. Ordered(queue', "stopped")
    BY <1>2, <1>a, <2>3 DEF EntersStopped, StoppedEntered
  <2> QED BY <2>1, <2>4, <2>5, <2>6
          DEF RestInv, ReportsTrue, StoppedMeansStill, PositionTrue, MotorIdle
<1>3. CASE EntersMoving
  <2>1. state = "stopped" /\ state' = "moving" /\ phys' = phys /\ homing' = homing
    BY <1>3 DEF EntersMoving, Takes, Transitions
  <2>2. Takes("moving") /\ "moving" \in States
    BY <1>3 DEF EntersMoving, States
  <2>3. left = 0 /\ ~homing
    BY <2>1 DEF RestInv, StoppedMeansStill, MotorIdle
  <2>4. /\ Ordered(queue', "moving")
        /\ Queued(queue', "moving", "SUCCEED") \/ Queued(queue', "moving", "STOP") => left' = 0
    BY <1>3, <1>a, <2>1, <2>2, <2>3 DEF EntersMoving, MovingStarted
  <2> QED BY <2>1, <2>3, <2>4 DEF RestInv, ReportsTrue, StoppedMeansStill, PositionTrue
<1>4. CASE EntersFailed
  <2>1. state' = "failed" /\ queue' = Tail(queue) /\ UNCHANGED <<phys, left, homing>>
    BY <1>4 DEF EntersFailed, motorVars
  <2>2. Takes("failed") /\ "failed" \in States /\ state # "failed"
    BY <1>4 DEF EntersFailed, States, Takes, Transitions
  <2>3. Ordered(queue', "failed")
    BY <1>a, <2>1, <2>2
  <2> QED BY <2>1, <2>3 DEF RestInv, ReportsTrue, StoppedMeansStill, PositionTrue
<1>5. CASE DropsEvent
  <2>1. /\ queue # <<>> /\ queue' = Tail(queue)
        /\ UNCHANGED <<state, pos, phys, left, homing>>
    BY <1>5 DEF DropsEvent, motorVars
  <2>2. /\ Ordered(queue', state)
        /\ \A r : Queued(queue', state, r) => Queued(queue, state, r)
    BY <2>1, DropKeepsOrder DEF RestInv
  <2>3. state # "off"
    BY <2>1 DEF RestInv
  <2> QED BY <2>1, <2>2, <2>3 DEF RestInv, ReportsTrue, StoppedMeansStill, PositionTrue, MotorIdle
<1> QED BY <1>1, <1>2, <1>3, <1>4, <1>5 DEF ProcessEvent

\* The polls of the controller.
LEMMA RestPolls ==
  ASSUME Reliable, TypeOK, RestInv, CheckMoving
  PROVE  RestInv'
<1> USE DEF TypeOK
<1>p. ASSUME NEW r \in {"SUCCEED", "FAILED", "MOVE", "STOP"}
      PROVE  /\ Ordered(Append(queue, Event(state, r)), state)
             /\ \A u :
                  Queued(Append(queue, Event(state, r)), state, u) => u = r \/ Queued(queue, state, u)
  BY PostKeepsOrder DEF RestInv
<1>1. CASE PollIniting
  <2>1. state = "initing" /\ state' = state /\ phys' = phys /\ ~homing
    BY <1>1 DEF PollIniting, RestInv
  <2>2. ~homing'
    BY <1>1, <2>1 DEF PollIniting
  <2>3. Ordered(queue', state)
    BY <1>1, <1>p DEF PollIniting, Posts, RestInv
  <2>4. Queued(queue', state, "SUCCEED") => left' = 0
    BY <1>1, <1>p, <2>1 DEF PollIniting, Posts, RestInv, ReportsTrue, Obeyed
  <2> QED BY <2>1, <2>2, <2>3, <2>4 DEF RestInv, ReportsTrue, StoppedMeansStill, PositionTrue
<1>2. CASE PollZeroSearching
  <2>1. state = "zeroSearching" /\ UNCHANGED <<state, phys, left, homing>>
    BY <1>2 DEF PollZeroSearching, Polls, motorVars
  <2>2. Ordered(queue', state)
    BY <1>2, <1>p DEF PollZeroSearching, Posts, RestInv
  <2>3. Queued(queue', state, "SUCCEED") => ~homing
    <3>1. CASE AtHome
      BY <3>1 DEF AtHome, RestInv
    <3>2. CASE ~AtHome
      <4>1. queue' = queue \/ queue' = Append(queue, Event(state, "FAILED"))
        BY <1>2, <3>2 DEF PollZeroSearching, Posts
      <4> QED BY <4>1, <1>p, <2>1 DEF RestInv, ReportsTrue
    <3> QED BY <3>1, <3>2
  <2> QED BY <2>1, <2>2, <2>3 DEF RestInv, ReportsTrue, StoppedMeansStill, PositionTrue
<1>3. CASE PollMoving
  <2>1. state = "moving" /\ UNCHANGED <<state, phys, left, homing>>
    BY <1>3 DEF PollMoving, Polls, motorVars
  <2>2. Ordered(queue', state)
    BY <1>3, <1>p DEF PollMoving, Posts, RestInv
  <2>3. Queued(queue', state, "SUCCEED") \/ Queued(queue', state, "STOP") => left = 0
    BY <1>3, <1>p, <2>1 DEF PollMoving, Posts, RestInv, ReportsTrue
  <2> QED BY <2>1, <2>2, <2>3 DEF RestInv, ReportsTrue, StoppedMeansStill, PositionTrue
<1> QED BY <1>1, <1>2, <1>3 DEF CheckMoving

\* The commands.
LEMMA RestCommands ==
  ASSUME Reliable, TypeOK, RestInv, Commands
  PROVE  RestInv'
<1> USE DEF TypeOK
<1>p. ASSUME NEW r \in {"SUCCEED", "FAILED", "MOVE", "STOP"}
      PROVE  /\ Ordered(Append(queue, Event(state, r)), state)
             /\ \A u :
                  Queued(Append(queue, Event(state, r)), state, u) => u = r \/ Queued(queue, state, u)
  BY PostKeepsOrder DEF RestInv
<1>1. ASSUME MoveAllowed, NEW target, Accept(target) PROVE RestInv'
  <2>1. state = "stopped" /\ UNCHANGED <<state, pos, phys, left, homing>>
    BY <1>1 DEF MoveAllowed, Accept, motorVars
  <2>2. Ordered(queue', state)
    BY <1>1, <1>p, <2>1 DEF Accept
  <2> QED BY <2>1, <2>2 DEF RestInv, ReportsTrue, StoppedMeansStill, PositionTrue, MotorIdle
<1>2. CASE Stop
  <2>1. state = "moving" /\ state' = state /\ phys' = phys
    BY <1>2 DEF Stop
  <2>2. left' = 0 /\ ~homing'
    BY <1>2, ReliableOutcomes DEF Stop, Obeyed
  <2>3. Ordered(queue', state)
    BY <1>2, <1>p DEF Stop, Posts
  <2> QED BY <2>1, <2>2, <2>3 DEF RestInv, ReportsTrue, StoppedMeansStill, PositionTrue
<1>3. CASE Commands /\ ~Stop
  BY <1>1, <1>3 DEF Commands, GoHome, MoveNegative, MovePositive, MoveTo
<1> QED BY <1>2, <1>3

\* The steps of the motor: none where the drive is at rest, and none that an event
\* has already reported as the last.
LEMMA RestMotor == TypeOK /\ RestInv /\ MotorStep => RestInv'
<1> SUFFICES ASSUME TypeOK, RestInv, MotorStep PROVE RestInv'
  OBVIOUS
<1> USE DEF TypeOK
<1>1. UNCHANGED <<state, queue, pos>>
  BY DEF MotorStep, softVars
<1>2. CASE homing
  <2>1. state \in {"zeroSearching", "failed"} /\ left' = left /\ (homing' => phys' > 0)
    BY <1>2 DEF MotorStep, RestInv
  <2>2. state = "zeroSearching" => ~Queued(queue, state, "SUCCEED")
    BY <1>2 DEF RestInv, ReportsTrue
  <2> QED BY <1>1, <2>1, <2>2 DEF RestInv, ReportsTrue, StoppedMeansStill, PositionTrue
<1>3. CASE ~homing
  <2>1. left > 0 /\ ~homing'
    BY <1>3 DEF MotorStep
  <2>2. /\ state \notin {"off", "stopped", "zeroSearching"}
        /\ state = "initing" => ~Queued(queue, state, "SUCCEED")
        /\ state = "moving" => ~Queued(queue, state, "SUCCEED") /\ ~Queued(queue, state, "STOP")
    BY <2>1 DEF RestInv, ReportsTrue, StoppedMeansStill, MotorIdle
  <2> QED BY <1>1, <2>1, <2>2 DEF RestInv, ReportsTrue, StoppedMeansStill, PositionTrue
<1> QED BY <1>2, <1>3

\* Each step keeps the inductive invariant.
LEMMA RestStep == Reliable /\ TypeOK /\ RestInv /\ [Next]_driveVars => RestInv'
<1> SUFFICES ASSUME Reliable, TypeOK, RestInv, [Next]_driveVars PROVE RestInv'
  OBVIOUS
<1>1. CASE UNCHANGED driveVars
  BY <1>1 DEF driveVars, softVars, motorVars, RestInv, ReportsTrue, StoppedMeansStill,
              PositionTrue, MotorIdle
<1> QED BY <1>1, RestRun, RestEnters, RestPolls, RestCommands, RestMotor DEF Next

\* With a controller that obeys stopMoving() and answers readPosition(), a drive that
\* says it is stopped stands still, however the other calls fail, and whatever
\* commands and polls come before the machine has processed its events.
THEOREM StandsStill == Reliable => (Spec => []StoppedMeansStill)
<1> SUFFICES ASSUME Reliable PROVE Spec => []StoppedMeansStill
  OBVIOUS
<1>1. Init => TypeOK /\ RestInv
  BY TypeInit, RestInit
<1>2. TypeOK /\ RestInv /\ [Next]_driveVars => (TypeOK /\ RestInv)'
  BY TypeStep, RestStep
<1>3. RestInv => StoppedMeansStill
  BY DEF RestInv
<1> QED BY <1>1, <1>2, <1>3, PTL DEF Spec

\* Under the same assumption its position, from which the next move is calculated, is
\* where the table is.
THEOREM KnowsPosition == Reliable => (Spec => []PositionTrue)
<1> SUFFICES ASSUME Reliable PROVE Spec => []PositionTrue
  OBVIOUS
<1>1. Init => TypeOK /\ RestInv
  BY TypeInit, RestInit
<1>2. TypeOK /\ RestInv /\ [Next]_driveVars => (TypeOK /\ RestInv)'
  BY TypeStep, RestStep
<1>3. RestInv => PositionTrue
  BY DEF RestInv
<1> QED BY <1>1, <1>2, <1>3, PTL DEF Spec

-----------------------------------------------------------------------------
(* No state waits for ever: whatever the controller does.                  *)

\* An event posted for a state that waits for one is taken by one of its transitions.
Expected(e) ==
  e.at \in {"initing", "zeroSearching", "moving"} =>
    \E t \in {"zeroSearching", "stopped", "failed"} : <<e.at, e.what, t>> \in Transitions

AllExpected(q) == \A i \in DOMAIN q : Expected(q[i])

Awaited(q, s) == \E i \in DOMAIN q : q[i].at = s

WaitInv == AllExpected(queue) /\ NeverStranded

\* Posting an event that a transition takes keeps the queue so, and the wait answered.
LEMMA PostAwaited ==
  ASSUME NEW q \in Seq(Events), NEW e \in Events, AllExpected(q), Expected(e)
  PROVE  AllExpected(Append(q, e)) /\ Awaited(Append(q, e), e.at)
<1> DEFINE p == Append(q, e)
<1>1. /\ DOMAIN p = 1..(Len(q) + 1) /\ DOMAIN q = 1..Len(q) /\ Len(q) \in Nat
      /\ p[Len(q) + 1] = e /\ \A i \in 1..Len(q) : p[i] = q[i]
  OBVIOUS
<1>2. ASSUME NEW i \in DOMAIN p PROVE Expected(p[i])
  <2>1. CASE i = Len(q) + 1
    BY <2>1, <1>1
  <2>2. CASE i # Len(q) + 1
    <3>1. i \in DOMAIN q
      BY <2>2, <1>1
    <3> QED BY <3>1, <1>1 DEF AllExpected
  <2> QED BY <2>1, <2>2
<1>3. Len(q) + 1 \in DOMAIN p
  BY <1>1
<1> QED BY <1>1, <1>2, <1>3 DEF AllExpected, Awaited

\* Taking the first event off keeps the others, and the wait for any of them.
LEMMA DropAwaited ==
  ASSUME NEW q \in Seq(Events), q # <<>>, AllExpected(q)
  PROVE  /\ Tail(q) \in Seq(Events) /\ AllExpected(Tail(q))
         /\ Head(q) \in Events /\ Expected(Head(q))
         /\ \A s : Awaited(q, s) /\ Head(q).at # s => Awaited(Tail(q), s)
<1>1. /\ DOMAIN Tail(q) = 1..(Len(q) - 1) /\ DOMAIN q = 1..Len(q) /\ Len(q) \in Nat
      /\ Len(q) >= 1 /\ Head(q) = q[1] /\ Tail(q) \in Seq(Events)
      /\ \A i \in 1..(Len(q) - 1) : Tail(q)[i] = q[i + 1]
  OBVIOUS
<1>2. \A i \in DOMAIN Tail(q) : i + 1 \in DOMAIN q /\ Tail(q)[i] = q[i + 1]
  BY <1>1
<1>3. AllExpected(Tail(q))
  BY <1>2 DEF AllExpected
<1>4. 1 \in DOMAIN q /\ Head(q) \in Events
  BY <1>1
<1>5. ASSUME NEW s, Awaited(q, s), Head(q).at # s PROVE Awaited(Tail(q), s)
  <2>1. PICK i \in DOMAIN q : q[i].at = s
    BY <1>5 DEF Awaited
  <2>2. i # 1
    BY <2>1, <1>1, <1>5
  <2>3. i - 1 \in DOMAIN Tail(q) /\ Tail(q)[i - 1] = q[(i - 1) + 1] /\ (i - 1) + 1 = i
    BY <2>2, <1>1
  <2> QED BY <2>1, <2>3 DEF Awaited
<1> QED BY <1>1, <1>3, <1>4, <1>5 DEF AllExpected

\* The events that the code posts, in the states in which it posts them.
LEMMA PostedAreExpected ==
  /\ \A s \in States, r \in {"SUCCEED", "FAILED"} :
       Event(s, r) \in Events /\ Expected(Event(s, r)) /\ Event(s, r).at = s
  /\ LET e == Event("stopped", "MOVE") IN e \in Events /\ Expected(e)
  /\ LET e == Event("moving", "STOP") IN e \in Events /\ Expected(e) /\ e.at = "moving"
BY DEF Event, Events, States, Expected, Transitions

\* Entering a state starts the timer, or posts what leads out of it.
LEMMA WaitEnters ==
  ASSUME TypeOK, WaitInv, Run \/ ProcessEvent
  PROVE  WaitInv'
<1>q. queue \in Seq(Events) /\ state \in States /\ AllExpected(queue)
  BY DEF TypeOK, WaitInv
<1>p. ASSUME NEW q \in Seq(Events), AllExpected(q), NEW s \in States,
             NEW r \in {"SUCCEED", "FAILED"}
      PROVE  AllExpected(Append(q, Event(s, r))) /\ Awaited(Append(q, Event(s, r)), s)
  <2>1. Event(s, r) \in Events /\ Expected(Event(s, r)) /\ Event(s, r).at = s
    BY PostedAreExpected
  <2> QED BY <1>p, <2>1, PostAwaited
<1>t. queue # <<>> => Tail(queue) \in Seq(Events) /\ AllExpected(Tail(queue))
  BY <1>q, DropAwaited
<1>n. NeverStranded' <=>
        (state' \in {"initing", "zeroSearching", "moving"} => timer' \/ Awaited(queue', state'))
  BY DEF NeverStranded, Awaited
<1>0. CASE Run
  <2>1. <<>> \in Seq(Events) /\ AllExpected(<<>>)
    BY DEF AllExpected
  <2>2. /\ AllExpected(queue') /\ state' = "initing"
        /\ timer' \/ Awaited(queue', "initing")
    BY <1>0, <1>p, <2>1 DEF Run, InitStarted, States
  <2> QED BY <2>2, <1>n DEF WaitInv
<1>1. CASE EntersZeroSearching
  <2>1. Tail(queue) \in Seq(Events) /\ AllExpected(Tail(queue)) /\ state' = "zeroSearching"
    BY <1>1, <1>t DEF EntersZeroSearching, Takes
  <2>2. AllExpected(queue') /\ (timer' \/ Awaited(queue', "zeroSearching"))
    BY <1>1, <1>p, <2>1 DEF EntersZeroSearching, ZeroSearchStarted, States
  <2> QED BY <2>1, <2>2, <1>n DEF WaitInv
<1>2. CASE EntersStopped
  <2>1. Tail(queue) \in Seq(Events) /\ AllExpected(Tail(queue)) /\ state' = "stopped"
    BY <1>2, <1>t DEF EntersStopped, Takes
  <2>2. AllExpected(Append(Tail(queue), Event("stopped", "MOVE")))
    BY <2>1, PostedAreExpected, PostAwaited
  <2>3. AllExpected(Append(Tail(queue), Event("stopped", "FAILED")))
    BY <2>1, <1>p DEF States
  <2>4. AllExpected(queue')
    BY <1>2, <2>1, <2>2, <2>3 DEF EntersStopped, StoppedEntered
  <2> QED BY <2>1, <2>4, <1>n DEF WaitInv
<1>3. CASE EntersMoving
  <2>1. Tail(queue) \in Seq(Events) /\ AllExpected(Tail(queue)) /\ state' = "moving"
    BY <1>3, <1>t DEF EntersMoving, Takes
  <2>2. AllExpected(queue') /\ (timer' \/ Awaited(queue', "moving"))
    BY <1>3, <1>p, <2>1 DEF EntersMoving, MovingStarted, States
  <2> QED BY <2>1, <2>2, <1>n DEF WaitInv
<1>4. CASE EntersFailed
  BY <1>4, <1>t, <1>n DEF EntersFailed, Takes, WaitInv
<1>5. CASE DropsEvent
  <2>1. queue # <<>> /\ queue' = Tail(queue) /\ UNCHANGED <<state, timer>>
    BY <1>5 DEF DropsEvent
  <2>2. /\ AllExpected(Tail(queue)) /\ Head(queue) \in Events /\ Expected(Head(queue))
        /\ Awaited(queue, state) /\ Head(queue).at # state => Awaited(Tail(queue), state)
    BY <2>1, <1>q, DropAwaited
  <2>3. state \in {"initing", "zeroSearching", "moving"} => Head(queue).at # state
    BY <1>5, <2>1, <2>2 DEF DropsEvent, Takes, Expected
  <2> QED BY <2>1, <2>2, <2>3, <1>n DEF WaitInv, NeverStranded, Awaited
<1> QED BY <1>0, <1>1, <1>2, <1>3, <1>4, <1>5 DEF ProcessEvent

\* Nothing else stops the timer or takes an event off the queue.
LEMMA WaitStep == TypeOK /\ WaitInv /\ [Next]_driveVars => WaitInv'
<1> SUFFICES ASSUME TypeOK, WaitInv, [Next]_driveVars PROVE WaitInv'
  OBVIOUS
<1>q. queue \in Seq(Events) /\ state \in States /\ AllExpected(queue)
  BY DEF TypeOK, WaitInv
<1>p. ASSUME NEW e \in Events, Expected(e)
      PROVE  AllExpected(Append(queue, e)) /\ Awaited(Append(queue, e), e.at)
  BY <1>p, <1>q, PostAwaited
<1>n. NeverStranded' <=>
        (state' \in {"initing", "zeroSearching", "moving"} => timer' \/ Awaited(queue', state'))
  BY DEF NeverStranded, Awaited
<1>1. CASE CheckMoving
  <2>1. timer' /\ state' = state
    BY <1>1 DEF CheckMoving, PollIniting, PollZeroSearching, PollMoving, Polls
  <2>2. \A r \in {"SUCCEED", "FAILED"} : AllExpected(Append(queue, Event(state, r)))
    BY <1>p, <1>q, PostedAreExpected
  <2>3. AllExpected(queue')
    BY <1>1, <1>q, <2>2 DEF CheckMoving, PollIniting, PollZeroSearching, PollMoving, Posts
  <2> QED BY <2>1, <2>3, <1>n DEF WaitInv
<1>2. CASE Commands
  <2>1. CASE Stop
    <3>1. queue' = Append(queue, Event("moving", "STOP")) /\ state' = "moving"
      BY <2>1 DEF Stop, Posts
    <3> QED BY <3>1, <1>p, <1>n, PostedAreExpected DEF WaitInv
  <2>2. ASSUME MoveAllowed, NEW target, Accept(target) PROVE WaitInv'
    <3>1. queue' = Append(queue, Event("stopped", "MOVE")) /\ state' = "stopped"
      BY <2>2 DEF MoveAllowed, Accept
    <3> QED BY <3>1, <1>p, <1>n, PostedAreExpected DEF WaitInv
  <2> QED BY <1>2, <2>1, <2>2 DEF Commands, GoHome, MoveNegative, MovePositive, MoveTo
<1>3. CASE MotorStep \/ UNCHANGED driveVars
  BY <1>3 DEF MotorStep, driveVars, softVars, WaitInv, NeverStranded
<1> QED BY <1>1, <1>2, <1>3, WaitEnters DEF Next

\* Whatever the controller refuses or loses, a state that waits for it is polled or
\* has the event that ends it on its way.
THEOREM NotStranded == Spec => []NeverStranded
<1>1. Init => TypeOK /\ WaitInv
  <2>1. Init => WaitInv
    BY DEF Init, WaitInv, AllExpected, NeverStranded
  <2> QED BY <2>1, TypeInit
<1>2. TypeOK /\ WaitInv /\ [Next]_driveVars => (TypeOK /\ WaitInv)'
  BY TypeStep, WaitStep
<1>3. WaitInv => NeverStranded
  BY DEF WaitInv
<1> QED BY <1>1, <1>2, <1>3, PTL DEF Spec

-----------------------------------------------------------------------------
(* Where a move ends, with the same controller.                            *)

\* The first event of q that is for the state s is one of kinds.
EndsAs(q, s, kinds) ==
  \E i \in DOMAIN q : /\ q[i].at = s /\ q[i].what \in kinds
                      /\ \A j \in DOMAIN q : j < i => q[j].at # s

\* Where the table will be when the motor stops by itself; less than a step away from
\* the target.
Ahead == phys + dir * left
Near == Magnitude(nextPos - Ahead * TicksPerStep) < TicksPerStep

\* The table is, and goes, no further than the end of the screw.
Bounded == phys <= MaxSteps /\ Ahead <= MaxSteps

\* A move goes to its target, and stands there once an event for it is queued, unless a
\* stop or a failure ends it before anything else does.
ArriveInv ==
  state = "moving" =>
    \/ EndsAs(queue, "moving", {"STOP", "FAILED"})
    \/ Near /\ (Awaited(queue, "moving") => left = 0)

\* No target is beyond the end, nor is the table ever sent there but by a call that
\* failed, which the drive is to learn of before anything else.
TravelInv ==
  /\ nextPos <= Limit
  /\ \/ state = "failed"
     \/ state = "moving" /\ EndsAs(queue, "moving", {"FAILED"})
     \/ Bounded

MoveInv == ArriveInv /\ TravelInv

\* A distance is cut to whole steps by less than one of them.
LEMMA CutDistance ==
  ASSUME NEW n \in Nat
  PROVE  /\ StepsForDistance(n) * TicksPerStep <= n
         /\ n < StepsForDistance(n) * TicksPerStep + TicksPerStep
<1>1. TicksPerStep \in Nat /\ TicksPerStep > 0
  BY TicksAssumption
<1> QED BY <1>1 DEF StepsForDistance

\* A table that comes within a step of a target on the screw stays on the screw.
LEMMA NearIsOn ==
  ASSUME NEW a \in Int, NEW t \in Int, t <= Limit,
         Magnitude(t - a * TicksPerStep) < TicksPerStep
  PROVE  a <= MaxSteps
<1>1. TicksPerStep \in Nat /\ TicksPerStep > 0 /\ MaxSteps \in Nat
  BY TicksAssumption, StepsAssumption
<1>2. a * TicksPerStep \in Int /\ MaxSteps * TicksPerStep \in Int
  BY <1>1
<1>3. a * TicksPerStep - t < TicksPerStep
  BY <1>1, <1>2 DEF Magnitude
<1>4. a * TicksPerStep < MaxSteps * TicksPerStep + TicksPerStep
  BY <1>1, <1>2, <1>3 DEF Limit
<1>5. a >= MaxSteps + 1 => a * TicksPerStep >= (MaxSteps + 1) * TicksPerStep
  BY <1>1
<1>6. (MaxSteps + 1) * TicksPerStep = MaxSteps * TicksPerStep + TicksPerStep
  BY <1>1
<1>7. ~(a >= MaxSteps + 1)
  BY <1>1, <1>2, <1>4, <1>5, <1>6
<1> QED BY <1>1, <1>7

\* What comes to the end of the queue does not change how it ends a state, unless there
\* was nothing for that state.
LEMMA PostEnds ==
  ASSUME NEW q \in Seq(Events), NEW s, NEW r, NEW kinds
  PROVE  /\ EndsAs(q, s, kinds) => EndsAs(Append(q, Event(s, r)), s, kinds)
         /\ ~Awaited(q, s) /\ r \in kinds => EndsAs(Append(q, Event(s, r)), s, kinds)
<1> DEFINE p == Append(q, Event(s, r))
<1>1. /\ DOMAIN p = 1..(Len(q) + 1) /\ DOMAIN q = 1..Len(q) /\ Len(q) \in Nat
      /\ p[Len(q) + 1] = Event(s, r) /\ \A i \in 1..Len(q) : p[i] = q[i]
  OBVIOUS
<1>2. Event(s, r).at = s /\ Event(s, r).what = r
  BY DEF Event
<1> HIDE DEF p
<1>3. ASSUME EndsAs(q, s, kinds) PROVE EndsAs(p, s, kinds)
  <2>1. PICK i \in DOMAIN q : /\ q[i].at = s /\ q[i].what \in kinds
                             /\ \A j \in DOMAIN q : j < i => q[j].at # s
    BY <1>3 DEF EndsAs
  <2>2. i \in DOMAIN p /\ p[i] = q[i]
    BY <2>1, <1>1
  <2>3. \A j \in DOMAIN p : j < i => j \in DOMAIN q /\ p[j] = q[j]
    BY <2>1, <1>1
  <2> QED BY <2>1, <2>2, <2>3 DEF EndsAs
<1>4. ASSUME ~Awaited(q, s), r \in kinds PROVE EndsAs(p, s, kinds)
  <2>1. \A j \in DOMAIN q : q[j].at # s
    BY <1>4 DEF Awaited
  <2>2. Len(q) + 1 \in DOMAIN p /\ p[Len(q) + 1].at = s /\ p[Len(q) + 1].what \in kinds
    BY <1>1, <1>2, <1>4
  <2>3. \A j \in DOMAIN p : j < Len(q) + 1 => j \in DOMAIN q /\ p[j] = q[j]
    BY <1>1
  <2> QED BY <2>1, <2>2, <2>3 DEF EndsAs
<1> QED BY <1>3, <1>4 DEF p

\* Nor does what is dropped, for another state.
LEMMA DropEnds ==
  ASSUME NEW q \in Seq(Events), q # <<>>, NEW s, Head(q).at # s, NEW kinds
  PROVE  /\ EndsAs(q, s, kinds) => EndsAs(Tail(q), s, kinds)
         /\ Awaited(Tail(q), s) => Awaited(q, s)
<1> DEFINE p == Tail(q)
<1>1. /\ DOMAIN p = 1..(Len(q) - 1) /\ DOMAIN q = 1..Len(q) /\ Len(q) \in Nat
      /\ Head(q) = q[1] /\ \A i \in 1..(Len(q) - 1) : p[i] = q[i + 1]
  OBVIOUS
<1> HIDE DEF p
<1>2. \A i \in DOMAIN p : i \in Nat /\ i + 1 \in DOMAIN q /\ p[i] = q[i + 1]
  BY <1>1
<1>3. ASSUME EndsAs(q, s, kinds) PROVE EndsAs(p, s, kinds)
  <2>1. PICK i \in DOMAIN q : /\ q[i].at = s /\ q[i].what \in kinds
                             /\ \A j \in DOMAIN q : j < i => q[j].at # s
    BY <1>3 DEF EndsAs
  <2>2. i # 1 /\ i \in Nat
    BY <2>1, <1>1
  <2>3. i - 1 \in DOMAIN p /\ p[i - 1] = q[i]
    BY <2>1, <2>2, <1>1
  <2>4. ASSUME NEW j \in DOMAIN p, j < i - 1 PROVE p[j].at # s
    <3>1. j + 1 < i
      BY <2>2, <2>4, <1>2
    <3> QED BY <2>1, <3>1, <1>2
  <2> QED BY <2>1, <2>3, <2>4 DEF EndsAs
<1>4. Awaited(p, s) => Awaited(q, s)
  BY <1>2 DEF Awaited
<1> QED BY <1>3, <1>4 DEF p

\* The event taken is the one that ends the state.
LEMMA TakeEnds ==
  ASSUME NEW q \in Seq(Events), q # <<>>, NEW kinds, EndsAs(q, Head(q).at, kinds)
  PROVE  Head(q).what \in kinds
<1>1. Head(q) = q[1] /\ DOMAIN q = 1..Len(q) /\ 1 \in DOMAIN q
  OBVIOUS
<1>2. PICK i \in DOMAIN q : /\ q[i].at = Head(q).at /\ q[i].what \in kinds
                           /\ \A j \in DOMAIN q : j < i => q[j].at # Head(q).at
  BY DEF EndsAs
<1>3. ~(1 < i)
  BY <1>1, <1>2
<1>4. i = 1
  BY <1>1, <1>3
<1> QED BY <1>1, <1>2, <1>4

\* A state that is entered finds no event of its own.
LEMMA EntryUnawaited ==
  ASSUME TypeOK, RestInv, NEW t \in States, Takes(t), t # state
  PROVE  queue # <<>> /\ Tail(queue) \in Seq(Events) /\ ~Awaited(Tail(queue), t)
<1>1. /\ queue # <<>> /\ Tail(queue) \in Seq(Events)
      /\ \A r : ~Queued(Tail(queue), t, r)
  BY EntryStartsAfresh DEF TypeOK, RestInv
<1>2. \A i \in DOMAIN Tail(queue) : Tail(queue)[i] \in Events
  BY <1>1
<1>3. \A i \in DOMAIN Tail(queue) :
        Tail(queue)[i].at = t => Tail(queue)[i] = Event(t, Tail(queue)[i].what)
  BY <1>2 DEF Events, Event
<1> QED BY <1>1, <1>3 DEF Awaited, Queued

\* A step is one further or one back.
LEMMA Signed ==
  ASSUME NEW p \in Int, NEW d \in {1, -1}, NEW n \in Nat
  PROVE  /\ p + d * n \in Int
         /\ d = 1 => p + d * n = p + n
         /\ d = -1 => p + d * n = p - n
         /\ n = 0 => p + d * n = p
<1>1. CASE d = 1
  BY <1>1
<1>2. CASE d = -1
  BY <1>2
<1> QED BY <1>1, <1>2

\* Where the motor stops.
LEMMA AheadIs ==
  ASSUME TypeOK
  PROVE  /\ Ahead \in Int
         /\ dir = 1 => Ahead = phys + left
         /\ dir = -1 => Ahead = phys - left
         /\ left = 0 => Ahead = phys
BY DEF TypeOK, Ahead

\* A drive that has not been started.
LEMMA MoveInit == Init => MoveInv
<1> SUFFICES ASSUME Init PROVE MoveInv
  OBVIOUS
<1>1. MaxSteps \in Nat /\ TicksPerStep \in Nat
  BY StepsAssumption, TicksAssumption
<1>2. nextPos <= Limit
  <2>1. MaxSteps * TicksPerStep >= 0
    BY <1>1
  <2> QED BY <2>1 DEF Init, Limit
<1>3. Ahead = phys /\ phys <= MaxSteps
  BY <1>1 DEF Init, Ahead
<1> QED BY <1>2, <1>3 DEF Init, MoveInv, ArriveInv, TravelInv, Bounded

\* The start of the machine: from the home switch the table is sent off it, by half the
\* screw.
LEMMA MoveRun ==
  ASSUME TypeOK, TypeOK', RestInv, MoveInv, Run
  PROVE  MoveInv'
<1>1. /\ state' = "initing" /\ UNCHANGED <<nextPos, phys>> /\ nextPos <= Limit
      /\ left = 0 /\ Bounded
  BY DEF Run, MoveInv, TravelInv, RestInv, MotorIdle
<1>2. left' = left \/ (AtHome /\ left' = MaxSteps \div 2)
  BY DEF Run, InitStarted, motorVars
<1>3. MaxSteps \in Nat /\ MaxSteps \div 2 \in Nat /\ MaxSteps \div 2 <= MaxSteps
  BY StepsAssumption
<1>4. phys \in Int /\ phys <= MaxSteps
  BY <1>1 DEF TypeOK, Bounded
<1>5. Ahead' <= MaxSteps
  <2>1. /\ Ahead' \in Int /\ left' \in Nat /\ dir' \in {1, -1}
        /\ dir' = 1 => Ahead' = phys' + left'
        /\ dir' = -1 => Ahead' = phys' - left'
        /\ left' = 0 => Ahead' = phys'
    <3>1. phys' \in Int /\ left' \in Nat /\ dir' \in {1, -1}
      BY DEF TypeOK
    <3>2. Ahead' = phys' + dir' * left'
      BY DEF Ahead
    <3> QED BY <3>1, <3>2, Signed
  <2>2. CASE left' = 0
    BY <2>1, <2>2, <1>1, <1>4
  <2>3. CASE phys <= 0 /\ left' = MaxSteps \div 2
    BY <2>1, <2>3, <1>1, <1>3, <1>4
  <2> QED BY <2>2, <2>3, <1>1, <1>2 DEF AtHome
<1>6. Limit' = Limit
  BY DEF Limit
<1> QED BY <1>1, <1>4, <1>5, <1>6 DEF MoveInv, ArriveInv, TravelInv, Bounded

\* A drive that stops has not failed, and is on the screw.
LEMMA MoveEntersStopped ==
  ASSUME Reliable, TypeOK, RestInv, MoveInv, EntersStopped
  PROVE  MoveInv'
<1>1. /\ state' = "stopped" /\ UNCHANGED <<phys, dir, left>>
      /\ state \in {"zeroSearching", "moving"} /\ Head(queue).at = state
      /\ Head(queue).what # "FAILED" /\ queue # <<>> /\ nextPos <= Limit
  BY DEF EntersStopped, Takes, Transitions, motorVars, MoveInv, TravelInv
<1>2. Bounded
  <2>1. queue \in Seq(Events)
    BY DEF TypeOK
  <2>2. ~(state = "moving" /\ EndsAs(queue, "moving", {"FAILED"}))
    BY <1>1, <2>1, TakeEnds
  <2> QED BY <1>1, <2>2 DEF MoveInv, TravelInv
<1>3. Bounded'
  BY <1>1, <1>2 DEF Bounded, Ahead
<1>4. phys * TicksPerStep <= Limit
  <2>1. phys \in Int /\ phys <= MaxSteps /\ MaxSteps \in Nat /\ TicksPerStep \in Nat
    BY <1>2, StepsAssumption, TicksAssumption DEF TypeOK, Bounded
  <2> QED BY <2>1 DEF Limit
<1>5. nextPos' <= Limit
  BY <1>4, ReliableOutcomes DEF EntersStopped, StoppedEntered
<1> QED BY <1>1, <1>3, <1>5 DEF MoveInv, ArriveInv, TravelInv, Limit

\* A move is started towards its target, or reported as failed.
LEMMA MoveEntersMoving ==
  ASSUME TypeOK, TypeOK', RestInv, MoveInv, EntersMoving
  PROVE  MoveInv'
<1> DEFINE dist == nextPos - pos
           steps == StepsForDistance(Magnitude(dist))
<1>1. /\ state = "stopped" /\ state' = "moving" /\ UNCHANGED <<phys, pos, nextPos>>
      /\ nextPos <= Limit /\ Takes("moving") /\ "moving" \in States
  BY DEF EntersMoving, Takes, Transitions, MoveInv, TravelInv, States
<1>2. left = 0 /\ pos = phys * TicksPerStep /\ Bounded
  BY <1>1 DEF RestInv, StoppedMeansStill, PositionTrue, MotorIdle, MoveInv, TravelInv
<1>3. Tail(queue) \in Seq(Events) /\ ~Awaited(Tail(queue), "moving")
  BY <1>1, EntryUnawaited
<1>4. /\ phys \in Int /\ nextPos \in Int /\ dist \in Int /\ TicksPerStep \in Nat
      /\ phys * TicksPerStep \in Int /\ dist = nextPos - phys * TicksPerStep
      /\ TicksPerStep > 0 /\ MaxSteps \in Nat
  BY <1>2, TicksAssumption, StepsAssumption DEF TypeOK
<1>5. /\ steps \in Nat /\ Magnitude(dist) \in Nat
      /\ steps * TicksPerStep <= Magnitude(dist)
      /\ Magnitude(dist) < steps * TicksPerStep + TicksPerStep
  BY <1>4, StepsType, CutDistance
<1>6. Limit' = Limit /\ nextPos' <= Limit
  BY <1>1 DEF Limit
<1>7. CASE steps = 0
  <2>1. UNCHANGED <<dir, left>>
    BY <1>7 DEF EntersMoving, MovingStarted
  <2>2. Ahead = phys /\ Ahead' = phys
    BY <2>1, <1>1, <1>2, AheadIs DEF Ahead
  <2>3. Magnitude(dist) < TicksPerStep
    BY <1>4, <1>5, <1>7
  <2>4. Near'
    BY <2>2, <2>3, <1>1, <1>4 DEF Near
  <2>5. Bounded'
    BY <2>1, <1>1, <1>2 DEF Bounded, Ahead
  <2> QED BY <2>1, <2>4, <2>5, <1>1, <1>2, <1>6 DEF MoveInv, ArriveInv, TravelInv
<1>8. CASE steps # 0 /\ queue' = Append(Tail(queue), Event("moving", "FAILED"))
  <2>1. /\ EndsAs(queue', "moving", {"FAILED"})
        /\ EndsAs(queue', "moving", {"STOP", "FAILED"})
    BY <1>3, <1>8, PostEnds
  <2> QED BY <2>1, <1>1, <1>6 DEF MoveInv, ArriveInv, TravelInv
<1>9. CASE /\ steps # 0 /\ queue' = Tail(queue)
           /\ dir' = (IF dist > 0 THEN 1 ELSE -1) /\ left' = steps
  <2>1. /\ Ahead' \in Int
        /\ dist > 0 => Ahead' = phys + steps
        /\ ~(dist > 0) => Ahead' = phys - steps
    BY <1>1, <1>4, <1>5, <1>9 DEF Ahead
  <2>2. /\ steps * TicksPerStep \in Int
        /\ (phys + steps) * TicksPerStep = phys * TicksPerStep + steps * TicksPerStep
        /\ (phys - steps) * TicksPerStep = phys * TicksPerStep - steps * TicksPerStep
    BY <1>4, <1>5
  <2>3. /\ dist > 0 => Magnitude(dist) = dist
        /\ ~(dist > 0) => Magnitude(dist) = -dist
    BY <1>4 DEF Magnitude
  <2>4. Magnitude(nextPos - Ahead' * TicksPerStep) < TicksPerStep
    <3> HIDE DEF dist, steps
    <3>1. CASE dist > 0
      <4>1. Ahead' * TicksPerStep = phys * TicksPerStep + steps * TicksPerStep
        BY <3>1, <2>1, <2>2
      <4>2. nextPos - Ahead' * TicksPerStep = dist - steps * TicksPerStep
        BY <4>1, <2>2, <1>4
      <4>3. dist - steps * TicksPerStep \in 0..(TicksPerStep - 1)
        BY <3>1, <2>2, <2>3, <1>4, <1>5
      <4> QED BY <4>2, <4>3, <1>4 DEF Magnitude
    <3>2. CASE ~(dist > 0)
      <4>1. Ahead' * TicksPerStep = phys * TicksPerStep - steps * TicksPerStep
        BY <3>2, <2>1, <2>2
      <4>2. nextPos - Ahead' * TicksPerStep = dist + steps * TicksPerStep
        BY <4>1, <2>2, <1>4
      <4>3. -(dist + steps * TicksPerStep) \in 0..(TicksPerStep - 1)
        BY <3>2, <2>2, <2>3, <1>4, <1>5
      <4> QED BY <4>2, <4>3, <2>2, <1>4 DEF Magnitude
    <3> QED BY <3>1, <3>2
  <2>5. Near'
    BY <2>4, <1>1 DEF Near
  <2>6. Ahead' <= MaxSteps
    BY <2>1, <2>4, <1>1, <1>4, NearIsOn
  <2>7. Bounded'
    BY <2>6, <1>1, <1>2 DEF Bounded
  <2> QED BY <2>5, <2>7, <1>1, <1>3, <1>6, <1>9 DEF MoveInv, ArriveInv, TravelInv
<1> QED BY <1>1, <1>7, <1>8, <1>9 DEF EntersMoving, MovingStarted, Obeyed

\* Each event that machine_ processes.
LEMMA MoveEnters ==
  ASSUME Reliable, TypeOK, TypeOK', RestInv, WaitInv, MoveInv, ProcessEvent
  PROVE  MoveInv'
<1>1. CASE EntersZeroSearching
  <2>1. /\ state = "initing" /\ state' = "zeroSearching" /\ Head(queue).what = "SUCCEED"
        /\ UNCHANGED <<nextPos, phys, left>> /\ nextPos <= Limit
    BY <1>1 DEF EntersZeroSearching, ZeroSearchStarted, Takes, Transitions, MoveInv, TravelInv
  <2>2. Takes("zeroSearching") /\ "zeroSearching" \in States
    BY <1>1 DEF EntersZeroSearching, States
  <2>3. left = 0
    <3>1. Queued(queue, state, Head(queue).what)
      BY <2>1, <2>2, EntryStartsAfresh DEF TypeOK, RestInv
    <3> QED BY <2>1, <3>1 DEF RestInv, ReportsTrue
  <2>4. Bounded
    BY <2>1 DEF MoveInv, TravelInv
  <2>5. Ahead' = phys /\ phys <= MaxSteps
    <3>1. phys \in Int /\ dir' \in {1, -1} /\ left' = 0
      BY <2>1, <2>3 DEF TypeOK
    <3>2. phys + dir' * left' = phys
      BY <3>1, Signed
    <3> QED BY <2>1, <2>4, <3>2 DEF Ahead, Bounded
  <2> QED BY <2>1, <2>5 DEF MoveInv, ArriveInv, TravelInv, Bounded, Limit
<1>2. CASE EntersStopped
  BY <1>2, MoveEntersStopped
<1>3. CASE EntersMoving
  BY <1>3, MoveEntersMoving
<1>4. CASE EntersFailed
  BY <1>4 DEF EntersFailed, MoveInv, ArriveInv, TravelInv, Limit
<1>5. CASE DropsEvent
  <2>1. /\ queue # <<>> /\ queue' = Tail(queue) /\ queue \in Seq(Events)
        /\ UNCHANGED <<state, nextPos, phys, dir, left>>
    BY <1>5 DEF DropsEvent, motorVars, TypeOK
  <2>2. state = "moving" => Head(queue).at # "moving"
    <3>1. Expected(Head(queue))
      BY <2>1, DropAwaited DEF WaitInv
    <3> QED BY <1>5, <2>1, <3>1 DEF DropsEvent, Takes, Expected
  <2>3. /\ Bounded' = Bounded /\ Near' = Near /\ Limit' = Limit
    BY <2>1 DEF Bounded, Near, Ahead, Limit
  <2>4. state = "moving" =>
          /\ EndsAs(queue, "moving", {"FAILED"}) => EndsAs(queue', "moving", {"FAILED"})
          /\ EndsAs(queue, "moving", {"STOP", "FAILED"})
               => EndsAs(queue', "moving", {"STOP", "FAILED"})
          /\ Awaited(queue', "moving") => Awaited(queue, "moving")
    BY <2>1, <2>2, DropEnds
  <2> QED BY <2>1, <2>3, <2>4 DEF MoveInv, ArriveInv, TravelInv
<1> QED BY <1>1, <1>2, <1>3, <1>4, <1>5 DEF ProcessEvent

\* An event posted while the motor does what it did.
LEMMA MovePosts ==
  ASSUME TypeOK, MoveInv, state = "moving", NEW r,
         queue' = Append(queue, Event("moving", r)), UNCHANGED <<state, nextPos, phys, dir>>,
         \/ left' = left /\ (r = "FAILED" \/ left = 0)
         \/ left' = 0 /\ r = "STOP"
  PROVE  MoveInv'
<1>1. /\ queue \in Seq(Events) /\ left \in Nat /\ phys \in Int /\ dir \in {1, -1}
  BY DEF TypeOK
<1>2. /\ EndsAs(queue, "moving", {"FAILED"}) => EndsAs(queue', "moving", {"FAILED"})
      /\ EndsAs(queue, "moving", {"STOP", "FAILED"})
           => EndsAs(queue', "moving", {"STOP", "FAILED"})
      /\ ~Awaited(queue, "moving") /\ r \in {"STOP", "FAILED"}
           => EndsAs(queue', "moving", {"STOP", "FAILED"})
  BY <1>1, PostEnds
<1>3. left' = left => Near' = Near /\ Bounded' = Bounded
  BY DEF Near, Bounded, Ahead
<1>4. Bounded => Bounded'
  <2>1. CASE left' = 0
    <3>1. Ahead' = phys
      BY <1>1, <2>1 DEF Ahead
    <3> QED BY <3>1 DEF Bounded
  <2> QED BY <1>3, <2>1
<1>5. CASE Near /\ (Awaited(queue, "moving") => left = 0)
  <2>1. CASE Awaited(queue, "moving")
    <3>1. left = 0 /\ left' = left
      BY <1>5, <2>1
    <3> QED BY <1>2, <1>3, <1>4, <1>5, <3>1 DEF MoveInv, ArriveInv, TravelInv, Limit
  <2>2. CASE ~Awaited(queue, "moving")
    <3>1. CASE r \in {"STOP", "FAILED"}
      BY <1>2, <1>4, <2>2, <3>1 DEF MoveInv, ArriveInv, TravelInv, Limit
    <3>2. CASE r \notin {"STOP", "FAILED"}
      <4>1. left = 0 /\ left' = left
        BY <3>2
      <4> QED BY <1>2, <1>3, <1>4, <1>5, <4>1 DEF MoveInv, ArriveInv, TravelInv, Limit
    <3> QED BY <3>1, <3>2
  <2> QED BY <2>1, <2>2
<1>6. CASE EndsAs(queue, "moving", {"STOP", "FAILED"})
  BY <1>2, <1>4, <1>6 DEF MoveInv, ArriveInv, TravelInv, Limit
<1> QED BY <1>5, <1>6 DEF MoveInv, ArriveInv

\* The polls of the controller.
LEMMA MovePolls ==
  ASSUME TypeOK, RestInv, MoveInv, CheckMoving
  PROVE  MoveInv'
<1>1. CASE PollIniting
  <2>1. /\ state = "initing" /\ UNCHANGED <<state, nextPos, phys, dir>>
        /\ left' = left \/ left' = 0
    BY <1>1 DEF PollIniting, Obeyed
  <2>2. Bounded /\ phys \in Int /\ dir \in {1, -1}
    BY <2>1 DEF MoveInv, TravelInv, TypeOK
  <2>3. Bounded'
    <3>1. left' = 0 => Ahead' = phys
      BY <2>1, <2>2 DEF Ahead
    <3> QED BY <2>1, <2>2, <3>1 DEF Bounded, Ahead
  <2> QED BY <2>1, <2>3 DEF MoveInv, ArriveInv, TravelInv, Limit
<1>2. CASE PollZeroSearching
  <2>1. /\ state = "zeroSearching" /\ UNCHANGED <<state, phys, dir, left>>
        /\ nextPos' \in {0, nextPos}
    BY <1>2 DEF PollZeroSearching, motorVars
  <2>2. Limit >= 0 /\ Limit' = Limit
    <3>1. MaxSteps \in Nat /\ TicksPerStep \in Nat
      BY StepsAssumption, TicksAssumption
    <3> QED BY <3>1 DEF Limit
  <2> QED BY <2>1, <2>2 DEF MoveInv, ArriveInv, TravelInv, Bounded, Ahead
<1>3. CASE PollMoving
  <2>1. /\ state = "moving" /\ UNCHANGED <<state, nextPos, phys, dir, left>>
        /\ \/ queue' = queue
           \/ queue' = Append(queue, Event("moving", "FAILED"))
           \/ queue' = Append(queue, Event("moving", "SUCCEED")) /\ left = 0
    BY <1>3 DEF PollMoving, Posts, motorVars
  <2>2. CASE queue' = queue
    BY <2>1, <2>2 DEF MoveInv, ArriveInv, TravelInv, Bounded, Near, Ahead, Limit
  <2> QED BY <2>1, <2>2, MovePosts
<1> QED BY <1>1, <1>2, <1>3 DEF CheckMoving

\* The commands check their targets.
LEMMA MoveCommands ==
  ASSUME Reliable, TypeOK, RestInv, MoveInv, Commands
  PROVE  MoveInv'
<1>1. ASSUME MoveAllowed, NEW target, target <= Limit, Accept(target) PROVE MoveInv'
  BY <1>1 DEF MoveAllowed, Accept, motorVars, MoveInv, ArriveInv, TravelInv, Bounded, Ahead, Limit
<1>2. CASE Stop
  <2>1. /\ state = "moving" /\ queue' = Append(queue, Event("moving", "STOP")) /\ left' = 0
        /\ UNCHANGED <<state, nextPos, phys, dir>>
    BY <1>2, ReliableOutcomes DEF Stop, Posts, Obeyed
  <2> QED BY <2>1, MovePosts
<1>3. Limit \in Int /\ 0 <= Limit
  <2>1. MaxSteps \in Nat /\ TicksPerStep \in Nat
    BY StepsAssumption, TicksAssumption
  <2> QED BY <2>1 DEF Limit
<1>4. CASE GoHome
  BY <1>1, <1>3, <1>4 DEF GoHome
<1>5. ASSUME NEW d \in Distances, MoveNegative(d) PROVE MoveInv'
  <2>1. state = "stopped" /\ pos = phys * TicksPerStep
    BY <1>5 DEF MoveNegative, MoveAllowed, RestInv, PositionTrue
  <2>2. phys <= MaxSteps
    BY <2>1 DEF MoveInv, TravelInv, Bounded
  <2>3. pos <= Limit
    <3>1. phys \in Int /\ MaxSteps \in Nat /\ TicksPerStep \in Nat
      BY StepsAssumption, TicksAssumption DEF TypeOK
    <3> QED BY <2>1, <2>2, <3>1 DEF Limit
  <2>4. pos - d <= Limit
    <3>1. pos \in Int /\ d \in Nat
      BY CoordsAssumption DEF TypeOK
    <3> QED BY <2>3, <3>1, <1>3
  <2> QED BY <1>1, <1>5, <2>4 DEF MoveNegative
<1>6. ASSUME NEW d \in Distances, MovePositive(d) PROVE MoveInv'
  BY <1>1, <1>6 DEF MovePositive
<1>7. ASSUME NEW c \in Coords, MoveTo(c) PROVE MoveInv'
  BY <1>1, <1>7 DEF MoveTo
<1> QED BY <1>2, <1>4, <1>5, <1>6, <1>7 DEF Commands

\* A step of the motor brings the table nearer to where it will be.
LEMMA MoveMotor ==
  ASSUME TypeOK, RestInv, MoveInv, MotorStep
  PROVE  MoveInv'
<1>1. /\ UNCHANGED <<state, queue, nextPos, dir>> /\ phys \in Int /\ left \in Nat
      /\ dir \in {1, -1} /\ MaxSteps \in Nat
  BY StepsAssumption DEF MotorStep, softVars, TypeOK
<1>2. CASE homing
  <2>1. phys' = phys - 1 /\ left' = left /\ state \in {"zeroSearching", "failed"}
    BY <1>2 DEF MotorStep, RestInv
  <2>2. state = "zeroSearching" => left = 0 /\ Bounded
    BY <2>1 DEF RestInv, MoveInv, TravelInv
  <2>3. state = "zeroSearching" => Bounded'
    <3>1. left = 0 => Ahead' = phys - 1
      BY <1>1, <2>1 DEF Ahead
    <3> QED BY <1>1, <2>1, <2>2, <3>1 DEF Bounded
  <2> QED BY <1>1, <2>1, <2>3 DEF MoveInv, ArriveInv, TravelInv, Limit
<1>3. CASE ~homing
  <2>1. phys' = phys + dir /\ left' = left - 1 /\ left > 0
    BY <1>3 DEF MotorStep
  <2>2. Ahead' = Ahead
    BY <1>1, <2>1 DEF Ahead
  <2>3. Bounded => Bounded'
    <3>1. Ahead = phys + left \/ dir = -1
      BY <1>1 DEF Ahead
    <3> QED BY <1>1, <2>1, <2>2, <3>1 DEF Bounded
  <2>4. Near' = Near
    BY <1>1, <2>2 DEF Near
  <2>5. Limit' = Limit
    BY DEF Limit
  <2> QED BY <1>1, <2>1, <2>3, <2>4, <2>5 DEF MoveInv, ArriveInv, TravelInv
<1> QED BY <1>2, <1>3

DriveInv == TypeOK /\ RestInv /\ WaitInv /\ MoveInv

\* Each step keeps the inductive invariant.
LEMMA MoveStep == Reliable /\ DriveInv /\ [Next]_driveVars => DriveInv'
<1> SUFFICES ASSUME Reliable, DriveInv, [Next]_driveVars PROVE DriveInv'
  OBVIOUS
<1>1. TypeOK' /\ RestInv' /\ WaitInv'
  BY TypeStep, RestStep, WaitStep DEF DriveInv
<1>2. MoveInv'
  <2>1. CASE UNCHANGED driveVars
    BY <2>1 DEF driveVars, softVars, motorVars, DriveInv, MoveInv, ArriveInv, TravelInv,
                Bounded, Near, Ahead, Limit
  <2> QED BY <1>1, <2>1, MoveRun, MoveEnters, MovePolls, MoveCommands, MoveMotor
          DEF DriveInv, Next
<1> QED BY <1>1, <1>2 DEF DriveInv

LEMMA DriveInvariant == Reliable => (Spec => []DriveInv)
<1> SUFFICES ASSUME Reliable PROVE Spec => []DriveInv
  OBVIOUS
<1>1. Init => DriveInv
  <2>1. Init => WaitInv
    BY DEF Init, WaitInv, AllExpected, NeverStranded
  <2> QED BY <2>1, TypeInit, RestInit, MoveInit DEF DriveInv
<1>2. DriveInv /\ [Next]_driveVars => DriveInv'
  BY MoveStep
<1> QED BY <1>1, <1>2, PTL DEF Spec

\* While the drive has not failed, the table never passes the end of the screw, which
\* the commands check the targets against: not by moves cut short and begun again from
\* the position read, nor while it is being sent off the home switch.
THEOREM StaysOnScrew == Reliable => (Spec => []WithinTravel)
<1> SUFFICES ASSUME Reliable PROVE Spec => []WithinTravel
  OBVIOUS
<1>1. DriveInv => WithinTravel
  <2> SUFFICES ASSUME DriveInv, state # "failed",
                      ~\E i \in DOMAIN queue : queue[i].what = "FAILED"
               PROVE  phys <= MaxSteps
    BY DEF WithinTravel
  <2>1. ~EndsAs(queue, "moving", {"FAILED"})
    BY DEF EndsAs
  <2> QED BY <2>1 DEF DriveInv, MoveInv, TravelInv, Bounded
<1> QED BY <1>1, DriveInvariant, PTL

\* A move reported as completed has brought the table within a step of the last target
\* accepted, whatever commands, stops and failures came before it.
THEOREM MoveArrives == Reliable => (Spec => ArrivesAtTarget)
<1> SUFFICES ASSUME Reliable PROVE Spec => ArrivesAtTarget
  OBVIOUS
<1>1. ASSUME DriveInv, [Next]_driveVars
      PROVE  [(state = "moving" /\ state' = "stopped" /\ Head(queue).what = "SUCCEED")
               => Magnitude(nextPos - phys * TicksPerStep) < TicksPerStep]_driveVars
  <2> SUFFICES ASSUME state = "moving", state' = "stopped", Head(queue).what = "SUCCEED"
               PROVE  Magnitude(nextPos - phys * TicksPerStep) < TicksPerStep
    OBVIOUS
  <2>1. EntersStopped
    <3>1. state' # state
      OBVIOUS
    <3> QED BY <1>1, <3>1 DEF Next, driveVars, softVars, Run, ProcessEvent, EntersZeroSearching,
            EntersMoving, EntersFailed, DropsEvent, CheckMoving, PollIniting, PollZeroSearching,
            PollMoving, Commands, Stop, GoHome, MoveNegative, MovePositive, MoveTo, Accept,
            MotorStep
  <2>2. queue # <<>> /\ Head(queue).at = "moving" /\ queue \in Seq(Events)
    BY <1>1, <2>1 DEF EntersStopped, Takes, DriveInv, TypeOK
  <2>3. ~EndsAs(queue, "moving", {"STOP", "FAILED"})
    BY <2>2, TakeEnds
  <2>4. Awaited(queue, "moving")
    <3>1. 1 \in DOMAIN queue /\ Head(queue) = queue[1]
      BY <2>2
    <3> QED BY <2>2, <3>1 DEF Awaited
  <2>5. Near /\ left = 0
    BY <1>1, <2>3, <2>4 DEF DriveInv, MoveInv, ArriveInv
  <2>6. Ahead = phys
    BY <1>1, <2>5 DEF DriveInv, TypeOK, Ahead
  <2> QED BY <2>5, <2>6 DEF Near
<1> QED BY <1>1, DriveInvariant, PTL DEF ArrivesAtTarget, Spec

=============================================================================
