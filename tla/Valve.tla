------------------------------- MODULE Valve -------------------------------
(***************************************************************************)
(* UDAV/driver/devices/valve.cpp: a valve opened and closed through        *)
(* functions that its owner installs. A QStateMachine whose transitions    *)
(* out of rest are signals of the owner, two timers that ask whether the   *)
(* motion has ended, and listeners of opened() and closed() who may make   *)
(* the owner ask for the next motion at once. The functions and the valve  *)
(* itself are external: a call may be refused, or be obeyed and its answer *)
(* lost.                                                                   *)
(***************************************************************************)
EXTENDS Integers, Sequences

CONSTANTS
  Fallible     \* the installed functions that may fail

VARIABLES
  state,       \* the active state of machine_, "off" before run(), "dead" after a crash
  queue,       \* events waiting for machine_
  draining,    \* machine_ is going through its queue; nothing else runs
  polling,     \* the timers that are active: closingTimer_ and openingTimer_
  installed,   \* the functions that are installed
  flap,        \* where the valve is
  goal,        \* where its actuator takes it
  reports,     \* history: how often the end of the last motion has been announced
  debug        \* Q_ASSERT is compiled in

softVars == <<state, queue, draining, polling, reports>>
vars == <<softVars, installed, flap, goal, debug>>

Motions == {"closing", "opening"}

\* The end of each motion, the state it starts from, and its two functions.
Target == [closing |-> "closed", opening |-> "opened"]
Source == [closing |-> "opened", opening |-> "closed"]
Func == [closing |-> "close_func_", opening |-> "open_func_"]
Check == [closing |-> "is_closed_func_", opening |-> "is_opened_func_"]

Outcomes(call) == {"ok"} \cup (IF call \in Fallible THEN {"lost", "refused"} ELSE {})
Obeyed(o) == o # "refused"

FlapMoves ==
  /\ flap # goal
  /\ flap' = IF flap = "between" THEN goal ELSE "between"
  /\ UNCHANGED <<softVars, installed, goal, debug>>

-----------------------------------------------------------------------------

Event(s, r) == [at |-> s, what |-> r]

\* The owner's signal finds a transition only if machine_ is in the state that the
\* transition was added to, and goes before the events that were posted.
Requests(m, s, q) ==
  IF s = Source[m] /\ Func[m] \in installed THEN <<Event(s, m)>> \o q ELSE q

\* opened() or closed() is emitted in state s with q waiting; a listener may have
\* the owner ask for a motion.
Emitted(s, q) == {q} \cup {Requests(m, s, q) : m \in Motions}

\* Q_ASSERT is the wrong way round: it aborts a debug build when the function is
\* there, and a release build calls it when it is not.
Crashes(m) == debug \/ Check[m] \notin installed

Dies ==
  /\ state' = "dead" /\ queue' = <<>> /\ draining' = FALSE /\ polling' = {}
  /\ UNCHANGED reports

\* Mutation: the timer goes on after the report.
CheckMotion_KeepsTimer(m, q, on, told) ==
  \E r \in Outcomes(Check[m]) :
    \/ /\ r # "ok" /\ queue' = Append(q, Event(m, "FAILED"))
       /\ polling' = on \ {m} /\ reports' = told
    \/ /\ r = "ok" /\ flap # Target[m]
       /\ queue' = q /\ polling' = on /\ reports' = told
    \/ /\ r = "ok" /\ flap = Target[m]
       /\ queue' \in Emitted(m, Append(q, Event(m, "SUCCEED")))
       /\ polling' = on /\ reports' = told + 1

\* Mutation: the valve is taken to have arrived when it has left the other end.
CheckMotion_Leaves(m, q, on, told) ==
  \E r \in Outcomes(Check[m]) :
    \/ /\ r # "ok" /\ queue' = Append(q, Event(m, "FAILED"))
       /\ polling' = on \ {m} /\ reports' = told
    \/ /\ r = "ok" /\ flap = Target[IF m = "closing" THEN "opening" ELSE "closing"]
       /\ queue' = q /\ polling' = on /\ reports' = told
    \/ /\ r = "ok" /\ flap # Target[IF m = "closing" THEN "opening" ELSE "closing"]
       /\ queue' \in Emitted(m, Append(q, Event(m, "SUCCEED")))
       /\ polling' = on \ {m} /\ reports' = told + 1

\* checkClosing_() and checkOpening_(), with q waiting, the timers on, and the end of the
\* motion announced told times. Success announces it to the listeners.
CheckMotion(m, q, on, told) ==
  \E r \in Outcomes(Check[m]) :
    \/ /\ r # "ok" /\ queue' = Append(q, Event(m, "FAILED"))
       /\ polling' = on \ {m} /\ reports' = told
    \/ /\ r = "ok" /\ flap # Target[m]
       /\ queue' = q /\ polling' = on /\ reports' = told
    \/ /\ r = "ok" /\ flap = Target[m]
       /\ queue' \in Emitted(m, Append(q, Event(m, "SUCCEED")))
       /\ polling' = on \ {m} /\ reports' = told + 1

\* close_() and open_(): what the function answers is not looked at.
Actuates(m) ==
  \E o \in Outcomes(Func[m]) : goal' = IF Obeyed(o) THEN Target[m] ELSE goal

-----------------------------------------------------------------------------
(* machine_                                                                *)

Takes(s, what) == queue # <<>> /\ Head(queue) = Event(s, what) /\ state = s

Drains == draining' = (queue' # <<>>)

\* The closing state looks at the switch as soon as it is entered, and may be
\* reported as over, to the listeners too, before its entry is.
EntersClosing ==
  /\ Takes("opened", "closing")
  /\ IF Crashes("closing")
       THEN Dies
       ELSE /\ state' = "closing"
            /\ CheckMotion("closing", Tail(queue), polling \cup {"closing"}, 0)
            /\ Drains
  /\ Actuates("closing")
  /\ UNCHANGED <<installed, flap, debug>>

\* Mutation: the timer is only started when the function reports success.
EntersOpening_IfObeyed ==
  /\ Takes("closed", "opening")
  /\ state' = "opening"
  /\ queue' = Tail(queue)
  /\ Drains
  /\ \E o \in Outcomes("open_func_") :
       /\ goal' = IF Obeyed(o) THEN "opened" ELSE goal
       /\ polling' = IF o = "ok" THEN polling \cup {"opening"} ELSE polling
  /\ reports' = 0
  /\ UNCHANGED <<installed, flap, debug>>

\* The opening state waits for its timer.
EntersOpening ==
  /\ Takes("closed", "opening")
  /\ state' = "opening"
  /\ queue' = Tail(queue)
  /\ polling' = polling \cup {"opening"}
  /\ Drains
  /\ Actuates("opening")
  /\ reports' = 0
  /\ UNCHANGED <<installed, flap, debug>>

\* closed() or opened() is emitted once more.
EntersRest(m) ==
  /\ Takes(m, "SUCCEED")
  /\ state' = Target[m]
  /\ queue' \in Emitted(Target[m], Tail(queue))
  /\ reports' = reports + 1
  /\ Drains
  /\ UNCHANGED <<polling, installed, flap, goal, debug>>

\* Device::failedEntered_(): the timers are left alone.
EntersFailed(m) ==
  /\ Takes(m, "FAILED")
  /\ state' = "failed"
  /\ queue' = Tail(queue)
  /\ Drains
  /\ UNCHANGED <<polling, reports, installed, flap, goal, debug>>

ProcessEvent ==
  EntersClosing \/ EntersOpening \/ \E m \in Motions : EntersRest(m) \/ EntersFailed(m)

\* Device::run(): the valve is taken to be closed; closed() is emitted.
Run ==
  /\ state = "off"
  /\ state' = "closed"
  /\ queue' \in Emitted("closed", <<>>)
  /\ Drains
  /\ UNCHANGED <<polling, reports, installed, flap, goal, debug>>

\* timeout() of a timer, between two runs of machine_.
TimerFires(m) ==
  /\ m \in polling /\ ~draining
  /\ IF Crashes(m)
       THEN Dies
       ELSE CheckMotion(m, queue, polling, reports) /\ UNCHANGED <<state, draining>>
  /\ UNCHANGED <<installed, flap, goal, debug>>

\* The owner's signal: machine_ takes it on the spot.
Request(m) ==
  /\ ~draining /\ Requests(m, state, queue) # queue
  /\ queue' = Requests(m, state, queue)
  /\ draining' = TRUE
  /\ UNCHANGED <<state, polling, reports, installed, flap, goal, debug>>

\* installCloseFunc(), installOpenFunc(), installIsClosedFunc(), installIsOpenedFunc()
Install(f) ==
  /\ ~draining /\ state # "dead" /\ f \notin installed
  /\ installed' = installed \cup {f}
  /\ UNCHANGED <<softVars, flap, goal, debug>>

-----------------------------------------------------------------------------

\* Nobody has asked where the valve is.
Init ==
  /\ state = "off" /\ queue = <<>> /\ draining = FALSE /\ polling = {} /\ reports = 0
  /\ installed = {}
  /\ flap \in {"closed", "between", "opened"}
  /\ goal \in {"closed", "opened"} /\ flap \in {goal, "between"}
  /\ debug \in BOOLEAN

Next ==
  \/ Run \/ ProcessEvent \/ FlapMoves
  \/ \E m \in Motions : TimerFires(m) \/ Request(m) \/ Install(Func[m]) \/ Install(Check[m])

Spec == Init /\ [][Next]_vars

\* The event loop runs the machine and the timers; the actuator moves the valve. A check
\* of a valve that has arrived says so, or fails; nothing makes an earlier one fail, and
\* "not yet" may be its answer for ever.
Fairness ==
  /\ WF_vars(ProcessEvent) /\ WF_vars(FlapMoves)
  /\ \A m \in Motions : WF_vars(flap = Target[m] /\ TimerFires(m))

FairSpec == Spec /\ Fairness

-----------------------------------------------------------------------------
(* Safety.                                                                 *)

Rests == {"closed", "opened"}
States == {"off", "failed", "dead"} \cup Motions \cup Rests
Events == [at : States, what : {"SUCCEED", "FAILED"} \cup Motions]
Installable == {Func[m] : m \in Motions} \cup {Check[m] : m \in Motions}

\* Every variable stays within its type; machine_ never has more than one event
\* waiting, a request of the owner or a report.
TypeOK ==
  /\ state \in States /\ queue \in Seq(Events) /\ Len(queue) <= 1
  /\ draining \in BOOLEAN /\ debug \in BOOLEAN /\ reports \in 0..2
  /\ polling \subseteq Motions
  /\ installed \subseteq Installable
  /\ flap \in Rests \cup {"between"} /\ goal \in Rests

\* How often the end of a motion is announced: closed() or opened() is emitted by the
\* check that finds the valve there, once, whether it is the one at the entry or one of
\* the timer, and again by the state that the motion leads to. Never a third time, by a
\* timer that goes on; never of a motion that fails or that is still checked.
AnnouncedTwice ==
  /\ \A m \in Motions :
       /\ state = m => reports = IF queue = <<Event(m, "SUCCEED")>> THEN 1 ELSE 0
       /\ m \in polling => state = m /\ reports = 0
  /\ state = "closed" => reports \in {0, 2}
  /\ state = "opened" => reports = 2
  /\ state = "failed" => reports = 0

\* Once a motion has been reported the state is where the valve is, whatever was
\* asked for, or refused, in between.
RestTrue == (state \in Rests /\ reports # 0) => flap = state

-----------------------------------------------------------------------------
(* Liveness.                                                               *)

\* A motion that the actuator carries out comes to an end.
MotionEnds ==
  \A m \in Motions :
    (state = m /\ goal = Target[m]) ~> (state \in {Target[m], "failed", "dead"})

=============================================================================
