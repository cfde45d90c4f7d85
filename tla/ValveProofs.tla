---------------------------- MODULE ValveProofs ----------------------------
(***************************************************************************)
(* Theorems about Valve, for every choice of functions that may fail: the  *)
(* valve's types, how often the end of a motion is announced, and that a   *)
(* valve which has reported a motion is where it says it is.               *)
(***************************************************************************)
EXTENDS Valve, SequenceTheorems, TLAPS

-----------------------------------------------------------------------------
(* The tables of the two motions, and queues of one event.                 *)

\* What Target, Source, Func and Check say of each motion.
LEMMA Tables ==
  /\ Target["closing"] = "closed" /\ Target["opening"] = "opened"
  /\ Source["closing"] = "opened" /\ Source["opening"] = "closed"
  /\ Func["closing"] = "close_func_" /\ Func["opening"] = "open_func_"
  /\ Check["closing"] = "is_closed_func_" /\ Check["opening"] = "is_opened_func_"
BY DEF Target, Source, Func, Check

\* A queue is empty, or it is one event for the active state.
LEMMA OneEvent ==
  ASSUME NEW e
  PROVE  /\ Append(<<>>, e) = <<e>> /\ <<e>> \o <<>> = <<e>>
         /\ <<e>> # <<>> /\ Head(<<e>>) = e /\ Tail(<<e>>) = <<>>
         /\ Len(<<e>>) = 1 /\ DOMAIN <<e>> = {1} /\ <<e>>[1] = e
OBVIOUS

-----------------------------------------------------------------------------
(* The inductive invariant.                                                *)

\* At most one event waits, and it is for the active state: a report of the motion,
\* whose timer it has stopped, or a request that machine_ took on the spot.
QueueInv ==
  /\ state \notin Motions =>
       /\ polling = {}
       /\ queue # <<>> =>
            draining /\ \E m \in Motions : state = Source[m] /\ queue = <<Event(state, m)>>
  /\ state \in Motions =>
       /\ polling \subseteq {state}
       /\ queue # <<>> =>
            polling = {} /\ \E r \in {"SUCCEED", "FAILED"} : queue = <<Event(state, r)>>

\* Where the valve is against where it is taken: at rest it is there or between the
\* ends, and a motion finds it at its target only when it is taken there.
FlapInv ==
  /\ state \in Rests \cup {"off"} => flap \in {goal, "between"}
  /\ \A m \in Motions :
       state = m => /\ flap = Target[m] => goal = Target[m]
                    /\ queue = <<Event(m, "SUCCEED")>> => flap = Target[m]
  /\ reports # 0 /\ state \in Rests => flap = state

\* What has been announced of the last motion, and that a valve that has not been started
\* has announced nothing.
ReportInv ==
  /\ reports \in 0..2
  /\ AnnouncedTwice
  /\ state = "off" => reports = 0

ValveInv == TypeOK /\ QueueInv /\ FlapInv /\ ReportInv

\* A valve that has not been started satisfies it.
LEMMA InvInit == Init => ValveInv
<1> SUFFICES ASSUME Init PROVE ValveInv
  OBVIOUS
<1>1. TypeOK
  <2>1. <<>> \in Seq(Events) /\ Len(<<>>) = 0
    OBVIOUS
  <2>2. state \in States /\ flap \in Rests \cup {"between"} /\ goal \in Rests
    BY DEF Init, States, Rests
  <2>3. installed \subseteq Installable
    BY DEF Init
  <2>4. draining \in BOOLEAN /\ debug \in BOOLEAN /\ polling \subseteq Motions
    BY DEF Init
  <2>6. reports \in 0..2
    BY DEF Init
  <2>5. queue \in Seq(Events) /\ Len(queue) <= 1
    BY <2>1 DEF Init
  <2> QED BY <2>2, <2>3, <2>4, <2>5, <2>6 DEF TypeOK
<1>2. QueueInv
  BY DEF Init, QueueInv, Motions
<1>3. FlapInv
  BY DEF Init, FlapInv, Motions, Rests
<1>4. ReportInv
  BY DEF Init, ReportInv, AnnouncedTwice, Motions
<1> QED BY <1>1, <1>2, <1>3, <1>4 DEF ValveInv

-----------------------------------------------------------------------------
(* What the parts of a step leave in the queue.                            *)

\* A report or a request is an event, and is all that waits.
LEMMA EventType ==
  \A s \in States, r \in {"SUCCEED", "FAILED"} \cup Motions :
    <<Event(s, r)>> \in Seq(Events) /\ Len(<<Event(s, r)>>) = 1
<1> SUFFICES ASSUME NEW s \in States, NEW r \in {"SUCCEED", "FAILED"} \cup Motions
             PROVE  <<Event(s, r)>> \in Seq(Events) /\ Len(<<Event(s, r)>>) = 1
  OBVIOUS
<1>1. Event(s, r) \in Events
  BY DEF Event, Events
<1> QED BY <1>1, OneEvent

\* A report of a motion finds no transition for a request: the listeners of its end
\* post nothing while it is checked.
LEMMA EmittedInMotion ==
  \A m \in Motions : \A q : Emitted(m, q) = {q}
<1> SUFFICES ASSUME NEW m \in Motions, NEW q PROVE Emitted(m, q) = {q}
  OBVIOUS
<1>1. \A n \in Motions : Requests(n, m, q) = q
  BY Tables DEF Requests, Motions
<1> QED BY <1>1 DEF Emitted

\* At rest they may post the one request that its state has a transition for.
LEMMA EmittedAtRest ==
  \A s, q : q \in Emitted(s, <<>>) =>
    q = <<>> \/ \E m \in Motions : s = Source[m] /\ q = <<Event(s, m)>>
<1> SUFFICES ASSUME NEW s, NEW q, q \in Emitted(s, <<>>), q # <<>>
             PROVE  \E m \in Motions : s = Source[m] /\ q = <<Event(s, m)>>
  OBVIOUS
<1>1. PICK m \in Motions : q = Requests(m, s, <<>>)
  BY DEF Emitted
<1>2. s = Source[m] /\ q = <<Event(s, m)>> \o <<>>
  BY <1>1 DEF Requests
<1> QED BY <1>2, OneEvent

\* A check with nothing waiting goes on, or stops its timer and reports; it reports
\* success only of a valve that has arrived.
LEMMA Checked ==
  ASSUME NEW m \in Motions, NEW on, NEW told, on \subseteq {m}, CheckMotion(m, <<>>, on, told)
  PROVE  /\ polling' \subseteq {m}
         /\ queue' # <<>> =>
              polling' = {} /\ \E r \in {"SUCCEED", "FAILED"} : queue' = <<Event(m, r)>>
         /\ queue' = <<Event(m, "SUCCEED")>> => flap = Target[m]
         /\ reports' = IF queue' = <<Event(m, "SUCCEED")>> THEN told + 1 ELSE told
<1>1. PICK r \in Outcomes(Check[m]) :
        \/ /\ r # "ok" /\ queue' = Append(<<>>, Event(m, "FAILED"))
           /\ polling' = on \ {m} /\ reports' = told
        \/ r = "ok" /\ flap # Target[m] /\ queue' = <<>> /\ polling' = on /\ reports' = told
        \/ /\ r = "ok" /\ flap = Target[m]
           /\ queue' \in Emitted(m, Append(<<>>, Event(m, "SUCCEED")))
           /\ polling' = on \ {m} /\ reports' = told + 1
  BY DEF CheckMotion
<1>2. CASE /\ queue' = Append(<<>>, Event(m, "FAILED"))
           /\ polling' = on \ {m} /\ reports' = told
  <2>1. queue' = <<Event(m, "FAILED")>> /\ polling' = {}
    BY <1>2, OneEvent
  <2>2. queue' # <<Event(m, "SUCCEED")>>
    BY <2>1, OneEvent DEF Event
  <2> QED BY <1>2, <2>1, <2>2
<1>3. CASE queue' = <<>> /\ polling' = on /\ reports' = told
  BY <1>3, OneEvent
<1>4. CASE /\ flap = Target[m]
           /\ queue' \in Emitted(m, Append(<<>>, Event(m, "SUCCEED")))
           /\ polling' = on \ {m} /\ reports' = told + 1
  <2>1. queue' = <<Event(m, "SUCCEED")>> /\ polling' = {}
    BY <1>4, EmittedInMotion, OneEvent
  <2> QED BY <2>1, <1>4
<1> QED BY <1>1, <1>2, <1>3, <1>4

\* The queue of a state, as QueueInv has it, is typed.
LEMMA QueueTyped ==
  ASSUME NEW s \in States, NEW q,
         \/ q = <<>>
         \/ \E r \in {"SUCCEED", "FAILED"} \cup Motions : q = <<Event(s, r)>>
  PROVE  q \in Seq(Events) /\ Len(q) <= 1
<1>1. <<>> \in Seq(Events) /\ Len(<<>>) = 0
  OBVIOUS
<1>2. CASE q = <<>>
  BY <1>1, <1>2
<1>3. CASE \E r \in {"SUCCEED", "FAILED"} \cup Motions : q = <<Event(s, r)>>
  <2>1. PICK r \in {"SUCCEED", "FAILED"} \cup Motions : q = <<Event(s, r)>>
    BY <1>3
  <2>2. q \in Seq(Events) /\ Len(q) = 1
    BY <2>1, EventType
  <2> QED BY <2>2
<1> QED BY <1>2, <1>3

\* After a step in which the other variables keep their types, QueueInv types the queue
\* and the timers.
LEMMA TypeFromQueue ==
  ASSUME state' \in States, draining' \in BOOLEAN, reports' \in 0..2, debug' \in BOOLEAN,
         installed' \subseteq Installable, flap' \in Rests \cup {"between"}, goal' \in Rests, QueueInv'
  PROVE  TypeOK'
<1>1. queue' \in Seq(Events) /\ Len(queue') <= 1
  <2>1. \/ queue' = <<>>
        \/ \E r \in {"SUCCEED", "FAILED"} \cup Motions : queue' = <<Event(state', r)>>
    BY DEF QueueInv
  <2> QED BY <2>1, QueueTyped
<1>2. polling' \subseteq Motions
  BY DEF QueueInv
<1> QED BY <1>1, <1>2 DEF TypeOK

\* What ReportInv asks of a motion that is still checked, or was reported by its check;
LEMMA ReportsInMotion ==
  ASSUME NEW m \in Motions, state' = m, polling' \subseteq {m},
         queue' # <<>> => polling' = {},
         reports' = IF queue' = <<Event(m, "SUCCEED")>> THEN 1 ELSE 0
  PROVE  ReportInv'
<1>1. m \notin {"closed", "opened", "failed", "off"}
  BY DEF Motions
<1>2. reports' \in 0..2
  OBVIOUS
<1>3. polling' # {} => reports' = 0
  BY OneEvent
<1> QED BY <1>1, <1>2, <1>3 DEF ReportInv, AnnouncedTwice

\* and of any other state, which runs no timer.
LEMMA ReportsElsewhere ==
  ASSUME state' \notin Motions, polling' = {}, reports' \in 0..2,
         state' = "closed" => reports' \in {0, 2}, state' = "opened" => reports' = 2,
         state' \in {"failed", "off"} => reports' = 0
  PROVE  ReportInv'
BY DEF ReportInv, AnnouncedTwice

\* The event that a transition takes is the only one.
LEMMA Taken ==
  ASSUME NEW s, NEW r, QueueInv, Takes(s, r)
  PROVE  state = s /\ queue = <<Event(s, r)>> /\ Tail(queue) = <<>>
<1>1. state = s /\ queue # <<>> /\ Head(queue) = Event(s, r)
  BY DEF Takes
<1>2. \E x : queue = <<Event(s, x)>>
  BY <1>1 DEF QueueInv
<1> QED BY <1>1, <1>2, OneEvent

-----------------------------------------------------------------------------
(* One lemma for each kind of step.                                        *)

\* The start of machine_: it takes the valve to be closed without knowing.
LEMMA InvRun == ValveInv /\ Run => ValveInv'
<1> SUFFICES ASSUME ValveInv, Run PROVE ValveInv'
  OBVIOUS
<1>1. /\ state' = "closed" /\ polling' = {} /\ reports' = 0
      /\ flap' \in {goal', "between"}
  BY DEF Run, ValveInv, QueueInv, FlapInv, ReportInv, TypeOK, Motions
<1>2. queue' = <<>> \/ \E m \in Motions : "closed" = Source[m] /\ queue' = <<Event("closed", m)>>
  BY EmittedAtRest DEF Run
<1>3. QueueInv'
  BY <1>1, <1>2, Zenon DEF Run, Drains, QueueInv, Motions
<1>4. FlapInv'
  BY <1>1 DEF FlapInv, Motions
<1>5. TypeOK'
  BY <1>1, <1>3, TypeFromQueue DEF Run, Drains, ValveInv, TypeOK, States, Rests
<1>6. ReportInv'
  BY <1>1, ReportsElsewhere DEF Motions
<1> QED BY <1>3, <1>4, <1>5, <1>6 DEF ValveInv

\* The end of a process that has crashed.
LEMMA InvDies ==
  ASSUME ValveInv, Dies, UNCHANGED <<installed, flap, debug>>, goal' \in Rests, state # "off"
  PROVE  ValveInv'
<1>1. state' = "dead" /\ queue' = <<>> /\ ~draining' /\ polling' = {} /\ reports' = reports
  BY DEF Dies
<1>2. QueueInv'
  BY <1>1 DEF QueueInv, Motions
<1>3. FlapInv'
  BY <1>1 DEF FlapInv, Motions, Rests
<1>4. TypeOK'
  <2>1. draining' \in BOOLEAN /\ reports' \in 0..2 /\ debug' \in BOOLEAN
    BY DEF Dies, ValveInv, TypeOK
  <2>2. state' \in States /\ installed' \subseteq Installable /\ flap' \in Rests \cup {"between"}
    BY <1>1 DEF ValveInv, TypeOK, States
  <2> QED BY <1>2, <2>1, <2>2, TypeFromQueue
<1>5. ReportInv'
  BY <1>1, ReportsElsewhere DEF ValveInv, ReportInv, Motions
<1> QED BY <1>2, <1>3, <1>4, <1>5 DEF ValveInv

\* The actuator takes the valve to the end of the motion, or where it took it before.
LEMMA Actuated ==
  ASSUME NEW m \in Motions, Actuates(m)
  PROVE  goal' \in {goal, Target[m]}
BY DEF Actuates

\* The beginning of a motion, the check at the entry of closing included: a valve that
\* is refused the motion is not at its target.
LEMMA InvEntersMotion ==
  ASSUME ValveInv, EntersClosing \/ EntersOpening
  PROVE  ValveInv'
<1> USE DEF ValveInv
<1>t. Target["closing"] = "closed" /\ Target["opening"] = "opened" /\ Rests = {"closed", "opened"}
      /\ "closing" \in Motions /\ "opening" \in Motions
      /\ \A s \in Rests : s \in States /\ s \notin Motions
      /\ \A m \in Motions : m \in States /\ m # "off" /\ m \notin Rests
  BY Tables DEF Rests, Motions, States
<1>1. CASE EntersClosing
  <2>1. state = "opened" /\ Tail(queue) = <<>>
    BY <1>1, Taken DEF EntersClosing
  <2>2. goal' \in {goal, "closed"} /\ goal' \in Rests
    BY <1>1, <1>t, Actuated DEF EntersClosing, TypeOK
  <2>3. polling = {} /\ flap \in {goal, "between"}
    BY <2>1, <1>t DEF QueueInv, FlapInv
  <2>4. CASE Crashes("closing")
    BY <1>1, <2>1, <2>2, <2>4, InvDies DEF EntersClosing
  <2>5. CASE ~Crashes("closing")
    <3>1. /\ state' = "closing" /\ CheckMotion("closing", <<>>, {"closing"}, 0)
          /\ UNCHANGED <<installed, flap, debug>> /\ draining' \in BOOLEAN
      BY <1>1, <2>1, <2>3, <2>5 DEF EntersClosing, Drains
    <3>2. /\ polling' \subseteq {"closing"}
          /\ queue' # <<>> => polling' = {} /\ \E r \in {"SUCCEED", "FAILED"} :
                                               queue' = <<Event("closing", r)>>
          /\ queue' = <<Event("closing", "SUCCEED")>> => flap = "closed"
          /\ reports' = IF queue' = <<Event("closing", "SUCCEED")>> THEN 1 ELSE 0
      BY <3>1, <1>t, Checked
    <3>3. QueueInv'
      BY <3>1, <3>2, <1>t DEF QueueInv
    <3>4. FlapInv'
      BY <3>1, <3>2, <2>1, <2>2, <2>3, <1>t DEF FlapInv
    <3>5. ReportInv'
      BY <3>1, <3>2, <1>t, ReportsInMotion
    <3>6. TypeOK'
      BY <3>1, <3>3, <3>5, <2>2, <1>t, TypeFromQueue DEF TypeOK, ReportInv
    <3> QED BY <3>3, <3>4, <3>5, <3>6
  <2> QED BY <2>4, <2>5
<1>2. CASE EntersOpening
  <2>1. state = "closed" /\ Tail(queue) = <<>>
    BY <1>2, Taken DEF EntersOpening
  <2>2. goal' \in {goal, "opened"} /\ goal' \in Rests
    BY <1>2, <1>t, Actuated DEF EntersOpening, TypeOK
  <2>3. polling = {} /\ flap \in {goal, "between"}
    BY <2>1, <1>t DEF QueueInv, FlapInv
  <2>4. /\ state' = "opening" /\ queue' = <<>> /\ polling' = {"opening"}
        /\ reports' = 0 /\ UNCHANGED <<installed, flap, debug>> /\ draining' \in BOOLEAN
    BY <1>2, <2>1, <2>3 DEF EntersOpening, Drains
  <2>5. QueueInv'
    BY <2>4, <1>t DEF QueueInv
  <2>6. FlapInv'
    BY <2>1, <2>2, <2>3, <2>4, <1>t, OneEvent DEF FlapInv
  <2>7. TypeOK'
    BY <2>2, <2>4, <2>5, <1>t, TypeFromQueue DEF TypeOK
  <2>8. ReportInv'
    BY <2>4, <1>t, OneEvent, ReportsInMotion
  <2> QED BY <2>5, <2>6, <2>7, <2>8
<1> QED BY <1>1, <1>2

\* The end of a motion: a valve reported as arrived is at its target, and is kept there.
LEMMA InvLeavesMotion ==
  ASSUME ValveInv, NEW m \in Motions, EntersRest(m) \/ EntersFailed(m)
  PROVE  ValveInv'
<1> USE DEF ValveInv
<1>t. /\ Target[m] \in Rests /\ \A n \in Motions : n \notin Rests \cup {"off", "failed"}
      /\ \A s \in Rests : s \in States /\ s # "off"
      /\ "failed" \in States /\ "failed" \notin Rests \cup Motions \cup {"off"}
  BY Tables DEF Rests, Motions, States
<1>1. CASE EntersRest(m)
  <2>1. state = m /\ queue = <<Event(m, "SUCCEED")>> /\ Tail(queue) = <<>>
    BY <1>1, Taken DEF EntersRest
  <2>2. flap = Target[m] /\ goal = Target[m]
    BY <2>1 DEF FlapInv
  <2>3. polling = {}
    BY <2>1, OneEvent DEF QueueInv
  <2>4. /\ state' = Target[m] /\ reports' = 2 /\ draining' = (queue' # <<>>)
        /\ queue' \in Emitted(Target[m], <<>>)
        /\ UNCHANGED <<polling, installed, flap, goal, debug>>
    <3>1. reports = 1
      BY <2>1 DEF ReportInv, AnnouncedTwice
    <3> QED BY <1>1, <2>1, <3>1 DEF EntersRest, Drains
  <2>5. queue' = <<>> \/ \E n \in Motions : Target[m] = Source[n] /\ queue' = <<Event(Target[m], n)>>
    BY <2>4, EmittedAtRest
  <2>6. QueueInv'
    BY <2>3, <2>4, <2>5, <1>t DEF QueueInv
  <2>7. FlapInv'
    BY <2>2, <2>4, <1>t DEF FlapInv
  <2>8. TypeOK'
    BY <2>4, <2>6, <1>t, TypeFromQueue DEF TypeOK
  <2>9. ReportInv'
    BY <2>3, <2>4, <1>t, ReportsElsewhere
  <2> QED BY <2>6, <2>7, <2>8, <2>9
<1>2. CASE EntersFailed(m)
  <2>1. state = m /\ queue = <<Event(m, "FAILED")>> /\ Tail(queue) = <<>>
    BY <1>2, Taken DEF EntersFailed
  <2>2. /\ state' = "failed" /\ queue' = <<>> /\ ~draining' /\ draining' \in BOOLEAN
        /\ polling' = {} /\ UNCHANGED <<reports, installed, flap, goal, debug>>
    BY <1>2, <2>1, OneEvent DEF EntersFailed, Drains, QueueInv
  <2>3. QueueInv'
    BY <2>2, <1>t DEF QueueInv
  <2>4. FlapInv'
    BY <2>2, <1>t DEF FlapInv
  <2>5. TypeOK'
    BY <2>2, <2>3, <1>t, TypeFromQueue DEF TypeOK
  <2>6. reports = 0
    BY <2>1 DEF ReportInv, AnnouncedTwice, Event
  <2>7. ReportInv'
    BY <2>2, <2>6, <1>t, ReportsElsewhere
  <2> QED BY <2>3, <2>4, <2>5, <2>7
<1> QED BY <1>1, <1>2

\* A timer: it runs in the state of its motion only, where nothing waits.
LEMMA InvTimer ==
  ASSUME ValveInv, NEW m \in Motions, TimerFires(m)
  PROVE  ValveInv'
<1> USE DEF ValveInv
<1>1. m \in polling /\ ~draining /\ UNCHANGED <<installed, flap, goal, debug>>
  BY DEF TimerFires
<1>2. state = m /\ queue = <<>> /\ polling \subseteq {m}
  BY <1>1 DEF QueueInv
<1>3. m # "off" /\ m \in States /\ m \notin Rests
  BY DEF Motions, States, Rests
<1>4. CASE Crashes(m)
  BY <1>1, <1>2, <1>3, <1>4, InvDies DEF TimerFires, TypeOK
<1>5. CASE ~Crashes(m)
  <2>1. CheckMotion(m, <<>>, polling, 0) /\ UNCHANGED <<state, draining>>
    <3>1. reports = 0
      BY <1>1 DEF ReportInv, AnnouncedTwice
    <3> QED BY <1>2, <1>5, <3>1 DEF TimerFires
  <2>2. /\ polling' \subseteq {m}
        /\ queue' # <<>> => polling' = {} /\ \E r \in {"SUCCEED", "FAILED"} : queue' = <<Event(m, r)>>
        /\ queue' = <<Event(m, "SUCCEED")>> => flap = Target[m]
        /\ reports' = IF queue' = <<Event(m, "SUCCEED")>> THEN 1 ELSE 0
    BY <1>2, <2>1, Checked
  <2>3. QueueInv'
    BY <1>2, <2>1, <2>2 DEF QueueInv
  <2>4. FlapInv'
    BY <1>1, <1>2, <1>3, <2>1, <2>2 DEF FlapInv
  <2>5. ReportInv'
    BY <1>2, <2>1, <2>2, ReportsInMotion
  <2>6. TypeOK'
    BY <1>1, <2>1, <2>3, <2>5, TypeFromQueue DEF TypeOK, ReportInv
  <2> QED BY <2>3, <2>4, <2>5, <2>6
<1> QED BY <1>4, <1>5

\* The owner's signal, taken at rest only.
LEMMA InvRequest ==
  ASSUME ValveInv, NEW m \in Motions, Request(m)
  PROVE  ValveInv'
<1> USE DEF ValveInv
<1>1. /\ ~draining /\ draining' = TRUE /\ queue' = Requests(m, state, queue) /\ queue' # queue
      /\ UNCHANGED <<state, polling, reports, installed, flap, goal, debug>>
  BY DEF Request
<1>2. state = Source[m] /\ queue' = <<Event(state, m)>> \o queue
  BY <1>1 DEF Requests
<1>3. state \notin Motions /\ \A n \in Motions : state # n
  BY <1>2, Tables DEF Motions
<1>4. queue = <<>> /\ polling = {}
  BY <1>1, <1>3 DEF QueueInv
<1>5. queue' = <<Event(state, m)>>
  BY <1>2, <1>4, OneEvent
<1>6. QueueInv'
  BY <1>1, <1>2, <1>3, <1>4, <1>5 DEF QueueInv
<1>7. FlapInv'
  BY <1>1, <1>3 DEF FlapInv
<1>8. TypeOK'
  BY <1>1, <1>6, TypeFromQueue DEF TypeOK
<1>9. ReportInv'
  BY <1>1, <1>3, <1>4, ReportsElsewhere DEF ReportInv, AnnouncedTwice
<1> QED BY <1>6, <1>7, <1>8, <1>9

\* The actuator moves the valve to where it takes it, and stops there.
LEMMA InvFlapMoves == ValveInv /\ FlapMoves => ValveInv'
<1> SUFFICES ASSUME ValveInv, FlapMoves PROVE ValveInv'
  OBVIOUS
<1> USE DEF ValveInv
<1>1. /\ flap # goal /\ flap' \in {goal, "between"}
      /\ UNCHANGED <<state, queue, draining, polling, reports, installed, goal, debug>>
  BY DEF FlapMoves, softVars
<1>2. QueueInv'
  BY <1>1 DEF QueueInv
<1>3. FlapInv'
  <2>1. \A m \in Motions : Target[m] # "between"
    BY Tables DEF Motions
  <2>2. \A m \in Motions : state = m => ~(flap = Target[m])
    BY <1>1 DEF FlapInv
  <2>3. reports # 0 /\ state \in Rests => flap = goal
    BY DEF FlapInv, Rests
  <2> QED BY <1>1, <2>1, <2>2, <2>3 DEF FlapInv
<1>4. TypeOK'
  BY <1>1, <1>2, TypeFromQueue DEF TypeOK
<1>5. ReportInv'
  BY <1>1 DEF ReportInv, AnnouncedTwice
<1> QED BY <1>2, <1>3, <1>4, <1>5

\* The installation of a function.
LEMMA InvInstall ==
  ASSUME ValveInv, NEW f \in Installable, Install(f)
  PROVE  ValveInv'
<1>1. /\ installed' = installed \cup {f}
      /\ UNCHANGED <<state, queue, draining, polling, reports, flap, goal, debug>>
  BY DEF Install, softVars
<1>2. QueueInv' /\ FlapInv' /\ ReportInv'
  BY <1>1 DEF ValveInv, QueueInv, FlapInv, ReportInv, AnnouncedTwice
<1>3. TypeOK'
  BY <1>1 DEF ValveInv, TypeOK
<1> QED BY <1>2, <1>3 DEF ValveInv

\* Every step keeps the inductive invariant.
LEMMA InvStep == ValveInv /\ [Next]_vars => ValveInv'
<1> SUFFICES ASSUME ValveInv, [Next]_vars PROVE ValveInv'
  OBVIOUS
<1>1. CASE Run \/ FlapMoves
  BY <1>1, InvRun, InvFlapMoves
<1>2. CASE ProcessEvent
  BY <1>2, InvEntersMotion, InvLeavesMotion DEF ProcessEvent
<1>3. ASSUME NEW m \in Motions, TimerFires(m) \/ Request(m) PROVE ValveInv'
  BY <1>3, InvTimer, InvRequest
<1>4. ASSUME NEW m \in Motions, Install(Func[m]) \/ Install(Check[m]) PROVE ValveInv'
  BY <1>4, InvInstall DEF Installable
<1>5. CASE UNCHANGED vars
  BY <1>5 DEF vars, softVars, ValveInv, TypeOK, QueueInv, FlapInv, ReportInv, AnnouncedTwice
<1> QED BY <1>1, <1>2, <1>3, <1>4, <1>5 DEF Next

-----------------------------------------------------------------------------
(* The theorems.                                                           *)

\* In every run the valve's variables stay within their types, and never more than one
\* event waits: neither requests nor reports pile up in machine_.
THEOREM ValveTypeCorrect == Spec => []TypeOK
<1>1. ValveInv => TypeOK
  BY DEF ValveInv
<1> QED BY InvInit, InvStep, <1>1, PTL DEF Spec

\* The listeners hear of the end of a motion twice, from the one check that finds the valve
\* there and from the state that follows, never a third time, and never of a motion that
\* fails: whatever functions are installed, fail or answer late, and whatever listeners ask.
THEOREM EndAnnouncedTwice == Spec => []AnnouncedTwice
<1>1. ValveInv => AnnouncedTwice
  BY DEF ValveInv, ReportInv
<1> QED BY InvInit, InvStep, <1>1, PTL DEF Spec

\* A valve at rest that has reported a motion is where its state says, even where the
\* installed functions refuse what they are asked for.
THEOREM RestIsTrue == Spec => []RestTrue
<1>1. ValveInv => RestTrue
  BY DEF ValveInv, FlapInv, RestTrue
<1> QED BY InvInit, InvStep, <1>1, PTL DEF Spec

=============================================================================
