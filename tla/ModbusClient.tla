---------------------------- MODULE ModbusClient ----------------------------
(***************************************************************************)
(* MODBUS4QT: the client (client.cpp) over TCP (tcp_client.cpp) or over a  *)
(* serial line (rtu_client.cpp, rtu_device.cpp). A call blocks its thread: *)
(* it may wait for the silence of the line and for the connection, writes  *)
(* a request, waits for an answer or a timeout, and takes all that has     *)
(* come in for the answer. Timers fire between calls only. The sockets of  *)
(* Qt, the line and the slave are external: the slave may answer late or   *)
(* not at all, and a serial line loses and damages frames.                 *)
(***************************************************************************)
EXTENDS ModbusData

CONSTANTS
  Calls,       \* bound: the calls that the user may make first, second...
  Size,        \* cells in each table of the slave
  Words,       \* values of a register
  MaxTid,      \* the largest transaction identifier, 0xFFFF
  MaxBehind    \* bound: requests the slave is behind by

AllCalls == UNION {Calls[i] : i \in DOMAIN Calls}

ASSUME SizesAssumption == Size \in Nat /\ {MaxTid, MaxBehind} \subseteq Nat
ASSUME WordsAssumption == Words # {}
ASSUME CallsAssumption ==
  /\ Calls \in Seq(SUBSET AllCalls) /\ Calls # <<>> /\ Calls[1] # {}
  /\ \A c \in AllCalls : IsCall(c, Words)

VARIABLES
  kind,         \* "tcp" or "rtu"
  autoConnect,  \* autoConnect_ of TcpClient
  phase,        \* where the call is, "idle" between calls; "undefined": see BeginCall
  call,         \* the call that is made, or was made last
  calls,        \* calls made so far, and the number of the last
  opened,       \* the socket is connected, or the port is open
  tid,          \* lastTransactionID_
  reported,     \* errorMessage() about the answer was emitted in this call
  result,       \* what the last call returned; history: from which answer, asked
                \* with which identifier, and whether an earlier answer was due
  inSilence,    \* inSilenceState_
  young, due,   \* single shots of stopSilence_() that run, and that have run out
  toSlave,      \* requests on their way
  inbox,        \* answers that have come in and are not read
  fresh,        \* readyRead() is due for some of them
  memory,       \* the tables of the slave
  quiet,        \* history: silenceTime_ has passed since the last call
  overlap,      \* history: a shot was waiting when the last silence began
  abandoned     \* history: an answer may be on its way that its call did not take

clientVars == <<autoConnect, phase, call, calls, opened, tid, reported, result>>
silenceVars == <<inSilence, young, due, quiet, overlap>>
lineVars == <<toSlave, inbox, fresh, memory, abandoned>>
vars == <<kind, clientVars, silenceVars, lineVars>>

NoAnswer == [n |-> 0, fn |-> "none", exc |-> FALSE, data |-> <<>>, cells |-> <<>>, tid |-> 0,
             bad |-> FALSE]
NoResult == [ok |-> FALSE, values |-> <<>>, answer |-> NoAnswer, tid |-> 0, late |-> FALSE]

-----------------------------------------------------------------------------
(* The slave and the line.                                                 *)

Legal(r) == r.qty > 0 /\ r.start + r.qty <= Size

\* What the data of a request stands for by the protocol.
CellsIn(r) ==
  IF OfBits(r.fn) /\ r.fn # "WRITE_SINGLE_COIL"
    THEN [k \in 1..r.qty |-> (k - 1) % Bits \in r.data[(k - 1) \div Bits + 1]]
    ELSE r.data

Executed(r) ==
  IF Legal(r) /\ r.fn \in WriteFunctions
    THEN [memory EXCEPT ![Table[r.fn]] =
            [a \in 0..(Size - 1) |->
               IF a \in r.start..(r.start + r.qty - 1) THEN CellsIn(r)[a - r.start + 1] ELSE @[a]]]
    ELSE memory

AnswerTo(r) ==
  LET cells == [k \in 1..r.qty |-> Executed(r)[Table[r.fn]][r.start + k - 1]]
      bytes == [b \in 1..BytesFor(r.qty) |->
                  {i \in 0..(Bits - 1) : (b - 1) * Bits + i < r.qty /\ cells[(b - 1) * Bits + i + 1]}]
  IN  IF ~Legal(r) THEN [NoAnswer EXCEPT !.n = r.n, !.fn = r.fn, !.exc = TRUE, !.tid = r.tid]
      ELSE [NoAnswer EXCEPT !.n = r.n, !.fn = r.fn, !.tid = r.tid, !.cells = cells,
              !.data = IF r.fn \notin ReadFunctions THEN <<>> ELSE IF OfBits(r.fn) THEN bytes ELSE cells]

\* A damaged answer has a wrong checksum, or is less than a frame; its function code
\* may have survived, or be what was in memory.
Damaged(a) == {[a EXCEPT !.bad = TRUE, !.data = <<>>, !.fn = f] : f \in {a.fn, "garbage"}}

\* The slave serves a request, and the answer arrives: at last, if it does.
SlaveServes ==
  /\ toSlave # <<>>
  /\ LET r == Head(toSlave)
         arrives == {AnswerTo(r)} \cup IF kind = "rtu" THEN Damaged(AnswerTo(r)) ELSE {}
     IN  /\ memory' = Executed(r)
         /\ \/ /\ opened /\ r.live
               /\ \E a \in arrives : inbox' = Append(inbox, a)
               /\ fresh' = TRUE
            \/ /\ ~opened \/ ~r.live \/ kind = "rtu"
               /\ UNCHANGED <<inbox, fresh>>
  /\ toSlave' = Tail(toSlave)
  /\ UNCHANGED <<kind, clientVars, silenceVars, abandoned>>

RequestLost ==
  /\ kind = "rtu" /\ toSlave # <<>>
  /\ toSlave' = Tail(toSlave)
  /\ UNCHANGED <<kind, clientVars, silenceVars, inbox, fresh, memory, abandoned>>

\* The peer, disconnectFromServer() or a setter that calls it closes the connection;
\* what has come in can still be read.
DisconnectFromServer ==
  /\ kind = "tcp"
  /\ toSlave' = [i \in DOMAIN toSlave |-> [toSlave[i] EXCEPT !.live = FALSE]]

\* setPortName() closes the port.
SetPortName == kind = "rtu" /\ phase = "idle" /\ UNCHANGED toSlave

Closes ==
  /\ opened
  /\ opened' = FALSE
  /\ DisconnectFromServer \/ SetPortName
  /\ UNCHANGED <<kind, autoConnect, phase, call, calls, tid, reported, result, silenceVars,
                 inbox, fresh, memory, abandoned>>

-----------------------------------------------------------------------------
(* The silence of the line, RTU.                                           *)

\* Time passes between calls: first shots of earlier silences run out, then,
\* with silenceTime_ over, all.
ShotRunsOut ==
  /\ phase = "idle" /\ young > 1
  /\ young' = young - 1 /\ due' = due + 1
  /\ UNCHANGED <<kind, clientVars, inSilence, quiet, overlap, lineVars>>

SilencePasses ==
  /\ phase = "idle" /\ ~quiet
  /\ quiet' = TRUE
  /\ young' = 0 /\ due' = due + young
  /\ UNCHANGED <<kind, clientVars, inSilence, overlap, lineVars>>

\* stopSilence_(), for whichever silence the shot was started.
StopSilence ==
  /\ phase = "idle" /\ due > 0
  /\ due' = due - 1
  /\ inSilence' = FALSE
  /\ UNCHANGED <<kind, clientVars, young, quiet, overlap, lineVars>>

\* Mutation: the timer is started and the flag is not set.
StartSilence_NoFlag ==
  \E k \in 0..young :
    /\ young' = young - k + 1 /\ due' = due + k
    /\ quiet' = FALSE
    /\ overlap' = (young + due > 0)
    /\ UNCHANGED inSilence

\* startSilence_(), and the shots that ran out while the call was blocked.
StartSilence ==
  \E k \in 0..young :
    /\ inSilence' = TRUE
    /\ young' = young - k + 1 /\ due' = due + k
    /\ quiet' = FALSE
    /\ overlap' = (young + due > 0)

-----------------------------------------------------------------------------
(* A call.                                                                 *)

Prepared == [phase |-> IF opened \/ (kind = "tcp" /\ ~autoConnect) THEN "writing" ELSE "opening"]

\* The request is filled before anything is waited for. Values that do not fit are
\* undefined behaviour: of the client the model says nothing from there on.
BeginCall(c) ==
  /\ phase = "idle" /\ calls < Len(Calls) /\ c \in Calls[calls + 1]
  /\ call' = c /\ calls' = calls + 1
  /\ phase' = IF ~Fits(c) THEN "undefined"
              ELSE IF kind = "rtu" /\ inSilence THEN "silent"
              ELSE Prepared.phase
  /\ reported' = FALSE /\ result' = NoResult
  /\ UNCHANGED <<kind, autoConnect, opened, tid, silenceVars, lineVars>>

\* Mutation: wait() ends with the silence state, which nothing ends meanwhile.
EndSilence_WaitsForFlag ==
  /\ phase = "silent" /\ ~inSilence
  /\ quiet' = TRUE /\ young' = 0 /\ due' = due + young
  /\ phase' = Prepared.phase
  /\ UNCHANGED <<kind, autoConnect, call, calls, opened, tid, reported, result, inSilence, overlap,
                 lineVars>>

\* wait(silenceTime_): the thread sleeps, and inSilenceState_ stays.
EndSilence ==
  /\ phase = "silent"
  /\ quiet' = TRUE /\ young' = 0 /\ due' = due + young
  /\ phase' = Prepared.phase
  /\ UNCHANGED <<kind, autoConnect, call, calls, opened, tid, reported, result, inSilence, overlap,
                 lineVars>>

\* connectToServer(): identifiers start again, and no answer is due any more.
ConnectToServer == kind = "tcp" /\ tid' = 0 /\ abandoned' = FALSE

\* openPort() and configurePort_(): the line goes on behind the port.
OpenPort == kind = "rtu" /\ UNCHANGED <<tid, abandoned>>

Opens ==
  /\ opened' = TRUE
  /\ inbox' = <<>> /\ fresh' = FALSE
  /\ ConnectToServer \/ OpenPort
  /\ UNCHANGED <<kind, autoConnect, call, calls, reported, silenceVars, toSlave, memory>>

OpenForCall ==
  /\ phase = "opening"
  /\ \/ Opens /\ phase' = "writing" /\ UNCHANGED result
     \/ /\ phase' = "idle"
        /\ UNCHANGED <<kind, autoConnect, call, calls, opened, tid, reported, result, silenceVars,
                       lineVars>>

OpenByUser == phase = "idle" /\ ~opened /\ Opens /\ UNCHANGED <<phase, result>>

\* Mutation: the identifier stays.
NewTransactionID_Same == tid

\* getNewTransactionID_()
NewTransactionID == IF tid = MaxTid THEN 0 ELSE tid + 1

\* The end of a call; RtuClient::sendRequest_() begins a silence whatever it was.
Returns(r) ==
  /\ result' = r
  /\ phase' = "idle"
  /\ IF kind = "rtu" THEN StartSilence ELSE UNCHANGED silenceVars

\* prepareADU_(): over TCP with the next identifier, on the serial line with a checksum.
TcpPrepareADU == kind = "tcp" /\ tid' = NewTransactionID
RtuPrepareADU == kind = "rtu" /\ tid' = tid
ADU ==
  LET r == RequestOf(call)
  IN  [n |-> calls, tid |-> tid', live |-> TRUE,
       fn |-> r.fn, start |-> r.start, qty |-> r.qty, data |-> r.data]

\* write() and waitForBytesWritten(). The frame may go out after the call has given
\* up on it. Data that comes in meanwhile does not wait for readyRead().
Write ==
  /\ phase = "writing"
  /\ TcpPrepareADU \/ RtuPrepareADU
  /\ \/ Returns(NoResult) /\ UNCHANGED <<toSlave, fresh, abandoned>>
     \/ /\ opened /\ Len(toSlave) < MaxBehind
        /\ toSlave' = Append(toSlave, ADU)
        /\ fresh' \in {fresh, FALSE}
        /\ \/ Returns(NoResult) /\ abandoned' = TRUE
           \/ phase' = "waiting" /\ UNCHANGED <<result, silenceVars, abandoned>>
  /\ UNCHANGED <<kind, autoConnect, call, calls, opened, reported, inbox, memory>>

\* waitForReadyRead() gives up, or the connection is gone.
ReadTimeout ==
  /\ phase = "waiting" /\ ~fresh
  /\ Returns(NoResult)
  /\ abandoned' = TRUE
  /\ UNCHANGED <<kind, autoConnect, call, calls, opened, tid, reported, toSlave, inbox, fresh, memory>>

\* waitForReadyRead() notices new data.
ReadyRead ==
  /\ phase = "waiting" /\ fresh
  /\ phase' = "reading"
  /\ UNCHANGED <<kind, autoConnect, call, calls, opened, tid, reported, result, silenceVars, lineVars>>

\* The event loop notices it between calls, and nobody reads it.
NoticedIdle ==
  /\ phase = "idle" /\ fresh
  /\ fresh' = FALSE
  /\ UNCHANGED <<kind, clientVars, silenceVars, toSlave, inbox, memory, abandoned>>

\* Mutation: any answer will do.
Accepts_Any(a) == TRUE

\* sendRequest_(): neither unit nor transaction is compared. That an exception's
\* code is the request's with a bit set makes it a mismatch.
Accepts(a) == a.fn = call.fn /\ ~a.exc

\* preparePDU(): all that was read is one frame, and its checksum is wrong when it
\* is not.
Faulty(buffer) == Len(buffer) > 1 \/ Head(buffer).bad

\* processADU_() takes what is at the beginning, and only reports what is wrong with
\* it: the length over TCP, where answers are whole, the checksum on the serial line.
TcpProcessADU(buffer) == [answer |-> Head(buffer), wrong |-> FALSE]
RtuProcessADU(buffer) == [answer |-> Head(buffer), wrong |-> Faulty(buffer)]
ProcessADU(buffer) == IF kind = "tcp" THEN TcpProcessADU(buffer) ELSE RtuProcessADU(buffer)

\* readResponse_() reads until nothing more comes.
ReadAll == inbox' = <<>> /\ fresh' = FALSE

ReadResponse ==
  /\ phase = "reading"
  /\ LET a == ProcessADU(inbox).answer
     IN  \E beyond \in Words :
           /\ reported' = ProcessADU(inbox).wrong
           /\ Returns(IF Accepts(a)
                        THEN [ok |-> TRUE, answer |-> a, tid |-> tid, late |-> abandoned,
                              values |-> ValuesOf(RequestOf(call), a.data, beyond)]
                        ELSE NoResult)
           /\ abandoned' = (abandoned \/ a.n # calls)
  /\ ReadAll
  /\ UNCHANGED <<kind, autoConnect, call, calls, opened, tid, toSlave, memory>>

CallStep ==
  EndSilence \/ OpenForCall \/ Write \/ ReadTimeout \/ ReadyRead \/ ReadResponse

-----------------------------------------------------------------------------

Tables == {"coils", "inputs", "holding", "inputRegisters"}

\* Reading and writing tables start alike, so that answers differ by what is written.
Init ==
  /\ kind \in {"tcp", "rtu"} /\ autoConnect \in {TRUE, kind = "rtu"}
  /\ phase = "idle" /\ calls = 0 /\ call = CHOOSE c \in Calls[1] : TRUE
  /\ opened = FALSE /\ tid = 0 /\ reported = FALSE /\ result = NoResult
  /\ inSilence = FALSE /\ young = 0 /\ due = 0 /\ quiet = TRUE /\ overlap = FALSE
  /\ toSlave = <<>> /\ inbox = <<>> /\ fresh = FALSE /\ abandoned = FALSE
  /\ memory = [t \in Tables |->
       [a \in 0..(Size - 1) |->
          IF t \in {"coils", "inputs"} THEN a % 3 # 1 ELSE CHOOSE w \in Words : TRUE]]

Next ==
  \/ \E c \in AllCalls : BeginCall(c)
  \/ CallStep \/ OpenByUser \/ Closes \/ NoticedIdle
  \/ ShotRunsOut \/ SilencePasses \/ StopSilence
  \/ SlaveServes \/ RequestLost

Spec == Init /\ [][Next]_vars

\* Every wait of a call ends: with what it waits for or with its timeout.
Fairness == WF_vars(CallStep)

FairSpec == Spec /\ Fairness

-----------------------------------------------------------------------------
(* Safety.                                                                 *)

Phases == {"idle", "silent", "opening", "writing", "waiting", "reading", "undefined"}

\* Every variable stays within its type; a call that reads has something to read.
TypeOK ==
  /\ kind \in {"tcp", "rtu"} /\ autoConnect \in BOOLEAN
  /\ phase \in Phases /\ call \in AllCalls /\ calls \in 0..Len(Calls)
  /\ opened \in BOOLEAN /\ tid \in 0..MaxTid /\ reported \in BOOLEAN
  /\ {inSilence, quiet, overlap, fresh, abandoned} \subseteq BOOLEAN
  /\ young \in Nat /\ due \in Nat
  /\ \A i \in DOMAIN toSlave : toSlave[i].n \in 1..calls
  /\ \A i \in DOMAIN inbox : inbox[i].n \in 1..calls
  /\ phase = "reading" => inbox # <<>>

Own(r) == r.answer.n = calls

\* An answer that a call returns with success, without owning up to its damage in
\* errorMessage(), is whole and the slave's to a request of the same function that it
\* served, and to this very call as long as no earlier request was given up on with
\* its answer still to come.
AcceptedAnswers ==
  (result.ok /\ ~(result.answer.bad /\ reported))
    => /\ ~result.answer.bad
       /\ result.answer.fn = call.fn /\ ~result.answer.exc
       /\ Own(result) \/ result.late

\* Read or written through the buffers, the values of a call are those of the slave's
\* cells, up to the limit of the function. Of a call whose values overrun the request
\* nothing is said.
DataTrue ==
  (result.ok /\ ~result.answer.bad /\ Own(result) /\ Fits(call))
    => result.answer.cells = IF call.fn \in ReadFunctions THEN result.values ELSE Written(call)

\* Over TCP an answer to another request never carries the identifier of this one:
\* comparing it is all that AcceptedAnswers lacks.
IdentifierTells ==
  (kind = "tcp" /\ result.ok /\ ~Own(result)) => result.answer.tid # result.tid

\* A request goes out on the serial line only when the silence after the last call is
\* over, unless the timer of an earlier silence was still to fire when it began.
SilenceKept == (kind = "rtu" /\ phase \in {"opening", "writing"}) => quiet \/ overlap

-----------------------------------------------------------------------------
(* Liveness.                                                               *)

\* Every call whose values fit returns: it holds its thread no longer than its timeouts.
CallReturns == (phase \notin {"idle", "undefined"}) ~> (phase = "idle")

=============================================================================
