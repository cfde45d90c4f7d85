----------------------------- MODULE ModbusData -----------------------------
(***************************************************************************)
(* MODBUS4QT: the functions of the protocol that the client uses and how   *)
(* their data is laid out (abstract_device.h, abstract_device.cpp, and the *)
(* functions of client.cpp that fill a request and read its answer). A     *)
(* byte of coils is the set of its bits that are one; a register is a      *)
(* value of two bytes, put and got in the same byte order.                 *)
(***************************************************************************)
EXTENDS Integers, Sequences

CONSTANTS
  Bits,                 \* bits of a byte
  MaxCoilsForRead, MaxCoilsForWrite,
  MaxRegistersForRead, MaxRegistersForWrite,
  Room                  \* bytes of ProtocolDataUnit::data behind the head of a write, 247

ASSUME BitsAssumption == Bits \in Nat \ {0}
ASSUME RoomAssumption == Room \in Nat
ASSUME LimitsAssumption ==
  {MaxCoilsForRead, MaxCoilsForWrite, MaxRegistersForRead, MaxRegistersForWrite} \subseteq Nat \ {0}
ASSUME WriteLimitsAssumption == MaxRegistersForWrite <= MaxCoilsForWrite

ReadFunctions ==
  {"READ_COILS", "READ_DESCRETE_INPUTS", "READ_HOLDING_REGISTERS", "READ_INPUT_REGISTERS"}
WriteFunctions ==
  {"WRITE_SINGLE_COIL", "WRITE_SINGLE_REGISTER", "WRITE_MULTIPLE_COILS", "WRITE_MULTIPLE_REGISTERS"}

\* The table a function works on.
Table ==
  [READ_COILS |-> "coils", WRITE_SINGLE_COIL |-> "coils", WRITE_MULTIPLE_COILS |-> "coils",
   READ_DESCRETE_INPUTS |-> "inputs",
   READ_HOLDING_REGISTERS |-> "holding", WRITE_SINGLE_REGISTER |-> "holding",
   WRITE_MULTIPLE_REGISTERS |-> "holding", READ_INPUT_REGISTERS |-> "inputRegisters"]
OfBits(fn) == Table[fn] \in {"coils", "inputs"}

\* A call gives the address of its first cell, and how many it reads or what it writes.
IsCall(c, words) ==
  /\ c.fn \in ReadFunctions \cup WriteFunctions /\ c.start \in Nat /\ c.qty \in Nat
  /\ c.fn \in WriteFunctions =>
       /\ c.values \in Seq(IF OfBits(c.fn) THEN BOOLEAN ELSE words)
       /\ c.fn \in {"WRITE_SINGLE_COIL", "WRITE_SINGLE_REGISTER"} => Len(c.values) = 1

AtMost(n, limit) == IF n > limit THEN limit ELSE n

-----------------------------------------------------------------------------
(* Buffers.                                                                *)

BytesFor(n) == (n + Bits - 1) \div Bits

\* Mutation: the mask is not set back at the end of a byte.
PutCoilsIntoBuffer_OneByte(values) ==
  [b \in 1..BytesFor(Len(values)) |->
     {i \in 0..(Bits - 1) : b = 1 /\ i < Len(values) /\ values[i + 1]}]

\* putCoilsIntoBuffer(): all the bytes are cleared, and the loop that sets their bits
\* gives up two values past the limit.
PutCoilsIntoBuffer(values) ==
  LET coil(b, i) == (b - 1) * Bits + i
  IN  [b \in 1..BytesFor(Len(values)) |->
         {i \in 0..(Bits - 1) :
            coil(b, i) < AtMost(Len(values), MaxCoilsForWrite + 2) /\ values[coil(b, i) + 1]}]

\* putRegistersIntoBuffer() knows the limit of the coils only.
PutRegistersIntoBuffer(values) == SubSeq(values, 1, AtMost(Len(values), MaxCoilsForWrite + 2))

\* The bytes that a call lays down behind the head of its request: of all the values it
\* is given, whatever quantity is sent.
BytesPut(call) ==
  IF OfBits(call.fn) THEN BytesFor(Len(call.values))
  ELSE 2 * Len(PutRegistersIntoBuffer(call.values))

\* The values of the call have room in the request. The code does not look: with more
\* of them it writes past ProtocolDataUnit::data, and what follows is undefined.
Fits(call) ==
  call.fn \in {"WRITE_MULTIPLE_COILS", "WRITE_MULTIPLE_REGISTERS"} => BytesPut(call) <= Room

\* getCoilsFromBuffer(): what the buffer does not hold is FALSE.
GetCoilsFromBuffer(buffer, qty) ==
  [k \in 1..qty |->
     LET b == (k - 1) \div Bits + 1
     IN  b <= Len(buffer) /\ (k - 1) % Bits \in buffer[b]]

\* getRegistersFromBuffer() reads on past the end of the buffer: whatever is there.
GetRegistersFromBuffer(buffer, qty, beyond) ==
  [k \in 1..qty |-> IF k <= Len(buffer) THEN buffer[k] ELSE beyond]

-----------------------------------------------------------------------------
(* The functions of the client: the request that a call makes, and what it *)
(* gives its caller of the answer's data.                                  *)

Request(fn, start, qty, data) == [fn |-> fn, start |-> start, qty |-> qty, data |-> data]

\* readCoils(), and readCoil(), which asks for one
ReadCoils(call) ==
  Request("READ_COILS", call.start, AtMost(call.qty, MaxCoilsForRead), <<>>)

\* readDescreteInputs()
ReadDescreteInputs(call) ==
  Request("READ_DESCRETE_INPUTS", call.start, AtMost(call.qty, MaxCoilsForRead), <<>>)

\* readHoldingRegisters(), readHoldingRegister()
ReadHoldingRegisters(call) ==
  Request("READ_HOLDING_REGISTERS", call.start, AtMost(call.qty, MaxRegistersForRead), <<>>)

\* readInputRegisters(), readInputRegister()
ReadInputRegisters(call) ==
  Request("READ_INPUT_REGISTERS", call.start, AtMost(call.qty, MaxRegistersForRead), <<>>)

\* What a call of a write function writes of the values it is given.
Written(call) ==
  SubSeq(call.values, 1,
         AtMost(Len(call.values),
                IF OfBits(call.fn) THEN MaxCoilsForWrite ELSE MaxRegistersForWrite))

\* writeMultipleCoils() and writeMultipleRegisters() of a call that fits: all values are
\* put into the buffer, and the bytes of those within the limit are sent.
WriteMultipleCoils(call) ==
  LET qty == Len(Written(call))
  IN  Request("WRITE_MULTIPLE_COILS", call.start, qty,
              SubSeq(PutCoilsIntoBuffer(call.values), 1, BytesFor(qty)))

WriteMultipleRegisters(call) ==
  LET qty == Len(Written(call))
  IN  Request("WRITE_MULTIPLE_REGISTERS", call.start, qty,
              SubSeq(PutRegistersIntoBuffer(call.values), 1, qty))

\* writeSingleCoil(), writeSingleRegister()
WriteSingleCoil(call) == Request("WRITE_SINGLE_COIL", call.start, 1, call.values)
WriteSingleRegister(call) == Request("WRITE_SINGLE_REGISTER", call.start, 1, call.values)

RequestOf(call) ==
  CASE call.fn = "READ_COILS" -> ReadCoils(call)
    [] call.fn = "READ_DESCRETE_INPUTS" -> ReadDescreteInputs(call)
    [] call.fn = "READ_HOLDING_REGISTERS" -> ReadHoldingRegisters(call)
    [] call.fn = "READ_INPUT_REGISTERS" -> ReadInputRegisters(call)
    [] call.fn = "WRITE_MULTIPLE_COILS" -> WriteMultipleCoils(call)
    [] call.fn = "WRITE_MULTIPLE_REGISTERS" -> WriteMultipleRegisters(call)
    [] call.fn = "WRITE_SINGLE_COIL" -> WriteSingleCoil(call)
    [] call.fn = "WRITE_SINGLE_REGISTER" -> WriteSingleRegister(call)

ValuesOf(request, data, beyond) ==
  IF request.fn \notin ReadFunctions THEN <<>>
  ELSE IF OfBits(request.fn) THEN GetCoilsFromBuffer(data, request.qty)
  ELSE GetRegistersFromBuffer(data, request.qty, beyond)

=============================================================================
