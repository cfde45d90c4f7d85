--------------------------- MODULE MCModbusClient ---------------------------
(* ModbusClient with bytes of two bits, limits that some calls pass, and   *)
(* every function among the first calls: a call with each table, an answer *)
(* of its own function to confuse it with, one that the slave refuses, and *)
(* writes past the limit that still fit the request or overrun it.         *)
EXTENDS ModbusClient

Read(fn, start, qty) == [fn |-> fn, start |-> start, qty |-> qty, values |-> <<>>]
WriteCall(fn, start, values) == [fn |-> fn, start |-> start, qty |-> Len(values), values |-> values]

Coils == Read("READ_COILS", 0, 4)
Registers == Read("READ_HOLDING_REGISTERS", 1, 1)
Refused == Read("READ_HOLDING_REGISTERS", 2, 2)
WriteCoils == WriteCall("WRITE_MULTIPLE_COILS", 0, <<FALSE, TRUE, TRUE, TRUE>>)
WriteRegister == WriteCall("WRITE_SINGLE_REGISTER", 1, <<1>>)

MCCalls ==
  <<{Coils, Registers, Refused, WriteCoils, WriteRegister,
     Read("READ_DESCRETE_INPUTS", 0, 3), Read("READ_INPUT_REGISTERS", 0, 3),
     WriteCall("WRITE_SINGLE_COIL", 2, <<TRUE>>),
     WriteCall("WRITE_MULTIPLE_REGISTERS", 0, <<1, 0, 1>>),
     WriteCall("WRITE_MULTIPLE_COILS", 0, [k \in 1..12 |-> k % 3 = 0]),
     WriteCall("WRITE_MULTIPLE_COILS", 0, [k \in 1..13 |-> TRUE])},
    {Coils, Registers, WriteCoils, WriteRegister},
    {Coils, Registers, WriteRegister,
     WriteCall("WRITE_MULTIPLE_REGISTERS", 0, <<1, 0, 1, 0>>)}>>

=============================================================================
