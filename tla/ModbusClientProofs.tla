------------------------- MODULE ModbusClientProofs -------------------------
(***************************************************************************)
(* Theorems about ModbusClient, for any calls, any size of a byte, any     *)
(* limits of the functions and any slave tables: what a call takes for its *)
(* answer, that the values of a call are those of the slave's cells, what  *)
(* the transaction identifier would tell, and the silence between the      *)
(* frames of a serial line.                                                *)
(***************************************************************************)
EXTENDS ModbusClient, SequenceTheorems, TLAPS

-----------------------------------------------------------------------------
(* How bits lie in bytes.                                                  *)

\* The bytes for n bits have a place for each of them, and the loops that count bytes
\* and bits find it again.
LEMMA BytesHold ==
  ASSUME NEW n \in Nat
  PROVE  /\ BytesFor(n) \in Nat
         /\ \A k \in 1..n : /\ (k - 1) \div Bits + 1 \in 1..BytesFor(n)
                            /\ (k - 1) % Bits \in 0..(Bits - 1)
                            /\ ((k - 1) \div Bits) * Bits + ((k - 1) % Bits) = k - 1
         /\ \A m \in Nat : m <= n => BytesFor(m) <= BytesFor(n)
<1>1. BytesFor(n) \in Nat
  BY BitsAssumption DEF BytesFor
<1>2. \A k \in 1..n : (k - 1) \div Bits + 1 \in 1..BytesFor(n)
  BY BitsAssumption DEF BytesFor
<1>3. \A k \in 1..n : (k - 1) % Bits \in 0..(Bits - 1)
  BY BitsAssumption
<1>4. \A k \in 1..n : ((k - 1) \div Bits) * Bits + ((k - 1) % Bits) = k - 1
  BY BitsAssumption
<1>5. \A m \in Nat : m <= n => BytesFor(m) <= BytesFor(n)
  BY BitsAssumption DEF BytesFor
<1> QED BY <1>1, <1>2, <1>3, <1>4, <1>5

\* A function code is one of eight, and works on one of four tables.
Codes == ReadFunctions \cup WriteFunctions

LEMMA TablesOfCodes ==
  \A fn \in Codes : /\ Table[fn] \in Tables
                    /\ fn \in WriteFunctions => Table[fn] \in {"coils", "holding"}
BY DEF Codes, ReadFunctions, WriteFunctions, Table, Tables

Bytes == Seq(SUBSET (0..(Bits - 1)))

\* The bytes that the slave sends for coils.
Packed(cells, q) ==
  [b \in 1..BytesFor(q) |->
     {i \in 0..(Bits - 1) : (b - 1) * Bits + i < q /\ cells[(b - 1) * Bits + i + 1]}]

\* Coils come out of the buffer as they were put in: getCoilsFromBuffer() undoes what
\* the slave does, whatever the last byte holds beyond them.
LEMMA CoilsBack ==
  ASSUME NEW q \in Nat, NEW cells \in [1..q -> BOOLEAN]
  PROVE  /\ Packed(cells, q) \in Bytes
         /\ GetCoilsFromBuffer(Packed(cells, q), q) = cells
<1> DEFINE p == Packed(cells, q)
<1>1. BytesFor(q) \in Nat
  BY BytesHold
<1>2. p \in [1..BytesFor(q) -> SUBSET (0..(Bits - 1))]
  BY DEF Packed
<1>3. p \in Bytes /\ Len(p) = BytesFor(q)
  BY <1>1, <1>2 DEF Bytes
<1>4. ASSUME NEW k \in 1..q
      PROVE  /\ (k - 1) \div Bits + 1 <= Len(p)
             /\ (k - 1) % Bits \in p[(k - 1) \div Bits + 1] <=> cells[k]
  <2> DEFINE b == (k - 1) \div Bits + 1
             i == (k - 1) % Bits
  <2>1. b \in 1..BytesFor(q) /\ i \in 0..(Bits - 1) /\ (b - 1) * Bits + i = k - 1
    <3>1. /\ (k - 1) \div Bits + 1 \in 1..BytesFor(q)
          /\ (k - 1) % Bits \in 0..(Bits - 1)
          /\ ((k - 1) \div Bits) * Bits + ((k - 1) % Bits) = k - 1
      BY BytesHold
    <3>2. (k - 1) \div Bits \in Int
      BY BitsAssumption
    <3>3. ((k - 1) \div Bits + 1) - 1 = (k - 1) \div Bits
      BY <3>2
    <3> QED BY <3>1, <3>3
  <2> HIDE DEF b, i
  <2>2. p[b] = {j \in 0..(Bits - 1) : (b - 1) * Bits + j < q /\ cells[(b - 1) * Bits + j + 1]}
    BY <2>1 DEF Packed
  <2>3. (b - 1) * Bits + i < q /\ (b - 1) * Bits + i + 1 = k
    BY <2>1
  <2>4. i \in p[b] <=> cells[k]
    BY <2>1, <2>2, <2>3
  <2>5. b <= Len(p)
    BY <2>1, <1>3, <1>1
  <2> QED BY <2>4, <2>5 DEF b, i
<1> HIDE DEF p
<1>5. GetCoilsFromBuffer(p, q) = [k \in 1..q |-> cells[k]]
  BY <1>4 DEF GetCoilsFromBuffer
<1>6. [k \in 1..q |-> cells[k]] = cells
  OBVIOUS
<1> QED BY <1>3, <1>5, <1>6 DEF p

\* What a call of a write function writes is its values up to the limit of the function.
LEMMA WrittenValues ==
  ASSUME NEW c, IsCall(c, Words), c.fn \in WriteFunctions
  PROVE  LET S == IF OfBits(c.fn) THEN BOOLEAN ELSE Words
             q == Len(Written(c))
         IN  /\ c.values \in Seq(S) /\ Written(c) \in Seq(S)
             /\ q \in Nat /\ q <= Len(c.values)
             /\ q <= IF OfBits(c.fn) THEN MaxCoilsForWrite ELSE MaxRegistersForWrite
             /\ Written(c) = [k \in 1..q |-> c.values[k]]
<1> DEFINE S == IF OfBits(c.fn) THEN BOOLEAN ELSE Words
           limit == IF OfBits(c.fn) THEN MaxCoilsForWrite ELSE MaxRegistersForWrite
           q == AtMost(Len(c.values), limit)
<1>1. c.values \in Seq(S) /\ Len(c.values) \in Nat
  BY DEF IsCall
<1>2. limit \in Nat \ {0}
  BY LimitsAssumption
<1>3. q \in Nat /\ q <= Len(c.values) /\ q <= limit
  BY <1>1, <1>2 DEF AtMost
<1>4. Written(c) = SubSeq(c.values, 1, q)
  BY DEF Written
<1> HIDE DEF S, limit, q
<1>5. /\ Written(c) \in Seq(S) /\ Len(Written(c)) = q
      /\ \A k \in 1..q : Written(c)[k] = c.values[k]
  BY <1>1, <1>3, <1>4, SubSeqProperties
<1>6. Written(c) = [k \in 1..q |-> c.values[k]]
  BY <1>5
<1> QED BY <1>1, <1>2, <1>3, <1>5, <1>6 DEF S, limit

\* The registers of a call that are sent are its values: putRegistersIntoBuffer() stops
\* at the limit of the coils, which is beyond that of the registers.
LEMMA RegistersSent ==
  ASSUME NEW S, NEW values \in Seq(S), NEW q \in Nat, q <= Len(values),
         q <= MaxRegistersForWrite
  PROVE  SubSeq(PutRegistersIntoBuffer(values), 1, q) = [k \in 1..q |-> values[k]]
<1> DEFINE n == AtMost(Len(values), MaxCoilsForWrite + 2)
           put == SubSeq(values, 1, n)
<1>1. Len(values) \in Nat /\ MaxCoilsForWrite \in Nat /\ MaxRegistersForWrite \in Nat
  BY LimitsAssumption
<1>2. n \in Nat /\ n <= Len(values) /\ q <= n
  BY <1>1, WriteLimitsAssumption DEF AtMost
<1>3. PutRegistersIntoBuffer(values) = put
  BY DEF PutRegistersIntoBuffer
<1> HIDE DEF n
<1>4. put \in Seq(S) /\ Len(put) = n /\ \A k \in 1..n : put[k] = values[k]
  BY <1>1, <1>2, SubSeqProperties
<1> HIDE DEF put
<1>5. /\ SubSeq(put, 1, q) \in Seq(S) /\ Len(SubSeq(put, 1, q)) = q
      /\ \A k \in 1..q : SubSeq(put, 1, q)[k] = put[k]
  BY <1>2, <1>4, SubSeqProperties
<1>6. \A k \in 1..q : SubSeq(put, 1, q)[k] = values[k]
  BY <1>2, <1>4, <1>5
<1>7. SubSeq(put, 1, q) = [k \in 1..q |-> values[k]]
  BY <1>5, <1>6
<1> QED BY <1>3, <1>7

\* The values of a call that go into bytes come out as they were: putCoilsIntoBuffer()
\* gives up two values past the limit, and sends the bytes of those within it.
LEMMA CoilsSent ==
  ASSUME NEW values \in Seq(BOOLEAN), NEW q \in Nat, q <= Len(values), q <= MaxCoilsForWrite
  PROVE  LET data == SubSeq(PutCoilsIntoBuffer(values), 1, BytesFor(q))
         IN  /\ data \in Bytes
             /\ \A k \in 1..q : (k - 1) % Bits \in data[(k - 1) \div Bits + 1] <=> values[k]
<1> DEFINE put == PutCoilsIntoBuffer(values)
           data == SubSeq(put, 1, BytesFor(q))
           n == Len(values)
<1>1. n \in Nat /\ MaxCoilsForWrite \in Nat
  BY LimitsAssumption
<1>2. BytesFor(n) \in Nat /\ BytesFor(q) \in Nat /\ BytesFor(q) <= BytesFor(n)
  BY <1>1, BytesHold
<1>3. put \in [1..BytesFor(n) -> SUBSET (0..(Bits - 1))]
  BY DEF PutCoilsIntoBuffer
<1>4. put \in Bytes /\ Len(put) = BytesFor(n)
  BY <1>2, <1>3 DEF Bytes
<1>5. AtMost(n, MaxCoilsForWrite + 2) \in Nat /\ q <= AtMost(n, MaxCoilsForWrite + 2)
  BY <1>1 DEF AtMost
<1>6. \A b \in 1..BytesFor(n) :
        put[b] = {i \in 0..(Bits - 1) : (b - 1) * Bits + i < AtMost(n, MaxCoilsForWrite + 2)
                                        /\ values[(b - 1) * Bits + i + 1]}
  BY DEF PutCoilsIntoBuffer
<1> HIDE DEF put
<1>7. data \in Bytes /\ \A b \in 1..BytesFor(q) : data[b] = put[b]
  BY <1>2, <1>4, SubSeqProperties DEF Bytes
<1> HIDE DEF data
<1>8. ASSUME NEW k \in 1..q
      PROVE  (k - 1) % Bits \in data[(k - 1) \div Bits + 1] <=> values[k]
  <2> DEFINE b == (k - 1) \div Bits + 1
             i == (k - 1) % Bits
  <2>1. b \in 1..BytesFor(q) /\ i \in 0..(Bits - 1) /\ (b - 1) * Bits + i = k - 1
    <3>1. /\ (k - 1) \div Bits + 1 \in 1..BytesFor(q)
          /\ (k - 1) % Bits \in 0..(Bits - 1)
          /\ ((k - 1) \div Bits) * Bits + ((k - 1) % Bits) = k - 1
      BY BytesHold
    <3>2. (k - 1) \div Bits \in Int
      BY BitsAssumption
    <3>3. ((k - 1) \div Bits + 1) - 1 = (k - 1) \div Bits
      BY <3>2
    <3> QED BY <3>1, <3>3
  <2> HIDE DEF b, i
  <2>2. b \in 1..BytesFor(n) /\ data[b] = put[b]
    BY <2>1, <1>2, <1>7
  <2>3. (b - 1) * Bits + i < AtMost(n, MaxCoilsForWrite + 2) /\ (b - 1) * Bits + i + 1 = k
    BY <2>1, <1>5
  <2>4. i \in data[b] <=> values[k]
    BY <2>1, <2>2, <2>3, <1>6
  <2> QED BY <2>4 DEF b, i
<1> QED BY <1>7, <1>8 DEF data, put

-----------------------------------------------------------------------------
(* Requests, and what they stand for.                                      *)

\* A cell of a table.
Cell(t) == IF t \in {"coils", "inputs"} THEN BOOLEAN ELSE Words

\* r is, by its fields, the request that c makes.
Asks(r, c) ==
  LET q == RequestOf(c)
  IN  r.fn = q.fn /\ r.start = q.start /\ r.qty = q.qty /\ r.data = q.data

\* A request has the function and the first cell of its call; one that writes stands for
\* as many cells as are written, and for their values.
LEMMA RequestFacts ==
  ASSUME NEW c, IsCall(c, Words), NEW r, Asks(r, c)
  PROVE  /\ r.fn = c.fn /\ r.fn \in Codes /\ r.start \in Nat /\ r.qty \in Nat
         /\ r.fn \in WriteFunctions =>
              /\ CellsIn(r) = Written(c) /\ r.qty = Len(Written(c))
              /\ \A k \in 1..r.qty : CellsIn(r)[k] \in Cell(Table[r.fn])
<1>1. /\ c.fn \in ReadFunctions \cup WriteFunctions /\ c.start \in Nat /\ c.qty \in Nat
  BY DEF IsCall
<1>2. CASE c.fn \in ReadFunctions
  <2>1. \A limit \in Nat : AtMost(c.qty, limit) \in Nat
    BY <1>1 DEF AtMost
  <2>2. r.fn = c.fn /\ r.start = c.start /\ r.qty \in Nat
    BY <1>2, <2>1, LimitsAssumption
       DEF Asks, RequestOf, ReadFunctions, ReadCoils, ReadDescreteInputs, ReadHoldingRegisters,
           ReadInputRegisters, Request
  <2> QED BY <2>2, <1>1, <1>2 DEF Codes, ReadFunctions, WriteFunctions
<1>3. CASE c.fn \in WriteFunctions
  <2> DEFINE S == IF OfBits(c.fn) THEN BOOLEAN ELSE Words
             w == Written(c)
  <2>1. /\ c.values \in Seq(S) /\ w \in Seq(S)
        /\ Len(w) \in Nat /\ Len(w) <= Len(c.values)
        /\ Len(w) <= IF OfBits(c.fn) THEN MaxCoilsForWrite ELSE MaxRegistersForWrite
        /\ w = [k \in 1..Len(w) |-> c.values[k]]
    BY <1>3, WrittenValues
  <2>2. S = Cell(Table[c.fn])
    BY DEF OfBits, Cell
  <2> HIDE DEF S, w
  <2>3. CASE c.fn = "WRITE_MULTIPLE_COILS"
    <3>1. /\ r.fn = c.fn /\ r.start = c.start /\ r.qty = Len(w)
          /\ r.data = SubSeq(PutCoilsIntoBuffer(c.values), 1, BytesFor(Len(w)))
      BY <2>3 DEF Asks, RequestOf, WriteMultipleCoils, Request, w
    <3>2. OfBits(c.fn) /\ S = BOOLEAN
      BY <2>3 DEF OfBits, Table, S
    <3>3. \A k \in 1..Len(w) : (k - 1) % Bits \in r.data[(k - 1) \div Bits + 1] <=> c.values[k]
      BY <2>1, <3>1, <3>2, CoilsSent
    <3>4. CellsIn(r) = [k \in 1..Len(w) |-> (k - 1) % Bits \in r.data[(k - 1) \div Bits + 1]]
      BY <3>1, <3>2, <2>3 DEF CellsIn
    <3>5. \A k \in 1..Len(w) : c.values[k] \in BOOLEAN
      BY <2>1, <3>2
    <3>6. CellsIn(r) = [k \in 1..Len(w) |-> c.values[k]]
      BY <3>3, <3>4, <3>5
    <3>7. CellsIn(r) = w
      BY <3>6, <2>1
    <3> QED BY <3>1, <3>5, <3>6, <3>7, <3>2, <2>2, <2>1, <1>1, <2>3 DEF Codes, w
  <2>4. CASE c.fn # "WRITE_MULTIPLE_COILS"
    <3>1. r.fn = c.fn /\ r.start = c.start /\ r.qty = Len(w) /\ r.data = w
      <4>1. CASE c.fn = "WRITE_MULTIPLE_REGISTERS"
        <5>1. /\ r.fn = c.fn /\ r.start = c.start /\ r.qty = Len(w)
              /\ r.data = SubSeq(PutRegistersIntoBuffer(c.values), 1, Len(w))
          BY <4>1 DEF Asks, RequestOf, WriteMultipleRegisters, Request, w
        <5>2. ~OfBits(c.fn)
          BY <4>1 DEF OfBits, Table
        <5> QED BY <5>1, <5>2, <2>1, RegistersSent
      <4>2. CASE c.fn \in {"WRITE_SINGLE_COIL", "WRITE_SINGLE_REGISTER"}
        <5>1. Len(c.values) = 1
          BY <4>2, <1>3 DEF IsCall
        <5>2. Len(w) = 1
          <6>1. \A limit \in Nat \ {0} : AtMost(1, limit) = 1
            BY DEF AtMost
          <6>2. w = SubSeq(c.values, 1, 1)
            BY <6>1, <5>1, LimitsAssumption DEF w, Written
          <6> QED BY <6>2, <5>1, <2>1, SubSeqProperties
        <5>3. w = c.values
          BY <2>1, <5>1, <5>2
        <5> QED BY <4>2, <5>2, <5>3 DEF Asks, RequestOf, WriteSingleCoil, WriteSingleRegister, Request
      <4> QED BY <4>1, <4>2, <2>4, <1>3 DEF WriteFunctions
    <3>2. CellsIn(r) = w
      <4>1. OfBits(r.fn) => r.fn = "WRITE_SINGLE_COIL"
        BY <3>1, <2>4, <1>3 DEF OfBits, WriteFunctions, Table
      <4> QED BY <4>1, <3>1 DEF CellsIn
    <3>3. \A k \in 1..Len(w) : w[k] \in S
      BY <2>1
    <3> QED BY <3>1, <3>2, <3>3, <2>1, <2>2, <1>1 DEF Codes, w
  <2> QED BY <2>3, <2>4
<1> QED BY <1>1, <1>2, <1>3

-----------------------------------------------------------------------------
(* The types of what is on the line.                                       *)

Requests ==
  {r \in [n : Nat, tid : Nat, live : BOOLEAN, fn : Codes, start : Nat, qty : Nat,
          data : {RequestOf(c).data : c \in AllCalls}] :
     \E c \in AllCalls : Asks(r, c)}

Rows == Seq(BOOLEAN) \cup Seq(Words)
Answers == [n : Nat, fn : Codes \cup {"garbage"}, exc : BOOLEAN, data : Bytes \cup Rows,
            cells : Rows, tid : Nat, bad : BOOLEAN]

MemoryOK ==
  /\ memory \in [Tables -> [0..(Size - 1) -> BOOLEAN \cup Words]]
  /\ \A t \in Tables : memory[t] \in [0..(Size - 1) -> Cell(t)]

\* A request executed leaves the tables tables; one that writes leaves its values there.
LEMMA ExecutedFacts ==
  ASSUME MemoryOK, NEW r \in Requests
  PROVE  /\ Executed(r) \in [Tables -> [0..(Size - 1) -> BOOLEAN \cup Words]]
         /\ \A t \in Tables : Executed(r)[t] \in [0..(Size - 1) -> Cell(t)]
         /\ Legal(r) => /\ \A k \in 1..r.qty : r.start + k - 1 \in 0..(Size - 1)
                        /\ r.fn \in WriteFunctions =>
                             \A k \in 1..r.qty :
                               Executed(r)[Table[r.fn]][r.start + k - 1] = CellsIn(r)[k]
<1> DEFINE t == Table[r.fn]
           row == [a \in 0..(Size - 1) |->
                    IF a \in r.start..(r.start + r.qty - 1) THEN CellsIn(r)[a - r.start + 1]
                                                          ELSE memory[t][a]]
<1>0. PICK c \in AllCalls : Asks(r, c)
  BY DEF Requests
<1>1. /\ r.fn \in Codes /\ r.start \in Nat /\ r.qty \in Nat /\ t \in Tables
      /\ r.fn \in WriteFunctions => \A k \in 1..r.qty : CellsIn(r)[k] \in Cell(t)
  BY <1>0, CallsAssumption, RequestFacts, TablesOfCodes
<1>2. ASSUME r.fn \in WriteFunctions
      PROVE  row \in [0..(Size - 1) -> Cell(t)]
  <2> SUFFICES ASSUME NEW a \in 0..(Size - 1) PROVE row[a] \in Cell(t)
    OBVIOUS
  <2>1. CASE a \in r.start..(r.start + r.qty - 1)
    <3>1. a - r.start + 1 \in 1..r.qty
      BY <2>1, <1>1
    <3> QED BY <3>1, <2>1, <1>1, <1>2
  <2>2. CASE a \notin r.start..(r.start + r.qty - 1)
    BY <2>2, <1>1 DEF MemoryOK
  <2> QED BY <2>1, <2>2
<1>3. \A u \in Tables : Cell(u) \subseteq BOOLEAN \cup Words
  BY DEF Cell
<1>4. Executed(r) = IF Legal(r) /\ r.fn \in WriteFunctions THEN [memory EXCEPT ![t] = row]
                                                          ELSE memory
  BY DEF Executed
<1> HIDE DEF t
<1>5. Executed(r) \in [Tables -> [0..(Size - 1) -> BOOLEAN \cup Words]]
  <2>1. r.fn \in WriteFunctions => row \in [0..(Size - 1) -> BOOLEAN \cup Words]
    BY <1>1, <1>2, <1>3
  <2> HIDE DEF row
  <2> QED BY <2>1, <1>4 DEF MemoryOK
<1>6. ASSUME NEW u \in Tables PROVE Executed(r)[u] \in [0..(Size - 1) -> Cell(u)]
  <2> HIDE DEF row
  <2> QED BY <1>1, <1>2, <1>4 DEF MemoryOK
<1>7. Legal(r) => \A k \in 1..r.qty : r.start + k - 1 \in 0..(Size - 1)
  BY <1>1, SizesAssumption DEF Legal
<1>8. ASSUME Legal(r), r.fn \in WriteFunctions, NEW k \in 1..r.qty
      PROVE  Executed(r)[t][r.start + k - 1] = CellsIn(r)[k]
  <2>1. /\ r.start + k - 1 \in 0..(Size - 1)
        /\ r.start + k - 1 \in r.start..(r.start + r.qty - 1)
        /\ (r.start + k - 1) - r.start + 1 = k
    BY <1>1, <1>7, <1>8
  <2>2. row[r.start + k - 1] = CellsIn(r)[k]
    BY <2>1
  <2>3. Executed(r)[t] = row
    <3> HIDE DEF row
    <3> QED BY <1>4, <1>8, <1>1 DEF MemoryOK
  <2> QED BY <2>2, <2>3
<1> QED BY <1>5, <1>6, <1>7, <1>8 DEF t

\* An answer is of its request: its number, identifier and function; and unless it is an
\* exception its data, taken apart as the client does, are the cells that were read, and
\* the cells that were written have the values that the call gave.
LEMMA AnswerFacts ==
  ASSUME MemoryOK, NEW r \in Requests
  PROVE  LET a == AnswerTo(r)
         IN  /\ a \in Answers
             /\ a.n = r.n /\ a.tid = r.tid /\ a.fn = r.fn /\ a.bad = FALSE
             /\ ~a.exc =>
                  /\ r.fn \in ReadFunctions =>
                       /\ OfBits(r.fn) => GetCoilsFromBuffer(a.data, r.qty) = a.cells
                       /\ ~OfBits(r.fn) =>
                            \A beyond : GetRegistersFromBuffer(a.data, r.qty, beyond) = a.cells
                  /\ r.fn \in WriteFunctions => a.cells = [k \in 1..r.qty |-> CellsIn(r)[k]]
<1> DEFINE a == AnswerTo(r)
           t == Table[r.fn]
           cells == [k \in 1..r.qty |-> Executed(r)[t][r.start + k - 1]]
           data == IF r.fn \notin ReadFunctions THEN <<>>
                   ELSE IF OfBits(r.fn) THEN Packed(cells, r.qty) ELSE cells
<1>1. /\ r.n \in Nat /\ r.tid \in Nat /\ r.fn \in Codes /\ r.qty \in Nat /\ t \in Tables
  BY TablesOfCodes DEF Requests
<1>2. CASE ~Legal(r)
  <2>1. a = [n |-> r.n, fn |-> r.fn, exc |-> TRUE, data |-> <<>>, cells |-> <<>>, tid |-> r.tid,
             bad |-> FALSE]
    BY <1>2 DEF AnswerTo, NoAnswer
  <2>2. <<>> \in Rows
    BY DEF Rows
  <2> QED BY <2>1, <2>2, <1>1 DEF Answers
<1>3. CASE Legal(r)
  <2>1. a = [n |-> r.n, fn |-> r.fn, exc |-> FALSE, data |-> data, cells |-> cells, tid |-> r.tid,
             bad |-> FALSE]
    BY <1>3 DEF AnswerTo, NoAnswer, Packed
  <2>2. cells \in [1..r.qty -> Cell(t)]
    <3>1. \A k \in 1..r.qty : r.start + k - 1 \in 0..(Size - 1)
      BY <1>3, ExecutedFacts
    <3>2. Executed(r)[t] \in [0..(Size - 1) -> Cell(t)]
      BY <1>1, ExecutedFacts
    <3> HIDE DEF t
    <3> QED BY <3>1, <3>2
  <2>3. OfBits(r.fn) <=> Cell(t) = BOOLEAN /\ t \in {"coils", "inputs"}
    BY DEF OfBits, Cell
  <2>4. ~OfBits(r.fn) => Cell(t) = Words
    BY DEF OfBits, Cell
  <2>5. r.fn \in WriteFunctions => cells = [k \in 1..r.qty |-> CellsIn(r)[k]]
    BY <1>3, ExecutedFacts
  <2> HIDE DEF cells, a
  <2>6. cells \in Rows /\ (~OfBits(r.fn) => cells \in Seq(Words)) /\ Len(cells) = r.qty
    BY <2>2, <2>3, <2>4, <1>1 DEF Rows
  <2>7. OfBits(r.fn) => /\ Packed(cells, r.qty) \in Bytes
                       /\ GetCoilsFromBuffer(Packed(cells, r.qty), r.qty) = cells
    BY <2>2, <2>3, <1>1, CoilsBack
  <2>8. data \in Bytes \cup Rows
    BY <2>6, <2>7 DEF Rows
  <2>9. \A beyond : GetRegistersFromBuffer(cells, r.qty, beyond) = cells
    <3>1. \A k \in 1..r.qty : k <= Len(cells)
      BY <2>6, <1>1
    <3>2. \A beyond : GetRegistersFromBuffer(cells, r.qty, beyond) = [k \in 1..r.qty |-> cells[k]]
      BY <3>1 DEF GetRegistersFromBuffer
    <3>3. [k \in 1..r.qty |-> cells[k]] = cells
      BY <2>2
    <3> QED BY <3>2, <3>3
  <2> HIDE DEF data
  <2>10. a \in Answers
    BY <2>1, <2>6, <2>8, <1>1 DEF Answers
  <2>11. r.fn \in ReadFunctions =>
           /\ OfBits(r.fn) => GetCoilsFromBuffer(data, r.qty) = cells
           /\ ~OfBits(r.fn) => \A beyond : GetRegistersFromBuffer(data, r.qty, beyond) = cells
    BY <2>7, <2>9 DEF data
  <2> QED BY <2>1, <2>5, <2>10, <2>11 DEF a
<1> QED BY <1>2, <1>3

\* A damaged answer keeps its number and its identifier.
LEMMA DamagedFacts ==
  ASSUME NEW a \in Answers, a.fn \in Codes, NEW d \in Damaged(a)
  PROVE  d \in Answers /\ d.n = a.n /\ d.tid = a.tid /\ d.bad = TRUE /\ d.exc = a.exc
<1>1. PICK f \in {a.fn, "garbage"} : d = [a EXCEPT !.bad = TRUE, !.data = <<>>, !.fn = f]
  BY DEF Damaged
<1>2. <<>> \in Bytes
  BY DEF Bytes
<1> QED BY <1>1, <1>2 DEF Answers

-----------------------------------------------------------------------------
(* The types of the variables.                                             *)

Flags ==
  /\ autoConnect \in BOOLEAN /\ opened \in BOOLEAN /\ reported \in BOOLEAN
  /\ inSilence \in BOOLEAN /\ quiet \in BOOLEAN /\ overlap \in BOOLEAN
  /\ fresh \in BOOLEAN /\ abandoned \in BOOLEAN

ClientOK ==
  /\ kind \in {"tcp", "rtu"} /\ phase \in Phases
  /\ call \in AllCalls /\ calls \in 0..Len(Calls) /\ tid \in 0..MaxTid
  /\ phase # "idle" => calls > 0

SilenceOK == young \in Nat /\ due \in Nat

\* Requests and answers are of calls that were made; a call that reads has something to
\* read, because data that came in was noticed.
LineOK ==
  /\ toSlave \in Seq(Requests) /\ inbox \in Seq(Answers)
  /\ \A i \in DOMAIN toSlave : toSlave[i].n \in 1..calls
  /\ \A i \in DOMAIN inbox : inbox[i].n \in 1..calls
  /\ fresh \/ phase = "reading" => inbox # <<>>
  /\ MemoryOK

Types == ClientOK /\ SilenceOK /\ LineOK

\* The initial values.
LEMMA TypesInit == Init => Types
<1> SUFFICES ASSUME Init PROVE Types
  OBVIOUS
<1>1. ClientOK
  <2>1. Len(Calls) \in Nat /\ 1 \in DOMAIN Calls
    BY CallsAssumption
  <2>2. \A c \in Calls[1] : c \in AllCalls
    BY <2>1 DEF AllCalls
  <2>3. call \in Calls[1]
    BY CallsAssumption DEF Init
  <2>4. call \in AllCalls
    BY <2>2, <2>3
  <2> QED BY <2>1, <2>4, SizesAssumption DEF Init, ClientOK, Phases
<1>2. SilenceOK
  BY DEF Init, SilenceOK
<1>3. MemoryOK
  <2>1. (CHOOSE w \in Words : TRUE) \in Words
    BY WordsAssumption
  <2>2. ASSUME NEW t \in Tables
        PROVE  memory[t] \in [0..(Size - 1) -> Cell(t)]
    <3>1. memory[t] = [a \in 0..(Size - 1) |->
                        IF t \in {"coils", "inputs"} THEN a % 3 # 1 ELSE CHOOSE w \in Words : TRUE]
      BY DEF Init
    <3>2. CASE t \in {"coils", "inputs"}
      BY <3>1, <3>2 DEF Cell
    <3>3. CASE t \notin {"coils", "inputs"}
      BY <3>1, <3>3, <2>1 DEF Cell
    <3> QED BY <3>2, <3>3
  <2>3. \A t \in Tables : Cell(t) \subseteq BOOLEAN \cup Words
    BY DEF Cell
  <2>4. \A t \in Tables : memory[t] \in [0..(Size - 1) -> BOOLEAN \cup Words]
    BY <2>2, <2>3
  <2>5. memory = [t \in Tables |-> memory[t]]
    BY DEF Init
  <2> QED BY <2>2, <2>4, <2>5 DEF MemoryOK
<1>4. LineOK
  <2>1. toSlave = <<>> /\ inbox = <<>> /\ fresh = FALSE /\ phase = "idle"
    BY DEF Init
  <2> QED BY <2>1, <1>3 DEF LineOK
<1> QED BY <1>1, <1>2, <1>4 DEF Types

\* The silence state and its shots, and what a call that returns does to them.
LEMMA SilenceTypes ==
  ASSUME SilenceOK
  PROVE  /\ StartSilence => SilenceOK'
         /\ \A r : Returns(r) => SilenceOK' /\ phase' = "idle" /\ result' = r
<1>1. ASSUME StartSilence PROVE SilenceOK'
  <2>1. PICK k \in 0..young :
          /\ inSilence' = TRUE
          /\ young' = young - k + 1 /\ due' = due + k
          /\ quiet' = FALSE
          /\ overlap' = (young + due > 0)
    BY <1>1 DEF StartSilence
  <2>2. young' \in Nat /\ due' \in Nat
    BY <2>1 DEF SilenceOK
  <2> QED BY <2>1, <2>2 DEF SilenceOK
<1>2. UNCHANGED silenceVars => SilenceOK'
  BY DEF SilenceOK, silenceVars
<1> QED BY <1>1, <1>2 DEF Returns

\* The steps of a call but the request and the answer, those of the user and the timers.
LEMMA TypesQuiet ==
  ASSUME Types,
         \/ \E c \in AllCalls : BeginCall(c)
         \/ EndSilence \/ OpenForCall \/ ReadTimeout \/ ReadyRead
         \/ OpenByUser \/ NoticedIdle \/ ShotRunsOut \/ SilencePasses \/ StopSilence
  PROVE  Types'
<1>ty. ClientOK /\ SilenceOK /\ LineOK
  BY DEF Types
<1>m. UNCHANGED memory => (MemoryOK <=> MemoryOK')
  BY DEF MemoryOK
<1>o. \A x : x = Prepared.phase => x \in {"writing", "opening"}
  BY DEF Prepared
<1>1. ASSUME NEW c \in AllCalls, BeginCall(c)
      PROVE  Types'
  <2>1. /\ call' = c /\ calls' = calls + 1 /\ calls < Len(Calls) /\ reported' = FALSE
        /\ phase' \in {"undefined", "silent", "writing", "opening"}
        /\ UNCHANGED <<kind, autoConnect, opened, tid, silenceVars, lineVars>>
    BY <1>1, <1>o DEF BeginCall
  <2>2. Len(Calls) \in Nat
    BY CallsAssumption
  <2>3. ClientOK'
    BY <2>1, <2>2, <1>ty DEF ClientOK, Phases, lineVars
  <2>4. SilenceOK'
    BY <2>1, <1>ty DEF SilenceOK, silenceVars
  <2>5. LineOK'
    <3>1. \A n \in 1..calls : n \in 1..calls'
      BY <2>1, <1>ty DEF ClientOK
    <3> QED BY <3>1, <2>1, <1>ty, <1>m DEF LineOK, lineVars
  <2> QED BY <2>3, <2>4, <2>5 DEF Types
<1>2. CASE EndSilence
  <2>1. /\ young' = 0 /\ due' = due + young
        /\ phase = "silent" /\ phase' \in {"writing", "opening"}
        /\ UNCHANGED <<kind, call, calls, tid, lineVars>>
    BY <1>2, <1>o DEF EndSilence
  <2>2. SilenceOK'
    BY <2>1, <1>ty DEF SilenceOK
  <2> QED BY <2>1, <2>2, <1>ty, <1>m DEF Types, ClientOK, LineOK, Phases, lineVars
<1>3. ASSUME Opens, phase' = "idle" \/ (phase = "opening" /\ phase' = "writing")
      PROVE  Types'
  <2>1. /\ opened' = TRUE /\ inbox' = <<>> /\ fresh' = FALSE
        /\ (tid' = 0 /\ abandoned' = FALSE) \/ UNCHANGED <<tid, abandoned>>
        /\ UNCHANGED <<kind, autoConnect, call, calls, reported, silenceVars, toSlave, memory>>
    BY <1>3 DEF Opens, ConnectToServer, OpenPort
  <2>2. SilenceOK'
    BY <2>1, <1>ty DEF SilenceOK, silenceVars
  <2>3. ClientOK'
    BY <2>1, <1>3, <1>ty, SizesAssumption DEF ClientOK, Phases
  <2>4. LineOK'
    BY <2>1, <1>3, <1>ty, <1>m DEF LineOK
  <2> QED BY <2>2, <2>3, <2>4 DEF Types
<1>4. CASE OpenForCall
  <2>1. CASE Opens /\ phase' = "writing"
    BY <2>1, <1>3, <1>4 DEF OpenForCall
  <2>2. CASE /\ phase' = "idle"
             /\ UNCHANGED <<kind, autoConnect, call, calls, opened, tid, reported, result,
                            silenceVars, lineVars>>
    BY <2>2, <1>ty, <1>m DEF Types, ClientOK, SilenceOK, LineOK, Phases, lineVars, silenceVars
  <2> QED BY <1>4, <2>1, <2>2 DEF OpenForCall
<1>5. CASE ReadTimeout
  <2>1. /\ SilenceOK' /\ phase' = "idle" /\ abandoned' = TRUE
        /\ UNCHANGED <<kind, autoConnect, call, calls, opened, tid, reported, toSlave, inbox, fresh,
                       memory>>
    BY <1>5, <1>ty, SilenceTypes DEF ReadTimeout
  <2> QED BY <2>1, <1>ty, <1>m DEF Types, ClientOK, LineOK, Phases
<1>6. CASE ReadyRead
  <2>1. /\ fresh /\ phase' = "reading"
        /\ UNCHANGED <<kind, autoConnect, call, calls, opened, tid, reported, silenceVars, lineVars>>
    BY <1>6 DEF ReadyRead
  <2> QED BY <2>1, <1>ty, <1>m DEF Types, ClientOK, SilenceOK, LineOK, Phases, lineVars, silenceVars
<1>7. CASE OpenByUser
  <2>1. phase' = "idle" /\ Opens
    BY <1>7 DEF OpenByUser
  <2> QED BY <2>1, <1>3
<1>8. CASE NoticedIdle
  <2>1. /\ fresh' = FALSE /\ phase = "idle"
        /\ UNCHANGED <<kind, clientVars, silenceVars, toSlave, inbox, memory, abandoned>>
    BY <1>8 DEF NoticedIdle
  <2> QED BY <2>1, <1>ty, <1>m DEF Types, ClientOK, SilenceOK, LineOK, clientVars, silenceVars
<1>9. CASE ShotRunsOut \/ SilencePasses \/ StopSilence
  <2>1. /\ UNCHANGED <<kind, clientVars, lineVars>>
        /\ young' \in Nat /\ due' \in Nat
    BY <1>9, <1>ty DEF ShotRunsOut, SilencePasses, StopSilence, SilenceOK
  <2>2. SilenceOK'
    BY <2>1, <1>ty DEF SilenceOK
  <2>3. ClientOK' /\ LineOK'
    BY <2>1, <1>ty, <1>m DEF ClientOK, LineOK, clientVars, lineVars
  <2> QED BY <2>2, <2>3 DEF Types
<1> QED BY <1>1, <1>2, <1>4, <1>5, <1>6, <1>7, <1>8, <1>9

\* What a request is made of.
LEMMA ADUFacts ==
  ASSUME call \in AllCalls, calls \in Nat, tid' \in Nat
  PROVE  /\ ADU \in Requests /\ ADU.n = calls /\ ADU.tid = tid' /\ ADU.live = TRUE
         /\ Asks(ADU, call)
<1> DEFINE r == RequestOf(call)
<1>1. ADU = [n |-> calls, tid |-> tid', live |-> TRUE,
             fn |-> r.fn, start |-> r.start, qty |-> r.qty, data |-> r.data]
  BY DEF ADU
<1> HIDE DEF r
<1>2. ADU.fn = r.fn /\ ADU.start = r.start /\ ADU.qty = r.qty /\ ADU.data = r.data
  BY <1>1
<1>3. Asks(ADU, call)
  BY <1>2 DEF Asks, r
<1>4. ADU.fn \in Codes /\ ADU.start \in Nat /\ ADU.qty \in Nat
  BY <1>3, CallsAssumption, RequestFacts
<1>5. r.data \in {RequestOf(c).data : c \in AllCalls}
  BY DEF r
<1> QED BY <1>1, <1>2, <1>3, <1>4, <1>5 DEF Requests

\* The step that sends a request.
LEMMA TypesWrite ==
  ASSUME Types, Write
  PROVE  Types'
<1>ty. ClientOK /\ SilenceOK /\ LineOK
  BY DEF Types
<1>1. /\ phase = "writing"
      /\ tid' \in {tid, NewTransactionID}
      /\ UNCHANGED <<kind, autoConnect, call, calls, opened, reported, inbox, memory>>
  BY DEF Write, TcpPrepareADU, RtuPrepareADU
<1>2. /\ (\E r : Returns(r)) \/ (phase' = "waiting" /\ UNCHANGED silenceVars)
      /\ toSlave' \in {toSlave, Append(toSlave, ADU)}
      /\ fresh' \in {fresh, FALSE}
  BY DEF Write
<1>3. tid' \in 0..MaxTid
  BY <1>1, <1>ty, SizesAssumption DEF ClientOK, NewTransactionID
<1>4. phase' \in Phases /\ phase' # "reading" /\ SilenceOK'
  BY <1>2, <1>ty, SilenceTypes DEF Phases, SilenceOK, silenceVars
<1>5. ADU \in Requests /\ ADU.n = calls
  BY <1>3, <1>ty, ADUFacts DEF ClientOK
<1>6. toSlave' \in Seq(Requests) /\ \A i \in DOMAIN toSlave' : toSlave'[i].n \in 1..calls'
  <2>1. CASE toSlave' = toSlave
    BY <2>1, <1>1, <1>ty DEF LineOK
  <2>2. CASE toSlave' = Append(toSlave, ADU)
    <3>1. calls \in 1..calls
      BY <1>1, <1>ty DEF ClientOK
    <3>2. \A i \in DOMAIN toSlave' : toSlave'[i] = ADU \/ \E j \in DOMAIN toSlave : toSlave'[i] = toSlave[j]
      BY <2>2, <1>5, <1>ty DEF LineOK
    <3> QED BY <3>1, <3>2, <2>2, <1>1, <1>5, <1>ty DEF LineOK
  <2> QED BY <2>1, <2>2, <1>2
<1>7. MemoryOK'
  BY <1>1, <1>ty DEF LineOK, MemoryOK
<1>8. fresh' \/ phase' = "reading" => inbox' # <<>>
  <2>1. fresh' => fresh
    BY <1>2
  <2> QED BY <2>1, <1>1, <1>4, <1>ty DEF LineOK
<1>9. ClientOK'
  <2>1. calls > 0
    BY <1>1, <1>ty DEF ClientOK
  <2> QED BY <2>1, <1>1, <1>3, <1>4, <1>ty DEF ClientOK
<1>10. LineOK'
  BY <1>1, <1>6, <1>7, <1>8, <1>ty DEF LineOK
<1> QED BY <1>4, <1>9, <1>10 DEF Types

\* The step that takes what has come in.
LEMMA TypesRead ==
  ASSUME Types, ReadResponse
  PROVE  Types'
<1>ty. ClientOK /\ SilenceOK /\ LineOK
  BY DEF Types
<1>1. /\ phase = "reading" /\ inbox' = <<>> /\ fresh' = FALSE
      /\ UNCHANGED <<kind, autoConnect, call, calls, opened, tid, toSlave, memory>>
  BY DEF ReadResponse, ReadAll
<1>2. \E r : Returns(r)
  BY DEF ReadResponse
<1>3. phase' = "idle" /\ SilenceOK'
  BY <1>2, <1>ty, SilenceTypes
<1>4. ClientOK'
  BY <1>1, <1>3, <1>ty DEF ClientOK, Phases
<1>5. LineOK'
  BY <1>1, <1>3, <1>ty DEF LineOK, MemoryOK
<1> QED BY <1>3, <1>4, <1>5 DEF Types

\* The slave, the line and the end of a connection.
LEMMA TypesLine ==
  ASSUME Types, SlaveServes \/ RequestLost \/ Closes
  PROVE  Types'
<1>ty. ClientOK /\ SilenceOK /\ LineOK
  BY DEF Types
<1>t. ASSUME toSlave # <<>>, toSlave' = Tail(toSlave)
      PROVE  toSlave' \in Seq(Requests) /\ \A i \in DOMAIN toSlave' : toSlave'[i].n \in 1..calls
  <2>1. toSlave' \in Seq(Requests) /\ DOMAIN toSlave' = 1..(Len(toSlave) - 1) /\ Len(toSlave) \in Nat
        /\ DOMAIN toSlave = 1..Len(toSlave)
    BY <1>t, <1>ty DEF LineOK
  <2>2. \A i \in DOMAIN toSlave' : toSlave'[i] = toSlave[i + 1] /\ i + 1 \in DOMAIN toSlave
    BY <2>1, <1>t, <1>ty DEF LineOK
  <2> QED BY <2>1, <2>2, <1>ty DEF LineOK
<1>1. CASE SlaveServes
  <2> DEFINE r == Head(toSlave)
  <2>1. /\ toSlave # <<>> /\ toSlave' = Tail(toSlave) /\ memory' = Executed(r)
        /\ UNCHANGED <<kind, clientVars, silenceVars, abandoned>>
    BY <1>1 DEF SlaveServes
  <2>2. r \in Requests /\ r.n \in 1..calls /\ r.fn \in Codes
    BY <2>1, <1>ty DEF LineOK, Requests
  <2>3. /\ AnswerTo(r) \in Answers /\ AnswerTo(r).n = r.n /\ AnswerTo(r).fn = r.fn
    BY <2>2, <1>ty, AnswerFacts DEF LineOK
  <2>4. \/ UNCHANGED <<inbox, fresh>>
        \/ \E a \in {AnswerTo(r)} \cup Damaged(AnswerTo(r)) : inbox' = Append(inbox, a)
    BY <1>1 DEF SlaveServes
  <2> HIDE DEF r
  <2>5. \A a \in {AnswerTo(r)} \cup Damaged(AnswerTo(r)) : a \in Answers /\ a.n \in 1..calls
    BY <2>2, <2>3, DamagedFacts
  <2>6. /\ inbox' \in Seq(Answers) /\ \A i \in DOMAIN inbox' : inbox'[i].n \in 1..calls
        /\ fresh' \/ phase = "reading" => inbox' # <<>>
    <3>1. CASE UNCHANGED <<inbox, fresh>>
      BY <3>1, <1>ty DEF LineOK
    <3>2. ASSUME NEW a \in {AnswerTo(r)} \cup Damaged(AnswerTo(r)), inbox' = Append(inbox, a)
          PROVE  /\ inbox' \in Seq(Answers) /\ \A i \in DOMAIN inbox' : inbox'[i].n \in 1..calls
                 /\ inbox' # <<>>
      <4>1. a \in Answers /\ a.n \in 1..calls
        BY <2>5
      <4>2. \A i \in DOMAIN inbox' : inbox'[i] = a \/ \E j \in DOMAIN inbox : inbox'[i] = inbox[j]
        BY <3>2, <4>1, <1>ty DEF LineOK
      <4> QED BY <3>2, <4>1, <4>2, <1>ty DEF LineOK
    <3> QED BY <3>1, <3>2, <2>4
  <2>7. MemoryOK'
    BY <2>1, <2>2, <1>ty, ExecutedFacts DEF LineOK, MemoryOK, r
  <2>8. ClientOK' /\ SilenceOK' /\ phase' = phase /\ calls' = calls
    BY <2>1, <1>ty DEF ClientOK, SilenceOK, clientVars, silenceVars
  <2>9. toSlave' \in Seq(Requests) /\ \A i \in DOMAIN toSlave' : toSlave'[i].n \in 1..calls
    BY <2>1, <1>t
  <2> QED BY <2>6, <2>7, <2>8, <2>9 DEF Types, LineOK
<1>2. CASE RequestLost
  <2>1. /\ toSlave # <<>> /\ toSlave' = Tail(toSlave)
        /\ UNCHANGED <<kind, clientVars, silenceVars, inbox, fresh, memory, abandoned>>
    BY <1>2 DEF RequestLost
  <2>2. toSlave' \in Seq(Requests) /\ \A i \in DOMAIN toSlave' : toSlave'[i].n \in 1..calls
    BY <2>1, <1>t
  <2>3. ClientOK' /\ SilenceOK'
    BY <2>1, <1>ty DEF ClientOK, SilenceOK, clientVars, silenceVars
  <2>4. LineOK'
    BY <2>1, <2>2, <1>ty DEF LineOK, MemoryOK, clientVars
  <2> QED BY <2>3, <2>4 DEF Types
<1>3. CASE Closes
  <2>1. /\ opened' = FALSE
        /\ UNCHANGED <<kind, autoConnect, phase, call, calls, tid, reported, result, silenceVars,
                       inbox, fresh, memory, abandoned>>
        /\ \/ toSlave' = [i \in DOMAIN toSlave |-> [toSlave[i] EXCEPT !.live = FALSE]]
           \/ UNCHANGED toSlave
    BY <1>3 DEF Closes, DisconnectFromServer, SetPortName
  <2>2. ASSUME NEW q \in Requests
        PROVE  [q EXCEPT !.live = FALSE] \in Requests /\ [q EXCEPT !.live = FALSE].n = q.n
    <3> DEFINE d == [q EXCEPT !.live = FALSE]
    <3>1. PICK c \in AllCalls : Asks(q, c)
      BY DEF Requests
    <3>2. /\ d.n = q.n /\ d.fn = q.fn /\ d.start = q.start /\ d.qty = q.qty /\ d.data = q.data
          /\ d \in [n : Nat, tid : Nat, live : BOOLEAN, fn : Codes, start : Nat, qty : Nat,
                    data : {RequestOf(e).data : e \in AllCalls}]
      BY DEF Requests
    <3> HIDE DEF d
    <3>3. Asks(d, c)
      BY <3>1, <3>2 DEF Asks
    <3> QED BY <3>2, <3>3 DEF Requests, d
  <2>3. toSlave' \in Seq(Requests) /\ \A i \in DOMAIN toSlave' : toSlave'[i].n \in 1..calls
    <3>1. CASE UNCHANGED toSlave
      BY <3>1, <1>ty DEF LineOK
    <3>2. CASE toSlave' = [i \in DOMAIN toSlave |-> [toSlave[i] EXCEPT !.live = FALSE]]
      <4>1. DOMAIN toSlave = 1..Len(toSlave) /\ Len(toSlave) \in Nat
            /\ \A i \in DOMAIN toSlave : toSlave[i] \in Requests /\ toSlave[i].n \in 1..calls
        BY <1>ty DEF LineOK
      <4>2. \A i \in 1..Len(toSlave) : toSlave'[i] \in Requests /\ toSlave'[i].n \in 1..calls
        BY <3>2, <4>1, <2>2
      <4> QED BY <3>2, <4>1, <4>2
    <3> QED BY <2>1, <3>1, <3>2
  <2>4. ClientOK' /\ SilenceOK'
    BY <2>1, <1>ty DEF ClientOK, SilenceOK, silenceVars
  <2>5. LineOK'
    BY <2>1, <2>3, <1>ty DEF LineOK, MemoryOK
  <2> QED BY <2>4, <2>5 DEF Types
<1> QED BY <1>1, <1>2, <1>3

\* Every step keeps the types.
LEMMA TypesStep == Types /\ [Next]_vars => Types'
<1> SUFFICES ASSUME Types, [Next]_vars PROVE Types'
  OBVIOUS
<1>1. CASE UNCHANGED vars
  BY <1>1 DEF vars, clientVars, silenceVars, lineVars, Types, ClientOK, SilenceOK, LineOK, MemoryOK
<1>2. CASE Next
  BY <1>2, TypesQuiet, TypesWrite, TypesRead, TypesLine DEF Next, CallStep
<1> QED BY <1>1, <1>2

\* The flags are flags.
LEMMA FlagsReturn ==
  ASSUME Flags, NEW r, Returns(r)
  PROVE  inSilence' \in BOOLEAN /\ quiet' \in BOOLEAN /\ overlap' \in BOOLEAN
<1>1. CASE StartSilence
  <2>1. inSilence' = TRUE /\ quiet' = FALSE /\ overlap' = (young + due > 0)
    BY <1>1 DEF StartSilence
  <2>2. (young + due > 0) \in BOOLEAN
    OBVIOUS
  <2> QED BY <2>1, <2>2
<1>2. CASE UNCHANGED silenceVars
  BY <1>2 DEF silenceVars, Flags
<1> QED BY <1>1, <1>2 DEF Returns

\* Every step keeps the flags flags.
LEMMA FlagsStep == Flags /\ [Next]_vars => Flags'
<1> SUFFICES ASSUME Flags, [Next]_vars PROVE Flags'
  OBVIOUS
<1>1. CASE \E c \in AllCalls : BeginCall(c)
  BY <1>1 DEF BeginCall, Flags, silenceVars, lineVars
<1>2. CASE EndSilence
  BY <1>2 DEF EndSilence, Flags, lineVars
<1>3. CASE Opens
  <2>1. opened' = TRUE /\ fresh' = FALSE /\ UNCHANGED <<autoConnect, reported, silenceVars>>
    BY <1>3 DEF Opens
  <2>2. abandoned' = FALSE \/ UNCHANGED abandoned
    BY <1>3 DEF Opens, ConnectToServer, OpenPort
  <2> QED BY <2>1, <2>2 DEF Flags, silenceVars
<1>4. CASE OpenForCall
  <2>1. CASE UNCHANGED <<kind, autoConnect, call, calls, opened, tid, reported, result,
                         silenceVars, lineVars>>
    BY <2>1 DEF Flags, silenceVars, lineVars
  <2> QED BY <1>3, <1>4, <2>1 DEF OpenForCall
<1>5. CASE Write
  <2>1. UNCHANGED <<autoConnect, opened, reported>> /\ fresh' \in {fresh, FALSE}
        /\ abandoned' \in {abandoned, TRUE}
    BY <1>5 DEF Write
  <2>2. (\E r : Returns(r)) \/ UNCHANGED silenceVars
    BY <1>5 DEF Write
  <2>3. inSilence' \in BOOLEAN /\ quiet' \in BOOLEAN /\ overlap' \in BOOLEAN
    BY <2>2, FlagsReturn DEF silenceVars, Flags
  <2> QED BY <2>1, <2>3 DEF Flags
<1>6. CASE ReadTimeout
  BY <1>6, FlagsReturn DEF ReadTimeout, Flags
<1>7. CASE ReadyRead
  BY <1>7 DEF ReadyRead, Flags, silenceVars, lineVars
<1>8. CASE ReadResponse
  <2>1. /\ UNCHANGED <<autoConnect, opened>> /\ fresh' = FALSE
        /\ reported' = ProcessADU(inbox).wrong
        /\ abandoned' = (abandoned \/ ProcessADU(inbox).answer.n # calls)
        /\ \E r : Returns(r)
    BY <1>8 DEF ReadResponse, ReadAll
  <2>2. ProcessADU(inbox).wrong \in BOOLEAN
    <3>1. CASE kind = "tcp"
      <4>1. ProcessADU(inbox).wrong = FALSE
        BY <3>1 DEF ProcessADU, TcpProcessADU
      <4> QED BY <4>1
    <3>2. CASE kind # "tcp"
      <4>1. ProcessADU(inbox).wrong = Faulty(inbox)
        BY <3>2 DEF ProcessADU, RtuProcessADU
      <4>2. Faulty(inbox) \in BOOLEAN
        BY DEF Faulty
      <4> QED BY <4>1, <4>2
    <3> QED BY <3>1, <3>2
  <2>3. (abandoned \/ ProcessADU(inbox).answer.n # calls) \in BOOLEAN
    OBVIOUS
  <2>4. reported' \in BOOLEAN /\ abandoned' \in BOOLEAN
    BY <2>1, <2>2, <2>3
  <2>5. inSilence' \in BOOLEAN /\ quiet' \in BOOLEAN /\ overlap' \in BOOLEAN
    BY <2>1, FlagsReturn
  <2> QED BY <2>1, <2>4, <2>5 DEF Flags
<1>9. CASE OpenByUser
  BY <1>3, <1>9 DEF OpenByUser
<1>10. CASE Closes
  <2>1. opened' = FALSE /\ UNCHANGED <<autoConnect, reported, silenceVars, fresh, abandoned>>
    BY <1>10 DEF Closes
  <2> QED BY <2>1 DEF Flags, silenceVars
<1>11. CASE NoticedIdle
  <2>1. fresh' = FALSE /\ UNCHANGED <<clientVars, silenceVars, abandoned>>
    BY <1>11 DEF NoticedIdle
  <2> QED BY <2>1 DEF Flags, clientVars, silenceVars
<1>12. CASE ShotRunsOut \/ SilencePasses \/ StopSilence
  <2>1. /\ inSilence' \in {inSilence, FALSE} /\ quiet' \in {quiet, TRUE} /\ UNCHANGED overlap
        /\ UNCHANGED <<clientVars, lineVars>>
    BY <1>12 DEF ShotRunsOut, SilencePasses, StopSilence
  <2> QED BY <2>1 DEF Flags, clientVars, lineVars
<1>13. CASE SlaveServes \/ RequestLost
  <2>1. fresh' \in {fresh, TRUE} /\ UNCHANGED <<clientVars, silenceVars, abandoned>>
    BY <1>13 DEF SlaveServes, RequestLost
  <2> QED BY <2>1 DEF Flags, clientVars, silenceVars
<1>14. CASE UNCHANGED vars
  BY <1>14 DEF vars, Flags, clientVars, silenceVars, lineVars
<1> QED BY <1>1, <1>2, <1>4, <1>5, <1>6, <1>7, <1>8, <1>9, <1>10, <1>11, <1>12, <1>13, <1>14
        DEF Next, CallStep

\* The client and the line keep to their types, and a call that reads has something to
\* read.
THEOREM ModbusTypeCorrect == Spec => []TypeOK
<1>1. Init => Flags
  <2> SUFFICES ASSUME Init PROVE Flags
    OBVIOUS
  <2>1. /\ opened = FALSE /\ reported = FALSE /\ inSilence = FALSE /\ quiet = TRUE
        /\ overlap = FALSE /\ fresh = FALSE /\ abandoned = FALSE
    BY DEF Init
  <2>2. autoConnect = TRUE \/ autoConnect = (kind = "rtu")
    BY DEF Init
  <2> QED BY <2>1, <2>2 DEF Flags
<1>2. Types /\ Flags => TypeOK
  <2> SUFFICES ASSUME Types, Flags PROVE TypeOK
    OBVIOUS
  <2>1. {inSilence, quiet, overlap, fresh, abandoned} \subseteq BOOLEAN
    BY DEF Flags
  <2>2. autoConnect \in BOOLEAN /\ opened \in BOOLEAN /\ reported \in BOOLEAN
    BY DEF Flags
  <2> QED BY <2>1, <2>2 DEF Types, ClientOK, SilenceOK, LineOK, TypeOK
<1> QED BY <1>1, <1>2, TypesInit, TypesStep, FlagsStep, PTL DEF Spec

-----------------------------------------------------------------------------
(* The silence of the serial line.                                         *)

\* Until silenceTime_ has passed the silence state is on and its one shot runs, unless
\* shots were left from an earlier silence.
SilenceInv ==
  kind = "rtu" =>
    \/ quiet \/ overlap
    \/ inSilence /\ young <= 1 /\ due = 0 /\ phase \in {"idle", "silent", "undefined"}

\* The end of a call starts the state and its shot.
LEMMA SilenceStarts ==
  ASSUME SilenceOK, StartSilence, phase' = "idle"
  PROVE  SilenceInv'
<1>1. PICK k \in 0..young :
        /\ inSilence' = TRUE
        /\ young' = young - k + 1 /\ due' = due + k
        /\ overlap' = (young + due > 0)
  BY DEF StartSilence
<1>2. CASE young + due > 0
  BY <1>1, <1>2 DEF SilenceInv
<1>3. CASE ~(young + due > 0)
  <2>1. young = 0 /\ due = 0
    BY <1>3 DEF SilenceOK
  <2>2. young' <= 1 /\ due' = 0
    BY <2>1, <1>1
  <2> QED BY <2>2, <1>1 DEF SilenceInv
<1> QED BY <1>2, <1>3

\* Every step keeps it.
LEMMA SilenceStep == Types /\ SilenceInv /\ [Next]_vars => SilenceInv'
<1> SUFFICES ASSUME Types, SilenceInv, [Next]_vars PROVE SilenceInv'
  OBVIOUS
<1>ty. SilenceOK /\ kind' = kind
  BY DEF Types, Next, vars, CallStep, BeginCall, EndSilence, OpenForCall, Write, ReadTimeout,
     ReadyRead, ReadResponse, OpenByUser, Opens, Closes, NoticedIdle, ShotRunsOut, SilencePasses,
     StopSilence, SlaveServes, RequestLost
<1>1. ASSUME NEW r, Returns(r) PROVE SilenceInv'
  BY <1>1, <1>ty, SilenceStarts DEF Returns, SilenceInv
<1>2. CASE \E c \in AllCalls : BeginCall(c)
  <2>1. UNCHANGED silenceVars /\ (kind = "rtu" /\ inSilence => phase' \in {"silent", "undefined"})
    BY <1>2 DEF BeginCall
  <2> QED BY <2>1, <1>ty DEF SilenceInv, silenceVars
<1>3. CASE EndSilence
  BY <1>3 DEF EndSilence, SilenceInv
<1>4. CASE UNCHANGED silenceVars /\ (phase' = phase \/ phase \notin {"idle", "silent", "undefined"})
  BY <1>4, <1>ty DEF SilenceInv, silenceVars
<1>5. CASE OpenForCall \/ ReadyRead
  BY <1>4, <1>5 DEF OpenForCall, ReadyRead, Opens
<1>6. CASE Write
  BY <1>1, <1>4, <1>6 DEF Write
<1>7. CASE ReadTimeout \/ ReadResponse
  BY <1>1, <1>7 DEF ReadTimeout, ReadResponse
<1>8. CASE OpenByUser \/ Closes \/ NoticedIdle \/ SlaveServes \/ RequestLost \/ UNCHANGED vars
  BY <1>4, <1>8
     DEF OpenByUser, Opens, Closes, NoticedIdle, SlaveServes, RequestLost, vars, clientVars
<1>9. CASE ShotRunsOut
  <2>1. young > 1 /\ UNCHANGED <<quiet, overlap>>
    BY <1>9 DEF ShotRunsOut
  <2>2. kind = "rtu" => quiet \/ overlap
    BY <2>1, <1>ty DEF SilenceInv, SilenceOK
  <2> QED BY <2>1, <2>2, <1>ty DEF SilenceInv
<1>10. CASE SilencePasses
  BY <1>10 DEF SilencePasses, SilenceInv
<1>11. CASE StopSilence
  <2>1. due > 0 /\ UNCHANGED <<quiet, overlap>>
    BY <1>11 DEF StopSilence
  <2>2. kind = "rtu" => quiet \/ overlap
    BY <2>1, <1>ty DEF SilenceInv, SilenceOK
  <2> QED BY <2>1, <2>2, <1>ty DEF SilenceInv
<1> QED BY <1>2, <1>3, <1>5, <1>6, <1>7, <1>8, <1>9, <1>10, <1>11 DEF Next, CallStep

\* No frame goes out on a serial line that has not been silent since the last one, but
\* for a silence that the shot of an earlier one cuts short.
THEOREM ModbusSilenceKept == Spec => []SilenceKept
<1>1. Init => SilenceInv
  BY DEF Init, SilenceInv
<1>2. SilenceInv => SilenceKept
  BY DEF SilenceInv, SilenceKept
<1> QED BY <1>1, <1>2, TypesInit, TypesStep, SilenceStep, PTL DEF Spec

-----------------------------------------------------------------------------
(* What is in flight between the calls.                                    *)

Awaiting == phase \in {"waiting", "reading"}

\* Nothing is opened twice, and what was sent over a connection that is gone will not
\* be answered.
OpenInv ==
  /\ phase = "opening" => ~opened
  /\ kind = "tcp" /\ ~opened => \A i \in DOMAIN toSlave : ~toSlave[i].live

\* As long as no answer was given up on, one request or one answer is in flight at most,
\* and it is of the call that waits for it.
FlightInv ==
  ~abandoned =>
    /\ \A i \in DOMAIN toSlave :
         toSlave[i].live => Awaiting /\ toSlave[i].n = calls /\ inbox = <<>>
    /\ \A i, j \in DOMAIN toSlave : toSlave[i].live /\ toSlave[j].live => i = j
    /\ inbox # <<>> => Awaiting /\ Len(inbox) = 1 /\ inbox[1].n = calls

\* The values that an answer gives the call c are those of the slave's cells.
Truthful(a, c) ==
  ~a.bad /\ ~a.exc =>
    /\ c.fn \in ReadFunctions =>
         \A beyond : ValuesOf(RequestOf(c), a.data, beyond) = a.cells
    /\ c.fn \in WriteFunctions => a.cells = Written(c)

\* What is in flight with the number of the call is its request, or a true answer to it.
AnswerInv ==
  /\ \A i \in DOMAIN toSlave : toSlave[i].n = calls => Asks(toSlave[i], call)
  /\ \A i \in DOMAIN inbox : inbox[i].n = calls => Truthful(inbox[i], call)

\* Over TCP no frame is damaged.
WholeInv == kind = "tcp" => \A i \in DOMAIN inbox : ~inbox[i].bad

LineInv == OpenInv /\ FlightInv /\ AnswerInv /\ WholeInv

\* A request taken from the line leaves those behind it, in their order.
LEMMA TailOfLine ==
  ASSUME NEW S, NEW q \in Seq(S), q # <<>>
  PROVE  /\ 1 \in DOMAIN q /\ Head(q) = q[1] /\ Head(q) \in S
         /\ \A i \in DOMAIN Tail(q) : i + 1 \in DOMAIN q /\ i + 1 # 1 /\ Tail(q)[i] = q[i + 1]
OBVIOUS

\* What is added to the line is behind what was there.
LEMMA EndOfLine ==
  ASSUME NEW S, NEW q \in Seq(S), NEW e \in S
  PROVE  /\ \A i \in DOMAIN Append(q, e) :
              (i \in DOMAIN q /\ Append(q, e)[i] = q[i]) \/ (i \notin DOMAIN q /\ i = Len(q) + 1 /\ Append(q, e)[i] = e)
         /\ Len(Append(q, e)) = Len(q) + 1 /\ (q = <<>> => Append(q, e)[1] = e /\ Len(Append(q, e)) = 1)
OBVIOUS

\* An answer to the request of a call is true.
LEMMA AnswerTruthful ==
  ASSUME MemoryOK, NEW r \in Requests, NEW c \in AllCalls, Asks(r, c)
  PROVE  Truthful(AnswerTo(r), c)
<1> DEFINE a == AnswerTo(r)
<1>1. IsCall(c, Words)
  BY CallsAssumption
<1>2. /\ r.fn = c.fn /\ r.qty \in Nat
      /\ r.fn \in WriteFunctions => CellsIn(r) = Written(c) /\ r.qty = Len(Written(c))
  BY <1>1, RequestFacts
<1>3. ~a.exc =>
        /\ r.fn \in ReadFunctions =>
             /\ OfBits(r.fn) => GetCoilsFromBuffer(a.data, r.qty) = a.cells
             /\ ~OfBits(r.fn) =>
                  \A beyond : GetRegistersFromBuffer(a.data, r.qty, beyond) = a.cells
        /\ r.fn \in WriteFunctions => a.cells = [k \in 1..r.qty |-> CellsIn(r)[k]]
  BY AnswerFacts
<1> HIDE DEF a
<1>4. RequestOf(c).fn = r.fn /\ RequestOf(c).qty = r.qty
  BY DEF Asks
<1>5. ~a.exc /\ c.fn \in ReadFunctions =>
        \A beyond : ValuesOf(RequestOf(c), a.data, beyond) = a.cells
  BY <1>2, <1>3, <1>4 DEF ValuesOf
<1>6. ~a.exc /\ c.fn \in WriteFunctions => a.cells = Written(c)
  <2>1. c.fn \in WriteFunctions => Written(c) = [k \in 1..Len(Written(c)) |-> c.values[k]]
    BY <1>1, WrittenValues
  <2>2. c.fn \in WriteFunctions => Written(c) = [k \in 1..r.qty |-> Written(c)[k]]
    BY <2>1, <1>2
  <2> QED BY <2>2, <1>2, <1>3
<1> QED BY <1>5, <1>6 DEF Truthful, a

\* Between calls, and on the way to its request, a call changes nothing on the line but
\* its own number, which nothing in flight has yet.
LEMMA LineBegin ==
  ASSUME Types, LineInv, NEW c \in AllCalls, BeginCall(c)
  PROVE  LineInv'
<1>ty. ClientOK /\ LineOK
  BY DEF Types
<1>1. /\ phase = "idle" /\ calls' = calls + 1
      /\ phase' \in {"undefined", "silent", Prepared.phase}
      /\ UNCHANGED <<kind, autoConnect, opened, tid, lineVars>>
  BY DEF BeginCall
<1>2. Prepared.phase = IF opened \/ (kind = "tcp" /\ ~autoConnect) THEN "writing" ELSE "opening"
  BY DEF Prepared
<1>3. OpenInv'
  BY <1>1, <1>2 DEF LineInv, OpenInv, lineVars
<1>4. FlightInv'
  BY <1>1 DEF LineInv, FlightInv, Awaiting, lineVars
<1>5. AnswerInv'
  <2>1. \A n \in 1..calls : n # calls'
    BY <1>1, <1>ty DEF ClientOK
  <2> QED BY <2>1, <1>1, <1>ty DEF LineOK, AnswerInv, lineVars
<1>6. WholeInv'
  BY <1>1 DEF LineInv, WholeInv, lineVars
<1> QED BY <1>3, <1>4, <1>5, <1>6 DEF LineInv

\* Steps that leave the line alone.
LEMMA LineIdle ==
  ASSUME LineInv, UNCHANGED <<kind, call, calls, opened, toSlave, inbox, abandoned>>,
         phase' = "opening" => phase' = phase \/ ~opened,
         Awaiting => Awaiting' \/ abandoned
  PROVE  LineInv'
<1>1. OpenInv'
  BY DEF LineInv, OpenInv
<1>2. FlightInv'
  BY DEF LineInv, FlightInv
<1>3. AnswerInv' /\ WholeInv'
  BY DEF LineInv, AnswerInv, WholeInv
<1> QED BY <1>1, <1>2, <1>3 DEF LineInv

\* A connection made anew has nothing of the old one to come; a port opened again may.
LEMMA LineOpens ==
  ASSUME LineInv, Opens, ~opened, phase \in {"idle", "opening"}, phase' \in {"idle", "writing"}
  PROVE  LineInv'
<1>1. /\ opened' = TRUE /\ inbox' = <<>>
      /\ UNCHANGED <<kind, call, calls, toSlave>>
      /\ kind = "tcp" \/ UNCHANGED abandoned
  BY DEF Opens, ConnectToServer, OpenPort
<1>2. OpenInv'
  BY <1>1 DEF OpenInv
<1>3. FlightInv'
  <2>1. CASE kind = "tcp"
    <3>1. \A i \in DOMAIN toSlave : ~toSlave[i].live
      BY <2>1 DEF LineInv, OpenInv
    <3> QED BY <3>1, <1>1 DEF FlightInv
  <2>2. CASE UNCHANGED abandoned
    BY <2>2, <1>1 DEF LineInv, FlightInv, Awaiting
  <2> QED BY <1>1, <2>1, <2>2
<1>4. AnswerInv' /\ WholeInv'
  BY <1>1 DEF LineInv, AnswerInv, WholeInv
<1> QED BY <1>2, <1>3, <1>4 DEF LineInv

\* A request sent is the only one in flight unless one was given up on.
LEMMA LineSends ==
  ASSUME Types, LineInv, phase = "writing", tid' \in Nat, opened,
         toSlave' = Append(toSlave, ADU),
         abandoned' = TRUE \/ (phase' = "waiting" /\ abandoned' = abandoned),
         phase' \in {"idle", "waiting"},
         UNCHANGED <<kind, call, calls, opened, inbox>>
  PROVE  LineInv'
<1>ty. ClientOK /\ LineOK /\ toSlave \in Seq(Requests)
  BY DEF Types, LineOK
<1>1. /\ ADU \in Requests /\ ADU.n = calls /\ Asks(ADU, call)
  BY <1>ty, ADUFacts DEF ClientOK
<1>2. \A i \in DOMAIN toSlave' :
        \/ i \in DOMAIN toSlave /\ toSlave'[i] = toSlave[i]
        \/ i \notin DOMAIN toSlave /\ i = Len(toSlave) + 1 /\ toSlave'[i] = ADU
  BY <1>1, <1>ty, EndOfLine
<1>3. OpenInv'
  BY DEF OpenInv
<1>4. FlightInv'
  <2> SUFFICES ASSUME ~abandoned', ~abandoned, phase' = "waiting"
               PROVE  FlightInv'
    BY DEF FlightInv
  <2>1. /\ \A i \in DOMAIN toSlave : ~toSlave[i].live
        /\ inbox = <<>>
    BY DEF LineInv, FlightInv, Awaiting
  <2>2. Awaiting'
    BY DEF Awaiting
  <2>3. \A i \in DOMAIN toSlave' : toSlave'[i].live => toSlave'[i] = ADU /\ i = Len(toSlave) + 1
    BY <2>1, <1>2
  <2> QED BY <2>1, <2>2, <2>3, <1>1 DEF FlightInv
<1>5. AnswerInv'
  BY <1>1, <1>2 DEF LineInv, AnswerInv
<1>6. WholeInv'
  BY DEF LineInv, WholeInv
<1> QED BY <1>3, <1>4, <1>5, <1>6 DEF LineInv

\* A call that gives up leaves its answer to whoever reads next.
LEMMA LineTimeout ==
  ASSUME LineInv, abandoned', phase' = "idle",
         UNCHANGED <<kind, call, calls, opened, toSlave, inbox>>
  PROVE  LineInv'
<1>1. OpenInv' /\ FlightInv'
  BY DEF LineInv, OpenInv, FlightInv
<1>2. AnswerInv' /\ WholeInv'
  BY DEF LineInv, AnswerInv, WholeInv
<1> QED BY <1>1, <1>2 DEF LineInv

\* A call that reads takes all that is there, and knows when it was not its own.
LEMMA LineRead ==
  ASSUME Types, LineInv, ReadResponse, phase' = "idle"
  PROVE  LineInv'
<1>1. /\ inbox' = <<>> /\ phase = "reading"
      /\ UNCHANGED <<kind, call, calls, opened, toSlave>>
      /\ abandoned => abandoned'
  BY DEF ReadResponse, ReadAll
<1>2. OpenInv'
  BY <1>1 DEF LineInv, OpenInv
<1>3. FlightInv'
  <2>1. inbox # <<>>
    BY <1>1 DEF Types, LineOK
  <2>2. ~abandoned => \A i \in DOMAIN toSlave : ~toSlave[i].live
    BY <2>1 DEF LineInv, FlightInv
  <2> QED BY <2>2, <1>1 DEF FlightInv
<1>4. AnswerInv' /\ WholeInv'
  BY <1>1 DEF LineInv, AnswerInv, WholeInv
<1> QED BY <1>2, <1>3, <1>4 DEF LineInv

\* A request lost, or served without an answer, leaves less in flight.
LEMMA LineTaken ==
  ASSUME Types, LineInv, toSlave # <<>>, toSlave' = Tail(toSlave),
         UNCHANGED <<kind, phase, call, calls, opened, inbox, abandoned>>
  PROVE  LineInv'
<1>1. toSlave \in Seq(Requests)
  BY DEF Types, LineOK
<1>2. \A i \in DOMAIN toSlave' : i + 1 \in DOMAIN toSlave /\ toSlave'[i] = toSlave[i + 1]
  BY <1>1, TailOfLine
<1>3. OpenInv'
  BY <1>2 DEF LineInv, OpenInv
<1>4. FlightInv'
  <2> SUFFICES ASSUME ~abandoned PROVE FlightInv'
    BY DEF FlightInv
  <2>1. ASSUME NEW i \in DOMAIN toSlave', NEW j \in DOMAIN toSlave',
               toSlave'[i].live, toSlave'[j].live
        PROVE  i = j
    <3>1. i + 1 = j + 1 /\ i \in Int /\ j \in Int
      BY <1>1, <1>2, <2>1 DEF LineInv, FlightInv
    <3> QED BY <3>1
  <2> QED BY <1>2, <2>1 DEF LineInv, FlightInv, Awaiting
<1>5. AnswerInv' /\ WholeInv'
  BY <1>2 DEF LineInv, AnswerInv, WholeInv
<1> QED BY <1>3, <1>4, <1>5 DEF LineInv

\* An answer that arrives takes the place of its request.
LEMMA LineServes ==
  ASSUME Types, LineInv, SlaveServes
  PROVE  LineInv'
<1> DEFINE r == Head(toSlave)
           arrives == {AnswerTo(r)} \cup IF kind = "rtu" THEN Damaged(AnswerTo(r)) ELSE {}
<1>ty. LineOK /\ toSlave \in Seq(Requests) /\ inbox \in Seq(Answers) /\ MemoryOK /\ call \in AllCalls
  BY DEF Types, LineOK, ClientOK
<1>1. /\ toSlave # <<>> /\ toSlave' = Tail(toSlave)
      /\ UNCHANGED <<kind, phase, call, calls, opened, abandoned>>
  BY DEF SlaveServes, clientVars
<1>2. \/ UNCHANGED inbox
      \/ opened /\ r.live /\ \E a \in arrives : inbox' = Append(inbox, a)
  BY DEF SlaveServes
<1>3. CASE UNCHANGED inbox
  BY <1>1, <1>3, LineTaken
<1>4. ASSUME r.live, NEW a \in arrives, inbox' = Append(inbox, a)
      PROVE  LineInv'
  <2>1. r \in Requests /\ 1 \in DOMAIN toSlave /\ r = toSlave[1]
    BY <1>1, <1>ty, TailOfLine
  <2>2. /\ AnswerTo(r) \in Answers /\ AnswerTo(r).n = r.n /\ AnswerTo(r).fn = r.fn
        /\ AnswerTo(r).bad = FALSE /\ r.fn \in Codes
    BY <2>1, <1>ty, AnswerFacts DEF Requests
  <2>3. r.n = calls => Truthful(AnswerTo(r), call)
    BY <2>1, <1>ty, AnswerTruthful DEF LineInv, AnswerInv
  <2> HIDE DEF r
  <2>4. /\ a \in Answers /\ a.n = r.n /\ (kind = "tcp" => a.bad = FALSE)
        /\ a = AnswerTo(r) \/ a.bad = TRUE
    <3>1. a = AnswerTo(r) \/ (kind = "rtu" /\ a \in Damaged(AnswerTo(r)))
      OBVIOUS
    <3>2. a \in Damaged(AnswerTo(r)) => a \in Answers /\ a.n = r.n /\ a.bad = TRUE
      BY <2>2, DamagedFacts
    <3> QED BY <3>1, <3>2, <2>2
  <2>5. r.n = calls => Truthful(a, call)
    BY <2>3, <2>4 DEF Truthful
  <2>6. \A i \in DOMAIN toSlave' : i + 1 \in DOMAIN toSlave /\ i + 1 # 1 /\ toSlave'[i] = toSlave[i + 1]
    BY <1>1, <1>ty, TailOfLine
  <2>7. /\ \A i \in DOMAIN inbox' : (i \in DOMAIN inbox /\ inbox'[i] = inbox[i]) \/ inbox'[i] = a
        /\ inbox = <<>> => inbox'[1] = a /\ Len(inbox') = 1
    BY <1>4, <2>4, <1>ty, EndOfLine
  <2>8. OpenInv'
    BY <2>6, <1>1 DEF LineInv, OpenInv
  <2>9. FlightInv'
    <3> SUFFICES ASSUME ~abandoned PROVE FlightInv'
      BY <1>1 DEF FlightInv
    <3>1. Awaiting /\ r.n = calls /\ inbox = <<>>
      BY <2>1, <1>4 DEF LineInv, FlightInv
    <3>2. \A i \in DOMAIN toSlave' : ~toSlave'[i].live
      BY <2>1, <2>6, <1>4 DEF LineInv, FlightInv
    <3>3. Awaiting'
      BY <3>1, <1>1 DEF Awaiting
    <3> QED BY <3>1, <3>2, <3>3, <2>4, <2>7, <1>1 DEF FlightInv
  <2>10. AnswerInv'
    BY <2>4, <2>5, <2>6, <2>7, <1>1 DEF LineInv, AnswerInv
  <2>11. WholeInv'
    BY <2>4, <2>7, <1>1 DEF LineInv, WholeInv
  <2> QED BY <2>8, <2>9, <2>10, <2>11 DEF LineInv
<1> QED BY <1>2, <1>3, <1>4

\* A connection that ends ends the requests on it.
LEMMA LineCloses ==
  ASSUME Types, LineInv, Closes
  PROVE  LineInv'
<1>1. /\ opened' = FALSE
      /\ UNCHANGED <<kind, phase, call, calls, inbox, abandoned>>
      /\ \/ toSlave' = [i \in DOMAIN toSlave |-> [toSlave[i] EXCEPT !.live = FALSE]]
         \/ kind = "rtu" /\ UNCHANGED toSlave
  BY DEF Closes, DisconnectFromServer, SetPortName
<1>2. CASE kind = "rtu" /\ UNCHANGED toSlave
  BY <1>1, <1>2 DEF LineInv, OpenInv, FlightInv, AnswerInv, WholeInv, Awaiting
<1>3. CASE toSlave' = [i \in DOMAIN toSlave |-> [toSlave[i] EXCEPT !.live = FALSE]]
  <2>1. DOMAIN toSlave' = DOMAIN toSlave
    BY <1>3
  <2>2. ASSUME NEW i \in DOMAIN toSlave
        PROVE  /\ toSlave'[i].live = FALSE /\ toSlave'[i].n = toSlave[i].n
               /\ toSlave'[i].fn = toSlave[i].fn /\ toSlave'[i].start = toSlave[i].start
               /\ toSlave'[i].qty = toSlave[i].qty /\ toSlave'[i].data = toSlave[i].data
    <3>1. toSlave[i] \in Requests
      BY DEF Types, LineOK
    <3>2. toSlave'[i] = [toSlave[i] EXCEPT !.live = FALSE]
      BY <1>3
    <3> QED BY <3>1, <3>2 DEF Requests
  <2>3. OpenInv' /\ FlightInv'
    BY <2>1, <2>2, <1>1 DEF LineInv, OpenInv, FlightInv, Awaiting
  <2>4. AnswerInv' /\ WholeInv'
    BY <2>1, <2>2, <1>1 DEF LineInv, AnswerInv, WholeInv, Asks
  <2> QED BY <2>3, <2>4 DEF LineInv
<1> QED BY <1>1, <1>2, <1>3

\* Every step keeps it.
LEMMA LineStep == Types /\ LineInv /\ [Next]_vars => LineInv'
<1> SUFFICES ASSUME Types, LineInv, [Next]_vars PROVE LineInv'
  OBVIOUS
<1>1. ASSUME NEW c \in AllCalls, BeginCall(c) PROVE LineInv'
  BY <1>1, LineBegin
<1>2. CASE EndSilence
  <2>1. Prepared.phase = "opening" => ~opened
    BY DEF Prepared
  <2>2. /\ UNCHANGED <<kind, call, calls, opened, toSlave, inbox, abandoned>>
        /\ phase = "silent" /\ phase' = Prepared.phase
    BY <1>2 DEF EndSilence, lineVars
  <2>3. ~Awaiting
    BY <2>2 DEF Awaiting
  <2> QED BY <2>1, <2>2, <2>3, LineIdle
<1>3. CASE OpenForCall
  <2>1. phase = "opening" /\ ~opened /\ ~Awaiting
    BY <1>3 DEF OpenForCall, LineInv, OpenInv, Awaiting
  <2>2. CASE Opens /\ phase' = "writing"
    BY <2>1, <2>2, LineOpens
  <2>3. CASE /\ phase' = "idle"
             /\ UNCHANGED <<kind, call, calls, opened, lineVars>>
    BY <2>1, <2>3, LineIdle DEF lineVars
  <2> QED BY <1>3, <2>2, <2>3 DEF OpenForCall
<1>4. CASE Write
  <2>1. /\ phase = "writing" /\ UNCHANGED <<kind, call, calls, opened, inbox>>
        /\ tid' \in {tid, NewTransactionID}
    BY <1>4 DEF Write, TcpPrepareADU, RtuPrepareADU
  <2>2. tid' \in Nat
    BY <2>1, SizesAssumption DEF Types, ClientOK, NewTransactionID
  <2>3. \/ phase' = "idle" /\ UNCHANGED <<toSlave, abandoned>>
        \/ /\ opened /\ toSlave' = Append(toSlave, ADU)
           /\ \/ phase' = "idle" /\ abandoned' = TRUE
              \/ phase' = "waiting" /\ UNCHANGED abandoned
    BY <1>4 DEF Write, Returns
  <2>4. ~Awaiting
    BY <2>1 DEF Awaiting
  <2>5. CASE phase' = "idle" /\ UNCHANGED <<toSlave, abandoned>>
    BY <2>1, <2>4, <2>5, LineIdle
  <2>6. CASE /\ opened /\ toSlave' = Append(toSlave, ADU)
             /\ \/ phase' = "idle" /\ abandoned' = TRUE
                \/ phase' = "waiting" /\ UNCHANGED abandoned
    BY <2>1, <2>2, <2>6, LineSends
  <2> QED BY <2>3, <2>5, <2>6
<1>5. CASE ReadTimeout
  <2>1. abandoned' /\ phase' = "idle" /\ UNCHANGED <<kind, call, calls, opened, toSlave, inbox>>
    BY <1>5 DEF ReadTimeout, Returns
  <2> QED BY <2>1, LineTimeout
<1>6. CASE ReadyRead
  <2>1. phase' = "reading" /\ UNCHANGED <<kind, call, calls, opened, toSlave, inbox, abandoned>>
    BY <1>6 DEF ReadyRead, lineVars
  <2>2. Awaiting'
    BY <2>1 DEF Awaiting
  <2> QED BY <2>1, <2>2, LineIdle
<1>7. CASE ReadResponse
  <2>1. phase' = "idle"
    BY <1>7 DEF ReadResponse, Returns
  <2> QED BY <1>7, <2>1, LineRead
<1>8. CASE OpenByUser
  BY <1>8, LineOpens DEF OpenByUser
<1>9. CASE NoticedIdle \/ ShotRunsOut \/ SilencePasses \/ StopSilence \/ UNCHANGED vars
  <2>1. UNCHANGED <<kind, phase, call, calls, opened, toSlave, inbox, abandoned>>
    BY <1>9 DEF NoticedIdle, ShotRunsOut, SilencePasses, StopSilence, vars, clientVars, lineVars
  <2> QED BY <2>1, LineIdle DEF Awaiting
<1>10. CASE SlaveServes
  BY <1>10, LineServes
<1>11. CASE RequestLost
  <2>1. /\ toSlave # <<>> /\ toSlave' = Tail(toSlave)
        /\ UNCHANGED <<kind, phase, call, calls, opened, inbox, abandoned>>
    BY <1>11 DEF RequestLost, clientVars
  <2> QED BY <2>1, LineTaken
<1>12. CASE Closes
  BY <1>12, LineCloses
<1> QED BY <1>1, <1>2, <1>3, <1>4, <1>5, <1>6, <1>7, <1>8, <1>9, <1>10, <1>11, <1>12
        DEF Next, CallStep

\* Nothing is on the line at first.
LEMMA LineInit == Init => LineInv
<1> SUFFICES ASSUME Init PROVE LineInv
  OBVIOUS
<1>1. toSlave = <<>> /\ inbox = <<>> /\ phase = "idle" /\ abandoned = FALSE
  BY DEF Init
<1> QED BY <1>1 DEF LineInv, OpenInv, FlightInv, AnswerInv, WholeInv

-----------------------------------------------------------------------------
(* Identifiers.                                                            *)

\* r was asked with an identifier of this connection, and not with that of the request
\* that a call waits for unless it is this request.
Before(r) == r.tid <= tid /\ (Awaiting /\ r.n # calls => r.tid < tid)

\* Each request takes the next identifier: none has been used up twice.
TidInv ==
  kind = "tcp" =>
    /\ tid <= (IF phase \in {"silent", "opening", "writing"} THEN calls - 1 ELSE calls)
    /\ \A i \in DOMAIN toSlave : toSlave[i].live => Before(toSlave[i])
    /\ \A i \in DOMAIN inbox : Before(inbox[i])

\* The line carries identifiers on as it carries the numbers.
LEMMA TidLine ==
  ASSUME Types, TidInv, kind = "tcp", SlaveServes \/ RequestLost \/ Closes
  PROVE  TidInv'
<1>ty. toSlave \in Seq(Requests) /\ inbox \in Seq(Answers) /\ MemoryOK
  BY DEF Types, LineOK
<1>0. UNCHANGED <<kind, phase, calls, tid>>
  BY DEF SlaveServes, RequestLost, Closes, clientVars
<1>1. CASE SlaveServes
  <2> DEFINE r == Head(toSlave)
  <2>1. /\ toSlave # <<>> /\ toSlave' = Tail(toSlave)
        /\ UNCHANGED inbox \/ (r.live /\ inbox' = Append(inbox, AnswerTo(r)))
    BY <1>1 DEF SlaveServes
  <2>2. r \in Requests /\ 1 \in DOMAIN toSlave /\ r = toSlave[1]
    BY <2>1, <1>ty, TailOfLine
  <2>3. AnswerTo(r) \in Answers /\ AnswerTo(r).n = r.n /\ AnswerTo(r).tid = r.tid
    BY <2>2, <1>ty, AnswerFacts
  <2>4. \A i \in DOMAIN toSlave' : i + 1 \in DOMAIN toSlave /\ toSlave'[i] = toSlave[i + 1]
    BY <2>1, <1>ty, TailOfLine
  <2> HIDE DEF r
  <2>5. \/ UNCHANGED inbox
        \/ /\ r.live
           /\ \A i \in DOMAIN inbox' :
                (i \in DOMAIN inbox /\ inbox'[i] = inbox[i]) \/ inbox'[i] = AnswerTo(r)
    <3>1. CASE UNCHANGED inbox
      BY <3>1
    <3>2. CASE r.live /\ inbox' = Append(inbox, AnswerTo(r))
      <4> DEFINE a == AnswerTo(r)
      <4>1. a \in Answers /\ inbox' = Append(inbox, a)
        BY <3>2, <2>3
      <4> HIDE DEF a
      <4>2. \A i \in DOMAIN inbox' : (i \in DOMAIN inbox /\ inbox'[i] = inbox[i]) \/ inbox'[i] = a
        BY <4>1, <1>ty, EndOfLine
      <4> QED BY <3>2, <4>2 DEF a
    <3> QED BY <2>1, <3>1, <3>2
  <2>6. r.live => Before(AnswerTo(r))
    BY <2>2, <2>3 DEF TidInv, Before
  <2> QED BY <2>4, <2>5, <2>6, <1>0 DEF TidInv, Before, Awaiting
<1>2. CASE RequestLost
  BY <1>2 DEF RequestLost
<1>3. CASE Closes
  <2>1. UNCHANGED inbox /\ toSlave' = [i \in DOMAIN toSlave |-> [toSlave[i] EXCEPT !.live = FALSE]]
    BY <1>3 DEF Closes, DisconnectFromServer, SetPortName
  <2>2. ASSUME NEW i \in DOMAIN toSlave' PROVE ~toSlave'[i].live
    <3>1. toSlave[i] \in Requests /\ toSlave'[i] = [toSlave[i] EXCEPT !.live = FALSE]
      BY <2>1, <1>ty
    <3> QED BY <3>1 DEF Requests
  <2> QED BY <2>1, <2>2, <1>0 DEF TidInv, Before, Awaiting
<1> QED BY <1>1, <1>2, <1>3

\* A request takes an identifier that none in flight has, as long as they do not start
\* again from zero.
LEMMA TidWrite ==
  ASSUME Len(Calls) <= MaxTid, Types, TidInv, kind = "tcp", Write
  PROVE  TidInv'
<1>ty. /\ toSlave \in Seq(Requests) /\ inbox \in Seq(Answers)
       /\ calls \in 0..Len(Calls) /\ tid \in 0..MaxTid /\ call \in AllCalls
  BY DEF Types, LineOK, ClientOK
<1>l. Len(Calls) \in Nat /\ MaxTid \in Nat
  BY CallsAssumption, SizesAssumption
<1>1. /\ phase = "writing" /\ tid' = NewTransactionID /\ phase' \in {"idle", "waiting"}
      /\ UNCHANGED <<kind, calls, inbox>>
      /\ UNCHANGED toSlave \/ toSlave' = Append(toSlave, ADU)
  BY DEF Write, TcpPrepareADU, RtuPrepareADU, Returns
<1>2. tid <= calls - 1 /\ tid' = tid + 1 /\ tid' \in Nat /\ tid' <= calls
  <2>1. tid <= calls - 1
    BY <1>1 DEF TidInv
  <2>2. tid # MaxTid
    BY <2>1, <1>ty, <1>l
  <2> QED BY <2>1, <2>2, <1>1, <1>ty, <1>l DEF NewTransactionID
<1>3. ADU \in Requests /\ ADU.n = calls /\ ADU.tid = tid'
  BY <1>ty, <1>2, <1>l, ADUFacts
<1>4. \A i \in DOMAIN toSlave' :
        (i \in DOMAIN toSlave /\ toSlave'[i] = toSlave[i]) \/ toSlave'[i] = ADU
  BY <1>1, <1>3, <1>ty, EndOfLine
<1>5. ASSUME NEW r, r.tid \in Nat, Before(r)
      PROVE  r.tid < tid'
  BY <1>2, <1>5, <1>ty DEF Before
<1>6. ASSUME NEW i \in DOMAIN toSlave', toSlave'[i].live
      PROVE  toSlave'[i].tid <= tid' /\ (toSlave'[i].n # calls => toSlave'[i].tid < tid')
  <2>1. CASE i \in DOMAIN toSlave /\ toSlave'[i] = toSlave[i]
    <3>1. toSlave[i].tid \in Nat
      BY <2>1, <1>ty DEF Requests
    <3>2. Before(toSlave[i])
      BY <2>1, <1>6 DEF TidInv
    <3> QED BY <3>1, <3>2, <2>1, <1>2, <1>5
  <2>2. CASE toSlave'[i] = ADU
    BY <2>2, <1>2, <1>3
  <2> QED BY <2>1, <2>2, <1>4
<1>7. ASSUME NEW i \in DOMAIN inbox
      PROVE  inbox[i].tid < tid' /\ inbox[i].tid <= tid'
  <2>1. inbox[i] \in Answers
    BY <1>ty
  <2>2. inbox[i].tid \in Nat
    BY <2>1 DEF Answers
  <2>3. Before(inbox[i])
    BY DEF TidInv
  <2> QED BY <2>2, <2>3, <1>2, <1>5
<1> QED BY <1>1, <1>2, <1>6, <1>7 DEF TidInv, Before

\* Every step keeps it.
LEMMA TidStep ==
  ASSUME Len(Calls) <= MaxTid
  PROVE  Types /\ LineInv /\ TidInv /\ [Next]_vars => TidInv'
<1> SUFFICES ASSUME Types, LineInv, TidInv, [Next]_vars, kind = "tcp"
             PROVE  TidInv'
  BY DEF TidInv, Next, vars, CallStep, BeginCall, EndSilence, OpenForCall, Write, ReadTimeout,
     ReadyRead, ReadResponse, OpenByUser, Opens, Closes, NoticedIdle, ShotRunsOut, SilencePasses,
     StopSilence, SlaveServes, RequestLost
<1>ty. calls \in Nat /\ tid \in Nat
  BY SizesAssumption, CallsAssumption DEF Types, ClientOK
<1>1. ASSUME NEW c \in AllCalls, BeginCall(c) PROVE TidInv'
  <2>1. /\ phase = "idle" /\ phase' \in {"undefined", "silent", Prepared.phase}
        /\ calls' = calls + 1
        /\ UNCHANGED <<kind, tid, lineVars>>
    BY <1>1 DEF BeginCall
  <2>2. Prepared.phase \in {"writing", "opening"}
    BY DEF Prepared
  <2>3. tid' <= calls' - 1 /\ tid' <= calls'
    BY <2>1, <1>ty DEF TidInv
  <2>4. tid' <= (IF phase' \in {"silent", "opening", "writing"} THEN calls' - 1 ELSE calls')
    BY <2>3
  <2>5. ~Awaiting /\ ~Awaiting'
    BY <2>1, <2>2 DEF Awaiting
  <2>6. kind = "tcp" =>
          /\ \A i \in DOMAIN toSlave' : toSlave'[i].live => toSlave'[i].tid <= tid'
          /\ \A i \in DOMAIN inbox' : inbox'[i].tid <= tid'
    BY <2>1 DEF TidInv, Before, lineVars
  <2> QED BY <2>1, <2>4, <2>5, <2>6 DEF TidInv, Before
<1>2. ASSUME UNCHANGED <<kind, calls, tid, toSlave, inbox>>,
             phase' \in {phase, "idle"} \/ (phase = "waiting" /\ phase' = "reading")
      PROVE  TidInv'
  <2>1. Awaiting' => Awaiting
    BY <1>2 DEF Awaiting
  <2>2. tid <= (IF phase' \in {"silent", "opening", "writing"} THEN calls - 1 ELSE calls)
    BY <1>2, <1>ty DEF TidInv
  <2> QED BY <2>1, <2>2, <1>2 DEF TidInv, Before
<1>3. CASE EndSilence
  <2>1. /\ phase = "silent" /\ phase' = Prepared.phase
        /\ UNCHANGED <<kind, calls, tid, lineVars>>
    BY <1>3 DEF EndSilence
  <2>2. Prepared.phase \in {"writing", "opening"}
    BY DEF Prepared
  <2> QED BY <2>1, <2>2 DEF TidInv, Before, Awaiting, lineVars
<1>4. ASSUME Opens, ~opened, \/ phase = "idle" /\ phase' = "idle"
                             \/ phase = "opening" /\ phase' = "writing"
      PROVE  TidInv'
  <2>1. tid' = 0 /\ inbox' = <<>> /\ UNCHANGED <<kind, calls, toSlave>>
    BY <1>4 DEF Opens, ConnectToServer, OpenPort
  <2>2. \A i \in DOMAIN toSlave : ~toSlave[i].live
    BY <1>4 DEF LineInv, OpenInv
  <2>3. phase = "opening" => calls > 0
    BY DEF Types, ClientOK
  <2>4. 0 <= (IF phase' \in {"silent", "opening", "writing"} THEN calls - 1 ELSE calls)
    BY <2>3, <1>4, <1>ty
  <2> QED BY <2>1, <2>2, <2>4 DEF TidInv
<1>5. CASE OpenForCall
  <2>1. phase = "opening" /\ ~opened
    BY <1>5 DEF OpenForCall, LineInv, OpenInv
  <2>2. CASE Opens /\ phase' = "writing"
    BY <2>1, <2>2, <1>4
  <2>3. CASE phase' = "idle" /\ UNCHANGED <<kind, calls, tid, lineVars>>
    BY <2>3, <1>2 DEF lineVars
  <2> QED BY <1>5, <2>2, <2>3 DEF OpenForCall
<1>6. CASE OpenByUser
  BY <1>4, <1>6 DEF OpenByUser
<1>7. CASE Write
  BY <1>7, TidWrite
<1>8. CASE ReadTimeout \/ ReadyRead
  <2>1. /\ UNCHANGED <<kind, calls, tid, toSlave, inbox>>
        /\ phase' = "idle" \/ (phase = "waiting" /\ phase' = "reading")
    BY <1>8 DEF ReadTimeout, ReadyRead, Returns, lineVars
  <2> QED BY <2>1, <1>2
<1>9. CASE ReadResponse
  <2>1. /\ phase = "reading" /\ phase' = "idle" /\ inbox' = <<>>
        /\ UNCHANGED <<kind, calls, tid, toSlave>>
    BY <1>9 DEF ReadResponse, ReadAll, Returns
  <2> QED BY <2>1 DEF TidInv, Before, Awaiting
<1>10. CASE NoticedIdle \/ ShotRunsOut \/ SilencePasses \/ StopSilence \/ UNCHANGED vars
  <2>1. UNCHANGED <<kind, phase, calls, tid, toSlave, inbox>>
    BY <1>10 DEF NoticedIdle, ShotRunsOut, SilencePasses, StopSilence, vars, clientVars, lineVars
  <2> QED BY <2>1, <1>2
<1>11. CASE SlaveServes \/ RequestLost \/ Closes
  BY <1>11, TidLine
<1> QED BY <1>1, <1>3, <1>5, <1>6, <1>7, <1>8, <1>9, <1>10, <1>11 DEF Next, CallStep

-----------------------------------------------------------------------------
(* What a call returns.                                                    *)

ResultInv == AcceptedAnswers /\ DataTrue

\* A result stands until the next call begins.
LEMMA ResultStands ==
  ASSUME ResultInv, UNCHANGED <<call, calls, reported, result>>
  PROVE  ResultInv'
BY DEF ResultInv, AcceptedAnswers, DataTrue, Own, Written, OfBits, Fits, BytesPut, BytesFor,
       PutRegistersIntoBuffer

\* A call that fails promises nothing.
LEMMA NothingReturned ==
  ASSUME result' = NoResult
  PROVE  ResultInv'
<1>1. ~result'.ok
  BY DEF NoResult
<1> QED BY <1>1 DEF ResultInv, AcceptedAnswers, DataTrue

\* A call that succeeds has read an answer that is its own and true, unless it is damaged,
\* which has been reported, or an earlier one was due, which the result says.
LEMMA ResultRead ==
  ASSUME Types, LineInv, ReadResponse
  PROVE  ResultInv'
<1> DEFINE a == Head(inbox)
<1>1. /\ phase = "reading" /\ UNCHANGED <<call, calls>>
      /\ reported' = ProcessADU(inbox).wrong
  BY DEF ReadResponse
<1>2. ProcessADU(inbox).answer = a
      /\ ProcessADU(inbox).wrong = IF kind = "tcp" THEN FALSE ELSE Faulty(inbox)
  BY DEF ProcessADU, TcpProcessADU, RtuProcessADU
<1>3. PICK beyond \in Words :
        result' = IF Accepts(a)
                    THEN [ok |-> TRUE, answer |-> a, tid |-> tid, late |-> abandoned,
                          values |-> ValuesOf(RequestOf(call), a.data, beyond)]
                    ELSE NoResult
  BY <1>2 DEF ReadResponse, Returns
<1>4. /\ inbox # <<>> /\ inbox \in Seq(Answers) /\ call \in AllCalls /\ call.fn \in Codes
  BY <1>1, CallsAssumption DEF Types, LineOK, ClientOK, IsCall, Codes
<1>5. /\ 1 \in DOMAIN inbox /\ a = inbox[1] /\ a \in Answers
  BY <1>4, TailOfLine
<1>6. a.n = calls \/ abandoned
  BY <1>4, <1>5 DEF LineInv, FlightInv
<1>7. a.n = calls => Truthful(a, call)
  BY <1>5 DEF LineInv, AnswerInv
<1>8. kind = "tcp" => ~a.bad
  BY <1>5 DEF LineInv, WholeInv
<1>9. kind = "rtu" /\ a.bad => Faulty(inbox)
  BY DEF Faulty
<1>k. kind \in {"tcp", "rtu"}
  BY DEF Types, ClientOK
<1> HIDE DEF a
<1>10. CASE ~Accepts(a)
  BY <1>3, <1>10, NothingReturned
<1>11. CASE Accepts(a)
  <2>1. /\ result'.ok = TRUE /\ result'.answer = a /\ result'.late = abandoned
        /\ result'.values = ValuesOf(RequestOf(call), a.data, beyond)
    BY <1>3, <1>11
  <2>2. a.fn = call.fn /\ ~a.exc
    BY <1>11 DEF Accepts
  <2>3. AcceptedAnswers'
    <3>1. a.bad => reported'
      BY <1>1, <1>2, <1>8, <1>9, <1>k
    <3> QED BY <3>1, <2>1, <2>2, <1>1, <1>6 DEF AcceptedAnswers, Own
  <2>4. DataTrue'
    <3> SUFFICES ASSUME ~a.bad, a.n = calls
                 PROVE  a.cells = IF call.fn \in ReadFunctions THEN result'.values ELSE Written(call)
      BY <2>1, <1>1 DEF DataTrue, Own, Written, OfBits
    <3>1. /\ call.fn \in ReadFunctions =>
              \A b : ValuesOf(RequestOf(call), a.data, b) = a.cells
          /\ call.fn \in WriteFunctions => a.cells = Written(call)
      BY <2>2, <1>7 DEF Truthful
    <3> QED BY <3>1, <2>1, <1>4 DEF Codes
  <2> QED BY <2>3, <2>4 DEF ResultInv
<1> QED BY <1>10, <1>11

\* Every step keeps it.
LEMMA ResultStep == Types /\ LineInv /\ ResultInv /\ [Next]_vars => ResultInv'
<1> SUFFICES ASSUME Types, LineInv, ResultInv, [Next]_vars PROVE ResultInv'
  OBVIOUS
<1>1. CASE ReadResponse
  BY <1>1, ResultRead
<1>2. CASE ReadTimeout \/ \E c \in AllCalls : BeginCall(c)
  BY <1>2, NothingReturned DEF ReadTimeout, BeginCall, Returns
<1>3. CASE Write
  <2>1. UNCHANGED <<call, calls, reported>> /\ (result' = NoResult \/ UNCHANGED result)
    BY <1>3 DEF Write, Returns
  <2> QED BY <2>1, NothingReturned, ResultStands
<1>4. CASE EndSilence \/ OpenForCall \/ ReadyRead \/ OpenByUser \/ Closes \/ NoticedIdle
           \/ ShotRunsOut \/ SilencePasses \/ StopSilence \/ SlaveServes \/ RequestLost
           \/ UNCHANGED vars
  <2>1. UNCHANGED <<call, calls, reported, result>>
    BY <1>4 DEF EndSilence, OpenForCall, ReadyRead, OpenByUser, Opens, Closes, NoticedIdle,
       ShotRunsOut, SilencePasses, StopSilence, SlaveServes, RequestLost, vars, clientVars
  <2> QED BY <2>1, ResultStands
<1> QED BY <1>1, <1>2, <1>3, <1>4 DEF Next, CallStep

\* The invariants hold throughout.
LEMMA ModbusInvariant == Spec => [](Types /\ LineInv /\ ResultInv)
<1>1. Init => Types /\ LineInv /\ ResultInv
  <2>1. Init => ResultInv
    <3> SUFFICES ASSUME Init PROVE ResultInv
      OBVIOUS
    <3>1. ~result.ok
      BY DEF Init, NoResult
    <3> QED BY <3>1 DEF ResultInv, AcceptedAnswers, DataTrue
  <2> QED BY <2>1, TypesInit, LineInit
<1>2. Types /\ LineInv /\ ResultInv /\ [Next]_vars => (Types /\ LineInv /\ ResultInv)'
  BY TypesStep, LineStep, ResultStep
<1> QED BY <1>1, <1>2, PTL DEF Spec

\* A call that succeeds and reports no damage has taken a whole answer of its own function
\* that is no exception, and of this very call unless an earlier answer was still to come.
THEOREM ModbusAcceptedAnswers == Spec => []AcceptedAnswers
<1>1. ResultInv => AcceptedAnswers
  BY DEF ResultInv
<1> QED BY <1>1, ModbusInvariant, PTL

\* The values of a call are those of the slave's cells: coils are put into bytes and got
\* out of them alike, for any number of them, and no limit cuts a value that is sent. It
\* says so of the calls whose values fit the request, and of no others.
THEOREM ModbusDataTrue == Spec => []DataTrue
<1>1. ResultInv => DataTrue
  BY DEF ResultInv
<1> QED BY <1>1, ModbusInvariant, PTL

\* Over TCP the identifier tells an answer to another request, as long as there
\* are as many identifiers as calls, and none comes again.
THEOREM ModbusIdentifierTells ==
  ASSUME Len(Calls) <= MaxTid
  PROVE  Spec => []IdentifierTells
<1> DEFINE Inv == Types /\ LineInv /\ TidInv /\ IdentifierTells
<1>1. Init => Inv
  <2> SUFFICES ASSUME Init PROVE TidInv /\ IdentifierTells
    BY TypesInit, LineInit
  <2>1. /\ toSlave = <<>> /\ inbox = <<>> /\ phase = "idle" /\ calls = 0 /\ tid = 0
        /\ ~result.ok
    BY DEF Init, NoResult
  <2> QED BY <2>1 DEF TidInv, IdentifierTells
<1>2. ASSUME Inv, [Next]_vars PROVE IdentifierTells'
  <2>k. kind' = kind
    BY <1>2 DEF Next, vars, CallStep, BeginCall, EndSilence, OpenForCall, Write, ReadTimeout,
       ReadyRead, ReadResponse, OpenByUser, Opens, Closes, NoticedIdle, ShotRunsOut,
       SilencePasses, StopSilence, SlaveServes, RequestLost
  <2>n. ~NoResult.ok
    BY DEF NoResult
  <2>1. CASE ReadResponse
    <3> DEFINE a == Head(inbox)
    <3>1. phase = "reading" /\ UNCHANGED <<call, calls>>
      BY <2>1 DEF ReadResponse
    <3>2. ProcessADU(inbox).answer = a
      BY DEF ProcessADU, TcpProcessADU, RtuProcessADU
    <3>3. \/ result' = NoResult
          \/ result'.answer = a /\ result'.tid = tid
      BY <2>1, <3>2 DEF ReadResponse, Returns
    <3>4. inbox # <<>> /\ inbox \in Seq(Answers) /\ tid \in Nat
      BY <1>2, <3>1, SizesAssumption DEF Types, LineOK, ClientOK
    <3>5. 1 \in DOMAIN inbox /\ a = inbox[1] /\ a \in Answers
      BY <3>4, TailOfLine
    <3> HIDE DEF a
    <3>6. kind = "tcp" /\ a.n # calls => a.tid < tid
      BY <3>1, <3>5, <1>2 DEF TidInv, Before, Awaiting
    <3>7. a.tid \in Nat
      BY <3>5 DEF Answers
    <3>8. kind = "tcp" /\ a.n # calls => a.tid # tid
      BY <3>4, <3>6, <3>7
    <3> QED BY <3>1, <3>3, <3>8, <2>k, <2>n DEF IdentifierTells, Own
  <2>2. CASE ReadTimeout \/ \E c \in AllCalls : BeginCall(c)
    BY <2>2, <2>n DEF ReadTimeout, BeginCall, Returns, IdentifierTells
  <2>3. CASE Write
    <3>1. UNCHANGED <<call, calls>> /\ (result' = NoResult \/ UNCHANGED result)
      BY <2>3 DEF Write, Returns
    <3> QED BY <3>1, <2>k, <2>n, <1>2 DEF IdentifierTells, Own
  <2>4. CASE EndSilence \/ OpenForCall \/ ReadyRead \/ OpenByUser \/ Closes \/ NoticedIdle
             \/ ShotRunsOut \/ SilencePasses \/ StopSilence \/ SlaveServes \/ RequestLost
             \/ UNCHANGED vars
    <3>1. UNCHANGED <<call, calls, result>>
      BY <2>4 DEF EndSilence, OpenForCall, ReadyRead, OpenByUser, Opens, Closes, NoticedIdle,
         ShotRunsOut, SilencePasses, StopSilence, SlaveServes, RequestLost, vars, clientVars
    <3> QED BY <3>1, <2>k, <1>2 DEF IdentifierTells, Own
  <2> QED BY <1>2, <2>1, <2>2, <2>3, <2>4 DEF Next, CallStep
<1>3. Inv /\ [Next]_vars => Inv'
  BY <1>2, TypesStep, LineStep, TidStep
<1>4. Inv => IdentifierTells
  OBVIOUS
<1> QED BY <1>1, <1>3, <1>4, PTL DEF Spec

=============================================================================
