-------------------------- MODULE IoRegistersProofs --------------------------
(***************************************************************************)
(* Proofs about the two access paths to the registers, for any contents    *)
(* and any number of calls.                                                *)
(***************************************************************************)
EXTENDS IoRegisters, TLAPS

\* The kinds of registers, their banks and halves.
LEMMA RegisterCases ==
  ASSUME NEW r \in Registers
  PROVE  \/ r.kind = "switch" /\ r.bank = 0 /\ r.sel = 0
         \/ r.kind = "key" /\ r.bank = 0 /\ r.sel = 0
         \/ r.kind = "led" /\ r.bank = 0 /\ r.sel = 0
         \/ r.kind = "hex" /\ r.bank \in 0 .. 5 /\ r.sel = 0
         \/ r.kind \in {"gpio_en", "gpio_val"} /\ r.bank \in 0 .. 1 /\ r.sel \in 0 .. 1
BY DEF Registers, Inputs, Outputs, Led, Hexes, Gpios

\* The driver serves the request that reads a register with the register of the
\* mapped page.
LEMMA SameRegister ==
  ASSUME NEW r \in Registers \ {Nameless}
  PROVE  Served(ReadNumber(r)) = Offset(r)
<1>1. CASE r.kind \in {"switch", "key", "led"}
  BY <1>1 DEF Served, ReadNumber, Offset, Base
<1>2. CASE r.kind = "hex"
  <2>1. r.bank \in 0 .. 5
    BY <1>2, RegisterCases
  <2>2. r.bank = 0 \/ r.bank = 1 \/ r.bank = 2 \/ r.bank = 3 \/ r.bank = 4 \/ r.bank = 5
    BY <2>1
  <2>3. ReadNumber(r) = 4 + 2 * r.bank /\ Offset(r) = 12 + r.bank * 4
    BY <1>2 DEF ReadNumber, Offset, Base, REG_SIZE
  <2> QED
    BY <2>2, <2>3 DEF Served
<1>3. CASE r.kind \in {"gpio_en", "gpio_val"}
  <2>1. (r.bank = 0 \/ r.bank = 1) /\ (r.sel = 0 \/ r.sel = 1)
    BY <1>3, RegisterCases
  <2>2. Offset(r) = (IF r.kind = "gpio_en" THEN 36 ELSE 44) + r.bank * 16 + r.sel * 4
    BY <1>3, <2>1 DEF Offset, Base, GPIO_BANK_SIZE, REG_SIZE
  <2>3. CASE r.kind = "gpio_en"
    <3>1. ~(r.bank = 0 /\ r.sel = 1)
      BY <2>3 DEF Nameless, Registers, Inputs, Outputs, Led, Hexes, Gpios
    <3>2. ReadNumber(r) = IF r.bank = 0 THEN 16 ELSE 22 + 2 * r.sel
      BY <2>3 DEF ReadNumber
    <3> QED
      BY <2>1, <2>2, <2>3, <3>1, <3>2 DEF Served
  <2>4. CASE r.kind = "gpio_val"
    <3>1. ReadNumber(r) = IF r.bank = 0 THEN 18 + 2 * r.sel ELSE 26 + 2 * r.sel
      BY <2>4 DEF ReadNumber
    <3> QED
      BY <2>1, <2>2, <2>4, <3>1 DEF Served
  <2> QED
    BY <1>3, <2>3, <2>4
<1> QED
  BY <1>1, <1>2, <1>3, RegisterCases

\* Where each register is.
LEMMA OffsetCases ==
  ASSUME NEW r \in Registers
  PROVE  \/ r.kind = "switch" /\ Offset(r) = 0
         \/ r.kind = "key" /\ Offset(r) = 4
         \/ r.kind = "led" /\ Offset(r) = 8
         \/ r.kind = "hex" /\ Offset(r) = 12 + 4 * r.bank
         \/ r.kind = "gpio_en" /\ Offset(r) = 36 + 16 * r.bank + 4 * r.sel
         \/ r.kind = "gpio_val" /\ Offset(r) = 44 + 16 * r.bank + 4 * r.sel
<1>1. CASE r.kind \in {"switch", "key", "led"}
  BY <1>1 DEF Offset, Base
<1>2. CASE r.kind = "hex"
  <2>1. r.bank \in 0 .. 5
    BY <1>2, RegisterCases
  <2> QED
    BY <1>2, <2>1 DEF Offset, Base, REG_SIZE
<1>3. CASE r.kind \in {"gpio_en", "gpio_val"}
  <2>1. r.bank \in 0 .. 1 /\ r.sel \in 0 .. 1
    BY <1>3, RegisterCases
  <2> QED
    BY <1>3, <2>1 DEF Offset, Base, REG_SIZE, GPIO_BANK_SIZE
<1> QED
  BY <1>1, <1>2, <1>3, RegisterCases

\* A register is named by its kind, bank and half.
LEMMA RegisterFields ==
  ASSUME NEW r \in Registers, NEW q \in Registers,
         q.kind = r.kind, q.bank = r.bank, q.sel = r.sel
  PROVE  q = r
BY DEF Registers, Inputs, Outputs, Led, Hexes, Gpios

\* No two registers share an offset, and every one is in the page.
LEMMA OffsetsApart ==
  ASSUME NEW r \in Registers
  PROVE  /\ Offset(r) \in Offsets
         /\ \A q \in Registers : Offset(q) = Offset(r) => q = r
<1>1. Offset(r) \in Offsets
  <2>1. \E i \in 0 .. 16 : Offset(r) = 4 * i
    <3>1. CASE r.kind \in {"switch", "key", "led"}
      BY <3>1, OffsetCases
    <3>2. CASE r.kind = "hex"
      <4>1. r.bank \in 0 .. 5 /\ Offset(r) = 4 * (3 + r.bank)
        BY <3>2, OffsetCases, RegisterCases
      <4> QED
        BY <4>1
    <3>3. CASE r.kind = "gpio_en"
      <4>1. r.bank \in 0 .. 1 /\ r.sel \in 0 .. 1 /\ Offset(r) = 4 * (9 + 4 * r.bank + r.sel)
        BY <3>3, OffsetCases, RegisterCases
      <4> QED
        BY <4>1
    <3>4. CASE r.kind = "gpio_val"
      <4>1. r.bank \in 0 .. 1 /\ r.sel \in 0 .. 1 /\ Offset(r) = 4 * (11 + 4 * r.bank + r.sel)
        BY <3>4, OffsetCases, RegisterCases
      <4> QED
        BY <4>1
    <3> QED
      BY <3>1, <3>2, <3>3, <3>4, RegisterCases
  <2>2. Offsets = {4 * i : i \in 0 .. 16}
    BY DEF Offsets, REG_SIZE, IO_END
  <2> QED
    BY <2>1, <2>2
<1>2. ASSUME NEW q \in Registers, Offset(q) = Offset(r) PROVE q = r
  <2>1. q.kind = r.kind /\ q.bank = r.bank /\ q.sel = r.sel
    BY <1>2, OffsetCases, RegisterCases
  <2> QED
    BY <2>1, RegisterFields
<1> QED
  BY <1>1, <1>2

\* What can be written can be named.
LEMMA OutputsAreRegisters == Outputs \subseteq Registers /\ Led \in Outputs
BY DEF Registers, Outputs

\* What a call does to the device has its type.
LEMMA StepType == TypeOK /\ [Next]_vars => TypeOK'
<1> SUFFICES ASSUME TypeOK, [Next]_vars PROVE TypeOK'
  OBVIOUS
<1>1. ASSUME NEW access \in {"MMAP", "IOCTL"}, NEW r \in Outputs, NEW v \in Values,
             Write(access, r, v)
      PROVE  TypeOK'
  <2>1. device' \in [Offsets -> Values]
    BY <1>1 DEF TypeOK, Write, Written
  <2> QED
    BY <1>1, <2>1, ConstantsAssumption DEF TypeOK, Write
<1>2. CASE Move
  <2>1. PICK r \in Inputs, v \in Values : device' = [device EXCEPT ![Base[r.kind]] = v]
    BY <1>2 DEF Move
  <2>2. device' \in [Offsets -> Values]
    BY <2>1 DEF TypeOK
  <2>3. last' \in [access : {"none", "MMAP", "IOCTL"}, reg : Outputs, value : Values]
    BY <1>2, ConstantsAssumption, OutputsAreRegisters DEF Move, NoWrite
  <2>4. calls' \in 0 .. MaxCalls
    BY <1>2, ConstantsAssumption DEF TypeOK, Move
  <2> QED
    BY <2>2, <2>3, <2>4 DEF TypeOK
<1>3. CASE UNCHANGED vars
  BY <1>3 DEF TypeOK, vars
<1> QED
  BY <1>1, <1>2, <1>3 DEF Next

\* A write to one offset.
LEMMA OneOffset ==
  ASSUME TypeOK, NEW r \in Registers, NEW v,
         device' = [device EXCEPT ![Offset(r)] = v],
         last'.reg = r, last'.value = v
  PROVE  TakesEffect
<1>1. ASSUME NEW q \in Registers
      PROVE  device'[Offset(q)] = IF q = r THEN v ELSE device[Offset(q)]
  BY OffsetsApart DEF TypeOK
<1> QED
  BY <1>1 DEF TakesEffect, Read

\* The write requests that the driver gets right.
LEMMA WriteRequest ==
  ASSUME NEW r \in Outputs, r # Nameless, r \in Gpios => r.bank = 0
  PROVE  IsWrite(WriteNumber(r)) /\ Served(WriteNumber(r)) = Offset(r)
<1>1. r \in Registers /\ WriteNumber(r) = ReadNumber(r) + 1
  BY OutputsAreRegisters DEF WriteNumber
<1>2. CASE r.kind = "led"
  <2>1. ReadNumber(r) = 2 /\ Offset(r) = 8
    BY <1>2 DEF ReadNumber, Offset, Base
  <2> QED
    BY <1>1, <2>1 DEF IsWrite, Served
<1>3. CASE r.kind = "hex"
  <2>1. r.bank \in 0 .. 5
    BY <1>1, <1>3, RegisterCases
  <2>2. r.bank = 0 \/ r.bank = 1 \/ r.bank = 2 \/ r.bank = 3 \/ r.bank = 4 \/ r.bank = 5
    BY <2>1
  <2>3. ReadNumber(r) = 4 + 2 * r.bank /\ Offset(r) = 12 + r.bank * 4
    BY <1>3 DEF ReadNumber, Offset, Base, REG_SIZE
  <2> QED
    BY <1>1, <2>2, <2>3 DEF IsWrite, Served
<1>4. CASE r.kind = "gpio_en"
  <2>1. r.bank = 0 /\ r.sel = 0
    BY <1>4 DEF Outputs, Led, Hexes, Gpios, Nameless
  <2>2. ReadNumber(r) = 16 /\ Offset(r) = 36
    BY <1>4, <2>1 DEF ReadNumber, Offset, Base, REG_SIZE, GPIO_BANK_SIZE
  <2> QED
    BY <1>1, <2>2 DEF IsWrite, Served
<1>5. CASE r.kind = "gpio_val"
  <2>1. r.bank = 0 /\ (r.sel = 0 \/ r.sel = 1)
    BY <1>5 DEF Outputs, Led, Hexes, Gpios
  <2>2. ReadNumber(r) = 18 + 2 * r.sel /\ Offset(r) = 44 + r.sel * 4
    BY <1>5, <2>1 DEF ReadNumber, Offset, Base, REG_SIZE, GPIO_BANK_SIZE
  <2> QED
    BY <1>1, <2>1, <2>2 DEF IsWrite, Served
<1>6. r.kind \in {"led", "hex", "gpio_en", "gpio_val"}
  BY DEF Outputs, Led, Hexes, Gpios
<1> QED
  BY <1>2, <1>3, <1>4, <1>5, <1>6

\* A write that reaches its register leaves the others alone.
LEMMA StepTakesEffect ==
  TypeOK /\ Next =>
    ((\/ last'.access = "MMAP"
      \/ last'.access = "IOCTL" /\ last'.reg # Nameless
                               /\ (last'.reg \in Gpios => last'.reg.bank = 0))
       => TakesEffect)
<1> SUFFICES ASSUME TypeOK, Next,
                    \/ last'.access = "MMAP"
                    \/ last'.access = "IOCTL" /\ last'.reg # Nameless
                         /\ (last'.reg \in Gpios => last'.reg.bank = 0)
             PROVE  TakesEffect
  OBVIOUS
<1>1. ~Move
  BY DEF Move, NoWrite
<1>2. PICK access \in {"MMAP", "IOCTL"}, r \in Outputs, v \in Values : Write(access, r, v)
  BY <1>1 DEF Next
<1>3. last' = [access |-> access, reg |-> r, value |-> v] /\ device' = Written(access, r, v)
  BY <1>2 DEF Write
<1>4. device' = [device EXCEPT ![Offset(r)] = v]
  <2>1. CASE access = "MMAP"
    BY <1>3, <2>1 DEF Written
  <2>2. CASE access = "IOCTL"
    BY <1>3, <2>2, WriteRequest DEF Written
  <2> QED
    BY <2>1, <2>2
<1> QED
  BY <1>3, <1>4, OneOffset, OutputsAreRegisters

-----------------------------------------------------------------------------
(* The theorems *)

\* Type correctness of the model of io_utils.c.
THEOREM TypeCorrect == Spec => []TypeOK
<1>1. Init => TypeOK
  BY ConstantsAssumption, OutputsAreRegisters DEF Init, TypeOK, NoWrite
<1> QED
  BY <1>1, StepType, PTL DEF Spec

\* The pointer and the request of each read function name the same register
\* (io_utils.c:69-120, 190-226; common.h).
THEOREM PathsReadTheSame == Spec => []ReadsAgree
<1>1. ReadsAgree
  BY SameRegister DEF ReadsAgree, Read
<1> QED
  BY <1>1, PTL

\* A write through the mapped page, or by a request that exists, gives its register
\* its value and touches no other: the offsets of io_utils.h:22-41 are apart.
THEOREM WritesAreExact == Spec => WritesTakeEffect
<1>1. TypeOK /\ [Next]_vars =>
        [(\/ last'.access = "MMAP"
          \/ last'.access = "IOCTL" /\ last'.reg # Nameless
                                   /\ (last'.reg \in Gpios => last'.reg.bank = 0))
           => TakesEffect]_vars
  BY StepTakesEffect
<1> QED
  BY TypeCorrect, <1>1, PTL DEF Spec, WritesTakeEffect

=============================================================================
