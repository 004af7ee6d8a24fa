---------------------------- MODULE IoRegisters -----------------------------
(***************************************************************************)
(* io_utils.c: the registers of the DE1-SoC board behind two access paths. *)
(* With MMAP a function computes the offset of the register in the mapped  *)
(* page; with IOCTL it sends a request, which the driver resolves.  The    *)
(* driver is not part of the program: a request is served by the register  *)
(* that the name of its number in common.h says.                           *)
(***************************************************************************)
EXTENDS Integers

CONSTANTS
  Values,   \* what a register may hold; 0 at first
  MaxCalls  \* bound on the writes and user moves of a behaviour

ASSUME ConstantsAssumption == 0 \in Values /\ MaxCalls \in Nat

\* The registers as the callers name them.
Hexes == {[kind |-> "hex", bank |-> h, sel |-> 0] : h \in 0 .. 5}
Gpios == {[kind |-> k, bank |-> b, sel |-> s] :
            k \in {"gpio_en", "gpio_val"}, b \in 0 .. 1, s \in 0 .. 1}
Led == [kind |-> "led", bank |-> 0, sel |-> 0]
Inputs == {[kind |-> k, bank |-> 0, sel |-> 0] : k \in {"switch", "key"}}
Outputs == {Led} \cup Hexes \cup Gpios
Registers == Inputs \cup Outputs

VARIABLES
  device,  \* offset -> contents
  last,    \* history: the write just made, if any
  calls    \* history: the number of writes and user moves

vars == <<device, last, calls>>

\* io_utils.h:9, 22-41.  (BankOverlap: a bank taken for two registers long.)
REG_SIZE == 4
BankOverlap == 8
GPIO_BANK_SIZE == 16
Base == [switch |-> 0, key |-> 4, led |-> 8, hex |-> 12,
         gpio_en |-> 36, gpio_val |-> 44]
IO_END == 68
Offsets == {REG_SIZE * i : i \in 0 .. IO_END \div REG_SIZE - 1}

\* The pointer a function with MMAP access dereferences.
Offset(r) ==
  CASE r.kind = "hex" -> Base.hex + r.bank * REG_SIZE
    [] r.kind \in {"gpio_en", "gpio_val"} ->
         Base[r.kind] + r.bank * GPIO_BANK_SIZE + r.sel * REG_SIZE
    [] OTHER -> Base[r.kind]

\* common.h: the number of the read request of r; the write request of an
\* output has the next one.  Lines 40-43 give both halves of the enable
\* register of bank 0 the same numbers.
ReadNumber(r) ==
  CASE r.kind = "switch" -> 0
    [] r.kind = "key" -> 1
    [] r.kind = "led" -> 2
    [] r.kind = "hex" -> 4 + 2 * r.bank
    [] r.kind = "gpio_en" -> IF r.bank = 0 THEN 16 ELSE 22 + 2 * r.sel
    [] r.kind = "gpio_val" -> IF r.bank = 0 THEN 18 + 2 * r.sel ELSE 26 + 2 * r.sel

\* The driver: the offset of the register a number is named after, IO_* of
\* io_utils.h:22-40.
Served(n) ==
  CASE n = 0 -> 0
    [] n = 1 -> 4
    [] n \in 2 .. 3 -> 8
    [] n \in 4 .. 15 -> 12 + 4 * ((n - 4) \div 2)
    [] n \in 16 .. 17 -> 36
    [] n \in 18 .. 21 -> 44 + 4 * ((n - 18) \div 2)
    [] n \in 22 .. 25 -> 52 + 4 * ((n - 22) \div 2)
    [] n \in 26 .. 29 -> 60 + 4 * ((n - 26) \div 2)

\* The request a write function sends: the GPIO functions send the READ request
\* for bank 1 (lines 168-174 and 234-240).  (ReadForVal: for bank 0 too.)
ReadForVal(r) == IF r.kind = "gpio_val" THEN ReadNumber(r) ELSE ReadNumber(r) + 1
WriteNumber(r) == IF r \in Gpios /\ r.bank = 1 THEN ReadNumber(r) ELSE ReadNumber(r) + 1
IsWrite(n) == n > 2 /\ n % 2 = 1

-----------------------------------------------------------------------------
Read(access, r) ==
  IF access = "MMAP" THEN device[Offset(r)] ELSE device[Served(ReadNumber(r))]

Written(access, r, v) ==
  IF access = "MMAP" THEN [device EXCEPT ![Offset(r)] = v]
  ELSE IF IsWrite(WriteNumber(r))
  THEN [device EXCEPT ![Served(WriteNumber(r))] = v]
  ELSE device

TypeOK ==
  /\ device \in [Offsets -> Values]
  /\ last \in [access : {"none", "MMAP", "IOCTL"}, reg : Outputs, value : Values]
  /\ calls \in 0 .. MaxCalls

NoWrite == [access |-> "none", reg |-> Led, value |-> 0]

Init ==
  /\ device = [o \in Offsets |-> 0]
  /\ last = NoWrite
  /\ calls = 0

\* write_led, write_hex, write_gpio_en and write_gpio_val.
Write(access, r, v) ==
  /\ calls < MaxCalls
  /\ device' = Written(access, r, v)
  /\ last' = [access |-> access, reg |-> r, value |-> v]
  /\ calls' = calls + 1

\* The user moves a switch or a key.
Move ==
  /\ calls < MaxCalls
  /\ \E r \in Inputs, v \in Values : device' = [device EXCEPT ![Base[r.kind]] = v]
  /\ last' = NoWrite
  /\ calls' = calls + 1

Next ==
  \/ \E access \in {"MMAP", "IOCTL"}, r \in Outputs, v \in Values : Write(access, r, v)
  \/ Move

Spec == Init /\ [][Next]_vars

-----------------------------------------------------------------------------
(* Properties *)

\* The register the request numbers of common.h:42-43 cannot name.
Nameless == [kind |-> "gpio_en", bank |-> 0, sel |-> 1]

\* Both access paths read the same of every other register, after any sequence
\* of writes and user moves.
ReadsAgree ==
  \A r \in Registers \ {Nameless} : Read("IOCTL", r) = Read("MMAP", r)

\* A write gives its register its value and disturbs no other register.
TakesEffect ==
  \A r \in Registers :
    Read("MMAP", r)' = IF r = last'.reg THEN last'.value ELSE Read("MMAP", r)

\* It does through the mapped page, and by IOCTL for the LEDs, the displays and
\* what can be named of bank 0 of the GPIO.
WritesTakeEffect ==
  [][(\/ last'.access = "MMAP"
      \/ last'.access = "IOCTL" /\ last'.reg # Nameless
                               /\ (last'.reg \in Gpios => last'.reg.bank = 0))
       => TakesEffect]_vars

=============================================================================
