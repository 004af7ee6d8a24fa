------------------------ MODULE AudioPipelineProofs -------------------------
(***************************************************************************)
(* Proofs about AudioPipeline, for every chunk size, window, pool size,    *)
(* result of read() and number of chunks that the assumptions allow.       *)
(***************************************************************************)
EXTENDS AudioPipeline, SequenceTheorems, FiniteSetTheorems, TLAPS

-----------------------------------------------------------------------------
(* The operations on a mailbox, whatever it carries.                       *)

\* Creating or deleting a mailbox yields an empty one.
LEMMA CreatedDeleted ==
  ASSUME NEW S, NEW q, NEW n \in Nat
  PROVE  /\ NoQueue \in Queues(S)
         /\ Created(n) \in Queues(S)
         /\ Delete(q) \in Queues(S)
BY EmptySeq DEF Queues, NoQueue, Created, Delete

\* Taking a buffer from a pool that has one, and giving one back.
LEMMA AllocFreed ==
  ASSUME NEW S, NEW q \in Queues(S)
  PROVE  /\ CanAlloc(q) =>
              /\ Alloc(q) \in Queues(S)
              /\ Alloc(q).free = q.free - 1
              /\ Alloc(q).msgs = q.msgs
              /\ Alloc(q).state = q.state
         /\ Freed(q) \in Queues(S)
         /\ Freed(q).msgs = q.msgs
         /\ Freed(q).state = q.state
         /\ IsOpen(q) => Freed(q).free = q.free + 1
BY DEF Queues, CanAlloc, Alloc, Freed, IsOpen

\* A send makes the list of messages one longer and keeps the rest.
LEMMA Sending ==
  ASSUME NEW S, NEW q \in Queues(S), NEW m \in S
  PROVE  /\ Send(q, m) \in Queues(S)
         /\ Send(q, m).free = q.free
         /\ Send(q, m).state = q.state
         /\ Len(q.msgs) \in Nat
         /\ Len(Send(q, m).msgs) = Len(q.msgs) + 1
         /\ \A i \in 1 .. Len(q.msgs) : Send(q, m).msgs[i] = q.msgs[i]
         /\ Send(q, m).msgs[Len(q.msgs) + 1] = m
<1>1. q.msgs \in Seq(S) /\ Send(q, m).msgs = Append(q.msgs, m)
  BY DEF Queues, Send
<1>2. /\ Append(q.msgs, m) \in Seq(S)
      /\ Len(Append(q.msgs, m)) = Len(q.msgs) + 1
      /\ \A i \in 1 .. Len(q.msgs) : Append(q.msgs, m)[i] = q.msgs[i]
      /\ Append(q.msgs, m)[Len(q.msgs) + 1] = m
  BY <1>1, AppendProperties
<1>3. /\ Send(q, m) \in Queues(S)
      /\ Send(q, m).free = q.free /\ Send(q, m).state = q.state
  BY <1>1, <1>2 DEF Queues, Send
<1> QED
  BY <1>1, <1>2, <1>3, LenProperties

\* A receive hands out the first message and leaves the others.
LEMMA Receiving ==
  ASSUME NEW S, NEW q \in Queues(S), HasMessage(q)
  PROVE  /\ Head(q.msgs) \in S
         /\ Len(q.msgs) \in Nat \ {0}
         /\ Head(q.msgs) = q.msgs[1]
         /\ Received(q) \in Queues(S)
         /\ Received(q).free = q.free
         /\ Received(q).state = q.state
         /\ Len(Received(q).msgs) = Len(q.msgs) - 1
         /\ \A i \in 1 .. Len(Received(q).msgs) : Received(q).msgs[i] = q.msgs[i + 1]
<1>1. q.msgs \in Seq(S) /\ q.msgs # << >>
  BY DEF Queues, HasMessage
<1>2. Len(q.msgs) \in Nat \ {0} /\ Head(q.msgs) = q.msgs[1]
  BY <1>1, EmptySeq
<1>3. Received(q).msgs = Tail(q.msgs)
  BY DEF Queues, Received
<1>4. /\ Tail(q.msgs) \in Seq(S) /\ Head(q.msgs) \in S
      /\ Len(Tail(q.msgs)) = Len(q.msgs) - 1
      /\ \A i \in 1 .. Len(Tail(q.msgs)) : Tail(q.msgs)[i] = q.msgs[i + 1]
  BY <1>1, HeadTailProperties
<1>5. /\ Received(q) \in Queues(S)
      /\ Received(q).free = q.free /\ Received(q).state = q.state
  BY <1>4 DEF Queues, Received
<1> QED
  BY <1>2, <1>3, <1>4, <1>5

-----------------------------------------------------------------------------
(* Type correctness *)

\* AcqReadSend counts a chunk on the strength of a bound AcqAlloc tested.
CaptureBound == acq = "read" => captured < MaxChunk

TypeInv == TypeOK /\ CaptureBound

\* The types hold initially.
LEMMA TypeInit == Init => TypeInv
<1> SUFFICES ASSUME Init PROVE TypeInv
  OBVIOUS
<1>1. Nothing \in Chunks
  BY ConstantsAssumption DEF Nothing, Chunks
<1>2. /\ mailbox_treatment \in Queues(Chunks)
      /\ mailbox_logging \in Queues(Nat)
  BY CreatedDeleted DEF Init
<1>3. window \in Seq(0 .. MaxChunk)
  BY EmptySeq DEF Init
<1>4. x \in [Bytes -> 0 .. MaxChunk]
  BY ConstantsAssumption DEF Init
<1>5. /\ running \in BOOLEAN /\ audio_running \in BOOLEAN /\ alive \in BOOLEAN
      /\ acq_buf \in BOOLEAN
  BY Zenon DEF Init
<1> QED
  BY <1>1, <1>2, <1>3, <1>4, <1>5, ConstantsAssumption
  DEF Init, TypeInv, TypeOK, CaptureBound

\* Every step keeps the types.
LEMMA TypeStep == TypeInv /\ [Next]_vars => TypeInv'
<1> SUFFICES ASSUME TypeInv, [Next]_vars PROVE TypeInv'
  OBVIOUS
<1> USE DEF TypeInv, TypeOK, CaptureBound
<1>u. CASE UNCHANGED vars
  BY <1>u DEF vars, ctl_vars, acq_vars, treat_vars, mon_vars
<1>e. CASE SwitchAudio \/ Stop
  <2>1. running' \in BOOLEAN /\ audio_running' \in BOOLEAN
    BY <1>e, ZenonT(30) DEF SwitchAudio, Stop
  <2>2. UNCHANGED <<alive, faults, acq_vars, mailbox_treatment, mailbox_logging,
                    treat_vars, mon_vars>>
    BY <1>e DEF SwitchAudio, Stop
  <2> QED
    BY <2>1, <2>2 DEF acq_vars, treat_vars, mon_vars
<1>1. CASE AcqCreate
  BY <1>1, CreatedDeleted, ConstantsAssumption DEF AcqCreate, ctl_vars, treat_vars, mon_vars
<1>2. CASE AcqSetPeriodic
  BY <1>2 DEF AcqSetPeriodic, ctl_vars, treat_vars, mon_vars
<1>3. CASE AcqAlloc
  BY <1>3, AllocFreed DEF AcqAlloc, CanAlloc, IsOpen, ctl_vars, treat_vars, mon_vars
<1>4. CASE AcqReadSend
  <2>1. captured' \in 0 .. MaxChunk
    BY <1>4, ConstantsAssumption DEF AcqReadSend
  <2>l. leaked' \in {leaked, leaked + 1}
    BY <1>4 DEF AcqReadSend
  <2>2. \A r \in ReadResults : [id |-> captured + 1, len |-> r] \in Chunks
    BY <1>4, <2>1, ConstantsAssumption DEF AcqReadSend, Chunks
  <2>3. mailbox_treatment' \in Queues(Chunks)
    <3>1. CASE UNCHANGED mailbox_treatment
      BY <3>1
    <3>2. ASSUME NEW r \in ReadResults,
                 mailbox_treatment' =
                   Send(mailbox_treatment, [id |-> captured + 1, len |-> r])
          PROVE  mailbox_treatment' \in Queues(Chunks)
      BY <2>2, <3>2, Sending
    <3> QED
      BY <1>4, <3>1, <3>2, Zenon DEF AcqReadSend
  <2>4. /\ acq' = "loop" /\ acq_buf' \in BOOLEAN
        /\ UNCHANGED <<ctl_vars, alive, faults, mailbox_logging, treat_vars, mon_vars>>
    BY <1>4, Zenon DEF AcqReadSend
  <2>5. leaked' \in Nat
    BY <2>l
  <2> QED
    BY <2>1, <2>3, <2>4, <2>5 DEF ctl_vars, treat_vars, mon_vars
<1>5. CASE AcqExit
  BY <1>5, CreatedDeleted DEF AcqExit, ctl_vars, treat_vars, mon_vars
<1>6. CASE TreatCreate
  BY <1>6, CreatedDeleted, ConstantsAssumption DEF TreatCreate, ctl_vars, acq_vars, mon_vars
<1>7. CASE TreatLoop
  BY <1>7 DEF TreatLoop, ctl_vars, acq_vars, mon_vars
<1>8. CASE TreatReceive
  <2>1. Failed(EINVAL) \in Chunks /\ Failed(EIDRM) \in Chunks
    BY ConstantsAssumption DEF Failed, EINVAL, EIDRM, Chunks
  <2>2. received' \in Chunks /\ mailbox_treatment' \in Queues(Chunks)
    BY <1>8, <2>1, Receiving DEF TreatReceive
  <2> QED
    BY <1>8, <2>2 DEF TreatReceive, ctl_vars, acq_vars, mon_vars
<1>9. CASE TreatCopy
  <2>1. received.id \in 0 .. MaxChunk /\ received.len \in Nat
    BY <1>9, ConstantsAssumption DEF TreatCopy, Chunks
  <2>2. mailbox_treatment' \in Queues(Chunks)
    BY <1>9, AllocFreed DEF TreatCopy, Release
  <2>3. faults' \subseteq Faults
    BY <1>9 DEF TreatCopy, CopyFault, Faults
  <2>4. x' \in [Bytes -> 0 .. MaxChunk] /\ window' \in Seq(0 .. MaxChunk)
    BY <1>9, <2>1, AppendProperties, ConstantsAssumption DEF TreatCopy
  <2> QED
    BY <1>9, <2>1, <2>2, <2>3, <2>4 DEF TreatCopy, ctl_vars, acq_vars, mon_vars
<1>10. CASE TreatCrash
  <2>1. faults' \subseteq Faults
    BY <1>10 DEF TreatCrash, CopyFault, Faults
  <2> QED
    BY <1>10, <2>1 DEF TreatCrash, ctl_vars, acq_vars, treat_vars, mon_vars
<1>11. CASE TreatFft
  BY <1>11, AllocFreed, EmptySeq DEF TreatFft, ctl_vars, acq_vars, mon_vars
<1>12. CASE TreatSend
  BY <1>12, Sending DEF TreatSend, ctl_vars, acq_vars, mon_vars
<1>13. CASE TreatExit
  BY <1>13, CreatedDeleted DEF TreatExit, ctl_vars, acq_vars, mon_vars
<1>14. CASE MonLoop
  BY <1>14 DEF MonLoop, ctl_vars, acq_vars, treat_vars
<1>15. CASE MonRead
  BY <1>15, Receiving, AllocFreed DEF MonRead, Read, ctl_vars, acq_vars, treat_vars
<1>16. CASE MonCrash
  BY <1>16 DEF MonCrash, Faults, ctl_vars, acq_vars, treat_vars, mon_vars
<1>17. CASE MonPrint
  BY <1>17 DEF MonPrint, ctl_vars, acq_vars, treat_vars
<1> QED
  BY <1>u, <1>e, <1>1, <1>2, <1>3, <1>4, <1>5, <1>6, <1>7, <1>8, <1>9, <1>10,
     <1>11, <1>12, <1>13, <1>14, <1>15, <1>16, <1>17
  DEF Next, Acquisition, Treatment, Monitoring, Terminated

\* The variables of the audio tasks keep their types: in particular no pool
\* ever counts below zero and no message of another shape is ever queued.
THEOREM TypeCorrect == Spec => []TypeOK
<1>1. Spec => []TypeInv
  BY TypeInit, TypeStep, PTL DEF Spec
<1>2. TypeInv => TypeOK
  BY DEF TypeInv
<1> QED
  BY <1>1, <1>2, PTL

-----------------------------------------------------------------------------
(* The pool of mailbox_treatment *)

\* What PoolAccounting needs to be inductive: a buffer that treatment holds is
\* told from a failed receive by the number of its chunk, and before the mailbox
\* exists nobody holds anything.
MessagesNumbered ==
  \A i \in 1 .. Len(mailbox_treatment.msgs) : mailbox_treatment.msgs[i].id > 0
HeldIsNumbered == treat = "copy" /\ received.len >= 0 => received.id > 0
BeforeCreation ==
  acq = "create" => mailbox_treatment = NoQueue /\ leaked = 0 /\ received.id = 0

PoolInv == PoolAccounting /\ MessagesNumbered /\ HeldIsNumbered /\ BeforeCreation

\* Nothing is taken from a mailbox that does not exist yet.
LEMMA PoolInit == Init => PoolInv
<1> SUFFICES ASSUME Init PROVE PoolInv
  OBVIOUS
<1>1. Len(mailbox_treatment.msgs) = 0 /\ ~IsOpen(mailbox_treatment)
  BY EmptySeq DEF Init, NoQueue, IsOpen
<1> QED
  BY <1>1 DEF Init, PoolInv, PoolAccounting, MessagesNumbered, HeldIsNumbered,
              BeforeCreation, Nothing

\* Steps that leave the mailbox alone and neither begin nor end a hold.
LEMMA PoolUntouched ==
  ASSUME PoolInv,
         UNCHANGED <<mailbox_treatment, received, leaked, AcqHolds>>,
         acq' = "create" => acq = "create",
         treat' = "copy" <=> treat = "copy"
  PROVE  PoolInv'
BY DEF PoolInv, PoolAccounting, MessagesNumbered, HeldIsNumbered, BeforeCreation,
       TreatHolds, IsOpen

\* A step that keeps the mailbox's state and moves one buffer from one place to
\* another keeps PoolAccounting: acquisition sends it or drops it, treatment
\* receives it or frees it.
Pending == Len(mailbox_treatment.msgs)
Free == mailbox_treatment.free
PoolTypes == /\ Free \in Int /\ AcqHolds \in Int /\ Pending \in Int
             /\ TreatHolds \in Int /\ leaked \in Int

\* A buffer that changes hands stays accounted for.
LEMMA PoolMoved ==
  ASSUME PoolAccounting, PoolTypes, mailbox_treatment'.state = mailbox_treatment.state,
         \/ /\ AcqHolds' = AcqHolds - 1 /\ Pending' = Pending + 1
            /\ Free' = Free /\ TreatHolds' = TreatHolds /\ leaked' = leaked
         \/ /\ AcqHolds' = AcqHolds - 1 /\ leaked' = leaked + 1
            /\ Free' = Free /\ TreatHolds' = TreatHolds /\ Pending' = Pending
         \/ /\ Pending' = Pending - 1 /\ TreatHolds' = TreatHolds + 1
            /\ Free' = Free /\ AcqHolds' = AcqHolds /\ leaked' = leaked
         \/ /\ TreatHolds' = TreatHolds - 1 /\ Free' = Free + 1
            /\ Pending' = Pending /\ AcqHolds' = AcqHolds /\ leaked' = leaked
  PROVE  PoolAccounting'
<1>1. IsOpen(mailbox_treatment)' => IsOpen(mailbox_treatment)
  BY DEF IsOpen
<1>2. IsOpen(mailbox_treatment) => Free + AcqHolds + Pending + TreatHolds + leaked = PoolSlots
  BY DEF PoolAccounting, Free, Pending
<1>3. IsOpen(mailbox_treatment) =>
        Free' + AcqHolds' + Pending' + TreatHolds' + leaked' = PoolSlots
  BY <1>2 DEF PoolTypes
<1> QED
  BY <1>1, <1>3 DEF PoolAccounting, Free, Pending

\* Every step keeps the accounting of the pool.
LEMMA PoolStep == TypeInv /\ PoolInv /\ [Next]_vars => PoolInv'
<1> SUFFICES ASSUME TypeInv, PoolInv, [Next]_vars PROVE PoolInv'
  OBVIOUS
<1> USE DEF TypeInv
<1>t. /\ AcqHolds \in {0, 1} /\ TreatHolds \in {0, 1} /\ leaked \in Nat
      /\ mailbox_treatment \in Queues(Chunks)
      /\ mailbox_treatment.free \in Nat /\ Len(mailbox_treatment.msgs) \in Nat
  BY LenProperties DEF AcqHolds, TreatHolds, TypeOK, Queues
<1>u. CASE UNCHANGED vars
  BY <1>u, PoolUntouched DEF vars, acq_vars, treat_vars, AcqHolds
<1>e. CASE SwitchAudio \/ Stop
  BY <1>e, PoolUntouched DEF SwitchAudio, Stop, acq_vars, treat_vars, AcqHolds
<1>1. CASE AcqCreate
  <2> USE <1>1
  <2>1. UNCHANGED <<leaked, received, treat>> /\ acq = "create"
    BY DEF AcqCreate, treat_vars
  <2>2. CASE mailbox_treatment' = Created(PoolSlots) /\ acq' = "period"
    <3>1. /\ mailbox_treatment'.free = PoolSlots
          /\ Len(mailbox_treatment'.msgs) = 0
      BY <2>2, EmptySeq DEF Created
    <3>2. AcqHolds' = 0 /\ TreatHolds' = 0 /\ leaked = 0
      BY <2>1, <2>2 DEF AcqHolds, TreatHolds, PoolInv, BeforeCreation
    <3> QED
      BY <2>1, <2>2, <3>1, <3>2, ConstantsAssumption
      DEF PoolInv, PoolAccounting, MessagesNumbered, HeldIsNumbered, BeforeCreation
  <2>3. CASE UNCHANGED <<mailbox_treatment, acq>>
    BY <2>1, <2>3, PoolUntouched DEF AcqCreate, AcqHolds
  <2> QED
    BY <2>2, <2>3, Zenon DEF AcqCreate
<1>2. CASE AcqSetPeriodic
  BY <1>2, PoolUntouched DEF AcqSetPeriodic, AcqHolds, treat_vars
<1>3. CASE AcqAlloc
  <2> USE <1>3
  <2>1. /\ AcqHolds = 0 /\ TreatHolds' = TreatHolds
        /\ UNCHANGED <<leaked, received, treat>> /\ acq = "loop" /\ acq' = "read"
    BY DEF AcqAlloc, AcqHolds, TreatHolds, treat_vars
  <2>2. CASE CanAlloc(mailbox_treatment)
    <3>1. mailbox_treatment' = Alloc(mailbox_treatment)
      BY <2>2 DEF AcqAlloc
    <3>2. AcqHolds' = 1
      BY <2>2 DEF AcqAlloc, AcqHolds
    <3> QED
      BY <2>1, <2>2, <3>1, <3>2, AllocFreed, SMTT(30)
      DEF TypeOK, PoolInv, PoolAccounting, MessagesNumbered, HeldIsNumbered,
          BeforeCreation, IsOpen, TreatHolds, Queues
  <2>3. CASE ~CanAlloc(mailbox_treatment)
    <3>1. mailbox_treatment' = mailbox_treatment /\ AcqHolds' = 0
      BY <2>3 DEF AcqAlloc, AcqHolds
    <3> QED
      BY <2>1, <3>1, PoolUntouched
  <2> QED
    BY <2>2, <2>3
<1>4. CASE AcqReadSend
  <2> USE <1>4
  <2>1. /\ TreatHolds' = TreatHolds /\ AcqHolds' = 0
        /\ UNCHANGED <<received, treat>> /\ acq = "read" /\ acq' = "loop"
    BY DEF AcqReadSend, AcqHolds, TreatHolds, treat_vars
  <2>2. CASE ~acq_buf /\ UNCHANGED <<mailbox_treatment, leaked>>
    BY <2>1, <2>2, PoolUntouched DEF AcqHolds
  <2>3. ASSUME NEW r \in ReadResults, acq_buf, UNCHANGED leaked,
               mailbox_treatment' =
                 Send(mailbox_treatment, [id |-> captured + 1, len |-> r])
        PROVE  PoolInv'
    <3> DEFINE m == [id |-> captured + 1, len |-> r]
    <3>1. m \in Chunks /\ m.id > 0
      BY ConstantsAssumption DEF AcqReadSend, TypeOK, CaptureBound, Chunks
    <3>2. AcqHolds = 1
      BY <2>1, <2>3 DEF AcqHolds
    <3>3. MessagesNumbered'
      <4> DEFINE n == Len(mailbox_treatment.msgs)
      <4>1. Len(mailbox_treatment'.msgs) = n + 1
        BY <1>t, <2>3, <3>1, Sending
      <4>2. \A i \in 1 .. n : mailbox_treatment'.msgs[i] = mailbox_treatment.msgs[i]
        BY <1>t, <2>3, <3>1, Sending
      <4>3. mailbox_treatment'.msgs[n + 1] = m
        BY <1>t, <2>3, <3>1, Sending
      <4>4. \A i \in 1 .. n + 1 : i \in 1 .. n \/ i = n + 1
        BY <1>t
      <4> QED
        BY <3>1, <4>1, <4>2, <4>3, <4>4 DEF PoolInv, MessagesNumbered
    <3>4. PoolAccounting'
      <4>1. /\ mailbox_treatment'.free = mailbox_treatment.free
            /\ mailbox_treatment'.state = mailbox_treatment.state
            /\ Len(mailbox_treatment'.msgs) = Len(mailbox_treatment.msgs) + 1
        BY <1>t, <2>3, <3>1, Sending
      <4>2. AcqHolds' = AcqHolds - 1 /\ PoolTypes
        BY <1>t, <2>1, <3>2 DEF PoolTypes, Free, Pending
      <4> QED
        BY <2>1, <2>3, <4>1, <4>2, PoolMoved DEF PoolInv, Free, Pending
    <3> QED
      BY <2>1, <3>3, <3>4 DEF PoolInv, HeldIsNumbered, BeforeCreation
  <2>4. CASE acq_buf /\ leaked' = leaked + 1 /\ UNCHANGED mailbox_treatment
    <3>1. AcqHolds = 1
      BY <2>1, <2>4 DEF AcqHolds
    <3>2. PoolAccounting'
      <4>1. AcqHolds' = AcqHolds - 1 /\ PoolTypes
        BY <1>t, <2>1, <3>1 DEF PoolTypes, Free, Pending
      <4> QED
        BY <2>1, <2>4, <4>1, PoolMoved DEF PoolInv, Free, Pending
    <3> QED
      BY <2>1, <2>4, <3>2
      DEF PoolInv, MessagesNumbered, HeldIsNumbered, BeforeCreation
  <2> QED
    BY <2>2, <2>3, <2>4, Zenon DEF AcqReadSend
<1>5. CASE AcqExit
  BY <1>5, EmptySeq
  DEF AcqExit, PoolInv, PoolAccounting, MessagesNumbered, HeldIsNumbered,
      BeforeCreation, Delete, IsOpen, treat_vars
<1>6. CASE TreatCreate
  BY <1>6, PoolUntouched DEF TreatCreate, acq_vars, AcqHolds
<1>7. CASE TreatLoop
  BY <1>7, PoolUntouched DEF TreatLoop, acq_vars, AcqHolds
<1>8. CASE TreatReceive
  <2> USE <1>8
  <2>1. /\ AcqHolds' = AcqHolds /\ TreatHolds = 0 /\ treat' = "copy"
        /\ UNCHANGED <<leaked, acq>>
    BY DEF TreatReceive, AcqHolds, TreatHolds, acq_vars
  <2>2. CASE /\ HasMessage(mailbox_treatment)
             /\ received' = Head(mailbox_treatment.msgs)
             /\ mailbox_treatment' = Received(mailbox_treatment)
    <3>1. received'.id > 0
      BY <2>2, Receiving DEF TypeOK, PoolInv, MessagesNumbered
    <3>2. TreatHolds' = 1
      BY <2>1, <3>1 DEF TreatHolds
    <3>3. MessagesNumbered'
      <4>1. /\ Len(mailbox_treatment'.msgs) = Len(mailbox_treatment.msgs) - 1
            /\ \A i \in 1 .. Len(mailbox_treatment'.msgs) :
                 mailbox_treatment'.msgs[i] = mailbox_treatment.msgs[i + 1]
        BY <1>t, <2>2, Receiving
      <4> QED
        BY <1>t, <4>1 DEF PoolInv, MessagesNumbered
    <3>4. acq # "create"
      BY <2>2 DEF PoolInv, BeforeCreation, HasMessage, NoQueue, IsOpen
    <3>5. PoolAccounting'
      <4>1. /\ mailbox_treatment'.free = mailbox_treatment.free
            /\ mailbox_treatment'.state = mailbox_treatment.state
            /\ Len(mailbox_treatment'.msgs) = Len(mailbox_treatment.msgs) - 1
        BY <1>t, <2>2, Receiving
      <4>2. TreatHolds' = TreatHolds + 1 /\ PoolTypes
        BY <1>t, <2>1, <3>2 DEF PoolTypes, Free, Pending
      <4> QED
        BY <2>1, <4>1, <4>2, PoolMoved DEF PoolInv, Free, Pending
    <3> QED
      BY <2>1, <3>1, <3>3, <3>4, <3>5 DEF PoolInv, HeldIsNumbered, BeforeCreation
  <2>3. CASE /\ ~IsOpen(mailbox_treatment) /\ UNCHANGED mailbox_treatment
             /\ received' \in {Failed(EINVAL), Failed(EIDRM)}
    BY <2>1, <2>3
    DEF PoolInv, PoolAccounting, MessagesNumbered, HeldIsNumbered, BeforeCreation,
        IsOpen, Failed, EINVAL, EIDRM
  <2> QED
    BY <2>2, <2>3 DEF TreatReceive, IsOpen
<1>9. CASE TreatCopy
  <2> USE <1>9
  <2>1. /\ AcqHolds' = AcqHolds /\ TreatHolds' = 0 /\ TreatHolds = 1
        /\ UNCHANGED <<leaked, acq, received>> /\ treat' # "copy"
    BY DEF TreatCopy, AcqHolds, TreatHolds, acq_vars, PoolInv, HeldIsNumbered
  <2>2. mailbox_treatment' = Freed(mailbox_treatment)
    BY DEF TreatCopy, Release
  <2>3. acq # "create"
    BY <2>1 DEF PoolInv, BeforeCreation, TreatHolds, TypeOK, Chunks
  <2>4. PoolAccounting'
    <3>1. CASE IsOpen(mailbox_treatment)
      <4>1. /\ mailbox_treatment'.free = mailbox_treatment.free + 1
            /\ mailbox_treatment'.state = mailbox_treatment.state
            /\ mailbox_treatment'.msgs = mailbox_treatment.msgs
        BY <1>t, <2>2, <3>1, AllocFreed
      <4>2. TreatHolds' = TreatHolds - 1 /\ PoolTypes
        BY <1>t, <2>1 DEF PoolTypes, Free, Pending
      <4> QED
        BY <2>1, <4>1, <4>2, PoolMoved DEF PoolInv, Free, Pending
    <3>2. CASE ~IsOpen(mailbox_treatment)
      BY <1>t, <2>2, <3>2, AllocFreed DEF PoolAccounting, IsOpen
    <3> QED
      BY <3>1, <3>2
  <2> QED
    BY <2>1, <2>2, <2>3, <2>4, AllocFreed
    DEF TypeOK, PoolInv, MessagesNumbered, HeldIsNumbered, BeforeCreation
<1>10. CASE TreatCrash
  BY <1>10, PoolUntouched DEF TreatCrash, acq_vars, treat_vars, AcqHolds
<1>11. CASE TreatFft
  BY <1>11, PoolUntouched DEF TreatFft, acq_vars, AcqHolds
<1>12. CASE TreatSend
  BY <1>12, PoolUntouched DEF TreatSend, acq_vars, AcqHolds
<1>13. CASE TreatExit
  BY <1>13, PoolUntouched DEF TreatExit, acq_vars, AcqHolds
<1>14. CASE MonLoop \/ MonPrint
  BY <1>14, PoolUntouched DEF MonLoop, MonPrint, acq_vars, treat_vars, AcqHolds
<1>15. CASE MonRead
  BY <1>15, PoolUntouched DEF MonRead, acq_vars, treat_vars, AcqHolds
<1>16. CASE MonCrash
  BY <1>16, PoolUntouched DEF MonCrash, acq_vars, treat_vars, AcqHolds
<1> QED
  BY <1>u, <1>e, <1>1, <1>2, <1>3, <1>4, <1>5, <1>6, <1>7, <1>8, <1>9, <1>10,
     <1>11, <1>12, <1>13, <1>14, <1>15, <1>16
  DEF Next, Acquisition, Treatment, Monitoring, Terminated

\* No buffer of the pool between acquisition and treatment is ever lost or
\* handed out twice, but for those that reads of nothing drop.
THEOREM PoolAccounted == Spec => []PoolAccounting
<1>1. Spec => [](TypeInv /\ PoolInv)
  BY TypeInit, TypeStep, PoolInit, PoolStep, PTL DEF Spec
<1>2. PoolInv => PoolAccounting
  BY DEF PoolInv
<1> QED
  BY <1>1, <1>2, PTL

-----------------------------------------------------------------------------
(* The pool of mailbox_logging: LogPoolAccounting is inductive beside types. *)

\* Steps that leave the logging mailbox and the sending alone.
LEMMA LogPoolUntouched ==
  ASSUME LogPoolAccounting, UNCHANGED mailbox_logging,
         treat' = "send" <=> treat = "send"
  PROVE  LogPoolAccounting'
BY DEF LogPoolAccounting, IsOpen

\* Every step keeps the accounting of the logging pool.
LEMMA LogPoolStep == TypeInv /\ LogPoolAccounting /\ [Next]_vars => LogPoolAccounting'
<1> SUFFICES ASSUME TypeInv, LogPoolAccounting, [Next]_vars
             PROVE  LogPoolAccounting'
  OBVIOUS
<1>t. /\ mailbox_logging \in Queues(Nat)
      /\ mailbox_logging.free \in Nat /\ Len(mailbox_logging.msgs) \in Nat
  BY LenProperties DEF TypeInv, TypeOK, Queues
<1>u. CASE UNCHANGED vars
  BY <1>u, LogPoolUntouched DEF vars, treat_vars
<1>e. CASE SwitchAudio \/ Stop
  BY <1>e, LogPoolUntouched DEF SwitchAudio, Stop, treat_vars
<1>1. CASE Acquisition
  BY <1>1, LogPoolUntouched
  DEF Acquisition, AcqCreate, AcqSetPeriodic, AcqAlloc, AcqReadSend, AcqExit, treat_vars
<1>2. CASE TreatCreate
  <2>1. treat' # "send" /\ treat = "create"
    BY <1>2 DEF TreatCreate
  <2>2. CASE mailbox_logging' = Created(LogSlots)
    <3>1. Len(mailbox_logging'.msgs) = 0 /\ mailbox_logging'.free = LogSlots
      BY <2>2, EmptySeq DEF Created
    <3> QED
      BY <2>1, <3>1, ConstantsAssumption DEF LogPoolAccounting
  <2>3. CASE UNCHANGED mailbox_logging
    BY <2>1, <2>3, LogPoolUntouched
  <2> QED
    BY <1>2, <2>2, <2>3 DEF TreatCreate
<1>3. CASE TreatLoop \/ TreatReceive \/ TreatCopy \/ TreatCrash
  BY <1>3, LogPoolUntouched DEF TreatLoop, TreatReceive, TreatCopy, TreatCrash, treat_vars
<1>4. CASE TreatFft
  <2>1. treat = "fft"
    BY <1>4 DEF TreatFft
  <2>2. CASE /\ CanAlloc(mailbox_logging) /\ treat' = "send"
             /\ mailbox_logging' = Alloc(mailbox_logging)
    <3>1. /\ mailbox_logging'.free = mailbox_logging.free - 1
          /\ mailbox_logging'.msgs = mailbox_logging.msgs
          /\ mailbox_logging'.state = mailbox_logging.state
      BY <1>t, <2>2, AllocFreed
    <3> QED
      BY <1>t, <2>1, <2>2, <3>1, ConstantsAssumption DEF LogPoolAccounting, IsOpen
  <2>3. CASE treat' = "exit" /\ UNCHANGED mailbox_logging
    BY <2>1, <2>3, LogPoolUntouched
  <2> QED
    BY <1>4, <2>2, <2>3 DEF TreatFft
<1>5. CASE TreatSend
  <2>1. treat = "send" /\ treat' = "loop" /\ mailbox_logging' = Send(mailbox_logging, ffts)
    BY <1>5 DEF TreatSend
  <2>2. /\ mailbox_logging'.free = mailbox_logging.free
        /\ mailbox_logging'.state = mailbox_logging.state
        /\ Len(mailbox_logging'.msgs) = Len(mailbox_logging.msgs) + 1
    BY <1>t, <2>1, Sending DEF TypeInv, TypeOK
  <2> QED
    BY <1>t, <2>1, <2>2, ConstantsAssumption DEF LogPoolAccounting, IsOpen
<1>6. CASE TreatExit
  BY <1>6 DEF TreatExit, LogPoolAccounting, Delete, IsOpen
<1>7. CASE MonLoop \/ MonCrash \/ MonPrint
  BY <1>7, LogPoolUntouched DEF MonLoop, MonCrash, MonPrint, treat_vars
<1>8. CASE MonRead
  <2>1. treat' = treat
    BY <1>8 DEF MonRead, treat_vars
  <2>2. CASE HasMessage(mailbox_logging) /\ mailbox_logging' = Read(mailbox_logging)
    <3>1. /\ Received(mailbox_logging) \in Queues(Nat)
          /\ Received(mailbox_logging).free = mailbox_logging.free
          /\ Received(mailbox_logging).state = mailbox_logging.state
          /\ Len(Received(mailbox_logging).msgs) = Len(mailbox_logging.msgs) - 1
      BY <1>t, <2>2, Receiving
    <3>2. IsOpen(mailbox_logging) /\ IsOpen(Received(mailbox_logging))
      BY <2>2, <3>1 DEF HasMessage, IsOpen
    <3>3. /\ mailbox_logging'.free = mailbox_logging.free + 1
          /\ Len(mailbox_logging'.msgs) = Len(mailbox_logging.msgs) - 1
      BY <2>2, <3>1, <3>2, AllocFreed DEF Read
    <3>4. CASE treat = "send"
      BY <1>t, <2>1, <3>2, <3>3, <3>4 DEF LogPoolAccounting
    <3>5. CASE treat # "send"
      BY <1>t, <2>1, <3>2, <3>3, <3>5 DEF LogPoolAccounting
    <3> QED
      BY <3>4, <3>5
  <2>3. CASE UNCHANGED mailbox_logging
    BY <2>1, <2>3, LogPoolUntouched
  <2> QED
    BY <1>8, <2>2, <2>3 DEF MonRead
<1> QED
  BY <1>u, <1>e, <1>1, <1>2, <1>3, <1>4, <1>5, <1>6, <1>7, <1>8
  DEF Next, Treatment, Monitoring, Terminated

\* The pool of results is never drained by anything but results on their way:
\* rt_queue_read gives back what treatment took, and nothing else does.
THEOREM LogPoolAccounted == Spec => []LogPoolAccounting
<1>1. Init => LogPoolAccounting
  BY DEF Init, NoQueue, IsOpen, LogPoolAccounting
<1> QED
  BY <1>1, TypeInit, TypeStep, LogPoolStep, PTL DEF Spec

-----------------------------------------------------------------------------
(* The order of the chunks *)

\* ChunkOrder without the concatenation in InFlight: what is pending increases
\* and lies between what treatment holds, or copied last, and the codec's count.
Before(n, msgs) == \A i \in 1 .. Len(msgs) : n < msgs[i].id
Increasing(msgs) ==
  \A i, j \in 1 .. Len(msgs) : i < j => msgs[i].id < msgs[j].id

OrderInv ==
  /\ consumed <= captured
  /\ Before(consumed, mailbox_treatment.msgs)
  /\ Increasing(mailbox_treatment.msgs)
  /\ \A i \in 1 .. Len(mailbox_treatment.msgs) : mailbox_treatment.msgs[i].id <= captured
  /\ TreatHolds = 1 =>
       /\ consumed < received.id /\ received.id <= captured
       /\ Before(received.id, mailbox_treatment.msgs)

\* Nothing is captured, sent or received yet.
LEMMA OrderInit == Init => OrderInv
<1> SUFFICES ASSUME Init PROVE OrderInv
  OBVIOUS
<1>1. Len(mailbox_treatment.msgs) = 0 /\ TreatHolds = 0
  BY EmptySeq DEF Init, NoQueue, TreatHolds
<1> QED
  BY <1>1 DEF Init, OrderInv, Before, Increasing

\* The number of a chunk is a natural number.
LEMMA Numbered ==
  ASSUME NEW msgs \in Seq(Chunks)
  PROVE  \A i \in 1 .. Len(msgs) : msgs[i].id \in Nat
<1> SUFFICES ASSUME NEW i \in 1 .. Len(msgs) PROVE msgs[i].id \in Nat
  OBVIOUS
<1>1. msgs[i] \in Chunks
  BY ElementOfSeq
<1> QED
  BY <1>1, ConstantsAssumption DEF Chunks

\* Steps that change neither the mailbox's messages nor what treatment holds.
LEMMA OrderUntouched ==
  ASSUME TypeOK, OrderInv,
         mailbox_treatment'.msgs = mailbox_treatment.msgs,
         UNCHANGED <<consumed, received>>,
         captured' \in {captured, captured + 1},
         treat' = "copy" <=> treat = "copy"
  PROVE  OrderInv'
<1>1. /\ consumed \in Nat /\ captured \in Nat /\ received.id \in Nat
      /\ TreatHolds' = TreatHolds
      /\ mailbox_treatment.msgs \in Seq(Chunks)
  BY ConstantsAssumption DEF TypeOK, TreatHolds, Chunks, Queues
<1>2. \A i \in 1 .. Len(mailbox_treatment.msgs) : mailbox_treatment.msgs[i].id \in Nat
  BY <1>1, Numbered
<1>3. consumed' <= captured'
  BY <1>1 DEF OrderInv
<1>4. \A i \in 1 .. Len(mailbox_treatment'.msgs) :
        mailbox_treatment'.msgs[i].id <= captured'
  <2>1. ASSUME NEW i \in 1 .. Len(mailbox_treatment.msgs)
        PROVE  mailbox_treatment.msgs[i].id <= captured'
    <3>1. mailbox_treatment.msgs[i].id <= captured
      BY DEF OrderInv
    <3> QED
      BY <1>1, <1>2, <3>1
  <2> QED
    BY <2>1
<1>5. TreatHolds' = 1 => received'.id <= captured'
  BY <1>1 DEF OrderInv
<1> QED
  BY <1>1, <1>3, <1>4, <1>5 DEF OrderInv

\* Steps that leave the mailbox empty.
LEMMA OrderEmptied ==
  ASSUME OrderInv, mailbox_treatment'.msgs = << >>,
         UNCHANGED <<captured, consumed, received, treat>>
  PROVE  OrderInv'
<1>1. Len(mailbox_treatment'.msgs) = 0 /\ TreatHolds' = TreatHolds
  BY EmptySeq DEF TreatHolds
<1> QED
  BY <1>1 DEF OrderInv, Before, Increasing

\* Every step keeps the chunks in their order.
LEMMA OrderStep == TypeInv /\ PoolInv /\ OrderInv /\ [Next]_vars => OrderInv'
<1> SUFFICES ASSUME TypeInv, PoolInv, OrderInv, [Next]_vars PROVE OrderInv'
  OBVIOUS
<1> USE DEF TypeInv
<1> DEFINE msgs == mailbox_treatment.msgs
<1>t. /\ mailbox_treatment \in Queues(Chunks) /\ msgs \in Seq(Chunks) /\ Len(msgs) \in Nat
      /\ consumed \in Nat /\ captured \in Nat /\ received.id \in Nat
  BY LenProperties, ConstantsAssumption DEF TypeOK, Queues, Chunks
<1>i. \A i \in 1 .. Len(msgs) : msgs[i].id \in Nat
  BY <1>t, Numbered
<1>u. CASE UNCHANGED vars
  BY <1>u, OrderUntouched DEF vars, acq_vars, treat_vars
<1>e. CASE SwitchAudio \/ Stop
  BY <1>e, OrderUntouched DEF SwitchAudio, Stop, acq_vars, treat_vars
<1>1. CASE AcqCreate
  <2>1. UNCHANGED <<captured, consumed, received, treat>>
    BY <1>1 DEF AcqCreate, treat_vars
  <2>2. CASE mailbox_treatment' = Created(PoolSlots)
    BY <2>1, <2>2, OrderEmptied DEF Created
  <2>3. CASE UNCHANGED mailbox_treatment
    BY <2>1, <2>3, OrderUntouched
  <2> QED
    BY <1>1, <2>2, <2>3 DEF AcqCreate
<1>2. CASE AcqSetPeriodic
  BY <1>2, OrderUntouched DEF AcqSetPeriodic, treat_vars
<1>3. CASE AcqAlloc
  BY <1>3, <1>t, AllocFreed, OrderUntouched DEF AcqAlloc, treat_vars
<1>4. CASE AcqReadSend
  <2>1. captured' = captured + 1 /\ UNCHANGED <<received, treat, consumed>>
    BY <1>4 DEF AcqReadSend, treat_vars
  <2>2. CASE UNCHANGED mailbox_treatment
    BY <2>1, <2>2, OrderUntouched
  <2>3. ASSUME NEW r \in ReadResults,
               mailbox_treatment' =
                 Send(mailbox_treatment, [id |-> captured + 1, len |-> r])
        PROVE  OrderInv'
    <3> DEFINE m == [id |-> captured + 1, len |-> r]
    <3>1. m \in Chunks /\ m.id = captured + 1
      BY <1>4, ConstantsAssumption DEF AcqReadSend, TypeOK, CaptureBound, Chunks
    <3>2. /\ Len(mailbox_treatment'.msgs) = Len(msgs) + 1
          /\ \A i \in 1 .. Len(msgs) : mailbox_treatment'.msgs[i] = msgs[i]
          /\ mailbox_treatment'.msgs[Len(msgs) + 1] = m
      <4>1. mailbox_treatment' = Send(mailbox_treatment, m)
        BY <2>3
      <4> HIDE DEF m
      <4> QED
        BY <1>t, <3>1, <4>1, Sending, SMTT(30)
    <3>3. \A i \in 1 .. Len(msgs) + 1 : i \in 1 .. Len(msgs) \/ i = Len(msgs) + 1
      BY <1>t
    <3>4. \A i \in 1 .. Len(msgs) :
            mailbox_treatment'.msgs[i].id = msgs[i].id /\ msgs[i].id <= captured
      BY <3>2 DEF OrderInv
    <3>5. mailbox_treatment'.msgs[Len(msgs) + 1].id = captured + 1
      BY <3>1, <3>2
    <3>6. TreatHolds' = TreatHolds
      BY <2>1 DEF TreatHolds
    <3>7. Increasing(mailbox_treatment.msgs)'
      <4> SUFFICES ASSUME NEW i \in 1 .. Len(msgs) + 1, NEW j \in 1 .. Len(msgs) + 1,
                          i < j
                   PROVE  mailbox_treatment'.msgs[i].id < mailbox_treatment'.msgs[j].id
        BY <3>2 DEF Increasing
      <4>1. i \in 1 .. Len(msgs)
        BY <1>t
      <4>2. CASE j \in 1 .. Len(msgs)
        BY <3>4, <4>1, <4>2 DEF OrderInv, Increasing
      <4>3. CASE j = Len(msgs) + 1
        <5>1. mailbox_treatment'.msgs[i].id <= captured
          BY <3>4, <4>1
        <5>2. mailbox_treatment'.msgs[i].id \in Nat
          BY <1>i, <3>4, <4>1
        <5> QED
          BY <1>t, <3>5, <4>3, <5>1, <5>2
      <4> QED
        BY <3>3, <4>2, <4>3
    <3>8. ASSUME NEW n \in Nat, n <= captured, Before(n, msgs)
          PROVE  Before(n, mailbox_treatment'.msgs)
      BY <1>t, <1>i, <3>2, <3>3, <3>4, <3>5, <3>8, SMTT(30) DEF Before
    <3>9. \A i \in 1 .. Len(mailbox_treatment'.msgs) :
            mailbox_treatment'.msgs[i].id <= captured'
      BY <1>t, <1>i, <2>1, <3>2, <3>3, <3>4, <3>5, SMTT(30)
    <3> QED
      BY <1>t, <2>1, <3>6, <3>7, <3>8, <3>9 DEF OrderInv
  <2> QED
    BY <1>4, <2>2, <2>3, Zenon DEF AcqReadSend
<1>5. CASE AcqExit
  BY <1>5, OrderEmptied DEF AcqExit, Delete, treat_vars
<1>6. CASE TreatCreate
  BY <1>6, OrderUntouched DEF TreatCreate, acq_vars
<1>7. CASE TreatLoop
  BY <1>7, OrderUntouched DEF TreatLoop, acq_vars
<1>8. CASE TreatReceive
  <2>1. treat = "recv" /\ treat' = "copy" /\ UNCHANGED <<captured, consumed>>
    BY <1>8 DEF TreatReceive, acq_vars
  <2>2. CASE /\ HasMessage(mailbox_treatment)
             /\ received' = Head(msgs)
             /\ mailbox_treatment' = Received(mailbox_treatment)
    <3>1. /\ received' = msgs[1] /\ Len(msgs) \in Nat \ {0}
          /\ Len(mailbox_treatment'.msgs) = Len(msgs) - 1
          /\ \A i \in 1 .. Len(mailbox_treatment'.msgs) :
               mailbox_treatment'.msgs[i] = msgs[i + 1]
      BY <1>t, <2>2, Receiving
    <3>2. \A i \in 1 .. Len(msgs) - 1 : i + 1 \in 1 .. Len(msgs)
      BY <1>t
    <3>3. 1 \in 1 .. Len(msgs)
      BY <3>1
    <3>4. consumed < received'.id /\ received'.id <= captured
      BY <3>1, <3>3 DEF OrderInv, Before
    <3>5. Before(received.id, mailbox_treatment.msgs)'
      BY <1>t, <3>1, <3>2, <3>3, SMTT(30) DEF OrderInv, Increasing, Before
    <3>6. Increasing(mailbox_treatment.msgs)'
      <4> SUFFICES ASSUME NEW i \in 1 .. Len(msgs) - 1, NEW j \in 1 .. Len(msgs) - 1,
                          i < j
                   PROVE  mailbox_treatment'.msgs[i].id < mailbox_treatment'.msgs[j].id
        BY <3>1 DEF Increasing
      <4>1. /\ i + 1 \in 1 .. Len(msgs) /\ j + 1 \in 1 .. Len(msgs) /\ i + 1 < j + 1
            /\ mailbox_treatment'.msgs[i] = msgs[i + 1]
            /\ mailbox_treatment'.msgs[j] = msgs[j + 1]
        BY <1>t, <3>1, <3>2
      <4> QED
        BY <4>1 DEF OrderInv, Increasing
    <3>7. Before(consumed, mailbox_treatment.msgs)'
      BY <1>t, <2>1, <3>1, <3>2 DEF OrderInv, Before
    <3>8. \A i \in 1 .. Len(mailbox_treatment'.msgs) :
            mailbox_treatment'.msgs[i].id <= captured'
      BY <1>t, <2>1, <3>1, <3>2 DEF OrderInv
    <3> QED
      BY <2>1, <3>4, <3>5, <3>6, <3>7, <3>8 DEF OrderInv
  <2>3. CASE /\ UNCHANGED mailbox_treatment
             /\ received' \in {Failed(EINVAL), Failed(EIDRM)}
    <3>1. TreatHolds' = 0
      BY <2>3 DEF TreatHolds, Failed
    <3> QED
      BY <2>1, <2>3, <3>1 DEF OrderInv, Before
  <2> QED
    BY <1>8, <2>2, <2>3 DEF TreatReceive
<1>9. CASE TreatCopy
  <2>1. /\ treat = "copy" /\ treat' # "copy" /\ consumed' = received.id
        /\ UNCHANGED <<captured, received>>
    BY <1>9 DEF TreatCopy, acq_vars
  <2>2. TreatHolds = 1 /\ TreatHolds' = 0
    BY <1>9, <2>1 DEF TreatCopy, TreatHolds, PoolInv, HeldIsNumbered
  <2>3. mailbox_treatment'.msgs = msgs
    BY <1>9, <1>t, AllocFreed DEF TreatCopy, Release
  <2> QED
    BY <2>1, <2>2, <2>3 DEF OrderInv, Before, Increasing
<1>10. CASE TreatCrash \/ TreatFft \/ TreatSend \/ TreatExit
  BY <1>10, OrderUntouched
  DEF TreatCrash, TreatFft, TreatSend, TreatExit, acq_vars, treat_vars
<1>11. CASE Monitoring
  BY <1>11, OrderUntouched
  DEF Monitoring, MonLoop, MonRead, MonCrash, MonPrint, acq_vars, treat_vars
<1> QED
  BY <1>u, <1>e, <1>1, <1>2, <1>3, <1>4, <1>5, <1>6, <1>7, <1>8, <1>9, <1>10, <1>11
  DEF Next, Acquisition, Treatment, Terminated

\* The order of all chunks together gives the one the run checks.
LEMMA OrderImplies == TypeOK /\ OrderInv => ChunkOrder
<1> SUFFICES ASSUME TypeOK, OrderInv PROVE ChunkOrder
  OBVIOUS
<1> DEFINE msgs == mailbox_treatment.msgs
<1>t. msgs \in Seq(Chunks) /\ Len(msgs) \in Nat /\ received \in Chunks
  BY LenProperties DEF TypeOK, Queues
<1>1. CASE TreatHolds = 1
  <2>1. << received >> \in Seq(Chunks) /\ Len(<< received >>) = 1
        /\ << received >>[1] = received
    BY <1>t
  <2>2. InFlight = << received >> \o msgs
    BY <1>1 DEF InFlight
  <2>3. /\ Len(InFlight) = Len(msgs) + 1 /\ InFlight \in Seq(Chunks)
        /\ \A i \in 1 .. Len(msgs) + 1 :
             InFlight[i] = IF i <= 1 THEN << received >>[i] ELSE msgs[i - 1]
    BY <1>t, <2>1, <2>2, ConcatProperties
  <2>4. DOMAIN InFlight = 1 .. Len(msgs) + 1
    BY <2>3, LenProperties
  <2>5. \A i \in 1 .. Len(msgs) + 1 :
          IF i = 1 THEN InFlight[i] = received
          ELSE i - 1 \in 1 .. Len(msgs) /\ InFlight[i] = msgs[i - 1]
    BY <1>t, <2>1, <2>3
  <2>6. ASSUME NEW i \in DOMAIN InFlight
        PROVE  InFlight[i].id > consumed /\ InFlight[i].id <= captured
    BY <1>1, <2>4, <2>5, <2>6 DEF OrderInv, Before
  <2>7. ASSUME NEW i \in DOMAIN InFlight, NEW j \in DOMAIN InFlight, i < j
        PROVE  InFlight[i].id < InFlight[j].id
    <3>1. j # 1 /\ j - 1 \in 1 .. Len(msgs) /\ InFlight[j] = msgs[j - 1]
      BY <1>t, <2>4, <2>5, <2>7
    <3>2. CASE i = 1
      BY <1>1, <2>4, <2>5, <3>1, <3>2 DEF OrderInv, Before
    <3>3. CASE i # 1
      <4>1. /\ i - 1 \in 1 .. Len(msgs) /\ InFlight[i] = msgs[i - 1]
            /\ i - 1 < j - 1
        BY <1>t, <2>4, <2>5, <2>7, <3>3
      <4> QED
        BY <3>1, <4>1 DEF OrderInv, Increasing
    <3> QED
      BY <3>2, <3>3
  <2> QED
    BY <2>6, <2>7 DEF ChunkOrder
<1>2. CASE TreatHolds # 1
  <2>1. InFlight = msgs /\ DOMAIN InFlight = 1 .. Len(msgs)
    BY <1>2, <1>t, LenProperties DEF InFlight
  <2> QED
    BY <2>1 DEF ChunkOrder, OrderInv, Before, Increasing
<1> QED
  BY <1>1, <1>2

\* Whatever acquisition loses and however the tasks interleave, chunks reach x
\* in the order of their capture and none twice.
THEOREM ChunksOrdered == Spec => []ChunkOrder
<1>1. Spec => [](TypeInv /\ PoolInv /\ OrderInv)
  BY TypeInit, TypeStep, PoolInit, PoolStep, OrderInit, OrderStep, PTL DEF Spec
<1>2. TypeInv /\ OrderInv => ChunkOrder
  BY OrderImplies DEF TypeInv
<1> QED
  BY <1>1, <1>2, PTL

-----------------------------------------------------------------------------
(* The order of the results *)

\* ResultOrder made inductive: what was read is a result computed before, and
\* the result treatment is about to send is newer than all that went out.
Newer(n) == \A i \in 1 .. Len(mailbox_logging.msgs) : mailbox_logging.msgs[i] < n
ResultInv ==
  /\ message <= ffts
  /\ \A i \in 1 .. Len(mailbox_logging.msgs) :
       message < mailbox_logging.msgs[i] /\ mailbox_logging.msgs[i] <= ffts
  /\ \A i, j \in 1 .. Len(mailbox_logging.msgs) :
       i < j => mailbox_logging.msgs[i] < mailbox_logging.msgs[j]
  /\ treat = "send" => message < ffts /\ Newer(ffts)

\* No result is sent or printed yet.
LEMMA ResultInit == Init => ResultInv
<1> SUFFICES ASSUME Init PROVE ResultInv
  OBVIOUS
<1>1. Len(mailbox_logging.msgs) = 0
  BY EmptySeq DEF Init, NoQueue
<1> QED
  BY <1>1 DEF Init, ResultInv

\* Steps that touch neither the results nor the mailbox they are in.
LEMMA ResultUntouched ==
  ASSUME ResultInv, UNCHANGED <<mailbox_logging, message, ffts>>,
         treat' = "send" => treat = "send"
  PROVE  ResultInv'
BY DEF ResultInv, Newer

\* Steps that leave the mailbox of the results empty.
LEMMA ResultEmptied ==
  ASSUME ResultInv, mailbox_logging'.msgs = << >>, UNCHANGED <<message, ffts>>,
         treat' # "send"
  PROVE  ResultInv'
<1>1. Len(mailbox_logging'.msgs) = 0
  BY EmptySeq
<1> QED
  BY <1>1 DEF ResultInv

\* Every step keeps the results in their order.
LEMMA ResultStep == TypeInv /\ ResultInv /\ [Next]_vars => ResultInv'
<1> SUFFICES ASSUME TypeInv, ResultInv, [Next]_vars PROVE ResultInv'
  OBVIOUS
<1> USE DEF TypeInv
<1> DEFINE msgs == mailbox_logging.msgs
<1>t. /\ mailbox_logging \in Queues(Nat) /\ msgs \in Seq(Nat) /\ Len(msgs) \in Nat
      /\ message \in Nat /\ ffts \in Nat
  BY LenProperties DEF TypeOK, Queues
<1>i. \A i \in 1 .. Len(msgs) : msgs[i] \in Nat
  BY <1>t, ElementOfSeq
<1>u. CASE UNCHANGED vars
  BY <1>u, ResultUntouched DEF vars, treat_vars, mon_vars
<1>e. CASE SwitchAudio \/ Stop \/ Acquisition
  BY <1>e, ResultUntouched
  DEF SwitchAudio, Stop, Acquisition, AcqCreate, AcqSetPeriodic, AcqAlloc,
      AcqReadSend, AcqExit, treat_vars, mon_vars
<1>1. CASE TreatCreate
  <2>1. UNCHANGED <<message, ffts>> /\ treat' # "send"
    BY <1>1 DEF TreatCreate, mon_vars
  <2>2. CASE mailbox_logging' = Created(LogSlots)
    BY <2>1, <2>2, ResultEmptied DEF Created
  <2>3. CASE UNCHANGED mailbox_logging
    BY <2>1, <2>3, ResultUntouched
  <2> QED
    BY <1>1, <2>2, <2>3 DEF TreatCreate
<1>2. CASE TreatLoop \/ TreatReceive \/ TreatCopy \/ TreatCrash
  BY <1>2, ResultUntouched
  DEF TreatLoop, TreatReceive, TreatCopy, TreatCrash, treat_vars, mon_vars
<1>3. CASE TreatFft
  <2>1. ffts' = ffts + 1 /\ UNCHANGED message /\ mailbox_logging'.msgs = msgs
    BY <1>3, <1>t, AllocFreed DEF TreatFft, mon_vars
  <2>2. \A i \in 1 .. Len(msgs) : message < msgs[i] /\ msgs[i] <= ffts
    BY DEF ResultInv
  <2>3. \A i \in 1 .. Len(msgs) : msgs[i] < ffts'
    BY <1>t, <1>i, <2>1, <2>2
  <2>4. message < ffts'
    BY <1>t, <2>1 DEF ResultInv
  <2> QED
    BY <1>t, <1>i, <2>1, <2>3, <2>4 DEF ResultInv, Newer
<1>4. CASE TreatSend
  <2>1. UNCHANGED <<message, ffts>> /\ treat = "send" /\ treat' = "loop"
    BY <1>4 DEF TreatSend, mon_vars
  <2>2. mailbox_logging' = Send(mailbox_logging, ffts)
    BY <1>4 DEF TreatSend
  <2>3. /\ Len(mailbox_logging'.msgs) = Len(msgs) + 1
        /\ \A i \in 1 .. Len(msgs) : mailbox_logging'.msgs[i] = msgs[i]
        /\ mailbox_logging'.msgs[Len(msgs) + 1] = ffts
    BY <1>t, <2>2, Sending, SMTT(30)
  <2>4. \A i \in 1 .. Len(msgs) + 1 : i \in 1 .. Len(msgs) \/ i = Len(msgs) + 1
    BY <1>t
  <2>5. message < ffts /\ \A i \in 1 .. Len(msgs) : msgs[i] < ffts
    BY <2>1 DEF ResultInv, Newer
  <2>6. \A i \in 1 .. Len(msgs) + 1 :
          message < mailbox_logging'.msgs[i] /\ mailbox_logging'.msgs[i] <= ffts
    <3> SUFFICES ASSUME NEW i \in 1 .. Len(msgs) + 1
                 PROVE  /\ message < mailbox_logging'.msgs[i]
                        /\ mailbox_logging'.msgs[i] <= ffts
      OBVIOUS
    <3>1. CASE i \in 1 .. Len(msgs)
      BY <2>3, <3>1 DEF ResultInv
    <3>2. CASE i = Len(msgs) + 1
      BY <1>t, <2>3, <2>5, <3>2
    <3> QED
      BY <2>4, <3>1, <3>2
  <2>7. ASSUME NEW i \in 1 .. Len(msgs) + 1, NEW j \in 1 .. Len(msgs) + 1, i < j
        PROVE  mailbox_logging'.msgs[i] < mailbox_logging'.msgs[j]
    <3>1. i \in 1 .. Len(msgs)
      BY <1>t, <2>7
    <3>2. CASE j \in 1 .. Len(msgs)
      BY <2>3, <2>7, <3>1, <3>2 DEF ResultInv
    <3>3. CASE j = Len(msgs) + 1
      BY <2>3, <2>5, <3>1, <3>3
    <3> QED
      BY <2>4, <3>2, <3>3
  <2> QED
    BY <1>t, <2>1, <2>3, <2>6, <2>7 DEF ResultInv
<1>5. CASE TreatExit
  BY <1>5, ResultEmptied DEF TreatExit, Delete, mon_vars
<1>6. CASE MonLoop \/ MonCrash \/ MonPrint
  BY <1>6, ResultUntouched DEF MonLoop, MonCrash, MonPrint, treat_vars, mon_vars
<1>7. CASE MonRead
  <2>1. UNCHANGED <<ffts, treat>>
    BY <1>7 DEF MonRead, treat_vars
  <2>2. CASE UNCHANGED <<message, mailbox_logging>>
    BY <2>1, <2>2, ResultUntouched
  <2>3. CASE /\ HasMessage(mailbox_logging) /\ message' = Head(msgs)
             /\ mailbox_logging' = Read(mailbox_logging)
    <3>1. /\ message' = msgs[1] /\ Len(msgs) \in Nat \ {0}
          /\ Len(mailbox_logging'.msgs) = Len(msgs) - 1
          /\ \A i \in 1 .. Len(msgs) - 1 : mailbox_logging'.msgs[i] = msgs[i + 1]
      <4>1. /\ Received(mailbox_logging) \in Queues(Nat)
            /\ Len(Received(mailbox_logging).msgs) = Len(msgs) - 1
            /\ \A i \in 1 .. Len(Received(mailbox_logging).msgs) :
                 Received(mailbox_logging).msgs[i] = msgs[i + 1]
            /\ Len(msgs) \in Nat \ {0} /\ Head(msgs) = msgs[1]
        BY <1>t, <2>3, Receiving
      <4>2. mailbox_logging'.msgs = Received(mailbox_logging).msgs
        BY <2>3, <4>1, AllocFreed DEF Read
      <4> QED
        BY <2>3, <4>1, <4>2
    <3>2. /\ 1 \in 1 .. Len(msgs)
          /\ \A i \in 1 .. Len(msgs) - 1 : i + 1 \in 1 .. Len(msgs) /\ 1 < i + 1
      BY <3>1
    <3>3. message' <= ffts' /\ (treat' = "send" => message' < ffts')
      BY <2>1, <3>1, <3>2 DEF ResultInv, Newer
    <3>4. \A i \in 1 .. Len(msgs) - 1 :
            /\ message' < mailbox_logging'.msgs[i] /\ mailbox_logging'.msgs[i] <= ffts'
            /\ treat' = "send" => mailbox_logging'.msgs[i] < ffts'
      BY <2>1, <3>1, <3>2 DEF ResultInv, Newer
    <3>5. ASSUME NEW i \in 1 .. Len(msgs) - 1, NEW j \in 1 .. Len(msgs) - 1, i < j
          PROVE  mailbox_logging'.msgs[i] < mailbox_logging'.msgs[j]
      <4>1. /\ i + 1 \in 1 .. Len(msgs) /\ j + 1 \in 1 .. Len(msgs) /\ i + 1 < j + 1
            /\ mailbox_logging'.msgs[i] = msgs[i + 1]
            /\ mailbox_logging'.msgs[j] = msgs[j + 1]
        BY <1>t, <3>1, <3>2, <3>5
      <4> QED
        BY <4>1 DEF ResultInv
    <3> QED
      BY <3>1, <3>3, <3>4, <3>5 DEF ResultInv, Newer
  <2> QED
    BY <1>7, <2>2, <2>3 DEF MonRead
<1> QED
  BY <1>u, <1>e, <1>1, <1>2, <1>3, <1>4, <1>5, <1>6, <1>7
  DEF Next, Treatment, Monitoring, Terminated

\* Spectra are read in the order they were computed and none twice, however
\* treatment and monitoring interleave.
THEOREM ResultsOrdered == Spec => []ResultOrder
<1>1. Spec => [](TypeInv /\ ResultInv)
  BY TypeInit, TypeStep, ResultInit, ResultStep, PTL DEF Spec
<1>2. TypeInv /\ ResultInv => ResultOrder
  <2> SUFFICES ASSUME TypeInv, ResultInv PROVE ResultOrder
    OBVIOUS
  <2>1. mailbox_logging.msgs \in Seq(Nat)
    BY DEF TypeInv, TypeOK, Queues
  <2>2. DOMAIN mailbox_logging.msgs = 1 .. Len(mailbox_logging.msgs)
    BY <2>1, LenProperties
  <2> QED
    BY <2>2 DEF ResultInv, ResultOrder
<1> QED
  BY <1>1, <1>2, PTL

-----------------------------------------------------------------------------
(* The prints *)

\* What monitoring has read and not printed is newer than all it printed, unless the
\* read failed because the mailbox was not there; and nothing is read before treatment
\* has created the mailbox.
PrintInv ==
  /\ treat = "create" => ~IsOpen(mailbox_logging) /\ message = 0
  /\ shown <= message
  /\ mon # "print" => shown = message
  /\ mon = "print" /\ IsOpen(mailbox_logging) /\ message # 0 => shown < message

\* Steps of other tasks that do not open the mailbox of the results.
LEMMA PrintUntouched ==
  ASSUME PrintInv, UNCHANGED mon_vars, treat' = "create" => treat = "create",
         IsOpen(mailbox_logging') => IsOpen(mailbox_logging)
  PROVE  PrintInv'
BY DEF PrintInv, mon_vars, IsOpen

\* Every step keeps it: a read brings a result that is newer than what was printed
\* last, and a print makes up for it.
LEMMA PrintStep == TypeInv /\ ResultInv /\ PrintInv /\ [Next]_vars => PrintInv'
<1> SUFFICES ASSUME TypeInv, ResultInv, PrintInv, [Next]_vars PROVE PrintInv'
  OBVIOUS
<1>t. /\ mailbox_logging \in Queues(Nat) /\ message \in Nat /\ shown \in Nat /\ ffts \in Nat
  BY DEF TypeInv, TypeOK
<1>1. CASE UNCHANGED vars
  BY <1>1, PrintUntouched DEF vars, treat_vars, mon_vars
<1>2. CASE SwitchAudio \/ Stop \/ Acquisition
  BY <1>2, PrintUntouched
  DEF SwitchAudio, Stop, Acquisition, AcqCreate, AcqSetPeriodic, AcqAlloc, AcqReadSend,
      AcqExit, treat_vars, mon_vars
<1>3. CASE TreatCreate
  <2>1. /\ message = 0 /\ UNCHANGED <<mon, message, shown>> /\ treat' # "create"
    BY <1>3 DEF TreatCreate, mon_vars, PrintInv
  <2> QED
    BY <2>1 DEF PrintInv
<1>4. CASE TreatLoop \/ TreatReceive \/ TreatCopy \/ TreatCrash
  BY <1>4, PrintUntouched
  DEF TreatLoop, TreatReceive, TreatCopy, TreatCrash, treat_vars, mon_vars
<1>5. CASE TreatFft
  <2>1. mailbox_logging'.state = mailbox_logging.state
    BY <1>5, <1>t, AllocFreed DEF TreatFft
  <2> QED
    BY <1>5, <2>1, PrintUntouched DEF TreatFft, mon_vars, IsOpen
<1>6. CASE TreatSend
  <2>1. mailbox_logging'.state = mailbox_logging.state
    BY <1>6, <1>t, Sending DEF TreatSend
  <2> QED
    BY <1>6, <2>1, PrintUntouched DEF TreatSend, mon_vars, IsOpen
<1>7. CASE TreatExit
  BY <1>7, PrintUntouched DEF TreatExit, Delete, IsOpen, mon_vars
<1>8. CASE MonLoop
  <2>1. mon = "loop" /\ mon' # "print" /\ UNCHANGED <<treat, mailbox_logging, message, shown>>
    BY <1>8 DEF MonLoop, treat_vars
  <2> QED
    BY <2>1 DEF PrintInv
<1>9. CASE MonCrash
  BY <1>9, PrintUntouched DEF MonCrash, treat_vars, mon_vars
<1>10. CASE MonRead
  <2>1. mon = "read" /\ mon' = "print" /\ UNCHANGED <<treat, shown>> /\ shown = message
    BY <1>10 DEF MonRead, treat_vars, PrintInv
  <2>2. CASE ReadFails(mailbox_logging) /\ UNCHANGED <<message, mailbox_logging>>
    BY <1>t, <2>1, <2>2 DEF PrintInv, ReadFails
  <2>3. CASE HasMessage(mailbox_logging) /\ message' = Head(mailbox_logging.msgs)
    <3>1. /\ Len(mailbox_logging.msgs) \in Nat \ {0} /\ message' = mailbox_logging.msgs[1]
          /\ message' \in Nat
      BY <1>t, <2>3, Receiving
    <3>2. 1 \in 1 .. Len(mailbox_logging.msgs)
      BY <3>1
    <3>3. message < message'
      BY <3>1, <3>2 DEF ResultInv
    <3>4. treat # "create"
      BY <2>3 DEF PrintInv, HasMessage
    <3> QED
      BY <1>t, <2>1, <3>1, <3>3, <3>4 DEF PrintInv
  <2> QED
    BY <1>10, <2>2, <2>3 DEF MonRead
<1>11. CASE MonPrint
  <2>1. /\ mon' = "loop" /\ shown' = message /\ UNCHANGED <<treat, mailbox_logging, message>>
    BY <1>11 DEF MonPrint, treat_vars
  <2> QED
    BY <1>t, <2>1 DEF PrintInv
<1> QED
  BY <1>1, <1>2, <1>3, <1>4, <1>5, <1>6, <1>7, <1>8, <1>9, <1>10, <1>11
  DEF Next, Treatment, Monitoring, Terminated

\* Each result read is printed before the next, and none is printed again but after a
\* read that failed for want of the mailbox.
THEOREM PrintsOnce == Spec => PrintedOnce
<1>1. Init => PrintInv
  BY DEF Init, PrintInv, NoQueue, IsOpen
<1>2. TypeInv /\ PrintInv /\ [Next]_vars =>
        [/\ message' # message => shown = message
         /\ mon = "print" /\ mon' = "loop" =>
              shown' > shown \/ ~IsOpen(mailbox_logging) \/ message = 0]_vars
  <2> SUFFICES ASSUME TypeInv, PrintInv, Next
               PROVE  /\ message' # message => shown = message
                      /\ mon = "print" /\ mon' = "loop" =>
                           shown' > shown \/ ~IsOpen(mailbox_logging) \/ message = 0
    BY DEF vars, mon_vars
  <2>1. CASE MonRead
    BY <2>1 DEF MonRead, PrintInv
  <2>2. CASE MonPrint
    BY <2>2 DEF MonPrint, PrintInv, TypeInv, TypeOK
  <2>3. ASSUME ~MonRead, ~MonPrint PROVE UNCHANGED message /\ (mon' = mon \/ mon' # "loop")
    BY <2>3
    DEF Next, Terminated, vars, mon_vars, SwitchAudio, Stop, Monitoring, MonLoop, MonCrash,
        Acquisition, AcqCreate, AcqSetPeriodic, AcqAlloc, AcqReadSend, AcqExit, Treatment,
        TreatCreate, TreatLoop, TreatReceive, TreatCopy, TreatCrash, TreatFft, TreatSend,
        TreatExit
  <2> QED
    BY <2>1, <2>2, <2>3
<1>3. Spec => [](TypeInv /\ ResultInv /\ PrintInv)
  BY <1>1, TypeInit, TypeStep, ResultInit, ResultStep, PrintStep, PTL DEF Spec
<1> QED
  BY <1>2, <1>3, PTL DEF Spec, PrintedOnce

-----------------------------------------------------------------------------
(* The room in x *)

\* The codec delivers whole chunks, nothing, or an error.
OnlyWholeChunks == ReadResults \subseteq {-1, 0, ChunkBytes}

\* Under it, what is in the mailbox and in treatment's hands is a whole chunk
\* or an error, the fill level counts the chunks of the window, and the window
\* is full only when the FFT is due.
Whole(m) == m.len \in {-1, ChunkBytes}
FillInv ==
  /\ NoOverrun
  /\ \A i \in 1 .. Len(mailbox_treatment.msgs) : Whole(mailbox_treatment.msgs[i])
  /\ treat = "copy" =>
       Whole(received) \/ received \in {Failed(EINVAL), Failed(EIDRM)}
  /\ size = Len(window) * ChunkBytes
  /\ treat # "fft" => Len(window) < ChunksPerWindow

\* Multiplication by a natural number is monotonic.
LEMMA Monotonic ==
  ASSUME NEW a \in Nat, NEW b \in Nat, NEW c \in Nat, a <= b
  PROVE  a * c <= b * c
<1>1. PICK d \in Nat : b = a + d
  <2>1. b - a \in Nat /\ b = a + (b - a)
    OBVIOUS
  <2> QED
    BY <2>1
<1>2. (a + d) * c = a * c + d * c /\ d * c \in Nat /\ a * c \in Nat
  OBVIOUS
<1> QED
  BY <1>1, <1>2

\* A chunk that follows k others of a window that holds more lies within x.
LEMMA Fits ==
  ASSUME NEW k \in Nat, k < ChunksPerWindow, size = k * ChunkBytes,
         received.len = ChunkBytes
  PROVE  CopyTarget \subseteq Bytes
<1> DEFINE C == ChunkBytes
<1>1. C \in Nat /\ ChunksPerWindow \in Nat /\ C >= 1
  BY ConstantsAssumption
<1>2. (k + 1) * C <= ChunksPerWindow * C
  BY <1>1, Monotonic
<1>3. (k + 1) * C = k * C + C /\ k * C \in Nat /\ ChunksPerWindow * C \in Nat
  BY <1>1
<1>4. size \in Nat /\ size + C <= FFT_BUFFER_SIZE /\ FFT_BUFFER_SIZE \in Nat
  BY <1>1, <1>2, <1>3 DEF FFT_BUFFER_SIZE
<1> QED
  BY <1>1, <1>4 DEF CopyTarget, CopyStart, Bytes

\* The window is empty.
LEMMA FillInit == Init => FillInv
<1> SUFFICES ASSUME Init PROVE FillInv
  OBVIOUS
<1>1. Len(mailbox_treatment.msgs) = 0 /\ Len(window) = 0
  BY EmptySeq DEF Init, NoQueue
<1>2. 0 * ChunkBytes = 0 /\ 0 < ChunksPerWindow
  BY ConstantsAssumption
<1> QED
  BY <1>1, <1>2 DEF Init, FillInv, NoOverrun

\* Steps that leave the mailbox's messages and treatment's buffer alone.
LEMMA FillUntouched ==
  ASSUME FillInv, mailbox_treatment'.msgs = mailbox_treatment.msgs,
         UNCHANGED <<received, size, window>>,
         "overrun" \in faults' => "overrun" \in faults,
         treat' = "copy" => treat = "copy",
         treat = "fft" => treat' = "fft"
  PROVE  FillInv'
BY DEF FillInv, NoOverrun, Whole, Failed

\* A mailbox that is emptied leaves the fill level alone.
LEMMA FillEmptied ==
  ASSUME FillInv, mailbox_treatment'.msgs = << >>,
         UNCHANGED <<received, size, window, faults, treat>>
  PROVE  FillInv'
<1>1. Len(mailbox_treatment'.msgs) = 0
  BY EmptySeq
<1> QED
  BY <1>1 DEF FillInv, NoOverrun

\* A copy that treatment is about to make is a whole chunk and fits, or fails.
LEMMA CopyFits ==
  ASSUME TypeInv, FillInv, treat = "copy"
  PROVE  /\ "overrun" \notin CopyFault
         /\ received.len >= 0 => received.len = ChunkBytes
<1>1. Len(window) \in Nat /\ ChunkBytes \in Nat \ {0}
  BY LenProperties, ConstantsAssumption DEF TypeInv, TypeOK
<1>2. CASE Whole(received)
  <2>1. CASE received.len = -1
    BY <1>1, <2>1 DEF CopyFault, EINVAL, EIDRM
  <2>2. CASE received.len = ChunkBytes
    <3>1. CopyTarget \subseteq Bytes
      BY <1>1, <2>2, Fits DEF FillInv
    <3> QED
      BY <1>1, <2>2, <3>1 DEF CopyFault, EINVAL, EIDRM
  <2> QED
    BY <1>2, <2>1, <2>2 DEF Whole
<1>3. CASE received \in {Failed(EINVAL), Failed(EIDRM)}
  BY <1>3 DEF Failed, CopyFault, EINVAL, EIDRM
<1> QED
  BY <1>2, <1>3 DEF FillInv

\* Every step keeps the fill level a number of whole chunks.
LEMMA FillStep ==
  ASSUME OnlyWholeChunks
  PROVE  TypeInv /\ FillInv /\ [Next]_vars => FillInv'
<1> SUFFICES ASSUME TypeInv, FillInv, [Next]_vars PROVE FillInv'
  OBVIOUS
<1> DEFINE msgs == mailbox_treatment.msgs
<1>t. /\ mailbox_treatment \in Queues(Chunks) /\ Len(msgs) \in Nat
      /\ Len(window) \in Nat /\ window \in Seq(0 .. MaxChunk) /\ ChunkBytes \in Nat \ {0}
      /\ ChunksPerWindow \in Nat \ {0}
  BY LenProperties, ConstantsAssumption DEF TypeInv, TypeOK, Queues
<1>u. CASE UNCHANGED vars
  BY <1>u, FillUntouched DEF vars, treat_vars
<1>e. CASE SwitchAudio \/ Stop \/ Monitoring
  BY <1>e, FillUntouched
  DEF SwitchAudio, Stop, Monitoring, MonLoop, MonRead, MonCrash, MonPrint, treat_vars
<1>1. CASE AcqCreate
  <2>1. UNCHANGED <<received, size, window, faults, treat>>
    BY <1>1 DEF AcqCreate, treat_vars
  <2>2. CASE mailbox_treatment' = Created(PoolSlots)
    BY <2>1, <2>2, FillEmptied DEF Created
  <2>3. CASE UNCHANGED mailbox_treatment
    BY <2>1, <2>3, FillUntouched
  <2> QED
    BY <1>1, <2>2, <2>3 DEF AcqCreate
<1>2. CASE AcqSetPeriodic
  BY <1>2, FillUntouched DEF AcqSetPeriodic, treat_vars
<1>3. CASE AcqAlloc
  BY <1>3, <1>t, AllocFreed, FillUntouched DEF AcqAlloc, treat_vars
<1>4. CASE AcqReadSend
  <2>1. UNCHANGED <<received, size, window, faults, treat>>
    BY <1>4 DEF AcqReadSend, treat_vars
  <2>2. CASE UNCHANGED mailbox_treatment
    BY <2>1, <2>2, FillUntouched
  <2>3. ASSUME NEW r \in ReadResults \ {0},
               mailbox_treatment' =
                 Send(mailbox_treatment, [id |-> captured + 1, len |-> r])
        PROVE  FillInv'
    <3> DEFINE m == [id |-> captured + 1, len |-> r]
    <3>1. m \in Chunks
      BY <1>4, ConstantsAssumption DEF AcqReadSend, TypeInv, TypeOK, CaptureBound, Chunks
    <3>2. Whole(m)
      BY DEF OnlyWholeChunks, Whole
    <3>3. /\ Len(mailbox_treatment'.msgs) = Len(msgs) + 1
          /\ \A i \in 1 .. Len(msgs) : mailbox_treatment'.msgs[i] = msgs[i]
          /\ mailbox_treatment'.msgs[Len(msgs) + 1] = m
      BY <1>t, <2>3, <3>1, Sending
    <3>4. \A i \in 1 .. Len(msgs) + 1 : i \in 1 .. Len(msgs) \/ i = Len(msgs) + 1
      BY <1>t
    <3>5. \A i \in 1 .. Len(mailbox_treatment'.msgs) :
            Whole(mailbox_treatment'.msgs[i])
      BY <3>2, <3>3, <3>4 DEF FillInv
    <3> QED
      BY <2>1, <3>5 DEF FillInv, NoOverrun
  <2> QED
    BY <1>4, <2>2, <2>3, Zenon DEF AcqReadSend
<1>5. CASE AcqExit
  BY <1>5, FillEmptied DEF AcqExit, Delete, treat_vars
<1>6. CASE TreatCreate \/ TreatLoop \/ TreatSend \/ TreatExit
  BY <1>6, FillUntouched
  DEF TreatCreate, TreatLoop, TreatSend, TreatExit, acq_vars
<1>7. CASE TreatReceive
  <2>1. /\ treat = "recv" /\ treat' = "copy"
        /\ UNCHANGED <<size, window, faults>>
    BY <1>7 DEF TreatReceive
  <2>2. CASE /\ HasMessage(mailbox_treatment)
             /\ received' = Head(msgs)
             /\ mailbox_treatment' = Received(mailbox_treatment)
    <3>1. /\ received' = msgs[1] /\ Len(msgs) \in Nat \ {0}
          /\ Len(mailbox_treatment'.msgs) = Len(msgs) - 1
          /\ \A i \in 1 .. Len(mailbox_treatment'.msgs) :
               mailbox_treatment'.msgs[i] = msgs[i + 1]
      BY <1>t, <2>2, Receiving
    <3>2. /\ 1 \in 1 .. Len(msgs)
          /\ \A i \in 1 .. Len(msgs) - 1 : i + 1 \in 1 .. Len(msgs)
      BY <3>1
    <3>3. /\ Whole(received')
          /\ \A i \in 1 .. Len(mailbox_treatment'.msgs) :
               Whole(mailbox_treatment'.msgs[i])
      BY <3>1, <3>2 DEF FillInv
    <3> QED
      BY <2>1, <3>3 DEF FillInv, NoOverrun, Whole
  <2>3. CASE /\ UNCHANGED mailbox_treatment
             /\ received' \in {Failed(EINVAL), Failed(EIDRM)}
    BY <2>1, <2>3 DEF FillInv, NoOverrun, Failed
  <2> QED
    BY <1>7, <2>2, <2>3 DEF TreatReceive
<1>8. CASE TreatCopy
  <2>1. treat = "copy" /\ received.len >= 0 /\ UNCHANGED received
    BY <1>8 DEF TreatCopy
  <2>2. received.len = ChunkBytes /\ "overrun" \notin CopyFault
    BY <2>1, CopyFits
  <2>3. mailbox_treatment'.msgs = msgs /\ NoOverrun'
    BY <1>8, <1>t, <2>2, AllocFreed DEF TreatCopy, Release, FillInv, NoOverrun
  <2>4. Len(window') = Len(window) + 1 /\ size' = size + ChunkBytes
    <3>1. PICK id \in 0 .. MaxChunk : window' = Append(window, id)
      BY <1>8, ConstantsAssumption DEF TreatCopy, TypeInv, TypeOK, Chunks
    <3> QED
      BY <1>8, <1>t, <2>2, <3>1, AppendProperties DEF TreatCopy
  <2>5. size' = Len(window') * ChunkBytes
    BY <1>t, <2>4 DEF FillInv
  <2>6. treat' # "copy" /\ (treat' # "fft" => size' < FFT_BUFFER_SIZE)
    <3>1. size' \in Nat /\ FFT_BUFFER_SIZE \in Nat
      BY <1>t, <2>4, <2>5 DEF FFT_BUFFER_SIZE
    <3> QED
      BY <1>8, <3>1 DEF TreatCopy, Full
  <2>7. treat' # "fft" => Len(window') < ChunksPerWindow
    <3>1. Len(window') >= ChunksPerWindow =>
            Len(window') * ChunkBytes >= ChunksPerWindow * ChunkBytes
      BY <1>t, <2>4, Monotonic
    <3>2. Len(window') * ChunkBytes \in Nat /\ ChunksPerWindow * ChunkBytes \in Nat
      BY <1>t, <2>4
    <3> QED
      BY <1>t, <2>4, <2>5, <2>6, <3>1, <3>2 DEF FFT_BUFFER_SIZE
  <2> QED
    BY <2>1, <2>3, <2>5, <2>6, <2>7 DEF FillInv, Whole
<1>9. CASE TreatCrash
  <2>1. "overrun" \notin CopyFault
    BY <1>9, CopyFits DEF TreatCrash
  <2> QED
    BY <1>9, <2>1, FillUntouched DEF TreatCrash, treat_vars
<1>10. CASE TreatFft
  <2>1. /\ size' = 0 /\ window' = << >> /\ treat' \notin {"fft", "copy"}
        /\ UNCHANGED <<mailbox_treatment, received, faults>>
    BY <1>10 DEF TreatFft
  <2>2. Len(window') = 0 /\ 0 * ChunkBytes = 0
    BY <1>t, <2>1, EmptySeq
  <2> QED
    BY <1>t, <2>1, <2>2 DEF FillInv, NoOverrun
<1> QED
  BY <1>u, <1>e, <1>1, <1>2, <1>3, <1>4, <1>5, <1>6, <1>7, <1>8, <1>9, <1>10
  DEF Next, Acquisition, Treatment, Terminated

\* As long as the codec delivers whole chunks or none, no copy leaves x: the
\* double distance at which chunks land just fits the samples of x.
THEOREM WholeChunksFit ==
  ASSUME OnlyWholeChunks
  PROVE  Spec => []NoOverrun
<1>1. Spec => [](TypeInv /\ FillInv)
  BY TypeInit, TypeStep, FillInit, FillStep, PTL DEF Spec
<1>2. FillInv => NoOverrun
  BY DEF FillInv
<1> QED
  BY <1>1, <1>2, PTL

-----------------------------------------------------------------------------
(* What the FFT reads *)

\* The bytes of x at which the k-th chunk of a window lands: chunks are twice as
\* far from each other as they are long.
Place(k) == LET s == (k - 1) * ChunkBytes IN 2 * s .. 2 * s + ChunkBytes - 1

\* As long as nothing undefined has happened, a chunk of the window is found at
\* its place and nowhere else: what the place of another holds, and what is left
\* of earlier windows, has the number of an earlier chunk.
InPlace ==
  /\ \A b \in Bytes : x[b] <= consumed
  /\ \A k \in 1 .. Len(window) : window[k] <= consumed
  /\ \A k \in 1 .. Len(window), b \in Bytes : x[b] = window[k] <=> b \in Place(k)
WindowInv ==
  /\ treat = "fft" => Len(window) = ChunksPerWindow
  /\ faults = {} => InPlace

\* A place is as long as a chunk, lies within x and does not overlap a later one.
LEMMA Places ==
  ASSUME NEW k \in 1 .. ChunksPerWindow
  PROVE  /\ Place(k) \subseteq Bytes
         /\ Cardinality(Place(k)) = ChunkBytes
         /\ \A j \in 1 .. k - 1 : Place(j) \cap Place(k) = {}
<1> DEFINE C == ChunkBytes
           s == (k - 1) * C
<1>1. C \in Nat /\ C >= 1 /\ ChunksPerWindow \in Nat /\ k \in Nat /\ k - 1 \in Nat
  BY ConstantsAssumption
<1>2. s \in Nat /\ Place(k) = 2 * s .. 2 * s + C - 1
  BY <1>1 DEF Place
<1>3. k * C <= ChunksPerWindow * C
  BY <1>1, Monotonic
<1>4. ASSUME NEW j \in Nat PROVE (j + 1) * C = j * C + C /\ j * C \in Nat
  BY <1>1
<1>5. k * C = s + C
  <2>1. (k - 1) + 1 = k
    BY <1>1
  <2> QED
    BY <1>1, <1>4, <2>1
<1>6. FFT_BUFFER_SIZE = ChunksPerWindow * C /\ FFT_BUFFER_SIZE \in Nat
  BY <1>1 DEF FFT_BUFFER_SIZE
<1>7. ASSUME NEW j \in 1 .. k - 1 PROVE Place(j) \cap Place(k) = {}
  <2> DEFINE r == (j - 1) * C
  <2>1. j \in Nat /\ j - 1 \in Nat /\ (j - 1) + 1 = j /\ j <= k - 1
    BY <1>1
  <2>2. j * C <= (k - 1) * C
    BY <1>1, <2>1, Monotonic
  <2>3. j * C = r + C /\ r \in Nat
    BY <1>4, <2>1
  <2>4. Place(j) = 2 * r .. 2 * r + C - 1
    BY DEF Place
  <2> HIDE DEF r, s, C
  <2>5. r + C <= s
    BY <2>2, <2>3 DEF s
  <2> QED
    BY <1>1, <1>2, <2>3, <2>4, <2>5
<1> HIDE DEF s, C
<1>8. Place(k) \subseteq Bytes
  BY <1>1, <1>2, <1>3, <1>5, <1>6 DEF Bytes
<1>9. Cardinality(Place(k)) = C
  BY <1>1, <1>2, FS_Interval
<1> QED
  BY <1>7, <1>8, <1>9 DEF C

\* The window holds nothing yet.
LEMMA WindowInit == Init => WindowInv
<1> SUFFICES ASSUME Init PROVE WindowInv
  OBVIOUS
<1>1. Len(window) = 0
  BY EmptySeq DEF Init
<1> QED
  BY <1>1 DEF Init, WindowInv, InPlace

\* Steps that do not copy leave the window alone.
LEMMA WindowUntouched ==
  ASSUME WindowInv, UNCHANGED <<x, window, consumed>>,
         faults' = {} => faults = {}, treat' = "fft" => treat = "fft"
  PROVE  WindowInv'
BY DEF WindowInv, InPlace

\* A copy puts its chunk behind those of the window and touches none of them.
LEMMA WindowCopied ==
  ASSUME TypeInv, PoolInv, OrderInv, FillInv, WindowInv, TreatCopy
  PROVE  WindowInv'
<1> DEFINE n == Len(window)
           C == ChunkBytes
           id == received.id
<1>1. /\ treat = "copy" /\ received.len >= 0
      /\ faults' = faults \cup CopyFault /\ consumed' = id
      /\ size' = size + received.len
  BY DEF TreatCopy
<1>2. /\ n \in Nat /\ n < ChunksPerWindow /\ C \in Nat \ {0} /\ ChunksPerWindow \in Nat
      /\ window \in Seq(0 .. MaxChunk) /\ x \in [Bytes -> 0 .. MaxChunk]
      /\ id \in 0 .. MaxChunk /\ consumed \in 0 .. MaxChunk /\ MaxChunk \in Nat
      /\ size = n * C
  BY <1>1, LenProperties, ConstantsAssumption DEF TypeInv, TypeOK, Chunks, FillInv
<1>3. received.len = C
  BY <1>1, CopyFits
<1>4. PICK m \in 0 .. MaxChunk : /\ window' = Append(window, m)
                                 /\ IsOpen(mailbox_treatment) => m = id
                                 /\ x' = [b \in Bytes |-> IF b \in CopyTarget THEN m ELSE x[b]]
  BY <1>2 DEF TreatCopy
<1>5. /\ Len(window') = n + 1 /\ window'[n + 1] = m
      /\ \A k \in 1 .. n : window'[k] = window[k]
  BY <1>2, <1>4, AppendProperties
<1>6. treat' = "fft" => Len(window') = ChunksPerWindow
  <2> SUFFICES ASSUME treat' = "fft" PROVE n + 1 >= ChunksPerWindow
    BY <1>2, <1>5
  <2>1. n * C + C >= ChunksPerWindow * C
    BY <1>1, <1>2, <1>3 DEF TreatCopy, Full, FFT_BUFFER_SIZE
  <2>2. n + 2 <= ChunksPerWindow => (n + 2) * C <= ChunksPerWindow * C
    BY <1>2, Monotonic, SMTT(30)
  <2>3. (n + 2) * C = n * C + C + C /\ n * C \in Nat /\ ChunksPerWindow * C \in Nat
    BY <1>2
  <2> HIDE DEF C
  <2> QED
    BY <1>2, <2>1, <2>2, <2>3
<1>7. ASSUME faults' = {} PROVE InPlace'
  <2>1. faults = {} /\ CopyFault = {}
    BY <1>1, <1>7
  <2>2. IsOpen(mailbox_treatment)
    BY <1>2, <1>3, <2>1 DEF CopyFault, EINVAL, EIDRM
  <2>3. m = id /\ consumed < id
    <3>1. TreatHolds = 1
      BY <1>1, <1>2 DEF PoolInv, HeldIsNumbered, TreatHolds
    <3> QED
      BY <1>4, <2>2, <3>1 DEF OrderInv
  <2>4. CopyTarget = Place(n + 1)
    <3>1. (n + 1) - 1 = n
      BY <1>2
    <3> QED
      BY <1>2, <1>3, <3>1 DEF CopyTarget, CopyStart, Place
  <2>5. InPlace
    BY <2>1 DEF WindowInv
  <2>6. \A b \in Bytes : x'[b] = IF b \in Place(n + 1) THEN id ELSE x[b]
    BY <1>4, <2>3, <2>4
  <2>7. \A b \in Bytes : x[b] \in Nat
    BY <1>2
  <2>8. \A k \in 1 .. n : window[k] \in Nat
    BY <1>2, ElementOfSeq
  <2>9. n + 1 \in 1 .. ChunksPerWindow /\ (n + 1) - 1 = n
    BY <1>2
  <2>10. \A k \in 1 .. n : Place(k) \cap Place(n + 1) = {}
    BY <2>9, Places
  <2> HIDE DEF n, id
  <2>11. \A b \in Bytes : x'[b] <= consumed'
    BY <1>1, <1>2, <2>3, <2>5, <2>6, <2>7 DEF InPlace
  <2>12. \A k \in 1 .. n : window'[k] <= consumed'
    BY <1>1, <1>2, <1>5, <2>3, <2>5, <2>8, SMTT(30) DEF InPlace, n
  <2>13. ASSUME NEW k \in 1 .. n, NEW b \in Bytes
         PROVE  x'[b] = window'[k] <=> b \in Place(k)
    <3>1. window[k] <= consumed /\ (x[b] = window[k] <=> b \in Place(k))
      BY <2>5 DEF InPlace, n
    <3>2. b \in Place(n + 1) => b \notin Place(k)
      BY <2>10
    <3> QED
      BY <1>2, <1>5, <2>3, <2>6, <2>8, <3>1, <3>2
  <2>14. ASSUME NEW b \in Bytes
         PROVE  x'[b] = window'[n + 1] <=> b \in Place(n + 1)
    <3>1. x[b] <= consumed
      BY <2>5 DEF InPlace
    <3> QED
      BY <1>2, <1>5, <2>3, <2>6, <2>7, <3>1
  <2>15. \A k \in 1 .. n + 1 : k \in 1 .. n \/ k = n + 1
    BY <1>2
  <2>16. window'[n + 1] <= consumed'
    BY <1>1, <1>2, <1>5, <2>3
  <2>17. \A k \in 1 .. Len(window') : window'[k] <= consumed'
    BY <1>5, <2>12, <2>15, <2>16
  <2>18. \A k \in 1 .. Len(window'), b \in Bytes : x'[b] = window'[k] <=> b \in Place(k)
    BY <1>5, <2>13, <2>14, <2>15
  <2> QED
    BY <2>11, <2>17, <2>18 DEF InPlace
<1> QED
  BY <1>6, <1>7 DEF WindowInv

\* Every step keeps the window intact.
LEMMA WindowStep ==
  TypeInv /\ PoolInv /\ OrderInv /\ FillInv /\ WindowInv /\ [Next]_vars => WindowInv'
<1> SUFFICES ASSUME TypeInv, PoolInv, OrderInv, FillInv, WindowInv, [Next]_vars
             PROVE  WindowInv'
  OBVIOUS
<1>u. CASE UNCHANGED vars
  BY <1>u, WindowUntouched DEF vars, treat_vars
<1>e. CASE SwitchAudio \/ Stop \/ Monitoring
  BY <1>e, WindowUntouched
  DEF SwitchAudio, Stop, Monitoring, MonLoop, MonRead, MonCrash, MonPrint, treat_vars
<1>1. CASE Acquisition
  BY <1>1, WindowUntouched
  DEF Acquisition, AcqCreate, AcqSetPeriodic, AcqAlloc, AcqReadSend, AcqExit, treat_vars
<1>2. CASE TreatCreate \/ TreatLoop \/ TreatReceive \/ TreatSend \/ TreatExit \/ TreatCrash
  BY <1>2, WindowUntouched
  DEF TreatCreate, TreatLoop, TreatReceive, TreatSend, TreatExit, TreatCrash, treat_vars
<1>3. CASE TreatCopy
  BY <1>3, WindowCopied
<1>4. CASE TreatFft
  <2>1. Len(window') = 0 /\ treat' # "fft" /\ UNCHANGED <<x, consumed, faults>>
    BY <1>4, EmptySeq DEF TreatFft
  <2> QED
    BY <2>1 DEF WindowInv, InPlace
<1> QED
  BY <1>u, <1>e, <1>1, <1>2, <1>3, <1>4 DEF Next, Treatment, Terminated

\* As long as the codec delivers whole chunks or none, the FFT starts on a full
\* window and finds in x every byte of every chunk of it (audio_setup.c:76-85),
\* unless something undefined has happened before.
THEOREM WindowsIntact ==
  ASSUME OnlyWholeChunks
  PROVE  Spec => []WindowIntact
<1>1. Spec => []WindowInv
  BY TypeInit, TypeStep, PoolInit, PoolStep, OrderInit, OrderStep, FillInit, FillStep,
     WindowInit, WindowStep, PTL DEF Spec
<1>2. TypeOK /\ WindowInv => WindowIntact
  <2> SUFFICES ASSUME TypeOK, WindowInv, treat = "fft", faults = {}, NEW k \in DOMAIN window
               PROVE  Cardinality({b \in Bytes : x[b] = window[k]}) = ChunkBytes
    BY DEF WindowInv, WindowIntact
  <2>1. k \in 1 .. Len(window) /\ k \in 1 .. ChunksPerWindow
    BY LenProperties DEF TypeOK, WindowInv
  <2>2. {b \in Bytes : x[b] = window[k]} = Place(k)
    BY <2>1, Places DEF WindowInv, InPlace
  <2> QED
    BY <2>1, <2>2, Places
<1> QED
  BY <1>1, <1>2, TypeCorrect, PTL

-----------------------------------------------------------------------------
(* Whatever read() delivers *)

\* Treatment leaves room in x whenever it comes back to the mailbox.
RoomInv == treat # "fft" => size < FFT_BUFFER_SIZE

\* There is room for a sample in x.
LEMMA SomeRoom == FFT_BUFFER_SIZE \in Nat \ {0}
<1>1. ASSUME NEW a \in Nat \ {0}, NEW b \in Nat \ {0} PROVE a * b \in Nat \ {0}
  BY <1>1
<1> QED
  BY <1>1, ConstantsAssumption DEF FFT_BUFFER_SIZE

\* Every step leaves room: the fill level is tested after each copy.
LEMMA RoomStep == TypeInv /\ RoomInv /\ [Next]_vars => RoomInv'
<1> SUFFICES ASSUME TypeInv, RoomInv, [Next]_vars PROVE RoomInv'
  OBVIOUS
<1>1. CASE TreatCopy
  <2>1. size' \in Nat
    BY <1>1, ConstantsAssumption DEF TreatCopy, TypeInv, TypeOK, Chunks
  <2> QED
    BY <1>1, <2>1, SomeRoom DEF TreatCopy, Full, RoomInv
<1>2. CASE TreatFft
  BY <1>2, SomeRoom DEF TreatFft, RoomInv
<1>3. CASE UNCHANGED size /\ (treat' # "fft" => treat # "fft")
  BY <1>3 DEF RoomInv
<1>4. CASE UNCHANGED vars \/ SwitchAudio \/ Stop \/ Acquisition \/ Monitoring
  BY <1>3, <1>4
  DEF vars, treat_vars, SwitchAudio, Stop, Acquisition, AcqCreate, AcqSetPeriodic, AcqAlloc,
      AcqReadSend, AcqExit, Monitoring, MonLoop, MonRead, MonCrash, MonPrint
<1>5. CASE TreatCreate \/ TreatLoop \/ TreatReceive \/ TreatCrash \/ TreatSend \/ TreatExit
  BY <1>3, <1>5
  DEF TreatCreate, TreatLoop, TreatReceive, TreatCrash, TreatSend, TreatExit, treat_vars
<1> QED
  BY <1>1, <1>2, <1>4, <1>5 DEF Next, Treatment, Terminated

\* A copy starts within x and ends less than a chunk past it, for every length that
\* read() may return: only the last copy before an FFT can leave x.
THEOREM OverrunStaysShort == Spec => []OverrunIsShort
<1>1. Init => RoomInv
  BY SomeRoom DEF Init, RoomInv
<1>2. TypeOK /\ RoomInv => OverrunIsShort
  <2> SUFFICES ASSUME TypeOK, RoomInv, treat = "copy", received.len > 0
               PROVE  /\ CopyStart \in Bytes
                      /\ CopyTarget \subseteq 0 .. 2 * FFT_BUFFER_SIZE + ChunkBytes - 3
                      /\ CopyTarget \subseteq Bytes \/ size + received.len >= FFT_BUFFER_SIZE
    BY DEF OverrunIsShort
  <2>1. /\ size \in Nat /\ size < FFT_BUFFER_SIZE /\ FFT_BUFFER_SIZE \in Nat
        /\ received.len \in Nat /\ received.len <= ChunkBytes /\ ChunkBytes \in Nat
    BY SomeRoom, ConstantsAssumption DEF TypeOK, Chunks, RoomInv
  <2> QED
    BY <2>1 DEF CopyStart, CopyTarget, Bytes
<1> QED
  BY <1>1, <1>2, TypeInit, TypeStep, RoomStep, TypeCorrect, PTL DEF Spec

-----------------------------------------------------------------------------
(* The bytes of the window *)

\* The bytes of x that hold chunks of the window.
Current == {b \in Bytes : \E k \in 1 .. Len(window) : x[b] = window[k]}

\* They lie below the place of the next copy, and they are as many as the fill level
\* says: chunks land apart from each other, and older ones have lower numbers.
Counted == Current \subseteq 0 .. 2 * size - 1 /\ Cardinality(Current) = size
CountInv ==
  /\ \A b \in Bytes : x[b] <= consumed
  /\ \A k \in 1 .. Len(window) : window[k] <= consumed
  /\ faults = {} => Counted

\* The window is empty.
LEMMA CountInit == Init => CountInv
<1> SUFFICES ASSUME Init PROVE CountInv
  OBVIOUS
<1>1. Len(window) = 0
  BY EmptySeq DEF Init
<1>2. Current = {}
  BY <1>1 DEF Current
<1> QED
  BY <1>1, <1>2, FS_EmptySet DEF Init, CountInv, Counted

\* Steps that do not copy leave the count alone.
LEMMA CountUntouched ==
  ASSUME CountInv, UNCHANGED <<x, size, window, consumed>>, faults' = {} => faults = {}
  PROVE  CountInv'
BY DEF CountInv, Counted, Current

\* A copy adds the bytes of its chunk and takes none away.
LEMMA CountCopied ==
  ASSUME TypeInv, PoolInv, OrderInv, CountInv, TreatCopy
  PROVE  CountInv'
<1> DEFINE n == Len(window)
           id == received.id
           len == received.len
<1>1. /\ treat = "copy" /\ len >= 0
      /\ faults' = faults \cup CopyFault /\ consumed' = id /\ size' = size + len
  BY DEF TreatCopy
<1>2. /\ n \in Nat /\ window \in Seq(0 .. MaxChunk) /\ x \in [Bytes -> 0 .. MaxChunk]
      /\ id \in Nat /\ id \in 0 .. MaxChunk /\ consumed \in Nat /\ size \in Nat /\ len \in Nat
      /\ MaxChunk \in Nat
  BY <1>1, LenProperties, ConstantsAssumption DEF TypeInv, TypeOK, Chunks
<1>3. consumed < id
  <2>1. TreatHolds = 1
    BY <1>1, <1>2 DEF PoolInv, HeldIsNumbered, TreatHolds
  <2> QED
    BY <2>1 DEF OrderInv
<1>4. PICK m \in {0, id} : /\ window' = Append(window, m)
                           /\ IsOpen(mailbox_treatment) => m = id
                           /\ x' = [b \in Bytes |-> IF b \in CopyTarget THEN m ELSE x[b]]
  BY <1>2 DEF TreatCopy
<1>5. /\ Len(window') = n + 1 /\ window'[n + 1] = m
      /\ \A k \in 1 .. n : window'[k] = window[k]
  BY <1>2, <1>4, AppendProperties
<1>6. /\ \A b \in Bytes : x[b] \in Nat /\ x[b] <= consumed
      /\ \A k \in 1 .. n : window[k] \in Nat /\ window[k] <= consumed
      /\ m \in Nat /\ m <= id
  BY <1>2, <1>4, ElementOfSeq DEF CountInv
<1>7. \A k \in 1 .. n + 1 : k \in 1 .. n \/ k = n + 1
  BY <1>2
<1> HIDE DEF n, id, len
<1>8. \A b \in Bytes : x'[b] <= consumed'
  BY <1>1, <1>2, <1>3, <1>4, <1>6
<1>9. \A k \in 1 .. Len(window') : window'[k] <= consumed'
  BY <1>1, <1>2, <1>3, <1>5, <1>6, <1>7
<1>10. ASSUME faults' = {} PROVE Counted'
  <2>1. faults = {} /\ CopyFault = {}
    BY <1>1, <1>10
  <2>2. IsOpen(mailbox_treatment) /\ CopyTarget \subseteq Bytes
    BY <1>2, <2>1 DEF CopyFault, EINVAL, EIDRM, len
  <2>3. m = id
    BY <1>4, <2>2
  <2>4. Counted
    BY <2>1 DEF CountInv
  <2>5. CopyTarget = 2 * size .. 2 * size + len - 1
    BY DEF CopyTarget, CopyStart, len
  <2>6. Current' = Current \cup CopyTarget
    <3>1. ASSUME NEW b \in Bytes, b \in CopyTarget PROVE b \in Current'
      <4>1. x'[b] = window'[n + 1] /\ n + 1 \in 1 .. n + 1
        BY <1>2, <1>4, <1>5, <3>1
      <4> QED
        BY <1>5, <4>1 DEF Current
    <3>2. ASSUME NEW b \in Current, b \notin CopyTarget PROVE b \in Current'
      <4>1. PICK k \in 1 .. n : x[b] = window[k]
        BY DEF Current, n
      <4>2. x'[b] = window'[k] /\ k \in 1 .. n + 1
        BY <1>2, <1>4, <1>5, <3>2, <4>1 DEF Current
      <4> QED
        BY <1>5, <4>2 DEF Current
    <3>3. ASSUME NEW b \in Current', b \notin CopyTarget PROVE b \in Current
      <4>1. b \in Bytes /\ x'[b] = x[b]
        BY <1>4, <3>3 DEF Current
      <4>2. PICK k \in 1 .. n + 1 : x'[b] = window'[k]
        BY <1>5 DEF Current
      <4>3. k # n + 1
        <5>1. x[b] < id
          BY <1>2, <1>3, <1>6, <4>1
        <5> QED
          BY <1>2, <1>5, <1>6, <2>3, <4>1, <4>2, <5>1
      <4>4. k \in 1 .. n /\ x[b] = window[k]
        BY <1>5, <1>7, <4>1, <4>2, <4>3
      <4> QED
        BY <4>1, <4>4 DEF Current, n
    <3> QED
      BY <2>2, <3>1, <3>2, <3>3
  <2>7. Current \cap CopyTarget = {}
    BY <1>2, <2>4, <2>5 DEF Counted
  <2>8. Cardinality(CopyTarget) = len /\ IsFiniteSet(CopyTarget)
    BY <1>2, <2>5, FS_Interval
  <2>9. IsFiniteSet(Current) /\ Cardinality(Current) = size
    <3>1. IsFiniteSet(0 .. 2 * size - 1)
      BY <1>2, FS_Interval
    <3> QED
      BY <2>4, <3>1, FS_Subset DEF Counted
  <2>10. Cardinality(Current') = size + len
    <3>1. Cardinality(Current \cup CopyTarget)
            = Cardinality(Current) + Cardinality(CopyTarget) - Cardinality(Current \cap CopyTarget)
      BY <2>8, <2>9, FS_Union
    <3>2. Cardinality(Current \cap CopyTarget) = 0
      BY <2>7, FS_EmptySet
    <3> QED
      BY <1>2, <2>6, <2>8, <2>9, <3>1, <3>2
  <2>11. Current' \subseteq 0 .. 2 * (size + len) - 1
    <3>1. 0 .. 2 * size - 1 \subseteq 0 .. 2 * (size + len) - 1
      BY <1>2
    <3>2. ASSUME NEW a \in Nat, NEW l \in Nat
          PROVE  2 * a .. 2 * a + l - 1 \subseteq 0 .. 2 * (a + l) - 1
      OBVIOUS
    <3>3. CopyTarget \subseteq 0 .. 2 * (size + len) - 1
      BY <1>2, <2>5, <3>2
    <3> QED
      BY <2>4, <2>6, <3>1, <3>3 DEF Counted
  <2> QED
    BY <1>1, <2>10, <2>11 DEF Counted
<1> QED
  BY <1>8, <1>9, <1>10 DEF CountInv

\* Every step keeps the count.
LEMMA CountStep == TypeInv /\ PoolInv /\ OrderInv /\ CountInv /\ [Next]_vars => CountInv'
<1> SUFFICES ASSUME TypeInv, PoolInv, OrderInv, CountInv, [Next]_vars PROVE CountInv'
  OBVIOUS
<1>u. CASE UNCHANGED vars
  BY <1>u, CountUntouched DEF vars, treat_vars
<1>e. CASE SwitchAudio \/ Stop \/ Monitoring
  BY <1>e, CountUntouched
  DEF SwitchAudio, Stop, Monitoring, MonLoop, MonRead, MonCrash, MonPrint, treat_vars
<1>1. CASE Acquisition
  BY <1>1, CountUntouched
  DEF Acquisition, AcqCreate, AcqSetPeriodic, AcqAlloc, AcqReadSend, AcqExit, treat_vars
<1>2. CASE TreatCreate \/ TreatLoop \/ TreatReceive \/ TreatSend \/ TreatExit \/ TreatCrash
  BY <1>2, CountUntouched
  DEF TreatCreate, TreatLoop, TreatReceive, TreatSend, TreatExit, TreatCrash, treat_vars
<1>3. CASE TreatCopy
  BY <1>3, CountCopied
<1>4. CASE TreatFft
  <2>1. Len(window') = 0 /\ size' = 0 /\ UNCHANGED <<x, consumed>>
    BY <1>4, EmptySeq DEF TreatFft
  <2>2. Counted'
    <3>1. Current' = {}
      BY <2>1 DEF Current
    <3> QED
      BY <2>1, <3>1, FS_EmptySet DEF Counted
  <2> QED
    BY <2>1, <2>2 DEF CountInv
<1> QED
  BY <1>u, <1>e, <1>1, <1>2, <1>3, <1>4 DEF Next, Treatment, Terminated

\* Whatever read() delivers, the FFT starts on a window of which x holds as many bytes
\* as size counts (audio_setup.c:76-85), unless something undefined has happened before.
THEOREM WindowsCounted == Spec => []WindowCounted
<1>1. Spec => []CountInv
  BY TypeInit, TypeStep, PoolInit, PoolStep, OrderInit, OrderStep, CountInit, CountStep,
     PTL DEF Spec
<1>2. TypeOK /\ CountInv => WindowCounted
  <2> SUFFICES ASSUME TypeOK, CountInv, faults = {}
               PROVE  Cardinality({b \in Bytes : \E k \in DOMAIN window : x[b] = window[k]}) = size
    BY DEF WindowCounted
  <2>1. DOMAIN window = 1 .. Len(window)
    BY LenProperties DEF TypeOK
  <2> QED
    BY <2>1 DEF CountInv, Counted, Current
<1> QED
  BY <1>1, <1>2, TypeCorrect, PTL

-----------------------------------------------------------------------------
(* When treatment gives up *)

\* From the creation of mailbox_logging to its deletion treatment finds it open.
LogOpen == treat \notin {"create", "done"} => IsOpen(mailbox_logging)

\* Every step keeps the logging mailbox open while results are sent.
LEMMA LogOpenStep == TypeInv /\ LogOpen /\ [Next]_vars => LogOpen'
<1> SUFFICES ASSUME TypeInv, LogOpen, [Next]_vars PROVE LogOpen'
  OBVIOUS
<1> USE DEF LogOpen, IsOpen
<1>t. mailbox_logging \in Queues(Nat)
  BY DEF TypeInv, TypeOK
<1>1. CASE UNCHANGED <<treat, mailbox_logging>>
  BY <1>1
<1>2. CASE Monitoring
  <2>1. CASE MonRead
    <3>1. /\ HasMessage(mailbox_logging) => Read(mailbox_logging).state = mailbox_logging.state
          /\ treat' = treat
      BY <1>t, <2>1, Receiving, AllocFreed DEF Read, MonRead, treat_vars
    <3> QED
      BY <2>1, <3>1 DEF MonRead
  <2> QED
    BY <1>2, <2>1 DEF Monitoring, MonLoop, MonCrash, MonPrint, treat_vars
<1>3. CASE Treatment
  <2>1. CASE TreatCreate
    BY <2>1 DEF TreatCreate, Created
  <2>2. CASE TreatFft
    BY <1>t, <2>2, AllocFreed DEF TreatFft
  <2>3. CASE TreatSend
    BY <2>3 DEF TreatSend, Send
  <2>4. CASE TreatExit
    BY <2>4 DEF TreatExit
  <2>5. CASE TreatLoop \/ TreatReceive \/ TreatCopy \/ TreatCrash
    BY <2>5 DEF TreatLoop, TreatReceive, TreatCopy, TreatCrash, treat_vars
  <2> QED
    BY <1>3, <2>1, <2>2, <2>3, <2>4, <2>5 DEF Treatment
<1>4. CASE SwitchAudio \/ Stop \/ Acquisition
  BY <1>4
  DEF SwitchAudio, Stop, Acquisition, AcqCreate, AcqSetPeriodic, AcqAlloc, AcqReadSend, AcqExit,
      treat_vars
<1> QED
  BY <1>1, <1>2, <1>3, <1>4 DEF Next, Terminated, vars, treat_vars

\* While the program runs, treatment leaves its loop only when every buffer of the
\* results waits for monitoring (audio_setup.c:105-110), or before the loop when
\* its mailbox cannot be created.
THEOREM GivesUpWhenFull == Spec => GivesUpOnlyWhenLogFull
<1> DEFINE GivesUp ==
             treat' \in {"exit", "done"} /\ treat \notin {"exit", "done"} /\ running =>
               treat = "create" \/ Len(mailbox_logging.msgs) = LogSlots
<1>1. Init => LogOpen
  BY DEF Init, LogOpen
<1>2. ASSUME TypeInv, LogPoolAccounting, LogOpen, [Next]_vars PROVE GivesUp
  <2> SUFFICES ASSUME treat' \in {"exit", "done"}, treat \notin {"exit", "done", "create"}, running
               PROVE  Len(mailbox_logging.msgs) = LogSlots
    OBVIOUS
  <2>1. TreatFft
    <3>1. treat' # treat
      OBVIOUS
    <3>2. Treatment
      BY <1>2, <3>1
      DEF Next, Terminated, vars, treat_vars, SwitchAudio, Stop, Monitoring, MonLoop, MonRead,
          MonCrash, MonPrint, Acquisition, AcqCreate, AcqSetPeriodic, AcqAlloc, AcqReadSend, AcqExit
    <3> QED
      BY <3>1, <3>2
      DEF Treatment, TreatCreate, TreatLoop, TreatReceive, TreatCopy, TreatCrash, TreatSend,
          TreatExit, treat_vars
  <2>2. treat = "fft" /\ ~CanAlloc(mailbox_logging) /\ IsOpen(mailbox_logging)
    BY <1>2, <2>1 DEF TreatFft, LogOpen
  <2>3. mailbox_logging.free \in Nat /\ Len(mailbox_logging.msgs) \in Nat
    BY <1>2, LenProperties DEF TypeInv, TypeOK, Queues
  <2>4. mailbox_logging.free = 0
    BY <2>2, <2>3 DEF CanAlloc
  <2> QED
    BY <1>2, <2>2, <2>3, <2>4 DEF LogPoolAccounting
<1>3. TypeInv /\ LogPoolAccounting /\ LogOpen /\ [Next]_vars => [GivesUp]_vars
  BY <1>2
<1>4. Spec => [](TypeInv /\ LogOpen)
  BY <1>1, TypeInit, TypeStep, LogOpenStep, PTL DEF Spec
<1> QED
  BY <1>3, <1>4, LogPoolAccounted, PTL DEF Spec, GivesUpOnlyWhenLogFull

-----------------------------------------------------------------------------
(* The stop *)

\* What a task leaves behind when it ends: mailboxes that are deleted.
GoneInv ==
  /\ acq = "done" => ~IsOpen(mailbox_treatment)
  /\ treat = "done" => ~IsOpen(mailbox_logging)

\* Steps that neither end a task nor open a mailbox.
LEMMA GoneUntouched ==
  ASSUME GoneInv, acq' = "done" => acq = "done", treat' = "done" => treat = "done",
         mailbox_treatment'.state = mailbox_treatment.state,
         mailbox_logging'.state = mailbox_logging.state
  PROVE  GoneInv'
BY DEF GoneInv, IsOpen

\* Every step keeps it, when the calls of the prologues succeed.
LEMMA GoneStep ==
  ASSUME ~SetupFails
  PROVE  TypeInv /\ GoneInv /\ [Next]_vars => GoneInv'
<1> SUFFICES ASSUME TypeInv, GoneInv, [Next]_vars PROVE GoneInv'
  OBVIOUS
<1>t. mailbox_treatment \in Queues(Chunks) /\ mailbox_logging \in Queues(Nat)
  BY DEF TypeInv, TypeOK
<1>u. CASE UNCHANGED vars
  BY <1>u, GoneUntouched DEF vars, acq_vars, treat_vars
<1>e. CASE SwitchAudio \/ Stop
  BY <1>e, GoneUntouched DEF SwitchAudio, Stop, acq_vars, treat_vars
<1>1. CASE AcqCreate
  <2>1. acq' = "period" /\ UNCHANGED <<treat, mailbox_logging>>
    BY <1>1 DEF AcqCreate, treat_vars
  <2> QED
    BY <2>1 DEF GoneInv
<1>2. CASE AcqSetPeriodic
  BY <1>2, GoneUntouched DEF AcqSetPeriodic, treat_vars
<1>3. CASE AcqAlloc
  BY <1>3, <1>t, AllocFreed, GoneUntouched DEF AcqAlloc, treat_vars
<1>4. CASE AcqReadSend
  <2>1. acq' = "loop" /\ UNCHANGED <<treat, mailbox_logging>>
    BY <1>4 DEF AcqReadSend, treat_vars
  <2> QED
    BY <2>1 DEF GoneInv
<1>5. CASE AcqExit
  <2>1. ~IsOpen(mailbox_treatment)' /\ UNCHANGED <<treat, mailbox_logging>>
    BY <1>5 DEF AcqExit, Delete, IsOpen, treat_vars
  <2> QED
    BY <2>1 DEF GoneInv
<1>6. CASE TreatCreate \/ TreatFft \/ TreatSend
  <2>1. treat' # "done" /\ UNCHANGED <<acq, mailbox_treatment>>
    BY <1>6 DEF TreatCreate, TreatFft, TreatSend, acq_vars
  <2> QED
    BY <2>1 DEF GoneInv
<1>7. CASE TreatLoop \/ TreatCrash
  BY <1>7, GoneUntouched DEF TreatLoop, TreatCrash, acq_vars, treat_vars
<1>8. CASE TreatReceive
  <2>1. mailbox_treatment'.state = mailbox_treatment.state
    BY <1>8, <1>t, Receiving DEF TreatReceive
  <2> QED
    BY <1>8, <2>1, GoneUntouched DEF TreatReceive, acq_vars
<1>9. CASE TreatCopy
  <2>1. mailbox_treatment'.state = mailbox_treatment.state
    BY <1>9, <1>t, AllocFreed DEF TreatCopy, Release
  <2> QED
    BY <1>9, <2>1, GoneUntouched DEF TreatCopy, acq_vars
<1>10. CASE TreatExit
  <2>1. ~IsOpen(mailbox_logging)' /\ UNCHANGED <<acq, mailbox_treatment>>
    BY <1>10 DEF TreatExit, Delete, IsOpen, acq_vars
  <2> QED
    BY <2>1 DEF GoneInv
<1>11. CASE MonLoop \/ MonCrash \/ MonPrint
  BY <1>11, GoneUntouched DEF MonLoop, MonCrash, MonPrint, acq_vars, treat_vars
<1>12. CASE MonRead
  <2>1. mailbox_logging'.state = mailbox_logging.state
    BY <1>12, <1>t, Receiving, AllocFreed DEF MonRead, Read
  <2> QED
    BY <1>12, <2>1, GoneUntouched DEF MonRead, acq_vars, treat_vars
<1> QED
  BY <1>u, <1>e, <1>1, <1>2, <1>3, <1>4, <1>5, <1>6, <1>7, <1>8, <1>9, <1>10, <1>11, <1>12
  DEF Next, Acquisition, Treatment, Monitoring, Terminated

\* When the calls of the prologues succeed, no task is left waiting for a message that
\* nobody will send: who ends, at the stop or before, deletes the mailbox it filled.
THEOREM WaitersAreWoken ==
  ASSUME ~SetupFails
  PROVE  Spec => []NoOrphanedWait
<1>1. Init => GoneInv
  BY DEF Init, GoneInv
<1>2. GoneInv => NoOrphanedWait
  BY DEF GoneInv, NoOrphanedWait
<1> QED
  BY <1>1, <1>2, TypeInit, TypeStep, GoneStep, PTL DEF Spec

\* The numbers of steps that are left to the tasks after a stop do not go below 0.
Left == AcqLeft \in Nat /\ TreatLeft \in Nat /\ MonLeft \in Nat

\* They are counted from the program counters and flags, whose types bound them.
LEMMA LeftCounted == TypeOK => Left
BY DEF TypeOK, Left, AcqLeft, TreatLeft, MonLeft

\* After the stop the tasks take no more steps than are left (13 at most), so that they can
\* only end, die or wait for ever: and that they do not wait is WaitersAreWoken.
THEOREM StopsShortly == Spec => StopIsShort
<1>1. ASSUME TypeOK, Left, Left', ~running, [Next]_vars
      PROVE  UNCHANGED vars \/ StepsLeft' < StepsLeft
  <2> DEFINE Alive == IF alive THEN 1 ELSE 0
  <2>1. /\ AcqLeft \in Nat /\ TreatLeft \in Nat /\ MonLeft \in Nat
        /\ AcqLeft' \in Nat /\ TreatLeft' \in Nat /\ MonLeft' \in Nat
    BY <1>1 DEF Left
  <2>2. /\ StepsLeft = AcqLeft + TreatLeft + MonLeft + Alive
        /\ StepsLeft' = AcqLeft' + TreatLeft' + MonLeft' + Alive'
        /\ Alive \in {0, 1} /\ Alive' \in {0, 1}
    BY DEF StepsLeft
  <2>3. CASE alive /\ ~alive' /\ UNCHANGED <<acq, treat, mon>>
    BY <2>1, <2>2, <2>3 DEF AcqLeft, TreatLeft, MonLeft
  <2>4. CASE UNCHANGED <<alive, treat, mon>> /\ AcqLeft' < AcqLeft
    BY <2>1, <2>2, <2>4 DEF TreatLeft, MonLeft
  <2>5. CASE UNCHANGED <<alive, acq, mon>> /\ TreatLeft' < TreatLeft
    BY <2>1, <2>2, <2>5 DEF AcqLeft, MonLeft
  <2>6. CASE UNCHANGED <<alive, acq, treat>> /\ MonLeft' < MonLeft
    BY <2>1, <2>2, <2>6 DEF AcqLeft, TreatLeft
  <2> HIDE DEF Alive
  <2>7. CASE Acquisition
    <3>1. UNCHANGED <<treat, mon>> /\ alive
      BY <2>7
      DEF Acquisition, AcqCreate, AcqSetPeriodic, AcqAlloc, AcqReadSend, AcqExit, treat_vars, mon_vars
    <3>2. CASE AcqCreate
      <4>1. CASE alive' = FALSE /\ UNCHANGED acq
        BY <2>3, <3>1, <4>1
      <4>2. CASE acq' = "period" /\ UNCHANGED alive
        BY <2>4, <3>1, <3>2, <4>2 DEF AcqCreate, AcqLeft
      <4> QED
        BY <3>2, <4>1, <4>2, Zenon DEF AcqCreate
    <3>3. CASE AcqSetPeriodic
      BY <2>4, <3>1, <3>3 DEF AcqSetPeriodic, AcqLeft
    <3>4. CASE AcqReadSend
      <4>1. acq = "read" /\ acq' = "loop" /\ UNCHANGED alive
        BY <3>4 DEF AcqReadSend
      <4> QED
        BY <2>4, <3>1, <4>1 DEF AcqLeft
    <3>5. CASE AcqExit
      BY <2>4, <3>1, <3>5 DEF AcqExit, AcqLeft
    <3> QED
      BY <1>1, <2>7, <3>2, <3>3, <3>4, <3>5 DEF Acquisition, AcqAlloc
  <2>8. CASE Treatment
    <3>1. CASE TreatCrash
      BY <2>3, <3>1 DEF TreatCrash, acq_vars, treat_vars, mon_vars
    <3>2. CASE TreatLoop \/ TreatCreate \/ TreatReceive \/ TreatCopy \/ TreatFft \/ TreatSend
               \/ TreatExit
      <4>1. UNCHANGED <<alive, acq, mon>>
        BY <3>2
        DEF TreatLoop, TreatCreate, TreatReceive, TreatCopy, TreatFft, TreatSend, TreatExit,
            acq_vars, mon_vars
      <4>2. CASE TreatLoop \/ TreatCreate \/ TreatReceive
        BY <1>1, <2>5, <4>1, <4>2 DEF TreatLoop, TreatCreate, TreatReceive, TreatLeft
      <4>3. CASE TreatCopy
        BY <2>5, <4>1, <4>3 DEF TreatCopy, TreatLeft
      <4>4. CASE TreatFft \/ TreatSend \/ TreatExit
        BY <2>5, <4>1, <4>4 DEF TreatFft, TreatSend, TreatExit, TreatLeft
      <4> QED
        BY <3>2, <4>2, <4>3, <4>4
    <3> QED
      BY <2>8, <3>1, <3>2 DEF Treatment
  <2>9. CASE Monitoring
    <3>1. UNCHANGED <<acq, treat>>
      BY <2>9 DEF Monitoring, MonLoop, MonRead, MonCrash, MonPrint, acq_vars, treat_vars
    <3>2. CASE MonCrash
      BY <2>3, <3>1, <3>2 DEF MonCrash, mon_vars
    <3>3. CASE MonLoop \/ MonRead \/ MonPrint
      BY <1>1, <2>6, <3>1, <3>3 DEF MonLoop, GoesOn, MonRead, MonPrint, MonLeft
    <3> QED
      BY <2>9, <3>2, <3>3 DEF Monitoring
  <2> QED
    BY <1>1, <2>7, <2>8, <2>9 DEF Next, Terminated, SwitchAudio, Stop
<1>2. TypeOK /\ Left /\ Left' /\ [Next]_vars => [~running => StepsLeft' < StepsLeft]_vars
  BY <1>1
<1>3. Spec => [](TypeOK /\ Left)
  BY TypeCorrect, LeftCounted, PTL
<1> QED
  BY <1>2, <1>3, PTL DEF Spec, StopIsShort

-----------------------------------------------------------------------------
(* AudioPipeline implements SampleStream: each step of the audio tasks is  *)
(* a step of the stream or leaves it as it is.                             *)

Ids(s) == [i \in DOMAIN s |-> s[i].id]
S == Ids(InFlight)

\* The numbers of a sequence of chunks.
LEMMA IdsProperties ==
  ASSUME NEW s \in Seq(Chunks)
  PROVE  /\ Ids(s) \in Seq(Nat) /\ Len(Ids(s)) = Len(s) /\ Len(s) \in Nat
         /\ \A i \in 1 .. Len(s) : Ids(s)[i] = s[i].id
<1>1. Len(s) \in Nat /\ DOMAIN s = 1 .. Len(s)
  BY LenProperties
<1>2. \A i \in 1 .. Len(s) : s[i].id \in Nat
  BY Numbered
<1>3. Ids(s) = [i \in 1 .. Len(s) |-> s[i].id]
  BY <1>1 DEF Ids
<1>4. Ids(s) \in Seq(Nat) /\ Len(Ids(s)) = Len(s)
  BY <1>1, <1>2, <1>3
<1> QED
  BY <1>1, <1>3, <1>4

\* The numbers when a chunk is appended.
LEMMA IdsOfAppend ==
  ASSUME NEW s \in Seq(Chunks), NEW m \in Chunks
  PROVE  Ids(Append(s, m)) = Append(Ids(s), m.id)
<1>1. m.id \in Nat
  BY ConstantsAssumption DEF Chunks
<1>2. /\ Append(s, m) \in Seq(Chunks) /\ Len(Append(s, m)) = Len(s) + 1
      /\ \A i \in 1 .. Len(s) : Append(s, m)[i] = s[i]
      /\ Append(s, m)[Len(s) + 1] = m
  BY AppendProperties
<1>3. /\ Append(Ids(s), m.id) \in Seq(Nat)
      /\ Len(Append(Ids(s), m.id)) = Len(s) + 1
      /\ \A i \in 1 .. Len(s) : Append(Ids(s), m.id)[i] = s[i].id
      /\ Append(Ids(s), m.id)[Len(s) + 1] = m.id
  BY <1>1, IdsProperties, AppendProperties
<1>4. /\ Ids(Append(s, m)) \in Seq(Nat) /\ Len(Ids(Append(s, m))) = Len(s) + 1
      /\ \A i \in 1 .. Len(s) + 1 : Ids(Append(s, m))[i] = Append(s, m)[i].id
  BY <1>2, IdsProperties
<1>5. \A i \in 1 .. Len(s) + 1 : i \in 1 .. Len(s) \/ i = Len(s) + 1
  BY IdsProperties
<1>6. \A i \in 1 .. Len(s) + 1 : Ids(Append(s, m))[i] = Append(Ids(s), m.id)[i]
  BY <1>2, <1>3, <1>4, <1>5
<1> QED
  BY <1>3, <1>4, <1>6, SeqEqual

\* The first chunk put before the others.
LEMMA Prefixed ==
  ASSUME NEW r \in Chunks, NEW s \in Seq(Chunks)
  PROVE  /\ << r >> \o s \in Seq(Chunks) /\ Len(<< r >> \o s) = Len(s) + 1
         /\ (<< r >> \o s)[1] = r
         /\ \A i \in 1 .. Len(s) : (<< r >> \o s)[i + 1] = s[i]
<1>1. << r >> \in Seq(Chunks) /\ Len(<< r >>) = 1 /\ << r >>[1] = r
  OBVIOUS
<1>2. Len(s) \in Nat
  BY LenProperties
<1>3. /\ << r >> \o s \in Seq(Chunks) /\ Len(<< r >> \o s) = 1 + Len(s)
      /\ \A i \in 1 .. 1 + Len(s) :
           (<< r >> \o s)[i] = IF i <= 1 THEN << r >>[i] ELSE s[i - 1]
  BY <1>1, ConcatProperties
<1>4. (<< r >> \o s)[1] = r
  BY <1>1, <1>2, <1>3
<1>5. ASSUME NEW i \in 1 .. Len(s) PROVE (<< r >> \o s)[i + 1] = s[i]
  <2>1. i + 1 \in 1 .. 1 + Len(s) /\ ~(i + 1 <= 1) /\ (i + 1) - 1 = i
    BY <1>2
  <2> QED
    BY <1>3, <2>1
<1> QED
  BY <1>2, <1>3, <1>4, <1>5

\* The numbers when a chunk is put in front.
LEMMA PrefixedHead ==
  ASSUME NEW r \in Chunks, NEW s \in Seq(Chunks)
  PROVE  /\ Ids(<< r >> \o s) # << >>
         /\ Head(Ids(<< r >> \o s)) = r.id
         /\ Tail(Ids(<< r >> \o s)) = Ids(s)
<1> DEFINE p == Ids(<< r >> \o s)
<1>1. /\ p \in Seq(Nat) /\ Len(p) = Len(s) + 1 /\ Len(s) \in Nat
      /\ p[1] = r.id /\ \A i \in 1 .. Len(s) : p[i + 1] = s[i].id
  <2>1. /\ p \in Seq(Nat) /\ Len(p) = Len(s) + 1 /\ Len(s) \in Nat
        /\ \A i \in 1 .. Len(s) + 1 : p[i] = (<< r >> \o s)[i].id
    BY Prefixed, IdsProperties
  <2>2. \A i \in 1 .. Len(s) : i + 1 \in 1 .. Len(s) + 1
    BY <2>1
  <2>3. 1 \in 1 .. Len(s) + 1
    BY <2>1
  <2>4. /\ (<< r >> \o s)[1] = r
        /\ \A i \in 1 .. Len(s) : (<< r >> \o s)[i + 1] = s[i]
    BY Prefixed
  <2> HIDE DEF p
  <2> QED
    BY <2>1, <2>2, <2>3, <2>4
<1>2. p # << >>
  BY <1>1, EmptySeq
<1>3. Head(p) = p[1]
  BY <1>1, <1>2
<1>4. /\ Tail(p) \in Seq(Nat) /\ Len(Tail(p)) = Len(s)
      /\ \A i \in 1 .. Len(s) : Tail(p)[i] = s[i].id
  BY <1>1, <1>2, HeadTailProperties
<1>5. Tail(p) = Ids(s)
  <2>1. /\ Ids(s) \in Seq(Nat) /\ Len(Ids(s)) = Len(s)
        /\ \A i \in 1 .. Len(s) : Ids(s)[i] = s[i].id
    BY IdsProperties
  <2>2. \A i \in 1 .. Len(Tail(p)) : Tail(p)[i] = Ids(s)[i]
    BY <1>4, <2>1
  <2> HIDE DEF p
  <2> QED
    BY <1>4, <2>1, <2>2, SeqEqual
<1> QED
  BY <1>1, <1>2, <1>3, <1>5

-----------------------------------------------------------------------------
(* Acquisition works on a mailbox that exists *)

MailboxOpen == acq \in {"period", "loop", "read"} => IsOpen(mailbox_treatment)

\* Every step keeps the mailbox open while a chunk is held.
LEMMA OpenStep == TypeInv /\ MailboxOpen /\ [Next]_vars => MailboxOpen'
<1> SUFFICES ASSUME TypeInv, MailboxOpen, [Next]_vars PROVE MailboxOpen'
  OBVIOUS
<1>t. mailbox_treatment \in Queues(Chunks)
  BY DEF TypeInv, TypeOK
<1> USE DEF MailboxOpen
<1>u. CASE UNCHANGED vars
  BY <1>u DEF vars, acq_vars
<1>e. CASE SwitchAudio \/ Stop \/ Monitoring
  BY <1>e DEF SwitchAudio, Stop, Monitoring, MonLoop, MonRead, MonCrash, MonPrint, acq_vars
<1>1. CASE AcqCreate
  <2>1. CASE mailbox_treatment' = Created(PoolSlots)
    BY <2>1 DEF Created, IsOpen
  <2>2. CASE UNCHANGED <<mailbox_treatment, acq>>
    BY <2>2 DEF IsOpen
  <2> QED
    BY <1>1, <2>1, <2>2, Zenon DEF AcqCreate
<1>2. CASE AcqSetPeriodic
  BY <1>2 DEF AcqSetPeriodic
<1>3. CASE AcqAlloc
  BY <1>3, <1>t, AllocFreed DEF AcqAlloc, IsOpen
<1>4. CASE AcqReadSend
  BY <1>4, <1>t DEF AcqReadSend, Send, Queues, IsOpen
<1>5. CASE AcqExit
  BY <1>5 DEF AcqExit
<1>6. CASE TreatReceive
  BY <1>6, <1>t DEF TreatReceive, Received, Queues, IsOpen, acq_vars
<1>7. CASE TreatCopy
  BY <1>7, <1>t, AllocFreed DEF TreatCopy, Release, IsOpen, acq_vars
<1>8. CASE TreatCreate \/ TreatLoop \/ TreatCrash \/ TreatFft \/ TreatSend \/ TreatExit
  BY <1>8 DEF TreatCreate, TreatLoop, TreatCrash, TreatFft, TreatSend, TreatExit, acq_vars
<1> QED
  BY <1>u, <1>e, <1>1, <1>2, <1>3, <1>4, <1>5, <1>6, <1>7, <1>8
  DEF Next, Acquisition, Treatment, Terminated

-----------------------------------------------------------------------------
(* The steps *)

\* The chunks between the codec and the window.
LEMMA InFlightProperties ==
  ASSUME TypeOK
  PROVE  /\ InFlight \in Seq(Chunks)
         /\ TreatHolds \in {0, 1}
         /\ Len(InFlight) = TreatHolds + Len(mailbox_treatment.msgs)
         /\ Len(mailbox_treatment.msgs) \in Nat
         /\ mailbox_treatment.msgs \in Seq(Chunks) /\ received \in Chunks
<1>1. mailbox_treatment.msgs \in Seq(Chunks) /\ received \in Chunks
  BY DEF TypeOK, Queues
<1>2. TreatHolds \in {0, 1}
  BY DEF TreatHolds
<1>3. Len(mailbox_treatment.msgs) \in Nat
  BY <1>1, LenProperties
<1> QED
  BY <1>1, <1>2, <1>3, Prefixed DEF InFlight

\* Steps that neither change what is in flight nor the two ends of the stream.
LEMMA StreamUntouched ==
  ASSUME mailbox_treatment'.msgs = mailbox_treatment.msgs,
         treat' = "copy" <=> treat = "copy", UNCHANGED received
  PROVE  S' = S
BY DEF S, Ids, InFlight, TreatHolds

\* A chunk that is sent enters the stream at its end.
LEMMA SendEnters ==
  ASSUME TypeOK, NEW m \in Chunks,
         mailbox_treatment' = Send(mailbox_treatment, m),
         UNCHANGED <<treat, received>>
  PROVE  S' = Append(S, m.id)
<1> DEFINE msgs == mailbox_treatment.msgs
<1>1. mailbox_treatment'.msgs = Append(msgs, m)
  BY DEF Send, TypeOK, Queues
<1>2. TreatHolds' = TreatHolds
  BY DEF TreatHolds
<1>3. InFlight' = Append(InFlight, m)
  <2>1. CASE TreatHolds # 1
    BY <1>1, <1>2, <2>1 DEF InFlight
  <2>2. CASE TreatHolds = 1
    <3>1. << m >> \in Seq(Chunks) /\ << received >> \in Seq(Chunks)
      BY InFlightProperties
    <3>2. Append(msgs, m) = msgs \o << m >>
      BY InFlightProperties
    <3>3. /\ << received >> \o msgs \in Seq(Chunks)
          /\ Append(<< received >> \o msgs, m) = (<< received >> \o msgs) \o << m >>
      BY InFlightProperties, Prefixed
    <3>4. (<< received >> \o msgs) \o << m >> = << received >> \o (msgs \o << m >>)
      <4>1. msgs \in Seq(Chunks)
        BY InFlightProperties
      <4> HIDE DEF msgs
      <4> QED
        BY <3>1, <4>1, ConcatAssociative
    <3> QED
      BY <1>1, <1>2, <2>2, <3>2, <3>3, <3>4 DEF InFlight
  <2> QED
    BY <2>1, <2>2
<1> QED
  BY <1>3, InFlightProperties, IdsOfAppend DEF S

\* A send is one of the stream, or loses its chunk.
LEMMA SendRefines ==
  ASSUME TypeInv, PoolInv, MailboxOpen, AcqReadSend
  PROVE  [Stream!Next]_<<captured, S, consumed>>
<1>1. captured' = captured + 1 /\ UNCHANGED <<consumed, treat, received>>
  BY DEF AcqReadSend, treat_vars
<1>2. CASE UNCHANGED mailbox_treatment
  BY <1>1, <1>2, StreamUntouched DEF Stream!Next, Stream!Lose, S, Ids
<1>3. ASSUME NEW r \in ReadResults, acq_buf,
             mailbox_treatment' =
               Send(mailbox_treatment, [id |-> captured + 1, len |-> r])
      PROVE  Stream!Enter
  <2>1. [id |-> captured + 1, len |-> r] \in Chunks
    BY ConstantsAssumption DEF AcqReadSend, TypeInv, TypeOK, CaptureBound, Chunks
  <2>2. S' = Append(S, captured + 1)
    BY <1>1, <1>3, <2>1, SendEnters DEF TypeInv
  <2>3. Len(S) < PoolSlots
    <3>1. IsOpen(mailbox_treatment) /\ AcqHolds = 1
      BY <1>3 DEF AcqReadSend, MailboxOpen, AcqHolds
    <3>2. mailbox_treatment.free + 1 + Len(mailbox_treatment.msgs) + TreatHolds + leaked
            = PoolSlots
      BY <3>1 DEF PoolInv, PoolAccounting
    <3>3. Len(S) = TreatHolds + Len(mailbox_treatment.msgs)
      BY InFlightProperties, IdsProperties DEF S, TypeInv
    <3>4. mailbox_treatment.free \in Nat /\ leaked \in Nat
      BY DEF TypeInv, TypeOK, Queues
    <3> QED
      BY <3>2, <3>3, <3>4, InFlightProperties, ConstantsAssumption, SMTT(30) DEF TypeInv
  <2> QED
    BY <1>1, <2>2, <2>3 DEF Stream!Enter, S, Ids
<1> QED
  BY <1>2, <1>3, Zenon DEF AcqReadSend, Stream!Next

\* A mailbox that is deleted takes what is pending with it, treatment keeps what
\* it holds.
LEMMA ExitRefines ==
  ASSUME TypeOK, AcqExit
  PROVE  Stream!Close
<1>1. /\ mailbox_treatment'.msgs = << >>
      /\ UNCHANGED <<captured, consumed, treat, received>>
  BY DEF AcqExit, Delete, treat_vars
<1>2. TreatHolds' = TreatHolds
  BY <1>1 DEF TreatHolds
<1>3. << >> \in Seq(Chunks) /\ Ids(<< >>) = << >>
  <2>1. << >> \in Seq(Chunks) /\ Len(<< >>) = 0
    BY EmptySeq
  <2>2. Ids(<< >>) \in Seq(Nat) /\ Len(Ids(<< >>)) = 0
    BY <2>1, IdsProperties
  <2> QED
    BY <2>1, <2>2
<1>4. CASE TreatHolds # 1
  <2>1. S' = << >>
    BY <1>1, <1>2, <1>3, <1>4 DEF S, InFlight
  <2> QED
    BY <1>1, <2>1 DEF Stream!Close, S, Ids
<1>5. CASE TreatHolds = 1
  <2>1. S # << >> /\ Head(S) = received.id
    BY <1>5, InFlightProperties, PrefixedHead DEF S, InFlight
  <2>2. S' = Ids(<< received >> \o << >>)
    BY <1>1, <1>2, <1>5 DEF S, InFlight
  <2>3. S' = << received.id >>
    <3>1. S' \in Seq(Nat) /\ Len(S') = 1 /\ S'[1] = received.id
      <4>1. /\ << received >> \o << >> \in Seq(Chunks)
            /\ Len(<< received >> \o << >>) = 1
            /\ (<< received >> \o << >>)[1] = received
        BY <1>3, InFlightProperties, Prefixed, EmptySeq
      <4> QED
        <5> DEFINE q == << received >> \o << >>
        <5>1. /\ Ids(q) \in Seq(Nat) /\ Len(Ids(q)) = Len(q)
              /\ \A i \in 1 .. Len(q) : Ids(q)[i] = q[i].id
          BY <4>1, IdsProperties
        <5>2. 1 \in 1 .. Len(q)
          BY <4>1
        <5> QED
          BY <2>2, <4>1, <5>1, <5>2
    <3>2. received.id \in Nat
      BY InFlightProperties, ConstantsAssumption DEF Chunks
    <3>3. << received.id >> \in Seq(Nat) /\ Len(<< received.id >>) = 1
      BY <3>2
    <3> QED
      BY <3>1, <3>3, SeqEqual
  <2> QED
    BY <1>1, <2>1, <2>3 DEF Stream!Close, S, Ids
<1> QED
  BY <1>4, <1>5

\* A receive moves a chunk from the mailbox to treatment's hands.
LEMMA ReceiveRefines ==
  ASSUME TypeOK, PoolInv, TreatReceive
  PROVE  UNCHANGED <<captured, S, consumed>>
<1> DEFINE msgs == mailbox_treatment.msgs
<1>1. /\ UNCHANGED <<captured, consumed>> /\ treat' = "copy" /\ TreatHolds = 0
  BY DEF TreatReceive, TreatHolds, acq_vars
<1>2. CASE /\ HasMessage(mailbox_treatment)
           /\ received' = Head(msgs)
           /\ mailbox_treatment' = Received(mailbox_treatment)
  <2>1. msgs # << >> /\ msgs \in Seq(Chunks) /\ Len(msgs) \in Nat \ {0}
    BY <1>2, InFlightProperties, EmptySeq DEF HasMessage
  <2>2. mailbox_treatment'.msgs = Tail(msgs) /\ received' = msgs[1]
    BY <1>2, <2>1 DEF Received, TypeOK, Queues
  <2>3. 1 \in 1 .. Len(msgs) /\ received' \in Chunks
    BY <1>2, <2>1, HeadTailProperties
  <2>4. TreatHolds' = 1
    BY <1>1, <2>2, <2>3 DEF TreatHolds, PoolInv, MessagesNumbered
  <2>5. /\ Tail(msgs) \in Seq(Chunks) /\ Len(Tail(msgs)) = Len(msgs) - 1
        /\ \A i \in 1 .. Len(Tail(msgs)) : Tail(msgs)[i] = msgs[i + 1]
    BY <2>1, HeadTailProperties
  <2> DEFINE p == << received' >> \o Tail(msgs)
  <2>6. /\ p \in Seq(Chunks) /\ Len(p) = Len(msgs) /\ p[1] = msgs[1]
        /\ \A i \in 1 .. Len(msgs) - 1 : p[i + 1] = msgs[i + 1]
    BY <2>1, <2>2, <2>3, <2>5, Prefixed
  <2>7. ASSUME NEW i \in 1 .. Len(p) PROVE p[i] = msgs[i]
    <3>1. CASE i = 1
      BY <2>6, <3>1
    <3>2. CASE i # 1
      <4>1. i - 1 \in 1 .. Len(msgs) - 1 /\ (i - 1) + 1 = i
        BY <2>1, <2>6, <3>2
      <4> QED
        BY <2>6, <4>1
    <3> QED
      BY <3>1, <3>2
  <2>8. p = msgs
    BY <2>1, <2>6, <2>7, SeqEqual
  <2>9. InFlight' = InFlight
    BY <1>1, <2>2, <2>4, <2>8 DEF InFlight
  <2> QED
    BY <1>1, <2>9 DEF S, Ids
<1>3. CASE /\ UNCHANGED mailbox_treatment
           /\ received' \in {Failed(EINVAL), Failed(EIDRM)}
  <2>1. TreatHolds' = 0
    BY <1>3 DEF TreatHolds, Failed
  <2>2. InFlight' = InFlight
    BY <1>1, <1>3, <2>1 DEF InFlight
  <2> QED
    BY <1>1, <2>2 DEF S, Ids
<1> QED
  BY <1>2, <1>3 DEF TreatReceive

\* A copy takes the chunk out of treatment's hands.
LEMMA CopyRefines ==
  ASSUME TypeOK, PoolInv, TreatCopy
  PROVE  Stream!Leave
<1>1. /\ consumed' = received.id /\ UNCHANGED captured
      /\ TreatHolds = 1 /\ TreatHolds' = 0
  BY DEF TreatCopy, TreatHolds, PoolInv, HeldIsNumbered, acq_vars
<1>2. mailbox_treatment'.msgs = mailbox_treatment.msgs
  BY AllocFreed DEF TreatCopy, Release, TypeOK
<1>3. S' = Ids(mailbox_treatment.msgs)
  BY <1>1, <1>2 DEF S, InFlight
<1>4. S # << >> /\ Head(S) = received.id /\ Tail(S) = Ids(mailbox_treatment.msgs)
  BY <1>1, InFlightProperties, PrefixedHead DEF S, InFlight
<1> QED
  BY <1>1, <1>3, <1>4 DEF Stream!Leave, S, Ids

\* Every step is one of the stream, or none.
LEMMA StepRefines ==
  TypeInv /\ PoolInv /\ MailboxOpen /\ [Next]_vars
    => [Stream!Next]_<<captured, S, consumed>>
<1> SUFFICES ASSUME TypeInv, PoolInv, MailboxOpen, [Next]_vars
             PROVE  [Stream!Next]_<<captured, S, consumed>>
  OBVIOUS
<1>t. TypeOK
  BY DEF TypeInv
<1>u. CASE UNCHANGED vars
  BY <1>u, StreamUntouched DEF vars, acq_vars, treat_vars
<1>e. CASE SwitchAudio \/ Stop \/ Monitoring
  BY <1>e, StreamUntouched
  DEF SwitchAudio, Stop, Monitoring, MonLoop, MonRead, MonCrash, MonPrint, acq_vars, treat_vars
<1>1. CASE AcqCreate
  <2>1. UNCHANGED <<captured, consumed, received, treat>> /\ acq = "create"
    BY <1>1 DEF AcqCreate, treat_vars
  <2>2. mailbox_treatment'.msgs = mailbox_treatment.msgs
    <3>1. mailbox_treatment.msgs = << >>
      BY <2>1 DEF PoolInv, BeforeCreation, NoQueue
    <3>2. mailbox_treatment' \in {Created(PoolSlots), mailbox_treatment}
      BY <1>1, Zenon DEF AcqCreate
    <3> QED
      BY <3>1, <3>2 DEF Created
  <2> QED
    BY <2>1, <2>2, StreamUntouched
<1>2. CASE AcqSetPeriodic
  BY <1>2, StreamUntouched DEF AcqSetPeriodic, treat_vars
<1>3. CASE AcqAlloc
  BY <1>3, <1>t, AllocFreed, StreamUntouched DEF AcqAlloc, TypeOK, treat_vars
<1>4. CASE AcqReadSend
  BY <1>4, SendRefines
<1>5. CASE AcqExit
  BY <1>t, <1>5, ExitRefines DEF Stream!Next
<1>6. CASE TreatReceive
  BY <1>t, <1>6, ReceiveRefines
<1>7. CASE TreatCopy
  BY <1>t, <1>7, CopyRefines DEF Stream!Next
<1>8. CASE TreatCreate \/ TreatLoop \/ TreatCrash \/ TreatFft \/ TreatSend \/ TreatExit
  BY <1>8, StreamUntouched
  DEF TreatCreate, TreatLoop, TreatCrash, TreatFft, TreatSend, TreatExit,
      acq_vars, treat_vars
<1> QED
  BY <1>u, <1>e, <1>1, <1>2, <1>3, <1>4, <1>5, <1>6, <1>7, <1>8
  DEF Next, Acquisition, Treatment, Terminated

\* Between the codec and x the two tasks and their mailbox behave as a lossy,
\* ordered stream of at most PoolSlots chunks, failures and stops included.
THEOREM ImplementsStream == Spec => StreamSpec
<1>1. Init => Stream!Init /\ MailboxOpen
  <2> SUFFICES ASSUME Init PROVE Stream!Init /\ MailboxOpen
    OBVIOUS
  <2>1. InFlight = << >>
    BY DEF Init, InFlight, TreatHolds, NoQueue
  <2>2. Len(S) = 0 /\ S \in Seq(Nat)
    BY <2>1, EmptySeq, IdsProperties DEF S
  <2> QED
    BY <2>2 DEF Init, Stream!Init, MailboxOpen, S, Ids
<1>2. TypeInv /\ PoolInv /\ MailboxOpen /\ [Next]_vars => [Stream!Next]_Stream!vars
  BY StepRefines DEF Stream!vars, S, Ids
<1> QED
  BY TypeInit, TypeStep, PoolInit, PoolStep, OpenStep, <1>1, <1>2, PTL
  DEF Spec, StreamSpec, Stream!Spec

-----------------------------------------------------------------------------
(* The results: mailbox_logging implements SampleStream, too.              *)

R == ResultsInFlight

\* Steps that send, show and compute nothing leave the results as they are.
LEMMA ResultsUntouched ==
  ASSUME UNCHANGED <<ffts, message>>, mailbox_logging'.msgs = mailbox_logging.msgs,
         treat' = "send" <=> treat = "send"
  PROVE  UNCHANGED <<ffts, R, message>>
BY DEF R, ResultsInFlight

\* A spectrum enters the results with the buffer it is given, or is lost without one.
LEMMA FftRefines ==
  ASSUME TypeOK, LogPoolAccounting, TreatFft
  PROVE  Results!Enter \/ Results!Lose
<1>1. /\ treat = "fft" /\ ffts' = ffts + 1 /\ UNCHANGED message
      /\ mailbox_logging \in Queues(Nat)
  BY DEF TreatFft, mon_vars, TypeOK
<1>2. R = mailbox_logging.msgs
  BY <1>1 DEF R, ResultsInFlight
<1>3. CASE /\ CanAlloc(mailbox_logging) /\ treat' = "send"
           /\ mailbox_logging' = Alloc(mailbox_logging)
  <2>1. mailbox_logging'.msgs = mailbox_logging.msgs
    BY <1>1, <1>3, AllocFreed
  <2>2. R' = Append(R, ffts + 1)
    BY <1>1, <1>2, <1>3, <2>1 DEF R, ResultsInFlight
  <2>3. Len(R) < LogSlots
    <3>1. /\ mailbox_logging.free \in Nat /\ mailbox_logging.free > 0
          /\ Len(mailbox_logging.msgs) \in Nat
      BY <1>1, <1>3, LenProperties DEF CanAlloc, Queues
    <3>2. mailbox_logging.free + Len(mailbox_logging.msgs) + 0 = LogSlots
      BY <1>1, <1>3 DEF LogPoolAccounting, CanAlloc
    <3> QED
      BY <1>2, <3>1, <3>2
  <2> QED
    BY <1>1, <2>2, <2>3 DEF Results!Enter, R
<1>4. CASE treat' = "exit" /\ UNCHANGED mailbox_logging
  <2>1. R' = R
    BY <1>1, <1>2, <1>4 DEF R, ResultsInFlight
  <2> QED
    BY <1>1, <2>1 DEF Results!Lose, R
<1> QED
  BY <1>3, <1>4 DEF TreatFft

\* A spectrum that is sent is in flight before and after.
LEMMA ResultSent ==
  ASSUME TreatSend
  PROVE  UNCHANGED <<ffts, R, message>>
<1>1. /\ treat = "send" /\ treat' = "loop" /\ UNCHANGED <<ffts, message>>
      /\ mailbox_logging' = Send(mailbox_logging, ffts)
  BY DEF TreatSend, mon_vars
<1>2. mailbox_logging'.msgs = Append(mailbox_logging.msgs, ffts)
  BY <1>1 DEF Send
<1> QED
  BY <1>1, <1>2 DEF R, ResultsInFlight

\* A read takes the oldest result out.
LEMMA ReadRefines ==
  ASSUME TypeOK, MonRead
  PROVE  Results!Leave \/ UNCHANGED <<ffts, R, message>>
<1>1. UNCHANGED <<ffts, treat>> /\ mailbox_logging \in Queues(Nat) /\ ffts \in Nat
  BY DEF MonRead, treat_vars, TypeOK
<1>2. CASE UNCHANGED <<message, mailbox_logging>>
  BY <1>1, <1>2, ResultsUntouched
<1>3. CASE /\ HasMessage(mailbox_logging)
           /\ message' = Head(mailbox_logging.msgs)
           /\ mailbox_logging' = Read(mailbox_logging)
  <2> DEFINE msgs == mailbox_logging.msgs
  <2>1. msgs \in Seq(Nat) /\ msgs # << >>
    BY <1>1, <1>3 DEF Queues, HasMessage
  <2>2. mailbox_logging'.msgs = Tail(msgs)
    <3>1. Received(mailbox_logging) \in Queues(Nat)
      BY <1>1, <1>3, Receiving
    <3>2. Received(mailbox_logging).msgs = Tail(msgs)
      BY <1>1 DEF Queues, Received
    <3> QED
      BY <1>3, <3>1, <3>2, AllocFreed DEF Read
  <2>3. CASE treat = "send"
    <3>1. R = Append(msgs, ffts) /\ R' = Append(Tail(msgs), ffts)
      BY <1>1, <2>2, <2>3 DEF R, ResultsInFlight
    <3>2. /\ Append(msgs, ffts) # << >>
          /\ Head(Append(msgs, ffts)) = Head(msgs)
          /\ Tail(Append(msgs, ffts)) = Append(Tail(msgs), ffts)
      BY <1>1, <2>1, AppendProperties, HeadTailAppend
    <3> QED
      BY <1>1, <1>3, <3>1, <3>2 DEF Results!Leave, R
  <2>4. CASE treat # "send"
    <3>1. R = msgs /\ R' = Tail(msgs)
      BY <1>1, <2>2, <2>4 DEF R, ResultsInFlight
    <3> QED
      BY <1>1, <1>3, <2>1, <3>1 DEF Results!Leave, R
  <2> QED
    BY <2>3, <2>4
<1> QED
  BY <1>2, <1>3 DEF MonRead

\* Every step is one of the stream of results, or none.
LEMMA ResultsRefine ==
  TypeInv /\ LogPoolAccounting /\ [Next]_vars => [Results!Next]_<<ffts, R, message>>
<1> SUFFICES ASSUME TypeInv, LogPoolAccounting, [Next]_vars
             PROVE  [Results!Next]_<<ffts, R, message>>
  OBVIOUS
<1>t. TypeOK
  BY DEF TypeInv
<1>u. CASE UNCHANGED vars
  BY <1>u, ResultsUntouched DEF vars, treat_vars, mon_vars
<1>e. CASE SwitchAudio \/ Stop
  BY <1>e, ResultsUntouched DEF SwitchAudio, Stop, treat_vars, mon_vars
<1>1. CASE Acquisition
  BY <1>1, ResultsUntouched
  DEF Acquisition, AcqCreate, AcqSetPeriodic, AcqAlloc, AcqReadSend, AcqExit, treat_vars, mon_vars
<1>2. CASE TreatCreate
  <2>1. treat # "send" /\ treat' # "send" /\ UNCHANGED <<ffts, message>>
    BY <1>2 DEF TreatCreate, mon_vars
  <2>2. CASE UNCHANGED mailbox_logging
    BY <2>1, <2>2, ResultsUntouched
  <2>3. CASE mailbox_logging' = Created(LogSlots)
    <3>1. R' = << >>
      BY <2>1, <2>3 DEF R, ResultsInFlight, Created
    <3> QED
      BY <2>1, <3>1 DEF Results!Next, Results!Close, R
  <2> QED
    BY <1>2, <2>2, <2>3 DEF TreatCreate
<1>3. CASE TreatExit
  <2>1. R' = << >> /\ UNCHANGED <<ffts, message>>
    BY <1>3 DEF TreatExit, Delete, R, ResultsInFlight, mon_vars
  <2> QED
    BY <2>1 DEF Results!Next, Results!Close, R
<1>4. CASE TreatFft
  BY <1>t, <1>4, FftRefines DEF Results!Next
<1>5. CASE TreatSend
  BY <1>5, ResultSent
<1>6. CASE TreatLoop \/ TreatReceive \/ TreatCopy \/ TreatCrash
  BY <1>6, ResultsUntouched
  DEF TreatLoop, TreatReceive, TreatCopy, TreatCrash, treat_vars, mon_vars
<1>7. CASE MonRead
  BY <1>t, <1>7, ReadRefines DEF Results!Next
<1>8. CASE MonLoop \/ MonCrash \/ MonPrint
  BY <1>8, ResultsUntouched DEF MonLoop, MonCrash, MonPrint, treat_vars, mon_vars
<1> QED
  BY <1>u, <1>e, <1>1, <1>2, <1>3, <1>4, <1>5, <1>6, <1>7, <1>8
  DEF Next, Treatment, Monitoring, Terminated

\* Between the FFT and monitoring's reads, too, treatment and its mailbox are a
\* lossy, ordered stream of at most LogSlots results, failures and stops included.
THEOREM ImplementsResults == Spec => ResultsSpec
<1>1. Init => Results!Init
  <2> SUFFICES ASSUME Init PROVE Results!Init
    OBVIOUS
  <2>1. R = << >>
    BY DEF Init, R, ResultsInFlight, NoQueue
  <2> QED
    BY <2>1 DEF Init, Results!Init, R
<1>2. TypeInv /\ LogPoolAccounting /\ [Next]_vars => [Results!Next]_Results!vars
  BY ResultsRefine DEF Results!vars, R
<1> QED
  BY TypeInit, TypeStep, LogPoolAccounted, <1>1, <1>2, PTL DEF Spec, ResultsSpec, Results!Spec

=============================================================================
