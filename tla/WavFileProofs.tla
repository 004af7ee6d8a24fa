--------------------------- MODULE WavFileProofs ----------------------------
(***************************************************************************)
(* Proofs about WavFile, for every size of the size field, of the chunks   *)
(* and every number of calls: the header never describes samples that are  *)
(* not there, and what it describes is the log of module ChunkLog.         *)
(***************************************************************************)
EXTENDS WavFile, SequenceTheorems, TLAPS

Appending == op \in {"append", "update"}

\* What each function has done so far, and what may lie in the part of the file
\* that the header describes.
LenInv ==
  /\ op \in {"append", "update", "write_data"} => len <= MaxChunk /\ call > 0
  /\ op = "update" => done = len
AppendInv ==
  sound /\ Appending =>
    /\ datasize = size /\ datasize + done <= Len(data)
    /\ \A i \in 1 .. done : data[datasize + i] = <<call, i>>
FreshInv ==
  sound => \A i \in 1 .. size :
             data[i][1] <= call /\ (Appending => data[i][1] < call)

IInv == /\ TypeOK
        /\ LenInv
        /\ sound => whole
        /\ HeaderCovered
        /\ AppendInv
        /\ FreshInv

-----------------------------------------------------------------------------
(* What a write leaves in the file *)

\* The blocks of one call.
LEMMA ChunkType ==
  ASSUME NEW c \in 0 .. MaxCalls, NEW n \in 0 .. MaxChunk
  PROVE  /\ Chunk(c, n) \in Seq(Blocks)
         /\ Len(Chunk(c, n)) = n
         /\ \A i \in 1 .. n : Chunk(c, n)[i] = <<c, i>>
<1>1. Chunk(c, n) \in [1 .. n -> Blocks]
  BY SizesAssumption DEF Chunk, Blocks
<1>2. Chunk(c, n) \in Seq(Blocks)
  BY <1>1, SeqDef, SizesAssumption
<1> QED
  BY <1>1, <1>2, LenProperties, SizesAssumption DEF Chunk

\* The file keeps its length or grows to the end of the write; the blocks of the
\* write are in place, and the others are those that were there, or holes.
LEMMA WrittenProperties ==
  ASSUME TypeOK, NEW at \in Nat, NEW n \in Nat,
         done + n <= MaxChunk
  PROVE  /\ Written(at, n) \in Seq(Blocks)
         /\ Len(Written(at, n)) = IF at + n > Len(data) THEN at + n ELSE Len(data)
         /\ \A i \in 1 .. n : Written(at, n)[at + i] = <<call, done + i>>
         /\ \A i \in 1 .. at : i <= Len(data) => Written(at, n)[i] = data[i]
         /\ \A i \in at + n + 1 .. Len(data) : Written(at, n)[i] = data[i]
         /\ \A i \in 1 .. Len(Written(at, n)) :
              \/ Written(at, n)[i][1] = call
              \/ i <= Len(data) /\ Written(at, n)[i] = data[i]
              \/ i > Len(data) /\ Written(at, n)[i] = Zero
<1> DEFINE W == Written(at, n)
           m == IF at + n > Len(data) THEN at + n ELSE Len(data)
<1>1. /\ Len(data) \in Nat /\ data \in [1 .. Len(data) -> Blocks] /\ m \in Nat
      /\ call \in 0 .. MaxCalls /\ MaxCalls \in Nat /\ MaxChunk \in Nat /\ done \in Nat
  BY LenProperties, SizesAssumption DEF TypeOK
<1>2. Zero \in Blocks
  BY <1>1 DEF Zero, Blocks
<1>3. ASSUME NEW i \in 1 .. m PROVE
        (IF at < i /\ i <= at + n THEN <<call, done + i - at>>
         ELSE IF i <= Len(data) THEN data[i] ELSE Zero) \in Blocks
  <2>1. CASE at < i /\ i <= at + n
    <3>1. done + i - at \in 0 .. MaxChunk
      BY <2>1, <1>1
    <3> QED
      BY <2>1, <3>1, <1>1 DEF Blocks
  <2>2. CASE ~(at < i /\ i <= at + n)
    BY <2>2, <1>1, <1>2
  <2> QED
    BY <2>1, <2>2
<1>4. /\ W = [i \in 1 .. m |-> IF at < i /\ i <= at + n THEN <<call, done + i - at>>
                               ELSE IF i <= Len(data) THEN data[i] ELSE Zero]
      /\ W \in [1 .. m -> Blocks]
  BY <1>3 DEF Written
<1> HIDE DEF W, m
<1>5. W \in Seq(Blocks)
  BY <1>4, <1>1, SeqDef
<1>6. Len(W) = m
  BY <1>4, <1>5, <1>1, LenProperties
<1>7. \A i \in 1 .. n : W[at + i] = <<call, done + i>>
  <2> SUFFICES ASSUME NEW i \in 1 .. n PROVE W[at + i] = <<call, done + i>>
    OBVIOUS
  <2>1. at + i \in 1 .. m /\ at < at + i /\ at + i <= at + n
    BY <1>1 DEF m
  <2>2. done + (at + i) - at = done + i
    OBVIOUS
  <2> QED
    BY <2>1, <2>2, <1>4
<1>8. \A i \in 1 .. at : i <= Len(data) => W[i] = data[i]
  BY <1>1, <1>4 DEF m
<1>9. \A i \in 1 .. m : \/ W[i][1] = call
                        \/ i <= Len(data) /\ W[i] = data[i]
                        \/ i > Len(data) /\ W[i] = Zero
  BY <1>1, <1>4
<1>10. \A i \in at + n + 1 .. Len(data) : W[i] = data[i]
  <2> SUFFICES ASSUME NEW i \in at + n + 1 .. Len(data) PROVE W[i] = data[i]
    OBVIOUS
  <2>1. i \in 1 .. m /\ ~(at < i /\ i <= at + n) /\ i <= Len(data)
    BY <1>1 DEF m
  <2> QED
    BY <2>1, <1>4
<1> QED
  BY <1>5, <1>6, <1>7, <1>8, <1>9, <1>10 DEF W, m

\* The same for one write system call, which may write nothing.
LEMMA WriteBlocksProperties ==
  ASSUME TypeOK, NEW at \in Nat, NEW n \in Nat, done + n <= MaxChunk,
         WriteBlocks(at, n)
  PROVE  /\ data' \in Seq(Blocks)
         /\ whole' \in BOOLEAN /\ (whole => whole')
         /\ Len(data') \in Nat /\ Len(data') >= Len(data)
         /\ n > 0 => at + n <= Len(data')
         /\ \A i \in 1 .. n : data'[at + i] = <<call, done + i>>
         /\ \A i \in 1 .. at : i <= Len(data) => data'[i] = data[i]
         /\ \A i \in at + n + 1 .. Len(data) : data'[i] = data[i]
         /\ \A i \in 1 .. Len(data) : data'[i][1] = call \/ data'[i] = data[i]
<1>1. /\ data \in Seq(Blocks) /\ Len(data) \in Nat /\ done \in Nat
      /\ whole' \in BOOLEAN /\ (whole => whole')
  BY LenProperties DEF TypeOK, WriteBlocks
<1>2. CASE n = 0
  <2>1. data' = data
    BY <1>2 DEF WriteBlocks
  <2> QED
    BY <1>1, <1>2, <2>1
<1>3. CASE n # 0
  <2> DEFINE W == Written(at, n)
  <2>1. data' = W
    BY <1>3 DEF WriteBlocks
  <2>2. /\ W \in Seq(Blocks)
        /\ Len(W) = IF at + n > Len(data) THEN at + n ELSE Len(data)
        /\ \A i \in 1 .. n : W[at + i] = <<call, done + i>>
        /\ \A i \in 1 .. at : i <= Len(data) => W[i] = data[i]
        /\ \A i \in at + n + 1 .. Len(data) : W[i] = data[i]
        /\ \A i \in 1 .. Len(W) :
             \/ W[i][1] = call
             \/ i <= Len(data) /\ W[i] = data[i]
             \/ i > Len(data) /\ W[i] = Zero
    BY WrittenProperties
  <2> HIDE DEF W
  <2>3. Len(W) \in Nat /\ Len(W) >= Len(data) /\ at + n <= Len(W)
    BY <1>1, <2>2
  <2>4. \A i \in 1 .. Len(data) : W[i][1] = call \/ W[i] = data[i]
    BY <1>1, <2>2, <2>3
  <2> QED
    BY <1>1, <2>1, <2>2, <2>3, <2>4
<1> QED
  BY <1>2, <1>3

-----------------------------------------------------------------------------
\* The invariant holds of a file that does not exist.
LEMMA InitInv == Init => IInv
<1> SUFFICES ASSUME Init PROVE IInv
  OBVIOUS
<1>1. PICK n \in 0 .. MaxChunk : data = Chunk(0, n) /\ size = n /\ (n > 0 => whole)
  BY DEF Init
<1>2. /\ data \in Seq(Blocks) /\ Len(data) = n
      /\ \A i \in 1 .. n : data[i] = <<0, i>>
  BY <1>1, ChunkType, SizesAssumption
<1>3. Zero \in Blocks
  BY SizesAssumption DEF Zero, Blocks
<1>4. NoLog \in Seq(Blocks) /\ << >> \in Seq(Blocks)
  BY <1>3, EmptySeq DEF NoLog
<1>5. TypeOK
  BY <1>1, <1>2, <1>4, SizesAssumption DEF Init, TypeOK
<1>6. FreshInv
  BY <1>1, <1>2, SizesAssumption DEF Init, FreshInv, Appending
<1> QED
  BY <1>1, <1>2, <1>5, <1>6, SizesAssumption
  DEF Init, IInv, LenInv, HeaderCovered, AppendInv, Appending

-----------------------------------------------------------------------------
(* One lemma per group of actions *)

\* The call that wrote a described block.
LEMMA CallsOfData ==
  ASSUME IInv, sound, NEW i \in 1 .. size
  PROVE  i \in 1 .. Len(data) /\ data[i] \in Blocks /\ data[i][1] \in Nat /\ data[i][1] <= call
<1>1. i \in 1 .. Len(data)
  BY LenProperties DEF IInv, TypeOK, HeaderCovered
<1>2. data[i] \in Blocks
  BY <1>1, ElementOfSeq DEF IInv, TypeOK
<1>3. data[i][1] \in Nat
  BY <1>2, SizesAssumption DEF Blocks
<1> QED
  BY <1>1, <1>2, <1>3 DEF IInv, FreshInv

\* The calls that leave the file as it is, or only its header.
LEMMA HeaderInv ==
  ASSUME IInv, WriteHeader \/ ParseHeader \/ CopyStart \/ AppendFails \/ TransferFails \/ Crash
  PROVE  IInv'
<1> USE SizesAssumption
<1>1. TypeOK /\ Len(data) \in Nat
  BY LenProperties DEF IInv, TypeOK
<1>2. NoLog \in Seq(Blocks) /\ << >> \in Seq(Blocks)
  <2>1. Zero \in Blocks
    BY DEF Zero, Blocks
  <2> QED
    BY <2>1, EmptySeq DEF NoLog
<1>3. CASE WriteHeader
  <2>1. op' = "idle" /\ UNCHANGED <<data, op, call, len, done, datasize, wh, buf>>
    BY <1>3 DEF WriteHeader, locals
  <2>2. /\ ids' \in BOOLEAN /\ whole' \in BOOLEAN /\ sound' \in BOOLEAN
        /\ sound' => whole' /\ (size' = 0 \/ (sound /\ size' = size))
        /\ size' \in {0, size}
    <3>1. sound => whole
      BY DEF IInv
    <3>2. CASE ids' = TRUE /\ whole' = TRUE /\ size' = 0 /\ sound' = TRUE
      BY <3>2
    <3>3. CASE ids' \in {ids, TRUE} /\ UNCHANGED <<whole, size, sound>>
      BY <1>1, <3>1, <3>3, Zenon DEF TypeOK
    <3>4. CASE UNCHANGED <<ids, whole, size, sound>>
      BY <1>1, <3>1, <3>4, Zenon DEF TypeOK
    <3> QED
      BY <1>3, <3>2, <3>3, <3>4, Zenon DEF WriteHeader, header
  <2>3. parsed' \in Seq(Blocks) /\ ret' \in {0, -1}
    BY <1>1, <1>2, <1>3, Zenon DEF TypeOK, WriteHeader, header
  <2>4. size' \in 0 .. SizeLimit - 1
    BY <1>1, <2>2 DEF TypeOK
  <2>5. TypeOK'
    BY <1>1, <2>1, <2>2, <2>3, <2>4 DEF TypeOK
  <2> QED
    BY <1>1, <2>1, <2>2, <2>3, <2>5
    DEF IInv, LenInv, HeaderCovered, AppendInv, FreshInv, Appending
<1>4. CASE ParseHeader
  <2>1. UNCHANGED <<ids, whole, size, data, op, call, len, done, datasize, buf, sound>>
    BY <1>4 DEF ParseHeader, header, locals
  <2>2. sound => Described \in Seq(Blocks)
    <3>1. sound => \A i \in 1 .. size : data[i] \in Blocks
      BY <1>1, ElementOfSeq DEF IInv, TypeOK, HeaderCovered
    <3> QED
      BY <1>1, <3>1, SubSeqProperties DEF TypeOK, Described
  <2>3. parsed' \in Seq(Blocks) /\ ret' \in {0, -1}
    BY <1>1, <1>2, <1>4, <2>2 DEF TypeOK, ParseHeader
  <2>4. wh' \in [ids : BOOLEAN, size : 0 .. SizeLimit - 1]
    <3>1. /\ [ids |-> ids, size |-> size] \in [ids : BOOLEAN, size : 0 .. SizeLimit - 1]
          /\ [wh EXCEPT !.ids = ids] \in [ids : BOOLEAN, size : 0 .. SizeLimit - 1]
          /\ wh \in [ids : BOOLEAN, size : 0 .. SizeLimit - 1]
      BY <1>1 DEF TypeOK
    <3> QED
      BY <1>4, <3>1, Zenon DEF ParseHeader
  <2>5. TypeOK'
    BY <1>1, <2>1, <2>3, <2>4 DEF TypeOK
  <2> QED
    BY <1>1, <2>1, <2>5 DEF IInv, LenInv, HeaderCovered, AppendInv, FreshInv, Appending
<1>5. CASE CopyStart
  BY <1>1, <1>2, <1>5 DEF IInv, TypeOK, LenInv, HeaderCovered, AppendInv, FreshInv,
     Appending, CopyStart, header
<1>6. CASE AppendFails
  BY <1>1, <1>6 DEF IInv, TypeOK, LenInv, HeaderCovered, AppendInv, FreshInv,
     Appending, AppendFails, header, locals, caller
<1>7. CASE TransferFails
  BY <1>1, <1>7 DEF IInv, TypeOK, LenInv, HeaderCovered, AppendInv, FreshInv,
     Appending, TransferFails, header, locals, caller
<1>8. CASE Crash
  BY <1>1, <1>2, <1>8 DEF IInv, TypeOK, LenInv, HeaderCovered, AppendInv, FreshInv,
     Appending, Crash, header, locals
<1> QED
  BY <1>3, <1>4, <1>5, <1>6, <1>7, <1>8

\* append_wav_data.
LEMMA AppendStartInv ==
  ASSUME IInv, NEW n \in 0 .. MaxChunk, AppendStart(n)
  PROVE  IInv'
<1> USE SizesAssumption
<1>1. TypeOK /\ Len(data) \in Nat
  BY LenProperties DEF IInv, TypeOK
<1>2. TypeOK'
  BY <1>1 DEF TypeOK, AppendStart, NewCall, Then, header, caller
<1>3. FreshInv'
  BY <1>1, CallsOfData
  DEF IInv, TypeOK, FreshInv, Appending, AppendStart, NewCall, header, caller
<1>4. AppendInv'
  BY <1>1 DEF IInv, TypeOK, HeaderCovered, AppendInv, Appending, AppendStart, NewCall,
     header, caller, Then
<1> QED
  BY <1>1, <1>2, <1>3, <1>4 DEF IInv, TypeOK, LenInv, HeaderCovered, Appending,
     AppendStart, NewCall, header, caller, Then

\* A write of append_wav_data puts its blocks at the end.
LEMMA AppendWriteInv ==
  ASSUME IInv, NEW n \in 0 .. MaxChunk, AppendWrite(n)
  PROVE  IInv'
<1> USE SizesAssumption
<1>1. /\ TypeOK /\ Len(data) \in Nat /\ op = "append" /\ len \in 0 .. MaxChunk
      /\ done \in 0 .. len /\ n <= len - done /\ datasize \in Nat /\ size \in Nat
      /\ datasize + done \in Nat /\ done' = done + n /\ done + n <= MaxChunk
      /\ WriteBlocks(datasize + done, n)
  BY LenProperties DEF IInv, TypeOK, LenInv, AppendWrite, AppendAt, Advanced
<1>2. /\ data' \in Seq(Blocks)
      /\ whole' \in BOOLEAN /\ (whole => whole')
      /\ Len(data') \in Nat /\ Len(data') >= Len(data)
      /\ n > 0 => datasize + done + n <= Len(data')
      /\ \A i \in 1 .. n : data'[datasize + done + i] = <<call, done + i>>
      /\ \A i \in 1 .. datasize + done : i <= Len(data) => data'[i] = data[i]
  <2>0. PICK at \in Nat : at = datasize + done
    BY <1>1
  <2>1. WriteBlocks(at, n) /\ n \in Nat
    BY <1>1, <2>0 DEF WriteBlocks, Written
  <2>2. /\ data' \in Seq(Blocks)
        /\ whole' \in BOOLEAN /\ (whole => whole')
        /\ Len(data') \in Nat /\ Len(data') >= Len(data)
        /\ n > 0 => at + n <= Len(data')
        /\ \A i \in 1 .. n : data'[at + i] = <<call, done + i>>
        /\ \A i \in 1 .. at : i <= Len(data) => data'[i] = data[i]
    BY <1>1, <2>1, WriteBlocksProperties
  <2> QED
    BY <2>0, <2>2
<1>3. TypeOK'
  BY <1>1, <1>2 DEF TypeOK, AppendWrite, Then, caller
<1>4. ASSUME sound
      PROVE  /\ datasize = size /\ datasize + done' <= Len(data')
             /\ \A i \in 1 .. done' : data'[datasize + i] = <<call, i>>
  <2>1. /\ datasize = size /\ datasize + done <= Len(data)
        /\ \A i \in 1 .. done : data[datasize + i] = <<call, i>>
    BY <1>1, <1>4 DEF IInv, AppendInv, Appending
  <2>2. ASSUME NEW i \in 1 .. done' PROVE data'[datasize + i] = <<call, i>>
    <3>1. CASE i <= done
      <4>1. datasize + i \in 1 .. datasize + done /\ datasize + i <= Len(data)
        BY <1>1, <2>1, <3>1
      <4>2. data'[datasize + i] = data[datasize + i]
        BY <1>2, <4>1
      <4> QED
        BY <1>1, <2>1, <3>1, <4>2
    <3>2. CASE i > done
      <4>1. i - done \in 1 .. n /\ datasize + done + (i - done) = datasize + i
            /\ done + (i - done) = i
        BY <1>1, <3>2
      <4> QED
        BY <1>2, <4>1
    <3> QED
      BY <1>1, <3>1, <3>2
  <2>3. datasize + done' <= Len(data')
    BY <1>1, <1>2, <2>1
  <2> QED
    BY <2>1, <2>2, <2>3
<1>5. AppendInv'
  BY <1>4 DEF AppendInv, AppendWrite, caller
<1>6. FreshInv'
  <2>1. UNCHANGED <<sound, size, call>>
    BY DEF AppendWrite, caller
  <2>2. ASSUME sound, NEW i \in 1 .. size
        PROVE  data'[i][1] = data[i][1] /\ data[i][1] <= call /\ data[i][1] < call
    <3>1. datasize = size /\ size <= Len(data)
      BY <1>1, <2>2 DEF IInv, HeaderCovered, AppendInv, Appending
    <3>2. i \in 1 .. datasize + done /\ i <= Len(data)
      BY <1>1, <2>2, <3>1
    <3>3. data'[i] = data[i]
      BY <1>2, <3>2
    <3>4. data[i][1] <= call /\ data[i][1] < call
      BY <1>1, <2>2 DEF IInv, FreshInv, Appending
    <3> QED
      BY <3>3, <3>4
  <2> QED
    BY <2>1, <2>2 DEF FreshInv
<1> QED
  BY <1>1, <1>2, <1>3, <1>5, <1>6
  DEF IInv, LenInv, HeaderCovered, Appending, AppendWrite, Then, caller

\* append_wav_data rewrites the size.
LEMMA AppendUpdateInv ==
  ASSUME IInv, AppendUpdate
  PROVE  IInv'
<1> USE SizesAssumption
<1>1. /\ TypeOK /\ Len(data) \in Nat /\ op = "update" /\ len \in 0 .. MaxChunk
      /\ done = len /\ datasize \in 0 .. SizeLimit - 1
      /\ size' = (datasize + len) % SizeLimit /\ op' = "idle"
      /\ UNCHANGED <<data, call, len, done, datasize>>
  BY LenProperties DEF IInv, TypeOK, LenInv, AppendUpdate, NewSize, Then, locals
<1>2. size' \in 0 .. SizeLimit - 1 /\ (datasize + len < SizeLimit => size' = datasize + len)
  BY <1>1
<1>3. NoLog \in Seq(Blocks)
  <2>1. Zero \in Blocks
    BY DEF Zero, Blocks
  <2> QED
    BY <2>1 DEF NoLog
<1>4. TypeOK'
  BY <1>1, <1>2, <1>3 DEF TypeOK, AppendUpdate, locals
<1>5. sound' => sound /\ size' = datasize + len
  BY <1>1, <1>2 DEF AppendUpdate
<1>6. HeaderCovered' /\ (sound' => whole')
  BY <1>1, <1>5 DEF IInv, AppendInv, Appending, HeaderCovered, AppendUpdate
<1>7. FreshInv'
  <2> SUFFICES ASSUME sound', NEW i \in 1 .. size' PROVE data[i][1] <= call
    BY <1>1 DEF FreshInv, Appending
  <2>1. CASE i <= datasize
    BY <1>1, <1>5, <2>1 DEF IInv, TypeOK, AppendInv, FreshInv, Appending
  <2>2. CASE i > datasize
    <3>1. i - datasize \in 1 .. done /\ datasize + (i - datasize) = i
      BY <1>1, <1>5, <2>2
    <3>2. data[i] = <<call, i - datasize>>
      BY <1>1, <1>5, <3>1 DEF IInv, AppendInv, Appending
    <3> QED
      BY <1>1, <3>2 DEF TypeOK
  <2> QED
    BY <1>1, <1>5, <2>1, <2>2
<1> QED
  BY <1>1, <1>4, <1>6, <1>7 DEF IInv, LenInv, AppendInv, Appending

\* write_wav_data and copy_wav_data.
LEMMA WriteDataInv ==
  ASSUME IInv, NEW n \in 0 .. MaxChunk, WriteDataStart(n) \/ WriteData(n)
  PROVE  IInv'
<1> USE SizesAssumption
<1>1. TypeOK /\ Len(data) \in Nat
  BY LenProperties DEF IInv, TypeOK
<1>2. CASE WriteDataStart(n)
  <2>1. NoLog \in Seq(Blocks)
    <3>1. Zero \in Blocks
      BY DEF Zero, Blocks
    <3> QED
      BY <3>1 DEF NoLog
  <2>2. TypeOK'
    BY <1>1, <1>2, <2>1 DEF TypeOK, WriteDataStart, NewCall, header
  <2>3. FreshInv'
    BY <1>1, <1>2, CallsOfData
    DEF IInv, TypeOK, FreshInv, Appending, WriteDataStart, NewCall, header
  <2>4. LenInv'
    <3>1. op' = "write_data" /\ len' = n /\ call' = call + 1
      BY <1>2 DEF WriteDataStart, NewCall
    <3>2. n <= MaxChunk /\ call + 1 > 0
      BY <1>1 DEF TypeOK
    <3> QED
      BY <3>1, <3>2 DEF LenInv, Appending
  <2> QED
    BY <1>2, <2>2, <2>3, <2>4 DEF IInv, HeaderCovered, AppendInv, Appending,
       WriteDataStart, NewCall, header
<1>3. CASE WriteData(n)
  <2>1. /\ op = "write_data" /\ len \in 0 .. MaxChunk /\ done \in 0 .. len
        /\ n <= len - done /\ done' = done + n /\ WriteBlocks(done, n)
        /\ op' \in {"idle", "write_data"}
    BY <1>1, <1>3 DEF IInv, TypeOK, LenInv, WriteData, Advanced
  <2>2. /\ data' \in Seq(Blocks)
        /\ whole' \in BOOLEAN /\ (whole => whole')
        /\ Len(data') \in Nat /\ Len(data') >= Len(data)
        /\ \A i \in 1 .. Len(data) : data'[i][1] = call \/ data'[i] = data[i]
    <3>1. done \in Nat /\ n \in Nat /\ done + n <= MaxChunk
      BY <1>1, <2>1
    <3> QED
      BY <1>1, <2>1, <3>1, WriteBlocksProperties
  <2>3. TypeOK'
    BY <1>1, <1>3, <2>1, <2>2 DEF TypeOK, WriteData, caller
  <2>4. FreshInv'
    <3>1. sound' = sound /\ size' = size /\ call' = call
      BY <1>3 DEF WriteData
    <3> SUFFICES ASSUME sound, NEW i \in 1 .. size PROVE data'[i][1] <= call
      BY <2>1, <3>1 DEF FreshInv, Appending
    <3>2. i \in 1 .. Len(data) /\ data[i][1] <= call
      BY <1>1 DEF IInv, TypeOK, HeaderCovered, FreshInv
    <3> QED
      BY <1>1, <2>2, <3>2, SMTT(30) DEF TypeOK
  <2> QED
    BY <1>1, <1>3, <2>1, <2>2, <2>3, <2>4 DEF IInv, TypeOK, LenInv, HeaderCovered, AppendInv,
       Appending, WriteData
<1> QED
  BY <1>2, <1>3

\* A read of copy_wav_data changes no file.
LEMMA CopyReadInv ==
  ASSUME IInv, NEW n \in 0 .. SizeLimit - 1, CopyRead(n)
  PROVE  IInv'
<1> USE SizesAssumption
<1>1. /\ TypeOK /\ Len(data) \in Nat /\ len \in Nat /\ done \in 0 .. len
      /\ done' = done + n /\ n <= len - done
  BY LenProperties DEF IInv, TypeOK, CopyRead, Advanced
<1>2. buf' \in Seq(Blocks)
  <2>1. Incoming(n) \in Seq(Blocks)
    <3>1. CASE n = 0
      <4>1. Incoming(n) = << >>
        BY <1>1, <3>1, SubSeqEmpty DEF Incoming, TypeOK
      <4> QED
        BY <4>1, EmptySeq
    <3>2. CASE n # 0
      BY <1>1, <3>2, SubSeqProperties DEF Incoming, TypeOK, CopyRead
    <3> QED
      BY <3>1, <3>2
  <2> QED
    BY <1>1, <2>1, ConcatProperties DEF TypeOK, CopyRead, Received
<1>3. TypeOK'
  BY <1>1, <1>2 DEF TypeOK, CopyRead, header
<1> QED
  BY <1>1, <1>3 DEF IInv, TypeOK, LenInv, HeaderCovered, AppendInv, FreshInv, Appending,
     CopyRead, header

\* Every step keeps the invariant.
LEMMA StepInv == IInv /\ [Next]_vars => IInv'
<1> SUFFICES ASSUME IInv, [Next]_vars PROVE IInv'
  OBVIOUS
<1>1. CASE UNCHANGED vars
  BY <1>1 DEF IInv, TypeOK, LenInv, HeaderCovered, AppendInv, FreshInv, Appending,
     vars, header, locals, caller
<1>2. CASE Next
  BY <1>2, HeaderInv, AppendStartInv, AppendWriteInv, AppendUpdateInv, WriteDataInv,
     CopyReadInv DEF Next
<1> QED
  BY <1>1, <1>2

-----------------------------------------------------------------------------
(* The file implements the log *)

L == IF sound THEN Described ELSE << >>

\* The log, place by place.
LogFacts ==
  /\ L \in Seq(Blocks)
  /\ sound => /\ size \in Nat /\ Len(L) = size
              /\ \A i \in 1 .. size : L[i] = data[i]
  /\ ~sound => L = << >>

\* What the invariant says of the log that the file describes.
LEMMA LogProperties == IInv => LogFacts
<1> SUFFICES ASSUME IInv PROVE LogFacts
  OBVIOUS
<1>1. CASE sound
  <2>1. size \in Nat /\ \A i \in 1 .. size : data[i] \in Blocks
    BY <1>1, CallsOfData, SizesAssumption DEF IInv, TypeOK
  <2> QED
    BY <1>1, <2>1, SubSeqProperties DEF LogFacts, L, Described
<1>2. CASE ~sound
  BY <1>2, EmptySeq DEF LogFacts, L
<1> QED
  BY <1>1, <1>2

\* A step that leaves the size and the described blocks leaves the log.
LEMMA SameLog ==
  ASSUME IInv, IInv', sound' = sound,
         sound => size' = size /\ \A i \in 1 .. size : data'[i] = data[i]
  PROVE  UNCHANGED <<sound, L>>
<1>1. LogFacts /\ LogFacts'
  BY LogProperties, PTL
<1>2. CASE sound
  <2>1. /\ L \in Seq(Blocks) /\ L' \in Seq(Blocks) /\ Len(L) = size /\ Len(L') = size
        /\ \A i \in 1 .. size : L[i] = L'[i]
    BY <1>1, <1>2 DEF LogFacts
  <2>2. L' = L
    BY <2>1, SeqEqual
  <2> QED
    BY <2>2
<1>3. CASE ~sound
  BY <1>1, <1>3 DEF LogFacts
<1> QED
  BY <1>2, <1>3

\* A file that does not exist describes the empty log.
LEMMA LogInit == Init => Log!Init
<1> SUFFICES ASSUME Init PROVE Log!Init
  OBVIOUS
<1>1. IInv /\ sound \in BOOLEAN
  BY InitInv DEF IInv, TypeOK
<1>2. sound => Len(L) < SizeLimit
  BY <1>1, LogProperties, SizesAssumption DEF IInv, TypeOK, LogFacts
<1> QED
  BY <1>1, <1>2 DEF Log!Init, L

\* The rewritten size adds the chunk to the log, or part of it.
LEMMA UpdateRefines ==
  ASSUME IInv, IInv', AppendUpdate
  PROVE  [Log!Next]_<<sound, L>>
<1> USE SizesAssumption
<1>1. /\ op = "update" /\ len \in 0 .. MaxChunk /\ done = len /\ call \in 1 .. MaxCalls
      /\ size \in Nat /\ datasize \in 0 .. SizeLimit - 1
      /\ size' = (datasize + len) % SizeLimit /\ UNCHANGED <<data, call, len>>
  BY DEF IInv, TypeOK, LenInv, Appending, AppendUpdate, NewSize, locals
<1>2. sound \in BOOLEAN /\ sound' = (sound /\ datasize + len < SizeLimit)
  BY DEF IInv, TypeOK, AppendUpdate
<1>3. LogFacts /\ LogFacts'
  BY LogProperties, PTL
<1>4. CASE ~sound
  <2>1. ~sound'
    BY <1>2, <1>4, Zenon
  <2> QED
    BY <1>2, <1>3, <1>4, <2>1 DEF LogFacts
<1>5. CASE sound
  <2>1. /\ datasize = size /\ size + len <= Len(data)
        /\ \A i \in 1 .. len : data[size + i] = <<call, i>>
    BY <1>1, <1>5 DEF IInv, AppendInv, Appending
  <2>2. /\ L \in Seq(Blocks) /\ Len(L) = size
        /\ \A i \in 1 .. size : L[i] = data[i]
    BY <1>3, <1>5 DEF LogFacts
  <2> DEFINE c == Chunk(call, len)
  <2>3. /\ c \in Seq(Blocks) /\ Len(c) = len /\ (\A i \in 1 .. len : c[i] = <<call, i>>)
        /\ c \in Chunks
    BY <1>1, ChunkType DEF Chunks
  <2> HIDE DEF c
  <2>4. CASE size + len >= SizeLimit
    <3>1. ~(datasize + len < SizeLimit)
      BY <1>1, <2>1, <2>4
    <3>2. ~sound'
      BY <1>2, <3>1, Zenon
    <3>3. L' = << >>
      BY <3>2 DEF L
    <3>4. Log!Overflow(c)
      BY <1>5, <2>2, <2>3, <2>4, <3>2, <3>3 DEF Log!Overflow, L
    <3> QED
      BY <2>3, <3>4 DEF Log!Next
  <2>5. CASE size + len < SizeLimit
    <3>1. datasize + len < SizeLimit /\ size' = size + len
      BY <1>1, <2>1, <2>5
    <3>2. sound'
      BY <1>2, <1>5, <3>1, Zenon
    <3>3. /\ L' \in Seq(Blocks) /\ Len(L') = size + len
          /\ \A i \in 1 .. size + len : L'[i] = data[i]
      BY <1>1, <1>3, <3>1, <3>2 DEF LogFacts
    <3>4. /\ L \o c \in Seq(Blocks) /\ Len(L \o c) = size + len
          /\ \A i \in 1 .. size + len : (L \o c)[i] = IF i <= size THEN L[i] ELSE c[i - size]
      BY <2>2, <2>3, ConcatProperties
    <3>5. ASSUME NEW i \in 1 .. size + len PROVE L'[i] = (L \o c)[i]
      <4>1. L'[i] = data[i] /\ (L \o c)[i] = IF i <= size THEN L[i] ELSE c[i - size]
        BY <3>3, <3>4
      <4>2. CASE i <= size
        BY <1>1, <2>2, <4>1, <4>2
      <4>3. CASE i > size
        <5>1. i - size \in 1 .. len /\ size + (i - size) = i /\ ~(i <= size)
          BY <1>1, <4>3
        <5>2. data[size + (i - size)] = c[i - size]
          BY <2>1, <2>3, <5>1
        <5> QED
          BY <4>1, <5>1, <5>2
      <4>4. size \in Nat /\ len \in Nat
        BY <1>1
      <4>5. i <= size \/ i > size
        BY <4>4
      <4> QED
        BY <4>2, <4>3, <4>5
    <3>6. L' = L \o c
      BY <3>3, <3>4, <3>5, SeqEqual
    <3>7. Log!Elements(c) \cap Log!Elements(L) = {}
      <4> SUFFICES ASSUME NEW i \in 1 .. len, NEW j \in 1 .. size PROVE c[i] # L[j]
        BY <2>2, <2>3 DEF Log!Elements
      <4>1. c[i] = <<call, i>> /\ L[j] = data[j]
        BY <2>2, <2>3
      <4>2. data[j][1] < call /\ data[j][1] \in Nat
        BY <1>1, <1>5, CallsOfData DEF IInv, FreshInv, Appending
      <4>3. <<call, i>>[1] = call
        OBVIOUS
      <4> QED
        BY <1>1, <4>1, <4>2, <4>3
    <3>8. Log!Append1(c)
      BY <1>5, <2>2, <2>3, <2>5, <3>2, <3>6, <3>7 DEF Log!Append1, L
    <3> QED
      BY <2>3, <3>8 DEF Log!Next
  <2> QED
    BY <1>1, <2>4, <2>5
<1> QED
  BY <1>2, <1>4, <1>5

\* Blocks behind what the header describes are not in the log yet.
LEMMA WriteRefines ==
  ASSUME IInv, IInv', NEW n \in 0 .. MaxChunk, AppendWrite(n) \/ WriteData(n)
  PROVE  [Log!Next]_<<sound, L>>
<1> USE SizesAssumption
<1>1. /\ TypeOK /\ Len(data) \in Nat /\ n \in Nat /\ sound' = sound /\ size' = size
      /\ size \in Nat /\ datasize \in Nat /\ done \in Nat /\ done + n <= MaxChunk
  BY LenProperties, SMTT(30) DEF IInv, TypeOK, LenInv, AppendWrite, WriteData, Appending
<1>2. CASE AppendWrite(n)
  <2>1. PICK at \in Nat : at = datasize + done
    BY <1>1
  <2>2. WriteBlocks(at, n)
    BY <1>2, <2>1 DEF AppendWrite, AppendAt, WriteBlocks, Written
  <2>3. \A i \in 1 .. at : i <= Len(data) => data'[i] = data[i]
    BY <1>1, <2>2, WriteBlocksProperties
  <2>4. sound => size <= at /\ size <= Len(data)
    BY <1>1, <1>2, <2>1 DEF IInv, HeaderCovered, AppendInv, Appending, AppendWrite
  <2> QED
    BY <1>1, <2>3, <2>4, SameLog
<1>3. CASE WriteData(n)
  <2>1. CASE sound
    <3> DEFINE c == Chunk(call, len)
    <3>1. /\ call \in 1 .. MaxCalls /\ len \in 0 .. MaxChunk /\ done + n <= len
          /\ WriteBlocks(done, n)
      <4>1. op = "write_data" /\ n <= len - done /\ WriteBlocks(done, n)
        BY <1>3 DEF WriteData
      <4> QED
        BY <1>1, <4>1 DEF IInv, TypeOK, LenInv
    <3>2. c \in Chunks /\ Len(c) = len /\ \A i \in 1 .. len : c[i] = <<call, i>>
      BY <3>1, ChunkType DEF Chunks
    <3> HIDE DEF c
    <3>3. /\ L \in Seq(Blocks) /\ L' \in Seq(Blocks) /\ Len(L) = size /\ Len(L') = size
          /\ \A i \in 1 .. size : L[i] = data[i] /\ L'[i] = data'[i]
      <4>1. LogFacts /\ LogFacts'
        BY LogProperties, PTL
      <4> QED
        BY <1>1, <2>1, <4>1 DEF LogFacts
    <3>4. CASE n = 0
      BY <1>1, <3>1, <3>4, SameLog DEF WriteBlocks
    <3>5. CASE n > 0
      <4>1. done + 1 \in 1 .. len /\ done + n \in 1 .. len
        BY <1>1, <3>1, <3>5
      <4>2. ASSUME NEW i \in 1 .. size
            PROVE  L'[i] = IF i \in done + 1 .. done + n /\ i <= Len(c) THEN c[i] ELSE L[i]
        <5>1. i \in 1 .. Len(data) /\ L'[i] = data'[i] /\ L[i] = data[i]
          BY <1>1, <2>1, <3>3 DEF IInv, HeaderCovered
        <5>2. CASE i \in done + 1 .. done + n
          <6>1. i - done \in 1 .. n /\ done + (i - done) = i /\ i \in 1 .. len
            BY <1>1, <3>1, <5>2
          <6>2. data'[i] = <<call, i>>
            <7>1. data'[done + (i - done)] = <<call, done + (i - done)>>
              BY <1>1, <3>1, <6>1, WriteBlocksProperties
            <7> QED
              BY <6>1, <7>1
          <6>3. c[i] = <<call, i>> /\ i <= Len(c)
            BY <3>1, <3>2, <6>1
          <6> QED
            BY <5>1, <5>2, <6>2, <6>3
        <5>3. CASE i \notin done + 1 .. done + n
          <6>1. data'[i] = data[i]
            <7>1. i \in 1 .. done \/ i \in done + n + 1 .. Len(data)
              BY <1>1, <5>1, <5>3
            <7> QED
              BY <1>1, <3>1, <5>1, <7>1, WriteBlocksProperties
          <6> QED
            BY <5>1, <5>3, <6>1
        <5> QED
          BY <5>2, <5>3
      <4>3. L' = [i \in 1 .. Len(L) |->
                    IF i \in done + 1 .. done + n /\ i <= Len(c) THEN c[i] ELSE L[i]]
        BY <3>3, <4>2, LenProperties
      <4>4. Log!Replace(c, done + 1, done + n)
        BY <1>1, <2>1, <4>3 DEF Log!Replace, L
      <4> QED
        BY <3>2, <4>1, <4>4 DEF Log!Next
    <3> QED
      BY <1>1, <3>4, <3>5
  <2>2. CASE ~sound
    BY <1>1, <2>2 DEF L
  <2> QED
    BY <2>1, <2>2
<1> QED
  BY <1>2, <1>3

\* A new header begins a new log.
LEMMA HeaderRefines ==
  ASSUME IInv, IInv', WriteHeader
  PROVE  [Log!Next]_<<sound, L>>
<1>1. CASE size' = 0 /\ sound' = TRUE
  <2>1. L' = << >>
    BY <1>1, SubSeqEmpty DEF L, Described
  <2>2. Log!Format
    BY <1>1, <2>1 DEF Log!Format, L
  <2> QED
    BY <2>2 DEF Log!Next
<1>2. CASE UNCHANGED <<size, sound>>
  <2>1. data' = data
    BY DEF WriteHeader
  <2> QED
    BY <1>2, <2>1, SameLog
<1> QED
  BY <1>1, <1>2, Zenon DEF WriteHeader, header

\* Every step is one of the log, or none.
LEMMA StepRefines == IInv /\ IInv' /\ [Next]_vars => [Log!Next]_<<sound, L>>
<1> SUFFICES ASSUME IInv, IInv', [Next]_vars PROVE [Log!Next]_<<sound, L>>
  OBVIOUS
<1>1. CASE \/ ParseHeader \/ CopyStart \/ AppendFails \/ TransferFails \/ Crash
           \/ \E n \in 0 .. MaxChunk : AppendStart(n) \/ WriteDataStart(n)
           \/ \E n \in 0 .. SizeLimit - 1 : CopyRead(n)
           \/ UNCHANGED vars
  <2>1. UNCHANGED <<sound, size, data>>
    BY <1>1 DEF ParseHeader, CopyStart, AppendFails, TransferFails, Crash, AppendStart,
       WriteDataStart, CopyRead, vars, header
  <2> QED
    BY <2>1, SameLog
<1> QED
  BY <1>1, HeaderRefines, UpdateRefines, WriteRefines DEF Next

-----------------------------------------------------------------------------
(* The theorems *)

\* The invariant holds in every reachable state.
LEMMA Invariant == Spec => []IInv
<1> QED
  BY InitInv, StepInv, PTL DEF Spec

\* Type correctness of the model of audio_utils.c:46-209.
THEOREM TypeCorrect == Spec => []TypeOK
<1>1. IInv => TypeOK
  BY DEF IInv
<1> QED
  BY Invariant, <1>1, PTL

\* Whatever fails and wherever the process dies, the header never describes
\* samples that are not in the file: the size is written after the samples
\* (audio_utils.c:188-202).
THEOREM HeaderAlwaysCovered == Spec => []HeaderCovered
<1>1. IInv => HeaderCovered
  BY DEF IInv
<1> QED
  BY Invariant, <1>1, PTL

\* What the header describes is a log of whole chunks, each appended once and in
\* the order of the calls, whatever system call of append_wav_data fails, is
\* short or is the last one of the process.
THEOREM ImplementsLog == Spec => LogSpec
<1>1. L = IF sound THEN Described ELSE << >>
  BY DEF L
<1>2. Init => Log!Init
  BY LogInit
<1>3. IInv /\ IInv' /\ [Next]_vars => [Log!Next]_<<sound, IF sound THEN Described ELSE << >>>>
  BY StepRefines DEF L
<1> QED
  BY Invariant, <1>2, <1>3, PTL DEF Spec, LogSpec, Log!Spec

-----------------------------------------------------------------------------
(* What copy_wav_data returns *)

\* The buffer holds the blocks read so far; as long as the header that was parsed
\* is the one that describes the file, these are blocks that it described, since
\* an append writes after them.
BufInv ==
  op = "copy" =>
    /\ len = wh.size /\ Len(buf) = done /\ done <= Len(data)
    /\ \A i \in 1 .. done : buf[i] = data[i]
ParsedInv ==
  parsed # NoLog =>
    /\ sound /\ op # "write_data"
    /\ Len(parsed) = wh.size /\ wh.size <= size
    /\ \A i \in 1 .. wh.size : data[i] = parsed[i]
CopyInv == BufInv /\ ParsedInv

\* A step that changes neither the header that was parsed nor what it described.
LEMMA ParsedKept ==
  ASSUME ParsedInv,
         parsed' = NoLog \/ (/\ UNCHANGED <<parsed, wh>> /\ sound' /\ op' # "write_data"
                             /\ wh.size <= size'
                             /\ \A i \in 1 .. wh.size : data'[i] = data[i])
  PROVE  ParsedInv'
BY DEF ParsedInv

\* One read of the loop puts the next blocks of the file behind the others.
LEMMA ReadBuffer ==
  ASSUME IInv, CopyInv, NEW n \in 0 .. SizeLimit - 1, CopyRead(n)
  PROVE  /\ buf' \in Seq(Blocks) /\ Len(buf') = done' /\ done' \in Nat /\ done' <= Len(data)
         /\ \A i \in 1 .. done' : buf'[i] = data[i]
<1> USE SizesAssumption
<1>1. /\ buf \in Seq(Blocks) /\ data \in Seq(Blocks) /\ Len(data) \in Nat /\ n \in Nat
      /\ done \in Nat /\ done' = done + n /\ buf' = Received(n)
      /\ Len(buf) = done /\ done <= Len(data) /\ \A i \in 1 .. done : buf[i] = data[i]
      /\ n = 0 \/ done + n <= Len(data)
  <2>1. /\ buf \in Seq(Blocks) /\ data \in Seq(Blocks) /\ n \in Nat /\ done \in Nat
    BY DEF IInv, TypeOK
  <2>2. Len(data) \in Nat
    BY <2>1, LenProperties
  <2>3. /\ op = "copy" /\ buf' = Received(n) /\ done' = done + n
        /\ n = 0 \/ done + n <= Len(data)
    BY DEF CopyRead, Advanced
  <2>4. Len(buf) = done /\ done <= Len(data) /\ \A i \in 1 .. done : buf[i] = data[i]
    BY <2>3 DEF CopyInv, BufInv
  <2> QED
    BY <2>1, <2>2, <2>3, <2>4
<1>2. \A i \in done + 1 .. done + n : data[i] \in Blocks
  BY <1>1, ElementOfSeq
<1>3. /\ Incoming(n) \in Seq(Blocks) /\ Len(Incoming(n)) = n
      /\ \A i \in 1 .. n : Incoming(n)[i] = data[done + i]
  <2> DEFINE from == done + 1
             to == done + n
             s == SubSeq(data, from, to)
  <2>1. from \in Int /\ to \in Int /\ to - from + 1 = n /\ (from <= to <=> n > 0)
        /\ \A i \in 1 .. n : from + i - 1 = done + i
    BY <1>1
  <2>2. \A i \in from .. to : data[i] \in Blocks
    BY <1>2
  <2> HIDE DEF from, to
  <2>3. /\ s \in Seq(Blocks)
        /\ Len(s) = IF from <= to THEN to - from + 1 ELSE 0
        /\ \A i \in 1 .. to - from + 1 : s[i] = data[from + i - 1]
    BY <2>1, <2>2, SubSeqProperties
  <2>4. Incoming(n) = s
    BY DEF Incoming, from, to
  <2> HIDE DEF s
  <2>5. Len(s) = n
    BY <1>1, <2>1, <2>3
  <2>6. \A i \in 1 .. n : s[i] = data[done + i]
    BY <2>1, <2>3
  <2> QED
    BY <2>3, <2>4, <2>5, <2>6
<1> DEFINE t == Incoming(n)
<1>4. /\ buf' = buf \o t
      /\ t \in Seq(Blocks) /\ Len(t) = n /\ \A i \in 1 .. n : t[i] = data[done + i]
  BY <1>1, <1>3 DEF Received
<1> HIDE DEF t
<1>5. /\ buf \o t \in Seq(Blocks) /\ Len(buf \o t) = done + n
      /\ \A i \in 1 .. done + n : (buf \o t)[i] = IF i <= done THEN buf[i] ELSE t[i - done]
  <2>1. /\ buf \o t \in Seq(Blocks) /\ Len(buf \o t) = Len(buf) + Len(t)
        /\ \A i \in 1 .. Len(buf) + Len(t) :
             (buf \o t)[i] = IF i <= Len(buf) THEN buf[i] ELSE t[i - Len(buf)]
    BY <1>1, <1>4, ConcatProperties
  <2> QED
    BY <1>1, <1>4, <2>1
<1>6. ASSUME NEW i \in 1 .. done + n PROVE (buf \o t)[i] = data[i]
  <2>1. CASE i <= done
    BY <1>1, <1>5, <2>1
  <2>2. CASE i > done
    <3>1. i - done \in 1 .. n /\ done + (i - done) = i /\ ~(i <= done)
      BY <1>1, <2>2
    <3>2. (buf \o t)[i] = t[i - done]
      BY <1>5, <3>1
    <3> QED
      BY <1>4, <3>1, <3>2
  <2>3. i <= done \/ i > done
    BY <1>1
  <2> QED
    BY <2>1, <2>2, <2>3
<1> QED
  BY <1>1, <1>4, <1>5, <1>6

\* Nothing is copied yet.
LEMMA CopyInit == Init => CopyInv
BY DEF Init, CopyInv, BufInv, ParsedInv

\* Every step keeps the copy a prefix of the file.
LEMMA CopyStep == IInv /\ CopyInv /\ [Next]_vars => CopyInv'
<1> SUFFICES ASSUME IInv, CopyInv, [Next]_vars PROVE CopyInv'
  OBVIOUS
<1> USE SizesAssumption
<1>1. /\ data \in Seq(Blocks) /\ Len(data) \in Nat /\ size \in Nat /\ wh.size \in Nat
      /\ ParsedInv /\ BufInv
  BY LenProperties DEF IInv, TypeOK, CopyInv
<1>2. ASSUME NEW n \in 0 .. MaxChunk, AppendWrite(n) PROVE CopyInv'
  <2>1. /\ TypeOK /\ op = "append" /\ op' \in {"append", "update"} /\ n \in Nat
        /\ datasize + done \in Nat /\ done + n <= MaxChunk
        /\ UNCHANGED <<parsed, wh, size, sound>>
        /\ WriteBlocks(datasize + done, n)
    BY <1>2 DEF IInv, TypeOK, LenInv, AppendWrite, AppendAt, Advanced, Then, caller
  <2>2. PICK at \in Nat : at = datasize + done /\ WriteBlocks(at, n)
    <3>1. PICK at \in Nat : at = datasize + done
      BY <2>1
    <3> QED
      BY <2>1, <3>1 DEF WriteBlocks, Written
  <2>3. \A i \in 1 .. at : i <= Len(data) => data'[i] = data[i]
    BY <2>1, <2>2, WriteBlocksProperties
  <2>4. sound => size <= at /\ size <= Len(data)
    BY <2>1, <2>2 DEF IInv, TypeOK, HeaderCovered, AppendInv, Appending
  <2>5. parsed # NoLog => sound /\ wh.size <= size
    BY <1>1 DEF ParsedInv
  <2>6. parsed # NoLog => \A i \in 1 .. wh.size : data'[i] = data[i]
    BY <1>1, <2>3, <2>4, <2>5
  <2>7. ParsedInv'
    BY <1>1, <2>1, <2>5, <2>6, ParsedKept
  <2> QED
    BY <2>1, <2>7 DEF CopyInv, BufInv
<1>3. ASSUME AppendUpdate PROVE CopyInv'
  <2>1. /\ op = "update" /\ op' = "idle" /\ UNCHANGED <<wh, data>>
        /\ size' = (datasize + len) % SizeLimit
        /\ sound' = (sound /\ datasize + len < SizeLimit)
        /\ parsed' = IF sound' THEN parsed ELSE NoLog
    BY <1>3 DEF AppendUpdate, NewSize, Then
  <2>2. parsed' # NoLog => sound' /\ parsed' = parsed /\ wh.size <= size'
    <3> SUFFICES ASSUME parsed' # NoLog PROVE sound' /\ parsed' = parsed /\ wh.size <= size'
      OBVIOUS
    <3>1. sound' /\ parsed' = parsed /\ sound /\ datasize + len < SizeLimit
      BY <2>1
    <3>2. datasize = size /\ len \in Nat /\ wh.size <= size
      BY <1>1, <2>1, <3>1 DEF IInv, TypeOK, AppendInv, Appending, ParsedInv
    <3>3. datasize + len \in 0 .. SizeLimit - 1
      BY <1>1, <3>1, <3>2
    <3>4. size' = datasize + len
      BY <2>1, <3>3
    <3> QED
      BY <1>1, <3>1, <3>2, <3>4
  <2>3. ParsedInv'
    BY <1>1, <2>1, <2>2, ParsedKept
  <2> QED
    BY <2>1, <2>3 DEF CopyInv, BufInv
<1>4. ASSUME ParseHeader PROVE CopyInv'
  <2>1. op = "idle" /\ UNCHANGED <<op, data, size, sound>>
    BY <1>4 DEF ParseHeader, header
  <2>2. CASE wh' = [ids |-> ids, size |-> size] /\ parsed' = Described /\ sound
    <3>1. size <= Len(data) /\ \A i \in 1 .. size : data[i] \in Blocks
      BY <1>1, <2>2, ElementOfSeq DEF IInv, HeaderCovered
    <3>2. Len(parsed') = size /\ \A i \in 1 .. size : parsed'[i] = data[i]
      BY <1>1, <2>2, <3>1, SubSeqProperties DEF Described
    <3> QED
      BY <1>1, <2>1, <2>2, <3>2 DEF CopyInv, BufInv, ParsedInv
  <2>3. CASE parsed' = NoLog \/ UNCHANGED <<wh, parsed>>
    <3>1. ParsedInv'
      BY <1>1, <2>1, <2>3 DEF ParsedInv
    <3> QED
      BY <2>1, <3>1 DEF CopyInv, BufInv
  <2> QED
    BY <1>4, <2>2, <2>3 DEF ParseHeader
<1>5. ASSUME CopyStart PROVE CopyInv'
  <2>1. /\ op' = "copy" /\ len' = wh.size /\ done' = 0 /\ buf' = << >>
        /\ UNCHANGED <<parsed, wh, size, sound, data>>
    BY <1>5 DEF CopyStart, header
  <2>2. ParsedInv'
    BY <1>1, <2>1 DEF ParsedInv
  <2>3. Len(buf') = 0
    BY <2>1, EmptySeq
  <2> QED
    BY <1>1, <2>1, <2>2, <2>3 DEF CopyInv, BufInv
<1>6. ASSUME NEW n \in 0 .. SizeLimit - 1, CopyRead(n) PROVE CopyInv'
  <2>1. /\ op = "copy" /\ op' \in {"idle", "copy"}
        /\ UNCHANGED <<parsed, wh, size, sound, data, len>>
    BY <1>6 DEF CopyRead, header
  <2>2. ParsedInv'
    BY <1>1, <2>1 DEF ParsedInv
  <2>3. Len(buf') = done' /\ done' <= Len(data) /\ \A i \in 1 .. done' : buf'[i] = data[i]
    BY <1>6, ReadBuffer
  <2> QED
    BY <1>1, <2>1, <2>2, <2>3 DEF CopyInv, BufInv
<1>7. CASE WriteHeader \/ AppendFails \/ TransferFails \/ Crash \/ UNCHANGED vars
           \/ \E n \in 0 .. MaxChunk : AppendStart(n) \/ WriteDataStart(n)
  <2>1. /\ \/ parsed' = NoLog
           \/ UNCHANGED <<parsed, wh, size, sound, data>> /\ op' \in {"idle", "append", op}
        /\ op' = "copy" => op = "copy" /\ UNCHANGED <<len, wh, buf, done, data>>
    BY <1>7
    DEF WriteHeader, AppendFails, TransferFails, Crash, AppendStart, WriteDataStart, NewCall, Then,
        vars, header, locals, caller
  <2>2. ParsedInv'
    BY <1>1, <2>1 DEF ParsedInv
  <2> QED
    BY <1>1, <2>1, <2>2 DEF CopyInv, BufInv
<1>8. ASSUME NEW n \in 0 .. MaxChunk, WriteData(n) PROVE CopyInv'
  <2>1. op = "write_data" /\ op' # "copy" /\ parsed' = parsed
    BY <1>8 DEF WriteData, caller
  <2>2. parsed = NoLog
    BY <1>1, <2>1 DEF ParsedInv
  <2> QED
    BY <2>1, <2>2 DEF CopyInv, BufInv, ParsedInv
<1> QED
  BY <1>2, <1>3, <1>4, <1>5, <1>6, <1>7, <1>8 DEF Next

\* A copy that returns 0 has returned the samples that were described when the
\* caller's header was read, although the file may have grown meanwhile
\* (audio_utils.c:55 and 116-140).
THEOREM CopiesGiveParsed == Spec => CopyGivesParsed
<1>1. ASSUME IInv, CopyInv, Next, op = "copy", ret' = 0, parsed # NoLog
      PROVE  buf' = parsed
  <2>1. PICK n \in 0 .. SizeLimit - 1 : CopyRead(n)
    BY <1>1
    DEF Next, WriteHeader, AppendUpdate, AppendFails, AppendStart, AppendWrite, WriteDataStart,
        WriteData, NewCall, ParseHeader, CopyStart, TransferFails, Crash
  <2>2. done' = len
    BY <1>1, <2>1 DEF CopyRead
  <2>3. /\ buf' \in Seq(Blocks) /\ Len(buf') = done' /\ done' \in Nat
        /\ \A i \in 1 .. done' : buf'[i] = data[i]
    BY <1>1, <2>1, ReadBuffer
  <2>4. /\ parsed \in Seq(Blocks) /\ Len(parsed) = len
        /\ \A i \in 1 .. len : data[i] = parsed[i]
    BY <1>1 DEF IInv, TypeOK, CopyInv, BufInv, ParsedInv
  <2>5. Len(buf') = Len(parsed) /\ \A i \in 1 .. Len(buf') : buf'[i] = parsed[i]
    BY <2>2, <2>3, <2>4
  <2> DEFINE b == buf'
  <2>6. b \in Seq(Blocks) /\ Len(b) = Len(parsed) /\ \A i \in 1 .. Len(b) : b[i] = parsed[i]
    BY <2>3, <2>5
  <2> HIDE DEF b
  <2>7. b = parsed
    BY <2>4, <2>6, SeqEqual
  <2> QED
    BY <2>7 DEF b
<1>2. IInv /\ CopyInv /\ [Next]_vars =>
        [op = "copy" /\ ret' = 0 /\ parsed # NoLog => buf' = parsed]_vars
  BY <1>1
<1>3. Spec => [](IInv /\ CopyInv)
  BY InitInv, StepInv, CopyInit, CopyStep, PTL DEF Spec
<1> QED
  BY <1>2, <1>3, PTL DEF Spec, CopyGivesParsed

=============================================================================
