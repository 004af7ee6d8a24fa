------------------------------ MODULE WavFile -------------------------------
(***************************************************************************)
(* The functions of audio_utils.c on .wav files: a file is a header, whose *)
(* last field is the size of the samples it describes, and the samples.    *)
(* The functions make several system calls each; any of these may fail or  *)
(* do less than asked, and the process may die between two of them.  What  *)
(* has been written stays.                                                 *)
(*                                                                         *)
(* Samples are counted in blocks.  A block stands for more than the 44     *)
(* bytes of a header, and is the pair of the call that wrote it and of its *)
(* place in that call's buffer; call 0 wrote what was there at the start.  *)
(***************************************************************************)
EXTENDS Integers, Sequences

CONSTANTS
  SizeLimit,  \* the values of data_size: 2^32 bytes, in blocks
  MaxChunk,   \* bound: blocks of one call
  MaxCalls    \* bound: calls that write samples, over the life of the file

ASSUME SizesAssumption ==
  /\ SizeLimit \in Nat \ {0} /\ MaxChunk \in Nat /\ MaxCalls \in Nat
  /\ MaxChunk < SizeLimit

VARIABLES
  ids, whole, size,  \* header: its block IDs are right, it is all there, data_size
  data,              \* the blocks that follow it
  op, call,          \* the function that runs, the number of its call
  len, done,         \* its size argument, blocks written or read so far
  datasize,          \* append_wav_data: the size it has read
  wh, buf,           \* the caller's wav_header and audio_datas
  ret,               \* what the last call returned
  sound,             \* history: a header has been written, and its size never
                     \* overflowed since
  parsed             \* history: the samples described when wh was read, if
                     \* nothing has replaced them since

header == <<ids, whole, size>>
locals == <<call, len, done, datasize>>
caller == <<wh, buf, parsed>>
vars == <<header, data, op, locals, caller, ret, sound>>

Zero == <<0, 0>>  \* the hole a write beyond the end leaves
Chunk(c, n) == [i \in 1 .. n |-> <<c, i>>]
Chunks == {Chunk(c, n) : c \in 1 .. MaxCalls, n \in 0 .. MaxChunk}
Blocks == (0 .. MaxCalls) \X (0 .. MaxChunk)
NoLog == <<Zero>>

\* The samples that the header describes.
Described == SubSeq(data, 1, size)

TypeOK ==
  /\ ids \in BOOLEAN /\ whole \in BOOLEAN /\ sound \in BOOLEAN
  /\ size \in 0 .. SizeLimit - 1 /\ datasize \in 0 .. SizeLimit - 1
  /\ data \in Seq(Blocks)
  /\ op \in {"idle", "append", "update", "write_data", "copy"}
  /\ call \in 0 .. MaxCalls
  /\ len \in 0 .. SizeLimit - 1 /\ done \in 0 .. len
  /\ wh \in [ids : BOOLEAN, size : 0 .. SizeLimit - 1]
  /\ buf \in Seq(Blocks) /\ parsed \in Seq(Blocks)
  /\ ret \in {0, -1}

\* The caller opens a new file or a .wav file with samples in it; its own
\* wav_header holds nothing.
Init ==
  /\ \E n \in 0 .. MaxChunk :
       /\ data = Chunk(0, n) /\ size = n
       /\ whole \in BOOLEAN /\ (n > 0 => whole)
  /\ ids = whole /\ sound = whole
  /\ op = "idle" /\ call = 0 /\ len = 0 /\ done = 0 /\ datasize = 0
  /\ wh = [ids |-> FALSE, size |-> 0] /\ buf = <<>> /\ parsed = NoLog
  /\ ret = 0

-----------------------------------------------------------------------------
(* write_wav_header *)

\* A write within the file does all it is asked; one that extends the file may
\* be short or fail.
WriteHeader ==
  /\ op = "idle"
  /\ \/ /\ ids' = TRUE /\ whole' = TRUE /\ size' = 0 /\ sound' = TRUE
        /\ parsed' = NoLog /\ ret' = 0
     \/ /\ ~whole /\ ids' \in {ids, TRUE} /\ ret' = -1
        /\ UNCHANGED <<whole, size, sound, parsed>>
     \/ ret' = -1 /\ UNCHANGED <<header, sound, parsed>>
  /\ UNCHANGED <<data, op, locals, wh, buf>>

-----------------------------------------------------------------------------
(* append_wav_data and write_wav_data *)

\* The next n blocks of call's buffer, written at offset at.
Written(at, n) ==
  [i \in 1 .. (IF at + n > Len(data) THEN at + n ELSE Len(data)) |->
     IF at < i /\ i <= at + n THEN <<call, done + i - at>>
     ELSE IF i <= Len(data) THEN data[i] ELSE Zero]

\* What remains to be written or read after n blocks more.  (Stuck: to_write or
\* to_read not counted down.)
Stuck(n) == done
Advanced(n) == done + n

\* One write of n blocks to the samples; it makes the file as long as a header.
WriteBlocks(at, n) ==
  /\ data' = IF n = 0 THEN data ELSE Written(at, n)
  /\ whole' = (whole \/ n > 0)

NewCall(n) ==
  /\ op = "idle" /\ call < MaxCalls
  /\ call' = call + 1 /\ len' = n /\ done' = 0

\* The order of append_wav_data.  (SizeFirst: the size before the samples.)
SizeFirst(step) == [read |-> "update", update |-> "append", append |-> "idle"][step]
Then(step) == [read |-> "append", append |-> "update", update |-> "idle"][step]

\* lseek, read of data_size, lseek.  Of a file too short for a header the read
\* leaves bytes of datasize as they were: any value.
AppendStart(n) ==
  /\ NewCall(n)
  /\ \/ datasize' \in (IF whole THEN {size} ELSE 0 .. SizeLimit - 1) /\ op' = Then("read")
     \/ UNCHANGED <<datasize, op>>
  /\ ret' = -1
  /\ UNCHANGED <<header, data, caller, sound>>

\* Where the next write of append_wav_data goes.
AppendAt == datasize + done

\* One write of the loop: n of the blocks that remain, or none.
AppendWrite(n) ==
  /\ op = "append" /\ n <= len - done
  /\ WriteBlocks(AppendAt, n)
  /\ done' = Advanced(n)
  /\ op' = IF done' = len THEN Then("append") ELSE "append"
  /\ UNCHANGED <<ids, size, call, len, datasize, caller, ret, sound>>

\* The new value of the field, a uint32_t.  (LastOnly: the size of this call's
\* samples alone.)
LastOnly == len
NewSize == (datasize + len) % SizeLimit

AppendUpdate ==
  /\ op = "update"
  /\ size' = NewSize /\ whole' \in {whole, TRUE}
  /\ sound' = (sound /\ datasize + len < SizeLimit)
  /\ parsed' = IF sound' THEN parsed ELSE NoLog
  /\ op' = Then("update") /\ ret' = 0
  /\ UNCHANGED <<ids, data, locals, wh, buf>>

\* A write of the loop or of the size that fails.
AppendFails ==
  /\ op \in {"append", "update"}
  /\ op' = "idle" /\ ret' = -1
  /\ UNCHANGED <<header, data, locals, caller, sound>>

WriteDataStart(n) ==
  /\ NewCall(n)
  /\ op' = "write_data" /\ ret' = -1
  /\ parsed' = NoLog
  /\ UNCHANGED <<header, data, datasize, wh, buf, sound>>

\* One write of the loop, which gives up on an error or a write of nothing.
WriteData(n) ==
  /\ op = "write_data" /\ n <= len - done
  /\ WriteBlocks(done, n)
  /\ done' = Advanced(n)
  /\ op' = IF done' = len \/ n = 0 THEN "idle" ELSE "write_data"
  /\ ret' = IF done' = len THEN 0 ELSE -1
  /\ UNCHANGED <<ids, size, call, len, datasize, caller, sound>>

-----------------------------------------------------------------------------
(* parse_wav_header and copy_wav_data *)

\* read_ret < header_size compares as unsigned: a failed read passes it and the
\* IDs tested are those wh held before.
ParseHeader ==
  /\ op = "idle"
  /\ \/ /\ whole /\ wh' = [ids |-> ids, size |-> size]
        /\ parsed' = IF sound THEN Described ELSE NoLog
        /\ ret' = IF wh'.ids THEN 0 ELSE -1
     \/ /\ ~whole /\ wh' \in {wh, [wh EXCEPT !.ids = ids]}
        /\ parsed' = NoLog /\ ret' = -1
     \/ /\ UNCHANGED <<wh, parsed>>
        /\ ret' = IF wh.ids THEN 0 ELSE -1
  /\ UNCHANGED <<header, data, op, locals, buf, sound>>

\* The caller copies after a parse that returned 0.
CopyStart ==
  /\ op = "idle" /\ wh.ids
  /\ op' = "copy" /\ len' = wh.size /\ done' = 0
  /\ buf' = <<>> /\ ret' = -1
  /\ UNCHANGED <<header, data, call, datasize, wh, parsed, sound>>

\* Where a read puts the n blocks it returns.  (NotAdvanced: audio_datas_p left
\* at the start of the buffer.)
Incoming(n) == SubSeq(data, done + 1, done + n)
NotAdvanced(n) == Incoming(n) \o SubSeq(buf, n + 1, Len(buf))
Received(n) == buf \o Incoming(n)

\* One read of the loop, which gives up at the end of the file.
CopyRead(n) ==
  /\ op = "copy" /\ n <= len - done /\ n <= Len(data)
  /\ n = 0 \/ done + n <= Len(data)
  /\ n = 0 => len = 0 \/ done >= Len(data)
  /\ buf' = Received(n)
  /\ done' = Advanced(n)
  /\ op' = IF done' = len \/ n = 0 THEN "idle" ELSE "copy"
  /\ ret' = IF done' = len THEN 0 ELSE -1
  /\ UNCHANGED <<header, data, call, len, datasize, wh, parsed, sound>>

\* A read or write that fails.
TransferFails ==
  /\ op \in {"write_data", "copy"}
  /\ op' = "idle" /\ ret' = -1
  /\ UNCHANGED <<header, data, locals, caller, sound>>

\* The process dies and another one opens the file.
Crash ==
  /\ op' = "idle" /\ ret' = -1
  /\ wh' = [ids |-> FALSE, size |-> 0] /\ buf' = <<>> /\ parsed' = NoLog
  /\ UNCHANGED <<header, data, locals, sound>>

-----------------------------------------------------------------------------
Next ==
  \/ WriteHeader \/ AppendUpdate \/ AppendFails
  \/ \E n \in 0 .. MaxChunk :
       AppendStart(n) \/ AppendWrite(n) \/ WriteDataStart(n) \/ WriteData(n)
  \/ ParseHeader \/ CopyStart \/ TransferFails \/ Crash
  \/ \E n \in 0 .. SizeLimit - 1 : CopyRead(n)

Spec == Init /\ [][Next]_vars

\* A call that has begun goes on, and the kernel does not refuse the rest of a
\* buffer for ever (the loop of append_wav_data repeats a write of nothing).
FairSpec ==
  /\ Spec
  /\ WF_vars(\E n \in 0 .. MaxChunk : (n > 0 \/ done = len) /\ AppendWrite(n))
  /\ WF_vars(AppendUpdate)
  /\ WF_vars(\E n \in 0 .. MaxChunk : WriteData(n))
  /\ WF_vars(\E n \in 0 .. SizeLimit - 1 : CopyRead(n))

-----------------------------------------------------------------------------
(* Properties *)

\* The samples a header describes are in the file, whatever call failed and
\* wherever the process died: append_wav_data writes them before it counts them
\* (audio_utils.c:188-202).
HeaderCovered == sound => size <= Len(data)

\* What the header describes behaves as module ChunkLog says: an append that
\* fails, dies or is called again leaves no part of a chunk and no second copy.
Log == INSTANCE ChunkLog WITH formatted <- sound,
                              log <- IF sound THEN Described ELSE <<>>
LogSpec == Log!Spec

\* A copy that returns 0 has returned the samples that were described when the
\* caller's header was read, even if the file has grown meanwhile or a later
\* parse failed (audio_utils.c:55 and 116-140).
CopyGivesParsed ==
  [][op = "copy" /\ ret' = 0 /\ parsed # NoLog => buf' = parsed]_vars

\* Every call returns, short writes and reads included (audio_utils.c:188-197).
CallsReturn == op # "idle" ~> op = "idle"

=============================================================================
