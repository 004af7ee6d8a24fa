---------------------------- MODULE ProgramProofs ----------------------------
(***************************************************************************)
(* Proofs about Program, for pools of every size: main starts the          *)
(* tasks and ends them in an order in which the flags are set and the      *)
(* mailboxes are created before they are used, and what main frees is not  *)
(* in use, although nothing but the priorities synchronises them.          *)
(***************************************************************************)
EXTENDS Program, SequenceTheorems, TLAPS

-----------------------------------------------------------------------------
(* Queues of threads *)

\* What is in a sequence, and that nothing is in it twice.
LEMMA SeqRange ==
  ASSUME NEW S, NEW s \in Seq(S)
  PROVE  /\ \A i \in 1 .. Len(s) : s[i] \in Range(s)
         /\ \A x \in Range(s) : \E i \in 1 .. Len(s) : s[i] = x
         /\ IsInjective(s) <=> \A i, j \in 1 .. Len(s) : s[i] = s[j] => i = j
BY RangeEquality, LenProperties DEF IsInjective

\* The same for the sequences of up to two elements.
LEMMA ShortRange ==
  /\ \A S : <<>> \in Seq(S) /\ IsInjective(<<>>) /\ Range(<<>>) = {}
  /\ \A S : \A u \in S : <<u>> \in Seq(S) /\ IsInjective(<<u>>) /\ Range(<<u>>) = {u}
  /\ \A S : \A u, v \in S :
       /\ <<u, v>> \in Seq(S) /\ Range(<<u, v>>) = {u, v}
       /\ u # v => IsInjective(<<u, v>>)
<1>1. ASSUME NEW S PROVE <<>> \in Seq(S) /\ IsInjective(<<>>) /\ Range(<<>>) = {}
  BY DEF Range, IsInjective
<1>2. ASSUME NEW S, NEW u \in S
      PROVE  <<u>> \in Seq(S) /\ IsInjective(<<u>>) /\ Range(<<u>>) = {u}
  BY DEF Range, IsInjective
<1>3. ASSUME NEW S, NEW u \in S, NEW v \in S
      PROVE  /\ <<u, v>> \in Seq(S) /\ Range(<<u, v>>) = {u, v}
             /\ u # v => IsInjective(<<u, v>>)
  BY DEF Range, IsInjective
<1> QED
  BY <1>1, <1>2, <1>3

\* What is in a queue to which others have been appended.
LEMMA ConcatRange ==
  ASSUME NEW S, NEW s \in Seq(S), NEW w \in Seq(S)
  PROVE  /\ s \o w \in Seq(S)
         /\ Range(s \o w) = Range(s) \cup Range(w)
         /\ IsInjective(s) /\ IsInjective(w) /\ Range(s) \cap Range(w) = {} => IsInjective(s \o w)
<1>1. /\ s \o w \in Seq(S)
      /\ Len(s \o w) = Len(s) + Len(w) /\ Len(s) \in Nat /\ Len(w) \in Nat
      /\ \A i \in 1 .. Len(s) + Len(w) :
           (s \o w)[i] = IF i <= Len(s) THEN s[i] ELSE w[i - Len(s)]
  BY ConcatProperties, LenProperties
<1>2. \A i \in 1 .. Len(w) : (s \o w)[Len(s) + i] = w[i] /\ Len(s) + i \in 1 .. Len(s) + Len(w)
  BY <1>1
<1>3. Range(s \o w) = Range(s) \cup Range(w)
  BY RangeConcatenation
<1>4. /\ \A i \in 1 .. Len(s) : s[i] \in Range(s)
      /\ \A i \in 1 .. Len(w) : w[i] \in Range(w)
      /\ IsInjective(s) <=> \A i, j \in 1 .. Len(s) : s[i] = s[j] => i = j
      /\ IsInjective(w) <=> \A i, j \in 1 .. Len(w) : w[i] = w[j] => i = j
  BY SeqRange
<1>5. IsInjective(s \o w) <=>
        \A i, j \in 1 .. Len(s) + Len(w) : (s \o w)[i] = (s \o w)[j] => i = j
  <2>1. IsInjective(s \o w) <=>
          \A i, j \in 1 .. Len(s \o w) : (s \o w)[i] = (s \o w)[j] => i = j
    BY <1>1, SeqRange
  <2> QED
    BY <2>1, <1>1
<1>6. ASSUME IsInjective(s), IsInjective(w), Range(s) \cap Range(w) = {}
      PROVE  IsInjective(s \o w)
  <2> SUFFICES ASSUME NEW i \in 1 .. Len(s) + Len(w), NEW j \in 1 .. Len(s) + Len(w),
                      (s \o w)[i] = (s \o w)[j]
               PROVE  i = j
    BY <1>5
  <2>1. \A a \in 1 .. Len(s), b \in 1 .. Len(w) : s[a] # w[b]
    BY <1>4, <1>6
  <2>2. CASE i <= Len(s) /\ j <= Len(s)
    BY <2>2, <1>1, <1>4, <1>6
  <2>3. CASE i > Len(s) /\ j > Len(s)
    <3>1. /\ i - Len(s) \in 1 .. Len(w) /\ j - Len(s) \in 1 .. Len(w)
          /\ w[i - Len(s)] = w[j - Len(s)]
      BY <2>3, <1>1
    <3>2. i - Len(s) = j - Len(s)
      BY <3>1, <1>4, <1>6
    <3> QED
      BY <3>2, <1>1
  <2>4. CASE i <= Len(s) /\ j > Len(s)
    <3>1. i \in 1 .. Len(s) /\ j - Len(s) \in 1 .. Len(w) /\ s[i] = w[j - Len(s)]
      BY <2>4, <1>1
    <3> QED
      BY <3>1, <2>1
  <2>5. CASE i > Len(s) /\ j <= Len(s)
    <3>1. j \in 1 .. Len(s) /\ i - Len(s) \in 1 .. Len(w) /\ s[j] = w[i - Len(s)]
      BY <2>5, <1>1
    <3> QED
      BY <3>1, <2>1
  <2> QED
    BY <2>2, <2>3, <2>4, <2>5, <1>1
<1> QED
  BY <1>1, <1>3, <1>6

\* What is in a queue whose first thread has left.
LEMMA TailRange ==
  ASSUME NEW S, NEW s \in Seq(S), s # <<>>, IsInjective(s)
  PROVE  /\ Tail(s) \in Seq(S)
         /\ Range(Tail(s)) = Range(s) \ {Head(s)}
         /\ IsInjective(Tail(s))
         /\ Head(s) \in Range(s)
<1>1. /\ Tail(s) \in Seq(S)
      /\ Len(s) \in Nat \ {0} /\ Len(Tail(s)) = Len(s) - 1
      /\ \A i \in 1 .. Len(s) - 1 : Tail(s)[i] = s[i + 1]
      /\ Head(s) = s[1]
  BY HeadTailProperties, EmptySeq, LenProperties
<1>2. /\ \A i \in 1 .. Len(s) : s[i] \in Range(s)
      /\ \A x \in Range(s) : \E i \in 1 .. Len(s) : s[i] = x
      /\ \A i, j \in 1 .. Len(s) : s[i] = s[j] => i = j
  BY SeqRange
<1>3. /\ \A i \in 1 .. Len(s) - 1 : Tail(s)[i] \in Range(Tail(s))
      /\ \A x \in Range(Tail(s)) : \E i \in 1 .. Len(s) - 1 : Tail(s)[i] = x
      /\ IsInjective(Tail(s)) <=>
           \A i, j \in 1 .. Len(s) - 1 : Tail(s)[i] = Tail(s)[j] => i = j
  <2> DEFINE w == Tail(s)
  <2>1. /\ \A i \in 1 .. Len(w) : w[i] \in Range(w)
        /\ \A x \in Range(w) : \E i \in 1 .. Len(w) : w[i] = x
        /\ IsInjective(w) <=> \A i, j \in 1 .. Len(w) : w[i] = w[j] => i = j
    BY <1>1, SeqRange
  <2> QED
    BY <2>1, <1>1
<1>4. ASSUME NEW x \in Range(Tail(s)) PROVE x \in Range(s) /\ x # Head(s)
  <2>1. PICK i \in 1 .. Len(s) - 1 : s[i + 1] = x
    BY <1>1, <1>2, <1>3
  <2>2. i + 1 \in 1 .. Len(s) /\ 1 \in 1 .. Len(s) /\ i + 1 # 1
    BY <2>1, <1>1
  <2>3. x \in Range(s)
    BY <2>1, <2>2, <1>2, <1>3
  <2>4. s[i + 1] # s[1]
    BY <2>2, <1>2, <1>3
  <2> QED
    BY <1>1, <2>1, <2>3, <2>4
<1>5. ASSUME NEW x \in Range(s), x # Head(s) PROVE x \in Range(Tail(s))
  <2>1. PICK i \in 1 .. Len(s) : s[i] = x
    BY <1>2, <1>3
  <2>2. i - 1 \in 1 .. Len(s) - 1 /\ (i - 1) + 1 = i
    BY <2>1, <1>1, <1>5
  <2>3. Tail(s)[i - 1] = x
    BY <2>1, <2>2, <1>1
  <2> QED
    BY <2>2, <2>3, <1>2, <1>3
<1>6. IsInjective(Tail(s))
  <2> SUFFICES ASSUME NEW i \in 1 .. Len(s) - 1, NEW j \in 1 .. Len(s) - 1,
                      s[i + 1] = s[j + 1]
               PROVE  i = j
    BY <1>1, <1>2, <1>3
  <2>1. i + 1 \in 1 .. Len(s) /\ j + 1 \in 1 .. Len(s)
    BY <1>1
  <2> QED
    BY <2>1, <1>1, <1>2, <1>3
<1> QED
  BY <1>1, <1>2, <1>4, <1>5, <1>6

-----------------------------------------------------------------------------
(* The ready queues *)

\* Each thread is in the queue of its priority, and at most once.
QueuesOK(q) ==
  /\ q \in [Priorities -> Seq(Threads)]
  /\ \A p \in Priorities :
       IsInjective(q[p]) /\ \A u \in Range(q[p]) : Priority[u] = p
InQueue(q) == {u \in Threads : u \in Range(q[Priority[u]])}

\* The ready threads.
Ready == InQueue(ready)

\* Threads of one priority that are not ready yet.
WakeOK(wake) ==
  /\ wake.who \in Seq(Threads) /\ IsInjective(wake.who)
  /\ \A u \in Range(wake.who) : Priority[u] = Priority[wake.who[1]] /\ u \notin Ready

\* The priorities: main below the workers, the workers below the others.
LEMMA PriorityValues ==
  /\ Priority \in [Threads -> Priorities]
  /\ Priority["main"] = 0
  /\ \A t \in Tasks : Priority[t] = IF t \in Workers THEN 40 ELSE 50
  /\ Threads = Tasks \cup {"main"}
BY DEF Priority, Priorities, Threads, Tasks, Workers

\* A thread that runs is ready, and none of a higher priority is.
LEMMA RunningIsFirst ==
  ASSUME QueuesOK(ready), NEW t \in Threads, Running(t)
  PROVE  /\ t \in Ready
         /\ \A u \in Ready : Priority[u] <= Priority[t]
<1>1. /\ Priority[t] \in Priorities
      /\ ready[Priority[t]] \in Seq(Threads) /\ ready[Priority[t]] # <<>>
      /\ IsInjective(ready[Priority[t]]) /\ t = Head(ready[Priority[t]])
  BY PriorityValues DEF QueuesOK, Running
<1>2. t \in Ready
  BY <1>1, TailRange DEF Ready, InQueue
<1>3. ASSUME NEW u \in Ready PROVE Priority[u] <= Priority[t]
  <2>1. Priority[u] \in Priorities /\ u \in Range(ready[Priority[u]])
    BY PriorityValues DEF Ready, InQueue
  <2>2. ready[Priority[u]] # <<>>
    BY <2>1, ShortRange
  <2> QED
    BY <2>1, <2>2, <1>1 DEF Running, Priorities
<1> QED
  BY <1>2, <1>3

\* IsReady says what Ready does.
LEMMA ReadyIsReady ==
  ASSUME QueuesOK(ready), NEW t \in Threads
  PROVE  IsReady(t) <=> t \in Ready
<1>1. ready[Priority[t]] \in Seq(Threads)
  BY PriorityValues DEF QueuesOK
<1> QED
  BY <1>1, SeqRange DEF IsReady, Ready, InQueue

\* The queues when the running thread has gone on or has left, and others are ready.
LEMMA QueuesMove ==
  ASSUME QueuesOK(ready), NEW t \in Threads, Running(t), NEW goes_on \in BOOLEAN,
         NEW wake, WakeOK(wake)
  PROVE  /\ QueuesOK(Queues(t, goes_on, wake))
         /\ InQueue(Queues(t, goes_on, wake)) =
              (IF goes_on THEN Ready ELSE Ready \ {t}) \cup Range(wake.who)
<1> DEFINE kept(p) == IF p = Priority[t] /\ ~goes_on THEN Tail(ready[p]) ELSE ready[p]
           woken(p) == IF wake.who # <<>> /\ p = Priority[wake.who[1]] THEN wake.who ELSE <<>>
           q == Queues(t, goes_on, wake)
<1>1. q = [p \in Priorities |-> kept(p) \o woken(p)]
  BY DEF Queues
<1>2. ASSUME NEW p \in Priorities
      PROVE  /\ kept(p) \in Seq(Threads) /\ IsInjective(kept(p))
             /\ Range(kept(p)) = {u \in IF goes_on THEN Ready ELSE Ready \ {t} : Priority[u] = p}
  <2>1. /\ ready[p] \in Seq(Threads) /\ IsInjective(ready[p])
        /\ \A u \in Range(ready[p]) : Priority[u] = p
    BY DEF QueuesOK
  <2>2. Range(ready[p]) \subseteq Threads
    BY <2>1, RangeOfSeq
  <2>3. Range(ready[p]) = {u \in Ready : Priority[u] = p}
    BY <2>1, <2>2 DEF Ready, InQueue
  <2>4. CASE p = Priority[t] /\ ~goes_on
    <3>1. ready[p] # <<>> /\ t = Head(ready[p])
      BY <2>4 DEF Running
    <3> QED
      BY <2>1, <2>3, <2>4, <3>1, TailRange
  <2>5. CASE goes_on
    BY <2>1, <2>3, <2>5
  <2>6. CASE p # Priority[t]
    BY <2>1, <2>3, <2>6
  <2> QED
    BY <2>4, <2>5, <2>6
<1>3. ASSUME NEW p \in Priorities
      PROVE  /\ woken(p) \in Seq(Threads) /\ IsInjective(woken(p))
             /\ Range(woken(p)) = {u \in Range(wake.who) : Priority[u] = p}
  <2>1. /\ <<>> \in Seq(Threads) /\ IsInjective(<<>>) /\ Range(<<>>) = {}
    BY ShortRange
  <2>2. CASE wake.who = <<>>
    BY <2>1, <2>2
  <2>3. CASE wake.who # <<>> /\ p = Priority[wake.who[1]]
    BY <2>3 DEF WakeOK
  <2>4. CASE wake.who # <<>> /\ p # Priority[wake.who[1]]
    BY <2>1, <2>4 DEF WakeOK
  <2> QED
    BY <2>2, <2>3, <2>4
<1> HIDE DEF kept, woken
<1>4. ASSUME NEW p \in Priorities
      PROVE  /\ q[p] \in Seq(Threads) /\ IsInjective(q[p])
             /\ Range(q[p]) = Range(kept(p)) \cup Range(woken(p))
  <2>1. Range(kept(p)) \cap Range(woken(p)) = {}
    BY <1>2, <1>3 DEF WakeOK
  <2> QED
    BY <1>1, <1>2, <1>3, <2>1, ConcatRange
<1>5. q \in [Priorities -> Seq(Threads)]
  <2>1. q = [p \in Priorities |-> q[p]]
    BY <1>1
  <2> QED
    BY <2>1, <1>4
<1> HIDE DEF q
<1>6. Range(wake.who) \subseteq Threads
  BY RangeOfSeq DEF WakeOK
<1>7. QueuesOK(q)
  BY <1>2, <1>3, <1>4, <1>5 DEF QueuesOK
<1>8. InQueue(q) = (IF goes_on THEN Ready ELSE Ready \ {t}) \cup Range(wake.who)
  <2>1. \A u \in Threads : Priority[u] \in Priorities
    BY PriorityValues
  <2>2. Ready \subseteq Threads
    BY DEF Ready, InQueue
  <2> QED
    BY <1>2, <1>3, <1>4, <1>6, <2>1, <2>2 DEF InQueue
<1> QED
  BY <1>7, <1>8 DEF q

\* One thread more at the end of its queue.
LEMMA QueueAppend ==
  ASSUME NEW q, QueuesOK(q), NEW t \in Threads, t \notin InQueue(q)
  PROVE  /\ QueuesOK([q EXCEPT ![Priority[t]] = Append(@, t)])
         /\ InQueue([q EXCEPT ![Priority[t]] = Append(@, t)]) = InQueue(q) \cup {t}
<1> DEFINE p == Priority[t]
           s == q[p]
           r == [q EXCEPT ![p] = Append(@, t)]
<1>1. /\ p \in Priorities /\ s \in Seq(Threads) /\ IsInjective(s) /\ t \notin Range(s)
      /\ \A u \in Range(s) : Priority[u] = p
  BY PriorityValues DEF QueuesOK, InQueue
<1>2. /\ <<t>> \in Seq(Threads) /\ Append(s, t) = s \o <<t>>
      /\ Range(<<t>>) = {t} /\ IsInjective(<<t>>)
  BY <1>1, AppendIsConcat, ShortRange
<1>3. /\ Append(s, t) \in Seq(Threads) /\ IsInjective(Append(s, t))
      /\ Range(Append(s, t)) = Range(s) \cup {t}
  <2> DEFINE w == <<t>>
  <2>1. /\ w \in Seq(Threads) /\ IsInjective(w) /\ Range(w) = {t}
        /\ Range(s) \cap Range(w) = {}
    BY <1>1, <1>2
  <2> HIDE DEF s, w
  <2>2. /\ s \o w \in Seq(Threads) /\ IsInjective(s \o w)
        /\ Range(s \o w) = Range(s) \cup {t}
    BY <1>1, <2>1, ConcatRange
  <2> QED
    BY <2>2, <1>2 DEF s, w
<1>4. /\ r \in [Priorities -> Seq(Threads)]
      /\ r[p] = Append(s, t)
      /\ \A o \in Priorities \ {p} : r[o] = q[o]
  BY <1>1, <1>3 DEF QueuesOK
<1> HIDE DEF p, r, s
<1>5. QueuesOK(r)
  BY <1>1, <1>3, <1>4 DEF QueuesOK, p
<1>6. InQueue(r) = InQueue(q) \cup {t}
  <2>1. ASSUME NEW u \in Threads, Priority[u] = p
        PROVE  u \in Range(r[Priority[u]]) <=> u \in Range(q[Priority[u]]) \/ u = t
    BY <2>1, <1>3, <1>4 DEF s
  <2>2. ASSUME NEW u \in Threads, Priority[u] # p
        PROVE  u # t /\ r[Priority[u]] = q[Priority[u]]
    BY <2>2, <1>4, PriorityValues DEF p
  <2> QED
    BY <2>1, <2>2 DEF InQueue
<1> QED
  BY <1>5, <1>6 DEF p, r

-----------------------------------------------------------------------------
(* The inductive invariant *)

\* Where each task can be.
Places ==
  [ctl   |-> {"none", "start", "loop", "ended"},
   acq   |-> {"none", "start", "loop", "ended"},
   treat |-> {"none", "start", "loop", "receive", "got", "ended"},
   mon   |-> {"none", "start", "loop", "receive", "ended"},
   video |-> {"none", "start", "loop", "wait", "read", "reading", "frame", "ended"},
   grey  |-> {"none", "start", "loop", "wait", "convert", "ended"},
   conv  |-> {"none", "start", "loop", "wait", "convert", "ended"}]
PlacesInv == \A t \in Tasks : pc[t] \in Places[t]

\* A task that does not wait for anything is ready, one that is not there is not.
Busy(u, where) ==
  \/ where \in {"start", "got", "read", "frame", "convert"}
  \/ where = "loop" /\ u \notin Periodic
ReadyInv ==
  \A u \in Tasks : /\ Busy(u, pc[u]) => u \in Ready
                   /\ pc[u] \in {"none", "ended"} => u \notin Ready

\* main reaches a start after the tasks it started before have run: they are not
\* where they start, because main could not run if they were.
Fresh(t) == pc[t] \in {"none", "start"}
StartInv ==
  /\ at <= 2 => pc["ctl"] = "none"
  /\ at <= 3 => pc["acq"] = "none"
  /\ at <= 4 => pc["treat"] = "none"
  /\ at <= 5 => pc["mon"] = "none"
  /\ at <= 7 => pc["video"] = "none"
  /\ Fresh("video") => pc["grey"] = "none" /\ pc["conv"] = "none"
  /\ at > 2 => pc["ctl"] # "none"
  /\ at > 3 => ~Fresh("ctl") /\ pc["acq"] # "none"
  /\ at > 4 => ~Fresh("acq") /\ pc["treat"] # "none"
  /\ at > 5 => ~Fresh("treat")

\* The control task finds running as main set it, and sets the other two.
FlagsInv ==
  /\ Fresh("ctl") => running
  /\ ~Fresh("ctl") => audio # "unset" /\ video # "unset"

\* A task that has created its mailbox keeps it while it works.
MailInv ==
  /\ running /\ ~Fresh("acq") => mailbox["treatment"] # None
  /\ pc["treat"] \in {"loop", "receive", "got"} => mailbox["logging"] # None

\* The tasks that main has joined have ended, and after the last of them nothing
\* makes a task ready any more.
JoinInv ==
  /\ at > 8 => pc["ctl"] = "ended"
  /\ at > 9 => pc["acq"] = "ended"
  /\ at > 10 => pc["treat"] = "ended"
  /\ at > 11 => pc["mon"] = "ended"
  /\ at > 12 => pc["video"] = "ended" /\ Ready \subseteq {"main"}

IInv ==
  /\ TypeOK /\ QueuesOK(ready) /\ PlacesInv
  /\ process = "up" => ReadyInv /\ StartInv /\ FlagsInv /\ MailInv /\ JoinInv
  /\ process # "up" => \A t \in Tasks : pc[t] = "ended"

\* The lines of main.
LEMMA Lines ==
  /\ Len(MainProgram) = 15
  /\ MainProgram[1].do = "create_event" /\ MainProgram[6].do = "init_video"
  /\ MainProgram[2] = Spawn("ctl") /\ MainProgram[3] = Spawn("acq")
  /\ MainProgram[4] = Spawn("treat") /\ MainProgram[5] = Spawn("mon")
  /\ MainProgram[7] = Spawn("video")
  /\ MainProgram[8] = Join("ctl") /\ MainProgram[9] = Join("acq")
  /\ MainProgram[10] = Join("treat") /\ MainProgram[11] = Join("mon")
  /\ MainProgram[12] = Join("video")
  /\ MainProgram[13].do = "clear" /\ MainProgram[14].do = "free"
  /\ MainProgram[15].do = "exit"
<1> DEFINE any == {Spawn(t) : t \in Tasks} \cup {Join(t) : t \in Tasks}
                    \cup {Do(w) : w \in {"create_event", "init_video", "clear", "free", "exit"}}
           starts == <<Do("create_event"), Spawn("ctl"), Spawn("acq"), Spawn("treat"),
                       Spawn("mon"), Do("init_video"), Spawn("video")>>
<1>1. /\ Do("create_event") \in any /\ Do("init_video") \in any
      /\ Do("clear") \in any /\ Do("free") \in any /\ Do("exit") \in any
      /\ \A t \in {"ctl", "acq", "treat", "mon", "video"} : Spawn(t) \in any /\ Join(t) \in any
  BY DEF Tasks
<1> HIDE DEF any
<1>2. starts \in Seq(any) /\ Len(starts) = 7
  BY <1>1
<1>3. Tidy \in Seq(any) /\ Len(Tidy) = 8
  BY <1>1 DEF Tidy
<1>4. /\ Len(MainProgram) = 15
      /\ \A i \in 1 .. 15 : MainProgram[i] = IF i <= 7 THEN starts[i] ELSE Tidy[i - 7]
  <2>1. MainProgram = starts \o Tidy
    BY DEF MainProgram
  <2> HIDE DEF starts
  <2>2. /\ Len(starts \o Tidy) = Len(starts) + Len(Tidy)
        /\ \A i \in 1 .. Len(starts) + Len(Tidy) :
             (starts \o Tidy)[i] = IF i <= Len(starts) THEN starts[i] ELSE Tidy[i - Len(starts)]
    BY <1>2, <1>3, ConcatProperties
  <2>3. Len(starts) + Len(Tidy) = 15 /\ Len(starts) = 7
    BY <1>2, <1>3
  <2>4. /\ Len(starts \o Tidy) = 15
        /\ \A i \in 1 .. 15 :
             (starts \o Tidy)[i] = IF i <= 7 THEN starts[i] ELSE Tidy[i - 7]
    BY <2>2, <2>3
  <2> QED
    BY <2>1, <2>4
<1>5. \A i \in 1 .. 7 : MainProgram[i] = starts[i]
  BY <1>4
<1>6. \A i \in 1 .. 8 : MainProgram[i + 7] = Tidy[i]
  BY <1>4
<1>7. /\ MainProgram[1] = Do("create_event") /\ MainProgram[2] = Spawn("ctl")
      /\ MainProgram[3] = Spawn("acq") /\ MainProgram[4] = Spawn("treat")
      /\ MainProgram[5] = Spawn("mon") /\ MainProgram[6] = Do("init_video")
      /\ MainProgram[7] = Spawn("video")
  BY <1>5
<1>8. /\ MainProgram[8] = Join("ctl") /\ MainProgram[9] = Join("acq")
      /\ MainProgram[10] = Join("treat") /\ MainProgram[11] = Join("mon")
      /\ MainProgram[12] = Join("video") /\ MainProgram[13] = Do("clear")
      /\ MainProgram[14] = Do("free") /\ MainProgram[15] = Do("exit")
  BY <1>6 DEF Tidy
<1> QED
  BY <1>4, <1>7, <1>8 DEF Do

-----------------------------------------------------------------------------
(* What a step of a thread does to the places and to the ready tasks *)

\* t is at another place, the threads of L have left their queues, those of W
\* continue at to; main may become ready.
Moves(t, where, L, W, to) ==
  /\ pc' = [u \in Tasks |-> IF u = t THEN where ELSE IF u \in W THEN to ELSE pc[u]]
  /\ QueuesOK(ready')
  /\ \A u \in Tasks : u \in Ready' <=> u \in (Ready \ L) \cup W
  /\ UNCHANGED process

\* The places of the tasks after a step: the task's own, and those of the woken.
LEMMA MovedPlaces ==
  ASSUME NEW t, NEW where, NEW wake, wake.who \in Seq(Threads)
  PROVE  Moved(t, where, wake) =
           [u \in Tasks |-> IF u = t THEN where
                           ELSE IF u \in Range(wake.who) THEN wake.to ELSE pc[u]]
<1>1. \A u : Woken(u, wake) <=> u \in Range(wake.who)
  BY SeqRange DEF Woken
<1> QED
  BY <1>1 DEF Moved

\* A step after which the task goes on.
LEMMA GoOnMoves ==
  ASSUME QueuesOK(ready), NEW t \in Threads, Running(t), NEW wake, WakeOK(wake),
         NEW where, GoOn(t, where, wake)
  PROVE  Moves(t, where, {}, Range(wake.who), wake.to)
<1>1. QueuesOK(ready') /\ Ready' = Ready \cup Range(wake.who)
  BY QueuesMove DEF GoOn, Ready
<1>2. pc' = [u \in Tasks |-> IF u = t THEN where
                            ELSE IF u \in Range(wake.who) THEN wake.to ELSE pc[u]]
  BY MovedPlaces DEF GoOn, WakeOK
<1> QED
  BY <1>1, <1>2 DEF GoOn, Moves

\* A step after which the task waits.
LEMMA WaitAtMoves ==
  ASSUME QueuesOK(ready), NEW t \in Threads, Running(t), NEW wake, WakeOK(wake),
         NEW where, WaitAt(t, where, wake)
  PROVE  Moves(t, where, {t}, Range(wake.who), wake.to)
<1>1. QueuesOK(ready') /\ Ready' = (Ready \ {t}) \cup Range(wake.who)
  BY QueuesMove DEF WaitAt, Ready
<1>2. pc' = [u \in Tasks |-> IF u = t THEN where
                            ELSE IF u \in Range(wake.who) THEN wake.to ELSE pc[u]]
  BY MovedPlaces DEF WaitAt, WakeOK
<1> QED
  BY <1>1, <1>2 DEF WaitAt, Moves

\* A step with which the task ends: the queue of main may change as well, once.
LEMMA ReturnMoves ==
  ASSUME QueuesOK(ready), NEW t \in Tasks, Running(t), NEW wake, WakeOK(wake),
         "main" \notin Range(wake.who), Return(t, wake)
  PROVE  Moves(t, "ended", {t}, Range(wake.who), wake.to)
<1> DEFINE q == Queues(t, FALSE, wake)
<1>1. t \in Threads /\ "main" \in Threads /\ "main" \notin Tasks
  BY DEF Threads, Tasks
<1>2. QueuesOK(q) /\ InQueue(q) = (Ready \ {t}) \cup Range(wake.who)
  BY <1>1, QueuesMove
<1> HIDE DEF q
<1>3. QueuesOK(ready') /\ InQueue(ready') \ {"main"} = InQueue(q) \ {"main"}
  <2>1. CASE Now = Join(t) /\ ~IsReady("main")
    <3>1. "main" \notin InQueue(q)
      BY <1>1, <1>2, <2>1, ReadyIsReady
    <3>2. ready' = [q EXCEPT ![Priority["main"]] = Append(@, "main")]
      BY <2>1 DEF Return, q
    <3> QED
      BY <1>1, <1>2, <3>1, <3>2, QueueAppend, ZenonT(30)
  <2>2. CASE ~(Now = Join(t) /\ ~IsReady("main"))
    <3>1. ready' = q
      BY <2>2, <1>2 DEF Return, q, QueuesOK
    <3> QED
      BY <3>1, <1>2
  <2> QED
    BY <2>1, <2>2
<1>4. \A u \in Tasks : u \in Ready' <=> (u \in Ready /\ u # t) \/ u \in Range(wake.who)
  BY <1>1, <1>2, <1>3 DEF Ready
<1>5. pc' = [u \in Tasks |-> IF u = t THEN "ended"
                            ELSE IF u \in Range(wake.who) THEN wake.to ELSE pc[u]]
  BY MovedPlaces DEF Return, WakeOK
<1> QED
  BY <1>3, <1>4, <1>5 DEF Moves, Return

\* The threads that the calls of the program wake.
LEMMA NoWakeOK == WakeOK(NoWake) /\ Range(NoWake.who) = {}
BY ShortRange DEF WakeOK, NoWake, Wake

\* A step that wakes nobody.
LEMMA AloneMoves ==
  ASSUME QueuesOK(ready), NEW t \in Threads, Running(t), NEW where
  PROVE  /\ GoOn(t, where, NoWake) => Moves(t, where, {}, {}, "none")
         /\ WaitAt(t, where, NoWake) => Moves(t, where, {t}, {}, "none")
         /\ t \in Tasks /\ Return(t, NoWake) => Moves(t, "ended", {t}, {}, "none")
<1>1. WakeOK(NoWake) /\ Range(NoWake.who) = {} /\ NoWake.to = "none"
  BY NoWakeOK DEF NoWake, Wake
<1>2. ASSUME GoOn(t, where, NoWake) PROVE Moves(t, where, {}, {}, "none")
  <2>1. Moves(t, where, {}, Range(NoWake.who), NoWake.to)
    BY <1>1, <1>2, GoOnMoves
  <2> QED
    BY <1>1, <2>1
<1>3. ASSUME WaitAt(t, where, NoWake) PROVE Moves(t, where, {t}, {}, "none")
  <2>1. Moves(t, where, {t}, Range(NoWake.who), NoWake.to)
    BY <1>1, <1>3, WaitAtMoves
  <2> QED
    BY <1>1, <2>1
<1>4. ASSUME t \in Tasks, Return(t, NoWake) PROVE Moves(t, "ended", {t}, {}, "none")
  <2>1. Moves(t, "ended", {t}, Range(NoWake.who), NoWake.to)
    BY <1>1, <1>4, ReturnMoves
  <2> QED
    BY <1>1, <2>1
<1> QED
  BY <1>2, <1>3, <1>4

\* One thread is woken.
LEMMA OneWakeOK ==
  ASSUME NEW u \in Threads, u \notin Ready, NEW to
  PROVE  /\ WakeOK(Wake(<<u>>, to))
         /\ Range(Wake(<<u>>, to).who) = {u} /\ Wake(<<u>>, to).to = to
BY ShortRange DEF WakeOK, Wake

\* The two workers are started.
LEMMA WorkersWakeOK ==
  ASSUME "grey" \notin Ready, "conv" \notin Ready
  PROVE  /\ WakeOK(Wake(<<"grey", "conv">>, "start"))
         /\ Range(Wake(<<"grey", "conv">>, "start").who) = {"grey", "conv"}
         /\ Wake(<<"grey", "conv">>, "start").to = "start"
<1>1. "grey" \in Threads /\ "conv" \in Threads /\ Priority["grey"] = Priority["conv"]
  BY DEF Threads, Tasks, Priority, Workers
<1>2. /\ <<"grey", "conv">> \in Seq(Threads) /\ Range(<<"grey", "conv">>) = {"grey", "conv"}
      /\ IsInjective(<<"grey", "conv">>)
  BY <1>1, ShortRange
<1> QED
  BY <1>1, <1>2 DEF WakeOK, Wake

\* A task is woken if it waits.
LEMMA WakeIfOK ==
  ASSUME QueuesOK(ready), NEW u \in Tasks, NEW from, NEW to
  PROVE  \/ /\ pc[u] = from /\ u \notin Ready
            /\ WakeOK(WakeIf(u, from, to))
            /\ Range(WakeIf(u, from, to).who) = {u} /\ WakeIf(u, from, to).to = to
         \/ WakeIf(u, from, to) = NoWake
<1>1. u \in Threads
  BY DEF Threads
<1>2. CASE Blocked(u, from)
  <2>1. pc[u] = from /\ u \notin Ready
    BY <1>1, <1>2, ReadyIsReady DEF Blocked
  <2> QED
    BY <1>1, <1>2, <2>1, OneWakeOK DEF WakeIf
<1>3. CASE ~Blocked(u, from)
  BY <1>3 DEF WakeIf
<1> QED
  BY <1>2, <1>3

-----------------------------------------------------------------------------
(* The steps of the tasks *)

DataOK ==
  /\ running \in BOOLEAN /\ audio \in Flags /\ video \in Flags
  /\ registers \in BOOLEAN /\ screen \in BOOLEAN
  /\ mailbox \in [{"treatment", "logging"} -> None .. PoolSlots]
  /\ signal \subseteq Workers

\* After a step: the types follow from the places and the queues.
LEMMA TypeFromPlaces ==
  ASSUME pc' = [t \in Tasks |-> pc'[t]], PlacesInv', QueuesOK(ready'), DataOK',
         at' \in 1 .. Len(MainProgram), process' \in {"up", "success", "failure", "crash"}
  PROVE  TypeOK'
<1>1. \A t \in Tasks : pc'[t] \in {"none", "start", "loop", "receive", "got", "wait", "read",
                                 "reading", "frame", "convert", "ended"}
  BY DEF PlacesInv, Places, Tasks
<1>2. ready' \in [Priorities -> Seq(Threads)]
  BY DEF QueuesOK
<1> QED
  BY <1>1, <1>2 DEF TypeOK, DataOK

\* A running task goes to a place of its own, a task that it wakes to one of its
\* own; neither is new then, except the workers that video_task starts.
StepOK(t, where, L, W, to) ==
  /\ where \in Places[t] \ {"none", "start"}
  /\ L \subseteq {t} /\ (Busy(t, where) => L = {}) /\ (where = "ended" => L = {t})
  /\ W \subseteq Tasks \ {t}
  /\ \A u \in W :
       /\ to \in Places[u] \ {"none", "ended"}
       /\ IF to = "start" THEN t = "video" /\ u \in Workers
          ELSE pc[u] \notin {"none", "start", "ended"}

\* A task's step keeps the invariant if it keeps the flags and the mailboxes.
LEMMA TaskStep ==
  ASSUME IInv, process = "up", at' = at,
         NEW t \in Tasks, t \in Ready, pc[t] \notin {"none", "ended"},
         NEW where, NEW L, NEW W, NEW to, Moves(t, where, L, W, to),
         StepOK(t, where, L, W, to),
         DataOK', FlagsInv', MailInv'
  PROVE  IInv'
<1> USE DEF StepOK
<1>1. /\ pc'[t] = where
      /\ \A u \in W : pc'[u] = to
      /\ \A u \in Tasks \ {t} : u \notin W => pc'[u] = pc[u]
  BY DEF Moves
<1>2. pc' = [u \in Tasks |-> pc'[u]]
  BY DEF Moves
<1>3. PlacesInv'
  BY <1>1 DEF IInv, PlacesInv
<1>4. TypeOK'
  <2>1. /\ at' \in 1 .. Len(MainProgram) /\ process' \in {"up", "success", "failure", "crash"}
        /\ QueuesOK(ready')
    BY DEF IInv, TypeOK, Moves
  <2> QED
    BY <1>2, <1>3, <2>1, TypeFromPlaces
<1>5. ReadyInv'
  <2> SUFFICES ASSUME NEW u \in Tasks
               PROVE  /\ Busy(u, pc'[u]) => u \in Ready'
                      /\ pc'[u] \in {"none", "ended"} => u \notin Ready'
    BY DEF ReadyInv, Busy
  <2>1. CASE u = t
    BY <1>1, <2>1 DEF Moves
  <2>2. CASE u \in W
    BY <1>1, <2>2 DEF Moves
  <2>3. CASE u # t /\ u \notin W
    BY <1>1, <2>3 DEF Moves, IInv, ReadyInv
  <2> QED
    BY <2>1, <2>2, <2>3
<1>6. \A u \in Tasks : /\ pc[u] = "none" /\ u \notin Workers => pc'[u] = "none"
                       /\ pc[u] # "none" => pc'[u] # "none"
                       /\ ~Fresh(u) => ~(pc'[u] \in {"none", "start"}) \/ u \in Workers
                       /\ pc[u] = "ended" /\ u \notin Workers => pc'[u] = "ended"
  BY <1>1 DEF Fresh
<1>7. StartInv'
  <2>1. /\ at <= 2 => pc'["ctl"] = "none"
        /\ at <= 3 => pc'["acq"] = "none"
        /\ at <= 4 => pc'["treat"] = "none"
        /\ at <= 5 => pc'["mon"] = "none"
        /\ at <= 7 => pc'["video"] = "none"
    BY <1>6 DEF IInv, StartInv, Tasks, Workers
  <2>2. /\ at > 2 => pc'["ctl"] # "none"
        /\ at > 3 => pc'["acq"] # "none"
        /\ at > 4 => pc'["treat"] # "none"
        /\ at > 3 => pc'["ctl"] \notin {"none", "start"}
        /\ at > 4 => pc'["acq"] \notin {"none", "start"}
        /\ at > 5 => pc'["treat"] \notin {"none", "start"}
    BY <1>6 DEF IInv, StartInv, Tasks, Workers
  <2>3. ASSUME pc'["video"] \in {"none", "start"}
        PROVE  pc'["grey"] = "none" /\ pc'["conv"] = "none"
    <3>1. t # "video" /\ Fresh("video")
      BY <1>1, <1>6, <2>3 DEF Tasks, Workers
    <3>2. pc["grey"] = "none" /\ pc["conv"] = "none"
      BY <3>1 DEF IInv, StartInv
    <3> QED
      BY <1>1, <3>1, <3>2 DEF Tasks
  <2> QED
    BY <2>1, <2>2, <2>3 DEF StartInv, Fresh
<1>8. JoinInv'
  <2>1. ~(at > 12)
    BY DEF IInv, JoinInv, Tasks
  <2> QED
    BY <1>6, <2>1 DEF IInv, JoinInv, Tasks, Workers
<1> QED
  BY <1>3, <1>4, <1>5, <1>7, <1>8 DEF IInv, Moves

\* The end of the process leaves nothing that can be ready or unset.
LEMMA EndsInv ==
  ASSUME IInv, NEW how \in {"success", "failure", "crash"}, Ends(how),
         UNCHANGED <<at, flags, mailbox, signal>>, registers' \in BOOLEAN, screen' \in BOOLEAN
  PROVE  IInv'
<1>1. pc' = [t \in Tasks |-> "ended"] /\ ready' = [p \in Priorities |-> <<>>] /\ process' = how
  BY DEF Ends
<1>2. QueuesOK(ready')
  BY <1>1, ShortRange DEF QueuesOK
<1>3. PlacesInv'
  BY <1>1 DEF PlacesInv, Places, Tasks
<1>4. DataOK'
  BY DEF IInv, TypeOK, DataOK, flags
<1>5. TypeOK'
  <2>1. pc' = [t \in Tasks |-> pc'[t]]
    BY <1>1
  <2>2. at' \in 1 .. Len(MainProgram) /\ process' \in {"up", "success", "failure", "crash"}
    BY <1>1 DEF IInv, TypeOK
  <2> QED
    BY <1>2, <1>3, <1>4, <2>1, <2>2, TypeFromPlaces
<1> QED
  BY <1>1, <1>2, <1>3, <1>5 DEF IInv

\* What is known of the task that takes a step.
LEMMA ActiveTask ==
  ASSUME IInv, NEW t \in Tasks, NEW where, Active(t, where)
  PROVE  /\ process = "up" /\ QueuesOK(ready) /\ Running(t) /\ t \in Threads /\ t \in Ready
         /\ pc[t] = where
         /\ TypeOK /\ DataOK /\ ReadyInv /\ StartInv /\ FlagsInv /\ MailInv /\ JoinInv
BY RunningIsFirst DEF IInv, Active, Threads, TypeOK, DataOK

\* A step that leaves the flags, or the mailboxes and their owners, alone.
LEMMA FlagsKept ==
  ASSUME FlagsInv, UNCHANGED flags, pc'["ctl"] = pc["ctl"]
  PROVE  FlagsInv'
BY DEF FlagsInv, Fresh, flags

\* Steps that leave the mailboxes and their users alone.
LEMMA MailKept ==
  ASSUME MailInv, running' => running, UNCHANGED mailbox,
         pc'["acq"] = pc["acq"], pc'["treat"] = pc["treat"],
         "acq" \in Ready' => "acq" \in Ready
  PROVE  MailInv'
BY DEF MailInv, Fresh

\* The control task.
LEMMA CtlInv == IInv /\ Ctl => IInv'
<1> SUFFICES ASSUME IInv, Ctl PROVE IInv'
  OBVIOUS
<1> DEFINE t == "ctl"
<1>1. t \in Tasks /\ t \notin Workers /\ "video" \in Tasks
  BY DEF Tasks, Workers
<1>2. /\ process = "up" /\ QueuesOK(ready) /\ Running(t) /\ t \in Threads /\ t \in Ready
      /\ pc[t] \in {"start", "loop"}
      /\ TypeOK /\ DataOK /\ ReadyInv /\ StartInv /\ FlagsInv /\ MailInv /\ JoinInv
  BY <1>1, ActiveTask DEF Ctl
<1>3. UNCHANGED <<at, registers, screen, mailbox, signal>>
  BY DEF Ctl, maps
<1>4. CASE running /\ ~registers /\ Ends("crash") /\ UNCHANGED flags
  BY <1>2, <1>3, <1>4, EndsInv DEF DataOK
<1>5. CASE ~running /\ Return(t, NoWake) /\ UNCHANGED flags
  <2>1. Moves(t, "ended", {t}, {}, "none")
    BY <1>1, <1>2, <1>5, AloneMoves
  <2>2. FlagsInv'
    BY <1>1, <1>2, <1>5, <2>1 DEF FlagsInv, Fresh, flags, Moves
  <2>3. MailInv'
    BY <1>2, <1>3, <1>5, <2>1, MailKept DEF Moves, Tasks, flags
  <2>4. DataOK'
    BY <1>2, <1>3, <1>5 DEF DataOK, flags
  <2>5. StepOK(t, "ended", {t}, {}, "none")
    BY DEF StepOK, Places, Busy
  <2> QED
    BY <1>1, <1>2, <1>3, <2>1, <2>2, <2>3, <2>4, <2>5, TaskStep
<1>6. CASE /\ running /\ registers
           /\ audio' \in {"on", "off"} /\ video' \in {"on", "off"} /\ running' \in BOOLEAN
           /\ WaitAt(t, "loop",
                     IF video' = "on" THEN WakeIf("video", "wait", "read") ELSE NoWake)
  <2> DEFINE wake == IF video' = "on" THEN WakeIf("video", "wait", "read") ELSE NoWake
  <2>1. \/ /\ pc["video"] = "wait" /\ WakeOK(wake) /\ Range(wake.who) = {"video"} /\ wake.to = "read"
        \/ WakeOK(wake) /\ Range(wake.who) = {}
    BY <1>1, <1>2, WakeIfOK, NoWakeOK
  <2> HIDE DEF wake
  <2>2. PICK W : /\ Moves(t, "loop", {t}, W, wake.to)
                 /\ W = {} \/ (W = {"video"} /\ pc["video"] = "wait" /\ wake.to = "read")
    BY <1>2, <1>6, <2>1, WaitAtMoves DEF wake
  <2>3. FlagsInv'
    BY <1>1, <1>6, <2>2 DEF FlagsInv, Fresh, Moves
  <2>4. MailInv'
    BY <1>2, <1>3, <1>6, <2>2, MailKept DEF Moves, Tasks
  <2>5. DataOK'
    BY <1>2, <1>3, <1>6 DEF DataOK, Flags
  <2>6. StepOK(t, "loop", {t}, W, wake.to)
    BY <2>2 DEF StepOK, Places, Busy, Periodic, Tasks
  <2> QED
    BY <1>1, <1>2, <1>3, <2>2, <2>3, <2>4, <2>5, <2>6, TaskStep
<1> QED
  BY <1>4, <1>5, <1>6 DEF Ctl

\* The timer or the disk makes a task of main ready again.
LEMMA WakeStep ==
  ASSUME IInv, process = "up", process' = "up", at' = at,
         NEW u \in Tasks \ Workers, u \notin Ready, pc[u] \notin {"none", "start", "ended"},
         NEW where \in Places[u] \ {"none", "start", "ended"},
         pc' = [pc EXCEPT ![u] = where],
         ready' = [ready EXCEPT ![Priority[u]] = Append(@, u)],
         DataOK', FlagsInv', MailInv'
  PROVE  IInv'
<1>1. /\ pc'[u] = where
      /\ \A v \in Tasks \ {u} : pc'[v] = pc[v]
      /\ pc' = [v \in Tasks |-> pc'[v]]
  BY DEF IInv, TypeOK
<1>2. QueuesOK(ready') /\ Ready' = Ready \cup {u}
  BY QueueAppend DEF IInv, Threads, Ready
<1>3. PlacesInv'
  BY <1>1 DEF IInv, PlacesInv
<1>4. TypeOK'
  <2>1. at' \in 1 .. Len(MainProgram) /\ process' \in {"up", "success", "failure", "crash"}
    BY DEF IInv, TypeOK
  <2> QED
    BY <1>1, <1>2, <1>3, <2>1, TypeFromPlaces
<1>5. ReadyInv'
  BY <1>1, <1>2 DEF IInv, ReadyInv
<1>6. StartInv'
  BY <1>1 DEF IInv, StartInv, Fresh, Tasks, Workers
<1>7. JoinInv'
  <2>1. ~(at > 12)
    <3>1. at \in 1 .. 15
      BY Lines DEF IInv, TypeOK
    <3> QED
      BY <3>1 DEF IInv, JoinInv, Tasks, Workers
  <2> QED
    BY <1>1, <2>1 DEF IInv, JoinInv, Tasks
<1> QED
  BY <1>2, <1>3, <1>4, <1>5, <1>6, <1>7 DEF IInv

\* The timer releases a periodic task.
LEMMA ReleaseInv == ASSUME IInv, NEW t \in Periodic, Release(t) PROVE IInv'
<1>1. /\ t \in Tasks \ Workers /\ pc[t] = "loop" /\ t \notin Ready /\ t \in Threads
      /\ QueuesOK(ready)
  BY ReadyIsReady DEF Release, Blocked, IInv, Periodic, Tasks, Workers, Threads
<1>2. pc' = [pc EXCEPT ![t] = "loop"] /\ pc' = pc
  BY <1>1 DEF Release, IInv, TypeOK
<1>3. DataOK' /\ FlagsInv'
  BY DEF Release, IInv, TypeOK, DataOK, flags, maps, FlagsInv, Fresh
<1>4. Ready' = Ready \cup {t}
  BY <1>1, QueueAppend DEF Release, Ready
<1>5. MailInv'
  BY <1>2, <1>4 DEF Release, IInv, MailInv, Fresh, flags
<1>6. "loop" \in Places[t] \ {"none", "start", "ended"}
  BY DEF Places, Periodic
<1> QED
  BY <1>1, <1>2, <1>3, <1>5, <1>6, WakeStep DEF Release

\* The read of a frame completes.
LEMMA ReadDoneInv == IInv /\ ReadDone => IInv'
<1> SUFFICES ASSUME IInv, ReadDone PROVE IInv'
  OBVIOUS
<1> DEFINE t == "video"
<1>1. /\ t \in Tasks \ Workers /\ pc[t] = "reading" /\ t \notin Ready /\ t \in Threads
      /\ QueuesOK(ready) /\ process = "up"
  BY ReadyIsReady DEF ReadDone, Blocked, IInv, Tasks, Workers, Threads
<1>2. UNCHANGED <<at, flags, maps, mailbox, signal>>
  BY DEF ReadDone
<1>3. CASE Ends("failure")
  BY <1>2, <1>3, EndsInv DEF maps, IInv, TypeOK
<1>4. ASSUME NEW where \in {"frame", "loop"}, pc' = [pc EXCEPT ![t] = where],
             ready' = [ready EXCEPT ![Priority[t]] = Append(@, t)], process' = process
      PROVE  IInv'
  <2>1. pc'["ctl"] = pc["ctl"] /\ pc'["acq"] = pc["acq"] /\ pc'["treat"] = pc["treat"]
    BY <1>4 DEF IInv, TypeOK, Tasks
  <2>2. Ready' = Ready \cup {t}
    BY <1>1, <1>4, QueueAppend DEF Ready
  <2>3. DataOK' /\ FlagsInv' /\ MailInv'
    <3>1. DataOK'
      BY <1>2 DEF IInv, TypeOK, DataOK, flags, maps
    <3> QED
      BY <1>1, <1>2, <2>1, <2>2, <3>1, FlagsKept, MailKept DEF IInv, flags
  <2>4. where \in Places[t] \ {"none", "start", "ended"}
    BY <1>4 DEF Places
  <2> QED
    BY <1>1, <1>2, <1>4, <2>3, <2>4, WakeStep
<1> QED
  BY <1>3, <1>4 DEF ReadDone

\* Acquisition creates its mailbox, then works or returns, or the process ends.
LEMMA AcqStartInv == IInv /\ AcqStart => IInv'
<1> SUFFICES ASSUME IInv, AcqStart PROVE IInv'
  OBVIOUS
<1> DEFINE t == "acq"
<1>1. t \in Tasks /\ t \notin Workers
  BY DEF Tasks, Workers
<1>2. /\ process = "up" /\ QueuesOK(ready) /\ Running(t) /\ t \in Threads /\ t \in Ready
      /\ pc[t] = "start"
      /\ TypeOK /\ DataOK /\ ReadyInv /\ StartInv /\ FlagsInv /\ MailInv /\ JoinInv
  BY <1>1, ActiveTask DEF AcqStart
<1>3. UNCHANGED <<at, flags, maps, signal>>
  BY DEF AcqStart
<1>4. CASE Ends("failure") /\ UNCHANGED mailbox
  BY <1>2, <1>3, <1>4, EndsInv DEF DataOK, maps
<1>5. ASSUME mailbox' = [mailbox EXCEPT !["treatment"] = 0],
             NEW where \in {"loop", "ended"}, NEW L \in {{}, {t}}, where = "ended" => L = {t},
             Moves(t, where, L, {}, "none")
      PROVE  IInv'
  <2>1. /\ pc'[t] = where /\ \A u \in Tasks \ {t} : pc'[u] = pc[u]
    BY <1>1, <1>5 DEF Moves
  <2>2. FlagsInv'
    BY <1>2, <1>3, <2>1, FlagsKept DEF Tasks
  <2>3. mailbox'["treatment"] = 0 /\ mailbox'["logging"] = mailbox["logging"]
    BY <1>2, <1>5 DEF DataOK
  <2>4. MailInv'
    BY <1>2, <2>1, <2>3, PoolSlotsAssumption DEF MailInv, Fresh, Tasks, None
  <2>5. DataOK'
    BY <1>2, <1>3, <1>5, PoolSlotsAssumption DEF DataOK, flags, maps, None
  <2>6. StepOK(t, where, L, {}, "none")
    BY <1>5 DEF StepOK, Places, Busy, Periodic, Tasks
  <2> QED
    BY <1>1, <1>2, <1>3, <1>5, <2>2, <2>4, <2>5, <2>6, TaskStep
<1>6. CASE GoOn(t, "loop", NoWake) /\ mailbox' = [mailbox EXCEPT !["treatment"] = 0]
  <2>1. Moves(t, "loop", {}, {}, "none")
    BY <1>2, <1>6, AloneMoves
  <2> QED
    BY <1>5, <1>6, <2>1
<1>7. CASE Return(t, NoWake) /\ mailbox' = [mailbox EXCEPT !["treatment"] = 0]
  <2>1. Moves(t, "ended", {t}, {}, "none")
    BY <1>1, <1>2, <1>7, AloneMoves
  <2> QED
    BY <1>5, <1>7, <2>1
<1> QED
  BY <1>4, <1>6, <1>7 DEF AcqStart

\* Acquisition sends a chunk or waits for its period.
LEMMA AcqLoopInv == IInv /\ AcqLoop => IInv'
<1> SUFFICES ASSUME IInv, AcqLoop PROVE IInv'
  OBVIOUS
<1> DEFINE t == "acq"
<1>1. t \in Tasks /\ t \notin Workers /\ "treat" \in Tasks /\ "treat" \in Threads
  BY DEF Tasks, Workers, Threads
<1>2. /\ process = "up" /\ QueuesOK(ready) /\ Running(t) /\ t \in Threads /\ t \in Ready
      /\ pc[t] = "loop" /\ running
      /\ TypeOK /\ DataOK /\ ReadyInv /\ StartInv /\ FlagsInv /\ MailInv /\ JoinInv
  BY <1>1, ActiveTask DEF AcqLoop
<1>3. UNCHANGED <<at, flags, maps, signal>>
  BY DEF AcqLoop
<1>4. ASSUME NEW W \in {{}, {"treat"}}, Moves(t, "loop", {t}, W, "got"),
             W = {"treat"} => pc["treat"] = "receive",
             \/ mailbox' = mailbox
             \/ AcqAllocates /\ mailbox' = [mailbox EXCEPT !["treatment"] = @ + 1]
      PROVE  IInv'
  <2>1. /\ pc'[t] = "loop" /\ pc'["treat"] = IF W = {} THEN pc["treat"] ELSE "got"
        /\ pc'["ctl"] = pc["ctl"] /\ t \notin Ready'
    BY <1>1, <1>4 DEF Moves, Tasks
  <2>2. FlagsInv'
    BY <1>2, <1>3, <2>1, FlagsKept
  <2>3. /\ mailbox'["treatment"] \in {mailbox["treatment"], mailbox["treatment"] + 1}
        /\ mailbox'["logging"] = mailbox["logging"]
    BY <1>2, <1>4 DEF DataOK
  <2>4. /\ mailbox["treatment"] \in 0 .. PoolSlots
        /\ AcqAllocates => mailbox["treatment"] + 1 \in 0 .. PoolSlots
    <3>1. mailbox["treatment"] \in 0 .. PoolSlots
      BY <1>2, PoolSlotsAssumption DEF MailInv, Fresh, DataOK, None
    <3>2. CASE pc["treat"] = "got"
      BY <3>1, <3>2, PoolSlotsAssumption DEF AcqAllocates
    <3>3. CASE pc["treat"] # "got"
      BY <3>1, <3>3, PoolSlotsAssumption DEF AcqAllocates
    <3> QED
      BY <3>2, <3>3
  <2>5. MailInv'
    BY <1>2, <1>4, <2>1, <2>3, <2>4, PoolSlotsAssumption DEF MailInv, None
  <2>6. DataOK'
    BY <1>2, <1>3, <1>4, <2>4, PoolSlotsAssumption DEF DataOK, flags, maps, None
  <2>7. StepOK(t, "loop", {t}, W, "got")
    BY <1>4 DEF StepOK, Places, Busy, Periodic, Tasks
  <2> QED
    BY <1>1, <1>2, <1>3, <1>4, <2>2, <2>5, <2>6, <2>7, TaskStep
<1>5. CASE Blocked("treat", "receive") /\ AcqWaits(Wake(<<"treat">>, "got")) /\ UNCHANGED mailbox
  <2>1. pc["treat"] = "receive" /\ "treat" \notin Ready
    BY <1>1, <1>2, <1>5, ReadyIsReady DEF Blocked
  <2>2. Moves(t, "loop", {t}, {"treat"}, "got")
    BY <1>1, <1>2, <1>5, <2>1, OneWakeOK, WaitAtMoves DEF AcqWaits
  <2> QED
    BY <1>4, <1>5, <2>1, <2>2
<1>6. ASSUME AcqWaits(NoWake),
             \/ mailbox' = mailbox
             \/ AcqAllocates /\ mailbox' = [mailbox EXCEPT !["treatment"] = @ + 1]
      PROVE  IInv'
  <2>1. Moves(t, "loop", {t}, {}, "none")
    BY <1>2, <1>6, AloneMoves DEF AcqWaits
  <2>2. Moves(t, "loop", {t}, {}, "got")
    BY <2>1 DEF Moves
  <2> QED
    BY <1>4, <1>6, <2>2
<1> QED
  BY <1>5, <1>6 DEF AcqLoop

\* Acquisition deletes its mailbox and ends.
LEMMA AcqEndInv == IInv /\ AcqEnd => IInv'
<1> SUFFICES ASSUME IInv, AcqEnd PROVE IInv'
  OBVIOUS
<1> DEFINE t == "acq"
           wake == WakeIf("treat", "receive", "receive")
<1>1. t \in Tasks /\ t \notin Workers /\ "treat" \in Tasks
  BY DEF Tasks, Workers
<1>2. /\ process = "up" /\ QueuesOK(ready) /\ Running(t) /\ t \in Threads /\ t \in Ready
      /\ pc[t] = "loop" /\ ~running
      /\ TypeOK /\ DataOK /\ ReadyInv /\ StartInv /\ FlagsInv /\ MailInv /\ JoinInv
  BY <1>1, ActiveTask DEF AcqEnd
<1>3. /\ UNCHANGED <<at, flags, maps, signal>>
      /\ mailbox' = [mailbox EXCEPT !["treatment"] = None]
  BY DEF AcqEnd
<1>4. \/ /\ pc["treat"] = "receive" /\ WakeOK(wake)
         /\ Range(wake.who) = {"treat"} /\ wake.to = "receive"
      \/ WakeOK(wake) /\ Range(wake.who) = {}
  BY <1>1, <1>2, WakeIfOK, NoWakeOK
<1>5. Return(t, wake)
  BY DEF AcqEnd
<1> HIDE DEF wake
<1>6. PICK W : /\ Moves(t, "ended", {t}, W, wake.to)
               /\ W = {} \/ (W = {"treat"} /\ pc["treat"] = "receive" /\ wake.to = "receive")
  BY <1>1, <1>2, <1>4, <1>5, ReturnMoves
<1>7. pc'["treat"] = pc["treat"] /\ pc'["ctl"] = pc["ctl"]
  BY <1>6 DEF Moves, Tasks
<1>8. FlagsInv'
  BY <1>2, <1>3, <1>7, FlagsKept
<1>9. MailInv'
  BY <1>2, <1>3, <1>7 DEF MailInv, DataOK, flags
<1>10. DataOK'
  BY <1>2, <1>3, PoolSlotsAssumption DEF DataOK, flags, maps, None
<1>11. StepOK(t, "ended", {t}, W, wake.to)
  BY <1>6 DEF StepOK, Places, Busy, Tasks
<1> QED
  BY <1>1, <1>2, <1>3, <1>6, <1>8, <1>9, <1>10, <1>11, TaskStep

\* A step of treatment that may take a chunk and that may wake monitoring.
LEMMA TreatStep ==
  ASSUME IInv, UNCHANGED <<at, flags, maps, signal>>, NEW from, Active("treat", from),
         from \in {"start", "loop", "got"},
         NEW where \in {"loop", "receive", "got", "ended"}, NEW L \in {{}, {"treat"}},
         where \in {"loop", "got"} => L = {}, where = "ended" => L = {"treat"},
         NEW W \in {{}, {"mon"}}, W = {"mon"} => pc["mon"] = "receive",
         Moves("treat", where, L, W, "loop"),
         mailbox' \in [{"treatment", "logging"} -> None .. PoolSlots],
         \/ mailbox'["treatment"] = mailbox["treatment"]
         \/ mailbox'["treatment"] # None /\ mailbox'["treatment"] < mailbox["treatment"],
         where # "ended" => mailbox'["logging"] # None
  PROVE  IInv'
<1> DEFINE t == "treat"
<1>1. t \in Tasks /\ t \notin Workers
  BY DEF Tasks, Workers
<1>2. /\ process = "up" /\ t \in Ready /\ pc[t] = from
      /\ DataOK /\ FlagsInv /\ MailInv
  BY <1>1, ActiveTask
<1>3. /\ pc'["acq"] = pc["acq"] /\ pc'["ctl"] = pc["ctl"] /\ pc'[t] = where
      /\ "acq" \in Ready' <=> "acq" \in Ready
  BY DEF Moves, Tasks
<1>4. FlagsInv'
  BY <1>2, <1>3, FlagsKept
<1>5. mailbox["treatment"] \in None .. PoolSlots /\ mailbox'["treatment"] \in None .. PoolSlots
  BY <1>2 DEF DataOK
<1>6. MailInv'
  BY <1>2, <1>3, <1>5, PoolSlotsAssumption DEF MailInv, Fresh, flags, None
<1>7. DataOK'
  BY <1>2 DEF DataOK, flags, maps
<1>8. StepOK(t, where, L, W, "loop")
  BY DEF StepOK, Places, Busy, Periodic, Tasks
<1> QED
  BY <1>1, <1>2, <1>4, <1>6, <1>7, <1>8, TaskStep

\* What the steps of treatment have in common.
LEMMA TreatAlone ==
  ASSUME IInv, NEW from, Active("treat", from), NEW where
  PROVE  /\ GoOn("treat", where, NoWake) => Moves("treat", where, {}, {}, "loop")
         /\ WaitAt("treat", where, NoWake) => Moves("treat", where, {"treat"}, {}, "loop")
         /\ Return("treat", NoWake) => Moves("treat", "ended", {"treat"}, {}, "loop")
         /\ Blocked("mon", "receive") =>
              /\ pc["mon"] = "receive"
              /\ GoOn("treat", where, Wake(<<"mon">>, "loop")) =>
                   Moves("treat", where, {}, {"mon"}, "loop")
              /\ Return("treat", Wake(<<"mon">>, "loop")) =>
                   Moves("treat", "ended", {"treat"}, {"mon"}, "loop")
<1>1. "treat" \in Tasks /\ "treat" \in Threads /\ "mon" \in Tasks /\ "mon" \in Threads
  BY DEF Tasks, Threads
<1>2. QueuesOK(ready) /\ Running("treat")
  BY <1>1, ActiveTask
<1>3. /\ GoOn("treat", where, NoWake) => Moves("treat", where, {}, {}, "none")
      /\ WaitAt("treat", where, NoWake) => Moves("treat", where, {"treat"}, {}, "none")
      /\ Return("treat", NoWake) => Moves("treat", "ended", {"treat"}, {}, "none")
  BY <1>1, <1>2, AloneMoves
<1>4. \A w, L : Moves("treat", w, L, {}, "none") => Moves("treat", w, L, {}, "loop")
  BY DEF Moves
<1>5. ASSUME Blocked("mon", "receive")
      PROVE  /\ pc["mon"] = "receive"
             /\ GoOn("treat", where, Wake(<<"mon">>, "loop")) =>
                  Moves("treat", where, {}, {"mon"}, "loop")
             /\ Return("treat", Wake(<<"mon">>, "loop")) =>
                  Moves("treat", "ended", {"treat"}, {"mon"}, "loop")
  <2> DEFINE wake == Wake(<<"mon">>, "loop")
  <2>1. pc["mon"] = "receive" /\ "mon" \notin Ready
    BY <1>1, <1>2, <1>5, ReadyIsReady DEF Blocked
  <2>2. WakeOK(wake) /\ Range(wake.who) = {"mon"} /\ wake.to = "loop"
    BY <1>1, <2>1, OneWakeOK
  <2> HIDE DEF wake
  <2>3. GoOn("treat", where, wake) => Moves("treat", where, {}, {"mon"}, "loop")
    BY <1>1, <1>2, <2>2, GoOnMoves
  <2>4. Return("treat", wake) => Moves("treat", "ended", {"treat"}, {"mon"}, "loop")
    BY <1>1, <1>2, <2>2, ReturnMoves
  <2> QED
    BY <2>1, <2>3, <2>4 DEF wake
<1> QED
  BY <1>3, <1>4, <1>5

\* Treatment creates its mailbox or gives up.
LEMMA TreatStartInv == IInv /\ TreatStart => IInv'
<1> SUFFICES ASSUME IInv, TreatStart PROVE IInv'
  OBVIOUS
<1>1. Active("treat", "start") /\ UNCHANGED <<at, flags, maps, signal>>
  BY DEF TreatStart
<1>2. mailbox \in [{"treatment", "logging"} -> None .. PoolSlots]
  BY DEF IInv, TypeOK
<1>3. CASE GoOn("treat", "loop", NoWake) /\ mailbox' = [mailbox EXCEPT !["logging"] = 0]
  <2>1. /\ mailbox' \in [{"treatment", "logging"} -> None .. PoolSlots]
        /\ mailbox'["treatment"] = mailbox["treatment"] /\ mailbox'["logging"] # None
    BY <1>2, <1>3, PoolSlotsAssumption DEF None
  <2>2. Moves("treat", "loop", {}, {}, "loop")
    BY <1>1, <1>3, TreatAlone
  <2> QED
    BY <1>1, <2>1, <2>2, TreatStep
<1>4. CASE Return("treat", NoWake) /\ UNCHANGED mailbox
  <2>1. Moves("treat", "ended", {"treat"}, {}, "loop")
    BY <1>1, <1>4, TreatAlone
  <2> QED
    BY <1>1, <1>2, <1>4, <2>1, TreatStep
<1> QED
  BY <1>3, <1>4 DEF TreatStart

\* Treatment looks at the flags.
LEMMA TreatLoopInv == IInv /\ TreatLoop => IInv'
<1> SUFFICES ASSUME IInv, TreatLoop PROVE IInv'
  OBVIOUS
<1>1. Active("treat", "loop") /\ UNCHANGED <<at, flags, maps, signal>>
  BY DEF TreatLoop
<1>2. /\ mailbox \in [{"treatment", "logging"} -> None .. PoolSlots]
      /\ mailbox["logging"] # None
  BY <1>1, ActiveTask DEF IInv, TypeOK, MailInv, Tasks
<1>3. CASE Ends("crash") /\ UNCHANGED mailbox
  BY <1>1, <1>3, EndsInv DEF IInv, TypeOK, maps
<1>4. CASE WaitAt("treat", "receive", NoWake) /\ UNCHANGED mailbox
  <2>1. Moves("treat", "receive", {"treat"}, {}, "loop")
    BY <1>1, <1>4, TreatAlone
  <2> QED
    BY <1>1, <1>2, <1>4, <2>1, TreatStep
<1>5. CASE /\ mailbox["treatment"] # None /\ mailbox["treatment"] # 0
           /\ GoOn("treat", "got", NoWake)
           /\ mailbox' = [mailbox EXCEPT !["treatment"] = @ - 1]
  <2>1. mailbox["treatment"] \in 1 .. PoolSlots
    BY <1>2, <1>5, PoolSlotsAssumption DEF None
  <2>2. mailbox["treatment"] - 1 \in 0 .. PoolSlots
    BY <2>1, PoolSlotsAssumption
  <2>3. mailbox'["treatment"] = mailbox["treatment"] - 1
    BY <1>2, <1>5
  <2>4. /\ mailbox' \in [{"treatment", "logging"} -> None .. PoolSlots]
        /\ mailbox'["logging"] # None
    BY <1>2, <1>5, <2>2 DEF None
  <2>5. mailbox'["treatment"] # None /\ mailbox'["treatment"] < mailbox["treatment"]
    BY <2>1, <2>3 DEF None
  <2>6. Moves("treat", "got", {}, {}, "loop")
    BY <1>1, <1>5, TreatAlone
  <2> QED
    BY <1>1, <2>4, <2>5, <2>6, TreatStep
<1>6. CASE UNCHANGED <<pc, ready, mailbox, process>>
  <2>1. UNCHANGED vars
    BY <1>1, <1>6 DEF vars, flags, maps
  <2> QED
    BY <2>1 DEF vars, IInv, TypeOK, PlacesInv, ReadyInv, Busy, Ready, StartInv, FlagsInv, MailInv,
               JoinInv, Fresh
<1> QED
  BY <1>3, <1>4, <1>5, <1>6 DEF TreatLoop, TreatReceive

\* The mailbox is deleted under treatment, and the process dies of it.
LEMMA TreatErrorInv == IInv /\ TreatError => IInv'
BY EndsInv DEF TreatError, IInv, TypeOK, maps

\* Treatment handles a chunk and may send a result.
LEMMA TreatChunkInv == IInv /\ TreatChunk => IInv'
<1> SUFFICES ASSUME IInv, TreatChunk PROVE IInv'
  OBVIOUS
<1>1. Active("treat", "got") /\ UNCHANGED <<at, flags, maps, signal>>
  BY DEF TreatChunk
<1>2. /\ mailbox \in [{"treatment", "logging"} -> None .. PoolSlots]
      /\ mailbox["logging"] # None
  BY <1>1, ActiveTask DEF IInv, TypeOK, MailInv, Tasks
<1>3. CASE GoOn("treat", "loop", NoWake) /\ UNCHANGED mailbox
  <2>1. Moves("treat", "loop", {}, {}, "loop")
    BY <1>1, <1>3, TreatAlone
  <2> QED
    BY <1>1, <1>2, <1>3, <2>1, TreatStep
<1>4. CASE /\ Blocked("mon", "receive") /\ UNCHANGED mailbox
           /\ GoOn("treat", "loop", Wake(<<"mon">>, "loop"))
  <2>1. Moves("treat", "loop", {}, {"mon"}, "loop") /\ pc["mon"] = "receive"
    BY <1>1, <1>4, TreatAlone
  <2> QED
    BY <1>1, <1>2, <1>4, <2>1, TreatStep
<1>5. CASE /\ mailbox["logging"] < PoolSlots /\ GoOn("treat", "loop", NoWake)
           /\ mailbox' = [mailbox EXCEPT !["logging"] = @ + 1]
  <2>1. mailbox["logging"] + 1 \in 1 .. PoolSlots
    BY <1>2, <1>5, PoolSlotsAssumption DEF None
  <2>2. /\ mailbox' \in [{"treatment", "logging"} -> None .. PoolSlots]
        /\ mailbox'["treatment"] = mailbox["treatment"]
        /\ mailbox'["logging"] = mailbox["logging"] + 1
    BY <1>2, <1>5, <2>1, PoolSlotsAssumption DEF None
  <2>3. mailbox'["logging"] # None
    BY <2>1, <2>2 DEF None
  <2>4. Moves("treat", "loop", {}, {}, "loop")
    BY <1>1, <1>5, TreatAlone
  <2> QED
    BY <1>1, <2>2, <2>3, <2>4, TreatStep
<1>6. CASE Return("treat", NoWake) /\ mailbox' = [mailbox EXCEPT !["logging"] = None]
  <2>1. /\ mailbox' \in [{"treatment", "logging"} -> None .. PoolSlots]
        /\ mailbox'["treatment"] = mailbox["treatment"]
    BY <1>2, <1>6, PoolSlotsAssumption DEF None
  <2>2. Moves("treat", "ended", {"treat"}, {}, "loop")
    BY <1>1, <1>6, TreatAlone
  <2> QED
    BY <1>1, <2>1, <2>2, TreatStep
<1> QED
  BY <1>3, <1>4, <1>5, <1>6 DEF TreatChunk

\* Treatment deletes its mailbox and ends.
LEMMA TreatEndInv == IInv /\ TreatEnd => IInv'
<1> SUFFICES ASSUME IInv, TreatEnd PROVE IInv'
  OBVIOUS
<1>1. /\ Active("treat", "loop") /\ UNCHANGED <<at, flags, maps, signal>>
      /\ mailbox' = [mailbox EXCEPT !["logging"] = None]
  BY DEF TreatEnd
<1>2. mailbox \in [{"treatment", "logging"} -> None .. PoolSlots]
  BY DEF IInv, TypeOK
<1>3. /\ mailbox' \in [{"treatment", "logging"} -> None .. PoolSlots]
      /\ mailbox'["treatment"] = mailbox["treatment"]
  BY <1>1, <1>2, PoolSlotsAssumption DEF None
<1>4. PICK W \in {{}, {"mon"}} : /\ W = {"mon"} => pc["mon"] = "receive"
                                 /\ Moves("treat", "ended", {"treat"}, W, "loop")
  <2>1. CASE Blocked("mon", "receive")
    BY <1>1, <2>1, TreatAlone DEF TreatEnd, WakeIf
  <2>2. CASE ~Blocked("mon", "receive")
    BY <1>1, <2>2, TreatAlone DEF TreatEnd, WakeIf
  <2> QED
    BY <2>1, <2>2
<1> QED
  BY <1>1, <1>3, <1>4, TreatStep

\* A step of a task that no flag and no mailbox but a full one depends on.
LEMMA OtherStep ==
  ASSUME IInv, UNCHANGED <<at, flags, maps>>,
         NEW t \in {"mon", "video", "grey", "conv"},
         NEW from, Active(t, from), from \notin {"none", "ended"},
         NEW where, NEW L, NEW W \in SUBSET {"grey", "conv"}, NEW to,
         Moves(t, where, L, W, to), StepOK(t, where, L, W, to),
         mailbox' \in [{"treatment", "logging"} -> None .. PoolSlots],
         mailbox'["treatment"] = mailbox["treatment"],
         mailbox["logging"] # None => mailbox'["logging"] # None,
         signal' \subseteq Workers
  PROVE  IInv'
<1>1. t \in Tasks
  BY DEF Tasks
<1>2. process = "up" /\ t \in Ready /\ pc[t] = from /\ DataOK /\ FlagsInv /\ MailInv
  BY <1>1, ActiveTask
<1>3. /\ pc'["acq"] = pc["acq"] /\ pc'["ctl"] = pc["ctl"] /\ pc'["treat"] = pc["treat"]
      /\ "acq" \in Ready' <=> "acq" \in Ready
  BY DEF Moves, Tasks, StepOK
<1>4. FlagsInv'
  BY <1>2, <1>3, FlagsKept
<1>5. MailInv'
  BY <1>2, <1>3 DEF MailInv, Fresh, flags
<1>6. DataOK'
  BY <1>2 DEF DataOK, flags, maps
<1> QED
  BY <1>1, <1>2, <1>4, <1>5, <1>6, TaskStep

\* The same when it wakes nobody and leaves the mailboxes and the event alone.
LEMMA LoneStep ==
  ASSUME IInv, UNCHANGED <<at, flags, maps, mailbox, signal>>,
         NEW t \in {"mon", "video", "grey", "conv"},
         NEW from, Active(t, from), from \notin {"none", "ended"},
         NEW where \in Places[t] \ {"none", "start"},
         \/ GoOn(t, where, NoWake) /\ where # "ended"
         \/ WaitAt(t, where, NoWake) /\ ~Busy(t, where)
         \/ Return(t, NoWake) /\ where = "ended"
  PROVE  IInv'
<1>1. t \in Tasks /\ t \in Threads
  BY DEF Tasks, Threads
<1>2. QueuesOK(ready) /\ Running(t) /\ DataOK
  BY <1>1, ActiveTask
<1>3. PICK L \in {{}, {t}} : /\ Moves(t, where, L, {}, "none")
                             /\ Busy(t, where) => L = {}
                             /\ where = "ended" => L = {t}
  <2>1. "ended" = where => ~Busy(t, where)
    BY DEF Busy
  <2> QED
    BY <1>1, <1>2, <2>1, AloneMoves
<1>4. StepOK(t, where, L, {}, "none")
  BY <1>3 DEF StepOK
<1>5. /\ mailbox' \in [{"treatment", "logging"} -> None .. PoolSlots]
      /\ signal' \subseteq Workers
  BY <1>2 DEF DataOK
<1>6. {} \in SUBSET {"grey", "conv"}
  OBVIOUS
<1> QED
  BY <1>3, <1>4, <1>5, <1>6, OtherStep

\* The monitoring task.
LEMMA MonInv == IInv /\ Mon => IInv'
<1> SUFFICES ASSUME IInv, Mon PROVE IInv'
  OBVIOUS
<1>1. /\ UNCHANGED <<at, flags, maps, signal>>
      /\ "loop" \in Places["mon"] \ {"none", "start"} /\ "receive" \in Places["mon"] \ {"none", "start"}
      /\ "ended" \in Places["mon"] \ {"none", "start"} /\ ~Busy("mon", "receive")
  BY DEF Mon, Places, Busy
<1>2. PICK from \in {"start", "loop"} : Active("mon", from)
  BY DEF Mon
<1>3. mailbox \in [{"treatment", "logging"} -> None .. PoolSlots] /\ signal \subseteq Workers
  BY DEF IInv, TypeOK
<1>4. CASE GoOn("mon", "loop", NoWake) /\ UNCHANGED mailbox
  BY <1>1, <1>2, <1>4, LoneStep
<1>5. CASE WaitAt("mon", "receive", NoWake) /\ UNCHANGED mailbox
  BY <1>1, <1>2, <1>5, LoneStep
<1>6. CASE Return("mon", NoWake) /\ UNCHANGED mailbox
  BY <1>1, <1>2, <1>6, LoneStep
<1>7. CASE /\ mailbox["logging"] > 0 /\ GoOn("mon", "loop", NoWake)
           /\ mailbox' = [mailbox EXCEPT !["logging"] = @ - 1]
  <2>1. mailbox["logging"] - 1 \in 0 .. PoolSlots
    BY <1>3, <1>7, PoolSlotsAssumption DEF None
  <2>2. /\ mailbox' \in [{"treatment", "logging"} -> None .. PoolSlots]
        /\ mailbox'["treatment"] = mailbox["treatment"]
        /\ mailbox'["logging"] = mailbox["logging"] - 1
    BY <1>3, <1>7, <2>1 DEF None
  <2>3. mailbox'["logging"] # None
    BY <2>1, <2>2 DEF None
  <2>4. "mon" \in Threads /\ "mon" \in Tasks /\ QueuesOK(ready) /\ Running("mon")
    BY <1>2, ActiveTask DEF Tasks, Threads
  <2>5. Moves("mon", "loop", {}, {}, "none")
    BY <1>7, <2>4, AloneMoves
  <2>6. StepOK("mon", "loop", {}, {}, "none")
    BY DEF StepOK, Places
  <2>7. signal' \subseteq Workers
    BY <1>1, <1>3
  <2> QED
    BY <1>1, <1>2, <2>2, <2>3, <2>5, <2>6, <2>7, OtherStep
<1> QED
  BY <1>4, <1>5, <1>6, <1>7 DEF Mon, MonRead

\* video_task starts its workers.
LEMMA VideoStartInv == IInv /\ VideoStart => IInv'
<1> SUFFICES ASSUME IInv, VideoStart PROVE IInv'
  OBVIOUS
<1> DEFINE wake == Wake(<<"grey", "conv">>, "start")
<1>1. Active("video", "start") /\ UNCHANGED <<at, flags, maps, mailbox, signal>>
  BY DEF VideoStart
<1>2. /\ "video" \in Tasks /\ "video" \in Threads /\ QueuesOK(ready) /\ Running("video")
      /\ pc["video"] = "start" /\ DataOK /\ StartInv /\ ReadyInv
  BY <1>1, ActiveTask DEF Tasks
<1>3. "grey" \notin Ready /\ "conv" \notin Ready
  BY <1>2 DEF StartInv, ReadyInv, Fresh, Tasks
<1>4. WakeOK(wake) /\ Range(wake.who) = {"grey", "conv"} /\ wake.to = "start"
  BY <1>3, WorkersWakeOK
<1> HIDE DEF wake
<1>5. ASSUME NEW where, NEW L, \/ where = "loop" /\ L = {}
                               \/ where = "ended" /\ L = {"video"},
             Moves("video", where, L, {"grey", "conv"}, "start")
      PROVE  IInv'
  <2>1. StepOK("video", where, L, {"grey", "conv"}, "start")
    BY <1>5 DEF StepOK, Places, Tasks, Workers, Busy
  <2>2. /\ mailbox' \in [{"treatment", "logging"} -> None .. PoolSlots]
        /\ signal' \subseteq Workers
    BY <1>1, <1>2 DEF DataOK
  <2> QED
    BY <1>1, <1>5, <2>1, <2>2, OtherStep
<1>6. CASE GoOn("video", "loop", wake)
  <2>1. Moves("video", "loop", {}, {"grey", "conv"}, "start")
    BY <1>2, <1>4, <1>6, GoOnMoves
  <2> QED
    BY <1>5, <2>1
<1>7. CASE Return("video", wake)
  <2>1. Moves("video", "ended", {"video"}, {"grey", "conv"}, "start")
    BY <1>2, <1>4, <1>7, ReturnMoves
  <2> QED
    BY <1>5, <2>1
<1>8. CASE Ends("failure")
  BY <1>1, <1>2, <1>8, EndsInv DEF DataOK, maps
<1> QED
  BY <1>6, <1>7, <1>8 DEF VideoStart, wake

\* video_task waits for its period and reads.
LEMMA VideoLoopInv == IInv /\ (VideoLoop \/ VideoRead) => IInv'
<1> SUFFICES ASSUME IInv, VideoLoop \/ VideoRead PROVE IInv'
  OBVIOUS
<1>1. PICK from \in {"loop", "read"} : Active("video", from)
  BY DEF VideoLoop, VideoRead
<1>2. UNCHANGED <<at, flags, maps, mailbox, signal>>
  BY DEF VideoLoop, VideoRead
<1>3. \/ Return("video", NoWake)
      \/ WaitAt("video", "reading", NoWake)
      \/ WaitAt("video", "wait", NoWake)
  BY DEF VideoLoop, VideoRead
<1>4. /\ \A where \in {"ended", "reading", "wait"} : where \in Places["video"] \ {"none", "start"}
      /\ ~Busy("video", "reading") /\ ~Busy("video", "wait")
  BY DEF Places, Busy
<1> QED
  BY <1>1, <1>2, <1>3, <1>4, LoneStep

\* video_task handles a frame and signals a worker.
LEMMA VideoFrameInv == IInv /\ VideoFrame => IInv'
<1> SUFFICES ASSUME IInv, VideoFrame PROVE IInv'
  OBVIOUS
<1>1. Active("video", "frame") /\ UNCHANGED <<at, flags, maps, mailbox>>
  BY DEF VideoFrame
<1>2. /\ "video" \in Tasks /\ "video" \in Threads /\ QueuesOK(ready) /\ Running("video")
      /\ DataOK
  BY <1>1, ActiveTask DEF Tasks
<1>3. CASE Ends("crash") /\ UNCHANGED signal
  BY <1>1, <1>2, <1>3, EndsInv DEF DataOK, maps
<1>4. CASE WaitAt("video", "loop", NoWake) /\ UNCHANGED signal
  <2>1. "loop" \in Places["video"] \ {"none", "start"} /\ ~Busy("video", "loop")
    BY DEF Places, Busy, Periodic
  <2> QED
    BY <1>1, <1>4, <2>1, LoneStep
<1>5. ASSUME NEW w \in Workers, WaitAt("video", "loop", WakeIf(w, "wait", "convert")),
             signal' = signal \cup {w}
      PROVE  IInv'
  <2> DEFINE wake == WakeIf(w, "wait", "convert")
  <2>1. \/ /\ pc[w] = "wait" /\ WakeOK(wake) /\ Range(wake.who) = {w} /\ wake.to = "convert"
        \/ WakeOK(wake) /\ Range(wake.who) = {}
    BY <1>2, WakeIfOK, NoWakeOK DEF Tasks, Workers
  <2>2. WaitAt("video", "loop", wake)
    BY <1>5
  <2> HIDE DEF wake
  <2>3. PICK W : /\ Moves("video", "loop", {"video"}, W, wake.to)
                 /\ W = {} \/ (W = {w} /\ pc[w] = "wait" /\ wake.to = "convert")
    BY <1>2, <2>1, <2>2, WaitAtMoves
  <2>4. StepOK("video", "loop", {"video"}, W, wake.to)
    BY <2>3 DEF StepOK, Places, Busy, Periodic, Tasks, Workers
  <2>5. /\ mailbox' \in [{"treatment", "logging"} -> None .. PoolSlots]
        /\ signal' \subseteq Workers /\ W \in SUBSET {"grey", "conv"}
    BY <1>1, <1>2, <1>5, <2>3 DEF DataOK, Workers
  <2> QED
    BY <1>1, <2>3, <2>4, <2>5, OtherStep
<1> QED
  BY <1>3, <1>4, <1>5 DEF VideoFrame

\* The workers.
LEMMA WorkerInv == ASSUME IInv, NEW w \in Workers, Worker(w) PROVE IInv'
<1>1. /\ w \in {"mon", "video", "grey", "conv"} /\ w \in Tasks /\ w \in Threads
      /\ \A where \in {"loop", "wait", "convert", "ended"} : where \in Places[w] \ {"none", "start"}
      /\ ~Busy(w, "wait")
  BY DEF Workers, Tasks, Threads, Places, Busy
<1>2. UNCHANGED <<at, flags, maps, mailbox>>
  BY DEF Worker, WorkerStart, WorkerLoop, WorkerWait, WorkerConvert
<1>3. PICK from \in {"start", "loop", "wait", "convert"} : Active(w, from)
  BY DEF Worker, WorkerStart, WorkerLoop, WorkerWait, WorkerConvert
<1>4. QueuesOK(ready) /\ Running(w) /\ DataOK
  BY <1>1, <1>3, ActiveTask
<1>5. CASE Ends("crash") /\ UNCHANGED signal
  BY <1>2, <1>4, <1>5, EndsInv DEF DataOK, maps
<1>6. CASE /\ UNCHANGED signal
           /\ \/ GoOn(w, "loop", NoWake) \/ GoOn(w, "wait", NoWake) \/ GoOn(w, "convert", NoWake)
              \/ WaitAt(w, "wait", NoWake) \/ Return(w, NoWake)
  BY <1>1, <1>2, <1>3, <1>6, LoneStep
<1>7. CASE GoOn(w, "loop", NoWake) /\ signal' = signal \ {w}
  <2>1. Moves(w, "loop", {}, {}, "none")
    BY <1>1, <1>4, <1>7, AloneMoves
  <2>2. StepOK(w, "loop", {}, {}, "none")
    BY <1>1 DEF StepOK
  <2>3. /\ mailbox' \in [{"treatment", "logging"} -> None .. PoolSlots]
        /\ signal' \subseteq Workers /\ {} \in SUBSET {"grey", "conv"}
    BY <1>2, <1>4, <1>7 DEF DataOK
  <2> QED
    BY <1>1, <1>2, <1>3, <2>1, <2>2, <2>3, OtherStep
<1> QED
  BY <1>5, <1>6, <1>7 DEF Worker, WorkerStart, WorkerLoop, WorkerWait, WorkerConvert

-----------------------------------------------------------------------------
(* The steps of main *)

\* When main runs no task is ready: all of them wait, have ended or are not there.
LEMMA MainAlone ==
  ASSUME IInv, process = "up", Running("main")
  PROVE  /\ "main" \in Threads /\ "main" \notin Tasks /\ QueuesOK(ready)
         /\ \A u \in Tasks : u \notin Ready /\ pc[u] # "start"
         /\ DataOK /\ FlagsInv /\ MailInv /\ StartInv /\ JoinInv /\ at \in 1 .. 15
<1>1. "main" \in Threads /\ "main" \notin Tasks /\ QueuesOK(ready)
  BY DEF IInv, Threads, Tasks
<1>2. \A u \in Ready : Priority[u] <= 0
  BY <1>1, RunningIsFirst, PriorityValues
<1>3. \A u \in Tasks : u \notin Ready
  BY <1>2, PriorityValues
<1>4. \A u \in Tasks : pc[u] # "start"
  BY <1>3 DEF IInv, ReadyInv, Busy
<1> QED
  BY <1>1, <1>3, <1>4, Lines DEF IInv, TypeOK, DataOK

\* main goes on to at' or waits, and starts the tasks of W.
LEMMA MainStep ==
  ASSUME IInv, process = "up", Running("main"), UNCHANGED <<flags, mailbox, signal>>,
         registers' = registers, screen' \in BOOLEAN,
         NEW where, NEW L, NEW W \in SUBSET Tasks, Moves("main", where, L, W, "start"),
         at' \in 1 .. 15, \A u \in W : pc[u] = "none", "acq" \notin W \/ ~Fresh("ctl"),
         W \cap Workers = {},
         StartInv', JoinInv'
  PROVE  IInv'
<1>1. /\ "main" \notin Tasks /\ \A u \in Tasks : u \notin Ready /\ pc[u] # "start"
      /\ DataOK /\ FlagsInv /\ MailInv
  BY MainAlone
<1>2. /\ \A u \in Tasks : pc'[u] = IF u \in W THEN "start" ELSE pc[u]
      /\ pc' = [u \in Tasks |-> pc'[u]]
      /\ \A u \in Tasks : u \in Ready' <=> u \in W
  BY <1>1 DEF Moves
<1>3. "start" \in Places["ctl"] /\ \A u \in Tasks : "start" \in Places[u]
  BY DEF Places, Tasks
<1>4. PlacesInv'
  BY <1>2, <1>3 DEF IInv, PlacesInv
<1>5. DataOK'
  BY <1>1 DEF DataOK, flags
<1>6. TypeOK'
  <2>1. /\ at' \in 1 .. Len(MainProgram) /\ process' \in {"up", "success", "failure", "crash"}
        /\ QueuesOK(ready')
    BY Lines DEF IInv, TypeOK, Moves
  <2> QED
    BY <1>2, <1>4, <1>5, <2>1, TypeFromPlaces
<1>7. ReadyInv'
  <2>1. \A u \in Tasks : Busy(u, pc[u]) => u \in Ready
    BY DEF IInv, ReadyInv
  <2> SUFFICES ASSUME NEW u \in Tasks
               PROVE  /\ Busy(u, pc'[u]) => u \in Ready'
                      /\ pc'[u] \in {"none", "ended"} => u \notin Ready'
    BY DEF ReadyInv, Busy
  <2>2. CASE u \in W
    BY <1>2, <2>2
  <2>3. CASE u \notin W
    BY <1>1, <1>2, <2>1, <2>3
  <2> QED
    BY <2>2, <2>3
<1>8. FlagsInv'
  BY <1>1, <1>2 DEF FlagsInv, Fresh, flags, Tasks
<1>9. MailInv'
  BY <1>1, <1>2 DEF MailInv, Fresh, flags, Tasks
<1> QED
  BY <1>4, <1>6, <1>7, <1>8, <1>9 DEF IInv, Moves

\* main creates the event.
LEMMA MainCreateEventInv == IInv /\ MainCreateEvent => IInv'
<1> SUFFICES ASSUME IInv, MainCreateEvent PROVE IInv'
  OBVIOUS
<1>1. /\ process = "up" /\ Running("main") /\ Now.do = "create_event"
      /\ UNCHANGED <<flags, maps, mailbox, signal>>
  BY DEF MainCreateEvent
<1>2. /\ "main" \in Threads /\ "main" \notin Tasks /\ QueuesOK(ready) /\ DataOK
      /\ StartInv /\ JoinInv /\ at \in 1 .. 15
  BY <1>1, MainAlone
<1>3. CASE Ends("failure") /\ at' = at
  BY <1>1, <1>2, <1>3, EndsInv DEF DataOK, maps
<1>4. CASE GoOn("main", "create_event", NoWake) /\ at' = at + 1
  <2>1. at = 1 /\ at' = 2
    BY <1>1, <1>2, <1>4, Lines DEF Now, Spawn, Join
  <2>2. Moves("main", "create_event", {}, {}, "none")
    BY <1>1, <1>2, <1>4, AloneMoves
  <2>3. /\ Moves("main", "create_event", {}, {}, "start")
        /\ \A u \in Tasks : pc'[u] = pc[u]
    BY <1>2, <2>2 DEF Moves
  <2>4. StartInv' /\ JoinInv'
    BY <1>2, <2>1, <2>3 DEF StartInv, JoinInv, Fresh, Tasks
  <2> QED
    BY <1>1, <1>2, <2>1, <2>3, <2>4, MainStep DEF maps, DataOK
<1> QED
  BY <1>3, <1>4 DEF MainCreateEvent

\* main starts a task.
LEMMA MainSpawnInv == IInv /\ MainSpawn => IInv'
<1> SUFFICES ASSUME IInv, MainSpawn PROVE IInv'
  OBVIOUS
<1>1. /\ process = "up" /\ Running("main") /\ Now.do = "spawn"
      /\ UNCHANGED <<flags, maps, mailbox, signal>>
  BY DEF MainSpawn
<1>2. /\ "main" \in Threads /\ "main" \notin Tasks /\ QueuesOK(ready) /\ DataOK
      /\ StartInv /\ JoinInv /\ at \in 1 .. 15
      /\ \A u \in Tasks : u \notin Ready /\ pc[u] # "start"
  BY <1>1, MainAlone
<1>3. CASE Ends("failure") /\ at' = at
  BY <1>1, <1>2, <1>3, EndsInv DEF DataOK, maps
<1>4. CASE GoOn("main", "spawn", Wake(<<Now.task>>, "start")) /\ at' = at + 1
  <2> DEFINE u == Now.task
             wake == Wake(<<u>>, "start")
  <2>1. \/ at = 2 /\ u = "ctl"
        \/ at = 3 /\ u = "acq"
        \/ at = 4 /\ u = "treat"
        \/ at = 5 /\ u = "mon"
        \/ at = 7 /\ u = "video"
    BY <1>1, <1>2, Lines DEF Now, Spawn, Join
  <2>2. u \in Tasks \ Workers /\ u \in Threads /\ pc[u] = "none"
    BY <1>2, <2>1 DEF Tasks, Workers, Threads, StartInv
  <2>3. WakeOK(wake) /\ Range(wake.who) = {u} /\ wake.to = "start"
    BY <1>2, <2>2, OneWakeOK
  <2>4. GoOn("main", "spawn", wake)
    BY <1>4
  <2> HIDE DEF wake
  <2>5. Moves("main", "spawn", {}, {u}, "start")
    BY <1>1, <1>2, <2>3, <2>4, GoOnMoves
  <2> HIDE DEF u
  <2>6. \A v \in Tasks : pc'[v] = IF v = u THEN "start" ELSE pc[v]
    BY <1>2, <2>5 DEF Moves
  <2>7. StartInv'
    BY <1>2, <1>4, <2>1, <2>6 DEF StartInv, Fresh, Tasks
  <2>8. JoinInv'
    BY <1>2, <1>4, <2>1 DEF JoinInv
  <2>9. "acq" \notin {u} \/ ~Fresh("ctl")
    BY <1>2, <2>1 DEF StartInv, Fresh, Tasks
  <2>10. at' \in 1 .. 15 /\ {u} \in SUBSET Tasks /\ {u} \cap Workers = {}
    BY <1>2, <1>4, <2>1, <2>2
  <2>11. registers' = registers /\ screen' \in BOOLEAN
    BY <1>1, <1>2 DEF maps, DataOK
  <2> QED
    BY <1>1, <2>2, <2>5, <2>7, <2>8, <2>9, <2>10, <2>11, MainStep
<1> QED
  BY <1>3, <1>4 DEF MainSpawn

\* main sets the video up.
LEMMA MainInitVideoInv == IInv /\ MainInitVideo => IInv'
<1> SUFFICES ASSUME IInv, MainInitVideo PROVE IInv'
  OBVIOUS
<1>1. /\ process = "up" /\ Running("main") /\ Now.do = "init_video"
      /\ UNCHANGED <<flags, registers, mailbox, signal>>
  BY DEF MainInitVideo
<1>2. /\ "main" \in Threads /\ "main" \notin Tasks /\ QueuesOK(ready) /\ DataOK
      /\ StartInv /\ JoinInv /\ at \in 1 .. 15
  BY <1>1, MainAlone
<1>3. CASE Ends("failure") /\ UNCHANGED <<at, screen>>
  BY <1>1, <1>2, <1>3, EndsInv DEF DataOK
<1>4. CASE screen' \in BOOLEAN /\ GoOn("main", "init_video", NoWake) /\ at' = at + 1
  <2>1. at = 6 /\ at' = 7
    BY <1>1, <1>2, <1>4, Lines DEF Now, Spawn, Join
  <2>2. Moves("main", "init_video", {}, {}, "none")
    BY <1>1, <1>2, <1>4, AloneMoves
  <2>3. /\ Moves("main", "init_video", {}, {}, "start")
        /\ \A u \in Tasks : pc'[u] = pc[u]
    BY <1>2, <2>2 DEF Moves
  <2>4. StartInv' /\ JoinInv'
    BY <1>2, <2>1, <2>3 DEF StartInv, JoinInv, Fresh, Tasks
  <2> QED
    BY <1>1, <1>4, <2>1, <2>3, <2>4, MainStep
<1> QED
  BY <1>3, <1>4 DEF MainInitVideo

\* main joins a task.
LEMMA MainJoinInv == IInv /\ MainJoin => IInv'
<1> SUFFICES ASSUME IInv, MainJoin PROVE IInv'
  OBVIOUS
<1>1. /\ process = "up" /\ Running("main") /\ Now.do = "join"
      /\ UNCHANGED <<flags, maps, mailbox, signal>>
  BY DEF MainJoin
<1>2. /\ "main" \in Threads /\ "main" \notin Tasks /\ QueuesOK(ready) /\ DataOK
      /\ StartInv /\ JoinInv /\ at \in 1 .. 15
      /\ \A u \in Tasks : u \notin Ready /\ pc[u] # "start"
  BY <1>1, MainAlone
<1>3. \/ at = 8 /\ Now.task = "ctl"
      \/ at = 9 /\ Now.task = "acq"
      \/ at = 10 /\ Now.task = "treat"
      \/ at = 11 /\ Now.task = "mon"
      \/ at = 12 /\ Now.task = "video"
  BY <1>1, <1>2, Lines DEF Now, Spawn, Join
<1>4. PICK L : /\ Moves("main", "join", L, {}, "none")
               /\ \/ pc[Now.task] = "ended" /\ at' = at + 1
                  \/ at' = at
  BY <1>1, <1>2, AloneMoves DEF MainJoin
<1>5. /\ Moves("main", "join", L, {}, "start")
      /\ \A u \in Tasks : pc'[u] = pc[u] /\ u \notin Ready'
  BY <1>2, <1>4 DEF Moves
<1>6. Ready' \subseteq {"main"}
  BY <1>5 DEF Ready, InQueue, Threads
<1>7. StartInv'
  BY <1>2, <1>3, <1>4, <1>5 DEF StartInv, Fresh, Tasks
<1>8. JoinInv'
  BY <1>2, <1>3, <1>4, <1>5, <1>6 DEF JoinInv, Tasks
<1>9. at' \in 1 .. 15 /\ registers' = registers /\ screen' \in BOOLEAN
  BY <1>1, <1>2, <1>3, <1>4 DEF maps, DataOK
<1> QED
  BY <1>1, <1>5, <1>7, <1>8, <1>9, MainStep

\* main frees what the tasks used.
LEMMA MainTidiesInv == IInv /\ MainTidies => IInv'
<1> SUFFICES ASSUME IInv, MainTidies PROVE IInv'
  OBVIOUS
<1>1. process = "up" /\ Running("main") /\ UNCHANGED <<flags, maps, mailbox, signal>>
  BY DEF MainTidies
<1>2. /\ "main" \in Threads /\ "main" \notin Tasks /\ QueuesOK(ready) /\ DataOK
      /\ StartInv /\ JoinInv /\ at \in 1 .. 15
      /\ \A u \in Tasks : u \notin Ready /\ pc[u] # "start"
  BY <1>1, MainAlone
<1>3. CASE Ends("success") /\ at' = at
  BY <1>1, <1>2, <1>3, EndsInv DEF DataOK, maps
<1>4. CASE Now.do \in {"clear", "free"} /\ GoOn("main", Now.do, NoWake) /\ at' = at + 1
  <2>1. at \in {13, 14}
    BY <1>2, <1>4, Lines DEF Now, Spawn, Join
  <2>2. PICK where : Moves("main", where, {}, {}, "none")
    BY <1>1, <1>2, <1>4, AloneMoves
  <2>3. /\ Moves("main", where, {}, {}, "start")
        /\ \A u \in Tasks : pc'[u] = pc[u] /\ u \notin Ready'
    BY <1>2, <2>2 DEF Moves
  <2>4. Ready' \subseteq {"main"}
    BY <2>3 DEF Ready, InQueue, Threads
  <2>5. StartInv' /\ JoinInv'
    BY <1>2, <1>4, <2>1, <2>3, <2>4 DEF StartInv, JoinInv, Fresh, Tasks
  <2>6. at' \in 1 .. 15 /\ registers' = registers /\ screen' \in BOOLEAN
    BY <1>1, <1>2, <1>4, <2>1 DEF maps, DataOK
  <2> QED
    BY <1>1, <2>3, <2>5, <2>6, MainStep
<1> QED
  BY <1>3, <1>4 DEF MainTidies

-----------------------------------------------------------------------------
(* The invariant *)

\* main alone is ready, and no task is there.
LEMMA InitInv == Init => IInv
<1> SUFFICES ASSUME Init PROVE IInv
  OBVIOUS
<1>1. /\ <<>> \in Seq(Threads) /\ IsInjective(<<>>) /\ Range(<<>>) = {}
      /\ <<"main">> \in Seq(Threads) /\ IsInjective(<<"main">>) /\ Range(<<"main">>) = {"main"}
  BY ShortRange DEF Threads
<1>2. /\ ready = [p \in Priorities |-> IF p = 0 THEN <<"main">> ELSE <<>>]
      /\ pc = [t \in Tasks |-> "none"] /\ at = 1 /\ process = "up"
      /\ running = TRUE /\ audio = "unset" /\ video = "unset"
      /\ mailbox = [m \in {"treatment", "logging"} |-> None]
  BY PriorityValues DEF Init
<1>3. QueuesOK(ready)
  BY <1>1, <1>2, PriorityValues DEF QueuesOK
<1>4. \A t \in Tasks : t \notin Ready
  <2>1. \A t \in Tasks : Priority[t] \in Priorities /\ Priority[t] # 0
    BY PriorityValues
  <2> QED
    BY <1>1, <1>2, <2>1 DEF Ready, InQueue
<1>5. PlacesInv
  BY <1>2 DEF PlacesInv, Places, Tasks
<1>6. TypeOK
  <2>1. ready \in [Priorities -> Seq(Threads)]
    BY <1>3 DEF QueuesOK
  <2>2. mailbox \in [{"treatment", "logging"} -> None .. PoolSlots]
    BY <1>2, PoolSlotsAssumption DEF None
  <2>3. at \in 1 .. Len(MainProgram)
    BY <1>2, Lines
  <2> QED
    BY <1>2, <2>1, <2>2, <2>3 DEF Init, TypeOK, Flags
<1>7. ReadyInv
  BY <1>2, <1>4 DEF ReadyInv, Busy, Periodic, Tasks
<1>8. StartInv /\ FlagsInv /\ MailInv /\ JoinInv
  BY <1>2 DEF StartInv, FlagsInv, MailInv, JoinInv, Fresh, Tasks
<1> QED
  BY <1>2, <1>3, <1>5, <1>6, <1>7, <1>8 DEF IInv

\* Every step of every thread, of the timer and of the disk keeps it.
LEMMA NextInv == IInv /\ [Next]_vars => IInv'
<1> SUFFICES ASSUME IInv, [Next]_vars PROVE IInv'
  OBVIOUS
<1>1. CASE Main
  BY <1>1, MainCreateEventInv, MainSpawnInv, MainInitVideoInv, MainJoinInv, MainTidiesInv DEF Main
<1>2. CASE Ctl
  BY <1>2, CtlInv
<1>3. CASE Acq
  BY <1>3, AcqStartInv, AcqLoopInv, AcqEndInv DEF Acq
<1>4. CASE Treat
  BY <1>4, TreatStartInv, TreatLoopInv, TreatErrorInv, TreatChunkInv, TreatEndInv DEF Treat
<1>5. CASE Mon
  BY <1>5, MonInv
<1>6. CASE Video
  BY <1>6, VideoStartInv, VideoLoopInv, VideoFrameInv DEF Video
<1>7. CASE ReadDone
  BY <1>7, ReadDoneInv
<1>8. CASE \E w \in Workers : Worker(w)
  BY <1>8, WorkerInv
<1>9. CASE \E t \in Periodic : Release(t)
  BY <1>9, ReleaseInv
<1>10. CASE Halted \/ UNCHANGED vars
  <2>1. UNCHANGED vars
    BY <1>10 DEF Halted
  <2> QED
    BY <2>1 DEF vars, IInv, TypeOK, PlacesInv, ReadyInv, Busy, Ready, StartInv, FlagsInv, MailInv,
               JoinInv, Fresh
<1> QED
  BY <1>1, <1>2, <1>3, <1>4, <1>5, <1>6, <1>7, <1>8, <1>9, <1>10 DEF Next

\* The invariant holds throughout, whatever fails and whatever the mailboxes hold.
THEOREM Invariant == Spec => []IInv
<1>1. Init => IInv
  BY InitInv
<1>2. IInv /\ [Next]_vars => IInv'
  BY NextInv
<1> QED
  BY <1>1, <1>2, PTL DEF Spec

-----------------------------------------------------------------------------
(* What it says of the program *)

\* The threads, the flags and the mailboxes of the process (main.c:126-228) keep
\* their types: a thread is never queued twice, and a mailbox never holds more than
\* the bound at which acquisition waits.
THEOREM TypeCorrect == Spec => []TypeOK
<1>1. IInv => TypeOK
  BY DEF IInv
<1> QED
  BY <1>1, Invariant, PTL

\* The control task sets audio_running and video_running, which main does not
\* initialise (main.c:143-145), before another task reads them.
THEOREM FlagsSet == Spec => []FlagsAreSet
<1>1. ASSUME IInv, NEW t \in {"treat", "video"},
             process = "up", pc[t] = "loop"
      PROVE  audio # "unset" /\ video # "unset"
  <2>1. StartInv /\ FlagsInv /\ at \in 1 .. 15
    BY <1>1, Lines DEF IInv, TypeOK
  <2>2. ~(at <= 4)
    BY <1>1, <2>1 DEF StartInv
  <2>3. ~Fresh("ctl")
    BY <2>1, <2>2 DEF StartInv
  <2> QED
    BY <2>1, <2>3 DEF FlagsInv
<1>2. IInv => FlagsAreSet
  BY <1>1 DEF FlagsAreSet
<1> QED
  BY <1>2, Invariant, PTL

\* While the program runs, treatment finds the mailbox of acquisition and monitoring
\* that of treatment (main.c:171-185, audio_setup.c:27 and 72), although nothing but
\* the order of the starts and the priorities makes them wait.
THEOREM MailboxesAreReady == Spec => []MailboxesReady
<1>1. ASSUME IInv, process = "up", running
      PROVE  /\ pc["treat"] = "loop" => mailbox["treatment"] # None
             /\ pc["mon"] \in {"start", "loop"} /\ pc["treat"] # "ended" =>
                  mailbox["logging"] # None
  <2>1. StartInv /\ MailInv /\ PlacesInv /\ at \in 1 .. 15
    BY <1>1, Lines DEF IInv, TypeOK
  <2>2. pc["treat"] \in Places["treat"]
    BY <2>1 DEF PlacesInv, Tasks
  <2>3. ASSUME pc["treat"] = "loop" PROVE mailbox["treatment"] # None
    <3>1. ~Fresh("acq")
      BY <2>1, <2>3 DEF StartInv
    <3> QED
      BY <1>1, <2>1, <3>1 DEF MailInv
  <2>4. ASSUME pc["mon"] \in {"start", "loop"}, pc["treat"] # "ended"
        PROVE  mailbox["logging"] # None
    <3>1. ~Fresh("treat")
      BY <2>1, <2>4 DEF StartInv
    <3>2. pc["treat"] \in {"loop", "receive", "got"}
      BY <2>2, <2>4, <3>1 DEF Places, Fresh
    <3> QED
      BY <2>1, <3>2 DEF MailInv
  <2> QED
    BY <2>3, <2>4
<1>2. IInv => MailboxesReady
  BY <1>1 DEF MailboxesReady
<1> QED
  BY <1>2, Invariant, PTL

\* When main frees what the tasks share (main.c:222-226) no worker is at work,
\* although main joins neither of them.
THEOREM FreedAreUnused == Spec => []FreedUnused
<1>1. ASSUME IInv, Now.do \in {"clear", "free", "exit"}, NEW w \in Workers
      PROVE  pc[w] \in {"none", "ended"} \/ Blocked(w, "wait")
  <2>1. w \in Tasks /\ w \in Threads /\ w # "main" /\ w \notin Periodic
    BY DEF Workers, Tasks, Threads, Periodic
  <2>2. CASE process # "up"
    BY <1>1, <2>1, <2>2 DEF IInv
  <2>3. CASE process = "up"
    <3>1. QueuesOK(ready) /\ ReadyInv /\ JoinInv /\ at \in 1 .. 15 /\ pc[w] \in Places[w]
      BY <1>1, <2>1, <2>3, Lines DEF IInv, TypeOK, PlacesInv
    <3>2. at > 12
      BY <1>1, <3>1, Lines DEF Now, Spawn, Join
    <3>3. w \notin Ready
      BY <2>1, <3>1, <3>2 DEF JoinInv
    <3>4. ~Busy(w, pc[w]) /\ ~IsReady(w)
      BY <2>1, <3>1, <3>3, ReadyIsReady DEF ReadyInv
    <3>5. pc[w] \in {"none", "wait", "ended"}
      BY <2>1, <3>1, <3>4 DEF Places, Busy, Workers
    <3> QED
      BY <3>4, <3>5 DEF Blocked
  <2> QED
    BY <2>2, <2>3
<1>2. IInv => FreedUnused
  BY <1>1 DEF FreedUnused
<1> QED
  BY <1>2, Invariant, PTL

=============================================================================
