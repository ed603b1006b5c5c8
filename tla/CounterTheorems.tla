-------------------------- MODULE CounterTheorems --------------------------
(***************************************************************************)
(* The properties of Counter, proved from the inductive invariant for      *)
(* every finite set of threads, and the proof that Counter implements      *)
(* AtomicCounter.                                                          *)
(***************************************************************************)
EXTENDS CounterProofs, CounterRefinement

\* A reader in the critical section is counted, and past the first lock of writing.
LEMMA ReaderInCSHoldsWriting ==
  ASSUME IInv, NEW t \in Threads, ReaderInCS(t)
  PROVE  ReadersHoldWriting
<1>1. t \in At(CountedReaderPC) /\ t \notin At(FirstReaderPC)
  BY DEF ReaderInCS, At, CountedReaderPC, FirstReaderPC
<1>2. At(FirstReaderPC) = {}
  BY <1>1 DEF IInv, BoundaryInv
<1> QED BY <1>1, <1>2 DEF ReadersHoldWriting

\* Writers exclude each other by owning writing, and readers by the first one owning it.
LEMMA ExclusionInv == IInv => MutualExclusion
<1> SUFFICES ASSUME IInv, NEW t \in Threads, NEW u \in Threads, WriterInCS(t), t # u
             PROVE  ~WriterInCS(u) /\ ~ReaderInCS(u)
  BY DEF MutualExclusion
<1>1. t \in At(WritingPC) /\ (WriterInCS(u) => u \in At(WritingPC))
  BY DEF WriterInCS, At, WritingPC
<1>2. AtMostOne(At(WritingPC)) /\ ~(ReadersHoldWriting /\ At(WritingPC) # {})
  BY DEF IInv, MutexInv, WritingInv
<1>3. ~WriterInCS(u)
  BY <1>1, <1>2 DEF AtMostOne
<1> QED BY <1>1, <1>2, <1>3, ReaderInCSHoldsWriting

\* Where threads that wait for a mutex can be.
BlockedPC == {"lock_new_readers", "lock_reading", "writer_lock_reading", "count_reader_in",
              "count_reader_out", "count_writer_in", "count_writer_out", "reader_lock_writing",
              "writer_lock_writing"}

\* The order in which the mutexes are taken: writing, readers_mutex, reading,
\* writers_mutex, new_readers. If everybody waited, none of the five could be locked.
LEMMA NoCircularWaitInv == IInv => NoCircularWait
<1> SUFFICES ASSUME IInv, NEW t \in Threads, Active(t),
                    \A u \in Threads : Active(u) => Blocked(u)
             PROVE  FALSE
  BY DEF NoCircularWait
<1>1. \A u \in Threads : pc[u] = "idle" \/ (pc[u] \in BlockedPC /\ Blocked(u))
  BY DEF Active, Blocked, BlockedPC
<1>2. "writing" \notin held
  <2> SUFFICES ASSUME "writing" \in held PROVE FALSE
    OBVIOUS
  <2>1. At(WritingPC) = {} /\ At(LastReaderPC) = {}
    BY <1>1 DEF At, WritingPC, LastReaderPC, BlockedPC
  <2>2. At(CountedReaderPC) # {} /\ At(FirstReaderPC) = {}
    BY <2>1 DEF IInv, MutexInv, WritingInv, ReadersHoldWriting
  <2>3. PICK u \in Threads : pc[u] = "count_reader_out"
    BY <1>1, <2>2 DEF At, CountedReaderPC, FirstReaderPC, BlockedPC
  <2>4. "readers_mutex" \in held
    BY <1>1, <2>3 DEF Blocked
  <2>5. At(ReadersMutexPC) # {}
    BY <2>4 DEF IInv, MutexInv, Owned
  <2> QED BY <1>1, <2>2, <2>5 DEF At, ReadersMutexPC, FirstReaderPC, BlockedPC
<1>3. \A u \in Threads : pc[u] \notin {"reader_lock_writing", "writer_lock_writing"}
  BY <1>1, <1>2 DEF Blocked
<1>4. "readers_mutex" \notin held
  BY <1>1, <1>3 DEF IInv, MutexInv, Owned, At, ReadersMutexPC, BlockedPC
<1>5. \A u \in Threads : pc[u] \notin {"count_reader_in", "count_reader_out"}
  BY <1>1, <1>4 DEF Blocked
<1>6. "reading" \notin held
  <2> SUFFICES ASSUME "reading" \in held PROVE FALSE
    OBVIOUS
  <2>1. At(ReadingPC) = {} /\ At(LastWriterPC) = {}
    BY <1>1, <1>3, <1>5 DEF At, ReadingPC, LastWriterPC, BlockedPC
  <2>2. At(CountedWriterPC) # {} /\ At(FirstWriterPC) = {}
    BY <2>1 DEF IInv, MutexInv, ReadingInv, WritersHoldReading
  <2>3. PICK u \in Threads : pc[u] = "count_writer_out"
    BY <1>1, <1>3, <2>2 DEF At, CountedWriterPC, WritingPC, FirstWriterPC, BlockedPC
  <2>4. "writers_mutex" \in held
    BY <1>1, <2>3 DEF Blocked
  <2>5. At(WritersMutexPC) # {}
    BY <2>4 DEF IInv, MutexInv, Owned
  <2> QED BY <1>1, <2>2, <2>5 DEF At, WritersMutexPC, FirstWriterPC, BlockedPC
<1>7. \A u \in Threads : pc[u] \notin {"lock_reading", "writer_lock_reading"}
  BY <1>1, <1>6 DEF Blocked
<1>8. "writers_mutex" \notin held
  BY <1>1, <1>7 DEF IInv, MutexInv, Owned, At, WritersMutexPC, BlockedPC
<1>9. "new_readers" \notin held
  BY <1>1, <1>3, <1>5, <1>7 DEF IInv, MutexInv, Owned, At, NewReadersPC, ReadingPC, BlockedPC
<1> QED BY <1>1, <1>2, <1>4, <1>6, <1>8, <1>9 DEF Blocked, Active

\* With no thread at any label, the ownership of each mutex says that it is unlocked.
LEMMA NothingLeaksInv == IInv => NothingLeaks
<1> SUFFICES ASSUME IInv, \A t \in Threads : ~Active(t)
             PROVE  held = {} /\ readers = 0 /\ writers = 0
  BY DEF NothingLeaks
<1>1. /\ At(ReadersMutexPC) = {} /\ At(WritersMutexPC) = {} /\ At(NewReadersPC) = {}
      /\ At(ReadingPC) = {} /\ At(WritingPC) = {} /\ At(CountedReaderPC) = {}
      /\ At(CountedWriterPC) = {} /\ At(LastReaderPC) = {} /\ At(LastWriterPC) = {}
  BY DEF Active, At, ReadersMutexPC, WritersMutexPC, NewReadersPC, ReadingPC, WritingPC,
         CountedReaderPC, CountedWriterPC, LastReaderPC, LastWriterPC
<1>2. readers = 0 /\ writers = 0
  BY <1>1, FS_EmptySet DEF IInv, CountInv
<1>3. ~ReadersHoldWriting /\ ~WritersHoldReading
  BY <1>1 DEF ReadersHoldWriting, WritersHoldReading
<1>4. \A m \in Mutexes : m \notin held
  BY <1>1, <1>3 DEF IInv, MutexInv, Owned, WritingInv, ReadingInv, Mutexes
<1>5. held = {}
  BY <1>4 DEF IInv, TypeOK
<1> QED BY <1>2, <1>5

\* The properties of the counter and the file are read off DataInv and ResultInv.
LEMMA DataProperties ==
  IInv => FileCountsUp /\ MemoryMatchesDisk /\ NoResultAheadOfDisk /\ IncrementsReturnDistinct
<1> SUFFICES ASSUME IInv
             PROVE  /\ FileCountsUp /\ MemoryMatchesDisk /\ NoResultAheadOfDisk
                    /\ IncrementsReturnDistinct
  OBVIOUS
<1>1. MemoryMatchesDisk
  BY DEF IInv, DataInv, Committed, At, MemoryMatchesDisk
<1>2. NoResultAheadOfDisk
  BY DEF IInv, DataInv, ProcessInv, ResultInv, At, ReturnedPC, WriterReturnedPC,
         NoResultAheadOfDisk
<1> QED BY <1>1, <1>2 DEF IInv, DataInv, ResultInv

\* With --priority reader the first reader waits for writing, which only a writer inside has.
LEMMA ReadersFirstInv == IInv => ReadersFirst
<1> SUFFICES ASSUME IInv, priority = COUNTER_READ, NEW t \in Threads,
                    pc[t] \in {"lock_reading", "reader_lock_writing"}, Blocked(t)
             PROVE  \E u \in Threads : WriterInCS(u) \/ pc[u] = "writer_unlock_writing"
  BY DEF ReadersFirst, ReaderWaitsForNoQueue
<1>1. ~WritePriority
  BY DEF WritePriority, COUNTER_READ, COUNTER_INCREMENT
<1>2. pc[t] = "reader_lock_writing" /\ "writing" \in held
  BY <1>1 DEF IInv, BoundaryInv, At, WritePriorityPC, Blocked
<1>3. t \in At(FirstReaderPC) /\ t \in At(CountedReaderPC)
  BY <1>2 DEF At, FirstReaderPC, CountedReaderPC
<1>4. ~ReadersHoldWriting
  BY <1>3 DEF IInv, BoundaryInv, ReadersHoldWriting
<1>5. At(WritingPC) # {}
  BY <1>2, <1>4 DEF IInv, MutexInv, WritingInv
<1> QED BY <1>5 DEF At, WritingPC, WriterInCS

\* The only step that counts a reader in needs reading, which the claim keeps locked.
LEMMA NoOvertakingStep == IInv /\ [Next]_vars => (Claimed => readers' <= readers)
<1> SUFFICES ASSUME IInv, [Next]_vars, Claimed PROVE readers' <= readers
  OBVIOUS
<1> USE DEF IInv, TypeOK, Lock, Unlock, process, counts, disk
<1>1. ASSUME NEW t \in Threads, ReadersIncrement(t), Access(t) PROVE FALSE
  <2>1. WritePriority /\ writers > 0 /\ At(FirstWriterPC) = {}
    BY DEF Claimed, WritePriority, At, FirstWriterPC
  <2>2. At(CountedWriterPC) # {}
    BY <2>1, WritersMeaning
  <2>3. WritersHoldReading
    BY <2>1, <2>2 DEF WritersHoldReading
  <2>4. t \in At(ReadingPC)
    BY <1>1 DEF ReadersIncrement, Goto, At, ReadingPC
  <2> QED BY <2>3, <2>4 DEF MutexInv, ReadingInv
<1>2. CASE \E t \in Threads : Access(t)
  <2> PICK t \in Threads : Access(t)
    BY <1>2
  <2>1. ~ReadersIncrement(t)
    BY <1>1
  <2> QED
    BY <2>1 DEF Access, read_wp, read_rp, write_wp, write_rp, CountIn, CountOut,
         access_counter_increment, ReadersDecrement, WritersIncrement, WritersDecrement,
         access_counter_read, load_counter, store_counter, write_to_file, copy_counter
<1>3. CASE Crash
  BY <1>3 DEF Crash
<1>4. CASE UNCHANGED vars
  BY <1>4 DEF vars
<1>5. CASE Next /\ ~Crash /\ ~\E t \in Threads : Access(t)
  BY <1>5 DEF Next, init_counter, init_counter_write, safe_access_counter, return_counter
<1> QED BY <1>2, <1>3, <1>4, <1>5

-----------------------------------------------------------------------------
(***************************************************************************)
(* Refinement.                                                             *)
(***************************************************************************)
\* The abstract value is the counter without the increment that is not on disk.
LEMMA AbstractValueIsCommitted ==
  IInv => AbstractValue \in Int /\ (main = "running" => AbstractValue = Committed)
<1> SUFFICES ASSUME IInv
             PROVE  AbstractValue \in Int /\ (main = "running" => AbstractValue = Committed)
  OBVIOUS
<1>1. Committed \in Int
  BY DEF IInv, TypeOK, Committed
<1>2. file # <<>> => LastLine \in Int
  BY DEF IInv, TypeOK, LastLine
<1> QED BY <1>1, <1>2 DEF AbstractValue, IInv, DataInv

\* The same in the next state.
LEMMA AbstractValueNext ==
  IInv' => (AbstractValue \in Int /\ (main = "running" => AbstractValue = Committed))'
BY AbstractValueIsCommitted, PTL

\* A process that is not running has no requests.
LEMMA AllIdleIsIdle ==
  AllIdle => Status = Atomic!Idle /\ Result = Atomic!NoResult
BY DEF AllIdle, Status, Result, Atomic!Idle, Atomic!NoResult, StatusOf, ResultOf

\* The same in the next state.
LEMMA AllIdleIsIdleNext ==
  AllIdle' => Status' = Atomic!Idle /\ Result' = Atomic!NoResult
BY DEF AllIdle, Status, Result, Atomic!Idle, Atomic!NoResult, StatusOf, ResultOf

\* The initial states map to initial states.
LEMMA InitRefines == Init => Atomic!Init
<1> SUFFICES ASSUME Init PROVE Atomic!Init
  OBVIOUS
<1>1. AllIdle
  BY DEF Init, AllIdle
<1>2. AbstractValue \in Int
  BY InitIInv, AbstractValueIsCommitted
<1> QED BY <1>1, <1>2, AllIdleIsIdle DEF Atomic!Init

\* Starting, creating the file and crashing are a Restart.
LEMMA ProcessRefines ==
  ASSUME IInv, IInv',
         \/ \E r \in Ratios, p \in Priorities : init_counter(r, p)
         \/ init_counter_write
         \/ Crash
  PROVE  Atomic!Restart
<1>1. AllIdle'
  BY DEF IInv, ProcessInv, AllIdle, init_counter, init_counter_write, Crash
<1>2. AbstractValue' \in Int
  BY AbstractValueNext
<1>3. file # <<>> => file' # <<>> /\ AbstractValue' = AbstractValue
  BY DEF IInv, ProcessInv, init_counter, init_counter_write, Crash, disk, AbstractValue, LastLine
<1> QED BY <1>1, <1>2, <1>3, AllIdleIsIdleNext DEF Atomic!Restart

\* What a step of thread t does to the requests.
LEMMA RequestChange ==
  ASSUME IInv, NEW t \in Threads, NEW from, NEW to, Goto(t, from, to),
         \A u \in Threads \ {t} : counter_value'[u] = counter_value[u],
         counter' = counter \/ \A u \in Threads \ {t} : pc[u] # "return_counter"
  PROVE  /\ Status[t] = StatusOf(from)
         /\ Status' = [Status EXCEPT ![t] = StatusOf(to)]
         /\ Result' = [Result EXCEPT ![t] = ResultOf(t)']
         /\ StatusOf(from) = StatusOf(to) => UNCHANGED Status
         /\ ResultOf(t)' = ResultOf(t) => UNCHANGED Result
<1>1. pc' = [pc EXCEPT ![t] = to] /\ pc[t] = from /\ pc \in [Threads -> PC]
  BY DEF Goto, IInv, TypeOK
<1>2. \A u \in Threads \ {t} : pc'[u] = pc[u] /\ ResultOf(u)' = ResultOf(u)
  BY <1>1 DEF ResultOf
<1>3. \A u \in Threads : Status[u] = StatusOf(pc[u]) /\ Status'[u] = StatusOf(pc'[u])
  BY DEF Status
<1>4. Status' = [Status EXCEPT ![t] = StatusOf(to)]
  BY <1>1, <1>2 DEF Status
<1>5. Result' = [Result EXCEPT ![t] = ResultOf(t)']
  BY <1>2 DEF Result
<1>6. StatusOf(from) = StatusOf(to) => UNCHANGED Status
  BY <1>1, <1>2 DEF Status
<1>7. ResultOf(t)' = ResultOf(t) => UNCHANGED Result
  BY <1>2 DEF Result
<1> QED BY <1>1, <1>3, <1>4, <1>5, <1>6, <1>7

\* A step that keeps the counter, the file and the kind of the request is invisible.
LEMMA Invisible ==
  ASSUME IInv, IInv', NEW t \in Threads, NEW from, NEW to, Goto(t, from, to),
         StatusOf(from) = StatusOf(to),
         from # "write_to_file", to # "write_to_file",
         UNCHANGED <<counter, file>>,
         \A u \in Threads \ {t} : counter_value'[u] = counter_value[u],
         ResultOf(t)' = ResultOf(t)
  PROVE  UNCHANGED Atomic!vars
<1>1. UNCHANGED <<Status, Result>>
  BY RequestChange
<1>2. UNCHANGED At({"write_to_file"})
  BY DEF Goto, At, IInv, TypeOK
<1>3. UNCHANGED <<AbstractValue, file # <<>> >>
  BY <1>2 DEF AbstractValue, Committed, LastLine
<1> QED BY <1>1, <1>3 DEF Atomic!vars

\* Locking and unlocking are invisible.
LEMMA LockingIsInvisible ==
  ASSUME IInv, IInv', NEW t \in Threads, NEW from, NEW to, Goto(t, from, to),
         StatusOf(from) = StatusOf(to), {from, to} \cap {"write_to_file", "return_counter"} = {},
         UNCHANGED <<counter, file, counter_value>>
  PROVE  UNCHANGED Atomic!vars
<1>1. ResultOf(t)' = ResultOf(t)
  BY DEF ResultOf, Goto, IInv, TypeOK
<1>2. \A u \in Threads \ {t} : counter_value'[u] = counter_value[u]
  OBVIOUS
<1> QED BY <1>1, <1>2, Invisible

\* The whole of safe_access_counter before and after the critical section is made of such steps.
LEMMA AccessRefines ==
  ASSUME IInv, IInv', NEW t \in Threads, Access(t)
  PROVE  [Atomic!Next]_Atomic!vars
<1> USE DEF IInv, TypeOK
<1>1. CASE access_counter_read(t)
  <2>1. StatusOf("read_counter") = "read" /\ StatusOf("count_reader_out") = "done"
    BY DEF StatusOf, PendingReader, PendingWriter
  <2>2. Goto(t, "read_counter", "count_reader_out")
    BY <1>1 DEF access_counter_read
  <2>3. Status' = [Status EXCEPT ![t] = "done"] /\ Result' = [Result EXCEPT ![t] = ResultOf(t)']
    BY <1>1, <2>1, <2>2, RequestChange DEF access_counter_read
  <2>4. ResultOf(t)' = counter
    BY <1>1, <2>1, <2>2 DEF access_counter_read, ResultOf, Goto
  <2>5. At({"write_to_file"}) = {}
    BY <2>2, ExclusionInv DEF MutualExclusion, WriterInCS, ReaderInCS, At, Goto
  <2>6. AbstractValue = counter
    BY <2>2, <2>5, AbstractValueIsCommitted DEF Goto, Committed
  <2>7. UNCHANGED <<AbstractValue, file # <<>> >>
    <3>1. At({"write_to_file"})' = {}
      BY <2>2, <2>5 DEF At, Goto
    <3>2. UNCHANGED <<counter, file>>
      BY <1>1 DEF access_counter_read, disk
    <3> QED BY <2>5, <3>1, <3>2 DEF AbstractValue, Committed, LastLine
  <2>8. Status[t] = "read"
    BY <2>1, <2>2 DEF Goto, Status
  <2>9. Atomic!Read(t)
    BY <2>3, <2>4, <2>6, <2>7, <2>8 DEF Atomic!Read
  <2> QED BY <2>9 DEF Atomic!Next
<1>2. CASE write_to_file(t)
  <2>1. StatusOf("write_to_file") = "increment" /\ StatusOf("return_counter") = "done"
    BY DEF StatusOf, PendingReader, PendingWriter
  <2>2. Goto(t, "write_to_file", "return_counter") /\ main = "running"
    BY <1>2 DEF write_to_file, Goto
  <2>3. Status' = [Status EXCEPT ![t] = "done"] /\ Result' = [Result EXCEPT ![t] = ResultOf(t)']
    BY <1>2, <2>1, <2>2, RequestChange DEF write_to_file
  <2>4. ResultOf(t)' = counter
    BY <1>2, <2>1, <2>2 DEF write_to_file, ResultOf, Goto
  <2>5. AbstractValue = counter - 1
    BY <2>2, AbstractValueIsCommitted DEF Committed, At, Goto
  <2>6. file' # <<>> /\ AbstractValue' = counter
    BY <1>2 DEF write_to_file, AbstractValue, LastLine
  <2>7. Status[t] = "increment"
    BY <2>1, <2>2 DEF Goto, Status
  <2>8. Atomic!Increment(t)
    BY <2>3, <2>4, <2>5, <2>6, <2>7 DEF Atomic!Increment
  <2> QED BY <2>8 DEF Atomic!Next
<1>3. CASE store_counter(t)
  <2>1. Goto(t, "store_counter", "write_to_file") /\ main = "running" /\ main' = "running"
    BY <1>3 DEF store_counter, Goto, process
  <2>2. \A u \in Threads \ {t} : pc[u] \notin {"write_to_file", "return_counter"}
    BY <2>1, ExclusionInv DEF MutualExclusion, WriterInCS, Goto
  <2>3. StatusOf("store_counter") = StatusOf("write_to_file") /\ StatusOf("write_to_file") # "done"
    BY DEF StatusOf, PendingReader, PendingWriter
  <2>4. ResultOf(t)' = ResultOf(t)
    BY <2>1, <2>3 DEF ResultOf, Goto
  <2>5. UNCHANGED <<Status, Result>>
    BY <1>3, <2>1, <2>2, <2>3, <2>4, RequestChange DEF store_counter
  <2>6. UNCHANGED Committed
    <3>1. At({"write_to_file"}) = {} /\ At({"write_to_file"})' # {}
      BY <2>1, <2>2 DEF At, Goto
    <3>2. counter' = counter + 1
      BY <1>3, <2>1 DEF store_counter, DataInv, At, Goto
    <3> QED BY <3>1, <3>2 DEF Committed
  <2>7. UNCHANGED <<AbstractValue, file # <<>> >>
    BY <1>3, <2>6 DEF store_counter, disk, AbstractValue, LastLine
  <2> QED BY <2>5, <2>7 DEF Atomic!vars
<1>4. CASE load_counter(t)
  <2>1. Goto(t, "load_counter", "store_counter") /\ UNCHANGED <<counter, file>>
    BY <1>4 DEF load_counter, disk
  <2>2. StatusOf("load_counter") = StatusOf("store_counter") /\ StatusOf("load_counter") # "done"
    BY DEF StatusOf, PendingReader, PendingWriter
  <2>3. ResultOf(t)' = ResultOf(t)
    BY <2>1, <2>2 DEF ResultOf, Goto
  <2>4. \A u \in Threads \ {t} : counter_value'[u] = counter_value[u]
    BY <1>4 DEF load_counter
  <2> QED BY <2>1, <2>2, <2>3, <2>4, Invisible
<1>5. CASE copy_counter(t)
  <2>1. Goto(t, "return_counter", "writer_unlock_writing") /\ UNCHANGED <<counter, file>>
    BY <1>5 DEF copy_counter, disk
  <2>2. StatusOf("return_counter") = "done" /\ StatusOf("writer_unlock_writing") = "done"
    BY DEF StatusOf, PendingReader, PendingWriter
  <2>3. ResultOf(t)' = ResultOf(t)
    BY <1>5, <2>1, <2>2 DEF copy_counter, ResultOf, Goto
  <2>4. \A u \in Threads \ {t} : counter_value'[u] = counter_value[u]
    BY <1>5 DEF copy_counter
  <2> QED BY <2>1, <2>2, <2>3, <2>4, Invisible
<1>6. CASE /\ ~access_counter_read(t)
           /\ ~access_counter_increment(t)
  <2>1. PICK from, to :
          /\ Goto(t, from, to) /\ StatusOf(from) = StatusOf(to)
          /\ {from, to} \cap {"write_to_file", "return_counter"} = {}
          /\ UNCHANGED <<counter, file, counter_value>>
    BY <1>6 DEF Access, read_wp, read_rp, write_wp, write_rp, CountIn, CountOut, Lock, Unlock,
         ReadersIncrement, ReadersDecrement, WritersIncrement, WritersDecrement, StatusOf,
         PendingReader, PendingWriter, disk
  <2> QED BY <2>1, LockingIsInvisible
<1> QED BY <1>1, <1>2, <1>3, <1>4, <1>5, <1>6 DEF access_counter_increment

\* A call and a return are steps of the abstract counter.
LEMMA CallRefines ==
  ASSUME IInv, IInv', NEW t \in Threads,
         (\E a \in Operations : safe_access_counter(t, a)) \/ return_counter(t)
  PROVE  Atomic!Next
<1> USE DEF IInv, TypeOK
<1>1. PICK from, to : Goto(t, from, to) /\ {from, to} \cap {"write_to_file", "return_counter"} = {}
  BY DEF safe_access_counter, return_counter, EntryPoint
<1>2. /\ UNCHANGED <<counter, file>>
      /\ \A u \in Threads \ {t} : counter_value'[u] = counter_value[u]
  BY DEF safe_access_counter, return_counter, disk
<1>3. UNCHANGED <<AbstractValue, file # <<>> >>
  <2>1. UNCHANGED At({"write_to_file"})
    BY <1>1 DEF Goto, At
  <2> QED BY <1>2, <2>1 DEF AbstractValue, Committed, LastLine
<1>4. ASSUME NEW a \in Operations, safe_access_counter(t, a)
      PROVE  Atomic!Call(t, IF a = COUNTER_READ THEN "read" ELSE "increment")
  <2> DEFINE operation == IF a = COUNTER_READ THEN "read" ELSE "increment"
  <2>1. Goto(t, "idle", EntryPoint(a))
    BY <1>4 DEF safe_access_counter
  <2>2. StatusOf("idle") = "idle" /\ StatusOf(EntryPoint(a)) = operation
    BY DEF EntryPoint, StatusOf, PendingReader, PendingWriter
  <2>3. ResultOf(t)' = ResultOf(t)
    BY <2>1, <2>2 DEF ResultOf, Goto
  <2>4. Status[t] = "idle" /\ Status' = [Status EXCEPT ![t] = operation] /\ UNCHANGED Result
    BY <1>2, <2>1, <2>2, <2>3, RequestChange
  <2> QED BY <1>3, <2>4 DEF Atomic!Call
<1>5. CASE return_counter(t)
  <2>1. PICK done \in {"reader_done", "writer_done"} : Goto(t, done, "idle")
    BY <1>5 DEF return_counter
  <2>2. StatusOf(done) = "done" /\ StatusOf("idle") = "idle"
    BY <2>1 DEF StatusOf, PendingReader, PendingWriter
  <2>3. ResultOf(t)' = 0
    BY <2>1, <2>2 DEF ResultOf, Goto
  <2>4. /\ Status[t] = "done" /\ Status' = [Status EXCEPT ![t] = "idle"]
        /\ Result' = [Result EXCEPT ![t] = 0]
    BY <1>2, <2>1, <2>2, <2>3, RequestChange
  <2>5. Atomic!Return(t)
    BY <1>3, <2>4 DEF Atomic!Return
  <2> QED BY <2>5 DEF Atomic!Next
<1> QED BY <1>4, <1>5 DEF Atomic!Next

\* Every step maps to a step or to a stutter.
LEMMA StepRefines == IInv /\ IInv' /\ [Next]_vars => [Atomic!Next]_Atomic!vars
<1> SUFFICES ASSUME IInv, IInv', [Next]_vars PROVE [Atomic!Next]_Atomic!vars
  OBVIOUS
<1>1. CASE UNCHANGED vars
  <2>1. UNCHANGED <<AbstractValue, file # <<>> >>
    BY <1>1 DEF vars, AbstractValue, Committed, LastLine, At
  <2>2. UNCHANGED <<Status, Result>>
    BY <1>1 DEF vars, Status, Result, ResultOf
  <2> QED BY <2>1, <2>2 DEF Atomic!vars
<1>2. CASE \E t \in Threads : Access(t)
  BY <1>2, AccessRefines
<1>3. CASE \E t \in Threads : (\E a \in Operations : safe_access_counter(t, a)) \/ return_counter(t)
  BY <1>3, CallRefines
<1>4. CASE \/ \E r \in Ratios, p \in Priorities : init_counter(r, p)
           \/ init_counter_write
           \/ Crash
  BY <1>4, ProcessRefines DEF Atomic!Next
<1> QED BY <1>1, <1>2, <1>3, <1>4 DEF Next

-----------------------------------------------------------------------------
(***************************************************************************)
(* The theorems.                                                           *)
(***************************************************************************)
\* Every variable keeps its type; in particular the unconditional readers-- and
\* writers-- never make a count negative.
THEOREM TypeCorrect == Spec => []TypeOK
BY Invariance, PTL DEF IInv

\* No thread is in access_counter together with a writer.
THEOREM Exclusion == Spec => []MutualExclusion
BY Invariance, ExclusionInv, PTL

\* The threads inside safe_access_counter never all wait for one another.
THEOREM DeadlockFreedom == Spec => []NoCircularWait
BY Invariance, NoCircularWaitInv, PTL

\* When all calls have returned, every mutex is unlocked and both counts are 0.
THEOREM MutexesReturned == Spec => []NothingLeaks
BY Invariance, NothingLeaksInv, PTL

\* The lines of the file are consecutive numbers, across crashes.
THEOREM NoLostIncrement == Spec => []FileCountsUp
BY Invariance, DataProperties, PTL

\* The counter and the last line of the file agree outside a writer's critical section.
THEOREM MemoryIsDisk == Spec => []MemoryMatchesDisk
BY Invariance, DataProperties, PTL

\* What a call returns is on disk.
THEOREM ResultsAreDurable == Spec => []NoResultAheadOfDisk
BY Invariance, DataProperties, PTL

\* Two increments return different values.
THEOREM ResultsAreDistinct == Spec => []IncrementsReturnDistinct
BY Invariance, DataProperties, PTL

\* With --priority reader, a reader that waits, waits for a writer that has the counter.
THEOREM ReaderPriority == Spec => []ReadersFirst
BY Invariance, ReadersFirstInv, PTL

\* With --priority writer, no reader gets in while writers claim the counter.
THEOREM WriterPriority == Spec => NoReaderOvertakesWriter
<1>1. IInv /\ [Next]_vars => [Claimed => readers' <= readers]_vars
  BY NoOvertakingStep
<1> QED BY <1>1, Invariance, PTL DEF Spec, NoReaderOvertakesWriter

\* safe_access_counter is an atomic, durable counter.
THEOREM Refinement == Spec => ImplementsAtomicCounter
<1>1. Spec => []IInv
  BY Invariance
<1> QED BY <1>1, InitRefines, StepRefines, PTL DEF Spec, ImplementsAtomicCounter, Atomic!Spec

=============================================================================
