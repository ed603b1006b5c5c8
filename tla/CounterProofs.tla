--------------------------- MODULE CounterProofs ---------------------------
(***************************************************************************)
(* IInv is an inductive invariant of Counter, for every finite set of      *)
(* threads and every priority.                                             *)
(***************************************************************************)
EXTENDS CounterInvariant, FiniteSetTheorems, TLAPS

-----------------------------------------------------------------------------
(***************************************************************************)
(* Counting.                                                               *)
(***************************************************************************)
\* Finitely many threads stand at any set of labels.
LEMMA AtFinite ==
  ASSUME NEW L
  PROVE  IsFiniteSet(At(L)) /\ Cardinality(At(L)) \in Nat
<1>1. At(L) \subseteq Threads
  BY DEF At
<1> QED BY <1>1, ThreadsAssumption, FS_Subset, FS_CardinalityType

\* What a count says of the set it counts.
LEMMA CountMeaning ==
  ASSUME NEW L
  PROVE  /\ Cardinality(At(L)) = 0 <=> At(L) = {}
         /\ \A t \in At(L) : Cardinality(At(L)) = 1 <=> At(L) = {t}
<1>1. Cardinality(At(L)) = 0 <=> At(L) = {}
  BY AtFinite, FS_EmptySet
<1>2. ASSUME NEW t \in At(L)
      PROVE  Cardinality(At(L)) = 1 <=> At(L) = {t}
  <2>1. /\ IsFiniteSet(At(L) \ {t})
        /\ Cardinality(At(L) \ {t}) = Cardinality(At(L)) - 1
    BY AtFinite, FS_RemoveElement
  <2>2. Cardinality(At(L) \ {t}) = 0 <=> At(L) \ {t} = {}
    BY <2>1, FS_EmptySet
  <2>3. At(L) \ {t} = {} <=> At(L) = {t}
    OBVIOUS
  <2> QED BY <2>1, <2>2, <2>3, AtFinite
<1> QED BY <1>1, <1>2

\* The tests of read_wp and read_rp: "if (readers == 1)" after the increment finds
\* the first reader in, "if (readers == 0)" after the decrement the last one out.
LEMMA ReadersMeaning ==
  ASSUME CountInv
  PROVE  /\ readers = 0 <=> At(CountedReaderPC) = {}
         /\ \A t \in At(CountedReaderPC) : readers = 1 <=> At(CountedReaderPC) = {t}
BY CountMeaning DEF CountInv

\* The same for the tests of write_wp.
LEMMA WritersMeaning ==
  ASSUME CountInv, WritePriority
  PROVE  /\ writers = 0 <=> At(CountedWriterPC) = {}
         /\ \A t \in At(CountedWriterPC) : writers = 1 <=> At(CountedWriterPC) = {t}
BY CountMeaning DEF CountInv

-----------------------------------------------------------------------------
(***************************************************************************)
(* A step of safe_access_counter preserves each part of IInv.              *)
(***************************************************************************)
\* Who holds which mutex: the proof splits on the line of counter.c that is executed.
LEMMA AccessMutexInv ==
  ASSUME IInv, NEW t \in Threads, Access(t)
  PROVE  MutexInv'
<1> USE DEF IInv, TypeOK, MutexInv, WritingInv, ReadingInv, BoundaryInv, ProcessInv,
            Lock, Unlock, Goto, lock, unlock, process, counts, disk, WritePriority, Mutexes, Owned, At, AtMostOne,
            ReadersMutexPC, WritersMutexPC, NewReadersPC, ReadingPC, WritingPC,
            CountedReaderPC, CountedWriterPC, FirstReaderPC, LastReaderPC,
            FirstWriterPC, LastWriterPC, WritePriorityPC,
            ReadersHoldWriting, WritersHoldReading
<1>1. CASE WritePriority /\ Lock(t, "new_readers", "lock_new_readers", "lock_reading")
  BY <1>1
<1>2. CASE WritePriority /\ Lock(t, "reading", "lock_reading", "count_reader_in")
  BY <1>2
<1>3. CASE ReadersIncrement(t)
  <2>1. /\ readers = 0 <=> At(CountedReaderPC) = {}
        /\ \A u \in At(CountedReaderPC) : readers = 1 <=> At(CountedReaderPC) = {u}
    BY ReadersMeaning
  <2>2. Owned("readers_mutex", ReadersMutexPC)'
    BY <1>3, <2>1 DEF ReadersIncrement
  <2>3. Owned("writers_mutex", WritersMutexPC)'
    BY <1>3, <2>1 DEF ReadersIncrement
  <2>4. (WritePriority => Owned("new_readers", NewReadersPC))'
    BY <1>3, <2>1 DEF ReadersIncrement
  <2>5. (~WritePriority => "new_readers" \notin held)'
    BY <1>3, <2>1 DEF ReadersIncrement
  <2>6. WritingInv'
    <3>1. CASE readers = 0
      <4>1. ~ReadersHoldWriting
        BY <1>3, <2>1, <3>1 DEF ReadersIncrement
      <4>2. ~ReadersHoldWriting'
        BY <1>3, <2>1, <3>1 DEF ReadersIncrement
      <4>3. UNCHANGED At(WritingPC) /\ UNCHANGED ("writing" \in held)
        BY <1>3, <3>1 DEF ReadersIncrement
      <4> HIDE DEF At, ReadersHoldWriting
      <4> QED BY <4>1, <4>2, <4>3
    <3>2. CASE readers # 0
      BY <1>3, <2>1, <3>2 DEF ReadersIncrement
    <3> QED BY <3>1, <3>2
  <2>7. ReadingInv'
    BY <1>3, <2>1 DEF ReadersIncrement
  <2> QED BY <2>2, <2>3, <2>4, <2>5, <2>6, <2>7
<1>4. CASE Lock(t, "writing", "reader_lock_writing", "unlock_readers_mutex")
  BY <1>4
<1>5. CASE WritePriority /\ Unlock(t, "readers_mutex", "unlock_readers_mutex", "unlock_reading")
  BY <1>5
<1>6. CASE ~WritePriority /\ Unlock(t, "readers_mutex", "unlock_readers_mutex", "read_counter")
  BY <1>6
<1>7. CASE WritePriority /\ Unlock(t, "reading", "unlock_reading", "unlock_new_readers")
  BY <1>7
<1>8. CASE WritePriority /\ Unlock(t, "new_readers", "unlock_new_readers", "read_counter")
  BY <1>8
<1>9. CASE access_counter_read(t)
  BY <1>9 DEF access_counter_read
<1>10. CASE ReadersDecrement(t)
  <2>1. /\ readers = 0 <=> At(CountedReaderPC) = {}
        /\ \A u \in At(CountedReaderPC) : readers = 1 <=> At(CountedReaderPC) = {u}
    BY ReadersMeaning
  <2>2. Owned("readers_mutex", ReadersMutexPC)'
    BY <1>10, <2>1 DEF ReadersDecrement
  <2>3. Owned("writers_mutex", WritersMutexPC)'
    BY <1>10, <2>1 DEF ReadersDecrement
  <2>4. (WritePriority => Owned("new_readers", NewReadersPC))'
    BY <1>10, <2>1 DEF ReadersDecrement
  <2>5. (~WritePriority => "new_readers" \notin held)'
    BY <1>10, <2>1 DEF ReadersDecrement
  <2>6. WritingInv'
    <3>1. CASE readers = 1
      BY <1>10, <2>1, <3>1 DEF ReadersDecrement
    <3>2. CASE readers # 1
      BY <1>10, <2>1, <3>2 DEF ReadersDecrement
    <3> QED BY <3>1, <3>2
  <2>7. ReadingInv'
    BY <1>10, <2>1 DEF ReadersDecrement
  <2> QED BY <2>2, <2>3, <2>4, <2>5, <2>6, <2>7
<1>11. CASE Unlock(t, "writing", "reader_unlock_writing", "release_readers_mutex")
  BY <1>11
<1>12. CASE Unlock(t, "readers_mutex", "release_readers_mutex", "reader_done")
  BY <1>12
<1>13. CASE WritePriority /\ WritersIncrement(t)
  <2>1. /\ writers = 0 <=> At(CountedWriterPC) = {}
        /\ \A u \in At(CountedWriterPC) : writers = 1 <=> At(CountedWriterPC) = {u}
    BY <1>13, WritersMeaning
  <2>2. Owned("readers_mutex", ReadersMutexPC)'
    BY <1>13, <2>1 DEF WritersIncrement
  <2>3. Owned("writers_mutex", WritersMutexPC)'
    BY <1>13, <2>1 DEF WritersIncrement
  <2>4. (WritePriority => Owned("new_readers", NewReadersPC))'
    BY <1>13, <2>1 DEF WritersIncrement
  <2>5. (~WritePriority => "new_readers" \notin held)'
    BY <1>13, <2>1 DEF WritersIncrement
  <2>6. WritingInv'
    BY <1>13, <2>1 DEF WritersIncrement
  <2>7. ReadingInv'
    <3>1. CASE writers = 0
      BY <1>13, <2>1, <3>1 DEF WritersIncrement
    <3>2. CASE writers # 0
      BY <1>13, <2>1, <3>2 DEF WritersIncrement
    <3> QED BY <3>1, <3>2
  <2> QED BY <2>2, <2>3, <2>4, <2>5, <2>6, <2>7
<1>14. CASE WritePriority /\ Lock(t, "reading", "writer_lock_reading", "unlock_writers_mutex")
  BY <1>14
<1>15. CASE WritePriority /\ Unlock(t, "writers_mutex", "unlock_writers_mutex", "writer_lock_writing")
  BY <1>15
<1>16. CASE Lock(t, "writing", "writer_lock_writing", "load_counter")
  BY <1>16
<1>17. CASE load_counter(t)
  BY <1>17 DEF load_counter
<1>18. CASE store_counter(t)
  BY <1>18 DEF store_counter
<1>19. CASE write_to_file(t)
  BY <1>19 DEF write_to_file
<1>20. CASE copy_counter(t)
  BY <1>20 DEF copy_counter
<1>21. CASE WritePriority /\ Unlock(t, "writing", "writer_unlock_writing", "count_writer_out")
  BY <1>21
<1>22. CASE ~WritePriority /\ Unlock(t, "writing", "writer_unlock_writing", "writer_done")
  BY <1>22
<1>23. CASE WritePriority /\ WritersDecrement(t)
  <2>1. /\ writers = 0 <=> At(CountedWriterPC) = {}
        /\ \A u \in At(CountedWriterPC) : writers = 1 <=> At(CountedWriterPC) = {u}
    BY <1>23, WritersMeaning
  <2>2. Owned("readers_mutex", ReadersMutexPC)'
    BY <1>23, <2>1 DEF WritersDecrement
  <2>3. Owned("writers_mutex", WritersMutexPC)'
    BY <1>23, <2>1 DEF WritersDecrement
  <2>4. (WritePriority => Owned("new_readers", NewReadersPC))'
    BY <1>23, <2>1 DEF WritersDecrement
  <2>5. (~WritePriority => "new_readers" \notin held)'
    BY <1>23, <2>1 DEF WritersDecrement
  <2>6. WritingInv'
    BY <1>23, <2>1 DEF WritersDecrement
  <2>7. ReadingInv'
    <3>1. CASE writers = 1
      BY <1>23, <2>1, <3>1 DEF WritersDecrement
    <3>2. CASE writers # 1
      BY <1>23, <2>1, <3>2 DEF WritersDecrement
    <3> QED BY <3>1, <3>2
  <2> QED BY <2>2, <2>3, <2>4, <2>5, <2>6, <2>7
<1>24. CASE WritePriority /\ Unlock(t, "reading", "writer_unlock_reading", "release_writers_mutex")
  BY <1>24
<1>25. CASE WritePriority /\ Unlock(t, "writers_mutex", "release_writers_mutex", "writer_done")
  BY <1>25
<1> QED
  BY <1>1, <1>2, <1>3, <1>4, <1>5, <1>6, <1>7, <1>8, <1>9, <1>10, <1>11, <1>12, <1>13,
     <1>14, <1>15, <1>16, <1>17, <1>18, <1>19, <1>20, <1>21, <1>22, <1>23, <1>24, <1>25
  DEF Access, read_wp, read_rp, write_wp, write_rp, CountIn, CountOut, access_counter_increment

\* A thread between a count and its mutex is alone.
LEMMA AccessBoundaryInv ==
  ASSUME IInv, NEW t \in Threads, Access(t)
  PROVE  BoundaryInv'
<1> USE DEF IInv, TypeOK, MutexInv, WritingInv, ReadingInv, BoundaryInv, ProcessInv,
            Lock, Unlock, Goto, lock, unlock, process, counts, disk, WritePriority, Mutexes, Owned, At, AtMostOne,
            ReadersMutexPC, WritersMutexPC, NewReadersPC, ReadingPC, WritingPC,
            CountedReaderPC, CountedWriterPC, FirstReaderPC, LastReaderPC,
            FirstWriterPC, LastWriterPC, WritePriorityPC,
            ReadersHoldWriting, WritersHoldReading
<1>1. CASE WritePriority /\ Lock(t, "new_readers", "lock_new_readers", "lock_reading")
  BY <1>1
<1>2. CASE WritePriority /\ Lock(t, "reading", "lock_reading", "count_reader_in")
  BY <1>2
<1>3. CASE ReadersIncrement(t)
  <2>1. /\ readers = 0 <=> At(CountedReaderPC) = {}
        /\ \A u \in At(CountedReaderPC) : readers = 1 <=> At(CountedReaderPC) = {u}
    BY ReadersMeaning
  <2> QED BY <1>3, <2>1 DEF ReadersIncrement
<1>4. CASE Lock(t, "writing", "reader_lock_writing", "unlock_readers_mutex")
  BY <1>4
<1>5. CASE WritePriority /\ Unlock(t, "readers_mutex", "unlock_readers_mutex", "unlock_reading")
  BY <1>5
<1>6. CASE ~WritePriority /\ Unlock(t, "readers_mutex", "unlock_readers_mutex", "read_counter")
  BY <1>6
<1>7. CASE WritePriority /\ Unlock(t, "reading", "unlock_reading", "unlock_new_readers")
  BY <1>7
<1>8. CASE WritePriority /\ Unlock(t, "new_readers", "unlock_new_readers", "read_counter")
  BY <1>8
<1>9. CASE access_counter_read(t)
  BY <1>9 DEF access_counter_read
<1>10. CASE ReadersDecrement(t)
  <2>1. /\ readers = 0 <=> At(CountedReaderPC) = {}
        /\ \A u \in At(CountedReaderPC) : readers = 1 <=> At(CountedReaderPC) = {u}
    BY ReadersMeaning
  <2> QED BY <1>10, <2>1 DEF ReadersDecrement
<1>11. CASE Unlock(t, "writing", "reader_unlock_writing", "release_readers_mutex")
  BY <1>11
<1>12. CASE Unlock(t, "readers_mutex", "release_readers_mutex", "reader_done")
  BY <1>12
<1>13. CASE WritePriority /\ WritersIncrement(t)
  <2>1. /\ writers = 0 <=> At(CountedWriterPC) = {}
        /\ \A u \in At(CountedWriterPC) : writers = 1 <=> At(CountedWriterPC) = {u}
    BY <1>13, WritersMeaning
  <2> QED BY <1>13, <2>1 DEF WritersIncrement
<1>14. CASE WritePriority /\ Lock(t, "reading", "writer_lock_reading", "unlock_writers_mutex")
  BY <1>14
<1>15. CASE WritePriority /\ Unlock(t, "writers_mutex", "unlock_writers_mutex", "writer_lock_writing")
  BY <1>15
<1>16. CASE Lock(t, "writing", "writer_lock_writing", "load_counter")
  BY <1>16
<1>17. CASE load_counter(t)
  BY <1>17 DEF load_counter
<1>18. CASE store_counter(t)
  BY <1>18 DEF store_counter
<1>19. CASE write_to_file(t)
  BY <1>19 DEF write_to_file
<1>20. CASE copy_counter(t)
  BY <1>20 DEF copy_counter
<1>21. CASE WritePriority /\ Unlock(t, "writing", "writer_unlock_writing", "count_writer_out")
  BY <1>21
<1>22. CASE ~WritePriority /\ Unlock(t, "writing", "writer_unlock_writing", "writer_done")
  BY <1>22
<1>23. CASE WritePriority /\ WritersDecrement(t)
  <2>1. /\ writers = 0 <=> At(CountedWriterPC) = {}
        /\ \A u \in At(CountedWriterPC) : writers = 1 <=> At(CountedWriterPC) = {u}
    BY <1>23, WritersMeaning
  <2> QED BY <1>23, <2>1 DEF WritersDecrement
<1>24. CASE WritePriority /\ Unlock(t, "reading", "writer_unlock_reading", "release_writers_mutex")
  BY <1>24
<1>25. CASE WritePriority /\ Unlock(t, "writers_mutex", "release_writers_mutex", "writer_done")
  BY <1>25
<1> QED
  BY <1>1, <1>2, <1>3, <1>4, <1>5, <1>6, <1>7, <1>8, <1>9, <1>10, <1>11, <1>12, <1>13,
     <1>14, <1>15, <1>16, <1>17, <1>18, <1>19, <1>20, <1>21, <1>22, <1>23, <1>24, <1>25
  DEF Access, read_wp, read_rp, write_wp, write_rp, CountIn, CountOut, access_counter_increment

\* readers and writers count the threads between their ++ and their --.
LEMMA AccessCountInv ==
  ASSUME IInv, NEW t \in Threads, Access(t)
  PROVE  CountInv'
<1> USE DEF IInv, TypeOK, Lock, Unlock, Goto, lock, unlock, process, counts, disk,
            WritePriority, Mutexes, At, CountedReaderPC, CountedWriterPC, WritingPC
<1>a. ASSUME NEW from, NEW to, Goto(t, from, to), UNCHANGED <<counts, priority>>,
             from \in CountedReaderPC <=> to \in CountedReaderPC,
             from \in CountedWriterPC <=> to \in CountedWriterPC
      PROVE  CountInv'
  <2> HIDE DEF CountedReaderPC, CountedWriterPC
  <2>1. UNCHANGED <<At(CountedReaderPC), At(CountedWriterPC), readers, writers, WritePriority>>
    BY <1>a
  <2> HIDE DEF At, WritePriority
  <2> QED BY <2>1 DEF CountInv
<1>b. ASSUME NEW from, NEW to, Goto(t, from, to), UNCHANGED <<counts, priority>>, ~WritePriority,
             from \in CountedReaderPC <=> to \in CountedReaderPC
      PROVE  CountInv'
  <2> HIDE DEF CountedReaderPC, CountedWriterPC
  <2>1. UNCHANGED <<At(CountedReaderPC), readers, writers, WritePriority>>
    BY <1>b
  <2> HIDE DEF At
  <2> QED BY <2>1, <1>b DEF CountInv
<1>1. CASE WritePriority /\ Lock(t, "new_readers", "lock_new_readers", "lock_reading")
  BY <1>1, <1>a
<1>2. CASE WritePriority /\ Lock(t, "reading", "lock_reading", "count_reader_in")
  BY <1>2, <1>a
<1>3. CASE ReadersIncrement(t)
  <2>1. /\ t \notin At(CountedReaderPC)
        /\ At(CountedReaderPC)' = At(CountedReaderPC) \cup {t}
        /\ readers' = readers + 1
    BY <1>3 DEF ReadersIncrement
  <2>2. UNCHANGED <<At(CountedWriterPC), writers, WritePriority>>
    BY <1>3 DEF ReadersIncrement
  <2> HIDE DEF At, WritePriority, CountedReaderPC, CountedWriterPC
  <2>3. Cardinality(At(CountedReaderPC))' = Cardinality(At(CountedReaderPC)) + 1
    BY <2>1, AtFinite, FS_AddElement
  <2> QED BY <1>3, <2>1, <2>2, <2>3 DEF CountInv
<1>4. CASE Lock(t, "writing", "reader_lock_writing", "unlock_readers_mutex")
  BY <1>4, <1>a
<1>5. CASE WritePriority /\ Unlock(t, "readers_mutex", "unlock_readers_mutex", "unlock_reading")
  BY <1>5, <1>a
<1>6. CASE ~WritePriority /\ Unlock(t, "readers_mutex", "unlock_readers_mutex", "read_counter")
  BY <1>6, <1>a
<1>7. CASE WritePriority /\ Unlock(t, "reading", "unlock_reading", "unlock_new_readers")
  BY <1>7, <1>a
<1>8. CASE WritePriority /\ Unlock(t, "new_readers", "unlock_new_readers", "read_counter")
  BY <1>8, <1>a
<1>9. CASE access_counter_read(t)
  BY <1>9, <1>a DEF access_counter_read
<1>10. CASE ReadersDecrement(t)
  <2>1. /\ t \in At(CountedReaderPC)
        /\ At(CountedReaderPC)' = At(CountedReaderPC) \ {t}
        /\ readers' = readers - 1
    BY <1>10 DEF ReadersDecrement
  <2>2. UNCHANGED <<At(CountedWriterPC), writers, WritePriority>>
    BY <1>10 DEF ReadersDecrement
  <2> HIDE DEF At, WritePriority, CountedReaderPC, CountedWriterPC
  <2>3. Cardinality(At(CountedReaderPC))' = Cardinality(At(CountedReaderPC)) - 1
    BY <2>1, AtFinite, FS_RemoveElement
  <2> QED BY <1>10, <2>1, <2>2, <2>3 DEF CountInv
<1>11. CASE Unlock(t, "writing", "reader_unlock_writing", "release_readers_mutex")
  BY <1>11, <1>a
<1>12. CASE Unlock(t, "readers_mutex", "release_readers_mutex", "reader_done")
  BY <1>12, <1>a
<1>13. CASE WritePriority /\ WritersIncrement(t)
  <2>1. /\ t \notin At(CountedWriterPC)
        /\ At(CountedWriterPC)' = At(CountedWriterPC) \cup {t}
        /\ writers' = writers + 1
    BY <1>13 DEF WritersIncrement
  <2>2. UNCHANGED <<At(CountedReaderPC), readers, WritePriority>>
    BY <1>13 DEF WritersIncrement
  <2> HIDE DEF At, WritePriority, CountedReaderPC, CountedWriterPC
  <2>3. Cardinality(At(CountedWriterPC))' = Cardinality(At(CountedWriterPC)) + 1
    BY <2>1, AtFinite, FS_AddElement
  <2> QED BY <1>13, <2>1, <2>2, <2>3 DEF CountInv
<1>14. CASE WritePriority /\ Lock(t, "reading", "writer_lock_reading", "unlock_writers_mutex")
  BY <1>14, <1>a
<1>15. CASE WritePriority /\ Unlock(t, "writers_mutex", "unlock_writers_mutex", "writer_lock_writing")
  BY <1>15, <1>a
<1>16. CASE Lock(t, "writing", "writer_lock_writing", "load_counter")
  BY <1>16, <1>a
<1>17. CASE load_counter(t)
  BY <1>17, <1>a DEF load_counter
<1>18. CASE store_counter(t)
  BY <1>18, <1>a DEF store_counter
<1>19. CASE write_to_file(t)
  BY <1>19, <1>a DEF write_to_file
<1>20. CASE copy_counter(t)
  BY <1>20, <1>a DEF copy_counter
<1>21. CASE WritePriority /\ Unlock(t, "writing", "writer_unlock_writing", "count_writer_out")
  BY <1>21, <1>a
<1>22. CASE ~WritePriority /\ Unlock(t, "writing", "writer_unlock_writing", "writer_done")
  BY <1>22, <1>b
<1>23. CASE WritePriority /\ WritersDecrement(t)
  <2>1. /\ t \in At(CountedWriterPC)
        /\ At(CountedWriterPC)' = At(CountedWriterPC) \ {t}
        /\ writers' = writers - 1
    BY <1>23 DEF WritersDecrement
  <2>2. UNCHANGED <<At(CountedReaderPC), readers, WritePriority>>
    BY <1>23 DEF WritersDecrement
  <2> HIDE DEF At, WritePriority, CountedReaderPC, CountedWriterPC
  <2>3. Cardinality(At(CountedWriterPC))' = Cardinality(At(CountedWriterPC)) - 1
    BY <2>1, AtFinite, FS_RemoveElement
  <2> QED BY <1>23, <2>1, <2>2, <2>3 DEF CountInv
<1>24. CASE WritePriority /\ Unlock(t, "reading", "writer_unlock_reading", "release_writers_mutex")
  BY <1>24, <1>a
<1>25. CASE WritePriority /\ Unlock(t, "writers_mutex", "release_writers_mutex", "writer_done")
  BY <1>25, <1>a
<1> QED
  BY <1>1, <1>2, <1>3, <1>4, <1>5, <1>6, <1>7, <1>8, <1>9, <1>10, <1>11, <1>12, <1>13,
     <1>14, <1>15, <1>16, <1>17, <1>18, <1>19, <1>20, <1>21, <1>22, <1>23, <1>24, <1>25
  DEF Access, read_wp, read_rp, write_wp, write_rp, CountIn, CountOut, access_counter_increment

\* Types, and what a running process implies. The decrements need the counts to be
\* positive, which CountInv gives.
LEMMA AccessTypeOK ==
  ASSUME IInv, NEW t \in Threads, Access(t)
  PROVE  TypeOK' /\ ProcessInv'
<1> USE DEF IInv, TypeOK, ProcessInv, Lock, Unlock, Goto, lock, unlock, process, counts, disk,
            Mutexes, PC, ReaderPC, WriterPC, Operations, COUNTER_INCREMENT, COUNTER_READ
<1>1. CASE WritePriority /\ Lock(t, "new_readers", "lock_new_readers", "lock_reading")
  BY <1>1
<1>2. CASE WritePriority /\ Lock(t, "reading", "lock_reading", "count_reader_in")
  BY <1>2
<1>3. CASE ReadersIncrement(t)
  BY <1>3 DEF ReadersIncrement
<1>4. CASE Lock(t, "writing", "reader_lock_writing", "unlock_readers_mutex")
  BY <1>4
<1>5. CASE WritePriority /\ Unlock(t, "readers_mutex", "unlock_readers_mutex", "unlock_reading")
  BY <1>5
<1>6. CASE ~WritePriority /\ Unlock(t, "readers_mutex", "unlock_readers_mutex", "read_counter")
  BY <1>6
<1>7. CASE WritePriority /\ Unlock(t, "reading", "unlock_reading", "unlock_new_readers")
  BY <1>7
<1>8. CASE WritePriority /\ Unlock(t, "new_readers", "unlock_new_readers", "read_counter")
  BY <1>8
<1>9. CASE access_counter_read(t)
  BY <1>9 DEF access_counter_read
<1>10. CASE ReadersDecrement(t)
  <2>1. /\ readers = 0 <=> At(CountedReaderPC) = {}
        /\ \A u \in At(CountedReaderPC) : readers = 1 <=> At(CountedReaderPC) = {u}
    BY ReadersMeaning
  <2> QED BY <1>10, <2>1 DEF ReadersDecrement, At, CountedReaderPC, CountInv, WritePriority
<1>11. CASE Unlock(t, "writing", "reader_unlock_writing", "release_readers_mutex")
  BY <1>11
<1>12. CASE Unlock(t, "readers_mutex", "release_readers_mutex", "reader_done")
  BY <1>12
<1>13. CASE WritePriority /\ WritersIncrement(t)
  BY <1>13 DEF WritersIncrement
<1>14. CASE WritePriority /\ Lock(t, "reading", "writer_lock_reading", "unlock_writers_mutex")
  BY <1>14
<1>15. CASE WritePriority /\ Unlock(t, "writers_mutex", "unlock_writers_mutex", "writer_lock_writing")
  BY <1>15
<1>16. CASE Lock(t, "writing", "writer_lock_writing", "load_counter")
  BY <1>16
<1>17. CASE load_counter(t)
  BY <1>17 DEF load_counter
<1>18. CASE store_counter(t)
  BY <1>18 DEF store_counter
<1>19. CASE write_to_file(t)
  BY <1>19 DEF write_to_file
<1>20. CASE copy_counter(t)
  BY <1>20 DEF copy_counter
<1>21. CASE WritePriority /\ Unlock(t, "writing", "writer_unlock_writing", "count_writer_out")
  BY <1>21
<1>22. CASE ~WritePriority /\ Unlock(t, "writing", "writer_unlock_writing", "writer_done")
  BY <1>22
<1>23. CASE WritePriority /\ WritersDecrement(t)
  <2>1. /\ writers = 0 <=> At(CountedWriterPC) = {}
        /\ \A u \in At(CountedWriterPC) : writers = 1 <=> At(CountedWriterPC) = {u}
    BY <1>23, WritersMeaning
  <2> QED BY <1>23, <2>1 DEF WritersDecrement, At, CountedWriterPC, CountInv, WritePriority
<1>24. CASE WritePriority /\ Unlock(t, "reading", "writer_unlock_reading", "release_writers_mutex")
  BY <1>24
<1>25. CASE WritePriority /\ Unlock(t, "writers_mutex", "release_writers_mutex", "writer_done")
  BY <1>25
<1> QED
  BY <1>1, <1>2, <1>3, <1>4, <1>5, <1>6, <1>7, <1>8, <1>9, <1>10, <1>11, <1>12, <1>13,
     <1>14, <1>15, <1>16, <1>17, <1>18, <1>19, <1>20, <1>21, <1>22, <1>23, <1>24, <1>25
  DEF Access, read_wp, read_rp, write_wp, write_rp, CountIn, CountOut, access_counter_increment

\* The counter, the file and a writer's operand agree.
LEMMA AccessDataInv ==
  ASSUME IInv, NEW t \in Threads, Access(t)
  PROVE  DataInv'
<1> USE DEF IInv, TypeOK, MutexInv, WritingInv, AtMostOne, DataInv, Committed,
            FileCountsUp, LastLine, Lock, Unlock, Goto, process, counts, disk, At
<1>a. ASSUME NEW from, NEW to, Goto(t, from, to), UNCHANGED <<main, counter, disk>>,
             {from, to} \cap {"store_counter", "write_to_file"} = {},
             \A u \in Threads \ {t} : counter_value'[u] = counter_value[u]
      PROVE  DataInv'
  BY <1>a
<1>1. CASE WritePriority /\ Lock(t, "new_readers", "lock_new_readers", "lock_reading")
  BY <1>1, <1>a
<1>2. CASE WritePriority /\ Lock(t, "reading", "lock_reading", "count_reader_in")
  BY <1>2, <1>a
<1>3. CASE ReadersIncrement(t)
  BY <1>3, <1>a DEF ReadersIncrement
<1>4. CASE Lock(t, "writing", "reader_lock_writing", "unlock_readers_mutex")
  BY <1>4, <1>a
<1>5. CASE WritePriority /\ Unlock(t, "readers_mutex", "unlock_readers_mutex", "unlock_reading")
  BY <1>5, <1>a
<1>6. CASE ~WritePriority /\ Unlock(t, "readers_mutex", "unlock_readers_mutex", "read_counter")
  BY <1>6, <1>a
<1>7. CASE WritePriority /\ Unlock(t, "reading", "unlock_reading", "unlock_new_readers")
  BY <1>7, <1>a
<1>8. CASE WritePriority /\ Unlock(t, "new_readers", "unlock_new_readers", "read_counter")
  BY <1>8, <1>a
<1>9. CASE access_counter_read(t)
  BY <1>9, <1>a DEF access_counter_read
<1>10. CASE ReadersDecrement(t)
  BY <1>10, <1>a DEF ReadersDecrement
<1>11. CASE Unlock(t, "writing", "reader_unlock_writing", "release_readers_mutex")
  BY <1>11, <1>a
<1>12. CASE Unlock(t, "readers_mutex", "release_readers_mutex", "reader_done")
  BY <1>12, <1>a
<1>13. CASE WritePriority /\ WritersIncrement(t)
  BY <1>13, <1>a DEF WritersIncrement
<1>14. CASE WritePriority /\ Lock(t, "reading", "writer_lock_reading", "unlock_writers_mutex")
  BY <1>14, <1>a
<1>15. CASE WritePriority /\ Unlock(t, "writers_mutex", "unlock_writers_mutex", "writer_lock_writing")
  BY <1>15, <1>a
<1>16. CASE Lock(t, "writing", "writer_lock_writing", "load_counter")
  BY <1>16, <1>a
<1>17. CASE load_counter(t)
  <2>1. \A u \in Threads : pc[u] \in WritingPC => u = t
    BY <1>17 DEF load_counter, WritingPC
  <2> HIDE DEF MutexInv, WritingInv
  <2> QED BY <1>17, <2>1 DEF load_counter, WritingPC
<1>18. CASE store_counter(t)
  <2>1. \A u \in Threads : pc[u] \in WritingPC => u = t
    BY <1>18 DEF store_counter, WritingPC
  <2> HIDE DEF MutexInv, WritingInv
  <2> QED BY <1>18, <2>1 DEF store_counter, WritingPC
<1>19. CASE write_to_file(t)
  <2>1. \A u \in Threads : pc[u] \in WritingPC => u = t
    BY <1>19 DEF write_to_file, WritingPC
  <2> HIDE DEF MutexInv, WritingInv
  <2> QED BY <1>19, <2>1 DEF write_to_file, WritingPC
<1>20. CASE copy_counter(t)
  BY <1>20, <1>a DEF copy_counter
<1>21. CASE WritePriority /\ Unlock(t, "writing", "writer_unlock_writing", "count_writer_out")
  BY <1>21, <1>a
<1>22. CASE ~WritePriority /\ Unlock(t, "writing", "writer_unlock_writing", "writer_done")
  BY <1>22, <1>a
<1>23. CASE WritePriority /\ WritersDecrement(t)
  BY <1>23, <1>a DEF WritersDecrement
<1>24. CASE WritePriority /\ Unlock(t, "reading", "writer_unlock_reading", "release_writers_mutex")
  BY <1>24, <1>a
<1>25. CASE WritePriority /\ Unlock(t, "writers_mutex", "release_writers_mutex", "writer_done")
  BY <1>25, <1>a
<1> QED
  BY <1>1, <1>2, <1>3, <1>4, <1>5, <1>6, <1>7, <1>8, <1>9, <1>10, <1>11, <1>12, <1>13,
     <1>14, <1>15, <1>16, <1>17, <1>18, <1>19, <1>20, <1>21, <1>22, <1>23, <1>24, <1>25
  DEF Access, read_wp, read_rp, write_wp, write_rp, CountIn, CountOut, access_counter_increment

\* What a call is about to return is on disk, and no other increment returns it.
LEMMA AccessResultInv ==
  ASSUME IInv, NEW t \in Threads, Access(t)
  PROVE  ResultInv'
<1> USE DEF IInv, TypeOK, DataInv, ResultInv, Committed, IncrementsReturnDistinct, ReturnedPC,
            WriterReturnedPC, Lock, Unlock, Goto, process, counts, disk, At
<1>a. ASSUME NEW from, NEW to, Goto(t, from, to), UNCHANGED <<counter, counter_value>>,
             {from, to} \cap {"write_to_file", "return_counter"} = {},
             from \in ReturnedPC <=> to \in ReturnedPC,
             from \in WriterReturnedPC <=> to \in WriterReturnedPC
      PROVE  ResultInv'
  BY <1>a
<1>1. CASE WritePriority /\ Lock(t, "new_readers", "lock_new_readers", "lock_reading")
  BY <1>1, <1>a
<1>2. CASE WritePriority /\ Lock(t, "reading", "lock_reading", "count_reader_in")
  BY <1>2, <1>a
<1>3. CASE ReadersIncrement(t)
  BY <1>3, <1>a DEF ReadersIncrement
<1>4. CASE Lock(t, "writing", "reader_lock_writing", "unlock_readers_mutex")
  BY <1>4, <1>a
<1>5. CASE WritePriority /\ Unlock(t, "readers_mutex", "unlock_readers_mutex", "unlock_reading")
  BY <1>5, <1>a
<1>6. CASE ~WritePriority /\ Unlock(t, "readers_mutex", "unlock_readers_mutex", "read_counter")
  BY <1>6, <1>a
<1>7. CASE WritePriority /\ Unlock(t, "reading", "unlock_reading", "unlock_new_readers")
  BY <1>7, <1>a
<1>8. CASE WritePriority /\ Unlock(t, "new_readers", "unlock_new_readers", "read_counter")
  BY <1>8, <1>a
<1>9. CASE access_counter_read(t)
  <2>1. At(WritingPC) = {}
    <3>1. t \in At(CountedReaderPC) /\ At(FirstReaderPC) = {}
      BY <1>9 DEF access_counter_read, BoundaryInv, CountedReaderPC, FirstReaderPC
    <3> QED BY <3>1 DEF MutexInv, WritingInv, ReadersHoldWriting
  <2>2. \A u \in Threads : pc[u] \notin {"write_to_file", "return_counter"}
    BY <2>1 DEF WritingPC
  <2> QED BY <1>9, <2>2 DEF access_counter_read
<1>10. CASE ReadersDecrement(t)
  BY <1>10, <1>a DEF ReadersDecrement
<1>11. CASE Unlock(t, "writing", "reader_unlock_writing", "release_readers_mutex")
  BY <1>11, <1>a
<1>12. CASE Unlock(t, "readers_mutex", "release_readers_mutex", "reader_done")
  BY <1>12, <1>a
<1>13. CASE WritePriority /\ WritersIncrement(t)
  BY <1>13, <1>a DEF WritersIncrement
<1>14. CASE WritePriority /\ Lock(t, "reading", "writer_lock_reading", "unlock_writers_mutex")
  BY <1>14, <1>a
<1>15. CASE WritePriority /\ Unlock(t, "writers_mutex", "unlock_writers_mutex", "writer_lock_writing")
  BY <1>15, <1>a
<1>16. CASE Lock(t, "writing", "writer_lock_writing", "load_counter")
  BY <1>16, <1>a
<1>17. CASE load_counter(t)
  <2>1. \A u \in Threads : pc[u] \in WritingPC => u = t
    BY <1>17 DEF load_counter, WritingPC, MutexInv, WritingInv, AtMostOne
  <2> QED BY <1>17, <2>1 DEF load_counter, WritingPC
<1>18. CASE store_counter(t)
  <2>1. \A u \in Threads : pc[u] \in WritingPC => u = t
    BY <1>18 DEF store_counter, WritingPC, MutexInv, WritingInv, AtMostOne
  <2> QED BY <1>18, <2>1 DEF store_counter, WritingPC
<1>19. CASE write_to_file(t)
  <2>1. \A u \in Threads : pc[u] \in WritingPC => u = t
    BY <1>19 DEF write_to_file, WritingPC, MutexInv, WritingInv, AtMostOne
  <2> QED BY <1>19, <2>1 DEF write_to_file, WritingPC
<1>20. CASE copy_counter(t)
  <2>1. \A u \in Threads : pc[u] \in WritingPC => u = t
    BY <1>20 DEF copy_counter, WritingPC, MutexInv, WritingInv, AtMostOne
  <2> QED BY <1>20, <2>1 DEF copy_counter, WritingPC
<1>21. CASE WritePriority /\ Unlock(t, "writing", "writer_unlock_writing", "count_writer_out")
  BY <1>21, <1>a
<1>22. CASE ~WritePriority /\ Unlock(t, "writing", "writer_unlock_writing", "writer_done")
  BY <1>22, <1>a
<1>23. CASE WritePriority /\ WritersDecrement(t)
  BY <1>23, <1>a DEF WritersDecrement
<1>24. CASE WritePriority /\ Unlock(t, "reading", "writer_unlock_reading", "release_writers_mutex")
  BY <1>24, <1>a
<1>25. CASE WritePriority /\ Unlock(t, "writers_mutex", "release_writers_mutex", "writer_done")
  BY <1>25, <1>a
<1> QED
  BY <1>1, <1>2, <1>3, <1>4, <1>5, <1>6, <1>7, <1>8, <1>9, <1>10, <1>11, <1>12, <1>13,
     <1>14, <1>15, <1>16, <1>17, <1>18, <1>19, <1>20, <1>21, <1>22, <1>23, <1>24, <1>25
  DEF Access, read_wp, read_rp, write_wp, write_rp, CountIn, CountOut, access_counter_increment

\* A step inside safe_access_counter preserves the inductive invariant.
LEMMA AccessPreservesIInv ==
  ASSUME IInv, NEW t \in Threads, Access(t)
  PROVE  IInv'
BY AccessTypeOK, AccessMutexInv, AccessCountInv, AccessBoundaryInv, AccessDataInv,
   AccessResultInv DEF IInv

-----------------------------------------------------------------------------
(***************************************************************************)
(* The other steps.                                                        *)
(***************************************************************************)
\* No thread is anywhere but at "idle".
AllIdle == \A t \in Threads : pc[t] = "idle"

\* With no call in progress, no mutex locked and both counts 0, the lock protocol is in order.
LEMMA IdleInv ==
  AllIdle /\ held = {} /\ readers = 0 /\ writers = 0 => MutexInv /\ CountInv /\ BoundaryInv
<1>1. SUFFICES ASSUME AllIdle, held = {}, readers = 0, writers = 0
               PROVE  MutexInv /\ CountInv /\ BoundaryInv
  OBVIOUS
<1>2. /\ At(ReadersMutexPC) = {} /\ At(WritersMutexPC) = {} /\ At(NewReadersPC) = {}
      /\ At(ReadingPC) = {} /\ At(WritingPC) = {} /\ At(CountedReaderPC) = {}
      /\ At(CountedWriterPC) = {} /\ At(FirstReaderPC) = {} /\ At(LastReaderPC) = {}
      /\ At(FirstWriterPC) = {} /\ At(LastWriterPC) = {} /\ At(WritePriorityPC) = {}
  BY <1>1 DEF AllIdle, At, ReadersMutexPC, WritersMutexPC, NewReadersPC, ReadingPC, WritingPC,
         CountedReaderPC, CountedWriterPC, FirstReaderPC, LastReaderPC, FirstWriterPC,
         LastWriterPC, WritePriorityPC
<1>3. MutexInv
  BY <1>1, <1>2 DEF MutexInv, WritingInv, ReadingInv, Owned, AtMostOne, ReadersHoldWriting,
              WritersHoldReading
<1>4. CountInv
  BY <1>1, <1>2, FS_EmptySet DEF CountInv
<1>5. BoundaryInv
  BY <1>2 DEF BoundaryInv
<1> QED BY <1>3, <1>4, <1>5

\* IdleInv in the next state.
LEMMA IdleInvNext ==
  (AllIdle /\ held = {} /\ readers = 0 /\ writers = 0)' => (MutexInv /\ CountInv /\ BoundaryInv)'
BY IdleInv, PTL

\* The inductive invariant holds before the process starts.
LEMMA InitIInv == Init => IInv
<1> SUFFICES ASSUME Init PROVE IInv
  OBVIOUS
<1>1. AllIdle /\ held = {} /\ readers = 0 /\ writers = 0
  BY DEF Init, AllIdle
<1>2. MutexInv /\ CountInv /\ BoundaryInv
  BY <1>1, IdleInv
<1>3. file \in Seq(Int) /\ Len(file) \in {0, 1}
  <2>1. CASE file = <<>>
    BY <2>1
  <2>2. ASSUME NEW n \in Stored, file = <<n>>
        PROVE  file \in Seq(Int) /\ Len(file) = 1
    <3>1. n \in Int
      BY FileAssumption
    <3> QED BY <2>2, <3>1
  <2> QED BY <2>1, <2>2 DEF Init
<1>4. TypeOK
  <2>1. file_exists \in BOOLEAN
    BY DEF Init
  <2>2. pc \in [Threads -> PC] /\ counter_value \in [Threads -> Int]
    BY DEF Init, PC
  <2> QED BY <1>3, <2>1, <2>2 DEF Init, TypeOK, Operations, COUNTER_INCREMENT, COUNTER_READ
<1>5. ProcessInv /\ DataInv /\ ResultInv
  BY <1>3 DEF Init, ProcessInv, DataInv, FileCountsUp, ResultInv, ReturnedPC, WriterReturnedPC,
              IncrementsReturnDistinct, At
<1> QED BY <1>2, <1>4, <1>5 DEF IInv

\* Steps outside Access leave every thread at a label that is in no set of IInv.
LEMMA CallPreservesIInv ==
  ASSUME IInv, NEW t \in Threads,
         (\E a \in Operations : safe_access_counter(t, a)) \/ return_counter(t)
  PROVE  IInv'
<1>1. PICK from, to :
        /\ Goto(t, from, to)
        /\ from \in {"idle", "reader_done", "writer_done"}
        /\ to \in {"idle", "lock_new_readers", "count_reader_in", "count_writer_in",
                   "writer_lock_writing"}
        /\ WritePriority => to \in {"idle", "lock_new_readers", "count_writer_in"}
        /\ ~WritePriority => to \in {"idle", "count_reader_in", "writer_lock_writing"}
        /\ UNCHANGED <<process, counter, counts, held, disk>>
        /\ counter_value' \in [Threads -> Int]
        /\ \A u \in Threads \ {t} : counter_value'[u] = counter_value[u]
  BY DEF IInv, TypeOK, safe_access_counter, return_counter, Goto, EntryPoint, WritePriority,
         process, counts, disk
<1> USE <1>1 DEF IInv, TypeOK, Goto, process, counts, disk, WritePriority
<1>2. TypeOK' /\ ProcessInv'
  BY DEF ProcessInv, PC, ReaderPC, WriterPC
<1>3. MutexInv'
  BY DEF MutexInv, WritingInv, ReadingInv, BoundaryInv, Owned, At, AtMostOne, ReadersMutexPC,
         WritersMutexPC, NewReadersPC, ReadingPC, WritingPC, CountedReaderPC, CountedWriterPC,
         FirstReaderPC, LastReaderPC, FirstWriterPC, LastWriterPC, ReadersHoldWriting,
         WritersHoldReading, Mutexes
<1>4. BoundaryInv'
  BY DEF BoundaryInv, At, FirstReaderPC, LastReaderPC, FirstWriterPC, LastWriterPC,
         CountedReaderPC, CountedWriterPC, WritingPC, WritePriorityPC
<1>5. CountInv'
  <2>1. UNCHANGED <<At(CountedReaderPC), readers, writers, WritePriority>>
    BY DEF At, CountedReaderPC
  <2>2. WritePriority => UNCHANGED At(CountedWriterPC)
    BY DEF At, CountedWriterPC, WritingPC
  <2> HIDE DEF WritePriority
  <2> QED BY <2>1, <2>2 DEF CountInv
<1>6. DataInv'
  BY DEF DataInv, Committed, FileCountsUp, LastLine, At
<1>7. ResultInv'
  BY DEF ResultInv, Committed, IncrementsReturnDistinct, ReturnedPC, WriterReturnedPC, At
<1> QED BY <1>2, <1>3, <1>4, <1>5, <1>6, <1>7

\* Starting, creating the file and crashing.
LEMMA ProcessPreservesIInv ==
  ASSUME IInv,
         \/ \E r \in Ratios, p \in Priorities : init_counter(r, p)
         \/ init_counter_write
         \/ Crash
  PROVE  IInv'
<1>1. (AllIdle /\ held = {} /\ readers = 0 /\ writers = 0)'
  <2>1. CASE Crash
    BY <2>1 DEF Crash, AllIdle
  <2>2. CASE main # "running" /\ UNCHANGED <<pc, held, readers, writers>>
    <3>1. AllIdle /\ held = {}
      BY <2>2 DEF IInv, ProcessInv, AllIdle
    <3>2. At(CountedReaderPC) = {} /\ At(CountedWriterPC) = {}
      BY <3>1 DEF AllIdle, At, CountedReaderPC, CountedWriterPC, WritingPC
    <3>3. readers = 0 /\ writers = 0
      BY <3>2, FS_EmptySet DEF IInv, CountInv
    <3> QED BY <2>2, <3>1, <3>3 DEF AllIdle
  <2> QED BY <2>1, <2>2 DEF init_counter, init_counter_write, counts
<1>2. MutexInv' /\ CountInv' /\ BoundaryInv'
  BY <1>1, IdleInvNext
<1>3. /\ At({"write_to_file"})' = {} /\ At({"store_counter"})' = {} /\ At(ReturnedPC)' = {}
      /\ At(WriterReturnedPC)' = {} /\ At({"return_counter"})' = {}
  BY <1>1 DEF AllIdle, At, ReturnedPC, WriterReturnedPC
<1>4. TypeOK'
  <2> USE DEF IInv, TypeOK, disk, counts, process, Operations, COUNTER_INCREMENT, COUNTER_READ
  <2>1. ASSUME NEW r \in Ratios, NEW p \in Priorities, init_counter(r, p)
        PROVE  TypeOK'
    <3>1. p \in Operations /\ r \in Int
      BY OptionsAssumption
    <3>2. file # <<>> => LastLine \in Int
      BY DEF LastLine
    <3>3. counter' \in Int
      BY <2>1, <3>2, FileAssumption DEF init_counter
    <3> QED BY <2>1, <3>1, <3>3 DEF init_counter
  <2>2. CASE init_counter_write
    BY <2>2 DEF init_counter_write
  <2>3. CASE Crash
    BY <2>3 DEF Crash, PC
  <2> QED BY <2>1, <2>2, <2>3
<1>5. ProcessInv'
  BY <1>1 DEF IInv, TypeOK, ProcessInv, AllIdle, init_counter, init_counter_write, Crash, disk
<1>6. DataInv'
  BY <1>3, FileAssumption
  DEF IInv, TypeOK, ProcessInv, DataInv, Committed, FileCountsUp, LastLine, init_counter,
      init_counter_write, Crash, disk
<1>7. ResultInv'
  BY <1>1, <1>3 DEF ResultInv, IncrementsReturnDistinct, AllIdle
<1> QED BY <1>2, <1>4, <1>5, <1>6, <1>7 DEF IInv

\* The inductive invariant is inductive.
LEMMA NextPreservesIInv == IInv /\ [Next]_vars => IInv'
<1> SUFFICES ASSUME IInv, [Next]_vars PROVE IInv'
  OBVIOUS
<1>1. CASE UNCHANGED vars
  BY <1>1 DEF vars, IInv, TypeOK, MutexInv, WritingInv, ReadingInv, CountInv, BoundaryInv,
     ProcessInv, DataInv, Committed, ResultInv, IncrementsReturnDistinct, FileCountsUp, LastLine,
     Owned, At, WritePriority, ReadersHoldWriting, WritersHoldReading
<1>2. CASE Next
  BY <1>2, AccessPreservesIInv, CallPreservesIInv, ProcessPreservesIInv DEF Next
<1> QED BY <1>1, <1>2

(***************************************************************************)
(* The inductive invariant holds in every reachable state.                 *)
(***************************************************************************)
THEOREM Invariance == Spec => []IInv
BY InitIInv, NextPreservesIInv, PTL DEF Spec
=============================================================================
