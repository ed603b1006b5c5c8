-------------------------- MODULE CounterInvariant --------------------------
(***************************************************************************)
(* The inductive invariant of Counter: who holds which mutex, what the two *)
(* counts count, and how the counter, the file and the threads' copies     *)
(* agree.                                                                  *)
(***************************************************************************)
EXTENDS Counter

At(labels) == {t \in Threads : pc[t] \in labels}

ReadersMutexPC == {"reader_lock_writing", "unlock_readers_mutex",
                   "reader_unlock_writing", "release_readers_mutex"}
WritersMutexPC == {"writer_lock_reading", "unlock_writers_mutex",
                   "writer_unlock_reading", "release_writers_mutex"}
ReadingPC == {"count_reader_in", "reader_lock_writing", "unlock_readers_mutex", "unlock_reading"}
NewReadersPC == ReadingPC \cup {"lock_reading", "unlock_new_readers"}
WritingPC == {"load_counter", "store_counter", "write_to_file", "return_counter",
              "writer_unlock_writing"}
CountedReaderPC == {"reader_lock_writing", "unlock_readers_mutex", "unlock_reading",
                    "unlock_new_readers", "read_counter", "count_reader_out"}
CountedWriterPC == WritingPC \cup {"writer_lock_reading", "unlock_writers_mutex",
                                   "writer_lock_writing", "count_writer_out"}
FirstReaderPC == {"reader_lock_writing"}
LastReaderPC == {"reader_unlock_writing"}
FirstWriterPC == {"writer_lock_reading"}
LastWriterPC == {"writer_unlock_reading"}
WritePriorityPC == {"lock_new_readers", "lock_reading", "unlock_reading", "unlock_new_readers",
                    "count_writer_in", "writer_lock_reading", "unlock_writers_mutex", "count_writer_out",
                    "writer_unlock_reading", "release_writers_mutex"}

AtMostOne(S) == \A t, u \in S : t = u

\* A mutex that one thread at a time holds, from its lock to its unlock.
Owned(m, labels) ==
  /\ m \in held <=> At(labels) # {}
  /\ AtMostOne(At(labels))

\* The readers hold writing from the first one's lock to the last one's unlock.
ReadersHoldWriting ==
  \/ At(CountedReaderPC) # {} /\ At(FirstReaderPC) = {}
  \/ At(LastReaderPC) # {}

\* The writers hold reading from the first one's lock to the last one's unlock.
WritersHoldReading ==
  /\ WritePriority
  /\ \/ At(CountedWriterPC) # {} /\ At(FirstWriterPC) = {}
     \/ At(LastWriterPC) # {}

WritingInv ==
  /\ "writing" \in held <=> ReadersHoldWriting \/ At(WritingPC) # {}
  /\ AtMostOne(At(WritingPC))
  /\ ~(ReadersHoldWriting /\ At(WritingPC) # {})

ReadingInv ==
  /\ "reading" \in held <=> WritersHoldReading \/ (WritePriority /\ At(ReadingPC) # {})
  /\ ~(WritersHoldReading /\ At(ReadingPC) # {})

MutexInv ==
  /\ Owned("readers_mutex", ReadersMutexPC)
  /\ Owned("writers_mutex", WritersMutexPC)
  /\ WritePriority => Owned("new_readers", NewReadersPC)
  /\ ~WritePriority => "new_readers" \notin held
  /\ WritingInv
  /\ ReadingInv

CountInv ==
  /\ readers = Cardinality(At(CountedReaderPC))
  /\ writers = IF WritePriority THEN Cardinality(At(CountedWriterPC)) ELSE 0

\* Whoever is between a count and the lock (unlock) that goes with it is the
\* only one counted (there is no one left).
BoundaryInv ==
  /\ \A t \in At(FirstReaderPC) : At(CountedReaderPC) = {t}
  /\ At(LastReaderPC) # {} => At(CountedReaderPC) = {}
  /\ \A t \in At(FirstWriterPC) : At(CountedWriterPC) = {t}
  /\ At(LastWriterPC) # {} => At(CountedWriterPC) = {}
  /\ ~WritePriority => At(WritePriorityPC) = {}

\* Only a running process has threads, mutexes and counts in use.
ProcessInv ==
  /\ main # "running" => held = {} /\ \A t \in Threads : pc[t] = "idle"
  /\ main = "running" => file_exists
  /\ main = "creating" => file_exists /\ file = <<>>
  /\ ~file_exists => file = <<>>

\* The counter without an increment that is not on disk yet.
Committed == IF At({"write_to_file"}) = {} THEN counter ELSE counter - 1

DataInv ==
  /\ FileCountsUp
  /\ \A t \in At({"store_counter"}) : counter_value[t] = counter
  /\ main = "running" /\ file # <<>> => LastLine = Committed

WriterReturnedPC == {"writer_unlock_writing", "count_writer_out", "writer_unlock_reading",
                     "release_writers_mutex", "writer_done"}
ReturnedPC == WriterReturnedPC \cup {"count_reader_out", "reader_unlock_writing",
                                     "release_readers_mutex", "reader_done"}

ResultInv ==
  /\ \A t \in At(ReturnedPC) : counter_value[t] <= Committed
  /\ \A t \in At({"return_counter"}), u \in At(WriterReturnedPC) : counter_value[u] < counter
  /\ IncrementsReturnDistinct

IInv ==
  TypeOK /\ MutexInv /\ CountInv /\ BoundaryInv /\ ProcessInv /\ DataInv /\ ResultInv
=============================================================================
