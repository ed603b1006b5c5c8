------------------------------ MODULE Counter ------------------------------
(***************************************************************************)
(* The shared counter of RP3_concurrencia (counter.c), protected by the    *)
(* Courtois/Heymans/Parnas readers-writers algorithms.  One process runs   *)
(* many server threads; each thread repeatedly calls safe_access_counter.  *)
(*                                                                         *)
(* Every pthread_mutex_lock/unlock is a step of its own.  A step that      *)
(* changes readers (writers) also locks readers_mutex (writers_mutex),     *)
(* the only mutex under which the variable is ever touched.  counter++ is  *)
(* a load and a store, and the line of the file is a third step, because   *)
(* access_counter relies on its caller for exclusion.                      *)
(*                                                                         *)
(* The file survives a Crash; everything else is lost.                     *)
(***************************************************************************)
EXTENDS Integers, Sequences, FiniteSets

CONSTANTS
  Threads,      \* the server threads
  Priorities,   \* the --priority values the server is started with
  Ratios,       \* the --ratio values the server is started with
  Stored,       \* last lines of a log file left by earlier runs
  Garbage,      \* what atoi may make of an uninitialised line buffer
  MaxCounter    \* bound: no increment is requested once counter reaches it

\* enum counter_operations
COUNTER_INCREMENT == 0
COUNTER_READ == 1
Operations == {COUNTER_INCREMENT, COUNTER_READ}

ASSUME ThreadsAssumption == IsFiniteSet(Threads)
ASSUME OptionsAssumption == Priorities \subseteq Operations /\ Ratios \subseteq Int
ASSUME FileAssumption == Stored \subseteq Int /\ Garbage \subseteq Int /\ MaxCounter \in Int

VARIABLES
  main,            \* "down", "creating" (the first write_to_file) or "running"
  counter, readers, writers, ratio, priority,   \* globals of counter.c
  held,            \* the mutexes that are locked
  file_exists, file,                            \* COUNTER_FILENAME, its lines
  pc, counter_value                             \* per thread

process == <<main, ratio, priority>>
counts == <<readers, writers>>
disk == <<file_exists, file>>
vars == <<main, counter, readers, writers, ratio, priority, held,
          file_exists, file, pc, counter_value>>

Mutexes == {"readers_mutex", "writers_mutex", "new_readers", "reading", "writing"}

LastLine == file[Len(file)]

(***************************************************************************)
(* Program counters: what the thread does next.                            *)
(***************************************************************************)
ReaderPC == {"lock_new_readers", "lock_reading", "count_reader_in", "reader_lock_writing",
             "unlock_readers_mutex", "unlock_reading", "unlock_new_readers", "read_counter",
             "count_reader_out", "reader_unlock_writing", "release_readers_mutex"}
WriterPC == {"count_writer_in", "writer_lock_reading", "unlock_writers_mutex", "writer_lock_writing",
             "load_counter", "store_counter", "write_to_file", "return_counter",
             "writer_unlock_writing", "count_writer_out", "writer_unlock_reading",
             "release_writers_mutex"}
PC == {"idle", "reader_done", "writer_done"} \cup ReaderPC \cup WriterPC

WritePriority == priority = COUNTER_INCREMENT

Init ==
  /\ main = "down"
  /\ counter = 0 /\ readers = 0 /\ writers = 0 /\ ratio = 0 /\ priority = 0
  /\ held = {}
  /\ \/ file_exists = FALSE /\ file = <<>>
     \/ file_exists = TRUE /\ \E n \in Stored : file = <<n>>
  /\ pc = [t \in Threads |-> "idle"]
  /\ counter_value = [t \in Threads |-> 0]

(***************************************************************************)
(* init_counter, called by main before any thread exists.  The test of     *)
(* ratio reads the global (0 at start), not the argument _ratio.  A file   *)
(* without lines (the process died inside the first write_to_file) leaves  *)
(* the line buffer uninitialised.                                          *)
(***************************************************************************)

\* Mutant: the file is not read at all.
init_counter_fresh(_ratio, _priority) ==
  /\ main = "down"
  /\ priority' = _priority
  /\ file_exists' = TRUE
  /\ main' = IF file_exists THEN "running" ELSE "creating"
  /\ UNCHANGED <<ratio, counter, file, counts, held, pc, counter_value>>

init_counter(_ratio, _priority) ==
  /\ main = "down"
  /\ ratio' = IF ratio > 0 THEN _ratio ELSE ratio
  /\ priority' = _priority
  /\ \/ /\ file_exists /\ file # <<>>
        /\ counter' = LastLine /\ main' = "running" /\ UNCHANGED disk
     \/ /\ file_exists /\ file = <<>>
        /\ counter' \in Garbage /\ main' = "running" /\ UNCHANGED disk
     \/ /\ ~file_exists
        /\ file_exists' = TRUE /\ main' = "creating" /\ UNCHANGED <<counter, file>>
  /\ UNCHANGED <<counts, held, pc, counter_value>>

init_counter_write ==
  /\ main = "creating"
  /\ file' = Append(file, counter)
  /\ main' = "running"
  /\ UNCHANGED <<counter, counts, ratio, priority, held, file_exists, pc, counter_value>>

(***************************************************************************)
(* Moving a thread from one label to the next, and the mutexes.            *)
(***************************************************************************)
Goto(t, from, to) ==
  /\ main = "running"
  /\ pc[t] = from
  /\ pc' = [pc EXCEPT ![t] = to]

\* Mutant: pthread_mutex_trylock with its result ignored.
lock_try(m) == held' = held \cup {m}

lock(m) == m \notin held /\ held' = held \cup {m}
unlock(m) == held' = held \ {m}

Lock(t, m, from, to) ==
  /\ Goto(t, from, to) /\ lock(m)
  /\ UNCHANGED <<process, counter, counts, disk, counter_value>>

Unlock(t, m, from, to) ==
  /\ Goto(t, from, to) /\ unlock(m)
  /\ UNCHANGED <<process, counter, counts, disk, counter_value>>

(***************************************************************************)
(* safe_access_counter: dispatch on the action and the priority.           *)
(* check_ratio and signal_ratio return at once, for ratio is 0.            *)
(***************************************************************************)
check_ratio == ratio = 0
signal_ratio == ratio = 0

EntryPoint(action) ==
  IF action = COUNTER_READ
  THEN IF WritePriority THEN "lock_new_readers" ELSE "count_reader_in"
  ELSE IF WritePriority THEN "count_writer_in" ELSE "writer_lock_writing"

safe_access_counter(t, action) ==
  /\ check_ratio
  /\ action = COUNTER_INCREMENT => counter < MaxCounter
  /\ Goto(t, "idle", EntryPoint(action))
  /\ UNCHANGED <<process, counter, counts, held, disk, counter_value>>

\* safe_access_counter returns counter_value to server_thread, which sends it.
return_counter(t) ==
  /\ signal_ratio
  /\ Goto(t, pc[t], "idle") /\ pc[t] \in {"reader_done", "writer_done"}
  /\ counter_value' = [counter_value EXCEPT ![t] = 0]
  /\ UNCHANGED <<process, counter, counts, held, disk>>

(***************************************************************************)
(* access_counter: the critical section.  counter_value[t] is the thread's *)
(* own copy of counter: the operand of counter++, then the result.         *)
(***************************************************************************)
access_counter_read(t) ==
  /\ Goto(t, "read_counter", "count_reader_out")
  /\ counter_value' = [counter_value EXCEPT ![t] = counter]
  /\ UNCHANGED <<process, counter, counts, held, disk>>

load_counter(t) ==
  /\ Goto(t, "load_counter", "store_counter")
  /\ counter_value' = [counter_value EXCEPT ![t] = counter]
  /\ UNCHANGED <<process, counter, counts, held, disk>>

store_counter(t) ==
  /\ Goto(t, "store_counter", "write_to_file")
  /\ counter' = counter_value[t] + 1
  /\ UNCHANGED <<process, counts, held, disk, counter_value>>

write_to_file(t) ==
  /\ Goto(t, "write_to_file", "return_counter")
  /\ file' = Append(file, counter)
  /\ UNCHANGED <<process, counter, counts, held, file_exists, counter_value>>

\* Mutant: "*counter_value = counter++", the value before the increment.
copy_counter_old(t) ==
  /\ Goto(t, "return_counter", "writer_unlock_writing")
  /\ counter_value' = [counter_value EXCEPT ![t] = counter - 1]
  /\ UNCHANGED <<process, counter, counts, held, disk>>

copy_counter(t) ==
  /\ Goto(t, "return_counter", "writer_unlock_writing")
  /\ counter_value' = [counter_value EXCEPT ![t] = counter]
  /\ UNCHANGED <<process, counter, counts, held, disk>>

access_counter_increment(t) ==
  load_counter(t) \/ store_counter(t) \/ write_to_file(t) \/ copy_counter(t)

(***************************************************************************)
(* Readers.  Both algorithms count a reader in and out under               *)
(* readers_mutex; the first one in locks writing, the last one out unlocks *)
(* it.  read_wp brackets the entry with new_readers and reading.           *)
(***************************************************************************)
\* Mutant: every reader, not only the first, locks writing.
ReadersIncrement_all(t) ==
  /\ Goto(t, "count_reader_in", "reader_lock_writing")
  /\ lock("readers_mutex")
  /\ readers' = readers + 1
  /\ UNCHANGED <<process, counter, writers, disk, counter_value>>

ReadersIncrement(t) ==
  /\ Goto(t, "count_reader_in", IF readers = 0 THEN "reader_lock_writing" ELSE "unlock_readers_mutex")
  /\ lock("readers_mutex")
  /\ readers' = readers + 1
  /\ UNCHANGED <<process, counter, writers, disk, counter_value>>

\* Mutant: readers is tested before it is decremented.
ReadersDecrement_late(t) ==
  /\ Goto(t, "count_reader_out", IF readers = 0 THEN "reader_unlock_writing" ELSE "release_readers_mutex")
  /\ lock("readers_mutex")
  /\ readers' = readers - 1
  /\ UNCHANGED <<process, counter, writers, disk, counter_value>>

ReadersDecrement(t) ==
  /\ Goto(t, "count_reader_out", IF readers = 1 THEN "reader_unlock_writing" ELSE "release_readers_mutex")
  /\ lock("readers_mutex")
  /\ readers' = readers - 1
  /\ UNCHANGED <<process, counter, writers, disk, counter_value>>

\* Mutant: the first reader does not lock writing.
CountIn_open(t) ==
  \/ ReadersIncrement(t)
  \/ /\ Goto(t, "reader_lock_writing", "unlock_readers_mutex")
     /\ UNCHANGED <<process, counter, counts, held, disk, counter_value>>

CountIn(t) ==
  \/ ReadersIncrement(t)
  \/ Lock(t, "writing", "reader_lock_writing", "unlock_readers_mutex")

CountOut(t) ==
  \/ ReadersDecrement(t)
  \/ Unlock(t, "writing", "reader_unlock_writing", "release_readers_mutex")
  \/ Unlock(t, "readers_mutex", "release_readers_mutex", "reader_done")

read_wp(t) ==
  /\ WritePriority
  /\ \/ Lock(t, "new_readers", "lock_new_readers", "lock_reading")
     \/ Lock(t, "reading", "lock_reading", "count_reader_in")
     \/ CountIn(t)
     \/ Unlock(t, "readers_mutex", "unlock_readers_mutex", "unlock_reading")
     \/ Unlock(t, "reading", "unlock_reading", "unlock_new_readers")
     \/ Unlock(t, "new_readers", "unlock_new_readers", "read_counter")
     \/ access_counter_read(t)
     \/ CountOut(t)

read_rp(t) ==
  /\ ~WritePriority
  /\ \/ CountIn(t)
     \/ Unlock(t, "readers_mutex", "unlock_readers_mutex", "read_counter")
     \/ access_counter_read(t)
     \/ CountOut(t)

(***************************************************************************)
(* Writers.  write_rp only takes writing.  write_wp counts itself in and   *)
(* out under writers_mutex; the first one in locks reading, which keeps    *)
(* new readers out, the last one out unlocks it.                           *)
(***************************************************************************)
\* Mutant: the first writer does not lock reading.
WritersIncrement_open(t) ==
  /\ Goto(t, "count_writer_in", "unlock_writers_mutex")
  /\ lock("writers_mutex")
  /\ writers' = writers + 1
  /\ UNCHANGED <<process, counter, readers, disk, counter_value>>

WritersIncrement(t) ==
  /\ Goto(t, "count_writer_in", IF writers = 0 THEN "writer_lock_reading" ELSE "unlock_writers_mutex")
  /\ lock("writers_mutex")
  /\ writers' = writers + 1
  /\ UNCHANGED <<process, counter, readers, disk, counter_value>>

WritersDecrement(t) ==
  /\ Goto(t, "count_writer_out", IF writers = 1 THEN "writer_unlock_reading" ELSE "release_writers_mutex")
  /\ lock("writers_mutex")
  /\ writers' = writers - 1
  /\ UNCHANGED <<process, counter, readers, disk, counter_value>>

write_wp(t) ==
  /\ WritePriority
  /\ \/ WritersIncrement(t)
     \/ Lock(t, "reading", "writer_lock_reading", "unlock_writers_mutex")
     \/ Unlock(t, "writers_mutex", "unlock_writers_mutex", "writer_lock_writing")
     \/ Lock(t, "writing", "writer_lock_writing", "load_counter")
     \/ access_counter_increment(t)
     \/ Unlock(t, "writing", "writer_unlock_writing", "count_writer_out")
     \/ WritersDecrement(t)
     \/ Unlock(t, "reading", "writer_unlock_reading", "release_writers_mutex")
     \/ Unlock(t, "writers_mutex", "release_writers_mutex", "writer_done")

\* Mutant: the writer does not wait for writing.
write_rp_open(t) ==
  /\ ~WritePriority
  /\ \/ /\ Goto(t, "writer_lock_writing", "load_counter")
        /\ UNCHANGED <<process, counter, counts, held, disk, counter_value>>
     \/ access_counter_increment(t)
     \/ Unlock(t, "writing", "writer_unlock_writing", "writer_done")

write_rp(t) ==
  /\ ~WritePriority
  /\ \/ Lock(t, "writing", "writer_lock_writing", "load_counter")
     \/ access_counter_increment(t)
     \/ Unlock(t, "writing", "writer_unlock_writing", "writer_done")

\* err(1, ...) in any thread, or a signal, ends the process: only the disk survives.
Crash ==
  /\ main # "down"
  /\ main' = "down"
  /\ counter' = 0 /\ readers' = 0 /\ writers' = 0 /\ ratio' = 0 /\ priority' = 0
  /\ held' = {}
  /\ pc' = [t \in Threads |-> "idle"]
  /\ counter_value' = [t \in Threads |-> 0]
  /\ UNCHANGED disk

Access(t) == read_rp(t) \/ read_wp(t) \/ write_rp(t) \/ write_wp(t)

Next ==
  \/ \E r \in Ratios, p \in Priorities : init_counter(r, p)
  \/ init_counter_write
  \/ \E t \in Threads :
       \/ \E a \in Operations : safe_access_counter(t, a)
       \/ Access(t)
       \/ return_counter(t)
  \/ Crash

Spec == Init /\ [][Next]_vars

(***************************************************************************)
(* A thread that can run is scheduled; nothing more is assumed of the      *)
(* mutexes (pthread mutexes are not fair) nor of the callers.              *)
(***************************************************************************)
Fairness == \A t \in Threads : WF_vars(Access(t) \/ return_counter(t))

FairSpec == Spec /\ Fairness

\* The same with mutexes that starve nobody, stronger than the code has.
FairMutexSpec == FairSpec /\ \A t \in Threads : SF_vars(Access(t))

-----------------------------------------------------------------------------
(***************************************************************************)
(* Properties.                                                             *)
(***************************************************************************)
TypeOK ==
  /\ main \in {"down", "creating", "running"}
  /\ counter \in Int /\ ratio \in Int /\ priority \in Operations
  /\ readers \in Nat /\ writers \in Nat
  /\ held \subseteq Mutexes
  /\ file_exists \in BOOLEAN /\ file \in Seq(Int)
  /\ pc \in [Threads -> PC]
  /\ counter_value \in [Threads -> Int]

ReaderInCS(t) == pc[t] = "read_counter"
WriterInCS(t) == pc[t] \in {"load_counter", "store_counter", "write_to_file", "return_counter"}

\* access_counter (counter.c:91) relies on its callers for exclusion: while a
\* writer is inside, no other thread reads or writes the counter.
MutualExclusion ==
  \A t, u \in Threads :
    WriterInCS(t) /\ t # u => ~WriterInCS(u) /\ ~ReaderInCS(u)

\* The thread waits in pthread_mutex_lock for a mutex somebody holds.
Blocked(t) ==
  \/ pc[t] = "lock_new_readers" /\ "new_readers" \in held
  \/ pc[t] \in {"lock_reading", "writer_lock_reading"} /\ "reading" \in held
  \/ pc[t] \in {"count_reader_in", "count_reader_out"} /\ "readers_mutex" \in held
  \/ pc[t] \in {"count_writer_in", "count_writer_out"} /\ "writers_mutex" \in held
  \/ pc[t] \in {"reader_lock_writing", "writer_lock_writing"} /\ "writing" \in held

Active(t) == pc[t] # "idle"

\* Five mutexes are taken in nested orders by two kinds of thread, and writing
\* and reading are unlocked by threads that never locked them: still the
\* threads inside safe_access_counter never all wait for one another.
NoCircularWait ==
  (\E t \in Threads : Active(t)) => \E t \in Threads : Active(t) /\ ~Blocked(t)

\* Once every call has returned no mutex is left locked and both counts are 0:
\* the last one out undoes what the first one in did, whoever they were.
NothingLeaks ==
  (\A t \in Threads : ~Active(t)) => held = {} /\ readers = 0 /\ writers = 0

\* No increment is lost or counted twice: the lines of the file are consecutive,
\* also across crashes and restarts.
FileCountsUp ==
  \A i \in 2..Len(file) : file[i] = file[i - 1] + 1

\* In memory and on disk the counter agrees, except between a writer's store
\* and its line: after a restart init_counter resumes where the file ends.
MemoryMatchesDisk ==
  main = "running" /\ file # <<>> /\ (\A t \in Threads : pc[t] # "write_to_file")
    => counter = LastLine

\* Nobody is told a value that a crash could take back: what a call returns is
\* on disk already.
NoResultAheadOfDisk ==
  \A t \in Threads :
    /\ pc[t] \in {"count_reader_out", "reader_done", "writer_unlock_writing", "writer_done"}
    /\ file # <<>>
    => counter_value[t] <= LastLine

\* Two increments never return the same value.
IncrementsReturnDistinct ==
  \A t, u \in Threads :
    /\ t # u
    /\ {pc[t], pc[u]} \subseteq {"writer_unlock_writing", "count_writer_out", "writer_unlock_reading",
                                 "release_writers_mutex", "writer_done"}
    => counter_value[t] # counter_value[u]

\* Writers have claimed the counter: the first of them holds reading.
Claimed ==
  priority = COUNTER_INCREMENT /\ writers > 0 /\ \A t \in Threads : pc[t] # "writer_lock_reading"

\* new_readers and reading keep "new readers [from going] past the
\* readers_mutex when there's a writer" (counter.c:10): while writers claim the
\* counter the number of readers only falls.
NoReaderOvertakesWriter == [][Claimed => readers' <= readers]_vars

\* A reader that waits for reading or writing waits for a writer that has the
\* counter, not for one that is itself still waiting.
ReaderWaitsForNoQueue ==
  \A t \in Threads :
    pc[t] \in {"lock_reading", "reader_lock_writing"} /\ Blocked(t) =>
      \E u \in Threads : WriterInCS(u) \/ pc[u] = "writer_unlock_writing"

\* read_rp gives readers that promise.
ReadersFirst == priority = COUNTER_READ => ReaderWaitsForNoQueue

\* "Initialize the counter to the value in the file" (counter.c:28): whenever no
\* writer is between its store and its line, the counter is the last line.
CounterIsTheFilesValue ==
  main = "running" /\ (\A t \in Threads : pc[t] # "write_to_file")
    => file # <<>> /\ counter = LastLine

\* Writers that have claimed the counter are not overtaken for ever: one of
\* them gets it, however many readers keep coming.
ClaimIsServed ==
  (Claimed /\ \E t \in Threads : pc[t] = "writer_lock_writing") ~>
    (main = "down" \/ \E t \in Threads : WriterInCS(t))

\* While calls are in progress some call completes.
CallsComplete ==
  (\E t \in Threads : Active(t)) ~>
    (main = "down" \/ \E t \in Threads : pc[t] \in {"reader_done", "writer_done"})

\* The condition variables exist "to avoid starvation" (counter.c:17, 21) and
\* --ratio asks for it: a writer that waits for writing gets it in the end.
NoWriterStarves ==
  \A t \in Threads :
    pc[t] = "writer_lock_writing" ~> (main = "down" \/ WriterInCS(t))

=============================================================================
