------------------------- MODULE CounterRefinement -------------------------
(***************************************************************************)
(* Counter implements AtomicCounter.  An increment takes effect when its   *)
(* line is in the file, a read when the reader copies the counter.         *)
(***************************************************************************)
EXTENDS CounterInvariant

PendingReader == {"lock_new_readers", "lock_reading", "count_reader_in", "reader_lock_writing",
                  "unlock_readers_mutex", "unlock_reading", "unlock_new_readers", "read_counter"}
PendingWriter == {"count_writer_in", "writer_lock_reading", "unlock_writers_mutex",
                  "writer_lock_writing", "load_counter", "store_counter", "write_to_file"}

StatusOf(label) ==
  IF label = "idle" THEN "idle"
  ELSE IF label \in PendingReader THEN "read"
  ELSE IF label \in PendingWriter THEN "increment"
  ELSE "done"

\* Between its line and "*counter_value = counter" a writer's result is still counter.
ResultOf(t) ==
  IF StatusOf(pc[t]) # "done" THEN 0
  ELSE IF pc[t] = "return_counter" THEN counter ELSE counter_value[t]

AbstractValue == IF file # <<>> THEN LastLine ELSE Committed

Status == [t \in Threads |-> StatusOf(pc[t])]
Result == [t \in Threads |-> ResultOf(t)]

Atomic == INSTANCE AtomicCounter WITH
  value <- AbstractValue,
  stored <- file # <<>>,
  status <- Status,
  result <- Result

\* safe_access_counter is "thread-safe" (counter.h:22): every call takes effect
\* atomically between its call and its return, and no increment that returned
\* is undone by a crash.
ImplementsAtomicCounter == Atomic!Spec
=============================================================================
