------------------------- MODULE FileDescriptorOps -------------------------
(***************************************************************************)
(* src/util/file_descriptor.cc and socket.cc: one record per FDWrapper.    *)
(* A stream of Stream.tla stands for what the kernel holds of one pipe, or *)
(* of one direction of a socket: closed when no more will be written to    *)
(* it, in error when its reader is gone or has reset it.                   *)
(***************************************************************************)
EXTENDS Stream

(* Reads and writes are counted from the start of a callback on, which is  *)
(* all an event loop compares.                                             *)
NewDescriptor == [eof_ |-> FALSE, closed_ |-> FALSE, read_count_ |-> 0, write_count_ |-> 0]

register_read(fd)  == [fd EXCEPT !.read_count_ = @ + 1]
register_write(fd) == [fd EXCEPT !.write_count_ = @ + 1]

close(fd) == [fd EXCEPT !.eof_ = TRUE, !.closed_ = TRUE]

(* Nothing is there yet, and more may come: EAGAIN. *)
TryAgain(kernel) == kernel.queue = << >> /\ ~kernel.closed /\ ~kernel.error

(* A reset shows when nothing is left to read. *)
read(fd, kernel, size) ==
    LET data == SubSeq(kernel.queue, 1, AtMost(size, Len(kernel.queue)))
    IN  [data |-> data, kernel |-> PopFrom(kernel, Len(data)),
         failed |-> data = << >> /\ kernel.error,
         fd |-> IF TryAgain(kernel) THEN fd
                ELSE [register_read(fd) EXCEPT !.eof_ = @ \/ data = << >>]]

(* The end of the kernel that would have taken the bytes is gone. *)
BrokenPipe(kernel) == kernel.error \/ kernel.closed

(* Mutant: a write is not counted. *)
writeUncounted(fd, kernel, data) ==
    LET n == IF BrokenPipe(kernel) THEN 0 ELSE AtMost(AvailableCapacity(kernel), Len(data))
    IN  [kernel |-> PushTo(kernel, SubSeq(data, 1, n)), written |-> n, fd |-> fd,
         failed |-> n = 0 /\ data # << >>]

(* A broken pipe throws, and so does a write of nothing. *)
write(fd, kernel, data) ==
    LET n == IF BrokenPipe(kernel) THEN 0 ELSE AtMost(AvailableCapacity(kernel), Len(data))
    IN  [kernel |-> PushTo(kernel, SubSeq(data, 1, n)), written |-> n,
         fd |-> register_write(fd), failed |-> n = 0 /\ data # << >>]
=============================================================================
