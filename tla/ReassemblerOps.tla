--------------------------- MODULE ReassemblerOps ---------------------------
(***************************************************************************)
(* src/src/reassembler.cc: one record per Reassembler object.  The cache_  *)
(* maps the first index of a stored substring to its last index and its    *)
(* bytes; indices are unsigned 64-bit, two of them pass through int.       *)
(***************************************************************************)
EXTENDS Stream, Widths, SequencesExt

CONSTANT IntRange   (* 2^32, the number of values of int                   *)

ASSUME IntAssumption ==
    /\ IntRange \in Nat \ {0}
    /\ IntRange % 2 = 0
    /\ Range64 % IntRange = 0

(* Memory outside the string a view was taken of. *)
Garbage == -1

NewReassembler(output) ==
    [output |-> output, cache |-> << >>, finish |-> FALSE,
     finish_set |-> Range64 - 1, thrown |-> FALSE]

(* Unsigned subtraction. *)
Minus(a, b) == (a - b) % Range64

(* uint64_t( max( int( index ), 0 ) ) *)
ThroughInt(index) ==
    LET low == index % IntRange
    IN  IF low < IntRange \div 2 THEN low ELSE 0

(* Mutant: the bytes already written are not skipped. *)
ViewFromStart(data, offset, len) == SubSeq(data, 1, len)

(* string_view( data + offset, len ), which does not check its bounds. *)
View(data, offset, len) ==
    [i \in 1 .. len |-> IF offset + i <= Len(data) THEN data[offset + i] ELSE Garbage]

(* string_view::substr clips the length; it throws when pos is too large. *)
substr(view, pos, len) ==
    SubSeq(view, pos + 1, AtMost(pos + len, Len(view)))

Put(cache, start, last, data) ==
    [k \in DOMAIN cache \cup {start} |->
        IF k = start THEN [last |-> last, data |-> data] ELSE cache[k]]

(* A pass over the keys of a map, in ascending order. *)
FoldKeys(op(_, _), base, map) ==
    MapThenFoldSet(LAMBDA key, acc : op(acc, key), base, LAMBDA key : key, Max, DOMAIN map)

LastOf(cache)  == cache[Max(DOMAIN cache)].last
IsEmpty(cache) == DOMAIN cache = {}

(* scan is the state of the loop over cache_: what is stored so far, the   *)
(* bytes not yet placed, where they start, and whether the loop broke out. *)

(* The new bytes start before the stored segment at key. *)
BeforeSegment(scan, key, last) ==
    LET trim == key - scan.write
        next == AtLeast(key, scan.cache[key].last + 1)
        gap  == Put(scan.cache, scan.write, Minus(key, 1), substr(scan.data, 0, trim))
    IN  IF last < key
          THEN [scan EXCEPT !.cache = Put(@, scan.write, last, scan.data), !.done = TRUE]
        ELSE IF last < next
          THEN [scan EXCEPT !.cache = gap, !.done = TRUE]
        ELSE [scan EXCEPT !.cache = gap,
                          !.data = substr(@, next - scan.write, last - next + 1),
                          !.thrown = @ \/ next - scan.write > Len(scan.data),
                          !.write = next,
                          !.done = next > last]

(* The new bytes start at or after the start of the stored segment. *)
AfterSegment(scan, key, last) ==
    LET next == AtLeast(scan.cache[key].last + 1, scan.write)
    IN  IF last <= scan.cache[key].last
          THEN [scan EXCEPT !.done = TRUE]
          ELSE [scan EXCEPT !.data = substr(@, next - scan.write, Minus(last, key) + 1),
                            !.thrown = @ \/ next - scan.write > Len(scan.data),
                            !.write = next,
                            !.done = next > last]

VisitSegment(scan, key, last) ==
    IF scan.done THEN scan
    ELSE IF scan.write < key THEN BeforeSegment(scan, key, last)
    ELSE AfterSegment(scan, key, last)

(* The loop over cache_. *)
VisitSegments(scan, last) ==
    FoldKeys(LAMBDA s, key : VisitSegment(s, key, last), scan, scan.cache)

(* Mutant: bytes beyond the last stored segment are dropped. *)
DropTail(scan, last) == scan

(* What lies beyond the last stored segment. *)
StoreTail(scan, last) ==
    IF IsEmpty(scan.cache) \/ scan.data = << >> \/ last <= LastOf(scan.cache)
      THEN scan
      ELSE LET start == AtLeast(scan.write, LastOf(scan.cache) + 1)
               rest  == substr(scan.data, start - scan.write, last - start + 1)
           IN  [scan EXCEPT !.cache = Put(@, start, last, rest),
                            !.thrown = @ \/ start - scan.write > Len(scan.data)]

(* Fill the gaps of cache_ with the bytes of data from write to last. *)
Store(r, data, write, last) ==
    LET scan == [cache |-> r.cache, data |-> data, write |-> write,
                 done |-> FALSE, thrown |-> r.thrown]
        visited ==
            IF IsEmpty(r.cache) /\ last >= write
              THEN [scan EXCEPT !.cache = Put(@, write, last, data)]
              ELSE VisitSegments(scan, last)
        stored == StoreTail(visited, last)
    IN  [r EXCEPT !.cache = stored.cache, !.thrown = stored.thrown]

(* Mutant: the next stored segment is taken for the next expected. *)
TakeAcrossGap(run, key) ==
    [run EXCEPT !.next = (@ + Minus(run.cache[key].last, key) + 1) % Range64,
                !.data = @ \o run.cache[key].data,
                !.cache = [k \in DOMAIN @ \ {key} |-> @[k]]]

(* Take the segment at key if it is the next one expected. *)
TakeSegment(run, key) ==
    IF run.done \/ key # run.next
      THEN [run EXCEPT !.done = TRUE]
      ELSE [run EXCEPT !.next = (@ + Minus(run.cache[key].last, key) + 1) % Range64,
                       !.data = @ \o run.cache[key].data,
                       !.cache = [k \in DOMAIN @ \ {key} |-> @[k]]]

(* The consecutive segments at the front of cache_. *)
FrontRun(r) ==
    FoldKeys(TakeSegment,
             [next |-> r.output.pushed, data |-> << >>, cache |-> r.cache, done |-> FALSE],
             r.cache)

(* next_expected, as insert counts it, has reached the end of the stream. *)
EndReached(r, next_expected) ==
    r.finish /\ IsEmpty(r.cache) /\ next_expected >= r.finish_set

(* Write the front run to the output and close it behind the last byte. *)
Flush(r) ==
    LET run  == FrontRun(r)
        rest == [r EXCEPT !.cache = run.cache, !.output = PushTo(@, run.data)]
    IN  IF EndReached(rest, run.next)
          THEN [rest EXCEPT !.output = CloseOf(@)]
          ELSE rest

(* Mutant: the first index that does not fit is taken for the last that does. *)
FirstUnavailable(r) == ThroughInt(r.output.pushed + AvailableCapacity(r.output))

LastAvailable(r) ==
    ThroughInt(Minus(r.output.pushed + AvailableCapacity(r.output), 1))

LastIndex(first_index, data) == ThroughInt(Minus(first_index + Len(data), 1))

NoteLast(r, first_index, data, is_last_substring) ==
    IF is_last_substring /\ LastIndex(first_index, data) <= LastAvailable(r)
      THEN [r EXCEPT !.finish = TRUE, !.finish_set = first_index + Len(data)]
      ELSE r

(* The substring starts beyond the window, or ends before it. *)
OutsideWindow(r, first_index, data) ==
    \/ first_index > Minus(r.output.pushed + AvailableCapacity(r.output), 1)
    \/ first_index + Len(data) < r.output.pushed

insert(r, first_index, data, is_last_substring) ==
    LET noted == NoteLast(r, first_index, data, is_last_substring)
        write == AtLeast(r.output.pushed, first_index)
        last  == AtMost(LastAvailable(r), LastIndex(first_index, data))
        len   == AtMost((Minus(last, write) + 1) % Range64, Len(data))
        trimmed_data == View(data, write - first_index, len)
    IN  IF OutsideWindow(r, first_index, data)
          THEN noted
          ELSE Flush(Store(noted, trimmed_data, write, last))

count_bytes_pending(r) ==
    FoldKeys(LAMBDA sum, key : sum + Len(r.cache[key].data), 0, r.cache)
=============================================================================
