---------------------------- MODULE RangeSource -----------------------------
(***************************************************************************)
(* The seekable source (daemon/server/src/stream/range_source.rs): a fill     *)
(* thread fetches the file chunk after chunk, a reader on the decoder's thread *)
(* asks for the chunk it is blocked on, and both meet under one lock and one   *)
(* condition variable.                                                        *)
(*                                                                         *)
(* Fetches fail, or bring less than was asked for, as often as they like.     *)
(* One action is what a thread does while it holds the lock.  The count of     *)
(* missing chunks is taken from `have`; `in_flight` and the fill's own chunk   *)
(* are one variable, as they are set and cleared together.                    *)
(***************************************************************************)
EXTENDS Integers

CONSTANTS
    Size,         \* of the file, in bytes
    Chunk,        \* CHUNK, in bytes
    MaxRead,      \* bound: the longest buffer a read brings
    MaxFailures,  \* MAX_BACKGROUND_FAILURES
    Failed,       \* the answer of a read that failed
    None          \* no chunk, no file

RangeAssumption ==
    /\ Size \in Nat
    /\ Chunk \in Nat \ {0}
    /\ MaxRead \in Nat
    /\ MaxFailures \in Nat \ {0}
    /\ None \notin Int
    /\ None # [i \in 0 .. Size - 1 |-> i]

VARIABLES
    pos, call, answer, open,   \* the reader (ByteSource.tla)
    pending,                   \* the fill thread was not started
    wanted,                    \* its job has a sink
    kept,                      \* what the sink was given
    have, data, demand, failed, cursor, failures,   \* Fill
    retrying,                  \* retry_at lies ahead
    fill,                      \* where the thread is
    fetching                   \* the chunk in flight, and whether it was demanded

reader == <<pos, call, answer, open>>
job == <<pending, wanted, kept>>
filled == <<have, data, cursor, failures, retrying>>
vars == <<pos, call, answer, open, pending, wanted, kept, have, data, demand, failed, cursor,
          failures, retrying, fill, fetching>>

Idle == -1
Smaller(a, b) == IF a <= b THEN a ELSE b

Chunks == 0 .. (Size + Chunk - 1) \div Chunk - 1
Start(chunk) == chunk * Chunk
End(chunk) == Smaller((chunk + 1) * Chunk, Size)
Here == pos \div Chunk

Missing == {chunk \in Chunks : ~have[chunk]}
Least(chunks) == CHOOSE chunk \in chunks : \A other \in chunks : chunk <= other

Init ==
    /\ pos = 0 /\ call = Idle /\ answer = <<>> /\ open = TRUE
    /\ pending = TRUE /\ wanted = FALSE /\ kept = None
    /\ have = [chunk \in Chunks |-> FALSE]
    /\ data = [i \in 0 .. Size - 1 |-> None]
    /\ demand = None /\ failed = None /\ cursor = 0 /\ failures = 0 /\ retrying = FALSE
    /\ fill = "off" /\ fetching = None

-----------------------------------------------------------------------------
(* The condition variable.                                                   *)

\* Mutant: a fill that gave up on its own is not woken.
WokenFromNap(at) == IF at = "nap" THEN "step" ELSE at
Woken(at) == IF at \in {"nap", "sleep"} THEN "step" ELSE at

\* start: the first read, or the capture, starts the thread.
Started == IF pending /\ Size # 0 THEN "step" ELSE fill

-----------------------------------------------------------------------------
(* The fill thread.                                                          *)

Fetch(chunk, demanded) ==
    /\ fetching' = [chunk |-> chunk, demanded |-> demanded]
    /\ fill' = "fetch"
    /\ demand' = None

Demanded == demand # None /\ ~have[demand]

\* The first missing chunk from the cursor on, else the first one before it.
NextMissing ==
    LET after == {chunk \in Missing : chunk >= cursor}
    IN  IF after # {} THEN Least(after) ELSE Least(Missing)

Step ==
    /\ fill = "step"
    /\ \/ /\ ~open
          /\ fill' = "over"
          /\ UNCHANGED <<demand, fetching>>
       \/ /\ open /\ Missing = {}
          /\ fill' = "complete"
          /\ UNCHANGED <<demand, fetching>>
       \/ /\ open /\ Missing # {} /\ Demanded
          /\ Fetch(demand, TRUE)
       \/ /\ open /\ Missing # {} /\ ~Demanded
          /\ failures >= MaxFailures \/ retrying
          /\ fill' = IF failures >= MaxFailures THEN "sleep" ELSE "nap"
          /\ demand' = None
          /\ UNCHANGED fetching
       \/ /\ open /\ Missing # {} /\ ~Demanded
          /\ failures < MaxFailures /\ ~retrying
          /\ Fetch(NextMissing, FALSE)
    /\ UNCHANGED <<reader, job, filled, failed>>

\* fetch_range: n bytes came, with status 206; land.
Whole(n, chunk) == n = End(chunk) - Start(chunk)
Land(chunk, n) ==
    /\ Whole(n, chunk)
    /\ data' = [i \in 0 .. Size - 1 |->
                   IF i \in Start(chunk) .. Start(chunk) + n - 1 THEN i ELSE data[i]]
    /\ have' = [have EXCEPT ![chunk] = TRUE]
    /\ cursor' = chunk + 1
    /\ failures' = 0
    /\ retrying' = FALSE
    /\ failed' = IF failed = chunk THEN None ELSE failed

\* No answer, not even to the second try, another status, or too few bytes.
LandFailed(chunk) ==
    /\ IF fetching.demanded
       THEN failed' = chunk /\ UNCHANGED failures
       ELSE failures' = failures + 1 /\ UNCHANGED failed
    /\ retrying' = TRUE
    /\ UNCHANGED <<data, have, cursor>>

FetchEnds ==
    /\ fill = "fetch"
    /\ \/ LandFailed(fetching.chunk)
       \/ \E n \in 1 .. Chunk : Land(fetching.chunk, n)
    /\ fill' = "step"
    /\ fetching' = None
    /\ UNCHANGED <<reader, job, demand>>

\* The clone of the whole file goes to the sink, if there is one.
Complete ==
    /\ fill = "complete"
    /\ kept' = IF wanted THEN data ELSE kept
    /\ fill' = "over"
    /\ UNCHANGED <<reader, pending, wanted, filled, demand, failed, fetching>>

\* RETRY_AFTER; a fill that naps wakes with it.
RetryPasses ==
    /\ retrying
    /\ retrying' = FALSE
    /\ fill' = IF fill = "nap" THEN "step" ELSE fill
    /\ UNCHANGED <<reader, job, have, data, cursor, failures, demand, failed, fetching>>

-----------------------------------------------------------------------------
(* The reader.                                                               *)

Ask ==
    /\ open /\ call = Idle
    /\ call' \in 0 .. MaxRead
    /\ IF pos < Size /\ call' # 0
       THEN pending' = FALSE /\ fill' = Started
       ELSE UNCHANGED <<pending, fill>>
    /\ UNCHANGED <<pos, answer, open, wanted, kept, filled, demand, failed, fetching>>

Return(result, to) ==
    /\ answer' = result
    /\ pos' = to
    /\ call' = Idle
    /\ UNCHANGED <<demand, fill>>

\* Each look under the lock: at once, when it is notified, or after READ_WAIT.
Look ==
    /\ call # Idle
    /\ \/ /\ pos >= Size \/ call = 0
          /\ Return(<<>>, pos)
          /\ UNCHANGED failed
       \/ /\ pos < Size /\ call # 0 /\ have[Here]
          /\ LET n == Smaller(call, End(Here) - pos)
             IN  Return([i \in 1 .. n |-> data[pos + i - 1]], pos + n)
          /\ UNCHANGED failed
       \/ /\ pos < Size /\ call # 0 /\ ~have[Here]
          /\ failed = Here
          /\ failed' = None
          /\ Return(Failed, pos)
       \/ /\ pos < Size /\ call # 0 /\ ~have[Here]
          /\ failed # Here
          /\ failed' = None
          /\ IF (fill = "fetch" /\ fetching.chunk = Here) \/ demand = Here
             THEN UNCHANGED <<demand, fill>>
             ELSE demand' = Here /\ fill' = Woken(fill)
          /\ UNCHANGED <<pos, call, answer>>
    /\ UNCHANGED <<open, job, filled, fetching>>

Seek ==
    /\ open /\ call = Idle
    /\ pos' \in 0 .. Size + 1
    /\ UNCHANGED <<call, answer, open, job, filled, demand, failed, fill, fetching>>

\* Only a job that still waits to be started takes the sink.
Capture ==
    /\ open /\ call = Idle
    /\ wanted' = (wanted \/ pending)
    /\ pending' = FALSE
    /\ fill' = Started
    /\ UNCHANGED <<reader, kept, filled, demand, failed, fetching>>

Drop ==
    /\ open /\ call = Idle
    /\ open' = FALSE
    /\ fill' = Woken(fill)
    /\ UNCHANGED <<pos, call, answer, job, filled, demand, failed, fetching>>

Next ==
    \/ Step \/ FetchEnds \/ Complete \/ RetryPasses
    \/ Ask \/ Look \/ Seek \/ Capture \/ Drop

\* Both threads run, a request ends by its timeout, and time passes.
Spec == Init /\ [][Next]_vars
FairSpec ==
    /\ Spec
    /\ WF_vars(Step \/ FetchEnds \/ Complete) /\ WF_vars(RetryPasses) /\ WF_vars(Look)

-----------------------------------------------------------------------------
SinkState ==
    IF ~wanted THEN "none"
    ELSE IF kept # None THEN "given"
    ELSE IF fill = "complete" THEN "owed"
    ELSE "wanted"

Source == INSTANCE ByteSource WITH Nothing <- None, cut <- FALSE, sink <- SinkState

(* "A seekable byte source over HTTP Range requests" that hands "the whole    *)
(* file to `sink` once every chunk has arrived; a source dropped first never  *)
(* calls it" (range_source.rs): whatever the fetches bring, a read returns the *)
(* file's own bytes at its position, an end only at the file's end, and        *)
(* always returns; and the sink gets every byte, once.                        *)
ServesBytes == Source!Safety
ServesTheFile == Source!Spec
=============================================================================
