---------------------------- MODULE StreamBuffer ----------------------------
(***************************************************************************)
(* The progressive source (daemon/server/src/stream/stream_buffer.rs): a      *)
(* download task appends what the server sends to a buffer, and a reader on    *)
(* the decoder's thread polls its flags.                                      *)
(*                                                                         *)
(* The server may redirect to playlists, refuse, send with or without a       *)
(* length, break off and stall: its client has no timeout.  The buffer holds   *)
(* the first `len` bytes of the body.  One action is what a thread does while  *)
(* it holds the lock.                                                         *)
(***************************************************************************)
EXTENDS Integers

CONSTANTS
    Size,        \* bytes of the body
    Prebuffer,   \* MIN_PREBUFFER_BYTES
    Ahead,       \* MIN_BUFFER_AHEAD
    Caps,        \* MAX_BUFFER_SIZE, where the body is shorter and where it is longer
    MaxHops,     \* of playlists
    MaxRead,     \* bound: the longest buffer a read brings
    Failed,      \* the answer of a read that failed
    None

ASSUME StreamBounds ==
    /\ Size \in Nat /\ Prebuffer \in Nat /\ Ahead \in Nat /\ Caps \subseteq Nat
    /\ MaxHops \in Nat /\ MaxRead \in Nat
    /\ None \notin {"whole", "cut", "gone", "full"}
    /\ None # [i \in 0 .. Size - 1 |-> i]

VARIABLES
    pos, call, answer, open,   \* the reader (ByteSource.tla)
    stage,                     \* what it waits for or does next
    len, done, error, total, response, prebuffered,   \* SharedState
    download,                  \* where the task is
    hops, chunk,               \* its playlists so far, and the chunk in its hand
    ended,                     \* how the body ended: "whole", "cut", "gone", "full"
    wanted, kept,              \* the sink, and what it was given
    cap                        \* of the two

reader == <<pos, call, answer, open, stage>>
shared == <<len, done, error, total, response, prebuffered>>
vars == <<pos, call, answer, open, stage, len, done, error, total, response, prebuffered,
          download, hops, chunk, ended, wanted, kept, cap>>

Idle == -1
Smaller(a, b) == IF a <= b THEN a ELSE b

Init ==
    /\ pos = 0 /\ call = Idle /\ answer = <<>> /\ open = TRUE /\ stage = "headers"
    /\ len = 0 /\ done = FALSE /\ error = FALSE /\ total = None /\ response = FALSE
    /\ prebuffered = FALSE
    /\ download = "request" /\ hops = 0 /\ chunk = 0 /\ ended = None
    /\ wanted \in BOOLEAN /\ kept = None /\ cap \in Caps

-----------------------------------------------------------------------------
(* The download task.                                                        *)

\* Mutant: an ending that only says the prebuffer is there.
OnlyPrebuffered == prebuffered' = TRUE /\ UNCHANGED done
Ending == prebuffered' = TRUE /\ done' = TRUE

\* Each hop is a request; a stream, a playlist that leads on, or a failure.
Request ==
    /\ download = "request"
    /\ \/ /\ hops <= MaxHops
          /\ hops' = hops + 1
          /\ UNCHANGED <<shared, download>>
       \/ /\ hops <= MaxHops
          /\ total' \in {None, Size}
          /\ response' = TRUE
          /\ download' = "body"
          /\ UNCHANGED <<len, done, error, prebuffered, hops>>
       \/ /\ error' = TRUE /\ Ending
          /\ download' = "over"
          /\ UNCHANGED <<len, total, response, hops>>
    /\ UNCHANGED <<reader, chunk, ended, wanted, kept, cap>>

\* response.chunk(): some bytes, the end, or an error.  Only a chunk makes the task
\* look whether anybody reads.
Receive ==
    /\ download = "body"
    /\ \/ \E n \in 1 .. Size - len :
          IF open THEN chunk' = n /\ download' = "append" /\ UNCHANGED ended
          ELSE ended' = "gone" /\ download' = "end" /\ UNCHANGED chunk
       \/ /\ len = Size
          /\ ended' = "whole" /\ download' = "end"
          /\ UNCHANGED chunk
       \/ /\ ended' = "cut" /\ download' = "end"
          /\ UNCHANGED chunk
    /\ UNCHANGED <<reader, shared, hops, wanted, kept, cap>>

Append ==
    /\ download = "append"
    /\ chunk' = 0
    /\ IF len + chunk > cap
       THEN /\ error' = TRUE /\ Ending
            /\ ended' = "full" /\ download' = "end"
            /\ UNCHANGED len
       ELSE /\ len' = len + chunk
            /\ prebuffered' = (prebuffered \/ len' >= Prebuffer
                                  \/ (total # None /\ Size <= Prebuffer))
            /\ download' = "body"
            /\ UNCHANGED <<done, error, ended>>
    /\ UNCHANGED <<reader, total, response, hops, wanted, kept, cap>>

\* Mutant: a body whose length nobody said is whole when it ends, however it does.
WholeWhenLong == len > 0 /\ total \in {None, len}
Whole == ended = "whole" /\ len > 0 /\ total \in {None, len}

Finish ==
    /\ download = "end"
    /\ Ending
    /\ download' = IF wanted /\ Whole THEN "give" ELSE "over"
    /\ UNCHANGED <<reader, len, error, total, response, hops, chunk, ended, wanted, kept, cap>>

Give ==
    /\ download = "give"
    /\ kept' = [i \in 0 .. len - 1 |-> i]
    /\ download' = "over"
    /\ UNCHANGED <<reader, shared, hops, chunk, ended, wanted, cap>>

-----------------------------------------------------------------------------
(* The reader.                                                               *)

Reads(to) == stage' = to /\ UNCHANGED <<pos, call, answer, open>>

\* wait_for_response_headers and response_error: a source that failed is dropped.
Open ==
    /\ stage = "headers"
    /\ response \/ done
    /\ stage' = "idle"
    /\ open' = (response \/ ~error)
    /\ UNCHANGED <<pos, call, answer>>

Ask ==
    /\ open /\ stage = "idle"
    /\ call' \in 0 .. MaxRead
    /\ stage' = IF pos = 0 THEN "prebuffer" ELSE "check"
    /\ UNCHANGED <<pos, answer, open>>

WaitPrebuffer ==
    /\ stage = "prebuffer"
    /\ prebuffered \/ done
    /\ Reads("check")

Buffered == IF len > pos THEN len - pos ELSE 0
Check ==
    /\ stage = "check"
    /\ Reads(IF Buffered < Ahead /\ ~done /\ ~error THEN "ahead" ELSE "read")
WaitAhead ==
    /\ stage = "ahead"
    /\ Buffered >= Ahead \/ done \/ error
    /\ Reads("read")

Return(result, to) ==
    /\ answer' = result
    /\ pos' = to
    /\ call' = Idle /\ stage' = "idle"
    /\ UNCHANGED open
Read ==
    /\ stage = "read"
    /\ \/ error /\ Return(Failed, pos)
       \/ /\ ~error /\ pos < len
          /\ LET n == Smaller(call, len - pos)
             IN  Return([i \in 1 .. n |-> pos + i - 1], pos + n)
       \/ ~error /\ pos >= len /\ done /\ Return(<<>>, pos)

Seek ==
    /\ open /\ stage = "idle"
    /\ pos' \in 0 .. Size + 1
    /\ UNCHANGED <<call, answer, open, stage>>

Drop ==
    /\ open /\ stage = "idle"
    /\ open' = FALSE
    /\ UNCHANGED <<pos, call, answer, stage>>

Polls == Open \/ WaitPrebuffer \/ Check \/ WaitAhead \/ Read
Reader ==
    /\ Polls \/ Ask \/ Seek \/ Drop
    /\ UNCHANGED <<shared, download, hops, chunk, ended, wanted, kept, cap>>

Next == Request \/ Receive \/ Append \/ Finish \/ Give \/ Reader

\* Both threads run; what the server does is nobody's promise.
Spec == Init /\ [][Next]_vars
FairSpec ==
    /\ Spec
    /\ WF_vars(Append \/ Finish \/ Give)
    /\ WF_vars(Polls /\ UNCHANGED <<shared, download, hops, chunk, ended, wanted, kept, cap>>)

-----------------------------------------------------------------------------
SinkState ==
    IF ~wanted THEN "none"
    ELSE IF kept # None THEN "given"
    ELSE IF download = "give" THEN "owed"
    ELSE "wanted"

\* A reader that is gone is noticed with the next chunk, and only there.
Source == INSTANCE ByteSource
          WITH Nothing <- None, sink <- SinkState, cut <- ended = "cut",
               open <- open \/ ended # "gone"

(* "Takes a stream's whole file once every byte has arrived; a stream dropped *)
(* or cut short first drops it uncalled" (stream_buffer.rs), and reads return  *)
(* the body's bytes at their position, as ByteSource says; but an end may also *)
(* be where the body was cut, which no read tells from the file's end.         *)
ServesTheBody == Source!Safety

(* Once the download is over, however it ended, or as much has arrived as a    *)
(* read waits for, nobody waits any longer: every ending sets every flag that  *)
(* one of the waits looks at (SharedState: "done", "response_ready",           *)
(* "prebuffer_ready").                                                        *)
Over == download \in {"end", "give", "over"}
Enough == len - pos >= Ahead /\ prebuffered
WaitsEnd ==
    /\ (stage = "headers" /\ (Over \/ response)) ~> stage # "headers"
    /\ (call # Idle /\ (Over \/ Enough)) ~> call = Idle
=============================================================================
