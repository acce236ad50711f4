----------------------------- MODULE ByteSource -----------------------------
(***************************************************************************)
(* What a decoder may expect of a track that comes over the network, and what *)
(* the offline cache may expect of its capture.  Both sources of              *)
(* daemon/server/src/stream are shown to implement it: RangeSource.tla and    *)
(* StreamBuffer.tla.                                                          *)
(*                                                                         *)
(* The byte at position i of the file is the number i.  A read is asked for,  *)
(* and some time later it is answered: with bytes of the file from the        *)
(* reader's position on, with an error, or with nothing at the file's end.    *)
(***************************************************************************)
EXTENDS Integers

CONSTANTS
    Size,      \* bytes of the file; a natural number, as the implementers assume
    MaxRead,   \* the longest buffer a read brings
    Failed,    \* an error for an answer
    Nothing    \* no file handed over

VARIABLES
    pos,
    call,      \* the length of the buffer of the read under way
    answer,    \* of the last read
    open,      \* somebody holds the source
    cut,       \* the body ended before the file did
    sink,      \* of the capture: "none", "wanted", "owed" or "given"
    kept       \* what it was handed

sourceVars == <<pos, call, answer, open, cut, sink, kept>>

Idle == -1
File == [i \in 0 .. Size - 1 |-> i]
Bytes(from, n) == [i \in 1 .. n |-> from + i - 1]

Init ==
    /\ pos = 0
    /\ call = Idle
    /\ answer = <<>>
    /\ open = TRUE
    /\ cut = FALSE
    /\ sink \in {"none", "wanted"}
    /\ kept = Nothing

Ask ==
    /\ open /\ call = Idle
    /\ call' \in 0 .. MaxRead
    /\ UNCHANGED <<pos, answer, open, cut, sink, kept>>

AnswerBytes ==
    \E n \in 1 .. MaxRead :
        /\ n <= call /\ pos + n <= Size
        /\ answer' = Bytes(pos, n)
        /\ pos' = pos + n
AnswerEnd ==
    /\ pos >= Size \/ call = 0 \/ cut
    /\ answer' = <<>>
    /\ UNCHANGED pos
AnswerError ==
    /\ answer' = Failed
    /\ UNCHANGED pos
Answer ==
    /\ call # Idle
    /\ AnswerBytes \/ AnswerEnd \/ AnswerError
    /\ call' = Idle
    /\ UNCHANGED <<open, cut, sink, kept>>

Seek ==
    /\ open /\ call = Idle
    /\ pos' \in Nat
    /\ UNCHANGED <<call, answer, open, cut, sink, kept>>

Drop ==
    /\ open /\ call = Idle
    /\ open' = FALSE
    /\ UNCHANGED <<pos, call, answer, cut, sink, kept>>

Cut ==
    /\ ~cut /\ cut' = TRUE
    /\ UNCHANGED <<pos, call, answer, open, sink, kept>>

\* A source that is dropped first owes nothing.
Want ==
    /\ open /\ sink = "none"
    /\ sink' = "wanted"
    /\ UNCHANGED <<pos, call, answer, open, cut, kept>>
Arrive ==
    /\ open /\ sink = "wanted"
    /\ sink' = "owed"
    /\ UNCHANGED <<pos, call, answer, open, cut, kept>>
Give ==
    /\ sink = "owed"
    /\ sink' = "given"
    /\ kept' = File
    /\ UNCHANGED <<pos, call, answer, open, cut>>

Next == Ask \/ Answer \/ Seek \/ Drop \/ Cut \/ Want \/ Arrive \/ Give

Safety == Init /\ [][Next]_sourceVars
Spec == Safety /\ WF_sourceVars(Answer) /\ WF_sourceVars(Give)
=============================================================================
