----------------------------- MODULE MCStreams ------------------------------
(* Both sources of a stream's bytes on small instances.  They share no        *)
(* variable: one of them moves, the other stays where it began.               *)
EXTENDS StreamBuffer

CONSTANTS Length, Chunk, Longest, MaxFailures

VARIABLES
    part,                                 \* the one that moves
    rpos, rcall, ranswer, ropen,          \* the variables of RangeSource
    pending, rwanted, rkept,
    have, data, demand, failed, cursor, failures, retrying, fill, fetching

rangeVars == <<rpos, rcall, ranswer, ropen, pending, rwanted, rkept,
               have, data, demand, failed, cursor, failures, retrying, fill, fetching>>

Range == INSTANCE RangeSource WITH
    Size <- Length, MaxRead <- Longest,
    pos <- rpos, call <- rcall, answer <- ranswer, open <- ropen, wanted <- rwanted, kept <- rkept

ASSUME RangeBounds == Range!RangeAssumption

\* The source that does not move begins in one state.
StreamsInit ==
    /\ Init /\ Range!Init
    /\ part \in {"stream", "range"}
    /\ part = "range" => ~wanted /\ cap = CHOOSE c \in Caps : TRUE
StreamsNext ==
    \/ part = "stream" /\ Next /\ UNCHANGED <<rangeVars, part>>
    \/ part = "range" /\ Range!Next /\ UNCHANGED <<vars, part>>
\* The fairness of the source that moves (FairSpec of either).
StreamsSpec ==
    /\ StreamsInit /\ [][StreamsNext]_<<vars, rangeVars, part>>
    /\ WF_vars(part = "stream" /\ (Append \/ Finish \/ Give))
    /\ WF_vars(part = "stream" /\ Polls
                 /\ UNCHANGED <<shared, download, hops, chunk, ended, wanted, kept, cap>>)
    /\ WF_rangeVars(part = "range" /\ (Range!Step \/ Range!FetchEnds \/ Range!Complete))
    /\ WF_rangeVars(part = "range" /\ Range!RetryPasses)
    /\ WF_rangeVars(part = "range" /\ Range!Look)

\* What RangeSource promises (RangeSource.tla, range_source.rs).
ServesTheFile == Range!ServesTheFile
=============================================================================
