----------------------- MODULE StreamSourcesTheorems ------------------------
(***************************************************************************)
(* Both sources implement ByteSource (its safety part): the progressive one   *)
(* (StreamBuffer), for every body, buffer size and cap, and the seekable one   *)
(* (RangeSource, the second half), for every file and chunk size, every        *)
(* buffer and every number of failures.                                       *)
(*                                                                         *)
(* What has to be shown of the first is what its flags mean: `done` without    *)
(* an error says that the body is whole or was cut, as long as anybody reads   *)
(* (DoneMeans); and a sink is owed the whole body or nothing (SinkMeans).      *)
(***************************************************************************)
EXTENDS StreamBuffer, TLAPS

Types ==
    /\ pos \in Nat
    /\ call \in {Idle} \cup 0 .. MaxRead
    /\ len \in 0 .. Size
    /\ open \in BOOLEAN /\ wanted \in BOOLEAN
    /\ download = "append" => chunk \in 1 .. Size - len

ReaderMeans ==
    /\ call # Idle \/ stage = "headers" => open
    /\ stage \in {"headers", "idle"} <=> call = Idle

DoneMeans ==
    /\ download \in {"request", "body", "append"} => ~done /\ ~error /\ ended = None
    /\ done /\ ~error => ended \in {"whole", "cut", "gone"}
    /\ download \in {"end", "give"} => ended \in {"whole", "cut", "gone", "full"}
    /\ ended = "whole" => len = Size
    /\ ended = "gone" => ~open
    /\ ended = "full" => error

SinkMeans ==
    /\ download = "give" => ended = "whole" /\ wanted
    /\ kept # None => wanted /\ download = "over"

IInv == Types /\ ReaderMeans /\ DoneMeans /\ SinkMeans

task == <<download, hops, chunk, ended, wanted, kept, cap>>

-----------------------------------------------------------------------------
(* The invariant.                                                            *)

LEMMA InitInv ==
    Init => IInv
<1> SUFFICES ASSUME Init
             PROVE  IInv
  OBVIOUS
<1>1. Types
  BY StreamBounds DEF Init, Types
<1>2. ReaderMeans
  BY DEF Init, ReaderMeans, Idle
<1>3. DoneMeans
  BY StreamBounds DEF Init, DoneMeans
<1>4. SinkMeans
  BY DEF Init, SinkMeans
<1> QED
  BY <1>1, <1>2, <1>3, <1>4 DEF IInv

LEMMA TaskKeeps ==
    ASSUME IInv, Request \/ Receive \/ Append \/ Finish \/ Give
    PROVE  IInv'
<1> USE StreamBounds DEF IInv
<1>1. UNCHANGED reader /\ UNCHANGED wanted
  BY DEF Request, Receive, Append, Finish, Give
<1>2. ReaderMeans'
  BY <1>1 DEF ReaderMeans, reader
<1>3. Types'
  <2>1. CASE Request
    <3>1. UNCHANGED len /\ download' # "append"
      BY <2>1 DEF Request, shared
    <3> QED
      BY <1>1, <3>1 DEF Types, reader
  <2>2. CASE Receive
    <3>1. UNCHANGED <<pos, call, open,
        len>> /\ (download' = "append" => chunk' \in 1 .. Size - len)
      BY <1>1, <2>2 DEF Receive, reader, shared
    <3> QED
      BY <1>1, <3>1 DEF Types
  <2>3. CASE Append
    <3>1. len' \in 0 .. Size /\ download' # "append"
      <4>1. chunk \in 1 .. Size - len /\ len \in 0 .. Size
        BY <2>3 DEF Append, Types
      <4> QED
        BY <2>3, <4>1 DEF Append
    <3> QED
      BY <1>1, <3>1 DEF Types, reader
  <2>4. CASE Finish \/ Give
    BY <1>1, <2>4 DEF Finish, Give, Types, reader, shared
  <2> QED
    BY <2>1, <2>2, <2>3, <2>4
<1>4. DoneMeans'
  <2>1. CASE Request
    <3>1. /\ ~done /\ ~error /\ ended = None /\ UNCHANGED ended
          /\ \/ UNCHANGED <<done, error>> /\ download' \in {"request", "body"}
             \/ error' /\ download' = "over"
      BY <2>1 DEF Request, DoneMeans, shared
    <3> QED
      BY <3>1, StreamBounds DEF DoneMeans
  <2>2. CASE Receive
    <3>1. ended' = "gone" => ~open
      BY <2>2 DEF Receive, DoneMeans
    <3>2. ended' = "whole" => len = Size
      BY <2>2 DEF Receive, DoneMeans
    <3>3. /\ UNCHANGED <<open, len, done, error>> /\ ~done /\ ~error
          /\ ended = None
      BY <1>1, <2>2 DEF Receive, DoneMeans, reader, shared
    <3>4. \/ download' = "append" /\ ended' = None
          \/ download' = "end" /\ ended' \in {"gone", "whole", "cut"}
      BY <2>2, <3>3 DEF Receive
    <3> QED
      BY <3>1, <3>2, <3>3, <3>4 DEF DoneMeans
  <2>3. CASE Append
    <3>1. ~done /\ ~error /\ ended = None /\ UNCHANGED open
      BY <1>1, <2>3 DEF Append, DoneMeans, reader
    <3>2. CASE len + chunk > cap
      <4>1. done' /\ error' /\ ended' = "full" /\ download' = "end"
        BY <2>3, <3>2 DEF Append, Ending
      <4> QED
        BY <4>1 DEF DoneMeans
    <3>3. CASE ~(len + chunk > cap)
      <4>1. UNCHANGED <<done, error, ended>> /\ download' = "body"
        BY <2>3, <3>3 DEF Append
      <4> QED
        BY <3>1, <4>1 DEF DoneMeans
    <3> QED
      BY <3>2, <3>3
  <2>4. CASE Finish
    BY <1>1, <2>4 DEF Finish, Ending, DoneMeans, reader
  <2>5. CASE Give
    BY <1>1, <2>5 DEF Give, DoneMeans, reader, shared
  <2> QED
    BY <2>1, <2>2, <2>3, <2>4, <2>5
<1>5. SinkMeans'
  BY <1>1 DEF Request, Receive, Append, Finish, Give, Whole, SinkMeans
<1> QED
  BY <1>2, <1>3, <1>4, <1>5

LEMMA ReaderKeeps ==
    ASSUME IInv, Reader
    PROVE  IInv'
<1> USE StreamBounds DEF IInv
<1>1. UNCHANGED <<shared, task>>
  BY DEF Reader, task
<1>2. /\ pos' \in Nat
      /\ call' \in {Idle} \cup 0 .. MaxRead
      /\ open' \in BOOLEAN
      /\ open' => open
  <2>1. CASE Open
    <3>1. open /\ UNCHANGED <<pos, call>> /\ open' = (response \/ ~error)
      BY <2>1 DEF Open, ReaderMeans
    <3> QED
      BY <3>1 DEF Types
  <2>2. CASE WaitPrebuffer \/ Check \/ WaitAhead
    BY <2>2 DEF WaitPrebuffer, Check, WaitAhead, Reads, Types
  <2>3. CASE Read
    <3>1. call \in Nat
      BY <2>3 DEF Read, ReaderMeans, Types
    <3>2. CASE pos < len /\ Return([i \in 1 .. Smaller(call, len - pos) |-> pos + i - 1],
                                   pos + Smaller(call, len - pos))
      BY <3>1, <3>2 DEF Return, Smaller, Types
    <3>3. CASE Return(Failed, pos) \/ Return(<<>>, pos)
      BY <3>3 DEF Return, Types
    <3> QED
      BY <2>3, <3>2, <3>3 DEF Read
  <2>4. CASE Ask
    BY <2>4 DEF Ask, Types
  <2>5. CASE Seek
    <3>1. pos' \in Nat
      BY <2>5 DEF Seek
    <3> QED
      BY <2>5, <3>1 DEF Seek, Types
  <2>6. CASE Drop
    BY <2>6 DEF Drop, Types
  <2> QED
    BY <2>1, <2>2, <2>3, <2>4, <2>5, <2>6 DEF Reader, Polls
<1>3. Types'
  BY <1>1, <1>2 DEF Types, shared, task
<1>4. ReaderMeans'
  <2>1. CASE Polls
    BY <2>1
        DEF Polls, Open, WaitPrebuffer, Check, WaitAhead, Read, Reads, Return, ReaderMeans
  <2>2. CASE Ask \/ Seek \/ Drop
    BY <2>2 DEF Ask, Seek, Drop, Idle, ReaderMeans
  <2> QED
    BY <2>1, <2>2 DEF Reader
<1>5. DoneMeans'
  BY <1>1, <1>2 DEF DoneMeans, shared, task
<1>6. SinkMeans'
  BY <1>1 DEF SinkMeans, task
<1> QED
  BY <1>3, <1>4, <1>5, <1>6

LEMMA InvKept ==
    ASSUME IInv, [Next]_vars
    PROVE  IInv'
<1>1. CASE UNCHANGED vars
  BY <1>1 DEF vars, IInv, Types, ReaderMeans, DoneMeans, SinkMeans
<1> QED
  BY <1>1, TaskKeeps, ReaderKeeps DEF Next

-----------------------------------------------------------------------------
(* The refinement.                                                           *)

LEMMA ReadAnswers ==
    ASSUME IInv, Read, UNCHANGED <<shared, task>>
    PROVE  Source!Next
<1> USE StreamBounds DEF IInv
<1>1. /\ call # Idle /\ call \in Nat /\ call <= MaxRead
      /\ pos \in Nat /\ len \in Nat /\ len <= Size
  BY DEF Read, ReaderMeans, Types
<1>2. /\ UNCHANGED <<open, ended, wanted, kept, download>>
      /\ call' = Idle
  BY DEF Read, Return, task
<1>3. UNCHANGED <<SinkState, open \/ ended # "gone", ended = "cut">>
  BY <1>2 DEF SinkState
<1>4. SUFFICES Source!AnswerBytes \/ Source!AnswerEnd \/ Source!AnswerError
  BY <1>1, <1>2, <1>3 DEF Source!Next, Source!Answer, Source!Idle, Idle
<1>5. CASE Return(Failed, pos)
  BY <1>5 DEF Return, Source!AnswerError
<1>6. CASE ~error /\ pos >= len /\ done /\ Return(<<>>, pos)
  <2>1. open /\ ended # "gone"
    BY <1>1 DEF ReaderMeans, DoneMeans
  <2>2. ended = "whole" \/ ended = "cut"
    BY <1>6, <2>1 DEF DoneMeans
  <2>3. pos >= Size \/ ended = "cut"
    BY <1>6, <2>2 DEF DoneMeans
  <2> QED
    BY <1>6, <2>3 DEF Return, Source!AnswerEnd
<1>7. CASE pos < len /\ Return([i \in 1 .. Smaller(call, len - pos) |-> pos + i - 1],
                               pos + Smaller(call, len - pos))
  <2>1. CASE call = 0
    <3>1. Smaller(call, len - pos) = 0
      BY <1>1, <1>7, <2>1 DEF Smaller
    <3>2. answer' = [i \in 1 .. 0 |-> pos + i - 1] /\ pos' = pos
      BY <1>1, <1>7, <3>1 DEF Return
    <3>3. answer' = <<>>
      BY <3>2
    <3> QED
      BY <2>1, <3>2, <3>3 DEF Source!AnswerEnd
  <2>2. CASE call # 0
    <3> DEFINE n == Smaller(call, len - pos)
    <3>1. n \in 1 .. MaxRead /\ n <= call /\ pos + n <= Size
      BY <1>1, <1>7, <2>2 DEF Smaller
    <3>2. answer' = Source!Bytes(pos, n) /\ pos' = pos + n
      BY <1>7 DEF Return, Source!Bytes
    <3> HIDE DEF n
    <3> QED
      BY <3>1, <3>2 DEF Source!AnswerBytes
  <2> QED
    BY <2>1, <2>2
<1> QED
  BY <1>5, <1>6, <1>7 DEF Read

LEMMA ReaderRefines ==
    ASSUME IInv, Reader
    PROVE  [Source!Next]_Source!sourceVars
<1>1. UNCHANGED <<shared, task>>
  BY DEF Reader, task
<1>2. UNCHANGED SinkState /\ UNCHANGED <<ended, kept>>
  BY <1>1 DEF SinkState, task
<1>3. CASE Open
  <2>1. UNCHANGED <<pos, call, answer>>
    BY <1>3 DEF Open
  <2>2. ended # "gone"
    BY <1>3 DEF Open, IInv, ReaderMeans, DoneMeans
  <2> QED
    BY <1>2, <2>1, <2>2 DEF Source!sourceVars
<1>4. CASE WaitPrebuffer \/ Check \/ WaitAhead
  BY <1>2, <1>4 DEF WaitPrebuffer, Check, WaitAhead, Reads, Source!sourceVars
<1>5. CASE Read
  BY <1>1, <1>5, ReadAnswers
<1>6. CASE Ask
  <2>1. call = Idle
    BY <1>6 DEF Ask, IInv, ReaderMeans
  <2>2. /\ open /\ call' \in 0 .. MaxRead
        /\ UNCHANGED <<pos, answer, open>>
    BY <1>6 DEF Ask
  <2> QED
    BY <1>2, <2>1, <2>2 DEF Source!Next, Source!Ask, Source!Idle, Idle
<1>7. CASE Seek
  <2>1. call = Idle
    BY <1>7 DEF Seek, IInv, ReaderMeans
  <2>2. pos' \in Nat
    BY <1>7, StreamBounds DEF Seek
  <2>3. open /\ UNCHANGED <<call, answer, open>>
    BY <1>7 DEF Seek
  <2> QED
    BY <1>2, <2>1, <2>2, <2>3 DEF Source!Next, Source!Seek, Source!Idle, Idle
<1>8. CASE Drop
  <2>1. ended # "gone" /\ UNCHANGED <<pos, call, answer>>
    BY <1>8 DEF Drop, IInv, DoneMeans
  <2> QED
    BY <1>2, <2>1 DEF Source!sourceVars
<1> QED
  BY <1>3, <1>4, <1>5, <1>6, <1>7, <1>8 DEF Reader, Polls

LEMMA TaskRefines ==
    ASSUME IInv, Request \/ Receive \/ Append \/ Finish \/ Give
    PROVE  [Source!Next]_Source!sourceVars
<1> USE StreamBounds DEF IInv
<1>1. UNCHANGED <<pos, call, answer, open, wanted>>
  BY DEF Request, Receive, Append, Finish, Give, reader
<1>2. CASE Request
  BY <1>1, <1>2 DEF Request, Source!sourceVars, SinkState
<1>3. CASE Receive
  <2>1. UNCHANGED SinkState /\ UNCHANGED kept /\ ended = None
    BY <1>3 DEF Receive, SinkState, DoneMeans
  <2>2. CASE ended' = "gone"
    <3>1. ~open
      BY <1>3, <2>1, <2>2 DEF Receive
    <3>2. call = Idle
      BY <3>1 DEF ReaderMeans
    <3> QED
      BY <1>1, <2>1, <2>2, <3>1, <3>2 DEF Source!Next, Source!Drop, Source!Idle, Idle
  <2>3. CASE ended' = "cut"
    BY <1>1, <2>1, <2>3 DEF Source!Next, Source!Cut
  <2>4. CASE ended' \notin {"gone", "cut"}
    BY <1>1, <2>1, <2>4 DEF Source!sourceVars
  <2> QED
    BY <2>2, <2>3, <2>4
<1>4. CASE Append
  <2>1. UNCHANGED SinkState /\ UNCHANGED kept
    BY <1>4 DEF Append, SinkState
  <2>2. ended = None /\ ended' \in {None, "full"}
    BY <1>4 DEF Append, DoneMeans
  <2> QED
    BY <1>1, <2>1, <2>2 DEF Source!sourceVars
<1>5. CASE Finish
  <2>1. UNCHANGED <<kept, ended>> /\ download = "end" /\ kept = None
    BY <1>5 DEF Finish, SinkMeans
  <2>2. CASE wanted /\ Whole
    <3>1. SinkState = "wanted" /\ SinkState' = "owed"
      BY <1>1, <1>5, <2>1, <2>2 DEF Finish, SinkState
    <3>2. ended # "gone"
      BY <2>2 DEF Whole
    <3> QED
      BY <1>1, <2>1, <3>1, <3>2 DEF Source!Next, Source!Arrive
  <2>3. CASE ~(wanted /\ Whole)
    BY <1>1, <1>5, <2>1, <2>3 DEF Finish, Source!sourceVars, SinkState
  <2> QED
    BY <2>2, <2>3
<1>6. CASE Give
  <2>1. wanted /\ kept = None /\ len = Size /\ download = "give"
    BY <1>6 DEF Give, SinkMeans, DoneMeans
  <2>2. kept' = Source!File /\ UNCHANGED ended
    BY <1>6, <2>1 DEF Give, Source!File
  <2>3. kept' # None
    BY <2>2 DEF Source!File
  <2>4. SinkState = "owed" /\ SinkState' = "given"
    BY <1>1, <2>1, <2>3 DEF SinkState
  <2> QED
    BY <1>1, <2>2, <2>4 DEF Source!Next, Source!Give
<1> QED
  BY <1>2, <1>3, <1>4, <1>5, <1>6

(* The progressive source (stream_buffer.rs) implements what a decoder and the *)
(* offline cache expect of a stream, but for the end of a body that was cut.   *)
THEOREM StreamBufferServes ==
    Spec => ServesTheBody
<1>1. Init => Source!Init
  BY StreamBounds DEF Init, Source!Init, Source!Idle, Idle, SinkState
<1>2. IInv /\ [Next]_vars => [Source!Next]_Source!sourceVars
  <2>1. UNCHANGED vars => UNCHANGED Source!sourceVars
    BY DEF vars, Source!sourceVars, SinkState
  <2> QED
    BY <2>1, TaskRefines, ReaderRefines DEF Next
<1>3. Init => IInv
  BY InitInv
<1>4. IInv /\ [Next]_vars => IInv'
  BY InvKept
<1> QED
  BY <1>1, <1>2, <1>3, <1>4, PTL DEF Spec, ServesTheBody, Source!Safety

-----------------------------------------------------------------------------
(* The seekable source.                                                      *)
(*                                                                         *)
(* Its reader, its sink and its file are those of above; the rest of its      *)
(* state and constants is declared here, and what RangeSource assumes of       *)
(* them is Chunked.  The refinement needs two facts of the state: a chunk     *)
(* that is had holds the file's bytes (HadIsRight), and the thread is done     *)
(* only with every chunk (JobIsWhole).  The rest is arithmetic: a position     *)
(* lies in its chunk.                                                         *)

CONSTANTS Chunk, MaxFailures
VARIABLES pending, have, data, demand, failed, cursor, failures, retrying, fill, fetching

Range == INSTANCE RangeSource

Chunked ==
    /\ Size \in Nat /\ Chunk \in Nat \ {0} /\ MaxRead \in Nat /\ MaxFailures \in Nat \ {0}
    /\ None \notin Int /\ None # [i \in 0 .. Size - 1 |-> i]

USE DEF Chunked

RangeTypes ==
    /\ pos \in Nat
    /\ call \in {Range!Idle} \cup 0 .. MaxRead
    /\ open \in BOOLEAN /\ pending \in BOOLEAN /\ wanted \in BOOLEAN
    /\ have \in [Range!Chunks -> BOOLEAN]
    /\ data \in [0 .. Size - 1 -> Int \cup {None}]
    /\ fill \in {"off", "step", "nap", "sleep", "fetch", "complete", "over"}

HadIsRight ==
    \A c \in Range!Chunks : have[c] =>
          \A i \in Range!Start(c) .. Range!End(c) - 1 : data[i] = i

JobIsWhole ==
    /\ pending => fill = "off" /\ ~wanted /\ kept = None
    /\ fill = "complete" => \A c \in Range!Chunks : have[c]
    /\ kept # None => wanted /\ fill = "over"

RangeInv == RangeTypes /\ HadIsRight /\ JobIsWhole

-----------------------------------------------------------------------------
(* Where a position lies.                                                    *)

LEMMA PositionInChunk ==
    ASSUME Chunked, NEW i \in Nat, i < Size
    PROVE  /\ i \div Chunk \in Range!Chunks
           /\ Range!Start(i \div Chunk) <= i
           /\ i < Range!End(i \div Chunk)
<1>1. i \div Chunk \in Nat
  OBVIOUS
<1>2. (i \div Chunk) * Chunk <= i
  OBVIOUS
<1>3. i < (i \div Chunk + 1) * Chunk
  OBVIOUS
<1>4. i \div Chunk <= (Size + Chunk - 1) \div Chunk - 1
  <2>1. i + Chunk <= Size + Chunk - 1
    OBVIOUS
  <2>2. (i + Chunk) \div Chunk = i \div Chunk + 1
    OBVIOUS
  <2>3. (i + Chunk) \div Chunk <= (Size + Chunk - 1) \div Chunk
    BY <2>1
  <2>4. (Size + Chunk - 1) \div Chunk \in Int
    OBVIOUS
  <2> QED
    BY <1>1, <2>2, <2>3, <2>4
<1>5. i \div Chunk \in Range!Chunks
  BY <1>1, <1>4 DEF Range!Chunks
<1>6. Range!Start(i \div Chunk) <= i
  BY <1>2 DEF Range!Start
<1>7. i < Range!End(i \div Chunk)
  BY <1>3 DEF Range!End, Range!Smaller
<1> QED
  BY <1>5, <1>6, <1>7

LEMMA ExtentTypes ==
    ASSUME Chunked, NEW c \in Range!Chunks
    PROVE  /\ Range!Start(c) \in Nat /\ Range!End(c) \in Int
           /\ Range!End(c) <= Size
<1>1. c \in Nat /\ Size \in Nat /\ Chunk \in Nat
  BY DEF Range!Chunks
<1>2. c * Chunk \in Nat /\ (c + 1) * Chunk \in Nat
  BY <1>1
<1> QED
  BY <1>1, <1>2 DEF Range!Start, Range!End, Range!Smaller

\* With every chunk had, the data is the file.
LEMMA AllHadIsFile ==
    ASSUME Chunked, RangeInv, \A c \in Range!Chunks : have[c]
    PROVE  data = Range!Source!File
<1>1. ASSUME NEW i \in 0 .. Size - 1
      PROVE  data[i] = i
  <2>1. /\ i \div Chunk \in Range!Chunks
        /\ Range!Start(i \div Chunk) <= i /\ i < Range!End(i \div Chunk)
    BY PositionInChunk
  <2>2. i \in Range!Start(i \div Chunk) .. Range!End(i \div Chunk) - 1
    BY <2>1, ExtentTypes
  <2> QED
    BY <2>1, <2>2 DEF RangeInv, HadIsRight
<1> QED
  BY <1>1 DEF RangeInv, RangeTypes, Range!Source!File

-----------------------------------------------------------------------------
(* The invariant.                                                            *)

LEMMA RangeInit ==
    ASSUME Chunked, Range!Init PROVE RangeInv
<1>1. RangeTypes
  BY DEF Range!Init, RangeTypes
<1>2. HadIsRight
  BY DEF Range!Init, HadIsRight
<1>3. JobIsWhole
  BY DEF Range!Init, JobIsWhole
<1> QED
  BY <1>1, <1>2, <1>3 DEF RangeInv

\* A chunk that lands is right, and no other byte changes.
LEMMA LandKeeps ==
    ASSUME Chunked, RangeInv, NEW c, NEW n \in 1 .. Chunk, Range!Land(c, n)
    PROVE  /\ have' \in [Range!Chunks -> BOOLEAN]
           /\ data' \in [0 .. Size - 1 -> Int \cup {None}]
           /\ HadIsRight'
<1>1. have' \in [Range!Chunks -> BOOLEAN]
  BY DEF RangeInv, RangeTypes, Range!Land
<1>2. data' \in [0 .. Size - 1 -> Int \cup {None}]
  BY DEF RangeInv, RangeTypes, Range!Land
<1>3. ASSUME NEW other \in Range!Chunks, have'[other],
             NEW i \in Range!Start(other) .. Range!End(other) - 1
      PROVE  data'[i] = i
  <2>1. /\ Range!Start(other) \in Nat /\ Range!End(other) \in Int
        /\ i \in 0 .. Size - 1
    BY ExtentTypes
  <2>2. data'[i] = IF i \in Range!Start(c) .. Range!Start(c) + n - 1 THEN i ELSE data[i]
    BY <2>1 DEF Range!Land
  <2>3. CASE other = c
    <3>1. n = Range!End(other) - Range!Start(other)
      BY <2>3 DEF Range!Land, Range!Whole
    <3>2. Range!Start(c) + n - 1 = Range!End(other) - 1
      BY <2>1, <2>3, <3>1
    <3> QED
      BY <2>2, <2>3, <3>2
  <2>4. CASE other # c
    <3>1. have[other]
      BY <1>3, <2>4 DEF RangeInv, RangeTypes, Range!Land
    <3> QED
      BY <2>2, <3>1 DEF RangeInv, HadIsRight
  <2> QED
    BY <2>3, <2>4
<1> QED
  BY <1>1, <1>2, <1>3 DEF HadIsRight, Range!Start, Range!End, Range!Smaller, Range!Chunks

LEMMA RangeInvKept ==
    ASSUME Chunked, RangeInv, [Range!Next]_Range!vars
    PROVE  RangeInv'
<1> USE DEF RangeInv
<1>1. CASE Range!Step
  <2>1. UNCHANGED <<Range!reader, Range!job, Range!filled>>
    BY <1>1 DEF Range!Step
  <2>2. /\ fill = "step" /\ fill' \in {"over", "complete", "fetch", "sleep", "nap"}
        /\ fill' = "complete" => Range!Missing = {}
    BY <1>1 DEF Range!Step, Range!Fetch
  <2>3. RangeTypes'
    BY <2>1, <2>2 DEF RangeTypes, Range!reader, Range!job, Range!filled
  <2>4. HadIsRight'
    BY <2>1 DEF HadIsRight, Range!filled
  <2>5. JobIsWhole'
    BY <2>1, <2>2 DEF JobIsWhole, RangeTypes, Range!Missing, Range!job, Range!filled
  <2> QED
    BY <2>3, <2>4, <2>5
<1>2. CASE Range!FetchEnds
  <2>1. UNCHANGED <<Range!reader, Range!job>> /\ fill = "fetch" /\ fill' = "step"
    BY <1>2 DEF Range!FetchEnds
  <2>2. /\ have' \in [Range!Chunks -> BOOLEAN]
        /\ data' \in [0 .. Size - 1 -> Int \cup {None}]
        /\ HadIsRight'
    <3>1. CASE Range!LandFailed(fetching.chunk)
      BY <3>1 DEF Range!LandFailed, RangeTypes, HadIsRight
    <3>2. CASE \E n \in 1 .. Chunk : Range!Land(fetching.chunk, n)
      BY <3>2, LandKeeps
    <3> QED
      BY <1>2, <3>1, <3>2 DEF Range!FetchEnds
  <2>3. RangeTypes'
    BY <2>1, <2>2 DEF RangeTypes, Range!reader, Range!job
  <2>4. JobIsWhole'
    BY <2>1 DEF JobIsWhole, Range!job
  <2> QED
    BY <2>2, <2>3, <2>4
<1>3. CASE Range!Complete
  <2>1. /\ UNCHANGED <<Range!reader, pending, wanted, Range!filled>> /\ fill = "complete" /\ fill' = "over"
        /\ kept' # kept => wanted
    BY <1>3 DEF Range!Complete
  <2>2. RangeTypes'
    BY <2>1 DEF RangeTypes, Range!reader, Range!filled
  <2>3. HadIsRight'
    BY <2>1 DEF HadIsRight, Range!filled
  <2>4. JobIsWhole'
    BY <2>1 DEF JobIsWhole
  <2> QED
    BY <2>2, <2>3, <2>4
<1>4. CASE Range!RetryPasses
  <2>1. /\ UNCHANGED <<Range!reader, Range!job, have, data>>
        /\ fill' # fill => fill = "nap" /\ fill' = "step"
    BY <1>4 DEF Range!RetryPasses
  <2>2. RangeTypes'
    BY <2>1 DEF RangeTypes, Range!reader, Range!job
  <2>3. HadIsRight'
    BY <2>1 DEF HadIsRight
  <2>4. JobIsWhole'
    BY <2>1 DEF JobIsWhole, Range!job
  <2> QED
    BY <2>2, <2>3, <2>4
<1>5. CASE Range!Ask \/ Range!Capture
  <2>1. /\ UNCHANGED <<pos, open, kept, Range!filled>>
        /\ call' \in {Range!Idle} \cup 0 .. MaxRead
        /\ pending' \in BOOLEAN /\ wanted' \in BOOLEAN
        /\ wanted' # wanted => ~pending'
        /\ wanted => wanted'
        /\ fill' = fill \/ (pending /\ ~pending' /\ fill' = "step")
        /\ pending' => pending /\ fill' = fill /\ wanted' = wanted
    BY <1>5 DEF Range!Ask, Range!Capture, RangeTypes, Range!Started, Range!reader
  <2>2. RangeTypes'
    BY <2>1 DEF RangeTypes, Range!filled
  <2>3. HadIsRight'
    BY <2>1 DEF HadIsRight, Range!filled
  <2>4. JobIsWhole'
    BY <2>1 DEF JobIsWhole, Range!filled
  <2> QED
    BY <2>2, <2>3, <2>4
<1>6. CASE Range!Look
  <2>1. /\ UNCHANGED <<open, Range!job, Range!filled>>
        /\ fill' = fill \/ (fill \in {"nap", "sleep"} /\ fill' = "step")
    BY <1>6 DEF Range!Look, Range!Return, Range!Woken
  <2>2. pos' \in Nat /\ call' \in {Range!Idle} \cup 0 .. MaxRead
    <3>1. CASE UNCHANGED <<pos, call>>
      BY <3>1 DEF RangeTypes
    <3>2. CASE pos' = pos /\ call' = Range!Idle
      BY <3>2 DEF RangeTypes
    <3>3. CASE /\ pos < Size /\ call # 0 /\ have[Range!Here]
               /\ pos' = pos + Range!Smaller(call,
                   Range!End(Range!Here) - pos) /\ call' = Range!Idle
      <4>1. call \in Nat
        BY <1>6 DEF Range!Look, RangeTypes
      <4>2. Range!Here \in Range!Chunks /\ pos < Range!End(Range!Here)
        BY <3>3, PositionInChunk DEF RangeTypes, Range!Here
      <4>3. Range!End(Range!Here) \in Int
        BY <4>2, ExtentTypes
      <4> QED
        BY <3>3, <4>1, <4>2, <4>3 DEF RangeTypes, Range!Smaller
    <3> QED
      BY <1>6, <3>1, <3>2, <3>3 DEF Range!Look, Range!Return
  <2>3. RangeTypes'
    BY <2>1, <2>2 DEF RangeTypes, Range!job, Range!filled
  <2>4. HadIsRight'
    BY <2>1 DEF HadIsRight, Range!filled
  <2>5. JobIsWhole'
    BY <2>1 DEF JobIsWhole, Range!job, Range!filled
  <2> QED
    BY <2>3, <2>4, <2>5
<1>7. CASE Range!Seek \/ Range!Drop
  <2>1. /\ UNCHANGED <<call, Range!job, Range!filled>> /\ pos' \in Nat /\ open' \in BOOLEAN
        /\ fill' = fill \/ (fill \in {"nap", "sleep"} /\ fill' = "step")
    <3>1. CASE Range!Seek
      <4>1. pos' \in Nat
        BY <3>1 DEF Range!Seek
      <4> QED
        BY <3>1, <4>1 DEF Range!Seek, RangeTypes
    <3>2. CASE Range!Drop
      BY <3>2 DEF Range!Drop, RangeTypes, Range!Woken
    <3> QED
      BY <1>7, <3>1, <3>2
  <2>2. RangeTypes'
    BY <2>1 DEF RangeTypes, Range!job, Range!filled
  <2>3. HadIsRight'
    BY <2>1 DEF HadIsRight, Range!filled
  <2>4. JobIsWhole'
    BY <2>1 DEF JobIsWhole, Range!job, Range!filled
  <2> QED
    BY <2>2, <2>3, <2>4
<1>8. CASE UNCHANGED Range!vars
  BY <1>8 DEF Range!vars, RangeTypes, HadIsRight, JobIsWhole
<1> QED
  BY <1>1, <1>2, <1>3, <1>4, <1>5, <1>6, <1>7, <1>8 DEF Range!Next

-----------------------------------------------------------------------------
(* The refinement.                                                           *)

\* A step of the thread that leaves its last stage alone is none of the source.
LEMMA Unseen ==
    ASSUME RangeInv, UNCHANGED <<Range!reader, wanted, kept>>,
           fill = "complete" <=> fill' = "complete"
    PROVE  UNCHANGED Range!Source!sourceVars
BY DEF Range!Source!sourceVars, Range!SinkState, Range!reader

LEMMA LookAnswers ==
    ASSUME Chunked, RangeInv, Range!Look
    PROVE  [Range!Source!Next]_Range!Source!sourceVars
<1> USE DEF RangeInv
<1>1. UNCHANGED <<open, wanted, kept>> /\ UNCHANGED Range!SinkState
  BY DEF Range!Look, Range!Return, Range!Woken, Range!job, Range!SinkState
<1>2. call # Range!Idle
  BY DEF Range!Look
<1>3. CASE UNCHANGED <<pos, call, answer>>
  BY <1>1, <1>3 DEF Range!Source!sourceVars
<1>4. CASE /\ pos >= Size \/ call = 0
           /\ answer' = <<>> /\ pos' = pos /\ call' = Range!Idle
  <2>1. Range!Source!AnswerEnd
    BY <1>4 DEF Range!Source!AnswerEnd
  <2> QED
    BY <2>1, <1>1, <1>2, <1>4
        DEF Range!Source!Next, Range!Source!Answer, Range!Source!Idle, Range!Idle
<1>5. CASE answer' = Failed /\ pos' = pos /\ call' = Range!Idle
  <2>1. Range!Source!AnswerError
    BY <1>5 DEF Range!Source!AnswerError
  <2> QED
    BY <2>1, <1>1, <1>2, <1>5
        DEF Range!Source!Next, Range!Source!Answer, Range!Source!Idle, Range!Idle
<1>6. CASE /\ pos < Size /\ call # 0 /\ have[Range!Here]
           /\ answer' = [i \in 1 .. Range!Smaller(call,
               Range!End(Range!Here) - pos) |-> data[pos + i - 1]]
           /\ pos' = pos + Range!Smaller(call, Range!End(Range!Here) - pos)
           /\ call' = Range!Idle
  <2> DEFINE n == Range!Smaller(call, Range!End(Range!Here) - pos)
  <2>1. pos \in Nat /\ call \in 1 .. MaxRead /\ Size \in Nat
    BY <1>2, <1>6 DEF RangeTypes
  <2>2. /\ Range!Here \in Range!Chunks
        /\ Range!Start(Range!Here) <= pos /\ pos < Range!End(Range!Here)
        /\ Range!Start(Range!Here) \in Nat /\ Range!End(Range!Here) \in Int
        /\ Range!End(Range!Here) <= Size
    BY <1>6, <2>1, PositionInChunk, ExtentTypes DEF Range!Here
  <2>3. /\ n \in 1 .. MaxRead /\ n <= call /\ n <= Range!End(Range!Here) - pos
    BY <2>1, <2>2 DEF Range!Smaller
  <2> HIDE DEF n
  <2>4. pos + n <= Size
    BY <2>1, <2>2, <2>3
  <2>5. ASSUME NEW i \in 1 .. n
        PROVE  data[pos + i - 1] = pos + i - 1
    <3>1. pos + i - 1 \in Range!Start(Range!Here) .. Range!End(Range!Here) - 1
      BY <2>1, <2>2, <2>3
    <3> QED
      BY <1>6, <2>2, <3>1 DEF HadIsRight
  <2>6. answer' = Range!Source!Bytes(pos, n) /\ pos' = pos + n
    BY <1>6, <2>5 DEF Range!Source!Bytes, n
  <2>7. Range!Source!AnswerBytes
    BY <2>3, <2>4, <2>6 DEF Range!Source!AnswerBytes
  <2> QED
    BY <2>7, <1>1, <1>2, <1>6
        DEF Range!Source!Next, Range!Source!Answer, Range!Source!Idle, Range!Idle
<1> QED
  BY <1>3, <1>4, <1>5, <1>6 DEF Range!Look, Range!Return

LEMMA RangeRefines ==
    ASSUME Chunked, RangeInv, [Range!Next]_Range!vars
    PROVE  [Range!Source!Next]_Range!Source!sourceVars
<1>1. CASE Range!Step
  <2>1. UNCHANGED <<Range!reader, Range!job>> /\ fill = "step"
    BY <1>1 DEF Range!Step
  <2>2. CASE fill' # "complete"
    BY <2>1, <2>2, Unseen DEF Range!job
  <2>3. CASE fill' = "complete" /\ ~wanted
    BY <2>1, <2>3 DEF Range!Source!sourceVars, Range!SinkState, Range!reader, Range!job
  <2>4. CASE fill' = "complete" /\ wanted
    <3>1. open /\ kept = None
      BY <1>1, <2>1, <2>4 DEF Range!Step, Range!Fetch, RangeInv, JobIsWhole
    <3>2. Range!SinkState = "wanted" /\ Range!SinkState' = "owed"
      BY <2>1, <2>4, <3>1 DEF Range!SinkState, Range!job
    <3> QED
      BY <2>1, <3>1, <3>2
          DEF Range!Source!Next, Range!Source!Arrive, Range!reader, Range!job
  <2> QED
    BY <2>2, <2>3, <2>4
<1>2. CASE Range!FetchEnds
  BY <1>2, Unseen DEF Range!FetchEnds, Range!job
<1>3. CASE Range!Complete
  <2>1. UNCHANGED <<Range!reader, wanted>> /\ fill = "complete" /\ fill' = "over"
    BY <1>3 DEF Range!Complete
  <2>2. CASE ~wanted
    BY <1>3, <2>1, <2>2
        DEF Range!Complete, Range!Source!sourceVars, Range!SinkState, Range!reader
  <2>3. CASE wanted
    <3>1. kept = None /\ kept' = Range!Source!File
      BY <1>3, <2>1, <2>3, AllHadIsFile DEF Range!Complete, RangeInv, JobIsWhole
    <3>2. kept' # None
      BY <3>1 DEF Range!Source!File
    <3>3. Range!SinkState = "owed" /\ Range!SinkState' = "given"
      BY <2>1, <2>3, <3>1, <3>2 DEF Range!SinkState
    <3> QED
      BY <2>1, <3>1, <3>3 DEF Range!Source!Next, Range!Source!Give, Range!reader
  <2> QED
    BY <2>2, <2>3
<1>4. CASE Range!RetryPasses
  BY <1>4, Unseen DEF Range!RetryPasses, Range!job
<1>5. CASE Range!Ask
  <2>1. /\ open /\ call = Range!Idle /\ call' \in 0 .. MaxRead
        /\ UNCHANGED <<pos, answer, open, wanted, kept>>
    BY <1>5 DEF Range!Ask
  <2>2. fill = "complete" <=> fill' = "complete"
    BY <1>5 DEF Range!Ask, Range!Started, RangeInv, JobIsWhole
  <2>3. UNCHANGED Range!SinkState
    BY <2>1, <2>2 DEF Range!SinkState
  <2> QED
    BY <2>1, <2>3 DEF Range!Source!Next, Range!Source!Ask, Range!Source!Idle, Range!Idle
<1>6. CASE Range!Look
  BY <1>6, LookAnswers
<1>7. CASE Range!Seek
  <2>1. /\ open /\ call = Range!Idle /\ pos' \in Nat
        /\ UNCHANGED <<call, answer, open, wanted, kept, fill>>
    BY <1>7 DEF Range!Seek, Range!job
  <2> QED
    BY <2>1
        DEF Range!Source!Next, Range!Source!Seek, Range!Source!Idle, Range!Idle, Range!SinkState
<1>8. CASE Range!Capture
  <2>1. /\ open /\ UNCHANGED <<Range!reader, kept>>
        /\ fill = "complete" <=> fill' = "complete"
    BY <1>8 DEF Range!Capture, Range!Started, RangeInv, JobIsWhole
  <2>2. CASE wanted' = wanted
    BY <2>1, <2>2, Unseen
  <2>3. CASE wanted' # wanted
    <3>1. pending /\ ~wanted /\ wanted' /\ kept = None /\ fill = "off"
      BY <1>8, <2>3 DEF Range!Capture, RangeInv, RangeTypes, JobIsWhole
    <3>2. Range!SinkState = "none" /\ Range!SinkState' = "wanted"
      BY <2>1, <3>1 DEF Range!SinkState
    <3> QED
      BY <2>1, <3>2 DEF Range!Source!Next, Range!Source!Want, Range!reader
  <2> QED
    BY <2>2, <2>3
<1>9. CASE Range!Drop
  <2>1. /\ open /\ call = Range!Idle /\ open' = FALSE
        /\ UNCHANGED <<pos, call, answer, wanted, kept>>
        /\ fill = "complete" <=> fill' = "complete"
    BY <1>9 DEF Range!Drop, Range!Woken, Range!job
  <2> QED
    BY <2>1
        DEF Range!Source!Next, Range!Source!Drop, Range!Source!Idle, Range!Idle, Range!SinkState
<1>10. CASE UNCHANGED Range!vars
  BY <1>10 DEF Range!vars, Range!Source!sourceVars, Range!SinkState
<1> QED
  BY <1>1, <1>2, <1>3, <1>4, <1>5, <1>6, <1>7, <1>8, <1>9, <1>10 DEF Range!Next

(* The seekable source (range_source.rs) implements what a decoder and the    *)
(* offline cache expect of a stream: its reads return the file's own bytes, an *)
(* end is told only at the end, and a sink gets the whole file or nothing.     *)
THEOREM RangeSourceServes ==
    ASSUME Chunked PROVE Range!Spec => Range!ServesBytes
<1>1. Range!Init => Range!Source!Init
  BY DEF Range!Init, Range!Source!Init, Range!Source!Idle, Range!Idle, Range!SinkState
<1>2. RangeInv /\ [Range!Next]_Range!vars => [Range!Source!Next]_Range!Source!sourceVars
  BY RangeRefines
<1>3. Range!Init => RangeInv
  BY RangeInit
<1>4. RangeInv /\ [Range!Next]_Range!vars => RangeInv'
  BY RangeInvKept
<1> QED
  BY <1>1, <1>2, <1>3, <1>4, PTL DEF Range!Spec, Range!ServesBytes, Range!Source!Safety
=============================================================================
