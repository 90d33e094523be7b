----------------------------- MODULE CCompress ------------------------------
(***************************************************************************)
(* CCompress (common/CCompress.cc): Deflate and Inflate, the loops around  *)
(* zlib that cut the input and the output into chunks.                     *)
(*                                                                         *)
(* Data is counted in pieces.  zlib is external and as free as its manual  *)
(* lets it be: a call takes input and gives output until it runs out of    *)
(* one of them; what a piece of input becomes is any number of pieces of   *)
(* output up to a bound, which deflate may hold back until the end.        *)
(***************************************************************************)
EXTENDS Integers

CONSTANTS
  BufferSize,  \* pieces in bin and in bout, 65535
  MaxInput,    \* bound: pieces of input
  MaxGrowth    \* bound: pieces of output for one of input

ASSUME CompressAssumption ==
  /\ BufferSize \in Nat \ {0}
  /\ MaxInput \in Nat /\ MaxGrowth \in Nat

VARIABLES
  mode,      \* "deflate" or "inflate"
  cpc,       \* "read" (head of the outer loop), "call" (inner loop), "done"
  length,    \* pieces of input
  end,       \* where in the input of Inflate the stream ends
  damaged,   \* or is found to be damaged
  pos,       \* pieces read from the input
  avail_in,  \* of strm
  flush,     \* the argument of deflate
  taken,     \* pieces zlib has taken
  produced,  \* pieces of output zlib has made of them
  held,      \* those it has not given out yet
  ended,     \* zlib has come to the end of the stream
  output,    \* pieces written
  answer     \* "no", "true" or "false"

data == <<mode, length, end, damaged>>
zlib == <<taken, produced, held, ended>>
stream == <<data, cpc, pos, avail_in, flush, zlib, output, answer>>

Least(a, b) == IF a < b THEN a ELSE b

\* Inflate gets a stream that is whole, cut off (it ends behind the input) or
\* damaged somewhere.
CompressInit ==
  /\ mode \in {"deflate", "inflate"}
  /\ length \in 0..MaxInput
  /\ end \in IF mode = "inflate" THEN 1..(MaxInput + 1) ELSE {0}
  /\ damaged \in IF mode = "inflate" THEN BOOLEAN ELSE {FALSE}
  /\ cpc = "read" /\ pos = 0 /\ avail_in = 0 /\ flush = "Z_NO_FLUSH"
  /\ taken = 0 /\ produced = 0 /\ held = 0 /\ ended = FALSE
  /\ output = 0 /\ answer = "no"

-----------------------------------------------------------------------------
\* What input.read gets.
Chunk == Least(BufferSize, length - pos)

Goes(to) == cpc' = to /\ UNCHANGED answer
Returns(value) == cpc' = "done" /\ answer' = value

\* eof is set by a read that comes short: an input that fills its last chunk
\* is finished by one more round with nothing.
DeflateRead ==
  /\ mode = "deflate" /\ cpc = "read"
  /\ pos' = pos + Chunk
  /\ avail_in' = Chunk
  /\ flush' = IF Chunk < BufferSize THEN "Z_FINISH" ELSE "Z_NO_FLUSH"
  /\ Goes("call")
  /\ UNCHANGED <<data, zlib, output>>

\* What a call of zlib does: it takes some input, makes something of it, and
\* gives out some of what it has.
Runs(take, made, give) ==
  /\ taken' = taken + take /\ avail_in' = avail_in - take
  /\ produced' = produced + made
  /\ held' = held + made - give
  /\ output' = output + give

\* The inner loop ends when deflate has left room in bout.
DeflateLeaves(give, take) == give < BufferSize

\* deflate stops for want of input or of room; with Z_FINISH it has to go on
\* until all has been given out, its trailer included.
DeflateCall ==
  /\ mode = "deflate" /\ cpc = "call"
  /\ \E take \in 0..avail_in, give \in 0..BufferSize, last \in BOOLEAN :
     \E made \in 0..(MaxGrowth * take + 1) :
       /\ last => flush = "Z_FINISH" /\ take = avail_in /\ ~ended
       /\ (made <= MaxGrowth * take) \/ last
       /\ ended => made = 0
       /\ give <= held + made
       /\ give < BufferSize => /\ take = avail_in
                               /\ flush = "Z_FINISH" => (ended \/ last) /\ give = held + made
       /\ ended' = (ended \/ last)
       /\ Runs(take, made, give)
       /\ IF ~DeflateLeaves(give, take) THEN Goes("call")
          ELSE IF flush = "Z_FINISH" THEN Returns("true") ELSE Goes("read")
  /\ UNCHANGED <<data, pos, flush>>

-----------------------------------------------------------------------------
\* Mutant: the loop is not left when there is no more input.
InflateRead_NoBreak ==
  /\ mode = "inflate" /\ cpc = "read"
  /\ pos' = pos + Chunk
  /\ avail_in' = Chunk
  /\ Goes("call")
  /\ UNCHANGED <<data, flush, zlib, output>>

\* Without input the loop is left, whether the stream has ended or not.
InflateRead ==
  /\ mode = "inflate" /\ cpc = "read"
  /\ pos' = pos + Chunk
  /\ avail_in' = Chunk
  /\ IF Chunk = 0 THEN Returns("true") ELSE Goes("call")
  /\ UNCHANGED <<data, flush, zlib, output>>

\* Mutant: the inner loop ends when the input is used up.
InflateLeaves_NoInput(give, take) == take = avail_in

InflateLeaves(give, take) == give < BufferSize

\* inflate stops at the end of the stream, or for want of input or of room.
InflateCall ==
  /\ mode = "inflate" /\ cpc = "call"
  /\ \E take \in 0..Least(avail_in, end - taken), give \in 0..BufferSize :
     \E made \in 0..(MaxGrowth * take) :
       /\ give <= held + made
       /\ give < BufferSize => take = Least(avail_in, end - taken) /\ give = held + made
       /\ ~(damaged /\ taken + take = end)
       /\ ended' = (taken + take = end /\ give = held + made)
       /\ Runs(take, made, give)
       /\ IF ~InflateLeaves(give, take) THEN Goes("call")
          ELSE IF ended' THEN Returns("true") ELSE Goes("read")
  /\ UNCHANGED <<data, pos, flush>>

\* inflate says that the data are damaged.
InflateError ==
  /\ mode = "inflate" /\ cpc = "call"
  /\ damaged /\ taken + avail_in >= end
  /\ Returns("false")
  /\ UNCHANGED <<data, pos, avail_in, flush, zlib, output>>

Deflate == DeflateRead \/ DeflateCall
Inflate == InflateRead \/ InflateCall \/ InflateError

CompressNext == Deflate \/ Inflate

CompressSpec == CompressInit /\ [][CompressNext]_stream

-----------------------------------------------------------------------------
CompressTypeOK ==
  /\ mode \in {"deflate", "inflate"} /\ cpc \in {"read", "call", "done"}
  /\ length \in 0..MaxInput /\ pos \in 0..length
  /\ end \in 0..(MaxInput + 1) /\ damaged \in BOOLEAN
  /\ avail_in \in 0..BufferSize /\ flush \in {"Z_NO_FLUSH", "Z_FINISH"}
  /\ taken \in 0..length /\ avail_in + taken = pos
  /\ produced \in 0..(MaxGrowth * length + 1)
  /\ held \in 0..produced /\ ended \in BOOLEAN
  /\ output + held = produced
  /\ answer \in {"no", "true", "false"}

\* Wherever the chunks end: Deflate gives zlib the whole input, has it finish
\* the stream and writes all of it; Inflate that returns true has written all
\* that the input up to the end of the stream decodes to, and met no damage.
TrueMeansWhole ==
  answer = "true" =>
    /\ output = produced
    /\ mode = "deflate" => taken = length /\ ended
    /\ mode = "inflate" => taken = Least(length, end) /\ (damaged => length < end)

\* The loops end for every input, a stream that is cut off included.
Terminates == <>(cpc = "done")
=============================================================================
