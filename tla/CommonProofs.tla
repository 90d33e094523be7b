---------------------------- MODULE CommonProofs ----------------------------
(***************************************************************************)
(* Proofs about the helpers of common/ and about block/: RunCommand's      *)
(* safety properties for every size of the pipe, any output and any number *)
(* of calls and descriptors; CCompress's for every size of the buffers,    *)
(* every input and whatever zlib does within its manual; DISKCHECK's for   *)
(* any devices and nodes and any number of troubles.  And about those of   *)
(* the algorithms that work on lists: the lists of the system and the name *)
(* in a DNS question.                                                      *)
(***************************************************************************)
EXTENDS RunCommand, CCompress, BlockDevices, AlgorithmProofs

-----------------------------------------------------------------------------
(* RunCommand: the invariant                                               *)

\* The descriptors a call has open at each of its stages.
OpenNow ==
  CASE ppc = "idle" -> 0
    [] ppc \in {"fork", "close"} -> 2
    [] ppc \in {"read", "wait"} -> 1

\* The child is there from fork to waitpid, and nobody writes outside.
StageInv ==
  /\ ppc \in {"idle", "fork", "close", "read", "wait"}
  /\ fds \in Nat /\ failed \in Nat
  /\ fds = 2 * failed + OpenNow
  /\ ppc \in {"idle", "fork"} => child \notin {"running", "zombie"}
  /\ ppc \in {"idle", "fork", "wait"} => writers = {}

\* The pieces r and then the pieces p, in their order.
InOrder(r, p) ==
  /\ r \in Seq(Nat) /\ p \in Seq(Nat)
  /\ \A i \in 1..Len(r) : r[i] = i
  /\ \A i \in 1..Len(p) : p[i] = Len(r) + i

\* The pieces written are those collected and then those in the pipe.
PiecesInv ==
  /\ result \in Seq(Nat) /\ pipe \in Seq(Nat) /\ written \in Nat
  /\ ppc \in {"fork", "close"} => /\ Len(pipe) = written
                                  /\ \A i \in 1..Len(pipe) : pipe[i] = i
  /\ ppc = "read" => Len(result) + Len(pipe) = written /\ InOrder(result, pipe)
  /\ ppc = "wait" \/ (ppc = "idle" /\ returned = "true") =>
       Len(result) = written /\ \A i \in 1..Len(result) : result[i] = i

\* What holds in every state.
Inv == StageInv /\ PiecesInv

-----------------------------------------------------------------------------
\* At first there are no descriptors, no child and no output.
LEMMA InitInv == Init => Inv
BY DEF Init, Inv, StageInv, OpenNow, PiecesInv

\* The stages of a call, the descriptors and the child.
LEMMA StageKept ==
  ASSUME Inv, [Next]_vars
  PROVE  StageInv'
<1> USE DEF StageInv, OpenNow
<1>1. CASE MakePipe
  BY <1>1 DEF MakePipe, Inv
<1>2. CASE ForkFails
  BY <1>2 DEF ForkFails, Inv, command
<1>3. CASE Fork
  BY <1>3 DEF Fork, Inv
<1>4. CASE CloseWriteEnd
  BY <1>4 DEF CloseWriteEnd, Inv, command
<1>5. CASE Read
  BY <1>5 DEF Read, Inv, command
<1>6. CASE ReadEnd
  BY <1>6 DEF ReadEnd, Inv, command
<1>7. CASE Wait
  BY <1>7 DEF Wait, Inv
<1>8. CASE Command
  BY <1>8 DEF Command, Writes, Spawns, ClosesOutput, Exits, LateExits, Inv, parent, command
<1>9. CASE UNCHANGED vars
  BY <1>9 DEF vars, parent, command, Inv
<1> QED
  BY <1>1, <1>2, <1>3, <1>4, <1>5, <1>6, <1>7, <1>8, <1>9 DEF Next, Parent

\* What read moves from the pipe to the result keeps its place.
LEMMA ReadMoves ==
  ASSUME NEW r, NEW p, InOrder(r, p), NEW n \in 1..Len(p)
  PROVE  /\ InOrder(r \o SubSeq(p, 1, n), SubSeq(p, n + 1, Len(p)))
         /\ Len(r \o SubSeq(p, 1, n)) + Len(SubSeq(p, n + 1, Len(p))) = Len(r) + Len(p)
<1>0. /\ r \in Seq(Nat) /\ p \in Seq(Nat)
      /\ \A i \in 1..Len(r) : r[i] = i
      /\ \A i \in 1..Len(p) : p[i] = Len(r) + i
  BY DEF InOrder
<1> DEFINE r2 == r \o SubSeq(p, 1, n)
           p2 == SubSeq(p, n + 1, Len(p))
<1>1. n \in Nat /\ Len(p) \in Nat /\ Len(r) \in Nat /\ n <= Len(p)
  BY <1>0
<1>2. /\ SubSeq(p, 1, n) \in Seq(Nat) /\ Len(SubSeq(p, 1, n)) = n
      /\ \A i \in 1..n : SubSeq(p, 1, n)[i] = p[i]
  BY <1>0, <1>1
<1>3. /\ p2 \in Seq(Nat) /\ Len(p2) = Len(p) - n
      /\ \A i \in 1..Len(p2) : p2[i] = p[n + i]
  BY <1>0, <1>1
<1>4. /\ r2 \in Seq(Nat) /\ Len(r2) = Len(r) + n
      /\ \A i \in 1..Len(r) : r2[i] = r[i]
      /\ \A i \in 1..n : r2[Len(r) + i] = p[i]
  BY <1>0, <1>1, <1>2
<1> HIDE DEF r2, p2
<1>5. \A i \in 1..Len(r2) : r2[i] = i
  <2> SUFFICES ASSUME NEW i \in 1..Len(r2) PROVE r2[i] = i
    OBVIOUS
  <2>1. CASE i <= Len(r)
    <3>1. i \in 1..Len(r)
      BY <1>1, <1>4, <2>1
    <3> QED
      BY <1>0, <1>4, <3>1
  <2>2. CASE i > Len(r)
    <3>1. PICK k \in 1..n : i = Len(r) + k
      <4>1. i - Len(r) \in 1..n /\ i = Len(r) + (i - Len(r))
        BY <1>1, <1>4, <2>2
      <4> QED
        BY <4>1
    <3>2. k \in 1..Len(p) /\ r2[Len(r) + k] = p[k]
      BY <1>1, <1>4, <3>1
    <3>3. p[k] = Len(r) + k
      BY <1>0, <3>2
    <3> QED
      BY <3>1, <3>2, <3>3
  <2> QED
    BY <1>1, <2>1, <2>2
<1>6. \A i \in 1..Len(p2) : p2[i] = Len(r2) + i
  <2> SUFFICES ASSUME NEW i \in 1..Len(p2) PROVE p2[i] = Len(r2) + i
    OBVIOUS
  <2>1. n + i \in 1..Len(p) /\ p2[i] = p[n + i]
    BY <1>1, <1>3
  <2>2. p[n + i] = Len(r) + (n + i)
    BY <1>0, <2>1
  <2> QED
    BY <1>1, <1>3, <1>4, <2>1, <2>2
<1>7. Len(r2) + Len(p2) = Len(r) + Len(p)
  <2>1. Len(r2) + Len(p2) = (Len(r) + n) + (Len(p) - n)
    BY <1>3, <1>4, Zenon
  <2>2. (Len(r) + n) + (Len(p) - n) = Len(r) + Len(p)
    BY <1>1
  <2> QED
    BY <2>1, <2>2, Zenon
<1> QED
  BY <1>3, <1>4, <1>5, <1>6, <1>7 DEF InOrder, r2, p2

\* No piece is lost, repeated or put out of order on its way.
LEMMA PiecesKept ==
  ASSUME Inv, [Next]_vars
  PROVE  PiecesInv'
<1>1. CASE MakePipe
  BY <1>1 DEF MakePipe, Inv, PiecesInv
<1>2. CASE ForkFails
  BY <1>2 DEF ForkFails, Inv, PiecesInv, command
<1>3. CASE Fork
  BY <1>3 DEF Fork, Inv, PiecesInv, InOrder
<1>4. CASE CloseWriteEnd
  BY <1>4 DEF CloseWriteEnd, Inv, PiecesInv, InOrder, command
<1>5. CASE Read
  <2>1. PICK n \in 1..Len(pipe) : result' = result \o SubSeq(pipe, 1, n)
                                  /\ pipe' = SubSeq(pipe, n + 1, Len(pipe))
    BY <1>5 DEF Read
  <2>2. ppc = "read" /\ ppc' = "read" /\ written' = written
    BY <1>5 DEF Read, command
  <2>3. Len(result) + Len(pipe) = written /\ InOrder(result, pipe) /\ written \in Nat
    BY <2>2 DEF Inv, PiecesInv
  <2>4. Len(result') + Len(pipe') = Len(result) + Len(pipe) /\ InOrder(result', pipe')
    BY <2>1, <2>3, ReadMoves
  <2> QED
    BY <2>2, <2>3, <2>4 DEF PiecesInv, InOrder
<1>6. CASE ReadEnd
  BY <1>6 DEF ReadEnd, Inv, PiecesInv, InOrder, command
<1>7. CASE Wait
  BY <1>7 DEF Wait, Inv, PiecesInv
<1>8. CASE Writes
  <2>1. ppc \in {"close", "read"} /\ ppc' = ppc /\ result' = result
        /\ written' = written + 1 /\ pipe' = Append(pipe, written + 1)
    BY <1>8 DEF Writes, parent, Inv, StageInv
  <2>2. pipe \in Seq(Nat) /\ written \in Nat /\ Len(result) \in Nat
    BY DEF Inv, PiecesInv
  <2>3. /\ pipe' \in Seq(Nat) /\ Len(pipe') = Len(pipe) + 1
        /\ \A i \in 1..Len(pipe) : pipe'[i] = pipe[i]
        /\ pipe'[Len(pipe) + 1] = written + 1
    BY <2>1, <2>2
  <2>4. \A i \in 1..Len(pipe') : i \in 1..Len(pipe) \/ i = Len(pipe) + 1
    BY <2>2, <2>3
  <2>5. CASE ppc = "close"
    <3>1. Len(pipe) = written /\ \A i \in 1..Len(pipe) : pipe[i] = i
      BY <2>5 DEF Inv, PiecesInv
    <3>2. Len(pipe') = written' /\ \A i \in 1..Len(pipe') : pipe'[i] = i
      BY <2>1, <2>2, <2>3, <2>4, <3>1
    <3> QED
      BY <2>1, <2>2, <2>3, <2>5, <3>2 DEF Inv, PiecesInv
  <2>6. CASE ppc = "read"
    <3>1. /\ Len(result) + Len(pipe) = written
          /\ \A i \in 1..Len(result) : result[i] = i
          /\ \A i \in 1..Len(pipe) : pipe[i] = Len(result) + i
      BY <2>6 DEF Inv, PiecesInv, InOrder
    <3>2. Len(pipe) \in Nat
      BY <2>2
    <3>3. pipe'[Len(pipe) + 1] = Len(result) + (Len(pipe) + 1)
      BY <2>2, <2>3, <3>1, <3>2
    <3>4. \A i \in 1..Len(pipe') : pipe'[i] = Len(result) + i
      BY <2>3, <2>4, <3>1, <3>3
    <3>5. Len(result) + Len(pipe') = written'
      BY <2>1, <2>2, <2>3, <3>1, <3>2
    <3> QED
      BY <2>1, <2>2, <2>3, <2>6, <3>1, <3>4, <3>5 DEF Inv, PiecesInv, InOrder
  <2> QED
    BY <2>1, <2>5, <2>6
<1>9. CASE Spawns \/ ClosesOutput \/ Exits \/ LateExits \/ UNCHANGED vars
  <2>1. UNCHANGED <<ppc, result, returned, pipe, written>>
    BY <1>9 DEF Spawns, ClosesOutput, Exits, LateExits, vars, parent, command
  <2> QED
    BY <2>1 DEF Inv, PiecesInv
<1> QED
  BY <1>1, <1>2, <1>3, <1>4, <1>5, <1>6, <1>7, <1>8, <1>9 DEF Next, Parent, Command

\* So the invariant always holds.
LEMMA AlwaysInv == Spec => []Inv
<1>1. Inv /\ [Next]_vars => Inv'
  BY StageKept, PiecesKept DEF Inv
<1> QED
  BY <1>1, InitInv, PTL DEF Spec

\* A call that returned true has collected all that the command and what it
\* started have written, in order (CCommon::RunCommand).
THEOREM OutputWholeCorrect == Spec => []OutputWhole
<1>1. Inv => OutputWhole
  <2> SUFFICES ASSUME Inv, ppc = "idle", returned = "true"
               PROVE  result = [i \in 1..written |-> i]
    BY DEF OutputWhole
  <2>1. result \in Seq(Nat) /\ Len(result) = written /\ \A i \in 1..Len(result) : result[i] = i
    BY DEF Inv, PiecesInv
  <2> QED
    BY <2>1
<1> QED
  BY <1>1, AlwaysInv, PTL

\* Between the calls no descriptor is open but those of failed forks, and no
\* child is left unreaped (CCommon::RunCommand).
THEOREM LeavesNothingCorrect == Spec => []LeavesNothing
<1>1. Inv => LeavesNothing
  BY DEF Inv, StageInv, OpenNow, LeavesNothing
<1> QED
  BY <1>1, AlwaysInv, PTL

\* A call that is going on has not failed yet.
CallsInv == TypeOK /\ (ppc # "idle" => failed < calls)

\* The count of the calls and of the failed ones.
LEMMA CallsKept ==
  ASSUME Inv, CallsInv, [Next]_vars
  PROVE  CallsInv'
<1> USE RunCommandAssumption DEF CallsInv, TypeOK
<1>1. CASE MakePipe
  BY <1>1 DEF MakePipe, Inv, StageInv, OpenNow
<1>2. CASE ForkFails
  BY <1>2 DEF ForkFails, command
<1>3. CASE Fork
  BY <1>3 DEF Fork
<1>4. CASE CloseWriteEnd
  BY <1>4 DEF CloseWriteEnd, command, Inv, StageInv, OpenNow
<1>5. CASE Read
  <2>1. PICK n \in 1..Len(pipe) : result' = result \o SubSeq(pipe, 1, n)
                                  /\ pipe' = SubSeq(pipe, n + 1, Len(pipe))
    BY <1>5 DEF Read
  <2>2. UNCHANGED <<ppc, fds, returned, failed, calls, writers, command>>
    BY <1>5 DEF Read
  <2>3. /\ SubSeq(pipe, 1, n) \in Seq(1..MaxOutput)
        /\ pipe' \in Seq(1..MaxOutput) /\ Len(pipe') = Len(pipe) - n
    <3> DEFINE Pieces == 1..MaxOutput
    <3>1. pipe \in Seq(Pieces)
      OBVIOUS
    <3> HIDE DEF Pieces
    <3>2. n \in Nat /\ Len(pipe) \in Nat /\ n <= Len(pipe) /\ 1 <= n
      BY <3>1
    <3>3. \A i \in 1..Len(pipe) : pipe[i] \in Pieces
      BY <3>1
    <3>4. SubSeq(pipe, 1, n) \in Seq(Pieces)
      BY <3>1, <3>2, <3>3
    <3>5. SubSeq(pipe, n + 1, Len(pipe)) \in Seq(Pieces)
      BY <3>1, <3>2, <3>3
    <3>6. Len(SubSeq(pipe, n + 1, Len(pipe))) = Len(pipe) - n
      BY <3>1, <3>2
    <3> QED
      BY <2>1, <3>4, <3>5, <3>6, Zenon DEF Pieces
  <2>4. result' \in Seq(1..MaxOutput)
    BY <2>1, <2>3
  <2>5. Len(pipe') <= PipeSize
    BY <2>1, <2>3
  <2> QED
    BY <2>2, <2>3, <2>4, <2>5 DEF command
<1>6. CASE ReadEnd
  BY <1>6 DEF ReadEnd, command
<1>7. CASE Wait
  BY <1>7 DEF Wait, Inv, StageInv, OpenNow
<1>8. CASE Writes
  <2>1. /\ pipe' = Append(pipe, written + 1) /\ written' = written + 1
        /\ written < MaxOutput /\ Len(pipe) < PipeSize
        /\ UNCHANGED <<parent, writers, child, late>>
    BY <1>8 DEF Writes
  <2>2. written + 1 \in 1..MaxOutput
    BY <2>1
  <2>3. pipe' \in Seq(1..MaxOutput) /\ Len(pipe') = Len(pipe) + 1
    BY <2>1, <2>2
  <2> QED
    BY <2>1, <2>2, <2>3 DEF parent
<1>9. CASE Spawns \/ ClosesOutput \/ Exits \/ LateExits
  BY <1>9 DEF Spawns, ClosesOutput, Exits, LateExits, parent, command
<1>10. CASE UNCHANGED vars
  BY <1>10 DEF vars, parent, command
<1> QED
  BY <1>1, <1>2, <1>3, <1>4, <1>5, <1>6, <1>7, <1>8, <1>9, <1>10 DEF Next, Parent, Command

\* The variables have their types: no descriptor above the limit is used, the
\* pipe never holds more than it can, and a call fails at most once.
THEOREM TypeCorrect == Spec => []TypeOK
<1>1. Init => CallsInv
  BY RunCommandAssumption DEF Init, CallsInv, TypeOK
<1>2. CallsInv => TypeOK
  BY DEF CallsInv
<1> QED
  BY <1>1, <1>2, CallsKept, InitInv, AlwaysInv, PTL DEF Spec

-----------------------------------------------------------------------------
(* CCompress: the invariant                                                *)

\* What holds in both directions: what was read zlib has taken or has before
\* it, what it made it has given out or holds, and a loop goes on until it
\* returns.
LoopInv ==
  /\ length \in Nat /\ pos \in 0..length
  /\ taken \in Nat /\ avail_in \in Nat /\ taken + avail_in = pos
  /\ held \in Nat /\ output \in Nat /\ output + held = produced
  /\ cpc = "read" => avail_in = 0
  /\ cpc # "done" => answer = "no"

\* Z_FINISH is only given with the last of the input.
DeflateInv ==
  mode = "deflate" =>
    /\ cpc = "call" /\ flush = "Z_FINISH" => pos = length
    /\ answer = "true" => taken = length /\ ended /\ held = 0

\* zlib stays within the stream and does not pass the damage; when the head of
\* the loop is reached it holds nothing back and the stream goes on.
InflateInv ==
  mode = "inflate" =>
    /\ end \in Nat /\ taken <= end
    /\ damaged => taken < end
    /\ cpc = "read" => held = 0 /\ taken < end
    /\ answer = "true" => held = 0 /\ taken = Least(length, end)

\* What holds in every state of CCompress.
CompressInv == LoopInv /\ DeflateInv /\ InflateInv /\ mode \in {"deflate", "inflate"}

-----------------------------------------------------------------------------
\* What is left of a chunk.
LEMMA ChunkFits ==
  ASSUME length \in Nat, pos \in 0..length
  PROVE  /\ Chunk \in Nat /\ pos + Chunk \in 0..length
         /\ Chunk < BufferSize => pos + Chunk = length
         /\ Chunk = 0 => pos = length
BY CompressAssumption DEF Chunk, Least

\* It holds before the first call.
LEMMA CompressInitInv == CompressInit => CompressInv
BY CompressAssumption DEF CompressInit, CompressInv, LoopInv, DeflateInv, InflateInv

\* A call of zlib, in either direction, leaves the counts in step.
LEMMA RunsKeeps ==
  ASSUME LoopInv, cpc = "call", NEW take \in 0..avail_in, NEW give \in Nat, NEW made \in Nat,
         give <= held + made, Runs(take, made, give),
         UNCHANGED <<length, pos>>,
         cpc' = "read" => take = avail_in,
         cpc' # "done" => answer' = answer
  PROVE  LoopInv'
BY DEF LoopInv, Runs

\* Compress reads the next chunk.
LEMMA DeflateReadKeeps ==
  ASSUME CompressInv, DeflateRead
  PROVE  CompressInv'
<1>1. /\ mode = "deflate" /\ mode' = mode /\ cpc = "read" /\ cpc' = "call" /\ answer' = answer
      /\ pos' = pos + Chunk /\ avail_in' = Chunk
      /\ flush' = "Z_FINISH" => Chunk < BufferSize
      /\ UNCHANGED <<length, taken, held, produced, output>>
  BY DEF DeflateRead, Goes, data, zlib
<1>2. LoopInv /\ LoopInv'
  BY <1>1, ChunkFits DEF CompressInv, LoopInv
<1>3. DeflateInv'
  BY <1>1, <1>2, ChunkFits DEF LoopInv, DeflateInv
<1> QED
  BY <1>1, <1>2, <1>3 DEF CompressInv, InflateInv

\* Compress calls deflate.
LEMMA DeflateCallKeeps ==
  ASSUME CompressInv, DeflateCall
  PROVE  CompressInv'
<1>1. mode = "deflate" /\ cpc = "call" /\ UNCHANGED <<mode, length, pos, flush>>
  BY DEF DeflateCall, data
<1>2. PICK take \in 0..avail_in, give \in 0..BufferSize, last \in BOOLEAN :
      \E made \in 0..(MaxGrowth * take + 1) :
        /\ last => flush = "Z_FINISH" /\ take = avail_in /\ ~ended
        /\ (made <= MaxGrowth * take) \/ last
        /\ ended => made = 0
        /\ give <= held + made
        /\ give < BufferSize => /\ take = avail_in
                                /\ flush = "Z_FINISH" => (ended \/ last) /\ give = held + made
        /\ ended' = (ended \/ last)
        /\ Runs(take, made, give)
        /\ IF ~DeflateLeaves(give, take) THEN Goes("call")
           ELSE IF flush = "Z_FINISH" THEN Returns("true") ELSE Goes("read")
  BY Zenon DEF DeflateCall
<1>3. PICK made \in Nat :
        /\ give <= held + made
        /\ give < BufferSize => /\ take = avail_in
                                /\ flush = "Z_FINISH" => ended' /\ give = held + made
        /\ Runs(take, made, give)
        /\ IF ~(give < BufferSize) THEN Goes("call")
           ELSE IF flush = "Z_FINISH" THEN Returns("true") ELSE Goes("read")
  <2>1. PICK m \in 0..(MaxGrowth * take + 1) :
          /\ give <= held + m
          /\ give < BufferSize => /\ take = avail_in
                                  /\ flush = "Z_FINISH" => (ended \/ last) /\ give = held + m
          /\ ended' = (ended \/ last)
          /\ Runs(take, m, give)
          /\ IF ~(give < BufferSize) THEN Goes("call")
             ELSE IF flush = "Z_FINISH" THEN Returns("true") ELSE Goes("read")
    BY <1>2, Zenon DEF DeflateLeaves
  <2>2. m \in Nat
    OBVIOUS
  <2> QED
    BY <2>1, <2>2, Zenon
<1>4. LoopInv /\ answer = "no"
  BY <1>1 DEF CompressInv, LoopInv
<1>5. CASE ~(give < BufferSize)
  <2>1. cpc' = "call" /\ answer' = answer
    BY <1>3, <1>5 DEF Goes
  <2>2. LoopInv'
    BY <1>1, <1>3, <1>4, <2>1, RunsKeeps, CompressAssumption
  <2> QED
    BY <1>1, <1>4, <2>1, <2>2 DEF CompressInv, DeflateInv, InflateInv
<1>6. CASE give < BufferSize /\ flush # "Z_FINISH"
  <2>1. cpc' = "read" /\ answer' = answer /\ take = avail_in
    BY <1>3, <1>6 DEF Goes
  <2>2. LoopInv'
    BY <1>1, <1>3, <1>4, <2>1, RunsKeeps, CompressAssumption
  <2> QED
    BY <1>1, <1>4, <2>1, <2>2 DEF CompressInv, DeflateInv, InflateInv
<1>7. CASE give < BufferSize /\ flush = "Z_FINISH"
  <2>1. cpc' = "done" /\ take = avail_in /\ ended' /\ give = held + made
    BY <1>3, <1>7 DEF Returns
  <2>2. LoopInv'
    BY <1>1, <1>3, <1>4, <2>1, RunsKeeps, CompressAssumption
  <2>3. pos = length
    BY <1>1, <1>7 DEF CompressInv, DeflateInv
  <2>4. taken' = length /\ held' = 0
    BY <1>3, <1>4, <2>1, <2>3 DEF Runs, LoopInv
  <2> QED
    BY <1>1, <2>1, <2>2, <2>4 DEF CompressInv, DeflateInv, InflateInv
<1> QED
  BY <1>5, <1>6, <1>7

\* Decompress reads the next chunk.
LEMMA InflateReadKeeps ==
  ASSUME CompressInv, InflateRead
  PROVE  CompressInv'
<1>1. /\ mode = "inflate" /\ mode' = mode /\ cpc = "read"
      /\ pos' = pos + Chunk /\ avail_in' = Chunk
      /\ Chunk # 0 => cpc' = "call" /\ answer' = answer
      /\ Chunk = 0 => cpc' = "done" /\ answer' = "true"
      /\ UNCHANGED <<length, end, damaged, taken, held, produced, output>>
  BY DEF InflateRead, Goes, Returns, data, zlib
<1>2. LoopInv /\ held = 0 /\ taken < end /\ taken \in Nat /\ end \in Nat
  BY <1>1 DEF CompressInv, InflateInv, LoopInv
<1>3. LoopInv'
  BY <1>1, <1>2, ChunkFits DEF LoopInv
<1>4. Chunk = 0 => taken = Least(length, end)
  BY <1>1, <1>2, ChunkFits DEF LoopInv, Least
<1>5. InflateInv'
  BY <1>1, <1>2, <1>4 DEF LoopInv, InflateInv, Least
<1> QED
  BY <1>1, <1>3, <1>5 DEF CompressInv, DeflateInv

\* Decompress calls inflate.
LEMMA InflateCallKeeps ==
  ASSUME CompressInv, InflateCall
  PROVE  CompressInv'
<1>1. mode = "inflate" /\ cpc = "call" /\ UNCHANGED <<mode, length, end, damaged, pos>>
  BY DEF InflateCall, data
<1>2. PICK take \in 0..Least(avail_in, end - taken), give \in 0..BufferSize :
      \E made \in 0..(MaxGrowth * take) :
        /\ give <= held + made
        /\ give < BufferSize => take = Least(avail_in, end - taken) /\ give = held + made
        /\ ~(damaged /\ taken + take = end)
        /\ ended' = (taken + take = end /\ give = held + made)
        /\ Runs(take, made, give)
        /\ IF ~InflateLeaves(give, take) THEN Goes("call")
           ELSE IF ended' THEN Returns("true") ELSE Goes("read")
  BY Zenon DEF InflateCall
<1>3. PICK made \in Nat :
        /\ give <= held + made
        /\ give < BufferSize => take = Least(avail_in, end - taken) /\ give = held + made
        /\ ~(damaged /\ taken + take = end)
        /\ ended' = (taken + take = end /\ give = held + made)
        /\ Runs(take, made, give)
        /\ IF ~(give < BufferSize) THEN Goes("call")
           ELSE IF ended' THEN Returns("true") ELSE Goes("read")
  BY <1>2 DEF InflateLeaves
<1>4. LoopInv /\ answer = "no" /\ end \in Nat /\ taken <= end
  BY <1>1 DEF CompressInv, LoopInv, InflateInv
<1>5. /\ take \in 0..avail_in /\ taken + take <= end
      /\ take = Least(avail_in, end - taken) => take = avail_in \/ taken + take = end
  BY <1>4 DEF LoopInv, Least
<1>6. taken' = taken + take /\ taken' \in Nat /\ taken' <= end /\ (damaged => taken' < end)
  BY <1>3, <1>4, <1>5 DEF Runs, LoopInv
<1>7. CASE ~(give < BufferSize)
  <2>1. cpc' = "call" /\ answer' = answer
    BY <1>3, <1>7 DEF Goes
  <2>2. LoopInv'
    BY <1>1, <1>3, <1>4, <1>5, <2>1, RunsKeeps, CompressAssumption
  <2> QED
    BY <1>1, <1>4, <1>6, <2>1, <2>2 DEF CompressInv, DeflateInv, InflateInv
<1>8. CASE give < BufferSize /\ taken + take # end
  <2>1. cpc' = "read" /\ answer' = answer /\ take = avail_in /\ give = held + made
    BY <1>3, <1>5, <1>8 DEF Goes
  <2>2. LoopInv'
    BY <1>1, <1>3, <1>4, <1>5, <2>1, RunsKeeps, CompressAssumption
  <2>3. held' = 0 /\ taken' < end
    BY <1>3, <1>4, <1>6, <1>8, <2>1 DEF Runs, LoopInv
  <2> QED
    BY <1>1, <1>4, <1>6, <2>1, <2>2, <2>3 DEF CompressInv, DeflateInv, InflateInv
<1>9. CASE give < BufferSize /\ taken + take = end
  <2>1. cpc' = "done" /\ give = held + made
    BY <1>3, <1>9 DEF Returns
  <2>2. LoopInv'
    BY <1>1, <1>3, <1>4, <1>5, <2>1, RunsKeeps, CompressAssumption
  <2>3. held' = 0 /\ taken' = end
    BY <1>3, <1>4, <1>6, <1>9, <2>1 DEF Runs, LoopInv
  <2>4. end <= pos
    BY <1>4, <1>5, <1>9 DEF LoopInv
  <2>5. end = Least(length, end)
    BY <1>4, <2>4 DEF LoopInv, Least
  <2> QED
    BY <1>1, <1>4, <1>6, <2>1, <2>2, <2>3, <2>5 DEF CompressInv, DeflateInv, InflateInv, Least
<1> QED
  BY <1>7, <1>8, <1>9

\* inflate finds an error.
LEMMA InflateErrorKeeps ==
  ASSUME CompressInv, InflateError
  PROVE  CompressInv'
BY DEF InflateError, Returns, data, zlib, CompressInv, LoopInv, DeflateInv, InflateInv, Least

\* So it holds always.
LEMMA CompressAlways == CompressSpec => []CompressInv
<1>1. CompressInv /\ [CompressNext]_stream => CompressInv'
  <2> SUFFICES ASSUME CompressInv, [CompressNext]_stream PROVE CompressInv'
    OBVIOUS
  <2>1. CASE UNCHANGED stream
    BY <2>1 DEF stream, data, zlib, CompressInv, LoopInv, DeflateInv, InflateInv, Least
  <2> QED
    BY <2>1, DeflateReadKeeps, DeflateCallKeeps, InflateReadKeeps, InflateCallKeeps,
       InflateErrorKeeps DEF CompressNext, Deflate, Inflate
<1> QED
  BY <1>1, CompressInitInv, PTL DEF CompressSpec

\* Wherever the chunks end: Deflate that returns true has given zlib the whole
\* input, had it finish and written all of it, and Inflate has written all that
\* the input up to the end of the stream decodes to, and met no damage
\* (CCompress::Deflate, CCompress::Inflate).
THEOREM TrueMeansWholeCorrect == CompressSpec => []TrueMeansWhole
<1>1. CompressInv => TrueMeansWhole
  BY DEF CompressInv, LoopInv, DeflateInv, InflateInv, TrueMeansWhole, Least
<1> QED
  BY <1>1, CompressAlways, PTL

-----------------------------------------------------------------------------
(* CCompress: the types                                                    *)

\* The sizes within their bounds: a piece of input makes so much output, and the
\* end of the stream one piece more.
CompressSizes ==
  /\ length <= MaxInput /\ end \in 0..(MaxInput + 1) /\ damaged \in BOOLEAN
  /\ avail_in <= BufferSize
  /\ cpc \in {"read", "call", "done"} /\ flush \in {"Z_NO_FLUSH", "Z_FINISH"}
  /\ ended \in BOOLEAN /\ answer \in {"no", "true", "false"}
  /\ produced <= MaxGrowth * taken + (IF mode = "deflate" /\ ended THEN 1 ELSE 0)

\* Output grows with the input it is made of.
LEMMA GrowthAdds ==
  ASSUME NEW a \in Nat, NEW b \in Nat
  PROVE  /\ MaxGrowth * (a + b) = MaxGrowth * a + MaxGrowth * b
         /\ MaxGrowth * a \in Nat /\ MaxGrowth * b \in Nat
BY CompressAssumption

\* A chunk fits the buffer.
LEMMA ChunkSmall ==
  ASSUME length \in Nat, pos \in 0..length
  PROVE  Chunk <= BufferSize
BY CompressAssumption DEF Chunk, Least

\* A step of the loops keeps the sizes.
LEMMA SizesKept ==
  ASSUME CompressInv, CompressSizes, [CompressNext]_stream
  PROVE  CompressSizes'
<1>0. /\ LoopInv /\ taken \in Nat /\ produced \in Nat /\ avail_in \in Nat
      /\ BufferSize \in Nat /\ MaxGrowth \in Nat
  BY CompressAssumption DEF CompressInv, LoopInv
<1>1. CASE UNCHANGED stream
  BY <1>1 DEF stream, data, zlib, CompressSizes
<1>2. CASE DeflateRead \/ InflateRead
  <2>1. /\ UNCHANGED <<mode, length, end, damaged, taken, produced, ended>>
        /\ avail_in' = Chunk /\ cpc' \in {"call", "done"}
        /\ flush' \in {flush, "Z_NO_FLUSH", "Z_FINISH"} /\ answer' \in {answer, "true"}
    BY <1>2 DEF DeflateRead, InflateRead, Goes, Returns, data, zlib
  <2>2. avail_in' <= BufferSize
    BY <1>0, <2>1, ChunkSmall DEF LoopInv
  <2> QED
    BY <2>1, <2>2 DEF CompressSizes
<1>3. CASE InflateError
  BY <1>3 DEF InflateError, Returns, data, zlib, CompressSizes
<1>4. CASE DeflateCall
  <2>1. mode = "deflate" /\ UNCHANGED <<mode, length, end, damaged, flush>>
    BY <1>4 DEF DeflateCall, data
  <2>2. PICK take \in 0..avail_in, give \in 0..BufferSize, last \in BOOLEAN :
        \E made \in 0..(MaxGrowth * take + 1) :
          /\ last => ~ended
          /\ (made <= MaxGrowth * take) \/ last
          /\ ended => made = 0
          /\ ended' = (ended \/ last)
          /\ Runs(take, made, give)
          /\ Goes("call") \/ Returns("true") \/ Goes("read")
    BY <1>4, Zenon DEF DeflateCall
  <2>3. PICK made \in 0..(MaxGrowth * take + 1) :
          /\ last => ~ended
          /\ (made <= MaxGrowth * take) \/ last
          /\ ended => made = 0
          /\ ended' = (ended \/ last)
          /\ Runs(take, made, give)
          /\ Goes("call") \/ Returns("true") \/ Goes("read")
    BY <2>2
  <2>4. /\ taken' = taken + take /\ produced' = produced + made /\ avail_in' = avail_in - take
        /\ cpc' \in {"call", "done", "read"} /\ answer' \in {answer, "true"}
    BY <2>3 DEF Runs, Goes, Returns
  <2>5. MaxGrowth * taken' = MaxGrowth * taken + MaxGrowth * take /\ MaxGrowth * taken \in Nat
        /\ MaxGrowth * take \in Nat /\ take \in Nat
    BY <1>0, <2>4, GrowthAdds
  <2>6. produced' <= MaxGrowth * taken' + (IF ended' THEN 1 ELSE 0)
    <3> DEFINE old == MaxGrowth * taken
               new == MaxGrowth * take
    <3>1. /\ old \in Nat /\ new \in Nat /\ made \in 0..(new + 1) /\ MaxGrowth * taken' = old + new
          /\ produced <= old + (IF ended THEN 1 ELSE 0)
      BY <2>1, <2>5 DEF CompressSizes
    <3> HIDE DEF old, new
    <3>2. produced + made <= old + new + (IF ended' THEN 1 ELSE 0)
      <4>1. made <= new \/ last
        BY <2>3 DEF new
      <4>2. CASE ended
        <5>1. made = 0 /\ ended' = TRUE
          BY <2>3, <4>2, Zenon
        <5> QED BY <1>0, <3>1, <4>2, <5>1
      <4>3. CASE ~ended /\ last
        <5>1. ended' = TRUE
          BY <2>3, <4>3, Zenon
        <5> QED BY <1>0, <3>1, <4>3, <5>1
      <4>4. CASE ~ended /\ ~last
        <5>1. made <= new
          BY <4>1, <4>4
        <5>2. (IF ended' THEN 1 ELSE 0) \in {0, 1}
          OBVIOUS
        <5> QED BY <1>0, <3>1, <4>4, <5>1, <5>2
      <4> QED BY <4>2, <4>3, <4>4
    <3> QED BY <2>4, <3>1, <3>2
  <2>7. avail_in' <= BufferSize
    BY <1>0, <2>4 DEF CompressSizes
  <2>8. ended' \in BOOLEAN
    BY <2>3 DEF CompressSizes
  <2> QED
    BY <2>1, <2>4, <2>6, <2>7, <2>8 DEF CompressSizes
<1>5. CASE InflateCall
  <2>1. mode = "inflate" /\ UNCHANGED <<mode, length, end, damaged, flush>>
    BY <1>5 DEF InflateCall, data
  <2>2. PICK take \in 0..Least(avail_in, end - taken), give \in 0..BufferSize :
        \E made \in 0..(MaxGrowth * take) :
          /\ ended' = (taken + take = end /\ give = held + made)
          /\ Runs(take, made, give)
          /\ Goes("call") \/ Returns("true") \/ Goes("read")
    BY <1>5, Zenon DEF InflateCall
  <2>3. PICK made \in 0..(MaxGrowth * take) :
          /\ ended' = (taken + take = end /\ give = held + made)
          /\ Runs(take, made, give)
          /\ Goes("call") \/ Returns("true") \/ Goes("read")
    BY <2>2
  <2>4. /\ taken' = taken + take /\ produced' = produced + made /\ avail_in' = avail_in - take
        /\ cpc' \in {"call", "done", "read"} /\ answer' \in {answer, "true"}
    BY <2>3 DEF Runs, Goes, Returns
  <2>5. take \in Nat
    OBVIOUS
  <2>6. MaxGrowth * taken' = MaxGrowth * taken + MaxGrowth * take /\ MaxGrowth * taken \in Nat
        /\ MaxGrowth * take \in Nat
    BY <1>0, <2>4, <2>5, GrowthAdds
  <2>7. produced' <= MaxGrowth * taken'
    <3> DEFINE old == MaxGrowth * taken
               new == MaxGrowth * take
    <3>1. /\ old \in Nat /\ new \in Nat /\ made \in 0..new /\ MaxGrowth * taken' = old + new
          /\ produced <= old
      BY <1>0, <2>1, <2>6 DEF CompressSizes
    <3> HIDE DEF old, new
    <3> QED BY <1>0, <2>4, <3>1
  <2>8. avail_in' <= BufferSize
    BY <1>0, <2>4, <2>5 DEF CompressSizes
  <2>9. ended' \in BOOLEAN
    BY <2>3
  <2>10. MaxGrowth * taken' \in Nat
    BY <2>6
  <2> QED
    BY <2>1, <2>4, <2>7, <2>8, <2>9, <2>10 DEF CompressSizes
<1> QED
  BY <1>1, <1>2, <1>3, <1>4, <1>5 DEF CompressNext, Deflate, Inflate

\* The variables of CCompress keep their types: what zlib has made is what was
\* written and what it holds, and stays within what the input can become.
THEOREM CompressTypeCorrect == CompressSpec => []CompressTypeOK
<1>1. CompressInit => CompressSizes
  <2> SUFFICES ASSUME CompressInit PROVE CompressSizes
    OBVIOUS
  <2>1. MaxGrowth * 0 = 0 /\ BufferSize \in Nat /\ MaxInput \in Nat
    BY CompressAssumption
  <2>2. end \in 0..(MaxInput + 1) /\ damaged \in BOOLEAN
    <3>1. CASE mode = "inflate"
      <4>1. end \in 1..(MaxInput + 1) /\ damaged \in BOOLEAN
        BY <3>1, Zenon DEF CompressInit
      <4> QED BY <2>1, <4>1
    <3>2. CASE mode # "inflate"
      <4>1. end \in {0} /\ damaged \in {FALSE}
        BY <3>2, Zenon DEF CompressInit
      <4> QED BY <2>1, <4>1
    <3> QED BY <3>1, <3>2
  <2>3. /\ length <= MaxInput /\ avail_in = 0 /\ cpc = "read" /\ flush = "Z_NO_FLUSH"
        /\ ended = FALSE /\ answer = "no" /\ produced = 0 /\ taken = 0
    BY <2>1 DEF CompressInit
  <2>4. produced <= MaxGrowth * taken + (IF mode = "deflate" /\ ended THEN 1 ELSE 0)
    <3>1. MaxGrowth * taken = 0
      BY <2>1, <2>3
    <3>2. (IF mode = "deflate" /\ ended THEN 1 ELSE 0) = 0
      BY <2>3
    <3> QED BY <2>3, <3>1, <3>2
  <2>5. avail_in <= BufferSize
    BY <2>1, <2>3
  <2> QED
    BY <2>2, <2>3, <2>4, <2>5 DEF CompressSizes
<1>2. CompressInv /\ CompressSizes /\ [CompressNext]_stream => CompressSizes'
  BY SizesKept
<1>3. CompressInv /\ CompressSizes => CompressTypeOK
  <2> SUFFICES ASSUME CompressInv, CompressSizes PROVE CompressTypeOK
    OBVIOUS
  <2>1. LoopInv /\ mode \in {"deflate", "inflate"}
    BY DEF CompressInv
  <2>2. MaxGrowth * taken <= MaxGrowth * length
    <3>1. taken \in Nat /\ length - taken \in Nat /\ length = taken + (length - taken)
      BY <2>1 DEF LoopInv
    <3> DEFINE rest == length - taken
    <3> HIDE DEF rest
    <3>2. MaxGrowth * length = MaxGrowth * taken + MaxGrowth * rest /\ MaxGrowth * rest \in Nat
          /\ MaxGrowth * taken \in Nat
      BY <3>1, GrowthAdds DEF rest
    <3> QED BY <3>2
  <2>3. produced \in 0..(MaxGrowth * length + 1)
    <3>1. produced \in Nat /\ MaxGrowth * taken \in Nat /\ MaxGrowth * length \in Nat
      BY <2>1, CompressAssumption DEF LoopInv
    <3> DEFINE a == MaxGrowth * taken
               b == MaxGrowth * length
    <3>2. produced <= a + 1
      BY <3>1 DEF CompressSizes
    <3> HIDE DEF a, b
    <3>3. a <= b /\ a \in Nat /\ b \in Nat
      BY <2>2, <3>1 DEF a, b
    <3>4. produced \in 0..(b + 1)
      BY <3>1, <3>2, <3>3
    <3> QED BY <3>4 DEF b
  <2> QED
    BY <2>1, <2>3, CompressAssumption DEF CompressTypeOK, CompressSizes, LoopInv
<1> QED
  BY <1>1, <1>2, <1>3, CompressAlways, PTL DEF CompressSpec

-----------------------------------------------------------------------------
(* BlockDevices: the invariant                                             *)

\* What was read of a device that is gone is of one that went meanwhile.
DevicesRead ==
  /\ there \subseteq Devices /\ listed \subseteq Drives
  /\ (map \cup listed) \ there \subseteq touched
  /\ left \subseteq map
  /\ dpc # "idle" => faulty \subseteq wasFaulty

\* How far the call has come with each kind of device.
DeviceStage ==
  /\ dpc \in {"idle", "smart", "refresh", "md", "check"}
  /\ dpc = "smart" => map = {}
  /\ dpc \in {"smart", "refresh"} => map \subseteq Drives
  /\ dpc \in {"md", "check"} => listed = {}

\* Another drive has taken the name of d.
NodeTaken(d) == \E e \in Drives \cap (map \ {d}) : d \in Drives /\ Node[e] = Node[d]

\* A device is found or there is a reason why not, as soon as its kind has been
\* enumerated.
Enumerated(d) ==
  /\ d \in Drives /\ dpc \in {"refresh", "md", "check"} =>
       d \in listed \/ d \in map \/ "scan" \in unread \/ NodeTaken(d)
  /\ d \in Volumes /\ dpc \in {"md", "check"} => d \in map
  /\ d \in Arrays /\ dpc = "check" => d \in map

\* A device that was found is sent when the loop has passed it.
Passed(d) == dpc = "check" /\ d \in map => d \in left \cup sent \cup errors

\* The devices that are there and faulty and do not change.
Steady == (there \cap faulty) \ touched

\* What holds in every state of DISKCHECK.
DeviceInv ==
  /\ DevicesRead /\ DeviceStage /\ SentForAReason
  /\ \A d \in Steady : Enumerated(d) /\ Passed(d)

-----------------------------------------------------------------------------
(* BlockDevices: what the steps keep                                       *)

\* Before the first call nothing has been read or sent.
LEMMA DeviceInitInv == DeviceInit => DeviceInv
BY DEF DeviceInit, DeviceInv, DevicesRead, DeviceStage, SentForAReason, Enumerated, Passed

\* What was read, and how far the call has come.
LEMMA ReadKept ==
  ASSUME DeviceInv, [DeviceNext]_deviceVars
  PROVE  (DevicesRead /\ DeviceStage)'
<1> USE DEF DeviceInv, DevicesRead, DeviceStage, system, history, Moves
<1>1. CASE Call
  BY <1>1 DEF Call
<1>2. CASE EnumerateSMART
  BY <1>2 DEF EnumerateSMART
<1>3. CASE MakeSMART
  <2>1. PICK d \in listed : listed' = listed \ {d} /\ map' = Inserted(d)
    BY <1>3 DEF MakeSMART
  <2>2. map' \subseteq map \cup {d}
    BY <2>1 DEF Inserted
  <2>3. dpc = "refresh" /\ UNCHANGED <<system, dpc, left, sent>>
    BY <1>3 DEF MakeSMART
  <2>4. d \in Drives
    BY <2>1, <2>3
  <2>5. DeviceStage'
    BY <2>2, <2>3, <2>4
  <2>6. (map' \cup listed') \subseteq map \cup listed
    BY <2>1, <2>2
  <2>7. left' \subseteq map'
    <3>1. map \subseteq map'
      BY <2>1 DEF Inserted
    <3> QED
      BY <2>3, <3>1
  <2> QED
    BY <2>1, <2>3, <2>5, <2>6, <2>7
<1>4. CASE EnumerateCCISS
  BY <1>4 DEF EnumerateCCISS
<1>5. CASE EnumerateMD
  BY <1>5 DEF EnumerateMD
<1>6. CASE Skip \/ Check \/ Return
  BY <1>6 DEF Skip, Check, Return
<1>7. CASE FailsOrRecovers \/ ComesOrGoes
  BY <1>7 DEF FailsOrRecovers, ComesOrGoes
<1>8. CASE UNCHANGED deviceVars
  BY <1>8 DEF deviceVars
<1> QED
  BY <1>1, <1>2, <1>3, <1>4, <1>5, <1>6, <1>7, <1>8 DEF DeviceNext, DISKCHECK

\* A device is sent because it is faulty, has no status, is gone since it was
\* read, or its command failed.
LEMMA SentKept ==
  ASSUME DeviceInv, [DeviceNext]_deviceVars
  PROVE  SentForAReason'
<1> USE DEF DeviceInv, SentForAReason, system, history, Moves
<1>1. CASE Check
  <2>1. PICK d \in left : \/ sent' = sent
                          \/ sent' = sent \cup {d} /\ ~Fine(d)
                          \/ sent' = sent \cup {d} /\ d \in unread'
    BY <1>1 DEF Check
  <2>2. dpc = "check" /\ unread \subseteq unread' /\ UNCHANGED <<wasFaulty, touched>>
    BY <1>1 DEF Check
  <2>3. ~Fine(d) => d \in wasFaulty \cup touched \cup Silent
    BY <2>1, <2>2 DEF Fine, DevicesRead
  <2> QED
    BY <2>1, <2>2, <2>3
<1>2. CASE Call
  BY <1>2 DEF Call
<1>3. CASE EnumerateSMART \/ MakeSMART \/ EnumerateCCISS \/ EnumerateMD \/ Skip \/ Return
  BY <1>3 DEF EnumerateSMART, MakeSMART, EnumerateCCISS, EnumerateMD, Skip, Return
<1>4. CASE FailsOrRecovers \/ ComesOrGoes
  BY <1>4 DEF FailsOrRecovers, ComesOrGoes
<1>5. CASE UNCHANGED deviceVars
  BY <1>5 DEF deviceVars
<1> QED
  BY <1>1, <1>2, <1>3, <1>4, <1>5 DEF DeviceNext, DISKCHECK

\* A device that is steady after a step was so before, unless a call begins.
LEMMA SteadyBefore ==
  ASSUME [DeviceNext]_deviceVars, NEW d \in Steady'
  PROVE  d \in Steady \/ Call
<1>1. CASE FailsOrRecovers \/ ComesOrGoes
  BY <1>1 DEF FailsOrRecovers, ComesOrGoes, Steady
<1>2. CASE DISKCHECK /\ ~Call
  BY <1>2 DEF DISKCHECK, EnumerateSMART, MakeSMART, EnumerateCCISS, EnumerateMD, Skip, Check,
       Return, Steady, system
<1>3. CASE UNCHANGED deviceVars
  BY <1>3 DEF deviceVars, Steady, system
<1> QED
  BY <1>1, <1>2, <1>3 DEF DeviceNext

\* It is found by the enumeration of its kind.
LEMMA EnumeratedKept ==
  ASSUME DeviceInv, [DeviceNext]_deviceVars, NEW d \in Steady'
  PROVE  Enumerated(d)'
<1> USE DEF Enumerated, system, history, Moves
<1>1. CASE Call
  BY <1>1 DEF Call
<1>2. CASE ~Call
  <2>0. d \in Steady /\ d \in there /\ Enumerated(d)
    BY <1>2, SteadyBefore DEF DeviceInv, Steady
  <2>1. CASE EnumerateSMART
    BY <2>0, <2>1 DEF EnumerateSMART
  <2>2. CASE MakeSMART
    <3>1. PICK x \in listed : listed' = listed \ {x} /\ map' = Inserted(x)
      BY <2>2 DEF MakeSMART
    <3>2. dpc = "refresh" /\ dpc' = "refresh" /\ unread \subseteq unread' /\ map \subseteq Drives
      BY <2>2 DEF MakeSMART, DeviceInv, DeviceStage
    <3>3. map \subseteq map'
      BY <3>1 DEF Inserted
    <3>4. NodeTaken(d) => NodeTaken(d)'
      BY <3>3 DEF NodeTaken
    <3>5. d = x /\ d \in Drives => d \in map' \/ NodeTaken(d)'
      <4>1. CASE Node[x] \in {Node[e] : e \in map}
        BY <3>1, <3>2, <4>1 DEF Inserted, NodeTaken
      <4>2. CASE Node[x] \notin {Node[e] : e \in map}
        BY <3>1, <4>2 DEF Inserted
      <4> QED
        BY <4>1, <4>2
    <3> QED
      BY <2>0, <3>1, <3>2, <3>3, <3>4, <3>5
  <2>3. CASE EnumerateCCISS
    <3>1. /\ dpc = "refresh" /\ dpc' = "md" /\ listed = {} /\ unread' = unread
          /\ map' = map \cup (Volumes \cap there)
      BY <2>3 DEF EnumerateCCISS
    <3>2. NodeTaken(d) => NodeTaken(d)'
      BY <3>1 DEF NodeTaken
    <3> QED
      BY <2>0, <3>1, <3>2
  <2>4. CASE EnumerateMD
    <3>1. /\ dpc = "md" /\ dpc' = "check" /\ unread' = unread
          /\ map' = map \cup (Arrays \cap there) /\ listed' = listed
      BY <2>4 DEF EnumerateMD
    <3>2. NodeTaken(d) => NodeTaken(d)'
      BY <3>1 DEF NodeTaken
    <3> QED
      BY <2>0, <3>1, <3>2
  <2>5. CASE Return
    BY <2>5 DEF Return
  <2>6. CASE Skip \/ Check \/ FailsOrRecovers \/ ComesOrGoes \/ UNCHANGED deviceVars
    <3>1. UNCHANGED <<dpc, listed, map>> /\ unread \subseteq unread'
      BY <2>6 DEF Skip, Check, FailsOrRecovers, ComesOrGoes, deviceVars
    <3> QED
      BY <2>0, <3>1 DEF NodeTaken
  <2> QED
    BY <1>2, <2>1, <2>2, <2>3, <2>4, <2>5, <2>6 DEF DeviceNext, DISKCHECK
<1> QED
  BY <1>1, <1>2

\* The loop passes it only to send it, or because of an error.
LEMMA PassedKept ==
  ASSUME DeviceInv, [DeviceNext]_deviceVars, NEW d \in Steady'
  PROVE  Passed(d)'
<1> USE DEF Passed, system, history, Moves
<1>1. CASE Call
  BY <1>1 DEF Call
<1>2. CASE ~Call
  <2>0. d \in Steady /\ d \in faulty /\ Passed(d)
    BY <1>2, SteadyBefore DEF DeviceInv, Steady
  <2>1. CASE EnumerateSMART \/ MakeSMART \/ EnumerateCCISS \/ Return
    BY <2>1 DEF EnumerateSMART, MakeSMART, EnumerateCCISS, Return
  <2>2. CASE EnumerateMD
    BY <2>2 DEF EnumerateMD
  <2>3. CASE Skip
    BY <2>0, <2>3 DEF Skip
  <2>4. CASE Check
    <3>1. PICK x \in left : left' = left \ {x} /\ (sent' = sent \cup {x} \/ (sent' = sent /\ Fine(x)))
      BY <2>4 DEF Check
    <3>2. UNCHANGED <<dpc, map, errors>>
      BY <2>4 DEF Check
    <3>3. ~Fine(d)
      BY <2>0 DEF Fine
    <3> QED
      BY <2>0, <3>1, <3>2, <3>3
  <2>5. CASE FailsOrRecovers \/ ComesOrGoes \/ UNCHANGED deviceVars
    <3>1. UNCHANGED <<dpc, map, left, sent, errors>>
      BY <2>5 DEF FailsOrRecovers, ComesOrGoes, deviceVars
    <3> QED
      BY <2>0, <3>1
  <2> QED
    BY <1>2, <2>1, <2>2, <2>3, <2>4, <2>5 DEF DeviceNext, DISKCHECK
<1> QED
  BY <1>1, <1>2

\* So the invariant always holds.
LEMMA DeviceAlwaysInv == DeviceSpec => []DeviceInv
<1>1. ASSUME DeviceInv, [DeviceNext]_deviceVars PROVE DeviceInv'
  BY <1>1, ReadKept, SentKept, EnumeratedKept, PassedKept DEF DeviceInv
<1> QED
  BY <1>1, DeviceInitInv, PTL DEF DeviceSpec

-----------------------------------------------------------------------------
(* BlockDevices: the theorems                                              *)

\* A device that is sent was faulty at some time during the call, or it came or
\* went, has no status, or its command failed (DISKCHECK, armt.cc).
THEOREM SentForAReasonCorrect == DeviceSpec => []SentForAReason
<1>1. DeviceInv => SentForAReason
  BY DEF DeviceInv
<1> QED
  BY <1>1, DeviceAlwaysInv, PTL

\* A device that was there and faulty all through the call has been sent when
\* it returns, but for a scan that failed, an error and a node that another
\* drive took (DISKCHECK, armt.cc; CBlockEnumeratorSMART::Enumerate).
THEOREM FaultsSentCorrect == DeviceSpec => []FaultsSent
<1>1. DeviceInv => FaultsSent
  <2> SUFFICES ASSUME DeviceInv, dpc = "check", left = {}, NEW d \in Steady
               PROVE  \/ d \in sent
                      \/ d \in Drives /\ "scan" \in unread
                      \/ \E e \in Drives \cap (map \ {d}) : d \in Drives /\ Node[e] = Node[d]
                      \/ d \in errors
    BY DEF FaultsSent, Steady
  <2>1. Enumerated(d) /\ Passed(d) /\ listed = {}
    BY DEF DeviceInv, DeviceStage
  <2>2. d \in Drives \/ d \in Volumes \/ d \in Arrays
    BY DEF DeviceInv, DevicesRead, Devices, Steady
  <2>3. CASE d \in map
    BY <2>1, <2>3 DEF Passed
  <2>4. CASE d \notin map
    BY <2>1, <2>2, <2>4 DEF Enumerated, NodeTaken
  <2> QED
    BY <2>3, <2>4
<1> QED
  BY <1>1, DeviceAlwaysInv, PTL

-----------------------------------------------------------------------------
(* The lists of CProcInfo and CPCIInfo                                     *)

\* The elements of s that are in A, in their order.
Chosen(s, A) == FlattenSeq([i \in DOMAIN s |-> IF s[i] \in A THEN <<s[i]>> ELSE <<>>])

\* The numbers up to the next one.
LEMMA NextInterval ==
  ASSUME NEW n \in Nat
  PROVE  1..(n + 1) = 1..n \cup {n + 1}
OBVIOUS

\* What is chosen is of the set, and all of it that was there.
LEMMA ChosenHolds ==
  ASSUME NEW E, NEW s \in Seq(E), NEW A
  PROVE  /\ Chosen(s, A) \in Seq(E)
         /\ Held(Chosen(s, A)) = Held(s) \cap A
<1> DEFINE N == Len(s)
           piece(i) == IF s[i] \in A THEN <<s[i]>> ELSE <<>>
           pieces == [i \in DOMAIN s |-> piece(i)]
<1>1. N \in Nat /\ DOMAIN s = 1..N /\ \A i \in 1..N : s[i] \in E
  BY ElementOfSeq
<1>2. \A i \in 1..N : piece(i) \in Seq(E)
  BY <1>1
<1>3. pieces \in Seq(Seq(E)) /\ Len(pieces) = N /\ \A i \in 1..N : pieces[i] = piece(i)
  <2> HIDE DEF N, piece
  <2> QED BY <1>1, <1>2
<1>4. PICK f \in [Nat -> Seq(E)] : /\ f[0] = <<>>
                                   /\ \A n \in 1..N : f[n] = f[n - 1] \o pieces[n]
                                   /\ FlattenSeq(pieces) = f[N]
  <2> HIDE DEF pieces, N
  <2> QED BY <1>3, Flattening
<1> DEFINE Right(n) == Held(f[n]) = {s[i] : i \in 1..n} \cap A
           T == {n \in Nat : n <= N => Right(n)}
<1>5. 0 \in T
  BY <1>4 DEF Held
<1>6. ASSUME NEW n \in Nat, n \in T PROVE n + 1 \in T
  <2> SUFFICES ASSUME n + 1 <= N PROVE Right(n + 1)
    <3> HIDE DEF Right, N, pieces
    <3> QED OBVIOUS
  <2>1. n + 1 \in 1..N /\ (n + 1) - 1 = n /\ Right(n) /\ f[n] \in Seq(E)
    <3> HIDE DEF Right
    <3>1. n <= N
      BY <1>1
    <3> QED BY <1>1, <1>6, <3>1
  <2>2. f[n + 1] = f[n] \o piece(n + 1)
    <3> HIDE DEF pieces, N, piece
    <3> QED BY <1>3, <1>4, <2>1
  <2>3. {s[i] : i \in 1..(n + 1)} = {s[i] : i \in 1..n} \cup {s[n + 1]}
    <3>1. 1..(n + 1) = 1..n \cup {n + 1}
      BY NextInterval
    <3> QED BY <3>1
  <2>4. CASE s[n + 1] \in A
    <3> DEFINE g == f[n]
               e == s[n + 1]
    <3>1. g \in Seq(E) /\ e \in E
      BY <1>1, <2>1
    <3> HIDE DEF g, e
    <3>2. Held(g \o <<e>>) = Held(g) \cup {e}
      BY <3>1, OneMore
    <3> QED BY <2>1, <2>2, <2>3, <2>4, <3>2 DEF g, e
  <2>5. CASE s[n + 1] \notin A
    <3> DEFINE g == f[n]
    <3>1. g \in Seq(E)
      BY <2>1
    <3> HIDE DEF g
    <3>2. g \o <<>> = g
      BY <3>1
    <3> QED BY <2>1, <2>2, <2>3, <2>5, <3>2 DEF g
  <2> QED BY <2>4, <2>5
<1> HIDE DEF T, pieces, Right
<1>7. Nat \subseteq T
  BY <1>5, <1>6, SetInduction
<1>8. Right(N) /\ f[N] \in Seq(E)
  <2> HIDE DEF N
  <2> QED BY <1>1, <1>4, <1>7 DEF T
<1>9. Chosen(s, A) = f[N]
  BY <1>4, Zenon DEF Chosen, pieces
<1> QED BY <1>8, <1>9 DEF Right, Held

\* The sockets.
LEMMA LineBinds ==
  ASSUME NEW lines \in Sequences(Lines, 2), NEW n \in DOMAIN lines
  PROVE  /\ Numbered(lines)[n].socket = n
         /\ SL!Binding(Numbered(lines)[n]) <=>
              LET l == lines[n] IN
                <<l.type, l.state>> \in {<<"tcp", 10>>, <<"udp", 7>>} \/
                (l.type = "unix" /\ l.state = 1 /\ l.path)
<1> DEFINE l == lines[n]
           b == Numbered(lines)[n]
           Tcp == [type : {"tcp"}, state : {10}, remote : {0}, socket : {0}]
           TcpPeer == [type : {"tcp"}, state : {1, 8}, remote : {5}, socket : {0}]
           Udp == [type : {"udp"}, state : {7}, remote : {0}, socket : {0}]
           UdpPeer == [type : {"udp"}, state : {1}, remote : {5}, socket : {0}]
           Unix == [type : {"unix"}, state : {1}, path : BOOLEAN, socket : {0}]
           UnixPeer == [type : {"unix"}, state : {3}, path : {TRUE}, socket : {0}]
<1>1. l \in Lines
  BY DEF Sequences
<1>2. b = [l EXCEPT !.socket = n]
  BY DEF Numbered
<1>3. l \in Tcp \/ l \in TcpPeer \/ l \in Udp \/ l \in UdpPeer \/ l \in Unix \/ l \in UnixPeer
  BY <1>1 DEF Lines
<1> DEFINE Wanted == \/ <<l.type, l.state>> \in {<<"tcp", 10>>, <<"udp", 7>>}
                     \/ (l.type = "unix" /\ l.state = 1 /\ l.path)
           Says == b.socket = n /\ (SL!Binding(b) <=> Wanted)
<1> HIDE DEF l, b
<1>4. ASSUME l \in Tcp PROVE Says
  <2>1. b.socket = n /\ b.type = "tcp" /\ b.state = 10 /\ b.remote = 0 /\ l.type = "tcp" /\ l.state = 10
    BY <1>2, <1>4
  <2> QED BY <2>1 DEF SL!Binding, SL!Bit
<1>5. ASSUME l \in TcpPeer PROVE Says
  <2>1. b.socket = n /\ b.type = "tcp" /\ b.remote = 5 /\ l.type = "tcp" /\ l.state # 10
    BY <1>2, <1>5
  <2> QED BY <2>1 DEF SL!Binding
<1>6. ASSUME l \in Udp PROVE Says
  <2>1. b.socket = n /\ b.type = "udp" /\ b.state = 7 /\ b.remote = 0 /\ l.type = "udp" /\ l.state = 7
    BY <1>2, <1>6
  <2> QED BY <2>1 DEF SL!Binding, SL!Bit
<1>7. ASSUME l \in UdpPeer PROVE Says
  <2>1. b.socket = n /\ b.type = "udp" /\ b.remote = 5 /\ l.type = "udp" /\ l.state # 7
    BY <1>2, <1>7
  <2> QED BY <2>1 DEF SL!Binding
<1>8. ASSUME l \in Unix PROVE Says
  <2>1. b.socket = n /\ b.type = "unix" /\ b.state = 1 /\ b.path = l.path /\ l.type = "unix" /\ l.state = 1
    BY <1>2, <1>8
  <2> QED BY <2>1 DEF SL!Binding
<1>9. ASSUME l \in UnixPeer PROVE Says
  <2>1. b.socket = n /\ b.type = "unix" /\ b.state = 3 /\ l.type = "unix" /\ l.state = 3
    BY <1>2, <1>9
  <2> QED BY <2>1 DEF SL!Binding
<1> HIDE DEF Tcp, TcpPeer, Udp, UdpPeer, Unix, UnixPeer, Wanted
<1>10. Says
  BY <1>3, <1>4, <1>5, <1>6, <1>7, <1>8, <1>9
<1> QED BY <1>10 DEF l, b, Wanted

\* The first entry of the bound list that has socket n is that of line n, if it is wanted.
FirstIs(lines, wanted, n) ==
  LET bound == SL!BoundList(Numbered(lines))
      first == SL!SelectInSeq(bound, LAMBDA b : b.socket = n)
  IN  IF n \in wanted THEN first # 0 /\ bound[first] = Numbered(lines)[n] ELSE first = 0

\* The lines a process's sockets are looked up in.
NumberedLines == {Numbered(lines)[i] : lines \in Sequences(Lines, 2), i \in 1..2}

\* Numbered lines, and those of them that count, are some of these.
LEMMA BoundListType ==
  ASSUME NEW lines \in Sequences(Lines, 2)
  PROVE  SL!BoundList(Numbered(lines)) \in Seq(NumberedLines)
<1> DEFINE all == Numbered(lines)
           E == NumberedLines
           p == [i \in DOMAIN all |-> IF SL!Binding(all[i]) THEN <<all[i]>> ELSE <<>>]
<1>1. PICK N \in 0..2 : DOMAIN lines = 1..N
  BY DEF Sequences
<1>2. DOMAIN all = 1..N /\ \A i \in 1..N : all[i] \in E
  <2>1. DOMAIN all = 1..N
    BY <1>1 DEF Numbered
  <2>2. \A i \in 1..N : i \in 1..2
    BY <1>1
  <2>3. \A x \in Sequences(Lines, 2), i \in 1..2 : Numbered(x)[i] \in NumberedLines
    BY DEF NumberedLines
  <2>4. \A i \in 1..N : all[i] \in E
    BY <2>2, <2>3
  <2> QED BY <2>1, <2>4
<1> HIDE DEF all, E
<1>3. p \in Seq(Seq(E))
  <2>1. \A i \in 1..N : p[i] \in Seq(E)
    <3>1. <<>> \in Seq(E) /\ \A e \in E : <<e>> \in Seq(E)
      OBVIOUS
    <3> QED BY <1>2, <3>1
  <2>2. p = [i \in 1..N |-> p[i]] /\ N \in Nat
    BY <1>2
  <2> HIDE DEF p
  <2> QED BY <2>1, <2>2
<1>4. SL!BoundList(all) = FlattenSeq(p)
  BY Zenon DEF SL!BoundList, SL!Those, SL!FlattenSeq, FlattenSeq
<1> HIDE DEF p
<1>5. PICK f \in [Nat -> Seq(E)] : FlattenSeq(p) = f[Len(p)]
  BY <1>3, Flattening
<1> QED BY <1>3, <1>4, <1>5 DEF all, E

\* What is found of the sockets is of the bindings.
LEMMA BoundToType ==
  ASSUME NEW E, NEW bound \in Seq(E), NEW sockets \in Sequences(1..2, 2)
  PROVE  SL!BoundTo(sockets, bound) \in Seq(E)
<1> DEFINE First(n) == SL!SelectInSeq(bound, LAMBDA b : b.socket = n)
           p == [i \in DOMAIN sockets |-> IF First(sockets[i]) = 0 THEN <<>> ELSE <<bound[First(sockets[i])]>>]
<1>1. PICK N \in 0..2 : DOMAIN sockets = 1..N
  BY DEF Sequences
<1>2. ASSUME NEW n PROVE First(n) # 0 => bound[First(n)] \in E
  <2> DEFINE I == {i \in 1..Len(bound) : bound[i].socket = n}
             first == First(n)
  <2>1. first = IF I # {} THEN SL!Min(I) ELSE 0
    BY Zenon DEF SL!SelectInSeq
  <2>2. SL!Min(I) = CHOOSE x \in I : \A y \in I : x <= y
    BY Zenon DEF SL!Min
  <2>3. I \subseteq Nat /\ I \subseteq 1..Len(bound)
    OBVIOUS
  <2> HIDE DEF I, first
  <2>4. ASSUME I # {} PROVE first \in I
    <3>1. \E x \in I : \A y \in I : x <= y
      BY <2>3, <2>4, LeastNat
    <3> QED BY <2>1, <2>2, <2>4, <3>1, Zenon
  <2>5. first # 0 => first \in 1..Len(bound)
    BY <2>1, <2>3, <2>4
  <2>6. first # 0 => bound[first] \in E
    BY <2>5, ElementOfSeq
  <2> QED BY <2>6 DEF first
<1> HIDE DEF First
<1>3. p \in Seq(Seq(E))
  <2>1. \A i \in 1..N : p[i] \in Seq(E)
    <3>1. <<>> \in Seq(E) /\ \A e \in E : <<e>> \in Seq(E)
      OBVIOUS
    <3> QED BY <1>1, <1>2, <3>1
  <2>2. p = [i \in 1..N |-> p[i]] /\ N \in Nat
    BY <1>1
  <2> HIDE DEF p
  <2> QED BY <2>1, <2>2
<1>4. SL!BoundTo(sockets, bound) = FlattenSeq(p)
  <2>1. SL!BoundTo(sockets, bound) = SL!FlattenSeq(p)
    BY Zenon DEF SL!BoundTo, First
  <2>2. SL!FlattenSeq(p) = FlattenSeq(p)
    BY Zenon DEF SL!FlattenSeq, FlattenSeq
  <2> QED BY <2>1, <2>2
<1> HIDE DEF p
<1>5. PICK f \in [Nat -> Seq(E)] : FlattenSeq(p) = f[Len(p)]
  BY <1>3, Flattening
<1> QED BY <1>3, <1>4, <1>5

\* A socket that binds is found, and no other.
LEMMA SocketFound ==
  ASSUME NEW lines \in Sequences(Lines, 2), NEW wanted, NEW n \in Nat \ {0},
         wanted = {i \in DOMAIN lines : SL!Binding(Numbered(lines)[i])}
  PROVE  FirstIs(lines, wanted, n)
<1> DEFINE all == Numbered(lines)
           E == {all[i] : i \in DOMAIN lines}
           A == {all[i] : i \in wanted}
           bound == SL!BoundList(all)
           I == {i \in 1..Len(bound) : bound[i].socket = n}
           first == SL!SelectInSeq(bound, LAMBDA b : b.socket = n)
<1> SUFFICES IF n \in wanted THEN first # 0 /\ bound[first] = all[n] ELSE first = 0
  BY Zenon DEF FirstIs
<1>1. PICK N \in Nat : DOMAIN lines = 1..N
  BY DEF Sequences
<1>2. all \in Seq(E) /\ DOMAIN all = 1..N /\ Len(all) = N
  <2>1. all = [i \in 1..N |-> all[i]]
    BY <1>1 DEF Numbered
  <2> HIDE DEF all
  <2>2. \A i \in 1..N : all[i] \in E
    BY <1>1
  <2> HIDE DEF E
  <2>3. [i \in 1..N |-> all[i]] \in Seq(E)
    BY <2>2
  <2> QED BY <2>1, <2>3
<1>3. \A i \in 1..N : all[i].socket = i
  BY <1>1, LineBinds
<1>4. bound = Chosen(all, A)
  <2>1. \A i \in 1..N : SL!Binding(all[i]) <=> all[i] \in A
    <3> SUFFICES ASSUME NEW i \in 1..N PROVE SL!Binding(all[i]) <=> all[i] \in A
      OBVIOUS
    <3>1. SL!Binding(all[i]) <=> i \in wanted
      BY <1>1
    <3>2. ASSUME NEW k \in wanted, all[i] = all[k] PROVE i = k
      BY <1>1, <1>3, <3>2
    <3> QED BY <3>1, <3>2
  <2> DEFINE p == [i \in DOMAIN all |-> IF SL!Binding(all[i]) THEN <<all[i]>> ELSE <<>>]
             q == [i \in DOMAIN all |-> IF all[i] \in A THEN <<all[i]>> ELSE <<>>]
  <2>2. p = q
    <3> HIDE DEF all, A
    <3> QED BY <1>2, <2>1
  <2>3. bound = SL!FlattenSeq(p)
    BY Zenon DEF SL!BoundList, SL!Those
  <2>4. Chosen(all, A) = FlattenSeq(q)
    BY Zenon DEF Chosen
  <2>5. SL!FlattenSeq(p) = FlattenSeq(p)
    BY Zenon DEF SL!FlattenSeq, FlattenSeq
  <2> HIDE DEF p, q, bound
  <2> QED BY <2>2, <2>3, <2>4, <2>5
<1>5. bound \in Seq(E) /\ Held(bound) = Held(all) \cap A
  <2> HIDE DEF all, A, E, bound
  <2> QED BY <1>2, <1>4, ChosenHolds
<1>6. Len(bound) \in Nat
  BY <1>5
<1>7. first = IF I # {} THEN SL!Min(I) ELSE 0
  BY Zenon DEF SL!SelectInSeq
<1>8. \A i \in 1..Len(bound) : bound[i] \in A
  BY <1>5 DEF Held
<1>9. CASE n \in wanted
  <2>1. all[n] \in A /\ all[n].socket = n /\ n \in 1..N
    BY <1>1, <1>3, <1>9
  <2>2. all[n] \in Held(bound)
    <3> HIDE DEF all, A, E, bound
    <3> QED BY <1>2, <1>5, <2>1 DEF Held
  <2>3. I # {} /\ I \subseteq Nat
    <3> HIDE DEF all, bound
    <3> QED BY <1>6, <2>1, <2>2 DEF Held
  <2>4. SL!Min(I) = CHOOSE x \in I : \A y \in I : x <= y
    BY Zenon DEF SL!Min
  <2>5. first \in I
    <3> HIDE DEF I, first
    <3>1. \E x \in I : \A y \in I : x <= y
      BY <2>3, LeastNat
    <3> QED BY <1>7, <2>3, <2>4, <3>1, Zenon
  <2> HIDE DEF first
  <2>6. first \in 1..Len(bound) /\ first # 0 /\ bound[first].socket = n
    <3> HIDE DEF bound
    <3> QED BY <1>6, <2>5
  <2>7. bound[first] = all[n]
    <3>1. PICK k \in wanted : bound[first] = all[k]
      BY <1>8, <2>6
    <3>2. k \in 1..N /\ all[k].socket = k
      BY <1>1, <1>3
    <3> QED BY <2>6, <3>1, <3>2
  <2> QED BY <1>9, <2>6, <2>7 DEF first
<1>10. CASE n \notin wanted
  <2>1. I = {}
    <3> SUFFICES ASSUME NEW i \in 1..Len(bound), bound[i].socket = n PROVE FALSE
      OBVIOUS
    <3>1. PICK k \in wanted : bound[i] = all[k]
      BY <1>8
    <3>2. k \in 1..N /\ all[k].socket = k
      BY <1>1, <1>3
    <3> QED BY <1>10, <3>1, <3>2
  <2> HIDE DEF I, first
  <2>2. first = 0
    BY <1>7, <2>1
  <2> QED BY <1>10, <2>2 DEF first
<1> QED BY <1>9, <1>10

\* Of all lines, the sockets found are those that listen or wait for datagrams, in
\* the order of the descriptors.
LEMMA SocketsFound ==
  ASSUME NEW lines \in Sequences(Lines, 2), NEW sockets \in Sequences(1..2, 2)
  PROVE  SL!BoundTo(sockets, SL!BoundList(Numbered(lines))) = Listening(lines, sockets)
<1> DEFINE wanted == {i \in DOMAIN lines : LET l == lines[i] IN
                        <<l.type, l.state>> \in {<<"tcp", 10>>, <<"udp", 7>>} \/
                        (l.type = "unix" /\ l.state = 1 /\ l.path)}
           found(n) == IF n \in wanted THEN <<Numbered(lines)[n]>> ELSE <<>>
           bound == SL!BoundList(Numbered(lines))
           first(n) == SL!SelectInSeq(bound, LAMBDA b : b.socket = n)
           p == [i \in DOMAIN sockets |-> IF first(sockets[i]) = 0 THEN <<>> ELSE <<bound[first(sockets[i])]>>]
           q == [i \in DOMAIN sockets |-> found(sockets[i])]
           sought == SL!BoundTo(sockets, bound)
<1>1. sought = SL!FlattenSeq(p)
  BY Zenon DEF SL!BoundTo
<1>2. \A i \in DOMAIN sockets : sockets[i] \in Nat \ {0}
  BY DEF Sequences
<1>3. wanted = {i \in DOMAIN lines : SL!Binding(Numbered(lines)[i])}
  BY LineBinds
<1>4. ASSUME NEW i \in DOMAIN sockets
      PROVE  (IF first(sockets[i]) = 0 THEN <<>> ELSE <<bound[first(sockets[i])]>>) = found(sockets[i])
  <2> DEFINE n == sockets[i]
             w == wanted
             f == first(n)
  <2>1. IF n \in w THEN f # 0 /\ bound[f] = Numbered(lines)[n] ELSE f = 0
    <3>1. n \in Nat \ {0} /\ w = {k \in DOMAIN lines : SL!Binding(Numbered(lines)[k])}
      BY <1>2, <1>3
    <3>2. FirstIs(lines, w, n)
      <4> HIDE DEF n, w
      <4> QED BY <3>1, SocketFound
    <3> HIDE DEF n, w
    <3> QED BY <3>2, Zenon DEF FirstIs
  <2> HIDE DEF n, w, f, bound
  <2>2. (IF f = 0 THEN <<>> ELSE <<bound[f]>>) = IF n \in w THEN <<Numbered(lines)[n]>> ELSE <<>>
    BY <2>1
  <2> QED BY <2>2 DEF n, w, f
<1>5. p = q
  <2> HIDE DEF first, found, bound
  <2> QED BY <1>4
<1>6. SL!FlattenSeq(p) = FlattenSeq(p)
  BY Zenon DEF SL!FlattenSeq, FlattenSeq
<1>7. sought = FlattenSeq(q)
  <2> HIDE DEF p, q, sought
  <2> QED BY <1>1, <1>5, <1>6
<1>8. Listening(lines, sockets) = FlattenSeq(q)
  BY Zenon DEF Listening
<1> QED BY <1>7, <1>8, Zenon

\* The calls of the histories, and the caches they leave.
AllBindingCalls == BindingCalls(Sequences(Lines, 2), Sequences(1..2, 2))
LinesCaches == [got : BOOLEAN, list : Seq(NumberedLines)]
BothCaches == [bindings : LinesCaches, process : LinesCaches]

\* The bindings a call finds.
LinesOf(c) == SL!BoundList(Numbered(c.lines))

\* What a cache is after it has been asked for.
LEMMA GetIs ==
  ASSUME NEW cache \in LinesCaches, NEW found \in Seq(NumberedLines)
  PROVE  /\ SL!Get(cache, found) \in LinesCaches
         /\ cache.got => SL!Get(cache, found) = cache
         /\ cache = SL!Unread => SL!Get(cache, found) = [got |-> TRUE, list |-> found]
<1>1. CASE cache.got
  <2>1. cache # SL!Unread
    BY <1>1 DEF SL!Unread
  <2> QED BY <1>1, <2>1 DEF SL!Get
<1>2. CASE ~cache.got
  <2>1. SL!Get(cache, found) = [got |-> TRUE, list |-> cache.list \o found]
    BY <1>2 DEF SL!Get
  <2>2. cache.list \in Seq(NumberedLines)
    BY DEF LinesCaches
  <2>3. cache.list \o found \in Seq(NumberedLines)
    BY <2>2
  <2>4. <<>> \o found = found
    OBVIOUS
  <2>5. cache = SL!Unread => cache.list = <<>>
    BY DEF SL!Unread
  <2>6. [got |-> TRUE, list |-> cache.list \o found] \in LinesCaches
    BY <2>3 DEF LinesCaches
  <2>7. cache = SL!Unread => cache.list \o found = found
    BY <2>4, <2>5, Zenon
  <2> QED BY <1>2, <2>1, <2>6, <2>7, Zenon
<1> QED BY <1>1, <1>2

\* What a call does.
LEMMA BindingCallIs ==
  ASSUME NEW caches \in BothCaches, NEW c \in AllBindingCalls
  PROVE  LET after == BindingCall(caches, c)
             asked == SL!Get(caches.bindings, LinesOf(c))
         IN  /\ after \in BothCaches
             /\ c.call = "bound" => after = [bindings |-> asked, process |-> caches.process]
             /\ c.call = "process" /\ caches.process.got => after = caches
             /\ c.call = "process" /\ ~c.readable => after.process.list = caches.process.list
             /\ c.call = "process" /\ c.readable /\ caches.process = SL!Unread =>
                  after = [bindings |-> asked,
                           process  |-> [got |-> TRUE, list |-> SL!BoundTo(c.sockets, asked.list)]]
<1> DEFINE after == BindingCall(caches, c)
           found == LinesOf(c)
           asked == SL!Get(caches.bindings, found)
           looked == SL!BoundTo(c.sockets, asked.list)
<1>1. c.lines \in Sequences(Lines, 2) /\ (c.call = "bound" \/ c.call = "process")
  BY DEF AllBindingCalls, BindingCalls
<1>2. caches = [bindings |-> caches.bindings, process |-> caches.process]
      /\ caches.bindings \in LinesCaches /\ caches.process \in LinesCaches
  BY DEF BothCaches
<1>3. found \in Seq(NumberedLines)
  BY <1>1, BoundListType DEF LinesOf
<1> HIDE DEF found
<1>4. asked \in LinesCaches
  BY <1>2, <1>3, GetIs
<1>5. SL!GetBoundList(caches, Numbered(c.lines)) = [bindings |-> asked, process |-> caches.process]
  BY <1>2 DEF SL!GetBoundList, found, LinesOf
<1> HIDE DEF asked
<1>6. CASE c.call = "bound"
  <2>1. after = [bindings |-> asked, process |-> caches.process]
    BY <1>5, <1>6, Zenon DEF BindingCall
  <2> HIDE DEF after
  <2>2. after \in BothCaches
    BY <1>2, <1>4, <2>1 DEF BothCaches
  <2> QED BY <1>6, <2>1, <2>2 DEF after, asked, found
<1>7. CASE c.call = "process"
  <2> DEFINE now == [c EXCEPT !.lines = Numbered(c.lines)]
  <2>1. c \in [call : {"process"}, lines : Sequences(Lines, 2), sockets : Sequences(1..2, 2), readable : BOOLEAN]
    BY <1>7 DEF AllBindingCalls, BindingCalls
  <2>2. /\ now.lines = Numbered(c.lines) /\ now.sockets = c.sockets /\ now.readable = c.readable
        /\ c.sockets \in Sequences(1..2, 2) /\ c.readable \in BOOLEAN
    BY <2>1
  <2>3. after = SL!ProcessGetBoundList(caches, now)
    BY <1>7 DEF BindingCall
  <2> HIDE DEF now
  <2>4. looked \in Seq(NumberedLines)
    <3>1. asked.list \in Seq(NumberedLines)
      BY <1>4 DEF LinesCaches
    <3> QED BY <2>2, <3>1, BoundToType
  <2> HIDE DEF looked
  <2>5. CASE caches.process.got
    <3>1. after = caches
      BY <2>3, <2>5, Zenon DEF SL!ProcessGetBoundList
    <3>2. caches.process # SL!Unread
      BY <2>5 DEF SL!Unread
    <3> HIDE DEF after
    <3> QED BY <1>7, <3>1, <3>2 DEF after
  <2>6. CASE ~caches.process.got /\ ~c.readable
    <3>1. after = [caches EXCEPT !.process.got = TRUE]
      BY <2>2, <2>3, <2>6, Zenon DEF SL!ProcessGetBoundList
    <3> HIDE DEF after
    <3>2. after \in BothCaches /\ after.process.list = caches.process.list
      BY <1>2, <3>1 DEF BothCaches, LinesCaches
    <3> QED BY <1>7, <2>6, <3>2 DEF after
  <2>7. CASE ~caches.process.got /\ c.readable
    <3> DEFINE got == SL!Get(caches.process, looked)
               first == [bindings |-> asked, process |-> caches.process]
    <3>1. after = [first EXCEPT !.process = SL!Get(caches.process, SL!BoundTo(c.sockets, first.bindings.list))]
      BY <1>5, <2>2, <2>3, <2>7, Zenon DEF SL!ProcessGetBoundList
    <3>2. first.bindings = asked
      OBVIOUS
    <3>3. after = [first EXCEPT !.process = got]
      BY <3>1, <3>2, Zenon DEF looked
    <3>4. got \in LinesCaches /\ (caches.process = SL!Unread => got = [got |-> TRUE, list |-> looked])
      BY <1>2, <2>4, GetIs
    <3> HIDE DEF after, got
    <3>5. after = [bindings |-> asked, process |-> got]
      BY <3>3
    <3>6. after \in BothCaches
      BY <1>4, <3>4, <3>5 DEF BothCaches
    <3> QED BY <1>7, <2>7, <3>4, <3>5, <3>6 DEF after, asked, found, looked
  <2> QED BY <2>5, <2>6, <2>7
<1> QED BY <1>1, <1>6, <1>7

\* The calls f has gone through.
BindingSteps(f, made) ==
  f = [n \in 0..Len(made) |-> IF n = 0 THEN SL!NoneRead ELSE BindingCall(f[n - 1], made[n])]

\* There are such, and BindingsAfter is one's last.
LEMMA BindingLoop ==
  ASSUME NEW made \in Seq(AllBindingCalls)
  PROVE  \E f : /\ f[0] = SL!NoneRead
                /\ \A n \in 0..Len(made) : f[n] \in BothCaches
                /\ \A n \in 1..Len(made) : f[n] = BindingCall(f[n - 1], made[n])
                /\ BindingsAfter(made) = f[Len(made)]
<1> DEFINE N == Len(made)
           S == BothCaches
           C == AllBindingCalls
           step == [p \in S \X C |-> BindingCall(p[1], p[2])]
<1>1. N \in Nat /\ \A n \in 1..N : made[n] \in C
  BY ElementOfSeq
<1>2. SL!NoneRead \in S
  <2>1. <<>> \in Seq(NumberedLines)
    OBVIOUS
  <2> QED BY <2>1 DEF SL!NoneRead, SL!Unread, BothCaches, LinesCaches
<1>3. step \in [S \X C -> S] /\ \A x \in S, c \in C : step[<<x, c>>] = BindingCall(x, c)
  <2>1. \A p \in S \X C : BindingCall(p[1], p[2]) \in S
    BY BindingCallIs
  <2> HIDE DEF S, C
  <2> QED BY <2>1
<1> HIDE DEF step, S, C, N
<1>4. PICK g : Iterates(g, S, made, SL!NoneRead, step)
  BY <1>2, <1>3, Iteration DEF C
<1>5. g = [n \in 0..N |-> IF n = 0 THEN SL!NoneRead ELSE step[<<g[n - 1], made[n]>>]] /\ g \in [0..N -> S]
  BY <1>4 DEF Iterates, N
<1>6. BindingSteps(g, made)
  <2>1. ASSUME NEW n \in 0..N, n # 0 PROVE step[<<g[n - 1], made[n]>>] = BindingCall(g[n - 1], made[n])
    <3>1. n - 1 \in 0..N /\ n \in 1..N
      BY <1>1, <2>1
    <3> QED BY <1>1, <1>3, <1>5, <3>1
  <2>2. g = [n \in 0..N |-> IF n = 0 THEN SL!NoneRead ELSE BindingCall(g[n - 1], made[n])]
    BY <1>5, <2>1
  <2> QED BY <2>2 DEF BindingSteps, N
<1>7. PICK f : BindingSteps(f, made) /\ BindingsAfter(made) = f[N]
  <2> DEFINE h == CHOOSE f : BindingSteps(f, made)
  <2>1. BindingSteps(h, made)
    BY <1>6, Zenon
  <2>2. BindingsAfter(made) = h[N]
    BY Zenon DEF BindingsAfter, BindingSteps, N
  <2> QED BY <2>1, <2>2, Zenon
<1>8. f = [n \in 0..N |-> IF n = 0 THEN SL!NoneRead ELSE BindingCall(f[n - 1], made[n])]
  BY <1>7, Zenon DEF BindingSteps, N
<1>9. f[0] = SL!NoneRead /\ \A n \in 1..N : f[n] = BindingCall(f[n - 1], made[n])
  BY <1>1, <1>8
<1>10. \A n \in 0..N : f[n] \in S
  <2> DEFINE T == {n \in Nat : n <= N => f[n] \in S}
  <2>1. 0 \in T
    BY <1>2, <1>9
  <2>2. ASSUME NEW n \in Nat, n \in T PROVE n + 1 \in T
    <3>1. CASE n + 1 <= N
      <4>1. n + 1 \in 1..N /\ (n + 1) - 1 = n /\ f[n] \in S
        BY <1>1, <2>2, <3>1
      <4>2. BindingCall(f[n], made[n + 1]) \in S
        BY <1>1, <4>1, BindingCallIs DEF S, C
      <4> QED BY <1>9, <4>1, <4>2
    <3> QED BY <3>1
  <2> HIDE DEF T
  <2>3. Nat \subseteq T
    BY <2>1, <2>2, SetInduction
  <2> QED BY <1>1, <2>3 DEF T
<1> QED BY <1>7, <1>9, <1>10 DEF N, S

\* The sockets of a process are those its descriptors had when it was asked for
\* them first, among those that were bound when these were asked for first.
LEMMA BindingsComplete ==
  ASSUME NEW made \in Seq(AllBindingCalls)
  PROVE  /\ \A p \in DOMAIN made :
              /\ made[p].call = "process" /\ made[p].readable
              /\ \A k \in 1..(p - 1) : made[k].call # "process"
              => BindingsAfter(made).process.list = Listening(made[1].lines, made[p].sockets)
         /\ (\A p \in DOMAIN made : made[p].call = "process" => ~made[p].readable)
              => BindingsAfter(made).process.list = <<>>
<1> DEFINE N == Len(made)
<1>1. /\ N \in Nat /\ DOMAIN made = 1..N
      /\ \A n \in 1..N : made[n] \in AllBindingCalls /\ (made[n].call = "bound" \/ made[n].call = "process")
  <2>1. \A c \in AllBindingCalls : c.call = "bound" \/ c.call = "process"
    BY DEF AllBindingCalls, BindingCalls
  <2> QED BY <2>1, ElementOfSeq
<1>2. PICK f : /\ f[0] = SL!NoneRead
               /\ \A n \in 0..N : f[n] \in BothCaches
               /\ \A n \in 1..N : f[n] = BindingCall(f[n - 1], made[n])
               /\ BindingsAfter(made) = f[N]
  BY BindingLoop
<1> HIDE DEF N
<1>3. ASSUME NEW p \in 1..N, made[p].call = "process", made[p].readable,
             \A k \in 1..(p - 1) : made[k].call # "process"
      PROVE  f[N].process.list = Listening(made[1].lines, made[p].sockets)
  <2> DEFINE B == [got |-> TRUE, list |-> LinesOf(made[1])]
             P == [got |-> TRUE, list |-> SL!BoundTo(made[p].sockets, LinesOf(made[1]))]
             Before(n) == /\ f[n].process = SL!Unread
                          /\ f[n].bindings = IF n = 0 THEN SL!Unread ELSE B
             After(n) == f[n].process = P
  <2>1. /\ 1 \in 1..N /\ made[1].lines \in Sequences(Lines, 2) /\ made[p].sockets \in Sequences(1..2, 2)
        /\ \A n \in 1..N : LinesOf(made[n]) \in Seq(NumberedLines)
    <3>1. 1 \in 1..N
      BY <1>1
    <3>2. \A c \in AllBindingCalls : c.lines \in Sequences(Lines, 2)
      BY DEF AllBindingCalls, BindingCalls
    <3>3. \A c \in AllBindingCalls : c.call = "process" => c.sockets \in Sequences(1..2, 2)
      BY DEF AllBindingCalls, BindingCalls
    <3> QED BY <1>1, <1>3, <3>1, <3>2, <3>3, BoundListType DEF LinesOf
  <2>2. ASSUME NEW n \in 1..p, Before(n - 1) PROVE SL!Get(f[n - 1].bindings, LinesOf(made[n])) = B
    <3>1. n \in 1..N /\ n - 1 \in 0..N
      BY <1>1
    <3>2. f[n - 1].bindings \in LinesCaches
      BY <1>2, <3>1 DEF BothCaches
    <3>3. CASE n = 1
      <4>1. f[n - 1].bindings = SL!Unread
        BY <2>2, <3>3
      <4> QED BY <2>1, <3>1, <3>2, <3>3, <4>1, GetIs
    <3>4. CASE n # 1
      <4>1. f[n - 1].bindings = B /\ B.got
        BY <2>2, <3>1, <3>4
      <4> HIDE DEF B, Before
      <4> QED BY <2>1, <3>1, <3>2, <4>1, GetIs
    <3> QED BY <3>3, <3>4
  <2> HIDE DEF B, P
  <2>3. ASSUME NEW n \in 1..(p - 1), Before(n - 1) PROVE Before(n)
    <3>1. n \in 1..p /\ n \in 1..N /\ n - 1 \in 0..N /\ made[n].call = "bound"
      BY <1>1, <1>3
    <3>2. SL!Get(f[n - 1].bindings, LinesOf(made[n])) = B
      BY <2>2, <2>3, <3>1
    <3>3. f[n] = [bindings |-> B, process |-> f[n - 1].process]
      BY <1>1, <1>2, <3>1, <3>2, BindingCallIs
    <3> QED BY <2>3, <3>1, <3>3
  <2>4. Before(p - 1)
    <3> DEFINE T == {n \in Nat : n < p => Before(n)}
    <3>1. 0 \in T
      BY <1>2 DEF SL!NoneRead
    <3> HIDE DEF Before
    <3>2. ASSUME NEW n \in Nat, n \in T PROVE n + 1 \in T
      <4>1. CASE n + 1 < p
        <5>1. n + 1 \in 1..(p - 1) /\ (n + 1) - 1 = n /\ Before(n)
          BY <1>1, <3>2, <4>1
        <5> QED BY <2>3, <5>1
      <4> QED BY <4>1
    <3> HIDE DEF T
    <3>3. Nat \subseteq T
      BY <3>1, <3>2, SetInduction
    <3>4. p - 1 \in Nat /\ p - 1 < p
      BY <1>1
    <3> QED BY <3>3, <3>4 DEF T
  <2>5. After(p)
    <3>1. p \in 1..p /\ p - 1 \in 0..N
      BY <1>1
    <3>2. SL!Get(f[p - 1].bindings, LinesOf(made[p])) = B
      BY <2>2, <2>4, <3>1
    <3>3. f[p] = [bindings |-> B, process |-> [got |-> TRUE, list |-> SL!BoundTo(made[p].sockets, B.list)]]
      BY <1>1, <1>2, <1>3, <2>4, <3>1, <3>2, BindingCallIs
    <3> QED BY <3>3 DEF B, P
  <2>6. ASSUME NEW n \in p..N, n # p, After(n - 1) PROVE After(n)
    <3>1. n \in 1..N /\ n - 1 \in 0..N
      BY <1>1, <2>6
    <3>2. f[n - 1].process.got
      BY <2>6 DEF P
    <3> DEFINE x == f[n - 1]
               c == made[n]
    <3>3. x \in BothCaches /\ c \in AllBindingCalls /\ f[n] = BindingCall(x, c) /\ x.process = P
      BY <1>1, <1>2, <2>6, <3>1
    <3> HIDE DEF x, c
    <3>4. CASE c.call = "bound"
      <4>1. f[n].process = x.process
        BY <3>3, <3>4, BindingCallIs
      <4> QED BY <3>3, <4>1
    <3>5. CASE c.call = "process"
      <4>1. f[n] = x
        BY <3>2, <3>3, <3>5, BindingCallIs DEF x
      <4> QED BY <3>3, <4>1
    <3>6. c.call = "bound" \/ c.call = "process"
      BY <1>1, <3>1 DEF c
    <3> QED BY <3>4, <3>5, <3>6
  <2> HIDE DEF After
  <2>7. After(N)
    <3> DEFINE T == {n \in Nat : n \in p..N => After(n)}
    <3>1. 0 \in T
      OBVIOUS
    <3>2. ASSUME NEW n \in Nat, n \in T PROVE n + 1 \in T
      <4>1. CASE n + 1 \in p..N /\ n + 1 # p
        <5>1. (n + 1) - 1 = n /\ n \in p..N
          BY <1>1, <4>1
        <5> QED BY <2>6, <3>2, <4>1, <5>1
      <4>2. CASE n + 1 = p
        BY <2>5, <4>2
      <4> QED BY <4>1, <4>2
    <3> HIDE DEF T
    <3>3. Nat \subseteq T
      BY <3>1, <3>2, SetInduction
    <3>4. N \in p..N
      BY <1>1
    <3> QED BY <1>1, <3>3, <3>4 DEF T
  <2>8. f[N].process.list = SL!BoundTo(made[p].sockets, LinesOf(made[1]))
    BY <2>7 DEF After, P
  <2> QED BY <2>1, <2>8, SocketsFound DEF LinesOf
<1>4. ASSUME \A p \in 1..N : made[p].call = "process" => ~made[p].readable
      PROVE  f[N].process.list = <<>>
  <2> DEFINE T == {n \in Nat : n <= N => f[n].process.list = <<>>}
  <2>1. 0 \in T
    BY <1>2 DEF SL!NoneRead, SL!Unread
  <2>2. ASSUME NEW n \in Nat, n \in T PROVE n + 1 \in T
    <3>1. CASE n + 1 <= N
      <4> DEFINE m == n + 1
      <4>1. m \in 1..N /\ m - 1 = n /\ n \in 0..N /\ f[n].process.list = <<>>
        BY <1>1, <2>2, <3>1
      <4> HIDE DEF m
      <4>2. f[m] = BindingCall(f[n], made[m]) /\ f[n] \in BothCaches /\ made[m] \in AllBindingCalls
        BY <1>1, <1>2, <4>1
      <4>3. f[m].process.list = f[n].process.list
        <5>1. CASE made[m].call = "bound"
          BY <4>2, <5>1, BindingCallIs
        <5>2. CASE made[m].call = "process"
          BY <1>4, <4>1, <4>2, <5>2, BindingCallIs
        <5> QED BY <1>1, <4>1, <5>1, <5>2
      <4> QED BY <4>1, <4>3 DEF m
    <3> QED BY <3>1
  <2> HIDE DEF T
  <2>3. Nat \subseteq T
    BY <2>1, <2>2, SetInduction
  <2> QED BY <1>1, <2>3 DEF T
<1> QED BY <1>1, <1>2, <1>3, <1>4

\* The lists.
Found(list, listing) == IF list = "processes" THEN SL!ProcessList(listing) ELSE SL!DeviceList(listing)

\* What a directory may hold.
Entries ==
  [numeric : BOOLEAN, exe : BOOLEAN, readable : BOOLEAN,
   vendor : {1, 2, 65536}, device : {1, 2, 65536}]

\* The entries that count.
Sound(list) == Entries \ Bad(list)

\* The bad ones, one by one.
LEMMA BadOnes ==
  ASSUME NEW list, NEW e \in Bad(list)
  PROVE  e \in Entries /\ e # Good(1) /\ e # Good(2)
<1>1. e # Good(1) /\ e # Good(2)
  BY DEF Bad, Good, Entry
<1>2. CASE list = "processes"
  <2>1. e = Entry(FALSE, TRUE, 1) \/ e = Entry(TRUE, FALSE, 1)
    BY <1>2 DEF Bad, Entry
  <2>2. CASE e = Entry(FALSE, TRUE, 1)
    BY <1>1, <2>2 DEF Entries, Entry
  <2>3. CASE e = Entry(TRUE, FALSE, 1)
    BY <1>1, <2>3 DEF Entries, Entry
  <2> QED BY <2>1, <2>2, <2>3
<1>3. CASE list # "processes"
  <2>1. CASE e = Entry(FALSE, TRUE, 1)
    BY <1>1, <2>1 DEF Entries, Entry
  <2>2. CASE e # Entry(FALSE, TRUE, 1)
    <3>1. e = [numeric |-> TRUE, exe |-> TRUE, readable |-> TRUE, vendor |-> 65536, device |-> 65536]
      BY <1>3, <2>2 DEF Bad, Good, Entry
    <3> QED BY <1>1, <3>1 DEF Entries
  <2> QED BY <2>1, <2>2
<1> QED BY <1>2, <1>3

\* What there is has entries, of which those count that are not bad.
LEMMA FoundFine ==
  ASSUME NEW list \in {"processes", "devices"}, NEW c \in ListCalls(list), c.call = "get"
  PROVE  /\ c.there \in Seq(Entries)
         /\ Found(list, c.there) = Chosen(c.there, Sound(list))
         /\ SL!Those(c.there, LAMBDA e : e \notin Bad(list)) = Chosen(c.there, Sound(list))
         /\ Chosen(c.there, Sound(list)) \in Seq(Entries)
<1> DEFINE listing == c.there
           mine == {Good(1), Good(2)} \cup Bad(list)
           counts(e) == IF list = "processes" THEN e.numeric /\ e.exe
                        ELSE e.readable /\ e.vendor < 65536 /\ e.device < 65536
<1>1. listing \in {<<>>, <<Good(1)>>} \cup {<<b, Good(2)>> : b \in Bad(list)}
  BY DEF ListCalls
<1>2. /\ Good(1) \in Entries \ Bad(list) /\ Good(2) \in Entries \ Bad(list)
      /\ Bad(list) \subseteq Entries
  <2>1. Good(1) \in Entries /\ Good(2) \in Entries
    BY DEF Entries, Good, Entry
  <2> QED BY <2>1, BadOnes
<1>3. listing \in Seq(mine) /\ mine \subseteq Entries
  <2>1. Good(1) \in mine /\ Good(2) \in mine /\ \A b \in Bad(list) : b \in mine
    OBVIOUS
  <2>2. mine \subseteq Entries
    BY <1>2
  <2>3. listing \in Seq(mine)
    <3> HIDE DEF mine, listing
    <3>1. <<>> \in Seq(mine) /\ <<Good(1)>> \in Seq(mine)
      BY <2>1
    <3>2. \A b \in Bad(list) : <<b, Good(2)>> \in Seq(mine)
      BY <2>1
    <3> QED BY <1>1, <3>1, <3>2, Zenon
  <2> QED BY <2>2, <2>3
<1>4. \A e \in mine : (counts(e) <=> e \in Sound(list)) /\ (e \notin Bad(list) <=> e \in Sound(list))
  <2>1. \A e \in Bad(list) : ~counts(e)
    BY DEF Bad, Good, Entry
  <2>2. counts(Good(1)) /\ counts(Good(2))
    BY DEF Good, Entry
  <2> HIDE DEF counts
  <2> QED BY <1>2, <1>3, <2>1, <2>2 DEF Sound
<1>5. DOMAIN listing = 1..Len(listing) /\ \A i \in 1..Len(listing) : listing[i] \in mine
  <2> HIDE DEF mine, listing
  <2> QED BY <1>3, ElementOfSeq
<1> DEFINE p == [i \in DOMAIN listing |-> IF counts(listing[i]) THEN <<listing[i]>> ELSE <<>>]
           q == [i \in DOMAIN listing |-> IF listing[i] \in Sound(list) THEN <<listing[i]>> ELSE <<>>]
           r == [i \in DOMAIN listing |-> IF listing[i] \notin Bad(list) THEN <<listing[i]>> ELSE <<>>]
<1>6. p = q /\ r = q
  <2> HIDE DEF listing, mine, counts
  <2> QED BY <1>4, <1>5
<1>7. Found(list, listing) = SL!FlattenSeq(p)
  <2>1. CASE list = "processes"
    <3>1. p = [i \in DOMAIN listing |-> IF listing[i].numeric /\ listing[i].exe THEN <<listing[i]>> ELSE <<>>]
      BY <2>1
    <3>2. Found(list, listing) = SL!ProcessList(listing)
      BY <2>1, Zenon DEF Found
    <3>3. SL!ProcessList(listing) =
            SL!FlattenSeq([i \in DOMAIN listing |-> IF listing[i].numeric /\ listing[i].exe THEN <<listing[i]>> ELSE <<>>])
      BY Zenon DEF SL!ProcessList, SL!Those
    <3> HIDE DEF p, listing
    <3> QED BY <3>1, <3>2, <3>3, Zenon
  <2>2. CASE list # "processes"
    <3>1. p = [i \in DOMAIN listing |-> IF listing[i].readable /\ listing[i].vendor < 65536 /\ listing[i].device < 65536
                                      THEN <<listing[i]>> ELSE <<>>]
      BY <2>2
    <3>2. Found(list, listing) = SL!DeviceList(listing)
      BY <2>2, Zenon DEF Found
    <3>3. SL!DeviceList(listing) =
            SL!FlattenSeq([i \in DOMAIN listing |-> IF listing[i].readable /\ listing[i].vendor < 65536 /\ listing[i].device < 65536
                                      THEN <<listing[i]>> ELSE <<>>])
      <4> HIDE DEF listing
      <4> QED BY DEF SL!DeviceList, SL!Those
    <3> HIDE DEF p, listing
    <3> QED BY <3>1, <3>2, <3>3
  <2> QED BY <2>1, <2>2
<1>8. SL!Those(listing, LAMBDA e : e \notin Bad(list)) = SL!FlattenSeq(r)
  BY Zenon DEF SL!Those
<1>9. Chosen(listing, Sound(list)) = FlattenSeq(q)
  BY Zenon DEF Chosen
<1>10. SL!FlattenSeq(q) = FlattenSeq(q)
  BY Zenon DEF SL!FlattenSeq, FlattenSeq
<1>11. Chosen(listing, Sound(list)) \in Seq(Entries) /\ listing \in Seq(Entries)
  <2>1. listing \in Seq(Entries)
    <3> HIDE DEF mine, listing
    <3> QED BY <1>3
  <2> HIDE DEF listing
  <2> QED BY <2>1, ChosenHolds
<1> HIDE DEF p, q, r
<1> QED BY <1>6, <1>7, <1>8, <1>9, <1>10, <1>11, Zenon DEF listing

\* If the recursion of CacheAfter has a solution, its value is one's.
LEMMA CacheIs ==
  ASSUME NEW list, NEW made,
         \E f : f = [n \in 0..Len(made) |->
                      IF n = 0 THEN SL!Unread ELSE ListCall(list, f[n - 1], made[n])]
  PROVE  \E f : /\ f = [n \in 0..Len(made) |->
                         IF n = 0 THEN SL!Unread ELSE ListCall(list, f[n - 1], made[n])]
                /\ CacheAfter(list, made) = f[Len(made)]
<1> DEFINE P(f) == f = [n \in 0..Len(made) |->
                         IF n = 0 THEN SL!Unread ELSE ListCall(list, f[n - 1], made[n])]
           g == CHOOSE f : P(f)
<1>1. P(g)
  <2> HIDE DEF P
  <2> SUFFICES \E f : P(f)
    BY Zenon
  <2> QED BY DEF P
<1>2. CacheAfter(list, made) = g[Len(made)]
  BY Zenon DEF CacheAfter
<1> QED BY <1>1, <1>2, Zenon

\* A call of get fills the list if no call since the last ClearCache has.
Fills(made, i) ==
  /\ made[i].call = "get"
  /\ \A k \in 1..(i - 1) : made[k].call = "get" =>
       \E c \in (k + 1)..(i - 1) : made[c].call = "clear"

\* These are the calls that read the system.
LEMMA FirstGetsFill ==
  ASSUME NEW made, NEW i \in DOMAIN made
  PROVE  i \in FirstGets(made) <=> Fills(made, i)
BY Zenon DEF FirstGets, Fills

\* A call reads the system if it is the first or comes behind a ClearCache.
LEMMA FillsIs ==
  ASSUME NEW made, NEW n \in Nat \ {0},
         \A k \in 1..n : made[k].call \in {"get", "clear"}
  PROVE  Fills(made, n) <=> made[n].call = "get" /\ (n = 1 \/ made[n - 1].call = "clear")
<1>1. CASE n = 1
  <2>1. 1..(n - 1) = {}
    BY <1>1
  <2> QED BY <1>1, <2>1, Zenon DEF Fills
<1>2. CASE n # 1
  <2>1. n - 1 \in 1..(n - 1) /\ n - 1 \in 1..n /\ ((n - 1) + 1)..(n - 1) = {}
    BY <1>2
  <2>2. ASSUME made[n - 1].call = "clear", NEW k \in 1..(n - 1), made[k].call = "get"
        PROVE  n - 1 \in (k + 1)..(n - 1)
    BY <2>2
  <2>3. made[n - 1].call = "get" \/ made[n - 1].call = "clear"
    BY <2>1
  <2>4. CASE made[n - 1].call = "get"
    <3>1. ~Fills(made, n)
      <4> SUFFICES ASSUME \A k \in 1..(n - 1) : made[k].call = "get" =>
                            \E c \in (k + 1)..(n - 1) : made[c].call = "clear"
                   PROVE  FALSE
        BY Zenon DEF Fills
      <4>1. \E c \in ((n - 1) + 1)..(n - 1) : made[c].call = "clear"
        BY <2>1, <2>4
      <4> QED BY <2>1, <4>1
    <3> QED BY <1>2, <2>4, <3>1
  <2>5. CASE made[n - 1].call = "clear"
    <3>1. \A k \in 1..(n - 1) : made[k].call = "get" =>
            \E c \in (k + 1)..(n - 1) : made[c].call = "clear"
      BY <2>2, <2>5
    <3> QED BY <2>5, <3>1, Zenon DEF Fills
  <2> QED BY <2>3, <2>4, <2>5
<1> QED BY <1>1, <1>2

\* The cache after n calls: whether the last of them has left it read, and what
\* those that fill it found.
ReadAfter(made, n) == n # 0 /\ made[n].call = "get"
\* What a call adds to the list.
Piece(list, made, i) == IF Fills(made, i) THEN Chosen(made[i].there, Sound(list)) ELSE <<>>

\* What a cache may be.
Caches == [got : BOOLEAN, list : Seq(Entries)]

\* A call appends its piece to the list.
LEMMA CallFills ==
  ASSUME NEW list \in {"processes", "devices"}, NEW made \in Seq(ListCalls(list)),
         NEW n \in 1..Len(made), NEW cache \in Caches, cache.got = ReadAfter(made, n - 1)
  PROVE  /\ ListCall(list, cache, made[n]) \in Caches
         /\ ListCall(list, cache, made[n]).got = ReadAfter(made, n)
         /\ ListCall(list, cache, made[n]).list = cache.list \o Piece(list, made, n)
         /\ Piece(list, made, n) \in Seq(Entries)
<1> DEFINE c == made[n]
           after == ListCall(list, cache, c)
           listing == c.there
           found == Chosen(listing, Sound(list))
           piece == Piece(list, made, n)
<1>1. n \in Nat \ {0} /\ \A k \in 1..n : made[k] \in ListCalls(list)
  <2>1. \A k \in 1..n : k \in 1..Len(made)
    OBVIOUS
  <2> QED BY <2>1, ElementOfSeq
<1>2. \A k \in 1..n : made[k].call \in {"get", "clear"}
  BY <1>1 DEF ListCalls
<1>3. c \in ListCalls(list) /\ (c.call = "get" \/ c.call = "clear") /\ n \in 1..n
  BY <1>1, <1>2
<1>4. Fills(made, n) <=> c.call = "get" /\ (n = 1 \/ made[n - 1].call = "clear")
  BY <1>1, <1>2, FillsIs
<1>5. ReadAfter(made, n - 1) <=> ~(n = 1 \/ made[n - 1].call = "clear")
  <2>1. n - 1 # 0 => n - 1 \in 1..n
    BY <1>1
  <2>2. n - 1 # 0 <=> n # 1
    BY <1>1
  <2> QED BY <1>2, <2>1, <2>2 DEF ReadAfter
<1>6. ReadAfter(made, n) = (c.call = "get")
  BY <1>1 DEF ReadAfter
<1>7. cache.list \in Seq(Entries) /\ cache.got \in BOOLEAN
  BY DEF Caches
<1>8. CASE c.call = "clear"
  <2>1. after = [cache EXCEPT !.got = FALSE]
    BY <1>8 DEF ListCall, SL!ClearCache
  <2>2. piece = <<>>
    BY <1>4, <1>8, Zenon DEF Piece
  <2>3. after \in Caches /\ after.got = FALSE /\ after.list = cache.list
    BY <2>1 DEF Caches
  <2> HIDE DEF after, piece, c
  <2>4. cache.list \o <<>> = cache.list /\ <<>> \in Seq(Entries)
    BY <1>7
  <2>5. (c.call = "get") = FALSE
    BY <1>8
  <2> QED BY <1>6, <2>2, <2>3, <2>4, <2>5 DEF after, piece, c
<1>9. CASE c.call = "get"
  <2>1. /\ Found(list, listing) = found
        /\ found \in Seq(Entries)
    BY <1>3, <1>9, FoundFine
  <2>2. after = SL!Get(cache, found)
    <3>1. after = SL!Get(cache, IF list = "processes" THEN SL!ProcessList(listing) ELSE SL!DeviceList(listing))
      BY <1>9 DEF ListCall
    <3> QED BY <2>1, <3>1, Zenon DEF Found
  <2>3. (c.call = "get") = TRUE
    BY <1>9
  <2>4. CASE cache.got
    <3>1. after = cache
      BY <2>2, <2>4 DEF SL!Get
    <3>2. piece = <<>>
      BY <1>4, <1>5, <2>4, Zenon DEF Piece
    <3> HIDE DEF after, piece, c
    <3>3. cache.list \o <<>> = cache.list /\ <<>> \in Seq(Entries) /\ cache.got = TRUE
      BY <1>7, <2>4
    <3> QED BY <1>6, <2>3, <3>1, <3>2, <3>3 DEF after, piece, c
  <2>5. CASE ~cache.got
    <3>1. after = [got |-> TRUE, list |-> cache.list \o found]
      BY <2>2, <2>5, Zenon DEF SL!Get
    <3>2. piece = found
      BY <1>4, <1>5, <1>9, <2>5, Zenon DEF Piece
    <3> HIDE DEF after, piece, c, found
    <3>3. cache.list \o found \in Seq(Entries)
      BY <1>7, <2>1
    <3>4. after \in Caches /\ after.got = TRUE /\ after.list = cache.list \o found
      BY <3>1, <3>3 DEF Caches
    <3> QED BY <1>6, <2>1, <2>3, <3>2, <3>4 DEF after, piece, c
  <2> QED BY <2>4, <2>5
<1> QED BY <1>3, <1>8, <1>9

\* A list is what its calls have found when they filled it.
LEMMA CacheFilled ==
  ASSUME NEW list \in {"processes", "devices"}, NEW made \in Seq(ListCalls(list))
  PROVE  CacheAfter(list, made).list = FlattenSeq([i \in DOMAIN made |-> Piece(list, made, i)])
<1> DEFINE N == Len(made)
           C == ListCalls(list)
           step == [p \in Caches \X C |->
                     IF ListCall(list, p[1], p[2]) \in Caches THEN ListCall(list, p[1], p[2]) ELSE p[1]]
           After(f, n) == IF n = 0 THEN SL!Unread ELSE ListCall(list, f[n - 1], made[n])
           Right(f, n) == f[n] \in Caches /\ f[n].got = ReadAfter(made, n)
<1>1. N \in Nat /\ DOMAIN made = 1..N /\ \A i \in 1..N : made[i] \in C
  BY ElementOfSeq
<1>2. SL!Unread \in Caches /\ SL!Unread.got = ReadAfter(made, 0) /\ SL!Unread.list = <<>>
  <2>1. <<>> \in Seq(Entries)
    OBVIOUS
  <2> QED BY <2>1 DEF SL!Unread, Caches, ReadAfter
<1>3. step \in [Caches \X C -> Caches]
  OBVIOUS
<1>4. ASSUME NEW f, f[0] = SL!Unread,
             \A n \in 1..N : Right(f, n - 1) => f[n] = ListCall(list, f[n - 1], made[n])
      PROVE  \A n \in 0..N : Right(f, n)
  <2> DEFINE T == {n \in Nat : n <= N => Right(f, n)}
  <2>1. Right(f, 0)
    BY <1>2, <1>4
  <2>2. ASSUME NEW n \in 1..N, Right(f, n - 1) PROVE Right(f, n)
    BY <1>4, <2>2, CallFills
  <2> HIDE DEF Right
  <2>3. 0 \in T
    BY <2>1
  <2>4. ASSUME NEW n \in Nat, n \in T PROVE n + 1 \in T
    <3>1. CASE n + 1 <= N
      <4>1. n + 1 \in 1..N /\ (n + 1) - 1 = n /\ Right(f, n)
        BY <1>1, <2>4, <3>1
      <4> QED BY <2>2, <4>1
    <3> QED BY <3>1
  <2> HIDE DEF T
  <2>5. Nat \subseteq T
    BY <2>3, <2>4, SetInduction
  <2> QED BY <1>1, <2>5 DEF T
<1>5. \E f : f = [n \in 0..N |-> After(f, n)]
  <2>1. PICK f : Iterates(f, Caches, made, SL!Unread, step)
    <3> HIDE DEF step, C
    <3> QED BY <1>2, <1>3, Iteration DEF C
  <2>2. f = [n \in 0..N |-> IF n = 0 THEN SL!Unread ELSE step[<<f[n - 1], made[n]>>]]
    BY <2>1 DEF Iterates
  <2>3. f[0] = SL!Unread
    BY <1>1, <2>2
  <2>4. ASSUME NEW n \in 1..N, Right(f, n - 1) PROVE f[n] = ListCall(list, f[n - 1], made[n])
    <3>1. ListCall(list, f[n - 1], made[n]) \in Caches
      BY <2>4, CallFills
    <3>2. <<f[n - 1], made[n]>> \in Caches \X C
      <4> HIDE DEF C
      <4> QED BY <1>1, <2>4
    <3>3. n \in 0..N /\ n # 0
      BY <1>1
    <3>4. f[n] = step[<<f[n - 1], made[n]>>]
      <4> HIDE DEF step
      <4> QED BY <2>2, <3>3
    <3> HIDE DEF C
    <3> QED BY <3>1, <3>2, <3>4
  <2>5. \A n \in 0..N : Right(f, n)
    <3> HIDE DEF Right
    <3> QED BY <1>4, <2>3, <2>4
  <2>6. \A n \in 0..N : f[n] = After(f, n)
    <3> SUFFICES ASSUME NEW n \in 0..N, n # 0 PROVE f[n] = ListCall(list, f[n - 1], made[n])
      BY <2>3
    <3>1. n \in 1..N /\ n - 1 \in 0..N
      BY <1>1
    <3> HIDE DEF Right
    <3> QED BY <2>4, <2>5, <3>1
  <2>7. f = [n \in 0..N |-> f[n]]
    <3> HIDE DEF step
    <3> QED BY <2>2
  <2> HIDE DEF After
  <2>8. f = [n \in 0..N |-> After(f, n)]
    BY <2>6, <2>7
  <2> QED BY <2>8
<1>6. PICK g : g = [n \in 0..N |-> After(g, n)] /\ CacheAfter(list, made) = g[N]
  <2>1. \E f : f = [n \in 0..Len(made) |->
                      IF n = 0 THEN SL!Unread ELSE ListCall(list, f[n - 1], made[n])]
    BY <1>5, Zenon
  <2>2. \E f : /\ f = [n \in 0..Len(made) |->
                         IF n = 0 THEN SL!Unread ELSE ListCall(list, f[n - 1], made[n])]
               /\ CacheAfter(list, made) = f[Len(made)]
    BY <2>1, CacheIs, Zenon
  <2> QED BY <2>2, Zenon
<1>7. /\ g[0] = SL!Unread
      /\ \A n \in 1..N : g[n] = ListCall(list, g[n - 1], made[n])
  <2>1. \A n \in 1..N : n \in 0..N /\ n # 0
    BY <1>1
  <2>2. 0 \in 0..N
    BY <1>1
  <2> QED BY <1>6, <2>1, <2>2
<1>8. \A n \in 0..N : Right(g, n)
  <2> HIDE DEF Right
  <2> QED BY <1>4, <1>7
<1> DEFINE pieces == [i \in DOMAIN made |-> Piece(list, made, i)]
<1>9. ASSUME NEW n \in 1..N
      PROVE  g[n].list = g[n - 1].list \o pieces[n] /\ pieces[n] \in Seq(Entries)
  <2>1. n - 1 \in 0..N
    BY <1>1
  <2>2. g[n - 1] \in Caches /\ g[n - 1].got = ReadAfter(made, n - 1)
    BY <1>8, <2>1
  <2>3. g[n] = ListCall(list, g[n - 1], made[n])
    BY <1>7
  <2>4. pieces[n] = Piece(list, made, n)
    BY <1>1
  <2> DEFINE cache == g[n - 1]
  <2>5. cache \in Caches /\ cache.got = ReadAfter(made, n - 1) /\ n \in 1..Len(made)
    BY <2>2
  <2> HIDE DEF pieces, cache, N
  <2>6. /\ ListCall(list, cache, made[n]).list = cache.list \o Piece(list, made, n)
        /\ Piece(list, made, n) \in Seq(Entries)
    BY <2>5, CallFills
  <2> QED BY <2>3, <2>4, <2>6 DEF cache
<1>10. pieces \in Seq(Seq(Entries)) /\ Len(pieces) = N
  <2>1. pieces = [i \in 1..N |-> pieces[i]]
    BY <1>1
  <2> HIDE DEF pieces, N
  <2> QED BY <1>1, <1>9, <2>1
<1>11. PICK f \in [Nat -> Seq(Entries)] : /\ f[0] = <<>>
                                          /\ \A n \in 1..N : f[n] = f[n - 1] \o pieces[n]
                                          /\ FlattenSeq(pieces) = f[N]
  <2> HIDE DEF pieces, N
  <2> QED BY <1>10, Flattening
<1>12. g[N].list = f[N]
  <2> DEFINE T == {n \in Nat : n <= N => g[n].list = f[n]}
  <2> HIDE DEF pieces
  <2>1. 0 \in T
    BY <1>2, <1>7, <1>11
  <2>2. ASSUME NEW n \in Nat, n \in T PROVE n + 1 \in T
    <3>1. CASE n + 1 <= N
      <4>1. n + 1 \in 1..N /\ (n + 1) - 1 = n /\ g[n].list = f[n]
        BY <1>1, <2>2, <3>1
      <4>2. g[n + 1].list = g[n].list \o pieces[n + 1]
        BY <1>9, <4>1
      <4>3. f[n + 1] = f[n] \o pieces[n + 1]
        BY <1>11, <4>1
      <4>4. g[n + 1].list = f[n + 1]
        BY <4>1, <4>2, <4>3
      <4> HIDE DEF N
      <4> QED BY <4>4
    <3> HIDE DEF N
    <3> QED BY <3>1
  <2> HIDE DEF T
  <2>3. Nat \subseteq T
    BY <2>1, <2>2, SetInduction
  <2> QED BY <1>1, <2>3 DEF T
<1> HIDE DEF pieces
<1> QED BY <1>6, <1>11, <1>12 DEF pieces

\* The lists and the sockets are complete, whatever calls there were.
THEOREM ListsCompleteCorrect == AlgorithmSpec => []ListsComplete
<1>1. ASSUME Computed, Done("list")
      PROVE  LET made == input.calls
                 piece(F, i) == IF i \in F THEN Seen(input.list, made[i]) ELSE <<>>
             IN  \E F \in SUBSET FirstGets(made) :
                   /\ \A i \in FirstGets(made) : Uncleared(made, i) => i \in F
                   /\ Result = FlattenSeq([i \in DOMAIN made |-> piece(F, i)])
  <2> DEFINE made == input.calls
             list == input.list
             fills == FirstGets(made)
             p == [i \in DOMAIN made |-> IF i \in fills THEN Seen(list, made[i]) ELSE <<>>]
             q == [i \in DOMAIN made |-> Piece(list, made, i)]
  <2>1. Result = CacheAfter(list, made).list
    BY <1>1 DEF Computed, Gives, Done, Result
  <2>2. list \in {"processes", "devices"} /\ made \in Sequences(ListCalls(list), MaxHistory)
    BY <1>1, Kinds DEF Done, Lists
  <2> HIDE DEF made, list
  <2>3. made \in Seq(ListCalls(list)) /\ DOMAIN made = 1..Len(made)
    <3>1. PICK k \in 0..MaxHistory : made \in [1..k -> ListCalls(list)]
      BY <2>2 DEF Sequences
    <3>2. k \in Nat
      BY <3>1
    <3> QED BY <3>1, <3>2
  <2>4. ASSUME NEW i \in DOMAIN made
        PROVE  (IF i \in fills THEN Seen(list, made[i]) ELSE <<>>) = Piece(list, made, i)
    <3>1. i \in fills <=> Fills(made, i)
      BY FirstGetsFill
    <3>2. CASE i \in fills
      <4>1. made[i] \in ListCalls(list) /\ made[i].call = "get"
        BY <2>3, <3>1, <3>2, ElementOfSeq DEF Fills
      <4>2. Seen(list, made[i]) = Chosen(made[i].there, Sound(list))
        BY <2>2, <4>1, FoundFine, Zenon DEF Seen
      <4> HIDE DEF fills
      <4> QED BY <3>1, <3>2, <4>2, Zenon DEF Piece
    <3>3. CASE i \notin fills
      <4> HIDE DEF fills
      <4> QED BY <3>1, <3>3, Zenon DEF Piece
    <3> QED BY <3>2, <3>3
  <2>5. p = q
    <3> HIDE DEF fills
    <3> QED BY <2>4
  <2>6. Result = FlattenSeq(q)
    BY <2>1, <2>2, <2>3, CacheFilled
  <2>7. Result = FlattenSeq(p)
    <3> HIDE DEF p, q
    <3> QED BY <2>5, <2>6
  <2>8. fills \in SUBSET FirstGets(made)
    OBVIOUS
  <2> QED BY <2>7, <2>8, Zenon DEF made, list
<1>2. ASSUME Computed, Done("bindings")
      PROVE  LET made == input.calls
             IN  /\ \A p \in DOMAIN made :
                      /\ made[p].call = "process" /\ made[p].readable
                      /\ \A k \in 1..(p - 1) : made[k].call # "process"
                      => Result = Listening(made[1].lines, made[p].sockets)
                 /\ (\A p \in DOMAIN made : made[p].call = "process" => ~made[p].readable)
                      => Result = <<>>
  <2> DEFINE made == input.calls
  <2>1. Result = BindingsAfter(made).process.list
    BY <1>2 DEF Computed, Gives, Done, Result
  <2>2. made \in Seq(AllBindingCalls)
    <3> DEFINE few == BindingCalls(SomeLines, {<<>>, <<1>>})
    <3>1. input \in Bindings
      BY <1>2, Kinds DEF Done
    <3>2. made \in Sequences(AllBindingCalls, 1) \/ made \in Sequences(few, MaxHistory)
      <4>1. PICK c \in Sequences(AllBindingCalls, 1) \cup Sequences(few, MaxHistory) :
              input = [of |-> "bindings", calls |-> c]
        BY <3>1, Zenon DEF Bindings, AllBindingCalls
      <4>2. made = c
        BY <4>1
      <4> QED BY <4>1, <4>2
    <3>3. few \subseteq AllBindingCalls
      <4>1. SomeLines \subseteq Sequences(Lines, 2)
        <5> DEFINE tcp == [type |-> "tcp", state |-> 10, remote |-> 0, socket |-> 0]
                   udp == [type |-> "udp", state |-> 7, remote |-> 0, socket |-> 0]
        <5>1. tcp \in Lines /\ udp \in Lines
          BY DEF Lines
        <5>2. SomeLines = {<<>>, <<tcp>>, <<udp>>}
          BY DEF SomeLines
        <5> HIDE DEF tcp, udp
        <5>3. <<>> \in [1..0 -> Lines] /\ <<tcp>> \in [1..1 -> Lines] /\ <<udp>> \in [1..1 -> Lines]
          BY <5>1
        <5>4. 0 \in 0..2 /\ 1 \in 0..2
          OBVIOUS
        <5>5. <<>> \in Sequences(Lines, 2) /\ <<tcp>> \in Sequences(Lines, 2) /\ <<udp>> \in Sequences(Lines, 2)
          BY <5>3, <5>4, Zenon DEF Sequences
        <5> QED BY <5>2, <5>5
      <4>2. {<<>>, <<1>>} \subseteq Sequences(1..2, 2)
        <5>1. <<>> \in [1..0 -> 1..2] /\ <<1>> \in [1..1 -> 1..2]
          OBVIOUS
        <5>2. 0 \in 0..2 /\ 1 \in 0..2
          OBVIOUS
        <5>3. <<>> \in Sequences(1..2, 2) /\ <<1>> \in Sequences(1..2, 2)
          BY <5>1, <5>2, Zenon DEF Sequences
        <5> QED BY <5>3
      <4> QED BY <4>1, <4>2 DEF AllBindingCalls, BindingCalls
    <3> HIDE DEF few, made
    <3>4. \A n, C : made \in Sequences(C, n) => \E k \in 0..n : made \in [1..k -> C]
      BY Zenon DEF Sequences
    <3>5. PICK k \in Nat : made \in [1..k -> AllBindingCalls]
      <4>1. CASE made \in Sequences(AllBindingCalls, 1)
        <5>1. \E k \in 0..1 : made \in [1..k -> AllBindingCalls]
          BY <3>4, <4>1
        <5> QED BY <5>1
      <4>2. CASE made \in Sequences(few, MaxHistory)
        <5>1. PICK k \in 0..MaxHistory : made \in [1..k -> few]
          BY <3>4, <4>2
        <5>2. made \in [1..k -> AllBindingCalls]
          BY <3>3, <5>1
        <5> QED BY <5>1, <5>2
      <4> QED BY <3>2, <4>1, <4>2
    <3> QED BY <3>5
  <2> HIDE DEF made
  <2>3. /\ \A p \in DOMAIN made :
             /\ made[p].call = "process" /\ made[p].readable
             /\ \A k \in 1..(p - 1) : made[k].call # "process"
             => Result = Listening(made[1].lines, made[p].sockets)
        /\ (\A p \in DOMAIN made : made[p].call = "process" => ~made[p].readable) => Result = <<>>
    BY <2>1, <2>2, BindingsComplete
  <2> QED BY <2>3, Zenon DEF made
<1>3. ASSUME Computed PROVE ListsComplete
  BY <1>1, <1>2, <1>3, Zenon DEF ListsComplete
<1> QED BY <1>3, ComputedAlways, PTL

-----------------------------------------------------------------------------
(* The name in a DNS question                                              *)

\* The sequence t is s, then e, then l.
Joins(t, s, e, l) ==
  /\ Len(t) = (Len(s) + 1) + Len(l)
  /\ \A i \in 1..Len(s) : t[i] = s[i]
  /\ t[Len(s) + 1] = e
  /\ \A i \in 1..Len(l) : t[(Len(s) + 1) + i] = l[i]

\* A sequence with another behind it, and an element between them.
LEMMA Joined ==
  ASSUME NEW s \in Seq(Nat), NEW e \in Nat, NEW l \in Seq(Nat)
  PROVE  /\ s \o (<<e>> \o l) \in Seq(Nat)
         /\ Joins(s \o (<<e>> \o l), s, e, l)
<1> DEFINE m == <<e>> \o l
           t == s \o m
           N == Len(s)
           L == Len(l)
<1>1. N \in Nat /\ L \in Nat
  OBVIOUS
<1>2. m \in Seq(Nat) /\ Len(m) = L + 1 /\ m[1] = e /\ \A i \in 1..L : m[i + 1] = l[i]
  OBVIOUS
<1> HIDE DEF m
<1>3. t \in Seq(Nat) /\ Len(t) = N + Len(m) /\ \A i \in 1..N : t[i] = s[i]
  <2>1. m \in Seq(Nat)
    BY <1>2
  <2>2. t \in Seq(Nat) /\ Len(t) = N + Len(m)
    BY <2>1
  <2>3. \A i \in 1..N : t[i] = s[i]
    BY <2>1
  <2> QED BY <2>2, <2>3
<1>4. \A i \in 1..Len(m) : t[N + i] = m[i]
  BY <1>2
<1> HIDE DEF t, N, L
<1>5. ASSUME NEW i \in 1..L PROVE t[(N + 1) + i] = l[i]
  <2>1. i + 1 \in 1..Len(m) /\ N + (i + 1) = (N + 1) + i
    BY <1>1, <1>2
  <2> QED BY <1>2, <1>4, <2>1
<1>6. Len(t) = (N + 1) + L /\ t[N + 1] = e
  BY <1>1, <1>2, <1>3, <1>4
<1> QED BY <1>3, <1>5, <1>6 DEF t, N, L, m, Joins

\* How k labels lie in a name W on the wire and in the host H: each begins at an
\* offset of its own, behind its length and behind a dot, and is the same in both.
Layout(o, k, W, H) ==
  /\ o \in [0..k -> Nat] /\ o[0] = 0
  /\ Len(W) = o[k] /\ Len(H) = o[k] - 1
  /\ \A j \in 0..(k - 1) :
       /\ o[j + 1] - (o[j] + 1) \in 1..255 /\ o[j + 1] <= o[k]
       /\ W[o[j] + 1] = o[j + 1] - (o[j] + 1)
       /\ \A i \in (o[j] + 1)..(o[j + 1] - 1) : W[i + 1] = H[i] /\ H[i] \in {97, 98}
  /\ \A j \in 1..(k - 1) : H[o[j]] = D!Dot

\* The numbers of a label that begins at a, ends in front of b, and is scanned
\* up to n.
LEMMA LabelEnds ==
  /\ \A a, b \in Nat : b - (a + 1) \in 1..255 => a + 2 <= b /\ b <= a + 256
  /\ \A a, n \in Nat : a <= n => /\ (a + 1) + (n - a) = n + 1 /\ (a + 1) - 1 = a
                                 /\ (n - a) + 1 = (n + 1) - a /\ (n + 1) - a \in Nat
  /\ \A a, b, n \in Nat : a <= n /\ n + 1 < b /\ b <= a + 256 => (n + 1) - a <= 255
  OBVIOUS

\* A label of letters, no more than a byte can tell.
Label(l) ==
  /\ l \in Seq(Nat) /\ Len(l) \in 1..255
  /\ \A i \in 1..Len(l) : l[i] \in {97, 98}

\* The first label.
LEMMA LayoutFirst ==
  ASSUME NEW l, Label(l)
  PROVE  \E o : Layout(o, 1, <<>> \o (<<Len(l)>> \o l), l)
<1> DEFINE L == Len(l)
           W == <<>> \o (<<L>> \o l)
           o == [j \in 0..1 |-> IF j = 0 THEN 0 ELSE L + 1]
<1>1. l \in Seq(Nat) /\ L \in 1..255
  BY Zenon DEF Label
<1>2. \A i \in 1..L : l[i] \in {97, 98}
  BY Zenon DEF Label
<1>3. Joins(W, <<>>, L, l) /\ Len(<<>>) = 0
  <2>1. <<>> \in Seq(Nat) /\ Len(<<>>) = 0 /\ L \in Nat
    BY <1>1
  <2> HIDE DEF L
  <2> QED BY <1>1, <2>1, Joined
<1> HIDE DEF W, L
<1>4. Len(W) = L + 1 /\ W[1] = L /\ \A i \in 1..L : W[i + 1] = l[i]
  <2>1. /\ Len(W) = (0 + 1) + L /\ W[0 + 1] = L /\ \A i \in 1..L : W[(0 + 1) + i] = l[i]
    BY <1>3, Zenon DEF Joins, L
  <2>2. \A i \in 1..L : (0 + 1) + i = i + 1
    BY <1>1
  <2> QED BY <1>1, <2>1, <2>2
<1>5. o \in [0..1 -> Nat] /\ o[0] = 0 /\ o[1] = L + 1
  BY <1>1
<1> HIDE DEF o
<1>6. Len(l) = o[1] - 1 /\ Len(W) = o[1]
  <2>1. Len(l) = L
    BY DEF L
  <2> QED BY <1>1, <1>4, <1>5, <2>1
<1>7. ASSUME NEW j \in 0..(1 - 1)
      PROVE  /\ o[j + 1] - (o[j] + 1) \in 1..255 /\ o[j + 1] <= o[1]
             /\ W[o[j] + 1] = o[j + 1] - (o[j] + 1)
             /\ \A i \in (o[j] + 1)..(o[j + 1] - 1) : W[i + 1] = l[i] /\ l[i] \in {97, 98}
  <2>1. j = 0 /\ j + 1 = 1
    OBVIOUS
  <2>2. o[j] = 0 /\ o[j + 1] = L + 1
    BY <1>5, <2>1
  <2>3. /\ L + 1 \in Nat /\ (L + 1) - (0 + 1) = L /\ 0 + 1 = 1 /\ (L + 1) - 1 = L /\ L + 1 <= L + 1
    BY <1>1
  <2> QED BY <1>1, <1>2, <1>4, <1>5, <2>2, <2>3
<1>8. 1..(1 - 1) = {}
  OBVIOUS
<1>9. Layout(o, 1, W, l)
  BY <1>5, <1>6, <1>7, <1>8 DEF Layout
<1> QED BY <1>9 DEF W, L

\* W2 and H2 go on from W and H, which are n and n - 1 long, with a label of L.
Grows(W2, H2, W, H, n, L) ==
  /\ Len(W2) = (n + 1) + L /\ Len(H2) = n + L
  /\ \A i \in 1..n : W2[i] = W[i]
  /\ \A i \in 1..(n - 1) : H2[i] = H[i]
  /\ W2[n + 1] = L /\ H2[n] = D!Dot
  /\ \A i \in (n + 1)..(n + L) : W2[i + 1] = H2[i] /\ H2[i] \in {97, 98}

\* One label more, wherever its letters come from.
LEMMA LayoutGrows ==
  ASSUME NEW o, NEW k \in Nat \ {0}, NEW W, NEW H, NEW W2, NEW H2, NEW L \in 1..255,
         Layout(o, k, W, H), Grows(W2, H2, W, H, o[k], L)
  PROVE  \E p : Layout(p, k + 1, W2, H2)
<1> DEFINE n == o[k]
           p == [j \in 0..(k + 1) |-> IF j = k + 1 THEN (n + 1) + L ELSE o[j]]
<1>1. o \in [0..k -> Nat] /\ o[0] = 0
  BY Zenon DEF Layout
<1>2. n \in Nat /\ k \in 0..k
  BY <1>1
<1>3. /\ Len(W2) = (n + 1) + L /\ Len(H2) = n + L
      /\ \A i \in 1..n : W2[i] = W[i]
      /\ \A i \in 1..(n - 1) : H2[i] = H[i]
      /\ W2[n + 1] = L /\ H2[n] = D!Dot
      /\ \A i \in (n + 1)..(n + L) : W2[i + 1] = H2[i] /\ H2[i] \in {97, 98}
  BY Zenon DEF Grows
<1>4. /\ \A j \in 0..(k - 1) :
           /\ o[j + 1] - (o[j] + 1) \in 1..255 /\ o[j + 1] <= n
           /\ W[o[j] + 1] = o[j + 1] - (o[j] + 1)
           /\ \A i \in (o[j] + 1)..(o[j + 1] - 1) : W[i + 1] = H[i] /\ H[i] \in {97, 98}
      /\ \A j \in 1..(k - 1) : H[o[j]] = D!Dot
  BY Zenon DEF Layout
<1> DEFINE N == (n + 1) + L
<1>5. N \in Nat /\ N - (n + 1) = L /\ N - 1 = n + L /\ n <= N /\ N <= N
  <2> HIDE DEF n
  <2> QED BY <1>2
<1> HIDE DEF n, N
<1>6. p \in [0..(k + 1) -> Nat] /\ p[0] = 0 /\ p[k + 1] = N /\ \A j \in 0..k : p[j] = o[j]
  <2>1. p = [j \in 0..(k + 1) |-> IF j = k + 1 THEN N ELSE o[j]]
    BY DEF N
  <2> HIDE DEF p
  <2>2. \A j \in 0..k : j # k + 1 /\ j \in 0..(k + 1)
    OBVIOUS
  <2>3. \A j \in 0..(k + 1) : j = k + 1 \/ j \in 0..k
    OBVIOUS
  <2>4. k + 1 \in 0..(k + 1) /\ 0 \in 0..k
    OBVIOUS
  <2> QED BY <1>1, <1>5, <2>1, <2>2, <2>3, <2>4
<1> HIDE DEF p
<1>7. ASSUME NEW j \in 0..((k + 1) - 1)
      PROVE  /\ p[j + 1] - (p[j] + 1) \in 1..255 /\ p[j + 1] <= p[k + 1]
             /\ W2[p[j] + 1] = p[j + 1] - (p[j] + 1)
             /\ \A i \in (p[j] + 1)..(p[j + 1] - 1) : W2[i + 1] = H2[i] /\ H2[i] \in {97, 98}
  <2>1. CASE j = k
    <3>1. p[j] = n /\ p[j + 1] = N
      BY <1>2, <1>6, <2>1 DEF n
    <3>2. N - (n + 1) \in 1..255 /\ N <= p[k + 1] /\ W2[n + 1] = N - (n + 1)
      BY <1>3, <1>5, <1>6
    <3>3. \A i \in (n + 1)..(N - 1) : W2[i + 1] = H2[i] /\ H2[i] \in {97, 98}
      BY <1>3, <1>5
    <3> QED BY <3>1, <3>2, <3>3, Zenon
  <2>2. CASE j # k
    <3>1. j \in 0..(k - 1) /\ j \in 0..k /\ j + 1 \in 0..k
      BY <2>2
    <3> DEFINE a == o[j]
               b == o[j + 1]
    <3>2. p[j] = a /\ p[j + 1] = b /\ a \in Nat /\ b \in Nat
      BY <1>1, <1>6, <3>1
    <3>3. b - (a + 1) \in 1..255 /\ b <= n /\ W[a + 1] = b - (a + 1)
      BY <1>4, <3>1
    <3>4. \A i \in (a + 1)..(b - 1) : W[i + 1] = H[i] /\ H[i] \in {97, 98}
      BY <1>4, <3>1
    <3> HIDE DEF a, b
    <3>5. b <= N /\ a + 2 <= b
      BY <1>2, <1>5, <3>2, <3>3, LabelEnds
    <3>6. W2[a + 1] = W[a + 1]
      <4>1. a + 1 \in 1..n
        BY <1>2, <3>2, <3>3, <3>5
      <4> QED BY <1>3, <4>1
    <3>7. ASSUME NEW i \in (a + 1)..(b - 1) PROVE W2[i + 1] = H2[i] /\ H2[i] \in {97, 98}
      <4>1. i + 1 \in 1..n /\ i \in 1..(n - 1)
        BY <1>2, <3>2, <3>3
      <4>2. W2[i + 1] = W[i + 1] /\ H2[i] = H[i]
        BY <1>3, <4>1
      <4> QED BY <3>4, <4>2
    <3> QED BY <1>6, <3>2, <3>3, <3>5, <3>6, <3>7
  <2> QED BY <2>1, <2>2
<1>8. ASSUME NEW j \in 1..((k + 1) - 1) PROVE H2[p[j]] = D!Dot
  <2>1. CASE j = k
    BY <1>2, <1>3, <1>6, <2>1 DEF n
  <2>2. CASE j # k
    <3>1. j \in 1..(k - 1) /\ j \in 0..(k - 1) /\ j + 1 \in 0..k /\ j \in 0..k
          /\ j - 1 \in 0..(k - 1) /\ (j - 1) + 1 = j /\ j - 1 \in 0..k
      BY <2>2
    <3> DEFINE z == o[j - 1]
               a == o[j]
               b == o[j + 1]
    <3>2. z \in Nat /\ a \in Nat /\ b \in Nat /\ p[j] = a
      BY <1>1, <1>6, <3>1
    <3>3. a - (z + 1) \in 1..255
      <4>1. o[(j - 1) + 1] - (z + 1) \in 1..255
        BY <1>4, <3>1
      <4> QED BY <3>1, <4>1
    <3>4. b - (a + 1) \in 1..255 /\ b <= n /\ H[a] = D!Dot
      BY <1>4, <3>1
    <3> HIDE DEF z, a, b
    <3>5. z + 2 <= a /\ a + 2 <= b
      BY <3>2, <3>3, <3>4, LabelEnds
    <3>6. a \in 1..(n - 1)
      BY <1>2, <3>2, <3>4, <3>5
    <3> QED BY <1>3, <3>2, <3>4, <3>6
  <2> QED BY <2>1, <2>2
<1>9. Len(W2) = p[k + 1] /\ Len(H2) = p[k + 1] - 1
  BY <1>3, <1>5, <1>6 DEF N
<1> QED BY <1>6, <1>7, <1>8, <1>9, Zenon DEF Layout

\* One label more.
LEMMA LayoutMore ==
  ASSUME NEW l, Label(l), NEW o, NEW k \in Nat \ {0}, NEW W, NEW H,
         W \in Seq(Nat) /\ H \in Seq(Nat), Layout(o, k, W, H)
  PROVE  \E p : Layout(p, k + 1, W \o (<<Len(l)>> \o l), H \o (<<D!Dot>> \o l))
<1> DEFINE L == Len(l)
           n == o[k]
           W2 == W \o (<<L>> \o l)
           H2 == H \o (<<D!Dot>> \o l)
           m == Len(H)
<1>1. l \in Seq(Nat) /\ L \in 1..255
  BY Zenon DEF Label
<1>2. \A i \in 1..L : l[i] \in {97, 98}
  BY Zenon DEF Label
<1>3. Len(W) = n /\ m = n - 1
  BY Zenon DEF Layout
<1>4. n \in Nat /\ m \in Nat /\ L \in Nat /\ D!Dot \in Nat
  <2>1. Len(W) \in Nat /\ Len(H) \in Nat
    OBVIOUS
  <2> QED BY <1>1, <1>3, <2>1 DEF D!Dot
<1>5. Joins(W2, W, L, l) /\ Joins(H2, H, D!Dot, l)
  <2> HIDE DEF L
  <2> QED BY <1>1, <1>4, Joined
<1> HIDE DEF W2, H2, n
<1>6. /\ Len(W2) = (n + 1) + L
      /\ \A i \in 1..n : W2[i] = W[i]
      /\ W2[n + 1] = L /\ \A i \in 1..L : W2[(n + 1) + i] = l[i]
  BY <1>3, <1>5, Zenon DEF Joins
<1>7. /\ Len(H2) = (m + 1) + L
      /\ \A i \in 1..m : H2[i] = H[i]
      /\ H2[m + 1] = D!Dot /\ \A i \in 1..L : H2[(m + 1) + i] = l[i]
  BY <1>5, Zenon DEF Joins
<1> HIDE DEF L, m
<1>8. m + 1 = n
  BY <1>3, <1>4
<1>9. ASSUME NEW i \in (n + 1)..(n + L) PROVE W2[i + 1] = H2[i] /\ H2[i] \in {97, 98}
  <2> DEFINE x == i - n
  <2>1. x \in 1..L /\ n + x = i /\ (n + 1) + x = i + 1
    BY <1>4
  <2> HIDE DEF x
  <2>2. W2[(n + 1) + x] = l[x] /\ H2[n + x] = l[x] /\ l[x] \in {97, 98}
    BY <1>2, <1>6, <1>7, <1>8, <2>1
  <2> QED BY <2>1, <2>2
<1>10. Grows(W2, H2, W, H, n, L)
  BY <1>3, <1>6, <1>7, <1>8, <1>9, Zenon DEF Grows
<1>11. \E p : Layout(p, k + 1, W2, H2)
  <2>1. Grows(W2, H2, W, H, o[k], L)
    BY <1>10 DEF n
  <2> QED BY <1>1, <2>1, LayoutGrows
<1> QED BY <1>11 DEF W2, H2, L

\* A name: some labels.
Lettered(labels) ==
  /\ labels \in Seq(Seq(Nat)) /\ Len(labels) # 0
  /\ \A i \in 1..Len(labels) : Label(labels[i])

\* Any labels, on the wire and in the host.
LEMMA LayoutOf ==
  ASSUME NEW labels, Lettered(labels)
  PROVE  \E o, W : /\ W \in Seq(Nat) /\ D!Dotted(labels) \in Seq(Nat)
                   /\ Layout(o, Len(labels), W, D!Dotted(labels))
                   /\ D!Wire(labels, D!End) = W \o <<0>>
<1> DEFINE K == Len(labels)
           w == [i \in 1..K |-> <<Len(labels[i])>> \o labels[i]]
           h == [i \in 1..K |-> IF i = 1 THEN labels[i] ELSE <<D!Dot>> \o labels[i]]
<1>1. labels \in Seq(Seq(Nat)) /\ K \in Nat \ {0}
  BY DEF Lettered
<1>2. ASSUME NEW i \in 1..K
      PROVE  labels[i] \in Seq(Nat) /\ w[i] \in Seq(Nat) /\ h[i] \in Seq(Nat)
  <2>1. labels[i] \in Seq(Nat)
    BY <1>1, ElementOfSeq
  <2>2. D!Dot \in Nat /\ Len(labels[i]) \in Nat
    BY <2>1 DEF D!Dot
  <2> QED BY <2>1, <2>2
<1>3. w \in Seq(Seq(Nat)) /\ Len(w) = K /\ h \in Seq(Seq(Nat)) /\ Len(h) = K
  <2> HIDE DEF w, h
  <2>1. w = [i \in 1..K |-> w[i]] /\ h = [i \in 1..K |-> h[i]]
    BY DEF w, h
  <2> HIDE DEF K
  <2>2. w \in [1..K -> Seq(Nat)] /\ h \in [1..K -> Seq(Nat)]
    BY <1>2, <2>1
  <2>3. ASSUME NEW q \in [1..K -> Seq(Nat)] PROVE q \in Seq(Seq(Nat)) /\ Len(q) = K
    BY <1>1
  <2> QED BY <2>2, <2>3
<1>4. \A i \in 1..K : /\ w[i] = <<Len(labels[i])>> \o labels[i]
                      /\ i = 1 => h[i] = labels[i]
                      /\ i # 1 => h[i] = <<D!Dot>> \o labels[i]
  OBVIOUS
<1>5. D!Wire(labels, D!End) = FlattenSeq(w) \o <<0>> /\ D!Dotted(labels) = FlattenSeq(h)
  <2>1. D!FlattenSeq(w) = FlattenSeq(w) /\ D!FlattenSeq(h) = FlattenSeq(h)
    BY Zenon DEF D!FlattenSeq, FlattenSeq
  <2>2. D!Wire(labels, D!End) = D!FlattenSeq(w) \o <<0>> /\ D!Dotted(labels) = D!FlattenSeq(h)
    BY Zenon DEF D!Wire, D!End, D!Dotted
  <2> QED BY <2>1, <2>2
<1> HIDE DEF w, h
<1>6. PICK f \in [Nat -> Seq(Nat)] :
        /\ f[0] = <<>> /\ \A n \in 1..Len(w) : f[n] = f[n - 1] \o w[n]
        /\ FlattenSeq(w) = f[Len(w)]
  BY <1>3, Flattening, Zenon
<1>7. PICK g \in [Nat -> Seq(Nat)] :
        /\ g[0] = <<>> /\ \A n \in 1..Len(h) : g[n] = g[n - 1] \o h[n]
        /\ FlattenSeq(h) = g[Len(h)]
  BY <1>3, Flattening, Zenon
<1> DEFINE T == {n \in Nat : n + 1 \in 1..K => \E o : Layout(o, n + 1, f[n + 1], g[n + 1])}
<1>8. 0 \in T
  <2> DEFINE l == labels[1]
  <2>1. 1 \in 1..K /\ 1 - 1 = 0
    BY <1>1
  <2>2. Label(l) /\ l \in Seq(Nat)
    BY <1>2, <2>1 DEF Lettered
  <2>3. f[1] = f[1 - 1] \o w[1] /\ g[1] = g[1 - 1] \o h[1]
    BY <1>3, <1>6, <1>7, <2>1
  <2>4. w[1] = <<Len(l)>> \o l /\ h[1] = l
    BY <1>4, <2>1
  <2>5. f[1] = <<>> \o (<<Len(l)>> \o l)
    BY <1>6, <2>1, <2>3, <2>4
  <2> HIDE DEF l
  <2>6. g[1] = l
    <3>1. g[1] = <<>> \o l
      BY <1>7, <2>1, <2>3, <2>4
    <3> QED BY <2>2, <3>1
  <2>7. \E o : Layout(o, 1, f[1], g[1])
    BY <2>2, <2>5, <2>6, LayoutFirst, Zenon
  <2>8. 0 + 1 = 1
    OBVIOUS
  <2> QED BY <2>7, <2>8
<1>9. ASSUME NEW n \in Nat, n \in T PROVE n + 1 \in T
  <2> DEFINE k == n + 1
             l == labels[k + 1]
  <2> SUFFICES ASSUME k + 1 \in 1..K PROVE \E o : Layout(o, k + 1, f[k + 1], g[k + 1])
    OBVIOUS
  <2>1. k \in Nat \ {0} /\ k \in 1..K /\ (k + 1) - 1 = k /\ k + 1 # 1
    <3> HIDE DEF K
    <3> QED BY <1>1
  <2>2. PICK o : Layout(o, k, f[k], g[k])
    BY <1>9, <2>1
  <2>3. Label(l)
    BY DEF Lettered
  <2> HIDE DEF k
  <2>4. f[k + 1] = f[k] \o w[k + 1] /\ g[k + 1] = g[k] \o h[k + 1]
    <3>1. f[k + 1] = f[(k + 1) - 1] \o w[k + 1] /\ g[k + 1] = g[(k + 1) - 1] \o h[k + 1]
      BY <1>3, <1>6, <1>7
    <3> QED BY <2>1, <3>1
  <2>5. w[k + 1] = <<Len(l)>> \o l /\ h[k + 1] = <<D!Dot>> \o l
    BY <1>4, <2>1
  <2> HIDE DEF l
  <2>6. f[k] \in Seq(Nat) /\ g[k] \in Seq(Nat)
    BY <1>6, <1>7, <2>1
  <2>7. \E p : Layout(p, k + 1, f[k] \o (<<Len(l)>> \o l), g[k] \o (<<D!Dot>> \o l))
    <3>1. k \in Nat \ {0} /\ Label(l)
      BY <2>1, <2>3
    <3> DEFINE W == f[k]
               H == g[k]
    <3>2. W \in Seq(Nat) /\ H \in Seq(Nat) /\ Layout(o, k, W, H)
      BY <2>2, <2>6
    <3> HIDE DEF W, H
    <3>3. \E p : Layout(p, k + 1, W \o (<<Len(l)>> \o l), H \o (<<D!Dot>> \o l))
      BY <3>1, <3>2, LayoutMore
    <3> QED BY <3>3 DEF W, H
  <2> QED BY <2>4, <2>5, <2>7
<1>10. \E o : Layout(o, K, f[K], g[K])
  <2> HIDE DEF T
  <2>1. Nat \subseteq T
    BY <1>8, <1>9, SetInduction
  <2>2. K - 1 \in Nat /\ (K - 1) + 1 = K /\ K \in 1..K
    BY <1>1
  <2>3. K - 1 \in T
    BY <2>1, <2>2
  <2> QED BY <2>2, <2>3 DEF T
<1>11. f[K] \in Seq(Nat) /\ g[K] \in Seq(Nat)
  BY <1>1, <1>6, <1>7
<1> HIDE DEF K
<1>12. D!Wire(labels, D!End) = f[K] \o <<0>> /\ D!Dotted(labels) = g[K]
  BY <1>3, <1>5, <1>6, <1>7
<1> QED BY <1>10, <1>11, <1>12 DEF K

\* The loop over the host: after n of its bytes k labels have their length.
Scanned(s, n, k, o, K, W, H) ==
  /\ o[k] <= n /\ (k < K => n < o[k + 1])
  /\ s.ptr = o[k] + 1 /\ s.len = n - o[k]
  /\ s.buffer \in [0..o[K] -> Nat]
  /\ \A i \in 0..o[K] : s.buffer[i] = IF i < o[k] THEN W[i + 1] ELSE D!Copied(H)[i]

\* A byte holds what is less than 256.
LEMMA ByteHolds == \A x \in Nat : x <= 255 => x % 256 = x
  BY SMT

\* A byte more.
LEMMA ScannedNext ==
  ASSUME NEW o, NEW K \in Nat \ {0}, NEW W \in Seq(Nat), NEW H \in Seq(Nat), Layout(o, K, W, H),
         NEW n \in 0..(o[K] - 1), NEW k \in 0..K, NEW s, Scanned(s, n, k, o, K, W, H),
         s = [buffer |-> s.buffer, ptr |-> s.ptr, len |-> s.len]
  PROVE  \E c \in 0..K : Scanned(D!Scan(s), n + 1, c, o, K, W, H)
<1> DEFINE M == o[K]
           C == D!Copied(H)
           a == o[k]
           b == o[k + 1]
           t == D!Scan(s)
           buffer == s.buffer
<1>1. M \in Nat /\ Len(H) = M - 1 /\ o \in [0..K -> Nat]
  BY DEF Layout
<1>2. \A i \in 0..M : C[i] = IF i \in 1..(M - 1) THEN H[i] ELSE 0
  <2>1. M - 1 \in Nat /\ (M - 1) + 1 = M
    <3>1. Len(H) \in Nat
      OBVIOUS
    <3> HIDE DEF M
    <3> QED BY <1>1, <3>1
  <2>2. C = [i \in 0..(Len(H) + 1) |-> IF i \in 1..Len(H) THEN H[i] ELSE 0]
    BY DEF D!Copied
  <2> HIDE DEF M, C
  <2> QED BY <1>1, <2>1, <2>2
<1>3. k \in 0..(K - 1) /\ k + 1 \in 0..K /\ k \in 0..K
  <2>1. k # K
    <3>1. k = K => M <= n /\ n <= M - 1
      BY DEF Scanned
    <3> HIDE DEF M
    <3> QED BY <1>1, <3>1
  <2> QED BY <2>1
<1>4. a \in Nat /\ b \in Nat
  BY <1>1, <1>3
<1>5. /\ b - (a + 1) \in 1..255 /\ b <= M
      /\ W[a + 1] = b - (a + 1)
      /\ \A i \in (a + 1)..(b - 1) : W[i + 1] = H[i] /\ H[i] \in {97, 98}
  BY <1>3 DEF Layout
<1>6. a <= n /\ n < b
  BY <1>3 DEF Scanned
<1>7. /\ s.ptr = a + 1 /\ s.len = n - a /\ buffer \in [0..M -> Nat]
      /\ \A i \in 0..M : buffer[i] = IF i < a THEN W[i + 1] ELSE C[i]
  BY DEF Scanned
<1>8. b < M => H[b] = D!Dot /\ k + 1 # K
  <2>1. k + 1 = K => b = M
    BY Zenon
  <2>2. k + 1 # K => k + 1 \in 1..(K - 1)
    BY <1>3
  <2>3. k + 1 # K => H[b] = D!Dot
    BY <2>2 DEF Layout
  <2> HIDE DEF b, M
  <2> QED BY <1>1, <1>4, <2>1, <2>3
<1>9. k + 1 < K => k + 1 \in 0..(K - 1) /\ b < o[(k + 1) + 1]
  <2> SUFFICES ASSUME k + 1 < K PROVE k + 1 \in 0..(K - 1) /\ b < o[(k + 1) + 1]
    OBVIOUS
  <2>1. k + 1 \in 0..(K - 1) /\ (k + 1) + 1 \in 0..K
    BY <1>3
  <2> DEFINE e == o[(k + 1) + 1]
  <2>2. e \in Nat
    BY <1>1, <2>1
  <2>3. e - (b + 1) \in 1..255
    BY <2>1 DEF Layout
  <2>5. b \in Nat
    BY <1>4
  <2> HIDE DEF e, b
  <2>4. b < e
    <3>1. b + 2 <= e
      BY <2>2, <2>3, <2>5, LabelEnds
    <3> QED BY <2>2, <2>5, <3>1
  <2> QED BY <2>1, <2>4 DEF e
<1>17. a + 2 <= b /\ b <= a + 256 /\ b <= M
  <2>1. b - (a + 1) \in 1..255 /\ b <= M /\ a \in Nat /\ b \in Nat
    BY <1>4, <1>5
  <2> HIDE DEF a, b, M
  <2> QED BY <2>1, LabelEnds
<1>18. M \in Nat
  BY <1>1
<1>10. b = M \/ b < M
  <2>1. b \in Nat /\ M \in Nat
    BY <1>1, <1>4
  <2> HIDE DEF b, M
  <2> QED BY <1>17, <2>1
<1>11. \A i : D!Char(buffer, i) = IF i \in 0..M THEN buffer[i] ELSE 0
  BY <1>7 DEF D!Char
<1> HIDE DEF M, C, a, b, buffer
<1>12. n \in Nat /\ s.ptr + s.len = n + 1 /\ s.ptr - 1 = a /\ (s.ptr + s.len) + 1 = (n + 1) + 1
  <2>1. n \in Nat
    OBVIOUS
  <2>2. s.ptr = a + 1 /\ s.len = n - a
    BY <1>7
  <2> QED BY <1>4, <1>6, <2>1, <2>2, LabelEnds
<1>13. D!Char(buffer, s.ptr) # 0
  <2>1. a + 1 \in 0..M /\ a + 1 \in (a + 1)..(b - 1) /\ ~(a + 1 < a) /\ a + 1 \in 1..(M - 1)
    BY <1>4, <1>17, <1>18
  <2>2. buffer[a + 1] = H[a + 1] /\ H[a + 1] \in {97, 98}
    BY <1>2, <1>5, <1>7, <2>1
  <2> QED BY <1>7, <1>11, <2>1, <2>2
<1>14. CASE n + 1 = b
  <2> DEFINE B == [buffer EXCEPT ![a] = n - a]
  <2>1. D!Char(buffer, n + 1) \in {D!Dot, 0}
    <3>1. n + 1 \in 0..M /\ ~(n + 1 < a)
      BY <1>1, <1>4, <1>5, <1>6, <1>12, <1>14
    <3>2. D!Char(buffer, n + 1) = C[b]
      BY <1>7, <1>11, <1>14, <3>1
    <3>3. CASE b = M
      <4>1. M \notin 1..(M - 1)
        BY <1>1
      <4>2. C[b] = 0
        BY <1>2, <1>14, <3>1, <3>3, <4>1
      <4> QED BY <3>2, <4>2
    <3>4. CASE b < M
      <4>1. b \in 1..(M - 1)
        BY <1>4, <1>17, <1>18, <3>4
      <4>2. C[b] = D!Dot
        BY <1>2, <1>8, <1>14, <3>1, <3>4, <4>1
      <4> QED BY <3>2, <4>2
    <3> QED BY <1>10, <3>3, <3>4
  <2>2. t = [buffer |-> B, ptr |-> (n + 1) + 1, len |-> 0]
    <3>1. t = IF D!Char(buffer, s.ptr) = 0 THEN s
              ELSE IF D!Char(buffer, s.ptr + s.len) \in {D!Dot, 0}
              THEN [buffer |-> [buffer EXCEPT ![s.ptr - 1] = s.len], ptr |-> s.ptr + s.len + 1, len |-> 0]
              ELSE [s EXCEPT !.len = (s.len + 1) % 256]
      BY Zenon DEF D!Scan, buffer
    <3>2. s.len = n - a
      BY <1>7
    <3> HIDE DEF t
    <3>3. D!Char(buffer, s.ptr + s.len) \in {D!Dot, 0}
      BY <1>12, <2>1
    <3>4. t = [buffer |-> [buffer EXCEPT ![s.ptr - 1] = s.len], ptr |-> s.ptr + s.len + 1, len |-> 0]
      BY <1>13, <3>1, <3>3, Zenon
    <3>5. s.ptr - 1 = a /\ s.ptr + s.len + 1 = (n + 1) + 1
      BY <1>12
    <3> QED BY <3>2, <3>4, <3>5
  <2>3. B \in [0..M -> Nat]
    <3> DEFINE x == n - a
    <3>1. x \in Nat
      BY <1>4, <1>6, <1>12
    <3>2. buffer \in [0..M -> Nat]
      BY <1>7
    <3> HIDE DEF x
    <3>3. [buffer EXCEPT ![a] = x] \in [0..M -> Nat]
      BY <3>1, <3>2
    <3> QED BY <3>3 DEF x
  <2>4. ASSUME NEW i \in 0..M PROVE B[i] = IF i < b THEN W[i + 1] ELSE C[i]
    <3>1. CASE i = a
      <4>1. n - a = b - (a + 1) /\ a < b
        BY <1>4, <1>6, <1>12, <1>14
      <4>2. B[i] = n - a
        BY <1>7, <3>1
      <4> QED BY <1>5, <3>1, <4>1, <4>2
    <3>2. CASE i < a
      <4>1. i < b /\ i # a
        BY <1>4, <1>6, <1>12, <3>2
      <4> QED BY <1>7, <3>2, <4>1
    <3>3. CASE a < i /\ i < b
      <4>1. i \in (a + 1)..(b - 1) /\ ~(i < a) /\ i # a /\ i \in 1..(M - 1)
        BY <1>4, <1>17, <1>18, <3>3
      <4>2. B[i] = C[i] /\ C[i] = H[i] /\ W[i + 1] = H[i]
        BY <1>2, <1>5, <1>7, <4>1
      <4> QED BY <3>3, <4>2
    <3>4. CASE b <= i
      <4>1. ~(i < b) /\ ~(i < a) /\ i # a
        BY <1>4, <1>6, <1>12, <3>4
      <4> QED BY <1>7, <4>1
    <3> QED BY <1>4, <3>1, <3>2, <3>3, <3>4
  <2>5. t.buffer = B /\ t.ptr = (n + 1) + 1 /\ t.len = 0
    BY <2>2
  <2> HIDE DEF t, B
  <2>6. 0 = (n + 1) - b /\ (n + 1) + 1 = b + 1 /\ b <= n + 1
    BY <1>4, <1>12, <1>14
  <2>7. Scanned(t, n + 1, k + 1, o, K, W, H)
    BY <1>9, <1>14, <2>3, <2>4, <2>5, <2>6 DEF Scanned, b, M, C
  <2> QED BY <1>3, <2>7 DEF t
<1>15. CASE n + 1 < b
  <2>1. n + 1 \in (a + 1)..(b - 1) /\ n + 1 \in 0..M /\ ~(n + 1 < a) /\ n + 1 \in 1..(M - 1)
    BY <1>4, <1>6, <1>12, <1>15, <1>17, <1>18
  <2>2. buffer[n + 1] = H[n + 1] /\ H[n + 1] \in {97, 98}
    BY <1>2, <1>5, <1>7, <2>1
  <2>3. D!Char(buffer, n + 1) \notin {D!Dot, 0}
    BY <1>11, <2>1, <2>2 DEF D!Dot
  <2>5. (s.len + 1) % 256 = (n + 1) - a
    <3> DEFINE x == (n + 1) - a
    <3>1. (n - a) + 1 = x /\ x \in Nat /\ x <= 255
      BY <1>4, <1>6, <1>12, <1>15, <1>17, LabelEnds
    <3>2. s.len = n - a
      BY <1>7
    <3> HIDE DEF x
    <3>3. x % 256 = x
      BY <3>1, ByteHolds
    <3> QED BY <3>1, <3>2, <3>3 DEF x
  <2>6. t = [s EXCEPT !.len = (n + 1) - a]
    BY <1>12, <1>13, <2>3, <2>5, Zenon DEF D!Scan, buffer
  <2>7. t.buffer = buffer /\ t.ptr = s.ptr /\ t.len = (n + 1) - a
    BY <2>6 DEF buffer
  <2> HIDE DEF t
  <2>8. a <= n + 1
    BY <1>4, <1>6, <1>12
  <2>9. Scanned(t, n + 1, k, o, K, W, H)
    BY <1>7, <1>15, <2>7, <2>8 DEF Scanned, a, b, M, C
  <2> QED BY <1>3, <2>9 DEF t
<1>16. n + 1 = b \/ n + 1 < b
  BY <1>4, <1>6, <1>12
<1> QED BY <1>14, <1>15, <1>16

\* The states of the loop, a buffer for M + 1 bytes.
LoopStates(M) == [buffer : [0..M -> Nat], ptr : Nat, len : Nat]

\* A step stays among them.
LEMMA ScanKept ==
  ASSUME NEW M \in Nat, NEW s \in LoopStates(M)
  PROVE  D!Scan(s) \in LoopStates(M)
<1> DEFINE B == [s.buffer EXCEPT ![s.ptr - 1] = s.len]
           p == s.ptr + s.len + 1
           l == (s.len + 1) % 256
<1>1. s.buffer \in [0..M -> Nat] /\ s.ptr \in Nat /\ s.len \in Nat
      /\ s = [buffer |-> s.buffer, ptr |-> s.ptr, len |-> s.len]
  BY DEF LoopStates
<1>2. B \in [0..M -> Nat]
  BY <1>1
<1>3. p \in Nat /\ l \in Nat
  BY <1>1
<1>4. D!Scan(s) \in {s, [buffer |-> B, ptr |-> p, len |-> 0], [s EXCEPT !.len = l]}
  BY Zenon DEF D!Scan
<1> HIDE DEF B, p, l
<1>5. [buffer |-> B, ptr |-> p, len |-> 0] \in LoopStates(M)
  BY <1>2, <1>3 DEF LoopStates
<1>6. [s EXCEPT !.len = l] \in LoopStates(M)
  <2>1. [s EXCEPT !.len = l] = [buffer |-> s.buffer, ptr |-> s.ptr, len |-> l]
    BY <1>1
  <2> QED BY <1>1, <1>3, <2>1 DEF LoopStates
<1> QED BY <1>4, <1>5, <1>6

\* The loop of Question, from its start on, step by step.
Loops(f, H) ==
  f = [n \in 0..(Len(H) + 1) |->
         IF n = 0 THEN [buffer |-> D!Copied(H), ptr |-> 1, len |-> 0] ELSE D!Scan(f[n - 1])]

\* The loop has all its steps, and the question is what the last one leaves.
LEMMA QuestionLoops ==
  ASSUME NEW H \in Seq(Nat)
  PROVE  \E f : /\ f \in [0..(Len(H) + 1) -> LoopStates(Len(H) + 1)]
                /\ Loops(f, H) /\ D!Question(H) = f[Len(H) + 1].buffer
<1> DEFINE M == Len(H) + 1
           S == LoopStates(M)
           base == [buffer |-> D!Copied(H), ptr |-> 1, len |-> 0]
           made == [i \in 1..M |-> 0]
           step == [p \in S \X {0} |-> D!Scan(p[1])]
<1>1. M \in Nat
  OBVIOUS
<1>2. base \in S
  <2>1. \A i \in 0..M : (IF i \in 1..Len(H) THEN H[i] ELSE 0) \in Nat
    OBVIOUS
  <2>2. D!Copied(H) \in [0..M -> Nat]
    BY <2>1 DEF D!Copied
  <2> HIDE DEF M
  <2> QED BY <2>2 DEF LoopStates
<1> HIDE DEF M
<1>3. made \in Seq({0}) /\ Len(made) = M /\ \A i \in 1..M : made[i] = 0
  BY <1>1
<1>4. step \in [S \X {0} -> S]
  <2>1. \A p \in S \X {0} : D!Scan(p[1]) \in S
    BY <1>1, ScanKept
  <2> QED BY <2>1
<1> HIDE DEF S
<1>5. PICK f : Iterates(f, S, made, base, step)
  <2> HIDE DEF made, base, step
  <2> QED BY <1>2, <1>3, <1>4, Iteration
<1>6. f \in [0..M -> S] /\ f = [n \in 0..M |-> IF n = 0 THEN base ELSE step[<<f[n - 1], made[n]>>]]
  <2> HIDE DEF made, base, step
  <2> QED BY <1>3, <1>5 DEF Iterates
<1>7. ASSUME NEW n \in 0..M PROVE f[n] = IF n = 0 THEN base ELSE D!Scan(f[n - 1])
  <2>1. CASE n = 0
    <3> HIDE DEF base
    <3> QED BY <1>6, <2>1
  <2>2. CASE n # 0
    <3>1. n - 1 \in 0..M /\ n \in 1..M
      BY <1>1, <2>2
    <3>2. f[n] = step[<<f[n - 1], made[n]>>]
      <4> HIDE DEF base, step, made
      <4> QED BY <1>6, <2>2
    <3>3. f[n - 1] \in S /\ made[n] = 0
      BY <1>3, <1>6, <3>1
    <3>4. <<f[n - 1], 0>> \in S \X {0}
      BY <3>3
    <3>5. step[<<f[n - 1], 0>>] = D!Scan(f[n - 1])
      BY <3>4
    <3> QED BY <2>2, <3>2, <3>3, <3>5
  <2> QED BY <2>1, <2>2
<1>8. Loops(f, H)
  <2>1. f = [n \in 0..M |-> f[n]]
    BY <1>6
  <2>2. f = [n \in 0..M |-> IF n = 0 THEN base ELSE D!Scan(f[n - 1])]
    BY <1>7, <2>1
  <2> QED BY <2>2, Zenon DEF Loops, M
<1>9. PICK g : Loops(g, H) /\ D!Question(H) = g[Len(H) + 1].buffer
  <2> DEFINE h == CHOOSE q : Loops(q, H)
  <2>1. Loops(h, H)
    BY <1>8, Zenon
  <2>2. D!Question(H) = h[Len(H) + 1].buffer
    BY Zenon DEF D!Question, Loops
  <2> QED BY <2>1, <2>2
<1>10. \A n \in Nat : n <= M => g[n] = f[n]
  <2> DEFINE T == {n \in Nat : n <= M => g[n] = f[n]}
  <2>1. ASSUME NEW n \in 0..M PROVE g[n] = IF n = 0 THEN base ELSE D!Scan(g[n - 1])
    BY <1>9, Zenon DEF Loops, M
  <2> HIDE DEF base
  <2>2. 0 \in T
    <3>1. 0 \in 0..M
      BY <1>1
    <3> QED BY <1>7, <2>1, <3>1
  <2>3. ASSUME NEW n \in Nat, n \in T PROVE n + 1 \in T
    <3> SUFFICES ASSUME n + 1 <= M PROVE g[n + 1] = f[n + 1]
      OBVIOUS
    <3>1. n + 1 \in 0..M /\ n + 1 # 0 /\ (n + 1) - 1 = n /\ n <= M
      BY <1>1
    <3>2. g[n] = f[n]
      BY <2>3, <3>1
    <3>3. g[n + 1] = D!Scan(g[(n + 1) - 1]) /\ f[n + 1] = D!Scan(f[(n + 1) - 1])
      BY <1>7, <2>1, <3>1
    <3> QED BY <3>1, <3>2, <3>3
  <2> HIDE DEF T
  <2>4. Nat \subseteq T
    BY <2>2, <2>3, SetInduction
  <2> QED BY <2>4 DEF T
<1>11. D!Question(H) = f[M].buffer
  <2>1. g[M] = f[M]
    BY <1>1, <1>10
  <2>2. D!Question(H) = g[M].buffer
    BY <1>9 DEF M
  <2> QED BY <2>1, <2>2
<1> QED BY <1>6, <1>8, <1>11 DEF M, S

\* What the loop leaves is the name on the wire.
LEMMA QuestionIs ==
  ASSUME NEW labels, Lettered(labels)
  PROVE  /\ D!Wire(labels, D!End) \in Seq(Nat)
         /\ D!Question(D!Dotted(labels)) =
              [i \in 0..(Len(D!Wire(labels, D!End)) - 1) |-> D!Wire(labels, D!End)[i + 1]]
<1> DEFINE K == Len(labels)
           H == D!Dotted(labels)
           wire == D!Wire(labels, D!End)
           base == [buffer |-> D!Copied(H), ptr |-> 1, len |-> 0]
<1>1. PICK o, W : W \in Seq(Nat) /\ H \in Seq(Nat) /\ Layout(o, K, W, H) /\ wire = W \o <<0>>
  BY LayoutOf
<1>2. K \in Nat \ {0}
  BY DEF Lettered
<1> DEFINE M == o[K]
<1> HIDE DEF K, H, wire
<1>3. /\ M \in Nat /\ Len(H) = M - 1 /\ Len(W) = M /\ o[0] = 0 /\ o \in [0..K -> Nat]
  BY <1>1, <1>2 DEF Layout
<1>4. Len(H) + 1 = M /\ M # 0
  <2>1. Len(H) \in Nat
    BY <1>1
  <2> HIDE DEF M
  <2> QED BY <1>3, <2>1
<1>5. PICK f \in [0..M -> LoopStates(M)] : Loops(f, H) /\ D!Question(H) = f[M].buffer
  <2> HIDE DEF M
  <2> QED BY <1>1, <1>4, QuestionLoops
<1>6. f[0] = base /\ \A n \in 0..M : n # 0 => f[n] = D!Scan(f[n - 1])
  <2>1. f = [n \in 0..M |-> IF n = 0 THEN base ELSE D!Scan(f[n - 1])]
    BY <1>4, <1>5, Zenon DEF Loops
  <2> HIDE DEF M, base
  <2>2. 0 \in 0..M
    BY <1>3
  <2> QED BY <2>1, <2>2
<1>7. \A i \in 0..M : D!Copied(H)[i] \in Nat /\ D!Copied(H)[M] = 0
  <2> HIDE DEF M
  <2>1. D!Copied(H) = [i \in 0..M |-> IF i \in 1..Len(H) THEN H[i] ELSE 0]
    BY <1>4, Zenon DEF D!Copied
  <2>2. M \in 0..M /\ M \notin 1..Len(H)
    BY <1>3
  <2> QED BY <1>1, <2>1, <2>2
<1> DEFINE T == {n \in Nat : n <= M => \E k \in 0..K : Scanned(f[n], n, k, o, K, W, H)}
<1>8. 0 \in T
  <2>1. f[0].buffer = D!Copied(H) /\ f[0].ptr = 1 /\ f[0].len = 0
    BY <1>6
  <2>2. 0 \in 0..M /\ f[0] \in LoopStates(M)
    <3> HIDE DEF M
    <3> QED BY <1>3, <1>5
  <2>3. f[0].buffer \in [0..M -> Nat]
    BY <2>2 DEF LoopStates
  <2>4. 0 < K => 0 < o[0 + 1]
    <3>1. 0 \in 0..(K - 1) /\ 0 + 1 \in 0..K
      BY <1>2
    <3> DEFINE b == o[0 + 1]
    <3>2. b - (o[0] + 1) \in 1..255
      BY <1>1, <3>1 DEF Layout
    <3>3. b \in Nat
      BY <1>3, <3>1
    <3> HIDE DEF b
    <3>4. 0 < b
      BY <1>3, <3>2, <3>3
    <3> QED BY <3>4 DEF b
  <2>5. \A i \in 0..M : ~(i < o[0])
    <3> HIDE DEF M
    <3> QED BY <1>3
  <2>6. Scanned(f[0], 0, 0, o, K, W, H)
    <3>1. o[0] <= 0 /\ 1 = o[0] + 1 /\ 0 = 0 - o[0]
      BY <1>3
    <3> QED BY <2>1, <2>3, <2>4, <2>5, <3>1 DEF Scanned
  <2>7. 0 \in 0..K
    BY <1>2
  <2> QED BY <2>6, <2>7
<1>9. ASSUME NEW n \in Nat, n \in T PROVE n + 1 \in T
  <2> SUFFICES ASSUME n + 1 <= M PROVE \E k \in 0..K : Scanned(f[n + 1], n + 1, k, o, K, W, H)
    OBVIOUS
  <2>1. n <= M /\ n \in 0..(M - 1) /\ n \in 0..M /\ n + 1 \in 0..M /\ n + 1 # 0 /\ (n + 1) - 1 = n
    <3> HIDE DEF M
    <3> QED BY <1>3
  <2>2. PICK k \in 0..K : Scanned(f[n], n, k, o, K, W, H)
    BY <1>9, <2>1
  <2>3. f[n + 1] = D!Scan(f[n])
    <3>1. f[n + 1] = D!Scan(f[(n + 1) - 1])
      BY <1>6, <2>1
    <3> QED BY <2>1, <3>1
  <2> DEFINE s == f[n]
  <2>4. s = [buffer |-> s.buffer, ptr |-> s.ptr, len |-> s.len]
    <3>1. s \in LoopStates(M)
      BY <1>5, <2>1
    <3> HIDE DEF s
    <3> QED BY <3>1 DEF LoopStates
  <2>5. Scanned(s, n, k, o, K, W, H)
    BY <2>2
  <2> HIDE DEF s
  <2>6. \E c \in 0..K : Scanned(D!Scan(s), n + 1, c, o, K, W, H)
    BY <1>1, <1>2, <2>1, <2>4, <2>5, ScannedNext
  <2> QED BY <2>3, <2>6 DEF s
<1>10. PICK k \in 0..K : Scanned(f[M], M, k, o, K, W, H)
  <2> HIDE DEF T
  <2>1. Nat \subseteq T
    BY <1>8, <1>9, SetInduction
  <2>2. M \in T
    BY <1>3, <2>1
  <2>3. M <= M
    BY <1>3
  <2> QED BY <2>2, <2>3 DEF T
<1>11. k = K
  <2> SUFFICES ASSUME k # K PROVE FALSE
    OBVIOUS
  <2>1. k \in 0..(K - 1) /\ k < K /\ k + 1 \in 0..K
    BY <1>2
  <2>2. o[k + 1] <= M
    BY <1>1, <2>1 DEF Layout
  <2>3. M < o[k + 1]
    BY <1>10, <2>1 DEF Scanned
  <2> DEFINE b == o[k + 1]
  <2>4. b \in Nat
    BY <1>3, <2>1
  <2> HIDE DEF b, M
  <2> QED BY <1>3, <2>2, <2>3, <2>4 DEF b
<1> DEFINE B == f[M].buffer
<1>12. B \in [0..M -> Nat] /\ \A i \in 0..M : B[i] = IF i < M THEN W[i + 1] ELSE D!Copied(H)[i]
  BY <1>10, <1>11 DEF Scanned
<1> HIDE DEF B, M
<1>13. wire \in Seq(Nat) /\ Len(wire) = M + 1 /\ wire[M + 1] = 0 /\ \A i \in 1..M : wire[i] = W[i]
  BY <1>1, <1>3
<1>14. ASSUME NEW i \in 0..M PROVE B[i] = wire[i + 1]
  <2>1. CASE i < M
    <3>1. i + 1 \in 1..M
      BY <1>3, <2>1
    <3> QED BY <1>12, <1>13, <2>1, <3>1
  <2>2. CASE ~(i < M)
    <3>1. i = M
      BY <1>3, <2>2
    <3>2. B[i] = D!Copied(H)[M]
      BY <1>12, <2>2, <3>1
    <3> QED BY <1>7, <1>13, <3>1, <3>2
  <2> QED BY <2>1, <2>2
<1>15. Len(wire) - 1 = M
  <2>1. Len(wire) = M + 1
    BY <1>13
  <2> QED BY <1>3, <2>1
<1>16. B = [i \in 0..(Len(wire) - 1) |-> wire[i + 1]]
  <2>1. B = [i \in 0..M |-> B[i]]
    BY <1>12
  <2> QED BY <1>14, <1>15, <2>1
<1>17. D!Question(H) = B
  BY <1>5 DEF B
<1> QED BY <1>13, <1>16, <1>17 DEF wire, H

\* The names asked for are lettered.
LEMMA NamesLettered ==
  ASSUME NEW labels \in Names
  PROVE  Lettered(labels)
<1> DEFINE L == Sequences({97, 98}, MaxLabels) \ {<<>>}
<1>1. PICK k \in 0..MaxLabels : labels \in [1..k -> L]
  BY DEF Names, Sequences
<1>2. labels # <<>>
  BY DEF Names
<1>3. MaxLabels \in 0..255
  BY AlgorithmAssumption
<1>4. ASSUME NEW l \in L
      PROVE  l \in Seq(Nat) /\ Len(l) \in 1..255 /\ \A j \in 1..Len(l) : l[j] \in {97, 98}
  <2>1. PICK n \in 0..MaxLabels : l \in [1..n -> {97, 98}]
    BY DEF Sequences
  <2>2. n \in Nat /\ n <= 255
    BY <1>3
  <2>3. l \in Seq(Nat) /\ Len(l) = n /\ \A j \in 1..n : l[j] \in {97, 98}
    BY <2>1, <2>2
  <2>4. n # 0
    BY <2>3, EmptySeq
  <2> QED BY <2>2, <2>3, <2>4
<1> HIDE DEF L
<1>5. k \in Nat
  BY <1>3
<1>6. labels \in Seq(L) /\ Len(labels) = k
  BY <1>1, <1>5
<1>7. \A i \in 1..k : labels[i] \in L
  BY <1>1
<1>8. labels \in Seq(Seq(Nat))
  <2>1. labels \in [1..k -> Seq(Nat)]
    BY <1>1, <1>4
  <2> QED BY <1>5, <2>1
<1>9. k # 0
  BY <1>2, <1>6, EmptySeq
<1>10. \A i \in 1..k : Label(labels[i])
  BY <1>4, <1>7 DEF Label
<1> QED BY <1>6, <1>8, <1>9, <1>10 DEF Lettered

\* However many labels, of however many letters up to what a byte tells: the name
\* in the question is the host's, as RFC 1035 writes it.
THEOREM QuestionIsForHostCorrect == AlgorithmSpec => []QuestionIsForHost
<1>1. ASSUME Computed, Done("question") PROVE QuestionIsForHost
  <2> DEFINE labels == input.labels
  <2>1. Result = D!Question(D!Dotted(labels))
    BY <1>1 DEF Computed, Gives, Done, Result
  <2>2. labels \in Names
    BY <1>1, Kinds DEF Done, Questions
  <2> HIDE DEF labels
  <2>3. Result = [i \in 0..(Len(D!Wire(labels, D!End)) - 1) |-> D!Wire(labels, D!End)[i + 1]]
    BY <2>1, <2>2, NamesLettered, QuestionIs
  <2> QED BY <2>3, Zenon DEF QuestionIsForHost, labels
<1>2. Computed => QuestionIsForHost
  BY <1>1 DEF QuestionIsForHost
<1> QED BY <1>2, ComputedAlways, PTL
=============================================================================
