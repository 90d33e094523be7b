------------------------- MODULE CFSVerifierProofs --------------------------
(***************************************************************************)
(* Proofs about CFSVerifier, for every directory tree with any links,      *)
(* every list of calls and whatever changes in the file system.            *)
(***************************************************************************)
EXTENDS CFSVerifier, SequenceTheorems, TLAPS

-----------------------------------------------------------------------------
(* Reach                                                                   *)

\* What Reach gives is closed: it has the roots and where its members lead.
LEMMA ReachClosed ==
  ASSUME NEW roots, NEW next, NEW within
  PROVE  /\ Reach(roots, next, within) \subseteq within
         /\ roots \cap within \subseteq Reach(roots, next, within)
         /\ \A d \in Reach(roots, next, within) :
              next[d] \cap within \subseteq Reach(roots, next, within)
BY Zenon DEF Reach

\* No closed set is smaller.
LEMMA ReachLeast ==
  ASSUME NEW roots, NEW next, NEW within, NEW S \in SUBSET within,
         roots \cap within \subseteq S,
         \A d \in S : next[d] \cap within \subseteq S
  PROVE  Reach(roots, next, within) \subseteq S
BY Zenon DEF Reach

\* With less to go through less is reached.
LEMMA ReachShrinks ==
  ASSUME NEW roots, NEW next, NEW within, NEW part \in SUBSET within
  PROVE  Reach(roots, next, part) \subseteq Reach(roots, next, within)
<1> DEFINE R == Reach(roots, next, within)
<1>1. /\ roots \cap within \subseteq R
      /\ \A d \in R : next[d] \cap within \subseteq R
  BY ReachClosed
<1> HIDE DEF R
<1>2. /\ R \cap part \in SUBSET part
      /\ roots \cap part \subseteq R \cap part
      /\ \A d \in R \cap part : next[d] \cap part \subseteq R \cap part
  BY <1>1
<1>3. Reach(roots, next, part) \subseteq R \cap part
  BY <1>2, ReachLeast, Zenon
<1> QED
  BY <1>3 DEF R

\* So the longer the run, the less has been asked for all the time.
LEMMA AskedShrinks ==
  ASSUME NEW i, NEW within, NEW part \in SUBSET within
  PROVE  Asked(i, part) \subseteq Asked(i, within)
<1>1. part \ CutOff(i) \in SUBSET (within \ CutOff(i))
  OBVIOUS
<1> QED
  BY <1>1, ReachShrinks DEF Asked

-----------------------------------------------------------------------------
(* Types                                                                   *)

Frame == [dir : Dirs, left : SUBSET Dirs]

LEMMA TypeInit == Init => TypeOK
<1> SUFFICES ASSUME Init PROVE TypeOK
  OBVIOUS
<1>1. m_files = <<>> /\ DOMAIN m_files = {} /\ Range(m_files) = {}
  BY DEF Init, Range
<1>2. stack \in Seq(Frame)
  BY DEF Init
<1>3. step \in 1..(Len(Script) + 1)
  BY FSAssumption DEF Init
<1> QED
  BY <1>1, <1>2, <1>3, FSAssumption DEF Init, TypeOK, Frame

\* What the steps of the walk do to the calls in progress.
LEMMA ReadEntryStep ==
  ASSUME TypeOK, ReadEntry
  PROVE  /\ Len(stack) \in Nat \ {0} /\ stack' \in Seq(Frame) /\ Len(stack') = Len(stack)
         /\ \E d \in stack[Len(stack)].left :
              /\ Stat(d) /\ d \in Dirs
              /\ \A k \in 1..Len(stack) :
                   /\ stack'[k].dir = stack[k].dir
                   /\ stack'[k].left = IF k = Len(stack) THEN stack[k].left \ {d} ELSE stack[k].left
<1> DEFINE n == Len(stack)
<1>1. stack \in Seq(Frame) /\ stack # <<>>
  BY DEF TypeOK, ReadEntry, Frame
<1>2. n \in Nat \ {0} /\ n \in 1..n /\ \A k \in 1..n : stack[k] \in Frame
  BY <1>1
<1>3. Last(stack) = stack[n]
  BY DEF Last
<1>4. PICK d \in stack[n].left :
        stack' = [stack EXCEPT ![n].left = @ \ {d}] /\ Stat(d)
  BY <1>3 DEF ReadEntry
<1>5. d \in Dirs /\ stack[n].left \ {d} \subseteq Dirs
  BY <1>2, <1>4 DEF Frame
<1>6. stack' = [stack EXCEPT ![n] = [stack[n] EXCEPT !.left = @ \ {d}]]
  BY <1>4
<1>7. [stack[n] EXCEPT !.left = @ \ {d}] \in Frame
  BY <1>2, <1>5 DEF Frame
<1>8. stack' \in Seq(Frame) /\ Len(stack') = n
  BY <1>1, <1>2, <1>6, <1>7
<1>9. \A k \in 1..n : stack'[k] = IF k = n THEN [stack[n] EXCEPT !.left = @ \ {d}] ELSE stack[k]
  BY <1>1, <1>2, <1>6
<1>10. \A k \in 1..n :
         /\ stack'[k].dir = stack[k].dir
         /\ stack'[k].left = IF k = n THEN stack[k].left \ {d} ELSE stack[k].left
  BY <1>2, <1>9 DEF Frame
<1> QED
  BY <1>2, <1>4, <1>5, <1>8, <1>10

LEMMA CloseDirStep ==
  ASSUME TypeOK, CloseDir
  PROVE  /\ Len(stack) \in Nat \ {0} /\ stack' \in Seq(Frame) /\ Len(stack') = Len(stack) - 1
         /\ stack[Len(stack)].left = {}
         /\ \A k \in 1..(Len(stack) - 1) : stack'[k] = stack[k]
<1>1. stack \in Seq(Frame) /\ stack # <<>> /\ stack' = Front(stack) /\ Last(stack).left = {}
  BY DEF TypeOK, CloseDir, Frame
<1>2. Len(stack) \in Nat \ {0} /\ stack[Len(stack)].left = {}
  BY <1>1 DEF Last
<1>3. PICK m \in Nat : m = Len(stack) - 1
  BY <1>2
<1>4. stack' = SubSeq(stack, 1, m) /\ \A k \in 1..m : stack[k] \in Frame
  BY <1>1, <1>2, <1>3 DEF Front
<1>5. /\ SubSeq(stack, 1, m) \in Seq(Frame)
      /\ Len(SubSeq(stack, 1, m)) = IF 1 <= m THEN m - 1 + 1 ELSE 0
      /\ \A k \in 1..(m - 1 + 1) : SubSeq(stack, 1, m)[k] = stack[1 + k - 1]
  BY <1>4, SubSeqProperties
<1>6. stack' \in Seq(Frame) /\ Len(stack') = m /\ \A k \in 1..m : stack'[k] = stack[k]
  <2>1. (1 <= m \/ m = 0) /\ m - 1 + 1 = m /\ \A k \in 1..m : 1 + k - 1 = k
    OBVIOUS
  <2> QED
    BY <1>4, <1>5, <2>1
<1> QED
  BY <1>2, <1>3, <1>6

LEMMA OpenDirStep ==
  ASSUME TypeOK, OpenDir
  PROVE  /\ Len(stack) \in Nat /\ stack' \in Seq(Frame) /\ Len(stack') = Len(stack) + 1
         /\ \A k \in 1..Len(stack) : stack'[k] = stack[k]
         /\ stack'[Len(stack) + 1].dir = path
         /\ stack'[Len(stack) + 1].left = (Subdirs[path] \cap there) \cup Links[path]
         /\ path \in Dirs /\ path \in there
<1>1. stack \in Seq(Frame) /\ path \in there /\ path \in Dirs
  BY DEF TypeOK, OpenDir, Frame
<1> DEFINE r == [dir |-> path, left |-> (Subdirs[path] \cap there) \cup Links[path]]
<1>2. r \in Frame /\ r.dir = path /\ r.left = (Subdirs[path] \cap there) \cup Links[path]
  BY <1>1, FSAssumption DEF Frame
<1>3. stack' = Append(stack, r)
  BY DEF OpenDir
<1> HIDE DEF r
<1> QED
  BY <1>1, <1>2, <1>3

\* The steps that leave the walk alone, and those that leave Scan alone.
ScanSteps  == Scan \/ ScanDir \/ ScanFile
WorldSteps == RemoveDir \/ WriteFile
WalkSteps  == AddExclude \/ AddPath \/ ReadEntry \/ CloseDir \/ Resolve \/ OpenDir \/ Crash

LEMMA StepCases ==
  ASSUME [Next]_vars
  PROVE  WalkSteps \/ ScanSteps \/ WorldSteps \/ UNCHANGED vars
BY DEF Next, FSCHECK, WalkSteps, ScanSteps, WorldSteps

LEMMA WalkFrame ==
  ASSUME WalkSteps
  PROVE  UNCHANGED <<system, scan>> /\ vpc' # "scan"
<1> USE DEF walk
<1>1. CASE AddExclude
  BY <1>1, Zenon DEF AddExclude
<1>2. CASE AddPath
  BY <1>2, Zenon DEF AddPath, Stat
<1>3. CASE ReadEntry
  BY <1>3, Zenon DEF ReadEntry, Stat
<1>4. CASE CloseDir
  BY <1>4, Zenon DEF CloseDir
<1>5. CASE Resolve
  BY <1>5, Zenon DEF Resolve
<1>6. CASE OpenDir
  BY <1>6, Zenon DEF OpenDir
<1>7. CASE Crash
  BY <1>7, Zenon DEF Crash
<1> QED
  BY <1>1, <1>2, <1>3, <1>4, <1>5, <1>6, <1>7 DEF WalkSteps

LEMMA ScanFrame ==
  ASSUME ScanSteps
  PROVE  /\ UNCHANGED <<system, walk>> /\ vpc' = "scan"
         /\ \/ Scan
            \/ vpc = "scan"
BY Zenon DEF ScanSteps, Scan, ScanDir, ScanFile

LEMMA WorldFrame ==
  ASSUME WorldSteps
  PROVE  UNCHANGED <<vpc, walk, scan>> /\ vpc # "crashed"
BY Zenon DEF WorldSteps, RemoveDir, WriteFile, Change

\* Types are kept.
LEMMA TypeKept ==
  ASSUME TypeOK, [Next]_vars
  PROVE  TypeOK'
<1> USE DEF system, walk, scan
<1>1. CASE WalkSteps
  <2>1. /\ step' \in 1..(Len(Script) + 1) /\ m_exclude' \subseteq Excludes
        /\ m_paths' \subseteq Dirs /\ path' \in Dirs \cup {NoDir}
        /\ vpc' \in {"walk", "resolve", "opendir", "scan", "crashed"}
        /\ stack' \in Seq(Frame)
    <3> USE DEF Frame
    <3>0. /\ stack \in Seq(Frame) /\ step \in 1..(Len(Script) + 1) /\ Len(Script) \in Nat
          /\ there \subseteq Dirs /\ path \in Dirs \cup {NoDir} /\ m_paths \subseteq Dirs
          /\ m_exclude \subseteq Excludes
      BY FSAssumption DEF TypeOK
    <3>1. CASE AddExclude
      <4>1. step <= Len(Script) /\ step \in 1..Len(Script) /\ Script[step].op = "AddExclude"
        BY <3>0, <3>1 DEF AddExclude
      <4>2. Script[step].arg \in Excludes
        BY <4>1, FSAssumption
      <4> QED
        BY <3>0, <3>1, <4>1, <4>2 DEF AddExclude, TypeOK
    <3>2. CASE AddPath
      BY <3>0, <3>2 DEF AddPath, Stat, TypeOK
    <3>3. CASE ReadEntry
      BY <3>0, <3>3, ReadEntryStep DEF ReadEntry, Stat, TypeOK
    <3>4. CASE CloseDir
      BY <3>0, <3>4, CloseDirStep DEF CloseDir, TypeOK
    <3>5. CASE Resolve
      BY <3>0, <3>5 DEF Resolve, TypeOK
    <3>6. CASE OpenDir
      BY <3>0, <3>6, OpenDirStep DEF OpenDir, TypeOK
    <3>7. CASE Crash
      BY <3>0, <3>7 DEF Crash, TypeOK
    <3> QED
      BY <1>1, <3>1, <3>2, <3>3, <3>4, <3>5, <3>6, <3>7 DEF WalkSteps
  <2> QED
    BY <1>1, <2>1, WalkFrame DEF TypeOK, Frame
<1>2. CASE ScanSteps
  <2>1. /\ DOMAIN m_files' \subseteq Files /\ Range(m_files') \subseteq Digests
        /\ todo' \subseteq Dirs /\ reading' \subseteq Files
    <3>1. CASE Scan
      BY <3>1 DEF Scan, TypeOK
    <3>2. CASE ScanDir
      BY <3>2 DEF ScanDir, TypeOK
    <3>3. CASE ScanFile
      <4>1. PICK f \in reading :
              /\ reading' = reading \ {f}
              /\ m_files' = IF content[f] = Gone THEN m_files ELSE Insert(m_files, f, content[f])
        BY <3>3 DEF ScanFile
      <4>2. CASE content[f] = Gone
        BY <3>3, <4>1, <4>2 DEF ScanFile, TypeOK
      <4>3. CASE content[f] # Gone
        <5>1. f \in Files /\ content[f] \in Digests
          BY <4>3 DEF TypeOK
        <5>2. m_files' = [x \in DOMAIN m_files \cup {f} |->
                            IF x \in DOMAIN m_files THEN m_files[x] ELSE content[f]]
          BY <4>1, <4>3 DEF Insert
        <5>3. DOMAIN m_files' = DOMAIN m_files \cup {f}
          BY <5>2
        <5>4. \A x \in DOMAIN m_files' : m_files'[x] \in Digests
          BY <5>1, <5>2 DEF TypeOK, Range
        <5>5. Range(m_files') \subseteq Digests
          BY <5>4 DEF Range
        <5> QED
          BY <3>3, <4>1, <5>1, <5>3, <5>5 DEF ScanFile, TypeOK
      <4> QED
        BY <4>2, <4>3
    <3> QED
      BY <1>2, <3>1, <3>2, <3>3 DEF ScanSteps
  <2> QED
    BY <1>2, <2>1, ScanFrame DEF TypeOK
<1>3. CASE WorldSteps
  <2>1. /\ there' \subseteq Dirs /\ content' \in [Files -> Digests \cup {Gone}]
        /\ touched' \subseteq Dirs \cup Files /\ changes' \in 0..MaxChanges
    <3>1. CASE RemoveDir
      <4>1. PICK d \in there :
              /\ there' = there \ Tree[d]
              /\ content' = [f \in Files |-> IF FileOf[f] \in Tree[d] THEN Gone ELSE content[f]]
              /\ touched' = touched \cup Tree[d] \cup {f \in Files : FileOf[f] \in Tree[d]}
        BY <3>1 DEF RemoveDir
      <4>2. Tree[d] \subseteq Dirs
        BY ReachClosed DEF Tree, TypeOK
      <4> QED
        BY <3>1, <4>1, <4>2, FSAssumption DEF RemoveDir, Change, TypeOK
    <3>2. CASE WriteFile
      BY <3>2, FSAssumption DEF WriteFile, Change, TypeOK
    <3> QED
      BY <1>3, <3>1, <3>2 DEF WorldSteps
  <2> QED
    BY <1>3, <2>1, WorldFrame DEF TypeOK
<1>4. CASE UNCHANGED vars
  BY <1>4 DEF vars, TypeOK
<1> QED
  BY <1>1, <1>2, <1>3, <1>4, StepCases

-----------------------------------------------------------------------------
(* The invariant                                                           *)

\* The last call of FSCHECK was AddPath; it may be in progress.
LastIsPath == step > 1 /\ Script[step - 1].op = "AddPath"

\* Where FSCHECK is: the excludes are those of the calls made, the walk belongs
\* to the last call, and Scan comes after all.
CallInv ==
  /\ m_exclude = {Script[j].arg : j \in {k \in 1..(step - 1) : Script[k].op = "AddExclude"}}
  /\ vpc \in {"resolve", "opendir"} \/ stack # <<>> => LastIsPath
  /\ vpc = "scan" => stack = <<>> /\ step = Len(Script) + 1

\* What the call in progress may come to.
Current == Asked(step - 1, Dirs)

\* The directories that are open were added by the call in progress, each once,
\* and so will be the one it is at.
OpenInv ==
  /\ OnlyWanted /\ WalkEnds
  /\ \A k \in 1..Len(stack) :
       /\ stack[k].dir \in m_paths \cap Current
       /\ stack[k].left \subseteq Leads[stack[k].dir]
  /\ vpc = "resolve" =>
       /\ path \in Dirs
       /\ path = Script[step - 1].arg \/ \E d \in Current : path \in Leads[d]
  /\ vpc = "opendir" =>
       /\ path \in m_paths \cap Current
       /\ \A k \in 1..Len(stack) : stack[k].dir # path

\* What was not touched is as it was.
WorldInv ==
  /\ Dirs \ touched \subseteq there
  /\ \A f \in Files \ touched : content[f] # Gone

\* The walk has still to see that d leads to e.
Pends(d, e) ==
  \/ vpc = "opendir" /\ path = d
  \/ vpc = "resolve" /\ path = e
  \/ \E k \in 1..Len(stack) : stack[k].dir = d /\ e \in stack[k].left

\* Earlier calls have found what was asked for; the last one has begun, and
\* has followed every entry of a directory added by any call, or has it pending.
FoundInv ==
  vpc # "crashed" =>
    /\ \A i \in 1..(step - 2) :
         Script[i].op = "AddPath" => Asked(i, Dirs \ touched) \subseteq m_paths
    /\ LastIsPath =>
         \/ Script[step - 1].arg \in m_paths \cup touched \cup CutOff(step - 1)
         \/ vpc = "resolve" /\ path = Script[step - 1].arg
    /\ \A d \in m_paths \ touched : \A e \in Leads[d] \ touched :
         e \in m_paths \/ Excluded(e) \/ Pends(d, e)

\* What was hashed and not touched has still that digest; what has not been
\* hashed is still to be read.
HashedInv ==
  /\ \A f \in DOMAIN m_files \ touched : m_files[f] = content[f]
  /\ vpc = "scan" =>
       \A f \in Files \ touched :
         FileOf[f] \in m_paths \ touched =>
           FileOf[f] \in todo \/ f \in reading \/ f \in DOMAIN m_files

Inv == TypeOK /\ CallInv /\ OpenInv /\ WorldInv /\ FoundInv /\ HashedInv

\* At first nothing has been found or touched.
LEMMA InitInv == Init => Inv
<1> SUFFICES ASSUME Init PROVE Inv
  OBVIOUS
<1>1. /\ step = 1 /\ vpc = "walk" /\ stack = <<>> /\ m_exclude = {} /\ m_paths = {}
      /\ there = Dirs /\ touched = {} /\ content \in [Files -> Digests]
      /\ DOMAIN m_files = {}
  BY DEF Init
<1>2. ~LastIsPath /\ CallInv
  BY <1>1 DEF LastIsPath, CallInv
<1>3. OpenInv
  BY <1>1 DEF OpenInv, OnlyWanted, WalkEnds
<1>4. WorldInv
  BY <1>1, FSAssumption DEF WorldInv
<1>5. FoundInv
  BY <1>1, <1>2 DEF FoundInv
<1>6. HashedInv
  BY <1>1 DEF HashedInv
<1> QED
  BY TypeInit, <1>2, <1>3, <1>4, <1>5, <1>6 DEF Inv

\* While a call of AddPath is in progress, what is excluded is what the calls
\* before it cut off.
LEMMA ExcludedIsCutOff ==
  ASSUME TypeOK, CallInv, LastIsPath, NEW d
  PROVE  Excluded(d) <=> d \in CutOff(step - 1)
<1>1. step \in Nat /\ step > 1
  BY FSAssumption DEF TypeOK, LastIsPath
<1>2. {k \in 1..(step - 1) : Script[k].op = "AddExclude"}
        = {k \in 1..((step - 1) - 1) : Script[k].op = "AddExclude"}
  <2>1. \A k \in 1..(step - 1) : k \in 1..((step - 1) - 1) \/ k = step - 1
    BY <1>1
  <2>2. \A k \in 1..((step - 1) - 1) : k \in 1..(step - 1)
    BY <1>1
  <2> QED
    BY <2>1, <2>2 DEF LastIsPath
<1> QED
  BY <1>2 DEF CallInv, Excluded, CutOff

\* Every step keeps FSCHECK's place in its script.
LEMMA CallKept ==
  ASSUME TypeOK, CallInv, [Next]_vars
  PROVE  CallInv'
<1> USE DEF walk, system, scan
<1>0. step \in 1..(Len(Script) + 1) /\ Len(Script) \in Nat
  BY FSAssumption DEF TypeOK
<1> DEFINE Given(n) == {Script[j].arg : j \in {k \in 1..(n - 1) : Script[k].op = "AddExclude"}}
<1>1. CASE AddExclude
  <2>1. /\ vpc = "walk" /\ stack = <<>> /\ UNCHANGED <<vpc, stack>>
        /\ step <= Len(Script) /\ Script[step].op = "AddExclude"
        /\ m_exclude' = m_exclude \cup {Script[step].arg} /\ step' = step + 1
    BY <1>1 DEF AddExclude
  <2>2. {k \in 1..(step' - 1) : Script[k].op = "AddExclude"}
          = {k \in 1..(step - 1) : Script[k].op = "AddExclude"} \cup {step}
    BY <1>0, <2>1
  <2>3. m_exclude' = Given(step')
    BY <2>1, <2>2 DEF CallInv
  <2> QED
    BY <2>1, <2>3 DEF CallInv
<1>2. CASE AddPath
  <2>1. /\ vpc = "walk" /\ stack = <<>> /\ UNCHANGED <<stack, m_exclude>>
        /\ vpc' \in {"walk", "resolve"}
        /\ step <= Len(Script) /\ Script[step].op = "AddPath" /\ step' = step + 1
    BY <1>2 DEF AddPath, Stat
  <2>2. {k \in 1..(step' - 1) : Script[k].op = "AddExclude"}
          = {k \in 1..(step - 1) : Script[k].op = "AddExclude"}
    BY <1>0, <2>1
  <2>3. m_exclude' = Given(step')
    BY <2>1, <2>2 DEF CallInv
  <2>4. LastIsPath'
    BY <1>0, <2>1 DEF LastIsPath
  <2> QED
    BY <2>1, <2>3, <2>4 DEF CallInv
<1>3. CASE ReadEntry \/ CloseDir \/ Resolve \/ OpenDir \/ Crash
  <2>1. /\ UNCHANGED <<step, m_exclude>> /\ vpc' # "scan"
        /\ vpc \in {"resolve", "opendir"} \/ stack # <<>>
    BY <1>3, Zenon DEF ReadEntry, CloseDir, Resolve, OpenDir, Crash, Stat
  <2>2. LastIsPath' /\ LastIsPath
    BY <2>1 DEF CallInv, LastIsPath
  <2> QED
    BY <2>1, <2>2 DEF CallInv
<1>4. CASE ScanSteps
  <2>1. UNCHANGED <<step, m_exclude, stack>> /\ vpc' = "scan"
    BY <1>4, ScanFrame
  <2>2. stack = <<>> /\ step = Len(Script) + 1
    BY <1>0, <1>4, ScanFrame DEF CallInv, Scan
  <2> QED
    BY <2>1, <2>2 DEF CallInv
<1>5. CASE WorldSteps \/ UNCHANGED vars
  <2>1. UNCHANGED <<step, m_exclude, stack, vpc>>
    BY <1>5, WorldFrame DEF vars
  <2> QED
    BY <2>1 DEF CallInv, LastIsPath
<1> QED
  BY <1>1, <1>2, <1>3, <1>4, <1>5, StepCases DEF WalkSteps

\* Where the call in progress goes on to is what it is asked for, if nothing
\* cuts that off.
LEMMA CurrentGoesOn ==
  ASSUME TypeOK, LastIsPath
  PROVE  /\ Current \subseteq WantedEver /\ Current \subseteq Dirs
         /\ \A p \in Dirs \ CutOff(step - 1) :
              p = Script[step - 1].arg \/ (\E d \in Current : p \in Leads[d]) => p \in Current
<1>1. step - 1 \in 1..Len(Script) /\ Script[step - 1].op = "AddPath"
  BY FSAssumption DEF TypeOK, LastIsPath
<1>2. Current \subseteq WantedEver
  BY <1>1 DEF Current, WantedEver, Wanted
<1> DEFINE within == Dirs \ CutOff(step - 1)
           arg    == Script[step - 1].arg
<1>3. /\ Current \subseteq within
      /\ {arg} \cap within \subseteq Current
      /\ \A d \in Current : Leads[d] \cap within \subseteq Current
  <2>1. Current = Reach({arg}, Leads, within)
    BY DEF Current, Asked
  <2> HIDE DEF arg, within
  <2> QED
    BY <2>1, ReachClosed
<1> QED
  BY <1>2, <1>3

\* Every step keeps what is said of the directories that are open.
LEMMA OpenKept ==
  ASSUME TypeOK, CallInv, OpenInv, [Next]_vars
  PROVE  OpenInv'
<1> USE DEF walk, system, scan
<1>0. /\ there \subseteq Dirs /\ path \in Dirs \cup {NoDir}
      /\ Len(stack) \in Nat /\ (stack = <<>> <=> Len(stack) = 0)
  BY DEF TypeOK
<1>1. CASE AddExclude
  <2>1. UNCHANGED <<vpc, stack, m_paths>> /\ vpc = "walk" /\ stack = <<>>
    BY <1>1 DEF AddExclude
  <2> QED
    BY <2>1, <1>0 DEF OpenInv, OnlyWanted, WalkEnds
<1>2. CASE AddPath
  <2>1. /\ UNCHANGED <<stack, m_paths>> /\ stack = <<>> /\ step' = step + 1 /\ step \in Nat
        /\ vpc' = "walk" \/ (vpc' = "resolve" /\ path' = Script[step].arg /\ path' \in there)
    BY <1>2, FSAssumption DEF AddPath, Stat, TypeOK
  <2>2. step' - 1 = step
    BY <2>1
  <2> QED
    BY <2>1, <2>2, <1>0 DEF OpenInv, OnlyWanted, WalkEnds
<1>3. CASE ReadEntry
  <2>1. /\ UNCHANGED <<step, m_paths>>
        /\ Len(stack) \in 1..Len(stack) /\ Len(stack') = Len(stack)
    BY <1>0, <1>3, ReadEntryStep DEF ReadEntry
  <2>2. PICK d \in stack[Len(stack)].left :
          /\ Stat(d) /\ d \in Dirs
          /\ \A k \in 1..Len(stack) :
               /\ stack'[k].dir = stack[k].dir
               /\ stack'[k].left = IF k = Len(stack) THEN stack[k].left \ {d} ELSE stack[k].left
    BY <1>3, ReadEntryStep
  <2>3. /\ vpc = "walk"
        /\ vpc' = "walk" \/ (vpc' = "resolve" /\ path' = d)
    BY <1>3, <2>2 DEF ReadEntry, Stat
  <2>4. stack[Len(stack)].dir \in Current /\ d \in Leads[stack[Len(stack)].dir]
    BY <2>1, <2>2 DEF OpenInv
  <2>5. Current' = Current
    BY <2>1 DEF Current
  <2>6. \A k \in 1..Len(stack') :
          /\ stack'[k].dir = stack[k].dir
          /\ stack'[k].left \subseteq stack[k].left
    BY <2>1, <2>2
  <2> QED
    BY <2>1, <2>2, <2>3, <2>4, <2>5, <2>6 DEF OpenInv, OnlyWanted, WalkEnds
<1>4. CASE CloseDir
  <2>1. /\ UNCHANGED <<step, m_paths, vpc, path>> /\ vpc = "walk"
    BY <1>4 DEF CloseDir
  <2>2. \A k \in 1..Len(stack') : k \in 1..Len(stack) /\ stack'[k] = stack[k]
    BY <1>4, CloseDirStep
  <2>3. Current' = Current
    BY <2>1 DEF Current
  <2> QED
    BY <2>1, <2>2, <2>3 DEF OpenInv, OnlyWanted, WalkEnds
<1>5. CASE Resolve
  <2>1. UNCHANGED <<step, path, stack>> /\ vpc = "resolve" /\ path \in there /\ LastIsPath
    BY <1>5 DEF Resolve, CallInv
  <2>2. Current' = Current
    BY <2>1 DEF Current
  <2>3. CASE vpc' = "walk" /\ m_paths' = m_paths
    BY <2>1, <2>2, <2>3 DEF OpenInv, OnlyWanted, WalkEnds
  <2>4. CASE /\ vpc' = "opendir" /\ m_paths' = m_paths \cup {path}
             /\ ~Excluded(path) /\ path \notin m_paths
    <3>1. path \in Current /\ path \in WantedEver
      BY <1>0, <2>1, <2>4, ExcludedIsCutOff, CurrentGoesOn DEF OpenInv
    <3>2. \A k \in 1..Len(stack) : stack[k].dir # path
      BY <2>4 DEF OpenInv
    <3> QED
      BY <2>1, <2>2, <2>4, <3>1, <3>2 DEF OpenInv, OnlyWanted, WalkEnds, WantedEver
  <2> QED
    BY <1>5, <2>3, <2>4 DEF Resolve
<1>6. CASE OpenDir
  <2>1. UNCHANGED <<step, path, m_paths>> /\ vpc = "opendir" /\ vpc' = "walk"
    BY <1>6 DEF OpenDir
  <2>2. /\ Len(stack') = Len(stack) + 1
        /\ \A k \in 1..Len(stack) : stack'[k] = stack[k]
        /\ stack'[Len(stack) + 1].dir = path
        /\ stack'[Len(stack) + 1].left \subseteq Leads[path]
    BY <1>6, OpenDirStep DEF Leads
  <2>3. \A k \in 1..Len(stack') : k \in 1..Len(stack) \/ k = Len(stack) + 1
    BY <1>0, <2>2
  <2>4. Current' = Current
    BY <2>1 DEF Current
  <2>5. path \in m_paths \cap Current /\ \A k \in 1..Len(stack) : stack[k].dir # path
    BY <2>1 DEF OpenInv
  <2>6. WalkEnds'
    BY <2>2, <2>3, <2>5 DEF OpenInv, WalkEnds
  <2>7. \A k \in 1..Len(stack') :
          /\ stack'[k].dir \in m_paths \cap Current
          /\ stack'[k].left \subseteq Leads[stack'[k].dir]
    BY <2>2, <2>3, <2>5 DEF OpenInv
  <2> QED
    BY <2>1, <2>4, <2>6, <2>7 DEF OpenInv, OnlyWanted
<1>7. CASE Crash \/ ScanSteps \/ WorldSteps \/ UNCHANGED vars
  <2>1. /\ UNCHANGED <<step, path, stack, m_paths>>
        /\ vpc' \in {"crashed", "scan"} \/ vpc' = vpc
    BY <1>7, ScanFrame, WorldFrame DEF Crash, vars
  <2>2. Current' = Current
    BY <2>1 DEF Current
  <2> QED
    BY <2>1, <2>2 DEF OpenInv, OnlyWanted, WalkEnds
<1> QED
  BY <1>1, <1>2, <1>3, <1>4, <1>5, <1>6, <1>7, StepCases DEF WalkSteps

\* A change of the system touches what it changes.
LEMMA WorldTouches ==
  ASSUME TypeOK, WorldSteps
  PROVE  /\ touched \subseteq touched'
         /\ there \ there' \subseteq touched'
         /\ \A f \in Files \ touched' : content'[f] = content[f]
<1>1. CASE RemoveDir
  BY <1>1 DEF RemoveDir, TypeOK
<1>2. CASE WriteFile
  BY <1>2 DEF WriteFile, TypeOK
<1> QED
  BY <1>1, <1>2 DEF WorldSteps

LEMMA WorldKept ==
  ASSUME TypeOK, WorldInv, [Next]_vars
  PROVE  WorldInv'
<1>1. CASE WorldSteps
  BY <1>1, WorldTouches DEF WorldInv
<1>2. CASE WalkSteps \/ ScanSteps \/ UNCHANGED vars
  BY <1>2, WalkFrame, ScanFrame DEF WorldInv, system, vars
<1> QED
  BY <1>1, <1>2, StepCases

\* A call of AddPath that is over has found all that was asked for and was there
\* all the time.
LEMMA FinishedCall ==
  ASSUME TypeOK, CallInv, FoundInv, LastIsPath, stack = <<>>, vpc \in {"walk", "scan"}
  PROVE  Asked(step - 1, Dirs \ touched) \subseteq m_paths
<1> DEFINE within == (Dirs \ touched) \ CutOff(step - 1)
           S      == m_paths \cap within
           arg    == Script[step - 1].arg
<1>1. arg \in m_paths \cup touched \cup CutOff(step - 1)
  BY DEF FoundInv
<1>2. {arg} \cap within \subseteq S
  BY <1>1
<1>3. \A d \in S : Leads[d] \cap within \subseteq S
  <2>1. SUFFICES ASSUME NEW d \in S, NEW e \in Leads[d] \cap within PROVE e \in m_paths
    OBVIOUS
  <2>2. d \in m_paths \ touched /\ e \in Leads[d] \ touched
    BY <2>1
  <2>3. ~Pends(d, e)
    BY DEF Pends
  <2>4. ~Excluded(e)
    BY <2>1, ExcludedIsCutOff
  <2> QED
    BY <2>2, <2>3, <2>4 DEF FoundInv
<1>4. S \in SUBSET within
  OBVIOUS
<1> HIDE DEF within, S, arg
<1>5. Reach({arg}, Leads, within) \subseteq S
  BY <1>2, <1>3, <1>4, ReachLeast
<1> QED
  BY <1>5 DEF Asked, within, S, arg

\* The next call begins: the last one is finished.
LEMMA NextCall ==
  ASSUME TypeOK, CallInv, FoundInv, stack = <<>>, vpc = "walk",
         step' = step + 1, UNCHANGED <<touched, m_paths>>
  PROVE  /\ \A i \in 1..(step' - 2) :
              Script[i].op = "AddPath" => Asked(i, (Dirs \ touched)') \subseteq m_paths'
         /\ \A d \in m_paths \ touched : \A e \in Leads[d] \ touched :
              e \in m_paths \/ Excluded(e)
<1>1. \A i \in 1..(step' - 2) : i \in 1..(step - 2) \/ (i = step - 1 /\ step > 1)
  BY FSAssumption DEF TypeOK
<1>2. ASSUME NEW i \in 1..(step' - 2), Script[i].op = "AddPath"
      PROVE  Asked(i, Dirs \ touched) \subseteq m_paths
  <2>1. CASE i \in 1..(step - 2)
    BY <1>2, <2>1 DEF FoundInv
  <2>2. CASE i = step - 1 /\ step > 1
    BY <1>2, <2>2, FinishedCall DEF LastIsPath
  <2> QED
    BY <1>1, <2>1, <2>2
<1>3. \A d, e : ~Pends(d, e)
  BY DEF Pends
<1> QED
  BY <1>2, <1>3 DEF FoundInv

\* Every step keeps what the walk has found.
LEMMA FoundKept ==
  ASSUME TypeOK, CallInv, OpenInv, WorldInv, FoundInv, [Next]_vars, vpc # "crashed", vpc' # "crashed"
  PROVE  FoundInv'
<1> DEFINE arg == Script[step - 1].arg
           Done(n) == \A i \in 1..(n - 2) :
                        Script[i].op = "AddPath" => Asked(i, Dirs \ touched) \subseteq m_paths
<1> USE DEF walk, system, scan
<1>0. /\ Len(stack) \in Nat /\ path \in Dirs \cup {NoDir}
      /\ there \subseteq Dirs /\ Dirs \ touched \subseteq there
      /\ \A d \in m_paths : d \in Dirs /\ Leads[d] \subseteq Dirs
  BY FSAssumption DEF TypeOK, WorldInv, Leads
<1>a. /\ Done(step)
      /\ LastIsPath => \/ arg \in m_paths \cup touched \cup CutOff(step - 1)
                       \/ vpc = "resolve" /\ path = arg
      /\ \A d \in m_paths \ touched : \A e \in Leads[d] \ touched :
           e \in m_paths \/ Excluded(e) \/ Pends(d, e)
  BY DEF FoundInv
<1>1. CASE AddExclude
  <2>1. /\ stack = <<>> /\ vpc = "walk" /\ step' = step + 1 /\ UNCHANGED <<touched, m_paths, vpc>>
        /\ Script[step].op = "AddExclude" /\ m_exclude \subseteq m_exclude'
    BY <1>1 DEF AddExclude
  <2>2. ~LastIsPath'
    BY <2>1, FSAssumption DEF LastIsPath, TypeOK
  <2>3. \A e : Excluded(e) => Excluded(e)'
    BY <2>1 DEF Excluded
  <2> QED
    BY <2>1, <2>2, <2>3, NextCall DEF FoundInv
<1>2. CASE AddPath
  <2>1. /\ stack = <<>> /\ vpc = "walk" /\ step' = step + 1 /\ UNCHANGED <<touched, m_paths, m_exclude>>
        /\ step \in 1..Len(Script) /\ Script[step].op = "AddPath" /\ Stat(Script[step].arg)
        /\ step' - 1 = step
    BY <1>2, FSAssumption DEF AddPath, TypeOK
  <2>2. Script[step].arg \in Dirs
    BY <2>1, FSAssumption
  <2>3. \/ Script[step].arg \in touched
        \/ vpc' = "resolve" /\ path' = Script[step].arg
    BY <1>0, <2>1, <2>2 DEF Stat
  <2>4. \A e : Excluded(e)' <=> Excluded(e)
    BY <2>1 DEF Excluded
  <2> QED
    BY <2>1, <2>3, <2>4, NextCall DEF FoundInv
<1>3. CASE ReadEntry
  <2>1. /\ UNCHANGED <<touched, m_paths, m_exclude, step>> /\ vpc = "walk"
        /\ Len(stack') = Len(stack) /\ Len(stack) \in Nat \ {0}
    BY <1>3, ReadEntryStep DEF ReadEntry
  <2>2. PICK c \in stack[Len(stack)].left :
          /\ Stat(c) /\ c \in Dirs
          /\ \A k \in 1..Len(stack) :
               /\ stack'[k].dir = stack[k].dir
               /\ stack'[k].left = IF k = Len(stack) THEN stack[k].left \ {c} ELSE stack[k].left
    BY <1>3, ReadEntryStep
  <2>3. c \in touched \/ (vpc' = "resolve" /\ path' = c)
    BY <1>0, <2>2 DEF Stat
  <2>4. \A d : \A e \in Dirs \ touched : Pends(d, e) => Pends(d, e)'
    BY <2>1, <2>2, <2>3 DEF Pends
  <2>5. \A e : Excluded(e)' <=> Excluded(e)
    BY <2>1 DEF Excluded
  <2> QED
    BY <1>0, <1>a, <2>1, <2>4, <2>5 DEF FoundInv, LastIsPath
<1>4. CASE CloseDir
  <2>1. UNCHANGED <<touched, m_paths, m_exclude, step, vpc, path>> /\ vpc = "walk"
    BY <1>4 DEF CloseDir
  <2>2. /\ Len(stack) \in Nat \ {0} /\ Len(stack') = Len(stack) - 1
        /\ stack[Len(stack)].left = {}
        /\ \A k \in 1..(Len(stack) - 1) : stack'[k] = stack[k]
    BY <1>4, CloseDirStep
  <2>3. \A k \in 1..Len(stack) : k \in 1..(Len(stack) - 1) \/ k = Len(stack)
    BY <2>2
  <2>4. \A d, e : Pends(d, e) => Pends(d, e)'
    BY <2>1, <2>2, <2>3 DEF Pends
  <2>5. \A e : Excluded(e)' <=> Excluded(e)
    BY <2>1 DEF Excluded
  <2> QED
    BY <1>a, <2>1, <2>4, <2>5 DEF FoundInv, LastIsPath
<1>5. CASE Resolve
  <2>1. /\ UNCHANGED <<touched, m_exclude, step, stack, path>> /\ vpc = "resolve" /\ LastIsPath
        /\ m_paths \subseteq m_paths'
        /\ \/ vpc' = "walk" /\ m_paths' = m_paths /\ (Excluded(path) \/ path \in m_paths)
           \/ vpc' = "opendir" /\ m_paths' = m_paths \cup {path}
    BY <1>5 DEF Resolve, CallInv
  <2>2. arg \in m_paths' \cup touched \cup CutOff(step - 1)
    BY <1>a, <2>1, ExcludedIsCutOff
  <2>3. \A e : Excluded(e)' <=> Excluded(e)
    BY <2>1 DEF Excluded
  <2>4. ASSUME NEW d \in m_paths' \ touched, NEW e \in Leads[d] \ touched
        PROVE  e \in m_paths' \/ Excluded(e) \/ Pends(d, e)'
    <3>1. CASE d \in m_paths
      BY <1>a, <2>1, <3>1 DEF Pends
    <3>2. CASE d \notin m_paths
      BY <2>1, <3>2 DEF Pends
    <3> QED
      BY <3>1, <3>2
  <2>5. Done(step)'
    BY <1>a, <2>1
  <2> QED
    BY <2>1, <2>2, <2>3, <2>4, <2>5 DEF FoundInv
<1>6. CASE OpenDir
  <2>1. UNCHANGED <<touched, m_paths, m_exclude, step, path, there>> /\ vpc = "opendir"
    BY <1>6 DEF OpenDir
  <2>2. /\ Len(stack') = Len(stack) + 1
        /\ \A k \in 1..Len(stack) : stack'[k] = stack[k]
        /\ stack'[Len(stack) + 1].dir = path
        /\ stack'[Len(stack) + 1].left = (Subdirs[path] \cap there) \cup Links[path]
        /\ path \in Dirs
    BY <1>6, OpenDirStep
  <2>3. /\ \A k \in 1..Len(stack) : k \in 1..Len(stack')
        /\ Len(stack) + 1 \in 1..Len(stack')
    BY <1>0, <2>2
  <2>4. Leads[path] \ touched \subseteq stack'[Len(stack) + 1].left
    BY <1>0, <2>2, FSAssumption DEF Leads
  <2>5. \A d : \A e \in Leads[d] \ touched : Pends(d, e) => Pends(d, e)'
    BY <2>1, <2>2, <2>3, <2>4 DEF Pends
  <2>6. \A e : Excluded(e)' <=> Excluded(e)
    BY <2>1 DEF Excluded
  <2> QED
    BY <1>a, <2>1, <2>5, <2>6 DEF FoundInv, LastIsPath
<1>7. CASE Crash
  BY <1>7 DEF Crash
<1>8. CASE ScanSteps \/ UNCHANGED vars
  <2>1. UNCHANGED <<touched, m_paths, m_exclude, step, stack, path>>
    BY <1>8, ScanFrame DEF vars
  <2>2. vpc' = vpc \/ (vpc = "walk" /\ vpc' = "scan")
    BY <1>8, ScanFrame DEF vars, Scan
  <2>3. \A e : Excluded(e)' <=> Excluded(e)
    BY <2>1 DEF Excluded
  <2>4. \A d, e : Pends(d, e) => Pends(d, e)'
    BY <2>1, <2>2 DEF Pends
  <2> QED
    BY <1>a, <2>1, <2>2, <2>3, <2>4 DEF FoundInv, LastIsPath
<1>9. CASE WorldSteps
  <2>1. UNCHANGED <<m_paths, m_exclude, step, stack, path, vpc>> /\ touched \subseteq touched'
    BY <1>9, WorldFrame, WorldTouches
  <2>2. Dirs \ touched' \in SUBSET (Dirs \ touched)
    BY <2>1
  <2>3. Done(step)'
    BY <1>a, <2>1, <2>2, AskedShrinks
  <2>4. \A e : Excluded(e)' <=> Excluded(e)
    BY <2>1 DEF Excluded
  <2>5. \A d, e : Pends(d, e) => Pends(d, e)'
    BY <2>1 DEF Pends
  <2> QED
    BY <1>a, <2>1, <2>3, <2>4, <2>5 DEF FoundInv, LastIsPath
<1> QED
  BY <1>1, <1>2, <1>3, <1>4, <1>5, <1>6, <1>7, <1>8, <1>9, StepCases DEF WalkSteps

\* Every step keeps what is said of the files that are hashed or still to be.
LEMMA HashedKept ==
  ASSUME TypeOK, WorldInv, HashedInv, [Next]_vars
  PROVE  HashedInv'
<1> USE DEF walk, system, scan
<1>0. DOMAIN m_files \subseteq Files /\ FileOf \in [Files -> Dirs]
  BY FSAssumption DEF TypeOK
<1>1. CASE WalkSteps
  BY <1>1, WalkFrame DEF HashedInv
<1>2. CASE WorldSteps
  <2>1. UNCHANGED <<vpc, m_paths, m_files, todo, reading>> /\ touched \subseteq touched'
    BY <1>2, WorldFrame, WorldTouches
  <2>2. \A f \in Files \ touched' : content'[f] = content[f]
    BY <1>2, WorldTouches
  <2> QED
    BY <1>0, <2>1, <2>2 DEF HashedInv
<1>3. CASE Scan
  BY <1>0, <1>3 DEF Scan, HashedInv
<1>4. CASE ScanDir
  <2>1. UNCHANGED <<m_files, m_paths, touched, content>> /\ vpc = "scan" /\ reading = {}
    BY <1>4 DEF ScanDir
  <2>2. PICK d \in todo :
          /\ todo' = todo \ {d}
          /\ d \in there => reading' = {f \in Files : FileOf[f] = d /\ content[f] # Gone}
    BY <1>4 DEF ScanDir
  <2>3. \A f \in Files \ touched : FileOf[f] \in {d} \ touched => f \in reading'
    BY <1>0, <2>2 DEF WorldInv
  <2> QED
    BY <2>1, <2>2, <2>3 DEF HashedInv
<1>5. CASE ScanFile
  <2>1. UNCHANGED <<m_paths, touched, content, todo>> /\ vpc = "scan"
    BY <1>5 DEF ScanFile
  <2>2. PICK f \in reading :
          /\ reading' = reading \ {f}
          /\ m_files' = IF content[f] = Gone THEN m_files ELSE Insert(m_files, f, content[f])
    BY <1>5 DEF ScanFile
  <2>3. CASE content[f] = Gone
    BY <2>1, <2>2, <2>3 DEF HashedInv, WorldInv
  <2>4. CASE content[f] # Gone
    <3>1. /\ DOMAIN m_files' = DOMAIN m_files \cup {f}
          /\ \A g \in DOMAIN m_files' :
               m_files'[g] = IF g \in DOMAIN m_files THEN m_files[g] ELSE content[f]
      BY <2>2, <2>4 DEF Insert
    <3> QED
      BY <2>1, <2>2, <3>1 DEF HashedInv
  <2> QED
    BY <2>3, <2>4
<1>6. CASE UNCHANGED vars
  BY <1>6 DEF vars, HashedInv
<1> QED
  BY <1>1, <1>2, <1>3, <1>4, <1>5, <1>6, StepCases DEF ScanSteps

\* The invariant is inductive.
LEMMA AlwaysInv == Spec => []Inv
<1>1. Inv /\ [Next]_vars => Inv'
  <2> SUFFICES ASSUME Inv, [Next]_vars PROVE Inv'
    OBVIOUS
  <2>1. TypeOK' /\ CallInv' /\ OpenInv' /\ WorldInv' /\ HashedInv'
    BY TypeKept, CallKept, OpenKept, WorldKept, HashedKept DEF Inv
  <2>2. FoundInv'
    <3>1. CASE vpc' = "crashed"
      BY <3>1 DEF FoundInv
    <3>2. CASE vpc' # "crashed" /\ vpc # "crashed"
      BY <3>2, FoundKept DEF Inv
    <3>3. CASE vpc = "crashed"
      <4>1. vpc' = "crashed"
        BY <3>3, Zenon DEF Next, FSCHECK, AddExclude, AddPath, ReadEntry, CloseDir, Resolve, OpenDir,
           Crash, Scan, ScanDir, ScanFile, RemoveDir, WriteFile, Change, vars
      <4> QED
        BY <4>1 DEF FoundInv
    <3> QED
      BY <3>1, <3>2, <3>3
  <2> QED
    BY <2>1, <2>2 DEF Inv
<1> QED
  BY <1>1, InitInv, PTL DEF Spec

-----------------------------------------------------------------------------
(* The theorems                                                            *)

\* The variables have their types.
THEOREM TypeCorrect == Spec => []TypeOK
<1>1. Inv => TypeOK
  BY DEF Inv
<1> QED
  BY <1>1, AlwaysInv, PTL

\* The recursion of AddPath never has a directory open twice, wherever links
\* lead: it is no deeper than there are directories.
THEOREM WalkEndsCorrect == Spec => []WalkEnds
<1>1. Inv => WalkEnds
  BY DEF Inv, OpenInv
<1> QED
  BY <1>1, AlwaysInv, PTL

\* AddPath adds nothing that the excludes given before its call cut off.
THEOREM OnlyWantedCorrect == Spec => []OnlyWanted
<1>1. Inv => OnlyWanted
  BY DEF Inv, OpenInv
<1> QED
  BY <1>1, AlwaysInv, PTL

\* When Scan is over every file that was left alone is hashed, in every
\* directory that was asked for and reachable all the time, whatever was
\* removed and written meanwhile.
THEOREM ProtectedCorrect == Spec => []Protected
<1>1. Inv => Protected
  <2> SUFFICES ASSUME Inv, vpc = "scan", todo = {}, reading = {},
                      NEW f \in Files \ touched, FileOf[f] \in Wanted(Dirs \ touched)
               PROVE  f \in DOMAIN m_files /\ m_files[f] = content[f]
    BY DEF Protected
  <2>1. PICK i \in 1..Len(Script) :
          Script[i].op = "AddPath" /\ FileOf[f] \in Asked(i, Dirs \ touched)
    BY DEF Wanted
  <2>2. stack = <<>> /\ step = Len(Script) + 1 /\ Len(Script) \in Nat
    BY FSAssumption DEF Inv, CallInv
  <2>3. TypeOK /\ CallInv /\ FoundInv /\ vpc # "crashed"
    BY DEF Inv
  <2>4. Asked(i, Dirs \ touched) \subseteq m_paths
    <3>1. \A k \in 1..(step - 2) :
            Script[k].op = "AddPath" => Asked(k, Dirs \ touched) \subseteq m_paths
      BY <2>3, Zenon DEF FoundInv
    <3>2. CASE i \in 1..(step - 2)
      BY <2>1, <3>1, <3>2, Zenon
    <3>3. CASE i = step - 1
      <4>1. step > 1
        BY <2>2, <3>3
      <4>2. LastIsPath
        BY <2>1, <3>3, <4>1 DEF LastIsPath
      <4>3. Asked(step - 1, Dirs \ touched) \subseteq m_paths
        BY <2>2, <2>3, <4>2, FinishedCall, Zenon
      <4> QED
        BY <3>3, <4>3, Zenon
    <3>4. i \in 1..(step - 2) \/ i = step - 1
      BY <2>2
    <3> QED
      BY <3>2, <3>3, <3>4
  <2>5. Asked(i, Dirs \ touched) \subseteq Dirs \ touched
    <3>1. Asked(i, Dirs \ touched) \subseteq (Dirs \ touched) \ CutOff(i)
      BY ReachClosed, Zenon DEF Asked
    <3> QED
      BY <3>1, Zenon
  <2>6. FileOf[f] \in m_paths \ touched
    BY <2>1, <2>4, <2>5, Zenon
  <2> QED
    BY <2>6 DEF Inv, HashedInv
<1> QED
  BY <1>1, AlwaysInv, PTL
=============================================================================
