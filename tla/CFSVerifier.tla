----------------------------- MODULE CFSVerifier ----------------------------
(***************************************************************************)
(* CFSVerifier (fs/CFSVerifier.cc) as FSCHECK (armt.cc) uses it: AddPath   *)
(* walks the directory trees to protect, Scan hashes the files of every    *)
(* directory found.                                                        *)
(*                                                                         *)
(* A directory stands for its real path.  The rest of the system goes on   *)
(* meanwhile: directories are removed and files written or removed between *)
(* any two calls on the file system.                                       *)
(***************************************************************************)
EXTENDS FiniteSetsExt, Naturals, Sequences, SequencesExt

CONSTANTS
  Dirs,       \* the directories
  Subdirs,    \* the directories in each directory
  Links,      \* the directories that symbolic links in it lead to
  Files,      \* the regular files
  FileOf,     \* the directory each of them is in
  Excludes,   \* the arguments of AddExclude
  Begins,     \* the directories whose path begins with each of them
  Script,     \* the calls of FSCHECK up to Scan
  Digests,    \* the digests of file contents
  Gone,       \* a file that has been removed
  NoDir,
  MaxChanges  \* bound: changes of the file system during a run

ASSUME FSAssumption ==
  /\ Subdirs \in [Dirs -> SUBSET Dirs] /\ Links \in [Dirs -> SUBSET Dirs]
  /\ FileOf \in [Files -> Dirs]
  /\ Begins \in [Excludes -> SUBSET Dirs]
  /\ Script \in Seq([op : {"AddExclude"}, arg : Excludes] \cup [op : {"AddPath"}, arg : Dirs])
  /\ Gone \notin Digests /\ NoDir \notin Dirs
  /\ MaxChanges \in Nat

VARIABLES
  there,      \* the directories that exist
  content,    \* the digest of each file, Gone if it was removed
  touched,    \* history: what was removed or written since the start
  changes,    \* how many changes there were
  step,       \* the call of Script FSCHECK is at
  vpc,        \* where it is: "walk", "resolve", "opendir", "scan", "crashed"
  path,       \* the directory AddPath is about to add
  stack,      \* the calls of AddPath: a directory and the entries not read yet
  m_exclude, m_paths, m_files,
  todo,       \* the directories Scan has still to open
  reading     \* the entries of the open one that it has not read yet

system == <<there, content, touched, changes>>
walk   == <<step, path, stack, m_exclude, m_paths>>
scan   == <<m_files, todo, reading>>
vars   == <<system, vpc, walk, scan>>

Init ==
  /\ there = Dirs /\ content \in [Files -> Digests]
  /\ touched = {} /\ changes = 0
  /\ step = 1 /\ vpc = "walk" /\ path = NoDir /\ stack = <<>>
  /\ m_exclude = {} /\ m_paths = {}
  /\ m_files = <<>> /\ todo = {} /\ reading = {}

-----------------------------------------------------------------------------
(* AddExclude and AddPath                                                  *)

AddExclude ==
  /\ vpc = "walk" /\ stack = <<>>
  /\ step <= Len(Script) /\ Script[step].op = "AddExclude"
  /\ m_exclude' = m_exclude \cup {Script[step].arg}
  /\ step' = step + 1
  /\ UNCHANGED <<system, vpc, path, stack, m_paths, scan>>

\* AddPath is called for d: stat says whether it is a directory.
Stat(d) ==
  IF d \in there
  THEN vpc' = "resolve" /\ path' = d
  ELSE UNCHANGED <<vpc, path>>

AddPath ==
  /\ vpc = "walk" /\ stack = <<>>
  /\ step <= Len(Script) /\ Script[step].op = "AddPath"
  /\ Stat(Script[step].arg)
  /\ step' = step + 1
  /\ UNCHANGED <<system, stack, m_exclude, m_paths, scan>>

\* Entries come in the order of readdir, which is any.
ReadEntry ==
  /\ vpc = "walk" /\ stack # <<>>
  /\ \E d \in Last(stack).left :
       /\ stack' = [stack EXCEPT ![Len(stack)].left = @ \ {d}]
       /\ Stat(d)
  /\ UNCHANGED <<system, step, m_exclude, m_paths, scan>>

CloseDir ==
  /\ vpc = "walk" /\ stack # <<>>
  /\ Last(stack).left = {}
  /\ stack' = Front(stack)
  /\ UNCHANGED <<system, vpc, step, path, m_exclude, m_paths, scan>>

Excluded(d) == \E e \in m_exclude : d \in Begins[e]

\* Mutant: duplicates are not recognised.
Resolve_Again ==
  /\ vpc = "resolve"
  /\ path \in there
  /\ IF Excluded(path)
     THEN vpc' = "walk" /\ UNCHANGED m_paths
     ELSE vpc' = "opendir" /\ m_paths' = m_paths \cup {path}
  /\ UNCHANGED <<system, step, path, stack, m_exclude, scan>>

\* Mutant: the excludes are compared with the arguments of FSCHECK only.
Resolve_TopOnly ==
  /\ vpc = "resolve"
  /\ path \in there
  /\ IF (stack = <<>> /\ Excluded(path)) \/ path \in m_paths
     THEN vpc' = "walk" /\ UNCHANGED m_paths
     ELSE vpc' = "opendir" /\ m_paths' = m_paths \cup {path}
  /\ UNCHANGED <<system, step, path, stack, m_exclude, scan>>

\* realpath, the excludes and the duplicates.
Resolve ==
  /\ vpc = "resolve"
  /\ path \in there
  /\ IF Excluded(path) \/ path \in m_paths
     THEN vpc' = "walk" /\ UNCHANGED m_paths
     ELSE vpc' = "opendir" /\ m_paths' = m_paths \cup {path}
  /\ UNCHANGED <<system, step, path, stack, m_exclude, scan>>

OpenDir ==
  /\ vpc = "opendir"
  /\ path \in there
  /\ vpc' = "walk"
  /\ stack' = Append(stack, [dir |-> path, left |-> (Subdirs[path] \cap there) \cup Links[path]])
  /\ UNCHANGED <<system, step, path, m_exclude, m_paths, scan>>

\* The directory was removed after stat: realpath or opendir returns NULL,
\* which assign or readdir is called with.
Crash ==
  /\ vpc \in {"resolve", "opendir"}
  /\ path \notin there
  /\ vpc' = "crashed"
  /\ UNCHANGED <<system, walk, scan>>

-----------------------------------------------------------------------------
(* Scan                                                                    *)

Scan ==
  /\ vpc = "walk" /\ stack = <<>> /\ step > Len(Script)
  /\ vpc' = "scan"
  /\ todo' = m_paths
  /\ UNCHANGED <<system, walk, m_files, reading>>

\* Mutant: a directory that is gone ends the scan.
ScanDir_Ends ==
  /\ vpc = "scan" /\ reading = {}
  /\ \E d \in todo :
       /\ todo' = IF d \in there THEN todo \ {d} ELSE {}
       /\ reading' = IF d \in there
                     THEN {f \in Files : FileOf[f] = d /\ content[f] # Gone} ELSE {}
  /\ UNCHANGED <<system, vpc, walk, m_files>>

\* The directories are taken in the order of the map; that does not matter.
\* One that cannot be opened is passed over.
ScanDir ==
  /\ vpc = "scan" /\ reading = {}
  /\ \E d \in todo :
       /\ todo' = todo \ {d}
       /\ reading' = IF d \in there
                     THEN {f \in Files : FileOf[f] = d /\ content[f] # Gone} ELSE {}
  /\ UNCHANGED <<system, vpc, walk, m_files>>

\* std::map's insert leaves an entry that is there.
Insert(map, key, value) ==
  [k \in DOMAIN map \cup {key} |-> IF k \in DOMAIN map THEN map[k] ELSE value]

\* lstat and md5_file; a file that is gone by then is left out.
ScanFile ==
  /\ vpc = "scan"
  /\ \E f \in reading :
       /\ reading' = reading \ {f}
       /\ m_files' = IF content[f] = Gone THEN m_files ELSE Insert(m_files, f, content[f])
  /\ UNCHANGED <<system, vpc, walk, todo>>

-----------------------------------------------------------------------------
(* The rest of the system                                                  *)

\* The directories from some on, through subdirectories and links, that are in
\* a set: the fewest that have those some and, with each, what it leads to.
Reach(roots, next, within) ==
  LET Closed(S) == roots \cap within \subseteq S /\ \A d \in S : next[d] \cap within \subseteq S
  IN  {d \in within : \A S \in SUBSET within : Closed(S) => d \in S}

\* What goes with a directory.
Tree == [d \in Dirs |-> Reach({d}, Subdirs, Dirs)]

Change == vpc # "crashed" /\ changes < MaxChanges /\ changes' = changes + 1

RemoveDir ==
  /\ Change
  /\ \E d \in there :
       /\ there' = there \ Tree[d]
       /\ content' = [f \in Files |-> IF FileOf[f] \in Tree[d] THEN Gone ELSE content[f]]
       /\ touched' = touched \cup Tree[d] \cup {f \in Files : FileOf[f] \in Tree[d]}
  /\ UNCHANGED <<vpc, walk, scan>>

WriteFile ==
  /\ Change
  /\ \E f \in Files :
       /\ FileOf[f] \in there
       /\ content' \in {[content EXCEPT ![f] = c] : c \in Digests \cup {Gone}}
       /\ touched' = touched \cup {f}
  /\ UNCHANGED <<there, vpc, walk, scan>>

FSCHECK ==
  \/ AddExclude \/ AddPath \/ ReadEntry \/ CloseDir
  \/ Resolve \/ OpenDir \/ Crash
  \/ Scan \/ ScanDir \/ ScanFile

Next == FSCHECK \/ RemoveDir \/ WriteFile

Spec == Init /\ [][Next]_vars

-----------------------------------------------------------------------------
TypeOK ==
  /\ there \subseteq Dirs
  /\ content \in [Files -> Digests \cup {Gone}]
  /\ touched \subseteq Dirs \cup Files
  /\ changes \in 0..MaxChanges
  /\ step \in 1..(Len(Script) + 1)
  /\ vpc \in {"walk", "resolve", "opendir", "scan", "crashed"}
  /\ path \in Dirs \cup {NoDir}
  /\ stack \in Seq([dir : Dirs, left : SUBSET Dirs])
  /\ m_exclude \subseteq Excludes
  /\ m_paths \subseteq Dirs
  /\ DOMAIN m_files \subseteq Files /\ Range(m_files) \subseteq Digests
  /\ todo \subseteq Dirs /\ reading \subseteq Files

\* Where the entries of a directory lead, and what the excludes given before the
\* i-th call cut off.
Leads     == [d \in Dirs |-> Subdirs[d] \cup Links[d]]
CutOff(i) == UNION {Begins[Script[j].arg] : j \in {k \in 1..(i - 1) : Script[k].op = "AddExclude"}}

\* The directories FSCHECK asks for: from the argument of each AddPath on,
\* through what the excludes given before that call leave.
Asked(i, within) == Reach({Script[i].arg}, Leads, within \ CutOff(i))
Wanted(within) ==
  UNION {Asked(i, within) : i \in {k \in 1..Len(Script) : Script[k].op = "AddPath"}}

\* Whatever changes meanwhile and in whatever order the entries are read, Scan
\* has hashed every file that did not change, in every directory that can be
\* reached through directories that were there all the time.
Protected ==
  vpc = "scan" /\ todo = {} /\ reading = {} =>
    LET wanted == Wanted(Dirs \ touched) IN
      \A f \in Files \ touched :
        FileOf[f] \in wanted => f \in DOMAIN m_files /\ m_files[f] = content[f]

\* No directory is added that the excludes given before cut off.
WantedEver == Wanted(Dirs)
OnlyWanted == m_paths \subseteq WantedEver

\* The recursion ends, also where links lead back up: no directory is open
\* twice.
WalkEnds ==
  \A i, j \in 1..Len(stack) : stack[i].dir = stack[j].dir => i = j

\* "ensure the path exists" (CFSVerifier.cc:56): AddPath opens a directory
\* that exists.  It may have gone since.
PathExists == vpc = "opendir" => path \in there
=============================================================================
