------------------------------ MODULE CFSDiff -------------------------------
(***************************************************************************)
(* CFSVerifier::Save and Diff (fs/CFSVerifier.cc): the database of digests *)
(* that one scan saved is compared with the files of a later scan.  The    *)
(* database is a stream of records that may end anywhere.  Both are pure   *)
(* functions of the scans, which map paths to digests.                     *)
(***************************************************************************)
EXTENDS Integers, SequencesExt

\* What Save writes for files, in the order of the map, on a little-endian host.
Saved(files) == SetToSeqs({[path |-> p, hash |-> files[p]] : p \in DOMAIN files})

\* Mutant: a path that is not found is passed over.
Found_Either(record, files) ==
  IF record.path \in DOMAIN files /\ files[record.path] # record.hash
  THEN <<[path |-> record.path, type |-> "DT_MODIFIED"]>>
  ELSE <<>>

\* The difference a record of the database shows.
Found(record, files) ==
  IF record.path \notin DOMAIN files THEN <<[path |-> record.path, type |-> "DT_MISSING"]>>
  ELSE IF files[record.path] # record.hash THEN <<[path |-> record.path, type |-> "DT_MODIFIED"]>>
  ELSE <<>>

\* Those that the database does not have.
New(files, compare) ==
  LET paths == SetToSeq(DOMAIN files \ compare)
  IN  [i \in DOMAIN paths |-> [path |-> paths[i], type |-> "DT_NEW"]]

\* What eof() says at the head of the loop when n whole records have been read:
\* only a read past the end of the stream sets it.
Eof(input, n) == n > Len(input)

\* Diff goes round the loop, one record a turn, until eof() at the head of a turn
\* leads to what follows the loop, the files that are new, or a read in the
\* turn comes short, of the next length or of a part of a record, and it returns.
Diff(input, files) ==
  LET found   == FlattenSeq([i \in 1..Len(input) |-> Found(input[i], files)])
      compare == {input[i].path : i \in 1..Len(input)}
  IN  IF \E n \in 0..Len(input) : Eof(input, n)
      THEN [result |-> found \o New(files, compare), returned |-> TRUE]
      ELSE [result |-> found, returned |-> FALSE]
=============================================================================
