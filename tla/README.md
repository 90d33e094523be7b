# A TLA+ model of ARMT

ARMT (Another Remote Monitoring Tool) is a statically linked daemon that runs
on a server, looks at its disks every minute and at the hashes of its critical
system files once a day, and sends what it finds, signed, over HTTPS to a
central server. This directory models its own code (`armt.cc`, `common/`,
`block/`, `fs/`) and, of the vendored libraries, the part of polarssl that
CHTTP leans on while it writes and reads; the rest of them and the embedded
utilities are external.

## Inventory

ARMT is one process with one thread. Its concurrency is with the world: the
clock that goes on (or is set back) while the program works, the kernel that
hands out descriptor numbers, the network and the server that end a call in
many ways, the disks that fail and are replaced. Nothing is retried but calls
that a signal interrupted; the RSA key is all that is persisted, next to the
utilities, which every start unpacks again.

| component | state it keeps | operations | hard behaviour | what makes it correct |
|---|---|---|---|---|
| `CScheduler` | vector of jobs; each job its next run time | `AddJob`, `Run` | clock sampled once per pass, passes late by many intervals, clock set back | no slot lost or run twice; a pass runs exactly what was due; backlogs are worked off |
| `CHTTP` | `m_connected`, `m_ssl`, `m_sslFD`, SSL context, request headers | `Connect`, `Disconnect`, `PerformRequest` (`Write`, `Read`), `SetHeader` | partial writes, cut-off replies, calls that fail half-way, descriptor numbers reused by others, no timeouts | never touches a descriptor that is not its own; pieces sent in order; `true` means answered |
| `CMessageBuilder` (sending) | `m_segments`, an `m_http` | `AppendSegment`, `Reset`, `Send`, `PackString` | failures after the server accepted the message, the forged 202 | at most once; success is real |
| `CMessageBuilder` (key) | `ssl/private.pem` | `InitAuth`, `SignPayload` | crash between the file operations | the key is whole or absent |
| `main`, `CMSGJob`, `FSCHECK`, `DISKCHECK` | `result`, the scheduler, the message | AUTH, job set-up, the loop | AUTH and reports share one object; loss on failure | AUTH first; a lasting fault is reported |
| `CDNS` | resolvers, cache with expiry times | `AddResolver`, `GetIPv4`, `GetHostByName`, `Free` | expiry between calls, resolvers that time out, rejected replies | no stale address, all descriptors closed |
| `CFSVerifier` | paths, excludes, files with their hashes | `AddExclude`, `AddPath`, `Scan`, `Save`, `Diff` | order of excludes and paths, links, directories that vanish | what is covered; a saved database compares |
| `CCompress` | none | `Deflate`, `Inflate` | chunk boundaries | inverse of each other |
| `CCommon` | base path, DRBG, the files in `bin` | `Initialize` (`WriteExe`), `RunCommand`, file helpers | pipe, fork and exec failing; starts killed while they unpack | descriptors closed, child reaped; whole utilities |
| polarssl's records | output buffer, `out_left`; input buffer, `in_left`, content not handed out | `ssl_write`, `ssl_read`, `net_send`, `net_recv` | the socket takes and gives parts, is interrupted or ends inside a record | for CHTTP, calls that take or give some bytes in order, or fail |
| block devices | device map, status of each device | `Enumerate`, `Refresh`, `IsOK` | commands that fail, drives behind one node | a faulting device is reported, a healthy one is not |
| `CProcInfo`, `CPCIInfo` | cached lists | `GetProcessList`, `GetBoundList`, a process's `GetBoundList`, `GetDeviceList`, `ClearCache` | lists read once and kept; `ClearCache` that does not clear | all that was there when the list was read |

They interact by direct calls. `main` adds the two jobs to the `CScheduler`
and calls `Run` every second; a job's `Execute` appends a segment to the
`CMessageBuilder`; if any job ran, `main` calls `Send`, which calls the
segments' functions (the gathering of data happens there, not in the job),
packs and compresses the result, and performs a request on a new connection of
its `CHTTP`. `CHTTP` resolves the server's name through the wrapped
`gethostbyname`, which is `CDNS`.

## How the modules are built

Every module names its variables after the members of the class it models and
its actions after the methods; `map` in `PROJECT.json` gives the lines each
definition stands for. A method is one action when nothing can happen inside
it, and is cut into steps where the rest of the world can interfere: at the
calls on the network, the file system, a pipe or another process, and where a
pass reads a clock that goes on. Definitions called `X_Something` behind a
comment `Mutant:` are plausible mistakes in `X`; no specification uses them.
They are what each property is tested against: with `X` replaced by its
mutant, the property fails.

| module | models | state and actions in terms of the code |
|---|---|---|
| `CScheduler` | `common/CScheduler.cc` | `m_jobs` the vector, `nextRun` the run time kept by each `CMSGJob`. `Run` is `RunStart` (samples the clock), one `RunSkip`/`RunExecute` per job, `RunReturn`; the clock moves in between. |
| `CHTTP` | `common/CHTTP.cc` and the descriptor table | `m_connected`, `m_ssl`, `m_sslFD` (uninitialised at first, as in the code); `open`/`others` are the kernel's table and the part of it that is not CHTTP's. `Connect` is `ConnectOpens`, `HandshakeDone`, `ConnectSucceeds` and a failure of each; `PerformRequest` is `RequestStart`, `WriteSome`..., `ReadSome`..., `Parse`. |
| `SSLRecords` | `ssl_write`, `ssl_read` and below (`libs/polarssl/library/ssl_tls.c`, `net.c`) under `CHTTP` | extends `CHTTP` and takes its `WriteSome`, `ReadSome` and their failures apart: `out_msg` and `out_left` are the record being flushed, `record` and `in_left` the one being fetched, `in_msg` content not handed out yet. `NetSend` and `NetRecv` are one call on the socket, `SendInterrupted` and `RecvInterrupted` an `EINTR`, after which `Write` and `Read` call again. |
| `HTTPHeaders` | `SetHeader`, `DelHeader`, `ClearHeaders`, `AppendHeaders`; the header loop of `PerformRequest` | operators only; the map is a function of names |
| `Framing` | `PackString`, the segments in `Send`, `IsBE` | operators only, with a reader of the format as reference, a loop that takes one string or segment a step; the base of a byte is a constant |
| `SystemLists` | `CProcInfo`, `CPCIInfo` | operators only; a cache is whether it was read (`m_gotProcessList`, `m_gotBindings`, the `m_gotBoundList` of a process), and its list |
| `Midnight` | the first run time of FSCHECK in `main` | operators only; tonight's midnight on the clock of the server's zone, in summer and winter, as reference |
| `Reporting` | no code: what the server is promised | reports are taken, delivered at most once, or given up |
| `ARMT` | `main`, `CMSGJob`, `CMessageBuilder::AppendSegment`, `Reset`, `Send` | instantiates `CScheduler` (`S`), `CHTTP` (`H`, with main's `result` as `error`) and `Midnight` (`M`) and shares their variables; `pc` is where the one thread is. FSCHECK always has data, DISKCHECK has when a disk is faulting. Each failure of `H` is taken while failures are left. |
| `CDNS` | `common/CDNS.cc` and `__wrap_gethostbyname` | `m_cache`, `m_resolvers`; a lookup is one `AskSent`/`AskFails` per resolver and the answer, its refusal or the timeout; `socks` and `live` count sockets and hostents. |
| `DNSMessage` | the bytes of questions and replies | operators only, with RFC 1035's form as reference |
| `KeyStore` | `CMessageBuilder::InitAuth` | `file` is `private.pem` with how much of which key it holds; one action per file operation, `Stop` kills the process or fails an assertion anywhere, `PowerFails` loses what was not synced. |
| `Startup` | `CCommon::Initialize`, `WriteExe`, `WriteBuffer`, then `InitAuth` | extends `KeyStore`: `at` and `stage` are where the unpacking is, `bin` the files, `met` what failed for each (an open, a write, `chmod`), which `Initialize` does not look at; children of a killed run keep their file busy, `Upgrade` replaces the program, `PowerCut` loses what was not synced of either. |
| `CFSVerifier` | `AddExclude`, `AddPath`, `Scan` | `stack` is the recursion of `AddPath`, `m_paths`, `m_exclude`, `m_files` its members; directories and files go and change at any moment. A `readdir` on `NULL` is `Crash`. |
| `CFSDiff` | `Save` and `Diff` | operators only; the stream is a sequence of records, `Eof` the loop's test, `New` what stands behind the loop |
| `RunCommand` | `CCommon::RunCommand` | parent, child and a process the child leaves behind share the pipe; `fds` are the parent's descriptors |
| `CCompress` | `Deflate`, `Inflate` | data in pieces, zlib as free as its manual lets it be |
| `BlockDevices` | `block/*.cc`, `DISKCHECK` | enumeration, refresh and status as separate commands; devices fail, come and go between them |

Composition: `ARMT` instantiates `CScheduler`, `CHTTP`, `Midnight` and (for the
refinement) `Reporting`. The other components touch the program through values
only (an address, a block of bytes, whether a disk is faulting), so that they
are checked by themselves: `ARMT` takes any of their outcomes. The MC modules
only add the constants a `.cfg` cannot write; `MCHelpers` has the one thread
call `RunCommand` and `CCompress` in turn. `MCAlgorithms` runs the pure
algorithms on every input of a small set.

## What is checked

| run | question | bounds, and why they are enough |
|---|---|---|
| `scheduler` | Is every slot run once, does a pass judge all jobs by one sample, is a backlog worked off? | intervals 3 and 1, clock to 3, one set-back: both orders of the two jobs, a pass overtaken by three slots, a job added late, a slot that comes twice on the clock |
| `http` | Does any sequence of calls keep to its own descriptors, what does `true` mean, and are `ssl_write` and `ssl_read` the atomic calls that `CHTTP` takes them for? | three descriptors (one more than the socket and the stranger that reuses its number), requests of three pieces in records of up to two (a full record and a last, shorter one), a header of two units (so that `ssl_fetch_input` can get a part of it), replies of two pieces of head and one of body, a read buffer smaller than a record; the number of calls is not bounded (542 thousand states) |
| `armt` | Does the program implement `Reporting`; is a lasting fault reported? | two failures of any kind (one to leave the connection, one more for what follows; two handshakes use up the two descriptors), three slots of DISKCHECK and one of FSCHECK (the clock ends before its second), one set-back |
| `armt_connects` | Does `Send` always find the object unconnected? | one failure suffices (finding) |
| `dns` | Are addresses fresh, sockets and hostents accounted for, all resolvers asked? | two names, two resolvers, timeout 2, records that expire at once, within a call or after it; clock to 6 is one full round of timeouts and a second call; two sockets, so that a leak starves the next call |
| `key_store` | Does a client keep its key, and has a program that is up whole utilities of its own? | keys of two numbers (none, a part, all of them), three keys, a power failure that takes the key file; two utilities, two versions, any of whose opens, writes and `chmod`s fails; starts, crashes and children are not bounded (2.6 million states) |
| `verifier` | Is everything protected that should be, whatever changes? | FSCHECK's calls over six directories with a link up, one to itself and one into an exclude; two changes (one to break, one to hide it) |
| `helpers` | Is a command's output whole, is nothing left, does the call return; do the chunk loops process everything and end? | the pipe holds two of four pieces, two calls, of which each may fail to fork (a failed one and another use up the four descriptors); chunks of two pieces and inputs of up to five: empty, part of, full, and several chunks, with output from none to twice the input |
| `devices` | Is a lasting fault sent and nothing without a reason? | three drives, two behind one node, a volume, an array with and one without redundancy; two changes or failing commands |
| `devices_faulting` | Are devices that are not faulting left out? | no trouble at all is needed (finding) |
| `algorithms` | Do the pure algorithms agree with their references? | midnight: days of 24 units, 2 days, every zone without daylight saving and with it, in summer and winter; names of up to three labels of up to three letters; replies of up to two answers in six forms; four headers with colliding names; databases of up to three files cut anywhere or nowhere; up to three calls on the headers of a request, of names in either spelling; messages of two segments of up to two strings (`MaxStrings`) from hosts of either byte order, with bytes of one bit (`Base`), so that strings of five are too long for their length; up to three calls of a list with entries that do not count; two lines and two descriptors of every kind, and up to three calls for bound sockets and those of a process (82 thousand inputs and results) |
| `algorithms_documented` | Do the results say what the comments at the code say? | the same inputs; each of the five parts fails by itself (findings) |

The `http` run shows a refinement: `ImplementsCHTTP` is `CHTTP!Spec`, of
which every step of `SSLRecords` is a step or a stutter. `wire` is there the
content of the records that have arrived, so that `WriteSome` happens when the
last unit of a record does, and `ssl_write` returns by it; an interrupted call
leaves `out_left` behind, and it is the repetition with the same arguments in
`Write` that makes the number it returns then the right one. What is proved
about `CHTTP` carries over (`OverRecords`).

Three runs bound what the program does not: the clock (`MaxTime`), failures
and changes of the world. A history variable, such as `leaks`, `inbox` or
`touched`, records what the environment has seen and guards nothing.
`CHECK_DEADLOCK FALSE` stands where the model may stop: the clock is at its
bound, `main` has returned, calls are used up, an algorithm has run.

### Fairness

* `CScheduler`: `WF(Run)`. The loop of `main` (armt.cc:198) calls `Run` for
  ever.
* `ARMT`: `WF(Program)` and `WF` of the clock. The process is scheduled and
  what it calls returns. CHTTP has no timeouts, so that a peer that keeps the
  connection open and says nothing stops the program for ever; this fairness
  excludes it, and `FaultReported` says nothing about it. Disks and the
  administrator are not fair.
* `MCHelpers`: `WF` of a call of `RunCommand` that has begun, of the loops of
  `CCompress` while no command runs (one thread), and of the end of the command
  and of what it starts unless they are blocked on a full pipe. RunCommand has
  no timeout for a command that never ends. The parent's part is the point: the
  two never wait for each other.

### Findings

* `armt_connects`: a `Send` that fails behind `Connect` (no signature, a
  write or a read that fails) returns without `Disconnect`. `m_connected`
  stays set, and every later `Connect` returns false (CHTTP.cc:71), for ever:
  one lost connection silences the client. `LeftConnectionIsDead` is the other
  side of it: at least the connection is never used again.
* `devices_faulting`: `IsOK` takes a status that is missing for a failure, so
  that arrays without redundancy, drives without SMART and devices whose
  command failed are sent, which the comment in armt.cc:66 excludes.
* `algorithms_documented`, in five places, each a part of `AsDocumented` that fails
  by itself (TLC shows the first it meets; with one of them as the only invariant
  of the `.cfg` it shows that one):
  * `RunsTonight`: `FirstMidnight` is the midnight of Greenwich's date, with
    an hour for daylight saving in winter too, so that the first FSCHECK is up to
    a day from "midnight tonight" (armt.cc:186) and an hour off in winter.
  * `AllHeadersReturned`: `Consumed` never has the last header of a reply: the match
    that cut the headers off took its line end away.
  * `NewFilesReported`: `Diff` never comes to the part that looks for new files, and
    returns false for a complete database: `eof()` holds at the head of its loop
    only after a read that came short, and then it has returned.
  * `SegmentsLittleEndian`: `Send` writes the length of a segment as it is in memory,
    while a string's is swapped on a big-endian host "to always send in LE"
    (CMessageBuilder.cc:186).
  * `ClearCacheForgets`: `ClearCache` calls `empty()`, so that the next list holds the old
    entries too.

Each of these five has a companion among the properties of `algorithms` that
says what holds in spite of it, and would also hold of code that is put right:
`FirstNearMidnight` (how far off), `HeadersKept` (no other header is lost),
`ReportsOldFiles` (nothing wrong is said of the files that were there),
`MessageParses` (who knows the order can read everything), `ListsComplete`
(nothing that is there is missing).

Other places where code and comments part are stated in the modules, each as a
definition that says what the comment says and that the model violates:

* `CHTTP!BodyIsWholeReply`: `Read` takes any end of the connection for the end
  of the reply; a body that is cut off is returned as if it were whole.
* `KeyStore!KeyOrGenerate`, `KeySaved`, `LoadedAsGenerated`: a file that is
  there is taken for a key, `fclose` is not looked at, and a number that was
  cut off can still be read as a number: a crash while the key is saved stops
  every later start, or gives it another key.
  (`OneIdentity` holds all the same: the client then has no key rather than two.)
* `CFSVerifier!PathExists`: a directory may go between `stat` and `opendir`, and
  `readdir` is then called with `NULL` (`Crash`).

and more can be read in the operators. `DNSMessage!ParseDNSName` follows
pointers to the wrong place (nothing uses the name), and `Scan` leaves the last
dot of a name that ends in one where the end of the name has to be (no such
host is among the inputs). A string of 65536 bytes or more goes out whole
behind the low 16 bits of its length, which spoils its segment
(`MessageParses` has it), and a segment's name of 256 or more behind the low 8
(the assertion tests the number after it was cut; `Framing` has no such name).
`SystemLists!BoundTo` finds the oldest of the entries with a number first,
which after a `ClearCache` may be one that is gone. `CFSVerifier::Save` on a
big-endian host swaps the length of a path and then writes as many bytes of it
as the swapped number says (CFSVerifier.cc:146); `CFSDiff` is the little-endian
host.

## What is proved

The modules named `...Proofs` prove, for every value of the constants that the
`ASSUME` of the module admits, safety properties that the runs check:

* `CScheduler`: `TypeCorrect`, `GridKeptCorrect`, `PassExactCorrect`, for any
  set of jobs, all intervals and any behaviour of the clock. `GridKept` is
  inductive only together with the fact that a job that was not added has not
  run (`AddJob` sets its grid). `PassExact` needs that a job is in the vector
  once: otherwise the pass would meet a job it has moved on already.
* `CHTTP`: `TypeCorrect`, `DescriptorsKeptCorrect`, `SocketsAccountedCorrect`,
  `WireInOrderCorrect`, `TrueMeansAnsweredCorrect`, for any descriptor limit,
  length of request and reply. They are proved together as one invariant,
  with `Stage`, which says what holds at each stage of a call: connected while
  it writes and reads, not yet or no longer before and behind it, and a reply
  chosen and the request out once it reads. `DescriptorsKept` and
  `SocketsAccounted` need each other and `Stage`: `Disconnect` closes `m_sslFD`
  and nothing else only while the object is responsible for exactly one open
  socket, which is the number it holds.
* `SSLRecords` (in `CHTTPProofs`): `ImplementsCHTTPCorrect`, for records,
  headers, read buffers and messages of any length. `OutInv` says where the
  record being flushed comes from and how much of it is out, so that `ssl_write`
  returns by the step that completes its last record. `InInv` says that what is
  handed out, what is decrypted, what is fetched and what the peer still has are
  one piece of its reply after the other; `ReadInOrderCorrect` is a part of it.
  `OverRecords` then has `CHTTP`'s theorems for `SSLRecords`.

* `ARMT`: `AuthFirstCorrect`, `SuccessIsRealCorrect`,
  `LeftConnectionIsDeadCorrect`, and `ImplementsReportingCorrect`: every
  behaviour of the program, with any intervals of the jobs, any number of
  failures and whatever the clock does, is one of `Reporting`. The invariant has
  five parts. `JobsInv`: the jobs are added in a fixed order, and none has run
  more often than the time of its next run says, so that a report that is taken
  is one of `Reports`. `AuthInv`: until main is past AUTH that is the whole
  message. `MessageInv`: the message holds reports that were taken, and in a
  pass none of a job still to come, so that `AppendSegment` replaces nothing.
  `InboxInv`: what the server has was taken, and it has nothing of a message it
  has not answered, so that a 202 delivers what is owed. `SendInv`: which
  segments were packed, and what a 202 means while it is read and after.
  From the refinement and `DeliveryInv`, which is inductive for `Reporting` alone
  (what was delivered was taken, is not owed, and no two deliveries share a
  report), follows `ReportsAtMostOnceCorrect`. `FSCHECKNearMidnight`:
  the scheduler never leaves the grid of the first run of FSCHECK, so that all its
  runs are as near to a midnight as the first, and no nearer in winter.
  What is proved of the parts holds of the whole. `ScheduleCorrect` has the
  theorems of `CSchedulerProofs` by an instance of that module, since each step
  of `ARMT` is a step or a stutter of the scheduler. `ConnectionCorrect` has the
  invariant of `CHTTPProofs`, but for the part about `error`, which is main's
  `result` and changes between the calls too. `TypeCorrect` follows from the two
  and the types of what is `ARMT`'s own; the types of `Reporting` are a part of
  `DeliveryInv`.
* `Startup`, for the whole `StartupSpec`: `OneIdentityCorrect`, with `KeyInv`,
  which counts the key in the file as used and says that while there is none, or
  one is being made, all that were used have been lost; `UtilitiesWholeCorrect`,
  with `ExeInv`: a file that is executed is executable still, and what
  `Initialize` has passed is good or is accounted for in `met`, by the call that
  failed. `TypeCorrect` is about the key
  store: `KeyTypes` adds that the key in the file and that in memory were
  generated, so that those used were.
* `RunCommand`: `TypeCorrect`, `OutputWholeCorrect`, `LeavesNothingCorrect`. What is collected
  and what is in the pipe are together what was written, in order, and nobody
  has the pipe open when the parent waits or a call begins.
* `CCompress` (in `CommonProofs` too): `TrueMeansWholeCorrect`. `LoopInv` counts
  the pieces between the two streams; `DeflateInv` says that `Z_FINISH` is only
  given with the last of the input, `InflateInv` that at the head of the loop
  zlib holds nothing back and the stream has not ended, so that an input that
  is used up there was cut off. `CompressTypeCorrect` bounds the output by the
  input taken (`CompressSizes`).
* `CDNS`: `TypeCorrect`, `NothingLostCorrect`, `WaitBoundedCorrect`,
  `EveryResolverAskedCorrect`, `ResultFreshCorrect`, `OneReplyCorrect`.
  The resolvers asked are those up to the one the loop is at, and the deadline of
  a `recv` is one timeout behind each of them. `CacheInv` says that a record in
  the cache is of a reply that came, that what is left of an entry when a call
  has looked it up has not expired, and that a call asks only for a name whose
  entry is empty, so that an entry never holds records of two replies.
* `CFSVerifier`: `TypeCorrect`, `WalkEndsCorrect`, `OnlyWantedCorrect`,
  `ProtectedCorrect`, for every tree of directories with any links, every list of
  calls and any number of changes. `OpenInv` is what `WalkEnds` and `OnlyWanted`
  need of the recursion: what is open was added by the call in progress, once,
  and is within what that call asks for. `FoundInv` is the argument for
  `Protected`, that of a graph search: a directory that was added leads to
  nothing that was left alone all the time and is neither added, excluded nor
  still pending, in an entry of an open directory or in `path`; with the stack
  empty nothing is pending, so that what was added is closed and holds all that
  can be reached (`Reach` is the least closed set, which makes this a matter of
  set inclusion). `HashedInv` says the same of `Scan`.
* `BlockDevices` (in `CommonProofs`): `FaultsSentCorrect`,
  `SentForAReasonCorrect`. A device that
  stays as it is was found as soon as its kind has been enumerated, or there is a
  reason why not, and the loop passes it only to send it or because of an error.
* The algorithms (`AlgorithmProofs`; the lists and the question of DNS in
  `CommonProofs`), for inputs of any size:
  * `FirstMidnightCorrect`, `FirstNearMidnightCorrect`: how far the first FSCHECK
    is from tonight's midnight on the server's clock, for every time, zone,
    length of a day and of the hour, in summer and winter: at most a day and an
    hour, within the hour if the date is Greenwich's, and at a midnight when the
    zone's rules are in effect (or it has none).
  * `ReportsOldFilesCorrect`: the report of `Diff` after n records is what is to
    be said of those n files, for any files, order and end of the database; what
    comes behind the loop can only say that files are new.
  * `RequestHeadersCorrect`: after n calls the map holds what the last call about
    each name left (`StandingKept`).
  * `HeadersKeptCorrect`: a repeated header of a reply gets an index that is free,
    and no header but the last is dropped.
    That there is one is the pigeonhole principle: n headers cannot use n + 1
    names, which differ because the numbers do.
  * `ListsCompleteCorrect`: what a cache holds after n calls is what counted at
    those that filled it, of which the last is the first behind a `ClearCache`.
    The first call for bound sockets fixes them (`FirstGetsFill`), and the first
    call for those of a process looks each descriptor up among them in turn
    (`SocketsFound`); no later call changes either.
  * `QuestionIsForHostCorrect`: behind the k-th dot all before it has been
    written in RFC 1035's form and nothing else has changed (`Scanned`), with the
    k-th label where the lengths of those before it put it (`Layout`).
  * `AddressesFoundCorrect`: for any number of answers in any order. The loop over
    a name steps from label to label and, where there is a pointer, through the
    name in the question, from which on it counts no more (`Direct`, `Pointed`);
    its 0 it does not leave, so that it stands there after as many steps as the
    reply has bytes (`NameSkipped`). Hence the k-th answer is read where the
    records before it end, with the addresses they hold (`Ordered`). The pointers
    are those to the first 256 bytes, which the code follows to the question's
    name wherever there they lead (`FineEnd`), and a label has less than 192
    bytes (`FineName`; resolvers admit 63). The name itself `ParseDNSName` puts together for nobody:
    both callers discard it, and the model has the number of bytes to skip.
  * `MessageParsesCorrect`: a reader that has come to the beginning of the k-th
    piece has got what is in the k - 1 before it (`AllRead`); what stands there is
    a length and so many bytes, and a number written in bytes of any base is read
    as that number (`NumberRead`), in the order of the host for a segment, in one
    for a string. It is shown for the strings of a segment, if they fit their
    lengths, and then for the segments of a message, whatever is in them.

The algorithms are recursive functions, folds and loops over sequences. What is
said of them is proved by induction on the number of steps, with the set of the
steps for which it holds (`SetInduction`), and the recursion is shown to have a
solution (`Recursion`, `Iteration`), both from the theorems about well-founded
orders of the library. `Computed` is the bridge to the model: once an input has
been computed, the outcome is the operator's result.

Assumptions: those on the constants. Three say more than what kind of value a
constant is. `AlgorithmAssumption`: a zone is at most half a day off and
daylight saving adds less than the rest of the day, and a label has at most 255
letters (the length is one byte in the code too; resolvers admit 63).
`DecimalAssumption`: two numbers are not written alike, which is what makes the
indices of repeated headers different. `FramingAssumption`: four
bytes tell the length of a segment (a string may be too long for its two).

The proofs are laid out with one step per action and the conjuncts it can
disturb below it; for `CScheduler`, `CHTTP` and `CFSVerifier` `TypeOK` is proved
first and used as a lemma, elsewhere the invariant has the types it needs, and
`TypeCorrect` follows from it (the socket numbers of `CDNS` stay within their
limit because `NothingLost` counts them). `RunCommand`, `CCompress` and
`BlockDevices`, small components, share `CommonProofs` with the algorithms on
lists, for which `CommonProofs` extends `AlgorithmProofs`.

Only model-checked: liveness (`CaughtUp`, `FaultReported`, `CallReturns`,
`Terminates`), which the proof system does not support under fairness. By
reading only: that `IsBE`, `Base` = 256 and the code's other numbers are
instances of the constants.

## What is not modelled

* The rest of the vendored libraries (`libs/`: pcre, zlib, and of polarssl the
  handshake, the ciphers and big numbers) and the embedded utilities (`utils/`:
  smartmontools, cciss_vol_status, lsscsi, megactl): third-party programs that
  make up nearly all lines of the repository. What the program needs of them is
  modelled from its use and marked external.
* In `SSLRecords`: a socket that takes only a part of the five bytes of a
  record's header (`ssl_flush_output` would then send bytes from before
  `out_msg`: `Takes` has the header taken whole); a connection that works again
  after an error; a peer that sends more after an alert, or records that do not
  authenticate (they end like `RecvFails`).
* Signing and encoding; the memory of the process; a host name's lookup inside
  `ARMT`, where it is part of a `Connect` that may fail. That `Deflate`
  may fail half-way is left out too: `Send` does not look at its result
  (CMessageBuilder.cc:230), but its input is in memory, so that only a failure
  of zlib itself would show.
* The texts of models, serial numbers and PCI classes.
* A pipe that could not be made: `RunCommand` uses its numbers unset. An error of
  `read` or `waitpid` there, which would end its loop: the pipe and the child are
  its own and the program handles no signals, so that there is none.
* Peers that are silent for ever, see Fairness.

## Plan

Done: `CScheduler`, `CHTTP`, `Midnight`, `Reporting`, `ARMT` (the core, in this
order), the components around it, then what is below and beside them:
`SSLRecords`, `Startup`, `Framing`, the request's headers, `SystemLists`.

Proved: all safety properties of the components and of `ARMT`, their types, both
refinements (`ARMT` of `Reporting`, `SSLRecords` of `CHTTP`), what `ARMT`
inherits of `CScheduler` and `CHTTP`, and all algorithms.

Next: `CDNS` below `CHTTP` in `ARMT`, where the sockets of rejected replies and
of failed handshakes share one descriptor table.
