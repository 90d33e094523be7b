---------------------------- MODULE MCAlgorithms ----------------------------
(***************************************************************************)
(* The pure algorithms of the program, each run on every input of a small  *)
(* set and compared with a reference: the time of the first FSCHECK, the   *)
(* name in a DNS question, the records of a DNS reply, the headers of an   *)
(* HTTP request and reply, the differences to a database of digests, the   *)
(* message of a request, the lists of processes and bound sockets.         *)
(***************************************************************************)
EXTENDS Midnight, FiniteSets, SequencesExt

CONSTANTS
  Days,       \* bound: how many days of start times are looked at
  MaxLabels,  \* bound: labels of a name, letters of a label
  MaxAnswers, \* bound: answers in a reply
  MaxLines,   \* bound: headers of a reply
  Paths, Digests,
  MaxHistory, \* bound: calls between two looks at headers or a list
  Decimal(_), \* the letters a number is written with, as one
  Base,       \* of the bytes of a message, 256
  Texts,      \* what a device may have to say in one of its strings
  MaxText,    \* bound: the length of one
  MaxStrings  \* bound: strings in a segment

\* Zones are up to half a day off, and daylight saving adds less than the rest;
\* a label is as long as a byte can say.
ASSUME AlgorithmAssumption ==
  /\ Days \in Nat
  /\ Hour + (Day \div 2) <= Day
  /\ IsFiniteSet(Paths)
  /\ MaxLabels \in 0..255

\* Numbers are told apart by how they are written.
ASSUME DecimalAssumption ==
  /\ MaxLines \in Nat
  /\ \A i, k \in 1..MaxLines : Decimal(i) = Decimal(k) => i = k

\* Four bytes tell the length of a segment; two may not tell that of a string.
ASSUME FramingAssumption ==
  /\ Base \in Nat \ {0, 1}
  /\ MaxText \in Nat /\ MaxStrings \in Nat
  /\ \A s \in Texts : s \in Seq(0..(Base - 1)) /\ Len(s) <= MaxText
  /\ MaxStrings * (MaxText + 2) < (Base * Base) * (Base * Base)

D  == INSTANCE DNSMessage
HH == INSTANCE HTTPHeaders
FD == INSTANCE CFSDiff
FR == INSTANCE Framing
SL == INSTANCE SystemLists

VARIABLES
  input,    \* of the algorithm, which its field "of" names
  outcome   \* its result, Pending before it has run

algorithm == <<input, outcome>>

Pending == <<>>

Sequences(S, n) == UNION {[1..k -> S] : k \in 0..n}

\* Every time of some days in every timezone (whole hours, 12 west to 12 east),
\* without rules for daylight saving, or with them and in or out of it.
Starts ==
  {[of |-> "midnight", now |-> t, timezone |-> z, daylight |-> rules[1], isdst |-> rules[2]] :
     t \in Day..((Days + 1) * Day), z \in (-(Day \div 2))..(Day \div 2),
     rules \in {<<0, 0>>, <<1, 0>>, <<1, 1>>}}

Names == Sequences(Sequences({97, 98}, MaxLabels) \ {<<>>}, MaxLabels) \ {<<>>}

Questions == {[of |-> "question", labels |-> n] : n \in Names}

\* Answers have the name of the question in full, as a pointer, or a label and a
\* pointer to the last of it, and hold an address, a name or something else.
Host == <<<<97>>, <<98, 98>>>>

AnswerNames ==
  {D!Wire(Host, D!End), D!PointerTo(D!HeaderSize),
   D!Wire(<<<<97, 97>>>>, D!PointerTo(D!HeaderSize + 2))}

Answers ==
  [name : AnswerNames, type : {D!DNS_TYPE_A}, class : {D!DNS_CLASS_IN},
   data : {<<10, 0, 0, 1>>, <<0, 192, 1, 0>>}] \cup
  [name : AnswerNames, type : {5}, class : {D!DNS_CLASS_IN}, data : {D!Wire(Host, D!End), <<0>>}] \cup
  [name : AnswerNames, type : {D!DNS_TYPE_A}, class : {3}, data : {<<0, 0, 7, 9>>}]

Replies == {[of |-> "reply", answers |-> a] : a \in Sequences(Answers, MaxAnswers)}

HeadersOf == {[of |-> "headers", lines |-> l] :
  l \in [1..MaxLines -> {HH!Line(n, v, w) : n \in {<<"a">>, <<"A">>, <<"a", "1">>}, v \in {"x", "y"},
                                     w \in BOOLEAN}]}

Scans == UNION {[S -> Digests] : S \in SUBSET Paths}

\* The database is what Save wrote of a scan, or the front part of it.
Stored(old) == UNION {{SubSeq(s, 1, n) : n \in 0..Len(s)} : s \in FD!Saved(old)}

Databases ==
  UNION {{[of |-> "diff", saved |-> old, input |-> i, files |-> new] :
            i \in Stored(old), new \in Scans} : old \in Scans}

HeaderCalls ==
  [call : {"set"}, name : {<<"a">>, <<"A">>, <<"A", "-", "a">>}, value : {"x", "y"}] \cup
  [call : {"del"}, name : {<<"A">>, <<"a", "-", "a">>}] \cup [call : {"clear"}]

Requests == {[of |-> "request", calls |-> c] : c \in Sequences(HeaderCalls, MaxHistory)}

\* With bytes of one bit: strings of three are the longest whose length two bytes
\* can tell.
SomeTexts == {<<>>, <<0>>, <<1, 0>>, <<1, 1, 1>>, <<1, 0, 0, 1, 1>>}

\* Two segments in the order of their names.
Segments(name) ==
  [name : {name}, function : {"NULL", "nothing"}, strings : {<<>>}] \cup
  [name : {name}, function : {"data"}, strings : Sequences(Texts, MaxStrings)]

Messages ==
  {[of |-> "message", segments |-> <<a, b>>, be |-> e] :
     a \in Segments(<<0>>), b \in Segments(<<1>>), e \in BOOLEAN}

\* Calls of a list: what there is when it is asked for, or ClearCache.  Some
\* entries are not processes, or not such that their device is listed.
Entry(a, b, n) == [numeric |-> a, exe |-> b, readable |-> a, vendor |-> n, device |-> n]
Good(n) == Entry(TRUE, TRUE, n)
Bad(list) == IF list = "processes" THEN {Entry(FALSE, TRUE, 1), Entry(TRUE, FALSE, 1)}
             ELSE {Entry(FALSE, TRUE, 1), Good(65536)}

ListCalls(list) ==
  [call : {"get"}, there : {<<>>, <<Good(1)>>} \cup {<<b, Good(2)>> : b \in Bad(list)}]
  \cup {[call |-> "clear"]}

Lists ==
  UNION {{[of |-> "list", list |-> l, calls |-> c] : c \in Sequences(ListCalls(l), MaxHistory)} :
           l \in {"processes", "devices"}}

\* Lines as the kernel has them, and the sockets among a process's descriptors.
Lines ==
  [type : {"tcp"}, state : {10}, remote : {0}, socket : {0}] \cup
  [type : {"tcp"}, state : {1, 8}, remote : {5}, socket : {0}] \cup
  [type : {"udp"}, state : {7}, remote : {0}, socket : {0}] \cup
  [type : {"udp"}, state : {1}, remote : {5}, socket : {0}] \cup
  [type : {"unix"}, state : {1}, path : BOOLEAN, socket : {0}] \cup
  [type : {"unix"}, state : {3}, path : {TRUE}, socket : {0}]

\* Calls of GetBoundList and of a process's: what lines there are, and the process's
\* sockets if its descriptors can be read.
BindingCalls(lines, sockets) ==
  [call : {"bound"}, lines : lines] \cup
  [call : {"process"}, lines : lines, sockets : sockets, readable : BOOLEAN]

\* One call with any lines and sockets, or several with some.
SomeLines ==
  {<<>>, <<[type |-> "tcp", state |-> 10, remote |-> 0, socket |-> 0]>>,
   <<[type |-> "udp", state |-> 7, remote |-> 0, socket |-> 0]>>}

Bindings == {[of |-> "bindings", calls |-> c] :
  c \in Sequences(BindingCalls(Sequences(Lines, 2), Sequences(1..2, 2)), 1) \cup
        Sequences(BindingCalls(SomeLines, {<<>>, <<1>>}), MaxHistory)}

Numbered(lines) == [i \in DOMAIN lines |-> [lines[i] EXCEPT !.socket = i]]

AlgorithmInit ==
  /\ input \in Starts \cup Questions \cup Replies \cup HeadersOf \cup Databases
            \cup Requests \cup Messages \cup Lists \cup Bindings
  /\ outcome = Pending

Records(answers) ==
  [i \in DOMAIN answers |->
     D!Record(answers[i].name, answers[i].type, answers[i].class, answers[i].data)]

Computes(of, result) ==
  /\ input.of = of /\ outcome = Pending
  /\ outcome' = <<result>>
  /\ UNCHANGED input

HeaderCall(headers, c) ==
  CASE c.call = "set" -> HH!SetHeader(headers, c.name, c.value)
    [] c.call = "del" -> HH!DelHeader(headers, c.name)
    [] c.call = "clear" -> HH!ClearHeaders

\* The headers of the object after the calls, one after the other.
HeadersAfter(calls) ==
  LET after[n \in 0..Len(calls)] ==
        IF n = 0 THEN HH!ClearHeaders ELSE HeaderCall(after[n - 1], calls[n])
  IN  after[Len(calls)]

ListCall(list, cache, c) ==
  IF c.call = "clear" THEN SL!ClearCache(cache)
  ELSE SL!Get(cache, IF list = "processes" THEN SL!ProcessList(c.there) ELSE SL!DeviceList(c.there))

CacheAfter(list, calls) ==
  LET after[n \in 0..Len(calls)] ==
        IF n = 0 THEN SL!Unread ELSE ListCall(list, after[n - 1], calls[n])
  IN  after[Len(calls)]

BindingCall(caches, c) ==
  IF c.call = "bound" THEN SL!GetBoundList(caches, Numbered(c.lines))
  ELSE SL!ProcessGetBoundList(caches, [c EXCEPT !.lines = Numbered(c.lines)])

BindingsAfter(calls) ==
  LET after[n \in 0..Len(calls)] ==
        IF n = 0 THEN SL!NoneRead ELSE BindingCall(after[n - 1], calls[n])
  IN  after[Len(calls)]

AlgorithmNext ==
  \/ Computes("midnight", FirstMidnight(input.now, input.timezone, input.daylight))
  \/ Computes("question", D!Question(D!Dotted(input.labels)))
  \/ Computes("reply", D!ReadReply(D!Reply(Host, Records(input.answers)), Len(input.answers)))
  \/ Computes("headers", HH!Headers(input.lines))
  \/ Computes("request", HH!AppendHeaders(HeadersAfter(input.calls)))
  \/ Computes("message", FR!Message(input.segments, input.be))
  \/ Computes("list", CacheAfter(input.list, input.calls).list)
  \/ Computes("bindings", BindingsAfter(input.calls).process.list)
  \/ Computes("diff", FD!Diff(input.input, input.files))

AlgorithmSpec == AlgorithmInit /\ [][AlgorithmNext]_algorithm

-----------------------------------------------------------------------------
Done(of) == input.of = of /\ outcome # Pending

Result == outcome[1]

\* In summer and winter, wherever the server is and whatever the time: the first
\* FSCHECK (armt.cc, the computation of midnight) is within a day and an hour of
\* tonight's midnight on the server's clock, within the hour if the date is the
\* same as in Greenwich, and at a midnight unless the rules for daylight saving
\* are not in effect.
FirstNearMidnight ==
  Done("midnight") =>
    NearMidnight(Result, input.now, input.timezone, input.daylight, input.isdst)

\* "midnight tonight in the server's timezone" (armt.cc:186) is when FSCHECK is
\* first due.
RunsTonight ==
  Done("midnight") => Result = MidnightTonight(input.now, input.timezone, input.isdst)

\* The question DNSLookup sends is for the host it was given, as RFC 1035
\* writes the name: every label has its length in front, the last one too.
QuestionIsForHost ==
  Done("question") =>
    LET wire == D!Wire(input.labels, D!End)
    IN  Result = [i \in 0..(Len(wire) - 1) |-> wire[i + 1]]

\* However the names in a reply are compressed and whatever records stand
\* between them, DNSLookup finds the addresses, each once and in their order.
AddressesFound ==
  Done("reply") =>
    Result = FlattenSeq([i \in DOMAIN input.answers |->
               LET a == input.answers[i]
               IN  IF a.type = D!DNS_TYPE_A /\ a.class = D!DNS_CLASS_IN THEN <<a.data>> ELSE <<>>])

\* The headers of the reply have the values of these lines, each as often.
HasValuesOf(lines) ==
  \A v \in {"x", "y"} :
    Cardinality({k \in DOMAIN Result : Result[k] = v})
      = Cardinality({i \in lines : input.lines[i].value = v})

\* The lines up to the first that is no header.
Leading == {i \in DOMAIN input.lines : \A k \in 1..i : input.lines[k].wellFormed}

\* "look for duplicate headers and append an index onto them" (CHTTP.cc): a
\* header never overwrites another one, however names and indices coincide;
\* every header up to the first line that is none is there, but for the last
\* line of all, of which AllHeadersReturned tells.
HeadersKept ==
  Done("headers") => \E dropped \in SUBSET {Len(input.lines)} : HasValuesOf(Leading \ dropped)

\* PerformRequest gives back "The HTTP headers returned" (CHTTP.h:54): the value
\* of every line up to the first that is no header.
AllHeadersReturned == Done("headers") => HasValuesOf(Leading)

\* Diff says of each file of the whole records that were in the stream whether
\* it is missing or modified now, once, and of others at most that they are new.
ReportsOldFiles ==
  Done("diff") =>
    LET compare == {input.input[i].path : i \in 1..Len(input.input)}
        files   == input.files
        missing == compare \ DOMAIN files
        changed == {p \in compare \cap DOMAIN files : files[p] # input.saved[p]}
    IN  \E new \in SUBSET (DOMAIN files \ compare) :
          /\ {Result.result[i] : i \in 1..Len(Result.result)} =
               [path : missing, type : {"DT_MISSING"}] \cup [path : changed, type : {"DT_MODIFIED"}]
                 \cup [path : new, type : {"DT_NEW"}]
          /\ Len(Result.result) = Cardinality(missing) + Cardinality(changed) + Cardinality(new)

\* Diff does "look for new files" (CFSVerifier.cc:208): of a database that is
\* all there, it reports every file that is not in it.
NewFilesReported ==
  Done("diff") /\ Len(input.input) = Cardinality(DOMAIN input.saved) =>
    [path : DOMAIN input.files \ DOMAIN input.saved, type : {"DT_NEW"}]
      \subseteq {Result.result[i] : i \in 1..Len(Result.result)}

\* Headers survive from one request to the next: whatever was set, removed and
\* set again in whatever spelling, a request has each name once, with the value
\* it was given last and capitals after dashes (so no signature of an earlier one).
RequestHeaders ==
  Done("request") =>
    LET calls   == input.calls
        About(i) == IF calls[i].call = "clear" THEN {<<"a">>, <<"a", "-", "a">>}
                    ELSE {HH!StrToLower(calls[i].name)}
        last    == {i \in DOMAIN calls : calls[i].call = "set" /\
                      \A k \in (i + 1)..Len(calls) : About(i) \cap About(k) = {}}
        Capital(name) == IF name = <<"a">> THEN <<"A">> ELSE <<"A", "-", "A">>
    IN  Result = {[name |-> Capital(HH!StrToLower(calls[i].name)), value |-> calls[i].value] : i \in last}

\* The length of each string fits the two bytes that it has.
AllShort(strings) == \A i \in DOMAIN strings : Len(strings[i]) < Base * Base

\* Who reads the lengths of the segments in an order of bytes gets back from the
\* message the segments that had something to send or no function, with their
\* names, and each with its strings if those fit.
ParsesWith(order) ==
  LET parsed   == FR!Parsed(Result, order)
      segments == input.segments
  IN  /\ [i \in DOMAIN parsed |-> parsed[i].name] =
           FlattenSeq([i \in DOMAIN segments |->
             IF FR!Sends(segments[i]) THEN <<segments[i].name>> ELSE <<>>])
      /\ \A i \in DOMAIN parsed, k \in DOMAIN segments :
           parsed[i].name = segments[k].name /\ AllShort(segments[k].strings) =>
             parsed[i].strings = segments[k].strings

\* A message from any host can be read, by who knows the order of its bytes
\* (CMessageBuilder::Send); strings are read the same from any host, and one that
\* is too long for its length spoils its own segment and no other.
MessageParses ==
  Done("message") => \E order \in BOOLEAN : (order => input.be) /\ ParsesWith(order)

\* "we need to always send in LE" (CMessageBuilder.cc:186): nobody needs to know
\* the order of bytes of the host.
SegmentsLittleEndian == Done("message") => ParsesWith(FALSE)

\* The calls of a list that read the system: the first, and those behind a
\* ClearCache; and what counts of what they see.
FirstGets(calls) ==
  {i \in DOMAIN calls : calls[i].call = "get" /\
     \A k \in 1..(i - 1) : calls[k].call = "get" =>
       \E c \in (k + 1)..(i - 1) : calls[c].call = "clear"}
Seen(list, call) == SL!Those(call.there, LAMBDA e : e \notin Bad(list))

\* Nor does a ClearCache come behind call i.
Uncleared(calls, i) == \A k \in (i + 1)..Len(calls) : calls[k].call # "clear"

\* The sockets that are listened at, or wait for datagrams, with the given numbers.
Listening(lines, sockets) ==
  LET wanted == {i \in DOMAIN lines : LET l == lines[i] IN
                   <<l.type, l.state>> \in {<<"tcp", 10>>, <<"udp", 7>>} \/
                   (l.type = "unix" /\ l.state = 1 /\ l.path)}
      found(n) == IF n \in wanted THEN <<Numbered(lines)[n]>> ELSE <<>>
  IN  FlattenSeq([i \in DOMAIN sockets |-> found(sockets[i])])

\* A list has all that counts and was there when it was asked for the first time, or the
\* first time after a ClearCache, and does not change before the next.  The sockets
\* of a process are those its descriptors had when it was asked for them first, in
\* their order, among the ones that were bound when those were asked for first; and
\* none if its descriptors can never be read.
ListsComplete ==
  /\ Done("list") =>
       LET calls == input.calls
           piece(F, i) == IF i \in F THEN Seen(input.list, calls[i]) ELSE <<>>
       IN  \E F \in SUBSET FirstGets(calls) :
             /\ \A i \in FirstGets(calls) : Uncleared(calls, i) => i \in F
             /\ Result = FlattenSeq([i \in DOMAIN calls |-> piece(F, i)])
  /\ Done("bindings") =>
       LET calls == input.calls
           Asks(i) == calls[i].call = "process"
       IN  /\ \A p \in DOMAIN calls :
                Asks(p) /\ calls[p].readable /\ (\A k \in 1..(p - 1) : ~Asks(k)) =>
                  Result = Listening(calls[1].lines, calls[p].sockets)
           /\ (\A p \in DOMAIN calls : Asks(p) => ~calls[p].readable) => Result = <<>>

\* "ClearCache" (CProcInfo.h:122): what the list had before is gone when it is
\* asked for again.
ClearCacheForgets ==
  Done("list") =>
    \A i \in FirstGets(input.calls) : Uncleared(input.calls, i) =>
      Result = Seen(input.list, input.calls[i])

\* What the comments and declarations quoted above promise, each of its algorithm.
AsDocumented ==
  /\ RunsTonight
  /\ AllHeadersReturned
  /\ NewFilesReported
  /\ SegmentsLittleEndian
  /\ ClearCacheForgets
=============================================================================
