-------------------------------- MODULE CDNS --------------------------------
(***************************************************************************)
(* CDNS (common/CDNS.cc) and the gethostbyname that wraps it (armt.cc):    *)
(* the cache of addresses and the lookup that asks one resolver after the  *)
(* other.                                                                  *)
(*                                                                         *)
(* One thread calls.  Only recv waits, for SO_RCVTIMEO at most, so that    *)
(* the clock goes on between the calls and in recv; everything between two *)
(* sockets calls is one step.  An address is known by the reply it came in *)
(* and the second it expires; the order of addresses is left out.          *)
(***************************************************************************)
EXTENDS Integers, SequencesExt

CONSTANTS
  Names,       \* the host names asked for
  Resolvers,   \* the arguments of AddResolver
  Timeout,     \* SO_RCVTIMEO, 5 seconds
  TTLs,        \* the times to live of records
  MaxSockets,  \* the descriptors left to the process
  MaxReplies,  \* bound: replies accepted
  MaxTime,     \* bound: the clock
  NoHostent    \* NULL

ASSUME DNSAssumption ==
  /\ Timeout \in Nat \ {0}
  /\ TTLs \subseteq Nat
  /\ MaxSockets \in Nat
  /\ MaxReplies \in Nat /\ MaxTime \in Nat
  /\ NoHostent \notin Nat

VARIABLES
  now,          \* std::time(0)
  m_resolvers,  \* the resolvers in the order they are asked in
  m_cache,      \* the records of each name
  dpc,          \* "idle", "next" (at the head of the loop) or "receive"
  fqdn,         \* the name of the last call
  t,            \* GetIPv4's sample of the clock
  server,       \* index of the resolver the loop is at
  deadline,     \* when the recv in progress gives up
  socks,        \* sockets open
  rejected,     \* history: replies that were not accepted
  asked,        \* history: the resolvers tried in this call
  replies,      \* how many replies were accepted
  result,       \* the records the last call returned
  hostent,      \* _hostent of the wrapper
  live          \* the hostents allocated and not freed

call     == <<dpc, fqdn, t, server, deadline, asked, result>>
sockets  == <<socks, rejected>>
hostents == <<hostent, live>>
vars     == <<now, m_resolvers, m_cache, call, sockets, replies, hostents>>

Init ==
  /\ now = 0
  /\ m_resolvers = <<>>
  /\ m_cache = [n \in Names |-> {}]
  /\ dpc = "idle" /\ fqdn \in Names /\ t = 0 /\ server = 1 /\ deadline = 0
  /\ asked = <<>> /\ result = {}
  /\ socks = 0 /\ rejected = 0
  /\ replies = 0
  /\ hostent = NoHostent /\ live = {}

Tick ==
  /\ \/ dpc = "idle" /\ now < MaxTime
     \/ dpc = "receive" /\ now < deadline
  /\ now' = now + 1
  /\ UNCHANGED <<m_resolvers, m_cache, call, sockets, replies, hostents>>

AddResolver ==
  /\ dpc = "idle"
  /\ \E r \in Resolvers \ Range(m_resolvers) : m_resolvers' = Append(m_resolvers, r)
  /\ UNCHANGED <<now, m_cache, call, sockets, replies, hostents>>

-----------------------------------------------------------------------------
(* __wrap_gethostbyname, GetHostByName and GetIPv4                         *)

\* Mutant: an entry that expires now is kept.
Purged_Late(list) == {entry \in list : entry.expire >= now}

\* What is left of a list when the expired entries are erased.
Purged(list) == {entry \in list : entry.expire > now}

\* The wrapper frees the last hostent; GetIPv4 samples the clock and erases
\* what has expired.
Call ==
  /\ dpc = "idle"
  /\ now + Timeout * Len(m_resolvers) <= MaxTime
  /\ \E n \in Names :
       /\ fqdn' = n
       /\ m_cache' = [m_cache EXCEPT ![n] = Purged(@)]
  /\ dpc' = "cache"
  /\ t' = now
  /\ live' = live \ {hostent}
  /\ asked' = <<>>
  /\ UNCHANGED <<now, m_resolvers, server, deadline, result, sockets, replies, hostent>>

\* GetIPv4 returns list, of which GetHostByName makes a hostent, if it is not
\* empty, and the wrapper keeps that.
Return(list) ==
  /\ dpc' = "idle"
  /\ result' = list
  /\ IF list = {}
     THEN hostent' = NoHostent /\ live' = live
     ELSE \E h \in {0, 1} \ live : hostent' = h /\ live' = live \cup {h}

\* There are records that have not expired.
CacheHit ==
  /\ dpc = "cache"
  /\ m_cache[fqdn] # {}
  /\ Return(m_cache[fqdn])
  /\ UNCHANGED <<now, m_resolvers, m_cache, fqdn, t, server, deadline, asked,
                 sockets, replies>>

\* Mutant: a lookup is made whatever the cache has.
CacheMiss_Always ==
  /\ dpc = "cache"
  /\ dpc' = "next"
  /\ server' = 1
  /\ UNCHANGED <<now, m_resolvers, m_cache, fqdn, t, deadline, asked, result,
                 sockets, replies, hostents>>

CacheMiss ==
  /\ dpc = "cache"
  /\ m_cache[fqdn] = {}
  /\ dpc' = "next"
  /\ server' = 1
  /\ UNCHANGED <<now, m_resolvers, m_cache, fqdn, t, deadline, asked, result,
                 sockets, replies, hostents>>

-----------------------------------------------------------------------------
(* DNSLookup                                                               *)

NextServer == dpc' = "next" /\ server' = server + 1

\* The loop turns to the resolver at server.
Asks ==
  /\ dpc = "next"
  /\ server <= Len(m_resolvers)
  /\ asked' = Append(asked, m_resolvers[server])
  /\ UNCHANGED <<now, m_resolvers, m_cache, fqdn, t, result, rejected, replies, hostents>>

\* socket() fails, and with it connect on -1; or connect or send fails and the
\* socket is closed.
AskFails ==
  /\ Asks
  /\ NextServer
  /\ UNCHANGED <<deadline, socks>>

AskSent ==
  /\ Asks
  /\ socks < MaxSockets
  /\ socks' = socks + 1
  /\ dpc' = "receive"
  /\ deadline' = now + Timeout
  /\ UNCHANGED server

\* Mutant: the socket is not closed when recv gives up.
ReceiveFails_NoClose ==
  /\ dpc = "receive"
  /\ NextServer
  /\ UNCHANGED <<now, m_resolvers, m_cache, fqdn, t, deadline, asked, result,
                 sockets, replies, hostents>>

\* recv gives up: the time is over, the port is closed or the reply is shorter
\* than a header.
ReceiveFails ==
  /\ dpc = "receive"
  /\ NextServer
  /\ socks' = socks - 1
  /\ UNCHANGED <<now, m_resolvers, m_cache, fqdn, t, deadline, asked, result,
                 rejected, replies, hostents>>

\* Mutant: a reply that is rejected ends the lookup.
ReplyRejected_Ends ==
  /\ dpc = "receive"
  /\ Return({})
  /\ rejected' = rejected + 1
  /\ UNCHANGED <<now, m_resolvers, m_cache, fqdn, t, server, deadline, asked,
                 socks, replies>>

\* Mutant: the same resolver is given another chance.
ReplyRejected_WaitsAgain ==
  /\ dpc = "receive"
  /\ now + Timeout <= MaxTime
  /\ deadline' = now + Timeout
  /\ UNCHANGED <<now, m_resolvers, m_cache, dpc, fqdn, t, server, asked, result,
                 sockets, replies, hostents>>

\* Not a reply or a reply with an error: the socket stays open.
ReplyRejected ==
  /\ dpc = "receive"
  /\ NextServer
  /\ rejected' = rejected + 1
  /\ UNCHANGED <<now, m_resolvers, m_cache, fqdn, t, deadline, asked, result,
                 socks, replies, hostents>>

\* The address records of a reply, each with its time to live, or none; records
\* of other types are skipped.
Answers == SUBSET {[reply |-> replies + 1, expire |-> now + ttl] : ttl \in TTLs}

\* The records of the reply go to the cache, and what the cache then has for
\* the name is returned.
ReplyAccepted ==
  /\ dpc = "receive"
  /\ replies < MaxReplies
  /\ \E answers \in Answers :
       /\ m_cache' = [m_cache EXCEPT ![fqdn] = @ \cup answers]
       /\ Return(m_cache[fqdn] \cup answers)
  /\ socks' = socks - 1
  /\ replies' = replies + 1
  /\ UNCHANGED <<now, m_resolvers, fqdn, t, server, deadline, asked, rejected>>

\* All resolvers have been asked.
LookupFails ==
  /\ dpc = "next"
  /\ server > Len(m_resolvers)
  /\ Return({})
  /\ UNCHANGED <<now, m_resolvers, m_cache, fqdn, t, server, deadline, asked,
                 sockets, replies>>

-----------------------------------------------------------------------------
GetHostByName ==
  \/ CacheHit \/ CacheMiss
  \/ AskFails \/ AskSent
  \/ ReceiveFails \/ ReplyRejected \/ ReplyAccepted
  \/ LookupFails

Next == AddResolver \/ Call \/ GetHostByName \/ Tick

Spec == Init /\ [][Next]_vars

-----------------------------------------------------------------------------
Records == [reply : 1..MaxReplies, expire : Nat]

TypeOK ==
  /\ now \in 0..MaxTime
  /\ m_resolvers \in Seq(Resolvers)
  /\ m_cache \in [Names -> SUBSET Records]
  /\ dpc \in {"idle", "cache", "next", "receive"}
  /\ fqdn \in Names
  /\ t \in 0..now
  /\ server \in 1..(Len(m_resolvers) + 1)
  /\ deadline \in 0..MaxTime
  /\ asked \in Seq(Resolvers)
  /\ result \subseteq Records
  /\ socks \in 0..MaxSockets /\ rejected \in Nat
  /\ replies \in 0..MaxReplies
  /\ hostent \in {0, 1, NoHostent} /\ live \subseteq {0, 1}

\* A record GetIPv4 returns had not expired at its sample of the clock, unless
\* the call fetched it itself.
ResultFresh ==
  dpc = "idle" =>
    \A record \in result : record.expire > t \/ (asked # <<>> /\ record.reply = replies)

\* The records of a name come from one reply: a lookup never adds to what an
\* earlier one has left, whose addresses may have been given up.
OneReply ==
  \A n \in Names : \A a, b \in m_cache[n] : a.reply = b.reply

\* The sockets open are the one a reply is awaited on and those whose replies
\* were rejected: no other way through the loop loses one.  The wrapper frees
\* each hostent once and loses none: between the calls the one it points to is
\* the one that is allocated, during a call there is none.
NothingLost ==
  /\ socks = rejected + (IF dpc = "receive" THEN 1 ELSE 0)
  /\ live = IF dpc = "idle" /\ hostent # NoHostent THEN {hostent} ELSE {}

\* A call comes back with no address only if a reply without one was accepted
\* or every resolver has been asked, each once.
EveryResolverAsked ==
  [][dpc # "idle" /\ dpc' = "idle" /\ result' = {} /\ replies' = replies =>
       asked = m_resolvers]_vars

\* A call waits for each resolver it asks once, and no longer than its timeout.
WaitBounded == dpc # "idle" => now <= t + Timeout * Len(asked)
=============================================================================
