----------------------------- MODULE CDNSProofs -----------------------------
(***************************************************************************)
(* CDNS's safety properties for any names, resolvers, timeout and limits   *)
(* of the process.                                                         *)
(***************************************************************************)
EXTENDS CDNS, TLAPS

-----------------------------------------------------------------------------
(* The invariant                                                           *)

\* Types, as far as they are needed.
BaseInv ==
  /\ dpc \in {"idle", "cache", "next", "receive"}
  /\ socks \in Nat /\ rejected \in Nat /\ replies \in Nat
  /\ now \in Nat /\ t \in Nat /\ deadline \in Nat
  /\ m_resolvers \in Seq(Resolvers) /\ asked \in Seq(Resolvers)
  /\ server \in Nat

\* The resolvers asked are those before the one the loop is at, that one
\* included while its answer is awaited.
AskedInv ==
  /\ dpc = "cache" => Len(asked) = 0
  /\ dpc = "next" => Len(asked) + 1 = server
  /\ dpc = "receive" => Len(asked) = server /\ server # 0
  /\ dpc \in {"next", "receive"} =>
       /\ Len(asked) <= Len(m_resolvers)
       /\ \A i \in 1..Len(asked) : asked[i] = m_resolvers[i]

\* A recv that gives up in time does so before the time for it is over.
DeadlineInv == dpc = "receive" => now <= deadline /\ deadline <= t + Timeout * Len(asked)

\* A record in the cache came in a reply, and a lookup is on its way only for a
\* name the cache has nothing for.
CacheInv ==
  /\ fqdn \in Names /\ DOMAIN m_cache = Names
  /\ \A n \in Names : \A a \in m_cache[n] : a.reply \in 1..replies
  /\ dpc = "cache" => \A a \in m_cache[fqdn] : a.expire > t
  /\ dpc \in {"next", "receive"} => m_cache[fqdn] = {}

Inv ==
  /\ BaseInv /\ NothingLost /\ AskedInv /\ WaitBounded /\ DeadlineInv
  /\ CacheInv /\ OneReply /\ ResultFresh

-----------------------------------------------------------------------------
\* At first nothing is open, allocated or asked.
LEMMA InitInv == Init => Inv
BY DNSAssumption DEF Init, Inv, BaseInv, NothingLost, AskedInv, WaitBounded, DeadlineInv,
     CacheInv, OneReply, ResultFresh

\* The ways a call comes back.
Returning == CacheHit \/ ReplyAccepted \/ LookupFails

LEMMA ReturnLeaves ==
  ASSUME NEW list, Return(list), live = {}
  PROVE  /\ dpc' = "idle" /\ result' = list
         /\ live' = IF hostent' # NoHostent THEN {hostent'} ELSE {}
BY DNSAssumption DEF Return

\* Types are kept.
LEMMA BaseKept ==
  ASSUME Inv, [Next]_vars
  PROVE  BaseInv'
<1> USE DNSAssumption DEF BaseInv, NothingLost, Inv
<1>1. CASE AddResolver
  <2>1. PICK r \in Resolvers : m_resolvers' = Append(m_resolvers, r)
    BY <1>1 DEF AddResolver
  <2>2. m_resolvers' \in Seq(Resolvers)
    BY <2>1
  <2> QED
    BY <1>1, <2>2 DEF AddResolver, call, sockets
<1>2. CASE Call
  BY <1>2 DEF Call, sockets
<1>3. CASE Returning
  BY <1>3 DEF Returning, CacheHit, ReplyAccepted, LookupFails, Return, sockets
<1>4. CASE CacheMiss
  BY <1>4 DEF CacheMiss, sockets
<1>5. CASE AskFails \/ AskSent
  <2>1. server \in 1..Len(m_resolvers) \/ server = 0
    BY <1>5 DEF AskFails, AskSent, Asks
  <2>2. server # 0
    BY <1>5 DEF AskFails, AskSent, Asks, AskedInv
  <2>3. m_resolvers[server] \in Resolvers
    BY <2>1, <2>2
  <2>4. asked' = Append(asked, m_resolvers[server])
    BY <1>5 DEF AskFails, AskSent, Asks
  <2>5. asked' \in Seq(Resolvers)
    BY <2>3, <2>4
  <2> QED
    BY <1>5, <2>5 DEF AskFails, AskSent, Asks, NextServer
<1>6. CASE ReceiveFails \/ ReplyRejected
  BY <1>6 DEF ReceiveFails, ReplyRejected, NextServer
<1>7. CASE Tick
  BY <1>7 DEF Tick, call, sockets
<1>8. CASE UNCHANGED vars
  BY <1>8 DEF vars, call, sockets
<1> QED
  BY <1>1, <1>2, <1>3, <1>4, <1>5, <1>6, <1>7, <1>8 DEF Next, GetHostByName, Returning

\* Sockets and hostents.
LEMMA NothingLostKept ==
  ASSUME Inv, [Next]_vars
  PROVE  NothingLost'
<1> USE DEF Inv, BaseInv, NothingLost
<1>1. CASE AddResolver \/ Tick
  BY <1>1 DEF AddResolver, Tick, call, sockets, hostents
<1>2. CASE Call
  BY <1>2 DEF Call, sockets
<1>3. CASE Returning
  <2>1. /\ dpc # "idle"
        /\ \/ socks' = socks - 1 /\ dpc = "receive"
           \/ socks' = socks /\ dpc # "receive"
        /\ rejected' = rejected
    BY <1>3 DEF Returning, CacheHit, ReplyAccepted, LookupFails, sockets
  <2>2. PICK list : Return(list)
    BY <1>3 DEF Returning, CacheHit, ReplyAccepted, LookupFails
  <2>3. dpc' = "idle" /\ live' = IF hostent' # NoHostent THEN {hostent'} ELSE {}
    BY <2>1, <2>2, ReturnLeaves
  <2> QED
    BY <2>1, <2>3
<1>4. CASE CacheMiss
  BY <1>4 DEF CacheMiss, sockets, hostents
<1>5. CASE AskFails \/ AskSent
  BY <1>5 DEF AskFails, AskSent, Asks, NextServer, hostents
<1>6. CASE ReceiveFails \/ ReplyRejected
  BY <1>6 DEF ReceiveFails, ReplyRejected, NextServer, hostents
<1>7. CASE UNCHANGED vars
  BY <1>7 DEF vars, call, sockets, hostents
<1> QED
  BY <1>1, <1>2, <1>3, <1>4, <1>5, <1>6, <1>7 DEF Next, GetHostByName, Returning

\* One more resolver asked allows one more timeout.
LEMMA OneMoreTimeout ==
  ASSUME NEW n \in Nat
  PROVE  /\ Timeout * n \in Nat
         /\ Timeout * (n + 1) = (Timeout * n) + Timeout
BY DNSAssumption

\* Which resolvers were asked, and for how long.
LEMMA AskedKept ==
  ASSUME Inv, [Next]_vars
  PROVE  (AskedInv /\ WaitBounded /\ DeadlineInv)'
<1> USE DEF Inv, BaseInv
<1>1. CASE AddResolver
  BY <1>1 DEF AddResolver, AskedInv, WaitBounded, DeadlineInv, call
<1>2. CASE Call
  <2>1. dpc' = "cache" /\ asked' = <<>> /\ t' = now /\ now' = now
    BY <1>2 DEF Call
  <2>2. Timeout * Len(asked') = 0
    BY <2>1, DNSAssumption
  <2> QED
    BY <2>1, <2>2 DEF AskedInv, WaitBounded, DeadlineInv
<1>3. CASE Returning
  <2>1. dpc' = "idle"
    BY <1>3 DEF Returning, CacheHit, ReplyAccepted, LookupFails, Return
  <2> QED
    BY <2>1 DEF AskedInv, WaitBounded, DeadlineInv
<1>4. CASE CacheMiss
  BY <1>4 DEF CacheMiss, AskedInv, WaitBounded, DeadlineInv
<1>5. CASE AskFails \/ AskSent
  <2>1. /\ dpc = "next" /\ server <= Len(m_resolvers)
        /\ asked' = Append(asked, m_resolvers[server])
        /\ UNCHANGED <<now, t, m_resolvers>>
        /\ \/ dpc' = "next" /\ server' = server + 1
           \/ dpc' = "receive" /\ server' = server /\ deadline' = now + Timeout
    BY <1>5 DEF AskFails, AskSent, Asks, NextServer
  <2>2. /\ Len(asked) \in Nat /\ Len(asked) + 1 = server /\ Len(asked) <= Len(m_resolvers)
        /\ \A i \in 1..Len(asked) : asked[i] = m_resolvers[i]
    BY <2>1 DEF AskedInv
  <2>3. /\ Len(asked') = Len(asked) + 1
        /\ asked'[Len(asked) + 1] = m_resolvers[server]
        /\ \A i \in 1..Len(asked) : asked'[i] = asked[i]
    BY <2>1
  <2>4. \A i \in 1..Len(asked') : asked'[i] = m_resolvers'[i]
    <3>1. \A i \in 1..Len(asked') : i \in 1..Len(asked) \/ i = Len(asked) + 1
      BY <2>2, <2>3
    <3> QED
      BY <2>1, <2>2, <2>3, <3>1
  <2>5. AskedInv'
    BY <2>1, <2>2, <2>3, <2>4 DEF AskedInv
  <2>6. now <= t + Timeout * Len(asked)
    BY <2>1 DEF WaitBounded
  <2>7. /\ Timeout * Len(asked') = (Timeout * Len(asked)) + Timeout
        /\ Timeout * Len(asked) \in Nat /\ Timeout \in Nat
    BY <2>2, <2>3, OneMoreTimeout, DNSAssumption
  <2>8. now' + Timeout <= t' + Timeout * Len(asked')
    BY <2>1, <2>6, <2>7
  <2> QED
    BY <2>1, <2>5, <2>7, <2>8 DEF WaitBounded, DeadlineInv
<1>6. CASE ReceiveFails \/ ReplyRejected
  BY <1>6 DEF ReceiveFails, ReplyRejected, NextServer, AskedInv, WaitBounded, DeadlineInv
<1>7. CASE Tick
  <2>1. /\ now' = now + 1 /\ UNCHANGED <<dpc, t, server, deadline, asked, m_resolvers>>
        /\ dpc = "idle" \/ (dpc = "receive" /\ now < deadline)
    BY <1>7 DEF Tick, call
  <2>2. Len(asked) \in Nat /\ Timeout * Len(asked) \in Nat
    BY OneMoreTimeout
  <2> QED
    BY <2>1, <2>2 DEF AskedInv, WaitBounded, DeadlineInv
<1>8. CASE UNCHANGED vars
  BY <1>8 DEF vars, call, AskedInv, WaitBounded, DeadlineInv
<1> QED
  BY <1>1, <1>2, <1>3, <1>4, <1>5, <1>6, <1>7, <1>8 DEF Next, GetHostByName, Returning

\* Only Call and ReplyAccepted touch the cache.
CacheSame == UNCHANGED <<m_cache, fqdn, t, replies>>

LEMMA CacheSteps ==
  ASSUME Inv, [Next]_vars
  PROVE  \/ Call \/ ReplyAccepted
         \/ /\ CacheSame
            /\ dpc' \in {"cache", "next", "receive"} =>
                 \/ dpc' = dpc
                 \/ dpc' = "next" /\ m_cache[fqdn] = {}
                 \/ dpc \in {"next", "receive"} /\ dpc' \in {"next", "receive"}
<1> USE DEF CacheSame
<1>1. CASE AddResolver
  BY <1>1 DEF AddResolver, call
<1>2. CASE Tick
  BY <1>2 DEF Tick, call
<1>3. CASE CacheHit
  BY <1>3 DEF CacheHit, Return
<1>4. CASE LookupFails
  BY <1>4 DEF LookupFails, Return
<1>5. CASE CacheMiss
  BY <1>5 DEF CacheMiss
<1>6. CASE AskFails \/ AskSent
  BY <1>6 DEF AskFails, AskSent, Asks, NextServer
<1>7. CASE ReceiveFails \/ ReplyRejected
  BY <1>7 DEF ReceiveFails, ReplyRejected, NextServer
<1>8. CASE UNCHANGED vars
  BY <1>8 DEF vars, call
<1> QED
  BY <1>1, <1>2, <1>3, <1>4, <1>5, <1>6, <1>7, <1>8 DEF Next, GetHostByName

\* What the cache holds comes from one reply for each name, and is fresh when
\* it is handed out.
LEMMA CacheKept ==
  ASSUME Inv, [Next]_vars
  PROVE  (CacheInv /\ OneReply)'
<1>0. /\ fqdn \in Names /\ DOMAIN m_cache = Names /\ replies \in Nat /\ OneReply
      /\ \A n \in Names : \A a \in m_cache[n] : a.reply \in 1..replies
      /\ dpc = "cache" => \A a \in m_cache[fqdn] : a.expire > t
      /\ dpc \in {"next", "receive"} => m_cache[fqdn] = {}
  BY DEF Inv, CacheInv, BaseInv
<1>1. CASE Call
  <2>1. PICK n \in Names : fqdn' = n /\ m_cache' = [m_cache EXCEPT ![n] = Purged(@)]
    BY <1>1 DEF Call
  <2>2. dpc' = "cache" /\ t' = now /\ replies' = replies
    BY <1>1 DEF Call
  <2>3. /\ DOMAIN m_cache' = Names
        /\ \A k \in Names : m_cache'[k] \subseteq m_cache[k]
        /\ \A a \in m_cache'[n] : a.expire > now
    BY <1>0, <2>1 DEF Purged
  <2> QED
    BY <1>0, <2>1, <2>2, <2>3 DEF CacheInv, OneReply
<1>2. CASE ReplyAccepted
  <2>1. PICK answers \in Answers : m_cache' = [m_cache EXCEPT ![fqdn] = @ \cup answers]
    BY <1>2 DEF ReplyAccepted
  <2>2. dpc = "receive" /\ dpc' = "idle" /\ replies' = replies + 1 /\ UNCHANGED fqdn
    BY <1>2 DEF ReplyAccepted, Return
  <2>3. /\ DOMAIN m_cache' = Names /\ m_cache'[fqdn] = answers
        /\ \A n \in Names \ {fqdn} : m_cache'[n] = m_cache[n]
    BY <1>0, <2>1, <2>2
  <2>4. \A a \in answers : a.reply = replies + 1
    BY DEF Answers
  <2>5. \A n \in Names : \A a \in m_cache'[n] : a.reply \in 1..(replies + 1)
    <3> TAKE n \in Names
    <3> TAKE a \in m_cache'[n]
    <3>1. CASE n = fqdn
      BY <1>0, <2>3, <2>4, <3>1
    <3>2. CASE n # fqdn
      <4>1. a.reply \in 1..replies
        BY <1>0, <2>3, <3>2
      <4> QED
        BY <1>0, <4>1
    <3> QED
      BY <3>1, <3>2
  <2>6. OneReply'
    BY <1>0, <2>3, <2>4 DEF OneReply
  <2> QED
    BY <1>0, <2>2, <2>3, <2>5, <2>6 DEF CacheInv
<1>3. CASE /\ CacheSame
           /\ dpc' \in {"cache", "next", "receive"} =>
                \/ dpc' = dpc
                \/ dpc' = "next" /\ m_cache[fqdn] = {}
                \/ dpc \in {"next", "receive"} /\ dpc' \in {"next", "receive"}
  BY <1>0, <1>3 DEF CacheSame, CacheInv, OneReply
<1> QED
  BY <1>1, <1>2, <1>3, CacheSteps

\* A call that returns: from the cache, with what it has just fetched or with
\* nothing; other steps leave the result of an earlier call alone or start one.
LEMMA ResultKept ==
  ASSUME Inv, [Next]_vars
  PROVE  ResultFresh'
<1> USE DEF ResultFresh
<1>0. ResultFresh
  BY DEF Inv
<1>1. CASE CacheHit
  <2>1. result' = m_cache[fqdn] /\ t' = t /\ \A a \in m_cache[fqdn] : a.expire > t
    BY <1>1 DEF CacheHit, Return, Inv, CacheInv
  <2> QED
    BY <2>1
<1>2. CASE ReplyAccepted
  <2>1. PICK answers \in Answers : result' = m_cache[fqdn] \cup answers
    BY <1>2 DEF ReplyAccepted, Return
  <2>2. \A a \in result' : a.reply = replies'
    BY <1>2, <2>1 DEF ReplyAccepted, Answers, Inv, CacheInv
  <2>3. asked' # <<>>
    <3>1. asked' = asked /\ dpc = "receive"
      BY <1>2 DEF ReplyAccepted
    <3>2. Len(asked) # 0
      BY <3>1 DEF Inv, AskedInv
    <3> QED
      BY <3>1, <3>2
  <2> QED
    BY <2>2, <2>3
<1>3. CASE LookupFails
  BY <1>3 DEF LookupFails, Return
<1>4. CASE AddResolver \/ Tick
  BY <1>0, <1>4 DEF AddResolver, Tick, call
<1>5. CASE Call \/ CacheMiss \/ AskFails \/ AskSent \/ ReceiveFails \/ ReplyRejected
  <2>1. dpc' # "idle"
    BY <1>5 DEF Call, CacheMiss, AskFails, AskSent, ReceiveFails, ReplyRejected, NextServer
  <2> QED
    BY <2>1
<1>6. CASE UNCHANGED vars
  BY <1>0, <1>6 DEF vars, call
<1> QED
  BY <1>1, <1>2, <1>3, <1>4, <1>5, <1>6 DEF Next, GetHostByName

\* So the invariant always holds.
LEMMA AlwaysInv == Spec => []Inv
<1>1. Inv /\ [Next]_vars => Inv'
  BY BaseKept, NothingLostKept, AskedKept, CacheKept, ResultKept DEF Inv
<1> QED
  BY <1>1, InitInv, PTL DEF Spec

-----------------------------------------------------------------------------
(* Types                                                                   *)

\* Call is only made while there is time for a timeout of each resolver.
TimeInv ==
  /\ now \in 0..MaxTime /\ t \in 0..now /\ deadline \in 0..MaxTime
  /\ dpc # "idle" => t + (Timeout * Len(m_resolvers)) <= MaxTime

StoreInv ==
  /\ m_cache \in [Names -> SUBSET Records] /\ result \subseteq Records
  /\ fqdn \in Names /\ replies \in 0..MaxReplies

CallInv ==
  /\ server \in 1..(Len(m_resolvers) + 1)
  /\ socks \in 0..MaxSockets
  /\ hostent \in {0, 1, NoHostent} /\ live \subseteq {0, 1}

\* As long as fewer resolvers are asked than there are, there is time for one.
LEMMA TimeForOne ==
  ASSUME NEW n \in Nat, NEW m \in Nat, n <= m
  PROVE  Timeout * n \in Nat /\ Timeout * m \in Nat /\ Timeout * n <= Timeout * m
BY DNSAssumption

LEMMA TimeKept ==
  ASSUME Inv, TimeInv, [Next]_vars
  PROVE  TimeInv'
<1> USE DNSAssumption DEF TimeInv
<1>0. /\ Len(m_resolvers) \in Nat /\ Len(asked) \in Nat
      /\ now \in Nat /\ t \in Nat /\ deadline \in Nat
  BY DEF Inv, BaseInv
<1> DEFINE all == Timeout * Len(m_resolvers)
<1>1. all \in Nat
  BY <1>0, TimeForOne
<1> HIDE DEF all
<1>2. CASE AddResolver
  BY <1>2 DEF AddResolver, call
<1>3. CASE Call
  <2>1. /\ now + all <= MaxTime /\ t' = now
        /\ UNCHANGED <<now, m_resolvers, deadline>>
    BY <1>3 DEF Call, all
  <2> QED
    BY <1>0, <1>1, <2>1 DEF all
<1>4. CASE AskSent
  <2>1. /\ dpc = "next" /\ server <= Len(m_resolvers) /\ deadline' = now + Timeout
        /\ UNCHANGED <<now, t, m_resolvers>>
    BY <1>4 DEF AskSent, Asks
  <2>2. Len(asked) + 1 <= Len(m_resolvers) /\ now <= t + (Timeout * Len(asked))
    BY <1>0, <2>1 DEF Inv, AskedInv, WaitBounded
  <2>3. Timeout * (Len(asked) + 1) <= all /\ Timeout * (Len(asked) + 1) \in Nat
    BY <1>0, <2>2, TimeForOne DEF all
  <2>4. Timeout * Len(asked) \in Nat
        /\ Timeout * (Len(asked) + 1) = (Timeout * Len(asked)) + Timeout
    BY <1>0, OneMoreTimeout
  <2>5. t + all <= MaxTime
    BY <2>1 DEF all
  <2>6. now + Timeout <= MaxTime
    BY <1>0, <1>1, <2>2, <2>3, <2>4, <2>5
  <2> QED
    BY <1>0, <2>1, <2>6
<1>5. CASE Tick
  <2>1. now' = now + 1 /\ UNCHANGED <<t, deadline, dpc, m_resolvers>>
        /\ (now < MaxTime \/ now < deadline)
    BY <1>5 DEF Tick, call
  <2> QED
    BY <1>0, <2>1
<1>6. CASE ~AddResolver /\ ~Call /\ ~AskSent /\ ~Tick
  <2>1. UNCHANGED <<now, t, deadline, m_resolvers>> /\ (dpc = "idle" => dpc' = "idle")
    BY <1>6 DEF Next, GetHostByName, CacheHit, CacheMiss, AskFails, Asks, ReceiveFails,
         ReplyRejected, ReplyAccepted, LookupFails, Return, NextServer, vars, call
  <2> QED
    BY <2>1
<1> QED
  BY <1>2, <1>3, <1>4, <1>5, <1>6

LEMMA StoreKept ==
  ASSUME Inv, TimeInv, StoreInv, [Next]_vars
  PROVE  StoreInv'
<1> USE DNSAssumption DEF StoreInv
<1>1. CASE Call
  <2>1. PICK n \in Names : fqdn' = n /\ m_cache' = [m_cache EXCEPT ![n] = Purged(@)]
    BY <1>1 DEF Call
  <2>2. Purged(m_cache[n]) \subseteq Records
    BY DEF Purged
  <2> QED
    BY <1>1, <2>1, <2>2 DEF Call
<1>2. CASE ReplyAccepted
  <2>1. PICK answers \in Answers :
          m_cache' = [m_cache EXCEPT ![fqdn] = @ \cup answers] /\ Return(m_cache[fqdn] \cup answers)
    BY <1>2 DEF ReplyAccepted
  <2>2. replies < MaxReplies /\ replies' = replies + 1 /\ UNCHANGED fqdn
    BY <1>2 DEF ReplyAccepted
  <2>3. answers \subseteq Records
    <3>1. \A ttl \in TTLs : [reply |-> replies + 1, expire |-> now + ttl] \in Records
      BY <2>2 DEF TimeInv, Records
    <3> QED
      BY <3>1 DEF Answers
  <2>4. m_cache[fqdn] \cup answers \subseteq Records /\ result' = m_cache[fqdn] \cup answers
    BY <2>1, <2>3 DEF Return
  <2> QED
    BY <2>1, <2>2, <2>4
<1>3. CASE CacheHit \/ LookupFails
  BY <1>3 DEF CacheHit, LookupFails, Return
<1>4. CASE ~Call /\ ~ReplyAccepted /\ ~CacheHit /\ ~LookupFails
  <2>1. UNCHANGED <<m_cache, result, fqdn, replies>>
    BY <1>4 DEF Next, GetHostByName, AddResolver, CacheMiss, AskFails, AskSent, Asks,
         ReceiveFails, ReplyRejected, Tick, NextServer, vars, call
  <2> QED
    BY <2>1
<1> QED
  BY <1>1, <1>2, <1>3, <1>4

LEMMA CallKept ==
  ASSUME Inv, CallInv, [Next]_vars
  PROVE  CallInv'
<1> USE DNSAssumption DEF CallInv
<1>0. Len(m_resolvers) \in Nat /\ Len(asked) \in Nat /\ m_resolvers \in Seq(Resolvers)
      /\ rejected \in Nat /\ socks = rejected + (IF dpc = "receive" THEN 1 ELSE 0)
  BY DEF Inv, BaseInv, NothingLost
<1>1. CASE AddResolver
  <2>1. Len(m_resolvers') = Len(m_resolvers) + 1
    BY <1>0, <1>1 DEF AddResolver
  <2> QED
    BY <1>0, <1>1, <2>1 DEF AddResolver, call, sockets, hostents
<1>2. CASE Call
  BY <1>2 DEF Call, sockets
<1>3. CASE Returning
  <2>1. PICK list : Return(list)
    BY <1>3 DEF Returning, CacheHit, ReplyAccepted, LookupFails
  <2>2. UNCHANGED <<server, m_resolvers>> /\ (socks' = socks \/ (socks' = socks - 1 /\ dpc = "receive"))
    BY <1>3 DEF Returning, CacheHit, ReplyAccepted, LookupFails, sockets
  <2>3. hostent' \in {0, 1, NoHostent} /\ live' \subseteq {0, 1}
    BY <2>1 DEF Return
  <2> QED
    BY <1>0, <2>2, <2>3
<1>4. CASE CacheMiss
  BY <1>0, <1>4 DEF CacheMiss, sockets, hostents
<1>5. CASE AskFails \/ AskSent
  <2>1. server \in 1..Len(m_resolvers)
    BY <1>0, <1>5 DEF AskFails, AskSent, Asks
  <2>2. /\ UNCHANGED <<m_resolvers, hostents>>
        /\ server' = server \/ server' = server + 1
        /\ socks' = socks \/ (socks < MaxSockets /\ socks' = socks + 1)
    BY <1>5 DEF AskFails, AskSent, Asks, NextServer, hostents
  <2> QED
    BY <1>0, <2>1, <2>2 DEF hostents
<1>6. CASE ReceiveFails \/ ReplyRejected
  <2>1. server <= Len(m_resolvers)
    BY <1>0, <1>6 DEF ReceiveFails, ReplyRejected, Inv, AskedInv
  <2>2. /\ server' = server + 1 /\ UNCHANGED <<m_resolvers, hostents>>
        /\ (socks' = socks \/ socks' = socks - 1) /\ dpc = "receive"
    BY <1>6 DEF ReceiveFails, ReplyRejected, NextServer
  <2> QED
    BY <1>0, <2>1, <2>2 DEF hostents
<1>7. CASE Tick \/ UNCHANGED vars
  BY <1>7 DEF Tick, vars, call, sockets, hostents
<1> QED
  BY <1>1, <1>2, <1>3, <1>4, <1>5, <1>6, <1>7 DEF Next, GetHostByName, Returning

-----------------------------------------------------------------------------
(* The theorems                                                            *)

\* The variables have their types: no more sockets than the process may have,
\* and no recv that waits longer than there is time.
THEOREM TypeCorrect == Spec => []TypeOK
<1>1. Init => TimeInv /\ StoreInv /\ CallInv
  BY DNSAssumption DEF Init, TimeInv, StoreInv, CallInv, Records
<1>2. Inv /\ TimeInv /\ StoreInv /\ CallInv => TypeOK
  BY DEF Inv, BaseInv, TimeInv, StoreInv, CallInv, TypeOK
<1> QED
  BY <1>1, <1>2, AlwaysInv, TimeKept, StoreKept, CallKept, PTL DEF Spec

\* No address is handed out after its time to live, but for those the call has
\* fetched itself (CDNS::GetIPv4): for every time to live and however long the
\* resolvers take.
THEOREM ResultFreshCorrect == Spec => []ResultFresh
<1>1. Inv => ResultFresh
  BY DEF Inv
<1> QED
  BY <1>1, AlwaysInv, PTL

\* The addresses of a name come from one reply (CDNS::GetIPv4, CDNS::DNSLookup).
THEOREM OneReplyCorrect == Spec => []OneReply
<1>1. Inv => OneReply
  BY DEF Inv
<1> QED
  BY <1>1, AlwaysInv, PTL

\* The only sockets lost are those of rejected replies, and the wrapper frees
\* each hostent once and loses none (CDNS::DNSLookup, __wrap_gethostbyname).
THEOREM NothingLostCorrect == Spec => []NothingLost
<1>1. Inv => NothingLost
  BY DEF Inv
<1> QED
  BY <1>1, AlwaysInv, PTL

\* A call waits for each resolver it asks once, and no longer than the timeout
\* of its socket (CDNS::DNSLookup).
THEOREM WaitBoundedCorrect == Spec => []WaitBounded
<1>1. Inv => WaitBounded
  BY DEF Inv
<1> QED
  BY <1>1, AlwaysInv, PTL

\* A call comes back with no address only if a reply without one was accepted
\* or every resolver has been asked, each once (CDNS::DNSLookup).
THEOREM EveryResolverAskedCorrect == Spec => EveryResolverAsked
<1>1. Inv /\ [Next]_vars =>
        [dpc # "idle" /\ dpc' = "idle" /\ result' = {} /\ replies' = replies =>
           asked = m_resolvers]_vars
  <2> SUFFICES ASSUME Inv, Next,
                      dpc # "idle", dpc' = "idle", result' = {}, replies' = replies
               PROVE  asked = m_resolvers
    OBVIOUS
  <2>1. CASE CacheHit
    BY <2>1 DEF CacheHit, Return
  <2>2. CASE ReplyAccepted
    BY <2>2 DEF ReplyAccepted, Inv, BaseInv
  <2>3. CASE LookupFails
    <3>1. /\ asked \in Seq(Resolvers) /\ m_resolvers \in Seq(Resolvers)
          /\ Len(asked) = Len(m_resolvers)
          /\ \A i \in 1..Len(asked) : asked[i] = m_resolvers[i]
      BY <2>3 DEF LookupFails, Inv, BaseInv, AskedInv
    <3> QED
      BY <3>1
  <2>4. CASE ~CacheHit /\ ~ReplyAccepted /\ ~LookupFails
    BY <2>4 DEF Next, GetHostByName, AddResolver, Call, CacheMiss, AskFails, AskSent, Asks,
         ReceiveFails, ReplyRejected, NextServer, Tick, call
  <2> QED
    BY <2>1, <2>2, <2>3, <2>4
<1> QED
  BY <1>1, AlwaysInv, PTL DEF Spec, EveryResolverAsked
=============================================================================
