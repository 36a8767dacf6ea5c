-------------------------------- MODULE FakeIp ------------------------------
(***************************************************************************)
(* The fake-IP pool of the engine (component/fakeip/pool.go with the       *)
(* memory store): the DNS answer to a host is an address taken in turn     *)
(* from a range, and a connection to that address is resolved back to the  *)
(* host.  Two LRU caches keep the two directions.                          *)
(*                                                                         *)
(* Lookup and LookBack hold the pool's mutex; each call on a cache is a    *)
(* step, because a flush (FlushFakeIP) and a reload of the configuration   *)
(* (PatchFrom) touch the caches without the mutex.                         *)
(*                                                                         *)
(* The list of a cache (common/lru) is the relation "used less recently    *)
(* than" between its keys; the front of the list is the key older than all *)
(* others.                                                                 *)
(***************************************************************************)
EXTENDS Naturals, FiniteSets

CONSTANTS
    Hosts,          \* lower-case names
    First, Last,    \* the first address given out, and the broadcast address
    Size,           \* entries of a cache
    None

ASSUME FakeIpAssumption ==
    /\ IsFiniteSet(Hosts)
    /\ First \in Nat \ {0} /\ Last \in Nat /\ First < Last
    /\ Size \in Nat \ {0}
    /\ None \notin Hosts /\ None \notin Nat

\* offset starts before First; Last is never to be reached.
Addresses == First - 1 .. Last

VARIABLES
    cacheIP,        \* host -> address
    ipOrder,        \* the order of its list
    cacheHost,      \* address -> host
    hostOrder,
    offset, cycle,  \* the last address given out; the range was used up once
    job,            \* what the holder of the mutex is doing
    flush,          \* what FlushFakeIP has still to do
    clone,          \* the copy of cacheIP that a reload has made
    raced,          \* a flush or a reload overlapped something (history)
    answer          \* the last answer of Lookup (history)

caches  == <<cacheIP, ipOrder, cacheHost, hostOrder>>
counter == <<offset, cycle>>
vars    == <<caches, counter, job, flush, clone, raced, answer>>

Keys(cache) == {k \in DOMAIN cache : cache[k] # None}

IdleJob == [pc |-> "idle", host |-> None, ip |-> None]

Steps == {"idle", "hit", "next", "del", "delHost", "put", "putHost", "back"}

TypeOK ==
    /\ cacheIP \in [Hosts -> Addresses \cup {None}]
    /\ cacheHost \in [Addresses -> Hosts \cup {None}]
    /\ ipOrder \subseteq Hosts \X Hosts
    /\ hostOrder \subseteq Addresses \X Addresses
    /\ offset \in First - 1 .. Last - 1
    /\ cycle \in BOOLEAN /\ raced \in BOOLEAN
    /\ job \in [pc : Steps, host : Hosts \cup {None}, ip : Addresses \cup {None}]
    /\ job.pc = "hit" => job.ip # None
    /\ job.pc = "delHost" => job.ip # None
    /\ job.pc # "idle" => job.host # None
    /\ flush \in {"off", "host", "reset"}
    /\ clone \in [map : [Hosts -> Addresses \cup {None}], order : SUBSET (Hosts \X Hosts)] \cup {None}
    /\ answer \in [host : Hosts, ip : Addresses] \cup {None}

Init ==
    /\ cacheIP = [h \in Hosts |-> None] /\ ipOrder = {}
    /\ cacheHost = [a \in Addresses |-> None] /\ hostOrder = {}
    /\ offset = First - 1 /\ cycle = FALSE
    /\ job = IdleJob /\ flush = "off" /\ clone = None
    /\ raced = FALSE /\ answer = None

-----------------------------------------------------------------------------
(* common/lru *)

MoveToBack(order, keys, k) == {p \in order : p[1] # k} \cup ((keys \ {k}) \X {k})

Remove(order, k) == {p \in order : p[1] # k /\ p[2] # k}

Front(order, keys, f) == \A k \in keys \ {f} : <<f, k>> \in order

\* Get: what is there becomes the most recent.
Get(cache, order, k) == IF k \in Keys(cache) THEN MoveToBack(order, Keys(cache), k) ELSE order

\* Set: the key becomes the most recent, and the front makes room for a new one.
Set(cache, order, k, v, cache2, order2) ==
    LET keys == Keys(cache) \cup {k}
        moved == MoveToBack(order, keys, k)
    IN  IF k \in Keys(cache) \/ Cardinality(keys) <= Size
        THEN /\ cache2 = [cache EXCEPT ![k] = v]
             /\ order2 = moved
        ELSE \E f \in keys :
                /\ Front(moved, keys, f)
                /\ cache2 = [cache EXCEPT ![k] = v, ![f] = None]
                /\ order2 = Remove(moved, f)

-----------------------------------------------------------------------------
(* Lookup *)

Undisturbed == flush = "off" /\ clone = None

\* GetByHost: the address that the host has, or a new one.
Lookup(h) ==
    /\ job.pc = "idle"
    /\ ipOrder' = Get(cacheIP, ipOrder, h)
    /\ job' = [pc |-> IF h \in Keys(cacheIP) THEN "hit" ELSE "next", host |-> h, ip |-> cacheIP[h]]
    /\ raced' = (raced \/ ~Undisturbed)
    /\ UNCHANGED <<cacheIP, cacheHost, hostOrder, counter, flush, clone, answer>>

\* Mutant: the other direction is not brought to the head.
hitWithoutRefresh ==
    /\ job.pc = "hit"
    /\ answer' = [host |-> job.host, ip |-> job.ip]
    /\ job' = IdleJob
    /\ UNCHANGED <<caches, counter, flush, clone, raced>>

hit ==
    /\ job.pc = "hit"
    /\ hostOrder' = Get(cacheHost, hostOrder, job.ip)
    /\ answer' = [host |-> job.host, ip |-> job.ip]
    /\ job' = IdleJob
    /\ UNCHANGED <<cacheIP, ipOrder, cacheHost, counter, flush, clone, raced>>

\* Mutant: the broadcast address is given out.
nextPastLast ==
    /\ job.pc = "next"
    /\ offset' = IF offset + 1 <= Last THEN offset + 1 ELSE First
    /\ cycle' = (cycle \/ offset + 1 > Last)
    /\ job' = [job EXCEPT !.pc = IF cycle' \/ offset' \in Keys(cacheHost) THEN "del" ELSE "put"]
    /\ UNCHANGED <<caches, flush, clone, raced, answer>>

\* get: the next address of the range, over and over.
next ==
    /\ job.pc = "next"
    /\ offset' = IF offset + 1 < Last THEN offset + 1 ELSE First
    /\ cycle' = (cycle \/ offset + 1 >= Last)
    /\ job' = [job EXCEPT !.pc = IF cycle' \/ offset' \in Keys(cacheHost) THEN "del" ELSE "put"]
    /\ UNCHANGED <<caches, flush, clone, raced, answer>>

\* DelByIP: the host that had the address loses it, then the address its host.
del ==
    /\ job.pc = "del"
    /\ hostOrder' = Get(cacheHost, hostOrder, offset)
    /\ IF cacheHost[offset] = None
       THEN UNCHANGED <<cacheIP, ipOrder>>
       ELSE /\ cacheIP' = [cacheIP EXCEPT ![cacheHost[offset]] = None]
            /\ ipOrder' = Remove(ipOrder, cacheHost[offset])
    /\ job' = [job EXCEPT !.pc = "delHost", !.ip = offset]
    /\ UNCHANGED <<cacheHost, counter, flush, clone, raced, answer>>

delHost ==
    /\ job.pc = "delHost"
    /\ cacheHost' = [cacheHost EXCEPT ![job.ip] = None]
    /\ hostOrder' = Remove(hostOrder, job.ip)
    /\ job' = [job EXCEPT !.pc = "put"]
    /\ UNCHANGED <<cacheIP, ipOrder, counter, flush, clone, raced, answer>>

\* PutByIP, with the offset as it is now.
put ==
    /\ job.pc = "put"
    /\ Set(cacheHost, hostOrder, offset, job.host, cacheHost', hostOrder')
    /\ job' = [job EXCEPT !.pc = "putHost"]
    /\ UNCHANGED <<cacheIP, ipOrder, counter, flush, clone, raced, answer>>

\* get returns the offset, read again; PutByHost.
putHost ==
    /\ job.pc = "putHost"
    /\ Set(cacheIP, ipOrder, job.host, offset, cacheIP', ipOrder')
    /\ answer' = [host |-> job.host, ip |-> offset]
    /\ job' = IdleJob
    /\ UNCHANGED <<cacheHost, hostOrder, counter, flush, clone, raced>>

-----------------------------------------------------------------------------
(* LookBack: an address that is not there changes nothing. *)

LookBack(a) ==
    /\ job.pc = "idle"
    /\ a \in Keys(cacheHost)
    /\ hostOrder' = Get(cacheHost, hostOrder, a)
    /\ job' = [pc |-> "back", host |-> cacheHost[a], ip |-> a]
    /\ raced' = (raced \/ ~Undisturbed)
    /\ UNCHANGED <<cacheIP, ipOrder, cacheHost, counter, flush, clone, answer>>

back ==
    /\ job.pc = "back"
    /\ ipOrder' = Get(cacheIP, ipOrder, job.host)
    /\ job' = IdleJob
    /\ UNCHANGED <<cacheIP, cacheHost, hostOrder, counter, flush, clone, raced, answer>>

-----------------------------------------------------------------------------
(* FlushFakeIP, without the mutex: one cache, the other, the counter. *)

FlushFakeIP ==
    /\ flush = "off"
    /\ flush' = "host"
    /\ cacheIP' = [h \in Hosts |-> None] /\ ipOrder' = {}
    /\ raced' = (raced \/ job.pc # "idle" \/ clone # None)
    /\ answer' = None
    /\ UNCHANGED <<cacheHost, hostOrder, counter, job, clone>>

clearHosts ==
    /\ flush = "host"
    /\ flush' = "reset"
    /\ cacheHost' = [a \in Addresses |-> None] /\ hostOrder' = {}
    /\ UNCHANGED <<cacheIP, ipOrder, counter, job, clone, raced, answer>>

resetOffset ==
    /\ flush = "reset"
    /\ flush' = "off"
    /\ cycle' = FALSE /\ offset' = First - 1
    /\ UNCHANGED <<caches, job, clone, raced, answer>>

-----------------------------------------------------------------------------
(* A reload: the pool of the new configuration copies one cache of the old  *)
(* pool, then the other, and takes its place.  It starts at the first       *)
(* address.  A Lookup or a flush under way goes on in the old pool.         *)

PatchFrom ==
    /\ clone = None
    /\ clone' = [map |-> cacheIP, order |-> ipOrder]
    /\ raced' = (raced \/ job.pc # "idle" \/ flush # "off")
    /\ UNCHANGED <<caches, counter, job, flush, answer>>

replace ==
    /\ clone # None
    /\ cacheIP' = clone.map /\ ipOrder' = clone.order
    /\ cycle' = FALSE /\ offset' = First - 1
    /\ job' = IdleJob /\ flush' = "off" /\ clone' = None
    /\ UNCHANGED <<cacheHost, hostOrder, raced, answer>>

Next ==
    \/ \E h \in Hosts : Lookup(h)
    \/ hit \/ next \/ del \/ delHost \/ put \/ putHost
    \/ \E a \in Addresses : LookBack(a)
    \/ back
    \/ FlushFakeIP \/ clearHosts \/ resetOffset
    \/ PatchFrom \/ replace

Spec == Init /\ [][Next]_vars

-----------------------------------------------------------------------------
(* Properties *)

Quiet == job.pc = "idle" /\ Undisturbed

\* Two sets of keys, one of each cache, are images of each other, and the
\* lists have them in the same order.
MirrorOn(hosts, ips) ==
    /\ \A h \in hosts : cacheIP[h] \in ips /\ cacheHost[cacheIP[h]] = h
    /\ \A a \in ips : cacheHost[a] \in hosts /\ cacheIP[cacheHost[a]] = a
    /\ \A a, b \in ips :
          <<a, b>> \in hostOrder <=> <<cacheHost[a], cacheHost[b]>> \in ipOrder

\* "Ensure ip --> host on head of linked list" (memory.go): the two caches
\* hold the same pairs in the same order, so that each evicts the pair the other
\* does, also across the end of the range, flushes and reloads.  (A flush or a
\* reload that overlaps a Lookup breaks this: neither takes the mutex.)
Mirror == ~raced /\ Quiet => MirrorOn(Keys(cacheIP), Keys(cacheHost))

\* "LookBack return host with the fake ip" (pool.go): the address that Lookup has
\* just answered is one that IsFakeIP takes for a fake one, neither a reserved
\* address nor the broadcast, and it leads back to the host that was asked for.
AnswerResolves ==
    ~raced /\ Quiet /\ answer # None =>
       /\ answer.ip \in First .. Last - 1
       /\ cacheHost[answer.ip] = answer.host

-----------------------------------------------------------------------------
(* The inductive invariant: what the two caches have in common at each step  *)
(* of the holder of the mutex, as long as nothing has raced.                 *)

KI == Keys(cacheIP)
KH == Keys(cacheHost)

\* No two hosts are each older than the other: a list has one front.
Asymmetric == \A h, k \in KI : ~(<<h, k>> \in ipOrder /\ <<k, h>> \in ipOrder)

InRange == \A a \in KH : a \in First .. Last - 1

HostLast(h) == \A k \in KI \ {h} : <<k, h>> \in ipOrder

IpLast(a) ==
    /\ \A b \in KH \ {a} : <<b, a>> \in hostOrder /\ <<a, b>> \notin hostOrder
    /\ <<a, a>> \notin hostOrder

\* One of the two lists has moved the pair of the job to its back.
HalfMoved ==
    /\ job.host \in KI /\ cacheIP[job.host] = job.ip
    /\ job.ip \in KH /\ cacheHost[job.ip] = job.host
    /\ MirrorOn(KI \ {job.host}, KH \ {job.ip})

\* PutByIP has stored the new pair in its cache, and PutByHost will do as it did:
\* drop the front of the list, or find room.
HalfPut ==
    /\ offset \in KH /\ cacheHost[offset] = job.host /\ IpLast(offset)
    /\ \/ /\ Cardinality(KI \cup {job.host}) <= Size
          /\ MirrorOn(KI, KH \ {offset})
       \/ /\ Cardinality(KI \cup {job.host}) > Size
          /\ \E f \in KI : Front(ipOrder, KI, f) /\ MirrorOn(KI \ {f}, KH \ {offset})

JobOK ==
    /\ job.pc \in {"idle", "next", "del", "put"} => MirrorOn(KI, KH)
    /\ job.pc \in {"next", "del", "delHost", "put", "putHost"} => job.host \notin KI
    /\ job.pc \in {"del", "delHost", "put", "putHost"} => offset \in First .. Last - 1
    /\ job.pc = "hit" => HalfMoved /\ HostLast(job.host)
    /\ job.pc = "back" => HalfMoved /\ IpLast(job.ip)
    /\ job.pc = "delHost" => job.ip = offset /\ MirrorOn(KI, KH \ {offset})
    /\ job.pc = "put" => offset \notin KH
    /\ job.pc = "putHost" => HalfPut

\* A flush and a reload that race with nothing find the pool idle.
FlushOK ==
    flush # "off" =>
       /\ job.pc = "idle" /\ clone = None /\ answer = None
       /\ KI = {}
       /\ flush = "reset" => KH = {}

CloneOK ==
    clone # None =>
       /\ job.pc = "idle" /\ flush = "off"
       /\ clone.map = cacheIP /\ clone.order = ipOrder

AnswerOK ==
    answer # None /\ job.pc \in {"idle", "back"} =>
       answer.ip \in KH /\ cacheHost[answer.ip] = answer.host

Calm ==
    /\ Asymmetric /\ InRange
    /\ flush = "off" => JobOK
    /\ FlushOK /\ CloneOK /\ AnswerOK

\* Nothing is claimed of a pool that a flush or a reload has raced with.
Inv == raced \/ Calm

=============================================================================
