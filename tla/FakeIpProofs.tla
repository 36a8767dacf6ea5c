---------------------------- MODULE FakeIpProofs ----------------------------
(***************************************************************************)
(* Proofs about FakeIp.                                                    *)
(***************************************************************************)
EXTENDS FakeIp, FiniteSetTheorems, TLAPS

(* The lists of the two caches. *)

\* What MoveToBack leaves in the order: the key comes after all others.
LEMMA MovedPairs ==
    ASSUME NEW order, NEW keys, NEW k, NEW x, NEW y
    PROVE  <<x, y>> \in MoveToBack(order, keys, k) <=>
              \/ <<x, y>> \in order /\ x # k
              \/ x \in keys /\ x # k /\ y = k
BY DEF MoveToBack

\* The order a list has after any of its operations is one of keys.
LEMMA OrdersTyped ==
    ASSUME NEW S, NEW order \in SUBSET (S \X S), NEW keys \in SUBSET S, NEW k \in S
    PROVE  /\ MoveToBack(order, keys, k) \in SUBSET (S \X S)
           /\ Remove(order, k) \in SUBSET (S \X S)
BY DEF MoveToBack, Remove

LEMMA KeysTyped ==
    ASSUME NEW S, NEW T, NEW cache \in [S -> T]
    PROVE  Keys(cache) \in SUBSET S
BY DEF Keys

(* Type correctness. *)

LEMMA Constants ==
    /\ First - 1 \in First - 1 .. Last - 1
    /\ First \in Nat /\ First > 0 /\ Last \in Nat /\ First < Last
    /\ Size \in Nat /\ Size > 0
    /\ First - 1 .. Last - 1 \subseteq Addresses
    /\ First .. Last - 1 \subseteq Addresses
    /\ None \notin Hosts /\ None \notin Addresses
BY FakeIpAssumption DEF Addresses

\* Types, and the bounds of the counter, in every state of the pool.
THEOREM TypeCorrect == Spec => []TypeOK
<1>1. Init => TypeOK
  <2> SUFFICES ASSUME Init PROVE TypeOK
    OBVIOUS
  <2>1. cacheIP \in [Hosts -> Addresses \cup {None}] /\ cacheHost \in [Addresses -> Hosts \cup {None}]
    BY DEF Init
  <2>2. offset \in First - 1 .. Last - 1
    BY Constants DEF Init
  <2> QED BY <2>1, <2>2 DEF Init, TypeOK, IdleJob, Steps
<1>2. TypeOK /\ [Next]_vars => TypeOK'
  <2> SUFFICES ASSUME TypeOK, [Next]_vars PROVE TypeOK'
    OBVIOUS
  <2> USE DEF TypeOK, Steps, caches, counter
  <2>a. \A h \in Hosts : Get(cacheIP, ipOrder, h) \in SUBSET (Hosts \X Hosts)
    <3> TAKE h \in Hosts
    <3>1. Keys(cacheIP) \in SUBSET Hosts
      BY KeysTyped
    <3>2. MoveToBack(ipOrder, Keys(cacheIP), h) \in SUBSET (Hosts \X Hosts)
      BY <3>1, OrdersTyped
    <3> QED BY <3>2 DEF Get
  <2>b. \A a \in Addresses : Get(cacheHost, hostOrder, a) \in SUBSET (Addresses \X Addresses)
    <3> TAKE a \in Addresses
    <3>1. Keys(cacheHost) \in SUBSET Addresses
      BY KeysTyped
    <3>2. MoveToBack(hostOrder, Keys(cacheHost), a) \in SUBSET (Addresses \X Addresses)
      BY <3>1, OrdersTyped
    <3> QED BY <3>2 DEF Get
  <2>1. CASE UNCHANGED vars
    BY <2>1 DEF vars
  <2>2. ASSUME NEW h \in Hosts, Lookup(h) PROVE TypeOK'
    <3>1. ipOrder' \subseteq Hosts \X Hosts
      BY <2>2, <2>a DEF Lookup
    <3>2. job' \in [pc : Steps, host : Hosts \cup {None}, ip : Addresses \cup {None}]
      BY <2>2 DEF Lookup
    <3>3. (job'.pc = "hit" => job'.ip # None) /\ job'.pc # "delHost" /\ job'.host # None
      BY <2>2, Constants DEF Lookup, Keys
    <3>4. raced' \in BOOLEAN
      BY <2>2 DEF Lookup
    <3> QED BY <2>2, <3>1, <3>2, <3>3, <3>4 DEF Lookup
  <2>3. CASE hit
    <3>1. hostOrder' \subseteq Addresses \X Addresses
      BY <2>3, <2>b DEF hit
    <3> QED BY <2>3, <3>1 DEF hit, IdleJob
  <2>4. CASE next
    <3>1. offset' \in First - 1 .. Last - 1
      BY <2>4, Constants DEF next
    <3>2. cycle' \in BOOLEAN
      BY <2>4 DEF next
    <3> QED BY <2>4, <3>1, <3>2 DEF next
  <2>5. CASE del
    <3>1. offset \in Addresses /\ offset # None
      BY Constants
    <3>2. hostOrder' \subseteq Addresses \X Addresses
      BY <2>5, <3>1, <2>b DEF del
    <3>3. cacheIP' \in [Hosts -> Addresses \cup {None}]
      BY <2>5 DEF del
    <3>4. ipOrder' \subseteq Hosts \X Hosts
      BY <2>5 DEF del, Remove
    <3> QED BY <2>5, <3>1, <3>2, <3>3, <3>4 DEF del
  <2>6. CASE delHost
    <3>1. hostOrder' \subseteq Addresses \X Addresses
      BY <2>6 DEF delHost, Remove
    <3> QED BY <2>6, <3>1 DEF delHost
  <2>7. CASE put
    <3> DEFINE keys == Keys(cacheHost) \cup {offset}
               moved == MoveToBack(hostOrder, keys, offset)
    <3>a. offset \in Addresses /\ job.host \in Hosts \cup {None}
      BY <2>7, Constants DEF put
    <3>b. keys \in SUBSET Addresses
      BY <3>a, KeysTyped
    <3>c. moved \in SUBSET (Addresses \X Addresses)
      BY <3>a, <3>b, OrdersTyped
    <3>d. \/ cacheHost' = [cacheHost EXCEPT ![offset] = job.host] /\ hostOrder' = moved
          \/ \E f \in keys : /\ cacheHost' = [cacheHost EXCEPT ![offset] = job.host, ![f] = None]
                             /\ hostOrder' = Remove(moved, f)
      BY <2>7 DEF put, Set
    <3>1. cacheHost' \in [Addresses -> Hosts \cup {None}]
      BY <3>a, <3>b, <3>d
    <3>2. hostOrder' \in SUBSET (Addresses \X Addresses)
      <4> HIDE DEF moved
      <4> QED BY <3>c, <3>d DEF Remove
    <3> QED BY <2>7, <3>1, <3>2 DEF put
  <2>8. CASE putHost
    <3> DEFINE keys == Keys(cacheIP) \cup {job.host}
               moved == MoveToBack(ipOrder, keys, job.host)
    <3>a. job.host \in Hosts /\ offset \in Addresses \cup {None}
      BY <2>8, Constants DEF putHost
    <3>b. keys \in SUBSET Hosts
      BY <3>a, KeysTyped
    <3>c. moved \in SUBSET (Hosts \X Hosts)
      BY <3>a, <3>b, OrdersTyped
    <3>d. \/ cacheIP' = [cacheIP EXCEPT ![job.host] = offset] /\ ipOrder' = moved
          \/ \E f \in keys : /\ cacheIP' = [cacheIP EXCEPT ![job.host] = offset, ![f] = None]
                             /\ ipOrder' = Remove(moved, f)
      BY <2>8 DEF putHost, Set
    <3>1. cacheIP' \in [Hosts -> Addresses \cup {None}]
      BY <3>a, <3>b, <3>d
    <3>2. ipOrder' \in SUBSET (Hosts \X Hosts)
      <4> HIDE DEF moved
      <4> QED BY <3>c, <3>d DEF Remove
    <3>3. answer' \in [host : Hosts, ip : Addresses]
      BY <2>8, Constants DEF putHost
    <3> QED BY <2>8, <3>1, <3>2, <3>3 DEF putHost, IdleJob
  <2>9. ASSUME NEW a \in Addresses, LookBack(a) PROVE TypeOK'
    <3>1. hostOrder' \subseteq Addresses \X Addresses
      BY <2>9, <2>b DEF LookBack
    <3>2. cacheHost[a] \in Hosts
      BY <2>9 DEF LookBack, Keys
    <3>3. raced' \in BOOLEAN
      BY <2>9 DEF LookBack
    <3> QED BY <2>9, <3>1, <3>2, <3>3, Constants DEF LookBack
  <2>10. CASE back
    <3>1. ipOrder' \subseteq Hosts \X Hosts
      BY <2>10, <2>a DEF back
    <3> QED BY <2>10, <3>1 DEF back, IdleJob
  <2>11. CASE FlushFakeIP
    <3>1. raced' \in BOOLEAN
      BY <2>11 DEF FlushFakeIP
    <3> QED BY <2>11, <3>1 DEF FlushFakeIP
  <2>12. CASE clearHosts
    BY <2>12 DEF clearHosts
  <2>13. CASE resetOffset
    <3>1. offset' \in First - 1 .. Last - 1
      BY <2>13, Constants DEF resetOffset
    <3> QED BY <2>13, <3>1 DEF resetOffset
  <2>14. CASE PatchFrom
    <3>1. raced' \in BOOLEAN
      BY <2>14 DEF PatchFrom
    <3> QED BY <2>14, <3>1 DEF PatchFrom
  <2>15. CASE replace
    <3>1. offset' \in First - 1 .. Last - 1
      BY <2>15, Constants DEF replace
    <3>2. cacheIP' \in [Hosts -> Addresses \cup {None}] /\ ipOrder' \subseteq Hosts \X Hosts
      BY <2>15 DEF replace
    <3> QED BY <2>15, <3>1, <3>2 DEF replace, IdleJob
  <2> QED BY <2>1, <2>2, <2>3, <2>4, <2>5, <2>6, <2>7, <2>8, <2>9, <2>10, <2>11, <2>12,
             <2>13, <2>14, <2>15 DEF Next
<1> QED BY <1>1, <1>2, PTL DEF Spec

-----------------------------------------------------------------------------
(* The two caches mirror each other.                                         *)
(*                                                                           *)
(* A step is looked at only if nothing has raced after it, so that a Lookup  *)
(* or a LookBack starts undisturbed and a flush or a reload starts with the  *)
(* mutex free (the facts FlushOK and CloneOK).  What is left is one holder   *)
(* of the mutex, which changes the caches one at a time.                     *)

\* The keys of the caches are hosts and addresses.
LEMMA KeyFacts ==
    ASSUME TypeOK
    PROVE  /\ KI \subseteq Hosts /\ KH \subseteq Addresses
           /\ \A h \in Hosts : h \in KI <=> cacheIP[h] # None
           /\ \A a \in Addresses : a \in KH <=> cacheHost[a] # None
           /\ \A h \in KI : cacheIP[h] \in Addresses
           /\ \A a \in KH : cacheHost[a] \in Hosts
BY DEF TypeOK, KI, KH, Keys

\* Caches that mirror each other have as many entries.
LEMMA SameSize ==
    ASSUME TypeOK, MirrorOn(KI, KH)
    PROVE  IsFiniteSet(KI) /\ IsFiniteSet(KH) /\ Cardinality(KI) = Cardinality(KH)
<1>1. IsFiniteSet(KI)
  BY KeyFacts, FakeIpAssumption, FS_Subset
<1> DEFINE f == [h \in KI |-> cacheIP[h]]
<1>2. f \in [KI -> KH]
  BY DEF MirrorOn
<1>3. \A h, k \in KI : f[h] = f[k] => h = k
  BY DEF MirrorOn
<1>4. \A a \in KH : \E h \in KI : f[h] = a
  BY DEF MirrorOn
<1>5. f \in Bijection(KI, KH)
  <2> HIDE DEF f
  <2> QED BY <1>2, <1>3, <1>4 DEF Bijection, Injection, Surjection, IsInjective
<1>6. ExistsBijection(KI, KH)
  BY <1>5 DEF ExistsBijection
<1> QED BY <1>1, <1>6, FS_Bijection

\* GetByHost.
LEMMA LookupStep ==
    ASSUME TypeOK, Calm, ~raced', NEW h \in Hosts, Lookup(h)
    PROVE  Calm'
<1>1. /\ flush = "off" /\ clone = None /\ job.pc = "idle"
      /\ UNCHANGED <<cacheIP, cacheHost, hostOrder, offset, cycle, flush, clone, answer>>
  BY DEF Lookup, Undisturbed, counter
<1>2. KI' = KI /\ KH' = KH
  BY <1>1 DEF KI, KH
<1>3. MirrorOn(KI, KH)
  BY <1>1 DEF Calm, JobOK
<1>4. CASE h \in KI
  <2>1. job'.pc = "hit" /\ job'.host = h /\ job'.ip = cacheIP[h]
    BY <1>4 DEF Lookup, KI
  <2>2. ipOrder' = MoveToBack(ipOrder, KI, h)
    BY <1>4 DEF Lookup, Get, KI
  <2>3. \A x, y : <<x, y>> \in ipOrder' <=>
                    (<<x, y>> \in ipOrder /\ x # h) \/ (x \in KI /\ x # h /\ y = h)
    BY <2>2, MovedPairs
  <2>4. Asymmetric'
    BY <1>2, <2>3 DEF Asymmetric, Calm
  <2>5. HostLast(h)'
    BY <1>2, <2>3 DEF HostLast
  <2>6. MirrorOn(KI \ {h}, KH \ {cacheIP[h]})'
    BY <1>1, <1>2, <1>3, <1>4, <2>3 DEF MirrorOn
  <2>7. HalfMoved'
    BY <1>1, <1>2, <1>3, <1>4, <2>1, <2>6 DEF HalfMoved, MirrorOn
  <2>8. JobOK'
    BY <2>1, <2>5, <2>7 DEF JobOK
  <2> QED BY <1>1, <1>2, <2>1, <2>4, <2>8 DEF Calm, InRange, FlushOK, CloneOK, AnswerOK
<1>5. CASE h \notin KI
  <2>1. job'.pc = "next" /\ job'.host = h /\ ipOrder' = ipOrder
    BY <1>5 DEF Lookup, Get, KI
  <2>2. MirrorOn(KI, KH)'
    BY <1>1, <1>2, <1>3, <2>1 DEF MirrorOn
  <2>3. JobOK'
    BY <1>2, <1>5, <2>1, <2>2 DEF JobOK
  <2> QED BY <1>1, <1>2, <2>1, <2>3 DEF Calm, Asymmetric, InRange, FlushOK, CloneOK, AnswerOK
<1> QED BY <1>4, <1>5

\* While the mutex is held, nothing else is under way.
LEMMA HeldAlone ==
    ASSUME Calm, job.pc # "idle"
    PROVE  flush = "off" /\ clone = None /\ JobOK
BY DEF Calm, FlushOK, CloneOK

\* The other direction of GetByHost.
LEMMA HitStep ==
    ASSUME TypeOK, Calm, hit
    PROVE  Calm'
<1>1. /\ flush = "off" /\ clone = None /\ JobOK /\ job.pc = "hit" /\ job'.pc = "idle"
      /\ UNCHANGED <<cacheIP, ipOrder, cacheHost, offset, cycle, flush, clone>>
  BY HeldAlone DEF hit, counter, IdleJob
<1>2. KI' = KI /\ KH' = KH
  BY <1>1 DEF KI, KH
<1> DEFINE h == job.host
           a == job.ip
<1>3. HalfMoved /\ HostLast(h)
  BY <1>1 DEF JobOK
<1>4. hostOrder' = MoveToBack(hostOrder, KH, a)
  BY <1>3 DEF hit, Get, KH, HalfMoved
<1>5. \A x, y : <<x, y>> \in hostOrder' <=>
                  (<<x, y>> \in hostOrder /\ x # a) \/ (x \in KH /\ x # a /\ y = a)
  BY <1>4 DEF MoveToBack
<1>6. MirrorOn(KI, KH)'
  <2>1. \A x, y \in KH : <<x, y>> \in hostOrder' <=> <<cacheHost[x], cacheHost[y]>> \in ipOrder
    <3> TAKE x \in KH, y \in KH
    <3>1. CASE x = a
      BY <1>3, <1>5, <3>1 DEF HalfMoved, HostLast, MirrorOn, Calm, Asymmetric
    <3>2. CASE x # a /\ y = a
      BY <1>3, <1>5, <3>2 DEF HalfMoved, HostLast, MirrorOn
    <3>3. CASE x # a /\ y # a
      BY <1>3, <1>5, <3>3 DEF HalfMoved, MirrorOn
    <3> QED BY <3>1, <3>2, <3>3
  <2> QED BY <1>1, <1>2, <1>3, <2>1 DEF HalfMoved, MirrorOn
<1>7. AnswerOK'
  BY <1>1, <1>2, <1>3 DEF hit, AnswerOK, HalfMoved
<1> QED BY <1>1, <1>2, <1>6, <1>7 DEF Calm, JobOK, Asymmetric, InRange, FlushOK, CloneOK

\* get: the next address.
LEMMA NextStep ==
    ASSUME TypeOK, Calm, next
    PROVE  Calm'
<1>1. /\ flush = "off" /\ clone = None /\ JobOK /\ job.pc = "next"
      /\ job'.pc \in {"del", "put"} /\ job'.host = job.host
      /\ UNCHANGED <<cacheIP, ipOrder, cacheHost, hostOrder, flush, clone, answer>>
  BY HeldAlone DEF next, caches, TypeOK
<1>2. KI' = KI /\ KH' = KH
  BY <1>1 DEF KI, KH
<1>3. offset' \in First .. Last - 1
  BY Constants DEF next, TypeOK
<1>4. job'.pc = "put" => offset' \notin KH
  BY DEF next, KH, TypeOK
<1>5. MirrorOn(KI, KH)'
  BY <1>1, <1>2 DEF JobOK, MirrorOn
<1> QED BY <1>1, <1>2, <1>3, <1>4, <1>5 DEF Calm, JobOK, Asymmetric, InRange, FlushOK, CloneOK, AnswerOK

\* DelByIP, first half: the host loses its address.
LEMMA DelStep ==
    ASSUME TypeOK, Calm, del
    PROVE  Calm'
<1>1. /\ flush = "off" /\ clone = None /\ JobOK /\ job.pc = "del"
      /\ job'.pc = "delHost" /\ job'.host = job.host /\ job'.ip = offset
      /\ UNCHANGED <<cacheHost, offset, cycle, flush, clone, answer>>
  BY HeldAlone DEF del, counter, TypeOK
<1>2. KH' = KH
  BY <1>1 DEF KH
<1>3. MirrorOn(KI, KH) /\ job.host \notin KI /\ offset \in First .. Last - 1
  BY <1>1 DEF JobOK
<1>4. \A x, y : x # offset /\ y # offset => (<<x, y>> \in hostOrder' <=> <<x, y>> \in hostOrder)
  BY DEF del, Get, MoveToBack
<1>5. CASE offset \notin KH
  <2>1. UNCHANGED <<cacheIP, ipOrder>>
    BY <1>3, <1>5, Constants DEF del, KH, Keys, TypeOK
  <2>2. KI' = KI
    BY <2>1 DEF KI
  <2>3. MirrorOn(KI, KH \ {offset})'
    BY <1>1, <1>2, <1>3, <1>4, <1>5, <2>1, <2>2 DEF MirrorOn
  <2>4. JobOK'
    BY <1>1, <1>3, <2>2, <2>3 DEF JobOK
  <2> QED BY <1>1, <1>2, <2>1, <2>2, <2>4 DEF Calm, Asymmetric, InRange, FlushOK, CloneOK, AnswerOK
<1>6. CASE offset \in KH
  <2> DEFINE g == cacheHost[offset]
  <2>1. g \in KI /\ g \in Hosts /\ cacheIP[g] = offset
    BY <1>3, <1>6, KeyFacts DEF MirrorOn
  <2>2. cacheIP' = [cacheIP EXCEPT ![g] = None] /\ ipOrder' = Remove(ipOrder, g)
    BY <1>6 DEF del, KH, Keys
  <2>3. KI' = KI \ {g}
    BY <2>1, <2>2 DEF KI, Keys, TypeOK
  <2>4. \A x, y : <<x, y>> \in ipOrder' <=> <<x, y>> \in ipOrder /\ x # g /\ y # g
    BY <2>2 DEF Remove
  <2>5. \A h \in KI \ {g} : cacheIP'[h] = cacheIP[h]
    BY <2>2, KeyFacts DEF TypeOK
  <2>6. MirrorOn(KI, KH \ {offset})'
    BY <1>1, <1>2, <1>3, <1>4, <2>1, <2>3, <2>4, <2>5 DEF MirrorOn
  <2>7. JobOK'
    BY <1>1, <1>3, <2>3, <2>6 DEF JobOK
  <2>8. Asymmetric'
    BY <2>3, <2>4 DEF Asymmetric, Calm
  <2> QED BY <1>1, <1>2, <2>7, <2>8 DEF Calm, InRange, FlushOK, CloneOK, AnswerOK
<1> QED BY <1>5, <1>6

\* DelByIP, second half: the address loses its host.
LEMMA DelHostStep ==
    ASSUME TypeOK, Calm, delHost
    PROVE  Calm'
<1>1. /\ flush = "off" /\ clone = None /\ JobOK /\ job.pc = "delHost"
      /\ job'.pc = "put" /\ job'.host = job.host
      /\ UNCHANGED <<cacheIP, ipOrder, offset, cycle, flush, clone, answer>>
  BY HeldAlone DEF delHost, counter, TypeOK
<1>2. KI' = KI
  BY <1>1 DEF KI
<1>3. job.ip = offset /\ MirrorOn(KI, KH \ {offset}) /\ job.host \notin KI
      /\ offset \in First .. Last - 1
  BY <1>1 DEF JobOK
<1>4. cacheHost' = [cacheHost EXCEPT ![offset] = None] /\ hostOrder' = Remove(hostOrder, offset)
  BY <1>3 DEF delHost
<1>5. KH' = KH \ {offset}
  BY <1>3, <1>4, Constants DEF KH, Keys, TypeOK
<1>6. \A x, y : x # offset /\ y # offset => (<<x, y>> \in hostOrder' <=> <<x, y>> \in hostOrder)
  BY <1>4 DEF Remove
<1>7. \A a \in KH \ {offset} : cacheHost'[a] = cacheHost[a]
  BY <1>4, KeyFacts DEF TypeOK
<1>8. MirrorOn(KI, KH)'
  BY <1>1, <1>2, <1>3, <1>5, <1>6, <1>7 DEF MirrorOn
<1>9. JobOK'
  BY <1>1, <1>2, <1>3, <1>5, <1>8 DEF JobOK
<1> QED BY <1>1, <1>2, <1>5, <1>9 DEF Calm, Asymmetric, InRange, FlushOK, CloneOK, AnswerOK

\* PutByIP: the new pair, and room for it.
LEMMA PutStep ==
    ASSUME TypeOK, Calm, put
    PROVE  Calm'
<1>1. /\ flush = "off" /\ clone = None /\ JobOK /\ job.pc = "put"
      /\ job'.pc = "putHost" /\ job'.host = job.host
      /\ UNCHANGED <<cacheIP, ipOrder, offset, cycle, flush, clone, answer>>
  BY HeldAlone DEF put, counter, TypeOK
<1>2. KI' = KI
  BY <1>1 DEF KI
<1>3. /\ MirrorOn(KI, KH) /\ job.host \notin KI /\ job.host \in Hosts
      /\ offset \notin KH /\ offset \in First .. Last - 1 /\ offset \in Addresses
  BY <1>1, Constants DEF JobOK, TypeOK
<1>4. /\ IsFiniteSet(KI) /\ IsFiniteSet(KH)
      /\ Cardinality(KI \cup {job.host}) = Cardinality(KH \cup {offset})
      /\ Cardinality(KI \cup {job.host}) \in Nat
  <2>1. IsFiniteSet(KI) /\ IsFiniteSet(KH) /\ Cardinality(KI) = Cardinality(KH)
    BY <1>3, SameSize
  <2>2. Cardinality(KI \cup {job.host}) = Cardinality(KI) + 1
    BY <1>3, <2>1, FS_AddElement
  <2>3. Cardinality(KH \cup {offset}) = Cardinality(KH) + 1
    BY <1>3, <2>1, FS_AddElement
  <2>4. Cardinality(KI) \in Nat
    BY <2>1, FS_CardinalityType
  <2> QED BY <2>1, <2>2, <2>3, <2>4
<1> DEFINE keys == KH \cup {offset}
           moved == MoveToBack(hostOrder, keys, offset)
<1>5. \A x, y : <<x, y>> \in moved <=>
                  (<<x, y>> \in hostOrder /\ x # offset) \/ (x \in keys /\ x # offset /\ y = offset)
  BY DEF MoveToBack
<1>6. Set(cacheHost, hostOrder, offset, job.host, cacheHost', hostOrder')
  BY DEF put
<1>7. CASE Cardinality(keys) <= Size
  <2>1. cacheHost' = [cacheHost EXCEPT ![offset] = job.host] /\ hostOrder' = moved
    BY <1>3, <1>6, <1>7 DEF Set, KH
  <2>2. KH' = keys
    BY <1>3, <2>1, Constants DEF KH, Keys, TypeOK
  <2>3. cacheHost'[offset] = job.host /\ \A a \in KH : cacheHost'[a] = cacheHost[a]
    BY <1>3, <2>1, KeyFacts DEF TypeOK
  <2>4. IpLast(offset)'
    <3> HIDE DEF moved
    <3> QED BY <1>1, <1>5, <2>1, <2>2 DEF IpLast
  <2>5. MirrorOn(KI, KH \ {offset})'
    <3> HIDE DEF moved
    <3> QED BY <1>1, <1>2, <1>3, <1>5, <2>1, <2>2, <2>3 DEF MirrorOn
  <2>6. HalfPut'
    BY <1>1, <1>2, <1>4, <1>7, <2>2, <2>3, <2>4, <2>5 DEF HalfPut
  <2>7. JobOK'
    BY <1>1, <1>2, <1>3, <2>6 DEF JobOK
  <2>8. InRange'
    BY <1>3, <2>2 DEF InRange, Calm
  <2> QED BY <1>1, <1>2, <2>7, <2>8 DEF Calm, Asymmetric, FlushOK, CloneOK, AnswerOK
<1>8. CASE ~(Cardinality(keys) <= Size)
  <2>0. PICK f \in keys :
              /\ Front(moved, keys, f)
              /\ cacheHost' = [cacheHost EXCEPT ![offset] = job.host, ![f] = None]
              /\ hostOrder' = Remove(moved, f)
    BY <1>3, <1>6, <1>8 DEF Set, KH
  <2>1. KH # {}
    <3> SUFFICES ASSUME KH = {} PROVE FALSE
      OBVIOUS
    <3>1. Cardinality(keys) = 1
      BY FS_Singleton
    <3> QED BY <3>1, <1>8, Constants
  <2>2. f # offset /\ f \in KH
    <3> HIDE DEF moved
    <3> QED BY <1>3, <1>5, <2>0, <2>1 DEF Front
  <2>3. \A b \in KH \ {f} : <<f, b>> \in hostOrder
    <3> HIDE DEF moved
    <3> QED BY <1>3, <1>5, <2>0, <2>2 DEF Front
  <2>4. PICK g \in KI : g = cacheHost[f] /\ cacheIP[g] = f
    BY <1>3, <2>2 DEF MirrorOn
  <2>5. Front(ipOrder, KI, g)
    <3> SUFFICES ASSUME NEW k \in KI \ {g} PROVE <<g, k>> \in ipOrder
      BY DEF Front
    <3>1. cacheIP[k] \in KH \ {f} /\ cacheHost[cacheIP[k]] = k
      BY <1>3, <2>4 DEF MirrorOn
    <3> QED BY <1>3, <2>2, <2>3, <2>4, <3>1 DEF MirrorOn
  <2>6. KH' = keys \ {f}
    <3>1. \A a \in Addresses :
             cacheHost'[a] = IF a = f THEN None ELSE IF a = offset THEN job.host ELSE cacheHost[a]
      BY <1>3, <2>0, <2>2 DEF TypeOK
    <3>2. DOMAIN cacheHost' = Addresses /\ DOMAIN cacheHost = Addresses
      BY <2>0 DEF TypeOK
    <3> QED BY <1>3, <2>2, <3>1, <3>2, Constants DEF KH, Keys
  <2>7. cacheHost'[offset] = job.host /\ \A a \in KH \ {f} : cacheHost'[a] = cacheHost[a]
    BY <1>3, <2>0, <2>2, KeyFacts DEF TypeOK
  <2>8. \A x, y : <<x, y>> \in hostOrder' <=> <<x, y>> \in moved /\ x # f /\ y # f
    BY <2>0 DEF Remove
  <2>9. IpLast(offset)'
    <3> HIDE DEF moved
    <3> QED BY <1>1, <1>5, <2>2, <2>6, <2>8 DEF IpLast
  <2>10. MirrorOn(KI \ {g}, KH \ {offset})'
    <3> HIDE DEF moved
    <3> QED BY <1>1, <1>2, <1>3, <1>5, <2>2, <2>4, <2>6, <2>7, <2>8 DEF MirrorOn
  <2>11. Front(ipOrder, KI, g)'
    BY <1>1, <1>2, <2>2, <2>5 DEF Front
  <2>12. HalfPut'
    <3>1. (offset \in KH /\ cacheHost[offset] = job.host)'
      BY <1>1, <2>2, <2>6, <2>7
    <3>2. (Cardinality(KI \cup {job.host}) > Size)'
      BY <1>1, <1>2, <1>4, <1>8, Constants
    <3>3. (\E x \in KI : Front(ipOrder, KI, x) /\ MirrorOn(KI \ {x}, KH \ {offset}))'
      BY <1>2, <2>4, <2>10, <2>11
    <3> QED BY <2>9, <3>1, <3>2, <3>3 DEF HalfPut
  <2>13. JobOK'
    BY <1>1, <1>2, <1>3, <2>12 DEF JobOK
  <2>14. InRange'
    BY <1>3, <2>6 DEF InRange, Calm
  <2> QED BY <1>1, <1>2, <2>13, <2>14 DEF Calm, Asymmetric, FlushOK, CloneOK, AnswerOK
<1> QED BY <1>7, <1>8

\* PutByHost does as PutByIP did, and the caches mirror each other again.
LEMMA PutHostStep ==
    ASSUME TypeOK, Calm, putHost
    PROVE  Calm'
<1>1. /\ flush = "off" /\ clone = None /\ JobOK /\ job.pc = "putHost" /\ job'.pc = "idle"
      /\ UNCHANGED <<cacheHost, hostOrder, offset, cycle, flush, clone>>
      /\ answer'.host = job.host /\ answer'.ip = offset
  BY HeldAlone DEF putHost, counter, IdleJob
<1>2. KH' = KH
  BY <1>1 DEF KH
<1> DEFINE h == job.host
<1>3. HalfPut /\ h \notin KI /\ h \in Hosts /\ offset \in Addresses /\ offset # None
  BY <1>1, Constants DEF JobOK, TypeOK
<1> DEFINE keys == KI \cup {h}
           moved == MoveToBack(ipOrder, keys, h)
<1>4. \A x, y : <<x, y>> \in moved <=>
                  (<<x, y>> \in ipOrder /\ x # h) \/ (x \in keys /\ x # h /\ y = h)
  BY DEF MoveToBack
<1>5. Set(cacheIP, ipOrder, h, offset, cacheIP', ipOrder')
  BY DEF putHost
<1>6. AnswerOK'
  BY <1>1, <1>2, <1>3 DEF AnswerOK, HalfPut
<1>a. Cardinality(keys) \in Nat
  <2>1. IsFiniteSet(KI)
    BY KeyFacts, FakeIpAssumption, FS_Subset
  <2>2. IsFiniteSet(keys)
    BY <2>1, FS_AddElement
  <2> QED BY <2>2, FS_CardinalityType
<1>7. CASE Cardinality(keys) <= Size
  <2>1. cacheIP' = [cacheIP EXCEPT ![h] = offset] /\ ipOrder' = moved
    BY <1>3, <1>5, <1>7 DEF Set, KI
  <2>2. KI' = keys
    BY <1>3, <2>1 DEF KI, Keys, TypeOK
  <2>3. cacheIP'[h] = offset /\ \A k \in KI : cacheIP'[k] = cacheIP[k]
    BY <1>3, <2>1, KeyFacts DEF TypeOK
  <2>4. MirrorOn(KI, KH \ {offset})
    BY <1>3, <1>7, <1>a, Constants DEF HalfPut
  <2>5. \A x, y : <<x, y>> \in ipOrder' <=> <<x, y>> \in moved
    BY <2>1
  <2>6. Asymmetric'
    <3> HIDE DEF moved
    <3> QED BY <1>3, <1>4, <2>2, <2>5 DEF Asymmetric, Calm
  <2>7. MirrorOn(KI, KH)'
    <3>1. \A x, y \in KH : <<x, y>> \in hostOrder <=> <<cacheHost[x], cacheHost[y]>> \in ipOrder'
      <4> HIDE DEF moved
      <4> TAKE x \in KH, y \in KH
      <4>1. CASE x = offset
        BY <1>3, <1>4, <2>5, <4>1 DEF HalfPut, IpLast
      <4>2. CASE x # offset /\ y = offset
        BY <1>3, <1>4, <2>4, <2>5, <4>2 DEF HalfPut, IpLast, MirrorOn
      <4>3. CASE x # offset /\ y # offset
        BY <1>3, <1>4, <2>4, <2>5, <4>3 DEF MirrorOn
      <4> QED BY <4>1, <4>2, <4>3
    <3> QED BY <1>1, <1>2, <1>3, <2>2, <2>3, <2>4, <3>1 DEF MirrorOn, HalfPut
  <2> QED BY <1>1, <1>2, <1>6, <2>6, <2>7 DEF Calm, JobOK, InRange, FlushOK, CloneOK
<1>8. CASE ~(Cardinality(keys) <= Size)
  <2>0. PICK g \in keys :
              /\ Front(moved, keys, g)
              /\ cacheIP' = [cacheIP EXCEPT ![h] = offset, ![g] = None]
              /\ ipOrder' = Remove(moved, g)
    BY <1>3, <1>5, <1>8 DEF Set, KI
  <2>1. PICK f \in KI : Front(ipOrder, KI, f) /\ MirrorOn(KI \ {f}, KH \ {offset})
    BY <1>3, <1>8 DEF HalfPut
  <2>2. g = f
    <3> HIDE DEF moved
    <3>1. g # h
      BY <1>3, <1>4, <2>0, <2>1 DEF Front
    <3>2. \A k \in KI \ {g} : <<g, k>> \in ipOrder
      BY <1>3, <1>4, <2>0, <3>1 DEF Front
    <3> QED BY <2>0, <2>1, <3>1, <3>2 DEF Front, Asymmetric, Calm
  <2>3. KI' = keys \ {f}
    <3>1. \A k \in Hosts :
             cacheIP'[k] = IF k = f THEN None ELSE IF k = h THEN offset ELSE cacheIP[k]
      BY <1>3, <2>0, <2>2 DEF TypeOK
    <3>2. DOMAIN cacheIP' = Hosts /\ DOMAIN cacheIP = Hosts
      BY <2>0 DEF TypeOK
    <3> QED BY <1>3, <2>1, <3>1, <3>2, KeyFacts DEF KI, Keys
  <2>4. cacheIP'[h] = offset /\ \A k \in KI \ {f} : cacheIP'[k] = cacheIP[k]
    BY <1>3, <2>0, <2>1, <2>2, KeyFacts DEF TypeOK
  <2>5. \A x, y : <<x, y>> \in ipOrder' <=> <<x, y>> \in moved /\ x # f /\ y # f
    BY <2>0, <2>2 DEF Remove
  <2>6. Asymmetric'
    <3> HIDE DEF moved
    <3> QED BY <1>3, <1>4, <2>3, <2>5 DEF Asymmetric, Calm
  <2>7. MirrorOn(KI, KH)'
    <3>1. \A x, y \in KH : <<x, y>> \in hostOrder <=> <<cacheHost[x], cacheHost[y]>> \in ipOrder'
      <4> HIDE DEF moved
      <4> TAKE x \in KH, y \in KH
      <4>1. CASE x = offset
        BY <1>3, <1>4, <2>5, <4>1 DEF HalfPut, IpLast
      <4>2. CASE x # offset /\ y = offset
        <5>1. cacheHost[x] \in KI \ {f} /\ cacheHost[y] = h /\ <<x, y>> \in hostOrder
          BY <1>3, <2>1, <4>2 DEF HalfPut, IpLast, MirrorOn
        <5>2. f # h
          BY <1>3
        <5> QED BY <1>3, <1>4, <2>5, <5>1, <5>2
      <4>3. CASE x # offset /\ y # offset
        BY <1>3, <1>4, <2>1, <2>5, <4>3 DEF MirrorOn
      <4> QED BY <4>1, <4>2, <4>3
    <3> QED BY <1>1, <1>2, <1>3, <2>1, <2>3, <2>4, <3>1 DEF MirrorOn, HalfPut
  <2> QED BY <1>1, <1>2, <1>6, <2>6, <2>7 DEF Calm, JobOK, InRange, FlushOK, CloneOK
<1> QED BY <1>7, <1>8

\* LookBack: the address becomes the most recent, then its host.
LEMMA LookBackStep ==
    ASSUME TypeOK, Calm, ~raced', NEW a \in Addresses, LookBack(a)
    PROVE  Calm'
<1>1. /\ flush = "off" /\ clone = None /\ job.pc = "idle" /\ a \in KH
      /\ job'.pc = "back" /\ job'.host = cacheHost[a] /\ job'.ip = a
      /\ UNCHANGED <<cacheIP, ipOrder, cacheHost, offset, cycle, flush, clone, answer>>
  BY DEF LookBack, Undisturbed, counter, KH
<1>2. KI' = KI /\ KH' = KH
  BY <1>1 DEF KI, KH
<1>3. MirrorOn(KI, KH)
  BY <1>1 DEF Calm, JobOK
<1>4. hostOrder' = MoveToBack(hostOrder, KH, a)
  BY <1>1 DEF LookBack, Get, KH
<1>5. \A x, y : <<x, y>> \in hostOrder' <=>
                  (<<x, y>> \in hostOrder /\ x # a) \/ (x \in KH /\ x # a /\ y = a)
  BY <1>4 DEF MoveToBack
<1>6. IpLast(a)'
  BY <1>1, <1>2, <1>5 DEF IpLast
<1>7. MirrorOn(KI \ {cacheHost[a]}, KH \ {a})'
  BY <1>1, <1>2, <1>3, <1>5 DEF MirrorOn
<1>8. HalfMoved'
  BY <1>1, <1>2, <1>3, <1>7 DEF HalfMoved, MirrorOn
<1>9. JobOK'
  BY <1>1, <1>6, <1>8 DEF JobOK
<1> QED BY <1>1, <1>2, <1>9 DEF Calm, Asymmetric, InRange, FlushOK, CloneOK, AnswerOK

LEMMA BackStep ==
    ASSUME TypeOK, Calm, back
    PROVE  Calm'
<1>1. /\ flush = "off" /\ clone = None /\ JobOK /\ job.pc = "back" /\ job'.pc = "idle"
      /\ UNCHANGED <<cacheIP, cacheHost, hostOrder, offset, cycle, flush, clone, answer>>
  BY HeldAlone DEF back, counter, IdleJob
<1>2. KI' = KI /\ KH' = KH
  BY <1>1 DEF KI, KH
<1> DEFINE h == job.host
           a == job.ip
<1>3. HalfMoved /\ IpLast(a)
  BY <1>1 DEF JobOK
<1>4. ipOrder' = MoveToBack(ipOrder, KI, h)
  BY <1>3 DEF back, Get, KI, HalfMoved
<1>5. \A x, y : <<x, y>> \in ipOrder' <=>
                  (<<x, y>> \in ipOrder /\ x # h) \/ (x \in KI /\ x # h /\ y = h)
  BY <1>4 DEF MoveToBack
<1>6. MirrorOn(KI, KH)'
  <2>1. \A x, y \in KH : <<x, y>> \in hostOrder <=> <<cacheHost[x], cacheHost[y]>> \in ipOrder'
    <3> TAKE x \in KH, y \in KH
    <3>1. CASE x = a
      BY <1>3, <1>5, <3>1 DEF HalfMoved, IpLast, MirrorOn
    <3>2. CASE x # a /\ y = a
      BY <1>3, <1>5, <3>2 DEF HalfMoved, IpLast, MirrorOn
    <3>3. CASE x # a /\ y # a
      BY <1>3, <1>5, <3>3 DEF HalfMoved, MirrorOn
    <3> QED BY <3>1, <3>2, <3>3
  <2> QED BY <1>1, <1>2, <1>3, <2>1 DEF HalfMoved, MirrorOn
<1>7. Asymmetric'
  BY <1>2, <1>5 DEF Asymmetric, Calm
<1> QED BY <1>1, <1>2, <1>6, <1>7 DEF Calm, JobOK, InRange, FlushOK, CloneOK, AnswerOK

\* A flush empties both caches, one after the other.
LEMMA FlushSteps ==
    ASSUME TypeOK, Calm, ~raced', FlushFakeIP \/ clearHosts \/ resetOffset
    PROVE  Calm'
<1>1. CASE FlushFakeIP
  <2>1. /\ job.pc = "idle" /\ clone = None /\ flush' = "host" /\ answer' = None
        /\ UNCHANGED <<cacheHost, job, clone>>
    BY <1>1 DEF FlushFakeIP
  <2>2. KI' = {} /\ KH' = KH
    BY <1>1, <2>1 DEF FlushFakeIP, KI, KH, Keys
  <2> QED BY <2>1, <2>2 DEF Calm, Asymmetric, InRange, FlushOK, CloneOK, AnswerOK
<1>2. CASE clearHosts
  <2>1. /\ flush # "off" /\ flush' = "reset"
        /\ UNCHANGED <<cacheIP, job, clone, answer>>
    BY <1>2 DEF clearHosts
  <2>2. KI' = KI /\ KH' = {}
    BY <1>2, <2>1 DEF clearHosts, KI, KH, Keys
  <2> QED BY <2>1, <2>2 DEF Calm, Asymmetric, InRange, FlushOK, CloneOK, AnswerOK
<1>3. CASE resetOffset
  <2>1. /\ flush = "reset" /\ flush' = "off"
        /\ UNCHANGED <<cacheIP, ipOrder, cacheHost, hostOrder, job, clone, answer>>
    BY <1>3 DEF resetOffset, caches
  <2>2. KI' = {} /\ KH' = {} /\ job'.pc = "idle" /\ clone' = None /\ answer' = None
    BY <2>1 DEF Calm, FlushOK, KI, KH
  <2>3. JobOK'
    BY <2>2 DEF JobOK, MirrorOn
  <2> QED BY <2>1, <2>2, <2>3 DEF Calm, Asymmetric, InRange, FlushOK, CloneOK, AnswerOK
<1> QED BY <1>1, <1>2, <1>3

\* A reload copies both caches as they are.
LEMMA ReloadSteps ==
    ASSUME TypeOK, Calm, ~raced', PatchFrom \/ replace
    PROVE  Calm'
<1>1. CASE PatchFrom
  <2>1. /\ job.pc = "idle" /\ flush = "off" /\ clone'.map = cacheIP /\ clone'.order = ipOrder
        /\ UNCHANGED <<cacheIP, ipOrder, cacheHost, hostOrder, offset, job, flush, answer>>
    BY <1>1 DEF PatchFrom, caches, counter
  <2>2. KI' = KI /\ KH' = KH
    BY <2>1 DEF KI, KH
  <2>3. MirrorOn(KI, KH)'
    BY <2>1, <2>2 DEF Calm, JobOK, MirrorOn
  <2> QED BY <2>1, <2>2, <2>3 DEF Calm, JobOK, Asymmetric, InRange, FlushOK, CloneOK, AnswerOK
<1>2. CASE replace
  <2>1. /\ job.pc = "idle" /\ flush = "off" /\ job'.pc = "idle" /\ flush' = "off" /\ clone' = None
        /\ UNCHANGED <<cacheIP, ipOrder, cacheHost, hostOrder, answer>>
    BY <1>2 DEF replace, Calm, CloneOK, IdleJob
  <2>2. KI' = KI /\ KH' = KH
    BY <2>1 DEF KI, KH
  <2>3. MirrorOn(KI, KH)'
    BY <2>1, <2>2 DEF Calm, JobOK, MirrorOn
  <2> QED BY <2>1, <2>2, <2>3 DEF Calm, JobOK, Asymmetric, InRange, FlushOK, CloneOK, AnswerOK
<1> QED BY <1>1, <1>2

\* The invariant: at each step of Lookup and LookBack it is known how far the two
\* caches agree, as long as no flush and no reload has raced with one.
THEOREM Safety == Spec => []Inv
<1>1. Init => Inv
  <2> SUFFICES ASSUME Init PROVE Calm
    BY DEF Inv
  <2>1. KI = {} /\ KH = {}
    BY DEF Init, KI, KH, Keys
  <2> QED BY <2>1 DEF Init, IdleJob, Calm, JobOK, MirrorOn, Asymmetric, InRange, FlushOK, CloneOK, AnswerOK
<1>2. TypeOK /\ Inv /\ [Next]_vars => Inv'
  <2> SUFFICES ASSUME TypeOK, Inv, [Next]_vars, ~raced' PROVE Calm'
    BY DEF Inv
  <2>1. ~raced
    BY DEF Next, vars, Lookup, hit, next, del, delHost, put, putHost, LookBack, back,
           FlushFakeIP, clearHosts, resetOffset, PatchFrom, replace
  <2>2. Calm
    BY <2>1 DEF Inv
  <2>3. CASE UNCHANGED vars
    <3>1. /\ UNCHANGED <<cacheIP, ipOrder, cacheHost, hostOrder, offset, job, flush, clone, answer>>
      BY <2>3 DEF vars, caches, counter
    <3>2. KI' = KI /\ KH' = KH
      BY <3>1 DEF KI, KH
    <3>3. JobOK => JobOK'
      BY <3>1, <3>2 DEF JobOK, MirrorOn, HalfMoved, HalfPut, HostLast, IpLast, Front
    <3> QED BY <2>2, <3>1, <3>2, <3>3 DEF Calm, Asymmetric, InRange, FlushOK, CloneOK, AnswerOK
  <2>4. CASE Next
    BY <2>2, <2>4, LookupStep, HitStep, NextStep, DelStep, DelHostStep, PutStep, PutHostStep,
       LookBackStep, BackStep, FlushSteps, ReloadSteps DEF Next
  <2> QED BY <2>3, <2>4
<1> QED BY <1>1, <1>2, TypeCorrect, PTL DEF Spec

\* The two caches hold the same pairs in the same order.
THEOREM CachesMirror == Spec => []Mirror
<1>1. Inv => Mirror
  BY DEF Inv, Mirror, Quiet, Undisturbed, Calm, JobOK, KI, KH
<1> QED BY <1>1, Safety, PTL

\* The last answer lies in the range and leads back to its host.
THEOREM AnswersResolve == Spec => []AnswerResolves
<1>1. Inv => AnswerResolves
  BY DEF Inv, AnswerResolves, Quiet, Undisturbed, Calm, AnswerOK, InRange
<1> QED BY <1>1, Safety, PTL

=============================================================================
