------------------------------ MODULE Kademlia ------------------------------
(***************************************************************************)
(* The routing table of a DHT node and iterativeFindNode, the search that  *)
(* Start, Announce, Lookup and Leave are built on.                         *)
(*                                                                         *)
(* An ID is a string of bits.  A contact is its ID: what its address adds  *)
(* is whether a request to it is answered.  The other nodes are external:  *)
(* one that is asked answers with at most K contacts of its choice, or     *)
(* SendRequest gives up.  closestList holds an ID once and is sorted       *)
(* whenever its order matters, so it is a set here.  Between the steps of  *)
(* the search, requests of other nodes and other searches change the       *)
(* routing table.                                                          *)
(***************************************************************************)
EXTENDS Naturals, FiniteSets, Sequences

CONSTANTS
  Bits,     \* the length of an ID (256 in the code)
  K,        \* the size of a bucket and of a result (20 in the code)
  Alpha,    \* how many nodes a round asks (3 in the code)
  Local,    \* the ID of this node
  Nodes,    \* the IDs of the other nodes
  Senders,  \* the IDs that requests and answers to a Ping come from
  Targets   \* the IDs that are searched for

IDs == [1 .. Bits -> {0, 1}]

ASSUME KademliaAssumption ==
  /\ {Bits, K, Alpha} \subseteq Nat \ {0}
  /\ Local \in IDs
  /\ Nodes \subseteq IDs \ {Local} /\ IsFiniteSet(Nodes)
  /\ Senders \subseteq Nodes \cup {Local}
  /\ Targets \subseteq IDs

VARIABLES
  buckets,      \* RoutingTable.buckets, the least recently seen first
  pc,           \* where the search is
  target,       \* what is searched for
  closestList,  \* the nodes in reach that did not fail
  closestMap,   \* every node the search has heard of
  queried,      \* the nodes that were asked
  waiting,      \* the nodes whose answer the round waits for
  results,      \* resChan
  found,        \* what the search returned
  recent,       \* history: the nodes by when they were last seen
  answered,     \* history: the nodes that answered the search
  heard         \* history: the nodes the search started from or was told of

search == <<pc, target, closestList, closestMap, queried, waiting, results, found, answered, heard>>
vars   == <<buckets, recent, search>>

-----------------------------------------------------------------------------
commonPrefixLength(a, b) ==
  LET cpl == Cardinality({i \in 1 .. Bits : \A j \in 1 .. i : a[j] = b[j]})
  IN IF cpl > Bits - 1 THEN Bits - 1 ELSE cpl

xorDistance(a, b) == [i \in 1 .. Bits |-> IF a[i] = b[i] THEN 0 ELSE 1]

(* compareDistance(d, e) < 0                                               *)
Less(d, e) ==
  \E i \in 1 .. Bits : d[i] < e[i] /\ \A j \in 1 .. i - 1 : d[j] = e[j]

(* The first n of a set of nodes sorted by their distance to t.            *)
Closest(S, t, n) ==
  {a \in S : Cardinality({b \in S : Less(xorDistance(b, t), xorDistance(a, t))}) < n}

Elems(s) == {s[i] : i \in 1 .. Len(s)}

(* Where a is in s, and s without it.                                      *)
existsIdx(s, a) == CHOOSE i \in 1 .. Len(s) : s[i] = a

Without(s, a) ==
  IF a \in Elems(s)
  THEN SubSeq(s, 1, existsIdx(s, a) - 1) \o SubSeq(s, existsIdx(s, a) + 1, Len(s))
  ELSE s

Indices == 0 .. Bits - 1

Contacts(table) == UNION {Elems(table[i]) : i \in Indices}

(* Mutant: a contact that is known keeps its place in the bucket.          *)
AddContactInPlace(a) ==
  LET i == commonPrefixLength(Local, a)
      full == Len(buckets[i]) >= K
  IN /\ buckets' = IF a = Local \/ a \in Elems(buckets[i])
                   THEN buckets
                   ELSE [buckets EXCEPT ![i] = Append(IF full THEN Tail(@) ELSE @, a)]
     /\ recent' = IF a = Local THEN recent ELSE Append(Without(recent, a), a)

(* AddContact: a contact that is known moves to the end of its bucket; for *)
(* a new one the least recently seen of a full bucket is evicted.          *)
AddContact(a) ==
  LET i == commonPrefixLength(Local, a)
      rest == Without(buckets[i], a)
      full == a \notin Elems(buckets[i]) /\ Len(rest) >= K
  IN /\ buckets' = IF a = Local THEN buckets
                   ELSE [buckets EXCEPT ![i] = Append(IF full THEN Tail(rest) ELSE rest, a)]
     /\ recent' = IF a = Local THEN recent ELSE Append(Without(recent, a), a)

FindClosestPeers(t, count) == Closest(Contacts(buckets), t, count)

-----------------------------------------------------------------------------
Places == {"idle", "round", "querying", "done"}

Replies == {S \in SUBSET (Nodes \cup {Local}) : Cardinality(S) <= K}

Results == [from : Nodes, err : {TRUE}, contacts : {{}}] \cup [from : Nodes, err : {FALSE}, contacts : Replies]

KademliaTypeOK ==
  /\ buckets \in [Indices -> Seq(Nodes)]
  /\ pc \in Places
  /\ target \in Targets
  /\ queried \subseteq closestMap /\ closestMap \subseteq Nodes
  /\ closestMap \ queried \subseteq closestList /\ closestList \subseteq closestMap
  /\ waiting \subseteq queried
  /\ results \in Seq(Results)
  /\ found \subseteq Nodes
  /\ recent \in Seq(Nodes)
  /\ answered \subseteq queried
  /\ heard \subseteq Nodes

Init ==
  /\ buckets = [i \in Indices |-> << >>]
  /\ recent = << >>
  /\ pc = "idle"
  /\ target \in Targets
  /\ closestList = {} /\ closestMap = {} /\ queried = {}
  /\ waiting = {}
  /\ results = << >>
  /\ found = {}
  /\ answered = {} /\ heard = {}

(* A node sends a request, answers the Ping of Start, or answers another   *)
(* search.                                                                 *)
Seen(a) ==
  /\ AddContact(a)
  /\ UNCHANGED search

(* iterativeFindNode is called.                                            *)
IterativeFindNode(t) ==
  /\ pc = "idle"
  /\ target' = t
  /\ closestList' = FindClosestPeers(t, K)
  /\ closestMap' = closestList'
  /\ queried' = {} /\ answered' = {}
  /\ heard' = closestList'
  /\ found' = {}
  /\ pc' = "round"
  /\ UNCHANGED <<buckets, recent, waiting, results>>

toQuery == Closest(closestList \ queried, target, Alpha)

(* Mutant: the search ends once the closest K were asked.                  *)
RoundUntilClosest ==
  /\ pc = "round"
  /\ IF Closest(closestList, target, K) \subseteq queried
     THEN /\ pc' = "done"
          /\ found' = Closest(closestList, target, K)
          /\ UNCHANGED <<queried, waiting>>
     ELSE /\ pc' = "querying"
          /\ queried' = queried \cup toQuery
          /\ waiting' = toQuery
          /\ found' = found
  /\ UNCHANGED <<buckets, recent, target, closestList, closestMap, results, answered, heard>>

(* The next round asks the closest nodes that were not asked, or there is  *)
(* none and the search returns.                                            *)
Round ==
  /\ pc = "round"
  /\ IF toQuery = {}
     THEN /\ pc' = "done"
          /\ found' = Closest(closestList, target, K)
          /\ UNCHANGED <<queried, waiting>>
     ELSE /\ pc' = "querying"
          /\ queried' = queried \cup toQuery
          /\ waiting' = toQuery
          /\ found' = found
  /\ UNCHANGED <<buckets, recent, target, closestList, closestMap, results, answered, heard>>

(* A goroutine of the round puts what SendRequest returned into resChan.   *)
Returned(n, r) ==
  /\ pc = "querying"
  /\ n \in waiting
  /\ waiting' = waiting \ {n}
  /\ results' = Append(results, r)
  /\ UNCHANGED <<buckets, recent, pc, target, closestList, closestMap, queried, found>>

Answers(n, S) ==
  /\ Returned(n, [from |-> n, err |-> FALSE, contacts |-> S])
  /\ answered' = answered \cup {n}
  /\ heard' = heard \cup (S \ {Local})

Fails(n) ==
  /\ Returned(n, [from |-> n, err |-> TRUE, contacts |-> {}])
  /\ UNCHANGED <<answered, heard>>

(* Mutant: this node is not told apart from the others.                    *)
MergeSelf ==
  /\ pc = "querying" /\ waiting = {} /\ results # << >>
  /\ LET r == Head(results) IN
       IF r.err
       THEN /\ closestList' = closestList \ {r.from}
            /\ UNCHANGED <<buckets, recent, closestMap>>
       ELSE /\ AddContact(r.from)
            /\ closestList' = closestList \cup (r.contacts \ closestMap)
            /\ closestMap' = closestMap \cup r.contacts
  /\ results' = Tail(results)
  /\ UNCHANGED <<pc, target, queried, waiting, found, answered, heard>>

(* Mutant: a node that failed is asked again.                              *)
MergeRetries ==
  /\ pc = "querying" /\ waiting = {} /\ results # << >>
  /\ LET r == Head(results) IN
       IF r.err
       THEN /\ queried' = queried \ {r.from}
            /\ UNCHANGED <<buckets, recent, closestList, closestMap>>
       ELSE /\ AddContact(r.from)
            /\ closestList' = closestList \cup (r.contacts \ (closestMap \cup {Local}))
            /\ closestMap' = closestMap \cup (r.contacts \ {Local})
            /\ queried' = queried
  /\ results' = Tail(results)
  /\ UNCHANGED <<pc, target, waiting, found, answered, heard>>

(* After wg.Wait the results are merged one by one: a node that failed is  *)
(* taken out, one that answered enters the routing table, and what it told *)
(* is added unless the search has heard of it, failed nodes included.      *)
Merge ==
  /\ pc = "querying" /\ waiting = {} /\ results # << >>
  /\ LET r == Head(results) IN
       IF r.err
       THEN /\ closestList' = closestList \ {r.from}
            /\ UNCHANGED <<buckets, recent, closestMap>>
       ELSE /\ AddContact(r.from)
            /\ closestList' = closestList \cup (r.contacts \ (closestMap \cup {Local}))
            /\ closestMap' = closestMap \cup (r.contacts \ {Local})
  /\ results' = Tail(results)
  /\ UNCHANGED <<pc, target, queried, waiting, found, answered, heard>>

Merged ==
  /\ pc = "querying" /\ waiting = {} /\ results = << >>
  /\ pc' = "round"
  /\ UNCHANGED <<buckets, recent, target, closestList, closestMap, queried, waiting, results, found, answered, heard>>

(* The caller takes the result.                                            *)
Return ==
  /\ pc = "done"
  /\ pc' = "idle"
  /\ closestList' = {} /\ closestMap' = {} /\ queried' = {} /\ found' = {}
  /\ answered' = {} /\ heard' = {}
  /\ UNCHANGED <<buckets, recent, target, waiting, results>>

Search ==
  \/ Round \/ Merge \/ Merged \/ Return
  \/ \E n \in waiting : Fails(n) \/ \E S \in Replies : Answers(n, S)

Next ==
  \/ \E a \in Senders : Seen(a)
  \/ \E t \in Targets : IterativeFindNode(t)
  \/ Search

Spec == Init /\ [][Next]_vars

(* The search runs, and SendRequest returns at the latest when its timeout *)
(* fires.                                                                  *)
FairSpec == Spec /\ WF_vars(Search)

-----------------------------------------------------------------------------
Before(s, a, b) == \E i, j \in 1 .. Len(s) : i < j /\ s[i] = a /\ s[j] = b

(***************************************************************************)
(* Every bucket of the routing table holds the K contacts of its distance  *)
(* that were seen last, in the order in which they were seen, whatever     *)
(* requests and searches touched it.  In particular no contact is in two   *)
(* places, and none is in a bucket of another distance.                    *)
(***************************************************************************)
BucketsHoldMostRecent ==
  \A i \in Indices :
    LET bucket == buckets[i]
        mine   == {a \in Elems(recent) : commonPrefixLength(Local, a) = i}
    IN /\ Elems(bucket) \subseteq mine /\ Len(bucket) <= K
       /\ \A j, k \in 1 .. Len(bucket) : j < k => Before(recent, bucket[j], bucket[k])
       /\ \A a \in mine \ Elems(bucket) :
            Len(bucket) = K /\ \A b \in Elems(bucket) : Before(recent, a, b)

(***************************************************************************)
(* A search asks everyone it hears of, exactly the nodes it started from   *)
(* and those the answers named, and returns the K closest of the nodes     *)
(* that answered: no failed node, not this node, nobody twice.             *)
(***************************************************************************)
SearchIsComplete ==
  pc = "done" => queried = heard /\ found = Closest(answered, target, K)

(***************************************************************************)
(* A search ends, whichever nodes fail and however the answers overlap.    *)
(***************************************************************************)
SearchEnds == pc # "idle" ~> pc = "idle"
=============================================================================
