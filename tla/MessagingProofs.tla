-------------------------- MODULE MessagingProofs --------------------------
(***************************************************************************)
(* Proofs about Messaging: the rate of the SMS gateway, for every number of*)
(* senders and request threads, every bucket and every course of the clock;*)
(* the payment ask of a session, for every set of turns; the bursts of a   *)
(* transcript, for every transcript; the automaton that finds cues, for    *)
(* every lexicon and text; and the local and cloud explanations, for every *)
(* set of requests.                                                        *)
(***************************************************************************)
EXTENDS Messaging, Recursion, SequenceTheorems, FiniteSetTheorems, TLAPS

BucketType == [tokens : Int, last : Nat]

ThreadType ==
    [at : {"idle"}]
        \cup [at : {"create", "fetch"}, sender : Sender]
        \cup [at : {"refill", "take"}, sender : Sender, mine : Nat]
        \cup [at : {"write"}, sender : Sender, mine : Nat, read : BucketType, new : BucketType]

GatewayTypeOK ==
    /\ clock \in Nat /\ latest \in Nat /\ clock <= latest
    /\ bucket \in Seq(BucketType)
    /\ slot \in [Sender -> Nat]
    /\ thread \in [Thread -> ThreadType]
    /\ accepted \in [Sender -> Nat] /\ overlaps \in [Sender -> Nat]
    /\ received \in [Sender -> Nat]

HasBucket(t) == thread[t].at \in {"refill", "write", "take"}

\* A bucket that a thread or the dictionary has exists, and it is of one sender.
BucketsAreOwned ==
    /\ \A s \in Sender : slot[s] <= Len(bucket)
    /\ \A s, o \in Sender : slot[s] = slot[o] /\ slot[s] # NoBucket => s = o
    /\ \A t \in Thread :
        /\ thread[t].at \in {"fetch", "refill", "write", "take"}
              => slot[thread[t].sender] # NoBucket
        /\ HasBucket(t) =>
              /\ thread[t].mine \in 1..Len(bucket)
              /\ \A s \in Sender : slot[s] = thread[t].mine => s = thread[t].sender

\* What a thread is about to write was gained from what it has read.
WritesAreRefills ==
    \A t \in Thread : thread[t].at = "write" =>
        LET new == thread[t].new
            read == thread[t].read
        IN  /\ new.tokens <= Full /\ new.last <= latest
            /\ new.tokens - new.last <= read.tokens - read.last

\* The threads that work on a bucket which the dictionary no longer has: each
\* may still answer one message.
Astray(s) == {t \in Thread : HasBucket(t) /\ thread[t].sender = s /\ thread[t].mine # slot[s]}

Spent(s)     == accepted[s] * Unit + Cardinality(Astray(s)) * Unit
PerOverlap   == Full + latest + Cardinality(Thread) * Unit
Allowance(s) == Full + overlaps[s] * PerOverlap

\* The answers given and the tokens left are covered by the allowance and the
\* clock at the last refill; so are the answers alone by the highest clock.
RateInv ==
    /\ \A s \in Sender :
        /\ slot[s] = NoBucket => accepted[s] = 0
        /\ Spent(s) <= Allowance(s) + latest
        /\ slot[s] # NoBucket =>
              Spent(s) + bucket[slot[s]].tokens - bucket[slot[s]].last <= Allowance(s)
    /\ \A i \in 1..Len(bucket) : bucket[i].tokens <= Full /\ bucket[i].last <= latest

GatewayInv == GatewayTypeOK /\ BucketsAreOwned /\ WritesAreRefills /\ RateInv

-----------------------------------------------------------------------------
\* The locals that a thread has at each place.
LEMMA ThreadFields ==
    ASSUME GatewayTypeOK, NEW t \in Thread
    PROVE  /\ thread[t].at \in {"idle", "create", "fetch", "refill", "write", "take"}
           /\ thread[t].at # "idle" => thread[t].sender \in Sender
           /\ HasBucket(t) => thread[t].mine \in Nat
           /\ thread[t].at = "write" => thread[t].read \in BucketType /\ thread[t].new \in BucketType
<1>1. thread[t] \in ThreadType
  BY DEF GatewayTypeOK
<1> QED
  BY <1>1 DEF ThreadType, HasBucket

\* Products of natural numbers.
LEMMA NatProducts ==
    /\ \A a, b \in Nat : a * b \in Nat
    /\ \A a, b, c \in Nat : b <= c => a * b <= a * c
    /\ \A a, b \in Nat : (a + 1) * b = a * b + b
    /\ \A a, b, c \in Nat : b <= c => b * a <= c * a
OBVIOUS

LEMMA ThreadSubset ==
    ASSUME NEW S \in SUBSET Thread
    PROVE  /\ IsFiniteSet(S) /\ Cardinality(S) \in Nat
           /\ Cardinality(S) * Unit \in Nat
           /\ Cardinality(S) * Unit <= Cardinality(Thread) * Unit
<1>1. Unit \in Nat /\ IsFiniteSet(Thread) /\ Cardinality(Thread) \in Nat
  BY GatewayAssumption, FS_CardinalityType
<1>2. IsFiniteSet(S) /\ Cardinality(S) <= Cardinality(Thread)
  BY <1>1, FS_Subset
<1>3. Cardinality(S) \in Nat
  BY <1>2, FS_CardinalityType
<1> QED
  BY <1>1, <1>2, <1>3, NatProducts

LEMMA GatewayNumbers ==
    ASSUME GatewayTypeOK
    PROVE  /\ Full \in Nat /\ Unit \in Nat /\ Unit >= 1
           /\ PerOverlap \in Nat /\ PerOverlap >= Full + latest
           /\ Cardinality(Thread) * Unit \in Nat
           /\ PerOverlap = Full + latest + Cardinality(Thread) * Unit
           /\ \A s \in Sender :
                /\ IsFiniteSet(Astray(s)) /\ Cardinality(Astray(s)) \in Nat
                /\ Cardinality(Astray(s)) * Unit \in Nat
                /\ Cardinality(Astray(s)) * Unit <= Cardinality(Thread) * Unit
                /\ accepted[s] * Unit \in Nat
                /\ overlaps[s] * PerOverlap \in Nat
                /\ Spent(s) \in Nat /\ Allowance(s) \in Nat
<1>1. Capacity \in Nat /\ Unit \in Nat /\ Unit >= 1 /\ IsFiniteSet(Thread)
  BY GatewayAssumption
<1>2. Cardinality(Thread) \in Nat
  BY <1>1, FS_CardinalityType
<1>3. Full \in Nat /\ Cardinality(Thread) * Unit \in Nat
  BY <1>1, <1>2, NatProducts DEF Full
<1>4. PerOverlap \in Nat /\ PerOverlap >= Full + latest
  BY <1>3 DEF PerOverlap, GatewayTypeOK
<1>5. ASSUME NEW s \in Sender
      PROVE  /\ IsFiniteSet(Astray(s)) /\ Cardinality(Astray(s)) \in Nat
             /\ Cardinality(Astray(s)) * Unit \in Nat
             /\ Cardinality(Astray(s)) * Unit <= Cardinality(Thread) * Unit
             /\ accepted[s] * Unit \in Nat
             /\ overlaps[s] * PerOverlap \in Nat
             /\ Spent(s) \in Nat /\ Allowance(s) \in Nat
  <2>1. Astray(s) \subseteq Thread
    BY DEF Astray
  <2>2. IsFiniteSet(Astray(s)) /\ Cardinality(Astray(s)) <= Cardinality(Thread)
    BY <1>1, <2>1, FS_Subset
  <2>3. Cardinality(Astray(s)) \in Nat
    BY <2>2, FS_CardinalityType
  <2>4. accepted[s] \in Nat /\ overlaps[s] \in Nat
    BY DEF GatewayTypeOK
  <2>5. Cardinality(Astray(s)) * Unit \in Nat /\ accepted[s] * Unit \in Nat
        /\ overlaps[s] * PerOverlap \in Nat
        /\ Cardinality(Astray(s)) * Unit <= Cardinality(Thread) * Unit
    BY <1>1, <1>2, <1>4, <2>2, <2>3, <2>4, NatProducts
  <2> QED
    BY <1>3, <2>2, <2>3, <2>5 DEF Spent, Allowance
<1> QED
  BY <1>1, <1>3, <1>4, <1>5 DEF PerOverlap

\* A later clock allows no less.
LEMMA AllowanceGrows ==
    ASSUME GatewayTypeOK, GatewayTypeOK', latest' >= latest, NEW s \in Sender,
           overlaps'[s] \in Nat, overlaps'[s] >= overlaps[s]
    PROVE  /\ Allowance(s) \in Nat /\ Allowance(s)' \in Nat /\ PerOverlap' \in Nat
           /\ Allowance(s)' >= Allowance(s)
           /\ overlaps'[s] > overlaps[s] => Allowance(s)' >= Allowance(s) + PerOverlap'
<1> DEFINE o == overlaps[s]   o1 == overlaps'[s]   k == PerOverlap   k1 == PerOverlap'
<1>1. o \in Nat /\ o1 \in Nat /\ o <= o1
  BY DEF GatewayTypeOK
<1>2. k \in Nat /\ k1 \in Nat /\ k <= k1
  <2>1. Full \in Nat /\ Cardinality(Thread) * Unit \in Nat /\ latest \in Nat /\ latest' \in Nat
    BY GatewayNumbers DEF GatewayTypeOK
  <2> QED
    BY <2>1 DEF PerOverlap
<1>3. Allowance(s) = Full + o * k /\ Allowance(s)' = Full + o1 * k1 /\ Full \in Nat
  BY GatewayNumbers DEF Allowance
<1> HIDE DEF o, o1, k, k1
<1>4. o * k <= o * k1 /\ o * k1 <= o1 * k1
      /\ o * k \in Nat /\ o * k1 \in Nat /\ o1 * k1 \in Nat
  BY <1>1, <1>2, NatProducts
<1>5. o1 > o => o1 * k1 >= o * k1 + k1
  <2>1. (o + 1) * k1 = o * k1 + k1
    BY <1>1, <1>2, NatProducts
  <2>2. o1 > o => (o + 1) * k1 <= o1 * k1
    BY <1>1, <1>2, NatProducts
  <2> QED
    BY <2>1, <2>2
<1>6. o1 > o => Full + o1 * k1 >= Full + o * k + k1
  BY <1>2, <1>3, <1>4, <1>5
<1> QED
  BY <1>2, <1>3, <1>4, <1>6 DEF o, o1, k1

RateOf(s) ==
    /\ slot[s] = NoBucket => accepted[s] = 0
    /\ Spent(s) <= Allowance(s) + latest
    /\ slot[s] # NoBucket =>
          Spent(s) + bucket[slot[s]].tokens - bucket[slot[s]].last <= Allowance(s)

\* A sender whose bucket is at most refilled keeps its bounds.
LEMMA QuietSender ==
    ASSUME GatewayInv, GatewayTypeOK', latest' >= latest, NEW s \in Sender,
           accepted'[s] = accepted[s], overlaps'[s] >= overlaps[s], slot'[s] = slot[s],
           Astray(s)' = Astray(s),
           slot[s] # NoBucket =>
               /\ slot[s] \in 1..Len(bucket') /\ slot[s] \in 1..Len(bucket)
               /\ bucket'[slot[s]].tokens - bucket'[slot[s]].last
                      <= bucket[slot[s]].tokens - bucket[slot[s]].last
    PROVE  RateOf(s)'
<1>1. GatewayTypeOK /\ RateOf(s)
  BY DEF GatewayInv, RateInv, RateOf
<1>2. overlaps'[s] \in Nat
  BY DEF GatewayTypeOK
<1>3. Allowance(s)' >= Allowance(s) /\ Allowance(s) \in Nat /\ Allowance(s)' \in Nat
  BY <1>1, <1>2, AllowanceGrows
<1>4. Spent(s)' = Spent(s) /\ Spent(s) \in Nat
  BY <1>1, GatewayNumbers DEF Spent
<1>5. latest \in Nat /\ latest' \in Nat
  BY <1>1 DEF GatewayTypeOK
<1>6. CASE slot[s] = NoBucket
  BY <1>1, <1>3, <1>4, <1>5, <1>6 DEF RateOf
<1>7. CASE slot[s] # NoBucket
  <2> DEFINE b == bucket[slot[s]]
             c == bucket'[slot[s]]
  <2>1. b \in BucketType /\ c \in BucketType
    BY <1>1, <1>7 DEF GatewayTypeOK
  <2>2. b.tokens \in Int /\ b.last \in Int /\ c.tokens \in Int /\ c.last \in Int
    BY <2>1 DEF BucketType
  <2>3. Spent(s) + b.tokens - b.last <= Allowance(s) /\ c.tokens - c.last <= b.tokens - b.last
    BY <1>1, <1>7 DEF RateOf
  <2>4. c = bucket'[slot'[s]]
    OBVIOUS
  <2> HIDE DEF b, c
  <2>5. Spent(s)' + c.tokens - c.last <= Allowance(s)'
    BY <1>3, <1>4, <2>2, <2>3
  <2> QED
    BY <1>1, <1>3, <1>4, <1>5, <1>7, <2>4, <2>5 DEF RateOf
<1> QED
  BY <1>6, <1>7

\* What a thread's step has to establish about it, the others being unmoved.
LEMMA ThreadStep ==
    ASSUME GatewayInv, UNCHANGED <<bucket, slot, accepted, overlaps>>,
           received' \in [Sender -> Nat],
           clock' \in Nat, latest' \in Nat, clock' <= latest', latest' >= latest,
           NEW t \in Thread, NEW r \in ThreadType, thread' = [thread EXCEPT ![t] = r],
           r.at \in {"fetch", "refill", "write", "take"} => slot[r.sender] # NoBucket,
           r.at \in {"refill", "write", "take"} =>
               /\ r.mine \in 1..Len(bucket)
               /\ \A s \in Sender : slot[s] = r.mine => s = r.sender,
           r.at = "write" => /\ r.new.tokens <= Full /\ r.new.last <= latest
                             /\ r.new.tokens - r.new.last <= r.read.tokens - r.read.last,
           \A s \in Sender :
               (r.at \in {"refill", "write", "take"} /\ r.sender = s /\ r.mine # slot[s])
                 <=> (HasBucket(t) /\ thread[t].sender = s /\ thread[t].mine # slot[s])
    PROVE  GatewayInv'
<1>1. GatewayTypeOK /\ BucketsAreOwned /\ WritesAreRefills /\ RateInv
  BY DEF GatewayInv
<1>2. thread'[t] = r /\ thread' \in [Thread -> ThreadType]
      /\ \A u \in Thread : u # t => thread'[u] = thread[u]
  BY <1>1 DEF GatewayTypeOK
<1>3. GatewayTypeOK'
  BY <1>1, <1>2 DEF GatewayTypeOK
<1>4. BucketsAreOwned'
  BY <1>1, <1>2 DEF BucketsAreOwned, HasBucket
<1>5. WritesAreRefills'
  <2> SUFFICES ASSUME NEW u \in Thread, thread'[u].at = "write"
               PROVE  /\ thread'[u].new.tokens <= Full /\ thread'[u].new.last <= latest'
                      /\ thread'[u].new.tokens - thread'[u].new.last
                            <= thread'[u].read.tokens - thread'[u].read.last
    BY DEF WritesAreRefills, Full
  <2>1. thread'[u] \in ThreadType
    BY <1>2
  <2>2. thread'[u].new.last \in Nat
    BY <2>1 DEF ThreadType, BucketType
  <2>3. latest \in Nat /\ latest' \in Nat /\ latest <= latest'
    BY <1>1 DEF GatewayTypeOK
  <2>4. thread'[u].new.last <= latest
    BY <1>1, <1>2 DEF WritesAreRefills
  <2>5. thread'[u].new.last <= latest'
    BY <2>2, <2>3, <2>4
  <2> QED
    BY <1>1, <1>2, <2>5 DEF WritesAreRefills
<1>6. RateInv'
  <2>1. ASSUME NEW s \in Sender PROVE RateOf(s)'
    <3>1. Astray(s)' = Astray(s)
      BY <1>2 DEF Astray, HasBucket
    <3>2. overlaps[s] \in Nat
      BY <1>1 DEF GatewayTypeOK
    <3>3. slot[s] # NoBucket => slot[s] \in 1..Len(bucket)
      BY <1>1 DEF GatewayTypeOK, BucketsAreOwned, NoBucket
    <3>4. slot[s] # NoBucket => bucket[slot[s]] \in BucketType
      BY <1>1, <3>3 DEF GatewayTypeOK
    <3>5. slot[s] # NoBucket =>
            bucket[slot[s]].tokens - bucket[slot[s]].last
                <= bucket[slot[s]].tokens - bucket[slot[s]].last
      BY <3>4 DEF BucketType
    <3> QED
      BY <1>3, <3>1, <3>2, <3>3, <3>5, QuietSender
  <2>2. ASSUME NEW i \in 1..Len(bucket')
        PROVE  bucket'[i].tokens <= Full /\ bucket'[i].last <= latest'
    <3>1. bucket[i] \in BucketType
      BY <1>1 DEF GatewayTypeOK
    <3>2. bucket[i].tokens <= Full /\ bucket[i].last <= latest /\ bucket[i].last \in Nat
      BY <1>1, <3>1 DEF RateInv, BucketType
    <3> QED
      BY <1>1, <3>2 DEF GatewayTypeOK
  <2> QED
    BY <2>1, <2>2 DEF RateInv, RateOf
<1> QED
  BY <1>3, <1>4, <1>5, <1>6 DEF GatewayInv

LEMMA ReceiveStep ==
    ASSUME GatewayInv, NEW t \in Thread, NEW s \in Sender, Receive(t, s)
    PROVE  GatewayInv'
<1> DEFINE r == [at |-> IF slot[s] = NoBucket THEN "create" ELSE "fetch", sender |-> s]
<1>1. r \in ThreadType /\ r.sender = s /\ r.at \in {"create", "fetch"}
      /\ (r.at = "fetch" => slot[s] # NoBucket)
  BY DEF ThreadType
<1>2. thread' = [thread EXCEPT ![t] = r] /\ ~HasBucket(t)
  BY DEF Receive, HasBucket
<1>3. /\ UNCHANGED <<bucket, slot, accepted, overlaps>>
      /\ received' \in [Sender -> Nat]
      /\ clock' \in Nat /\ latest' \in Nat /\ clock' <= latest' /\ latest' >= latest
  BY DEF Receive, GatewayInv, GatewayTypeOK
<1> HIDE DEF r
<1> QED
  BY <1>1, <1>2, <1>3, ThreadStep

LEMMA FetchStep ==
    ASSUME GatewayInv, NEW t \in Thread, Fetch(t)
    PROVE  GatewayInv'
<1> DEFINE me == thread[t]
           r  == [at |-> "refill", sender |-> me.sender, mine |-> slot[me.sender]]
<1>1. GatewayTypeOK /\ BucketsAreOwned /\ me.at = "fetch" /\ me.sender \in Sender
  BY ThreadFields DEF Fetch, GatewayInv
<1>2. slot[me.sender] \in Nat /\ slot[me.sender] \in 1..Len(bucket)
  BY <1>1 DEF GatewayTypeOK, BucketsAreOwned, NoBucket
<1>3. r \in ThreadType /\ r.at = "refill" /\ r.sender = me.sender /\ r.mine = slot[me.sender]
  BY <1>1, <1>2 DEF ThreadType
<1>4. thread' = [thread EXCEPT ![t] = r] /\ ~HasBucket(t)
  BY DEF Fetch, HasBucket
<1>5. /\ UNCHANGED <<bucket, slot, accepted, overlaps>>
      /\ received' \in [Sender -> Nat]
      /\ clock' \in Nat /\ latest' \in Nat /\ clock' <= latest' /\ latest' >= latest
  BY DEF Fetch, GatewayInv, GatewayTypeOK
<1>6. slot[r.sender] # NoBucket /\ \A s \in Sender : slot[s] = r.mine => s = r.sender
  BY <1>1, <1>2, <1>3 DEF BucketsAreOwned, NoBucket
<1> HIDE DEF r
<1>7. \A s \in Sender :
        (r.at \in {"refill", "write", "take"} /\ r.sender = s /\ r.mine # slot[s])
          <=> (HasBucket(t) /\ thread[t].sender = s /\ thread[t].mine # slot[s])
  BY <1>3, <1>4
<1>8. r.mine \in 1..Len(bucket) /\ r.at # "write"
  BY <1>2, <1>3
<1> HIDE DEF me
<1> QED
  BY <1>3, <1>4, <1>5, <1>6, <1>7, <1>8, ThreadStep

\* A refill gains no more than the clock has advanced since the last one.
LEMMA RefillStep ==
    ASSUME GatewayInv, NEW t \in Thread, Refill(t)
    PROVE  GatewayInv'
<1> DEFINE me == thread[t]
           b  == bucket[me.mine]
           n  == [tokens |-> Refilled(b), last |-> clock]
           r  == [at |-> "write", sender |-> me.sender, mine |-> me.mine, read |-> b, new |-> n]
<1>1. GatewayTypeOK /\ BucketsAreOwned /\ RateInv /\ me.at = "refill" /\ HasBucket(t)
      /\ me.sender \in Sender /\ me.mine \in 1..Len(bucket)
      /\ slot[me.sender] # NoBucket
      /\ \A s \in Sender : slot[s] = me.mine => s = me.sender
  BY ThreadFields DEF Refill, GatewayInv, HasBucket, BucketsAreOwned
<1>2. b \in BucketType /\ clock \in Nat /\ clock <= latest /\ Full \in Nat
  BY <1>1, GatewayNumbers DEF GatewayTypeOK
<1>3. b.tokens \in Int /\ b.last \in Nat
  BY <1>2 DEF BucketType
<1>4. Refilled(b) \in Int /\ Refilled(b) <= Full /\ Refilled(b) - clock <= b.tokens - b.last
  BY <1>2, <1>3 DEF Refilled
<1>5. n \in BucketType /\ n.tokens = Refilled(b) /\ n.last = clock
  BY <1>2, <1>4 DEF BucketType
<1>6. thread' = [thread EXCEPT ![t] = r]
  BY DEF Refill
<1>7. /\ UNCHANGED <<bucket, slot, accepted, overlaps>>
      /\ received' \in [Sender -> Nat]
      /\ clock' \in Nat /\ latest' \in Nat /\ clock' <= latest' /\ latest' >= latest
  BY DEF Refill, GatewayInv, GatewayTypeOK
<1> HIDE DEF b, n
<1>8. /\ r \in ThreadType /\ r.at = "write" /\ r.sender = me.sender /\ r.mine = me.mine
      /\ r.read = b /\ r.new = n
  BY <1>1, <1>2, <1>5 DEF ThreadType
<1> HIDE DEF r
<1>9. r.new.tokens <= Full /\ r.new.last <= latest
      /\ r.new.tokens - r.new.last <= r.read.tokens - r.read.last
  BY <1>2, <1>4, <1>5, <1>8
<1>10. \A s \in Sender :
        (r.at \in {"refill", "write", "take"} /\ r.sender = s /\ r.mine # slot[s])
          <=> (HasBucket(t) /\ thread[t].sender = s /\ thread[t].mine # slot[s])
  BY <1>1, <1>8
<1>11. /\ r.mine \in 1..Len(bucket) /\ slot[r.sender] # NoBucket
       /\ \A s \in Sender : slot[s] = r.mine => s = r.sender
  BY <1>1, <1>8
<1> HIDE DEF me
<1> QED
  BY <1>6, <1>7, <1>8, <1>9, <1>10, <1>11, ThreadStep

LEMMA ClockStep ==
    ASSUME GatewayInv, Tick \/ SetBack
    PROVE  GatewayInv'
<1>1. GatewayTypeOK /\ UNCHANGED <<bucket, slot, thread, accepted, overlaps, received>>
  BY DEF GatewayInv, Tick, SetBack
<1>2. clock' \in Nat /\ latest' \in Nat /\ clock' <= latest' /\ latest' >= latest
  BY <1>1 DEF Tick, SetBack, GatewayTypeOK
<1>3. GatewayTypeOK'
  BY <1>1, <1>2 DEF GatewayTypeOK
<1>4. BucketsAreOwned'
  BY <1>1 DEF GatewayInv, BucketsAreOwned, HasBucket
<1>5. WritesAreRefills'
  <2> SUFFICES ASSUME NEW u \in Thread, thread[u].at = "write"
               PROVE  thread[u].new.last <= latest'
    BY <1>1 DEF GatewayInv, WritesAreRefills, Full
  <2>1. thread[u].new \in BucketType /\ thread[u].new.last <= latest
    BY <1>1, ThreadFields DEF GatewayInv, WritesAreRefills
  <2> QED
    BY <1>1, <1>2, <2>1 DEF BucketType, GatewayTypeOK
<1>6. ASSUME NEW s \in Sender PROVE RateOf(s)'
  <2>1. Astray(s)' = Astray(s)
    BY <1>1 DEF Astray, HasBucket
  <2>2. slot[s] # NoBucket => slot[s] \in 1..Len(bucket)
    BY <1>1 DEF GatewayInv, GatewayTypeOK, BucketsAreOwned, NoBucket
  <2>3. slot[s] # NoBucket => bucket[slot[s]] \in BucketType
    BY <1>1, <2>2 DEF GatewayTypeOK
  <2>4. slot[s] # NoBucket =>
          bucket[slot[s]].tokens - bucket[slot[s]].last
              <= bucket[slot[s]].tokens - bucket[slot[s]].last
    BY <2>3 DEF BucketType
  <2>5. overlaps[s] \in Nat
    BY <1>1 DEF GatewayTypeOK
  <2> QED
    BY <1>1, <1>2, <1>3, <2>1, <2>2, <2>4, <2>5, QuietSender
<1>7. ASSUME NEW i \in 1..Len(bucket)
      PROVE  bucket[i].tokens <= Full /\ bucket[i].last <= latest'
  <2>1. bucket[i] \in BucketType /\ bucket[i].tokens <= Full /\ bucket[i].last <= latest
    BY <1>1 DEF GatewayInv, GatewayTypeOK, RateInv
  <2> QED
    BY <1>1, <1>2, <2>1 DEF BucketType, GatewayTypeOK
<1>8. RateInv'
  BY <1>1, <1>6, <1>7 DEF RateInv, RateOf
<1> QED
  BY <1>3, <1>4, <1>5, <1>8 DEF GatewayInv

\* A second bucket costs what the first one gave, and an answer of every thread
\* that still has the first.
LEMMA CreateStep ==
    ASSUME GatewayInv, NEW t \in Thread, Create(t)
    PROVE  GatewayInv'
<1>0. PICK o \in Sender : o = thread[t].sender
  BY ThreadFields DEF GatewayInv, Create
<1> DEFINE me   == thread[t]
           n    == Len(bucket) + 1
           made == [tokens |-> Full, last |-> clock]
<1>1. GatewayTypeOK /\ BucketsAreOwned /\ WritesAreRefills /\ RateInv
  BY DEF GatewayInv
<1>2. me.at = "create" /\ ~HasBucket(t) /\ me \in ThreadType
  BY <1>1 DEF Create, HasBucket, GatewayTypeOK
<1>3. made \in BucketType /\ made.tokens = Full /\ made.last = clock /\ clock \in Nat
      /\ clock <= latest /\ latest \in Nat /\ Full \in Nat
  BY <1>1, GatewayNumbers DEF BucketType, GatewayTypeOK
<1>4. /\ bucket' = Append(bucket, made) /\ slot' = [slot EXCEPT ![o] = n]
      /\ thread' = [thread EXCEPT ![t].at = "fetch"]
      /\ UNCHANGED <<clock, latest, received, accepted>>
      /\ overlaps' = IF slot[o] # NoBucket THEN [overlaps EXCEPT ![o] = @ + 1] ELSE overlaps
  BY <1>0 DEF Create
<1>5. bucket \in Seq(BucketType) /\ n \in Nat /\ n > 0 /\ Len(bucket) \in Nat
  BY <1>1 DEF GatewayTypeOK
<1> HIDE DEF made
<1>6. /\ bucket' \in Seq(BucketType) /\ Len(bucket') = n
      /\ bucket'[n] = made /\ \A i \in 1..Len(bucket) : bucket'[i] = bucket[i]
  BY <1>3, <1>4, <1>5
<1>7. /\ slot' \in [Sender -> Nat] /\ slot'[o] = n
      /\ \A s \in Sender : s # o => slot'[s] = slot[s]
  BY <1>1, <1>2, <1>4, <1>5 DEF GatewayTypeOK
<1>8. /\ thread' \in [Thread -> ThreadType]
      /\ thread'[t].at = "fetch" /\ thread'[t].sender = o
      /\ \A u \in Thread : u # t => thread'[u] = thread[u]
  <2>1. me \in [at : {"create", "fetch"}, sender : Sender]
    BY <1>2 DEF ThreadType
  <2>2. [me EXCEPT !.at = "fetch"] \in [at : {"create", "fetch"}, sender : Sender]
        /\ [me EXCEPT !.at = "fetch"].at = "fetch" /\ [me EXCEPT !.at = "fetch"].sender = o
    BY <1>0, <2>1
  <2>3. [me EXCEPT !.at = "fetch"] \in ThreadType
    BY <2>2 DEF ThreadType
  <2>4. thread' = [thread EXCEPT ![t] = [me EXCEPT !.at = "fetch"]]
    BY <1>4
  <2> QED
    BY <1>1, <2>2, <2>3, <2>4 DEF GatewayTypeOK
<1>9. overlaps' \in [Sender -> Nat] /\ \A s \in Sender : s # o => overlaps'[s] = overlaps[s]
  BY <1>1, <1>2, <1>4 DEF GatewayTypeOK
<1>10. GatewayTypeOK'
  BY <1>1, <1>4, <1>6, <1>7, <1>8, <1>9 DEF GatewayTypeOK
<1>11. \A u \in Thread : /\ HasBucket(u)' <=> HasBucket(u)
                         /\ HasBucket(u) => /\ thread'[u] = thread[u]
                                            /\ thread[u].mine \in 1..Len(bucket)
                                            /\ thread[u].sender \in Sender
                                            /\ slot[thread[u].sender] # NoBucket
  BY <1>1, <1>2, <1>8, ThreadFields DEF HasBucket, BucketsAreOwned
<1>12. \A s \in Sender : slot[s] \in Nat /\ slot[s] <= Len(bucket)
  BY <1>1 DEF BucketsAreOwned, GatewayTypeOK
<1>13. BucketsAreOwned'
  <2>1. \A s \in Sender : slot'[s] <= Len(bucket')
    BY <1>5, <1>6, <1>7, <1>12
  <2>2. \A s, p \in Sender : slot'[s] = slot'[p] /\ slot'[s] # NoBucket => s = p
    BY <1>1, <1>5, <1>7, <1>12 DEF BucketsAreOwned
  <2>3. ASSUME NEW u \in Thread, thread'[u].at \in {"fetch", "refill", "write", "take"}
        PROVE  slot'[thread'[u].sender] # NoBucket
    <3>1. CASE u = t
      BY <1>5, <1>7, <1>8, <3>1 DEF NoBucket
    <3>2. CASE u # t
      BY <1>1, <1>5, <1>7, <1>8, <2>3, <3>2, ThreadFields DEF BucketsAreOwned, NoBucket
    <3> QED
      BY <3>1, <3>2
  <2>4. ASSUME NEW u \in Thread, HasBucket(u)'
        PROVE  /\ thread'[u].mine \in 1..Len(bucket')
               /\ \A s \in Sender : slot'[s] = thread'[u].mine => s = thread'[u].sender
    <3>1. HasBucket(u) /\ thread'[u] = thread[u] /\ thread[u].mine \in 1..Len(bucket)
      BY <1>11, <2>4
    <3>2. thread[u].mine \in 1..n /\ thread[u].mine # n
      BY <1>5, <3>1
    <3> QED
      BY <1>1, <1>6, <1>7, <3>1, <3>2 DEF BucketsAreOwned
  <2> QED
    BY <2>1, <2>2, <2>3, <2>4 DEF BucketsAreOwned
<1>14. WritesAreRefills'
  BY <1>1, <1>4, <1>8 DEF WritesAreRefills, Full
<1>15. ASSUME NEW s \in Sender, s # o PROVE RateOf(s)'
  <2>1. Astray(s)' = Astray(s)
    BY <1>7, <1>11, <1>15 DEF Astray
  <2>2. slot[s] # NoBucket => slot[s] \in 1..Len(bucket) /\ slot[s] \in 1..Len(bucket')
    BY <1>5, <1>6, <1>12 DEF NoBucket
  <2>3. slot[s] # NoBucket =>
          bucket'[slot[s]].tokens - bucket'[slot[s]].last
              <= bucket[slot[s]].tokens - bucket[slot[s]].last
    <3>1. slot[s] # NoBucket => bucket[slot[s]] \in BucketType /\ bucket'[slot[s]] = bucket[slot[s]]
      BY <1>5, <1>6, <2>2
    <3> QED
      BY <3>1 DEF BucketType
  <2>4. latest' >= latest /\ overlaps'[s] >= overlaps[s] /\ accepted'[s] = accepted[s]
        /\ slot'[s] = slot[s]
    BY <1>1, <1>3, <1>4, <1>7, <1>9, <1>15 DEF GatewayTypeOK
  <2> QED
    BY <1>10, <2>1, <2>2, <2>3, <2>4, QuietSender
<1>16. RateOf(o)'
  <2> DEFINE gone == Cardinality(Astray(o)')
  <2>1. Astray(o)' \subseteq Thread
    BY DEF Astray
  <2>2. gone * Unit \in Nat /\ gone * Unit <= Cardinality(Thread) * Unit
    BY <2>1, ThreadSubset
  <2>3. Spent(o)' = accepted[o] * Unit + gone * Unit
    BY <1>4 DEF Spent
  <2>4. accepted[o] * Unit \in Nat /\ Spent(o) = accepted[o] * Unit + Cardinality(Astray(o)) * Unit
        /\ Cardinality(Astray(o)) * Unit \in Nat
    BY <1>1, <1>2, GatewayNumbers DEF Spent
  <2>5. latest' >= latest /\ overlaps'[o] \in Nat /\ overlaps'[o] >= overlaps[o]
    BY <1>1, <1>2, <1>3, <1>4 DEF GatewayTypeOK
  <2>6. /\ Allowance(o) \in Nat /\ Allowance(o)' \in Nat /\ Allowance(o)' >= Allowance(o)
        /\ overlaps'[o] > overlaps[o] => Allowance(o)' >= Allowance(o) + PerOverlap'
    BY <1>1, <1>2, <1>10, <2>5, AllowanceGrows
  <2>7. Allowance(o) >= Full
    BY <1>1, <1>2, <1>3, GatewayNumbers DEF Allowance
  <2>8. PerOverlap' = Full + latest + Cardinality(Thread) * Unit /\ Cardinality(Thread) * Unit \in Nat
    BY <1>1, <1>4, GatewayNumbers DEF PerOverlap
  <2>9. bucket'[slot'[o]].tokens = Full /\ bucket'[slot'[o]].last = clock /\ slot'[o] # NoBucket
    BY <1>3, <1>5, <1>6, <1>7 DEF NoBucket
  <2> HIDE DEF gone
  <2>10. CASE slot[o] = NoBucket
    <3>1. Astray(o)' = {}
      BY <1>11, <2>10 DEF Astray
    <3>2. gone * Unit = 0
      BY <3>1, FS_EmptySet, GatewayAssumption DEF gone
    <3>3. accepted[o] * Unit = 0
      BY <1>1, <1>2, <2>10, GatewayAssumption DEF RateInv
    <3> QED
      BY <1>3, <1>4, <2>3, <2>6, <2>7, <2>9, <3>2, <3>3 DEF RateOf
  <2>11. CASE slot[o] # NoBucket
    <3>1. overlaps'[o] > overlaps[o]
      BY <1>1, <1>2, <1>4, <2>11 DEF GatewayTypeOK
    <3>2. Spent(o) <= Allowance(o) + latest
      BY <1>1, <1>2 DEF RateInv
    <3>3. Spent(o)' + Full - clock <= Allowance(o)' /\ Spent(o)' <= Allowance(o)' + latest
      BY <1>3, <2>2, <2>3, <2>4, <2>6, <2>8, <3>1, <3>2
    <3> QED
      BY <1>4, <2>9, <3>3 DEF RateOf
  <2> QED
    BY <2>10, <2>11
<1>17. ASSUME NEW i \in 1..Len(bucket')
       PROVE  bucket'[i].tokens <= Full /\ bucket'[i].last <= latest'
  <2>1. CASE i = n
    BY <1>3, <1>4, <1>6, <2>1
  <2>2. CASE i # n
    <3>1. i \in 1..Len(bucket)
      BY <1>5, <1>6, <2>2
    <3> QED
      BY <1>1, <1>4, <1>6, <3>1 DEF RateInv
  <2> QED
    BY <2>1, <2>2
<1>18. RateInv'
  BY <1>15, <1>16, <1>17 DEF RateInv, RateOf, Full
<1> QED
  BY <1>10, <1>13, <1>14, <1>18 DEF GatewayInv

\* The numbers of a thread's step that may write over another thread's work.
LEMMA WriteStep ==
    ASSUME GatewayInv, NEW t \in Thread, Write(t)
    PROVE  GatewayInv'
<1>0. PICK o \in Sender : o = thread[t].sender
  BY ThreadFields DEF GatewayInv, Write
<1>1. GatewayTypeOK /\ BucketsAreOwned /\ WritesAreRefills /\ RateInv
  BY DEF GatewayInv
<1>2. thread[t].at = "write" /\ HasBucket(t)
  BY DEF Write, HasBucket
<1>3. PICK m \in 1..Len(bucket) : m = thread[t].mine
  BY <1>1, <1>2 DEF BucketsAreOwned
<1>4. PICK n \in BucketType : n = thread[t].new
  BY <1>1, <1>2, ThreadFields
<1>5. PICK b \in BucketType : b = thread[t].read
  BY <1>1, <1>2, ThreadFields
<1> DEFINE r == [at |-> "take", sender |-> o, mine |-> m]
<1>6. /\ n.tokens \in Int /\ n.last \in Nat /\ b.tokens \in Int /\ b.last \in Nat
      /\ n.tokens <= Full /\ n.last <= latest /\ n.tokens - n.last <= b.tokens - b.last
  BY <1>1, <1>2, <1>4, <1>5 DEF BucketType, WritesAreRefills
<1>7. /\ bucket' = [bucket EXCEPT ![m] = n]
      /\ thread' = [thread EXCEPT ![t] = r]
      /\ UNCHANGED <<clock, latest, slot, received, accepted>>
      /\ overlaps' = IF bucket[m] # b THEN [overlaps EXCEPT ![o] = @ + 1] ELSE overlaps
  BY <1>0, <1>3, <1>4, <1>5 DEF Write
<1>8. bucket \in Seq(BucketType) /\ clock \in Nat /\ latest \in Nat /\ clock <= latest /\ Full \in Nat
  BY <1>1, GatewayNumbers DEF GatewayTypeOK
<1>9. /\ bucket' \in Seq(BucketType) /\ Len(bucket') = Len(bucket)
      /\ bucket'[m] = n /\ \A i \in 1..Len(bucket) : i # m => bucket'[i] = bucket[i]
  BY <1>7, <1>8
<1>10. r \in ThreadType /\ r.at = "take" /\ r.sender = o /\ r.mine = m
  BY DEF ThreadType
<1> HIDE DEF r
<1>11. /\ thread' \in [Thread -> ThreadType] /\ thread'[t] = r
       /\ \A u \in Thread : u # t => thread'[u] = thread[u]
  BY <1>1, <1>7, <1>10 DEF GatewayTypeOK
<1>12. overlaps' \in [Sender -> Nat] /\ \A s \in Sender : overlaps'[s] >= overlaps[s]
  BY <1>1, <1>7 DEF GatewayTypeOK
<1>13. GatewayTypeOK'
  BY <1>1, <1>7, <1>9, <1>11, <1>12 DEF GatewayTypeOK
<1>14. \A u \in Thread : /\ HasBucket(u)' <=> HasBucket(u)
                         /\ HasBucket(u) => /\ thread'[u].mine = thread[u].mine
                                            /\ thread'[u].sender = thread[u].sender
                         /\ ~HasBucket(u) => thread'[u] = thread[u]
  BY <1>0, <1>2, <1>3, <1>10, <1>11 DEF HasBucket
<1>15. BucketsAreOwned'
  BY <1>1, <1>7, <1>9, <1>14 DEF BucketsAreOwned, HasBucket
<1>16. WritesAreRefills'
  BY <1>1, <1>7, <1>10, <1>11 DEF WritesAreRefills, Full
<1>17. ASSUME NEW s \in Sender PROVE RateOf(s)'
  <2>1. Astray(s)' = Astray(s)
    BY <1>7, <1>14 DEF Astray
  <2>2. slot[s] # NoBucket => slot[s] \in 1..Len(bucket) /\ slot[s] \in 1..Len(bucket')
    BY <1>1, <1>9 DEF GatewayTypeOK, BucketsAreOwned, NoBucket
  <2>3. latest' >= latest /\ overlaps'[s] >= overlaps[s] /\ accepted'[s] = accepted[s]
        /\ slot'[s] = slot[s] /\ latest' = latest /\ overlaps'[s] \in Nat
    BY <1>1, <1>7, <1>8, <1>12 DEF GatewayTypeOK
  <2>4. CASE slot[s] # m \/ bucket[m] = b
    <3>1. slot[s] # NoBucket =>
            bucket'[slot[s]].tokens - bucket'[slot[s]].last
                <= bucket[slot[s]].tokens - bucket[slot[s]].last
      <4>1. CASE slot[s] # m
        <5>1. slot[s] # NoBucket =>
                bucket[slot[s]] \in BucketType /\ bucket'[slot[s]] = bucket[slot[s]]
          BY <1>8, <1>9, <2>2, <4>1
        <5> QED
          BY <5>1 DEF BucketType
      <4>2. CASE slot[s] = m /\ bucket[m] = b
        BY <1>6, <1>9, <4>2
      <4> QED
        BY <2>4, <4>1, <4>2
    <3> QED
      BY <1>13, <2>1, <2>2, <2>3, <3>1, QuietSender
  <2>5. CASE slot[s] = m /\ bucket[m] # b
    <3>1. s = o /\ slot[s] # NoBucket
      BY <1>0, <1>1, <1>2, <1>3, <2>5 DEF BucketsAreOwned, NoBucket
    <3>2. overlaps'[s] > overlaps[s]
      BY <1>1, <1>7, <2>5, <3>1 DEF GatewayTypeOK
    <3>3. /\ Allowance(s) \in Nat /\ Allowance(s)' \in Nat
          /\ Allowance(s)' >= Allowance(s) + PerOverlap'
      BY <1>1, <1>13, <2>3, <3>2, AllowanceGrows
    <3>4. PerOverlap' = PerOverlap /\ PerOverlap \in Nat /\ PerOverlap >= Full + latest
      BY <1>1, <2>3, GatewayNumbers DEF PerOverlap
    <3>5. Spent(s)' = Spent(s) /\ Spent(s) \in Nat /\ Spent(s) <= Allowance(s) + latest
      BY <1>1, <2>1, <2>3, GatewayNumbers DEF Spent, RateInv
    <3>6. /\ Spent(s)' <= Allowance(s)' + latest
          /\ Spent(s)' + n.tokens - n.last <= Allowance(s)'
      <4>1. PICK x, y, z, w \in Nat :
              x = Spent(s)' /\ y = Allowance(s) /\ z = Allowance(s)' /\ w = PerOverlap'
        BY <3>3, <3>4, <3>5
      <4>2. PICK f, l, i \in Nat : f = Full /\ l = latest /\ i = n.last
        BY <1>6, <1>8
      <4>3. PICK k \in Int : k = n.tokens
        BY <1>6
      <4>4. x <= y + l /\ z >= y + w /\ w >= f + l
        BY <3>3, <3>4, <3>5, <4>1, <4>2
      <4>5. k <= f
        BY <1>6, <4>2, <4>3
      <4>6. x <= z + l /\ x + k - i <= z
        BY <4>4, <4>5
      <4> QED
        BY <4>1, <4>2, <4>3, <4>6
    <3>7. bucket'[slot'[s]] = n
      BY <1>9, <2>3, <2>5
    <3> QED
      BY <2>3, <3>1, <3>6, <3>7 DEF RateOf
  <2> QED
    BY <2>4, <2>5
<1>18. ASSUME NEW i \in 1..Len(bucket')
       PROVE  bucket'[i].tokens <= Full /\ bucket'[i].last <= latest'
  BY <1>1, <1>6, <1>7, <1>9 DEF RateInv
<1>19. RateInv'
  BY <1>17, <1>18 DEF RateInv, RateOf, Full
<1> QED
  BY <1>13, <1>15, <1>16, <1>19 DEF GatewayInv

\* An answer costs a token of the bucket that the dictionary has, or it is the
\* one that the thread was allowed for going astray.
LEMMA TakeStep ==
    ASSUME GatewayInv, NEW t \in Thread, Take(t)
    PROVE  GatewayInv'
<1>0. PICK o \in Sender : o = thread[t].sender
  BY ThreadFields DEF GatewayInv, Take
<1>1. GatewayTypeOK /\ BucketsAreOwned /\ WritesAreRefills /\ RateInv
  BY DEF GatewayInv
<1>2. thread[t].at = "take" /\ HasBucket(t)
  BY DEF Take, HasBucket
<1>3. PICK m \in 1..Len(bucket) : m = thread[t].mine
  BY <1>1, <1>2 DEF BucketsAreOwned
<1>4. PICK b \in BucketType : b = bucket[m]
  BY <1>1 DEF GatewayTypeOK
<1>5. /\ b.tokens \in Int /\ b.last \in Nat /\ b.tokens <= Full /\ b.last <= latest
      /\ Unit \in Nat /\ Unit >= 1 /\ Full \in Nat
      /\ bucket \in Seq(BucketType) /\ clock \in Nat /\ latest \in Nat
  BY <1>1, <1>4, GatewayNumbers DEF BucketType, RateInv, GatewayTypeOK
<1> DEFINE answers == b.tokens >= Unit
<1>6. /\ UNCHANGED <<clock, latest, slot, received, overlaps>>
      /\ thread' = [thread EXCEPT ![t] = Idle]
      /\ answers => /\ bucket' = [bucket EXCEPT ![m].tokens = @ - Unit]
                    /\ accepted' = [accepted EXCEPT ![o] = @ + 1]
      /\ ~answers => UNCHANGED <<bucket, accepted>>
  BY <1>0, <1>3, <1>4 DEF Take, HasToken
<1>7. PICK c \in BucketType :
        /\ c.tokens = (IF answers THEN b.tokens - Unit ELSE b.tokens) /\ c.last = b.last
        /\ bucket' = [bucket EXCEPT ![m] = c]
  <2>1. CASE answers
    <3> DEFINE c == [b EXCEPT !.tokens = @ - Unit]
    <3>1. c \in BucketType /\ c.tokens = b.tokens - Unit /\ c.last = b.last
      <4>1. b \in [tokens : Int, last : Nat]
        BY <1>4 DEF BucketType
      <4>2. b.tokens - Unit \in Int
        BY <1>5
      <4> QED
        BY <4>1, <4>2 DEF BucketType
    <3>2. bucket' = [bucket EXCEPT ![m] = c]
      BY <1>4, <1>6, <2>1
    <3> QED
      BY <2>1, <3>1, <3>2
  <2>2. CASE ~answers
    <3>1. bucket' = [bucket EXCEPT ![m] = b]
      BY <1>4, <1>5, <1>6, <2>2
    <3> QED
      BY <2>2, <3>1
  <2> QED
    BY <2>1, <2>2
<1>8. /\ bucket' \in Seq(BucketType) /\ Len(bucket') = Len(bucket)
      /\ bucket'[m] = c /\ \A i \in 1..Len(bucket) : i # m => bucket'[i] = bucket[i]
  BY <1>5, <1>7
<1>9. c.tokens \in Int /\ c.last \in Nat /\ c.tokens <= b.tokens
  BY <1>5, <1>7
<1> HIDE DEF answers
<1>10. Idle \in ThreadType /\ Idle.at = "idle"
  BY DEF Idle, ThreadType
<1>11. /\ thread' \in [Thread -> ThreadType] /\ thread'[t] = Idle
       /\ \A u \in Thread : u # t => thread'[u] = thread[u]
  BY <1>1, <1>6, <1>10 DEF GatewayTypeOK
<1>12. /\ accepted' \in [Sender -> Nat] /\ \A s \in Sender : s # o => accepted'[s] = accepted[s]
       /\ answers => accepted'[o] = accepted[o] + 1
       /\ ~answers => accepted'[o] = accepted[o]
  <2>1. accepted \in [Sender -> Nat]
    BY <1>1 DEF GatewayTypeOK
  <2>2. CASE answers
    <3>1. accepted' = [accepted EXCEPT ![o] = @ + 1]
      BY <1>6, <2>2
    <3> QED
      BY <2>1, <2>2, <3>1
  <2>3. CASE ~answers
    <3>1. accepted' = accepted
      BY <1>6, <2>3
    <3> QED
      BY <2>1, <2>3, <3>1
  <2> QED
    BY <2>2, <2>3
<1>13. GatewayTypeOK'
  BY <1>1, <1>6, <1>8, <1>11, <1>12 DEF GatewayTypeOK
<1>14. ~HasBucket(t)' /\ \A u \in Thread : u # t => (HasBucket(u)' <=> HasBucket(u))
  BY <1>10, <1>11 DEF HasBucket
<1>15. BucketsAreOwned'
  BY <1>1, <1>6, <1>8, <1>10, <1>11 DEF BucketsAreOwned, HasBucket
<1>16. WritesAreRefills'
  BY <1>1, <1>6, <1>10, <1>11 DEF WritesAreRefills, Full
<1>17. latest' = latest /\ latest' >= latest
  BY <1>5, <1>6
<1>18. ASSUME NEW s \in Sender,
              s # o \/ (~answers /\ slot[s] = m)
       PROVE  RateOf(s)'
  <2>1. Astray(s)' = Astray(s)
    BY <1>0, <1>3, <1>6, <1>11, <1>14, <1>18 DEF Astray
  <2>2. slot[s] # NoBucket => slot[s] \in 1..Len(bucket) /\ slot[s] \in 1..Len(bucket')
    BY <1>1, <1>8 DEF GatewayTypeOK, BucketsAreOwned, NoBucket
  <2>3. overlaps'[s] >= overlaps[s] /\ accepted'[s] = accepted[s] /\ slot'[s] = slot[s]
    BY <1>1, <1>6, <1>12, <1>18 DEF GatewayTypeOK
  <2>4. slot[s] # NoBucket =>
            bucket'[slot[s]].tokens - bucket'[slot[s]].last
                <= bucket[slot[s]].tokens - bucket[slot[s]].last
    <3>1. slot[s] # m \/ ~answers
      BY <1>0, <1>1, <1>2, <1>3, <1>18 DEF BucketsAreOwned
    <3>2. slot[s] # NoBucket =>
              bucket[slot[s]] \in BucketType /\ bucket'[slot[s]] = bucket[slot[s]]
      BY <1>5, <1>6, <1>8, <2>2, <3>1
    <3> QED
      BY <3>2 DEF BucketType
  <2> QED
    BY <1>13, <1>17, <2>1, <2>2, <2>3, <2>4, QuietSender
<1>19. Allowance(o)' = Allowance(o) /\ Allowance(o) \in Nat
  BY <1>1, <1>6, GatewayNumbers DEF Allowance, PerOverlap
<1>20. PICK p, q, p1 \in Nat :
         /\ Spent(o) = p + q /\ q = Cardinality(Astray(o)) * Unit
         /\ answers => p1 = p + Unit
         /\ ~answers => p1 = p
         /\ Spent(o)' = p1 + Cardinality(Astray(o)') * Unit
  <2>1. accepted[o] \in Nat /\ accepted'[o] \in Nat
    BY <1>1, <1>12 DEF GatewayTypeOK
  <2>2. Spent(o)' = accepted'[o] * Unit + Cardinality(Astray(o)') * Unit
    BY DEF Spent
  <2>3. (accepted[o] + 1) * Unit = accepted[o] * Unit + Unit
    BY <1>5, <2>1, NatProducts
  <2>4. /\ answers => accepted'[o] * Unit = accepted[o] * Unit + Unit
        /\ ~answers => accepted'[o] * Unit = accepted[o] * Unit
    BY <1>12, <2>3
  <2>5. /\ accepted[o] * Unit \in Nat /\ accepted'[o] * Unit \in Nat
        /\ Cardinality(Astray(o)) * Unit \in Nat
        /\ Spent(o) = accepted[o] * Unit + Cardinality(Astray(o)) * Unit
    BY <1>1, <1>5, <2>1, NatProducts, GatewayNumbers DEF Spent
  <2> QED
    BY <2>2, <2>4, <2>5
<1>21. slot[o] # NoBucket /\ slot'[o] = slot[o] /\ RateOf(o)
  BY <1>0, <1>1, <1>2, <1>6 DEF BucketsAreOwned, RateInv, RateOf
<1>22. ASSUME slot[o] = m, answers PROVE RateOf(o)'
  <2>1. Astray(o)' = Astray(o)
    BY <1>3, <1>6, <1>11, <1>14, <1>22 DEF Astray
  <2>2. Spent(o)' = Spent(o) + Unit /\ Spent(o) \in Nat
    BY <1>5, <1>20, <1>22, <2>1
  <2>3. c.tokens = b.tokens - Unit /\ c.tokens >= 0 /\ c.last = b.last
    BY <1>5, <1>7, <1>22 DEF answers
  <2>4. Spent(o) + b.tokens - b.last <= Allowance(o)
    BY <1>4, <1>21, <1>22 DEF RateOf
  <2>5. Spent(o)' + c.tokens - c.last <= Allowance(o)' /\ Spent(o)' <= Allowance(o)' + latest'
    <3>1. PICK x, y, un, l, i \in Nat :
            x = Spent(o) /\ y = Allowance(o) /\ un = Unit /\ l = latest /\ i = b.last
      BY <1>5, <1>19, <2>2
    <3>2. PICK k \in Int : k = b.tokens
      BY <1>5
    <3>3. x + k - i <= y /\ i <= l /\ k - un >= 0
      BY <1>5, <2>3, <2>4, <3>1, <3>2
    <3>4. (x + un) + (k - un) - i <= y /\ x + un <= y + l
      BY <3>3
    <3>5. Spent(o)' = x + un /\ Allowance(o)' = y /\ c.tokens = k - un /\ c.last = i /\ latest' = l
      BY <1>17, <1>19, <2>2, <2>3, <3>1, <3>2
    <3> QED
      BY <3>4, <3>5
  <2> QED
    BY <1>8, <1>21, <1>22, <2>5 DEF RateOf
<1>23. ASSUME slot[o] # m PROVE RateOf(o)'
  <2> DEFINE k == Cardinality(Astray(o))
  <2>1. t \in Astray(o) /\ Astray(o)' = Astray(o) \ {t}
    BY <1>0, <1>2, <1>3, <1>6, <1>11, <1>14, <1>23 DEF Astray
  <2>2. k \in Nat /\ Cardinality(Astray(o)') = k - 1 /\ k - 1 \in Nat
    <3>1. IsFiniteSet(Astray(o)) /\ k \in Nat
      BY <1>1, GatewayNumbers
    <3>2. Cardinality(Astray(o)') = k - 1 /\ IsFiniteSet(Astray(o)')
      BY <2>1, <3>1, FS_RemoveElement
    <3> QED
      BY <3>1, <3>2, FS_CardinalityType
  <2>3. k * Unit = (k - 1) * Unit + Unit /\ (k - 1) * Unit \in Nat
    <3>1. (k - 1 + 1) * Unit = (k - 1) * Unit + Unit /\ k - 1 + 1 = k
      BY <1>5, <2>2, NatProducts
    <3> QED
      BY <1>5, <2>2, <3>1, NatProducts
  <2>4. Spent(o)' <= Spent(o) /\ Spent(o)' \in Nat /\ Spent(o) \in Nat
    <3>1. PICK j \in Nat : j = (k - 1) * Unit
      BY <2>3
    <3>2. q = j + Unit /\ Spent(o)' = p1 + j
      BY <1>20, <2>2, <2>3, <3>1
    <3>3. PICK un \in Nat : un = Unit
      BY <1>5
    <3>4. Spent(o) = p + q /\ p1 <= p + un
      BY <1>20, <3>3
    <3>5. p + q \in Nat /\ p1 + j \in Nat /\ p1 + j <= p + (j + un)
      BY <3>4
    <3> QED
      BY <3>2, <3>3, <3>4, <3>5
  <2>5. slot[o] \in 1..Len(bucket) /\ bucket'[slot[o]] = bucket[slot[o]]
    BY <1>1, <1>8, <1>21, <1>23 DEF GatewayTypeOK, BucketsAreOwned, NoBucket
  <2>6. bucket[slot[o]].tokens \in Int /\ bucket[slot[o]].last \in Int
    <3>1. bucket[slot[o]] \in BucketType
      BY <1>5, <2>5
    <3> QED
      BY <3>1 DEF BucketType
  <2>7. /\ Spent(o) <= Allowance(o) + latest
        /\ Spent(o) + bucket[slot[o]].tokens - bucket[slot[o]].last <= Allowance(o)
    BY <1>21 DEF RateOf
  <2>8. /\ Spent(o)' <= Allowance(o)' + latest'
        /\ Spent(o)' + bucket[slot[o]].tokens - bucket[slot[o]].last <= Allowance(o)'
    <3>1. PICK d \in Int : d = bucket[slot[o]].tokens - bucket[slot[o]].last
      BY <2>6
    <3>2. Spent(o) + d <= Allowance(o)
      BY <2>4, <2>6, <2>7, <3>1, <1>19
    <3>3. Spent(o)' + d <= Allowance(o)' /\ Spent(o)' <= Allowance(o)' + latest'
      BY <1>5, <1>17, <1>19, <2>4, <2>7, <3>2
    <3> QED
      BY <1>19, <2>4, <2>6, <3>1, <3>3
  <2> QED
    BY <1>21, <2>5, <2>8 DEF RateOf
<1>24. ASSUME NEW s \in Sender PROVE RateOf(s)'
  <2>1. CASE s # o
    BY <1>18, <2>1
  <2>2. CASE s = o
    BY <1>18, <1>22, <1>23, <2>2
  <2> QED
    BY <2>1, <2>2
<1>25. ASSUME NEW i \in 1..Len(bucket')
       PROVE  bucket'[i].tokens <= Full /\ bucket'[i].last <= latest'
  <2>1. CASE i = m
    <3>1. bucket'[i] = c /\ latest' = latest
      BY <1>6, <1>8, <2>1
    <3>2. c.tokens <= b.tokens /\ c.last = b.last
      BY <1>7, <1>9
    <3>3. /\ b.tokens \in Int /\ c.tokens \in Int /\ Full \in Nat
          /\ b.tokens <= Full /\ b.last <= latest
      BY <1>5, <1>9
    <3>4. c.tokens <= Full
      BY <3>2, <3>3
    <3> QED
      BY <3>1, <3>2, <3>3, <3>4
  <2>2. CASE i # m
    BY <1>1, <1>6, <1>8, <2>2 DEF RateInv
  <2> QED
    BY <2>1, <2>2
<1>26. RateInv'
  BY <1>24, <1>25 DEF RateInv, RateOf, Full
<1> QED
  BY <1>13, <1>15, <1>16, <1>26 DEF GatewayInv

LEMMA GatewayInit0 == GatewayInit => GatewayInv
<1> SUFFICES ASSUME GatewayInit PROVE GatewayInv
  OBVIOUS
<1>1. GatewayTypeOK
  BY DEF GatewayInit, GatewayTypeOK, ThreadType, Idle, NoBucket
<1>2. BucketsAreOwned /\ WritesAreRefills /\ \A s \in Sender : Astray(s) = {}
  BY DEF GatewayInit, BucketsAreOwned, WritesAreRefills, HasBucket, Idle, NoBucket, Astray
<1>3. ASSUME NEW s \in Sender
      PROVE  slot[s] = NoBucket /\ accepted[s] = 0 /\ Spent(s) <= Allowance(s) + latest
  <2>1. Cardinality(Astray(s)) = 0 /\ accepted[s] = 0 /\ slot[s] = NoBucket
    BY <1>2, FS_EmptySet DEF GatewayInit
  <2>2. Allowance(s) \in Nat /\ latest \in Nat
    BY <1>1, GatewayNumbers DEF GatewayTypeOK
  <2> QED
    BY <2>1, <2>2, GatewayAssumption DEF Spent
<1>4. RateInv
  BY <1>3 DEF RateInv, GatewayInit
<1> QED
  BY <1>1, <1>2, <1>4 DEF GatewayInv

LEMMA GatewayStep ==
    ASSUME GatewayInv, GatewayNext
    PROVE  GatewayInv'
BY ReceiveStep, CreateStep, FetchStep, RefillStep, WriteStep, TakeStep, ClockStep DEF GatewayNext

LEMMA GatewayInvGivesBound == GatewayInv => RateBound
<1> SUFFICES ASSUME GatewayInv, NEW s \in Sender
             PROVE  accepted[s] * Unit
                      <= Full + overlaps[s] * (Full + latest + Cardinality(Thread) * Unit) + latest
  BY DEF RateBound
<1>1. GatewayTypeOK /\ Spent(s) <= Allowance(s) + latest /\ latest \in Nat
  BY DEF GatewayInv, RateInv, GatewayTypeOK
<1>2. /\ accepted[s] * Unit \in Nat /\ Cardinality(Astray(s)) * Unit \in Nat
      /\ Spent(s) = accepted[s] * Unit + Cardinality(Astray(s)) * Unit
      /\ Allowance(s) \in Nat
  BY <1>1, GatewayNumbers DEF Spent
<1>3. accepted[s] * Unit <= Allowance(s) + latest
  BY <1>1, <1>2
<1> QED
  BY <1>3 DEF Allowance, PerOverlap

-----------------------------------------------------------------------------
\* A turn that was a candidate for a tactic left a flag, and flags are kept.
SessionInv == arc # {} => riskFlags # {}

LEMMA SessionInit0 == SessionInit => SessionInv
BY DEF SessionInit, SessionInv

LEMMA SessionStep ==
    ASSUME SessionInv, NEW x \in Turn, AddTurn(x)
    PROVE  SessionInv'
<1> DEFINE routed == Analysis(x, SessionPriorFlagIds, NoAnswer, NoAnswer).routed
<1>1. /\ riskFlags' = riskFlags \cup {RiskFlagRecord(t) : t \in routed}
      /\ arc' = IF routed = {} THEN arc ELSE arc \cup {turnCount'}
  BY DEF AddTurn
<1> HIDE DEF routed
<1>2. CASE routed = {}
  BY <1>1, <1>2 DEF SessionInv
<1>3. CASE routed # {}
  <2>1. PICK t \in routed : TRUE
    BY <1>3
  <2>2. RiskFlagRecord(t) \in riskFlags'
    BY <1>1, <2>1
  <2> QED
    BY <2>2 DEF SessionInv
<1> QED
  BY <1>2, <1>3

\* Dividing the rounded confidence of a cue of full weight gives its score back.
LEMMA FullWeightKeepsScore ==
    ASSUME NEW s \in Nat
    PROVE  (s * 60 * 400 + 12000) \div 24000 = s
OBVIOUS

\* Where a session has a flag, the session's boost alone lifts a plain request
\* for payment over both thresholds.
LEMMA PaymentSurfaces ==
    ASSUME NEW x \in Turn, AsksForPayment(x), NEW prior, prior # {}
    PROVE  Payment \in Analysis(x, prior, NoAnswer, NoAnswer).surfaced
<1> DEFINE score  == Refined(x, prior, NoAnswer, NoAnswer)
           routed == Routed(x, score)
           conf   == Confidence(x, score, routed)
           s      == score[Payment]
<1>1. /\ Escalates(x) /\ x.hits[Payment] > 0 /\ x.weight[Payment] = 60
      /\ Payment \notin x.negated /\ ~x.hypothetical
      /\ Payment \in Tactic /\ x.hits[Payment] \in Nat
  BY TurnAssumption DEF AsksForPayment, Tactic
<1>2. Payment \in Candidates(x)
  BY <1>1 DEF Candidates, Matched, Payment, Calm
<1>3. s = Cap(TierZeroBase(x, Payment) + Boost(x, prior, Payment))
  BY <1>2 DEF Refined, Blended, NoAnswer
<1>4. TierZeroBase(x, Payment) \in Nat /\ TierZeroBase(x, Payment) >= 2200
  <2>1. Hits(x, Payment) \in Nat /\ Hits(x, Payment) >= 1
    BY <1>1 DEF Hits
  <2> QED
    BY <2>1 DEF TierZeroBase, Cap, One
<1>5. Boost(x, prior, Payment) \in Nat /\ Boost(x, prior, Payment) >= 2000
  BY DEF Boost
<1>6. s \in Nat /\ s >= 4200
  BY <1>3, <1>4, <1>5 DEF Cap, One
<1>7. Exclusive(Payment) = {}
  BY DEF Exclusive, Payment, Urgency
<1>8. Payment \in routed
  BY <1>1, <1>2, <1>7 DEF Routed, Contradicted
<1>9. Entailed(x, score, Payment) = s
  <2>1. Penalty(x, Payment) = 400
    BY <1>1 DEF Penalty
  <2>2. Entailed(x, score, Payment) = (s * 60 * 400 + 12000) \div 24000
    BY <1>1, <2>1 DEF Entailed
  <2> HIDE DEF s
  <2> QED
    BY <1>6, <2>2, FullWeightKeepsScore
<1> HIDE DEF s, routed, score
<1>10. conf[Payment] = s /\ DOMAIN conf = routed
  BY <1>6, <1>8, <1>9 DEF Confidence, EntailmentCeiling
<1> HIDE DEF conf
<1>11. Payment \in Surfaced(conf)
  BY <1>6, <1>7, <1>8, <1>10 DEF Surfaced, EntailmentCeiling, UserFacingFloor
<1> QED
  BY <1>11 DEF Analysis, conf, routed, score

LEMMA SessionInvGivesArc == SessionInv => PaymentArcSurfaces
<1> SUFFICES ASSUME SessionInv, arc # {}, NEW x \in Turn, AsksForPayment(x)
             PROVE  Payment \in Analysis(x, SessionPriorFlagIds, NoAnswer, NoAnswer).surfaced
  BY DEF PaymentArcSurfaces
<1>1. SessionPriorFlagIds # {}
  BY DEF SessionInv, SessionPriorFlagIds
<1> QED
  BY <1>1, PaymentSurfaces

-----------------------------------------------------------------------------
\* What lay there when an untroubled request was looked up still does, and one of
\* two is what a local provider chooses; what left the server found neither.
ExplainTypeOK ==
    /\ weights \subseteq Tier
    /\ keyed \in BOOLEAN
    /\ request \in [Excerpt -> {"none", "asked", "looking", "local", "chosen", "cloud", "load",
                                "infer", "explained", "refused"}]
    /\ path \in [Excerpt -> Tier]
    /\ seen \in [Excerpt -> SUBSET Tier]

SawWhatIsThere ==
    \A r \in Excerpt :
        /\ request[r] \in {"none", "asked", "looking"} => r \notin sent
        /\ r \in sent => seen[r] = {}
        /\ request[r] = "looking" => 2 \notin seen[r] /\ seen[r] \subseteq weights
        /\ request[r] \in {"looking", "local", "chosen"} /\ r \notin troubled => seen[r] = weights
        /\ request[r] = "local" /\ r \notin troubled => weights # {}
        /\ request[r] = "chosen" /\ r \notin troubled => path[r] \in weights

ExplainInv == ExplainTypeOK /\ SawWhatIsThere /\ RefusedOrSentForCause

LEMMA ExplainInit0 == ExplainInit => ExplainInv
BY DEF ExplainInit, ExplainInv, ExplainTypeOK, SawWhatIsThere, RefusedOrSentForCause, Tier

\* The larger weights are looked for first.
LEMMA LookForLargerStep ==
    ASSUME ExplainInv, NEW r \in Excerpt, LookForLarger(r)
    PROVE  ExplainInv'
<1>1. /\ UNCHANGED <<keyed, weights, path, sent, troubled>> /\ request[r] = "asked"
      /\ seen' = [seen EXCEPT ![r] = weights]
  BY DEF LookForLarger
<1>2. \/ 2 \in weights /\ request' = [request EXCEPT ![r] = "local"]
      \/ 2 \notin weights /\ request' = [request EXCEPT ![r] = "looking"]
  BY DEF LookForLarger, Available
<1>3. ExplainTypeOK'
  BY <1>1, <1>2 DEF ExplainInv, ExplainTypeOK
<1>4. SawWhatIsThere' /\ RefusedOrSentForCause'
  BY <1>1, <1>2 DEF ExplainInv, ExplainTypeOK, SawWhatIsThere, RefusedOrSentForCause
<1> QED
  BY <1>3, <1>4 DEF ExplainInv

\* Where the smaller are missing too, nothing lay there all the while.
LEMMA BuildProviderStep ==
    ASSUME ExplainInv, NEW r \in Excerpt, BuildProvider(r)
    PROVE  ExplainInv'
<1>1. UNCHANGED <<keyed, weights, path, seen, troubled>> /\ request[r] = "looking"
  BY DEF BuildProvider
<1>2. /\ seen[r] \subseteq weights /\ seen[r] \subseteq Tier /\ 2 \notin seen[r]
      /\ r \notin troubled => seen[r] = weights
  BY <1>1 DEF ExplainInv, ExplainTypeOK, SawWhatIsThere
<1>3. 1 \notin weights => seen[r] = {}
  BY <1>2 DEF Tier
<1>4. \/ 1 \in weights /\ request' = [request EXCEPT ![r] = "local"] /\ sent' = sent
      \/ seen[r] = {} /\ keyed /\ request' = [request EXCEPT ![r] = "cloud"] /\ sent' = sent \cup {r}
      \/ seen[r] = {} /\ ~keyed /\ request' = [request EXCEPT ![r] = "refused"] /\ sent' = sent
  BY <1>3 DEF BuildProvider, Refused, Available
<1>5. ExplainTypeOK'
  BY <1>1, <1>4 DEF ExplainInv, ExplainTypeOK
<1>6. SawWhatIsThere'
  BY <1>1, <1>2, <1>4 DEF ExplainInv, ExplainTypeOK, SawWhatIsThere
<1>7. RefusedOrSentForCause'
  BY <1>1, <1>4 DEF ExplainInv, ExplainTypeOK, RefusedOrSentForCause
<1> QED
  BY <1>5, <1>6, <1>7 DEF ExplainInv

\* The local provider looks at the disk for itself, and finds what was seen,
LEMMA ChoosePathStep ==
    ASSUME ExplainInv, NEW r \in Excerpt, ChoosePath(r)
    PROVE  ExplainInv'
<1>1. /\ UNCHANGED <<keyed, weights, seen, sent, troubled>> /\ request[r] = "local"
      /\ request' = [request EXCEPT ![r] = "chosen"] /\ path' = [path EXCEPT ![r] = ModelPath]
  BY DEF ChoosePath
<1>2. ModelPath \in Tier /\ (weights # {} => ModelPath \in weights)
  BY DEF ExplainInv, ExplainTypeOK, Available, ModelPath, Tier
<1>3. ExplainTypeOK'
  BY <1>1, <1>2 DEF ExplainInv, ExplainTypeOK
<1>4. SawWhatIsThere' /\ RefusedOrSentForCause'
  BY <1>1, <1>2 DEF ExplainInv, ExplainTypeOK, SawWhatIsThere, RefusedOrSentForCause
<1> QED
  BY <1>3, <1>4 DEF ExplainInv

\* twice.
LEMMA CheckPathStep ==
    ASSUME ExplainInv, NEW r \in Excerpt, CheckPath(r)
    PROVE  ExplainInv'
<1>1. UNCHANGED <<keyed, weights, path, seen, sent, troubled>> /\ request[r] = "chosen"
  BY DEF CheckPath
<1>2. r \notin troubled => path[r] \in weights
  BY <1>1 DEF ExplainInv, SawWhatIsThere
<1>3. \/ request' = [request EXCEPT ![r] = "load"]
      \/ r \in troubled /\ request' = [request EXCEPT ![r] = "refused"]
  BY <1>2 DEF CheckPath, Refused, Available
<1>4. ExplainTypeOK'
  BY <1>1, <1>3 DEF ExplainInv, ExplainTypeOK
<1>5. SawWhatIsThere' /\ RefusedOrSentForCause'
  BY <1>1, <1>3 DEF ExplainInv, ExplainTypeOK, SawWhatIsThere, RefusedOrSentForCause
<1> QED
  BY <1>4, <1>5 DEF ExplainInv

LEMMA ExplainStep ==
    ASSUME ExplainInv, ExplainNext
    PROVE  ExplainInv'
<1> USE DEF ExplainInv, ExplainTypeOK, SawWhatIsThere, RefusedOrSentForCause
<1>1. ASSUME NEW r \in Excerpt, Ask(r) PROVE ExplainInv'
  BY <1>1 DEF Ask
<1>2. ASSUME NEW r \in Excerpt, Load(r) \/ Explained(r) PROVE ExplainInv'
  BY <1>2 DEF Load, Explained
<1>3. ASSUME NEW r \in Excerpt, ProviderFails(r) PROVE ExplainInv'
  BY <1>3 DEF ProviderFails, Refused
<1>4. CASE CascadeLoads
  BY <1>4 DEF CascadeLoads
<1>5. ASSUME NEW t \in Tier, ChangeWeights(t) PROVE ExplainInv'
  BY <1>5 DEF ChangeWeights, UnderWay
<1> QED
  BY <1>1, <1>2, <1>3, <1>4, <1>5,
     LookForLargerStep, BuildProviderStep, ChoosePathStep, CheckPathStep DEF ExplainNext

-----------------------------------------------------------------------------
\* The transcript: messages of two senders, at any times.
Message == [sender : {"caller", "victim"}, short : BOOLEAN, at : Int]

TranscriptInv == raw \in Seq(Message)

\* One sender wrote the messages from i to j in quick succession, and all but
\* the last of them are short.
OneTurn(i, j) ==
    \A k \in i..j - 1 :
        /\ raw[k].short /\ raw[k].sender = raw[j].sender
        /\ raw[k + 1].at <= raw[k].at + BurstWindow

\* f gives the sequences of seqs, joined up to each.
Flattens(f, seqs) ==
    f = [i \in 1..Len(seqs) |-> IF i = 1 THEN seqs[i] ELSE f[i - 1] \o seqs[i]]

\* The joined sequences are what any function with the joining's equation gives.
LEMMA FlattenIs ==
    ASSUME NEW seqs, Len(seqs) \in Nat, Len(seqs) > 0, NEW f, Flattens(f, seqs)
    PROVE  FlattenSeq(seqs) = f[Len(seqs)]
<1> DEFINE g == CHOOSE h : Flattens(h, seqs)
<1>1. Flattens(g, seqs)
  <2> HIDE DEF Flattens
  <2> QED
    OBVIOUS
<1>2. FlattenSeq(seqs) = g[Len(seqs)]
  BY DEF FlattenSeq, Flattens
<1> HIDE DEF g
<1> DEFINE Apart == {i \in 1..Len(seqs) : g[i] # f[i]}
<1>3. SUFFICES ASSUME Apart # {} PROVE FALSE
  BY <1>2
<1>4. PICK i \in Apart : \A k \in Apart : i <= k
  <2>1. Apart \subseteq Nat
    OBVIOUS
  <2> HIDE DEF Apart
  <2> QED
    BY <1>3, <2>1, SmallestOf
<1>5. \A k \in 1..Len(seqs) : /\ g[k] = IF k = 1 THEN seqs[k] ELSE g[k - 1] \o seqs[k]
                              /\ f[k] = IF k = 1 THEN seqs[k] ELSE f[k - 1] \o seqs[k]
  BY <1>1, Zenon DEF Flattens
<1>6. i # 1 /\ i - 1 \in 1..Len(seqs) /\ g[i - 1] # f[i - 1]
  BY <1>4, <1>5
<1>7. i <= i - 1
  BY <1>4, <1>6
<1> QED
  BY <1>7, <1>4

\* The first n messages by their numbers, in order.
Counting(n) == [i \in 1..n |-> i]

\* What the turns of the first n messages are: joined they count to n, the last
\* one has the messages that one turn reaches n from, and two messages share a
\* turn just when one turn reaches from the first to the second.
TurnsOf(t, n) ==
    /\ t \in Seq(Seq(Nat)) /\ Len(t) > 0
    /\ \E f : Flattens(f, t) /\ f[Len(t)] = Counting(n)
    /\ \A a \in 1..Len(t) : ToSet(t[a]) \subseteq 1..n
    /\ ToSet(t[Len(t)]) = {i \in 1..n : OneTurn(i, n)}
    /\ \A i \in 1..n, j \in 1..n : i < j =>
          ((\E a \in 1..Len(t) : {i, j} \subseteq ToSet(t[a])) <=> OneTurn(i, j))

\* Counting one further is appending the next number.
LEMMA CountingOn ==
    ASSUME NEW n \in Nat
    PROVE  /\ Counting(n) \in Seq(Nat) /\ Append(Counting(n), n + 1) = Counting(n + 1)
           /\ Counting(n) \o <<n + 1>> = Counting(n + 1)
<1>1. Counting(n) \in Seq(Nat) /\ Counting(n + 1) \in Seq(Nat)
  BY IsASeq DEF Counting
<1>2. Len(Counting(n)) = n /\ Len(Counting(n + 1)) = n + 1
  BY DEF Counting
<1>3. Append(Counting(n), n + 1) = Counting(n + 1)
  <2>1. Append(Counting(n), n + 1) \in Seq(Nat) /\ Len(Append(Counting(n), n + 1)) = n + 1
    BY <1>1, <1>2, AppendProperties
  <2>2. \A i \in 1..n + 1 : Append(Counting(n), n + 1)[i] = Counting(n + 1)[i]
    BY <1>1, <1>2 DEF Counting
  <2> QED
    BY <1>1, <1>2, <2>1, <2>2, SeqEqual
<1>4. n + 1 \in Nat
  OBVIOUS
<1>5. Append(Counting(n), n + 1) = Counting(n) \o <<n + 1>>
  BY <1>1, <1>4, AppendIsConcat, Zenon
<1> QED
  BY <1>1, <1>3, <1>5

\* Appending to the second of two joined sequences appends to the whole.
LEMMA ConcatAppend ==
    ASSUME NEW a \in Seq(Nat), NEW b \in Seq(Nat), NEW e \in Nat
    PROVE  a \o Append(b, e) = Append(a \o b, e)
<1>1. /\ a \o Append(b, e) \in Seq(Nat) /\ Append(a \o b, e) \in Seq(Nat)
      /\ Len(a \o Append(b, e)) = Len(a) + Len(b) + 1
      /\ Len(Append(a \o b, e)) = Len(a) + Len(b) + 1
      /\ Len(a) \in Nat /\ Len(b) \in Nat
  OBVIOUS
<1>2. \A i \in 1..Len(a) + Len(b) + 1 : (a \o Append(b, e))[i] = Append(a \o b, e)[i]
  OBVIOUS
<1> QED
  BY <1>1, <1>2, SeqEqual

\* One turn reaches the next message from where it reached the last one, if
\* that is continued, and from the next message itself.
LEMMA OneTurnOn ==
    ASSUME TranscriptInv, NEW n \in Nat, n >= 1, n + 1 <= Len(raw)
    PROVE  /\ \A i \in 1..n : OneTurn(i, n + 1) <=> OneTurn(i, n) /\ Continues(raw[n], raw[n + 1])
           /\ OneTurn(n + 1, n + 1)
<1>1. \A k \in 1..n + 1 : raw[k] \in Message
  BY DEF TranscriptInv
<1>2. BurstWindow \in Int
  BY BurstAssumption
<1>3. ASSUME NEW i \in 1..n
      PROVE  OneTurn(i, n + 1) <=> OneTurn(i, n) /\ Continues(raw[n], raw[n + 1])
  <2>1. ASSUME OneTurn(i, n + 1) PROVE OneTurn(i, n) /\ Continues(raw[n], raw[n + 1])
    BY <1>1, <1>2, <2>1 DEF OneTurn, Continues, Message
  <2>2. ASSUME OneTurn(i, n), Continues(raw[n], raw[n + 1]) PROVE OneTurn(i, n + 1)
    <3>1. \A k \in i..n : k \in i..n - 1 \/ k = n
      OBVIOUS
    <3> QED
      BY <1>1, <1>2, <2>2, <3>1 DEF OneTurn, Continues, Message
  <2> QED
    BY <2>1, <2>2
<1>4. OneTurn(n + 1, n + 1)
  BY DEF OneTurn
<1> QED
  BY <1>3, <1>4

\* Elements of a sequence and of a longer one.
LEMMA ToSetAppend ==
    ASSUME NEW S, NEW s \in Seq(S), NEW e \in S
    PROVE  ToSet(Append(s, e)) = ToSet(s) \cup {e}
<1>1. /\ DOMAIN s = 1..Len(s) /\ DOMAIN Append(s, e) = 1..Len(s) + 1
      /\ \A i \in 1..Len(s) : Append(s, e)[i] = s[i]
      /\ Append(s, e)[Len(s) + 1] = e /\ Len(s) \in Nat
  BY AppendProperties
<1> QED
  BY <1>1 DEF ToSet

\* A message that continues the last turn.
LEMMA TurnGoesOn ==
    ASSUME TranscriptInv, NEW n \in Nat, n >= 1, n + 1 <= Len(raw), NEW t, TurnsOf(t, n),
           Continues(raw[n], raw[n + 1])
    PROVE  TurnsOf(Rejoined(t, n + 1), n + 1)
<1> DEFINE L == Len(t)
           u == [t EXCEPT ![L] = Append(@, n + 1)]
<1>0. Rejoined(t, n + 1) = u
  BY DEF Rejoined
<1>1. /\ t \in Seq(Seq(Nat)) /\ L \in Nat /\ L > 0 /\ t[L] \in Seq(Nat)
  <2>1. t \in Seq(Seq(Nat)) /\ Len(t) > 0
    BY DEF TurnsOf
  <2>2. Len(t) \in Nat /\ Len(t) \in 1..Len(t)
    BY <2>1
  <2> QED
    BY <2>1, <2>2, ElementOfSeq
<1>1a. \A a \in 1..L : t[a] \in Seq(Nat)
  BY <1>1, ElementOfSeq
<1>1b. /\ L >= 1 /\ L \in 1..L /\ 1 \in 1..L
       /\ \A k \in 1..L : k # 1 => k - 1 \in 1..L /\ k - 1 # L /\ k - 1 < k
       /\ n + 1 \in Nat /\ n + 1 \notin 1..n /\ \A i \in 1..n : i \in 1..n + 1 /\ i # n + 1
       /\ \A i \in 1..n + 1 : i \in 1..n \/ i = n + 1
  BY <1>1
<1>1c. /\ \A a \in 1..L : ToSet(t[a]) \subseteq 1..n
       /\ ToSet(t[L]) = {i \in 1..n : OneTurn(i, n)}
       /\ \A i \in 1..n, j \in 1..n : i < j =>
             ((\E a \in 1..L : {i, j} \subseteq ToSet(t[a])) <=> OneTurn(i, j))
  BY DEF TurnsOf
<1>2. /\ u \in Seq(Seq(Nat)) /\ Len(u) = L
      /\ u[L] = Append(t[L], n + 1) /\ \A a \in 1..L : a # L => u[a] = t[a]
  <2>1. Append(t[L], n + 1) \in Seq(Nat)
    BY <1>1
  <2> QED
    BY <1>1, <2>1, ExceptSeq
<1> HIDE DEF u, L
<1>3. ToSet(u[L]) = ToSet(t[L]) \cup {n + 1}
  BY <1>1, <1>2, <1>1b, ToSetAppend
<1>4. \E f : Flattens(f, u) /\ f[L] = Counting(n + 1)
  <2>1. PICK f : Flattens(f, t) /\ f[L] = Counting(n)
    BY DEF TurnsOf, L
  <2>2. \A k \in 1..L : f[k] = IF k = 1 THEN t[k] ELSE f[k - 1] \o t[k]
    BY <2>1, Zenon DEF Flattens, L
  <2>3. \A k \in 1..L : f[k] \in Seq(Nat)
    <3> DEFINE Off == {k \in 1..L : f[k] \notin Seq(Nat)}
    <3>1. SUFFICES ASSUME Off # {} PROVE FALSE
      OBVIOUS
    <3>2. PICK k \in Off : \A j \in Off : k <= j
      <4>1. Off \subseteq Nat
        BY <1>1
      <4> HIDE DEF Off
      <4> QED
        BY <3>1, <4>1, SmallestOf
    <3>3. k # 1
      BY <2>2, <1>1a, <1>1b
    <3>4. k - 1 \in 1..L /\ f[k - 1] \in Seq(Nat)
      BY <3>2, <3>3, <1>1b
    <3>5. f[k] = f[k - 1] \o t[k] /\ t[k] \in Seq(Nat)
      BY <2>2, <3>3, <1>1a
    <3>6. f[k] \in Seq(Nat)
      BY <3>4, <3>5, ConcatProperties
    <3> QED
      BY <3>6
  <2> DEFINE g == [k \in 1..L |-> IF k = L THEN Counting(n + 1) ELSE f[k]]
  <2>1a. /\ DOMAIN g = 1..L /\ g[L] = Counting(n + 1)
        /\ \A k \in 1..L : k # L => g[k] = f[k]
    BY <1>1b
  <2> HIDE DEF g
  <2>1b. g[L] = Append(f[L], n + 1)
    BY <2>1, <2>1a, CountingOn
  <2>4. \A k \in 1..L : g[k] = IF k = 1 THEN u[k] ELSE g[k - 1] \o u[k]
    <3>0. TAKE k \in 1..L
    <3>1. CASE k # L
      BY <1>2, <1>1b, <2>2, <2>1a, <3>1
    <3>2. CASE k = L /\ k = 1
      BY <1>2, <2>2, <2>1b, <3>2
    <3>3. CASE k = L /\ k # 1
      <4>1. f[L] = f[L - 1] \o t[L] /\ f[L - 1] \in Seq(Nat) /\ L - 1 \in 1..L
        BY <1>1b, <2>2, <2>3, <3>3
      <4>2. Append(f[L], n + 1) = f[L - 1] \o Append(t[L], n + 1)
        <5>1. PICK a, b, e : a = f[L - 1] /\ b = t[L] /\ e = n + 1
          OBVIOUS
        <5>2. a \in Seq(Nat) /\ b \in Seq(Nat) /\ e \in Nat
          BY <1>1, <4>1, <5>1
        <5>3. a \o Append(b, e) = Append(a \o b, e)
          BY <5>2, ConcatAppend, Zenon
        <5> QED
          BY <4>1, <5>1, <5>3
      <4>4. g[L - 1] = f[L - 1]
        BY <1>1b, <2>1a, <3>3
      <4> QED
        BY <1>2, <3>3, <2>1b, <4>2, <4>4
    <3> QED
      BY <3>1, <3>2, <3>3
  <2>6. g = [k \in 1..Len(u) |-> IF k = 1 THEN u[k] ELSE g[k - 1] \o u[k]]
    <3>1. g = [k \in 1..L |-> g[k]]
      BY DEF g
    <3> QED
      BY <1>2, <2>4, <3>1
  <2> QED
    BY <2>1a, <2>6 DEF Flattens
<1>5. \A a \in 1..L : ToSet(u[a]) \subseteq 1..n + 1
  <2> TAKE a \in 1..L
  <2>1. CASE a = L
    BY <2>1, <1>3, <1>1b, <1>1c
  <2>2. CASE a # L
    BY <2>2, <1>2, <1>1b, <1>1c
  <2> QED
    BY <2>1, <2>2
<1>6. \A i \in 1..n : OneTurn(i, n + 1) <=> OneTurn(i, n)
  BY OneTurnOn
<1>7. ToSet(u[L]) = {i \in 1..n + 1 : OneTurn(i, n + 1)}
  <2>2. OneTurn(n + 1, n + 1)
    BY OneTurnOn
  <2> QED
    BY <1>3, <1>6, <1>1b, <1>1c, <2>2
<1>8. ASSUME NEW i \in 1..n + 1, NEW j \in 1..n + 1, i < j
      PROVE  (\E a \in 1..L : {i, j} \subseteq ToSet(u[a])) <=> OneTurn(i, j)
  <2>1. \A a \in 1..L : a # L => n + 1 \notin ToSet(u[a])
    BY <1>2, <1>1b, <1>1c
  <2>2. CASE j = n + 1
    BY <1>1b, <1>3, <1>7, <2>1, <2>2
  <2>3. CASE j # n + 1
    <3>1. i \in 1..n /\ j \in 1..n
      BY <1>8, <2>3
    <3>1a. ASSUME NEW a \in 1..L PROVE {i, j} \subseteq ToSet(u[a]) <=> {i, j} \subseteq ToSet(t[a])
      <4>1. CASE a = L
        BY <1>3, <1>1b, <3>1, <4>1
      <4>2. CASE a # L
        BY <1>2, <4>2
      <4> QED
        BY <4>1, <4>2
    <3>2. \A a \in 1..L : {i, j} \subseteq ToSet(u[a]) <=> {i, j} \subseteq ToSet(t[a])
      BY <3>1a
    <3> QED
      BY <1>8, <1>1c, <3>1, <3>2
  <2> QED
    BY <2>2, <2>3
<1> QED
  <2>1. u \in Seq(Seq(Nat)) /\ Len(u) > 0
    BY <1>1, <1>2
  <2>2. \E f : Flattens(f, u) /\ f[Len(u)] = Counting(n + 1)
    BY <1>2, <1>4
  <2>3. \A a \in 1..Len(u) : ToSet(u[a]) \subseteq 1..n + 1
    BY <1>2, <1>5
  <2>4. ToSet(u[Len(u)]) = {i \in 1..n + 1 : OneTurn(i, n + 1)}
    BY <1>2, <1>7
  <2>5. \A i \in 1..n + 1, j \in 1..n + 1 : i < j =>
          ((\E a \in 1..Len(u) : {i, j} \subseteq ToSet(u[a])) <=> OneTurn(i, j))
    BY <1>2, <1>8
  <2>6. TurnsOf(u, n + 1)
    BY <2>1, <2>2, <2>3, <2>4, <2>5, Zenon DEF TurnsOf
  <2> QED
    BY <1>0, <2>6

\* A message that begins a turn.
LEMMA TurnBegins ==
    ASSUME TranscriptInv, NEW n \in Nat, n >= 1, n + 1 <= Len(raw), NEW t, TurnsOf(t, n),
           ~Continues(raw[n], raw[n + 1])
    PROVE  TurnsOf(Rejoined(t, n + 1), n + 1)
<1> DEFINE L == Len(t)
           u == Append(t, <<n + 1>>)
<1>0. Rejoined(t, n + 1) = u
  BY DEF Rejoined
<1>1. /\ t \in Seq(Seq(Nat)) /\ L \in Nat /\ L > 0
  BY DEF TurnsOf
<1>1b. /\ L >= 1 /\ L \in 1..L + 1 /\ L + 1 \in 1..L + 1
       /\ \A k \in 1..L + 1 : k \in 1..L \/ k = L + 1
       /\ \A k \in 1..L : k \in 1..L + 1 /\ k # L + 1 /\ (k # 1 => k - 1 \in 1..L)
       /\ L + 1 # 1 /\ (L + 1) - 1 = L /\ L \in 1..L
       /\ n + 1 \in Nat /\ n + 1 \in 1..n + 1 /\ n + 1 \notin 1..n
       /\ \A i \in 1..n : i \in 1..n + 1 /\ i # n + 1
       /\ \A i \in 1..n + 1 : i \in 1..n \/ i = n + 1
  BY <1>1
<1>1c. /\ \A a \in 1..L : ToSet(t[a]) \subseteq 1..n
       /\ \A i \in 1..n, j \in 1..n : i < j =>
             ((\E a \in 1..L : {i, j} \subseteq ToSet(t[a])) <=> OneTurn(i, j))
  BY DEF TurnsOf
<1>2. /\ u \in Seq(Seq(Nat)) /\ Len(u) = L + 1
      /\ u[L + 1] = <<n + 1>> /\ \A a \in 1..L : u[a] = t[a]
  <2>1. <<n + 1>> \in Seq(Nat)
    OBVIOUS
  <2> QED
    BY <1>1, <2>1, AppendProperties
<1> HIDE DEF u, L
<1>3. ToSet(u[L + 1]) = {n + 1}
  <2>1. ToSet(<<n + 1>>) = {n + 1}
    BY DEF ToSet
  <2> QED
    BY <1>2, <2>1
<1>4. \E f : Flattens(f, u) /\ f[L + 1] = Counting(n + 1)
  <2>1. PICK f : Flattens(f, t) /\ f[L] = Counting(n)
    BY DEF TurnsOf, L
  <2>2. \A k \in 1..L : f[k] = IF k = 1 THEN t[k] ELSE f[k - 1] \o t[k]
    BY <2>1, Zenon DEF Flattens, L
  <2> DEFINE g == [k \in 1..L + 1 |-> IF k = L + 1 THEN Counting(n + 1) ELSE f[k]]
  <2>1a. /\ g[L + 1] = Counting(n + 1)
        /\ \A k \in 1..L : g[k] = f[k]
    BY <1>1b
  <2> HIDE DEF g
  <2>4. \A k \in 1..L + 1 : g[k] = IF k = 1 THEN u[k] ELSE g[k - 1] \o u[k]
    <3>0. TAKE k \in 1..L + 1
    <3>1. CASE k # L + 1
      BY <1>2, <1>1b, <2>2, <2>1a, <3>1
    <3>2. CASE k = L + 1
      <4>1. g[L + 1] = f[L] \o <<n + 1>>
        BY <2>1, <2>1a, CountingOn
      <4> QED
        BY <1>2, <1>1b, <2>1a, <3>2, <4>1
    <3> QED
      BY <3>1, <3>2
  <2>6. g = [k \in 1..Len(u) |-> IF k = 1 THEN u[k] ELSE g[k - 1] \o u[k]]
    <3>1. g = [k \in 1..L + 1 |-> g[k]]
      BY DEF g
    <3> QED
      BY <1>2, <2>4, <3>1
  <2> QED
    BY <2>1a, <2>6 DEF Flattens
<1>5. \A a \in 1..L + 1 : ToSet(u[a]) \subseteq 1..n + 1
  <2> TAKE a \in 1..L + 1
  <2>1. CASE a = L + 1
    BY <2>1, <1>3, <1>1b
  <2>2. CASE a # L + 1
    BY <2>2, <1>2, <1>1b, <1>1c
  <2> QED
    BY <2>1, <2>2
<1>6. \A i \in 1..n : ~OneTurn(i, n + 1)
  BY OneTurnOn
<1>7. ToSet(u[L + 1]) = {i \in 1..n + 1 : OneTurn(i, n + 1)}
  <2>2. OneTurn(n + 1, n + 1)
    BY OneTurnOn
  <2> QED
    BY <1>3, <1>6, <1>1b, <2>2
<1>8. ASSUME NEW i \in 1..n + 1, NEW j \in 1..n + 1, i < j
      PROVE  (\E a \in 1..L + 1 : {i, j} \subseteq ToSet(u[a])) <=> OneTurn(i, j)
  <2>1. \A a \in 1..L : n + 1 \notin ToSet(u[a])
    BY <1>2, <1>1b, <1>1c
  <2>4. i \in 1..n /\ i # n + 1
    BY <1>8
  <2>5. \A a \in 1..L + 1 : i \in ToSet(u[a]) => a \in 1..L
    BY <1>1b, <1>3, <2>4
  <2>2. CASE j = n + 1
    BY <1>6, <2>1, <2>2, <2>4, <2>5
  <2>3. CASE j # n + 1
    <3>1. j \in 1..n
      BY <1>8, <2>3
    <3>2. (\E a \in 1..L : {i, j} \subseteq ToSet(t[a])) <=> OneTurn(i, j)
      BY <1>8, <1>1c, <2>4, <3>1
    <3>3. \A a \in 1..L : a \in 1..L + 1 /\ u[a] = t[a]
      BY <1>1b, <1>2
    <3> QED
      BY <2>5, <3>2, <3>3
  <2> QED
    BY <2>2, <2>3
<1>9. Len(u) > 0
  BY <1>1b, <1>2
<1>10. \E f : Flattens(f, u) /\ f[Len(u)] = Counting(n + 1)
  BY <1>2, <1>4
<1> QED
  <2>0. Len(u) = L + 1
    BY <1>2
  <2>2. /\ \A a \in 1..Len(u) : ToSet(u[a]) \subseteq 1..n + 1
        /\ ToSet(u[Len(u)]) = {i \in 1..n + 1 : OneTurn(i, n + 1)}
    BY <1>5, <1>7, <2>0, Zenon
  <2>3. \A i \in 1..n + 1, j \in 1..n + 1 : i < j =>
          ((\E a \in 1..Len(u) : {i, j} \subseteq ToSet(u[a])) <=> OneTurn(i, j))
    <3>1. \A i \in 1..n + 1, j \in 1..n + 1 : i < j =>
            ((\E a \in 1..L + 1 : {i, j} \subseteq ToSet(u[a])) <=> OneTurn(i, j))
      BY <1>8
    <3> QED
      BY <2>0, <3>1
  <2>1. TurnsOf(u, n + 1)
    BY <1>2, <1>9, <1>10, <2>2, <2>3, Zenon DEF TurnsOf
  <2> QED
    BY <1>0, <2>1

\* The first message is a turn.
LEMMA FirstTurn ==
    ASSUME TranscriptInv
    PROVE  TurnsOf(Rejoined(<<>>, 1), 1)
<1> DEFINE u == << <<1>> >>
<1>1. Rejoined(<<>>, 1) = u
  <2>1. Rejoined(<<>>, 1) = Append(<<>>, <<1>>)
    BY DEF Rejoined
  <2> QED
    BY <2>1
<1>2. u \in Seq(Seq(Nat)) /\ Len(u) = 1 /\ u[1] = <<1>>
  <2>1. <<1>> \in Seq(Nat)
    OBVIOUS
  <2> QED
    BY <2>1
<1>3. ToSet(u[1]) = {1}
  BY <1>2 DEF ToSet
<1>4. OneTurn(1, 1)
  BY DEF OneTurn
<1>5. Counting(1) = <<1>>
  <2>1. Counting(1) \in Seq(Nat) /\ Len(Counting(1)) = 1
    BY IsASeq DEF Counting
  <2>2. <<1>> \in Seq(Nat) /\ Len(<<1>>) = 1
    OBVIOUS
  <2>3. \A i \in 1..1 : Counting(1)[i] = <<1>>[i]
    BY DEF Counting
  <2> QED
    BY <2>1, <2>2, <2>3, SeqEqual
<1> HIDE DEF u
<1>6. \E f : Flattens(f, u) /\ f[1] = Counting(1)
  <2> DEFINE g == [k \in 1..1 |-> u[1]]
  <2>1. \A k \in 1..1 : k = 1
    OBVIOUS
  <2>2. g = [k \in 1..Len(u) |-> IF k = 1 THEN u[k] ELSE g[k - 1] \o u[k]]
    BY <1>2, <2>1
  <2>3. g[1] = Counting(1)
    BY <1>2, <1>5
  <2> HIDE DEF g
  <2> QED
    BY <2>2, <2>3 DEF Flattens
<1>7. \A a \in 1..Len(u) : ToSet(u[a]) \subseteq 1..1
  BY <1>2, <1>3
<1>8. ToSet(u[Len(u)]) = {i \in 1..1 : OneTurn(i, 1)}
  BY <1>2, <1>3, <1>4
<1> QED
  <2>0. \A i, j \in 1..1 : ~(i < j)
    OBVIOUS
  <2>1. TurnsOf(u, 1)
    BY <1>2, <1>6, <1>7, <1>8, <2>0 DEF TurnsOf
  <2> QED
    BY <1>1, <2>1

\* Every beginning of the transcript has its turns, and so has the whole.
LEMMA TurnsAreBursts ==
    ASSUME TranscriptInv, raw # <<>>
    PROVE  TurnsOf(ReassembleTurns, Len(raw))
<1> DEFINE N    == Len(raw)
           S    == 0..N
           V    == Seq(Seq(Nat))
           mu   == [n \in S |-> n]
           next == [n \in S |-> IF n = 0 THEN 0 ELSE n - 1]
           base == [n \in S |-> <<>>]
           op   == [p \in S \X V |-> Rejoined(p[2], p[1])]
           Turns(h) == h = [n \in 0..N |-> IF n = 0 THEN <<>> ELSE Rejoined(h[n - 1], n)]
           turns == CHOOSE h : Turns(h)
<1>0. N \in Nat /\ N > 0
  BY DEF TranscriptInv
<1>1. \A v \in V, n \in S : Rejoined(v, n) \in V
  <2> TAKE v \in V, n \in S
  <2>1. <<n>> \in Seq(Nat) /\ Append(v, <<n>>) \in V
    BY <1>0
  <2>2. [v EXCEPT ![Len(v)] = Append(@, n)] \in V
    <3>1. CASE Len(v) = 0
      <4>1. DOMAIN v = {}
        BY <3>1
      <4>2. [v EXCEPT ![Len(v)] = Append(@, n)] = v
        BY <4>1, <3>1
      <4> QED
        BY <4>2
    <3>2. CASE Len(v) # 0
      <4>1. Len(v) \in 1..Len(v) /\ v[Len(v)] \in Seq(Nat)
        BY <3>2
      <4>2. Append(v[Len(v)], n) \in Seq(Nat)
        BY <1>0, <4>1
      <4> QED
        BY <4>1, <4>2, ExceptSeq
    <3> QED
      BY <3>1, <3>2
  <2> QED
    BY <2>1, <2>2 DEF Rejoined
<1>2. Descends(S, V, mu, {0}, next, base, op)
  <2>1. op \in [S \X V -> V]
    BY <1>1
  <2>2. next \in [S -> S] /\ mu \in [S -> Nat]
    BY <1>0
  <2>3. base \in [S -> V]
    OBVIOUS
  <2>4. \A x \in S : x \notin {0} => mu[next[x]] < mu[x]
    BY <1>0
  <2> HIDE DEF S, V, mu, next, base, op
  <2> QED
    BY <2>1, <2>2, <2>3, <2>4 DEF Descends
<1>3. PICK h : Recurses(h, S, V, {0}, next, base, op)
  <2> HIDE DEF S, V, mu, next, base, op
  <2> QED
    BY <1>2, RecursionAlong
<1>4. Turns(h)
  <2>1. h \in [S -> V] /\ \A n \in S : h[n] = IF n \in {0} THEN base[n] ELSE op[<<n, h[next[n]]>>]
    <3> HIDE DEF S, V, mu, next, base, op
    <3> QED
      BY <1>3 DEF Recurses
  <2>2. \A n \in S : h[n] = IF n = 0 THEN <<>> ELSE Rejoined(h[n - 1], n)
    <3> TAKE n \in S
    <3>1. CASE n = 0
      BY <2>1, <3>1
    <3>2. CASE n # 0
      <4>1. next[n] = n - 1 /\ n - 1 \in S
        BY <1>0, <3>2
      <4>2. h[n - 1] \in V
        BY <2>1, <4>1
      <4>3. op[<<n, h[n - 1]>>] = Rejoined(h[n - 1], n)
        BY <4>2
      <4> QED
        BY <2>1, <3>2, <4>1, <4>3
    <3> QED
      BY <3>1, <3>2
  <2>3. h = [n \in S |-> h[n]]
    BY <2>1
  <2> QED
    BY <2>2, <2>3
<1>5. Turns(turns)
  <2> HIDE DEF Turns
  <2> QED
    BY <1>4
<1>6. ReassembleTurns = turns[N]
  BY DEF ReassembleTurns
<1> HIDE DEF turns
<1>7. \A n \in 0..N : turns[n] = IF n = 0 THEN <<>> ELSE Rejoined(turns[n - 1], n)
  BY <1>5, Zenon
<1> DEFINE Good == {n \in Nat : n < N => TurnsOf(turns[n + 1], n + 1)}
<1>8. 0 \in Good
  <2>1. 1 \in 0..N /\ 0 \in 0..N
    BY <1>0
  <2>2. turns[1] = Rejoined(<<>>, 1)
    BY <1>7, <2>1
  <2> QED
    BY <2>2, FirstTurn
<1>9. ASSUME NEW n \in Nat, n \in Good PROVE n + 1 \in Good
  <2>1. SUFFICES ASSUME n + 1 < N PROVE TurnsOf(turns[(n + 1) + 1], (n + 1) + 1)
    OBVIOUS
  <2>2. TurnsOf(turns[n + 1], n + 1)
    BY <1>9, <2>1, <1>0
  <2>3. turns[(n + 1) + 1] = Rejoined(turns[n + 1], (n + 1) + 1)
    <3>1. (n + 1) + 1 \in 0..N /\ (n + 1) + 1 # 0 /\ ((n + 1) + 1) - 1 = n + 1
      BY <2>1, <1>0
    <3> QED
      BY <1>7, <3>1
  <2>4. n + 1 \in Nat /\ n + 1 >= 1 /\ (n + 1) + 1 <= Len(raw)
    BY <2>1, <1>0
  <2> HIDE DEF Good, N
  <2> QED
    BY <2>2, <2>3, <2>4, TurnGoesOn, TurnBegins
<1>10. Nat \subseteq Good
  <2> HIDE DEF Good
  <2> QED
    BY <1>8, <1>9, AllNumbers
<1>11. N - 1 \in Good /\ (N - 1) + 1 = N /\ N - 1 < N
  <2>1. N - 1 \in Nat /\ (N - 1) + 1 = N /\ N - 1 < N
    BY <1>0
  <2> QED
    BY <1>10, <2>1
<1> QED
  BY <1>6, <1>11

\* What is true of the turns of the whole transcript is the property.
LEMMA TranscriptGivesBursts == TranscriptInv => BurstsRejoined
<1> SUFFICES ASSUME TranscriptInv PROVE BurstsRejoined
  OBVIOUS
<1>1. Len(raw) \in Nat /\ DOMAIN raw = 1..Len(raw)
  BY DEF TranscriptInv
<1>2. CASE raw = <<>>
  <2>1. Len(raw) = 0
    BY <1>2
  <2>2. ReassembleTurns = <<>>
    <3> DEFINE Turns(h) == h = [n \in 0..Len(raw) |-> IF n = 0 THEN <<>> ELSE Rejoined(h[n - 1], n)]
               turns == CHOOSE h : Turns(h)
               t0 == [n \in 0..Len(raw) |-> <<>>]
    <3>0. \A n \in 0..Len(raw) : n = 0
      BY <2>1
    <3>1. Turns(t0)
      BY <3>0
    <3>2. Turns(turns)
      <4> HIDE DEF Turns, t0
      <4> QED
        BY <3>1
    <3>3. ReassembleTurns = turns[0]
      BY <2>1 DEF ReassembleTurns
    <3> HIDE DEF turns
    <3>4. 0 \in 0..Len(raw)
      BY <2>1
    <3>5. turns[0] = IF 0 = 0 THEN <<>> ELSE Rejoined(turns[0 - 1], 0)
      BY <3>2, <3>4, Zenon
    <3> QED
      BY <3>3, <3>5
  <2>3. FlattenSeq(ReassembleTurns) = <<>>
    BY <2>2 DEF FlattenSeq
  <2>4. [i \in DOMAIN raw |-> i] = <<>>
    BY <1>2
  <2> QED
    BY <1>2, <2>3, <2>4 DEF BurstsRejoined
<1>3. CASE raw # <<>>
  <2> DEFINE t == ReassembleTurns
  <2>1. TurnsOf(t, Len(raw))
    BY <1>3, TurnsAreBursts
  <2> HIDE DEF t
  <2>2. t \in Seq(Seq(Nat)) /\ Len(t) > 0 /\ Len(t) \in Nat /\ DOMAIN t = 1..Len(t)
    BY <2>1 DEF TurnsOf
  <2>3. FlattenSeq(t) = Counting(Len(raw))
    <3>1. PICK f : Flattens(f, t) /\ f[Len(t)] = Counting(Len(raw))
      BY <2>1 DEF TurnsOf
    <3> QED
      BY <2>2, <3>1, FlattenIs
  <2>4. ASSUME NEW i \in DOMAIN raw, NEW j \in i + 1..Len(raw)
        PROVE  (\E turn \in ToSet(t) : {i, j} \subseteq ToSet(turn)) <=> OneTurn(i, j)
    <3>1. i \in 1..Len(raw) /\ j \in 1..Len(raw) /\ i < j
      BY <1>1
    <3>2. (\E a \in 1..Len(t) : {i, j} \subseteq ToSet(t[a])) <=> OneTurn(i, j)
      BY <2>1, <3>1 DEF TurnsOf
    <3>3. ToSet(t) = {t[a] : a \in 1..Len(t)}
      BY <2>2 DEF ToSet
    <3> QED
      BY <3>2, <3>3
  <2>5. FlattenSeq(ReassembleTurns) = [i \in DOMAIN raw |-> i]
    BY <1>1, <2>3 DEF t, Counting
  <2> QED
    BY <2>4, <2>5 DEF BurstsRejoined, OneTurn, t
<1> QED
  BY <1>2, <1>3

\* A transcript begins empty, and messages of it come one at a time.
LEMMA TranscriptInit0 == SessionInit => TranscriptInv
BY DEF SessionInit, TranscriptInv

LEMMA ArriveStep ==
    ASSUME TranscriptInv, Arrive
    PROVE  TranscriptInv'
<1>1. PICK sender \in {"caller", "victim"}, gap \in Gaps, short \in BOOLEAN :
        raw' = Append(raw, [sender |-> sender, short |-> short,
                            at |-> IF raw = <<>> THEN 0 ELSE Last(raw).at + gap])
  BY DEF Arrive
<1>2. gap \in Int
  BY BurstAssumption
<1>3. raw # <<>> => Last(raw).at \in Int
  <2>1. raw # <<>> => Len(raw) \in 1..Len(raw)
    BY DEF TranscriptInv
  <2> QED
    <3>1. raw # <<>> => raw[Len(raw)] \in Message
      BY <2>1, ElementOfSeq DEF TranscriptInv
    <3> QED
      BY <3>1 DEF Last, Message
<1>4. (IF raw = <<>> THEN 0 ELSE Last(raw).at + gap) \in Int
  BY <1>2, <1>3
<1> QED
  BY <1>1, <1>4 DEF TranscriptInv, Message

\* A transcript that gets no message stays one.
LEMMA TranscriptRests ==
    ASSUME TranscriptInv, UNCHANGED raw
    PROVE  TranscriptInv'
BY DEF TranscriptInv

-----------------------------------------------------------------------------
\* Words, how they end and what occurs in them.
Word == Seq(Character)

SuffixOf(a, t) ==
    /\ Len(a) <= Len(t)
    /\ \A i \in 1..Len(a) : a[i] = t[Len(t) - Len(a) + i]

OccursIn(c, t) ==
    \E p \in 0..Len(t) :
        /\ p + Len(c) <= Len(t)
        /\ \A i \in 1..Len(c) : c[i] = t[p + i]

\* Every word ends with the empty one, the only one of length 0.
LEMMA SuffixRoot ==
    ASSUME NEW t \in Word
    PROVE  /\ SuffixOf(Root, t) /\ Root \in Word /\ Len(Root) = 0
           /\ \A n \in Word : Len(n) \in Nat /\ (Len(n) = 0 <=> n = Root)
<1>1. Root \in Word /\ Len(Root) = 0
  BY DEF Root, Word
<1>2. \A n \in Word : Len(n) \in Nat /\ (Len(n) = 0 <=> n = Root)
  BY EmptySeq DEF Root, Word
<1>3. SuffixOf(Root, t)
  BY <1>1, <1>2 DEF SuffixOf
<1> QED
  BY <1>1, <1>2, <1>3

\* What ends an ending of a word ends the word.
LEMMA SuffixTransitive ==
    ASSUME NEW a \in Word, NEW b \in Word, NEW t \in Word, SuffixOf(a, b), SuffixOf(b, t)
    PROVE  SuffixOf(a, t)
<1>1. Len(a) \in Nat /\ Len(b) \in Nat /\ Len(t) \in Nat /\ Len(a) <= Len(b) /\ Len(b) <= Len(t)
  BY DEF SuffixOf, Word
<1>2. ASSUME NEW i \in 1..Len(a) PROVE a[i] = t[Len(t) - Len(a) + i]
  <2>1. Len(b) - Len(a) + i \in 1..Len(b)
    BY <1>1
  <2>2. a[i] = b[Len(b) - Len(a) + i]
    BY DEF SuffixOf
  <2>3. b[Len(b) - Len(a) + i] = t[Len(t) - Len(b) + (Len(b) - Len(a) + i)]
    BY <2>1 DEF SuffixOf
  <2>4. Len(t) - Len(b) + (Len(b) - Len(a) + i) = Len(t) - Len(a) + i
    BY <1>1
  <2> QED
    BY <2>2, <2>3, <2>4
<1> QED
  BY <1>1, <1>2 DEF SuffixOf

\* Of two suffixes the shorter is one of the longer.
LEMMA SuffixOfBoth ==
    ASSUME NEW a \in Word, NEW b \in Word, NEW t \in Word, SuffixOf(a, t), SuffixOf(b, t),
           Len(a) <= Len(b)
    PROVE  SuffixOf(a, b) /\ (Len(a) = Len(b) => a = b)
<1>1. Len(a) \in Nat /\ Len(b) \in Nat /\ Len(t) \in Nat /\ Len(b) <= Len(t)
  BY DEF SuffixOf, Word
<1>2. ASSUME NEW i \in 1..Len(a) PROVE a[i] = b[Len(b) - Len(a) + i]
  <2>1. Len(b) - Len(a) + i \in 1..Len(b)
    BY <1>1
  <2>2. a[i] = t[Len(t) - Len(a) + i]
    BY DEF SuffixOf
  <2>3. b[Len(b) - Len(a) + i] = t[Len(t) - Len(b) + (Len(b) - Len(a) + i)]
    BY <2>1 DEF SuffixOf
  <2>4. Len(t) - Len(b) + (Len(b) - Len(a) + i) = Len(t) - Len(a) + i
    BY <1>1
  <2> QED
    BY <2>2, <2>3, <2>4
<1>3. ASSUME Len(a) = Len(b) PROVE a = b
  <2>1. \A i \in 1..Len(a) : a[i] = b[i]
    <3> TAKE i \in 1..Len(a)
    <3>1. Len(b) - Len(a) + i = i
      BY <1>1, <1>3
    <3> QED
      BY <1>2, <3>1
  <2> QED
    BY <1>3, <2>1, SeqEqual DEF Word
<1> QED
  BY <1>2, <1>3 DEF SuffixOf

\* One word with a character ends another with one if the characters are the
\* same and the one ends the other.
LEMMA SuffixAppend ==
    ASSUME NEW a \in Word, NEW c \in Character, NEW t \in Word, NEW d \in Character
    PROVE  SuffixOf(Append(a, c), Append(t, d)) <=> c = d /\ SuffixOf(a, t)
<1> DEFINE e == Append(a, c)
           u == Append(t, d)
<1>1. /\ Len(a) \in Nat /\ Len(t) \in Nat /\ Len(e) = Len(a) + 1 /\ Len(u) = Len(t) + 1
      /\ \A i \in 1..Len(a) : e[i] = a[i]
      /\ \A i \in 1..Len(t) : u[i] = t[i]
      /\ e[Len(a) + 1] = c /\ u[Len(t) + 1] = d
  BY AppendProperties DEF Word
<1> HIDE DEF e, u
<1>2. ASSUME SuffixOf(e, u) PROVE c = d /\ SuffixOf(a, t)
  <2>1. Len(a) <= Len(t)
    BY <1>1, <1>2 DEF SuffixOf
  <2>2. \A i \in 1..Len(a) + 1 : e[i] = u[Len(t) - Len(a) + i]
    <3> TAKE i \in 1..Len(a) + 1
    <3>1. Len(u) - Len(e) + i = Len(t) - Len(a) + i
      BY <1>1
    <3> QED
      BY <1>1, <1>2, <3>1 DEF SuffixOf
  <2>3. Len(t) - Len(a) + (Len(a) + 1) = Len(t) + 1 /\ Len(a) + 1 \in 1..Len(a) + 1
    BY <1>1
  <2>4. c = d
    BY <1>1, <2>2, <2>3
  <2>5. ASSUME NEW i \in 1..Len(a) PROVE a[i] = t[Len(t) - Len(a) + i]
    <3>1. i \in 1..Len(a) + 1 /\ Len(t) - Len(a) + i \in 1..Len(t)
      BY <1>1, <2>1
    <3> QED
      BY <1>1, <2>2, <3>1
  <2> QED
    BY <2>1, <2>4, <2>5 DEF SuffixOf
<1>3. ASSUME c = d, SuffixOf(a, t) PROVE SuffixOf(e, u)
  <2>1. Len(a) <= Len(t)
    BY <1>3 DEF SuffixOf
  <2>2. ASSUME NEW i \in 1..Len(a) + 1 PROVE e[i] = u[Len(t) - Len(a) + i]
    <3>1. CASE i = Len(a) + 1
      <4>1. Len(t) - Len(a) + i = Len(t) + 1
        BY <1>1, <3>1
      <4> QED
        BY <1>1, <1>3, <3>1, <4>1
    <3>2. CASE i # Len(a) + 1
      <4>1. i \in 1..Len(a) /\ Len(t) - Len(a) + i \in 1..Len(t)
        BY <1>1, <2>1, <3>2
      <4>2. a[i] = t[Len(t) - Len(a) + i]
        BY <1>3, <4>1 DEF SuffixOf
      <4> QED
        BY <1>1, <4>1, <4>2
    <3> QED
      BY <3>1, <3>2
  <2>3. \A i \in 1..Len(e) : Len(u) - Len(e) + i = Len(t) - Len(a) + i
    BY <1>1
  <2>4. Len(e) <= Len(u)
    BY <1>1, <2>1
  <2> QED
    BY <1>1, <2>2, <2>3, <2>4 DEF SuffixOf
<1> QED
  BY <1>2, <1>3 DEF e, u

\* The beginnings of a word.
LEMMA Beginnings ==
    ASSUME NEW a \in Word, NEW k \in 0..Len(a)
    PROVE  /\ SubSeq(a, 1, k) \in Word /\ Len(SubSeq(a, 1, k)) = k
           /\ \A i \in 1..k : SubSeq(a, 1, k)[i] = a[i]
           /\ k = Len(a) => SubSeq(a, 1, k) = a
           /\ k = 0 => SubSeq(a, 1, k) = Root
<1>1. Len(a) \in Nat /\ k \in Nat /\ k <= Len(a) /\ \A i \in 1..k : a[i] \in Character
  BY ElementOfSeq DEF Word
<1>2. /\ SubSeq(a, 1, k) \in Seq(Character)
      /\ Len(SubSeq(a, 1, k)) = IF 1 <= k THEN k - 1 + 1 ELSE 0
      /\ \A i \in 1..k - 1 + 1 : SubSeq(a, 1, k)[i] = a[1 + i - 1]
  <2>1. 1 \in Int /\ k \in Int
    BY <1>1
  <2> QED
    BY <1>1, <2>1, SubSeqProperties
<1>3. \A i \in 1..k : i \in 1..k - 1 + 1 /\ 1 + i - 1 = i
  BY <1>1
<1>4. Len(SubSeq(a, 1, k)) = k
  BY <1>1, <1>2
<1>5. k = 0 => SubSeq(a, 1, k) = Root
  BY <1>2, <1>4, EmptySeq DEF Root
<1>6. k = Len(a) => SubSeq(a, 1, k) = a
  BY SubSeqFull DEF Word
<1> QED
  BY <1>2, <1>3, <1>4, <1>5, <1>6 DEF Word

\* A word other than the root is its front with its last character.
LEMMA FrontLast ==
    ASSUME NEW a \in Word, a # Root
    PROVE  /\ Front(a) \in Word /\ Last(a) \in Character /\ a = Append(Front(a), Last(a))
           /\ Len(Front(a)) = Len(a) - 1 /\ Len(a) \in Nat /\ Len(a) >= 1
           /\ Front(a) = SubSeq(a, 1, Len(a) - 1)
<1>1. Len(a) \in Nat /\ Len(a) >= 1
  BY EmptySeq DEF Root, Word
<1>2. \A i \in 1..Len(a) : a[i] \in Character
  BY ElementOfSeq DEF Word
<1>3. /\ Front(a) \in Word /\ Len(Front(a)) = Len(a) - 1
      /\ \A i \in 1..Len(a) - 1 : Front(a)[i] = a[i]
  <2>1. Len(a) - 1 \in 0..Len(a)
    BY <1>1
  <2> QED
    BY <2>1, Beginnings DEF Front
<1>4. Last(a) = a[Len(a)] /\ Last(a) \in Character
  BY <1>1, <1>2 DEF Last
<1>5. a = Append(Front(a), Last(a))
  <2>1. /\ Append(Front(a), Last(a)) \in Word /\ Len(Append(Front(a), Last(a))) = Len(a)
        /\ \A i \in 1..Len(a) - 1 : Append(Front(a), Last(a))[i] = a[i]
        /\ Append(Front(a), Last(a))[Len(a)] = a[Len(a)]
    <3>1. (Len(a) - 1) + 1 = Len(a)
      BY <1>1
    <3> QED
      BY <1>3, <1>4, <3>1, AppendProperties DEF Word
  <2>2. \A i \in 1..Len(a) : i \in 1..Len(a) - 1 \/ i = Len(a)
    BY <1>1
  <2>3. \A i \in 1..Len(a) : Append(Front(a), Last(a))[i] = a[i]
    BY <2>1, <2>2
  <2> QED
    BY <2>1, <2>3, SeqEqual DEF Word
<1> QED
  BY <1>1, <1>3, <1>4, <1>5 DEF Front

\* The front and the last character of a word that was appended to.
LEMMA FrontOfAppend ==
    ASSUME NEW a \in Word, NEW c \in Character
    PROVE  /\ Append(a, c) \in Word /\ Append(a, c) # Root /\ Len(Append(a, c)) = Len(a) + 1
           /\ Front(Append(a, c)) = a /\ Last(Append(a, c)) = c
<1> DEFINE e == Append(a, c)
<1>1. e \in Word /\ e # Root /\ Len(e) = Len(a) + 1 /\ Len(a) \in Nat
  BY AppendProperties DEF Word, Root
<1> HIDE DEF e
<1>2. e = Append(Front(e), Last(e)) /\ Front(e) \in Word /\ Last(e) \in Character
  BY <1>1, FrontLast
<1>3. Front(e) = a /\ Last(e) = c
  BY <1>2, AppendInjective DEF e, Word
<1> QED
  BY <1>1, <1>3 DEF e

\* A beginning of a beginning is a beginning.
LEMMA BeginningsOfBeginnings ==
    ASSUME NEW a \in Word, NEW l \in 0..Len(a), NEW k \in 0..l
    PROVE  SubSeq(SubSeq(a, 1, l), 1, k) = SubSeq(a, 1, k)
<1> DEFINE b == SubSeq(a, 1, l)
<1>1. Len(a) \in Nat /\ k \in 0..Len(a)
  BY DEF Word
<1>2. b \in Word /\ Len(b) = l /\ \A i \in 1..l : b[i] = a[i]
  BY Beginnings
<1>3. /\ SubSeq(a, 1, k) \in Word /\ Len(SubSeq(a, 1, k)) = k
      /\ \A i \in 1..k : SubSeq(a, 1, k)[i] = a[i]
  BY <1>1, Beginnings
<1> HIDE DEF b
<1>4. /\ SubSeq(b, 1, k) \in Word /\ Len(SubSeq(b, 1, k)) = k
      /\ \A i \in 1..k : SubSeq(b, 1, k)[i] = b[i]
  <2>1. k \in 0..Len(b)
    BY <1>2
  <2> QED
    BY <1>2, <2>1, Beginnings
<1>5. \A i \in 1..k : i \in 1..l
  BY <1>1
<1>6. \A i \in 1..k : SubSeq(b, 1, k)[i] = SubSeq(a, 1, k)[i]
  BY <1>2, <1>3, <1>4, <1>5
<1>7. SubSeq(b, 1, k) = SubSeq(a, 1, k)
  BY <1>3, <1>4, <1>6, SeqEqual DEF Word
<1> QED
  BY <1>7 DEF b

\* What occurs in a longer text occurs before its last character or ends there.
LEMMA OccursAppend ==
    ASSUME NEW c \in Word, NEW t \in Word, NEW x \in Character
    PROVE  OccursIn(c, Append(t, x)) <=> OccursIn(c, t) \/ SuffixOf(c, Append(t, x))
<1> DEFINE u == Append(t, x)
<1>1. /\ Len(t) \in Nat /\ Len(c) \in Nat /\ Len(u) = Len(t) + 1
      /\ \A i \in 1..Len(t) : u[i] = t[i]
  BY AppendProperties DEF Word
<1> HIDE DEF u
<1>2. ASSUME OccursIn(c, u) PROVE OccursIn(c, t) \/ SuffixOf(c, u)
  <2>1. PICK p \in 0..Len(u) : p + Len(c) <= Len(u) /\ \A i \in 1..Len(c) : c[i] = u[p + i]
    BY <1>2 DEF OccursIn
  <2>2. CASE p + Len(c) = Len(u)
    <3>1. p = Len(u) - Len(c) /\ Len(c) <= Len(u)
      BY <1>1, <2>1, <2>2
    <3>2. SuffixOf(c, u)
      BY <2>1, <3>1 DEF SuffixOf
    <3> QED
      BY <3>2
  <2>3. CASE p + Len(c) # Len(u)
    <3>1. p \in 0..Len(t) /\ p + Len(c) <= Len(t)
      BY <1>1, <2>1, <2>3
    <3>2. \A i \in 1..Len(c) : p + i \in 1..Len(t)
      BY <1>1, <3>1
    <3>3. \A i \in 1..Len(c) : c[i] = t[p + i]
      BY <1>1, <2>1, <3>2
    <3> QED
      BY <3>1, <3>3 DEF OccursIn
  <2> QED
    BY <2>2, <2>3
<1>3. ASSUME OccursIn(c, t) PROVE OccursIn(c, u)
  <2>1. PICK p \in 0..Len(t) : p + Len(c) <= Len(t) /\ \A i \in 1..Len(c) : c[i] = t[p + i]
    BY <1>3 DEF OccursIn
  <2>2. p \in 0..Len(u) /\ p + Len(c) <= Len(u) /\ \A i \in 1..Len(c) : p + i \in 1..Len(t)
    BY <1>1, <2>1
  <2>3. \A i \in 1..Len(c) : c[i] = u[p + i]
    BY <1>1, <2>1, <2>2
  <2> QED
    BY <2>2, <2>3 DEF OccursIn
<1>4. ASSUME SuffixOf(c, u) PROVE OccursIn(c, u)
  <2>1. Len(u) - Len(c) \in 0..Len(u) /\ (Len(u) - Len(c)) + Len(c) <= Len(u)
    BY <1>1, <1>4 DEF SuffixOf
  <2> QED
    BY <1>4, <2>1 DEF SuffixOf, OccursIn
<1> QED
  BY <1>2, <1>3, <1>4 DEF u

\* The library's suffixes and prefixes say the same.
LEMMA OccursIs ==
    ASSUME text \in Word, NEW c \in Word
    PROVE  Occurs(c) <=> OccursIn(c, text)
<1>1. Len(text) \in Nat /\ Len(c) \in Nat
  BY DEF Word
<1>2. \A l \in 1..Len(text) :
        /\ SubSeq(text, l, Len(text)) \in Word
        /\ Len(SubSeq(text, l, Len(text))) = Len(text) - l + 1
        /\ \A i \in 1..Len(text) - l + 1 : SubSeq(text, l, Len(text))[i] = text[l + i - 1]
  <2> TAKE l \in 1..Len(text)
  <2>1. l \in Int /\ Len(text) \in Int /\ l <= Len(text)
    BY <1>1
  <2>2. \A i \in l..Len(text) : text[i] \in Character
    <3>1. \A i \in l..Len(text) : i \in 1..Len(text)
      BY <1>1
    <3> QED
      BY <3>1, ElementOfSeq DEF Word
  <2> QED
    BY <2>1, <2>2, SubSeqProperties DEF Word
<1>3. \A s \in Word : IsPrefix(c, s) <=> Len(c) <= Len(s) /\ \A i \in 1..Len(c) : c[i] = s[i]
  <2> TAKE s \in Word
  <2>1. Len(s) \in Nat
    BY DEF Word
  <2>2. SubSeq(c, 1, Len(c)) = c
    BY SubSeqFull DEF Word
  <2>3. ASSUME Len(c) <= Len(s)
        PROVE  c = SubSeq(s, 1, Len(c)) <=> \A i \in 1..Len(c) : c[i] = s[i]
    <3>1. Len(c) \in 0..Len(s)
      BY <1>1, <2>1, <2>3
    <3>2. /\ SubSeq(s, 1, Len(c)) \in Word /\ Len(SubSeq(s, 1, Len(c))) = Len(c)
          /\ \A i \in 1..Len(c) : SubSeq(s, 1, Len(c))[i] = s[i]
      BY <3>1, Beginnings
    <3>3. (\A i \in 1..Len(c) : c[i] = SubSeq(s, 1, Len(c))[i]) => c = SubSeq(s, 1, Len(c))
      BY <3>2, SeqEqual DEF Word
    <3> QED
      BY <3>2, <3>3
  <2> QED
    BY <2>2, <2>3 DEF IsPrefix
<1>4. ASSUME Occurs(c) PROVE OccursIn(c, text)
  <2>1. PICK s \in Suffixes(text) : IsPrefix(c, s)
    BY <1>4 DEF Occurs
  <2>2. CASE s = <<>>
    <3>1. Len(c) = 0
      <4>1. <<>> \in Word /\ Len(<<>>) = 0
        BY DEF Word
      <4>2. Len(c) <= 0
        BY <1>3, <2>1, <2>2, <4>1
      <4> QED
        BY <1>1, <4>2
    <3>2. 0 \in 0..Len(text) /\ 0 + Len(c) <= Len(text) /\ \A i \in 1..Len(c) : FALSE
      BY <1>1, <3>1
    <3> QED
      BY <3>2 DEF OccursIn
  <2>3. CASE s # <<>>
    <3>1. PICK l \in 1..Len(text) : s = SubSeq(text, l, Len(text))
      BY <2>1, <2>3 DEF Suffixes
    <3>2. /\ s \in Word /\ Len(s) = Len(text) - l + 1
          /\ \A i \in 1..Len(text) - l + 1 : s[i] = text[l + i - 1]
      BY <1>2, <3>1
    <3>3. Len(c) <= Len(s) /\ \A i \in 1..Len(c) : c[i] = s[i]
      BY <1>3, <2>1, <3>2
    <3>4. l - 1 \in 0..Len(text) /\ (l - 1) + Len(c) <= Len(text)
      BY <1>1, <3>2, <3>3
    <3>5. \A i \in 1..Len(c) : i \in 1..Len(text) - l + 1 /\ l + i - 1 = (l - 1) + i
      BY <1>1, <3>2, <3>3
    <3>6. \A i \in 1..Len(c) : c[i] = text[(l - 1) + i]
      BY <3>2, <3>3, <3>5
    <3> QED
      BY <3>4, <3>6 DEF OccursIn
  <2> QED
    BY <2>2, <2>3
<1>5. ASSUME OccursIn(c, text) PROVE Occurs(c)
  <2>1. PICK p \in 0..Len(text) : p + Len(c) <= Len(text) /\ \A i \in 1..Len(c) : c[i] = text[p + i]
    BY <1>5 DEF OccursIn
  <2>2. CASE Len(c) = 0
    <3>1. <<>> \in Suffixes(text) /\ <<>> \in Word /\ Len(<<>>) = 0
      BY DEF Suffixes, Word
    <3>2. IsPrefix(c, <<>>)
      BY <1>3, <2>2, <3>1
    <3> QED
      BY <3>1, <3>2 DEF Occurs
  <2>3. CASE Len(c) # 0
    <3> DEFINE s == SubSeq(text, p + 1, Len(text))
    <3>1. p + 1 \in 1..Len(text) /\ Len(text) - (p + 1) + 1 = Len(text) - p
      BY <1>1, <2>1, <2>3
    <3>2. s \in Suffixes(text)
      BY <3>1 DEF Suffixes
    <3>3. /\ s \in Word /\ Len(s) = Len(text) - p
          /\ \A i \in 1..Len(text) - p : s[i] = text[p + 1 + i - 1]
      BY <1>2, <3>1
    <3> HIDE DEF s
    <3>4. \A i \in 1..Len(c) : i \in 1..Len(text) - p /\ p + 1 + i - 1 = p + i
      BY <1>1, <2>1
    <3>5. Len(c) <= Len(s)
      BY <1>1, <2>1, <3>3
    <3>6. \A i \in 1..Len(c) : c[i] = s[i]
      BY <2>1, <3>3, <3>4
    <3>7. IsPrefix(c, s)
      BY <1>3, <3>3, <3>5, <3>6
    <3> QED
      BY <3>2, <3>7 DEF Occurs
  <2> QED
    BY <2>2, <2>3
<1> QED
  BY <1>4, <1>5

-----------------------------------------------------------------------------
\* The automaton while it is built and while it reads.
MatcherTypeOK ==
    /\ cues \in Seq(Phrase) /\ goto \subseteq Word /\ IsFiniteSet(goto)
    /\ fail \in [goto -> goto] /\ out \in [goto -> SUBSET ToSet(cues)]
    /\ queue \in Seq(goto) /\ linking \in BOOLEAN
    /\ text \in Word /\ node \in goto

\* The nodes are the beginnings of the cues, and more: of every node.
TrieInv ==
    /\ Root \in goto
    /\ \A n \in goto : \A k \in 0..Len(n) : SubSeq(n, 1, k) \in goto
    /\ ToSet(cues) \subseteq goto \ {Root}

\* The longest node, shorter than k, that the text t ends with.
Longest(n, t, k) ==
    /\ n \in goto /\ SuffixOf(n, t) /\ Len(n) < k
    /\ \A m \in goto : SuffixOf(m, t) /\ Len(m) < k => Len(m) <= Len(n)

CuesEnding(t) == {c \in ToSet(cues) : SuffixOf(c, t)}

\* A node that has its failure link and its output, and one that has not.
Right(n) == Longest(fail[n], n, Len(n)) /\ out[n] = CuesEnding(n)
Raw(n)   == fail[n] = Root /\ out[n] = ToSet(cues) \cap {n}

\* A node that begins as one of the queue does.
Waits(n) ==
    \E i \in 1..Len(queue) :
        Len(queue[i]) < Len(n) /\ SubSeq(n, 1, Len(queue[i])) = queue[i]

\* The links are made breadth first.
LinksInv ==
    /\ fail[Root] = Root /\ out[Root] = {}
    /\ ~linking => queue = <<>> /\ \A n \in goto : Raw(n)
    /\ linking => \A n \in goto \ {Root} : Right(n) \/ (Raw(n) /\ Waits(n))
    /\ \A i \in 1..Len(queue) :
        /\ queue[i] # Root /\ Right(queue[i])
        /\ \A j \in i..Len(queue) :
              Len(queue[i]) <= Len(queue[j]) /\ Len(queue[j]) <= Len(queue[i]) + 1

ScanInv ==
    /\ ~Built => text = <<>>
    /\ Longest(node, text, Len(text) + 1)
    /\ found = {c \in ToSet(cues) : OccursIn(c, text)}

MatcherInv == MatcherTypeOK /\ TrieInv /\ LinksInv /\ ScanInv

\* The library's order of a finite set has each element.
LEMMA SetToSeqIsOnto ==
    ASSUME NEW S, IsFiniteSet(S)
    PROVE  SetToSeq(S) \in Seq(S) /\ S = {SetToSeq(S)[i] : i \in 1..Len(SetToSeq(S))}
<1> DEFINE N == Cardinality(S)
           f == SetToSeq(S)
<1>1. N \in Nat /\ ExistsBijection(1..N, S)
  BY FS_CardinalityType
<1>2. \E g \in [1..N -> S] : IsInjective(g)
  BY <1>1 DEF ExistsBijection, Bijection, Injection
<1>3. f \in [1..N -> S] /\ IsInjective(f)
  BY <1>2 DEF SetToSeq
<1> HIDE DEF f
<1>4. f \in Injection(1..N, S)
  BY <1>3 DEF Injection
<1>5. IsFiniteSet(1..N) /\ Cardinality(1..N) = N
  <2>1. 1 \in Int /\ N \in Int
    BY <1>1
  <2>2. IsFiniteSet(1..N) /\ Cardinality(1..N) = IF 1 > N THEN 0 ELSE N - 1 + 1
    BY <2>1, FS_Interval
  <2> QED
    BY <1>1, <2>2
<1>6. f \in Surjection(1..N, S)
  BY <1>4, <1>5, FS_Injection
<1>7. f \in Seq(S) /\ Len(f) = N
  BY <1>1, <1>3
<1>8. S = {f[i] : i \in 1..N}
  BY <1>3, <1>6 DEF Surjection
<1> QED
  BY <1>7, <1>8 DEF f

\* What the words that are nodes have in common.
LEMMA NodeFacts ==
    ASSUME MatcherTypeOK, TrieInv
    PROVE  /\ Root \in goto /\ Root \in Word /\ Len(Root) = 0
           /\ \A n \in goto : n \in Word /\ Len(n) \in Nat /\ fail[n] \in goto
                                /\ (Len(n) = 0 <=> n = Root) /\ SuffixOf(Root, n)
           /\ \A n \in goto \ {Root} :
                 /\ Front(n) \in goto /\ Last(n) \in Character /\ n = Append(Front(n), Last(n))
                 /\ Len(n) = Len(Front(n)) + 1
           /\ \A c \in ToSet(cues) : c \in goto /\ c # Root
<1>1. /\ Root \in goto /\ \A c \in ToSet(cues) : c \in goto /\ c # Root
      /\ \A n \in goto : n \in Word /\ fail[n] \in goto
  BY DEF TrieInv, MatcherTypeOK
<1>2. /\ Root \in Word /\ Len(Root) = 0
      /\ \A n \in goto : Len(n) \in Nat /\ (Len(n) = 0 <=> n = Root) /\ SuffixOf(Root, n)
  BY <1>1, SuffixRoot
<1>3. ASSUME NEW n \in goto \ {Root}
      PROVE  /\ Front(n) \in goto /\ Last(n) \in Character /\ n = Append(Front(n), Last(n))
             /\ Len(n) = Len(Front(n)) + 1
  <2>1. /\ Last(n) \in Character /\ n = Append(Front(n), Last(n))
        /\ Len(Front(n)) = Len(n) - 1 /\ Len(n) \in Nat /\ Len(n) >= 1
        /\ Front(n) = SubSeq(n, 1, Len(n) - 1)
    BY <1>1, FrontLast
  <2>2. Len(n) - 1 \in 0..Len(n)
    BY <2>1
  <2>3. Front(n) \in goto
    BY <2>1, <2>2 DEF TrieInv
  <2> QED
    BY <2>1, <2>3
<1> QED
  BY <1>1, <1>2, <1>3

\* Following the links from n ends: at the longest node that c leads on from.
LEMMA BackIs ==
    ASSUME MatcherTypeOK, TrieInv, fail[Root] = Root,
           NEW c \in Character, NEW n \in goto, NEW t \in Word, NEW k \in Nat,
           Longest(n, t, k),
           \A m \in goto \ {Root} : Len(m) <= Len(n) => Longest(fail[m], m, Len(m)),
           \A m \in goto \ {Root} : Len(fail[m]) < Len(m),
           NEW back,
           \A m \in goto : back[m] = IF m = Root \/ Append(m, c) \in goto THEN m ELSE back[fail[m]]
    PROVE  /\ back[n] \in goto /\ SuffixOf(back[n], t) /\ Len(back[n]) <= Len(n)
           /\ back[n] = Root \/ Append(back[n], c) \in goto
           /\ \A m \in goto : SuffixOf(m, t) /\ Len(m) < k /\ Append(m, c) \in goto
                                 => Len(m) <= Len(back[n])
<1> DEFINE Below(x) == \A m \in goto : SuffixOf(m, t) /\ Len(m) < k /\ Append(m, c) \in goto
                                          => Len(m) <= Len(x)
           On(x)    == x \in goto /\ SuffixOf(x, t) /\ Len(x) <= Len(n) /\ Below(x)
           Ends(x)  == On(back[x]) /\ (back[x] = Root \/ Append(back[x], c) \in goto)
           Bad      == {l \in Nat : \E x \in goto : On(x) /\ ~Ends(x) /\ Len(x) = l}
<1>0. /\ Root \in goto /\ Len(Root) = 0
      /\ \A m \in goto : m \in Word /\ Len(m) \in Nat /\ (Len(m) = 0 <=> m = Root) /\ fail[m] \in goto
  BY NodeFacts
<1>1. On(n)
  BY <1>0 DEF Longest
<1>2. ASSUME NEW x \in goto, On(x), ~(x = Root \/ Append(x, c) \in goto)
      PROVE  On(fail[x]) /\ Len(fail[x]) < Len(x) /\ Len(fail[x]) \in Nat
  <2>1. Longest(fail[x], x, Len(x)) /\ Len(fail[x]) < Len(x)
    BY <1>2
  <2>2. fail[x] \in goto /\ SuffixOf(fail[x], t)
    BY <1>0, <1>2, <2>1, SuffixTransitive DEF Longest
  <2>3. Len(fail[x]) <= Len(n) /\ Len(fail[x]) \in Nat
    BY <1>0, <1>2, <2>1, <2>2
  <2>4. ASSUME NEW m \in goto, SuffixOf(m, t), Len(m) < k, Append(m, c) \in goto
        PROVE  Len(m) <= Len(fail[x])
    <3>1. Len(m) <= Len(x) /\ SuffixOf(x, t)
      BY <1>2, <2>4
    <3>2. SuffixOf(m, x) /\ (Len(m) = Len(x) => m = x)
      BY <1>0, <2>4, <3>1, SuffixOfBoth
    <3>3. Len(m) < Len(x)
      BY <1>0, <1>2, <2>4, <3>1, <3>2
    <3> QED
      BY <2>1, <3>2, <3>3 DEF Longest
  <2> QED
    BY <2>1, <2>2, <2>3, <2>4
<1> HIDE DEF Below
<1>3. ASSUME Bad # {} PROVE FALSE
  <2>1. PICK l \in Bad : \A j \in Bad : l <= j
    <3>1. Bad \subseteq Nat
      OBVIOUS
    <3> HIDE DEF Bad
    <3> QED
      BY <1>3, <3>1, SmallestOf
  <2>2. PICK x \in goto : On(x) /\ ~Ends(x) /\ Len(x) = l
    BY <2>1
  <2> HIDE DEF On
  <2>3. CASE x = Root \/ Append(x, c) \in goto
    <3>1. back[x] = x
      BY <2>3
    <3> QED
      BY <2>2, <2>3, <3>1
  <2>4. CASE ~(x = Root \/ Append(x, c) \in goto)
    <3>1. back[x] = back[fail[x]]
      BY <2>4
    <3>2. On(fail[x]) /\ Len(fail[x]) < Len(x) /\ Len(fail[x]) \in Nat /\ fail[x] \in goto
      BY <1>0, <1>2, <2>2, <2>4
    <3>3. ~Ends(fail[x])
      BY <2>2, <3>1
    <3>4. Len(fail[x]) \in Bad
      BY <3>2, <3>3
    <3>5. l <= Len(fail[x]) /\ l \in Nat
      BY <2>1, <3>4
    <3> QED
      BY <2>2, <3>2, <3>5
  <2> QED
    BY <2>3, <2>4
<1>4. Ends(n)
  <2> HIDE DEF On, Ends
  <2>1. Len(n) \in Nat
    BY <1>0
  <2> QED
    BY <1>1, <1>3, <2>1
<1> QED
  BY <1>4 DEF Below

\* Where the links are right so far, a step goes to the longest node again.
LEMMA StepIs ==
    ASSUME MatcherTypeOK, TrieInv, fail[Root] = Root,
           NEW c \in Character, NEW n \in goto, NEW t \in Word, NEW k \in Nat,
           Longest(n, t, k),
           \A m \in goto \ {Root} : Len(m) <= Len(n) => Longest(fail[m], m, Len(m)),
           \A m \in goto \ {Root} : Len(fail[m]) < Len(m)
    PROVE  Longest(Step(n, c), Append(t, c), k + 1)
<1> DEFINE Backs(b) == b = [m \in goto |-> IF m = Root \/ Append(m, c) \in goto THEN m ELSE b[fail[m]]]
           back == CHOOSE b : Backs(b)
           stop == {m \in goto : m = Root \/ Append(m, c) \in goto}
           mu   == [m \in goto |-> Len(m)]
           base == [m \in goto |-> m]
           op   == [p \in goto \X goto |-> p[2]]
<1>0. /\ Root \in goto /\ Len(Root) = 0 /\ Root \in Word
      /\ \A m \in goto : m \in Word /\ Len(m) \in Nat /\ (Len(m) = 0 <=> m = Root) /\ fail[m] \in goto
      /\ fail \in [goto -> goto]
  BY NodeFacts DEF MatcherTypeOK
<1>1. Descends(goto, goto, mu, stop, fail, base, op)
  <2>1. mu \in [goto -> Nat] /\ base \in [goto -> goto] /\ op \in [goto \X goto -> goto]
    BY <1>0
  <2>2. \A x \in goto : x \notin stop => mu[fail[x]] < mu[x]
    BY <1>0
  <2> HIDE DEF mu, base, op, stop
  <2> QED
    BY <1>0, <2>1, <2>2 DEF Descends
<1>2. PICK h : Recurses(h, goto, goto, stop, fail, base, op)
  <2> HIDE DEF mu, base, op, stop
  <2> QED
    BY <1>1, RecursionAlong
<1>3. Backs(h)
  <2>1. h \in [goto -> goto] /\ \A x \in goto : h[x] = IF x \in stop THEN base[x] ELSE op[<<x, h[fail[x]]>>]
    <3> HIDE DEF mu, base, op, stop
    <3> QED
      BY <1>2 DEF Recurses
  <2>2. \A x \in goto : h[x] = IF x = Root \/ Append(x, c) \in goto THEN x ELSE h[fail[x]]
    <3> TAKE x \in goto
    <3>1. fail[x] \in goto /\ h[fail[x]] \in goto
      BY <1>0, <2>1
    <3>2. op[<<x, h[fail[x]]>>] = h[fail[x]] /\ base[x] = x
      BY <3>1
    <3> HIDE DEF op, base
    <3> QED
      BY <2>1, <3>2
  <2>3. h = [x \in goto |-> h[x]]
    BY <2>1
  <2> QED
    BY <2>2, <2>3
<1>4. Backs(back)
  <2> HIDE DEF Backs
  <2> QED
    BY <1>3
<1>5. Step(n, c) = IF Append(back[n], c) \in goto THEN Append(back[n], c) ELSE Root
  BY DEF Step
<1> HIDE DEF back
<1>6. \A m \in goto : back[m] = IF m = Root \/ Append(m, c) \in goto THEN m ELSE back[fail[m]]
  BY <1>4, Zenon
<1> DEFINE b == back[n]
           r == Step(n, c)
           u == Append(t, c)
<1>7. /\ b \in goto /\ SuffixOf(b, t) /\ Len(b) <= Len(n)
      /\ b = Root \/ Append(b, c) \in goto
      /\ \A m \in goto : SuffixOf(m, t) /\ Len(m) < k /\ Append(m, c) \in goto => Len(m) <= Len(b)
  BY <1>6, BackIs
<1>8. r = IF Append(b, c) \in goto THEN Append(b, c) ELSE Root
  BY <1>5
<1>9. u \in Word
  BY AppendProperties DEF Word
<1> HIDE DEF b, r, Backs
<1>10. Len(n) < k /\ Len(n) \in Nat /\ Len(b) \in Nat /\ b \in Word
  BY <1>0, <1>7 DEF Longest
<1>11. r \in goto /\ SuffixOf(r, u) /\ Len(r) < k + 1
  <2>1. CASE Append(b, c) \in goto
    <3>1. SuffixOf(Append(b, c), u)
      BY <1>7, <1>10, SuffixAppend
    <3>2. Len(Append(b, c)) = Len(b) + 1
      BY <1>10, FrontOfAppend
    <3> HIDE DEF u
    <3> QED
      BY <1>7, <1>8, <1>10, <2>1, <3>1, <3>2
  <2>2. CASE Append(b, c) \notin goto
    <3>1. SuffixOf(Root, u)
      BY <1>9, SuffixRoot
    <3> HIDE DEF u
    <3> QED
      BY <1>0, <1>8, <2>2, <3>1
  <2> QED
    BY <2>1, <2>2
<1>12. ASSUME NEW x \in goto, SuffixOf(x, u), Len(x) < k + 1 PROVE Len(x) <= Len(r)
  <2>1. CASE x = Root
    BY <1>0, <1>11, <2>1
  <2>2. CASE x # Root
    <3> DEFINE y == Front(x)
    <3>1. y \in goto /\ Last(x) \in Character /\ x = Append(y, Last(x)) /\ Len(x) = Len(y) + 1
      BY <2>2, NodeFacts
    <3> HIDE DEF y
    <3>2. y \in Word /\ Len(y) \in Nat
      BY <1>0, <3>1
    <3>3. Last(x) = c /\ SuffixOf(y, t)
      <4> DEFINE e == Last(x)
      <4>1. SuffixOf(Append(y, e), Append(t, c)) /\ e \in Character
        BY <1>12, <3>1, Zenon
      <4> HIDE DEF e
      <4>2. e = c /\ SuffixOf(y, t)
        BY <3>2, <4>1, SuffixAppend, Zenon
      <4> QED
        BY <4>2 DEF e
    <3>4. Append(y, c) \in goto /\ Len(y) < k
      <4>1. Append(y, c) = x
        BY <3>1, <3>3, Zenon
      <4>2. Len(y) + 1 < k + 1
        BY <1>12, <3>1, Zenon
      <4> QED
        BY <3>2, <4>1, <4>2
    <3>5. Len(y) <= Len(b)
      BY <1>7, <3>1, <3>3, <3>4
    <3>6. Append(b, c) \in goto
      <4>1. CASE b = Root
        <5>1. y = Root
          BY <1>0, <3>1, <3>2, <3>5, <4>1
        <5> QED
          BY <3>4, <4>1, <5>1
      <4> QED
        BY <1>7, <4>1
    <3>7. Len(r) = Len(b) + 1
      BY <1>8, <1>10, <3>6, FrontOfAppend
    <3> QED
      BY <1>10, <3>1, <3>2, <3>5, <3>7
  <2> QED
    BY <2>1, <2>2
<1> QED
  BY <1>11, <1>12 DEF Longest, r, u

\* A word ends with itself.
LEMMA SuffixReflexive ==
    ASSUME NEW a \in Word
    PROVE  SuffixOf(a, a)
<1>1. Len(a) \in Nat /\ \A i \in 1..Len(a) : Len(a) - Len(a) + i = i
  BY DEF Word
<1> QED
  BY <1>1 DEF SuffixOf

\* No cue ends an empty text.
LEMMA NoneEndsRoot ==
    ASSUME MatcherTypeOK, TrieInv
    PROVE  CuesEnding(Root) = {}
<1>1. ASSUME NEW c \in ToSet(cues), SuffixOf(c, Root) PROVE FALSE
  <2>1. c \in goto /\ c # Root /\ Len(c) \in Nat /\ Len(c) # 0 /\ Len(Root) = 0
    BY NodeFacts
  <2> QED
    BY <1>1, <2>1 DEF SuffixOf
<1> QED
  BY <1>1 DEF CuesEnding

\* A child is a node, one character longer than its parent.
LEMMA ChildFacts ==
    ASSUME MatcherTypeOK, TrieInv, NEW p \in goto, NEW n \in Children(p)
    PROVE  /\ n \in goto /\ n # Root /\ n \in Word /\ Last(n) \in Character
           /\ n = Append(p, Last(n)) /\ Len(n) = Len(p) + 1 /\ Len(p) \in Nat
<1>1. n \in goto /\ n # Root /\ Front(n) = p
  BY DEF Children
<1>2. /\ Last(n) \in Character /\ n = Append(Front(n), Last(n)) /\ Len(n) = Len(Front(n)) + 1
      /\ n \in Word /\ Len(p) \in Nat
  BY <1>1, NodeFacts
<1> QED
  BY <1>1, <1>2

\* In a finite trie the children of a node can be put into the queue.
LEMMA ChildrenInQueue ==
    ASSUME MatcherTypeOK, NEW p \in goto
    PROVE  /\ SetToSeq(Children(p)) \in Seq(goto) /\ Len(SetToSeq(Children(p))) \in Nat
           /\ Children(p) \subseteq goto
           /\ \A i \in 1..Len(SetToSeq(Children(p))) : SetToSeq(Children(p))[i] \in Children(p)
           /\ \A n \in Children(p) : \E i \in 1..Len(SetToSeq(Children(p))) : SetToSeq(Children(p))[i] = n
<1> DEFINE K == Children(p)
           s == SetToSeq(K)
<1>1. K \subseteq goto
  BY DEF Children
<1>2. IsFiniteSet(K)
  BY <1>1, FS_Subset DEF MatcherTypeOK
<1> HIDE DEF K
<1>3. s \in Seq(K) /\ K = {s[i] : i \in 1..Len(s)}
  BY <1>2, SetToSeqIsOnto
<1> HIDE DEF s
<1>4. s \in Seq(goto) /\ Len(s) \in Nat
  <2>1. Seq(K) \subseteq Seq(goto)
    BY <1>1, SeqMonotonic
  <2> QED
    BY <1>3, <2>1
<1>5. /\ \A i \in 1..Len(s) : s[i] \in K
      /\ \A n \in K : \E i \in 1..Len(s) : s[i] = n
  BY <1>3
<1> QED
  BY <1>1, <1>4, <1>5 DEF s, K

\* The links that are there lead to shorter nodes, and all are right that are
\* not longer than the next node of the queue.
LEMMA LinksSoFar ==
    ASSUME MatcherTypeOK, TrieInv, LinksInv, linking
    PROVE  /\ \A m \in goto \ {Root} : Len(fail[m]) < Len(m)
           /\ Built => \A m \in goto \ {Root} : Right(m)
           /\ queue # <<>> => \A m \in goto \ {Root} : Len(m) <= Len(queue[1]) => Right(m)
<1>0. /\ Len(Root) = 0 /\ Len(queue) \in Nat
      /\ \A m \in goto : Len(m) \in Nat /\ (Len(m) = 0 <=> m = Root)
  BY NodeFacts DEF MatcherTypeOK
<1>1. \A m \in goto \ {Root} : Right(m) \/ (Raw(m) /\ Waits(m))
  BY DEF LinksInv
<1>2. ASSUME NEW m \in goto \ {Root} PROVE Len(fail[m]) < Len(m)
  <2>1. CASE Right(m)
    BY <2>1 DEF Right, Longest
  <2>2. CASE Raw(m)
    BY <1>0, <2>2 DEF Raw
  <2> QED
    BY <1>1, <2>1, <2>2
<1>3. ASSUME Built, NEW m \in goto \ {Root} PROVE Right(m)
  <2>1. Len(queue) = 0
    BY <1>3 DEF Built
  <2>2. ~Waits(m)
    BY <2>1 DEF Waits
  <2> QED
    BY <1>1, <2>2
<1>4. ASSUME queue # <<>>, NEW m \in goto \ {Root}, Len(m) <= Len(queue[1]) PROVE Right(m)
  <2>1. ASSUME NEW i \in 1..Len(queue) PROVE ~(Len(queue[i]) < Len(m))
    <3>1. 1 \in 1..Len(queue) /\ i \in 1..Len(queue) /\ queue[i] \in goto /\ queue[1] \in goto
      BY <1>0 DEF MatcherTypeOK
    <3>2. Len(queue[1]) <= Len(queue[i])
      BY <3>1 DEF LinksInv
    <3>3. Len(queue[1]) \in Nat /\ Len(queue[i]) \in Nat /\ Len(m) \in Nat
      BY <1>0, <3>1
    <3> QED
      BY <1>4, <3>2, <3>3
  <2>2. ~Waits(m)
    BY <2>1 DEF Waits
  <2> QED
    BY <1>1, <2>2
<1> QED
  BY <1>2, <1>3, <1>4

\* The link that a child gets, and its output.
LEMMA LinkChild ==
    ASSUME MatcherTypeOK, TrieInv, fail[Root] = Root, out[Root] = {},
           NEW p \in goto, p # Root, NEW n \in Children(p),
           \A m \in goto \ {Root} : Len(m) <= Len(p) => Right(m),
           \A m \in goto \ {Root} : Len(fail[m]) < Len(m),
           Right(n) \/ Raw(n)
    PROVE  /\ Step(fail[p], Last(n)) \in goto
           /\ Longest(Step(fail[p], Last(n)), n, Len(n))
           /\ out[n] \cup out[Step(fail[p], Last(n))] = CuesEnding(n)
<1> DEFINE c == Last(n)
           l == Step(fail[p], c)
<1>0. /\ \A m \in goto : m \in Word /\ Len(m) \in Nat /\ fail[m] \in goto
      /\ \A x \in ToSet(cues) : x \in goto /\ x # Root
  BY NodeFacts
<1>1. /\ n \in goto /\ n \in Word /\ c \in Character /\ n = Append(p, c) /\ Len(n) = Len(p) + 1
      /\ Len(p) \in Nat /\ p \in Word /\ fail[p] \in goto
  BY <1>0, ChildFacts
<1> HIDE DEF c
<1>2. Longest(fail[p], p, Len(p)) /\ Len(fail[p]) < Len(p) /\ Len(fail[p]) \in Nat
  <2>1. Len(p) <= Len(p)
    BY <1>1
  <2> QED
    BY <1>0, <1>1, <2>1 DEF Right
<1>3. \A m \in goto \ {Root} : Len(m) <= Len(fail[p]) => Longest(fail[m], m, Len(m))
  <2> TAKE m \in goto \ {Root}
  <2>1. Len(m) <= Len(fail[p]) => Len(m) <= Len(p)
    BY <1>0, <1>1, <1>2
  <2> QED
    BY <2>1 DEF Right
<1>4. Longest(l, Append(p, c), Len(p) + 1)
  BY <1>1, <1>2, <1>3, StepIs
<1>5. Longest(l, n, Len(n))
  BY <1>1, <1>4, Zenon
<1> HIDE DEF l
<1>6. l \in goto /\ l \in Word /\ SuffixOf(l, n) /\ Len(l) <= Len(p) /\ Len(l) \in Nat
  <2>1. l \in goto /\ SuffixOf(l, n) /\ Len(l) < Len(n)
    BY <1>5 DEF Longest
  <2>2. l \in Word /\ Len(l) \in Nat
    BY <1>0, <2>1
  <2> QED
    BY <1>1, <2>1, <2>2
<1>7. out[l] = CuesEnding(l)
  <2>1. CASE l = Root
    BY <2>1, NoneEndsRoot
  <2>2. CASE l # Root
    BY <1>6, <2>2 DEF Right
  <2> QED
    BY <2>1, <2>2
<1>8. CuesEnding(l) \subseteq CuesEnding(n)
  BY <1>0, <1>1, <1>6, SuffixTransitive DEF CuesEnding
<1>9. ASSUME NEW x \in CuesEnding(n), x # n PROVE x \in CuesEnding(l)
  <2>1. x \in ToSet(cues) /\ SuffixOf(x, n) /\ x \in goto /\ x \in Word /\ Len(x) \in Nat
    BY <1>0 DEF CuesEnding
  <2>2. SuffixOf(n, n) /\ Len(x) <= Len(n) /\ Len(n) \in Nat
    BY <1>1, <2>1, SuffixReflexive DEF SuffixOf
  <2>3. Len(x) = Len(n) => x = n
    BY <1>1, <2>1, <2>2, SuffixOfBoth
  <2>4. Len(x) < Len(n)
    BY <1>9, <2>1, <2>2, <2>3
  <2>5. Len(x) <= Len(l)
    BY <1>5, <2>1, <2>4 DEF Longest
  <2>6. SuffixOf(x, l)
    BY <1>1, <1>6, <2>1, <2>5, SuffixOfBoth
  <2> QED
    BY <2>1, <2>6 DEF CuesEnding
<1>10. out[n] = CuesEnding(n) \/ out[n] = ToSet(cues) \cap {n}
  BY DEF Right, Raw
<1>11. ToSet(cues) \cap {n} \subseteq CuesEnding(n)
  BY <1>1, SuffixReflexive DEF CuesEnding
<1>12. n \in CuesEnding(n) => n \in ToSet(cues) \cap {n}
  BY DEF CuesEnding
<1>13. out[n] \cup out[l] = CuesEnding(n)
  BY <1>7, <1>8, <1>9, <1>10, <1>11, <1>12
<1> QED
  BY <1>5, <1>6, <1>13 DEF l, c

-----------------------------------------------------------------------------
\* The empty automaton has the root only.
LEMMA MatcherInit0 == MatcherInit => MatcherInv
<1> SUFFICES ASSUME MatcherInit PROVE MatcherInv
  OBVIOUS
<1>1. /\ cues = <<>> /\ goto = {Root} /\ queue = <<>> /\ linking = FALSE
      /\ fail = [n \in {Root} |-> Root] /\ out = [n \in {Root} |-> {}]
      /\ text = <<>> /\ node = Root /\ found = {}
  BY DEF MatcherInit
<1>2. Root \in Word /\ Len(Root) = 0 /\ Root = <<>> /\ SuffixOf(Root, Root)
  <2>1. Root \in Word /\ Root = <<>>
    BY DEF Root, Word
  <2> QED
    BY <2>1, SuffixRoot
<1>3. ToSet(cues) = {} /\ Len(queue) = 0
  BY <1>1 DEF ToSet
<1>4. MatcherTypeOK
  <2>1. IsFiniteSet({Root})
    BY FS_Singleton
  <2>2. goto \subseteq Word /\ IsFiniteSet(goto) /\ node \in goto /\ cues \in Seq(Phrase)
    BY <1>1, <1>2, <2>1
  <2>3. fail \in [goto -> goto] /\ out \in [goto -> SUBSET ToSet(cues)]
    BY <1>1
  <2>4. queue \in Seq(goto) /\ linking \in BOOLEAN /\ text \in Word
    <3>1. <<>> \in Seq(goto) /\ <<>> \in Seq(Character)
      OBVIOUS
    <3> QED
      BY <1>1, <3>1, Zenon DEF Word
  <2> QED
    BY <2>2, <2>3, <2>4 DEF MatcherTypeOK
<1>5. TrieInv
  <2>1. \A k \in 0..Len(Root) : SubSeq(Root, 1, k) = Root
    <3>1. \A k \in 0..Len(Root) : k = Len(Root)
      BY <1>2
    <3> QED
      BY <1>2, <3>1, Beginnings
  <2> QED
    BY <1>1, <1>3, <2>1 DEF TrieInv
<1>6. LinksInv
  <2>1. \A n \in goto : Raw(n)
    BY <1>1, <1>3 DEF Raw
  <2> QED
    BY <1>1, <1>3, <2>1 DEF LinksInv
<1>7. ScanInv
  <2>1. Longest(Root, <<>>, Len(<<>>) + 1)
    BY <1>1, <1>2 DEF Longest
  <2> QED
    BY <1>1, <1>3, <2>1 DEF ScanInv
<1> QED
  BY <1>4, <1>5, <1>6, <1>7 DEF MatcherInv

\* A phrase is a word other than the root.
LEMMA PhraseWords ==
    /\ \A phrase \in Phrase : phrase \in Word /\ phrase # Root
    /\ cues \in Seq(Phrase) => \A c \in ToSet(cues) : c \in Phrase
<1>1. \A phrase \in Phrase : phrase \in Word /\ phrase # Root
  BY PhraseAssumption DEF Word, Root
<1>2. cues \in Seq(Phrase) => \A c \in ToSet(cues) : c \in Phrase
  BY ElementOfSeq DEF ToSet
<1> QED
  BY <1>1, <1>2

\* Inserting a cue adds its beginnings, which have no links yet, as no node has.
LEMMA InsertStep ==
    ASSUME MatcherInv, NEW phrase \in Phrase, Insert(phrase)
    PROVE  MatcherInv'
<1>1. /\ ~linking /\ cues' = Append(cues, phrase) /\ goto' = goto \cup Prefixes(phrase)
      /\ fail' = [n \in goto' |-> Root]
      /\ out' = [n \in goto' |->
                  (IF n \in goto THEN out[n] ELSE {}) \cup (IF n = phrase THEN {phrase} ELSE {})]
      /\ UNCHANGED <<queue, linking, text, node, found>>
  BY DEF Insert
<1>2. MatcherTypeOK /\ TrieInv /\ LinksInv /\ ScanInv
  BY DEF MatcherInv
<1>3. /\ phrase \in Word /\ phrase # Root /\ Len(phrase) \in Nat /\ Root \in Word /\ Len(Root) = 0
      /\ \A n \in Word : Len(n) \in Nat /\ (Len(n) = 0 <=> n = Root)
      /\ Root = <<>> /\ SuffixOf(Root, Root)
  BY PhraseWords, SuffixRoot DEF Root
<1>4. /\ ToSet(cues') = ToSet(cues) \cup {phrase} /\ cues' \in Seq(Phrase)
  <2>1. cues \in Seq(Phrase)
    BY <1>2 DEF MatcherTypeOK
  <2> QED
    BY <1>1, <2>1, ToSetAppend, AppendProperties
<1>5. ASSUME NEW n \in Prefixes(phrase)
      PROVE  n \in Word /\ \A k \in 0..Len(n) : SubSeq(n, 1, k) \in Prefixes(phrase)
  <2>1. PICK l \in 0..Len(phrase) : n = SubSeq(phrase, 1, l)
    BY DEF Prefixes
  <2>2. n \in Word /\ Len(n) = l
    BY <1>3, <2>1, Beginnings
  <2>3. ASSUME NEW k \in 0..Len(n) PROVE SubSeq(n, 1, k) \in Prefixes(phrase)
    <3>1. k \in 0..l /\ k \in 0..Len(phrase)
      BY <1>3, <2>2
    <3>2. SubSeq(n, 1, k) = SubSeq(phrase, 1, k)
      BY <1>3, <2>1, <3>1, BeginningsOfBeginnings
    <3> QED
      BY <3>1, <3>2 DEF Prefixes
  <2> QED
    BY <2>2, <2>3
<1>6. Root \in Prefixes(phrase) /\ phrase \in Prefixes(phrase)
  <2>1. 0 \in 0..Len(phrase) /\ Len(phrase) \in 0..Len(phrase)
    BY <1>3
  <2>2. SubSeq(phrase, 1, 0) = Root /\ SubSeq(phrase, 1, Len(phrase)) = phrase
    BY <1>3, <2>1, Beginnings
  <2> QED
    BY <2>1, <2>2 DEF Prefixes
<1>7. IsFiniteSet(goto')
  <2> DEFINE f == [l \in 0..Len(phrase) |-> SubSeq(phrase, 1, l)]
  <2>1. f \in Surjection(0..Len(phrase), Prefixes(phrase))
    BY DEF Surjection, Prefixes
  <2>2. IsFiniteSet(0..Len(phrase))
    BY <1>3, FS_Interval
  <2> HIDE DEF f
  <2>3. IsFiniteSet(Prefixes(phrase))
    BY <2>1, <2>2, FS_Surjection
  <2> QED
    BY <1>1, <1>2, <2>3, FS_Union DEF MatcherTypeOK
<1>8. goto' \subseteq Word /\ goto \subseteq goto' /\ phrase \in goto' /\ Root \in goto'
  BY <1>1, <1>2, <1>5, <1>6 DEF MatcherTypeOK
<1>9. /\ queue = <<>> /\ text = <<>> /\ node = Root /\ found = {}
      /\ \A n \in goto : out[n] = ToSet(cues) \cap {n}
  <2>1. queue = <<>> /\ text = <<>> /\ \A n \in goto : Raw(n)
    BY <1>1, <1>2 DEF LinksInv, ScanInv, Built
  <2>2. node \in goto /\ node \in Word /\ Len(node) < Len(text) + 1
    BY <1>2 DEF ScanInv, Longest, MatcherTypeOK
  <2>3. node = Root
    <3>1. Len(text) = 0 /\ Len(node) \in Nat
      BY <1>3, <2>1, <2>2
    <3> QED
      BY <1>3, <2>2, <3>1
  <2>4. ASSUME NEW c \in ToSet(cues), OccursIn(c, text) PROVE FALSE
    <3>1. c \in Word /\ c # Root /\ Len(c) \in Nat
      BY <1>2, <1>3, PhraseWords DEF MatcherTypeOK
    <3>2. PICK p \in 0..Len(text) : p + Len(c) <= Len(text)
      BY <2>4 DEF OccursIn
    <3>3. Len(text) = 0
      BY <1>3, <2>1
    <3>4. Len(c) = 0
      BY <3>1, <3>2, <3>3
    <3> QED
      BY <1>3, <3>1, <3>4
  <2>5. found = {}
    BY <1>2, <2>4 DEF ScanInv
  <2> QED
    BY <2>1, <2>3, <2>5 DEF Raw
<1>10. ToSet(cues) \subseteq goto /\ Root \notin ToSet(cues)
  BY <1>2 DEF TrieInv
<1>11. \A n \in goto' : fail'[n] = Root /\ out'[n] = ToSet(cues') \cap {n}
  <2> TAKE n \in goto'
  <2>1. out'[n] = (IF n \in goto THEN out[n] ELSE {}) \cup (IF n = phrase THEN {phrase} ELSE {})
    BY <1>1
  <2>2. (IF n \in goto THEN out[n] ELSE {}) = ToSet(cues) \cap {n}
    BY <1>9, <1>10
  <2>3. (IF n = phrase THEN {phrase} ELSE {}) = {phrase} \cap {n}
    OBVIOUS
  <2> QED
    BY <1>1, <1>4, <2>1, <2>2, <2>3
<1>12. MatcherTypeOK'
  <2>1. fail' \in [goto' -> goto']
    BY <1>1, <1>8
  <2>2. out' \in [goto' -> SUBSET ToSet(cues')]
    <3>1. out' = [n \in goto' |-> out'[n]]
      BY <1>1
    <3> QED
      BY <1>11, <3>1
  <2>3. queue' \in Seq(goto') /\ linking' \in BOOLEAN /\ text' \in Word /\ node' \in goto'
    BY <1>1, <1>2, <1>8, <1>9 DEF MatcherTypeOK
  <2> QED
    BY <1>4, <1>7, <1>8, <2>1, <2>2, <2>3 DEF MatcherTypeOK
<1>13. TrieInv'
  <2>1. \A n \in goto' : \A k \in 0..Len(n) : SubSeq(n, 1, k) \in goto'
    BY <1>1, <1>2, <1>5 DEF TrieInv
  <2>2. ToSet(cues') \subseteq goto' \ {Root}
    BY <1>3, <1>4, <1>8, <1>10
  <2> QED
    BY <1>8, <2>1, <2>2 DEF TrieInv
<1>14. LinksInv'
  <2>1. out'[Root] = {} /\ fail'[Root] = Root
    BY <1>3, <1>4, <1>8, <1>10, <1>11
  <2>2. \A n \in goto' : Raw(n)'
    BY <1>11 DEF Raw
  <2>3. Len(queue') = 0 /\ queue' = <<>> /\ ~linking'
    BY <1>1, <1>9
  <2> QED
    BY <2>1, <2>2, <2>3 DEF LinksInv
<1>15. ScanInv'
  <2>1. text' = <<>> /\ node' = Root /\ found' = {} /\ Len(text') = 0
    BY <1>1, <1>9
  <2>2. \A m \in goto' : Len(m) < 1 => Len(m) <= Len(Root)
    BY <1>3, <1>8
  <2>3. Longest(node, text, Len(text) + 1)'
    BY <1>3, <1>8, <2>1, <2>2 DEF Longest
  <2>4. ASSUME NEW c \in ToSet(cues'), OccursIn(c, text') PROVE FALSE
    <3>1. c \in Word /\ c # Root /\ Len(c) \in Nat
      BY <1>3, <1>4, <1>2, PhraseWords DEF MatcherTypeOK
    <3>2. PICK p \in 0..Len(text') : p + Len(c) <= Len(text')
      BY <2>4 DEF OccursIn
    <3>4. Len(c) = 0
      BY <2>1, <3>1, <3>2
    <3> QED
      BY <1>3, <3>1, <3>4
  <2>5. found' = {c \in ToSet(cues') : OccursIn(c, text')}
    BY <2>1, <2>4
  <2> QED
    BY <2>1, <2>3, <2>5 DEF ScanInv
<1> QED
  BY <1>12, <1>13, <1>14, <1>15 DEF MatcherInv

\* The children of the root link to the root; all other nodes wait behind them.
LEMMA BeginLinksStep ==
    ASSUME MatcherInv, BeginLinks
    PROVE  MatcherInv'
<1>1. /\ ~linking /\ linking' = TRUE /\ queue' = SetToSeq(Children(Root))
      /\ UNCHANGED <<cues, goto, fail, out, text, node, found>>
  BY DEF BeginLinks
<1>2. MatcherTypeOK /\ TrieInv /\ LinksInv /\ ScanInv
  BY DEF MatcherInv
<1> DEFINE K == Children(Root)
<1>3. /\ Root \in goto /\ Len(Root) = 0 /\ Root \in Word
      /\ \A n \in goto : n \in Word /\ Len(n) \in Nat /\ (Len(n) = 0 <=> n = Root) /\ SuffixOf(Root, n)
      /\ \A c \in ToSet(cues) : c \in goto /\ c # Root
  BY <1>2, NodeFacts
<1>4. PICK s :
      /\ s = SetToSeq(K)
      /\ s \in Seq(goto) /\ Len(s) \in Nat /\ K \subseteq goto
      /\ \A i \in 1..Len(s) : s[i] \in K
      /\ \A n \in K : \E i \in 1..Len(s) : s[i] = n
  BY <1>2, <1>3, ChildrenInQueue
<1>5. \A n \in K : n # Root /\ Len(n) = 1
  <2> TAKE n \in K
  <2>1. n # Root /\ Len(n) = Len(Root) + 1
    BY <1>2, <1>3, ChildFacts
  <2> QED
    BY <1>3, <2>1
<1>6. \A n \in goto : Len(n) >= 1 => SubSeq(n, 1, 1) \in K /\ (Len(n) = 1 => SubSeq(n, 1, 1) = n)
  <2> TAKE n \in goto
  <2> HAVE Len(n) >= 1
  <2>1. 1 \in 0..Len(n) /\ n \in Word
    BY <1>3
  <2> DEFINE b == SubSeq(n, 1, 1)
  <2>2. b \in goto
    BY <1>2, <2>1 DEF TrieInv
  <2>3. b \in Word /\ Len(b) = 1 /\ (Len(n) = 1 => b = n)
    BY <2>1, Beginnings
  <2> HIDE DEF b
  <2>4. b # Root
    BY <1>3, <2>3
  <2>5. Front(b) \in goto /\ Len(b) = Len(Front(b)) + 1
    BY <1>2, <2>2, <2>4, NodeFacts
  <2>6. Len(Front(b)) = 0
    BY <1>3, <2>3, <2>5
  <2>7. Front(b) = Root
    BY <1>3, <2>5, <2>6
  <2> QED
    BY <2>2, <2>3, <2>4, <2>7 DEF Children, b
<1>7. \A n \in goto : Raw(n)
  BY <1>1, <1>2 DEF LinksInv
<1>8. ASSUME NEW n \in K PROVE Right(n)
  <2>1. n \in goto /\ n \in Word /\ Len(n) = 1 /\ fail[n] = Root /\ out[n] = ToSet(cues) \cap {n}
    BY <1>3, <1>4, <1>5, <1>7 DEF Raw
  <2>2. Longest(Root, n, 1)
    BY <1>3, <2>1 DEF Longest
  <2>3. ASSUME NEW c \in ToSet(cues), SuffixOf(c, n) PROVE c = n
    <3>1. c \in goto /\ c \in Word /\ Len(c) \in Nat /\ Len(c) # 0 /\ Len(c) <= 1
      BY <1>3, <2>1, <2>3 DEF SuffixOf
    <3>2. Len(c) <= Len(n) /\ Len(c) = Len(n) /\ SuffixOf(n, n)
      BY <2>1, <3>1, SuffixReflexive
    <3> QED
      BY <2>1, <2>3, <3>1, <3>2, SuffixOfBoth
  <2>4. out[n] = CuesEnding(n)
    BY <2>1, <2>3, SuffixReflexive DEF CuesEnding
  <2> QED
    BY <2>1, <2>2, <2>4 DEF Right
<1> HIDE DEF K
<1>9. \A n \in goto : Right(n)' <=> Right(n)
  BY <1>1 DEF Right, Longest, CuesEnding
<1>10. \A n \in goto : Raw(n)' <=> Raw(n)
  BY <1>1 DEF Raw
<1>11. queue' = s
  BY <1>1, <1>4 DEF K
<1>12. ASSUME NEW n \in goto \ {Root} PROVE Right(n)' \/ (Raw(n)' /\ Waits(n)')
  <2>1. Len(n) >= 1 /\ Len(n) \in Nat
    BY <1>3
  <2>2. SubSeq(n, 1, 1) \in K /\ (Len(n) = 1 => SubSeq(n, 1, 1) = n)
    BY <1>6, <2>1
  <2>3. CASE Len(n) = 1
    BY <1>8, <1>9, <2>2, <2>3
  <2>4. CASE Len(n) # 1
    <3>1. PICK i \in 1..Len(s) : s[i] = SubSeq(n, 1, 1)
      BY <1>4, <2>2
    <3>2. Len(s[i]) = 1
      BY <1>5, <2>2, <3>1
    <3>3. Len(s[i]) < Len(n) /\ SubSeq(n, 1, Len(s[i])) = s[i]
      <4>1. Len(s[i]) < Len(n)
        <5>1. \A x \in Nat : x >= 1 /\ x # 1 => 1 < x
          OBVIOUS
        <5>2. 1 < Len(n)
          BY <2>1, <2>4, <5>1, Zenon
        <5> QED
          BY <3>2, <5>2, Zenon
      <4>2. SubSeq(n, 1, Len(s[i])) = s[i]
        BY <3>1, <3>2, Zenon
      <4> QED
        BY <4>1, <4>2
    <3>4. Waits(n)'
      BY <1>11, <3>3 DEF Waits
    <3> QED
      BY <1>7, <1>10, <3>4
  <2> QED
    BY <2>3, <2>4
<1>13. MatcherTypeOK'
  BY <1>1, <1>2, <1>4, <1>11 DEF MatcherTypeOK
<1>14. TrieInv'
  BY <1>1, <1>2 DEF TrieInv
<1>15. LinksInv'
  <2>1. fail'[Root] = Root /\ out'[Root] = {} /\ goto' = goto /\ linking'
    BY <1>1, <1>2 DEF LinksInv
  <2>2. ASSUME NEW i \in 1..Len(s)
        PROVE  /\ s[i] # Root /\ Right(s[i])'
               /\ \A j \in i..Len(s) : Len(s[i]) <= Len(s[j]) /\ Len(s[j]) <= Len(s[i]) + 1
    <3>1. s[i] \in K /\ s[i] \in goto /\ Len(s[i]) = 1 /\ s[i] # Root
      BY <1>4, <1>5
    <3>2. \A j \in i..Len(s) : j \in 1..Len(s)
      BY <1>4
    <3>3. \A j \in i..Len(s) : Len(s[j]) = 1
      BY <1>4, <1>5, <3>2
    <3>4. Right(s[i])
      BY <1>8, <3>1
    <3>5. Right(s[i])'
      BY <1>9, <3>1, <3>4
    <3>6. \A j \in i..Len(s) : Len(s[i]) <= Len(s[j]) /\ Len(s[j]) <= Len(s[i]) + 1
      <4>1. 1 <= 1 /\ 1 <= 1 + 1
        OBVIOUS
      <4> QED
        BY <3>1, <3>3, <4>1, Zenon
    <3> QED
      BY <3>1, <3>5, <3>6
  <2> QED
    <3>1. \A n \in goto' \ {Root} : Right(n)' \/ (Raw(n)' /\ Waits(n)')
      BY <1>12, <2>1
    <3>2. \A i \in 1..Len(queue') :
            /\ queue'[i] # Root /\ Right(queue[i])'
            /\ \A j \in i..Len(queue') :
                 Len(queue'[i]) <= Len(queue'[j]) /\ Len(queue'[j]) <= Len(queue'[i]) + 1
      <4> TAKE i \in 1..Len(queue')
      <4>1. i \in 1..Len(s) /\ queue'[i] = s[i]
        BY <1>11
      <4>2. Right(s[i])' => Right(queue[i])'
        BY <4>1 DEF Right, Longest, CuesEnding
      <4> QED
        BY <1>11, <2>2, <4>1, <4>2
    <3> QED
      BY <2>1, <3>1, <3>2 DEF LinksInv
<1>16. ScanInv'
  <2>1. text = <<>>
    BY <1>1, <1>2 DEF ScanInv, Built
  <2> QED
    BY <1>1, <1>2, <2>1 DEF ScanInv, Longest
<1> QED
  BY <1>13, <1>14, <1>15, <1>16 DEF MatcherInv

\* The children of the head of the queue get the right links: what StepIs says of
\* the head's link and the children's last characters.
LEMMA LinkStep ==
    ASSUME MatcherInv, Link
    PROVE  MatcherInv'
<1>1. MatcherTypeOK /\ TrieInv /\ LinksInv /\ ScanInv
  BY DEF MatcherInv
<1>2. PICK p, L : p = queue[1] /\ L = Len(queue)
  OBVIOUS
<1>3. /\ queue # <<>> /\ L \in Nat /\ L >= 1 /\ p = Head(queue) /\ p \in goto
      /\ \A i \in 1..L : queue[i] \in goto
      /\ Tail(queue) \in Seq(goto) /\ Len(Tail(queue)) = L - 1
      /\ \A i \in 1..L - 1 : Tail(queue)[i] = queue[i + 1]
  <2>1. queue # <<>> /\ queue \in Seq(goto)
    BY <1>1 DEF Link, MatcherTypeOK
  <2>2. L \in Nat /\ L >= 1 /\ p = Head(queue) /\ \A i \in 1..L : queue[i] \in goto
    BY <1>2, <2>1, ElementOfSeq, EmptySeq
  <2>3. Tail(queue) \in Seq(goto) /\ Len(Tail(queue)) = L - 1
        /\ \A i \in 1..Len(Tail(queue)) : Tail(queue)[i] = queue[i + 1]
    BY <1>2, <2>1, HeadTailProperties
  <2>4. 1 \in 1..L
    BY <2>2
  <2> QED
    BY <1>2, <2>1, <2>2, <2>3, <2>4
<1>4. PICK K, s :
      /\ K = Children(p) /\ s = SetToSeq(K)
      /\ s \in Seq(goto) /\ Len(s) \in Nat /\ K \subseteq goto
      /\ \A i \in 1..Len(s) : s[i] \in K
      /\ \A n \in K : \E i \in 1..Len(s) : s[i] = n
  <2>1. PICK K, s : K = Children(p) /\ s = SetToSeq(K)
    OBVIOUS
  <2>2. /\ SetToSeq(Children(p)) \in Seq(goto) /\ Len(SetToSeq(Children(p))) \in Nat
        /\ Children(p) \subseteq goto
        /\ \A i \in 1..Len(SetToSeq(Children(p))) : SetToSeq(Children(p))[i] \in Children(p)
        /\ \A n \in Children(p) :
              \E i \in 1..Len(SetToSeq(Children(p))) : SetToSeq(Children(p))[i] = n
    BY <1>1, <1>3, ChildrenInQueue, Zenon
  <2> QED
    BY <2>1, <2>2, Zenon
<1>5. /\ linking /\ ~Built /\ fail[Root] = Root /\ out[Root] = {}
      /\ p # Root
      /\ \A i \in 1..L : queue[i] # Root /\ Right(queue[i])
      /\ \A i \in 1..L : \A j \in i..L :
            Len(queue[i]) <= Len(queue[j]) /\ Len(queue[j]) <= Len(queue[i]) + 1
  <2>1. linking
    BY <1>1, <1>3 DEF LinksInv
  <2>2. 1 \in 1..L
    BY <1>3
  <2> QED
    BY <1>1, <1>2, <1>3, <2>1, <2>2 DEF LinksInv, Built
<1>6. /\ \A m \in goto \ {Root} : Len(fail[m]) < Len(m)
      /\ \A m \in goto \ {Root} : Len(m) <= Len(p) => Right(m)
  BY <1>1, <1>2, <1>3, <1>5, LinksSoFar
<1>7. \A m \in goto : m \in Word /\ Len(m) \in Nat /\ (Len(m) = 0 <=> m = Root)
  BY <1>1, NodeFacts
<1>8. ASSUME NEW n \in K
      PROVE  /\ n \in goto \ {Root} /\ Len(n) = Len(p) + 1
             /\ Step(fail[p], Last(n)) \in goto
             /\ Longest(Step(fail[p], Last(n)), n, Len(n))
             /\ out[n] \cup out[Step(fail[p], Last(n))] = CuesEnding(n)
  <2>1. n \in Children(p)
    BY <1>4
  <2>2. n \in goto \ {Root} /\ Len(n) = Len(p) + 1
    BY <1>1, <1>3, <2>1, ChildFacts
  <2>3. Right(n) \/ Raw(n)
    BY <1>1, <1>5, <2>2 DEF LinksInv
  <2> QED
    BY <1>1, <1>3, <1>5, <1>6, <2>1, <2>2, <2>3, LinkChild
<1>9. /\ queue' = Tail(queue) \o s
      /\ \A n \in goto : fail'[n] = IF n \in K THEN Step(fail[p], Last(n)) ELSE fail[n]
      /\ \A n \in goto : out'[n] = IF n \in K THEN out[n] \cup out[Step(fail[p], Last(n))] ELSE out[n]
      /\ fail' = [n \in goto |-> fail'[n]] /\ out' = [n \in goto |-> out'[n]]
      /\ UNCHANGED <<cues, goto, linking, text, node, found>>
  <2> DEFINE link == [n \in K |-> Step(fail[p], Last(n))]
  <2>1. /\ queue' = Tail(queue) \o s
        /\ fail' = [n \in goto |-> IF n \in DOMAIN link THEN link[n] ELSE fail[n]]
        /\ out' = [n \in goto |->
                    IF n \in DOMAIN link THEN MergedOutput(n, link[n]) ELSE out[n]]
        /\ UNCHANGED <<cues, goto, linking, text, node, found>>
    BY <1>3, <1>4 DEF Link
  <2>2. DOMAIN link = K /\ \A n \in K : link[n] = Step(fail[p], Last(n))
    OBVIOUS
  <2> HIDE DEF link
  <2>3. \A n \in goto : fail'[n] = IF n \in K THEN Step(fail[p], Last(n)) ELSE fail[n]
    BY <2>1, <2>2
  <2>4. \A n \in goto : out'[n] = IF n \in K THEN out[n] \cup out[Step(fail[p], Last(n))] ELSE out[n]
    BY <2>1, <2>2 DEF MergedOutput
  <2>5. fail' = [n \in goto |-> fail'[n]] /\ out' = [n \in goto |-> out'[n]]
    BY <2>1
  <2> QED
    BY <2>1, <2>3, <2>4, <2>5
<1>10. ASSUME NEW n \in K PROVE Right(n)'
  <2>1. /\ n \in goto /\ fail'[n] = Step(fail[p], Last(n))
        /\ out'[n] = CuesEnding(n) /\ Longest(fail'[n], n, Len(n))
    <3>1. /\ n \in goto
          /\ Longest(Step(fail[p], Last(n)), n, Len(n))
          /\ out[n] \cup out[Step(fail[p], Last(n))] = CuesEnding(n)
      BY <1>8
    <3>2. fail'[n] = Step(fail[p], Last(n)) /\ out'[n] = out[n] \cup out[Step(fail[p], Last(n))]
      BY <1>9, <3>1
    <3> QED
      BY <3>1, <3>2, Zenon
  <2> QED
    BY <1>9, <2>1 DEF Right, Longest, CuesEnding
<1>11. ASSUME NEW n \in goto, Right(n) PROVE Right(n)'
  <2>1. CASE n \in K
    BY <1>10, <2>1
  <2>2. CASE n \notin K
    <3>1. fail'[n] = fail[n] /\ out'[n] = out[n]
      BY <1>9, <2>2
    <3> QED
      BY <1>9, <1>11, <3>1 DEF Right, Longest, CuesEnding
  <2> QED
    BY <2>1, <2>2
<1>12. /\ Len(queue') = L - 1 + Len(s) /\ queue' \in Seq(goto)
       /\ \A i \in 1..L - 1 : queue'[i] = queue[i + 1]
       /\ \A i \in 1..Len(s) : queue'[L - 1 + i] = s[i]
  <2>1. /\ Tail(queue) \o s \in Seq(goto)
        /\ Len(Tail(queue) \o s) = Len(Tail(queue)) + Len(s)
        /\ \A i \in 1..Len(Tail(queue)) + Len(s) : (Tail(queue) \o s)[i] =
              IF i <= Len(Tail(queue)) THEN Tail(queue)[i] ELSE s[i - Len(Tail(queue))]
    BY <1>3, <1>4, ConcatProperties
  <2>2. ASSUME NEW i \in 1..L - 1 PROVE queue'[i] = queue[i + 1]
    <3>1. i \in 1..(L - 1) + Len(s) /\ i <= L - 1
      BY <1>3, <1>4
    <3>2. (Tail(queue) \o s)[i] = Tail(queue)[i]
      BY <1>3, <2>1, <3>1
    <3> QED
      BY <1>3, <1>9, <3>2
  <2>3. ASSUME NEW i \in 1..Len(s) PROVE queue'[L - 1 + i] = s[i]
    <3>1. /\ L - 1 + i \in 1..(L - 1) + Len(s) /\ ~(L - 1 + i <= L - 1)
          /\ (L - 1 + i) - (L - 1) = i
      BY <1>3, <1>4
    <3>2. (Tail(queue) \o s)[L - 1 + i] = s[(L - 1 + i) - (L - 1)]
      BY <1>3, <2>1, <3>1
    <3> QED
      BY <1>9, <3>1, <3>2
  <2> QED
    BY <1>3, <1>9, <2>1, <2>2, <2>3
<1>13. \A i \in 1..Len(queue') :
         \/ i \in 1..L - 1 /\ i + 1 \in 1..L /\ queue'[i] = queue[i + 1]
         \/ i - (L - 1) \in 1..Len(s) /\ i > L - 1 /\ queue'[i] = s[i - (L - 1)] /\ queue'[i] \in K
  <2> TAKE i \in 1..Len(queue')
  <2>1. CASE i <= L - 1
    <3>1. i \in 1..L - 1 /\ i + 1 \in 1..L
      BY <1>3, <2>1
    <3> QED
      BY <1>12, <3>1
  <2>2. CASE ~(i <= L - 1)
    <3>1. i - (L - 1) \in 1..Len(s) /\ i > L - 1 /\ (L - 1) + (i - (L - 1)) = i
      <4>1. PICK m : m = Len(s)
        OBVIOUS
      <4>2. i \in 1..L - 1 + m /\ m \in Nat /\ L - 1 \in Nat
        <5>1. i \in 1..L - 1 + m /\ m \in Nat
          BY <1>4, <1>12, <4>1, Zenon
        <5>2. L - 1 \in Nat
          BY <1>3
        <5> QED
          BY <5>1, <5>2
      <4>3. i - (L - 1) \in 1..m /\ i > L - 1 /\ (L - 1) + (i - (L - 1)) = i
        BY <1>3, <2>2, <4>2
      <4> QED
        BY <4>1, <4>3
    <3> QED
      BY <1>4, <1>12, <3>1
  <2> QED
    BY <2>1, <2>2
<1>14. \A n \in K : \E i \in 1..Len(queue') : queue'[i] = n
  <2> TAKE n \in K
  <2>1. PICK i \in 1..Len(s) : s[i] = n
    BY <1>4
  <2>2. L - 1 + i \in 1..Len(queue')
    BY <1>3, <1>4, <1>12
  <2> QED
    BY <1>12, <2>1, <2>2
<1>15. ASSUME NEW n \in goto \ {Root} PROVE Right(n)' \/ (Raw(n)' /\ Waits(n)')
  <2>1. CASE Right(n) \/ n \in K
    BY <1>10, <1>11, <2>1
  <2>2. CASE ~Right(n) /\ n \notin K
    <3>1. Raw(n) /\ Waits(n)
      BY <1>1, <1>5, <2>2 DEF LinksInv
    <3>2. Raw(n)'
      <4>1. fail'[n] = fail[n] /\ out'[n] = out[n]
        BY <1>9, <2>2
      <4> QED
        BY <1>9, <3>1, <4>1 DEF Raw
    <3>3. PICK i \in 1..L : Len(queue[i]) < Len(n) /\ SubSeq(n, 1, Len(queue[i])) = queue[i]
      BY <1>2, <3>1 DEF Waits
    <3>4. CASE i # 1
      <4>1. i - 1 \in 1..Len(queue') /\ i - 1 \in 1..L - 1 /\ (i - 1) + 1 = i
        BY <1>3, <1>4, <1>12, <3>4
      <4>2. queue'[i - 1] = queue[i]
        BY <1>12, <4>1
      <4>3. Len(queue'[i - 1]) < Len(n) /\ SubSeq(n, 1, Len(queue'[i - 1])) = queue'[i - 1]
        BY <3>3, <4>2, Zenon
      <4>4. Waits(n)'
        BY <4>1, <4>3 DEF Waits
      <4> QED
        BY <3>2, <4>4
    <3>5. CASE i = 1
      <4>1. Len(p) < Len(n) /\ SubSeq(n, 1, Len(p)) = p
        BY <1>2, <3>3, <3>5
      <4>2. Len(p) \in Nat /\ Len(n) \in Nat /\ n \in Word
        BY <1>3, <1>7
      <4> DEFINE k == Len(p) + 1
                 b == SubSeq(n, 1, k)
      <4>3. k \in 0..Len(n) /\ Len(p) \in 0..k /\ k >= 1 /\ k - 1 = Len(p) /\ k \in Nat
        BY <4>1, <4>2
      <4> HIDE DEF k
      <4>4. b \in goto
        BY <1>1, <4>3 DEF TrieInv
      <4>5. b \in Word /\ Len(b) = k /\ (k = Len(n) => b = n)
        BY <4>2, <4>3, Beginnings
      <4>6. SubSeq(b, 1, Len(p)) = SubSeq(n, 1, Len(p))
        BY <4>2, <4>3, BeginningsOfBeginnings
      <4> HIDE DEF b
      <4>7. b # Root
        BY <1>7, <4>3, <4>4, <4>5
      <4>8. Front(b) = p
        BY <4>1, <4>3, <4>5, <4>6, Zenon DEF Front
      <4>9. b \in K
        BY <1>4, <4>4, <4>7, <4>8 DEF Children
      <4>10. k # Len(n)
        BY <2>2, <4>5, <4>9
      <4>11. k < Len(n)
        BY <4>2, <4>3, <4>10
      <4>12. PICK j \in 1..Len(queue') : queue'[j] = b
        BY <1>14, <4>9
      <4>13. Len(queue'[j]) < Len(n) /\ SubSeq(n, 1, Len(queue'[j])) = queue'[j]
        BY <4>5, <4>11, <4>12, Zenon DEF b
      <4>14. Waits(n)'
        BY <4>12, <4>13 DEF Waits
      <4> QED
        BY <3>2, <4>14
    <3> QED
      BY <3>4, <3>5
  <2> QED
    BY <2>1, <2>2
<1>16. ASSUME NEW i \in 1..Len(queue')
       PROVE  queue'[i] # Root /\ Right(queue[i])'
  <2>0. queue'[i] \in goto
    BY <1>12, ElementOfSeq
  <2>1. PICK x : x = queue'[i]
    OBVIOUS
  <2>4. x = queue'[i] /\ x # Root /\ Right(x)'
    <3>1. x \in K => x # Root /\ Right(x)'
      BY <1>8, <1>10
    <3>2. x \notin K => x # Root /\ Right(x)'
      <4> HAVE x \notin K
      <4>1. i + 1 \in 1..L /\ x = queue[i + 1]
        BY <1>13, <2>1
      <4>2. x \in goto /\ x # Root /\ Right(x)
        BY <1>3, <1>5, <4>1
      <4> QED
        BY <1>11, <4>2
    <3> QED
      BY <2>1, <3>1, <3>2
  <2>5. Right(queue[i])'
    BY <2>4 DEF Right, Longest, CuesEnding
  <2> QED
    BY <2>4, <2>5
<1>17. ASSUME NEW i \in 1..Len(queue'), NEW j \in i..Len(queue')
       PROVE  Len(queue'[i]) <= Len(queue'[j]) /\ Len(queue'[j]) <= Len(queue'[i]) + 1
  <2>0. j \in 1..Len(queue') /\ i <= j /\ i \in Int /\ j \in Int /\ Len(p) \in Nat /\ 1 \in 1..L
    BY <1>3, <1>4, <1>7, <1>12
  <2>1. \A a \in 1..L : Len(queue[a]) \in Nat /\ Len(p) <= Len(queue[a]) /\ Len(queue[a]) <= Len(p) + 1
    <3> TAKE a \in 1..L
    <3>1. a \in 1..L /\ 1 \in 1..L /\ a \in 1..L
      BY <2>0
    <3> QED
      BY <1>2, <1>3, <1>5, <1>7, <3>1
  <2>2. \A x \in K : Len(x) = Len(p) + 1
    BY <1>8
  <2>3. CASE j \in 1..L - 1 /\ i \in 1..L - 1
    <3>1. i + 1 \in 1..L /\ j + 1 \in i + 1..L /\ j + 1 \in 1..L
      BY <1>3, <2>0, <2>3
    <3>2. queue'[i] = queue[i + 1] /\ queue'[j] = queue[j + 1]
      BY <1>12, <2>3
    <3>3. Len(queue[i + 1]) <= Len(queue[j + 1]) /\ Len(queue[j + 1]) <= Len(queue[i + 1]) + 1
      BY <1>5, <3>1
    <3> QED
      BY <3>2, <3>3, Zenon
  <2>4. CASE ~(j \in 1..L - 1)
    <3>1. queue'[j] \in K /\ Len(queue'[j]) = Len(p) + 1
      BY <1>13, <2>0, <2>2, <2>4
    <3>2. Len(queue'[i]) \in Nat /\ Len(p) <= Len(queue'[i]) /\ Len(queue'[i]) <= Len(p) + 1
      <4>1. CASE queue'[i] \in K
        <5>1. Len(queue'[i]) = Len(p) + 1
          BY <2>2, <4>1
        <5> QED
          BY <2>0, <5>1
      <4>2. CASE queue'[i] \notin K
        <5>1. i + 1 \in 1..L /\ queue'[i] = queue[i + 1]
          BY <1>13, <4>2
        <5> QED
          BY <2>1, <5>1
      <4> QED
        BY <4>1, <4>2
    <3> QED
      BY <2>0, <3>1, <3>2
  <2>5. CASE j \in 1..L - 1 /\ ~(i \in 1..L - 1)
    BY <1>3, <2>0, <2>5
  <2> QED
    BY <2>3, <2>4, <2>5
<1>18. MatcherTypeOK'
  <2>1. \A n \in goto : fail'[n] \in goto /\ out'[n] \in SUBSET ToSet(cues)
    <3> TAKE n \in goto
    <3>1. CASE n \in K
      BY <1>8, <1>9, <3>1 DEF CuesEnding
    <3>2. CASE n \notin K
      BY <1>1, <1>9, <3>2 DEF MatcherTypeOK
    <3> QED
      BY <3>1, <3>2
  <2>2. fail' \in [goto -> goto] /\ out' \in [goto -> SUBSET ToSet(cues)]
    BY <1>9, <2>1
  <2> QED
    BY <1>1, <1>9, <1>12, <2>2 DEF MatcherTypeOK
<1>19. TrieInv'
  BY <1>1, <1>9 DEF TrieInv
<1>20. LinksInv'
  <2>1. Root \notin K /\ Root \in goto
    BY <1>1, <1>8 DEF TrieInv
  <2>2. fail'[Root] = Root /\ out'[Root] = {} /\ linking' /\ goto' = goto
    BY <1>5, <1>9, <2>1
  <2> QED
    BY <1>15, <1>16, <1>17, <2>2 DEF LinksInv
<1>21. ScanInv'
  <2>1. text' = <<>>
    BY <1>1, <1>5, <1>9 DEF ScanInv
  <2> QED
    BY <1>1, <1>9, <2>1 DEF ScanInv, Longest
<1> QED
  BY <1>18, <1>19, <1>20, <1>21 DEF MatcherInv

\* Reading a character moves to the longest node that ends the text with it, and
\* that node's output is every cue that ends there.
LEMMA ReadStep ==
    ASSUME MatcherInv, NEW c \in Character, Read(c)
    PROVE  MatcherInv'
<1>1. MatcherTypeOK /\ TrieInv /\ LinksInv /\ ScanInv
  BY DEF MatcherInv
<1>2. /\ Built /\ text' = Append(text, c) /\ node' = Step(node, c) /\ found' = found \cup out[node']
      /\ UNCHANGED <<cues, goto, fail, out, queue, linking>>
  BY DEF Read
<1>3. /\ \A m \in goto : m \in Word /\ Len(m) \in Nat
      /\ \A x \in ToSet(cues) : x \in goto /\ x # Root
      /\ node \in goto /\ text \in Word /\ Len(text) + 1 \in Nat
      /\ fail[Root] = Root /\ out[Root] = {} /\ linking
  <2>1. /\ \A m \in goto : m \in Word /\ Len(m) \in Nat
        /\ \A x \in ToSet(cues) : x \in goto /\ x # Root
    BY <1>1, NodeFacts
  <2>2. node \in goto /\ text \in Word
    BY <1>1 DEF MatcherTypeOK
  <2>3. Len(text) + 1 \in Nat
    BY <2>2, LenProperties DEF Word
  <2>4. fail[Root] = Root /\ out[Root] = {} /\ linking
    BY <1>1, <1>2 DEF LinksInv, Built
  <2> QED
    BY <2>1, <2>2, <2>3, <2>4
<1>4. /\ \A m \in goto \ {Root} : Right(m)
      /\ \A m \in goto \ {Root} : Len(fail[m]) < Len(m)
  BY <1>1, <1>2, <1>3, LinksSoFar
<1>5. Longest(node, text, Len(text) + 1)
  BY <1>1 DEF ScanInv
<1>6. Longest(Step(node, c), Append(text, c), (Len(text) + 1) + 1)
  <2>1. \A m \in goto \ {Root} : Len(m) <= Len(node) => Longest(fail[m], m, Len(m))
    BY <1>4 DEF Right
  <2> QED
    BY <1>1, <1>3, <1>4, <1>5, <2>1, StepIs
<1>7. PICK r, u : r = node' /\ u = text'
  OBVIOUS
<1>8. u \in Word /\ Len(u) = Len(text) + 1 /\ u = Append(text, c)
  BY <1>2, <1>3, <1>7, AppendProperties DEF Word
<1>9. Longest(r, u, Len(u) + 1)
  BY <1>2, <1>6, <1>7, <1>8, Zenon
<1>10. r \in goto /\ SuffixOf(r, u) /\ r \in Word
  BY <1>3, <1>9 DEF Longest
<1>11. out[r] = CuesEnding(r)
  <2>1. CASE r = Root
    BY <1>1, <1>3, <2>1, NoneEndsRoot
  <2>2. CASE r # Root
    BY <1>4, <1>10, <2>2 DEF Right
  <2> QED
    BY <2>1, <2>2
<1>12. CuesEnding(r) = CuesEnding(u)
  <2>1. ASSUME NEW x \in CuesEnding(r) PROVE x \in CuesEnding(u)
    BY <1>3, <1>8, <1>10, SuffixTransitive DEF CuesEnding
  <2>2. ASSUME NEW x \in CuesEnding(u) PROVE x \in CuesEnding(r)
    <3>1. x \in ToSet(cues) /\ SuffixOf(x, u) /\ x \in goto /\ x \in Word /\ Len(x) \in Nat
      BY <1>3 DEF CuesEnding
    <3>2. Len(x) < Len(u) + 1
      <4>1. Len(x) <= Len(u) /\ Len(u) \in Nat
        BY <1>3, <1>8, <3>1 DEF SuffixOf
      <4> QED
        BY <3>1, <4>1
    <3>3. Len(x) <= Len(r)
      BY <1>9, <3>1, <3>2 DEF Longest
    <3>4. SuffixOf(x, r)
      BY <1>8, <1>10, <3>1, <3>3, SuffixOfBoth
    <3> QED
      BY <3>1, <3>4 DEF CuesEnding
  <2> QED
    BY <2>1, <2>2
<1>13. found' = {x \in ToSet(cues) : OccursIn(x, u)}
  <2>1. found' = {x \in ToSet(cues) : OccursIn(x, text)} \cup {x \in ToSet(cues) : SuffixOf(x, u)}
    BY <1>1, <1>2, <1>7, <1>11, <1>12 DEF ScanInv, CuesEnding
  <2>2. \A x \in ToSet(cues) : OccursIn(x, u) <=> OccursIn(x, text) \/ SuffixOf(x, u)
    BY <1>3, <1>8, OccursAppend
  <2> QED
    BY <2>1, <2>2
<1>14. MatcherTypeOK'
  BY <1>1, <1>2, <1>7, <1>8, <1>10 DEF MatcherTypeOK
<1>15. TrieInv'
  BY <1>1, <1>2 DEF TrieInv
<1>16. LinksInv'
  <2>1. \A n : (Right(n) => Right(n)') /\ (Raw(n) => Raw(n)') /\ (Waits(n) => Waits(n)')
    BY <1>2 DEF Right, Longest, CuesEnding, Raw, Waits
  <2>2. queue = <<>> /\ Len(queue') = 0
    BY <1>2 DEF Built
  <2> QED
    BY <1>1, <1>2, <1>3, <2>1, <2>2 DEF LinksInv
<1>17. ScanInv'
  <2>1. Built'
    BY <1>2 DEF Built
  <2>2. Longest(node, text, Len(text) + 1)'
    BY <1>2, <1>7, <1>9 DEF Longest
  <2>3. found' = {x \in ToSet(cues') : OccursIn(x, text')}
    BY <1>2, <1>7, <1>13
  <2> QED
    BY <2>1, <2>2, <2>3 DEF ScanInv
<1> QED
  BY <1>14, <1>15, <1>16, <1>17 DEF MatcherInv

\* Every step of the automaton keeps its invariant.
LEMMA MatcherStep ==
    ASSUME MatcherInv, MatcherNext
    PROVE  MatcherInv'
BY InsertStep, BeginLinksStep, LinkStep, ReadStep DEF MatcherNext

\* An automaton that does not move keeps its invariant.
LEMMA MatcherRests ==
    ASSUME MatcherInv, UNCHANGED matcherVars
    PROVE  MatcherInv'
<1>1. UNCHANGED <<cues, goto, fail, out, queue, linking, text, node, found>>
  BY DEF matcherVars
<1>2. MatcherTypeOK' /\ TrieInv'
  BY <1>1 DEF MatcherInv, MatcherTypeOK, TrieInv
<1>3. LinksInv'
  <2>1. \A n : (Right(n) => Right(n)') /\ (Raw(n) => Raw(n)') /\ (Waits(n) => Waits(n)')
    BY <1>1 DEF Right, Longest, CuesEnding, Raw, Waits
  <2>2. \A i \in 1..Len(queue) : Right(queue[i])'
    BY <1>1 DEF MatcherInv, LinksInv, Right, Longest, CuesEnding
  <2> QED
    BY <1>1, <2>1, <2>2 DEF MatcherInv, LinksInv
<1>4. ScanInv'
  BY <1>1 DEF MatcherInv, ScanInv, Built, Longest
<1> QED
  BY <1>2, <1>3, <1>4 DEF MatcherInv

-----------------------------------------------------------------------------
\* s lists a set of k elements in the order of the numbers that ord gives them.
Lists(s, k, F, ord) ==
    /\ s \in [1..k -> F]
    /\ \A i, j \in 1..k : i < j => ord[s[i]] < ord[s[j]]

\* Only one list is in order.
LEMMA OneList ==
    ASSUME NEW k \in Nat, NEW F, IsFiniteSet(F), Cardinality(F) = k, NEW ord \in [F -> Nat],
           NEW r, NEW s, Lists(r, k, F, ord), Lists(s, k, F, ord)
    PROVE  r = s
<1>1. ASSUME NEW x, Lists(x, k, F, ord)
      PROVE  /\ \A i, j \in 1..k : x[i] = x[j] => i = j
             /\ \A e \in F : \E i \in 1..k : x[i] = e
  <2>1. x \in [1..k -> F] /\ \A i, j \in 1..k : i < j => ord[x[i]] < ord[x[j]]
    BY <1>1 DEF Lists
  <2>2. \A i, j \in 1..k : x[i] = x[j] => i = j
    <3> SUFFICES ASSUME NEW i \in 1..k, NEW j \in 1..k, x[i] = x[j], i # j PROVE FALSE
      OBVIOUS
    <3>1. ord[x[i]] \in Nat /\ ord[x[j]] = ord[x[i]]
      BY <2>1
    <3>2. i < j \/ j < i
      OBVIOUS
    <3>3. ord[x[i]] < ord[x[i]]
      BY <2>1, <3>1, <3>2
    <3> QED
      BY <3>1, <3>3
  <2>3. x \in Injection(1..k, F)
    BY <2>1, <2>2 DEF Injection, IsInjective
  <2>4. IsFiniteSet(1..k) /\ Cardinality(1..k) = k
    <3>1. 1 \in Int /\ k \in Int
      OBVIOUS
    <3>2. IsFiniteSet(1..k) /\ Cardinality(1..k) = IF 1 > k THEN 0 ELSE k - 1 + 1
      BY <3>1, FS_Interval
    <3> QED
      BY <3>2
  <2>5. x \in Surjection(1..k, F)
    BY <2>3, <2>4, FS_Injection
  <2> QED
    BY <2>1, <2>2, <2>5 DEF Surjection
<1> DEFINE Apart == {i \in 1..k : r[i] # s[i]}
<1>2. ASSUME Apart # {} PROVE FALSE
  <2>1. PICK m \in Apart : \A i \in Apart : m <= i
    <3>1. Apart \subseteq Nat
      OBVIOUS
    <3> HIDE DEF Apart
    <3> QED
      BY <1>2, <3>1, SmallestOf
  <2>2. m \in 1..k /\ r[m] # s[m] /\ \A i \in 1..k : i < m => r[i] = s[i]
    <3> SUFFICES ASSUME NEW i \in 1..k, i < m, r[i] # s[i] PROVE FALSE
      BY <2>1
    <3>1. i \in Apart
      OBVIOUS
    <3>2. m <= i
      BY <2>1, <3>1
    <3> QED
      BY <3>2
  <2>3. ASSUME NEW x, NEW y, Lists(x, k, F, ord), Lists(y, k, F, ord), x[m] # y[m],
               \A i \in 1..k : i < m => x[i] = y[i]
        PROVE  ~(ord[x[m]] <= ord[y[m]])
    <3>0. m \in 1..k /\ x[m] \in F
      BY <2>2, <2>3 DEF Lists
    <3>1. PICK i \in 1..k : y[i] = x[m]
      BY <1>1, <2>3, <3>0
    <3>2. ~(i < m)
      <4> SUFFICES ASSUME i < m PROVE FALSE
        OBVIOUS
      <4>1. x[i] = x[m]
        BY <2>3, <3>1
      <4>2. i = m
        BY <1>1, <2>3, <3>0, <4>1
      <4> QED
        BY <4>2
    <3>3. i # m
      BY <2>3, <3>1
    <3>4. m < i
      BY <3>0, <3>2, <3>3
    <3>5. ord[y[m]] < ord[y[i]]
      BY <2>3, <3>0, <3>4 DEF Lists
    <3>6. ord[y[m]] \in Nat /\ ord[x[m]] \in Nat
      BY <2>3, <3>0 DEF Lists
    <3>7. ord[y[m]] < ord[x[m]]
      BY <3>1, <3>5
    <3> QED
      BY <3>6, <3>7
  <2>4. ~(ord[r[m]] <= ord[s[m]]) /\ ~(ord[s[m]] <= ord[r[m]])
    <3>1. \A i \in 1..k : i < m => s[i] = r[i]
      BY <2>2
    <3>2. r[m] # s[m] /\ s[m] # r[m]
      BY <2>2
    <3> QED
      BY <2>2, <2>3, <3>1, <3>2
  <2>5. ord[r[m]] \in Nat /\ ord[s[m]] \in Nat
    BY <2>2 DEF Lists
  <2> QED
    BY <2>4, <2>5
<1>3. r \in [1..k -> F] /\ s \in [1..k -> F]
  BY DEF Lists
<1>4. \A i \in 1..k : r[i] = s[i]
  BY <1>2
<1> QED
  BY <1>3, <1>4

\* What the naive scan of the first n cues returns.
ScanOf(r, n) ==
    /\ r \in Seq(Phrase)
    /\ {r[i] : i \in 1..Len(r)} = {cues[i] : i \in {j \in 1..n : Occurs(cues[j])}}
    /\ \A i \in 1..Len(r) : \E a \in 1..n :
         /\ cues[a] = r[i]
         /\ \A j \in 1..Len(r) : i < j => \A b \in 1..n : cues[b] = r[j] => a < b

\* The naive scan returns the cues that occur, in the order of declaration.
LEMMA NaiveScanIs ==
    ASSUME cues \in Seq(Phrase), IsInjective(cues)
    PROVE  ScanOf(NaiveCueScan, Len(cues))
<1> DEFINE N    == Len(cues)
           S    == 0..N
           V    == Seq(Phrase)
           mu   == [n \in S |-> n]
           next == [n \in S |-> IF n = 0 THEN 0 ELSE n - 1]
           base == [n \in S |-> <<>>]
           More(n, v) == IF Occurs(cues[n]) THEN Append(v, cues[n]) ELSE v
           op   == [p \in S \X V |-> IF p[1] = 0 THEN p[2] ELSE More(p[1], p[2])]
           Scan(h) == h = [n \in 0..Len(cues) |->
                             IF n = 0 THEN <<>>
                             ELSE IF Occurs(cues[n]) THEN Append(h[n - 1], cues[n]) ELSE h[n - 1]]
           scan == CHOOSE h : Scan(h)
<1>0. /\ N \in Nat /\ \A n \in 1..N : cues[n] \in Phrase
      /\ \A a, b \in 1..N : cues[a] = cues[b] => a = b
  BY ElementOfSeq DEF IsInjective
<1>1. \A n \in S, v \in V : n # 0 => More(n, v) \in V
  BY <1>0, AppendProperties
<1> HIDE DEF N
<1>2. Descends(S, V, mu, {0}, next, base, op)
  <2>1. op \in [S \X V -> V]
    <3> HIDE DEF More
    <3> QED
      BY <1>1
  <2>2. next \in [S -> S] /\ mu \in [S -> Nat]
    BY <1>0
  <2>3. base \in [S -> V]
    OBVIOUS
  <2>4. \A x \in S : x \notin {0} => mu[next[x]] < mu[x]
    BY <1>0
  <2> HIDE DEF S, V, mu, next, base, op
  <2> QED
    BY <2>1, <2>2, <2>3, <2>4 DEF Descends
<1>3. PICK h : Recurses(h, S, V, {0}, next, base, op)
  <2> HIDE DEF S, V, mu, next, base, op
  <2> QED
    BY <1>2, RecursionAlong
<1>4. Scan(h)
  <2>1. h \in [S -> V] /\ \A n \in S : h[n] = IF n \in {0} THEN base[n] ELSE op[<<n, h[next[n]]>>]
    <3> HIDE DEF S, V, mu, next, base, op
    <3> QED
      BY <1>3 DEF Recurses
  <2>2. \A n \in S : h[n] = IF n = 0 THEN <<>> ELSE More(n, h[n - 1])
    <3> HIDE DEF More
    <3> TAKE n \in S
    <3>1. CASE n = 0
      BY <2>1, <3>1
    <3>2. CASE n # 0
      <4>1. next[n] = n - 1 /\ n - 1 \in S
        BY <1>0, <3>2
      <4>2. h[n - 1] \in V
        BY <2>1, <4>1
      <4>3. op[<<n, h[n - 1]>>] = More(n, h[n - 1])
        BY <3>2, <4>2
      <4> QED
        BY <2>1, <3>2, <4>1, <4>3
    <3> QED
      BY <3>1, <3>2
  <2>3. h = [n \in S |-> h[n]]
    BY <2>1
  <2>4. h = [n \in S |-> IF n = 0 THEN <<>> ELSE More(n, h[n - 1])]
    <3> HIDE DEF More, S
    <3> QED
      BY <2>2, <2>3
  <2> QED
    BY <2>4 DEF N
<1>5. Scan(scan)
  <2> HIDE DEF Scan
  <2> QED
    BY <1>4
<1>6. NaiveCueScan = scan[N]
  BY DEF NaiveCueScan, N
<1> HIDE DEF scan
<1>7. \A n \in 0..N : scan[n] = IF n = 0 THEN <<>>
                                ELSE IF Occurs(cues[n]) THEN Append(scan[n - 1], cues[n]) ELSE scan[n - 1]
  BY <1>5, Zenon DEF N
<1> DEFINE Good == {n \in Nat : n <= N => ScanOf(scan[n], n)}
<1>8. 0 \in Good
  <2>1. scan[0] = <<>>
    <3>1. 0 \in 0..N
      BY <1>0
    <3> QED
      BY <1>7, <3>1
  <2>2. ScanOf(<<>>, 0)
    <3>1. Len(<<>>) = 0 /\ <<>> \in Seq(Phrase) /\ \A i \in 1..0 : FALSE
      OBVIOUS
    <3> QED
      BY <3>1 DEF ScanOf
  <2> QED
    BY <2>1, <2>2
<1>9. ASSUME NEW n \in Nat, n \in Good PROVE n + 1 \in Good
  <2>1. SUFFICES ASSUME n + 1 <= N PROVE ScanOf(scan[n + 1], n + 1)
    OBVIOUS
  <2>2. PICK v : v = scan[n]
    OBVIOUS
  <2>3. ScanOf(v, n)
    BY <1>0, <1>9, <2>1, <2>2
  <2>4. /\ v \in Seq(Phrase) /\ Len(v) \in Nat
        /\ {v[i] : i \in 1..Len(v)} = {cues[i] : i \in {j \in 1..n : Occurs(cues[j])}}
    <3>1. /\ v \in Seq(Phrase)
          /\ {v[i] : i \in 1..Len(v)} = {cues[i] : i \in {j \in 1..n : Occurs(cues[j])}}
      BY <2>3, Zenon DEF ScanOf
    <3>2. Len(v) \in Nat
      BY <3>1, LenProperties
    <3> QED
      BY <3>1, <3>2
  <2>5. scan[n + 1] = IF Occurs(cues[n + 1]) THEN Append(v, cues[n + 1]) ELSE v
    <3>1. n + 1 \in 0..N /\ n + 1 # 0 /\ (n + 1) - 1 = n
      BY <1>0, <2>1
    <3> QED
      BY <1>7, <2>2, <3>1
  <2>6. \A i \in 1..n + 1 : i \in 1..n \/ i = n + 1
    OBVIOUS
  <2>7. /\ n + 1 \in 1..n + 1 /\ n + 1 \notin 1..n
        /\ \A i \in 1..n : i \in 1..n + 1 /\ i \in 1..N /\ i < n + 1
        /\ n + 1 \in 1..N /\ cues[n + 1] \in Phrase
    BY <1>0, <2>1
  <2>8. \A i \in 1..Len(v) : \E a \in 1..n : cues[a] = v[i]
    BY <2>3 DEF ScanOf
  <2>9. \A i \in 1..Len(v) : v[i] # cues[n + 1]
    <3> TAKE i \in 1..Len(v)
    <3>1. PICK a \in 1..n : cues[a] = v[i]
      BY <2>8
    <3> QED
      BY <1>0, <2>7, <3>1
  <2>10. CASE ~Occurs(cues[n + 1])
    <3>1. {j \in 1..n + 1 : Occurs(cues[j])} = {j \in 1..n : Occurs(cues[j])}
      BY <2>6, <2>7, <2>10
    <3>2. ASSUME NEW i \in 1..Len(v)
          PROVE  \E a \in 1..n + 1 :
                   /\ cues[a] = v[i]
                   /\ \A j \in 1..Len(v) : i < j => \A b \in 1..n + 1 : cues[b] = v[j] => a < b
      <4>1. PICK a \in 1..n :
              /\ cues[a] = v[i]
              /\ \A j \in 1..Len(v) : i < j => \A b \in 1..n : cues[b] = v[j] => a < b
        BY <2>3 DEF ScanOf
      <4>2. ASSUME NEW j \in 1..Len(v), i < j, NEW b \in 1..n + 1, cues[b] = v[j] PROVE a < b
        <5>1. b \in 1..n
          BY <2>6, <2>9, <4>2
        <5> QED
          BY <4>1, <4>2, <5>1
      <4> QED
        BY <2>7, <4>1, <4>2
    <3>3. ScanOf(v, n + 1)
      BY <2>4, <3>1, <3>2 DEF ScanOf
    <3> QED
      BY <2>5, <2>10, <3>3
  <2>11. CASE Occurs(cues[n + 1])
    <3>0. PICK r : r = Append(v, cues[n + 1])
      OBVIOUS
    <3>1. /\ r \in Seq(Phrase) /\ Len(r) = Len(v) + 1 /\ r[Len(v) + 1] = cues[n + 1]
          /\ \A i \in 1..Len(v) : r[i] = v[i]
      BY <2>4, <2>7, <3>0, AppendProperties
    <3>2. /\ \A i \in 1..Len(r) : i \in 1..Len(v) \/ i = Len(v) + 1
          /\ \A i \in 1..Len(v) : i \in 1..Len(r) /\ i < Len(v) + 1
          /\ Len(v) + 1 \in 1..Len(r)
      BY <2>4, <3>1
    <3>3. {r[i] : i \in 1..Len(r)} = {v[i] : i \in 1..Len(v)} \cup {cues[n + 1]}
      BY <3>1, <3>2
    <3>4. {j \in 1..n + 1 : Occurs(cues[j])} = {j \in 1..n : Occurs(cues[j])} \cup {n + 1}
      BY <2>6, <2>7, <2>11
    <3>5. {r[i] : i \in 1..Len(r)} = {cues[i] : i \in {j \in 1..n + 1 : Occurs(cues[j])}}
      BY <2>4, <3>3, <3>4
    <3>6. ASSUME NEW i \in 1..Len(r)
          PROVE  \E a \in 1..n + 1 :
                   /\ cues[a] = r[i]
                   /\ \A j \in 1..Len(r) : i < j => \A b \in 1..n + 1 : cues[b] = r[j] => a < b
      <4>1. CASE i = Len(v) + 1
        <5>1. \A j \in 1..Len(r) : ~(i < j)
          BY <2>4, <3>1, <4>1
        <5> QED
          BY <2>7, <3>1, <4>1, <5>1
      <4>2. CASE i # Len(v) + 1
        <5>0. i \in 1..Len(v) /\ r[i] = v[i]
          BY <3>1, <3>2, <4>2
        <5>1. PICK a \in 1..n :
                /\ cues[a] = v[i]
                /\ \A j \in 1..Len(v) : i < j => \A b \in 1..n : cues[b] = v[j] => a < b
          BY <2>3, <5>0 DEF ScanOf
        <5>2. ASSUME NEW j \in 1..Len(r), i < j, NEW b \in 1..n + 1, cues[b] = r[j] PROVE a < b
          <6>1. CASE j = Len(v) + 1
            <7>1. cues[b] = cues[n + 1] /\ b \in 1..N
              BY <2>6, <2>7, <3>1, <5>2, <6>1
            <7>2. b = n + 1
              BY <1>0, <2>7, <7>1
            <7> QED
              BY <2>7, <7>2
          <6>2. CASE j # Len(v) + 1
            <7>1. j \in 1..Len(v) /\ cues[b] = v[j]
              BY <3>1, <3>2, <5>2, <6>2
            <7>2. b \in 1..n
              BY <2>6, <2>9, <7>1
            <7> QED
              BY <5>1, <5>2, <7>1, <7>2
          <6> QED
            BY <6>1, <6>2
        <5> QED
          BY <2>7, <5>0, <5>1, <5>2
      <4> QED
        BY <4>1, <4>2
    <3>7. ScanOf(r, n + 1)
      BY <3>1, <3>5, <3>6 DEF ScanOf
    <3> QED
      BY <2>5, <2>11, <3>0, <3>7
  <2> QED
    BY <2>10, <2>11
<1>10. Nat \subseteq Good
  <2> HIDE DEF Good
  <2> QED
    BY <1>8, <1>9, AllNumbers
<1>11. ScanOf(scan[N], N)
  <2>1. N <= N
    BY <1>0
  <2> QED
    BY <1>0, <1>10, <2>1
<1> QED
  BY <1>6, <1>11 DEF N

\* The largest of the one place that a cue has.
LEMMA CueOrderIs ==
    ASSUME cues \in Seq(Phrase), IsInjective(cues), NEW a \in 1..Len(cues)
    PROVE  CueOrder(cues[a]) = a
<1>1. {i \in DOMAIN cues : cues[i] = cues[a]} = {a}
  BY DEF IsInjective
<1>2. Max({a}) = a
  <2>1. a \in {a} /\ \A y \in {a} : a >= y
    OBVIOUS
  <2>2. Max({a}) \in {a}
    BY <2>1 DEF Max
  <2> QED
    BY <2>2
<1> QED
  BY <1>1, <1>2 DEF CueOrder

\* The found cues are those that occur, and both scans list them in one order.
LEMMA MatcherInvGivesScans == MatcherInv => ScansAgree
<1> SUFFICES ASSUME MatcherInv, Built, IsInjective(cues)
             PROVE  ScanCuesAhoCorasick = NaiveCueScan
  BY DEF ScansAgree
<1>1. MatcherTypeOK /\ TrieInv /\ ScanInv
  BY DEF MatcherInv
<1>2. cues \in Seq(Phrase) /\ Len(cues) \in Nat /\ DOMAIN cues = 1..Len(cues) /\ text \in Word
  BY <1>1 DEF MatcherTypeOK
<1>3. found = {cues[i] : i \in {j \in 1..Len(cues) : Occurs(cues[j])}}
  <2>1. found = {c \in ToSet(cues) : OccursIn(c, text)}
    BY <1>1 DEF ScanInv
  <2>2. \A c \in ToSet(cues) : Occurs(c) <=> OccursIn(c, text)
    BY <1>2, PhraseWords, OccursIs
  <2>3. ToSet(cues) = {cues[i] : i \in 1..Len(cues)}
    BY <1>2 DEF ToSet
  <2> QED
    BY <2>1, <2>2, <2>3
<1> DEFINE r == NaiveCueScan
           k == Len(r)
           ord == [c \in found |-> CueOrder(c)]
<1>4. /\ r \in Seq(Phrase) /\ k \in Nat /\ DOMAIN r = 1..k
      /\ {r[i] : i \in 1..k} = found
      /\ \A i \in 1..k : \E a \in 1..Len(cues) :
           /\ cues[a] = r[i]
           /\ \A j \in 1..k : i < j => \A b \in 1..Len(cues) : cues[b] = r[j] => a < b
  <2>1. ScanOf(r, Len(cues))
    BY <1>2, NaiveScanIs
  <2> HIDE DEF r
  <2>2. r \in Seq(Phrase)
    BY <2>1, Zenon DEF ScanOf
  <2>3. Len(r) \in Nat /\ DOMAIN r = 1..Len(r)
    BY <2>2, LenProperties
  <2>4. {r[i] : i \in 1..k} = found
    BY <1>3, <2>1, Zenon DEF ScanOf
  <2>5. \A i \in 1..k : \E a \in 1..Len(cues) :
          /\ cues[a] = r[i]
          /\ \A j \in 1..k : i < j => \A b \in 1..Len(cues) : cues[b] = r[j] => a < b
    BY <2>1, Zenon DEF ScanOf
  <2> QED
    BY <2>2, <2>3, <2>4, <2>5, Zenon
<1> HIDE DEF r
<1>5. \A c \in found : \E a \in 1..Len(cues) : c = cues[a]
  BY <1>3
<1>6. \A a \in 1..Len(cues) : CueOrder(cues[a]) = a
  BY <1>2, CueOrderIs
<1>7. ord \in [found -> Nat] /\ \A c \in found : ord[c] = CueOrder(c)
  <2>1. ASSUME NEW c \in found PROVE CueOrder(c) \in Nat
    <3>1. PICK a \in 1..Len(cues) : c = cues[a]
      BY <1>5
    <3> QED
      BY <1>6, <3>1
  <2> QED
    BY <2>1
<1> HIDE DEF ord
<1>8. r \in [1..k -> found]
  BY <1>4
<1>9. ASSUME NEW i \in 1..k, NEW j \in 1..k, i < j PROVE ord[r[i]] < ord[r[j]]
  <2>1. PICK a \in 1..Len(cues) :
          /\ cues[a] = r[i]
          /\ \A m \in 1..k : i < m => \A b \in 1..Len(cues) : cues[b] = r[m] => a < b
    BY <1>4
  <2>2. PICK b \in 1..Len(cues) : cues[b] = r[j]
    BY <1>4
  <2>3. a < b
    BY <1>9, <2>1, <2>2
  <2>4. CueOrder(r[i]) = a /\ CueOrder(r[j]) = b
    BY <1>6, <2>1, <2>2, Zenon
  <2>5. r[i] \in found /\ r[j] \in found
    BY <1>8
  <2> QED
    BY <1>7, <2>3, <2>4, <2>5
<1>10. Lists(r, k, found, ord)
  BY <1>8, <1>9 DEF Lists
<1>11. IsFiniteSet(found) /\ Cardinality(found) = k
  <2>1. \A i, j \in 1..k : r[i] = r[j] => i = j
    <3> SUFFICES ASSUME NEW i \in 1..k, NEW j \in 1..k, r[i] = r[j], i # j PROVE FALSE
      OBVIOUS
    <3>0. r[i] \in found /\ ord[r[i]] \in Nat
      BY <1>7, <1>8
    <3>1. i < j \/ j < i
      OBVIOUS
    <3>2. ord[r[i]] < ord[r[i]]
      BY <1>9, <3>1
    <3> QED
      BY <3>0, <3>2
  <2>2. r \in Bijection(1..k, found)
    <3>1. \A c \in found : \E i \in 1..k : r[i] = c
      BY <1>4
    <3> QED
      BY <1>8, <2>1, <3>1 DEF Bijection, Injection, Surjection, IsInjective
  <2>3. IsFiniteSet(1..k) /\ Cardinality(1..k) = k
    <3>1. 1 \in Int /\ k \in Int
      BY <1>4
    <3>2. IsFiniteSet(1..k) /\ Cardinality(1..k) = IF 1 > k THEN 0 ELSE k - 1 + 1
      BY <3>1, FS_Interval
    <3> QED
      BY <1>4, <3>2
  <2>4. ExistsBijection(1..k, found)
    BY <2>2 DEF ExistsBijection
  <2> QED
    BY <2>3, <2>4, FS_Bijection
<1> DEFINE s == ScanCuesAhoCorasick
<1>12. \A x \in [1..k -> found] : InCueOrder(x) <=> Lists(x, k, found, ord)
  <2> TAKE x \in [1..k -> found]
  <2>1. DOMAIN x = 1..k /\ \A i \in 1..k : ord[x[i]] = CueOrder(x[i])
    BY <1>7
  <2> QED
    BY <2>1 DEF InCueOrder, Lists
<1>13. s \in [1..k -> found] /\ InCueOrder(s)
  <2>1. InCueOrder(r)
    BY <1>8, <1>10, <1>12
  <2>2. s = CHOOSE x \in [1..k -> found] : InCueOrder(x)
    BY <1>11 DEF ScanCuesAhoCorasick
  <2> HIDE DEF s
  <2> QED
    BY <1>8, <2>1, <2>2
<1> HIDE DEF s
<1>14. Lists(s, k, found, ord)
  BY <1>12, <1>13
<1>15. r = s
  <2> HIDE DEF k
  <2> QED
    BY <1>4, <1>7, <1>10, <1>11, <1>14, OneList
<1> QED
  BY <1>15 DEF r, s

-----------------------------------------------------------------------------
IInv == GatewayInv /\ SessionInv /\ ExplainInv /\ TranscriptInv /\ MatcherInv

\* A component that does not move keeps its part.
LEMMA GatewayRests ==
    ASSUME GatewayInv, UNCHANGED gatewayVars
    PROVE  GatewayInv'
<1>1. UNCHANGED <<clock, latest, bucket, slot, thread, received, accepted, overlaps>>
  BY DEF gatewayVars
<1>2. \A s \in Sender : Astray(s)' = Astray(s)
  BY <1>1 DEF Astray, HasBucket
<1>3. GatewayTypeOK' /\ BucketsAreOwned' /\ WritesAreRefills'
  BY <1>1 DEF GatewayInv, GatewayTypeOK, BucketsAreOwned, WritesAreRefills, HasBucket, Full
<1>4. RateInv'
  BY <1>1, <1>2 DEF GatewayInv, RateInv, Spent, Allowance, PerOverlap, Full
<1> QED
  BY <1>3, <1>4 DEF GatewayInv

LEMMA SessionRests ==
    ASSUME SessionInv, UNCHANGED sessionVars
    PROVE  SessionInv'
BY DEF SessionInv, sessionVars

LEMMA ExplainRests ==
    ASSUME ExplainInv, UNCHANGED explainVars
    PROVE  ExplainInv'
BY DEF ExplainInv, ExplainTypeOK, SawWhatIsThere, RefusedOrSentForCause, explainVars

\* The inductive invariant holds in every reachable state.
THEOREM Invariance == Spec => []IInv
<1>1. Init => IInv
  BY GatewayInit0, SessionInit0, ExplainInit0, TranscriptInit0, MatcherInit0 DEF Init, IInv
<1>2. IInv /\ [Next]_vars => IInv'
  <2> SUFFICES ASSUME IInv, [Next]_vars PROVE IInv'
    OBVIOUS
  <2>1. CASE GatewayNext /\ UNCHANGED <<sessionVars, raw, matcherVars, explainVars>>
    BY <2>1, GatewayStep, SessionRests, ExplainRests, TranscriptRests, MatcherRests DEF IInv
  <2>2. CASE (\E x \in Turn : AddTurn(x)) /\ UNCHANGED <<gatewayVars, raw, matcherVars, explainVars>>
    BY <2>2, GatewayRests, SessionStep, ExplainRests, TranscriptRests, MatcherRests DEF IInv
  <2>3. CASE Arrive /\ UNCHANGED <<gatewayVars, sessionVars, matcherVars, explainVars>>
    BY <2>3, GatewayRests, SessionRests, ExplainRests, ArriveStep, MatcherRests DEF IInv
  <2>4. CASE MatcherNext /\ UNCHANGED <<gatewayVars, sessionVars, raw, explainVars>>
    BY <2>4, GatewayRests, SessionRests, ExplainRests, TranscriptRests, MatcherStep DEF IInv
  <2>5. CASE ExplainNext /\ UNCHANGED <<gatewayVars, sessionVars, raw, matcherVars>>
    BY <2>5, GatewayRests, SessionRests, ExplainStep, TranscriptRests, MatcherRests DEF IInv
  <2>6. CASE UNCHANGED <<gatewayVars, sessionVars, raw, matcherVars, explainVars>>
    BY <2>6, GatewayRests, SessionRests, ExplainRests, TranscriptRests, MatcherRests DEF IInv
  <2> QED
    BY <2>1, <2>2, <2>3, <2>4, <2>5, <2>6 DEF Next, vars
<1> QED
  BY <1>1, <1>2, PTL DEF Spec

\* Clock, buckets, threads, transcripts, automata and handlers keep their types.
THEOREM TypeCorrect == Spec => [](GatewayTypeOK /\ TranscriptInv /\ MatcherTypeOK /\ ExplainTypeOK)
<1>1. IInv => GatewayTypeOK /\ TranscriptInv /\ MatcherTypeOK /\ ExplainTypeOK
  BY DEF IInv, GatewayInv, ExplainInv, MatcherInv
<1> QED
  BY Invariance, <1>1, PTL

\* A sender gets a full bucket of answers and one per Unit of the highest clock,
\* and what the overlapping writes of threads may cost on top, for every number
\* of threads, bucket size and course of the clock (sms_gateway.py:27-53, 83-86).
THEOREM RateIsBounded == Spec => []RateBound
<1>1. IInv => RateBound
  BY GatewayInvGivesBound DEF IInv
<1> QED
  BY Invariance, <1>1, PTL

\* After any turn that was a candidate, a plain request for payment surfaces,
\* for every set of turns and length of the window (memory_compaction.py:12).
THEOREM ArcLiftsPayment == Spec => []PaymentArcSurfaces
<1>1. IInv => PaymentArcSurfaces
  BY SessionInvGivesArc DEF IInv
<1> QED
  BY Invariance, <1>1, PTL

\* Joining the bursts of a transcript loses, adds and reorders nothing, and puts
\* two messages together just when one sender wrote the messages between them,
\* all short and in quick succession, for every transcript and window
\* (transcript_normalizer.py:79-113).
THEOREM BurstsAreJoined == Spec => []BurstsRejoined
<1>1. IInv => BurstsRejoined
  BY TranscriptGivesBursts DEF IInv
<1> QED
  BY Invariance, <1>1, PTL

\* Once built from distinct cues, the automaton returns of every text what the
\* search for one cue after another returns, for every lexicon, alphabet and text
\* (fast_pattern_matcher.py:41).
THEOREM ScansAlwaysAgree == Spec => []ScansAgree
<1>1. IInv => ScansAgree
  BY MatcherInvGivesScans DEF IInv
<1> QED
  BY Invariance, <1>1, PTL

\* A refusal has a cause, and an excerpt leaves the server only where no weights
\* were seen, for every number of requests (llm_client.py:25, 62-69, 166-185).
THEOREM ExplanationsForCause == Spec => []RefusedOrSentForCause
<1>1. IInv => RefusedOrSentForCause
  BY DEF IInv, ExplainInv
<1> QED
  BY Invariance, <1>1, PTL

=============================================================================
