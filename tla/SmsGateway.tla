----------------------------- MODULE SmsGateway -----------------------------
(***************************************************************************)
(* The rate limiter of the shortcode gateway, offline/sms_gateway.py: a    *)
(* token bucket per sender, in a dictionary that all request threads of    *)
(* the carrier's webhook share, refilled by the wall clock.  A message     *)
(* that gets a token is answered with ReferenceCascade's Analysis of it.   *)
(*                                                                         *)
(* A thread may be interrupted at every call: between the look-up and the  *)
(* store of a bucket, before it is used, and at the call of min, after     *)
(* _refill has read the bucket and before it writes it.  Tokens are        *)
(* counted in clock ticks, of which Unit make a token.                     *)
(***************************************************************************)
EXTENDS Integers, FiniteSets, Sequences

CONSTANTS
    Sender, Thread,
    Capacity,       \* tokens of a full bucket, 5 in the code
    Unit,           \* ticks in which a token refills, 60 seconds in the code
    MaxClock,       \* bound: the highest reading of the clock
    MaxMessages     \* bound: messages of a sender

ASSUME GatewayAssumption ==
    /\ IsFiniteSet(Thread)
    /\ Capacity \in Nat \ {0} /\ Unit \in Nat \ {0}
    /\ MaxClock \in Nat /\ MaxMessages \in Nat

NoBucket == 0

Full == Capacity * Unit
Idle == [at |-> "idle"]

VARIABLES
    clock,          \* time.time(); an NTP step sets it back
    latest,         \* its highest reading so far
    bucket,         \* the TokenBucket objects, in the order of creation
    slot,           \* PER_SENDER_BUCKETS: the index of the sender's bucket
    thread,         \* where each thread is, with its locals
    received,       \* history: the messages of each sender,
    accepted,       \* those that were answered,
    overlaps        \* and what was written over another thread's work

gatewayVars == <<clock, latest, bucket, slot, thread, received, accepted, overlaps>>

GatewayInit ==
    /\ clock = 1 /\ latest = 1
    /\ bucket = <<>>
    /\ slot = [s \in Sender |-> NoBucket]
    /\ thread = [t \in Thread |-> Idle]
    /\ received = [s \in Sender |-> 0]
    /\ accepted = [s \in Sender |-> 0]
    /\ overlaps = [s \in Sender |-> 0]

\* The sender is looked up.
Receive(t, s) ==
    /\ thread[t].at = "idle" /\ received[s] < MaxMessages
    /\ thread' = [thread EXCEPT ![t] =
                    [at |-> IF slot[s] = NoBucket THEN "create" ELSE "fetch", sender |-> s]]
    /\ received' = [received EXCEPT ![s] = @ + 1]
    /\ UNCHANGED <<clock, latest, bucket, slot, accepted, overlaps>>

\* The bucket of a sender that was not found is made and stored, also when
\* another thread has stored one since.
Create(t) ==
    /\ thread[t].at = "create"
    /\ LET s == thread[t].sender IN
        /\ bucket' = Append(bucket, [tokens |-> Full, last |-> clock])
        /\ slot' = [slot EXCEPT ![s] = Len(bucket) + 1]
        /\ overlaps' = IF slot[s] # NoBucket THEN [overlaps EXCEPT ![s] = @ + 1] ELSE overlaps
        /\ thread' = [thread EXCEPT ![t].at = "fetch"]
    /\ UNCHANGED <<clock, latest, received, accepted>>

Fetch(t) ==
    /\ thread[t].at = "fetch"
    /\ thread' = [thread EXCEPT ![t] =
                    [at |-> "refill", sender |-> @.sender, mine |-> slot[@.sender]]]
    /\ UNCHANGED <<clock, latest, bucket, slot, received, accepted, overlaps>>

Refilled(b) ==
    LET more == b.tokens + clock - b.last IN IF more > Full THEN Full ELSE more

\* time.time() is read, then the bucket.
Refill(t) ==
    /\ thread[t].at = "refill"
    /\ LET b == bucket[thread[t].mine] IN
        thread' = [thread EXCEPT ![t] =
                    [at |-> "write", sender |-> @.sender, mine |-> @.mine, read |-> b,
                     new |-> [tokens |-> Refilled(b), last |-> clock]]]
    /\ UNCHANGED <<clock, latest, bucket, slot, received, accepted, overlaps>>

Write(t) ==
    /\ thread[t].at = "write"
    /\ LET me == thread[t] IN
        /\ bucket' = [bucket EXCEPT ![me.mine] = me.new]
        /\ overlaps' = IF bucket[me.mine] # me.read THEN [overlaps EXCEPT ![me.sender] = @ + 1]
                       ELSE overlaps
        /\ thread' = [thread EXCEPT ![t] =
                        [at |-> "take", sender |-> me.sender, mine |-> me.mine]]
    /\ UNCHANGED <<clock, latest, slot, received, accepted>>

HasPartOfToken(b) == b.tokens > 0
HasToken(b)       == b.tokens >= Unit

\* A message without a token is dropped silently.
Take(t) ==
    /\ thread[t].at = "take"
    /\ LET me == thread[t] IN
        IF HasToken(bucket[me.mine])
        THEN /\ bucket' = [bucket EXCEPT ![me.mine].tokens = @ - Unit]
             /\ accepted' = [accepted EXCEPT ![me.sender] = @ + 1]
        ELSE UNCHANGED <<bucket, accepted>>
    /\ thread' = [thread EXCEPT ![t] = Idle]
    /\ UNCHANGED <<clock, latest, slot, received, overlaps>>

Tick ==
    /\ clock < MaxClock
    /\ clock' = clock + 1
    /\ latest' = IF clock' > latest THEN clock' ELSE latest
    /\ UNCHANGED <<bucket, slot, thread, received, accepted, overlaps>>

SetBack ==
    /\ clock > 0
    /\ clock' = clock - 1
    /\ UNCHANGED <<latest, bucket, slot, thread, received, accepted, overlaps>>

GatewayNext ==
    \/ \E t \in Thread :
        \/ \E s \in Sender : Receive(t, s)
        \/ Create(t) \/ Fetch(t) \/ Refill(t) \/ Write(t) \/ Take(t)
    \/ Tick \/ SetBack

-----------------------------------------------------------------------------
\* A sender gets a full bucket of answers and one for every Unit that the clock
\* has advanced, however it steps back meanwhile; every write that one thread
\* makes over another's costs at most one more bucket, the clock's advance once
\* more (what it puts back may be as old as the first reading, and the clock may
\* go back to it) and an answer per thread (sms_gateway.py:27-53, 83-86).
RateBound ==
    \A s \in Sender :
        accepted[s] * Unit
            <= Full + overlaps[s] * (Full + latest + Cardinality(Thread) * Unit) + latest

=============================================================================
