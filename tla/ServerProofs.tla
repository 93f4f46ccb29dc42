---------------------------- MODULE ServerProofs ----------------------------
(***************************************************************************)
(* The hub shows every browser a gapless run of the samples, for any       *)
(* clients and channels of every capacity: Hub implements SampleFeed.  And *)
(* the daemon they live in starts, runs and ends in order, for any set of  *)
(* requests.                                                               *)
(***************************************************************************)
EXTENDS Hub, Serve, SequenceTheorems, TLAPS

-----------------------------------------------------------------------------
(* Runs of samples with a hello among them.                                *)

(* What follows a run is its next sample, or the hello that it lacks.      *)
LEMMA RunGrows ==
  ASSUME NEW q \in Seq(Int), NEW t \in Nat, NEW h \in 1..(Len(q) + 1), Run(q, h, t)
  PROVE  /\ h <= Len(q) => Run(Append(q, t + Len(q)), h, t)
         /\ h = Len(q) + 1 => /\ Run(Append(q, t + Len(q) + 1), h + 1, t)
                              /\ Run(Append(q, Hello), h, t)
<1>1. Len(q) \in Nat
  OBVIOUS
<1>2. ASSUME NEW e \in Int
      PROVE  /\ Len(Append(q, e)) = Len(q) + 1
             /\ \A i \in 1..Len(q) : Append(q, e)[i] = q[i]
             /\ Append(q, e)[Len(q) + 1] = e
  <2>1. Len(Append(q, e)) = Len(q) + 1
    OBVIOUS
  <2>2. \A i \in 1..Len(q) : Append(q, e)[i] = q[i]
    OBVIOUS
  <2>3. Append(q, e)[Len(q) + 1] = e
    OBVIOUS
  <2>. QED
    BY <2>1, <2>2, <2>3
<1>3. ASSUME h <= Len(q) PROVE Run(Append(q, t + Len(q)), h, t)
  <2>. DEFINE a == Append(q, t + Len(q))
  <2>1. /\ Len(a) = Len(q) + 1 /\ a[Len(q) + 1] = t + Len(q)
        /\ \A i \in 1..Len(q) : a[i] = q[i]
    BY <1>1, <1>2
  <2>. HIDE DEF a
  <2>2. ASSUME NEW i \in 1..(Len(q) + 1)
        PROVE  (i < h => a[i] = t + i) /\ (i = h => a[i] = Hello) /\ (i > h => a[i] = t + i - 1)
    <3>1. CASE i \in 1..Len(q)
      BY <2>1, <3>1 DEF Run
    <3>2. CASE i = Len(q) + 1
      BY <1>1, <1>3, <2>1, <3>2
    <3>. QED
      BY <1>1, <3>1, <3>2
  <2>3. Run(a, h, t)
    BY <2>1, <2>2 DEF Run
  <2>. QED
    BY <2>3 DEF a
<1>4. ASSUME h = Len(q) + 1 PROVE Run(Append(q, t + Len(q) + 1), h + 1, t)
  BY <1>1, <1>2, <1>4 DEF Run
<1>5. ASSUME h = Len(q) + 1 PROVE Run(Append(q, Hello), h, t)
  BY <1>1, <1>2, <1>5 DEF Run, Hello
<1>. QED
  BY <1>3, <1>4, <1>5

(* The first of a run is the hello or the next sample, the rest is a run.  *)
LEMMA RunShrinks ==
  ASSUME NEW q \in Seq(Int), q # <<>>, NEW t \in Nat, NEW h \in 1..(Len(q) + 1), Run(q, h, t)
  PROVE  /\ Len(Tail(q)) = Len(q) - 1 /\ Tail(q) \in Seq(Int) /\ Head(q) \in Int
         /\ h = 1 => Head(q) = Hello /\ Run(Tail(q), Len(q), t)
         /\ h > 1 => Head(q) = t + 1 /\ Run(Tail(q), h - 1, t + 1)
<1>1. /\ Head(q) \in Int /\ Tail(q) \in Seq(Int) /\ Len(Tail(q)) = Len(q) - 1
      /\ Len(q) \in Nat \ {0}
  OBVIOUS
<1>2. Head(q) = q[1]
  OBVIOUS
<1>3. \A i \in 1..Len(q) - 1 : Tail(q)[i] = q[i + 1]
  OBVIOUS
<1>4. ASSUME h = 1 PROVE Head(q) = Hello /\ Run(Tail(q), Len(q), t)
  <2>1. Head(q) = Hello
    BY <1>1, <1>2, <1>4 DEF Run
  <2>2. ASSUME NEW i \in 1..(Len(q) - 1)
        PROVE  /\ i < Len(q) => Tail(q)[i] = t + i
               /\ i = Len(q) => Tail(q)[i] = Hello
               /\ i > Len(q) => Tail(q)[i] = t + i - 1
    <3>. DEFINE n == Len(q)
    <3>1. n \in Nat /\ i \in 1..(n - 1)
      BY <1>1
    <3>2. i + 1 \in 1..Len(q) /\ i + 1 > h /\ t + (i + 1) - 1 = t + i
      BY <1>1, <1>4
    <3>3. Tail(q)[i] = t + i
      BY <1>3, <3>2 DEF Run
    <3>4. i # n /\ ~(i > n)
      <4>. HIDE DEF n
      <4>. QED
        BY <3>1
    <3>. QED
      BY <3>3, <3>4, Zenon
  <2>3. Run(Tail(q), Len(q), t)
    BY <1>1, <2>2, Zenon DEF Run
  <2>. QED
    BY <2>1, <2>3
<1>5. ASSUME h > 1 PROVE Head(q) = t + 1 /\ Run(Tail(q), h - 1, t + 1)
  BY <1>1, <1>2, <1>3, <1>5 DEF Run
<1>. QED
  BY <1>1, <1>4, <1>5

-----------------------------------------------------------------------------
(* The types, and who is where.                                            *)
LEMMA InitInv == Init => HubInv
<1>. SUFFICES ASSUME Init PROVE HubInv
  OBVIOUS
<1>1. TypeOK
  BY DEF Init, TypeOK, None
<1>2. Places
  BY DEF Init, Places, ReadLocked
<1>3. ASSUME NEW c \in Clients PROVE ~Streaming(c)
  BY DEF Init, Streaming
<1>. QED
  BY <1>1, <1>2, <1>3 DEF HubInv

LEMMA StepTypes ==
  ASSUME TypeOK, [Next]_vars
  PROVE  TypeOK'
<1>. USE DEF TypeOK, broadcaster
<1>1. CASE BeginBroadcast
  BY <1>1 DEF BeginBroadcast
<1>2. ASSUME NEW c \in Clients, Enqueue(c) PROVE TypeOK'
  <2>1. Append(queue[c], sent) \in Seq(Int)
    BY AppendProperties
  <2>. QED
    BY <1>2, <2>1 DEF Enqueue
<1>3. ASSUME NEW c \in Clients, Overflow(c) \/ Evicted(c) \/ CloseConn(c) \/ ReadFails(c)
      PROVE  TypeOK'
  <2>1. CASE Overflow(c)
    BY <2>1 DEF Overflow, BeginClose
  <2>2. CASE Evicted(c)
    BY <2>2 DEF Evicted
  <2>3. CASE CloseConn(c)
    BY <2>3 DEF CloseConn
  <2>4. CASE ReadFails(c)
    BY <2>4 DEF ReadFails, BeginClose
  <2>. QED
    BY <1>3, <2>1, <2>2, <2>3, <2>4
<1>4. CASE EndBroadcast
  BY <1>4 DEF EndBroadcast
<1>5. ASSUME NEW c \in Clients, Add(c) \/ SeeDone(c) \/ WriteFails(c) \/ Remove(c) PROVE TypeOK'
  <2>1. CASE Add(c)
    BY <2>1 DEF Add
  <2>2. CASE SeeDone(c)
    BY <2>2 DEF SeeDone
  <2>3. CASE WriteFails(c)
    BY <2>3 DEF WriteFails, BeginClose, None
  <2>4. CASE Remove(c)
    BY <2>4 DEF Remove
  <2>. QED
    BY <1>5, <2>1, <2>2, <2>3, <2>4
<1>6. ASSUME NEW c \in Clients, Greet(c) PROVE TypeOK'
  <2>1. Append(queue[c], Hello) \in Seq(Int)
    BY AppendProperties DEF Hello
  <2>. QED
    BY <1>6, <2>1 DEF Greet
<1>7. ASSUME NEW c \in Clients, Dequeue(c) PROVE TypeOK'
  <2>1. Head(queue[c]) \in Int /\ Tail(queue[c]) \in Seq(Int)
    BY <1>7, HeadTailProperties DEF Dequeue
  <2>. QED
    BY <1>7, <2>1 DEF Dequeue
<1>8. ASSUME NEW c \in Clients, Written(c) PROVE TypeOK'
  <2>1. (IF hand[c] > 0 THEN Append(wire[c], hand[c]) ELSE wire[c]) \in Seq(Int)
    BY AppendProperties
  <2>. QED
    BY <1>8, <2>1 DEF Written, None
<1>9. ASSUME NEW c \in Clients, Beat(c) \/ PeerLeaves(c) PROVE TypeOK'
  <2>1. CASE Beat(c)
    BY <2>1 DEF Beat, Heartbeat
  <2>2. CASE PeerLeaves(c)
    BY <2>2 DEF PeerLeaves
  <2>. QED
    BY <1>9, <2>1, <2>2
<1>10. CASE Exhausted \/ UNCHANGED vars
  BY <1>10 DEF Exhausted, vars
<1>. QED
  BY <1>1, <1>2, <1>3, <1>4, <1>5, <1>6, <1>7, <1>8, <1>9, <1>10 DEF Next, BroadcastStep, HandlerStep

LEMMA StepPlaces ==
  ASSUME TypeOK, Places, [Next]_vars
  PROVE  Places'
<1>. USE DEF Places, ReadLocked, TypeOK, broadcaster
<1>1. CASE BeginBroadcast
  BY <1>1 DEF BeginBroadcast
<1>2. ASSUME NEW c \in Clients, Enqueue(c) PROVE Places'
  <2>1. handler[c] # "adding"
    BY <1>2 DEF Enqueue
  <2>2. \A d \in Clients : d # c => queue'[d] = queue[d]
    BY <1>2 DEF Enqueue
  <2>. QED
    BY <1>2, <2>1, <2>2 DEF Enqueue
<1>3. ASSUME NEW c \in Clients, Overflow(c) \/ Evicted(c) \/ CloseConn(c) \/ ReadFails(c)
      PROVE  Places'
  BY <1>3 DEF Overflow, Evicted, CloseConn, ReadFails
<1>4. CASE EndBroadcast
  BY <1>4 DEF EndBroadcast
<1>5. ASSUME NEW c \in Clients, Add(c) PROVE Places'
  BY <1>5 DEF Add
<1>6. ASSUME NEW c \in Clients, SeeDone(c) \/ WriteFails(c) PROVE Places'
  BY <1>6 DEF SeeDone, WriteFails
<1>7. ASSUME NEW c \in Clients, Remove(c) PROVE Places'
  BY <1>7 DEF Remove
<1>8. ASSUME NEW c \in Clients, Greet(c) \/ Dequeue(c) \/ Beat(c) PROVE Places'
  BY <1>8 DEF Greet, Dequeue, Beat
<1>9. ASSUME NEW c \in Clients, Written(c) PROVE Places'
  BY <1>9 DEF Written
<1>10. ASSUME NEW c \in Clients, PeerLeaves(c) PROVE Places'
  BY <1>10 DEF PeerLeaves
<1>11. CASE Exhausted \/ UNCHANGED vars
  BY <1>11 DEF Exhausted, vars
<1>. QED
  BY <1>1, <1>2, <1>3, <1>4, <1>5, <1>6, <1>7, <1>8, <1>9, <1>10, <1>11
     DEF Next, BroadcastStep, HandlerStep

-----------------------------------------------------------------------------
(* No gap for whoever may still be written to.                             *)

(* What holds of a client goes on to hold in a step that is not about it.  *)
LEMMA Undisturbed ==
  ASSUME TypeOK, NEW c \in Clients, Gapless(c),
         hand'[c] = hand[c], queue'[c] = queue[c], wire'[c] = wire[c],
         joinedAt'[c] = joinedAt[c], sent' = sent, c \in todo' <=> c \in todo,
         handler'[c] = "greeting" => handler[c] = "greeting"
  PROVE  Gapless(c)'
<1>1. Taken(c)' = Taken(c)
  BY DEF Taken
<1>2. PICK h \in 1..(Len(queue[c]) + 1) : Queued(c, h)
  BY DEF Gapless
<1>3. Queued(c, h)'
  BY <1>1, <1>2 DEF Queued, Run, Offered
<1>. QED
  BY <1>1, <1>2, <1>3 DEF Gapless

LEMMA TakenType == ASSUME TypeOK, NEW c \in Clients PROVE Taken(c) \in Nat /\ Len(queue[c]) \in Nat
<1>1. Len(wire[c]) \in Nat /\ Len(queue[c]) \in Nat /\ joinedAt[c] \in Nat
  BY DEF TypeOK
<1>. QED
  BY <1>1 DEF Taken

(* What Queued says, number by number.                                     *)
LEMMA QueuedNumbers ==
  ASSUME TypeOK, NEW c \in Clients, NEW h \in 1..(Len(queue[c]) + 1), Queued(c, h),
         NEW t, NEW n, t = Taken(c), n = Len(queue[c])
  PROVE  /\ queue[c] \in Seq(Int) /\ t \in Nat /\ n \in Nat /\ sent \in Nat /\ h \in 1..(n + 1)
         /\ Run(queue[c], h, t)
         /\ h <= n => Offered(c) = t + n - 1 /\ handler[c] # "greeting"
         /\ h = n + 1 => Offered(c) = t + n
<1>1. queue[c] \in Seq(Int) /\ t \in Nat /\ n \in Nat /\ sent \in Nat
  BY TakenType DEF TypeOK
<1>2. /\ Run(queue[c], h, t)
      /\ h <= n => Offered(c) = t + n - 1
      /\ h > n => Offered(c) = t + n
      /\ handler[c] = "greeting" => h = n + 1
  BY DEF Queued
<1>. QED
  BY <1>1, <1>2

(* And back again, after a step.                                           *)
LEMMA NumbersQueued ==
  ASSUME NEW c \in Clients, NEW t \in Nat, NEW n \in Nat, NEW h \in 1..(n + 1),
         Taken(c)' = t, Len(queue'[c]) = n, Run(queue'[c], h, t),
         h <= n => Offered(c)' = t + n - 1,
         h = n + 1 => Offered(c)' = t + n,
         handler'[c] = "greeting" => h = n + 1,
         hand'[c] > 0 => hand'[c] = t
  PROVE  Gapless(c)'
<1>1. h > n => h = n + 1
  OBVIOUS
<1>2. Queued(c, h)'
  BY <1>1 DEF Queued
<1>. QED
  BY <1>2 DEF Gapless

(* The sample offered is the one after those in the channel.               *)
LEMMA EnqueueGapless ==
  ASSUME TypeOK, NEW c \in Clients, Enqueue(c), Gapless(c)
  PROVE  Gapless(c)'
<1>. DEFINE n == Len(queue[c])
            t == Taken(c)
<1>1. PICK h \in 1..(n + 1) : Queued(c, h)
  BY DEF Gapless
<1>2. /\ Taken(c)' = t /\ hand' = hand /\ handler' = handler
      /\ Offered(c) = sent - 1 /\ Offered(c)' = sent
      /\ queue'[c] = Append(queue[c], sent)
  BY DEF Enqueue, Taken, TypeOK, Offered
<1>3. /\ queue[c] \in Seq(Int) /\ t \in Nat /\ n \in Nat /\ sent \in Nat /\ h \in 1..(n + 1)
      /\ Run(queue[c], h, t)
      /\ h <= n => sent - 1 = t + n - 1 /\ handler[c] # "greeting"
      /\ h = n + 1 => sent - 1 = t + n
  BY <1>1, <1>2, QueuedNumbers
<1>4. Len(queue'[c]) = n + 1
  BY <1>2, <1>3
<1>5. hand'[c] > 0 => hand'[c] = t
  BY <1>2 DEF Gapless
<1>6. /\ h <= n => sent = t + n /\ Run(queue'[c], h, t)
      /\ h = n + 1 => sent = t + n + 1 /\ Run(queue'[c], h + 1, t)
  <2>1. /\ h <= n => Run(Append(queue[c], t + n), h, t)
        /\ h = n + 1 => Run(Append(queue[c], t + n + 1), h + 1, t)
    BY <1>3, RunGrows
  <2>. HIDE DEF n, t
  <2>2. /\ h <= n => sent = t + n
        /\ h = n + 1 => sent = t + n + 1
    BY <1>3
  <2>. QED
    BY <1>2, <2>1, <2>2
<1>. HIDE DEF n, t
<1>7. CASE h <= n
  <2>1. n + 1 \in Nat /\ h \in 1..(n + 1 + 1) /\ h # n + 1 + 1 /\ sent = t + (n + 1) - 1
    BY <1>3, <1>6, <1>7
  <2>. QED
    BY <1>2, <1>3, <1>4, <1>5, <1>6, <1>7, <2>1, NumbersQueued
<1>8. CASE h = n + 1
  <2>1. n + 1 \in Nat /\ h + 1 \in 1..(n + 1 + 1) /\ ~(h + 1 <= n + 1) /\ sent = t + (n + 1)
    BY <1>3, <1>6, <1>8
  <2>. QED
    BY <1>2, <1>3, <1>4, <1>5, <1>6, <1>8, <2>1, NumbersQueued
<1>. QED
  BY <1>3, <1>7, <1>8

(* The hello comes after whatever was broadcast since the client was added.*)
LEMMA GreetGapless ==
  ASSUME TypeOK, NEW c \in Clients, Greet(c), Gapless(c)
  PROVE  Gapless(c)'
<1>. DEFINE n == Len(queue[c])
            t == Taken(c)
<1>1. PICK h \in 1..(n + 1) : Queued(c, h)
  BY DEF Gapless
<1>2. /\ Taken(c)' = t /\ hand' = hand /\ handler'[c] = "selecting"
      /\ Offered(c)' = Offered(c) /\ handler[c] = "greeting"
      /\ queue'[c] = Append(queue[c], Hello)
  BY DEF Greet, Taken, TypeOK, broadcaster, Offered
<1>3. /\ queue[c] \in Seq(Int) /\ t \in Nat /\ n \in Nat
      /\ Run(queue[c], h, t)
      /\ h = n + 1 /\ Offered(c) = t + n
  BY <1>1, <1>2, QueuedNumbers
<1>4. Len(queue'[c]) = n + 1
  BY <1>2, <1>3 DEF Hello
<1>5. hand'[c] > 0 => hand'[c] = t
  BY <1>2 DEF Gapless
<1>6. Run(queue'[c], h, t)
  BY <1>1, <1>2, <1>3, RunGrows
<1>. HIDE DEF n, t
<1>7. n + 1 \in Nat /\ h \in 1..(n + 1 + 1) /\ h # n + 1 + 1 /\ Offered(c) = t + (n + 1) - 1
  BY <1>3
<1>. QED
  BY <1>2, <1>3, <1>4, <1>5, <1>6, <1>7, NumbersQueued

(* writeLoop takes the hello, or the next sample.                          *)
LEMMA DequeueGapless ==
  ASSUME TypeOK, Places, NEW c \in Clients, Dequeue(c), Gapless(c)
  PROVE  Gapless(c)'
<1>. DEFINE n == Len(queue[c])
            t == Taken(c)
<1>1. PICK h \in 1..(n + 1) : Queued(c, h)
  BY DEF Gapless
<1>2. /\ hand'[c] = Head(queue[c]) /\ queue'[c] = Tail(queue[c]) /\ queue[c] # <<>>
      /\ wire' = wire /\ joinedAt' = joinedAt /\ Offered(c)' = Offered(c)
      /\ handler'[c] = "writing" /\ hand[c] = None
  BY DEF Dequeue, TypeOK, Places, broadcaster, Offered
<1>3. /\ queue[c] \in Seq(Int) /\ t \in Nat /\ n \in Nat /\ h \in 1..(n + 1)
      /\ Run(queue[c], h, t)
      /\ h <= n => Offered(c) = t + n - 1
      /\ h = n + 1 => Offered(c) = t + n
  <2>1. queue[c] \in Seq(Int) /\ t \in Nat /\ n \in Nat
    BY TakenType DEF TypeOK
  <2>2. /\ Run(queue[c], h, t)
        /\ h <= n => Offered(c) = t + n - 1
        /\ h > n => Offered(c) = t + n
    BY <1>1 DEF Queued
  <2>. QED
    BY <2>1, <2>2
<1>4. n >= 1
  BY <1>2, <1>3, EmptySeq
<1>5. Len(wire[c]) \in Nat /\ joinedAt[c] \in Nat
  BY DEF TypeOK
<1>6. t = joinedAt[c] + Len(wire[c])
  BY <1>2, <1>5 DEF Taken, None
<1>7. /\ Len(queue'[c]) = n - 1
      /\ h = 1 => hand'[c] = Hello /\ Run(queue'[c], n, t)
      /\ h > 1 => hand'[c] = t + 1 /\ Run(queue'[c], h - 1, t + 1)
  BY <1>1, <1>2, <1>3, RunShrinks
<1>8. /\ hand'[c] = 0 => Taken(c)' = t
      /\ hand'[c] = t + 1 => Taken(c)' = t + 1
  BY <1>2, <1>3, <1>5, <1>6 DEF Taken
<1>. HIDE DEF n, t
<1>9. CASE h = 1
  <2>1. hand'[c] = 0 /\ Taken(c)' = t
    BY <1>7, <1>8, <1>9 DEF Hello
  <2>2. n - 1 \in Nat /\ n \in 1..(n - 1 + 1) /\ ~(n <= n - 1) /\ Offered(c)' = t + (n - 1)
    BY <1>2, <1>3, <1>4, <1>9
  <2>3. Len(queue'[c]) = n - 1 /\ Run(queue'[c], n, t) /\ ~(hand'[c] > 0)
    BY <1>7, <1>9, <2>1
  <2>. QED
    BY <1>2, <1>3, <2>1, <2>2, <2>3, NumbersQueued
<1>10. CASE h > 1
  <2>1. hand'[c] = t + 1 /\ Taken(c)' = t + 1
    BY <1>7, <1>8, <1>10
  <2>2. n - 1 \in Nat /\ h - 1 \in 1..(n - 1 + 1) /\ t + 1 \in Nat
    BY <1>3, <1>4, <1>10
  <2>3. /\ h - 1 <= n - 1 => Offered(c)' = (t + 1) + (n - 1) - 1
        /\ h - 1 = n - 1 + 1 => Offered(c)' = (t + 1) + (n - 1)
    BY <1>2, <1>3, <1>10
  <2>. QED
    BY <1>2, <1>3, <1>7, <1>10, <2>1, <2>2, <2>3, NumbersQueued
<1>. QED
  BY <1>3, <1>9, <1>10

(* What was taken is on the wire.                                          *)
LEMMA WrittenGapless ==
  ASSUME TypeOK, NEW c \in Clients, Written(c), Gapless(c)
  PROVE  Gapless(c)'
<1>1. PICK h \in 1..(Len(queue[c]) + 1) : Queued(c, h)
  BY DEF Gapless
<1>2. /\ hand'[c] = None /\ queue' = queue /\ joinedAt' = joinedAt /\ todo' = todo /\ sent' = sent
      /\ handler'[c] = "selecting"
      /\ wire'[c] = IF hand[c] > 0 THEN Append(wire[c], hand[c]) ELSE wire[c]
  BY DEF Written, TypeOK, broadcaster
<1>3. Len(wire[c]) \in Nat /\ joinedAt[c] \in Nat /\ hand[c] \in Int /\ wire[c] \in Seq(Int)
  BY DEF TypeOK
<1>4. /\ hand[c] > 0 => Len(wire'[c]) = Len(wire[c]) + 1
      /\ ~(hand[c] > 0) => wire'[c] = wire[c]
  BY <1>2, <1>3
<1>5. Taken(c)' = Taken(c)
  BY <1>2, <1>3, <1>4 DEF Taken, None
<1>6. Queued(c, h)'
  BY <1>1, <1>2, <1>5 DEF Queued, Offered
<1>. QED
  BY <1>1, <1>2, <1>6 DEF Gapless, None

(* A new sample is owed to everyone on the map.                            *)
LEMMA BeginGapless ==
  ASSUME TypeOK, Places, NEW c \in Clients, BeginBroadcast, Streaming(c), Gapless(c)
  PROVE  Gapless(c)'
<1>1. PICK h \in 1..(Len(queue[c]) + 1) : Queued(c, h)
  BY DEF Gapless
<1>2. c \notin todo /\ c \in todo'
  BY DEF BeginBroadcast, Places, ReadLocked, Streaming
<1>3. Offered(c)' = Offered(c)
  BY <1>2 DEF Offered, BeginBroadcast, TypeOK
<1>4. Taken(c)' = Taken(c) /\ queue' = queue /\ handler' = handler /\ hand' = hand
  BY DEF BeginBroadcast, Taken
<1>5. Queued(c, h)'
  BY <1>1, <1>3, <1>4 DEF Queued
<1>. QED
  BY <1>1, <1>4, <1>5 DEF Gapless

(* Whoever joins is owed what comes from then on, and has all there is.    *)
LEMMA AddGapless ==
  ASSUME TypeOK, Places, NEW c \in Clients, Add(c)
  PROVE  Gapless(c)'
<1>1. /\ queue'[c] = <<>> /\ wire'[c] = <<>> /\ hand'[c] = None /\ joinedAt'[c] = sent
      /\ sent' = sent /\ c \notin todo' /\ sent \in Nat
  BY DEF Add, Places, ReadLocked, TypeOK, broadcaster
<1>2. Taken(c)' = sent /\ Offered(c)' = sent
  BY <1>1 DEF Taken, Offered, None
<1>3. Run(queue'[c], 1, sent)
  BY <1>1 DEF Run
<1>4. Len(queue'[c]) = 0
  BY <1>1
<1>. QED
  <2>1. /\ 0 \in Nat /\ 1 \in 1..(0 + 1) /\ ~(1 <= 0) /\ 1 = 0 + 1 /\ sent = sent + 0
        /\ ~(hand'[c] > 0)
    BY <1>1 DEF None
  <2>. QED
    BY <1>1, <1>2, <1>3, <1>4, <2>1, NumbersQueued

LEMMA StepGapless ==
  ASSUME TypeOK, Places, [Next]_vars, NEW c \in Clients,
         Streaming(c) => Gapless(c), Streaming(c)'
  PROVE  Gapless(c)'
<1>1. CASE BeginBroadcast
  <2>1. Streaming(c)
    BY <1>1 DEF BeginBroadcast, Streaming, Writable
  <2>. QED
    BY <1>1, <2>1, BeginGapless
<1>2. ASSUME NEW d \in Clients, Enqueue(d) PROVE Gapless(c)'
  <2>1. Streaming(c)
    BY <1>2 DEF Enqueue, Streaming, Writable
  <2>2. CASE d = c
    BY <1>2, <2>1, <2>2, EnqueueGapless
  <2>3. CASE d # c
    BY <1>2, <2>1, <2>3, Undisturbed DEF Enqueue, TypeOK
  <2>. QED
    BY <2>2, <2>3
<1>3. ASSUME NEW d \in Clients, Overflow(d) \/ ReadFails(d) PROVE Gapless(c)'
  <2>1. /\ handler' = handler /\ hand' = hand /\ queue' = queue /\ wire' = wire
        /\ joinedAt' = joinedAt /\ sent' = sent /\ todo' = todo
        /\ BeginClose(d)
    BY <1>3 DEF Overflow, ReadFails, broadcaster
  <2>2. Streaming(c)
    BY <2>1 DEF BeginClose, TypeOK, Streaming, Writable
  <2>. QED
    BY <2>1, <2>2, Undisturbed
<1>4. ASSUME NEW d \in Clients, Evicted(d) PROVE Gapless(c)'
  <2>1. Streaming(c) /\ d # c
    BY <1>4 DEF Evicted, Streaming, Writable
  <2>. QED
    BY <1>4, <2>1, Undisturbed DEF Evicted
<1>5. CASE EndBroadcast
  <2>1. Streaming(c)
    BY <1>5 DEF EndBroadcast, Streaming, Writable
  <2>. QED
    BY <1>5, <2>1, Undisturbed DEF EndBroadcast
<1>6. ASSUME NEW d \in Clients, CloseConn(d) PROVE Gapless(c)'
  <2>1. Streaming(c)
    BY <1>6 DEF CloseConn, Streaming, Writable, TypeOK
  <2>. QED
    BY <1>6, <2>1, Undisturbed DEF CloseConn, broadcaster
<1>7. ASSUME NEW d \in Clients, Add(d) PROVE Gapless(c)'
  <2>1. CASE d = c
    BY <1>7, <2>1, AddGapless
  <2>2. CASE d # c
    <3>1. Streaming(c)
      BY <1>7, <2>2 DEF Add, Streaming, Writable, TypeOK
    <3>. QED
      BY <1>7, <2>2, <3>1, Undisturbed DEF Add, broadcaster, TypeOK
  <2>. QED
    BY <2>1, <2>2
<1>8. ASSUME NEW d \in Clients, Greet(d) PROVE Gapless(c)'
  <2>1. Streaming(c)
    BY <1>8 DEF Greet, Streaming, Writable, TypeOK
  <2>2. CASE d = c
    BY <1>8, <2>1, <2>2, GreetGapless
  <2>3. CASE d # c
    BY <1>8, <2>1, <2>3, Undisturbed DEF Greet, TypeOK, broadcaster
  <2>. QED
    BY <2>2, <2>3
<1>9. ASSUME NEW d \in Clients, Dequeue(d) PROVE Gapless(c)'
  <2>1. Streaming(c)
    BY <1>9 DEF Dequeue, Streaming, Writable, TypeOK
  <2>2. CASE d = c
    BY <1>9, <2>1, <2>2, DequeueGapless
  <2>3. CASE d # c
    BY <1>9, <2>1, <2>3, Undisturbed DEF Dequeue, TypeOK, broadcaster
  <2>. QED
    BY <2>2, <2>3
<1>10. ASSUME NEW d \in Clients, Beat(d) PROVE Gapless(c)'
  <2>1. Streaming(c)
    BY <1>10 DEF Beat, Streaming, Writable, TypeOK
  <2>2. CASE d = c
    <3>1. hand[c] = None /\ hand'[c] = Heartbeat /\ handler'[c] = "writing"
      BY <1>10, <2>2 DEF Beat, Places, TypeOK
    <3>2. Taken(c)' = Taken(c) /\ Offered(c)' = Offered(c) /\ queue' = queue
      BY <1>10, <3>1 DEF Beat, Taken, Offered, broadcaster, None, Heartbeat
    <3>3. PICK h \in 1..(Len(queue[c]) + 1) : Queued(c, h)
      BY <2>1 DEF Gapless
    <3>4. Queued(c, h)'
      BY <3>1, <3>2, <3>3 DEF Queued
    <3>. QED
      BY <3>1, <3>2, <3>3, <3>4 DEF Gapless, Heartbeat
  <2>3. CASE d # c
    BY <1>10, <2>1, <2>3, Undisturbed DEF Beat, TypeOK, broadcaster
  <2>. QED
    BY <2>2, <2>3
<1>11. ASSUME NEW d \in Clients, Written(d) PROVE Gapless(c)'
  <2>1. Streaming(c)
    BY <1>11 DEF Written, Streaming, Writable, TypeOK
  <2>2. CASE d = c
    BY <1>11, <2>1, <2>2, WrittenGapless
  <2>3. CASE d # c
    BY <1>11, <2>1, <2>3, Undisturbed DEF Written, TypeOK, broadcaster
  <2>. QED
    BY <2>2, <2>3
<1>12. ASSUME NEW d \in Clients, SeeDone(d) \/ Remove(d) PROVE Gapless(c)'
  <2>1. d # c /\ Streaming(c)
    BY <1>12 DEF SeeDone, Remove, Streaming, Writable, TypeOK
  <2>. QED
    BY <1>12, <2>1, Undisturbed DEF SeeDone, Remove, TypeOK, broadcaster
<1>13. ASSUME NEW d \in Clients, WriteFails(d) PROVE Gapless(c)'
  <2>1. d # c /\ Streaming(c)
    BY <1>13 DEF WriteFails, BeginClose, Streaming, Writable, TypeOK
  <2>. QED
    BY <1>13, <2>1, Undisturbed DEF WriteFails, TypeOK, broadcaster
<1>14. ASSUME NEW d \in Clients, PeerLeaves(d) PROVE Gapless(c)'
  <2>1. Streaming(c)
    BY <1>14 DEF PeerLeaves, Streaming, Writable
  <2>. QED
    BY <1>14, <2>1, Undisturbed DEF PeerLeaves, broadcaster
<1>15. CASE Exhausted \/ UNCHANGED vars
  <2>1. UNCHANGED vars
    BY <1>15 DEF Exhausted
  <2>2. Streaming(c)
    BY <2>1 DEF vars, Streaming, Writable
  <2>. QED
    BY <2>1, <2>2, Undisturbed DEF vars, broadcaster
<1>. QED
  BY <1>1, <1>2, <1>3, <1>4, <1>5, <1>6, <1>7, <1>8, <1>9, <1>10, <1>11, <1>12, <1>13, <1>14,
     <1>15 DEF Next, BroadcastStep, HandlerStep

-----------------------------------------------------------------------------
(* Whoever is streaming has been written, is being written or still has in *)
(* its channel every sample offered since it joined, in order, with the    *)
(* hello somewhere among them: the three queues Hub.add, Broadcast and     *)
(* writeLoop pass samples through lose and reorder none, for any number of *)
(* clients and any capacity of the channel.                                *)
THEOREM HubCorrect == Spec => []HubInv
<1>1. Init => HubInv
  BY InitInv
<1>2. HubInv /\ [Next]_vars => HubInv'
  BY StepTypes, StepPlaces, StepGapless DEF HubInv
<1>. QED
  BY <1>1, <1>2, PTL DEF Spec

-----------------------------------------------------------------------------
(* The refinement.                                                         *)

(* Only a taken sample is written, and that was published.                 *)
LEMMA WrittenShows ==
  ASSUME TypeOK, NEW c \in Clients, Gapless(c), Written(c), hand[c] > 0
  PROVE  Feed!Show(c)
<1>. DEFINE n == Len(queue[c])
            t == Taken(c)
<1>1. PICK h \in 1..(n + 1) : Queued(c, h)
  BY DEF Gapless
<1>2. /\ t \in Nat /\ n \in Nat /\ sent \in Nat /\ h \in 1..(n + 1)
      /\ h <= n => Offered(c) = t + n - 1
      /\ h = n + 1 => Offered(c) = t + n
  <2>1. t \in Nat /\ n \in Nat /\ sent \in Nat
    BY TakenType DEF TypeOK
  <2>2. /\ h <= n => Offered(c) = t + n - 1
        /\ h > n => Offered(c) = t + n
    BY <1>1 DEF Queued
  <2>. QED
    BY <2>1, <2>2
<1>3. Offered(c) = sent \/ Offered(c) = sent - 1
  BY DEF Offered
<1>4. Len(wire[c]) \in Nat /\ joinedAt[c] \in Nat
  BY DEF TypeOK
<1>5. t = joinedAt[c] + Len(wire[c]) + 1 /\ hand[c] = t
  BY DEF Taken, Gapless
<1>6. t <= sent
  <2>. HIDE DEF t, n
  <2>. QED
    BY <1>2, <1>3
<1>7. /\ wire' = [wire EXCEPT ![c] = Append(@, hand[c])]
      /\ UNCHANGED <<sent, joinedAt>>
  BY DEF Written, broadcaster
<1>. HIDE DEF t
<1>. QED
  BY <1>5, <1>6, <1>7 DEF Feed!Show

LEMMA StepFeeds ==
  ASSUME HubInv, [Next]_vars
  PROVE  [Feed!Next]_(Feed!vars)
<1>. USE DEF Feed!vars, broadcaster
<1>1. CASE BeginBroadcast
  <2>1. Feed!Publish
    BY <1>1 DEF BeginBroadcast, Feed!Publish
  <2>. QED
    BY <2>1 DEF Feed!Next
<1>2. ASSUME NEW c \in Clients, Add(c) PROVE [Feed!Next]_(Feed!vars)
  <2>1. Feed!Join(c)
    BY <1>2 DEF Add, Feed!Join, HubInv, Places
  <2>. QED
    BY <2>1 DEF Feed!Next
<1>3. ASSUME NEW c \in Clients, Written(c) PROVE [Feed!Next]_(Feed!vars)
  <2>1. CASE hand[c] > 0
    <3>1. TypeOK /\ Gapless(c)
      BY <1>3 DEF HubInv, Written, Streaming
    <3>. QED
      BY <1>3, <2>1, <3>1, WrittenShows DEF Feed!Next
  <2>2. CASE ~(hand[c] > 0)
    <3>1. wire' = wire
      BY <1>3, <2>2 DEF Written, HubInv, TypeOK
    <3>. QED
      BY <1>3, <3>1 DEF Written
  <2>. QED
    BY <2>1, <2>2
<1>4. ASSUME NEW c \in Clients, Enqueue(c) \/ Overflow(c) \/ Evicted(c) PROVE UNCHANGED Feed!vars
  BY <1>4 DEF Enqueue, Overflow, Evicted
<1>5. ASSUME NEW c \in Clients, Greet(c) \/ SeeDone(c) \/ Dequeue(c) \/ WriteFails(c) \/ Remove(c)
      PROVE  UNCHANGED Feed!vars
  BY <1>5 DEF Greet, SeeDone, Dequeue, WriteFails, Remove
<1>6. ASSUME NEW c \in Clients, Beat(c) \/ CloseConn(c) \/ ReadFails(c) \/ PeerLeaves(c)
      PROVE  UNCHANGED Feed!vars
  BY <1>6 DEF Beat, CloseConn, ReadFails, PeerLeaves
<1>7. CASE EndBroadcast \/ Exhausted \/ UNCHANGED vars
  BY <1>7 DEF EndBroadcast, Exhausted, vars
<1>. QED
  BY <1>1, <1>2, <1>3, <1>4, <1>5, <1>6, <1>7 DEF Next, BroadcastStep, HandlerStep

(* Every browser is shown the samples published since it joined, in order  *)
(* and without a gap, until it is cut off: what a full channel costs it is *)
(* the connection (Broadcast's default case), never one sample in between. *)
THEOREM HubKeepsPromise == Spec => ImplementsFeed
<1>1. Init => Feed!Init
  BY DEF Init, Feed!Init
<1>2. HubInv /\ [Next]_vars => [Feed!Next]_(Feed!vars)
  BY StepFeeds
<1>. QED
  BY <1>1, <1>2, HubCorrect, PTL DEF Spec, ImplementsFeed, Feed!Spec

-----------------------------------------------------------------------------
(* The daemon's life.  ServeTypeOK is not inductive by itself: that errc   *)
(* never holds more than its capacity follows from Accounting, so the two  *)
(* are proved together.                                                    *)
ServeIInv == ServeTypeOK /\ ServeInv

(* The invariant holds before the store is opened.                         *)
LEMMA ServeStarts == ServeInit => ServeIInv
<1> SUFFICES ASSUME ServeInit PROVE ServeIInv
  OBVIOUS
<1>1. errc \in Seq(Errors) /\ Len(errc) = 0 /\ DOMAIN errc = {}
  BY DEF ServeInit
<1>2. ServeTypeOK
  <2>1. conns \in [Requests -> {"none", "connected", "reading", "over"}]
    BY DEF ServeInit
  <2>2. Len(errc) <= 2 /\ received \in 0..2
    BY <1>1 DEF ServeInit
  <2>3. stopping = FALSE /\ cancelled = FALSE /\ gaveUp = FALSE
    BY DEF ServeInit
  <2>4. main = "starting" /\ db = "none" /\ mon = "off" /\ web = "off" /\ listener = "off"
        /\ result = "none"
    BY DEF ServeInit
  <2>. QED
    BY <1>1, <2>1, <2>2, <2>3, <2>4 DEF ServeTypeOK
<1>3. ServeInv
  BY <1>1 DEF ServeInit, ServeInv, Lifecycle, Accounting, Cause, Draining, Returned, Active
<1>. QED
  BY <1>2, <1>3 DEF ServeIInv

(* A service that returns adds its error at the end of errc.               *)
LEMMA ErrorAdded ==
  ASSUME NEW e \in Seq(Errors), NEW err \in Errors
  PROVE  /\ Append(e, err) \in Seq(Errors)
         /\ Len(Append(e, err)) = Len(e) + 1
         /\ DOMAIN Append(e, err) = DOMAIN e \cup {Len(e) + 1}
         /\ \A k \in DOMAIN e : Append(e, err)[k] = e[k]
         /\ Append(e, err)[Len(e) + 1] = err
OBVIOUS

(* Every step of the process, its services and its requests keeps it.      *)
LEMMA ServeStepKeeps == ServeIInv /\ [ServeNext]_serveVars => ServeIInv'
<1> SUFFICES ASSUME ServeIInv, [ServeNext]_serveVars PROVE ServeIInv'
  OBVIOUS
<1> USE DEF ServeIInv, ServeTypeOK, ServeInv, Lifecycle, Accounting, Cause, Draining, Returned, Active,
            Errors, process, runner, server, Alive
<1>1. CASE Signal
  BY <1>1 DEF Signal
<1>2. CASE StartFails
  BY <1>2 DEF StartFails
<1>3. CASE OpenStore
  BY <1>3 DEF OpenStore
<1>4. CASE BadLevel
  BY <1>4 DEF BadLevel
<1>5. CASE RunServices
  BY <1>5 DEF RunServices
<1>6. CASE Collect
  BY <1>6 DEF Collect, Keep
<1>7. CASE Collected
  BY <1>7 DEF Collected, Wanted
<1>8. CASE CloseStore
  BY <1>8 DEF CloseStore
<1>9. CASE Exit
  BY <1>9 DEF Exit
<1>10. CASE Sampled
  BY <1>10 DEF Sampled, MonitorMoves
<1>11. CASE Inserted
  BY <1>11 DEF Inserted, MonitorMoves
<1>12. CASE TakeTick
  BY <1>12 DEF TakeTick, MonitorMoves
<1>13. CASE MonitorStops
  BY <1>13 DEF MonitorStops
<1>14. CASE ListenFails
  BY <1>14 DEF ListenFails
<1>15. CASE WebFails
  <2>1. errc' = Append(errc, "listen")
    BY <1>15 DEF WebFails, WebReturns
  <2>2. ServeTypeOK'
    BY <1>15, <2>1, ErrorAdded DEF WebFails, WebReturns
  <2>3. Lifecycle' /\ Draining'
    BY <1>15 DEF WebFails, WebReturns
  <2>4. Accounting'
    BY <1>15, <2>1, ErrorAdded DEF WebFails, WebReturns
  <2>5. Cause'
    BY <1>15, <2>1, ErrorAdded DEF WebFails, WebReturns
  <2>. QED
    BY <2>2, <2>3, <2>4, <2>5
<1>16. CASE BeginShutdown
  <2>1. ServeTypeOK'
    BY <1>16 DEF BeginShutdown
  <2>2. Lifecycle' /\ Active' = Active
    BY <1>16 DEF BeginShutdown
  <2>4. Draining'
    BY <1>16, <2>2 DEF BeginShutdown
  <2>3. Accounting' /\ Cause'
    BY <1>16 DEF BeginShutdown
  <2>. QED
    BY <2>1, <2>2, <2>3, <2>4
<1>17. CASE Drained
  <2>1. errc' = Append(errc, "canceled")
    BY <1>17 DEF Drained, WebReturns
  <2>2. ServeTypeOK'
    BY <1>17, <2>1, ErrorAdded DEF Drained, WebReturns
  <2>3. Lifecycle' /\ Draining'
    BY <1>17 DEF Drained, WebReturns
  <2>4. Accounting'
    BY <1>17, <2>1, ErrorAdded DEF Drained, WebReturns
  <2>5. Cause'
    BY <1>17, <2>1, ErrorAdded DEF Drained, WebReturns
  <2>. QED
    BY <2>2, <2>3, <2>4, <2>5
<1>18. CASE ShutdownGivesUp
  <2>1. errc' = Append(errc, "canceled")
    BY <1>18 DEF ShutdownGivesUp, WebReturns
  <2>2. ServeTypeOK'
    BY <1>18, <2>1, ErrorAdded DEF ShutdownGivesUp, WebReturns
  <2>3. Lifecycle' /\ Draining'
    BY <1>18 DEF ShutdownGivesUp, WebReturns
  <2>4. Accounting'
    BY <1>18, <2>1, ErrorAdded DEF ShutdownGivesUp, WebReturns
  <2>5. Cause'
    BY <1>18, <2>1, ErrorAdded DEF ShutdownGivesUp, WebReturns
  <2>. QED
    BY <2>2, <2>3, <2>4, <2>5
<1>19. ASSUME NEW r \in Requests, Connect(r) PROVE ServeIInv'
  BY <1>19 DEF Connect, RequestMoves
<1>20. ASSUME NEW r \in Requests, ReadStore(r) PROVE ServeIInv'
  BY <1>20 DEF ReadStore, RequestMoves
<1>21. ASSUME NEW r \in Requests, Answered(r) PROVE ServeIInv'
  BY <1>21 DEF Answered, RequestMoves
<1>22. CASE Exited \/ UNCHANGED serveVars
  <2>1. ServeTypeOK' /\ Lifecycle'
    BY <1>22 DEF Exited, serveVars
  <2>2. Accounting' /\ Cause' /\ Draining'
    BY <1>22 DEF Exited, serveVars
  <2>. QED
    BY <2>1, <2>2
<1>. QED
  BY <1>1, <1>2, <1>3, <1>4, <1>5, <1>6, <1>7, <1>8, <1>9, <1>10, <1>11, <1>12, <1>13, <1>14,
     <1>15, <1>16, <1>17, <1>18, <1>19, <1>20, <1>21, <1>22
  DEF ServeNext, MainStep, MonitorStep, WebStep

(* So it is an invariant of the daemon.                                    *)
THEOREM ServeCorrect == ServeSpec => []ServeIInv
<1>. QED
  BY ServeStarts, ServeStepKeeps, PTL DEF ServeSpec

(* The monitor never inserts into a closed store, and no exit leaves the   *)
(* store unclosed.                                                         *)
THEOREM StoreIsClosedLast == ServeSpec => []StoreOutlivesMonitor
<1>1. ServeIInv => StoreOutlivesMonitor
  BY DEF ServeIInv, ServeTypeOK, ServeInv, Lifecycle, StoreOutlivesMonitor
<1>. QED
  BY <1>1, ServeCorrect, PTL

(* Requests are drained before the store is closed, with the two           *)
(* exceptions RequestsDrainedBeforeClose names.                            *)
THEOREM RequestsAreDrained == ServeSpec => []RequestsDrainedBeforeClose
<1>1. ServeIInv => RequestsDrainedBeforeClose
  BY DEF ServeIInv, ServeTypeOK, ServeInv, Lifecycle, Draining, Active, RequestsDrainedBeforeClose
<1>. QED
  BY <1>1, ServeCorrect, PTL

(* The daemon's result tells why it ended.                                 *)
THEOREM ExitIsTruthful == ServeSpec => []ExitTellsWhy
<1>1. ServeIInv => ExitTellsWhy
  BY DEF ServeIInv, ServeTypeOK, ServeInv, Lifecycle, Accounting, Cause, ExitTellsWhy
<1>. QED
  BY <1>1, ServeCorrect, PTL
=============================================================================
