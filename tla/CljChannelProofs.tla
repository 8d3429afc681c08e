-------------------------- MODULE CljChannelProofs --------------------------
(* Proofs about CljChannel, for every capacity and every set of tasks. *)
EXTENDS CljChannel, TLAPS

-----------------------------------------------------------------------------
(* Sequences *)

LEMMA AppendFacts ==
    ASSUME NEW S, NEW s \in Seq(S), NEW e \in S
    PROVE  /\ Append(s, e) \in Seq(S)
           /\ Len(Append(s, e)) = Len(s) + 1
           /\ \A i \in 1..Len(s) : Append(s, e)[i] = s[i]
           /\ Append(s, e)[Len(s) + 1] = e
           /\ Append(s, e) # <<>>
  OBVIOUS

LEMMA TailFacts ==
    ASSUME NEW S, NEW s \in Seq(S), s # <<>>
    PROVE  /\ Head(s) \in S /\ Head(s) = s[1]
           /\ Len(s) \in Nat \ {0}
           /\ Tail(s) \in Seq(S)
           /\ Len(Tail(s)) = Len(s) - 1
           /\ \A i \in 1..(Len(s) - 1) : Tail(s)[i] = s[i + 1]
  OBVIOUS

LEMMA EmptyFacts ==
    ASSUME NEW S, NEW s \in Seq(S)
    PROVE  /\ Len(s) \in Nat
           /\ s = <<>> <=> Len(s) = 0
           /\ \A i \in 1..Len(s) : s[i] \in S
  OBVIOUS

-----------------------------------------------------------------------------
(* Notify *)

NotifyType(S) == [waiters : Seq(S), permit : BOOLEAN]
Distinct(n) ==
    \A i, j \in 1..Len(n.waiters) : n.waiters[i] = n.waiters[j] => i = j

LEMMA NotifyOneFacts ==
    ASSUME NEW S, NEW n \in NotifyType(S), Distinct(n)
    PROVE  /\ NotifyOne(n) \in NotifyType(S)
           /\ Distinct(NotifyOne(n))
           /\ \A i \in 1..Len(NotifyOne(n).waiters) :
                /\ NotifyOne(n).waiters[i] \notin WokenBy(n)
                /\ \E j \in 1..Len(n.waiters) :
                       NotifyOne(n).waiters[i] = n.waiters[j]
           /\ WokenBy(n) \subseteq S
           /\ \A u \in WokenBy(n) : \E j \in 1..Len(n.waiters) : u = n.waiters[j]
<1>1. CASE n.waiters = <<>>
  BY <1>1 DEF NotifyType, NotifyOne, WokenBy, Distinct
<1>2. CASE n.waiters # <<>>
  <2> DEFINE w == n.waiters
  <2>1. w \in Seq(S) /\ n.permit \in BOOLEAN  BY DEF NotifyType
  <2>2. /\ NotifyOne(n) = [waiters |-> Tail(w), permit |-> n.permit]
        /\ WokenBy(n) = {Head(w)}
    BY <1>2 DEF NotifyOne, WokenBy
  <2>3. /\ Head(w) \in S /\ Head(w) = w[1] /\ Len(w) \in Nat \ {0}
        /\ Tail(w) \in Seq(S) /\ Len(Tail(w)) = Len(w) - 1
        /\ \A i \in 1..(Len(w) - 1) : Tail(w)[i] = w[i + 1]
    BY <1>2, <2>1, TailFacts
  <2>4. \A i, j \in 1..Len(w) : w[i] = w[j] => i = j  BY DEF Distinct
  <2> HIDE DEF w
  <2>5. \A i \in 1..Len(Tail(w)) : /\ i + 1 \in 1..Len(w) /\ 1 \in 1..Len(w)
                                   /\ Tail(w)[i] = w[i+1] /\ Tail(w)[i] # w[1]
    BY <2>3, <2>4
  <2>6. \A i, j \in 1..Len(Tail(w)) : Tail(w)[i] = Tail(w)[j] => i = j
    BY <2>3, <2>4, <2>5
  <2>7. NotifyOne(n).waiters = Tail(w) /\ NotifyOne(n).permit = n.permit
    BY <2>2
  <2>8. Distinct(NotifyOne(n))  BY <2>6, <2>7 DEF Distinct
  <2>9. NotifyOne(n) \in NotifyType(S)  BY <2>1, <2>2, <2>3 DEF NotifyType
  <2>10. \A i \in 1..Len(NotifyOne(n).waiters) :
                /\ NotifyOne(n).waiters[i] \notin WokenBy(n)
                /\ \E j \in 1..Len(n.waiters) :
                       NotifyOne(n).waiters[i] = n.waiters[j]
    BY <2>2, <2>3, <2>5, <2>7 DEF w
  <2>11. WokenBy(n) \subseteq S  BY <2>2, <2>3
  <2>12. \A u \in WokenBy(n) : \E j \in 1..Len(n.waiters) : u = n.waiters[j]
    BY <2>2, <2>3 DEF w
  <2> QED BY <2>8, <2>9, <2>10, <2>11, <2>12
<1> QED BY <1>1, <1>2

LEMMA ParkOnFacts ==
    ASSUME NEW S, NEW n \in NotifyType(S), Distinct(n), NEW t \in S,
           \A i \in 1..Len(n.waiters) : n.waiters[i] # t
    PROVE  /\ ParkOn(n, t) \in NotifyType(S)
           /\ Distinct(ParkOn(n, t))
           /\ \A i \in 1..Len(ParkOn(n, t).waiters) :
                \/ ParkOn(n, t).waiters[i] = t
                \/ \E j \in 1..Len(n.waiters) :
                       ParkOn(n, t).waiters[i] = n.waiters[j]
<1> DEFINE w == n.waiters
           a == Append(w, t)
<1>1. w \in Seq(S) /\ n.permit \in BOOLEAN  BY DEF NotifyType
<1>2. /\ a \in Seq(S) /\ Len(a) = Len(w) + 1 /\ a[Len(w) + 1] = t
      /\ \A i \in 1..Len(w) : a[i] = w[i]
  BY <1>1, AppendFacts
<1>3. ParkOn(n, t) = [waiters |-> a, permit |-> FALSE]  BY DEF ParkOn
<1>4. Len(w) \in Nat /\ \A i, j \in 1..Len(w) : w[i] = w[j] => i = j
  BY <1>1, EmptyFacts DEF Distinct
<1>5. \A i \in 1..Len(w) : w[i] # t  OBVIOUS
<1> HIDE DEF w, a
<1>6. \A i, j \in 1..Len(a) : a[i] = a[j] => i = j
  BY <1>2, <1>4, <1>5
<1>7. \A i \in 1..Len(a) : a[i] = t \/ \E j \in 1..Len(w) : a[i] = w[j]
  BY <1>2, <1>4
<1> QED BY <1>2, <1>3, <1>6, <1>7 DEF NotifyType, Distinct, w
-----------------------------------------------------------------------------
(* What a step does to the queue and its history *)

QueueType ==
    /\ queue \in Seq(Producers) /\ sent \in Seq(Producers)
    /\ received \in Seq(Producers) /\ withdrawn \in Seq(Producers)
    /\ taken \in Nat /\ closed \in BOOLEAN

LEMMA PopKeepsLedger ==
    ASSUME QueueType, Ledger, WithinCapacity, queue # <<>>, PopFront
    PROVE  /\ QueueType' /\ Ledger' /\ WithinCapacity'
           /\ withdrawn = <<>>
           /\ sent[taken + 1] = Head(queue)
           /\ Len(queue') = Len(queue) - 1 /\ Len(queue) >= 1
           /\ sent' = sent /\ taken' = taken + 1 /\ closed' = closed
           /\ withdrawn' = withdrawn
<1>1. /\ Head(queue) \in Producers /\ Head(queue) = queue[1]
      /\ Len(queue) \in Nat \ {0}
      /\ Tail(queue) \in Seq(Producers) /\ Len(Tail(queue)) = Len(queue) - 1
      /\ \A i \in 1..(Len(queue) - 1) : Tail(queue)[i] = queue[i + 1]
  BY TailFacts DEF QueueType
<1>2. /\ received' \in Seq(Producers) /\ Len(received') = Len(received) + 1
      /\ \A i \in 1..Len(received) : received'[i] = received[i]
      /\ received'[Len(received) + 1] = Head(queue)
  BY <1>1, AppendFacts DEF QueueType, PopFront
<1>3. withdrawn = <<>>  BY DEF Ledger
<1>4. /\ queue' = Tail(queue) /\ taken' = taken + 1 /\ sent' = sent
      /\ withdrawn' = withdrawn /\ closed' = closed
  BY DEF PopFront
<1>5. sent[taken + 1] = Head(queue)  BY <1>1 DEF Ledger
<1>6. \A i \in 1..taken' : sent'[i] = received'[i]
  BY <1>2, <1>4, <1>5 DEF Ledger, QueueType
<1>7. \A i \in 1..Len(queue') : sent'[taken' + i] = queue'[i]
  <2> SUFFICES ASSUME NEW i \in 1..Len(queue')
               PROVE  sent'[taken' + i] = queue'[i]
    OBVIOUS
  <2>1. i + 1 \in 1..Len(queue) /\ queue'[i] = queue[i + 1]  BY <1>1, <1>4
  <2>2. sent[taken + (i + 1)] = queue[i + 1]  BY <2>1 DEF Ledger
  <2>3. taken' + i = taken + (i + 1)  BY <1>1, <1>4 DEF QueueType
  <2> QED BY <2>1, <2>2, <2>3, <1>4
<1>8. QueueType'  BY <1>1, <1>2, <1>4 DEF QueueType
<1>9. Ledger'
  <2>1. Len(received') = taken'  BY <1>2, <1>4 DEF Ledger
  <2>2. Len(withdrawn) \in Nat  BY EmptyFacts DEF QueueType
  <2>3. Len(sent') = taken' + Len(queue') + Len(withdrawn')
    BY <1>1, <1>4, <2>2 DEF Ledger, QueueType
  <2> QED BY <1>3, <1>4, <1>6, <1>7, <2>1, <2>3 DEF Ledger
<1>10. WithinCapacity'
  BY <1>1, <1>4, CapacityAssumption DEF WithinCapacity, Rendezvous
<1> QED BY <1>1, <1>3, <1>4, <1>5, <1>8, <1>9, <1>10

LEMMA PushKeepsLedger ==
    ASSUME NEW p \in Producers, QueueType, Ledger, WithinCapacity,
           ~closed, HasRoom, PushBack(p)
    PROVE  /\ QueueType' /\ Ledger' /\ WithinCapacity'
           /\ withdrawn = <<>>
           /\ Len(queue') = Len(queue) + 1
           /\ Len(sent) = taken + Len(queue) /\ Len(sent') = Len(sent) + 1
           /\ \A i \in 1..Len(sent) : sent'[i] = sent[i]
           /\ sent'[Len(sent) + 1] = p
           /\ Rendezvous => queue = <<>>
           /\ taken' = taken /\ closed' = closed /\ withdrawn' = withdrawn
<1>1. /\ queue' \in Seq(Producers) /\ Len(queue') = Len(queue) + 1
      /\ \A i \in 1..Len(queue) : queue'[i] = queue[i]
      /\ queue'[Len(queue) + 1] = p /\ queue' # <<>>
  BY AppendFacts DEF QueueType, PushBack
<1>2. /\ sent' \in Seq(Producers) /\ Len(sent') = Len(sent) + 1
      /\ \A i \in 1..Len(sent) : sent'[i] = sent[i]
      /\ sent'[Len(sent) + 1] = p
  BY AppendFacts DEF QueueType, PushBack
<1>3. /\ Len(queue) \in Nat /\ Len(sent) \in Nat /\ Len(withdrawn) \in Nat
      /\ withdrawn = <<>> => Len(withdrawn) = 0
      /\ queue = <<>> => Len(queue) = 0
  BY EmptyFacts DEF QueueType
<1>4. withdrawn = <<>>  BY DEF Ledger
<1>5. /\ taken' = taken /\ received' = received
      /\ withdrawn' = withdrawn /\ closed' = closed
  BY DEF PushBack
<1>6. Len(sent) = taken + Len(queue)  BY <1>3, <1>4 DEF Ledger, QueueType
<1>7. \A i \in 1..taken' : sent'[i] = received'[i]
  BY <1>2, <1>3, <1>5, <1>6 DEF Ledger, QueueType
<1>8. \A i \in 1..Len(queue') : sent'[taken' + i] = queue'[i]
  <2> SUFFICES ASSUME NEW i \in 1..Len(queue')
               PROVE  sent'[taken + i] = queue'[i]
    BY <1>5
  <2>1. CASE i = Len(queue) + 1
    BY <2>1, <1>1, <1>2, <1>6 DEF QueueType
  <2>2. CASE i \in 1..Len(queue)
    <3>1. taken + i \in 1..Len(sent)  BY <2>2, <1>3, <1>6 DEF QueueType
    <3>2. sent[taken + i] = queue[i]  BY <2>2 DEF Ledger
    <3> QED BY <2>2, <3>1, <3>2, <1>1, <1>2
  <2> QED BY <2>1, <2>2, <1>1, <1>3
<1>9. QueueType'  BY <1>1, <1>2, <1>5 DEF QueueType
<1>10. Ledger'
  BY <1>1, <1>2, <1>3, <1>4, <1>5, <1>6, <1>7, <1>8 DEF Ledger, QueueType
<1>11. WithinCapacity'
  BY <1>1, <1>3, CapacityAssumption DEF WithinCapacity, HasRoom, Rendezvous
<1>12. Rendezvous => queue = <<>>  BY DEF HasRoom
<1> QED BY <1>1, <1>2, <1>4, <1>5, <1>6, <1>9, <1>10, <1>11, <1>12
-----------------------------------------------------------------------------
(* What a step does to the other tasks *)

\* t moves to label; no other task starts or finishes.
PcStep(t, label) ==
    \A u \in Tasks :
        IF u = t THEN pc'[u] = label
        ELSE /\ pc'[u] = "new" <=> pc[u] = "new"
             /\ pc'[u] = "done" <=> pc[u] = "done"

PcType == pc \in [Tasks -> {"new", "ready", "parked", "done"}]

\* m is the Notify n after a step of t: its waiters are old ones that were not
\* woken and possibly t itself.
Carries(n, m, t, label, woken) ==
    /\ Distinct(m)
    /\ \A i \in 1..Len(m.waiters) :
         \/ m.waiters[i] = t /\ label = "parked"
         \/ /\ m.waiters[i] \notin woken
            /\ \E j \in 1..Len(n.waiters) : m.waiters[i] = n.waiters[j]

LEMMA TasksDisjoint ==
    /\ Consumers \cap Producers = {} /\ Takers \cap Putters = {}
    /\ Takers \subseteq Consumers /\ Putters \subseteq Producers
    /\ Consumers \subseteq Tasks /\ Producers \subseteq Tasks
  BY TasksAssumption DEF Consumers, Producers, Tasks

LEMMA MovesFacts ==
    ASSUME PcType, WaitersParked, NEW t \in Tasks, NEW label, NEW woken,
           notEmpty \in NotifyType(Takers), notFull \in NotifyType(Putters),
           notEmpty' \in NotifyType(Takers), notFull' \in NotifyType(Putters),
           pc[t] # "parked",
           label \in {"ready", "parked", "done"},
           \A u \in woken : u \in Tasks /\ pc[u] = "parked",
           Moves(t, label, woken),
           Carries(notEmpty, notEmpty', t, label, woken),
           Carries(notFull, notFull', t, label, woken)
    PROVE  PcType' /\ PcStep(t, label) /\ WaitersParked'
<1>1. PcType'  BY DEF Moves, PcType
<1>2. PcStep(t, label)  BY DEF Moves, PcType, PcStep
<1>3. ASSUME NEW n \in {notEmpty, notFull}, NEW u \in Tasks,
             NEW j \in 1..Len(n.waiters), u = n.waiters[j], u \notin woken
      PROVE  pc'[u] = "parked"
  <2>1. pc[u] = "parked"  BY <1>3 DEF WaitersParked
  <2> QED BY <2>1, <1>3 DEF Moves, PcType
<1>4. ASSUME NEW n \in {notEmpty, notFull}, NEW m, NEW S, S \subseteq Tasks,
             m \in NotifyType(S), Carries(n, m, t, label, woken),
             NEW i \in 1..Len(m.waiters)
      PROVE  pc'[m.waiters[i]] = "parked"
  <2>1. m.waiters[i] \in Tasks
    BY <1>4, EmptyFacts DEF NotifyType
  <2>2. CASE m.waiters[i] = t /\ label = "parked"
    BY <2>2 DEF Moves
  <2>3. CASE /\ m.waiters[i] \notin woken
             /\ \E j \in 1..Len(n.waiters) : m.waiters[i] = n.waiters[j]
    BY <2>1, <2>3, <1>3
  <2> QED BY <2>2, <2>3, <1>4 DEF Carries
<1>5. Takers \subseteq Tasks /\ Putters \subseteq Tasks  BY TasksDisjoint
<1>6. \A i \in 1..Len(notEmpty'.waiters) : pc'[notEmpty'.waiters[i]] = "parked"
  BY <1>4, <1>5
<1>7. \A i \in 1..Len(notFull'.waiters) : pc'[notFull'.waiters[i]] = "parked"
  BY <1>4, <1>5
<1>8. WaitersParked'
  BY <1>6, <1>7 DEF WaitersParked, Carries, Distinct
<1> QED BY <1>1, <1>2, <1>8

\* The ways a Notify changes in a step of t.
LEMMA CarriesSame ==
    ASSUME NEW S, NEW n \in NotifyType(S), Distinct(n), NEW t, NEW label, NEW woken,
           woken \cap S = {}
    PROVE  Carries(n, n, t, label, woken)
<1>1. \A i \in 1..Len(n.waiters) : n.waiters[i] \in S
  BY EmptyFacts DEF NotifyType
<1> QED BY <1>1 DEF Carries

LEMMA CarriesNotified ==
    ASSUME NEW S, NEW n \in NotifyType(S), Distinct(n), NEW t, NEW label
    PROVE  Carries(n, NotifyOne(n), t, label, WokenBy(n))
  BY NotifyOneFacts DEF Carries

LEMMA CarriesParked ==
    ASSUME NEW S, NEW n \in NotifyType(S), Distinct(n), NEW t \in S, NEW woken,
           \A i \in 1..Len(n.waiters) : n.waiters[i] # t,
           woken \cap S = {}
    PROVE  Carries(n, ParkOn(n, t), t, "parked", woken)
<1>1. ParkOn(n, t) \in NotifyType(S)  BY ParkOnFacts
<1>2. \A i \in 1..Len(ParkOn(n, t).waiters) : ParkOn(n, t).waiters[i] \in S
  BY <1>1, EmptyFacts DEF NotifyType
<1> QED BY <1>2, ParkOnFacts DEF Carries
-----------------------------------------------------------------------------
(* The books: where every value is and what every call answered *)

BooksType ==
    /\ QueueType /\ PcType
    /\ token \in [Putters -> Nat \cup {NoToken}]
    /\ got \in [Consumers -> Producers \cup {Nil, None}]
    /\ accepted \in [Producers -> {"pending", "true", "false"}]

Books ==
    /\ BooksType
    /\ Ledger /\ SentOnce /\ TokenMarksOffer /\ Answers
    /\ WithinCapacity /\ NilMeansDrained

USE DEF NoToken

\* A step that only moves t and leaves every record alone.
LEMMA BooksIdle ==
    ASSUME Books, NEW t \in Tasks, NEW label, PcType',
           pc[t] \in {"new", "ready"}, label \in {"ready", "parked"},
           PcStep(t, label), UNCHANGED <<chanVars, token, got, accepted>>
    PROVE  Books'
<1> USE TasksDisjoint DEF Books, chanVars
<1>1. BooksType'  BY DEF BooksType, QueueType
<1>2. Ledger' /\ WithinCapacity' /\ NilMeansDrained'
  BY DEF Ledger, WithinCapacity, NilMeansDrained
<1>3. \A u \in Tasks : /\ pc'[u] = "new" => pc[u] = "new"
                       /\ pc'[u] = "done" <=> pc[u] = "done"
  BY DEF PcStep
<1>4. SentOnce'  BY <1>3 DEF SentOnce, NotSentYet, BooksType
<1>5. TokenMarksOffer'  BY <1>3 DEF TokenMarksOffer
<1>6. Answers'  BY <1>3 DEF Answers
<1> QED BY <1>1, <1>2, <1>4, <1>5, <1>6

\* A consumer answers nil.
LEMMA BooksNil ==
    ASSUME Books, NEW t \in Consumers, PcType', pc[t] # "done",
           t \notin Pollers => (closed /\ queue = <<>>),
           PcStep(t, "done"), UNCHANGED <<chanVars, token, accepted>>,
           got' = [got EXCEPT ![t] = Nil]
    PROVE  Books'
<1> USE TasksDisjoint DEF Books, chanVars
<1>1. BooksType'  BY DEF BooksType, QueueType
<1>2. Ledger' /\ WithinCapacity'  BY DEF Ledger, WithinCapacity
<1>3. NilMeansDrained'
  BY TasksAssumption DEF NilMeansDrained, BooksType, Consumers
<1>4. \A u \in Producers : /\ pc'[u] = "new" <=> pc[u] = "new"
                           /\ pc'[u] = "done" <=> pc[u] = "done"
  BY DEF PcStep
<1>5. SentOnce'  BY <1>4 DEF SentOnce, NotSentYet
<1>6. TokenMarksOffer'  BY <1>4 DEF TokenMarksOffer
<1>7. \A u \in Consumers : pc'[u] = "done" <=> got'[u] # None
  BY TasksAssumption DEF PcStep, Answers, BooksType
<1>8. Answers'  BY <1>4, <1>7 DEF Answers
<1> QED BY <1>1, <1>2, <1>3, <1>5, <1>6, <1>8

\* A consumer receives the front of the queue.
LEMMA BooksPop ==
    ASSUME Books, NEW t \in Consumers, PcType', pc[t] # "done",
           queue # <<>>, PopFront,
           PcStep(t, "done"), UNCHANGED <<token, accepted>>,
           got' = [got EXCEPT ![t] = Head(queue)]
    PROVE  Books'
<1> USE TasksDisjoint DEF Books
<1>1. /\ QueueType' /\ Ledger' /\ WithinCapacity'
      /\ withdrawn = <<>> /\ sent[taken + 1] = Head(queue)
      /\ Len(queue') = Len(queue) - 1 /\ Len(queue) >= 1
      /\ sent' = sent /\ taken' = taken + 1 /\ closed' = closed
      /\ withdrawn' = withdrawn
  BY PopKeepsLedger DEF BooksType
<1>2. /\ Head(queue) \in Producers /\ Len(queue) \in Nat /\ taken \in Nat
      /\ Len(sent) \in Nat
  BY TailFacts, EmptyFacts DEF BooksType, QueueType
<1>3. BooksType'  BY <1>1, <1>2 DEF BooksType
<1>4. \A u \in Producers : /\ pc'[u] = "new" <=> pc[u] = "new"
                           /\ pc'[u] = "done" <=> pc[u] = "done"
  BY DEF PcStep
<1>5. NilMeansDrained'
  <2>1. \A u \in Takers \cup SyncTakers : got'[u] # Nil
    BY <1>2, TasksAssumption DEF NilMeansDrained, BooksType, Consumers, Tasks
  <2> QED BY <2>1 DEF NilMeansDrained
<1>6. SentOnce'  BY <1>1, <1>4 DEF SentOnce, NotSentYet
<1>7. TokenMarksOffer'
  BY <1>1, <1>2, <1>4 DEF TokenMarksOffer, BooksType
<1>8. \A u \in Consumers : pc'[u] = "done" <=> got'[u] # None
  BY <1>2, TasksAssumption DEF PcStep, Answers, BooksType
<1>9. ASSUME NEW p \in Producers, accepted[p] = "true"
      PROVE  \E i \in 1..Len(sent) :
                sent[i] = p /\ i <= IF Rendezvous THEN taken'
                                     ELSE taken' + Len(queue')
  <2>1. PICK i \in 1..Len(sent) :
            sent[i] = p /\ i <= IF Rendezvous THEN taken ELSE taken + Len(queue)
    BY <1>9 DEF Answers
  <2> QED BY <2>1, <1>1, <1>2
<1>10. Answers'  BY <1>1, <1>4, <1>8, <1>9 DEF Answers
<1> QED BY <1>1, <1>3, <1>5, <1>6, <1>7, <1>10

\* A producer that has sent nothing answers false.
LEMMA BooksRefuse ==
    ASSUME Books, NEW p \in Producers, PcType', NotSentYet(p), pc[p] # "done",
           PcStep(p, "done"), UNCHANGED <<chanVars, token, got>>,
           accepted' = [accepted EXCEPT ![p] = "false"]
    PROVE  Books'
<1> USE TasksDisjoint DEF Books, chanVars
<1>1. BooksType'  BY DEF BooksType, QueueType
<1>2. Ledger' /\ WithinCapacity' /\ NilMeansDrained'
  BY DEF Ledger, WithinCapacity, NilMeansDrained
<1>3. \A u \in Tasks : /\ pc'[u] = "new" => pc[u] = "new"
                       /\ pc[u] = "done" => pc'[u] = "done"
                       /\ u # p => (pc'[u] = "done" => pc[u] = "done")
                       /\ u = p => pc'[u] = "done"
  BY DEF PcStep
<1>4. SentOnce'  BY <1>3 DEF SentOnce, NotSentYet
<1>5. TokenMarksOffer'  BY <1>3 DEF TokenMarksOffer
<1>6. \A i \in 1..Len(sent) : sent[i] # p  BY DEF SentOnce
<1>7. Answers'  BY <1>3, <1>6 DEF Answers, BooksType
<1> QED BY <1>1, <1>2, <1>4, <1>5, <1>7

\* A producer's value enters the queue; p answers true (buffered), or keeps
\* waiting with a token or with the executor thread (rendezvous).
LEMMA BooksPush ==
    ASSUME Books, NEW p \in Producers, PcType', NotSentYet(p), pc[p] # "done",
           ~closed, HasRoom, PushBack(p), UNCHANGED got,
           \/ /\ ~Rendezvous /\ PcStep(p, "done") /\ UNCHANGED token
              /\ accepted' = [accepted EXCEPT ![p] = "true"]
           \/ /\ Rendezvous /\ PcStep(p, "parked") /\ UNCHANGED accepted
              /\ p \in Putters
              /\ token' = [token EXCEPT ![p] = taken]
           \/ /\ Rendezvous /\ PcStep(p, "parked") /\ UNCHANGED accepted
              /\ p \notin Putters
              /\ UNCHANGED token
    PROVE  Books'
<1> USE TasksDisjoint DEF Books
<1>1. /\ QueueType' /\ Ledger' /\ WithinCapacity'
      /\ withdrawn = <<>> /\ Len(queue') = Len(queue) + 1
      /\ Len(sent) = taken + Len(queue) /\ Len(sent') = Len(sent) + 1
      /\ \A i \in 1..Len(sent) : sent'[i] = sent[i]
      /\ sent'[Len(sent) + 1] = p
      /\ Rendezvous => queue = <<>>
      /\ taken' = taken /\ closed' = closed /\ withdrawn' = withdrawn
  BY PushKeepsLedger DEF BooksType
<1>2. /\ Len(queue) \in Nat /\ taken \in Nat /\ Len(sent) \in Nat
      /\ queue = <<>> => Len(queue) = 0
  BY EmptyFacts DEF BooksType, QueueType
<1>3. BooksType'
  <2>1. token' \in [Putters -> Nat \cup {NoToken}]  BY <1>2 DEF BooksType
  <2>2. accepted' \in [Producers -> {"pending", "true", "false"}]
    BY DEF BooksType
  <2> QED BY <2>1, <2>2, <1>1 DEF BooksType
<1>4. /\ pc'[p] # "new"
      /\ \A u \in Tasks : u # p =>
           /\ pc'[u] = "new" <=> pc[u] = "new"
           /\ pc'[u] = "done" <=> pc[u] = "done"
  BY DEF PcStep
<1>5. NilMeansDrained'
  <2>1. \A u \in Takers \cup SyncTakers : got[u] # Nil
    BY DEF NilMeansDrained
  <2> QED BY <2>1 DEF NilMeansDrained
<1>6. \A i \in 1..Len(sent) : sent[i] # p  BY DEF SentOnce
<1>7. SentOnce'
  <2>1. \A i, j \in 1..Len(sent') : sent'[i] = sent'[j] => i = j
    <3> SUFFICES ASSUME NEW i \in 1..Len(sent'), NEW j \in 1..Len(sent'),
                        sent'[i] = sent'[j]
                 PROVE  i = j
      OBVIOUS
    <3>1. \A k \in 1..Len(sent') : k \in 1..Len(sent) \/ k = Len(sent) + 1
      BY <1>1, <1>2
    <3> QED BY <3>1, <1>1, <1>2, <1>6 DEF SentOnce
  <2>2. ASSUME NEW u \in Producers, NotSentYet(u)',
               NEW i \in 1..Len(sent'), sent'[i] = u
        PROVE  FALSE
    <3>1. u # p
      BY <2>2, <1>4, <1>2 DEF NotSentYet, BooksType, PcStep
    <3>2. NotSentYet(u)
      BY <2>2, <3>1, <1>4 DEF NotSentYet, BooksType
    <3>3. i \in 1..Len(sent)  BY <2>2, <3>1, <1>1, <1>2
    <3> QED BY <3>2, <3>3, <2>2, <1>1 DEF SentOnce
  <2> QED BY <2>1, <2>2 DEF SentOnce
<1>8. TokenMarksOffer'
  <2> SUFFICES ASSUME NEW u \in Putters, token'[u] # NoToken
               PROVE  /\ Rendezvous /\ pc'[u] # "new"
                      /\ token'[u] <= taken' /\ token'[u] < Len(sent')
                      /\ sent'[token'[u] + 1] = u
                      /\ (pc'[u] # "done" /\ token'[u] = taken')
                            => withdrawn' = <<>>
    BY DEF TokenMarksOffer
  <2>1. CASE u = p
    <3>1. token'[p] = taken /\ Rendezvous
      BY <2>1 DEF TokenMarksOffer, NotSentYet, BooksType
    <3> QED BY <2>1, <3>1, <1>1, <1>2, <1>4
  <2>2. CASE u # p
    <3>1. token[u] = token'[u] /\ token[u] \in Nat
      BY <2>2 DEF BooksType
    <3>2. /\ Rendezvous /\ pc[u] # "new"
          /\ token[u] <= taken /\ token[u] < Len(sent)
          /\ sent[token[u] + 1] = u
      BY <3>1 DEF TokenMarksOffer
    <3>3. token[u] + 1 \in 1..Len(sent)  BY <3>1, <3>2, <1>2
    <3> QED BY <2>2, <3>1, <3>2, <3>3, <1>1, <1>2, <1>4
  <2> QED BY <2>1, <2>2
<1>9. Answers'
  <2>1. \A t \in Consumers : pc'[t] = "done" <=> got'[t] # None
    BY <1>4 DEF Answers
  <2>2. ASSUME NEW u \in Producers
        PROVE  /\ pc'[u] = "done" <=> accepted'[u] # "pending"
               /\ accepted'[u] = "true" =>
                    \E i \in 1..Len(sent') :
                        sent'[i] = u /\ i <= IF Rendezvous THEN taken'
                                             ELSE taken' + Len(queue')
               /\ accepted'[u] = "false" =>
                    \A i \in 1..Len(sent') : sent'[i] = u => withdrawn' = <<u>>
    <3>1. CASE u = p
      <4>1. pc'[p] = "done" <=> accepted'[p] # "pending"
        BY DEF Answers, BooksType, PcStep
      <4>2. accepted'[p] # "false"  BY DEF Answers, BooksType
      <4>3. accepted'[p] = "true" => ~Rendezvous
        BY DEF Answers, BooksType
      <4>4. Len(sent) + 1 \in 1..Len(sent')  BY <1>1, <1>2
      <4> QED BY <3>1, <4>1, <4>2, <4>3, <4>4, <1>1, <1>2
    <3>2. CASE u # p
      <4>1. accepted'[u] = accepted[u]  BY <3>2 DEF BooksType
      <4>2. pc'[u] = "done" <=> pc[u] = "done"  BY <3>2, <1>4
      <4>3. ASSUME accepted[u] = "true"
            PROVE  \E i \in 1..Len(sent') :
                        sent'[i] = u /\ i <= IF Rendezvous THEN taken'
                                             ELSE taken' + Len(queue')
        <5>1. PICK i \in 1..Len(sent) :
                sent[i] = u /\ i <= IF Rendezvous THEN taken
                                    ELSE taken + Len(queue)
          BY <4>3 DEF Answers
        <5> QED BY <5>1, <1>1, <1>2
      <4>4. \A i \in 1..Len(sent') : sent'[i] = u => i \in 1..Len(sent)
        BY <3>2, <1>1, <1>2
      <4>5. ASSUME accepted[u] = "false", NEW i \in 1..Len(sent'), sent'[i] = u
            PROVE  withdrawn' = <<u>>
        BY <4>4, <4>5, <1>1 DEF Answers
      <4> QED BY <4>1, <4>2, <4>3, <4>5 DEF Answers
    <3> QED BY <3>1, <3>2
  <2> QED BY <2>1, <2>2 DEF Answers
<1> QED BY <1>1, <1>3, <1>5, <1>7, <1>8, <1>9

\* A rendezvous put! finds the take count past its token.
LEMMA BooksTaken ==
    ASSUME Books, NEW p \in Putters, PcType', pc[p] # "done",
           token[p] # NoToken, taken # token[p],
           PcStep(p, "done"), UNCHANGED <<chanVars, token, got>>,
           accepted' = [accepted EXCEPT ![p] = "true"]
    PROVE  Books'
<1> USE TasksDisjoint DEF Books, chanVars
<1>1. BooksType'  BY DEF BooksType, QueueType
<1>2. Ledger' /\ WithinCapacity' /\ NilMeansDrained'
  BY DEF Ledger, WithinCapacity, NilMeansDrained
<1>3. /\ pc'[p] = "done"
      /\ \A u \in Tasks : /\ pc'[u] = "new" => pc[u] = "new"
                          /\ pc[u] = "done" => pc'[u] = "done"
                          /\ u # p => (pc'[u] = "done" => pc[u] = "done")
  BY DEF PcStep
<1>4. SentOnce'  BY <1>3 DEF SentOnce, NotSentYet
<1>5. TokenMarksOffer'  BY <1>3 DEF TokenMarksOffer
<1>6. /\ token[p] + 1 \in 1..Len(sent) /\ sent[token[p] + 1] = p
      /\ token[p] + 1 <= taken /\ Rendezvous
  BY EmptyFacts DEF TokenMarksOffer, BooksType, QueueType
<1>7. \A u \in Consumers : pc'[u] = "done" <=> got[u] # None
  BY <1>3 DEF Answers
<1>8. \A u \in Producers : pc'[u] = "done" <=> accepted'[u] # "pending"
  BY <1>3 DEF Answers, BooksType
<1>9. Answers'  BY <1>6, <1>7, <1>8 DEF Answers, BooksType
<1> QED BY <1>1, <1>2, <1>4, <1>5, <1>9

\* A current token means the slot holds the putter's own value.
LEMMA CurrentTokenOwnsSlot ==
    ASSUME Books, NEW p \in Putters, pc[p] # "done",
           token[p] # NoToken, token[p] = taken
    PROVE  queue = <<p>> /\ withdrawn = <<>> /\ Rendezvous
<1>1. /\ Rendezvous /\ withdrawn = <<>> /\ taken < Len(sent)
      /\ sent[taken + 1] = p
  BY DEF Books, TokenMarksOffer
<1>2. /\ Len(queue) \in Nat /\ Len(withdrawn) = 0 /\ taken \in Nat
      /\ queue \in Seq(Producers)
  BY <1>1, EmptyFacts DEF Books, BooksType, QueueType
<1>3. Len(queue) = 1
  <2>1. Len(queue) <= 1  BY <1>1 DEF Books, WithinCapacity
  <2>2. Len(sent) = taken + Len(queue)  BY <1>2 DEF Books, Ledger
  <2>3. taken < taken + Len(queue)  BY <1>1, <2>2
  <2>4. \A a, b \in Nat : a < a + b /\ b <= 1 => b = 1  OBVIOUS
  <2> QED BY <2>1, <2>3, <2>4, <1>2
<1>4. queue[1] = p  BY <1>1, <1>2, <1>3 DEF Books, Ledger
<1> QED BY <1>1, <1>2, <1>3, <1>4

\* A rendezvous put! on a closed channel cancels its own offer.
LEMMA BooksWithdraw ==
    ASSUME Books, NEW p \in Putters, PcType', pc[p] # "done",
           token[p] # NoToken, taken = token[p], closed,
           queue' = IF queue = <<>> THEN <<>> ELSE Tail(queue),
           withdrawn' = IF queue = <<>> THEN withdrawn
                        ELSE Append(withdrawn, Head(queue)),
           UNCHANGED <<closed, taken, sent, received, token, got>>,
           PcStep(p, "done"),
           accepted' = [accepted EXCEPT ![p] = "false"]
    PROVE  Books'
<1> USE TasksDisjoint DEF Books
<1>1. queue = <<p>> /\ withdrawn = <<>> /\ Rendezvous
  BY CurrentTokenOwnsSlot
<1>2. queue' = <<>> /\ withdrawn' = <<p>>  BY <1>1
<1>3. BooksType'  BY <1>2 DEF BooksType, QueueType
<1>4. /\ taken \in Nat /\ Len(queue) = 1 /\ Len(sent) = taken + 1
      /\ sent[taken + 1] = p
  BY <1>1 DEF Ledger, BooksType, QueueType, TokenMarksOffer
<1>5. Ledger'
  <2>1. Len(queue') = 0 /\ Len(withdrawn') = 1 /\ withdrawn'[1] = p
    <3>1. Len(<<>>) = 0 /\ Len(<<p>>) = 1 /\ <<p>>[1] = p  OBVIOUS
    <3> QED BY <3>1, <1>2
  <2> QED BY <2>1, <1>1, <1>2, <1>4 DEF Ledger
<1>6. WithinCapacity' /\ NilMeansDrained'
  BY <1>2, CapacityAssumption DEF WithinCapacity, NilMeansDrained
<1>7. /\ pc'[p] = "done"
      /\ \A u \in Tasks : /\ pc'[u] = "new" => pc[u] = "new"
                          /\ pc[u] = "done" => pc'[u] = "done"
                          /\ u # p => (pc'[u] = "done" => pc[u] = "done")
  BY DEF PcStep
<1>8. SentOnce'  BY <1>7 DEF SentOnce, NotSentYet
<1>9. TokenMarksOffer'
  <2> SUFFICES ASSUME NEW u \in Putters, token[u] # NoToken,
                      pc'[u] # "done", token[u] = taken
               PROVE  FALSE
    BY <1>7 DEF TokenMarksOffer
  <2>1. pc[u] # "done" /\ u # p  BY <1>7
  <2>2. queue = <<u>>  BY <2>1, CurrentTokenOwnsSlot
  <2> QED BY <1>1, <2>1, <2>2
<1>10. Answers'
  <2>1. \A u \in Consumers : pc'[u] = "done" <=> got'[u] # None
    BY <1>7 DEF Answers
  <2>2. ASSUME NEW u \in Producers
        PROVE  /\ pc'[u] = "done" <=> accepted'[u] # "pending"
               /\ accepted'[u] = "true" =>
                    \E i \in 1..Len(sent') :
                        sent'[i] = u /\ i <= IF Rendezvous THEN taken'
                                             ELSE taken' + Len(queue')
               /\ accepted'[u] = "false" =>
                    \A i \in 1..Len(sent') : sent'[i] = u => withdrawn' = <<u>>
    <3>1. CASE u = p
      BY <3>1, <1>2, <1>7 DEF BooksType
    <3>2. CASE u # p
      <4>1. /\ accepted'[u] = accepted[u]
            /\ pc'[u] = "done" <=> pc[u] = "done"
        BY <3>2, <1>7 DEF BooksType
      <4>2. accepted[u] = "false" => \A i \in 1..Len(sent) : sent[i] # u
        BY <1>1 DEF Answers
      <4> QED BY <4>1, <4>2, <1>1 DEF Answers
    <3> QED BY <3>1, <3>2
  <2> QED BY <2>1, <2>2 DEF Answers
<1> QED BY <1>3, <1>5, <1>6, <1>8, <1>9, <1>10

-----------------------------------------------------------------------------
(* The wake-ups of a step *)

Parked ==
    /\ notEmpty \in NotifyType(Takers)
    /\ notFull \in NotifyType(Putters)
    /\ WaitersParked

LEMMA ParkedFacts ==
    ASSUME Parked
    PROVE  /\ Distinct(notEmpty) /\ Distinct(notFull)
           /\ \A u \in WokenBy(notEmpty) : u \in Takers /\ pc[u] = "parked"
           /\ \A u \in WokenBy(notFull) : u \in Putters /\ pc[u] = "parked"
           /\ \A t : pc[t] # "parked" =>
                /\ \A i \in 1..Len(notEmpty.waiters) : notEmpty.waiters[i] # t
                /\ \A i \in 1..Len(notFull.waiters) : notFull.waiters[i] # t
<1>1. Distinct(notEmpty) /\ Distinct(notFull)
  BY DEF Parked, WaitersParked, Distinct
<1>2. /\ \A i \in 1..Len(notEmpty.waiters) : pc[notEmpty.waiters[i]] = "parked"
      /\ \A i \in 1..Len(notFull.waiters) : pc[notFull.waiters[i]] = "parked"
  BY DEF Parked, WaitersParked
<1>3. /\ WokenBy(notEmpty) \subseteq Takers /\ WokenBy(notFull) \subseteq Putters
      /\ \A u \in WokenBy(notEmpty) :
            \E j \in 1..Len(notEmpty.waiters) : u = notEmpty.waiters[j]
      /\ \A u \in WokenBy(notFull) :
            \E j \in 1..Len(notFull.waiters) : u = notFull.waiters[j]
  BY <1>1, NotifyOneFacts DEF Parked
<1> QED BY <1>1, <1>2, <1>3

LEMMA QuietStep ==
    ASSUME Parked, PcType, NEW t \in Tasks, NEW label, pc[t] # "parked",
           label \in {"ready", "parked", "done"},
           Moves(t, label, {}), UNCHANGED <<notEmpty, notFull>>
    PROVE  PcType' /\ PcStep(t, label) /\ Parked'
<1>1. /\ Carries(notEmpty, notEmpty', t, label, {})
      /\ Carries(notFull, notFull', t, label, {})
  BY ParkedFacts, CarriesSame DEF Parked
<1> QED BY <1>1, MovesFacts DEF Parked

LEMMA NotFullFired ==
    ASSUME Parked, PcType, NEW t \in Tasks, pc[t] # "parked",
           Moves(t, "done", WokenBy(notFull)),
           notFull' = NotifyOne(notFull), UNCHANGED notEmpty
    PROVE  PcType' /\ PcStep(t, "done") /\ Parked'
<1>1. WokenBy(notFull) \cap Takers = {}  BY ParkedFacts, TasksDisjoint
<1>2. /\ Carries(notEmpty, notEmpty', t, "done", WokenBy(notFull))
      /\ Carries(notFull, notFull', t, "done", WokenBy(notFull))
      /\ notFull' \in NotifyType(Putters)
  BY <1>1, ParkedFacts, CarriesSame, CarriesNotified, NotifyOneFacts DEF Parked
<1>3. \A u \in WokenBy(notFull) : u \in Tasks /\ pc[u] = "parked"
  BY ParkedFacts, TasksDisjoint
<1> QED BY <1>2, <1>3, MovesFacts DEF Parked

LEMMA NotEmptyFired ==
    ASSUME Parked, PcType, NEW t \in Tasks, pc[t] # "parked",
           Moves(t, "done", WokenBy(notEmpty)),
           notEmpty' = NotifyOne(notEmpty), UNCHANGED notFull
    PROVE  PcType' /\ PcStep(t, "done") /\ Parked'
<1>1. WokenBy(notEmpty) \cap Putters = {}  BY ParkedFacts, TasksDisjoint
<1>2. /\ Carries(notEmpty, notEmpty', t, "done", WokenBy(notEmpty))
      /\ Carries(notFull, notFull', t, "done", WokenBy(notEmpty))
      /\ notEmpty' \in NotifyType(Takers)
  BY <1>1, ParkedFacts, CarriesSame, CarriesNotified, NotifyOneFacts DEF Parked
<1>3. \A u \in WokenBy(notEmpty) : u \in Tasks /\ pc[u] = "parked"
  BY ParkedFacts, TasksDisjoint
<1> QED BY <1>2, <1>3, MovesFacts DEF Parked

LEMMA ParksOnNotEmpty ==
    ASSUME Parked, PcType, NEW t \in Takers, pc[t] # "parked",
           Moves(t, "parked", {}),
           notEmpty' = ParkOn(notEmpty, t), UNCHANGED notFull
    PROVE  PcType' /\ PcStep(t, "parked") /\ Parked'
<1>1. /\ Carries(notEmpty, notEmpty', t, "parked", {})
      /\ Carries(notFull, notFull', t, "parked", {})
      /\ notEmpty' \in NotifyType(Takers)
  BY ParkedFacts, CarriesSame, CarriesParked, ParkOnFacts DEF Parked
<1> QED BY <1>1, MovesFacts, TasksDisjoint DEF Parked

LEMMA ParksOnNotFull ==
    ASSUME Parked, PcType, NEW p \in Putters, pc[p] # "parked",
           Moves(p, "parked", {}),
           notFull' = ParkOn(notFull, p), UNCHANGED notEmpty
    PROVE  PcType' /\ PcStep(p, "parked") /\ Parked'
<1>1. /\ Carries(notEmpty, notEmpty', p, "parked", {})
      /\ Carries(notFull, notFull', p, "parked", {})
      /\ notFull' \in NotifyType(Putters)
  BY ParkedFacts, CarriesSame, CarriesParked, ParkOnFacts DEF Parked
<1> QED BY <1>1, MovesFacts, TasksDisjoint DEF Parked

LEMMA OffersAndParks ==
    ASSUME Parked, PcType, NEW p \in Putters, pc[p] # "parked",
           Moves(p, "parked", WokenBy(notEmpty)),
           notEmpty' = NotifyOne(notEmpty), notFull' = ParkOn(notFull, p)
    PROVE  PcType' /\ PcStep(p, "parked") /\ Parked'
<1>1. WokenBy(notEmpty) \cap Putters = {}  BY ParkedFacts, TasksDisjoint
<1>2. /\ Carries(notEmpty, notEmpty', p, "parked", WokenBy(notEmpty))
      /\ notEmpty' \in NotifyType(Takers)
  BY ParkedFacts, CarriesNotified, NotifyOneFacts DEF Parked
<1>3. /\ Carries(notFull, notFull', p, "parked", WokenBy(notEmpty))
      /\ notFull' \in NotifyType(Putters)
  BY <1>1, ParkedFacts, CarriesParked, ParkOnFacts DEF Parked
<1>4. \A u \in WokenBy(notEmpty) : u \in Tasks /\ pc[u] = "parked"
  BY ParkedFacts, TasksDisjoint
<1> QED BY <1>2, <1>3, <1>4, MovesFacts, TasksDisjoint DEF Parked

-----------------------------------------------------------------------------
(* The inductive step, one case per action *)

LEMMA IndInvParts ==
    IndInv <=> /\ Books /\ Parked
               /\ holder \in SyncTakers \cup SyncPutters \cup {None}
  BY DEF IndInv, TypeOK, Books, BooksType, QueueType, PcType, Parked, NotifyType

LEMMA IndInvNext ==
    ASSUME Books', Parked', holder' \in SyncTakers \cup SyncPutters \cup {None}
    PROVE  IndInv'
  BY DEF IndInv, TypeOK, Books, BooksType, QueueType, PcType, Parked, NotifyType

\* close! keeps the invariant.
LEMMA CloseKeepsIndInv == IndInv /\ Close => IndInv'
<1> SUFFICES ASSUME IndInv, Close PROVE IndInv'
  OBVIOUS
<1>1. /\ Books /\ Parked /\ holder \in SyncTakers \cup SyncPutters \cup {None}
  BY IndInvParts
<1> DEFINE woken == WokenBy(notEmpty) \cup WokenBy(notFull)
<1>2. \A u \in woken : u \in Tasks /\ pc[u] = "parked"
  BY <1>1, ParkedFacts, TasksDisjoint
<1>3. PcType' /\ \A u \in Tasks : /\ pc'[u] = "new" <=> pc[u] = "new"
                                  /\ pc'[u] = "done" <=> pc[u] = "done"
  BY <1>1, <1>2 DEF Close, Books, BooksType, PcType
<1>4. /\ notEmpty' \in NotifyType(Takers) /\ Distinct(notEmpty')
      /\ notFull' \in NotifyType(Putters) /\ Distinct(notFull')
  BY <1>1, ParkedFacts, NotifyOneFacts DEF Close, Parked
<1>5. \A i \in 1..Len(notEmpty'.waiters) : pc'[notEmpty'.waiters[i]] = "parked"
  <2> SUFFICES ASSUME NEW i \in 1..Len(notEmpty'.waiters)
               PROVE  pc'[notEmpty'.waiters[i]] = "parked"
    OBVIOUS
  <2>1. notEmpty'.waiters[i] \in Takers  BY <1>4, EmptyFacts DEF NotifyType
  <2>2. /\ notEmpty'.waiters[i] \notin WokenBy(notEmpty)
        /\ \E j \in 1..Len(notEmpty.waiters) :
               notEmpty'.waiters[i] = notEmpty.waiters[j]
    BY <1>1, ParkedFacts, NotifyOneFacts DEF Close, Parked
  <2>3. notEmpty'.waiters[i] \notin WokenBy(notFull)
    BY <2>1, <1>1, ParkedFacts, TasksDisjoint
  <2>4. pc[notEmpty'.waiters[i]] = "parked"
    BY <2>2, <1>1 DEF Parked, WaitersParked
  <2> QED BY <2>1, <2>2, <2>3, <2>4, TasksDisjoint DEF Close
<1>6. \A i \in 1..Len(notFull'.waiters) : pc'[notFull'.waiters[i]] = "parked"
  <2> SUFFICES ASSUME NEW i \in 1..Len(notFull'.waiters)
               PROVE  pc'[notFull'.waiters[i]] = "parked"
    OBVIOUS
  <2>1. notFull'.waiters[i] \in Putters  BY <1>4, EmptyFacts DEF NotifyType
  <2>2. /\ notFull'.waiters[i] \notin WokenBy(notFull)
        /\ \E j \in 1..Len(notFull.waiters) :
               notFull'.waiters[i] = notFull.waiters[j]
    BY <1>1, ParkedFacts, NotifyOneFacts DEF Close, Parked
  <2>3. notFull'.waiters[i] \notin WokenBy(notEmpty)
    BY <2>1, <1>1, ParkedFacts, TasksDisjoint
  <2>4. pc[notFull'.waiters[i]] = "parked"
    BY <2>2, <1>1 DEF Parked, WaitersParked
  <2> QED BY <2>1, <2>2, <2>3, <2>4, TasksDisjoint DEF Close
<1>7. Parked'  BY <1>4, <1>5, <1>6 DEF Parked, WaitersParked, Distinct
<1>8. /\ UNCHANGED <<queue, taken, sent, received, withdrawn>>
      /\ UNCHANGED <<token, got, accepted, holder>> /\ closed'
  BY DEF Close
<1>9. BooksType'  BY <1>1, <1>3, <1>8 DEF Books, BooksType, QueueType, Close
<1>10. Ledger' /\ WithinCapacity' /\ NilMeansDrained'
  BY <1>1, <1>8 DEF Books, Ledger, WithinCapacity, NilMeansDrained
<1>11. SentOnce' /\ TokenMarksOffer' /\ Answers'
  BY <1>1, <1>3, <1>8, TasksDisjoint
     DEF Books, SentOnce, NotSentYet, TokenMarksOffer, Answers
<1>12. Books'  BY <1>9, <1>10, <1>11 DEF Books
<1> QED BY <1>1, <1>7, <1>8, <1>12, IndInvNext

LEMMA ConsumerKeepsIndInv ==
    ASSUME IndInv, NEW t \in Consumers, t \in Takers \/ t \in Pollers \/ t \in SyncTakers
    PROVE  /\ t \in Takers /\ Take(t) => IndInv'
           /\ t \in Pollers /\ (PollValue(t) \/ PollNil(t)) => IndInv'
           /\ t \in SyncTakers /\ (\/ TakeBlockingValue(t) \/ TakeBlockingNil(t)
                                   \/ TakeBlockingWait(t)) => IndInv'
<1>1. /\ Books /\ Parked /\ holder \in SyncTakers \cup SyncPutters \cup {None}
      /\ PcType /\ t \in Tasks
  BY IndInvParts, TasksDisjoint DEF Books, BooksType
<1>2. ASSUME pc[t] \in {"new", "ready"}, TryTakeValue(t) PROVE IndInv'
  <2>1. PcType' /\ PcStep(t, "done") /\ Parked'
    BY <1>1, <1>2, NotFullFired DEF TryTakeValue
  <2>2. Books'  BY <1>1, <1>2, <2>1, BooksPop DEF TryTakeValue, Returns
  <2> QED BY <1>1, <1>2, <2>1, <2>2, IndInvNext DEF TryTakeValue
<1>3. ASSUME t \in Takers, TakeNil(t) PROVE IndInv'
  <2>1. PcType' /\ PcStep(t, "done") /\ Parked'
    BY <1>1, <1>3, NotEmptyFired DEF TakeNil, Runs
  <2>2. Books'  BY <1>1, <1>3, <2>1, BooksNil DEF TakeNil, Runs, Returns
  <2> QED BY <1>1, <1>3, <2>1, <2>2, IndInvNext DEF TakeNil
<1>4. ASSUME t \in Takers, TakePark(t) PROVE IndInv'
  <2>1. PcType' /\ PcStep(t, "parked") /\ Parked'
    BY <1>1, <1>4, ParksOnNotEmpty DEF TakePark, Runs
  <2>2. Books'  BY <1>1, <1>4, <2>1, BooksIdle DEF TakePark, Runs
  <2> QED BY <1>1, <1>4, <2>1, <2>2, IndInvNext DEF TakePark
<1>5. ASSUME t \in Pollers, PollNil(t) PROVE IndInv'
  <2>1. PcType' /\ PcStep(t, "done") /\ Parked'
    BY <1>1, <1>5, QuietStep DEF PollNil, Runs
  <2>2. Books'  BY <1>1, <1>5, <2>1, BooksNil DEF PollNil, Runs, Returns
  <2> QED BY <1>1, <1>5, <2>1, <2>2, IndInvNext DEF PollNil
<1>6. ASSUME t \in SyncTakers, TakeBlockingValue(t) PROVE IndInv'
  <2>1. PcType' /\ PcStep(t, "done") /\ Parked'
    BY <1>1, <1>6, QuietStep DEF TakeBlockingValue, Runs
  <2>2. Books'  BY <1>1, <1>6, <2>1, BooksPop DEF TakeBlockingValue, Runs, Returns
  <2> QED BY <1>1, <1>6, <2>1, <2>2, IndInvNext DEF TakeBlockingValue
<1>7. ASSUME t \in SyncTakers, TakeBlockingNil(t) PROVE IndInv'
  <2>1. PcType' /\ PcStep(t, "done") /\ Parked'
    BY <1>1, <1>7, QuietStep DEF TakeBlockingNil, Runs
  <2>2. Books'  BY <1>1, <1>7, <2>1, BooksNil DEF TakeBlockingNil, Runs, Returns
  <2> QED BY <1>1, <1>7, <2>1, <2>2, IndInvNext DEF TakeBlockingNil
<1>8. ASSUME t \in SyncTakers, TakeBlockingWait(t) PROVE IndInv'
  <2>1. PcType' /\ PcStep(t, "parked") /\ Parked'
    BY <1>1, <1>8, QuietStep DEF TakeBlockingWait, Runs
  <2>2. Books'  BY <1>1, <1>8, <2>1, BooksIdle DEF TakeBlockingWait, Runs
  <2> QED BY <1>8, <2>1, <2>2, IndInvNext DEF TakeBlockingWait
<1> QED BY <1>2, <1>3, <1>4, <1>5, <1>6, <1>7, <1>8
        DEF Take, TakeValue, PollValue, Runs

LEMMA ProducerKeepsIndInv ==
    ASSUME IndInv, NEW p \in Producers
    PROVE  /\ p \in Putters /\ Put(p) => IndInv'
           /\ p \in Offerers /\ (OfferAccepted(p) \/ OfferRefused(p)) => IndInv'
           /\ p \in SyncPutters /\ (\/ PutBlockingBuffered(p) \/ PutBlockingOffer(p)
                                    \/ PutBlockingClosed(p) \/ PutBlockingWait(p))
                => IndInv'
<1>1. /\ Books /\ Parked /\ holder \in SyncTakers \cup SyncPutters \cup {None}
      /\ PcType /\ p \in Tasks
  BY IndInvParts, TasksDisjoint DEF Books, BooksType
<1>2. p \in Putters /\ pc[p] = "ready" /\ ~Rendezvous => token[p] = NoToken
  BY <1>1 DEF Books, TokenMarksOffer
<1>3. ASSUME p \in Putters, PutBuffered(p) PROVE IndInv'
  <2>1. PcType' /\ PcStep(p, "done") /\ Parked'
    BY <1>1, <1>3, NotEmptyFired DEF PutBuffered, Enqueues, Runs
  <2>2. Books'
    BY <1>1, <1>2, <1>3, <2>1, BooksPush
       DEF PutBuffered, Enqueues, Runs, Resolves, NotSentYet
  <2> QED BY <1>1, <1>3, <2>1, <2>2, IndInvNext DEF PutBuffered
<1>4. ASSUME p \in Putters, PutClosed(p) PROVE IndInv'
  <2>1. PcType' /\ PcStep(p, "done") /\ Parked'
    BY <1>1, <1>4, QuietStep DEF PutClosed, Runs
  <2>2. Books'
    BY <1>1, <1>4, <2>1, BooksRefuse DEF PutClosed, Runs, Resolves, NotSentYet
  <2> QED BY <1>1, <1>4, <2>1, <2>2, IndInvNext DEF PutClosed
<1>5. ASSUME p \in Putters, PutPark(p) PROVE IndInv'
  <2>1. PcType' /\ PcStep(p, "parked") /\ Parked'
    BY <1>1, <1>5, ParksOnNotFull DEF PutPark, Runs
  <2>2. Books'  BY <1>1, <1>5, <2>1, BooksIdle DEF PutPark, Runs
  <2> QED BY <1>1, <1>5, <2>1, <2>2, IndInvNext DEF PutPark
<1>6. ASSUME p \in Putters, RvOffer(p) PROVE IndInv'
  <2>1. PcType' /\ PcStep(p, "parked") /\ Parked'
    BY <1>1, <1>6, OffersAndParks DEF RvOffer, Enqueues, Runs
  <2>2. Books'
    BY <1>1, <1>6, <2>1, BooksPush DEF RvOffer, Enqueues, Runs, NotSentYet
  <2> QED BY <1>1, <1>6, <2>1, <2>2, IndInvNext DEF RvOffer
<1>7. ASSUME p \in Putters, RvTaken(p) PROVE IndInv'
  <2>1. PcType' /\ PcStep(p, "done") /\ Parked'
    BY <1>1, <1>7, QuietStep DEF RvTaken, Runs
  <2>2. Books'  BY <1>1, <1>7, <2>1, BooksTaken DEF RvTaken, Runs, Resolves
  <2> QED BY <1>1, <1>7, <2>1, <2>2, IndInvNext DEF RvTaken
<1>8. ASSUME p \in Putters, RvClosedUntaken(p) PROVE IndInv'
  <2>1. PcType' /\ PcStep(p, "done") /\ Parked'
    BY <1>1, <1>8, QuietStep DEF RvClosedUntaken, Runs
  <2>2. Books'
    BY <1>1, <1>8, <2>1, BooksWithdraw DEF RvClosedUntaken, Runs, Resolves
  <2> QED BY <1>1, <1>8, <2>1, <2>2, IndInvNext DEF RvClosedUntaken
<1>10. ASSUME p \in Offerers, OfferAccepted(p) PROVE IndInv'
  <2>1. PcType' /\ PcStep(p, "done") /\ Parked'
    BY <1>1, <1>10, NotEmptyFired DEF OfferAccepted, Enqueues, Runs
  <2>2. Books'
    BY <1>1, <1>10, <2>1, BooksPush
       DEF OfferAccepted, Enqueues, Runs, Resolves, NotSentYet
  <2> QED BY <1>1, <1>10, <2>1, <2>2, IndInvNext DEF OfferAccepted
<1>11. ASSUME p \in Offerers, OfferRefused(p) PROVE IndInv'
  <2>1. PcType' /\ PcStep(p, "done") /\ Parked'
    BY <1>1, <1>11, QuietStep DEF OfferRefused, Runs
  <2>2. Books'
    BY <1>1, <1>11, <2>1, BooksRefuse DEF OfferRefused, Runs, Resolves, NotSentYet
  <2> QED BY <1>1, <1>11, <2>1, <2>2, IndInvNext DEF OfferRefused
<1>12. ASSUME p \in SyncPutters, PutBlockingBuffered(p) PROVE IndInv'
  <2>1. PcType' /\ PcStep(p, "done") /\ Parked'
    BY <1>1, <1>12, QuietStep DEF PutBlockingBuffered, Runs
  <2>2. Books'
    BY <1>1, <1>12, <2>1, BooksPush
       DEF PutBlockingBuffered, Runs, Resolves, NotSentYet
  <2> QED BY <1>1, <1>12, <2>1, <2>2, IndInvNext DEF PutBlockingBuffered
<1>13. ASSUME p \in SyncPutters, PutBlockingOffer(p) PROVE IndInv'
  <2>1. PcType' /\ PcStep(p, "parked") /\ Parked'
    BY <1>1, <1>13, QuietStep DEF PutBlockingOffer, Runs
  <2>2. p \notin Putters  BY <1>13, TasksAssumption
  <2>3. Books'
    BY <1>1, <1>13, <2>1, <2>2, BooksPush DEF PutBlockingOffer, Runs, NotSentYet
  <2> QED BY <1>13, <2>1, <2>3, IndInvNext DEF PutBlockingOffer
<1>14. ASSUME p \in SyncPutters, PutBlockingClosed(p) PROVE IndInv'
  <2>1. PcType' /\ PcStep(p, "done") /\ Parked'
    BY <1>1, <1>14, QuietStep DEF PutBlockingClosed, Runs
  <2>2. Books'
    BY <1>1, <1>14, <2>1, BooksRefuse
       DEF PutBlockingClosed, Runs, Resolves, NotSentYet
  <2> QED BY <1>1, <1>14, <2>1, <2>2, IndInvNext DEF PutBlockingClosed
<1>15. ASSUME p \in SyncPutters, PutBlockingWait(p) PROVE IndInv'
  <2>1. PcType' /\ PcStep(p, "parked") /\ Parked'
    BY <1>1, <1>15, QuietStep DEF PutBlockingWait, Runs
  <2>2. Books'  BY <1>1, <1>15, <2>1, BooksIdle DEF PutBlockingWait, Runs
  <2> QED BY <1>15, <2>1, <2>2, IndInvNext DEF PutBlockingWait
<1> QED BY <1>3, <1>4, <1>5, <1>6, <1>7, <1>8, <1>10, <1>11, <1>12,
           <1>13, <1>14, <1>15 DEF Put

LEMMA InitIndInv == Init => IndInv
<1> SUFFICES ASSUME Init PROVE IndInv
  OBVIOUS
<1>1. TypeOK
  <2>1. \A S : NewNotify \in [waiters : Seq(S), permit : BOOLEAN]
    BY DEF NewNotify
  <2>2. /\ token \in [Putters -> Nat \cup {NoToken}]
        /\ got \in [Consumers -> Producers \cup {Nil, None}]
        /\ accepted \in [Producers -> {"pending", "true", "false"}]
        /\ pc \in [Tasks -> {"new", "ready", "parked", "done"}]
    BY DEF Init
  <2>3. \A S : <<>> \in Seq(S)  OBVIOUS
  <2> QED BY <2>1, <2>2, <2>3 DEF Init, TypeOK
<1>2. WaitersParked  BY DEF Init, WaitersParked, NewNotify
<1>3. Ledger /\ SentOnce  BY DEF Init, Ledger, SentOnce
<1>4. TokenMarksOffer  BY DEF Init, TokenMarksOffer
<1>5. Answers  BY TasksDisjoint DEF Init, Answers
<1>6. WithinCapacity  BY CapacityAssumption DEF Init, WithinCapacity
<1>7. NilMeansDrained
  BY TasksAssumption DEF Init, NilMeansDrained, Consumers
<1> QED BY <1>1, <1>2, <1>3, <1>4, <1>5, <1>6, <1>7 DEF IndInv

LEMMA NextIndInv == IndInv /\ [Next]_vars => IndInv'
<1> SUFFICES ASSUME IndInv, [Next]_vars PROVE IndInv'
  OBVIOUS
<1>1. ASSUME NEW t \in Takers \cup Putters, Spawn(t) PROVE IndInv'
  <2>1. /\ Books /\ Parked /\ holder \in SyncTakers \cup SyncPutters \cup {None}
        /\ PcType /\ t \in Tasks
    BY IndInvParts, TasksDisjoint DEF Books, BooksType
  <2>2. PcType' /\ PcStep(t, "ready") /\ Parked'
    BY <1>1, <2>1, QuietStep DEF Spawn, Runs
  <2>3. Books'  BY <1>1, <2>1, <2>2, BooksIdle DEF Spawn, Runs
  <2> QED BY <1>1, <2>1, <2>2, <2>3, IndInvNext DEF Spawn
<1>2. ASSUME UNCHANGED vars PROVE IndInv'
  BY <1>2 DEF vars, chanVars, IndInv, TypeOK, WaitersParked, Ledger, SentOnce,
     NotSentYet, TokenMarksOffer, Answers, WithinCapacity, NilMeansDrained
<1>3. /\ Takers \subseteq Consumers /\ Pollers \subseteq Consumers
      /\ SyncTakers \subseteq Consumers /\ Putters \subseteq Producers
      /\ Offerers \subseteq Producers /\ SyncPutters \subseteq Producers
  BY DEF Consumers, Producers
<1> QED
  BY <1>1, <1>2, <1>3, ConsumerKeepsIndInv, ProducerKeepsIndInv, CloseKeepsIndInv
     DEF Next, BlockedRecheck

\* Every reachable state of the channel satisfies the inductive invariant.
THEOREM ChannelInvariant == Spec => []IndInv
  BY InitIndInv, NextIndInv, PTL DEF Spec

\* Type correctness, for every capacity and every set of tasks.
THEOREM TypeCorrect == Spec => []TypeOK
<1>1. IndInv => TypeOK  BY DEF IndInv
<1> QED BY <1>1, ChannelInvariant, PTL

-----------------------------------------------------------------------------
(* Offers and the Notify they share with waiting putters *)

\* What decides whether a woken offer has its answer: the count of takes and
\* the closed flag only move forward, and a putter with an offer is woken only
\* by a take or by the close.
OfferStep ==
    /\ closed => closed'
    /\ taken' \in {taken, taken + 1}
    /\ \A p \in Putters :
         (pc'[p] = "ready" /\ token'[p] # NoToken) =>
             /\ token'[p] = token[p]
             /\ pc[p] = "ready" \/ taken' = taken + 1 \/ closed'

\* A step of t that wakes no putter and makes no offer.
LEMMA NoOfferWoken ==
    ASSUME IndInv, NEW t \in Tasks, NEW label, NEW woken, Moves(t, label, woken), woken \cap Putters = {},
           t \in Putters => label # "ready" \/ token[t] = NoToken, UNCHANGED token,
           closed => closed', taken' \in {taken, taken + 1}
    PROVE  OfferStep
<1>1. \A p \in Putters : pc'[p] = IF p = t THEN label ELSE pc[p]
  BY TasksDisjoint DEF Moves
<1> QED  BY <1>1 DEF OfferStep

\* Every step.
LEMMA StepSettlesOffers == IndInv /\ [Next]_vars => OfferStep
<1> SUFFICES ASSUME IndInv, [Next]_vars PROVE OfferStep  OBVIOUS
<1>p. Parked /\ PcType  BY IndInvParts DEF Books, BooksType
<1>w. WokenBy(notEmpty) \cap Putters = {} /\ WokenBy(notFull) \subseteq Putters
  BY <1>p, ParkedFacts, TasksDisjoint
<1>t. taken \in {taken, taken + 1} /\ taken + 1 \in {taken, taken + 1} /\ {} \cap Putters = {}  OBVIOUS
<1>k. /\ Takers \subseteq Tasks /\ Putters \subseteq Tasks /\ Pollers \subseteq Tasks /\ Offerers \subseteq Tasks
      /\ SyncTakers \subseteq Tasks /\ SyncPutters \subseteq Tasks
      /\ (Takers \cup Pollers \cup SyncTakers \cup Offerers \cup SyncPutters) \cap Putters = {}
  BY TasksAssumption DEF Tasks, Consumers, Producers
<1>0. CASE UNCHANGED vars \/ BlockedRecheck
  BY <1>0 DEF vars, chanVars, BlockedRecheck, OfferStep
<1>1. ASSUME NEW t \in Takers \cup Putters, Spawn(t) PROVE OfferStep
  <2>1. t \in Putters => token[t] = NoToken
    BY <1>1 DEF Spawn, Runs, IndInv, TokenMarksOffer
  <2> QED  BY <1>1, <1>k, <1>t, <2>1, NoOfferWoken DEF Spawn, chanVars
<1>2. ASSUME NEW t \in Takers \cup Pollers, TryTakeValue(t) PROVE OfferStep
  <2>1. taken' = taken + 1 /\ closed' = closed /\ token' = token /\ pc' = [u \in Tasks |-> IF u = t THEN "done" ELSE IF u \in WokenBy(notFull) THEN "ready" ELSE pc[u]]
    BY <1>2 DEF TryTakeValue, PopFront, Moves
  <2> QED  BY <2>1 DEF OfferStep
<1>3. ASSUME NEW t \in Takers, TakeNil(t) \/ TakePark(t) PROVE OfferStep
  BY <1>3, <1>k, <1>t, <1>w, NoOfferWoken DEF TakeNil, TakePark, chanVars
<1>4. ASSUME NEW p \in Putters, PutBuffered(p) PROVE OfferStep
  BY <1>4, <1>k, <1>t, <1>w, NoOfferWoken DEF PutBuffered, Enqueues, PushBack
<1>5. ASSUME NEW p \in Putters, PutClosed(p) \/ PutPark(p) \/ RvTaken(p) PROVE OfferStep
  BY <1>5, <1>k, <1>t, NoOfferWoken DEF PutClosed, PutPark, RvTaken, chanVars
<1>6. ASSUME NEW p \in Putters, RvOffer(p) PROVE OfferStep
  <2>1. /\ token' = [token EXCEPT ![p] = taken] /\ UNCHANGED <<closed, taken>>
        /\ \A q \in Putters : pc'[q] = IF q = p THEN "parked" ELSE pc[q]
    BY <1>6, <1>k, <1>w DEF RvOffer, Enqueues, PushBack, Moves
  <2>2. token \in [Putters -> Nat \cup {NoToken}]  BY DEF IndInv, TypeOK
  <2> QED  BY <2>1, <2>2 DEF OfferStep
<1>7. ASSUME NEW p \in Putters, RvClosedUntaken(p) PROVE OfferStep
  BY <1>7, <1>k, <1>t, NoOfferWoken DEF RvClosedUntaken
<1>8. ASSUME NEW t \in Pollers \cup SyncTakers, PollNil(t) \/ TakeBlockingNil(t) \/ TakeBlockingWait(t) PROVE OfferStep
  BY <1>8, <1>k, <1>t, NoOfferWoken DEF PollNil, TakeBlockingNil, TakeBlockingWait, chanVars
<1>9. ASSUME NEW t \in SyncTakers, TakeBlockingValue(t) PROVE OfferStep
  BY <1>9, <1>k, <1>t, NoOfferWoken DEF TakeBlockingValue, PopFront
<1>10. ASSUME NEW p \in Offerers, OfferAccepted(p) \/ OfferRefused(p) PROVE OfferStep
  BY <1>10, <1>k, <1>t, <1>w, NoOfferWoken DEF OfferAccepted, OfferRefused, Enqueues, PushBack, chanVars
<1>11. ASSUME NEW p \in SyncPutters,
              PutBlockingBuffered(p) \/ PutBlockingOffer(p) \/ PutBlockingClosed(p) \/ PutBlockingWait(p)
       PROVE  OfferStep
  BY <1>11, <1>k, <1>t, NoOfferWoken
     DEF PutBlockingBuffered, PutBlockingOffer, PutBlockingClosed, PutBlockingWait, PushBack, chanVars
<1>12. CASE Close
  BY <1>12 DEF Close, OfferStep
<1> QED
  BY <1>0, <1>1, <1>2, <1>3, <1>4, <1>5, <1>6, <1>7, <1>8, <1>9, <1>10, <1>11, <1>12
     DEF Next, Take, TakeValue, Put, PollValue

\* A rendezvous put! in its second phase is polled again only when its offer
\* was taken or the channel closed: the wait of put() needs no third answer.
THEOREM WokenOffersAreSettled == Spec => []WokenOfferIsSettled
<1>1. Init => WokenOfferIsSettled  BY DEF Init, WokenOfferIsSettled
<1>2. IndInv /\ WokenOfferIsSettled /\ [Next]_vars => WokenOfferIsSettled'
  <2> SUFFICES ASSUME IndInv, WokenOfferIsSettled, OfferStep,
                      NEW p \in Putters, pc'[p] = "ready", token'[p] # NoToken
               PROVE  taken' # token'[p] \/ closed'
    BY StepSettlesOffers DEF WokenOfferIsSettled
  <2>1. /\ token'[p] = token[p] /\ (closed => closed') /\ taken' \in {taken, taken + 1}
        /\ pc[p] = "ready" \/ taken' = taken + 1 \/ closed'
    BY DEF OfferStep
  <2>2. taken \in Nat /\ token[p] \in Nat /\ token[p] <= taken
    BY <2>1 DEF IndInv, TypeOK, TokenMarksOffer
  <2>3. pc[p] = "ready" => taken # token[p] \/ closed  BY <2>1 DEF WokenOfferIsSettled
  <2> QED  BY <2>1, <2>2, <2>3
<1> QED  BY <1>1, <1>2, ChannelInvariant, PTL DEF Spec

\* A cancelled rendezvous offer is always the canceller's own: a put! whose
\* token is current finds exactly its value in the slot.
THEOREM OfferOwnership == Spec => []OfferOwnsSlot
<1>1. IndInv => OfferOwnsSlot
  BY IndInvParts, CurrentTokenOwnsSlot DEF OfferOwnsSlot
<1> QED BY <1>1, ChannelInvariant, PTL

\* Elems in terms of positions.
LEMMA ElemsOfLedger ==
    ASSUME IndInv
    PROVE  /\ Len(sent) \in Nat /\ Len(queue) \in Nat /\ taken \in Nat
           /\ \A p : p \in Elems(received) <=> \E i \in 1..taken : sent[i] = p
           /\ \A p : p \in Elems(queue) <=>
                         \E i \in 1..Len(queue) : sent[taken + i] = p
<1>1. Len(sent) \in Nat /\ Len(queue) \in Nat /\ taken \in Nat
  BY EmptyFacts DEF IndInv, TypeOK
<1> QED BY <1>1 DEF Elems, IndInv, Ledger

\* A put that resolved true is received or still buffered, never lost; for a
\* rendezvous channel true means received.
THEOREM TrueIsDelivered == Spec => []TrueMeansDelivered
<1>1. ASSUME IndInv, NEW p \in Producers, accepted[p] = "true"
      PROVE  \/ p \in Elems(received)
             \/ ~Rendezvous /\ p \in Elems(queue)
  <2>1. PICK i \in 1..Len(sent) :
            sent[i] = p /\ i <= IF Rendezvous THEN taken ELSE taken + Len(queue)
    BY <1>1 DEF IndInv, Answers
  <2>2. Len(sent) \in Nat /\ Len(queue) \in Nat /\ taken \in Nat
    BY <1>1, ElemsOfLedger
  <2>3. CASE i <= taken  BY <2>1, <2>2, <2>3, <1>1, ElemsOfLedger
  <2>4. CASE ~(i <= taken)
    <3>1. i - taken \in 1..Len(queue) /\ taken + (i - taken) = i /\ ~Rendezvous
      BY <2>1, <2>2, <2>4
    <3> QED BY <3>1, <2>1, <1>1, ElemsOfLedger
  <2> QED BY <2>3, <2>4
<1>2. IndInv => TrueMeansDelivered  BY <1>1 DEF TrueMeansDelivered
<1> QED BY <1>2, ChannelInvariant, PTL

\* A put that resolved false reached nobody and sits nowhere in the channel.
THEOREM FalseIsNeverReceived == Spec => []FalseMeansNeverReceived
<1>1. ASSUME IndInv, NEW p \in Producers, accepted[p] = "false",
             p \in Elems(received) \cup Elems(queue)
      PROVE  FALSE
  <2>1. Len(sent) \in Nat /\ Len(queue) \in Nat /\ taken \in Nat
    BY <1>1, ElemsOfLedger
  <2>2. Len(withdrawn) \in Nat /\ Len(sent) = taken + Len(queue) + Len(withdrawn)
    BY <1>1, EmptyFacts DEF IndInv, TypeOK, Ledger
  <2>3. PICK i \in 1..(taken + Len(queue)) : sent[i] = p
    <3>1. CASE \E i \in 1..taken : sent[i] = p  BY <3>1, <2>1
    <3>2. CASE \E i \in 1..Len(queue) : sent[taken + i] = p  BY <3>2, <2>1
    <3> QED BY <3>1, <3>2, <1>1, ElemsOfLedger
  <2>4. i \in 1..Len(sent)  BY <2>1, <2>2, <2>3
  <2>5. withdrawn = <<p>>  BY <2>3, <2>4, <1>1 DEF IndInv, Answers
  <2>6. /\ queue = <<>> /\ Len(withdrawn) = 1 /\ sent[taken + 1] = withdrawn[1]
    BY <2>5, <1>1 DEF IndInv, Ledger
  <2>7. Len(queue) = 0 /\ withdrawn[1] = p  BY <2>5, <2>6
  <2>8. taken + 1 \in 1..Len(sent) /\ i <= taken  BY <2>1, <2>2, <2>3, <2>6, <2>7
  <2> QED BY <2>3, <2>4, <2>6, <2>7, <2>8, <2>1, <1>1 DEF IndInv, SentOnce
<1>2. IndInv => FalseMeansNeverReceived  BY <1>1 DEF FalseMeansNeverReceived
<1> QED BY <1>2, ChannelInvariant, PTL

\* nil from take! or <!! means closed and drained, for good.
THEOREM NilIsEndOfStream == Spec => []NilMeansDrained
<1>1. IndInv => NilMeansDrained  BY DEF IndInv
<1> QED BY <1>1, ChannelInvariant, PTL

\* First in, first out, nothing lost and nothing duplicated.
THEOREM FifoAndNoLoss == Spec => []FifoNoLoss
<1>1. ASSUME IndInv PROVE FifoNoLoss
  <2> DEFINE rq == received \o queue
             all == rq \o withdrawn
  <2>1. /\ queue \in Seq(Producers) /\ received \in Seq(Producers)
        /\ withdrawn \in Seq(Producers) /\ sent \in Seq(Producers)
    BY <1>1 DEF IndInv, TypeOK
  <2>2. /\ rq \in Seq(Producers) /\ Len(rq) = Len(received) + Len(queue)
        /\ \A i \in 1..Len(rq) : rq[i] = IF i <= Len(received) THEN received[i]
                                         ELSE queue[i - Len(received)]
    BY <2>1
  <2>3. /\ all \in Seq(Producers) /\ Len(all) = Len(rq) + Len(withdrawn)
        /\ \A i \in 1..Len(all) : all[i] = IF i <= Len(rq) THEN rq[i]
                                           ELSE withdrawn[i - Len(rq)]
    BY <2>1, <2>2
  <2> HIDE DEF rq, all
  <2>4. /\ Len(queue) \in Nat /\ Len(received) \in Nat /\ Len(withdrawn) \in Nat
        /\ Len(received) = taken
        /\ Len(sent) = taken + Len(queue) + Len(withdrawn)
    BY <2>1, EmptyFacts, <1>1 DEF IndInv, Ledger
  <2>5. Len(all) = Len(sent)  BY <2>2, <2>3, <2>4
  <2>6. ASSUME NEW i \in 1..Len(sent) PROVE sent[i] = all[i]
    <3>1. CASE i <= taken
      BY <3>1, <2>2, <2>3, <2>4, <2>5, <1>1 DEF IndInv, Ledger
    <3>2. CASE i > taken /\ i <= taken + Len(queue)
      <4>1. i - taken \in 1..Len(queue) /\ taken + (i - taken) = i
        BY <3>2, <2>4
      <4>2. sent[i] = queue[i - taken]  BY <4>1, <1>1 DEF IndInv, Ledger
      <4> QED BY <4>2, <3>2, <2>2, <2>3, <2>4, <2>5
    <3>3. CASE i > taken + Len(queue)
      <4>1. withdrawn # <<>>  BY <3>3, <2>4
      <4>2. /\ queue = <<>> /\ Len(withdrawn) = 1
            /\ sent[taken + 1] = withdrawn[1]
        BY <4>1, <1>1 DEF IndInv, Ledger
      <4>3. Len(queue) = 0  BY <4>2
      <4>4. i = taken + 1 /\ i - Len(rq) = 1 /\ ~(i <= Len(rq))
        BY <3>3, <4>2, <4>3, <2>2, <2>4
      <4> QED BY <4>2, <4>4, <2>3, <2>5
    <3> QED BY <3>1, <3>2, <3>3, <2>4
  <2>7. sent = all  BY <2>1, <2>3, <2>5, <2>6
  <2> QED BY <2>7 DEF FifoNoLoss, all, rq
<1> QED BY <1>1, ChannelInvariant, PTL

-----------------------------------------------------------------------------
(* Refinement of AbstractChannel *)

\* The part of the state the abstract channel sees.
seen == <<queue, closed, sent, received, got, accepted>>

LEMMA UnseenStep == UNCHANGED seen => UNCHANGED Abs!absVars
  BY DEF seen, Abs!absVars, Elems

LEMMA PopIsReceive ==
    ASSUME IndInv, NEW t \in Consumers, pc[t] # "done",
           queue # <<>>, PopFront, UNCHANGED accepted,
           got' = [got EXCEPT ![t] = Head(queue)]
    PROVE  Abs!Next
<1>1. got[t] = None  BY DEF IndInv, Answers
<1>2. Abs!Receive(t)  BY <1>1 DEF Abs!Receive, PopFront, Elems
<1> QED BY <1>2 DEF Abs!Next

LEMMA NilIsReceiveNil ==
    ASSUME IndInv, NEW t \in Consumers, pc[t] # "done",
           queue = <<>>, closed \/ t \in Pollers,
           UNCHANGED <<queue, closed, sent, received, accepted>>,
           got' = [got EXCEPT ![t] = Nil]
    PROVE  Abs!Next
<1>1. got[t] = None  BY DEF IndInv, Answers
<1>2. Abs!ReceiveNil(t)  BY <1>1 DEF Abs!ReceiveNil, Elems
<1> QED BY <1>2 DEF Abs!Next

LEMMA PushIsSend ==
    ASSUME IndInv, NEW p \in Producers, NotSentYet(p), pc[p] # "done",
           ~closed, HasRoom, PushBack(p), UNCHANGED got,
           IF Rendezvous THEN UNCHANGED accepted
           ELSE accepted' = [accepted EXCEPT ![p] = "true"]
    PROVE  Abs!Next
<1>1. p \notin Elems(sent)  BY DEF IndInv, SentOnce, Elems
<1>2. Elems(sent') = Elems(sent) \cup {p}
  <2>1. /\ Len(sent) \in Nat /\ Len(sent') = Len(sent) + 1
        /\ \A i \in 1..Len(sent) : sent'[i] = sent[i]
        /\ sent'[Len(sent) + 1] = p
    BY AppendFacts, EmptyFacts DEF IndInv, TypeOK, PushBack
  <2>2. Elems(sent') \subseteq Elems(sent) \cup {p}
    BY <2>1 DEF Elems
  <2>3. \A i \in 1..Len(sent) : i \in 1..Len(sent') /\ Len(sent) + 1 \in 1..Len(sent')
    BY <2>1
  <2>4. p \in Elems(sent')
    BY <2>1 DEF Elems
  <2>5. Elems(sent) \subseteq Elems(sent')
    BY <2>1, <2>3 DEF Elems
  <2> QED BY <2>2, <2>4, <2>5
<1>3. accepted[p] = "pending"  BY DEF IndInv, Answers
<1>4. Abs!Room  BY DEF Abs!Room, HasRoom, Rendezvous
<1>5. Elems(sent)' = Elems(sent')  BY DEF Elems
<1>6. Abs!Send(p)
  BY <1>1, <1>2, <1>3, <1>4, <1>5 DEF Abs!Send, Abs!Answer, PushBack, Rendezvous
<1> QED BY <1>6 DEF Abs!Next

LEMMA RefusalIsRefuse ==
    ASSUME IndInv, NEW p \in Producers, NotSentYet(p), pc[p] # "done",
           closed \/ p \in Offerers,
           UNCHANGED <<queue, closed, sent, received, got>>,
           accepted' = [accepted EXCEPT ![p] = "false"]
    PROVE  Abs!Next
<1>1. p \notin Elems(sent)  BY DEF IndInv, SentOnce, Elems
<1>2. accepted[p] = "pending"  BY DEF IndInv, Answers
<1>3. Abs!Refuse(p)  BY <1>1, <1>2 DEF Abs!Refuse, Abs!Answer, Elems
<1> QED BY <1>3 DEF Abs!Next

LEMMA TakenIsConfirm ==
    ASSUME IndInv, NEW p \in Putters, RvTaken(p)
    PROVE  Abs!Next
<1>1. /\ token[p] + 1 \in 1..taken /\ sent[token[p] + 1] = p
      /\ p \in Producers
  BY EmptyFacts, TasksDisjoint DEF IndInv, TypeOK, TokenMarksOffer, RvTaken, Runs
<1>2. p \in Abs!Elems(received)
  BY <1>1, ElemsOfLedger DEF Elems, Abs!Elems
<1>3. accepted[p] = "pending"
  BY <1>1 DEF IndInv, Answers, RvTaken, Runs
<1>4. Abs!Confirm(p)
  BY <1>2, <1>3 DEF Abs!Confirm, Abs!Answer, RvTaken, Resolves, chanVars, Elems
<1> QED BY <1>1, <1>4 DEF Abs!Next

LEMMA CancelIsWithdraw ==
    ASSUME IndInv, NEW p \in Putters, RvClosedUntaken(p)
    PROVE  Abs!Next
<1>1. queue = <<p>>
  BY IndInvParts, CurrentTokenOwnsSlot DEF RvClosedUntaken, Runs
<1>2. queue' = <<>>  BY <1>1 DEF RvClosedUntaken
<1>3. accepted[p] = "pending" /\ p \in Producers
  BY TasksDisjoint DEF IndInv, Answers, RvClosedUntaken, Runs
<1>4. Abs!Withdraw(p)
  BY <1>1, <1>2, <1>3 DEF Abs!Withdraw, Abs!Answer, RvClosedUntaken, Resolves, Elems
<1> QED BY <1>3, <1>4 DEF Abs!Next

LEMMA StepRefines == IndInv /\ [Next]_vars => [Abs!Next]_(Abs!absVars)
<1> SUFFICES ASSUME IndInv, [Next]_vars
             PROVE  Abs!Next \/ UNCHANGED seen
  BY UnseenStep
<1> USE TasksDisjoint
<1>1. ASSUME NEW t \in Takers \cup Putters, Spawn(t) PROVE UNCHANGED seen
  BY <1>1 DEF Spawn, chanVars, seen
<1>2. ASSUME NEW t \in Takers, Take(t) PROVE Abs!Next \/ UNCHANGED seen
  <2>1. CASE TakeValue(t)
    BY <2>1, PopIsReceive DEF TakeValue, TryTakeValue, Runs, Returns
  <2>2. CASE TakeNil(t)
    BY <2>2, NilIsReceiveNil DEF TakeNil, Runs, Returns, chanVars
  <2>3. CASE TakePark(t)  BY <2>3 DEF TakePark, chanVars, seen
  <2> QED BY <1>2, <2>1, <2>2, <2>3 DEF Take
<1>3. ASSUME NEW p \in Putters, Put(p) PROVE Abs!Next \/ UNCHANGED seen
  <2>1. CASE PutBuffered(p)
    <3>1. NotSentYet(p)
      BY <2>1 DEF PutBuffered, Runs, IndInv, TokenMarksOffer, NotSentYet
    <3> QED BY <2>1, <3>1, PushIsSend DEF PutBuffered, Enqueues, Runs, Resolves
  <2>2. CASE PutClosed(p)
    BY <2>2, RefusalIsRefuse DEF PutClosed, Runs, Resolves, NotSentYet, chanVars
  <2>3. CASE PutPark(p)  BY <2>3 DEF PutPark, chanVars, seen
  <2>4. CASE RvOffer(p)
    BY <2>4, PushIsSend DEF RvOffer, Enqueues, Runs, NotSentYet
  <2>5. CASE RvTaken(p)  BY <2>5, TakenIsConfirm
  <2>6. CASE RvClosedUntaken(p)  BY <2>6, CancelIsWithdraw
  <2> QED BY <1>3, <2>1, <2>2, <2>3, <2>4, <2>5, <2>6 DEF Put
<1>4. ASSUME NEW t \in Pollers, PollValue(t) \/ PollNil(t) PROVE Abs!Next
  <2>0. t \in Consumers  BY DEF Consumers
  <2>1. CASE PollValue(t)
    BY <2>0, <2>1, PopIsReceive DEF PollValue, TryTakeValue, Runs, Returns
  <2>2. CASE PollNil(t)
    BY <2>0, <2>2, NilIsReceiveNil DEF PollNil, Runs, Returns, chanVars
  <2> QED BY <1>4, <2>1, <2>2
<1>5. ASSUME NEW p \in Offerers, OfferAccepted(p) \/ OfferRefused(p)
      PROVE  Abs!Next
  <2>0. p \in Producers  BY DEF Producers
  <2>1. CASE OfferAccepted(p)
    BY <2>0, <2>1, PushIsSend
       DEF OfferAccepted, Enqueues, Runs, Resolves, NotSentYet
  <2>2. CASE OfferRefused(p)
    BY <2>0, <2>2, RefusalIsRefuse
       DEF OfferRefused, Runs, Resolves, NotSentYet, chanVars
  <2> QED BY <1>5, <2>1, <2>2
<1>6. ASSUME NEW t \in SyncTakers,
             \/ TakeBlockingValue(t) \/ TakeBlockingNil(t) \/ TakeBlockingWait(t)
      PROVE  Abs!Next \/ UNCHANGED seen
  <2>0. t \in Consumers  BY DEF Consumers
  <2>1. CASE TakeBlockingValue(t)
    BY <2>0, <2>1, PopIsReceive DEF TakeBlockingValue, Runs, Returns
  <2>2. CASE TakeBlockingNil(t)
    BY <2>0, <2>2, NilIsReceiveNil DEF TakeBlockingNil, Runs, Returns, chanVars
  <2>3. CASE TakeBlockingWait(t)  BY <2>3 DEF TakeBlockingWait, chanVars, seen
  <2> QED BY <1>6, <2>1, <2>2, <2>3
<1>7. ASSUME NEW p \in SyncPutters,
             \/ PutBlockingBuffered(p) \/ PutBlockingOffer(p)
             \/ PutBlockingClosed(p) \/ PutBlockingWait(p)
      PROVE  Abs!Next \/ UNCHANGED seen
  <2>0. p \in Producers  BY DEF Producers
  <2>1. CASE PutBlockingBuffered(p)
    BY <2>0, <2>1, PushIsSend DEF PutBlockingBuffered, Runs, Resolves, NotSentYet
  <2>2. CASE PutBlockingOffer(p)
    BY <2>0, <2>2, PushIsSend DEF PutBlockingOffer, Runs, NotSentYet
  <2>3. CASE PutBlockingClosed(p)
    BY <2>0, <2>3, RefusalIsRefuse
       DEF PutBlockingClosed, Runs, Resolves, NotSentYet, chanVars
  <2>4. CASE PutBlockingWait(p)  BY <2>4 DEF PutBlockingWait, chanVars, seen
  <2> QED BY <1>7, <2>1, <2>2, <2>3, <2>4
<1>8. ASSUME Close PROVE Abs!Next
  <2>1. Abs!CloseChannel  BY <1>8 DEF Close, Abs!CloseChannel, Elems
  <2> QED BY <2>1 DEF Abs!Next
<1>9. ASSUME UNCHANGED vars PROVE UNCHANGED seen
  BY <1>9 DEF vars, chanVars, seen
<1> QED BY <1>1, <1>2, <1>3, <1>4, <1>5, <1>6, <1>7, <1>8, <1>9
        DEF Next, BlockedRecheck

\* The Notify-and-token implementation is a channel in the sense of
\* AbstractChannel: every behaviour of the code's state machine is one the
\* abstract channel allows.
THEOREM ChannelRefinement == Spec => ImplementsChannel
<1>1. Init => Abs!Init
  BY DEF Init, Abs!Init, Elems
<1> QED BY <1>1, StepRefines, ChannelInvariant, PTL
        DEF Spec, ImplementsChannel, Abs!Spec

\* close! is final: nothing enters a closed channel and it never reopens.
THEOREM ClosedForGood == Spec => NothingSentAfterClose
<1>1. IndInv /\ [Next]_vars => [closed => sent' = sent /\ closed']_vars
  <2> SUFFICES ASSUME Next, closed PROVE sent' = sent /\ closed'
    OBVIOUS
  <2> USE DEF chanVars
  <2>1. ASSUME NEW t \in Takers, Take(t) PROVE sent' = sent /\ closed'
    BY <2>1 DEF Take, TakeValue, TryTakeValue, PopFront, TakeNil, TakePark
  <2>2. ASSUME NEW p \in Putters, Put(p) PROVE sent' = sent /\ closed'
    BY <2>2 DEF Put, PutBuffered, Enqueues, PutClosed, PutPark, RvOffer,
       RvTaken, RvClosedUntaken
  <2>3. ASSUME NEW t \in Pollers, PollValue(t) \/ PollNil(t)
        PROVE  sent' = sent /\ closed'
    BY <2>3 DEF PollValue, PollNil, TryTakeValue, PopFront
  <2>4. ASSUME NEW p \in Offerers, OfferAccepted(p) \/ OfferRefused(p)
        PROVE  sent' = sent /\ closed'
    BY <2>4 DEF OfferAccepted, OfferRefused, Enqueues
  <2>5. ASSUME NEW t \in SyncTakers,
               \/ TakeBlockingValue(t) \/ TakeBlockingNil(t) \/ TakeBlockingWait(t)
        PROVE  sent' = sent /\ closed'
    BY <2>5 DEF TakeBlockingValue, TakeBlockingNil, TakeBlockingWait, PopFront
  <2>6. ASSUME NEW p \in SyncPutters,
               \/ PutBlockingBuffered(p) \/ PutBlockingOffer(p)
               \/ PutBlockingClosed(p) \/ PutBlockingWait(p)
        PROVE  sent' = sent /\ closed'
    BY <2>6 DEF PutBlockingBuffered, PutBlockingOffer, PutBlockingClosed,
       PutBlockingWait
  <2>7. ASSUME NEW t \in Takers \cup Putters, Spawn(t)
        PROVE  sent' = sent /\ closed'
    BY <2>7 DEF Spawn
  <2>8. Close \/ BlockedRecheck => sent' = sent /\ closed'
    BY DEF Close, BlockedRecheck, vars
  <2> QED BY <2>1, <2>2, <2>3, <2>4, <2>5, <2>6, <2>7, <2>8 DEF Next
<1> QED BY <1>1, ChannelInvariant, PTL DEF Spec, NothingSentAfterClose

\* Order, completeness and truthful answers together.
THEOREM ChannelIsHonest == Spec => []ChannelHonest
<1>1. FifoNoLoss /\ TrueMeansDelivered /\ FalseMeansNeverReceived /\ NilMeansDrained
        => ChannelHonest
  BY DEF ChannelHonest
<1> QED BY <1>1, FifoAndNoLoss, TrueIsDelivered, FalseIsNeverReceived, NilIsEndOfStream, PTL
=============================================================================
