------------------------ MODULE SubscriptionsProofs ------------------------
(* Proofs about Subscriptions, for every number of policies, subscribers,  *)
(* processes, requests and goroutines.                                     *)
EXTENDS Subscriptions, FiniteSetTheorems, TLAPS

\* What keeps an unraced subscription single, although nothing but the lookup does:
\* from the lookup of SubscribeForPolicyChange to its CreateSubscriber no record of
\* it appears, and no other request gets as far.
CreatesAlone ==
    \A p \in Policies, s \in Subscribers : <<p, s>> \notin raced =>
        /\ \A q, r \in Requests : Creating(q, p, s) /\ Creating(r, p, s) => q = r
        /\ \A r \in Requests : Creating(r, p, s) => Matching(p, s) = {}
        /\ \A c, e \in Matching(p, s) : c = e

\* What the streams and the goroutines carry has changed.
EventsChanged ==
    /\ \A i \in Instances : \A n \in 1..Len(stream[i]) : stream[i][n] \in changed
    /\ \A w \in Workers : worker[w].pc # "idle" => worker[w].event \in changed

SubscriptionsInv == SubscriptionsTypeOK /\ CreatesAlone /\ EventsChanged

LEMMA IdleTypes == ReqIdle \in Request /\ WorkerIdle \in Worker
<1>1. AnyPolicy \in Policies /\ AnySubscriber \in Subscribers
  BY SubscriptionsAssumption DEF AnyPolicy, AnySubscriber
<1>2. (CHOOSE i \in Instances : TRUE) \in Instances
  BY SubscriptionsAssumption
<1> QED
  BY <1>1, <1>2 DEF ReqIdle, WorkerIdle, Request, Worker

\* The listener and the notifier agree on the places of group and name.
LEMMA EventIsPolicy == \A p \in Policies : Event(p.name, p.group) = p
  BY SubscriptionsAssumption DEF Event

LEMMA HeadAndTail ==
    ASSUME NEW S, NEW s \in Seq(S), s # <<>>
    PROVE  /\ Head(s) \in S /\ Tail(s) \in Seq(S)
           /\ 1 \in 1..Len(s) /\ Head(s) = s[1]
           /\ \A n \in 1..Len(Tail(s)) : n + 1 \in 1..Len(s) /\ Tail(s)[n] = s[n + 1]
  OBVIOUS

LEMMA Starts == Init => SubscriptionsInv
<1> SUFFICES ASSUME Init PROVE SubscriptionsInv
  OBVIOUS
<1>1. SubscriptionsTypeOK
  BY IdleTypes DEF Init, SubscriptionsTypeOK
<1>2. CreatesAlone
  <2>1. \A r \in Requests : req[r].pc = "idle"
    BY DEF Init, ReqIdle
  <2>2. \A r \in Requests : \A p, s : ~Creating(r, p, s)
    BY <2>1 DEF Creating
  <2>3. \A p, s : Matching(p, s) = {}
    BY DEF Init, Matching
  <2> QED
    BY <2>2, <2>3 DEF CreatesAlone
<1>3. EventsChanged
  BY DEF Init, EventsChanged, WorkerIdle
<1> QED
  BY <1>1, <1>2, <1>3 DEF SubscriptionsInv

(* Subscribe requests: the types, and what becomes of CreatesAlone.        *)

\* A request that is not about to create, before or after, changes nothing.
LEMMA NotCreating ==
    ASSUME CreatesAlone, SubscriptionsTypeOK, NEW r \in Requests, NEW q \in Request,
           q.pc # "create", req' = [req EXCEPT ![r] = q], UNCHANGED <<records, raced>>
    PROVE  CreatesAlone'
<1>1. \A x \in Requests : \A p, s : Creating(x, p, s)' => Creating(x, p, s)
  <2> SUFFICES ASSUME NEW x \in Requests, NEW p, NEW s, Creating(x, p, s)'
               PROVE  Creating(x, p, s)
    OBVIOUS
  <2>1. req'[x].pc = "create" /\ req'[x] = [pc |-> "create", policy |-> p, subscriber |-> s]
    BY DEF Creating
  <2>2. x # r
    BY <2>1 DEF SubscriptionsTypeOK
  <2>3. req'[x] = req[x]
    BY <2>2 DEF SubscriptionsTypeOK
  <2> QED
    BY <2>1, <2>3 DEF Creating
<1>2. \A p, s : Matching(p, s)' = Matching(p, s)
  BY DEF Matching
<1> QED
  BY <1>1, <1>2 DEF CreatesAlone

\* Nor does what leaves the requests and the collection alone.
LEMMA OthersCreate ==
    ASSUME CreatesAlone, UNCHANGED <<req, records, raced>>
    PROVE  CreatesAlone'
<1>1. \A x, p, s : Creating(x, p, s)' <=> Creating(x, p, s)
  BY DEF Creating
<1>2. \A p, s : Matching(p, s)' = Matching(p, s)
  BY DEF Matching
<1> QED
  BY <1>1, <1>2 DEF CreatesAlone

\* Nor do the requests touch the streams and the goroutines.
LEMMA RequestEvents ==
    ASSUME EventsChanged, UNCHANGED <<stream, worker, changed>>
    PROVE  EventsChanged'
  BY DEF EventsChanged

LEMMA SubscribeKeeps ==
    ASSUME SubscriptionsInv, NEW r \in Requests, NEW p \in Policies, NEW s \in Subscribers,
           Subscribe(r, p, s)
    PROVE  SubscriptionsInv'
<1> DEFINE q == [pc |-> "policy", policy |-> p, subscriber |-> s]
<1>1. q \in Request /\ q.pc # "create" /\ req' = [req EXCEPT ![r] = q]
  BY DEF Request, Subscribe
<1>2. SubscriptionsTypeOK'
  BY <1>1 DEF SubscriptionsInv, SubscriptionsTypeOK, Subscribe, historyVars
<1>3. CreatesAlone'
  BY <1>1, NotCreating DEF SubscriptionsInv, Subscribe, historyVars
<1>4. EventsChanged'
  BY RequestEvents DEF SubscriptionsInv, Subscribe, historyVars
<1> QED
  BY <1>2, <1>3, <1>4 DEF SubscriptionsInv

\* A request that is answered, whatever the answer.
LEMMA AnswerKeeps ==
    ASSUME SubscriptionsInv, NEW r \in Requests, Answer(r),
           UNCHANGED <<stored, records, listening, stream, worker, faulty, historyVars>>
    PROVE  SubscriptionsInv'
<1>1. ReqIdle \in Request /\ ReqIdle.pc # "create" /\ req' = [req EXCEPT ![r] = ReqIdle]
  BY IdleTypes DEF ReqIdle, Answer
<1>2. SubscriptionsTypeOK'
  BY <1>1 DEF SubscriptionsInv, SubscriptionsTypeOK, historyVars
<1>3. CreatesAlone'
  BY <1>1, NotCreating DEF SubscriptionsInv, historyVars
<1>4. EventsChanged'
  BY RequestEvents DEF SubscriptionsInv, historyVars
<1> QED
  BY <1>2, <1>3, <1>4 DEF SubscriptionsInv

\* A request that goes on: the same request at another step.
LEMMA GotoStep ==
    ASSUME SubscriptionsTypeOK, NEW r \in Requests,
           NEW step \in {"idle", "policy", "lookup", "create"}, Goto(r, step)
    PROVE  LET q == [pc |-> step, policy |-> req[r].policy,
                     subscriber |-> req[r].subscriber]
           IN  q \in Request /\ q.pc = step /\ req' = [req EXCEPT ![r] = q]
<1>1. req[r] \in Request
  BY DEF SubscriptionsTypeOK
<1>2. req[r].policy \in Policies /\ req[r].subscriber \in Subscribers
  BY <1>1 DEF Request
<1>3. [req[r] EXCEPT !.pc = step]
        = [pc |-> step, policy |-> req[r].policy, subscriber |-> req[r].subscriber]
  BY <1>1 DEF Request
<1> QED
  BY <1>2, <1>3 DEF Goto, Request

LEMMA CheckPolicyKeeps ==
    ASSUME SubscriptionsInv, NEW r \in Requests, CheckPolicy(r)
    PROVE  SubscriptionsInv'
<1>1. CASE Answer(r)
  BY <1>1, AnswerKeeps DEF CheckPolicy
<1>2. CASE Goto(r, "lookup")
  <2> DEFINE q == [pc |-> "lookup", policy |-> req[r].policy,
                   subscriber |-> req[r].subscriber]
  <2>1. q \in Request /\ q.pc # "create" /\ req' = [req EXCEPT ![r] = q]
    BY <1>2, GotoStep DEF SubscriptionsInv
  <2>2. SubscriptionsTypeOK'
    BY <2>1 DEF SubscriptionsInv, SubscriptionsTypeOK, CheckPolicy, historyVars
  <2>3. CreatesAlone'
    BY <2>1, NotCreating DEF SubscriptionsInv, CheckPolicy, historyVars
  <2>4. EventsChanged'
    BY RequestEvents DEF SubscriptionsInv, CheckPolicy, historyVars
  <2> QED
    BY <2>2, <2>3, <2>4 DEF SubscriptionsInv
<1> QED
  BY <1>1, <1>2 DEF CheckPolicy

LEMMA LookupKeeps ==
    ASSUME SubscriptionsInv, NEW r \in Requests, Lookup(r)
    PROVE  SubscriptionsInv'
<1> DEFINE p0 == req[r].policy
           s0 == req[r].subscriber
           q0 == [pc |-> "create", policy |-> p0, subscriber |-> s0]
<1>1. CASE Matching(p0, s0) # {}
  BY <1>1, AnswerKeeps DEF Lookup, historyVars
<1>2. CASE Matching(p0, s0) = {}
  <2>1. /\ Goto(r, "create")
        /\ UNCHANGED <<stored, records, listening, stream, worker, faulty, changed, owed>>
        /\ raced' = IF \E q \in Requests \ {r} : Creating(q, p0, s0)
                    THEN raced \cup {<<p0, s0>>} ELSE raced
    BY <1>2 DEF Lookup
  <2>2. q0 \in Request /\ req' = [req EXCEPT ![r] = q0]
    BY <2>1, GotoStep DEF SubscriptionsInv
  <2>3. p0 \in Policies /\ s0 \in Subscribers
    BY DEF SubscriptionsInv, SubscriptionsTypeOK, Request
  <2>4. SubscriptionsTypeOK'
    BY <2>1, <2>2, <2>3 DEF SubscriptionsInv, SubscriptionsTypeOK
  <2>5. CreatesAlone'
    <3> SUFFICES ASSUME NEW p \in Policies, NEW s \in Subscribers, <<p, s>> \notin raced'
                 PROVE  /\ \A x, y \in Requests :
                             Creating(x, p, s)' /\ Creating(y, p, s)' => x = y
                        /\ \A x \in Requests : Creating(x, p, s)' => Matching(p, s)' = {}
                        /\ \A c, e \in Matching(p, s)' : c = e
      BY DEF CreatesAlone
    <3>1. <<p, s>> \notin raced
      BY <2>1
    <3>2. Matching(p, s)' = Matching(p, s)
      BY <2>1 DEF Matching
    <3>3. \A x \in Requests \ {r} : Creating(x, p, s)' => Creating(x, p, s)
      BY <2>2 DEF Creating, SubscriptionsInv, SubscriptionsTypeOK
    <3>4. Creating(r, p, s)' => p = p0 /\ s = s0
      <4>1. req'[r] = q0
        BY <2>2 DEF SubscriptionsInv, SubscriptionsTypeOK
      <4> QED
        BY <4>1 DEF Creating
    <3>5. Creating(r, p, s)' => \A x \in Requests \ {r} : ~Creating(x, p, s)
      BY <3>4, <2>1
    <3>6. /\ \A x, y \in Requests : Creating(x, p, s) /\ Creating(y, p, s) => x = y
          /\ \A x \in Requests : Creating(x, p, s) => Matching(p, s) = {}
          /\ \A c, e \in Matching(p, s) : c = e
      BY <3>1 DEF SubscriptionsInv, CreatesAlone
    <3>7. \A x, y \in Requests : Creating(x, p, s)' /\ Creating(y, p, s)' => x = y
      BY <3>3, <3>5, <3>6
    <3>8. \A x \in Requests : Creating(x, p, s)' => Matching(p, s)' = {}
      BY <3>2, <3>3, <3>4, <3>6, <1>2
    <3> QED
      BY <3>2, <3>6, <3>7, <3>8
  <2>6. EventsChanged'
    BY <2>1, RequestEvents DEF SubscriptionsInv
  <2> QED
    BY <2>4, <2>5, <2>6 DEF SubscriptionsInv
<1> QED
  BY <1>1, <1>2

LEMMA CreateKeeps ==
    ASSUME SubscriptionsInv, NEW r \in Requests, CreateSubscriber(r)
    PROVE  SubscriptionsInv'
<1> DEFINE p0 == req[r].policy
           s0 == req[r].subscriber
<1>1. req[r] \in Request /\ req[r].pc = "create" /\ Answer(r)
  BY DEF SubscriptionsInv, SubscriptionsTypeOK, CreateSubscriber
<1>2. p0 \in Policies /\ s0 \in Subscribers /\ Creating(r, p0, s0)
  BY <1>1 DEF Request, Creating
<1>3. PICK id \in Ids : records' = records \cup {[id |-> id, policy |-> p0, subscriber |-> s0]}
  BY DEF CreateSubscriber
<1> DEFINE new == [id |-> id, policy |-> p0, subscriber |-> s0]
<1>4. req' = [req EXCEPT ![r] = ReqIdle] /\ ReqIdle \in Request
  BY <1>1, IdleTypes DEF Answer
<1>5. SubscriptionsTypeOK'
  <2>1. records' \subseteq Record
    BY <1>2, <1>3 DEF Record, SubscriptionsInv, SubscriptionsTypeOK
  <2>2. req' \in [Requests -> Request]
    BY <1>4 DEF SubscriptionsInv, SubscriptionsTypeOK
  <2> QED
    BY <2>1, <2>2
    DEF SubscriptionsInv, SubscriptionsTypeOK, CreateSubscriber, historyVars
<1>6. CreatesAlone'
  <2> SUFFICES ASSUME NEW p \in Policies, NEW s \in Subscribers, <<p, s>> \notin raced'
               PROVE  /\ \A x, y \in Requests :
                           Creating(x, p, s)' /\ Creating(y, p, s)' => x = y
                      /\ \A x \in Requests : Creating(x, p, s)' => Matching(p, s)' = {}
                      /\ \A c, e \in Matching(p, s)' : c = e
    BY DEF CreatesAlone
  <2>1. <<p, s>> \notin raced
    BY DEF CreateSubscriber, historyVars
  <2>2. \A x \in Requests : Creating(x, p, s)' => x # r /\ Creating(x, p, s)
    <3>1. req'[r] = ReqIdle /\ ReqIdle.pc = "idle"
      BY <1>4 DEF ReqIdle, SubscriptionsInv, SubscriptionsTypeOK
    <3>2. \A x \in Requests \ {r} : req'[x] = req[x]
      BY <1>4 DEF SubscriptionsInv, SubscriptionsTypeOK
    <3> QED
      BY <3>1, <3>2 DEF Creating
  <2>3. /\ \A x, y \in Requests : Creating(x, p, s) /\ Creating(y, p, s) => x = y
        /\ \A x \in Requests : Creating(x, p, s) => Matching(p, s) = {}
        /\ \A c, e \in Matching(p, s) : c = e
    BY <2>1 DEF SubscriptionsInv, CreatesAlone
  <2>4. new.policy = p0 /\ new.subscriber = s0
    OBVIOUS
  <2>5. CASE p = p0 /\ s = s0
    <3> HIDE DEF new
    <3>1. \A x \in Requests : ~Creating(x, p, s)'
      BY <1>2, <2>2, <2>3, <2>5
    <3>2. Matching(p, s) = {}
      BY <1>2, <2>3, <2>5
    <3>3. Matching(p, s)' \subseteq {new}
      <4>1. records' = records \cup {new}
        BY <1>3 DEF new
      <4> QED
        BY <3>2, <4>1 DEF Matching
    <3> QED
      BY <3>1, <3>3
  <2>6. CASE ~(p = p0 /\ s = s0)
    <3> HIDE DEF new
    <3>1. Matching(p, s)' = Matching(p, s)
      <4>1. records' = records \cup {new}
        BY <1>3 DEF new
      <4> QED
        BY <2>4, <2>6, <4>1 DEF Matching
    <3> QED
      BY <2>2, <2>3, <3>1
  <2> QED
    BY <2>5, <2>6
<1>7. EventsChanged'
  BY RequestEvents DEF SubscriptionsInv, CreateSubscriber, historyVars
<1> QED
  BY <1>5, <1>6, <1>7 DEF SubscriptionsInv

(* Changes, the listener and the notifier: the requests are left alone.    *)

LEMMA ChangeKeeps ==
    ASSUME SubscriptionsInv, NEW p \in Policies, Change(p)
    PROVE  SubscriptionsInv'
<1>1. SubscriptionsTypeOK'
  <2>1. stream' \in [Instances -> Seq(Policies)]
        /\ (\A i \in Instances : ~listening'[i] => stream'[i] = <<>>)
    BY DEF Change, SubscriptionsInv, SubscriptionsTypeOK
  <2>2. owed' \subseteq Instances \X Record
    BY DEF Change, SubscriptionsInv, SubscriptionsTypeOK
  <2> QED
    BY <2>1, <2>2 DEF Change, SubscriptionsInv, SubscriptionsTypeOK
<1>2. CreatesAlone'
  BY OthersCreate DEF Change, SubscriptionsInv
<1>3. EventsChanged'
  <2>1. \A i \in Instances : \A n \in 1..Len(stream'[i]) : stream'[i][n] \in changed'
    <3> SUFFICES ASSUME NEW i \in Instances, NEW n \in 1..Len(stream'[i])
                 PROVE  stream'[i][n] \in changed \cup {p}
      BY DEF Change
    <3>1. stream[i] \in Seq(Policies)
      BY DEF SubscriptionsInv, SubscriptionsTypeOK
    <3>2. \A m \in 1..Len(stream[i]) : stream[i][m] \in changed
      BY DEF SubscriptionsInv, EventsChanged
    <3>3. stream'[i] = IF listening[i] THEN Append(stream[i], p) ELSE stream[i]
      BY DEF Change
    <3>4. CASE stream'[i] = stream[i]
      BY <3>2, <3>4
    <3>5. CASE stream'[i] = Append(stream[i], p)
      BY <3>1, <3>2, <3>5
    <3> QED
      BY <3>3, <3>4, <3>5
  <2>2. \A w \in Workers : worker'[w].pc # "idle" => worker'[w].event \in changed'
    BY DEF Change, SubscriptionsInv, EventsChanged
  <2> QED
    BY <2>1, <2>2 DEF EventsChanged
<1> QED
  BY <1>1, <1>2, <1>3 DEF SubscriptionsInv

LEMMA OpenKeeps ==
    ASSUME SubscriptionsInv, NEW i \in Instances, OpenStream(i)
    PROVE  SubscriptionsInv'
<1>1. SubscriptionsTypeOK'
  BY DEF OpenStream, SubscriptionsInv, SubscriptionsTypeOK, historyVars
<1>2. CreatesAlone'
  BY OthersCreate DEF OpenStream, SubscriptionsInv, historyVars
<1>3. EventsChanged'
  BY RequestEvents DEF OpenStream, SubscriptionsInv, historyVars
<1> QED
  BY <1>1, <1>2, <1>3 DEF SubscriptionsInv

LEMMA DeliverKeeps ==
    ASSUME SubscriptionsInv, NEW i \in Instances, Deliver(i)
    PROVE  SubscriptionsInv'
<1> DEFINE p == Head(stream[i])
<1>1. stream[i] \in Seq(Policies) /\ stream[i] # <<>>
  BY DEF Deliver, SubscriptionsInv, SubscriptionsTypeOK
<1>2. p \in Policies /\ p \in changed /\ Tail(stream[i]) \in Seq(Policies)
  BY <1>1, HeadAndTail DEF SubscriptionsInv, EventsChanged
<1>3. PICK w \in Workers :
        worker' = [worker EXCEPT ![w] = [pc |-> "read", inst |-> i, event |-> p, todo |-> {}]]
  BY <1>2, EventIsPolicy DEF Deliver, PolicyDataChange
<1>4. stream' = [stream EXCEPT ![i] = Tail(stream[i])]
  BY DEF Deliver
<1> HIDE DEF p
<1>5. SubscriptionsTypeOK'
  <2>1. worker' \in [Workers -> Worker]
    BY <1>2, <1>3 DEF Worker, SubscriptionsInv, SubscriptionsTypeOK
  <2>2. stream' \in [Instances -> Seq(Policies)]
    BY <1>2, <1>4 DEF SubscriptionsInv, SubscriptionsTypeOK
  <2>3. \A j \in Instances : ~listening'[j] => stream'[j] = <<>>
    BY <1>1, <1>4 DEF Deliver, SubscriptionsInv, SubscriptionsTypeOK
  <2> QED
    BY <2>1, <2>2, <2>3 DEF Deliver, SubscriptionsInv, SubscriptionsTypeOK, historyVars
<1>6. CreatesAlone'
  BY OthersCreate DEF Deliver, SubscriptionsInv, historyVars
<1>7. EventsChanged'
  <2>0. changed' = changed
    BY DEF Deliver, historyVars
  <2>1. ASSUME NEW j \in Instances, NEW n \in 1..Len(stream'[j])
        PROVE  stream'[j][n] \in changed
    <3>1. CASE j = i
      <4>1. stream'[j] = Tail(stream[i])
        BY <1>4, <3>1 DEF SubscriptionsInv, SubscriptionsTypeOK
      <4>2. n + 1 \in 1..Len(stream[i]) /\ stream'[j][n] = stream[i][n + 1]
        BY <4>1, <1>1, HeadAndTail
      <4> QED
        BY <4>2 DEF SubscriptionsInv, EventsChanged
    <3>2. CASE j # i
      <4>1. stream'[j] = stream[j]
        BY <1>4, <3>2 DEF SubscriptionsInv, SubscriptionsTypeOK
      <4> QED
        BY <4>1 DEF SubscriptionsInv, EventsChanged
    <3> QED
      BY <3>1, <3>2
  <2>2. ASSUME NEW v \in Workers, worker'[v].pc # "idle"
        PROVE  worker'[v].event \in changed
    <3>1. CASE v = w
      BY <1>2, <1>3, <3>1 DEF SubscriptionsInv, SubscriptionsTypeOK
    <3>2. CASE v # w
      <4>1. worker'[v] = worker[v]
        BY <1>3, <3>2 DEF SubscriptionsInv, SubscriptionsTypeOK
      <4> QED
        BY <4>1, <2>2 DEF SubscriptionsInv, EventsChanged
    <3> QED
      BY <3>1, <3>2
  <2> QED
    BY <2>0, <2>1, <2>2 DEF EventsChanged
<1> QED
  BY <1>5, <1>6, <1>7 DEF SubscriptionsInv

LEMMA StopKeeps ==
    ASSUME SubscriptionsInv, NEW i \in Instances, Stop(i)
    PROVE  SubscriptionsInv'
<1>1. SubscriptionsTypeOK'
  BY IdleTypes DEF Stop, SubscriptionsInv, SubscriptionsTypeOK
<1>2. CreatesAlone'
  BY OthersCreate DEF Stop, SubscriptionsInv
<1>3. EventsChanged'
  <2>1. \A j \in Instances : stream'[j] = stream[j] \/ stream'[j] = <<>>
    BY DEF Stop, SubscriptionsInv, SubscriptionsTypeOK
  <2>2. \A w \in Workers : worker'[w] = worker[w] \/ worker'[w] = WorkerIdle
    BY DEF Stop
  <2>3. WorkerIdle.pc = "idle" /\ changed' = changed
    BY DEF Stop, WorkerIdle
  <2> QED
    BY <2>1, <2>2, <2>3 DEF SubscriptionsInv, EventsChanged
<1> QED
  BY <1>1, <1>2, <1>3 DEF SubscriptionsInv

\* A goroutine keeps its event or ends.
LEMMA WorkerKeeps ==
    ASSUME SubscriptionsInv, NEW w \in Workers, NEW v \in Worker,
           worker' = [worker EXCEPT ![w] = v],
           v.pc = "idle" \/ (worker[w].pc # "idle" /\ v.event = worker[w].event),
           UNCHANGED <<stored, records, req, listening, stream, faulty, raced, changed>>,
           owed' \subseteq owed
    PROVE  SubscriptionsInv'
<1>1. SubscriptionsTypeOK'
  BY DEF SubscriptionsInv, SubscriptionsTypeOK
<1>2. CreatesAlone'
  BY OthersCreate DEF SubscriptionsInv
<1>3. EventsChanged'
  <2>1. worker'[w] = v /\ \A u \in Workers \ {w} : worker'[u] = worker[u]
    BY DEF SubscriptionsInv, SubscriptionsTypeOK
  <2> QED
    BY <2>1 DEF SubscriptionsInv, EventsChanged
<1> QED
  BY <1>1, <1>2, <1>3 DEF SubscriptionsInv

LEMMA NotifyKeeps ==
    ASSUME SubscriptionsInv, NEW w \in Workers, Notify(w) \/ ReadFails(w)
    PROVE  SubscriptionsInv'
<1>1. worker[w] \in Worker /\ worker[w].todo \subseteq Record
  BY DEF SubscriptionsInv, SubscriptionsTypeOK, Worker
<1>2. CASE PolicySubscribers(w)
  <2> DEFINE v == [worker[w] EXCEPT !.pc = "call",
                     !.todo = {c \in records : c.policy = worker[w].event}]
  <2>1. v \in Worker /\ v.event = worker[w].event /\ worker[w].pc # "idle"
    BY <1>1, <1>2 DEF Worker, PolicySubscribers, SubscriptionsInv, SubscriptionsTypeOK
  <2>2. worker' = [worker EXCEPT ![w] = v]
    BY <1>2 DEF PolicySubscribers
  <2> HIDE DEF v
  <2> QED
    BY <1>2, <2>1, <2>2, WorkerKeeps DEF PolicySubscribers, historyVars
<1>3. CASE EndNotify(w)
  BY <1>3, IdleTypes, WorkerKeeps DEF EndNotify, historyVars, WorkerIdle
<1>4. ASSUME NEW c \in worker[w].todo, NotifySubscriber(w, c)
      PROVE  SubscriptionsInv'
  <2> DEFINE v == [worker[w] EXCEPT !.todo = @ \ {c}]
  <2>1. v \in Worker /\ v.event = worker[w].event /\ worker[w].pc # "idle"
    BY <1>1, <1>4 DEF Worker, NotifySubscriber
  <2>2. worker' = [worker EXCEPT ![w] = v]
    BY <1>4 DEF NotifySubscriber
  <2> HIDE DEF v
  <2> QED
    BY <1>4, <2>1, <2>2, WorkerKeeps DEF NotifySubscriber
<1>5. CASE ReadFails(w)
  <2>1. WorkerIdle.pc = "idle"
    BY DEF WorkerIdle
  <2> QED
    BY <1>5, <2>1, IdleTypes, WorkerKeeps DEF ReadFails
<1> QED
  BY <1>2, <1>3, <1>4, <1>5 DEF Notify

LEMMA Steps == SubscriptionsInv /\ [Next]_vars => SubscriptionsInv'
<1> SUFFICES ASSUME SubscriptionsInv, [Next]_vars PROVE SubscriptionsInv'
  OBVIOUS
<1>1. ASSUME NEW r \in Requests, RequestFails(r) PROVE SubscriptionsInv'
  BY <1>1, AnswerKeeps DEF RequestFails
<1>2. ASSUME NEW r \in Requests, Handle(r) PROVE SubscriptionsInv'
  BY <1>2, CheckPolicyKeeps, LookupKeeps, CreateKeeps DEF Handle
<1>3. ASSUME FaultsCease \/ UNCHANGED vars PROVE SubscriptionsInv'
  <2>1. UNCHANGED <<stored, records, req, listening, stream, worker, raced, changed, owed>>
        /\ faulty' \in BOOLEAN
    BY <1>3 DEF FaultsCease, vars, historyVars, SubscriptionsInv, SubscriptionsTypeOK
  <2>2. SubscriptionsTypeOK'
    BY <2>1 DEF SubscriptionsInv, SubscriptionsTypeOK
  <2>3. CreatesAlone' /\ EventsChanged'
    BY <2>1, OthersCreate, RequestEvents DEF SubscriptionsInv
  <2> QED
    BY <2>2, <2>3 DEF SubscriptionsInv
<1> QED
  BY <1>1, <1>2, <1>3, SubscribeKeeps, ChangeKeeps, OpenKeeps, DeliverKeeps, StopKeeps,
     NotifyKeeps DEF Next

(* What follows for every behaviour.                                       *)

\* Whatever the requests, the listeners and the goroutines do, in whatever order and
\* with whatever faults: types, what an unraced subscription relies on, and events
\* that are changes.
THEOREM SubscriptionsInvariance == SubscriptionsSafety => []SubscriptionsInv
<1>1. Init => SubscriptionsInv
  BY Starts
<1>2. SubscriptionsInv /\ [Next]_vars => SubscriptionsInv'
  BY Steps
<1> QED
  BY <1>1, <1>2, PTL DEF SubscriptionsSafety

\* Requests, streams and goroutines keep their types; a closed stream is empty.
THEOREM SubscriptionsTypeCorrect == SubscriptionsSafety => []SubscriptionsTypeOK
<1>1. SubscriptionsInv => SubscriptionsTypeOK
  BY DEF SubscriptionsInv
<1> QED
  BY <1>1, SubscriptionsInvariance, PTL

\* A second record of a subscription comes from two requests that looked it up
\* before either had created it, and from nothing else.
THEOREM DuplicatesAreRaced == SubscriptionsSafety => []DuplicatesRaced
<1>1. SubscriptionsInv => DuplicatesRaced
  <2> SUFFICES ASSUME SubscriptionsInv, NEW p \in Policies, NEW s \in Subscribers,
                      <<p, s>> \notin raced
               PROVE  ~(Cardinality(Matching(p, s)) > 1)
    BY DEF DuplicatesRaced
  <2>1. \A c, e \in Matching(p, s) : c = e
    BY DEF SubscriptionsInv, CreatesAlone
  <2>2. CASE Matching(p, s) = {}
    BY <2>2, FS_EmptySet
  <2>3. CASE Matching(p, s) # {}
    <3>1. PICK c : Matching(p, s) = {c}
      BY <2>1, <2>3
    <3>2. Cardinality({c}) = 1
      BY FS_Singleton, Zenon
    <3> QED
      BY <3>1, <3>2
  <2> QED
    BY <2>2, <2>3
<1> QED
  BY <1>1, SubscriptionsInvariance, PTL

\* A webhook is called only for a policy that has changed: between the listener,
\* PolicyDataChange and PolicySubscribers group and name never change places.
THEOREM OnlyChangesAreTold == SubscriptionsSafety => ToldOfChanges
<1>1. SubscriptionsInv /\ [Next]_vars
        => [\A w \in Workers, c \in Record :
              NotifySubscriber(w, c) => worker[w].event \in changed]_vars
  BY DEF SubscriptionsInv, EventsChanged, NotifySubscriber
<1> QED
  BY <1>1, SubscriptionsInvariance, PTL DEF SubscriptionsSafety, ToldOfChanges
-----------------------------------------------------------------------------
(* What is owed is under way.                                              *)

\* The event of c is unread in the stream of process i, or with a goroutine of it.
UnderWay(i, c) ==
    \/ \E n \in 1..Len(stream[i]) : stream[i][n] = c.policy
    \/ \E w \in Workers : WillCall(w, i, c)

LEMMA OwedIs ==
    OwedUnderWay <=> \A i \in Instances, c \in Record :
                        <<i, c>> \in owed => c \in records /\ UnderWay(i, c)
  BY DEF OwedUnderWay, UnderWay

\* A step after which what is still owed is still under way.
LEMMA OwedKept ==
    ASSUME OwedUnderWay, owed' \subseteq owed, records \subseteq records',
           \A i \in Instances, c \in records :
              <<i, c>> \in owed' /\ UnderWay(i, c) => UnderWay(i, c)'
    PROVE  OwedUnderWay'
<1> SUFFICES ASSUME NEW i \in Instances, NEW c \in Record, <<i, c>> \in owed'
             PROVE  c \in records' /\ UnderWay(i, c)'
  BY DEF OwedUnderWay, UnderWay
<1>1. c \in records /\ UnderWay(i, c)
  BY OwedIs
<1> QED
  BY <1>1

\* Streams and goroutines left alone keep everything under way.
LEMMA OwedUntouched ==
    ASSUME OwedUnderWay, UNCHANGED <<stream, worker, owed>>, records \subseteq records'
    PROVE  OwedUnderWay'
<1>1. \A i, c : UnderWay(i, c)' <=> UnderWay(i, c)
  BY DEF UnderWay, WillCall
<1> QED
  BY <1>1, OwedKept

\* A write adds its event to the streams of those that owe it.
LEMMA OwedChange ==
    ASSUME SubscriptionsInv, OwedUnderWay, NEW p \in Policies, Change(p)
    PROVE  OwedUnderWay'
<1> SUFFICES ASSUME NEW i \in Instances, NEW c \in Record, <<i, c>> \in owed'
             PROVE  c \in records' /\ UnderWay(i, c)'
  BY DEF OwedUnderWay, UnderWay
<1>1. /\ stream[i] \in Seq(Policies) /\ records' = records /\ worker' = worker
      /\ stream'[i] = IF listening[i] THEN Append(stream[i], p) ELSE stream[i]
  BY DEF Change, SubscriptionsInv, SubscriptionsTypeOK
<1>2. CASE <<i, c>> \in owed
  <2>1. c \in records /\ UnderWay(i, c)
    BY <1>2, OwedIs
  <2>2. ASSUME NEW w \in Workers, WillCall(w, i, c) PROVE UnderWay(i, c)'
    BY <1>1, <2>2 DEF UnderWay, WillCall
  <2>3. ASSUME NEW n \in 1..Len(stream[i]), stream[i][n] = c.policy
        PROVE  UnderWay(i, c)'
    <3>1. n \in 1..Len(stream'[i]) /\ stream'[i][n] = stream[i][n]
      <4>1. CASE stream'[i] = stream[i]
        BY <4>1
      <4>2. CASE stream'[i] = Append(stream[i], p)
        BY <1>1, <4>2
      <4> QED
        BY <1>1, <4>1, <4>2
    <3> QED
      BY <2>3, <3>1 DEF UnderWay
  <2> QED
    BY <1>1, <2>1, <2>2, <2>3 DEF UnderWay
<1>3. CASE <<i, c>> \notin owed
  <2>1. listening[i] /\ c \in records /\ c.policy = p
    BY <1>3 DEF Change
  <2>2. /\ stream'[i] = Append(stream[i], p)
        /\ Len(stream[i]) + 1 \in 1..Len(stream'[i])
        /\ stream'[i][Len(stream[i]) + 1] = p
    BY <1>1, <2>1
  <2> QED
    BY <1>1, <2>1, <2>2 DEF UnderWay
<1> QED
  BY <1>2, <1>3

\* The listener hands an event from its stream to a free goroutine.
LEMMA OwedDeliver ==
    ASSUME SubscriptionsInv, OwedUnderWay, NEW j \in Instances, Deliver(j)
    PROVE  OwedUnderWay'
<1> DEFINE p == Head(stream[j])
<1>1. /\ stream[j] \in Seq(Policies) /\ stream[j] # <<>> /\ p \in Policies
      /\ stream' = [stream EXCEPT ![j] = Tail(stream[j])]
      /\ owed' = owed /\ records' = records
      /\ stream \in [Instances -> Seq(Policies)] /\ worker \in [Workers -> Worker]
  BY HeadAndTail DEF Deliver, historyVars, SubscriptionsInv, SubscriptionsTypeOK
<1>2. PICK w \in Workers :
        /\ worker[w].pc = "idle"
        /\ worker' = [worker EXCEPT ![w] = [pc |-> "read", inst |-> j, event |-> p, todo |-> {}]]
  BY <1>1, EventIsPolicy DEF Deliver, PolicyDataChange
<1>3. /\ worker'[w].pc = "read" /\ worker'[w].inst = j /\ worker'[w].event = p
      /\ \A v \in Workers \ {w} : worker'[v] = worker[v]
  BY <1>1, <1>2
<1>4. ASSUME NEW i \in Instances, NEW c \in records, UnderWay(i, c)
      PROVE  UnderWay(i, c)'
  <2>1. ASSUME NEW v \in Workers, WillCall(v, i, c) PROVE UnderWay(i, c)'
    <3>1. v # w
      BY <1>2, <2>1 DEF WillCall
    <3> QED
      BY <1>3, <2>1, <3>1 DEF UnderWay, WillCall
  <2>2. ASSUME NEW n \in 1..Len(stream[i]), stream[i][n] = c.policy
        PROVE  UnderWay(i, c)'
    <3>1. CASE i # j
      <4>1. stream'[i] = stream[i]
        BY <1>1, <3>1
      <4> QED
        BY <2>2, <4>1 DEF UnderWay
    <3>2. CASE i = j /\ n = 1
      <4>1. p = c.policy
        BY <1>1, <2>2, <3>2, HeadAndTail
      <4> QED
        BY <1>3, <3>2, <4>1 DEF UnderWay, WillCall
    <3>3. CASE i = j /\ n # 1
      <4>1. stream'[i] = Tail(stream[j])
        BY <1>1, <3>3
      <4>2. n - 1 \in 1..Len(Tail(stream[j])) /\ Tail(stream[j])[n - 1] = stream[j][n]
        <5>1. stream[j] \in Seq(Policies) /\ stream[j] # <<>> /\ n \in 1..Len(stream[j]) /\ n # 1
          BY <1>1, <3>3
        <5> QED
          BY <5>1
      <4> QED
        BY <2>2, <3>3, <4>1, <4>2 DEF UnderWay
    <3> QED
      BY <3>1, <3>2, <3>3
  <2> QED
    BY <1>4, <2>1, <2>2 DEF UnderWay
<1> QED
  BY <1>1, <1>4, OwedKept

\* A process that stops owes nothing, and the others keep what they have.
LEMMA OwedStop ==
    ASSUME SubscriptionsInv, OwedUnderWay, NEW j \in Instances, Stop(j)
    PROVE  OwedUnderWay'
<1>1. ASSUME NEW i \in Instances, NEW c \in records, <<i, c>> \in owed', UnderWay(i, c)
      PROVE  UnderWay(i, c)'
  <2>1. i # j
    BY <1>1 DEF Stop
  <2>2. stream'[i] = stream[i]
    BY <2>1 DEF Stop, SubscriptionsInv, SubscriptionsTypeOK
  <2>3. \A w \in Workers : worker[w].inst = i => worker'[w] = worker[w]
    BY <2>1 DEF Stop
  <2> QED
    BY <1>1, <2>2, <2>3 DEF UnderWay, WillCall
<1>2. owed' \subseteq owed /\ records' = records
  BY DEF Stop
<1> QED
  BY <1>1, <1>2, OwedKept

\* A goroutine that calls whom it said it would, or owes nobody any more.
LEMMA OwedWorker ==
    ASSUME SubscriptionsInv, OwedUnderWay, NEW w \in Workers,
           \A v \in Workers \ {w} : worker'[v] = worker[v],
           UNCHANGED <<stream, records>>, owed' \subseteq owed,
           \A i \in Instances, c \in records :
              <<i, c>> \in owed' /\ WillCall(w, i, c) => WillCall(w, i, c)'
    PROVE  OwedUnderWay'
<1>1. ASSUME NEW i \in Instances, NEW c \in records, <<i, c>> \in owed', UnderWay(i, c)
      PROVE  UnderWay(i, c)'
  <2>1. ASSUME NEW v \in Workers, WillCall(v, i, c) PROVE WillCall(v, i, c)'
    <3>1. CASE v = w
      BY <1>1, <2>1, <3>1
    <3>2. CASE v # w
      BY <2>1, <3>2 DEF WillCall
    <3> QED
      BY <3>1, <3>2
  <2> QED
    BY <1>1, <2>1 DEF UnderWay
<1> QED
  BY <1>1, OwedKept

LEMMA OwedNotify ==
    ASSUME SubscriptionsInv, OwedUnderWay, NEW w \in Workers, Notify(w) \/ ReadFails(w)
    PROVE  OwedUnderWay'
<1>1. worker \in [Workers -> Worker]
  BY DEF SubscriptionsInv, SubscriptionsTypeOK
<1>2. CASE PolicySubscribers(w)
  <2>1. /\ worker'[w].inst = worker[w].inst /\ worker'[w].event = worker[w].event
        /\ worker'[w].pc = "call"
        /\ worker'[w].todo = {c \in records : c.policy = worker[w].event}
        /\ \A v \in Workers \ {w} : worker'[v] = worker[v]
    BY <1>1, <1>2 DEF PolicySubscribers, Worker
  <2>2. ASSUME NEW i \in Instances, NEW c \in records, WillCall(w, i, c)
        PROVE  WillCall(w, i, c)'
    BY <2>1, <2>2 DEF WillCall
  <2>3. UNCHANGED <<stream, records, owed>>
    BY <1>2 DEF PolicySubscribers, historyVars
  <2> QED
    BY <2>1, <2>2, <2>3, OwedWorker
<1>3. CASE EndNotify(w)
  <2>1. /\ UNCHANGED <<stream, records, owed>>
        /\ \A v \in Workers \ {w} : worker'[v] = worker[v]
    BY <1>1, <1>3 DEF EndNotify, historyVars
  <2>2. ASSUME NEW i, NEW c PROVE ~WillCall(w, i, c)
    BY <1>3 DEF EndNotify, WillCall
  <2> QED
    BY <2>1, <2>2, OwedWorker
<1>4. ASSUME NEW e \in worker[w].todo, NotifySubscriber(w, e)
      PROVE  OwedUnderWay'
  <2>1. /\ worker'[w].inst = worker[w].inst /\ worker'[w].event = worker[w].event
        /\ worker'[w].pc = "call" /\ worker[w].pc = "call"
        /\ worker'[w].todo = worker[w].todo \ {e}
        /\ \A v \in Workers \ {w} : worker'[v] = worker[v]
    BY <1>1, <1>4 DEF NotifySubscriber, Worker
  <2>2. /\ owed' = owed \ {<<worker[w].inst, e>>}
        /\ UNCHANGED <<stream, records>>
    BY <1>4 DEF NotifySubscriber
  <2>3. ASSUME NEW i \in Instances, NEW c \in records, <<i, c>> \in owed', WillCall(w, i, c)
        PROVE  WillCall(w, i, c)'
    <3>1. worker[w].inst = i /\ c # e
      BY <2>2, <2>3 DEF WillCall
    <3> QED
      BY <2>1, <2>3, <3>1 DEF WillCall
  <2> QED
    BY <2>1, <2>2, <2>3, OwedWorker
<1>5. CASE ReadFails(w)
  <2>1. /\ \A v \in Workers \ {w} : worker'[v] = worker[v]
        /\ UNCHANGED <<stream, records>> /\ owed' \subseteq owed
    BY <1>1, <1>5 DEF ReadFails
  <2>2. ASSUME NEW i \in Instances, NEW c \in records, <<i, c>> \in owed', WillCall(w, i, c)
        PROVE  FALSE
    <3>1. i # worker[w].inst \/ c.policy # worker[w].event
      BY <1>5, <2>2 DEF ReadFails
    <3> QED
      BY <2>2, <3>1 DEF WillCall
  <2> QED
    BY <2>1, <2>2, OwedWorker
<1> QED
  BY <1>2, <1>3, <1>4, <1>5 DEF Notify

LEMMA OwedSteps == SubscriptionsInv /\ OwedUnderWay /\ [Next]_vars => OwedUnderWay'
<1> SUFFICES ASSUME SubscriptionsInv, OwedUnderWay, [Next]_vars PROVE OwedUnderWay'
  OBVIOUS
<1>1. ASSUME NEW r \in Requests, Handle(r) \/ RequestFails(r) PROVE OwedUnderWay'
  <2>1. UNCHANGED <<stream, worker, owed>> /\ records \subseteq records'
    BY <1>1 DEF Handle, CheckPolicy, Lookup, CreateSubscriber, RequestFails, historyVars
  <2> QED
    BY <2>1, OwedUntouched
<1>2. ASSUME NEW r \in Requests, NEW p \in Policies, NEW s \in Subscribers,
             Subscribe(r, p, s)
      PROVE  OwedUnderWay'
  BY <1>2, OwedUntouched DEF Subscribe, historyVars
<1>3. ASSUME NEW i \in Instances, OpenStream(i) PROVE OwedUnderWay'
  BY <1>3, OwedUntouched DEF OpenStream, historyVars
<1>4. CASE FaultsCease
  BY <1>4, OwedUntouched DEF FaultsCease, historyVars
<1>5. CASE UNCHANGED vars
  BY <1>5, OwedUntouched DEF vars
<1> QED
  BY <1>1, <1>2, <1>3, <1>4, <1>5, OwedChange, OwedDeliver, OwedStop, OwedNotify DEF Next

\* A change that a webhook has yet to be told of is in the stream of the process or
\* with one of its goroutines: it is lost only with the process or with a read of the
\* collection that fails.
THEOREM OwedIsUnderWay == SubscriptionsSafety => []OwedUnderWay
<1>1. Init => OwedUnderWay
  BY DEF Init, OwedUnderWay
<1>2. SubscriptionsInv /\ OwedUnderWay /\ [Next]_vars => OwedUnderWay'
  BY OwedSteps
<1> QED
  BY <1>1, <1>2, SubscriptionsInvariance, PTL DEF SubscriptionsSafety
=============================================================================
