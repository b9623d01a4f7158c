--------------------------- MODULE Subscriptions ---------------------------
(***************************************************************************)
(* Subscriptions to policy changes: SubscribeForPolicyChange               *)
(* (internal/service/policy/service.go), the subscriber collection and the *)
(* change stream listener (internal/storage/mongodb/storage.go), and the   *)
(* notifier (internal/notify/notify.go), which sends an event to the       *)
(* broker and calls the webhooks from a goroutine of its own.              *)
(*                                                                         *)
(* A policy is its group and its name: the two arguments the listener and  *)
(* the notifier pass by position.  A subscriber is a webhook with a name.  *)
(***************************************************************************)
EXTENDS Naturals, Sequences, FiniteSets

CONSTANTS
    Policies,       \* records of a group and a name
    Subscribers,    \* webhook URL and subscriber name
    Instances,      \* running processes of the policy service
    Requests,       \* slots for subscribe requests
    Workers,        \* bound: goroutines of the notifier at once
    Ids,            \* bound: records in the subscriber collection
    MaxBacklog,     \* bound: no new changes beyond so many unread events
    None            \* no event

ASSUME SubscriptionsAssumption ==
    /\ Policies # {} /\ Subscribers # {} /\ Instances # {}
    /\ \A p \in Policies : p = [group |-> p.group, name |-> p.name]
    /\ MaxBacklog \in Nat \ {0}

Record == [id : Ids, policy : Policies, subscriber : Subscribers]

(***************************************************************************)
(* worker[w] is a goroutine of notifySubscribers: the process it runs in,  *)
(* its event, whether it has read the collection and whom it has still to  *)
(* call.  History: raced are the subscriptions two requests created at the *)
(* same time, changed the policies that ever changed, owed the records     *)
(* that existed when a change reached the stream of a process which has    *)
(* not called them since.                                                  *)
(***************************************************************************)
VARIABLES
    stored,     \* the policies the collection has
    records,    \* the subscriber collection
    req,        \* the subscribe requests
    listening,  \* the change stream of a process is open
    stream,     \* its unread events
    worker,     \* the notifier's goroutines
    faulty,     \* faults may still occur
    raced, changed, owed

serviceVars == <<stored, records, req, listening, stream, worker, faulty>>
historyVars == <<raced, changed, owed>>
vars == <<stored, records, req, listening, stream, worker, faulty, raced, changed, owed>>

Request == [pc : {"idle", "policy", "lookup", "create"},
            policy : Policies, subscriber : Subscribers]

Worker == [pc : {"idle", "read", "call"}, inst : Instances,
           event : Policies \cup {None}, todo : SUBSET Record]

AnyPolicy == CHOOSE p \in Policies : TRUE
AnySubscriber == CHOOSE s \in Subscribers : TRUE

ReqIdle == [pc |-> "idle", policy |-> AnyPolicy, subscriber |-> AnySubscriber]

WorkerIdle == [pc |-> "idle", inst |-> CHOOSE i \in Instances : TRUE, event |-> None,
               todo |-> {}]

SubscriptionsTypeOK ==
    /\ stored \subseteq Policies
    /\ records \subseteq Record
    /\ req \in [Requests -> Request]
    /\ listening \in [Instances -> BOOLEAN]
    /\ stream \in [Instances -> Seq(Policies)]
    /\ \A i \in Instances : ~listening[i] => stream[i] = <<>>
    /\ worker \in [Workers -> Worker]
    /\ faulty \in BOOLEAN
    /\ changed \subseteq Policies
    /\ raced \subseteq Policies \X Subscribers
    /\ owed \subseteq Instances \X Record

Init ==
    /\ stored \in SUBSET Policies
    /\ records = {}
    /\ req = [r \in Requests |-> ReqIdle]
    /\ listening = [i \in Instances |-> FALSE]
    /\ stream = [i \in Instances |-> <<>>]
    /\ worker = [w \in Workers |-> WorkerIdle]
    /\ faulty = TRUE
    /\ raced = {} /\ changed = {} /\ owed = {}
-----------------------------------------------------------------------------
(* SubscribeForPolicyChange.                                               *)

Goto(r, step) == req' = [req EXCEPT ![r].pc = step]

Answer(r) == req' = [req EXCEPT ![r] = ReqIdle]

Matching(p, s) == {c \in records : c.policy = p /\ c.subscriber = s}

\* r is about to create the record of subscriber s for p.
Creating(r, p, s) == req[r] = [pc |-> "create", policy |-> p, subscriber |-> s]

Subscribe(r, p, s) ==
    /\ req[r].pc = "idle"
    /\ req' = [req EXCEPT ![r] = [pc |-> "policy", policy |-> p, subscriber |-> s]]
    /\ UNCHANGED <<stored, records, listening, stream, worker, faulty, historyVars>>

CheckPolicy(r) ==
    /\ req[r].pc = "policy"
    /\ IF req[r].policy \in stored THEN Goto(r, "lookup") ELSE Answer(r)
    /\ UNCHANGED <<stored, records, listening, stream, worker, faulty, historyVars>>

\* Mutant: an existing subscriber is not refused.
LookupAccepts(r) ==
    /\ req[r].pc = "lookup"
    /\ Goto(r, "create")
    /\ UNCHANGED <<stored, records, listening, stream, worker, faulty, historyVars>>

\* Another request about to create the same subscriber makes this a race.
Lookup(r) ==
    LET p == req[r].policy
        s == req[r].subscriber
    IN  /\ req[r].pc = "lookup"
        /\ \/ /\ Matching(p, s) # {}
              /\ Answer(r)
              /\ UNCHANGED raced
           \/ /\ Matching(p, s) = {}
              /\ Goto(r, "create")
              /\ raced' = IF \E q \in Requests \ {r} :
                               Creating(q, p, s)
                          THEN raced \cup {<<p, s>>} ELSE raced
        /\ UNCHANGED <<stored, records, listening, stream, worker, faulty, changed, owed>>

CreateSubscriber(r) ==
    /\ req[r].pc = "create"
    /\ \E id \in Ids \ {c.id : c \in records} :
         records' = records \cup {[id |-> id, policy |-> req[r].policy,
                                   subscriber |-> req[r].subscriber]}
    /\ Answer(r)
    /\ UNCHANGED <<stored, listening, stream, worker, faulty, historyVars>>

RequestFails(r) ==
    /\ faulty
    /\ req[r].pc # "idle"
    /\ Answer(r)
    /\ UNCHANGED <<stored, records, listening, stream, worker, faulty, historyVars>>
-----------------------------------------------------------------------------
(* Changes of policies and the listener.                                   *)

\* A write by anybody is an event in every open stream.
Change(p) ==
    /\ \A i \in Instances : Len(stream[i]) < MaxBacklog
    /\ stored' = stored \cup {p}
    /\ stream' = [i \in Instances |-> IF listening[i] THEN Append(stream[i], p)
                                                      ELSE stream[i]]
    /\ changed' = changed \cup {p}
    /\ owed' = owed \cup {<<i, c>> : i \in {j \in Instances : listening[j]},
                                     c \in {e \in records : e.policy = p}}
    /\ UNCHANGED <<records, req, listening, worker, faulty, raced>>

OpenStream(i) ==
    /\ ~listening[i]
    /\ listening' = [listening EXCEPT ![i] = TRUE]
    /\ UNCHANGED <<stored, records, req, stream, worker, faulty, historyVars>>

\* EventPolicyChange as PolicyDataChange builds it from its arguments.
Event(name, group) == [name |-> name, group |-> group]

\* The notifier starts a goroutine and sends the event to the broker; whether the
\* broker takes it makes no difference, the listener logs the error and reads on.
PolicyDataChange(i, name, group) ==
    \E w \in Workers :
        /\ worker[w].pc = "idle"
        /\ worker' = [worker EXCEPT ![w] = [pc |-> "read", inst |-> i,
                                            event |-> Event(name, group), todo |-> {}]]

\* Mutant: the arguments in the order of the interface PolicySubscriber.
DeliverSwapped(i) ==
    /\ stream[i] # <<>>
    /\ PolicyDataChange(i, Head(stream[i]).group, Head(stream[i]).name)
    /\ stream' = [stream EXCEPT ![i] = Tail(@)]
    /\ UNCHANGED <<stored, records, req, listening, faulty, historyVars>>

Deliver(i) ==
    /\ stream[i] # <<>>
    /\ PolicyDataChange(i, Head(stream[i]).name, Head(stream[i]).group)
    /\ stream' = [stream EXCEPT ![i] = Tail(@)]
    /\ UNCHANGED <<stored, records, req, listening, faulty, historyVars>>

\* Mutant: the successor of a process is given its unread events.
StopKeepsStream(i) ==
    /\ faulty
    /\ listening[i]
    /\ listening' = [listening EXCEPT ![i] = FALSE]
    /\ worker' = [w \in Workers |-> IF worker[w].inst = i THEN WorkerIdle ELSE worker[w]]
    /\ owed' = {o \in owed : o[1] # i}
    /\ UNCHANGED <<stored, records, req, stream, faulty, raced, changed>>

\* The listener fails or the process dies: unread events and goroutines are gone,
\* and a new stream does not start where the old one ended.
Stop(i) ==
    /\ faulty
    /\ listening[i]
    /\ listening' = [listening EXCEPT ![i] = FALSE]
    /\ stream' = [stream EXCEPT ![i] = <<>>]
    /\ worker' = [w \in Workers |-> IF worker[w].inst = i THEN WorkerIdle ELSE worker[w]]
    /\ owed' = {o \in owed : o[1] # i}
    /\ UNCHANGED <<stored, records, req, faulty, raced, changed>>
-----------------------------------------------------------------------------
(* notifySubscribers.                                                      *)

PolicySubscribers(w) ==
    /\ worker[w].pc = "read"
    /\ worker' = [worker EXCEPT ![w].pc = "call",
                                ![w].todo = {c \in records : c.policy = worker[w].event}]
    /\ UNCHANGED <<stored, records, req, listening, stream, faulty, historyVars>>

\* Mutant: the webhook that fails ends the loop.
NotifyFirst(w, c) ==
    /\ worker[w].pc = "call" /\ c \in worker[w].todo
    /\ worker' = [worker EXCEPT ![w].todo = {}]
    /\ owed' = owed \ {<<worker[w].inst, c>>}
    /\ UNCHANGED <<stored, records, req, listening, stream, faulty, raced, changed>>

\* The call of one webhook; one that answers with an error is not called again.
NotifySubscriber(w, c) ==
    /\ worker[w].pc = "call" /\ c \in worker[w].todo
    /\ worker' = [worker EXCEPT ![w].todo = @ \ {c}]
    /\ owed' = owed \ {<<worker[w].inst, c>>}
    /\ UNCHANGED <<stored, records, req, listening, stream, faulty, raced, changed>>

EndNotify(w) ==
    /\ worker[w].pc = "call" /\ worker[w].todo = {}
    /\ worker' = [worker EXCEPT ![w] = WorkerIdle]
    /\ UNCHANGED <<stored, records, req, listening, stream, faulty, historyVars>>

\* The collection cannot be read: nobody is called for this event.
ReadFails(w) ==
    /\ faulty
    /\ worker[w].pc = "read"
    /\ worker' = [worker EXCEPT ![w] = WorkerIdle]
    /\ owed' = {o \in owed : o[1] # worker[w].inst \/ o[2].policy # worker[w].event}
    /\ UNCHANGED <<stored, records, req, listening, stream, faulty, raced, changed>>

FaultsCease ==
    /\ faulty
    /\ faulty' = FALSE
    /\ UNCHANGED <<stored, records, req, listening, stream, worker, historyVars>>
-----------------------------------------------------------------------------
Handle(r) == CheckPolicy(r) \/ Lookup(r) \/ CreateSubscriber(r)

Notify(w) ==
    PolicySubscribers(w) \/ EndNotify(w) \/ \E c \in worker[w].todo : NotifySubscriber(w, c)

Next ==
    \/ \E r \in Requests :
         \/ Handle(r) \/ RequestFails(r)
         \/ \E p \in Policies, s \in Subscribers : Subscribe(r, p, s)
    \/ \E p \in Policies : Change(p)
    \/ \E i \in Instances : OpenStream(i) \/ Deliver(i) \/ Stop(i)
    \/ \E w \in Workers : Notify(w) \/ ReadFails(w)
    \/ FaultsCease

SubscriptionsSafety == Init /\ [][Next]_vars

\* Handlers, listeners and goroutines run, and faults cease.
SubscriptionsSpec ==
    /\ SubscriptionsSafety
    /\ \A r \in Requests : WF_vars(Handle(r))
    /\ \A i \in Instances : WF_vars(OpenStream(i)) /\ WF_vars(Deliver(i))
    /\ \A w \in Workers : WF_vars(Notify(w))
    /\ WF_vars(FaultsCease)
-----------------------------------------------------------------------------
\* A webhook is told only of a policy that has changed: the group and the name are
\* in the same places from the listener over PolicyDataChange to
\* PolicySubscribers, which the interface PolicySubscriber declares the other way
\* round.
ToldOfChanges ==
    [][\A w \in Workers, c \in Record :
         NotifySubscriber(w, c) => worker[w].event \in changed]_vars

\* SubscribeForPolicyChange creates a second record of a subscription only when two
\* requests looked it up before either had created it.
DuplicatesRaced ==
    \A p \in Policies, s \in Subscribers :
        Cardinality(Matching(p, s)) > 1 => <<p, s>> \in raced

\* The goroutine w of process i will call the webhook of c.
WillCall(w, i, c) ==
    /\ worker[w].inst = i /\ worker[w].event = c.policy
    /\ worker[w].pc = "read" \/ (worker[w].pc = "call" /\ c \in worker[w].todo)

\* What ChangesNotified rests on: a webhook that has not been called yet for a change
\* has the event unread in the stream of the process, or with one of the goroutines
\* of PolicyDataChange that has still to read the collection or to call it.  None is
\* forgotten between the listener, the collection and the calls.
OwedUnderWay ==
    \A i \in Instances, c \in Record : <<i, c>> \in owed =>
        /\ c \in records
        /\ \/ \E n \in 1..Len(stream[i]) : stream[i][n] = c.policy
           \/ \E w \in Workers : WillCall(w, i, c)

\* README.md, Web Hooks: "when such change event is triggered, the policy service
\* shall notify the client".  Every process whose stream has the change calls every
\* webhook that was subscribed by then, unless it stops or cannot read the
\* collection, and whatever the broker and the other webhooks do.
ChangesNotified ==
    \A i \in Instances, c \in Record : (<<i, c>> \in owed) ~> (<<i, c>> \notin owed)
=============================================================================
