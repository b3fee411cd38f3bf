----------------------------- MODULE EventBus ------------------------------
(***************************************************************************)
(* InMemoryEventBus: one queue per topic.  publish() appends its message   *)
(* and drains the topic: it takes one message after the other and offers   *)
(* each to the consumers in turn, retrying a consumer that throws up to    *)
(* MaxAttempts times and then publishing a dead letter, which drains the   *)
(* dead-letter topic in turn before the consumer after it is served.       *)
(*                                                                         *)
(* Every task that publishes is a stack of drains, one per nested publish. *)
(* Up to its first await a publish is one synchronous step.  A subscription *)
(* is a consumer function of its own: it is made once and ended once.       *)
(***************************************************************************)
EXTENDS Integers, SequencesExt

CONSTANTS
    Tasks,          \* tasks that publish
    Keys,           \* payloads published from outside the bus
    Consumers,      \* consumer functions
    Topics,         \* topics
    Dlq,            \* the dead-letter topic
    MaxAttempts,    \* retry.maxAttempts
    MaxNest,        \* bound: dead letters of dead letters are published up to
                    \* this depth, below it a consumer stops throwing in time
    None            \* no consumer is being called

ASSUME TopicAssumption == Dlq \in Topics /\ {"new", "gone"} \intersect Topics = {}
ASSUME RetryAssumption == MaxAttempts \in Nat \ {0} /\ MaxNest \in Nat \ {0}
ASSUME ConsumerAssumption == None \notin Consumers

(* A message; `failed` lists the consumers whose failures made it a dead    *)
(* letter, and is empty for a message published from outside.               *)
Msg == [topic : Topics, key : Keys, failed : SeqOf(Consumers, MaxNest)]

(* One running drain: the message it has in hand, the consumers it still    *)
(* has to offer it to, the one it awaits and how often it called it.        *)
Frame == [msg : Msg, left : SUBSET Consumers, at : Consumers \union {None},
          tries : 0..MaxAttempts]

VARIABLES
    queue,      \* per topic: messages nobody has taken yet
    listens,    \* per consumer: its topic, "new" before and "gone" after
    stack,      \* per task: its drains, the innermost last
    published,  \* messages ever published
    owed,       \* <<message, consumer>>: it is to be offered to it
    got         \* <<message, consumer>>: the consumer returned from it

busVars == <<queue, listens, stack, published, owed, got>>

BusTypeOK ==
    /\ queue \in [Topics -> Seq(Msg)]
    /\ listens \in [Consumers -> Topics \union {"new", "gone"}]
    /\ stack \in [Tasks -> Seq(Frame)]
    /\ published \subseteq Msg
    /\ owed \subseteq published \X Consumers
    /\ got \subseteq owed

BusInit ==
    /\ queue = [t \in Topics |-> <<>>]
    /\ listens = [c \in Consumers |-> "new"]
    /\ stack = [p \in Tasks |-> <<>>]
    /\ published = {}
    /\ owed = {}
    /\ got = {}

On(t) == {c \in Consumers : listens[c] = t}

-----------------------------------------------------------------------------

(* The drains that are running, and what each has in hand. *)
Drains == UNION {{<<p, i>> : i \in DOMAIN stack[p]} : p \in Tasks}
Hand(d) == stack[d[1]][d[2]]
DrainsOf(t) == {d \in Drains : Hand(d).msg.topic = t}

(* The consumers of a topic are a live JavaScript Set: an iteration that is *)
(* under way visits one that joins and skips one that leaves.               *)
Rejoin(t, change(_)) ==
    stack' = [p \in Tasks |-> [i \in DOMAIN stack[p] |->
                IF stack[p][i].msg.topic = t
                THEN [stack[p][i] EXCEPT !.left = change(@)]
                ELSE stack[p][i]]]

(* Nothing is drained: what waits in the queue goes on waiting. *)
Subscribe(c, t) ==
    /\ listens[c] = "new"
    /\ listens' = [listens EXCEPT ![c] = t]
    /\ Rejoin(t, LAMBDA left : left \union {c})
    /\ owed' = owed \union {<<Hand(d).msg, c>> : d \in DrainsOf(t)}
    /\ UNCHANGED <<queue, published, got>>

Unsubscribe(c) ==
    /\ listens[c] \in Topics
    /\ listens' = [listens EXCEPT ![c] = "gone"]
    /\ Rejoin(listens[c], LAMBDA left : left \ {c})
    /\ UNCHANGED <<queue, published, owed, got>>

(* The definitions named *_Mutant are wrong on purpose: a run with one in   *)
(* place of the definition below it must fail.                              *)
Take_Mutant(p, outer, t, q) ==
    IF q # <<>> /\ On(t) # {}
    THEN /\ stack' = [stack EXCEPT
                        ![p] = Append(outer, [msg |-> Head(q), left |-> On(t),
                                              at |-> None, tries |-> 0])]
         /\ queue' = [queue EXCEPT ![t] = q]
         /\ owed' = owed \union {<<Head(q), c>> : c \in On(t)}
    ELSE /\ stack' = [stack EXCEPT ![p] = outer]
         /\ queue' = [queue EXCEPT ![t] = q]
         /\ UNCHANGED owed

(* The messages q of topic t wait: the first is taken, unless nobody        *)
(* listens, and task p's drains become `outer` and the one that took it.    *)
Take(p, outer, t, q) ==
    IF q # <<>> /\ On(t) # {}
    THEN /\ stack' = [stack EXCEPT
                        ![p] = Append(outer, [msg |-> Head(q), left |-> On(t),
                                              at |-> None, tries |-> 0])]
         /\ queue' = [queue EXCEPT ![t] = Tail(q)]
         /\ owed' = owed \union {<<Head(q), c>> : c \in On(t)}
    ELSE /\ stack' = [stack EXCEPT ![p] = outer]
         /\ queue' = [queue EXCEPT ![t] = q]
         /\ UNCHANGED owed

(* publish(): append, then drain. *)
Publish(p, outer, m) ==
    /\ published' = published \union {m}
    /\ Take(p, outer, m.topic, Append(queue[m.topic], m))

Top(p) == Last(stack[p])
Calling(p) == stack[p] # <<>> /\ Top(p).at # None
Between(p) == stack[p] # <<>> /\ Top(p).at = None

SetTop(p, f) == [stack EXCEPT ![p] = Append(Front(@), f)]

CallNext(p) ==
    /\ Between(p)
    /\ \E c \in Top(p).left :
         stack' = SetTop(p, [Top(p) EXCEPT !.at = c, !.left = @ \ {c}, !.tries = 1])
    /\ UNCHANGED <<queue, listens, published, owed, got>>

(* Every consumer has been served: the next message, or the drain returns. *)
TakeNext(p) ==
    /\ Between(p)
    /\ Top(p).left = {}
    /\ LET t == Top(p).msg.topic IN Take(p, Front(stack[p]), t, queue[t])
    /\ UNCHANGED <<listens, published, got>>

(* The consumer returns. *)
Deliver(p) ==
    /\ Calling(p)
    /\ got' = got \union {<<Top(p).msg, Top(p).at>>}
    /\ stack' = SetTop(p, [Top(p) EXCEPT !.at = None])
    /\ UNCHANGED <<queue, listens, published, owed>>

RetryOneMore_Mutant(p) ==
    /\ Calling(p)
    /\ Top(p).tries <= MaxAttempts
    /\ stack' = SetTop(p, [Top(p) EXCEPT !.tries = @ + 1])
    /\ UNCHANGED <<queue, listens, published, owed, got>>

RetryForever_Mutant(p) ==
    /\ Calling(p)
    /\ stack' = SetTop(p, [Top(p) EXCEPT !.tries = (@ % MaxAttempts) + 1])
    /\ UNCHANGED <<queue, listens, published, owed, got>>

(* The consumer throws and is called again after a pause. *)
Retry(p) ==
    /\ Calling(p)
    /\ Top(p).tries < MaxAttempts
    /\ stack' = SetTop(p, [Top(p) EXCEPT !.tries = @ + 1])
    /\ UNCHANGED <<queue, listens, published, owed, got>>

DeadLetter(m, c) == [topic |-> Dlq, key |-> m.key, failed |-> Append(m.failed, c)]

GiveUp_Mutant(p) ==
    /\ Calling(p)
    /\ Top(p).tries = MaxAttempts
    /\ Len(Top(p).msg.failed) < MaxNest
    /\ Publish(p, Front(stack[p]), DeadLetter(Top(p).msg, Top(p).at))
    /\ UNCHANGED <<listens, got>>

(* It threw for the last time: its dead letter is published, and drained,   *)
(* before this drain goes on.                                               *)
GiveUp(p) ==
    /\ Calling(p)
    /\ Top(p).tries = MaxAttempts
    /\ Len(Top(p).msg.failed) < MaxNest
    /\ Publish(p, SetTop(p, [Top(p) EXCEPT !.at = None])[p],
               DeadLetter(Top(p).msg, Top(p).at))
    /\ UNCHANGED <<listens, got>>

Drain(p) ==
    CallNext(p) \/ TakeNext(p) \/ Deliver(p) \/ Retry(p) \/ GiveUp(p)

Subscriptions ==
    \E c \in Consumers :
        \/ Unsubscribe(c)
        \/ \E t \in Topics : Subscribe(c, t)

-----------------------------------------------------------------------------

Dead(m, c) == DeadLetter(m, c) \in published
InHand(m, c) ==
    \E d \in Drains : Hand(d).msg = m /\ (c = Hand(d).at \/ c \in Hand(d).left)
Unsettled(o) == o \notin got /\ ~Dead(o[1], o[2])

(* Nothing is dropped: a consumer that was subscribed when a message was    *)
(* taken from its queue, or joined while it was offered, and has not left,  *)
(* has returned from it, has a dead letter for it, or is still to be called *)
(* with it, however drains nest and overlap.                                *)
NothingDropped ==
    \A o \in owed :
        listens[o[2]] = o[1].topic => ~Unsettled(o) \/ InHand(o[1], o[2])

(* At most one outcome: a consumer that has returned from a message is not  *)
(* called with it again and gets no dead letter for it, and no message is   *)
(* in the hands of two drains or both in hand and in the queue.             *)
OneOutcome ==
    /\ \A o \in got : ~Dead(o[1], o[2]) /\ ~InHand(o[1], o[2])
    /\ \A d, e \in Drains : Hand(d).msg = Hand(e).msg => d = e
    /\ \A d \in Drains : ~Contains(queue[Hand(d).msg.topic], Hand(d).msg)

=============================================================================
