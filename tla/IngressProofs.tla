--------------------------- MODULE IngressProofs ----------------------------
(***************************************************************************)
(* The bus drops nothing and settles everything once, and the webhook      *)
(* handler drops only repetitions, for any tasks, consumers, topics and    *)
(* requests.                                                               *)
(*                                                                         *)
(* Most steps of the bus do two or three things at once: a drain gives up  *)
(* a consumer, publishes its dead letter and takes the next message.  The  *)
(* invariant of the bus is therefore stated of six values, not of the six  *)
(* variables, and each of those things is shown to keep it; a step is two  *)
(* of them with a bus in between that no behaviour shows.                  *)
(***************************************************************************)
EXTENDS Ingress, SequenceTheorems, TLAPS

(* A bus: queues q, consumers' topics l, stacks s, messages published pub,  *)
(* offers owed ow and offers got gt.                                        *)
Shapes(q, l, s, pub, ow, gt) ==
    /\ q \in [Topics -> Seq(Msg)]
    /\ l \in [Consumers -> Topics \union {"new", "gone"}]
    /\ s \in [Tasks -> Seq(Frame)]
    /\ pub \subseteq Msg
    /\ ow \subseteq pub \X Consumers
    /\ gt \subseteq ow

(* What waits was published on its topic, is there once, and was offered to *)
(* nobody yet.                                                              *)
Waiting(q, pub, ow) ==
    \A t \in Topics : \A i \in 1 .. Len(q[t]) :
        /\ q[t][i] \in pub /\ q[t][i].topic = t
        /\ \A c \in Consumers : <<q[t][i], c>> \notin ow
        /\ \A j \in 1 .. Len(q[t]) : q[t][i] = q[t][j] => i = j

(* A drain's message was published and offered; the consumers it still has  *)
(* to serve, and the one it serves, are owed it and have not got it.        *)
Handing(f, l, pub, ow, gt) ==
    /\ f.msg \in pub
    /\ \E c \in Consumers : <<f.msg, c>> \in ow
    /\ f.at \notin f.left
    /\ \A c \in f.left : l[c] = f.msg.topic
    /\ \A c \in Consumers : c = f.at \/ c \in f.left => <<f.msg, c>> \in ow \ gt

Hands(l, s, pub, ow, gt) ==
    \A p \in Tasks : \A i \in 1 .. Len(s[p]) : Handing(s[p][i], l, pub, ow, gt)

(* No two drains have one message. *)
Alone(s) ==
    \A p, r \in Tasks : \A i \in 1 .. Len(s[p]), j \in 1 .. Len(s[r]) :
        s[p][i].msg = s[r][j].msg => p = r /\ i = j

Held(s, m, c) ==
    \E p \in Tasks : \E i \in 1 .. Len(s[p]) :
        s[p][i].msg = m /\ (c = s[p][i].at \/ c \in s[p][i].left)

(* Who is owed a message joined before, and if he has not left he got it,   *)
(* has a dead letter for it or is still to be served.                       *)
Owing(l, s, pub, ow, gt) ==
    \A m \in pub, c \in Consumers :
        <<m, c>> \in ow =>
            /\ l[c] # "new"
            /\ l[c] = m.topic => <<m, c>> \in gt \/ DeadLetter(m, c) \in pub \/ Held(s, m, c)

(* A dead letter is about an offer that failed and is over. *)
Letters(s, pub, ow, gt) ==
    \A m \in pub, c \in Consumers :
        DeadLetter(m, c) \in pub => <<m, c>> \in ow \ gt /\ ~Held(s, m, c)

(* A message is known by its payload and the failures behind it, and each   *)
(* of those failures was one of a published message.                        *)
Origins(pub) ==
    /\ \A m, n \in pub : m.key = n.key /\ m.failed = n.failed => m = n
    /\ \A n \in pub : n.failed # <<>> => \E m \in pub, c \in Consumers : n = DeadLetter(m, c)

Sound(q, l, s, pub, ow, gt) ==
    /\ Shapes(q, l, s, pub, ow, gt)
    /\ Waiting(q, pub, ow)
    /\ Hands(l, s, pub, ow, gt)
    /\ Alone(s)
    /\ Owing(l, s, pub, ow, gt)
    /\ Letters(s, pub, ow, gt)
    /\ Origins(pub)

-----------------------------------------------------------------------------

(* The failures behind a message are a sequence of MaxNest at the most. *)
LEMMA FailuresBehind ==
    ASSUME NEW f PROVE f \in SeqOf(Consumers, MaxNest) <=> f \in Seq(Consumers) /\ Len(f) <= MaxNest
<1>1. ASSUME f \in SeqOf(Consumers, MaxNest) PROVE f \in Seq(Consumers) /\ Len(f) <= MaxNest
  <2>1. PICK n \in 0 .. MaxNest : f \in [1 .. n -> Consumers]
    BY <1>1 DEF SeqOf
  <2>2. n \in Nat /\ f \in Seq(Consumers) /\ Len(f) = n
    BY <2>1, IsASeq, RetryAssumption, LenProperties
  <2> QED
    BY <2>1, <2>2, RetryAssumption
<1>2. ASSUME f \in Seq(Consumers), Len(f) <= MaxNest PROVE f \in SeqOf(Consumers, MaxNest)
  <2>1. Len(f) \in 0 .. MaxNest /\ f \in [1 .. Len(f) -> Consumers]
    BY <1>2, RetryAssumption, LenProperties
  <2> QED
    BY <2>1 DEF SeqOf
<1> QED
  BY <1>1, <1>2

(* A dead letter tells what failed and where, but for the topic. *)
LEMMA LettersTell ==
    ASSUME NEW m \in Msg, NEW n \in Msg, NEW c \in Consumers, NEW e \in Consumers,
           DeadLetter(m, c) = DeadLetter(n, e)
    PROVE  m.key = n.key /\ m.failed = n.failed /\ c = e
<1>1. m.failed \in Seq(Consumers) /\ n.failed \in Seq(Consumers)
  BY FailuresBehind DEF Msg
<1>2. m.key = n.key /\ Append(m.failed, c) = Append(n.failed, e)
  BY DEF DeadLetter
<1>3. PICK f \in Seq(Consumers), g \in Seq(Consumers) : f = m.failed /\ g = n.failed
  BY <1>1
<1>4. Append(f, c) = Append(g, e)
  BY <1>2, <1>3
<1>5. f = g /\ c = e
  BY <1>4, AppendInjective
<1> QED
  BY <1>2, <1>3, <1>5

(* It is a message as long as dead letters of dead letters are allowed. *)
LEMMA LettersAreMessages ==
    ASSUME NEW m \in Msg, NEW c \in Consumers
    PROVE  /\ DeadLetter(m, c).failed # <<>> /\ DeadLetter(m, c).failed # m.failed
           /\ Len(m.failed) < MaxNest => DeadLetter(m, c) \in Msg
<1>1. m.failed \in Seq(Consumers) /\ m.key \in Keys
  BY FailuresBehind DEF Msg
<1>2. /\ Append(m.failed, c) \in Seq(Consumers) /\ Len(m.failed) \in Nat
      /\ Len(Append(m.failed, c)) = Len(m.failed) + 1
  BY <1>1, AppendProperties, LenProperties
<1>3. Append(m.failed, c) # <<>> /\ Append(m.failed, c) # m.failed
  <2>1. Len(m.failed) + 1 # Len(m.failed) /\ Append(m.failed, c) # <<>>
    BY <1>1, <1>2, AppendProperties
  <2> QED
    BY <1>2, <2>1, Zenon
<1>4. Len(m.failed) < MaxNest => Append(m.failed, c) \in SeqOf(Consumers, MaxNest)
  <2>1. Len(m.failed) < MaxNest => Len(m.failed) + 1 <= MaxNest
    BY <1>2, RetryAssumption
  <2> QED
    BY <1>2, <2>1, FailuresBehind, Zenon
<1> QED
  BY <1>1, <1>3, <1>4, TopicAssumption DEF DeadLetter, Msg

-----------------------------------------------------------------------------

(* What is left without the last. *)
LEMMA FrontOf ==
    ASSUME NEW S, NEW w \in Seq(S), w # <<>>
    PROVE  /\ Len(w) \in Nat \ {0} /\ Front(w) \in Seq(S) /\ Len(Front(w)) = Len(w) - 1
           /\ \A i \in 1 .. (Len(w) - 1) : Front(w)[i] = w[i]
<1>1. Len(w) \in Nat \ {0} /\ w \in [1 .. Len(w) -> S]
  BY EmptySeq, LenProperties
<1>2. Len(w) - 1 \in 0 .. Len(w) /\ \A i \in 1 .. (Len(w) - 1) : w[i] \in S
  BY <1>1
<1>3. /\ Front(w) \in Seq(S) /\ Len(Front(w)) = Len(w) - 1
      /\ \A i \in 1 .. (Len(w) - 1) : Front(w)[i] = w[i]
  BY <1>1, <1>2, SubSeqProperties DEF Front
<1> QED
  BY <1>1, <1>3

(* A drain that starts on top of task p's. *)
LEMMA Pushed ==
    ASSUME NEW s \in [Tasks -> Seq(Frame)], NEW p \in Tasks, NEW f \in Frame,
           NEW s2, s2 = [s EXCEPT ![p] = Append(s[p], f)]
    PROVE  /\ s2 \in [Tasks -> Seq(Frame)]
           /\ Len(s[p]) \in Nat /\ Len(s2[p]) = Len(s[p]) + 1 /\ s2[p][Len(s[p]) + 1] = f
           /\ \A i \in 1 .. Len(s[p]) : s2[p][i] = s[p][i]
           /\ \A r \in Tasks \ {p} : s2[r] = s[r]
<1>1. PICK w \in Seq(Frame) : w = s[p]
  OBVIOUS
<1>2. /\ Append(w, f) \in Seq(Frame) /\ Len(w) \in Nat /\ Len(Append(w, f)) = Len(w) + 1
      /\ \A i \in 1 .. Len(w) : Append(w, f)[i] = w[i]
      /\ Append(w, f)[Len(w) + 1] = f
  BY AppendProperties, LenProperties
<1>3. s2[p] = Append(w, f) /\ s2 \in [Tasks -> Seq(Frame)]
  BY <1>1, <1>2
<1> QED
  BY <1>1, <1>2, <1>3

(* The innermost drain changes. *)
WithTop(s, p, g) == [s EXCEPT ![p] = Append(Front(s[p]), g)]

(* All others stay. *)
LEMMA TopSet ==
    ASSUME NEW s \in [Tasks -> Seq(Frame)], NEW p \in Tasks, s[p] # <<>>, NEW g \in Frame,
           NEW s2, s2 = WithTop(s, p, g)
    PROVE  /\ s2 \in [Tasks -> Seq(Frame)]
           /\ Len(s[p]) \in Nat \ {0} /\ Len(s2[p]) = Len(s[p]) /\ s2[p][Len(s[p])] = g
           /\ \A i \in 1 .. (Len(s[p]) - 1) : s2[p][i] = s[p][i]
           /\ \A r \in Tasks \ {p} : s2[r] = s[r]
<1>1. PICK w \in Seq(Frame) : w = s[p]
  OBVIOUS
<1>2. /\ Len(w) \in Nat \ {0} /\ Front(w) \in Seq(Frame) /\ Len(Front(w)) = Len(w) - 1
      /\ \A i \in 1 .. (Len(w) - 1) : Front(w)[i] = w[i]
  BY <1>1, FrontOf
<1>3. /\ Append(Front(w), g) \in Seq(Frame) /\ Len(Append(Front(w), g)) = Len(w)
      /\ \A i \in 1 .. (Len(w) - 1) : Append(Front(w), g)[i] = w[i]
      /\ Append(Front(w), g)[Len(w)] = g
  BY <1>2, AppendProperties
<1>4. s2[p] = Append(Front(w), g) /\ s2 \in [Tasks -> Seq(Frame)]
      /\ \A r \in Tasks \ {p} : s2[r] = s[r]
  BY <1>1, <1>3 DEF WithTop
<1> QED
  BY <1>1, <1>2, <1>3, <1>4

(* The innermost drain returns. *)
WithoutTop(s, p) == [s EXCEPT ![p] = Front(s[p])]

(* All others stay. *)
LEMMA Popped ==
    ASSUME NEW s \in [Tasks -> Seq(Frame)], NEW p \in Tasks, s[p] # <<>>,
           NEW s2, s2 = WithoutTop(s, p)
    PROVE  /\ s2 \in [Tasks -> Seq(Frame)]
           /\ Len(s[p]) \in Nat \ {0} /\ Len(s2[p]) = Len(s[p]) - 1
           /\ \A i \in 1 .. (Len(s[p]) - 1) : s2[p][i] = s[p][i]
           /\ \A r \in Tasks \ {p} : s2[r] = s[r]
<1>1. PICK w \in Seq(Frame) : w = s[p]
  OBVIOUS
<1>2. /\ Len(w) \in Nat \ {0} /\ Front(w) \in Seq(Frame) /\ Len(Front(w)) = Len(w) - 1
      /\ \A i \in 1 .. (Len(w) - 1) : Front(w)[i] = w[i]
  BY <1>1, FrontOf
<1> QED
  BY <1>1, <1>2 DEF WithoutTop

(* Message m joins the end of its topic's queue. *)
WithLast(q, m) == [q EXCEPT ![m.topic] = Append(q[m.topic], m)]

(* The bus once it has. *)
Joined(q2, pub, ow, m) ==
    /\ q2 \in [Topics -> Seq(Msg)]
    /\ Waiting(q2, pub \union {m}, ow)
    /\ Origins(pub \union {m})
    /\ \A c \in Consumers : DeadLetter(m, c) \notin pub \union {m}

(* It was known to nobody before. *)
LEMMA Enqueued ==
    ASSUME NEW q, NEW l, NEW s, NEW pub, NEW ow, NEW gt, Sound(q, l, s, pub, ow, gt),
           NEW m \in Msg, m \notin pub,
           \A n \in pub : ~(n.key = m.key /\ n.failed = m.failed),
           m.failed # <<>> => \E n \in pub, c \in Consumers : m = DeadLetter(n, c),
           NEW q2, q2 = WithLast(q, m)
    PROVE  Joined(q2, pub, ow, m)
<1>1. PICK t \in Topics : t = m.topic
  BY DEF Msg
<1>2. PICK w \in Seq(Msg) : w = q[t]
  BY DEF Sound, Shapes
<1>3. /\ Append(w, m) \in Seq(Msg) /\ Len(w) \in Nat /\ Len(Append(w, m)) = Len(w) + 1
      /\ \A i \in 1 .. Len(w) : Append(w, m)[i] = w[i]
      /\ Append(w, m)[Len(w) + 1] = m
  BY AppendProperties, LenProperties
<1>4. q2[t] = Append(w, m) /\ q2 \in [Topics -> Seq(Msg)] /\ \A u \in Topics \ {t} : q2[u] = q[u]
  BY <1>1, <1>2, <1>3 DEF Sound, Shapes, WithLast
<1>5. Waiting(q2, pub \union {m}, ow)
  <2>1. \A c \in Consumers : <<m, c>> \notin ow
    BY DEF Sound, Shapes
  <2>2. ASSUME NEW u \in Topics, u # t, NEW i \in 1 .. Len(q2[u])
        PROVE  /\ q2[u][i] \in pub \union {m} /\ q2[u][i].topic = u
               /\ \A c \in Consumers : <<q2[u][i], c>> \notin ow
               /\ \A j \in 1 .. Len(q2[u]) : q2[u][i] = q2[u][j] => i = j
    BY <1>4, <2>2 DEF Sound, Waiting
  <2>3. \A i \in 1 .. Len(w) :
           /\ w[i] \in pub /\ w[i].topic = t
           /\ \A c \in Consumers : <<w[i], c>> \notin ow
           /\ \A j \in 1 .. Len(w) : w[i] = w[j] => i = j
    BY <1>2 DEF Sound, Waiting
  <2>4. ASSUME NEW i \in 1 .. Len(q2[t])
        PROVE  /\ q2[t][i] \in pub \union {m} /\ q2[t][i].topic = t
               /\ \A c \in Consumers : <<q2[t][i], c>> \notin ow
               /\ \A j \in 1 .. Len(q2[t]) : q2[t][i] = q2[t][j] => i = j
    <3>1. \A j \in 1 .. Len(q2[t]) : \/ j \in 1 .. Len(w) /\ q2[t][j] = w[j]
                                     \/ j = Len(w) + 1 /\ q2[t][j] = m
      BY <1>3, <1>4
    <3>2. CASE i \in 1 .. Len(w) /\ q2[t][i] = w[i]
      BY <2>3, <3>1, <3>2
    <3>3. CASE i = Len(w) + 1 /\ q2[t][i] = m
      BY <1>1, <2>1, <2>3, <3>1, <3>3
    <3> QED
      BY <3>1, <3>2, <3>3
  <2> QED
    BY <2>2, <2>4 DEF Waiting
<1>6. Origins(pub \union {m})
  BY DEF Sound, Origins
<1>7. ASSUME NEW c \in Consumers PROVE DeadLetter(m, c) \notin pub \union {m}
  <2>1. DeadLetter(m, c).failed # <<>> /\ DeadLetter(m, c) # m
    BY LettersAreMessages
  <2>2. ASSUME DeadLetter(m, c) \in pub PROVE FALSE
    <3>1. PICK n \in pub, e \in Consumers : DeadLetter(m, c) = DeadLetter(n, e)
      BY <2>1, <2>2 DEF Sound, Origins
    <3>2. n \in Msg
      BY DEF Sound, Shapes
    <3> QED
      BY <3>1, <3>2, LettersTell
  <2> QED
    BY <2>1, <2>2
<1> QED
  BY <1>4, <1>5, <1>6, <1>7 DEF Joined

-----------------------------------------------------------------------------

(* Task p takes the first message that waits on topic t. *)
Taken(q, l, s, ow, p, t, on, q2, s2, ow2) ==
    /\ q[t] # <<>> /\ on = {c \in Consumers : l[c] = t} /\ on # {}
    /\ q2 = [q EXCEPT ![t] = Tail(q[t])]
    /\ s2 = [s EXCEPT ![p] = Append(s[p], [msg |-> Head(q[t]), left |-> on,
                                           at |-> None, tries |-> 0])]
    /\ ow2 = ow \union {<<Head(q[t]), c>> : c \in on}

(* It is then offered to those who listen. *)
LEMMA TakeKeeps ==
    ASSUME NEW q, NEW l, NEW s, NEW pub, NEW ow, NEW gt, Sound(q, l, s, pub, ow, gt),
           NEW p \in Tasks, NEW t \in Topics, NEW on, NEW q2, NEW s2, NEW ow2,
           Taken(q, l, s, ow, p, t, on, q2, s2, ow2)
    PROVE  Sound(q2, l, s2, pub, ow2, gt)
<1>a. PICK f : f = [msg |-> Head(q[t]), left |-> on, at |-> None, tries |-> 0]
  OBVIOUS
<1>b. /\ q[t] # <<>> /\ on = {c \in Consumers : l[c] = t} /\ on # {}
      /\ q2 = [q EXCEPT ![t] = Tail(q[t])]
      /\ s2 = [s EXCEPT ![p] = Append(s[p], f)]
      /\ ow2 = ow \union {<<Head(q[t]), c>> : c \in on}
  BY <1>a DEF Taken
<1>1. PICK w \in Seq(Msg) : w = q[t]
  BY DEF Sound, Shapes
<1>2. /\ Len(w) \in Nat \ {0} /\ Tail(w) \in Seq(Msg) /\ Len(Tail(w)) = Len(w) - 1
      /\ \A i \in 1 .. (Len(w) - 1) : Tail(w)[i] = w[i + 1]
  BY <1>1, <1>b, HeadTailProperties, EmptySeq
<1>3. PICK m \in Msg : m = Head(w) /\ m = w[1]
  BY <1>1, <1>2, <1>b, HeadTailProperties
<1>0. \A j \in 1 .. Len(w) : /\ w[j] \in pub /\ w[j].topic = t
                             /\ \A c \in Consumers : <<w[j], c>> \notin ow
                             /\ \A k \in 1 .. Len(w) : w[j] = w[k] => j = k
  BY <1>1 DEF Sound, Waiting
<1>4. /\ m \in pub /\ m.topic = t /\ \A c \in Consumers : <<m, c>> \notin ow
      /\ \A i \in 1 .. (Len(w) - 1) : i + 1 \in 1 .. Len(w) /\ w[i + 1] # m
  <2>1. 1 \in 1 .. Len(w) /\ \A i \in 1 .. (Len(w) - 1) : i + 1 \in 1 .. Len(w) /\ i + 1 # 1
    BY <1>2
  <2> QED
    BY <1>0, <1>3, <2>1
<1>5. /\ f.msg = m /\ f.left = on /\ f.at = None /\ f \in Frame /\ on \subseteq Consumers
      /\ \A c \in on : l[c] = t
  BY <1>1, <1>3, <1>a, <1>b, RetryAssumption DEF Frame
<1>6. /\ q2 \in [Topics -> Seq(Msg)] /\ q2[t] = Tail(w) /\ \A u \in Topics \ {t} : q2[u] = q[u]
  BY <1>1, <1>2, <1>b DEF Sound, Shapes
<1>7. /\ s2 \in [Tasks -> Seq(Frame)]
      /\ Len(s[p]) \in Nat /\ Len(s2[p]) = Len(s[p]) + 1 /\ s2[p][Len(s[p]) + 1] = f
      /\ \A i \in 1 .. Len(s[p]) : s2[p][i] = s[p][i]
      /\ \A r \in Tasks \ {p} : s2[r] = s[r]
  BY <1>5, <1>b, Pushed DEF Sound, Shapes
<1>8. /\ \A r \in Tasks : \A i \in 1 .. Len(s2[r]) :
            \/ i \in 1 .. Len(s[r]) /\ s2[r][i] = s[r][i]
            \/ r = p /\ i = Len(s[p]) + 1 /\ s2[r][i] = f
      /\ \A r \in Tasks : \A i \in 1 .. Len(s[r]) : i \in 1 .. Len(s2[r]) /\ s2[r][i] = s[r][i]
      /\ Len(s[p]) + 1 \in 1 .. Len(s2[p])
  <2>1. Len(s[p]) + 1 \in 1 .. Len(s2[p]) /\ 1 .. Len(s[p]) \subseteq 1 .. Len(s2[p])
    BY <1>7
  <2>2. \A i \in 1 .. Len(s2[p]) : i \in 1 .. Len(s[p]) \/ i = Len(s[p]) + 1
    BY <1>7
  <2> QED
    BY <1>7, <2>1, <2>2
<1>9. ow2 = ow \union {<<m, c>> : c \in on}
  BY <1>1, <1>3, <1>b
<1>10. ASSUME NEW n, NEW c
       PROVE  Held(s2, n, c) <=> Held(s, n, c) \/ (n = m /\ (c = None \/ c \in on))
  <2>1. Held(s, n, c) => Held(s2, n, c)
    BY <1>8 DEF Held
  <2>2. n = m /\ (c = None \/ c \in on) => Held(s2, n, c)
    BY <1>5, <1>7, <1>8 DEF Held
  <2>3. Held(s2, n, c) => Held(s, n, c) \/ (n = m /\ (c = None \/ c \in on))
    BY <1>5, <1>8 DEF Held
  <2> QED
    BY <2>1, <2>2, <2>3
<1>11. \A r \in Tasks : \A i \in 1 .. Len(s[r]) : s[r][i].msg # m
  BY <1>4 DEF Sound, Hands, Handing
<1>12. Shapes(q2, l, s2, pub, ow2, gt)
  BY <1>4, <1>5, <1>6, <1>7, <1>9 DEF Sound, Shapes
<1>13. Waiting(q2, pub, ow2)
  <2>1. ASSUME NEW u \in Topics, u # t, NEW i \in 1 .. Len(q2[u])
        PROVE  /\ q2[u][i] \in pub /\ q2[u][i].topic = u
               /\ \A c \in Consumers : <<q2[u][i], c>> \notin ow2
               /\ \A j \in 1 .. Len(q2[u]) : q2[u][i] = q2[u][j] => i = j
    BY <1>4, <1>6, <1>9, <2>1 DEF Sound, Waiting
  <2>2. ASSUME NEW i \in 1 .. Len(q2[t])
        PROVE  /\ q2[t][i] \in pub /\ q2[t][i].topic = t
               /\ \A c \in Consumers : <<q2[t][i], c>> \notin ow2
               /\ \A j \in 1 .. Len(q2[t]) : q2[t][i] = q2[t][j] => i = j
    <3>1. \A j \in 1 .. Len(q2[t]) : j + 1 \in 1 .. Len(w) /\ q2[t][j] = w[j + 1] /\ w[j + 1] # m
      <4>1. 1 .. Len(q2[t]) = 1 .. (Len(w) - 1) /\ \A j \in 1 .. (Len(w) - 1) : q2[t][j] = w[j + 1]
        BY <1>2, <1>6
      <4> QED
        BY <1>4, <4>1
    <3>2. \A j \in 1 .. Len(q2[t]) : w[i + 1] = w[j + 1] => i = j
      BY <1>0, <3>1
    <3> QED
      BY <1>0, <1>9, <3>1, <3>2
  <2> QED
    BY <2>1, <2>2 DEF Waiting
<1>14. Hands(l, s2, pub, ow2, gt)
  <2>1. Handing(f, l, pub, ow2, gt)
    BY <1>4, <1>5, <1>9, <1>b, ConsumerAssumption DEF Handing, Sound, Shapes
  <2>2. ASSUME NEW r \in Tasks, NEW i \in 1 .. Len(s[r]) PROVE Handing(s[r][i], l, pub, ow2, gt)
    BY <1>9 DEF Sound, Hands, Handing
  <2>3. ASSUME NEW r \in Tasks, NEW i \in 1 .. Len(s2[r]) PROVE Handing(s2[r][i], l, pub, ow2, gt)
    <3>1. CASE i \in 1 .. Len(s[r]) /\ s2[r][i] = s[r][i]
      BY <2>2, <3>1
    <3> QED
      BY <1>8, <2>1, <3>1
  <2> QED
    BY <2>3 DEF Hands
<1>15. Alone(s2)
  <2> SUFFICES ASSUME NEW r \in Tasks, NEW u \in Tasks, NEW i \in 1 .. Len(s2[r]),
                      NEW j \in 1 .. Len(s2[u]), s2[r][i].msg = s2[u][j].msg
               PROVE  r = u /\ i = j
    BY DEF Alone
  <2>1. CASE i \in 1 .. Len(s[r]) /\ s2[r][i] = s[r][i] /\ j \in 1 .. Len(s[u]) /\ s2[u][j] = s[u][j]
    BY <2>1 DEF Sound, Alone
  <2>2. CASE i \in 1 .. Len(s[r]) /\ s2[r][i] = s[r][i] /\ s2[u][j] = f
    BY <1>5, <1>11, <2>2
  <2>3. CASE s2[r][i] = f /\ j \in 1 .. Len(s[u]) /\ s2[u][j] = s[u][j]
    BY <1>5, <1>11, <2>3
  <2> QED
    BY <1>8, <2>1, <2>2, <2>3
<1>16. Owing(l, s2, pub, ow2, gt)
  <2>1. ASSUME NEW n \in pub, NEW c \in Consumers, <<n, c>> \in ow
        PROVE  /\ l[c] # "new"
               /\ l[c] = n.topic => <<n, c>> \in gt \/ DeadLetter(n, c) \in pub \/ Held(s2, n, c)
    BY <1>10, <2>1 DEF Sound, Owing
  <2>2. ASSUME NEW c \in on PROVE l[c] # "new" /\ Held(s2, m, c)
    BY <1>5, <1>10, TopicAssumption
  <2> QED
    BY <1>9, <2>1, <2>2 DEF Owing
<1>17. Letters(s2, pub, ow2, gt)
  BY <1>4, <1>5, <1>9, <1>10, ConsumerAssumption DEF Sound, Letters
<1> QED
  BY <1>12, <1>13, <1>14, <1>15, <1>16, <1>17 DEF Sound

(* Task p's innermost drain calls the next consumer, or the same once more. *)
Calls(s, p, f, g, s2) ==
    /\ p \in Tasks /\ s[p] # <<>> /\ f = s[p][Len(s[p])]
    /\ g \in Frame /\ g.msg = f.msg /\ g.left \subseteq f.left /\ g.at \notin g.left
    /\ \A c \in Consumers : c = g.at \/ c \in g.left <=> c = f.at \/ c \in f.left
    /\ s2 = WithTop(s, p, g)

(* The consumers it still has to serve are the same. *)
LEMMA CallKeeps ==
    ASSUME NEW q, NEW l, NEW s, NEW pub, NEW ow, NEW gt, Sound(q, l, s, pub, ow, gt),
           NEW p, NEW f, NEW g, NEW s2, Calls(s, p, f, g, s2)
    PROVE  Sound(q, l, s2, pub, ow, gt)
<1>0. /\ p \in Tasks /\ s[p] # <<>> /\ f = s[p][Len(s[p])]
      /\ g \in Frame /\ g.msg = f.msg /\ g.left \subseteq f.left /\ g.at \notin g.left
      /\ \A c \in Consumers : c = g.at \/ c \in g.left <=> c = f.at \/ c \in f.left
      /\ s2 = WithTop(s, p, g)
  BY DEF Calls
<1>1. /\ s2 \in [Tasks -> Seq(Frame)]
      /\ Len(s[p]) \in Nat \ {0} /\ Len(s2[p]) = Len(s[p]) /\ s2[p][Len(s[p])] = g
      /\ \A i \in 1 .. (Len(s[p]) - 1) : s2[p][i] = s[p][i]
      /\ \A r \in Tasks \ {p} : s2[r] = s[r]
  <2>1. s \in [Tasks -> Seq(Frame)]
    BY DEF Sound, Shapes
  <2> QED
    BY <1>0, <2>1, TopSet
<1>2. \A r \in Tasks : \A i \in 1 .. Len(s2[r]) :
         /\ i \in 1 .. Len(s[r])
         /\ s2[r][i].msg = s[r][i].msg
         /\ \/ s2[r][i] = s[r][i]
            \/ r = p /\ i = Len(s[p]) /\ s2[r][i] = g /\ s[r][i] = f
  BY <1>0, <1>1
<1>3. \A r \in Tasks : Len(s2[r]) = Len(s[r])
  BY <1>0, <1>1
<1>4. ASSUME NEW n, NEW c \in Consumers PROVE Held(s2, n, c) <=> Held(s, n, c)
  <2>1. \A r \in Tasks : \A i \in 1 .. Len(s2[r]) :
           c = s2[r][i].at \/ c \in s2[r][i].left <=> c = s[r][i].at \/ c \in s[r][i].left
    BY <1>0, <1>2
  <2> QED
    BY <1>0, <1>2, <1>3, <2>1 DEF Held
<1>5. Shapes(q, l, s2, pub, ow, gt)
  BY <1>0, <1>1 DEF Sound, Shapes
<1>6. Hands(l, s2, pub, ow, gt)
  <2>1. ASSUME NEW r \in Tasks, NEW i \in 1 .. Len(s2[r]) PROVE Handing(s2[r][i], l, pub, ow, gt)
    <3>1. Handing(s[r][i], l, pub, ow, gt)
      BY <1>0, <1>2 DEF Sound, Hands
    <3> QED
      BY <1>0, <1>2, <3>1 DEF Handing
  <2> QED
    BY <1>0, <2>1 DEF Hands
<1>7. Alone(s2)
  BY <1>0, <1>2, <1>3 DEF Sound, Alone
<1>8. Owing(l, s2, pub, ow, gt) /\ Letters(s2, pub, ow, gt)
  BY <1>0, <1>4 DEF Sound, Owing, Letters
<1> QED
  BY <1>0, <1>5, <1>6, <1>7, <1>8 DEF Sound

(* Task p's innermost drain f is through with the consumer it called. *)
Settles(s, p, f, g, s2) ==
    /\ p \in Tasks /\ s[p] # <<>> /\ f = s[p][Len(s[p])] /\ f.at \in Consumers
    /\ g \in Frame /\ g.msg = f.msg /\ g.left = f.left /\ g.at = None
    /\ s2 = WithTop(s, p, g)

(* It alone had that message, and all the rest is as it was. *)
Settled(l, s, pub, ow, gt, f, s2) ==
    /\ s2 \in [Tasks -> Seq(Frame)] /\ Alone(s2)
    /\ Hands(l, s2, pub, ow, gt \union {<<f.msg, f.at>>})
    /\ f.msg \in pub /\ <<f.msg, f.at>> \in ow \ gt
    /\ \A n : \A c \in Consumers : Held(s2, n, c) <=> Held(s, n, c) /\ ~(n = f.msg /\ c = f.at)

(* So it is. *)
LEMMA TopSettles ==
    ASSUME NEW q, NEW l, NEW s, NEW pub, NEW ow, NEW gt, Sound(q, l, s, pub, ow, gt),
           NEW p, NEW f, NEW g, NEW s2, Settles(s, p, f, g, s2)
    PROVE  Settled(l, s, pub, ow, gt, f, s2)
<1>0. /\ p \in Tasks /\ s[p] # <<>> /\ f = s[p][Len(s[p])] /\ f.at \in Consumers
      /\ g \in Frame /\ g.msg = f.msg /\ g.left = f.left /\ g.at = None
      /\ s2 = WithTop(s, p, g)
  BY DEF Settles
<1>1. Len(s[p]) \in 1 .. Len(s[p]) /\ f \in Frame
  <2>1. s[p] \in Seq(Frame)
    BY <1>0 DEF Sound, Shapes
  <2>2. Len(s[p]) \in Nat \ {0} /\ s[p] \in [1 .. Len(s[p]) -> Frame]
    BY <1>0, <2>1, EmptySeq, LenProperties
  <2> QED
    BY <1>0, <2>2
<1>2. Handing(f, l, pub, ow, gt)
  BY <1>0, <1>1 DEF Sound, Hands
<1>3. f.msg \in pub /\ <<f.msg, f.at>> \in ow \ gt /\ f.at \notin f.left
  BY <1>0, <1>2 DEF Handing
<1>5. /\ s2 \in [Tasks -> Seq(Frame)]
      /\ Len(s[p]) \in Nat \ {0} /\ Len(s2[p]) = Len(s[p]) /\ s2[p][Len(s[p])] = g
      /\ \A i \in 1 .. (Len(s[p]) - 1) : s2[p][i] = s[p][i]
      /\ \A r \in Tasks \ {p} : s2[r] = s[r]
  <2>1. s \in [Tasks -> Seq(Frame)]
    BY <1>0 DEF Sound, Shapes
  <2> QED
    BY <1>0, <2>1, TopSet
<1>6. \A r \in Tasks : Len(s2[r]) = Len(s[r])
  BY <1>0, <1>5
<1>7. \A r \in Tasks : \A i \in 1 .. Len(s[r]) :
         /\ s2[r][i].msg = s[r][i].msg
         /\ \/ ~(r = p /\ i = Len(s[p])) /\ s2[r][i] = s[r][i]
            \/ r = p /\ i = Len(s[p]) /\ s2[r][i] = g /\ s[r][i] = f
  <2>1. ASSUME NEW r \in Tasks, r # p, NEW i \in 1 .. Len(s[r]) PROVE s2[r][i] = s[r][i]
    BY <1>0, <1>5, <2>1
  <2>2. ASSUME NEW i \in 1 .. Len(s[p]), i # Len(s[p]) PROVE s2[p][i] = s[p][i]
    <3>1. i \in 1 .. (Len(s[p]) - 1)
      BY <1>0, <1>5, <2>2
    <3> QED
      BY <1>0, <1>5, <3>1
  <2>3. s2[p][Len(s[p])] = g /\ s[p][Len(s[p])] = f
    BY <1>0, <1>5
  <2> QED
    BY <1>0, <2>1, <2>2, <2>3
<1>8. Alone(s2)
  <2>1. \A r \in Tasks : 1 .. Len(s2[r]) = 1 .. Len(s[r])
    BY <1>0, <1>6
  <2>2. \A r \in Tasks : \A i \in 1 .. Len(s[r]) : s2[r][i].msg = s[r][i].msg
    BY <1>0, <1>7
  <2> QED
    BY <1>0, <2>1, <2>2 DEF Sound, Alone
<1>9. Hands(l, s2, pub, ow, gt \union {<<f.msg, f.at>>})
  <2> DEFINE gt2 == gt \union {<<f.msg, f.at>>}
  <2>1. Handing(g, l, pub, ow, gt2)
    <3>1. ASSUME NEW c \in Consumers, c = g.at \/ c \in g.left PROVE <<g.msg, c>> \in ow \ gt2
      <4>1. c \in f.left /\ c # f.at
        BY <1>0, <1>3, <3>1, ConsumerAssumption
      <4>2. <<f.msg, c>> \in ow \ gt
        BY <1>0, <1>2, <4>1 DEF Handing
      <4> QED
        BY <1>0, <4>1, <4>2
    <3>2. g.at \notin g.left
      BY <1>0, ConsumerAssumption DEF Frame
    <3>3. g.msg \in pub /\ (\E c \in Consumers : <<g.msg, c>> \in ow)
          /\ \A c \in g.left : l[c] = g.msg.topic
      BY <1>0, <1>2 DEF Handing
    <3> QED
      BY <1>0, <3>1, <3>2, <3>3 DEF Handing
  <2>2. ASSUME NEW r \in Tasks, NEW i \in 1 .. Len(s[r]) PROVE Handing(s2[r][i], l, pub, ow, gt2)
    <3>1. Handing(s[r][i], l, pub, ow, gt)
      BY <1>0 DEF Sound, Hands
    <3>2. CASE ~(r = p /\ i = Len(s[p])) /\ s2[r][i] = s[r][i]
      <4>1. s[r][i].msg # f.msg
        BY <1>0, <1>1, <3>2 DEF Sound, Alone
      <4>2. \A c : <<s[r][i].msg, c>> \in gt2 => <<s[r][i].msg, c>> \in gt
        BY <1>0, <4>1
      <4>3. Handing(s[r][i], l, pub, ow, gt2)
        BY <1>0, <3>1, <4>2 DEF Handing
      <4> QED
        BY <1>0, <3>2, <4>3
    <3> QED
      BY <1>0, <1>7, <2>1, <3>2
  <2> QED
    BY <1>0, <1>6, <2>2 DEF Hands
<1>10. ASSUME NEW n, NEW c \in Consumers
       PROVE  Held(s2, n, c) <=> Held(s, n, c) /\ ~(n = f.msg /\ c = f.at)
  <2>1. ASSUME NEW r \in Tasks, NEW i \in 1 .. Len(s[r])
        PROVE  s2[r][i].msg = n /\ (c = s2[r][i].at \/ c \in s2[r][i].left)
               <=> /\ s[r][i].msg = n /\ (c = s[r][i].at \/ c \in s[r][i].left)
                   /\ ~(n = f.msg /\ c = f.at)
    <3>1. CASE r = p /\ i = Len(s[p]) /\ s2[r][i] = g /\ s[r][i] = f
      BY <1>0, <1>3, <3>1, ConsumerAssumption
    <3>2. CASE ~(r = p /\ i = Len(s[p])) /\ s2[r][i] = s[r][i]
      <4>1. s[r][i].msg # f.msg
        BY <1>0, <1>1, <3>2 DEF Sound, Alone
      <4> QED
        BY <1>0, <3>2, <4>1
    <3> QED
      BY <1>0, <1>7, <3>1, <3>2
  <2> QED
    BY <1>0, <1>6, <2>1 DEF Held
<1> QED
  BY <1>3, <1>5, <1>8, <1>9, <1>10 DEF Settled

(* The consumer returns. *)
LEMMA DeliverKeeps ==
    ASSUME NEW q, NEW l, NEW s, NEW pub, NEW ow, NEW gt, Sound(q, l, s, pub, ow, gt),
           NEW p, NEW f, NEW g, NEW s2, Settles(s, p, f, g, s2),
           NEW gt2, gt2 = gt \union {<<f.msg, f.at>>}
    PROVE  Sound(q, l, s2, pub, ow, gt2)
<1>0. p \in Tasks /\ s[p] # <<>> /\ f = s[p][Len(s[p])] /\ f.at \in Consumers
  BY DEF Settles
<1>1. /\ s2 \in [Tasks -> Seq(Frame)] /\ Alone(s2) /\ Hands(l, s2, pub, ow, gt2)
      /\ f.msg \in pub /\ <<f.msg, f.at>> \in ow \ gt
      /\ \A n : \A c \in Consumers : Held(s2, n, c) <=> Held(s, n, c) /\ ~(n = f.msg /\ c = f.at)
  <2>1. Settled(l, s, pub, ow, gt, f, s2)
    BY TopSettles
  <2> QED
    BY <2>1 DEF Settled
<1>2. Held(s, f.msg, f.at)
  <2>1. Len(s[p]) \in 1 .. Len(s[p])
    BY <1>0, EmptySeq DEF Sound, Shapes
  <2> QED
    BY <1>0, <2>1 DEF Held
<1>3. Shapes(q, l, s2, pub, ow, gt2)
  BY <1>1 DEF Sound, Shapes
<1>4. Owing(l, s2, pub, ow, gt2)
  BY <1>1 DEF Sound, Owing
<1>5. Letters(s2, pub, ow, gt2)
  BY <1>1, <1>2 DEF Sound, Letters
<1> QED
  BY <1>1, <1>3, <1>4, <1>5 DEF Sound

(* Its consumer threw for the last time: a dead letter is published. *)
GivesUp(q, pub, f, d, q2, pub2) ==
    /\ Len(f.msg.failed) < MaxNest
    /\ d = DeadLetter(f.msg, f.at) /\ q2 = WithLast(q, d) /\ pub2 = pub \union {d}

(* It is a new one, and the failure is settled. *)
LEMMA GiveUpKeeps ==
    ASSUME NEW q, NEW l, NEW s, NEW pub, NEW ow, NEW gt, Sound(q, l, s, pub, ow, gt),
           NEW p, NEW f, NEW g, NEW s2, Settles(s, p, f, g, s2),
           NEW d, NEW q2, NEW pub2, GivesUp(q, pub, f, d, q2, pub2)
    PROVE  Sound(q2, l, s2, pub2, ow, gt) /\ d \in Msg
<1>a. /\ Len(f.msg.failed) < MaxNest
      /\ d = DeadLetter(f.msg, f.at) /\ q2 = WithLast(q, d) /\ pub2 = pub \union {d}
  BY DEF GivesUp
<1>0. p \in Tasks /\ s[p] # <<>> /\ f = s[p][Len(s[p])] /\ f.at \in Consumers
  BY DEF Settles
<1>1. /\ s2 \in [Tasks -> Seq(Frame)] /\ Alone(s2)
      /\ Hands(l, s2, pub, ow, gt \union {<<f.msg, f.at>>})
      /\ f.msg \in pub /\ <<f.msg, f.at>> \in ow \ gt
      /\ \A n : \A c \in Consumers : Held(s2, n, c) <=> Held(s, n, c) /\ ~(n = f.msg /\ c = f.at)
  <2>1. Settled(l, s, pub, ow, gt, f, s2)
    BY TopSettles
  <2> QED
    BY <2>1 DEF Settled
<1>2. Held(s, f.msg, f.at)
  <2>1. Len(s[p]) \in 1 .. Len(s[p])
    BY <1>0, EmptySeq DEF Sound, Shapes
  <2> QED
    BY <1>0, <2>1 DEF Held
<1>3. f.msg \in Msg /\ d \in Msg /\ d.failed # <<>> /\ pub \subseteq Msg
  BY <1>a, <1>0, <1>1, LettersAreMessages DEF Sound, Shapes
<1>4. d \notin pub
  BY <1>a, <1>0, <1>1, <1>2 DEF Sound, Letters
<1>5. ASSUME NEW n \in pub, n.key = d.key, n.failed = d.failed PROVE FALSE
  <2>1. n.failed # <<>>
    BY <1>3, <1>5
  <2>2. PICK m \in pub, c \in Consumers : n = DeadLetter(m, c)
    BY <2>1 DEF Sound, Origins
  <2>3. n.topic = d.topic
    BY <1>a, <2>2 DEF DeadLetter
  <2>4. n \in Msg /\ d \in Msg /\ n.topic = d.topic /\ n.key = d.key /\ n.failed = d.failed
    BY <1>3, <1>5, <2>3
  <2>5. \A a, b \in Msg : a.topic = b.topic /\ a.key = b.key /\ a.failed = b.failed => a = b
    BY DEF Msg
  <2>6. n = d
    BY <2>4, <2>5, Zenon
  <2> QED
    BY <1>4, <2>6
<1>6. /\ q2 \in [Topics -> Seq(Msg)] /\ Waiting(q2, pub \union {d}, ow) /\ Origins(pub \union {d})
      /\ \A c \in Consumers : DeadLetter(d, c) \notin pub \union {d}
  <2>1. \A n \in pub : ~(n.key = d.key /\ n.failed = d.failed)
    BY <1>5
  <2>2. d.failed # <<>> => \E n \in pub, c \in Consumers : d = DeadLetter(n, c)
    BY <1>a, <1>0, <1>1
  <2>3. Joined(q2, pub, ow, d)
    BY <1>3, <1>4, <2>1, <2>2, <1>a, Enqueued
  <2> QED
    BY <2>3 DEF Joined
<1>11. Hands(l, s2, pub \union {d}, ow, gt)
  <2>1. ASSUME NEW h, Handing(h, l, pub, ow, gt \union {<<f.msg, f.at>>})
        PROVE  Handing(h, l, pub \union {d}, ow, gt)
    BY <2>1 DEF Handing
  <2> QED
    BY <1>1, <2>1 DEF Hands
<1>7. Shapes(q2, l, s2, pub \union {d}, ow, gt)
  BY <1>1, <1>3, <1>6 DEF Sound, Shapes
<1>8. \A c \in Consumers : <<d, c>> \notin ow
  BY <1>4 DEF Sound, Shapes
<1>9. Owing(l, s2, pub \union {d}, ow, gt)
  BY <1>a, <1>1, <1>8 DEF Sound, Owing
<1>10. Letters(s2, pub \union {d}, ow, gt)
  <2>1. ASSUME NEW n \in pub, NEW c \in Consumers, DeadLetter(n, c) \in pub \union {d}
        PROVE  <<n, c>> \in ow \ gt /\ ~Held(s2, n, c)
    <3>1. CASE DeadLetter(n, c) \in pub
      BY <1>1, <3>1 DEF Sound, Letters
    <3>2. CASE DeadLetter(n, c) = d
      <4>1. n.key = f.msg.key /\ n.failed = f.msg.failed /\ c = f.at
        BY <1>a, <1>0, <1>3, <3>2, LettersTell
      <4>2. n = f.msg
        BY <1>1, <4>1 DEF Sound, Origins
      <4> QED
        BY <1>1, <4>1, <4>2
    <3> QED
      BY <2>1, <3>1, <3>2
  <2> QED
    BY <1>6, <2>1 DEF Letters
<1> QED
  BY <1>a, <1>1, <1>3, <1>6, <1>7, <1>9, <1>10, <1>11 DEF Sound

(* Task p's innermost drain has served everybody and returns. *)
Returns(s, p, f, s2) ==
    /\ p \in Tasks /\ s[p] # <<>> /\ f = s[p][Len(s[p])] /\ f.at = None /\ f.left = {}
    /\ s2 = WithoutTop(s, p)

(* Nobody still had to be served by it. *)
LEMMA PopKeeps ==
    ASSUME NEW q, NEW l, NEW s, NEW pub, NEW ow, NEW gt, Sound(q, l, s, pub, ow, gt),
           NEW p, NEW f, NEW s2, Returns(s, p, f, s2)
    PROVE  Sound(q, l, s2, pub, ow, gt)
<1>0. /\ p \in Tasks /\ s[p] # <<>> /\ f = s[p][Len(s[p])] /\ f.at = None /\ f.left = {}
      /\ s2 = WithoutTop(s, p)
  BY DEF Returns
<1>1. /\ s2 \in [Tasks -> Seq(Frame)]
      /\ Len(s[p]) \in Nat \ {0} /\ Len(s2[p]) = Len(s[p]) - 1
      /\ \A i \in 1 .. (Len(s[p]) - 1) : s2[p][i] = s[p][i]
      /\ \A r \in Tasks \ {p} : s2[r] = s[r]
  <2>1. s \in [Tasks -> Seq(Frame)]
    BY DEF Sound, Shapes
  <2> QED
    BY <1>0, <2>1, Popped
<1>2. \A r \in Tasks : \A i \in 1 .. Len(s2[r]) : i \in 1 .. Len(s[r]) /\ s2[r][i] = s[r][i]
  BY <1>0, <1>1
<1>3. \A r \in Tasks : \A i \in 1 .. Len(s[r]) :
         i \in 1 .. Len(s2[r]) \/ (r = p /\ s[r][i] = f)
  BY <1>0, <1>1
<1>4. ASSUME NEW n, NEW c \in Consumers PROVE Held(s2, n, c) <=> Held(s, n, c)
  <2>1. Held(s2, n, c) => Held(s, n, c)
    BY <1>0, <1>2 DEF Held
  <2>2. ASSUME NEW r \in Tasks, NEW i \in 1 .. Len(s[r]),
               s[r][i].msg = n /\ (c = s[r][i].at \/ c \in s[r][i].left)
        PROVE  Held(s2, n, c)
    <3>1. s[r][i] # f
      BY <1>0, <2>2, ConsumerAssumption
    <3>2. i \in 1 .. Len(s2[r]) /\ s2[r][i] = s[r][i]
      BY <1>0, <1>2, <1>3, <3>1
    <3> QED
      BY <1>0, <2>2, <3>2 DEF Held
  <2> QED
    BY <1>0, <2>1, <2>2 DEF Held
<1>5. Shapes(q, l, s2, pub, ow, gt) /\ Hands(l, s2, pub, ow, gt) /\ Alone(s2)
  <2>1. Shapes(q, l, s2, pub, ow, gt)
    BY <1>0, <1>1 DEF Sound, Shapes
  <2>2. Hands(l, s2, pub, ow, gt)
    BY <1>0, <1>2 DEF Sound, Hands
  <2>3. ASSUME NEW r \in Tasks, NEW u \in Tasks, NEW i \in 1 .. Len(s2[r]),
               NEW j \in 1 .. Len(s2[u]), s2[r][i].msg = s2[u][j].msg
        PROVE  r = u /\ i = j
    <3>1. /\ i \in 1 .. Len(s[r]) /\ j \in 1 .. Len(s[u])
          /\ s[r][i].msg = s[u][j].msg
      BY <1>0, <1>2, <2>3
    <3> QED
      BY <1>0, <3>1 DEF Sound, Alone
  <2> QED
    BY <1>0, <2>1, <2>2, <2>3 DEF Alone
<1>6. Owing(l, s2, pub, ow, gt) /\ Letters(s2, pub, ow, gt)
  BY <1>0, <1>4 DEF Sound, Owing, Letters
<1> QED
  BY <1>0, <1>5, <1>6 DEF Sound

(* A message from outside is published. *)
LEMMA PublishKeeps ==
    ASSUME NEW q, NEW l, NEW s, NEW pub, NEW ow, NEW gt, Sound(q, l, s, pub, ow, gt),
           NEW m \in Msg, m.failed = <<>>, \A n \in pub : n.key # m.key,
           NEW q2, q2 = WithLast(q, m)
    PROVE  Sound(q2, l, s, pub \union {m}, ow, gt)
<1>1. m \notin pub /\ \A n \in pub : ~(n.key = m.key /\ n.failed = m.failed)
  OBVIOUS
<1>2. Joined(q2, pub, ow, m)
  BY <1>1, Enqueued
<1>3. /\ q2 \in [Topics -> Seq(Msg)] /\ Waiting(q2, pub \union {m}, ow) /\ Origins(pub \union {m})
      /\ \A c \in Consumers : DeadLetter(m, c) \notin pub \union {m}
  BY <1>2 DEF Joined
<1>4. Shapes(q2, l, s, pub \union {m}, ow, gt)
  BY <1>3 DEF Sound, Shapes
<1>5. Hands(l, s, pub \union {m}, ow, gt)
  BY DEF Sound, Hands, Handing
<1>6. \A c \in Consumers : <<m, c>> \notin ow
  BY <1>1 DEF Sound, Shapes
<1>7. Owing(l, s, pub \union {m}, ow, gt)
  BY <1>6 DEF Sound, Owing
<1>8. Letters(s, pub \union {m}, ow, gt)
  <2>1. ASSUME NEW n \in pub, NEW c \in Consumers, DeadLetter(n, c) = m PROVE FALSE
    BY <2>1, LettersAreMessages DEF Sound, Shapes
  <2> QED
    BY <1>3, <2>1 DEF Sound, Letters
<1> QED
  BY <1>3, <1>4, <1>5, <1>7, <1>8 DEF Sound

(* The drains of topic t offer their messages to `change` of those they had *)
(* still to serve.                                                          *)
Reoffered(s, s2, t, c, joins) ==
    /\ s2 \in [Tasks -> Seq(Frame)]
    /\ \A p \in Tasks : Len(s2[p]) = Len(s[p])
    /\ \A p \in Tasks : \A i \in 1 .. Len(s[p]) :
         /\ s2[p][i].msg = s[p][i].msg /\ s2[p][i].at = s[p][i].at
         /\ s2[p][i].left = IF s[p][i].msg.topic # t THEN s[p][i].left
                            ELSE IF joins THEN s[p][i].left \union {c} ELSE s[p][i].left \ {c}

(* A consumer leaves. *)
LEMMA UnsubscribeKeeps ==
    ASSUME NEW q, NEW l, NEW s, NEW pub, NEW ow, NEW gt, Sound(q, l, s, pub, ow, gt),
           NEW c \in Consumers, l[c] \in Topics,
           NEW l2, l2 = [l EXCEPT ![c] = "gone"], NEW s2, Reoffered(s, s2, l[c], c, FALSE)
    PROVE  Sound(q, l2, s2, pub, ow, gt)
<1>1. /\ s2 \in [Tasks -> Seq(Frame)]
      /\ \A p \in Tasks : 1 .. Len(s2[p]) = 1 .. Len(s[p])
      /\ \A p \in Tasks : \A i \in 1 .. Len(s[p]) :
            /\ s2[p][i].msg = s[p][i].msg /\ s2[p][i].at = s[p][i].at
            /\ s2[p][i].left \subseteq s[p][i].left
            /\ s[p][i].left \subseteq s2[p][i].left \union {c}
            /\ s[p][i].msg.topic = l[c] => c \notin s2[p][i].left
  BY DEF Reoffered
<1>2. /\ l2 \in [Consumers -> Topics \union {"new", "gone"}] /\ l2[c] = "gone"
      /\ \A e \in Consumers \ {c} : l2[e] = l[e]
  BY DEF Sound, Shapes
<1>3. \A n : \A e \in Consumers : Held(s2, n, e) => Held(s, n, e)
  BY <1>1 DEF Held
<1>4. \A n : \A e \in Consumers \ {c} : Held(s, n, e) => Held(s2, n, e)
  BY <1>1 DEF Held
<1>5. Shapes(q, l2, s2, pub, ow, gt)
  BY <1>1, <1>2 DEF Sound, Shapes
<1>6. Hands(l2, s2, pub, ow, gt)
  <2>1. ASSUME NEW p \in Tasks, NEW i \in 1 .. Len(s[p]) PROVE Handing(s2[p][i], l2, pub, ow, gt)
    <3>1. Handing(s[p][i], l, pub, ow, gt)
      BY DEF Sound, Hands
    <3>2. s2[p][i] \in Frame
      BY <1>1
    <3>3. \A e \in s2[p][i].left : l2[e] = s2[p][i].msg.topic
      BY <1>1, <1>2, <3>1, <3>2 DEF Handing, Frame
    <3>4. \A e \in Consumers : e = s2[p][i].at \/ e \in s2[p][i].left => <<s2[p][i].msg, e>> \in ow \ gt
      BY <1>1, <3>1 DEF Handing
    <3>5. s2[p][i].at \notin s2[p][i].left
      BY <1>1, <3>1 DEF Handing
    <3>6. s2[p][i].msg \in pub /\ \E e \in Consumers : <<s2[p][i].msg, e>> \in ow
      BY <1>1, <3>1 DEF Handing
    <3> QED
      BY <3>3, <3>4, <3>5, <3>6 DEF Handing
  <2> QED
    BY <1>1, <2>1 DEF Hands
<1>7. Alone(s2)
  BY <1>1 DEF Sound, Alone
<1>8. Owing(l2, s2, pub, ow, gt)
  <2>1. \A m \in pub : m.topic # "gone"
    BY TopicAssumption DEF Sound, Shapes, Msg
  <2> QED
    BY <1>2, <1>4, <2>1 DEF Sound, Owing
<1>9. Letters(s2, pub, ow, gt)
  BY <1>3 DEF Sound, Letters
<1> QED
  BY <1>5, <1>6, <1>7, <1>8, <1>9 DEF Sound

(* Consumer c joins topic t, whose drains have the messages `held` in hand. *)
Joins(l, s, ow, c, t, l2, held, ow2) ==
    /\ l[c] = "new" /\ l2 = [l EXCEPT ![c] = t]
    /\ \A m : m \in held <=> \E p \in Tasks : \E i \in 1 .. Len(s[p]) :
                               s[p][i].msg = m /\ m.topic = t
    /\ ow2 = ow \union {<<m, c>> : m \in held}

(* It is owed these. *)
LEMMA SubscribeKeeps ==
    ASSUME NEW q, NEW l, NEW s, NEW pub, NEW ow, NEW gt, Sound(q, l, s, pub, ow, gt),
           NEW c \in Consumers, NEW t \in Topics, NEW l2, NEW s2, Reoffered(s, s2, t, c, TRUE),
           NEW held, NEW ow2, Joins(l, s, ow, c, t, l2, held, ow2)
    PROVE  Sound(q, l2, s2, pub, ow2, gt)
<1>a. l[c] = "new" /\ l2 = [l EXCEPT ![c] = t] /\ ow2 = ow \union {<<m, c>> : m \in held}
  BY DEF Joins
<1>b. \A m : m \in held <=> \E p \in Tasks : \E i \in 1 .. Len(s[p]) :
                           s[p][i].msg = m /\ m.topic = t
  BY DEF Joins
<1>1. /\ s2 \in [Tasks -> Seq(Frame)]
      /\ \A p \in Tasks : 1 .. Len(s2[p]) = 1 .. Len(s[p])
      /\ \A p \in Tasks : \A i \in 1 .. Len(s[p]) :
            /\ s2[p][i].msg = s[p][i].msg /\ s2[p][i].at = s[p][i].at
            /\ s[p][i].left \subseteq s2[p][i].left
            /\ s2[p][i].left \subseteq s[p][i].left \union {c}
            /\ c \in s2[p][i].left => c \in s[p][i].left \/ s[p][i].msg.topic = t
            /\ s[p][i].msg.topic = t => c \in s2[p][i].left
  <2>1. ASSUME NEW p \in Tasks, NEW i \in 1 .. Len(s[p])
        PROVE  /\ s2[p][i].msg = s[p][i].msg /\ s2[p][i].at = s[p][i].at
               /\ s2[p][i].left = IF s[p][i].msg.topic # t THEN s[p][i].left
                                  ELSE s[p][i].left \union {c}
    BY DEF Reoffered
  <2>2. s2 \in [Tasks -> Seq(Frame)] /\ \A p \in Tasks : 1 .. Len(s2[p]) = 1 .. Len(s[p])
    BY DEF Reoffered
  <2>3. ASSUME NEW p \in Tasks, NEW i \in 1 .. Len(s[p])
        PROVE  /\ s2[p][i].msg = s[p][i].msg /\ s2[p][i].at = s[p][i].at
               /\ s[p][i].left \subseteq s2[p][i].left
               /\ s2[p][i].left \subseteq s[p][i].left \union {c}
               /\ c \in s2[p][i].left => c \in s[p][i].left \/ s[p][i].msg.topic = t
               /\ s[p][i].msg.topic = t => c \in s2[p][i].left
    <3>1. CASE s[p][i].msg.topic = t
      BY <2>1, <3>1
    <3>2. CASE s[p][i].msg.topic # t
      BY <2>1, <3>2
    <3> QED
      BY <3>1, <3>2
  <2> QED
    BY <2>2, <2>3
<1>2. /\ l2 \in [Consumers -> Topics \union {"new", "gone"}] /\ l2[c] = t /\ t # "new"
      /\ \A e \in Consumers \ {c} : l2[e] = l[e]
  BY <1>a, TopicAssumption DEF Sound, Shapes
<1>3. \A m \in pub : <<m, c>> \notin ow
  BY <1>a DEF Sound, Owing
<1>4. \A p \in Tasks : \A i \in 1 .. Len(s[p]) : c # s[p][i].at /\ c \notin s[p][i].left
  <2>1. ASSUME NEW p \in Tasks, NEW i \in 1 .. Len(s[p])
        PROVE  c # s[p][i].at /\ c \notin s[p][i].left
    <3>1. Handing(s[p][i], l, pub, ow, gt)
      BY DEF Sound, Hands
    <3> QED
      BY <1>3, <3>1 DEF Handing
  <2> QED
    BY <2>1
<1>5. held \subseteq pub /\ \A m \in held : m.topic = t /\ \E e \in Consumers : <<m, e>> \in ow
  <2>1. ASSUME NEW m \in held
        PROVE  m \in pub /\ m.topic = t /\ \E e \in Consumers : <<m, e>> \in ow
    <3>1. PICK p \in Tasks : \E i \in 1 .. Len(s[p]) : s[p][i].msg = m /\ m.topic = t
      BY <1>b
    <3>2. PICK i \in 1 .. Len(s[p]) : s[p][i].msg = m /\ m.topic = t
      BY <3>1
    <3>3. Handing(s[p][i], l, pub, ow, gt)
      BY DEF Sound, Hands
    <3> QED
      BY <3>2, <3>3 DEF Handing
  <2> QED
    BY <2>1
<1>6. \A n : \A e \in Consumers : Held(s, n, e) => Held(s2, n, e)
  BY <1>1 DEF Held
<1>7. \A n : \A e \in Consumers \ {c} : Held(s2, n, e) => Held(s, n, e)
  BY <1>1 DEF Held
<1>8. \A m \in held : Held(s2, m, c)
  <2>1. ASSUME NEW m \in held PROVE Held(s2, m, c)
    <3>1. PICK p \in Tasks : \E i \in 1 .. Len(s[p]) : s[p][i].msg = m /\ m.topic = t
      BY <1>b
    <3>2. PICK i \in 1 .. Len(s[p]) : s[p][i].msg = m /\ m.topic = t
      BY <3>1
    <3>3. i \in 1 .. Len(s2[p]) /\ s2[p][i].msg = m /\ c \in s2[p][i].left
      BY <1>1, <3>2
    <3> QED
      BY <3>3 DEF Held
  <2> QED
    BY <2>1
<1>9. Shapes(q, l2, s2, pub, ow2, gt)
  BY <1>a, <1>1, <1>2, <1>5 DEF Sound, Shapes
<1>10. Waiting(q, pub, ow2)
  <2>1. ASSUME NEW u \in Topics, NEW i \in 1 .. Len(q[u]), NEW e \in Consumers
        PROVE  <<q[u][i], e>> \notin ow2
    <3>1. \A d \in Consumers : <<q[u][i], d>> \notin ow
      BY DEF Sound, Waiting
    <3>2. q[u][i] \notin held
      BY <1>5, <3>1
    <3> QED
      BY <1>a, <3>1, <3>2
  <2> QED
    BY <2>1 DEF Sound, Waiting
<1>11. Hands(l2, s2, pub, ow2, gt)
  <2>1. ASSUME NEW p \in Tasks, NEW i \in 1 .. Len(s[p]) PROVE Handing(s2[p][i], l2, pub, ow2, gt)
    <3>1. Handing(s[p][i], l, pub, ow, gt)
      BY DEF Sound, Hands
    <3>2. s2[p][i] \in Frame /\ c # s[p][i].at /\ c \notin s[p][i].left
      BY <1>1, <1>4
    <3>3. ASSUME NEW e \in s2[p][i].left PROVE l2[e] = s2[p][i].msg.topic
      <4>1. e \in Consumers /\ s2[p][i].msg = s[p][i].msg
        BY <1>1, <3>2 DEF Frame
      <4>2. CASE e = c
        <5>1. s[p][i].msg.topic = t
          BY <1>1, <3>2, <4>2
        <5> QED
          BY <1>2, <4>1, <4>2, <5>1
      <4>3. CASE e # c
        <5>1. e \in s[p][i].left
          BY <1>1, <4>3
        <5>2. l[e] = s[p][i].msg.topic
          BY <3>1, <5>1 DEF Handing
        <5>3. l2[e] = l[e]
          BY <1>2, <4>1, <4>3
        <5> QED
          BY <4>1, <5>2, <5>3
      <4> QED
        BY <4>2, <4>3
    <3>4. c \in s2[p][i].left => <<s2[p][i].msg, c>> \in ow2 \ gt
      <4>1. c \in s2[p][i].left => s[p][i].msg \in held
        BY <1>b, <1>1, <3>2
      <4> QED
        BY <1>a, <1>1, <1>3, <1>5, <4>1 DEF Sound, Shapes
    <3>5. \A e \in Consumers : e = s2[p][i].at \/ e \in s2[p][i].left => <<s2[p][i].msg, e>> \in ow2 \ gt
      <4>1. ASSUME NEW e \in Consumers, e # c, e = s2[p][i].at \/ e \in s2[p][i].left
            PROVE  <<s2[p][i].msg, e>> \in ow2 \ gt
        <5>1. e = s[p][i].at \/ e \in s[p][i].left
          BY <1>1, <4>1
        <5>2. <<s[p][i].msg, e>> \in ow \ gt
          BY <3>1, <5>1 DEF Handing
        <5> QED
          BY <1>a, <1>1, <5>2
      <4> QED
        BY <1>1, <3>2, <3>4, <4>1
    <3>6. s2[p][i].at \notin s2[p][i].left
      BY <1>1, <3>1, <3>2 DEF Handing
    <3>7. s2[p][i].msg \in pub /\ \E e \in Consumers : <<s2[p][i].msg, e>> \in ow2
      BY <1>a, <1>1, <3>1 DEF Handing
    <3> QED
      BY <3>3, <3>5, <3>6, <3>7 DEF Handing
  <2> QED
    BY <1>1, <2>1 DEF Hands
<1>12. Alone(s2)
  <2>1. /\ \A p \in Tasks : 1 .. Len(s2[p]) = 1 .. Len(s[p])
        /\ \A p \in Tasks : \A i \in 1 .. Len(s[p]) : s2[p][i].msg = s[p][i].msg
    BY <1>1
  <2> QED
    BY <2>1 DEF Sound, Alone
<1>13. Owing(l2, s2, pub, ow2, gt)
  <2>1. ASSUME NEW m \in pub, NEW e \in Consumers, <<m, e>> \in ow2
        PROVE  /\ l2[e] # "new"
               /\ l2[e] = m.topic => <<m, e>> \in gt \/ DeadLetter(m, e) \in pub \/ Held(s2, m, e)
    <3>1. CASE <<m, e>> \in ow
      <4>1. e # c
        BY <1>3, <3>1
      <4> QED
        BY <1>2, <1>6, <3>1, <4>1 DEF Sound, Owing
    <3>2. CASE e = c /\ m \in held
      BY <1>2, <1>8, <3>2
    <3> QED
      BY <1>a, <2>1, <3>1, <3>2
  <2> QED
    BY <2>1 DEF Owing
<1>14. Letters(s2, pub, ow2, gt)
  <2>1. ASSUME NEW m \in pub, NEW e \in Consumers, DeadLetter(m, e) \in pub
        PROVE  <<m, e>> \in ow2 \ gt /\ ~Held(s2, m, e)
    <3>1. <<m, e>> \in ow \ gt /\ ~Held(s, m, e)
      BY <2>1 DEF Sound, Letters
    <3>2. e # c
      BY <1>3, <3>1
    <3> QED
      BY <1>a, <1>7, <3>1, <3>2
  <2> QED
    BY <2>1 DEF Letters
<1> QED
  BY <1>9, <1>10, <1>11, <1>12, <1>13, <1>14 DEF Sound

-----------------------------------------------------------------------------

BusInv == Sound(queue, listens, stack, published, owed, got)

(* Take, after the other half of a step has made the bus q, l, s, pub, ow,  *)
(* gt, in which the messages w of topic t wait and p's drains are `outer`.  *)
LEMMA TakeStep ==
    ASSUME NEW q, NEW l, NEW s, NEW pub, NEW ow, NEW gt, Sound(q, l, s, pub, ow, gt),
           NEW p \in Tasks, NEW t \in Topics, NEW outer, NEW w, Take(p, outer, t, w),
           queue \in [Topics -> Seq(Msg)], stack \in [Tasks -> Seq(Frame)],
           q = [queue EXCEPT ![t] = w], s = [stack EXCEPT ![p] = outer],
           l = listens, ow = owed, l = listens', pub = published', gt = got'
    PROVE  BusInv'
<1>1. q[t] = w /\ s[p] = outer
  OBVIOUS
<1>2. CASE w # <<>> /\ On(t) # {}
  <2>1. PICK on : on = {c \in Consumers : l[c] = t} /\ on = On(t)
    BY DEF On
  <2>2. /\ stack' = [stack EXCEPT ![p] = Append(outer, [msg |-> Head(w), left |-> on,
                                                       at |-> None, tries |-> 0])]
        /\ queue' = [queue EXCEPT ![t] = Tail(w)]
        /\ owed' = owed \union {<<Head(w), c>> : c \in on}
    BY <1>2, <2>1 DEF Take
  <2>3. PICK q2, s2, ow2 : q2 = queue' /\ s2 = stack' /\ ow2 = owed'
    OBVIOUS
  <2>4. Taken(q, l, s, ow, p, t, on, q2, s2, ow2)
    <3>1. q2 = [q EXCEPT ![t] = Tail(q[t])]
      BY <1>1, <2>2, <2>3
    <3>2. s2 = [s EXCEPT ![p] = Append(s[p], [msg |-> Head(q[t]), left |-> on,
                                             at |-> None, tries |-> 0])]
      BY <1>1, <2>2, <2>3
    <3>3. ow2 = ow \union {<<Head(q[t]), c>> : c \in on}
      BY <1>1, <2>2, <2>3
    <3> QED
      BY <1>1, <1>2, <2>1, <3>1, <3>2, <3>3 DEF Taken
  <2>5. Sound(q2, l, s2, pub, ow2, gt)
    BY <2>4, TakeKeeps
  <2> QED
    BY <2>3, <2>5 DEF BusInv
<1>3. CASE ~(w # <<>> /\ On(t) # {})
  <2>1. queue' = q /\ stack' = s /\ owed' = ow
    BY <1>3 DEF Take
  <2> QED
    BY <2>1 DEF BusInv
<1> QED
  BY <1>2, <1>3

(* The innermost drain of a task that drains. *)
LEMMA TopIs ==
    ASSUME BusInv, NEW p \in Tasks, stack[p] # <<>>
    PROVE  /\ Top(p) = stack[p][Len(stack[p])] /\ Top(p) \in Frame
           /\ Top(p).at \notin Top(p).left
           /\ queue \in [Topics -> Seq(Msg)] /\ stack \in [Tasks -> Seq(Frame)]
<1>1. queue \in [Topics -> Seq(Msg)] /\ stack \in [Tasks -> Seq(Frame)]
  BY DEF BusInv, Sound, Shapes
<1>2. Len(stack[p]) \in 1 .. Len(stack[p]) /\ stack[p][Len(stack[p])] \in Frame
  <2>1. stack[p] \in Seq(Frame)
    BY <1>1
  <2>2. Len(stack[p]) \in Nat \ {0} /\ stack[p] \in [1 .. Len(stack[p]) -> Frame]
    BY <2>1, EmptySeq, LenProperties
  <2> QED
    BY <2>2
<1>3. Handing(stack[p][Len(stack[p])], listens, published, owed, got)
  BY <1>2 DEF BusInv, Sound, Hands
<1> QED
  BY <1>1, <1>2, <1>3 DEF Top, Last, Handing

(* A drain's steps. *)
LEMMA DrainKeeps ==
    ASSUME BusInv, NEW p \in Tasks, Drain(p) PROVE BusInv'
<1>1. stack[p] # <<>>
  BY DEF Drain, CallNext, TakeNext, Deliver, Retry, GiveUp, Between, Calling
<1>2. PICK q, l, s, pub, ow, gt :
         q = queue /\ l = listens /\ s = stack /\ pub = published /\ ow = owed /\ gt = got
  OBVIOUS
<1>3. PICK f : f = Top(p)
  OBVIOUS
<1>4. /\ Sound(q, l, s, pub, ow, gt) /\ f = s[p][Len(s[p])] /\ f \in Frame /\ f.at \notin f.left
      /\ s[p] # <<>> /\ queue \in [Topics -> Seq(Msg)] /\ stack \in [Tasks -> Seq(Frame)]
  BY <1>1, <1>2, <1>3, TopIs DEF BusInv
<1>5. \A g : SetTop(p, g) = WithTop(s, p, g)
  BY <1>2 DEF SetTop, WithTop
<1>6. CASE CallNext(p)
  <2>1. PICK c \in f.left : stack' = SetTop(p, [f EXCEPT !.at = c, !.left = @ \ {c}, !.tries = 1])
    BY <1>3, <1>6 DEF CallNext
  <2>2. PICK g : g = [f EXCEPT !.at = c, !.left = @ \ {c}, !.tries = 1]
    OBVIOUS
  <2>3. /\ g \in Frame /\ g.msg = f.msg /\ g.left = f.left \ {c} /\ g.at = c
        /\ c \in Consumers /\ f.at = None
    <3>1. c \in Consumers /\ f.left \ {c} \in SUBSET Consumers /\ 1 \in 0 .. MaxAttempts
      BY <1>4, RetryAssumption DEF Frame
    <3>2. g = [msg |-> f.msg, left |-> f.left \ {c}, at |-> c, tries |-> 1] /\ f.msg \in Msg
      BY <1>4, <2>2 DEF Frame
    <3>3. f.at = None
      BY <1>3, <1>6 DEF CallNext, Between
    <3> QED
      BY <3>1, <3>2, <3>3 DEF Frame
  <2>4. PICK s2 : s2 = stack' /\ s2 = WithTop(s, p, g)
    BY <1>5, <2>1, <2>2
  <2>5. Calls(s, p, f, g, s2)
    BY <1>4, <2>3, <2>4, ConsumerAssumption DEF Calls
  <2>6. Sound(q, l, s2, pub, ow, gt)
    BY <1>4, <2>5, CallKeeps
  <2> QED
    BY <1>2, <1>6, <2>4, <2>6 DEF BusInv, CallNext
<1>7. CASE Retry(p)
  <2>1. stack' = SetTop(p, [f EXCEPT !.tries = @ + 1]) /\ f.tries < MaxAttempts
    BY <1>3, <1>7 DEF Retry
  <2>2. PICK g : g = [f EXCEPT !.tries = @ + 1]
    OBVIOUS
  <2>3. g \in Frame /\ g.msg = f.msg /\ g.left = f.left /\ g.at = f.at
    <3>1. f.tries + 1 \in 0 .. MaxAttempts
      BY <1>4, <2>1, RetryAssumption DEF Frame
    <3> QED
      BY <1>4, <2>2, <3>1 DEF Frame
  <2>4. PICK s2 : s2 = stack' /\ s2 = WithTop(s, p, g)
    BY <1>5, <2>1, <2>2
  <2>5. Calls(s, p, f, g, s2)
    BY <1>4, <2>3, <2>4 DEF Calls
  <2>6. Sound(q, l, s2, pub, ow, gt)
    BY <1>4, <2>5, CallKeeps
  <2> QED
    BY <1>2, <1>7, <2>4, <2>6 DEF BusInv, Retry
<1>8. ASSUME Deliver(p) \/ GiveUp(p)
      PROVE  \E g, s2 : /\ s2 = WithTop(s, p, g) /\ g = [f EXCEPT !.at = None]
                        /\ Settles(s, p, f, g, s2)
  <2>1. f.at \in Consumers
    BY <1>3, <1>4, <1>8 DEF Deliver, GiveUp, Calling, Frame
  <2>2. PICK g, s2 : s2 = WithTop(s, p, g) /\ g = [f EXCEPT !.at = None]
    OBVIOUS
  <2>3. g \in Frame /\ g.msg = f.msg /\ g.left = f.left /\ g.at = None
    BY <1>4, <2>2 DEF Frame
  <2>4. Settles(s, p, f, g, s2)
    BY <1>4, <2>1, <2>2, <2>3 DEF Settles
  <2> QED
    BY <2>2, <2>4
<1>9. CASE Deliver(p)
  <2>1. PICK g, s2 : /\ s2 = WithTop(s, p, g) /\ g = [f EXCEPT !.at = None]
                     /\ Settles(s, p, f, g, s2)
    BY <1>8, <1>9
  <2>2. stack' = s2 /\ got' = gt \union {<<f.msg, f.at>>}
    BY <1>2, <1>3, <1>5, <1>9, <2>1 DEF Deliver
  <2>3. PICK gt2 : gt2 = gt \union {<<f.msg, f.at>>}
    OBVIOUS
  <2>4. Sound(q, l, s2, pub, ow, gt2)
    BY <1>4, <2>1, <2>3, DeliverKeeps
  <2> QED
    BY <1>2, <1>9, <2>2, <2>3, <2>4 DEF BusInv, Deliver
<1>10. CASE GiveUp(p)
  <2>1. PICK g, s2 : /\ s2 = WithTop(s, p, g) /\ g = [f EXCEPT !.at = None]
                     /\ Settles(s, p, f, g, s2)
    BY <1>8, <1>10
  <2>2. PICK d : d = DeadLetter(f.msg, f.at)
    OBVIOUS
  <2>3. PICK q2, pub2 : q2 = WithLast(q, d) /\ pub2 = pub \union {d}
    OBVIOUS
  <2>4. GivesUp(q, pub, f, d, q2, pub2)
    BY <1>3, <1>10, <2>2, <2>3 DEF GiveUp, GivesUp
  <2>5. Sound(q2, l, s2, pub2, ow, gt) /\ d \in Msg
    BY <1>4, <2>1, <2>4, GiveUpKeeps
  <2>6. /\ published' = published \union {d}
        /\ Take(p, SetTop(p, g)[p], d.topic, Append(queue[d.topic], d))
        /\ UNCHANGED <<listens, got>>
    BY <1>3, <1>10, <2>1, <2>2 DEF GiveUp, Publish
  <2>7. PICK outer, w, t : outer = SetTop(p, g)[p] /\ w = Append(queue[d.topic], d) /\ t = d.topic
    OBVIOUS
  <2>8. q2 = [queue EXCEPT ![t] = w] /\ t \in Topics
    BY <1>2, <2>3, <2>5, <2>7 DEF WithLast, Msg
  <2>9. s2 = [stack EXCEPT ![p] = outer]
    BY <1>2, <1>4, <2>1, <2>7 DEF SetTop, WithTop
  <2>11. Sound(q2, l, s2, pub2, ow, gt) /\ Take(p, outer, t, w)
    BY <2>5, <2>6, <2>7
  <2>12. l = listens /\ ow = owed /\ l = listens' /\ pub2 = published' /\ gt = got'
    BY <1>2, <2>3, <2>6
  <2> QED
    BY <1>4, <2>8, <2>9, <2>11, <2>12, TakeStep
<1>11. CASE TakeNext(p)
  <2>1. /\ f.at = None /\ f.left = {} /\ UNCHANGED <<listens, published, got>>
        /\ Take(p, Front(stack[p]), f.msg.topic, queue[f.msg.topic])
    BY <1>3, <1>11 DEF TakeNext, Between
  <2>2. PICK outer, w, t : outer = Front(stack[p]) /\ w = queue[t] /\ t = f.msg.topic
    OBVIOUS
  <2>3. PICK s2 : s2 = WithoutTop(s, p)
    OBVIOUS
  <2>4. Returns(s, p, f, s2)
    BY <1>4, <2>1, <2>3 DEF Returns
  <2>5. Sound(q, l, s2, pub, ow, gt)
    BY <1>4, <2>4, PopKeeps
  <2>6. t \in Topics /\ q = [queue EXCEPT ![t] = w] /\ s2 = [stack EXCEPT ![p] = outer]
    BY <1>2, <1>4, <2>2, <2>3 DEF WithoutTop, Frame, Msg
  <2>7. Take(p, outer, t, w)
    BY <2>1, <2>2
  <2>8. l = listens /\ ow = owed /\ l = listens' /\ pub = published' /\ gt = got'
    BY <1>2, <2>1
  <2> QED
    BY <1>4, <2>5, <2>6, <2>7, <2>8, TakeStep
<1> QED
  BY <1>6, <1>7, <1>9, <1>10, <1>11 DEF Drain

(* A function on an initial segment is a sequence. *)
LEMMA RowsAre ==
    ASSUME NEW S, NEW n \in Nat, NEW w \in [1 .. n -> S] PROVE w \in Seq(S) /\ Len(w) = n
<1>1. w \in Seq(S)
  OBVIOUS
<1> QED
  BY <1>1, LenProperties

(* What Rejoin does to the drains. *)
LEMMA RejoinIs ==
    ASSUME BusInv, NEW t, NEW c \in Consumers, NEW joins \in BOOLEAN,
           IF joins THEN Rejoin(t, LAMBDA left : left \union {c})
                    ELSE Rejoin(t, LAMBDA left : left \ {c})
    PROVE  Reoffered(stack, stack', t, c, joins)
<1>1. PICK s, s2 : s = stack /\ s2 = stack'
  OBVIOUS
<1>2. s \in [Tasks -> Seq(Frame)]
  BY <1>1 DEF BusInv, Sound, Shapes
<1>3. s2 = [p \in Tasks |-> [i \in DOMAIN s[p] |->
             IF s[p][i].msg.topic = t
             THEN [s[p][i] EXCEPT !.left = IF joins THEN @ \union {c} ELSE @ \ {c}]
             ELSE s[p][i]]]
  <2>1. CASE joins
    BY <1>1, <2>1 DEF Rejoin
  <2>2. CASE ~joins
    BY <1>1, <2>2 DEF Rejoin
  <2> QED
    BY <2>1, <2>2
<1>4. ASSUME NEW p \in Tasks, NEW i \in 1 .. Len(s[p])
      PROVE  /\ s[p][i] \in Frame /\ s2[p][i] \in Frame
             /\ s2[p][i].msg = s[p][i].msg /\ s2[p][i].at = s[p][i].at
             /\ s2[p][i].left = IF s[p][i].msg.topic # t THEN s[p][i].left
                                ELSE IF joins THEN s[p][i].left \union {c} ELSE s[p][i].left \ {c}
  <2>1. s[p] \in Seq(Frame)
    BY <1>2
  <2>2. s[p] \in [1 .. Len(s[p]) -> Frame] /\ DOMAIN s[p] = 1 .. Len(s[p])
    BY <2>1, LenProperties
  <2>3. PICK f \in Frame : f = s[p][i]
    BY <2>2
  <2>4. s2[p][i] = IF f.msg.topic = t
                   THEN [f EXCEPT !.left = IF joins THEN f.left \union {c} ELSE f.left \ {c}]
                   ELSE f
    BY <1>3, <2>2, <2>3
  <2>5. PICK e \in SUBSET Consumers : e = IF joins THEN f.left \union {c} ELSE f.left \ {c}
    BY DEF Frame
  <2>6. [f EXCEPT !.left = e] \in Frame
    BY DEF Frame
  <2>7. CASE f.msg.topic = t
    <3>1. s2[p][i] = [f EXCEPT !.left = e]
      BY <2>4, <2>5, <2>7
    <3>2. s2[p][i].msg = f.msg /\ s2[p][i].at = f.at /\ s2[p][i].left = e
      BY <3>1 DEF Frame
    <3> QED
      BY <2>3, <2>5, <2>6, <2>7, <3>1, <3>2
  <2>8. CASE f.msg.topic # t
    BY <2>3, <2>4, <2>8
  <2> QED
    BY <2>7, <2>8
<1>5. ASSUME NEW p \in Tasks PROVE s2[p] \in Seq(Frame) /\ Len(s2[p]) = Len(s[p])
  <2>1. s[p] \in Seq(Frame)
    BY <1>2
  <2>2. PICK n \in Nat : n = Len(s[p]) /\ DOMAIN s[p] = 1 .. n
    BY <2>1, LenProperties
  <2>3. s2[p] \in [1 .. n -> Frame]
    <3>1. \A i \in 1 .. n : s2[p][i] \in Frame
      BY <1>4, <2>2
    <3>2. s2[p] = [i \in 1 .. n |-> s2[p][i]]
      BY <1>3, <2>2
    <3> QED
      BY <3>1, <3>2
  <2> QED
    BY <2>2, <2>3, RowsAre
<1>6. s2 \in [Tasks -> Seq(Frame)]
  BY <1>3, <1>5
<1> QED
  BY <1>1, <1>4, <1>5, <1>6 DEF Reoffered

(* Consumers join and leave. *)
LEMMA SubscriptionsKeep ==
    ASSUME BusInv, Subscriptions PROVE BusInv'
<1>1. PICK q, l, s, pub, ow, gt :
         q = queue /\ l = listens /\ s = stack /\ pub = published /\ ow = owed /\ gt = got
  OBVIOUS
<1>2. PICK l2, s2, ow2 : l2 = listens' /\ s2 = stack' /\ ow2 = owed'
  OBVIOUS
<1>3. Sound(q, l, s, pub, ow, gt)
  BY <1>1 DEF BusInv
<1>4. ASSUME NEW c \in Consumers, Unsubscribe(c) PROVE BusInv'
  <2>1. /\ l[c] \in Topics /\ l2 = [l EXCEPT ![c] = "gone"]
        /\ UNCHANGED <<queue, published, owed, got>>
    BY <1>1, <1>2, <1>4 DEF Unsubscribe
  <2>2. PICK t : t = l[c]
    OBVIOUS
  <2>3. Rejoin(t, LAMBDA left : left \ {c})
    BY <1>1, <1>4, <2>2 DEF Unsubscribe, Rejoin
  <2>4. Reoffered(s, s2, t, c, FALSE)
    BY <1>1, <1>2, <2>3, RejoinIs
  <2>5. Sound(q, l2, s2, pub, ow, gt)
    BY <1>3, <2>1, <2>2, <2>4, UnsubscribeKeeps
  <2> QED
    BY <1>1, <1>2, <2>1, <2>5 DEF BusInv
<1>5. ASSUME NEW c \in Consumers, NEW t \in Topics, Subscribe(c, t) PROVE BusInv'
  <2>1. /\ l[c] = "new" /\ l2 = [l EXCEPT ![c] = t]
        /\ Rejoin(t, LAMBDA left : left \union {c})
        /\ owed' = owed \union {<<Hand(d).msg, c>> : d \in DrainsOf(t)}
        /\ UNCHANGED <<queue, published, got>>
    BY <1>1, <1>2, <1>5 DEF Subscribe
  <2>2. Reoffered(s, s2, t, c, TRUE)
    BY <1>1, <1>2, <2>1, RejoinIs
  <2>3. PICK held : held = {Hand(d).msg : d \in DrainsOf(t)}
    OBVIOUS
  <2>4. ow2 = ow \union {<<m, c>> : m \in held}
    <3>1. PICK D : D = DrainsOf(t)
      OBVIOUS
    <3>2. \A o : o \in {<<Hand(d).msg, c>> : d \in D} <=> o \in {<<m, c>> : m \in held}
      BY <2>3, <3>1
    <3>3. {<<Hand(d).msg, c>> : d \in D} = {<<m, c>> : m \in held}
      BY <3>2
    <3> QED
      BY <1>1, <1>2, <2>1, <3>1, <3>3
  <2>5. ASSUME NEW m
        PROVE  m \in held <=> \E p \in Tasks : \E i \in 1 .. Len(s[p]) :
                                 s[p][i].msg = m /\ m.topic = t
    <3>1. \A p \in Tasks : DOMAIN s[p] = 1 .. Len(s[p])
      BY <1>3, LenProperties DEF Sound, Shapes
    <3>2. m \in held <=> \E d \in Drains : Hand(d).msg = m /\ m.topic = t
      BY <2>3 DEF DrainsOf
    <3>3. \A d : d \in Drains <=> \E p \in Tasks : \E i \in DOMAIN s[p] : d = <<p, i>>
      BY <1>1 DEF Drains
    <3>4. \A p, i : Hand(<<p, i>>) = s[p][i]
      BY <1>1 DEF Hand
    <3>5. ASSUME NEW p \in Tasks, NEW i \in 1 .. Len(s[p]), s[p][i].msg = m, m.topic = t
          PROVE  m \in held
      <4>1. <<p, i>> \in Drains /\ Hand(<<p, i>>).msg = m
        BY <3>1, <3>3, <3>4, <3>5
      <4> QED
        BY <3>2, <3>5, <4>1
    <3>6. ASSUME m \in held
          PROVE  \E p \in Tasks : \E i \in 1 .. Len(s[p]) : s[p][i].msg = m /\ m.topic = t
      <4>1. PICK d \in Drains : Hand(d).msg = m /\ m.topic = t
        BY <3>2, <3>6
      <4>2. PICK p \in Tasks : \E i \in DOMAIN s[p] : d = <<p, i>>
        BY <3>3, <4>1
      <4>3. PICK i \in DOMAIN s[p] : d = <<p, i>>
        BY <4>2
      <4> QED
        BY <3>1, <3>4, <4>1, <4>3
    <3> QED
      BY <3>5, <3>6
  <2>6. Joins(l, s, ow, c, t, l2, held, ow2)
    BY <2>1, <2>4, <2>5 DEF Joins
  <2>7. Sound(q, l2, s2, pub, ow2, gt)
    BY <1>3, <2>2, <2>6, SubscribeKeeps
  <2> QED
    BY <1>1, <1>2, <2>1, <2>7 DEF BusInv
<1> QED
  BY <1>4, <1>5 DEF Subscriptions


-----------------------------------------------------------------------------

(* The task of a request drains nothing, and no message has its key. *)
Still(r) == stack[r] = <<>> /\ \A m \in published : m.key # r

(* So it is until the request has its answer. *)
QuietBefore ==
    \A r \in Requests : ~At(r, "answering") => Still(r) /\ request[r].answer = None

(* A request that was remembered. *)
Past(s) == request[s].pc \notin {"new", "lookup", "remember"}

(* A request in the handler carries a delivery and a body. *)
Carried ==
    \A r \in Requests : request[r].pc \in {"lookup", "remember", "map", "match", "store"} =>
                          request[r].delivery \in Deliveries /\ request[r].body \in AllBodies

(* What is remembered was brought by a request. *)
Brought ==
    \A d \in Deliveries :
        remembered[d] # None =>
            \E s \in Requests : /\ request[s].delivery = d /\ request[s].body = remembered[d]
                                /\ Past(s)

RequestTypeOK ==
    /\ request \in [Requests -> Request]
    /\ remembered \in [Deliveries -> AllBodies \union {None}]


(* What a step of the handler does to request r, whose record becomes h. *)
Moved(r, h) ==
    /\ h \in Request /\ request' = [request EXCEPT ![r] = h]
    /\ ~At(r, "answering") /\ h.pc # "new"
    /\ At(r, "new") \/ (h.delivery = request[r].delivery /\ h.body = request[r].body)
    /\ Past(r) => h.pc \notin {"new", "lookup", "remember"}
    /\ h.pc = "answering" \/ (h.answer = None /\ Still(r)')
    /\ h.pc = "answering" \/ (h.delivery \in Deliveries /\ h.body \in AllBodies)
    /\ h.answer = "deduped" =>
          \E s \in Requests \ {r} : /\ request[s].delivery = h.delivery
                                    /\ request[s].body = h.body /\ Past(s)

(* What it does to the rest. *)
Beside(r, h) ==
    /\ \A u \in Requests \ {r} : Still(u) => Still(u)'
    /\ remembered' \in [Deliveries -> AllBodies \union {None}]
    /\ \A d \in Deliveries :
          \/ remembered'[d] \in {None, remembered[d]}
          \/ /\ d = h.delivery /\ remembered'[d] = h.body
             /\ h.pc \notin {"new", "lookup", "remember"}

(* The handler's invariant. *)
HandlerInv == RequestTypeOK /\ QuietBefore /\ Carried /\ Brought /\ DuplicatesRepeat

IInv == BusInv /\ HandlerInv

LEMMA MovesKeep ==
    ASSUME HandlerInv, NEW r \in Requests, NEW h, Moved(r, h), Beside(r, h)
    PROVE  HandlerInv'
<1>1. /\ h \in Request /\ request \in [Requests -> Request]
      /\ request' \in [Requests -> Request] /\ request'[r] = h
      /\ \A u \in Requests \ {r} : request'[u] = request[u]
  BY DEF HandlerInv, RequestTypeOK, Moved
<1>2. RequestTypeOK'
  BY <1>1 DEF RequestTypeOK, Beside
<1>3. QuietBefore'
  <2>1. ASSUME NEW u \in Requests, request'[u].pc # "answering"
        PROVE  Still(u)' /\ request'[u].answer = None
    <3>1. CASE u = r
      BY <1>1, <2>1, <3>1 DEF Moved
    <3>2. CASE u # r
      BY <1>1, <2>1, <3>2 DEF HandlerInv, QuietBefore, Beside, At
    <3> QED
      BY <3>1, <3>2
  <2> QED
    BY <2>1 DEF QuietBefore, At
<1>4. Carried'
  <2>1. ASSUME NEW u \in Requests,
               request'[u].pc \in {"lookup", "remember", "map", "match", "store"}
        PROVE  request'[u].delivery \in Deliveries /\ request'[u].body \in AllBodies
    <3>1. CASE u = r
      BY <1>1, <2>1, <3>1 DEF Moved
    <3>2. CASE u # r
      BY <1>1, <2>1, <3>2 DEF HandlerInv, Carried
    <3> QED
      BY <3>1, <3>2
  <2> QED
    BY <2>1 DEF Carried
<1>5. ASSUME NEW s \in Requests, Past(s)
      PROVE  /\ request'[s].delivery = request[s].delivery
             /\ request'[s].body = request[s].body /\ Past(s)'
  <2>1. CASE s = r
    BY <1>1, <1>5, <2>1 DEF Moved, Past, At
  <2>2. CASE s # r
    BY <1>1, <1>5, <2>2 DEF Past
  <2> QED
    BY <2>1, <2>2
<1>6. Brought'
  <2>1. ASSUME NEW d \in Deliveries, remembered'[d] # None
        PROVE  \E s \in Requests : /\ request'[s].delivery = d
                                   /\ request'[s].body = remembered'[d] /\ Past(s)'
    <3>1. CASE remembered'[d] = remembered[d]
      BY <1>5, <2>1, <3>1 DEF HandlerInv, Brought
    <3>2. CASE /\ d = h.delivery /\ remembered'[d] = h.body
               /\ h.pc \notin {"new", "lookup", "remember"}
      BY <1>1, <3>2 DEF Past
    <3> QED
      BY <2>1, <3>1, <3>2 DEF Beside
  <2> QED
    BY <2>1 DEF Brought
<1>7. DuplicatesRepeat'
  <2>1. ASSUME NEW u \in Requests, request'[u].answer = "deduped"
        PROVE  \E s \in Requests \ {u} : /\ request'[u].delivery = request'[s].delivery
                                         /\ request'[u].body = request'[s].body /\ Past(s)'
    <3>1. CASE u = r
      <4>1. PICK s \in Requests \ {r} : /\ request[s].delivery = h.delivery
                                        /\ request[s].body = h.body /\ Past(s)
        BY <1>1, <2>1, <3>1 DEF Moved
      <4> QED
        BY <1>1, <1>5, <3>1, <4>1
    <3>2. CASE u # r
      <4>1. request[u].answer = "deduped" /\ request'[u] = request[u]
        BY <1>1, <2>1, <3>2
      <4>2. PICK s \in Requests \ {u} : Same(u, s) /\ Past(s)
        BY <4>1 DEF HandlerInv, DuplicatesRepeat, Past, At
      <4>3. /\ request'[s].delivery = request[s].delivery
            /\ request'[s].body = request[s].body /\ Past(s)'
        BY <1>5, <4>2
      <4> QED
        BY <4>1, <4>2, <4>3 DEF Same
    <3> QED
      BY <3>1, <3>2
  <2> QED
    BY <2>1 DEF DuplicatesRepeat, Same, Past, At
<1> QED
  BY <1>2, <1>3, <1>4, <1>6, <1>7 DEF HandlerInv

(* A step that is none of the handler's. *)
LEMMA StaysKeep ==
    ASSUME HandlerInv, UNCHANGED request, \A u \in Requests : Still(u) => Still(u)',
           remembered' \in [Deliveries -> AllBodies \union {None}],
           \A d \in Deliveries : remembered'[d] \in {None, remembered[d]}
    PROVE  HandlerInv'
<1>1. RequestTypeOK' /\ Carried'
  BY DEF HandlerInv, RequestTypeOK, Carried
<1>2. QuietBefore'
  BY DEF HandlerInv, QuietBefore, At
<1>3. \A s \in Requests : Past(s) => Past(s)'
  BY DEF Past
<1>4. Brought'
  BY <1>3 DEF HandlerInv, Brought
<1>5. DuplicatesRepeat'
  BY DEF HandlerInv, DuplicatesRepeat, Same, At
<1> QED
  BY <1>1, <1>2, <1>4, <1>5 DEF HandlerInv


-----------------------------------------------------------------------------

(* A drain is its own task's business. *)
LEMMA DrainsApart ==
    ASSUME BusInv, NEW p \in Tasks, Drain(p)
    PROVE  \A u \in Requests : Still(u) => Still(u)'
<1>1. stack[p] # <<>> /\ stack \in [Tasks -> Seq(Frame)]
  BY DEF Drain, CallNext, TakeNext, Deliver, Retry, GiveUp, Between, Calling, BusInv, Sound, Shapes
<1>2. \A g : \A u \in Tasks \ {p} : SetTop(p, g)[u] = stack[u]
  BY <1>1 DEF SetTop
<1>3. ASSUME NEW outer, NEW t, NEW w, Take(p, outer, t, w), NEW u \in Tasks \ {p}
      PROVE  stack'[u] = stack[u]
  BY <1>1, <1>3 DEF Take
<1>4. ASSUME NEW u \in Tasks \ {p} PROVE stack'[u] = stack[u]
  <2>1. CASE CallNext(p)
    BY <1>2, <1>4, <2>1 DEF CallNext
  <2>2. CASE Deliver(p)
    BY <1>2, <1>4, <2>2 DEF Deliver
  <2>3. CASE Retry(p)
    BY <1>2, <1>4, <2>3 DEF Retry
  <2>4. CASE TakeNext(p)
    <3>1. \E outer, t, w : Take(p, outer, t, w)
      BY <2>4 DEF TakeNext
    <3> QED
      BY <1>3, <1>4, <3>1
  <2>5. CASE GiveUp(p)
    <3>1. \E outer, t, w : Take(p, outer, t, w)
      BY <2>5 DEF GiveUp, Publish
    <3> QED
      BY <1>3, <1>4, <3>1
  <2> QED
    BY <2>1, <2>2, <2>3, <2>4, <2>5 DEF Drain
<1>5. ASSUME NEW m \in published' PROVE \E n \in published : n.key = m.key
  <2>1. CASE m \in published
    BY <2>1
  <2>2. CASE m \notin published
    <3>1. GiveUp(p)
      BY <1>5, <2>2 DEF Drain, CallNext, TakeNext, Deliver, Retry
    <3>2. m = DeadLetter(Top(p).msg, Top(p).at)
      BY <1>5, <2>2, <3>1 DEF GiveUp, Publish
    <3>3. m.key = Top(p).msg.key
      BY <3>2 DEF DeadLetter
    <3>4. Top(p) = stack[p][Len(stack[p])]
      BY <1>1, TopIs
    <3>5. Len(stack[p]) \in 1 .. Len(stack[p])
      <4>1. PICK w \in Seq(Frame) : w = stack[p]
        BY <1>1
      <4>2. Len(w) \in Nat \ {0}
        BY <1>1, <4>1, EmptySeq, LenProperties
      <4> QED
        BY <4>1, <4>2
    <3>6. Handing(stack[p][Len(stack[p])], listens, published, owed, got)
      BY <3>5 DEF BusInv, Sound, Hands
    <3> QED
      BY <3>3, <3>4, <3>6 DEF Handing
  <2> QED
    BY <2>1, <2>2
<1> QED
  BY <1>1, <1>4, <1>5 DEF Still, Requests

(* Those who join and leave start no drain. *)
LEMMA SubscriptionsApart ==
    ASSUME BusInv, Subscriptions PROVE \A u \in Requests : Still(u) => Still(u)'
<1>1. stack \in [Tasks -> Seq(Frame)]
  BY DEF BusInv, Sound, Shapes
<1>2. ASSUME NEW t, NEW c, NEW joins, Reoffered(stack, stack', t, c, joins),
             NEW u \in Tasks, stack[u] = <<>>
      PROVE  stack'[u] = <<>>
  <2>1. PICK w, w2 : w = stack[u] /\ w2 = stack'[u]
    OBVIOUS
  <2>2. w \in Seq(Frame) /\ w2 \in Seq(Frame) /\ Len(w2) = Len(w)
    BY <1>1, <1>2, <2>1 DEF Reoffered
  <2> QED
    BY <1>2, <2>1, <2>2, EmptySeq
<1>3. ASSUME NEW c \in Consumers, Unsubscribe(c)
      PROVE  published' = published /\ \E t, joins : Reoffered(stack, stack', t, c, joins)
  <2>1. PICK t : t = listens[c]
    OBVIOUS
  <2>2. Rejoin(t, LAMBDA left : left \ {c})
    BY <1>3, <2>1 DEF Unsubscribe, Rejoin
  <2>3. Reoffered(stack, stack', t, c, FALSE)
    BY <2>2, RejoinIs
  <2> QED
    BY <1>3, <2>3 DEF Unsubscribe
<1>4. ASSUME NEW c \in Consumers, NEW t \in Topics, Subscribe(c, t)
      PROVE  published' = published /\ \E u, joins : Reoffered(stack, stack', u, c, joins)
  <2>1. Rejoin(t, LAMBDA left : left \union {c})
    BY <1>4 DEF Subscribe
  <2>2. Reoffered(stack, stack', t, c, TRUE)
    BY <2>1, RejoinIs
  <2> QED
    BY <1>4, <2>2 DEF Subscribe
<1> QED
  BY <1>2, <1>3, <1>4 DEF Subscriptions, Still, Requests

(* A request publishes, and starts the drain it is answered after. *)
LEMMA PublishesItsOwn ==
    ASSUME BusInv, NEW r \in Requests, Still(r), NEW topic \in Topics,
           Publish(r, <<>>, [topic |-> topic, key |-> r, failed |-> <<>>]),
           UNCHANGED <<listens, got>>
    PROVE  BusInv' /\ \A u \in Requests \ {r} : Still(u) => Still(u)'
<1>1. PICK m : m = [topic |-> topic, key |-> r, failed |-> <<>>]
  OBVIOUS
<1>2. m \in Msg /\ m.failed = <<>> /\ m.topic = topic /\ m.key = r
  <2>1. <<>> \in SeqOf(Consumers, MaxNest)
    <3>1. <<>> \in Seq(Consumers) /\ Len(<<>>) = 0 /\ 0 <= MaxNest
      BY RetryAssumption
    <3> QED
      BY <3>1, FailuresBehind
  <2> QED
    BY <1>1, <2>1, IngressAssumption DEF Msg, Requests
<1>3. PICK q, l, s, pub, ow, gt :
         q = queue /\ l = listens /\ s = stack /\ pub = published /\ ow = owed /\ gt = got
  OBVIOUS
<1>4. Sound(q, l, s, pub, ow, gt)
  BY <1>3 DEF BusInv
<1>5. PICK q2 : q2 = WithLast(q, m)
  OBVIOUS
<1>6. \A n \in pub : n.key # m.key
  BY <1>2, <1>3 DEF Still
<1>7. Sound(q2, l, s, pub \union {m}, ow, gt)
  BY <1>2, <1>4, <1>5, <1>6, PublishKeeps
<1>8. PICK pub2, w : pub2 = pub \union {m} /\ w = Append(queue[topic], m)
  OBVIOUS
<1>9. published' = published \union {m} /\ Take(r, <<>>, topic, w)
  BY <1>1, <1>2, <1>8 DEF Publish
<1>10. queue \in [Topics -> Seq(Msg)] /\ stack \in [Tasks -> Seq(Frame)]
  BY DEF BusInv, Sound, Shapes
<1>11. q2 = [queue EXCEPT ![topic] = w] /\ s = [stack EXCEPT ![r] = <<>>]
  <2>1. q2 = [queue EXCEPT ![topic] = w]
    BY <1>2, <1>3, <1>5, <1>8 DEF WithLast
  <2>2. stack[r] = <<>>
    BY DEF Still
  <2> QED
    BY <1>3, <1>10, <2>1, <2>2 DEF Requests
<1>12. l = listens /\ ow = owed /\ l = listens' /\ pub2 = published' /\ gt = got'
  BY <1>3, <1>8, <1>9
<1>13. PICK outer : outer = <<>>
  OBVIOUS
<1>14. BusInv'
  <2>1. Sound(q2, l, s, pub2, ow, gt) /\ Take(r, outer, topic, w) /\ s = [stack EXCEPT ![r] = outer]
    BY <1>7, <1>8, <1>9, <1>11, <1>13
  <2> QED
    BY <1>10, <1>11, <1>12, <2>1, TakeStep DEF Requests
<1>15. ASSUME NEW u \in Requests \ {r}, Still(u) PROVE Still(u)'
  <2>1. stack'[u] = stack[u]
    BY <1>9, <1>10, <1>15 DEF Take, Requests
  <2> QED
    BY <1>2, <1>9, <1>15, <2>1 DEF Still
<1> QED
  BY <1>14, <1>15


(* The bus is left alone. *)
LEMMA BusRests ==
    ASSUME BusInv, UNCHANGED busVars
    PROVE  BusInv' /\ \A u \in Requests : Still(u) <=> Still(u)'
<1>1. /\ queue' = queue /\ listens' = listens /\ stack' = stack
      /\ published' = published /\ owed' = owed /\ got' = got
  BY DEF busVars
<1> QED
  BY <1>1 DEF BusInv, Still

(* A request is answered, and publishes or does not. *)
LEMMA AnswersKeep ==
    ASSUME IInv, NEW r \in Requests, ~At(r, "answering"), NEW answer \in Answers,
           Answer(r, answer), UNCHANGED remembered,
           \/ UNCHANGED busVars
           \/ \E topic \in Topics : PublishAndAnswer(r, topic, answer),
           answer = "deduped" => \E s \in Requests \ {r} : Same(r, s) /\ Past(s)
    PROVE  IInv'
<1>1. Still(r) /\ BusInv /\ HandlerInv
  BY DEF IInv, HandlerInv, QuietBefore
<1>2. BusInv' /\ \A u \in Requests \ {r} : Still(u) => Still(u)'
  <2>1. CASE UNCHANGED busVars
    BY <1>1, <2>1, BusRests
  <2>2. ASSUME NEW topic \in Topics, PublishAndAnswer(r, topic, answer)
        PROVE  BusInv' /\ \A u \in Requests \ {r} : Still(u) => Still(u)'
    <3>1. /\ Publish(r, <<>>, [topic |-> topic, key |-> r, failed |-> <<>>])
          /\ UNCHANGED <<listens, got>>
      BY <2>2 DEF PublishAndAnswer
    <3> QED
      BY <1>1, <3>1, PublishesItsOwn
  <2> QED
    BY <2>1, <2>2
<1>3. PICK f \in Request : f = request[r]
  BY <1>1 DEF HandlerInv, RequestTypeOK
<1>4. PICK h : h = [f EXCEPT !.pc = "answering", !.answer = answer]
  OBVIOUS
<1>5. /\ h \in Request /\ h.pc = "answering" /\ h.answer = answer
      /\ h.delivery = f.delivery /\ h.body = f.body
  BY <1>4 DEF Request, RequestPC
<1>6. request' = [request EXCEPT ![r] = h]
  BY <1>3, <1>4 DEF Answer
<1>7. Moved(r, h)
  <2>1. h.answer = "deduped" => \E s \in Requests \ {r} : /\ request[s].delivery = h.delivery
                                                         /\ request[s].body = h.body /\ Past(s)
    BY <1>3, <1>5 DEF Same
  <2>2. h.pc # "new" /\ h.pc \notin {"new", "lookup", "remember"}
    BY <1>5
  <2> QED
    BY <1>3, <1>5, <1>6, <2>1, <2>2 DEF Moved
<1>8. Beside(r, h)
  BY <1>1, <1>2 DEF Beside, HandlerInv, RequestTypeOK
<1> QED
  BY <1>1, <1>2, <1>7, <1>8, MovesKeep DEF IInv

(* A request goes on. *)
LEMMA GoesKeep ==
    ASSUME IInv, NEW r \in Requests, request[r].pc \in {"lookup", "remember", "map", "match"},
           NEW pc \in {"remember", "map", "match", "store"},
           Past(r) => pc # "remember",
           Goto(r, pc), UNCHANGED busVars,
           \/ UNCHANGED remembered
           \/ /\ pc # "remember"
              /\ remembered' = [remembered EXCEPT ![request[r].delivery] = request[r].body]
    PROVE  IInv'
<1>1. /\ Still(r) /\ BusInv /\ HandlerInv /\ request[r].answer = None
      /\ request[r].delivery \in Deliveries /\ request[r].body \in AllBodies
  BY DEF IInv, HandlerInv, QuietBefore, Carried, At
<1>2. BusInv' /\ \A u \in Requests : Still(u) => Still(u)'
  BY <1>1, BusRests
<1>3. PICK f \in Request : f = request[r]
  BY <1>1 DEF HandlerInv, RequestTypeOK
<1>4. PICK h : h = [f EXCEPT !.pc = pc]
  OBVIOUS
<1>5. /\ h \in Request /\ h.pc = pc /\ h.answer = None
      /\ h.delivery = f.delivery /\ h.body = f.body
  BY <1>1, <1>3, <1>4 DEF Request, RequestPC
<1>6. request' = [request EXCEPT ![r] = h]
  BY <1>3, <1>4 DEF Goto
<1>7. Moved(r, h)
  <2>1. h.answer # "deduped" /\ pc # "new" /\ ~At(r, "answering")
    BY <1>5, AnswerAssumption DEF At, Answers
  <2>2. Past(r) => pc \notin {"new", "lookup", "remember"}
    OBVIOUS
  <2>3. h.delivery \in Deliveries /\ h.body \in AllBodies /\ Still(r)'
    BY <1>1, <1>2, <1>3, <1>5
  <2> QED
    BY <1>3, <1>5, <1>6, <2>1, <2>2, <2>3 DEF Moved
<1>8. Beside(r, h)
  BY <1>1, <1>2, <1>3, <1>5 DEF Beside, HandlerInv, RequestTypeOK
<1> QED
  BY <1>1, <1>2, <1>7, <1>8, MovesKeep DEF IInv

(* The steps of the handler. *)
LEMMA HandleKeeps ==
    ASSUME IInv, NEW r \in Requests, Handle(r) PROVE IInv'
<1>1. ASSUME At(r, "lookup"), Lookup(r) PROVE IInv'
  <2>1. CASE remembered[request[r].delivery] = request[r].body
    <3>1. PublishAndAnswer(r, Notices, "deduped") /\ UNCHANGED remembered
      BY <1>1, <2>1 DEF Lookup
    <3>2. request[r].delivery \in Deliveries /\ request[r].body # None
      BY <1>1, BodyAssumption DEF IInv, HandlerInv, Carried, At
    <3>3. PICK s \in Requests : /\ request[s].delivery = request[r].delivery
                                /\ request[s].body = request[r].body /\ Past(s)
      BY <2>1, <3>2 DEF IInv, HandlerInv, Brought
    <3>4. s # r
      BY <1>1, <3>3 DEF Past, At
    <3>5. Answer(r, "deduped") /\ Notices \in Topics /\ "deduped" \in Answers
      BY <3>1, IngressAssumption DEF PublishAndAnswer, Answers
    <3>6. \E t \in Requests \ {r} : Same(r, t) /\ Past(t)
      BY <3>3, <3>4 DEF Same
    <3>7. ~At(r, "answering")
      BY <1>1 DEF At
    <3> QED
      BY <3>1, <3>5, <3>6, <3>7, AnswersKeep
  <2>2. CASE remembered[request[r].delivery] # request[r].body
    <3>1. Goto(r, "remember") /\ UNCHANGED busVars /\ UNCHANGED remembered
      BY <1>1, <2>2 DEF Lookup
    <3>2. ~Past(r) /\ request[r].pc = "lookup"
      BY <1>1 DEF Past, At
    <3> QED
      BY <3>1, <3>2, GoesKeep
  <2> QED
    BY <2>1, <2>2
<1>2. ASSUME Remember(r) PROVE IInv'
  <2>1. /\ Goto(r, "map") /\ UNCHANGED busVars /\ request[r].pc = "remember"
        /\ remembered' = [remembered EXCEPT ![request[r].delivery] = request[r].body]
    BY <1>2 DEF Remember, At
  <2> QED
    BY <2>1, GoesKeep
<1>3. ASSUME NEW answer \in Answers \ {"deduped"}, NEW topic \in Topics,
             PublishAndAnswer(r, topic, answer), UNCHANGED remembered, ~At(r, "answering")
      PROVE  IInv'
  BY <1>3, AnswersKeep DEF PublishAndAnswer
<1>4. ASSUME NEW answer \in Answers \ {"deduped"}, Answer(r, answer), UNCHANGED busVars,
             UNCHANGED remembered, ~At(r, "answering")
      PROVE  IInv'
  BY <1>4, AnswersKeep
<1>5. {Notices, Events} \subseteq Topics
  BY IngressAssumption
<1>6. ASSUME Map(r) PROVE IInv'
  <2>1. request[r].pc = "map" /\ ~At(r, "answering") /\ UNCHANGED remembered
    BY <1>6 DEF Map, At
  <2>2. CASE request[r].body = "unsupported"
    <3>1. PublishAndAnswer(r, Notices, "unsupported") /\ "unsupported" \in Answers \ {"deduped"}
      BY <1>6, <2>2 DEF Map, Answers
    <3> QED
      BY <1>3, <1>5, <2>1, <3>1
  <2>3. CASE request[r].body = "malformed"
    <3>1. Answer(r, "failed") /\ UNCHANGED busVars /\ "failed" \in Answers \ {"deduped"}
      BY <1>6, <2>3 DEF Map, Answers
    <3> QED
      BY <1>4, <2>1, <3>1
  <2>4. CASE request[r].body \notin {"unsupported", "malformed"}
    <3>1. PICK pc \in {"match", "store"} : Goto(r, pc) /\ UNCHANGED busVars
      BY <1>6, <2>4 DEF Map
    <3>2. pc \in {"remember", "map", "match", "store"} /\ pc # "remember"
      BY <3>1
    <3> QED
      BY <2>1, <3>1, <3>2, GoesKeep
  <2> QED
    BY <2>2, <2>3, <2>4
<1>7. ASSUME MatchEcho(r) PROVE IInv'
  <2>1. /\ PublishAndAnswer(r, Notices, "accepted") /\ "accepted" \in Answers \ {"deduped"}
        /\ UNCHANGED remembered /\ ~At(r, "answering")
    BY <1>7 DEF MatchEcho, Answers, At
  <2> QED
    BY <1>3, <1>5, <2>1
<1>8. ASSUME MatchNothing(r) PROVE IInv'
  <2>1. Goto(r, "store") /\ UNCHANGED busVars /\ UNCHANGED remembered /\ request[r].pc = "match"
    BY <1>8 DEF MatchNothing, At
  <2> QED
    BY <2>1, GoesKeep
<1>9. ASSUME StoreAndPublish(r) PROVE IInv'
  <2>1. /\ PublishAndAnswer(r, Events, "accepted") /\ "accepted" \in Answers \ {"deduped"}
        /\ UNCHANGED remembered /\ ~At(r, "answering")
    BY <1>9 DEF StoreAndPublish, Answers, At
  <2> QED
    BY <1>3, <1>5, <2>1
<1>10. ASSUME StoreFails(r) PROVE IInv'
  <2>1. /\ Answer(r, "failed") /\ "failed" \in Answers \ {"deduped"} /\ UNCHANGED busVars
        /\ UNCHANGED remembered /\ ~At(r, "answering")
    BY <1>10 DEF StoreFails, Answers, At
  <2> QED
    BY <1>4, <2>1
<1> QED
  BY <1>1, <1>2, <1>6, <1>7, <1>8, <1>9, <1>10 DEF Handle, Lookup

LEMMA NextKeeps ==
    ASSUME IInv, [Next]_vars PROVE IInv'
<1>1. BusInv /\ HandlerInv /\ remembered \in [Deliveries -> AllBodies \union {None}]
  BY DEF IInv, HandlerInv, RequestTypeOK
<1>2. ASSUME NEW r \in Requests, NEW d \in Deliveries, NEW body \in Bodies, Arrive(r, d, body)
      PROVE  IInv'
  <2>1. /\ At(r, "new") /\ UNCHANGED busVars /\ UNCHANGED remembered
        /\ request' = [request EXCEPT ![r] = [pc |-> "lookup", delivery |-> d,
                                              body |-> body, answer |-> None]]
    BY <1>2 DEF Arrive
  <2>2. PICK h : h = [pc |-> "lookup", delivery |-> d, body |-> body, answer |-> None]
    OBVIOUS
  <2>3. h \in Request /\ body \in AllBodies
    BY <2>2, BodyAssumption DEF Request, RequestPC
  <2>4. BusInv' /\ \A u \in Requests : Still(u) => Still(u)'
    BY <1>1, <2>1, BusRests
  <2>5. Still(r) /\ ~At(r, "answering") /\ ~Past(r)
    BY <1>1, <2>1 DEF HandlerInv, QuietBefore, At, Past
  <2>6. Moved(r, h)
    <3>1. /\ h.answer # "deduped" /\ h.answer = None /\ h.pc = "lookup" /\ Still(r)'
          /\ h.delivery \in Deliveries /\ h.body \in AllBodies
      BY <2>2, <2>3, <2>4, <2>5, AnswerAssumption DEF Answers
    <3>2. request' = [request EXCEPT ![r] = h]
      BY <2>1, <2>2
    <3>3. h.pc # "new"
      BY <3>1
    <3> QED
      BY <2>1, <2>3, <2>5, <3>1, <3>2, <3>3, Zenon DEF Moved
  <2>7. Beside(r, h)
    BY <1>1, <2>1, <2>4 DEF Beside
  <2> QED
    BY <1>1, <2>4, <2>6, <2>7, MovesKeep DEF IInv
<1>3. ASSUME NEW r \in Requests, ArriveUnsigned(r) PROVE IInv'
  <2>1. /\ Answer(r, "rejected") /\ PublishAndAnswer(r, Notices, "rejected")
        /\ UNCHANGED remembered /\ ~At(r, "answering") /\ "rejected" \in Answers
    BY <1>3 DEF ArriveUnsigned, PublishAndAnswer, Answers, At
  <2> QED
    BY <2>1, AnswersKeep, IngressAssumption
<1>4. ASSUME NEW d \in Deliveries, Forget(d) PROVE IInv'
  <2>1. UNCHANGED busVars /\ UNCHANGED request /\ remembered' = [remembered EXCEPT ![d] = None]
    BY <1>4 DEF Forget
  <2>2. /\ remembered' \in [Deliveries -> AllBodies \union {None}]
        /\ \A e \in Deliveries : remembered'[e] \in {None, remembered[e]}
    BY <1>1, <2>1
  <2>3. BusInv' /\ \A u \in Requests : Still(u) => Still(u)'
    BY <1>1, <2>1, BusRests
  <2> QED
    BY <1>1, <2>1, <2>2, <2>3, StaysKeep DEF IInv
<1>5. ASSUME BusInv', \A u \in Requests : Still(u) => Still(u)', UNCHANGED ingressVars
      PROVE  IInv'
  <2>1. UNCHANGED request /\ UNCHANGED remembered
    BY <1>5 DEF ingressVars
  <2> QED
    BY <1>1, <1>5, <2>1, StaysKeep DEF IInv
<1>6. ASSUME NEW p \in Tasks, Drain(p), UNCHANGED ingressVars PROVE IInv'
  BY <1>1, <1>5, <1>6, DrainKeeps, DrainsApart
<1>7. ASSUME Subscriptions, UNCHANGED ingressVars PROVE IInv'
  BY <1>1, <1>5, <1>7, SubscriptionsKeep, SubscriptionsApart
<1>8. CASE UNCHANGED vars
  <2>1. UNCHANGED busVars /\ UNCHANGED ingressVars
    BY <1>8 DEF vars
  <2> QED
    BY <1>1, <1>5, <2>1, BusRests
<1> QED
  BY <1>2, <1>3, <1>4, <1>6, <1>7, <1>8, HandleKeeps DEF Next

LEMMA InitHolds ==
    ASSUME Init PROVE IInv
<1>1. BusInv
  <2>1. PICK q, l, s : q = queue /\ l = listens /\ s = stack
    OBVIOUS
  <2>2. /\ published = {} /\ owed = {} /\ got = {}
        /\ q = [t \in Topics |-> <<>>] /\ l = [c \in Consumers |-> "new"]
        /\ s = [p \in Tasks |-> <<>>]
    BY <2>1 DEF Init, BusInit
  <2>3. /\ \A t \in Topics : q[t] = <<>> /\ Len(q[t]) = 0 /\ 1 .. Len(q[t]) = {}
        /\ \A p \in Tasks : s[p] = <<>> /\ Len(s[p]) = 0 /\ 1 .. Len(s[p]) = {}
    BY <2>2
  <2>4. Shapes(q, l, s, {}, {}, {})
    BY <2>2 DEF Shapes
  <2>5. Waiting(q, {}, {}) /\ Hands(l, s, {}, {}, {}) /\ Alone(s)
    BY <2>3 DEF Waiting, Hands, Alone
  <2>6. Owing(l, s, {}, {}, {}) /\ Letters(s, {}, {}, {}) /\ Origins({})
    BY DEF Owing, Letters, Origins
  <2> QED
    BY <2>1, <2>2, <2>4, <2>5, <2>6 DEF BusInv, Sound
<1>2. RequestTypeOK
  BY DEF Init, RequestTypeOK, Request, RequestPC
<1>3. QuietBefore
  BY DEF Init, BusInit, QuietBefore, Still, Requests
<1>4. Carried /\ Brought
  BY DEF Init, Carried, Brought
<1>5. DuplicatesRepeat
  BY AnswerAssumption DEF Init, DuplicatesRepeat, Answers
<1> QED
  BY <1>1, <1>2, <1>3, <1>4, <1>5 DEF IInv, HandlerInv


-----------------------------------------------------------------------------

(* What the model says of drains, in the invariant's words. *)
LEMMA InHandIsHeld ==
    ASSUME BusInv
    PROVE  /\ \A m, c : InHand(m, c) <=> Held(stack, m, c)
           /\ \A d \in Drains : \E p \in Tasks : \E i \in 1 .. Len(stack[p]) :
                 d = <<p, i>> /\ Hand(d) = stack[p][i]
<1>1. \A p \in Tasks : DOMAIN stack[p] = 1 .. Len(stack[p])
  <2>1. stack \in [Tasks -> Seq(Frame)]
    BY DEF BusInv, Sound, Shapes
  <2> QED
    BY <2>1, LenProperties
<1>2. \A d : d \in Drains <=> \E p \in Tasks : \E i \in 1 .. Len(stack[p]) : d = <<p, i>>
  BY <1>1 DEF Drains
<1>3. \A p, i : Hand(<<p, i>>) = stack[p][i]
  BY DEF Hand
<1>4. \A d \in Drains : \E p \in Tasks : \E i \in 1 .. Len(stack[p]) :
         d = <<p, i>> /\ Hand(d) = stack[p][i]
  BY <1>2, <1>3
<1>5. ASSUME NEW m, NEW c, InHand(m, c) PROVE Held(stack, m, c)
  <2>1. PICK d \in Drains : Hand(d).msg = m /\ (c = Hand(d).at \/ c \in Hand(d).left)
    BY <1>5 DEF InHand
  <2> QED
    BY <1>4, <2>1 DEF Held
<1>6. ASSUME NEW m, NEW c, Held(stack, m, c) PROVE InHand(m, c)
  <2>1. PICK p \in Tasks : \E i \in 1 .. Len(stack[p]) :
           stack[p][i].msg = m /\ (c = stack[p][i].at \/ c \in stack[p][i].left)
    BY <1>6 DEF Held
  <2>2. PICK i \in 1 .. Len(stack[p]) :
           stack[p][i].msg = m /\ (c = stack[p][i].at \/ c \in stack[p][i].left)
    BY <2>1
  <2>3. <<p, i>> \in Drains
    BY <1>2, <2>2
  <2> QED
    BY <1>3, <2>2, <2>3 DEF InHand
<1> QED
  BY <1>4, <1>5, <1>6

LEMMA InvariantSettles ==
    ASSUME BusInv PROVE NothingDropped /\ OneOutcome
<1>1. \A m, c : InHand(m, c) <=> Held(stack, m, c)
  BY InHandIsHeld
<1>2. published \subseteq Msg /\ owed \subseteq published \X Consumers /\ got \subseteq owed
  BY DEF BusInv, Sound, Shapes
<1>3. NothingDropped
  <2>1. ASSUME NEW m \in published, NEW c \in Consumers, <<m, c>> \in owed, listens[c] = m.topic
        PROVE  <<m, c>> \in got \/ Dead(m, c) \/ InHand(m, c)
    BY <1>1, <2>1 DEF BusInv, Sound, Owing, Dead
  <2>2. ASSUME NEW o \in owed, listens[o[2]] = o[1].topic
        PROVE  ~Unsettled(o) \/ InHand(o[1], o[2])
    <3>1. PICK m \in published, c \in Consumers : o = <<m, c>>
      BY <1>2
    <3> QED
      BY <2>1, <2>2, <3>1 DEF Unsettled
  <2> QED
    BY <2>2 DEF NothingDropped
<1>4. ASSUME NEW o \in got PROVE ~Dead(o[1], o[2]) /\ ~InHand(o[1], o[2])
  <2>1. PICK m \in published, c \in Consumers : o = <<m, c>>
    BY <1>2
  <2>2. ~Dead(m, c)
    BY <2>1 DEF BusInv, Sound, Letters, Dead
  <2>3. ASSUME Held(stack, m, c) PROVE FALSE
    <3>1. PICK p \in Tasks : \E i \in 1 .. Len(stack[p]) :
             stack[p][i].msg = m /\ (c = stack[p][i].at \/ c \in stack[p][i].left)
      BY <2>3 DEF Held
    <3>2. PICK i \in 1 .. Len(stack[p]) :
             stack[p][i].msg = m /\ (c = stack[p][i].at \/ c \in stack[p][i].left)
      BY <3>1
    <3>3. Handing(stack[p][i], listens, published, owed, got)
      BY DEF BusInv, Sound, Hands
    <3> QED
      BY <2>1, <3>2, <3>3 DEF Handing
  <2> QED
    BY <1>1, <2>1, <2>2, <2>3
<1>5. ASSUME NEW d \in Drains, NEW e \in Drains, Hand(d).msg = Hand(e).msg PROVE d = e
  <2>1. PICK p \in Tasks : \E i \in 1 .. Len(stack[p]) : d = <<p, i>> /\ Hand(d) = stack[p][i]
    BY InHandIsHeld
  <2>2. PICK r \in Tasks : \E j \in 1 .. Len(stack[r]) : e = <<r, j>> /\ Hand(e) = stack[r][j]
    BY InHandIsHeld
  <2> QED
    BY <1>5, <2>1, <2>2 DEF BusInv, Sound, Alone
<1>6. ASSUME NEW d \in Drains PROVE ~Contains(queue[Hand(d).msg.topic], Hand(d).msg)
  <2>1. PICK p \in Tasks : \E i \in 1 .. Len(stack[p]) : d = <<p, i>> /\ Hand(d) = stack[p][i]
    BY InHandIsHeld
  <2>2. PICK i \in 1 .. Len(stack[p]) : Hand(d) = stack[p][i]
    BY <2>1
  <2>3. Handing(stack[p][i], listens, published, owed, got)
    BY DEF BusInv, Sound, Hands
  <2>4. PICK m \in Msg : m = Hand(d).msg /\ m \in published
    BY <1>2, <2>2, <2>3 DEF Handing
  <2>5. PICK c \in Consumers : <<m, c>> \in owed
    BY <2>2, <2>3, <2>4 DEF Handing
  <2>6. m.topic \in Topics
    BY <2>4 DEF Msg
  <2>7. ASSUME NEW j \in 1 .. Len(queue[m.topic]), queue[m.topic][j] = m PROVE FALSE
    BY <2>5, <2>6, <2>7 DEF BusInv, Sound, Waiting
  <2> QED
    BY <2>4, <2>7 DEF Contains
<1> QED
  BY <1>3, <1>4, <1>5, <1>6 DEF OneOutcome

LEMMA Always ==
    Spec => []IInv
BY InitHolds, NextKeeps, PTL DEF Spec

(* The handler, the dedup store and the bus keep their shapes. *)
THEOREM TypesKept ==
    Spec => []TypeOK
<1>1. IInv => TypeOK
  BY DEF IInv, BusInv, Sound, Shapes, HandlerInv, RequestTypeOK, TypeOK, BusTypeOK
<1> QED
  BY <1>1, Always, PTL

(* However drains nest and overlap, and whoever joins and leaves meanwhile, *)
(* a consumer that is owed a message has returned from it, has a dead       *)
(* letter for it, is still to be called with it, or has left the topic.     *)
THEOREM OffersAreKept ==
    Spec => []NothingDropped
<1>1. IInv => NothingDropped
  BY InvariantSettles DEF IInv
<1> QED
  BY <1>1, Always, PTL

(* No consumer gets a message after it is done with it, no message is dead  *)
(* and delivered, and none is in two drains or in a drain and the queue.    *)
THEOREM OutcomesAreFinal ==
    Spec => []OneOutcome
<1>1. IInv => OneOutcome
  BY InvariantSettles DEF IInv
<1> QED
  BY <1>1, Always, PTL

(* A delivery is called a duplicate only of another with the same id and    *)
(* the same content that the handler remembered, however requests race and  *)
(* whatever the store forgets.                                              *)
THEOREM OnlyRepetitionsDropped ==
    Spec => []DuplicatesRepeat
<1>1. IInv => DuplicatesRepeat
  BY DEF IInv, HandlerInv
<1> QED
  BY <1>1, Always, PTL

=============================================================================
