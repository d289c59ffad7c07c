---------------------------- MODULE StreamsProofs ----------------------------
(***************************************************************************)
(* Proofs about the waits of a worker loop as MCStreams composes them: the *)
(* topic in memory, for every set of subscriptions and of emitters, every  *)
(* policy and every buffer size, and the request body, for every set of    *)
(* reading tasks, every high water mark and every limit.                   *)
(***************************************************************************)
EXTENDS MCStreams, FiniteSetTheorems, TLAPS

-----------------------------------------------------------------------------
(* Sequences                                                               *)

Distinct(s) == \A i, j \in DOMAIN s : s[i] = s[j] => i = j

(* What one more item at the back does to what a sequence holds.           *)
LEMMA PushedBack ==
  ASSUME NEW S, NEW s \in Seq(S), NEW x \in S
  PROVE  /\ Append(s, x) \in Seq(S)
         /\ Len(Append(s, x)) = Len(s) + 1
         /\ ToSet(Append(s, x)) = ToSet(s) \cup {x}
         /\ Distinct(s) /\ x \notin ToSet(s) => Distinct(Append(s, x))
<1> DEFINE t == Append(s, x)
<1>1. /\ t \in Seq(S) /\ Len(s) \in Nat /\ Len(t) = Len(s) + 1
      /\ DOMAIN s = 1 .. Len(s) /\ DOMAIN t = 1 .. Len(s) + 1
      /\ \A i \in DOMAIN s : t[i] = s[i]
      /\ t[Len(s) + 1] = x
  OBVIOUS
<1> HIDE DEF t
<1>2. ASSUME NEW y PROVE y \in ToSet(t) <=> y \in ToSet(s) \cup {x}
  BY <1>1 DEF ToSet
<1>3. Distinct(s) /\ x \notin ToSet(s) => Distinct(t)
  BY <1>1 DEF Distinct, ToSet
<1> QED BY <1>1, <1>2, <1>3 DEF t

(* What taking the item at the front does.                                 *)
LEMMA TakenOff ==
  ASSUME NEW S, NEW s \in Seq(S), s # <<>>
  PROVE  /\ Head(s) \in S /\ Head(s) \in ToSet(s)
         /\ Tail(s) \in Seq(S)
         /\ Len(Tail(s)) = Len(s) - 1 /\ Len(s) \in Nat \ {0}
         /\ ToSet(s) = ToSet(Tail(s)) \cup {Head(s)}
         /\ Distinct(s) => Distinct(Tail(s)) /\ Head(s) \notin ToSet(Tail(s))
<1> DEFINE t == Tail(s)
<1>1. /\ t \in Seq(S) /\ Len(s) \in Nat \ {0} /\ Len(t) = Len(s) - 1
      /\ DOMAIN s = 1 .. Len(s) /\ DOMAIN t = 1 .. Len(s) - 1
      /\ \A i \in DOMAIN t : t[i] = s[i + 1]
      /\ Head(s) = s[1] /\ s[1] \in S
  OBVIOUS
<1> HIDE DEF t
<1>2. ToSet(s) = ToSet(t) \cup {s[1]}
  <2>1. ASSUME NEW i \in DOMAIN s, i # 1 PROVE s[i] \in ToSet(t)
    <3>1. i - 1 \in DOMAIN t /\ t[i - 1] = s[i]
      BY <1>1, <2>1
    <3> QED BY <3>1 DEF ToSet
  <2>2. ASSUME NEW i \in DOMAIN t PROVE t[i] \in ToSet(s)
    BY <1>1 DEF ToSet
  <2>3. s[1] \in ToSet(s)
    BY <1>1 DEF ToSet
  <2> QED BY <2>1, <2>2, <2>3 DEF ToSet
<1>3. Distinct(s) => Distinct(t) /\ s[1] \notin ToSet(t)
  <2> SUFFICES ASSUME Distinct(s) PROVE Distinct(t) /\ s[1] \notin ToSet(t)
    OBVIOUS
  <2>1. Distinct(t)
    BY <1>1 DEF Distinct
  <2>2. ASSUME NEW i \in DOMAIN t PROVE t[i] # s[1]
    BY <1>1 DEF Distinct
  <2> QED BY <2>1, <2>2 DEF ToSet
<1> QED BY <1>1, <1>2, <1>3 DEF t

(* What list.remove does to a list without duplicates.                     *)
LEMMA Removed ==
  ASSUME NEW S, NEW s \in Seq(S), Distinct(s), NEW x
  PROVE  /\ RemoveFirst(s, x) \in Seq(S)
         /\ Distinct(RemoveFirst(s, x))
         /\ ToSet(RemoveFirst(s, x)) \subseteq ToSet(s)
<1>1. CASE ~ \E i \in 1 .. Len(s) : s[i] = x
  BY <1>1 DEF RemoveFirst
<1>2. CASE \E i \in 1 .. Len(s) : s[i] = x
  <2>1. PICK k \in 1 .. Len(s) : s[k] = x
    BY <1>2
  <2>2. {i \in 1 .. Len(s) : s[i] = x} = {k}
    BY <2>1 DEF Distinct
  <2>3. SelectInSeq(s, LAMBDA v : v = x) = k
    BY <2>2 DEF SelectInSeq, Min
  <2> DEFINE t == RemoveAt(s, k)
  <2>4. RemoveFirst(s, x) = t
    BY <1>2, <2>3 DEF RemoveFirst
  <2>5. /\ t \in Seq(S) /\ DOMAIN s = 1 .. Len(s) /\ DOMAIN t = 1 .. Len(s) - 1
        /\ \A i \in DOMAIN t : t[i] = s[IF i < k THEN i ELSE i + 1]
    <3> DEFINE a == SubSeq(s, 1, k - 1)
               b == SubSeq(s, k + 1, Len(s))
    <3>1. /\ a \in Seq(S) /\ Len(a) = k - 1 /\ \A i \in 1 .. k - 1 : a[i] = s[i]
          /\ b \in Seq(S) /\ Len(b) = Len(s) - k
          /\ \A i \in 1 .. Len(s) - k : b[i] = s[k + i]
      OBVIOUS
    <3>2. t = a \o b
      BY DEF RemoveAt
    <3> HIDE DEF a, b, t
    <3>3. t \in Seq(S) /\ Len(t) = Len(s) - 1
      BY <3>1, <3>2
    <3>4. ASSUME NEW i \in 1 .. Len(s) - 1
          PROVE  t[i] = s[IF i < k THEN i ELSE i + 1]
      <4>1. CASE i < k
        BY <3>1, <3>2, <4>1
      <4>2. CASE ~(i < k)
        <5>1. i - (k - 1) \in 1 .. Len(s) - k /\ k + (i - (k - 1)) = i + 1
          BY <4>2
        <5>2. t[i] = b[i - (k - 1)]
          BY <3>1, <3>2, <4>2
        <5> QED BY <3>1, <4>2, <5>1, <5>2
      <4> QED BY <4>1, <4>2
    <3> QED BY <3>3, <3>4
  <2> HIDE DEF t
  <2>6. Distinct(t)
    BY <2>5 DEF Distinct
  <2>7. ToSet(t) \subseteq ToSet(s)
    BY <2>5 DEF ToSet
  <2> QED BY <2>4, <2>5, <2>6, <2>7
<1> QED BY <1>1, <1>2

-----------------------------------------------------------------------------
(* Where everybody is                                                      *)

Messages == Emitters \X Nat

(* The types, by who writes the variable.                                  *)
ReaderShape ==
    /\ reader \in [Subs -> {"none", "running", "waiting", "done"}]
    /\ readerWoken \in [Subs -> BOOLEAN]
    /\ getter \in [Subs -> BOOLEAN]
    /\ closed \in [Subs -> BOOLEAN]

EmitterShape ==
    /\ emitter \in [Emitters -> {"idle", "offering", "offer_put", "offer_loop",
                                 "waiting", "counting", "counted"}]
    /\ nowait \in [Emitters -> BOOLEAN]
    /\ sent \in [Emitters -> Nat]
    /\ todo \in [Emitters -> Seq(Subs)]
    /\ seen \in [Emitters -> Nat]

CountShape ==
    /\ dropped \in [Subs -> Nat]
    /\ handed \in [Subs -> Nat]
    /\ taken \in [Subs -> Nat]
    /\ lastRead \in [Subs -> [Emitters -> Nat]]

QueueShape ==
    /\ subs \in Seq(Subs)
    /\ policy \in [Subs -> Policies]
    /\ buffer \in [Subs -> Seq(Messages)]
    /\ putters \in [Subs -> Seq(Messages)]
    /\ woken \subseteq Messages
    /\ \A s \in Subs : Len(buffer[s]) <= MaxSize

Shape == ReaderShape /\ EmitterShape /\ CountShape /\ QueueShape

(* A snapshot names opened subscriptions, each of them once, and an        *)
(* emitter that is past the lock of the first is at the first.             *)
Route ==
    /\ Distinct(subs)
    /\ \A s \in Subs : s \in ToSet(subs) => reader[s] # "none"
    /\ \A e \in Emitters :
          /\ Distinct(todo[e])
          /\ \A s \in Subs : s \in ToSet(todo[e]) => reader[s] # "none"
          /\ todo[e] = <<>> => emitter[e] \in {"idle", "offering"}

(* Wakes on their way are for those who wait; a reader that waits and is   *)
(* not being woken has left a getter.                                      *)
Wakes ==
    /\ \A w \in woken : IsWaiting(w)
    /\ \A s \in Subs :
          /\ readerWoken[s] => reader[s] = "waiting"
          /\ reader[s] = "waiting" => getter[s] \/ readerWoken[s]

WhereInv == Shape /\ Route /\ Wakes /\ ReaderNotStranded

(* Nobody is anywhere before the first step.                               *)
LEMMA InitWhere == Init => WhereInv
<1> SUFFICES ASSUME Init PROVE WhereInv
  OBVIOUS
<1>1. Shape
  BY TopicAssumption DEF Init, Shape, ReaderShape, EmitterShape, CountShape,
       QueueShape, Policies
<1>2. ToSet(<<>>) = {} /\ Distinct(<<>>)
  BY DEF ToSet, Distinct
<1>3. Route /\ Wakes /\ ReaderNotStranded
  BY <1>2 DEF Init, Route, Wakes, ReaderNotStranded
<1> QED BY <1>1, <1>3 DEF WhereInv

(* The steps of a subscription and of its reader.                          *)
LEMMA ReaderWhere ==
  ASSUME WhereInv, NEW s \in Subs,
         Subscribe(s) \/ Reading(s) \/ ReaderGivesUp(s) \/ Close(s)
  PROVE  WhereInv'
<1> USE TopicAssumption DEF WhereInv, Shape, Set, subVars, readerVars, emitVars
<1>1. CASE Subscribe(s)
  <2>1. /\ subs' \in Seq(Subs) /\ ToSet(subs') = ToSet(subs) \cup {s}
        /\ Distinct(subs')
    <3>1. s \notin ToSet(subs) /\ subs' = Append(subs, s) /\ subs \in Seq(Subs)
      BY <1>1 DEF Subscribe, Route, QueueShape
    <3>2. Distinct(subs)
      BY DEF Route
    <3> QED BY <3>1, <3>2, PushedBack
  <2>2. ReaderShape' /\ EmitterShape' /\ CountShape'
    BY <1>1 DEF Subscribe, ReaderShape, EmitterShape, CountShape
  <2>3. QueueShape'
    BY <1>1, <2>1 DEF Subscribe, QueueShape
  <2>4. Route'
    BY <1>1, <2>1 DEF Subscribe, Route, ReaderShape
  <2>5. Wakes' /\ ReaderNotStranded'
    BY <1>1 DEF Subscribe, ReaderShape, Wakes, ReaderNotStranded, IsWaiting
  <2> QED BY <2>2, <2>3, <2>4, <2>5
<1>2. CASE Read(s)
  <2>1. /\ Head(buffer[s]) \in Messages
        /\ Tail(buffer[s]) \in Seq(Messages)
        /\ Len(Tail(buffer[s])) = Len(buffer[s]) - 1 /\ Len(buffer[s]) \in Nat \ {0}
    <3>1. buffer[s] \in Seq(Messages) /\ buffer[s] # <<>>
      BY <1>2 DEF Read, QueueShape
    <3> QED BY <3>1, TakenOff
  <2>2. putters' \in [Subs -> Seq(Messages)] /\ woken' \subseteq Messages
    <3>1. CASE putters[s] = <<>>
      BY <1>2, <3>1 DEF Read, QueueShape
    <3>2. CASE putters[s] # <<>>
      <4>1. Head(putters[s]) \in Messages /\ Tail(putters[s]) \in Seq(Messages)
        <5>1. putters[s] \in Seq(Messages)
          BY DEF QueueShape
        <5> QED BY <3>2, <5>1, TakenOff
      <4>2. /\ putters' = [putters EXCEPT ![s] = Tail(putters[s])]
            /\ woken' \subseteq woken \cup {Head(putters[s])}
        BY <1>2, <3>2 DEF Read
      <4> QED BY <4>1, <4>2 DEF QueueShape
    <3> QED BY <3>1, <3>2
  <2>3. QueueShape'
    <3>1. buffer' \in [Subs -> Seq(Messages)] /\ \A x \in Subs : Len(buffer'[x]) <= MaxSize
      BY <1>2, <2>1 DEF Read, QueueShape
    <3> QED BY <1>2, <2>2, <3>1 DEF Read, QueueShape
  <2>4. CountShape'
    <3>1. Head(buffer[s])[1] \in Emitters /\ Head(buffer[s])[2] \in Nat
      BY <2>1 DEF Messages
    <3>2. lastRead' = [lastRead EXCEPT ![s][Head(buffer[s])[1]] = Head(buffer[s])[2]]
      BY <1>2 DEF Read
    <3>3. lastRead' \in [Subs -> [Emitters -> Nat]]
      BY <3>1, <3>2 DEF CountShape
    <3> QED BY <1>2, <3>3 DEF Read, CountShape
  <2>5. ReaderShape' /\ EmitterShape' /\ Route'
    BY <1>2 DEF Read, Route, ReaderShape, EmitterShape
  <2>6. Wakes'
    BY <1>2 DEF Read, Wakes, IsWaiting
  <2>7. ReaderNotStranded'
    BY <1>2 DEF Read, ReaderShape, ReaderNotStranded
  <2> QED BY <2>3, <2>4, <2>5, <2>6, <2>7
<1>3. CASE ReadNothing(s) \/ ReaderResumes(s) \/ ReaderGivesUp(s)
  <2> USE DEF ReadNothing, ReaderResumes, ReaderGivesUp
  <2>1. EmitterShape' /\ CountShape' /\ QueueShape'
    BY <1>3 DEF EmitterShape, CountShape, QueueShape
  <2>2. ReaderShape'
    BY <1>3 DEF ReaderShape
  <2>3. Route'
    <3>1. \A x \in Subs : reader'[x] = "none" => reader[x] = "none"
      BY <1>3 DEF ReaderShape
    <3> QED BY <1>3, <3>1 DEF Route
  <2>4. (\A w \in woken : IsWaiting(w))'
    BY <1>3 DEF Wakes, IsWaiting
  <2>5. Wakes' /\ ReaderNotStranded'
    BY <1>3, <2>4 DEF ReaderShape, Wakes, ReaderNotStranded
  <2> QED BY <2>1, <2>2, <2>3, <2>5
<1>5. CASE Close(s)
  <2>1. /\ subs' \in Seq(Subs) /\ ToSet(subs') \subseteq ToSet(subs)
        /\ Distinct(subs')
    <3>1. subs' = RemoveFirst(subs, s) /\ subs \in Seq(Subs) /\ Distinct(subs)
      BY <1>5 DEF Close, QueueShape, Route
    <3> QED BY <3>1, Removed
  <2>2. putters' \in [Subs -> Seq(Messages)] /\ woken' \subseteq Messages
    <3>1. ToSet(putters[s]) \subseteq Messages
      BY DEF ToSet, QueueShape
    <3> QED BY <1>5, <3>1 DEF Close, QueueShape
  <2>3. QueueShape'
    BY <1>5, <2>1, <2>2 DEF Close, QueueShape
  <2>4. ReaderShape' /\ EmitterShape' /\ CountShape'
    BY <1>5 DEF Close, WakeReader, ReaderShape, EmitterShape, CountShape
  <2>5. Route'
    BY <1>5, <2>1 DEF Close, Route
  <2>6. (\A w \in woken : IsWaiting(w))'
    BY <1>5 DEF Close, Wakes, IsWaiting
  <2>7. Wakes' /\ ReaderNotStranded'
    BY <1>5, <2>6 DEF Close, WakeReader, ReaderShape, Wakes, ReaderNotStranded
  <2> QED BY <2>3, <2>4, <2>5, <2>7
<1> QED BY <1>1, <1>2, <1>3, <1>5 DEF Reading

(* A step of an emitter that leaves subscriptions and readers where they   *)
(* are and takes what is left of its snapshot from t.                      *)
LEMMA Routed ==
  ASSUME WhereInv, NEW e \in Emitters, NEW t \in Seq(Subs),
         Distinct(t), \A s \in Subs : s \in ToSet(t) => reader[s] # "none",
         NEW at, t = <<>> => at \in {"idle", "offering"},
         emitter' = [emitter EXCEPT ![e] = at], todo' = [todo EXCEPT ![e] = t],
         UNCHANGED <<subs, reader>>
  PROVE  Route'
BY DEF WhereInv, Shape, EmitterShape, Route

(* What a snapshot that is not at its end has at its head, and without it. *)
LEMMA Ahead ==
  ASSUME WhereInv, NEW e \in Emitters, todo[e] # <<>>
  PROVE  /\ Head(todo[e]) \in Subs /\ Head(todo[e]) \in ToSet(todo[e])
         /\ reader[Head(todo[e])] # "none"
         /\ Tail(todo[e]) \in Seq(Subs) /\ Distinct(Tail(todo[e]))
         /\ ToSet(todo[e]) = ToSet(Tail(todo[e])) \cup {Head(todo[e])}
         /\ Head(todo[e]) \notin ToSet(Tail(todo[e]))
         /\ \A s \in Subs : s \in ToSet(Tail(todo[e])) => reader[s] # "none"
<1>1. todo[e] \in Seq(Subs) /\ Distinct(todo[e])
  BY DEF WhereInv, Shape, EmitterShape, Route
<1>2. /\ Head(todo[e]) \in Subs /\ Head(todo[e]) \in ToSet(todo[e])
      /\ Tail(todo[e]) \in Seq(Subs) /\ Distinct(Tail(todo[e]))
      /\ ToSet(todo[e]) = ToSet(Tail(todo[e])) \cup {Head(todo[e])}
      /\ Head(todo[e]) \notin ToSet(Tail(todo[e]))
  BY <1>1, TakenOff
<1> QED BY <1>2 DEF WhereInv, Route

(* Wakes on their way stay so when an emitter that does not wait moves.    *)
LEMMA WakesKept ==
  ASSUME WhereInv, NEW e \in Emitters, emitter[e] # "waiting", NEW at,
         emitter' = [emitter EXCEPT ![e] = at],
         UNCHANGED woken, \A f \in Emitters \ {e} : sent'[f] = sent[f]
  PROVE  (\A w \in woken : IsWaiting(w))'
<1> SUFFICES ASSUME NEW w \in woken PROVE IsWaiting(w)'
  OBVIOUS
<1>1. IsWaiting(w) /\ w[1] \in Emitters
  BY DEF WhereInv, Wakes, Shape, QueueShape, Messages
<1> QED BY <1>1 DEF IsWaiting, WhereInv, Shape, EmitterShape

(* A message appended to an open subscription: the reader that left a      *)
(* getter is woken.                                                        *)
LEMMA ReaderWoken ==
  ASSUME WhereInv, NEW s \in Subs, ~closed[s], WakeReader(s), UNCHANGED <<closed, reader>>,
         NEW b, buffer' = [buffer EXCEPT ![s] = b],
         (\A w \in woken : IsWaiting(w))'
  PROVE  ReaderShape' /\ Wakes' /\ ReaderNotStranded'
BY DEF WhereInv, Shape, ReaderShape, QueueShape, Wakes, ReaderNotStranded, WakeReader, Set

(* Steps of an emitter that leave the buffers and the readers alone.       *)
LEMMA ReaderLeftAlone ==
  ASSUME WhereInv, UNCHANGED <<buffer, closed, reader, readerWoken, getter>>,
         (\A w \in woken : IsWaiting(w))'
  PROVE  ReaderShape' /\ Wakes' /\ ReaderNotStranded'
BY DEF WhereInv, Shape, ReaderShape, Wakes, ReaderNotStranded

(* The steps of emit() and emit_nowait() that look at a subscription.      *)
LEMMA PutWhere ==
  ASSUME WhereInv, NEW e \in Emitters, NEW s \in Subs, Put(e, s)
  PROVE  WhereInv'
<1> USE TopicAssumption DEF Set, subVars, readerVars, emitVars
<1>0. /\ todo[e] # <<>> /\ s = Head(todo[e]) /\ emitter[e] # "waiting"
      /\ sent[e] \in Nat /\ Message(e) \in Messages
      /\ UNCHANGED <<subs, reader, closed, policy, putters, woken, sent, lastRead, taken, seen,
                     nowait>>
  <2>1. /\ todo[e] # <<>> /\ s = Head(todo[e]) /\ emitter[e] # "waiting"
        /\ UNCHANGED <<subs, reader, closed, policy, putters, woken, sent, lastRead, taken, seen,
                       nowait>>
    BY DEF Put, PutClosed, PutAppend, PutDropped, PutRaises, PutFull, At, Onward
  <2> QED BY <2>1 DEF WhereInv, Shape, EmitterShape, Message, Messages
<1>1. /\ Tail(todo[e]) \in Seq(Subs) /\ Distinct(Tail(todo[e]))
      /\ \A x \in Subs : x \in ToSet(Tail(todo[e])) => reader[x] # "none"
      /\ todo[e] \in Seq(Subs) /\ Distinct(todo[e])
      /\ \A x \in Subs : x \in ToSet(todo[e]) => reader[x] # "none"
  <2>1. /\ todo[e] \in Seq(Subs) /\ Distinct(todo[e])
        /\ \A x \in Subs : x \in ToSet(todo[e]) => reader[x] # "none"
    BY DEF WhereInv, Shape, EmitterShape, Route
  <2> QED BY <1>0, <2>1, Ahead
<1>2. <<>> \in Seq(Subs) /\ Distinct(<<>>) /\ ToSet(<<>>) = {}
  BY DEF Distinct, ToSet
<1>3. CASE PutClosed(e, s) \/ PutAppend(e, s) \/ PutDropped(e, s)
  <2>1. /\ emitter' = [emitter EXCEPT ![e] = "offering"]
        /\ todo' = [todo EXCEPT ![e] = Tail(todo[e])]
    BY <1>3 DEF PutClosed, PutAppend, PutDropped, Onward
  <2>2. Route' /\ (\A w \in woken : IsWaiting(w))' /\ EmitterShape'
    <3>1. Route'
      BY <1>0, <1>1, <2>1, Routed
    <3>2. (\A w \in woken : IsWaiting(w))'
      BY <1>0, <2>1, WakesKept
    <3>3. EmitterShape'
      BY <1>0, <1>1, <2>1 DEF WhereInv, Shape, EmitterShape
    <3> QED BY <3>1, <3>2, <3>3
  <2>3. CASE PutClosed(e, s) \/ PutDropped(e, s)
    <3>1. ReaderShape' /\ Wakes' /\ ReaderNotStranded'
      BY <1>0, <2>2, <2>3, ReaderLeftAlone DEF PutClosed, PutDropped
    <3>2. QueueShape'
      <4>1. UNCHANGED buffer
        BY <2>3 DEF PutClosed, PutDropped
      <4> QED BY <1>0, <4>1 DEF WhereInv, Shape, QueueShape
    <3>3. CountShape'
      <4>1. CASE PutClosed(e, s)
        BY <1>0, <4>1 DEF PutClosed, WhereInv, Shape, CountShape
      <4>2. CASE PutDropped(e, s)
        BY <1>0, <4>2 DEF PutDropped, WhereInv, Shape, CountShape
      <4> QED BY <2>3, <4>1, <4>2
    <3> QED BY <2>2, <3>1, <3>2, <3>3 DEF WhereInv, Shape
  <2>4. CASE PutAppend(e, s)
    <3> DEFINE old == IF Full(s) THEN Tail(buffer[s]) ELSE buffer[s]
    <3>1. buffer' = [buffer EXCEPT ![s] = Append(old, Message(e))] /\ WakeReader(s) /\ ~closed[s]
      BY <2>4 DEF PutAppend
    <3>2. buffer[s] \in Seq(Messages) /\ Len(buffer[s]) <= MaxSize /\ Len(buffer[s]) \in Nat
      BY DEF WhereInv, Shape, QueueShape
    <3>3. old \in Seq(Messages) /\ Len(old) < MaxSize
      <4>1. CASE Full(s)
        BY <3>2, <4>1, TakenOff DEF Full
      <4>2. CASE ~Full(s)
        BY <3>2, <4>2 DEF Full
      <4> QED BY <4>1, <4>2
    <3> HIDE DEF old
    <3>4. Append(old, Message(e)) \in Seq(Messages) /\ Len(Append(old, Message(e))) <= MaxSize
      BY <1>0, <3>3
    <3>5. QueueShape'
      BY <1>0, <3>1, <3>4 DEF WhereInv, Shape, QueueShape
    <3>6. CountShape'
      <4>1. CountShape /\ handed' = [handed EXCEPT ![s] = handed[s] + 1]
        BY <2>4 DEF PutAppend, WhereInv, Shape
      <4>2. \/ dropped' = dropped
            \/ dropped' = [dropped EXCEPT ![s] = dropped[s] + 1]
        BY <2>4 DEF PutAppend
      <4>3. UNCHANGED <<taken, lastRead>>
        BY <1>0
      <4>4. dropped \in [Subs -> Nat] /\ handed \in [Subs -> Nat]
        BY <4>1 DEF CountShape
      <4>5. dropped' \in [Subs -> Nat]
        BY <4>2, <4>4
      <4>6. handed' \in [Subs -> Nat]
        BY <4>1, <4>4
      <4> QED BY <4>1, <4>3, <4>5, <4>6 DEF CountShape
    <3>7. ReaderShape' /\ Wakes' /\ ReaderNotStranded'
      BY <1>0, <2>2, <3>1, ReaderWoken
    <3> QED BY <2>2, <3>5, <3>6, <3>7 DEF WhereInv, Shape
  <2> QED BY <1>3, <2>3, <2>4
<1>4. CASE PutRaises(e, s) \/ PutFull(e, s)
  <2>1. PICK at \in {"idle", "counting", "offer_put", "offer_loop"} :
           /\ emitter' = [emitter EXCEPT ![e] = at]
           /\ \/ at = "idle" /\ todo' = [todo EXCEPT ![e] = <<>>]
              \/ at # "idle" /\ UNCHANGED todo
    <3>1. CASE PutRaises(e, s)
      BY <3>1 DEF PutRaises
    <3>2. CASE PutFull(e, s)
      BY <3>2 DEF PutFull
    <3> QED BY <1>4, <3>1, <3>2
  <2>2. Route' /\ EmitterShape'
    <3>1. CASE at = "idle"
      <4>1. Route'
        BY <1>0, <1>2, <2>1, <3>1, Routed
      <4>2. EmitterShape'
        BY <1>0, <1>2, <2>1, <3>1 DEF WhereInv, Shape, EmitterShape
      <4> QED BY <4>1, <4>2
    <3>2. CASE at # "idle"
      <4>1. todo' = [todo EXCEPT ![e] = todo[e]]
        BY <2>1, <3>2 DEF WhereInv, Shape, EmitterShape
      <4>2. Route'
        BY <1>0, <1>1, <2>1, <4>1, Routed
      <4>3. EmitterShape'
        BY <1>0, <2>1, <3>2 DEF WhereInv, Shape, EmitterShape
      <4> QED BY <4>2, <4>3
    <3> QED BY <3>1, <3>2
  <2>3. (\A w \in woken : IsWaiting(w))'
    BY <1>0, <2>1, WakesKept
  <2>4. ReaderShape' /\ Wakes' /\ ReaderNotStranded'
    BY <1>0, <1>4, <2>3, ReaderLeftAlone DEF PutRaises, PutFull
  <2>5. QueueShape'
    <3>1. UNCHANGED buffer
      BY <1>4 DEF PutRaises, PutFull
    <3> QED BY <1>0, <3>1 DEF WhereInv, Shape, QueueShape
  <2>6. CountShape'
    <3>1. CASE PutRaises(e, s)
      BY <1>0, <3>1 DEF PutRaises, WhereInv, Shape, CountShape
    <3>2. CASE PutFull(e, s)
      <4>1. /\ CountShape /\ UNCHANGED dropped
            /\ \/ handed' = handed
               \/ handed' = [handed EXCEPT ![s] = handed[s] + 1]
        BY <3>2 DEF PutFull, WhereInv, Shape
      <4>2. UNCHANGED <<taken, lastRead>>
        BY <1>0
      <4>3. handed' \in [Subs -> Nat]
        BY <4>1 DEF CountShape
      <4> QED BY <4>1, <4>2, <4>3 DEF CountShape
    <3> QED BY <1>4, <3>1, <3>2
  <2> QED BY <2>2, <2>4, <2>5, <2>6 DEF WhereInv, Shape
<1> QED BY <1>3, <1>4 DEF Put

(* The loop of _offer, and the count of emit_nowait.                       *)
LEMMA OfferWhere ==
  ASSUME WhereInv, NEW e \in Emitters, NEW s \in Subs,
         Offer(e, s) \/ CountLoad(e, s) \/ CountStore(e, s)
  PROVE  WhereInv'
<1> USE TopicAssumption DEF Set, subVars, readerVars, emitVars
<1>0. /\ emitter[e] \in {"offer_loop", "counting", "counted"}
      /\ todo[e] # <<>> /\ s = Head(todo[e])
      /\ sent[e] \in Nat /\ Message(e) \in Messages
      /\ UNCHANGED <<subs, reader, closed, policy, woken, sent, lastRead, taken, nowait>>
  <2>1. /\ emitter[e] \in {"offer_loop", "counting", "counted"} /\ s = Head(todo[e])
        /\ UNCHANGED <<subs, reader, closed, policy, woken, sent, lastRead, taken, nowait>>
    BY DEF Offer, OfferClosed, OfferAppend, OfferWaits, AtLoop, Onward, CountLoad, CountStore
  <2>2. todo[e] # <<>>
    BY <2>1 DEF WhereInv, Route
  <2> QED BY <2>1, <2>2 DEF WhereInv, Shape, EmitterShape, Message, Messages
<1>1. /\ Tail(todo[e]) \in Seq(Subs) /\ Distinct(Tail(todo[e]))
      /\ \A x \in Subs : x \in ToSet(Tail(todo[e])) => reader[x] # "none"
  BY <1>0, Ahead
<1>2. /\ todo[e] \in Seq(Subs) /\ Distinct(todo[e])
      /\ \A x \in Subs : x \in ToSet(todo[e]) => reader[x] # "none"
  BY DEF WhereInv, Shape, EmitterShape, Route
<1>3. CASE OfferClosed(e, s) \/ OfferAppend(e, s) \/ CountStore(e, s)
  <2>1. /\ emitter' = [emitter EXCEPT ![e] = "offering"]
        /\ todo' = [todo EXCEPT ![e] = Tail(todo[e])]
        /\ UNCHANGED putters
    BY <1>3 DEF OfferClosed, OfferAppend, CountStore, Onward
  <2>2. Route'
    BY <1>0, <1>1, <2>1, Routed
  <2>3. (\A w \in woken : IsWaiting(w))'
    BY <1>0, <2>1, WakesKept
  <2>4. EmitterShape'
    <3>1. seen' \in [Emitters -> Nat]
      <4>1. seen' = seen \/ seen' = [seen EXCEPT ![e] = 0]
        BY <1>3 DEF OfferClosed, OfferAppend, CountStore, Onward
      <4>2. seen \in [Emitters -> Nat]
        BY DEF WhereInv, Shape, EmitterShape
      <4> QED BY <4>1, <4>2
    <3> QED BY <1>0, <1>1, <2>1, <3>1 DEF WhereInv, Shape, EmitterShape
  <2>5. CASE OfferAppend(e, s)
    <3>1. /\ buffer' = [buffer EXCEPT ![s] = Append(buffer[s], Message(e))]
          /\ WakeReader(s) /\ ~closed[s] /\ ~Full(s)
          /\ UNCHANGED dropped /\ handed' = [handed EXCEPT ![s] = handed[s] + 1]
      BY <2>5 DEF OfferAppend
    <3>2. buffer[s] \in Seq(Messages)
      BY DEF WhereInv, Shape, QueueShape
    <3>3. Append(buffer[s], Message(e)) \in Seq(Messages)
          /\ Len(Append(buffer[s], Message(e))) <= MaxSize
      BY <1>0, <3>1, <3>2 DEF Full
    <3>4. QueueShape'
      BY <1>0, <2>1, <3>1, <3>3 DEF WhereInv, Shape, QueueShape
    <3>5. CountShape'
      BY <1>0, <3>1 DEF WhereInv, Shape, CountShape
    <3>6. ReaderShape' /\ Wakes' /\ ReaderNotStranded'
      BY <1>0, <2>3, <3>1, ReaderWoken
    <3> QED BY <2>2, <2>4, <3>4, <3>5, <3>6 DEF WhereInv, Shape
  <2>6. CASE OfferClosed(e, s) \/ CountStore(e, s)
    <3>1. UNCHANGED <<buffer, closed, reader, readerWoken, getter, handed>>
      BY <1>0, <2>6 DEF OfferClosed, CountStore
    <3>2. ReaderShape' /\ Wakes' /\ ReaderNotStranded'
      BY <2>3, <3>1, ReaderLeftAlone
    <3>3. QueueShape'
      BY <1>0, <2>1, <3>1 DEF WhereInv, Shape, QueueShape
    <3>4. dropped' \in [Subs -> Nat]
      <4>1. dropped' = dropped \/ dropped' = [dropped EXCEPT ![s] = seen[e] + 1]
        BY <2>6 DEF OfferClosed, CountStore
      <4>2. seen[e] + 1 \in Nat
        BY DEF WhereInv, Shape, EmitterShape
      <4> QED BY <4>1, <4>2 DEF WhereInv, Shape, CountShape
    <3>5. CountShape'
      BY <1>0, <3>1, <3>4 DEF WhereInv, Shape, CountShape
    <3> QED BY <2>2, <2>4, <3>2, <3>3, <3>5 DEF WhereInv, Shape
  <2> QED BY <1>3, <2>5, <2>6
<1>4. CASE OfferWaits(e, s) \/ CountLoad(e, s)
  <2>1. PICK at \in {"waiting", "counted"} : emitter' = [emitter EXCEPT ![e] = at]
    BY <1>4 DEF OfferWaits, CountLoad
  <2>2. todo' = [todo EXCEPT ![e] = todo[e]] /\ UNCHANGED todo
    BY <1>4 DEF OfferWaits, CountLoad, WhereInv, Shape, EmitterShape
  <2>3. Route'
    BY <1>0, <1>2, <2>1, <2>2, Routed
  <2>4. (\A w \in woken : IsWaiting(w))'
    BY <1>0, <2>1, WakesKept
  <2>5. EmitterShape'
    <3>1. seen' \in [Emitters -> Nat]
      BY <1>4 DEF OfferWaits, CountLoad, WhereInv, Shape, EmitterShape, CountShape
    <3> QED BY <1>0, <2>1, <2>2, <3>1 DEF WhereInv, Shape, EmitterShape
  <2>6. UNCHANGED <<buffer, closed, reader, readerWoken, getter, handed, dropped>>
    BY <1>0, <1>4 DEF OfferWaits, CountLoad
  <2>7. ReaderShape' /\ Wakes' /\ ReaderNotStranded'
    BY <2>4, <2>6, ReaderLeftAlone
  <2>8. QueueShape' /\ CountShape'
    <3>1. putters[s] \in Seq(Messages)
      BY DEF WhereInv, Shape, QueueShape
    <3>2. Append(putters[s], Message(e)) \in Seq(Messages)
      BY <1>0, <3>1
    <3>3. putters' \in [Subs -> Seq(Messages)]
      BY <1>4, <3>2 DEF OfferWaits, CountLoad, WhereInv, Shape, QueueShape
    <3> QED BY <1>0, <2>6, <3>3 DEF WhereInv, Shape, QueueShape, CountShape
  <2> QED BY <2>3, <2>5, <2>7, <2>8 DEF WhereInv, Shape
<1> QED BY <1>3, <1>4 DEF Offer

(* The beginning and the end of a call, and of a wait.                     *)
LEMMA CallWhere ==
  ASSUME WhereInv, NEW e \in Emitters,
         Emit(e) \/ Return(e) \/ EmitterResumes(e) \/ EmitterCancelled(e)
  PROVE  WhereInv'
<1> USE TopicAssumption DEF Set, subVars, readerVars, emitVars
<1>0. /\ UNCHANGED <<subs, policy, buffer, closed, getter, putters, dropped, reader,
                     readerWoken, handed, taken, lastRead, seen>>
      /\ sent[e] \in Nat
  BY DEF Emit, Return, EmitterResumes, EmitterCancelled, WhereInv, Shape, EmitterShape
<1>1. CountShape'
  BY <1>0 DEF WhereInv, Shape, CountShape
<1>2. CASE Emit(e)
  <2>1. /\ emitter' = [emitter EXCEPT ![e] = "offering"] /\ todo' = [todo EXCEPT ![e] = subs]
        /\ emitter[e] = "idle" /\ UNCHANGED woken /\ sent' = [sent EXCEPT ![e] = sent[e] + 1]
        /\ nowait' \in [Emitters -> BOOLEAN]
    BY <1>2 DEF Emit, WhereInv, Shape, EmitterShape
  <2>2. /\ subs \in Seq(Subs) /\ Distinct(subs)
        /\ \A x \in Subs : x \in ToSet(subs) => reader[x] # "none"
    BY DEF WhereInv, Shape, QueueShape, Route
  <2>3. Route'
    BY <1>0, <2>1, <2>2, Routed
  <2>4. EmitterShape' /\ QueueShape'
    BY <1>0, <2>1, <2>2 DEF WhereInv, Shape, EmitterShape, QueueShape
  <2>5. (\A w \in woken : IsWaiting(w))'
    <3>1. \A f \in Emitters \ {e} : sent'[f] = sent[f]
      BY <2>1 DEF WhereInv, Shape, EmitterShape
    <3> QED BY <2>1, <3>1, WakesKept
  <2>6. ReaderShape' /\ Wakes' /\ ReaderNotStranded'
    BY <1>0, <2>5, ReaderLeftAlone
  <2> QED BY <1>1, <2>3, <2>4, <2>6 DEF WhereInv, Shape
<1>3. CASE Return(e) \/ EmitterResumes(e) \/ EmitterCancelled(e)
  <2>1. PICK at \in {"idle", "offer_loop"}, t \in {todo[e], <<>>} :
           /\ emitter' = [emitter EXCEPT ![e] = at] /\ todo' = [todo EXCEPT ![e] = t]
           /\ t = <<>> => at = "idle"
    <3>1. CASE Return(e)
      <4>1. todo' = [todo EXCEPT ![e] = todo[e]]
        BY <3>1 DEF Return, WhereInv, Shape, EmitterShape
      <4> QED BY <3>1, <4>1 DEF Return
    <3>2. CASE EmitterResumes(e)
      <4>1. todo' = [todo EXCEPT ![e] = todo[e]]
        BY <3>2 DEF EmitterResumes, WhereInv, Shape, EmitterShape
      <4>2. IsWaiting(Message(e))
        BY <3>2 DEF EmitterResumes, WhereInv, Wakes
      <4>3. todo[e] # <<>>
        BY <4>2 DEF IsWaiting, Message, WhereInv, Route
      <4> QED BY <3>2, <4>1, <4>3 DEF EmitterResumes
    <3>3. CASE EmitterCancelled(e)
      BY <3>3 DEF EmitterCancelled
    <3> QED BY <1>3, <3>1, <3>2, <3>3
  <2>2. /\ t \in Seq(Subs) /\ Distinct(t)
        /\ \A x \in Subs : x \in ToSet(t) => reader[x] # "none"
    <3>1. CASE t = todo[e]
      BY <3>1 DEF WhereInv, Shape, EmitterShape, Route
    <3>2. CASE t = <<>>
      BY <3>2 DEF ToSet, Distinct
    <3> QED BY <2>1, <3>1, <3>2
  <2>3. Route'
    BY <1>0, <2>1, <2>2, Routed
  <2>4. UNCHANGED <<sent, nowait>> /\ woken' \subseteq woken
    BY <1>3 DEF Return, EmitterResumes, EmitterCancelled
  <2>5. EmitterShape' /\ QueueShape'
    BY <1>0, <2>1, <2>2, <2>4 DEF WhereInv, Shape, EmitterShape, QueueShape
  <2>6. ASSUME NEW w \in woken' PROVE IsWaiting(w)'
    <3>1. w \in Messages /\ w \in woken /\ IsWaiting(w)
      BY <2>4 DEF WhereInv, Shape, QueueShape, Wakes
    <3>2. w[1] # e
      <4>1. ASSUME w[1] = e PROVE w = Message(e)
        BY <3>1, <4>1 DEF Messages, Message, IsWaiting
      <4> QED BY <1>3, <3>1, <4>1, <2>6 DEF Return, EmitterResumes, EmitterCancelled, IsWaiting
    <3>3. w[1] \in Emitters
      BY <3>1 DEF Messages
    <3> QED BY <2>1, <2>4, <3>1, <3>2, <3>3 DEF IsWaiting, WhereInv, Shape, EmitterShape
  <2>7. ReaderShape' /\ Wakes' /\ ReaderNotStranded'
    BY <1>0, <2>6, ReaderLeftAlone
  <2> QED BY <1>1, <2>3, <2>5, <2>7 DEF WhereInv, Shape
<1> QED BY <1>2, <1>3

(* Every step keeps everybody somewhere.                                   *)
LEMMA NextWhere == WhereInv /\ [Next]_vars => WhereInv'
<1> SUFFICES ASSUME WhereInv, [Next]_vars PROVE WhereInv'
  OBVIOUS
<1>1. CASE UNCHANGED vars
  BY <1>1 DEF vars, WhereInv, Shape, ReaderShape, EmitterShape, CountShape, QueueShape,
       Route, Wakes, ReaderNotStranded, IsWaiting
<1>2. ASSUME NEW s \in Subs, Subscribe(s) \/ Reading(s) \/ ReaderGivesUp(s) \/ Close(s)
      PROVE  WhereInv'
  BY <1>2, ReaderWhere
<1>3. ASSUME NEW e \in Emitters, Emit(e) \/ Emitting(e) \/ EmitterCancelled(e)
      PROVE  WhereInv'
  BY <1>3, PutWhere, OfferWhere, CallWhere DEF Emitting
<1> QED BY <1>1, <1>2, <1>3 DEF Next

-----------------------------------------------------------------------------
(* The order of one emitter's messages                                     *)

(* In a buffer, an emitter's messages are in the order it sent them.       *)
Increasing(b) ==
    \A i, j \in DOMAIN b : i < j /\ b[i][1] = b[j][1] => b[i][2] < b[j][2]

(* No message of e in a buffer has a number of n or more.                  *)
Below(b, e, n) == \A i \in DOMAIN b : b[i][1] = e => b[i][2] < n

(* All that is buffered is newer than what was read, by emitter.           *)
Fresh(b, had) == \A i \in DOMAIN b : b[i][2] > had[b[i][1]]

(* What an emitter has yet to offer is newer than all a subscriber has had *)
(* or will read from it before.                                            *)
OrderInv ==
    \A s \in Subs :
        /\ Increasing(buffer[s])
        /\ Fresh(buffer[s], lastRead[s])
        /\ \A e \in Emitters :
              /\ lastRead[s][e] <= sent[e]
              /\ Below(buffer[s], e, sent[e] + 1)
              /\ s \in ToSet(todo[e]) =>
                    lastRead[s][e] < sent[e] /\ Below(buffer[s], e, sent[e])

(* A newer message at the back.                                            *)
LEMMA NewerLast ==
  ASSUME NEW b \in Seq(Messages), NEW m \in Messages, Increasing(b), Below(b, m[1], m[2])
  PROVE  /\ Increasing(Append(b, m))
         /\ \A e \in Emitters, n \in Nat :
               Below(b, e, n) /\ (e = m[1] => m[2] < n) => Below(Append(b, m), e, n)
         /\ \A had \in [Emitters -> Nat] :
               Fresh(b, had) /\ m[2] > had[m[1]] => Fresh(Append(b, m), had)
<1> DEFINE c == Append(b, m)
<1>1. /\ Len(b) \in Nat /\ DOMAIN b = 1 .. Len(b) /\ DOMAIN c = 1 .. Len(b) + 1
      /\ \A i \in DOMAIN b : c[i] = b[i]
      /\ c[Len(b) + 1] = m
  OBVIOUS
<1> HIDE DEF c
<1>2. Increasing(c)
  <2> SUFFICES ASSUME NEW i \in DOMAIN c, NEW j \in DOMAIN c, i < j, c[i][1] = c[j][1]
               PROVE  c[i][2] < c[j][2]
    BY DEF Increasing
  <2>1. i \in DOMAIN b /\ c[i] = b[i]
    BY <1>1
  <2>2. CASE j \in DOMAIN b
    BY <1>1, <2>1, <2>2 DEF Increasing
  <2>3. CASE j = Len(b) + 1
    BY <1>1, <2>1, <2>3 DEF Below
  <2> QED BY <1>1, <2>2, <2>3
<1>3. \A e \in Emitters, n \in Nat :
         Below(b, e, n) /\ (e = m[1] => m[2] < n) => Below(c, e, n)
  BY <1>1 DEF Below
<1>4. \A had \in [Emitters -> Nat] : Fresh(b, had) /\ m[2] > had[m[1]] => Fresh(c, had)
  BY <1>1 DEF Fresh
<1> QED BY <1>2, <1>3, <1>4 DEF c

(* The oldest message gone.                                                *)
LEMMA OldestGone ==
  ASSUME NEW b \in Seq(Messages), b # <<>>
  PROVE  /\ Tail(b) \in Seq(Messages) /\ Head(b) \in Messages
         /\ Increasing(b) => Increasing(Tail(b))
         /\ \A e \in Emitters, n \in Nat : Below(b, e, n) => Below(Tail(b), e, n)
         /\ \A n \in Nat : Below(b, Head(b)[1], n) => Head(b)[2] < n
         /\ \A had \in [Emitters -> Nat] : Fresh(b, had) /\ Increasing(b) =>
               /\ Fresh(Tail(b), had)
               /\ Fresh(Tail(b), [had EXCEPT ![Head(b)[1]] = Head(b)[2]])
<1> DEFINE c == Tail(b)
<1>1. /\ c \in Seq(Messages) /\ Len(b) \in Nat \ {0} /\ DOMAIN b = 1 .. Len(b)
      /\ DOMAIN c = 1 .. Len(b) - 1
      /\ \A i \in DOMAIN c : c[i] = b[i + 1] /\ i + 1 \in DOMAIN b
      /\ Head(b) = b[1] /\ b[1] \in Messages /\ 1 \in DOMAIN b
  OBVIOUS
<1> HIDE DEF c
<1>2. Increasing(b) => Increasing(c)
  BY <1>1 DEF Increasing
<1>3. \A e \in Emitters, n \in Nat : Below(b, e, n) => Below(c, e, n)
  BY <1>1 DEF Below
<1>4. \A n \in Nat : Below(b, b[1][1], n) => b[1][2] < n
  BY <1>1 DEF Below
<1>5. ASSUME NEW had \in [Emitters -> Nat], Fresh(b, had), Increasing(b)
      PROVE  Fresh(c, had) /\ Fresh(c, [had EXCEPT ![b[1][1]] = b[1][2]])
  <2>1. Fresh(c, had)
    BY <1>1, <1>5 DEF Fresh
  <2>2. ASSUME NEW i \in DOMAIN c
        PROVE  c[i][2] > [had EXCEPT ![b[1][1]] = b[1][2]][c[i][1]]
    <3>1. c[i] \in Messages /\ c[i][1] \in Emitters /\ c[i][2] \in Nat /\ b[1][2] \in Nat
      <4>1. c[i] \in Messages /\ b[1] \in Messages
        BY <1>1
      <4> QED BY <4>1 DEF Messages
    <3>2. CASE c[i][1] = b[1][1]
      <4>1. b[1][2] < c[i][2]
        <5>1. i + 1 \in DOMAIN b /\ 1 \in DOMAIN b /\ 1 < i + 1 /\ c[i] = b[i + 1]
          BY <1>1
        <5>2. b[1][1] = b[i + 1][1]
          BY <3>2, <5>1
        <5> QED BY <1>5, <5>1, <5>2 DEF Increasing
      <4> QED BY <3>1, <3>2, <4>1
    <3>3. CASE c[i][1] # b[1][1]
      BY <2>1, <3>1, <3>3 DEF Fresh
    <3> QED BY <3>2, <3>3
  <2> QED BY <2>1, <2>2 DEF Fresh
<1> QED BY <1>1, <1>2, <1>3, <1>4, <1>5 DEF c

(* No message is in any buffer before the first step.                      *)
LEMMA InitOrder == Init => OrderInv
<1>1. Increasing(<<>>) /\ \A had : Fresh(<<>>, had)
  BY DEF Increasing, Fresh
<1>2. \A e, n : Below(<<>>, e, n)
  BY DEF Below
<1>3. ToSet(<<>>) = {}
  BY DEF ToSet
<1> QED BY <1>1, <1>2, <1>3 DEF Init, OrderInv

(* A step that leaves the buffers, the readers and the numbers alone, and  *)
(* no snapshot with more to offer.                                         *)
LEMMA OrderKept ==
  ASSUME WhereInv, OrderInv, UNCHANGED <<buffer, lastRead, sent>>,
         \A e \in Emitters : ToSet(todo'[e]) \subseteq ToSet(todo[e])
  PROVE  OrderInv'
BY DEF OrderInv

(* An emitter appends to the subscription it has come to.                  *)
LEMMA OrderAppend ==
  ASSUME WhereInv, OrderInv, NEW e \in Emitters, NEW s \in Subs, todo[e] # <<>>,
         s = Head(todo[e]), UNCHANGED <<lastRead, sent>>,
         todo' = [todo EXCEPT ![e] = Tail(todo[e])],
         \/ buffer' = [buffer EXCEPT ![s] = Append(buffer[s], Message(e))]
         \/ buffer[s] # <<>> /\ buffer' = [buffer EXCEPT ![s] = Append(Tail(buffer[s]), Message(e))]
  PROVE  OrderInv'
<1>1. /\ s \in ToSet(todo[e]) /\ ToSet(Tail(todo[e])) \subseteq ToSet(todo[e])
      /\ s \notin ToSet(Tail(todo[e]))
  BY Ahead
<1>2. /\ buffer \in [Subs -> Seq(Messages)] /\ sent \in [Emitters -> Nat]
      /\ Message(e) \in Messages /\ lastRead \in [Subs -> [Emitters -> Nat]]
      /\ todo \in [Emitters -> Seq(Subs)]
  BY DEF WhereInv, Shape, QueueShape, EmitterShape, CountShape, Message, Messages
<1>3. PICK b \in Seq(Messages) :
         /\ buffer' = [buffer EXCEPT ![s] = Append(b, Message(e))]
         /\ Increasing(b) /\ Fresh(b, lastRead[s])
         /\ \A f \in Emitters, n \in Nat : Below(buffer[s], f, n) => Below(b, f, n)
  <2>1. CASE buffer' = [buffer EXCEPT ![s] = Append(buffer[s], Message(e))]
    BY <1>2, <2>1 DEF OrderInv
  <2>2. CASE /\ buffer[s] # <<>>
             /\ buffer' = [buffer EXCEPT ![s] = Append(Tail(buffer[s]), Message(e))]
    <3>1. Increasing(buffer[s]) /\ Fresh(buffer[s], lastRead[s])
      BY DEF OrderInv
    <3>2. /\ Tail(buffer[s]) \in Seq(Messages)
          /\ Increasing(Tail(buffer[s])) /\ Fresh(Tail(buffer[s]), lastRead[s])
          /\ \A f \in Emitters, n \in Nat :
                Below(buffer[s], f, n) => Below(Tail(buffer[s]), f, n)
      BY <1>2, <2>2, <3>1, OldestGone
    <3> QED BY <2>2, <3>2
  <2> QED BY <2>1, <2>2
<1>4. Below(b, e, sent[e]) /\ lastRead[s][e] < sent[e] /\ sent[e] \in Nat
  BY <1>1, <1>2, <1>3 DEF OrderInv
<1>5. Message(e)[1] = e /\ Message(e)[2] = sent[e]
  BY DEF Message
<1> DEFINE c == Append(b, Message(e))
<1>6. /\ Increasing(c) /\ Fresh(c, lastRead[s])
      /\ \A f \in Emitters, n \in Nat : Below(b, f, n) /\ (f = e => sent[e] < n) => Below(c, f, n)
  BY <1>2, <1>3, <1>4, <1>5, NewerLast
<1>7. buffer' = [buffer EXCEPT ![s] = c]
  BY <1>3
<1> HIDE DEF c
<1>8. ASSUME NEW x \in Subs, NEW f \in Emitters
      PROVE  /\ Below(buffer'[x], f, sent[f] + 1)
             /\ x \in ToSet(todo'[f]) => lastRead[x][f] < sent[f] /\ Below(buffer'[x], f, sent[f])
  <2>1. /\ sent[f] \in Nat /\ Below(buffer[x], f, sent[f] + 1)
        /\ x \in ToSet(todo[f]) => lastRead[x][f] < sent[f] /\ Below(buffer[x], f, sent[f])
    BY <1>2 DEF OrderInv
  <2>2. x \in ToSet(todo'[f]) => x \in ToSet(todo[f]) /\ (f = e => x # s)
    BY <1>1, <1>2
  <2>3. CASE x # s
    BY <1>2, <1>7, <2>1, <2>2, <2>3
  <2>4. CASE x = s
    <3>1. buffer'[x] = c
      BY <1>2, <1>7, <2>4
    <3>2. Below(c, f, sent[f] + 1)
      BY <1>3, <1>6, <2>1, <2>4
    <3>3. x \in ToSet(todo'[f]) => Below(c, f, sent[f])
      BY <1>3, <1>6, <2>1, <2>2, <2>4
    <3> QED BY <2>1, <2>2, <3>1, <3>2, <3>3
  <2> QED BY <2>3, <2>4
<1>9. ASSUME NEW x \in Subs PROVE Increasing(buffer'[x]) /\ Fresh(buffer'[x], lastRead[x])
  BY <1>2, <1>6, <1>7 DEF OrderInv
<1> QED BY <1>8, <1>9 DEF OrderInv

(* Every step keeps every emitter's order.                                 *)
LEMMA NextOrder == WhereInv /\ OrderInv /\ [Next]_vars => OrderInv'
<1> SUFFICES ASSUME WhereInv, OrderInv, [Next]_vars PROVE OrderInv'
  OBVIOUS
<1> USE DEF Set, subVars, readerVars, emitVars
<1>0. ToSet(<<>>) = {} /\ todo \in [Emitters -> Seq(Subs)]
  BY DEF ToSet, WhereInv, Shape, EmitterShape
<1>1. CASE UNCHANGED vars
  BY <1>1, OrderKept DEF vars
<1>2. ASSUME NEW s \in Subs, Subscribe(s) \/ Reading(s) \/ ReaderGivesUp(s) \/ Close(s)
      PROVE  OrderInv'
  <2>1. CASE Subscribe(s) \/ ReadNothing(s) \/ ReaderResumes(s) \/ ReaderGivesUp(s) \/ Close(s)
    <3>1. UNCHANGED <<buffer, lastRead, sent, todo>>
      BY <2>1 DEF Subscribe, ReadNothing, ReaderResumes, ReaderGivesUp, Close
    <3> QED BY <3>1, OrderKept
  <2>2. CASE Read(s)
    <3> DEFINE m == Head(buffer[s])
               had == [lastRead[s] EXCEPT ![m[1]] = m[2]]
    <3>1. /\ buffer \in [Subs -> Seq(Messages)] /\ lastRead \in [Subs -> [Emitters -> Nat]]
          /\ sent \in [Emitters -> Nat] /\ buffer[s] # <<>>
          /\ Increasing(buffer[s]) /\ Fresh(buffer[s], lastRead[s])
      BY <2>2 DEF Read, WhereInv, Shape, QueueShape, EmitterShape, CountShape, OrderInv
    <3>2. /\ buffer' = [buffer EXCEPT ![s] = Tail(buffer[s])]
          /\ lastRead' = [lastRead EXCEPT ![s] = had] /\ UNCHANGED <<sent, todo>>
      BY <2>2 DEF Read
    <3>3. /\ m \in Messages
          /\ Increasing(Tail(buffer[s])) /\ Fresh(Tail(buffer[s]), had)
          /\ \A f \in Emitters, n \in Nat :
                Below(buffer[s], f, n) => Below(Tail(buffer[s]), f, n)
          /\ \A n \in Nat : Below(buffer[s], m[1], n) => m[2] < n
      BY <3>1, OldestGone
    <3>4. m[1] \in Emitters /\ m[2] \in Nat
      BY <3>3 DEF Messages
    <3> HIDE DEF m
    <3>5. ASSUME NEW f \in Emitters
          PROVE  /\ had[f] <= sent[f]
                 /\ s \in ToSet(todo[f]) => had[f] < sent[f]
      <4>1. /\ Below(buffer[s], f, sent[f] + 1) /\ sent[f] \in Nat /\ lastRead[s][f] <= sent[f]
            /\ s \in ToSet(todo[f]) => lastRead[s][f] < sent[f] /\ Below(buffer[s], f, sent[f])
        BY <3>1 DEF OrderInv
      <4>2. CASE f = m[1]
        <5>1. had[f] = m[2]
          BY <3>1, <3>4, <4>2
        <5>2. m[2] < sent[f] + 1
          BY <3>3, <4>1, <4>2
        <5>3. s \in ToSet(todo[f]) => m[2] < sent[f]
          BY <3>3, <4>1, <4>2
        <5> QED BY <3>4, <4>1, <5>1, <5>2, <5>3
      <4>3. CASE f # m[1]
        BY <3>1, <3>4, <4>1, <4>3
      <4> QED BY <4>2, <4>3
    <3> HIDE DEF had
    <3>6. ASSUME NEW x \in Subs
          PROVE  /\ Increasing(buffer'[x]) /\ Fresh(buffer'[x], lastRead'[x])
                 /\ \A f \in Emitters :
                       /\ lastRead'[x][f] <= sent[f]
                       /\ Below(buffer'[x], f, sent[f] + 1)
                       /\ x \in ToSet(todo[f]) =>
                             lastRead'[x][f] < sent[f] /\ Below(buffer'[x], f, sent[f])
      <4>1. CASE x # s
        BY <3>1, <3>2, <4>1 DEF OrderInv
      <4>2. CASE x = s
        <5>1. buffer'[x] = Tail(buffer[s]) /\ lastRead'[x] = had
          BY <3>1, <3>2, <4>2
        <5>2. \A f \in Emitters : /\ Below(Tail(buffer[s]), f, sent[f] + 1)
                                  /\ s \in ToSet(todo[f]) => Below(Tail(buffer[s]), f, sent[f])
          BY <3>1, <3>3 DEF OrderInv
        <5> QED BY <3>3, <3>5, <4>2, <5>1, <5>2
      <4> QED BY <4>1, <4>2
    <3> QED BY <3>2, <3>6 DEF OrderInv
  <2> QED BY <1>2, <2>1, <2>2 DEF Reading
<1>3. ASSUME NEW e \in Emitters, Emit(e)
      PROVE  OrderInv'
  <2>1. /\ UNCHANGED <<buffer, lastRead>> /\ sent' = [sent EXCEPT ![e] = sent[e] + 1]
        /\ todo' = [todo EXCEPT ![e] = subs]
    BY <1>3 DEF Emit
  <2>2. /\ buffer \in [Subs -> Seq(Messages)] /\ lastRead \in [Subs -> [Emitters -> Nat]]
        /\ sent \in [Emitters -> Nat]
    BY DEF WhereInv, Shape, QueueShape, EmitterShape, CountShape
  <2>3. ASSUME NEW b \in Seq(Messages), NEW f \in Emitters, NEW n \in Nat, Below(b, f, n)
        PROVE  Below(b, f, n + 1)
    BY <2>3 DEF Below, Messages
  <2>4. ASSUME NEW x \in Subs, NEW f \in Emitters
        PROVE  /\ lastRead[x][f] <= sent'[f]
               /\ Below(buffer[x], f, sent'[f] + 1)
               /\ x \in ToSet(todo'[f]) =>
                     lastRead[x][f] < sent'[f] /\ Below(buffer[x], f, sent'[f])
    <3>1. /\ lastRead[x][f] <= sent[f] /\ Below(buffer[x], f, sent[f] + 1)
          /\ x \in ToSet(todo[f]) => lastRead[x][f] < sent[f] /\ Below(buffer[x], f, sent[f])
      BY DEF OrderInv
    <3>2. lastRead[x][f] \in Nat /\ sent[f] \in Nat /\ buffer[x] \in Seq(Messages)
      BY <2>2
    <3>3. Below(buffer[x], f, sent[f] + 1 + 1)
      BY <2>3, <3>1, <3>2
    <3>4. CASE f = e
      <4>1. sent'[f] = sent[f] + 1
        BY <2>1, <2>2, <3>4
      <4> QED BY <3>1, <3>2, <3>3, <4>1
    <3>5. CASE f # e
      BY <1>0, <2>1, <2>2, <3>1, <3>5
    <3> QED BY <3>4, <3>5
  <2> QED BY <2>1, <2>4 DEF OrderInv
<1>4. ASSUME NEW e \in Emitters, Emitting(e) \/ EmitterCancelled(e)
      PROVE  OrderInv'
  <2>1. CASE Return(e) \/ EmitterResumes(e) \/ EmitterCancelled(e)
    <3>1. /\ UNCHANGED <<buffer, lastRead, sent>>
          /\ todo' = todo \/ todo' = [todo EXCEPT ![e] = <<>>]
      BY <2>1 DEF Return, EmitterResumes, EmitterCancelled
    <3>2. \A f \in Emitters : ToSet(todo'[f]) \subseteq ToSet(todo[f])
      BY <1>0, <3>1
    <3> QED BY <3>1, <3>2, OrderKept
  <2>2. ASSUME NEW s \in Subs, Put(e, s) \/ Offer(e, s) \/ CountLoad(e, s) \/ CountStore(e, s)
        PROVE  OrderInv'
    <3>1. s = Head(todo[e]) /\ emitter[e] \in {"offering", "offer_put", "offer_loop",
                                                "counting", "counted"}
          /\ (todo[e] = <<>> => emitter[e] \notin {"offering", "offer_put"})
      BY <2>2 DEF Put, PutClosed, PutAppend, PutDropped, PutRaises, PutFull, At, Offer,
           OfferClosed, OfferAppend, OfferWaits, AtLoop, CountLoad, CountStore
    <3>2. todo[e] # <<>>
      BY <3>1 DEF WhereInv, Route
    <3>3. ToSet(Tail(todo[e])) \subseteq ToSet(todo[e])
      BY <3>2, Ahead
    <3>4. CASE PutAppend(e, s)
      <4>1. /\ UNCHANGED <<lastRead, sent>> /\ todo' = [todo EXCEPT ![e] = Tail(todo[e])]
            /\ buffer' = [buffer EXCEPT ![s] = Append(IF Full(s) THEN Tail(buffer[s])
                                                      ELSE buffer[s], Message(e))]
        BY <3>4 DEF PutAppend, Onward
      <4>2. Full(s) => buffer[s] # <<>>
        BY TopicAssumption DEF Full
      <4> QED BY <3>1, <3>2, <4>1, <4>2, OrderAppend
    <3>5. CASE OfferAppend(e, s)
      <4>1. /\ UNCHANGED <<lastRead, sent>> /\ todo' = [todo EXCEPT ![e] = Tail(todo[e])]
            /\ buffer' = [buffer EXCEPT ![s] = Append(buffer[s], Message(e))]
        BY <3>5 DEF OfferAppend, Onward
      <4> QED BY <3>1, <3>2, <4>1, OrderAppend
    <3>6. CASE ~PutAppend(e, s) /\ ~OfferAppend(e, s)
      <4>1. UNCHANGED <<buffer, lastRead, sent>>
        BY <2>2, <3>6 DEF Put, PutClosed, PutDropped, PutRaises, PutFull, Offer,
             OfferClosed, OfferWaits, CountLoad, CountStore, Onward
      <4>2. \/ todo' = todo \/ todo' = [todo EXCEPT ![e] = <<>>]
            \/ todo' = [todo EXCEPT ![e] = Tail(todo[e])]
        BY <2>2, <3>6 DEF Put, PutClosed, PutDropped, PutRaises, PutFull, Offer,
             OfferClosed, OfferWaits, CountLoad, CountStore, Onward
      <4>3. \A f \in Emitters : ToSet(todo'[f]) \subseteq ToSet(todo[f])
        BY <1>0, <3>3, <4>2
      <4> QED BY <4>1, <4>3, OrderKept
    <3> QED BY <3>4, <3>5, <3>6
  <2> QED BY <1>4, <2>1, <2>2 DEF Emitting
<1> QED BY <1>1, <1>2, <1>3, <1>4 DEF Next

-----------------------------------------------------------------------------
(* What becomes of a message                                               *)

(* Two emit_nowait() of different threads can lose one of the two counts,  *)
(* so the count is right where one task at most makes such calls.          *)
OneNoWaiter == \A e, f \in NoWaiters : e = f

InCount(e) == emitter[e] \in {"counting", "counted"}

(* Only a call of emit_nowait counts, for a `block` subscription, and what *)
(* it has read of the count is still so.                                   *)
Counting ==
    \A e \in Emitters :
        /\ nowait[e] => e \in NoWaiters
        /\ InCount(e) => nowait[e] /\ policy[Head(todo[e])] = "block"
        /\ emitter[e] = "counted" => seen[e] = dropped[Head(todo[e])]

CountInv == Counting /\ Accounted

(* The size of a set with no two elements.                                 *)
LEMMA AtMostOne ==
  ASSUME NEW S, \A x, y \in S : x = y
  PROVE  Cardinality(S) = IF S = {} THEN 0 ELSE 1
<1>1. CASE S = {}
  BY <1>1, FS_EmptySet
<1>2. CASE S # {}
  <2>1. PICK x : x \in S
    BY <1>2
  <2>2. S = {x}
    BY <2>1
  <2> QED BY <2>2, FS_Singleton
<1> QED BY <1>1, <1>2

(* How many are counting, where one task at most calls emit_nowait.        *)
LEMMA HowMany ==
  ASSUME OneNoWaiter, Counting, NEW s \in Subs
  PROVE  Cardinality(BeingCounted(s)) = IF BeingCounted(s) = {} THEN 0 ELSE 1
<1>1. \A x, y \in BeingCounted(s) : x = y
  BY DEF BeingCounted, Counting, InCount, OneNoWaiter
<1> QED BY <1>1, AtMostOne

(* The same, after a step.                                                 *)
LEMMA HowManyNext ==
  ASSUME OneNoWaiter, Counting', NEW s \in Subs
  PROVE  Cardinality(BeingCounted(s)') = IF BeingCounted(s)' = {} THEN 0 ELSE 1
<1>1. \A x, y \in BeingCounted(s)' : x = y
  BY DEF BeingCounted, Counting, InCount, OneNoWaiter
<1> QED BY <1>1, AtMostOne

(* Nothing is handed to anybody before the first step.                     *)
LEMMA InitCount == Init => CountInv
<1> SUFFICES ASSUME Init PROVE CountInv
  OBVIOUS
<1>1. Counting
  BY DEF Init, Counting, InCount
<1>2. \A s \in Subs : BeingCounted(s) = {}
  BY DEF Init, BeingCounted
<1>3. \A s \in Subs : Cardinality(BeingCounted(s)) = 0
  BY <1>2, FS_EmptySet
<1>4. Len(<<>>) = 0
  OBVIOUS
<1>5. Accounted
  BY <1>3, <1>4 DEF Init, Accounted
<1> QED BY <1>1, <1>5 DEF CountInv

(* Steps of a reader: one message from the buffer to the reader, or none.  *)
LEMMA ReaderCount ==
  ASSUME WhereInv, CountInv, NEW s \in Subs,
         Subscribe(s) \/ Reading(s) \/ ReaderGivesUp(s) \/ Close(s)
  PROVE  CountInv'
<1> USE DEF Set, subVars, readerVars, emitVars
<1>1. UNCHANGED <<emitter, nowait, todo, seen, dropped, handed>>
  BY DEF Subscribe, Reading, Read, ReadNothing, ReaderResumes, ReaderGivesUp, Close
<1>2. Counting'
  <2>1. ASSUME NEW e \in Emitters, InCount(e)
        PROVE  policy'[Head(todo[e])] = policy[Head(todo[e])]
    <3>1. Head(todo[e]) \in Subs /\ reader[Head(todo[e])] # "none"
      <4>1. todo[e] # <<>>
        BY <2>1 DEF InCount, WhereInv, Route
      <4> QED BY <4>1, Ahead
    <3>2. CASE Subscribe(s)
      <4>1. Head(todo[e]) # s /\ \E p : policy' = [policy EXCEPT ![s] = p]
        BY <3>1, <3>2 DEF Subscribe
      <4> QED BY <3>1, <4>1 DEF WhereInv, Shape, QueueShape
    <3>3. CASE ~Subscribe(s)
      BY <3>3 DEF Reading, Read, ReadNothing, ReaderResumes, ReaderGivesUp, Close
    <3> QED BY <3>2, <3>3
  <2>2. \A e \in Emitters : InCount(e)' <=> InCount(e)
    BY <1>1 DEF InCount
  <2> QED BY <1>1, <2>1, <2>2 DEF CountInv, Counting
<1>3. \A x \in Subs : BeingCounted(x)' = BeingCounted(x)
  BY <1>1 DEF BeingCounted
<1>4. CASE ~Read(s)
  <2>1. UNCHANGED <<buffer, taken>>
    BY <1>4 DEF Subscribe, Reading, ReadNothing, ReaderResumes, ReaderGivesUp, Close
  <2>2. Accounted'
    BY <1>1, <1>3, <2>1 DEF CountInv, Accounted
  <2> QED BY <1>2, <2>2 DEF CountInv
<1>5. CASE Read(s)
  <2>1. /\ buffer' = [buffer EXCEPT ![s] = Tail(buffer[s])]
        /\ taken' = [taken EXCEPT ![s] = taken[s] + 1] /\ buffer[s] # <<>>
    BY <1>5 DEF Read
  <2>2. /\ buffer \in [Subs -> Seq(Messages)] /\ taken \in [Subs -> Nat]
        /\ dropped \in [Subs -> Nat]
    BY DEF WhereInv, Shape, QueueShape, CountShape
  <2>3. Len(Tail(buffer[s])) = Len(buffer[s]) - 1 /\ Len(buffer[s]) \in Nat
    BY <2>1, <2>2, TakenOff
  <2>4. ASSUME NEW x \in Subs
        PROVE  taken'[x] + Len(buffer'[x]) = taken[x] + Len(buffer[x])
    BY <2>1, <2>2, <2>3
  <2>5. ASSUME NEW x \in Subs
        PROVE  handed[x] = taken'[x] + Len(buffer'[x]) + dropped[x]
                              + Cardinality(BeingCounted(x))
    BY <2>4 DEF CountInv, Accounted
  <2>6. Accounted'
    BY <1>1, <1>3, <2>5 DEF Accounted
  <2> QED BY <1>2, <2>6 DEF CountInv
<1> QED BY <1>4, <1>5

(* Steps of an emitter that is not counting, before or after.              *)
LEMMA NotCounting ==
  ASSUME WhereInv, CountInv, NEW e \in Emitters, ~InCount(e), NEW at,
         at \notin {"counting", "counted"}, emitter' = [emitter EXCEPT ![e] = at],
         NEW t, todo' = [todo EXCEPT ![e] = t], UNCHANGED <<policy, seen>>,
         nowait'[e] => e \in NoWaiters, \A f \in Emitters \ {e} : nowait'[f] = nowait[f],
         \A s \in Subs : policy[s] = "block" => dropped'[s] = dropped[s]
  PROVE  /\ Counting'
         /\ \A s \in Subs : BeingCounted(s)' = BeingCounted(s)
<1>1. emitter \in [Emitters -> {"idle", "offering", "offer_put", "offer_loop",
                                 "waiting", "counting", "counted"}]
      /\ todo \in [Emitters -> Seq(Subs)]
  BY DEF WhereInv, Shape, EmitterShape
<1>2. \A f \in Emitters \ {e} : emitter'[f] = emitter[f] /\ todo'[f] = todo[f]
  BY <1>1
<1>3. emitter'[e] = at
  BY <1>1
<1>4. Counting'
  <2> SUFFICES ASSUME NEW f \in Emitters
               PROVE  (/\ nowait[f] => f \in NoWaiters
                       /\ InCount(f) => nowait[f] /\ policy[Head(todo[f])] = "block"
                       /\ emitter[f] = "counted" => seen[f] = dropped[Head(todo[f])])'
    BY DEF Counting
  <2>1. CASE f = e
    BY <1>3, <2>1 DEF InCount
  <2>2. CASE f # e
    <3>1. InCount(f)' <=> InCount(f)
      BY <1>2, <2>2 DEF InCount
    <3>2. /\ nowait'[f] => f \in NoWaiters
          /\ InCount(f)' => nowait'[f] /\ policy'[Head(todo'[f])] = "block"
      BY <1>2, <2>2, <3>1 DEF CountInv, Counting
    <3>3. ASSUME emitter[f] = "counted"
          PROVE  dropped'[Head(todo[f])] = dropped[Head(todo[f])]
      <4>1. policy[Head(todo[f])] = "block" /\ todo[f] # <<>>
        BY <3>3 DEF CountInv, Counting, InCount, WhereInv, Route
      <4>2. Head(todo[f]) \in Subs
        BY <4>1, Ahead
      <4> QED BY <4>1, <4>2
    <3>4. emitter'[f] = "counted" => seen'[f] = dropped'[Head(todo'[f])]
      BY <1>2, <2>2, <3>3 DEF CountInv, Counting
    <3> QED BY <3>2, <3>4
  <2> QED BY <2>1, <2>2
<1>5. ASSUME NEW s \in Subs PROVE BeingCounted(s)' = BeingCounted(s)
  BY <1>2, <1>3 DEF BeingCounted, InCount
<1> QED BY <1>4, <1>5

(* A sum kept in balance.                                                  *)
LEMMA Ledger ==
  ASSUME NEW n \in Nat, NEW read \in Nat,
         NEW b \in Nat, NEW d \in Nat, NEW c \in Nat,
         NEW bb \in Nat, NEW dd \in Nat, NEW cc \in Nat, bb + dd + cc = b + d + c + n
  PROVE  (read + b + d + c) + n = read + bb + dd + cc
OBVIOUS

(* One message more handed to s, and one more buffered, dropped or being   *)
(* counted there; or none.                                                 *)
LEMMA Balanced ==
  ASSUME WhereInv, Accounted, NEW s \in Subs, NEW n \in {0, 1}, UNCHANGED taken,
         \A x \in Subs \ {s} :
            /\ handed'[x] = handed[x] /\ Len(buffer'[x]) = Len(buffer[x])
            /\ dropped'[x] = dropped[x]
            /\ Cardinality(BeingCounted(x)') = Cardinality(BeingCounted(x)),
         handed'[s] = handed[s] + n,
         Len(buffer'[s]) \in Nat, dropped'[s] \in Nat,
         Cardinality(BeingCounted(s)) \in Nat, Cardinality(BeingCounted(s)') \in Nat,
         Len(buffer'[s]) + dropped'[s] + Cardinality(BeingCounted(s)')
            = Len(buffer[s]) + dropped[s] + Cardinality(BeingCounted(s)) + n
  PROVE  Accounted'
<1>1. ASSUME NEW x \in Subs
      PROVE  handed'[x] = taken[x] + Len(buffer'[x]) + dropped'[x]
                             + Cardinality(BeingCounted(x)')
  <2>1. handed[x] = taken[x] + Len(buffer[x]) + dropped[x] + Cardinality(BeingCounted(x))
    BY DEF Accounted
  <2>2. CASE x # s
    BY <2>1, <2>2
  <2>3. CASE x = s
    <3>1. taken[s] \in Nat /\ dropped[s] \in Nat /\ Len(buffer[s]) \in Nat /\ handed[s] \in Nat
      BY DEF WhereInv, Shape, CountShape, QueueShape
    <3> DEFINE c == Cardinality(BeingCounted(s))
               d == Cardinality(BeingCounted(s)')
    <3>2. /\ handed[s] = taken[s] + Len(buffer[s]) + dropped[s] + c
          /\ Len(buffer'[s]) + dropped'[s] + d = Len(buffer[s]) + dropped[s] + c + n
          /\ c \in Nat /\ d \in Nat /\ n \in Nat
      BY <2>1, <2>3
    <3> HIDE DEF c, d
    <3>3. handed'[s] = taken[s] + Len(buffer'[s]) + dropped'[s] + d
      <4>1. (taken[s] + Len(buffer[s]) + dropped[s] + c) + n
               = taken[s] + Len(buffer'[s]) + dropped'[s] + d
        <5> DEFINE r == taken[s]
                   b == Len(buffer[s])
                   k == dropped[s]
                   bb == Len(buffer'[s])
                   kk == dropped'[s]
        <5>1. /\ r \in Nat /\ b \in Nat /\ k \in Nat /\ bb \in Nat /\ kk \in Nat
              /\ bb + kk + d = b + k + c + n
          BY <3>1, <3>2
        <5> HIDE DEF r, b, k, bb, kk
        <5>2. (r + b + k + c) + n = r + bb + kk + d
          BY <3>2, <5>1, Ledger
        <5> QED BY <5>2 DEF r, b, k, bb, kk
      <4>2. handed'[s] = handed[s] + n
        OBVIOUS
      <4> QED BY <3>2, <4>1, <4>2
    <3> QED BY <2>3, <3>3 DEF d
  <2> QED BY <2>2, <2>3
<1> QED BY <1>1 DEF Accounted

(* Adding what is being counted to both sides.                             *)
LEMMA PlusCounted ==
  ASSUME NEW a \in Nat, NEW b \in Nat, NEW c \in Nat, NEW d \in Nat, NEW k \in {0, 1},
         a + b = c + d + 1
  PROVE  a + b + k = c + d + k + 1
OBVIOUS

(* A sum with one more in a place of it.                                   *)
LEMMA OneMore ==
  ASSUME NEW a \in Nat, NEW b \in Nat, NEW c \in Nat, NEW x, NEW y,
         \/ x = a + 1 /\ y = b
         \/ x = a /\ y = b + 1
  PROVE  x + y + c = a + b + c + 1 /\ x + y = a + b + 1
OBVIOUS

(* Steps of emit() and emit_nowait() at a subscription.                    *)
LEMMA PutCount ==
  ASSUME OneNoWaiter, WhereInv, CountInv, NEW e \in Emitters, NEW s \in Subs, Put(e, s)
  PROVE  CountInv'
<1> USE TopicAssumption DEF Set, subVars, readerVars, emitVars
<1>1. /\ emitter[e] \in {"offering", "offer_put"} /\ ~InCount(e) /\ s = Head(todo[e])
      /\ todo[e] # <<>> /\ UNCHANGED <<policy, seen, nowait, taken>>
  BY DEF Put, PutClosed, PutAppend, PutDropped, PutRaises, PutFull, At, Onward, InCount
<1>2. /\ emitter \in [Emitters -> {"idle", "offering", "offer_put", "offer_loop",
                                   "waiting", "counting", "counted"}]
      /\ todo \in [Emitters -> Seq(Subs)] /\ nowait \in [Emitters -> BOOLEAN]
      /\ dropped \in [Subs -> Nat] /\ handed \in [Subs -> Nat]
      /\ buffer \in [Subs -> Seq(Messages)] /\ Message(e) \in Messages
      /\ nowait[e] => e \in NoWaiters
  BY DEF WhereInv, Shape, EmitterShape, CountShape, QueueShape, CountInv, Counting,
       Message, Messages
<1>3. Counting /\ Accounted
  BY DEF CountInv
<1>4. \A x \in Subs : Cardinality(BeingCounted(x)) \in {0, 1}
  BY <1>3, HowMany
<1>5. CASE PutClosed(e, s) \/ PutRaises(e, s)
  <2>1. PICK at \in {"offering", "idle"}, t \in {Tail(todo[e]), <<>>} :
           emitter' = [emitter EXCEPT ![e] = at] /\ todo' = [todo EXCEPT ![e] = t]
    BY <1>5 DEF PutClosed, PutRaises, Onward
  <2>2. UNCHANGED <<dropped, handed, buffer>>
    BY <1>5 DEF PutClosed, PutRaises
  <2>3. Counting' /\ \A x \in Subs : BeingCounted(x)' = BeingCounted(x)
    BY <1>1, <1>2, <2>1, <2>2, NotCounting
  <2>4. Accounted'
    BY <1>1, <1>3, <2>2, <2>3 DEF Accounted
  <2> QED BY <2>3, <2>4 DEF CountInv
<1>6. CASE PutAppend(e, s)
  <2>1. /\ emitter' = [emitter EXCEPT ![e] = "offering"]
        /\ todo' = [todo EXCEPT ![e] = Tail(todo[e])]
        /\ handed' = [handed EXCEPT ![s] = handed[s] + 1]
        /\ Full(s) => policy[s] = "drop_oldest"
        /\ dropped' = IF Full(s) THEN [dropped EXCEPT ![s] = dropped[s] + 1] ELSE dropped
        /\ buffer' = [buffer EXCEPT ![s] = Append(IF Full(s) THEN Tail(buffer[s])
                                                  ELSE buffer[s], Message(e))]
    BY <1>6 DEF PutAppend, Onward
  <2>2. \A x \in Subs : policy[x] = "block" => dropped'[x] = dropped[x]
    BY <1>2, <2>1
  <2>3. Counting' /\ \A x \in Subs : BeingCounted(x)' = BeingCounted(x)
    BY <1>1, <1>2, <2>1, <2>2, NotCounting
  <2>4. /\ Len(buffer'[s]) \in Nat /\ dropped'[s] \in Nat /\ Len(buffer[s]) \in Nat
        /\ Len(buffer'[s]) + dropped'[s] = Len(buffer[s]) + dropped[s] + 1
    <3>1. CASE Full(s)
      <4>1. /\ buffer'[s] = Append(Tail(buffer[s]), Message(e)) /\ dropped'[s] = dropped[s] + 1
            /\ buffer[s] # <<>>
        BY <1>2, <2>1, <3>1 DEF Full
      <4>2. Tail(buffer[s]) \in Seq(Messages) /\ Len(Tail(buffer[s])) = Len(buffer[s]) - 1
            /\ Len(buffer[s]) \in Nat
        BY <1>2, <4>1, TakenOff
      <4>3. Len(buffer'[s]) = Len(buffer[s])
        BY <1>2, <4>1, <4>2, PushedBack
      <4>4. dropped'[s] = dropped[s] + 1 /\ dropped[s] \in Nat
        BY <1>2, <4>1
      <4>5. Len(buffer[s]) \in Nat
        BY <4>2
      <4> QED BY <4>3, <4>4, <4>5
    <3>2. CASE ~Full(s)
      <4>1. buffer'[s] = Append(buffer[s], Message(e)) /\ dropped'[s] = dropped[s]
        BY <1>2, <2>1, <3>2
      <4>2. Len(buffer'[s]) = Len(buffer[s]) + 1 /\ Len(buffer[s]) \in Nat
        BY <1>2, <4>1, PushedBack
      <4>3. dropped[s] \in Nat
        BY <1>2
      <4>4. dropped'[s] = dropped[s]
        BY <4>1
      <4>5. 0 \in Nat
        OBVIOUS
      <4> HIDE TopicAssumption
      <4> QED BY <4>2, <4>3, <4>4, <4>5, OneMore
    <3> QED BY <3>1, <3>2
  <2>5. \A x \in Subs \ {s} : /\ handed'[x] = handed[x] /\ Len(buffer'[x]) = Len(buffer[x])
                              /\ dropped'[x] = dropped[x]
    BY <1>2, <2>1
  <2>6. handed'[s] = handed[s] + 1
    BY <1>2, <2>1
  <2>7. Len(buffer'[s]) + dropped'[s] + Cardinality(BeingCounted(s))
            = Len(buffer[s]) + dropped[s] + Cardinality(BeingCounted(s)) + 1
    <3>1. Cardinality(BeingCounted(s)) \in {0, 1} /\ dropped[s] \in Nat
      BY <1>2, <1>4
    <3> QED BY <2>4, <3>1, PlusCounted
  <2>8. Accounted'
    BY <1>1, <1>3, <1>4, <2>3, <2>4, <2>5, <2>6, <2>7, Balanced
  <2> QED BY <2>3, <2>8 DEF CountInv
<1>7. CASE PutDropped(e, s)
  <2>1. /\ emitter' = [emitter EXCEPT ![e] = "offering"]
        /\ todo' = [todo EXCEPT ![e] = Tail(todo[e])]
        /\ handed' = [handed EXCEPT ![s] = handed[s] + 1] /\ policy[s] = "drop_newest"
        /\ dropped' = [dropped EXCEPT ![s] = dropped[s] + 1] /\ UNCHANGED buffer
    BY <1>7 DEF PutDropped, Onward
  <2>2. \A x \in Subs : policy[x] = "block" => dropped'[x] = dropped[x]
    BY <1>2, <2>1
  <2>3. Counting' /\ \A x \in Subs : BeingCounted(x)' = BeingCounted(x)
    BY <1>1, <1>2, <2>1, <2>2, NotCounting
  <2>4. /\ \A x \in Subs \ {s} : handed'[x] = handed[x] /\ dropped'[x] = dropped[x]
        /\ handed'[s] = handed[s] + 1 /\ dropped'[s] = dropped[s] + 1
    BY <1>2, <2>1
  <2>5. Len(buffer[s]) \in Nat /\ dropped[s] \in Nat
    BY <1>2
  <2>6. Len(buffer[s]) + dropped'[s] + Cardinality(BeingCounted(s))
            = Len(buffer[s]) + dropped[s] + Cardinality(BeingCounted(s)) + 1
    <3>1. Cardinality(BeingCounted(s)) \in Nat
      BY <1>4
    <3>2. dropped'[s] = dropped[s] + 1
      BY <2>4
    <3> DEFINE held == Len(buffer[s])
               lost == dropped[s]
               now == dropped'[s]
               counted == Cardinality(BeingCounted(s))
    <3>3. held \in Nat /\ lost \in Nat /\ counted \in Nat /\ now = lost + 1
      BY <2>5, <3>1, <3>2
    <3> HIDE TopicAssumption DEF held, lost, now, counted
    <3>4. held + now + counted = held + lost + counted + 1
      BY <3>3
    <3> QED BY <3>4 DEF held, lost, now, counted
  <2>7. Accounted'
    <3>1. dropped'[s] \in Nat /\ Cardinality(BeingCounted(s)) \in Nat
      BY <1>4, <2>4, <2>5
    <3> QED BY <1>1, <1>3, <2>1, <2>3, <2>4, <2>5, <2>6, <3>1, Balanced
  <2> QED BY <2>3, <2>7 DEF CountInv
<1>8. CASE PutFull(e, s) /\ ~nowait[e]
  <2>1. PICK at \in {"offer_put", "offer_loop"} : emitter' = [emitter EXCEPT ![e] = at]
    BY <1>8 DEF PutFull
  <2>2. UNCHANGED <<dropped, handed, buffer>> /\ todo' = [todo EXCEPT ![e] = todo[e]]
    BY <1>2, <1>8 DEF PutFull
  <2>3. Counting' /\ \A x \in Subs : BeingCounted(x)' = BeingCounted(x)
    BY <1>1, <1>2, <2>1, <2>2, NotCounting
  <2>4. Accounted'
    BY <1>1, <1>3, <2>2, <2>3 DEF Accounted
  <2> QED BY <2>3, <2>4 DEF CountInv
<1>9. CASE PutFull(e, s) /\ nowait[e]
  <2>1. /\ emitter' = [emitter EXCEPT ![e] = "counting"] /\ policy[s] = "block"
        /\ handed' = [handed EXCEPT ![s] = handed[s] + 1] /\ UNCHANGED <<dropped, buffer, todo>>
    BY <1>9 DEF PutFull
  <2>2. emitter'[e] = "counting" /\ \A f \in Emitters \ {e} : emitter'[f] = emitter[f]
    BY <1>2, <2>1
  <2>3. Counting'
    BY <1>1, <1>2, <1>3, <1>9, <2>1, <2>2 DEF Counting, InCount
  <2>4. BeingCounted(s) = {}
    <3>1. ASSUME NEW f \in BeingCounted(s) PROVE FALSE
      <4>1. f \in Emitters /\ InCount(f)
        BY <3>1 DEF BeingCounted, InCount
      <4>2. f \in NoWaiters /\ e \in NoWaiters
        BY <1>2, <1>3, <1>9, <4>1 DEF Counting
      <4> QED BY <1>1, <4>1, <4>2 DEF OneNoWaiter
    <3> QED BY <3>1
  <2>5. e \in BeingCounted(s)'
    BY <1>1, <2>1, <2>2 DEF BeingCounted
  <2>6. ASSUME NEW x \in Subs \ {s} PROVE BeingCounted(x)' = BeingCounted(x)
    BY <1>1, <2>1, <2>2 DEF BeingCounted
  <2>7. Cardinality(BeingCounted(s)) = 0 /\ Cardinality(BeingCounted(s)') = 1
    BY <1>3, <2>3, <2>4, <2>5, HowMany, HowManyNext
  <2>8. /\ \A x \in Subs \ {s} : handed'[x] = handed[x]
        /\ handed'[s] = handed[s] + 1 /\ Len(buffer[s]) \in Nat /\ dropped[s] \in Nat
    BY <1>2, <2>1
  <2>9. Len(buffer[s]) + dropped[s] + Cardinality(BeingCounted(s)')
            = Len(buffer[s]) + dropped[s] + Cardinality(BeingCounted(s)) + 1
    BY <2>7, <2>8
  <2>10. Accounted'
    BY <1>1, <1>3, <2>1, <2>6, <2>7, <2>8, <2>9, Balanced
  <2> QED BY <2>3, <2>10 DEF CountInv
<1> QED BY <1>5, <1>6, <1>7, <1>8, <1>9 DEF Put

(* The loop of _offer, and the count of emit_nowait.                       *)
LEMMA OfferCount ==
  ASSUME OneNoWaiter, WhereInv, CountInv, NEW e \in Emitters, NEW s \in Subs,
         Offer(e, s) \/ CountLoad(e, s) \/ CountStore(e, s)
  PROVE  CountInv'
<1> USE TopicAssumption DEF Set, subVars, readerVars, emitVars
<1>1. s = Head(todo[e]) /\ UNCHANGED <<policy, nowait, taken>>
  BY DEF Offer, OfferClosed, OfferAppend, OfferWaits, AtLoop, Onward, CountLoad, CountStore
<1>2. /\ emitter \in [Emitters -> {"idle", "offering", "offer_put", "offer_loop",
                                   "waiting", "counting", "counted"}]
      /\ todo \in [Emitters -> Seq(Subs)] /\ nowait \in [Emitters -> BOOLEAN]
      /\ dropped \in [Subs -> Nat] /\ handed \in [Subs -> Nat] /\ seen \in [Emitters -> Nat]
      /\ buffer \in [Subs -> Seq(Messages)] /\ Message(e) \in Messages
      /\ nowait[e] => e \in NoWaiters
  BY DEF WhereInv, Shape, EmitterShape, CountShape, QueueShape, CountInv, Counting,
       Message, Messages
<1>3. Counting /\ Accounted
  BY DEF CountInv
<1>4. \A x \in Subs : Cardinality(BeingCounted(x)) \in {0, 1}
  BY <1>3, HowMany
<1>5. CASE OfferClosed(e, s) \/ OfferWaits(e, s)
  <2>1. PICK at \in {"offering", "waiting"}, t \in {Tail(todo[e]), todo[e]} :
           emitter' = [emitter EXCEPT ![e] = at] /\ todo' = [todo EXCEPT ![e] = t]
    BY <1>2, <1>5 DEF OfferClosed, OfferWaits, Onward
  <2>2. UNCHANGED <<dropped, handed, buffer, seen>> /\ ~InCount(e)
    BY <1>5 DEF OfferClosed, OfferWaits, Onward, AtLoop, InCount
  <2>3. Counting' /\ \A x \in Subs : BeingCounted(x)' = BeingCounted(x)
    BY <1>1, <1>2, <2>1, <2>2, NotCounting
  <2>4. Accounted'
    BY <1>1, <1>3, <2>2, <2>3 DEF Accounted
  <2> QED BY <2>3, <2>4 DEF CountInv
<1>6. CASE OfferAppend(e, s)
  <2>1. /\ emitter' = [emitter EXCEPT ![e] = "offering"]
        /\ todo' = [todo EXCEPT ![e] = Tail(todo[e])]
        /\ handed' = [handed EXCEPT ![s] = handed[s] + 1] /\ UNCHANGED <<dropped, seen>>
        /\ buffer' = [buffer EXCEPT ![s] = Append(buffer[s], Message(e))] /\ ~InCount(e)
    BY <1>6 DEF OfferAppend, Onward, AtLoop, InCount
  <2>2. Counting' /\ \A x \in Subs : BeingCounted(x)' = BeingCounted(x)
    BY <1>1, <1>2, <2>1, NotCounting
  <2>3. /\ Len(buffer'[s]) = Len(buffer[s]) + 1 /\ Len(buffer[s]) \in Nat /\ dropped[s] \in Nat
    BY <1>2, <2>1, PushedBack
  <2>4. /\ \A x \in Subs \ {s} : handed'[x] = handed[x] /\ Len(buffer'[x]) = Len(buffer[x])
        /\ handed'[s] = handed[s] + 1
    BY <1>2, <2>1
  <2>5. Len(buffer'[s]) + dropped[s] + Cardinality(BeingCounted(s))
            = Len(buffer[s]) + dropped[s] + Cardinality(BeingCounted(s)) + 1
    <3>1. Cardinality(BeingCounted(s)) \in Nat
      BY <1>4
    <3> HIDE TopicAssumption
    <3> QED BY <2>3, <3>1, OneMore
  <2>6. Accounted'
    <3>1. Len(buffer'[s]) \in Nat /\ Cardinality(BeingCounted(s)) \in Nat
      BY <1>4, <2>3
    <3>2. UNCHANGED dropped
      BY <2>1
    <3> QED BY <1>1, <1>3, <2>2, <2>3, <2>4, <2>5, <3>1, <3>2, Balanced
  <2> QED BY <2>2, <2>6 DEF CountInv
<1>7. CASE CountLoad(e, s)
  <2>1. /\ emitter' = [emitter EXCEPT ![e] = "counted"] /\ seen' = [seen EXCEPT ![e] = dropped[s]]
        /\ UNCHANGED <<dropped, handed, buffer, todo>> /\ emitter[e] = "counting"
    BY <1>7 DEF CountLoad
  <2>2. /\ emitter'[e] = "counted" /\ \A f \in Emitters \ {e} : emitter'[f] = emitter[f]
        /\ seen'[e] = dropped[s] /\ \A f \in Emitters \ {e} : seen'[f] = seen[f]
    BY <1>2, <2>1
  <2>3. Counting'
    BY <1>1, <1>3, <2>1, <2>2 DEF Counting, InCount
  <2>4. \A x \in Subs : BeingCounted(x)' = BeingCounted(x)
    BY <2>1, <2>2 DEF BeingCounted
  <2>5. Accounted'
    BY <1>1, <1>3, <2>1, <2>4 DEF Accounted
  <2> QED BY <2>3, <2>5 DEF CountInv
<1>8. CASE CountStore(e, s)
  <2>1. /\ emitter' = [emitter EXCEPT ![e] = "offering"]
        /\ todo' = [todo EXCEPT ![e] = Tail(todo[e])] /\ seen' = [seen EXCEPT ![e] = 0]
        /\ dropped' = [dropped EXCEPT ![s] = seen[e] + 1] /\ emitter[e] = "counted"
        /\ UNCHANGED <<handed, buffer>>
    BY <1>8 DEF CountStore
  <2>2. /\ emitter'[e] = "offering" /\ \A f \in Emitters \ {e} : emitter'[f] = emitter[f]
        /\ \A f \in Emitters \ {e} : todo'[f] = todo[f] /\ seen'[f] = seen[f]
        /\ seen[e] = dropped[s] /\ dropped'[s] = dropped[s] + 1
        /\ \A x \in Subs \ {s} : dropped'[x] = dropped[x]
    BY <1>1, <1>2, <1>3, <2>1 DEF Counting
  <2>3. \A f \in Emitters : InCount(f) => f = e
    BY <1>3, <2>1 DEF Counting, InCount, OneNoWaiter
  <2>4. Counting'
    BY <1>1, <1>3, <2>1, <2>2, <2>3 DEF Counting, InCount
  <2>5. e \in BeingCounted(s) /\ BeingCounted(s)' = {}
    BY <1>1, <2>1, <2>2, <2>3 DEF BeingCounted, InCount
  <2>6. Cardinality(BeingCounted(s)) = 1 /\ Cardinality(BeingCounted(s)') = 0
    BY <1>3, <2>4, <2>5, HowMany, HowManyNext
  <2>7. ASSUME NEW x \in Subs \ {s} PROVE BeingCounted(x)' = BeingCounted(x)
    BY <1>1, <2>1, <2>2, <2>3 DEF BeingCounted, InCount
  <2>8. Len(buffer[s]) \in Nat /\ dropped[s] \in Nat /\ dropped'[s] \in Nat /\ handed[s] = handed[s] + 0
    BY <1>2, <2>2
  <2>9. Len(buffer[s]) + dropped'[s] + Cardinality(BeingCounted(s)')
            = Len(buffer[s]) + dropped[s] + Cardinality(BeingCounted(s)) + 0
    BY <2>2, <2>6, <2>8
  <2>10. Accounted'
    <3>1. UNCHANGED <<handed, buffer>>
      BY <2>1
    <3>2. \A x \in Subs \ {s} : dropped'[x] = dropped[x]
      BY <2>2
    <3> QED BY <1>1, <1>3, <2>6, <2>7, <2>8, <2>9, <3>1, <3>2, Balanced
  <2> QED BY <2>4, <2>10 DEF CountInv
<1> QED BY <1>5, <1>6, <1>7, <1>8 DEF Offer

(* Every step keeps the count.                                             *)
LEMMA NextCount ==
  ASSUME OneNoWaiter
  PROVE  WhereInv /\ CountInv /\ [Next]_vars => CountInv'
<1> SUFFICES ASSUME WhereInv, CountInv, [Next]_vars PROVE CountInv'
  OBVIOUS
<1> USE DEF Set, subVars, readerVars, emitVars
<1>1. CASE UNCHANGED vars
  BY <1>1 DEF vars, CountInv, Counting, InCount, Accounted, BeingCounted
<1>2. ASSUME NEW s \in Subs, Subscribe(s) \/ Reading(s) \/ ReaderGivesUp(s) \/ Close(s)
      PROVE  CountInv'
  BY <1>2, ReaderCount
<1>3. ASSUME NEW e \in Emitters, Emit(e) \/ Return(e) \/ EmitterResumes(e) \/ EmitterCancelled(e)
      PROVE  CountInv'
  <2>1. UNCHANGED <<policy, seen, dropped, handed, buffer, taken>> /\ ~InCount(e)
    <3>1. EmitterResumes(e) => emitter[e] = "waiting"
      BY DEF EmitterResumes, WhereInv, Wakes, IsWaiting, Message
    <3> QED BY <1>3, <3>1 DEF Emit, Return, EmitterResumes, EmitterCancelled, InCount
  <2>2. /\ todo \in [Emitters -> Seq(Subs)] /\ nowait \in [Emitters -> BOOLEAN]
        /\ nowait[e] => e \in NoWaiters
    BY DEF WhereInv, Shape, EmitterShape, CountInv, Counting
  <2>3. PICK at \in {"offering", "idle", "offer_loop"}, t \in {subs, todo[e], <<>>} :
           emitter' = [emitter EXCEPT ![e] = at] /\ todo' = [todo EXCEPT ![e] = t]
    BY <1>3, <2>2 DEF Emit, Return, EmitterResumes, EmitterCancelled
  <2>4. /\ nowait'[e] => e \in NoWaiters
        /\ \A f \in Emitters \ {e} : nowait'[f] = nowait[f]
    BY <1>3, <2>2 DEF Emit, Return, EmitterResumes, EmitterCancelled
  <2>5. Counting' /\ \A x \in Subs : BeingCounted(x)' = BeingCounted(x)
    BY <2>1, <2>3, <2>4, NotCounting
  <2>6. Accounted'
    BY <2>1, <2>5 DEF CountInv, Accounted
  <2> QED BY <2>5, <2>6 DEF CountInv
<1>4. ASSUME NEW e \in Emitters, Emitting(e)
      PROVE  CountInv'
  BY <1>3, <1>4, PutCount, OfferCount DEF Emitting
<1> QED BY <1>1, <1>2, <1>3, <1>4 DEF Next

(* What readers can rely on, whoever emits and however: they are woken for *)
(* what there is to read (Subscription.__anext__ and _put), and read each  *)
(* emitter's messages once and in the order it sent them.                  *)
THEOREM ReadersServed == Spec => [](TypeOK /\ ReaderNotStranded /\ InEmitterOrder)
<1>1. Init => WhereInv /\ OrderInv
  BY InitWhere, InitOrder
<1>2. WhereInv /\ OrderInv /\ [Next]_vars => (WhereInv /\ OrderInv)'
  BY NextWhere, NextOrder
<1>3. WhereInv /\ OrderInv => TypeOK /\ ReaderNotStranded /\ InEmitterOrder
  BY DEF WhereInv, Shape, ReaderShape, EmitterShape, CountShape, QueueShape, TypeOK,
       OrderInv, Fresh, InEmitterOrder
<1> QED BY <1>1, <1>2, <1>3, PTL DEF Spec

(* Where one task at most calls emit_nowait, `dropped` is honest too: no   *)
(* message handed to an open subscription vanishes uncounted, though the   *)
(* count of emit_nowait is made outside the lock.                          *)
THEOREM NothingVanishes ==
  ASSUME OneNoWaiter
  PROVE  Spec => []Safety
<1>1. Init => WhereInv /\ CountInv
  BY InitWhere, InitCount
<1>2. WhereInv /\ CountInv /\ [Next]_vars => (WhereInv /\ CountInv)'
  BY NextWhere, NextCount
<1>3. TypeOK /\ ReaderNotStranded /\ InEmitterOrder /\ CountInv => Safety
  BY DEF CountInv, Safety
<1> QED BY <1>1, <1>2, <1>3, ReadersServed, PTL DEF Spec

-----------------------------------------------------------------------------
(* Emitters that wait for room                                             *)

(* Who is in _putters waits for that subscription and nobody is waking it; *)
(* who waits is there or is being woken.                                   *)
Queued ==
    /\ \A s \in Subs :
          /\ Distinct(putters[s])
          /\ closed[s] => putters[s] = <<>>
          /\ \A w \in ToSet(putters[s]) :
                /\ IsWaiting(w) /\ w \notin woken
                /\ Head(todo[w[1]]) = s
    /\ \A e \in Emitters, s \in Subs :
          emitter[e] = "waiting" /\ s = Head(todo[e]) =>
              Message(e) \in woken \/ Message(e) \in ToSet(putters[s])

(* While anybody is queued, every free place has an emitter coming for it. *)
PlacesSpokenFor ==
    /\ IsFiniteSet({e \in Emitters : emitter[e] # "idle"})
    /\ \A s \in Subs :
          putters[s] # <<>> => MaxSize <= Len(buffer[s]) + Cardinality(OnItsWay(s))

PutterInv == Queued /\ PlacesSpokenFor

(* Those on their way are finitely many.                                   *)
LEMMA WayFinite ==
  ASSUME WhereInv, PutterInv, NEW s \in Subs
  PROVE  IsFiniteSet(OnItsWay(s)) /\ Cardinality(OnItsWay(s)) \in Nat
<1>1. OnItsWay(s) \subseteq {e \in Emitters : emitter[e] # "idle"}
  BY DEF OnItsWay, WhereInv, Wakes, IsWaiting, Message
<1>2. IsFiniteSet(OnItsWay(s))
  BY <1>1, FS_Subset DEF PutterInv, PlacesSpokenFor
<1> QED BY <1>2, FS_CardinalityType

(* The busy emitters stay finitely many.                                   *)
LEMMA BusyFinite ==
  ASSUME WhereInv, IsFiniteSet({f \in Emitters : emitter[f] # "idle"}), NEW e \in Emitters,
         NEW at, emitter' = [emitter EXCEPT ![e] = at]
  PROVE  IsFiniteSet({f \in Emitters : emitter'[f] # "idle"})
<1>1. {f \in Emitters : emitter'[f] # "idle"} \subseteq
         {f \in Emitters : emitter[f] # "idle"} \cup {e}
  BY DEF WhereInv, Shape, EmitterShape
<1>2. IsFiniteSet({f \in Emitters : emitter[f] # "idle"} \cup {e})
  BY FS_AddElement
<1> QED BY <1>1, <1>2, FS_Subset

(* What waiting means for the invariant: an emitter stands still while     *)
(* there is no room, or somebody is coming for the room there is.          *)
LEMMA PuttersSafe == WhereInv /\ PutterInv => PutterNotStranded
<1> SUFFICES ASSUME WhereInv, PutterInv, NEW e \in Emitters, NEW s \in Subs,
                    emitter[e] = "waiting", s = Head(todo[e]), ~Full(s) \/ closed[s],
                    OnItsWay(s) = {}
             PROVE  FALSE
  BY DEF PutterNotStranded
<1>1. todo[e] # <<>>
  BY DEF WhereInv, Route
<1>2. Message(e) \notin woken
  BY <1>1 DEF OnItsWay
<1>3. Message(e) \in ToSet(putters[s])
  BY <1>2 DEF PutterInv, Queued
<1>4. putters[s] # <<>>
  BY <1>3 DEF ToSet
<1>5. ~Full(s)
  BY <1>4 DEF PutterInv, Queued
<1>6. MaxSize <= Len(buffer[s]) + 0
  BY <1>4, FS_EmptySet DEF PutterInv, PlacesSpokenFor
<1>7. Len(buffer[s]) \in Nat
  BY DEF WhereInv, Shape, QueueShape
<1> QED BY <1>5, <1>6, <1>7, TopicAssumption DEF Full

(* Nobody waits before the first step.                                     *)
LEMMA InitPutter == Init => PutterInv
<1> SUFFICES ASSUME Init PROVE PutterInv
  OBVIOUS
<1>1. ToSet(<<>>) = {} /\ Distinct(<<>>)
  BY DEF ToSet, Distinct
<1>2. Queued
  BY <1>1 DEF Init, Queued
<1>3. {e \in Emitters : emitter[e] # "idle"} = {}
  BY DEF Init
<1>4. PlacesSpokenFor
  BY <1>3, FS_EmptySet DEF Init, PlacesSpokenFor
<1> QED BY <1>2, <1>4 DEF PutterInv

(* Steps of a subscription and of its reader.  A message read while        *)
(* anybody is queued frees a place and sends somebody for it; a close      *)
(* sends everybody.                                                        *)
LEMMA ReaderPutter ==
  ASSUME WhereInv, PutterInv, NEW s \in Subs,
         Subscribe(s) \/ Reading(s) \/ ReaderGivesUp(s) \/ Close(s)
  PROVE  PutterInv'
<1> USE TopicAssumption DEF Set, subVars, readerVars, emitVars
<1>1. UNCHANGED <<emitter, sent, todo>>
  BY DEF Subscribe, Reading, Read, ReadNothing, ReaderResumes, ReaderGivesUp, Close
<1>2. /\ buffer \in [Subs -> Seq(Messages)] /\ putters \in [Subs -> Seq(Messages)]
      /\ closed \in [Subs -> BOOLEAN] /\ woken \subseteq Messages
  BY DEF WhereInv, Shape, QueueShape, ReaderShape
<1>3. CASE ~Read(s) /\ ~Close(s)
  <2>1. UNCHANGED <<buffer, putters, closed, woken>>
    BY <1>3 DEF Subscribe, Reading, ReadNothing, ReaderResumes, ReaderGivesUp
  <2> QED BY <1>1, <2>1 DEF PutterInv, Queued, PlacesSpokenFor, OnItsWay, IsWaiting, Message
<1>4. CASE Read(s) /\ putters[s] = <<>>
  <2>1. UNCHANGED <<putters, closed, woken>> /\ buffer' = [buffer EXCEPT ![s] = Tail(buffer[s])]
    BY <1>4 DEF Read
  <2>2. Queued'
    BY <1>1, <2>1 DEF PutterInv, Queued, IsWaiting, Message
  <2>3. \A x \in Subs : OnItsWay(x)' = OnItsWay(x)
    BY <1>1, <2>1 DEF OnItsWay, Message
  <2>4. PlacesSpokenFor'
    BY <1>1, <1>2, <1>4, <2>1, <2>3 DEF PutterInv, PlacesSpokenFor
  <2> QED BY <2>2, <2>4 DEF PutterInv
<1>5. CASE Read(s) /\ putters[s] # <<>>
  <2> DEFINE w == Head(putters[s])
  <2>1. /\ w \in Messages /\ w \in ToSet(putters[s]) /\ Distinct(Tail(putters[s]))
        /\ ToSet(putters[s]) = ToSet(Tail(putters[s])) \cup {w}
        /\ w \notin ToSet(Tail(putters[s]))
    <3>1. putters[s] \in Seq(Messages) /\ Distinct(putters[s])
      BY <1>2 DEF PutterInv, Queued
    <3> QED BY <1>5, <3>1, TakenOff
  <2>2. IsWaiting(w) /\ w \notin woken /\ Head(todo[w[1]]) = s
    BY <2>1 DEF PutterInv, Queued
  <2>3. /\ putters' = [putters EXCEPT ![s] = Tail(putters[s])] /\ woken' = woken \cup {w}
        /\ buffer' = [buffer EXCEPT ![s] = Tail(buffer[s])] /\ buffer[s] # <<>>
        /\ UNCHANGED closed
    BY <1>5, <2>2 DEF Read
  <2>4. w[1] \in Emitters /\ w = Message(w[1]) /\ emitter[w[1]] = "waiting"
    BY <2>1, <2>2 DEF Messages, Message, IsWaiting
  <2> HIDE DEF w
  <2>5. Queued'
    <3>1. ASSUME NEW x \in Subs
          PROVE  (/\ Distinct(putters[x])
                  /\ closed[x] => putters[x] = <<>>
                  /\ \A v \in ToSet(putters[x]) :
                        /\ IsWaiting(v) /\ v \notin woken
                        /\ Head(todo[v[1]]) = x)'
      <4>1. /\ Distinct(putters[x]) /\ (closed[x] => putters[x] = <<>>)
            /\ \A v \in ToSet(putters[x]) : IsWaiting(v) /\ v \notin woken /\ Head(todo[v[1]]) = x
        BY DEF PutterInv, Queued
      <4>2. \A v : IsWaiting(v)' <=> IsWaiting(v)
        BY <1>1 DEF IsWaiting
      <4>3. CASE x = s
        <5>1. putters'[x] = Tail(putters[s])
          BY <1>2, <2>3, <4>3
        <5>2. ~closed[x]
          BY <1>5, <4>1, <4>3
        <5>3. \A v \in ToSet(putters'[x]) : v \in ToSet(putters[x]) /\ v # w
          BY <2>1, <4>3, <5>1
        <5> QED BY <1>1, <2>1, <2>3, <4>1, <4>2, <5>1, <5>2, <5>3
      <4>4. CASE x # s
        <5>1. putters'[x] = putters[x]
          BY <1>2, <2>3, <4>4
        <5>2. w \notin ToSet(putters[x])
          BY <2>2, <4>1, <4>4
        <5> QED BY <1>1, <2>3, <4>1, <4>2, <5>1, <5>2
      <4> QED BY <4>3, <4>4
    <3>2. ASSUME NEW e \in Emitters, NEW x \in Subs, emitter'[e] = "waiting", x = Head(todo'[e])
          PROVE  Message(e)' \in woken' \/ Message(e)' \in ToSet(putters'[x])
      <4>1. Message(e)' = Message(e)
        BY <1>1 DEF Message
      <4>2. Message(e) \in woken \/ Message(e) \in ToSet(putters[x])
        BY <1>1, <3>2 DEF PutterInv, Queued
      <4>3. CASE x = s
        BY <1>2, <2>1, <2>3, <4>1, <4>2, <4>3
      <4>4. CASE x # s
        BY <1>2, <2>3, <4>1, <4>2, <4>4
      <4> QED BY <4>3, <4>4
    <3> QED BY <3>1, <3>2 DEF Queued
  <2>6. /\ OnItsWay(s)' = OnItsWay(s) \cup {w[1]} /\ w[1] \notin OnItsWay(s)
        /\ \A x \in Subs \ {s} : OnItsWay(x)' = OnItsWay(x)
    <3>1. todo[w[1]] # <<>>
      BY <2>4 DEF WhereInv, Route
    <3>2. \A e \in Emitters : Message(e)' = Message(e) /\ (Message(e) = w => e = w[1])
      BY <1>1 DEF Message
    <3>3. w[1] \notin OnItsWay(s)
      BY <2>2, <2>4 DEF OnItsWay
    <3>4. ASSUME NEW x \in Subs, NEW e \in Emitters
          PROVE  e \in OnItsWay(x)' <=> e \in OnItsWay(x) \/ (x = s /\ e = w[1])
      BY <1>1, <2>2, <2>3, <2>4, <3>1, <3>2 DEF OnItsWay
    <3>5. ASSUME NEW x \in Subs PROVE OnItsWay(x)' \subseteq Emitters /\ OnItsWay(x) \subseteq Emitters
      BY DEF OnItsWay
    <3> QED BY <2>4, <3>3, <3>4, <3>5
  <2>7. Cardinality(OnItsWay(s)') = Cardinality(OnItsWay(s)) + 1 /\ Cardinality(OnItsWay(s)) \in Nat
    BY <2>6, WayFinite, FS_AddElement
  <2>8. Len(buffer'[s]) = Len(buffer[s]) - 1 /\ Len(buffer[s]) \in Nat
    BY <1>2, <2>3, TakenOff
  <2>9. MaxSize <= Len(buffer[s]) + Cardinality(OnItsWay(s))
    BY <1>5 DEF PutterInv, PlacesSpokenFor
  <2>10. MaxSize <= Len(buffer'[s]) + Cardinality(OnItsWay(s)')
    BY <2>7, <2>8, <2>9
  <2>11. \A x \in Subs \ {s} : putters'[x] = putters[x] /\ buffer'[x] = buffer[x]
    BY <1>2, <2>3
  <2>12. PlacesSpokenFor'
    <3>1. IsFiniteSet({e \in Emitters : emitter'[e] # "idle"})
      BY <1>1 DEF PutterInv, PlacesSpokenFor
    <3>2. ASSUME NEW x \in Subs, putters'[x] # <<>>
          PROVE  MaxSize <= Len(buffer'[x]) + Cardinality(OnItsWay(x)')
      BY <2>6, <2>10, <2>11, <3>2 DEF PutterInv, PlacesSpokenFor
    <3> QED BY <3>1, <3>2 DEF PlacesSpokenFor
  <2> QED BY <2>5, <2>12 DEF PutterInv
<1>6. CASE Close(s)
  <2>1. \A w \in ToSet(putters[s]) : IsWaiting(w) /\ w \notin woken /\ Head(todo[w[1]]) = s
    BY DEF PutterInv, Queued
  <2>2. /\ putters' = [putters EXCEPT ![s] = <<>>] /\ woken' = woken \cup ToSet(putters[s])
        /\ closed' = [closed EXCEPT ![s] = TRUE] /\ UNCHANGED buffer
    <3>1. {w \in ToSet(putters[s]) : IsWaiting(w)} = ToSet(putters[s])
      BY <2>1
    <3> QED BY <1>6, <3>1 DEF Close
  <2>3. /\ putters'[s] = <<>>
        /\ \A x \in Subs \ {s} : putters'[x] = putters[x] /\ closed'[x] = closed[x]
    BY <1>2, <2>2
  <2>4. ToSet(<<>>) = {} /\ Distinct(<<>>)
    BY DEF ToSet, Distinct
  <2>5. Queued'
    <3>1. ASSUME NEW x \in Subs
          PROVE  (/\ Distinct(putters[x])
                  /\ closed[x] => putters[x] = <<>>
                  /\ \A v \in ToSet(putters[x]) :
                        /\ IsWaiting(v) /\ v \notin woken
                        /\ Head(todo[v[1]]) = x)'
      <4>1. CASE x = s
        BY <2>3, <2>4, <4>1
      <4>2. CASE x # s
        <5>1. /\ Distinct(putters[x]) /\ (closed[x] => putters[x] = <<>>)
              /\ \A v \in ToSet(putters[x]) : IsWaiting(v) /\ v \notin woken /\ Head(todo[v[1]]) = x
          BY DEF PutterInv, Queued
        <5>2. \A v \in ToSet(putters[x]) : v \notin ToSet(putters[s])
          BY <2>1, <4>2, <5>1
        <5>3. \A v : IsWaiting(v)' <=> IsWaiting(v)
          BY <1>1 DEF IsWaiting
        <5> QED BY <1>1, <2>2, <2>3, <4>2, <5>1, <5>2, <5>3
      <4> QED BY <4>1, <4>2
    <3>2. ASSUME NEW e \in Emitters, NEW x \in Subs, emitter'[e] = "waiting", x = Head(todo'[e])
          PROVE  Message(e)' \in woken' \/ Message(e)' \in ToSet(putters'[x])
      <4>1. Message(e)' = Message(e)
        BY <1>1 DEF Message
      <4>2. Message(e) \in woken \/ Message(e) \in ToSet(putters[x])
        BY <1>1, <3>2 DEF PutterInv, Queued
      <4> QED BY <2>2, <2>3, <4>1, <4>2
    <3> QED BY <3>1, <3>2 DEF Queued
  <2>6. ASSUME NEW x \in Subs, x # s PROVE OnItsWay(x)' = OnItsWay(x)
    <3>1. ASSUME NEW e \in Emitters, x = Head(todo[e]) PROVE Message(e) \notin ToSet(putters[s])
      BY <2>1, <2>6, <3>1 DEF Message
    <3> QED BY <1>1, <2>2, <3>1 DEF OnItsWay, Message
  <2>7. PlacesSpokenFor'
    <3>1. IsFiniteSet({e \in Emitters : emitter'[e] # "idle"})
      BY <1>1 DEF PutterInv, PlacesSpokenFor
    <3>2. ASSUME NEW x \in Subs, putters'[x] # <<>>
          PROVE  MaxSize <= Len(buffer'[x]) + Cardinality(OnItsWay(x)')
      BY <2>2, <2>3, <2>6, <3>2 DEF PutterInv, PlacesSpokenFor
    <3> QED BY <3>1, <3>2 DEF PlacesSpokenFor
  <2> QED BY <2>5, <2>7 DEF PutterInv
<1> QED BY <1>3, <1>4, <1>5, <1>6

(* Those on their way after a step are finitely many.                      *)
LEMMA WayFiniteNext ==
  ASSUME WhereInv', IsFiniteSet({e \in Emitters : emitter'[e] # "idle"}), NEW s \in Subs
  PROVE  IsFiniteSet(OnItsWay(s)') /\ Cardinality(OnItsWay(s)') \in Nat
<1>1. OnItsWay(s)' \subseteq {e \in Emitters : emitter'[e] # "idle"}
  BY DEF OnItsWay, WhereInv, Wakes, IsWaiting, Message
<1>2. IsFiniteSet(OnItsWay(s)')
  BY <1>1, FS_Subset
<1> QED BY <1>2, FS_CardinalityType

(* An emitter that does not wait, before or after, leaves the queues as    *)
(* they are, and those on their way other than itself.                     *)
LEMMA QueuedKept ==
  ASSUME WhereInv, Queued, NEW e \in Emitters, emitter[e] # "waiting", NEW at, at # "waiting",
         emitter' = [emitter EXCEPT ![e] = at],
         \A f \in Emitters \ {e} : sent'[f] = sent[f] /\ todo'[f] = todo[f],
         UNCHANGED <<putters, woken, closed>>
  PROVE  /\ Queued'
         /\ \A s \in Subs : OnItsWay(s) \ {e} \subseteq OnItsWay(s)'
         /\ \A s \in Subs : e \in OnItsWay(s) => emitter[e] = "offer_loop" /\ s = Head(todo[e])
<1>1. emitter'[e] = at /\ \A f \in Emitters \ {e} : emitter'[f] = emitter[f]
  BY DEF WhereInv, Shape, EmitterShape
<1>2. \A f \in Emitters \ {e} : Message(f)' = Message(f)
  BY DEF Message
<1>3. Queued'
  <2>1. ASSUME NEW x \in Subs, NEW w \in ToSet(putters[x])
        PROVE  IsWaiting(w)' /\ w \notin woken /\ Head(todo'[w[1]]) = x
    <3>1. IsWaiting(w) /\ w \notin woken /\ Head(todo[w[1]]) = x
      BY DEF Queued
    <3>2. w[1] \in Emitters
      <4>1. putters[x] \in Seq(Messages)
        BY DEF WhereInv, Shape, QueueShape
      <4> QED BY <4>1 DEF ToSet, Messages
    <3>3. w[1] # e
      BY <3>1 DEF IsWaiting
    <3> QED BY <1>1, <3>1, <3>2, <3>3 DEF IsWaiting
  <2>2. ASSUME NEW f \in Emitters, NEW x \in Subs, emitter'[f] = "waiting", x = Head(todo'[f])
        PROVE  Message(f)' \in woken \/ Message(f)' \in ToSet(putters[x])
    BY <1>1, <1>2, <2>2 DEF Queued
  <2> QED BY <2>1, <2>2 DEF Queued
<1>4. ASSUME NEW s \in Subs PROVE OnItsWay(s) \ {e} \subseteq OnItsWay(s)'
  BY <1>1, <1>2 DEF OnItsWay
<1>5. ASSUME NEW s \in Subs, e \in OnItsWay(s)
      PROVE  emitter[e] = "offer_loop" /\ s = Head(todo[e])
  <2>1. Message(e) \notin woken
    BY DEF WhereInv, Wakes, IsWaiting, Message
  <2> QED BY <1>5, <2>1 DEF OnItsWay
<1> QED BY <1>3, <1>4, <1>5

(* Room that is only taken, with nobody fewer on the way.                  *)
LEMMA SpokenForKept ==
  ASSUME WhereInv, WhereInv', PlacesSpokenFor, NEW e \in Emitters, NEW at,
         emitter' = [emitter EXCEPT ![e] = at],
         \A s \in Subs : putters'[s] # <<>> =>
            \/ MaxSize <= Len(buffer'[s])
            \/ /\ putters[s] # <<>> /\ Len(buffer[s]) <= Len(buffer'[s])
               /\ OnItsWay(s) \subseteq OnItsWay(s)'
  PROVE  PlacesSpokenFor'
<1>1. IsFiniteSet({f \in Emitters : emitter'[f] # "idle"})
  BY BusyFinite DEF PlacesSpokenFor
<1>2. ASSUME NEW s \in Subs, putters'[s] # <<>>
      PROVE  MaxSize <= Len(buffer'[s]) + Cardinality(OnItsWay(s)')
  <2>1. /\ Len(buffer[s]) \in Nat /\ Len(buffer'[s]) \in Nat /\ MaxSize \in Nat
    BY TopicAssumption DEF WhereInv, Shape, QueueShape
  <2>2. IsFiniteSet(OnItsWay(s)') /\ Cardinality(OnItsWay(s)') \in Nat
    BY <1>1, WayFiniteNext
  <2>3. CASE MaxSize <= Len(buffer'[s])
    BY <2>1, <2>2, <2>3
  <2>4. CASE /\ putters[s] # <<>> /\ Len(buffer[s]) <= Len(buffer'[s])
             /\ OnItsWay(s) \subseteq OnItsWay(s)'
    <3>1. IsFiniteSet(OnItsWay(s)) /\ Cardinality(OnItsWay(s)) <= Cardinality(OnItsWay(s)')
      BY <2>2, <2>4, FS_Subset
    <3>2. Cardinality(OnItsWay(s)) \in Nat
      BY <3>1, FS_CardinalityType
    <3>3. MaxSize <= Len(buffer[s]) + Cardinality(OnItsWay(s))
      BY <2>4 DEF PlacesSpokenFor
    <3> QED BY <2>1, <2>2, <2>4, <3>1, <3>2, <3>3
  <2> QED BY <1>2, <2>3, <2>4
<1> QED BY <1>1, <1>2 DEF PlacesSpokenFor

(* Steps of emit() at a subscription, of a call that begins or ends, and   *)
(* of the count of emit_nowait.                                            *)
LEMMA PutPutter ==
  ASSUME WhereInv, WhereInv', PutterInv, NEW e \in Emitters, NEW s \in Subs,
         \/ Emit(e) \/ Return(e)
         \/ Put(e, s) \/ CountLoad(e, s) \/ CountStore(e, s)
  PROVE  PutterInv'
<1> USE TopicAssumption DEF Set, subVars, readerVars, emitVars
<1>1. /\ sent \in [Emitters -> Nat] /\ todo \in [Emitters -> Seq(Subs)]
      /\ buffer \in [Subs -> Seq(Messages)] /\ Message(e) \in Messages
      /\ \A x \in Subs : Len(buffer[x]) <= MaxSize
  BY DEF WhereInv, Shape, EmitterShape, QueueShape, Message, Messages
<1>2. /\ UNCHANGED <<putters, woken, closed>>
      /\ emitter[e] \notin {"waiting", "offer_loop"}
      /\ \A f \in Emitters \ {e} : sent'[f] = sent[f] /\ todo'[f] = todo[f]
  <2>1. CASE Emit(e) \/ Return(e)
    BY <1>1, <2>1 DEF Emit, Return
  <2>2. CASE Put(e, s)
    BY <1>1, <2>2 DEF Put, PutClosed, PutAppend, PutDropped, PutRaises, PutFull, At, Onward
  <2>3. CASE CountLoad(e, s) \/ CountStore(e, s)
    BY <1>1, <2>3 DEF CountLoad, CountStore
  <2> QED BY <2>1, <2>2, <2>3
<1>3. PICK at \in {"idle", "offering", "offer_put", "offer_loop", "counting", "counted"} :
         emitter' = [emitter EXCEPT ![e] = at]
  <2>1. CASE Emit(e) \/ Return(e)
    BY <2>1 DEF Emit, Return
  <2>2. CASE PutFull(e, s)
    BY <2>2 DEF PutFull
  <2>3. CASE PutClosed(e, s) \/ PutAppend(e, s) \/ PutDropped(e, s) \/ PutRaises(e, s)
    BY <2>3 DEF PutClosed, PutAppend, PutDropped, PutRaises, Onward
  <2>4. CASE CountLoad(e, s) \/ CountStore(e, s)
    BY <2>4 DEF CountLoad, CountStore
  <2> QED BY <2>1, <2>2, <2>3, <2>4 DEF Put
<1>4. /\ Queued'
      /\ \A x \in Subs : OnItsWay(x) \ {e} \subseteq OnItsWay(x)'
      /\ \A x \in Subs : e \in OnItsWay(x) => emitter[e] = "offer_loop" /\ x = Head(todo[e])
  BY <1>2, <1>3, QueuedKept DEF PutterInv
<1>5. \A x \in Subs : OnItsWay(x) \subseteq OnItsWay(x)'
  BY <1>2, <1>4
<1>6. ASSUME NEW x \in Subs PROVE Len(buffer[x]) <= Len(buffer'[x])
  <2>1. CASE ~PutAppend(e, s)
    <3>1. UNCHANGED buffer
      BY <2>1 DEF Emit, Return, Put, PutClosed, PutDropped, PutRaises, PutFull, CountLoad,
           CountStore
    <3> QED BY <1>1, <3>1
  <2>2. CASE PutAppend(e, s)
    <3>1. buffer' = [buffer EXCEPT ![s] = Append(IF Full(s) THEN Tail(buffer[s]) ELSE buffer[s],
                                                 Message(e))]
      BY <2>2 DEF PutAppend
    <3>2. CASE x # s
      BY <1>1, <3>1, <3>2
    <3>3. CASE x = s /\ ~Full(s)
      <4>1. buffer'[s] = Append(buffer[s], Message(e))
        BY <1>1, <3>1, <3>3
      <4>2. Len(buffer'[s]) = Len(buffer[s]) + 1 /\ Len(buffer[s]) \in Nat
        BY <1>1, <4>1, PushedBack
      <4> QED BY <3>3, <4>2
    <3>4. CASE x = s /\ Full(s)
      <4>1. buffer'[s] = Append(Tail(buffer[s]), Message(e)) /\ buffer[s] # <<>>
        BY <1>1, <3>1, <3>4 DEF Full
      <4>2. Tail(buffer[s]) \in Seq(Messages) /\ Len(Tail(buffer[s])) = Len(buffer[s]) - 1
            /\ Len(buffer[s]) \in Nat
        BY <1>1, <4>1, TakenOff
      <4>3. Len(buffer'[s]) = Len(Tail(buffer[s])) + 1
        BY <1>1, <4>1, <4>2, PushedBack
      <4>4. Len(buffer'[s]) = Len(buffer[s])
        BY <4>2, <4>3
      <4> QED BY <3>4, <4>2, <4>4
    <3> QED BY <3>2, <3>3, <3>4
  <2> QED BY <2>1, <2>2
<1>7. PlacesSpokenFor'
  BY <1>2, <1>3, <1>5, <1>6, SpokenForKept DEF PutterInv
<1> QED BY <1>4, <1>7 DEF PutterInv

(* The loop of _offer: an emitter comes for a place and takes it, finds    *)
(* the subscription ended, or finds none left and queues.                  *)
LEMMA OfferPutter ==
  ASSUME WhereInv, WhereInv', PutterInv, NEW e \in Emitters, NEW s \in Subs, Offer(e, s)
  PROVE  PutterInv'
<1> USE TopicAssumption DEF Set, subVars, readerVars, emitVars
<1>1. /\ sent \in [Emitters -> Nat] /\ todo \in [Emitters -> Seq(Subs)]
      /\ buffer \in [Subs -> Seq(Messages)] /\ Message(e) \in Messages
      /\ putters \in [Subs -> Seq(Messages)] /\ closed \in [Subs -> BOOLEAN]
      /\ emitter \in [Emitters -> {"idle", "offering", "offer_put", "offer_loop",
                                   "waiting", "counting", "counted"}]
  BY DEF WhereInv, Shape, EmitterShape, QueueShape, ReaderShape, Message, Messages
<1>2. emitter[e] = "offer_loop" /\ s = Head(todo[e]) /\ UNCHANGED <<woken, closed, sent>>
  BY DEF Offer, OfferClosed, OfferAppend, OfferWaits, AtLoop, Onward
<1>3. todo[e] # <<>>
  BY <1>2 DEF WhereInv, Route
<1>4. CASE OfferClosed(e, s) \/ OfferAppend(e, s)
  <2>1. /\ emitter' = [emitter EXCEPT ![e] = "offering"] /\ UNCHANGED putters
        /\ \A f \in Emitters \ {e} : sent'[f] = sent[f] /\ todo'[f] = todo[f]
    BY <1>1, <1>4 DEF OfferClosed, OfferAppend, Onward
  <2>2. /\ Queued'
        /\ \A x \in Subs : OnItsWay(x) \ {e} \subseteq OnItsWay(x)'
        /\ \A x \in Subs : e \in OnItsWay(x) => x = Head(todo[e])
    BY <1>2, <2>1, QueuedKept DEF PutterInv
  <2>3. CASE OfferClosed(e, s)
    <3>1. UNCHANGED buffer /\ putters[s] = <<>>
      BY <2>3 DEF OfferClosed, PutterInv, Queued
    <3>2. \A x \in Subs : putters[x] # <<>> => /\ OnItsWay(x) \subseteq OnItsWay(x)'
                                               /\ Len(buffer[x]) <= Len(buffer'[x])
      BY <1>1, <1>2, <2>2, <3>1
    <3>3. PlacesSpokenFor'
      BY <2>1, <3>2, SpokenForKept DEF PutterInv
    <3> QED BY <2>2, <3>3 DEF PutterInv
  <2>4. CASE OfferAppend(e, s)
    <3>1. buffer' = [buffer EXCEPT ![s] = Append(buffer[s], Message(e))]
      BY <2>4 DEF OfferAppend
    <3>2. Len(buffer'[s]) = Len(buffer[s]) + 1 /\ Len(buffer[s]) \in Nat
      BY <1>1, <3>1, PushedBack
    <3>3. IsFiniteSet({f \in Emitters : emitter'[f] # "idle"})
      BY <2>1, BusyFinite DEF PutterInv, PlacesSpokenFor
    <3>4. ASSUME NEW x \in Subs, putters[x] # <<>>
          PROVE  MaxSize <= Len(buffer'[x]) + Cardinality(OnItsWay(x)')
      <4>1. MaxSize <= Len(buffer[x]) + Cardinality(OnItsWay(x)) /\ MaxSize \in Nat
        BY <3>4 DEF PutterInv, PlacesSpokenFor
      <4>2. IsFiniteSet(OnItsWay(x)) /\ Cardinality(OnItsWay(x)) \in Nat
        BY WayFinite
      <4>3. IsFiniteSet(OnItsWay(x)') /\ Cardinality(OnItsWay(x)') \in Nat
        BY <3>3, WayFiniteNext
      <4>4. CASE x # s
        <5>1. OnItsWay(x) \subseteq OnItsWay(x)'
          BY <1>2, <2>2, <4>4
        <5>2. Cardinality(OnItsWay(x)) <= Cardinality(OnItsWay(x)')
          BY <4>3, <5>1, FS_Subset
        <5>3. buffer'[x] = buffer[x] /\ Len(buffer[x]) \in Nat
          BY <1>1, <3>1, <4>4
        <5> QED BY <4>1, <4>2, <4>3, <5>2, <5>3
      <4>5. CASE x = s
        <5>1. e \in OnItsWay(s)
          BY <1>2, <1>3 DEF OnItsWay
        <5>2. Cardinality(OnItsWay(s) \ {e}) = Cardinality(OnItsWay(s)) - 1
          BY <4>2, <4>5, <5>1, FS_RemoveElement
        <5>3. Cardinality(OnItsWay(s) \ {e}) <= Cardinality(OnItsWay(s)')
          BY <2>2, <4>3, <4>5, FS_Subset
        <5>4. Cardinality(OnItsWay(s)) - 1 <= Cardinality(OnItsWay(s)')
          BY <5>2, <5>3
        <5>5. MaxSize <= Len(buffer'[s]) + Cardinality(OnItsWay(s)')
          BY <3>2, <4>1, <4>2, <4>3, <4>5, <5>4
        <5> QED BY <4>5, <5>5
      <4> QED BY <4>4, <4>5
    <3>5. PlacesSpokenFor'
      BY <2>1, <3>3, <3>4 DEF PlacesSpokenFor
    <3> QED BY <2>2, <3>5 DEF PutterInv
  <2> QED BY <1>4, <2>3, <2>4
<1>5. CASE OfferWaits(e, s)
  <2>1. /\ emitter' = [emitter EXCEPT ![e] = "waiting"] /\ UNCHANGED <<todo, buffer>>
        /\ putters' = [putters EXCEPT ![s] = Append(putters[s], Message(e))]
        /\ ~closed[s] /\ Full(s)
    BY <1>5 DEF OfferWaits
  <2>2. emitter'[e] = "waiting" /\ \A f \in Emitters \ {e} : emitter'[f] = emitter[f]
    BY <1>1, <2>1
  <2>3. \A f \in Emitters : Message(f)' = Message(f)
    BY <1>2 DEF Message
  <2>4. Message(e) \notin woken
    BY <1>2 DEF WhereInv, Wakes, IsWaiting, Message
  <2>5. \A x \in Subs : \A w \in ToSet(putters[x]) : w[1] # e /\ w[1] \in Emitters
    <3>1. ASSUME NEW x \in Subs, NEW w \in ToSet(putters[x]) PROVE w[1] # e /\ w[1] \in Emitters
      <4>1. w[1] \in Emitters
        BY <1>1 DEF ToSet, Messages
      <4>2. IsWaiting(w)
        BY DEF PutterInv, Queued
      <4> QED BY <1>2, <4>1, <4>2 DEF IsWaiting
    <3> QED BY <3>1
  <2>6. /\ ToSet(putters'[s]) = ToSet(putters[s]) \cup {Message(e)} /\ Distinct(putters'[s])
    <3>1. putters[s] \in Seq(Messages) /\ Distinct(putters[s])
      BY <1>1 DEF PutterInv, Queued
    <3>2. Message(e) \notin ToSet(putters[s])
      BY <2>5 DEF Message
    <3>3. putters'[s] = Append(putters[s], Message(e))
      BY <1>1, <2>1
    <3> QED BY <1>1, <3>1, <3>2, <3>3, PushedBack
  <2>7. \A x \in Subs \ {s} : putters'[x] = putters[x]
    BY <1>1, <2>1
  <2>8. Queued'
    <3>1. ASSUME NEW x \in Subs, NEW w \in ToSet(putters'[x])
          PROVE  IsWaiting(w)' /\ w \notin woken /\ Head(todo[w[1]]) = x
      <4>1. CASE w \in ToSet(putters[x])
        <5>1. IsWaiting(w) /\ w \notin woken /\ Head(todo[w[1]]) = x
          BY <4>1 DEF PutterInv, Queued
        <5> QED BY <1>2, <2>2, <2>5, <4>1, <5>1 DEF IsWaiting
      <4>2. CASE w \notin ToSet(putters[x])
        <5>1. x = s /\ w = Message(e)
          BY <2>6, <2>7, <3>1, <4>2
        <5> QED BY <1>2, <2>2, <2>4, <5>1 DEF IsWaiting, Message
      <4> QED BY <4>1, <4>2
    <3>2. ASSUME NEW f \in Emitters, NEW x \in Subs, emitter'[f] = "waiting", x = Head(todo[f])
          PROVE  Message(f) \in woken \/ Message(f) \in ToSet(putters'[x])
      <4>1. CASE f = e
        BY <1>2, <2>6, <3>2, <4>1
      <4>2. CASE f # e
        <5>1. Message(f) \in woken \/ Message(f) \in ToSet(putters[x])
          BY <2>2, <3>2, <4>2 DEF PutterInv, Queued
        <5> QED BY <2>6, <2>7, <5>1
      <4> QED BY <4>1, <4>2
    <3>3. ASSUME NEW x \in Subs
          PROVE  Distinct(putters'[x]) /\ (closed[x] => putters'[x] = <<>>)
      BY <2>1, <2>6, <2>7 DEF PutterInv, Queued
    <3> QED BY <1>2, <2>1, <2>3, <3>1, <3>2, <3>3 DEF Queued
  <2>9. ASSUME NEW x \in Subs \ {s} PROVE OnItsWay(x) \subseteq OnItsWay(x)'
    BY <1>2, <2>1, <2>2, <2>3 DEF OnItsWay
  <2>10. \A x \in Subs : putters'[x] # <<>> =>
            \/ MaxSize <= Len(buffer'[x])
            \/ /\ putters[x] # <<>> /\ Len(buffer[x]) <= Len(buffer'[x])
               /\ OnItsWay(x) \subseteq OnItsWay(x)'
    <3>1. MaxSize <= Len(buffer[s])
      BY <1>1, <2>1 DEF Full
    <3>2. \A x \in Subs : Len(buffer[x]) <= Len(buffer'[x])
      BY <1>1, <2>1
    <3> QED BY <2>1, <2>7, <2>9, <3>1, <3>2
  <2>11. PlacesSpokenFor'
    BY <2>1, <2>10, SpokenForKept DEF PutterInv
  <2> QED BY <2>8, <2>11 DEF PutterInv
<1> QED BY <1>4, <1>5 DEF Offer

(* The loop runs the wake: the emitter is on its way as before.            *)
LEMMA ResumePutter ==
  ASSUME WhereInv, WhereInv', PutterInv, NEW e \in Emitters, EmitterResumes(e)
  PROVE  PutterInv'
<1> USE DEF Set, subVars, readerVars, emitVars
<1>1. /\ Message(e) \in woken /\ woken' = woken \ {Message(e)}
      /\ emitter' = [emitter EXCEPT ![e] = "offer_loop"]
      /\ UNCHANGED <<buffer, putters, closed, sent, todo>>
  BY DEF EmitterResumes
<1>2. emitter'[e] = "offer_loop" /\ \A f \in Emitters \ {e} : emitter'[f] = emitter[f]
  BY <1>1 DEF WhereInv, Shape, EmitterShape
<1>3. \A f \in Emitters : Message(f)' = Message(f) /\ (f # e => Message(f) # Message(e))
  BY <1>1 DEF Message
<1>4. Queued'
  <2>1. ASSUME NEW x \in Subs, NEW w \in ToSet(putters[x])
        PROVE  IsWaiting(w)' /\ w \notin woken' /\ Head(todo[w[1]]) = x
    <3>1. IsWaiting(w) /\ w \notin woken /\ Head(todo[w[1]]) = x
      BY DEF PutterInv, Queued
    <3>2. w \in Messages
      BY DEF ToSet, WhereInv, Shape, QueueShape
    <3>3. w[1] \in Emitters
      BY <3>2 DEF Messages
    <3>4. w[1] # e
      <4>1. ASSUME w[1] = e PROVE w = Message(e)
        BY <3>1, <3>2, <4>1 DEF Messages, Message, IsWaiting
      <4> QED BY <1>1, <3>1, <4>1
    <3> QED BY <1>1, <1>2, <3>1, <3>3, <3>4 DEF IsWaiting
  <2>2. ASSUME NEW f \in Emitters, NEW x \in Subs, emitter'[f] = "waiting", x = Head(todo[f])
        PROVE  Message(f) \in woken' \/ Message(f) \in ToSet(putters[x])
    <3>1. f # e /\ emitter[f] = "waiting"
      BY <1>2, <2>2
    <3> QED BY <1>1, <1>3, <2>2, <3>1 DEF PutterInv, Queued
  <2> QED BY <1>1, <1>3, <2>1, <2>2 DEF PutterInv, Queued
<1>5. ASSUME NEW x \in Subs PROVE OnItsWay(x) \subseteq OnItsWay(x)'
  BY <1>1, <1>2, <1>3 DEF OnItsWay
<1>6. \A x \in Subs : Len(buffer[x]) <= Len(buffer'[x])
  BY <1>1 DEF WhereInv, Shape, QueueShape
<1>7. PlacesSpokenFor'
  BY <1>1, <1>5, <1>6, SpokenForKept DEF PutterInv
<1> QED BY <1>4, <1>7 DEF PutterInv

(* Every step keeps every free place spoken for, where none is cancelled.  *)
LEMMA NextPutter ==
  ASSUME Cancellable = {}
  PROVE  WhereInv /\ WhereInv' /\ PutterInv /\ [Next]_vars => PutterInv'
<1> SUFFICES ASSUME WhereInv, WhereInv', PutterInv, [Next]_vars PROVE PutterInv'
  OBVIOUS
<1>1. CASE UNCHANGED vars
  BY <1>1 DEF vars, PutterInv, Queued, PlacesSpokenFor, OnItsWay, IsWaiting, Message
<1>2. ASSUME NEW s \in Subs, Subscribe(s) \/ Reading(s) \/ ReaderGivesUp(s) \/ Close(s)
      PROVE  PutterInv'
  BY <1>2, ReaderPutter
<1>3. ASSUME NEW e \in Emitters, Emit(e) \/ Return(e)
      PROVE  PutterInv'
  <2>1. CASE Subs = {}
    <3>1. PICK at : emitter' = [emitter EXCEPT ![e] = at]
      BY <1>3 DEF Emit, Return, Set
    <3>2. IsFiniteSet({f \in Emitters : emitter'[f] # "idle"})
      BY <3>1, BusyFinite DEF PutterInv, PlacesSpokenFor
    <3> QED BY <2>1, <3>2 DEF PutterInv, Queued, PlacesSpokenFor
  <2>2. CASE Subs # {}
    <3>1. PICK s : s \in Subs
      BY <2>2
    <3> QED BY <1>3, <3>1, PutPutter
  <2> QED BY <2>1, <2>2
<1>4. ASSUME NEW e \in Emitters, Emitting(e)
      PROVE  PutterInv'
  BY <1>3, <1>4, PutPutter, OfferPutter, ResumePutter DEF Emitting
<1>5. \A e \in Emitters : ~EmitterCancelled(e)
  BY DEF EmitterCancelled
<1> QED BY <1>1, <1>2, <1>3, <1>4, <1>5 DEF Next

(* Where no emitting task is cancelled, an emitter waits in _offer only    *)
(* while there is no room: for every free place of a `block` subscription, *)
(* and for its end, another emitter has been woken and has yet to look.    *)
THEOREM WaitersKept ==
  ASSUME Cancellable = {}
  PROVE  Spec => []PutterNotStranded
<1>1. Init => WhereInv /\ PutterInv
  BY InitWhere, InitPutter
<1>2. WhereInv /\ PutterInv /\ [Next]_vars => (WhereInv /\ PutterInv)'
  BY NextWhere, NextPutter
<1>3. WhereInv /\ PutterInv => PutterNotStranded
  BY PuttersSafe
<1> QED BY <1>1, <1>2, <1>3, PTL DEF Spec

-----------------------------------------------------------------------------
(* BodyStream: what a reader of a request's body can rely on               *)

ChunkSet == [kind : {"data"} \cup Bd!Markers, frame : Nat]
PumpSet == Bd!Awaiting \cup {"binding", "unpolled", "top", "push", "append", "wake",
                             "stopped", "gone"}
TaskSet == Bd!Resting \cup {"ask", "sub", "notify", "look", "collect", "install", "check"}

BodyTypes ==
    /\ chunks \in Seq(ChunkSet) /\ pushing \in ChunkSet /\ given \in Seq(Nat)
    /\ buffered \in Nat /\ total \in 0 .. MaxFrames
    /\ permit \in BOOLEAN /\ bound \in BOOLEAN /\ finished \in BOOLEAN
    /\ reading \in BOOLEAN /\ whole \in BOOLEAN /\ discard \in BOOLEAN
    /\ waiters \subseteq Bd!Readers /\ scheduled \subseteq Bd!Readers
    /\ pump \in PumpSet
    /\ wait \in {"reply", "linger", "over"}
    /\ task \in [Bd!Readers -> TaskSet]
    /\ result \in [Bd!Readers -> {"none"} \cup Bd!Markers]

(* The marker is in the buffer: the flag is up before it, and between the  *)
(* two a reader sees a body that is over and does not say how.             *)
Marked == finished /\ pump # "append"

(* The chunks buffered; the one counted and not there yet; the one taken   *)
(* and counted still.                                                      *)
Held == IF Marked THEN Len(chunks) - 1 ELSE Len(chunks)
Partial == IF pump = "append" /\ Bd!IsData(pushing) THEN 1 ELSE 0
Taking == IF \E r \in Bd!Readers : task[r] = "sub" THEN 1 ELSE 0

(* A marker is last, and nothing follows it.                               *)
BodyPlace ==
    /\ pump = "binding" => chunks = <<>>
    /\ pump # "binding" => bound
    /\ finished => pump \in {"append", "wake", "stopped"}
    /\ pump = "append" => (finished <=> ~Bd!IsData(pushing))
    /\ Marked => chunks # <<>> /\ ~Bd!IsData(chunks[Len(chunks)])
    /\ \A i \in DOMAIN chunks : ~Bd!IsData(chunks[i]) => Marked /\ i = Len(chunks)

(* The frames are handed out and buffered in turn, and the pump's is next. *)
BodyFrames ==
    /\ Bd!InOrder
    /\ Len(given) + Held <= MaxBody
    /\ pump \in {"binding", "unpolled", "lazy", "top", "room", "frame"}
          \/ (pump = "wake" /\ ~finished) => total = Len(given) + Len(chunks)
    /\ pump \in {"push", "append"} /\ Bd!IsData(pushing) =>
          /\ total = Len(given) + Len(chunks) + 1
          /\ pushing.frame = total /\ total <= MaxBody

(* The count is of what is there, and the pump stops at the mark.          *)
BodyCounts ==
    /\ buffered = Held + Partial + Taking
    /\ Taking = 1 => Len(given) >= 1
    /\ whole \/ buffered <= HighWater + 1
    /\ pump = "frame" \/ (pump = "push" /\ Bd!IsData(pushing)) =>
          whole \/ buffered <= HighWater

(* One task runs at a time, and one that waits has its callback somewhere. *)
BodyWaits ==
    /\ \A r, q \in Bd!Readers :
          task[r] \notin Bd!Resting /\ task[q] \notin Bd!Resting => r = q
    /\ \A r \in Bd!Readers : task[r] \in {"install", "check"} => whole
    /\ \A r \in Bd!Readers :
          task[r] \in {"look", "check", "waiting"} => r \in waiters \cup scheduled
    /\ \A r \in Bd!Readers :
          task[r] = "waiting" /\ r \notin scheduled /\ chunks # <<>> /\ (~whole \/ Marked)
             => pump = "wake"

(* The end is only said of a body that ended.                              *)
BodyEnds ==
    /\ \A i \in DOMAIN chunks : chunks[i].kind = "end" => complete
    /\ pump \in {"push", "append"} /\ pushing.kind = "end" => complete
    /\ \A r \in Iterators : result[r] = "end" => complete

BodyInv == BodyTypes /\ BodyPlace /\ BodyFrames /\ BodyCounts /\ BodyWaits /\ BodyEnds

(* What the constants are.                                                 *)
LEMMA BodyBounds ==
  /\ HighWater \in Nat /\ MaxBody \in Nat /\ MaxFrames \in Nat
  /\ Lingers \in BOOLEAN /\ Iterators \cap Collectors = {}
BY BodiesAssumption DEF Bd!BodyStreamAssumption

(* A marker and no other chunk says that a body is over.                   *)
LEMMA MarkedIsEnded ==
  ASSUME BodyTypes, BodyPlace
  PROVE  /\ Bd!Ended <=> Marked
         /\ Bd!Arrived = Held /\ Held \in Nat /\ Len(chunks) \in Nat
         /\ Marked => Held = Len(chunks) - 1 /\ Bd!Marks = {Len(chunks)}
         /\ ~Marked => Held = Len(chunks)
<1>1. Len(chunks) \in Nat /\ DOMAIN chunks = 1 .. Len(chunks)
  BY DEF BodyTypes
<1>2. CASE Marked
  <2>1. Len(chunks) \in DOMAIN chunks /\ Len(chunks) >= 1
    BY <1>1, <1>2 DEF BodyPlace, BodyTypes
  <2>2. Bd!Marks = {Len(chunks)}
    BY <1>2, <2>1 DEF BodyPlace, Bd!Marks
  <2>3. Bd!Min({Len(chunks)}) = Len(chunks)
    BY <1>1 DEF Bd!Min
  <2>4. Bd!Ended
    BY <2>2 DEF Bd!Ended
  <2> QED BY <1>1, <1>2, <2>1, <2>2, <2>3, <2>4 DEF Bd!Arrived, Held
<1>3. CASE ~Marked
  <2>1. Bd!Marks = {}
    BY <1>3 DEF BodyPlace, Bd!Marks
  <2>2. ~Bd!Ended
    BY <2>1 DEF Bd!Ended
  <2> QED BY <1>1, <1>3, <2>2 DEF Bd!Arrived, Held
<1> QED BY <1>2, <1>3

(* The invariant is what the properties of BodyStream say, and more.       *)
LEMMA BodyImplied ==
  ASSUME BodyInv
  PROVE  BodySafety
<1>1. /\ Len(given) \in Nat /\ Len(chunks) \in Nat /\ Held \in Nat
      /\ Taking \in {0, 1} /\ Partial \in {0, 1}
  BY MarkedIsEnded DEF BodyInv, BodyTypes, Taking, Partial
<1>2. Partial = 1 => /\ total = Len(given) + Len(chunks) + 1 /\ total <= MaxBody
                     /\ Held <= Len(chunks)
  <2>1. Held <= Len(chunks)
    BY <1>1 DEF Held
  <2> QED BY <2>1 DEF BodyInv, BodyFrames, Partial
<1>3. buffered = Held + Partial + Taking /\ Len(given) + Held <= MaxBody
      /\ (Taking = 1 => Len(given) >= 1) /\ total \in Nat
  BY BodyBounds DEF BodyInv, BodyCounts, BodyFrames, BodyTypes
<1>4. buffered \in 0 .. MaxBody
  BY <1>1, <1>2, <1>3, BodyBounds
<1>5. \A i \in DOMAIN chunks : chunks[i].kind \in {"data"} \cup Bd!Markers
  <2>1. \A i \in DOMAIN chunks : chunks[i] \in ChunkSet
    BY DEF BodyInv, BodyTypes
  <2> QED BY <2>1 DEF ChunkSet
<1>6. Bd!TypeOK
  BY <1>4, <1>5 DEF BodyInv, BodyTypes, Bd!TypeOK, PumpSet, TaskSet
<1>7. Bd!NoShortIteration
  BY DEF BodyInv, BodyEnds, Bd!NoShortIteration
<1>8. Bd!InOrder
  BY DEF BodyInv, BodyFrames
<1>9. Bd!WaiterNotStranded
  BY MarkedIsEnded DEF BodyInv, BodyWaits, Bd!WaiterNotStranded, Bd!Ready
<1>10. Bd!BackPressure
  <2>1. buffered <= MaxBody
    BY <1>4
  <2> QED BY <2>1 DEF BodyInv, BodyCounts, Bd!BackPressure
<1> QED BY <1>6, <1>7, <1>8, <1>9, <1>10 DEF BodySafety, Bd!Safety

(* A body nobody has read of.                                              *)
LEMMA BodyInit ==
  ASSUME Bd!Init
  PROVE  BodyInv
<1>1. /\ {permit, bound, finished, reading, whole, discard} \subseteq BOOLEAN
      /\ ~finished /\ pump = "binding" /\ chunks = <<>> /\ given = <<>> /\ buffered = 0
      /\ total = 0 /\ pushing = Bd!Marker("end") /\ ~whole
      /\ task = [r \in Bd!Readers |-> "idle"] /\ result = [r \in Bd!Readers |-> "none"]
      /\ waiters = {} /\ scheduled = {} /\ wait = "reply"
  BY DEF Bd!Init
<1>2. pushing \in ChunkSet
  BY <1>1 DEF ChunkSet, Bd!Marker, Bd!Markers
<1>3. ~Marked /\ Held = 0 /\ Partial = 0 /\ Taking = 0
  BY <1>1 DEF Marked, Held, Partial, Taking
<1>4. BodyTypes
  BY <1>1, <1>2, BodyBounds DEF BodyTypes, PumpSet, TaskSet, Bd!Resting
<1>5. BodyPlace /\ BodyEnds
  BY <1>1, <1>3 DEF BodyPlace, BodyEnds, Bd!Readers
<1>6. BodyFrames /\ BodyCounts
  BY <1>1, <1>3, BodyBounds DEF BodyFrames, BodyCounts, Bd!InOrder
<1>7. BodyWaits
  BY <1>1 DEF BodyWaits, Bd!Resting
<1> QED BY <1>4, <1>5, <1>6, <1>7 DEF BodyInv

(* The pump's steps that only concern itself: none of them is in the       *)
(* middle of a push, and what it goes on to is what its place allows.      *)
PumpAlone ==
    /\ UNCHANGED <<chunks, buffered, waiters, finished, scheduled, whole, task, result, given>>
    /\ pump \notin {"push", "append", "wake"} /\ pump' \notin {"append", "wake", "binding"}
    /\ bound' /\ (complete => complete')
    /\ finished => pump' = "stopped"
    /\ pump' \in {"unpolled", "lazy", "top", "room", "frame"} =>
          /\ pump \in {"binding", "unpolled", "lazy", "top", "room", "frame"}
          /\ total' = total
    /\ pump' = "frame" => whole \/ buffered <= HighWater
    /\ pump' = "push" /\ Bd!IsData(pushing') =>
          /\ pump = "frame"
          /\ total' = total + 1 /\ total' <= MaxBody /\ pushing'.frame = total'
    /\ pump' = "push" /\ pushing'.kind = "end" => complete'

PumpTyped ==
    /\ pump \in PumpSet /\ pushing \in ChunkSet /\ total \in 0 .. MaxFrames
    /\ permit \in BOOLEAN /\ bound \in BOOLEAN /\ reading \in BOOLEAN /\ discard \in BOOLEAN
    /\ wait \in {"reply", "linger", "over"}

(* Such a step keeps the invariant.                                        *)
LEMMA PumpAloneKept ==
  ASSUME BodyInv, PumpAlone, PumpTyped'
  PROVE  BodyInv'
<1>1. /\ (Marked' <=> Marked) /\ Held' = Held /\ Partial' = 0 /\ Partial = 0
      /\ Taking' = Taking
  BY DEF PumpAlone, Marked, Held, Partial, Taking
<1>2. BodyTypes'
  BY DEF BodyInv, BodyTypes, PumpAlone, PumpTyped
<1>3. BodyPlace'
  BY <1>1 DEF BodyInv, BodyPlace, PumpAlone
<1>4. BodyFrames'
  <2>1. Bd!InOrder'
    BY DEF BodyInv, BodyFrames, PumpAlone, Bd!InOrder
  <2>2. Len(given') + Held' <= MaxBody
    BY <1>1 DEF BodyInv, BodyFrames, PumpAlone
  <2>3. pump' \in {"unpolled", "lazy", "top", "room", "frame"} =>
          total' = Len(given') + Len(chunks')
    BY DEF BodyInv, BodyFrames, PumpAlone
  <2>4. pump' = "push" /\ Bd!IsData(pushing') =>
          /\ total' = Len(given') + Len(chunks') + 1
          /\ pushing'.frame = total' /\ total' <= MaxBody
    BY DEF BodyInv, BodyFrames, PumpAlone
  <2> QED BY <2>1, <2>2, <2>3, <2>4 DEF BodyFrames, PumpAlone
<1>5. BodyCounts'
  <2>1. pump' = "push" /\ Bd!IsData(pushing') => whole \/ buffered <= HighWater
    BY DEF BodyInv, BodyCounts, PumpAlone
  <2> QED BY <1>1, <2>1 DEF BodyInv, BodyCounts, PumpAlone
<1>6. BodyWaits'
  BY <1>1 DEF BodyInv, BodyWaits, PumpAlone
<1>7. BodyEnds'
  BY DEF BodyInv, BodyEnds, PumpAlone
<1> QED BY <1>2, <1>3, <1>4, <1>5, <1>6, <1>7 DEF BodyInv

(* Chunks of data, and markers, are chunks.                                *)
LEMMA ChunkFacts ==
  /\ \A n \in Nat : /\ Bd!Data(n) \in ChunkSet /\ Bd!IsData(Bd!Data(n))
                    /\ Bd!Data(n).frame = n /\ Bd!Data(n).kind = "data"
  /\ \A k \in Bd!Markers : /\ Bd!Marker(k) \in ChunkSet /\ ~Bd!IsData(Bd!Marker(k))
                           /\ Bd!Marker(k).kind = k
BY DEF ChunkSet, Bd!Data, Bd!Marker, Bd!IsData, Bd!Markers, Bd!Failures

(* The pump is bound, polled and let go, and reads the next frame.         *)
LEMMA PumpingKept ==
  ASSUME BodyInv,
         \/ Bd!BindQueue \/ Bd!FirstPoll \/ Bd!Demanded \/ Bd!Top \/ Bd!Room
         \/ Bd!DataFrame \/ Bd!LastFrame \/ Bd!Lingered
  PROVE  BodyInv'
<1>0. PumpTyped /\ BodyPlace /\ total \in Nat
  BY BodyBounds DEF BodyInv, BodyTypes, PumpTyped
<1>1. CASE Bd!BindQueue \/ Bd!FirstPoll
  <2>1. PumpAlone
    BY <1>0, <1>1 DEF PumpAlone, BodyPlace, Bd!BindQueue, Bd!FirstPoll, Bd!sharedVars,
       Bd!readerVars, Bd!fixedVars
  <2>2. PumpTyped'
    BY <1>0, <1>1 DEF PumpTyped, PumpSet, Bd!Awaiting, Bd!BindQueue, Bd!FirstPoll,
       Bd!fixedVars
  <2> QED BY <2>1, <2>2, PumpAloneKept
<1>2. CASE Bd!Demanded
  <2>1. PumpAlone
    BY <1>0, <1>2 DEF PumpAlone, BodyPlace, Bd!Demanded, Bd!Pump, Bd!sharedVars,
       Bd!readerVars, Bd!fixedVars
  <2>2. reading' \in BOOLEAN /\ permit' \in BOOLEAN
    BY <1>2 DEF Bd!Demanded
  <2>3. PumpTyped'
    BY <1>0, <1>2, <2>2 DEF PumpTyped, PumpSet, Bd!Awaiting, Bd!Demanded, Bd!Pump, Bd!fixedVars
  <2> QED BY <2>1, <2>3, PumpAloneKept
<1>3. CASE Bd!Top
  <2>1. PumpAlone
    <3>1. pump' = "frame" => whole \/ buffered <= HighWater
      <4>1. buffered \in Nat /\ HighWater \in Nat
        BY BodyBounds DEF BodyInv, BodyTypes
      <4>2. pump' = "frame" => ~(Bd!OverHighWater /\ ~whole /\ ~discard) /\ ~discard
        BY <1>3 DEF Bd!Top, Bd!Pump
      <4> QED BY <4>1, <4>2 DEF Bd!OverHighWater
    <3> QED BY <1>0, <1>3, <3>1 DEF PumpAlone, BodyPlace, Bd!Top, Bd!Pump, Bd!sharedVars,
            Bd!readerVars, Bd!fixedVars
  <2>2. reading' \in BOOLEAN
    BY <1>3 DEF Bd!Top
  <2>3. PumpTyped'
    BY <1>0, <1>3, <2>2 DEF PumpTyped, PumpSet, Bd!Awaiting, Bd!Top, Bd!Pump, Bd!fixedVars
  <2> QED BY <2>1, <2>3, PumpAloneKept
<1>4. CASE Bd!Room
  <2>1. PumpAlone
    BY <1>0, <1>4 DEF PumpAlone, BodyPlace, Bd!Room, Bd!Pump, Bd!sharedVars,
       Bd!readerVars, Bd!fixedVars
  <2>2. PumpTyped'
    BY <1>0, <1>4 DEF PumpTyped, PumpSet, Bd!Room, Bd!Pump, Bd!fixedVars
  <2> QED BY <2>1, <2>2, PumpAloneKept
<1>5. CASE Bd!DataFrame
  <2>1. /\ pump = "frame" /\ total' = total + 1 /\ total' \in 0 .. MaxFrames
        /\ UNCHANGED <<chunks, buffered, waiters, finished, scheduled, whole, task, result,
                       given, permit, discard, complete, bound, wait>>
    BY <1>0, <1>5, BodyBounds DEF Bd!DataFrame, Bd!Pump, Bd!Pushes, Bd!sharedVars,
       Bd!readerVars, Bd!fixedVars
  <2>2. CASE total' > MaxBody
    <3>1. pump' = "linger_large" /\ UNCHANGED <<pushing, reading>>
      BY <1>5, <2>2 DEF Bd!DataFrame, Bd!Pump
    <3>2. PumpAlone
      BY <1>0, <2>1, <3>1 DEF PumpAlone, BodyPlace
    <3>3. PumpTyped'
      BY <1>0, <2>1, <3>1 DEF PumpTyped, PumpSet, Bd!Awaiting
    <3> QED BY <3>2, <3>3, PumpAloneKept
  <2>3. CASE ~(total' > MaxBody)
    <3>1. pump' = "push" /\ pushing' = Bd!Data(total') /\ ~reading'
          /\ reading' \in BOOLEAN
      BY <1>5, <2>3 DEF Bd!DataFrame, Bd!Pump, Bd!Pushes
    <3>2. total' <= MaxBody /\ total' \in Nat
      BY <1>0, <2>1, <2>3, BodyBounds
    <3>3. pushing' \in ChunkSet /\ pushing'.frame = total' /\ pushing'.kind = "data"
      BY <3>1, <3>2, ChunkFacts
    <3>4. PumpAlone
      BY <1>0, <2>1, <3>1, <3>2, <3>3 DEF PumpAlone, BodyPlace
    <3>5. PumpTyped'
      BY <1>0, <2>1, <3>1, <3>3 DEF PumpTyped, PumpSet
    <3> QED BY <3>4, <3>5, PumpAloneKept
  <2> QED BY <2>2, <2>3
<1>6. CASE Bd!LastFrame \/ Bd!Lingered
  <2>1. /\ pump \in {"frame", "linger_large", "linger_discard"} /\ pump' = "push"
        /\ reading' = FALSE
        /\ UNCHANGED <<chunks, buffered, waiters, finished, scheduled, whole, task, result,
                       given, permit, discard, total, bound, wait>>
    BY <1>6 DEF Bd!LastFrame, Bd!Lingered, Bd!Pump, Bd!Pushes, Bd!sharedVars,
       Bd!readerVars, Bd!fixedVars
  <2>2. /\ complete => complete'
        /\ \E k \in Bd!Markers : pushing' = Bd!Marker(k) /\ (k = "end" => complete')
    BY <1>6 DEF Bd!LastFrame, Bd!Lingered, Bd!Pushes, Bd!Markers, Bd!Failures
  <2>3. /\ pushing' \in ChunkSet /\ ~Bd!IsData(pushing')
        /\ pushing'.kind = "end" => complete'
    BY <2>2, ChunkFacts
  <2>4. PumpAlone
    BY <1>0, <2>1, <2>2, <2>3 DEF PumpAlone, BodyPlace
  <2>5. PumpTyped'
    BY <1>0, <2>1, <2>3 DEF PumpTyped, PumpSet
  <2> QED BY <2>4, <2>5, PumpAloneKept
<1> QED BY <1>1, <1>2, <1>3, <1>4, <1>5, <1>6

(* The handler answers or has stalled, its time to linger passes, or the   *)
(* client is gone: the pump is dropped, and says so if it had not ended.   *)
LEMMA DroppedKept ==
  ASSUME BodyInv, Bd!Replied \/ Bd!Over
  PROVE  BodyInv'
<1>0. PumpTyped /\ BodyPlace
  BY DEF BodyInv, BodyTypes, PumpTyped
<1>1. /\ pump \in Bd!Awaiting \cup {"unpolled", "stopped"}
      /\ UNCHANGED <<chunks, buffered, waiters, finished, scheduled, whole, task, result,
                     given, total, complete, bound, reading>>
  BY DEF Bd!Replied, Bd!Over, Bd!sharedVars, Bd!readerVars, Bd!fixedVars
<1>2. CASE Bd!DropPump /\ UNCHANGED <<discard, permit>>
  <2>1. /\ pump' \in {"gone", "stopped", "push"} /\ wait' = "over"
        /\ finished => pump' = "stopped"
    BY <1>0, <1>2 DEF Bd!DropPump, BodyPlace
  <2>2. \/ pushing' = pushing /\ pump' # "push"
        \/ pushing' = Bd!Marker("incomplete")
    BY <1>2 DEF Bd!DropPump
  <2>3. /\ pushing' \in ChunkSet
        /\ pump' = "push" => ~Bd!IsData(pushing') /\ pushing'.kind # "end"
    BY <1>0, <2>2, ChunkFacts DEF PumpTyped, Bd!Markers, Bd!Failures
  <2>4. PumpAlone
    BY <1>0, <1>1, <2>1, <2>3 DEF PumpAlone, BodyPlace, Bd!Awaiting
  <2>5. PumpTyped'
    BY <1>0, <1>1, <1>2, <2>1, <2>3 DEF PumpTyped, PumpSet
  <2> QED BY <2>4, <2>5, PumpAloneKept
<1>3. CASE ~finished /\ wait' = "linger" /\ discard' = TRUE /\ permit' = TRUE
           /\ UNCHANGED <<pump, pushing>>
  <2>1. PumpAlone
    <3>1. pump = "frame" => whole \/ buffered <= HighWater
      BY DEF BodyInv, BodyCounts
    <3> QED BY <1>0, <1>1, <1>3, <3>1 DEF PumpAlone, BodyPlace, Bd!Awaiting
  <2>2. PumpTyped'
    BY <1>0, <1>1, <1>3 DEF PumpTyped
  <2> QED BY <2>1, <2>2, PumpAloneKept
<1> QED BY <1>2, <1>3 DEF Bd!Replied, Bd!Over

(* A push: the count or the flag, then the chunk.                          *)
LEMMA PushKept ==
  ASSUME BodyInv, Bd!Push
  PROVE  BodyInv'
<1>0. /\ Len(given) \in Nat /\ Len(chunks) \in Nat /\ buffered \in Nat
      /\ pushing \in ChunkSet /\ chunks \in Seq(ChunkSet) /\ finished \in BOOLEAN
      /\ UNCHANGED <<waiters, scheduled, permit, whole, discard, pushing, total, complete,
                     reading, bound, wait, task, result, given>>
      /\ Taking' = Taking /\ DOMAIN chunks = 1 .. Len(chunks)
  BY DEF BodyInv, BodyTypes, Bd!Push, Bd!fixedVars, Bd!readerVars, Taking
<1>1. CASE pump = "push"
  <2>1. /\ pump' = "append" /\ chunks' = chunks /\ ~finished
        /\ Bd!IsData(pushing) => buffered' = buffered + 1 /\ finished' = finished
        /\ ~Bd!IsData(pushing) => finished' = TRUE /\ buffered' = buffered
    BY <1>1 DEF Bd!Push, Bd!Pump, BodyInv, BodyPlace
  <2>2. /\ ~Marked /\ ~Marked' /\ Held' = Held /\ Partial = 0 /\ Held = Len(chunks)
        /\ Partial' = IF Bd!IsData(pushing) THEN 1 ELSE 0
    BY <1>0, <1>1, <2>1 DEF Marked, Held, Partial
  <2>3. finished' \in BOOLEAN /\ buffered' \in Nat
    <3>1. CASE Bd!IsData(pushing)
      BY <1>0, <2>1, <3>1
    <3>2. CASE ~Bd!IsData(pushing)
      BY <1>0, <2>1, <3>2
    <3> QED BY <3>1, <3>2
  <2>4. BodyTypes'
    BY <1>0, <2>1, <2>3 DEF BodyInv, BodyTypes, PumpSet
  <2>5. BodyPlace'
    BY <1>0, <1>1, <2>1, <2>2 DEF BodyInv, BodyPlace
  <2>6. BodyFrames'
    <3>1. Bd!InOrder'
      BY <1>0, <2>1 DEF BodyInv, BodyFrames, Bd!InOrder
    <3> QED BY <1>0, <1>1, <2>1, <2>2, <3>1 DEF BodyInv, BodyFrames
  <2>7. BodyCounts'
    <3>1. buffered = Held + Partial + Taking /\ Taking \in {0, 1}
      BY DEF BodyInv, BodyCounts, Taking
    <3>2. buffered' = Held' + Partial' + Taking'
      BY <1>0, <2>1, <2>2, <3>1
    <3>3. whole' \/ buffered' <= HighWater + 1
      BY <1>0, <1>1, <2>1, BodyBounds DEF BodyInv, BodyCounts
    <3> QED BY <1>0, <2>1, <3>2, <3>3 DEF BodyInv, BodyCounts
  <2>8. BodyWaits'
    BY <1>0, <1>1, <2>1, <2>2 DEF BodyInv, BodyWaits
  <2>9. BodyEnds'
    BY <1>0, <1>1, <2>1 DEF BodyInv, BodyEnds
  <2> QED BY <2>4, <2>5, <2>6, <2>7, <2>8, <2>9 DEF BodyInv
<1>2. CASE pump = "append"
  <2>1. /\ pump' = "wake" /\ chunks' = Append(chunks, pushing)
        /\ UNCHANGED <<buffered, finished>>
    BY <1>2 DEF Bd!Push, Bd!Pump
  <2>2. /\ chunks' \in Seq(ChunkSet) /\ Len(chunks') = Len(chunks) + 1
        /\ DOMAIN chunks' = 1 .. Len(chunks) + 1 /\ chunks' # <<>>
        /\ \A i \in DOMAIN chunks : chunks'[i] = chunks[i]
        /\ chunks'[Len(chunks) + 1] = pushing
    BY <1>0, <2>1
  <2>3. /\ finished <=> ~Bd!IsData(pushing)
        /\ ~Marked /\ (Marked' <=> finished) /\ Held = Len(chunks)
        /\ \A i \in DOMAIN chunks : Bd!IsData(chunks[i])
    BY <1>2, <2>1 DEF BodyInv, BodyPlace, Marked, Held
  <2>4. /\ Held' = Held + Partial /\ Partial' = 0 /\ Partial \in {0, 1}
    BY <1>0, <1>2, <2>1, <2>2, <2>3 DEF Held, Partial
  <2>5. BodyTypes'
    BY <1>0, <2>1, <2>2 DEF BodyInv, BodyTypes, PumpSet
  <2>6. BodyPlace'
    <3>1. ASSUME NEW i \in DOMAIN chunks', ~Bd!IsData(chunks'[i])
          PROVE  Marked' /\ i = Len(chunks')
      BY <1>0, <2>2, <2>3, <3>1
    <3>2. Marked' => ~Bd!IsData(chunks'[Len(chunks')])
      BY <2>2, <2>3
    <3> QED BY <1>0, <1>2, <2>1, <2>2, <3>1, <3>2 DEF BodyInv, BodyPlace
  <2>7. BodyFrames'
    <3>1. Bd!IsData(pushing) => /\ pushing.frame = Len(given) + Len(chunks) + 1
                                /\ total = Len(given) + Len(chunks) + 1 /\ total <= MaxBody
      BY <1>2 DEF BodyInv, BodyFrames
    <3>2. Bd!InOrder'
      <4>1. ASSUME NEW i \in DOMAIN chunks', Bd!IsData(chunks'[i])
            PROVE  chunks'[i].frame = Len(given) + i
        <5>1. CASE i \in DOMAIN chunks
          BY <2>2, <2>3, <5>1 DEF BodyInv, BodyFrames, Bd!InOrder
        <5>2. CASE i = Len(chunks) + 1
          BY <1>0, <2>2, <3>1, <4>1, <5>2
        <5> QED BY <1>0, <2>2, <5>1, <5>2
      <4> QED BY <1>0, <4>1 DEF BodyInv, BodyFrames, Bd!InOrder
    <3>3. Len(given') + Held' <= MaxBody
      <4>1. CASE Bd!IsData(pushing)
        <5>1. Partial = 1
          BY <1>2, <4>1 DEF Partial
        <5> QED BY <1>0, <2>3, <2>4, <3>1, <4>1, <5>1
      <4>2. CASE ~Bd!IsData(pushing)
        <5>1. Partial = 0
          BY <4>2 DEF Partial
        <5>2. Len(given) + Held <= MaxBody
          BY DEF BodyInv, BodyFrames
        <5> QED BY <1>0, <2>3, <2>4, <5>1, <5>2
      <4> QED BY <4>1, <4>2
    <3>4. ~finished => total = Len(given) + Len(chunks')
      BY <1>0, <2>2, <2>3, <3>1
    <3> QED BY <1>0, <2>1, <3>2, <3>3, <3>4 DEF BodyFrames
  <2>8. BodyCounts'
    <3>1. Taking \in {0, 1} /\ Held \in Nat
      BY <1>0, <2>3 DEF Taking
    <3> QED BY <1>0, <2>1, <2>4, <3>1 DEF BodyInv, BodyCounts
  <2>9. BodyWaits'
    BY <1>0, <2>1 DEF BodyInv, BodyWaits
  <2>10. BodyEnds'
    <3>1. ASSUME NEW i \in DOMAIN chunks', chunks'[i].kind = "end" PROVE complete'
      BY <1>0, <1>2, <2>2, <3>1 DEF BodyInv, BodyEnds
    <3> QED BY <1>0, <2>1, <3>1 DEF BodyInv, BodyEnds
  <2> QED BY <2>5, <2>6, <2>7, <2>8, <2>9, <2>10 DEF BodyInv
<1> QED BY <1>1, <1>2 DEF Bd!Push, Bd!Pump

(* Every callback there is goes to the worker's queue, once it is known.   *)
LEMMA WakeFacts ==
  ASSUME BodyInv, Bd!Wake, bound
  PROVE  waiters' = {} /\ scheduled' = scheduled \cup waiters
BY DEF Bd!Wake

(* The callbacks are called, unless a whole body is still to come.         *)
LEMMA WakeReadersKept ==
  ASSUME BodyInv, Bd!WakeReaders
  PROVE  BodyInv'
<1>1. /\ pump = "wake" /\ pump' = IF finished THEN "stopped" ELSE "top"
      /\ UNCHANGED <<chunks, buffered, finished, permit, whole, discard, pushing, total,
                     complete, reading, bound, wait, task, result, given>>
      /\ bound /\ Len(chunks) \in Nat /\ Len(given) \in Nat
  BY DEF Bd!WakeReaders, Bd!Pump, Bd!fixedVars, Bd!readerVars, BodyInv, BodyPlace, BodyTypes
<1>2. \/ whole /\ ~finished /\ UNCHANGED <<waiters, scheduled>>
      \/ waiters' = {} /\ scheduled' = scheduled \cup waiters
  BY <1>1, WakeFacts DEF Bd!WakeReaders
<1>3. /\ (Marked' <=> Marked) /\ Held' = Held /\ Partial' = 0 /\ Partial = 0
      /\ Taking' = Taking
  BY <1>1 DEF Marked, Held, Partial, Taking
<1>4. BodyTypes'
  BY <1>1, <1>2 DEF BodyInv, BodyTypes, PumpSet
<1>5. BodyPlace'
  BY <1>1, <1>3 DEF BodyInv, BodyPlace
<1>6. BodyFrames'
  <2>1. Bd!InOrder'
    BY <1>1 DEF BodyInv, BodyFrames, Bd!InOrder
  <2> QED BY <1>1, <1>3, <2>1 DEF BodyInv, BodyFrames
<1>7. BodyCounts'
  BY <1>1, <1>3 DEF BodyInv, BodyCounts
<1>8. BodyWaits'
  <2>1. ASSUME NEW r \in Bd!Readers, task[r] \in {"look", "check", "waiting"}
        PROVE  /\ r \in waiters' \cup scheduled'
               /\ r \notin scheduled' => whole /\ ~finished
    BY <1>2, <2>1 DEF BodyInv, BodyWaits
  <2>2. ~finished => ~Marked'
    BY <1>1 DEF Marked
  <2> QED BY <1>1, <2>1, <2>2 DEF BodyInv, BodyWaits
<1>9. BodyEnds'
  BY <1>1 DEF BodyInv, BodyEnds
<1> QED BY <1>4, <1>5, <1>6, <1>7, <1>8, <1>9 DEF BodyInv

(* A reading task goes on: it was the only one that ran.                   *)
LEMMA Stepped ==
  ASSUME BodyInv, NEW r \in Bd!Readers, NEW from, NEW to \in TaskSet, Bd!Step(r, from, to)
  PROVE  /\ task' \in [Bd!Readers -> TaskSet] /\ task[r] = from /\ task'[r] = to
         /\ \A q \in Bd!Readers \ {r} : task'[q] = task[q] /\ task[q] \in Bd!Resting
         /\ \A q, p \in Bd!Readers :
               task'[q] \notin Bd!Resting /\ task'[p] \notin Bd!Resting => q = p
         /\ Taking = (IF from = "sub" THEN 1 ELSE 0)
         /\ Taking' = (IF to = "sub" THEN 1 ELSE 0)
<1>1. /\ task \in [Bd!Readers -> TaskSet] /\ task[r] = from
      /\ task' = [task EXCEPT ![r] = to]
      /\ \A q \in Bd!Readers \ {r} : task[q] \in Bd!Resting
  BY DEF BodyInv, BodyTypes, Bd!Step
<1>2. /\ task' \in [Bd!Readers -> TaskSet] /\ task'[r] = to
      /\ \A q \in Bd!Readers \ {r} : task'[q] = task[q]
  BY <1>1
<1>3. \A q \in Bd!Readers \ {r} : task[q] # "sub" /\ task'[q] # "sub"
  BY <1>1, <1>2 DEF Bd!Resting
<1>4. /\ Taking = (IF from = "sub" THEN 1 ELSE 0)
      /\ Taking' = (IF to = "sub" THEN 1 ELSE 0)
  BY <1>1, <1>2, <1>3 DEF Taking
<1> QED BY <1>1, <1>2, <1>4

(* A step of a reader that takes nothing: where it goes on to, its         *)
(* callback and what is wanted of the body are such as waiting needs.      *)
ReaderAlone(r, to) ==
    /\ to \in TaskSet /\ to # "sub" /\ task[r] # "sub" /\ Bd!Step(r, task[r], to)
    /\ UNCHANGED <<chunks, buffered, finished, discard, pump, pushing, total, complete,
                   reading, bound, wait, given>>
    /\ permit' \in BOOLEAN /\ whole' \in BOOLEAN /\ (whole => whole')
    /\ result' \in [Bd!Readers -> {"none"} \cup Bd!Markers]
    /\ \A q \in Iterators : result'[q] = "end" => complete
    /\ waiters' \subseteq Bd!Readers /\ scheduled' \subseteq Bd!Readers
    /\ \A q \in Bd!Readers \ {r} :
          /\ q \in waiters \cup scheduled => q \in waiters' \cup scheduled'
          /\ q \in scheduled => q \in scheduled'
    /\ to \in {"install", "check"} => whole'
    /\ to \in {"look", "check", "waiting"} => r \in waiters' \cup scheduled'
    /\ to = "waiting" /\ r \notin scheduled' /\ chunks # <<>> /\ (~whole' \/ Marked)
          => pump = "wake"

(* Such a step keeps the invariant.                                        *)
LEMMA ReaderAloneKept ==
  ASSUME BodyInv, NEW r \in Bd!Readers, NEW to, ReaderAlone(r, to)
  PROVE  BodyInv'
<1>1. /\ task' \in [Bd!Readers -> TaskSet] /\ task'[r] = to
      /\ \A q \in Bd!Readers \ {r} : task'[q] = task[q] /\ task[q] \in Bd!Resting
      /\ \A q, p \in Bd!Readers :
            task'[q] \notin Bd!Resting /\ task'[p] \notin Bd!Resting => q = p
      /\ Taking = 0 /\ Taking' = 0
  BY Stepped DEF ReaderAlone
<1>2. (Marked' <=> Marked) /\ Held' = Held /\ Partial' = Partial
  BY DEF ReaderAlone, Marked, Held, Partial
<1>3. BodyTypes'
  BY <1>1 DEF BodyInv, BodyTypes, ReaderAlone
<1>4. BodyPlace'
  BY <1>2 DEF BodyInv, BodyPlace, ReaderAlone
<1>5. BodyFrames'
  <2>1. Bd!InOrder'
    BY DEF BodyInv, BodyFrames, Bd!InOrder, ReaderAlone
  <2> QED BY <1>2, <2>1 DEF BodyInv, BodyFrames, ReaderAlone
<1>6. BodyCounts'
  BY <1>1, <1>2 DEF BodyInv, BodyCounts, ReaderAlone
<1>7. BodyWaits'
  <2>1. ASSUME NEW q \in Bd!Readers
        PROVE  /\ task'[q] \in {"install", "check"} => whole'
               /\ task'[q] \in {"look", "check", "waiting"} => q \in waiters' \cup scheduled'
               /\ task'[q] = "waiting" /\ q \notin scheduled' /\ chunks' # <<>>
                     /\ (~whole' \/ Marked') => pump' = "wake"
    <3>1. CASE q = r
      BY <1>1, <1>2, <3>1 DEF ReaderAlone
    <3>2. CASE q # r
      BY <1>1, <1>2, <3>2 DEF ReaderAlone, BodyInv, BodyWaits, Bd!Resting
    <3> QED BY <3>1, <3>2
  <2> QED BY <1>1, <2>1 DEF BodyWaits
<1>8. BodyEnds'
  BY DEF BodyInv, BodyEnds, ReaderAlone
<1> QED BY <1>3, <1>4, <1>5, <1>6, <1>7, <1>8 DEF BodyInv

(* What such a step leaves alone of a body.                                *)
BodyStill ==
    UNCHANGED <<chunks, buffered, finished, discard, pump, pushing, total, complete,
                reading, bound, wait, given>>

(* The poll of an iterator that found nothing, up to its wait.             *)
LEMMA AskingKept ==
  ASSUME BodyInv, NEW r \in Bd!Readers,
         Bd!PollAsk(r) \/ Bd!Notify(r) \/ Bd!NotifyLook(r)
  PROVE  BodyInv'
<1>0. /\ BodyStill /\ UNCHANGED <<whole, result>> /\ whole \in BOOLEAN /\ permit \in BOOLEAN
      /\ result \in [Bd!Readers -> {"none"} \cup Bd!Markers]
      /\ \A q \in Iterators : result[q] = "end" => complete
      /\ waiters \subseteq Bd!Readers /\ scheduled \subseteq Bd!Readers
  BY DEF BodyInv, BodyTypes, BodyEnds, BodyStill, Bd!PollAsk, Bd!Notify, Bd!NotifyLook,
     Bd!sharedVars, Bd!pumpVars, Bd!fixedVars
<1>1. CASE Bd!PollAsk(r)
  <2>1. /\ Bd!Step(r, "ask", "notify") /\ task[r] = "ask" /\ permit' \in BOOLEAN
        /\ UNCHANGED <<waiters, scheduled>>
    BY <1>1 DEF Bd!PollAsk, Bd!Step, Bd!sharedVars
  <2>2. ReaderAlone(r, "notify")
    BY <1>0, <2>1 DEF ReaderAlone, BodyStill, TaskSet
  <2> QED BY <2>2, ReaderAloneKept
<1>2. CASE Bd!Notify(r)
  <2>1. /\ Bd!Step(r, "notify", "look") /\ task[r] = "notify" /\ permit' = permit
        /\ waiters' = waiters \cup {r} /\ scheduled' = scheduled
    BY <1>2 DEF Bd!Notify, Bd!Step
  <2>2. ReaderAlone(r, "look")
    BY <1>0, <2>1 DEF ReaderAlone, BodyStill, TaskSet
  <2> QED BY <2>2, ReaderAloneKept
<1>3. CASE Bd!NotifyLook(r)
  <2>1. Bd!Step(r, "look", "waiting") /\ task[r] = "look" /\ permit' = permit
    BY <1>3 DEF Bd!NotifyLook, Bd!Step
  <2>2. \/ chunks = <<>> /\ UNCHANGED <<waiters, scheduled>>
        \/ waiters' = {} /\ scheduled' = scheduled \cup waiters
    <3>1. chunks # <<>> => bound
      BY DEF BodyInv, BodyPlace
    <3> QED BY <1>3, <3>1, WakeFacts DEF Bd!NotifyLook
  <2>3. r \in waiters \cup scheduled
    BY <2>1 DEF BodyInv, BodyWaits
  <2>4. ReaderAlone(r, "waiting")
    BY <1>0, <2>1, <2>2, <2>3 DEF ReaderAlone, BodyStill, TaskSet, Bd!Resting
  <2> QED BY <2>4, ReaderAloneKept
<1> QED BY <1>1, <1>2, <1>3

(* A read of the whole body that found it kept, or not there yet, and its  *)
(* wait.                                                                   *)
LEMMA CollectingKept ==
  ASSUME BodyInv, NEW r \in Bd!Readers,
         \/ Bd!ReadFilled(r) \/ Bd!TakeNothing(r) \/ Bd!CollectWhole(r)
         \/ Bd!CollectInstall(r) \/ Bd!CollectLook(r)
  PROVE  BodyInv'
<1>0. /\ BodyStill /\ whole \in BOOLEAN /\ permit \in BOOLEAN
      /\ result \in [Bd!Readers -> {"none"} \cup Bd!Markers]
      /\ \A q \in Iterators : result[q] = "end" => complete
      /\ waiters \subseteq Bd!Readers /\ scheduled \subseteq Bd!Readers
  BY DEF BodyInv, BodyTypes, BodyEnds, BodyStill, Bd!ReadFilled, Bd!TakeNothing,
     Bd!CollectWhole, Bd!CollectInstall, Bd!CollectLook, Bd!sharedVars, Bd!pumpVars,
     Bd!fixedVars
<1>1. CASE Bd!ReadFilled(r)
  <2>1. /\ Bd!Step(r, "idle", "over") /\ task[r] = "idle" /\ r \in Collectors
        /\ result' = [result EXCEPT ![r] = "end"]
        /\ UNCHANGED <<waiters, scheduled, whole, permit>>
    BY <1>1 DEF Bd!ReadFilled, Bd!Step, Bd!Answers, Bd!sharedVars
  <2>2. /\ result' \in [Bd!Readers -> {"none"} \cup Bd!Markers]
        /\ \A q \in Iterators : result'[q] = result[q]
    BY <1>0, <2>1, BodyBounds DEF Bd!Markers, Bd!Readers
  <2>3. ReaderAlone(r, "over")
    BY <1>0, <2>1, <2>2 DEF ReaderAlone, BodyStill, TaskSet, Bd!Resting
  <2> QED BY <2>3, ReaderAloneKept
<1>2. CASE Bd!TakeNothing(r)
  <2>1. /\ Bd!Step(r, "idle", "collect") /\ task[r] = "idle"
        /\ UNCHANGED <<waiters, scheduled, whole, permit, result>>
    BY <1>2 DEF Bd!TakeNothing, Bd!Step, Bd!sharedVars
  <2>2. ReaderAlone(r, "collect")
    BY <1>0, <2>1 DEF ReaderAlone, BodyStill, TaskSet
  <2> QED BY <2>2, ReaderAloneKept
<1>3. CASE Bd!CollectWhole(r)
  <2>1. /\ Bd!Step(r, "collect", "install") /\ task[r] = "collect" /\ whole' = TRUE
        /\ UNCHANGED <<waiters, scheduled, permit, result>>
    BY <1>3 DEF Bd!CollectWhole, Bd!Step, Bd!sharedVars
  <2>2. ReaderAlone(r, "install")
    BY <1>0, <2>1 DEF ReaderAlone, BodyStill, TaskSet
  <2> QED BY <2>2, ReaderAloneKept
<1>4. CASE Bd!CollectInstall(r)
  <2>1. /\ Bd!Step(r, "install", "check") /\ task[r] = "install" /\ permit' = TRUE
        /\ waiters' = waiters \cup {r} /\ UNCHANGED <<scheduled, whole, result>>
    BY <1>4 DEF Bd!CollectInstall, Bd!Step
  <2>2. whole
    BY <2>1 DEF BodyInv, BodyWaits
  <2>3. ReaderAlone(r, "check")
    BY <1>0, <2>1, <2>2 DEF ReaderAlone, BodyStill, TaskSet
  <2> QED BY <2>3, ReaderAloneKept
<1>5. CASE Bd!CollectLook(r)
  <2>1. /\ Bd!Step(r, "check", "waiting") /\ task[r] = "check"
        /\ UNCHANGED <<permit, whole, result>>
    BY <1>5 DEF Bd!CollectLook, Bd!Step
  <2>2. \/ ~finished /\ UNCHANGED <<waiters, scheduled>>
        \/ waiters' = {} /\ scheduled' = scheduled \cup waiters
    <3>1. finished => bound
      BY DEF BodyInv, BodyPlace
    <3> QED BY <1>5, <3>1, WakeFacts DEF Bd!CollectLook
  <2>3. whole /\ r \in waiters \cup scheduled
    BY <2>1 DEF BodyInv, BodyWaits
  <2>4. ReaderAlone(r, "waiting")
    BY <1>0, <2>1, <2>2, <2>3 DEF ReaderAlone, BodyStill, TaskSet, Bd!Resting, Marked
  <2> QED BY <2>4, ReaderAloneKept
<1> QED BY <1>1, <1>2, <1>3, <1>4, <1>5

(* A wait ends: called back, or given up.                                  *)
LEMMA WaitEndKept ==
  ASSUME BodyInv, NEW r \in Bd!Readers, Bd!Resumes(r) \/ Bd!GivesUp(r)
  PROVE  BodyInv'
<1>1. /\ BodyStill /\ UNCHANGED <<whole, result, permit>>
      /\ whole \in BOOLEAN /\ permit \in BOOLEAN
      /\ result \in [Bd!Readers -> {"none"} \cup Bd!Markers]
      /\ \A q \in Iterators : result[q] = "end" => complete
      /\ waiters \subseteq Bd!Readers /\ scheduled \subseteq Bd!Readers
  BY DEF BodyInv, BodyTypes, BodyEnds, BodyStill, Bd!Resumes, Bd!GivesUp, Bd!pumpVars,
     Bd!fixedVars
<1>2. /\ Bd!Step(r, "waiting", "idle") /\ task[r] = "waiting"
      /\ scheduled' = scheduled \ {r} /\ waiters' \in {waiters, waiters \ {r}}
  BY DEF Bd!Resumes, Bd!GivesUp, Bd!Step
<1>3. ReaderAlone(r, "idle")
  BY <1>1, <1>2 DEF ReaderAlone, BodyStill, TaskSet, Bd!Resting
<1> QED BY <1>3, ReaderAloneKept

(* Waiting is not disturbed by a reader that takes and does not wait.      *)
LEMMA TakingWaits ==
  ASSUME BodyInv, NEW r \in Bd!Readers, NEW to \in {"sub", "idle", "over"},
         Bd!Step(r, task[r], to),
         UNCHANGED <<whole, waiters, scheduled, pump, finished>>,
         chunks' # <<>> => chunks # <<>>
  PROVE  BodyWaits'
<1>1. /\ task'[r] = to
      /\ \A q \in Bd!Readers \ {r} : task'[q] = task[q] /\ task[q] \in Bd!Resting
      /\ \A q, p \in Bd!Readers :
            task'[q] \notin Bd!Resting /\ task'[p] \notin Bd!Resting => q = p
  <2>1. to \in TaskSet
    BY DEF TaskSet, Bd!Resting
  <2> QED BY <2>1, Stepped
<1>2. Marked' <=> Marked
  BY DEF Marked
<1>3. ASSUME NEW q \in Bd!Readers
      PROVE  /\ task'[q] \in {"install", "check"} => whole'
             /\ task'[q] \in {"look", "check", "waiting"} => q \in waiters' \cup scheduled'
             /\ task'[q] = "waiting" /\ q \notin scheduled' /\ chunks' # <<>>
                   /\ (~whole' \/ Marked') => pump' = "wake"
  <2>1. CASE q = r
    BY <1>1, <2>1
  <2>2. CASE q # r
    BY <1>1, <1>2, <2>2 DEF BodyInv, BodyWaits
  <2> QED BY <2>1, <2>2
<1> QED BY <1>1, <1>3 DEF BodyWaits

(* An iterator polls: nothing, the marker, or the next chunk.              *)
LEMMA PollKept ==
  ASSUME BodyInv, NEW r \in Bd!Readers, Bd!Poll(r)
  PROVE  BodyInv'
<1>0. /\ Len(given) \in Nat /\ Len(chunks) \in Nat /\ buffered \in Nat
      /\ chunks \in Seq(ChunkSet) /\ given \in Seq(Nat)
      /\ DOMAIN chunks = 1 .. Len(chunks) /\ DOMAIN given = 1 .. Len(given)
      /\ result \in [Bd!Readers -> {"none"} \cup Bd!Markers]
      /\ r \in Iterators /\ task[r] = "idle"
      /\ UNCHANGED <<buffered, waiters, finished, scheduled, permit, whole, discard, pump,
                     pushing, total, complete, reading, bound, wait>>
  BY DEF BodyInv, BodyTypes, Bd!Poll, Bd!Step, Bd!pumpVars, Bd!fixedVars
<1>1. CASE chunks = <<>>
  <2>1. Bd!Step(r, "idle", "ask") /\ UNCHANGED <<chunks, given, result>>
    BY <1>1 DEF Bd!Poll
  <2>2. ReaderAlone(r, "ask")
    BY <1>0, <2>1 DEF ReaderAlone, TaskSet, BodyInv, BodyTypes, BodyEnds
  <2> QED BY <2>2, ReaderAloneKept
<1>2. CASE chunks # <<>> /\ ~Bd!IsData(chunks[1])
  <2>1. /\ Bd!Step(r, "idle", "over") /\ UNCHANGED <<chunks, given>>
        /\ result' = [result EXCEPT ![r] = chunks[1].kind]
    BY <1>0, <1>2 DEF Bd!Poll, Bd!Answers
  <2>2. chunks[1].kind \in Bd!Markers /\ 1 \in DOMAIN chunks
    <3>1. 1 \in DOMAIN chunks
      BY <1>0, <1>2
    <3>2. chunks[1] \in ChunkSet
      BY <1>0, <3>1
    <3> QED BY <1>2, <3>1, <3>2 DEF ChunkSet, Bd!IsData
  <2>3. /\ result' \in [Bd!Readers -> {"none"} \cup Bd!Markers]
        /\ \A q \in Iterators : result'[q] = "end" => complete
    BY <1>0, <2>1, <2>2 DEF BodyInv, BodyEnds, Bd!Readers
  <2>4. ReaderAlone(r, "over")
    BY <1>0, <2>1, <2>3 DEF ReaderAlone, TaskSet, Bd!Resting, BodyInv, BodyTypes
  <2> QED BY <2>4, ReaderAloneKept
<1>3. CASE chunks # <<>> /\ Bd!IsData(chunks[1])
  <2>1. /\ Bd!Step(r, "idle", "sub") /\ chunks' = Tail(chunks)
        /\ given' = Append(given, chunks[1].frame) /\ result' = result
    BY <1>0, <1>3 DEF Bd!Poll
  <2>2. 1 \in DOMAIN chunks /\ chunks[1].frame \in Nat
    <3>1. 1 \in DOMAIN chunks
      BY <1>0, <1>3
    <3>2. chunks[1] \in ChunkSet
      BY <1>0, <3>1
    <3> QED BY <3>1, <3>2 DEF ChunkSet
  <2>3. /\ chunks' \in Seq(ChunkSet) /\ Len(chunks') = Len(chunks) - 1
        /\ DOMAIN chunks' = 1 .. Len(chunks) - 1 /\ Len(chunks') \in Nat
        /\ \A i \in DOMAIN chunks' : chunks'[i] = chunks[i + 1] /\ i + 1 \in DOMAIN chunks
    BY <1>0, <1>3, <2>1
  <2>4. /\ given' \in Seq(Nat) /\ Len(given') = Len(given) + 1
        /\ DOMAIN given' = 1 .. Len(given) + 1
        /\ \A i \in DOMAIN given : given'[i] = given[i]
        /\ given'[Len(given) + 1] = chunks[1].frame
    BY <1>0, <2>1, <2>2
  <2>5. /\ task' \in [Bd!Readers -> TaskSet] /\ Taking = 0 /\ Taking' = 1
    BY <2>1, Stepped DEF TaskSet
  <2>6. /\ (Marked' <=> Marked) /\ Held' = Held - 1 /\ Partial' = Partial
        /\ Held \in Nat
    BY <1>0, <2>3, MarkedIsEnded DEF BodyInv, Marked, Held, Partial
  <2>7. Marked => Len(chunks) >= 2
    <3>1. Marked => Len(chunks) # 1
      BY <1>3 DEF BodyInv, BodyPlace
    <3> QED BY <1>0, <2>2, <3>1
  <2>8. BodyTypes'
    BY <1>0, <2>1, <2>3, <2>4, <2>5 DEF BodyInv, BodyTypes
  <2>9. BodyPlace'
    <3>1. Marked' => chunks' # <<>> /\ ~Bd!IsData(chunks'[Len(chunks')])
      <4> SUFFICES ASSUME Marked PROVE chunks' # <<>> /\ ~Bd!IsData(chunks'[Len(chunks')])
        BY <2>6
      <4>1. Len(chunks') \in DOMAIN chunks' /\ Len(chunks') + 1 = Len(chunks)
        BY <1>0, <2>3, <2>7
      <4>2. chunks'[Len(chunks')] = chunks[Len(chunks)]
        BY <2>3, <4>1
      <4> QED BY <2>3, <4>1, <4>2 DEF BodyInv, BodyPlace
    <3>2. ASSUME NEW i \in DOMAIN chunks', ~Bd!IsData(chunks'[i])
          PROVE  Marked' /\ i = Len(chunks')
      <4>1. Marked /\ i + 1 = Len(chunks)
        BY <2>3, <3>2 DEF BodyInv, BodyPlace
      <4> QED BY <1>0, <2>3, <2>6, <4>1
    <3>3. pump # "binding"
      BY <1>3 DEF BodyInv, BodyPlace
    <3> QED BY <1>0, <3>1, <3>2, <3>3 DEF BodyInv, BodyPlace
  <2>10. BodyFrames'
    <3>1. ASSUME NEW i \in DOMAIN given' PROVE given'[i] = i
      <4>1. CASE i \in DOMAIN given
        BY <2>4, <4>1 DEF BodyInv, BodyFrames, Bd!InOrder
      <4>2. CASE i = Len(given) + 1
        <5>1. chunks[1].frame = Len(given) + 1
          BY <1>3, <2>2 DEF BodyInv, BodyFrames, Bd!InOrder
        <5> QED BY <2>4, <4>2, <5>1
      <4> QED BY <1>0, <2>4, <4>1, <4>2
    <3>2. ASSUME NEW i \in DOMAIN chunks', Bd!IsData(chunks'[i])
          PROVE  chunks'[i].frame = Len(given') + i
      <4>1. chunks[i + 1].frame = Len(given) + (i + 1)
        BY <2>3, <3>2 DEF BodyInv, BodyFrames, Bd!InOrder
      <4> QED BY <1>0, <2>3, <2>4, <4>1
    <3>3. Bd!InOrder'
      BY <3>1, <3>2 DEF Bd!InOrder
    <3>4. Len(given') + Held' <= MaxBody
      BY <1>0, <2>4, <2>6 DEF BodyInv, BodyFrames
    <3>5. Len(given') + Len(chunks') = Len(given) + Len(chunks)
      BY <1>0, <2>3, <2>4
    <3> QED BY <1>0, <3>3, <3>4, <3>5 DEF BodyInv, BodyFrames
  <2>11. BodyCounts'
    <3>1. Partial \in {0, 1}
      BY DEF Partial
    <3>2. buffered' = Held' + Partial' + Taking'
      BY <1>0, <2>5, <2>6, <3>1 DEF BodyInv, BodyCounts
    <3> QED BY <1>0, <2>4, <3>2 DEF BodyInv, BodyCounts
  <2>12. BodyWaits'
    BY <1>0, <1>3, <2>1, TakingWaits
  <2>13. BodyEnds'
    BY <1>0, <2>1, <2>3 DEF BodyInv, BodyEnds
  <2> QED BY <2>8, <2>9, <2>10, <2>11, <2>12, <2>13 DEF BodyInv
<1> QED BY <1>1, <1>2, <1>3

(* The count follows the chunk that was taken.                             *)
LEMMA PollSubKept ==
  ASSUME BodyInv, NEW r \in Bd!Readers, Bd!PollSub(r)
  PROVE  BodyInv'
<1>1. /\ Bd!Step(r, "sub", "idle") /\ task[r] = "sub" /\ buffered' = buffered - 1
      /\ permit' \in BOOLEAN
      /\ UNCHANGED <<chunks, waiters, finished, scheduled, whole, discard, pump, pushing,
                     total, complete, reading, bound, wait, result, given>>
  BY DEF Bd!PollSub, Bd!Step, Bd!pumpVars, Bd!fixedVars
<1>2. task' \in [Bd!Readers -> TaskSet] /\ Taking = 1 /\ Taking' = 0
  BY <1>1, Stepped DEF TaskSet, Bd!Resting
<1>3. /\ (Marked' <=> Marked) /\ Held' = Held /\ Partial' = Partial
      /\ Held \in Nat /\ Partial \in {0, 1} /\ buffered \in Nat
  BY <1>1, MarkedIsEnded DEF BodyInv, BodyTypes, Marked, Held, Partial
<1>4. buffered = Held + Partial + Taking
  BY DEF BodyInv, BodyCounts
<1>5. buffered' = Held' + Partial' + Taking' /\ buffered' \in Nat /\ buffered' < buffered
  BY <1>1, <1>2, <1>3, <1>4
<1>6. BodyTypes'
  BY <1>1, <1>2, <1>5 DEF BodyInv, BodyTypes
<1>7. BodyPlace'
  BY <1>1, <1>3 DEF BodyInv, BodyPlace
<1>8. BodyFrames'
  <2>1. Bd!InOrder'
    BY <1>1 DEF BodyInv, BodyFrames, Bd!InOrder
  <2> QED BY <1>1, <1>3, <2>1 DEF BodyInv, BodyFrames
<1>9. BodyCounts'
  BY <1>1, <1>2, <1>3, <1>5, BodyBounds DEF BodyInv, BodyCounts
<1>10. BodyWaits'
  BY <1>1, TakingWaits
<1>11. BodyEnds'
  BY <1>1 DEF BodyInv, BodyEnds
<1> QED BY <1>6, <1>7, <1>8, <1>9, <1>10, <1>11 DEF BodyInv

(* How long a part of a sequence is.                                       *)
LEMMA LengthOfPart ==
  ASSUME NEW s, NEW j \in Int, NEW k \in Int, j <= k + 1
  PROVE  Len(SubSeq(s, j, k)) = k - j + 1
OBVIOUS

(* What is left of the chunks once the first n of them are taken.          *)
LEMMA RestOf ==
  ASSUME NEW s \in Seq(ChunkSet), NEW n \in Nat, n <= Len(s)
  PROVE  /\ SubSeq(s, n + 1, Len(s)) \in Seq(ChunkSet)
         /\ Len(SubSeq(s, n + 1, Len(s))) = Len(s) - n
         /\ DOMAIN SubSeq(s, n + 1, Len(s)) = 1 .. Len(s) - n
         /\ \A i \in DOMAIN SubSeq(s, n + 1, Len(s)) :
               SubSeq(s, n + 1, Len(s))[i] = s[n + i] /\ n + i \in DOMAIN s
<1> DEFINE t == SubSeq(s, n + 1, Len(s))
<1>1. Len(s) \in Nat /\ DOMAIN s = 1 .. Len(s)
  OBVIOUS
<1>2. t \in Seq(ChunkSet)
  <2>1. \A i \in (n + 1) .. Len(s) : i \in DOMAIN s
    BY <1>1
  <2> QED BY <1>1, <2>1
<1>3. Len(t) = Len(s) - n
  <2>1. PICK k \in Nat : k = Len(s)
    BY <1>1
  <2>2. Len(SubSeq(s, n + 1, k)) = k - (n + 1) + 1
    BY <2>1, LengthOfPart
  <2> HIDE DEF t
  <2>3. k - (n + 1) + 1 = k - n
    BY <2>1
  <2> QED BY <2>1, <2>2, <2>3 DEF t
<1>4. DOMAIN t = 1 .. Len(s) - n
  <2>1. DOMAIN t = 1 .. Len(t)
    BY <1>2
  <2> QED BY <1>3, <2>1
<1>5. ASSUME NEW i \in DOMAIN t PROVE t[i] = s[n + i] /\ n + i \in DOMAIN s
  <2>1. i \in Nat /\ 1 <= i /\ i <= Len(s) - n
    BY <1>1, <1>4
  <2>2. n + i \in 1 .. Len(s)
    BY <1>1, <2>1
  <2>3. t[i] = s[n + i]
    BY <1>1, <2>1
  <2> QED BY <1>1, <2>2, <2>3
<1> QED BY <1>2, <1>3, <1>4, <1>5

(* What a sequence of frames is with another one behind it.                *)
LEMMA Behind ==
  ASSUME NEW s \in Seq(Nat), NEW t \in Seq(Nat)
  PROVE  /\ s \o t \in Seq(Nat) /\ Len(s \o t) = Len(s) + Len(t)
         /\ DOMAIN (s \o t) = 1 .. Len(s) + Len(t)
         /\ \A i \in DOMAIN s : (s \o t)[i] = s[i]
         /\ \A i \in 1 .. Len(t) : (s \o t)[Len(s) + i] = t[i]
         /\ \A i \in DOMAIN (s \o t) \ DOMAIN s :
               i - Len(s) \in 1 .. Len(t) /\ Len(s) + (i - Len(s)) = i
<1> DEFINE u == s \o t
<1>1. Len(s) \in Nat /\ Len(t) \in Nat /\ DOMAIN s = 1 .. Len(s)
  OBVIOUS
<1>2. u \in Seq(Nat) /\ Len(u) = Len(s) + Len(t)
  OBVIOUS
<1>3. DOMAIN u = 1 .. Len(s) + Len(t)
  BY <1>2
<1>4. \A i \in DOMAIN s : u[i] = s[i]
  OBVIOUS
<1>5. \A i \in 1 .. Len(t) : u[Len(s) + i] = t[i]
  BY <1>1
<1>6. ASSUME NEW i \in DOMAIN u \ DOMAIN s
      PROVE  i - Len(s) \in 1 .. Len(t) /\ Len(s) + (i - Len(s)) = i
  BY <1>1, <1>3
<1> QED BY <1>2, <1>3, <1>4, <1>5, <1>6

(* A read of the whole body takes all the data there is, and leaves the    *)
(* marker.                                                                 *)
LEMMA TakeAllKept ==
  ASSUME BodyInv, NEW r \in Bd!Readers, Bd!TakeAll(r)
  PROVE  BodyInv'
<1> PICK n \in Nat : n = Held
  BY MarkedIsEnded DEF BodyInv
<1> DEFINE more == [i \in 1 .. n |-> chunks[i].frame]
<1>0. /\ Len(given) \in Nat /\ Len(chunks) \in Nat /\ buffered \in Nat
  BY DEF BodyInv, BodyTypes
<1>01. /\ chunks \in Seq(ChunkSet) /\ given \in Seq(Nat)
       /\ DOMAIN chunks = 1 .. Len(chunks) /\ DOMAIN given = 1 .. Len(given)
  BY DEF BodyInv, BodyTypes
<1>02. /\ result \in [Bd!Readers -> {"none"} \cup Bd!Markers]
      /\ Bd!Step(r, "idle", "over") /\ task[r] = "idle" /\ r \in Collectors /\ finished
      /\ UNCHANGED <<waiters, finished, scheduled, permit, whole, discard, pump, pushing,
                     total, complete, reading, bound, wait>>
  BY DEF BodyInv, BodyTypes, Bd!TakeAll, Bd!Step, Bd!pumpVars, Bd!fixedVars
<1>1. /\ n \in Nat /\ n <= Len(chunks) /\ Bd!Arrived = n
      /\ Marked => n = Len(chunks) - 1
      /\ ~Marked => n = Len(chunks)
      /\ Bd!Ended <=> Marked
  BY <1>0, MarkedIsEnded DEF BodyInv
<1>2. /\ given' = given \o more /\ buffered' = buffered - n
      /\ chunks' = SubSeq(chunks, n + 1, Len(chunks))
      /\ result' = [result EXCEPT ![r] = Bd!Verdict]
  BY <1>1 DEF Bd!TakeAll, Bd!Answers
<1>3. /\ chunks' \in Seq(ChunkSet) /\ Len(chunks') = Len(chunks) - n
      /\ DOMAIN chunks' = 1 .. Len(chunks) - n
      /\ \A i \in DOMAIN chunks' : chunks'[i] = chunks[n + i] /\ n + i \in DOMAIN chunks
  <2>1. chunks \in Seq(ChunkSet) /\ n <= Len(chunks)
        /\ chunks' = SubSeq(chunks, n + 1, Len(chunks))
    BY <1>01, <1>1, <1>2
  <2> QED BY <2>1, RestOf
<1>4. \A i \in 1 .. n : chunks[i].frame \in Nat /\ i \in DOMAIN chunks
  <2>1. \A i \in DOMAIN chunks : chunks[i] \in ChunkSet
    BY <1>01
  <2>2. \A i \in 1 .. n : i \in 1 .. Len(chunks)
    BY <1>0, <1>1
  <2>3. DOMAIN chunks = 1 .. Len(chunks)
    BY <1>01
  <2> QED BY <2>1, <2>2, <2>3 DEF ChunkSet
<1>5. more \in Seq(Nat) /\ Len(more) = n /\ \A i \in 1 .. n : more[i] = chunks[i].frame
  BY <1>1, <1>4
<1> HIDE DEF more
<1>6. /\ given' \in Seq(Nat) /\ Len(given') = Len(given) + n
      /\ DOMAIN given' = 1 .. Len(given) + n
      /\ \A i \in DOMAIN given : given'[i] = given[i]
      /\ \A i \in 1 .. n : given'[Len(given) + i] = chunks[i].frame
      /\ \A i \in DOMAIN given' \ DOMAIN given :
            i - Len(given) \in 1 .. n /\ Len(given) + (i - Len(given)) = i
  <2>1. given' = given \o more /\ given \in Seq(Nat) /\ more \in Seq(Nat)
    BY <1>01, <1>2, <1>5
  <2>2. /\ given' \in Seq(Nat) /\ Len(given') = Len(given) + Len(more)
        /\ DOMAIN given' = 1 .. Len(given) + Len(more)
        /\ \A i \in DOMAIN given : given'[i] = given[i]
        /\ \A i \in 1 .. Len(more) : given'[Len(given) + i] = more[i]
        /\ \A i \in DOMAIN given' \ DOMAIN given :
            i - Len(given) \in 1 .. Len(more) /\ Len(given) + (i - Len(given)) = i
    BY <2>1, Behind
  <2> QED BY <1>5, <2>2
<1>7. /\ (Marked' <=> Marked) /\ Partial' = Partial /\ Partial = 0
  BY <1>02 DEF BodyInv, BodyPlace, Marked, Partial
<1>8. Held' = 0
  BY <1>0, <1>1, <1>3, <1>7 DEF Held
<1>9. task' \in [Bd!Readers -> TaskSet] /\ Taking = 0 /\ Taking' = 0
  BY <1>02, Stepped DEF TaskSet, Bd!Resting
<1>10. buffered = n /\ buffered' = 0
  BY <1>0, <1>1, <1>2, <1>7, <1>9 DEF BodyInv, BodyCounts
<1>11. result' \in [Bd!Readers -> {"none"} \cup Bd!Markers]
       /\ \A q \in Iterators : result'[q] = result[q]
  <2>1. Bd!Verdict \in Bd!Markers
    <3>1. CASE Marked
      <4>1. n + 1 = Len(chunks) /\ Len(chunks) \in DOMAIN chunks
        <5>1. n + 1 = Len(chunks) /\ Len(chunks) \in 1 .. Len(chunks)
          BY <1>0, <1>1, <3>1
        <5>2. DOMAIN chunks = 1 .. Len(chunks)
          BY <1>01
        <5> QED BY <5>1, <5>2
      <4>2. chunks[Len(chunks)] \in ChunkSet /\ ~Bd!IsData(chunks[Len(chunks)])
        BY <1>01, <3>1, <4>1 DEF BodyInv, BodyPlace
      <4>3. Bd!Verdict = chunks[Len(chunks)].kind
        BY <1>1, <3>1, <4>1 DEF Bd!Verdict
      <4> QED BY <4>2, <4>3 DEF ChunkSet, Bd!IsData
    <3>2. CASE ~Marked
      BY <1>1, <3>2 DEF Bd!Verdict, Bd!Markers
    <3> QED BY <3>1, <3>2
  <2> QED BY <1>02, <1>2, <2>1, BodyBounds DEF Bd!Readers
<1>12. BodyTypes'
  BY <1>02, <1>3, <1>6, <1>9, <1>10, <1>11 DEF BodyInv, BodyTypes
<1>13. BodyPlace'
  <2>1. Marked => chunks' # <<>> /\ ~Bd!IsData(chunks'[Len(chunks')])
    <3> SUFFICES ASSUME Marked PROVE chunks' # <<>> /\ ~Bd!IsData(chunks'[Len(chunks')])
      OBVIOUS
    <3>1. Len(chunks') = 1 /\ 1 \in DOMAIN chunks' /\ n + 1 = Len(chunks)
      BY <1>0, <1>1, <1>3
    <3>2. chunks'[1] = chunks[Len(chunks)]
      BY <1>3, <3>1
    <3> QED BY <1>3, <3>1, <3>2 DEF BodyInv, BodyPlace
  <2>2. ASSUME NEW i \in DOMAIN chunks', ~Bd!IsData(chunks'[i])
        PROVE  Marked /\ i = Len(chunks')
    <3>1. Marked /\ n + i = Len(chunks)
      BY <1>3, <2>2 DEF BodyInv, BodyPlace
    <3> QED BY <1>0, <1>1, <1>3, <3>1
  <2>3. pump # "binding"
    BY <1>02 DEF BodyInv, BodyPlace
  <2> QED BY <1>02, <1>7, <2>1, <2>2, <2>3 DEF BodyInv, BodyPlace
<1>14. BodyFrames'
  <2>1. ASSUME NEW i \in 1 .. n PROVE chunks[i].frame = Len(given) + i
    <3>1. Bd!IsData(chunks[i])
      <4>1. Marked => i # Len(chunks)
        BY <1>0, <1>1, <2>1
      <4> QED BY <1>4, <4>1 DEF BodyInv, BodyPlace
    <3> QED BY <1>4, <3>1 DEF BodyInv, BodyFrames, Bd!InOrder
  <2>2. ASSUME NEW i \in DOMAIN given' PROVE given'[i] = i
    <3>1. CASE i \in DOMAIN given
      BY <1>6, <3>1 DEF BodyInv, BodyFrames, Bd!InOrder
    <3>2. CASE i \notin DOMAIN given
      <4>1. i - Len(given) \in 1 .. n /\ Len(given) + (i - Len(given)) = i
        BY <1>6, <3>2
      <4> QED BY <1>6, <2>1, <4>1
    <3> QED BY <3>1, <3>2
  <2>3. ASSUME NEW i \in DOMAIN chunks' PROVE ~Bd!IsData(chunks'[i])
    <3>1. Marked /\ n + i = Len(chunks)
      BY <1>0, <1>1, <1>3
    <3> QED BY <1>3, <3>1 DEF BodyInv, BodyPlace
  <2>4. Bd!InOrder'
    BY <2>2, <2>3 DEF Bd!InOrder
  <2>5. Len(given') + Held' <= MaxBody
    BY <1>0, <1>1, <1>6, <1>8 DEF BodyInv, BodyFrames
  <2>6. pump' \in {"append", "wake", "stopped"}
        /\ (pump' = "append" => ~Bd!IsData(pushing'))
    BY <1>02 DEF BodyInv, BodyPlace
  <2> QED BY <1>02, <2>4, <2>5, <2>6 DEF BodyFrames
<1>15. BodyCounts'
  BY <1>02, <1>7, <1>8, <1>9, <1>10, BodyBounds DEF BodyInv, BodyCounts, BodyPlace
<1>16. BodyWaits'
  <2>1. chunks' # <<>> => chunks # <<>>
    BY <1>0, <1>1, <1>3
  <2> QED BY <1>02, <2>1, TakingWaits
<1>17. BodyEnds'
  BY <1>02, <1>3, <1>11 DEF BodyInv, BodyEnds
<1> QED BY <1>12, <1>13, <1>14, <1>15, <1>16, <1>17 DEF BodyInv

(* Every chunk of a request's body is handed out once and in order, none   *)
(* is missed between a poll and the wait for the next, a body that failed  *)
(* is never iterated as one that ended, and the buffer stays within its    *)
(* mark, for any readers, frames and bounds, whenever the handler answers  *)
(* and the client goes (BodyShared in body.rs, wait_while_streaming in     *)
(* server.rs, _bodies.py).                                                 *)
THEOREM BodySafe == MCSpec => []BodySafety
<1>1. MCInit => BodyInv
  BY BodyInit DEF MCInit
<1>2. BodyInv /\ [MCNext]_<<which, vars, bodyVars>> => BodyInv'
  <2> SUFFICES ASSUME BodyInv, [MCNext]_<<which, vars, bodyVars>> PROVE BodyInv'
    OBVIOUS
  <2>1. CASE UNCHANGED bodyVars
    <3>1. /\ (Marked' <=> Marked) /\ Held' = Held /\ Partial' = Partial
          /\ Taking' = Taking
      BY <2>1 DEF bodyVars, Marked, Held, Partial, Taking
    <3>2. BodyTypes' /\ BodyEnds'
      BY <2>1 DEF bodyVars, BodyInv, BodyTypes, BodyEnds
    <3>3. BodyPlace'
      BY <2>1, <3>1 DEF bodyVars, BodyInv, BodyPlace
    <3>4. Bd!InOrder'
      BY <2>1 DEF bodyVars, BodyInv, BodyFrames, Bd!InOrder
    <3>5. BodyFrames'
      BY <2>1, <3>1, <3>4 DEF bodyVars, BodyInv, BodyFrames
    <3>6. BodyCounts' /\ BodyWaits'
      BY <2>1, <3>1 DEF bodyVars, BodyInv, BodyCounts, BodyWaits
    <3> QED BY <3>2, <3>3, <3>5, <3>6 DEF BodyInv
  <2>2. CASE Bd!Pumping
    BY <2>2, PumpingKept, PushKept, WakeReadersKept DEF Bd!Pumping
  <2>3. CASE Bd!Replied \/ Bd!Over
    BY <2>3, DroppedKept
  <2>4. ASSUME NEW r \in Bd!Readers, Bd!Reading(r) \/ Bd!Running(r) PROVE BodyInv'
    BY <2>4, PollKept, PollSubKept, TakeAllKept, AskingKept, CollectingKept
       DEF Bd!Reading, Bd!Running
  <2>5. ASSUME NEW r \in Bd!Readers, Bd!Resumes(r) \/ Bd!GivesUp(r) PROVE BodyInv'
    BY <2>5, WaitEndKept
  <2>6. UNCHANGED bodyVars \/ Bd!Next
    BY DEF MCNext
  <2> QED BY <2>1, <2>2, <2>3, <2>4, <2>5, <2>6 DEF Bd!Next
<1>3. BodyInv => BodySafety
  BY BodyImplied
<1> QED BY <1>1, <1>2, <1>3, PTL DEF MCSpec

=============================================================================
