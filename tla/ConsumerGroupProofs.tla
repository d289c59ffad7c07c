------------------------- MODULE ConsumerGroupProofs -------------------------
(***************************************************************************)
(* Proofs about ConsumerGroup, for every set of members, any of them       *)
(* mortal, and every bound, the length of a page and how much is trimmed   *)
(* included: a member that has recovered was handed all that it held,      *)
(* unless its recovery ended on a page that was trimmed entirely.          *)
(***************************************************************************)
EXTENDS ConsumerGroup, FiniteSetTheorems, WellFoundedInduction, TLAPS

-----------------------------------------------------------------------------
(* Sets of entries                                                         *)

(* A set of numbers that is not empty has a least one, which is its Min.   *)
LEMMA LeastOne ==
  ASSUME NEW S \in SUBSET Nat, S # {}
  PROVE  Min(S) \in S /\ \A y \in S : Min(S) <= y
<1> DEFINE R == {p \in Nat \X Nat : p[1] < p[2]}
<1>0. IsWellFoundedOn(R, Nat)
  BY NatLessThanWellFounded, Zenon DEF OpToRel
<1> HIDE DEF R
<1>1. PICK x \in S : \A y \in S : ~(<<y, x>> \in R)
  BY <1>0, WFMin
<1>2. ASSUME NEW y \in S PROVE x <= y
  <2>1. y < x => <<y, x>> \in R
    <3>1. <<y, x>> \in Nat \X Nat
      OBVIOUS
    <3> QED BY <3>1 DEF R
  <2> QED BY <1>1, <2>1
<1> QED BY <1>2 DEF Min

(* A set of entries that is not empty has a last one, which is its Max.    *)
LEMMA LastOne ==
  ASSUME NEW n \in Nat, NEW S \in SUBSET (1 .. n), S # {}
  PROVE  Max(S) \in S /\ \A y \in S : y <= Max(S)
<1> DEFINE T == {n - e : e \in S}
<1>1. T \in SUBSET Nat /\ T # {}
  <2>1. \A e \in S : n - e \in Nat
    OBVIOUS
  <2>2. PICK e \in S : TRUE
    OBVIOUS
  <2>3. n - e \in T
    OBVIOUS
  <2> QED BY <2>1, <2>3
<1> HIDE DEF T
<1>2. Min(T) \in T /\ \A y \in T : Min(T) <= y
  BY <1>1, LeastOne
<1>3. PICK x \in S : Min(T) = n - x
  BY <1>2 DEF T
<1>4. ASSUME NEW y \in S PROVE x >= y
  <2>1. n - y \in T
    BY DEF T
  <2> QED BY <1>2, <1>3, <2>1
<1> QED BY <1>4 DEF Max

(* A page is taken from the set it pages.                                  *)
LEMMA PageWithin ==
  ASSUME NEW S
  PROVE  Oldest(S) \subseteq S
BY DEF Oldest

(* A page that is not full is all there is.                                *)
LEMMA ShortPage ==
  ASSUME NEW n \in Nat, NEW S \in SUBSET (1 .. n), Count \in Nat,
         ~(Cardinality(Oldest(S)) >= Count)
  PROVE  Oldest(S) = S
<1> DEFINE left == S \ Oldest(S)
           x == Min(left)
           F == {f \in S : f < x}
<1> SUFFICES ASSUME left # {} PROVE FALSE
  BY PageWithin
<1>1. left \in SUBSET Nat /\ S \subseteq Nat
  <2>1. 1 .. n \subseteq Nat
    OBVIOUS
  <2> QED BY <2>1
<1> HIDE DEF left
<1>2. x \in left /\ \A y \in left : x <= y
  BY <1>1, LeastOne
<1> HIDE DEF x
<1>3. IsFiniteSet(S)
  <2>1. IsFiniteSet(1 .. n)
    BY FS_Interval
  <2> QED BY <2>1, FS_Subset
<1>4. IsFiniteSet(F) /\ IsFiniteSet(Oldest(S))
  BY <1>3, FS_Subset, PageWithin
<1>5. F \subseteq Oldest(S)
  <2>1. ASSUME NEW f \in F PROVE f \in Oldest(S)
    <3>1. f \in S /\ f \in Nat /\ x \in Nat /\ f < x
      BY <1>1, <1>2
    <3>2. f \notin left
      BY <1>2, <3>1
    <3> QED BY <3>1, <3>2 DEF left
  <2> QED BY <2>1
<1>6. Cardinality(F) <= Cardinality(Oldest(S))
  BY <1>4, <1>5, FS_Subset
<1>7. Cardinality(F) \in Nat /\ Cardinality(Oldest(S)) \in Nat
  BY <1>4, FS_CardinalityType
<1>8. Cardinality(F) < Count
  BY <1>6, <1>7
<1>9. x \in Oldest(S)
  BY <1>2, <1>8 DEF Oldest, left
<1> QED BY <1>2, <1>9 DEF left

-----------------------------------------------------------------------------
(* The inductive invariant                                                 *)

(* What is pending was read, and so was all that a member has or had.      *)
Held == \A e \in Entries : holder[e] # Nobody => e <= read

Given ==
    \A m \in Members :
        /\ hand[m] <= read
        /\ \A e \in buffer[m] : e <= read
        /\ \A e \in before[m] : e <= read

(* A member asks Redis only when it has nothing buffered.                  *)
Asks == \A m \in Members : member[m] \in {"recover", "claim", "read"} => buffer[m] = {}

(* A member that is done recovering, or has what it claimed or read next,  *)
(* has been handed all that it held when it came up, or has it buffered,   *)
(* unless it was cut short.                                                *)
Done(m) == member[m] \in {"claim", "read"} \/ (member[m] = "next" /\ ~recovering[m])

Recovered ==
    \A m \in Members :
        Done(m) /\ ~cut[m] =>
            \A e \in before[m] : holder[e] = m => ~Present(e) \/ e \in buffer[m]

IInv == TypeOK /\ Held /\ Given /\ Asks /\ Recovered

(* The invariant says of a member that claims or reads what the property   *)
(* asks.                                                                   *)
LEMMA Implied == IInv => Safety
BY DEF IInv, Safety, RecoversAll, Recovered, Asks, Done

(* The invariant holds of a group nobody has joined.                       *)
LEMMA InitInv == Init => IInv
<1> SUFFICES ASSUME Init PROVE IInv
  OBVIOUS
<1> USE GroupAssumption DEF Init
<1>1. TypeOK
  <2>1. /\ added \in 0 .. MaxEntries /\ trimmed \in 0 .. added /\ read \in 0 .. added
        /\ idle \in [Entries -> 0 .. ClaimAfter] /\ hand \in [Members -> 0 .. MaxEntries]
    OBVIOUS
  <2>2. /\ group \in BOOLEAN /\ acked \subseteq 1 .. read
        /\ holder \in [Entries -> Members \cup {Nobody}]
        /\ member \in [Members -> {"down", "next", "recover", "claim", "read", "ended"}]
        /\ recovering \in [Members -> BOOLEAN] /\ closed \in [Members -> BOOLEAN]
        /\ buffer \in [Members -> SUBSET Entries] /\ before \in [Members -> SUBSET Entries]
        /\ cut \in [Members -> BOOLEAN]
    OBVIOUS
  <2> QED BY <2>1, <2>2 DEF TypeOK
<1>2. Held /\ Given /\ Asks
  BY DEF Held, Given, Asks
<1>3. Recovered
  BY DEF Recovered
<1> QED BY <1>1, <1>2, <1>3 DEF IInv

(* A step that changes no variable preserves it.                           *)
LEMMA StutterInv == IInv /\ UNCHANGED vars => IInv'
BY DEF IInv, TypeOK, Held, Given, Asks, Recovered, Done, Present, vars, streamVars,
       pendingVars, memberVars, history, counts

-----------------------------------------------------------------------------
(* The stream                                                              *)

(* An entry appended is none that a member held.                           *)
LEMMA PublishInv == IInv /\ Publish => IInv'
<1> SUFFICES ASSUME IInv, Publish PROVE IInv'
  OBVIOUS
<1> USE GroupAssumption DEF IInv, Publish, pendingVars, memberVars, history
<1>1. TypeOK'
  BY DEF TypeOK
<1>2. Held' /\ Given' /\ Asks'
  BY DEF Held, Given, Asks
<1>3. Recovered'
  BY DEF Recovered, Done, Present, Given, TypeOK, Entries
<1> QED BY <1>1, <1>2, <1>3

(* Trimming takes entries out of the stream and puts none in.              *)
LEMMA TrimInv == IInv /\ Trim => IInv'
<1> SUFFICES ASSUME IInv, Trim PROVE IInv'
  OBVIOUS
<1> USE GroupAssumption DEF IInv, Trim, pendingVars, memberVars, history
<1>1. TypeOK'
  BY DEF TypeOK
<1>2. Held' /\ Given' /\ Asks'
  BY DEF Held, Given, Asks
<1>3. Recovered'
  BY DEF Recovered, Done, Present, TypeOK, Entries
<1> QED BY <1>1, <1>2, <1>3

(* Time moves only the entries' idle times.                                *)
LEMMA TickInv == IInv /\ Tick => IInv'
<1> SUFFICES ASSUME IInv, Tick PROVE IInv'
  OBVIOUS
<1> USE GroupAssumption DEF IInv, Tick, streamVars, memberVars, history
<1>1. TypeOK'
  BY DEF TypeOK
<1>2. Held' /\ Given' /\ Asks'
  BY DEF Held, Given, Asks
<1>3. Recovered'
  BY DEF Recovered, Done, Present
<1> QED BY <1>1, <1>2, <1>3

-----------------------------------------------------------------------------
(* Members                                                                 *)

(* A member that comes up is recovering.                                   *)
LEMMA StartInv == ASSUME NEW m \in Members PROVE IInv /\ Start(m) => IInv'
<1> SUFFICES ASSUME IInv, Start(m) PROVE IInv'
  OBVIOUS
<1> USE GroupAssumption DEF IInv, Start, Set, streamVars
<1>1. TypeOK'
  BY DEF TypeOK, Pending
<1>2. Held' /\ Asks'
  BY DEF Held, Asks, TypeOK
<1>3. Given'
  BY DEF Given, Held, TypeOK, Pending, Entries
<1>4. Recovered'
  BY DEF Recovered, Done, Present, TypeOK
<1> QED BY <1>1, <1>2, <1>3, <1>4

(* What is taken from the buffer is handed out.                            *)
LEMMA TakeInv == ASSUME NEW m \in Members PROVE IInv /\ Take(m) => IInv'
<1> SUFFICES ASSUME IInv, Take(m) PROVE IInv'
  OBVIOUS
<1> DEFINE e == Min(buffer[m])
<1>0. e \in buffer[m]
  <2>1. buffer[m] \in SUBSET Nat /\ buffer[m] # {}
    BY GroupAssumption DEF Take, IInv, TypeOK, Entries
  <2> QED BY <2>1, LeastOne
<1>a. /\ hand' = Set(hand, m, e) /\ buffer' = Set(buffer, m, buffer[m] \ {e})
      /\ before' = Set(before, m, before[m] \ {e})
      /\ member[m] = "next"
      /\ UNCHANGED <<streamVars, pendingVars, acked, member, recovering, closed, cut>>
  BY DEF Take
<1> HIDE DEF e
<1> USE GroupAssumption, <1>0, <1>a DEF IInv, Set, streamVars, pendingVars
<1>1. TypeOK'
  <2>1. e \in 0 .. MaxEntries
    BY DEF TypeOK, Entries
  <2>2. hand' \in [Members -> 0 .. MaxEntries]
    BY <2>1 DEF TypeOK
  <2>3. buffer' \in [Members -> SUBSET Entries] /\ before' \in [Members -> SUBSET Entries]
    BY DEF TypeOK
  <2> QED BY <2>2, <2>3 DEF TypeOK
<1>2. Held' /\ Asks'
  BY DEF Held, Asks, TypeOK
<1>3. Given'
  BY DEF Given, TypeOK
<1>4. Recovered'
  BY DEF Recovered, Done, Present, TypeOK
<1> QED BY <1>1, <1>2, <1>3, <1>4

(* A member asks when its buffer is empty: what was buffered is handed out.*)
LEMMA FillInv == ASSUME NEW m \in Members PROVE IInv /\ Fill(m) => IInv'
<1> SUFFICES ASSUME IInv, Fill(m) PROVE IInv'
  OBVIOUS
<1> USE GroupAssumption DEF IInv, Fill, Set, streamVars, pendingVars, history
<1>1. TypeOK'
  BY DEF TypeOK
<1>2. Held' /\ Asks' /\ Given'
  BY DEF Held, Asks, TypeOK, Given
<1>3. Recovered'
  BY DEF Recovered, Done, Present, TypeOK
<1> QED BY <1>1, <1>2, <1>3

(* Recovery ends when nothing is left in the stream that the member holds, *)
(* or at a full page of entries that are gone.                             *)
LEMMA RecoverInv == ASSUME NEW m \in Members PROVE IInv /\ Recover(m) => IInv'
<1> SUFFICES ASSUME IInv, Recover(m) PROVE IInv'
  OBVIOUS
<1> DEFINE page == Oldest(Pending(m))
           some == Absorbed(page)
           full == Cardinality(page) >= Count
<1>0. some \subseteq Pending(m)
  BY PageWithin DEF Absorbed
<1>b. some = {} /\ ~full => \A e \in Pending(m) : ~Present(e)
  <2>1. Pending(m) \in SUBSET (1 .. MaxEntries) /\ MaxEntries \in Nat /\ Count \in Nat
    BY GroupAssumption DEF Pending, Entries
  <2>2. ~full => page = Pending(m)
    BY <2>1, ShortPage
  <2> HIDE DEF page
  <2> QED BY <2>2 DEF Absorbed
<1>a. /\ Hold(m, some)
      /\ buffer' = Set(buffer, m, some)
      /\ member' = Set(member, m, IF some = {} THEN "claim" ELSE "next")
      /\ recovering' = Set(recovering, m, ~(some = {}))
      /\ cut' = Set(cut, m, some = {} /\ full)
      /\ UNCHANGED <<streamVars, group, read, acked, closed, hand, before>>
  BY DEF Recover, EndsRecovery
<1> HIDE DEF full
<1> HIDE DEF some
<1>c. holder' = holder
  BY <1>0, <1>a DEF Hold, Pending, IInv, TypeOK
<1>d. \A e \in some : e \in Entries /\ e <= read
  BY <1>0, GroupAssumption DEF Pending, IInv, Held
<1>1. TypeOK'
  BY GroupAssumption, <1>a, <1>c, <1>d DEF IInv, TypeOK, Hold, Set, streamVars
<1>2. Held' /\ Asks'
  BY <1>a, <1>c DEF IInv, Held, Asks, TypeOK, Set
<1>3. Given'
  BY <1>a, <1>c, <1>d DEF IInv, Given, TypeOK, Set
<1>4. ASSUME NEW n \in Members, Done(n)', ~cut'[n], NEW e \in before'[n], holder'[e] = n
      PROVE  ~Present(e)' \/ e \in buffer'[n]
  <2>1. CASE n = m
    <3>1. some = {} /\ ~full
      BY <1>a, <1>4, <2>1 DEF Done, IInv, TypeOK, Set
    <3>2. e \in Pending(m)
      BY <1>a, <1>c, <1>4, <2>1 DEF IInv, TypeOK, Pending
    <3> QED BY <3>1, <3>2, <1>b, <1>a DEF Present, streamVars
  <2>2. CASE n # m
    BY <1>a, <1>c, <1>4, <2>2 DEF Done, IInv, Recovered, TypeOK, Set, Present, streamVars
  <2> QED BY <2>1, <2>2
<1> QED BY <1>1, <1>2, <1>3, <1>4, <1>a DEF IInv, Recovered, streamVars

(* What a member claims it has buffered, and what it loses is no longer    *)
(* its own.                                                                *)
LEMMA ClaimInv == ASSUME NEW m \in Members PROVE IInv /\ Claim(m) => IInv'
<1> SUFFICES ASSUME IInv, Claim(m) PROVE IInv'
  OBVIOUS
<1> DEFINE due == {e \in Entries : holder[e] # Nobody /\ idle[e] >= ClaimAfter}
           es == IF ClaimAfter = 0 THEN {} ELSE Oldest(due)
           some == Absorbed(es)
<1>0. es \subseteq due
  BY PageWithin
<1>a. /\ holder' = [e \in Entries |->
                       IF e \notin es THEN holder[e]
                       ELSE IF Present(e) THEN m ELSE Nobody]
      /\ idle' = [e \in Entries |-> IF e \in es THEN 0 ELSE idle[e]]
      /\ buffer' = Set(buffer, m, some)
      /\ member' = Set(member, m, IF some = {} THEN "read" ELSE "next")
      /\ member[m] = "claim"
      /\ UNCHANGED <<streamVars, group, read, acked, recovering, closed, hand, before, cut>>
  BY DEF Claim, history
<1> HIDE DEF es
<1>b. \A e \in es : e \in Entries /\ holder[e] # Nobody /\ e <= read
  BY <1>0, GroupAssumption DEF IInv, Held
<1>c. \A e : e \in some <=> e \in es /\ Present(e)
  BY DEF Absorbed
<1> HIDE DEF some, due
<1>1. TypeOK'
  BY GroupAssumption, <1>a, <1>b, <1>c DEF IInv, TypeOK, Set, streamVars
<1>2. Held' /\ Asks'
  BY <1>a, <1>b DEF IInv, Held, Asks, TypeOK, Set
<1>3. Given'
  BY <1>a, <1>b, <1>c DEF IInv, Given, TypeOK, Set
<1>4. ASSUME NEW n \in Members, Done(n)', ~cut'[n], NEW e \in before'[n], holder'[e] = n
      PROVE  ~Present(e)' \/ e \in buffer'[n]
  <2>0. e \in Entries /\ e \in before[n]
    BY <1>a, <1>4 DEF IInv, TypeOK
  <2>1. Done(n)
    BY <1>a, <1>4 DEF Done, IInv, TypeOK, Set
  <2>2. CASE e \in es
    <3>1. Present(e) /\ n = m
      BY GroupAssumption, <2>0, <2>2, <1>a, <1>4
    <3> QED BY <3>1, <2>2, <1>a, <1>c DEF IInv, TypeOK, Set
  <2>3. CASE e \notin es
    <3>1. holder[e] = n
      BY <1>a, <1>4, <2>0, <2>3
    <3>c. ~cut[n]
      BY <1>a, <1>4
    <3>2. ~Present(e) \/ e \in buffer[n]
      BY <2>0, <2>1, <3>1, <3>c DEF IInv, Recovered
    <3>3. n = m => buffer[n] = {}
      BY <1>a DEF IInv, Asks
    <3> QED BY <3>2, <3>3, <1>a DEF Present, streamVars, IInv, TypeOK, Set
  <2> QED BY <2>2, <2>3
<1> QED BY <1>1, <1>2, <1>3, <1>4, <1>a DEF IInv, Recovered, streamVars

(* What is read now was held by nobody, and so by none that came up before.*)
LEMMA ReadNewInv == ASSUME NEW m \in Members PROVE IInv /\ ReadNew(m) => IInv'
<1> SUFFICES ASSUME IInv, ReadNew(m) PROVE IInv'
  OBVIOUS
<1> DEFINE new == {e \in Entries : Present(e) /\ e > read}
           es == Oldest(new)
<1>0. es \subseteq new
  BY PageWithin
<1>a. /\ Hold(m, es)
      /\ read' = IF es = {} THEN read ELSE Max(es)
      /\ \/ buffer' = Set(buffer, m, es) /\ member' = Set(member, m, "next")
         \/ UNCHANGED <<buffer, member>>
      /\ member[m] = "read"
      /\ UNCHANGED <<streamVars, group, acked, recovering, closed, hand, before, cut>>
  BY DEF ReadNew, history
<1> HIDE DEF es
<1>b. \A e \in es : e \in Entries /\ Present(e) /\ e > read
  BY <1>0
<1> HIDE DEF new
<1>c. /\ read' \in 0 .. added /\ read <= read'
      /\ \A e \in es : e <= read'
  <2>1. CASE es = {}
    BY <2>1, <1>a DEF IInv, TypeOK
  <2>2. CASE es # {}
    <3>1. es \in SUBSET (1 .. MaxEntries) /\ MaxEntries \in Nat
      BY <1>b, GroupAssumption DEF Entries
    <3>2. Max(es) \in es /\ \A y \in es : y <= Max(es)
      BY <2>2, <3>1, LastOne
    <3> QED BY <2>2, <3>1, <3>2, <1>a, <1>b DEF IInv, TypeOK, Present
  <2> QED BY <2>1, <2>2
<1>d. /\ holder' = [e \in Entries |-> IF e \in es THEN m ELSE holder[e]]
      /\ idle' = [e \in Entries |-> IF e \in es THEN 0 ELSE idle[e]]
  BY <1>a DEF Hold
<1>1. TypeOK'
  <2>1. acked' \subseteq 1 .. read'
    BY <1>a, <1>c DEF IInv, TypeOK
  <2>2. /\ holder' \in [Entries -> Members \cup {Nobody}]
        /\ idle' \in [Entries -> 0 .. ClaimAfter]
    BY <1>d, GroupAssumption DEF IInv, TypeOK
  <2>3. /\ buffer' \in [Members -> SUBSET Entries]
        /\ member' \in [Members -> {"down", "next", "recover", "claim", "read", "ended"}]
    BY <1>a, <1>b DEF IInv, TypeOK, Set
  <2> QED BY <1>a, <1>c, <2>1, <2>2, <2>3 DEF IInv, TypeOK, streamVars
<1>2. Held'
  <2>1. ASSUME NEW e \in Entries, holder'[e] # Nobody PROVE e <= read'
    <3>1. CASE e \in es
      BY <3>1, <1>c
    <3>2. CASE e \notin es
      BY <3>2, <2>1, <1>d, <1>c, GroupAssumption DEF IInv, Held, TypeOK, Entries
    <3> QED BY <3>1, <3>2
  <2> QED BY <2>1 DEF Held
<1>3. Asks'
  BY <1>a DEF IInv, Asks, TypeOK, Set
<1>4. Given'
  <2>1. ASSUME NEW n \in Members
        PROVE  /\ hand'[n] <= read'
               /\ \A e \in buffer'[n] : e <= read'
               /\ \A e \in before'[n] : e <= read'
    <3>1. /\ hand[n] <= read
          /\ \A e \in buffer[n] : e <= read
          /\ \A e \in before[n] : e <= read
      BY DEF IInv, Given
    <3>2. /\ hand[n] \in Nat /\ buffer[n] \subseteq Nat /\ before[n] \subseteq Nat
          /\ read \in Nat /\ read' \in Nat
      BY GroupAssumption, <1>c DEF IInv, TypeOK, Entries
    <3>3. buffer'[n] = buffer[n] \/ buffer'[n] = es
      BY <1>a DEF IInv, TypeOK, Set
    <3> QED BY <1>a, <1>c, <3>1, <3>2, <3>3
  <2> QED BY <2>1 DEF Given
<1>5. ASSUME NEW n \in Members, Done(n)', ~cut'[n], NEW e \in before'[n], holder'[e] = n
      PROVE  ~Present(e)' \/ e \in buffer'[n]
  <2>1. e \in Entries /\ e \in before[n] /\ e <= read
    BY <1>a, <1>5 DEF IInv, TypeOK, Given
  <2>2. e \notin es
    BY <1>b, <2>1, GroupAssumption DEF Entries, IInv, TypeOK
  <2>3. holder[e] = n
    BY <1>d, <1>5, <2>1, <2>2
  <2>4. Done(n)
    BY <1>a, <1>5 DEF Done, IInv, TypeOK, Set
  <2>c. ~cut[n]
    BY <1>a, <1>5
  <2>5. ~Present(e) \/ e \in buffer[n]
    BY <2>1, <2>3, <2>4, <2>c DEF IInv, Recovered
  <2>6. n = m => buffer[n] = {}
    BY <1>a DEF IInv, Asks
  <2> QED BY <2>5, <2>6, <1>a DEF Present, streamVars, IInv, TypeOK, Set
<1> QED BY <1>1, <1>2, <1>3, <1>4, <1>5, <1>a DEF IInv, Recovered, streamVars

(* An acknowledged entry was read, and is pending with nobody.             *)
LEMMA AckInv == ASSUME NEW m \in Members PROVE IInv /\ Ack(m) => IInv'
<1> SUFFICES ASSUME IInv, Ack(m) PROVE IInv'
  OBVIOUS
<1> USE GroupAssumption DEF IInv, Ack, Set, history, streamVars
<1>0. hand[m] \in Entries /\ hand[m] \in 1 .. read
  BY DEF TypeOK, Given, Entries
<1>1. TypeOK'
  <2>1. holder' \in [Entries -> Members \cup {Nobody}]
    BY DEF TypeOK
  <2>2. acked' \subseteq 1 .. read
    BY <1>0 DEF TypeOK
  <2>3. hand' \in [Members -> 0 .. MaxEntries]
    BY DEF TypeOK
  <2> QED BY <2>1, <2>2, <2>3 DEF TypeOK
<1>2. Held' /\ Asks'
  BY DEF Held, Asks, TypeOK
<1>3. Given'
  BY DEF Given, TypeOK
<1>4. Recovered'
  BY DEF Recovered, Done, Present, TypeOK
<1> QED BY <1>1, <1>2, <1>3, <1>4

(* A handler that gives up leaves its entry pending.                       *)
LEMMA LeaveInv == ASSUME NEW m \in Members PROVE IInv /\ LeaveUnacked(m) => IInv'
<1> SUFFICES ASSUME IInv, LeaveUnacked(m) PROVE IInv'
  OBVIOUS
<1> USE GroupAssumption DEF IInv, LeaveUnacked, Set, history, streamVars, pendingVars
<1>1. TypeOK'
  BY DEF TypeOK
<1>2. Held' /\ Asks' /\ Given'
  BY DEF Held, Asks, TypeOK, Given
<1>3. Recovered'
  BY DEF Recovered, Done, Present
<1> QED BY <1>1, <1>2, <1>3

(* Closing leaves what is buffered and what is held.                       *)
LEMMA CloseInv == ASSUME NEW m \in Members PROVE IInv /\ Close(m) => IInv'
<1> SUFFICES ASSUME IInv, Close(m) PROVE IInv'
  OBVIOUS
<1> USE GroupAssumption DEF IInv, Close, Set, history, streamVars, pendingVars
<1>1. TypeOK'
  BY DEF TypeOK
<1>2. Held' /\ Asks' /\ Given' /\ Recovered'
  BY DEF Held, Asks, Given, Recovered, Done, Present
<1> QED BY <1>1, <1>2

(* A member that dies holds in Redis what it held.                         *)
LEMMA DieInv == ASSUME NEW m \in Members PROVE IInv /\ Die(m) => IInv'
<1> SUFFICES ASSUME IInv, Die(m) PROVE IInv'
  OBVIOUS
<1> USE GroupAssumption DEF IInv, Die, Set, history, streamVars, pendingVars
<1>1. TypeOK'
  BY DEF TypeOK
<1>2. Held' /\ Asks' /\ Given'
  BY DEF Held, Asks, TypeOK, Given
<1>3. Recovered'
  BY DEF Recovered, Done, Present, TypeOK
<1> QED BY <1>1, <1>2, <1>3

-----------------------------------------------------------------------------
(* Every step preserves the invariant.                                     *)
LEMMA NextInv == IInv /\ [Next]_vars => IInv'
<1> SUFFICES ASSUME IInv, [Next]_vars PROVE IInv'
  OBVIOUS
<1>1. CASE UNCHANGED vars
  BY <1>1, StutterInv
<1>2. CASE Publish \/ Trim \/ Tick
  BY <1>2, PublishInv, TrimInv, TickInv
<1>3. ASSUME NEW m \in Members,
             Start(m) \/ Works(m) \/ LeaveUnacked(m) \/ Close(m) \/ Die(m)
      PROVE  IInv'
  <2>1. CASE Works(m)
    BY <2>1, TakeInv, FillInv, RecoverInv, ClaimInv, ReadNewInv, AckInv DEF Works
  <2> QED BY <1>3, <2>1, StartInv, LeaveInv, CloseInv, DieInv
<1> QED BY <1>1, <1>2, <1>3 DEF Next

(* A worker that comes back is handed all that it never acknowledged       *)
(* before it claims from others or reads anything new (Consumer._fill),    *)
(* over as many pages as it takes and whatever dies, is claimed, lost or   *)
(* trimmed meanwhile, unless its recovery ended on a page of which nothing *)
(* was left in the stream.                                                 *)
THEOREM RestartRecovers == Spec => []Safety
<1>1. Init => IInv
  BY InitInv
<1>2. IInv /\ [Next]_vars => IInv'
  BY NextInv
<1>3. IInv => Safety
  BY Implied
<1> QED BY <1>1, <1>2, <1>3, PTL DEF Spec

=============================================================================
