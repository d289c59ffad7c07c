-------------------------- MODULE WakeQueueProofs --------------------------
(***************************************************************************)
(* Proofs about WakeQueue, for every number of tokio threads, requests and *)
(* notices and every limit.  TypeInv and EpisodeInv are inductive whatever *)
(* a constructor raises; NothingForgotten needs Raising = {}.              *)
(***************************************************************************)
EXTENDS WakeQueue, FiniteSetTheorems, SequenceTheorems, TLAPS

TypeInv == TypeOK /\ HoldingOK /\ SlotsOK

EpisodeInv == OneEpisode /\ StampOK

(* The initial state satisfies the typing part of the invariant.           *)
LEMMA InitTypeInv == Init => TypeInv
<1> SUFFICES ASSUME Init PROVE TypeInv
  OBVIOUS
<1>1. TypeOK
  <2>1. queue \in Seq(Requests)
    BY DEF Init
  <2>2. /\ pc \in [Threads -> Pcs]
        /\ holding \in [Threads -> Requests \cup {NoRequest}]
        /\ seen \in [Pushers -> Nat]
    BY DEF Init, Pcs
  <2> QED BY <2>1, <2>2 DEF Init, TypeOK
<1>2. HoldingOK
  BY WakeQueueAssumption DEF Init, HoldingOK, Threads
<1>3. SlotsOK
  BY FS_EmptySet DEF Init, SlotsOK, Threads
<1> QED BY <1>1, <1>2, <1>3 DEF TypeInv

(* Every step of a tokio thread, of the loop or of the clock keeps the     *)
(* types, what each thread holds, and a slot for every running handler.    *)
LEMMA NextTypeInv == TypeInv /\ [Next]_vars => TypeInv'
<1> SUFFICES ASSUME TypeInv, [Next]_vars PROVE TypeInv'
  OBVIOUS
<1> USE WakeQueueAssumption DEF TypeInv, TypeOK, HoldingOK, Threads, Pcs, Goto,
        mailbox, wakeVars
<1>card. Cardinality(running) \in Nat
  BY FS_CardinalityType DEF SlotsOK
<1>1. ASSUME NEW p \in Pushers, NEW r \in Requests, TryPush(p, r)
      PROVE  TypeInv'
  <2>1. Len(queue) \in Nat
    OBVIOUS
  <2>2. TypeOK'
    BY <1>1, <2>1 DEF TryPush
  <2>3. HoldingOK'
    BY <1>1 DEF TryPush
  <2>4. SlotsOK'
    BY <1>1 DEF TryPush, SlotsOK
  <2> QED BY <2>2, <2>3, <2>4
<1>2. ASSUME NEW p \in Pushers, Admit(p) \/ Refuse(p)
      PROVE  TypeInv'
  <2>1. TypeOK'
    BY <1>2 DEF Admit, Refuse
  <2>2. HoldingOK'
    BY <1>2 DEF Admit, Refuse
  <2>3. SlotsOK'
    BY <1>2 DEF Admit, Refuse, SlotsOK
  <2> QED BY <2>1, <2>2, <2>3
<1>3. ASSUME NEW p \in Pushers, Push(p)
      PROVE  TypeInv'
  <2>1. holding[p] \in Requests
    BY <1>3 DEF Push
  <2>2. queue' \in Seq(Requests)
    BY <1>3, <2>1 DEF Push
  <2>3. TypeOK'
    BY <1>3, <2>1, <2>2 DEF Push
  <2>4. HoldingOK'
    BY <1>3 DEF Push
  <2>5. SlotsOK'
    BY <1>3 DEF Push, SlotsOK
  <2> QED BY <2>3, <2>4, <2>5
<1>4. ASSUME NEW p \in Pushers, NEW k \in Notices, PushNotice(p, k)
      PROVE  TypeInv'
  BY <1>4 DEF PushNotice, SlotsOK
<1>5. ASSUME NEW t \in Threads, Wake(t)
      PROVE  TypeInv'
  <2>1. CASE SwapNotified(t)
    BY <2>1 DEF SwapNotified, SlotsOK
  <2>2. CASE Stamp(t)
    BY <2>2 DEF Stamp, SlotsOK
  <2>3. CASE WriteByte(t)
    BY <2>3 DEF WriteByte, SlotsOK
  <2> QED BY <1>5, <2>1, <2>2, <2>3 DEF Wake
<1>6. CASE ReadSocket \/ ClearNotified
  <2>1. CASE ReadSocket
    BY <2>1 DEF ReadSocket, SlotsOK
  <2>2. CASE ClearNotified
    BY <2>2 DEF ClearNotified, Idle, SlotsOK
  <2> QED BY <1>6, <2>1, <2>2
<1>7. ASSUME NEW k \in Notices, PopNotice(k) \/ NoticesEmpty(k)
      PROVE  TypeInv'
  <2>1. CASE PopNotice(k)
    BY <2>1 DEF PopNotice, SlotsOK
  <2>2. CASE NoticesEmpty(k)
    BY <2>2 DEF NoticesEmpty, AfterNotices, SlotsOK
  <2> QED BY <1>7, <2>1, <2>2
<1>8. CASE PopAbandoned \/ Pop \/ QueueEmpty
  <2>1. CASE PopAbandoned
    BY <2>1 DEF PopAbandoned, SlotsOK
  <2>2. CASE Pop
    BY <2>2 DEF Pop, SlotsOK
  <2>3. CASE QueueEmpty
    BY <2>3 DEF QueueEmpty, SlotsOK
  <2> QED BY <1>8, <2>1, <2>2, <2>3
<1>9. CASE Claim
  BY <1>9, <1>card DEF Claim, SlotsOK
<1>10. CASE Build
  <2>1. /\ IsFiniteSet(running')
        /\ Cardinality(running') \in Nat
        /\ Cardinality(running') <= Cardinality(running) + 1
    <3>1. running' = running \cup {holding[Loop]} /\ IsFiniteSet(running)
      BY <1>10 DEF Build, SlotsOK
    <3>2. /\ IsFiniteSet(running')
          /\ Cardinality(running') = IF holding[Loop] \in running
                                     THEN Cardinality(running)
                                     ELSE Cardinality(running) + 1
      BY <3>1, FS_AddElement, Zenon
    <3> QED BY <3>2, <1>card
  <2>2. SlotsOK'
    BY <1>10, <1>card, <2>1 DEF Build, SlotsOK
  <2> QED BY <1>10, <2>2 DEF Build
<1>11. CASE BuildRaises
  BY <1>11, <1>card DEF BuildRaises, SlotsOK
<1>12. CASE RewakeIfPending
  BY <1>12 DEF RewakeIfPending, RewakeCheck, SlotsOK
<1>13. ASSUME NEW r \in Requests, Finish(r)
      PROVE  TypeInv'
  <2>1. /\ IsFiniteSet(running')
        /\ Cardinality(running') = Cardinality(running) - 1
        /\ Cardinality(running') \in Nat
    BY <1>13, FS_RemoveElement, FS_CardinalityType DEF Finish, SlotsOK
  <2>2. SlotsOK' /\ inflight' \in Nat
    BY <1>13, <1>card, <2>1 DEF Finish, SlotsOK
  <2> QED BY <1>13, <2>2 DEF Finish
<1>14. CASE Tick
  BY <1>14 DEF Tick, SlotsOK
<1>15. CASE UNCHANGED vars
  BY <1>15 DEF vars, SlotsOK
<1> QED
  BY <1>1, <1>2, <1>3, <1>4, <1>5, <1>6, <1>7, <1>8, <1>9, <1>10, <1>11,
     <1>12, <1>13, <1>14, <1>15 DEF Next, Pusher, Drain

(* Type correctness: whatever the interleaving, and whether or not a       *)
(* constructor raises, the in-flight count of queue.rs never goes below    *)
(* zero (fetch_sub on an unsigned counter) and the queue holds requests.   *)
THEOREM TypeCorrect == Spec => []TypeOK
<1>1. Spec => []TypeInv
  BY InitTypeInv, NextTypeInv, PTL DEF Spec
<1>2. TypeInv => TypeOK
  BY DEF TypeInv
<1> QED BY <1>1, <1>2, PTL

-----------------------------------------------------------------------------
(* A step in which no thread enters or leaves wake() or the clear, and the *)
(* flag, the stamp and the socket stay as they are, keeps the episode.     *)
LEMMA Aside ==
  ASSUME TypeInv, EpisodeInv, UNCHANGED wakeVars,
         NEW t \in Threads, NEW c \in Pcs \ {"stamp", "byte", "clear_at", "clear_flag"},
         pc[t] \notin {"stamp", "byte", "clear_at", "clear_flag"},
         pc' = [pc EXCEPT ![t] = c]
  PROVE  EpisodeInv'
<1> USE WakeQueueAssumption
        DEF TypeInv, TypeOK, HoldingOK, Threads, wakeVars
<1>1. Waking' = Waking /\ Clearing' = Clearing
  BY DEF Waking, Clearing
<1>2. OneEpisode'
  BY <1>1 DEF EpisodeInv, OneEpisode
<1>3. \A u \in Threads : (pc'[u] = "byte") <=> (pc[u] = "byte")
  OBVIOUS
<1>4. (pc'[Loop] = "clear_at") <=> (pc[Loop] = "clear_at")
  OBVIOUS
<1>5. StampOK'
  BY <1>3, <1>4 DEF EpisodeInv, StampOK
<1> QED BY <1>2, <1>5 DEF EpisodeInv

(* The wake episode is handed on from the thread that flipped the flag to  *)
(* the byte, from the byte to the drain, and ends with the clear.          *)
LEMMA NextEpisodeInv == TypeInv /\ EpisodeInv /\ [Next]_vars => EpisodeInv'
<1> SUFFICES ASSUME TypeInv, EpisodeInv, [Next]_vars PROVE EpisodeInv'
  OBVIOUS
<1> USE WakeQueueAssumption
<1>1. ASSUME NEW p \in Pushers, Pusher(p) PROVE EpisodeInv'
  <2> p \in Threads
    BY DEF Threads
  <2>1. PICK c \in {"load", "push", "idle", "swap"} :
           pc' = [pc EXCEPT ![p] = c]
    BY <1>1 DEF Pusher, TryPush, Admit, Refuse, Push, PushNotice, Goto
  <2>2. pc[p] \in {"idle", "load", "push"} /\ UNCHANGED wakeVars
    BY <1>1 DEF Pusher, TryPush, Admit, Refuse, Push, PushNotice, Goto
  <2> QED BY <2>1, <2>2, Aside DEF Pcs
<1>2. ASSUME NEW t \in Threads, SwapNotified(t) PROVE EpisodeInv'
  <2>1. CASE notified
    <3>1. pc' = [pc EXCEPT ![t] = "idle"] /\ UNCHANGED wakeVars
      BY <1>2, <2>1 DEF SwapNotified, Goto, wakeVars, TypeInv, TypeOK
    <3> QED BY <1>2, <3>1, Aside DEF Pcs, SwapNotified, Goto
  <2>2. CASE ~notified
    <3>1. /\ pc[t] = "swap"
          /\ pc' = [pc EXCEPT ![t] = "stamp"]
          /\ notified'
          /\ UNCHANGED <<notifiedAt, bytes>>
      BY <1>2, <2>2 DEF SwapNotified, Goto
    <3>2. Waking = {} /\ ~Clearing /\ bytes = 0
      BY <2>2 DEF EpisodeInv, OneEpisode, TypeInv, TypeOK
    <3>3. Waking' = {t} /\ ~Clearing'
      BY <3>1, <3>2 DEF Waking, Clearing, TypeInv, TypeOK
    <3>4. OneEpisode'
      BY <3>1, <3>2, <3>3 DEF OneEpisode
    <3>5. StampOK'
      BY <3>1, <3>2 DEF EpisodeInv, StampOK, Waking, Clearing, TypeInv, TypeOK
    <3> QED BY <3>4, <3>5 DEF EpisodeInv
  <2> QED BY <2>1, <2>2
<1>3. ASSUME NEW t \in Threads, Stamp(t) PROVE EpisodeInv'
  <2>1. /\ pc[t] = "stamp" /\ pc' = [pc EXCEPT ![t] = "byte"]
        /\ notifiedAt' = now /\ UNCHANGED <<notified, bytes>>
    BY <1>3 DEF Stamp, Goto
  <2>2. t \in Waking
    BY <2>1 DEF Waking
  <2>3. Waking = {t} /\ ~Clearing /\ bytes = 0 /\ notified
    BY <2>2 DEF EpisodeInv, OneEpisode, TypeInv, TypeOK
  <2>4. Waking' = {t} /\ ~Clearing'
    BY <2>1, <2>3 DEF Waking, Clearing, TypeInv, TypeOK
  <2>5. OneEpisode'
    BY <2>1, <2>3, <2>4 DEF OneEpisode
  <2>6. StampOK'
    BY <2>1, <2>3, <2>4 DEF StampOK, Waking, Clearing, TypeInv, TypeOK, Idle
  <2> QED BY <2>5, <2>6 DEF EpisodeInv
<1>4. ASSUME NEW t \in Threads, WriteByte(t) PROVE EpisodeInv'
  <2>1. /\ pc[t] = "byte" /\ pc' = [pc EXCEPT ![t] = "idle"]
        /\ bytes' = bytes + 1 /\ UNCHANGED <<notified, notifiedAt>>
    BY <1>4 DEF WriteByte, Goto
  <2>2. t \in Waking
    BY <2>1 DEF Waking
  <2>3. Waking = {t} /\ ~Clearing /\ bytes = 0 /\ notified
    BY <2>2 DEF EpisodeInv, OneEpisode, TypeInv, TypeOK
  <2>4. Waking' = {} /\ ~Clearing'
    BY <2>1, <2>3 DEF Waking, Clearing, TypeInv, TypeOK
  <2>5. OneEpisode'
    BY <2>1, <2>3, <2>4 DEF OneEpisode
  <2>6. StampOK'
    BY <2>1, <2>3, <2>4 DEF EpisodeInv, StampOK, Waking, Clearing, TypeInv, TypeOK
  <2> QED BY <2>5, <2>6 DEF EpisodeInv
<1>5. CASE ReadSocket
  <2>1. /\ bytes > 0 /\ bytes' = 0 /\ pc[Loop] = "idle"
        /\ pc' = [pc EXCEPT ![Loop] = "clear_at"]
        /\ UNCHANGED <<notified, notifiedAt>>
    BY <1>5 DEF ReadSocket, Goto
  <2>2. Waking = {} /\ notified /\ notifiedAt # Idle
    BY <2>1 DEF EpisodeInv, OneEpisode, StampOK
  <2>3. Waking' = {} /\ Clearing'
    BY <2>1, <2>2 DEF Waking, Clearing, TypeInv, TypeOK, Threads
  <2>4. OneEpisode'
    BY <2>1, <2>2, <2>3 DEF OneEpisode
  <2>5. StampOK'
    BY <2>1, <2>2 DEF StampOK, Waking, TypeInv, TypeOK, Threads
  <2> QED BY <2>4, <2>5 DEF EpisodeInv
<1>6. CASE ClearNotified
  <2>1. Waking = {} /\ bytes = 0 /\ notified /\ bytes' = bytes
    BY <1>6 DEF ClearNotified, Goto, EpisodeInv, OneEpisode, Clearing, TypeInv,
                TypeOK
  <2>2. Waking' = {}
    BY <1>6, <2>1 DEF ClearNotified, Goto, Waking, TypeInv, TypeOK, Threads
  <2>3. CASE pc[Loop] = "clear_at"
    <3>1. pc'[Loop] = "clear_flag" /\ notified' = notified /\ notifiedAt' = Idle
      BY <1>6, <2>3 DEF ClearNotified, Goto, TypeInv, TypeOK, Threads
    <3> QED BY <2>1, <2>2, <3>1 DEF EpisodeInv, OneEpisode, StampOK, Clearing, Waking
  <2>4. CASE pc[Loop] = "clear_flag"
    <3>1. pc'[Loop] = "wakeup" /\ ~notified' /\ notifiedAt' = notifiedAt
      BY <1>6, <2>4 DEF ClearNotified, Goto, TypeInv, TypeOK, Threads
    <3>2. notifiedAt = Idle
      BY <2>1, <2>4 DEF EpisodeInv, StampOK, Waking
    <3> QED BY <2>1, <2>2, <3>1, <3>2 DEF EpisodeInv, OneEpisode, StampOK, Clearing, Waking
  <2> QED BY <1>6, <2>3, <2>4 DEF ClearNotified, Goto
<1>7. ASSUME Drain, ~ReadSocket, ~ClearNotified PROVE EpisodeInv'
  <2> Loop \in Threads
    BY DEF Threads
  <2>1. PICK c \in {"wakeup", "cancel", "pop", "claim", "build", "idle", "swap",
                     "check_queue", "check_wakeup", "check_cancel"} :
           pc' = [pc EXCEPT ![Loop] = c]
    BY <1>7 DEF Drain, PopNotice, NoticesEmpty, AfterNotices, PopAbandoned, Pop,
                Claim, Build, BuildRaises, QueueEmpty, RewakeIfPending,
                RewakeCheck, Goto, TypeInv, TypeOK
  <2>2. /\ pc[Loop] \notin {"stamp", "byte", "clear_at", "clear_flag"}
        /\ UNCHANGED wakeVars
    BY <1>7 DEF Drain, PopNotice, NoticesEmpty, AfterNotices, PopAbandoned, Pop,
                Claim, Build, BuildRaises, QueueEmpty, RewakeIfPending,
                RewakeCheck, Goto
  <2> QED BY <2>1, <2>2, Aside DEF Pcs
<1>8. ASSUME UNCHANGED <<pc, wakeVars>> PROVE EpisodeInv'
  BY <1>8 DEF EpisodeInv, OneEpisode, StampOK, Waking, Clearing, wakeVars
<1>9. CASE (\E r \in Requests : Finish(r)) \/ Tick \/ UNCHANGED vars
  BY <1>8, <1>9 DEF Finish, Tick, vars, wakeVars
<1> QED
  BY <1>1, <1>2, <1>3, <1>4, <1>5, <1>6, <1>7, <1>9 DEF Next, Wake

(* The wake episode in every reachable state.                              *)
LEMMA EpisodeAlways == Spec => [](TypeInv /\ EpisodeInv)
<1>1. Init => EpisodeInv
  BY WakeQueueAssumption
     DEF Init, EpisodeInv, OneEpisode, StampOK, Waking, Clearing, Threads
<1> QED BY <1>1, InitTypeInv, NextTypeInv, NextEpisodeInv, PTL DEF Spec

(* "At most one unread byte exists", so the one-byte write of wake() never *)
(* meets a full socket buffer, for any number of tokio threads.            *)
THEOREM OneByte == Spec => []AtMostOneByte
<1>1. TypeInv /\ EpisodeInv => AtMostOneByte
  BY DEF TypeInv, TypeOK, EpisodeInv, OneEpisode, AtMostOneByte
<1> QED BY <1>1, EpisodeAlways, PTL

(* The liveness probe sees every unread wake with its start, and no wake   *)
(* that has been cleared.                                                  *)
THEOREM ProbeHonest == Spec => []StallVisible
<1>1. TypeInv /\ EpisodeInv => StallVisible
  BY DEF TypeInv, TypeOK, EpisodeInv, OneEpisode, StampOK, StallVisible, Waking,
         Clearing
<1> QED BY <1>1, EpisodeAlways, PTL

(* What the wake protocol promises the socket and the probe: one byte at   *)
(* most, and every unread wake seen with its start (wake and drain).       *)
THEOREM Honest == Spec => []WakesHonest
BY TypeCorrect, OneByte, ProbeHonest, PTL DEF WakesHonest

(* A push that finds the wake pending leaves the stall clock alone: only   *)
(* the thread that flipped the flag stamps, before its byte is written,    *)
(* and only the drain clears, after the byte is read.                      *)
THEOREM ClockKept == Spec => StallClockKept
<1> DEFINE Kept == bytes > 0 /\ bytes' > 0 => notifiedAt' = notifiedAt
<1>1. ASSUME TypeInv, EpisodeInv, [Next]_vars PROVE [Kept]_vars
  <2>1. ASSUME NEW t \in Threads, Stamp(t) PROVE Kept
    <3>1. t \in Waking
      BY <2>1 DEF Stamp, Goto, Waking
    <3> QED BY <1>1, <3>1 DEF EpisodeInv, OneEpisode
  <2>2. ASSUME ClearNotified PROVE Kept
    BY <1>1, <2>2 DEF ClearNotified, Goto, EpisodeInv, OneEpisode, Clearing
  <2>3. ASSUME NEW p \in Pushers, Pusher(p) PROVE Kept
    BY <2>3 DEF Pusher, TryPush, Admit, Refuse, Push, PushNotice, wakeVars
  <2>4. ASSUME NEW t \in Threads, SwapNotified(t) \/ WriteByte(t) PROVE Kept
    BY <2>4 DEF SwapNotified, WriteByte
  <2>5. ASSUME Drain, ~ClearNotified PROVE Kept
    BY <2>5 DEF Drain, ReadSocket, PopNotice, NoticesEmpty, PopAbandoned, Pop,
                Claim, Build, BuildRaises, QueueEmpty, RewakeIfPending,
                RewakeCheck, wakeVars
  <2>6. CASE (\E r \in Requests : Finish(r)) \/ Tick \/ UNCHANGED vars
    BY <2>6 DEF Finish, Tick, vars, wakeVars
  <2> QED
    BY <1>1, <2>1, <2>2, <2>3, <2>4, <2>5, <2>6 DEF Next, Wake
<1> QED BY <1>1, EpisodeAlways, PTL DEF Spec, StallClockKept

-----------------------------------------------------------------------------
(* When no constructor raises, each step leaves a wake coming for whatever *)
(* is queued where the loop will not look again in this drain.             *)
LEMMA NextNothingForgotten ==
  ASSUME Raising = {}, TypeInv, EpisodeInv, NothingForgotten, [Next]_vars
  PROVE  NothingForgotten'
<1> USE WakeQueueAssumption
        DEF TypeInv, TypeOK, HoldingOK, Threads, PastQueue, Past, Checking, Goto
<1>1. ASSUME NEW p \in Pushers, Pusher(p) PROVE NothingForgotten'
  <2>1. p # Loop /\ pc'[Loop] = pc[Loop] /\ notified' = notified
    BY <1>1 DEF Pusher, TryPush, Admit, Refuse, Push, PushNotice, wakeVars
  <2>2. \A t \in Threads : pc[t] = "swap" => pc'[t] = "swap"
    BY <1>1 DEF Pusher, TryPush, Admit, Refuse, Push, PushNotice
  <2>3. CASE pc'[p] = "swap"
    BY <2>3 DEF NothingForgotten, WakeComing
  <2>4. CASE pc'[p] # "swap"
    <3>1. UNCHANGED mailbox
      BY <1>1, <2>4 DEF Pusher, TryPush, Admit, Refuse, Push, PushNotice
    <3> QED BY <2>1, <2>2, <3>1 DEF NothingForgotten, WakeComing, mailbox
  <2> QED BY <2>3, <2>4
<1>2. ASSUME NEW t \in Threads, SwapNotified(t) PROVE NothingForgotten'
  BY <1>2 DEF SwapNotified, NothingForgotten, WakeComing
<1>3. ASSUME NEW t \in Threads, Stamp(t) \/ WriteByte(t)
      PROVE  NothingForgotten'
  <2>1. t \in Waking /\ notified' = notified
    BY <1>3 DEF Stamp, WriteByte, Waking
  <2>2. notified
    BY <2>1 DEF EpisodeInv, OneEpisode
  <2> QED BY <2>1, <2>2 DEF NothingForgotten, WakeComing
<1>4. CASE ReadSocket \/ ClearNotified
  <2>1. pc'[Loop] \in {"clear_at", "clear_flag", "wakeup"}
    BY <1>4 DEF ReadSocket, ClearNotified
  <2> QED BY <2>1 DEF NothingForgotten
<1>5. ASSUME NEW k \in Notices, PopNotice(k) \/ NoticesEmpty(k)
      PROVE  NothingForgotten'
  <2>1. UNCHANGED <<queue, notified>>
    BY <1>5 DEF PopNotice, NoticesEmpty, mailbox, wakeVars
  <2>2. CASE PopNotice(k)
    BY <2>1, <2>2 DEF PopNotice, NothingForgotten, WakeComing
  <2>3. CASE NoticesEmpty(k)
    <3>1. \A t \in Threads : pc[t] = "swap" => pc'[t] = "swap"
      BY <2>3 DEF NoticesEmpty
    <3> QED
      BY <2>1, <2>3, <3>1 DEF NoticesEmpty, AfterNotices, mailbox,
                              NothingForgotten, WakeComing
  <2> QED BY <1>5, <2>2, <2>3
<1>6. CASE PopAbandoned \/ Pop \/ Claim \/ Build \/ QueueEmpty
  <2>1. UNCHANGED <<notices, notified>>
    BY <1>6 DEF PopAbandoned, Pop, Claim, Build, QueueEmpty, mailbox, wakeVars
  <2>2. \A t \in Threads : pc[t] = "swap" => pc'[t] = "swap"
    BY <1>6 DEF PopAbandoned, Pop, Claim, Build, QueueEmpty
  <2>3. pc[Loop] \in {"pop", "claim", "build"}
    BY <1>6 DEF PopAbandoned, Pop, Claim, Build, QueueEmpty
  <2>4. pc'[Loop] \in {"pop", "claim", "build"} \/ queue' = <<>>
    BY <1>6 DEF PopAbandoned, Pop, Claim, Build, QueueEmpty, mailbox
  <2> QED BY <2>1, <2>2, <2>3, <2>4 DEF NothingForgotten, WakeComing
<1>7. CASE RewakeIfPending
  <2>1. UNCHANGED <<queue, notices, notified>>
    BY <1>7 DEF RewakeIfPending, RewakeCheck, mailbox, wakeVars
  <2>2. \A t \in Threads : pc[t] = "swap" => pc'[t] = "swap"
    BY <1>7 DEF RewakeIfPending, RewakeCheck
  <2>3. pc[Loop] \in Checking
    BY <1>7 DEF RewakeIfPending, RewakeCheck
  <2> QED BY <2>1, <2>2, <2>3 DEF NothingForgotten, WakeComing
<1>8. CASE (\E r \in Requests : Finish(r)) \/ Tick \/ UNCHANGED vars
  <2>1. UNCHANGED <<queue, notices, notified, pc>>
    BY <1>8 DEF Finish, Tick, vars, mailbox, wakeVars
  <2> QED BY <2>1 DEF NothingForgotten, WakeComing
<1>9. ~BuildRaises
  BY DEF BuildRaises
<1> QED
  BY <1>1, <1>2, <1>3, <1>4, <1>5, <1>6, <1>7, <1>8, <1>9
     DEF Next, Wake, Drain

(* If every request's Python objects can be built, the loop is never in    *)
(* its selector with something queued and no wake byte unread or on its    *)
(* way: the protocol of queue.rs loses no wakeup.                          *)
THEOREM WakeupsKept ==
  ASSUME Raising = {} PROVE Spec => []NoLostWakeup
<1>1. Init => NothingForgotten
  BY DEF Init, NothingForgotten
<1>2. TypeInv /\ EpisodeInv /\ NothingForgotten => NoLostWakeup
  <2> SUFFICES ASSUME TypeInv, EpisodeInv, NothingForgotten,
                      pc[Loop] = "idle", Pending, bytes = 0
               PROVE  InWake # {}
    BY DEF NoLostWakeup, TypeInv, TypeOK
  <2>1. WakeComing
    BY DEF NothingForgotten, Pending, PastQueue, Past
  <2>2. ~Clearing
    BY DEF Clearing
  <2>3. CASE notified
    BY <2>2, <2>3 DEF EpisodeInv, OneEpisode, Waking, InWake
  <2>4. CASE \E t \in Threads : pc[t] = "swap"
    BY <2>4 DEF InWake
  <2> QED BY <2>1, <2>3, <2>4 DEF WakeComing
<1>3. TypeInv /\ EpisodeInv /\ NothingForgotten /\ [Next]_vars
         => NothingForgotten'
  BY NextNothingForgotten
<1> QED BY <1>1, <1>2, <1>3, EpisodeAlways, PTL DEF Spec

-----------------------------------------------------------------------------
(* The threads that may still push are a finite set, no larger than all.   *)
LEMMA MayPushFinite ==
  ASSUME NEW d \in Int
  PROVE  /\ IsFiniteSet(MayPush(d))
         /\ Cardinality(MayPush(d)) \in Nat
         /\ Cardinality(MayPush(d)) <= Cardinality(Pushers)
         /\ Cardinality(Pushers) \in Nat
<1>1. MayPush(d) \in SUBSET Pushers /\ IsFiniteSet(Pushers)
  BY WakeQueueAssumption DEF MayPush
<1>2. /\ IsFiniteSet(MayPush(d))
      /\ Cardinality(MayPush(d)) <= Cardinality(Pushers)
  BY <1>1, FS_Subset, Zenon
<1> QED BY <1>1, <1>2, FS_CardinalityType

(* The arithmetic of BoundCarries and of the steps that use it.            *)
LEMMA Transfer ==
  ASSUME NEW t \in Int, NEW u \in Int, NEW m \in Int, NEW n \in Int,
         NEW l \in Int, NEW k \in Int, NEW d \in Int, NEW e \in Int,
         u + e <= t + d, n <= m, t + m <= l + k + e
  PROVE  u + n <= l + k + d
  OBVIOUS

(* has_room() after a step admits only whom it admitted before it, with e  *)
(* in place of d: the arithmetic of MayPush.                               *)
LEMMA TransferRoom ==
  ASSUME NEW s \in Int, NEW i \in Int, NEW j \in Int, NEW l \in Int,
         NEW d \in Int, NEW e \in Int, s + j < l + d, i + d <= j + e
  PROVE  s + i < l + e
  OBVIOUS

(* If nobody new may push and the true load has not grown, the bound that  *)
(* held for e releases holds for d releases afterwards.                    *)
LEMMA BoundCarries ==
  ASSUME TypeInv, TypeInv', OvershootBounded,
         NEW e \in 0 .. inflight, NEW d \in Int,
         TrueLoad' + e <= TrueLoad + d,
         MayPush(d)' \subseteq MayPush(e)
  PROVE  TrueLoad' + Cardinality(MayPush(d)') <= Limit + Cardinality(Pushers) + d
<1>1. IsFiniteSet(MayPush(e)) /\ MayPush(d)' \in SUBSET MayPush(e)
  BY MayPushFinite
<1>2. Cardinality(MayPush(d)') <= Cardinality(MayPush(e)) /\ IsFiniteSet(MayPush(d)')
  BY <1>1, FS_Subset, Zenon
<1>3. /\ Cardinality(MayPush(d)') \in Nat /\ Cardinality(MayPush(e)) \in Nat
      /\ Cardinality(Pushers) \in Nat
  BY <1>2, MayPushFinite, FS_CardinalityType
<1>4. TrueLoad + Cardinality(MayPush(e)) <= Limit + Cardinality(Pushers) + e
  BY DEF OvershootBounded
<1>5. TrueLoad \in Int /\ TrueLoad' \in Int /\ Limit \in Int /\ e \in Int
  BY WakeQueueAssumption, LenProperties
     DEF TypeInv, TypeOK, TrueLoad, Unclaimed
<1>6. /\ Cardinality(MayPush(d)') \in Int /\ Cardinality(MayPush(e)) \in Int
      /\ Cardinality(Pushers) \in Int
  BY <1>3
<1> QED BY <1>2, <1>4, <1>5, <1>6, Transfer

(* Every step keeps the overshoot within one request per tokio thread.     *)
LEMMA NextOvershootBounded ==
  ASSUME TypeInv, TypeInv', OvershootBounded, [Next]_vars
  PROVE  OvershootBounded'
<1> USE WakeQueueAssumption
<1> SUFFICES ASSUME NEW d \in 0 .. inflight'
      PROVE TrueLoad' + Cardinality(MayPush(d)') <= Limit + Cardinality(Pushers) + d
  BY DEF OvershootBounded
<1>i. inflight \in Nat /\ inflight' \in Nat /\ Len(queue) \in Nat /\ Limit \in Nat
  BY LenProperties DEF TypeInv, TypeOK
<1>l. Loop \notin Pushers /\ Loop \in Threads /\ \A p \in Pushers : p \in Threads
  BY DEF Threads
<1>1. ASSUME NEW p \in Pushers, NEW r \in Requests, TryPush(p, r)
      PROVE TrueLoad' + Cardinality(MayPush(d)') <= Limit + Cardinality(Pushers) + d
  <2>1. /\ UNCHANGED <<inflight, queue>> /\ pc[p] = "idle"
        /\ pc' = [pc EXCEPT ![p] = "load"]
        /\ seen' = [seen EXCEPT ![p] = Len(queue)]
    BY <1>1 DEF TryPush, Goto, mailbox
  <2>2. TrueLoad' = TrueLoad /\ TrueLoad \in Int
    BY <2>1, <1>i, <1>l DEF TrueLoad, Unclaimed, TypeInv, TypeOK
  <2>3. CASE TrueLoad <= Limit + d
    <3>1. /\ Cardinality(MayPush(d)') <= Cardinality(Pushers)
          /\ Cardinality(MayPush(d)') \in Nat /\ Cardinality(Pushers) \in Nat
      <4>1. MayPush(d)' \in SUBSET Pushers /\ IsFiniteSet(Pushers)
        BY DEF MayPush
      <4> QED BY <4>1, FS_Subset, FS_CardinalityType
    <3> QED BY <2>2, <2>3, <3>1, <1>i
  <2>4. CASE TrueLoad > Limit + d
    <3>1. ~(Len(queue) + inflight < Limit + d)
      BY <2>4, <1>i DEF TrueLoad, Unclaimed
    <3>2. MayPush(d)' \subseteq MayPush(d)
      BY <2>1, <3>1, <1>l DEF MayPush, TypeInv, TypeOK
    <3> QED BY <2>1, <2>2, <3>2, <1>i, BoundCarries
  <2> QED BY <2>2, <2>3, <2>4, <1>i
<1>2. ASSUME NEW p \in Pushers, Push(p)
      PROVE TrueLoad' + Cardinality(MayPush(d)') <= Limit + Cardinality(Pushers) + d
  <2>1. /\ UNCHANGED <<inflight, seen>> /\ pc[p] = "push"
        /\ pc' = [pc EXCEPT ![p] = "swap"]
        /\ queue' = Append(queue, holding[p])
        /\ holding[p] \in Requests
    BY <1>2 DEF Push, Goto, TypeInv, HoldingOK
  <2>2. TrueLoad' = TrueLoad + 1 /\ TrueLoad \in Int
    <3>1. Len(queue') = Len(queue) + 1
      BY <2>1, AppendProperties DEF TypeInv, TypeOK
    <3>2. pc'[Loop] = pc[Loop]
      BY <2>1, <1>l DEF TypeInv, TypeOK
    <3> QED BY <2>1, <3>1, <3>2, <1>i DEF TrueLoad, Unclaimed
  <2>3. MayPush(d)' = MayPush(d) \ {p} /\ p \in MayPush(d)
    BY <2>1, <1>l DEF MayPush, TypeInv, TypeOK
  <2>4. IsFiniteSet(MayPush(d)) /\ Cardinality(MayPush(d)) \in Nat
        /\ Cardinality(Pushers) \in Nat
    BY MayPushFinite
  <2>5. Cardinality(MayPush(d)') = Cardinality(MayPush(d)) - 1
    <3>1. Cardinality(MayPush(d) \ {p}) = Cardinality(MayPush(d)) - 1
      BY <2>3, <2>4, FS_RemoveElement
    <3> QED BY <2>3, <3>1
  <2>6. TrueLoad + Cardinality(MayPush(d)) <= Limit + Cardinality(Pushers) + d
    BY <2>1 DEF OvershootBounded
  <2> QED BY <2>2, <2>4, <2>5, <2>6, <1>i
<1>3. ASSUME NEW e \in 0 .. inflight, TrueLoad' + e <= TrueLoad + d,
             inflight + d <= inflight' + e,
             \A p \in Pushers : /\ seen'[p] = seen[p]
                                /\ pc'[p] \in {"load", "push"} => pc'[p] = pc[p]
      PROVE TrueLoad' + Cardinality(MayPush(d)') <= Limit + Cardinality(Pushers) + d
  <2>1. \A p \in Pushers : seen[p] \in Nat
    BY DEF TypeInv, TypeOK
  <2>2. MayPush(d)' \subseteq MayPush(e)
    <3> SUFFICES ASSUME NEW p \in Pushers, p \in MayPush(d)' PROVE p \in MayPush(e)
      BY DEF MayPush
    <3>1. CASE pc'[p] = "push"
      BY <1>3, <3>1 DEF MayPush
    <3>2. CASE pc'[p] = "load" /\ seen'[p] + inflight' < Limit + d
      <4>1. pc[p] = "load" /\ seen[p] + inflight' < Limit + d
        BY <1>3, <3>2
      <4>2. seen[p] + inflight < Limit + e
        <5>1. /\ seen[p] \in Int /\ inflight \in Int /\ inflight' \in Int
              /\ Limit \in Int /\ d \in Int /\ e \in Int
          BY <2>1, <1>i, <1>3
        <5> QED BY <5>1, <4>1, <1>3, TransferRoom
      <4> QED BY <4>1, <4>2 DEF MayPush
    <3> QED BY <3>1, <3>2 DEF MayPush
  <2> QED BY <1>3, <2>2, BoundCarries
<1>4. ASSUME NEW p \in Pushers, Admit(p)
      PROVE TrueLoad' + Cardinality(MayPush(d)') <= Limit + Cardinality(Pushers) + d
  <2>1. /\ UNCHANGED <<inflight, seen, queue>>
        /\ pc[p] = "load" /\ seen[p] + inflight < Limit
        /\ pc' = [pc EXCEPT ![p] = "push"]
    BY <1>4 DEF Admit, HasRoom, Goto, mailbox
  <2>2. MayPush(d)' \subseteq MayPush(d)
    <3>1. seen[p] \in Nat /\ p \in MayPush(d)
      <4>1. seen[p] \in Nat
        BY DEF TypeInv, TypeOK
      <4>2. seen[p] + inflight < Limit + d
        BY <4>1, <2>1, <1>i
      <4> QED BY <4>1, <4>2, <2>1 DEF MayPush
    <3>2. ASSUME NEW q \in Pushers, q \in MayPush(d)', q # p
          PROVE  q \in MayPush(d)
      <4>1. pc'[q] = pc[q]
        BY <2>1, <3>2, <1>l DEF TypeInv, TypeOK
      <4> QED BY <2>1, <3>2, <4>1 DEF MayPush
    <3> QED BY <3>1, <3>2 DEF MayPush
  <2>3. TrueLoad' = TrueLoad /\ TrueLoad \in Int
    BY <2>1, <1>i, <1>l DEF TrueLoad, Unclaimed, TypeInv, TypeOK
  <2> QED BY <2>1, <2>2, <2>3, <1>i, BoundCarries
<1>5. ASSUME UNCHANGED <<inflight, queue, seen>>,
             (pc'[Loop] = "claim") <=> (pc[Loop] = "claim"),
             \A p \in Pushers : pc'[p] \in {"load", "push"} => pc'[p] = pc[p]
      PROVE TrueLoad' + Cardinality(MayPush(d)') <= Limit + Cardinality(Pushers) + d
  <2>1. TrueLoad' = TrueLoad /\ TrueLoad \in Int
    BY <1>5, <1>i DEF TrueLoad, Unclaimed
  <2>2. inflight' = inflight
    BY <1>5
  <2>3. d \in 0 .. inflight /\ inflight + d <= inflight' + d
    BY <2>2, <1>i
  <2>4. TrueLoad' + d <= TrueLoad + d
    <3>1. d \in Int
      BY <2>3
    <3> QED BY <3>1, <2>1
  <2>5. \A p \in Pushers : /\ seen'[p] = seen[p]
                           /\ pc'[p] \in {"load", "push"} => pc'[p] = pc[p]
    BY <1>5
  <2> QED BY <1>3, <2>3, <2>4, <2>5
<1>6. ASSUME NEW p \in Pushers, Refuse(p) \/ \E k \in Notices : PushNotice(p, k)
      PROVE TrueLoad' + Cardinality(MayPush(d)') <= Limit + Cardinality(Pushers) + d
  <2>1. UNCHANGED <<inflight, queue, seen>>
    BY <1>6 DEF Refuse, PushNotice, mailbox
  <2>2. \E to \in Pcs \ {"load", "push", "claim"} : pc' = [pc EXCEPT ![p] = to]
    BY <1>6 DEF Refuse, PushNotice, Goto, Pcs
  <2>3. /\ (pc'[Loop] = "claim") <=> (pc[Loop] = "claim")
        /\ \A q \in Pushers : pc'[q] \in {"load", "push"} => pc'[q] = pc[q]
    BY <1>l, <2>2 DEF TypeInv, TypeOK
  <2> QED BY <1>5, <2>1, <2>3
<1>7. ASSUME NEW t \in Threads, Wake(t)
      PROVE TrueLoad' + Cardinality(MayPush(d)') <= Limit + Cardinality(Pushers) + d
  BY <1>5, <1>7, <1>l
     DEF Wake, SwapNotified, Stamp, WriteByte, Goto, mailbox, TypeInv, TypeOK
<1>8. CASE ReadSocket \/ ClearNotified \/ QueueEmpty \/ RewakeIfPending
           \/ Build \/ BuildRaises
           \/ \E k \in Notices : PopNotice(k) \/ NoticesEmpty(k)
  <2>1. UNCHANGED <<inflight, queue, seen>>
    BY <1>8 DEF ReadSocket, ClearNotified, QueueEmpty, RewakeIfPending,
                RewakeCheck, Build, BuildRaises, PopNotice, NoticesEmpty, mailbox
  <2>2. PICK c \in {"clear_at", "clear_flag", "wakeup", "cancel", "pop", "idle",
                     "swap", "check_queue", "check_wakeup", "check_cancel"} :
           pc[Loop] # "claim" /\ pc' = [pc EXCEPT ![Loop] = c]
    BY <1>8 DEF ReadSocket, ClearNotified, QueueEmpty, RewakeIfPending, Goto,
                RewakeCheck, Build, BuildRaises, PopNotice, NoticesEmpty,
                AfterNotices, TypeInv, TypeOK
  <2> QED BY <1>5, <1>l, <2>1, <2>2 DEF TypeInv, TypeOK
<1>9. CASE PopAbandoned \/ Pop
  <2>1. /\ Len(queue') = Len(queue) - 1 /\ UNCHANGED <<inflight, seen>>
        /\ pc[Loop] = "pop"
        /\ pc' = pc \/ pc' = [pc EXCEPT ![Loop] = "claim"]
    BY <1>9, HeadTailProperties DEF PopAbandoned, Pop, Goto, TypeInv, TypeOK
  <2>2. TrueLoad' <= TrueLoad /\ TrueLoad \in Int /\ TrueLoad' \in Int
    BY <2>1, <1>i, <1>l DEF TrueLoad, Unclaimed, TypeInv, TypeOK
  <2>3. \A p \in Pushers : pc'[p] = pc[p]
    BY <2>1, <1>l DEF TypeInv, TypeOK
  <2>4. /\ d \in 0 .. inflight /\ inflight + d <= inflight' + d
        /\ TrueLoad' + d <= TrueLoad + d
    <3>1. inflight' = inflight
      BY <2>1
    <3>2. d \in 0 .. inflight /\ d \in Int
      BY <3>1, <1>i
    <3>3. \A x, y, z \in Int : x <= y => x + z <= y + z
      OBVIOUS
    <3>4. TrueLoad' + d <= TrueLoad + d
      BY <3>2, <3>3, <2>2
    <3> QED BY <3>1, <3>2, <3>4, <1>i
  <2> QED BY <1>3, <2>1, <2>3, <2>4
<1>10. CASE Claim
  <2>1. /\ inflight' = inflight + 1 /\ UNCHANGED <<queue, seen>>
        /\ pc[Loop] = "claim" /\ pc' = [pc EXCEPT ![Loop] = "build"]
    BY <1>10 DEF Claim, Goto, mailbox
  <2>2. TrueLoad' = TrueLoad /\ TrueLoad \in Int
    <3>1. pc'[Loop] = "build"
      BY <2>1, <1>l DEF TypeInv, TypeOK
    <3>2. Unclaimed = 1 /\ Unclaimed' = 0
      BY <2>1, <3>1 DEF Unclaimed
    <3>3. Len(queue') = Len(queue) /\ inflight' = inflight + 1
      BY <2>1
    <3> QED BY <3>2, <3>3, <1>i DEF TrueLoad
  <2>3. \A p \in Pushers : pc'[p] = pc[p]
    BY <2>1, <1>l DEF TypeInv, TypeOK
  <2>4. PICK e \in 0 .. inflight : e <= d /\ d <= e + 1
    <3>1. CASE d = 0
      BY <3>1, <1>i
    <3>2. CASE d # 0
      <4>1. d - 1 \in 0 .. inflight
        BY <3>2, <2>1, <1>i
      <4> QED BY <4>1
    <3> QED BY <3>1, <3>2
  <2>5. inflight + d <= inflight' + e /\ TrueLoad' + e <= TrueLoad + d
    BY <2>1, <2>2, <2>4, <1>i
  <2> QED BY <1>3, <2>1, <2>3, <2>4, <2>5
<1>11. ASSUME NEW r \in Requests, Finish(r)
      PROVE TrueLoad' + Cardinality(MayPush(d)') <= Limit + Cardinality(Pushers) + d
  <2>1. inflight' = inflight - 1 /\ UNCHANGED <<queue, seen, pc>>
    BY <1>11 DEF Finish, mailbox
  <2>2. TrueLoad' = TrueLoad - 1 /\ TrueLoad \in Int
    BY <2>1, <1>i DEF TrueLoad, Unclaimed
  <2>3. d + 1 \in 0 .. inflight
    BY <2>1, <1>i
  <2>4. TrueLoad' + (d + 1) <= TrueLoad + d /\ inflight + d <= inflight' + (d + 1)
    <3>1. d \in Int
      BY <1>i
    <3> QED BY <3>1, <2>1, <2>2, <1>i
  <2>5. \A p \in Pushers : /\ seen'[p] = seen[p]
                           /\ pc'[p] \in {"load", "push"} => pc'[p] = pc[p]
    BY <2>1
  <2> QED BY <1>3, <2>3, <2>4, <2>5
<1>12. CASE Tick \/ UNCHANGED vars
  BY <1>5, <1>12 DEF Tick, vars, mailbox
<1> QED
  BY <1>1, <1>2, <1>4, <1>6, <1>7, <1>8, <1>9, <1>10, <1>11, <1>12
     DEF Next, Pusher, Drain

(* Queued, popped and in-flight requests together exceed max_concurrency   *)
(* by at most the number of tokio threads, however has_room() races.       *)
THEOREM LoadStaysBounded == Spec => []LoadBounded
<1>1. Init => OvershootBounded
  <2> SUFFICES ASSUME Init, NEW d \in 0 .. inflight
               PROVE  TrueLoad + Cardinality(MayPush(d)) <= Limit + Cardinality(Pushers) + d
    BY DEF OvershootBounded
  <2>1. d = 0 /\ TrueLoad = 0
    BY WakeQueueAssumption DEF Init, TrueLoad, Unclaimed, Threads
  <2> QED BY <2>1, MayPushFinite, WakeQueueAssumption
<1>2. TypeInv /\ TypeInv' /\ OvershootBounded /\ [Next]_vars => OvershootBounded'
  BY NextOvershootBounded
<1>3. TypeInv /\ OvershootBounded => LoadBounded
  <2> SUFFICES ASSUME TypeInv, OvershootBounded PROVE LoadBounded
    OBVIOUS
  <2>1. 0 \in 0 .. inflight /\ TrueLoad \in Int
    BY LenProperties DEF TypeInv, TypeOK, TrueLoad, Unclaimed
  <2> QED BY <2>1, MayPushFinite, WakeQueueAssumption
             DEF OvershootBounded, LoadBounded
<1> QED BY <1>1, <1>2, <1>3, InitTypeInv, NextTypeInv, PTL DEF Spec

-----------------------------------------------------------------------------
(* The safety half of the refinement: whatever the threads do, requests    *)
(* leave the mailbox in the order they were pushed, each once, and no      *)
(* notice is lost or invented.                                             *)
THEOREM MailboxSafety == Spec => Mailbox!SafetySpec
<1>1. Init => Mailbox!Init
  BY DEF Init, Mailbox!Init
<1>2. ASSUME TypeInv, [Next]_vars
      PROVE  [Mailbox!Next]_(Mailbox!mailboxVars)
  <2> USE WakeQueueAssumption DEF Mailbox!mailboxVars
  <2>1. ASSUME NEW p \in Pushers, Push(p)
        PROVE  \E r \in Requests : Mailbox!Post(r)
    BY <1>2, <2>1 DEF Push, Goto, Mailbox!Post, TypeInv, HoldingOK
  <2>2. ASSUME NEW p \in Pushers, NEW k \in Notices, PushNotice(p, k)
        PROVE  Mailbox!PostNotice(k)
    BY <2>2 DEF PushNotice, Mailbox!PostNotice
  <2>3. ASSUME NEW k \in Notices, PopNotice(k) PROVE Mailbox!TakeNotice(k)
    BY <2>3 DEF PopNotice, Mailbox!TakeNotice
  <2>4. ASSUME PopAbandoned \/ Pop PROVE Mailbox!Take
    BY <2>4 DEF PopAbandoned, Pop, Mailbox!Take
  <2>5. ASSUME NEW p \in Pushers,
               Admit(p) \/ Refuse(p) \/ \E r \in Requests : TryPush(p, r)
        PROVE  UNCHANGED Mailbox!mailboxVars
    BY <2>5 DEF Admit, Refuse, TryPush, mailbox
  <2>6. ASSUME NEW t \in Threads, Wake(t) PROVE UNCHANGED Mailbox!mailboxVars
    BY <2>6 DEF Wake, SwapNotified, Stamp, WriteByte, mailbox
  <2>7. ASSUME ReadSocket \/ ClearNotified \/ Claim \/ Build \/ BuildRaises
               \/ QueueEmpty \/ RewakeIfPending
               \/ \E k \in Notices : NoticesEmpty(k)
        PROVE  UNCHANGED Mailbox!mailboxVars
    BY <2>7 DEF ReadSocket, ClearNotified, Claim, Build, BuildRaises,
                QueueEmpty, RewakeIfPending, RewakeCheck, NoticesEmpty, mailbox
  <2>8. CASE (\E r \in Requests : Finish(r)) \/ Tick \/ UNCHANGED vars
    BY <2>8 DEF Finish, Tick, vars, mailbox
  <2> QED
    BY <1>2, <2>1, <2>2, <2>3, <2>4, <2>5, <2>6, <2>7, <2>8
       DEF Next, Pusher, Drain, Mailbox!Next
<1> QED
  BY <1>1, <1>2, InitTypeInv, NextTypeInv, PTL DEF Spec, Mailbox!SafetySpec

=============================================================================
