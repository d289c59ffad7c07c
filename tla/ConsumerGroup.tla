---------------------------- MODULE ConsumerGroup ----------------------------
(***************************************************************************)
(* The members of one consumer group on a durable topic (Consumer and      *)
(* RedisBackend in src/python/oxbrook/_redis.py).  Redis keeps the stream, *)
(* how far the group has read it, and the entries delivered and not        *)
(* acknowledged with their holders; a member keeps a buffer and whether it *)
(* is still recovering what it held before it died.  A step is a Redis     *)
(* command as the server executes it, or the application's doing.          *)
(***************************************************************************)
EXTENDS Naturals, FiniteSets, FiniteSetsExt

CONSTANTS
    Members,
    Nobody,
    Mortal,        \* members that may die
    Count,         \* entries per command (count=32)
    ClaimAfter,    \* claim_after_ms, in ticks; 0 is None
    MaxEntries,    \* bound: entries appended
    MaxTrims,      \* bound: entries trimmed away
    MaxDeaths,     \* bound: members that die
    MaxFails,      \* bound: messages a handler does not acknowledge
    MaxLost        \* bound: replies lost with their connection

ASSUME GroupAssumption ==
    /\ Nobody \notin Members /\ Mortal \subseteq Members
    /\ Count \in Nat \ {0} /\ ClaimAfter \in Nat
    /\ MaxEntries \in Nat /\ MaxTrims \in Nat /\ MaxDeaths \in Nat
    /\ MaxFails \in Nat /\ MaxLost \in Nat

Entries == 1 .. MaxEntries

VARIABLES
    added,         \* entries appended so far
    trimmed,       \* oldest entries no longer in the stream
    group,         \* the group exists
    read,          \* the group's last delivered id
    holder,        \* per entry: who holds it pending, or Nobody
    idle,          \* per entry: ticks since it was last delivered
    acked,         \* entries acknowledged
    member,        \* per member: where it is in __anext__ and _fill
    recovering,    \* per member: _recovering
    closed,        \* per member: _closed
    buffer,        \* per member: _buffer; filled when empty, in stream order
    hand,          \* per member: the message the application has, or 0
    before,        \* history: held when it came up and not handed out since
    cut,           \* history: its recovery ended on a page that was all trimmed
    deaths, fails, losses

streamVars == <<added, trimmed>>
pendingVars == <<group, read, holder, idle>>
history == <<before, cut>>
memberVars == <<member, recovering, closed, buffer, hand, history>>
counts == <<deaths, fails, losses>>
vars == <<streamVars, pendingVars, acked, memberVars, counts>>

Set(f, x, v) == [f EXCEPT ![x] = v]
Present(e) == trimmed < e /\ e <= added
Pending(m) == {e \in Entries : holder[e] = m}

(* The Count smallest of a set of entries.                                 *)
Oldest(S) == {e \in S : Cardinality({f \in S : f < e}) < Count}

(* Redis delivers entries to m: pending with it, and idle no more.         *)
Hold(m, es) ==
    /\ holder' = [e \in Entries |-> IF e \in es THEN m ELSE holder[e]]
    /\ idle' = [e \in Entries |-> IF e \in es THEN 0 ELSE idle[e]]

(* _absorb: what is no longer in the stream comes without its fields and   *)
(* is left out.                                                            *)
Absorbed(es) == {e \in es : Present(e)}

-----------------------------------------------------------------------------
(* The stream                                                              *)

Publish ==
    /\ added < MaxEntries
    /\ added' = added + 1
    /\ UNCHANGED <<trimmed, pendingVars, acked, memberVars, counts>>

Trim ==
    /\ trimmed < MaxTrims /\ trimmed < added
    /\ trimmed' = trimmed + 1
    /\ UNCHANGED <<added, pendingVars, acked, memberVars, counts>>

Tick ==
    /\ \E e \in Entries : holder[e] # Nobody /\ idle[e] < ClaimAfter
    /\ idle' = [e \in Entries |-> IF holder[e] # Nobody /\ idle[e] < ClaimAfter
                                  THEN idle[e] + 1 ELSE idle[e]]
    /\ UNCHANGED <<streamVars, group, read, holder, acked, memberVars, counts>>

-----------------------------------------------------------------------------
(* Members                                                                 *)

(* start: ensure_group, where finding the group there is no error; a new   *)
(* group sees everything still in the stream.                              *)
Start(m) ==
    /\ member[m] = "down"
    /\ group' = TRUE
    /\ member' = Set(member, m, "next")
    /\ recovering' = Set(recovering, m, TRUE)
    /\ closed' = Set(closed, m, FALSE)
    /\ buffer' = Set(buffer, m, {})
    /\ hand' = Set(hand, m, 0)
    /\ before' = Set(before, m, Pending(m))
    /\ cut' = Set(cut, m, FALSE)
    /\ UNCHANGED <<streamVars, read, holder, idle, acked, counts>>

(* __anext__ with something buffered.                                      *)
Take(m) ==
    /\ member[m] = "next" /\ hand[m] = 0 /\ buffer[m] # {}
    /\ LET e == Min(buffer[m]) IN
          /\ hand' = Set(hand, m, e)
          /\ buffer' = Set(buffer, m, buffer[m] \ {e})
          /\ before' = Set(before, m, before[m] \ {e})
    /\ UNCHANGED <<streamVars, pendingVars, acked, member, recovering, closed, cut,
                   counts>>

Fill(m) ==
    /\ member[m] = "next" /\ hand[m] = 0 /\ buffer[m] = {}
    /\ member' = Set(member, m, IF closed[m] THEN "ended"
                                ELSE IF recovering[m] THEN "recover" ELSE "claim")
    /\ UNCHANGED <<streamVars, pendingVars, acked, recovering, closed, buffer, hand,
                   history, counts>>

(* Mutant of EndsRecovery: there is no second page.                        *)
EndsAtOnce(some) == TRUE

(* "0" reads this member's own pending entries from the oldest on, and     *)
(* recovery is over when none of that page still has its fields.           *)
EndsRecovery(some) == some = {}

Recover(m) ==
    /\ member[m] = "recover"
    /\ LET page == Oldest(Pending(m))
           some == Absorbed(page)
       IN  /\ Hold(m, some)
           /\ buffer' = Set(buffer, m, some)
           /\ member' = Set(member, m, IF some = {} THEN "claim" ELSE "next")
           /\ recovering' = Set(recovering, m, ~EndsRecovery(some))
           /\ cut' = Set(cut, m, some = {} /\ Cardinality(page) >= Count)
    /\ UNCHANGED <<streamVars, group, read, acked, closed, hand, before, counts>>

(* Mutant of Claim: nobody takes over from a member that died.             *)
ClaimNothing(m) ==
    /\ member[m] = "claim"
    /\ member' = Set(member, m, "read")
    /\ UNCHANGED <<streamVars, pendingVars, acked, recovering, closed, buffer, hand,
                   history, counts>>

(* XAUTOCLAIM from the beginning: entries idle for long enough change      *)
(* hands, deleted ones stop being pending.                                 *)
Claim(m) ==
    /\ member[m] = "claim"
    /\ LET es == IF ClaimAfter = 0 THEN {}
                 ELSE Oldest({e \in Entries :
                                 holder[e] # Nobody /\ idle[e] >= ClaimAfter})
           some == Absorbed(es)
       IN  /\ holder' = [e \in Entries |->
                            IF e \notin es THEN holder[e]
                            ELSE IF Present(e) THEN m ELSE Nobody]
           /\ idle' = [e \in Entries |-> IF e \in es THEN 0 ELSE idle[e]]
           /\ buffer' = Set(buffer, m, some)
           /\ member' = Set(member, m, IF some = {} THEN "read" ELSE "next")
    /\ UNCHANGED <<streamVars, group, read, acked, recovering, closed, hand, history,
                   counts>>

(* ">" reads what nobody in the group has been given, and waits for it     *)
(* until block_ms have passed.  A reply lost with its connection leaves    *)
(* the entries pending with a member that never saw them; redis-py asks    *)
(* again.                                                                  *)
ReadNew(m) ==
    /\ member[m] = "read"
    /\ LET es == Oldest({e \in Entries : Present(e) /\ e > read}) IN
          /\ Hold(m, es)
          /\ read' = IF es = {} THEN read ELSE Max(es)
          /\ \/ /\ buffer' = Set(buffer, m, es)
                /\ member' = Set(member, m, "next")
                /\ UNCHANGED losses
             \/ /\ es # {} /\ losses < MaxLost
                /\ losses' = losses + 1
                /\ UNCHANGED <<buffer, member>>
    /\ UNCHANGED <<streamVars, group, acked, recovering, closed, hand, history,
                   deaths, fails>>

(* The application is done with its message, or goes on without            *)
(* acknowledging it.                                                       *)
Ack(m) ==
    /\ hand[m] # 0
    /\ holder' = Set(holder, hand[m], Nobody)
    /\ acked' = acked \cup {hand[m]}
    /\ hand' = Set(hand, m, 0)
    /\ UNCHANGED <<streamVars, group, read, idle, member, recovering, closed, buffer,
                   history, counts>>

LeaveUnacked(m) ==
    /\ hand[m] # 0 /\ fails < MaxFails
    /\ fails' = fails + 1
    /\ hand' = Set(hand, m, 0)
    /\ UNCHANGED <<streamVars, pendingVars, acked, member, recovering, closed,
                   buffer, history, deaths, losses>>

(* close: what is buffered is still handed out.                            *)
Close(m) ==
    /\ m \in Mortal /\ member[m] # "down" /\ ~closed[m]
    /\ closed' = Set(closed, m, TRUE)
    /\ UNCHANGED <<streamVars, pendingVars, acked, member, recovering, buffer, hand,
                   history, counts>>

Die(m) ==
    /\ m \in Mortal /\ member[m] # "down" /\ deaths < MaxDeaths
    /\ deaths' = deaths + 1
    /\ member' = Set(member, m, "down")
    /\ hand' = Set(hand, m, 0)
    /\ buffer' = Set(buffer, m, {})
    /\ before' = Set(before, m, {}) /\ cut' = Set(cut, m, FALSE)
    /\ UNCHANGED <<streamVars, pendingVars, acked, recovering, closed, fails, losses>>

-----------------------------------------------------------------------------
Init ==
    /\ added = 0 /\ trimmed = 0
    /\ group = FALSE /\ read = 0
    /\ holder = [e \in Entries |-> Nobody]
    /\ idle = [e \in Entries |-> 0]
    /\ acked = {}
    /\ member = [m \in Members |-> "down"]
    /\ recovering = [m \in Members |-> TRUE]
    /\ closed = [m \in Members |-> FALSE]
    /\ buffer = [m \in Members |-> {}]
    /\ hand = [m \in Members |-> 0]
    /\ before = [m \in Members |-> {}] /\ cut = [m \in Members |-> FALSE]
    /\ deaths = 0 /\ fails = 0 /\ losses = 0

Works(m) ==
    \/ Take(m) \/ Fill(m) \/ Recover(m) \/ Claim(m) \/ ReadNew(m) \/ Ack(m)

Next ==
    \/ Publish \/ Trim \/ Tick
    \/ \E m \in Members :
          Start(m) \/ Works(m) \/ LeaveUnacked(m) \/ Close(m) \/ Die(m)

(* Time passes, and a member that is up goes on with what it does; one     *)
(* that died need not come back, and nobody need publish.                  *)
Fairness ==
    /\ WF_vars(Tick)
    /\ \A m \in Members : WF_vars(Works(m)) /\ (m \notin Mortal => WF_vars(Start(m)))

Spec == Init /\ [][Next]_vars /\ Fairness

-----------------------------------------------------------------------------
TypeOK ==
    /\ added \in 0 .. MaxEntries /\ trimmed \in 0 .. added
    /\ group \in BOOLEAN /\ read \in 0 .. added
    /\ holder \in [Entries -> Members \cup {Nobody}]
    /\ idle \in [Entries -> 0 .. ClaimAfter]
    /\ acked \subseteq 1 .. read
    /\ member \in [Members -> {"down", "next", "recover", "claim", "read", "ended"}]
    /\ recovering \in [Members -> BOOLEAN] /\ closed \in [Members -> BOOLEAN]
    /\ buffer \in [Members -> SUBSET Entries] /\ hand \in [Members -> 0 .. MaxEntries]
    /\ before \in [Members -> SUBSET Entries] /\ cut \in [Members -> BOOLEAN]

(* "a restarted worker picks up what it never acked", page by page: before *)
(* a member claims or reads anything new it was handed all that it held    *)
(* when it came up, except what others have taken over or acknowledged and *)
(* what was trimmed; unless a whole page of what it held was trimmed, and  *)
(* recovery ended there.                                                   *)
RecoversAll ==
    \A m \in Members :
        member[m] \in {"claim", "read"} /\ ~cut[m] =>
            \A e \in before[m] : holder[e] = m => ~Present(e)

(* _redis.py:190, with no exception for a page that was trimmed.           *)
RecoversBehindTrimmed ==
    \A m \in Members :
        member[m] \in {"claim", "read"} =>
            \A e \in before[m] : holder[e] = m => ~Present(e)

(* "A consumer that dies mid-message gets it again when it comes back, or  *)
(* another member claims it": every message is acknowledged by somebody in *)
(* the end, though members die, handlers give up and replies are lost.     *)
EventuallyAcked ==
    \A e \in Entries : (e <= added) ~> (e \in acked \/ e <= trimmed)

(* A member that comes back is handed what it held when it died before     *)
(* anything new (Consumer._fill).                                          *)
Safety == TypeOK /\ RecoversAll

=============================================================================
