----------------------------- MODULE SocketAuth -----------------------------
(***************************************************************************)
(* Authenticating a WebSocket declared `auth=tickets | users, recheck=`:   *)
(* Tickets in src/python/oxbrook/auth.py, and the hand-off from the gate's *)
(* request to the handler's and the watcher in _auth.py.                   *)
(*                                                                         *)
(* The gate runs on one request and the handler on another, later, on any  *)
(* worker loop; the principal waits in between under a key of its own.     *)
(***************************************************************************)
EXTENDS Naturals, FiniteSets

CONSTANTS
    Sockets,
    Holders,       \* whom tickets are issued for
    Members,       \* whose own credential a socket may carry as well
    TicketTTL,     \* Tickets.ttl
    Limit,         \* Tickets.limit
    Loops,         \* the worker loops, each of which may be issuing a ticket
    HandoffTTL,    \* _HANDOFF_TTL
    None,
    MaxTickets, MaxOutages, MaxTime   \* bounds of the model

ASSUME SocketAuthAssumption ==
    /\ Limit \in Nat \ {0} /\ TicketTTL \in Nat /\ HandoffTTL \in Nat /\ IsFiniteSet(Loops)
    /\ MaxTickets \in Nat /\ MaxTime \in Nat

VARIABLES
    now,
    inRedis,       \* whether the tickets are kept in Redis; never changes
    issued,        \* ticket -> whom it is for and until when it is good
    kept,          \* Tickets._waiting, or the records in Redis
    issuing,       \* per loop: where its call of issue is
    alone,         \* history: the loops whose call has met no other one
    skips,         \* history: trims cut short since a call last had the dict to itself
    access,        \* per user: what their own credential is good for
    socket,        \* per socket: its place, what it offers, its principal
    waiting,       \* _waiting: key -> the principal left, and until when
    outages

ticketVars == <<issued, kept, issuing, alone, skips>>
vars == <<now, inRedis, ticketVars, access, socket, waiting, outages>>

Ids == 1 .. MaxTickets
Known == DOMAIN issued

Idle == [phase |-> "idle", ticket |-> None, user |-> None, who |-> None, left |-> 0]
Free == [at |-> "idle", who |-> None, read |-> 0, over |-> 0, doomed |-> {}]

-----------------------------------------------------------------------------
(* Tickets.issue.  The loops share the dict and hold no lock: each read of *)
(* it and each change is a step of its own, and other loops come between.  *)

Calling(l, at) == issuing' = [issuing EXCEPT ![l].at = at]
NotIssuing == <<now, inRedis, access, socket, waiting, outages>>

(* The clock, then the length.  Below the limit nothing is trimmed.        *)
IssueBegin(l, u) ==
    /\ ~inRedis /\ issuing[l].at = "idle" /\ Cardinality(Known) < MaxTickets
    /\ issuing' = [issuing EXCEPT ![l] =
          [Free EXCEPT !.who = u, !.read = now,
                       !.at = IF Cardinality(kept) >= Limit THEN "expired" ELSE "insert"]]
    /\ alone' = IF \A k \in Loops : issuing[k].at = "idle" THEN {l} ELSE {}
    /\ UNCHANGED <<issued, kept, skips, NotIssuing>>

(* What had expired when the clock was read.                               *)
Expired(l) == {t \in kept : issued[t].until < issuing[l].read}

ListExpired(l) ==
    /\ issuing[l].at = "expired"
    /\ issuing' = [issuing EXCEPT ![l].at = "popExpired", ![l].doomed = Expired(l)]
    /\ UNCHANGED <<issued, kept, alone, skips, NotIssuing>>

(* pop(key, None): another loop may have taken it already.                 *)
PopNext(l) ==
    /\ issuing[l].at \in {"popExpired", "popOldest"}
    /\ \E t \in issuing[l].doomed :
          /\ \A x \in issuing[l].doomed : t <= x
          /\ kept' = kept \ {t}
          /\ issuing' = [issuing EXCEPT ![l].doomed = @ \ {t}]
    /\ UNCHANGED <<issued, alone, skips, NotIssuing>>

(* At least one goes even if the expired made room.                        *)
Over == IF Cardinality(kept) > Limit THEN Cardinality(kept) + 1 - Limit ELSE 1

CountOver(l) ==
    /\ issuing[l].at = "popExpired" /\ issuing[l].doomed = {}
    /\ issuing' = [issuing EXCEPT ![l].at = "oldest", ![l].over = Over]
    /\ UNCHANGED <<issued, kept, alone, skips, NotIssuing>>

(* Tickets are numbered as they are put in, and a dict keeps that order.   *)
Oldest(ts, n) == {t \in ts : Cardinality({u \in ts : u < t}) < n}

(* Mutant of ListOldest: only the expired are dropped.                     *)
ListNone(l) ==
    /\ issuing[l].at = "oldest"
    /\ issuing' = [issuing EXCEPT ![l].at = "popOldest", ![l].doomed = {}]
    /\ UNCHANGED <<issued, kept, alone, skips, NotIssuing>>

ListOldest(l) ==
    /\ issuing[l].at = "oldest"
    /\ issuing' = [issuing EXCEPT ![l].at = "popOldest",
                                  ![l].over = 0, ![l].doomed = Oldest(kept, issuing[l].over)]
    /\ UNCHANGED <<issued, kept, alone, skips, NotIssuing>>

Trimmed(l) ==
    /\ issuing[l].at = "popOldest" /\ issuing[l].doomed = {}
    /\ Calling(l, "insert")
    /\ UNCHANGED <<issued, kept, alone, skips, NotIssuing>>

(* RuntimeError: another loop changed the dict while it was being listed.  *)
TrimCutShort(l) ==
    /\ issuing[l].at \in {"expired", "oldest"} /\ Loops # {l}
    /\ Calling(l, "insert")
    /\ alone' = alone \ {l} /\ skips' = skips + 1
    /\ UNCHANGED <<issued, kept, NotIssuing>>

Hand(t, u, from) ==
    issued' = [x \in Known \cup {t} |->
                  IF x = t THEN [who |-> u, until |-> from + TicketTTL] ELSE issued[x]]

NextTicket == Cardinality(Known) + 1

Insert(l) ==
    /\ issuing[l].at = "insert" /\ NextTicket \in Ids
    /\ Hand(NextTicket, issuing[l].who, issuing[l].read)
    /\ kept' = kept \cup {NextTicket}
    /\ issuing' = [issuing EXCEPT ![l] = Free]
    /\ skips' = IF l \in alone THEN 0 ELSE skips
    /\ alone' = alone \ {l}
    /\ UNCHANGED NotIssuing

(* _keep: one record in Redis, with its own expiry and no limit.           *)
IssueKept(u) ==
    /\ inRedis /\ NextTicket \in Ids
    /\ Hand(NextTicket, u, now)
    /\ kept' = kept \cup {NextTicket}
    /\ UNCHANGED <<issuing, alone, skips, NotIssuing>>

(* Redis not reached, or its answer lost: 503, and nobody has the ticket.  *)
IssueUnreachable ==
    /\ inRedis /\ outages > 0
    /\ outages' = outages - 1
    /\ UNCHANGED <<now, inRedis, ticketVars, access, socket, waiting>>

Trim(l) == ListExpired(l) \/ PopNext(l) \/ CountOver(l) \/ ListOldest(l) \/ Trimmed(l)
           \/ TrimCutShort(l)

Issue ==
    \/ \E u \in Holders : IssueKept(u) \/ \E l \in Loops : IssueBegin(l, u)
    \/ IssueUnreachable
    \/ \E l \in Loops : Trim(l) \/ Insert(l)

-----------------------------------------------------------------------------
(* The upgrade: Tickets.authenticate, then the users' scheme; then         *)
(* authorize=, and the principal left for the handler                      *)

Arrive(s, t, u) ==
    /\ socket[s].phase = "idle"
    /\ t \in Known \cup {None}
    /\ socket' = [socket EXCEPT ![s] = [Idle EXCEPT !.phase = "gate", !.ticket = t, !.user = u]]
    /\ UNCHANGED <<now, inRedis, ticketVars, access, waiting, outages>>

(* Mutant of Passes: the credential is known, whatever it is good for now. *)
PassesKnown(s) == socket[s].user # None

(* The users' scheme and its requirements (external).                      *)
Passes(s) == socket[s].user # None /\ access[socket[s].user] = "granted"

Good(t) == t \in kept /\ issued[t].until >= now

(* Mutant of Redeemed: looked up, and removed only when it is used.        *)
RedeemedRead(t) == kept

(* pop, or GETDEL: read and removed in one step.                           *)
Redeemed(t) == kept \ {t}

Gate(s, phase, who) ==
    socket' = [socket EXCEPT ![s] = [@ EXCEPT !.phase = phase, !.who = who]]

(* Refused or over: what it offered is forgotten, but for the ticket.      *)
Ends(s, phase) ==
    socket' = [socket EXCEPT ![s] = [Idle EXCEPT !.phase = phase, !.ticket = socket[s].ticket]]

ByTicket(s) ==
    /\ socket[s].phase = "gate" /\ socket[s].ticket # None
    /\ kept' = Redeemed(socket[s].ticket)
    /\ IF Good(socket[s].ticket) THEN Gate(s, "authorize", issued[socket[s].ticket].who)
       ELSE Ends(s, "refused")
    /\ UNCHANGED <<now, inRedis, issued, issuing, alone, skips, access, waiting, outages>>

(* Redis not reached, or its answer lost: 503, and the ticket may be gone. *)
ByTicketUnreachable(s) ==
    /\ inRedis /\ outages > 0
    /\ socket[s].phase = "gate" /\ socket[s].ticket # None
    /\ kept' \in {kept, Redeemed(socket[s].ticket)}
    /\ Ends(s, "refused")
    /\ outages' = outages - 1
    /\ UNCHANGED <<now, inRedis, issued, issuing, alone, skips, access, waiting>>

ByUser(s) ==
    /\ socket[s].phase = "gate" /\ socket[s].ticket = None
    /\ IF Passes(s) THEN Gate(s, "authorize", socket[s].user) ELSE Ends(s, "refused")
    /\ UNCHANGED <<now, inRedis, ticketVars, access, waiting, outages>>

(* The authorizer refuses; the ticket is used all the same.                *)
AuthorizeRefuses(s) ==
    /\ socket[s].phase = "authorize"
    /\ Ends(s, "refused")
    /\ UNCHANGED <<now, inRedis, ticketVars, access, waiting, outages>>

(* _leave: entries whose time has passed are dropped, then its own added.  *)
Purged == {k \in DOMAIN waiting : waiting[k].until >= now}

Accept(s) ==
    /\ socket[s].phase = "authorize"
    /\ waiting' = [k \in Purged \cup {s} |->
                      IF k = s THEN [until |-> now + HandoffTTL, who |-> socket[s].who]
                      ELSE waiting[k]]
    /\ socket' = [socket EXCEPT ![s] = [@ EXCEPT !.phase = "accepted", !.who = None, !.left = now]]
    /\ UNCHANGED <<now, inRedis, ticketVars, access, outages>>

-----------------------------------------------------------------------------
(* receive: the handler's request, with the key the server handed on       *)

Without(k) == [x \in DOMAIN waiting \ {k} |-> waiting[x]]

Start(s) ==
    /\ socket[s].phase = "accepted" /\ s \in DOMAIN waiting
    /\ waiting' = Without(s)
    /\ Gate(s, "open", waiting[s].who)
    /\ UNCHANGED <<now, inRedis, ticketVars, access, outages>>

(* The key is gone: the handler does not run.                              *)
StartWithout(s) ==
    /\ socket[s].phase = "accepted" /\ s \notin DOMAIN waiting
    /\ Ends(s, "refused")
    /\ UNCHANGED <<now, inRedis, ticketVars, access, waiting, outages>>

(* The client is gone before its handler runs: the entry stays behind.     *)
ClientLeaves(s) ==
    /\ socket[s].phase \in {"gate", "authorize", "accepted"}
    /\ Ends(s, "refused")
    /\ UNCHANGED <<now, inRedis, ticketVars, access, waiting, outages>>

HandlerReturns(s) ==
    /\ socket[s].phase \in {"open", "unwatched"}
    /\ Ends(s, "closed")
    /\ UNCHANGED <<now, inRedis, ticketVars, access, waiting, outages>>

-----------------------------------------------------------------------------
(* _recheck, over what presentable leaves of the declaration: the users'   *)
(* scheme alone                                                            *)

(* 4001 for no credential or a wrong one, 4003 for one refused a scope.    *)
RecheckRefuses(s) ==
    /\ socket[s].phase = "open" /\ ~Passes(s)
    /\ Ends(s, "closed")
    /\ UNCHANGED <<now, inRedis, ticketVars, access, waiting, outages>>

(* The outgoing buffer is full: the close is dropped, the socket stays open*)
(* and the watcher has returned.                                           *)
RecheckUnheard(s) ==
    /\ socket[s].phase = "open" /\ ~Passes(s)
    /\ Gate(s, "unwatched", socket[s].who)
    /\ UNCHANGED <<now, inRedis, ticketVars, access, waiting, outages>>

RecheckPasses(s) ==
    /\ socket[s].phase = "open" /\ Passes(s)
    /\ Gate(s, "open", socket[s].user)
    /\ UNCHANGED <<now, inRedis, ticketVars, access, waiting, outages>>

(* The provider cannot be asked: the socket stays, the next look decides.  *)
RecheckFails(s) ==
    /\ socket[s].phase = "open" /\ outages > 0
    /\ outages' = outages - 1
    /\ UNCHANGED <<now, inRedis, ticketVars, access, socket, waiting>>

(* Access lost, or a scope or role the route requires.                     *)
Revoke(u) ==
    /\ access[u] = "granted"
    /\ access' = [access EXCEPT ![u] = "revoked"]
    /\ UNCHANGED <<now, inRedis, ticketVars, socket, waiting, outages>>

Tick ==
    /\ now < MaxTime
    /\ now' = now + 1
    /\ UNCHANGED <<inRedis, ticketVars, access, socket, waiting, outages>>

-----------------------------------------------------------------------------
Init ==
    /\ now = 0 /\ inRedis \in BOOLEAN
    /\ issued = [t \in {} |-> None] /\ kept = {}
    /\ issuing = [l \in Loops |-> Free] /\ alone = {} /\ skips = 0
    /\ access = [u \in Members |-> "granted"]
    /\ socket = [s \in Sockets |-> Idle]
    /\ waiting = [k \in {} |-> None]
    /\ outages = MaxOutages

Recheck(s) == RecheckRefuses(s) \/ RecheckUnheard(s) \/ RecheckPasses(s) \/ RecheckFails(s)

Next ==
    \/ Tick \/ Issue
    \/ \E u \in Members : Revoke(u)
    \/ \E s \in Sockets :
          \/ \E t \in Ids \cup {None}, u \in Members \cup {None} : Arrive(s, t, u)
          \/ ByTicket(s) \/ ByTicketUnreachable(s) \/ ByUser(s)
          \/ AuthorizeRefuses(s) \/ Accept(s)
          \/ Start(s) \/ StartWithout(s) \/ ClientLeaves(s) \/ HandlerReturns(s)
          \/ Recheck(s)

(* The watcher sleeps a fixed time and looks again, for as long as the     *)
(* socket is open: asyncio runs what is due.                               *)
Fairness == \A s \in Sockets : WF_vars(Recheck(s))

Spec == Init /\ [][Next]_vars /\ Fairness

-----------------------------------------------------------------------------
Past == {"authorize", "accepted", "open", "unwatched", "closed"}

Places == {"idle", "expired", "popExpired", "oldest", "popOldest", "insert"}

TypeOK ==
    /\ now \in 0 .. MaxTime /\ kept \subseteq Known
    /\ \A l \in Loops : issuing[l].at \in Places /\ issuing[l].doomed \subseteq Known
    /\ \A s \in Sockets : socket[s].who \in Holders \cup Members \cup {None}
    /\ DOMAIN waiting \subseteq Sockets

(* One ticket opens one socket, in whatever order upgrades, refusals, lost *)
(* answers and the trims of other loops come.                              *)
TicketOnce ==
    \A s, r \in Sockets :
       s # r /\ socket[s].ticket # None /\ socket[s].phase \in Past /\ socket[r].phase \in Past
       => socket[s].ticket # socket[r].ticket

(* The limit that issue keeps without a lock: the loops racing one another *)
(* exceed it by one each but for one, a trim cut short by one more, and    *)
(* the next call that meets no other one brings it back.                   *)
TicketsBounded ==
    ~inRedis => Cardinality(kept) + 1 <= Limit + Cardinality(Loops) + skips

(* limit as an exact bound: what a second loop breaks.                     *)
LimitKept == ~inRedis => Cardinality(kept) <= Limit

(* The handler starts as whoever the gate found: the ticket's holder, or   *)
(* the credential's.                                                       *)
StartsAsFound ==
    [][\A s \in Sockets :
          socket[s].phase = "accepted" /\ socket'[s].phase = "open" =>
             socket'[s].who = IF socket[s].ticket # None THEN issued[socket[s].ticket].who
                              ELSE socket[s].user]_vars

(* Other upgrades never take a principal away from a socket that has not   *)
(* waited out its time.                                                    *)
HandoffWaits ==
    \A s \in Sockets :
       socket[s].phase = "accepted" /\ now <= socket[s].left + HandoffTTL => s \in DOMAIN waiting

(* A ticket that was never offered and is still in time can be redeemed,   *)
(* unless as many as the limit were issued after it.                       *)
TicketKept ==
    \A t \in Known :
       issued[t].until >= now /\ (\A s \in Sockets : socket[s].ticket # t)
       => t \in kept \/ Cardinality({x \in Known : x > t}) >= Limit

Revoked(s) == socket[s].user # None /\ access[socket[s].user] # "granted"

(* A socket whose user lost access, or a role it needs, is looked at again *)
(* and refused, however often the provider could not be asked: it is       *)
(* closed, unless that look found the outgoing buffer full.                *)
RevokedCloses ==
    \A s \in Sockets :
       socket[s].phase = "open" /\ Revoked(s) ~> socket[s].phase \in {"closed", "unwatched"}

(* www/guide/auth.md:744, which a full outgoing buffer breaks.             *)
RevokedAlwaysCloses ==
    \A s \in Sockets : socket[s].phase = "open" /\ Revoked(s) ~> socket[s].phase = "closed"

(* A ticket opens one socket, and what the gate found waits for the        *)
(* handler of its socket (Tickets._redeem, _accepted and receive).         *)
Safety == TypeOK /\ TicketOnce /\ HandoffWaits

(* A handler starts with the user its socket was opened for, and a socket  *)
(* whose user lost access is looked at again and refused (_recheck).       *)
Promises == StartsAsFound /\ RevokedCloses

=============================================================================
