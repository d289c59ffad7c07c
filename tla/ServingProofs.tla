---------------------------- MODULE ServingProofs ----------------------------
(***************************************************************************)
(* Proofs about what MCServing composes: the sockets' tickets and origins, *)
(* the event streams, the health probes, the websockets and the server's   *)
(* own start and shutdown, for every value of their constants.             *)
(***************************************************************************)
EXTENDS MCServing, Sequences, FiniteSetTheorems, TLAPS

-----------------------------------------------------------------------------
(* The inductive invariant                                                 *)

Phases == {"idle", "gate", "authorize", "accepted", "open", "unwatched", "closed",
           "refused"}

Somebody == Holders \cup Members \cup {None}

Socket == [phase : Phases, ticket : Ids \cup {None}, user : Members \cup {None},
           who : Somebody, left : Nat]

(* Tickets are numbered as they are issued.                                *)
Numbered ==
    /\ \E n \in 0 .. MaxTickets : Known = 1 .. n
    /\ \A t \in Known : issued[t].who \in Holders /\ issued[t].until \in Nat

Shape ==
    /\ now \in 0 .. MaxTime /\ inRedis \in BOOLEAN
    /\ kept \subseteq Known
    /\ access \in [Members -> {"granted", "revoked"}]
    /\ socket \in [Sockets -> Socket]
    /\ \A s \in Sockets : socket[s].ticket \in Known \cup {None}

Left ==
    /\ DOMAIN waiting \subseteq Sockets
    /\ \A k \in DOMAIN waiting : waiting[k].who \in Somebody /\ waiting[k].until \in Nat

(* A call of issue has a principal, and drops tickets that were handed out.*)
Issuer == [at : Places, who : Holders \cup {None}, read : Nat, over : Nat, doomed : SUBSET Ids]

Issuers ==
    /\ issuing \in [Loops -> Issuer]
    /\ \A l \in Loops : /\ issuing[l].doomed \subseteq Known
                        /\ issuing[l].at # "idle" => issuing[l].who \in Holders

(* A ticket that was taken is not there to be taken again.                 *)
Used == \A s \in Sockets :
            socket[s].phase \in Past /\ socket[s].ticket # None => socket[s].ticket \notin kept

(* Whom the gate finds: the ticket's holder, or the credential's.          *)
Found(s) == IF socket[s].ticket # None THEN issued[socket[s].ticket].who ELSE socket[s].user

(* What the gate found is what authorize= is asked about, and then what    *)
(* waits for the handler, for as long as it may.                           *)
Asked == \A s \in Sockets : socket[s].phase = "authorize" => socket[s].who = Found(s)

Waits(s) == IF s \in DOMAIN waiting
            THEN waiting[s].who = Found(s) /\ waiting[s].until = socket[s].left + HandoffTTL
            ELSE now > socket[s].left + HandoffTTL

Handed == \A s \in Sockets : socket[s].phase = "accepted" => Waits(s)

IInv == Numbered /\ Shape /\ Left /\ Issuers /\ Used /\ TicketOnce /\ Asked /\ Handed

(* The invariant says what the property asks.                              *)
LEMMA Implied == IInv => Safety
<1> SUFFICES ASSUME IInv PROVE Safety
  OBVIOUS
<1>1. TypeOK
  BY DEF IInv, TypeOK, Shape, Left, Issuers, Issuer, Socket, Somebody
<1>2. HandoffWaits
  <2> SUFFICES ASSUME NEW s \in Sockets, socket[s].phase = "accepted",
                      now <= socket[s].left + HandoffTTL
               PROVE  s \in DOMAIN waiting
    BY DEF HandoffWaits
  <2>1. Waits(s)
    BY DEF IInv, Handed
  <2>2. now \in Nat /\ socket[s].left + HandoffTTL \in Nat
    BY SocketAuthAssumption DEF IInv, Shape, Socket
  <2> QED BY <2>1, <2>2 DEF Waits
<1> QED BY <1>1, <1>2 DEF IInv, Safety

(* The invariant holds before anything is issued.                          *)
LEMMA InitInv == Init => IInv
<1> SUFFICES ASSUME Init PROVE IInv
  OBVIOUS
<1> USE SocketAuthAssumption DEF Init
<1>1. Numbered
  <2>1. Known = {} /\ 1 .. 0 = {}
    BY DEF Known
  <2> QED BY <2>1 DEF Numbered
<1>2. Shape
  <2>1. Idle \in Socket
    BY DEF Idle, Socket, Phases, Somebody
  <2> QED BY <2>1 DEF Shape, Idle
<1>3. Left
  BY DEF Left
<1>4. Issuers
  <2>1. Free \in Issuer /\ Free.at = "idle" /\ Free.doomed = {}
    BY DEF Free, Issuer, Places
  <2> QED BY <2>1 DEF Issuers
<1>5. Used /\ TicketOnce /\ Asked /\ Handed
  BY DEF Used, TicketOnce, Asked, Handed, Idle, Past
<1> QED BY <1>1, <1>2, <1>3, <1>4, <1>5 DEF IInv

(* A step that changes no variable preserves it.                           *)
LEMMA StutterInv == IInv /\ UNCHANGED vars => IInv'
<1> SUFFICES ASSUME IInv, UNCHANGED vars PROVE IInv'
  OBVIOUS
<1> USE DEF vars, ticketVars
<1>1. Numbered' /\ Shape' /\ Left' /\ Issuers'
  BY DEF IInv, Numbered, Shape, Left, Issuers, Known
<1>2. Used' /\ TicketOnce' /\ Asked'
  BY DEF IInv, Used, TicketOnce, Asked, Found
<1>3. Handed'
  BY DEF IInv, Handed, Waits, Found
<1> QED BY <1>1, <1>2, <1>3 DEF IInv

-----------------------------------------------------------------------------
(* Issuing, and the world outside                                          *)

(* As many tickets as are known, and how the next one is numbered.         *)
LEMMA Numbering ==
  ASSUME Numbered
  PROVE  /\ NextTicket \in Nat /\ NextTicket \notin Known /\ IsFiniteSet(Known)
         /\ Known \subseteq Ids
         /\ NextTicket \in Ids => \E n \in 0 .. MaxTickets : Known \cup {NextTicket} = 1 .. n
<1> USE SocketAuthAssumption
<1>n. PICK n \in 0 .. MaxTickets : Known = 1 .. n
  BY DEF Numbered
<1>1. IsFiniteSet(1 .. n) /\ Cardinality(1 .. n) = IF 1 > n THEN 0 ELSE n - 1 + 1
  BY FS_Interval
<1>2. NextTicket = n + 1
  BY <1>1, <1>n DEF NextTicket
<1>3. NextTicket \in Ids => Known \cup {NextTicket} = 1 .. n + 1 /\ n + 1 \in 0 .. MaxTickets
  BY <1>2, <1>n DEF Ids
<1> QED BY <1>1, <1>2, <1>3, <1>n DEF Ids

(* A new ticket is none that any socket has offered.                       *)
LEMMA HandInv ==
  ASSUME IInv, NextTicket \in Ids, NEW u \in Holders, NEW from \in Nat,
         Hand(NextTicket, u, from), kept' = kept \cup {NextTicket}, UNCHANGED NotIssuing
  PROVE  /\ Numbered' /\ Shape' /\ Left' /\ Used' /\ TicketOnce' /\ Asked' /\ Handed'
         /\ Known \subseteq Known'
<1> DEFINE t == NextTicket
<1>a. UNCHANGED <<now, inRedis, access, socket, waiting>>
  BY DEF NotIssuing
<1>n. /\ t \notin Known
      /\ \E n \in 0 .. MaxTickets : Known \cup {t} = 1 .. n
  BY Numbering DEF IInv
<1>k. /\ Known' = Known \cup {t}
      /\ issued'[t] = [who |-> u, until |-> from + TicketTTL]
      /\ \A x \in Known : issued'[x] = issued[x]
  BY <1>n DEF Known, Hand
<1> HIDE DEF t
<1>o. \A s \in Sockets : socket[s].ticket \in Known \cup {None}
  BY DEF IInv, Shape
<1>1. Numbered'
  <2>2. ASSUME NEW x \in Known' PROVE issued'[x].who \in Holders /\ issued'[x].until \in Nat
    <3>1. CASE x = t
      BY <3>1, <1>k, SocketAuthAssumption
    <3>2. CASE x # t
      BY <3>2, <2>2, <1>k DEF IInv, Numbered
    <3> QED BY <3>1, <3>2
  <2> QED BY <2>2, <1>n, <1>k DEF Numbered
<1>2. Shape'
  BY <1>a, <1>k DEF IInv, Shape, t
<1>3. Left'
  BY <1>a DEF IInv, Left
<1>5. Used'
  BY <1>a, <1>n, <1>k, <1>o DEF IInv, Used, t
<1>6. TicketOnce'
  BY <1>a DEF IInv, TicketOnce
<1>7. ASSUME NEW s \in Sockets PROVE Found(s)' = Found(s)
  BY <1>a, <1>k, <1>o DEF Found
<1>8. Asked' /\ Handed'
  BY <1>a, <1>7 DEF IInv, Asked, Handed, Waits
<1> QED BY <1>1, <1>2, <1>3, <1>5, <1>6, <1>8, <1>k

(* A step that hands out no ticket and changes no socket may drop some.    *)
LEMMA DropInv ==
  ASSUME IInv, kept' \subseteq kept, UNCHANGED <<issued, NotIssuing>>, Issuers'
  PROVE  IInv'
<1> USE DEF NotIssuing
<1>1. Numbered' /\ Shape' /\ Left'
  BY DEF IInv, Numbered, Shape, Left, Known
<1>2. Used' /\ TicketOnce' /\ Asked'
  BY DEF IInv, Used, TicketOnce, Asked, Found
<1>3. Handed'
  BY DEF IInv, Handed, Waits, Found
<1> QED BY <1>1, <1>2, <1>3 DEF IInv

(* A loop's call of issue, as it goes from place to place.                 *)
LEMMA IssuerInv ==
  ASSUME Issuers, UNCHANGED issued, NEW l \in Loops, NEW c \in Issuer,
         issuing' = [issuing EXCEPT ![l] = c], c.doomed \subseteq Known,
         c.at # "idle" => c.who \in Holders
  PROVE  Issuers'
BY DEF Issuers, Known

(* What a call lists it found among the tickets, and it drops no others.   *)
LEMMA TrimInv == ASSUME NEW l \in Loops PROVE IInv /\ Trim(l) => IInv'
<1> SUFFICES ASSUME IInv, Trim(l) PROVE IInv'
  OBVIOUS
<1> DEFINE c == issuing[l]
<1>0. /\ Issuers /\ c \in Issuer /\ c.doomed \subseteq Known /\ issuing \in [Loops -> Issuer]
      /\ c.at # "idle" => c.who \in Holders
  BY DEF IInv, Issuers
<1>k. kept \subseteq Known /\ Known \subseteq Ids /\ Cardinality(kept) \in Nat
  <2>1. kept \subseteq Known /\ Known \subseteq Ids /\ IsFiniteSet(Known)
    BY Numbering DEF IInv, Shape
  <2> QED BY <2>1, FS_Subset, FS_CardinalityType
<1>1. CASE ListExpired(l)
  <2> DEFINE d == [c EXCEPT !.at = "popExpired", !.doomed = Expired(l)]
  <2>1. /\ issuing' = [issuing EXCEPT ![l] = d] /\ UNCHANGED <<issued, kept, NotIssuing>>
        /\ c.at = "expired"
    BY <1>1, <1>0 DEF ListExpired, Issuer
  <2>2. Expired(l) \subseteq Known /\ Expired(l) \in SUBSET Ids
    BY <1>k DEF Expired
  <2>3. /\ d \in Issuer /\ d.doomed \subseteq Known /\ d.who \in Holders
    BY <1>0, <2>1, <2>2 DEF Issuer, Places
  <2>4. Issuers'
    BY <1>0, <2>1, <2>3, IssuerInv
  <2> QED BY <2>1, <2>4, DropInv
<1>2. CASE PopNext(l)
  <2>t. PICK t \in c.doomed : kept' = kept \ {t} /\ issuing' = [issuing EXCEPT ![l].doomed = @ \ {t}]
    BY <1>2 DEF PopNext
  <2> DEFINE d == [c EXCEPT !.doomed = c.doomed \ {t}]
  <2>1. /\ issuing' = [issuing EXCEPT ![l] = d] /\ UNCHANGED <<issued, NotIssuing>>
        /\ c.at # "idle"
    BY <1>2, <1>0, <2>t DEF PopNext, Issuer
  <2>3. /\ d \in Issuer /\ d.doomed \subseteq Known /\ d.who \in Holders
    BY <1>0, <2>1 DEF Issuer
  <2>4. Issuers'
    BY <1>0, <2>1, <2>3, IssuerInv
  <2> QED BY <2>1, <2>4, <2>t, DropInv
<1>3. CASE CountOver(l)
  <2> DEFINE d == [c EXCEPT !.at = "oldest", !.over = Over]
  <2>1. /\ issuing' = [issuing EXCEPT ![l] = d] /\ UNCHANGED <<issued, kept, NotIssuing>>
        /\ c.at = "popExpired"
    BY <1>3, <1>0 DEF CountOver, Issuer
  <2>2. Over \in Nat
    BY <1>k, SocketAuthAssumption DEF Over
  <2>3. /\ d \in Issuer /\ d.doomed \subseteq Known /\ d.who \in Holders
    BY <1>0, <2>1, <2>2 DEF Issuer, Places
  <2>4. Issuers'
    BY <1>0, <2>1, <2>3, IssuerInv
  <2> QED BY <2>1, <2>4, DropInv
<1>4. CASE ListOldest(l)
  <2> DEFINE old == Oldest(kept, c.over)
             d == [c EXCEPT !.at = "popOldest", !.over = 0, !.doomed = old]
  <2>1. /\ issuing' = [issuing EXCEPT ![l] = d] /\ UNCHANGED <<issued, kept, NotIssuing>>
        /\ c.at = "oldest"
    BY <1>4, <1>0 DEF ListOldest, Issuer
  <2>2. old \subseteq Known /\ old \in SUBSET Ids
    BY <1>k DEF Oldest
  <2> HIDE DEF old
  <2>3. /\ d \in Issuer /\ d.doomed \subseteq Known /\ d.who \in Holders
    BY <1>0, <2>1, <2>2 DEF Issuer, Places
  <2>4. Issuers'
    BY <1>0, <2>1, <2>3, IssuerInv
  <2> QED BY <2>1, <2>4, DropInv
<1>5. CASE Trimmed(l) \/ TrimCutShort(l)
  <2> DEFINE d == [c EXCEPT !.at = "insert"]
  <2>1. /\ issuing' = [issuing EXCEPT ![l] = d] /\ UNCHANGED <<issued, kept, NotIssuing>>
        /\ c.at # "idle"
    BY <1>5, <1>0 DEF Trimmed, TrimCutShort, Calling, Issuer
  <2>3. /\ d \in Issuer /\ d.doomed \subseteq Known /\ d.who \in Holders
    BY <1>0, <2>1 DEF Issuer, Places
  <2>4. Issuers'
    BY <1>0, <2>1, <2>3, IssuerInv
  <2> QED BY <2>1, <2>4, DropInv
<1> QED BY <1>1, <1>2, <1>3, <1>4, <1>5 DEF Trim

(* A call that begins drops nothing yet.                                   *)
LEMMA BeginInv ==
  ASSUME NEW l \in Loops, NEW u \in Holders PROVE IInv /\ IssueBegin(l, u) => IInv'
<1> SUFFICES ASSUME IInv, IssueBegin(l, u) PROVE IInv'
  OBVIOUS
<1> DEFINE place == IF Cardinality(kept) >= Limit THEN "expired" ELSE "insert"
           d == [Free EXCEPT !.who = u, !.read = now, !.at = place]
<1>1. issuing' = [issuing EXCEPT ![l] = d] /\ UNCHANGED <<issued, kept, NotIssuing>>
  BY DEF IssueBegin
<1>2. place \in Places
  BY DEF Places
<1>3. now \in Nat
  BY DEF IInv, Shape
<1> HIDE DEF place
<1>4. d \in Issuer /\ d.doomed \subseteq Known /\ d.who \in Holders
  BY <1>2, <1>3 DEF Issuer, Free
<1> HIDE DEF d
<1>5. Issuers'
  BY <1>1, <1>4, IssuerInv DEF IInv
<1> QED BY <1>1, <1>5, DropInv

(* The ticket is put in, or its record is written.                         *)
LEMMA InsertInv == ASSUME NEW l \in Loops PROVE IInv /\ Insert(l) => IInv'
<1> SUFFICES ASSUME IInv, Insert(l) PROVE IInv'
  OBVIOUS
<1>1. issuing[l].who \in Holders /\ issuing[l].read \in Nat
  BY DEF Insert, IInv, Issuers, Issuer
<1>2. /\ Numbered' /\ Shape' /\ Left' /\ Used' /\ TicketOnce' /\ Asked' /\ Handed'
      /\ Known \subseteq Known'
  BY <1>1, HandInv DEF Insert
<1>3. Issuers'
  <2>1. Free \in Issuer /\ Free.at = "idle" /\ Free.doomed = {}
    BY DEF Free, Issuer, Places
  <2>2. issuing' = [issuing EXCEPT ![l] = Free]
    BY DEF Insert
  <2> QED BY <1>2, <2>1, <2>2 DEF IInv, Issuers
<1> QED BY <1>2, <1>3 DEF IInv

LEMMA KeptInv == ASSUME NEW u \in Holders PROVE IInv /\ IssueKept(u) => IInv'
<1> SUFFICES ASSUME IInv, IssueKept(u) PROVE IInv'
  OBVIOUS
<1>1. now \in Nat
  BY DEF IInv, Shape
<1>2. /\ Numbered' /\ Shape' /\ Left' /\ Used' /\ TicketOnce' /\ Asked' /\ Handed'
      /\ Known \subseteq Known'
  BY <1>1, HandInv DEF IssueKept
<1>3. Issuers'
  BY <1>2 DEF IInv, Issuers, IssueKept
<1> QED BY <1>2, <1>3 DEF IInv

LEMMA IssueInv == IInv /\ Issue => IInv'
<1> SUFFICES ASSUME IInv, Issue PROVE IInv'
  OBVIOUS
<1>1. CASE IssueUnreachable
  <2> USE DEF IssueUnreachable, ticketVars
  <2>1. Numbered' /\ Shape' /\ Left' /\ Issuers'
    BY <1>1 DEF IInv, Numbered, Shape, Left, Issuers, Known
  <2>2. Used' /\ TicketOnce' /\ Asked'
    BY <1>1 DEF IInv, Used, TicketOnce, Asked, Found
  <2>3. Handed'
    BY <1>1 DEF IInv, Handed, Waits, Found
  <2> QED BY <2>1, <2>2, <2>3 DEF IInv
<1> QED BY <1>1, KeptInv, BeginInv, TrimInv, InsertInv DEF Issue

(* As time passes, what waited out its time may only be more of it.        *)
LEMMA TickInv == IInv /\ Tick => IInv'
<1> SUFFICES ASSUME IInv, Tick PROVE IInv'
  OBVIOUS
<1> USE SocketAuthAssumption DEF Tick, ticketVars
<1>0. Numbered'
  BY DEF IInv, Numbered, Known
<1>1. Shape'
  BY DEF IInv, Shape, Known
<1>2. Left' /\ Issuers' /\ Used' /\ TicketOnce' /\ Asked'
  BY DEF IInv, Left, Issuers, Known, Used, TicketOnce, Asked, Found
<1>3. Handed'
  BY DEF IInv, Handed, Waits, Found, Shape, Socket
<1> QED BY <1>0, <1>1, <1>2, <1>3 DEF IInv

(* Access that is lost changes nothing of the tickets.                     *)
LEMMA RevokeInv == ASSUME NEW u \in Members PROVE IInv /\ Revoke(u) => IInv'
<1> SUFFICES ASSUME IInv, Revoke(u) PROVE IInv'
  OBVIOUS
<1> USE DEF Revoke, ticketVars
<1>1. Numbered' /\ Shape'
  BY DEF IInv, Numbered, Shape, Known
<1>2. Left' /\ Issuers' /\ Used' /\ TicketOnce' /\ Asked' /\ Handed'
  BY DEF IInv, Left, Issuers, Known, Used, TicketOnce, Asked, Handed, Waits, Found
<1> QED BY <1>1, <1>2 DEF IInv

-----------------------------------------------------------------------------
(* The steps of one socket                                                 *)

(* What a step of socket s leaves alone, and what it may take: a record    *)
(* that keeps its ticket and user or forgets its user, and tickets taken   *)
(* out and none put back.                                                  *)
StepOf(s, r) ==
    /\ socket' = [socket EXCEPT ![s] = r] /\ r \in Socket
    /\ r.ticket \in Known \cup {None}
    /\ kept' \subseteq kept
    /\ UNCHANGED <<now, inRedis, issued, issuing, access>>

(* Such a step keeps the shape of the state.                               *)
LEMMA StepShape ==
  ASSUME IInv, NEW s \in Sockets, NEW r, StepOf(s, r)
  PROVE  /\ Numbered' /\ Shape' /\ Issuers'
         /\ socket'[s] = r /\ \A q \in Sockets : q # s => socket'[q] = socket[q]
<1> USE DEF StepOf
<1>1. Numbered'
  BY DEF IInv, Numbered, Known
<1>2. socket'[s] = r /\ \A q \in Sockets : q # s => socket'[q] = socket[q]
  BY DEF IInv, Shape
<1>3. Shape'
  <2>1. socket' \in [Sockets -> Socket]
    BY DEF IInv, Shape
  <2>2. \A q \in Sockets : socket'[q].ticket \in Known' \cup {None}
    BY <1>2 DEF IInv, Shape, Known
  <2> QED BY <2>1, <2>2 DEF IInv, Shape, Known
<1>4. Issuers'
  BY DEF IInv, Issuers, Known
<1> QED BY <1>1, <1>2, <1>3, <1>4

(* If the socket was past the gate with this ticket before, or is not past *)
(* it now, or took its ticket just now, a ticket opens one socket still.   *)
LEMMA StepUsed ==
  ASSUME IInv, NEW s \in Sockets, NEW r, StepOf(s, r),
         r.phase \in Past /\ r.ticket # None =>
             \/ socket[s].phase \in Past /\ socket[s].ticket = r.ticket
             \/ r.ticket \in kept /\ r.ticket \notin kept'
  PROVE  Used' /\ TicketOnce'
<1>1. socket'[s] = r /\ \A q \in Sockets : q # s => socket'[q] = socket[q]
  BY StepShape
<1>2. ASSUME NEW q \in Sockets, socket'[q].phase \in Past, socket'[q].ticket # None
      PROVE  socket'[q].ticket \notin kept'
  <2>1. CASE q # s
    BY <1>1, <1>2, <2>1 DEF IInv, Used, StepOf
  <2>2. CASE q = s
    BY <1>1, <1>2, <2>2 DEF IInv, Used, StepOf
  <2> QED BY <2>1, <2>2
<1>3. ASSUME NEW q \in Sockets, q # s, r.phase \in Past, r.ticket # None,
             socket[q].phase \in Past
      PROVE  r.ticket # socket[q].ticket
  <2>1. CASE socket[s].phase \in Past /\ socket[s].ticket = r.ticket
    BY <1>3, <2>1 DEF IInv, TicketOnce
  <2>2. CASE r.ticket \in kept
    BY <1>3, <2>2 DEF IInv, Used
  <2> QED BY <1>3, <2>1, <2>2
<1>4. ASSUME NEW p \in Sockets, NEW q \in Sockets, p # q, socket'[p].ticket # None,
             socket'[p].phase \in Past, socket'[q].phase \in Past
      PROVE  socket'[p].ticket # socket'[q].ticket
  <2>1. CASE p = s
    BY <1>1, <1>3, <1>4, <2>1
  <2>2. CASE q = s
    BY <1>1, <1>3, <1>4, <2>2
  <2>3. CASE p # s /\ q # s
    BY <1>1, <1>4, <2>3 DEF IInv, TicketOnce
  <2> QED BY <2>1, <2>2, <2>3
<1> QED BY <1>2, <1>4 DEF Used, TicketOnce

(* Whom the gate found for the other sockets stays as it was.              *)
LEMMA StepFound ==
  ASSUME IInv, NEW s \in Sockets, NEW r, StepOf(s, r)
  PROVE  /\ \A q \in Sockets : q # s => Found(q)' = Found(q)
         /\ Found(s)' = IF r.ticket # None THEN issued[r.ticket].who ELSE r.user
<1>1. socket'[s] = r /\ \A q \in Sockets : q # s => socket'[q] = socket[q]
  BY StepShape
<1> QED BY <1>1 DEF Found, StepOf

(* A socket that stays out of the hand-off leaves it as it was.            *)
LEMMA StepApart ==
  ASSUME IInv, NEW s \in Sockets, NEW r, StepOf(s, r), UNCHANGED waiting,
         r.phase # "accepted",
         r.phase = "authorize" =>
             r.who = IF r.ticket # None THEN issued[r.ticket].who ELSE r.user
  PROVE  Left' /\ Asked' /\ Handed'
<1>1. socket'[s] = r /\ \A q \in Sockets : q # s => socket'[q] = socket[q]
  BY StepShape
<1>2. /\ \A q \in Sockets : q # s => Found(q)' = Found(q)
      /\ Found(s)' = IF r.ticket # None THEN issued[r.ticket].who ELSE r.user
  BY StepFound
<1>3. Left'
  BY DEF IInv, Left
<1>4. Asked'
  BY <1>1, <1>2 DEF IInv, Asked
<1>5. ASSUME NEW q \in Sockets, socket'[q].phase = "accepted" PROVE Waits(q)'
  <2>1. q # s /\ socket[q].phase = "accepted" /\ socket'[q] = socket[q] /\ Found(q)' = Found(q)
    BY <1>1, <1>2, <1>5
  <2>2. Waits(q)
    BY <2>1 DEF IInv, Handed
  <2> QED BY <2>1, <2>2 DEF Waits, StepOf
<1> QED BY <1>3, <1>4, <1>5 DEF Handed

(* The record of a socket that is over.                                    *)
EndsAs(s, phase) == [Idle EXCEPT !.phase = phase, !.ticket = socket[s].ticket]

(* A socket that is over keeps its ticket and forgets the rest.            *)
LEMMA EndsRecord ==
  ASSUME IInv, NEW s \in Sockets, NEW phase \in Phases
  PROVE  LET r == EndsAs(s, phase)
         IN  r \in Socket /\ r.phase = phase /\ r.ticket = socket[s].ticket
<1>1. socket[s] \in Socket
  BY DEF IInv, Shape
<1> QED BY <1>1 DEF EndsAs, Idle, Socket, Somebody, Phases

(* The record of a socket that goes on, as who.                            *)
GoesOn(s, phase, who) == [socket[s] EXCEPT !.phase = phase, !.who = who]

(* A socket that goes on keeps its ticket and its user.                    *)
LEMMA GateRecord ==
  ASSUME IInv, NEW s \in Sockets, NEW phase \in Phases, NEW who \in Somebody
  PROVE  LET r == GoesOn(s, phase, who)
         IN  /\ r \in Socket /\ r.phase = phase /\ r.who = who
             /\ r.ticket = socket[s].ticket /\ r.user = socket[s].user
<1>1. socket[s] \in Socket
  BY DEF IInv, Shape
<1> QED BY <1>1 DEF GoesOn, Socket

(* A refusal, or an end, preserves the invariant: the socket is over, or   *)
(* was open and is closed with its ticket.                                 *)
LEMMA EndsInv ==
  ASSUME IInv, NEW s \in Sockets, NEW phase \in {"refused", "closed"},
         phase = "closed" => socket[s].phase \in {"open", "unwatched"},
         Ends(s, phase), kept' \subseteq kept,
         UNCHANGED <<now, inRedis, issued, issuing, access, waiting>>
  PROVE  IInv'
<1> DEFINE r == EndsAs(s, phase)
<1>1. r \in Socket /\ r.phase = phase /\ r.ticket = socket[s].ticket
  <2>1. phase \in Phases
    BY DEF Phases
  <2> QED BY <2>1, EndsRecord
<1>2. socket' = [socket EXCEPT ![s] = r]
  BY DEF Ends, EndsAs
<1> HIDE DEF r
<1>3. StepOf(s, r)
  BY <1>1, <1>2 DEF StepOf, IInv, Shape
<1>4. Numbered' /\ Shape' /\ Issuers'
  BY <1>3, StepShape
<1>5. Used' /\ TicketOnce'
  <2>1. r.phase \in Past => socket[s].phase \in Past /\ socket[s].ticket = r.ticket
    BY <1>1 DEF Past
  <2> QED BY <1>3, <2>1, StepUsed
<1>6. Left' /\ Asked' /\ Handed'
  <2>1. r.phase # "accepted" /\ r.phase # "authorize"
    BY <1>1
  <2> QED BY <1>3, <2>1, StepApart
<1> QED BY <1>4, <1>5, <1>6 DEF IInv

(* An upgrade that arrives has passed nothing yet.                         *)
LEMMA ArriveInv ==
  ASSUME NEW s \in Sockets, NEW t \in Ids \cup {None}, NEW u \in Members \cup {None}
  PROVE  IInv /\ Arrive(s, t, u) => IInv'
<1> SUFFICES ASSUME IInv, Arrive(s, t, u) PROVE IInv'
  OBVIOUS
<1> DEFINE r == [Idle EXCEPT !.phase = "gate", !.ticket = t, !.user = u]
<1>1. r \in Socket /\ r.phase = "gate" /\ r.ticket = t
  BY DEF Idle, Socket, Phases, Somebody
<1>2. socket' = [socket EXCEPT ![s] = r]
  BY DEF Arrive
<1> HIDE DEF r
<1>3. StepOf(s, r) /\ UNCHANGED waiting
  BY <1>1, <1>2 DEF StepOf, Arrive, ticketVars
<1>4. Numbered' /\ Shape' /\ Issuers'
  BY <1>3, StepShape
<1>5. Used' /\ TicketOnce'
  <2>1. r.phase \notin Past
    BY <1>1 DEF Past
  <2> QED BY <1>3, <2>1, StepUsed
<1>6. Left' /\ Asked' /\ Handed'
  <2>1. r.phase # "accepted" /\ r.phase # "authorize"
    BY <1>1
  <2> QED BY <1>3, <2>1, StepApart
<1> QED BY <1>4, <1>5, <1>6 DEF IInv

(* A ticket that is good is taken as it is found.                          *)
LEMMA ByTicketInv == ASSUME NEW s \in Sockets PROVE IInv /\ ByTicket(s) => IInv'
<1> SUFFICES ASSUME IInv, ByTicket(s) PROVE IInv'
  OBVIOUS
<1> DEFINE t == socket[s].ticket
           who == issued[t].who
           r == GoesOn(s, "authorize", who)
<1>0. /\ kept' = kept \ {t} /\ t # None
      /\ UNCHANGED <<now, inRedis, issued, issuing, access, waiting>>
  BY DEF ByTicket, Redeemed
<1>1. CASE Good(t)
  <2>1. t \in kept /\ t \in Known
    BY <1>1 DEF Good, IInv, Shape
  <2>2. who \in Somebody
    BY <2>1 DEF IInv, Numbered, Somebody
  <2>3. /\ r \in Socket /\ r.phase = "authorize" /\ r.who = who /\ r.ticket = t
    <3>1. "authorize" \in Phases
      BY DEF Phases
    <3> QED BY <2>2, <3>1, GateRecord
  <2>4. socket' = [socket EXCEPT ![s] = r]
    BY <1>1 DEF ByTicket, Gate, GoesOn
  <2> HIDE DEF r
  <2>5. StepOf(s, r)
    BY <2>1, <2>3, <2>4, <1>0 DEF StepOf
  <2>6. Numbered' /\ Shape' /\ Issuers'
    BY <2>5, StepShape
  <2>7. Used' /\ TicketOnce'
    <3>1. r.ticket \in kept /\ r.ticket \notin kept'
      BY <2>1, <2>3, <1>0
    <3> QED BY <2>5, <3>1, StepUsed
  <2>8. Left' /\ Asked' /\ Handed'
    <3>1. /\ r.phase # "accepted"
          /\ r.who = IF r.ticket # None THEN issued[r.ticket].who ELSE r.user
      BY <2>3, <1>0
    <3> QED BY <2>5, <3>1, <1>0, StepApart
  <2> QED BY <2>6, <2>7, <2>8 DEF IInv
<1>2. CASE ~Good(t)
  <2>1. Ends(s, "refused")
    BY <1>2 DEF ByTicket
  <2>2. kept' \subseteq kept
    BY <1>0
  <2> QED BY <2>1, <2>2, <1>0, EndsInv
<1> QED BY <1>1, <1>2

(* An answer of Redis that is lost lets nobody in.                         *)
LEMMA UnreachableInv ==
  ASSUME NEW s \in Sockets PROVE IInv /\ ByTicketUnreachable(s) => IInv'
<1> SUFFICES ASSUME IInv, ByTicketUnreachable(s) PROVE IInv'
  OBVIOUS
<1>1. /\ kept' \subseteq kept /\ Ends(s, "refused")
      /\ UNCHANGED <<now, inRedis, issued, issuing, access, waiting>>
  BY DEF ByTicketUnreachable, Redeemed
<1> QED BY <1>1, EndsInv

(* A credential of its own is no ticket.                                   *)
LEMMA ByUserInv == ASSUME NEW s \in Sockets PROVE IInv /\ ByUser(s) => IInv'
<1> SUFFICES ASSUME IInv, ByUser(s) PROVE IInv'
  OBVIOUS
<1> DEFINE who == socket[s].user
           r == GoesOn(s, "authorize", who)
<1>0. socket[s].ticket = None /\ UNCHANGED <<now, inRedis, issued, issuing, kept, access, waiting>>
  BY DEF ByUser, ticketVars
<1>1. CASE Passes(s)
  <2>1. who \in Somebody
    BY DEF IInv, Shape, Socket, Somebody
  <2>2. /\ r \in Socket /\ r.phase = "authorize" /\ r.who = who
        /\ r.ticket = None /\ r.user = who
    <3>1. "authorize" \in Phases
      BY DEF Phases
    <3> QED BY <2>1, <3>1, <1>0, GateRecord
  <2>3. socket' = [socket EXCEPT ![s] = r]
    BY <1>1 DEF ByUser, Gate, GoesOn
  <2> HIDE DEF r
  <2>4. StepOf(s, r)
    BY <2>2, <2>3, <1>0 DEF StepOf
  <2>5. Numbered' /\ Shape' /\ Issuers'
    BY <2>4, StepShape
  <2>6. Used' /\ TicketOnce'
    BY <2>2, <2>4, StepUsed
  <2>7. Left' /\ Asked' /\ Handed'
    <3>1. /\ r.phase # "accepted"
          /\ r.who = IF r.ticket # None THEN issued[r.ticket].who ELSE r.user
      BY <2>2
    <3> QED BY <2>4, <3>1, <1>0, StepApart
  <2> QED BY <2>5, <2>6, <2>7 DEF IInv
<1>2. CASE ~Passes(s)
  <2>1. Ends(s, "refused") /\ kept' \subseteq kept
    BY <1>0, <1>2 DEF ByUser
  <2> QED BY <2>1, <1>0, EndsInv
<1> QED BY <1>1, <1>2

(* An upgrade accepted leaves its principal, and drops only what waited    *)
(* out its time.                                                           *)
LEMMA AcceptInv == ASSUME NEW s \in Sockets PROVE IInv /\ Accept(s) => IInv'
<1> SUFFICES ASSUME IInv, Accept(s) PROVE IInv'
  OBVIOUS
<1> DEFINE r == [socket[s] EXCEPT !.phase = "accepted", !.who = None, !.left = now]
<1>0. /\ socket[s].phase = "authorize" /\ socket[s] \in Socket
      /\ now \in Nat
      /\ UNCHANGED <<now, inRedis, issued, issuing, kept, access>>
  BY SocketAuthAssumption DEF Accept, IInv, Shape, ticketVars
<1>1. /\ r \in Socket /\ r.phase = "accepted" /\ r.left = now
      /\ r.ticket = socket[s].ticket /\ r.user = socket[s].user
  BY <1>0 DEF Socket, Phases, Somebody
<1>2. socket' = [socket EXCEPT ![s] = r]
  BY DEF Accept
<1> HIDE DEF r
<1>3. StepOf(s, r)
  BY <1>0, <1>1, <1>2 DEF StepOf, IInv, Shape
<1>4. Numbered' /\ Shape' /\ Issuers'
  BY <1>3, StepShape
<1>5. Used' /\ TicketOnce'
  <2>1. socket[s].phase \in Past /\ socket[s].ticket = r.ticket
    BY <1>0, <1>1 DEF Past
  <2> QED BY <1>3, <2>1, StepUsed
<1>6. socket'[s] = r /\ \A q \in Sockets : q # s => socket'[q] = socket[q]
  BY <1>3, StepShape
<1>7. /\ \A q \in Sockets : q # s => Found(q)' = Found(q)
      /\ Found(s)' = Found(s)
  BY <1>1, <1>3, StepFound DEF Found
<1>8. /\ DOMAIN waiting' = Purged \cup {s}
      /\ waiting'[s] = [until |-> now + HandoffTTL, who |-> socket[s].who]
      /\ \A k \in Purged : k # s => waiting'[k] = waiting[k]
  BY DEF Accept
<1>9. Left'
  <2>1. DOMAIN waiting' \subseteq Sockets
    BY <1>8 DEF Purged, IInv, Left
  <2>2. ASSUME NEW k \in DOMAIN waiting'
        PROVE  waiting'[k].who \in Somebody /\ waiting'[k].until \in Nat
    <3>1. CASE k = s
      BY <3>1, <1>0, <1>8, SocketAuthAssumption DEF Socket
    <3>2. CASE k # s
      BY <3>2, <2>2, <1>8 DEF Purged, IInv, Left
    <3> QED BY <3>1, <3>2
  <2> QED BY <2>1, <2>2 DEF Left
<1>10. Asked'
  BY <1>1, <1>6, <1>7 DEF IInv, Asked
<1>11. ASSUME NEW q \in Sockets, socket'[q].phase = "accepted" PROVE Waits(q)'
  <2>1. CASE q = s
    <3>1. waiting'[s].who = Found(s)' /\ waiting'[s].until = r.left + HandoffTTL
      BY <1>0, <1>1, <1>7, <1>8 DEF IInv, Asked
    <3> QED BY <2>1, <3>1, <1>6, <1>8 DEF Waits
  <2>2. CASE q # s
    <3>1. socket[q].phase = "accepted" /\ socket'[q] = socket[q] /\ Found(q)' = Found(q)
      BY <2>2, <1>6, <1>7, <1>11
    <3>2. Waits(q)
      BY <3>1 DEF IInv, Handed
    <3>3. CASE q \in Purged
      <4>1. q \in DOMAIN waiting /\ q \in DOMAIN waiting' /\ waiting'[q] = waiting[q]
        BY <2>2, <3>3, <1>8 DEF Purged
      <4> QED BY <3>1, <3>2, <4>1 DEF Waits
    <3>4. CASE q \notin Purged
      <4>1. q \notin DOMAIN waiting'
        BY <2>2, <3>4, <1>8
      <4>2. now > socket[q].left + HandoffTTL
        <5>1. CASE q \in DOMAIN waiting
          <6>1. waiting[q].until = socket[q].left + HandoffTTL /\ waiting[q].until \in Nat
            BY <3>2, <5>1 DEF Waits, IInv, Left
          <6> QED BY <3>4, <5>1, <6>1, <1>0 DEF Purged
        <5>2. CASE q \notin DOMAIN waiting
          BY <3>2, <5>2 DEF Waits
        <5> QED BY <5>1, <5>2
      <4> QED BY <3>1, <4>1, <4>2, <1>0 DEF Waits
    <3> QED BY <3>3, <3>4
  <2> QED BY <2>1, <2>2
<1> QED BY <1>4, <1>5, <1>9, <1>10, <1>11 DEF IInv, Handed

(* A handler that starts takes what waits for its own socket.              *)
LEMMA StartInv == ASSUME NEW s \in Sockets PROVE IInv /\ Start(s) => IInv'
<1> SUFFICES ASSUME IInv, Start(s) PROVE IInv'
  OBVIOUS
<1> DEFINE who == waiting[s].who
           r == GoesOn(s, "open", who)
<1>0. /\ socket[s].phase = "accepted" /\ s \in DOMAIN waiting
      /\ UNCHANGED <<now, inRedis, issued, issuing, kept, access>>
  BY DEF Start, ticketVars
<1>1. r \in Socket /\ r.phase = "open" /\ r.ticket = socket[s].ticket
  <2>1. "open" \in Phases /\ who \in Somebody
    BY <1>0 DEF Phases, IInv, Left
  <2> QED BY <2>1, GateRecord
<1>2. socket' = [socket EXCEPT ![s] = r]
  BY DEF Start, Gate, GoesOn
<1> HIDE DEF r
<1>3. StepOf(s, r)
  BY <1>0, <1>1, <1>2 DEF StepOf, IInv, Shape
<1>4. Numbered' /\ Shape' /\ Issuers'
  BY <1>3, StepShape
<1>5. Used' /\ TicketOnce'
  <2>1. socket[s].phase \in Past /\ socket[s].ticket = r.ticket
    BY <1>0, <1>1 DEF Past
  <2> QED BY <1>3, <2>1, StepUsed
<1>6. socket'[s] = r /\ \A q \in Sockets : q # s => socket'[q] = socket[q]
  BY <1>3, StepShape
<1>7. \A q \in Sockets : q # s => Found(q)' = Found(q)
  BY <1>3, StepFound
<1>8. /\ DOMAIN waiting' = DOMAIN waiting \ {s}
      /\ \A k \in DOMAIN waiting' : waiting'[k] = waiting[k]
  BY DEF Start, Without
<1>9. Left'
  BY <1>8 DEF IInv, Left
<1>10. Asked'
  BY <1>1, <1>6, <1>7 DEF IInv, Asked
<1>11. ASSUME NEW q \in Sockets, socket'[q].phase = "accepted" PROVE Waits(q)'
  <2>1. q # s /\ socket[q].phase = "accepted" /\ socket'[q] = socket[q] /\ Found(q)' = Found(q)
    BY <1>1, <1>6, <1>7, <1>11
  <2>2. Waits(q)
    BY <2>1 DEF IInv, Handed
  <2>3. /\ q \in DOMAIN waiting' <=> q \in DOMAIN waiting
        /\ q \in DOMAIN waiting => waiting'[q] = waiting[q]
    BY <1>8, <2>1
  <2> QED BY <2>1, <2>2, <2>3, <1>0 DEF Waits
<1> QED BY <1>4, <1>5, <1>9, <1>10, <1>11 DEF IInv, Handed

(* A re-check that passes changes the principal of an open socket only.    *)
LEMMA RecheckPassesInv ==
  ASSUME NEW s \in Sockets PROVE IInv /\ RecheckPasses(s) => IInv'
<1> SUFFICES ASSUME IInv, RecheckPasses(s) PROVE IInv'
  OBVIOUS
<1> DEFINE who == socket[s].user
           r == GoesOn(s, "open", who)
<1>0. socket[s].phase = "open" /\ UNCHANGED <<now, inRedis, issued, issuing, kept, access, waiting>>
  BY DEF RecheckPasses, ticketVars
<1>1. r \in Socket /\ r.phase = "open" /\ r.ticket = socket[s].ticket
  <2>1. "open" \in Phases /\ who \in Somebody
    BY DEF Phases, IInv, Shape, Socket, Somebody
  <2> QED BY <2>1, GateRecord
<1>2. socket' = [socket EXCEPT ![s] = r]
  BY DEF RecheckPasses, Gate, GoesOn
<1> HIDE DEF r
<1>3. StepOf(s, r)
  BY <1>0, <1>1, <1>2 DEF StepOf, IInv, Shape
<1>4. Numbered' /\ Shape' /\ Issuers'
  BY <1>3, StepShape
<1>5. Used' /\ TicketOnce'
  <2>1. socket[s].phase \in Past /\ socket[s].ticket = r.ticket
    BY <1>0, <1>1 DEF Past
  <2> QED BY <1>3, <2>1, StepUsed
<1>6. Left' /\ Asked' /\ Handed'
  <2>1. r.phase # "accepted" /\ r.phase # "authorize"
    BY <1>1
  <2> QED BY <1>0, <1>3, <2>1, StepApart
<1> QED BY <1>4, <1>5, <1>6 DEF IInv

(* A socket left open by a close that was dropped keeps its principal.     *)
LEMMA RecheckUnheardInv ==
  ASSUME NEW s \in Sockets PROVE IInv /\ RecheckUnheard(s) => IInv'
<1> SUFFICES ASSUME IInv, RecheckUnheard(s) PROVE IInv'
  OBVIOUS
<1> DEFINE who == socket[s].who
           r == GoesOn(s, "unwatched", who)
<1>0. /\ socket[s].phase = "open"
      /\ UNCHANGED <<now, inRedis, issued, issuing, kept, access, waiting>>
  BY DEF RecheckUnheard, ticketVars
<1>1. r \in Socket /\ r.phase = "unwatched" /\ r.ticket = socket[s].ticket
  <2>1. "unwatched" \in Phases /\ who \in Somebody
    BY DEF Phases, IInv, Shape, Socket, Somebody
  <2> QED BY <2>1, GateRecord
<1>2. socket' = [socket EXCEPT ![s] = r]
  BY DEF RecheckUnheard, Gate, GoesOn
<1> HIDE DEF r
<1>3. StepOf(s, r)
  BY <1>0, <1>1, <1>2 DEF StepOf, IInv, Shape
<1>4. Numbered' /\ Shape' /\ Issuers'
  BY <1>3, StepShape
<1>5. Used' /\ TicketOnce'
  <2>1. socket[s].phase \in Past /\ socket[s].ticket = r.ticket
    BY <1>0, <1>1 DEF Past
  <2> QED BY <1>3, <2>1, StepUsed
<1>6. Left' /\ Asked' /\ Handed'
  <2>1. r.phase # "accepted" /\ r.phase # "authorize"
    BY <1>1
  <2> QED BY <1>0, <1>3, <2>1, StepApart
<1> QED BY <1>4, <1>5, <1>6 DEF IInv

(* A provider that cannot be asked changes nothing but the outages left.   *)
LEMMA RecheckFailsInv ==
  ASSUME NEW s \in Sockets PROVE IInv /\ RecheckFails(s) => IInv'
BY DEF RecheckFails, IInv, Numbered, Shape, Left, Issuers, Used, TicketOnce, Asked, Handed, Waits,
       Found, Known, ticketVars

(* The steps that only end a socket.                                       *)
LEMMA EndingInv ==
  ASSUME NEW s \in Sockets
  PROVE  IInv /\ (\/ AuthorizeRefuses(s) \/ StartWithout(s) \/ ClientLeaves(s)
                  \/ HandlerReturns(s) \/ RecheckRefuses(s)) => IInv'
<1> SUFFICES ASSUME IInv, \/ AuthorizeRefuses(s) \/ StartWithout(s) \/ ClientLeaves(s)
                          \/ HandlerReturns(s) \/ RecheckRefuses(s)
             PROVE  IInv'
  OBVIOUS
<1>1. /\ kept' \subseteq kept
      /\ UNCHANGED <<now, inRedis, issued, issuing, access, waiting>>
      /\ Ends(s, "refused") \/ (Ends(s, "closed") /\ socket[s].phase \in {"open", "unwatched"})
  BY DEF AuthorizeRefuses, StartWithout, ClientLeaves, HandlerReturns, RecheckRefuses,
         ticketVars
<1> QED BY <1>1, EndsInv

-----------------------------------------------------------------------------
(* Every step preserves the invariant.                                     *)
LEMMA NextInv == IInv /\ [Next]_vars => IInv'
<1> SUFFICES ASSUME IInv, [Next]_vars PROVE IInv'
  OBVIOUS
<1>1. CASE UNCHANGED vars
  BY <1>1, StutterInv
<1>2. CASE Tick \/ Issue \/ (\E u \in Members : Revoke(u))
  BY <1>2, TickInv, IssueInv, RevokeInv
<1>3. CASE \E s \in Sockets : \E t \in Ids \cup {None}, u \in Members \cup {None} :
              Arrive(s, t, u)
  BY <1>3, ArriveInv
<1>4. ASSUME NEW s \in Sockets,
             ByTicket(s) \/ ByTicketUnreachable(s) \/ ByUser(s) \/ Accept(s) \/ Start(s)
      PROVE  IInv'
  BY <1>4, ByTicketInv, UnreachableInv, ByUserInv, AcceptInv, StartInv
<1>5. ASSUME NEW s \in Sockets,
             \/ AuthorizeRefuses(s) \/ StartWithout(s) \/ ClientLeaves(s)
             \/ HandlerReturns(s) \/ Recheck(s)
      PROVE  IInv'
  BY <1>5, EndingInv, RecheckPassesInv, RecheckUnheardInv, RecheckFailsInv DEF Recheck
<1> QED BY <1>1, <1>2, <1>3, <1>4, <1>5 DEF Next

(* The invariant holds throughout.                                         *)
LEMMA Invariance == Spec => []IInv
BY InitInv, NextInv, PTL DEF Spec

(* One ticket opens one socket, in whatever order upgrades, refusals and   *)
(* lost answers come and whatever the loops that issue drop (Tickets.issue,*)
(* Tickets._redeem); and no other upgrade takes away a principal that has  *)
(* not waited out its time (_leave).                                       *)
THEOREM TicketsSafe == Spec => []Safety
BY Invariance, Implied, PTL

(* The handler of a socket starts as whoever the gate found for that       *)
(* socket, though it runs on another request and other sockets come and    *)
(* go between (_leave, receive).                                           *)
THEOREM HandlerStartsAsFound == Spec => StartsAsFound
<1> DEFINE A == \A s \in Sockets :
                   socket[s].phase = "accepted" /\ socket'[s].phase = "open" =>
                      socket'[s].who = IF socket[s].ticket # None
                                       THEN issued[socket[s].ticket].who
                                       ELSE socket[s].user
<1>1. IInv /\ [Next]_vars => [A]_vars
  <2> SUFFICES ASSUME IInv, Next, NEW s \in Sockets,
                      socket[s].phase = "accepted", socket'[s].phase = "open"
               PROVE  socket'[s].who = Found(s)
    BY DEF Found
  <2>0. socket \in [Sockets -> Socket] /\ "open" # "accepted"
    BY DEF IInv, Shape
  <2>1. CASE Tick \/ Issue \/ (\E u \in Members : Revoke(u))
    <3>1. socket' = socket
      BY <2>1 DEF Tick, Issue, Revoke, IssueUnreachable, IssueKept, IssueBegin, Trim, Insert,
             ListExpired, PopNext, CountOver, ListOldest, Trimmed, TrimCutShort, NotIssuing
    <3> QED BY <3>1
  <2>2. ASSUME NEW q \in Sockets, NEW t \in Ids \cup {None}, NEW u \in Members \cup {None},
               Arrive(q, t, u)
        PROVE  FALSE
    BY <2>0, <2>2 DEF Arrive, Idle
  <2>3. ASSUME NEW q \in Sockets, Start(q) PROVE socket'[s].who = Found(s)
    <3>1. q = s
      BY <2>0, <2>3 DEF Start, Gate
    <3>2. socket'[s].who = waiting[s].who
      BY <2>0, <2>3, <3>1 DEF Start, Gate, Socket
    <3>3. Waits(s) /\ s \in DOMAIN waiting
      BY <2>3, <3>1 DEF IInv, Handed, Start
    <3> QED BY <3>2, <3>3 DEF Waits
  <2>4. ASSUME NEW q \in Sockets, NEW phase \in {"refused", "closed"}, Ends(q, phase)
        PROVE  FALSE
    BY <2>0, <2>4 DEF Ends, Idle
  <2>5. ASSUME NEW q \in Sockets, NEW who, Gate(q, "authorize", who)
        PROVE  FALSE
    BY <2>0, <2>5 DEF Gate, Socket
  <2>6. ASSUME NEW q \in Sockets, Accept(q) PROVE FALSE
    BY <2>0, <2>6 DEF Accept, Socket
  <2>7. ASSUME NEW q \in Sockets, RecheckPasses(q) \/ RecheckUnheard(q) \/ RecheckFails(q)
        PROVE  FALSE
    BY <2>0, <2>7 DEF RecheckPasses, RecheckUnheard, RecheckFails, Gate, Socket
  <2>8. ASSUME NEW q \in Sockets,
               \/ ByTicket(q) \/ ByTicketUnreachable(q) \/ ByUser(q) \/ AuthorizeRefuses(q)
               \/ StartWithout(q) \/ ClientLeaves(q) \/ HandlerReturns(q) \/ RecheckRefuses(q)
        PROVE  FALSE
    BY <2>8, <2>4, <2>5 DEF ByTicket, ByTicketUnreachable, ByUser, AuthorizeRefuses,
           StartWithout, ClientLeaves, HandlerReturns, RecheckRefuses
  <2> QED BY <2>1, <2>2, <2>3, <2>6, <2>7, <2>8 DEF Next, Recheck
<1>2. Spec => [][Next]_vars
  BY PTL DEF Spec
<1>3. StartsAsFound <=> [][A]_vars
  BY DEF StartsAsFound
<1> QED BY <1>1, <1>2, <1>3, Invariance, PTL

-----------------------------------------------------------------------------
(* SsePump: the stream a client is sent has no gap                         *)

Count(q, n) == Cardinality({k \in 1 .. n : q[k] # 0})

(* The number of events in part of a channel is a number.                  *)
LEMMA CountIsNat ==
  ASSUME NEW q, NEW n \in Nat
  PROVE  Count(q, n) \in Nat /\ IsFiniteSet({k \in 1 .. n : q[k] # 0})
<1>1. IsFiniteSet(1 .. n)
  BY FS_Interval
<1>2. IsFiniteSet({k \in 1 .. n : q[k] # 0})
  BY <1>1, FS_Subset
<1> QED BY <1>2, FS_CardinalityType DEF Count

(* Nothing is in nothing.                                                  *)
LEMMA CountNone ==
  ASSUME NEW q
  PROVE  Count(q, 0) = 0
<1>1. {k \in 1 .. 0 : q[k] # 0} = {}
  OBVIOUS
<1> QED BY <1>1, FS_EmptySet DEF Count

(* One more at the end counts if it is no ping.                            *)
LEMMA CountAppended ==
  ASSUME NEW q \in Seq(Nat), NEW x \in Nat
  PROVE  /\ \A n \in 0 .. Len(q) : Count(Append(q, x), n) = Count(q, n)
         /\ Count(Append(q, x), Len(q) + 1) =
               IF x = 0 THEN Count(q, Len(q)) ELSE Count(q, Len(q)) + 1
<1> DEFINE p == Append(q, x)
           S == {k \in 1 .. Len(q) : q[k] # 0}
           T == {k \in 1 .. Len(q) + 1 : p[k] # 0}
<1>1. /\ Len(q) \in Nat /\ p[Len(q) + 1] = x
      /\ \A k \in 1 .. Len(q) : p[k] = q[k]
  OBVIOUS
<1> HIDE DEF p
<1>2. ASSUME NEW n \in 0 .. Len(q) PROVE Count(p, n) = Count(q, n)
  <2>1. {k \in 1 .. n : p[k] # 0} = {k \in 1 .. n : q[k] # 0}
    BY <1>1
  <2> QED BY <2>1 DEF Count
<1>3. Len(q) + 1 \notin S
  BY <1>1
<1>4. IsFiniteSet(S)
  BY <1>1, CountIsNat
<1>5. CASE x = 0
  <2>1. T = S
    BY <1>1, <1>5
  <2> QED BY <1>2, <1>5, <2>1 DEF Count, p
<1>6. CASE x # 0
  <2>1. T = S \cup {Len(q) + 1}
    BY <1>1, <1>6
  <2>2. Cardinality(T) = Cardinality(S) + 1
    BY <1>3, <1>4, <2>1, FS_AddElement
  <2> QED BY <1>2, <1>6, <2>2 DEF Count, p
<1> QED BY <1>5, <1>6

(* One taken off the front counted if it was no ping.                      *)
LEMMA CountTaken ==
  ASSUME NEW q \in Seq(Nat), q # <<>>, NEW n \in 0 .. Len(q) - 1
  PROVE  Count(q, n + 1) = IF q[1] = 0 THEN Count(Tail(q), n) ELSE Count(Tail(q), n) + 1
<1> DEFINE p == Tail(q)
           S == {k \in 1 .. n : p[k] # 0}
           T == {k \in 2 .. n + 1 : q[k] # 0}
           U == {k \in 1 .. n + 1 : q[k] # 0}
           f == [k \in S |-> k + 1]
<1>1. /\ Len(q) \in Nat /\ Len(q) >= 1 /\ n \in Nat
      /\ \A k \in 1 .. n : p[k] = q[k + 1]
  OBVIOUS
<1> HIDE DEF p
<1>2. IsFiniteSet(S)
  BY <1>1, CountIsNat
<1>3. f \in Bijection(S, T)
  <2>1. f \in [S -> T]
    BY <1>1
  <2>2. \A j, k \in S : f[j] = f[k] => j = k
    OBVIOUS
  <2>3. \A t \in T : t - 1 \in S /\ f[t - 1] = t
    BY <1>1
  <2> HIDE DEF f, S, T
  <2>4. f \in Injection(S, T)
    BY <2>1, <2>2 DEF Injection, IsInjective
  <2>5. f \in Surjection(S, T)
    BY <2>1, <2>3 DEF Surjection
  <2> QED BY <2>4, <2>5 DEF Bijection
<1>4. IsFiniteSet(T) /\ Cardinality(T) = Cardinality(S)
  BY <1>2, <1>3, FS_Bijection DEF ExistsBijection
<1>5. CASE q[1] = 0
  <2>1. U = T
    BY <1>1, <1>5
  <2> QED BY <1>4, <1>5, <2>1 DEF Count, p
<1>6. CASE q[1] # 0
  <2>1. U = T \cup {1} /\ 1 \notin T
    BY <1>1, <1>6
  <2>2. Cardinality(U) = Cardinality(T) + 1
    BY <1>4, <2>1, FS_AddElement
  <2> QED BY <1>4, <1>6, <2>2 DEF Count, p
<1> QED BY <1>5, <1>6

(* Where the pump is, what it holds and whom it knows of.                  *)
SsePlace ==
    /\ pump \in {"sending", "full"} => pending = "none" /\ held = <<produced>>
    /\ pump \notin {"sending", "full"} => held = <<>>
    /\ pending = "event" \/ pump \in {"sending", "full"} => produced # 0
    /\ gone # "no" => client # "reading"
    /\ client = "told" => pump = "over"

(* What the client has, and what the channel has for it.                   *)
SseChannel ==
    client # "gone" =>
        /\ \A k \in DOMAIN got : got[k] = k
        /\ \A k \in DOMAIN chunks : chunks[k] # 0 => chunks[k] = Len(got) + Count(chunks, k)

(* As long as the pump goes on, every event of the source is somewhere.    *)
SseCount ==
    client # "gone" /\ pump \in {"wait", "sending", "full"} =>
        produced = Len(got) + Count(chunks, Len(chunks)) +
                   IF pending = "event" \/ pump # "wait" THEN 1 ELSE 0

SseInv == Ss!TypeOK /\ SsePlace /\ SseChannel /\ SseCount

(* The invariant is enough.                                                *)
LEMMA SseImplied ==
  ASSUME SseInv
  PROVE  SseSafety
<1>1. ASSUME client # "gone", NEW k \in DOMAIN held
      PROVE  held[k] = Len(got) + Count(chunks, Len(chunks)) + k
  <2>1. pump \in {"sending", "full"} /\ held = <<produced>> /\ k = 1
    BY <1>1 DEF SseInv, SsePlace
  <2>2. produced = Len(got) + Count(chunks, Len(chunks)) + 1
    BY <1>1, <2>1 DEF SseInv, SseCount
  <2> QED BY <2>1, <2>2
<1>2. ASSUME NEW n PROVE Ss!Events(n) = Count(chunks, n)
  BY DEF Ss!Events, Count, Cardinality, Ss!Cardinality
<1>3. Ss!NoGap
  BY <1>1, <1>2 DEF SseInv, SseChannel, Ss!NoGap
<1> QED BY <1>3 DEF SseInv, SseSafety, Ss!Safety

(* A sequence over fewer elements is one over more.                        *)
LEMMA SeqWider ==
  ASSUME NEW S, NEW T, S \subseteq T, NEW q \in Seq(S)
  PROVE  q \in Seq(T)
<1>1. Len(q) \in Nat /\ q \in [1 .. Len(q) -> S]
  OBVIOUS
<1>2. q \in [1 .. Len(q) -> T]
  BY <1>1
<1> QED BY <1>1, <1>2

(* What is in the channel and with the client are numbers.                 *)
LEMMA SseTypes ==
  ASSUME Ss!TypeOK
  PROVE  /\ produced \in Nat /\ chunks \in Seq(Nat) /\ got \in Seq(Nat)
         /\ Len(chunks) \in Nat /\ Len(got) \in Nat
<1>0. 0 .. MaxEvents \subseteq Nat /\ 1 .. MaxEvents \subseteq Nat
  BY ServingAssumption DEF Ss!SsePumpAssumption
<1>1. produced \in Nat /\ chunks \in Seq(0 .. MaxEvents) /\ got \in Seq(1 .. MaxEvents)
  BY DEF Ss!TypeOK
<1>2. chunks \in Seq(Nat)
  BY <1>0, <1>1, SeqWider
<1>3. got \in Seq(Nat)
  BY <1>0, <1>1, SeqWider
<1> QED BY <1>1, <1>2, <1>3

(* The pump, the source and the client keep their places.                  *)
LEMMA SsePlaced ==
  ASSUME Ss!TypeOK, SsePlace, Ss!Next
  PROVE  Ss!TypeOK' /\ SsePlace'
<1> USE DEF Ss!TypeOK, SsePlace
<1>0. Buffer \in Nat \ {0} /\ MaxEvents \in Nat
  BY ServingAssumption DEF Ss!SsePumpAssumption
<1>1. CASE Ss!Yield
  BY <1>0, <1>1 DEF Ss!Yield
<1>2. CASE Ss!SourceEnds
  BY <1>2 DEF Ss!SourceEnds
<1>3. CASE Ss!Break \/ Ss!TakeEnd \/ Ss!TakeUnsendable
  BY <1>3 DEF Ss!Break, Ss!TakeEnd, Ss!TakeUnsendable, Ss!Waits
<1>4. CASE Ss!TakeEvent
  <2>1. produced \in 1 .. MaxEvents /\ held' = <<produced>>
    BY <1>0, <1>4 DEF Ss!TakeEvent
  <2> QED BY <1>4, <2>1 DEF Ss!TakeEvent, Ss!Waits
<1>5. CASE Ss!SendChunk \/ Ss!Retry
  <2>1. /\ UNCHANGED <<produced, gone, sourceClosed, client, got>>
        /\ produced \in 1 .. MaxEvents /\ held = <<produced>> /\ pump \in {"sending", "full"}
    BY <1>0, <1>5 DEF Ss!SendChunk, Ss!Retry
  <2>2. CASE Ss!Sent /\ chunks' = chunks \o held /\ Ss!Again
    <3>1. chunks' \in Seq(0 .. MaxEvents) /\ Len(chunks') = Len(chunks) + 1
      BY <1>0, <2>1, <2>2
    <3>2. Len(chunks') <= Buffer
      BY <1>0, <2>2, <3>1 DEF Ss!Sent
    <3> QED BY <2>1, <2>2, <3>1, <3>2 DEF Ss!Again
  <2>3. CASE UNCHANGED <<chunks, pending, held>> /\ pump' \in {"sending", "full"}
    BY <2>1, <2>3
  <2>4. CASE Ss!Again /\ UNCHANGED chunks
    BY <2>1, <2>4 DEF Ss!Again
  <2>5. CASE pump' = "ending" /\ held' = <<>> /\ UNCHANGED <<chunks, pending>>
    BY <2>1, <2>5
  <2> QED BY <1>5, <2>2, <2>3, <2>4, <2>5 DEF Ss!SendChunk, Ss!Retry
<1>6. CASE Ss!Ping
  <2>1. chunks' \in Seq(0 .. MaxEvents) /\ Len(chunks') <= Buffer
    <3>1. CASE Ss!Sent
      BY <1>0, <1>6, <3>1 DEF Ss!Ping, Ss!Sent
    <3>2. CASE ~Ss!Sent
      BY <1>6, <3>2 DEF Ss!Ping
    <3> QED BY <3>1, <3>2
  <2> QED BY <1>6, <2>1 DEF Ss!Ping, Ss!Waits
<1>7. CASE Ss!End
  BY <1>7 DEF Ss!End
<1>8. CASE Ss!ClientReads
  <2>1. CASE chunks # <<>>
    <3>1. Head(chunks) \in 0 .. MaxEvents /\ Tail(chunks) \in Seq(0 .. MaxEvents)
          /\ Len(Tail(chunks)) <= Buffer
      BY <1>0, <2>1
    <3>2. Head(chunks) # 0 => Append(got, Head(chunks)) \in Seq(1 .. MaxEvents)
      BY <1>0, <3>1
    <3> QED BY <1>8, <2>1, <3>1, <3>2 DEF Ss!ClientReads
  <2>2. CASE chunks = <<>>
    BY <1>8, <2>2 DEF Ss!ClientReads
  <2> QED BY <2>1, <2>2
<1>9. CASE Ss!ClientLeaves \/ Ss!Notice \/ Ss!ClientLeft
  BY <1>9 DEF Ss!ClientLeaves, Ss!Notice, Ss!ClientLeft
<1> QED
  BY <1>1, <1>2, <1>3, <1>4, <1>5, <1>6, <1>7, <1>8, <1>9 DEF Ss!Next, Ss!Pump

(* An event the pump passes on is the next one, and a ping is none.        *)
LEMMA SseSent ==
  ASSUME SseInv, SsePlace', NEW x \in {0, produced}, client # "gone",
         UNCHANGED <<got, client, produced>>,
         chunks' = Append(chunks, x),
         x # 0 => pump \in {"sending", "full"} /\ pump' = "wait" /\ pending' # "event",
         x = 0 => UNCHANGED <<pump, pending>>
  PROVE  SseChannel' /\ SseCount'
<1>0. /\ chunks \in Seq(Nat) /\ x \in Nat /\ Len(got) \in Nat
      /\ Len(chunks) \in Nat /\ produced \in Nat
  BY SseTypes DEF SseInv
<1>1. /\ Len(chunks') = Len(chunks) + 1 /\ chunks'[Len(chunks) + 1] = x
      /\ DOMAIN chunks' = 1 .. Len(chunks) + 1 /\ DOMAIN chunks = 1 .. Len(chunks)
      /\ \A k \in DOMAIN chunks : chunks'[k] = chunks[k]
  BY <1>0
<1>2. /\ \A n \in 0 .. Len(chunks) : Count(chunks', n) = Count(chunks, n)
      /\ Count(chunks', Len(chunks) + 1) =
            IF x = 0 THEN Count(chunks, Len(chunks)) ELSE Count(chunks, Len(chunks)) + 1
  BY <1>0, CountAppended
<1>3. Count(chunks, Len(chunks)) \in Nat
  BY <1>0, CountIsNat
<1>4. x # 0 => x = Len(got) + Count(chunks, Len(chunks)) + 1
  BY DEF SseInv, SseCount
<1>5. SseChannel'
  <2>1. ASSUME NEW k \in DOMAIN chunks', chunks'[k] # 0
        PROVE  chunks'[k] = Len(got') + Count(chunks', k)
    <3>1. CASE k \in DOMAIN chunks
      <4>1. Count(chunks', k) = Count(chunks, k) /\ chunks'[k] = chunks[k]
        BY <1>0, <1>1, <1>2, <3>1
      <4> QED BY <2>1, <3>1, <4>1 DEF SseInv, SseChannel
    <3>2. CASE k = Len(chunks) + 1
      BY <1>0, <1>1, <1>2, <1>3, <1>4, <2>1, <3>2
    <3> QED BY <1>0, <1>1, <2>1, <3>1, <3>2
  <2> QED BY <2>1 DEF SseInv, SseChannel
<1>6. SseCount'
  <2>1. CASE x = 0
    BY <1>1, <1>2, <2>1 DEF SseInv, SseCount
  <2>2. CASE x # 0
    BY <1>0, <1>1, <1>2, <1>3, <1>4, <2>2 DEF SseCount
  <2> QED BY <2>1, <2>2
<1> QED BY <1>5, <1>6

(* The client takes a chunk: an event is the one after those it has.       *)
LEMMA SseTaken ==
  ASSUME SseInv, client # "gone", chunks # <<>>, chunks' = Tail(chunks),
         got' = IF Head(chunks) = 0 THEN got ELSE Append(got, Head(chunks)),
         UNCHANGED <<client, produced, pump, pending>>
  PROVE  SseChannel' /\ SseCount'
<1>0. /\ chunks \in Seq(Nat) /\ got \in Seq(Nat) /\ Len(got) \in Nat
      /\ Len(chunks) \in Nat /\ produced \in Nat
  BY SseTypes DEF SseInv
<1>1. /\ Len(chunks) >= 1 /\ Len(chunks') = Len(chunks) - 1 /\ Head(chunks) = chunks[1]
      /\ DOMAIN chunks = 1 .. Len(chunks) /\ DOMAIN chunks' = 1 .. Len(chunks) - 1
      /\ \A k \in DOMAIN chunks' : chunks'[k] = chunks[k + 1]
  BY <1>0
<1>2. \A n \in 0 .. Len(chunks) - 1 :
         /\ Count(chunks', n) \in Nat
         /\ Count(chunks, n + 1) = IF chunks[1] = 0 THEN Count(chunks', n)
                                   ELSE Count(chunks', n) + 1
  <2> SUFFICES ASSUME NEW n \in 0 .. Len(chunks) - 1
               PROVE  /\ Count(chunks', n) \in Nat
                      /\ Count(chunks, n + 1) = IF chunks[1] = 0 THEN Count(chunks', n)
                                                ELSE Count(chunks', n) + 1
    OBVIOUS
  <2>1. n \in Nat
    BY <1>0
  <2>2. Count(chunks', n) \in Nat
    BY <2>1, CountIsNat
  <2>3. Count(chunks, n + 1) = IF chunks[1] = 0 THEN Count(Tail(chunks), n)
                               ELSE Count(Tail(chunks), n) + 1
    BY <1>0, CountTaken
  <2> QED BY <2>2, <2>3
<1>3. CASE chunks[1] = 0
  <2>1. got' = got /\ \A n \in 0 .. Len(chunks) - 1 : Count(chunks', n) = Count(chunks, n + 1)
    BY <1>1, <1>2, <1>3
  <2>2. ASSUME NEW k \in DOMAIN chunks', chunks'[k] # 0
        PROVE  chunks'[k] = Len(got') + Count(chunks', k)
    <3>1. k + 1 \in DOMAIN chunks /\ k \in 0 .. Len(chunks) - 1
      BY <1>0, <1>1
    <3> QED BY <1>1, <2>1, <2>2, <3>1 DEF SseInv, SseChannel
  <2>3. Count(chunks', Len(chunks')) = Count(chunks, Len(chunks))
    <3>1. Len(chunks) - 1 \in 0 .. Len(chunks) - 1 /\ (Len(chunks) - 1) + 1 = Len(chunks)
      BY <1>0, <1>1
    <3> QED BY <1>1, <2>1, <3>1
  <2> QED BY <2>1, <2>2, <2>3 DEF SseInv, SseChannel, SseCount
<1>4. CASE chunks[1] # 0
  <2>0. Count(chunks, 1) = 1
    <3>1. Count(chunks', 0) = 0
      BY CountNone
    <3>2. 0 \in 0 .. Len(chunks) - 1 /\ 0 + 1 = 1
      BY <1>0, <1>1
    <3> QED BY <1>2, <1>4, <3>1, <3>2
  <2>1. got' = Append(got, Len(got) + 1)
    <3>1. chunks[1] = Len(got) + Count(chunks, 1)
      <4>1. 1 \in DOMAIN chunks
        BY <1>0, <1>1
      <4> QED BY <1>4, <4>1 DEF SseInv, SseChannel
    <3> QED BY <1>1, <1>4, <2>0, <3>1
  <2>2. Len(got') = Len(got) + 1 /\ \A k \in DOMAIN got' : got'[k] = k
    BY <1>0, <2>1 DEF SseInv, SseChannel
  <2>3. ASSUME NEW k \in DOMAIN chunks', chunks'[k] # 0
        PROVE  chunks'[k] = Len(got') + Count(chunks', k)
    <3>1. k + 1 \in DOMAIN chunks /\ k \in 0 .. Len(chunks) - 1
      BY <1>0, <1>1
    <3>2. chunks'[k] = Len(got) + Count(chunks, k + 1)
      BY <1>1, <2>3, <3>1 DEF SseInv, SseChannel
    <3>3. Count(chunks, k + 1) = Count(chunks', k) + 1 /\ Count(chunks', k) \in Nat
      BY <1>2, <1>4, <3>1
    <3>4. Len(got') = Len(got) + 1
      BY <2>2
    <3> DEFINE g == Len(got)
               h == Len(got')
               c == Count(chunks, k + 1)
               d == Count(chunks', k)
    <3>5. g \in Nat /\ h = g + 1 /\ d \in Nat /\ c = d + 1 /\ chunks'[k] = g + c
      BY <1>0, <3>2, <3>3, <3>4
    <3> HIDE DEF g, h, c, d
    <3>6. chunks'[k] = h + d
      BY <3>5
    <3> QED BY <3>6 DEF h, d
  <2>4. SseChannel'
    BY <2>2, <2>3 DEF SseChannel
  <2>5. SseCount'
    <3>1. Len(chunks) - 1 \in 0 .. Len(chunks) - 1 /\ (Len(chunks) - 1) + 1 = Len(chunks)
      BY <1>0, <1>1
    <3>2. /\ Count(chunks, Len(chunks)) = Count(chunks', Len(chunks')) + 1
          /\ Count(chunks', Len(chunks')) \in Nat
      BY <1>1, <1>2, <1>4, <3>1
    <3>3. Len(got) + Count(chunks, Len(chunks)) = Len(got') + Count(chunks', Len(chunks'))
      BY <1>0, <2>2, <3>2
    <3> QED BY <3>3 DEF SseInv, SseCount
  <2> QED BY <2>4, <2>5
<1> QED BY <1>3, <1>4

(* No step loses an event.                                                 *)
LEMMA SseKept ==
  ASSUME SseInv, Ss!Next
  PROVE  SseInv'
<1>0. Ss!TypeOK' /\ SsePlace'
  BY SsePlaced DEF SseInv
<1>1. /\ produced \in Nat /\ Len(got) \in Nat
      /\ Count(chunks, Len(chunks)) \in Nat
  BY SseTypes, CountIsNat DEF SseInv
<1>2. ASSUME UNCHANGED <<got, chunks, client>> PROVE SseChannel'
  BY <1>2 DEF SseInv, SseChannel, Count
<1>3. ASSUME UNCHANGED <<got, chunks>>
      PROVE  Count(chunks, Len(chunks))' = Count(chunks, Len(chunks))
  BY <1>3 DEF Count
<1>4. CASE Ss!Yield
  <2>1. UNCHANGED <<got, chunks, client, pump>> /\ produced' = produced + 1
        /\ pending = "asked" /\ pending' = "event"
    BY <1>4 DEF Ss!Yield
  <2>2. pump \notin {"sending", "full"}
    BY <2>1 DEF SseInv, SsePlace
  <2>3. SseCount'
    BY <1>1, <1>3, <2>1, <2>2 DEF SseInv, SseCount
  <2> QED BY <1>0, <1>2, <2>1, <2>3 DEF SseInv
<1>5. CASE Ss!SourceEnds
  <2>1. /\ UNCHANGED <<got, chunks, client, pump, produced>>
        /\ pending = "asked" /\ pending' # "event"
    BY <1>5 DEF Ss!SourceEnds
  <2>2. SseCount'
    BY <1>3, <2>1 DEF SseInv, SseCount
  <2> QED BY <1>0, <1>2, <2>1, <2>2 DEF SseInv
<1>6. CASE Ss!Break \/ Ss!TakeEnd \/ Ss!TakeUnsendable \/ Ss!End
  <2>1. UNCHANGED <<got, chunks, client>> /\ pump' \in {"ending", "over"}
    BY <1>6 DEF Ss!Break, Ss!TakeEnd, Ss!TakeUnsendable, Ss!End
  <2>2. SseCount'
    BY <2>1 DEF SseCount
  <2> QED BY <1>0, <1>2, <2>1, <2>2 DEF SseInv
<1>7. CASE Ss!TakeEvent
  <2>1. /\ UNCHANGED <<got, chunks, client, produced>> /\ pump = "wait" /\ pump' = "sending"
        /\ pending = "event"
    BY <1>7 DEF Ss!TakeEvent, Ss!Waits
  <2>2. SseCount'
    BY <1>3, <2>1 DEF SseInv, SseCount
  <2> QED BY <1>0, <1>2, <2>1, <2>2 DEF SseInv
<1>8. CASE Ss!SendChunk \/ Ss!Retry
  <2>1. UNCHANGED <<got, client, produced>> /\ pump \in {"sending", "full"}
    BY <1>8 DEF Ss!SendChunk, Ss!Retry
  <2>2. held = <<produced>> /\ produced # 0 /\ pending = "none"
    BY <2>1 DEF SseInv, SsePlace
  <2>3. CASE Ss!Sent /\ chunks' = chunks \o held /\ Ss!Again
    <3>1. chunks \in Seq(Nat)
      BY SseTypes DEF SseInv
    <3>2. chunks' = Append(chunks, produced)
      BY <1>1, <2>2, <2>3, <3>1
    <3>3. pump' = "wait" /\ pending' # "event" /\ client # "gone"
      BY <2>3 DEF Ss!Sent, Ss!Again
    <3> QED BY <1>0, <2>1, <2>2, <3>2, <3>3, SseSent DEF SseInv
  <2>4. CASE UNCHANGED <<chunks, pending, held>> /\ pump' = "full"
    <3>1. SseCount'
      BY <1>3, <2>1, <2>4 DEF SseInv, SseCount
    <3> QED BY <1>0, <1>2, <2>1, <2>4, <3>1 DEF SseInv
  <2>5. CASE gone = "set" /\ Ss!Again /\ UNCHANGED chunks
    <3>1. client # "reading" /\ client # "told"
      BY <2>1, <2>5 DEF SseInv, SsePlace
    <3>2. client = "gone"
      BY <3>1 DEF SseInv, Ss!TypeOK
    <3> QED BY <1>0, <2>1, <3>2 DEF SseInv, SseChannel, SseCount
  <2>6. CASE pump' = "ending" /\ UNCHANGED chunks
    <3>1. SseCount'
      BY <2>6 DEF SseCount
    <3> QED BY <1>0, <1>2, <2>1, <2>6, <3>1 DEF SseInv
  <2> QED BY <1>8, <2>3, <2>4, <2>5, <2>6 DEF Ss!SendChunk, Ss!Retry
<1>9. CASE Ss!Ping
  <2>1. UNCHANGED <<got, client, produced, pending>> /\ pump = "wait" /\ pending = "asked"
    BY <1>9 DEF Ss!Ping, Ss!Waits
  <2>2. CASE Ss!Sent
    <3>1. client # "gone" /\ chunks' = Append(chunks, 0) /\ pump' = pump
      BY <1>9, <2>2 DEF Ss!Ping, Ss!Sent
    <3> QED BY <1>0, <2>1, <3>1, SseSent DEF SseInv
  <2>3. CASE ~Ss!Sent
    <3>1. UNCHANGED chunks /\ pump' \in {"ending", pump}
      BY <1>9, <2>3 DEF Ss!Ping
    <3>2. SseCount'
      BY <1>3, <2>1, <3>1 DEF SseInv, SseCount
    <3> QED BY <1>0, <1>2, <2>1, <3>1, <3>2 DEF SseInv
  <2> QED BY <2>2, <2>3
<1>10. CASE Ss!ClientReads
  <2>1. UNCHANGED <<produced, pump, pending>> /\ client = "reading"
    BY <1>10 DEF Ss!ClientReads
  <2>2. CASE chunks # <<>>
    <3>1. /\ got' = IF Head(chunks) = 0 THEN got ELSE Append(got, Head(chunks))
          /\ chunks' = Tail(chunks) /\ UNCHANGED client
      BY <1>10, <2>2 DEF Ss!ClientReads
    <3> QED BY <1>0, <2>1, <2>2, <3>1, SseTaken DEF SseInv
  <2>3. CASE chunks = <<>>
    <3>1. UNCHANGED <<chunks, got>> /\ client' = "told" /\ pump' = "over"
      BY <1>10, <2>3 DEF Ss!ClientReads
    <3>2. SseChannel'
      BY <2>1, <3>1 DEF SseInv, SseChannel, Count
    <3>3. SseCount'
      BY <3>1 DEF SseCount
    <3> QED BY <1>0, <3>2, <3>3 DEF SseInv
  <2> QED BY <2>2, <2>3
<1>11. CASE Ss!ClientLeaves
  <2>1. client' = "gone"
    BY <1>11 DEF Ss!ClientLeaves
  <2> QED BY <1>0, <2>1 DEF SseInv, SseChannel, SseCount
<1>12. CASE Ss!Notice \/ Ss!ClientLeft
  <2>1. UNCHANGED <<got, chunks, client, pump, produced, pending>>
    BY <1>12 DEF Ss!Notice, Ss!ClientLeft
  <2>2. SseCount'
    BY <1>3, <2>1 DEF SseInv, SseCount
  <2> QED BY <1>0, <1>2, <2>1, <2>2 DEF SseInv
<1> QED
  BY <1>4, <1>5, <1>6, <1>7, <1>8, <1>9, <1>10, <1>11, <1>12 DEF Ss!Next, Ss!Pump

(* A slow client misses no event: what it has read and what is on its way  *)
(* to it are the source's events from the first on, in order and without a *)
(* gap, for any size of channel, with pings and without (pump_sse).        *)
THEOREM SseSafe == MCSpec => []SseSafety
<1>1. MCInit => SseInv
  <2> SUFFICES ASSUME MCInit PROVE SseInv
    OBVIOUS
  <2>1. Ss!Init
    BY DEF MCInit
  <2>2. Count(<<>>, 0) = 0
    BY CountNone
  <2>3. Buffer \in Nat /\ MaxEvents \in Nat
    BY ServingAssumption DEF Ss!SsePumpAssumption
  <2>7. /\ held \in Seq(1 .. MaxEvents) /\ chunks \in Seq(0 .. MaxEvents)
        /\ got \in Seq(1 .. MaxEvents) /\ Len(chunks) <= Buffer
    BY <2>1, <2>3 DEF Ss!Init
  <2>8. sourceClosed \in BOOLEAN
    BY <2>1 DEF Ss!Init
  <2>9. produced \in 0 .. MaxEvents
    BY <2>1, <2>3 DEF Ss!Init
  <2>4. Ss!TypeOK
    BY <2>1, <2>7, <2>8, <2>9 DEF Ss!Init, Ss!TypeOK
  <2>6. SsePlace
    BY <2>1 DEF Ss!Init, SsePlace
  <2>5. SseChannel /\ SseCount
    BY <2>1, <2>2 DEF Ss!Init, SseChannel, SseCount
  <2> QED BY <2>4, <2>5, <2>6 DEF SseInv
<1>2. ASSUME SseInv, UNCHANGED sseVars PROVE SseInv'
  BY <1>2 DEF sseVars, SseInv, Ss!TypeOK, SsePlace, SseChannel, SseCount, Count
<1>3. SseInv /\ [MCNext]_<<which, vars, serveVars, healthVars, webSocketVars, sseVars, reloadVars>>
         => SseInv'
  <2>1. MCNext => Ss!Next \/ UNCHANGED sseVars
    BY DEF MCNext
  <2> QED BY <1>2, <2>1, SseKept
<1> QED BY <1>1, <1>3, SseImplied, PTL DEF MCSpec

-----------------------------------------------------------------------------
(* HealthChecks: ready is true                                             *)

(* What a probe knows of its jobs while it waits for them.                 *)
HealthJobs ==
    /\ stopped \subseteq serving
    /\ probe = "idle" => passing = {}
    /\ \A j \in Hc!Jobs : job[j] = "passed" <=> j \in passing
    /\ probe # "idle" => \A j \in Hc!Jobs : j[1] \in probed => job[j] # "none"

HealthInv == Hc!TypeOK /\ HealthJobs /\ Hc!ReadyIsTrue

(* Jobs are asked, run, and end while the probe waits.                     *)
LEMMA HealthJobsKept ==
  ASSUME HealthInv, Hc!Next
  PROVE  Hc!TypeOK' /\ HealthJobs'
<1> USE DEF HealthInv, Hc!TypeOK, HealthJobs, Hc!Outcomes
<1>1. CASE Hc!Evaluate
  <2>1. ASSUME NEW j \in Hc!Jobs
        PROVE  /\ job'[j] \in {"none", "asked", "failed"}
               /\ j[1] \in serving => job'[j] # "none"
    BY <1>1, <2>1 DEF Hc!Evaluate
  <2>2. job' \in [Hc!Jobs -> {"none", "asked", "failed"}]
    BY <1>1, <2>1 DEF Hc!Evaluate
  <2>3. Hc!TypeOK'
    BY <1>1, <2>2 DEF Hc!Evaluate, Hc!Jobs
  <2>4. HealthJobs'
    BY <1>1, <2>1 DEF Hc!Evaluate, Hc!Jobs
  <2> QED BY <2>3, <2>4
<1>2. ASSUME NEW j \in Hc!Jobs, Hc!RunJob(j) PROVE Hc!TypeOK' /\ HealthJobs'
  <2>1. job' = [job EXCEPT ![j] = "running"] /\ job[j] = "asked" /\ probe = "waiting"
        /\ UNCHANGED <<serving, stuck, stopped, probe, probed, passing, verdict>>
    BY <1>2 DEF Hc!RunJob
  <2>2. \A i \in Hc!Jobs : job'[i] = IF i = j THEN "running" ELSE job[i]
    BY <2>1
  <2>3. Hc!TypeOK'
    BY <2>1 DEF Hc!Jobs
  <2> QED BY <2>1, <2>2, <2>3 DEF Hc!Jobs
<1>3. ASSUME NEW j \in Hc!Jobs, Hc!JobEnds(j) PROVE Hc!TypeOK' /\ HealthJobs'
  <2>1. PICK o \in Hc!Outcomes : /\ job' = [job EXCEPT ![j] = o]
                                 /\ passing' = IF o = "passed" THEN passing \cup {j} ELSE passing
    BY <1>3 DEF Hc!JobEnds
  <2>2. /\ job[j] = "running" /\ probe = "waiting"
        /\ UNCHANGED <<serving, stuck, stopped, probe, probed, verdict>>
    BY <1>3 DEF Hc!JobEnds
  <2>3. \A i \in Hc!Jobs : job'[i] = IF i = j THEN o ELSE job[i]
    BY <2>1
  <2>4. Hc!TypeOK'
    BY <2>1, <2>2 DEF Hc!Jobs
  <2> QED BY <2>1, <2>2, <2>3, <2>4 DEF Hc!Jobs
<1>4. CASE Hc!TimeOut \/ Hc!Raises
  BY <1>4 DEF Hc!TimeOut, Hc!Raises, Hc!Collected, Hc!Jobs
<1>5. CASE Hc!Answers
  <2>1. /\ probe' = "answered" /\ probe # "idle"
        /\ UNCHANGED <<serving, stuck, stopped, probed, job, passing>>
        /\ verdict' = [ready |-> probed # {} /\ \A c \in Checks : Hc!Said(c) = "ok",
                       said |-> [c \in Checks |-> Hc!Said(c)]]
    BY <1>5 DEF Hc!Answers, Hc!Collected
  <2>2. \A c \in Checks : Hc!Said(c) \in {"ok", "failed", "timeout"}
    BY DEF Hc!Said
  <2>3. verdict' \in [ready : BOOLEAN, said : [Checks -> {"ok", "failed", "timeout"}]]
    BY <2>1, <2>2
  <2>4. Hc!TypeOK'
    BY <2>1, <2>3 DEF Hc!Jobs
  <2> QED BY <2>1, <2>4 DEF Hc!Jobs
<1>6. ASSUME NEW l \in Workers, Hc!ServeLoop(l) \/ Hc!LoopCloses(l) \/ Hc!GetStuck(l)
      PROVE  Hc!TypeOK' /\ HealthJobs'
  <2>1. UNCHANGED <<probe, probed, job, passing, verdict>>
    BY <1>6 DEF Hc!ServeLoop, Hc!LoopCloses, Hc!GetStuck
  <2>2. /\ serving' \subseteq Workers /\ stuck' \subseteq Workers /\ stopped' \subseteq stuck'
        /\ stopped' \subseteq serving'
    BY <1>6 DEF Hc!ServeLoop, Hc!LoopCloses, Hc!GetStuck
  <2> QED BY <2>1, <2>2 DEF Hc!Jobs
<1> QED BY <1>1, <1>2, <1>3, <1>4, <1>5, <1>6 DEF Hc!Next, Hc!Probe

(* What is said of a check when nobody raised.                             *)
LEMMA SaidIsTrue ==
  ASSUME HealthInv, NEW c \in Checks, probe # "idle", \A j \in Hc!Jobs : job[j] # "cancelled"
  PROVE  Hc!Said(c) = "ok" <=> \A l \in probed : <<l, c>> \in passing
<1>1. ASSUME NEW l \in probed
      PROVE  /\ <<l, c>> \in Hc!Jobs /\ job[<<l, c>>] # "none"
             /\ job[<<l, c>>] \in {"asked", "running", "passed", "failed"}
             /\ job[<<l, c>>] = "passed" <=> <<l, c>> \in passing
  <2>1. <<l, c>> \in Hc!Jobs /\ <<l, c>>[1] = l
    BY DEF HealthInv, Hc!TypeOK, Hc!Jobs
  <2> QED BY <2>1 DEF HealthInv, HealthJobs, Hc!TypeOK, Hc!Outcomes
<1>2. CASE \E l \in probed : job[<<l, c>>] \in Hc!Waiting
  <2>1. Hc!Said(c) = "timeout"
    BY <1>2 DEF Hc!Said
  <2>2. ~ \A l \in probed : <<l, c>> \in passing
    BY <1>1, <1>2 DEF Hc!Waiting
  <2> QED BY <2>1, <2>2
<1>3. CASE \A l \in probed : job[<<l, c>>] \notin Hc!Waiting
  <2>1. Hc!Said(c) = IF \E l \in probed : job[<<l, c>>] = "failed" THEN "failed" ELSE "ok"
    BY <1>3 DEF Hc!Said
  <2>2. ASSUME NEW l \in probed PROVE job[<<l, c>>] = "failed" <=> <<l, c>> \notin passing
    BY <1>1, <1>3 DEF Hc!Waiting
  <2> QED BY <2>1, <2>2
<1> QED BY <1>2, <1>3

(* An answer that is given is true and stays so.                           *)
LEMMA HealthKept ==
  ASSUME HealthInv, Hc!Next
  PROVE  HealthInv'
<1>1. Hc!TypeOK' /\ HealthJobs'
  BY HealthJobsKept
<1>2. CASE Hc!Answers
  <2>1. /\ probe # "idle" /\ \A j \in Hc!Jobs : job[j] # "cancelled"
        /\ UNCHANGED <<probed, passing>>
        /\ verdict' = [ready |-> probed # {} /\ \A c \in Checks : Hc!Said(c) = "ok",
                       said |-> [c \in Checks |-> Hc!Said(c)]]
    BY <1>2 DEF Hc!Answers, Hc!Collected
  <2>2. ASSUME NEW c \in Checks
        PROVE  Hc!Said(c) = "ok" <=> \A l \in probed : <<l, c>> \in passing
    BY <2>1, SaidIsTrue
  <2>3. \A c \in Checks : verdict'.said[c] = "ok" <=> \A l \in probed : <<l, c>> \in passing
    BY <2>1, <2>2
  <2>4. verdict'.ready => probed # {} /\ probed \X Checks \subseteq passing
    <3> SUFFICES ASSUME verdict'.ready PROVE probed # {} /\ probed \X Checks \subseteq passing
      OBVIOUS
    <3>1. probed # {} /\ \A c \in Checks : Hc!Said(c) = "ok"
      BY <2>1
    <3>2. \A l \in probed, c \in Checks : <<l, c>> \in passing
      BY <2>2, <3>1
    <3> QED BY <3>1, <3>2
  <2>5. Hc!ReadyIsTrue'
    BY <2>1, <2>3, <2>4 DEF Hc!ReadyIsTrue
  <2> QED BY <1>1, <2>5 DEF HealthInv
<1>3. CASE probe' = "answered" /\ ~Hc!Answers
  <2>1. probe = "answered" /\ UNCHANGED <<probed, passing, verdict>>
    BY <1>3 DEF Hc!Next, Hc!Probe, Hc!Evaluate, Hc!TimeOut, Hc!Raises, Hc!RunJob, Hc!JobEnds,
                Hc!ServeLoop, Hc!LoopCloses, Hc!GetStuck
  <2> QED BY <1>1, <2>1 DEF HealthInv, Hc!ReadyIsTrue
<1>4. CASE probe' # "answered"
  BY <1>1, <1>4 DEF HealthInv, Hc!ReadyIsTrue
<1> QED BY <1>2, <1>3, <1>4

(* Ready is said only where there was a loop to ask and every check passed *)
(* on each, and a check is "ok" exactly when it passed everywhere, for any *)
(* loops and checks, in whatever order they come back, time out, get stuck *)
(* or close (Health.evaluate).                                             *)
THEOREM HealthSafe == MCSpec => []HealthSafety
<1>1. MCInit => HealthInv
  <2> SUFFICES ASSUME MCInit PROVE HealthInv
    OBVIOUS
  <2>1. Hc!Init
    BY DEF MCInit
  <2>2. verdict \in [ready : BOOLEAN, said : [Checks -> {"ok", "failed", "timeout"}]]
    BY <2>1 DEF Hc!Init, Hc!NoAnswer
  <2>3. Hc!TypeOK
    BY <2>1, <2>2 DEF Hc!Init, Hc!TypeOK
  <2>4. HealthJobs /\ Hc!ReadyIsTrue
    BY <2>1 DEF Hc!Init, HealthJobs, Hc!ReadyIsTrue
  <2> QED BY <2>3, <2>4 DEF HealthInv
<1>2. ASSUME HealthInv, UNCHANGED healthVars PROVE HealthInv'
  BY <1>2 DEF healthVars, HealthInv, Hc!TypeOK, HealthJobs, Hc!ReadyIsTrue, Hc!Jobs, Hc!Outcomes
<1>3. HealthInv
      /\ [MCNext]_<<which, vars, serveVars, healthVars, webSocketVars, sseVars, reloadVars>>
         => HealthInv'
  <2>1. MCNext => Hc!Next \/ UNCHANGED healthVars
    BY DEF MCNext
  <2> QED BY <1>2, <2>1, HealthKept
<1>4. HealthInv => HealthSafety
  BY DEF HealthInv, HealthSafety, Hc!Safety
<1> QED BY <1>1, <1>3, <1>4, PTL DEF MCSpec

-----------------------------------------------------------------------------
(* WebSocket: no message and no close is missed                            *)

(* A handler about to wait, or waiting, has a waiter or its wake.          *)
SocketWaits ==
    /\ reader \in {"checking", "waiting"} => woken \/ waiter = "fresh"
    /\ Ws!NoneMissed

(* Messages are numbered as they came; none comes once the close is told.  *)
SocketOrder ==
    /\ received \in Seq(Nat)
    /\ Len(received) + Len(incoming) = delivered
    /\ \A k \in DOMAIN received : received[k] = k
    /\ \A k \in DOMAIN incoming : incoming[k] = Len(received) + k
    /\ closed => drive \in {"waking", "announcing", "done"}
    /\ ended => incoming = <<>> /\ closed

SocketInv == Ws!TypeOK /\ SocketWaits /\ SocketOrder /\ Ws!SlotOutlives

(* The parts of a step of the driver.                                      *)
LEMMA SocketDriver ==
  ASSUME SocketInv, Ws!Driver
  PROVE  SocketInv'
<1> USE DEF Ws!Inside
<1>0. /\ SendBuffer \in Nat \ {0} /\ MaxIn \in Nat /\ MaxOut \in Nat
      /\ incoming \in Seq(1 .. MaxIn) /\ Len(incoming) \in Nat
      /\ received \in Seq(Nat) /\ Len(received) \in Nat
      /\ sent \in Nat /\ delivered \in Nat
  BY ServingAssumption DEF Ws!WebSocketAssumption, SocketInv, Ws!TypeOK, SocketOrder
<1>1. UNCHANGED <<reader, run, failed, out, received, ended, peer, sent>>
  BY DEF Ws!Driver, Ws!DriveReceive, Ws!DriveWake, Ws!DriveEnd, Ws!DriveSend, Ws!DriveSent,
         Ws!MarkClosed, Ws!MarkWake, Ws!MarkAnnounce, Ws!clientVars, Ws!loop
<1>2. Ws!SlotOutlives'
  BY <1>1 DEF SocketInv, Ws!SlotOutlives
<1>3. CASE Ws!DriveReceive
  <2>1. /\ drive = "select" /\ delivered < sent /\ delivered' = delivered + 1
        /\ incoming' = Append(incoming, delivered + 1) /\ drive' = "wake"
        /\ UNCHANGED <<waiter, closed, closeWaiter, outgoing, woken, told>>
    BY <1>3 DEF Ws!DriveReceive, Ws!loop
  <2>2. delivered + 1 \in 1 .. MaxIn /\ delivered + 1 \in 0 .. sent
    BY <1>0, <2>1 DEF SocketInv, Ws!TypeOK
  <2>3. incoming' \in Seq(1 .. MaxIn)
    BY <1>0, <2>1, <2>2
  <2>4. Ws!TypeOK'
    BY <1>1, <2>1, <2>2, <2>3 DEF SocketInv, Ws!TypeOK
  <2>5. SocketWaits'
    BY <1>1, <2>1 DEF SocketInv, SocketWaits, Ws!NoneMissed
  <2>6. /\ Len(incoming') = Len(incoming) + 1 /\ DOMAIN incoming' = 1 .. Len(incoming) + 1
        /\ DOMAIN incoming = 1 .. Len(incoming)
        /\ \A k \in DOMAIN incoming : incoming'[k] = incoming[k]
        /\ incoming'[Len(incoming) + 1] = delivered + 1
    BY <1>0, <2>1
  <2>7. ASSUME NEW k \in DOMAIN incoming' PROVE incoming'[k] = Len(received) + k
    <3>1. CASE k \in DOMAIN incoming
      BY <2>6, <3>1 DEF SocketInv, SocketOrder
    <3>2. CASE k = Len(incoming) + 1
      <4>1. delivered + 1 = Len(received) + (Len(incoming) + 1)
        BY <1>0 DEF SocketInv, SocketOrder
      <4> QED BY <2>6, <3>2, <4>1
    <3> QED BY <1>0, <2>6, <3>1, <3>2
  <2>8. ~closed /\ ~ended
    BY <2>1 DEF SocketInv, SocketOrder
  <2>9. SocketOrder'
    BY <1>0, <1>1, <2>1, <2>6, <2>7, <2>8 DEF SocketInv, SocketOrder
  <2> QED BY <1>2, <2>4, <2>5, <2>9 DEF SocketInv
<1>4. CASE Ws!DriveWake \/ Ws!MarkWake
  <2>1. /\ UNCHANGED <<incoming, closed, closeWaiter, outgoing, delivered, told>>
        /\ waiter' = "none" /\ woken' = (woken \/ waiter = "fresh")
        /\ drive \in {"wake", "waking"} /\ drive' \in {"select", "announcing"}
        /\ drive' = "announcing" <=> drive = "waking"
    BY <1>4 DEF Ws!DriveWake, Ws!MarkWake, Ws!Wake
  <2>2. woken' \in BOOLEAN
    BY <2>1
  <2>3. Ws!TypeOK'
    BY <1>1, <2>1, <2>2 DEF SocketInv, Ws!TypeOK
  <2>4. SocketWaits'
    BY <1>1, <2>1 DEF SocketInv, SocketWaits, Ws!NoneMissed
  <2>5. SocketOrder'
    BY <1>1, <2>1 DEF SocketInv, SocketOrder
  <2> QED BY <1>2, <2>3, <2>4, <2>5 DEF SocketInv
<1>5. CASE Ws!DriveEnd \/ Ws!DriveSent
  <2>1. /\ UNCHANGED <<incoming, waiter, closed, closeWaiter, outgoing, delivered, told, woken>>
        /\ drive \in {"select", "sending"} /\ drive' \in {"select", "closing"}
    BY <1>5 DEF Ws!DriveEnd, Ws!DriveSent, Ws!shared, Ws!loop
  <2>2. Ws!TypeOK'
    BY <1>1, <2>1 DEF SocketInv, Ws!TypeOK
  <2>3. SocketWaits' /\ SocketOrder'
    BY <1>1, <2>1 DEF SocketInv, SocketWaits, SocketOrder, Ws!NoneMissed
  <2> QED BY <1>2, <2>2, <2>3 DEF SocketInv
<1>6. CASE Ws!DriveSend
  <2>1. /\ UNCHANGED <<incoming, waiter, closed, closeWaiter, delivered, told, woken>>
        /\ drive = "select" /\ drive' \in {"closing", "sending"}
        /\ outgoing # <<>> /\ outgoing' = Tail(outgoing)
    BY <1>6 DEF Ws!DriveSend, Ws!loop
  <2>2. outgoing' \in Seq({"message", "close"}) /\ Len(outgoing') <= SendBuffer
    BY <1>0, <2>1 DEF SocketInv, Ws!TypeOK
  <2>3. Ws!TypeOK'
    BY <1>1, <2>1, <2>2 DEF SocketInv, Ws!TypeOK
  <2>4. SocketWaits' /\ SocketOrder'
    BY <1>1, <2>1 DEF SocketInv, SocketWaits, SocketOrder, Ws!NoneMissed
  <2> QED BY <1>2, <2>3, <2>4 DEF SocketInv
<1>7. CASE Ws!MarkClosed
  <2>1. /\ UNCHANGED <<incoming, waiter, closeWaiter, outgoing, delivered, told, woken>>
        /\ closed' = TRUE /\ drive' = "waking"
    BY <1>7 DEF Ws!MarkClosed, Ws!loop
  <2>4. closed' \in BOOLEAN
    BY <2>1
  <2>2. Ws!TypeOK'
    BY <1>1, <2>1, <2>4 DEF SocketInv, Ws!TypeOK
  <2>3. SocketWaits' /\ SocketOrder'
    BY <1>1, <2>1 DEF SocketInv, SocketWaits, SocketOrder, Ws!NoneMissed
  <2> QED BY <1>2, <2>2, <2>3 DEF SocketInv
<1>8. CASE Ws!MarkAnnounce
  <2>1. /\ UNCHANGED <<incoming, waiter, closed, outgoing, delivered, woken>>
        /\ drive = "announcing" /\ drive' = "done"
        /\ closeWaiter' = FALSE /\ told' \in {"queued", told}
    BY <1>8 DEF Ws!MarkAnnounce, Ws!Announce
  <2>4. closeWaiter' \in BOOLEAN
    BY <2>1
  <2>2. Ws!TypeOK'
    BY <1>1, <2>1, <2>4 DEF SocketInv, Ws!TypeOK
  <2>3. SocketWaits' /\ SocketOrder'
    BY <1>1, <2>1 DEF SocketInv, SocketWaits, SocketOrder, Ws!NoneMissed
  <2> QED BY <1>2, <2>2, <2>3 DEF SocketInv
<1> QED BY <1>3, <1>4, <1>5, <1>6, <1>7, <1>8 DEF Ws!Driver

(* The steps of a receive.                                                 *)
LEMMA SocketReceiving ==
  ASSUME SocketInv, Ws!Receiving \/ Ws!Receive \/ Ws!GiveUp
  PROVE  SocketInv'
<1> USE DEF Ws!Inside
<1>0. /\ MaxIn \in Nat
      /\ incoming \in Seq(1 .. MaxIn) /\ Len(incoming) \in Nat
      /\ received \in Seq(Nat) /\ Len(received) \in Nat
      /\ sent \in Nat /\ delivered \in Nat
  BY ServingAssumption DEF Ws!WebSocketAssumption, SocketInv, Ws!TypeOK, SocketOrder
<1>1. /\ UNCHANGED <<run, told, failed, out, peer, sent, closed, closeWaiter, outgoing, drive,
                     delivered>>
      /\ run \in {"racing", "cancelling"}
  BY DEF Ws!Receiving, Ws!TryReceive, Ws!Ask, Ws!Install, Ws!Check, Ws!Woken, Ws!Receive,
         Ws!GiveUp, Ws!Handler, Ws!clientVars, Ws!shared, Ws!task
<1>2. Ws!SlotOutlives'
  BY <1>1 DEF SocketInv, Ws!SlotOutlives
<1>3. CASE Ws!TryReceive /\ incoming # <<>>
  <2>1. /\ UNCHANGED <<waiter, woken, ended>> /\ reader' = "running"
        /\ received' = Append(received, Head(incoming)) /\ incoming' = Tail(incoming)
    BY <1>3 DEF Ws!TryReceive
  <2>2. /\ Head(incoming) = incoming[1] /\ 1 \in DOMAIN incoming
        /\ incoming' \in Seq(1 .. MaxIn) /\ Len(incoming') = Len(incoming) - 1
        /\ \A k \in DOMAIN incoming' : k + 1 \in DOMAIN incoming /\ incoming'[k] = incoming[k + 1]
        /\ DOMAIN incoming' \subseteq Nat
    BY <1>0, <1>3, <2>1
  <2>3. Head(incoming) = Len(received) + 1
    BY <2>2 DEF SocketInv, SocketOrder
  <2>4. received' = Append(received, Len(received) + 1)
    BY <2>1, <2>3
  <2>5. /\ received' \in Seq(Nat) /\ Len(received') = Len(received) + 1
        /\ \A k \in DOMAIN received' : received'[k] = k
    BY <1>0, <2>4 DEF SocketInv, SocketOrder
  <2>6. ASSUME NEW k \in DOMAIN incoming' PROVE incoming'[k] = Len(received') + k
    <3>1. incoming[k + 1] = Len(received) + (k + 1)
      BY <2>2 DEF SocketInv, SocketOrder
    <3>2. k \in Nat
      BY <2>2
    <3> DEFINE m == Len(received)
               n == Len(received')
    <3>3. m \in Nat /\ n = m + 1 /\ incoming'[k] = m + (k + 1)
      BY <1>0, <2>2, <2>5, <3>1
    <3> HIDE DEF m, n
    <3>4. incoming'[k] = n + k
      BY <3>2, <3>3
    <3> QED BY <3>4 DEF n
  <2>7. ~ended
    BY <1>3 DEF SocketInv, SocketOrder
  <2>8. Len(received') + Len(incoming') = delivered
    <3> DEFINE m == Len(received)
               n == Len(received')
               i == Len(incoming)
               j == Len(incoming')
    <3>1. m \in Nat /\ n = m + 1 /\ i \in Nat /\ j = i - 1 /\ m + i = delivered
      BY <1>0, <2>2, <2>5 DEF SocketInv, SocketOrder
    <3> HIDE DEF m, n, i, j
    <3>2. n + j = delivered
      BY <3>1
    <3> QED BY <3>2 DEF n, j
  <2>9. SocketOrder'
    BY <1>1, <2>1, <2>5, <2>6, <2>7, <2>8 DEF SocketInv, SocketOrder
  <2>10. Ws!TypeOK' /\ SocketWaits'
    BY <1>1, <2>1, <2>2 DEF SocketInv, Ws!TypeOK, SocketWaits, Ws!NoneMissed
  <2> QED BY <1>2, <2>9, <2>10 DEF SocketInv
<1>4. ASSUME UNCHANGED <<incoming, received>>, ended' => incoming = <<>> /\ closed
      PROVE  SocketOrder'
  BY <1>1, <1>4 DEF SocketInv, SocketOrder
<1>5. ASSUME UNCHANGED <<incoming, received>>, ended' \in BOOLEAN, woken' \in BOOLEAN,
             waiter' \in {"none", "fresh", "stale"},
             reader' \in Ws!Inside \cup {"running", "waiting", "elsewhere", "over"}
      PROVE  Ws!TypeOK'
  BY <1>1, <1>5 DEF SocketInv, Ws!TypeOK
<1>6. woken \in BOOLEAN /\ ended \in BOOLEAN /\ waiter \in {"none", "fresh", "stale"}
  BY DEF SocketInv, Ws!TypeOK
<1>7. CASE Ws!TryReceive /\ incoming = <<>>
  <2>1. UNCHANGED <<incoming, received, waiter, woken, ended>> /\ reader' = "asking"
    BY <1>7 DEF Ws!TryReceive
  <2>2. SocketWaits'
    BY <2>1 DEF SocketWaits, Ws!NoneMissed
  <2>3. SocketOrder'
    BY <1>4, <2>1 DEF SocketInv, SocketOrder
  <2> QED BY <1>2, <1>5, <1>6, <2>1, <2>2, <2>3 DEF SocketInv
<1>8. CASE Ws!Ask
  <2>1. /\ UNCHANGED <<incoming, received, waiter, woken>> /\ reader' \in {"running", "installing"}
        /\ ended' = (closed /\ incoming = <<>>)
    BY <1>8 DEF Ws!Ask, Ws!shared
  <2>2. SocketWaits'
    BY <2>1 DEF SocketWaits, Ws!NoneMissed
  <2>3. SocketOrder'
    BY <1>4, <2>1
  <2>4. ended' \in BOOLEAN
    BY <2>1
  <2> QED BY <1>2, <1>5, <1>6, <2>1, <2>2, <2>3, <2>4 DEF SocketInv
<1>9. CASE Ws!Install
  <2>1. /\ UNCHANGED <<incoming, received, ended>> /\ reader' = "checking"
        /\ waiter' = "fresh" /\ woken' = FALSE
    BY <1>9 DEF Ws!Install
  <2>2. SocketWaits'
    BY <2>1 DEF SocketWaits, Ws!NoneMissed
  <2>3. SocketOrder'
    BY <1>4, <2>1 DEF SocketInv, SocketOrder
  <2> QED BY <1>2, <1>5, <1>6, <2>1, <2>2, <2>3 DEF SocketInv
<1>10. CASE Ws!Check
  <2>1. /\ UNCHANGED <<incoming, received, ended>> /\ reader = "checking" /\ reader' = "waiting"
        /\ incoming # <<>> \/ closed => waiter' = "none" /\ woken' = (woken \/ waiter = "fresh")
        /\ ~(incoming # <<>> \/ closed) => UNCHANGED <<waiter, woken>>
    BY <1>10 DEF Ws!Check, Ws!Handler, Ws!Wake
  <2>2. woken \/ waiter = "fresh"
    BY <2>1 DEF SocketInv, SocketWaits
  <2>3. SocketWaits'
    <3>1. CASE incoming # <<>> \/ closed
      <4>1. woken'
        BY <2>1, <2>2, <3>1
      <4> QED BY <4>1 DEF SocketWaits, Ws!NoneMissed
    <3>2. CASE ~(incoming # <<>> \/ closed)
      <4>1. UNCHANGED <<incoming, closed, waiter, woken>>
        BY <1>1, <2>1, <3>2
      <4> QED BY <2>2, <3>2, <4>1 DEF SocketWaits, Ws!NoneMissed
    <3> QED BY <3>1, <3>2
  <2>4. SocketOrder'
    BY <1>4, <2>1 DEF SocketInv, SocketOrder
  <2>5. woken' \in BOOLEAN /\ waiter' \in {"none", "fresh", "stale"}
    BY <1>6, <2>1
  <2> QED BY <1>2, <1>5, <1>6, <2>1, <2>3, <2>4, <2>5 DEF SocketInv
<1>11. CASE Ws!Woken \/ Ws!GiveUp \/ Ws!Receive
  <2>1. /\ UNCHANGED <<incoming, received, ended>> /\ reader' \in {"receiving", "running"}
        /\ woken' \in {FALSE, woken} /\ waiter' \in {waiter, "stale"}
    BY <1>11 DEF Ws!Woken, Ws!GiveUp, Ws!Receive, Ws!shared
  <2>2. SocketWaits'
    BY <2>1 DEF SocketWaits, Ws!NoneMissed
  <2>3. SocketOrder'
    BY <1>4, <2>1 DEF SocketInv, SocketOrder
  <2> QED BY <1>2, <1>5, <1>6, <2>1, <2>2, <2>3 DEF SocketInv
<1> QED BY <1>3, <1>7, <1>8, <1>9, <1>10, <1>11 DEF Ws!Receiving

(* Sending, and run_websocket around the handler.                          *)
LEMMA SocketRun ==
  ASSUME SocketInv,
         \/ Ws!Run \/ Ws!Send \/ Ws!Close \/ Ws!AwaitElsewhere \/ Ws!Return
         \/ Ws!ClientSends \/ Ws!ClientLeaves
  PROVE  SocketInv'
<1> USE DEF Ws!Inside
<1>0. SendBuffer \in Nat \ {0} /\ MaxIn \in Nat /\ MaxOut \in Nat
  BY ServingAssumption DEF Ws!WebSocketAssumption
<1>1. /\ UNCHANGED <<incoming, waiter, closed, drive, delivered, woken, received, ended>>
      /\ reader' \in {reader, "elsewhere", "over"}
  BY DEF Ws!Run, Ws!Send, Ws!Close, Ws!AwaitElsewhere, Ws!Return, Ws!ClientSends, Ws!ClientLeaves,
         Ws!OnClose, Ws!Register, Ws!Recheck, Ws!PeerLeft, Ws!Race, Ws!Cancelled, Ws!Gathered,
         Ws!CoreClose, Ws!RunAfter, Ws!Finish, Ws!clientVars, Ws!shared, Ws!task, Ws!loop
<1>2. SocketWaits' /\ SocketOrder'
  BY <1>1 DEF SocketInv, SocketWaits, SocketOrder, Ws!NoneMissed
<1>3. \/ outgoing' = outgoing
      \/ Ws!Accepts /\ \/ outgoing' = Append(outgoing, "message")
                        \/ outgoing' = Append(outgoing, "close")
  BY DEF Ws!Run, Ws!Send, Ws!Close, Ws!AwaitElsewhere, Ws!Return, Ws!ClientSends, Ws!ClientLeaves,
         Ws!OnClose, Ws!Register, Ws!Recheck, Ws!PeerLeft, Ws!Race, Ws!Cancelled, Ws!Gathered,
         Ws!CoreClose, Ws!RunAfter, Ws!Finish, Ws!TrySend, Ws!shared
<1>4. outgoing' \in Seq({"message", "close"}) /\ Len(outgoing') <= SendBuffer
  <2>1. /\ outgoing \in Seq({"message", "close"})
        /\ Len(outgoing) <= SendBuffer /\ Len(outgoing) \in Nat
    BY DEF SocketInv, Ws!TypeOK
  <2>2. CASE outgoing' = outgoing
    BY <2>1, <2>2
  <2>3. CASE Ws!Accepts /\ outgoing' = Append(outgoing, "message")
    BY <1>0, <2>1, <2>3 DEF Ws!Accepts
  <2>4. CASE Ws!Accepts /\ outgoing' = Append(outgoing, "close")
    BY <1>0, <2>1, <2>4 DEF Ws!Accepts
  <2> QED BY <1>3, <2>2, <2>3, <2>4
<1>5. /\ sent' \in 0 .. MaxIn /\ delivered' \in 0 .. sent' /\ out' \in 0 .. MaxOut
      /\ peer' \in {"open", "gone"}
  <2>1. /\ sent \in 0 .. MaxIn /\ delivered \in 0 .. sent /\ out \in 0 .. MaxOut
        /\ peer \in {"open", "gone"}
    BY DEF SocketInv, Ws!TypeOK
  <2>2. /\ sent' = sent \/ (sent' = sent + 1 /\ sent < MaxIn)
        /\ out' = out \/ (out' = out + 1 /\ out < MaxOut)
        /\ peer' \in {peer, "gone"}
    BY DEF Ws!Run, Ws!Send, Ws!Close, Ws!AwaitElsewhere, Ws!Return, Ws!ClientSends,
           Ws!ClientLeaves, Ws!OnClose, Ws!Register, Ws!Recheck, Ws!PeerLeft, Ws!Race, Ws!Cancelled,
           Ws!Gathered, Ws!CoreClose, Ws!RunAfter, Ws!Finish, Ws!clientVars, Ws!loop
  <2> QED BY <1>0, <1>1, <2>1, <2>2
<1>6. closeWaiter' \in BOOLEAN /\ told' \in {"no", "queued", "set"} /\ failed' \in BOOLEAN
  <2>1. closeWaiter \in BOOLEAN /\ told \in {"no", "queued", "set"} /\ failed \in BOOLEAN
    BY DEF SocketInv, Ws!TypeOK
  <2>2. closeWaiter' \in {closeWaiter, TRUE, FALSE} /\ told' \in {told, "queued", "set"}
    BY DEF Ws!Run, Ws!Send, Ws!Close, Ws!AwaitElsewhere, Ws!Return, Ws!ClientSends,
           Ws!ClientLeaves, Ws!OnClose, Ws!Register, Ws!Recheck, Ws!PeerLeft, Ws!Race, Ws!Cancelled,
           Ws!Gathered, Ws!CoreClose, Ws!RunAfter, Ws!Finish, Ws!Announce, Ws!shared, Ws!loop
  <2>3. failed' = failed \/ failed' \in BOOLEAN
    BY DEF Ws!Run, Ws!Send, Ws!Close, Ws!AwaitElsewhere, Ws!Return, Ws!ClientSends,
           Ws!ClientLeaves, Ws!OnClose, Ws!Register, Ws!Recheck, Ws!PeerLeft, Ws!Race, Ws!Cancelled,
           Ws!Gathered, Ws!CoreClose, Ws!RunAfter, Ws!Finish, Ws!loop
  <2> QED BY <2>1, <2>2, <2>3
<1>7. /\ run' \in {"check", "register", "recheck", "racing", "cancelling", "closing", "after",
                   "finishing", "finished"}
      /\ Ws!SlotOutlives'
  <2>1. /\ run \in {"check", "register", "recheck", "racing", "cancelling", "closing", "after",
                    "finishing", "finished"}
        /\ Ws!SlotOutlives
    BY DEF SocketInv, Ws!TypeOK
  <2>2. CASE Ws!Run
    BY <2>1, <2>2 DEF Ws!Run, Ws!OnClose, Ws!Register, Ws!Recheck, Ws!PeerLeft, Ws!Race,
           Ws!Cancelled, Ws!Gathered, Ws!CoreClose, Ws!RunAfter, Ws!Finish, Ws!SlotOutlives
  <2>3. CASE ~Ws!Run
    BY <2>1, <2>3 DEF Ws!Send, Ws!Close, Ws!AwaitElsewhere, Ws!Return, Ws!ClientSends,
           Ws!ClientLeaves, Ws!Handler, Ws!loop, Ws!SlotOutlives
  <2> QED BY <2>2, <2>3
<1>8. Ws!TypeOK'
  BY <1>1, <1>4, <1>5, <1>6, <1>7 DEF SocketInv, Ws!TypeOK
<1> QED BY <1>2, <1>7, <1>8 DEF SocketInv

(* The invariant is enough.                                                *)
LEMMA SocketImplied ==
  ASSUME SocketInv
  PROVE  WebSocketSafety
<1>1. /\ received \in Seq(Nat) /\ incoming \in Seq(Nat) /\ delivered \in Nat
      /\ Len(received) + Len(incoming) = delivered
  <2>1. 1 .. MaxIn \subseteq Nat /\ incoming \in Seq(1 .. MaxIn)
    BY ServingAssumption DEF Ws!WebSocketAssumption, SocketInv, Ws!TypeOK
  <2>2. incoming \in Seq(Nat)
    BY <2>1, SeqWider
  <2> QED BY <2>2 DEF SocketInv, SocketOrder, Ws!TypeOK
<1> DEFINE q == received \o incoming
<1>2. /\ q \in Seq(Nat) /\ Len(q) = delivered /\ DOMAIN q = 1 .. delivered
      /\ \A k \in 1 .. delivered : q[k] = IF k <= Len(received) THEN received[k]
                                           ELSE incoming[k - Len(received)]
  BY <1>1
<1>3. \A k \in 1 .. delivered : q[k] = k
  <2> SUFFICES ASSUME NEW k \in 1 .. delivered PROVE q[k] = k
    OBVIOUS
  <2>1. CASE k <= Len(received)
    <3>1. k \in DOMAIN received
      BY <1>1, <2>1
    <3> QED BY <1>2, <2>1, <3>1 DEF SocketInv, SocketOrder
  <2>2. CASE k > Len(received)
    <3>1. k - Len(received) \in DOMAIN incoming
      BY <1>1, <2>2
    <3>2. incoming[k - Len(received)] = Len(received) + (k - Len(received))
      BY <3>1 DEF SocketInv, SocketOrder
    <3> QED BY <1>1, <1>2, <2>2, <3>2
  <2> QED BY <1>1, <2>1, <2>2
<1> HIDE DEF q
<1>4. q = [i \in 1 .. delivered |-> i]
  BY <1>1, <1>2, <1>3
<1>5. Ws!AllBeforeEnd
  BY <1>4 DEF q, SocketInv, SocketOrder, Ws!AllBeforeEnd
<1> QED BY <1>5 DEF SocketInv, SocketWaits, WebSocketSafety, Ws!Safety

(* A handler that waits in receive with a message or the close there has   *)
(* its wake coming, messages come out in order and all before the end, and *)
(* a request is not finished before its handler is over, for any number of *)
(* messages and any send buffer (websocket.rs, _websocket.py,              *)
(* run_websocket).                                                         *)
THEOREM WebSocketSafe == MCSpec => []WebSocketSafety
<1>1. MCInit => SocketInv
  <2> SUFFICES ASSUME MCInit PROVE SocketInv
    OBVIOUS
  <2>1. Ws!Init
    BY DEF MCInit
  <2>2. SendBuffer \in Nat /\ MaxIn \in Nat /\ MaxOut \in Nat
    BY ServingAssumption DEF Ws!WebSocketAssumption
  <2>3. closed \in BOOLEAN /\ closeWaiter \in BOOLEAN /\ woken \in BOOLEAN /\ failed \in BOOLEAN
        /\ ended \in BOOLEAN
    BY <2>1 DEF Ws!Init
  <2>4. /\ sent \in 0 .. MaxIn /\ delivered \in 0 .. sent /\ out \in 0 .. MaxOut
        /\ incoming \in Seq(1 .. MaxIn) /\ outgoing \in Seq({"message", "close"})
        /\ Len(outgoing) <= SendBuffer
    BY <2>1, <2>2 DEF Ws!Init
  <2>5. Ws!TypeOK
    BY <2>1, <2>3, <2>4 DEF Ws!Init, Ws!TypeOK, Ws!Inside
  <2>6. SocketWaits /\ SocketOrder /\ Ws!SlotOutlives
    BY <2>1 DEF Ws!Init, SocketWaits, SocketOrder, Ws!NoneMissed, Ws!SlotOutlives
  <2> QED BY <2>5, <2>6 DEF SocketInv
<1>2. ASSUME SocketInv, UNCHANGED webSocketVars PROVE SocketInv'
  BY <1>2 DEF webSocketVars, SocketInv, Ws!TypeOK, SocketWaits, SocketOrder, Ws!NoneMissed,
              Ws!SlotOutlives, Ws!Inside
<1>3. SocketInv
      /\ [MCNext]_<<which, vars, serveVars, healthVars, webSocketVars, sseVars, reloadVars>>
         => SocketInv'
  <2>1. MCNext => Ws!Next \/ UNCHANGED webSocketVars
    BY DEF MCNext
  <2>2. SocketInv /\ Ws!Next => SocketInv'
    BY SocketDriver, SocketReceiving, SocketRun DEF Ws!Next, Ws!Application
  <2> QED BY <1>2, <2>1, <2>2
<1> QED BY <1>1, <1>3, SocketImplied, PTL DEF MCSpec

-----------------------------------------------------------------------------
(* Serve: startup is all or nothing, and teardown in order                 *)

(* What a worker's place says of its lifespan.                             *)
ServeThread(w) ==
    /\ worker[w] \in {"none", "starting"} => lifespan[w] = "never"
    /\ worker[w] = "serving" => lifespan[w] = "entered" /\ w \in loops
    /\ worker[w] = "told" => lifespan[w] = "entered"
    /\ worker[w] = "teardown" => lifespan[w] = "leaving"
    /\ worker[w] = "gone" => lifespan[w] \in {"never", "left", "forgotten"}

(* What the serving thread's place says of the workers.                    *)
ServeWorkers ==
    /\ main \in {"new", "spawn"} => \A w \in Workers : worker[w] = "none"
    /\ main = "starting" =>
          \A w \in Workers : /\ worker[w] \in {"starting", "serving", "gone"}
                             /\ ~startFailed => worker[w] # "gone"
    /\ main \in {"bind", "permit", "accept"} => \A w \in Workers : worker[w] = "serving"
    /\ main \in {"stop_process", "returned"} =>
          \/ expired
          \/ \A w \in Workers : worker[w] = "gone"
          \/ main = "returned" /\ \A w \in Workers : worker[w] = "none"

(* And of the process lifespan.                                            *)
ServeProcess ==
    /\ main \notin {"new", "returned", "abandoned"} => process = "entered"
    /\ main \in {"new", "returned"} => process # "entered"
    /\ main = "new" => process # "left"

ServeThreads == \A w \in Workers : ServeThread(w)

ServeInv == Sv!TypeOK /\ ServeThreads /\ ServeWorkers /\ ServeProcess

(* The invariant is enough.                                                *)
LEMMA ServeImplied ==
  ASSUME ServeInv
  PROVE  ServeSafety
<1>1. main \in {"new", "spawn", "starting", "bind", "permit", "accept", "drain", "stop", "join",
                "abandon", "stop_process", "returned", "abandoned"}
      /\ worker \in [Workers -> {"none", "starting", "serving", "told", "teardown", "gone"}]
      /\ loops \subseteq Workers
  BY DEF ServeInv, Sv!TypeOK
<1>2. Sv!TornDownInOrder
  <2> SUFFICES ASSUME (process = "left" /\ main # "abandoned") \/ main = "returned", ~expired
               PROVE  /\ process # "entered"
                      /\ \A w \in Workers : /\ lifespan[w] \notin {"entered", "leaving"}
                                            /\ worker[w] \in {"none", "gone"}
    BY DEF Sv!TornDownInOrder
  <2>1. main = "returned" /\ process # "entered"
    BY <1>1 DEF ServeInv, ServeProcess
  <2>2. \A w \in Workers : worker[w] \in {"none", "gone"}
    BY <2>1 DEF ServeInv, ServeWorkers
  <2>3. \A w \in Workers : lifespan[w] \in {"never", "left", "forgotten"}
    BY <2>2 DEF ServeInv, ServeThreads, ServeThread
  <2> QED BY <2>1, <2>2, <2>3
<1>3. Sv!ServesWhole
  <2> SUFFICES ASSUME main \in {"permit", "accept"}
               PROVE  /\ process = "entered" /\ loops = Workers
                      /\ \A w \in Workers : lifespan[w] = "entered"
    BY DEF Sv!ServesWhole, Sv!Listening
  <2>1. process = "entered"
    BY DEF ServeInv, ServeProcess
  <2>2. \A w \in Workers : worker[w] = "serving"
    BY DEF ServeInv, ServeWorkers
  <2>3. \A w \in Workers : lifespan[w] = "entered" /\ w \in loops
    BY <2>2 DEF ServeInv, ServeThreads, ServeThread
  <2> QED BY <1>1, <2>1, <2>3
<1> QED BY <1>2, <1>3 DEF ServeInv, ServeSafety, Sv!Safety

(* Requests, and asking the server to stop, leave workers and lifespans    *)
(* alone.                                                                  *)
LEMMA ServeAsked ==
  ASSUME ServeInv,
         \/ Sv!GetPermit \/ Sv!HearSignal \/ Sv!DelayPasses \/ Sv!Drained \/ Sv!Bind
         \/ Sv!AddressRefused \/ Sv!Signal \/ Sv!Shutdown
         \/ \E r \in Calls : Sv!Accept(r) \/ Sv!Pop(r) \/ Sv!Claim(r) \/ Sv!Answer(r)
         \/ \E r \in Calls, w \in Workers : Sv!Enqueue(r, w)
  PROVE  ServeInv'
<1>0. DrainDelay \in BOOLEAN /\ MaxAsks \in Nat
  BY ServingAssumption DEF Sv!ServeAssumption
<1>1. UNCHANGED <<startFailed, process, worker, lifespan, loops>>
  BY DEF Sv!GetPermit, Sv!HearSignal, Sv!DelayPasses, Sv!Drained, Sv!Bind, Sv!AddressRefused,
         Sv!Signal, Sv!Shutdown, Sv!Accept, Sv!Pop, Sv!Claim, Sv!Answer, Sv!Enqueue, Sv!threads
<1>2. \/ main' = main
      \/ main = "bind" /\ main' \in {"permit", "drain", "abandon"}
      \/ main \in {"permit", "accept"} /\ main' \in {"permit", "accept", "drain"}
      \/ main = "drain" /\ main' = "stop"
  BY DEF Sv!GetPermit, Sv!HearSignal, Sv!DelayPasses, Sv!Drained, Sv!Bind, Sv!AddressRefused,
         Sv!Signal, Sv!Shutdown, Sv!Accept, Sv!Pop, Sv!Claim, Sv!Answer, Sv!Enqueue,
         Sv!Stopping, Sv!Listening
<1>3. expired' = expired \/ main' = "stop"
  BY DEF Sv!GetPermit, Sv!HearSignal, Sv!DelayPasses, Sv!Drained, Sv!Bind, Sv!AddressRefused,
         Sv!Signal, Sv!Shutdown, Sv!Accept, Sv!Pop, Sv!Claim, Sv!Answer, Sv!Enqueue
<1>4. ServeThreads' /\ ServeWorkers' /\ ServeProcess'
  BY <1>1, <1>2, <1>3 DEF ServeInv, ServeThreads, ServeThread, ServeWorkers, ServeProcess
<1>5. Sv!TypeOK'
  <2>1. /\ main' \in {"new", "spawn", "starting", "bind", "permit", "accept", "drain", "stop",
                      "join", "abandon", "stop_process", "returned", "abandoned"}
        /\ UNCHANGED <<startFailed, process, worker, lifespan, loops>>
    BY <1>1, <1>2 DEF ServeInv, Sv!TypeOK
  <2>2. /\ signal \in BOOLEAN /\ draining \in BOOLEAN /\ ready \in BOOLEAN /\ expired \in BOOLEAN
        /\ asked \in BOOLEAN /\ startFailed \in BOOLEAN
    BY DEF ServeInv, Sv!TypeOK
  <2>3. /\ signal' \in BOOLEAN /\ draining' \in BOOLEAN /\ ready' \in BOOLEAN
        /\ asked' \in BOOLEAN
    <3>1. /\ signal' \in {signal, TRUE, FALSE} /\ ready' \in {ready, FALSE}
          /\ asked' \in {asked, TRUE}
          /\ draining' = draining \/ draining' = (DrainDelay \/ draining)
      BY DEF Sv!GetPermit, Sv!HearSignal, Sv!DelayPasses, Sv!Drained, Sv!Bind,
             Sv!AddressRefused, Sv!Signal, Sv!Shutdown, Sv!Accept, Sv!Pop, Sv!Claim, Sv!Answer,
             Sv!Enqueue, Sv!Stopping, Sv!asking
    <3> QED BY <2>2, <3>1
  <2>4. expired' \in BOOLEAN
    <3>1. expired' = expired \/ expired' = (expired \/ Sv!Counted # {})
      BY DEF Sv!GetPermit, Sv!HearSignal, Sv!DelayPasses, Sv!Drained, Sv!Bind,
             Sv!AddressRefused, Sv!Signal, Sv!Shutdown, Sv!Accept, Sv!Pop, Sv!Claim, Sv!Answer,
             Sv!Enqueue
    <3> QED BY <2>2, <3>1
  <2>5. asks' \in 0 .. MaxAsks
    <3>1. asks' = asks \/ (asks < MaxAsks /\ asks' = asks + 1)
      BY DEF Sv!GetPermit, Sv!HearSignal, Sv!DelayPasses, Sv!Drained, Sv!Bind,
             Sv!AddressRefused, Sv!Signal, Sv!Shutdown, Sv!Accept, Sv!Pop, Sv!Claim, Sv!Answer,
             Sv!Enqueue, Sv!asking
    <3>2. asks \in 0 .. MaxAsks
      BY DEF ServeInv, Sv!TypeOK
    <3> QED BY <1>0, <3>1, <3>2
  <2>6. /\ req' \in [Calls -> {"none", "received", "queued", "popped", "running", "answered",
                              "cut"}]
        /\ at' \in [Calls -> Workers \cup {NoWorker}]
    <3>1. /\ req \in [Calls -> {"none", "received", "queued", "popped", "running", "answered",
                               "cut"}]
          /\ at \in [Calls -> Workers \cup {NoWorker}]
      BY DEF ServeInv, Sv!TypeOK
    <3>2. \/ UNCHANGED <<req, at>>
          \/ \E r \in Calls, x \in {"received", "popped", "running", "answered"} :
                req' = [req EXCEPT ![r] = x] /\ UNCHANGED at
          \/ \E r \in Calls, w \in Workers :
                req' = [req EXCEPT ![r] = "queued"] /\ at' = [at EXCEPT ![r] = w]
      BY DEF Sv!GetPermit, Sv!HearSignal, Sv!DelayPasses, Sv!Drained, Sv!Bind,
             Sv!AddressRefused, Sv!Signal, Sv!Shutdown, Sv!Accept, Sv!Pop, Sv!Claim, Sv!Answer,
             Sv!Enqueue, Sv!reqVars, Sv!Set
    <3> QED BY <3>1, <3>2
  <2>7. {startFailed, signal, draining, ready, expired, asked}' \subseteq BOOLEAN
    BY <2>1, <2>2, <2>3, <2>4
  <2> QED BY <2>1, <2>5, <2>6, <2>7 DEF ServeInv, Sv!TypeOK
<1> QED BY <1>4, <1>5 DEF ServeInv

(* The start: the process, the threads, each worker's lifespan.            *)
LEMMA ServeStarts ==
  ASSUME ServeInv,
         Sv!StartProcess \/ Sv!Spawn \/ Sv!Started \/ \E w \in Workers : Sv!StartWorker(w)
  PROVE  ServeInv'
<1>0. /\ main \in {"new", "spawn", "starting", "bind", "permit", "accept", "drain", "stop", "join",
                   "abandon", "stop_process", "returned", "abandoned"}
      /\ process \in Sv!Spans /\ startFailed \in BOOLEAN
      /\ worker \in [Workers -> {"none", "starting", "serving", "told", "teardown", "gone"}]
      /\ lifespan \in [Workers -> Sv!Spans] /\ loops \subseteq Workers
      /\ {startFailed, signal, draining, ready, expired, asked} \subseteq BOOLEAN
  BY DEF ServeInv, Sv!TypeOK
<1>1. UNCHANGED <<draining, ready, expired, signal, asks, asked, req, at>>
  BY DEF Sv!StartProcess, Sv!Spawn, Sv!Started, Sv!StartWorker, Sv!asking, Sv!reqVars
<1>2. CASE Sv!StartProcess
  <2>1. /\ UNCHANGED <<startFailed, worker, lifespan, loops>> /\ main = "new"
        /\ \/ process' = "entered" /\ main' = "spawn"
           \/ process' \in {"never", "forgotten"} /\ main' = "returned"
    <3>1. PICK h \in {"ok", "raises", "no_mapping"} :
             /\ process' = CASE h = "ok" -> "entered"
                             [] h = "raises" -> "never"
                             [] h = "no_mapping" -> "forgotten"
             /\ main' = IF h = "ok" THEN "spawn" ELSE "returned"
      BY <1>2 DEF Sv!StartProcess
    <3>2. CASE h = "ok"
      BY <1>2, <3>1, <3>2 DEF Sv!StartProcess, Sv!threads
    <3>3. CASE h = "raises"
      BY <1>2, <3>1, <3>3 DEF Sv!StartProcess, Sv!threads
    <3>4. CASE h = "no_mapping"
      BY <1>2, <3>1, <3>4 DEF Sv!StartProcess, Sv!threads
    <3> QED BY <3>1, <3>2, <3>3, <3>4
  <2>2. Sv!TypeOK'
    BY <1>0, <1>1, <2>1 DEF ServeInv, Sv!TypeOK, Sv!Spans
  <2>3. ServeThreads' /\ ServeWorkers' /\ ServeProcess'
    BY <2>1 DEF ServeInv, ServeThreads, ServeThread, ServeWorkers, ServeProcess
  <2> QED BY <2>2, <2>3 DEF ServeInv
<1>3. CASE Sv!Spawn
  <2>1. PICK S \in SUBSET Workers :
           /\ worker' = [w \in Workers |-> IF w \in S THEN "starting" ELSE "gone"]
           /\ startFailed' = (S # Workers)
    BY <1>3 DEF Sv!Spawn
  <2>2. UNCHANGED <<process, lifespan, loops>> /\ main = "spawn" /\ main' = "starting"
    BY <1>3 DEF Sv!Spawn
  <2>3. /\ worker' \in [Workers -> {"starting", "gone"}]
        /\ \A w \in Workers : worker'[w] = "gone" <=> w \notin S
    BY <2>1
  <2>4. startFailed' \in BOOLEAN
    BY <2>1
  <2>5. {startFailed, signal, draining, ready, expired, asked}' \subseteq BOOLEAN
    BY <1>0, <1>1, <2>4
  <2>6. Sv!TypeOK'
    BY <1>0, <1>1, <2>2, <2>3, <2>5 DEF ServeInv, Sv!TypeOK, Sv!Spans
  <2>7. \A w \in Workers : lifespan[w] = "never"
    BY <2>2 DEF ServeInv, ServeThreads, ServeThread, ServeWorkers
  <2>8. ServeThreads'
    BY <2>2, <2>3, <2>7 DEF ServeThreads, ServeThread
  <2>9. \A w \in Workers : ~startFailed' => worker'[w] # "gone"
    BY <2>1, <2>3
  <2>10. ServeWorkers' /\ ServeProcess'
    BY <2>2, <2>3, <2>9 DEF ServeInv, ServeWorkers, ServeProcess
  <2> QED BY <2>6, <2>8, <2>10 DEF ServeInv
<1>4. CASE Sv!Started
  <2>1. /\ UNCHANGED <<startFailed, process, worker, lifespan, loops>> /\ main = "starting"
        /\ \A w \in Workers : worker[w] # "starting"
        /\ main' = IF startFailed THEN "stop" ELSE "bind"
    BY <1>4 DEF Sv!Started, Sv!threads
  <2>2. Sv!TypeOK'
    BY <1>0, <1>1, <2>1 DEF ServeInv, Sv!TypeOK, Sv!Spans
  <2>3. ServeThreads' /\ ServeProcess'
    BY <1>0, <2>1 DEF ServeInv, ServeThreads, ServeThread, ServeProcess
  <2>4. ServeWorkers'
    BY <1>0, <2>1 DEF ServeInv, ServeWorkers
  <2> QED BY <2>2, <2>3, <2>4 DEF ServeInv
<1>5. ASSUME NEW w \in Workers, Sv!StartWorker(w) PROVE ServeInv'
  <2>1. worker[w] = "starting" /\ UNCHANGED <<main, process>>
    BY <1>5 DEF Sv!StartWorker
  <2>2. /\ \/ /\ lifespan' = [lifespan EXCEPT ![w] = "entered"] /\ loops' = loops \cup {w}
              /\ worker' = [worker EXCEPT ![w] = "serving"]
           \/ \E x \in {"never", "forgotten", "left"} :
                 /\ lifespan' = [lifespan EXCEPT ![w] = x] /\ loops' \in {loops, loops \cup {w}}
                 /\ worker' = [worker EXCEPT ![w] = "gone"] /\ startFailed'
        /\ startFailed => startFailed'
        /\ startFailed' \in BOOLEAN
    <3>1. PICK h \in {"ok", "raises", "no_mapping", "clash", "no_reader"} :
             /\ lifespan' = Sv!Set(lifespan, w, CASE h = "ok" -> "entered"
                                                  [] h = "raises" -> "never"
                                                  [] h = "no_mapping" -> "forgotten"
                                                  [] OTHER -> "left")
             /\ loops' = IF h \in {"ok", "no_reader"} THEN loops \cup {w} ELSE loops
             /\ worker' = Sv!Set(worker, w, IF h = "ok" THEN "serving" ELSE "gone")
             /\ startFailed' = (startFailed \/ h # "ok")
      BY <1>5 DEF Sv!StartWorker
    <3>2. CASE h = "ok"
      BY <1>0, <3>1, <3>2 DEF Sv!Set
    <3>3. CASE h = "raises"
      BY <1>0, <3>1, <3>3 DEF Sv!Set
    <3>4. CASE h = "no_mapping"
      BY <1>0, <3>1, <3>4 DEF Sv!Set
    <3>5. CASE h \in {"clash", "no_reader"}
      BY <1>0, <3>1, <3>5 DEF Sv!Set
    <3> QED BY <3>1, <3>2, <3>3, <3>4, <3>5
  <2>3. /\ \A x \in Workers \ {w} : worker'[x] = worker[x] /\ lifespan'[x] = lifespan[x]
        /\ loops \subseteq loops' /\ loops' \subseteq Workers
    BY <1>0, <2>2
  <2>4. \/ worker'[w] = "serving" /\ lifespan'[w] = "entered" /\ w \in loops'
        \/ worker'[w] = "gone" /\ lifespan'[w] \in {"never", "forgotten", "left"} /\ startFailed'
    BY <1>0, <2>2
  <2>5. {startFailed, signal, draining, ready, expired, asked}' \subseteq BOOLEAN
    BY <1>0, <1>1, <2>2
  <2>6. /\ worker' \in [Workers -> {"none", "starting", "serving", "told", "teardown", "gone"}]
        /\ lifespan' \in [Workers -> Sv!Spans]
    BY <1>0, <2>2 DEF Sv!Spans
  <2>7. Sv!TypeOK'
    BY <1>0, <1>1, <2>1, <2>3, <2>5, <2>6 DEF ServeInv, Sv!TypeOK
  <2>8. ServeThreads'
    <3>1. ServeThread(w)'
      BY <2>4 DEF ServeThread
    <3>2. ASSUME NEW x \in Workers \ {w} PROVE ServeThread(x)'
      BY <2>3, <3>2 DEF ServeInv, ServeThreads, ServeThread
    <3> QED BY <3>1, <3>2 DEF ServeThreads
  <2>9. main \notin {"new", "spawn", "bind", "permit", "accept"}
    BY <2>1 DEF ServeInv, ServeWorkers
  <2>10. ASSUME main = "starting", NEW x \in Workers
         PROVE  /\ worker'[x] \in {"starting", "serving", "gone"}
                /\ ~startFailed' => worker'[x] # "gone"
    BY <2>2, <2>3, <2>4, <2>10 DEF ServeInv, ServeWorkers
  <2>11. main \in {"stop_process", "returned"} => expired
    BY <2>1 DEF ServeInv, ServeWorkers
  <2>12. ServeWorkers' /\ ServeProcess'
    BY <1>1, <2>1, <2>9, <2>10, <2>11 DEF ServeInv, ServeWorkers, ServeProcess
  <2> QED BY <2>7, <2>8, <2>12 DEF ServeInv
<1> QED BY <1>2, <1>3, <1>4, <1>5

(* The end: workers are told, torn down and waited for.                    *)
LEMMA ServeEnds ==
  ASSUME ServeInv,
         \/ Sv!Stop \/ Sv!Join \/ Sv!StopProcess
         \/ \E w \in Workers : Sv!LoopStops(w) \/ Sv!StopWorker(w)
  PROVE  ServeInv'
<1>0. /\ main \in {"new", "spawn", "starting", "bind", "permit", "accept", "drain", "stop", "join",
                   "abandon", "stop_process", "returned", "abandoned"}
      /\ process \in Sv!Spans
      /\ worker \in [Workers -> {"none", "starting", "serving", "told", "teardown", "gone"}]
      /\ lifespan \in [Workers -> Sv!Spans] /\ loops \subseteq Workers
      /\ {startFailed, signal, draining, ready, expired, asked} \subseteq BOOLEAN
  BY DEF ServeInv, Sv!TypeOK
<1>1. UNCHANGED <<startFailed, loops, draining, ready, signal, asks, asked, at>>
  BY DEF Sv!Stop, Sv!Join, Sv!StopProcess, Sv!LoopStops, Sv!StopWorker, Sv!asking, Sv!reqVars,
         Sv!threads
<1>2. CASE Sv!Stop
  <2>1. /\ UNCHANGED <<process, lifespan, expired, req>> /\ main = "stop" /\ main' = "join"
        /\ worker' = [w \in Workers |-> IF worker[w] = "serving" THEN "told" ELSE worker[w]]
    BY <1>2 DEF Sv!Stop, Sv!reqVars
  <2>2. /\ worker' \in [Workers -> {"none", "starting", "serving", "told", "teardown", "gone"}]
        /\ \A w \in Workers : worker'[w] = IF worker[w] = "serving" THEN "told" ELSE worker[w]
    BY <1>0, <2>1
  <2>3. Sv!TypeOK'
    BY <1>0, <1>1, <2>1, <2>2 DEF ServeInv, Sv!TypeOK
  <2>4. ServeThreads'
    BY <1>1, <2>1, <2>2 DEF ServeInv, ServeThreads, ServeThread
  <2>5. ServeWorkers' /\ ServeProcess'
    BY <2>1 DEF ServeInv, ServeWorkers, ServeProcess
  <2> QED BY <2>3, <2>4, <2>5 DEF ServeInv
<1>3. CASE Sv!Join
  <2>1. /\ UNCHANGED <<process, worker, lifespan>> /\ main = "join" /\ main' = "stop_process"
        /\ expired' = (expired \/ \E w \in Workers : worker[w] # "gone")
        /\ req' = [r \in Calls |-> IF req[r] \in {"none", "answered"} THEN req[r] ELSE "cut"]
    BY <1>3 DEF Sv!Join, Sv!threads
  <2>2. req' \in [Calls -> {"none", "received", "queued", "popped", "running", "answered", "cut"}]
    BY <2>1 DEF ServeInv, Sv!TypeOK
  <2>3. expired' \in BOOLEAN
    BY <2>1
  <2>4. {startFailed, signal, draining, ready, expired, asked}' \subseteq BOOLEAN
    BY <1>0, <1>1, <2>3
  <2>5. Sv!TypeOK'
    BY <1>0, <1>1, <2>1, <2>2, <2>4 DEF ServeInv, Sv!TypeOK
  <2>6. expired' \/ \A w \in Workers : worker'[w] = "gone"
    BY <2>1
  <2>7. ServeThreads' /\ ServeWorkers' /\ ServeProcess'
    BY <1>1, <2>1, <2>6 DEF ServeInv, ServeThreads, ServeThread, ServeWorkers, ServeProcess
  <2> QED BY <2>5, <2>7 DEF ServeInv
<1>4. CASE Sv!StopProcess
  <2>1. /\ UNCHANGED <<worker, lifespan, expired, req>> /\ process' = "left"
        /\ \/ main = "stop_process" /\ main' = "returned"
           \/ main = "abandon" /\ main' = "abandoned"
    BY <1>4 DEF Sv!StopProcess, Sv!threads, Sv!reqVars
  <2>2. Sv!TypeOK'
    BY <1>0, <1>1, <2>1 DEF ServeInv, Sv!TypeOK, Sv!Spans
  <2>3. ServeThreads' /\ ServeWorkers' /\ ServeProcess'
    BY <1>1, <2>1 DEF ServeInv, ServeThreads, ServeThread, ServeWorkers, ServeProcess
  <2> QED BY <2>2, <2>3 DEF ServeInv
<1>5. ASSUME NEW w \in Workers, Sv!LoopStops(w) \/ Sv!StopWorker(w) PROVE ServeInv'
  <2>1. /\ UNCHANGED <<main, process, expired, req>>
        /\ \/ /\ worker[w] = "told" /\ worker' = [worker EXCEPT ![w] = "teardown"]
              /\ lifespan' = [lifespan EXCEPT ![w] = "leaving"]
           \/ /\ worker[w] = "teardown" /\ worker' = [worker EXCEPT ![w] = "gone"]
              /\ lifespan' = [lifespan EXCEPT ![w] = "left"]
    BY <1>5 DEF Sv!LoopStops, Sv!StopWorker, Sv!reqVars, Sv!Set
  <2>2. \A x \in Workers \ {w} : worker'[x] = worker[x] /\ lifespan'[x] = lifespan[x]
    BY <1>0, <2>1
  <2>3. \/ worker'[w] = "teardown" /\ lifespan'[w] = "leaving"
        \/ worker'[w] = "gone" /\ lifespan'[w] = "left"
    BY <1>0, <2>1
  <2>4. /\ worker' \in [Workers -> {"none", "starting", "serving", "told", "teardown", "gone"}]
        /\ lifespan' \in [Workers -> Sv!Spans]
    BY <1>0, <2>1 DEF Sv!Spans
  <2>5. Sv!TypeOK'
    BY <1>0, <1>1, <2>1, <2>4 DEF ServeInv, Sv!TypeOK
  <2>6. ServeThreads'
    <3>1. ServeThread(w)'
      BY <2>3 DEF ServeThread
    <3>2. ASSUME NEW x \in Workers \ {w} PROVE ServeThread(x)'
      BY <1>1, <2>2, <3>2 DEF ServeInv, ServeThreads, ServeThread
    <3> QED BY <3>1, <3>2 DEF ServeThreads
  <2>7. main \notin {"new", "spawn", "starting", "bind", "permit", "accept"}
    BY <2>1 DEF ServeInv, ServeWorkers
  <2>8. main \in {"stop_process", "returned"} => expired
    BY <2>1 DEF ServeInv, ServeWorkers
  <2>9. ServeWorkers' /\ ServeProcess'
    BY <2>1, <2>7, <2>8 DEF ServeInv, ServeWorkers, ServeProcess
  <2> QED BY <2>5, <2>6, <2>9 DEF ServeInv
<1> QED BY <1>2, <1>3, <1>4, <1>5

(* With a listener open every worker has its lifespan, and the process     *)
(* lifespan is left, or serve returns, only after every worker's was left  *)
(* or the grace was over, for any workers and requests and whichever       *)
(* thread or hook fails (ServerHandle.serve, Server::serve).               *)
THEOREM ServeSafe == MCSpec => []ServeSafety
<1>1. MCInit => ServeInv
  <2> SUFFICES ASSUME MCInit PROVE ServeInv
    OBVIOUS
  <2>1. Sv!Init
    BY DEF MCInit
  <2>2. MaxAsks \in Nat
    BY ServingAssumption DEF Sv!ServeAssumption
  <2>3. {startFailed, signal, draining, ready, expired, asked} \subseteq BOOLEAN
    BY <2>1 DEF Sv!Init
  <2>4. Sv!TypeOK
    BY <2>1, <2>2, <2>3 DEF Sv!Init, Sv!TypeOK, Sv!Spans
  <2>5. ServeThreads /\ ServeWorkers /\ ServeProcess
    BY <2>1 DEF Sv!Init, ServeThreads, ServeThread, ServeWorkers, ServeProcess
  <2> QED BY <2>4, <2>5 DEF ServeInv
<1>2. ASSUME ServeInv, UNCHANGED serveVars PROVE ServeInv'
  <2>1. Sv!TypeOK'
    BY <1>2 DEF serveVars, ServeInv, Sv!TypeOK, Sv!Spans
  <2>2. ServeThreads' /\ ServeWorkers' /\ ServeProcess'
    BY <1>2 DEF serveVars, ServeInv, ServeThreads, ServeThread, ServeWorkers, ServeProcess
  <2> QED BY <2>1, <2>2 DEF ServeInv
<1>3. ServeInv
      /\ [MCNext]_<<which, vars, serveVars, healthVars, webSocketVars, sseVars, reloadVars>>
         => ServeInv'
  <2>1. MCNext => Sv!Next \/ UNCHANGED serveVars
    BY DEF MCNext
  <2>2. ServeInv /\ Sv!Next => ServeInv'
    BY ServeAsked, ServeStarts, ServeEnds DEF Sv!Next, Sv!Main
  <2> QED BY <1>2, <2>1, <2>2
<1> QED BY <1>1, <1>3, ServeImplied, PTL DEF MCSpec

=============================================================================
