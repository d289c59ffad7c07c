--------------------------- MODULE RequestsProofs ---------------------------
(***************************************************************************)
(* Proofs about Requests, for every set of requests, whichever of them can *)
(* be cancelled or resist it, every limit and every number of places.  The *)
(* invariant has three layers: where each request is (WhereInv), what the  *)
(* cancellation cell says of it (CellInv), and what the two counters say   *)
(* of all of them (CountInv).                                              *)
(***************************************************************************)
EXTENDS Requests, FiniteSetTheorems, TLAPS

-----------------------------------------------------------------------------
(* Queues                                                                  *)

Elems(s) == {s[i] : i \in DOMAIN s}
Distinct(s) == \A i, j \in DOMAIN s : s[i] = s[j] => i = j

(* What pushing one item at the back of a queue does to its contents.      *)
LEMMA AppendElems ==
  ASSUME NEW S, NEW s \in Seq(S), NEW e \in S
  PROVE  /\ Append(s, e) \in Seq(S)
         /\ Elems(Append(s, e)) = Elems(s) \cup {e}
         /\ Distinct(s) /\ e \notin Elems(s) => Distinct(Append(s, e))
<1> DEFINE t == Append(s, e)
<1>1. /\ t \in Seq(S) /\ Len(t) = Len(s) + 1 /\ Len(s) \in Nat
      /\ DOMAIN s = 1 .. Len(s) /\ DOMAIN t = 1 .. Len(s) + 1
      /\ \A i \in 1 .. Len(s) : t[i] = s[i]
      /\ t[Len(s) + 1] = e
  OBVIOUS
<1> HIDE DEF t
<1>2. Elems(t) = Elems(s) \cup {e}
  <2>1. ASSUME NEW x \in Elems(t) PROVE x \in Elems(s) \cup {e}
    BY <1>1, <2>1 DEF Elems
  <2>2. ASSUME NEW x \in Elems(s) \cup {e} PROVE x \in Elems(t)
    BY <1>1, <2>2 DEF Elems
  <2> QED BY <2>1, <2>2
<1>3. Distinct(s) /\ e \notin Elems(s) => Distinct(t)
  BY <1>1 DEF Distinct, Elems
<1> QED BY <1>1, <1>2, <1>3 DEF t

(* What popping the item at the front does.                                *)
LEMMA TailElems ==
  ASSUME NEW S, NEW s \in Seq(S), s # <<>>
  PROVE  /\ Head(s) \in S /\ Head(s) \in Elems(s)
         /\ Tail(s) \in Seq(S)
         /\ Elems(s) = Elems(Tail(s)) \cup {Head(s)}
         /\ Distinct(s) => Distinct(Tail(s)) /\ Head(s) \notin Elems(Tail(s))
<1> DEFINE t == Tail(s)
<1>1. /\ t \in Seq(S) /\ Len(s) \in Nat \ {0} /\ Len(t) = Len(s) - 1
      /\ DOMAIN s = 1 .. Len(s) /\ DOMAIN t = 1 .. Len(s) - 1
      /\ \A i \in 1 .. Len(s) - 1 : t[i] = s[i + 1]
      /\ Head(s) = s[1] /\ s[1] \in S
  OBVIOUS
<1> HIDE DEF t
<1>2. Elems(s) = Elems(t) \cup {s[1]}
  <2>1. ASSUME NEW x \in Elems(s) PROVE x \in Elems(t) \cup {s[1]}
    <3>1. PICK i \in 1 .. Len(s) : x = s[i]
      BY <1>1, <2>1 DEF Elems
    <3>2. CASE i = 1
      BY <3>1, <3>2
    <3>3. CASE i # 1
      <4>1. i - 1 \in 1 .. Len(s) - 1 /\ t[i - 1] = s[i]
        BY <1>1, <3>3
      <4> QED BY <1>1, <3>1, <4>1 DEF Elems
    <3> QED BY <3>2, <3>3
  <2>2. ASSUME NEW x \in Elems(t) \cup {s[1]} PROVE x \in Elems(s)
    BY <1>1, <2>2 DEF Elems
  <2> QED BY <2>1, <2>2
<1>3. ASSUME Distinct(s) PROVE Distinct(t) /\ s[1] \notin Elems(t)
  <2>1. Distinct(t)
    BY <1>1, <1>3 DEF Distinct
  <2>2. ASSUME NEW i \in DOMAIN t, t[i] = s[1] PROVE FALSE
    BY <1>1, <1>3, <2>2 DEF Distinct
  <2> QED BY <2>1, <2>2 DEF Elems
<1>4. s[1] \in Elems(s)
  BY <1>1 DEF Elems
<1> QED BY <1>1, <1>2, <1>3, <1>4 DEF t

-----------------------------------------------------------------------------
(* The invariant                                                           *)

Shape ==
    /\ net \in [Requests -> {"new", "no_place", "body", "waiting", "flag",
                             "notice", "end"}]
    /\ replied \in [Requests -> BOOLEAN]
    /\ queue \in Seq(Requests)
    /\ cancels \in Seq(Requests)
    /\ cell \in [Requests -> {"running", "abandoned", "answered"}]
    /\ slot \in [Requests -> BOOLEAN]
    /\ reply \in [Requests -> {"none", "full", "stream", "dropped"}]
    /\ taken \in [Requests -> BOOLEAN]
    /\ kept \in [Requests -> BOOLEAN]
    /\ released \in [Requests -> BOOLEAN]
    /\ task \in [Requests -> {"none", "created", "running", "streaming", "after",
                              "done"} \cup Kinds]
    /\ cancelling \in [Requests -> BOOLEAN]
    /\ pc \in {"idle", "cancels", "pop", "claim", "attach", "recheck", "release",
               "send", "finish"}
    /\ cur \in Requests \cup {NoRequest}

(* What the loop thread is in the middle of.                               *)
LoopAt ==
    /\ pc \in {"claim", "attach", "recheck", "release", "send", "finish"} =>
          cur \in Requests
    /\ pc = "claim" => task[cur] = "none" /\ cur \notin Elems(queue)
    /\ pc \in {"attach", "recheck"} => task[cur] = "created"
    /\ pc \in {"release", "send", "finish"} => task[cur] \in Kinds
    /\ pc = "finish" => task[cur] # "stream"

(* A request is being read, or queued, or popped, or has a task.           *)
OnePlace ==
    /\ Distinct(queue)
    /\ \A r \in Requests :
          /\ net[r] \in {"new", "no_place", "body"} =>
                /\ task[r] = "none" /\ r \notin Elems(queue)
                /\ ~(pc = "claim" /\ cur = r)
          /\ r \in Elems(queue) => task[r] = "none"

(* When a handler still holds its slot.                                    *)
Held ==
    /\ \A r \in Requests :
          task[r] \in {"none", "created", "running", "streaming", "after"} =>
              ~released[r]
    /\ pc = "release" => ~released[cur]
    /\ pc \in {"send", "finish"} =>
          (released[cur] <=> task[cur] # "stream" /\ ~kept[cur])

WhereInv == Shape /\ LoopAt /\ OnePlace /\ Held

-----------------------------------------------------------------------------
(* Where a request is                                                      *)

(* At first no request is anywhere.                                        *)
LEMMA InitWhere == Init => WhereInv
<1> SUFFICES ASSUME Init PROVE WhereInv
  OBVIOUS
<1>1. Shape
  BY RequestsAssumption DEF Init, Shape
<1>2. Elems(queue) = {} /\ Distinct(queue)
  BY DEF Init, Elems, Distinct
<1>3. LoopAt /\ OnePlace /\ Held
  BY <1>2 DEF Init, LoopAt, OnePlace, Held
<1> QED BY <1>1, <1>3 DEF WhereInv

(* A step that only moves a request's tokio task along, and reads no       *)
(* request anew, leaves the loop and the tasks alone.                      *)
LEMMA NetWhere ==
  ASSUME WhereInv, Shape', NEW r \in Requests, NEW to,
         net' = Set(net, r, to),
         to \in {"new", "no_place", "body"} => net[r] = "new",
         UNCHANGED <<queue, task, pc, cur, released, kept>>
  PROVE  WhereInv'
<1>1. LoopAt'
  BY DEF WhereInv, LoopAt
<1>2. OnePlace'
  BY DEF WhereInv, OnePlace, Shape, Set
<1>3. Held'
  BY DEF WhereInv, Held
<1> QED BY <1>1, <1>2, <1>3 DEF WhereInv

(* The steps of a request's tokio task leave the loop and the tasks alone. *)
LEMMA TokioWhere ==
  ASSUME WhereInv, NEW r \in Requests, Tokio(r)
  PROVE  WhereInv'
<1> USE DEF Net, tokioVars, mailbox, cellVars, responderVars, taskVars, loopVars
<1>0. Shape
  BY DEF WhereInv
<1>1. CASE TakePlace(r)
  <2> DEFINE to == IF connLoad >= MaxStreams THEN "no_place" ELSE "body"
  <2>1. /\ net[r] = "new" /\ net' = Set(net, r, to)
        /\ UNCHANGED <<queue, task, pc, cur, released, kept>>
    BY <1>1 DEF TakePlace
  <2>2. Shape'
    BY <1>0, <1>1 DEF TakePlace, Shape, Set
  <2> QED BY <2>1, <2>2, NetWhere
<1>2. CASE GiveBack(r) \/ Shed(r)
  <2>1. /\ net' = Set(net, r, "end")
        /\ UNCHANGED <<queue, task, pc, cur, released, kept>>
    BY <1>2 DEF GiveBack, Shed
  <2>2. Shape'
    BY <1>0, <1>2 DEF GiveBack, Shed, Shape, Set
  <2> QED BY <2>1, <2>2, NetWhere
<1>3. CASE Enqueue(r)
  <2>1. /\ queue' \in Seq(Requests)
        /\ Elems(queue') = Elems(queue) \cup {r}
        /\ Distinct(queue')
    BY <1>0, <1>3, AppendElems DEF Enqueue, OnePlace, WhereInv, Shape
  <2>2. Shape'
    BY <1>0, <1>3, <2>1 DEF Enqueue, Shape, Set
  <2>3. /\ net[r] = "body" /\ net' = Set(net, r, "waiting")
        /\ UNCHANGED <<task, pc, cur, released, kept>>
    BY <1>3 DEF Enqueue
  <2>4. LoopAt'
    <3>1. pc = "claim" => cur # r
      BY <2>3 DEF WhereInv, OnePlace
    <3> QED BY <2>1, <2>3, <3>1 DEF WhereInv, LoopAt
  <2>5. OnePlace'
    BY <1>0, <2>1, <2>3 DEF WhereInv, OnePlace, Shape, Set
  <2>6. Held'
    BY <2>3 DEF WhereInv, Held
  <2> QED BY <2>2, <2>4, <2>5, <2>6 DEF WhereInv
<1>4. CASE GetReply(r)
  <2>1. /\ net' = Set(net, r, "end")
        /\ UNCHANGED <<queue, task, pc, cur, released, kept>>
    BY <1>4 DEF GetReply
  <2>2. Shape'
    BY <1>0, <1>4 DEF GetReply, Shape, Set
  <2> QED BY <2>1, <2>2, NetWhere
<1>5. CASE SenderDropped(r) \/ Timeout(r) \/ ClientLeaves(r)
  <2>1. /\ Armed(r) \in {"flag", "end"}
        /\ net' = Set(net, r, Armed(r))
        /\ UNCHANGED <<queue, task, pc, cur, released, kept>>
    BY <1>5 DEF SenderDropped, Timeout, ClientLeaves, Armed
  <2>2. UNCHANGED <<replied, cancels, cell, slot, reply, taken, cancelling>>
    BY <1>5 DEF SenderDropped, Timeout, ClientLeaves
  <2>3. Shape'
    BY <1>0, <2>1, <2>2 DEF Shape, Set
  <2> QED BY <2>1, <2>3, NetWhere
<1>6. CASE Abandoning(r)
  <2>1. Append(cancels, r) \in Seq(Requests)
    BY <1>0, AppendElems DEF Shape
  <2>2. PICK to \in {"notice", "end"} : net' = Set(net, r, to)
    BY <1>6 DEF Abandoning
  <2>3. UNCHANGED <<queue, task, pc, cur, released, kept>>
    BY <1>6 DEF Abandoning
  <2>4. UNCHANGED <<replied, slot, reply, taken, cancelling>>
    BY <1>6 DEF Abandoning
  <2>5. cancels' \in Seq(Requests)
    BY <1>0, <1>6, <2>1 DEF Abandoning, Shape
  <2>6. cell' \in [Requests -> {"running", "abandoned", "answered"}]
    BY <1>0, <1>6 DEF Abandoning, Shape, Set
  <2>7. Shape'
    BY <1>0, <2>2, <2>3, <2>4, <2>5, <2>6 DEF Shape, Set
  <2> QED BY <2>2, <2>3, <2>7, NetWhere
<1> QED BY <1>1, <1>2, <1>3, <1>4, <1>5, <1>6 DEF Tokio

(* Neither does the drain touch a task other than the one it creates.      *)
LEMMA DrainWhere ==
  ASSUME WhereInv, Drain
  PROVE  WhereInv'
<1> USE RequestsAssumption DEF WhereInv, Shape, LoopMoves, Set, tokioVars, mailbox,
        cellVars, responderVars, taskVars, loopVars
<1>1. CASE DrainBegins \/ CancelsEmpty \/ QueueEmpty
  BY <1>1 DEF DrainBegins, CancelsEmpty, QueueEmpty, LoopAt, OnePlace, Held
<1>2. CASE PopCancel
  <2>1. cancels' \in Seq(Requests) /\ Head(cancels) \in Requests
    BY <1>2, TailElems DEF PopCancel
  <2> QED BY <1>2, <2>1 DEF PopCancel, Cancel, LoopAt, OnePlace, Held
<1>3. CASE PopAbandoned \/ Pop
  <2>1. /\ Head(queue) \in Requests /\ Head(queue) \in Elems(queue)
        /\ queue' \in Seq(Requests)
        /\ Elems(queue) = Elems(queue') \cup {Head(queue)}
        /\ Distinct(queue') /\ Head(queue) \notin Elems(queue')
    <3>1. queue # <<>> /\ queue' = Tail(queue) /\ Distinct(queue)
      BY <1>3 DEF PopAbandoned, Pop, OnePlace
    <3> QED BY <3>1, TailElems
  <2>2. CASE PopAbandoned
    BY <2>1, <2>2 DEF PopAbandoned, LoopAt, OnePlace, Held
  <2>3. CASE Pop
    BY <2>1, <2>3 DEF Pop, LoopAt, OnePlace, Held
  <2> QED BY <1>3, <2>2, <2>3
<1>4. CASE Claim
  BY <1>4 DEF Claim, LoopAt, OnePlace, Held
<1>5. CASE Attach
  BY <1>5 DEF Attach, LoopAt, OnePlace, Held
<1>6. CASE AttachRecheck
  BY <1>6 DEF AttachRecheck, Cancel, LoopAt, OnePlace, Held
<1> QED BY <1>1, <1>2, <1>3, <1>4, <1>5, <1>6 DEF Drain

(* Giving the slot back marks the one Responder and its cell.              *)
LEMMA ReleaseOnceShape ==
  ASSUME Shape, NEW r \in Requests, ReleaseOnce(r)
  PROVE  /\ released' = Set(released, r, TRUE)
         /\ cell' \in [Requests -> {"running", "abandoned", "answered"}]
         /\ slot' \in [Requests -> BOOLEAN]
<1> USE DEF ReleaseOnce, Set, Shape
<1>1. CASE released[r]
  BY <1>1
<1>2. CASE ~released[r]
  BY <1>2
<1> QED BY <1>1, <1>2

(* A handler's step, seen from the request: the task of r moves from one   *)
(* place to another and its slot is given back if and only if it is done.  *)
LEMMA TaskWhere ==
  ASSUME WhereInv, Shape', NEW r \in Requests, pc = "idle", pc' = "idle",
         UNCHANGED <<net, queue>>,
         NEW v \in {"created", "running", "streaming", "after", "done"},
         task[r] # "none", task' = Set(task, r, v),
         \/ v # "done" /\ task[r] \notin {"done"} \cup Kinds /\ released' = released
         \/ v = "done" /\ released' = Set(released, r, TRUE)
  PROVE  WhereInv'
<1> USE DEF WhereInv, Shape, Set
<1>1. LoopAt'
  BY DEF LoopAt
<1>2. OnePlace'
  BY DEF OnePlace
<1>3. Held'
  BY DEF Held, Kinds
<1> QED BY <1>1, <1>2, <1>3

(* The steps of a handler.                                                 *)
LEMMA HandlerWhere ==
  ASSUME WhereInv, NEW r \in Requests, Handler(r)
  PROVE  WhereInv'
<1> USE RequestsAssumption DEF WhereInv, tokioVars, mailbox, cellVars, responderVars,
        taskVars, loopVars
<1>0. ASSUME ReleaseOnce(r) PROVE /\ released' = Set(released, r, TRUE)
                                  /\ cell' \in [Requests -> {"running", "abandoned", "answered"}]
                                  /\ slot' \in [Requests -> BOOLEAN]
  BY <1>0, ReleaseOnceShape
<1>1. CASE Start(r)
  <2>1. Shape'
    BY <1>1 DEF Start, Shape, Set
  <2> QED BY <1>1, <2>1, TaskWhere DEF Start, Runs, Kinds
<1>2. CASE AfterResponse(r)
  BY <1>2 DEF AfterResponse, Runs, Shape, Set, LoopAt, OnePlace, Held
<1>3. CASE CatchesCancel(r)
  BY <1>3 DEF CatchesCancel, Shape, Set, LoopAt, OnePlace, Held
<1>4. CASE CancelUnstarted(r)
  <2>1. Shape'
    BY <1>0, <1>4 DEF CancelUnstarted, DropSender, Shape, Set
  <2> QED BY <1>0, <1>4, <2>1, TaskWhere DEF CancelUnstarted
<1>5. CASE RaisesOut(r) \/ CancelledOut(r)
  <2>1. Shape'
    <3>1. UnwindsRunHandler(r)
      BY <1>5 DEF RaisesOut, CancelledOut
    <3> QED BY <1>0, <3>1 DEF UnwindsRunHandler, DropSender, Shape, Set
  <2> QED BY <1>0, <1>5, <2>1, TaskWhere
          DEF RaisesOut, CancelledOut, UnwindsRunHandler, Runs
<1>6. ASSUME NEW kind \in Kinds, DeliverAnswer(r, kind)
      PROVE  WhereInv'
  BY <1>6 DEF DeliverAnswer, LoopMoves, Runs, Kinds, Shape, Set, LoopAt, OnePlace, Held
<1>7. CASE StreamEnds(r)
  <2>1. PICK returned \in BOOLEAN : FinishOrKeep(r, returned)
    BY <1>7 DEF StreamEnds
  <2>2. CASE kept[r] /\ returned
    <3>1. Shape' /\ task' = Set(task, r, "after") /\ released' = released
      BY <1>7, <2>1, <2>2 DEF StreamEnds, FinishOrKeep, Shape, Set
    <3> QED BY <1>7, <3>1, TaskWhere DEF StreamEnds, Runs, Kinds
  <2>3. CASE ~(kept[r] /\ returned)
    <3>1. ReleaseOnce(r) /\ task' = Set(task, r, "done")
      BY <2>1, <2>3 DEF FinishOrKeep
    <3>2. Shape'
      BY <1>0, <1>7, <3>1 DEF StreamEnds, Shape, Set
    <3> QED BY <1>0, <1>7, <3>1, <3>2, TaskWhere DEF StreamEnds, Runs
  <2> QED BY <2>2, <2>3
<1>8. CASE AfterDone(r)
  <2>1. Shape'
    BY <1>0, <1>8 DEF AfterDone, Shape, Set
  <2> QED BY <1>0, <1>8, <2>1, TaskWhere DEF AfterDone, Runs
<1> QED BY <1>1, <1>2, <1>3, <1>4, <1>5, <1>6, <1>7, <1>8 DEF Handler, Unwind

(* The steps of Responder::deliver and of what follows it.                 *)
LEMMA DeliverWhere ==
  ASSUME WhereInv, Deliver
  PROVE  WhereInv'
<1> USE RequestsAssumption DEF WhereInv, LoopMoves, tokioVars, mailbox, cellVars,
        responderVars, taskVars
<1>c. cur \in Requests
  BY DEF Deliver, DeliverRelease, DeliverSend, Finish, LoopAt
<1>0. ASSUME ReleaseOnce(cur)
      PROVE  /\ released' = Set(released, cur, TRUE)
             /\ cell' \in [Requests -> {"running", "abandoned", "answered"}]
             /\ slot' \in [Requests -> BOOLEAN]
  BY <1>0, <1>c, ReleaseOnceShape
<1>1. CASE DeliverRelease
  <2>1. CASE task[cur] # "stream" /\ ~kept[cur]
    <3>1. ReleaseOnce(cur)
      BY <1>1, <2>1 DEF DeliverRelease
    <3>2. Shape'
      <4>1. /\ released' \in [Requests -> BOOLEAN]
            /\ cell' \in [Requests -> {"running", "abandoned", "answered"}]
            /\ slot' \in [Requests -> BOOLEAN]
        BY <1>c, <1>0, <3>1 DEF Shape, Set
      <4>2. /\ UNCHANGED <<net, replied, queue, cancels, reply, taken, kept, task,
                            cancelling>>
            /\ pc' = "send" /\ cur' = cur
        BY <1>1 DEF DeliverRelease
      <4> QED BY <4>1, <4>2 DEF Shape
    <3>3. LoopAt'
      BY <1>c, <1>1 DEF DeliverRelease, LoopAt
    <3>4. OnePlace'
      BY <1>c, <1>1 DEF DeliverRelease, OnePlace
    <3>5. Held'
      <4>1. released' = Set(released, cur, TRUE) /\ task[cur] \in Kinds
        BY <1>0, <1>1, <3>1 DEF DeliverRelease, LoopAt
      <4> QED BY <1>c, <1>1, <2>1, <4>1 DEF DeliverRelease, Shape, Set, Held, Kinds
    <3> QED BY <3>2, <3>3, <3>4, <3>5
  <2>2. CASE ~(task[cur] # "stream" /\ ~kept[cur])
    BY <1>c, <1>1, <2>2 DEF DeliverRelease, Shape, LoopAt, OnePlace, Held
  <2> QED BY <2>1, <2>2
<1>2. CASE DeliverSend
  <2>1. Shape'
    BY <1>c, <1>2 DEF DeliverSend, Shape, Set, Kinds
  <2>2. LoopAt'
    BY <1>c, <1>2 DEF DeliverSend, Shape, Set, LoopAt, Kinds
  <2>3. OnePlace'
    BY <1>c, <1>2 DEF DeliverSend, Shape, Set, LoopAt, OnePlace, Kinds
  <2>4. Held'
    BY <1>c, <1>2 DEF DeliverSend, Shape, Set, LoopAt, Held, Kinds
  <2> QED BY <2>1, <2>2, <2>3, <2>4
<1>3. CASE Finish
  <2>1. CASE kept[cur] /\ task[cur] = "full"
    <3>1. /\ task' = Set(task, cur, "after") /\ released' = released
          /\ pc = "finish" /\ pc' = "idle" /\ UNCHANGED <<net, queue>>
      BY <1>3, <2>1 DEF Finish, FinishOrKeep
    <3>2. Shape'
      BY <1>c, <1>3, <2>1 DEF Finish, FinishOrKeep, Shape, Set
    <3>3. LoopAt'
      BY <3>1 DEF LoopAt
    <3>4. OnePlace'
      BY <1>c, <2>1, <3>1 DEF Shape, Set, OnePlace
    <3>5. Held'
      BY <1>c, <2>1, <3>1 DEF Shape, Set, Held
    <3> QED BY <3>2, <3>3, <3>4, <3>5
  <2>2. CASE ~(kept[cur] /\ task[cur] = "full")
    <3>1. ReleaseOnce(cur) /\ task' = Set(task, cur, "done")
      BY <1>3, <2>2 DEF Finish, FinishOrKeep
    <3>2. /\ released' = Set(released, cur, TRUE) /\ task[cur] \in Kinds
          /\ pc = "finish" /\ pc' = "idle" /\ UNCHANGED <<net, queue>>
      BY <1>0, <1>3, <3>1 DEF Finish, LoopAt
    <3>3. Shape'
      BY <1>c, <1>0, <1>3, <3>1 DEF Finish, Shape, Set
    <3>4. LoopAt'
      BY <3>2 DEF LoopAt
    <3>5. OnePlace'
      BY <1>c, <3>1, <3>2 DEF Shape, Set, OnePlace, Kinds
    <3>6. Held'
      BY <1>c, <3>1, <3>2 DEF Shape, Set, Held
    <3> QED BY <3>3, <3>4, <3>5, <3>6
  <2> QED BY <2>1, <2>2
<1> QED BY <1>1, <1>2, <1>3 DEF Deliver

(* A step that changes no variable preserves where everything is.          *)
LEMMA StutterWhere == WhereInv /\ UNCHANGED vars => WhereInv'
BY DEF WhereInv, Shape, LoopAt, OnePlace, Held, vars

(* Every step preserves where everything is.                               *)
LEMMA NextWhere == WhereInv /\ [Next]_vars => WhereInv'
BY TokioWhere, DrainWhere, HandlerWhere, DeliverWhere, StutterWhere DEF Next

-----------------------------------------------------------------------------
(* What the cell says                                                      *)

(* Only a route with cancel_on_disconnect has a cell, a request is marked  *)
(* before its notice is sent, and one whose sender was taken is answered   *)
(* or was marked before.                                                   *)
MarkedFirst ==
    \A r \in Requests :
        /\ net[r] \in {"flag", "notice"} \/ cell[r] = "abandoned" => r \in Cancellable
        /\ net[r] = "notice" \/ r \in Elems(cancels) => cell[r] = "abandoned"
        /\ taken[r] /\ r \in Cancellable => cell[r] # "running"

(* The cell holds the task of a handler until the task has been told.      *)
SlotKept ==
    \A r \in Cancellable \ Stubborn :
        Waits(r) /\ ~(pc = "attach" /\ cur = r) => slot[r] \/ cancelling[r]

(* NoOrphan and ReplyAfterRelease, without what they can do without.       *)
Noticed ==
    \A r \in Requests \ Stubborn :
        cell[r] = "abandoned" /\ Waits(r) =>
            \/ cancelling[r]
            \/ net[r] = "notice"
            \/ r \in Elems(cancels)
            \/ cur = r /\ pc \in {"attach", "recheck"}

FullFreed == \A r \in Requests : reply[r] = "full" /\ ~kept[r] => released[r]

CellInv == MarkedFirst /\ SlotKept /\ Noticed /\ FullFreed

(* The cells of requests that have not come say nothing yet.               *)
LEMMA InitCell == Init => CellInv
<1> SUFFICES ASSUME Init PROVE CellInv
  OBVIOUS
<1>1. Elems(cancels) = {}
  BY DEF Init, Elems
<1> QED BY <1>1, RequestsAssumption
        DEF Init, CellInv, MarkedFirst, SlotKept, Noticed, FullFreed, Waits

(* What the connection does keeps what the cells say.                      *)
LEMMA TokioCell ==
  ASSUME WhereInv, CellInv, NEW r \in Requests, Tokio(r)
  PROVE  CellInv'
<1> USE RequestsAssumption DEF WhereInv, Shape, CellInv, Net, Set, tokioVars, mailbox,
        cellVars, responderVars, taskVars, loopVars, Waits
<1>1. CASE TakePlace(r) \/ GiveBack(r) \/ Enqueue(r) \/ Shed(r)
  BY <1>1 DEF TakePlace, GiveBack, Enqueue, Shed, MarkedFirst, SlotKept, Noticed, FullFreed
<1>2. CASE GetReply(r) \/ SenderDropped(r) \/ Timeout(r) \/ ClientLeaves(r)
  BY <1>2 DEF GetReply, SenderDropped, Timeout, ClientLeaves, Armed, MarkedFirst,
       SlotKept, Noticed, FullFreed
<1>3. CASE Abandoning(r)
  <2>1. CASE net[r] = "flag"
    BY <1>3, <2>1 DEF Abandoning, MarkedFirst, SlotKept, Noticed, FullFreed
  <2>2. CASE net[r] = "notice"
    <3>1. Elems(cancels') = Elems(cancels) \cup {r}
      <4>1. cancels' = Append(cancels, r)
        BY <1>3, <2>2 DEF Abandoning
      <4> QED BY <4>1, AppendElems
    <3> QED BY <1>3, <2>2, <3>1 DEF Abandoning, MarkedFirst, SlotKept, Noticed, FullFreed
  <2> QED BY <1>3, <2>1, <2>2 DEF Abandoning
<1> QED BY <1>1, <1>2, <1>3 DEF Tokio

(* What the drain callback does keeps what the cells say.                  *)
LEMMA DrainCell ==
  ASSUME WhereInv, CellInv, Drain
  PROVE  CellInv'
<1> USE RequestsAssumption DEF WhereInv, Shape, CellInv, LoopMoves, Set, tokioVars,
        mailbox, cellVars, responderVars, taskVars, loopVars, Waits
<1>1. CASE DrainBegins \/ CancelsEmpty \/ QueueEmpty
  BY <1>1 DEF DrainBegins, CancelsEmpty, QueueEmpty, MarkedFirst, SlotKept, Noticed,
       FullFreed
<1>2. CASE PopCancel
  <2>1. /\ Head(cancels) \in Requests
        /\ Elems(cancels) = Elems(cancels') \cup {Head(cancels)}
    BY <1>2, TailElems DEF PopCancel
  <2> QED BY <1>2, <2>1 DEF PopCancel, Cancel, MarkedFirst, SlotKept, Noticed, FullFreed
<1>3. CASE PopAbandoned
  <2>1. Head(queue) \in Requests
    BY <1>3, TailElems DEF PopAbandoned
  <2> QED BY <1>3, <2>1 DEF PopAbandoned, MarkedFirst, SlotKept, Noticed, FullFreed
<1>4. CASE Pop
  BY <1>4 DEF Pop, MarkedFirst, SlotKept, Noticed, FullFreed
<1>5. CASE Claim
  BY <1>5 DEF Claim, LoopAt, MarkedFirst, SlotKept, Noticed, FullFreed
<1>6. CASE Attach
  BY <1>6 DEF Attach, LoopAt, MarkedFirst, SlotKept, Noticed, FullFreed
<1>7. CASE AttachRecheck
  BY <1>7 DEF AttachRecheck, Cancel, LoopAt, MarkedFirst, SlotKept, Noticed, FullFreed
<1> QED BY <1>1, <1>2, <1>3, <1>4, <1>5, <1>6, <1>7 DEF Drain

(* Giving back a slot never marks a request, and forgets only its task.    *)
LEMMA ReleaseOnceCell ==
  ASSUME Shape, MarkedFirst, NEW r \in Requests, ReleaseOnce(r)
  PROVE  /\ \A q \in Requests : (cell'[q] = "abandoned") <=> (cell[q] = "abandoned")
         /\ \A q \in Requests : cell[q] # "running" => cell'[q] # "running"
         /\ \A q \in Requests \ {r} : slot'[q] = slot[q]
         /\ \A q \in Requests : released[q] => released'[q]
<1>1. CASE released[r]
  BY <1>1 DEF ReleaseOnce
<1>2. CASE ~released[r]
  BY <1>2 DEF ReleaseOnce, Set, Shape
<1> QED BY <1>1, <1>2

(* What a handler does keeps what the cells say.                           *)
LEMMA HandlerCell ==
  ASSUME WhereInv, CellInv, NEW r \in Requests, Handler(r)
  PROVE  CellInv'
<1> USE RequestsAssumption DEF WhereInv, Shape, CellInv, Set, tokioVars, mailbox,
        cellVars, responderVars, taskVars, loopVars, Waits
<1>0. ASSUME ReleaseOnce(r)
      PROVE  /\ \A q \in Requests : (cell'[q] = "abandoned") <=> (cell[q] = "abandoned")
             /\ \A q \in Requests : cell[q] # "running" => cell'[q] # "running"
             /\ \A q \in Requests \ {r} : slot'[q] = slot[q]
             /\ \A q \in Requests : released[q] => released'[q]
  BY <1>0, ReleaseOnceCell
<1>1. CASE Start(r) \/ AfterResponse(r) \/ CatchesCancel(r)
  <2>1. CASE Start(r)
    BY <2>1 DEF Start, Runs, MarkedFirst, SlotKept, Noticed, FullFreed
  <2>2. CASE AfterResponse(r)
    BY <2>2 DEF AfterResponse, Runs, MarkedFirst, SlotKept, Noticed, FullFreed
  <2>3. CASE CatchesCancel(r)
    BY <2>3 DEF CatchesCancel, MarkedFirst, SlotKept, Noticed, FullFreed
  <2> QED BY <1>1, <2>1, <2>2, <2>3
<1>2. CASE CancelUnstarted(r)
  BY <1>0, <1>2 DEF CancelUnstarted, DropSender, MarkedFirst, SlotKept, Noticed, FullFreed
<1>3. CASE RaisesOut(r) \/ CancelledOut(r)
  <2>1. UnwindsRunHandler(r) /\ pc = "idle"
    BY <1>3 DEF RaisesOut, CancelledOut, Runs
  <2> QED BY <1>0, <2>1 DEF UnwindsRunHandler, DropSender, MarkedFirst, SlotKept, Noticed,
             FullFreed
<1>4. ASSUME NEW kind \in Kinds, DeliverAnswer(r, kind)
      PROVE  CellInv'
  BY <1>4 DEF DeliverAnswer, LoopMoves, Runs, Kinds, MarkedFirst, SlotKept, Noticed,
       FullFreed
<1>5. CASE StreamEnds(r)
  <2>1. PICK returned \in BOOLEAN : FinishOrKeep(r, returned)
    BY <1>5 DEF StreamEnds
  <2>2. CASE kept[r] /\ returned
    BY <1>5, <2>1, <2>2 DEF StreamEnds, FinishOrKeep, MarkedFirst, SlotKept, Noticed,
         FullFreed
  <2>3. CASE ~(kept[r] /\ returned)
    <3>1. ReleaseOnce(r) /\ task' = Set(task, r, "done")
      BY <2>1, <2>3 DEF FinishOrKeep
    <3> QED BY <1>0, <1>5, <3>1 DEF StreamEnds, MarkedFirst, SlotKept, Noticed, FullFreed
  <2> QED BY <2>2, <2>3
<1>6. CASE AfterDone(r)
  BY <1>0, <1>6 DEF AfterDone, MarkedFirst, SlotKept, Noticed, FullFreed
<1> QED BY <1>1, <1>2, <1>3, <1>4, <1>5, <1>6 DEF Handler, Unwind

(* What the delivery of a cancellation does keeps what the cells say.      *)
LEMMA DeliverCell ==
  ASSUME WhereInv, CellInv, Deliver
  PROVE  CellInv'
<1> USE RequestsAssumption DEF WhereInv, Shape, CellInv, LoopMoves, Set, tokioVars,
        mailbox, cellVars, responderVars, taskVars, Waits
<1>c. cur \in Requests /\ task[cur] \in Kinds
  BY DEF Deliver, DeliverRelease, DeliverSend, Finish, LoopAt
<1>0. ASSUME ReleaseOnce(cur)
      PROVE  /\ \A q \in Requests : (cell'[q] = "abandoned") <=> (cell[q] = "abandoned")
             /\ \A q \in Requests : cell[q] # "running" => cell'[q] # "running"
             /\ \A q \in Requests \ {cur} : slot'[q] = slot[q]
             /\ \A q \in Requests : released[q] => released'[q]
  BY <1>0, <1>c, ReleaseOnceCell
<1>1. CASE DeliverRelease
  <2>1. CASE task[cur] # "stream" /\ ~kept[cur]
    <3>1. ReleaseOnce(cur)
      BY <1>1, <2>1 DEF DeliverRelease
    <3> QED BY <1>c, <1>0, <1>1, <3>1
            DEF DeliverRelease, Kinds, MarkedFirst, SlotKept, Noticed, FullFreed
  <2>2. CASE ~(task[cur] # "stream" /\ ~kept[cur])
    BY <1>c, <1>1, <2>2
       DEF DeliverRelease, Kinds, MarkedFirst, SlotKept, Noticed, FullFreed
  <2> QED BY <2>1, <2>2
<1>2. CASE DeliverSend
  BY <1>c, <1>2 DEF DeliverSend, Held, Kinds, MarkedFirst, SlotKept, Noticed, FullFreed
<1>3. CASE Finish
  <2>1. CASE kept[cur] /\ task[cur] = "full"
    BY <1>c, <1>3, <2>1
       DEF Finish, FinishOrKeep, Kinds, MarkedFirst, SlotKept, Noticed, FullFreed
  <2>2. CASE ~(kept[cur] /\ task[cur] = "full")
    <3>1. ReleaseOnce(cur) /\ task' = Set(task, cur, "done")
      BY <1>3, <2>2 DEF Finish, FinishOrKeep
    <3> QED BY <1>c, <1>0, <1>3, <3>1
            DEF Finish, Kinds, MarkedFirst, SlotKept, Noticed, FullFreed
  <2> QED BY <2>1, <2>2
<1> QED BY <1>1, <1>2, <1>3 DEF Deliver

(* Every step keeps what the cells say.                                    *)
LEMMA NextCell == WhereInv /\ CellInv /\ [Next]_vars => CellInv'
<1>1. WhereInv /\ CellInv /\ UNCHANGED vars => CellInv'
  BY DEF CellInv, MarkedFirst, SlotKept, Noticed, FullFreed, Waits, vars
<1> QED BY <1>1, TokioCell, DrainCell, HandlerCell, DeliverCell DEF Next

-----------------------------------------------------------------------------
(* What the counters say                                                   *)

Holding == {r \in Claimed : ~released[r]}
NoPlace == {r \in Requests : net[r] = "no_place"}

(* SlotsConserved and HandlersBounded, of finite sets.                     *)
CountInv ==
    /\ IsFiniteSet(Placed) /\ IsFiniteSet(Holding) /\ IsFiniteSet(NoPlace)
    /\ inflight = Cardinality(Holding)
    /\ connLoad = Cardinality(Placed) + Cardinality(NoPlace)
    /\ Cardinality(Placed) <= MaxStreams

(* Nothing is counted before the first request.                            *)
LEMMA InitCount == Init => CountInv
<1> SUFFICES ASSUME Init PROVE CountInv
  OBVIOUS
<1>1. Placed = {} /\ Holding = {} /\ NoPlace = {}
  BY DEF Init, Placed, Queued, Popped, Claimed, Holding, NoPlace
<1> QED BY <1>1, FS_EmptySet, RequestsAssumption DEF Init, CountInv

(* A step that moves nobody in or out.                                     *)
LEMMA SameCount ==
  ASSUME CountInv, UNCHANGED <<connLoad, inflight>>,
         Placed' = Placed, Holding' = Holding, NoPlace' = NoPlace
  PROVE  CountInv'
BY DEF CountInv

(* A step of the loop or of a task that claims nothing and releases        *)
(* nothing.                                                                *)
LEMMA QuietCount ==
  ASSUME CountInv, Shape, Shape', UNCHANGED <<connLoad, inflight, net, queue, released>>,
         pc # "claim", pc' # "claim",
         \A q \in Requests : (task'[q] = "none") <=> (task[q] = "none")
  PROVE  CountInv'
<1>1. Placed' = Placed /\ Holding' = Holding /\ NoPlace' = NoPlace
  BY DEF Placed, Queued, Popped, Claimed, Holding, NoPlace
<1> QED BY <1>1, SameCount

(* Responder::release_once gives back one slot and one place, once.        *)
LEMMA ReleaseCount ==
  ASSUME WhereInv, CountInv, NEW r \in Requests, task[r] # "none", ReleaseOnce(r),
         UNCHANGED <<net, queue>>, pc # "claim", pc' # "claim",
         \A q \in Requests : (task'[q] = "none") <=> (task[q] = "none")
  PROVE  CountInv'
<1>1. CASE released[r]
  <2>1. UNCHANGED <<connLoad, inflight, released>>
    BY <1>1 DEF ReleaseOnce
  <2>2. Placed' = Placed /\ Holding' = Holding /\ NoPlace' = NoPlace
    BY <2>1 DEF Placed, Queued, Popped, Claimed, Holding, NoPlace
  <2> QED BY <2>1, <2>2, SameCount
<1>2. CASE ~released[r]
  <2>1. /\ released' = [released EXCEPT ![r] = TRUE]
        /\ inflight' = inflight - 1 /\ connLoad' = connLoad - 1
    BY <1>2 DEF ReleaseOnce, Set
  <2>2. /\ Holding' = Holding \ {r} /\ r \in Holding
        /\ NoPlace' = NoPlace
    BY <1>2, <2>1 DEF WhereInv, Shape, Claimed, Holding, NoPlace
  <2>3. net[r] # "body" /\ r \notin Queued /\ r \notin Popped
    BY DEF WhereInv, OnePlace, Queued, Elems, Popped
  <2>4. Placed' = Placed \ {r} /\ r \in Placed
    <3>1. /\ Placed = {q \in Requests : net[q] = "body"} \cup Queued \cup Popped \cup Holding
          /\ Placed' = {q \in Requests : net[q] = "body"} \cup Queued \cup Popped \cup Holding'
      BY DEF Placed, Holding, Queued, Popped
    <3> QED BY <2>2, <2>3, <3>1
  <2>5. /\ IsFiniteSet(Holding') /\ Cardinality(Holding') = Cardinality(Holding) - 1
        /\ IsFiniteSet(Placed') /\ Cardinality(Placed') = Cardinality(Placed) - 1
        /\ Cardinality(Placed) \in Nat /\ Cardinality(NoPlace) \in Nat
        /\ Cardinality(Holding) \in Nat
    BY <2>2, <2>4, FS_RemoveElement, FS_CardinalityType DEF CountInv
  <2> QED BY <2>1, <2>2, <2>5, RequestsAssumption DEF CountInv
<1> QED BY <1>1, <1>2

(* Reservation::take and what gives a place back before there is a task.   *)
LEMMA TokioCount ==
  ASSUME WhereInv, CountInv, NEW r \in Requests, Tokio(r)
  PROVE  CountInv'
<1> USE DEF tokioVars, mailbox, cellVars, responderVars, taskVars, loopVars
<1> DEFINE Body == {q \in Requests : net[q] = "body"}
           Later == Queued \cup Popped \cup Holding
<1>p. Placed = Body \cup Later /\ Placed' = Body' \cup Later'
  BY DEF Placed, Holding
<1>n. /\ Cardinality(Placed) \in Nat /\ Cardinality(NoPlace) \in Nat
      /\ IsFiniteSet(Placed) /\ IsFiniteSet(NoPlace)
  BY FS_CardinalityType DEF CountInv
<1>early. net[r] \in {"new", "no_place", "body"} => r \notin Later
  BY DEF WhereInv, OnePlace, Queued, Elems, Popped, Holding, Claimed
<1>1. CASE TakePlace(r)
  <2>1. UNCHANGED <<queue, pc, cur, task, released, inflight>> /\ net[r] = "new"
    BY <1>1 DEF TakePlace, Net
  <2>2. Later' = Later /\ Holding' = Holding
    BY <2>1 DEF Queued, Popped, Holding, Claimed
  <2>3. CASE connLoad >= MaxStreams
    <3>1. NoPlace' = NoPlace \cup {r} /\ Body' = Body /\ r \notin NoPlace
      BY <1>1, <2>3 DEF TakePlace, Net, Set, NoPlace, WhereInv, Shape
    <3>2. IsFiniteSet(NoPlace') /\ Cardinality(NoPlace') = Cardinality(NoPlace) + 1
      BY <1>n, <3>1, FS_AddElement
    <3>3. Placed' = Placed
      BY <1>p, <2>2, <3>1
    <3> QED BY <1>n, <1>1, <2>1, <2>2, <3>2, <3>3 DEF TakePlace, CountInv
  <2>4. CASE ~(connLoad >= MaxStreams)
    <3>1. NoPlace' = NoPlace /\ Body' = Body \cup {r} /\ r \notin Body
      BY <1>1, <2>4 DEF TakePlace, Net, Set, NoPlace, WhereInv, Shape
    <3>2. Placed' = Placed \cup {r} /\ r \notin Placed
      BY <1>p, <1>early, <2>1, <2>2, <3>1
    <3>3. IsFiniteSet(Placed') /\ Cardinality(Placed') = Cardinality(Placed) + 1
      BY <1>n, <3>2, FS_AddElement
    <3>4. Cardinality(Placed) < MaxStreams
      BY <1>n, <2>4, RequestsAssumption DEF CountInv
    <3> QED BY <1>n, <1>1, <2>1, <2>2, <3>1, <3>3, <3>4, RequestsAssumption
            DEF TakePlace, CountInv
  <2> QED BY <2>3, <2>4
<1>2. CASE GiveBack(r) \/ Shed(r)
  <2>1. /\ UNCHANGED <<queue, pc, cur, task, released, inflight>>
        /\ connLoad' = connLoad - 1 /\ net' = [net EXCEPT ![r] = "end"]
        /\ net[r] \in {"no_place", "body"}
    BY <1>2 DEF GiveBack, Shed, Net, Set
  <2>2. Later' = Later /\ Holding' = Holding
    BY <2>1 DEF Queued, Popped, Holding, Claimed
  <2>3. CASE net[r] = "no_place"
    <3>1. NoPlace' = NoPlace \ {r} /\ Body' = Body /\ r \in NoPlace
      BY <2>1, <2>3 DEF NoPlace, WhereInv, Shape
    <3>2. IsFiniteSet(NoPlace') /\ Cardinality(NoPlace') = Cardinality(NoPlace) - 1
      BY <1>n, <3>1, FS_RemoveElement
    <3>3. Placed' = Placed
      BY <1>p, <2>2, <3>1
    <3> QED BY <1>n, <2>1, <2>2, <3>2, <3>3 DEF CountInv
  <2>4. CASE net[r] = "body"
    <3>1. NoPlace' = NoPlace /\ Body' = Body \ {r} /\ r \in Body
      BY <2>1, <2>4 DEF NoPlace, WhereInv, Shape
    <3>2. Placed' = Placed \ {r} /\ r \in Placed
      BY <1>p, <1>early, <2>1, <2>2, <3>1
    <3>3. IsFiniteSet(Placed') /\ Cardinality(Placed') = Cardinality(Placed) - 1
      BY <1>n, <3>2, FS_RemoveElement
    <3> QED BY <1>n, <2>1, <2>2, <3>1, <3>3, RequestsAssumption DEF CountInv
  <2> QED BY <2>1, <2>3, <2>4
<1>3. CASE Enqueue(r)
  <2>1. /\ UNCHANGED <<pc, cur, task, released, inflight, connLoad>>
        /\ queue' = Append(queue, r) /\ net' = [net EXCEPT ![r] = "waiting"]
        /\ net[r] = "body"
    BY <1>3 DEF Enqueue, Net, Set
  <2>2. Queued' = Queued \cup {r}
    <3>1. Elems(queue') = Elems(queue) \cup {r}
      BY <2>1, AppendElems DEF WhereInv, Shape
    <3> QED BY <3>1 DEF Queued, Elems
  <2>3. /\ Body = Body' \cup {r} /\ NoPlace' = NoPlace
        /\ Popped' = Popped /\ Holding' = Holding
    BY <2>1 DEF NoPlace, Popped, Holding, Claimed, WhereInv, Shape
  <2>4. Placed' = Placed
    BY <1>p, <2>2, <2>3
  <2> QED BY <2>1, <2>3, <2>4, SameCount
<1>4. CASE \/ GetReply(r) \/ SenderDropped(r) \/ Timeout(r) \/ ClientLeaves(r)
           \/ Abandoning(r)
  <2>1. /\ UNCHANGED <<queue, pc, cur, task, released, inflight, connLoad>>
        /\ \E to \in {"flag", "notice", "end"} : net' = [net EXCEPT ![r] = to]
        /\ net[r] \in {"waiting", "flag", "notice"}
    BY <1>4 DEF GetReply, SenderDropped, Timeout, ClientLeaves, Abandoning, Armed, Net, Set
  <2>2. Body' = Body /\ NoPlace' = NoPlace
    BY <2>1 DEF NoPlace, WhereInv, Shape
  <2>3. Later' = Later /\ Holding' = Holding
    BY <2>1 DEF Queued, Popped, Holding, Claimed
  <2> QED BY <1>p, <2>1, <2>2, <2>3, SameCount
<1> QED BY <1>1, <1>2, <1>3, <1>4 DEF Tokio

(* A popped request takes its place along; one abandoned in the queue      *)
(* leaves it.                                                              *)
LEMMA DrainCount ==
  ASSUME WhereInv, WhereInv', CountInv, Drain
  PROVE  CountInv'
<1> USE DEF LoopMoves, tokioVars, mailbox, cellVars, responderVars, taskVars, loopVars
<1> DEFINE Body == {q \in Requests : net[q] = "body"}
<1>p. /\ Placed = Body \cup Queued \cup Popped \cup Holding
      /\ Placed' = Body' \cup Queued' \cup Popped' \cup Holding'
  BY DEF Placed, Holding
<1>n. /\ Cardinality(Placed) \in Nat /\ Cardinality(NoPlace) \in Nat
      /\ Cardinality(Holding) \in Nat
      /\ IsFiniteSet(Placed) /\ IsFiniteSet(NoPlace) /\ IsFiniteSet(Holding)
  BY FS_CardinalityType DEF CountInv
<1>1. CASE \/ DrainBegins \/ CancelsEmpty \/ QueueEmpty \/ PopCancel \/ Attach
           \/ AttachRecheck
  <2>1. /\ UNCHANGED <<connLoad, inflight, net, queue, released, task>>
        /\ pc # "claim" /\ pc' # "claim"
    BY <1>1 DEF DrainBegins, CancelsEmpty, QueueEmpty, PopCancel, Attach, AttachRecheck
  <2> QED BY <2>1, QuietCount DEF WhereInv
<1>2. CASE PopAbandoned \/ Pop
  <2> DEFINE h == Head(queue)
  <2>1. /\ queue # <<>> /\ queue' = Tail(queue)
        /\ UNCHANGED <<net, task, released, inflight>>
        /\ pc = "pop"
    BY <1>2 DEF PopAbandoned, Pop
  <2>2. /\ h \in Requests /\ Queued = Queued' \cup {h} /\ h \notin Queued'
    <3>1. /\ h \in Requests /\ Elems(queue) = Elems(queue') \cup {h}
          /\ h \notin Elems(queue')
      BY <2>1, TailElems DEF WhereInv, Shape, OnePlace
    <3> QED BY <3>1 DEF Queued, Elems
  <2>3. Body' = Body /\ Holding' = Holding /\ NoPlace' = NoPlace /\ Popped = {}
    BY <2>1 DEF Holding, Claimed, NoPlace, Popped
  <2>4. CASE Pop
    <3>1. Popped' = {h} /\ connLoad' = connLoad
      BY <2>4 DEF Pop, Popped
    <3>2. Placed' = Placed
      BY <1>p, <2>2, <2>3, <3>1
    <3> QED BY <2>1, <2>3, <3>1, <3>2, SameCount
  <2>5. CASE PopAbandoned
    <3>1. Popped' = {} /\ connLoad' = connLoad - 1
      BY <2>1, <2>5 DEF PopAbandoned, Popped
    <3>2. h \notin Body /\ h \notin Holding
      BY <2>2 DEF WhereInv, OnePlace, Queued, Elems, Holding, Claimed
    <3>3. Placed' = Placed \ {h} /\ h \in Placed
      BY <1>p, <2>2, <2>3, <3>1, <3>2
    <3>4. IsFiniteSet(Placed') /\ Cardinality(Placed') = Cardinality(Placed) - 1
      BY <1>n, <3>3, FS_RemoveElement
    <3> QED BY <1>n, <2>1, <2>3, <3>1, <3>4, RequestsAssumption DEF CountInv
  <2> QED BY <1>2, <2>4, <2>5
<1>3. CASE Claim
  <2>1. /\ cur \in Requests /\ task[cur] = "none" /\ ~released[cur]
        /\ Popped = {cur} /\ Popped' = {}
        /\ UNCHANGED <<net, queue, released, connLoad>>
        /\ inflight' = inflight + 1 /\ task' = [task EXCEPT ![cur] = "created"]
    BY <1>3 DEF Claim, Set, Popped, WhereInv, LoopAt, Held
  <2>2. /\ Holding' = Holding \cup {cur} /\ cur \notin Holding
        /\ NoPlace' = NoPlace /\ Body' = Body /\ Queued' = Queued
    BY <2>1 DEF Holding, Claimed, NoPlace, Queued, WhereInv, Shape
  <2>3. Placed' = Placed
    BY <1>p, <2>1, <2>2
  <2>4. IsFiniteSet(Holding') /\ Cardinality(Holding') = Cardinality(Holding) + 1
    BY <1>n, <2>2, FS_AddElement
  <2> QED BY <1>n, <2>1, <2>2, <2>3, <2>4 DEF CountInv
<1> QED BY <1>1, <1>2, <1>3 DEF Drain

(* A handler that ends gives back what was counted for it, once.           *)
LEMMA HandlerCount ==
  ASSUME WhereInv, WhereInv', CountInv, NEW r \in Requests, Handler(r)
  PROVE  CountInv'
<1> USE DEF WhereInv, Set, tokioVars, mailbox, cellVars, responderVars, taskVars, loopVars
<1>1. CASE Start(r) \/ AfterResponse(r) \/ CatchesCancel(r)
  <2>1. /\ UNCHANGED <<connLoad, inflight, net, queue, released>>
        /\ pc # "claim" /\ pc' # "claim"
        /\ \A q \in Requests : (task'[q] = "none") <=> (task[q] = "none")
    BY <1>1 DEF Start, AfterResponse, CatchesCancel, Runs, Shape
  <2> QED BY <2>1, QuietCount
<1>2. ASSUME NEW kind \in Kinds, DeliverAnswer(r, kind)
      PROVE  CountInv'
  <2>1. /\ UNCHANGED <<connLoad, inflight, net, queue, released>>
        /\ pc # "claim" /\ pc' # "claim"
        /\ \A q \in Requests : (task'[q] = "none") <=> (task[q] = "none")
    BY <1>2 DEF DeliverAnswer, LoopMoves, Runs, Shape, Kinds
  <2> QED BY <2>1, QuietCount
<1>3. CASE CancelUnstarted(r) \/ CancelledOut(r) \/ RaisesOut(r) \/ AfterDone(r)
  <2>1. /\ UNCHANGED <<net, queue>> /\ pc = "idle" /\ pc' = "idle"
        /\ task[r] # "none" /\ task' = [task EXCEPT ![r] = "done"] /\ ReleaseOnce(r)
    BY <1>3 DEF CancelUnstarted, CancelledOut, RaisesOut, AfterDone, UnwindsRunHandler, Runs
  <2>2. \A q \in Requests : (task'[q] = "none") <=> (task[q] = "none")
    BY <2>1 DEF Shape
  <2> QED BY <2>1, <2>2, ReleaseCount
<1>4. CASE StreamEnds(r)
  <2>1. PICK returned \in BOOLEAN : FinishOrKeep(r, returned)
    BY <1>4 DEF StreamEnds
  <2>2. /\ UNCHANGED <<net, queue>> /\ pc = "idle" /\ pc' = "idle"
        /\ task[r] # "none"
    BY <1>4 DEF StreamEnds, Runs
  <2>3. \A q \in Requests : (task'[q] = "none") <=> (task[q] = "none")
    BY <2>1, <2>2 DEF FinishOrKeep, Shape
  <2>4. CASE kept[r] /\ returned
    BY <2>1, <2>2, <2>3, <2>4, QuietCount DEF FinishOrKeep
  <2>5. CASE ~(kept[r] /\ returned)
    BY <2>1, <2>2, <2>3, <2>5, ReleaseCount DEF FinishOrKeep
  <2> QED BY <2>4, <2>5
<1> QED BY <1>1, <1>2, <1>3, <1>4 DEF Handler, Unwind

(* The delivery of a cancellation gives back a slot at most once.          *)
LEMMA DeliverCount ==
  ASSUME WhereInv, WhereInv', CountInv, Deliver
  PROVE  CountInv'
<1> USE DEF WhereInv, LoopMoves, Set, tokioVars, mailbox, cellVars, responderVars, taskVars
<1>1. cur \in Requests /\ task[cur] \in Kinds /\ pc # "claim" /\ pc' # "claim"
  BY DEF Deliver, DeliverRelease, DeliverSend, Finish, LoopAt
<1>2. /\ UNCHANGED <<net, queue>> /\ task[cur] # "none"
      /\ \A q \in Requests : (task'[q] = "none") <=> (task[q] = "none")
  BY <1>1 DEF Deliver, DeliverRelease, DeliverSend, Finish, FinishOrKeep, Kinds, Shape
<1>3. CASE ReleaseOnce(cur)
  BY <1>1, <1>2, <1>3, ReleaseCount
<1>4. CASE UNCHANGED <<released, inflight, connLoad>>
  BY <1>1, <1>2, <1>4, QuietCount
<1> QED BY <1>3, <1>4 DEF Deliver, DeliverRelease, DeliverSend, Finish, FinishOrKeep

(* Every step keeps the counts equal to what they count.                   *)
LEMMA NextCount == WhereInv /\ CountInv /\ [Next]_vars => CountInv'
<1> SUFFICES ASSUME WhereInv, CountInv, [Next]_vars PROVE CountInv'
  OBVIOUS
<1>1. WhereInv'
  BY NextWhere
<1>2. CASE UNCHANGED vars
  BY <1>2, SameCount
     DEF vars, Placed, Queued, Popped, Claimed, Holding, NoPlace
<1> QED BY <1>1, <1>2, TokioCount, DrainCount, HandlerCount, DeliverCount DEF Next

-----------------------------------------------------------------------------
(* The theorems                                                            *)

IndInv == WhereInv /\ CellInv /\ CountInv

(* The three layers together hold throughout.                              *)
LEMMA Invariance == Spec => []IndInv
<1>1. Init => IndInv
  BY InitWhere, InitCell, InitCount DEF IndInv
<1>2. IndInv /\ [Next]_vars => IndInv'
  BY NextWhere, NextCell, NextCount DEF IndInv
<1> QED BY <1>1, <1>2, PTL DEF Spec

(* Every slot of a worker and every place of a connection is taken and     *)
(* given back once, no more than MAX_STREAMS requests of a connection are  *)
(* under way, no handler runs on for a client that has gone without being  *)
(* told, and a client that has its reply finds the slot free.              *)
THEOREM SlotsSafe == Spec => []Safety
<1>1. IndInv => Safety
  <2> SUFFICES ASSUME IndInv PROVE Safety
    OBVIOUS
  <2>1. connLoad \in Nat /\ inflight \in Nat
    <3>1. /\ Cardinality(Placed) \in Nat /\ Cardinality(NoPlace) \in Nat
          /\ Cardinality(Holding) \in Nat
      BY FS_CardinalityType DEF IndInv, CountInv
    <3> QED BY <3>1 DEF IndInv, CountInv
  <2>2. TypeOK
    BY <2>1 DEF IndInv, WhereInv, Shape, TypeOK
  <2>3. SlotsConserved /\ HandlersBounded
    BY DEF IndInv, CountInv, SlotsConserved, HandlersBounded, Holding, NoPlace
  <2>4. NoOrphan
    BY DEF IndInv, CellInv, Noticed, NoOrphan, Elems
  <2>5. ReplyAfterRelease
    BY DEF IndInv, CellInv, FullFreed, ReplyAfterRelease
  <2>6. AfterWorkCounted
    BY DEF IndInv, WhereInv, Held, AfterWorkCounted
  <2> QED BY <2>2, <2>3, <2>4, <2>5, <2>6 DEF Safety
<1> QED BY <1>1, Invariance, PTL

(* "A late abandon then finds the request answered and does nothing":      *)
(* Abandon::drop never marks a request whose sender was taken, and the     *)
(* notice or the re-check in attach never cancels one that was answered.   *)
THEOREM AbandonHarmless == Spec => LateAbandonHarmless
<1> DEFINE Late ==
      \A r \in Requests :
          /\ taken[r] /\ cell[r] = "running" => cell'[r] # "abandoned"
          /\ cell[r] = "answered" => (cancelling'[r] => cancelling[r])
<1>1. IndInv /\ [Next]_vars => [Late]_vars
  <2> SUFFICES ASSUME IndInv, Next PROVE Late
    OBVIOUS
  <2> USE DEF IndInv, WhereInv, Shape, CellInv, Set, tokioVars, mailbox, cellVars,
          responderVars, taskVars, loopVars
  <2>1. ASSUME NEW q \in Requests, Tokio(q) PROVE Late
    BY <2>1, RequestsAssumption
       DEF Tokio, TakePlace, GiveBack, Enqueue, Shed, GetReply, SenderDropped, Timeout,
           ClientLeaves, Abandoning, Net, MarkedFirst
  <2>2. CASE Drain
    <3>1. CASE PopCancel
      <4>1. Head(cancels) \in Elems(cancels) /\ Head(cancels) \in Requests
        BY <3>1, TailElems DEF PopCancel
      <4> QED BY <3>1, <4>1 DEF PopCancel, Cancel, MarkedFirst
    <3>2. CASE AttachRecheck
      BY <3>2 DEF AttachRecheck, Cancel, LoopMoves, LoopAt
    <3>3. CASE UNCHANGED <<cell, cancelling>>
      BY <3>3
    <3> QED BY <2>2, <3>1, <3>2, <3>3
            DEF Drain, DrainBegins, CancelsEmpty, PopAbandoned, Pop, Claim, Attach, QueueEmpty
  <2>3. ASSUME NEW q \in Requests, Handler(q) PROVE Late
    <3>1. ASSUME ReleaseOnce(q)
          PROVE  \A r \in Requests : (cell'[r] = "abandoned") <=> (cell[r] = "abandoned")
      BY <3>1, ReleaseOnceCell
    <3> QED BY <2>3, <3>1
            DEF Handler, Start, AfterResponse, CatchesCancel, RaisesOut, DeliverAnswer,
                StreamEnds, AfterDone, Unwind, CancelUnstarted, CancelledOut,
                UnwindsRunHandler, FinishOrKeep
  <2>4. CASE Deliver
    <3>1. cur \in Requests
      BY <2>4 DEF Deliver, DeliverRelease, DeliverSend, Finish, LoopMoves, LoopAt
    <3>2. ASSUME ReleaseOnce(cur)
          PROVE  \A r \in Requests : (cell'[r] = "abandoned") <=> (cell[r] = "abandoned")
      BY <3>1, <3>2, ReleaseOnceCell
    <3> QED BY <2>4, <3>2 DEF Deliver, DeliverRelease, DeliverSend, Finish, FinishOrKeep
  <2> QED BY <2>1, <2>2, <2>3, <2>4 DEF Next
<1>2. Spec => [][Late]_vars
  BY <1>1, Invariance, PTL DEF Spec
<1> QED BY <1>2 DEF LateAbandonHarmless

=============================================================================
