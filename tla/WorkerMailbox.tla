---------------------------- MODULE WorkerMailbox ----------------------------
(***************************************************************************)
(* What the dispatch core promises of one worker's mailbox, without the    *)
(* wake socket: a tokio thread posts a request, a callback or a            *)
(* cancellation, and the worker's loop takes everything that was posted,   *)
(* requests in the order they were posted.  How the loop comes to look is  *)
(* left open; that it does look is the fairness condition.  WakeQueue is   *)
(* the protocol of src/src/queue.rs that is shown to implement this.       *)
(***************************************************************************)
EXTENDS Naturals, Sequences

CONSTANTS Requests,   \* requests a client can make of this worker
          Notices     \* the kinds of notice: callbacks and cancellations

VARIABLES queue,      \* requests posted and not yet taken
          notices     \* per kind, how many notices are posted and not taken

mailboxVars == <<queue, notices>>

Init ==
    /\ queue = <<>>
    /\ notices = [k \in Notices |-> 0]

Post(r) ==
    /\ queue' = Append(queue, r)
    /\ UNCHANGED notices

PostNotice(k) ==
    /\ notices' = [notices EXCEPT ![k] = @ + 1]
    /\ UNCHANGED queue

Take ==
    /\ queue # <<>>
    /\ queue' = Tail(queue)
    /\ UNCHANGED notices

TakeNotice(k) ==
    /\ notices[k] > 0
    /\ notices' = [notices EXCEPT ![k] = @ - 1]
    /\ UNCHANGED queue

Next ==
    \/ \E r \in Requests : Post(r)
    \/ \E k \in Notices : PostNotice(k) \/ TakeNotice(k)
    \/ Take

SafetySpec == Init /\ [][Next]_mailboxVars

(* The loop gets to everything that is posted. *)
Spec ==
    /\ SafetySpec
    /\ WF_mailboxVars(Take)
    /\ \A k \in Notices : WF_mailboxVars(TakeNotice(k))

=============================================================================
