------------------------------ MODULE LoginFlow ------------------------------
(***************************************************************************)
(* Logging in through an identity provider with the session kept in a      *)
(* signed cookie: OAuthLogin in src/python/oxbrook/_login.py over Sessions *)
(* in _sessions.py.                                                        *)
(*                                                                         *)
(* All the server knows of a browser is the cookie it sent: a request      *)
(* carries the jar of the moment it was sent, and its reply replaces the   *)
(* jar whole.  Tabs send requests concurrently and replies arrive in any   *)
(* order.  A login is named by its number, which stands for its state, its *)
(* PKCE verifier and its nonce; a code is named by the login it is for.    *)
(***************************************************************************)
EXTENDS Integers, FiniteSets

CONSTANTS
    Browsers, Tabs,
    PendingLimit,  \* PENDING_LIMIT
    PendingTTL,    \* PENDING_TTL
    MaxAge,        \* Sessions.max_age
    None,
    MaxLogins, MaxEdits, MaxOutages, MaxTime  \* bounds of the model

LoginAssumption ==
    /\ PendingLimit \in Nat \ {0} /\ PendingTTL \in Nat /\ MaxAge \in Nat
    /\ {MaxLogins, MaxEdits, MaxOutages, MaxTime} \subseteq Nat
    /\ None \notin 1 .. MaxLogins

VARIABLES
    now,
    jar,           \* per browser: its session cookie
    tab,           \* per tab: the request it is making, or where it waits
    logins,        \* login number -> the browser and the time it was begun
    codes,         \* per login, at the provider: "none", "issued" or "used"
    faults         \* what the bounds leave of edits and outages

vars == <<now, jar, tab, logins, codes, faults>>

Ids == 1 .. MaxLogins
Empty == [user |-> None, pending |-> {}, note |-> None]

(* A cookie is signed with the time it was written.                        *)
Cookie(session) == [session |-> session, at |-> now]

(* Sessions.decode: one past its age is no session.                        *)
Decode(cookie) == IF now - cookie.at > MaxAge THEN Empty ELSE cookie.session

Idle == [phase |-> "idle", browser |-> None, cookie |-> None, state |-> None,
         code |-> None, reply |-> None]

-----------------------------------------------------------------------------
(* A tab sends a request with the cookie of that moment; its reply carries *)
(* a session if the handler changed it, and the browser keeps that.        *)

Send(t, b, phase, state, code) ==
    tab' = [tab EXCEPT ![t] = [Idle EXCEPT !.phase = phase, !.browser = b,
                                           !.cookie = jar[b], !.state = state, !.code = code]]

(* Sessions.middleware: every failure of a login is a reply by the time it *)
(* gets there, so a session changed before the failure is written as well. *)
Replies(t, session, state) ==
    tab' = [tab EXCEPT ![t] = [@ EXCEPT !.phase = "replied", !.reply = session, !.state = state]]

Unmodified(t) == Replies(t, None, None)

Receive(t) ==
    /\ tab[t].phase = "replied"
    /\ jar' = IF tab[t].reply = None THEN jar
              ELSE [jar EXCEPT ![tab[t].browser] = Cookie(tab[t].reply)]
    /\ tab' = [tab EXCEPT ![t] = IF tab[t].state = None THEN Idle
                                 ELSE [Idle EXCEPT !.phase = "provider", !.state = tab[t].state]]
    /\ UNCHANGED <<now, logins, codes, faults>>

-----------------------------------------------------------------------------
(* GET login                                                               *)

(* _pending: what is not older than ten minutes.                           *)
Pending(session) == {n \in session.pending : now - logins[n].at <= PendingTTL}

Oldest(ns) == CHOOSE n \in ns : \A m \in ns :
                 logins[n].at < logins[m].at \/ (logins[n].at = logins[m].at /\ n <= m)

(* The new login is added first, and the oldest go until the limit holds.  *)
Trimmed(ns) == IF Cardinality(ns) >= PendingLimit THEN ns \ {Oldest(ns)} ELSE ns

SendBegin(t, b) ==
    /\ tab[t].phase = "idle"
    /\ Cardinality(DOMAIN logins) < MaxLogins
    /\ Send(t, b, "begin", None, None)
    /\ UNCHANGED <<now, jar, logins, codes, faults>>

Begin(t) ==
    LET n == Cardinality(DOMAIN logins) + 1
        session == Decode(tab[t].cookie)
    IN  /\ tab[t].phase = "begin" /\ n \in Ids
        /\ logins' = [m \in DOMAIN logins \cup {n} |->
                         IF m = n THEN [browser |-> tab[t].browser, at |-> now] ELSE logins[m]]
        /\ Replies(t, [session EXCEPT !.pending = Trimmed(Pending(session)) \cup {n}], n)
        /\ UNCHANGED <<now, jar, codes, faults>>

(* _endpoints: the provider's discovery document is not to be had.         *)
BeginUnavailable(t) ==
    /\ tab[t].phase = "begin"
    /\ faults.outages > 0 \/ Cardinality(DOMAIN logins) = MaxLogins
    /\ Unmodified(t)
    /\ faults' = [faults EXCEPT !.outages = IF @ > 0 THEN @ - 1 ELSE 0]
    /\ UNCHANGED <<now, jar, logins, codes>>

-----------------------------------------------------------------------------
(* The provider (external): a code for the login whose challenge it was    *)
(* sent, exchanged once, by whoever has that login's verifier; or an error *)

Authorize(t) ==
    /\ tab[t].phase = "provider"
    /\ codes' = [codes EXCEPT ![tab[t].state] = "issued"]
    /\ tab' = [tab EXCEPT ![t].phase = "back"]
    /\ UNCHANGED <<now, jar, logins, faults>>

(* The redirect back, opened in any browser, with any code of the          *)
(* provider's: the person's own, or another login's.                       *)
SendCallback(t, b, c) ==
    /\ tab[t].phase = "back"
    /\ codes[c] # "none"
    /\ Send(t, b, "callback", tab[t].state, c)
    /\ UNCHANGED <<now, jar, logins, codes, faults>>

(* access_denied: the callback carries an error and no code.               *)
SendDenied(t, b) ==
    /\ tab[t].phase = "provider"
    /\ Send(t, b, "callback", tab[t].state, None)
    /\ UNCHANGED <<now, jar, logins, codes, faults>>

(* The browser sends the same callback again while the first is served.    *)
SendAgain(t, u) ==
    /\ tab[t].phase \in {"callback", "exchange"} /\ tab[u].phase = "idle"
    /\ Send(u, tab[t].browser, "callback", tab[t].state, tab[t].code)
    /\ UNCHANGED <<now, jar, logins, codes, faults>>

-----------------------------------------------------------------------------
(* GET callback                                                            *)

(* The state is not one this browser's session has.                        *)
FinishUnknown(t) ==
    /\ tab[t].phase = "callback"
    /\ tab[t].state \notin Pending(Decode(tab[t].cookie))
    /\ Unmodified(t)
    /\ UNCHANGED <<now, jar, logins, codes, faults>>

Popped(t) ==
    LET session == Decode(tab[t].cookie)
    IN  [session EXCEPT !.pending = Pending(session) \ {tab[t].state}]

(* Popped before anything is asked of the provider.                        *)
Finish(t) ==
    /\ tab[t].phase = "callback"
    /\ tab[t].state \in Pending(Decode(tab[t].cookie))
    /\ tab' = [tab EXCEPT ![t] = [@ EXCEPT !.phase = "exchange", !.reply = Popped(t)]]
    /\ UNCHANGED <<now, jar, logins, codes, faults>>

Exchangeable(t) ==
    tab[t].code # None /\ codes[tab[t].code] = "issued" /\ tab[t].code = tab[t].state

(* Mutant of Session: the new value goes into what was there.              *)
SessionKept(t) == [tab[t].reply EXCEPT !.user = tab[t].code]

(* session.clear(), then the value on_login gave.                          *)
Session(t) == [Empty EXCEPT !.user = tab[t].code]

(* _exchange, _identify, on_login: who the provider says, in a session     *)
(* emptied first.                                                          *)
LoggedIn(t) ==
    /\ tab[t].phase = "exchange"
    /\ Exchangeable(t)
    /\ codes' = [codes EXCEPT ![tab[t].code] = "used"]
    /\ Replies(t, Session(t), None)
    /\ UNCHANGED <<now, jar, logins, faults>>

(* An error in place of a code, a code the provider refuses, or on_login   *)
(* refusing the person: the popped session is written all the same.        *)
LoginRefused(t) ==
    /\ tab[t].phase = "exchange"
    /\ codes' = IF Exchangeable(t) THEN [codes EXCEPT ![tab[t].code] = "used"] ELSE codes
    /\ Replies(t, tab[t].reply, None)
    /\ UNCHANGED <<now, jar, logins, faults>>

(* The provider is not reached; the code may have been spent all the same. *)
LoginUnavailable(t) ==
    /\ tab[t].phase = "exchange"
    /\ faults.outages > 0
    /\ faults' = [faults EXCEPT !.outages = @ - 1]
    /\ Replies(t, tab[t].reply, None)
    /\ UNCHANGED <<now, jar, logins, codes>>

-----------------------------------------------------------------------------
(* POST logout, and a handler of the app's that writes the session         *)

SendLogout(t, b) ==
    /\ tab[t].phase = "idle" /\ jar[b].session.user # None
    /\ Send(t, b, "logout", None, None)
    /\ UNCHANGED <<now, jar, logins, codes, faults>>

Logout(t) ==
    /\ tab[t].phase = "logout"
    /\ IF Decode(tab[t].cookie) = Empty THEN Unmodified(t) ELSE Replies(t, Empty, None)
    /\ UNCHANGED <<now, jar, logins, codes, faults>>

SendEdit(t, b) ==
    /\ tab[t].phase = "idle" /\ faults.edits > 0
    /\ faults' = [faults EXCEPT !.edits = @ - 1]
    /\ Send(t, b, "edit", None, None)
    /\ UNCHANGED <<now, jar, logins, codes>>

(* What is written is marked with the user of the session it went into.    *)
Edit(t) ==
    LET session == Decode(tab[t].cookie)
    IN  /\ tab[t].phase = "edit"
        /\ Replies(t, [session EXCEPT !.note = [by |-> session.user]], None)
        /\ UNCHANGED <<now, jar, logins, codes, faults>>

Tick ==
    /\ now < MaxTime
    /\ now' = now + 1
    /\ UNCHANGED <<jar, tab, logins, codes, faults>>

-----------------------------------------------------------------------------
Init ==
    /\ now = 0
    /\ jar = [b \in Browsers |-> Cookie(Empty)]
    /\ tab = [t \in Tabs |-> Idle]
    /\ logins = [n \in {} |-> None]
    /\ codes = [n \in Ids |-> "none"]
    /\ faults = [edits |-> MaxEdits, outages |-> MaxOutages]

Serve(t) ==
    \/ Begin(t) \/ BeginUnavailable(t)
    \/ FinishUnknown(t) \/ Finish(t)
    \/ LoggedIn(t) \/ LoginRefused(t) \/ LoginUnavailable(t)
    \/ Logout(t) \/ Edit(t)

Next ==
    \/ Tick
    \/ \E t \in Tabs :
          \/ Serve(t) \/ Receive(t) \/ Authorize(t)
          \/ \E u \in Tabs : SendAgain(t, u)
          \/ \E b \in Browsers :
                \/ SendBegin(t, b) \/ SendDenied(t, b) \/ SendLogout(t, b) \/ SendEdit(t, b)
                \/ \E c \in Ids : SendCallback(t, b, c)

Spec == Init /\ [][Next]_vars

-----------------------------------------------------------------------------
Sessions == [user : Ids \cup {None}, pending : SUBSET Ids,
             note : {None} \cup [by : Ids \cup {None}]]

TypeOK ==
    /\ now \in 0 .. MaxTime
    /\ \A b \in Browsers : jar[b].session \in Sessions /\ jar[b].at \in 0 .. now
    /\ \A b \in Browsers : Cardinality(jar[b].session.pending) <= PendingLimit
    /\ \A t \in Tabs : tab[t].reply \in Sessions \cup {None}

(* A browser is only ever logged in as whoever finished a login begun in   *)
(* that browser, however callbacks and codes were passed around.           *)
OwnLogin ==
    \A b \in Browsers : jar[b].session.user # None => logins[jar[b].session.user].browser = b

(* Nothing written into a session before a login is in it after: what is   *)
(* there was written as that user.                                         *)
FreshSession ==
    \A b \in Browsers :
       LET s == jar[b].session IN s.user # None /\ s.note # None => s.note.by = s.user

(* "Popped whatever happens next: a callback is good once, even one that   *)
(* then fails, so a replay finds nothing" (_finish).                       *)
GoodOnce ==
    \A t, u \in Tabs : t # u /\ tab[t].phase = "exchange" /\ tab[u].phase = "exchange"
                       => tab[t].state # tab[u].state

(* A login finished is one this browser began, and its session is made     *)
(* afresh (OAuthLogin._finish).                                            *)
Safety == TypeOK /\ OwnLogin /\ FreshSession

=============================================================================
