-------------------------------- MODULE Reload --------------------------------
(***************************************************************************)
(* `oxbrook run --reload`: a supervisor that polls modification times and  *)
(* replaces the server it started whenever a file changes (_cli.py         *)
(* supervise, changes, forget_bytecode, stop).                             *)
(*                                                                         *)
(* A file's content is the number of its last edit, and each edit a new    *)
(* modification time.  Python's cached bytecode knows the time in whole    *)
(* seconds and the size only: an edit may leave both as they were.         *)
(***************************************************************************)
EXTENDS Naturals

CONSTANTS
    Files,         \* watched source files
    MaxEdits,      \* bound: edits of all files
    MaxCrashes     \* bound: servers that die on their own

VARIABLES
    edits,         \* edits of all files
    content,       \* per file, its content and modification time
    stamp,         \* per file, what bytecode is compared by
    cached,        \* per file, its bytecode: [stamp, content], or NoBytecode
    server,        \* the child: "down", "running", or told to stop and "draining"
    loaded,        \* per file, the content it has imported, or NotYet
    stray,         \* a server runs that the supervisor has no handle of
    crashes,       \* servers that died on their own
    at,            \* where the supervisor is
    before,        \* `before`, in `changes`
    changed,       \* `changed`
    signalled,     \* the supervisor was told to stop
    unlisted       \* history: files last edited while others' edits settled

disk == <<edits, content, stamp, cached, unlisted>>
child == <<server, loaded, stray, crashes>>
watch == <<before, changed>>
vars == <<disk, child, watch, at, signalled>>

NotYet == MaxEdits + 1
NoBytecode == [stamp |-> MaxEdits + 1, content |-> 0]

-----------------------------------------------------------------------------
(* Someone edits, and the server imports                                   *)

Edit(f) ==
    /\ edits < MaxEdits
    /\ edits' = edits + 1
    /\ content' = [content EXCEPT ![f] = edits + 1]
    /\ \/ stamp' = [stamp EXCEPT ![f] = edits + 1]
       \/ UNCHANGED stamp
    /\ unlisted' = IF at = "settling" /\ f \notin changed THEN unlisted \cup {f}
                   ELSE unlisted \ {f}
    /\ UNCHANGED <<cached, child, watch, at, signalled>>

(* Bytecode that matches is taken for the source; otherwise it is written. *)
Import(f) ==
    /\ server = "running" /\ loaded[f] = NotYet
    /\ LET fits == cached[f].stamp = stamp[f]
       IN  /\ loaded' = [loaded EXCEPT ![f] = IF fits THEN cached[f].content ELSE content[f]]
           /\ cached' = IF fits THEN cached
                        ELSE [cached EXCEPT ![f] = [stamp |-> stamp[f], content |-> content[f]]]
    /\ UNCHANGED <<edits, content, stamp, unlisted, server, stray, crashes, watch, at, signalled>>

(* A syntax error half-way through an edit, or a port that is taken.       *)
Crash ==
    /\ server = "running" /\ crashes < MaxCrashes
    /\ crashes' = crashes + 1
    /\ server' = "down"
    /\ UNCHANGED <<disk, loaded, stray, watch, at, signalled>>

-----------------------------------------------------------------------------
(* supervise, up to the first server                                       *)

(* `before` is taken before the server is started.                         *)
Snapshot ==
    /\ at = "snapshot"
    /\ before' = content
    /\ at' = "starting"
    /\ UNCHANGED <<disk, child, changed, signalled>>

(* start_server: the process is there before `child` is assigned.          *)
Fork ==
    /\ at = "starting"
    /\ stray' = TRUE
    /\ at' = "forked"
    /\ UNCHANGED <<disk, server, loaded, crashes, watch, signalled>>

(* Mutant of Started: the first snapshot is taken once the server has been *)
(* started.                                                                *)
StartedSnapshot ==
    /\ at = "forked"
    /\ server' = "running" /\ stray' = FALSE
    /\ loaded' = [f \in Files |-> NotYet]
    /\ before' = content
    /\ at' = "polling"
    /\ UNCHANGED <<disk, crashes, changed, signalled>>

Started ==
    /\ at = "forked"
    /\ server' = "running" /\ stray' = FALSE
    /\ loaded' = [f \in Files |-> NotYet]
    /\ at' = "polling"
    /\ UNCHANGED <<disk, crashes, watch, signalled>>

-----------------------------------------------------------------------------
(* changes                                                                 *)

Differing == {f \in Files : content[f] # before[f]}

(* Nothing changed: an empty list, on which a server that died by itself   *)
(* is reported and left until there is a change.                           *)
Poll ==
    /\ at = "polling" /\ Differing # {}
    /\ changed' = Differing
    /\ at' = "settling"
    /\ UNCHANGED <<disk, child, before, signalled>>

(* The second scan, 0.1 s later, becomes `before`; the list stays.         *)
Settle ==
    /\ at = "settling"
    /\ before' = content
    /\ at' = "stopping"
    /\ UNCHANGED <<disk, child, changed, signalled>>

-----------------------------------------------------------------------------
(* stop: nothing for a server that is down; otherwise it is told, and      *)
(* killed when the grace is over.                                          *)

TellToStop(here) ==
    /\ at = here /\ server = "running"
    /\ server' = "draining"
    /\ UNCHANGED <<disk, loaded, stray, crashes, watch, at, signalled>>

(* It has stopped by itself or been killed.                                *)
StopsOrKilled ==
    /\ server = "draining"
    /\ server' = "down"
    /\ UNCHANGED <<disk, loaded, stray, crashes, watch, at, signalled>>

(* forget_bytecode, of the files that changed.                             *)
Forget ==
    /\ at = "stopping" /\ server = "down"
    /\ cached' = [f \in Files |-> IF f \in changed THEN NoBytecode ELSE cached[f]]
    /\ at' = "starting"
    /\ UNCHANGED <<edits, content, stamp, unlisted, child, watch, signalled>>

-----------------------------------------------------------------------------
(* _raise_stop, wherever the supervisor is; then the `finally`.            *)

Signal ==
    /\ ~signalled
    /\ signalled' = TRUE
    /\ at' = "ending"
    /\ UNCHANGED <<disk, child, watch>>

End ==
    /\ at = "ending" /\ server = "down"
    /\ at' = "over"
    /\ UNCHANGED <<disk, child, watch, signalled>>

-----------------------------------------------------------------------------

(* The handlers are installed and nothing has been started; bytecode may   *)
(* be there from earlier.                                                  *)
Init ==
    /\ edits = 0 /\ content = [f \in Files |-> 0] /\ stamp = [f \in Files |-> 0]
    /\ cached = [f \in Files |-> NoBytecode]
    /\ server = "down" /\ loaded = [f \in Files |-> NotYet] /\ stray = FALSE /\ crashes = 0
    /\ at = "snapshot" /\ before = content /\ changed = {}
    /\ signalled = FALSE /\ unlisted = {}

Supervise ==
    \/ Snapshot \/ Fork \/ Started \/ Poll \/ Settle \/ Forget \/ End
    \/ TellToStop("stopping") \/ TellToStop("ending") \/ StopsOrKilled

Imports == \E f \in Files : Import(f)

Next == Supervise \/ Imports \/ Crash \/ Signal \/ \E f \in Files : Edit(f)

(* The supervisor goes on, a kill ends any server, and a server imports    *)
(* its modules.  Nobody need edit or stop anything.                        *)
Fairness == WF_vars(Supervise) /\ WF_vars(Imports)

Spec == Init /\ [][Next]_vars /\ Fairness

-----------------------------------------------------------------------------
(* Properties.                                                             *)

(* Serving what is on disk, but for edits that came while others settled.  *)
UpToDate == server = "running" /\ \A f \in Files \ unlisted : loaded[f] = content[f]

(* Every edit reaches the server: one made at any moment, during startup,  *)
(* an import, a stop, or within a second of another with the same size, is *)
(* what the server ends up running, unless a server dies by itself or the  *)
(* supervisor is told to stop.  Left out are files saved only in the       *)
(* tenth of a second others settle in: see EditsReload.                    *)
EditsArrive == <>[](UpToDate \/ server = "down" \/ signalled)

(* Told to stop, at whatever point, the supervisor leaves no server behind *)
(* that it had a handle of, even one that hangs (supervise, stop).         *)
StopsItsServer == signalled ~> (at = "over" /\ server = "down")

(* Stated by forget_bytecode: an edit that keeps the second and the size   *)
(* "left the restarted server loading the first save's bytecode: an edit   *)
(* that reloaded and did nothing".  Here, that no edit does.               *)
EditsReload ==
    <>[](\/ server = "running" /\ loaded = content
         \/ server = "down" \/ signalled)

(* Stated of the console's Ctrl-C: "the supervisor takes it and stops the  *)
(* child in an orderly way".                                               *)
NoStray == at = "over" => ~stray

(* Edits end up in the running server, and the supervisor that ends stops  *)
(* its server first (supervise in _cli.py).                                *)
Liveness == EditsArrive /\ StopsItsServer

=============================================================================
