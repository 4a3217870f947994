----------------------------- MODULE MediaServer -----------------------------
(***************************************************************************)
(* The tables of a media server: GenericMediaServer.cpp, the reference     *)
(* counting of ServerMediaSession.hh, the lookup of DynamicRTSPServer.cpp  *)
(* and the commands of RTSPServer.cpp that take and give back references.  *)
(*                                                                         *)
(* A ServerMediaSession (an "object" here) is what clients stream from.    *)
(* The table maps a stream name to the object new clients get.  An object  *)
(* that is removed from the table while client sessions refer to it is     *)
(* marked, and deleted by whoever drops the last reference.  Everything    *)
(* runs in one thread, except that DESCRIBE may run the event loop while   *)
(* it works out a SDP description: other requests, other DESCRIBEs and     *)
(* the server's owner run in the middle of it.                             *)
(***************************************************************************)
EXTENDS Integers, Sequences, FiniteSets, Functions

CONSTANTS
  Names,         \* stream names
  Clients,       \* session ids
  NoMedia,       \* a NULL ServerMediaSession*
  ReloadsFiles,  \* TRUE: DynamicRTSPServer; FALSE: the lookup of the base class
  MaxObjects,    \* bound: objects created in a behaviour
  MaxChanges,    \* bound: times the files are changed or deleted
  MaxDescribes   \* bound: DESCRIBE requests

ASSUME NoMediaAssumption == NoMedia \notin 1..MaxObjects
ASSUME ReloadsFilesAssumption == ReloadsFiles \in BOOLEAN
ASSUME MaximaAssumption == MaxObjects \in Nat /\ MaxChanges \in Nat /\ MaxDescribes \in Nat

VARIABLES
  catalog,     \* the table, the allocated objects, and how many were ever created
  sessions,    \* fClientSessions: what each session's fOurServerMediaSession is
  describing,  \* the objects of the DESCRIBEs in progress, innermost last
  files,       \* for each name, the version of the file; 0 where there is none
  changes,     \* how often the files were changed
  describes,   \* how many DESCRIBEs were begun
  silent,      \* the clients that will never be heard of again
  up           \* the server has not been destroyed

vars == <<catalog, sessions, describing, files, changes, describes, silent, up>>

Objects == 1..MaxObjects

Live == DOMAIN catalog.objects

Without(f, k) == Restrict(f, DOMAIN f \ {k})

With(f, k, v) == [j \in DOMAIN f \union {k} |-> IF j = k THEN v ELSE f[j]]

-----------------------------------------------------------------------------
(* Operations on a catalog c. *)

(* Mutant: the table keeps its entry. *)
RemoveObjectOnly(c, o) ==
  [c EXCEPT !.objects = IF c.objects[o].refs = 0
                        THEN Without(@, o)
                        ELSE [@ EXCEPT ![o].doomed = TRUE]]

(* Removal is by name, whatever object stands under that name. *)
RemoveServerMediaSession(c, o) ==
  [c EXCEPT !.table = Without(@, c.objects[o].name),
            !.objects = IF c.objects[o].refs = 0
                        THEN Without(@, o)
                        ELSE [@ EXCEPT ![o].doomed = TRUE]]

RemoveByName(c, n) ==
  IF n \in DOMAIN c.table THEN RemoveServerMediaSession(c, c.table[n]) ELSE c

AddServerMediaSession(c, n) ==
  LET rest == RemoveByName(c, n)
      o    == rest.created + 1
      new  == [name |-> n, refs |-> 0, doomed |-> FALSE, version |-> files[n]]
  IN  [table   |-> With(rest.table, n, o),
       objects |-> With(rest.objects, o, new),
       created |-> o]

Retain(c, o) == [c EXCEPT !.objects[o].refs = @ + 1]

Dropped(c, o, k) == [c EXCEPT !.objects[o].refs = @ - k]

Unreferenced(c, o) == c.objects[o].refs = 0 /\ c.objects[o].doomed

(* k references are given back, and the last one deletes a marked object. *)
Release(c, o, k) ==
  LET less == Dropped(c, o, k)
  IN  IF Unreferenced(less, o) THEN RemoveServerMediaSession(less, o) ELSE less

(* Mutant: an object once created serves every later client. *)
LookupOnce(c, n, isFirstLookupInSession) ==
  IF ReloadsFiles /\ files[n] # 0 /\ n \notin DOMAIN c.table
  THEN AddServerMediaSession(c, n)
  ELSE c

(* The catalog after lookupServerMediaSession: it may drop and create objects. *)
Lookup(c, n, isFirstLookupInSession) ==
  LET stale  == ReloadsFiles /\ (files[n] = 0 \/ isFirstLookupInSession)
      pruned == IF stale THEN RemoveByName(c, n) ELSE c
  IN  IF ReloadsFiles /\ files[n] # 0 /\ n \notin DOMAIN pruned.table
      THEN AddServerMediaSession(pruned, n)
      ELSE pruned

Found(c, n) == IF n \in DOMAIN c.table THEN c.table[n] ELSE NoMedia

-----------------------------------------------------------------------------
Init ==
  /\ catalog = [table |-> [n \in {} |-> 0], objects |-> [o \in {} |-> 0], created |-> 0]
  /\ sessions = [s \in {} |-> NoMedia]
  /\ describing = <<>>
  /\ files \in [Names -> {0, 1}]
  /\ changes = 0
  /\ describes = 0
  /\ silent = {}
  /\ up = TRUE

(* The calls of the program that owns the server. *)
Owner(c) ==
  /\ up
  /\ catalog' = c
  /\ UNCHANGED <<describing, files, changes, describes, silent, up>>

Add(n) ==
  /\ catalog.created < MaxObjects
  /\ Owner(AddServerMediaSession(catalog, n))
  /\ UNCHANGED sessions

RemoveStream(n) == Owner(RemoveByName(catalog, n)) /\ UNCHANGED sessions

Using(o) == {s \in DOMAIN sessions : sessions[s] = o}

ReleasedBy(ended, o) == Release(catalog, o, Cardinality(ended))

CloseAllClientSessions(n) ==
  LET o     == Found(catalog, n)
      ended == Using(o)
  IN  /\ o # NoMedia
      /\ Owner(ReleasedBy(ended, o))
      /\ sessions' = Restrict(sessions, DOMAIN sessions \ ended)

DeleteServerMediaSession(n) ==
  LET o     == Found(catalog, n)
      ended == Using(o)
  IN  /\ o # NoMedia
      /\ Owner(RemoveServerMediaSession(ReleasedBy(ended, o), o))
      /\ sessions' = Restrict(sessions, DOMAIN sessions \ ended)

(* cleanup() ends the client sessions, which deletes the marked objects and  *)
(* clears their names, and then deletes the objects still in the table.      *)
Cleanup ==
  LET marked  == {o \in Live : catalog.objects[o].doomed}
      cleared == {catalog.objects[o].name : o \in marked}
      listed  == {catalog.table[n] : n \in DOMAIN catalog.table \ cleared}
      kept    == [o \in Live \ (marked \union listed) |-> [catalog.objects[o] EXCEPT !.refs = 0]]
  IN  /\ up
      /\ describing = <<>>
      /\ up' = FALSE
      /\ catalog' = [catalog EXCEPT !.table = [n \in {} |-> 0], !.objects = kept]
      /\ sessions' = [s \in {} |-> NoMedia]
      /\ UNCHANGED <<describing, files, changes, describes, silent>>

-----------------------------------------------------------------------------
(* Requests of clients. *)

(* handleCmd_DESCRIBE up to generateSDPDescription ... *)
Describe(n) ==
  LET c == Lookup(catalog, n, TRUE)
      o == Found(c, n)
  IN  /\ up
      /\ describes < MaxDescribes
      /\ c.created <= MaxObjects
      /\ describes' = describes + 1
      /\ catalog' = IF o = NoMedia THEN c ELSE Retain(c, o)
      /\ describing' = IF o = NoMedia THEN describing ELSE Append(describing, o)
      /\ UNCHANGED <<sessions, files, changes, silent, up>>

(* Mutant: a DESCRIBE that fails keeps its reference. *)
DescribedOnly ==
  /\ describing # <<>>
  /\ describing' = SubSeq(describing, 1, Len(describing) - 1)
  /\ UNCHANGED <<catalog, sessions, files, changes, describes, silent, up>>

(* ... and the rest of it. *)
Described ==
  /\ describing # <<>>
  /\ describing' = SubSeq(describing, 1, Len(describing) - 1)
  /\ catalog' = Release(catalog, describing[Len(describing)], 1)
  /\ UNCHANGED <<sessions, files, changes, describes, silent, up>>

(* SETUP without a session id makes a session under an id nobody uses.  The  *)
(* first SETUP that finds its stream binds the session to it; later ones     *)
(* only compare, and are refused when the lookup gives another object.       *)
Setup(s, n) ==
  LET before == IF s \in DOMAIN sessions THEN sessions[s] ELSE NoMedia
      c      == Lookup(catalog, n, before = NoMedia)
      o      == Found(c, n)
      binds  == before = NoMedia /\ o # NoMedia
  IN  /\ up
      /\ s \notin silent
      /\ c.created <= MaxObjects
      /\ catalog' = IF binds THEN Retain(c, o) ELSE c
      /\ sessions' = With(sessions, s, IF binds THEN o ELSE before)
      /\ UNCHANGED <<describing, files, changes, describes, silent, up>>

(* Mutant: the destructor forgets the reference. *)
EndSessionOnly(s) ==
  /\ s \in DOMAIN sessions
  /\ sessions' = Without(sessions, s)
  /\ UNCHANGED <<catalog, describing, files, changes, describes, silent, up>>

(* The destructor of a client session, run by TEARDOWN, by the end of the    *)
(* connection it streams over, or by livenessTimeoutTask.                    *)
EndSession(s) ==
  /\ s \in DOMAIN sessions
  /\ sessions' = Without(sessions, s)
  /\ catalog' = IF sessions[s] = NoMedia THEN catalog ELSE Release(catalog, sessions[s], 1)
  /\ UNCHANGED <<describing, files, changes, describes, silent, up>>

(* From now on nothing puts off the client's liveness timer. *)
FallsSilent(s) ==
  /\ s \notin silent
  /\ silent' = silent \union {s}
  /\ UNCHANGED <<catalog, sessions, describing, files, changes, describes, up>>

(* Somebody writes or deletes a file. *)
FileChanges(n) ==
  /\ changes < MaxChanges
  /\ changes' = changes + 1
  /\ \E v \in {0, changes + 2} : v # files[n] /\ files' = [files EXCEPT ![n] = v]
  /\ UNCHANGED <<catalog, sessions, describing, describes, silent, up>>

Next ==
  \/ \E n \in Names : Add(n)
  \/ \E n \in Names : RemoveStream(n)
  \/ \E n \in Names : CloseAllClientSessions(n)
  \/ \E n \in Names : DeleteServerMediaSession(n)
  \/ Cleanup
  \/ \E n \in Names : Describe(n)
  \/ Described
  \/ \E s \in Clients, n \in Names : Setup(s, n)
  \/ \E s \in Clients : EndSession(s)
  \/ \E s \in Clients : FallsSilent(s)
  \/ \E n \in Names : FileChanges(n)

Spec == Init /\ [][Next]_vars

(* SDP descriptions get done, and the liveness timer of a client that fell   *)
(* silent goes off.                                                          *)
Fairness ==
  /\ WF_vars(Described)
  /\ \A s \in Clients : WF_vars(s \in silent /\ EndSession(s))

FairSpec == Spec /\ Fairness

-----------------------------------------------------------------------------
ObjectType == [name : Names, refs : Nat, doomed : BOOLEAN, version : Nat]

TypeOK ==
  /\ catalog.created \in 0..MaxObjects
  /\ Live \subseteq 1..catalog.created
  /\ catalog.objects \in [Live -> ObjectType]
  /\ DOMAIN catalog.table \subseteq Names
  /\ catalog.table \in [DOMAIN catalog.table -> Live]
  /\ DOMAIN sessions \subseteq Clients
  /\ sessions \in [DOMAIN sessions -> Live \union {NoMedia}]
  /\ describing \in Seq(Live)
  /\ files \in [Names -> Nat]
  /\ changes \in 0..MaxChanges
  /\ describes \in 0..MaxDescribes
  /\ silent \subseteq Clients
  /\ up \in BOOLEAN

Describing(o) == {i \in DOMAIN describing : describing[i] = o}

(* The reference count of an object is the number of client sessions and of  *)
(* unfinished DESCRIBEs that hold a pointer to it, so no pointer to a        *)
(* deleted object is ever held.  An object that was removed from the table   *)
(* is kept only as long as somebody refers to it, and is not in the table.   *)
ReferencesCounted ==
  \A o \in Live :
    /\ catalog.objects[o].refs = Cardinality(Using(o)) + Cardinality(Describing(o))
    /\ catalog.objects[o].doomed =>
         /\ catalog.objects[o].refs > 0
         /\ \A n \in DOMAIN catalog.table : catalog.table[n] # o

Begins(s) == sessions'[s] # NoMedia /\ (s \in DOMAIN sessions => sessions[s] = NoMedia)

(* What a step does for sessions: who has an object keeps it, allocated, and *)
(* a session that begins gets one made from the file as it is now.           *)
Served ==
  /\ \A s \in DOMAIN sessions \intersect DOMAIN sessions' :
       sessions[s] # NoMedia =>
         sessions'[s] = sessions[s] /\ sessions[s] \in DOMAIN catalog'.objects
  /\ \A s \in DOMAIN sessions' :
       LET object == catalog'.objects[sessions'[s]]
       IN  ReloadsFiles /\ Begins(s) => object.version = files[object.name]

(* GenericMediaServer.hh: existing client sessions continue streaming from   *)
(* their object, whatever happens to the table meanwhile, and new ones get   *)
(* an object made from the current file.                                     *)
SessionsServed == [][Served]_vars

(* A removed object is deleted once the clients that use it are silent.      *)
RemovedIsDeleted ==
  \A o \in Objects :
    (o \in Live /\ catalog.objects[o].doomed /\ Using(o) \subseteq silent) ~> o \notin Live
=============================================================================
