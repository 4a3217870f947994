-------------------------- MODULE MediaServerProofs --------------------------
(***************************************************************************)
(* Proofs that the reference counts of MediaServer are right, for any      *)
(* names, clients and bounds, with or without the lookup that reloads      *)
(* files.                                                                  *)
(*                                                                         *)
(* The plan: Good(c, uses) says that catalog c is in order when uses[o] is *)
(* the number of pointers to object o that are held outside the catalog.   *)
(* Each operation on catalogs is shown to keep it (RemoveGood, AddGood,    *)
(* LookupGood, RetainGood, ReleaseGood), for any uses.  What an action     *)
(* does to the pointers in sessions and in unfinished DESCRIBEs is counted *)
(* apart (References), and the two meet in one lemma per action.           *)
(***************************************************************************)
EXTENDS MediaServer, TLAPS, FiniteSetTheorems, SequenceTheorems

(* Nobody points to an object that is gone, counts are right, a marked object
   is used and is not in the table, and a stream is listed under its name. *)
Good(c, uses) ==
  /\ c = [table |-> c.table, objects |-> c.objects, created |-> c.created]
  /\ c.created \in 0..MaxObjects
  /\ uses \in [Objects -> Nat]
  /\ DOMAIN c.objects \subseteq 1..c.created
  /\ c.objects \in [DOMAIN c.objects -> ObjectType]
  /\ DOMAIN c.table \subseteq Names
  /\ c.table \in [DOMAIN c.table -> DOMAIN c.objects]
  /\ \A n \in DOMAIN c.table : c.objects[c.table[n]].name = n
  /\ \A o \in DOMAIN c.objects :
       /\ c.objects[o].refs = uses[o]
       /\ c.objects[o].doomed => uses[o] > 0 /\ \A n \in DOMAIN c.table : c.table[n] # o
  /\ \A o \in Objects : uses[o] > 0 => o \in DOMAIN c.objects

(* The number of pointers to each object. *)
References == [o \in Objects |-> Cardinality(Using(o)) + Cardinality(Describing(o))]

(* The inductive invariant. *)
IInv ==
  /\ Good(catalog, References)
  /\ DOMAIN sessions \subseteq Clients /\ IsFiniteSet(DOMAIN sessions)
  /\ sessions \in [DOMAIN sessions -> Objects \union {NoMedia}]
  /\ describing \in Seq(Objects)
  /\ files \in [Names -> Nat]
  /\ changes \in 0..MaxChanges
  /\ describes \in 0..MaxDescribes
  /\ silent \subseteq Clients
  /\ up \in BOOLEAN

-----------------------------------------------------------------------------
(* Operations on catalogs. *)

(* An object has the three fields that it is made with, and a name is one of Names. *)
LEMMA ObjectFields ==
  ASSUME NEW x \in ObjectType
  PROVE  /\ x = [name |-> x.name, refs |-> x.refs, doomed |-> x.doomed, version |-> x.version]
         /\ x.name \in Names /\ x.refs \in Nat /\ x.doomed \in BOOLEAN /\ x.version \in Nat
  BY DEF ObjectType

(* Objects are numbered by how many were created before. *)
LEMMA LiveAreObjects ==
  ASSUME NEW c, NEW uses, Good(c, uses)
  PROVE  DOMAIN c.objects \subseteq Objects /\ c.created + 1 \notin DOMAIN c.objects
  BY MaximaAssumption DEF Good, Objects

(* removeServerMediaSession, for the object that stands under name n. *)
LEMMA RemoveGood ==
  ASSUME NEW c, NEW uses, Good(c, uses), NEW n
  PROVE  LET d == RemoveByName(c, n)
         IN  /\ Good(d, uses) /\ d.created = c.created
             /\ n \notin DOMAIN d.table
             /\ \A o \in DOMAIN c.objects : uses[o] > 0 => o \in DOMAIN d.objects
<1> DEFINE d == RemoveByName(c, n)
           o == c.table[n]
<1>1. CASE n \notin DOMAIN c.table
  BY <1>1 DEF RemoveByName, Good
<1>2. CASE n \in DOMAIN c.table
  <2>1. /\ o \in DOMAIN c.objects /\ c.objects[o].name = n /\ c.objects[o].refs = uses[o]
        /\ c.objects[o] \in ObjectType /\ ~c.objects[o].doomed /\ uses[o] \in Nat
    BY <1>2, LiveAreObjects DEF Good, ObjectType
  <2>2. d = [table |-> Without(c.table, n),
             objects |-> IF uses[o] = 0 THEN Without(c.objects, o)
                         ELSE [c.objects EXCEPT ![o] = [@ EXCEPT !.doomed = TRUE]],
             created |-> c.created]
    BY <1>2, <2>1 DEF RemoveByName, RemoveServerMediaSession, Good
  <2>3. DOMAIN d.table = DOMAIN c.table \ {n} /\ \A m \in DOMAIN d.table : d.table[m] = c.table[m]
    BY <2>2 DEF Without, Restrict
  <2>4. \A m \in DOMAIN d.table : d.table[m] # o /\ d.table[m] \in DOMAIN c.objects
    BY <2>1, <2>3 DEF Good
  <2>5. CASE uses[o] = 0
    <3>1. DOMAIN d.objects = DOMAIN c.objects \ {o} /\ \A p \in DOMAIN d.objects : d.objects[p] = c.objects[p]
      BY <2>2, <2>5 DEF Without, Restrict
    <3>2. d.objects \in [DOMAIN d.objects -> ObjectType] /\ d.table \in [DOMAIN d.table -> DOMAIN d.objects]
      BY <2>2, <2>3, <2>4, <2>5, <3>1 DEF Good, Without, Restrict
    <3> QED BY <2>2, <2>3, <2>4, <2>5, <3>1, <3>2 DEF Good
  <2>6. CASE uses[o] # 0
    <3> DEFINE marked == [c.objects[o] EXCEPT !.doomed = TRUE]
    <3>1. marked \in ObjectType /\ marked.name = n /\ marked.refs = uses[o] /\ marked.doomed
      BY <2>1 DEF ObjectType
    <3>2. d.objects = [c.objects EXCEPT ![o] = marked] /\ c.objects \in [DOMAIN c.objects -> ObjectType]
      BY <2>2, <2>6 DEF Good
    <3> HIDE DEF marked, d
    <3>3. /\ DOMAIN d.objects = DOMAIN c.objects
          /\ d.objects[o] = marked
          /\ \A p \in DOMAIN c.objects \ {o} : d.objects[p] = c.objects[p]
          /\ d.objects \in [DOMAIN d.objects -> ObjectType]
      BY <2>1, <3>1, <3>2
    <3>4. d.table \in [DOMAIN d.table -> DOMAIN d.objects]
      BY <2>2, <2>3, <2>4, <3>3 DEF Without, Restrict
    <3>5. \A p \in DOMAIN d.objects :
            /\ d.objects[p].refs = uses[p]
            /\ d.objects[p].doomed => uses[p] > 0 /\ \A m \in DOMAIN d.table : d.table[m] # p
      BY <2>1, <2>3, <2>4, <2>6, <3>1, <3>3 DEF Good
    <3>6. \A m \in DOMAIN d.table : d.objects[d.table[m]].name = m
      BY <2>3, <2>4, <3>3 DEF Good
    <3>7. Good(d, uses)
      BY <2>2, <2>3, <3>3, <3>4, <3>5, <3>6 DEF Good
    <3> QED BY <2>2, <2>3, <3>3, <3>7 DEF d
  <2>7. QED
    BY <2>5, <2>6
<1>3. QED
  BY <1>1, <1>2

(* addServerMediaSession: the new object stands under its name, and nobody
   points to it yet. *)
LEMMA AddGood ==
  ASSUME NEW c, NEW uses, Good(c, uses), NEW n \in Names, files[n] \in Nat,
         c.created < MaxObjects
  PROVE  LET d == AddServerMediaSession(c, n)
         IN  /\ Good(d, uses) /\ d.created = c.created + 1
             /\ n \in DOMAIN d.table /\ d.table[n] = d.created
             /\ d.objects[d.created].name = n /\ d.objects[d.created].version = files[n]
<1> DEFINE rest == RemoveByName(c, n)
           o    == rest.created + 1
           new  == [name |-> n, refs |-> 0, doomed |-> FALSE, version |-> files[n]]
           d    == AddServerMediaSession(c, n)
<1>1. Good(rest, uses) /\ rest.created = c.created /\ n \notin DOMAIN rest.table
  BY RemoveGood
<1>2. new \in ObjectType
  BY DEF ObjectType
<1>3. /\ d.table = With(rest.table, n, o) /\ d.objects = With(rest.objects, o, new) /\ d.created = o
      /\ d = [table |-> d.table, objects |-> d.objects, created |-> d.created]
  BY DEF AddServerMediaSession
<1> HIDE DEF rest, d
<1>4. o \in Objects /\ o \notin DOMAIN rest.objects
  BY <1>1, LiveAreObjects, MaximaAssumption DEF Objects, Good
<1>5. uses[o] = 0
  BY <1>1, <1>4 DEF Good
<1>6. /\ DOMAIN d.objects = DOMAIN rest.objects \union {o} /\ d.objects[o] = new
      /\ \A p \in DOMAIN rest.objects : d.objects[p] = rest.objects[p]
      /\ d.objects \in [DOMAIN d.objects -> ObjectType]
  BY <1>1, <1>2, <1>3, <1>4 DEF With, Good
<1>7. /\ DOMAIN d.table = DOMAIN rest.table \union {n} /\ d.table[n] = o
      /\ \A m \in DOMAIN rest.table : d.table[m] = rest.table[m] /\ rest.table[m] \in DOMAIN rest.objects
      /\ d.table \in [DOMAIN d.table -> DOMAIN d.objects]
  BY <1>1, <1>3, <1>6 DEF With, Good
<1>8. /\ d.created \in 0..MaxObjects /\ DOMAIN d.objects \subseteq 1..d.created
      /\ d.created = c.created + 1
  BY <1>1, <1>3, <1>4, <1>6, MaximaAssumption DEF Good, Objects
<1>9. \A m \in DOMAIN d.table : d.objects[d.table[m]].name = m
  BY <1>1, <1>6, <1>7 DEF Good
<1>10. \A p \in DOMAIN d.objects :
         /\ d.objects[p].refs = uses[p]
         /\ d.objects[p].doomed => uses[p] > 0 /\ \A m \in DOMAIN d.table : d.table[m] # p
  BY <1>1, <1>4, <1>5, <1>6, <1>7 DEF Good
<1>11. Good(d, uses)
  BY <1>1, <1>3, <1>6, <1>7, <1>8, <1>9, <1>10 DEF Good
<1>12. QED
  BY <1>3, <1>6, <1>7, <1>8, <1>11 DEF d

(* lookupServerMediaSession: a file that was changed gives a new object to the
   first lookup of a session. *)
LEMMA LookupGood ==
  ASSUME NEW c, NEW uses, Good(c, uses), NEW n \in Names, files[n] \in Nat, NEW first \in BOOLEAN,
         Lookup(c, n, first).created <= MaxObjects
  PROVE  LET d == Lookup(c, n, first)
             o == Found(d, n)
         IN  /\ Good(d, uses)
             /\ o # NoMedia => /\ o \in DOMAIN d.objects /\ o \in Objects
                               /\ ReloadsFiles /\ first => d.objects[o].version = files[n] /\ d.objects[o].name = n
<1> DEFINE stale  == ReloadsFiles /\ (files[n] = 0 \/ first)
           pruned == IF stale THEN RemoveByName(c, n) ELSE c
           adds   == ReloadsFiles /\ files[n] # 0 /\ n \notin DOMAIN pruned.table
           d      == Lookup(c, n, first)
<1>1. d = IF adds THEN AddServerMediaSession(pruned, n) ELSE pruned
  BY DEF Lookup
<1>2. Good(pruned, uses) /\ (stale => n \notin DOMAIN pruned.table)
  BY RemoveGood
<1>3. CASE adds
  <2> HIDE DEF pruned
  <2>1. pruned.created < MaxObjects
    <3>1. d.created = RemoveByName(pruned, n).created + 1
      BY <1>1, <1>3 DEF AddServerMediaSession
    <3>2. RemoveByName(pruned, n).created = pruned.created /\ pruned.created \in Nat
      BY <1>2, RemoveGood DEF Good
    <3> QED BY <3>1, <3>2, MaximaAssumption
  <2>2. /\ Good(d, uses) /\ n \in DOMAIN d.table /\ d.table[n] = d.created
        /\ d.objects[d.created].name = n /\ d.objects[d.created].version = files[n]
    BY <1>1, <1>2, <1>3, <2>1, AddGood
  <2>3. Found(d, n) = d.created /\ d.table[n] \in DOMAIN d.objects
    BY <2>2 DEF Found, Good
  <2> HIDE DEF d
  <2>4. d.created \in Objects
    BY <2>2, <2>3, LiveAreObjects
  <2> QED BY <2>2, <2>3, <2>4 DEF d
<1>4. CASE ~adds
  <2>1. d = pruned
    BY <1>1, <1>4
  <2>2. Found(pruned, n) # NoMedia => ~(ReloadsFiles /\ first)
    BY <1>2, <1>4 DEF Found
  <2>3. Found(pruned, n) # NoMedia => Found(pruned, n) \in DOMAIN pruned.objects
    BY <1>2 DEF Found, Good
  <2> HIDE DEF pruned, d
  <2>4. Found(pruned, n) # NoMedia => Found(pruned, n) \in Objects
    BY <1>2, <2>3, LiveAreObjects
  <2> QED BY <1>2, <2>1, <2>2, <2>3, <2>4 DEF d
<1>5. QED
  BY <1>3, <1>4

(* incrementReferenceCount, with the pointer that it is for. *)
LEMMA RetainGood ==
  ASSUME NEW c, NEW uses, Good(c, uses), NEW o \in DOMAIN c.objects
  PROVE  /\ Good(Retain(c, o), [uses EXCEPT ![o] = @ + 1])
         /\ DOMAIN Retain(c, o).objects = DOMAIN c.objects
         /\ \A p \in DOMAIN c.objects :
              /\ Retain(c, o).objects[p].version = c.objects[p].version
              /\ Retain(c, o).objects[p].name = c.objects[p].name
<1> DEFINE d    == Retain(c, o)
           more == [c.objects[o] EXCEPT !.refs = @ + 1]
           u    == [uses EXCEPT ![o] = @ + 1]
<1>1. /\ o \in Objects /\ uses \in [Objects -> Nat] /\ c.objects[o] \in ObjectType
      /\ c.objects[o].refs = uses[o]
  BY LiveAreObjects DEF Good
<1>2. /\ more \in ObjectType /\ more.refs = uses[o] + 1 /\ more.name = c.objects[o].name
      /\ more.doomed = c.objects[o].doomed /\ more.version = c.objects[o].version
  BY <1>1 DEF ObjectType
<1>3. d = [table |-> c.table, objects |-> [c.objects EXCEPT ![o] = more], created |-> c.created]
  BY DEF Retain, Good
<1>4. c.objects \in [DOMAIN c.objects -> ObjectType]
  BY DEF Good
<1>5. u \in [Objects -> Nat] /\ u[o] = uses[o] + 1 /\ \A p \in Objects \ {o} : u[p] = uses[p]
  BY <1>1
<1> HIDE DEF d, more, u
<1>6. /\ DOMAIN d.objects = DOMAIN c.objects /\ d.objects[o] = more
      /\ \A p \in DOMAIN c.objects \ {o} : d.objects[p] = c.objects[p]
      /\ d.objects \in [DOMAIN d.objects -> ObjectType]
      /\ d.table = c.table /\ d.created = c.created
  BY <1>2, <1>3, <1>4
<1>7. \A p \in DOMAIN d.objects :
        /\ d.objects[p].refs = u[p]
        /\ d.objects[p].doomed => u[p] > 0 /\ \A m \in DOMAIN d.table : d.table[m] # p
  BY <1>1, <1>2, <1>5, <1>6, LiveAreObjects DEF Good
<1>8. \A m \in DOMAIN d.table : d.objects[d.table[m]].name = m
  BY <1>2, <1>6 DEF Good
<1>9. \A p \in Objects : u[p] > 0 => p \in DOMAIN d.objects
  BY <1>1, <1>5, <1>6 DEF Good
<1>10. Good(d, u)
  BY <1>3, <1>5, <1>6, <1>7, <1>8, <1>9 DEF Good
<1>11. QED
  BY <1>2, <1>6, <1>10 DEF d, u

(* decrementReferenceCount, with what its callers do after the last one, when
   k pointers go.  An object that is not marked stays. *)
LEMMA ReleaseGood ==
  ASSUME NEW c, NEW uses, Good(c, uses), NEW o \in DOMAIN c.objects, NEW k \in 0..uses[o]
  PROVE  LET d == Release(c, o, k)
         IN  /\ Good(d, [uses EXCEPT ![o] = @ - k])
             /\ d.created = c.created
             /\ ~c.objects[o].doomed => d.table = c.table
<1> DEFINE less  == Dropped(c, o, k)
           fewer == [c.objects[o] EXCEPT !.refs = @ - k]
           u     == [uses EXCEPT ![o] = @ - k]
           d     == Release(c, o, k)
<1>1. /\ o \in Objects /\ uses \in [Objects -> Nat] /\ uses[o] \in Nat
      /\ c.objects[o] \in ObjectType /\ c.objects[o].refs = uses[o]
  BY LiveAreObjects DEF Good
<1>2. /\ fewer \in ObjectType /\ fewer.refs = uses[o] - k /\ fewer.name = c.objects[o].name
      /\ fewer.doomed = c.objects[o].doomed
  BY <1>1 DEF ObjectType
<1>3. less = [table |-> c.table, objects |-> [c.objects EXCEPT ![o] = fewer], created |-> c.created]
  BY DEF Dropped, Good
<1>4. c.objects \in [DOMAIN c.objects -> ObjectType]
  BY DEF Good
<1>5. u \in [Objects -> Nat] /\ u[o] = uses[o] - k /\ \A p \in Objects \ {o} : u[p] = uses[p]
  BY <1>1
<1>6. d = IF less.objects[o].refs = 0 /\ less.objects[o].doomed THEN RemoveServerMediaSession(less, o) ELSE less
  BY DEF Release, Unreferenced
<1> HIDE DEF less, fewer, u, d
<1>7. /\ DOMAIN less.objects = DOMAIN c.objects /\ less.objects[o] = fewer
      /\ \A p \in DOMAIN c.objects \ {o} : less.objects[p] = c.objects[p]
      /\ less.objects \in [DOMAIN less.objects -> ObjectType]
      /\ less.table = c.table /\ less.created = c.created
  BY <1>2, <1>3, <1>4
<1>8. \A m \in DOMAIN less.table : less.objects[less.table[m]].name = m
  BY <1>2, <1>7 DEF Good
<1>9. CASE ~(fewer.refs = 0 /\ fewer.doomed)
  <2>1. d = less
    BY <1>6, <1>7, <1>9
  <2>2. \A p \in DOMAIN d.objects :
          /\ d.objects[p].refs = u[p]
          /\ d.objects[p].doomed => u[p] > 0 /\ \A m \in DOMAIN d.table : d.table[m] # p
    BY <1>1, <1>2, <1>5, <1>7, <1>9, <2>1, LiveAreObjects DEF Good
  <2>3. \A p \in Objects : u[p] > 0 => p \in DOMAIN d.objects
    BY <1>1, <1>5, <1>7, <2>1 DEF Good
  <2>4. Good(d, u)
    BY <1>3, <1>5, <1>7, <1>8, <2>1, <2>2, <2>3 DEF Good
  <2> QED BY <1>7, <2>1, <2>4 DEF d, u
<1>10. CASE fewer.refs = 0 /\ fewer.doomed
  <2> DEFINE n == c.objects[o].name
  <2>1. d = [table |-> Without(c.table, n), objects |-> Without(less.objects, o), created |-> c.created]
    BY <1>2, <1>3, <1>6, <1>7, <1>10 DEF RemoveServerMediaSession
  <2>2. /\ DOMAIN d.objects = DOMAIN c.objects \ {o}
        /\ \A p \in DOMAIN d.objects : d.objects[p] = c.objects[p]
        /\ d.objects \in [DOMAIN d.objects -> ObjectType]
    BY <1>4, <1>7, <2>1 DEF Without, Restrict
  <2>3. c.objects[o].doomed /\ u[o] = 0
    BY <1>2, <1>5, <1>10
  <2>4. /\ DOMAIN d.table = DOMAIN c.table \ {n}
        /\ \A m \in DOMAIN d.table : d.table[m] = c.table[m] /\ d.table[m] \in DOMAIN d.objects
        /\ d.table \in [DOMAIN d.table -> DOMAIN d.objects]
    <3>1. \A m \in DOMAIN c.table : c.table[m] \in DOMAIN c.objects \ {o}
      BY <2>3 DEF Good
    <3> QED BY <2>1, <2>2, <3>1 DEF Without, Restrict
  <2>5. \A m \in DOMAIN d.table : d.objects[d.table[m]].name = m
    BY <2>2, <2>4 DEF Good
  <2>6. \A p \in DOMAIN d.objects :
          /\ d.objects[p].refs = u[p]
          /\ d.objects[p].doomed => u[p] > 0 /\ \A m \in DOMAIN d.table : d.table[m] # p
    BY <1>5, <2>2, <2>4, LiveAreObjects DEF Good
  <2>7. \A p \in Objects : u[p] > 0 => p \in DOMAIN d.objects
    BY <1>5, <2>2, <2>3 DEF Good
  <2>8. Good(d, u)
    BY <1>5, <2>1, <2>2, <2>4, <2>5, <2>6, <2>7 DEF Good
  <2> QED BY <2>1, <2>3, <2>8 DEF d, u
<1>11. QED
  BY <1>9, <1>10

-----------------------------------------------------------------------------
(* Pointers held by sessions and by unfinished DESCRIBEs. *)

(* There are finitely many. *)
LEMMA CountsAreNat ==
  ASSUME IsFiniteSet(DOMAIN sessions), describing \in Seq(Objects), NEW o
  PROVE  /\ IsFiniteSet(Using(o)) /\ Cardinality(Using(o)) \in Nat
         /\ IsFiniteSet(Describing(o)) /\ Cardinality(Describing(o)) \in Nat
<1>1. IsFiniteSet(Using(o))
  BY FS_Subset DEF Using
<1>2. IsFiniteSet(DOMAIN describing)
  BY LenProperties, FS_Interval
<1>3. IsFiniteSet(Describing(o))
  BY <1>2, FS_Subset DEF Describing
<1>4. QED
  BY <1>1, <1>3, FS_CardinalityType

(* A step that changes neither changes no count. *)
LEMMA SameReferences ==
  ASSUME sessions' = sessions, describing' = describing
  PROVE  References' = References
  BY DEF References, Using, Describing

(* Who is pointed to by a session is alive, and so is what DESCRIBE works on. *)
LEMMA HeldIsLive ==
  ASSUME IInv
  PROVE  /\ \A s \in DOMAIN sessions : sessions[s] # NoMedia => sessions[s] \in Live
         /\ \A i \in DOMAIN describing : describing[i] \in Live
<1>1. ASSUME NEW o \in Objects, Using(o) # {} \/ Describing(o) # {} PROVE o \in Live
  <2>1. References[o] > 0
    BY <1>1, CountsAreNat, FS_EmptySet DEF References, IInv
  <2> QED BY <2>1 DEF IInv, Good, Live
<1>2. ASSUME NEW s \in DOMAIN sessions, sessions[s] # NoMedia PROVE sessions[s] \in Live
  BY <1>1, <1>2 DEF IInv, Using
<1>3. ASSUME NEW i \in DOMAIN describing PROVE describing[i] \in Live
  <2>1. describing[i] \in Objects
    BY LenProperties, ElementOfSeq DEF IInv
  <2> QED BY <1>1, <2>1 DEF Describing
<1>4. QED
  BY <1>2, <1>3

(* The end of the sessions in ended, all of which stream from object o. *)
LEMMA SessionsEnd ==
  ASSUME IInv, NEW o \in Objects, NEW ended \in SUBSET Using(o),
         sessions' = Restrict(sessions, DOMAIN sessions \ ended), describing' = describing
  PROVE  /\ References' = [References EXCEPT ![o] = @ - Cardinality(ended)]
         /\ Cardinality(ended) \in 0..References[o]
         /\ DOMAIN sessions' \subseteq Clients /\ IsFiniteSet(DOMAIN sessions')
         /\ sessions' \in [DOMAIN sessions' -> Objects \union {NoMedia}]
<1>1. /\ DOMAIN sessions' = DOMAIN sessions \ ended
      /\ \A s \in DOMAIN sessions' : sessions'[s] = sessions[s]
  BY DEF Restrict
<1>2. Using(o)' = Using(o) \ ended
  BY <1>1 DEF Using
<1>3. \A p \in Objects \ {o} : Using(p)' = Using(p)
  BY <1>1 DEF Using
<1>4. \A p : Describing(p)' = Describing(p)
  BY DEF Describing
<1>5. /\ IsFiniteSet(ended) /\ Cardinality(ended) \in Nat /\ Cardinality(ended) <= Cardinality(Using(o))
      /\ Cardinality(Using(o) \ ended) = Cardinality(Using(o)) - Cardinality(ended)
  <2>1. IsFiniteSet(Using(o))
    BY CountsAreNat DEF IInv
  <2>2. IsFiniteSet(ended) /\ Cardinality(ended) <= Cardinality(Using(o))
    BY <2>1, FS_Subset
  <2>3. Using(o) \cap ended = ended
    OBVIOUS
  <2>4. Cardinality(Using(o) \ ended) = Cardinality(Using(o)) - Cardinality(Using(o) \cap ended)
    BY <2>1, FS_Difference
  <2> QED BY <2>2, <2>3, <2>4, FS_CardinalityType
<1>6. \A p \in Objects : /\ Cardinality(Using(p)) \in Nat /\ Cardinality(Describing(p)) \in Nat
                         /\ References[p] = Cardinality(Using(p)) + Cardinality(Describing(p))
  BY CountsAreNat DEF IInv, References
<1>7. References'[o] = References[o] - Cardinality(ended)
  <2>1. References'[o] = Cardinality(Using(o)') + Cardinality(Describing(o)')
    BY DEF References
  <2>2. Cardinality(Using(o)') = Cardinality(Using(o)) - Cardinality(ended)
    BY <1>2, <1>5
  <2>3. Cardinality(Describing(o)') = Cardinality(Describing(o))
    BY <1>4
  <2> HIDE DEF References
  <2> QED BY <1>5, <1>6, <2>1, <2>2, <2>3
<1>8. \A p \in Objects \ {o} : References'[p] = References[p]
  BY <1>3, <1>4 DEF References
<1>9. DOMAIN References = Objects /\ DOMAIN References' = Objects
  BY DEF References
<1>10. References' = [References EXCEPT ![o] = @ - Cardinality(ended)]
  <2>1. References' = [p \in Objects |-> References'[p]] /\ References = [p \in Objects |-> References[p]]
    BY DEF References
  <2> HIDE DEF References
  <2> QED BY <1>7, <1>8, <2>1
<1>11. IsFiniteSet(DOMAIN sessions') /\ DOMAIN sessions' \subseteq Clients
  BY <1>1, FS_Subset DEF IInv
<1>12. sessions' \in [DOMAIN sessions' -> Objects \union {NoMedia}]
  BY <1>1 DEF IInv, Restrict
<1>13. Cardinality(ended) \in 0..References[o]
  <2> HIDE DEF References
  <2> QED BY <1>5, <1>6
<1>14. QED
  BY <1>10, <1>11, <1>12, <1>13

(* The parts of the inductive invariant that most actions leave alone. *)
LEMMA RestKept ==
  ASSUME IInv, UNCHANGED <<files, changes, describes, silent>>, up' \in BOOLEAN,
         Good(catalog', References'),
         DOMAIN sessions' \subseteq Clients, IsFiniteSet(DOMAIN sessions'),
         sessions' \in [DOMAIN sessions' -> Objects \union {NoMedia}],
         describing' \in Seq(Objects)
  PROVE  IInv'
  BY DEF IInv, Objects

-----------------------------------------------------------------------------
(* The server starts in order, *)
LEMMA InitIInv == Init => IInv
<1> SUFFICES ASSUME Init PROVE IInv
  OBVIOUS
<1>1. /\ DOMAIN sessions = {} /\ describing = <<>> /\ DOMAIN describing = {}
      /\ catalog.table = [n \in {} |-> 0] /\ catalog.objects = [o \in {} |-> 0] /\ catalog.created = 0
      /\ catalog = [table |-> catalog.table, objects |-> catalog.objects, created |-> catalog.created]
  BY DEF Init
<1>2. IsFiniteSet(DOMAIN sessions) /\ describing \in Seq(Objects)
  BY <1>1, FS_EmptySet, EmptySeq
<1>3. \A o \in Objects : References[o] = 0
  BY <1>1, FS_EmptySet DEF References, Using, Describing
<1>4. References \in [Objects -> Nat]
  BY <1>3 DEF References
<1>5. Good(catalog, References)
  BY <1>1, <1>3, <1>4, MaximaAssumption DEF Good
<1>6. QED
  BY <1>1, <1>2, <1>5, MaximaAssumption DEF Init, IInv

(* and the calls of its owner keep it so: a stream is added, *)
LEMMA AddKeeps ==
  ASSUME IInv, NEW n \in Names, Add(n)
  PROVE  IInv'
<1>1. Good(catalog', References)
  BY AddGood DEF Add, Owner, IInv
<1>2. References' = References
  BY SameReferences DEF Add, Owner
<1>3. QED
  BY <1>1, <1>2, RestKept DEF Add, Owner, IInv

(* removed, *)
LEMMA RemoveStreamKeeps ==
  ASSUME IInv, NEW n \in Names, RemoveStream(n)
  PROVE  IInv'
<1>1. Good(catalog', References)
  BY RemoveGood DEF RemoveStream, Owner, IInv
<1>2. References' = References
  BY SameReferences DEF RemoveStream, Owner
<1>3. QED
  BY <1>1, <1>2, RestKept DEF RemoveStream, Owner, IInv

(* the sessions of a stream are closed; the stream stays in the table, *)
LEMMA ClosingGood ==
  ASSUME IInv, NEW n \in Names, Found(catalog, n) # NoMedia,
         sessions' = Restrict(sessions, DOMAIN sessions \ Using(Found(catalog, n))),
         describing' = describing
  PROVE  LET o == Found(catalog, n)
             c == ReleasedBy(Using(o), o)
         IN  /\ Good(c, References')
             /\ n \in DOMAIN c.table /\ c.table[n] = o
             /\ DOMAIN sessions' \subseteq Clients /\ IsFiniteSet(DOMAIN sessions')
             /\ sessions' \in [DOMAIN sessions' -> Objects \union {NoMedia}]
<1> DEFINE o == Found(catalog, n)
<1>1. n \in DOMAIN catalog.table /\ o = catalog.table[n] /\ Good(catalog, References)
  BY DEF Found, IInv
<1>2. o \in DOMAIN catalog.objects /\ o \in Objects /\ ~catalog.objects[o].doomed
  BY <1>1, LiveAreObjects DEF Good, ObjectType
<1>3. /\ References' = [References EXCEPT ![o] = @ - Cardinality(Using(o))]
      /\ Cardinality(Using(o)) \in 0..References[o]
      /\ DOMAIN sessions' \subseteq Clients /\ IsFiniteSet(DOMAIN sessions')
      /\ sessions' \in [DOMAIN sessions' -> Objects \union {NoMedia}]
  <2> HIDE DEF o
  <2>1. sessions' = Restrict(sessions, DOMAIN sessions \ Using(o))
    BY DEF o
  <2> QED BY <1>2, <2>1, SessionsEnd
<1>4. /\ Good(ReleasedBy(Using(o), o), References') /\ ReleasedBy(Using(o), o).table = catalog.table
  <2> HIDE DEF o
  <2> QED BY <1>1, <1>2, <1>3, ReleaseGood DEF ReleasedBy
<1>5. QED
  BY <1>1, <1>3, <1>4

(* closeAllClientSessionsForServerMediaSession() keeps the tables in order. *)
LEMMA CloseAllClientSessionsKeeps ==
  ASSUME IInv, NEW n \in Names, CloseAllClientSessions(n)
  PROVE  IInv'
<1>1. /\ Found(catalog, n) # NoMedia /\ describing' = describing
      /\ sessions' = Restrict(sessions, DOMAIN sessions \ Using(Found(catalog, n)))
      /\ catalog' = ReleasedBy(Using(Found(catalog, n)), Found(catalog, n))
      /\ UNCHANGED <<files, changes, describes, silent, up>>
  BY DEF CloseAllClientSessions, Owner
<1>2. QED
  BY <1>1, ClosingGood, RestKept DEF IInv

(* or it is removed too. *)
LEMMA DeleteServerMediaSessionKeeps ==
  ASSUME IInv, NEW n \in Names, DeleteServerMediaSession(n)
  PROVE  IInv'
<1> DEFINE o == Found(catalog, n)
           c == ReleasedBy(Using(o), o)
<1>1. /\ o # NoMedia /\ describing' = describing
      /\ sessions' = Restrict(sessions, DOMAIN sessions \ Using(o))
      /\ catalog' = RemoveServerMediaSession(c, o)
      /\ UNCHANGED <<files, changes, describes, silent, up>>
  BY DEF DeleteServerMediaSession, Owner
<1>2. /\ Good(c, References') /\ n \in DOMAIN c.table /\ c.table[n] = o
      /\ DOMAIN sessions' \subseteq Clients /\ IsFiniteSet(DOMAIN sessions')
      /\ sessions' \in [DOMAIN sessions' -> Objects \union {NoMedia}]
  BY <1>1, ClosingGood
<1> HIDE DEF c, o
<1>3. catalog' = RemoveByName(c, n)
  BY <1>1, <1>2 DEF RemoveByName
<1>4. Good(catalog', References')
  BY <1>2, <1>3, RemoveGood
<1>5. QED
  BY <1>1, <1>2, <1>4, RestKept DEF IInv

(* The server is destroyed: nobody points to anything any more. *)
LEMMA CleanupKeeps ==
  ASSUME IInv, Cleanup
  PROVE  IInv'
<1> DEFINE marked  == {o \in Live : catalog.objects[o].doomed}
           cleared == {catalog.objects[o].name : o \in marked}
           listed  == {catalog.table[n] : n \in DOMAIN catalog.table \ cleared}
           kept    == [o \in Live \ (marked \union listed) |-> [catalog.objects[o] EXCEPT !.refs = 0]]
<1>1. /\ describing = <<>> /\ describing' = <<>> /\ DOMAIN sessions' = {} /\ sessions' = [s \in {} |-> NoMedia]
      /\ catalog' = [catalog EXCEPT !.table = [n \in {} |-> 0], !.objects = kept]
      /\ UNCHANGED <<files, changes, describes, silent>> /\ up' = FALSE
  BY DEF Cleanup
<1>2. catalog' = [table |-> [n \in {} |-> 0], objects |-> kept, created |-> catalog.created]
  BY <1>1 DEF IInv, Good
<1>3. /\ DOMAIN kept \subseteq Live
      /\ \A o \in DOMAIN kept : /\ kept[o] \in ObjectType /\ kept[o].refs = 0 /\ ~kept[o].doomed
  <2>1. \A o \in Live : catalog.objects[o] \in ObjectType
    BY DEF IInv, Good, Live
  <2> QED BY <2>1 DEF ObjectType
<1>4. kept \in [DOMAIN kept -> ObjectType]
  BY <1>3
<1> HIDE DEF kept
<1>5. \A o \in Objects : References'[o] = 0
  <2>1. \A o \in Objects : Using(o)' = {} /\ Describing(o)' = {}
    BY <1>1 DEF Using, Describing
  <2>2. \A o \in Objects : References'[o] = Cardinality(Using(o)') + Cardinality(Describing(o)')
    BY DEF References
  <2> QED BY <2>1, <2>2, FS_EmptySet
<1>6. References' \in [Objects -> Nat]
  <2>1. References' = [o \in Objects |-> References'[o]]
    BY DEF References
  <2> HIDE DEF References
  <2> QED BY <1>5, <2>1
<1>7. Good(catalog', References')
  <2> HIDE DEF References
  <2>1. /\ catalog'.objects = kept /\ catalog'.created = catalog.created
        /\ catalog'.table = [n \in {} |-> 0] /\ DOMAIN catalog'.table = {}
        /\ catalog' = [table |-> catalog'.table, objects |-> catalog'.objects,
                       created |-> catalog'.created]
    BY <1>2
  <2>2. catalog'.table \in [DOMAIN catalog'.table -> DOMAIN kept]
    BY <2>1
  <2>3. DOMAIN kept \subseteq 1..catalog.created /\ DOMAIN kept \subseteq Objects
        /\ catalog.created \in 0..MaxObjects
    BY <1>3, LiveAreObjects DEF IInv, Good, Live
  <2>4. \A o \in DOMAIN kept : kept[o].refs = References'[o] /\ ~kept[o].doomed
    BY <1>3, <1>5, <2>3
  <2> QED BY <1>4, <1>5, <1>6, <2>1, <2>2, <2>3, <2>4 DEF Good
<1>8. IsFiniteSet(DOMAIN sessions') /\ describing' \in Seq(Objects)
  BY <1>1, FS_EmptySet, EmptySeq
<1>9. QED
  BY <1>1, <1>7, <1>8, RestKept

(* The beginning of a DESCRIBE keeps the invariant, *)
LEMMA DescribeKeeps ==
  ASSUME IInv, NEW n \in Names, Describe(n)
  PROVE  IInv'
<1> DEFINE c == Lookup(catalog, n, TRUE)
<1>0. PICK o : o = Found(c, n)
  OBVIOUS
<1>1. /\ c.created <= MaxObjects /\ describes' = describes + 1 /\ describes < MaxDescribes
      /\ catalog' = IF o = NoMedia THEN c ELSE Retain(c, o)
      /\ describing' = IF o = NoMedia THEN describing ELSE Append(describing, o)
      /\ UNCHANGED <<sessions, files, changes, silent, up>>
  BY <1>0 DEF Describe
<1>2. Good(c, References) /\ (o # NoMedia => o \in DOMAIN c.objects /\ o \in Objects)
  BY <1>0, <1>1, LookupGood DEF IInv
<1> HIDE DEF c
<1>3. Good(catalog', References') /\ describing' \in Seq(Objects)
  <2>1. CASE o = NoMedia
    BY <1>1, <1>2, <2>1, SameReferences DEF IInv
  <2>2. CASE o # NoMedia
    <3>1. /\ describing \in Seq(Objects) /\ Len(describing) \in Nat /\ DOMAIN describing = 1..Len(describing)
          /\ describing' \in Seq(Objects) /\ DOMAIN describing' = 1..Len(describing)+1
          /\ \A i \in 1..Len(describing) : describing'[i] = describing[i]
          /\ describing'[Len(describing)+1] = o
      BY <1>1, <1>2, <2>2, LenProperties, AppendProperties DEF IInv
    <3>2. /\ Describing(o)' = Describing(o) \union {Len(describing)+1}
          /\ Len(describing)+1 \notin Describing(o)
          /\ \A p \in Objects \ {o} : Describing(p)' = Describing(p)
      <4>1. \A p : Describing(p) = {i \in 1..Len(describing) : describing[i] = p}
        BY <3>1 DEF Describing
      <4>2. \A p : Describing(p)' = {i \in 1..Len(describing)+1 : describing'[i] = p}
        BY <3>1 DEF Describing
      <4>3. \A p : {i \in 1..Len(describing)+1 : describing'[i] = p}
                     = {i \in 1..Len(describing) : describing[i] = p}
                         \union (IF p = o THEN {Len(describing)+1} ELSE {})
        BY <3>1
      <4>4. Describing(o)' = Describing(o) \union {Len(describing)+1}
        BY <4>1, <4>2, <4>3
      <4>5. \A p \in Objects \ {o} : Describing(p)' = Describing(p)
        BY <4>1, <4>2, <4>3
      <4>6. Len(describing)+1 \notin Describing(o)
        BY <3>1, <4>1
      <4> QED BY <4>4, <4>5, <4>6
    <3>3. \A p : Using(p)' = Using(p)
      BY <1>1 DEF Using
    <3>4. \A p \in Objects : /\ IsFiniteSet(Describing(p)) /\ Cardinality(Describing(p)) \in Nat
                             /\ Cardinality(Using(p)) \in Nat
      BY CountsAreNat DEF IInv
    <3>5. Cardinality(Describing(o)') = Cardinality(Describing(o)) + 1
      BY <1>2, <2>2, <3>2, <3>4, FS_AddElement
    <3>6. /\ References = [p \in Objects |-> References[p]] /\ References' = [p \in Objects |-> References'[p]]
          /\ \A p \in Objects : References[p] = Cardinality(Using(p)) + Cardinality(Describing(p))
          /\ \A p \in Objects : References'[p] = Cardinality(Using(p)') + Cardinality(Describing(p)')
      BY DEF References
    <3> HIDE DEF References
    <3>7. References'[o] = References[o] + 1
      <4>1. References'[o] = Cardinality(Using(o)') + Cardinality(Describing(o)')
        BY <1>2, <2>2, <3>6
      <4>2. Cardinality(Using(o)') = Cardinality(Using(o))
        BY <3>3
      <4> QED BY <1>2, <2>2, <3>4, <3>5, <3>6, <4>1, <4>2
    <3>8. \A p \in Objects \ {o} : References'[p] = References[p]
      BY <3>2, <3>3, <3>6
    <3>9. References' = [References EXCEPT ![o] = @ + 1]
      BY <3>6, <3>7, <3>8
    <3> QED BY <1>1, <1>2, <2>2, <3>1, <3>9, RetainGood
  <2> QED BY <2>1, <2>2
<1>4. QED
  BY <1>1, <1>3, MaximaAssumption DEF IInv, Objects

(* and so does its end; *)
LEMMA DescribedKeeps ==
  ASSUME IInv, Described
  PROVE  IInv'
<1>0. PICK len, o : len = Len(describing) /\ o = describing[len]
  OBVIOUS
<1>1. /\ describing # <<>> /\ describing' = SubSeq(describing, 1, len - 1)
      /\ catalog' = Release(catalog, o, 1)
      /\ UNCHANGED <<sessions, files, changes, describes, silent, up>>
  BY <1>0 DEF Described
<1>2. /\ describing \in Seq(Objects) /\ len \in Nat \ {0} /\ DOMAIN describing = 1..len
      /\ \A i \in 1..len : describing[i] \in Objects
  BY <1>0, <1>1, LenProperties, EmptySeq, ElementOfSeq DEF IInv
<1>3. /\ describing' \in Seq(Objects) /\ DOMAIN describing' = 1..len-1
      /\ \A i \in 1..len-1 : describing'[i] = describing[i]
  <2>1. /\ describing' \in Seq(Objects) /\ Len(describing') = len - 1
        /\ \A i \in 1..len-1 : describing'[i] = describing[i]
    BY <1>1, <1>2, SubSeqProperties
  <2> QED BY <2>1, LenProperties
<1>4. /\ o \in Objects /\ len \in Describing(o) /\ Describing(o)' = Describing(o) \ {len}
      /\ \A p \in Objects \ {o} : Describing(p)' = Describing(p)
  <2>1. \A p : Describing(p) = {i \in 1..len : describing[i] = p}
    BY <1>2 DEF Describing
  <2>2. \A p : Describing(p)' = {i \in 1..len-1 : describing'[i] = p}
    BY <1>3 DEF Describing
  <2>3. \A p : {i \in 1..len-1 : describing'[i] = p} = {i \in 1..len : describing[i] = p} \ {len}
    BY <1>2, <1>3
  <2>4. o \in Objects /\ len \in Describing(o) /\ \A p \in Objects \ {o} : len \notin Describing(p)
    BY <1>0, <1>2, <2>1
  <2> QED BY <2>1, <2>2, <2>3, <2>4
<1>5. o \in Live
  BY <1>0, <1>2, HeldIsLive
<1>6. \A p : Using(p)' = Using(p)
  BY <1>1 DEF Using
<1>7. \A p \in Objects : /\ IsFiniteSet(Describing(p)) /\ Cardinality(Describing(p)) \in Nat
                         /\ Cardinality(Using(p)) \in Nat
  BY CountsAreNat DEF IInv
<1>8. Cardinality(Describing(o)') = Cardinality(Describing(o)) - 1 /\ Cardinality(Describing(o)') \in Nat
  BY <1>4, <1>7, FS_RemoveElement, FS_CardinalityType
<1>9. /\ References = [p \in Objects |-> References[p]] /\ References' = [p \in Objects |-> References'[p]]
      /\ \A p \in Objects : References[p] = Cardinality(Using(p)) + Cardinality(Describing(p))
      /\ \A p \in Objects : References'[p] = Cardinality(Using(p)') + Cardinality(Describing(p)')
  BY DEF References
<1>10. References' = [References EXCEPT ![o] = @ - 1] /\ 1 \in 0..References[o]
  <2> HIDE DEF References
  <2>1. References'[o] = References[o] - 1 /\ 1 \in 0..References[o]
    <3>1. References'[o] = Cardinality(Using(o)') + Cardinality(Describing(o)')
      BY <1>4, <1>9
    <3>2. Cardinality(Using(o)') = Cardinality(Using(o))
      BY <1>6
    <3> QED BY <1>4, <1>7, <1>8, <1>9, <3>1, <3>2
  <2>2. \A p \in Objects \ {o} : References'[p] = References[p]
    BY <1>4, <1>6, <1>9
  <2> QED BY <1>9, <2>1, <2>2
<1>11. Good(catalog', References')
  <2> HIDE DEF References
  <2> QED BY <1>1, <1>5, <1>10, ReleaseGood DEF IInv, Live
<1>12. QED
  BY <1>1, <1>3, <1>11, RestKept DEF IInv

(* a SETUP; *)
LEMMA SetupKeeps ==
  ASSUME IInv, NEW s \in Clients, NEW n \in Names, Setup(s, n)
  PROVE  IInv'
<1> DEFINE before == IF s \in DOMAIN sessions THEN sessions[s] ELSE NoMedia
           c      == Lookup(catalog, n, before = NoMedia)
<1>0. PICK o : o = Found(c, n)
  OBVIOUS
<1> DEFINE binds  == before = NoMedia /\ o # NoMedia
<1>1. /\ c.created <= MaxObjects
      /\ catalog' = IF binds THEN Retain(c, o) ELSE c
      /\ sessions' = With(sessions, s, IF binds THEN o ELSE before)
      /\ UNCHANGED <<describing, files, changes, describes, silent, up>>
  BY <1>0 DEF Setup
<1>2. Good(c, References) /\ (o # NoMedia => o \in DOMAIN c.objects /\ o \in Objects)
  BY <1>0, <1>1, LookupGood DEF IInv
<1>3. /\ before \in Objects \union {NoMedia}
      /\ DOMAIN sessions' = DOMAIN sessions \union {s}
      /\ sessions'[s] = IF binds THEN o ELSE before
      /\ \A r \in DOMAIN sessions \ {s} : sessions'[r] = sessions[r]
  BY <1>1 DEF IInv, With
<1>4. /\ DOMAIN sessions' \subseteq Clients /\ IsFiniteSet(DOMAIN sessions')
      /\ sessions' \in [DOMAIN sessions' -> Objects \union {NoMedia}]
  <2>1. sessions' = [r \in DOMAIN sessions' |-> sessions'[r]]
    BY <1>1 DEF With
  <2>2. IsFiniteSet(DOMAIN sessions')
    BY <1>3, FS_AddElement DEF IInv
  <2> QED BY <1>2, <1>3, <2>1, <2>2 DEF IInv
<1>5. NoMedia \notin Objects
  BY NoMediaAssumption DEF Objects
<1> HIDE DEF c
<1>6. CASE ~binds
  <2>1. \A p \in Objects : Using(p)' = Using(p)
    BY <1>3, <1>5, <1>6 DEF Using
  <2>2. \A p \in Objects : Describing(p)' = Describing(p)
    BY <1>1 DEF Describing
  <2>3. References' = References
    BY <2>1, <2>2 DEF References
  <2>4. Good(catalog', References')
    BY <1>1, <1>2, <1>6, <2>3
  <2> QED BY <1>1, <1>4, <2>4, RestKept DEF IInv
<1>7. CASE binds
  <2>1. o \in Objects /\ o \in DOMAIN c.objects
    BY <1>2, <1>7
  <2>2. Using(o)' = Using(o) \union {s} /\ s \notin Using(o)
    BY <1>3, <1>5, <1>7, <2>1 DEF Using
  <2>3. \A p \in Objects \ {o} : Using(p)' = Using(p)
    BY <1>3, <1>5, <1>7, <2>1 DEF Using
  <2>4. \A p \in Objects : Describing(p)' = Describing(p)
    BY <1>1 DEF Describing
  <2>5. \A p \in Objects : /\ IsFiniteSet(Using(p)) /\ Cardinality(Using(p)) \in Nat
                           /\ Cardinality(Describing(p)) \in Nat
    BY CountsAreNat DEF IInv
  <2>6. Cardinality(Using(o)') = Cardinality(Using(o)) + 1
    BY <2>1, <2>2, <2>5, FS_AddElement
  <2>7. /\ References = [p \in Objects |-> References[p]] /\ References' = [p \in Objects |-> References'[p]]
        /\ \A p \in Objects : References[p] = Cardinality(Using(p)) + Cardinality(Describing(p))
        /\ \A p \in Objects : References'[p] = Cardinality(Using(p)') + Cardinality(Describing(p)')
    BY DEF References
  <2> HIDE DEF References
  <2>8. References'[o] = References[o] + 1
    <3>1. References'[o] = Cardinality(Using(o)') + Cardinality(Describing(o)')
      BY <2>1, <2>7
    <3>2. Cardinality(Describing(o)') = Cardinality(Describing(o))
      BY <2>1, <2>4
    <3> QED BY <2>1, <2>5, <2>6, <2>7, <3>1, <3>2
  <2>9. \A p \in Objects \ {o} : References'[p] = References[p]
    BY <2>3, <2>4, <2>7
  <2>10. References' = [References EXCEPT ![o] = @ + 1]
    BY <2>7, <2>8, <2>9
  <2>11. Good(catalog', References')
    BY <1>1, <1>2, <1>7, <2>1, <2>10, RetainGood
  <2> QED BY <1>1, <1>4, <2>11, RestKept DEF IInv
<1>8. QED
  BY <1>6, <1>7

(* the end of a session. *)
LEMMA EndSessionKeeps ==
  ASSUME IInv, NEW s \in Clients, EndSession(s)
  PROVE  IInv'
<1>0. PICK o : o = sessions[s]
  OBVIOUS
<1>1. /\ s \in DOMAIN sessions /\ o = sessions[s]
      /\ sessions' = Restrict(sessions, DOMAIN sessions \ {s})
      /\ catalog' = IF o = NoMedia THEN catalog ELSE Release(catalog, o, 1)
      /\ UNCHANGED <<describing, files, changes, describes, silent, up>>
  BY <1>0 DEF EndSession, Without
<1>2. CASE o # NoMedia
  <2>1. o \in Objects /\ o \in Live /\ {s} \in SUBSET Using(o) /\ Cardinality({s}) = 1
    BY <1>1, <1>2, HeldIsLive, FS_Singleton DEF IInv, Using
  <2>2. /\ References' = [References EXCEPT ![o] = @ - 1] /\ 1 \in 0..References[o]
        /\ DOMAIN sessions' \subseteq Clients /\ IsFiniteSet(DOMAIN sessions')
        /\ sessions' \in [DOMAIN sessions' -> Objects \union {NoMedia}]
    <3>1. /\ References' = [References EXCEPT ![o] = @ - Cardinality({s})]
          /\ Cardinality({s}) \in 0..References[o]
          /\ DOMAIN sessions' \subseteq Clients /\ IsFiniteSet(DOMAIN sessions')
          /\ sessions' \in [DOMAIN sessions' -> Objects \union {NoMedia}]
      BY <1>1, <2>1, SessionsEnd
    <3> QED BY <2>1, <3>1
  <2>3. Good(catalog', References')
    BY <1>1, <1>2, <2>1, <2>2, ReleaseGood DEF IInv, Live
  <2> QED BY <1>1, <2>2, <2>3, RestKept DEF IInv
<1>3. CASE o = NoMedia
  <2>1. NoMedia \notin Objects
    BY NoMediaAssumption DEF Objects
  <2>2. /\ DOMAIN sessions' = DOMAIN sessions \ {s}
        /\ \A r \in DOMAIN sessions' : sessions'[r] = sessions[r]
        /\ sessions' \in [DOMAIN sessions' -> Objects \union {NoMedia}]
    BY <1>1 DEF Restrict, IInv
  <2>3. IsFiniteSet(DOMAIN sessions') /\ DOMAIN sessions' \subseteq Clients
    BY <2>2, FS_RemoveElement DEF IInv
  <2>4. \A p \in Objects : Using(p)' = Using(p)
    BY <1>1, <1>3, <2>1, <2>2 DEF Using
  <2>5. \A p \in Objects : Describing(p)' = Describing(p)
    BY <1>1 DEF Describing
  <2>6. References' = References
    BY <2>4, <2>5 DEF References
  <2>7. Good(catalog', References')
    BY <1>1, <1>3, <2>6 DEF IInv
  <2> QED BY <1>1, <2>2, <2>3, <2>7, RestKept DEF IInv
<1>4. QED
  BY <1>2, <1>3

(* A client falls silent, *)
LEMMA FallsSilentKeeps ==
  ASSUME IInv, NEW s \in Clients, FallsSilent(s)
  PROVE  IInv'
<1>1. References' = References
  BY SameReferences DEF FallsSilent
<1>2. QED
  BY <1>1 DEF FallsSilent, IInv, Objects

(* or a file changes. *)
LEMMA FileChangesKeeps ==
  ASSUME IInv, NEW n \in Names, FileChanges(n)
  PROVE  IInv'
<1>1. References' = References
  BY SameReferences DEF FileChanges
<1>2. changes' \in 0..MaxChanges /\ files' \in [Names -> Nat]
  BY MaximaAssumption DEF FileChanges, IInv
<1>3. QED
  BY <1>1, <1>2 DEF FileChanges, IInv, Objects

(* Every step of the server keeps the inductive invariant. *)
LEMMA StepKeeps == IInv /\ [Next]_vars => IInv'
<1> SUFFICES ASSUME IInv, [Next]_vars PROVE IInv'
  OBVIOUS
<1>1. ASSUME NEW n \in Names, Add(n) PROVE IInv'
  BY <1>1, AddKeeps
<1>2. ASSUME NEW n \in Names, RemoveStream(n) PROVE IInv'
  BY <1>2, RemoveStreamKeeps
<1>3. ASSUME NEW n \in Names, CloseAllClientSessions(n) PROVE IInv'
  BY <1>3, CloseAllClientSessionsKeeps
<1>4. ASSUME NEW n \in Names, DeleteServerMediaSession(n) PROVE IInv'
  BY <1>4, DeleteServerMediaSessionKeeps
<1>5. CASE Cleanup
  BY <1>5, CleanupKeeps
<1>6. ASSUME NEW n \in Names, Describe(n) PROVE IInv'
  BY <1>6, DescribeKeeps
<1>7. CASE Described
  BY <1>7, DescribedKeeps
<1>8. ASSUME NEW s \in Clients, NEW n \in Names, Setup(s, n) PROVE IInv'
  BY <1>8, SetupKeeps
<1>9. ASSUME NEW s \in Clients, EndSession(s) PROVE IInv'
  BY <1>9, EndSessionKeeps
<1>10. ASSUME NEW s \in Clients, FallsSilent(s) PROVE IInv'
  BY <1>10, FallsSilentKeeps
<1>11. ASSUME NEW n \in Names, FileChanges(n) PROVE IInv'
  BY <1>11, FileChangesKeeps
<1>12. CASE UNCHANGED vars
  <2>1. References' = References
    BY <1>12, SameReferences DEF vars
  <2> QED BY <1>12, <2>1 DEF vars, IInv, Objects
<1>13. QED
  BY <1>1, <1>2, <1>3, <1>4, <1>5, <1>6, <1>7, <1>8, <1>9, <1>10, <1>11, <1>12 DEF Next

-----------------------------------------------------------------------------
(* The inductive invariant holds in every state, for any names, clients and
   bounds. *)
THEOREM Invariance == Spec => []IInv
<1>1. Init => IInv
  BY InitIInv
<1>2. IInv /\ [Next]_vars => IInv'
  BY StepKeeps
<1>3. QED
  BY <1>1, <1>2, PTL DEF Spec

(* The tables and the sessions name allocated objects only. *)
LEMMA IInvTypes == IInv => TypeOK
<1> SUFFICES ASSUME IInv PROVE TypeOK
  OBVIOUS
<1>1. sessions \in [DOMAIN sessions -> Live \union {NoMedia}]
  BY HeldIsLive DEF IInv
<1>2. describing \in Seq(Live)
  <2>1. describing = [i \in 1..Len(describing) |-> describing[i]] /\ Len(describing) \in Nat
    BY LenProperties DEF IInv
  <2>2. \A i \in 1..Len(describing) : describing[i] \in Live
    BY <2>1, HeldIsLive, LenProperties DEF IInv
  <2> QED BY <2>1, <2>2, SeqDef
<1>3. QED
  BY <1>1, <1>2 DEF IInv, Good, Live, TypeOK

(* The state keeps its types. *)
THEOREM TypeCorrect == Spec => []TypeOK
<1>1. QED
  BY IInvTypes, Invariance, PTL

(* The invariant counts all that ReferencesCounted counts. *)
LEMMA IInvCounts == IInv => ReferencesCounted
<1> SUFFICES ASSUME IInv PROVE ReferencesCounted
  OBVIOUS
<1>1. Live \subseteq Objects
  BY LiveAreObjects DEF IInv, Live
<1>2. ASSUME NEW o \in Live
      PROVE  /\ catalog.objects[o].refs = References[o]
             /\ catalog.objects[o].doomed => References[o] > 0 /\ \A n \in DOMAIN catalog.table : catalog.table[n] # o
  <2> HIDE DEF References
  <2> QED BY DEF IInv, Good, Live
<1>3. \A o \in Objects : References[o] = Cardinality(Using(o)) + Cardinality(Describing(o))
  BY DEF References
<1> HIDE DEF References
<1>4. QED
  BY <1>1, <1>2, <1>3 DEF ReferencesCounted

(* Every reference count is the number of pointers held, whatever the owner,
   the files and the clients do in the middle of DESCRIBEs. *)
THEOREM ReferencesAreCounted == Spec => []ReferencesCounted
<1>1. QED
  BY IInvCounts, Invariance, PTL

-----------------------------------------------------------------------------
(* No step binds a session but a SETUP. *)
LEMMA OnlySetupBinds ==
  ASSUME IInv, [Next]_vars, ~ \E s \in Clients, n \in Names : Setup(s, n)
  PROVE  \A s \in DOMAIN sessions' : s \in DOMAIN sessions /\ sessions'[s] = sessions[s]
<1>1. ASSUME NEW n \in Names, CloseAllClientSessions(n) \/ DeleteServerMediaSession(n)
      PROVE  \A s \in DOMAIN sessions' : s \in DOMAIN sessions /\ sessions'[s] = sessions[s]
  BY <1>1 DEF CloseAllClientSessions, DeleteServerMediaSession, Restrict
<1>2. ASSUME Cleanup
      PROVE  \A s \in DOMAIN sessions' : s \in DOMAIN sessions /\ sessions'[s] = sessions[s]
  BY <1>2 DEF Cleanup
<1>3. ASSUME NEW s \in Clients, EndSession(s)
      PROVE  \A r \in DOMAIN sessions' : r \in DOMAIN sessions /\ sessions'[r] = sessions[r]
  BY <1>3 DEF EndSession, Without, Restrict
<1>4. CASE UNCHANGED sessions
  BY <1>4
<1>5. QED
  BY <1>1, <1>2, <1>3, <1>4
     DEF Next, vars, Add, RemoveStream, Describe, Described, FallsSilent, FileChanges

(* A SETUP binds only its own session, when that has no object yet, and to an
   object that was made from the file. *)
LEMMA SetupServes ==
  ASSUME IInv, NEW s \in Clients, NEW n \in Names, Setup(s, n), TypeOK'
  PROVE  Served
<1> DEFINE before == IF s \in DOMAIN sessions THEN sessions[s] ELSE NoMedia
           c      == Lookup(catalog, n, before = NoMedia)
<1>0. PICK o : o = Found(c, n)
  OBVIOUS
<1> DEFINE binds  == before = NoMedia /\ o # NoMedia
<1>1. /\ c.created <= MaxObjects
      /\ catalog' = IF binds THEN Retain(c, o) ELSE c
      /\ sessions' = With(sessions, s, IF binds THEN o ELSE before)
  BY <1>0 DEF Setup
<1>2. /\ DOMAIN sessions' = DOMAIN sessions \union {s}
      /\ sessions'[s] = IF binds THEN o ELSE before
      /\ \A r \in DOMAIN sessions \ {s} : sessions'[r] = sessions[r]
  BY <1>1 DEF With
<1>3. \A r \in DOMAIN sessions : sessions[r] # NoMedia => sessions'[r] = sessions[r]
  BY <1>2
<1>4. \A r \in DOMAIN sessions' : sessions'[r] # NoMedia => sessions'[r] \in DOMAIN catalog'.objects
  BY DEF TypeOK, Live
<1>5. ASSUME NEW r \in DOMAIN sessions', ReloadsFiles, Begins(r)
      PROVE  catalog'.objects[sessions'[r]].version = files[catalog'.objects[sessions'[r]].name]
  <2>1. r = s /\ binds /\ sessions'[s] = o
    BY <1>2, <1>5 DEF Begins
  <2>2. c = Lookup(catalog, n, TRUE)
    BY <2>1
  <2>3. /\ Good(c, References) /\ o \in DOMAIN c.objects
        /\ c.objects[o].version = files[n] /\ c.objects[o].name = n
    BY <1>0, <1>1, <1>5, <2>1, <2>2, LookupGood DEF IInv
  <2> HIDE DEF c
  <2>4. catalog'.objects[o].version = files[n] /\ catalog'.objects[o].name = n
    BY <1>1, <2>1, <2>3, RetainGood
  <2> QED BY <2>1, <2>4
<1>6. QED
  BY <1>3, <1>4, <1>5 DEF Served

(* Every step that gives out a session gives out one that serves the file. *)
LEMMA StepServes == IInv /\ TypeOK' /\ [Next]_vars => Served
<1> SUFFICES ASSUME IInv, TypeOK', [Next]_vars PROVE Served
  OBVIOUS
<1>1. CASE \E s \in Clients, n \in Names : Setup(s, n)
  BY <1>1, SetupServes
<1>2. CASE ~ \E s \in Clients, n \in Names : Setup(s, n)
  <2>1. \A s \in DOMAIN sessions' : s \in DOMAIN sessions /\ sessions'[s] = sessions[s]
    BY <1>2, OnlySetupBinds
  <2>2. \A s \in DOMAIN sessions' : sessions'[s] # NoMedia => sessions'[s] \in DOMAIN catalog'.objects
    BY DEF TypeOK, Live
  <2> QED BY <2>1, <2>2 DEF Served, Begins
<1>3. QED
  BY <1>1, <1>2

(* Whatever happens to the table, a client keeps its object until its session
   ends, and a session that begins gets the file as it is then. *)
THEOREM SessionsAreServed == Spec => SessionsServed
<1>1. IInv /\ TypeOK' /\ [Next]_vars => Served
  BY StepServes
<1>2. []IInv /\ []TypeOK /\ [][Next]_vars => [][Served]_vars
  BY <1>1, PTL
<1>3. Spec => [][Served]_vars
  BY <1>2, Invariance, TypeCorrect, PTL DEF Spec
<1>4. QED
  BY <1>3 DEF SessionsServed
=============================================================================
