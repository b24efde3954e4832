--------------------------- MODULE ResponseCache ----------------------------
(***************************************************************************)
(* The cache of successful GET responses (pkg/cache/response.go) next to   *)
(* the mutations that invalidate it (Invalidate on every mutating route of *)
(* pkg/routes).  One cache key is modelled apart from its version part: a  *)
(* user, a URL and a language; other keys are never read through it.       *)
(*                                                                         *)
(* The data a response shows is abstracted to the number of mutations      *)
(* committed when it was read.  Redis keeps the version and the entries,   *)
(* shared by all instances of the app; each instance coalesces its own     *)
(* concurrent misses (singleflight).  Every Redis call may fail.           *)
(***************************************************************************)
EXTENDS Integers

CONSTANTS
  Readers,      \* GET requests served at the same time
  Instances,    \* processes of the app
  MaxMutations, \* BOUND: mutations that ever commit, and versions
  None          \* no entry, no request

Mutations == 0..MaxMutations

Stages == {"begun", "keyed", "missed", "leading", "running", "storing", "waiting", "own", "answered"}

Read == [instance : Instances, at : Stages, since : Mutations,
         version : Mutations, value : Mutations]

ASSUME CacheAssumption ==
  /\ MaxMutations \in Nat
  /\ None \notin Mutations
  /\ None \notin Read

VARIABLES
  data,        \* mutations committed so far, the state of the database
  uncounted,   \* committed mutations that have not advanced the version yet
  version,     \* the shared generation; a missing key reads as 0
  invalidated, \* the newest mutation that advanced the version
  entry,       \* [Mutations -> the data cached under that version, or None]
  read         \* [Readers -> the GET being served, or None]

vars == <<data, uncounted, version, invalidated, entry, read>>
dbVars == <<data, uncounted, version, invalidated>>

Init ==
  /\ data = 0
  /\ uncounted = {}
  /\ version = 0
  /\ invalidated = 0
  /\ entry = [v \in Mutations |-> None]
  /\ read = [c \in Readers |-> None]

-----------------------------------------------------------------------------
(* A mutation: the handler commits, then Invalidate advances the version,  *)
(* then the client is answered.                                            *)

Commit ==
  /\ data < MaxMutations
  /\ data' = data + 1
  /\ uncounted' = uncounted \cup {data'}
  /\ UNCHANGED <<version, invalidated, entry, read>>

Invalidate(n) ==
  /\ n \in uncounted
  /\ version < MaxMutations
  /\ uncounted' = uncounted \ {n}
  /\ version' = version + 1
  /\ invalidated' = IF n > invalidated THEN n ELSE invalidated
  /\ UNCHANGED <<data, entry, read>>

(* Incr failed, or the handler failed after its commit: only the entries'  *)
(* lifetime bounds how long the old data is shown.                         *)
LeaveStale(n) ==
  /\ n \in uncounted
  /\ uncounted' = uncounted \ {n}
  /\ UNCHANGED <<data, version, invalidated, entry, read>>

-----------------------------------------------------------------------------
(* A GET request. *)

At(c, stage) == read[c] # None /\ read[c].at = stage

GoTo(c, stage) == read' = [read EXCEPT ![c] = [@ EXCEPT !.at = stage]]

BeginRead(c, i) ==
  /\ read[c] = None
  /\ read' = [read EXCEPT ![c] = [instance |-> i, at |-> "begun", since |-> invalidated,
                                  version |-> 0, value |-> 0]]
  /\ UNCHANGED <<dbVars, entry>>

ReadVersion(c) ==
  /\ At(c, "begun")
  /\ \/ read' = [read EXCEPT ![c] = [@ EXCEPT !.at = "keyed", !.version = version]]
     \/ GoTo(c, "own")
  /\ UNCHANGED <<dbVars, entry>>

(* Requests that are answered together, all with the same data.            *)
Answer(cs, value) ==
  read' = [c \in Readers |-> IF c \in cs THEN [read[c] EXCEPT !.at = "answered", !.value = value]
                                         ELSE read[c]]

(* Mutant: the key leaves out the version. *)
HitAny(c) ==
  /\ At(c, "keyed")
  /\ \E v \in Mutations : entry[v] # None /\ Answer({c}, entry[v])
  /\ UNCHANGED <<dbVars, entry>>

Hit(c) ==
  /\ At(c, "keyed")
  /\ entry[read[c].version] # None
  /\ Answer({c}, entry[read[c].version])
  /\ UNCHANGED <<dbVars, entry>>

(* Nothing under the key, or it could not be read.                         *)
Miss(c) ==
  /\ At(c, "keyed")
  /\ GoTo(c, "missed")
  /\ UNCHANGED <<dbVars, entry>>

(* The call under way for the same key in the same process.                *)
InFlight(c) ==
  {l \in Readers : /\ \E stage \in {"leading", "running", "storing"} : At(l, stage)
                   /\ read[l].instance = read[c].instance
                   /\ read[l].version = read[c].version}

Lead(c) ==
  /\ At(c, "missed") /\ InFlight(c) = {}
  /\ GoTo(c, "leading")
  /\ UNCHANGED <<dbVars, entry>>

Follow(c) ==
  /\ At(c, "missed") /\ InFlight(c) # {}
  /\ GoTo(c, "waiting")
  /\ UNCHANGED <<dbVars, entry>>

(* Mutant: the waiting requests are forgotten. *)
LeaderAlone(c) == {c}

(* The leader of a call and everybody who waits for it.                    *)
Together(c) ==
  {c} \cup {f \in Readers : /\ At(f, "waiting")
                            /\ read[f].instance = read[c].instance
                            /\ read[f].version = read[c].version}

LookAgain(c) ==
  /\ At(c, "leading")
  /\ \/ /\ entry[read[c].version] # None
        /\ Answer(Together(c), entry[read[c].version])
     \/ GoTo(c, "running")
  /\ UNCHANGED <<dbVars, entry>>

(* The handler queries the database.                                       *)
RunHandler(c) ==
  /\ At(c, "running")
  /\ read' = [read EXCEPT ![c] = [@ EXCEPT !.at = "storing", !.value = data]]
  /\ UNCHANGED <<dbVars, entry>>

(* The handler returned an error: so do all.                               *)
HandlerFails(c) ==
  /\ At(c, "running")
  /\ read' = [f \in Readers |-> IF f \in Together(c) THEN None ELSE read[f]]
  /\ UNCHANGED <<dbVars, entry>>

(* A response that may not be cached (an error status, too large) is the   *)
(* leader's alone, the others run their own handlers.                      *)
Uncacheable(c) ==
  /\ At(c, "running")
  /\ read' = [f \in Readers |-> IF f = c THEN None
                                ELSE IF f \in Together(c) THEN [read[f] EXCEPT !.at = "own"]
                                ELSE read[f]]
  /\ UNCHANGED <<dbVars, entry>>

(* The entry is stored under the version read first, or Set failed.        *)
Store(c) ==
  /\ At(c, "storing")
  /\ \/ entry' = [entry EXCEPT ![read[c].version] = read[c].value]
     \/ UNCHANGED entry
  /\ Answer(Together(c), read[c].value)
  /\ UNCHANGED dbVars

(* Without the cache.                                                      *)
RunOwn(c) ==
  /\ At(c, "own")
  /\ Answer({c}, data)
  /\ UNCHANGED <<dbVars, entry>>

(* The client has the answer.                                              *)
EndRead(c) ==
  /\ At(c, "answered")
  /\ read' = [read EXCEPT ![c] = None]
  /\ UNCHANGED <<dbVars, entry>>

Expire(v) ==
  /\ entry[v] # None
  /\ entry' = [entry EXCEPT ![v] = None]
  /\ UNCHANGED <<dbVars, read>>

-----------------------------------------------------------------------------
Serve(c) ==
  \/ ReadVersion(c) \/ Hit(c) \/ Miss(c) \/ Lead(c) \/ Follow(c) \/ LookAgain(c)
  \/ RunHandler(c) \/ HandlerFails(c) \/ Uncacheable(c) \/ Store(c) \/ RunOwn(c)
  \/ EndRead(c)

Mutate == Commit \/ \E n \in uncounted : Invalidate(n) \/ LeaveStale(n)

Next ==
  \/ Mutate
  \/ \E c \in Readers : Serve(c) \/ \E i \in Instances : BeginRead(c, i)
  \/ \E v \in Mutations : Expire(v)

Spec == Init /\ [][Next]_vars

(* Every request is a goroutine of its own, and each call it makes ends.   *)
FairSpec == Spec /\ \A c \in Readers : WF_vars(Serve(c))

-----------------------------------------------------------------------------
(* Properties. *)

TypeOK ==
  /\ data \in Mutations
  /\ uncounted \subseteq Mutations
  /\ version \in Mutations
  /\ invalidated \in Mutations
  /\ entry \in [Mutations -> Mutations \cup {None}]
  /\ read \in [Readers -> Read \cup {None}]

(* "Versioned keys make invalidation atomic": a GET that begins after a    *)
(* mutation advanced the version never shows older data, whatever reads    *)
(* were under way, stored late, or were coalesced with it.                 *)
FreshAnswers ==
  \A c \in Readers : At(c, "answered") => read[c].value >= read[c].since

(* Why it holds: the counters are in order ...                             *)
CountersInOrder ==
  /\ \A n \in uncounted : n <= data
  /\ invalidated <= data
  /\ \A c \in Readers : read[c] # None => read[c].since <= invalidated

(* ... and whoever may still use a version that was read before ...        *)
Keyed(c) ==
  read[c] # None /\ read[c].at \in {"keyed", "missed", "leading", "running", "storing", "waiting"}

(* ... finds data under it, or waits for data to come under it, that is as *)
(* new as the version, and as new as what preceded the GET.                *)
NewEnough(v, value) ==
  /\ v = version => value >= invalidated
  /\ \A c \in Readers : Keyed(c) /\ read[c].version = v => value >= read[c].since

VersionsInOrder ==
  /\ \A v \in Mutations : entry[v] # None => v <= version
  /\ \A c \in Readers : Keyed(c) => read[c].version <= version

EntriesNewEnough == \A v \in Mutations : entry[v] # None => NewEnough(v, entry[v])

LoadsNewEnough ==
  \A c \in Readers : At(c, "storing") => NewEnough(read[c].version, read[c].value)

(* The inductive invariant.                                                *)
Inv ==
  /\ TypeOK
  /\ CountersInOrder
  /\ VersionsInOrder
  /\ EntriesNewEnough
  /\ LoadsNewEnough
  /\ FreshAnswers

(* Every GET ends, also one that waits for another one's handler.          *)
ReadsEnd == \A c \in Readers : read[c] # None ~> read[c] = None
=============================================================================
