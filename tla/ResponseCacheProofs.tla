------------------------- MODULE ResponseCacheProofs ------------------------
(***************************************************************************)
(* Module ResponseCache shows fresh answers for any readers, instances and *)
(* mutations.                                                              *)
(***************************************************************************)
EXTENDS ResponseCache, TLAPS

LEMMA MutationsAreNaturals == Mutations \subseteq Nat /\ 0 \in Mutations /\ None \notin Mutations
  BY CacheAssumption DEF Mutations

LEMMA NoneIsNoRead == None \notin Read
  BY CacheAssumption

LEMMA InitInv == Init => Inv
<1> SUFFICES ASSUME Init PROVE Inv
  OBVIOUS
<1>1. TypeOK
  BY MutationsAreNaturals DEF Init, TypeOK
<1> QED
  BY <1>1 DEF Init, Inv, CountersInOrder, VersionsInOrder, EntriesNewEnough,
              LoadsNewEnough, FreshAnswers, At, Keyed

(* Requests that go on without touching Redis or the database: nobody gets *)
(* a version that was not read, nobody starts to hold data to be stored,   *)
(* and who is answered is answered with new enough data.                   *)
LEMMA ReadStepInv ==
  ASSUME Inv, UNCHANGED <<dbVars, entry>>, read' \in [Readers -> Read \cup {None}],
         \A c \in Readers : read'[c] # None /\ read'[c] # read[c] =>
           /\ read'[c].since <= invalidated
           /\ read'[c].at = "answered" => read'[c].value >= read'[c].since
           /\ read'[c].at # "storing"
           /\ Keyed(c)' => /\ Keyed(c)
                           /\ read[c].version = read'[c].version
                           /\ read[c].since = read'[c].since
  PROVE  Inv'
<1>1. TypeOK' /\ CountersInOrder' /\ FreshAnswers'
  BY DEF Inv, TypeOK, CountersInOrder, FreshAnswers, At, dbVars
<1>2. \A c \in Readers : Keyed(c)' => /\ Keyed(c)
                                      /\ read[c].version = read'[c].version
                                      /\ read[c].since = read'[c].since
  BY DEF Keyed
<1>3. VersionsInOrder'
  BY <1>2 DEF Inv, VersionsInOrder, dbVars
<1>4. \A v, value : NewEnough(v, value) => NewEnough(v, value)'
  BY <1>2 DEF NewEnough, dbVars
<1>5. EntriesNewEnough'
  BY <1>4 DEF Inv, EntriesNewEnough
<1>6. LoadsNewEnough'
  <2> SUFFICES ASSUME NEW c \in Readers, At(c, "storing")'
               PROVE  NewEnough(read[c].version, read[c].value)'
    BY DEF LoadsNewEnough
  <2>1. read'[c] = read[c]
    BY DEF At
  <2>2. NewEnough(read[c].version, read[c].value)
    BY <2>1 DEF Inv, LoadsNewEnough, At
  <2> QED
    BY <1>4, <2>1, <2>2 DEF NewEnough, dbVars
<1> QED
  BY <1>1, <1>3, <1>5, <1>6 DEF Inv

(* The counters of a database step. *)
LEMMA CommitInv == Inv /\ Commit => Inv'
<1> SUFFICES ASSUME Inv, Commit PROVE Inv'
  OBVIOUS
<1>1. data \in Nat /\ data' = data + 1 /\ data' \in Mutations /\ uncounted' \subseteq Mutations
  BY CacheAssumption DEF Inv, TypeOK, Commit, Mutations
<1>2. TypeOK'
  BY <1>1 DEF Inv, TypeOK, Commit
<1>3. CountersInOrder'
  <2>1. \A n \in uncounted' : n <= data'
    BY <1>1, MutationsAreNaturals DEF Inv, TypeOK, Commit, CountersInOrder
  <2>2. invalidated' <= data'
    BY <1>1, MutationsAreNaturals DEF Inv, TypeOK, Commit, CountersInOrder
  <2> QED
    BY <2>1, <2>2 DEF Inv, Commit, CountersInOrder
<1> QED
  BY <1>2, <1>3 DEF Inv, Commit, VersionsInOrder, EntriesNewEnough, LoadsNewEnough,
                    NewEnough, FreshAnswers, At, Keyed

LEMMA LeaveStaleInv == ASSUME Inv, NEW n \in uncounted, LeaveStale(n) PROVE Inv'
<1>1. TypeOK' /\ CountersInOrder'
  BY DEF Inv, TypeOK, CountersInOrder, LeaveStale
<1> QED
  BY <1>1 DEF Inv, LeaveStale, VersionsInOrder, EntriesNewEnough, LoadsNewEnough,
              NewEnough, FreshAnswers, At, Keyed

(* The new version has no entry and no reader yet. *)
LEMMA InvalidateInv == ASSUME Inv, NEW n \in uncounted, Invalidate(n) PROVE Inv'
<1>1. /\ version \in Nat /\ version' = version + 1 /\ version' \in Mutations
      /\ n \in Mutations /\ n <= data /\ invalidated \in Nat /\ data \in Nat
  BY CacheAssumption DEF Inv, TypeOK, CountersInOrder, Invalidate, Mutations
<1>2. invalidated' \in Mutations /\ invalidated <= invalidated' /\ invalidated' <= data
  BY <1>1, MutationsAreNaturals DEF Inv, TypeOK, CountersInOrder, Invalidate
<1>3. TypeOK'
  BY <1>1, <1>2 DEF Inv, TypeOK, Invalidate
<1>4. \A c \in Readers : read[c] # None =>
        read[c] \in Read /\ read[c].since \in Nat /\ read[c].version \in Nat
  BY MutationsAreNaturals DEF Inv, TypeOK, Read
<1>5. CountersInOrder'
  <2>1. \A m \in uncounted' : m <= data'
    BY DEF Inv, CountersInOrder, Invalidate
  <2>2. \A c \in Readers : read'[c] # None => read'[c].since <= invalidated'
    BY <1>1, <1>2, <1>4, MutationsAreNaturals DEF Inv, CountersInOrder, Invalidate
  <2> QED
    BY <1>2, <2>1, <2>2 DEF CountersInOrder, Invalidate
<1>6. VersionsInOrder'
  <2>1. \A v \in Mutations : entry'[v] # None => v <= version'
    BY <1>1, MutationsAreNaturals DEF Inv, VersionsInOrder, Invalidate
  <2>2. \A c \in Readers : Keyed(c)' => read'[c].version <= version'
    BY <1>1, <1>4 DEF Inv, VersionsInOrder, Invalidate, Keyed
  <2> QED
    BY <2>1, <2>2 DEF VersionsInOrder
<1>7. ASSUME NEW v \in Mutations, v <= version, NEW value, NewEnough(v, value)
      PROVE  NewEnough(v, value)'
  BY <1>1, <1>7, MutationsAreNaturals DEF NewEnough, Invalidate, Keyed
<1>8. EntriesNewEnough'
  BY <1>7 DEF Inv, VersionsInOrder, EntriesNewEnough, Invalidate
<1>9. LoadsNewEnough'
  <2> SUFFICES ASSUME NEW c \in Readers, At(c, "storing")
               PROVE  NewEnough(read[c].version, read[c].value)'
    BY DEF LoadsNewEnough, At, Invalidate
  <2>1. read[c].version \in Mutations /\ read[c].version <= version
    BY DEF Inv, TypeOK, Read, VersionsInOrder, At, Keyed
  <2>2. NewEnough(read[c].version, read[c].value)
    BY DEF Inv, LoadsNewEnough
  <2>3. read' = read
    BY DEF Invalidate
  <2> QED
    BY <1>7, <2>1, <2>2, <2>3 DEF NewEnough, Keyed
<1> QED
  BY <1>3, <1>5, <1>6, <1>8, <1>9 DEF Inv, FreshAnswers, Invalidate, At

LEMMA ExpireInv == ASSUME Inv, NEW v \in Mutations, Expire(v) PROVE Inv'
<1>1. TypeOK'
  BY DEF Inv, TypeOK, Expire, dbVars
<1>2. \A w \in Mutations : entry'[w] # None => entry'[w] = entry[w]
  BY DEF Inv, TypeOK, Expire
<1> QED
  BY <1>1, <1>2 DEF Inv, Expire, dbVars, CountersInOrder, VersionsInOrder, EntriesNewEnough,
                    LoadsNewEnough, NewEnough, FreshAnswers, At, Keyed

(* What is known of a request that is being served. *)
LEMMA ServedRead ==
  ASSUME Inv, NEW c \in Readers, read[c] # None
  PROVE  /\ read[c] \in Read
         /\ read[c].since \in Nat /\ read[c].since <= invalidated
         /\ read[c].version \in Mutations /\ read[c].value \in Mutations
         /\ invalidated \in Nat /\ data \in Nat /\ invalidated <= data
  BY MutationsAreNaturals DEF Inv, TypeOK, CountersInOrder, Read

LEMMA BeginReadInv ==
  ASSUME Inv, NEW c \in Readers, NEW i \in Instances, BeginRead(c, i) PROVE Inv'
<1> DEFINE new == [instance |-> i, at |-> "begun", since |-> invalidated,
                   version |-> 0, value |-> 0]
<1>1. new \in Read
  BY MutationsAreNaturals DEF Read, Stages, Inv, TypeOK
<1>2. invalidated \in Nat
  BY MutationsAreNaturals DEF Inv, TypeOK
<1>3. read' \in [Readers -> Read \cup {None}]
  BY <1>1 DEF BeginRead, Inv, TypeOK
<1>4. \A d \in Readers : read'[d] = IF d = c THEN new ELSE read[d]
  BY DEF BeginRead, Inv, TypeOK
<1>5. new.since = invalidated /\ new.at = "begun"
  OBVIOUS
<1> QED
  BY <1>2, <1>3, <1>4, <1>5, ReadStepInv DEF BeginRead, Keyed

(* A request that only moves from one stage to the next. *)
LEMMA MoveInv ==
  ASSUME Inv, NEW c \in Readers, read[c] # None, NEW stage \in Stages,
         stage \notin {"storing", "answered"},
         stage = "own" \/ Keyed(c),
         GoTo(c, stage), UNCHANGED <<dbVars, entry>>
  PROVE  Inv'
<1>1. read[c] \in Read /\ read[c].since <= invalidated
  BY ServedRead
<1> DEFINE new == [read[c] EXCEPT !.at = stage]
<1>2. new \in Read
  BY <1>1 DEF Read
<1>3. new.at = stage /\ new.since = read[c].since /\ new.version = read[c].version
  BY <1>1 DEF Read
<1>4. read' \in [Readers -> Read \cup {None}]
  BY <1>2 DEF GoTo, Inv, TypeOK
<1>5. \A d \in Readers : read'[d] = IF d = c THEN new ELSE read[d]
  BY DEF GoTo, Inv, TypeOK
<1> QED
  BY <1>1, <1>3, <1>4, <1>5, ReadStepInv DEF Keyed

(* Requests that are answered with new enough data. *)
LEMMA AnswerInv ==
  ASSUME Inv, NEW cs \in SUBSET Readers, NEW value \in Mutations, Answer(cs, value),
         \A c \in cs : read[c] # None /\ value >= read[c].since,
         UNCHANGED <<dbVars, entry>>
  PROVE  Inv'
<1>1. \A c \in cs : read[c] \in Read /\ read[c].since <= invalidated
  BY ServedRead
<1> DEFINE new(c) == [read[c] EXCEPT !.at = "answered", !.value = value]
<1>2. \A c \in cs : new(c) \in Read
  BY <1>1 DEF Read, Stages
<1>3. \A c \in cs : new(c).at = "answered" /\ new(c).value = value /\ new(c).since = read[c].since
  BY <1>1 DEF Read
<1>4. \A c \in Readers : read'[c] = IF c \in cs THEN new(c) ELSE read[c]
  BY DEF Answer
<1>5. read' \in [Readers -> Read \cup {None}]
  <2>1. \A c \in Readers : read'[c] \in Read \cup {None}
    BY <1>2, <1>4 DEF Inv, TypeOK
  <2> QED
    BY <2>1 DEF Answer
<1> QED
  BY <1>1, <1>3, <1>4, <1>5, ReadStepInv DEF Keyed

(* Requests that end, the others in cs answer themselves. *)
LEMMA EndInv ==
  ASSUME Inv, NEW cs \in SUBSET Readers, \A c \in cs : read[c] # None,
         \/ read' = [c \in Readers |-> IF c \in cs THEN None ELSE read[c]]
         \/ \E l \in cs :
              read' = [c \in Readers |-> IF c = l THEN None
                                         ELSE IF c \in cs THEN [read[c] EXCEPT !.at = "own"]
                                         ELSE read[c]],
         UNCHANGED <<dbVars, entry>>
  PROVE  Inv'
<1>1. \A c \in cs : read[c] \in Read /\ read[c].since <= invalidated
  BY ServedRead
<1> DEFINE new(c) == [read[c] EXCEPT !.at = "own"]
<1>2. \A c \in cs : new(c) \in Read
  BY <1>1 DEF Read, Stages
<1>3. \A c \in cs : new(c).at = "own" /\ new(c).since = read[c].since
  BY <1>1 DEF Read
<1>4. \A c \in Readers : \/ read'[c] \in {None, read[c]}
                         \/ c \in cs /\ read'[c] = new(c)
  OBVIOUS
<1>5. read' \in [Readers -> Read \cup {None}]
  <2>1. \A c \in Readers : read'[c] \in Read \cup {None}
    BY <1>2, <1>4 DEF Inv, TypeOK
  <2> QED
    BY <2>1
<1> QED
  BY <1>1, <1>3, <1>4, <1>5, ReadStepInv DEF Keyed

(* The version that was read is the newest one, and what is cached or      *)
(* loaded under it is as new as anything invalidated so far.               *)
LEMMA KeyInv ==
  ASSUME Inv, NEW c \in Readers, At(c, "begun"), UNCHANGED <<dbVars, entry>>,
         read' = [read EXCEPT ![c] = [@ EXCEPT !.at = "keyed", !.version = version]]
  PROVE  Inv'
<1>1. /\ read[c] # None /\ read[c] \in Read /\ read[c].since \in Nat
      /\ read[c].since <= invalidated /\ invalidated \in Nat
  BY ServedRead DEF At
<1>2. version \in Mutations /\ version \in Nat
  BY MutationsAreNaturals DEF Inv, TypeOK
<1> DEFINE new == [read[c] EXCEPT !.at = "keyed", !.version = version]
<1>3. new \in Read
  BY <1>1, <1>2 DEF Read, Stages
<1>4. new.at = "keyed" /\ new.version = version /\ new.since = read[c].since
  BY <1>1 DEF Read
<1>5. \A d \in Readers : read'[d] = IF d = c THEN new ELSE read[d]
  BY DEF Inv, TypeOK
<1>6. TypeOK'
  BY <1>3 DEF Inv, TypeOK, dbVars
<1>7. CountersInOrder' /\ FreshAnswers'
  BY <1>1, <1>4, <1>5 DEF Inv, CountersInOrder, FreshAnswers, At, dbVars
<1>8. VersionsInOrder'
  BY <1>2, <1>4, <1>5 DEF Inv, VersionsInOrder, Keyed, dbVars
<1>9. ASSUME NEW v \in Mutations, NEW value \in Mutations, NewEnough(v, value)
      PROVE  NewEnough(v, value)'
  <2>1. value \in Nat
    BY MutationsAreNaturals
  <2>2. v = version => value >= read[c].since
    BY <1>1, <1>9, <2>1 DEF NewEnough
  <2> QED
    BY <1>4, <1>5, <1>9, <2>2 DEF NewEnough, Keyed, dbVars
<1>10. EntriesNewEnough'
  BY <1>9 DEF Inv, TypeOK, EntriesNewEnough
<1>11. LoadsNewEnough'
  <2> SUFFICES ASSUME NEW d \in Readers, At(d, "storing")'
               PROVE  NewEnough(read[d].version, read[d].value)'
    BY DEF LoadsNewEnough
  <2>1. d # c /\ read'[d] = read[d] /\ At(d, "storing")
    BY <1>4, <1>5 DEF At
  <2>2. read[d].version \in Mutations /\ read[d].value \in Mutations
    BY <2>1, ServedRead DEF At
  <2>3. NewEnough(read[d].version, read[d].value)
    BY <2>1 DEF Inv, LoadsNewEnough
  <2> QED
    BY <1>9, <2>1, <2>2, <2>3 DEF NewEnough, dbVars
<1> QED
  BY <1>6, <1>7, <1>8, <1>10, <1>11 DEF Inv

(* What the handler reads is newer than anything there is. *)
LEMMA RunHandlerInv == ASSUME Inv, NEW c \in Readers, RunHandler(c) PROVE Inv'
<1>1. read[c] # None /\ read[c] \in Read /\ read[c].at = "running"
  BY ServedRead DEF RunHandler, At
<1>2. data \in Mutations /\ data \in Nat /\ invalidated \in Nat /\ invalidated <= data
  BY MutationsAreNaturals DEF Inv, TypeOK, CountersInOrder
<1> DEFINE new == [read[c] EXCEPT !.at = "storing", !.value = data]
<1>3. new \in Read
  BY <1>1, <1>2 DEF Read, Stages
<1>4. /\ new.at = "storing" /\ new.value = data
      /\ new.version = read[c].version /\ new.since = read[c].since
  BY <1>1 DEF Read
<1>5. \A d \in Readers : read'[d] = IF d = c THEN new ELSE read[d]
  BY DEF RunHandler, Inv, TypeOK
<1>6. TypeOK'
  BY <1>3 DEF RunHandler, Inv, TypeOK, dbVars
<1>7. CountersInOrder' /\ FreshAnswers'
  BY <1>1, <1>4, <1>5 DEF RunHandler, Inv, CountersInOrder, FreshAnswers, At, dbVars
<1>8. \A d \in Readers : Keyed(d)' => /\ Keyed(d) /\ read'[d].version = read[d].version
                                      /\ read'[d].since = read[d].since
  BY <1>1, <1>4, <1>5 DEF Keyed
<1>9. VersionsInOrder'
  BY <1>8 DEF RunHandler, Inv, VersionsInOrder, dbVars
<1>10. \A v, value : NewEnough(v, value) => NewEnough(v, value)'
  BY <1>8 DEF RunHandler, NewEnough, dbVars
<1>11. EntriesNewEnough'
  BY <1>10 DEF RunHandler, Inv, EntriesNewEnough
<1>12. LoadsNewEnough'
  <2> SUFFICES ASSUME NEW d \in Readers, At(d, "storing")',
                      NEW v, v = read'[d].version, NEW value, value = read'[d].value
               PROVE  NewEnough(v, value)'
    BY DEF LoadsNewEnough, NewEnough
  <2>1. NewEnough(v, value)
    <3>1. CASE d = c
      <4>1. \A e \in Readers : Keyed(e) => data >= read[e].since
        BY <1>2, ServedRead DEF Keyed
      <4>2. value = data
        BY <1>4, <1>5, <3>1
      <4> QED
        BY <1>2, <4>1, <4>2 DEF NewEnough
    <3>2. CASE d # c
      BY <1>5, <3>2 DEF Inv, LoadsNewEnough, At
    <3> QED
      BY <3>1, <3>2
  <2> QED
    BY <1>10, <2>1
<1> QED
  BY <1>6, <1>7, <1>9, <1>11, <1>12 DEF Inv

(* What waits together was asked under the same version. *)
LEMMA TogetherShareVersion ==
  ASSUME Inv, NEW c \in Readers, Keyed(c)
  PROVE  /\ Together(c) \in SUBSET Readers
         /\ c \in Together(c)
         /\ \A f \in Together(c) : /\ read[f] # None /\ Keyed(f)
                                   /\ read[f].version = read[c].version
  BY DEF Together, At, Keyed

LEMMA FromEntry ==
  ASSUME Inv, NEW c \in Readers, Keyed(c), entry[read[c].version] # None
  PROVE  /\ entry[read[c].version] \in Mutations
         /\ \A f \in Readers : Keyed(f) /\ read[f].version = read[c].version =>
              entry[read[c].version] >= read[f].since
<1>1. read[c].version \in Mutations
  BY ServedRead DEF Keyed
<1> QED
  BY <1>1 DEF Inv, TypeOK, EntriesNewEnough, NewEnough

LEMMA LookUpInv ==
  ASSUME Inv, NEW c \in Readers, ReadVersion(c) \/ Hit(c) \/ Miss(c) \/ Lead(c) \/ Follow(c)
  PROVE  Inv'
<1>1. CASE ReadVersion(c)
  <2>1. read[c] # None /\ "own" \in Stages
    BY <1>1 DEF ReadVersion, At, Stages
  <2>2. CASE GoTo(c, "own")
    BY <1>1, <2>1, <2>2, MoveInv DEF ReadVersion
  <2>3. CASE read' = [read EXCEPT ![c] = [@ EXCEPT !.at = "keyed", !.version = version]]
    BY <1>1, <2>3, KeyInv DEF ReadVersion
  <2> QED
    BY <1>1, <2>2, <2>3 DEF ReadVersion
<1>2. CASE Hit(c)
  <2>1. Keyed(c) /\ {c} \in SUBSET Readers /\ read[c] # None
    BY <1>2 DEF Hit, At, Keyed
  <2>2. entry[read[c].version] \in Mutations /\ entry[read[c].version] >= read[c].since
    BY <1>2, <2>1, FromEntry DEF Hit
  <2> QED
    BY <1>2, <2>1, <2>2, AnswerInv DEF Hit
<1>3. CASE Miss(c) \/ Lead(c) \/ Follow(c)
  <2>1. Keyed(c) /\ read[c] # None
    BY <1>3 DEF Miss, Lead, Follow, At, Keyed
  <2>2. {"missed", "leading", "waiting"} \subseteq Stages
    BY DEF Stages
  <2> QED
    BY <1>3, <2>1, <2>2, MoveInv DEF Miss, Lead, Follow
<1> QED
  BY <1>1, <1>2, <1>3

LEMMA HandleInv ==
  ASSUME Inv, NEW c \in Readers,
         LookAgain(c) \/ HandlerFails(c) \/ Uncacheable(c) \/ RunOwn(c) \/ EndRead(c)
  PROVE  Inv'
<1>1. CASE LookAgain(c)
  <2>1. Keyed(c) /\ read[c] # None
    BY <1>1 DEF LookAgain, At, Keyed
  <2>2. CASE GoTo(c, "running")
    <3>1. "running" \in Stages
      BY DEF Stages
    <3> QED
      BY <1>1, <2>1, <2>2, <3>1, MoveInv DEF LookAgain
  <2>3. CASE /\ entry[read[c].version] # None
             /\ Answer(Together(c), entry[read[c].version])
    <3>1. \A f \in Together(c) : read[f] # None /\ entry[read[c].version] >= read[f].since
      BY <2>1, <2>3, TogetherShareVersion, FromEntry
    <3>2. entry[read[c].version] \in Mutations /\ Together(c) \in SUBSET Readers
      BY <2>1, <2>3, TogetherShareVersion, FromEntry
    <3> QED
      BY <1>1, <2>3, <3>1, <3>2, AnswerInv DEF LookAgain
  <2> QED
    BY <1>1, <2>2, <2>3 DEF LookAgain
<1>2. CASE HandlerFails(c) \/ Uncacheable(c)
  <2>1. Keyed(c)
    BY <1>2 DEF HandlerFails, Uncacheable, At, Keyed
  <2>2. /\ Together(c) \in SUBSET Readers /\ c \in Together(c)
        /\ \A f \in Together(c) : read[f] # None
    BY <2>1, TogetherShareVersion
  <2> QED
    BY <1>2, <2>2, EndInv DEF HandlerFails, Uncacheable
<1>3. CASE RunOwn(c)
  <2>1. {c} \in SUBSET Readers /\ read[c] # None /\ data \in Mutations
    BY <1>3 DEF RunOwn, At, Inv, TypeOK
  <2>2. data >= read[c].since
    BY <2>1, ServedRead
  <2> QED
    BY <1>3, <2>1, <2>2, AnswerInv DEF RunOwn
<1>4. CASE EndRead(c)
  <2>1. {c} \in SUBSET Readers /\ read[c] # None
    BY <1>4 DEF EndRead, At
  <2>2. read' = [d \in Readers |-> IF d \in {c} THEN None ELSE read[d]]
    BY <1>4 DEF EndRead, Inv, TypeOK
  <2> QED
    BY <1>4, <2>1, <2>2, EndInv DEF EndRead
<1> QED
  BY <1>1, <1>2, <1>3, <1>4

(* The loaded data is new enough to be stored and to be answered. *)
LEMMA StoreInv == ASSUME Inv, NEW c \in Readers, Store(c) PROVE Inv'
<1>1. Keyed(c) /\ read[c] # None /\ At(c, "storing")
  BY DEF Store, At, Keyed
<1> DEFINE key == read[c].version
           value == read[c].value
<1>2. /\ key \in Mutations /\ value \in Mutations /\ NewEnough(key, value)
      /\ key <= version
  BY <1>1, ServedRead DEF Inv, LoadsNewEnough, VersionsInOrder
<1>3. /\ Together(c) \in SUBSET Readers
      /\ \A f \in Together(c) : read[f] # None /\ value >= read[f].since
  BY <1>1, <1>2, TogetherShareVersion DEF NewEnough
<1>4. \A d \in Readers : read'[d] # read[d] => read'[d].at = "answered" /\ read'[d].value = value
                                                /\ d \in Together(c)
                                                /\ read'[d].since = read[d].since
                                                /\ read'[d] \in Read
  <2> SUFFICES ASSUME NEW d \in Together(c)
               PROVE  LET new == [read[d] EXCEPT !.at = "answered", !.value = value]
                      IN  new.at = "answered" /\ new.value = value
                          /\ new.since = read[d].since /\ new \in Read
    BY <1>3 DEF Store, Answer
  <2>1. read[d] \in Read
    BY <1>3, ServedRead
  <2> QED
    BY <1>2, <2>1 DEF Read, Stages
<1>5. TypeOK'
  <2>1. read' \in [Readers -> Read \cup {None}]
    <3>1. \A d \in Readers : read'[d] \in Read \cup {None}
      BY <1>4 DEF Inv, TypeOK
    <3> QED
      BY <3>1 DEF Store, Answer
  <2>2. entry' \in [Mutations -> Mutations \cup {None}]
    BY <1>2 DEF Store, Inv, TypeOK
  <2> QED
    BY <2>1, <2>2 DEF Store, Inv, TypeOK, dbVars
<1>6. \A v \in Mutations : entry'[v] \in {entry[v]} \cup (IF v = key THEN {value} ELSE {})
  BY <1>2 DEF Store, Inv, TypeOK
<1>7. \A d \in Readers : Keyed(d)' => Keyed(d) /\ read'[d] = read[d]
  BY <1>4 DEF Keyed
<1>8. \A v, w : NewEnough(v, w) => NewEnough(v, w)'
  BY <1>7 DEF Store, NewEnough, dbVars
<1>9. CountersInOrder' /\ FreshAnswers'
  <2>1. \A d \in Readers : read'[d] # None => read'[d].since <= invalidated
    BY <1>3, <1>4 DEF Inv, CountersInOrder
  <2>2. \A d \in Readers : At(d, "answered")' => read'[d].value >= read'[d].since
    BY <1>3, <1>4 DEF Inv, FreshAnswers, At
  <2> QED
    BY <2>1, <2>2 DEF Store, Inv, CountersInOrder, FreshAnswers, dbVars
<1>10. VersionsInOrder'
  BY <1>2, <1>6, <1>7 DEF Store, Inv, VersionsInOrder, dbVars
<1>11. EntriesNewEnough'
  <2> SUFFICES ASSUME NEW v \in Mutations, NEW w, w = entry'[v], w # None
               PROVE  NewEnough(v, w)'
    BY DEF EntriesNewEnough, NewEnough
  <2>1. NewEnough(v, w)
    BY <1>2, <1>6 DEF Inv, EntriesNewEnough
  <2> QED
    BY <1>8, <2>1
<1>12. LoadsNewEnough'
  <2> SUFFICES ASSUME NEW d \in Readers, At(d, "storing")',
                      NEW v, v = read'[d].version, NEW w, w = read'[d].value
               PROVE  NewEnough(v, w)'
    BY DEF LoadsNewEnough, NewEnough
  <2>1. NewEnough(v, w)
    BY <1>4 DEF Inv, LoadsNewEnough, At
  <2> QED
    BY <1>8, <2>1
<1> QED
  BY <1>5, <1>9, <1>10, <1>11, <1>12 DEF Inv

LEMMA NextInv == Inv /\ [Next]_vars => Inv'
<1> SUFFICES ASSUME Inv, [Next]_vars PROVE Inv'
  OBVIOUS
<1>1. CASE Mutate
  BY <1>1, CommitInv, InvalidateInv, LeaveStaleInv DEF Mutate
<1>2. CASE \E c \in Readers : Serve(c)
  BY <1>2, LookUpInv, HandleInv, RunHandlerInv, StoreInv DEF Serve
<1>3. CASE \E c \in Readers, i \in Instances : BeginRead(c, i)
  BY <1>3, BeginReadInv
<1>4. CASE \E v \in Mutations : Expire(v)
  BY <1>4, ExpireInv
<1>5. CASE UNCHANGED vars
  BY <1>5 DEF vars, Inv, TypeOK, CountersInOrder, VersionsInOrder, EntriesNewEnough,
              LoadsNewEnough, NewEnough, FreshAnswers, At, Keyed
<1> QED
  BY <1>1, <1>2, <1>3, <1>4, <1>5 DEF Next

(* The inductive invariant: whatever is found or will be stored under a    *)
(* version is as new as that version.                                      *)
THEOREM InvHolds == Spec => []Inv
  BY InitInv, NextInv, PTL DEF Spec

(* A GET that begins after a mutation advanced the version never shows     *)
(* older data.                                                             *)
THEOREM AnswersAreFresh == Spec => []FreshAnswers
<1>1. Inv => FreshAnswers
  BY DEF Inv
<1> QED
  BY <1>1, InvHolds, PTL
=============================================================================
