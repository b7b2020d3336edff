------------------------- MODULE WorkerAccessProofs -------------------------
(***************************************************************************)
(* Proofs about the access of workers (WorkerAccess): whom a handler acts  *)
(* for and how long a revoked key works, for every directory, any number   *)
(* of workers and changes, and every interleaving with updates.            *)
(***************************************************************************)
EXTENDS WorkerAccess, CacheStoreProofs

(***************************************************************************)
(* The steps of the composition are steps of the store or leave it alone,  *)
(* so what was proved about the store holds here.                          *)
(***************************************************************************)
CallStep ==
    \E x \in Workers :
        \/ \E kind \in Kinds : CallWithoutKey(x, kind) \/ \E key \in Keys : Call(x, kind, key)
        \/ Interceptor(x)
        \/ AuthorizeFails(x)
        \/ Return(x)

LEMMA CallStepKeeps == CallStep => UNCHANGED <<vars, gone>>
BY DEF CallStep, CallWithoutKey, Call, Called, Interceptor, RejectMissing, AuthorizeWorker,
       TakeAnswer, AuthorizeFails, Return

LEMMA AccessSteps ==
    [AccessNext]_allVars => StoreStep \/ CallStep \/ UNCHANGED <<vars, accessVars>>
BY DEF AccessNext, CallStep, allVars

LEMMA StoreInv == AccessSpec => []IInv
<1>1. AccessInit => IInv
  BY InitIInv DEF AccessInit
<1>2. IInv /\ [AccessNext]_allVars => IInv'
  <2>1. [AccessNext]_allVars => [Next]_vars
    BY AccessSteps, CallStepKeeps DEF StoreStep, Next
  <2> QED
    BY <2>1, NextType, NextWindow, NextFresh, NextSignal, NextStaleness DEF IInv
<1> QED
  BY <1>1, <1>2, PTL DEF AccessSpec

----------------------------------------------------------------------------
(* How long a row has been gone.                                           *)

(***************************************************************************)
(* The List call for the clusters of the current update is over.           *)
(***************************************************************************)
Listed == pc \in {"orgs", "orgUsers", "projects", "projectUsers", "build"}

InCache(r) ==
    \E key \in DOMAIN cache.clustersByRegistrationKey : r = cache.clustersByRegistrationKey[key]

(***************************************************************************)
(* A row is not gone as long as it is in the table, nor in the rest of an  *)
(* update that found it there.  A row in the cache has not been gone for   *)
(* longer than the cache is old.                                           *)
(***************************************************************************)
GoneInv ==
    /\ gone \in [ClusterRows -> 0..MaxAge]
    /\ \A r \in dir["clusters"] : gone[r] = 0
    /\ Listed => \A r \in resp["clusters"] : gone[r] = 0
    /\ synced => \A r \in ClusterRows : InCache(r) => gone[r] <= age

LEMMA TableRows ==
    ASSUME IInv
    PROVE  /\ dir["clusters"] \subseteq ClusterRows /\ resp["clusters"] \subseteq ClusterRows
           /\ age \in 0..MaxAge /\ MaxAge \in Nat \ {0}
BY CacheStoreAssumption DEF IInv, TypeOK, IsContents, Tables, ClusterRows

LEMMA CachedClusters ==
    ASSUME NEW m, NEW key \in DOMAIN Build(m).clustersByRegistrationKey
    PROVE  /\ Build(m).clustersByRegistrationKey[key] \in m.clusters
           /\ Build(m).clustersByRegistrationKey[key].registrationKey = key
<1>1. Build(m).clustersByRegistrationKey = ClustersByRegistrationKey(m)
  BY DEF Build
<1>2. PICK d \in m.clusters : d.registrationKey = key
  BY <1>1 DEF ClustersByRegistrationKey
<1>3. ClustersByRegistrationKey(m)[key] = CHOOSE c \in m.clusters : c.registrationKey = key
  BY <1>1 DEF ClustersByRegistrationKey
<1> QED
  BY <1>1, <1>2, <1>3

LEMMA StepGone == IInv /\ IInv' /\ GoneInv /\ StoreStep => GoneInv'
<1> SUFFICES ASSUME IInv, IInv', GoneInv, StoreStep PROVE GoneInv'
  OBVIOUS
<1>1. /\ age \in 0..MaxAge /\ age' \in 0..MaxAge /\ MaxAge \in Nat \ {0}
      /\ gone \in [ClusterRows -> 0..MaxAge]
      /\ dir["clusters"] \subseteq ClusterRows /\ dir'["clusters"] \subseteq ClusterRows
      /\ resp["clusters"] \subseteq ClusterRows /\ resp'["clusters"] \subseteq ClusterRows
  BY TableRows DEF GoneInv, IInv, TypeOK, IsContents, Tables, ClusterRows
<1>2. \A r \in ClusterRows :
         gone'[r] = IF r \in dir'["clusters"] THEN 0 ELSE IF SyncTick THEN Tick(gone[r]) ELSE gone[r]
  BY DEF StoreStep
<1>3. gone' \in [ClusterRows -> 0..MaxAge]
  <2>1. \A r \in ClusterRows : gone[r] \in 0..MaxAge
    BY <1>1
  <2>2. \A r \in ClusterRows : gone'[r] \in 0..MaxAge
    BY <1>1, <1>2, <2>1 DEF Tick
  <2>3. gone' = [r \in ClusterRows |-> gone'[r]]
    BY DEF StoreStep
  <2> HIDE DEF ClusterRows
  <2> QED
    BY <2>2, <2>3
<1>4. \A r \in dir'["clusters"] : gone'[r] = 0
  BY <1>1, <1>2
<1>5. CASE SyncTick
  <2>1. pc' = "apiKeys" /\ age' = Tick(age) /\ UNCHANGED <<cache, synced>>
    BY <1>5 DEF SyncTick, FirstCall
  <2>2. ~Listed'
    BY <2>1 DEF Listed
  <2>3. ASSUME NEW r \in ClusterRows, gone[r] <= age PROVE gone'[r] <= age'
    <3>1. gone[r] \in 0..MaxAge
      BY <1>1
    <3> QED
      BY <1>1, <1>2, <1>5, <2>1, <2>3, <3>1 DEF Tick
  <2>4. synced' => \A r \in ClusterRows : InCache(r)' => gone'[r] <= age'
    BY <2>1, <2>3 DEF GoneInv, InCache
  <2> QED
    BY <1>3, <1>4, <2>2, <2>4 DEF GoneInv
<1>6. CASE ~SyncTick
  <2>1. \A r \in ClusterRows : gone[r] \in Nat /\ (gone'[r] = 0 \/ gone'[r] = gone[r])
    BY <1>1, <1>2, <1>6
  <2>2. Listed' => \A r \in resp'["clusters"] : gone'[r] = 0
    <3>1. CASE List("clusters")
      <4>1. resp'["clusters"] = dir["clusters"] /\ dir' = dir
        BY <3>1 DEF List, dirVars, IInv, TypeOK, IsContents, Tables
      <4> QED
        BY <1>4, <4>1
    <3>2. ASSUME NEW t \in Tables \ {"clusters"}, List(t) PROVE Listed' => Listed
      BY <3>2 DEF List, NextCall, Listed, Tables
    <3>3. ASSUME NEW t \in Tables \ {"clusters"}, List(t)
          PROVE  resp'["clusters"] = resp["clusters"]
      BY <3>3 DEF List, IInv, TypeOK, IsContents, Tables
    <3>4. CASE Abandon \/ Publish
      BY <3>4 DEF Abandon, Publish, Listed
    <3>5. CASE DirChange \/ WaitForSyncOK
      BY <1>1, <2>1, <3>5 DEF DirChange, WaitForSyncOK, storeVars, GoneInv, Listed
    <3>6. \A r \in resp["clusters"] : Listed => gone'[r] = 0
      BY <1>1, <2>1 DEF GoneInv
    <3> QED
      BY <1>6, <3>1, <3>2, <3>3, <3>4, <3>5, <3>6
      DEF StoreStep, StoreNext, UpdateStep, ListFail, BuildFail
  <2>3. synced' => \A r \in ClusterRows : InCache(r)' => gone'[r] <= age'
    <3>1. CASE Publish
      <4>1. cache' = Build(resp) /\ age' = 0 /\ Listed
        BY <3>1 DEF Publish, Listed
      <4>2. ASSUME NEW r \in ClusterRows, InCache(r)' PROVE gone'[r] <= age'
        <5>1. r \in resp["clusters"]
          BY <4>1, <4>2, CachedClusters DEF InCache
        <5>2. gone[r] = 0
          BY <4>1, <5>1 DEF GoneInv
        <5> QED
          BY <2>1, <4>1, <5>2
      <4> QED
        BY <4>2
    <3>2. CASE ~Publish
      <4>1. UNCHANGED <<cache, synced, age>>
        BY <1>6, <3>2 DEF StoreStep, StoreNext, UpdateStep, ListFail, BuildFail, Abandon, List,
                          DirChange, WaitForSyncOK, storeVars
      <4>2. ASSUME NEW r \in ClusterRows, gone[r] <= age PROVE gone'[r] <= age'
        BY <1>1, <2>1, <4>1, <4>2
      <4> QED
        BY <4>1, <4>2 DEF GoneInv, InCache
    <3> QED
      BY <3>1, <3>2
  <2> QED
    BY <1>3, <1>4, <2>2, <2>3 DEF GoneInv
<1> QED
  BY <1>5, <1>6

LEMMA NextGone == IInv /\ IInv' /\ GoneInv /\ [AccessNext]_allVars => GoneInv'
<1> SUFFICES ASSUME IInv, IInv', GoneInv, [AccessNext]_allVars PROVE GoneInv'
  OBVIOUS
<1>1. CASE StoreStep
  BY <1>1, StepGone
<1>2. CASE UNCHANGED <<vars, gone>>
  <2>1. UNCHANGED <<dir, pc, resp, cache, synced, age, gone>>
    BY <1>2 DEF vars, dirVars, storeVars
  <2> QED
    BY <2>1 DEF GoneInv, Listed, InCache
<1> QED
  BY <1>1, <1>2, AccessSteps, CallStepKeeps DEF accessVars

LEMMA InitGone == AccessInit /\ IInv => GoneInv
<1> SUFFICES ASSUME AccessInit, IInv PROVE GoneInv
  OBVIOUS
<1>1. gone = [r \in ClusterRows |-> 0] /\ pc = "apiKeys" /\ synced = FALSE
  BY DEF AccessInit, Init, StoreInit, FirstCall
<1>2. gone \in [ClusterRows -> 0..MaxAge]
  BY <1>1, TableRows
<1> QED
  BY <1>1, <1>2, TableRows DEF GoneInv, Listed

----------------------------------------------------------------------------
(* What is known of a call.                                                *)

Values == {<<>>} \cup {<<key>> : key \in Keys \cup {NoKey}}

(***************************************************************************)
(* A call without a grant, and one with a grant that rests on a list of    *)
(* the table for the key of the call.                                      *)
(***************************************************************************)
Plain ==
    [pc : {"called", "denied", "unauthenticated", "permissionDenied", "internal"},
     kind : Kinds, values : Values]

Admitted ==
    [pc : {"granted", "handling", "internal"}, kind : Kinds, values : Values,
     info : ClusterRows, listed : SUBSET (SUBSET ClusterRows)]

Rightful(call) ==
    /\ call.info.registrationKey = Head(call.values)
    /\ \E rows \in call.listed : call.info \in rows

CallInv(call) == call = Idle \/ call \in Plain \/ (call \in Admitted /\ Rightful(call))

CallsInv == w = [x \in Workers |-> w[x]] /\ \A x \in Workers : CallInv(w[x])

LEMMA PlainMoves ==
    ASSUME NEW call \in Plain,
           NEW place \in {"denied", "unauthenticated", "permissionDenied", "internal"}
    PROVE  CallInv([call EXCEPT !.pc = place])
BY DEF Plain, CallInv

LEMMA AdmittedMoves ==
    ASSUME NEW call \in Admitted, Rightful(call), NEW place \in {"handling", "internal"}
    PROVE  CallInv([call EXCEPT !.pc = place])
<1> DEFINE next == [call EXCEPT !.pc = place]
<1>1. next \in Admitted
  BY DEF Admitted
<1>2. next.info = call.info /\ next.listed = call.listed /\ next.values = call.values
  BY DEF Admitted
<1> QED
  BY <1>1, <1>2 DEF CallInv, Rightful

LEMMA CallKinds ==
    ASSUME NEW call, CallInv(call)
    PROVE  /\ call.pc = "called" => call \in Plain
           /\ call.pc = "denied" => call \in Plain
           /\ call.pc \in {"granted", "handling"} => call \in Admitted /\ Rightful(call)
BY DEF CallInv, Idle, Plain, Admitted

(***************************************************************************)
(* What the cache has under a key was in a list of the table, which the    *)
(* update that published the cache had received.                           *)
(***************************************************************************)
LEMMA GrantedRow ==
    ASSUME IInv, synced, NEW key \in DOMAIN cache.clustersByRegistrationKey
    PROVE  LET row == cache.clustersByRegistrationKey[key]
           IN  /\ row.registrationKey = key
               /\ row \in ClusterRows
               /\ \E rows \in pubWindow["clusters"] : row \in rows
<1> DEFINE row == cache.clustersByRegistrationKey[key]
<1>1. DerivedFrom(cache, pubWindow)
  BY DEF IInv, CacheFresh
<1>2. PICK k \in pubWindow.apiKeys, cl \in pubWindow.clusters, o \in pubWindow.orgs,
           ou \in pubWindow.orgUsers, p \in pubWindow.projects, pu \in pubWindow.projectUsers :
        cache = Build([apiKeys |-> k, clusters |-> cl, orgs |-> o, orgUsers |-> ou,
                       projects |-> p, projectUsers |-> pu])
  BY <1>1 DEF DerivedFrom
<1>3. row \in cl /\ row.registrationKey = key
  BY <1>2, CachedClusters
<1>4. cl \subseteq ClusterRows
  BY DEF IInv, TypeOK, Tables, ClusterRows
<1> QED
  BY <1>3, <1>4

LEMMA GrantIsRightful ==
    ASSUME IInv, CallsInv, NEW x \in Workers, AuthorizeWorker(x) PROVE CallInv(w'[x])
<1> DEFINE token    == ExtractToken(w[x].values)
           clusters == cache.clustersByRegistrationKey
<1>1. w[x] \in Plain /\ synced /\ w[x].pc = "called"
  BY CallKinds DEF AuthorizeWorker, CallsInv
<1>2. CASE Move(x, "internal") \/ Move(x, "denied")
  <2>1. w'[x] \in {[w[x] EXCEPT !.pc = place] : place \in {"internal", "denied"}}
    BY <1>2 DEF Move, SetCall, CallsInv
  <2> QED
    BY <1>1, <2>1, PlainMoves
<1>3. CASE token \in DOMAIN clusters /\ Grant(x, clusters[token])
  <2> DEFINE row == clusters[token]
  <2>1. w'[x] = [pc |-> "granted", kind |-> w[x].kind, values |-> w[x].values, info |-> row,
                 listed |-> pubWindow["clusters"]]
    BY <1>3 DEF Grant, SetCall, CallsInv
  <2>2. /\ row.registrationKey = token /\ row \in ClusterRows
        /\ \E rows \in pubWindow["clusters"] : row \in rows
    BY <1>1, <1>3, GrantedRow
  <2>3. pubWindow["clusters"] \in SUBSET (SUBSET ClusterRows)
    BY DEF IInv, TypeOK, Tables, ClusterRows
  <2>4. w[x].kind \in Kinds /\ w[x].values \in Values
    BY <1>1 DEF Plain
  <2> HIDE DEF row
  <2>5. w'[x] \in Admitted
    BY <2>1, <2>2, <2>3, <2>4 DEF Admitted
  <2>6. Rightful(w'[x])
    BY <2>1, <2>2 DEF Rightful, ExtractToken
  <2> QED
    BY <2>5, <2>6 DEF CallInv
<1> QED
  BY <1>2, <1>3 DEF AuthorizeWorker

LEMMA StepCall ==
    ASSUME IInv, CallsInv, NEW x \in Workers,
           \/ \E kind \in Kinds : CallWithoutKey(x, kind) \/ \E key \in Keys : Call(x, kind, key)
           \/ Interceptor(x)
           \/ AuthorizeFails(x)
           \/ Return(x)
    PROVE  CallsInv'
<1> DEFINE Moved(place) == w' = [w EXCEPT ![x] = [w[x] EXCEPT !.pc = place]]
<1>1. (\E call : SetCall(x, call)) /\ CallInv(w'[x])
  <2>1. ASSUME NEW kind \in Kinds, CallWithoutKey(x, kind) \/ \E key \in Keys : Call(x, kind, key)
        PROVE  (\E call : SetCall(x, call)) /\ CallInv(w'[x])
    <3>1. PICK values \in Values : Called(x, kind, values)
      <4>1. CASE CallWithoutKey(x, kind)
        BY <4>1 DEF CallWithoutKey, Values
      <4>2. ASSUME NEW key \in Keys, Call(x, kind, key)
            PROVE  \E values \in Values : Called(x, kind, values)
        <5>1. Append(<<>>, key) = <<key>>
          OBVIOUS
        <5> QED
          BY <4>2, <5>1 DEF Call, AppendWorkerAuthorization, Values
      <4> QED
        BY <2>1, <4>1, <4>2
    <3>2. SetCall(x, [pc |-> "called", kind |-> kind, values |-> values])
      BY <3>1 DEF Called
    <3>3. w'[x] = [pc |-> "called", kind |-> kind, values |-> values]
      BY <3>2 DEF SetCall, CallsInv
    <3>4. w'[x] \in Plain
      BY <3>3 DEF Plain
    <3> QED
      BY <3>2, <3>4 DEF CallInv
  <2>2. CASE RejectMissing(x)
    <3>1. w[x] \in Plain /\ Move(x, "unauthenticated")
      BY <2>2, CallKinds DEF RejectMissing, CallsInv
    <3>2. w'[x] = [w[x] EXCEPT !.pc = "unauthenticated"]
      BY <3>1 DEF Move, SetCall, CallsInv
    <3> QED
      BY <3>1, <3>2, PlainMoves DEF Move
  <2>3. CASE AuthorizeWorker(x)
    BY <2>3, GrantIsRightful DEF AuthorizeWorker, Move, Grant
  <2>4. CASE TakeAnswer(x)
    <3>1. CASE w[x].pc = "denied" /\ Move(x, DeniedCode(w[x].kind))
      <4>1. w[x] \in Plain
        BY <3>1, CallKinds DEF CallsInv
      <4>2. w'[x] = [w[x] EXCEPT !.pc = DeniedCode(w[x].kind)]
        BY <3>1 DEF Move, SetCall, CallsInv
      <4>3. DeniedCode(w[x].kind) \in {"unauthenticated", "permissionDenied"}
        BY DEF DeniedCode
      <4> QED
        BY <3>1, <4>1, <4>2, <4>3, PlainMoves DEF Move
    <3>2. CASE w[x].pc = "granted" /\ Move(x, "handling")
      <4>1. w[x] \in Admitted /\ Rightful(w[x])
        BY <3>2, CallKinds DEF CallsInv
      <4>2. w'[x] = [w[x] EXCEPT !.pc = "handling"]
        BY <3>2 DEF Move, SetCall, CallsInv
      <4> QED
        BY <3>2, <4>1, <4>2, AdmittedMoves DEF Move
    <3> QED
      BY <2>4, <3>1, <3>2 DEF TakeAnswer
  <2>5. CASE AuthorizeFails(x)
    <3>1. w[x] \in Plain \/ (w[x] \in Admitted /\ Rightful(w[x]))
      BY <2>5, CallKinds DEF AuthorizeFails, CallsInv
    <3>2. w'[x] = [w[x] EXCEPT !.pc = "internal"]
      BY <2>5 DEF AuthorizeFails, Move, SetCall, CallsInv
    <3>3. CallInv(w'[x])
      BY <3>1, <3>2, PlainMoves, AdmittedMoves
    <3> QED
      BY <2>5, <3>3 DEF AuthorizeFails, Move
  <2>6. CASE Return(x)
    <3>1. w'[x] = Idle
      BY <2>6 DEF Return, SetCall, CallsInv
    <3> QED
      BY <2>6, <3>1 DEF Return, CallInv
  <2> QED
    BY <2>1, <2>2, <2>3, <2>4, <2>5, <2>6 DEF Interceptor
<1>2. \A y \in Workers : y # x => w'[y] = w[y]
  BY <1>1 DEF SetCall, CallsInv
<1>3. w' = [y \in Workers |-> w'[y]]
  BY <1>1 DEF SetCall, CallsInv
<1> QED
  BY <1>1, <1>2, <1>3 DEF CallsInv

LEMMA NextCalls == IInv /\ CallsInv /\ [AccessNext]_allVars => CallsInv'
<1> SUFFICES ASSUME IInv, CallsInv, [AccessNext]_allVars PROVE CallsInv'
  OBVIOUS
<1>1. CASE CallStep
  BY <1>1, StepCall DEF CallStep
<1>2. CASE w' = w
  BY <1>2 DEF CallsInv
<1> QED
  BY <1>1, <1>2, AccessSteps DEF StoreStep, accessVars

LEMMA InitCalls == AccessInit => CallsInv
BY DEF AccessInit, CallsInv, CallInv

----------------------------------------------------------------------------
(* The theorems.                                                           *)

AccessInv == IInv /\ GoneInv /\ CallsInv

(***************************************************************************)
(* Store, clocks and calls together keep their invariants.                 *)
(***************************************************************************)
THEOREM AccessInvariant == AccessSpec => []AccessInv
<1>1. AccessInit /\ IInv => GoneInv /\ CallsInv
  BY InitGone, InitCalls
<1>2. IInv /\ IInv' /\ GoneInv /\ CallsInv /\ [AccessNext]_allVars => GoneInv' /\ CallsInv'
  BY NextGone, NextCalls
<1> QED
  BY <1>1, <1>2, StoreInv, PTL DEF AccessSpec, AccessInv

(***************************************************************************)
(* Every state of calls and rows is well typed.                            *)
(***************************************************************************)
THEOREM AccessType == AccessSpec => []AccessTypeOK
<1>1. AccessInv => AccessTypeOK
  BY DEF AccessInv, GoneInv, CallsInv, CallInv, Plain, Admitted, AccessTypeOK
<1> QED
  BY <1>1, AccessInvariant, PTL

(***************************************************************************)
(* A handler acts for the cluster that was registered under the worker's   *)
(* own key when the cache was listed.                                      *)
(***************************************************************************)
THEOREM WorkersActForThemselves == AccessSpec => []ActsForOwnCluster
<1>1. AccessInv => ActsForOwnCluster
  BY CallKinds DEF AccessInv, CallsInv, Rightful, ActsForOwnCluster, Handling
<1> QED
  BY <1>1, AccessInvariant, PTL

(***************************************************************************)
(* A revoked key is granted no longer than the age of the cache says.      *)
(***************************************************************************)
THEOREM RevokedKeysLag == AccessSpec => RevocationLag
<1>1. ASSUME AccessInv, [AccessNext]_allVars, NEW x \in Workers,
             w[x].pc = "called", w'[x].pc = "granted"
      PROVE  gone[w'[x].info] <= age
  <2>1. AuthorizeWorker(x)
    <3>1. w' # w
      BY <1>1
    <3>2. CallStep
      BY <1>1, <3>1, AccessSteps DEF StoreStep, accessVars
    <3>3. PICK y \in Workers :
             \/ \E kind \in Kinds : CallWithoutKey(y, kind) \/ \E key \in Keys : Call(y, kind, key)
             \/ Interceptor(y)
             \/ AuthorizeFails(y)
             \/ Return(y)
      BY <3>2 DEF CallStep
    <3>4. \E call : SetCall(y, call)
      BY <3>3 DEF CallWithoutKey, Call, Called, Interceptor, RejectMissing, AuthorizeWorker,
                  TakeAnswer, AuthorizeFails, Return, Move, Grant
    <3>5. y = x
      BY <1>1, <3>4 DEF SetCall, AccessInv, CallsInv
    <3>6. w[x] \in Plain
      BY <1>1, CallKinds DEF AccessInv, CallsInv
    <3>7. ASSUME NEW place, Move(x, place) PROVE place = "granted"
      BY <1>1, <3>6, <3>7 DEF Move, SetCall, AccessInv, CallsInv, Plain
    <3>8. ~TakeAnswer(x) /\ ~AuthorizeFails(x) /\ ~RejectMissing(x)
      BY <1>1, <3>7 DEF TakeAnswer, AuthorizeFails, RejectMissing
    <3>9. ~Return(x)
      BY <1>1 DEF Return, Ended
    <3>10. \A kind \in Kinds : ~CallWithoutKey(x, kind) /\ \A key \in Keys : ~Call(x, kind, key)
      BY <1>1 DEF CallWithoutKey, Call, Called
    <3> QED
      BY <3>3, <3>5, <3>8, <3>9, <3>10 DEF Interceptor
  <2> DEFINE token == ExtractToken(w[x].values)
             row   == cache.clustersByRegistrationKey[token]
  <2>2. synced /\ ~Move(x, "internal") /\ ~Move(x, "denied")
    <3>1. w[x] \in Plain
      BY <1>1, CallKinds DEF AccessInv, CallsInv
    <3> QED
      BY <1>1, <2>1, <3>1 DEF AuthorizeWorker, Move, SetCall, AccessInv, CallsInv, Plain
  <2>3. token \in DOMAIN cache.clustersByRegistrationKey /\ Grant(x, row)
    BY <2>1, <2>2 DEF AuthorizeWorker
  <2>4. w'[x].info = row
    BY <1>1, <2>3 DEF Grant, SetCall, AccessInv, CallsInv
  <2>5. row \in ClusterRows /\ InCache(row)
    BY <1>1, <2>2, <2>3, GrantedRow DEF AccessInv, InCache
  <2> QED
    BY <1>1, <2>2, <2>4, <2>5 DEF AccessInv, GoneInv
<1>2. AccessInv /\ [AccessNext]_allVars =>
          [\A x \in Workers :
              w[x].pc = "called" /\ w'[x].pc = "granted" => gone[w'[x].info] <= age]_allVars
  BY <1>1
<1> QED
  BY <1>2, AccessInvariant, PTL DEF AccessSpec, RevocationLag
=============================================================================
