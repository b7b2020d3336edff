------------------------ MODULE TokenValidatorProofs -------------------------
(***************************************************************************)
(* Proofs about the token validator (TokenValidator) for all key sets,     *)
(* tokens, and numbers of validations and rotations.                       *)
(*                                                                         *)
(* The argument: a search works on one key set, the one that the issuer    *)
(* served to the last refresh before the search began, and the keys it has *)
(* passed are RSA keys that did not verify the token when they were tried. *)
(***************************************************************************)
EXTENDS TokenValidator, TLAPS

Fields == {"pc", "token", "set", "i", "is", "latest", "wasExpired"}

(***************************************************************************)
(* What the search with locals r has found, if the tokens in `gone' have   *)
(* expired.                                                                *)
(***************************************************************************)
Working(r) == r.pc # "idle"

SetLatest(r, gone) ==
    Working(r) => r.set = r.latest /\ (r.wasExpired => r.token \in gone)

Fitting(r, j) == j \in DOMAIN r.set /\ r.set[j].id = r.token.key

Passed(r, gone) ==
    r.pc = "search" =>
        \A j \in DOMAIN r.set : j < r.i =>
            r.set[j].type = "RSA" /\ (Fitting(r, j) => r.token \in gone)

Signed(r) ==
    r.pc = "answered" /\ r.is # Inactive =>
        ~r.wasExpired /\ \E j \in DOMAIN r.set : Fitting(r, j) /\ r.set[j].type = "RSA"

Complete(r, gone) ==
    r.pc = "answered" /\ r.is = Inactive =>
        \A j \in DOMAIN r.set :
            Fitting(r, j) /\ (\A k \in 1..j : r.set[k].type = "RSA") => r.token \in gone

SearchInv(r, gone) == SetLatest(r, gone) /\ Passed(r, gone) /\ Signed(r) /\ Complete(r, gone)

(***************************************************************************)
(* The locals of a goroutine that validates.  The search stands at a key   *)
(* of its set or behind the last one, never further.                       *)
(***************************************************************************)
Locals(r) ==
    /\ r = [f \in Fields |-> r[f]]
    /\ r.pc \in {"search", "answered"}
    /\ r.token \in Tokens /\ r.set \in KeySets /\ r.latest \in KeySets
    /\ r.i \in 1..(Len(r.set) + 1)

Shape ==
    /\ cached \in KeySets /\ published \in KeySets
    /\ rotations \in 0..MaxRotations
    /\ expired \subseteq Tokens
    /\ cached = latest
    /\ v = [x \in Validations |-> v[x]]
    /\ \A x \in Validations : v[x] = Idle \/ Locals(v[x])

ValidatorInv == Shape /\ \A x \in Validations : SearchInv(v[x], expired)

LEMMA Sequences == \A set \in KeySets : Len(set) \in Nat /\ DOMAIN set = 1..Len(set)
BY TokenAssumption DEF TokenAssumption

----------------------------------------------------------------------------
LEMMA IdleValidation == Idle.pc = "idle" /\ \A gone : SearchInv(Idle, gone)
BY DEF Idle, SearchInv, SetLatest, Passed, Signed, Complete, Working

LEMMA MoreExpire ==
    ASSUME NEW r, NEW gone, NEW later, gone \subseteq later, SearchInv(r, gone)
    PROVE  SearchInv(r, later)
BY DEF SearchInv, SetLatest, Passed, Signed, Complete

(***************************************************************************)
(* A step of validation x keeps the invariant if the new locals fit.       *)
(***************************************************************************)
LEMMA ValidationStep ==
    ASSUME ValidatorInv, NEW x \in Validations, NEW r,
           v' = [v EXCEPT ![x] = r],
           r = Idle \/ Locals(r),
           UNCHANGED <<issuerVars, cached, latest>>,
           SearchInv(r, expired)
    PROVE  ValidatorInv'
<1>1. v'[x] = r /\ \A y \in Validations : y # x => v'[y] = v[y]
  BY DEF ValidatorInv, Shape
<1>2. Shape'
  BY <1>1 DEF ValidatorInv, Shape, issuerVars
<1>3. ASSUME NEW y \in Validations PROVE SearchInv(v[y], expired)'
  <2>1. expired' = expired
    BY DEF issuerVars
  <2>2. SearchInv(v'[y], expired)
    BY <1>1 DEF ValidatorInv
  <2> QED
    BY <2>1, <2>2
<1> QED
  BY <1>2, <1>3 DEF ValidatorInv

LEMMA StepFetch ==
    ASSUME ValidatorInv, NEW x \in Validations, NEW t \in Tokens, Fetch(x, t) PROVE ValidatorInv'
<1> DEFINE r == [pc |-> "search", token |-> t, set |-> cached, i |-> 1, is |-> Inactive,
                 latest |-> latest, wasExpired |-> t \in expired]
<1>1. v' = [v EXCEPT ![x] = r] /\ UNCHANGED <<issuerVars, cached, latest>>
  BY DEF Fetch
<1>2. /\ r = [f \in Fields |-> r[f]] /\ r.pc = "search" /\ r.set = cached /\ r.i = 1
      /\ r.latest = latest /\ r.token = t
  BY DEF Fields
<1>3. r.wasExpired <=> t \in expired
  OBVIOUS
<1> HIDE DEF r
<1>4. cached \in KeySets /\ cached = latest
  BY DEF ValidatorInv, Shape
<1>5. SetLatest(r, expired)
  BY <1>2, <1>3, <1>4 DEF SetLatest
<1>6. Passed(r, expired)
  BY <1>2, <1>4, Sequences DEF Passed
<1>7. SearchInv(r, expired)
  BY <1>2, <1>5, <1>6 DEF SearchInv, Signed, Complete
<1>8. Locals(r)
  <2>1. 1 \in 1..(Len(cached) + 1)
    BY <1>4, Sequences
  <2> QED
    BY <1>2, <1>4, <2>1 DEF Locals
<1> QED
  BY <1>1, <1>7, <1>8, ValidationStep

(***************************************************************************)
(* What holds of a search.                                                 *)
(***************************************************************************)
LEMMA Searching ==
    ASSUME ValidatorInv, NEW x \in Validations, v[x].pc = "search"
    PROVE  /\ Locals(v[x])
           /\ v[x] = [f \in Fields |-> v[x][f]]
           /\ v[x].set \in KeySets /\ v[x].i \in Nat \ {0}
           /\ Len(v[x].set) \in Nat /\ DOMAIN v[x].set = 1..Len(v[x].set)
           /\ SearchInv(v[x], expired)
<1>1. Locals(v[x]) /\ SearchInv(v[x], expired)
  BY IdleValidation DEF ValidatorInv, Shape
<1>2. v[x].set \in KeySets /\ v[x].i \in 1..(Len(v[x].set) + 1)
  BY <1>1 DEF Locals
<1>3. Len(v[x].set) \in Nat /\ DOMAIN v[x].set = 1..Len(v[x].set)
  BY <1>2, Sequences
<1>4. v[x].i \in Nat \ {0}
  BY <1>2, <1>3
<1> QED
  BY <1>1, <1>2, <1>3, <1>4 DEF Locals

LEMMA StepAnswer ==
    ASSUME ValidatorInv, NEW x \in Validations, NEW is, Answer(x, is), v[x].pc = "search",
           UNCHANGED <<issuerVars, cached, latest>>,
           is # Inactive =>
              /\ ~v[x].wasExpired
              /\ \E j \in DOMAIN v[x].set : Fitting(v[x], j) /\ v[x].set[j].type = "RSA",
           is = Inactive =>
              \A j \in DOMAIN v[x].set :
                 Fitting(v[x], j) /\ (\A k \in 1..j : v[x].set[k].type = "RSA") => v[x].token \in expired
    PROVE  ValidatorInv'
<1> DEFINE r == [v[x] EXCEPT !.pc = "answered", !.is = is]
<1>1. v' = [v EXCEPT ![x] = r]
  BY DEF Answer
<1>2. /\ r = [f \in Fields |-> r[f]] /\ r.pc = "answered" /\ r.is = is /\ r.set = v[x].set
      /\ r.i = v[x].i /\ r.latest = v[x].latest /\ r.token = v[x].token
      /\ r.wasExpired = v[x].wasExpired
  BY Searching DEF Fields
<1> HIDE DEF r
<1>3. SetLatest(r, expired)
  BY <1>2, Searching DEF SearchInv, SetLatest, Working
<1>4. Signed(r)
  BY <1>2 DEF Signed, Fitting
<1>5. Complete(r, expired)
  BY <1>2 DEF Complete, Fitting
<1>6. SearchInv(r, expired)
  BY <1>2, <1>3, <1>4, <1>5 DEF SearchInv, Passed
<1>7. Locals(r)
  BY <1>2, Searching DEF Locals
<1> QED
  BY <1>1, <1>6, <1>7, ValidationStep

LEMMA ClaimsNotInactive == \A claims : ClaimsAnswer(claims) # Inactive
BY DEF ClaimsAnswer, Active, Failed, Inactive

LEMMA StepTryKey ==
    ASSUME ValidatorInv, NEW x \in Validations, TryKey(x) PROVE ValidatorInv'
<1> DEFINE i == v[x].i
           set == v[x].set
           token == v[x].token
<1>1. v[x].pc = "search" /\ i <= Len(set) /\ UNCHANGED <<issuerVars, cached, latest>>
  BY DEF TryKey
<1>2. i \in DOMAIN set /\ DOMAIN set = 1..Len(set) /\ Len(set) \in Nat /\ i \in Nat \ {0}
  <2> DEFINE n == Len(set)
  <2>1. DOMAIN set = 1..n /\ n \in Nat /\ i \in Nat \ {0} /\ i <= n
    BY <1>1, Searching
  <2> HIDE DEF n, i, set
  <2>2. i \in 1..n
    BY <2>1
  <2> QED
    BY <2>1, <2>2 DEF n
<1>3. \A j \in DOMAIN set : j < i =>
          set[j].type = "RSA" /\ (Fitting(v[x], j) => token \in expired)
  BY <1>1, Searching DEF SearchInv, Passed
<1>4. v[x].wasExpired => token \in expired
  BY <1>1, Searching DEF SearchInv, SetLatest, Working
<1>5. CASE set[i].type # "RSA"
  <2>1. Answer(x, Inactive)
    BY <1>5 DEF TryKey
  <2>2. ASSUME NEW j \in DOMAIN set, Fitting(v[x], j), \A k \in 1..j : set[k].type = "RSA"
        PROVE  token \in expired
    <3>1. j < i
      BY <1>2, <1>5, <2>2
    <3> QED
      BY <1>3, <2>2, <3>1
  <2> QED
    BY <1>1, <2>1, <2>2, StepAnswer
<1>6. CASE set[i].type = "RSA" /\ Valid(token, set[i])
  <2>1. Answer(x, ClaimsAnswer(token.claims))
    BY <1>6 DEF TryKey
  <2>2. Fitting(v[x], i) /\ ~v[x].wasExpired
    BY <1>2, <1>4, <1>6 DEF Valid, Fitting
  <2> QED
    BY <1>1, <1>2, <1>6, <2>1, <2>2, ClaimsNotInactive, StepAnswer
<1>7. CASE set[i].type = "RSA" /\ ~Valid(token, set[i])
  <2> DEFINE r == [v[x] EXCEPT !.i = i + 1]
  <2>1. v' = [v EXCEPT ![x] = r]
    BY <1>1, <1>7, Searching DEF TryKey
  <2>2. /\ r = [f \in Fields |-> r[f]] /\ r.pc = "search" /\ r.set = set /\ r.i = i + 1
        /\ r.latest = v[x].latest /\ r.token = token /\ r.wasExpired = v[x].wasExpired
    BY <1>1, Searching DEF Fields
  <2> HIDE DEF r
  <2>3. SetLatest(r, expired)
    BY <1>1, <2>2, Searching DEF SearchInv, SetLatest, Working
  <2>4. Fitting(v[x], i) => token \in expired
    BY <1>7 DEF Valid, Fitting
  <2>5. ASSUME NEW j \in DOMAIN set, j < i + 1
        PROVE  set[j].type = "RSA" /\ (Fitting(v[x], j) => token \in expired)
    <3>1. CASE j < i
      BY <1>3, <3>1
    <3>2. CASE j = i
      BY <1>7, <2>4, <3>2
    <3> QED
      BY <1>2, <2>5, <3>1, <3>2
  <2>6. Passed(r, expired)
    BY <2>2, <2>5 DEF Passed, Fitting
  <2>7. SearchInv(r, expired)
    BY <2>2, <2>3, <2>6 DEF SearchInv, Signed, Complete
  <2>8. i + 1 \in 1..(Len(set) + 1)
    <3> DEFINE n == Len(set)
    <3>1. i \in Nat /\ n \in Nat /\ i <= n
      BY <1>1, <1>2
    <3> HIDE DEF n, i
    <3>2. i + 1 \in 1..(n + 1)
      BY <3>1
    <3> QED
      BY <3>2 DEF n
  <2>9. Locals(r)
    BY <1>1, <2>2, <2>8, Searching DEF Locals
  <2> QED
    BY <1>1, <2>1, <2>7, <2>9, ValidationStep
<1> QED
  BY <1>5, <1>6, <1>7

LEMMA StepNoKey ==
    ASSUME ValidatorInv, NEW x \in Validations, NoKey(x) PROVE ValidatorInv'
<1>1. /\ v[x].pc = "search" /\ v[x].i > Len(v[x].set) /\ Answer(x, Inactive)
      /\ UNCHANGED <<issuerVars, cached, latest>>
  BY DEF NoKey
<1>2. \A j \in DOMAIN v[x].set : j < v[x].i
  <2> DEFINE n == Len(v[x].set)
             i == v[x].i
  <2>1. DOMAIN v[x].set = 1..n /\ n \in Nat /\ i \in Nat /\ i > n
    BY <1>1, Searching
  <2> HIDE DEF n, i
  <2>2. \A j \in 1..n : j < i
    BY <2>1
  <2> QED
    BY <2>1, <2>2 DEF i
<1>3. \A j \in DOMAIN v[x].set : Fitting(v[x], j) => v[x].token \in expired
  BY <1>1, <1>2, Searching DEF SearchInv, Passed
<1> QED
  BY <1>1, <1>3, StepAnswer

LEMMA StepIssuer ==
    ASSUME ValidatorInv, Rotate \/ Refresh \/ (\E t \in Tokens : Expire(t)) PROVE ValidatorInv'
<1>1. v' = v /\ expired \subseteq expired'
  BY DEF Rotate, Refresh, Expire, issuerVars
<1>2. Shape'
  <2>1. rotations' \in 0..MaxRotations
    BY TokenAssumption DEF TokenAssumption, ValidatorInv, Shape, Rotate, Refresh, Expire, issuerVars
  <2>2. expired' \subseteq Tokens
    BY DEF ValidatorInv, Shape, Rotate, Refresh, Expire, issuerVars
  <2>3. cached' \in KeySets /\ published' \in KeySets /\ cached' = latest'
    BY DEF ValidatorInv, Shape, Rotate, Refresh, Expire, issuerVars
  <2> QED
    BY <1>1, <2>1, <2>2, <2>3 DEF ValidatorInv, Shape
<1>3. ASSUME NEW x \in Validations PROVE SearchInv(v[x], expired)'
  <2>1. SearchInv(v[x], expired')
    BY <1>1, MoreExpire DEF ValidatorInv
  <2> QED
    BY <1>1, <2>1
<1> QED
  BY <1>2, <1>3 DEF ValidatorInv

LEMMA NextValidator == ValidatorInv /\ [Next]_vars => ValidatorInv'
<1> SUFFICES ASSUME ValidatorInv, [Next]_vars PROVE ValidatorInv'
  OBVIOUS
<1>1. ASSUME NEW x \in Validations, Done(x) PROVE ValidatorInv'
  BY <1>1, IdleValidation, ValidationStep DEF Done
<1>2. ASSUME NEW x \in Validations, Introspect(x) PROVE ValidatorInv'
  BY <1>1, <1>2, StepTryKey, StepNoKey DEF Introspect
<1>3. CASE UNCHANGED vars
  BY <1>3 DEF vars, issuerVars, ValidatorInv, Shape
<1> QED
  BY <1>2, <1>3, StepFetch, StepIssuer DEF Next

LEMMA InitValidator == Init => ValidatorInv
BY IdleValidation, TokenAssumption DEF TokenAssumption, Init, ValidatorInv, Shape

THEOREM ValidatorInvariant == Spec => []ValidatorInv
BY InitValidator, NextValidator, PTL DEF Spec

(***************************************************************************)
(* The types: a search stands at a key of the set it works on, or right    *)
(* behind the last one, though the cached copy is replaced under it.       *)
(***************************************************************************)
THEOREM ValidatorTypeCorrect == Spec => []TypeOK
<1>1. ValidatorInv => TypeOK
  BY DEF ValidatorInv, Shape, Locals, TypeOK
<1> QED
  BY <1>1, ValidatorInvariant, PTL

(***************************************************************************)
(* A token is only found active if an RSA key of the set that the issuer   *)
(* served to the last refresh before the fetch has signed it.              *)
(***************************************************************************)
THEOREM ActiveTokensAreSigned == Spec => []ActiveIsSigned
<1>1. ValidatorInv => ActiveIsSigned
  <2> SUFFICES ASSUME ValidatorInv, NEW x \in Validations, Answered(x), v[x].is # Inactive
               PROVE  /\ \E key \in ToSet(v[x].latest) :
                            key.id = v[x].token.key /\ key.type = "RSA"
                      /\ ~v[x].wasExpired
    BY DEF ActiveIsSigned
  <2>1. SetLatest(v[x], expired) /\ Signed(v[x])
    BY DEF ValidatorInv, SearchInv
  <2>2. v[x].set = v[x].latest
    BY <2>1 DEF SetLatest, Working, Answered
  <2>3. PICK j \in DOMAIN v[x].set : Fitting(v[x], j) /\ v[x].set[j].type = "RSA"
    BY <2>1 DEF Signed, Answered
  <2>4. v[x].set[j] \in ToSet(v[x].set) /\ v[x].set[j].id = v[x].token.key
    BY <2>3 DEF ToSet, Fitting
  <2>5. ~v[x].wasExpired
    BY <2>1 DEF Signed, Answered
  <2> QED
    BY <2>2, <2>3, <2>4, <2>5
<1> QED
  BY <1>1, ValidatorInvariant, PTL

(***************************************************************************)
(* The search misses no key, but for those behind a key of another type.   *)
(***************************************************************************)
THEOREM SearchMissesNoKey == Spec => []SearchComplete
<1>1. ValidatorInv => SearchComplete
  BY DEF ValidatorInv, SearchInv, Complete, Fitting, SearchComplete, Answered
<1> QED
  BY <1>1, ValidatorInvariant, PTL
=============================================================================
