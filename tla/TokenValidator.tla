--------------------------- MODULE TokenValidator ---------------------------
(***************************************************************************)
(* The validator of ID tokens (server/internal/token/validator.go).  The   *)
(* issuer publishes a key set and rotates its keys.  The validator holds a *)
(* copy that jwk.AutoRefresh (external) replaces once an hour; a refresh   *)
(* that fails leaves the old copy.  TokenIntrospect takes the copy there   *)
(* is and tries its keys in order, one action per key, while the issuer,   *)
(* the refresh and the expiry of tokens go on.                             *)
(*                                                                         *)
(* A key is [id, type].  A token is [key, claims]: the key that signed it  *)
(* and a function from the names of its claims to values.                  *)
(***************************************************************************)
EXTENDS Integers, Sequences, SequencesExt

CONSTANTS
    KeySets,       \* the key sets the issuer may publish, as sequences
    Tokens,        \* the tokens that requests may bring
    Validations,   \* the goroutines that validate
    MaxRotations,  \* the number of rotations is bounded by this
    NotString      \* a claim of another type than string

VARIABLES
    published,     \* the key set that the issuer serves
    rotations,     \* the number of its changes
    expired,       \* the tokens that have expired
    cached,        \* the copy of the key set that AutoRefresh holds
    v,             \* v[x]: locals of TokenIntrospect in goroutine x
    (* History variable, read by the properties only. *)
    latest         \* the key set that the issuer served to the last refresh

issuerVars == <<published, rotations, expired>>
vars == <<issuerVars, cached, v, latest>>

ASSUME TokenAssumption ==
    /\ MaxRotations \in Nat
    /\ KeySets # {}
    /\ \A set \in KeySets : set \in Seq(ToSet(set))

----------------------------------------------------------------------------
(* The answers of TokenIntrospect.                                         *)

Inactive     == [err |-> FALSE, active |-> FALSE, email |-> ""]
Failed       == [err |-> TRUE, active |-> FALSE, email |-> ""]
Active(mail) == [err |-> FALSE, active |-> TRUE, email |-> mail]

(***************************************************************************)
(* The claim `name', or the claim "sub" where there is no such claim, is   *)
(* there and is a string.                                                  *)
(***************************************************************************)
ClaimName(claims, name) == IF name \in DOMAIN claims THEN name ELSE "sub"

HasClaim(claims, name) ==
    /\ ClaimName(claims, name) \in DOMAIN claims
    /\ claims[ClaimName(claims, name)] # NotString

getEmail(claims) == claims[ClaimName(claims, "email")]

(***************************************************************************)
(* What TokenIntrospect answers for a token that validate accepts.         *)
(***************************************************************************)
ClaimsAnswer(claims) ==
    IF HasClaim(claims, "email") /\ HasClaim(claims, "uid")
    THEN Active(getEmail(claims))
    ELSE Failed

(***************************************************************************)
(* jwt.Parse: the signature fits the key and the token has not expired.    *)
(***************************************************************************)
Valid(token, key) == token.key = key.id /\ token \notin expired

----------------------------------------------------------------------------
Idle == [pc |-> "idle"]

Init ==
    /\ published \in KeySets
    /\ rotations = 0
    /\ expired = {}
    /\ cached = published
    /\ v = [x \in Validations |-> Idle]
    /\ latest = published

(* The issuer and time.                                                    *)

Rotate ==
    /\ rotations < MaxRotations
    /\ published' \in KeySets \ {published}
    /\ rotations' = rotations + 1
    /\ UNCHANGED <<expired, cached, v, latest>>

Expire(t) ==
    /\ t \notin expired
    /\ expired' = expired \cup {t}
    /\ UNCHANGED <<published, rotations, cached, v, latest>>

\* Faulty variant: the key set is fetched once and never refreshed.
RefreshNever == FALSE /\ UNCHANGED vars

\* Faulty variant: the new keys are put behind the old ones.
RefreshAppends ==
    /\ cached' = cached \o published
    /\ latest' = published
    /\ UNCHANGED <<issuerVars, v>>

(***************************************************************************)
(* The refresh that NewValidator configures gets through to the issuer.    *)
(* One that does not changes nothing.                                      *)
(***************************************************************************)
Refresh ==
    /\ cached' = published
    /\ latest' = published
    /\ UNCHANGED <<issuerVars, v>>

----------------------------------------------------------------------------
(* TokenIntrospect                                                         *)

Answer(x, is) == v' = [v EXCEPT ![x] = [@ EXCEPT !.pc = "answered", !.is = is]]

(***************************************************************************)
(* Fetch returns the cached set; the search goes through that one.  The    *)
(* last two fields are history.                                            *)
(***************************************************************************)
Fetch(x, t) ==
    /\ v[x].pc = "idle"
    /\ v' = [v EXCEPT ![x] = [pc |-> "search", token |-> t, set |-> cached, i |-> 1,
                              is |-> Inactive,
                              latest |-> latest, wasExpired |-> t \in expired]]
    /\ UNCHANGED <<issuerVars, cached, latest>>

\* Faulty variant: each round takes its key from the set that is cached then.
TryKeyOfCurrentSet(x) ==
    /\ v[x].pc = "search"
    /\ v[x].i <= Len(cached)
    /\ LET key == cached[v[x].i]
       IN  IF key.type # "RSA" THEN Answer(x, Inactive)
           ELSE IF Valid(v[x].token, key) THEN Answer(x, ClaimsAnswer(v[x].token.claims))
           ELSE v' = [v EXCEPT ![x].i = @ + 1]
    /\ UNCHANGED <<issuerVars, cached, latest>>

(***************************************************************************)
(* One round of the loop.  A key that is not an RSA key ends it.           *)
(***************************************************************************)
TryKey(x) ==
    /\ v[x].pc = "search"
    /\ v[x].i <= Len(v[x].set)
    /\ LET key == v[x].set[v[x].i]
       IN  IF key.type # "RSA" THEN Answer(x, Inactive)
           ELSE IF Valid(v[x].token, key) THEN Answer(x, ClaimsAnswer(v[x].token.claims))
           ELSE v' = [v EXCEPT ![x].i = @ + 1]
    /\ UNCHANGED <<issuerVars, cached, latest>>

\* Faulty variant: the last key of the set is not tried.
NoKeyEarly(x) ==
    /\ v[x].pc = "search"
    /\ v[x].i >= Len(v[x].set)
    /\ Answer(x, Inactive)
    /\ UNCHANGED <<issuerVars, cached, latest>>

NoKey(x) ==
    /\ v[x].pc = "search"
    /\ v[x].i > Len(v[x].set)
    /\ Answer(x, Inactive)
    /\ UNCHANGED <<issuerVars, cached, latest>>

Done(x) ==
    /\ v[x].pc = "answered"
    /\ v' = [v EXCEPT ![x] = Idle]
    /\ UNCHANGED <<issuerVars, cached, latest>>

Introspect(x) == TryKey(x) \/ NoKey(x) \/ Done(x)

Next ==
    \/ Rotate
    \/ \E t \in Tokens : Expire(t)
    \/ Refresh
    \/ \E x \in Validations : Introspect(x) \/ \E t \in Tokens : Fetch(x, t)

(***************************************************************************)
(* One of the hourly refreshes gets through at last, and goroutines run.   *)
(***************************************************************************)
Fairness == WF_vars(Refresh) /\ \A x \in Validations : WF_vars(Introspect(x))

Spec == Init /\ [][Next]_vars /\ Fairness

----------------------------------------------------------------------------
(* Properties.                                                             *)

TypeOK ==
    /\ published \in KeySets /\ cached \in KeySets
    /\ rotations \in 0..MaxRotations
    /\ expired \subseteq Tokens /\ latest \in KeySets
    /\ \A x \in Validations :
          \/ v[x] = Idle
          \/ /\ v[x].pc \in {"search", "answered"}
             /\ v[x].token \in Tokens /\ v[x].set \in KeySets /\ v[x].latest \in KeySets
             /\ v[x].i \in 1..(Len(v[x].set) + 1)

Answered(x) == v[x].pc = "answered"

(***************************************************************************)
(* A token is only found active, or its claims looked at, if an RSA key of *)
(* the one set that the issuer served to the last refresh before the fetch *)
(* has signed it: no key of an older set counts, none of a set that comes  *)
(* in during the search, and no mixture of sets, however rotations,        *)
(* refreshes and the search interleave.  And it had not expired before the *)
(* search began.                                                           *)
(***************************************************************************)
ActiveIsSigned ==
    \A x \in Validations : Answered(x) /\ v[x].is # Inactive =>
        /\ \E key \in ToSet(v[x].latest) : key.id = v[x].token.key /\ key.type = "RSA"
        /\ ~v[x].wasExpired

(***************************************************************************)
(* A token signed by a key of the set is found wherever that key stands,   *)
(* unless a key of another type stands before it or the token expires      *)
(* during the search.                                                      *)
(***************************************************************************)
SearchComplete ==
    \A x \in {y \in Validations : Answered(y)} : \A i \in DOMAIN v[x].set :
        /\ v[x].is = Inactive
        /\ v[x].set[i].id = v[x].token.key
        /\ \A j \in 1..i : v[x].set[j].type = "RSA"
        => v[x].token \in expired

(***************************************************************************)
(* A key that the issuer has dropped for good is honoured only for a time: *)
(* from some moment on no token it has signed is found active.             *)
(***************************************************************************)
Serves(id) == \E key \in ToSet(published) : key.id = id

DroppedKeyRejected ==
    \A t \in Tokens :
        <>[]~Serves(t.key) =>
            <>[](\A x \in Validations : Answered(x) /\ v[x].token = t => v[x].is = Inactive)
=============================================================================
