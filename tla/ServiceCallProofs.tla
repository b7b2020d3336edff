------------------------- MODULE ServiceCallProofs -------------------------
(***************************************************************************)
(* Proofs about guarded calls (ServiceCall) for every number of handlers   *)
(* of the RBAC server, all calls and chains of every length.               *)
(*                                                                         *)
(* The invariant of the server, ServerInv, holds here as well: that the    *)
(* requests come from interceptors changes nothing in it.  What an         *)
(* interceptor takes from an answer it keeps as user info, together with   *)
(* the snapshots that the answer rests on; from then on the chain above it *)
(* may grow and shrink, but the hop itself only changes in fields that the *)
(* evidence does not depend on.                                            *)
(***************************************************************************)
EXTENDS ServiceCall, RbacServerProofs, SequenceTheorems

HopPcs ==
    {"arrived", "asking", "handling", "unauthenticated", "permissionDenied", "internal", "panicked"}

(***************************************************************************)
(* A handler runs for the project and the organization that the request    *)
(* names, if it runs for a user.                                           *)
(***************************************************************************)
AsAsked(hop) ==
    hop.info.apiKey = None => ActsInProject(hop, First(hop.headers.org), First(hop.headers.project))

HopFields == {"pc", "kind", "method", "headers", "asked", "info", "called", "seen"}

HopOK(hop) ==
    /\ hop = [f \in HopFields |-> hop[f]]
    /\ hop.pc \in HopPcs
    /\ hop.seen \subseteq Snapshots
    /\ Headers \subseteq DOMAIN hop.headers
    /\ hop.method.verb \notin (IF hop.kind = "http" THEN {"Get", "List"} ELSE {"GET"})
    /\ Guarded(hop) => Evidence(hop.seen, AuthorizeRequest(hop), hop.info) /\ AsAsked(hop)
    /\ hop.pc = "panicked" => NilFunction(hop.kind)

(***************************************************************************)
(* Hops of a chain carry the same first values of the three headers.       *)
(***************************************************************************)
SameHeaders(hop, first) == \A k \in Headers : First(hop.headers[k]) = First(first.headers[k])

Calling(hop) == hop.pc = "handling" /\ hop.called

ChainInv ==
    /\ icept \in Configs /\ ~ConfigError(icept)
    /\ hops \in Seq(Range(hops))
    /\ Len(hops) <= MaxHops
    /\ \A i \in 1..Len(hops) : HopOK(hops[i]) /\ SameHeaders(hops[i], hops[1])
    /\ \A i \in 1..Len(hops) : i < Len(hops) => Calling(hops[i])

(***************************************************************************)
(* An interceptor that waits for an answer waits for that to its request.  *)
(***************************************************************************)
Serving(x, req) ==
    /\ x \in Handlers
    /\ h[x].pc # "idle"
    /\ h[x].req = req
    /\ Invalid(req) => h[x].pc = "replied" /\ ~h[x].resp.authorized

AskedInv == Active("asking") => Serving(Top.asked, AuthorizeRequest(Top))

CallInv == ServerInv /\ ChainInv /\ AskedInv

----------------------------------------------------------------------------
(* Chains as sequences.                                                    *)

LEMMA FrontOf ==
    ASSUME NEW S, NEW s \in Seq(S), Len(s) >= 1
    PROVE  /\ Front(s) \in Seq(S) /\ Len(Front(s)) = Len(s) - 1
           /\ \A i \in 1..Len(s)-1 : Front(s)[i] = s[i]
<1>1. Len(s) \in Nat /\ Len(s) - 1 \in Int /\ \A i \in 1..Len(s)-1 : s[i] \in S
  BY LenProperties, ElementOfSeq
<1>2. /\ SubSeq(s, 1, Len(s)-1) \in Seq(S)
      /\ Len(SubSeq(s, 1, Len(s)-1)) = IF 1 <= Len(s)-1 THEN (Len(s)-1)-1+1 ELSE 0
      /\ \A i \in 1..(Len(s)-1)-1+1 : SubSeq(s, 1, Len(s)-1)[i] = s[1+i-1]
  BY <1>1, SubSeqProperties
<1>3. (Len(s)-1)-1+1 = Len(s)-1 /\ \A i \in 1..Len(s)-1 : 1+i-1 = i
  BY <1>1
<1> QED
  BY <1>1, <1>2, <1>3 DEF Front

LEMMA Replaced ==
    ASSUME NEW s, s \in Seq(Range(s)), s # <<>>, NEW e
    PROVE  LET t == Front(s) \o <<e>>
           IN  /\ t \in Seq(Range(t)) /\ Len(t) = Len(s) /\ t # <<>> /\ Last(t) = e
               /\ \A i \in 1..Len(s) : t[i] = IF i = Len(s) THEN e ELSE s[i]
<1> DEFINE S == Range(s) \cup {e}
           t == Front(s) \o <<e>>
<1>1. s \in Seq(S) /\ <<e>> \in Seq(S) /\ Len(<<e>>) = 1 /\ <<e>>[1] = e
  BY SeqMonotonic
<1>2. Len(s) \in Nat /\ Len(s) >= 1
  BY LenProperties, EmptySeq
<1>3. /\ Front(s) \in Seq(S) /\ Len(Front(s)) = Len(s) - 1
      /\ \A i \in 1..Len(s)-1 : Front(s)[i] = s[i]
  BY <1>1, <1>2, FrontOf
<1>4. t \in Seq(S) /\ Len(t) = Len(s)
      /\ \A i \in 1..Len(s) : t[i] = IF i = Len(s) THEN e ELSE s[i]
  BY <1>1, <1>2, <1>3
<1> HIDE DEF t
<1>5. t \in Seq(Range(t))
  BY <1>4, SeqOfRange
<1>6. t # <<>> /\ Last(t) = e
  BY <1>2, <1>4 DEF Last
<1> QED
  BY <1>4, <1>5, <1>6 DEF t

LEMMA Popped ==
    ASSUME NEW s, s \in Seq(Range(s)), s # <<>>
    PROVE  LET t == Front(s)
           IN  /\ t \in Seq(Range(t)) /\ Len(t) = Len(s) - 1
               /\ \A i \in 1..Len(t) : t[i] = s[i]
<1>1. Len(s) \in Nat /\ Len(s) >= 1
  BY LenProperties, EmptySeq
<1>2. /\ Front(s) \in Seq(Range(s)) /\ Len(Front(s)) = Len(s) - 1
      /\ \A i \in 1..Len(s)-1 : Front(s)[i] = s[i]
  BY <1>1, FrontOf
<1>3. Front(s) \in Seq(Range(Front(s)))
  BY <1>2, SeqOfRange
<1> QED
  BY <1>2, <1>3

LEMMA Pushed ==
    ASSUME NEW s, s \in Seq(Range(s)), s # <<>>, NEW e, NEW f
    PROVE  LET t == Front(s) \o <<e, f>>
           IN  /\ t \in Seq(Range(t)) /\ Len(t) = Len(s) + 1 /\ t # <<>> /\ Last(t) = f
               /\ \A i \in 1..Len(s) : t[i] = IF i = Len(s) THEN e ELSE s[i]
               /\ t[Len(s) + 1] = f
<1> DEFINE S == Range(s) \cup {e, f}
           t == Front(s) \o <<e, f>>
<1>1. /\ s \in Seq(S) /\ <<e, f>> \in Seq(S) /\ Len(<<e, f>>) = 2
      /\ <<e, f>>[1] = e /\ <<e, f>>[2] = f
  BY SeqMonotonic
<1>2. Len(s) \in Nat /\ Len(s) >= 1
  BY LenProperties, EmptySeq
<1>3. /\ Front(s) \in Seq(S) /\ Len(Front(s)) = Len(s) - 1
      /\ \A i \in 1..Len(s)-1 : Front(s)[i] = s[i]
  BY <1>1, <1>2, FrontOf
<1>4. /\ t \in Seq(S) /\ Len(t) = Len(s) + 1
      /\ \A i \in 1..Len(s) : t[i] = IF i = Len(s) THEN e ELSE s[i]
      /\ t[Len(s) + 1] = f
  BY <1>1, <1>2, <1>3
<1> HIDE DEF t
<1>5. t \in Seq(Range(t))
  BY <1>4, SeqOfRange
<1>6. t # <<>> /\ Last(t) = f
  BY <1>2, <1>4 DEF Last
<1> QED
  BY <1>4, <1>5, <1>6 DEF t

LEMMA Started ==
    ASSUME NEW e
    PROVE  LET t == <<e>>
           IN  t \in Seq(Range(t)) /\ Len(t) = 1 /\ t # <<>> /\ Last(t) = e /\ t[1] = e
<1>1. <<e>> \in Seq({e}) /\ Len(<<e>>) = 1 /\ <<e>>[1] = e
  OBVIOUS
<1> QED
  BY <1>1, SeqOfRange DEF Last

(***************************************************************************)
(* The last hop of a chain.                                                *)
(***************************************************************************)
LEMMA TheTop ==
    ASSUME ChainInv, hops # <<>>
    PROVE  /\ Len(hops) \in 1..MaxHops /\ DOMAIN hops = 1..Len(hops)
           /\ Top = hops[Len(hops)] /\ HopOK(Top) /\ SameHeaders(Top, hops[1])
<1>1. Len(hops) \in Nat /\ Len(hops) >= 1 /\ DOMAIN hops = 1..Len(hops)
  BY LenProperties, EmptySeq DEF ChainInv
<1> QED
  BY <1>1, CallAssumption DEF ChainInv, Top, Last

----------------------------------------------------------------------------
(* The server does not notice who sends the requests.                      *)

LEMMA InitCallServer == Init => ServerInv
BY InitServer DEF Init

LEMMA CallServer == ServerInv /\ [Next]_allVars => ServerInv'
<1> SUFFICES ASSUME ServerInv, [Next]_allVars PROVE ServerInv'
  OBVIOUS
<1>1. UNCHANGED serverVars => ServerInv'
  BY DEF serverVars, snapshotVars, ServerInv, Shape, CacheSeen
<1>2. ASSUME NEW x \in Handlers, Done(x) PROVE ServerInv'
  BY <1>2, StepDone
<1>3. ASSUME NEW x \in Handlers, Ask(x) PROVE ServerInv'
  BY <1>3, StepReceive DEF Ask
<1>4. ASSUME NEW x \in Handlers, Interceptor(x) PROVE ServerInv'
  BY <1>1, <1>2, <1>3, <1>4
  DEF Interceptor, PassExcluded, RejectUnauthenticated, CallNilFunction, Unreachable, TakeAnswer,
      DropAnswer
<1>5. ASSUME NEW x \in Handlers, Server(x) PROVE ServerInv'
  BY <1>5, ServeStep DEF Server
<1>6. ASSUME NEW c, Arrive(c) PROVE ServerInv'
  BY <1>1, <1>6 DEF Arrive
<1>7. ASSUME NEW m, CallOn(m) PROVE ServerInv'
  BY <1>1, <1>7 DEF CallOn
<1>8. CallFails \/ Return \/ UNCHANGED allVars => ServerInv'
  BY <1>1 DEF CallFails, Return, allVars
<1> QED
  BY <1>4, <1>5, <1>6, <1>7, <1>8, StepPublish DEF Next

----------------------------------------------------------------------------
(* Steps of a chain.                                                       *)

(***************************************************************************)
(* What an interceptor asks does not depend on how far it has come.        *)
(***************************************************************************)
LEMMA SameRequest ==
    ASSUME NEW hop, NEW e,
           e.kind = hop.kind, e.method = hop.method, e.headers = hop.headers
    PROVE  AuthorizeRequest(e) = AuthorizeRequest(hop) /\ (Excluded(e) <=> Excluded(hop))
BY DEF AuthorizeRequest, Resource, ResourceFunction, Capability, Excluded

LEMMA SameConfig ==
    ASSUME UNCHANGED icept
    PROVE  /\ \A i : HopOK(hops[i])' <=> HopOK(hops'[i])
           /\ AuthorizeRequest(Top)' = AuthorizeRequest(Top')
BY DEF HopOK, Guarded, Excluded, AsAsked, AuthorizeRequest, Resource, ResourceFunction,
       Capability, NilFunction

LEMMA TopChanges ==
    ASSUME ChainInv, hops # <<>>, NEW e, SetTop(e), UNCHANGED icept,
           HopOK(e), e.headers = Top.headers
    PROVE  ChainInv' /\ hops' # <<>> /\ Top' = e
<1>1. /\ Len(hops) \in 1..MaxHops /\ MaxHops \in Nat
      /\ Top = hops[Len(hops)] /\ SameHeaders(Top, hops[1])
  BY TheTop, CallAssumption
<1>2. /\ hops' \in Seq(Range(hops')) /\ Len(hops') = Len(hops) /\ hops' # <<>> /\ Last(hops') = e
      /\ \A i \in 1..Len(hops) : hops'[i] = IF i = Len(hops) THEN e ELSE hops[i]
  BY Replaced DEF SetTop, ChainInv
<1>3. SameHeaders(e, Top) /\ SameHeaders(Top, e)
  BY DEF SameHeaders
<1>4. ASSUME NEW i \in 1..Len(hops') PROVE HopOK(hops[i])' /\ SameHeaders(hops'[i], hops'[1])
  <2>1. HopOK(hops'[i])
    BY <1>2, <1>4 DEF ChainInv
  <2>2. \A j \in 1..Len(hops) : SameHeaders(hops'[j], hops[j]) /\ SameHeaders(hops[j], hops'[j])
    BY <1>1, <1>2, <1>3 DEF SameHeaders
  <2>3. SameHeaders(hops'[i], hops[i]) /\ SameHeaders(hops[i], hops[1])
        /\ SameHeaders(hops[1], hops'[1])
    BY <1>1, <1>2, <1>4, <2>2 DEF ChainInv
  <2>4. SameHeaders(hops'[i], hops'[1])
    BY <2>3 DEF SameHeaders
  <2>5. HopOK(hops[i])'
    BY <2>1, SameConfig
  <2> QED
    BY <2>4, <2>5
<1>5. ASSUME NEW i \in 1..Len(hops'), i < Len(hops') PROVE Calling(hops'[i])
  BY <1>1, <1>2, <1>5 DEF ChainInv
<1>6. ChainInv'
  BY <1>1, <1>2, <1>4, <1>5 DEF ChainInv, SameHeaders, Calling
<1> QED
  BY <1>2, <1>6 DEF Top

LEMMA ChainGrows ==
    ASSUME ChainInv, hops # <<>>, Len(hops) < MaxHops, UNCHANGED icept,
           NEW e, Calling(e), HopOK(e), e.headers = Top.headers,
           NEW f, HopOK(f), SameHeaders(f, Top),
           hops' = Front(hops) \o <<e, f>>
    PROVE  ChainInv' /\ hops' # <<>> /\ Top' = f
<1>1. /\ Len(hops) \in 1..MaxHops /\ MaxHops \in Nat
      /\ Top = hops[Len(hops)] /\ SameHeaders(Top, hops[1])
  BY TheTop, CallAssumption
<1>2. /\ hops' \in Seq(Range(hops')) /\ Len(hops') = Len(hops) + 1 /\ hops' # <<>>
      /\ Last(hops') = f
      /\ \A i \in 1..Len(hops) : hops'[i] = IF i = Len(hops) THEN e ELSE hops[i]
      /\ hops'[Len(hops) + 1] = f
  BY Pushed DEF ChainInv
<1>3. SameHeaders(e, hops[1]) /\ SameHeaders(f, hops[1]) /\ SameHeaders(hops[1], hops'[1])
  <2>1. SameHeaders(e, hops[1]) /\ SameHeaders(hops[1], e)
    BY <1>1 DEF SameHeaders
  <2>2. SameHeaders(f, hops[1])
    BY <1>1 DEF SameHeaders
  <2>3. hops'[1] = e \/ hops'[1] = hops[1]
    BY <1>1, <1>2
  <2>4. SameHeaders(hops[1], hops'[1])
    BY <2>1, <2>3 DEF SameHeaders
  <2> QED
    BY <2>1, <2>2, <2>4
<1>4. ASSUME NEW i \in 1..Len(hops') PROVE HopOK(hops[i])' /\ SameHeaders(hops'[i], hops'[1])
  <2>1. \/ hops'[i] = e \/ hops'[i] = f
        \/ i \in 1..Len(hops) /\ hops'[i] = hops[i]
    BY <1>1, <1>2, <1>4
  <2>2. HopOK(hops'[i]) /\ SameHeaders(hops'[i], hops[1])
    BY <1>3, <2>1 DEF ChainInv
  <2>3. SameHeaders(hops'[i], hops'[1])
    BY <1>3, <2>2 DEF SameHeaders
  <2> QED
    BY <2>2, <2>3, SameConfig
<1>5. ASSUME NEW i \in 1..Len(hops'), i < Len(hops') PROVE Calling(hops'[i])
  BY <1>1, <1>2, <1>5 DEF ChainInv
<1>6. ChainInv'
  <2>1. Len(hops') <= MaxHops /\ (icept \in Configs /\ ~ConfigError(icept))'
    BY <1>1, <1>2 DEF ChainInv, ConfigError
  <2>2. \A i \in 1..Len(hops') : SameHeaders(hops[i], hops[1])'
    BY <1>4 DEF SameHeaders
  <2>3. \A i \in 1..Len(hops') : i < Len(hops') => Calling(hops[i])'
    BY <1>5 DEF Calling
  <2> QED
    BY <1>2, <1>4, <2>1, <2>2, <2>3 DEF ChainInv
<1> QED
  BY <1>2, <1>6 DEF Top

LEMMA ChainShrinks ==
    ASSUME ChainInv, hops # <<>>, hops' = Front(hops), UNCHANGED icept
    PROVE  ChainInv' /\ (hops' # <<>> => Top'.pc = "handling")
<1>1. Len(hops) \in 1..MaxHops /\ MaxHops \in Nat
  BY TheTop, CallAssumption
<1>2. /\ hops' \in Seq(Range(hops')) /\ Len(hops') = Len(hops) - 1
      /\ \A i \in 1..Len(hops') : hops'[i] = hops[i]
  BY Popped DEF ChainInv
<1>3. ASSUME NEW i \in 1..Len(hops')
      PROVE  /\ HopOK(hops[i])' /\ SameHeaders(hops'[i], hops'[1])
             /\ Calling(hops'[i])
  <2>1. i \in 1..Len(hops) /\ i < Len(hops) /\ hops'[i] = hops[i] /\ hops'[1] = hops[1]
    BY <1>1, <1>2, <1>3
  <2>2. HopOK(hops'[i])
    BY <2>1 DEF ChainInv
  <2> QED
    BY <2>1, <2>2, SameConfig DEF ChainInv
<1>4. ChainInv'
  BY <1>1, <1>2, <1>3 DEF ChainInv, SameHeaders, Calling
<1>5. ASSUME hops' # <<>> PROVE Top'.pc = "handling"
  <2>1. Len(hops') \in 1..Len(hops')
    BY <1>2, <1>5, LenProperties, EmptySeq
  <2> QED
    BY <1>3, <2>1 DEF Top, Last, Calling
<1> QED
  BY <1>4, <1>5

LEMMA ChainStarts ==
    ASSUME ChainInv, NEW e, HopOK(e), hops' = <<e>>, UNCHANGED icept
    PROVE  ChainInv' /\ Top' = e
<1>1. /\ hops' \in Seq(Range(hops')) /\ Len(hops') = 1 /\ Last(hops') = e /\ hops'[1] = e
  BY Started
<1>2. MaxHops \in Nat /\ 1 <= MaxHops
  BY CallAssumption
<1>3. ASSUME NEW i \in 1..Len(hops') PROVE HopOK(hops[i])' /\ SameHeaders(hops'[i], hops'[1])
  <2>1. hops'[i] = e /\ i = 1
    BY <1>1, <1>3
  <2> QED
    BY <2>1, SameConfig DEF SameHeaders
<1>4. ChainInv'
  BY <1>1, <1>2, <1>3 DEF ChainInv, SameHeaders, Calling
<1> QED
  BY <1>1, <1>4 DEF Top

(***************************************************************************)
(* A hop that has just arrived.                                            *)
(***************************************************************************)
LEMMA NewHop ==
    ASSUME NEW kind, NEW method, NEW headers,
           Headers \subseteq DOMAIN headers,
           method.verb \notin (IF kind = "http" THEN {"Get", "List"} ELSE {"GET"})
    PROVE  LET hop == Hop(kind, method, headers)
           IN  HopOK(hop) /\ hop.pc = "arrived" /\ hop.headers = headers
BY DEF Hop, HopOK, HopFields, HopPcs, Guarded

LEMMA StepArrive ==
    ASSUME ChainInv, NEW c \in Calls, Arrive(c)
    PROVE  ChainInv' /\ ~Active("asking")'
<1> DEFINE e == Hop(c.kind, c.method, Received(c))
<1>1. Headers \subseteq DOMAIN c.headers
      /\ c.method.verb \notin (IF c.kind = "http" THEN {"Get", "List"} ELSE {"GET"})
  BY CallAssumption
<1>2. Headers \subseteq DOMAIN Received(c)
  BY <1>1 DEF Received
<1>3. HopOK(e) /\ e.pc = "arrived"
  BY <1>1, <1>2, NewHop
<1>4. hops' = <<e>> /\ UNCHANGED icept
  BY DEF Arrive
<1> HIDE DEF e
<1>5. ChainInv' /\ Top' = e
  BY <1>3, <1>4, ChainStarts
<1> QED
  BY <1>3, <1>5 DEF Active, Top

LEMMA StepCallOn ==
    ASSUME ChainInv, NEW m \in InnerMethods, CallOn(m)
    PROVE  ChainInv' /\ ~Active("asking")'
<1> DEFINE e == [Top EXCEPT !.called = TRUE]
           headers == CarryMetadata(Top.headers)
           f == Hop("grpc", m, headers)
<1>1. /\ hops # <<>> /\ Top.pc = "handling" /\ Len(hops) < MaxHops
      /\ hops' = Front(hops) \o <<e, f>> /\ UNCHANGED icept
  BY DEF CallOn, Active, Top
<1>2. HopOK(Top)
  BY <1>1, TheTop
<1>3. /\ e = [k \in HopFields |-> e[k]] /\ e.called = TRUE
      /\ \A k \in HopFields \ {"called"} : e[k] = Top[k]
  BY <1>2 DEF HopOK, HopFields
<1> HIDE DEF e
<1>4. /\ e.pc = Top.pc /\ e.kind = Top.kind /\ e.method = Top.method /\ e.headers = Top.headers
      /\ e.info = Top.info /\ e.seen = Top.seen
  BY <1>3 DEF HopFields
<1>5. AuthorizeRequest(e) = AuthorizeRequest(Top) /\ (Excluded(e) <=> Excluded(Top))
  BY <1>4, SameRequest
<1>6. HopOK(e) /\ Calling(e)
  BY <1>1, <1>2, <1>3, <1>4, <1>5 DEF HopOK, Calling, Guarded, AsAsked, ActsInProject
<1>7. Headers \subseteq DOMAIN headers /\ \A k \in Headers : headers[k] = OnlyFirst(Top.headers[k])
  BY <1>2 DEF HopOK, CarryMetadata
<1> HIDE DEF headers
<1>8. \A values : First(OnlyFirst(values)) = First(values)
  BY DEF First, OnlyFirst
<1>9. HopOK(f) /\ f.pc = "arrived" /\ f.headers = headers
  BY <1>7, NewHop, CallAssumption
<1> HIDE DEF f
<1>10. SameHeaders(f, Top)
  BY <1>7, <1>8, <1>9 DEF SameHeaders
<1>11. ChainInv' /\ Top' = f
  BY <1>1, <1>4, <1>6, <1>9, <1>10, ChainGrows
<1> QED
  BY <1>9, <1>11 DEF Active, Top

LEMMA StepReturn ==
    ASSUME ChainInv, Return
    PROVE  ChainInv' /\ ~Active("asking")'
<1>1. hops # <<>> /\ hops' = Front(hops) /\ UNCHANGED icept
  BY DEF Return
<1>2. ChainInv' /\ (hops' # <<>> => Top'.pc = "handling")
  BY <1>1, ChainShrinks
<1> QED
  BY <1>2 DEF Active, Top

(***************************************************************************)
(* The interceptor of the last hop gives up, or has nothing to ask.        *)
(***************************************************************************)
LEMMA TopEnds ==
    ASSUME ChainInv, hops # <<>>, NEW pc \in HopPcs \ {"asking"},
           pc = "handling" => Excluded(Top),
           pc = "panicked" => NilFunction(Top.kind),
           SetTop([Top EXCEPT !.pc = pc]), UNCHANGED icept
    PROVE  ChainInv' /\ ~Active("asking")'
<1> DEFINE e == [Top EXCEPT !.pc = pc]
<1>1. HopOK(Top)
  BY TheTop
<1>2. e = [k \in HopFields |-> e[k]] /\ e.pc = pc /\ \A k \in HopFields \ {"pc"} : e[k] = Top[k]
  BY <1>1 DEF HopOK, HopFields
<1> HIDE DEF e
<1>3. /\ e.kind = Top.kind /\ e.method = Top.method /\ e.headers = Top.headers
      /\ e.seen = Top.seen
  BY <1>2 DEF HopFields
<1>4. Excluded(e) <=> Excluded(Top)
  BY <1>3, SameRequest
<1>5. HopOK(e)
  BY <1>1, <1>2, <1>3, <1>4 DEF HopOK, Guarded
<1>6. ChainInv' /\ Top' = e
  BY <1>3, <1>5, TopChanges DEF e
<1> QED
  BY <1>2, <1>6 DEF Active, Top

LEMMA Rejected ==
    ASSUME ChainInv, hops # <<>>,
           NEW code \in {"unauthenticated", "permissionDenied", "internal", "panicked"},
           code = "panicked" => NilFunction(Top.kind),
           Reject(code), UNCHANGED icept
    PROVE  ChainInv' /\ ~Active("asking")'
BY TopEnds DEF Reject, HopPcs

LEMMA StepBeforeAsking ==
    ASSUME ChainInv, PassExcluded \/ RejectUnauthenticated \/ CallNilFunction \/ Unreachable
    PROVE  ChainInv' /\ ~Active("asking")'
<1>1. hops # <<>> /\ UNCHANGED icept
  BY DEF PassExcluded, RejectUnauthenticated, CallNilFunction, Unreachable, HasToken, Active
<1>2. CASE PassExcluded
  BY <1>1, <1>2, TopEnds DEF PassExcluded, HopPcs
<1>3. CASE RejectUnauthenticated
  BY <1>1, <1>3, Rejected DEF RejectUnauthenticated
<1>4. CASE CallNilFunction
  BY <1>1, <1>4, Rejected DEF CallNilFunction
<1>5. CASE Unreachable
  BY <1>1, <1>5, Rejected DEF Unreachable
<1> QED
  BY <1>2, <1>3, <1>4, <1>5

LEMMA StepCallFails ==
    ASSUME ChainInv, CallFails
    PROVE  ChainInv' /\ ~Active("asking")'
<1>1. hops # <<>> /\ UNCHANGED icept
  BY DEF CallFails, Active
<1> QED
  BY <1>1, Rejected DEF CallFails

----------------------------------------------------------------------------
(* The server answers what the interceptor asked.                          *)

LEMMA StepAsk ==
    ASSUME ServerInv, ChainInv, NEW x \in Handlers, Ask(x)
    PROVE  ChainInv' /\ AskedInv'
<1> DEFINE req == AuthorizeRequest(Top)
           e == [Top EXCEPT !.pc = "asking", !.asked = x]
<1>1. hops # <<>> /\ Receive(x, req) /\ SetTop(e) /\ UNCHANGED icept
  BY DEF Ask, HasToken, Active
<1>2. HopOK(Top)
  BY <1>1, TheTop
<1>3. /\ e = [k \in HopFields |-> e[k]] /\ e.pc = "asking" /\ e.asked = x
      /\ \A k \in HopFields \ {"pc", "asked"} : e[k] = Top[k]
  BY <1>2 DEF HopOK, HopFields
<1> HIDE DEF e
<1>4. /\ e.kind = Top.kind /\ e.method = Top.method /\ e.headers = Top.headers
      /\ e.seen = Top.seen
  BY <1>3 DEF HopFields
<1>5. HopOK(e)
  BY <1>2, <1>3, <1>4 DEF HopOK, HopPcs, Guarded
<1>6. ChainInv' /\ Top' = e
  BY <1>1, <1>4, <1>5, TopChanges
<1>7. AuthorizeRequest(Top)' = req
  BY <1>1, <1>4, <1>6, SameConfig, SameRequest
<1>8. h' = [h EXCEPT ![x] = IF Invalid(req)
                             THEN [Idle EXCEPT !.pc = "replied", !.req = req,
                                               !.resp = Error("InvalidArgument")]
                             ELSE [Idle EXCEPT !.pc = "key", !.req = req]]
  BY <1>1 DEF Receive
<1> HIDE DEF req
<1>9. h'[x].req = req /\ h'[x].pc # "idle"
      /\ (Invalid(req) => h'[x].pc = "replied" /\ ~h'[x].resp.authorized)
  <2>1. h = [y \in Handlers |-> h[y]]
    BY Locals
  <2>2. CASE Invalid(req)
    <3> DEFINE r == [Idle EXCEPT !.pc = "replied", !.req = req, !.resp = Error("InvalidArgument")]
    <3>1. h'[x] = r
      BY <1>8, <2>1, <2>2
    <3>2. /\ r.pc = "replied" /\ r.req = req /\ r.resp = Error("InvalidArgument")
          /\ ~r.resp.authorized
      BY DEF Idle, Error, Denied, Answer
    <3> HIDE DEF r
    <3> QED
      BY <3>1, <3>2
  <2>3. CASE ~Invalid(req)
    <3> DEFINE r == [Idle EXCEPT !.pc = "key", !.req = req]
    <3>1. h'[x] = r
      BY <1>8, <2>1, <2>3
    <3>2. r.pc = "key" /\ r.req = req
      BY Taken
    <3> QED
      BY <2>3, <3>1, <3>2
  <2> QED
    BY <2>2, <2>3
<1>10. x = (Top.asked)'
  BY <1>3, <1>6
<1> QED
  BY <1>6, <1>7, <1>9, <1>10 DEF AskedInv, Serving, Invalid

(***************************************************************************)
(* A handler keeps its request until it is done, and leaves the others     *)
(* alone.                                                                  *)
(***************************************************************************)
KeepsRequest(x) ==
    /\ h'[x].req = h[x].req /\ h'[x].pc # "idle"
    /\ \A y \in Handlers : y # x => h'[y] = h[y]

LEMMA UpdateKeeps ==
    ASSUME ServerInv, NEW x \in Handlers, NEW r, h' = [h EXCEPT ![x] = r],
           r.req = h[x].req, r.pc # "idle"
    PROVE  KeepsRequest(x)
BY Locals DEF KeepsRequest

LEMMA ReplyKeeps ==
    ASSUME ServerInv, NEW x \in Handlers, NEW resp, Reply(x, resp)
    PROVE  KeepsRequest(x)
BY Locals DEF Reply, Idle, KeepsRequest

LEMMA AssociateKeeps ==
    ASSUME ServerInv, NEW x \in Handlers, NEW p, Associate(x, p)
    PROVE  KeepsRequest(x)
<1> DEFINE role == OrgRole(h[x].userOrgs, p)
<1>1. CASE role = "unspecified"
  BY <1>1, ReplyKeeps DEF Associate
<1>2. CASE role # "unspecified"
  <2> DEFINE r == [h[x] EXCEPT !.pc = "org", !.project = p, !.orgRole = role,
                               !.projectRole = ProjectRole(h[x].userProjects, p)]
  <2>1. h' = [h EXCEPT ![x] = r]
    BY <1>2, Locals DEF Associate
  <2>2. r.req = h[x].req /\ r.pc = "org"
    BY Locals DEF Fields
  <2> HIDE DEF r
  <2> QED
    BY <2>1, <2>2, UpdateKeeps
<1> QED
  BY <1>1, <1>2

LEMMA ServeKeeps ==
    ASSUME ServerInv, NEW x \in Handlers, Serve(x)
    PROVE  Busy(h[x]) /\ UNCHANGED seen /\ KeepsRequest(x)
<1>1. CASE GetAPIKeyBySecret(x)
  <2>1. /\ h[x].pc = "key" /\ UNCHANGED seen
        /\ \/ h' = [h EXCEPT ![x].pc = "introspect"]
           \/ h' = [h EXCEPT ![x].pc = "keyProject",
                             ![x].key = cache.apiKeysBySecret[h[x].req.token]]
    BY <1>1 DEF GetAPIKeyBySecret
  <2>2. CASE h' = [h EXCEPT ![x].pc = "introspect"]
    BY <2>1, <2>2, Locals DEF Busy, KeepsRequest, Fields
  <2>3. CASE h' = [h EXCEPT ![x].pc = "keyProject",
                            ![x].key = cache.apiKeysBySecret[h[x].req.token]]
    <3> DEFINE r == [h[x] EXCEPT !.pc = "keyProject",
                                 !.key = cache.apiKeysBySecret[h[x].req.token]]
    <3>1. h' = [h EXCEPT ![x] = r]
      BY <2>3, Locals
    <3>2. r.req = h[x].req /\ r.pc = "keyProject"
      BY Locals DEF Fields
    <3> HIDE DEF r
    <3> QED
      BY <2>1, <3>1, <3>2, UpdateKeeps DEF Busy
  <2> QED
    BY <2>1, <2>2, <2>3
<1>2. CASE KeyGetProjectByID(x)
  <2>1. CASE h[x].key.project \in DOMAIN cache.projectsByID
    <3> DEFINE r == [h[x] EXCEPT !.pc = "keyOrg", !.project = cache.projectsByID[h[x].key.project]]
    <3>1. h' = [h EXCEPT ![x] = r]
      BY <1>2, <2>1, Locals DEF KeyGetProjectByID
    <3>2. r.req = h[x].req /\ r.pc = "keyOrg"
      BY Locals DEF Fields
    <3> HIDE DEF r
    <3> QED
      BY <1>2, <3>1, <3>2, UpdateKeeps DEF KeyGetProjectByID, Busy
  <2>2. CASE h[x].key.project \notin DOMAIN cache.projectsByID
    BY <1>2, <2>2, ReplyKeeps DEF KeyGetProjectByID, Busy
  <2> QED
    BY <2>1, <2>2
<1>3. CASE KeyGetOrganizationByID(x)
  <2>1. CASE h[x].key.org \in DOMAIN cache.orgsByID
    BY <1>3, <2>1, Locals DEF KeyGetOrganizationByID, KeepsRequest, Fields, Busy
  <2>2. CASE h[x].key.org \notin DOMAIN cache.orgsByID
    BY <1>3, <2>2, ReplyKeeps DEF KeyGetOrganizationByID, Busy
  <2> QED
    BY <2>1, <2>2
<1>4. CASE KeyGetClustersByTenantID(x)
  BY <1>4, ReplyKeeps DEF KeyGetClustersByTenantID, Busy
<1>5. ASSUME NEW is, GetUserByID(x, is)
      PROVE  Busy(h[x]) /\ UNCHANGED seen /\ KeepsRequest(x)
  <2>1. \/ \E resp : Reply(x, resp)
        \/ h' = [h EXCEPT ![x].pc = "userProjects",
                          ![x].user = cache.usersByID[Normalize[is.email]]]
    BY <1>5 DEF GetUserByID
  <2>2. CASE \E resp : Reply(x, resp)
    BY <1>5, <2>2, ReplyKeeps DEF GetUserByID, Busy
  <2>3. CASE h' = [h EXCEPT ![x].pc = "userProjects",
                            ![x].user = cache.usersByID[Normalize[is.email]]]
    <3> DEFINE r == [h[x] EXCEPT !.pc = "userProjects",
                                 !.user = cache.usersByID[Normalize[is.email]]]
    <3>1. h' = [h EXCEPT ![x] = r]
      BY <2>3, Locals
    <3>2. r.req = h[x].req /\ r.pc = "userProjects"
      BY Locals DEF Fields
    <3> HIDE DEF r
    <3> QED
      BY <1>5, <3>1, <3>2, UpdateKeeps DEF GetUserByID, Busy
  <2> QED
    BY <2>1, <2>2, <2>3
<1>6. CASE GetProjectsByUserID(x)
  <2> DEFINE r == [h[x] EXCEPT !.pc = "userOrgs",
                               !.userProjects = Lookup(cache.projectsByUserID, h[x].user.id)]
  <2>1. h' = [h EXCEPT ![x] = r] /\ h[x].pc = "userProjects" /\ UNCHANGED seen
    BY <1>6, Locals DEF GetProjectsByUserID
  <2>2. r.req = h[x].req /\ r.pc = "userOrgs"
    BY Locals DEF Fields
  <2> HIDE DEF r
  <2> QED
    BY <2>1, <2>2, UpdateKeeps DEF Busy
<1>7. CASE GetOrganizationsByUserID(x)
  <2> DEFINE req == h[x].req
             orgs == Lookup(cache.orgsByUserID, h[x].user.id)
             pc == IF req.project # None THEN "requestedProject"
                   ELSE IF req.org # None THEN "requestedOrg" ELSE "orgProjects"
             r == [h[x] EXCEPT !.userOrgs = orgs, !.left = OrgsToSearch(req, orgs), !.pc = pc]
  <2>1. h' = [h EXCEPT ![x] = r]
    BY <1>7, Locals DEF GetOrganizationsByUserID
  <2>2. r.req = h[x].req /\ r.pc = pc
    BY Locals DEF Fields
  <2>3. pc # "idle"
    OBVIOUS
  <2> HIDE DEF r, pc
  <2> QED
    BY <1>7, <2>1, <2>2, <2>3, UpdateKeeps DEF GetOrganizationsByUserID, Busy
<1>8. CASE GetRequestedProject(x)
  <2>1. (\E p : Associate(x, p)) \/ Reply(x, Denied)
    BY <1>8 DEF GetRequestedProject
  <2> QED
    BY <1>8, <2>1, AssociateKeeps, ReplyKeeps DEF GetRequestedProject, Busy
<1>9. CASE GetRequestedOrg(x)
  <2>1. CASE h[x].req.org \in DOMAIN cache.orgsByID
    BY <1>9, <2>1, Locals DEF GetRequestedOrg, KeepsRequest, Fields, Busy
  <2>2. CASE h[x].req.org \notin DOMAIN cache.orgsByID
    BY <1>9, <2>2, ReplyKeeps DEF GetRequestedOrg, Busy
  <2> QED
    BY <2>1, <2>2
<1>10. ASSUME NEW o, GetProjectsByOrganizationID(x, o)
       PROVE  Busy(h[x]) /\ UNCHANGED seen /\ KeepsRequest(x)
  <2> DEFINE r == [h[x] EXCEPT !.left = @ \ {o},
                               !.pool = @ \cup Lookup(cache.projectsByOrganizationID, o)]
  <2>1. h' = [h EXCEPT ![x] = r] /\ h[x].pc = "orgProjects" /\ UNCHANGED seen
    BY <1>10, Locals DEF GetProjectsByOrganizationID
  <2>2. r.req = h[x].req /\ r.pc = h[x].pc
    BY Locals DEF Fields
  <2> HIDE DEF r
  <2> QED
    BY <2>1, <2>2, UpdateKeeps DEF Busy
<1>11. CASE PickProject(x)
  <2>1. (\E p : Associate(x, p)) \/ Reply(x, Denied)
    BY <1>11 DEF PickProject
  <2> QED
    BY <1>11, <2>1, AssociateKeeps, ReplyKeeps DEF PickProject, Busy
<1>12. CASE GetOrganizationByID(x)
  <2>1. CASE h[x].project.org \in DOMAIN cache.orgsByID
    BY <1>12, <2>1, Locals DEF GetOrganizationByID, KeepsRequest, Fields, Busy
  <2>2. CASE h[x].project.org \notin DOMAIN cache.orgsByID
    BY <1>12, <2>2, ReplyKeeps DEF GetOrganizationByID, Busy
  <2> QED
    BY <2>1, <2>2
<1>13. CASE GetClustersByTenantID(x)
  BY <1>13, ReplyKeeps DEF GetClustersByTenantID, Busy
<1>14. CASE GetClusterByRegistrationKey(x)
  BY <1>14, ReplyKeeps DEF GetClusterByRegistrationKey, Busy
<1> QED
  BY <1>1, <1>2, <1>3, <1>4, <1>5, <1>6, <1>7, <1>8, <1>9, <1>10, <1>11, <1>12, <1>13, <1>14
  DEF Serve

----------------------------------------------------------------------------
(* Answers become user infos.                                              *)

(***************************************************************************)
(* newUserInfoFromAuthorizeResponse loses nothing that is evidence.        *)
(***************************************************************************)
LEMMA EvidenceOfInfo ==
    ASSUME NEW S, NEW req, NEW r, Evidence(S, req, r)
    PROVE  Evidence(S, req, UserInfo(r))
<1> DEFINE i == UserInfo(r)
<1>1. /\ i.apiKey = r.apiKey /\ i.user = r.user /\ i.org = r.org /\ i.project = r.project
      /\ i.tenant = r.tenant
  BY DEF UserInfo
<1> HIDE DEF i
<1>2. KeyEvidence(S, req, r) => KeyEvidence(S, req, i)
  BY <1>1 DEF KeyEvidence
<1>3. UserEvidence(S, req, r) => UserEvidence(S, req, i)
  BY <1>1 DEF UserEvidence
<1> QED
  BY <1>1, <1>2, <1>3 DEF Evidence, i

(***************************************************************************)
(* A grant has a user, an organization and a project.                      *)
(***************************************************************************)
LEMMA EvidenceIsNotNil ==
    ASSUME NEW S, S \subseteq Snapshots, NEW req, NEW r, Evidence(S, req, r)
    PROVE  ~NilMessage(r)
<1>1. \A c \in S : NothingIsNil(c) /\ ProjectMapsAgree(c)
  BY CallAssumption, SnapshotsAssumption DEF WellFormed
<1>2. CASE r.apiKey # None
  <2>1. KeyEvidence(S, req, r)
    BY <1>2 DEF Evidence
  <2>2. PICK c \in S : /\ req.token \in DOMAIN c.apiKeysBySecret
                       /\ r.user = c.apiKeysBySecret[req.token].user
    BY <2>1 DEF KeyEvidence
  <2>3. PICK d \in S : r.project \in DOMAIN d.projectsByID
    BY <2>1 DEF KeyEvidence
  <2>4. PICK g \in S : r.org \in DOMAIN g.orgsByID
    BY <2>1 DEF KeyEvidence
  <2> QED
    BY <1>1, <2>2, <2>3, <2>4 DEF NothingIsNil, NilMessage
<1>3. CASE r.apiKey = None
  <2>1. UserEvidence(S, req, r)
    BY <1>3 DEF Evidence
  <2>2. PICK c \in S : r.user \in DOMAIN c.usersByID
    BY <2>1 DEF UserEvidence
  <2>3. r.user # Nil
    BY <1>1, <2>2 DEF NothingIsNil
  <2>4. CASE OrganizationResource(req)
    <3>1. r.org = None /\ r.project = None
      BY <2>1, <2>4 DEF UserEvidence
    <3> QED
      BY <2>3, <3>1, CallAssumption DEF NilMessage
  <2>5. CASE ~OrganizationResource(req)
    <3>1. PICK d \in S : r.project \in DOMAIN d.projectsByID /\ d.projectsByID[r.project].org = r.org
      BY <2>1, <2>5 DEF UserEvidence
    <3>2. r.org \in DOMAIN d.projectsByOrganizationID
      BY <1>1, <3>1 DEF ProjectMapsAgree
    <3> QED
      BY <1>1, <2>3, <3>1, <3>2 DEF NothingIsNil, NilMessage
  <2> QED
    BY <2>4, <2>5
<1> QED
  BY <1>2, <1>3

(***************************************************************************)
(* What the server answers to the request of the interceptor.              *)
(***************************************************************************)
LEMMA AnswerToInterceptor ==
    ASSUME ServerInv, AskedInv, NEW x \in Handlers, Awaits(x), h[x].pc = "replied",
           h[x].resp.authorized
    PROVE  LET req == AuthorizeRequest(Top)
               r == h[x].resp
           IN  /\ Evidence(seen[x], req, r)
               /\ seen[x] \subseteq Snapshots
               /\ r.apiKey = None /\ r.project # None =>
                      /\ req.project # None => r.project = req.project
                      /\ req.org # None /\ (\A c \in seen[x] : RolesMatchProjects(c)) =>
                             r.org = req.org
<1> DEFINE req == AuthorizeRequest(Top)
<1>1. h[x].req = req /\ ~Invalid(req)
  BY DEF AskedInv, Awaits, Serving
<1> HIDE DEF req
<1>2. h[x].req \notin WorkerRequests
  BY <1>1, ValidIsNoWorker
<1>3. Replied(h[x], seen[x]) /\ seen[x] \subseteq Snapshots
  BY DEF ServerInv, HandlerInv, Shape
<1>4. Evidenced(h[x], seen[x]) /\ Honoured(h[x], seen[x])
  BY <1>3 DEF Replied
<1>5. Evidence(seen[x], req, h[x].resp)
  BY <1>1, <1>2, <1>4 DEF Evidenced
<1>6. h[x].resp.apiKey = None /\ h[x].resp.project # None =>
          /\ req.project # None => h[x].resp.project = req.project
          /\ req.org # None /\ (\A c \in seen[x] : RolesMatchProjects(c)) =>
                 h[x].resp.org = req.org
  BY <1>1, <1>2, <1>4 DEF Honoured
<1> QED
  BY <1>3, <1>5, <1>6 DEF req

LEMMA StepTakeAnswer ==
    ASSUME ServerInv, ChainInv, AskedInv, NEW x \in Handlers, TakeAnswer(x)
    PROVE  ChainInv' /\ ~Active("asking")'
<1> DEFINE r == h[x].resp
           req == AuthorizeRequest(Top)
           e == [Top EXCEPT !.pc = "handling", !.info = UserInfo(r), !.seen = seen[x]]
<1>1. hops # <<>> /\ UNCHANGED icept /\ Awaits(x) /\ h[x].pc = "replied"
  BY DEF TakeAnswer, Awaits, Active, Done
<1>2. HopOK(Top)
  BY <1>1, TheTop
<1>3. CASE r.status # "OK"
  BY <1>1, <1>3, Rejected DEF TakeAnswer
<1>4. CASE r.status = "OK" /\ ~r.authorized
  BY <1>1, <1>4, Rejected DEF TakeAnswer, DeniedCode
<1>5. CASE r.status = "OK" /\ r.authorized
  <2>1. /\ Evidence(seen[x], req, r) /\ seen[x] \subseteq Snapshots
        /\ r.apiKey = None /\ r.project # None =>
               /\ req.project # None => r.project = req.project
               /\ req.org # None /\ (\A c \in seen[x] : RolesMatchProjects(c)) => r.org = req.org
    BY <1>1, <1>5, AnswerToInterceptor
  <2>2. ~NilMessage(r)
    BY <2>1, EvidenceIsNotNil
  <2>3. SetTop(e)
    BY <1>5, <2>2 DEF TakeAnswer
  <2>4. Evidence(seen[x], req, UserInfo(r))
    BY <2>1, EvidenceOfInfo
  <2>5. UserInfo(r).apiKey = r.apiKey /\ UserInfo(r).project = r.project /\ UserInfo(r).org = r.org
    BY DEF UserInfo
  <2>6. /\ e = [k \in HopFields |-> e[k]] /\ e.pc = "handling"
        /\ e.info = UserInfo(r) /\ e.seen = seen[x]
        /\ \A k \in HopFields \ {"pc", "info", "seen"} : e[k] = Top[k]
    BY <1>2 DEF HopOK, HopFields
  <2> HIDE DEF e, r
  <2>7. e.kind = Top.kind /\ e.method = Top.method /\ e.headers = Top.headers
    BY <2>6 DEF HopFields
  <2>8. AuthorizeRequest(e) = req
    BY <2>7, SameRequest
  <2>9. AsAsked(e)
    <3>1. req.project = First(e.headers.project) /\ req.org = First(e.headers.org)
      BY <2>7 DEF AuthorizeRequest
    <3> HIDE DEF req
    <3> QED
      BY <2>1, <2>5, <2>6, <3>1 DEF AsAsked, ActsInProject
  <2> HIDE DEF req
  <2>10. HopOK(e)
    BY <1>2, <2>1, <2>4, <2>6, <2>7, <2>8, <2>9 DEF HopOK, HopPcs
  <2>11. ChainInv' /\ Top' = e
    BY <1>1, <2>3, <2>7, <2>10, TopChanges
  <2> QED
    BY <2>6, <2>11 DEF Active, Top
<1> QED
  BY <1>3, <1>4, <1>5

(***************************************************************************)
(* Steps of the server leave the chain alone, and the handler that an      *)
(* interceptor waits for keeps its request.                                *)
(***************************************************************************)
LEMMA ChainRests ==
    ASSUME ChainInv, UNCHANGED callVars
    PROVE  /\ ChainInv'
           /\ (Active("asking")' <=> Active("asking")) /\ (Top.asked)' = Top.asked
           /\ AuthorizeRequest(Top)' = AuthorizeRequest(Top)
<1>1. hops' = hops /\ icept' = icept
  BY DEF callVars
<1>2. ChainInv'
  <2>1. \A i \in 1..Len(hops) : HopOK(hops[i])'
    BY <1>1, SameConfig DEF ChainInv
  <2> QED
    BY <1>1, <2>1 DEF ChainInv, ConfigError, SameHeaders, Calling
<1>3. AuthorizeRequest(Top)' = AuthorizeRequest(Top)
  BY <1>1, SameConfig DEF Top
<1> QED
  BY <1>1, <1>2, <1>3 DEF Active, Top

LEMMA StillServing ==
    ASSUME ChainInv, AskedInv, UNCHANGED callVars,
           Active("asking") =>
               LET x == Top.asked
               IN  /\ h'[x].req = h[x].req /\ h'[x].pc # "idle"
                   /\ h[x].pc = "replied" => h'[x] = h[x]
    PROVE  ChainInv' /\ AskedInv'
<1>1. /\ ChainInv' /\ (Active("asking")' <=> Active("asking")) /\ (Top.asked)' = Top.asked
      /\ AuthorizeRequest(Top)' = AuthorizeRequest(Top)
  BY ChainRests
<1> QED
  BY <1>1 DEF AskedInv, Serving, Invalid

LEMMA StepServer ==
    ASSUME ServerInv, ChainInv, AskedInv, NEW x \in Handlers, Server(x)
    PROVE  ChainInv' /\ AskedInv'
<1>1. Serve(x) /\ UNCHANGED callVars
  BY DEF Server
<1>2. Busy(h[x]) /\ KeepsRequest(x)
  BY <1>1, ServeKeeps
<1>3. \A y \in Handlers : h[y].pc # "idle" =>
          /\ h'[y].req = h[y].req /\ h'[y].pc # "idle"
          /\ h[y].pc = "replied" => h'[y] = h[y]
  BY <1>2 DEF KeepsRequest, Busy
<1> QED
  BY <1>1, <1>3, StillServing DEF AskedInv, Serving

LEMMA StepDropAnswer ==
    ASSUME ServerInv, ChainInv, AskedInv, NEW x \in Handlers, DropAnswer(x)
    PROVE  ChainInv' /\ AskedInv'
<1>1. Done(x) /\ ~Awaits(x) /\ UNCHANGED callVars
  BY DEF DropAnswer
<1>2. \A y \in Handlers : y # x => h'[y] = h[y]
  BY <1>1, Locals DEF Done
<1> QED
  BY <1>1, <1>2, StillServing DEF AskedInv, Serving, Awaits

LEMMA StepCallPublish ==
    ASSUME ChainInv, AskedInv, Publish, UNCHANGED callVars
    PROVE  ChainInv' /\ AskedInv'
<1>1. h' = h
  BY DEF Publish
<1> QED
  BY <1>1, StillServing DEF AskedInv, Serving

----------------------------------------------------------------------------
LEMMA InitCall == Init => CallInv
<1> SUFFICES ASSUME Init PROVE CallInv
  OBVIOUS
<1>1. hops = <<>> /\ Len(hops) = 0 /\ hops \in Seq(Range(hops))
  BY EmptySeq DEF Init
<1>2. icept \in Configs /\ ~ConfigError(icept) /\ Len(hops) <= MaxHops
  BY <1>1, CallAssumption DEF Init
<1>3. ChainInv
  BY <1>1, <1>2 DEF ChainInv
<1>4. AskedInv
  BY <1>1 DEF AskedInv, Active
<1> QED
  BY <1>3, <1>4, InitCallServer DEF CallInv

LEMMA NextCall == CallInv /\ [Next]_allVars => CallInv'
<1> SUFFICES ASSUME CallInv, [Next]_allVars PROVE CallInv'
  OBVIOUS
<1>1. ServerInv /\ ServerInv' /\ ChainInv /\ AskedInv
  BY CallServer DEF CallInv
<1>2. ChainInv' /\ ~Active("asking")' => ChainInv' /\ AskedInv'
  BY DEF AskedInv
<1>3. ASSUME NEW c \in Calls, Arrive(c) PROVE ChainInv' /\ AskedInv'
  BY <1>1, <1>2, <1>3, StepArrive
<1>4. ASSUME NEW x \in Handlers, Interceptor(x) PROVE ChainInv' /\ AskedInv'
  <2>1. CASE PassExcluded \/ RejectUnauthenticated \/ CallNilFunction \/ Unreachable
    BY <1>1, <1>2, <2>1, StepBeforeAsking
  <2>2. CASE Ask(x)
    BY <1>1, <2>2, StepAsk
  <2>3. CASE TakeAnswer(x)
    BY <1>1, <1>2, <2>3, StepTakeAnswer
  <2>4. CASE DropAnswer(x)
    BY <1>1, <2>4, StepDropAnswer
  <2> QED
    BY <1>4, <2>1, <2>2, <2>3, <2>4 DEF Interceptor
<1>5. ASSUME NEW x \in Handlers, Server(x) PROVE ChainInv' /\ AskedInv'
  BY <1>1, <1>5, StepServer
<1>6. ASSUME CallFails PROVE ChainInv' /\ AskedInv'
  BY <1>1, <1>2, <1>6, StepCallFails
<1>7. ASSUME NEW m \in InnerMethods, CallOn(m) PROVE ChainInv' /\ AskedInv'
  BY <1>1, <1>2, <1>7, StepCallOn
<1>8. ASSUME Return PROVE ChainInv' /\ AskedInv'
  BY <1>1, <1>2, <1>8, StepReturn
<1>9. ASSUME Publish, UNCHANGED callVars PROVE ChainInv' /\ AskedInv'
  BY <1>1, <1>9, StepCallPublish
<1>10. ASSUME UNCHANGED allVars PROVE ChainInv' /\ AskedInv'
  <2>1. UNCHANGED callVars /\ h' = h
    BY <1>10 DEF allVars, serverVars
  <2> QED
    BY <1>1, <2>1, StillServing DEF AskedInv, Serving
<1>11. ChainInv' /\ AskedInv'
  BY <1>3, <1>4, <1>5, <1>6, <1>7, <1>8, <1>9, <1>10 DEF Next
<1> QED
  BY <1>1, <1>11 DEF CallInv

(***************************************************************************)
(* The server's invariant and the chain's hold together.                   *)
(***************************************************************************)
THEOREM CallInvariant == Spec => []CallInv
BY InitCall, NextCall, PTL DEF Spec

(***************************************************************************)
(* The state of server and chain has the type that ServiceCall states.     *)
(***************************************************************************)
THEOREM CallTypeCorrect == Spec => []CallTypeOK
<1>1. CallInv => CallTypeOK
  <2> SUFFICES ASSUME CallInv PROVE CallTypeOK
    OBVIOUS
  <2>1. ServerTypeOK
    BY ServerTyped DEF CallInv
  <2>2. DOMAIN hops = 1..Len(hops)
    BY LenProperties DEF CallInv, ChainInv
  <2> QED
    BY <2>1, <2>2 DEF CallTypeOK, CallInv, ChainInv, HopOK, HopPcs, Calling
<1> QED
  BY <1>1, CallInvariant, PTL

(***************************************************************************)
(* A handler that is not excluded runs on evidence for what its method     *)
(* needs, whatever calls to the RBAC server fail, time out or are answered *)
(* late, in every hop of a chain.                                          *)
(***************************************************************************)
THEOREM HandledOnlyOnEvidence == Spec => []HandledOnEvidence
<1>1. CallInv => HandledOnEvidence
  <2> SUFFICES ASSUME CallInv, NEW i \in DOMAIN hops, Guarded(hops[i])
               PROVE  Evidence(hops[i].seen, Needs(hops[i]), hops[i].info)
    BY DEF HandledOnEvidence
  <2>1. HopOK(hops[i])
    BY LenProperties DEF CallInv, ChainInv
  <2>2. AuthorizeRequest(hops[i]).capability =
            (IF hops[i].method.verb \in {"Get", "List", "GET"} THEN <<"read">> ELSE <<"write">>)
    BY <2>1 DEF HopOK, AuthorizeRequest, Capability
  <2>3. Needs(hops[i]) = AuthorizeRequest(hops[i])
    BY <2>2 DEF Needs, AuthorizeRequest
  <2> QED
    BY <2>1, <2>3 DEF HopOK
<1> QED
  BY <1>1, CallInvariant, PTL

(***************************************************************************)
(* An interceptor dereferences no message that a grant of the server left  *)
(* out: it panics only where its accepted configuration has no resource    *)
(* function for the kind of call.                                          *)
(***************************************************************************)
THEOREM NothingPanics == Spec => []NoPanic
<1>1. CallInv => NoPanic
  BY LenProperties DEF CallInv, ChainInv, HopOK, NoPanic
<1> QED
  BY <1>1, CallInvariant, PTL

(***************************************************************************)
(* Services that a chain of calls passes through act for the client: for   *)
(* the user of its token, in the organization and the project it named, or *)
(* for its API key.  They ask the RBAC server one after the other, and     *)
(* snapshots are published in between.                                     *)
(***************************************************************************)
THEOREM CallsActForClient == Spec => []ActsForClient
<1>1. CallInv => ActsForClient
  <2> SUFFICES ASSUME CallInv, NEW i \in DOMAIN hops, Guarded(hops[i])
               PROVE  LET client == hops[1].headers
                      IN  IF hops[i].info.apiKey # None
                          THEN ActsAsKey(hops[i], First(client.authorization))
                          ELSE /\ ActsAsUser(hops[i], First(client.authorization))
                               /\ ActsInProject(hops[i], First(client.org), First(client.project))
    BY DEF ActsForClient
  <2> DEFINE hop == hops[i]
             req == AuthorizeRequest(hop)
  <2>1. HopOK(hop) /\ SameHeaders(hop, hops[1])
    BY LenProperties DEF CallInv, ChainInv
  <2>2. Evidence(hop.seen, req, hop.info) /\ AsAsked(hop)
    BY <2>1 DEF HopOK
  <2>3. /\ req.token = First(hops[1].headers.authorization)
        /\ First(hop.headers.org) = First(hops[1].headers.org)
        /\ First(hop.headers.project) = First(hops[1].headers.project)
    BY <2>1 DEF AuthorizeRequest, SameHeaders, Headers
  <2> HIDE DEF hop, req
  <2>4. CASE hop.info.apiKey # None
    <3>1. KeyEvidence(hop.seen, req, hop.info)
      BY <2>2, <2>4 DEF Evidence
    <3>2. ActsAsKey(hop, req.token)
      BY <3>1 DEF KeyEvidence, ActsAsKey
    <3> QED
      BY <2>3, <2>4, <3>2 DEF hop
  <2>5. CASE hop.info.apiKey = None
    <3>1. UserEvidence(hop.seen, req, hop.info)
      BY <2>2, <2>5 DEF Evidence
    <3>2. ActsAsUser(hop, req.token)
      BY <3>1 DEF UserEvidence, ActsAsUser
    <3>3. ActsInProject(hop, First(hop.headers.org), First(hop.headers.project))
      BY <2>2, <2>5 DEF AsAsked
    <3> QED
      BY <2>3, <2>5, <3>2, <3>3 DEF hop
  <2> QED
    BY <2>4, <2>5
<1> QED
  BY <1>1, CallInvariant, PTL
=============================================================================
