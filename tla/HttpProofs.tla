----------------------------- MODULE HttpProofs -----------------------------
(***************************************************************************)
(* Proofs about the HTTP server: what a code can bring and who asked for   *)
(* it, for any number of codes, tokens, logins, forms and restarts, and    *)
(* the accounts of the list of sessions.                                   *)
(***************************************************************************)
EXTENDS HttpServer, FiniteSetTheorems, TLAPS

(* Codes that can still be issued, or wait, have brought nothing. *)
CodesOK ==
  /\ issued \in [codes : Nat, tokens : Nat, logins : Nat]
  /\ issued.codes <= MaxCodes
  /\ DOMAIN codes \subseteq 1 .. issued.codes
  /\ \A c \in DOMAIN codes : codes[c] \in Code
  /\ traded \in [1 .. MaxCodes -> Nat]
  /\ \A c \in 1 .. MaxCodes :
       /\ traded[c] <= 1
       /\ c \in DOMAIN codes \/ c > issued.codes => traded[c] = 0

(* A form is bound to the request it was shown with, and a code issued on *)
(* it is for a request that was approved.                                  *)
FormsOK ==
  /\ gated \subseteq 1 .. issued.codes /\ approved \subseteq AuthorizeRequest
  /\ \A f \in forms : f.request \in AuthorizeRequest /\ f.csrf = consentCsrf(f.login, f.request)
  /\ ApprovedOnly

ClockOK ==
  /\ now \in 0 .. MaxClock /\ starts \in 0 .. MaxStarts
  /\ up \in BOOLEAN /\ fenced \in BOOLEAN /\ approval \in BOOLEAN

LEMMA Limits ==
  /\ MaxClock \in Nat /\ MaxCodes \in Nat /\ MaxStarts \in Nat
  /\ CodeTTL \in Nat /\ TokenTTL \in Nat /\ LoginTTL \in Nat
  /\ MAX_SESSIONS \in Nat \ {0} /\ MAX_DASHBOARD_SESSIONS \in Nat \ {0}
  BY HttpAssumption DEF HttpAssumption

(* Fewer codes, and nothing else. *)
LEMMA CodesGo ==
  ASSUME CodesOK, FormsOK, NEW S, codes' = Without(codes, S),
         UNCHANGED <<issued, traded, gated, approved, forms>>
  PROVE  CodesOK' /\ FormsOK'
  <1>1. /\ DOMAIN codes' = DOMAIN codes \ S
        /\ \A c \in DOMAIN codes' : codes'[c] = codes[c]
    BY DEF Without, Restrict
  <1>2. CodesOK'
    BY <1>1 DEF CodesOK
  <1>3. FormsOK'
    BY <1>1 DEF FormsOK, ApprovedOnly, consentCsrf
  <1>. QED
    BY <1>2, <1>3

LEMMA CodesStay ==
  ASSUME CodesOK, FormsOK, UNCHANGED <<codes, traded, gated, forms>>,
         approved' = approved \/ \E ar \in AuthorizeRequest : approved' = approved \cup {ar},
         issued' \in [codes : Nat, tokens : Nat, logins : Nat], issued'.codes = issued.codes
  PROVE  CodesOK' /\ FormsOK'
  BY DEF CodesOK, FormsOK, ApprovedOnly, consentCsrf

LEMMA CodeIssued ==
  ASSUME ClockOK, CodesOK, FormsOK, NEW ar \in AuthorizeRequest, issueAuthorizationCode(ar),
         UNCHANGED <<traded, forms>>,
         \/ UNCHANGED <<gated, approved>>
         \/ gated' = gated \cup {issued.codes + 1} /\ approved' = approved \cup {ar}
  PROVE  CodesOK' /\ FormsOK'
  <1> DEFINE n == issued.codes + 1
             r == [redirect |-> ar.redirect, challenge |-> ar.challenge,
                   expires |-> now + CodeTTL]
  <1>1. /\ issued' = [issued EXCEPT !.codes = n] /\ issued.codes < MaxCodes
        /\ DOMAIN codes' = DOMAIN codes \cup {n}
        /\ codes'[n] = r
        /\ \A c \in DOMAIN codes \ {n} : codes'[c] = codes[c]
    BY DEF issueAuthorizationCode, With
  <1>2. n \in Nat /\ n \notin DOMAIN codes /\ issued'.codes = n /\ n <= MaxCodes
    BY <1>1, Limits DEF CodesOK
  <1>3. r \in Code
    BY Limits DEF ClockOK, Code, AuthorizeRequest
  <1>4. [redirect |-> r.redirect, challenge |-> r.challenge] = ar
    BY DEF AuthorizeRequest
  <1> HIDE DEF r
  <1>5. \A c \in DOMAIN codes' : codes'[c] \in Code
    BY <1>1, <1>2, <1>3 DEF CodesOK
  <1>6. CodesOK'
    <2>1. issued' \in [codes : Nat, tokens : Nat, logins : Nat]
      BY <1>1, <1>2 DEF CodesOK
    <2>2. DOMAIN codes' \subseteq 1 .. n
      BY <1>1, <1>2 DEF CodesOK
    <2>3. \A c \in 1 .. MaxCodes :
            traded[c] <= 1 /\ (c \in DOMAIN codes' \/ c > n => traded[c] = 0)
      BY <1>1, <1>2, Limits DEF CodesOK
    <2>. QED
      BY <1>2, <1>5, <2>1, <2>2, <2>3 DEF CodesOK
  <1>7. gated' \subseteq 1 .. issued'.codes /\ approved' \subseteq AuthorizeRequest
    <2>1. 1 .. issued.codes \subseteq 1 .. n /\ n \in 1 .. n
      BY <1>2 DEF CodesOK
    <2>. QED
      BY <1>2, <2>1 DEF FormsOK
  <1>8. ApprovedOnly'
    <2>1. SUFFICES ASSUME NEW c \in gated', c \in DOMAIN codes'
                   PROVE  [redirect |-> codes'[c].redirect, challenge |-> codes'[c].challenge]
                            \in approved'
      BY DEF ApprovedOnly
    <2>2. CASE c = n
      <3>1. n \notin gated
        BY <1>2 DEF FormsOK, CodesOK
      <3>2. approved' = approved \cup {ar}
        BY <2>1, <2>2, <3>1
      <3>. QED
        BY <1>1, <1>4, <2>2, <3>2
    <2>3. CASE c # n
      BY <1>1, <2>1, <2>3 DEF FormsOK, ApprovedOnly
    <2>. QED
      BY <2>2, <2>3
  <1>9. FormsOK'
    BY <1>7, <1>8 DEF FormsOK, consentCsrf
  <1>. QED
    BY <1>6, <1>9

LEMMA ExchangeTakes ==
  ASSUME CodesOK, FormsOK, NEW c \in DOMAIN codes, Exchange(c)
  PROVE  CodesOK' /\ FormsOK' /\ traded'[c] > traded[c]
  <1>1. /\ codes' = Without(codes, {c})
        /\ issued' = [issued EXCEPT !.tokens = issued.tokens + 1]
        /\ traded' = [traded EXCEPT ![c] = traded[c] + 1]
        /\ UNCHANGED <<forms, approved, gated>>
    BY DEF Exchange, Traded
  <1>2. /\ DOMAIN codes' = DOMAIN codes \ {c}
        /\ \A d \in DOMAIN codes' : codes'[d] = codes[d]
    BY <1>1 DEF Without, Restrict
  <1>3. issued' \in [codes : Nat, tokens : Nat, logins : Nat] /\ issued'.codes = issued.codes
    BY <1>1 DEF CodesOK
  <1>4. c \in 1 .. MaxCodes /\ c <= issued.codes /\ traded[c] = 0 /\ traded'[c] = 1
    BY <1>1, Limits DEF CodesOK
  <1>5. \A d \in (1 .. MaxCodes) \ {c} : traded'[d] = traded[d]
    BY <1>1 DEF CodesOK
  <1>6. CodesOK'
    <2>1. traded' \in [1 .. MaxCodes -> Nat]
      BY <1>1, <1>4 DEF CodesOK
    <2>. QED
      BY <1>2, <1>3, <1>4, <1>5, <2>1 DEF CodesOK
  <1>7. FormsOK'
    BY <1>1, <1>2, <1>3 DEF FormsOK, ApprovedOnly, consentCsrf
  <1>. QED
    BY <1>4, <1>6, <1>7

AuthorizationInv == ClockOK /\ CodesOK /\ FormsOK

LEMMA AuthorizationStart == HttpInit => AuthorizationInv
  <1>1. SUFFICES ASSUME HttpInit PROVE AuthorizationInv
    OBVIOUS
  <1>2. DOMAIN codes = {}
    BY <1>1 DEF HttpInit
  <1>3. ClockOK
    <2>1. now \in 0 .. MaxClock /\ starts \in 0 .. MaxStarts
      BY <1>1, Limits DEF HttpInit
    <2>2. up \in BOOLEAN /\ fenced \in BOOLEAN /\ approval \in BOOLEAN
      BY <1>1, Zenon DEF HttpInit
    <2>. QED
      BY <2>1, <2>2 DEF ClockOK
  <1>4. CodesOK
    BY <1>1, <1>2, Limits DEF HttpInit, CodesOK
  <1>5. FormsOK
    BY <1>1, <1>2 DEF HttpInit, FormsOK, ApprovedOnly
  <1>. QED
    BY <1>3, <1>4, <1>5 DEF AuthorizationInv

LEMMA ClockStep == ClockOK /\ [HttpNext]_httpVars => ClockOK'
  <1>1. SUFFICES ASSUME ClockOK, [HttpNext]_httpVars PROVE ClockOK'
    OBVIOUS
  <1>2. CASE UNCHANGED httpVars
    BY <1>1, <1>2 DEF httpVars, process, oauth, ClockOK
  <1>3. CASE AuthorizationStep
    BY <1>1, <1>3 DEF AuthorizationStep, Authorize, ShowConsent, Approve, FailedExchange,
       Exchange, ExchangeTorn, issueDashboardSession, SetApproval, MemoryGone, process, ClockOK
  <1>4. CASE SessionStep
    BY <1>1, <1>4 DEF SessionStep, BeginSession, UseSession, EndSession, SessionStarts,
       SessionRefused, ResponseCloses, Fence, process, oauth, ClockOK
  <1>5. CASE Tick
    BY <1>1, <1>5, Limits DEF Tick, process, oauth, ClockOK
  <1>6. CASE Start
    <2>1. now' \in 0 .. MaxClock /\ starts' \in 0 .. MaxStarts
      BY <1>1, <1>6, Limits DEF Start, ClockOK
    <2>2. up' \in BOOLEAN /\ fenced' \in BOOLEAN /\ approval' \in BOOLEAN
      BY <1>1, <1>6, Zenon DEF Start, ClockOK
    <2>. QED
      BY <2>1, <2>2 DEF ClockOK
  <1>7. CASE ClientCredentials \/ PresentLate \/ Cleanup \/ Stop
    BY <1>1, <1>7 DEF ClientCredentials, PresentLate, Cleanup, Stop, MemoryGone, process, ClockOK
  <1>. QED
    BY <1>1, <1>2, <1>3, <1>4, <1>5, <1>6, <1>7 DEF HttpNext

LEMMA AuthorizationStays ==
  AuthorizationInv /\ [HttpNext]_httpVars => AuthorizationInv'
  <1>1. SUFFICES ASSUME AuthorizationInv, [HttpNext]_httpVars PROVE CodesOK' /\ FormsOK'
    BY ClockStep DEF AuthorizationInv
  <1> USE <1>1 DEF AuthorizationInv
  <1>2. ASSUME NEW ar \in AuthorizeRequest, Authorize(ar) PROVE CodesOK' /\ FormsOK'
    BY <1>2, CodeIssued DEF Authorize
  <1>3. ASSUME NEW ar \in AuthorizeRequest, NEW l, ShowConsent(ar, l)
        PROVE  CodesOK' /\ FormsOK'
    <2>1. /\ forms' = forms \cup {[request |-> ar, csrf |-> consentCsrf(l, ar), login |-> l]}
          /\ UNCHANGED <<codes, issued, traded, approved, gated>>
      BY <1>3 DEF ShowConsent
    <2>2. CodesOK'
      BY <2>1 DEF CodesOK
    <2>3. FormsOK'
      BY <2>1 DEF FormsOK, ApprovedOnly, consentCsrf
    <2>. QED
      BY <2>2, <2>3
  <1>4. ASSUME NEW ar \in AuthorizeRequest, NEW f \in forms, Approve(f, ar)
        PROVE  CodesOK' /\ FormsOK'
    <2>1. f.request \in AuthorizeRequest /\ f.csrf = consentCsrf(f.login, f.request)
      BY DEF FormsOK
    <2>2. approved' = approved \cup {f.request} /\ UNCHANGED <<traded, forms>>
      BY <1>4 DEF Approve
    <2>3. CASE ValidLogin(f.login) /\ f.csrf = consentCsrf(f.login, ar)
      <3>1. f.request = ar
        BY <2>1, <2>3 DEF consentCsrf
      <3>2. issueAuthorizationCode(ar) /\ gated' = gated \cup {issued.codes + 1}
        BY <1>4, <2>3 DEF Approve
      <3>. QED
        BY <2>2, <3>1, <3>2, CodeIssued
    <2>4. CASE ~(ValidLogin(f.login) /\ f.csrf = consentCsrf(f.login, ar))
      <3>1. UNCHANGED <<codes, issued, gated>>
        BY <1>4, <2>4 DEF Approve
      <3>. QED
        BY <2>1, <2>2, <3>1, CodesStay DEF CodesOK
    <2>. QED
      BY <2>3, <2>4
  <1>5. ASSUME NEW c \in DOMAIN codes, NEW ar \in AuthorizeRequest, FailedExchange(c, ar)
        PROVE  CodesOK' /\ FormsOK'
    <2>1. UNCHANGED <<issued, traded, gated, approved, forms>>
      BY <1>5 DEF FailedExchange
    <2>2. CASE c \in ExpiredCodes
      BY <1>5, <2>1, <2>2, CodesGo DEF FailedExchange, AfterRefusal
    <2>3. CASE c \notin ExpiredCodes
      BY <1>5, <2>1, <2>3, CodesStay DEF FailedExchange, AfterRefusal, CodesOK
    <2>. QED
      BY <2>2, <2>3
  <1>6. ASSUME NEW c \in DOMAIN codes, ExchangeTorn(c) PROVE CodesOK' /\ FormsOK'
    BY <1>6, CodesGo DEF ExchangeTorn, FirstOfExchange
  <1>7. CASE issueDashboardSession \/ SetApproval \/ ClientCredentials \/ PresentLate
             \/ Stop \/ Tick \/ SessionStep \/ UNCHANGED httpVars
    <2>1. UNCHANGED <<codes, traded, gated, forms, approved>>
      BY <1>7 DEF issueDashboardSession, SetApproval, ClientCredentials, PresentLate, Stop,
         MemoryGone, Tick, SessionStep, BeginSession, UseSession, EndSession, SessionStarts,
         SessionRefused, ResponseCloses, Fence, httpVars, oauth
    <2>2. \/ issued' = issued
          \/ issued' = [issued EXCEPT !.tokens = issued.tokens + 1]
          \/ issued' = [issued EXCEPT !.logins = issued.logins + 1]
      BY <1>7 DEF issueDashboardSession, SetApproval, ClientCredentials, PresentLate, Stop,
         MemoryGone, Tick, SessionStep, BeginSession, UseSession, EndSession, SessionStarts,
         SessionRefused, ResponseCloses, Fence, httpVars, oauth
    <2>3. issued' \in [codes : Nat, tokens : Nat, logins : Nat] /\ issued'.codes = issued.codes
      BY <2>2 DEF CodesOK
    <2>. QED
      BY <2>1, <2>3, CodesStay
  <1>8. CASE Cleanup \/ Start
    BY <1>8, CodesGo DEF Cleanup, Start
  <1>. QED
    BY <1>2, <1>3, <1>4, <1>5, <1>6, <1>7, <1>8, ExchangeTakes DEF HttpNext, AuthorizationStep

(* A code brings at most one token in its life, across crashes inside the  *)
(* exchange, restarts and presentations in any number (http.ts:519-524).   *)
THEOREM CodesBringOneToken == HttpSpec => []OneTokenPerCode
  <1>1. AuthorizationInv => OneTokenPerCode
    BY DEF AuthorizationInv, CodesOK, OneTokenPerCode
  <1>. QED
    BY AuthorizationStart, AuthorizationStays, <1>1, PTL DEF HttpSpec

(* A form brings a code only for what the operator was shown and approved, *)
(* however many pages are open for however many logins and clients         *)
(* (http.ts:826-845).                                                      *)
THEOREM ConsentIsForWhatWasShown == HttpSpec => []ApprovedOnly
  <1>1. AuthorizationInv => ApprovedOnly
    BY DEF AuthorizationInv, FormsOK
  <1>. QED
    BY AuthorizationStart, AuthorizationStays, <1>1, PTL DEF HttpSpec

(* A refused exchange leaves the code: it goes only by time, by its        *)
(* exchange or with a process that dies in the middle of it                *)
(* (http.ts:478-519).                                                      *)
THEOREM CodesWait == HttpSpec => CodeWaitsForHolder
  <1> DEFINE Why(c) == now > codes[c].expires \/ traded'[c] > traded[c] \/ ~up'
  <1>1. AuthorizationInv /\ [HttpNext]_httpVars
          => [\A c \in DOMAIN codes \ DOMAIN codes' : Why(c)]_httpVars
    <2>1. SUFFICES ASSUME AuthorizationInv, HttpNext, NEW c \in DOMAIN codes \ DOMAIN codes'
                   PROVE  Why(c)
      OBVIOUS
    <2>2. CASE codes' = codes
      BY <2>1, <2>2
    <2>3. ASSUME NEW S, codes' = Without(codes, S) PROVE c \in S
      BY <2>1, <2>3 DEF Without, Restrict
    <2>4. ASSUME NEW ar, issueAuthorizationCode(ar) PROVE FALSE
      BY <2>1, <2>4 DEF issueAuthorizationCode, With
    <2>5. ASSUME c \in ExpiredCodes PROVE Why(c)
      BY <2>5 DEF ExpiredCodes
    <2>6. CASE Cleanup \/ Start
      BY <2>3, <2>5, <2>6 DEF Cleanup, Start
    <2>7. ASSUME NEW d \in DOMAIN codes, NEW ar, FailedExchange(d, ar) PROVE Why(c)
      BY <2>1, <2>3, <2>5, <2>7 DEF FailedExchange, AfterRefusal
    <2>8. ASSUME NEW d \in DOMAIN codes, Exchange(d) PROVE Why(c)
      <3>1. c = d
        BY <2>3, <2>8 DEF Exchange
      <3>. QED
        BY <2>1, <2>8, <3>1, ExchangeTakes DEF AuthorizationInv
    <2>9. ASSUME NEW d \in DOMAIN codes, ExchangeTorn(d) PROVE Why(c)
      BY <2>9 DEF ExchangeTorn, MemoryGone
    <2>10. ASSUME NEW ar, NEW f, Authorize(ar) \/ Approve(f, ar) PROVE Why(c)
      BY <2>2, <2>4, <2>10 DEF Authorize, Approve
    <2>11. CASE issueDashboardSession \/ SetApproval \/ ClientCredentials \/ PresentLate
                \/ Stop \/ Tick \/ SessionStep
      BY <2>2, <2>11 DEF issueDashboardSession, SetApproval, ClientCredentials, PresentLate,
         Stop, Tick, SessionStep, BeginSession, UseSession, EndSession, SessionStarts,
         SessionRefused, ResponseCloses, Fence, oauth
    <2>12. ASSUME NEW ar, NEW l, ShowConsent(ar, l) PROVE Why(c)
      BY <2>2, <2>12 DEF ShowConsent
    <2>. QED
      BY <2>1, <2>6, <2>7, <2>8, <2>9, <2>10, <2>11, <2>12 DEF HttpNext, AuthorizationStep
  <1>. QED
    BY AuthorizationStart, AuthorizationStays, <1>1, PTL DEF HttpSpec, CodeWaitsForHolder

-----------------------------------------------------------------------------
(* The list of sessions, the reservations and the logins.                  *)

TokensOK == DOMAIN tokens \subseteq 1 .. issued.tokens /\ Range(tokens) \subseteq Nat

LoginsOK ==
  /\ DOMAIN logins \subseteq 1 .. issued.logins /\ Range(logins) \subseteq Nat
  /\ IsFiniteSet(DOMAIN logins) /\ Cardinality(DOMAIN logins) <= MAX_DASHBOARD_SESSIONS
  /\ ~up => logins = <<>>

(* Whoever holds a response open has begun, so its reservation is its      *)
(* first.                                                                  *)
SessionsOK ==
  /\ DOMAIN sessions \subseteq Transport /\ Range(sessions) \subseteq Nat
  /\ IsFiniteSet(DOMAIN sessions) /\ Cardinality(DOMAIN sessions) <= MAX_SESSIONS
  /\ transport \in [Transport -> {"unused", "starting", "open", "closed"}]
  /\ \A t \in Transport : t \in DOMAIN sessions <=> transport[t] = "open"
  /\ reserved \subseteq responses /\ responses \subseteq Transport
  /\ \A t \in responses : transport[t] # "unused"
  /\ IsFiniteSet(reserved) /\ pendingSessions = Cardinality(reserved)
  /\ ~up => sessions = <<>> /\ responses = {}

LEMMA EmptyFunction == DOMAIN <<>> = {} /\ Range(<<>>) = {}
  BY DEF Range

LEMMA WithoutIsFewer ==
  ASSUME NEW f, NEW S
  PROVE  /\ DOMAIN Without(f, S) = DOMAIN f \ S
         /\ \A x \in DOMAIN f \ S : Without(f, S)[x] = f[x]
         /\ Range(Without(f, S)) \subseteq Range(f)
  BY DEF Without, Restrict, Range

LEMMA WithIsOneMore ==
  ASSUME NEW f, NEW x, NEW v, NEW T, Range(f) \subseteq T, v \in T
  PROVE  /\ DOMAIN With(f, x, v) = DOMAIN f \cup {x}
         /\ Range(With(f, x, v)) \subseteq T
  BY DEF With, Range

(* Of a list within its cap as many go as make room for one more.          *)
LEMMA MakesRoom ==
  ASSUME NEW D, IsFiniteSet(D), NEW cap \in Nat \ {0}, Cardinality(D) <= cap,
         NEW S \in SUBSET D, Cardinality(S) = Beyond(Cardinality(D), cap), NEW x
  PROVE  IsFiniteSet((D \ S) \cup {x}) /\ Cardinality((D \ S) \cup {x}) <= cap
  <1>1. Cardinality(D) \in Nat /\ IsFiniteSet(S)
    BY FS_CardinalityType, FS_Subset
  <1>2. D \cap S = S
    OBVIOUS
  <1>3. IsFiniteSet(D \ S) /\ Cardinality(D \ S) = Cardinality(D) - Cardinality(S)
    BY <1>2, FS_Difference
  <1>4. Cardinality(D \ S) < cap /\ Cardinality(D \ S) \in Nat
    BY <1>1, <1>3, FS_CardinalityType DEF Beyond
  <1>. QED
    BY <1>3, <1>4, FS_AddElement

LEMMA ReservationBack ==
  ASSUME SessionsOK, NEW t \in Transport
  PROVE  IsFiniteSet(reserved \ {t}) /\ Released(t) = Cardinality(reserved \ {t})
  BY FS_RemoveElement DEF SessionsOK, Released

LEMMA ProcessGone ==
  ASSUME SessionsOK, LoginsOK, MemoryGone PROVE SessionsOK' /\ LoginsOK'
  <1>1. /\ sessions' = <<>> /\ logins' = <<>> /\ responses' = {} /\ reserved' = {}
        /\ pendingSessions' = 0
        /\ transport' = [t \in Transport |-> IF transport[t] = "unused" THEN "unused" ELSE "closed"]
    BY DEF MemoryGone
  <1>2. DOMAIN sessions' = {} /\ DOMAIN logins' = {}
        /\ Range(sessions') = {} /\ Range(logins') = {}
    BY <1>1, EmptyFunction
  <1>3. SessionsOK'
    BY <1>1, <1>2, FS_EmptySet, Limits DEF SessionsOK
  <1>4. LoginsOK'
    BY <1>1, <1>2, FS_EmptySet, Limits DEF LoginsOK
  <1>. QED
    BY <1>3, <1>4

LEMMA SessionStepKeeps ==
  ASSUME ClockOK, SessionsOK, SessionStep PROVE SessionsOK'
  <1>1. ASSUME NEW t \in Transport, NEW cred, BeginSession(t, cred) PROVE SessionsOK'
    <2>1. /\ transport[t] = "unused" /\ up /\ up' = up /\ sessions' = sessions
          /\ pendingSessions' = pendingSessions + 1
          /\ reserved' = reserved \cup {t} /\ responses' = responses \cup {t}
          /\ transport' = [transport EXCEPT ![t] = "starting"]
      BY <1>1 DEF BeginSession, Serves, process
    <2>2. t \notin reserved
      BY <2>1 DEF SessionsOK
    <2>3. IsFiniteSet(reserved') /\ pendingSessions' = Cardinality(reserved')
      BY <2>1, <2>2, FS_AddElement DEF SessionsOK
    <2>. QED
      BY <2>1, <2>3 DEF SessionsOK
  <1>2. ASSUME NEW t \in Transport, NEW cred, UseSession(t, cred) PROVE SessionsOK'
    <2>1. /\ t \in DOMAIN sessions /\ sessions' = [sessions EXCEPT ![t] = now] /\ up /\ up' = up
          /\ UNCHANGED <<transport, responses, reserved, pendingSessions>>
      BY <1>2 DEF UseSession, Serves, process
    <2>2. DOMAIN sessions' = DOMAIN sessions
      BY <2>1
    <2>3. Range(sessions') \subseteq Nat
      BY <2>1, Limits DEF SessionsOK, Range, ClockOK
    <2>. QED
      BY <2>1, <2>2, <2>3 DEF SessionsOK
  <1>3. ASSUME NEW t \in Transport, NEW cred, EndSession(t, cred) PROVE SessionsOK'
    <2>1. /\ t \in DOMAIN sessions /\ sessions' = Without(sessions, {t}) /\ up /\ up' = up
          /\ transport' = [transport EXCEPT ![t] = "closed"]
          /\ UNCHANGED <<responses, reserved, pendingSessions>>
      BY <1>3 DEF EndSession, Serves, process
    <2>2. DOMAIN sessions' = DOMAIN sessions \ {t} /\ Range(sessions') \subseteq Range(sessions)
      BY <2>1, WithoutIsFewer
    <2>3. IsFiniteSet(DOMAIN sessions') /\ Cardinality(DOMAIN sessions') <= MAX_SESSIONS
      BY <2>2, FS_Subset, FS_CardinalityType, Limits DEF SessionsOK
    <2>. QED
      BY <2>1, <2>2, <2>3 DEF SessionsOK
  <1>4. ASSUME NEW t \in Transport, SessionStarts(t) PROVE SessionsOK'
    <2>1. PICK S \in SUBSET DOMAIN sessions :
            /\ Cardinality(S) = Room(Cardinality(DOMAIN sessions))
            /\ sessions' = With(Without(sessions, S), t, now)
            /\ transport' = [u \in Transport |-> IF u = t THEN "open"
                                                 ELSE IF u \in S THEN "closed" ELSE transport[u]]
      BY <1>4 DEF SessionStarts
    <2>2. /\ up /\ up' = up /\ transport[t] = "starting" /\ responses' = responses
          /\ pendingSessions' = Released(t) /\ reserved' = reserved \ {t}
      BY <1>4 DEF SessionStarts, process
    <2> DEFINE left == Without(sessions, S)
               D == DOMAIN sessions
    <2>3. DOMAIN left = D \ S /\ Range(left) \subseteq Nat
      <3>1. Range(left) \subseteq Range(sessions) /\ DOMAIN left = D \ S
        BY WithoutIsFewer
      <3>. QED
        BY <3>1 DEF SessionsOK
    <2>10. now \in Nat
      BY Limits DEF ClockOK
    <2>4. /\ DOMAIN sessions' = (D \ S) \cup {t}
          /\ Range(sessions') \subseteq Nat
      <3>1. sessions' = With(left, t, now)
        BY <2>1
      <3> HIDE DEF left
      <3>. QED
        BY <3>1, <2>3, <2>10, WithIsOneMore
    <2>5. IsFiniteSet(DOMAIN sessions') /\ Cardinality(DOMAIN sessions') <= MAX_SESSIONS
      <3>1. /\ IsFiniteSet(D) /\ Cardinality(D) <= MAX_SESSIONS
            /\ Cardinality(S) = Beyond(Cardinality(D), MAX_SESSIONS) /\ S \in SUBSET D
            /\ MAX_SESSIONS \in Nat \ {0}
        BY <2>1, Limits DEF SessionsOK, Room
      <3> HIDE DEF D
      <3>2. IsFiniteSet((D \ S) \cup {t}) /\ Cardinality((D \ S) \cup {t}) <= MAX_SESSIONS
        BY <3>1, MakesRoom
      <3>. QED
        BY <3>2, <2>4
    <2>6. \A u \in Transport : u \in DOMAIN sessions' <=> transport'[u] = "open"
      BY <2>1, <2>2, <2>4 DEF SessionsOK
    <2>7. IsFiniteSet(reserved') /\ pendingSessions' = Cardinality(reserved')
      BY <2>2, ReservationBack
    <2>8. \A u \in responses' : transport'[u] # "unused"
      BY <2>1, <2>2 DEF SessionsOK
    <2>9. transport' \in [Transport -> {"unused", "starting", "open", "closed"}]
      BY <2>1 DEF SessionsOK
    <2>. QED
      BY <2>2, <2>4, <2>5, <2>6, <2>7, <2>8, <2>9 DEF SessionsOK
  <1>5. ASSUME NEW t \in Transport, SessionRefused(t) PROVE SessionsOK'
    BY <1>5 DEF SessionRefused, process, SessionsOK
  <1>6. ASSUME NEW t \in Transport, ResponseCloses(t) PROVE SessionsOK'
    <2>1. /\ up /\ up' = up /\ UNCHANGED <<sessions, transport>>
          /\ pendingSessions' = Released(t)
          /\ reserved' = reserved \ {t} /\ responses' = responses \ {t}
      BY <1>6 DEF ResponseCloses, process
    <2>. QED
      BY <2>1, ReservationBack DEF SessionsOK
  <1>7. CASE Fence
    BY <1>7 DEF Fence, mcp, SessionsOK
  <1>. QED
    BY <1>1, <1>2, <1>3, <1>4, <1>5, <1>6, <1>7 DEF SessionStep

LEMMA CleanupKeeps ==
  ASSUME SessionsOK, Cleanup PROVE SessionsOK'
  <1>1. /\ up /\ up' = up /\ UNCHANGED <<responses, reserved, pendingSessions>>
        /\ sessions' = Without(sessions, Idle)
        /\ transport' = [t \in Transport |-> IF t \in Idle THEN "closed" ELSE transport[t]]
    BY DEF Cleanup, process
  <1>2. DOMAIN sessions' = DOMAIN sessions \ Idle /\ Range(sessions') \subseteq Range(sessions)
    BY <1>1, WithoutIsFewer
  <1>3. IsFiniteSet(DOMAIN sessions') /\ Cardinality(DOMAIN sessions') <= MAX_SESSIONS
    BY <1>2, FS_Subset, FS_CardinalityType, Limits DEF SessionsOK
  <1>4. /\ transport' \in [Transport -> {"unused", "starting", "open", "closed"}]
        /\ \A t \in Transport : t \in DOMAIN sessions' <=> transport'[t] = "open"
        /\ \A t \in responses : transport'[t] # "unused"
    BY <1>1, <1>2 DEF SessionsOK
  <1>. QED
    BY <1>1, <1>2, <1>3, <1>4 DEF SessionsOK

LEMMA LoginIssued ==
  ASSUME ClockOK, CodesOK, LoginsOK, issueDashboardSession PROVE LoginsOK'
  <1> DEFINE n == issued.logins + 1
             D == DOMAIN Kept
  <1>1. PICK S \in SUBSET D :
          /\ Cardinality(S) = Beyond(Cardinality(D), MAX_DASHBOARD_SESSIONS)
          /\ logins' = With(Without(Kept, S), n, now + LoginTTL)
    BY DEF issueDashboardSession
  <1>2. up /\ up' = up /\ issued' = [issued EXCEPT !.logins = n]
    BY DEF issueDashboardSession, process
  <1>3. n \in Nat /\ issued'.logins = n /\ issued.logins \in Nat
    BY <1>2 DEF CodesOK
  <1> DEFINE left == Without(Kept, S)
  <1>4. D \subseteq DOMAIN logins /\ Range(Kept) \subseteq Range(logins)
    <2>1. D = DOMAIN logins \ Expired(logins) /\ Range(Kept) \subseteq Range(logins)
      BY WithoutIsFewer DEF Kept
    <2>. QED
      BY <2>1
  <1>5. DOMAIN left = D \ S /\ Range(left) \subseteq Range(Kept)
    BY WithoutIsFewer
  <1>6. Range(left) \subseteq Nat /\ now + LoginTTL \in Nat
    <2>1. Range(left) \subseteq Nat
      BY <1>4, <1>5 DEF LoginsOK
    <2>2. now + LoginTTL \in Nat
      BY Limits DEF ClockOK
    <2>. QED
      BY <2>1, <2>2
  <1>7. IsFiniteSet(D) /\ Cardinality(D) <= MAX_DASHBOARD_SESSIONS
    BY <1>4, FS_Subset, FS_CardinalityType, Limits DEF LoginsOK
  <1>8. logins' = With(left, n, now + LoginTTL)
    BY <1>1
  <1>9. D \subseteq 1 .. n
    BY <1>3, <1>4 DEF LoginsOK
  <1> HIDE DEF left, D, n
  <1>10. DOMAIN logins' = (D \ S) \cup {n} /\ Range(logins') \subseteq Nat
    BY <1>5, <1>6, <1>8, WithIsOneMore
  <1>11. IsFiniteSet((D \ S) \cup {n})
         /\ Cardinality((D \ S) \cup {n}) <= MAX_DASHBOARD_SESSIONS
    BY <1>1, <1>7, MakesRoom, Limits
  <1>12. n \in 1 .. n
    BY <1>3 DEF n
  <1>13. DOMAIN logins' \subseteq 1 .. issued'.logins
    BY <1>3, <1>9, <1>10, <1>12
  <1>. QED
    BY <1>2, <1>10, <1>11, <1>13 DEF LoginsOK

(* Fewer logins or the same, in a process that goes on.                    *)
LEMMA LoginsStay ==
  ASSUME CodesOK, LoginsOK, up' = up \/ up',
         issued'.logins = issued.logins, logins' = logins \/ (up /\ \E S : logins' = Without(logins, S))
  PROVE  LoginsOK'
  <1>1. CASE logins' = logins
    BY <1>1 DEF LoginsOK
  <1>2. CASE up /\ \E S : logins' = Without(logins, S)
    <2>1. PICK S : logins' = Without(logins, S)
      BY <1>2
    <2>2. DOMAIN logins' = DOMAIN logins \ S /\ Range(logins') \subseteq Range(logins)
      BY <2>1, WithoutIsFewer
    <2>3. IsFiniteSet(DOMAIN logins') /\ Cardinality(DOMAIN logins') <= MAX_DASHBOARD_SESSIONS
      BY <2>2, FS_Subset, FS_CardinalityType, Limits DEF LoginsOK
    <2>. QED
      BY <1>2, <2>2, <2>3 DEF LoginsOK
  <1>. QED
    BY <1>1, <1>2

LEMMA TokensStay ==
  ASSUME TokensOK, issued'.tokens = issued.tokens,
         tokens' = tokens \/ \E S : tokens' = Without(tokens, S)
  PROVE  TokensOK'
  <1>1. CASE tokens' = tokens
    BY <1>1 DEF TokensOK
  <1>2. ASSUME NEW S, tokens' = Without(tokens, S) PROVE TokensOK'
    <2>1. DOMAIN tokens' = DOMAIN tokens \ S /\ Range(tokens') \subseteq Range(tokens)
      BY <1>2, WithoutIsFewer
    <2>. QED
      BY <2>1 DEF TokensOK
  <1>. QED
    BY <1>1, <1>2

LEMMA TokenIssued ==
  ASSUME ClockOK, CodesOK, TokensOK, IssueToken,
         issued' = [issued EXCEPT !.tokens = issued.tokens + 1]
  PROVE  TokensOK'
  <1> DEFINE n == issued.tokens + 1
  <1>1. tokens' = With(tokens, n, now + TokenTTL)
    BY DEF IssueToken
  <1>2. now + TokenTTL \in Nat /\ n \in Nat /\ issued'.tokens = n
    <2>1. now + TokenTTL \in Nat
      BY Limits DEF ClockOK
    <2>2. n \in Nat /\ issued'.tokens = n
      BY DEF CodesOK
    <2>. QED
      BY <2>1, <2>2
  <1>3. 1 .. issued.tokens \subseteq 1 .. n /\ n \in 1 .. n
    BY DEF CodesOK
  <1> HIDE DEF n
  <1>4. DOMAIN tokens' = DOMAIN tokens \cup {n} /\ Range(tokens') \subseteq Nat
    BY <1>1, <1>2, WithIsOneMore DEF TokensOK
  <1>. QED
    BY <1>2, <1>3, <1>4 DEF TokensOK

HttpInv == AuthorizationInv /\ TokensOK /\ LoginsOK /\ SessionsOK

LEMMA HttpStart == HttpInit => HttpInv
  <1>1. SUFFICES ASSUME HttpInit PROVE TokensOK /\ LoginsOK /\ SessionsOK
    BY AuthorizationStart DEF HttpInv
  <1>2. /\ DOMAIN tokens = {} /\ DOMAIN logins = {} /\ DOMAIN sessions = {}
        /\ Range(tokens) = {} /\ Range(logins) = {} /\ Range(sessions) = {}
    BY <1>1, EmptyFunction DEF HttpInit
  <1>3. TokensOK
    BY <1>2 DEF TokensOK
  <1>4. LoginsOK
    BY <1>1, <1>2, FS_EmptySet, Limits DEF HttpInit, LoginsOK
  <1>5. SessionsOK
    BY <1>1, <1>2, FS_EmptySet, Limits DEF HttpInit, SessionsOK
  <1>. QED
    BY <1>3, <1>4, <1>5

LEMMA HttpStays == HttpInv /\ [HttpNext]_httpVars => HttpInv'
  <1> DEFINE Three == TokensOK' /\ LoginsOK' /\ SessionsOK'
  <1>1. SUFFICES ASSUME HttpInv, [HttpNext]_httpVars PROVE Three
    BY AuthorizationStays DEF HttpInv
  <1>2. /\ ClockOK /\ CodesOK /\ TokensOK /\ LoginsOK /\ SessionsOK
    BY <1>1 DEF HttpInv, AuthorizationInv
  <1>3. ASSUME UNCHANGED <<up, mcp>> PROVE SessionsOK'
    BY <1>2, <1>3 DEF SessionsOK, mcp
  <1>4. ASSUME UNCHANGED <<up, tokens, logins, mcp>>,
               issued'.tokens = issued.tokens, issued'.logins = issued.logins
        PROVE  Three
    BY <1>2, <1>3, <1>4, TokensStay, LoginsStay
  <1>5. ASSUME NEW ar, Authorize(ar) \/ (\E f : Approve(f, ar)) \/ (\E l : ShowConsent(ar, l))
                       \/ (\E c : FailedExchange(c, ar))
        PROVE  Three
    <2>1. UNCHANGED <<up, tokens, logins, mcp>>
      BY <1>5 DEF Authorize, Approve, ShowConsent, FailedExchange, process
    <2>2. issued' = issued \/ issued' = [issued EXCEPT !.codes = issued.codes + 1]
      BY <1>5 DEF Authorize, Approve, ShowConsent, FailedExchange, issueAuthorizationCode
    <2>3. issued'.tokens = issued.tokens /\ issued'.logins = issued.logins
      BY <1>2, <2>2 DEF CodesOK
    <2>. QED
      BY <1>4, <2>1, <2>3
  <1>6. ASSUME NEW c, Exchange(c) PROVE Three
    <2>1. IssueToken /\ issued' = [issued EXCEPT !.tokens = issued.tokens + 1]
          /\ UNCHANGED <<up, logins, mcp>>
      BY <1>6 DEF Exchange, process
    <2>2. issued'.logins = issued.logins
      BY <1>2, <2>1 DEF CodesOK
    <2>. QED
      BY <1>2, <1>3, <2>1, <2>2, TokenIssued, LoginsStay
  <1>7. CASE ClientCredentials
    <2>1. IssueToken /\ issued' = [issued EXCEPT !.tokens = issued.tokens + 1]
          /\ UNCHANGED <<up, logins, mcp>>
      BY <1>7 DEF ClientCredentials, process
    <2>2. issued'.logins = issued.logins
      BY <1>2, <2>1 DEF CodesOK
    <2>. QED
      BY <1>2, <1>3, <2>1, <2>2, TokenIssued, LoginsStay
  <1>8. ASSUME NEW c, ExchangeTorn(c) \/ Stop PROVE Three
    <2>1. MemoryGone /\ UNCHANGED <<tokens, issued>>
      BY <1>8 DEF ExchangeTorn, FirstOfExchange, Stop
    <2>. QED
      BY <1>2, <2>1, ProcessGone, TokensStay
  <1>9. CASE issueDashboardSession
    <2>1. UNCHANGED <<up, tokens, mcp>> /\ issued' = [issued EXCEPT !.logins = issued.logins + 1]
      BY <1>9 DEF issueDashboardSession, process
    <2>2. issued'.tokens = issued.tokens
      BY <1>2, <2>1 DEF CodesOK
    <2>. QED
      BY <1>2, <1>3, <1>9, <2>1, <2>2, LoginIssued, TokensStay
  <1>10. CASE PresentLate
    <2>1. UNCHANGED <<mcp, issued>> /\ up /\ up' = up
      BY <1>10 DEF PresentLate, process
    <2>2. /\ logins' = logins \/ (\E S : logins' = Without(logins, S))
          /\ tokens' = tokens \/ (\E S : tokens' = Without(tokens, S))
      BY <1>10 DEF PresentLate
    <2>. QED
      BY <1>2, <1>3, <2>1, <2>2, TokensStay, LoginsStay
  <1>11. CASE Cleanup
    <2>1. UNCHANGED <<up, logins, issued>> /\ tokens' = Without(tokens, Expired(tokens))
      BY <1>11 DEF Cleanup, process
    <2>. QED
      BY <1>2, <1>11, <2>1, CleanupKeeps, TokensStay, LoginsStay
  <1>12. CASE Start
    <2>1. /\ up' = TRUE /\ UNCHANGED <<mcp, logins, issued>>
          /\ tokens' = Without(tokens, Expired(tokens))
      BY <1>12 DEF Start
    <2>2. SessionsOK'
      BY <1>2, <2>1 DEF SessionsOK, mcp
    <2>. QED
      BY <1>2, <2>1, <2>2, TokensStay, LoginsStay
  <1>13. CASE SessionStep
    <2>1. UNCHANGED <<up, oauth>>
      BY <1>13 DEF SessionStep, BeginSession, UseSession, EndSession, SessionStarts,
         SessionRefused, ResponseCloses, Fence, process
    <2>. QED
      BY <1>2, <1>13, <2>1, SessionStepKeeps, TokensStay, LoginsStay DEF oauth
  <1>14. CASE SetApproval \/ Tick \/ UNCHANGED httpVars
    BY <1>4, <1>14 DEF SetApproval, Tick, httpVars, process, oauth
  <1>. QED
    BY <1>1, <1>5, <1>6, <1>7, <1>8, <1>9, <1>10, <1>11, <1>12, <1>13, <1>14
       DEF HttpNext, AuthorizationStep

(* Every state is well typed, the list of sessions and that of logins stay *)
(* within their caps, each listed session has an open transport, and the   *)
(* pending counter is the number of reservations not given back: in every  *)
(* order of refusals, lost clients, evictions and deaths                   *)
(* (http.ts:1083-1106).                                                    *)
THEOREM SessionsAreCounted == HttpSpec => []SessionsCounted
  <1>1. HttpInv => HttpTypeOK
    <2>1. SUFFICES ASSUME HttpInv PROVE HttpTypeOK
      OBVIOUS
    <2>2. ClockOK /\ CodesOK /\ FormsOK /\ TokensOK /\ LoginsOK /\ SessionsOK
      BY <2>1 DEF HttpInv, AuthorizationInv
    <2>3. {up, fenced, approval} \subseteq BOOLEAN
      BY <2>2, Zenon DEF ClockOK
    <2>4. Range(codes) \subseteq Code
      BY <2>2 DEF CodesOK, Range
    <2>. QED
      BY <2>2, <2>3, <2>4
         DEF HttpTypeOK, ClockOK, CodesOK, FormsOK, TokensOK, LoginsOK, SessionsOK
  <1>2. HttpInv => SessionsCounted
    BY <1>1 DEF HttpInv, SessionsOK, SessionsCounted
  <1>. QED
    BY HttpStart, HttpStays, <1>2, PTL DEF HttpSpec

(* What makes room is the one session nobody is idler than. *)
LEMMA IdlestGoes ==
  ASSUME SessionsOK, NEW S \in SUBSET DOMAIN sessions, LeastActive(S), NEW t \in S,
         Cardinality(S) = Room(Cardinality(DOMAIN sessions))
  PROVE  /\ Cardinality(DOMAIN sessions) >= MAX_SESSIONS
         /\ \A u \in DOMAIN sessions : sessions[t] <= sessions[u]
  <1> DEFINE n == Cardinality(DOMAIN sessions)
  <1>1. n \in Nat /\ n <= MAX_SESSIONS /\ IsFiniteSet(S) /\ Cardinality(S) \in Nat
    BY FS_CardinalityType, FS_Subset DEF SessionsOK
  <1>2. Cardinality(S) # 0
    BY <1>1, FS_EmptySet
  <1>3. n >= MAX_SESSIONS /\ Cardinality(S) = 1
    BY <1>1, <1>2, Limits DEF Room, Beyond
  <1>4. S = {t}
    <2>1. {t} \in SUBSET S /\ Cardinality({t}) = 1
      BY FS_Singleton
    <2>. QED
      BY <1>1, <1>3, <2>1, FS_Subset
  <1>5. \A u \in DOMAIN sessions : sessions[u] \in Nat
    BY DEF SessionsOK, Range
  <1>6. \A u \in DOMAIN sessions : sessions[t] <= sessions[u]
    BY <1>4, <1>5 DEF LeastActive
  <1>. QED
    BY <1>3, <1>6

(* A session somebody uses is not taken away: it goes because its client   *)
(* or the process ended it, because its time passed unused, or as the      *)
(* idlest of a full list (http.ts:1015-1062).                              *)
THEOREM ActiveStay == HttpSpec => ActiveSessionsStay
  <1> DEFINE Why(t) ==
        \/ ~up' \/ \E cred \in DOMAIN tokens \union {Key} : EndSession(t, cred)
        \/ now - sessions[t] > SessionTTL
        \/ /\ Cardinality(DOMAIN sessions) >= MAX_SESSIONS
           /\ \A u \in DOMAIN sessions : sessions[t] <= sessions[u]
  <1>1. HttpInv /\ [HttpNext]_httpVars
          => [\A t \in DOMAIN sessions \ DOMAIN sessions' : Why(t)]_httpVars
    <2>1. SUFFICES ASSUME HttpInv, HttpNext, NEW t \in DOMAIN sessions \ DOMAIN sessions'
                   PROVE  Why(t)
      OBVIOUS
    <2>2. CASE sessions' = sessions
      BY <2>1, <2>2
    <2>3. CASE Cleanup
      <3>1. t \in Idle
        BY <2>1, <2>3, WithoutIsFewer DEF Cleanup
      <3>. QED
        BY <3>1 DEF Idle
    <2>4. ASSUME NEW u \in Transport, SessionStarts(u) PROVE Why(t)
      <3>1. PICK S \in SUBSET DOMAIN sessions :
              /\ Cardinality(S) = Room(Cardinality(DOMAIN sessions))
              /\ LeastActive(S)
              /\ sessions' = With(Without(sessions, S), u, now)
        BY <2>4 DEF SessionStarts
      <3>2. t \in S
        BY <2>1, <3>1 DEF With, Without, Restrict
      <3>. QED
        BY <2>1, <3>1, <3>2, IdlestGoes DEF HttpInv
    <2>5. ASSUME NEW u \in Transport, NEW cred \in DOMAIN tokens \cup {Key}, EndSession(u, cred)
          PROVE  Why(t)
      <3>1. u = t
        BY <2>1, <2>5, WithoutIsFewer DEF EndSession
      <3>. QED
        BY <2>5, <3>1
    <2>6. ASSUME NEW u \in Transport, NEW cred, UseSession(u, cred) PROVE Why(t)
      BY <2>1, <2>6 DEF UseSession
    <2>7. ASSUME NEW c, ExchangeTorn(c) \/ Stop PROVE Why(t)
      BY <2>7 DEF ExchangeTorn, Stop, MemoryGone
    <2>8. ASSUME NEW u, NEW cred,
                 BeginSession(u, cred) \/ SessionRefused(u) \/ ResponseCloses(u) \/ Fence
          PROVE  Why(t)
      BY <2>2, <2>8 DEF BeginSession, SessionRefused, ResponseCloses, Fence, mcp
    <2>9. CASE ClientCredentials \/ PresentLate \/ Start \/ Tick \/ issueDashboardSession
               \/ SetApproval
      BY <2>2, <2>9 DEF ClientCredentials, PresentLate, Start, Tick, issueDashboardSession,
         SetApproval, mcp
    <2>10. ASSUME NEW ar, NEW l, NEW f, NEW c,
                  Authorize(ar) \/ ShowConsent(ar, l) \/ Approve(f, ar) \/ FailedExchange(c, ar)
                  \/ Exchange(c)
           PROVE  Why(t)
      BY <2>2, <2>10 DEF Authorize, ShowConsent, Approve, FailedExchange, Exchange, mcp
    <2>11. CASE AuthorizationStep
      BY <2>7, <2>9, <2>10, <2>11 DEF AuthorizationStep
    <2>12. CASE SessionStep
      BY <2>4, <2>5, <2>6, <2>8, <2>12 DEF SessionStep
    <2>. QED
      BY <2>1, <2>3, <2>7, <2>9, <2>11, <2>12 DEF HttpNext
  <1>. QED
    BY HttpStart, HttpStays, <1>1, PTL DEF HttpSpec, ActiveSessionsStay
=============================================================================
