----------------------------- MODULE HttpServer -----------------------------
(***************************************************************************)
(* The HTTP server (http.ts): authorization codes and access tokens, the   *)
(* operator's approval, browser logins, and MCP sessions.                  *)
(*                                                                         *)
(* A route handler is atomic up to its first await, and only an MCP        *)
(* initialization awaits.  Codes and tokens are rows of tokens.sqlite and  *)
(* outlive the process; logins and MCP sessions do not.  Secrets are       *)
(* numbered in the order they are issued; a code challenge stands for the  *)
(* verifier it is the hash of.                                             *)
(***************************************************************************)
EXTENDS Naturals, FiniteSets, Functions

CONSTANTS
  Redirect,     \* redirect targets, of which
  Allowed,      \* are on an allowlisted host
  Challenge,
  Transport,    \* one for each MCP initialization of a behaviour
  Key,          \* the API key, as a credential
  MAX_SESSIONS, MAX_DASHBOARD_SESSIONS,
  CodeTTL, TokenTTL, LoginTTL, SessionTTL,
  MaxClock, MaxCodes, MaxTokens, MaxLogins, MaxForms, MaxStarts   \* bounds

ASSUME HttpAssumption ==
  /\ Allowed \subseteq Redirect
  /\ {MAX_SESSIONS, MAX_DASHBOARD_SESSIONS} \subseteq Nat \ {0}
  /\ {CodeTTL, TokenTTL, LoginTTL, SessionTTL} \subseteq Nat
  /\ {MaxClock, MaxCodes, MaxTokens, MaxLogins, MaxForms, MaxStarts} \subseteq Nat

VARIABLES
  now,
  up, fenced,       \* the process runs; its store lock was taken over
  approval,         \* MEMORIA_AUTHORIZE_REQUIRE_APPROVAL
  codes, tokens,    \* tokens.sqlite
  logins,           \* dashboardSessions: when each ends
  forms,            \* consent pages in the operator's browser
  sessions,         \* MCP sessions: when each was last used
  transport,        \* where each transport is
  responses,        \* initializations whose response is still open
  reserved,         \* those that still hold their reservation
  pendingSessions,
  issued,           \* history: how many codes, tokens and logins so far
  traded,           \* history: how many tokens each code brought
  approved,         \* history: what the operator pressed Approve for
  gated,            \* history: codes issued on a form while the gate was on
  about, starts     \* bounds: a behaviour is about authorization or about sessions

oauth   == <<approval, codes, tokens, logins, forms, issued, traded, approved, gated>>
mcp     == <<sessions, transport, responses, reserved, pendingSessions>>
process == <<up, fenced, about, starts>>
httpVars == <<now, process, oauth, mcp>>

AuthorizeRequest == [redirect : Redirect, challenge : Challenge]
Code == [redirect : Redirect, challenge : Challenge, expires : Nat]
Without(f, S) == Restrict(f, DOMAIN f \ S)
With(f, x, v) == [y \in DOMAIN f \union {x} |-> IF y = x THEN v ELSE f[y]]

(* What goes with the process. *)
MemoryGone ==
  /\ up' = FALSE /\ logins' = <<>> /\ sessions' = <<>>
  /\ pendingSessions' = 0 /\ responses' = {} /\ reserved' = {}
  /\ transport' = [t \in Transport |-> IF transport[t] = "unused" THEN "unused" ELSE "closed"]

Expired(f) == {x \in DOMAIN f : now > f[x]}
ExpiredCodes == {c \in DOMAIN codes : now > codes[c].expires}

-----------------------------------------------------------------------------
(* Authorization codes.                                                    *)

(* readAuthorizeRequest: PKCE and an allowlisted redirect, or no answer.   *)
Acceptable(ar) == ar.redirect \in Allowed

ValidLogin(l) == l \in DOMAIN logins /\ now <= logins[l]

(* Mutant: the form is bound to the login and the redirect alone. *)
BoundToRedirect(l, ar) == [login |-> l, request |-> ar.redirect]

(* What the consent form's csrf field is the hash of. *)
consentCsrf(l, ar) == [login |-> l, request |-> ar]

issueAuthorizationCode(ar) ==
  /\ issued.codes < MaxCodes
  /\ issued' = [issued EXCEPT !.codes = @ + 1]
  /\ codes' = With(codes, issued.codes + 1,
                   [redirect |-> ar.redirect, challenge |-> ar.challenge,
                    expires |-> now + CodeTTL])

(* GET /authorize without the gate, or with the API key.                   *)
Authorize(ar) ==
  /\ up /\ Acceptable(ar)
  /\ issueAuthorizationCode(ar)
  /\ UNCHANGED <<now, process, mcp, approval, tokens, logins, forms, traded, approved, gated>>

(* GET /authorize behind the gate, in a browser that is logged in: a page  *)
(* with a form.                                                            *)
ShowConsent(ar, l) ==
  /\ up /\ approval /\ Acceptable(ar) /\ ValidLogin(l)
  /\ Cardinality(forms) < MaxForms
  /\ forms' = forms \union {[request |-> ar, csrf |-> consentCsrf(l, ar), login |-> l]}
  /\ UNCHANGED <<now, process, mcp, approval, codes, tokens, logins, issued, traded, approved, gated>>

(* POST /authorize: the operator presses Approve on a page, and the body   *)
(* asks for ar; the two differ when the form was changed on the way.       *)
Approve(f, ar) ==
  LET verified == ValidLogin(f.login) /\ f.csrf = consentCsrf(f.login, ar)
  IN  /\ up /\ approval /\ Acceptable(ar)
      /\ approved' = approved \union {f.request}
      /\ IF verified
         THEN issueAuthorizationCode(ar) /\ gated' = gated \union {issued.codes + 1}
         ELSE UNCHANGED <<codes, issued, gated>>
      /\ UNCHANGED <<now, process, mcp, approval, tokens, logins, forms, traded>>

-----------------------------------------------------------------------------
(* POST /token.  The client has authenticated with its secret.             *)

IssueToken ==
  /\ issued.tokens < MaxTokens
  /\ tokens' = With(tokens, issued.tokens + 1, now + TokenTTL)

Traded(c) == [traded EXCEPT ![c] = @ + 1]

(* An exchange that succeeds takes the code first, then issues the token.  *)
Exchange(c) ==
  /\ up /\ c \in DOMAIN codes \ ExpiredCodes
  /\ codes' = Without(codes, {c})
  /\ IssueToken
  /\ issued' = [issued EXCEPT !.tokens = @ + 1]
  /\ traded' = Traded(c)
  /\ UNCHANGED <<now, process, mcp, approval, logins, forms, approved, gated>>

(* Mutant: the token first. *)
TokenFirst(c) ==
  /\ IssueToken
  /\ issued' = [issued EXCEPT !.tokens = @ + 1]
  /\ traded' = Traded(c)
  /\ UNCHANGED codes

(* The first of the two statements of an exchange. *)
FirstOfExchange(c) ==
  /\ codes' = Without(codes, {c})
  /\ UNCHANGED <<tokens, issued, traded>>

(* The process dies between the two. *)
ExchangeTorn(c) ==
  /\ up /\ c \in DOMAIN codes \ ExpiredCodes
  /\ FirstOfExchange(c)
  /\ MemoryGone
  /\ UNCHANGED <<now, fenced, about, starts, approval, forms, approved, gated>>

(* Mutant: a wrong verifier or redirect spends the code. *)
AnyAttemptSpends(c, ar) ==
  IF c \in ExpiredCodes \/ ar # [redirect |-> codes[c].redirect, challenge |-> codes[c].challenge]
  THEN Without(codes, {c}) ELSE codes

(* What an exchange that fails leaves of the codes: one refused for its    *)
(* redirect or verifier is kept for its holder, an expired one goes.       *)
AfterRefusal(c, ar) == IF c \in ExpiredCodes THEN Without(codes, {c}) ELSE codes

FailedExchange(c, ar) ==
  /\ up /\ c \in DOMAIN codes
  /\ c \in ExpiredCodes \/ ar # [redirect |-> codes[c].redirect, challenge |-> codes[c].challenge]
  /\ codes' = AfterRefusal(c, ar)
  /\ UNCHANGED <<now, process, mcp, approval, tokens, logins, forms, issued, traded, approved, gated>>

(* client_credentials, withdrawn while the gate is on. *)
ClientCredentials ==
  /\ up /\ ~approval
  /\ IssueToken
  /\ issued' = [issued EXCEPT !.tokens = @ + 1]
  /\ UNCHANGED <<now, process, mcp, approval, codes, logins, forms, traded, approved, gated>>

-----------------------------------------------------------------------------
(* Browser logins.                                                         *)

Kept == Without(logins, Expired(logins))

SoonestEnds(S) == \A l \in S, k \in DOMAIN Kept \ S : Kept[l] <= Kept[k]

(* How many go so that one more fits. *)
Beyond(n, cap) == IF n >= cap THEN n - cap + 1 ELSE 0

issueDashboardSession ==
  /\ up /\ issued.logins < MaxLogins
  /\ \E S \in SUBSET DOMAIN Kept :
       /\ Cardinality(S) = Beyond(Cardinality(DOMAIN Kept), MAX_DASHBOARD_SESSIONS)
       /\ SoonestEnds(S)
       /\ logins' = With(Without(Kept, S), issued.logins + 1, now + LoginTTL)
  /\ issued' = [issued EXCEPT !.logins = @ + 1]
  /\ UNCHANGED <<now, process, mcp, approval, codes, tokens, forms, traded, approved, gated>>

(* A cookie or a token presented after its time is refused and forgotten.  *)
PresentLate ==
  /\ up
  /\ \/ \E l \in Expired(logins) : logins' = Without(logins, {l}) /\ UNCHANGED tokens
     \/ \E t \in Expired(tokens) : tokens' = Without(tokens, {t}) /\ UNCHANGED logins
  /\ UNCHANGED <<now, process, mcp, approval, codes, forms, issued, traded, approved, gated>>

SetApproval ==
  /\ approval' = ~approval
  /\ UNCHANGED <<now, process, mcp, codes, tokens, logins, forms, issued, traded, approved, gated>>

-----------------------------------------------------------------------------
(* MCP sessions.                                                           *)

(* authenticate on /mcp: the API key or a token of its time; never a login. *)
Authenticated(cred) == cred = Key \/ (cred \in DOMAIN tokens /\ now <= tokens[cred])
Serves(cred) == up /\ ~fenced /\ Authenticated(cred)

(* Mutant: the response's close gives the reservation back once more. *)
ReleasedTwice(t) == pendingSessions - 1

Released(t) == IF t \in reserved THEN pendingSessions - 1 ELSE pendingSessions

(* POST /mcp initialize, up to its await. *)
BeginSession(t, cred) ==
  /\ Serves(cred) /\ transport[t] = "unused"
  /\ pendingSessions < MAX_SESSIONS
  /\ pendingSessions' = pendingSessions + 1
  /\ reserved' = reserved \union {t} /\ responses' = responses \union {t}
  /\ transport' = [transport EXCEPT ![t] = "starting"]
  /\ UNCHANGED <<now, process, oauth, sessions>>

(* Mutant: no matter which. *)
AnySession(S) == TRUE

LeastActive(S) == \A t \in S, u \in DOMAIN sessions \ S : sessions[t] <= sessions[u]

Room(n) == Beyond(n, MAX_SESSIONS)

(* onsessioninitialized, with makeRoomForSession.  A transport closed here *)
(* is no longer listed when its onclose runs. *)
SessionStarts(t) ==
  /\ up /\ transport[t] = "starting"
  /\ \E S \in SUBSET DOMAIN sessions :
       /\ Cardinality(S) = Room(Cardinality(DOMAIN sessions))
       /\ LeastActive(S)
       /\ sessions' = With(Without(sessions, S), t, now)
       /\ transport' = [u \in Transport |-> IF u = t THEN "open"
                                            ELSE IF u \in S THEN "closed" ELSE transport[u]]
  /\ pendingSessions' = Released(t)
  /\ reserved' = reserved \ {t}
  /\ UNCHANGED <<now, process, oauth, responses>>

(* The SDK refuses the request: no session, and the response ends.         *)
SessionRefused(t) ==
  /\ up /\ transport[t] = "starting"
  /\ transport' = [transport EXCEPT ![t] = "closed"]
  /\ UNCHANGED <<now, process, oauth, sessions, responses, reserved, pendingSessions>>

(* The response of an initialization closes, before or after the SDK got  *)
(* to the request: it was sent, or the client went away.                   *)
ResponseCloses(t) ==
  /\ up /\ t \in responses
  /\ responses' = responses \ {t}
  /\ pendingSessions' = Released(t)
  /\ reserved' = reserved \ {t}
  /\ UNCHANGED <<now, process, oauth, sessions, transport>>

(* POST and GET /mcp in a session. *)
UseSession(t, cred) ==
  /\ Serves(cred) /\ t \in DOMAIN sessions
  /\ sessions' = [sessions EXCEPT ![t] = now]
  /\ UNCHANGED <<now, process, oauth, transport, responses, reserved, pendingSessions>>

(* DELETE /mcp: the transport closes, and its onclose takes it off the list. *)
EndSession(t, cred) ==
  /\ Serves(cred) /\ t \in DOMAIN sessions
  /\ transport' = [transport EXCEPT ![t] = "closed"]
  /\ sessions' = Without(sessions, {t})
  /\ UNCHANGED <<now, process, oauth, responses, reserved, pendingSessions>>

Idle == {t \in DOMAIN sessions : now - sessions[t] > SessionTTL}

(* The cleanup timer. *)
Cleanup ==
  /\ up
  /\ sessions' = Without(sessions, Idle)
  /\ transport' = [t \in Transport |-> IF t \in Idle THEN "closed" ELSE transport[t]]
  /\ tokens' = Without(tokens, Expired(tokens))
  /\ codes' = Without(codes, ExpiredCodes)
  /\ UNCHANGED <<now, process, approval, logins, forms, issued, traded, approved, gated,
                 responses, reserved, pendingSessions>>

-----------------------------------------------------------------------------
(* The process.                                                            *)

Fence == /\ up /\ ~fenced /\ fenced' = TRUE
         /\ UNCHANGED <<now, up, about, starts, oauth, mcp>>

(* shutdown, or death. *)
Stop ==
  /\ up /\ MemoryGone
  /\ UNCHANGED <<now, fenced, about, starts, approval, codes, tokens, forms, issued, traded, approved, gated>>

(* The expired rows go when the module is loaded. *)
Start ==
  /\ ~up /\ starts < MaxStarts
  /\ up' = TRUE /\ fenced' = FALSE /\ starts' = starts + 1
  /\ tokens' = Without(tokens, Expired(tokens))
  /\ codes' = Without(codes, ExpiredCodes)
  /\ UNCHANGED <<now, about, mcp, approval, logins, forms, issued, traded, approved, gated>>

Tick == now < MaxClock /\ now' = now + 1 /\ UNCHANGED <<process, oauth, mcp>>

HttpInit ==
  /\ now = 0 /\ up = TRUE /\ fenced = FALSE /\ starts = 0
  /\ about \in {"authorization", "sessions"}
  /\ approval \in BOOLEAN
  /\ codes = <<>> /\ tokens = <<>> /\ logins = <<>> /\ forms = {}
  /\ sessions = <<>> /\ transport = [t \in Transport |-> "unused"]
  /\ responses = {} /\ reserved = {} /\ pendingSessions = 0
  /\ issued = [codes |-> 0, tokens |-> 0, logins |-> 0]
  /\ traded = [c \in 1 .. MaxCodes |-> 0]
  /\ approved = {} /\ gated = {}

AuthorizationStep ==
  \/ \E ar \in AuthorizeRequest :
       \/ Authorize(ar)
       \/ \E l \in DOMAIN logins : ShowConsent(ar, l)
       \/ \E f \in forms : Approve(f, ar)
       \/ \E c \in DOMAIN codes : FailedExchange(c, ar)
  \/ \E c \in DOMAIN codes : Exchange(c) \/ ExchangeTorn(c)
  \/ issueDashboardSession \/ SetApproval

SessionStep ==
  \/ \E t \in Transport, cred \in DOMAIN tokens \union {Key} :
       BeginSession(t, cred) \/ UseSession(t, cred) \/ EndSession(t, cred)
  \/ \E t \in Transport : SessionStarts(t) \/ SessionRefused(t) \/ ResponseCloses(t)
  \/ Fence

HttpNext ==
  \/ about = "authorization" /\ AuthorizationStep
  \/ about = "sessions" /\ SessionStep
  \/ ClientCredentials \/ PresentLate \/ Cleanup \/ Stop \/ Start \/ Tick

HttpSpec == HttpInit /\ [][HttpNext]_httpVars

-----------------------------------------------------------------------------
(* Properties.                                                             *)

(* The state is well typed: what is stored was issued, what is in memory   *)
(* is gone with the process, and no more logins are valid at once than the *)
(* cap allows.                                                             *)
HttpTypeOK ==
  /\ now \in 0 .. MaxClock /\ starts \in 0 .. MaxStarts
  /\ {up, fenced, approval} \subseteq BOOLEAN
  /\ DOMAIN codes \subseteq 1 .. issued.codes /\ Range(codes) \subseteq Code
  /\ DOMAIN tokens \subseteq 1 .. issued.tokens /\ Range(tokens) \subseteq Nat
  /\ DOMAIN logins \subseteq 1 .. issued.logins /\ Range(logins) \subseteq Nat
  /\ Cardinality(DOMAIN logins) <= MAX_DASHBOARD_SESSIONS
  /\ DOMAIN sessions \subseteq Transport /\ Range(sessions) \subseteq Nat
  /\ transport \in [Transport -> {"unused", "starting", "open", "closed"}]
  /\ reserved \subseteq responses /\ responses \subseteq Transport
  /\ approved \subseteq AuthorizeRequest /\ gated \subseteq 1 .. issued.codes
  /\ traded \in [1 .. MaxCodes -> Nat]
  /\ ~up => logins = <<>> /\ sessions = <<>> /\ responses = {}

(* A code brings one token in its life, whatever is presented again after  *)
(* a crash in the middle of the exchange or a restart (http.ts:519-524).   *)
OneTokenPerCode == \A c \in 1 .. MaxCodes : traded[c] <= 1

(* With the gate on, a form only ever brings a code for exactly what the   *)
(* operator was shown and approved, however the form's fields, the logins  *)
(* and the gate changed in between (http.ts:826-845).                      *)
ApprovedOnly ==
  \A c \in gated \intersect DOMAIN codes :
    [redirect |-> codes[c].redirect, challenge |-> codes[c].challenge] \in approved

(* The list of sessions stays within its cap while initializations race,   *)
(* every listed session has an open transport, and the counter of pending  *)
(* initializations is exactly the reservations not given back: a refused   *)
(* request or a lost client neither leaks one nor returns it twice         *)
(* (http.ts:1083-1106).                                                    *)
SessionsCounted ==
  /\ HttpTypeOK
  /\ Cardinality(DOMAIN sessions) <= MAX_SESSIONS
  /\ \A t \in Transport : t \in DOMAIN sessions <=> transport[t] = "open"
  /\ pendingSessions = Cardinality(reserved)

(* A session goes for one of four reasons: its client ended it, the        *)
(* process did, nobody used it for SessionTTL, or the list was full and    *)
(* nobody was idler (http.ts:1015-1062).                                   *)
ActiveSessionsStay ==
  [][\A t \in DOMAIN sessions \ DOMAIN sessions' :
       \/ ~up' \/ \E cred \in DOMAIN tokens \union {Key} : EndSession(t, cred)
       \/ now - sessions[t] > SessionTTL
       \/ /\ Cardinality(DOMAIN sessions) >= MAX_SESSIONS
          /\ \A u \in DOMAIN sessions : sessions[t] <= sessions[u]]_httpVars

(* A code waits for its holder: attempts with a wrong verifier or redirect *)
(* do not spend it, only time, its exchange and a crash within it do       *)
(* (http.ts:478-519).                                                      *)
CodeWaitsForHolder ==
  [][\A c \in DOMAIN codes \ DOMAIN codes' :
       now > codes[c].expires \/ traded'[c] > traded[c] \/ ~up']_httpVars
=============================================================================
