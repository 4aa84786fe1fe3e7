----------------------------- MODULE ToolServer -----------------------------
(***************************************************************************)
(* The remote tool server (mcp-server/): BulwriterOAuthProvider, the        *)
(* POST /mcp endpoint, getFreshToken's cache of the session's JWT and       *)
(* callApi.  Connectors register, log in and call tools; everything the     *)
(* server knows is in memory.  A handler runs to its next await without a   *)
(* break.  Connectors repeat requests and lose answers.                     *)
(*                                                                          *)
(* Tokens are numbered in the order they are issued, a code is the number   *)
(* of its login.  Time is counted in ticks; an HTTP exchange with Clerk or  *)
(* the API has at most Slack ticks on each of its ways.                     *)
(***************************************************************************)
EXTENDS Naturals

CONSTANTS Connectors,
          CodeTTL,      \* AUTH_CODE_TTL_MS
          AccessTTL,    \* ACCESS_TOKEN_TTL_SECONDS
          CacheTTL,     \* TOKEN_TTL_MS
          JwtTTL,       \* how long Clerk's JWT is good for
          MaxLogins,    \* bound: logins
          MaxAsked,     \* bound: requests for tokens
          MaxCalls,     \* bound: tool calls
          MaxTime,      \* bound: ticks
          MaxRestarts   \* bound: restarts of the server

ASSUME LifetimesAssumption ==
  /\ {CodeTTL, AccessTTL, CacheTTL, JwtTTL} \subseteq Nat
  /\ CacheTTL < JwtTTL /\ JwtTTL < 2 * CacheTTL
ASSUME BoundsAssumption == {MaxLogins, MaxAsked, MaxCalls, MaxTime, MaxRestarts} \subseteq Nat

Slack == JwtTTL - CacheTTL

VARIABLES
  clients,        \* BulwriterOAuthProvider.clients
  codes,          \* BulwriterOAuthProvider.codes
  accessTokens,   \* BulwriterOAuthProvider.accessTokens
  refreshTokens,  \* BulwriterOAuthProvider.refreshTokens
  cached,         \* clerk.ts: cachedToken, as its time of birth, and cachedAt
  grants,         \* POST /token requests on their way
  calls,          \* POST /mcp requests on their way
  held,           \* what each connector has been told: codes and tokens
  now,
  logins, issued, asked, made, restarts,   \* so far
  exchanged,      \* history: the logins whose code has been exchanged, and how often
  refused         \* history: calls the API refused for their JWT

oauth == <<clients, codes, accessTokens, refreshTokens>>
bounded == <<logins, issued, asked, made, restarts>>
vars == <<oauth, cached, grants, calls, held, now, bounded, exchanged, refused>>

NoToken == [born |-> 0, at |-> 0, set |-> FALSE]
Nothing == [codes |-> {}, access |-> {}, refresh |-> {}]

Init ==
  /\ clients = {} /\ codes = {} /\ accessTokens = {} /\ refreshTokens = {}
  /\ cached = NoToken
  /\ grants = {} /\ calls = {}
  /\ held = [c \in Connectors |-> Nothing]
  /\ now = 0 /\ logins = 0 /\ issued = 0 /\ asked = 0 /\ made = 0 /\ restarts = 0
  /\ exchanged = [l \in 1..MaxLogins |-> 0]
  /\ refused = 0

-----------------------------------------------------------------------------
(* clientsStore.registerClient *)
RegisterClient(c) ==
  /\ c \notin clients
  /\ clients' = clients \union {c}
  /\ UNCHANGED <<codes, accessTokens, refreshTokens, cached, grants, calls, held, now,
                 bounded, exchanged, refused>>

(* authorize, posted with the right password: the redirect carries the code. *)
(* The form and a wrong password change nothing.                             *)
Authorize(c) ==
  /\ c \in clients /\ logins < MaxLogins
  /\ logins' = logins + 1
  /\ codes' = codes \union {[login |-> logins + 1, client |-> c, expiresAt |-> now + CodeTTL]}
  /\ held' = [held EXCEPT ![c].codes = @ \union {logins + 1}]
  /\ UNCHANGED <<clients, accessTokens, refreshTokens, cached, grants, calls, now,
                 issued, asked, made, restarts, exchanged, refused>>

(* A connector asks for tokens with a code or a refresh token it holds, again *)
(* if it likes: before the answer, or after it was lost.                      *)
AskTokens(c) ==
  /\ asked < MaxAsked
  /\ asked' = asked + 1
  /\ \E kind \in {"code", "refresh"} :
       \E x \in IF kind = "code" THEN held[c].codes ELSE held[c].refresh :
         grants' = grants \union {[id |-> asked + 1, client |-> c, kind |-> kind, of |-> x]}
  /\ UNCHANGED <<oauth, cached, calls, held, now, logins, issued, made, restarts, exchanged, refused>>

(* The stored code, if it is this client's and has not expired. *)
Stored(q) == {k \in codes : k.login = q.of /\ k.client = q.client /\ now <= k.expiresAt}

(* InvalidGrantError, or a client the server does not know. *)
Refuse(q) ==
  /\ q.client \in clients =>
       IF q.kind = "refresh" THEN \A t \in refreshTokens : t.id = q.of => t.client # q.client
                             ELSE Stored(q) = {}
  /\ grants' = grants \ {q}
  /\ UNCHANGED <<oauth, cached, calls, held, now, bounded, exchanged, refused>>

(* challengeForAuthorizationCode; the verifier is compared with it after an await. *)
Challenge(q) ==
  /\ q.kind = "code" /\ q.client \in clients /\ Stored(q) # {}
  /\ grants' = (grants \ {q}) \union {[q EXCEPT !.kind = "verified"]}
  /\ UNCHANGED <<oauth, cached, calls, held, now, bounded, exchanged, refused>>

NewRefreshToken(c, login) == [id |-> issued + 1, client |-> c, login |-> login]

(* issueTokens; the answer arrives or is lost. *)
IssueTokens(c) ==
  /\ issued' = issued + 1
  /\ accessTokens' = accessTokens \union {[id |-> issued + 1, client |-> c, expiresAt |-> now + AccessTTL]}
  /\ \/ held' = [held EXCEPT ![c].access = {issued + 1}, ![c].refresh = {issued + 1}]
     \/ UNCHANGED held

(* Faulty: the code was looked up with the challenge and is taken to be there still. *)
ExchangeVerifiedCode(q) ==
  /\ q.kind = "verified"
  /\ codes' = {k \in codes : k.login # q.of}
  /\ IssueTokens(q.client)
  /\ refreshTokens' = refreshTokens \union {NewRefreshToken(q.client, q.of)}
  /\ exchanged' = [exchanged EXCEPT ![q.of] = @ + 1]
  /\ grants' = grants \ {q}
  /\ UNCHANGED <<clients, cached, calls, now, logins, asked, made, restarts, refused>>

(* exchangeAuthorizationCode: looks again, and deletes in the same breath. *)
ExchangeAuthorizationCode(q) ==
  /\ q.kind = "verified" /\ Stored(q) # {}
  /\ codes' = codes \ Stored(q)
  /\ IssueTokens(q.client)
  /\ refreshTokens' = refreshTokens \union {NewRefreshToken(q.client, q.of)}
  /\ exchanged' = [exchanged EXCEPT ![q.of] = @ + 1]
  /\ grants' = grants \ {q}
  /\ UNCHANGED <<clients, cached, calls, now, logins, asked, made, restarts, refused>>

(* exchangeRefreshToken: the old one goes, the access token that came with it stays. *)
ExchangeRefreshToken(q) ==
  /\ q.kind = "refresh" /\ q.client \in clients
  /\ \E t \in refreshTokens :
       /\ t.id = q.of /\ t.client = q.client
       /\ IssueTokens(q.client)
       /\ refreshTokens' = (refreshTokens \ {t}) \union {NewRefreshToken(q.client, t.login)}
  /\ grants' = grants \ {q}
  /\ UNCHANGED <<clients, codes, cached, calls, now, logins, asked, made, restarts, exchanged, refused>>

-----------------------------------------------------------------------------
(* callApi, once it has a token: the request leaves. *)
Send(c, born) == [c EXCEPT !.stage = "sent", !.born = born, !.since = now]

(* POST /mcp: verifyAccessToken, then the tool, which takes the cached JWT ... *)
VerifyAccessToken(token) ==
  \E t \in accessTokens : t.id = token /\ now <= t.expiresAt

CallTool(c) ==
  /\ made < MaxCalls
  /\ made' = made + 1
  /\ \E token \in held[c].access :
       IF VerifyAccessToken(token)
       THEN /\ LET call == [id |-> made + 1, stage |-> "mint", born |-> 0, since |-> now, started |-> now]
               IN calls' = calls \union
                    {IF cached.set /\ now - cached.at < CacheTTL THEN Send(call, cached.born) ELSE call}
            /\ UNCHANGED accessTokens
       ELSE /\ accessTokens' = {t \in accessTokens : t.id # token}
            /\ UNCHANGED calls
  /\ UNCHANGED <<clients, codes, refreshTokens, cached, grants, held, now, logins, issued,
                 asked, restarts, exchanged, refused>>

(* ... or asks Clerk for a new one, which issues it when the request arrives ... *)
Mint(c) ==
  /\ c.stage = "mint"
  /\ calls' = (calls \ {c}) \union {[c EXCEPT !.stage = "minted", !.born = now, !.since = now]}
  /\ UNCHANGED <<oauth, cached, grants, held, now, bounded, exchanged, refused>>

(* Faulty: the cache's age is counted from the answer. *)
GetFreshTokenLate(c) ==
  /\ c.stage = "minted"
  /\ cached' = [born |-> c.born, at |-> now, set |-> TRUE]
  /\ calls' = (calls \ {c}) \union {Send(c, c.born)}
  /\ UNCHANGED <<oauth, grants, held, now, bounded, exchanged, refused>>

(* ... and keeps the answer, as old as the question, over whatever is cached by then. *)
GetFreshToken(c) ==
  /\ c.stage = "minted"
  /\ cached' = [born |-> c.born, at |-> c.started, set |-> TRUE]
  /\ calls' = (calls \ {c}) \union {Send(c, c.born)}
  /\ UNCHANGED <<oauth, grants, held, now, bounded, exchanged, refused>>

(* Clerk or the connection fails: the tool answers with the error. *)
CallFailed(c) ==
  /\ calls' = calls \ {c}
  /\ UNCHANGED <<oauth, cached, grants, held, now, bounded, exchanged, refused>>

(* The API verifies the JWT on arrival. *)
CallApi(c) ==
  /\ c.stage = "sent"
  /\ refused' = IF now - c.born < JwtTTL THEN refused ELSE refused + 1
  /\ calls' = calls \ {c}
  /\ UNCHANGED <<oauth, cached, grants, held, now, bounded, exchanged>>

Tick ==
  /\ now < MaxTime
  /\ \A c \in calls : now < c.since + Slack
  /\ now' = now + 1
  /\ UNCHANGED <<oauth, cached, grants, calls, held, bounded, exchanged, refused>>

(* A redeploy: what is in memory is gone, and with it every request on its way. *)
Restart ==
  /\ restarts < MaxRestarts
  /\ restarts' = restarts + 1
  /\ clients' = {} /\ codes' = {} /\ accessTokens' = {} /\ refreshTokens' = {}
  /\ cached' = NoToken /\ grants' = {} /\ calls' = {}
  /\ UNCHANGED <<held, now, logins, issued, asked, made, exchanged, refused>>

Next ==
  \/ Tick \/ Restart
  \/ \E c \in Connectors : RegisterClient(c) \/ Authorize(c) \/ AskTokens(c) \/ CallTool(c)
  \/ \E q \in grants : \/ Refuse(q) \/ Challenge(q)
                       \/ ExchangeAuthorizationCode(q) \/ ExchangeRefreshToken(q)
  \/ \E c \in calls : Mint(c) \/ GetFreshToken(c) \/ CallFailed(c) \/ CallApi(c)

Spec == Init /\ [][Next]_vars

-----------------------------------------------------------------------------
TypeOK ==
  /\ clients \subseteq Connectors
  /\ \A k \in codes : k.login \in 1..logins /\ k.client \in Connectors
  /\ \A t \in accessTokens \union refreshTokens : t.id \in 1..issued /\ t.client \in Connectors
  /\ \A q \in grants : q.kind \in {"code", "verified", "refresh"} /\ q.client \in Connectors
  /\ \A c \in calls : c.stage \in {"mint", "minted", "sent"} /\ c.born <= now /\ c.started <= now
  /\ cached.at <= now /\ cached.born <= now
  /\ exchanged \in [1..MaxLogins -> Nat] /\ refused \in Nat

(* A login is good for one grant: its code is exchanged once, however often and *)
(* in whatever order the connector asks, and rotation leaves one refresh token.  *)
OneGrantPerLogin ==
  /\ \A l \in 1..MaxLogins : exchanged[l] <= 1
  /\ \A s, t \in refreshTokens \union codes : s.login = t.login => s = t

(* The cache never hands out a JWT that has died by the time the API sees it. *)
JwtAliveWhenUsed == refused = 0

=============================================================================
